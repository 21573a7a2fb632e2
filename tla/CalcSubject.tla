------------------------------ MODULE CalcSubject ------------------------------
(***************************************************************************)
(* subject/calc/calc.c, one of the traced programs: what its recursive      *)
(* descent shows the debugger on an input.  A run is a record               *)
(*   at    the input position (idx + 1), reg  the last method id,           *)
(*   n     the instructions stepped (one per source read, advance, return), *)
(*   shown the values seen: [from, to, mid, at], oldest first.              *)
(* The program has no other state; a value past the end is no input.        *)
(***************************************************************************)
EXTENDS Integers, Sequences

Digits == {"0", "1", "2", "3", "4", "5", "6", "7", "8", "9"}

Values == [from : Nat, to : Nat, mid : Nat, at : Nat]
Runs   == [at : Nat \ {0}, reg : Nat, n : Nat, shown : Seq(Values)]

\* A run that has come to a method with this id.
Calls          == [run : Runs, id : Nat]
InMethod(r, m) == [run |-> r, id |-> m]

\* An instruction of m has the character at position p in a register.
Show(r, s, p, m) ==
    [r EXCEPT !.n = @ + 1,
              !.shown = IF p <= Len(s)
                        THEN Append(@, [from |-> p, to |-> p, mid |-> m, at |-> r.n + 1])
                        ELSE @]
\* char c = my_string[idx], then isdigit(c): the same instance of the program
\* has the character in a register twice.
ShowTested(r, p, m) ==
    LET v(n) == [from |-> p, to |-> p, mid |-> m, at |-> n]
    IN  [r EXCEPT !.n = @ + 2, !.shown = @ \o <<v(r.n + 1), v(r.n + 2)>>]
Advance(r) == [r EXCEPT !.at = @ + 1, !.n = @ + 1]
Leave(r)   == [r EXCEPT !.n = @ + 1]
Call(r)    == [r EXCEPT !.reg = @ + 1]

\* What parse_num makes of a run on s.
parse_num(s) ==
    LET num[x \in Calls] ==
            LET seen == ShowTested(x.run, x.run.at, x.id)
            IN  IF x.run.at > Len(s) THEN Leave(x.run)
                ELSE IF s[x.run.at] \in Digits THEN num[InMethod(Advance(seen), x.id)]
                ELSE Leave(seen)
    IN  num

\* parse_expr, with parse_paren in line: its id is that of the record the call
\* leaves, and it opens with the read of "(".
parse_expr(s) ==
    LET expr[x \in Calls] ==
            LET seen   == ShowTested(x.run, x.run.at, x.id)
                callee == seen.reg + 1
                opened == Call(Advance(Show(Call(seen), s, x.run.at, callee)))
                parsed == expr[InMethod(opened, opened.reg)]
                closed == Show(parsed, s, parsed.at, callee)
            IN  IF x.run.at > Len(s) THEN Leave(x.run)
                ELSE CASE s[x.run.at] \in Digits ->
                              expr[InMethod(parse_num(s)[InMethod(Call(seen), callee)], x.id)]
                       [] s[x.run.at] = "(" ->
                              expr[InMethod(Leave(IF parsed.at <= Len(s) /\ s[parsed.at] = ")"
                                                  THEN Advance(closed) ELSE closed), x.id)]
                       [] s[x.run.at] = ")" -> Leave(seen)
                       [] OTHER -> expr[InMethod(Advance(seen), x.id)]
    IN  expr

\* main is method 1 and calls parse_expr.
CalcShown(s) == parse_expr(s)[InMethod([at |-> 1, reg |-> 2, n |-> 0, shown |-> <<>>], 2)].shown
================================================================================

------------------------------ MODULE TinyCMeaning ------------------------------
(***************************************************************************)
(* What Tiny-C means, and which texts belong to it, independently of the    *)
(* compiler: the grammar at the head of tiny.c, read as what derives from   *)
(* what, and an evaluator over the derivations.  The properties.            *)
(***************************************************************************)
EXTENDS TinyC

(* The grammar: t[i .. j] derives from ...                                      *)

RECURSIVE Expr(_, _, _), Statement(_, _, _), Sum(_, _, _), Statements(_, _, _)

ParenExpr(t, i, j) == j > i + 1 /\ t[i] = "(" /\ t[j] = ")" /\ Expr(t, i + 1, j - 1)
Term(t, i, j) == (i = j /\ t[i] \in Id \cup Num) \/ ParenExpr(t, i, j)
Sum(t, i, j) ==
    \/ Term(t, i, j)
    \/ \E k \in i + 1 .. j - 1 : t[k] \in {"+", "-"} /\ Sum(t, i, k - 1) /\ Term(t, k + 1, j)
Test(t, i, j) ==
    \/ Sum(t, i, j)
    \/ \E k \in i + 1 .. j - 1 : t[k] = "<" /\ Sum(t, i, k - 1) /\ Sum(t, k + 1, j)
Expr(t, i, j) ==
    \/ i <= j /\ Test(t, i, j)
    \/ i + 1 < j /\ t[i] \in Id /\ t[i + 1] = "=" /\ Expr(t, i + 2, j)
Statements(t, i, j) == i > j \/ \E k \in i .. j : Statement(t, i, k) /\ Statements(t, k + 1, j)
Statement(t, i, j) ==
    \/ t[i] = "if" /\ \E k \in i + 1 .. j - 1 : ParenExpr(t, i + 1, k) /\
            \/ Statement(t, k + 1, j)
            \/ \E m \in k + 2 .. j - 1 : t[m] = "else" /\ Statement(t, k + 1, m - 1) /\ Statement(t, m + 1, j)
    \/ t[i] = "while" /\ \E k \in i + 1 .. j - 1 : ParenExpr(t, i + 1, k) /\ Statement(t, k + 1, j)
    \/ t[i] = "do" /\ t[j] = ";" /\ \E k \in i + 2 .. j - 2 :
            t[k] = "while" /\ Statement(t, i + 1, k - 1) /\ ParenExpr(t, k + 1, j - 1)
    \/ t[i] = "{" /\ t[j] = "}" /\ i < j /\ Statements(t, i + 1, j - 1)
    \/ t[j] = ";" /\ (i = j \/ Expr(t, i, j - 1))

------------------------------------------------------------------------------
(* What t[i .. j] means.  An else belongs to the nearest if.                    *)

RECURSIVE Evaluated(_, _, _, _), Executed(_, _, _, _)

LastOf(S) == CHOOSE k \in S : \A l \in S : l <= k
SumAt(t, i, j)  == {k \in i + 1 .. j - 1 : t[k] \in {"+", "-"} /\ Sum(t, i, k - 1) /\ Term(t, k + 1, j)}
LessAt(t, i, j) == {k \in i + 1 .. j - 1 : t[k] = "<" /\ Sum(t, i, k - 1) /\ Sum(t, k + 1, j)}

\* The value v of an expression and the globals g after it, from the left.
Evaluated(t, i, j, g) ==
    LET binary(k) == LET l == Evaluated(t, i, k - 1, g)
                         r == Evaluated(t, k + 1, j, l.g)
                     IN  [v |-> CASE t[k] = "+" -> l.v + r.v
                                  [] t[k] = "-" -> l.v - r.v
                                  [] t[k] = "<" -> IF l.v < r.v THEN 1 ELSE 0,
                          g |-> r.g]
    IN  CASE i = j -> [v |-> IF t[i] \in Num THEN Value(t[i]) ELSE g[VarIndex(t[i])], g |-> g]
          [] i < j /\ t[i + 1] = "=" ->
                LET e == Evaluated(t, i + 2, j, g)
                IN  [e EXCEPT !.g[VarIndex(t[i])] = e.v]
          [] i < j /\ LessAt(t, i, j) # {} -> binary(LastOf(LessAt(t, i, j)))
          [] i < j /\ SumAt(t, i, j) # {}  -> binary(LastOf(SumAt(t, i, j)))
          [] i < j /\ ParenExpr(t, i, j)   -> Evaluated(t, i + 1, j - 1, g)

\* The globals after a statement.  Its loops end when the machine has halted.
Executed(t, i, j, g) ==
    LET close   == CHOOSE k \in i + 1 .. j : ParenExpr(t, i + 1, k)
        cond    == Evaluated(t, i + 1, close, g)
        else    == LastOf({m \in close + 2 .. j - 1 :
                              t[m] = "else" /\ Statement(t, close + 1, m - 1) /\ Statement(t, m + 1, j)})
        until   == LastOf({k \in i + 2 .. j - 2 : t[k] = "while" /\ Statement(t, i + 1, k - 1) /\ ParenExpr(t, k + 1, j - 1)})
        again   == Evaluated(t, until + 1, j - 1, Executed(t, i + 1, until - 1, g))
        body[p \in 1 .. Len(t) + 1, h \in [DOMAIN Var -> Int]] ==
            IF p = j THEN h
            ELSE LET q == CHOOSE k \in p .. j - 1 : Statement(t, p, k) /\ Statements(t, k + 1, j - 1)
                 IN  body[q + 1, Executed(t, p, q, h)]
    IN  CASE t[i] = "if" ->
                IF Statement(t, close + 1, j)
                THEN IF cond.v # 0 THEN Executed(t, close + 1, j, cond.g) ELSE cond.g
                ELSE IF cond.v # 0 THEN Executed(t, close + 1, else - 1, cond.g)
                                   ELSE Executed(t, else + 1, j, cond.g)
          [] t[i] = "while" ->
                IF cond.v # 0 THEN Executed(t, i, j, Executed(t, close + 1, j, cond.g)) ELSE cond.g
          [] t[i] = "do" -> IF again.v # 0 THEN Executed(t, i, j, again.g) ELSE again.g
          [] t[i] = "{"  -> body[i + 1, g]
          [] t[i] = ";"  -> g
          [] OTHER       -> Evaluated(t, i, j - 1, g).g

------------------------------------------------------------------------------

Halted == pc \in DOMAIN object /\ object[pc] = Op.HALT
Operands == [op \in 0 .. 10 |->
                CASE op \in {Op.IADD, Op.ISUB, Op.ILT} -> 2
                  [] op \in {Op.ISTORE, Op.IPOP, Op.JZ, Op.JNZ} -> 1
                  [] OTHER -> 0]

\* The chars can hold every jump (a short program has no other jumps).  Where
\* one does not fit, tiny.c has no check, and nothing is said of the machine.
JumpsFit == Len(object) <= 128 \/ LET s == c(program(text).x) IN \A i \in DOMAIN s : s[i] \in -128 .. 127

\* The machine stays on instructions and finds their operands on its stack,
\* wherever the jumps that fix filled in lead it, if the holes can hold them:
\* 127 forward and 128 back at most.
OnInstructions ==
    object # <<>> /\ JumpsFit => /\ pc \in DOMAIN object /\ object[pc] \in DOMAIN Operands
                     /\ Len(stack) >= Operands[object[pc]]

\* When run() returns, the variables are what the program means and nothing is
\* left on the stack (the parser, the code generator and run together),
\* unless a number or a jump is too large for a code.
NumbersFit == \A i \in DOMAIN text : text[i] \in Num => Value(text[i]) <= 127
ComputesMeaning ==
    Halted /\ NumbersFit /\ JumpsFit =>
        globals = Executed(text, 1, Len(text), [i \in DOMAIN Var |-> 0]) /\ stack = <<>>

\* program() accepts what the grammar at the head of tiny.c derives.
ParsesGrammar == steps = 0 => (Accepts(text) <=> (text # <<>> /\ Statement(text, 1, Len(text))))
================================================================================

--------------------------------- MODULE TinyC ---------------------------------
(***************************************************************************)
(* subject/tinyC/tiny.c, one of the traced programs: the parser and code    *)
(* generator as operators on the token sequence the lexer delivers, the     *)
(* virtual machine as a state machine with one action per opcode.  The      *)
(* spelling of words and numbers in the lexer is left out.                  *)
(***************************************************************************)
EXTENDS Integers, Sequences, FiniteSets, SequencesExt

CONSTANTS
    Texts,    \* the token sequences that may be compiled
    Id, Num,  \* the tokens that are identifiers and numbers
    Value(_), \* what next_sym makes of a number: int_val
    MaxSteps  \* bound: instructions executed

VARIABLES text, object, pc, stack, globals, steps

vars == <<text, object, pc, stack, globals, steps>>

------------------------------------------------------------------------------
(* The parser.  A parse is [p, x]: the position of sym and the node, p being 0  *)
(* after syntax_error.                                                          *)

Node(k, o, v)  == [kind |-> k, o |-> o, val |-> v]
Error          == [p |-> 0, x |-> Node("EMPTY", <<>>, 0)]
Parse(p, x)    == [p |-> p, x |-> x]
Sym(t, p)      == CASE p = 0 -> "error" [] p > Len(t) -> "EOI" [] OTHER -> t[p]
Expect(t, r, s) == IF Sym(t, r.p) = s THEN Parse(r.p + 1, r.x) ELSE Error
\* The node of kind k over x and what is parsed next.
Over(r, k, x)  == IF r.p = 0 THEN Error ELSE Parse(r.p, Node(k, <<x, r.x>>, 0))

RECURSIVE expr(_, _), statement(_, _), sums(_, _), block(_, _)

paren_expr(t, p) ==
    IF Sym(t, p) = "(" THEN Expect(t, expr(t, p + 1), ")") ELSE Error

term(t, p) ==
    CASE Sym(t, p) \in Id  -> Parse(p + 1, Node("VAR", <<>>, t[p]))
      [] Sym(t, p) \in Num -> Parse(p + 1, Node("CST", <<>>, Value(t[p])))
      [] OTHER -> paren_expr(t, p)

\* Mutant: operators associate to the right.
sums_Right(t, r) ==
    LET kind == [s \in {"+", "-"} |-> IF s = "+" THEN "ADD" ELSE "SUB"]
    IN  IF Sym(t, r.p) \in {"+", "-"}
        THEN Over(sums(t, term(t, r.p + 1)), kind[Sym(t, r.p)], r.x) ELSE r

sums(t, r) ==
    LET kind == [s \in {"+", "-"} |-> IF s = "+" THEN "ADD" ELSE "SUB"]
    IN  IF Sym(t, r.p) \in {"+", "-"}
        THEN sums(t, Over(term(t, r.p + 1), kind[Sym(t, r.p)], r.x)) ELSE r
sum(t, p) == sums(t, term(t, p))

test(t, p) ==
    LET r == sum(t, p)
    IN  IF Sym(t, r.p) = "<" THEN Over(sum(t, r.p + 1), "LT", r.x) ELSE r

\* Mutant: a variable in parentheses is assigned to as well.
expr_Paren(t, p) ==
    LET r == test(t, p)
    IN  IF r.x.kind = "VAR" /\ Sym(t, r.p) = "=" THEN Over(expr(t, r.p + 1), "SET", r.x) ELSE r

expr(t, p) ==
    LET r == test(t, p)
    IN  IF Sym(t, p) \in Id /\ r.x.kind = "VAR" /\ Sym(t, r.p) = "="
        THEN Over(expr(t, r.p + 1), "SET", r.x) ELSE r

\* The statements up to the closing brace, r being those before.
block(t, r) ==
    CASE r.p = 0           -> Error
      [] Sym(t, r.p) = "}" -> Parse(r.p + 1, r.x)
      [] OTHER             -> block(t, Over(statement(t, r.p), "SEQ", r.x))

statement(t, p) ==
    CASE Sym(t, p) = "if" ->
            LET cond == paren_expr(t, p + 1)
                then == statement(t, cond.p)
                other == statement(t, then.p + 1)
            IN  IF Sym(t, then.p) # "else" THEN Over(then, "IF1", cond.x)
                ELSE IF other.p = 0 THEN Error
                ELSE Parse(other.p, Node("IF2", <<cond.x, then.x, other.x>>, 0))
      [] Sym(t, p) = "while" ->
            LET cond == paren_expr(t, p + 1) IN Over(statement(t, cond.p), "WHILE", cond.x)
      [] Sym(t, p) = "do" ->
            LET body == statement(t, p + 1)
                cond == paren_expr(t, Expect(t, body, "while").p)
            IN  Over(Expect(t, cond, ";"), "DO", body.x)
      [] Sym(t, p) = ";" -> Parse(p + 1, Node("EMPTY", <<>>, 0))
      [] Sym(t, p) = "{" -> block(t, Parse(p + 1, Node("EMPTY", <<>>, 0)))
      [] OTHER ->
            LET r == Expect(t, expr(t, p), ";")
            IN  IF r.p = 0 THEN Error ELSE Parse(r.p, Node("EXPR", <<r.x>>, 0))

program(t) == Expect(t, statement(t, 1), "EOI")
Accepts(t) == program(t).p # 0

------------------------------------------------------------------------------
(* The code generator.  Jumps are relative to the hole that holds them, so the  *)
(* code of a node does not depend on where it goes.  What fix puts into a hole   *)
(* is a char as well: Object has it as it is stored, c as it should be.          *)

Var == <<"a", "b", "c">>
Op  == [IFETCH |-> 0, ISTORE |-> 1, IPUSH |-> 2, IPOP |-> 3, IADD |-> 4, ISUB |-> 5,
        ILT |-> 6, JZ |-> 7, JNZ |-> 8, JMP |-> 9, HALT |-> 10]

\* Mutant: the type code is unsigned char.
code_Unsigned(v) == v % 256

\* The type code is char.
code(v) == ((v + 128) % 256) - 128

VarIndex(name) == CHOOSE i \in DOMAIN Var : Var[i] = name

RECURSIVE c(_)
c(x) ==
    LET o == [i \in DOMAIN x.o |-> c(x.o[i])]
        jump(op, by) == <<op, by>>
    IN  CASE x.kind = "VAR"  -> <<Op.IFETCH, VarIndex(x.val)>>
          [] x.kind = "CST"  -> <<Op.IPUSH, code(x.val)>>
          [] x.kind = "ADD"  -> o[1] \o o[2] \o <<Op.IADD>>
          [] x.kind = "SUB"  -> o[1] \o o[2] \o <<Op.ISUB>>
          [] x.kind = "LT"   -> o[1] \o o[2] \o <<Op.ILT>>
          [] x.kind = "SET"  -> o[2] \o <<Op.ISTORE, VarIndex(x.o[1].val)>>
          [] x.kind = "IF1"  -> o[1] \o jump(Op.JZ, Len(o[2]) + 1) \o o[2]
          [] x.kind = "IF2"  -> o[1] \o jump(Op.JZ, Len(o[2]) + 3) \o o[2] \o jump(Op.JMP, Len(o[3]) + 1) \o o[3]
          [] x.kind = "WHILE" ->
                o[1] \o jump(Op.JZ, Len(o[2]) + 3) \o o[2] \o jump(Op.JMP, -(Len(o[1]) + Len(o[2]) + 3))
          [] x.kind = "DO"   -> o[1] \o o[2] \o jump(Op.JNZ, -(Len(o[1]) + Len(o[2]) + 1))
          [] x.kind = "EMPTY" -> <<>>
          [] x.kind = "SEQ"  -> o[1] \o o[2]
          [] x.kind = "EXPR" -> o[1] \o <<Op.IPOP>>

Object(t) ==
    LET generated == Append(c(program(t).x), Op.HALT)
    IN  [i \in DOMAIN generated |-> code(generated[i])]

------------------------------------------------------------------------------
(* The virtual machine, run(), whose call this version of main leaves out.      *)

Init ==
    /\ text \in Texts
    /\ object = IF Accepts(text) THEN Object(text) ELSE <<>>
    /\ pc = 1
    /\ stack = <<>>
    /\ globals = [i \in DOMAIN Var |-> 0]
    /\ steps = 0

At(op)  == /\ pc \in DOMAIN object /\ object[pc] = op
           /\ steps < MaxSteps /\ steps' = steps + 1
           /\ UNCHANGED <<text, object>>
Operand == object[pc + 1]
Top     == Last(stack)
Below   == stack[Len(stack) - 1]

Fetch == At(Op.IFETCH) /\ stack' = Append(stack, globals[Operand]) /\ pc' = pc + 2 /\ UNCHANGED globals
Store == At(Op.ISTORE) /\ globals' = [globals EXCEPT ![Operand] = Top] /\ pc' = pc + 2 /\ UNCHANGED stack
Push  == At(Op.IPUSH) /\ stack' = Append(stack, Operand) /\ pc' = pc + 2 /\ UNCHANGED globals
Pop   == At(Op.IPOP) /\ stack' = Front(stack) /\ pc' = pc + 1 /\ UNCHANGED globals

Binary(op, v) == /\ At(op)
                 /\ stack' = Append(Front(Front(stack)), v)
                 /\ pc' = pc + 1
                 /\ UNCHANGED globals
Add  == Binary(Op.IADD, Below + Top)
Sub  == Binary(Op.ISUB, Below - Top)
Less == Binary(Op.ILT, IF Below < Top THEN 1 ELSE 0)

Jump == At(Op.JMP) /\ pc' = pc + 1 + Operand /\ UNCHANGED <<stack, globals>>
JumpIf(op, taken) == /\ At(op)
                     /\ pc' = IF taken THEN pc + 1 + Operand ELSE pc + 2
                     /\ stack' = Front(stack)
                     /\ UNCHANGED globals
JumpZero    == JumpIf(Op.JZ, Top = 0)
JumpNonzero == JumpIf(Op.JNZ, Top # 0)

Next == \/ Fetch \/ Store \/ Push \/ Pop \/ Add \/ Sub \/ Less
        \/ Jump \/ JumpZero \/ JumpNonzero

Spec == Init /\ [][Next]_vars
================================================================================

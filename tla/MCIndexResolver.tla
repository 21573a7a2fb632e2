---------------------------- MODULE MCIndexResolver ----------------------------
(* IndexResolver on the programs calc.c and cgi_decode.c.                     *)
EXTENDS IndexResolver

Calc == INSTANCE CalcSubject
Cgi  == INSTANCE CgiSubject

Strings(S, n) == UNION {[1 .. k -> S] : k \in 1 .. n}

\* What the subjects show, tabulated for every input and every mutation of it.
CalcTable == [s \in Strings({"1", "2", "+", "(", ")", "x"}, 4) |-> Calc!CalcShown(s)]
CalcShown(s) == CalcTable[s]
CalcInputs   == Strings({"1", "+", "(", ")"}, 4)
CalcBefore   == {<<"1", "1">>}

CgiTable == [s \in Strings({"1", "2", "+", "%", "x", "y"}, 3) |-> Cgi!CgiShown(s)]
CgiShown(s) == CgiTable[s]
CgiSmall    == Strings({"1", "+", "%", "x"}, 3)
================================================================================

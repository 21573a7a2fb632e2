----------------------------- MODULE MCCallTracer -----------------------------
(* Small instances of CallTracer: inputs and what the resolver may answer.   *)
EXTENDS CallTracer

MCInput == <<"1", "+", "1">>
MCUnique == <<"(", "1", ")">>

\* The re-run confirms the index that was read.
ExactOutcomes(p) == {p}
\* The re-run confirms any index of the character, or none.
AnyOutcomes(p) == Duplicates(p) \cup {None}
================================================================================

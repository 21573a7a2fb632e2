------------------------------ MODULE TracePromise ------------------------------
(***************************************************************************)
(* What a trace promises its reader, whichever way the debugger finds out:  *)
(* the comparisons of an index only grow, one method at a time, and a       *)
(* method is put down for an index only once it has read it.                *)
(***************************************************************************)
EXTENDS Integers, Sequences

CONSTANTS Pos, Ids

VARIABLES
    comparisons, \* index -> the methods recorded for it, oldest first
    readers      \* index -> the methods that have read it

vars == <<comparisons, readers>>

Init == comparisons = [i \in Pos |-> <<>>] /\ readers = [i \in Pos |-> {}]

\* The program runs on: more of the input has been read.
ReadersGrow == readers' \in [Pos -> SUBSET Ids] /\ \A i \in Pos : readers[i] \subseteq readers'[i]

\* What was recorded stays; what is added was read.
Recorded == \A i \in Pos :
    \/ comparisons'[i] = comparisons[i]
    \/ \E m \in readers'[i] : comparisons'[i] = Append(comparisons[i], m)

Next == ReadersGrow /\ Recorded /\ comparisons' = [i \in Pos |-> comparisons'[i]]

Spec == Init /\ [][Next]_vars
================================================================================

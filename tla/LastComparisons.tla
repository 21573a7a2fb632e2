---------------------------- MODULE LastComparisons ----------------------------
(***************************************************************************)
(* From a trace to the owner of each index: last_comparisons of             *)
(* Final.ipynb, on the traces of a program that calls, reads and returns,   *)
(* as the tracer records them (module CallTracer): ids are handed out in    *)
(* call order.  The trace is sorted by index, and the comparisons of an     *)
(* index keep their order, so they are kept per index here.                 *)
(***************************************************************************)
EXTENDS Integers, Sequences, SequencesExt, FiniteSetsExt

CONSTANTS
    Size,        \* the length of the input
    MaxMethods,  \* bound: methods called
    MaxReads     \* bound: comparisons in the trace

ASSUME SizeAssumption == Size \in Nat \ {0}

VARIABLES
    stack,       \* the open methods of the program, innermost first
    method_map,  \* method id -> ids of the methods it called
    comparisons, \* index -> the methods that compared it, oldest first
    done,        \* index -> how many of them last_comparisons has looked at
    last_cmp_only, \* index -> the method it is given to, 0 if none yet
    order,       \* the indexes in the order last_cmp_only met them
    LAST_COMPARISON_HEURISTIC, \* the setting of that name
    pc           \* "trace" or "last"

lastVars == <<stack, method_map, comparisons, done, last_cmp_only, order, LAST_COMPARISON_HEURISTIC, pc>>

Pos  == 1 .. Size
main == 1

LastInit ==
    /\ stack = <<main>>
    /\ method_map = <<<<>>>>
    /\ comparisons = [i \in Pos |-> <<>>]
    /\ done = [i \in Pos |-> 0]
    /\ last_cmp_only = [i \in Pos |-> 0] /\ order = <<>>
    /\ LAST_COMPARISON_HEURISTIC \in BOOLEAN
    /\ pc = "trace"

------------------------------------------------------------------------------
(* The traced program. *)

Call ==
    /\ pc = "trace" /\ Len(method_map) < MaxMethods
    /\ LET mid == Len(method_map) + 1
       IN  /\ stack' = <<mid>> \o stack
           /\ method_map' = Append([method_map EXCEPT ![Head(stack)] = Append(@, mid)], <<>>)
    /\ UNCHANGED <<comparisons, done, last_cmp_only, order, LAST_COMPARISON_HEURISTIC, pc>>

Return ==
    /\ pc = "trace" /\ Len(stack) > 1
    /\ stack' = Tail(stack)
    /\ UNCHANGED <<method_map, comparisons, done, last_cmp_only, order, LAST_COMPARISON_HEURISTIC, pc>>

Recorded == UNION {{i} \X DOMAIN comparisons[i] : i \in Pos}

Compare(i) ==
    /\ pc = "trace" /\ Cardinality(Recorded) < MaxReads
    /\ comparisons' = [comparisons EXCEPT ![i] = Append(@, Head(stack))]
    /\ UNCHANGED <<stack, method_map, done, last_cmp_only, order, LAST_COMPARISON_HEURISTIC, pc>>

\* The program may end anywhere.
Finish ==
    /\ pc = "trace"
    /\ pc' = "last"
    /\ UNCHANGED <<stack, method_map, comparisons, done, last_cmp_only, order, LAST_COMPARISON_HEURISTIC>>

------------------------------------------------------------------------------
(* last_comparisons, one comparison at a time *)

\* Mutant: the first index of the method stands for its last.
last_idx_First(m) == Min({i \in Pos : m \in ToSet(comparisons[i])})

last_idx(m) == Max({i \in Pos : m \in ToSet(comparisons[i])})

\* A child keeps its index, unless it is the last one of the method.
Contested(i, m) ==
    /\ LAST_COMPARISON_HEURISTIC /\ last_cmp_only[i] > m
    /\ last_idx(m) # i

Left == {i \in Pos : done[i] < Len(comparisons[i])}

\* The next comparison of index i.
Keep(i) ==
    /\ pc = "last"
    /\ done' = [done EXCEPT ![i] = @ + 1]
    /\ LET m == comparisons[i][done[i] + 1]
       IN  \/ Contested(i, m) /\ UNCHANGED <<last_cmp_only, order>>
           \/ /\ ~Contested(i, m)
              /\ last_cmp_only' = [last_cmp_only EXCEPT ![i] = m]
              /\ order' = IF last_cmp_only[i] = 0 THEN Append(order, i) ELSE order
    /\ UNCHANGED <<stack, method_map, comparisons, LAST_COMPARISON_HEURISTIC, pc>>

\* Mutant: the trace is not sorted by index.
KeepLast_Unsorted == \E i \in Left : Keep(i)

\* The trace is sorted by index.
KeepLast == \E i \in Left : (\A j \in Left : i <= j) /\ Keep(i)

LastNext == Call \/ Return \/ (\E i \in Pos : Compare(i)) \/ Finish \/ KeepLast

LastSpec == LastInit /\ [][LastNext]_lastVars

------------------------------------------------------------------------------
(* Properties *)

Furthest(m, i) == \A j \in Pos : m \in ToSet(comparisons[j]) => j <= i
Readers(i)     == ToSet(comparisons[i])

\* last_comparisons gives an index to the last called of its readers, or to a
\* method for which it is a boundary: one that read nothing beyond it.
DeepestOrBoundary ==
    LAST_COMPARISON_HEURISTIC /\ pc = "last" /\ Left = {} =>
        \A i \in ToSet(order) : LET m == last_cmp_only[i] IN
            m = Max(Readers(i)) \/ (m \in Readers(i) /\ Furthest(m, i))
================================================================================

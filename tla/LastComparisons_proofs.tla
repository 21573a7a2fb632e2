------------------------- MODULE LastComparisons_proofs -------------------------
(* Proofs about the owners that last_comparisons gives the indexes, for     *)
(* every length of the input, every number of methods and every trace.      *)
EXTENDS LastComparisons, Induction, SequenceTheorems, TLAPS

Ids == 1 .. Len(method_map)

TypeInv ==
    /\ method_map \in Seq(Seq(Nat)) /\ method_map # <<>>
    /\ stack \in Seq(Ids) /\ stack # <<>>
    /\ comparisons \in [Pos -> Seq(Ids)]
    /\ done \in [Pos -> Nat] /\ \A i \in Pos : done[i] <= Len(comparisons[i])
    /\ last_cmp_only \in [Pos -> Nat]
    /\ order \in Seq(Pos)
    /\ LAST_COMPARISON_HEURISTIC \in BOOLEAN
    /\ pc \in {"trace", "last"}

\* A method is called later than the one that called it.
IdsGrow == \A p, q \in 1 .. Len(stack) : p < q => stack[q] < stack[p]

\* Once a method has compared an index that a later called one compared
\* before, whatever was called between the two has returned: it is not open,
\* and compares the index no more.
Returned(c, open) ==
    \A p, q \in 1 .. Len(c) : p < q /\ c[q] < c[p] =>
        /\ \A k \in 1 .. Len(open) : open[k] <= c[q] \/ c[p] < open[k]
        /\ \A r \in q + 1 .. Len(c) : c[r] <= c[q] \/ c[p] < c[r]

OthersReturned == \A i \in Pos : Returned(comparisons[i], stack)

\* The owner of an index is a method that compared it, no later called one has
\* done so since, and it is the last called one so far or the index is its last.
Owned(i) == LET c == comparisons[i]
                m == last_cmp_only[i]
            IN  \E k \in 1 .. done[i] :
                    /\ c[k] = m
                    /\ \A j \in k + 1 .. done[i] : c[j] <= m
                    /\ (\A j \in 1 .. done[i] : c[j] <= m) \/ last_idx(m) = i

OwnersInv == /\ pc = "trace" => \A i \in Pos : done[i] = 0
             /\ \A i \in Pos : done[i] = 0 => last_cmp_only[i] = 0
             /\ LAST_COMPARISON_HEURISTIC => \A i \in Pos : done[i] > 0 => Owned(i)
             /\ \A i \in ToSet(order) : done[i] > 0

LInv == TypeInv /\ IdsGrow /\ OthersReturned /\ OwnersInv

------------------------------------------------------------------------------
(* Operators                                                                *)

LEMMA MaxIs ==
    ASSUME NEW S \in SUBSET Pos, S # {}
    PROVE  Max(S) \in S /\ \A y \in S : y <= Max(S)
<1> DEFINE T == {Size - j : j \in S}
<1>1. Size \in Nat /\ \A j \in S : j \in 1 .. Size
  BY SizeAssumption DEF Pos
<1>2. T \in SUBSET Nat /\ T # {}
  BY <1>1
<1>3. PICK x \in T : \A y \in T : x <= y
  BY <1>2, LeastNatural
<1>4. PICK m \in S : x = Size - m
  BY <1>3
<1>5. \A y \in S : m >= y
  <2> TAKE y \in S
  <2>1. x <= Size - y
    BY <1>3
  <2> QED
    BY <1>1, <1>4, <2>1
<1>6. \E w \in S : \A y \in S : w >= y
  BY <1>5
<1>7. Max(S) \in S /\ \A y \in S : Max(S) >= y
  BY <1>6, Zenon DEF Max
<1> QED
  BY <1>1, <1>7

LEMMA MaxUnique ==
    ASSUME NEW S \in SUBSET Nat, NEW m \in S, \A y \in S : y <= m
    PROVE  m = Max(S)
<1>1. \A y \in S : m >= y
  OBVIOUS
<1>2. Max(S) \in S /\ \A y \in S : Max(S) >= y
  BY <1>1, Zenon DEF Max
<1>3. Max(S) \in Nat /\ m \in Nat /\ m >= Max(S) /\ Max(S) >= m
  BY <1>1, <1>2
<1> HIDE DEF Max
<1> QED
  BY <1>3

LEMMA MoreThanOne == \A n \in Nat : n > 1 => n - 1 # 0
OBVIOUS

(* What Append does to a sequence.                                          *)
LEMMA Appended ==
    ASSUME NEW S, NEW s \in Seq(S), NEW e \in S
    PROVE  /\ Append(s, e) \in Seq(S) /\ Len(s) \in Nat
           /\ Len(Append(s, e)) = Len(s) + 1
           /\ \A j \in 1 .. Len(s) : Append(s, e)[j] = s[j]
           /\ Append(s, e)[Len(s) + 1] = e
           /\ ToSet(Append(s, e)) = ToSet(s) \cup {e}
<1>1. /\ Append(s, e) \in Seq(S) /\ Len(s) \in Nat
      /\ Len(Append(s, e)) = Len(s) + 1
      /\ \A j \in 1 .. Len(s) : Append(s, e)[j] = s[j]
      /\ Append(s, e)[Len(s) + 1] = e
  BY AppendProperties, LenProperties
<1>2. DOMAIN s = 1 .. Len(s) /\ DOMAIN Append(s, e) = 1 .. Len(s) + 1
  BY <1>1, LenProperties
<1> DEFINE a == Append(s, e)
<1> HIDE DEF a
<1>3. \A j \in 1 .. Len(s) + 1 : j \in 1 .. Len(s) \/ j = Len(s) + 1
  BY <1>1
<1>4. ToSet(a) \subseteq ToSet(s) \cup {e}
  BY <1>1, <1>2, <1>3 DEF ToSet, a
<1>5. ToSet(s) \subseteq ToSet(a)
  <2>1. \A j \in 1 .. Len(s) : j \in 1 .. Len(s) + 1
    BY <1>1
  <2> QED
    BY <1>1, <1>2, <2>1 DEF ToSet, a
<1>6. e \in ToSet(a)
  <2>1. Len(s) + 1 \in 1 .. Len(s) + 1
    BY <1>1
  <2> QED
    BY <1>1, <1>2, <2>1 DEF ToSet, a
<1> QED
  BY <1>1, <1>4, <1>5, <1>6 DEF a

------------------------------------------------------------------------------
(* Types                                                                    *)

(* The open method is the innermost one.                                    *)
LEMMA HeadFacts ==
    ASSUME TypeInv
    PROVE  /\ Len(method_map) \in Nat \ {0} /\ Len(stack) \in Nat \ {0}
           /\ Head(stack) = stack[1] /\ 1 \in 1 .. Len(stack) /\ Head(stack) \in Ids
           /\ \A k \in 1 .. Len(stack) : stack[k] \in Ids
<1>1. method_map \in Seq(Seq(Nat)) /\ method_map # <<>> /\ stack \in Seq(Ids) /\ stack # <<>>
  BY DEF TypeInv
<1>2. Len(method_map) \in Nat \ {0} /\ Len(stack) \in Nat \ {0}
  BY <1>1, EmptySeq
<1>3. 1 \in 1 .. Len(stack)
  BY <1>2
<1>4. \A k \in 1 .. Len(stack) : stack[k] \in Ids
  BY <1>1, ElementOfSeq
<1>5. Head(stack) = stack[1]
  BY <1>1
<1> QED
  BY <1>2, <1>3, <1>4, <1>5

LEMMA LastInitInv == LastInit => LInv
<1> SUFFICES ASSUME LastInit PROVE LInv
  OBVIOUS
<1>1. /\ stack = <<1>> /\ method_map = <<<<>>>> /\ pc = "trace" /\ order = <<>>
      /\ comparisons = [i \in Pos |-> <<>>] /\ done = [i \in Pos |-> 0]
      /\ last_cmp_only = [i \in Pos |-> 0] /\ LAST_COMPARISON_HEURISTIC \in BOOLEAN
  BY DEF LastInit, main
<1>2. <<>> \in Seq(Nat) /\ <<>> \in Seq(Pos) /\ <<>> \in Seq(Ids) /\ Len(<<>>) = 0
  BY EmptySeq
<1>3. method_map \in Seq(Seq(Nat)) /\ method_map # <<>> /\ Len(method_map) = 1
  BY <1>1, <1>2
<1>4. Ids = 1 .. 1 /\ 1 \in Ids
  BY <1>3 DEF Ids
<1>5. stack \in Seq(Ids) /\ stack # <<>> /\ Len(stack) = 1
  BY <1>1, <1>4
<1>6. TypeInv
  BY <1>1, <1>2, <1>3, <1>5 DEF TypeInv
<1>7. IdsGrow
  BY <1>5 DEF IdsGrow
<1>8. OthersReturned
  BY <1>1, <1>2 DEF OthersReturned, Returned
<1>9. OwnersInv
  <2>1. ToSet(order) = {}
    BY <1>1 DEF ToSet
  <2> QED
    BY <1>1, <2>1 DEF OwnersInv
<1> QED
  BY <1>6, <1>7, <1>8, <1>9 DEF LInv

(* A call hands out the next id.                                            *)
LEMMA CallFacts ==
    ASSUME TypeInv, Call
    PROVE  /\ pc = "trace" /\ UNCHANGED <<comparisons, done, last_cmp_only, order, LAST_COMPARISON_HEURISTIC, pc>>
           /\ method_map' \in Seq(Seq(Nat)) /\ method_map' # <<>> /\ Len(method_map') = Len(method_map) + 1
           /\ Ids \subseteq Ids' /\ Len(method_map) + 1 \in Ids'
           /\ stack' \in Seq(Ids') /\ stack' # <<>> /\ Len(stack') = Len(stack) + 1
           /\ stack'[1] = Len(method_map) + 1
           /\ \A k \in 2 .. Len(stack) + 1 : stack'[k] = stack[k - 1] /\ k - 1 \in 1 .. Len(stack)
<1> DEFINE mid == Len(method_map) + 1
           h == Head(stack)
           mm == [method_map EXCEPT ![h] = Append(@, mid)]
<1>1. /\ pc = "trace" /\ UNCHANGED <<comparisons, done, last_cmp_only, order, LAST_COMPARISON_HEURISTIC, pc>>
      /\ stack' = <<mid>> \o stack /\ method_map' = Append(mm, <<>>)
  BY DEF Call
<1>2. /\ Len(method_map) \in Nat \ {0} /\ Len(stack) \in Nat \ {0} /\ h \in 1 .. Len(method_map)
      /\ method_map \in Seq(Seq(Nat)) /\ stack \in Seq(Ids)
  BY HeadFacts DEF TypeInv, Ids
<1>3. mid \in Nat
  BY <1>2
<1> HIDE DEF mid, h
<1>4. mm \in Seq(Seq(Nat)) /\ Len(mm) = Len(method_map)
  <2>1. method_map[h] \in Seq(Nat)
    BY <1>2, ElementOfSeq
  <2>2. Append(method_map[h], mid) \in Seq(Nat)
    BY <1>3, <2>1, AppendProperties
  <2> DEFINE v == Append(method_map[h], mid)
  <2>3. mm = [method_map EXCEPT ![h] = v]
    OBVIOUS
  <2> HIDE DEF v
  <2>4. v \in Seq(Nat)
    BY <2>2 DEF v
  <2> QED
    BY <1>2, <2>3, <2>4, ExceptSeq
<1> HIDE DEF mm
<1>5. /\ method_map' \in Seq(Seq(Nat)) /\ Len(method_map') = Len(method_map) + 1 /\ method_map' # <<>>
  <2> DEFINE e == <<>>
  <2>1. e \in Seq(Nat) /\ method_map' = Append(mm, e)
    BY <1>1, EmptySeq
  <2> HIDE DEF e
  <2> QED
    BY <1>4, <2>1, AppendProperties
<1>6. Ids \subseteq Ids' /\ mid \in Ids'
  BY <1>2, <1>5 DEF Ids, mid
<1>7. <<mid>> \in Seq(Ids') /\ stack \in Seq(Ids') /\ Len(<<mid>>) = 1 /\ <<mid>>[1] = mid
  BY <1>2, <1>6, SeqMonotonic
<1>8. /\ stack' \in Seq(Ids') /\ Len(stack') = 1 + Len(stack)
      /\ \A k \in 1 .. 1 + Len(stack) : stack'[k] = IF k <= 1 THEN <<mid>>[k] ELSE stack[k - 1]
  BY <1>1, <1>7, ConcatProperties
<1>9. stack' # <<>>
  BY <1>2, <1>8, EmptySeq
<1>10. stack'[1] = mid
  BY <1>2, <1>7, <1>8
<1>11. \A k \in 2 .. Len(stack) + 1 : stack'[k] = stack[k - 1] /\ k - 1 \in 1 .. Len(stack)
  BY <1>2, <1>8
<1> QED
  BY <1>1, <1>2, <1>5, <1>6, <1>8, <1>9, <1>10, <1>11 DEF mid

LEMMA ReturnFacts ==
    ASSUME TypeInv, Return
    PROVE  /\ UNCHANGED <<method_map, comparisons, done, last_cmp_only, order, LAST_COMPARISON_HEURISTIC, pc>>
           /\ pc = "trace" /\ stack' \in Seq(Ids) /\ stack' # <<>> /\ Len(stack') = Len(stack) - 1
           /\ \A k \in 1 .. Len(stack) - 1 : stack'[k] = stack[k + 1] /\ k + 1 \in 1 .. Len(stack)
<1>1. stack \in Seq(Ids) /\ stack # <<>> /\ Len(stack) \in Nat /\ stack' = Tail(stack) /\ Len(stack) > 1
  BY HeadFacts DEF TypeInv, Return
<1>2. /\ stack' \in Seq(Ids) /\ Len(stack') = Len(stack) - 1
      /\ \A k \in 1 .. Len(stack') : stack'[k] = stack[k + 1]
  BY <1>1, HeadTailProperties
<1>3. stack' # <<>>
  <2>1. Len(stack') # 0
    BY <1>1, <1>2, MoreThanOne, Zenon
  <2> QED
    BY <2>1, EmptySeq
<1>4. \A k \in 1 .. Len(stack) - 1 : k + 1 \in 1 .. Len(stack)
  BY <1>1
<1> QED
  BY <1>1, <1>2, <1>3, <1>4 DEF Return

LEMMA CompareFacts ==
    ASSUME TypeInv, NEW i \in Pos, Compare(i)
    PROVE  /\ UNCHANGED <<stack, method_map, done, last_cmp_only, order, LAST_COMPARISON_HEURISTIC, pc>>
           /\ pc = "trace" /\ comparisons' \in [Pos -> Seq(Ids)]
           /\ \A j \in Pos : j # i => comparisons'[j] = comparisons[j]
           /\ Len(comparisons[i]) \in Nat /\ Len(comparisons'[i]) = Len(comparisons[i]) + 1
           /\ \A k \in 1 .. Len(comparisons[i]) : comparisons'[i][k] = comparisons[i][k]
           /\ comparisons'[i][Len(comparisons[i]) + 1] = stack[1]
<1>1. comparisons \in [Pos -> Seq(Ids)] /\ Head(stack) = stack[1] /\ Head(stack) \in Ids
  BY HeadFacts DEF TypeInv
<1> DEFINE a == Append(comparisons[i], stack[1])
<1>2. comparisons' = [comparisons EXCEPT ![i] = a]
  BY <1>1 DEF Compare
<1>3. /\ a \in Seq(Ids) /\ Len(a) = Len(comparisons[i]) + 1 /\ Len(comparisons[i]) \in Nat
      /\ \A k \in 1 .. Len(comparisons[i]) : a[k] = comparisons[i][k]
      /\ a[Len(comparisons[i]) + 1] = stack[1]
  BY <1>1, Appended
<1> HIDE DEF a
<1>4. comparisons'[i] = a /\ \A j \in Pos : j # i => comparisons'[j] = comparisons[j]
  BY <1>1, <1>2
<1>5. comparisons' \in [Pos -> Seq(Ids)]
  BY <1>1, <1>2, <1>3
<1> QED
  BY <1>3, <1>4, <1>5 DEF Compare

LEMMA KeepFacts ==
    ASSUME TypeInv, NEW i \in Left, Keep(i)
    PROVE  /\ pc = "last" /\ UNCHANGED <<stack, method_map, comparisons, LAST_COMPARISON_HEURISTIC, pc>>
           /\ i \in Pos /\ done[i] \in Nat /\ done[i] + 1 \in 1 .. Len(comparisons[i])
           /\ comparisons[i][done[i] + 1] \in Ids
           /\ done' \in [Pos -> Nat] /\ done'[i] = done[i] + 1 /\ \A j \in Pos : j # i => done'[j] = done[j]
           /\ \/ Contested(i, comparisons[i][done[i] + 1]) /\ UNCHANGED <<last_cmp_only, order>>
              \/ /\ ~Contested(i, comparisons[i][done[i] + 1])
                 /\ last_cmp_only' = [last_cmp_only EXCEPT ![i] = comparisons[i][done[i] + 1]]
                 /\ order' = IF last_cmp_only[i] = 0 THEN Append(order, i) ELSE order
<1>1. i \in Pos /\ done[i] < Len(comparisons[i])
  BY DEF Left
<1>2. done \in [Pos -> Nat] /\ comparisons[i] \in Seq(Ids)
  BY <1>1 DEF TypeInv
<1>3. done[i] \in Nat /\ Len(comparisons[i]) \in Nat
  BY <1>1, <1>2, LenProperties
<1>4. done[i] + 1 \in 1 .. Len(comparisons[i])
  BY <1>1, <1>3
<1>5. comparisons[i][done[i] + 1] \in Ids
  BY <1>2, <1>4, ElementOfSeq
<1>6. done' = [done EXCEPT ![i] = done[i] + 1]
  BY DEF Keep
<1>7. done' \in [Pos -> Nat] /\ done'[i] = done[i] + 1 /\ \A j \in Pos : j # i => done'[j] = done[j]
  BY <1>1, <1>2, <1>3, <1>6
<1> QED
  BY <1>1, <1>3, <1>4, <1>5, <1>7 DEF Keep

LEMMA TypeNext == ASSUME TypeInv, [LastNext]_lastVars PROVE TypeInv'
<1> USE DEF TypeInv
<1>1. CASE Call
  <2>1. \A j \in Pos : comparisons[j] \in Seq(Ids')
    BY <1>1, CallFacts, SeqMonotonic
  <2> QED
    BY <1>1, <2>1, CallFacts
<1>2. CASE Return
  <2>1. Ids' = Ids
    BY <1>2, ReturnFacts DEF Ids
  <2> QED
    BY <1>2, <2>1, ReturnFacts
<1>3. ASSUME NEW i \in Pos, Compare(i) PROVE TypeInv'
  <2>1. Ids' = Ids
    BY <1>3, CompareFacts DEF Ids
  <2>2. \A j \in Pos : done[j] <= Len(comparisons'[j])
    <3>1. done[i] <= Len(comparisons'[i])
      BY <1>3, CompareFacts
    <3> QED
      BY <1>3, <3>1, CompareFacts
  <2> QED
    BY <1>3, <2>1, <2>2, CompareFacts
<1>4. CASE Finish
  BY <1>4 DEF Finish, Ids
<1>5. ASSUME NEW i \in Left, Keep(i) PROVE TypeInv'
  <2>1. Ids' = Ids
    BY <1>5, KeepFacts DEF Ids
  <2>2. \A j \in Pos : done'[j] <= Len(comparisons[j])
    <3>1. done'[i] <= Len(comparisons[i])
      BY <1>5, KeepFacts
    <3> QED
      BY <1>5, <3>1, KeepFacts
  <2> DEFINE m == comparisons[i][done[i] + 1]
  <2>5. m \in Nat
    <3>1. m \in Ids
      BY <1>5, KeepFacts
    <3> HIDE DEF m
    <3> QED
      BY <3>1, HeadFacts DEF Ids
  <2>6. \/ UNCHANGED <<last_cmp_only, order>>
        \/ /\ last_cmp_only' = [last_cmp_only EXCEPT ![i] = m]
           /\ order' = IF last_cmp_only[i] = 0 THEN Append(order, i) ELSE order
    BY <1>5, KeepFacts
  <2> HIDE DEF m
  <2>3. last_cmp_only' \in [Pos -> Nat]
    BY <2>5, <2>6
  <2>4. order' \in Seq(Pos)
    <3>1. Append(order, i) \in Seq(Pos)
      BY Appended DEF Left
    <3> QED
      BY <2>6, <3>1
  <2> QED
    BY <1>5, <2>1, <2>2, <2>3, <2>4, KeepFacts
<1>6. CASE UNCHANGED lastVars
  BY <1>6 DEF lastVars, Ids
<1> QED
  BY <1>1, <1>2, <1>3, <1>4, <1>5, <1>6 DEF LastNext, KeepLast

------------------------------------------------------------------------------
(* The trace                                                                *)

LEMMA IdsGrowNext == ASSUME TypeInv, IdsGrow, [LastNext]_lastVars PROVE IdsGrow'
<1>1. CASE Call
  <2>1. \A k \in 1 .. Len(stack) : stack[k] < Len(method_map) + 1
    BY HeadFacts DEF Ids
  <2>2. Len(stack) \in Nat /\ Len(stack') = Len(stack) + 1
    BY <1>1, HeadFacts, CallFacts
  <2>3. ASSUME NEW p \in 1 .. Len(stack'), NEW q \in 1 .. Len(stack'), p < q PROVE stack'[q] < stack'[p]
    <3>1. q \in 2 .. Len(stack) + 1
      BY <2>2, <2>3
    <3>2. stack'[q] = stack[q - 1] /\ q - 1 \in 1 .. Len(stack)
      BY <1>1, <3>1, CallFacts
    <3>3. CASE p = 1
      BY <1>1, <2>1, <3>2, <3>3, CallFacts
    <3>4. CASE p # 1
      <4>1. p \in 2 .. Len(stack) + 1
        BY <2>2, <3>4
      <4>2. stack'[p] = stack[p - 1] /\ p - 1 \in 1 .. Len(stack)
        BY <1>1, <4>1, CallFacts
      <4>3. p - 1 < q - 1
        BY <2>3
      <4> QED
        BY <3>2, <4>2, <4>3 DEF IdsGrow
    <3> QED
      BY <3>3, <3>4
  <2> QED
    BY <2>3 DEF IdsGrow
<1>2. CASE Return
  <2>1. /\ Len(stack) \in Nat /\ Len(stack') = Len(stack) - 1
        /\ \A k \in 1 .. Len(stack) - 1 : stack'[k] = stack[k + 1] /\ k + 1 \in 1 .. Len(stack)
    BY <1>2, HeadFacts, ReturnFacts
  <2>2. ASSUME NEW p \in 1 .. Len(stack'), NEW q \in 1 .. Len(stack'), p < q PROVE stack'[q] < stack'[p]
    BY <2>1, <2>2 DEF IdsGrow
  <2> QED
    BY <2>2 DEF IdsGrow
<1>3. CASE UNCHANGED stack
  BY <1>3 DEF IdsGrow
<1> QED
  BY <1>1, <1>2, <1>3, CompareFacts, KeepFacts DEF LastNext, KeepLast, Finish, lastVars

LEMMA ReturnedStep ==
    ASSUME TypeInv, IdsGrow, OthersReturned, NEW i \in Pos, Compare(i)
    PROVE  Returned(comparisons'[i], stack)
<1> DEFINE c == comparisons[i]
           d == comparisons'[i]
           n == Len(comparisons[i])
<1>1. /\ n \in Nat /\ Len(d) = n + 1 /\ \A k \in 1 .. n : d[k] = c[k]
      /\ d[n + 1] = stack[1] /\ 1 \in 1 .. Len(stack)
  BY CompareFacts, HeadFacts
<1>2. Returned(c, stack)
  BY DEF OthersReturned
<1>3. /\ \A k \in 1 .. n : c[k] \in Nat
      /\ \A k \in 1 .. Len(stack) : stack[k] \in Nat /\ stack[k] <= stack[1]
  <2>1. c \in Seq(Ids)
    BY DEF TypeInv
  <2>2. \A k \in 1 .. n : c[k] \in Nat
    BY <2>1, ElementOfSeq DEF Ids
  <2>3. \A k \in 1 .. Len(stack) : stack[k] \in Nat
    BY HeadFacts DEF Ids
  <2>4. \A k \in 1 .. Len(stack) : k # 1 => stack[k] < stack[1]
    BY <1>1 DEF IdsGrow
  <2> QED
    BY <1>1, <2>2, <2>3, <2>4
<1> HIDE DEF c, d, n
<1>4. SUFFICES ASSUME NEW p \in 1 .. n + 1, NEW q \in 1 .. n + 1, p < q, d[q] < d[p]
               PROVE  /\ \A k \in 1 .. Len(stack) : stack[k] <= d[q] \/ d[p] < stack[k]
                      /\ \A r \in q + 1 .. n + 1 : d[r] <= d[q] \/ d[p] < d[r]
  BY <1>1 DEF Returned, d
<1>5. p \in 1 .. n /\ d[p] = c[p]
  BY <1>1, <1>4
<1>6. CASE q \in 1 .. n
  <2>1. d[q] = c[q] /\ c[q] < c[p] /\ n = Len(c)
    BY <1>1, <1>4, <1>5, <1>6 DEF n, c
  <2>2. /\ \A k \in 1 .. Len(stack) : stack[k] <= c[q] \/ c[p] < stack[k]
        /\ \A r \in q + 1 .. n : c[r] <= c[q] \/ c[p] < c[r]
    BY <1>2, <1>4, <1>5, <1>6, <2>1 DEF Returned
  <2>3. ASSUME NEW r \in q + 1 .. n + 1 PROVE d[r] <= c[q] \/ c[p] < d[r]
    <3>1. CASE r = n + 1
      BY <1>1, <2>2, <3>1
    <3>2. CASE r # n + 1
      <4>1. r \in 1 .. n /\ r \in q + 1 .. n
        BY <1>1, <1>6, <3>2
      <4> QED
        BY <1>1, <2>2, <4>1
    <3> QED
      BY <3>1, <3>2
  <2> QED
    BY <1>5, <2>1, <2>2, <2>3
<1>7. CASE q = n + 1
  <2>1. d[q] = stack[1]
    BY <1>1, <1>7
  <2>2. \A r \in q + 1 .. n + 1 : FALSE
    BY <1>1, <1>7
  <2> QED
    BY <1>3, <2>1, <2>2
<1> QED
  BY <1>1, <1>6, <1>7

LEMMA OthersReturnedNext ==
    ASSUME TypeInv, IdsGrow, OthersReturned, [LastNext]_lastVars
    PROVE  OthersReturned'
<1>1. CASE Call
  <2>1. ASSUME NEW i \in Pos PROVE Returned(comparisons[i], stack')
    <3> DEFINE c == comparisons[i]
    <3>1. Returned(c, stack)
      BY DEF OthersReturned
    <3>2. \A k \in 1 .. Len(c) : c[k] \in Nat /\ c[k] < Len(method_map) + 1
      <4>1. c \in Seq(Ids)
        BY DEF TypeInv
      <4>2. \A k \in 1 .. Len(c) : c[k] \in Ids
        BY <4>1, ElementOfSeq
      <4> QED
        BY <4>2, HeadFacts DEF Ids
    <3> HIDE DEF c
    <3>3. SUFFICES ASSUME NEW p \in 1 .. Len(c), NEW q \in 1 .. Len(c), p < q, c[q] < c[p],
                          NEW k \in 1 .. Len(stack) + 1
                   PROVE  stack'[k] <= c[q] \/ c[p] < stack'[k]
      BY <1>1, <3>1, CallFacts DEF Returned, c
    <3>4. CASE k = 1
      BY <1>1, <3>2, <3>4, CallFacts
    <3>5. CASE k # 1
      <4>1. k \in 2 .. Len(stack) + 1
        BY <3>5, HeadFacts
      <4>2. stack'[k] = stack[k - 1] /\ k - 1 \in 1 .. Len(stack)
        BY <1>1, <4>1, CallFacts
      <4> QED
        BY <3>1, <3>3, <4>2 DEF Returned
    <3> QED
      BY <3>4, <3>5
  <2> QED
    BY <1>1, <2>1, CallFacts DEF OthersReturned
<1>2. CASE Return
  <2>1. /\ Len(stack') = Len(stack) - 1
        /\ \A k \in 1 .. Len(stack) - 1 : stack'[k] = stack[k + 1] /\ k + 1 \in 1 .. Len(stack)
    BY <1>2, ReturnFacts
  <2>2. ASSUME NEW i \in Pos PROVE Returned(comparisons[i], stack')
    BY <2>1 DEF OthersReturned, Returned
  <2> QED
    BY <1>2, <2>2, ReturnFacts DEF OthersReturned
<1>3. ASSUME NEW i \in Pos, Compare(i) PROVE OthersReturned'
  <2>1. Returned(comparisons'[i], stack)
    BY <1>3, ReturnedStep
  <2> QED
    BY <1>3, <2>1, CompareFacts DEF OthersReturned
<1>4. CASE UNCHANGED <<stack, comparisons>>
  BY <1>4 DEF OthersReturned
<1> QED
  BY <1>1, <1>2, <1>3, <1>4, KeepFacts DEF LastNext, KeepLast, Finish, lastVars
------------------------------------------------------------------------------
(* The owners                                                               *)

LEMMA MethodsAreNat == ASSUME TypeInv, NEW i \in Pos
                       PROVE  \A k \in 1 .. Len(comparisons[i]) : comparisons[i][k] \in Nat
<1>1. comparisons[i] \in Seq(Ids)
  BY DEF TypeInv
<1> QED
  BY <1>1, ElementOfSeq DEF Ids

(* The next comparison of an index finds it an owner, or leaves the one it has. *)
LEMMA OwnedStep ==
    ASSUME TypeInv, OthersReturned, OwnersInv, LAST_COMPARISON_HEURISTIC, NEW i \in Left, Keep(i)
    PROVE  Owned(i)'
<1> DEFINE c == comparisons[i]
           n == done[i]
           x == comparisons[i][done[i] + 1]
           m == last_cmp_only[i]
           L(y) == last_idx(y)
<1>1. /\ i \in Pos /\ n \in Nat /\ n + 1 \in 1 .. Len(c) /\ done'[i] = n + 1 /\ comparisons' = comparisons
      /\ \/ Contested(i, x) /\ last_cmp_only' = last_cmp_only
         \/ ~Contested(i, x) /\ last_cmp_only' = [last_cmp_only EXCEPT ![i] = x]
  BY KeepFacts
<1>2. Len(c) \in Nat /\ m \in Nat /\ x = c[n + 1] /\ \A k \in 1 .. Len(c) : c[k] \in Nat
  BY <1>1, MethodsAreNat, LenProperties DEF TypeInv
<1>3. \/ m > x /\ last_cmp_only'[i] = m
      \/ (m > x => L(x) = i) /\ last_cmp_only'[i] = x
  BY <1>1 DEF Contested, TypeInv
<1>4. \A y : last_idx(y)' = L(y)
  BY <1>1 DEF last_idx
<1>5. Returned(c, stack)
  BY <1>1 DEF OthersReturned
<1>6. n = 0 => m = 0
  BY <1>1 DEF OwnersInv
<1>7. n > 0 => \E k \in 1 .. n : /\ c[k] = m
                                 /\ \A j \in k + 1 .. n : c[j] <= m
                                 /\ (\A j \in 1 .. n : c[j] <= m) \/ L(m) = i
  BY <1>1 DEF OwnersInv, Owned
<1> SUFFICES ASSUME NEW o, o = last_cmp_only'[i]
             PROVE  \E k \in 1 .. n + 1 :
                        /\ c[k] = o
                        /\ \A j \in k + 1 .. n + 1 : c[j] <= o
                        /\ (\A j \in 1 .. n + 1 : c[j] <= o) \/ L(o) = i
  BY <1>1, <1>4 DEF Owned
<1> HIDE DEF c, n, x, m, L
<1>8. \A j \in 1 .. n + 1 : j \in 1 .. Len(c) /\ c[j] \in Nat /\ (j \in 1 .. n \/ j = n + 1)
  BY <1>1, <1>2
<1>9. x \in Nat /\ n + 1 \in 1 .. n + 1
  BY <1>1, <1>2
<1>10. CASE m > x /\ o = m
  <2>1. n # 0
    BY <1>2, <1>6, <1>9, <1>10
  <2>2. PICK k \in 1 .. n : /\ c[k] = m
                            /\ \A j \in k + 1 .. n : c[j] <= m
                            /\ (\A j \in 1 .. n : c[j] <= m) \/ L(m) = i
    BY <1>1, <1>7, <2>1
  <2>3. \A j \in k + 1 .. n + 1 : c[j] <= m
    <3>1. \A j \in k + 1 .. n + 1 : j \in k + 1 .. n \/ j = n + 1
      BY <1>1
    <3> QED
      BY <1>2, <1>9, <1>10, <2>2, <3>1
  <2>4. (\A j \in 1 .. n + 1 : c[j] <= m) \/ L(m) = i
    BY <1>2, <1>8, <1>9, <1>10, <2>2
  <2>5. k \in 1 .. n + 1
    BY <1>1
  <2> QED
    BY <1>10, <2>2, <2>3, <2>4, <2>5
<1>11. CASE (m > x => L(x) = i) /\ o = x
  <2>1. \A j \in n + 2 .. n + 1 : FALSE
    BY <1>1
  <2>2. SUFFICES ASSUME L(x) # i, NEW j \in 1 .. n, x < c[j]
                 PROVE  FALSE
    <3>1. SUFFICES (\A j \in 1 .. n + 1 : c[j] <= x) \/ L(x) = i
      <4>1. \A j \in (n + 1) + 1 .. n + 1 : c[j] <= o
        BY <1>1
      <4> QED
        BY <1>2, <1>9, <1>11, <3>1, <4>1
    <3> QED
      BY <1>2, <1>8, <1>9, <2>2
  <2>3. m <= x /\ n > 0
    BY <1>1, <1>2, <1>9, <1>11, <2>2
  <2>4. PICK k \in 1 .. n : /\ c[k] = m
                            /\ \A h \in k + 1 .. n : c[h] <= m
                            /\ (\A h \in 1 .. n : c[h] <= m) \/ L(m) = i
    BY <1>7, <2>3
  <2>5. c[j] \in Nat /\ m < c[j] /\ m < x
    <3>1. c[j] \in Nat
      BY <1>1, <1>8
    <3>2. ~(c[j] <= m)
      BY <1>2, <1>9, <2>2, <2>3, <3>1
    <3>3. L(m) = i
      BY <2>4, <3>2
    <3>4. m # x
      BY <2>2, <3>3
    <3> QED
      BY <1>2, <1>9, <2>3, <3>1, <3>2, <3>4
  <2>6. j < k
    BY <1>1, <1>2, <2>4, <2>5
  <2>7. j \in 1 .. Len(c) /\ k \in 1 .. Len(c) /\ c[k] < c[j] /\ n + 1 \in k + 1 .. Len(c)
    BY <1>1, <1>2, <2>4, <2>5
  <2>8. c[n + 1] <= c[k] \/ c[j] < c[n + 1]
    BY <1>5, <2>6, <2>7 DEF Returned
  <2> QED
    BY <1>2, <1>9, <2>2, <2>4, <2>5, <2>8
<1> QED
  BY <1>3, <1>10, <1>11 DEF x, m

LEMMA OwnersNext ==
    ASSUME TypeInv, OthersReturned, OwnersInv, [LastNext]_lastVars
    PROVE  OwnersInv'
<1>1. ASSUME pc = "trace", UNCHANGED <<done, last_cmp_only, order, LAST_COMPARISON_HEURISTIC>>
      PROVE  OwnersInv'
  <2>1. \A i \in Pos : done[i] = 0
    BY <1>1 DEF OwnersInv
  <2>2. \A i \in Pos : ~(done[i] > 0)
    BY <2>1
  <2> QED
    BY <1>1, <2>1, <2>2 DEF OwnersInv
<1>2. ASSUME NEW i \in Left, Keep(i) PROVE OwnersInv'
  <2>1. pc' = "last" /\ LAST_COMPARISON_HEURISTIC' = LAST_COMPARISON_HEURISTIC /\ comparisons' = comparisons
    BY <1>2, KeepFacts
  <2>2. i \in Pos /\ done'[i] > 0 /\ \A j \in Pos : j # i => done'[j] = done[j]
    BY <1>2, KeepFacts
  <2>3. \A j \in Pos : j # i => last_cmp_only'[j] = last_cmp_only[j]
    <3>1. last_cmp_only \in [Pos -> Nat]
      BY DEF TypeInv
    <3> QED
      BY <1>2, <3>1, KeepFacts
  <2>4. \A j \in Pos : done'[j] = 0 => last_cmp_only'[j] = 0
    BY <2>2, <2>3 DEF OwnersInv
  <2>5. \A j \in ToSet(order') : done'[j] > 0
    <3>1. order \in Seq(Pos) /\ i \in Pos
      BY <2>2 DEF TypeInv
    <3>2. ToSet(order') \subseteq ToSet(order) \cup {i}
      <4>1. ToSet(Append(order, i)) = ToSet(order) \cup {i}
        BY <3>1, Appended
      <4>2. order' = order \/ order' = Append(order, i)
        BY <1>2, KeepFacts
      <4> QED
        BY <4>1, <4>2
    <3>3. ToSet(order) \subseteq Pos
      BY <3>1, ElementOfSeq, LenProperties DEF ToSet
    <3> QED
      BY <2>2, <3>2, <3>3 DEF OwnersInv
  <2>6. ASSUME LAST_COMPARISON_HEURISTIC, NEW j \in Pos, done'[j] > 0 PROVE Owned(j)'
    <3>1. CASE j = i
      BY <1>2, <2>6, <3>1, OwnedStep
    <3>2. CASE j # i
      <4>1. Owned(j) /\ done'[j] = done[j] /\ last_cmp_only'[j] = last_cmp_only[j]
        BY <2>2, <2>3, <2>6, <3>2 DEF OwnersInv
      <4>2. \A y : last_idx(y)' = last_idx(y)
        BY <2>1 DEF last_idx
      <4> QED
        BY <2>1, <4>1, <4>2 DEF Owned
    <3> QED
      BY <3>1, <3>2
  <2> QED
    BY <2>1, <2>4, <2>5, <2>6 DEF OwnersInv
<1>3. CASE UNCHANGED lastVars
  BY <1>3 DEF OwnersInv, Owned, last_idx, lastVars
<1> QED
  BY <1>1, <1>2, <1>3, CallFacts, ReturnFacts, CompareFacts DEF LastNext, KeepLast, Finish

(* The invariant of last_comparisons, on every trace of a program that      *)
(* calls, compares and returns.                                             *)
THEOREM LastHolds == LastSpec => []LInv
<1>1. LInv /\ [LastNext]_lastVars => LInv'
  BY TypeNext, IdsGrowNext, OthersReturnedNext, OwnersNext DEF LInv
<1> QED
  BY <1>1, LastInitInv, PTL DEF LastSpec

(* The property that the runs check: with the heuristic on, every index     *)
(* belongs to the last called of the methods that compared it, or to one    *)
(* that compared nothing beyond it.                                         *)
THEOREM DeepestOrBoundaryHolds == LastSpec => []DeepestOrBoundary
<1>1. ASSUME LInv PROVE DeepestOrBoundary
  <2> SUFFICES ASSUME LAST_COMPARISON_HEURISTIC, pc = "last", Left = {}, NEW i \in ToSet(order),
                      NEW m, m = last_cmp_only[i]
               PROVE  m = Max(Readers(i)) \/ (m \in Readers(i) /\ Furthest(m, i))
    BY DEF DeepestOrBoundary
  <2> DEFINE c == comparisons[i]
  <2>1. TypeInv /\ OwnersInv
    BY <1>1 DEF LInv
  <2>2. i \in Pos
    BY <2>1, ElementOfSeq, LenProperties DEF ToSet, TypeInv
  <2>3. done[i] = Len(c) /\ done[i] > 0 /\ Len(c) \in Nat /\ DOMAIN c = 1 .. Len(c)
    <3>1. c \in Seq(Ids) /\ done[i] <= Len(c) /\ done[i] \in Nat
      BY <2>1, <2>2 DEF TypeInv
    <3>2. done[i] > 0
      BY <2>1 DEF OwnersInv
    <3>3. ~(done[i] < Len(c))
      BY <2>2 DEF Left
    <3> QED
      BY <3>1, <3>2, <3>3, LenProperties
  <2>4. PICK k \in 1 .. Len(c) : c[k] = m /\ ((\A j \in 1 .. Len(c) : c[j] <= m) \/ last_idx(m) = i)
    <3>1. Owned(i)
      BY <2>1, <2>2, <2>3 DEF OwnersInv
    <3> QED
      BY <2>3, <3>1 DEF Owned
  <2>5. Readers(i) = {c[j] : j \in 1 .. Len(c)}
    BY <2>3 DEF Readers, ToSet
  <2>6. m \in Readers(i) /\ Readers(i) \subseteq Nat
    BY <2>1, <2>2, <2>4, <2>5, MethodsAreNat
  <2>7. CASE \A j \in 1 .. Len(c) : c[j] <= m
    <3>1. \A y \in Readers(i) : y <= m
      BY <2>5, <2>7
    <3> QED
      BY <2>6, <3>1, MaxUnique
  <2>8. CASE last_idx(m) = i
    <3> DEFINE S == {j \in Pos : m \in ToSet(comparisons[j])}
    <3>1. i \in S /\ S \in SUBSET Pos
      BY <2>2, <2>6 DEF Readers
    <3>2. Max(S) = i
      BY <2>8 DEF last_idx
    <3> HIDE DEF S
    <3>3. \A y \in S : y <= i
      BY <3>1, <3>2, MaxIs
    <3> QED
      BY <2>6, <3>3 DEF Furthest, S
  <2> QED
    BY <2>4, <2>7, <2>8
<1> QED
  BY <1>1, LastHolds, PTL
================================================================================

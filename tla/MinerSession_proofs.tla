--------------------------- MODULE MinerSession_proofs ---------------------------
(***************************************************************************)
(* Proofs about MinerSession, for every program, every way in which swaps may  *)
(* come out and any number of seeds and deaths.  IInv is inductive; the three   *)
(* safety properties are conjuncts of it.                                      *)
(***************************************************************************)
EXTENDS MinerSession, TLAPS

USE DEF Enough, Written, SamePs, Tried

(* The trees of the model are trees, and none of them is NoTree.               *)
LEMMA TreesAreTrees ==
    ASSUME TypeOK
    PROVE  /\ \A text \in Texts : Traced(text) \in Trees /\ Traced(text) # NoTree /\ Traced(text).text = text
           /\ \A x, y \in Texts : Swap(swap, x, y) \in Trees /\ Swap(swap, x, y).text \in Texts
<1>1. \A text \in Texts : Traced(text) \in Trees /\ Traced(text).text = text
  BY ParseAssumption DEF TypeOK, Traced, Trees
<1>2. \A x, y \in Texts : Swap(swap, x, y) \in Trees
  BY SwapAssumption DEF TypeOK
<1>3. \A t \in Trees : t.text \in Texts
  BY DEF Trees
<1> QED
  BY <1>1, <1>2, <1>3, NoTreeAssumption

(* What two nodes of a session are to one another does not change once they are   *)
(* there.                                                                     *)
LEMMA FitsStays ==
    ASSUME UNCHANGED <<swap, parse, call_trace>>, NEW e, NEW r
    PROVE  Fits(e, r)' <=> Fits(e, r)
<1>1. Node(e)' = Node(e) /\ Node(r)' = Node(r)
  BY DEF Node
<1>2. OneTreePerText' <=> OneTreePerText
  BY DEF OneTreePerText
<1>3. (Confirms(e, r)' <=> Confirms(e, r)) /\ (Confirms(r, e)' <=> Confirms(r, e))
  BY <1>1 DEF Confirms, Replaced, Traced
<1> QED
  BY <1>1, <1>2, <1>3 DEF Fits

(* The initial states.                                                       *)
LEMMA InitHolds == Init => IInv
<1> SUFFICES ASSUME Init PROVE IInv
  OBVIOUS
<1>1. Len(Seeds) \in Nat /\ Len(Seeds) >= 1
  BY SeedsAssumption
<1>2. TypeOK
  <2>1. tree \in Trees \union {NoTree}
    BY LeftAssumption, ParseAssumption DEF Init, Traced, Trees
  <2>2. inp \in Texts
    BY LeftAssumption DEF Init
  <2> QED
    BY <2>1, <2>2, <1>1, DeathsAssumption DEF Init, TypeOK, Start, Steps
<1>3. TreeIsOwn
  BY DEF Init, TreeIsOwn, Traced
<1>4. SeedsInOrder
  <2>1. tree # NoTree => tree.text \in Left
    BY DEF Init, Traced
  <2> QED
    BY <2>1, <1>1 DEF Init, SeedsInOrder
<1>5. NodesInOrder /\ FirstWayConfirmed /\ Unanswered
  BY DEF Init, NodesInOrder, FirstWayConfirmed, Unanswered, Sorting
<1>6. BucketsInOrder
  BY DEF Init, BucketsInOrder
<1>7. OnlyTheProgramConfirms /\ TracesAreOwn
  BY DEF Init, OnlyTheProgramConfirms, TracesAreOwn
<1>8. BucketsAreConfirmed
  BY DEF Init, BucketsAreConfirmed, Fits
<1> QED
  BY <1>2, <1>3, <1>4, <1>5, <1>6, <1>7, <1>8 DEF IInv

-----------------------------------------------------------------------------
(* The traces of the seeds.                                                   *)
LEMMA WriteSeedStep == ASSUME IInv, WriteSeed PROVE IInv'
<1> USE DEF IInv
<1>1. Len(call_trace) \in Nat /\ Len(call_trace) < Len(Seeds) /\ Len(Seeds) \in Nat
  BY SeedsAssumption DEF WriteSeed, SeedsInOrder, Seeding, TypeOK
<1>2. inp' \in Texts /\ inp' = Seeds[Len(call_trace) + 1]
  BY <1>1, SeedsAssumption DEF WriteSeed
<1>3. TypeOK'
  BY <1>2 DEF WriteSeed, TypeOK, Steps
<1>4. TreeIsOwn'
  BY DEF WriteSeed, TreeIsOwn, Traced
<1>5. SeedsInOrder'
  BY <1>2 DEF WriteSeed, SeedsInOrder, Seeding
<1>6. NodesInOrder' /\ FirstWayConfirmed' /\ Unanswered'
  BY DEF WriteSeed, NodesInOrder, FirstWayConfirmed, Unanswered, Sorting
<1>7. BucketsInOrder'
  BY DEF WriteSeed, BucketsInOrder
<1>8. OnlyTheProgramConfirms' /\ TracesAreOwn'
  BY DEF WriteSeed, OnlyTheProgramConfirms, TracesAreOwn, Traced
<1>9. BucketsAreConfirmed'
  BY FitsStays DEF WriteSeed, BucketsAreConfirmed
<1> QED
  BY <1>3, <1>4, <1>5, <1>6, <1>7, <1>8, <1>9

(* A gdb that ends leaves a tree of this program; one that dies leaves the tree  *)
(* that was there, or none.  Neither touches what the notebook knows.                     *)
LEMMA GdbStep == ASSUME IInv, GdbEnds \/ GdbDies PROVE IInv'
<1> USE DEF IInv
<1>1. /\ step \in {"trace", "verify"} /\ step' = After(step) /\ inp' \in Texts
      /\ UNCHANGED <<swap, parse, call_trace, EXEC_MAP, buckets, pattern, at>>
      /\ tree' = Traced(inp) \/ tree' = tree \/ tree' = NoTree
  BY DEF GdbEnds, GdbDies, TypeOK
<1>2. deaths' \in 0 .. MaxDeaths
  BY DeathsAssumption DEF GdbEnds, GdbDies, TypeOK
<1>3. Traced(inp) \in Trees /\ Traced(inp).text = inp
  BY TreesAreTrees DEF TypeOK
<1>4. TypeOK'
  BY <1>1, <1>2, <1>3 DEF TypeOK, After, Steps
<1>5. TreeIsOwn'
  BY <1>1, <1>3 DEF TreeIsOwn, Traced
<1>6. SeedsInOrder'
  <2> SUFFICES ASSUME Seeding' PROVE SeedsInOrder'
    BY DEF SeedsInOrder
  <2>1. step = "trace" /\ step' = "traced"
    BY <1>1 DEF Seeding, After
  <2>2. inp = Seeds[Len(call_trace) + 1]
    BY <2>1 DEF SeedsInOrder, Seeding
  <2>3. Len(call_trace) + 1 \in 1 .. Len(call_trace) + 1
    BY DEF TypeOK
  <2>4. tree' # NoTree => tree'.text \in Left \union { Seeds[j] : j \in 1 .. Len(call_trace) + 1 }
    BY <2>1, <2>2, <2>3, <1>1, <1>3 DEF SeedsInOrder, Seeding
  <2> QED
    BY <2>1, <2>4, <1>1 DEF SeedsInOrder, Seeding
<1>7. NodesInOrder'
  BY <1>1 DEF NodesInOrder, Sorting, After
<1>8. FirstWayConfirmed' /\ Unanswered'
  BY <1>1 DEF FirstWayConfirmed, Unanswered, Sorting, After, Same, Updated, Replaced, Node
<1>9. BucketsInOrder'
  BY <1>1 DEF BucketsInOrder, After
<1>10. OnlyTheProgramConfirms' /\ TracesAreOwn'
  BY <1>1 DEF OnlyTheProgramConfirms, TracesAreOwn, Traced
<1>11. BucketsAreConfirmed'
  BY <1>1, FitsStays DEF BucketsAreConfirmed
<1> QED
  BY <1>4, <1>5, <1>6, <1>7, <1>8, <1>9, <1>10, <1>11

(* What is read is a tree of this program, and not one of a later text.          *)
LEMMA ReadTraceStep == ASSUME IInv, ReadTrace PROVE IInv'
<1> USE DEF IInv
<1>1. /\ Seeding /\ step = "traced" /\ Len(call_trace) \in Nat /\ Len(Seeds) \in Nat
      /\ Len(call_trace) < Len(Seeds) /\ buckets = <<1>> /\ pattern = <<0>> /\ at = Start
      /\ UNCHANGED <<swap, parse, inp, tree, deaths, EXEC_MAP, buckets, pattern, at>>
  BY SeedsAssumption DEF ReadTrace, Seeding, SeedsInOrder, TypeOK
<1>2. CASE tree = NoTree
  <2>1. step' = "failed" /\ call_trace' = call_trace
    BY <1>2 DEF ReadTrace
  <2>2. TypeOK'
    BY <1>1, <2>1 DEF TypeOK, Steps
  <2>3. TreeIsOwn'
    BY <1>1 DEF TreeIsOwn, Traced
  <2>4. SeedsInOrder' /\ NodesInOrder' /\ FirstWayConfirmed' /\ Unanswered'
    BY <2>1 DEF SeedsInOrder, Seeding, NodesInOrder, FirstWayConfirmed, Unanswered, Sorting
  <2>5. BucketsInOrder'
    BY <1>1, <2>1 DEF BucketsInOrder
  <2>6. OnlyTheProgramConfirms' /\ TracesAreOwn'
    BY <1>1, <2>1 DEF OnlyTheProgramConfirms, TracesAreOwn, Traced
  <2>7. BucketsAreConfirmed'
    BY <1>1 DEF BucketsAreConfirmed, Fits
  <2> QED
    BY <2>2, <2>3, <2>4, <2>5, <2>6, <2>7
<1>3. CASE tree # NoTree
  <2>1. tree \in Trees /\ call_trace \in Seq(Trees) /\ call_trace' = Append(call_trace, tree)
    BY <1>3 DEF ReadTrace, TypeOK
  <2>2. /\ call_trace' \in Seq(Trees) /\ Len(call_trace') = Len(call_trace) + 1
        /\ \A i \in 1 .. Len(call_trace) : call_trace'[i] = call_trace[i]
        /\ call_trace'[Len(call_trace) + 1] = tree
    BY <2>1
  <2>3. step' = IF Len(call_trace') < Len(Seeds) THEN "seed" ELSE IF Len(Seeds) > 1 THEN "ask" ELSE "done"
    BY <1>1, <1>3, <2>2 DEF ReadTrace
  <2>4. TypeOK'
    BY <1>1, <2>2, <2>3 DEF TypeOK, Steps
  <2>5. TreeIsOwn'
    BY <1>1 DEF TreeIsOwn, Traced
  <2>6. tree.text \in Left \union { Seeds[j] : j \in 1 .. Len(call_trace) + 1 }
    BY <1>1, <1>3 DEF SeedsInOrder
  <2>7. SeedsInOrder'
    <3>1. Seeding' => Len(call_trace') < Len(Seeds) /\ step' = "seed"
      BY <1>1, <2>2, <2>3 DEF Seeding
    <3>2. tree.text \in Left \union { Seeds[j] : j \in 1 .. Len(call_trace') + 1 }
      BY <2>6, <2>2, <1>1
    <3> QED
      BY <3>1, <3>2, <1>1 DEF SeedsInOrder
  <2>8. NodesInOrder'
    BY <1>1, <2>2, <2>3 DEF NodesInOrder, Sorting, Start
  <2>9. FirstWayConfirmed' /\ Unanswered'
    BY <1>1, <2>3 DEF FirstWayConfirmed, Unanswered, Sorting, Start
  <2>10. BucketsInOrder'
    BY <1>1, <2>2, <2>3 DEF BucketsInOrder
  <2>11. OnlyTheProgramConfirms'
    BY <1>1 DEF OnlyTheProgramConfirms, Traced
  <2>12. TracesAreOwn'
    <3> SUFFICES ASSUME NEW i \in 1 .. Len(call_trace')
                 PROVE  /\ call_trace'[i] = Traced(call_trace'[i].text)
                        /\ call_trace'[i].text \in Left \union { Seeds[j] : j \in 1 .. i }
      BY <1>1, <2>2 DEF TracesAreOwn, Traced
    <3>1. CASE i \in 1 .. Len(call_trace)
      BY <3>1, <2>1, <2>2 DEF TracesAreOwn
    <3>2. CASE i = Len(call_trace) + 1
      BY <3>2, <2>2, <2>6, <1>3 DEF TreeIsOwn
    <3> QED
      BY <3>1, <3>2, <2>2, <1>1
  <2>13. BucketsAreConfirmed'
    BY <1>1 DEF BucketsAreConfirmed, Fits
  <2> QED
    BY <2>4, <2>5, <2>7, <2>8, <2>9, <2>10, <2>11, <2>12, <2>13
<1> QED
  BY <1>2, <1>3

-----------------------------------------------------------------------------
(* The texts of nodes are texts.                                              *)
LEMMA NodesAreTexts ==
    ASSUME IInv, Sorting
    PROVE  /\ \A i \in 1 .. Len(call_trace) : Node(i) \in Texts
           /\ Len(call_trace) \in Nat /\ at.e \in 2 .. Len(call_trace) /\ at.b \in 1 .. Len(buckets)
           /\ Len(buckets) \in Nat /\ Len(pattern) = at.e - 1
           /\ \A k \in 1 .. Len(buckets) : buckets[k] \in 1 .. Len(pattern)
           /\ buckets[at.b] \in 1 .. Len(call_trace)
           /\ Updated \in Trees
<1>1. /\ Len(call_trace) \in Nat /\ at.e \in 2 .. Len(call_trace) /\ at.b \in 1 .. Len(buckets)
      /\ Len(buckets) \in Nat /\ Len(pattern) = at.e - 1
  BY DEF IInv, NodesInOrder, TypeOK
<1>2. \A i \in 1 .. Len(call_trace) : Node(i) \in Texts
  <2>1. \A i \in 1 .. Len(call_trace) : call_trace[i] \in Trees
    BY DEF IInv, TypeOK
  <2>2. \A t \in Trees : t.text \in Texts
    BY DEF Trees
  <2> QED
    BY <2>1, <2>2 DEF Node
<1>3. \A k \in 1 .. Len(buckets) : buckets[k] \in 1 .. Len(pattern)
  BY <1>1 DEF IInv, TypeOK, BucketsInOrder
<1>4. buckets[at.b] \in 1 .. Len(call_trace)
  BY <1>1, <1>3
<1>5. Updated \in Trees
  BY <1>1, <1>2, <1>4, SwapAssumption DEF Updated, Replaced, IInv, TypeOK
<1> QED
  BY <1>1, <1>2, <1>3, <1>4, <1>5

(* A swap is asked of the program only when there is no answer for its text.     *)
LEMMA CheckStep == ASSUME IInv, Check PROVE IInv'
<1> USE DEF IInv
<1>1. /\ step = "ask" /\ step' = "verify" /\ Sorting /\ inp' = Updated.text
      /\ UNCHANGED <<swap, parse, tree, deaths, call_trace, EXEC_MAP, buckets, pattern, at>>
      /\ ~Same /\ Updated.text \notin DOMAIN EXEC_MAP
  BY DEF Check, Sorting
<1>2. inp' \in Texts
  BY <1>1, NodesAreTexts DEF Trees
<1>3. TypeOK'
  BY <1>1, <1>2 DEF TypeOK, Steps
<1>4. TreeIsOwn'
  BY <1>1 DEF TreeIsOwn, Traced
<1>5. SeedsInOrder'
  BY <1>1 DEF SeedsInOrder, Seeding
<1>6. NodesInOrder'
  BY <1>1 DEF NodesInOrder, Sorting
<1>7. FirstWayConfirmed' /\ Unanswered'
  BY <1>1 DEF FirstWayConfirmed, Unanswered, Sorting, Same, Updated, Replaced, Node
<1>8. BucketsInOrder'
  BY <1>1 DEF BucketsInOrder
<1>9. OnlyTheProgramConfirms' /\ TracesAreOwn'
  BY <1>1 DEF OnlyTheProgramConfirms, TracesAreOwn, Traced
<1>10. BucketsAreConfirmed'
  BY <1>1, FitsStays DEF BucketsAreConfirmed
<1> QED
  BY <1>3, <1>4, <1>5, <1>6, <1>7, <1>8, <1>9, <1>10

(* With one tree per text, a text that has been confirmed confirms the swap that  *)
(* is asked.                                                                  *)
LEMMA ConfirmedText ==
    ASSUME NEW M, NEW x \in Texts, NEW y \in Texts, OneTreePerText,
           \A s \in DOMAIN M : M[s] => \E z, w \in Texts : Swap(swap, z, w) = Traced(s),
           Swap(swap, x, y).text \in DOMAIN M, M[Swap(swap, x, y).text]
    PROVE  Swap(swap, x, y) = Traced(Swap(swap, x, y).text)
<1> DEFINE s == Swap(swap, x, y).text
<1>1. PICK z \in Texts, w \in Texts : Swap(swap, z, w) = Traced(s)
  OBVIOUS
<1>2. Swap(swap, z, w).text = s
  BY <1>1 DEF Traced
<1>3. Swap(swap, z, w) = Swap(swap, x, y)
  BY <1>2 DEF OneTreePerText
<1> QED
  BY <1>1, <1>3

LEMMA AppendFacts ==
    ASSUME NEW S, NEW s \in Seq(S), NEW x \in S, NEW k \in Nat, Len(s) = k - 1
    PROVE  /\ Append(s, x) \in Seq(S) /\ Len(Append(s, x)) = k /\ DOMAIN Append(s, x) = 1 .. k
           /\ \A i \in 1 .. k - 1 : Append(s, x)[i] = s[i]
           /\ Append(s, x)[k] = x
  OBVIOUS

(* What a verdict does to the buckets, wherever it comes from.                    *)
LEMMA GoesStep ==
    ASSUME IInv, step \in {"ask", "verified"}, NEW v \in BOOLEAN, Goes(v), inp' = inp,
           DOMAIN EXEC_MAP' \subseteq Texts, \A s \in DOMAIN EXEC_MAP' : EXEC_MAP'[s] \in BOOLEAN,
           \A s \in DOMAIN EXEC_MAP : s \in DOMAIN EXEC_MAP' /\ EXEC_MAP'[s] = EXEC_MAP[s],
           \A s \in DOMAIN EXEC_MAP' : EXEC_MAP'[s] => \E x, y \in Texts : Swap(swap, x, y) = Traced(s),
           v => Same \/ (Updated.text \in DOMAIN EXEC_MAP' /\ EXEC_MAP'[Updated.text])
    PROVE  IInv'
<1> USE DEF IInv
<1> DEFINE e == at.e
           r == buckets[at.b]
           n == Len(call_trace)
<1>1. /\ Sorting /\ UNCHANGED <<swap, parse, inp, tree, deaths, call_trace>>
      /\ n \in Nat /\ n = Len(Seeds) /\ e \in 2 .. n /\ Len(pattern) = e - 1
      /\ at.b \in 1 .. Len(buckets) /\ Len(buckets) \in Nat /\ r \in 1 .. n /\ r \in 1 .. e - 1
      /\ at \in [e : Nat, b : Nat, way : {1, 2}]
      /\ buckets \in Seq(Nat \ {0}) /\ pattern \in Seq(Nat)
  BY NodesAreTexts DEF Goes, Sorting, NodesInOrder, TypeOK
<1>2. /\ DOMAIN pattern = 1 .. e - 1 /\ DOMAIN buckets = 1 .. Len(buckets)
      /\ \A k \in 1 .. Len(buckets) : buckets[k] \in 1 .. e - 1
      /\ \A i \in 1 .. e - 1 : pattern[i] \in Nat /\ pattern[i] < Len(buckets) /\ Fits(i, buckets[pattern[i] + 1])
      /\ \A i \in 1 .. n : Node(i) \in Texts
  <2>1. DOMAIN pattern = 1 .. e - 1 /\ DOMAIN buckets = 1 .. Len(buckets)
    BY <1>1
  <2>2. \A k \in 1 .. Len(buckets) : buckets[k] \in 1 .. e - 1
    BY <1>1, NodesAreTexts
  <2>3. \A i \in 1 .. e - 1 : pattern[i] \in Nat
    BY <1>1, <2>1
  <2> QED
    BY <1>1, <2>1, <2>2, <2>3, NodesAreTexts DEF BucketsInOrder, BucketsAreConfirmed
<1>3. /\ TreeIsOwn' /\ OnlyTheProgramConfirms' /\ TracesAreOwn'
  BY <1>1 DEF TreeIsOwn, OnlyTheProgramConfirms, TracesAreOwn, Traced
<1>4. step' \in {"ask", "done"} /\ SeedsInOrder' /\ Unanswered'
  BY DEF Goes, SeedsInOrder, Seeding, Unanswered
<1>5. ASSUME at' = Next_e, step' = IF e = n THEN "done" ELSE "ask",
             Len(pattern') = e, Len(buckets') \in Nat, Len(buckets') >= 1
      PROVE  NodesInOrder' /\ FirstWayConfirmed' /\ at' \in [e : Nat, b : Nat, way : {1, 2}]
  <2>1. CASE e = n
    BY <2>1, <1>5, <1>1 DEF NodesInOrder, FirstWayConfirmed, Sorting, Next_e
  <2>2. CASE e # n
    <3>1. at' = [e |-> e + 1, b |-> 1, way |-> 1] /\ e + 1 \in 2 .. n
      BY <2>2, <1>5, <1>1 DEF Next_e
    <3> QED
      BY <3>1, <2>2, <1>5, <1>1 DEF NodesInOrder, FirstWayConfirmed
  <2> QED
    BY <2>1, <2>2
<1>6. CASE v /\ at.way = 2
  <2>1. /\ pattern' = Append(pattern, at.b - 1) /\ buckets' = buckets /\ at' = Next_e
        /\ step' = IF e = n THEN "done" ELSE "ask"
    BY <1>6 DEF Goes
  <2>2. at.b - 1 \in Nat /\ at.b - 1 < Len(buckets)
    BY <1>1
  <2>3. /\ pattern' \in Seq(Nat) /\ Len(pattern') = e /\ DOMAIN pattern' = 1 .. e
        /\ \A i \in 1 .. e - 1 : pattern'[i] = pattern[i]
        /\ pattern'[e] = at.b - 1
    <3>1. pattern' = Append(pattern, at.b - 1) /\ e \in Nat /\ Len(pattern) = e - 1 /\ pattern \in Seq(Nat)
      BY <2>1, <1>1
    <3> HIDE DEF e
    <3> QED
      BY <3>1, <2>2, AppendFacts
  <2>4. NodesInOrder' /\ FirstWayConfirmed' /\ at' \in [e : Nat, b : Nat, way : {1, 2}]
    BY <1>1, <1>5, <2>1, <2>3
  <2>5. TypeOK'
    BY <1>1, <1>4, <2>1, <2>3, <2>4 DEF TypeOK, Steps
  <2>6. BucketsInOrder'
    <3>1. \A k \in DOMAIN buckets' : buckets'[k] <= Len(pattern')
      BY <1>1, <1>2, <2>1, <2>3
    <3>2. \A i \in DOMAIN pattern' : pattern'[i] < Len(buckets')
      BY <1>1, <1>2, <2>1, <2>2, <2>3
    <3> QED
      BY <3>1, <3>2, <2>1, <2>3, <1>1 DEF BucketsInOrder
  <2>7. Fits(e, r)
    <3> SUFFICES ASSUME Node(r) # Node(e), OneTreePerText PROVE Confirms(e, r) /\ Confirms(r, e)
      BY DEF Fits
    <3>1. ~Same /\ Updated = Replaced(r, e)
      BY <1>6 DEF Same, Updated
    <3>2. Replaced(r, e).text \in DOMAIN EXEC_MAP' /\ EXEC_MAP'[Replaced(r, e).text]
      BY <3>1, <1>6
    <3>3. Replaced(e, r).text \in DOMAIN EXEC_MAP' /\ EXEC_MAP'[Replaced(e, r).text]
      BY <3>1, <1>1, <1>6 DEF FirstWayConfirmed
    <3>4. Node(r) \in Texts /\ Node(e) \in Texts
      BY <1>1, <1>2
    <3> HIDE DEF e, r
    <3>5. Confirms(r, e)
      BY <3>2, <3>4, ConfirmedText DEF Confirms, Replaced
    <3>6. Confirms(e, r)
      BY <3>3, <3>4, ConfirmedText DEF Confirms, Replaced
    <3> QED
      BY <3>5, <3>6
  <2>8. BucketsAreConfirmed'
    <3>1. \A i \in 1 .. e : Fits(i, buckets'[pattern'[i] + 1])
      <4> TAKE i \in 1 .. e
      <4>1. CASE i = e
        <5>1. pattern'[i] + 1 = at.b
          BY <4>1, <2>3, <1>1
        <5> QED
          BY <5>1, <4>1, <2>1, <2>7
      <4>2. CASE i \in 1 .. e - 1
        BY <4>2, <2>1, <2>3, <1>2
      <4> QED
        BY <4>1, <4>2, <1>1
    <3>2. \A i, q : Fits(i, q)' <=> Fits(i, q)
      BY <1>1, FitsStays
    <3> QED
      BY <2>3, <3>1, <3>2 DEF BucketsAreConfirmed
  <2> QED
    BY <1>3, <1>4, <2>4, <2>5, <2>6, <2>8
<1>7. CASE ~v /\ at.b = Len(buckets)
  <2>1. /\ pattern' = Append(pattern, Len(buckets)) /\ buckets' = Append(buckets, e) /\ at' = Next_e
        /\ step' = IF e = n THEN "done" ELSE "ask"
    BY <1>7 DEF Goes
  <2>2. /\ pattern' \in Seq(Nat) /\ Len(pattern') = e /\ DOMAIN pattern' = 1 .. e
        /\ \A i \in 1 .. e - 1 : pattern'[i] = pattern[i]
        /\ pattern'[e] = Len(buckets)
    BY <2>1, <1>1, AppendFacts
  <2>3. /\ buckets' \in Seq(Nat \ {0}) /\ Len(buckets') = Len(buckets) + 1
        /\ DOMAIN buckets' = 1 .. Len(buckets) + 1
        /\ \A k \in 1 .. Len(buckets) : buckets'[k] = buckets[k]
        /\ buckets'[Len(buckets) + 1] = e
    BY <2>1, <1>1
  <2>4. NodesInOrder' /\ FirstWayConfirmed' /\ at' \in [e : Nat, b : Nat, way : {1, 2}]
    BY <1>1, <1>5, <2>1, <2>2, <2>3
  <2>5. TypeOK'
    BY <1>1, <1>4, <2>2, <2>3, <2>4 DEF TypeOK, Steps
  <2>6. BucketsInOrder'
    <3>1. ASSUME NEW k \in 1 .. Len(buckets) + 1 PROVE buckets'[k] <= e
      <4>1. CASE k = Len(buckets) + 1
        BY <4>1, <2>3, <1>1
      <4>2. CASE k \in 1 .. Len(buckets)
        <5>1. buckets[k] \in 1 .. e - 1 /\ buckets'[k] = buckets[k]
          BY <4>2, <1>2, <2>3
        <5> QED
          BY <5>1, <1>1
      <4> QED
        BY <4>1, <4>2, <1>1
    <3>2. ASSUME NEW i \in 1 .. e PROVE pattern'[i] < Len(buckets) + 1
      <4>1. CASE i = e
        BY <4>1, <2>2, <1>1
      <4>2. CASE i \in 1 .. e - 1
        <5>1. pattern'[i] = pattern[i] /\ pattern[i] \in Nat /\ pattern[i] < Len(buckets)
          BY <4>2, <1>2, <2>2
        <5> QED
          BY <5>1, <1>1
      <4> QED
        BY <4>1, <4>2, <1>1
    <3> QED
      BY <3>1, <3>2, <2>1, <2>2, <2>3, <1>1 DEF BucketsInOrder
  <2>7. BucketsAreConfirmed'
    <3>1. \A i \in 1 .. e : Fits(i, buckets'[pattern'[i] + 1])
      <4> TAKE i \in 1 .. e
      <4>1. CASE i = e
        BY <4>1, <2>2, <2>3 DEF Fits
      <4>2. CASE i \in 1 .. e - 1
        <5>1. pattern'[i] = pattern[i] /\ pattern[i] + 1 \in 1 .. Len(buckets)
          <6>1. pattern[i] \in Nat /\ pattern[i] < Len(buckets)
            BY <4>2, <1>2
          <6>2. Len(buckets) \in Nat
            BY <1>1
          <6>3. pattern[i] + 1 \in 1 .. Len(buckets)
            BY <6>1, <6>2
          <6> QED
            BY <6>3, <4>2, <2>2
        <5>2. buckets'[pattern'[i] + 1] = buckets[pattern[i] + 1]
          BY <5>1, <2>3
        <5> QED
          BY <4>2, <5>2, <1>2
      <4> QED
        BY <4>1, <4>2, <1>1
    <3>2. \A i, q : Fits(i, q)' <=> Fits(i, q)
      BY <1>1, FitsStays
    <3> QED
      BY <2>2, <3>1, <3>2 DEF BucketsAreConfirmed
  <2> QED
    BY <1>3, <1>4, <2>4, <2>5, <2>6, <2>7
<1>8. CASE (v /\ at.way = 1) \/ (~v /\ at.b # Len(buckets))
  <2>1. /\ pattern' = pattern /\ buckets' = buckets /\ step' = "ask"
        /\ at' = IF v THEN [at EXCEPT !.way = 2] ELSE [at EXCEPT !.b = at.b + 1, !.way = 1]
    BY <1>8 DEF Goes
  <2>2. at'.e = e /\ at'.b \in 1 .. Len(buckets) /\ at' \in [e : Nat, b : Nat, way : {1, 2}]
    <3>1. CASE v
      BY <3>1, <1>1, <2>1
    <3>2. CASE ~v
      <4>1. at.b + 1 \in 1 .. Len(buckets) /\ at.b + 1 \in Nat
        BY <3>2, <1>1, <1>8
      <4>2. at' = [at EXCEPT !.b = at.b + 1, !.way = 1]
        BY <3>2, <2>1
      <4> QED
        BY <4>1, <4>2, <1>1
    <3> QED
      BY <3>1, <3>2
  <2>3. TypeOK'
    BY <1>1, <2>1, <2>2 DEF TypeOK, Steps
  <2>4. NodesInOrder' /\ BucketsInOrder'
    BY <1>1, <2>1, <2>2 DEF NodesInOrder, BucketsInOrder
  <2>5. FirstWayConfirmed'
    <3> SUFFICES ASSUME at'.way = 2 PROVE FirstWayConfirmed'
      BY DEF FirstWayConfirmed
    <3>1. v /\ at.way = 1 /\ at'.b = at.b
      BY <1>1, <1>8, <2>1
    <3>2. Same \/ (Replaced(e, r).text \in DOMAIN EXEC_MAP' /\ EXEC_MAP'[Replaced(e, r).text])
      BY <3>1 DEF Updated
    <3> QED
      BY <3>1, <3>2, <2>1, <2>2, <1>1 DEF FirstWayConfirmed, Same, Replaced, Node
  <2>6. BucketsAreConfirmed'
    <3>1. \A i, q : Fits(i, q)' <=> Fits(i, q)
      BY <1>1, FitsStays
    <3> QED
      BY <2>1, <3>1 DEF BucketsAreConfirmed
  <2> QED
    BY <1>3, <1>4, <2>3, <2>4, <2>5, <2>6
<1> QED
  BY <1>1, <1>6, <1>7, <1>8

LEMMA KnownStep == ASSUME IInv, Known PROVE IInv'
<1> DEFINE v == IF Same THEN TRUE ELSE EXEC_MAP[Updated.text]
<1>1. /\ step = "ask" /\ Goes(v) /\ inp' = inp /\ EXEC_MAP' = EXEC_MAP
      /\ Same \/ Updated.text \in DOMAIN EXEC_MAP
  BY DEF Known
<1>2. v \in BOOLEAN
  BY <1>1 DEF IInv, TypeOK
<1>3. v => Same \/ (Updated.text \in DOMAIN EXEC_MAP' /\ EXEC_MAP'[Updated.text])
  BY <1>1
<1>4. /\ DOMAIN EXEC_MAP' \subseteq Texts /\ \A s \in DOMAIN EXEC_MAP' : EXEC_MAP'[s] \in BOOLEAN
      /\ \A s \in DOMAIN EXEC_MAP : s \in DOMAIN EXEC_MAP' /\ EXEC_MAP'[s] = EXEC_MAP[s]
      /\ \A s \in DOMAIN EXEC_MAP' : EXEC_MAP'[s] => \E x, y \in Texts : Swap(swap, x, y) = Traced(s)
  BY <1>1 DEF IInv, TypeOK, OnlyTheProgramConfirms
<1> HIDE DEF v
<1> QED
  BY <1>1, <1>2, <1>3, <1>4, GoesStep

(* A new verdict is TRUE only if the file holds the swapped tree itself, and the  *)
(* trees in the file are trees of this program.                                  *)
LEMMA VerifiedStep == ASSUME IInv, Verified PROVE IInv'
<1> DEFINE v == tree = Updated
           t == Updated.text
<1>1. /\ step = "verified" /\ Sorting /\ Goes(v) /\ inp' = inp
      /\ EXEC_MAP' = [s \in DOMAIN EXEC_MAP \union {t} |-> IF s = t THEN v ELSE EXEC_MAP[s]]
      /\ t \notin DOMAIN EXEC_MAP
  BY DEF Verified, Sorting, IInv, Unanswered
<1>2. Updated \in Trees /\ t \in Texts
  BY <1>1, NodesAreTexts DEF Trees
<1>3. v => \E x, y \in Texts : Swap(swap, x, y) = Traced(t)
  <2>1. v => Updated = Traced(t)
    BY <1>2, NoTreeAssumption DEF IInv, TreeIsOwn
  <2>2. \E x, y \in Texts : Swap(swap, x, y) = Updated
    BY <1>1, NodesAreTexts DEF Updated, Replaced
  <2> QED
    BY <2>1, <2>2
<1> HIDE DEF v, t
<1>4. DOMAIN EXEC_MAP' = DOMAIN EXEC_MAP \union {t} /\ EXEC_MAP'[t] = v
      /\ \A s \in DOMAIN EXEC_MAP : EXEC_MAP'[s] = EXEC_MAP[s]
  BY <1>1
<1>5. v \in BOOLEAN
  BY DEF v
<1>6. /\ DOMAIN EXEC_MAP' \subseteq Texts /\ \A s \in DOMAIN EXEC_MAP' : EXEC_MAP'[s] \in BOOLEAN
      /\ \A s \in DOMAIN EXEC_MAP : s \in DOMAIN EXEC_MAP' /\ EXEC_MAP'[s] = EXEC_MAP[s]
      /\ \A s \in DOMAIN EXEC_MAP' : EXEC_MAP'[s] => \E x, y \in Texts : Swap(swap, x, y) = Traced(s)
  BY <1>2, <1>3, <1>4, <1>5 DEF IInv, TypeOK, OnlyTheProgramConfirms
<1>7. v => Same \/ (Updated.text \in DOMAIN EXEC_MAP' /\ EXEC_MAP'[Updated.text])
  BY <1>4 DEF t
<1> QED
  BY <1>1, <1>5, <1>6, <1>7, GoesStep

-----------------------------------------------------------------------------
LEMMA StepHolds == IInv /\ [Next]_vars => IInv'
<1> SUFFICES ASSUME IInv, [Next]_vars PROVE IInv'
  OBVIOUS
<1>1. CASE WriteSeed
  BY <1>1, WriteSeedStep
<1>2. CASE GdbEnds \/ GdbDies
  BY <1>2, GdbStep
<1>3. CASE ReadTrace
  BY <1>3, ReadTraceStep
<1>4. CASE Known
  BY <1>4, KnownStep
<1>5. CASE Check
  BY <1>5, CheckStep
<1>6. CASE Verified
  BY <1>6, VerifiedStep
<1>7. CASE UNCHANGED vars
  <2>1. UNCHANGED <<swap, parse, inp, tree, deaths, step, call_trace, EXEC_MAP, buckets, pattern, at>>
    BY <1>7 DEF vars
  <2>2. /\ TypeOK' /\ TreeIsOwn' /\ SeedsInOrder' /\ NodesInOrder' /\ BucketsInOrder'
    BY <2>1 DEF IInv, TypeOK, TreeIsOwn, Traced, SeedsInOrder, Seeding, NodesInOrder, Sorting, BucketsInOrder
  <2>3. FirstWayConfirmed' /\ Unanswered'
    BY <2>1 DEF IInv, FirstWayConfirmed, Unanswered, Sorting, Same, Updated, Replaced, Node
  <2>4. OnlyTheProgramConfirms' /\ TracesAreOwn'
    BY <2>1 DEF IInv, OnlyTheProgramConfirms, TracesAreOwn, Traced
  <2>5. BucketsAreConfirmed'
    BY <2>1, FitsStays DEF IInv, BucketsAreConfirmed
  <2> QED
    BY <2>2, <2>3, <2>4, <2>5 DEF IInv
<1> QED
  BY <1>1, <1>2, <1>3, <1>4, <1>5, <1>6, <1>7 DEF Next

(* IInv holds in every session.                                               *)
THEOREM Inductive == Spec => []IInv
<1>1. Init => IInv
  BY InitHolds
<1>2. IInv /\ [Next]_vars => IInv'
  BY StepHolds
<1> QED
  BY <1>1, <1>2, PTL DEF Spec

(* check says yes to a swap only if the program takes the text of the new tree    *)
(* in that shape, whatever gdb processes die and whatever tree they leave.        *)
THEOREM VerdictsSound == Spec => []OnlyTheProgramConfirms
<1>1. IInv => OnlyTheProgramConfirms
  BY DEF IInv
<1> QED
  BY <1>1, Inductive, PTL

(* No mutated text, and no text of a later seed, is ever in the traces.           *)
THEOREM TracesSound == Spec => []TracesAreOwn
<1>1. IInv => TracesAreOwn
  BY DEF IInv
<1> QED
  BY <1>1, Inductive, PTL

(* Nodes share a bucket only with a first node the program lets them be swapped   *)
(* with, both ways, as long as no two swaps come out with one text.               *)
THEOREM BucketsSound == Spec => []BucketsAreConfirmed
<1>1. IInv => BucketsAreConfirmed
  BY DEF IInv
<1> QED
  BY <1>1, Inductive, PTL

-----------------------------------------------------------------------------
(* While no gdb has died: the file tree answers for the text in inp.0.txt, a     *)
(* refusal is the program's, and the buckets a node has been kept out of are     *)
(* those the program keeps it out of.                                           *)
Separate(e, r) == ~(Confirms(e, r) /\ Confirms(r, e))

Answers ==
    /\ step \in {"trace", "traced"} => inp = Seeds[Len(call_trace) + 1]
    /\ step \in {"verify", "verified"} => inp = Updated.text
    /\ step \in {"traced", "verified"} => tree = Traced(inp)

SeedsTraced == \A i \in 1 .. Len(call_trace) : call_trace[i] = Traced(Seeds[i])

Refusals ==
    \A s \in DOMAIN EXEC_MAP : ~EXEC_MAP[s] =>
        \E x, y \in Texts : Swap(swap, x, y).text = s /\ Swap(swap, x, y) # Traced(s)

KeptOut ==
    /\ \A e \in 2 .. Len(pattern) : \A b \in 1 .. pattern[e] : Separate(e, buckets[b])
    /\ Sorting => \A b \in 1 .. at.b - 1 : Separate(at.e, buckets[b])

CalmInv == deaths = 0 => /\ Answers /\ SeedsTraced /\ Refusals
                         /\ OneTreePerText => KeptOut

LEMMA SeparateStays ==
    ASSUME UNCHANGED <<swap, parse, call_trace>>, NEW e, NEW r
    PROVE  Separate(e, r)' <=> Separate(e, r)
<1>1. Node(e)' = Node(e) /\ Node(r)' = Node(r)
  BY DEF Node
<1>2. (Confirms(e, r)' <=> Confirms(e, r)) /\ (Confirms(r, e)' <=> Confirms(r, e))
  BY <1>1 DEF Confirms, Replaced, Traced
<1> QED
  BY <1>2 DEF Separate

LEMMA CalmInit == Init => CalmInv
BY DEF Init, CalmInv, Answers, SeedsTraced, Refusals, KeptOut, Sorting

(* A step that leaves nodes, answers and buckets alone keeps a node out of the   *)
(* same buckets.                                                             *)
LEMMA KeptOutStays ==
    ASSUME CalmInv, deaths = 0, Sorting' => Sorting,
           UNCHANGED <<swap, parse, call_trace, EXEC_MAP, buckets, pattern, at>>
    PROVE  SeedsTraced' /\ Refusals' /\ (OneTreePerText => KeptOut)'
<1>1. SeedsTraced' /\ Refusals'
  BY DEF CalmInv, SeedsTraced, Refusals, Traced
<1>2. OneTreePerText' <=> OneTreePerText
  BY DEF OneTreePerText
<1>3. \A e, r : Separate(e, r)' <=> Separate(e, r)
  BY SeparateStays
<1>4. ASSUME KeptOut PROVE KeptOut'
  BY <1>3, <1>4 DEF KeptOut
<1> QED
  BY <1>1, <1>2, <1>4 DEF CalmInv

LEMMA CalmFiles ==
    ASSUME IInv, CalmInv, WriteSeed \/ GdbEnds \/ GdbDies \/ Check
    PROVE  CalmInv'
<1> SUFFICES ASSUME deaths' = 0 PROVE CalmInv'
  BY DEF CalmInv
<1>1. ~GdbDies
  BY DEF GdbDies, IInv, TypeOK
<1>2. deaths = 0 /\ UNCHANGED <<swap, parse, call_trace, EXEC_MAP, buckets, pattern, at>>
  BY <1>1 DEF WriteSeed, GdbEnds, Check
<1>3. Sorting' => Sorting
  BY <1>1 DEF WriteSeed, GdbEnds, Check, After, Sorting
<1>4. Answers'
  <2>1. CASE WriteSeed
    BY <2>1 DEF WriteSeed, Answers
  <2>2. CASE GdbEnds
    BY <2>2, <1>2 DEF GdbEnds, After, Answers, CalmInv, Traced, Updated, Replaced, Node
  <2>3. CASE Check
    BY <2>3 DEF Check, Answers, Updated, Replaced, Node
  <2> QED
    BY <1>1, <2>1, <2>2, <2>3
<1> QED
  BY <1>2, <1>3, <1>4, KeptOutStays DEF CalmInv

LEMMA CalmRead ==
    ASSUME IInv, CalmInv, ReadTrace
    PROVE  CalmInv'
<1> SUFFICES ASSUME deaths' = 0 PROVE CalmInv'
  BY DEF CalmInv
<1>1. /\ Seeding /\ step = "traced" /\ deaths = 0 /\ Len(call_trace) \in Nat /\ call_trace \in Seq(Trees)
      /\ buckets = <<1>> /\ pattern = <<0>> /\ at = Start
      /\ tree = Traced(inp) /\ inp = Seeds[Len(call_trace) + 1]
      /\ UNCHANGED <<swap, parse, inp, tree, EXEC_MAP, buckets, pattern, at>>
  BY DEF ReadTrace, Seeding, IInv, SeedsInOrder, TypeOK, CalmInv, Answers
<1>2. Answers'
  <2>1. Len(call_trace) < Len(Seeds) /\ Len(Seeds) \in Nat
    BY <1>1, SeedsAssumption DEF IInv, SeedsInOrder
  <2>2. tree \in Trees
    BY <1>1, TreesAreTrees DEF IInv, TypeOK
  <2>3. tree # NoTree => Len(call_trace') = Len(call_trace) + 1
    BY <1>1, <2>2 DEF ReadTrace
  <2>4. step' \in {"failed", "seed", "ask", "done"}
    BY <1>1, <2>1, <2>3 DEF ReadTrace
  <2> QED
    BY <2>4 DEF Answers
<1>3. SeedsTraced'
  <2>1. tree \in Trees
    BY <1>1, TreesAreTrees DEF IInv, TypeOK
  <2>2. call_trace' = Append(call_trace, tree) \/ call_trace' = call_trace
    BY DEF ReadTrace
  <2>3. CASE call_trace' = call_trace
    BY <1>1, <2>3 DEF CalmInv, SeedsTraced, Traced
  <2>4. CASE call_trace' = Append(call_trace, tree)
    <3>1. /\ Len(call_trace') = Len(call_trace) + 1
          /\ \A i \in 1 .. Len(call_trace) : call_trace'[i] = call_trace[i]
          /\ call_trace'[Len(call_trace) + 1] = tree
      BY <1>1, <2>1, <2>4
    <3>2. ASSUME NEW i \in 1 .. Len(call_trace) + 1 PROVE call_trace'[i] = Traced(Seeds[i])
      <4>1. i = Len(call_trace) + 1 \/ i \in 1 .. Len(call_trace)
        BY <1>1
      <4> QED
        BY <1>1, <3>1, <4>1 DEF CalmInv, SeedsTraced
    <3> QED
      BY <1>1, <3>1, <3>2 DEF SeedsTraced, Traced
  <2> QED
    BY <2>2, <2>3, <2>4
<1>4. Refusals'
  BY <1>1 DEF CalmInv, Refusals, Traced
<1>5. KeptOut'
  <2>1. buckets' = <<1>> /\ pattern' = <<0>> /\ at'.b = 1
    BY <1>1 DEF Start
  <2>2. Len(pattern') = 1
    BY <2>1
  <2>3. 2 .. Len(pattern') = {} /\ 1 .. at'.b - 1 = {}
    BY <2>1, <2>2
  <2> QED
    BY <2>3 DEF KeptOut
<1> QED
  BY <1>2, <1>3, <1>4, <1>5 DEF CalmInv

(* A refusal of a text is a refusal of the swap that was asked.                 *)
LEMMA RefusedText ==
    ASSUME NEW M, NEW x \in Texts, NEW y \in Texts, OneTreePerText,
           \A s \in DOMAIN M : ~M[s] =>
               \E z, w \in Texts : Swap(swap, z, w).text = s /\ Swap(swap, z, w) # Traced(s),
           Swap(swap, x, y).text \in DOMAIN M, ~M[Swap(swap, x, y).text]
    PROVE  Swap(swap, x, y) # Traced(Swap(swap, x, y).text)
<1> DEFINE s == Swap(swap, x, y).text
<1>1. PICK z \in Texts, w \in Texts : Swap(swap, z, w).text = s /\ Swap(swap, z, w) # Traced(s)
  OBVIOUS
<1>2. Swap(swap, z, w) = Swap(swap, x, y)
  BY <1>1 DEF OneTreePerText
<1> QED
  BY <1>1, <1>2

(* What a verdict does to the buckets, when every refusal is the program's.      *)
LEMMA CalmGoes ==
    ASSUME IInv, CalmInv, deaths = 0, step \in {"ask", "verified"}, NEW v \in BOOLEAN, Goes(v), inp' = inp,
           \A s \in DOMAIN EXEC_MAP' : ~EXEC_MAP'[s] =>
               \E x, y \in Texts : Swap(swap, x, y).text = s /\ Swap(swap, x, y) # Traced(s),
           ~v => ~Same /\ Updated.text \in DOMAIN EXEC_MAP' /\ ~EXEC_MAP'[Updated.text]
    PROVE  CalmInv'
<1> DEFINE e == at.e
           r == buckets[at.b]
<1>1. /\ Sorting /\ UNCHANGED <<swap, parse, tree, deaths, call_trace>>
      /\ e \in 2 .. Len(call_trace) /\ Len(pattern) = e - 1 /\ Len(call_trace) \in Nat
      /\ at.b \in 1 .. Len(buckets) /\ Len(buckets) \in Nat /\ r \in 1 .. Len(call_trace)
      /\ at \in [e : Nat, b : Nat, way : {1, 2}]
      /\ buckets \in Seq(Nat \ {0}) /\ pattern \in Seq(Nat)
      /\ \A i \in 1 .. Len(call_trace) : Node(i) \in Texts
      /\ \A i \in 1 .. e - 1 : pattern[i] \in Nat /\ pattern[i] < Len(buckets)
  BY NodesAreTexts DEF Goes, Sorting, IInv, TypeOK, BucketsInOrder
<1>2. Answers' /\ SeedsTraced' /\ Refusals'
  BY <1>1 DEF Goes, Answers, CalmInv, SeedsTraced, Refusals, Traced
<1> SUFFICES ASSUME OneTreePerText PROVE KeptOut'
  <2>1. OneTreePerText' <=> OneTreePerText
    BY <1>1 DEF OneTreePerText
  <2> QED
    BY <1>2, <2>1 DEF CalmInv
<1>3. \A i, q : Separate(i, q)' <=> Separate(i, q)
  BY <1>1, SeparateStays
<1>4. /\ \A i \in 2 .. e - 1 : \A b \in 1 .. pattern[i] : Separate(i, buckets[b])
      /\ \A b \in 1 .. at.b - 1 : Separate(e, buckets[b])
  BY <1>1 DEF CalmInv, KeptOut
<1>5. ASSUME ~v PROVE Separate(e, r)
  <2>1. Node(e) \in Texts /\ Node(r) \in Texts
    BY <1>1
  <2>2. Updated = Replaced(e, r) \/ Updated = Replaced(r, e)
    BY DEF Updated
  <2>3. Updated # Traced(Updated.text)
    BY <1>5, <2>1, <2>2, RefusedText DEF Replaced
  <2> QED
    BY <2>2, <2>3 DEF Separate, Confirms
<1>6. ASSUME NEW k \in Nat, pattern' = Append(pattern, k), at' = Next_e,
             step' = IF e = Len(call_trace) THEN "done" ELSE "ask",
             \A b \in 1 .. Len(buckets) : buckets'[b] = buckets[b], k <= Len(buckets),
             \A b \in 1 .. k : Separate(e, buckets[b])
      PROVE  KeptOut'
  <2>1. Len(pattern') = e /\ pattern'[e] = k /\ \A i \in 1 .. e - 1 : pattern'[i] = pattern[i]
    <3>1. e \in Nat /\ Len(pattern) = e - 1 /\ pattern \in Seq(Nat)
      BY <1>1
    <3> HIDE DEF e
    <3> QED
      BY <1>6, <3>1, AppendFacts
  <2>2. ASSUME NEW i \in 2 .. e, NEW b \in 1 .. pattern'[i] PROVE Separate(i, buckets'[b])
    <3>1. CASE i = e
      <4>1. b \in 1 .. k /\ b \in 1 .. Len(buckets)
        BY <3>1, <2>1, <2>2, <1>6, <1>1
      <4>2. buckets'[b] = buckets[b] /\ Separate(e, buckets[b])
        BY <4>1, <1>6
      <4> QED
        BY <3>1, <4>2
    <3>2. CASE i # e
      <4>1. i \in 2 .. e - 1 /\ i \in 1 .. e - 1
        BY <3>2, <1>1
      <4>2. b \in 1 .. pattern[i] /\ b \in 1 .. Len(buckets)
        BY <4>1, <2>1, <2>2, <1>1
      <4> QED
        BY <4>1, <4>2, <1>4, <1>6
    <3> QED
      BY <3>1, <3>2
  <2>3. Sorting' => 1 .. at'.b - 1 = {}
    <3>1. Sorting' => at' = [e |-> e + 1, b |-> 1, way |-> 1]
      BY <1>6, <1>1 DEF Sorting, Next_e
    <3> QED
      BY <3>1
  <2> QED
    BY <2>1, <2>2, <2>3, <1>3 DEF KeptOut
<1>7. CASE v /\ at.way = 2
  <2>1. /\ pattern' = Append(pattern, at.b - 1) /\ buckets' = buckets /\ at' = Next_e
        /\ step' = IF e = Len(call_trace) THEN "done" ELSE "ask"
    BY <1>7 DEF Goes
  <2>2. at.b - 1 \in Nat /\ at.b - 1 <= Len(buckets)
    BY <1>1
  <2> QED
    BY <2>1, <2>2, <1>4, <1>6
<1>8. CASE ~v /\ at.b = Len(buckets)
  <2>1. /\ pattern' = Append(pattern, Len(buckets)) /\ buckets' = Append(buckets, e) /\ at' = Next_e
        /\ step' = IF e = Len(call_trace) THEN "done" ELSE "ask"
    BY <1>8 DEF Goes
  <2>2. \A b \in 1 .. Len(buckets) : buckets'[b] = buckets[b]
    BY <1>1, <2>1
  <2>3. \A b \in 1 .. Len(buckets) : b \in 1 .. at.b - 1 \/ b = at.b
    BY <1>1, <1>8
  <2>4. \A b \in 1 .. Len(buckets) : Separate(e, buckets[b])
    BY <2>3, <1>4, <1>5, <1>8
  <2>5. Len(buckets) \in Nat /\ Len(buckets) <= Len(buckets)
    BY <1>1
  <2> HIDE DEF e, r
  <2> QED
    BY <2>1, <2>2, <2>4, <2>5, <1>6
<1>9. CASE (v /\ at.way = 1) \/ (~v /\ at.b # Len(buckets))
  <2>1. /\ pattern' = pattern /\ buckets' = buckets
        /\ at' = IF v THEN [at EXCEPT !.way = 2] ELSE [at EXCEPT !.b = at.b + 1, !.way = 1]
    BY <1>9 DEF Goes
  <2>2. at'.e = e /\ at'.b = IF v THEN at.b ELSE at.b + 1
    BY <1>1, <2>1
  <2>3. \A b \in 1 .. at'.b - 1 : Separate(e, buckets[b])
    <3> TAKE b \in 1 .. at'.b - 1
    <3>1. b \in 1 .. at.b - 1 \/ (~v /\ b = at.b)
      BY <1>1, <2>2
    <3> QED
      BY <3>1, <1>4, <1>5
  <2> QED
    BY <2>1, <2>2, <2>3, <1>1, <1>3, <1>4 DEF KeptOut
<1> QED
  BY <1>1, <1>7, <1>8, <1>9

LEMMA CalmKnown == ASSUME IInv, CalmInv, Known PROVE CalmInv'
<1> SUFFICES ASSUME deaths' = 0 PROVE CalmInv'
  BY DEF CalmInv
<1> DEFINE v == IF Same THEN TRUE ELSE EXEC_MAP[Updated.text]
<1>1. /\ step = "ask" /\ Goes(v) /\ inp' = inp /\ EXEC_MAP' = EXEC_MAP /\ deaths = 0
      /\ Same \/ Updated.text \in DOMAIN EXEC_MAP
  BY DEF Known, Goes
<1>2. v \in BOOLEAN
  BY <1>1 DEF IInv, TypeOK
<1>3. ~v => ~Same /\ Updated.text \in DOMAIN EXEC_MAP' /\ ~EXEC_MAP'[Updated.text]
  BY <1>1
<1>4. \A s \in DOMAIN EXEC_MAP' : ~EXEC_MAP'[s] =>
          \E x, y \in Texts : Swap(swap, x, y).text = s /\ Swap(swap, x, y) # Traced(s)
  BY <1>1 DEF CalmInv, Refusals
<1> HIDE DEF v
<1> QED
  BY <1>1, <1>2, <1>3, <1>4, CalmGoes

LEMMA CalmVerified == ASSUME IInv, CalmInv, Verified PROVE CalmInv'
<1> SUFFICES ASSUME deaths' = 0 PROVE CalmInv'
  BY DEF CalmInv
<1> DEFINE v == tree = Updated
           t == Updated.text
<1>1. /\ step = "verified" /\ Sorting /\ Goes(v) /\ inp' = inp /\ deaths = 0
      /\ EXEC_MAP' = [s \in DOMAIN EXEC_MAP \union {t} |-> IF s = t THEN v ELSE EXEC_MAP[s]]
      /\ t \notin DOMAIN EXEC_MAP /\ ~Same
  BY DEF Verified, Goes, Sorting, IInv, Unanswered
<1>2. v \/ Updated # Traced(t)
  BY <1>1 DEF CalmInv, Answers
<1>3. \E x, y \in Texts : Swap(swap, x, y) = Updated
  BY <1>1, NodesAreTexts DEF Updated, Replaced
<1>4. ~v => \E x, y \in Texts : Swap(swap, x, y).text = t /\ Swap(swap, x, y) # Traced(t)
  BY <1>2, <1>3
<1>5. v \in BOOLEAN
  OBVIOUS
<1> HIDE DEF v, t
<1>6. DOMAIN EXEC_MAP' = DOMAIN EXEC_MAP \union {t} /\ EXEC_MAP'[t] = v
      /\ \A s \in DOMAIN EXEC_MAP : EXEC_MAP'[s] = EXEC_MAP[s]
  BY <1>1
<1>7. \A s \in DOMAIN EXEC_MAP' : ~EXEC_MAP'[s] =>
          \E x, y \in Texts : Swap(swap, x, y).text = s /\ Swap(swap, x, y) # Traced(s)
  BY <1>1, <1>4, <1>6 DEF CalmInv, Refusals
<1>8. ~v => ~Same /\ Updated.text \in DOMAIN EXEC_MAP' /\ ~EXEC_MAP'[Updated.text]
  BY <1>1, <1>6 DEF t
<1> QED
  BY <1>1, <1>5, <1>7, <1>8, CalmGoes

LEMMA CalmStep == IInv /\ CalmInv /\ [Next]_vars => CalmInv'
<1> SUFFICES ASSUME IInv, CalmInv, [Next]_vars PROVE CalmInv'
  OBVIOUS
<1>1. ASSUME UNCHANGED vars PROVE CalmInv'
  <2>1. UNCHANGED <<swap, parse, inp, tree, deaths, step, call_trace, EXEC_MAP, buckets, pattern, at>>
    BY <1>1 DEF vars
  <2>2. deaths = 0 => SeedsTraced' /\ Refusals' /\ (OneTreePerText => KeptOut)'
    BY <2>1, KeptOutStays DEF Sorting
  <2>3. deaths = 0 => Answers'
    BY <2>1 DEF CalmInv, Answers, Traced, Updated, Replaced, Node
  <2> QED
    BY <2>1, <2>2, <2>3 DEF CalmInv
<1> QED
  BY <1>1, CalmFiles, CalmRead, CalmKnown, CalmVerified DEF Next

(* Without deaths the traces are those of the seeds in order, and a node is kept  *)
(* out of a bucket only if the program refuses it a swap with the first node:    *)
(* NoDeathNoError.                                                            *)
THEOREM CalmSessionsAreRight == Spec => []NoDeathNoError
<1>1. Init => IInv /\ CalmInv
  BY InitHolds, CalmInit
<1>2. (IInv /\ CalmInv) /\ [Next]_vars => (IInv /\ CalmInv)'
  BY StepHolds, CalmStep
<1>3. IInv /\ CalmInv => NoDeathNoError
  <2> SUFFICES ASSUME IInv, CalmInv, deaths = 0, OneTreePerText
               PROVE  /\ \A i \in DOMAIN call_trace : call_trace[i] = Traced(Seeds[i])
                      /\ \A e \in DOMAIN pattern : \A b \in 1 .. pattern[e] :
                             e > 1 => ~(Confirms(e, buckets[b]) /\ Confirms(buckets[b], e))
    BY DEF NoDeathNoError
  <2>1. DOMAIN call_trace = 1 .. Len(call_trace) /\ DOMAIN pattern = 1 .. Len(pattern) /\ Len(pattern) \in Nat
    BY DEF IInv, TypeOK
  <2>2. \A e \in DOMAIN pattern : e > 1 => e \in 2 .. Len(pattern)
    BY <2>1
  <2> QED
    BY <2>1, <2>2 DEF CalmInv, SeedsTraced, KeptOut, Separate
<1> QED
  BY <1>1, <1>2, <1>3, PTL DEF Spec
================================================================================

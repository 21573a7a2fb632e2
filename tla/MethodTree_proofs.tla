--------------------------- MODULE MethodTree_proofs ---------------------------
(***************************************************************************)
(* Proofs about MethodTree. A tree, seen from its root, is a row: its       *)
(* children have ranges, lie side by side and are themselves rows. to_tree  *)
(* makes such a tree of any trace, unless an assertion of no_overlap fails: *)
(* no index belongs to two children of a method, what is trimmed of a child *)
(* stays a row, and the gaps are filled. The inductive invariant adds to    *)
(* that of LastComparisons that a method is called once and later than its  *)
(* caller (CallTree), that every compared index is owned by a method of the *)
(* trace (Owners), and what the tree that was made is (TreeInv).            *)
(***************************************************************************)
EXTENDS MethodTree, LastComparisons_proofs, FiniteSetTheorems

------------------------------------------------------------------------------
(* Order                                                                    *)

(* The i-th smallest of a finite set of numbers.                            *)
Ranked(K, C) == /\ \A i \in 1 .. C : nth(K, i) \in K
                /\ \A i, j \in 1 .. C : i < j => nth(K, i) < nth(K, j)
                /\ \A k \in K : \E i \in 1 .. C : nth(K, i) = k

(* nth counts the numbers of a finite set from the smallest to the largest. *)
LEMMA NthFacts ==
    ASSUME NEW K \in SUBSET Int, IsFiniteSet(K)
    PROVE  Cardinality(K) \in Nat /\ Ranked(K, Cardinality(K))
<1> DEFINE C == Cardinality(K)
           below(k) == {x \in K : x <= k}
           rank == [k \in K |-> Cardinality(below(k))]
<1>1. C \in Nat
  BY FS_CardinalityType
<1>2. \A k \in K : IsFiniteSet(below(k)) /\ Cardinality(below(k)) <= C /\ Cardinality(below(k)) \in Nat
  <2> TAKE k \in K
  <2>1. below(k) \in SUBSET K
    OBVIOUS
  <2> HIDE DEF below
  <2> QED
    BY <2>1, FS_Subset, FS_CardinalityType
<1>3. \A k \in K : rank[k] \in 1 .. C
  <2> TAKE k \in K
  <2>1. k \in below(k)
    OBVIOUS
  <2>2. Cardinality(below(k)) # 0
    BY <1>2, <2>1, FS_EmptySet
  <2> HIDE DEF below, C
  <2> QED
    BY <1>1, <1>2, <2>2
<1>4. \A k, l \in K : k < l => rank[k] < rank[l]
  <2> SUFFICES ASSUME NEW k \in K, NEW l \in K, k < l
               PROVE  Cardinality(below(k)) < Cardinality(below(l))
    OBVIOUS
  <2>1. below(k) \in SUBSET below(l) /\ l \in below(l) /\ l \notin below(k)
    <3>1. k \in Int /\ l \in Int /\ \A x \in K : x \in Int
      OBVIOUS
    <3>2. \A x \in K : x <= k => x <= l
      BY <3>1
    <3>3. ~(l <= k) /\ l <= l
      BY <3>1
    <3> QED
      BY <3>2, <3>3
  <2>2. IsFiniteSet(below(l)) /\ Cardinality(below(l)) \in Nat /\ Cardinality(below(k)) \in Nat
    BY <1>2
  <2>3. Cardinality(below(k)) <= Cardinality(below(l)) /\ Cardinality(below(k)) # Cardinality(below(l))
    <3> HIDE DEF below
    <3> QED
      BY <2>1, <2>2, FS_Subset
  <2> HIDE DEF below
  <2> QED
    BY <2>2, <2>3
<1>5. \A k, l \in K : rank[k] = rank[l] => k = l
  <2> SUFFICES ASSUME NEW k \in K, NEW l \in K, rank[k] = rank[l], k # l PROVE FALSE
    OBVIOUS
  <2>1. k < l \/ l < k
    OBVIOUS
  <2>2. rank[k] < rank[l] \/ rank[l] < rank[k]
    BY <1>4, <2>1
  <2>3. rank[k] \in 1 .. C
    BY <1>3
  <2> HIDE DEF rank, C
  <2> QED
    BY <1>1, <2>2, <2>3
<1>6. \A i \in 1 .. C : \E k \in K : rank[k] = i
  <2>1. rank \in [K -> 1 .. C]
    <3>1. rank = [k \in K |-> rank[k]]
      OBVIOUS
    <3> HIDE DEF rank, C
    <3> QED
      BY <1>3, <3>1
  <2>2. rank \in Injection(K, 1 .. C)
    <3> HIDE DEF rank, C
    <3> QED
      BY <1>5, <2>1 DEF Injection, IsInjective
  <2>3. IsFiniteSet(1 .. C) /\ Cardinality(1 .. C) = C
    <3> HIDE DEF C
    <3>1. C = 0 => (IF 1 > C THEN 0 ELSE C - 1 + 1) = C
      OBVIOUS
    <3>2. C # 0 => (IF 1 > C THEN 0 ELSE C - 1 + 1) = C
      BY <1>1
    <3> QED
      BY <1>1, <3>1, <3>2, FS_Interval
  <2>4. rank \in Surjection(K, 1 .. C)
    <3> HIDE DEF rank
    <3> QED
      BY <2>2, <2>3, FS_Injection
  <2> HIDE DEF rank, C
  <2> QED
    BY <2>4 DEF Surjection
<1>7. \A i \in 1 .. C : nth(K, i) \in K /\ rank[nth(K, i)] = i
  <2> TAKE i \in 1 .. C
  <2>1. \E k \in K : Cardinality({x \in K : x <= k}) = i
    BY <1>6
  <2>2. nth(K, i) \in K /\ Cardinality({x \in K : x <= nth(K, i)}) = i
    BY <2>1, Zenon DEF nth
  <2> QED
    BY <2>2
<1>8. \A i, j \in 1 .. C : i < j => nth(K, i) < nth(K, j)
  <2> SUFFICES ASSUME NEW i \in 1 .. C, NEW j \in 1 .. C, i < j, ~(nth(K, i) < nth(K, j))
               PROVE  FALSE
    OBVIOUS
  <2> DEFINE a == nth(K, i)
             b == nth(K, j)
  <2>1. a \in K /\ b \in K /\ rank[a] = i /\ rank[b] = j
    BY <1>7
  <2>2. ~(a < b)
    OBVIOUS
  <2> HIDE DEF a, b, rank, C
  <2>3. b < a \/ a = b
    BY <2>1, <2>2
  <2>4. j < i \/ i = j
    BY <1>4, <2>1, <2>3
  <2> QED
    BY <1>1, <2>4
<1>9. \A k \in K : \E i \in 1 .. C : nth(K, i) = k
  <2> TAKE k \in K
  <2>1. rank[k] \in 1 .. C
    BY <1>3
  <2> HIDE DEF rank, C
  <2>2. nth(K, rank[k]) \in K /\ rank[nth(K, rank[k])] = rank[k]
    BY <1>7, <2>1
  <2>3. nth(K, rank[k]) = k
    BY <1>5, <2>2
  <2> QED
    BY <2>1, <2>3
<1> HIDE DEF rank
<1> QED
  BY <1>1, <1>7, <1>8, <1>9 DEF Ranked

(* Different nodes of a set that start at different places, in that order.  *)
Starts(S) == {x.s : x \in S}
InOrder(q, S) == /\ q \in Seq(S) /\ Len(q) \in Nat
                 /\ \A i \in 1 .. Len(q) : q[i] \in S
                 /\ \A i, j \in 1 .. Len(q) : i < j => q[i].s < q[j].s
                 /\ \A x \in S : \E i \in 1 .. Len(q) : q[i] = x
                 /\ ToSet(q) = S

(* Sorted lists every node of a set once, by its start.                     *)
LEMMA SortedFacts ==
    ASSUME NEW S, IsFiniteSet(S), \A x \in S : x.s \in Int, \A x, y \in S : x.s = y.s => x = y
    PROVE  InOrder(Sorted(S), S)
<1> DEFINE K == Starts(S)
           C == Cardinality(K)
           q == Sorted(S)
<1>1. K \in SUBSET Int /\ IsFiniteSet(K)
  <2> DEFINE f == [x \in S |-> x.s]
  <2>1. f \in Surjection(S, K)
    BY DEF Surjection, Starts
  <2> HIDE DEF f, K
  <2>2. IsFiniteSet(K)
    BY <2>1, FS_Surjection
  <2> QED
    BY <2>2 DEF K, Starts
<1>2. C \in Nat /\ Ranked(K, C)
  <2> HIDE DEF K
  <2> QED
    BY <1>1, NthFacts
<1>3. q = [i \in 1 .. C |-> CHOOSE n \in S : n.s = nth(K, i)]
  BY DEF Sorted, Starts
<1>4. \A i \in 1 .. C : q[i] \in S /\ q[i].s = nth(K, i)
  <2> TAKE i \in 1 .. C
  <2>1. nth(K, i) \in K
    BY <1>2 DEF Ranked
  <2>2. \E n \in S : n.s = nth(K, i)
    BY <2>1, Zenon DEF Starts
  <2>3. q[i] = CHOOSE n \in S : n.s = nth(K, i)
    <3> HIDE DEF q, C, K
    <3> QED
      BY <1>3
  <2> HIDE DEF q, C, K
  <2> QED
    BY <2>2, <2>3, Zenon
<1> HIDE DEF q
<1>5. \A i, j \in 1 .. C : i < j => q[i].s < q[j].s
  <2> HIDE DEF C, K
  <2> QED
    BY <1>2, <1>4 DEF Ranked
<1>6. \A x \in S : \E i \in 1 .. C : q[i] = x
  <2> TAKE x \in S
  <2>1. x.s \in K
    BY DEF Starts
  <2> HIDE DEF C, K
  <2>2. PICK i \in 1 .. C : nth(K, i) = x.s
    BY <1>2, <2>1 DEF Ranked
  <2>3. q[i] \in S /\ q[i].s = x.s
    BY <1>4, <2>2
  <2> QED
    BY <2>3
<1>7. q \in [1 .. C -> S]
  <2>1. q = [i \in 1 .. C |-> q[i]]
    BY <1>3
  <2> HIDE DEF C
  <2> QED
    BY <1>4, <2>1
<1> HIDE DEF C, K
<1>8. q \in Seq(S) /\ Len(q) = C /\ DOMAIN q = 1 .. C
  <2>1. q \in Seq(S)
    BY <1>2, <1>7, SeqDef
  <2>2. DOMAIN q = 1 .. C /\ DOMAIN q = 1 .. Len(q) /\ Len(q) \in Nat
    BY <1>7, <2>1, LenProperties
  <2>3. Len(q) = C
    BY <1>2, <2>2
  <2> QED
    BY <2>1, <2>2, <2>3
<1>9. ToSet(q) = S
  BY <1>4, <1>6, <1>8 DEF ToSet
<1> QED
  BY <1>2, <1>4, <1>5, <1>6, <1>8, <1>9 DEF InOrder, q

------------------------------------------------------------------------------
(* Rows of nodes                                                            *)

HasRange(x)  == x.s \in Int /\ x.e \in Int /\ x.s <= x.e
Disjoint(S)  == \A x, y \in S : x # y => x.e < y.s \/ y.e < x.s
Ranges(S)    == IsFiniteSet(S) /\ (\A x \in S : HasRange(x)) /\ Disjoint(S)

(* The nodes of S lie side by side from s to e.                             *)
Tiles(S, s, e) == /\ \A x \in S : s <= x.s /\ x.e <= e
                  /\ \A p \in s .. e : \E x \in S : x.s <= p /\ p <= x.e

(* The children of x, in a row.                                             *)
Row(x) == LET n == Len(x.kids)
          IN  /\ n \in Nat \ {0} /\ x.s = x.kids[1].s /\ x.e = x.kids[n].e
              /\ \A k \in 1 .. n : HasRange(x.kids[k])
              /\ \A k \in 1 .. n - 1 : x.kids[k + 1].s = x.kids[k].e + 1

(* The node that is made of a set of nodes, from the first to the last.     *)
Spans(n, S) == /\ HasRange(n)
               /\ \E x \in S : n.s = x.s
               /\ \E x \in S : n.e = x.e
               /\ \A x \in S : n.s <= x.s /\ x.e <= n.e

(* Disjoint nodes in the order of their starts follow each other.           *)
LEMMA SortedRanges ==
    ASSUME NEW S, Ranges(S)
    PROVE  /\ InOrder(Sorted(S), S)
           /\ \A i, j \in 1 .. Len(Sorted(S)) : i < j => Sorted(S)[i].e < Sorted(S)[j].s
<1> DEFINE q == Sorted(S)
<1>1. \A x \in S : x.s \in Int /\ x.e \in Int /\ x.s <= x.e
  BY DEF Ranges, HasRange
<1>2. \A x, y \in S : x # y => x.e < y.s \/ y.e < x.s
  BY DEF Ranges, Disjoint
<1>3. \A x, y \in S : x.s = y.s => x = y
  BY <1>1, <1>2
<1>4. InOrder(q, S)
  BY <1>1, <1>3, SortedFacts DEF Ranges
<1> HIDE DEF q
<1>5. \A i, j \in 1 .. Len(q) : i < j => q[i].e < q[j].s
  <2> SUFFICES ASSUME NEW i \in 1 .. Len(q), NEW j \in 1 .. Len(q), i < j PROVE q[i].e < q[j].s
    OBVIOUS
  <2>1. q[i] \in S /\ q[j] \in S /\ q[i].s < q[j].s
    BY <1>4 DEF InOrder
  <2>2. q[i].s \in Int /\ q[i].e \in Int /\ q[i].s <= q[i].e
    BY <1>1, <2>1
  <2>3. q[j].s \in Int /\ q[j].e \in Int /\ q[j].s <= q[j].e
    BY <1>1, <2>1
  <2>4. q[i].e < q[j].s \/ q[j].e < q[i].s
    BY <1>2, <2>1, <2>2
  <2> QED
    BY <2>1, <2>2, <2>3, <2>4
<1> QED
  BY <1>4, <1>5 DEF q

(* The node that is made of disjoint nodes reaches from the first to the    *)
(* last.                                                                    *)
LEMMA NodeSpans ==
    ASSUME NEW S, Ranges(S), S # {}, NEW m
    PROVE  /\ Spans(Node(m, Sorted(S)), S)
           /\ Node(m, Sorted(S)).mid = m /\ Node(m, Sorted(S)).kids = Sorted(S)
           /\ Node(m, Sorted(S)).s = Sorted(S)[1].s /\ Node(m, Sorted(S)).e = Sorted(S)[Len(Sorted(S))].e
           /\ Sorted(S) # <<>> /\ Len(Sorted(S)) \in Nat \ {0}
<1> DEFINE q == Sorted(S)
           n == Node(m, q)
<1>1. InOrder(q, S) /\ \A i, j \in 1 .. Len(q) : i < j => q[i].e < q[j].s
  BY SortedRanges
<1> HIDE DEF q
<1>2. n.mid = m /\ n.kids = q /\ n.s = q[1].s /\ n.e = q[Len(q)].e
  BY DEF Node, Last
<1>3. Len(q) \in Nat \ {0} /\ q # <<>>
  <2>1. PICK x \in S : TRUE
    OBVIOUS
  <2>2. PICK i \in 1 .. Len(q) : q[i] = x
    BY <1>1, <2>1 DEF InOrder
  <2>3. Len(q) \in Nat /\ Len(q) # 0
    BY <1>1, <2>2 DEF InOrder
  <2> QED
    BY <2>3, EmptySeq
<1>4. 1 \in 1 .. Len(q) /\ Len(q) \in 1 .. Len(q)
  BY <1>3
<1>5. q[1] \in S /\ q[Len(q)] \in S
  BY <1>1, <1>4 DEF InOrder
<1>6. \A x \in S : x.s \in Int /\ x.e \in Int /\ x.s <= x.e
  BY DEF Ranges, HasRange
<1>7. ASSUME NEW x \in S PROVE q[1].s <= x.s /\ x.e <= q[Len(q)].e
  <2>1. PICK i \in 1 .. Len(q) : q[i] = x
    BY <1>1 DEF InOrder
  <2>2. i = 1 \/ 1 < i
    BY <1>3
  <2>3. i = Len(q) \/ i < Len(q)
    BY <1>3
  <2>4. 1 < i => q[1].s < q[i].s
    BY <1>1, <1>4 DEF InOrder
  <2>5. i < Len(q) => q[i].e < q[Len(q)].s
    BY <1>1, <1>4
  <2>6. /\ q[1].s \in Int /\ q[Len(q)].s \in Int /\ q[Len(q)].e \in Int /\ q[Len(q)].s <= q[Len(q)].e
        /\ q[i].s \in Int /\ q[i].e \in Int
    BY <1>5, <1>6, <2>1
  <2>7. q[1].s <= q[i].s
    BY <2>2, <2>4, <2>6
  <2>8. q[i].e <= q[Len(q)].e
    BY <2>3, <2>5, <2>6
  <2> QED
    BY <2>1, <2>7, <2>8
<1>8. q[1].s \in Int /\ q[Len(q)].e \in Int /\ q[1].s <= q[Len(q)].e
  <2>1. q[1].s \in Int /\ q[Len(q)].s \in Int /\ q[Len(q)].e \in Int /\ q[Len(q)].s <= q[Len(q)].e
    BY <1>5, <1>6
  <2>2. q[1].s <= q[Len(q)].s
    BY <1>5, <1>7
  <2> QED
    BY <2>1, <2>2
<1> HIDE DEF n
<1>9. Spans(n, S)
  <2>1. HasRange(n)
    BY <1>2, <1>8 DEF HasRange
  <2> QED
    BY <1>2, <1>5, <1>7, <2>1 DEF Spans
<1> QED
  BY <1>2, <1>3, <1>9 DEF n, q

(* When they leave no gap, they are in a row.                               *)
LEMMA NodeRow ==
    ASSUME NEW S, Ranges(S), S # {}, NEW m, Tiles(S, Node(m, Sorted(S)).s, Node(m, Sorted(S)).e)
    PROVE  Row(Node(m, Sorted(S)))
<1> DEFINE q == Sorted(S)
           n == Node(m, q)
<1>1. InOrder(q, S) /\ \A i, j \in 1 .. Len(q) : i < j => q[i].e < q[j].s
  BY SortedRanges
<1>2. n.kids = q /\ n.s = q[1].s /\ n.e = q[Len(q)].e /\ Len(q) \in Nat \ {0}
  BY NodeSpans
<1>3. \A k \in 1 .. Len(q) : q[k] \in S /\ q[k].s \in Int /\ q[k].e \in Int /\ q[k].s <= q[k].e
  BY <1>1 DEF InOrder, Ranges, HasRange
<1>4. Tiles(S, q[1].s, q[Len(q)].e)
  BY <1>2
<1> HIDE DEF q, n
<1>5. ASSUME NEW k \in 1 .. Len(q) - 1 PROVE q[k + 1].s = q[k].e + 1
  <2>1. k \in 1 .. Len(q) /\ k + 1 \in 1 .. Len(q) /\ k < k + 1 /\ 1 \in 1 .. Len(q)
          /\ Len(q) \in 1 .. Len(q)
    BY <1>2
  <2>2. q[k].e < q[k + 1].s
    BY <1>1, <2>1
  <2> DEFINE p == q[k].e + 1
  <2>3. SUFFICES ASSUME p < q[k + 1].s PROVE FALSE
    BY <1>3, <2>1, <2>2
  <2>4. q[1].s <= q[k].s /\ q[k + 1].e <= q[Len(q)].e
    BY <1>3, <1>4, <2>1 DEF Tiles
  <2>5. p \in q[1].s .. q[Len(q)].e
    <3>1. q[k].s \in Int /\ q[k].e \in Int /\ q[k].s <= q[k].e /\ q[1].s \in Int /\ q[Len(q)].e \in Int
      BY <1>3, <2>1
    <3>2. q[k + 1].s \in Int /\ q[k + 1].e \in Int /\ q[k + 1].s <= q[k + 1].e
      BY <1>3, <2>1
    <3> QED
      BY <2>3, <2>4, <3>1, <3>2, SMTT(20)
  <2>6. PICK x \in S : x.s <= p /\ p <= x.e
    BY <1>4, <2>5 DEF Tiles
  <2>7. PICK i \in 1 .. Len(q) : q[i] = x
    BY <1>1 DEF InOrder
  <2>8. i < k \/ i = k \/ i = k + 1 \/ k + 1 < i
    BY <1>2
  <2>9. CASE i < k
    <3>1. q[i].e < q[k].s
      BY <1>1, <2>1, <2>9
    <3> QED
      BY <1>3, <2>1, <2>6, <2>7, <3>1
  <2>10. CASE i = k
    BY <1>3, <2>1, <2>6, <2>7, <2>10
  <2>11. CASE i = k + 1
    BY <1>3, <2>1, <2>3, <2>6, <2>7, <2>11
  <2>12. CASE k + 1 < i
    <3>1. q[k + 1].e < q[i].s
      BY <1>1, <2>1, <2>12
    <3> QED
      BY <1>3, <2>1, <2>3, <2>6, <2>7, <3>1
  <2> QED
    BY <2>8, <2>9, <2>10, <2>11, <2>12
<1> QED
  BY <1>2, <1>3, <1>5 DEF Row, HasRange, n, q

------------------------------------------------------------------------------
(* Nodes and their depths                                                   *)

Level(d) == NodesOfDepth[d]
Depths   == 0 .. MaxMethods
Below(d) == IF d = 0 THEN {} ELSE Level(d - 1)

(* The recursive function that defines the nodes of a depth exists.         *)
LEMMA DepthExists == \E g : g = [d \in 0 .. MaxMethods |-> NodesOver(IF d = 0 THEN {} ELSE g[d - 1])]
<1> DEFINE Eq(g, j) == /\ DOMAIN g = 0 .. j /\ g = [d \in 0 .. j |-> g[d]]
                       /\ \A d \in 0 .. j : g[d] = NodesOver(IF d = 0 THEN {} ELSE g[d - 1])
           I == {j \in Nat : \E g : Eq(g, j)}
<1>1. 0 \in I
  <2> DEFINE g == [d \in 0 .. 0 |-> NodesOver({})]
  <2>1. Eq(g, 0)
    OBVIOUS
  <2> HIDE DEF g, Eq
  <2> QED
    BY <2>1
<1>2. ASSUME NEW j \in Nat, j \in I PROVE j + 1 \in I
  <2>1. PICK g : Eq(g, j)
    BY <1>2
  <2> DEFINE h == [d \in 0 .. j + 1 |-> IF d = j + 1 THEN NodesOver(g[j]) ELSE g[d]]
  <2>2. DOMAIN h = 0 .. j + 1 /\ h = [d \in 0 .. j + 1 |-> h[d]]
    OBVIOUS
  <2>3. ASSUME NEW d \in 0 .. j + 1 PROVE h[d] = NodesOver(IF d = 0 THEN {} ELSE h[d - 1])
    <3>1. CASE d = j + 1
      <4>1. d # 0 /\ d - 1 = j /\ j \in 0 .. j + 1 /\ j # j + 1
        BY <3>1
      <4>2. h[d] = NodesOver(g[j]) /\ h[j] = g[j]
        BY <3>1, <4>1
      <4> HIDE DEF h
      <4> QED
        BY <4>1, <4>2
    <3>2. CASE d # j + 1 /\ d # 0
      <4>1. d \in 0 .. j /\ d - 1 \in 0 .. j + 1 /\ d - 1 # j + 1
        BY <3>2
      <4>2. h[d] = g[d] /\ h[d - 1] = g[d - 1]
        BY <3>2, <4>1
      <4> HIDE DEF h
      <4> QED
        BY <2>1, <3>2, <4>1, <4>2
    <3>3. CASE d = 0
      <4>1. 0 \in 0 .. j /\ 0 # j + 1
        OBVIOUS
      <4>2. h[d] = g[0] /\ g[0] = NodesOver({})
        BY <2>1, <3>3, <4>1
      <4> HIDE DEF h
      <4> QED
        BY <3>3, <4>2
    <3> QED
      BY <3>1, <3>2, <3>3
  <2>4. Eq(h, j + 1)
    <3> HIDE DEF h
    <3> QED
      BY <2>2, <2>3
  <2> HIDE DEF h, Eq
  <2> QED
    BY <2>4
<1>3. MaxMethods \in I
  <2> HIDE DEF I
  <2> QED
    BY <1>1, <1>2, SetInduction, MethodsAssumption
<1>4. PICK g : Eq(g, MaxMethods)
  BY <1>3
<1>5. g = [d \in 0 .. MaxMethods |-> NodesOver(IF d = 0 THEN {} ELSE g[d - 1])]
  BY <1>4
<1> QED
  BY <1>5

(* A node of a depth has its children one below.                            *)
LEMMA DepthStep == \A d \in Depths : Level(d) = NodesOver(Below(d))
<1>1. NodesOfDepth = [d \in 0 .. MaxMethods |-> NodesOver(IF d = 0 THEN {} ELSE NodesOfDepth[d - 1])]
  BY DepthExists, Zenon DEF NodesOfDepth
<1> HIDE DEF NodesOfDepth
<1> QED
  BY <1>1 DEF Level, Below, Depths

(* What a node of a depth is made of.                                       *)
Made(x, S) == /\ x.mid \in Nat /\ x.s \in Int /\ x.e \in Int /\ x.kids \in Seq(S)
              /\ Len(x.kids) \in Nat /\ DOMAIN x.kids = 1 .. Len(x.kids)
              /\ \A k \in 1 .. Len(x.kids) : x.kids[k] \in S
              /\ ToSet(x.kids) \subseteq S /\ IsFiniteSet(ToSet(x.kids))
              /\ ToSet(x.kids) = {x.kids[k] : k \in 1 .. Len(x.kids)}
              /\ x.kids = <<>> <=> ToSet(x.kids) = {}

(* A sequence over S and the set of what it holds.                          *)
LEMMA SeqToSet ==
    ASSUME NEW S, NEW q \in Seq(S)
    PROVE  /\ Len(q) \in Nat /\ DOMAIN q = 1 .. Len(q)
           /\ \A k \in 1 .. Len(q) : q[k] \in S
           /\ ToSet(q) \subseteq S /\ IsFiniteSet(ToSet(q))
           /\ ToSet(q) = {q[k] : k \in 1 .. Len(q)}
           /\ q = <<>> <=> ToSet(q) = {}
<1>1. Len(q) \in Nat /\ DOMAIN q = 1 .. Len(q) /\ q \in [1 .. Len(q) -> S]
  BY LenProperties
<1>2. \A k \in 1 .. Len(q) : q[k] \in S
  BY ElementOfSeq
<1>3. ToSet(q) = {q[k] : k \in 1 .. Len(q)}
  BY <1>1 DEF ToSet
<1>4. ToSet(q) \subseteq S
  BY <1>2, <1>3
<1>5. IsFiniteSet(ToSet(q))
  <2> DEFINE T == ToSet(q)
  <2>1. q \in Surjection(1 .. Len(q), T)
    <3>1. q \in [1 .. Len(q) -> T]
      BY <1>1, <1>3
    <3> QED
      BY <1>3, <3>1 DEF Surjection
  <2>2. IsFiniteSet(1 .. Len(q))
    BY <1>1, FS_Interval
  <2> HIDE DEF T
  <2>3. IsFiniteSet(T)
    BY <2>1, <2>2, FS_Surjection
  <2> QED
    BY <2>3 DEF T
<1>6. q = <<>> <=> ToSet(q) = {}
  <2>1. CASE q = <<>>
    <3>1. Len(q) = 0
      BY <2>1
    <3>2. \A k \in 1 .. Len(q) : FALSE
      BY <3>1
    <3> QED
      BY <1>3, <2>1, <3>2
  <2>2. CASE q # <<>>
    <3>1. Len(q) # 0
      BY <2>2, EmptySeq
    <3>2. 1 \in 1 .. Len(q)
      BY <1>1, <3>1
    <3> QED
      BY <1>3, <2>2, <3>2
  <2> QED
    BY <2>1, <2>2
<1> QED
  BY <1>1, <1>2, <1>3, <1>4, <1>5, <1>6

(* What a node over S is made of.                                           *)
LEMMA NodeMade == ASSUME NEW S, NEW x \in NodesOver(S) PROVE Made(x, S)
<1>1. x.mid \in Nat /\ x.s \in Int /\ x.e \in Int /\ x.kids \in Seq(S)
  BY DEF NodesOver
<1> QED
  BY <1>1, SeqToSet DEF Made

(* The same for a depth.                                                    *)
LEMMA LevelMade == ASSUME NEW d \in Depths, NEW x \in Level(d) PROVE Made(x, Below(d))
BY DepthStep, NodeMade

(* More nodes make more nodes.                                              *)
LEMMA NodesOverGrows == \A S, T : S \subseteq T => NodesOver(S) \subseteq NodesOver(T)
<1> SUFFICES ASSUME NEW S, NEW T, S \subseteq T PROVE NodesOver(S) \subseteq NodesOver(T)
  OBVIOUS
<1>1. Seq(S) \subseteq Seq(T)
  BY SeqMonotonic
<1> QED
  BY <1>1 DEF NodesOver

(* A node of a depth is one of every larger depth.                          *)
LEMMA LevelGrows ==
    ASSUME NEW d \in Depths, NEW f \in Depths, d <= f
    PROVE  Level(d) \subseteq Level(f)
<1> DEFINE I == {n \in Nat : n + 1 \in Depths => Level(n) \subseteq Level(n + 1)}
<1>1. \A S, T : S \subseteq T => NodesOver(S) \subseteq NodesOver(T)
  BY NodesOverGrows
<1>2. 0 \in I
  <2> SUFFICES ASSUME 1 \in Depths PROVE Level(0) \subseteq Level(0 + 1)
    BY MethodsAssumption DEF Depths
  <2>1. 0 \in Depths /\ Level(0) = NodesOver({}) /\ Level(1) = NodesOver(Below(1))
    BY DepthStep, MethodsAssumption DEF Depths, Below
  <2> QED
    BY <1>1, <2>1
<1>3. ASSUME NEW n \in Nat, n \in I PROVE n + 1 \in I
  <2> SUFFICES ASSUME n + 1 + 1 \in Depths PROVE Level(n + 1) \subseteq Level(n + 1 + 1)
    OBVIOUS
  <2>1. n + 1 \in Depths /\ n + 1 # 0 /\ n + 1 + 1 # 0 /\ n + 1 - 1 = n /\ n + 1 + 1 - 1 = n + 1
    BY MethodsAssumption DEF Depths
  <2>2. Level(n) \subseteq Level(n + 1)
    BY <1>3, <2>1
  <2>3. Level(n + 1) = NodesOver(Level(n)) /\ Level(n + 1 + 1) = NodesOver(Level(n + 1))
    BY DepthStep, <2>1 DEF Below
  <2> HIDE DEF I
  <2> QED
    BY <1>1, <2>2, <2>3
<1>4. \A n \in Nat : n \in I
  <2> HIDE DEF I
  <2> QED
    BY <1>2, <1>3, SetInduction
<1> DEFINE J == {n \in Nat : d + n \in Depths => Level(d) \subseteq Level(d + n)}
<1>5. 0 \in J
  BY MethodsAssumption DEF Depths
<1>6. ASSUME NEW n \in Nat, n \in J PROVE n + 1 \in J
  <2> SUFFICES ASSUME d + (n + 1) \in Depths PROVE Level(d) \subseteq Level(d + (n + 1))
    OBVIOUS
  <2>1. d + n \in Nat /\ d + n \in Depths /\ (d + n) + 1 = d + (n + 1)
    BY MethodsAssumption DEF Depths
  <2>2. Level(d) \subseteq Level(d + n)
    BY <1>6, <2>1
  <2>3. d + n \in I
    BY <1>4, <2>1
  <2>4. Level(d + n) \subseteq Level(d + (n + 1))
    BY <2>1, <2>3
  <2> QED
    BY <2>2, <2>4
<1>7. f - d \in J
  <2>1. f - d \in Nat
    BY MethodsAssumption DEF Depths
  <2> HIDE DEF J
  <2> QED
    BY <1>5, <1>6, <2>1, SetInduction
<1>8. d + (f - d) = f
  BY MethodsAssumption DEF Depths
<1> QED
  BY <1>7, <1>8

(* A piece of the input has no depth.                                       *)
LEMMA PieceLevel ==
    ASSUME NEW S, NEW x \in NodesOver(S), x.kids = <<>>, NEW d \in Depths
    PROVE  x \in Level(d)
<1>1. <<>> \in Seq({})
  BY EmptySeq
<1>2. x \in NodesOver({})
  BY <1>1 DEF NodesOver
<1>3. 0 \in Depths /\ Level(0) = NodesOver({}) /\ 0 <= d
  BY DepthStep, MethodsAssumption DEF Depths, Below
<1> QED
  BY <1>2, <1>3, LevelGrows

------------------------------------------------------------------------------
(* Functions on nodes                                                       *)

(* What remove_overlap_from makes of the children of x, with f for itself.  *)
Rest(f, x, r)  == {IF does_item_overlap(c, r) THEN f[c] ELSE c : c \in ToSet(x.kids)} \ {NoTree}
Trim(f, x, r) == IF Rest(f, x, r) = {} THEN NoTree ELSE Node(x.mid, Sorted(Rest(f, x, r)))

(* It looks no further than the children.                                   *)
LEMMA TrimSame ==
    ASSUME NEW x, NEW f, NEW g, NEW r, \A c \in ToSet(x.kids) : f[c] = g[c]
    PROVE  Trim(f, x, r) = Trim(g, x, r)
<1> DEFINE F(c) == IF does_item_overlap(c, r) THEN f[c] ELSE c
           G(c) == IF does_item_overlap(c, r) THEN g[c] ELSE c
<1>1. \A c \in ToSet(x.kids) : F(c) = G(c)
  OBVIOUS
<1>2. Rest(f, x, r) = {F(c) : c \in ToSet(x.kids)} \ {NoTree}
  BY DEF Rest
<1>3. Rest(g, x, r) = {G(c) : c \in ToSet(x.kids)} \ {NoTree}
  BY DEF Rest
<1> HIDE DEF F, G
<1>4. {F(c) : c \in ToSet(x.kids)} = {G(c) : c \in ToSet(x.kids)}
  BY <1>1
<1>5. Rest(f, x, r) = Rest(g, x, r)
  BY <1>2, <1>3, <1>4
<1> QED
  BY <1>5 DEF Trim

(* The function that is left of nodes exists.                               *)
LEMMA TrimExists == ASSUME NEW r PROVE \E g : g = [x \in Nodes |-> Trim(g, x, r)]
<1> DEFINE Eq(g, j) == /\ DOMAIN g = Level(j) /\ g = [x \in Level(j) |-> g[x]]
                       /\ \A x \in Level(j) : g[x] = Trim(g, x, r)
           I == {j \in Nat : j \in Depths => \E g : Eq(g, j)}
<1>1. 0 \in I
  <2> DEFINE g == [x \in Level(0) |-> Trim(<<>>, x, r)]
  <2>1. ASSUME NEW x \in Level(0) PROVE g[x] = Trim(g, x, r)
    <3>1. g[x] = Trim(<<>>, x, r)
      OBVIOUS
    <3>2. Made(x, {})
      BY LevelMade, MethodsAssumption DEF Depths, Below
    <3>3. ToSet(x.kids) = {}
      BY <3>2 DEF Made
    <3> HIDE DEF g
    <3> QED
      BY <3>1, <3>2, <3>3, TrimSame
  <2>2. Eq(g, 0)
    <3>1. DOMAIN g = Level(0) /\ g = [x \in Level(0) |-> g[x]]
      OBVIOUS
    <3> HIDE DEF g
    <3> QED
      BY <2>1, <3>1
  <2> HIDE DEF g, Eq
  <2> QED
    BY <2>2
<1>2. ASSUME NEW j \in Nat, j \in I PROVE j + 1 \in I
  <2> SUFFICES ASSUME j + 1 \in Depths PROVE \E g : Eq(g, j + 1)
    OBVIOUS
  <2>1. j \in Depths /\ j + 1 # 0 /\ j + 1 - 1 = j /\ j <= j + 1
    BY MethodsAssumption DEF Depths
  <2>2. PICK g : Eq(g, j)
    BY <1>2, <2>1
  <2> DEFINE h == [x \in Level(j + 1) |-> IF x \in Level(j) THEN g[x] ELSE Trim(g, x, r)]
  <2>3. Level(j) \subseteq Level(j + 1)
    BY <2>1, LevelGrows
  <2>4. \A x \in Level(j) : h[x] = g[x]
    BY <2>3
  <2>5. ASSUME NEW x \in Level(j + 1) PROVE h[x] = Trim(h, x, r)
    <3>1. Made(x, Level(j))
      BY <2>1, LevelMade DEF Below
    <3>2. \A c \in ToSet(x.kids) : h[c] = g[c]
      BY <2>4, <3>1 DEF Made
    <3>3. h[x] = Trim(g, x, r)
      <4>1. CASE x \in Level(j)
        BY <2>2, <2>4, <4>1
      <4>2. CASE x \notin Level(j)
        BY <4>2
      <4> QED
        BY <4>1, <4>2
    <3> HIDE DEF h
    <3> QED
      BY <3>1, <3>2, <3>3, TrimSame
  <2>6. Eq(h, j + 1)
    <3>1. DOMAIN h = Level(j + 1) /\ h = [x \in Level(j + 1) |-> h[x]]
      OBVIOUS
    <3> HIDE DEF h
    <3> QED
      BY <2>5, <3>1
  <2> HIDE DEF h, Eq
  <2> QED
    BY <2>6
<1>3. MaxMethods \in I
  <2> HIDE DEF I
  <2> QED
    BY <1>1, <1>2, SetInduction, MethodsAssumption
<1>4. PICK g : Eq(g, MaxMethods)
  BY <1>3, MethodsAssumption DEF Depths
<1>5. g = [x \in Nodes |-> Trim(g, x, r)]
  BY <1>4 DEF Nodes, Level
<1> QED
  BY <1>5

(* What remove_overlap_from leaves of a node is made of what it leaves of   *)
(* the children.                                                            *)
LEMMA TrimStep ==
    ASSUME NEW r, NEW x \in Nodes
    PROVE  /\ remove_overlap_from(x, r) =
                  LET left == {IF does_item_overlap(c, r) THEN remove_overlap_from(c, r)
                          ELSE c : c \in ToSet(x.kids)}
                                  \ {NoTree}
                  IN  IF left = {} THEN NoTree ELSE Node(x.mid, Sorted(left))
<1> DEFINE f == CHOOSE g : g = [y \in Nodes |-> Trim(g, y, r)]
<1>1. f = [y \in Nodes |-> Trim(f, y, r)]
  BY TrimExists, Zenon
<1>2. \A n : remove_overlap_from(n, r) = f[n]
  BY DEF remove_overlap_from, Trim, Rest
<1> HIDE DEF f
<1>3. f[x] = Trim(f, x, r)
  BY <1>1
<1> DEFINE F(c) == IF does_item_overlap(c, r) THEN f[c] ELSE c
           G(c) == IF does_item_overlap(c, r) THEN remove_overlap_from(c, r) ELSE c
<1>4. \A c : F(c) = G(c)
  BY <1>2
<1>5. Rest(f, x, r) = {F(c) : c \in ToSet(x.kids)} \ {NoTree}
  BY DEF Rest
<1> SUFFICES remove_overlap_from(x, r) =
                 IF {G(c) : c \in ToSet(x.kids)} \ {NoTree} = {} THEN NoTree
                 ELSE Node(x.mid, Sorted({G(c) : c \in ToSet(x.kids)} \ {NoTree}))
  OBVIOUS
<1> HIDE DEF F, G
<1>6. {F(c) : c \in ToSet(x.kids)} = {G(c) : c \in ToSet(x.kids)}
  BY <1>4
<1>7. remove_overlap_from(x, r) = Trim(f, x, r)
  BY <1>2, <1>3
<1> QED
  BY <1>5, <1>6, <1>7 DEF Trim

(* A node and what is below it.                                             *)
Under(f, x) == {x} \cup UNION {f[c] : c \in ToSet(x.kids)}

(* Subtrees looks no further than the children.                             *)
LEMMA UnderSame ==
    ASSUME NEW x, NEW f, NEW g, \A c \in ToSet(x.kids) : f[c] = g[c]
    PROVE  Under(f, x) = Under(g, x)
<1>1. {f[c] : c \in ToSet(x.kids)} = {g[c] : c \in ToSet(x.kids)}
  OBVIOUS
<1> QED
  BY <1>1 DEF Under

(* The function that gathers subtrees exists.                               *)
LEMMA UnderExists == \E g : g = [x \in Nodes |-> Under(g, x)]
<1> DEFINE Eq(g, j) == /\ DOMAIN g = Level(j) /\ g = [x \in Level(j) |-> g[x]]
                       /\ \A x \in Level(j) : g[x] = Under(g, x)
           I == {j \in Nat : j \in Depths => \E g : Eq(g, j)}
<1>1. 0 \in I
  <2> DEFINE g == [x \in Level(0) |-> Under(<<>>, x)]
  <2>1. ASSUME NEW x \in Level(0) PROVE g[x] = Under(g, x)
    <3>1. g[x] = Under(<<>>, x)
      OBVIOUS
    <3>2. Made(x, {})
      BY LevelMade, MethodsAssumption DEF Depths, Below
    <3>3. ToSet(x.kids) = {}
      BY <3>2 DEF Made
    <3> HIDE DEF g
    <3> QED
      BY <3>1, <3>2, <3>3, UnderSame
  <2>2. Eq(g, 0)
    <3>1. DOMAIN g = Level(0) /\ g = [x \in Level(0) |-> g[x]]
      OBVIOUS
    <3> HIDE DEF g
    <3> QED
      BY <2>1, <3>1
  <2> HIDE DEF g, Eq
  <2> QED
    BY <2>2
<1>2. ASSUME NEW j \in Nat, j \in I PROVE j + 1 \in I
  <2> SUFFICES ASSUME j + 1 \in Depths PROVE \E g : Eq(g, j + 1)
    OBVIOUS
  <2>1. j \in Depths /\ j + 1 # 0 /\ j + 1 - 1 = j /\ j <= j + 1
    BY MethodsAssumption DEF Depths
  <2>2. PICK g : Eq(g, j)
    BY <1>2, <2>1
  <2> DEFINE h == [x \in Level(j + 1) |-> IF x \in Level(j) THEN g[x] ELSE Under(g, x)]
  <2>3. Level(j) \subseteq Level(j + 1)
    BY <2>1, LevelGrows
  <2>4. \A x \in Level(j) : h[x] = g[x]
    BY <2>3
  <2>5. ASSUME NEW x \in Level(j + 1) PROVE h[x] = Under(h, x)
    <3>1. Made(x, Level(j))
      BY <2>1, LevelMade DEF Below
    <3>2. \A c \in ToSet(x.kids) : h[c] = g[c]
      BY <2>4, <3>1 DEF Made
    <3>3. h[x] = Under(g, x)
      <4>1. CASE x \in Level(j)
        BY <2>2, <2>4, <4>1
      <4>2. CASE x \notin Level(j)
        BY <4>2
      <4> QED
        BY <4>1, <4>2
    <3> HIDE DEF h
    <3> QED
      BY <3>1, <3>2, <3>3, UnderSame
  <2>6. Eq(h, j + 1)
    <3>1. DOMAIN h = Level(j + 1) /\ h = [x \in Level(j + 1) |-> h[x]]
      OBVIOUS
    <3> HIDE DEF h
    <3> QED
      BY <2>5, <3>1
  <2> HIDE DEF h, Eq
  <2> QED
    BY <2>6
<1>3. MaxMethods \in I
  <2> HIDE DEF I
  <2> QED
    BY <1>1, <1>2, SetInduction, MethodsAssumption
<1>4. PICK g : Eq(g, MaxMethods)
  BY <1>3, MethodsAssumption DEF Depths
<1>5. g = [x \in Nodes |-> Under(g, x)]
  BY <1>4 DEF Nodes, Level
<1> QED
  BY <1>5

(* The subtrees of a node are itself and those of its children.             *)
LEMMA SubtreesStep ==
    ASSUME NEW x \in Nodes
    PROVE  Subtrees(x) = {x} \cup UNION {Subtrees(c) : c \in ToSet(x.kids)}
<1> DEFINE f == CHOOSE g : g = [y \in Nodes |-> Under(g, y)]
<1>1. f = [y \in Nodes |-> Under(f, y)]
  BY UnderExists, Zenon
<1>2. \A n : Subtrees(n) = f[n]
  BY DEF Subtrees, Under
<1> HIDE DEF f
<1>3. f[x] = Under(f, x)
  BY <1>1
<1>4. {f[c] : c \in ToSet(x.kids)} = {Subtrees(c) : c \in ToSet(x.kids)}
  BY <1>2
<1> QED
  BY <1>2, <1>3, <1>4 DEF Under

------------------------------------------------------------------------------
(* What is left of a node                                                   *)

(* The leaf c of method m is made of indexes that o gives to m.             *)
IsRun(o, m, c) == \A i \in c.s .. c.e : i \in Pos /\ o[i] = m

(* Two neighbouring leaves are not both runs.                               *)
Maximal(o, m, S) == \A a, b \in S : a.mid = 0 /\ b.mid = 0 /\ b.s = a.e + 1 =>
                        \E i \in a.s .. b.e : i \in Pos /\ o[i] # m

(* What a node with children is like.                                       *)
Fine(o, x) == /\ x.mid # 0 /\ x.s \in Pos /\ x.e \in Pos
              /\ Row(x) /\ Ranges(ToSet(x.kids)) /\ Tiles(ToSet(x.kids), x.s, x.e)
              /\ \A c \in ToSet(x.kids) : c.mid = 0 <=> c.kids = <<>>
              /\ Maximal(o, x.mid, ToSet(x.kids))

Good(o, n) == n \in Nodes /\ \A x \in Subtrees(n) : x.kids # <<>> => Fine(o, x)

(* The indexes of the runs that are left in a node.                         *)
RunsOf(x, o) == {i \in Pos : \E c \in ToSet(x.kids) : c.kids = <<>> /\ IsRun(o, x.mid, c)
        /\ i \in c.s .. c.e}
Kept(o, n)   == UNION {RunsOf(x, o) : x \in Subtrees(n)}

(* The same for a child of method m.                                        *)
KeptBy(o, m, c) == IF c.kids = <<>> THEN {i \in c.s .. c.e : IsRun(o, m, c)} ELSE Kept(o, c)

(* The children of a node are nodes.                                        *)
LEMMA NodesMade ==
    ASSUME NEW x \in Nodes
    PROVE  Made(x, Nodes)
<1>1. MaxMethods \in Depths /\ MaxMethods # 0 /\ MaxMethods - 1 \in Depths /\ MaxMethods - 1 <= MaxMethods
  BY MethodsAssumption DEF Depths
<1>2. Nodes = Level(MaxMethods)
  BY DEF Nodes, Level
<1>3. Level(MaxMethods) = NodesOver(Level(MaxMethods - 1))
        /\ Level(MaxMethods - 1) \subseteq Level(MaxMethods)
  BY <1>1, DepthStep, LevelGrows DEF Below
<1>4. NodesOver(Level(MaxMethods - 1)) \subseteq NodesOver(Level(MaxMethods))
  BY <1>3, NodesOverGrows
<1>5. x \in NodesOver(Nodes)
  BY <1>2, <1>3, <1>4
<1> QED
  BY <1>5, NodeMade

(* A node of any depth is a node.                                           *)
LEMMA LevelNodes == \A d \in Depths : Level(d) \subseteq Nodes
<1>1. MaxMethods \in Depths /\ \A d \in Depths : d <= MaxMethods
  BY MethodsAssumption DEF Depths
<1>2. Nodes = Level(MaxMethods)
  BY DEF Nodes, Level
<1> QED
  BY <1>1, <1>2, LevelGrows

(* A piece of the input is its only subtree, and is good.                   *)
LEMMA LeafTree ==
    ASSUME NEW o, NEW c \in Nodes, c.kids = <<>>
    PROVE  Subtrees(c) = {c} /\ Kept(o, c) = {} /\ Good(o, c)
<1>1. ToSet(c.kids) = {}
  BY NodesMade DEF Made
<1>2. Subtrees(c) = {c}
  BY <1>1, SubtreesStep
<1>3. RunsOf(c, o) = {}
  BY <1>1 DEF RunsOf
<1> QED
  BY <1>2, <1>3 DEF Kept, Good

(* A tree is good when its root is fine and its children are good.          *)
LEMMA GoodStep ==
    ASSUME NEW o, NEW n \in Nodes
    PROVE  Good(o, n) <=> (n.kids # <<>> => Fine(o, n)) /\ \A c \in ToSet(n.kids) : Good(o, c)
<1>1. Subtrees(n) = {n} \cup UNION {Subtrees(c) : c \in ToSet(n.kids)}
  BY SubtreesStep
<1>2. ToSet(n.kids) \subseteq Nodes
  BY NodesMade DEF Made
<1> QED
  BY <1>1, <1>2 DEF Good

(* The runs left in a tree are those left in the children of its root.      *)
LEMMA KeptStep ==
    ASSUME NEW o, NEW n \in Nodes
    PROVE  \A i : i \in Kept(o, n) <=> \E c \in ToSet(n.kids) : i \in KeptBy(o, n.mid, c)
<1>1. Subtrees(n) = {n} \cup UNION {Subtrees(c) : c \in ToSet(n.kids)}
  BY SubtreesStep
<1>2. ToSet(n.kids) \subseteq Nodes
  BY NodesMade DEF Made
<1> TAKE i
<1>3. i \in Kept(o, n) <=> i \in RunsOf(n, o) \/ \E c \in ToSet(n.kids) : i \in Kept(o, c)
  BY <1>1 DEF Kept
<1>4. i \in RunsOf(n, o) <=> \E c \in ToSet(n.kids) : c.kids = <<>> /\ i \in KeptBy(o, n.mid, c)
  BY DEF RunsOf, KeptBy, IsRun
<1>5. ASSUME NEW c \in ToSet(n.kids) PROVE i \in Kept(o, c) <=> c.kids # <<>> /\ i \in KeptBy(o, n.mid, c)
  BY <1>2, LeafTree DEF KeptBy
<1> QED
  BY <1>3, <1>4, <1>5

(* The runs of a node lie in its range.                                     *)
LEMMA KeptInside ==
    ASSUME NEW o, NEW n, Good(o, n)
    PROVE  \A i \in Kept(o, n) : i \in Pos /\ n.s <= i /\ i <= n.e
<1> DEFINE I == {d \in Nat : d \in Depths => \A x \in Level(d) : Good(o, x) =>
                                 \A i \in Kept(o, x) : i \in Pos /\ x.s <= i /\ i <= x.e}
<1>1. ASSUME NEW d \in Depths, NEW x \in Level(d), Good(o, x), NEW i \in Kept(o, x),
             \A c \in Below(d) : Good(o, c) => \A k \in Kept(o, c) : k \in Pos /\ c.s <= k /\ k <= c.e
      PROVE  i \in Pos /\ x.s <= i /\ i <= x.e
  <2>1. x \in Nodes
    BY <1>1, LevelNodes
  <2>2. PICK c \in ToSet(x.kids) : i \in KeptBy(o, x.mid, c)
    BY <1>1, <2>1, KeptStep
  <2>3. Made(x, Below(d))
    BY <1>1, LevelMade
  <2>4. c \in Below(d) /\ x.kids # <<>>
    BY <2>2, <2>3 DEF Made
  <2>5. Fine(o, x) /\ Good(o, c)
    BY <1>1, <2>1, <2>2, <2>4, GoodStep
  <2>6. i \in Pos /\ c.s <= i /\ i <= c.e
    <3>1. CASE c.kids = <<>>
      <4>1. IsRun(o, x.mid, c) /\ i \in c.s .. c.e /\ c.s \in Int /\ c.e \in Int
        BY <2>2, <2>5, <3>1 DEF KeptBy, Fine, Ranges, HasRange
      <4> QED
        BY <4>1 DEF IsRun
    <3>2. CASE c.kids # <<>>
      BY <1>1, <2>2, <2>4, <2>5, <3>2 DEF KeptBy
    <3> QED
      BY <3>1, <3>2
  <2>7. x.s <= c.s /\ c.e <= x.e /\ c.s \in Int /\ c.e \in Int /\ x.s \in Int /\ x.e \in Int
    BY <2>2, <2>3, <2>5 DEF Fine, Tiles, Ranges, HasRange, Made
  <2>8. i \in Int
    BY <2>6 DEF Pos
  <2> QED
    BY <2>6, <2>7, <2>8
<1>2. 0 \in I
  BY <1>1, MethodsAssumption DEF Below, Depths
<1>3. ASSUME NEW d \in Nat, d \in I PROVE d + 1 \in I
  <2>1. SUFFICES ASSUME d + 1 \in Depths PROVE \A x \in Level(d + 1) : Good(o, x) =>
                                 \A i \in Kept(o, x) : i \in Pos /\ x.s <= i /\ i <= x.e
    OBVIOUS
  <2>2. d \in Depths /\ Below(d + 1) = Level(d)
    BY <2>1, MethodsAssumption DEF Depths, Below
  <2>3. \A x \in Level(d) : Good(o, x) => \A i \in Kept(o, x) : i \in Pos /\ x.s <= i /\ i <= x.e
    BY <1>3, <2>2
  <2> HIDE DEF I
  <2> QED
    BY <1>1, <2>1, <2>2, <2>3
<1>4. MaxMethods \in I /\ MaxMethods \in Depths
  <2> HIDE DEF I
  <2> QED
    BY <1>2, <1>3, SetInduction, MethodsAssumption DEF Depths
<1>5. n \in Level(MaxMethods)
  BY DEF Good, Nodes, Level
<1> QED
  BY <1>4, <1>5

------------------------------------------------------------------------------
(* Trimming                                                                 *)

Overlaps(n, r) == n.s <= r.e /\ r.s <= n.e

(* The range of r reaches over an end of n, and r neither starts nor ends   *)
(* in a run of n.                                                           *)
Cuts(o, n, r) == /\ HasRange(n) /\ HasRange(r)
                 /\ ~(n.s <= r.s /\ r.e <= n.e)
                 /\ r.s \notin Kept(o, n) /\ r.e \notin Kept(o, n)

(* The part v of a node n on one side of r.                                 *)
Side(n, r, v) == /\ HasRange(v) /\ n.s <= v.s /\ v.e <= n.e
                 /\ \/ v.s = n.s /\ v.e < r.s
                    \/ v.e = n.e /\ r.e < v.s

Trimmed(o, d, n, r, v) ==
    /\ v = NoTree \/ /\ v \in Level(d) /\ Good(o, v) /\ v.mid = n.mid /\ v.kids # <<>>
                     /\ Side(n, r, v) /\ Kept(o, v) \subseteq Kept(o, n)
    /\ \A i \in Kept(o, n) : (r.s <= i /\ i <= r.e) \/ (v # NoTree /\ i \in Kept(o, v))

Trims(o, d, n, r) == Good(o, n) /\ Overlaps(n, r) /\ Cuts(o, n, r)
        => Trimmed(o, d, n, r, remove_overlap_from(n, r))

(* A child, and what becomes of it.                                         *)
Part(o, S, c, r, v) ==
    /\ v \in S /\ Good(o, v) /\ v.mid = c.mid /\ (v.kids = <<>> <=> c.kids = <<>>) /\ (v.kids = <<>>
          => v = c)
    /\ HasRange(v) /\ c.s <= v.s /\ v.e <= c.e /\ Kept(o, v) \subseteq Kept(o, c)
    /\ \/ v.s = c.s /\ v.e < r.s /\ (v = c \/ r.s <= c.e)
       \/ v.e = c.e /\ r.e < v.s /\ (v = c \/ c.s <= r.e)

Becomes(c, r) == IF does_item_overlap(c, r) THEN remove_overlap_from(c, r) ELSE c

(* NoTree is a piece of the input.                                          *)
LEMMA NoTreeIs == /\ NoTree.kids = <<>> /\ NoTree.mid = 0 /\ NoTree.s = 0 /\ NoTree.e = 0
                  /\ NoTree \in Nodes /\ \A d \in Depths : NoTree \in Level(d)
<1>1. NoTree.kids = <<>> /\ NoTree.mid = 0 /\ NoTree.s = 0 /\ NoTree.e = 0
  BY DEF NoTree, Leaf
<1>2. NoTree \in NodesOver({})
  BY EmptySeq DEF NoTree, Leaf, NodesOver
<1>3. \A d \in Depths : NoTree \in Level(d)
  BY <1>1, <1>2, PieceLevel
<1>4. MaxMethods \in Depths
  BY MethodsAssumption DEF Depths
<1> QED
  BY <1>1, <1>3, <1>4, LevelNodes

(* The children of a node that is cut.                                      *)
LEMMA PartFacts ==
    ASSUME NEW o, NEW d \in Depths, NEW n \in Level(d), NEW r, n.kids # <<>>, Good(o, n), Cuts(o, n, r),
           \A c \in Below(d) : Trims(o, d - 1, c, r), NEW c \in ToSet(n.kids)
    PROVE  /\ Becomes(c, r) = NoTree \/ Part(o, Below(d), c, r, Becomes(c, r))
           /\ ~Overlaps(c, r) => Becomes(c, r) = c
           /\ c # NoTree
           /\ \A i \in KeptBy(o, n.mid, c) : \/ r.s <= i /\ i <= r.e
                                             \/ Becomes(c, r) # NoTree
                                                   /\ i \in KeptBy(o, n.mid, Becomes(c, r))
<1>1. n \in Nodes /\ Made(n, Below(d))
  BY LevelNodes, LevelMade
<1>2. Fine(o, n) /\ Good(o, c) /\ c \in Below(d)
  BY <1>1, GoodStep DEF Made
<1>3. c \in Nodes
  BY <1>1, NodesMade DEF Made
<1>4. HasRange(c) /\ n.s <= c.s /\ c.e <= n.e /\ 1 <= n.s /\ HasRange(n) /\ HasRange(r)
  BY <1>2 DEF Fine, Ranges, Tiles, Cuts, Pos
<1>5. c # NoTree
  BY <1>4, NoTreeIs DEF HasRange
<1>6. \A i \in KeptBy(o, n.mid, c) : i \in Kept(o, n)
  BY <1>1, KeptStep
<1>7. Becomes(c, r) = IF Overlaps(c, r) THEN remove_overlap_from(c, r) ELSE c
  BY DEF Becomes, does_item_overlap, Overlaps
<1>8. CASE ~Overlaps(c, r)
  <2>1. Becomes(c, r) = c
    BY <1>7, <1>8
  <2>2. c.e < r.s \/ r.e < c.s
    BY <1>4, <1>8 DEF Overlaps, HasRange
  <2>3. Part(o, Below(d), c, r, c)
    <3>1. c.s <= c.s /\ c.e <= c.e
      BY <1>4 DEF HasRange
    <3> QED
      BY <1>2, <1>4, <2>2, <3>1 DEF Part
  <2> QED
    BY <1>5, <2>1, <2>3
<1>9. CASE Overlaps(c, r) /\ c.kids = <<>>
  <2>1. ToSet(c.kids) = {}
    BY <1>3, <1>9, NodesMade DEF Made
  <2>2. remove_overlap_from(c, r) = NoTree
    <3> DEFINE left == {IF does_item_overlap(x, r) THEN remove_overlap_from(x, r) ELSE x : x \in ToSet(c.kids)}
                           \ {NoTree}
    <3>1. left = {}
      BY <2>1
    <3>2. remove_overlap_from(c, r) = IF left = {} THEN NoTree ELSE Node(c.mid, Sorted(left))
      BY <1>3, TrimStep, Zenon
    <3> HIDE DEF left
    <3> QED
      BY <3>1, <3>2
  <2>3. ASSUME NEW i \in KeptBy(o, n.mid, c) PROVE r.s <= i /\ i <= r.e
    <3>1. KeptBy(o, n.mid, c) = {k \in c.s .. c.e : IsRun(o, n.mid, c)}
      BY <1>9 DEF KeptBy
    <3>2. i \in c.s .. c.e /\ IsRun(o, n.mid, c)
      BY <2>3, <3>1
    <3>3. \A k \in c.s .. c.e : k \in Kept(o, n)
      BY <1>6, <3>1, <3>2
    <3>4. r.s \notin c.s .. c.e /\ r.e \notin c.s .. c.e
      BY <3>3 DEF Cuts
    <3> QED
      BY <1>4, <1>9, <3>2, <3>4 DEF Overlaps, HasRange
  <2> QED
    BY <1>5, <1>7, <1>9, <2>2, <2>3
<1>10. CASE Overlaps(c, r) /\ c.kids # <<>>
  <2> DEFINE v == remove_overlap_from(c, r)
  <2>1. KeptBy(o, n.mid, c) = Kept(o, c) /\ Becomes(c, r) = v
    BY <1>7, <1>10 DEF KeptBy
  <2>2. Cuts(o, c, r)
    <3>1. r.s \notin Kept(o, c) /\ r.e \notin Kept(o, c)
      BY <1>6, <2>1 DEF Cuts
    <3>2. ~(c.s <= r.s /\ r.e <= c.e)
      BY <1>4 DEF Cuts, HasRange
    <3> QED
      BY <1>4, <3>1, <3>2 DEF Cuts
  <2>3. d # 0 /\ Below(d) = Level(d - 1)
    BY <1>2 DEF Below
  <2>4. Trimmed(o, d - 1, c, r, v)
    BY <1>2, <1>10, <2>2 DEF Trims
  <2>5. c.s <= r.e /\ r.s <= c.e
    BY <1>10 DEF Overlaps
  <2> HIDE DEF v
  <2>6. v # NoTree => /\ Part(o, Below(d), c, r, v) /\ KeptBy(o, n.mid, v) = Kept(o, v)
    <3> SUFFICES ASSUME v # NoTree PROVE Part(o, Below(d), c, r, v) /\ KeptBy(o, n.mid, v) = Kept(o, v)
      OBVIOUS
    <3>1. /\ v \in Level(d - 1) /\ Good(o, v) /\ v.mid = c.mid /\ v.kids # <<>>
          /\ Side(c, r, v) /\ Kept(o, v) \subseteq Kept(o, c)
      BY <2>4 DEF Trimmed
    <3> QED
      BY <1>10, <2>3, <2>5, <3>1 DEF Part, Side, KeptBy
  <2>7. \A i \in Kept(o, c) : (r.s <= i /\ i <= r.e) \/ (v # NoTree /\ i \in Kept(o, v))
    BY <2>4 DEF Trimmed
  <2> QED
    BY <1>5, <1>10, <2>1, <2>6, <2>7
<1> QED
  BY <1>8, <1>9, <1>10

LeftOf(n, r) == {Becomes(c, r) : c \in ToSet(n.kids)} \ {NoTree}

(* What is left of the children: each lies on the side of r that n sticks   *)
(* out of.                                                                  *)
OnSide(o, S, n, r) ==
    /\ HasRange(n) /\ HasRange(r) /\ Overlaps(n, r)
    /\ ~(n.s <= r.s /\ r.e <= n.e)
    /\ Ranges(ToSet(n.kids)) /\ Tiles(ToSet(n.kids), n.s, n.e)
    /\ \A c \in ToSet(n.kids) : /\ Becomes(c, r) = NoTree \/ Part(o, S, c, r, Becomes(c, r))
                                /\ ~Overlaps(c, r) => Becomes(c, r) = c
                                /\ c # NoTree

(* What becomes of a child lies within the child, on one side of r.         *)
LEMMA SideOf ==
    ASSUME NEW o, NEW S, NEW n, NEW r, OnSide(o, S, n, r), NEW c \in ToSet(n.kids), Becomes(c, r) # NoTree,
           NEW v, v = Becomes(c, r)
    PROVE  /\ HasRange(v) /\ HasRange(c) /\ n.s <= v.s /\ v.e <= n.e /\ c.s <= v.s /\ v.e <= c.e
           /\ \/ n.s < r.s /\ n.e < r.e /\ v.s = c.s /\ v.e < r.s
              \/ r.s < n.s /\ r.e < n.e /\ v.e = c.e /\ r.e < v.s
<1>1. Part(o, S, c, r, v)
  BY DEF OnSide
<1>2. n.s <= c.s /\ c.e <= n.e /\ HasRange(c)
  BY DEF OnSide, Ranges, Tiles
<1>3. HasRange(v) /\ c.s <= v.s /\ v.e <= c.e
  BY <1>1 DEF Part
<1>4. (v.s = c.s /\ v.e < r.s) \/ (v.e = c.e /\ r.e < v.s)
  BY <1>1 DEF Part
<1>5. HasRange(n) /\ HasRange(r) /\ n.s <= r.e /\ r.s <= n.e /\ ~(n.s <= r.s /\ r.e <= n.e)
  BY DEF OnSide, Overlaps
<1>6. n.s <= v.s /\ v.e <= n.e
  BY <1>2, <1>3, <1>5 DEF HasRange
<1>7. CASE v.s = c.s /\ v.e < r.s
  BY <1>2, <1>3, <1>5, <1>6, <1>7 DEF HasRange
<1>8. CASE v.e = c.e /\ r.e < v.s
  BY <1>2, <1>3, <1>5, <1>6, <1>8 DEF HasRange
<1> QED
  BY <1>2, <1>3, <1>4, <1>6, <1>7, <1>8

(* What becomes of the children does not overlap.                           *)
LEMMA LeftRanges ==
    ASSUME NEW o, NEW S, NEW n, NEW r, OnSide(o, S, n, r)
    PROVE  Ranges(LeftOf(n, r))
<1> DEFINE K == ToSet(n.kids)
           V == {Becomes(c, r) : c \in K}
<1>1. IsFiniteSet(V)
  <2> DEFINE f == [c \in K |-> Becomes(c, r)]
  <2>1. f \in Surjection(K, V)
    BY DEF Surjection
  <2>2. IsFiniteSet(K)
    BY DEF OnSide, Ranges
  <2> HIDE DEF f, V, K
  <2> QED
    BY <2>1, <2>2, FS_Surjection
<1>2. IsFiniteSet(LeftOf(n, r))
  <2>1. LeftOf(n, r) \in SUBSET V
    BY DEF LeftOf
  <2> HIDE DEF V
  <2> QED
    BY <1>1, <2>1, FS_Subset
<1>3. ASSUME NEW v \in LeftOf(n, r)
      PROVE  \E c \in K : /\ Becomes(c, r) = v /\ v # NoTree /\ HasRange(v) /\ HasRange(c)
                          /\ c.s <= v.s /\ v.e <= c.e
  <2>1. PICK c \in K : v = Becomes(c, r) /\ v # NoTree
    BY DEF LeftOf
  <2> QED
    BY <2>1, SideOf
<1>4. ASSUME NEW v \in LeftOf(n, r), NEW w \in LeftOf(n, r), v # w
      PROVE  v.e < w.s \/ w.e < v.s
  <2>1. PICK c \in K : Becomes(c, r) = v /\ HasRange(v) /\ HasRange(c) /\ c.s <= v.s /\ v.e <= c.e
    BY <1>3
  <2>2. PICK b \in K : Becomes(b, r) = w /\ HasRange(w) /\ HasRange(b) /\ b.s <= w.s /\ w.e <= b.e
    BY <1>3
  <2>3. c.e < b.s \/ b.e < c.s
    BY <1>4, <2>1, <2>2 DEF OnSide, Ranges, Disjoint
  <2> QED
    BY <2>1, <2>2, <2>3 DEF HasRange
<1>5. \A v \in LeftOf(n, r) : HasRange(v)
  BY <1>3
<1> QED
  BY <1>2, <1>4, <1>5 DEF Ranges, Disjoint

(* They reach from the end of n that stays to r, and leave nothing out.     *)
LEMMA LeftTiles ==
    ASSUME NEW o, NEW S, NEW n, NEW r, OnSide(o, S, n, r), NEW v, Spans(v, LeftOf(n, r))
    PROVE  Side(n, r, v) /\ Tiles(LeftOf(n, r), v.s, v.e)
<1> DEFINE K == ToSet(n.kids)
<1>1. /\ \A c \in K : HasRange(c) /\ n.s <= c.s /\ c.e <= n.e
      /\ \A c, b \in K : c # b => c.e < b.s \/ b.e < c.s
      /\ \A p \in n.s .. n.e : \E c \in K : c.s <= p /\ p <= c.e
  BY DEF OnSide, Ranges, Tiles, Disjoint
<1>2. /\ HasRange(n) /\ HasRange(r) /\ HasRange(v)
      /\ \A x \in LeftOf(n, r) : v.s <= x.s /\ x.e <= v.e
  BY DEF OnSide, Spans
<1>3. \A c \in K : Becomes(c, r) \in LeftOf(n, r) \/ Becomes(c, r) = NoTree
  BY DEF LeftOf
<1>4. \A c \in K : c.e < r.s \/ r.e < c.s => c \in LeftOf(n, r)
  <2> TAKE c \in K
  <2> SUFFICES ASSUME c.e < r.s \/ r.e < c.s PROVE c \in LeftOf(n, r)
    OBVIOUS
  <2>1. ~Overlaps(c, r)
    BY <1>1, <1>2 DEF Overlaps, HasRange
  <2>2. Becomes(c, r) = c /\ c # NoTree
    BY <2>1 DEF OnSide
  <2> QED
    BY <1>3, <2>2
<1>5. PICK cs \in K : Becomes(cs, r) # NoTree /\ v.s = Becomes(cs, r).s
  <2>1. PICK x \in LeftOf(n, r) : v.s = x.s
    BY DEF Spans
  <2> QED
    BY <2>1 DEF LeftOf
<1>6. PICK ce \in K : Becomes(ce, r) # NoTree /\ v.e = Becomes(ce, r).e
  <2>1. PICK x \in LeftOf(n, r) : v.e = x.e
    BY DEF Spans
  <2> QED
    BY <2>1 DEF LeftOf
<1> DEFINE a == Becomes(cs, r)
           b == Becomes(ce, r)
<1>7. /\ HasRange(a) /\ HasRange(cs) /\ n.s <= a.s /\ a.e <= n.e /\ cs.s <= a.s /\ a.e <= cs.e
      /\ \/ n.s < r.s /\ n.e < r.e /\ a.s = cs.s /\ a.e < r.s
         \/ r.s < n.s /\ r.e < n.e /\ a.e = cs.e /\ r.e < a.s
  BY <1>5, SideOf
<1>8. /\ HasRange(b) /\ HasRange(ce) /\ n.s <= b.s /\ b.e <= n.e /\ ce.s <= b.s /\ b.e <= ce.e
      /\ \/ n.s < r.s /\ n.e < r.e /\ b.s = ce.s /\ b.e < r.s
         \/ r.s < n.s /\ r.e < n.e /\ b.e = ce.e /\ r.e < b.s
  BY <1>6, SideOf
<1>9. v.s = a.s /\ v.e = b.e /\ a \in LeftOf(n, r) /\ b \in LeftOf(n, r)
  BY <1>3, <1>5, <1>6
<1> HIDE DEF K, a, b
<1>10. CASE n.s < r.s /\ n.e < r.e
  <2>1. a.s = cs.s /\ a.e < r.s /\ b.s = ce.s /\ b.e < r.s
    BY <1>2, <1>7, <1>8, <1>10 DEF HasRange
  <2>2. v.s = n.s
    <3>1. PICK c \in K : c.s <= n.s /\ n.s <= c.e
      BY <1>1, <1>2 DEF HasRange
    <3>2. c = cs \/ c.e < cs.s \/ cs.e < c.s
      BY <1>1
    <3>3. CASE c = cs
      BY <1>1, <1>2, <1>9, <2>1, <3>1, <3>3 DEF HasRange
    <3>4. CASE c.e < cs.s
      <4>1. c.e < r.s
        BY <1>1, <1>2, <1>7, <2>1, <3>4 DEF HasRange
      <4>2. v.s <= c.s
        BY <1>2, <1>4, <4>1
      <4> QED
        BY <1>1, <1>2, <1>7, <1>9, <3>1, <4>2 DEF HasRange
    <3>5. CASE cs.e < c.s
      BY <1>1, <1>2, <1>7, <3>1, <3>5 DEF HasRange
    <3> QED
      BY <3>2, <3>3, <3>4, <3>5
  <2>3. Side(n, r, v)
    BY <1>2, <1>8, <1>9, <2>1, <2>2 DEF Side, HasRange
  <2>4. ASSUME NEW p \in v.s .. v.e PROVE \E x \in LeftOf(n, r) : x.s <= p /\ p <= x.e
    <3>1. p \in n.s .. n.e /\ p \in Int /\ p <= b.e
      BY <1>2, <1>8, <1>9, <2>2, <2>4 DEF HasRange
    <3>2. PICK c \in K : c.s <= p /\ p <= c.e
      BY <1>1, <3>1
    <3>3. CASE c.e < r.s
      BY <1>4, <3>2, <3>3
    <3>4. CASE ~(c.e < r.s)
      <4>1. c = ce
        <5>1. SUFFICES ASSUME c.e < ce.s \/ ce.e < c.s PROVE FALSE
          BY <1>1
        <5> QED
          BY <1>1, <1>2, <1>8, <2>1, <3>1, <3>2, <3>4, <5>1 DEF HasRange
      <4> QED
        BY <1>9, <2>1, <3>1, <3>2, <4>1
    <3> QED
      BY <3>3, <3>4
  <2> QED
    BY <1>2, <2>3, <2>4 DEF Tiles
<1>11. CASE r.s < n.s /\ r.e < n.e
  <2>1. a.e = cs.e /\ r.e < a.s /\ b.e = ce.e /\ r.e < b.s
    BY <1>2, <1>7, <1>8, <1>11 DEF HasRange
  <2>2. v.e = n.e
    <3>1. PICK c \in K : c.s <= n.e /\ n.e <= c.e
      BY <1>1, <1>2 DEF HasRange
    <3>2. c = ce \/ c.e < ce.s \/ ce.e < c.s
      BY <1>1
    <3>3. CASE c = ce
      BY <1>1, <1>2, <1>9, <2>1, <3>1, <3>3 DEF HasRange
    <3>4. CASE ce.e < c.s
      <4>1. r.e < c.s
        BY <1>1, <1>2, <1>8, <2>1, <3>4 DEF HasRange
      <4>2. c.e <= v.e
        BY <1>2, <1>4, <4>1
      <4> QED
        BY <1>1, <1>2, <1>8, <1>9, <3>1, <4>2 DEF HasRange
    <3>5. CASE c.e < ce.s
      BY <1>1, <1>2, <1>8, <3>1, <3>5 DEF HasRange
    <3> QED
      BY <3>2, <3>3, <3>4, <3>5
  <2>3. Side(n, r, v)
    BY <1>2, <1>7, <1>9, <2>1, <2>2 DEF Side, HasRange
  <2>4. ASSUME NEW p \in v.s .. v.e PROVE \E x \in LeftOf(n, r) : x.s <= p /\ p <= x.e
    <3>1. p \in n.s .. n.e /\ p \in Int /\ a.s <= p
      BY <1>2, <1>7, <1>9, <2>2, <2>4 DEF HasRange
    <3>2. PICK c \in K : c.s <= p /\ p <= c.e
      BY <1>1, <3>1
    <3>3. CASE r.e < c.s
      BY <1>4, <3>2, <3>3
    <3>4. CASE ~(r.e < c.s)
      <4>1. c = cs
        <5>1. SUFFICES ASSUME c.e < cs.s \/ cs.e < c.s PROVE FALSE
          BY <1>1
        <5> QED
          BY <1>1, <1>2, <1>7, <2>1, <3>1, <3>2, <3>4, <5>1 DEF HasRange
      <4> QED
        BY <1>9, <2>1, <3>1, <3>2, <4>1
    <3> QED
      BY <3>3, <3>4
  <2> QED
    BY <1>2, <2>3, <2>4 DEF Tiles
<1> QED
  BY <1>7, <1>10, <1>11

(* If remove_overlap_from trims the children well, it trims their parent    *)
(* well.                                                                    *)
LEMMA TrimNode ==
    ASSUME NEW o, NEW d \in Depths, NEW n \in Level(d), NEW r, \A c \in Below(d) : Trims(o, d - 1, c, r)
    PROVE  Trims(o, d, n, r)
<1> SUFFICES ASSUME Good(o, n), Overlaps(n, r), Cuts(o, n, r)
             PROVE  Trimmed(o, d, n, r, remove_overlap_from(n, r))
  BY DEF Trims
<1> DEFINE K == ToSet(n.kids)
           left == LeftOf(n, r)
           v == remove_overlap_from(n, r)
           m == n.mid
<1>1. n \in Nodes /\ Made(n, Below(d))
  BY LevelNodes, LevelMade
<1>2. v = IF left = {} THEN NoTree ELSE Node(m, Sorted(left))
  BY <1>1, TrimStep DEF LeftOf, Becomes
<1> HIDE DEF v
<1>3. CASE n.kids = <<>>
  <2>1. left = {} /\ Kept(o, n) = {}
    BY <1>1, <1>3, LeafTree DEF LeftOf, Made
  <2> QED
    BY <1>2, <2>1 DEF Trimmed, v
<1>4. CASE n.kids # <<>>
  <2>1. Fine(o, n)
    BY <1>1, <1>4, GoodStep
  <2>2. ASSUME NEW c \in K
        PROVE  /\ Becomes(c, r) = NoTree \/ Part(o, Below(d), c, r, Becomes(c, r))
               /\ ~Overlaps(c, r) => Becomes(c, r) = c
               /\ c # NoTree
               /\ \A i \in KeptBy(o, m, c) : \/ r.s <= i /\ i <= r.e
                                             \/ Becomes(c, r) # NoTree /\ i \in KeptBy(o, m, Becomes(c, r))
    BY <1>4, PartFacts
  <2>3. OnSide(o, Below(d), n, r)
    BY <2>1, <2>2 DEF OnSide, Cuts, Fine
  <2>4. ASSUME NEW i \in Kept(o, n)
        PROVE  (r.s <= i /\ i <= r.e) \/ \E x \in left : i \in KeptBy(o, m, x)
    <3>1. PICK c \in K : i \in KeptBy(o, m, c)
      BY <1>1, KeptStep
    <3> QED
      BY <2>2, <3>1 DEF LeftOf
  <2>5. CASE left = {}
    <3>1. v = NoTree
      BY <1>2, <2>5
    <3>2. \A i \in Kept(o, n) : r.s <= i /\ i <= r.e
      BY <2>4, <2>5
    <3> QED
      BY <3>1, <3>2 DEF Trimmed, v
  <2>6. CASE left # {}
    <3>1. v = Node(m, Sorted(left)) /\ Ranges(left)
      BY <1>2, <2>3, <2>6, LeftRanges
    <3>2. Spans(v, left) /\ v.mid = m /\ v.kids = Sorted(left) /\ v.kids # <<>> /\ InOrder(v.kids, left)
      BY <2>6, <3>1, NodeSpans, SortedRanges
    <3>3. Side(n, r, v) /\ Tiles(left, v.s, v.e)
      BY <2>3, <3>2, LeftTiles
    <3>4. Row(v)
      BY <2>6, <3>1, <3>3, NodeRow
    <3>5. ToSet(v.kids) = left
      BY <3>2 DEF InOrder
    <3>6. ASSUME NEW x \in left
          PROVE  \E c \in K : Part(o, Below(d), c, r, x)
      BY <2>2 DEF LeftOf
    <3>7. v \in Level(d)
      <4>1. left \subseteq Below(d)
        BY <3>6 DEF Part
      <4>2. v.kids \in Seq(Below(d))
        BY <3>2, <4>1, SeqMonotonic DEF InOrder
      <4>3. v = [mid |-> v.mid, kids |-> v.kids, s |-> v.s, e |-> v.e]
        BY <3>1 DEF Node
      <4>4. v.mid \in Nat /\ v.s \in Int /\ v.e \in Int
        BY <1>1, <3>2, <3>3 DEF Made, Side, HasRange
      <4>5. v \in NodesOver(Below(d))
        BY <4>2, <4>3, <4>4 DEF NodesOver
      <4> QED
        BY <4>5, DepthStep
    <3>8. v \in Nodes
      BY <3>7, LevelNodes
    <3>9. Fine(o, v)
      <4>1. v.s \in Pos /\ v.e \in Pos
        BY <2>1, <3>3, SizeAssumption DEF Fine, Side, HasRange, Pos
      <4>2. ASSUME NEW x \in left PROVE x.mid = 0 <=> x.kids = <<>>
        <5>1. PICK c \in K : Part(o, Below(d), c, r, x)
          BY <3>6
        <5> QED
          BY <2>1, <5>1 DEF Part, Fine
      <4>3. Maximal(o, m, left)
        <5>1. ASSUME NEW x \in left, x.mid = 0 PROVE x \in K
          <6>1. PICK c \in K : Part(o, Below(d), c, r, x)
            BY <3>6
          <6> QED
            BY <4>2, <5>1, <6>1 DEF Part
        <5> QED
          BY <2>1, <5>1 DEF Fine, Maximal
      <4>4. v.mid # 0
        BY <2>1, <3>2 DEF Fine
      <4> QED
        BY <3>1, <3>2, <3>3, <3>4, <3>5, <4>1, <4>2, <4>3, <4>4 DEF Fine
    <3>10. Good(o, v)
      <4>1. \A c \in ToSet(v.kids) : Good(o, c)
        BY <3>5, <3>6 DEF Part
      <4> QED
        BY <3>8, <3>9, <4>1, GoodStep
    <3>11. Kept(o, v) \subseteq Kept(o, n)
      <4> SUFFICES ASSUME NEW i \in Kept(o, v) PROVE i \in Kept(o, n)
        OBVIOUS
      <4>1. PICK x \in left : i \in KeptBy(o, m, x)
        BY <3>2, <3>5, <3>8, KeptStep
      <4>2. PICK c \in K : Part(o, Below(d), c, r, x)
        BY <3>6
      <4>3. i \in KeptBy(o, m, c)
        BY <4>1, <4>2 DEF Part, KeptBy
      <4> QED
        BY <1>1, <4>3, KeptStep
    <3>12. \A i \in Kept(o, n) : (r.s <= i /\ i <= r.e) \/ i \in Kept(o, v)
      BY <2>4, <3>2, <3>5, <3>8, KeptStep
    <3>13. v # NoTree
      BY <3>2, NoTreeIs
    <3> QED
      BY <3>2, <3>3, <3>7, <3>10, <3>11, <3>12, <3>13 DEF Trimmed, v
  <2> QED
    BY <2>5, <2>6
<1> QED
  BY <1>3, <1>4

(* What remove_overlap_from leaves of a node is a good node on one side of  *)
(* the range it is taken from, and loses none of the runs outside of it.    *)
LEMMA Trimming ==
    ASSUME NEW o, NEW r, NEW d \in Depths
    PROVE  \A n \in Level(d) : Trims(o, d, n, r)
<1> DEFINE I == {k \in Nat : k \in Depths => \A n \in Level(k) : Trims(o, k, n, r)}
<1>1. 0 \in I
  BY TrimNode, MethodsAssumption DEF Below, Depths
<1>2. ASSUME NEW k \in Nat, k \in I PROVE k + 1 \in I
  <2> SUFFICES ASSUME k + 1 \in Depths PROVE \A n \in Level(k + 1) : Trims(o, k + 1, n, r)
    OBVIOUS
  <2>1. k \in Depths /\ Below(k + 1) = Level(k) /\ (k + 1) - 1 = k
    BY MethodsAssumption DEF Depths, Below
  <2>2. \A c \in Below(k + 1) : Trims(o, (k + 1) - 1, c, r)
    BY <1>2, <2>1
  <2> HIDE DEF I
  <2> QED
    BY <2>2, TrimNode
<1>3. d \in I /\ d \in Nat
  <2>1. d \in Nat
    BY MethodsAssumption DEF Depths
  <2> HIDE DEF I
  <2> QED
    BY <1>1, <1>2, <2>1, SetInduction
<1> QED
  BY <1>3

------------------------------------------------------------------------------
(* The children of a method                                                 *)

(* A child of method m: a run of its own that cannot be longer, or a node.  *)
Item(o, d, m, a) ==
    /\ a \in Level(d) /\ HasRange(a) /\ a.s \in Pos /\ a.e \in Pos
    /\ a.kids = <<>> => /\ a.mid = 0 /\ IsRun(o, m, a)
                        /\ a.s - 1 \in Pos => o[a.s - 1] # m
                        /\ a.e + 1 \in Pos => o[a.e + 1] # m
    /\ a.kids # <<>> => a.mid # 0 /\ Good(o, a)

(* It starts and ends in runs.                                              *)
Whole(o, m, a) == a.s \in KeptBy(o, m, a) /\ a.e \in KeptBy(o, m, a)

Low(o, m, A, R)  == \E x \in R : x.s \in KeptBy(o, m, x) /\ (\A y \in R : x.s <= y.s)
        /\ \A b \in A : x.s <= b.s
High(o, m, A, R) == \E x \in R : x.e \in KeptBy(o, m, x) /\ (\A y \in R : y.e <= x.e)
        /\ \A b \in A : b.e <= x.e

(* R is what no_overlap makes of the children A.                            *)
Keeps(o, d, m, A, R) ==
    /\ Ranges(R) /\ \A x \in R : Item(o, d, m, x)
    /\ \A x \in R : \A i \in KeptBy(o, m, x) : \E b \in A : i \in KeptBy(o, m, b)
    /\ \A x \in R : x.kids = <<>> => x \in A
    /\ A = {} => R = {}
    /\ A # {} => Low(o, m, A, R) /\ High(o, m, A, R)

(* One child more.                                                          *)
Joins(o, d, m, A, a) ==
    /\ Item(o, d, m, a) /\ Whole(o, m, a)
    /\ \A b \in A : /\ HasRange(b) /\ \A i \in KeptBy(o, m, a) : i \notin KeptBy(o, m, b)
                    /\ b.kids = <<>> => a.kids = <<>>

(* The runs of a child lie in its range; a child that is a run is all its   *)
(* own.                                                                     *)
LEMMA KeptByItem ==
    ASSUME NEW o, NEW d, NEW m, NEW x, Item(o, d, m, x)
    PROVE  /\ \A i \in KeptBy(o, m, x) : i \in Int /\ x.s <= i /\ i <= x.e
           /\ x.kids = <<>> => \A i \in x.s .. x.e : i \in KeptBy(o, m, x)
<1>1. CASE x.kids = <<>>
  <2>1. KeptBy(o, m, x) = x.s .. x.e
    BY <1>1 DEF KeptBy, Item
  <2> QED
    BY <2>1 DEF Item, HasRange
<1>2. CASE x.kids # <<>>
  <2>1. \A i \in Kept(o, x) : i \in Pos /\ x.s <= i /\ i <= x.e
    BY <1>2, KeptInside DEF Item
  <2> QED
    BY <1>2, <2>1 DEF KeptBy, Pos
<1> QED
  BY <1>1, <1>2

(* No child overlaps the new one.                                           *)
LEMMA JoinApart ==
    ASSUME NEW o, NEW d, NEW m, NEW A, NEW R, NEW a, Keeps(o, d, m, A, R), Joins(o, d, m, A, a),
           \A x \in R : ~Overlaps(x, a)
    PROVE  Keeps(o, d, m, A \cup {a}, R \cup {a})
<1> DEFINE S == R \cup {a}
           B == A \cup {a}
<1>1. /\ Item(o, d, m, a) /\ Whole(o, m, a) /\ HasRange(a) /\ \A x \in R : Item(o, d, m, x) /\ HasRange(x)
      /\ \A b \in A : HasRange(b)
  BY DEF Keeps, Joins, Item
<1>2. Ranges(S)
  <2>1. IsFiniteSet(S)
    BY FS_AddElement DEF Keeps, Ranges
  <2>2. \A x \in R : x.e < a.s \/ a.e < x.s
    BY <1>1 DEF Overlaps, HasRange
  <2>3. Disjoint(S)
    BY <2>2 DEF Disjoint, Keeps, Ranges
  <2> QED
    BY <1>1, <2>1, <2>3 DEF Ranges
<1>3. \A x \in S : \A i \in KeptBy(o, m, x) : \E b \in B : i \in KeptBy(o, m, b)
  BY DEF Keeps
<1>4. \A x \in S : x.kids = <<>> => x \in B
  BY DEF Keeps
<1>5. Low(o, m, B, S)
  <2>1. CASE A = {}
    <3>1. S = {a} /\ B = {a} /\ a.s <= a.s
      BY <1>1, <2>1 DEF Keeps, HasRange
    <3> QED
      BY <1>1, <3>1 DEF Low, Whole
  <2>2. CASE A # {}
    <3>1. PICK x \in R : x.s \in KeptBy(o, m, x) /\ (\A y \in R : x.s <= y.s) /\ \A b \in A : x.s <= b.s
      BY <2>2 DEF Keeps, Low
    <3>2. CASE x.s <= a.s
      BY <3>1, <3>2 DEF Low
    <3>3. CASE ~(x.s <= a.s)
      <4>1. a.s <= x.s /\ a.s <= a.s
        BY <1>1, <3>3 DEF HasRange
      <4>2. (\A y \in R : a.s <= y.s) /\ \A b \in A : a.s <= b.s
        BY <1>1, <3>1, <4>1 DEF HasRange
      <4> QED
        BY <1>1, <4>1, <4>2 DEF Low, Whole
    <3> QED
      BY <3>2, <3>3
  <2> QED
    BY <2>1, <2>2
<1>6. High(o, m, B, S)
  <2>1. CASE A = {}
    <3>1. S = {a} /\ B = {a} /\ a.e <= a.e
      BY <1>1, <2>1 DEF Keeps, HasRange
    <3> QED
      BY <1>1, <3>1 DEF High, Whole
  <2>2. CASE A # {}
    <3>1. PICK x \in R : x.e \in KeptBy(o, m, x) /\ (\A y \in R : y.e <= x.e) /\ \A b \in A : b.e <= x.e
      BY <2>2 DEF Keeps, High
    <3>2. CASE a.e <= x.e
      BY <3>1, <3>2 DEF High
    <3>3. CASE ~(a.e <= x.e)
      <4>1. x.e <= a.e /\ a.e <= a.e
        BY <1>1, <3>3 DEF HasRange
      <4>2. (\A y \in R : y.e <= a.e) /\ \A b \in A : b.e <= a.e
        BY <1>1, <3>1, <4>1 DEF HasRange
      <4> QED
        BY <1>1, <4>1, <4>2 DEF High, Whole
    <3> QED
      BY <3>2, <3>3
  <2> QED
    BY <2>1, <2>2
<1>7. \A x \in S : Item(o, d, m, x)
  BY <1>1
<1> QED
  BY <1>2, <1>3, <1>4, <1>5, <1>6, <1>7 DEF Keeps

(* The new child lies within a former one.                                  *)
LEMMA JoinWithin ==
    ASSUME NEW o, NEW d, NEW m, NEW A, NEW R, NEW a, Keeps(o, d, m, A, R), Joins(o, d, m, A, a),
           NEW n \in R, n.s <= a.s, a.e <= n.e
    PROVE  Keeps(o, d, m, A \cup {a}, R)
<1> DEFINE B == A \cup {a}
<1>1. HasRange(a) /\ \A x \in R : HasRange(x)
  BY DEF Keeps, Joins, Item
<1>2. A # {}
  BY DEF Keeps
<1>3. Low(o, m, B, R)
  <2>1. PICK x \in R : x.s \in KeptBy(o, m, x) /\ (\A y \in R : x.s <= y.s) /\ \A b \in A : x.s <= b.s
    BY <1>2 DEF Keeps, Low
  <2>2. x.s <= a.s
    BY <1>1, <2>1 DEF HasRange
  <2> QED
    BY <2>1, <2>2 DEF Low
<1>4. High(o, m, B, R)
  <2>1. PICK x \in R : x.e \in KeptBy(o, m, x) /\ (\A y \in R : y.e <= x.e) /\ \A b \in A : b.e <= x.e
    BY <1>2 DEF Keeps, High
  <2>2. a.e <= x.e
    BY <1>1, <2>1 DEF HasRange
  <2> QED
    BY <2>1, <2>2 DEF High
<1> QED
  BY <1>3, <1>4 DEF Keeps

(* The one child that the new one overlaps is trimmed.                      *)
LEMMA JoinCuts ==
    ASSUME NEW o, NEW d \in Depths, NEW m, NEW A, NEW R, NEW a, Keeps(o, d, m, A, R), Joins(o, d, m, A, a),
           NEW n \in R, Overlaps(n, a), ~(n.s <= a.s /\ a.e <= n.e)
    PROVE  n.kids # <<>> /\ n.mid # 0 /\ Trimmed(o, d, n, a, remove_overlap_from(n, a))
<1>1. Item(o, d, m, n) /\ Item(o, d, m, a) /\ Whole(o, m, a)
  BY DEF Keeps, Joins
<1>2. \A i \in KeptBy(o, m, a) : i \notin KeptBy(o, m, n)
  <2>1. \A i \in KeptBy(o, m, n) : \E b \in A : i \in KeptBy(o, m, b)
    BY DEF Keeps
  <2> QED
    BY <2>1 DEF Joins
<1>3. a.s \notin KeptBy(o, m, n) /\ a.e \notin KeptBy(o, m, n)
  BY <1>1, <1>2 DEF Whole
<1>4. n.kids # <<>>
  <2> SUFFICES ASSUME n.kids = <<>> PROVE FALSE
    OBVIOUS
  <2>1. a.kids = <<>>
    BY DEF Keeps, Joins
  <2>2. \A i \in n.s .. n.e : i \notin a.s .. a.e
    BY <1>1, <1>2, <2>1, KeptByItem
  <2>3. n.s <= a.e /\ a.s <= n.e /\ HasRange(n) /\ HasRange(a)
    BY <1>1 DEF Overlaps, Item
  <2>4. n.s \in n.s .. n.e /\ a.s \in a.s .. a.e
    BY <2>3 DEF HasRange
  <2> QED
    BY <2>2, <2>3, <2>4 DEF HasRange
<1>5. Cuts(o, n, a)
  BY <1>1, <1>3, <1>4 DEF Cuts, KeptBy, Item
<1>6. Good(o, n) /\ n \in Level(d) /\ n.mid # 0
  BY <1>1, <1>4 DEF Item
<1> QED
  BY <1>4, <1>5, <1>6, Trimming DEF Trims

(* After the one overlapping node n was trimmed to v, add_child keeps what  *)
(* was compared.                                                            *)
LEMMA JoinTrim ==
    ASSUME NEW o, NEW d \in Depths, NEW m, NEW A, NEW R, NEW a, Keeps(o, d, m, A, R), Joins(o, d, m, A, a),
           NEW n \in R, Overlaps(n, a), ~(n.s <= a.s /\ a.e <= n.e),
           \A x \in R : x # n => ~Overlaps(x, a),
           NEW v, n.kids # <<>>, n.mid # 0, Trimmed(o, d, n, a, v),
           NEW S, IsFiniteSet(S), a \in S, \A x \in R : x # n => x \in S, v # NoTree => v \in S,
           \A x \in S : x = a \/ (x \in R /\ x # n) \/ (x = v /\ v # NoTree)
    PROVE  Keeps(o, d, m, A \cup {a}, S)
<1> DEFINE B == A \cup {a}
<1>1. n.kids # <<>> /\ n.mid # 0 /\ Trimmed(o, d, n, a, v)
  OBVIOUS
<1>2. /\ Item(o, d, m, a) /\ Whole(o, m, a) /\ HasRange(a) /\ \A x \in R : Item(o, d, m, x) /\ HasRange(x)
      /\ \A b \in A : HasRange(b)
  BY DEF Keeps, Joins, Item
<1>3. v # NoTree => /\ v \in Level(d) /\ Good(o, v) /\ v.mid = n.mid /\ v.kids # <<>>
                    /\ Side(n, a, v) /\ Kept(o, v) \subseteq Kept(o, n)
  BY <1>1 DEF Trimmed
<1>4. \A i \in Kept(o, n) : (a.s <= i /\ i <= a.e) \/ (v # NoTree /\ i \in Kept(o, v))
  BY <1>1 DEF Trimmed
<1>5. KeptBy(o, m, n) = Kept(o, n) /\ (v # NoTree => KeptBy(o, m, v) = Kept(o, v))
  BY <1>1, <1>3 DEF KeptBy
<1>6. \A x \in S : x = a \/ (x \in R /\ x # n) \/ (x = v /\ v # NoTree)
  OBVIOUS
<1>7. a \in S /\ (\A x \in R : x # n => x \in S) /\ (v # NoTree => v \in S)
  OBVIOUS
<1>8. IsFiniteSet(S)
  OBVIOUS
<1>9. v # NoTree => v.s \in Int /\ v.e \in Int /\ v.s <= v.e /\ n.s <= v.s /\ v.e <= n.e /\ (v.e < a.s
        \/ a.e < v.s)
  BY <1>3 DEF Side, HasRange
<1>10. \A x \in R : x # n => x.e < a.s \/ a.e < x.s
  BY <1>2 DEF Overlaps, HasRange
<1>11. \A x, y \in R : x # y => x.e < y.s \/ y.e < x.s
  BY DEF Keeps, Ranges, Disjoint
<1>12. \A x \in R : x.s \in Int /\ x.e \in Int /\ x.s <= x.e
  BY <1>2 DEF HasRange
<1>13. Ranges(S)
  <2>1. \A x \in R : x # n /\ v # NoTree => x.e < v.s \/ v.e < x.s
    BY <1>9, <1>11, <1>12
  <2>2. Disjoint(S)
    BY <1>6, <1>9, <1>10, <1>11, <2>1 DEF Disjoint
  <2>3. \A x \in S : HasRange(x)
    BY <1>2, <1>6, <1>9 DEF HasRange
  <2> QED
    BY <1>8, <2>2, <2>3 DEF Ranges
<1>14. \A x \in S : Item(o, d, m, x)
  <2>1. v # NoTree => Item(o, d, m, v)
    <3> SUFFICES ASSUME v # NoTree PROVE Item(o, d, m, v)
      OBVIOUS
    <3>1. HasRange(v)
      BY <1>9 DEF HasRange
    <3>2. v.s \in Pos /\ v.e \in Pos
      <4>1. n.s \in Pos /\ n.e \in Pos
        BY <1>2 DEF Item
      <4> QED
        BY <1>9, <4>1, SizeAssumption DEF Pos
    <3> QED
      BY <1>1, <1>3, <3>1, <3>2 DEF Item
  <2> QED
    BY <1>2, <1>6, <2>1
<1>15. \A x \in S : \A i \in KeptBy(o, m, x) : \E b \in B : i \in KeptBy(o, m, b)
  <2>1. \A x \in R : \A i \in KeptBy(o, m, x) : \E b \in B : i \in KeptBy(o, m, b)
    BY DEF Keeps
  <2>2. v # NoTree => \A i \in KeptBy(o, m, v) : \E b \in B : i \in KeptBy(o, m, b)
    BY <1>3, <1>5, <2>1
  <2> QED
    BY <1>6, <2>1, <2>2
<1>16. \A x \in S : x.kids = <<>> => x \in B
  BY <1>3, <1>6 DEF Keeps
<1>17. A # {}
  BY DEF Keeps
<1>18. \A b \in A : b.s \in Int /\ b.e \in Int
  BY <1>2 DEF HasRange
<1>19. a.s \in Int /\ a.e \in Int /\ a.s <= a.e
  BY <1>2 DEF HasRange
<1>20. a.s \in KeptBy(o, m, a) /\ a.e \in KeptBy(o, m, a)
  BY <1>2 DEF Whole
<1>21. Low(o, m, B, S)
  <2>1. PICK x \in R : x.s \in KeptBy(o, m, x) /\ (\A y \in R : x.s <= y.s) /\ \A b \in A : x.s <= b.s
    BY <1>17 DEF Keeps, Low
  <2>2. \A y \in S : y = a \/ x.s <= y.s
    BY <1>6, <1>9, <1>12, <2>1
  <2>3. CASE a.s <= x.s
    <3>1. \A y \in S : a.s <= y.s
      BY <1>6, <1>9, <1>12, <1>19, <2>2, <2>3
    <3>2. \A b \in A : a.s <= b.s
      BY <1>12, <1>18, <1>19, <2>1, <2>3
    <3> QED
      BY <1>7, <1>19, <1>20, <3>1, <3>2 DEF Low
  <2>4. CASE x.s < a.s /\ x # n
    <3>1. x \in S /\ x.s <= a.s
      BY <1>7, <1>12, <1>19, <2>4
    <3> QED
      BY <2>1, <2>2, <3>1 DEF Low
  <2>5. CASE x.s < a.s /\ x = n
    <3>1. n.s \in Kept(o, n)
      BY <1>5, <2>1, <2>5
    <3>2. v # NoTree /\ n.s \in Kept(o, v)
      BY <1>4, <1>12, <1>19, <2>5, <3>1
    <3>3. v.s <= n.s
      BY <1>3, <3>2, KeptInside
    <3>4. v.s = n.s
      BY <1>9, <1>12, <3>2, <3>3
    <3>5. v \in S /\ v.s \in KeptBy(o, m, v) /\ v.s <= a.s
      BY <1>5, <1>7, <1>12, <1>19, <2>5, <3>2, <3>4
    <3> QED
      BY <2>1, <2>2, <2>5, <3>4, <3>5 DEF Low
  <2>6. x.s < a.s \/ a.s <= x.s
    BY <1>12, <1>19
  <2> QED
    BY <2>3, <2>4, <2>5, <2>6
<1>22. High(o, m, B, S)
  <2>1. PICK x \in R : x.e \in KeptBy(o, m, x) /\ (\A y \in R : y.e <= x.e) /\ \A b \in A : b.e <= x.e
    BY <1>17 DEF Keeps, High
  <2>2. \A y \in S : y = a \/ y.e <= x.e
    BY <1>6, <1>9, <1>12, <2>1
  <2>3. CASE x.e <= a.e
    <3>1. \A y \in S : y.e <= a.e
      BY <1>6, <1>9, <1>12, <1>19, <2>2, <2>3
    <3>2. \A b \in A : b.e <= a.e
      BY <1>12, <1>18, <1>19, <2>1, <2>3
    <3> QED
      BY <1>7, <1>19, <1>20, <3>1, <3>2 DEF High
  <2>4. CASE a.e < x.e /\ x # n
    <3>1. x \in S /\ a.e <= x.e
      BY <1>7, <1>12, <1>19, <2>4
    <3> QED
      BY <2>1, <2>2, <3>1 DEF High
  <2>5. CASE a.e < x.e /\ x = n
    <3>1. n.e \in Kept(o, n)
      BY <1>5, <2>1, <2>5
    <3>2. v # NoTree /\ n.e \in Kept(o, v)
      BY <1>4, <1>12, <1>19, <2>5, <3>1
    <3>3. n.e <= v.e
      BY <1>3, <3>2, KeptInside
    <3>4. v.e = n.e
      BY <1>9, <1>12, <3>2, <3>3
    <3>5. v \in S /\ v.e \in KeptBy(o, m, v) /\ a.e <= v.e
      BY <1>5, <1>7, <1>12, <1>19, <2>5, <3>2, <3>4
    <3> QED
      BY <2>1, <2>2, <2>5, <3>4, <3>5 DEF High
  <2>6. a.e < x.e \/ x.e <= a.e
    BY <1>12, <1>19
  <2> QED
    BY <2>3, <2>4, <2>5, <2>6
<1> QED
  BY <1>13, <1>14, <1>15, <1>16, <1>21, <1>22 DEF Keeps

(* add_child fails its assertion or keeps what was compared.                *)
LEMMA AddChild ==
    ASSUME NEW o, NEW d \in Depths, NEW m, NEW A, NEW R, NEW a, Keeps(o, d, m, A, R), Joins(o, d, m, A, a)
    PROVE  add_child(R, a) = {AssertionFails} \/ Keeps(o, d, m, A \cup {a}, add_child(R, a))
<1> DEFINE ov == {n \in R : does_item_overlap(n, a)}
<1>1. ov = {n \in R : Overlaps(n, a)}
  BY DEF does_item_overlap, Overlaps
<1>2. a # NoTree /\ NoTree \notin R /\ AssertionFails \notin R
  <2>1. \A x : Item(o, d, m, x) => 1 <= x.s
    BY DEF Item, Pos
  <2>2. Item(o, d, m, a) /\ \A x \in R : Item(o, d, m, x)
    BY DEF Keeps, Joins
  <2>3. NoTree.s = 0 /\ AssertionFails.s = 0
    BY DEF NoTree, AssertionFails, Leaf
  <2> QED
    BY <2>1, <2>2, <2>3
<1>3. \A n : is_second_item_included(n, a) <=> n.s <= a.s /\ a.e <= n.e
  <2>1. \A n : is_second_item_included(n, a) <=> a.s >= n.s /\ a.e <= n.e
    BY DEF is_second_item_included
  <2> QED
    BY <2>1
<1>4. CASE \E n \in R : n.s <= a.s /\ a.e <= n.e
  <2>1. add_child(R, a) = R
    BY <1>3, <1>4, Zenon DEF add_child
  <2> QED
    BY <1>4, <2>1, JoinWithin
<1>5. CASE ~(\E n \in R : n.s <= a.s /\ a.e <= n.e) /\ \E n, p \in ov : n # p
  <2>1. add_child(R, a) = {AssertionFails}
    BY <1>2, <1>3, <1>5, Zenon DEF add_child
  <2> QED
    BY <2>1
<1>6. CASE ~(\E n \in R : n.s <= a.s /\ a.e <= n.e) /\ ~(\E n, p \in ov : n # p)
  <2>1. add_child(R, a) = ((R \ ov) \cup {remove_overlap_from(n, a) : n \in ov} \cup {a}) \ {NoTree}
    BY <1>2, <1>3, <1>6, Zenon DEF add_child
  <2>2. CASE ov = {}
    <3>1. add_child(R, a) = R \cup {a}
      BY <1>2, <2>1, <2>2
    <3>2. \A x \in R : ~Overlaps(x, a)
      BY <1>1, <2>2
    <3> QED
      BY <3>1, <3>2, JoinApart
  <2>3. CASE ov # {}
    <3>1. PICK n \in ov : \A p \in ov : p = n
      BY <1>6, <2>3
    <3>2. n \in R /\ Overlaps(n, a) /\ ~(n.s <= a.s /\ a.e <= n.e) /\ \A x \in R : x # n => ~Overlaps(x, a)
      BY <1>1, <1>6, <3>1
    <3> DEFINE v == remove_overlap_from(n, a)
               S == (R \ {n}) \cup {a} \cup (IF v = NoTree THEN {} ELSE {v})
    <3>3. ov = {n}
      BY <3>1
    <3> HIDE DEF ov
    <3>4. add_child(R, a) = ((R \ {n}) \cup {v} \cup {a}) \ {NoTree}
      BY <2>1, <3>3
    <3>5. n.kids # <<>> /\ n.mid # 0 /\ Trimmed(o, d, n, a, v)
      BY <3>2, JoinCuts
    <3> HIDE DEF v
    <3>6. add_child(R, a) = S
      BY <1>2, <3>4
    <3>7. /\ a \in S /\ (\A x \in R : x # n => x \in S) /\ (v # NoTree => v \in S)
          /\ \A x \in S : x = a \/ (x \in R /\ x # n) \/ (x = v /\ v # NoTree)
      OBVIOUS
    <3>8. IsFiniteSet(S)
      <4>1. IsFiniteSet(R \ {n})
        BY FS_RemoveElement DEF Keeps, Ranges
      <4>2. IsFiniteSet((R \ {n}) \cup {a})
        BY <4>1, FS_AddElement
      <4>3. IsFiniteSet(((R \ {n}) \cup {a}) \cup {v})
        BY <4>2, FS_AddElement
      <4>4. S \in SUBSET (((R \ {n}) \cup {a}) \cup {v})
        OBVIOUS
      <4> HIDE DEF S
      <4> QED
        BY <4>3, <4>4, FS_Subset
    <3> HIDE DEF S
    <3>9. Keeps(o, d, m, A \cup {a}, S)
      BY <3>2, <3>5, <3>7, <3>8, JoinTrim
    <3> QED
      BY <3>6, <3>9
  <2> QED
    BY <2>2, <2>3
<1> QED
  BY <1>4, <1>5, <1>6

------------------------------------------------------------------------------
(* All children of a method                                                 *)

Folds(F, arr, n) == /\ DOMAIN F = 0 .. n /\ F[0] = {}
                    /\ \A k \in 1 .. n : F[k] = add_child(F[k - 1], arr[k])

(* The recursive function my_ranges of no_overlap exists.                   *)
LEMMA FoldExists ==
    ASSUME NEW arr, NEW n \in Nat
    PROVE  \E F : F = [k \in 0 .. n |-> IF k = 0 THEN {} ELSE add_child(F[k - 1], arr[k])]
<1> DEFINE B(F, k) == IF k = 0 THEN {} ELSE add_child(F[k - 1], arr[k])
           Eq(F, j) == F = [k \in 0 .. j |-> B(F, k)]
           I == {j \in Nat : \E F : Eq(F, j)}
<1>1. 0 \in I
  <2> DEFINE F == [k \in 0 .. 0 |-> {}]
  <2>1. F = [k \in 0 .. 0 |-> B(F, k)]
    <3>1. \A k \in 0 .. 0 : B(F, k) = {}
      OBVIOUS
    <3> HIDE DEF B
    <3> QED
      BY <3>1
  <2> HIDE DEF F, B
  <2> QED
    BY <2>1
<1>2. ASSUME NEW j \in Nat, j \in I PROVE j + 1 \in I
  <2>1. PICK F : Eq(F, j)
    BY <1>2
  <2> DEFINE H == [k \in 0 .. j + 1 |-> IF k = j + 1 THEN add_child(F[j], arr[j + 1]) ELSE F[k]]
  <2>2. ASSUME NEW k \in 0 .. j + 1 PROVE H[k] = B(H, k)
    <3>1. CASE k = j + 1
      <4>1. k # 0 /\ k - 1 = j /\ j \in 0 .. j + 1 /\ j # j + 1
        BY <3>1
      <4>2. H[k] = add_child(F[j], arr[k]) /\ H[j] = F[j]
        BY <3>1, <4>1
      <4> HIDE DEF H
      <4> QED
        BY <4>1, <4>2
    <3>2. CASE k # j + 1
      <4>1. k \in 0 .. j /\ (k # 0 => k - 1 \in 0 .. j + 1 /\ k - 1 # j + 1)
        BY <3>2
      <4>2. H[k] = F[k] /\ (k # 0 => H[k - 1] = F[k - 1])
        BY <3>2, <4>1
      <4>3. F[k] = B(F, k)
        <5> HIDE DEF B
        <5> QED
          BY <2>1, <4>1
      <4> HIDE DEF H
      <4> QED
        BY <4>2, <4>3
    <3> QED
      BY <3>1, <3>2
  <2>3. Eq(H, j + 1)
    <3>1. H = [k \in 0 .. j + 1 |-> H[k]]
      OBVIOUS
    <3> HIDE DEF H, B
    <3> QED
      BY <2>2, <3>1
  <2> HIDE DEF H, Eq
  <2> QED
    BY <2>3
<1>3. n \in I
  <2> HIDE DEF I
  <2> QED
    BY <1>1, <1>2, SetInduction
<1> QED
  BY <1>3

(* no_overlap adds the children one by one.                                 *)
LEMMA FoldStep ==
    ASSUME NEW arr, Len(arr) \in Nat
    PROVE  \E F : Folds(F, arr, Len(arr)) /\ no_overlap(arr) = Sorted(F[Len(arr)])
<1> DEFINE F == CHOOSE f : f = [k \in 0 .. Len(arr) |-> IF k = 0 THEN {} ELSE add_child(f[k - 1], arr[k])]
<1>1. F = [k \in 0 .. Len(arr) |-> IF k = 0 THEN {} ELSE add_child(F[k - 1], arr[k])]
  BY FoldExists, Zenon
<1>2. no_overlap(arr) = Sorted(F[Len(arr)])
  BY Zenon DEF no_overlap
<1> HIDE DEF F
<1>3. Folds(F, arr, Len(arr))
  <2>1. DOMAIN F = 0 .. Len(arr) /\ \A k \in 0 .. Len(arr) : F[k] = IF k = 0 THEN {}
          ELSE add_child(F[k - 1], arr[k])
    BY <1>1
  <2>2. \A k \in 1 .. Len(arr) : k \in 0 .. Len(arr) /\ k # 0
    OBVIOUS
  <2>3. 0 \in 0 .. Len(arr)
    OBVIOUS
  <2> QED
    BY <2>1, <2>2, <2>3 DEF Folds
<1> QED
  BY <1>2, <1>3

(* The children of method m: what was made of its own children, then its    *)
(* runs; no index belongs to two of them.                                   *)
Children(o, d, m, arr) ==
    /\ Len(arr) \in Nat
    /\ \A k \in 1 .. Len(arr) : arr[k] = NoTree \/ (Item(o, d, m, arr[k]) /\ Whole(o, m, arr[k]))
    /\ \A j, k \in 1 .. Len(arr) : j < k /\ arr[j] # NoTree /\ arr[k] # NoTree =>
           /\ \A i \in KeptBy(o, m, arr[k]) : i \notin KeptBy(o, m, arr[j])
           /\ arr[j].kids = <<>> => arr[k].kids = <<>>

Former(arr, k) == {arr[j] : j \in 1 .. k} \ {NoTree}

(* It fails its assertion or keeps what was compared of all of them.        *)
LEMMA FoldKeeps ==
    ASSUME NEW o, NEW d \in Depths, NEW m, NEW arr, Children(o, d, m, arr), NEW F, Folds(F, arr, Len(arr))
    PROVE  F[Len(arr)] = {AssertionFails} \/ Keeps(o, d, m, Former(arr, Len(arr)), F[Len(arr)])
<1> DEFINE N == Len(arr)
           OK(k) == F[k] = {AssertionFails} \/ Keeps(o, d, m, Former(arr, k), F[k])
           I == {k \in Nat : k <= N => OK(k)}
<1>1. N \in Nat
  BY DEF Children
<1>2. 0 \in I
  <2>1. F[0] = {} /\ Former(arr, 0) = {}
    BY DEF Folds, Former
  <2>2. Keeps(o, d, m, {}, {})
    BY FS_EmptySet DEF Keeps, Ranges, Disjoint
  <2> QED
    BY <2>1, <2>2
<1>3. ASSUME NEW j \in Nat, j \in I PROVE j + 1 \in I
  <2> DEFINE k == j + 1
             a == arr[k]
  <2>1. SUFFICES ASSUME k <= N PROVE OK(k)
    OBVIOUS
  <2>2. OK(j) /\ k \in 1 .. N /\ k - 1 = j
    BY <1>1, <1>3, <2>1
  <2>3. F[k] = add_child(F[j], a)
    BY <2>2 DEF Folds
  <2>4. \A i \in 1 .. k : i \in 1 .. j \/ i = k
    OBVIOUS
  <2>5. \A i \in 1 .. j : i \in 1 .. N /\ i < k /\ i \in 1 .. k
    BY <2>2
  <2>6. k \in 1 .. k
    OBVIOUS
  <2>7. a # NoTree => Former(arr, k) = Former(arr, j) \cup {a}
    <3> HIDE DEF k
    <3> QED
      BY <2>4, <2>5, <2>6 DEF Former
  <2>8. a = NoTree => Former(arr, k) = Former(arr, j)
    <3> HIDE DEF k
    <3> QED
      BY <2>4, <2>5, <2>6 DEF Former
  <2> HIDE DEF k, I
  <2>9. CASE a = NoTree
    <3>1. F[k] = F[j]
      BY <2>3, <2>9, Zenon DEF add_child
    <3> QED
      BY <2>2, <2>8, <2>9, <3>1
  <2>10. CASE a # NoTree /\ AssertionFails \in F[j]
    <3>1. F[k] = F[j]
      BY <2>3, <2>10, Zenon DEF add_child
    <3>2. ~Keeps(o, d, m, Former(arr, j), F[j])
      <4>1. AssertionFails.s = 0
        BY DEF AssertionFails, Leaf
      <4>2. \A x : Item(o, d, m, x) => 1 <= x.s
        BY DEF Item, Pos
      <4> QED
        BY <2>10, <4>1, <4>2 DEF Keeps
    <3> QED
      BY <2>2, <3>1, <3>2
  <2>11. CASE a # NoTree /\ AssertionFails \notin F[j]
    <3> DEFINE A == Former(arr, j)
    <3>1. Keeps(o, d, m, A, F[j])
      BY <2>2, <2>11
    <3>2. Joins(o, d, m, A, a)
      <4>1. Item(o, d, m, a) /\ Whole(o, m, a)
        BY <2>2, <2>11 DEF Children
      <4>2. ASSUME NEW b \in A
            PROVE  HasRange(b) /\ (\A i \in KeptBy(o, m, a) : i \notin KeptBy(o, m, b)) /\ (b.kids = <<>>
                    => a.kids = <<>>)
        <5>1. PICK i \in 1 .. j : arr[i] = b /\ b # NoTree
          BY DEF Former
        <5>2. i \in 1 .. N /\ i < k
          BY <2>5
        <5>3. Item(o, d, m, b)
          BY <5>1, <5>2 DEF Children
        <5>4. /\ \A h \in KeptBy(o, m, a) : h \notin KeptBy(o, m, b)
              /\ b.kids = <<>> => a.kids = <<>>
          BY <2>2, <2>11, <5>1, <5>2 DEF Children
        <5> QED
          BY <5>3, <5>4 DEF Item
      <4> QED
        BY <4>1, <4>2 DEF Joins
    <3> HIDE DEF A, a
    <3>3. add_child(F[j], a) = {AssertionFails} \/ Keeps(o, d, m, A \cup {a}, add_child(F[j], a))
      BY <3>1, <3>2, AddChild
    <3> QED
      BY <2>3, <2>7, <2>11, <3>3 DEF A
  <2> QED
    BY <2>9, <2>10, <2>11
<1>4. N \in I
  <2> HIDE DEF I, N
  <2> QED
    BY <1>1, <1>2, <1>3, SetInduction
<1> QED
  BY <1>1, <1>4

------------------------------------------------------------------------------
(* What lies between the children                                           *)

Lined(q, R) == InOrder(q, R) /\ \A i, j \in 1 .. Len(q) : i < j => q[i].e < q[j].s

Holes(q) == {j \in 2 .. Len(q) : q[j].s # q[j - 1].e + 1}
Gap(q, k) == Leaf(q[k - 1].e + 1, q[k].s - 1)
Gaps(q)  == {Gap(q, k) : k \in Holes(q)}

(* Every node of the row is before the gap or after it.                     *)
Between(q, k) == /\ HasRange(Gap(q, k)) /\ Gap(q, k).mid = 0 /\ Gap(q, k).kids = <<>>
                 /\ Gap(q, k).s = q[k - 1].e + 1 /\ Gap(q, k).e = q[k].s - 1
                 /\ \A i \in 1 .. Len(q) : i < k => q[i].e < Gap(q, k).s
                 /\ \A i \in 1 .. Len(q) : i >= k => Gap(q, k).e < q[i].s

(* Children in a line, one by one.                                          *)
LEMMA LinedFacts ==
    ASSUME NEW R, NEW q, Ranges(R), Lined(q, R)
    PROVE  /\ Len(q) \in Nat
           /\ \A i \in 1 .. Len(q) : q[i] \in R /\ q[i].s \in Int /\ q[i].e \in Int /\ q[i].s <= q[i].e
           /\ \A i, j \in 1 .. Len(q) : i < j => q[i].e < q[j].s
           /\ \A x \in R : \E i \in 1 .. Len(q) : q[i] = x
BY DEF Lined, InOrder, Ranges, HasRange

(* A gap that filled fills lies between two neighbouring children.          *)
LEMMA GapFacts ==
    ASSUME NEW R, NEW q, Ranges(R), Lined(q, R), NEW k \in Holes(q)
    PROVE  Between(q, k)
<1> DEFINE g == Gap(q, k)
<1>1. Len(q) \in Nat /\ (\A i \in 1 .. Len(q) : q[i].s \in Int /\ q[i].e \in Int /\ q[i].s <= q[i].e)
      /\ \A i, j \in 1 .. Len(q) : i < j => q[i].e < q[j].s
  BY LinedFacts
<1>2. k \in 1 .. Len(q) /\ k - 1 \in 1 .. Len(q) /\ k - 1 < k /\ q[k].s # q[k - 1].e + 1
  BY <1>1 DEF Holes
<1>3. g.mid = 0 /\ g.kids = <<>> /\ g.s = q[k - 1].e + 1 /\ g.e = q[k].s - 1
  BY DEF Gap, Leaf
<1> HIDE DEF g
<1>4. HasRange(g)
  <2>1. q[k].s \in Int /\ q[k - 1].e \in Int /\ q[k - 1].e < q[k].s
    BY <1>1, <1>2
  <2> QED
    BY <1>2, <1>3, <2>1 DEF HasRange
<1>5. ASSUME NEW i \in 1 .. Len(q), i < k PROVE q[i].e < g.s
  <2>1. i = k - 1 \/ i < k - 1
    BY <1>2, <1>5
  <2>2. i < k - 1 => q[i].e < q[k - 1].s
    BY <1>1, <1>2
  <2> QED
    BY <1>1, <1>2, <1>3, <2>1, <2>2
<1>6. ASSUME NEW i \in 1 .. Len(q), i >= k PROVE g.e < q[i].s
  <2>1. i = k \/ k < i
    BY <1>2, <1>6
  <2>2. k < i => q[k].e < q[i].s
    BY <1>1, <1>2
  <2> QED
    BY <1>1, <1>2, <1>3, <2>1, <2>2
<1> QED
  BY <1>3, <1>4, <1>5, <1>6 DEF Between, g

(* A piece of the input is a node over any set.                             *)
LEMMA LeafOver == \A s, e \in Int : Leaf(s, e) \in NodesOver({})
<1> TAKE s, e \in Int
<1>1. <<>> \in Seq({})
  BY EmptySeq
<1> QED
  BY <1>1 DEF NodesOver, Leaf

(* Two gaps are apart, with a node between them.                            *)
LEMMA GapsApart ==
    ASSUME NEW R, NEW q, Ranges(R), Lined(q, R), NEW k \in Holes(q), NEW l \in Holes(q), k < l
    PROVE  Gap(q, k).e + 1 < Gap(q, l).s
<1>1. Len(q) \in Nat /\ \A i \in 1 .. Len(q) : q[i].s \in Int /\ q[i].e \in Int /\ q[i].s <= q[i].e
  BY LinedFacts
<1>2. Between(q, k) /\ Between(q, l)
  BY GapFacts
<1>3. k \in 1 .. Len(q)
  BY <1>1 DEF Holes
<1>4. Gap(q, k).e = q[k].s - 1 /\ q[k].e < Gap(q, l).s /\ HasRange(Gap(q, l))
  BY <1>2, <1>3 DEF Between
<1>5. q[k].s \in Int /\ q[k].e \in Int /\ q[k].s <= q[k].e
  BY <1>1, <1>3
<1> QED
  BY <1>4, <1>5 DEF HasRange

(* The children and the gaps do not overlap.                                *)
LEMMA FilledRanges ==
    ASSUME NEW R, NEW q, Ranges(R), Lined(q, R)
    PROVE  Ranges(R \cup Gaps(q))
<1> DEFINE U == R \cup Gaps(q)
<1>1. Len(q) \in Nat /\ (\A i \in 1 .. Len(q) : q[i].s \in Int /\ q[i].e \in Int /\ q[i].s <= q[i].e)
      /\ \A x \in R : \E i \in 1 .. Len(q) : q[i] = x
  BY LinedFacts
<1>2. \A k \in Holes(q) : Between(q, k) /\ k \in Int
  BY GapFacts, <1>1 DEF Holes
<1>3. IsFiniteSet(U)
  <2>1. IsFiniteSet(Holes(q))
    <3>1. IsFiniteSet(2 .. Len(q))
      BY <1>1, FS_Interval
    <3>2. Holes(q) \in SUBSET (2 .. Len(q))
      BY DEF Holes
    <3> QED
      BY <3>1, <3>2, FS_Subset
  <2> DEFINE f == [k \in Holes(q) |-> Gap(q, k)]
  <2>2. f \in Surjection(Holes(q), Gaps(q))
    BY DEF Surjection, Gaps
  <2> HIDE DEF f
  <2>3. IsFiniteSet(Gaps(q))
    BY <2>1, <2>2, FS_Surjection
  <2> QED
    BY <2>3, FS_Union DEF Ranges
<1>4. \A x \in U : HasRange(x)
  BY <1>2 DEF Ranges, Gaps, Between
<1>5. ASSUME NEW x \in R, NEW k \in Holes(q) PROVE x.e < Gap(q, k).s \/ Gap(q, k).e < x.s
  <2>1. PICK i \in 1 .. Len(q) : q[i] = x
    BY <1>1
  <2>2. i < k \/ i >= k
    BY <1>2
  <2> QED
    BY <1>2, <2>1, <2>2 DEF Between
<1>6. ASSUME NEW k \in Holes(q), NEW l \in Holes(q), Gap(q, k) # Gap(q, l)
      PROVE  Gap(q, k).e < Gap(q, l).s \/ Gap(q, l).e < Gap(q, k).s
  <2>1. k < l \/ l < k
    BY <1>2, <1>6
  <2>2. HasRange(Gap(q, k)) /\ HasRange(Gap(q, l))
    BY <1>2 DEF Between
  <2>3. k < l => Gap(q, k).e + 1 < Gap(q, l).s
    BY GapsApart
  <2>4. l < k => Gap(q, l).e + 1 < Gap(q, k).s
    BY GapsApart
  <2> QED
    BY <2>1, <2>2, <2>3, <2>4 DEF HasRange
<1>7. Disjoint(U)
  <2> SUFFICES ASSUME NEW x \in U, NEW y \in U, x # y PROVE x.e < y.s \/ y.e < x.s
    BY DEF Disjoint
  <2>1. x \in R \/ \E k \in Holes(q) : x = Gap(q, k)
    BY DEF Gaps
  <2>2. y \in R \/ \E k \in Holes(q) : y = Gap(q, k)
    BY DEF Gaps
  <2>3. CASE x \in R /\ y \in R
    BY <2>3 DEF Ranges, Disjoint
  <2> QED
    BY <1>5, <1>6, <2>1, <2>2, <2>3
<1> QED
  BY <1>3, <1>4, <1>7 DEF Ranges

(* Together they leave nothing out.                                         *)
LEMMA FilledTiles ==
    ASSUME NEW R, NEW q, Ranges(R), Lined(q, R), NEW n, Spans(n, R \cup Gaps(q)), Len(q) # 0
    PROVE  Tiles(R \cup Gaps(q), n.s, n.e)
<1> DEFINE U == R \cup Gaps(q)
           At(p) == \E x \in U : x.s <= p /\ p <= x.e
           S == {k \in Nat : k \in 1 .. Len(q) => \A p \in q[1].s .. q[k].e : At(p)}
<1>1. Len(q) \in Nat /\ (\A i \in 1 .. Len(q) : q[i] \in R /\ q[i].s \in Int /\ q[i].e \in Int
        /\ q[i].s <= q[i].e)
      /\ (\A i, j \in 1 .. Len(q) : i < j => q[i].e < q[j].s)
      /\ \A x \in R : \E i \in 1 .. Len(q) : q[i] = x
  BY LinedFacts
<1>2. 1 \in 1 .. Len(q) /\ Len(q) \in 1 .. Len(q)
  BY <1>1
<1>3. 1 \in S
  <2>1. \A p \in q[1].s .. q[1].e : q[1].s <= p /\ p <= q[1].e
    BY <1>1, <1>2
  <2> QED
    BY <1>1, <1>2, <2>1
<1>4. ASSUME NEW k \in 1 .. Len(q) - 1, k \in S PROVE k + 1 \in S
  <2>1. k \in 1 .. Len(q) /\ k + 1 \in 1 .. Len(q) /\ k + 1 \in Nat /\ k < k + 1 /\ k + 1 - 1 = k
    BY <1>1
  <2>2. SUFFICES ASSUME NEW p \in q[1].s .. q[k + 1].e PROVE At(p)
    BY <2>1
  <2>3. /\ p \in Int /\ q[1].s <= p /\ p <= q[k + 1].e
        /\ q[k].s \in Int /\ q[k].e \in Int /\ q[k + 1].s \in Int /\ q[k + 1].e \in Int
              /\ q[k].e < q[k + 1].s
        /\ q[1].s \in Int /\ q[k + 1] \in R
    BY <1>1, <1>2, <2>1
  <2>4. CASE p <= q[k].e
    <3>1. p \in q[1].s .. q[k].e
      BY <2>3, <2>4
    <3> QED
      BY <1>4, <2>1, <3>1
  <2>5. CASE q[k + 1].s <= p
    BY <2>3, <2>5
  <2>6. CASE q[k].e < p /\ p < q[k + 1].s
    <3> DEFINE l == k + 1
    <3>1. l \in Holes(q)
      BY <1>1, <2>1, <2>3, <2>6 DEF Holes
    <3>2. Between(q, l)
      BY <3>1, GapFacts
    <3>3. Gap(q, l).s = q[k].e + 1 /\ Gap(q, l).e = q[l].s - 1
      BY <2>1, <3>2 DEF Between
    <3>4. Gap(q, l) \in U
      BY <3>1 DEF Gaps
    <3>5. Gap(q, l).s <= p /\ p <= Gap(q, l).e
      BY <2>3, <2>6, <3>3
    <3> QED
      BY <3>4, <3>5, Zenon
  <2> QED
    BY <2>3, <2>4, <2>5, <2>6
<1>5. Len(q) \in S
  <2>1. 1 \in Int /\ Len(q) \in Int
    BY <1>1
  <2> HIDE DEF S
  <2> QED
    BY <1>2, <1>3, <1>4, <2>1, IntervalInduction
<1>6. \A x \in U : q[1].s <= x.s /\ x.e <= q[Len(q)].e
  <2>1. ASSUME NEW i \in 1 .. Len(q) PROVE q[1].s <= q[i].s /\ q[i].e <= q[Len(q)].e
    <3>1. (i = 1 \/ 1 < i) /\ (i = Len(q) \/ i < Len(q))
      BY <1>1
    <3>2. 1 < i => q[1].e < q[i].s
      BY <1>1, <1>2
    <3>3. i < Len(q) => q[i].e < q[Len(q)].s
      BY <1>1, <1>2
    <3> QED
      <4>1. 1 \in 1 .. Len(q) /\ Len(q) \in 1 .. Len(q)
        BY <1>1
      <4>2. q[1].s \in Int /\ q[1].e \in Int /\ q[1].s <= q[1].e /\ q[Len(q)].s \in Int
            /\ q[Len(q)].e \in Int /\ q[Len(q)].s <= q[Len(q)].e
        BY <1>1, <1>2, <4>1, SMTT(20)
      <4>3. q[i].s \in Int /\ q[i].e \in Int /\ q[i].s <= q[i].e
        BY <1>1, <1>2
      <4> QED
        BY <3>1, <3>2, <3>3, <4>2, <4>3
  <2>2. \A x \in R : q[1].s <= x.s /\ x.e <= q[Len(q)].e
    BY <1>1, <2>1
  <2>3. ASSUME NEW k \in Holes(q) PROVE q[1].s <= Gap(q, k).s /\ Gap(q, k).e <= q[Len(q)].e
    <3>1. Between(q, k) /\ 1 < k /\ k <= Len(q)
      BY <1>1, GapFacts DEF Holes
    <3>2. q[1].e < Gap(q, k).s /\ Gap(q, k).e < q[Len(q)].s /\ HasRange(Gap(q, k))
      BY <1>2, <3>1 DEF Between
    <3> QED
      BY <1>1, <1>2, <3>2 DEF HasRange
  <2> QED
    BY <2>2, <2>3 DEF Gaps
<1>7. n.s = q[1].s /\ n.e = q[Len(q)].e
  <2>1. q[1] \in U /\ q[Len(q)] \in U
    BY <1>1, <1>2
  <2>2. q[1].s <= n.s /\ n.e <= q[Len(q)].e /\ n.s <= q[1].s /\ q[Len(q)].e <= n.e /\ HasRange(n)
    BY <1>6, <2>1 DEF Spans
  <2> QED
    BY <1>1, <1>2, <2>2 DEF HasRange
<1>8. \A p \in q[1].s .. q[Len(q)].e : At(p)
  BY <1>2, <1>5
<1> QED
  BY <1>6, <1>7, <1>8 DEF Tiles

(* No two neighbours among the children and the gaps are one's own runs.    *)
LEMMA FilledMaximal ==
    ASSUME NEW o, NEW d, NEW m, NEW R, NEW q, Ranges(R), Lined(q, R), \A x \in R : Item(o, d, m, x)
    PROVE  Maximal(o, m, R \cup Gaps(q))
<1> DEFINE U == R \cup Gaps(q)
<1> SUFFICES ASSUME NEW a \in U, NEW b \in U, a.mid = 0, b.mid = 0, b.s = a.e + 1
             PROVE  \E i \in a.s .. b.e : i \in Pos /\ o[i] # m
  BY DEF Maximal
<1>1. HasRange(a) /\ HasRange(b)
  BY FilledRanges DEF Ranges
<1>2. b.s \in a.s .. b.e /\ a.e \in a.s .. b.e /\ a.e = b.s - 1
  BY <1>1 DEF HasRange
<1>3. CASE a \in R
  <2>1. b.s \in Pos => o[b.s] # m
    BY <1>3 DEF Item
  <2>2. b.s \in Pos
    <3>1. CASE b \in R
      BY <3>1 DEF Item
    <3>2. CASE b \notin R
      <4>1. PICK k \in Holes(q) : b = Gap(q, k)
        BY <3>2 DEF Gaps
      <4>2. Between(q, k) /\ k \in 1 .. Len(q) /\ k >= k
        BY GapFacts, LinedFacts DEF Holes
      <4>3. b.e < q[k].s /\ q[k] \in R
        BY <4>1, <4>2, LinedFacts DEF Between
      <4>4. a.e \in Pos /\ q[k].s \in Pos
        BY <1>3, <4>3 DEF Item
      <4> QED
        BY <1>1, <4>3, <4>4, SizeAssumption DEF Pos, HasRange
    <3> QED
      BY <3>1, <3>2
  <2> QED
    BY <1>2, <2>1, <2>2
<1>4. CASE a \notin R /\ b \in R
  <2>1. a.e \in Pos => o[a.e] # m
    BY <1>2, <1>4 DEF Item
  <2>2. a.e \in Pos
    <3>1. PICK k \in Holes(q) : a = Gap(q, k)
      BY <1>4 DEF Gaps
    <3>2. Between(q, k) /\ k - 1 \in 1 .. Len(q) /\ k - 1 < k
      BY GapFacts, LinedFacts DEF Holes
    <3>3. q[k - 1].e < a.s /\ q[k - 1] \in R
      BY <3>1, <3>2, LinedFacts DEF Between
    <3>4. b.s \in Pos /\ q[k - 1].e \in Pos
      BY <1>4, <3>3 DEF Item
    <3> QED
      BY <1>1, <1>2, <3>3, <3>4, SizeAssumption DEF Pos, HasRange
  <2> QED
    BY <1>2, <2>1, <2>2
<1>5. CASE a \notin R /\ b \notin R
  <2>1. PICK k \in Holes(q) : a = Gap(q, k)
    BY <1>5 DEF Gaps
  <2>2. PICK l \in Holes(q) : b = Gap(q, l)
    BY <1>5 DEF Gaps
  <2>3. k \in Int /\ l \in Int
    BY LinedFacts DEF Holes
  <2>4. k < l => a.e + 1 < b.s
    BY <2>1, <2>2, GapsApart
  <2>5. l < k => b.e + 1 < a.s
    BY <2>1, <2>2, GapsApart
  <2>6. k = l => a = b
    BY <2>1, <2>2
  <2> QED
    BY <1>1, <2>3, <2>4, <2>5, <2>6 DEF HasRange
<1> QED
  BY <1>3, <1>4, <1>5

(* The tree of method m, made of children A.                                *)
Grown(o, d, m, A, n) ==
    /\ n \in Level(d) /\ Good(o, n) /\ n.mid = m /\ n.kids # <<>> /\ HasRange(n)
    /\ n.s \in Kept(o, n) /\ n.e \in Kept(o, n)
    /\ \A i \in Kept(o, n) : o[i] = m \/ \E b \in A : i \in KeptBy(o, m, b)
    /\ \A b \in A : n.s <= b.s /\ b.e <= n.e

(* The node of the children and the gaps is good, and keeps what was        *)
(* compared.                                                                *)
LEMMA FilledGrown ==
    ASSUME NEW o, NEW d \in Depths, d + 1 \in Depths, NEW m \in Nat \ {0}, NEW A, NEW R, NEW q, Lined(q, R),
           Keeps(o, d, m, A, R), A # {}
    PROVE  Grown(o, d + 1, m, A, Node(m, Sorted(R \cup Gaps(q))))
<1> DEFINE U == R \cup Gaps(q)
           n == Node(m, Sorted(U))
<1>1. Ranges(R) /\ (\A x \in R : Item(o, d, m, x)) /\ Low(o, m, A, R) /\ High(o, m, A, R)
  BY DEF Keeps
<1>2. Ranges(U) /\ Maximal(o, m, U)
  BY <1>1, FilledRanges, FilledMaximal
<1>3. PICK x \in R : x.s \in KeptBy(o, m, x) /\ (\A y \in R : x.s <= y.s) /\ \A b \in A : x.s <= b.s
  BY <1>1 DEF Low
<1>4. PICK y \in R : y.e \in KeptBy(o, m, y) /\ (\A z \in R : z.e <= y.e) /\ \A b \in A : b.e <= y.e
  BY <1>1 DEF High
<1>5. U # {} /\ Len(q) # 0
  <2>1. Len(q) \in Nat /\ \A z \in R : \E i \in 1 .. Len(q) : q[i] = z
    BY <1>1, LinedFacts
  <2>2. PICK i \in 1 .. Len(q) : q[i] = x
    BY <2>1
  <2> QED
    BY <2>1, <2>2
<1> HIDE DEF U
<1>6. Spans(n, U) /\ n.mid = m /\ n.kids = Sorted(U) /\ Sorted(U) # <<>>
  BY <1>2, <1>5, NodeSpans
<1>7. Tiles(U, n.s, n.e)
  BY <1>1, <1>5, <1>6, FilledTiles DEF U
<1>8. Row(n)
  BY <1>2, <1>5, <1>7, NodeRow
<1>9. InOrder(Sorted(U), U) /\ ToSet(Sorted(U)) = U
  BY <1>2, SortedRanges DEF InOrder
<1>10. ASSUME NEW z \in U \ R PROVE z.mid = 0 /\ z.kids = <<>> /\ z \in Level(d) /\ HasRange(z)
                                   /\ (\E u \in R : u.e < z.s) /\ (\E u \in R : z.e < u.s)
  <2>1. PICK k \in Holes(q) : z = Gap(q, k)
    BY DEF Gaps, U
  <2>2. Between(q, k) /\ k - 1 \in 1 .. Len(q) /\ k - 1 < k /\ k \in 1 .. Len(q) /\ k >= k
    BY <1>1, GapFacts, LinedFacts DEF Holes
  <2>3. z.mid = 0 /\ z.kids = <<>> /\ HasRange(z)
    BY <2>1, <2>2 DEF Between
  <2>4. z \in NodesOver({})
    <3>1. z = Leaf(q[k - 1].e + 1, q[k].s - 1)
      BY <2>1 DEF Gap
    <3>2. q[k - 1].e + 1 \in Int /\ q[k].s - 1 \in Int
      <4>1. \A i \in 1 .. Len(q) : q[i].s \in Int /\ q[i].e \in Int
        BY <1>1, LinedFacts, Zenon
      <4>2. q[k - 1].e \in Int /\ q[k].s \in Int
        BY <2>2, <4>1
      <4> QED
        BY <4>2
    <3> QED
      BY <3>1, <3>2, LeafOver, Zenon
  <2>5. q[k - 1] \in R /\ q[k - 1].e < z.s /\ q[k] \in R /\ z.e < q[k].s
    BY <1>1, <2>1, <2>2, LinedFacts DEF Between
  <2> QED
    BY <2>3, <2>4, <2>5, PieceLevel
<1>11. \A z \in R : z \in U
  BY DEF U
<1>12. \A z \in R : z \in Level(d) /\ HasRange(z) /\ (z.mid = 0 <=> z.kids = <<>>) /\ (z.kids # <<>>
        => Good(o, z))
  BY <1>1 DEF Item
<1>13. \A z \in U : z \in Level(d) /\ HasRange(z) /\ (z.mid = 0 <=> z.kids = <<>>) /\ Good(o, z)
  <2>1. \A z \in Level(d) : z.kids = <<>> => Good(o, z)
    BY LeafTree, LevelNodes
  <2> QED
    BY <1>10, <1>12, <2>1
<1>14. HasRange(n) /\ n.s \in Int /\ n.e \in Int
  BY <1>6 DEF Spans, HasRange
<1>15. n.s = x.s
  <2>1. PICK z \in U : n.s = z.s
    BY <1>6 DEF Spans
  <2>2. n.s <= x.s
    BY <1>6, <1>11 DEF Spans
  <2>3. x.s \in Int /\ x.s <= z.s
    <3>1. CASE z \in R
      BY <1>3, <1>12, <3>1 DEF HasRange
    <3>2. CASE z \notin R
      <4>1. PICK u \in R : u.e < z.s
        BY <1>10, <2>1, <3>2
      <4>2. x.s <= u.s /\ HasRange(u) /\ HasRange(x) /\ HasRange(z)
        BY <1>3, <1>12, <1>13, <2>1
      <4> QED
        BY <4>1, <4>2 DEF HasRange
    <3> QED
      BY <3>1, <3>2
  <2> QED
    BY <1>14, <2>1, <2>2, <2>3
<1>16. n.e = y.e
  <2>1. PICK z \in U : n.e = z.e
    BY <1>6 DEF Spans
  <2>2. y.e <= n.e
    BY <1>6, <1>11 DEF Spans
  <2>3. y.e \in Int /\ z.e <= y.e
    <3>1. CASE z \in R
      BY <1>4, <1>12, <3>1 DEF HasRange
    <3>2. CASE z \notin R
      <4>1. PICK u \in R : z.e < u.s
        BY <1>10, <2>1, <3>2
      <4>2. u.e <= y.e /\ HasRange(u) /\ HasRange(y) /\ HasRange(z)
        BY <1>4, <1>12, <1>13, <2>1
      <4> QED
        BY <4>1, <4>2 DEF HasRange
    <3> QED
      BY <3>1, <3>2
  <2> QED
    BY <1>14, <2>1, <2>2, <2>3
<1>17. n.s \in Pos /\ n.e \in Pos
  BY <1>1, <1>15, <1>16 DEF Item
<1>18. Fine(o, n)
  BY <1>2, <1>6, <1>7, <1>8, <1>9, <1>13, <1>17 DEF Fine
<1>19. n \in Level(d + 1)
  <2>1. Sorted(U) \in Seq(Level(d))
    <3>1. U \in SUBSET Level(d)
      BY <1>13
    <3> QED
      BY <1>9, <3>1, SeqMonotonic DEF InOrder
  <2>2. n = [mid |-> m, kids |-> Sorted(U), s |-> n.s, e |-> n.e]
    BY Zenon DEF Node
  <2> HIDE DEF n
  <2>3. n \in NodesOver(Level(d))
    BY <1>14, <2>1, <2>2 DEF NodesOver
  <2>4. Level(d + 1) = NodesOver(Level(d))
    <3>1. d \in Int /\ d + 1 # 0 /\ d + 1 - 1 = d
      BY MethodsAssumption DEF Depths
    <3>2. Below(d + 1) = Level(d)
      BY <3>1 DEF Below
    <3> QED
      BY <3>2, DepthStep
  <2> QED
    BY <2>3, <2>4
<1> HIDE DEF n
<1>20. n \in Nodes /\ ToSet(n.kids) = U
  BY <1>6, <1>9, <1>19, LevelNodes
<1>21. Good(o, n)
  BY <1>13, <1>18, <1>20, GoodStep
<1>22. \A i : i \in Kept(o, n) <=> \E c \in U : i \in KeptBy(o, m, c)
  BY <1>6, <1>20, KeptStep
<1>23. n.s \in Kept(o, n) /\ n.e \in Kept(o, n)
  BY <1>3, <1>4, <1>11, <1>15, <1>16, <1>22
<1>24. ASSUME NEW i \in Kept(o, n) PROVE o[i] = m \/ \E b \in A : i \in KeptBy(o, m, b)
  <2>1. PICK c \in U : i \in KeptBy(o, m, c)
    BY <1>22
  <2>2. CASE c \in R
    BY <2>1, <2>2 DEF Keeps
  <2>3. CASE c \notin R
    <3>1. c.kids = <<>>
      BY <1>10, <2>3
    <3> QED
      BY <2>1, <3>1 DEF KeptBy, IsRun
  <2> QED
    BY <2>2, <2>3
<1> QED
  BY <1>3, <1>4, <1>6, <1>14, <1>15, <1>16, <1>19, <1>21, <1>23, <1>24 DEF Grown, n, U

(* filled adds the gaps and sorts.                                          *)
LEMMA FilledIs ==
    ASSUME NEW R, NEW q, Lined(q, R)
    PROVE  filled(q) = Sorted(R \cup Gaps(q))
<1>1. {Leaf(q[k - 1].e + 1, q[k].s - 1) : k \in {j \in 2 .. Len(q) : q[j].s # q[j - 1].e + 1}} = Gaps(q)
  BY DEF Gaps, Gap, Holes
<1>2. ToSet(q) = R
  BY DEF Lined, InOrder
<1> QED
  BY <1>1, <1>2 DEF filled

(* What tree_of makes of the children of a method.                          *)
LEMMA TreeOf ==
    ASSUME NEW o, NEW d \in Depths, d + 1 \in Depths, NEW m \in Nat \ {0}, NEW idx, NEW nc,
           NEW arr, arr = nc \o indexes_to_children(idx), Children(o, d, m, arr)
    PROVE  \/ tree_of(m, idx, nc) = AssertionFails
           \/ tree_of(m, idx, nc) = NoTree /\ Former(arr, Len(arr)) = {}
           \/ Grown(o, d + 1, m, Former(arr, Len(arr)), tree_of(m, idx, nc))
<1> DEFINE q == no_overlap(arr)
           A == Former(arr, Len(arr))
           t == tree_of(m, idx, nc)
<1>1. Len(arr) \in Nat
  BY DEF Children
<1>2. PICK F : Folds(F, arr, Len(arr)) /\ q = Sorted(F[Len(arr)])
  BY <1>1, FoldStep
<1> DEFINE R == F[Len(arr)]
<1>3. R = {AssertionFails} \/ Keeps(o, d, m, A, R)
  BY <1>2, FoldKeeps
<1>4. t = IF AssertionFails \in ToSet(nc) \cup ToSet(q) THEN AssertionFails
          ELSE IF q = <<>> THEN NoTree ELSE Node(m, filled(q))
  BY DEF tree_of
<1>5. q = Sorted(R)
  BY <1>2
<1> HIDE DEF q, R, t, A
<1>6. CASE R = {AssertionFails}
  <2>1. IsFiniteSet(R) /\ (\A x \in R : x.s \in Int) /\ \A x, y \in R : x.s = y.s => x = y
    <3>1. AssertionFails.s = 0
      BY DEF AssertionFails, Leaf
    <3>2. IsFiniteSet(R)
      BY <1>6, FS_Singleton
    <3> QED
      BY <1>6, <3>1, <3>2
  <2>2. ToSet(q) = R
    BY <1>5, <2>1, SortedFacts DEF InOrder
  <2>3. t = AssertionFails
    BY <1>4, <1>6, <2>2
  <2> QED
    BY <2>3 DEF t
<1>7. CASE Keeps(o, d, m, A, R) /\ A = {}
  <2>1. R = {}
    BY <1>7 DEF Keeps
  <2>2. InOrder(q, R)
    BY <1>5, <1>7, SortedRanges DEF Keeps
  <2>3. q = <<>>
    BY <2>1, <2>2, SeqToSet DEF InOrder
  <2>4. t = AssertionFails \/ t = NoTree
    BY <1>4, <2>3
  <2> QED
    BY <1>7, <2>4 DEF t, A
<1>8. CASE Keeps(o, d, m, A, R) /\ A # {}
  <2>1. Lined(q, R) /\ q # <<>>
    <3>1. Lined(q, R)
      BY <1>5, <1>8, SortedRanges DEF Keeps, Lined
    <3>2. R # {}
      BY <1>8 DEF Keeps, Low
    <3> QED
      BY <3>1, <3>2, SeqToSet DEF Lined, InOrder
  <2>2. t = AssertionFails \/ t = Node(m, Sorted(R \cup Gaps(q)))
    BY <1>4, <2>1, FilledIs
  <2>3. Grown(o, d + 1, m, A, Node(m, Sorted(R \cup Gaps(q))))
    BY <1>8, <2>1, FilledGrown
  <2>4. t = AssertionFails \/ Grown(o, d + 1, m, A, t)
    BY <2>2, <2>3
  <2> QED
    BY <2>4 DEF t, A
<1> QED
  BY <1>3, <1>6, <1>7, <1>8

------------------------------------------------------------------------------
(* The runs of a method                                                     *)

(* idx lists the numbers of K in their order.                               *)
Lists(idx, K) == /\ Len(idx) \in Nat /\ DOMAIN idx = 1 .. Len(idx)
                 /\ \A k \in 1 .. Len(idx) : idx[k] \in K /\ idx[k] \in Int
                 /\ \A j, k \in 1 .. Len(idx) : j < k => idx[j] < idx[k]
                 /\ \A i \in K : \E k \in 1 .. Len(idx) : idx[k] = i

StartsOf(idx) == {k \in DOMAIN idx : k = 1 \/ idx[k] # idx[k - 1] + 1}
Count(idx)    == Cardinality(StartsOf(idx))
st(idx, n)    == nth(StartsOf(idx), n)
en(idx, n)    == IF n = Count(idx) THEN Len(idx) ELSE st(idx, n + 1) - 1

(* The leaf c is a run of numbers of K that cannot be longer.               *)
RunLeaf(K, c) == /\ c.mid = 0 /\ c.kids = <<>> /\ HasRange(c) /\ c \in NodesOver({})
                 /\ \A i \in c.s .. c.e : i \in K
                 /\ c.s - 1 \notin K /\ c.e + 1 \notin K

AreRuns(K, ch) == /\ Len(ch) \in Nat /\ ch = [n \in 1 .. Len(ch) |-> ch[n]]
                  /\ \A n \in 1 .. Len(ch) : RunLeaf(K, ch[n])
                  /\ \A j, n \in 1 .. Len(ch) : j < n => ch[j].e < ch[n].s
                  /\ \A i \in K : \E n \in 1 .. Len(ch) : ch[n].s <= i /\ i <= ch[n].e

(* The starts of the runs of idx, counted in their order.                   *)
LEMMA StartFacts ==
    ASSUME NEW K, NEW idx, Lists(idx, K)
    PROVE  /\ Count(idx) \in Nat
           /\ \A n \in 1 .. Count(idx) : st(idx, n) \in 1 .. Len(idx) /\ st(idx, n) \in StartsOf(idx)
           /\ \A i, j \in 1 .. Count(idx) : i < j => st(idx, i) < st(idx, j)
           /\ \A k \in StartsOf(idx) : \E n \in 1 .. Count(idx) : st(idx, n) = k
<1>1. StartsOf(idx) \in SUBSET (1 .. Len(idx)) /\ Len(idx) \in Nat
  BY DEF StartsOf, Lists
<1>2. IsFiniteSet(StartsOf(idx)) /\ StartsOf(idx) \in SUBSET Int
  <2>1. IsFiniteSet(1 .. Len(idx)) /\ 1 .. Len(idx) \subseteq Int
    BY <1>1, FS_Interval
  <2> QED
    BY <1>1, <2>1, FS_Subset
<1>3. Cardinality(StartsOf(idx)) \in Nat /\ Ranked(StartsOf(idx), Cardinality(StartsOf(idx)))
  BY <1>2, NthFacts
<1> QED
  BY <1>1, <1>3 DEF Ranked, Count, st

(* From a start to its end the numbers are neighbours.                      *)
LEMMA RunFacts ==
    ASSUME NEW K, NEW idx, Lists(idx, K), NEW n \in 1 .. Count(idx)
    PROVE  /\ st(idx, n) <= en(idx, n) /\ en(idx, n) \in 1 .. Len(idx)
           /\ \A k \in st(idx, n) .. en(idx, n) : idx[k] = idx[st(idx, n)] + (k - st(idx, n))
           /\ \A j \in 1 .. Count(idx) : j < n => en(idx, j) < st(idx, n)
<1> DEFINE C == Count(idx)
           a == st(idx, n)
           b == en(idx, n)
<1>1. /\ C \in Nat /\ (\A i \in 1 .. C : st(idx, i) \in 1 .. Len(idx))
      /\ (\A i, j \in 1 .. C : i < j => st(idx, i) < st(idx, j))
      /\ \A k \in StartsOf(idx) : \E i \in 1 .. C : st(idx, i) = k
  BY StartFacts
<1>2. Len(idx) \in Nat /\ DOMAIN idx = 1 .. Len(idx) /\ \A k \in 1 .. Len(idx) : idx[k] \in Int
  BY DEF Lists
<1>3. n # C => n + 1 \in 1 .. C /\ n < n + 1
  BY <1>1
<1>4. a \in 1 .. Len(idx)
  BY <1>1
<1>5. n # C => b = st(idx, n + 1) - 1 /\ st(idx, n + 1) \in 1 .. Len(idx) /\ a < st(idx, n + 1)
  BY <1>1, <1>3 DEF en
<1>6. n = C => b = Len(idx)
  BY DEF en
<1>7. a <= b /\ b \in 1 .. Len(idx)
  <2> HIDE DEF a, b, C
  <2> QED
    BY <1>2, <1>4, <1>5, <1>6
<1>8. ASSUME NEW k \in StartsOf(idx), a < k PROVE b < k
  <2>1. PICK i \in 1 .. C : st(idx, i) = k
    BY <1>1
  <2>2. k \in 1 .. Len(idx)
    BY <1>1, <2>1
  <2>3. n < i
    <3>1. i # n
      BY <1>4, <1>8, <2>1, <2>2
    <3>2. ~(i < n)
      <4>1. i < n => k < a
        BY <1>1, <2>1
      <4> QED
        BY <1>4, <1>8, <2>2, <4>1
    <3> QED
      BY <1>1, <3>1, <3>2
  <2>4. n # C /\ (i = n + 1 \/ n + 1 < i)
    BY <1>1, <2>3
  <2>5. n + 1 < i => st(idx, n + 1) < k
    BY <1>1, <1>3, <2>1, <2>4
  <2>6. i = n + 1 => st(idx, n + 1) = k
    BY <2>1
  <2> QED
    BY <1>5, <2>2, <2>4, <2>5, <2>6
<1>9. ASSUME NEW j \in 1 .. C, j < n PROVE en(idx, j) < a
  <2>1. j # C /\ j + 1 \in 1 .. C /\ (j + 1 = n \/ j + 1 < n)
    BY <1>1, <1>9
  <2>2. en(idx, j) = st(idx, j + 1) - 1 /\ st(idx, j + 1) \in 1 .. Len(idx)
    BY <1>1, <2>1 DEF en
  <2>3. j + 1 < n => st(idx, j + 1) < a
    BY <1>1, <2>1
  <2>4. j + 1 = n => st(idx, j + 1) = a
    OBVIOUS
  <2> QED
    BY <1>4, <2>1, <2>2, <2>3, <2>4
<1> DEFINE S == {k \in Int : k \in a .. b => idx[k] = idx[a] + (k - a)}
<1> HIDE DEF a, b, C
<1>10. a \in S
  BY <1>2, <1>4
<1>11. ASSUME NEW k \in a .. b - 1, k \in S PROVE k + 1 \in S
  <2>1. k \in a .. b /\ k + 1 \in 1 .. Len(idx) /\ k \in 1 .. Len(idx) /\ a < k + 1 /\ k + 1 <= b
          /\ k + 1 # 1 /\ k + 1 - 1 = k
    BY <1>2, <1>4, <1>7
  <2>2. k + 1 \notin StartsOf(idx)
    <3>1. b \in Int /\ k + 1 \in Int /\ ~(b < k + 1)
      BY <1>7, <2>1
    <3> QED
      BY <1>8, <2>1, <3>1
  <2>3. idx[k + 1] = idx[k] + 1
    BY <1>2, <2>1, <2>2 DEF StartsOf
  <2>4. idx[k] = idx[a] + (k - a)
    BY <1>11, <2>1
  <2>5. idx[k + 1] = idx[a] + ((k + 1) - a)
    BY <1>2, <1>4, <2>1, <2>3, <2>4
  <2> QED
    BY <2>1, <2>5
<1>12. \A k \in a .. b : k \in S
  <2>1. a \in Int /\ b \in Int
    BY <1>4, <1>7
  <2> HIDE DEF S
  <2> QED
    BY <1>10, <1>11, <2>1, IntervalInduction
<1>13. \A k \in a .. b : idx[k] = idx[a] + (k - a)
  BY <1>12
<1> QED
  BY <1>7, <1>9, <1>13 DEF a, b, C

(* indexes_to_children lists the runs of the indexes that cannot be longer. *)
LEMMA RunsAre ==
    ASSUME NEW K, NEW idx, Lists(idx, K)
    PROVE  AreRuns(K, indexes_to_children(idx))
<1> DEFINE C == Count(idx)
           ch == indexes_to_children(idx)
           S(n) == st(idx, n)
           E(n) == en(idx, n)
<1>1. ch = [n \in 1 .. C |-> Leaf(idx[S(n)], idx[E(n)])]
  BY DEF indexes_to_children, Count, st, en, StartsOf
<1>2. /\ C \in Nat /\ (\A n \in 1 .. C : S(n) \in 1 .. Len(idx) /\ S(n) \in StartsOf(idx))
      /\ \A k \in StartsOf(idx) : \E n \in 1 .. C : S(n) = k
  BY StartFacts
<1>3. /\ Len(idx) \in Nat /\ DOMAIN idx = 1 .. Len(idx)
      /\ (\A k \in 1 .. Len(idx) : idx[k] \in K /\ idx[k] \in Int)
      /\ (\A j, k \in 1 .. Len(idx) : j < k => idx[j] < idx[k])
      /\ \A i \in K : \E k \in 1 .. Len(idx) : idx[k] = i
  BY DEF Lists
<1>4. \A n \in 1 .. C : /\ S(n) <= E(n) /\ E(n) \in 1 .. Len(idx)
                        /\ \A k \in S(n) .. E(n) : idx[k] = idx[S(n)] + (k - S(n))
                        /\ \A j \in 1 .. C : j < n => E(j) < S(n)
  BY RunFacts
<1>5. \A n \in 1 .. C : n # C => E(n) = S(n + 1) - 1 /\ n + 1 \in 1 .. C
  BY <1>2 DEF en
<1>6. E(C) = Len(idx)
  BY DEF en
<1>7. Len(ch) = C /\ ch = [n \in 1 .. C |-> ch[n]]
  <2> HIDE DEF C
  <2> QED
    BY <1>1, <1>2
<1>8. \A n \in 1 .. C : ch[n] = Leaf(idx[S(n)], idx[E(n)])
  <2> HIDE DEF C
  <2> QED
    BY <1>1
<1>9. \A n \in 1 .. C : ch[n].mid = 0 /\ ch[n].kids = <<>> /\ ch[n].s = idx[S(n)] /\ ch[n].e = idx[E(n)]
  <2> HIDE DEF ch, S, E, C
  <2>1. \A s, e : Leaf(s, e).mid = 0 /\ Leaf(s, e).kids = <<>> /\ Leaf(s, e).s = s /\ Leaf(s, e).e = e
    BY DEF Leaf
  <2> QED
    BY <1>8, <2>1
<1> HIDE DEF C, ch, S, E
<1>10. ASSUME NEW n \in 1 .. C PROVE RunLeaf(K, ch[n])
  <2>1. S(n) \in 1 .. Len(idx) /\ E(n) \in 1 .. Len(idx) /\ S(n) <= E(n)
    BY <1>2, <1>4
  <2>2. E(n) \in S(n) .. E(n)
    BY <2>1
  <2>3. idx[E(n)] = idx[S(n)] + (E(n) - S(n))
    BY <1>4, <2>2
  <2>4. HasRange(ch[n])
    <3>1. idx[S(n)] \in Int /\ idx[E(n)] \in Int /\ S(n) \in Int /\ E(n) \in Int
      BY <1>3, <2>1
    <3>2. idx[S(n)] <= idx[E(n)]
      BY <2>1, <2>3, <3>1
    <3> QED
      BY <1>9, <3>1, <3>2 DEF HasRange
  <2>5. ch[n] \in NodesOver({})
    <3>1. idx[S(n)] \in Int /\ idx[E(n)] \in Int
      BY <1>3, <2>1
    <3> QED
      BY <1>8, <3>1, LeafOver
  <2>6. ASSUME NEW i \in ch[n].s .. ch[n].e PROVE i \in K
    <3> DEFINE k == S(n) + (i - idx[S(n)])
    <3>1. idx[S(n)] \in Int /\ i \in Int /\ idx[S(n)] <= i /\ i <= idx[E(n)]
      BY <1>3, <1>9, <2>1
    <3>2. k \in S(n) .. E(n) /\ k \in 1 .. Len(idx) /\ idx[S(n)] + (k - S(n)) = i
      <4>1. S(n) \in Int /\ E(n) \in Int /\ 1 <= S(n) /\ E(n) <= Len(idx) /\ Len(idx) \in Nat
        BY <1>3, <2>1
      <4>2. S(n) <= k /\ k <= E(n) /\ k \in Int
        BY <2>3, <3>1, <4>1, SMTT(20)
      <4> QED
        BY <3>1, <4>1, <4>2
    <3> HIDE DEF k
    <3>3. idx[k] = i
      BY <1>4, <3>2
    <3> QED
      BY <1>3, <3>2, <3>3
  <2>7. ch[n].s - 1 \notin K
    <3> SUFFICES ASSUME ch[n].s - 1 \in K PROVE FALSE
      OBVIOUS
    <3>1. PICK j \in 1 .. Len(idx) : idx[j] = idx[S(n)] - 1
      BY <1>3, <1>9
    <3>2. j < S(n)
      <4>1. S(n) < j => idx[S(n)] < idx[j]
        BY <1>3, <2>1
      <4>2. idx[S(n)] \in Int /\ idx[j] \in Int
        BY <1>3, <2>1
      <4> QED
        BY <2>1, <3>1, <4>1, <4>2
    <3> DEFINE h == S(n) - 1
    <3>3. h \in 1 .. Len(idx) /\ h < S(n) /\ (j = h \/ j < h)
      <4>1. Len(idx) \in Nat /\ j \in Int /\ 1 <= j /\ S(n) \in Int /\ S(n) <= Len(idx)
        BY <1>3, <2>1
      <4> QED
        BY <3>2, <4>1
    <3>4. idx[h] < idx[S(n)] /\ (j < h => idx[j] < idx[h]) /\ idx[h] \in Int /\ idx[j] \in Int
            /\ idx[S(n)] \in Int
      BY <1>3, <2>1, <3>3
    <3>5. idx[S(n)] # idx[h] + 1
      BY <1>2, <3>2 DEF StartsOf
    <3> HIDE DEF h
    <3> QED
      BY <3>1, <3>3, <3>4, <3>5
  <2>8. ch[n].e + 1 \notin K
    <3> SUFFICES ASSUME ch[n].e + 1 \in K PROVE FALSE
      OBVIOUS
    <3>1. PICK j \in 1 .. Len(idx) : idx[j] = idx[E(n)] + 1
      BY <1>3, <1>9
    <3>2. E(n) < j
      <4>1. j < E(n) => idx[j] < idx[E(n)]
        BY <1>3, <2>1
      <4>2. idx[E(n)] \in Int /\ idx[j] \in Int
        BY <1>3, <2>1
      <4> QED
        BY <2>1, <3>1, <4>1, <4>2
    <3>3. n # C
      BY <1>3, <1>6, <2>1, <3>2
    <3> DEFINE h == S(n + 1)
    <3>4. E(n) = h - 1 /\ h \in 1 .. Len(idx) /\ h \in StartsOf(idx)
      BY <1>2, <1>5, <3>3
    <3> HIDE DEF h
    <3>5. E(n) < h /\ (j = h \/ h < j) /\ h # 1 /\ h - 1 = E(n)
      BY <2>1, <3>2, <3>4
    <3>6. idx[E(n)] < idx[h] /\ (h < j => idx[h] < idx[j]) /\ idx[h] \in Int /\ idx[j] \in Int
            /\ idx[E(n)] \in Int
      BY <1>3, <2>1, <3>4, <3>5
    <3>7. idx[h] # idx[E(n)] + 1
      BY <3>4, <3>5 DEF StartsOf
    <3> QED
      BY <3>1, <3>5, <3>6, <3>7
  <2> QED
    BY <1>9, <2>4, <2>5, <2>6, <2>7, <2>8 DEF RunLeaf
<1>11. ASSUME NEW j \in 1 .. C, NEW n \in 1 .. C, j < n PROVE ch[j].e < ch[n].s
  <2>1. E(j) < S(n) /\ E(j) \in 1 .. Len(idx) /\ S(n) \in 1 .. Len(idx)
    BY <1>2, <1>4, <1>11
  <2> QED
    BY <1>3, <1>9, <2>1
<1> DEFINE T == {k \in Int : k \in 1 .. Len(idx) => \E n \in 1 .. C : S(n) <= k /\ k <= E(n)}
<1>12. 1 \in T
  <2> SUFFICES ASSUME 1 \in 1 .. Len(idx) PROVE \E n \in 1 .. C : S(n) <= 1 /\ 1 <= E(n)
    OBVIOUS
  <2>1. 1 \in StartsOf(idx)
    BY <1>3 DEF StartsOf
  <2>2. PICK n \in 1 .. C : S(n) = 1
    BY <1>2, <2>1
  <2> QED
    BY <1>4, <2>2
<1>13. ASSUME NEW k \in 1 .. Len(idx) - 1, k \in T PROVE k + 1 \in T
  <2>1. k \in 1 .. Len(idx) /\ k + 1 \in Int
    BY <1>3
  <2>2. PICK n \in 1 .. C : S(n) <= k /\ k <= E(n)
    BY <1>13, <2>1
  <2>3. S(n) \in 1 .. Len(idx) /\ E(n) \in 1 .. Len(idx)
    BY <1>2, <1>4
  <2>4. CASE k + 1 <= E(n)
    <3>1. S(n) <= k + 1
      BY <2>1, <2>2, <2>3
    <3> QED
      BY <2>1, <2>4, <3>1
  <2>5. CASE k = E(n)
    <3>1. n # C
      BY <1>3, <1>6, <2>5
    <3>2. E(n) = S(n + 1) - 1 /\ n + 1 \in 1 .. C
      BY <1>5, <3>1
    <3>3. S(n + 1) \in 1 .. Len(idx) /\ S(n + 1) <= E(n + 1)
      BY <1>2, <1>4, <3>2
    <3>4. S(n + 1) = k + 1
      BY <2>5, <3>2, <3>3
    <3>5. S(n + 1) <= k + 1 /\ k + 1 <= E(n + 1)
      BY <3>3, <3>4
    <3> QED
      BY <2>1, <3>2, <3>5
  <2> QED
    BY <2>1, <2>2, <2>3, <2>4, <2>5
<1>14. \A k \in 1 .. Len(idx) : k \in T
  <2>1. 1 \in Int /\ Len(idx) \in Int
    BY <1>3
  <2> HIDE DEF T
  <2> QED
    BY <1>12, <1>13, <2>1, IntervalInduction
<1>15. ASSUME NEW i \in K PROVE \E n \in 1 .. C : ch[n].s <= i /\ i <= ch[n].e
  <2>1. PICK k \in 1 .. Len(idx) : idx[k] = i
    BY <1>3
  <2>2. PICK n \in 1 .. C : S(n) <= k /\ k <= E(n)
    BY <1>14
  <2>3. S(n) \in 1 .. Len(idx) /\ E(n) \in 1 .. Len(idx)
    BY <1>2, <1>4
  <2>4. (S(n) < k => idx[S(n)] < idx[k]) /\ (k < E(n) => idx[k] < idx[E(n)])
    BY <1>3, <2>3
  <2>5. idx[S(n)] \in Int /\ idx[k] \in Int /\ idx[E(n)] \in Int
    BY <1>3, <2>3
  <2>6. idx[S(n)] <= i
    BY <2>1, <2>2, <2>3, <2>4, <2>5
  <2>7. i <= idx[E(n)]
    BY <2>1, <2>2, <2>3, <2>4, <2>5
  <2> QED
    BY <1>9, <2>6, <2>7
<1> QED
  BY <1>2, <1>7, <1>10, <1>11, <1>15 DEF AreRuns, ch

------------------------------------------------------------------------------
(* The calls of the trace                                                   *)

CallsOf(m) == 1 .. Len(method_map[m])

(* A method but main is called once, by a method that was called earlier.   *)
CallTree ==
    /\ Len(method_map) <= MaxMethods
    /\ \A m \in Ids : \A k \in CallsOf(m) : method_map[m][k] \in Ids /\ m < method_map[m][k]
    /\ \A c \in Ids : c # main => \E m \in Ids : \E k \in CallsOf(m) : method_map[m][k] = c
    /\ \A m, n \in Ids : \A j \in CallsOf(m), k \in CallsOf(n) :
           method_map[m][j] = method_map[n][k] => m = n /\ j = k

(* What a call adds to method_map.                                          *)
LEMMA CallAdds ==
    ASSUME TypeInv, Call, NEW h, h = Head(stack), NEW mid, mid = Len(method_map) + 1
    PROVE  /\ mid \in Nat /\ h \in Ids /\ Ids' = Ids \cup {mid} /\ mid \notin Ids
           /\ \A m \in Ids : m < mid
           /\ \A m \in Ids' : \A k \in CallsOf(m)' :
                  /\ m \in Ids
                  /\ \/ k \in CallsOf(m) /\ method_map'[m][k] = method_map[m][k]
                     \/ m = h /\ k = Len(method_map[h]) + 1 /\ method_map'[m][k] = mid
           /\ \A m \in Ids : \A k \in CallsOf(m) : k \in CallsOf(m)' /\ method_map'[m][k] = method_map[m][k]
           /\ Len(method_map[h]) + 1 \in CallsOf(h)' /\ method_map'[h][Len(method_map[h]) + 1] = mid
           /\ Len(method_map[h]) + 1 \notin CallsOf(h)
<1> DEFINE v == Append(method_map[h], mid)
           mm == [method_map EXCEPT ![h] = v]
<1>1. method_map' = Append(mm, <<>>)
  BY DEF Call
<1>2. /\ Len(method_map) \in Nat \ {0} /\ h \in 1 .. Len(method_map) /\ method_map \in Seq(Seq(Nat))
      /\ Len(method_map') = Len(method_map) + 1
  BY HeadFacts, CallFacts DEF TypeInv, Ids
<1>3. mid \in Nat
  BY <1>2
<1>4. method_map[h] \in Seq(Nat)
  BY <1>2, ElementOfSeq
<1>5. /\ v \in Seq(Nat) /\ Len(method_map[h]) \in Nat /\ Len(v) = Len(method_map[h]) + 1
      /\ \A j \in 1 .. Len(method_map[h]) : v[j] = method_map[h][j]
      /\ v[Len(method_map[h]) + 1] = mid
  BY <1>3, <1>4, Appended
<1> HIDE DEF v
<1>6. mm \in Seq(Seq(Nat)) /\ Len(mm) = Len(method_map) /\ \A m \in Ids : mm[m] = IF m = h THEN v
        ELSE method_map[m]
  <2>1. mm \in Seq(Seq(Nat)) /\ Len(mm) = Len(method_map)
    BY <1>2, <1>5, ExceptSeq
  <2>2. DOMAIN method_map = Ids
    BY <1>2, LenProperties DEF Ids
  <2> QED
    BY <2>1, <2>2
<1> HIDE DEF mm
<1>7. (\A m \in Ids : method_map'[m] = mm[m]) /\ method_map'[Len(method_map) + 1] = <<>>
  <2> DEFINE e == <<>>
  <2>1. e \in Seq(Nat) /\ method_map' = Append(mm, e)
    BY <1>1, EmptySeq
  <2> HIDE DEF e
  <2>2. (\A m \in 1 .. Len(mm) : method_map'[m] = mm[m]) /\ method_map'[Len(mm) + 1] = e
    BY <1>6, <2>1, Appended
  <2> QED
    BY <1>6, <2>2 DEF Ids, e
<1>8. Ids' = Ids \cup {mid} /\ mid \notin Ids /\ (\A m \in Ids : m < mid) /\ h \in Ids
  BY <1>2 DEF Ids
<1>9. ASSUME NEW m \in Ids' PROVE Len(method_map'[m]) = IF m = mid THEN 0 ELSE IF m = h THEN Len(v)
        ELSE Len(method_map[m])
  <2>1. m = mid \/ (m \in Ids /\ m # mid)
    BY <1>8
  <2>2. m = mid => Len(method_map'[m]) = 0
    <3>1. Len(<<>>) = 0
      OBVIOUS
    <3> QED
      BY <1>7, <3>1
  <2>3. m \in Ids => Len(method_map'[m]) = IF m = h THEN Len(v) ELSE Len(method_map[m])
    BY <1>6, <1>7
  <2> QED
    BY <2>1, <2>2, <2>3
<1>10. CallsOf(mid)' = {} /\ CallsOf(h)' = 1 .. Len(method_map[h]) + 1
       /\ \A m \in Ids : m # h => CallsOf(m)' = CallsOf(m) /\ method_map'[m] = method_map[m]
  <2>1. mid \in Ids' /\ h \in Ids' /\ h # mid
    BY <1>3, <1>8
  <2>2. Len(method_map'[mid]) = 0 /\ Len(method_map'[h]) = Len(method_map[h]) + 1
    BY <1>5, <1>9, <2>1
  <2>3. \A m \in Ids : m # h => method_map'[m] = method_map[m]
    BY <1>6, <1>7
  <2> QED
    BY <2>2, <2>3 DEF CallsOf
<1>11. method_map'[h] = v
  BY <1>6, <1>7, <1>8
<1>12. \A k \in 1 .. Len(method_map[h]) + 1 : k \in 1 .. Len(method_map[h]) \/ k = Len(method_map[h]) + 1
  BY <1>5
<1>13. \A k \in 1 .. Len(method_map[h]) : k \in 1 .. Len(method_map[h]) + 1
  BY <1>5
<1>14. Len(method_map[h]) + 1 \in 1 .. Len(method_map[h]) + 1
        /\ Len(method_map[h]) + 1 \notin 1 .. Len(method_map[h])
  BY <1>5
<1>15. ASSUME NEW m \in Ids', NEW k \in CallsOf(m)'
       PROVE  /\ m \in Ids
              /\ \/ k \in CallsOf(m) /\ method_map'[m][k] = method_map[m][k]
                 \/ m = h /\ k = Len(method_map[h]) + 1 /\ method_map'[m][k] = mid
  <2>1. m \in Ids
    BY <1>8, <1>10
  <2>2. CASE m = h
    <3>1. k \in 1 .. Len(method_map[h]) + 1
      BY <1>10, <2>2
    <3> QED
      BY <1>5, <1>11, <1>12, <2>1, <2>2, <3>1 DEF CallsOf
  <2>3. CASE m # h
    BY <1>10, <2>1, <2>3
  <2> QED
    BY <2>2, <2>3
<1>16. ASSUME NEW m \in Ids, NEW k \in CallsOf(m) PROVE k \in CallsOf(m)'
        /\ method_map'[m][k] = method_map[m][k]
  <2>1. CASE m = h
    <3>1. k \in 1 .. Len(method_map[h])
      BY <2>1 DEF CallsOf
    <3> QED
      BY <1>5, <1>10, <1>11, <1>13, <2>1, <3>1
  <2>2. CASE m # h
    BY <1>10, <2>2
  <2> QED
    BY <2>1, <2>2
<1>17. Len(method_map[h]) + 1 \in CallsOf(h)' /\ method_map'[h][Len(method_map[h]) + 1] = mid
       /\ Len(method_map[h]) + 1 \notin CallsOf(h)
  BY <1>5, <1>10, <1>11, <1>14 DEF CallsOf
<1> QED
  BY <1>3, <1>8, <1>15, <1>16, <1>17

(* No step of the tracer calls a method twice or one that was called        *)
(* earlier.                                                                 *)
LEMMA CallTreeNext == ASSUME TypeInv, CallTree, [LastNext]_lastVars PROVE CallTree'
<1>1. CASE Call
  <2>1. PICK h : h = Head(stack)
    OBVIOUS
  <2>2. PICK mid : mid = Len(method_map) + 1
    OBVIOUS
  <2>3. PICK l : l = Len(method_map[h]) + 1
    OBVIOUS
  <2>4. /\ mid \in Nat /\ h \in Ids /\ Ids' = Ids \cup {mid} /\ mid \notin Ids
        /\ \A m \in Ids : m < mid
        /\ \A m \in Ids' : \A k \in CallsOf(m)' :
               /\ m \in Ids
               /\ \/ k \in CallsOf(m) /\ method_map'[m][k] = method_map[m][k]
                  \/ m = h /\ k = l /\ method_map'[m][k] = mid
        /\ \A m \in Ids : \A k \in CallsOf(m) : k \in CallsOf(m)' /\ method_map'[m][k] = method_map[m][k]
        /\ l \in CallsOf(h)' /\ method_map'[h][l] = mid
    BY <1>1, <2>1, <2>2, <2>3, CallAdds
  <2>5. Len(method_map') <= MaxMethods
    BY <1>1, CallFacts, HeadFacts, MethodsAssumption DEF Call
  <2>6. ASSUME NEW m \in Ids', NEW k \in CallsOf(m)' PROVE method_map'[m][k] \in Ids'
          /\ m < method_map'[m][k]
    BY <2>4 DEF CallTree
  <2>7. ASSUME NEW c \in Ids', c # main PROVE \E m \in Ids' : \E k \in CallsOf(m)' : method_map'[m][k] = c
    <3>1. CASE c = mid
      <4>1. h \in Ids' /\ l \in CallsOf(h)' /\ method_map'[h][l] = c
        BY <2>4, <3>1
      <4> QED
        BY <4>1
    <3>2. CASE c \in Ids
      <4>1. PICK m \in Ids : \E k \in CallsOf(m) : method_map[m][k] = c
        BY <2>7, <3>2 DEF CallTree
      <4>2. PICK k \in CallsOf(m) : method_map[m][k] = c
        BY <4>1
      <4>3. m \in Ids' /\ k \in CallsOf(m)' /\ method_map'[m][k] = c
        BY <2>4, <4>2
      <4> QED
        BY <4>3
    <3> QED
      BY <2>4, <3>1, <3>2
  <2>8. ASSUME NEW m \in Ids', NEW n \in Ids', NEW j \in CallsOf(m)', NEW k \in CallsOf(n)',
               method_map'[m][j] = method_map'[n][k]
        PROVE  m = n /\ j = k
    <3>1. /\ m \in Ids
          /\ \/ j \in CallsOf(m) /\ method_map'[m][j] = method_map[m][j]
             \/ m = h /\ j = l /\ method_map'[m][j] = mid
      BY <2>4
    <3>2. /\ n \in Ids
          /\ \/ k \in CallsOf(n) /\ method_map'[n][k] = method_map[n][k]
             \/ n = h /\ k = l /\ method_map'[n][k] = mid
      BY <2>4
    <3>3. j \in CallsOf(m) => method_map[m][j] \in Ids
      BY <3>1 DEF CallTree
    <3>4. k \in CallsOf(n) => method_map[n][k] \in Ids
      BY <3>2 DEF CallTree
    <3>5. CASE j \in CallsOf(m) /\ k \in CallsOf(n) /\ method_map'[m][j] = method_map[m][j]
            /\ method_map'[n][k] = method_map[n][k]
      <4>1. method_map[m][j] = method_map[n][k]
        BY <2>8, <3>5
      <4> QED
        BY <3>1, <3>2, <3>5, <4>1 DEF CallTree
    <3> QED
      BY <2>4, <2>8, <3>1, <3>2, <3>3, <3>4, <3>5
  <2> QED
    BY <2>5, <2>6, <2>7, <2>8 DEF CallTree
<1>2. ASSUME UNCHANGED method_map PROVE CallTree'
  <2>1. Ids' = Ids /\ \A m : CallsOf(m)' = CallsOf(m)
    BY <1>2 DEF Ids, CallsOf
  <2> QED
    BY <1>2, <2>1 DEF CallTree
<1>3. CASE Return
  BY <1>2, <1>3 DEF Return
<1>4. ASSUME NEW i \in Pos, Compare(i) PROVE CallTree'
  BY <1>2, <1>4 DEF Compare
<1>5. CASE Finish
  BY <1>2, <1>5 DEF Finish
<1>6. ASSUME NEW i \in Left, Keep(i) PROVE CallTree'
  BY <1>2, <1>6 DEF Keep
<1>7. CASE UNCHANGED lastVars
  BY <1>2, <1>7 DEF lastVars
<1> QED
  BY <1>1, <1>3, <1>4, <1>5, <1>6, <1>7 DEF LastNext, KeepLast

(* At the start only main was called.                                       *)
LEMMA CallTreeInit == LastInit => CallTree
<1> SUFFICES ASSUME LastInit PROVE CallTree
  OBVIOUS
<1> DEFINE e == <<>>
<1>1. method_map = <<e>> /\ Len(e) = 0
  BY DEF LastInit
<1> HIDE DEF e
<1>2. Len(method_map) = 1 /\ method_map[1] = e
  BY <1>1
<1>3. Ids = {1} /\ CallsOf(1) = {} /\ 1 <= MaxMethods
  BY <1>1, <1>2, MethodsAssumption DEF Ids, CallsOf
<1> QED
  BY <1>2, <1>3 DEF CallTree, main

(* The owners so far, in the order of the indexes.                          *)
Owners ==
    /\ \A i \in Pos : last_cmp_only[i] \in Ids \cup {0}
    /\ \A i \in Pos : i \in ToSet(order) <=> last_cmp_only[i] # 0
    /\ \A j, k \in 1 .. Len(order) : j < k => order[j] < order[k]
    /\ \A i \in ToSet(order), j \in Left : i <= j

(* At the start no index has an owner.                                      *)
LEMMA OwnersInit == LastInit => Owners
<1> SUFFICES ASSUME LastInit PROVE Owners
  OBVIOUS
<1>1. order = <<>> /\ last_cmp_only = [i \in Pos |-> 0]
  BY DEF LastInit
<1>2. Len(order) = 0 /\ order \in Seq({})
  BY <1>1, EmptySeq
<1>3. ToSet(order) = {}
  <2>1. ToSet(order) \subseteq {}
    BY <1>2, SeqToSet
  <2> QED
    BY <2>1
<1> QED
  BY <1>1, <1>2, <1>3 DEF Owners

(* The comparison of an index that is kept gives it an owner, after all     *)
(* smaller indexes.                                                         *)
LEMMA OwnersStep ==
    ASSUME TypeInv, Owners, NEW i \in Left, \A j \in Left : i <= j, Keep(i)
    PROVE  Owners'
<1> DEFINE x == comparisons[i][done[i] + 1]
<1>1. /\ i \in Pos /\ x \in Ids /\ Ids' = Ids
      /\ \/ UNCHANGED <<last_cmp_only, order>>
         \/ /\ last_cmp_only' = [last_cmp_only EXCEPT ![i] = x]
            /\ order' = IF last_cmp_only[i] = 0 THEN Append(order, i) ELSE order
  BY KeepFacts DEF Ids
<1>2. x # 0 /\ order \in Seq(Pos) /\ last_cmp_only \in [Pos -> Nat]
  <2>1. x # 0
    BY <1>1, HeadFacts DEF Ids
  <2> QED
    BY <2>1 DEF TypeInv
<1>3. Left' \subseteq Left
  <2> SUFFICES ASSUME NEW j \in Pos, done'[j] < Len(comparisons'[j]) PROVE done[j] < Len(comparisons[j])
    BY DEF Left
  <2>1. comparisons' = comparisons /\ done[i] \in Nat /\ done'[i] = done[i] + 1
          /\ done[i] + 1 \in 1 .. Len(comparisons[i])
    BY KeepFacts
  <2>2. j # i => done'[j] = done[j]
    BY KeepFacts
  <2>3. done[i] < Len(comparisons[i])
    BY DEF Left
  <2> QED
    BY <2>1, <2>2, <2>3
<1> HIDE DEF x
<1>4. CASE UNCHANGED <<last_cmp_only, order>>
  BY <1>1, <1>3, <1>4 DEF Owners
<1>5. CASE last_cmp_only' = [last_cmp_only EXCEPT ![i] = x]
        /\ order' = IF last_cmp_only[i] = 0 THEN Append(order, i) ELSE order
  <2>1. /\ last_cmp_only'[i] = x /\ \A j \in Pos : j # i => last_cmp_only'[j] = last_cmp_only[j]
    BY <1>1, <1>2, <1>5
  <2>2. CASE last_cmp_only[i] # 0
    <3>1. order' = order /\ i \in ToSet(order)
      BY <1>1, <1>5, <2>2 DEF Owners
    <3> QED
      BY <1>1, <1>2, <1>3, <2>1, <3>1 DEF Owners
  <2>3. CASE last_cmp_only[i] = 0
    <3>1. order' = Append(order, i) /\ i \notin ToSet(order)
      BY <1>1, <1>5, <2>3 DEF Owners
    <3>2. /\ Len(order) \in Nat /\ Len(order') = Len(order) + 1
          /\ \A j \in 1 .. Len(order) : order'[j] = order[j]
          /\ order'[Len(order) + 1] = i
          /\ ToSet(order') = ToSet(order) \cup {i}
      BY <1>1, <1>2, <3>1, Appended
    <3>3. \A j \in 1 .. Len(order) : order[j] \in ToSet(order) /\ order[j] \in Pos
      BY <1>2, SeqToSet, ElementOfSeq
    <3>4. \A j \in 1 .. Len(order) : order[j] < i
      <4> TAKE j \in 1 .. Len(order)
      <4>1. order[j] <= i /\ order[j] # i
        BY <3>1, <3>3 DEF Owners
      <4> QED
        BY <1>1, <3>3, <4>1 DEF Pos
    <3>5. ASSUME NEW j \in 1 .. Len(order'), NEW k \in 1 .. Len(order'), j < k PROVE order'[j] < order'[k]
      <4>1. j \in 1 .. Len(order) /\ (k \in 1 .. Len(order) \/ k = Len(order) + 1)
        BY <3>2, <3>5
      <4>2. k \in 1 .. Len(order) => order[j] < order[k]
        BY <3>5, <4>1 DEF Owners
      <4> QED
        BY <3>2, <3>4, <4>1, <4>2
    <3>6. \A h \in ToSet(order'), j \in Left' : h <= j
      BY <1>3, <3>2 DEF Owners
    <3>7. \A h \in Pos : h \in ToSet(order') <=> last_cmp_only'[h] # 0
      BY <1>2, <2>1, <3>2 DEF Owners
    <3>8. \A h \in Pos : last_cmp_only'[h] \in Ids' \cup {0}
      BY <1>1, <2>1 DEF Owners
    <3> QED
      BY <3>5, <3>6, <3>7, <3>8 DEF Owners
  <2> QED
    BY <2>2, <2>3
<1> QED
  BY <1>1, <1>4, <1>5

(* No other step changes the owners.                                        *)
LEMMA OwnersKept == ASSUME LInv, Owners, [LastNext]_lastVars PROVE Owners'
<1>1. TypeInv
  BY DEF LInv
<1>2. pc = "trace" => ToSet(order) = {}
  <2>1. pc = "trace" => \A i \in Pos : done[i] = 0
    BY DEF LInv, OwnersInv
  <2>2. \A i \in ToSet(order) : done[i] > 0 /\ i \in Pos
    <3>1. ToSet(order) \subseteq Pos
      BY <1>1, SeqToSet DEF TypeInv
    <3> QED
      BY <3>1 DEF LInv, OwnersInv
  <2> QED
    BY <2>1, <2>2
<1>3. ASSUME UNCHANGED <<last_cmp_only, order>>, pc = "trace", Ids \subseteq Ids' PROVE Owners'
  BY <1>2, <1>3 DEF Owners
<1>4. CASE Call
  BY <1>1, <1>3, <1>4, CallFacts
<1>5. CASE Return
  BY <1>1, <1>3, <1>5, ReturnFacts DEF Ids
<1>6. ASSUME NEW i \in Pos, Compare(i) PROVE Owners'
  BY <1>1, <1>3, <1>6, CompareFacts DEF Ids
<1>7. CASE Finish
  BY <1>3, <1>7 DEF Finish, Ids
<1>8. ASSUME NEW i \in Left, \A j \in Left : i <= j, Keep(i) PROVE Owners'
  BY <1>1, <1>8, OwnersStep
<1>9. CASE UNCHANGED lastVars
  <2>1. Ids' = Ids /\ Left' = Left
    BY <1>9 DEF lastVars, Ids, Left
  <2> QED
    BY <1>9, <2>1 DEF lastVars, Owners
<1> QED
  BY <1>4, <1>5, <1>6, <1>7, <1>8, <1>9 DEF LastNext, KeepLast

------------------------------------------------------------------------------
(* What is called from a method                                             *)

Closed(S) == \A m \in S : \A k \in CallsOf(m) : method_map[m][k] \in S

(* m, what it calls, what that calls, and so on.                            *)
From(m) == {x \in Ids : \A S \in SUBSET Ids : m \in S /\ Closed(S) => x \in S}

(* A method that is called from m was called later than m.                  *)
LEMMA FromFacts ==
    ASSUME CallTree, NEW m \in Ids
    PROVE  m \in From(m) /\ Closed(From(m)) /\ \A x \in From(m) : x \in Ids /\ m <= x
<1>1. m \in From(m)
  BY DEF From
<1>2. Closed(From(m))
  <2> SUFFICES ASSUME NEW x \in From(m), NEW k \in CallsOf(x) PROVE method_map[x][k] \in From(m)
    BY DEF Closed
  <2>1. x \in Ids /\ method_map[x][k] \in Ids
    BY DEF From, CallTree
  <2>2. ASSUME NEW S \in SUBSET Ids, m \in S, Closed(S) PROVE method_map[x][k] \in S
    <3>1. x \in S
      BY <2>2 DEF From
    <3> QED
      BY <2>2, <3>1 DEF Closed
  <2> QED
    BY <2>1, <2>2 DEF From
<1>3. \A x \in From(m) : x \in Ids /\ m <= x
  <2> DEFINE S == {x \in Ids : m <= x}
  <2>1. m \in S /\ S \in SUBSET Ids
    BY DEF Ids
  <2>2. Closed(S)
    <3> SUFFICES ASSUME NEW x \in S, NEW k \in CallsOf(x) PROVE method_map[x][k] \in S
      BY DEF Closed
    <3>1. x \in Ids /\ m <= x /\ method_map[x][k] \in Ids /\ x < method_map[x][k]
      BY DEF CallTree
    <3> QED
      BY <3>1 DEF Ids
  <2> HIDE DEF S
  <2>3. \A x \in From(m) : x \in S /\ x \in Ids
    BY <2>1, <2>2 DEF From
  <2> QED
    BY <2>3 DEF S
<1> QED
  BY <1>1, <1>2, <1>3

(* The methods that m calls, each with what is called from it.              *)
LEMMA FromCalls ==
    ASSUME CallTree, NEW m \in Ids
    PROVE  /\ \A k \in CallsOf(m) : From(method_map[m][k]) \subseteq From(m)
                 /\ m \notin From(method_map[m][k])
           /\ \A x \in From(m) : x = m \/ \E k \in CallsOf(m) : x \in From(method_map[m][k])
<1>1. \A k \in CallsOf(m) : method_map[m][k] \in Ids /\ m < method_map[m][k]
  BY DEF CallTree
<1>2. ASSUME NEW k \in CallsOf(m) PROVE From(method_map[m][k]) \subseteq From(m)
  <2>1. method_map[m][k] \in From(m) /\ Closed(From(m)) /\ From(m) \in SUBSET Ids
    BY FromFacts DEF Closed, From
  <2> QED
    BY <2>1 DEF From
<1>3. ASSUME NEW k \in CallsOf(m), m \in From(method_map[m][k]) PROVE FALSE
  <2>1. method_map[m][k] <= m /\ m < method_map[m][k] /\ m \in Int /\ method_map[m][k] \in Int
    BY <1>1, <1>3, FromFacts DEF Ids
  <2> QED
    BY <2>1
<1>4. ASSUME NEW x \in From(m) PROVE x = m \/ \E k \in CallsOf(m) : x \in From(method_map[m][k])
  <2> DEFINE S == {y \in Ids : y = m \/ \E k \in CallsOf(m) : y \in From(method_map[m][k])}
  <2>1. m \in S /\ S \in SUBSET Ids
    OBVIOUS
  <2>2. Closed(S)
    <3> SUFFICES ASSUME NEW y \in S, NEW j \in CallsOf(y) PROVE method_map[y][j] \in S
      BY DEF Closed
    <3>1. y \in Ids /\ method_map[y][j] \in Ids
      BY DEF CallTree
    <3>2. CASE y = m
      <4>1. method_map[y][j] \in From(method_map[y][j])
        BY <3>1, FromFacts
      <4> QED
        BY <3>1, <3>2, <4>1
    <3>3. CASE y # m
      <4>1. PICK k \in CallsOf(m) : y \in From(method_map[m][k])
        BY <3>3
      <4>2. method_map[y][j] \in From(method_map[m][k])
        BY <1>1, <4>1, FromFacts DEF Closed
      <4> QED
        BY <3>1, <4>2
    <3> QED
      BY <3>2, <3>3
  <2> HIDE DEF S
  <2>3. x \in S
    BY <2>1, <2>2 DEF From
  <2> QED
    BY <2>3 DEF S
<1> QED
  BY <1>2, <1>3, <1>4

(* Nothing is called from two methods that one method calls.                *)
LEMMA FromApart ==
    ASSUME CallTree, NEW m \in Ids, NEW j \in CallsOf(m), NEW k \in CallsOf(m), j # k
    PROVE  \A x \in From(method_map[m][j]) : x \notin From(method_map[m][k])
<1>1. ASSUME NEW i \in CallsOf(m), NEW l \in CallsOf(m), method_map[m][i] < method_map[m][l],
             NEW x \in From(method_map[m][i]), x \in From(method_map[m][l])
      PROVE  FALSE
  <2> DEFINE c == method_map[m][i]
             b == method_map[m][l]
             S == {y \in Ids : c <= y /\ y \notin From(b)}
             T == {y \in From(b) : y = b \/ \E z \in From(b) : \E h \in CallsOf(z) : method_map[z][h] = y}
  <2>1. m \in Int /\ c \in Ids /\ b \in Ids /\ c \in Int /\ b \in Int /\ m < c /\ m < b /\ c < b
    BY <1>1 DEF CallTree, Ids
  <2> HIDE DEF b, c
  <2>2. b \in From(b) /\ Closed(From(b)) /\ \A y \in From(b) : y \in Ids /\ b <= y
    BY <2>1, FromFacts
  <2>3. From(b) \subseteq T
    <3>1. b \in T /\ T \in SUBSET Ids
      BY <2>2
    <3>2. Closed(T)
      <4> SUFFICES ASSUME NEW y \in T, NEW h \in CallsOf(y) PROVE method_map[y][h] \in T
        BY DEF Closed
      <4>1. y \in From(b) /\ method_map[y][h] \in From(b)
        BY <2>2 DEF Closed
      <4> QED
        BY <4>1
    <3> HIDE DEF T
    <3> QED
      BY <3>1, <3>2 DEF From
  <2>4. c \in S /\ S \in SUBSET Ids
    BY <2>1, <2>2
  <2>5. Closed(S)
    <3> SUFFICES ASSUME NEW y \in S, NEW h \in CallsOf(y) PROVE method_map[y][h] \in S
      BY DEF Closed
    <3>1. /\ y \in Ids /\ c <= y /\ y \notin From(b)
          /\ method_map[y][h] \in Ids /\ y < method_map[y][h] /\ y \in Int /\ method_map[y][h] \in Int
      BY DEF CallTree, Ids
    <3>2. c <= method_map[y][h]
      BY <2>1, <3>1
    <3>3. ASSUME method_map[y][h] \in From(b) PROVE FALSE
      <4>1. CASE method_map[y][h] = b
        <5>1. y = m
          BY <3>1, <4>1 DEF CallTree, b
        <5> QED
          BY <2>1, <3>1, <5>1
      <4>2. CASE method_map[y][h] # b
        <5>1. PICK z \in From(b) : \E g \in CallsOf(z) : method_map[z][g] = method_map[y][h]
          BY <2>3, <3>3, <4>2
        <5>2. z \in Ids /\ \E g \in CallsOf(z) : method_map[z][g] = method_map[y][h]
          BY <2>2, <5>1
        <5>3. z = y
          BY <3>1, <5>2 DEF CallTree
        <5> QED
          BY <3>1, <5>3
      <4> QED
        BY <4>1, <4>2
    <3> QED
      BY <3>1, <3>2, <3>3
  <2>6. x \in S
    <3> HIDE DEF S
    <3> QED
      BY <1>1, <2>4, <2>5 DEF From, c
  <2> QED
    BY <1>1, <2>6 DEF b
<1>2. method_map[m][j] \in Int /\ method_map[m][k] \in Int /\ method_map[m][j] # method_map[m][k]
  BY DEF CallTree, Ids
<1>3. method_map[m][j] < method_map[m][k] \/ method_map[m][k] < method_map[m][j]
  BY <1>2
<1> QED
  BY <1>1, <1>3

(* Everything is called from main.                                          *)
LEMMA FromMain == ASSUME TypeInv, CallTree PROVE From(main) = Ids
<1>1. Len(method_map) \in Nat \ {0} /\ main \in Ids
  BY HeadFacts DEF Ids, main
<1>2. main \in From(main) /\ Closed(From(main)) /\ From(main) \subseteq Ids
  BY <1>1, FromFacts DEF From
<1> DEFINE S == {n \in Nat : \A x \in Ids : x <= n => x \in From(main)}
<1>3. 0 \in S
  BY DEF Ids
<1>4. ASSUME NEW n \in Nat, n \in S PROVE n + 1 \in S
  <2>1. SUFFICES ASSUME NEW x \in Ids, x <= n + 1 PROVE x \in From(main)
    OBVIOUS
  <2>2. CASE x = main
    BY <1>2, <2>2
  <2>3. CASE x # main
    <3>1. PICK m \in Ids : \E k \in CallsOf(m) : method_map[m][k] = x
      BY <2>3 DEF CallTree
    <3>2. PICK k \in CallsOf(m) : method_map[m][k] = x
      BY <3>1
    <3>3. m < x
      BY <3>2 DEF CallTree
    <3>4. m <= n
      BY <2>1, <3>3 DEF Ids
    <3>5. m \in From(main)
      BY <1>4, <3>4
    <3> QED
      BY <1>2, <3>2, <3>5 DEF Closed
  <2> QED
    BY <2>2, <2>3
<1>5. Len(method_map) \in S
  <2> HIDE DEF S
  <2> QED
    BY <1>1, <1>3, <1>4, SetInduction
<1>6. \A x \in Ids : x <= Len(method_map)
  BY DEF Ids
<1> QED
  BY <1>2, <1>5, <1>6

------------------------------------------------------------------------------
(* The trees of the methods                                                 *)

(* What to_tree makes of method m, with g for itself.                       *)
Tree(g, m) == tree_of(m, indexes(m), [k \in DOMAIN method_map[m] |-> g[method_map[m][k]]])

(* The domains of method_map and of the calls of a method.                  *)
LEMMA CallsDomain ==
    ASSUME TypeInv
    PROVE  DOMAIN method_map = Ids /\ Len(method_map) \in Nat
           /\ \A m \in Ids : DOMAIN method_map[m] = CallsOf(m) /\ Len(method_map[m]) \in Nat
<1>1. method_map \in Seq(Seq(Nat))
  BY DEF TypeInv
<1>2. DOMAIN method_map = Ids /\ Len(method_map) \in Nat
  BY <1>1, LenProperties DEF Ids
<1>3. \A m \in Ids : method_map[m] \in Seq(Nat)
  BY <1>1, ElementOfSeq DEF Ids
<1>4. \A m \in Ids : DOMAIN method_map[m] = CallsOf(m) /\ Len(method_map[m]) \in Nat
  BY <1>3, LenProperties DEF CallsOf
<1> QED
  BY <1>2, <1>4

(* It looks no further than the methods that m calls.                       *)
LEMMA TreeSame ==
    ASSUME TypeInv, NEW m \in Ids, NEW g, NEW h, \A k \in CallsOf(m) :
            g[method_map[m][k]] = h[method_map[m][k]]
    PROVE  Tree(g, m) = Tree(h, m)
<1>1. [k \in DOMAIN method_map[m] |-> g[method_map[m][k]]]
           = [k \in DOMAIN method_map[m] |-> h[method_map[m][k]]]
  BY CallsDomain
<1> QED
  BY <1>1, Zenon DEF Tree

(* The recursive function of to_tree exists: a method calls later methods   *)
(* only.                                                                    *)
LEMMA TreesExist ==
    ASSUME TypeInv, CallTree
    PROVE  \E g : g = [m \in DOMAIN method_map |-> Tree(g, m)]
<1> DEFINE N == Len(method_map)
           Late(j) == {m \in Ids : N - j < m}
           Eq(g, j) == /\ DOMAIN g = Late(j) /\ g = [m \in Late(j) |-> g[m]]
                       /\ \A m \in Late(j) : g[m] = Tree(g, m)
           I == {j \in Nat : \E g : Eq(g, j)}
<1>1. N \in Nat /\ DOMAIN method_map = Ids
  BY CallsDomain
<1>2. 0 \in I
  <2> DEFINE g == [m \in {} |-> 0]
  <2>1. Late(0) = {}
    BY <1>1 DEF Ids
  <2>2. Eq(g, 0)
    BY <2>1
  <2> HIDE DEF g, Eq
  <2> QED
    BY <2>2
<1>3. ASSUME NEW j \in Nat, j \in I PROVE j + 1 \in I
  <2>1. PICK g : Eq(g, j)
    BY <1>3
  <2> DEFINE h == [m \in Late(j + 1) |-> IF m \in Late(j) THEN g[m] ELSE Tree(g, m)]
  <2>2. \A m \in Late(j) : m \in Late(j + 1) /\ h[m] = g[m]
    <3>1. \A m \in Late(j) : m \in Late(j + 1)
      BY <1>1 DEF Ids
    <3> HIDE DEF Late
    <3> QED
      BY <3>1
  <2>3. ASSUME NEW m \in Late(j + 1) PROVE h[m] = Tree(h, m)
    <3>1. m \in Ids
      OBVIOUS
    <3>2. ASSUME NEW k \in CallsOf(m) PROVE method_map[m][k] \in Late(j)
      <4>1. method_map[m][k] \in Ids /\ m < method_map[m][k]
        BY <3>1 DEF CallTree
      <4>2. N - (j + 1) < m
        OBVIOUS
      <4> HIDE DEF N
      <4>3. N - j < method_map[m][k]
        BY <1>1, <3>1, <4>1, <4>2 DEF Ids
      <4> QED
        BY <4>1, <4>3
    <3>3. h[m] = Tree(g, m)
      <4>1. CASE m \in Late(j)
        BY <2>1, <2>2, <4>1
      <4>2. CASE m \notin Late(j)
        BY <4>2
      <4> QED
        BY <4>1, <4>2
    <3> HIDE DEF h, Late
    <3>4. \A k \in CallsOf(m) : g[method_map[m][k]] = h[method_map[m][k]]
      BY <2>2, <3>2
    <3>5. Tree(g, m) = Tree(h, m)
      BY <3>1, <3>4, TreeSame
    <3> QED
      BY <3>3, <3>5
  <2>4. Eq(h, j + 1)
    <3>1. DOMAIN h = Late(j + 1) /\ h = [m \in Late(j + 1) |-> h[m]]
      OBVIOUS
    <3> HIDE DEF h
    <3> QED
      BY <2>3, <3>1
  <2> HIDE DEF h, Eq
  <2> QED
    BY <2>4
<1>4. N \in I
  <2> HIDE DEF I, N
  <2> QED
    BY <1>1, <1>2, <1>3, SetInduction
<1>5. PICK g : Eq(g, N)
  BY <1>4
<1>6. Late(N) = Ids
  BY <1>1 DEF Ids
<1>7. g = [m \in DOMAIN method_map |-> Tree(g, m)]
  <2>1. g = [m \in Late(N) |-> g[m]] /\ \A m \in Late(N) : g[m] = Tree(g, m)
    BY <1>5
  <2> HIDE DEF Late, N
  <2> QED
    BY <1>1, <1>6, <2>1
<1> QED
  BY <1>7

(* to_tree makes the tree of a method of the trees of the methods it calls. *)
LEMMA TreesStep ==
    ASSUME TypeInv, CallTree
    PROVE  \E t : to_tree = t[main] /\ \A m \in Ids : t[m] = Tree(t, m)
<1> DEFINE t == CHOOSE g : g = [m \in DOMAIN method_map |-> Tree(g, m)]
<1>1. t = [m \in DOMAIN method_map |-> Tree(t, m)]
  BY TreesExist, Zenon
<1>2. to_tree = t[main]
  BY DEF to_tree, Tree
<1> HIDE DEF t
<1>3. \A m \in Ids : t[m] = Tree(t, m)
  BY <1>1, CallsDomain
<1> QED
  BY <1>2, <1>3

(* The indexes of a method.                                                 *)
OwnedBy(m) == {i \in Pos : last_cmp_only[i] = m}

(* indexes lists the indexes that a method owns in their order.             *)
LEMMA IndexesAre ==
    ASSUME TypeInv, Owners, NEW m \in Ids
    PROVE  Lists(indexes(m), OwnedBy(m))
<1> DEFINE K == {k \in DOMAIN order : last_cmp_only[order[k]] = m}
           C == Cardinality(K)
           idx == indexes(m)
<1>1. order \in Seq(Pos) /\ Len(order) \in Nat /\ DOMAIN order = 1 .. Len(order)
      /\ (\A k \in 1 .. Len(order) : order[k] \in Pos /\ order[k] \in Int /\ order[k] \in ToSet(order))
      /\ \A i \in ToSet(order) : \E k \in 1 .. Len(order) : order[k] = i
  <2>1. order \in Seq(Pos)
    BY DEF TypeInv
  <2>2. /\ Len(order) \in Nat /\ DOMAIN order = 1 .. Len(order)
        /\ \A k \in 1 .. Len(order) : order[k] \in Pos
        /\ ToSet(order) = {order[k] : k \in 1 .. Len(order)}
    BY <2>1, SeqToSet
  <2> QED
    BY <2>1, <2>2 DEF Pos
<1>2. m # 0
  BY DEF Ids
<1>3. C \in Nat /\ Ranked(K, C)
  <2>1. K \in SUBSET (1 .. Len(order))
    BY <1>1
  <2> HIDE DEF K
  <2>2. IsFiniteSet(1 .. Len(order)) /\ 1 .. Len(order) \subseteq Int
    BY <1>1, FS_Interval
  <2>3. IsFiniteSet(K) /\ K \in SUBSET Int
    BY <2>1, <2>2, FS_Subset
  <2> QED
    BY <2>3, NthFacts
<1>4. idx = [i \in 1 .. C |-> order[nth(K, i)]]
  BY DEF indexes
<1>5. \A k \in K : k \in 1 .. Len(order) /\ last_cmp_only[order[k]] = m
  BY <1>1
<1>6. \A k \in 1 .. Len(order) : last_cmp_only[order[k]] = m => k \in K
  BY <1>1
<1> HIDE DEF K, C, idx
<1>7. Len(idx) = C /\ DOMAIN idx = 1 .. C /\ \A i \in 1 .. C : idx[i] = order[nth(K, i)]
  BY <1>3, <1>4
<1>8. \A i \in 1 .. C : idx[i] \in OwnedBy(m) /\ idx[i] \in Int
  BY <1>1, <1>3, <1>5, <1>7 DEF Ranked, OwnedBy
<1>9. ASSUME NEW i \in 1 .. C, NEW j \in 1 .. C, i < j PROVE idx[i] < idx[j]
  <2>1. nth(K, i) \in 1 .. Len(order) /\ nth(K, j) \in 1 .. Len(order) /\ nth(K, i) < nth(K, j)
    BY <1>3, <1>5, <1>9 DEF Ranked
  <2> QED
    BY <1>7, <2>1 DEF Owners
<1>10. ASSUME NEW i \in OwnedBy(m) PROVE \E n \in 1 .. C : idx[n] = i
  <2>1. i \in ToSet(order) /\ last_cmp_only[i] = m
    BY <1>2 DEF OwnedBy, Owners
  <2>2. PICK k \in 1 .. Len(order) : order[k] = i
    BY <1>1, <2>1
  <2>3. PICK n \in 1 .. C : nth(K, n) = k
    BY <1>3, <1>6, <2>1, <2>2 DEF Ranked
  <2> QED
    BY <1>7, <2>2, <2>3
<1> QED
  BY <1>3, <1>7, <1>8, <1>9, <1>10 DEF Lists, idx

(* The tree of a method: its nodes are good, it starts and ends in runs, and *)
(* it ranges over all indexes that it and what is called from it own.       *)
Ranging(m, t) ==
    /\ t \in Level(Len(method_map) - m + 1) /\ Good(last_cmp_only, t) /\ t.mid = m /\ t.kids # <<>>
          /\ HasRange(t)
    /\ t.s \in Kept(last_cmp_only, t) /\ t.e \in Kept(last_cmp_only, t)
    /\ \A i \in Kept(last_cmp_only, t) : last_cmp_only[i] \in From(m)
    /\ \A i \in Pos : last_cmp_only[i] \in From(m) => t.s <= i /\ i <= t.e

TreeIs(m, t) == \/ t = AssertionFails
                \/ t = NoTree /\ \A i \in Pos : last_cmp_only[i] \notin From(m)
                \/ Ranging(m, t)

(* What came of a method that m calls.                                      *)
OfCall(m, nc, k, a) == k \in CallsOf(m) /\ a = nc[k]

(* A run of a method is a child of it.                                      *)
LEMMA RunItem ==
    ASSUME CallTree, Owners, NEW m \in Ids, NEW d \in Depths, NEW a, RunLeaf(OwnedBy(m), a)
    PROVE  /\ Item(last_cmp_only, d, m, a) /\ Whole(last_cmp_only, m, a) /\ a.kids = <<>> /\ a # NoTree
           /\ \A i \in KeptBy(last_cmp_only, m, a) : i \in Pos /\ last_cmp_only[i] = m /\ a.s <= i
                 /\ i <= a.e
<1>1. /\ a.mid = 0 /\ a.kids = <<>> /\ HasRange(a) /\ a \in NodesOver({})
      /\ \A i \in a.s .. a.e : i \in OwnedBy(m)
      /\ a.s - 1 \notin OwnedBy(m) /\ a.e + 1 \notin OwnedBy(m)
  BY DEF RunLeaf
<1>2. a \in Level(d)
  BY <1>1, PieceLevel
<1>3. IsRun(last_cmp_only, m, a)
  BY <1>1 DEF IsRun, OwnedBy
<1>4. a.s \in a.s .. a.e /\ a.e \in a.s .. a.e
  BY <1>1 DEF HasRange
<1>5. a.s \in Pos /\ a.e \in Pos
  BY <1>3, <1>4 DEF IsRun
<1>6. (a.s - 1 \in Pos => last_cmp_only[a.s - 1] # m) /\ (a.e + 1 \in Pos => last_cmp_only[a.e + 1] # m)
  BY <1>1 DEF OwnedBy
<1>7. Item(last_cmp_only, d, m, a)
  BY <1>1, <1>2, <1>3, <1>5, <1>6 DEF Item
<1>8. KeptBy(last_cmp_only, m, a) = a.s .. a.e
  BY <1>1, <1>3 DEF KeptBy
<1>9. a # NoTree
  BY <1>5, NoTreeIs DEF Pos
<1> QED
  BY <1>1, <1>3, <1>4, <1>7, <1>8, <1>9 DEF Whole, IsRun, HasRange

(* What came of a method that m calls is a child of m.                      *)
LEMMA CallItem ==
    ASSUME TypeInv, CallTree, Owners, NEW m \in Ids, NEW k \in CallsOf(m), NEW a,
            Ranging(method_map[m][k], a)
    PROVE  /\ Item(last_cmp_only, Len(method_map) - m, m, a) /\ Whole(last_cmp_only, m, a)
           /\ a.kids # <<>> /\ a # NoTree
           /\ \A i \in KeptBy(last_cmp_only, m, a) : i \in Pos
                 /\ last_cmp_only[i] \in From(method_map[m][k])
<1> DEFINE c == method_map[m][k]
           N == Len(method_map)
<1>1. c \in Ids /\ m < c /\ m \in Int /\ c \in Int /\ N \in Nat /\ N <= MaxMethods /\ 1 <= m /\ c <= N
        /\ m <= N
  BY CallsDomain DEF CallTree, Ids
<1>2. /\ a \in Level(N - c + 1) /\ Good(last_cmp_only, a) /\ a.mid = c /\ a.kids # <<>> /\ HasRange(a)
      /\ a.s \in Kept(last_cmp_only, a) /\ a.e \in Kept(last_cmp_only, a)
      /\ \A i \in Kept(last_cmp_only, a) : last_cmp_only[i] \in From(c)
  BY DEF Ranging
<1> HIDE DEF c, N
<1>3. a \in Level(N - m)
  <2>1. N - c + 1 \in Depths /\ N - m \in Depths /\ N - c + 1 <= N - m
    BY <1>1, MethodsAssumption DEF Depths
  <2> QED
    BY <1>2, <2>1, LevelGrows
<1>4. KeptBy(last_cmp_only, m, a) = Kept(last_cmp_only, a)
  BY <1>2 DEF KeptBy
<1>5. \A i \in Kept(last_cmp_only, a) : i \in Pos
  BY <1>2, KeptInside
<1>6. a.mid # 0
  BY <1>1, <1>2
<1>7. Item(last_cmp_only, N - m, m, a)
  BY <1>2, <1>3, <1>5, <1>6 DEF Item
<1>8. a # NoTree
  BY <1>2, NoTreeIs
<1> QED
  BY <1>2, <1>4, <1>5, <1>7, <1>8 DEF Whole, c, N

(* The children of a method, its calls first: no index belongs to two of    *)
(* them, and none of the indexes is missing.                                *)
LEMMA ChildrenOf ==
    ASSUME TypeInv, CallTree, Owners, NEW m \in Ids, NEW nc, NEW ch, NEW arr, Len(arr) \in Nat,
           \A k \in CallsOf(m) : TreeIs(method_map[m][k], nc[k]) /\ nc[k] # AssertionFails,
           AreRuns(OwnedBy(m), ch),
           \A i \in 1 .. Len(arr) : \/ OfCall(m, nc, i, arr[i])
                                    \/ i - Len(method_map[m]) \in 1 .. Len(ch)
                                          /\ arr[i] = ch[i - Len(method_map[m])],
           \A k \in CallsOf(m) : k \in 1 .. Len(arr) /\ arr[k] = nc[k],
           \A n \in 1 .. Len(ch) : \E i \in 1 .. Len(arr) : arr[i] = ch[n]
    PROVE  /\ Children(last_cmp_only, Len(method_map) - m, m, arr)
           /\ \A i \in Pos : last_cmp_only[i] \in From(m) => \E b \in Former(arr, Len(arr)) : b.s <= i
                 /\ i <= b.e
           /\ \A b \in Former(arr, Len(arr)) : \A i \in KeptBy(last_cmp_only, m, b) : i \in Pos
                 /\ last_cmp_only[i] \in From(m)
<1> DEFINE o == last_cmp_only
           d == Len(method_map) - m
           L == Len(method_map[m])
           ofCall(k) == k \in CallsOf(m) /\ arr[k] = nc[k]
           ofRun(k) == k - L \in 1 .. Len(ch) /\ arr[k] = ch[k - L]
<1>1. d \in Depths /\ L \in Nat /\ CallsOf(m) = 1 .. L
  BY CallsDomain, MethodsAssumption DEF CallTree, Depths, Ids, CallsOf
<1> HIDE DEF L
<1>2. \A k \in 1 .. Len(arr) : ofCall(k) \/ ofRun(k)
  BY DEF OfCall, L
<1>3. ASSUME NEW k \in 1 .. Len(arr), ofCall(k), arr[k] # NoTree
      PROVE  /\ Item(o, d, m, arr[k]) /\ Whole(o, m, arr[k]) /\ arr[k].kids # <<>>
             /\ \A i \in KeptBy(o, m, arr[k]) : i \in Pos /\ o[i] \in From(method_map[m][k])
  <2>1. Ranging(method_map[m][k], arr[k])
    BY <1>3 DEF TreeIs
  <2> QED
    BY <1>3, <2>1, CallItem
<1>4. ASSUME NEW k \in 1 .. Len(arr), ofRun(k)
      PROVE  /\ Item(o, d, m, arr[k]) /\ Whole(o, m, arr[k]) /\ arr[k].kids = <<>> /\ arr[k] # NoTree
             /\ \A i \in KeptBy(o, m, arr[k]) : i \in Pos /\ o[i] = m /\ arr[k].s <= i /\ i <= arr[k].e
  <2>1. RunLeaf(OwnedBy(m), arr[k])
    BY <1>4 DEF AreRuns
  <2> HIDE DEF d
  <2> QED
    BY <1>1, <2>1, RunItem
<1>5. ASSUME NEW j \in 1 .. Len(arr), NEW k \in 1 .. Len(arr), j < k, arr[j] # NoTree, arr[k] # NoTree
      PROVE  /\ \A i \in KeptBy(o, m, arr[k]) : i \notin KeptBy(o, m, arr[j])
             /\ arr[j].kids = <<>> => arr[k].kids = <<>>
  <2>1. CASE ofCall(j) /\ ofCall(k)
    <3>1. \A x \in From(method_map[m][j]) : x \notin From(method_map[m][k])
      <4>1. j # k /\ j \in CallsOf(m) /\ k \in CallsOf(m)
        BY <1>5, <2>1
      <4> QED
        BY <4>1, FromApart
    <3> QED
      BY <1>3, <1>5, <2>1, <3>1
  <2>2. CASE ofCall(j) /\ ofRun(k)
    <3>1. m \notin From(method_map[m][j])
      BY <2>2, FromCalls
    <3> QED
      BY <1>3, <1>4, <1>5, <2>2, <3>1, Zenon
  <2>3. CASE ofRun(j) /\ ofRun(k)
    <3>1. j - L < k - L
      BY <1>1, <1>5
    <3>2. arr[j].e < arr[k].s
      BY <2>3, <3>1 DEF AreRuns
    <3>3. \A i \in KeptBy(o, m, arr[k]) : i \in Int /\ arr[k].s <= i
      BY <1>4, <2>3 DEF Pos
    <3>4. \A i \in KeptBy(o, m, arr[j]) : i \in Int /\ i <= arr[j].e
      BY <1>4, <2>3 DEF Pos
    <3>5. arr[k].s \in Int /\ arr[j].e \in Int
      BY <1>4, <2>3 DEF Item, HasRange
    <3> HIDE DEF o
    <3>6. \A i \in KeptBy(o, m, arr[k]) : i \notin KeptBy(o, m, arr[j])
      BY <3>2, <3>3, <3>4, <3>5
    <3> QED
      BY <1>4, <2>3, <3>6
  <2>4. CASE ofRun(j) /\ ofCall(k)
    <3>1. j - L >= 1 /\ k <= L
      BY <1>1, <2>4
    <3> QED
      BY <1>1, <1>5, <3>1
  <2> QED
    BY <1>2, <2>1, <2>2, <2>3, <2>4
<1>6. Children(o, d, m, arr)
  <2> HIDE DEF o, d
  <2> QED
    BY <1>2, <1>3, <1>4, <1>5 DEF Children
<1>7. ASSUME NEW i \in Pos, o[i] \in From(m) PROVE \E b \in Former(arr, Len(arr)) : b.s <= i /\ i <= b.e
  <2>1. CASE o[i] = m
    <3>1. i \in OwnedBy(m)
      BY <2>1 DEF OwnedBy
    <3>2. PICK n \in 1 .. Len(ch) : ch[n].s <= i /\ i <= ch[n].e
      BY <3>1 DEF AreRuns
    <3>3. PICK k \in 1 .. Len(arr) : arr[k] = ch[n]
      OBVIOUS
    <3>4. arr[k] # NoTree
      <4>1. RunLeaf(OwnedBy(m), arr[k])
        BY <3>3 DEF AreRuns
      <4> QED
        BY <1>1, <4>1, RunItem
    <3> QED
      BY <3>2, <3>3, <3>4 DEF Former
  <2>2. CASE o[i] # m
    <3>1. PICK k \in CallsOf(m) : o[i] \in From(method_map[m][k])
      BY <1>7, <2>2, FromCalls
    <3>2. Ranging(method_map[m][k], arr[k])
      BY <3>1 DEF TreeIs
    <3>3. arr[k].s <= i /\ i <= arr[k].e /\ arr[k] # NoTree
      BY <3>1, <3>2, NoTreeIs DEF Ranging
    <3> QED
      BY <3>3 DEF Former
  <2> QED
    BY <2>1, <2>2
<1>8. ASSUME NEW b \in Former(arr, Len(arr)), NEW i \in KeptBy(o, m, b) PROVE i \in Pos /\ o[i] \in From(m)
  <2>1. PICK k \in 1 .. Len(arr) : arr[k] = b /\ b # NoTree
    BY DEF Former
  <2>2. CASE ofCall(k)
    <3>1. i \in Pos /\ o[i] \in From(method_map[m][k])
      BY <1>3, <2>1, <2>2
    <3> QED
      BY <2>2, <3>1, FromCalls
  <2>3. CASE ofRun(k)
    <3>1. i \in Pos /\ o[i] = m
      BY <1>4, <2>1, <2>3
    <3> QED
      BY <3>1, FromFacts
  <2> QED
    BY <1>2, <2>1, <2>2, <2>3
<1> QED
  BY <1>6, <1>7, <1>8

(* If the methods that m calls have trees that range over what they own, so *)
(* has m.                                                                   *)
LEMMA TreeIsStep ==
    ASSUME TypeInv, CallTree, Owners, NEW m \in Ids, NEW g, \A k \in CallsOf(m) :
            TreeIs(method_map[m][k], g[method_map[m][k]])
    PROVE  TreeIs(m, Tree(g, m))
<1> DEFINE nc == [k \in DOMAIN method_map[m] |-> g[method_map[m][k]]]
           ch == indexes_to_children(indexes(m))
           arr == nc \o ch
           d == Len(method_map) - m
           L == Len(method_map[m])
           t == Tree(g, m)
           A == Former(arr, Len(arr))
<1>1. /\ L \in Nat /\ CallsOf(m) = 1 .. L /\ DOMAIN method_map[m] = 1 .. L
      /\ d \in Depths /\ d + 1 \in Depths /\ m \in Nat \ {0} /\ d + 1 = Len(method_map) - m + 1
  BY CallsDomain, MethodsAssumption DEF CallTree, Depths, Ids, CallsOf
<1>2. AreRuns(OwnedBy(m), ch)
  BY IndexesAre, RunsAre
<1> HIDE DEF L
<1>3. /\ DOMAIN nc = 1 .. L /\ Len(nc) = L /\ (\A k \in 1 .. L : nc[k] = g[method_map[m][k]])
      /\ nc \in Seq({nc[k] : k \in 1 .. L})
  <2>1. DOMAIN nc = 1 .. L /\ \A k \in 1 .. L : nc[k] = g[method_map[m][k]]
    BY <1>1
  <2>2. nc = [k \in 1 .. L |-> nc[k]]
    BY <1>1
  <2> HIDE DEF nc
  <2>3. nc \in [1 .. L -> {nc[k] : k \in 1 .. L}]
    BY <2>2
  <2> DEFINE V == {nc[k] : k \in 1 .. L}
  <2> HIDE DEF V
  <2>4. nc \in Seq(V)
    BY <1>1, <2>3, SeqDef DEF V
  <2>5. Len(nc) = L
    <3>1. DOMAIN nc = 1 .. Len(nc) /\ Len(nc) \in Nat
      BY <2>4, LenProperties
    <3> QED
      BY <1>1, <2>1, <3>1
  <2> QED
    BY <2>1, <2>4, <2>5 DEF V
<1>4. t = tree_of(m, indexes(m), nc)
  BY DEF Tree
<1> HIDE DEF nc
<1>5. CASE AssertionFails \in ToSet(nc)
  <2>1. t = AssertionFails
    BY <1>4, <1>5, Zenon DEF tree_of
  <2> HIDE DEF t
  <2>2. TreeIs(m, t)
    BY <2>1 DEF TreeIs
  <2> QED
    BY <2>2 DEF t
<1>6. CASE AssertionFails \notin ToSet(nc)
  <2>1. \A k \in CallsOf(m) : TreeIs(method_map[m][k], nc[k]) /\ nc[k] # AssertionFails
    <3>1. \A k \in 1 .. L : nc[k] \in ToSet(nc)
      BY <1>3 DEF ToSet
    <3> QED
      BY <1>1, <1>3, <1>6, <3>1
  <2> HIDE DEF ch
  <2>2. Len(ch) \in Nat /\ ch \in Seq({ch[k] : k \in 1 .. Len(ch)})
    <3>1. Len(ch) \in Nat /\ \A n \in 1 .. Len(ch) : RunLeaf(OwnedBy(m), ch[n])
      BY <1>2 DEF AreRuns
    <3>2. ch = [n \in 1 .. Len(ch) |-> ch[n]]
      BY <1>2, Zenon DEF AreRuns
    <3> DEFINE V == {ch[k] : k \in 1 .. Len(ch)}
    <3>3. ch \in [1 .. Len(ch) -> V]
      BY <3>2
    <3> HIDE DEF V
    <3>4. ch \in Seq(V)
      BY <3>1, <3>3, SeqDef
    <3> QED
      BY <3>1, <3>4 DEF V
  <2>3. /\ Len(arr) = L + Len(ch) /\ Len(arr) \in Nat
        /\ \A k \in 1 .. L : k \in 1 .. Len(arr) /\ arr[k] = nc[k]
        /\ \A n \in 1 .. Len(ch) : L + n \in 1 .. Len(arr) /\ arr[L + n] = ch[n]
        /\ \A i \in 1 .. Len(arr) : i \in 1 .. L \/ (i - L \in 1 .. Len(ch) /\ arr[i] = ch[i - L])
    <3> DEFINE V == {nc[k] : k \in 1 .. L} \cup {ch[k] : k \in 1 .. Len(ch)}
    <3>1. nc \in Seq(V) /\ ch \in Seq(V)
      BY <1>3, <2>2, SeqMonotonic
    <3> HIDE DEF V
    <3>2. Len(arr) = Len(nc) + Len(ch) /\ \A i \in 1 .. Len(nc) + Len(ch) :
            arr[i] = IF i <= Len(nc) THEN nc[i] ELSE ch[i - Len(nc)]
      BY <3>1, ConcatProperties
    <3> HIDE DEF arr
    <3>3. L \in Nat /\ Len(nc) = L /\ Len(ch) \in Nat
      BY <1>1, <1>3, <2>2
    <3>4. Len(arr) = L + Len(ch) /\ \A i \in 1 .. L + Len(ch) :
            arr[i] = IF i <= L THEN nc[i] ELSE ch[i - L]
      BY <3>2, <3>3
    <3>5. \A k \in 1 .. L : k \in 1 .. Len(arr) /\ arr[k] = nc[k]
      BY <3>3, <3>4
    <3>6. ASSUME NEW n \in 1 .. Len(ch) PROVE L + n \in 1 .. Len(arr) /\ arr[L + n] = ch[n]
      <4>1. L + n \in 1 .. L + Len(ch) /\ ~(L + n <= L) /\ (L + n) - L = n
        BY <3>3
      <4> QED
        BY <3>4, <4>1
    <3>7. \A i \in 1 .. Len(arr) : i \in 1 .. L \/ (i - L \in 1 .. Len(ch) /\ arr[i] = ch[i - L])
      BY <3>3, <3>4
    <3> QED
      BY <3>3, <3>4, <3>5, <3>6, <3>7
  <2> HIDE DEF arr
  <2>4. /\ Children(last_cmp_only, d, m, arr)
        /\ \A i \in Pos : last_cmp_only[i] \in From(m) => \E b \in A : b.s <= i /\ i <= b.e
        /\ \A b \in A : \A i \in KeptBy(last_cmp_only, m, b) : i \in Pos /\ last_cmp_only[i] \in From(m)
    <3>1. \A i \in 1 .. Len(arr) : \/ OfCall(m, nc, i, arr[i])
                                   \/ i - Len(method_map[m]) \in 1 .. Len(ch)
                                         /\ arr[i] = ch[i - Len(method_map[m])]
      BY <1>1, <2>3 DEF OfCall, L
    <3>2. \A n \in 1 .. Len(ch) : \E i \in 1 .. Len(arr) : arr[i] = ch[n]
      BY <2>3
    <3>3. \A k \in CallsOf(m) : k \in 1 .. Len(arr) /\ arr[k] = nc[k]
      BY <1>1, <2>3
    <3> QED
      BY <1>2, <2>1, <2>3, <3>1, <3>2, <3>3, ChildrenOf, Zenon
  <2>5. arr = nc \o indexes_to_children(indexes(m))
    BY DEF arr, ch
  <2> HIDE DEF d, t, A
  <2>6. \/ t = AssertionFails
        \/ t = NoTree /\ A = {}
        \/ Grown(last_cmp_only, d + 1, m, A, t)
    BY <1>1, <1>4, <2>4, <2>5, TreeOf DEF A
  <2>7. CASE t = NoTree /\ A = {}
    <3>1. \A i \in Pos : last_cmp_only[i] \notin From(m)
      BY <2>4, <2>7
    <3> QED
      BY <2>7, <3>1, Zenon DEF TreeIs, t
  <2>8. CASE Grown(last_cmp_only, d + 1, m, A, t)
    <3>1. /\ t \in Level(d + 1) /\ Good(last_cmp_only, t) /\ t.mid = m /\ t.kids # <<>> /\ HasRange(t)
          /\ t.s \in Kept(last_cmp_only, t) /\ t.e \in Kept(last_cmp_only, t)
          /\ \A i \in Kept(last_cmp_only, t) : last_cmp_only[i] = m
                \/ \E b \in A : i \in KeptBy(last_cmp_only, m, b)
          /\ \A b \in A : t.s <= b.s /\ b.e <= t.e
      BY <2>8 DEF Grown
    <3>2. \A i \in Kept(last_cmp_only, t) : last_cmp_only[i] \in From(m)
      BY <2>4, <3>1, FromFacts
    <3>3. ASSUME NEW i \in Pos, last_cmp_only[i] \in From(m) PROVE t.s <= i /\ i <= t.e
      <4>1. PICK b \in A : b.s <= i /\ i <= b.e
        BY <2>4, <3>3
      <4>2. b.s \in Int /\ b.e \in Int
        <5>1. PICK k \in 1 .. Len(arr) : arr[k] = b /\ b # NoTree
          BY DEF A, Former
        <5> QED
          BY <2>4, <5>1 DEF Children, Item, HasRange
      <4>3. t.s <= b.s /\ b.e <= t.e /\ t.s \in Int /\ t.e \in Int /\ i \in Int
        BY <3>1 DEF HasRange, Pos
      <4> QED
        BY <4>1, <4>2, <4>3
    <3>4. Ranging(m, t)
      BY <1>1, <3>1, <3>2, <3>3 DEF Ranging
    <3> QED
      BY <3>4, Zenon DEF TreeIs, t
  <2>9. CASE t = AssertionFails
    BY <2>9, Zenon DEF TreeIs, t
  <2> QED
    BY <2>6, <2>7, <2>8, <2>9
<1> QED
  BY <1>5, <1>6

(* The tree of main ranges over what everything called from main owns.      *)
LEMMA ToTreeIs ==
    ASSUME TypeInv, CallTree, Owners
    PROVE  TreeIs(main, to_tree)
<1>1. PICK t : to_tree = t[main] /\ \A m \in Ids : t[m] = Tree(t, m)
  BY TreesStep
<1> DEFINE N == Len(method_map)
           S == {j \in Nat : \A m \in Ids : N - j < m => TreeIs(m, t[m])}
<1>2. N \in Nat /\ main \in Ids
  BY HeadFacts DEF Ids, main
<1>3. 0 \in S
  BY <1>2 DEF Ids
<1>4. ASSUME NEW j \in Nat, j \in S PROVE j + 1 \in S
  <2>1. SUFFICES ASSUME NEW m \in Ids, N - (j + 1) < m PROVE TreeIs(m, t[m])
    OBVIOUS
  <2>2. ASSUME NEW k \in CallsOf(m) PROVE TreeIs(method_map[m][k], t[method_map[m][k]])
    <3>1. method_map[m][k] \in Ids /\ m < method_map[m][k]
      BY DEF CallTree
    <3>2. N - j < method_map[m][k]
      BY <1>2, <2>1, <3>1 DEF Ids
    <3> QED
      BY <1>4, <3>1, <3>2
  <2>3. TreeIs(m, Tree(t, m))
    BY <2>2, TreeIsStep
  <2> QED
    BY <1>1, <2>3
<1>5. N \in S
  <2> HIDE DEF S, N
  <2> QED
    BY <1>2, <1>3, <1>4, SetInduction
<1>6. N - N < main
  BY <1>2 DEF main
<1>7. TreeIs(main, t[main])
  BY <1>2, <1>5, <1>6
<1> QED
  BY <1>1, <1>7

------------------------------------------------------------------------------
(* What a tree spells                                                       *)

(* The places from s to e.                                                  *)
Places(s, e) == [k \in 1 .. e - s + 1 |-> s + k - 1]

(* What Yield makes of x, with f for itself.                                *)
Spell(f, x) == IF x.kids = <<>> THEN Places(x.s, x.e)
        ELSE FlattenSeq([k \in DOMAIN x.kids |-> f[x.kids[k]]])

(* It looks no further than the children.                                   *)
LEMMA SpellSame ==
    ASSUME NEW x, NEW f, NEW g, \A c \in ToSet(x.kids) : f[c] = g[c]
    PROVE  Spell(f, x) = Spell(g, x)
<1>1. \A k \in DOMAIN x.kids : x.kids[k] \in ToSet(x.kids)
  BY DEF ToSet
<1>2. [k \in DOMAIN x.kids |-> f[x.kids[k]]] = [k \in DOMAIN x.kids |-> g[x.kids[k]]]
  BY <1>1
<1> QED
  BY <1>2, Zenon DEF Spell

(* The function that spells nodes exists.                                   *)
LEMMA SpellExists == \E g : g = [x \in Nodes |-> Spell(g, x)]
<1> DEFINE Eq(g, j) == /\ DOMAIN g = Level(j) /\ g = [x \in Level(j) |-> g[x]]
                       /\ \A x \in Level(j) : g[x] = Spell(g, x)
           I == {j \in Nat : j \in Depths => \E g : Eq(g, j)}
<1>1. 0 \in I
  <2> DEFINE g == [x \in Level(0) |-> Spell(<<>>, x)]
  <2>1. ASSUME NEW x \in Level(0) PROVE g[x] = Spell(g, x)
    <3>1. g[x] = Spell(<<>>, x)
      OBVIOUS
    <3>2. Made(x, {})
      BY LevelMade, MethodsAssumption DEF Depths, Below
    <3>3. ToSet(x.kids) = {}
      BY <3>2 DEF Made
    <3> HIDE DEF g
    <3> QED
      BY <3>1, <3>2, <3>3, SpellSame
  <2>2. Eq(g, 0)
    <3>1. DOMAIN g = Level(0) /\ g = [x \in Level(0) |-> g[x]]
      OBVIOUS
    <3> HIDE DEF g
    <3> QED
      BY <2>1, <3>1
  <2> HIDE DEF g, Eq
  <2> QED
    BY <2>2
<1>2. ASSUME NEW j \in Nat, j \in I PROVE j + 1 \in I
  <2> SUFFICES ASSUME j + 1 \in Depths PROVE \E g : Eq(g, j + 1)
    OBVIOUS
  <2>1. j \in Depths /\ j + 1 # 0 /\ j + 1 - 1 = j /\ j <= j + 1
    BY MethodsAssumption DEF Depths
  <2>2. PICK g : Eq(g, j)
    BY <1>2, <2>1
  <2> DEFINE h == [x \in Level(j + 1) |-> IF x \in Level(j) THEN g[x] ELSE Spell(g, x)]
  <2>3. Level(j) \subseteq Level(j + 1)
    BY <2>1, LevelGrows
  <2>4. \A x \in Level(j) : h[x] = g[x]
    BY <2>3
  <2>5. ASSUME NEW x \in Level(j + 1) PROVE h[x] = Spell(h, x)
    <3>1. Made(x, Level(j))
      BY <2>1, LevelMade DEF Below
    <3>2. \A c \in ToSet(x.kids) : h[c] = g[c]
      BY <2>4, <3>1 DEF Made
    <3>3. h[x] = Spell(g, x)
      <4>1. CASE x \in Level(j)
        BY <2>2, <2>4, <4>1
      <4>2. CASE x \notin Level(j)
        BY <4>2
      <4> QED
        BY <4>1, <4>2
    <3> HIDE DEF h
    <3> QED
      BY <3>1, <3>2, <3>3, SpellSame
  <2>6. Eq(h, j + 1)
    <3>1. DOMAIN h = Level(j + 1) /\ h = [x \in Level(j + 1) |-> h[x]]
      OBVIOUS
    <3> HIDE DEF h
    <3> QED
      BY <2>5, <3>1
  <2> HIDE DEF h, Eq
  <2> QED
    BY <2>6
<1>3. MaxMethods \in I
  <2> HIDE DEF I
  <2> QED
    BY <1>1, <1>2, SetInduction, MethodsAssumption
<1>4. PICK g : Eq(g, MaxMethods)
  BY <1>3, MethodsAssumption DEF Depths
<1>5. g = [x \in Nodes |-> Spell(g, x)]
  BY <1>4 DEF Nodes, Level
<1> QED
  BY <1>5

(* A node spells what its children spell.                                   *)
LEMMA YieldStep ==
    ASSUME NEW x \in Nodes
    PROVE  Yield(x) = IF x.kids = <<>> THEN Places(x.s, x.e)
                      ELSE FlattenSeq([k \in DOMAIN x.kids |-> Yield(x.kids[k])])
<1> DEFINE f == CHOOSE g : g = [y \in Nodes |-> Spell(g, y)]
<1>1. f = [y \in Nodes |-> Spell(f, y)]
  BY SpellExists, Zenon
<1>2. \A n : Yield(n) = f[n]
  BY DEF Yield, Spell, Places
<1> HIDE DEF f
<1>3. f[x] = Spell(f, x)
  BY <1>1
<1>4. [k \in DOMAIN x.kids |-> f[x.kids[k]]] = [k \in DOMAIN x.kids |-> Yield(x.kids[k])]
  BY <1>2
<1> QED
  BY <1>2, <1>3, <1>4 DEF Spell

(* A sequence of sequences, one after the other.                            *)
Flattens(f, q) == /\ DOMAIN f = 1 .. Len(q) /\ f[1] = q[1]
                  /\ \A i \in 1 .. Len(q) - 1 : f[i + 1] = f[i] \o q[i + 1]

(* Sequences can be put one after the other.                                *)
LEMMA FlattenExists ==
    ASSUME NEW q, NEW n \in Nat
    PROVE  \E f : f = [i \in 1 .. n |-> IF i = 1 THEN q[i] ELSE f[i - 1] \o q[i]]
<1> DEFINE B(F, k) == IF k = 1 THEN q[k] ELSE F[k - 1] \o q[k]
           Eq(F, j) == F = [k \in 1 .. j |-> B(F, k)]
           I == {j \in Nat : \E F : Eq(F, j)}
<1>1. 0 \in I
  <2> DEFINE F == [k \in 1 .. 0 |-> {}]
  <2>1. F = [k \in 1 .. 0 |-> B(F, k)]
    <3>1. \A k \in 1 .. 0 : B(F, k) = {}
      OBVIOUS
    <3> HIDE DEF B
    <3> QED
      BY <3>1
  <2> HIDE DEF F, B
  <2> QED
    BY <2>1
<1>2. ASSUME NEW j \in Nat, j \in I PROVE j + 1 \in I
  <2>1. PICK F : Eq(F, j)
    BY <1>2
  <2> DEFINE H == [k \in 1 .. j + 1 |-> IF k = j + 1 THEN B(F, j + 1) ELSE F[k]]
  <2>2. ASSUME NEW k \in 1 .. j + 1 PROVE H[k] = B(H, k)
    <3>1. CASE k = j + 1
      <4>1. H[k] = B(F, k) /\ (k # 1 => k - 1 \in 1 .. j + 1 /\ k - 1 # j + 1)
        BY <3>1
      <4>2. k # 1 => H[k - 1] = F[k - 1]
        BY <4>1
      <4> HIDE DEF H
      <4> QED
        BY <4>1, <4>2
    <3>2. CASE k # j + 1
      <4>1. k \in 1 .. j /\ (k # 1 => k - 1 \in 1 .. j + 1 /\ k - 1 # j + 1)
        BY <3>2
      <4>2. H[k] = F[k] /\ (k # 1 => H[k - 1] = F[k - 1])
        BY <3>2, <4>1
      <4>3. F[k] = B(F, k)
        <5> HIDE DEF B
        <5> QED
          BY <2>1, <4>1
      <4> HIDE DEF H
      <4> QED
        BY <4>2, <4>3
    <3> QED
      BY <3>1, <3>2
  <2>3. Eq(H, j + 1)
    <3>1. H = [k \in 1 .. j + 1 |-> H[k]]
      OBVIOUS
    <3> HIDE DEF H, B
    <3> QED
      BY <2>2, <3>1
  <2> HIDE DEF H, Eq
  <2> QED
    BY <2>3
<1>3. n \in I
  <2> HIDE DEF I
  <2> QED
    BY <1>1, <1>2, SetInduction
<1> QED
  BY <1>3

(* FlattenSeq does so.                                                      *)
LEMMA FlattenStep ==
    ASSUME NEW q, Len(q) \in Nat \ {0}
    PROVE  \E f : Flattens(f, q) /\ FlattenSeq(q) = f[Len(q)]
<1> DEFINE f == CHOOSE g : g = [i \in 1 .. Len(q) |-> IF i = 1 THEN q[i] ELSE g[i - 1] \o q[i]]
<1>1. f = [i \in 1 .. Len(q) |-> IF i = 1 THEN q[i] ELSE f[i - 1] \o q[i]]
  BY FlattenExists, Zenon
<1>2. FlattenSeq(q) = f[Len(q)]
  BY Zenon DEF FlattenSeq
<1> HIDE DEF f
<1>3. Flattens(f, q)
  <2>1. DOMAIN f = 1 .. Len(q) /\ \A i \in 1 .. Len(q) : f[i] = IF i = 1 THEN q[i] ELSE f[i - 1] \o q[i]
    BY <1>1
  <2>2. 1 \in 1 .. Len(q) /\ \A i \in 1 .. Len(q) - 1 : i + 1 \in 1 .. Len(q) /\ i + 1 # 1 /\ i + 1 - 1 = i
    OBVIOUS
  <2>3. f[1] = q[1]
    BY <2>1, <2>2
  <2>4. ASSUME NEW i \in 1 .. Len(q) - 1 PROVE f[i + 1] = f[i] \o q[i + 1]
    <3> DEFINE j == i + 1
    <3>1. j \in 1 .. Len(q) /\ j # 1 /\ j - 1 = i
      BY <2>2
    <3> HIDE DEF j
    <3>2. f[j] = f[j - 1] \o q[j]
      BY <2>1, <3>1
    <3>3. f[j] = f[i] \o q[j]
      BY <3>1, <3>2
    <3> QED
      BY <3>3 DEF j
  <2> QED
    BY <2>1, <2>3, <2>4 DEF Flattens
<1> QED
  BY <1>2, <1>3

(* Neighbouring places join.                                                *)
LEMMA PlacesJoin ==
    ASSUME NEW s \in Int, NEW e \in Int, s <= e, NEW f \in Int, e + 1 <= f
    PROVE  Places(s, e) \o Places(e + 1, f) = Places(s, f)
<1> DEFINE p == Places(s, e)
           q == Places(e + 1, f)
           r == Places(s, f)
           a == e - s + 1
           b == f - (e + 1) + 1
<1>1. a \in Nat /\ b \in Nat /\ f - s + 1 = a + b
  OBVIOUS
<1>2. p \in [1 .. a -> Int] /\ q \in [1 .. b -> Int] /\ r \in [1 .. a + b -> Int]
  BY <1>1 DEF Places
<1>3. \A k \in 1 .. a : p[k] = s + k - 1
  BY DEF Places
<1>4. \A k \in 1 .. b : q[k] = (e + 1) + k - 1
  BY DEF Places
<1>5. \A k \in 1 .. a + b : r[k] = s + k - 1
  BY <1>1 DEF Places
<1>6. a = e - s + 1
  OBVIOUS
<1> HIDE DEF p, q, r, a, b
<1>7. p \in Seq(Int) /\ q \in Seq(Int) /\ r \in Seq(Int)
  <2>1. \A n \in Nat : \A x \in [1 .. n -> Int] : x \in Seq(Int)
    BY SeqDef
  <2>2. a + b \in Nat
    BY <1>1
  <2> QED
    BY <1>1, <1>2, <2>1, <2>2
<1>8. Len(p) = a /\ Len(q) = b /\ Len(r) = a + b
  <2>1. DOMAIN p = 1 .. Len(p) /\ DOMAIN q = 1 .. Len(q) /\ DOMAIN r = 1 .. Len(r)
        /\ Len(p) \in Nat /\ Len(q) \in Nat /\ Len(r) \in Nat
    BY <1>7, LenProperties
  <2> QED
    BY <1>1, <1>2, <2>1
<1>9. /\ p \o q \in Seq(Int) /\ Len(p \o q) = a + b
      /\ \A i \in 1 .. a + b : (p \o q)[i] = IF i <= a THEN p[i] ELSE q[i - a]
  BY <1>7, <1>8, ConcatProperties
<1>10. \A i \in 1 .. a + b : (p \o q)[i] = r[i]
  <2> TAKE i \in 1 .. a + b
  <2>1. CASE i <= a
    <3>1. i \in 1 .. a
      BY <1>1, <2>1
    <3> QED
      BY <1>3, <1>5, <1>9, <2>1, <3>1
  <2>2. CASE ~(i <= a)
    <3>1. i - a \in 1 .. b
      BY <1>1, <2>2
    <3>2. (p \o q)[i] = (e + 1) + (i - a) - 1
      BY <1>4, <1>9, <2>2, <3>1
    <3>3. (e + 1) + (i - a) - 1 = s + i - 1
      BY <1>1, <1>6
    <3> QED
      BY <1>5, <3>2, <3>3
  <2> QED
    BY <2>1, <2>2
<1>11. p \o q = r
  <2> DEFINE u == p \o q
  <2>1. u \in Seq(Int) /\ Len(u) = Len(r) /\ \A i \in 1 .. Len(u) : u[i] = r[i]
    BY <1>8, <1>9, <1>10
  <2> HIDE DEF u
  <2>2. u = r
    BY <1>7, <2>1, SeqEqual
  <2> QED
    BY <2>2 DEF u
<1> QED
  BY <1>11 DEF p, q, r

(* A row of good nodes spells the places it ranges over.                    *)
LEMMA RowYield ==
    ASSUME NEW S, NEW x \in Nodes, Made(x, S), x.kids # <<>>, Row(x),
           \A k \in 1 .. Len(x.kids) : Yield(x.kids[k]) = Places(x.kids[k].s, x.kids[k].e)
    PROVE  Yield(x) = Places(x.s, x.e)
<1> DEFINE n == Len(x.kids)
           q == [k \in DOMAIN x.kids |-> Yield(x.kids[k])]
<1>1. Yield(x) = FlattenSeq(q)
  BY YieldStep
<1>2. /\ n \in Nat \ {0} /\ DOMAIN x.kids = 1 .. n /\ x.s = x.kids[1].s /\ x.e = x.kids[n].e
      /\ \A k \in 1 .. n : x.kids[k].s \in Int /\ x.kids[k].e \in Int /\ x.kids[k].s <= x.kids[k].e
      /\ \A k \in 1 .. n - 1 : x.kids[k + 1].s = x.kids[k].e + 1
  BY DEF Made, Row, HasRange
<1>3. Len(q) = n /\ \A k \in 1 .. n : q[k] = Places(x.kids[k].s, x.kids[k].e)
  <2>1. q = [k \in 1 .. n |-> q[k]] /\ \A k \in 1 .. n : q[k] = Places(x.kids[k].s, x.kids[k].e)
    BY <1>2
  <2> HIDE DEF q, n
  <2> QED
    BY <1>2, <2>1
<1> HIDE DEF q, n
<1>4. PICK f : Flattens(f, q) /\ FlattenSeq(q) = f[n]
  BY <1>2, <1>3, FlattenStep
<1> DEFINE S_ == {k \in Int : k \in 1 .. n => f[k] = Places(x.s, x.kids[k].e) /\ x.s <= x.kids[k].e}
<1>5. 1 \in S_
  BY <1>2, <1>3, <1>4 DEF Flattens
<1>6. ASSUME NEW k \in 1 .. n - 1, k \in S_ PROVE k + 1 \in S_
  <2> DEFINE e == x.kids[k].e
             g == x.kids[k + 1].e
  <2>1. k \in 1 .. n /\ k + 1 \in 1 .. n /\ k + 1 \in Int /\ 1 \in 1 .. n
    BY <1>2
  <2>2. f[k + 1] = f[k] \o q[k + 1] /\ f[k] = Places(x.s, e) /\ q[k + 1] = Places(e + 1, g)
        /\ x.s <= e
    BY <1>2, <1>3, <1>4, <1>6, <2>1 DEF Flattens
  <2>3. x.s \in Int /\ e \in Int /\ g \in Int /\ e + 1 <= g
    BY <1>2, <2>1
  <2> HIDE DEF e, g
  <2>4. Places(x.s, e) \o Places(e + 1, g) = Places(x.s, g)
    BY <2>2, <2>3, PlacesJoin
  <2>5. f[k + 1] = Places(x.s, g)
    BY <2>2, <2>4
  <2>6. x.s <= g
    BY <2>2, <2>3
  <2> QED
    BY <2>1, <2>5, <2>6 DEF g
<1>7. n \in S_
  <2>1. 1 \in Int /\ n \in Int /\ n \in 1 .. n
    BY <1>2
  <2> HIDE DEF S_
  <2> QED
    BY <1>5, <1>6, <2>1, IntervalInduction
<1>8. f[n] = Places(x.s, x.e)
  BY <1>2, <1>7
<1> QED
  BY <1>1, <1>4, <1>8

(* A good node spells the places it ranges over.                            *)
LEMMA GoodYield ==
    ASSUME NEW o, NEW n, Good(o, n)
    PROVE  Yield(n) = Places(n.s, n.e)
<1> DEFINE I == {d \in Nat : d \in Depths => \A x \in Level(d) : Good(o, x) => Yield(x) = Places(x.s, x.e)}
<1>1. ASSUME NEW d \in Depths, NEW x \in Level(d), Good(o, x),
             \A c \in Below(d) : Good(o, c) => Yield(c) = Places(c.s, c.e)
      PROVE  Yield(x) = Places(x.s, x.e)
  <2>1. x \in Nodes /\ Made(x, Below(d))
    BY LevelNodes, LevelMade
  <2>2. CASE x.kids = <<>>
    BY <2>1, <2>2, YieldStep
  <2>3. CASE x.kids # <<>>
    <3>1. Fine(o, x) /\ \A c \in ToSet(x.kids) : Good(o, c)
      BY <1>1, <2>1, <2>3, GoodStep
    <3>2. \A k \in 1 .. Len(x.kids) : x.kids[k] \in ToSet(x.kids) /\ x.kids[k] \in Below(d)
      BY <2>1 DEF Made
    <3>3. \A k \in 1 .. Len(x.kids) : Yield(x.kids[k]) = Places(x.kids[k].s, x.kids[k].e)
      BY <1>1, <3>1, <3>2
    <3> QED
      BY <2>1, <2>3, <3>1, <3>3, RowYield DEF Fine
  <2> QED
    BY <2>2, <2>3
<1>2. 0 \in I
  BY <1>1, MethodsAssumption DEF Below, Depths
<1>3. ASSUME NEW d \in Nat, d \in I PROVE d + 1 \in I
  <2>1. SUFFICES ASSUME d + 1 \in Depths PROVE \A x \in Level(d + 1) : Good(o, x)
          => Yield(x) = Places(x.s, x.e)
    OBVIOUS
  <2>2. d \in Depths /\ Below(d + 1) = Level(d)
    BY <2>1, MethodsAssumption DEF Depths, Below
  <2>3. \A x \in Level(d) : Good(o, x) => Yield(x) = Places(x.s, x.e)
    BY <1>3, <2>2
  <2> HIDE DEF I
  <2> QED
    BY <1>1, <2>1, <2>2, <2>3
<1>4. MaxMethods \in I /\ MaxMethods \in Depths
  <2> HIDE DEF I
  <2> QED
    BY <1>2, <1>3, SetInduction, MethodsAssumption DEF Depths
<1>5. n \in Level(MaxMethods)
  BY DEF Good, Nodes, Level
<1> QED
  BY <1>4, <1>5

------------------------------------------------------------------------------
(* The theorems                                                             *)

(* A mined tree is made of good nodes and ranges over what was compared.    *)
RangesOver(o, q, t) == \/ t = NoTree \/ t = AssertionFails
                       \/ /\ Good(o, t) /\ t.kids # <<>> /\ \A i \in ToSet(q) : i \in t.s .. t.e
                          /\ t.s \in ToSet(q) /\ t.e \in ToSet(q)

TreeInv == tree # NotMined =>
    /\ pc = "last" /\ Left = {} /\ RangesOver(last_cmp_only, order, tree)
    /\ my_trees = IF Accepted(tree) THEN <<tree>> ELSE <<>>
    /\ tree = NoTree => ToSet(order) = {}

MInv == LInv /\ CallTree /\ Owners /\ TreeInv

(* miner makes a good tree of the trace, or its assertion fails, or nothing *)
(* was compared.                                                            *)
LEMMA MineFacts == ASSUME LInv, CallTree, Owners, Mine PROVE TreeInv'
<1>1. TypeInv
  BY DEF LInv
<1>2. TreeIs(main, to_tree)
  BY <1>1, ToTreeIs
<1>3. PICK t : t = to_tree
  OBVIOUS
<1>4. /\ tree' = t /\ pc = "last" /\ Left = {} /\ UNCHANGED lastVars
      /\ my_trees' = IF Accepted(tree') THEN <<tree'>> ELSE <<>>
  BY <1>3 DEF Mine
<1>5. pc' = "last" /\ last_cmp_only' = last_cmp_only /\ order' = order /\ Left' = {}
  <2>1. done' = done /\ comparisons' = comparisons /\ pc' = pc /\ last_cmp_only' = last_cmp_only
          /\ order' = order
    BY <1>4 DEF lastVars
  <2>2. Left' = Left
    BY <2>1 DEF Left
  <2> QED
    BY <1>4, <2>1, <2>2
<1>6. RangesOver(last_cmp_only, order, t)
  <2>1. TreeIs(main, t)
    BY <1>2, <1>3
  <2>2. CASE Ranging(main, t)
    <3>1. From(main) = Ids
      BY <1>1, FromMain
    <3>2. ASSUME NEW i \in ToSet(order) PROVE i \in t.s .. t.e
      <4>1. i \in Pos
        BY <1>1, SeqToSet DEF TypeInv
      <4>2. last_cmp_only[i] \in From(main)
        BY <3>1, <4>1 DEF Owners
      <4> QED
        BY <2>2, <4>1, <4>2 DEF Ranging, HasRange, Pos
    <3>3. t.s \in ToSet(order) /\ t.e \in ToSet(order)
      <4>1. t.s \in Kept(last_cmp_only, t) /\ t.e \in Kept(last_cmp_only, t)
        BY <2>2 DEF Ranging
      <4>2. Kept(last_cmp_only, t) \subseteq Pos
        BY DEF Kept, RunsOf
      <4>3. last_cmp_only[t.s] \in Ids /\ last_cmp_only[t.e] \in Ids
        BY <2>2, <3>1, <4>1 DEF Ranging
      <4> QED
        BY <4>1, <4>2, <4>3 DEF Owners, Ids
    <3> QED
      BY <2>2, <3>2, <3>3 DEF RangesOver, Ranging
  <2> QED
    BY <2>1, <2>2 DEF TreeIs, RangesOver
<1>7. ASSUME t = NoTree PROVE ToSet(order) = {}
  <2>1. From(main) = Ids /\ ToSet(order) \subseteq Pos
    BY <1>1, FromMain, SeqToSet DEF TypeInv
  <2>2. \A i \in Pos : last_cmp_only[i] \notin From(main)
    <3>1. TreeIs(main, t)
      BY <1>2, <1>3
    <3>2. t.e = 0 /\ t.kids = <<>>
      BY <1>7 DEF NoTree, Leaf
    <3>3. AssertionFails.e = -1
      BY DEF AssertionFails, Leaf
    <3> QED
      BY <3>1, <3>2, <3>3 DEF TreeIs, Ranging
  <2> QED
    BY <2>1, <2>2 DEF Owners
<1> QED
  BY <1>4, <1>5, <1>6, <1>7 DEF TreeInv

(* The invariant holds at the start.                                        *)
LEMMA MinvInit == Init => MInv
<1> SUFFICES ASSUME Init PROVE MInv
  OBVIOUS
<1> QED
  BY LastInitInv, CallTreeInit, OwnersInit DEF Init, MInv, TreeInv

(* Every step keeps the invariant.                                          *)
LEMMA MinvNext == MInv /\ [Next]_vars => MInv'
<1> SUFFICES ASSUME MInv, [Next]_vars PROVE MInv'
  OBVIOUS
<1>1. [LastNext]_lastVars
  BY DEF Next, Mine, vars, lastVars
<1>2. TypeInv /\ LInv /\ CallTree /\ Owners /\ TreeInv
  BY DEF MInv, LInv
<1>3. LInv'
  BY <1>1, <1>2, TypeNext, IdsGrowNext, OthersReturnedNext, OwnersNext DEF LInv
<1>4. CallTree' /\ Owners'
  BY <1>1, <1>2, CallTreeNext, OwnersKept
<1>5. TreeInv'
  <2>1. CASE Mine
    BY <1>2, <2>1, MineFacts
  <2>2. ASSUME UNCHANGED lastVars, UNCHANGED <<tree, my_trees>> PROVE TreeInv'
    <3>1. Left' = Left
      BY <2>2 DEF lastVars, Left
    <3> QED
      BY <1>2, <2>2, <3>1 DEF TreeInv, lastVars
  <2>3. CASE LastNext /\ UNCHANGED <<tree, my_trees>>
    <3>1. CASE tree = NotMined
      BY <2>3, <3>1 DEF TreeInv
    <3>2. CASE tree # NotMined
      <4>1. pc = "last" /\ Left = {}
        BY <1>2, <3>2 DEF TreeInv
      <4> QED
        BY <2>3, <4>1 DEF LastNext, Call, Return, Compare, Finish, KeepLast
    <3> QED
      BY <3>1, <3>2
  <2>4. CASE UNCHANGED vars
    BY <2>2, <2>4 DEF vars, lastVars
  <2> QED
    BY <2>1, <2>3, <2>4 DEF Next
<1> QED
  BY <1>3, <1>4, <1>5 DEF MInv

(* Mining a trace changes neither the trace nor the owners.                 *)
THEOREM MiningKeepsTheTrace == Spec => LastSpec
<1>1. Init => LastInit
  BY DEF Init
<1>2. [Next]_vars => [LastNext]_lastVars
  BY DEF Next, Mine, vars, lastVars
<1> QED
  BY <1>1, <1>2, PTL DEF Spec, LastSpec

(* The inductive invariant.                                                 *)
THEOREM MethodTreeHolds == Spec => []MInv
<1> QED
  BY MinvInit, MinvNext, PTL DEF Spec

(* What the invariant says of a tree that was mined.                        *)
LEMMA MinedIs ==
    ASSUME MInv, Mined
    PROVE  /\ Good(last_cmp_only, tree) /\ tree.kids # <<>> /\ \A i \in ToSet(order) : i \in tree.s .. tree.e
           /\ tree.s \in ToSet(order) /\ tree.e \in ToSet(order)
           /\ my_trees = IF Accepted(tree) THEN <<tree>> ELSE <<>>
BY DEF MInv, TreeInv, Mined, RangesOver

(* For every trace, the tree that miner makes spells the part of the input  *)
(* it ranges over: what no_overlap trims and what is filled in leaves no two*)
(* nodes overlapping, none out of order and nothing missing.                *)
THEOREM SpellsHolds == Spec => []Spells
<1>1. ASSUME MInv PROVE Spells
  <2> SUFFICES ASSUME Mined PROVE Yield(tree) = Places(tree.s, tree.e)
    BY DEF Spells, Places
  <2> QED
    BY <1>1, MinedIs, GoodYield
<1> QED
  BY <1>1, MethodTreeHolds, PTL

(* For every trace, the tree ranges over every index that was compared:     *)
(* remove_overlap_from never takes the first or the last of them.           *)
THEOREM NothingComparedIsLostHolds == Spec => []NothingComparedIsLost
<1>1. ASSUME MInv PROVE NothingComparedIsLost
  BY <1>1, MinedIs DEF NothingComparedIsLost
<1> QED
  BY <1>1, MethodTreeHolds, PTL

(* Two ranges of places are the same only if they have the same ends.        *)
LEMMA SamePlaces ==
    ASSUME NEW s \in Nat \ {0}, NEW e \in Nat, NEW n \in Nat \ {0}, s <= e
    PROVE  Places(s, e) = [k \in 1 .. n |-> k] <=> s = 1 /\ e = n
<1>1. ASSUME Places(s, e) = [k \in 1 .. n |-> k] PROVE s = 1 /\ e = n
  <2>1. DOMAIN Places(s, e) = 1 .. e - s + 1 /\ 1 \in 1 .. e - s + 1 /\ Places(s, e)[1] = s + 1 - 1
    BY DEF Places
  <2>2. 1 .. e - s + 1 = 1 .. n /\ s + 1 - 1 = 1
    BY <1>1, <2>1
  <2>3. e - s + 1 \in 1 .. n /\ n \in 1 .. e - s + 1
    BY <2>2
  <2> QED
    BY <2>2, <2>3
<1>2. ASSUME s = 1, e = n PROVE Places(s, e) = [k \in 1 .. n |-> k]
  BY <1>2 DEF Places
<1> QED
  BY <1>1, <1>2

(* For every trace, the last assertion of miner fails exactly when the first *)
(* or the last character was compared by nobody: only between two children   *)
(* is filled in what was not compared.                                       *)
THEOREM FailsAtTheEndsHolds == Spec => []FailsAtTheEnds
<1>1. ASSUME MInv PROVE FailsAtTheEnds
  <2> SUFFICES ASSUME tree \notin {NotMined, AssertionFails}
               PROVE  my_trees = <<tree>> <=> {1, Size} \subseteq ToSet(order)
    BY DEF FailsAtTheEnds
  <2>1. CASE tree = NoTree
    <3>1. my_trees = <<>> /\ ToSet(order) = {}
      BY <1>1, <2>1 DEF MInv, TreeInv, Accepted
    <3> QED
      BY <3>1
  <2>2. CASE Mined
    <3>1. Yield(tree) = Places(tree.s, tree.e)
      BY <1>1, <2>2, MinedIs, GoodYield
    <3>2. /\ \A i \in ToSet(order) : tree.s <= i /\ i <= tree.e
          /\ tree.s \in ToSet(order) /\ tree.e \in ToSet(order) /\ ToSet(order) \subseteq Pos
      <4>1. ToSet(order) \subseteq Pos
        BY <1>1, SeqToSet DEF MInv, LInv, TypeInv
      <4> QED
        BY <1>1, <2>2, <4>1, MinedIs
    <3>3. tree.s \in Nat \ {0} /\ tree.e \in Nat /\ tree.s <= tree.e /\ tree.e <= Size
      BY <3>2, SizeAssumption DEF Pos
    <3>4. {1, Size} \subseteq ToSet(order) <=> tree.s = 1 /\ tree.e = Size
      BY <3>2, <3>3, SizeAssumption DEF Pos
    <3>5. Places(tree.s, tree.e) = [k \in Pos |-> k] <=> tree.s = 1 /\ tree.e = Size
      BY <3>3, SamePlaces, SizeAssumption DEF Pos
    <3>6. Accepted(tree) <=> tree.s = 1 /\ tree.e = Size
      BY <2>2, <3>1, <3>5 DEF Accepted, Mined
    <3>7. my_trees = IF Accepted(tree) THEN <<tree>> ELSE <<>>
      BY <1>1, <2>2, MinedIs
    <3>8. <<tree>> # <<>>
      OBVIOUS
    <3> QED
      BY <3>4, <3>6, <3>7, <3>8
  <2> QED
    BY <2>1, <2>2 DEF Mined
<1> QED
  BY <1>1, MethodTreeHolds, PTL

(* The subtrees of a node are nodes.                                        *)
LEMMA SubtreesNodes == \A n \in Nodes : Subtrees(n) \subseteq Nodes
<1> DEFINE I == {d \in Nat : d \in Depths => \A x \in Level(d) : Subtrees(x) \subseteq Nodes}
<1>1. ASSUME NEW d \in Depths, NEW x \in Level(d), \A c \in Below(d) : Subtrees(c) \subseteq Nodes
      PROVE  Subtrees(x) \subseteq Nodes
  <2>1. x \in Nodes /\ ToSet(x.kids) \subseteq Below(d)
    BY LevelNodes, LevelMade DEF Made
  <2> QED
    BY <1>1, <2>1, SubtreesStep
<1>2. 0 \in I
  BY <1>1, MethodsAssumption DEF Below, Depths
<1>3. ASSUME NEW d \in Nat, d \in I PROVE d + 1 \in I
  <2>1. SUFFICES ASSUME d + 1 \in Depths PROVE \A x \in Level(d + 1) : Subtrees(x) \subseteq Nodes
    OBVIOUS
  <2>2. d \in Depths /\ Below(d + 1) = Level(d)
    BY <2>1, MethodsAssumption DEF Depths, Below
  <2>3. \A x \in Level(d) : Subtrees(x) \subseteq Nodes
    BY <1>3, <2>2
  <2> HIDE DEF I
  <2> QED
    BY <1>1, <2>1, <2>2, <2>3
<1>4. MaxMethods \in I /\ MaxMethods \in Depths
  <2> HIDE DEF I
  <2> QED
    BY <1>2, <1>3, SetInduction, MethodsAssumption DEF Depths
<1> QED
  BY <1>4 DEF Nodes, Level

(* For every trace, indexes_to_children has grouped the contiguous indexes  *)
(* of a method, in whatever order they were compared: neighbouring leaves   *)
(* are not both the method's own.                                           *)
THEOREM LeavesAreMaximalHolds == Spec => []LeavesAreMaximal
<1>1. ASSUME MInv PROVE LeavesAreMaximal
  <2> SUFFICES ASSUME Mined, NEW n \in Subtrees(tree), NEW k \in 1 .. Len(n.kids) - 1,
                      n.kids[k].mid = 0, n.kids[k + 1].mid = 0
               PROVE  \E i \in n.kids[k].s .. n.kids[k + 1].e : last_cmp_only[i] # n.mid
    BY DEF LeavesAreMaximal
  <2>1. Good(last_cmp_only, tree)
    BY <1>1, MinedIs
  <2>2. n \in Nodes /\ tree \in Nodes
    BY <2>1, SubtreesNodes DEF Good
  <2>3. Made(n, Nodes)
    BY <2>2, NodesMade
  <2>4. n.kids # <<>>
    <3>1. n.kids = <<>> => Len(n.kids) = 0
      OBVIOUS
    <3> QED
      BY <3>1
  <2>5. Fine(last_cmp_only, n)
    BY <2>1, <2>4 DEF Good
  <2>6. k \in 1 .. Len(n.kids) /\ k + 1 \in 1 .. Len(n.kids)
    BY <2>3 DEF Made
  <2>7. n.kids[k] \in ToSet(n.kids) /\ n.kids[k + 1] \in ToSet(n.kids) /\ n.kids[k + 1].s = n.kids[k].e + 1
    BY <2>3, <2>5, <2>6 DEF Made, Fine, Row
  <2> QED
    BY <2>5, <2>7 DEF Fine, Maximal
<1> QED
  BY <1>1, MethodTreeHolds, PTL
================================================================================

----------------------------- MODULE ElkHeap_proofs -----------------------------
(* Proofs about the memory of elk, for every size of the memory, set of      *)
(* variables and depth of blocks and calls.                                  *)
EXTENDS ElkHeap, Induction, FiniteSetTheorems, SequenceTheorems, TLAPS

------------------------------------------------------------------------------
(* The invariant                                                            *)

Texts  == Names \cup Imported \cup {"", "code", "ffi", "data", "k"}
Value  == [type : {"num", "obj", "str", "func"}, off : Nat]
Entity == [kind : {"obj", "prop", "str"}, link : Nat, up : Nat, key : Nat, val : Value,
           text : Texts, words : Nat \ {0}]
Memory == UNION {[D -> Entity] : D \in SUBSET Nat}
Heap   == [mem : Memory, brk : Nat, size : Nat, scope : Nat, cbs : Seq([caller : Nat, func : Nat])]
Frame  == [type : {"block", "call", "callback"}, code : Nat, own : Nat, brk1 : Nat, brk2 : Nat]

\* The entities fill the memory up to brk, one behind the other.
Packed(h) ==
    /\ h \in Heap /\ h.brk <= h.size
    /\ \A o \in DOMAIN h.mem : o + h.mem[o].words \in DOMAIN h.mem \cup {h.brk} /\ o + h.mem[o].words <= h.brk
    /\ \A o, p \in DOMAIN h.mem : o < p => o + h.mem[o].words <= p

Props(h, S) == {o \in S : h.mem[o].kind = "prop"}

\* A value refers to an entity in S of the kind its type says.
Points(h, S, v) ==
    is_mem_entity(v) => v.off \in S /\ h.mem[v.off].kind = (IF v.type = "obj" THEN "obj" ELSE "str")

\* S has the global scope and what the callbacks refer to, and what its
\* entities refer to is in S, of the right kind.
Sound(h, S) ==
    /\ S \subseteq DOMAIN h.mem /\ 0 \in S /\ h.mem[0].kind = "obj" /\ h.mem[0].up = 0
    /\ \A o \in S : h.mem[o].kind \in {"obj", "prop"} /\ h.mem[o].link # 0 => h.mem[o].link \in Props(h, S)
    /\ \A o \in Props(h, S) : /\ h.mem[o].link < o
                              /\ h.mem[o].key \in S /\ h.mem[h.mem[o].key].kind = "str"
                              /\ Points(h, S, h.mem[o].val)
    /\ \A i \in DOMAIN h.cbs : LET c == h.cbs[i] IN
           /\ c.caller \in S /\ h.mem[c.caller].kind = "str" /\ h.mem[c.caller].text = "ffi"
           /\ c.func \in S /\ h.mem[c.func].kind = "str" /\ h.mem[c.func].text = "code"

Called(f) == f.type = "callback"

\* sc gives the scopes of the blocks and calls, from the global one inwards.
Nested(h, fs, S, sc) ==
    /\ sc \in [0 .. Len(fs) -> S] /\ sc[0] = 0 /\ sc[Len(fs)] = h.scope
    /\ \A i \in 1 .. Len(fs) : /\ h.mem[sc[i]].kind = "obj" /\ h.mem[sc[i]].up = sc[i - 1]
                               /\ sc[i] # 0 => sc[i - 1] < sc[i]
                               /\ ~Called(fs[i]) => sc[i] = fs[i].own
                               /\ i # 1 => ~Called(fs[i])

\* What a block or call opened upon is still there, below its scope; no value
\* refers to the scope, and the code that runs is in place.
Opened(h, fs, S, sc) ==
    \A j \in 1 .. Len(fs) : LET f == fs[j] IN ~Called(f) =>
        /\ f.brk1 <= f.brk2 /\ f.brk2 <= h.brk
        /\ f.brk1 \in DOMAIN h.mem \cup {h.brk}
        /\ \A i \in 1 .. j - 1 : ~Called(fs[i]) => fs[i].brk2 <= f.brk1
        /\ \A i \in 0 .. j - 1 : sc[i] < f.brk1
        /\ f.brk1 # f.brk2 =>
               /\ f.brk1 \in DOMAIN h.mem /\ h.mem[f.brk1].kind = "obj" /\ f.brk2 = f.brk1 + h.mem[f.brk1].words
               /\ \A o \in Props(h, S) : h.mem[o].val.type = "obj" => h.mem[o].val.off # f.brk1
        /\ f.type = "call" => f.code \in DOMAIN h.mem /\ h.mem[f.code].text = "code" /\ f.code < f.brk1

HeapInv(h, fs, S, sc) ==
    /\ fs \in Seq(Frame) /\ Packed(h) /\ Sound(h, S) /\ Nested(h, fs, S, sc) /\ Opened(h, fs, S, sc)

IInv == ~broken => \E S, sc : HeapInv(heap, frames, S, sc)

------------------------------------------------------------------------------
(* What is found from a set of offsets                                      *)

(* A proper part of a finite set has fewer elements.                         *)
LEMMA Fewer ==
    ASSUME NEW Q, IsFiniteSet(Q), NEW P \in SUBSET Q, P # Q, NEW n \in Nat, Cardinality(Q) < n + 1
    PROVE  Cardinality(P) < n
<1>1. Cardinality(P) \in Nat /\ Cardinality(Q) \in Nat
  BY FS_Subset, FS_CardinalityType
<1>2. Cardinality(P) <= Cardinality(Q) /\ Cardinality(P) # Cardinality(Q)
  BY FS_Subset
<1> QED
  BY <1>1, <1>2

(* Closed is the least set with S and with all that its elements refer to.  *)
LEMMA ClosedIs ==
    ASSUME NEW D \in SUBSET Nat, IsFiniteSet(D), NEW refers \in [D -> SUBSET Nat], NEW S \in SUBSET Nat
    PROVE  /\ Closed(refers, S) \in SUBSET Nat /\ S \subseteq Closed(refers, S)
           /\ \A o \in Closed(refers, S) \cap D : refers[o] \subseteq Closed(refers, S)
           /\ \A U : S \subseteq U /\ (\A o \in U \cap D : refers[o] \subseteq U) => Closed(refers, S) \subseteq U
<1> DEFINE Sets == SUBSET Nat
           X == [Sets -> Sets]
           More(T) == UNION {refers[o] : o \in T \cap DOMAIN refers}
           Grow(T) == T \cup More(T)
           A == [T \in Sets |-> T]
           G == [f \in X |-> [T \in Sets |-> IF More(T) \subseteq T THEN T ELSE f[Grow(T)]]]
           Is(f) == f = [n \in Nat |-> [T \in Sets |-> IF n = 0 \/ More(T) \subseteq T THEN T ELSE f[n - 1][Grow(T)]]]
           from == CHOOSE f : Is(f)
           N == Cardinality(D) + 1
<1>1. DOMAIN refers = D /\ \A T \in Sets : More(T) \in Sets /\ Grow(T) \in Sets
  OBVIOUS
<1>2. Closed(refers, S) = from[N][S]
  BY <1>1 DEF Closed
<1>3. Is(from)
  <2>1. A \in X /\ G \in [X -> X]
    <3>1. A \in X
      OBVIOUS
    <3>2. ASSUME NEW f \in X, NEW T \in Sets
          PROVE  (IF More(T) \subseteq T THEN T ELSE f[Grow(T)]) \in Sets
      <4>1. f[Grow(T)] \in Sets
        BY <1>1
      <4> QED
        BY <4>1
    <3> HIDE DEF Sets, More, Grow
    <3>3. ASSUME NEW f \in X PROVE [T \in Sets |-> IF More(T) \subseteq T THEN T ELSE f[Grow(T)]] \in X
      BY <3>2
    <3> QED
      BY <3>1, <3>3
  <2> HIDE DEF A, G, X
  <2>2. PICK f \in [Nat -> X] : Goes(f, A, G)
    BY <2>1, Iterate
  <2>3. ASSUME NEW n \in Nat
        PROVE  f[n] = [T \in Sets |-> IF n = 0 \/ More(T) \subseteq T THEN T ELSE f[n - 1][Grow(T)]]
    <3>1. CASE n = 0
      BY <2>2, <3>1 DEF A, Goes
    <3>2. CASE n # 0
      <4>1. n - 1 \in Nat /\ (n - 1) + 1 = n
        BY <3>2
      <4>2. f[n] = G[f[n - 1]] /\ f[n - 1] \in X
        BY <2>2, <4>1 DEF Goes
      <4> HIDE DEF More, Grow, Sets
      <4> QED
        BY <3>2, <4>2 DEF G
    <3> QED
      BY <3>1, <3>2
  <2>4. Is(f)
    <3> HIDE DEF More, Grow, Sets
    <3> QED
      BY <2>2, <2>3
  <2> HIDE DEF Is
  <2> QED
    BY <2>4
<1> DEFINE Kept(U) == \A o \in U \cap D : refers[o] \subseteq U
           Good(n) == \A T \in Sets :
               /\ from[n][T] \in Sets /\ T \subseteq from[n][T]
               /\ \A U : T \subseteq U /\ Kept(U) => from[n][T] \subseteq U
               /\ Cardinality(D \ T) < n => Kept(from[n][T])
           I == {n \in Nat : Good(n)}
<1>4. \A n \in Nat, T \in Sets :
          from[n][T] = IF n = 0 \/ More(T) \subseteq T THEN T ELSE from[n - 1][Grow(T)]
  <2> HIDE DEF More, Grow, Sets, from
  <2> SUFFICES ASSUME NEW n \in Nat, NEW T \in Sets
               PROVE  from[n][T] = IF n = 0 \/ More(T) \subseteq T THEN T ELSE from[n - 1][Grow(T)]
    OBVIOUS
  <2> DEFINE row(k) == [V \in Sets |-> IF k = 0 \/ More(V) \subseteq V THEN V ELSE from[k - 1][Grow(V)]]
  <2>1. from = [k \in Nat |-> row(k)]
    BY <1>3, Zenon
  <2>2. row(n)[T] = IF n = 0 \/ More(T) \subseteq T THEN T ELSE from[n - 1][Grow(T)]
    BY Zenon
  <2> HIDE DEF row
  <2>3. from[n] = row(n)
    BY <2>1
  <2> QED
    BY <2>2, <2>3
<1> HIDE DEF from
<1>5. \A T : More(T) \subseteq T <=> Kept(T)
  BY <1>1
<1>6. \A T : Cardinality(D \ T) \in Nat /\ IsFiniteSet(D \ T)
  BY FS_Difference, FS_CardinalityType
<1>7. 0 \in I
  <2> SUFFICES ASSUME NEW T \in Sets
               PROVE  from[0][T] = T /\ ~(Cardinality(D \ T) < 0)
    OBVIOUS
  <2>1. from[0][T] = T
    <3> HIDE DEF More, Grow, Sets
    <3> QED
      BY <1>4
  <2> QED
    BY <1>6, <2>1
<1>8. ASSUME NEW n \in Nat, n \in I PROVE n + 1 \in I
  <2> DEFINE g == from[n + 1]
  <2>1. SUFFICES ASSUME NEW T \in Sets
                 PROVE  /\ g[T] \in Sets /\ T \subseteq g[T]
                        /\ \A U : T \subseteq U /\ Kept(U) => g[T] \subseteq U
                        /\ Cardinality(D \ T) < n + 1 => Kept(g[T])
    OBVIOUS
  <2>2. g[T] = IF More(T) \subseteq T THEN T ELSE from[n][Grow(T)]
    <3>1. n + 1 \in Nat /\ n + 1 # 0 /\ (n + 1) - 1 = n
      OBVIOUS
    <3> HIDE DEF More, Grow, Sets
    <3> QED
      BY <1>4, <3>1
  <2>3. CASE More(T) \subseteq T
    <3>1. g[T] = T
      BY <2>2, <2>3
    <3> HIDE DEF g, More, Kept
    <3> QED
      BY <1>5, <2>3, <3>1
  <2>4. CASE ~(More(T) \subseteq T)
    <3> DEFINE V == Grow(T)
    <3>1. g[T] = from[n][V] /\ V \in Sets /\ T \subseteq V
      BY <1>1, <2>2, <2>4
    <3>2. Good(n)
      BY <1>8
    <3>3. \A U : T \subseteq U /\ Kept(U) => V \subseteq U
      BY <1>1
    <3>4. ASSUME Cardinality(D \ T) < n + 1 PROVE Kept(from[n][V])
      <4>1. CASE D \ V = D \ T
        <5>1. D \cap V = D \cap T
          BY <3>1, <4>1
        <5>2. More(V) = More(T)
          BY <1>1, <5>1
        <5>3. Kept(V) /\ More(V) \subseteq V
          BY <1>5, <5>2
        <5>4. from[n][V] = V
          <6> HIDE DEF More, Grow, V
          <6> QED
            BY <1>4, <3>1, <5>3
        <5> QED
          BY <5>3, <5>4
      <4>2. CASE D \ V # D \ T
        <5>1. D \ V \subseteq D \ T
          BY <3>1
        <5>3. Cardinality(D \ V) < n
          BY <1>6, <3>4, <4>2, <5>1, Fewer
        <5> QED
          BY <3>1, <3>2, <5>3
      <4> QED
        BY <4>1, <4>2
    <3> HIDE DEF g, V, Kept
    <3> QED
      BY <3>1, <3>2, <3>3, <3>4
  <2> QED
    BY <2>3, <2>4
<1>9. N \in Nat /\ Cardinality(D \ S) < N
  <2>1. Cardinality(D) \in Nat /\ Cardinality(D \ S) <= Cardinality(D)
    BY FS_CardinalityType, FS_Subset
  <2> QED
    BY <1>6, <2>1
<1>10. N \in I
  <2> HIDE DEF I, N
  <2> QED
    BY <1>7, <1>8, <1>9, SetInduction
<1> HIDE DEF N
<1> QED
  BY <1>2, <1>9, <1>10

------------------------------------------------------------------------------
(* Memories                                                                 *)

LEMMA MemoryIs ==
    /\ \A m \in Memory : DOMAIN m \subseteq Nat /\ m \in [DOMAIN m -> Entity]
    /\ \A D \in SUBSET Nat : \A m \in [D -> Entity] : m \in Memory
<1>1. ASSUME NEW m \in Memory PROVE DOMAIN m \subseteq Nat /\ m \in [DOMAIN m -> Entity]
  <2>1. PICK D \in SUBSET Nat : m \in [D -> Entity]
    BY DEF Memory
  <2>2. DOMAIN m = D
    BY <2>1
  <2> QED
    BY <2>1, <2>2
<1>2. \A D \in SUBSET Nat : \A m \in [D -> Entity] : m \in Memory
  BY DEF Memory
<1> QED
  BY <1>1, <1>2

(* The fields of a heap, and the entities in it.                             *)
LEMMA HeapIs ==
    ASSUME NEW h \in Heap
    PROVE  /\ h.mem \in Memory /\ h.brk \in Nat /\ h.size \in Nat /\ h.scope \in Nat
           /\ h.cbs \in Seq([caller : Nat, func : Nat])
           /\ DOMAIN h.mem \subseteq Nat /\ h.mem \in [DOMAIN h.mem -> Entity]
           /\ \A o \in DOMAIN h.mem :
                  /\ h.mem[o] \in Entity
                  /\ h.mem[o].kind \in {"obj", "prop", "str"} /\ h.mem[o].words \in Nat \ {0}
                  /\ h.mem[o].link \in Nat /\ h.mem[o].up \in Nat /\ h.mem[o].key \in Nat
                  /\ h.mem[o].val \in Value
                  /\ h.mem[o].val.type \in {"num", "obj", "str", "func"} /\ h.mem[o].val.off \in Nat
<1>1. /\ h.mem \in Memory /\ h.brk \in Nat /\ h.size \in Nat /\ h.scope \in Nat
      /\ h.cbs \in Seq([caller : Nat, func : Nat])
  BY DEF Heap
<1>2. DOMAIN h.mem \subseteq Nat /\ h.mem \in [DOMAIN h.mem -> Entity]
  BY <1>1, MemoryIs
<1>3. ASSUME NEW e \in Entity
      PROVE  /\ e.kind \in {"obj", "prop", "str"} /\ e.words \in Nat \ {0}
             /\ e.link \in Nat /\ e.up \in Nat /\ e.key \in Nat
             /\ e.val \in Value
             /\ e.val.type \in {"num", "obj", "str", "func"} /\ e.val.off \in Nat
  BY DEF Entity, Value
<1> QED
  BY <1>1, <1>2, <1>3

LEMMA Below_brk ==
    ASSUME NEW h, Packed(h)
    PROVE  /\ h \in Heap
           /\ \A o \in DOMAIN h.mem : o \in Nat /\ o < h.brk
           /\ IsFiniteSet(DOMAIN h.mem) /\ h.brk \notin DOMAIN h.mem
<1>1. h \in Heap
  BY DEF Packed
<1>2. ASSUME NEW o \in DOMAIN h.mem PROVE o \in Nat /\ o < h.brk
  <2>1. h.mem[o].words \in Nat \ {0} /\ o \in Nat /\ h.brk \in Nat
    BY <1>1, HeapIs
  <2>2. o + h.mem[o].words <= h.brk
    BY DEF Packed
  <2> QED
    BY <2>1, <2>2
<1>3. IsFiniteSet(DOMAIN h.mem)
  <2>1. DOMAIN h.mem \in SUBSET Nat /\ h.brk \in Nat /\ \A o \in DOMAIN h.mem : o <= h.brk
    BY <1>1, <1>2, HeapIs
  <2> QED
    BY <2>1, FS_BoundedSetOfNaturals
<1>4. h.brk \notin DOMAIN h.mem
  <2>1. h.brk \in Nat
    BY <1>1, HeapIs
  <2> QED
    BY <1>2, <2>1
<1> QED
  BY <1>1, <1>2, <1>3, <1>4

LEMMA EntitiesAre ==
    /\ \A u \in Nat : Object(u) \in Entity
    /\ \A n, k \in Nat, v \in Value : Property(n, k, v) \in Entity
    /\ \A t \in Texts, n \in Nat \ {0} : String(t, n) \in Entity
    /\ None \in Value
<1>1. None \in Value
  BY DEF None, Value
<1>2. \A u \in Nat : Object(u) \in Entity
  BY <1>1 DEF Object, Entity, Texts
<1>3. \A n, k \in Nat, v \in Value : Property(n, k, v) \in Entity
  BY DEF Property, Entity, Texts
<1>4. \A t \in Texts, n \in Nat \ {0} : String(t, n) \in Entity
  BY <1>1 DEF String, Entity
<1> QED
  BY <1>1, <1>2, <1>3, <1>4

(* An entity behind the last one.                                           *)
LEMMA AllocFacts ==
    ASSUME NEW h, Packed(h), NEW e \in Entity, NEW r, r = mkentity(h, e)
    PROVE  /\ r.ok \in BOOLEAN
           /\ ~r.ok => r.h = h /\ r.off = 0 /\ h.brk + e.words > h.size
           /\ r.ok => /\ r.off = h.brk /\ r.h.brk = h.brk + e.words /\ r.h.brk <= h.size
                      /\ r.h.size = h.size /\ r.h.scope = h.scope /\ r.h.cbs = h.cbs
                      /\ DOMAIN r.h.mem = DOMAIN h.mem \cup {h.brk}
                      /\ r.h.mem[h.brk] = e /\ \A o \in DOMAIN h.mem : r.h.mem[o] = h.mem[o]
           /\ Packed(r.h)
<1>1. CASE h.brk + e.words > h.size
  <2>1. r = [h |-> h, ok |-> FALSE, off |-> 0]
    BY <1>1 DEF mkentity
  <2> QED
    BY <1>1, <2>1
<1>2. CASE ~(h.brk + e.words > h.size)
  <2> DEFINE m == [o \in DOMAIN h.mem \cup {h.brk} |-> IF o = h.brk THEN e ELSE h.mem[o]]
             g == [h EXCEPT !.mem = m, !.brk = h.brk + e.words]
  <2>1. r = [h |-> g, ok |-> TRUE, off |-> h.brk]
    BY <1>2 DEF mkentity
  <2>2. h \in Heap /\ e.words \in Nat \ {0} /\ h.brk \in Nat /\ h.size \in Nat
    BY Below_brk, HeapIs DEF Entity
  <2>3. /\ DOMAIN m = DOMAIN h.mem \cup {h.brk} /\ m[h.brk] = e
        /\ \A o \in DOMAIN h.mem : m[o] = h.mem[o]
    BY Below_brk
  <2>4. m \in Memory
    <3>1. DOMAIN m \in SUBSET Nat
      BY <2>2, <2>3, HeapIs
    <3>2. m = [o \in DOMAIN m |-> m[o]]
      OBVIOUS
    <3>3. \A o \in DOMAIN m : m[o] \in Entity
      BY <2>2, <2>3, HeapIs
    <3> HIDE DEF m
    <3> QED
      BY <3>1, <3>2, <3>3, MemoryIs
  <2> HIDE DEF m
  <2>5. g \in Heap
    <3> DEFINE b == h.brk + e.words
    <3>1. b \in Nat /\ g = [h EXCEPT !.mem = m, !.brk = b]
      BY <2>2
    <3> HIDE DEF b, g
    <3> QED
      BY <2>2, <2>4, <3>1 DEF Heap
  <2>6. /\ g.mem = m /\ g.brk = h.brk + e.words /\ g.size = h.size /\ g.scope = h.scope /\ g.cbs = h.cbs
    BY <2>2 DEF Heap
  <2> HIDE DEF g
  <2>7. Packed(g)
    <3>1. g.brk <= g.size
      BY <1>2, <2>2, <2>6
    <3>2. ASSUME NEW o \in DOMAIN m
          PROVE  o + m[o].words \in DOMAIN m \cup {g.brk} /\ o + m[o].words <= g.brk
      <4>1. CASE o = h.brk
        BY <2>2, <2>3, <2>6, <4>1
      <4>2. CASE o \in DOMAIN h.mem
        <5>1. o + h.mem[o].words \in DOMAIN h.mem \cup {h.brk} /\ o + h.mem[o].words <= h.brk
          BY <4>2 DEF Packed
        <5>2. o \in Nat /\ h.mem[o].words \in Nat
          BY <2>2, <4>2, HeapIs
        <5> QED
          BY <2>2, <2>3, <2>6, <4>2, <5>1, <5>2
      <4> QED
        BY <2>3, <4>1, <4>2
    <3>3. ASSUME NEW o \in DOMAIN m, NEW p \in DOMAIN m, o < p
          PROVE  o + m[o].words <= p
      <4>1. CASE o \in DOMAIN h.mem /\ p \in DOMAIN h.mem
        BY <2>3, <3>3, <4>1 DEF Packed
      <4>2. CASE o \in DOMAIN h.mem /\ p = h.brk
        BY <2>3, <4>2 DEF Packed
      <4>3. CASE o = h.brk
        BY <2>2, <2>3, <3>3, <4>3, Below_brk
      <4> QED
        BY <2>3, <4>1, <4>2, <4>3
    <3> QED
      BY <2>5, <2>6, <3>1, <3>2, <3>3 DEF Packed
  <2>8. h.brk + e.words <= h.size
    BY <1>2, <2>2
  <2> QED
    BY <2>1, <2>3, <2>6, <2>7, <2>8
<1> QED
  BY <1>1, <1>2

\* An entity is overwritten by one as long.
Poked(h, o, e, g) ==
    /\ Packed(g) /\ DOMAIN g.mem = DOMAIN h.mem
    /\ g.mem[o] = e /\ \A p \in DOMAIN h.mem : p # o => g.mem[p] = h.mem[p]
    /\ g.brk = h.brk /\ g.size = h.size /\ g.scope = h.scope /\ g.cbs = h.cbs

LEMMA PokeFacts ==
    ASSUME NEW h, Packed(h), NEW o \in DOMAIN h.mem, NEW e \in Entity, e.words = h.mem[o].words,
           NEW g, g = [h EXCEPT !.mem = [h.mem EXCEPT ![o] = e]]
    PROVE  Poked(h, o, e, g)
<1> DEFINE m == [h.mem EXCEPT ![o] = e]
<1>1. h \in Heap
  BY DEF Packed
<1>2. /\ DOMAIN m = DOMAIN h.mem /\ m[o] = e /\ \A p \in DOMAIN h.mem : p # o => m[p] = h.mem[p]
      /\ m \in [DOMAIN h.mem -> Entity]
  BY <1>1, HeapIs
<1>3. m \in Memory
  BY <1>1, <1>2, HeapIs, MemoryIs
<1> HIDE DEF m
<1>4. g \in Heap /\ g.mem = m /\ g.brk = h.brk /\ g.size = h.size /\ g.scope = h.scope /\ g.cbs = h.cbs
  BY <1>1, <1>3 DEF Heap, m
<1>5. \A p \in DOMAIN m : m[p].words = h.mem[p].words
  BY <1>2
<1>6. Packed(g)
  BY <1>2, <1>4, <1>5 DEF Packed
<1> QED
  BY <1>2, <1>4, <1>6 DEF Poked

(* A property in front of the list of an object.                            *)
LEMMA SetpropFacts ==
    ASSUME NEW h, Packed(h), NEW obj \in DOMAIN h.mem, NEW k \in Nat, NEW v \in Value,
           NEW r, r = setprop(h, obj, k, v)
    PROVE  /\ r.ok \in BOOLEAN /\ Packed(r.h)
           /\ r.h.size = h.size /\ r.h.scope = h.scope /\ r.h.cbs = h.cbs
           /\ ~r.ok => r.h.brk = h.brk /\ DOMAIN r.h.mem = DOMAIN h.mem /\ h.brk + 4 > h.size
           /\ r.ok => /\ r.off = h.brk /\ r.h.brk = h.brk + 4
                      /\ DOMAIN r.h.mem = DOMAIN h.mem \cup {h.brk}
                      /\ r.h.mem[h.brk] = Property(h.mem[obj].link, k, v)
           /\ r.h.mem[obj] = [h.mem[obj] EXCEPT !.link = h.brk]
           /\ \A o \in DOMAIN h.mem : o # obj => r.h.mem[o] = h.mem[o]
<1> DEFINE n == h.brk
           e == [h.mem[obj] EXCEPT !.link = n]
           g == [h EXCEPT !.mem = [h.mem EXCEPT ![obj] = e]]
           p == Property(h.mem[obj].link, k, v)
<1>1. r = mkentity(g, p)
  <2>1. g = [h EXCEPT !.mem[obj].link = n]
    OBVIOUS
  <2> QED
    BY <2>1 DEF setprop
<1>2. h \in Heap /\ n \in Nat /\ h.mem[obj] \in Entity /\ h.mem[obj].link \in Nat
  BY Below_brk, HeapIs
<1>3. e \in Entity /\ e.words = h.mem[obj].words
  BY <1>2 DEF Entity
<1>4. p \in Entity /\ p.words = 4
  BY <1>2, EntitiesAre, Zenon DEF Property
<1> HIDE DEF e, g, p, n
<1>5. /\ Packed(g) /\ DOMAIN g.mem = DOMAIN h.mem
      /\ g.mem[obj] = e /\ \A o \in DOMAIN h.mem : o # obj => g.mem[o] = h.mem[o]
      /\ g.brk = h.brk /\ g.size = h.size /\ g.scope = h.scope /\ g.cbs = h.cbs
  <2>1. g = [h EXCEPT !.mem = [h.mem EXCEPT ![obj] = e]]
    BY DEF g
  <2>2. Poked(h, obj, e, g)
    BY <1>3, <2>1, PokeFacts
  <2> QED
    BY <2>2 DEF Poked
<1>6. /\ r.ok \in BOOLEAN
      /\ ~r.ok => r.h = g /\ g.brk + p.words > g.size
      /\ r.ok => /\ r.off = g.brk /\ r.h.brk = g.brk + p.words
                 /\ r.h.size = g.size /\ r.h.scope = g.scope /\ r.h.cbs = g.cbs
                 /\ DOMAIN r.h.mem = DOMAIN g.mem \cup {g.brk}
                 /\ r.h.mem[g.brk] = p /\ \A o \in DOMAIN g.mem : r.h.mem[o] = g.mem[o]
      /\ Packed(r.h)
  BY ONLY <1>1, <1>4, <1>5, AllocFacts
<1>7. CASE r.ok
  BY <1>4, <1>5, <1>6, <1>7 DEF e, p, n
<1>8. CASE ~r.ok
  BY <1>4, <1>5, <1>6, <1>8 DEF e, p, n
<1> QED
  BY <1>7, <1>8

------------------------------------------------------------------------------
(* Lists and scopes                                                         *)

LEMMA HighestIs ==
    ASSUME NEW S \in SUBSET Nat, S # {}, NEW n \in Nat, \A o \in S : o < n
    PROVE  Highest(S) \in S
<1> DEFINE T == {n - o : o \in S}
<1>1. T \in SUBSET Nat /\ T # {}
  <2>1. \A o \in S : n - o \in Nat
    OBVIOUS
  <2> QED
    BY <2>1
<1>2. PICK x \in T : \A y \in T : x <= y
  BY <1>1, LeastNatural
<1>3. PICK o \in S : x = n - o
  BY <1>2
<1>4. \A p \in S : p <= o
  <2> TAKE p \in S
  <2>1. n - o <= n - p
    BY <1>2, <1>3
  <2> QED
    BY <2>1
<1> QED
  BY <1>4 DEF Highest

Rest(h)       == DOMAIN h.mem \ {0}
Listed(h, obj) == Closed([o \in Rest(h) |-> {h.mem[o].link}], {h.mem[obj].link})

(* Listed is the least set with the first property of an object and, with   *)
(* every entity, what its link refers to.                                   *)
LEMMA ListedIs ==
    ASSUME NEW h, Packed(h), NEW obj \in DOMAIN h.mem
    PROVE  /\ Chain(h, obj) = Listed(h, obj) \cap Rest(h)
           /\ h.mem[obj].link \in Listed(h, obj)
           /\ \A o \in Chain(h, obj) : h.mem[o].link \in Listed(h, obj)
           /\ \A U : h.mem[obj].link \in U /\ (\A o \in U \cap Rest(h) : h.mem[o].link \in U)
                       => Listed(h, obj) \subseteq U
<1> DEFINE r == [o \in Rest(h) |-> {h.mem[o].link}]
           T == {h.mem[obj].link}
<1>1. Chain(h, obj) = Listed(h, obj) \cap Rest(h) /\ Listed(h, obj) = Closed(r, T)
  BY DEF Chain, Listed, Rest
<1>2. /\ Rest(h) \in SUBSET Nat /\ IsFiniteSet(Rest(h))
      /\ \A o \in DOMAIN h.mem : h.mem[o].link \in Nat
  BY Below_brk, HeapIs, FS_Subset DEF Rest
<1>3. r \in [Rest(h) -> SUBSET Nat] /\ T \in SUBSET Nat
  BY <1>2 DEF Rest
<1>4. \A o \in Rest(h) : r[o] = {h.mem[o].link}
  OBVIOUS
<1> HIDE DEF r
<1>5. /\ T \subseteq Closed(r, T)
      /\ \A o \in Closed(r, T) \cap Rest(h) : r[o] \subseteq Closed(r, T)
      /\ \A U : T \subseteq U /\ (\A o \in U \cap Rest(h) : r[o] \subseteq U) => Closed(r, T) \subseteq U
  BY <1>2, <1>3, ClosedIs
<1>8. T = {h.mem[obj].link}
  OBVIOUS
<1> HIDE DEF T
<1>6. \A o \in Chain(h, obj) : h.mem[o].link \in Listed(h, obj)
  <2> SUFFICES ASSUME NEW o \in Closed(r, T) \cap Rest(h) PROVE h.mem[o].link \in Closed(r, T)
    BY <1>1
  <2>1. r[o] \subseteq Closed(r, T) /\ r[o] = {h.mem[o].link}
    BY <1>4, <1>5
  <2> QED
    BY <2>1
<1>7. ASSUME NEW U, h.mem[obj].link \in U, \A o \in U \cap Rest(h) : h.mem[o].link \in U
      PROVE  Listed(h, obj) \subseteq U
  <2>1. T \subseteq U
    BY <1>7, <1>8
  <2>2. \A o \in U \cap Rest(h) : r[o] \subseteq U
    BY <1>4, <1>7
  <2> QED
    BY <1>1, <1>5, <2>1, <2>2
<1> QED
  BY <1>1, <1>5, <1>6, <1>7, <1>8

(* The properties of an object that is in use are in use.                   *)
LEMMA ChainFacts ==
    ASSUME NEW h, Packed(h), NEW S, Sound(h, S), NEW obj \in S, h.mem[obj].kind = "obj"
    PROVE  /\ Chain(h, obj) \subseteq Props(h, S)
           /\ \A x : lkp(h, obj, x) # 0 => lkp(h, obj, x) \in Props(h, S)
<1> DEFINE U == Props(h, S) \cup {0}
<1>1. obj \in DOMAIN h.mem /\ S \subseteq DOMAIN h.mem /\ DOMAIN h.mem \subseteq Nat
  BY Below_brk DEF Sound
<1>2. h.mem[obj].link \in U
  BY DEF Sound
<1>3. \A o \in U \cap Rest(h) : h.mem[o].link \in U
  BY DEF Sound, Props, Rest
<1>4. Chain(h, obj) \subseteq Props(h, S)
  <2>1. Listed(h, obj) \subseteq U
    BY <1>1, <1>2, <1>3, ListedIs, Zenon
  <2> QED
    BY <1>1, <2>1, ListedIs DEF Rest
<1>5. ASSUME NEW x, lkp(h, obj, x) # 0 PROVE lkp(h, obj, x) \in Props(h, S)
  <2> DEFINE F == {o \in Chain(h, obj) : h.mem[h.mem[o].key].text = x}
  <2>1. F # {} /\ lkp(h, obj, x) = Highest(F)
    BY <1>5 DEF lkp
  <2>2. F \in SUBSET Nat /\ h.brk \in Nat /\ \A o \in F : o < h.brk
    BY <1>1, <1>4, Below_brk, HeapIs DEF Props
  <2>3. Highest(F) \in F
    <3> HIDE DEF F
    <3> QED
      BY <2>1, <2>2, HighestIs
  <2> QED
    BY <1>4, <2>1, <2>3, Zenon
<1> QED
  BY <1>4, <1>5

(* The scopes are those of the open blocks and calls.                       *)
LEMMA ScopesFacts ==
    ASSUME NEW h, NEW fs, NEW S, NEW sc, HeapInv(h, fs, S, sc)
    PROVE  /\ h.scope \in Scopes(h) /\ Scopes(h) \subseteq {sc[i] : i \in 0 .. Len(fs)}
           /\ \A o \in Scopes(h) : o # 0 => h.mem[o].up \in Scopes(h)
           /\ \A o \in {sc[i] : i \in 0 .. Len(fs)} : o \in S /\ h.mem[o].kind = "obj"
<1> DEFINE r == [o \in Rest(h) |-> {h.mem[o].up}]
           T == {h.scope}
           U == {sc[i] : i \in 0 .. Len(fs)}
<1>1. Packed(h) /\ Sound(h, S) /\ Nested(h, fs, S, sc) /\ Len(fs) \in Nat
  BY LenProperties DEF HeapInv
<1>2. Scopes(h) = Closed(r, T)
  BY DEF Scopes, Rest
<1>3. /\ Rest(h) \in SUBSET Nat /\ IsFiniteSet(Rest(h)) /\ h.scope \in Nat
      /\ \A o \in DOMAIN h.mem : h.mem[o].up \in Nat
  BY <1>1, Below_brk, HeapIs, FS_Subset DEF Rest
<1>4. r \in [Rest(h) -> SUBSET Nat] /\ T \in SUBSET Nat
  BY <1>3 DEF Rest
<1>5. \A o \in Rest(h) : r[o] = {h.mem[o].up}
  OBVIOUS
<1> HIDE DEF r
<1>6. /\ T \subseteq Closed(r, T)
      /\ \A o \in Closed(r, T) \cap Rest(h) : r[o] \subseteq Closed(r, T)
      /\ \A V : T \subseteq V /\ (\A o \in V \cap Rest(h) : r[o] \subseteq V) => Closed(r, T) \subseteq V
  BY <1>3, <1>4, ClosedIs
<1>7. \A o \in U : o \in S /\ h.mem[o].kind = "obj"
  BY <1>1 DEF Nested, Sound
<1>8. T \subseteq U
  BY <1>1 DEF Nested
<1>9. \A o \in U \cap Rest(h) : r[o] \subseteq U
  <2> SUFFICES ASSUME NEW i \in 0 .. Len(fs), sc[i] # 0, sc[i] \in Rest(h) PROVE h.mem[sc[i]].up \in U
    BY <1>5 DEF Rest
  <2>1. i \in 1 .. Len(fs) /\ i - 1 \in 0 .. Len(fs)
    BY <1>1 DEF Nested
  <2>2. h.mem[sc[i]].up = sc[i - 1]
    BY <1>1, <2>1 DEF Nested
  <2> QED
    BY <2>1, <2>2
<1> HIDE DEF T, U
<1>10. Closed(r, T) \subseteq U
  BY <1>6, <1>8, <1>9
<1>11. \A o \in Scopes(h) : o # 0 => h.mem[o].up \in Scopes(h)
  <2> SUFFICES ASSUME NEW o \in Closed(r, T), o # 0 PROVE h.mem[o].up \in Closed(r, T)
    BY <1>2
  <2>1. o \in Rest(h)
    BY <1>1, <1>7, <1>10 DEF Rest, Sound
  <2> QED
    BY <1>5, <1>6, <2>1
<1> QED
  BY <1>2, <1>6, <1>7, <1>10, <1>11 DEF T, U

(* A variable that is found is a property in use.                           *)
LEMMA LookupFacts ==
    ASSUME NEW h, NEW fs, NEW S, NEW sc, HeapInv(h, fs, S, sc), NEW x, lookup(h, x) # 0
    PROVE  lookup(h, x) \in Props(h, S)
<1> DEFINE F == {o \in Scopes(h) : lkp(h, o, x) # 0}
<1>1. Packed(h) /\ Sound(h, S)
  BY DEF HeapInv
<1>2. \A o \in Scopes(h) : o \in S /\ h.mem[o].kind = "obj"
  BY ScopesFacts
<1>3. F # {} /\ lookup(h, x) = lkp(h, Highest(F), x)
  BY DEF lookup
<1>4. F \in SUBSET Nat /\ h.brk \in Nat /\ \A o \in F : o < h.brk
  BY <1>1, <1>2, Below_brk, HeapIs DEF Sound
<1>5. Highest(F) \in F
  <2> HIDE DEF F
  <2> QED
    BY <1>3, <1>4, HighestIs
<1> QED
  BY <1>1, <1>2, <1>3, <1>5, ChainFacts

------------------------------------------------------------------------------
(* What is kept by a collection                                             *)

(* What the scopes and the callbacks reach is in use, and closed.            *)
LEMMA UnmarkedFacts ==
    ASSUME NEW h, NEW fs, NEW S, NEW sc, HeapInv(h, fs, S, sc)
    PROVE  /\ Unmarked(h) \subseteq S /\ Scopes(h) \subseteq Unmarked(h)
           /\ \A o \in Unmarked(h) : Referred(h.mem[o]) \subseteq Unmarked(h)
           /\ 0 \in Scopes(h) => Sound(h, Unmarked(h))
<1> DEFINE D == DOMAIN h.mem
           R == UNION {{h.cbs[i].caller, h.cbs[i].func} : i \in DOMAIN h.cbs}
           T == Scopes(h) \cup R
           r == References(h)
           U == Unmarked(h)
<1>1. Packed(h) /\ Sound(h, S) /\ h \in Heap
  BY Below_brk DEF HeapInv
<1>2. D \in SUBSET Nat /\ IsFiniteSet(D) /\ S \subseteq D
  BY <1>1, Below_brk DEF Sound
<1>3. r \in [D -> SUBSET Nat] /\ \A o \in D : r[o] = Referred(h.mem[o])
  <2>1. ASSUME NEW o \in D PROVE Referred(h.mem[o]) \subseteq Nat
    <3> DEFINE e == h.mem[o]
    <3>1. /\ e.kind \in {"obj", "prop", "str"} /\ e.link \in Nat /\ e.key \in Nat /\ e.val.off \in Nat
      BY <1>1, HeapIs
    <3> HIDE DEF e
    <3>2. Referred(e) \subseteq Nat
      BY <3>1 DEF Referred
    <3> QED
      BY <3>2 DEF e
  <2> QED
    BY <2>1 DEF References
<1>4. T \subseteq S
  BY <1>1, ScopesFacts DEF Sound
<1>5. U = Closed(r, T)
  BY DEF Unmarked
<1> HIDE DEF D, T, r, U
<1>6. /\ T \subseteq U
      /\ \A o \in U \cap D : r[o] \subseteq U
      /\ \A V : T \subseteq V /\ (\A o \in V \cap D : r[o] \subseteq V) => U \subseteq V
  <2>1. T \in SUBSET Nat
    BY <1>2, <1>4
  <2> QED
    BY <1>2, <1>3, <1>5, <2>1, ClosedIs
<1>7. \A o \in S : r[o] \subseteq S
  <2> SUFFICES ASSUME NEW o \in S PROVE Referred(h.mem[o]) \subseteq S
    BY <1>2, <1>3
  <2>1. h.mem[o].kind \in {"obj", "prop", "str"}
    BY <1>1, <1>2, HeapIs DEF D
  <2>2. CASE h.mem[o].kind = "obj"
    BY <1>1, <2>2 DEF Referred, Sound, Props
  <2>3. CASE h.mem[o].kind = "prop"
    <3>1. o \in Props(h, S)
      BY <2>3 DEF Props
    <3>2. h.mem[o].link \in S
      BY <1>1, <2>3 DEF Sound, Props
    <3>3. h.mem[o].key \in S /\ (is_mem_entity(h.mem[o].val) => h.mem[o].val.off \in S)
      BY <1>1, <3>1 DEF Sound, Points
    <3>4. Referred(h.mem[o]) = {h.mem[o].link, h.mem[o].key}
              \cup (IF is_mem_entity(h.mem[o].val) THEN {h.mem[o].val.off} ELSE {})
      BY <2>3 DEF Referred
    <3> QED
      BY <3>2, <3>3, <3>4
  <2>4. CASE h.mem[o].kind = "str"
    BY <2>4 DEF Referred
  <2> QED
    BY <2>1, <2>2, <2>3, <2>4
<1>8. U \subseteq S
  BY <1>4, <1>6, <1>7
<1>9. \A o \in U : Referred(h.mem[o]) \subseteq U
  BY <1>2, <1>3, <1>6, <1>8
<1>10. ASSUME 0 \in Scopes(h) PROVE Sound(h, U)
  <2>1. /\ U \subseteq D /\ 0 \in U /\ h.mem[0].kind = "obj" /\ h.mem[0].up = 0
    BY <1>1, <1>2, <1>6, <1>8, <1>10 DEF T, Sound
  <2>2. ASSUME NEW o \in U, h.mem[o].kind \in {"obj", "prop"} PROVE h.mem[o].link \in U
    <3>1. h.mem[o].link \in Referred(h.mem[o])
      BY <2>2 DEF Referred
    <3> QED
      BY <1>9, <3>1
  <2>3. ASSUME NEW o \in U, h.mem[o].kind = "prop"
        PROVE  h.mem[o].key \in U /\ (is_mem_entity(h.mem[o].val) => h.mem[o].val.off \in U)
    <3>1. Referred(h.mem[o]) = {h.mem[o].link, h.mem[o].key}
              \cup (IF is_mem_entity(h.mem[o].val) THEN {h.mem[o].val.off} ELSE {})
      BY <2>3 DEF Referred
    <3> QED
      BY <1>9, <3>1
  <2>4. \A o \in U : h.mem[o].kind \in {"obj", "prop"} /\ h.mem[o].link # 0 => h.mem[o].link \in Props(h, U)
    BY <1>1, <1>8, <2>2 DEF Sound, Props
  <2>5. ASSUME NEW o \in Props(h, U)
        PROVE  /\ h.mem[o].link < o
               /\ h.mem[o].key \in U /\ h.mem[h.mem[o].key].kind = "str"
               /\ Points(h, U, h.mem[o].val)
    <3>1. o \in U /\ o \in Props(h, S) /\ h.mem[o].kind = "prop"
      BY <1>8 DEF Props
    <3>2. h.mem[o].link < o /\ h.mem[h.mem[o].key].kind = "str" /\ Points(h, S, h.mem[o].val)
      BY <1>1, <3>1 DEF Sound
    <3> QED
      BY <2>3, <3>1, <3>2 DEF Points
  <2>6. \A i \in DOMAIN h.cbs : h.cbs[i].caller \in U /\ h.cbs[i].func \in U
    BY <1>6 DEF T
  <2>7. \A i \in DOMAIN h.cbs : LET c == h.cbs[i] IN
            /\ c.caller \in U /\ h.mem[c.caller].kind = "str" /\ h.mem[c.caller].text = "ffi"
            /\ c.func \in U /\ h.mem[c.func].kind = "str" /\ h.mem[c.func].text = "code"
    BY <1>1, <2>6 DEF Sound
  <2> QED
    BY <2>1, <2>4, <2>5, <2>7 DEF Sound, D
<1> QED
  BY <1>6, <1>8, <1>9, <1>10 DEF U, T

\* Where an offset goes when n words at off are deleted.
Down(off, n, o) == IF o > off THEN o - n ELSE o

(* Entities move down without meeting.                                      *)
LEMMA DownFacts ==
    ASSUME NEW h, Packed(h), NEW off \in DOMAIN h.mem, NEW n, n = h.mem[off].words
    PROVE  /\ off \in Nat /\ n \in Nat \ {0} /\ h.brk \in Nat /\ off + n <= h.brk
           /\ \A o \in DOMAIN h.mem : o # off => /\ o \in Nat /\ Down(off, n, o) \in Nat
                                                 /\ o < off \/ (off + n <= o /\ Down(off, n, o) = o - n)
                                                 /\ Down(off, n, o) <= o
           /\ \A o, p \in DOMAIN h.mem : o # off /\ p # off => (o < p <=> Down(off, n, o) < Down(off, n, p))
           /\ \A o, p \in DOMAIN h.mem : o # off /\ p # off /\ Down(off, n, o) = Down(off, n, p) => o = p
<1>1. /\ off \in Nat /\ n \in Nat \ {0} /\ h.brk \in Nat /\ off + n <= h.brk
      /\ \A o \in DOMAIN h.mem : o \in Nat
  BY Below_brk, HeapIs DEF Packed
<1>2. \A o \in DOMAIN h.mem : o # off => o < off \/ off + n <= o
  <2> SUFFICES ASSUME NEW o \in DOMAIN h.mem, off < o PROVE off + n <= o
    BY <1>1
  <2> QED
    BY DEF Packed
<1>3. \A o \in DOMAIN h.mem : o # off => /\ Down(off, n, o) \in Nat /\ Down(off, n, o) <= o
                                         /\ o < off \/ (off + n <= o /\ Down(off, n, o) = o - n)
  BY <1>1, <1>2 DEF Down
<1>4. ASSUME NEW o \in DOMAIN h.mem, NEW p \in DOMAIN h.mem, o # off, p # off
      PROVE  o < p <=> Down(off, n, o) < Down(off, n, p)
  BY <1>1, <1>2, <1>4 DEF Down
<1>5. ASSUME NEW o \in DOMAIN h.mem, NEW p \in DOMAIN h.mem, o # off, p # off, Down(off, n, o) = Down(off, n, p)
      PROVE  o = p
  BY <1>1, <1>3, <1>4, <1>5
<1> QED
  BY <1>1, <1>3, <1>4, <1>5

(* js_fixup_offsets on an entity that does not refer to the deleted one.     *)
LEMMA FixedFacts ==
    ASSUME NEW e \in Entity, NEW off \in Nat, NEW n \in Nat, e.kind # "str" => e.link # off,
           NEW f, f = Fixed(e, off, n)
    PROVE  /\ f.kind = e.kind /\ f.up = e.up /\ f.text = e.text /\ f.words = e.words
           /\ f.link = (IF e.kind = "str" THEN e.link ELSE Down(off, n, e.link))
           /\ f.key = (IF e.kind = "prop" THEN Down(off, n, e.key) ELSE e.key)
           /\ f.val.type = e.val.type
           /\ f.val.off = (IF e.kind = "prop" /\ is_mem_entity(e.val) THEN Down(off, n, e.val.off) ELSE e.val.off)
           /\ f.link \in Nat /\ f.key \in Nat /\ f.val.off \in Nat => f \in Entity
<1> DEFINE l == IF e.kind # "str" /\ (IF e.kind = "prop" THEN e.link >= off ELSE e.link > off)
                THEN e.link - n ELSE e.link
           k == IF e.kind = "prop" /\ e.key > off THEN e.key - n ELSE e.key
           w == IF e.kind = "prop" /\ is_mem_entity(e.val) /\ e.val.off > off
                THEN e.val.off - n ELSE e.val.off
           v == [e.val EXCEPT !.off = w]
<1>1. f = [e EXCEPT !.link = l, !.key = k, !.val = v]
  BY Zenon DEF Fixed
<1>2. /\ e.kind \in {"obj", "prop", "str"} /\ e.link \in Nat /\ e.key \in Nat /\ e.val \in Value
      /\ e.val.off \in Nat /\ e.val.type \in {"num", "obj", "str", "func"}
  BY DEF Entity, Value
<1>3. l = (IF e.kind = "str" THEN e.link ELSE Down(off, n, e.link))
  BY <1>2 DEF Down
<1>4. k = (IF e.kind = "prop" THEN Down(off, n, e.key) ELSE e.key)
  BY DEF Down
<1>5. /\ v.type = e.val.type
      /\ v.off = (IF e.kind = "prop" /\ is_mem_entity(e.val) THEN Down(off, n, e.val.off) ELSE e.val.off)
      /\ v.off \in Nat => v \in Value
  BY <1>2 DEF Down, Value
<1> HIDE DEF l, k, v
<1>6. /\ f.kind = e.kind /\ f.up = e.up /\ f.text = e.text /\ f.words = e.words
      /\ f.link = l /\ f.key = k /\ f.val = v
      /\ l \in Nat /\ k \in Nat /\ v \in Value => f \in Entity
  BY <1>1 DEF Entity
<1> QED
  BY <1>3, <1>4, <1>5, <1>6

------------------------------------------------------------------------------
(* js_delete_marked_entities                                                *)

Live(h, marked) == DOMAIN h.mem \ marked

\* What the loop keeps: the memory is packed, and what is not marked sound.
Sweeping(t) ==
    /\ Packed(t.h) /\ t.marked \subseteq DOMAIN t.h.mem /\ Sound(t.h, Live(t.h, t.marked))
    /\ t.h.scope \in Live(t.h, t.marked)
    /\ t.off \in DOMAIN t.h.mem \cup {t.h.brk}

(* One entity is deleted: the fields of what is left.                       *)
LEMMA WithoutFields ==
    ASSUME NEW h, Packed(h), NEW marked \in SUBSET DOMAIN h.mem, NEW off \in marked,
           Sound(h, Live(h, marked)), h.scope \in Live(h, marked),
           NEW n, n = h.mem[off].words, NEW r, r = Without(h, off, marked)
    PROVE  /\ r.off = off /\ r.marked = {Down(off, n, o) : o \in marked \ {off}}
           /\ DOMAIN r.h.mem = {Down(off, n, o) : o \in DOMAIN h.mem \ {off}}
           /\ \A o \in DOMAIN h.mem \ {off} :
                  r.h.mem[Down(off, n, o)] = IF o \in marked THEN h.mem[o] ELSE Fixed(h.mem[o], off, n)
           /\ \A o \in DOMAIN h.mem \ {off} : r.h.mem[Down(off, n, o)] \in Entity
           /\ r.h \in Heap /\ r.h.brk = h.brk - n /\ r.h.size = h.size /\ r.h.scope = Down(off, n, h.scope)
           /\ DOMAIN r.h.cbs = DOMAIN h.cbs
           /\ \A i \in DOMAIN h.cbs : /\ r.h.cbs[i].caller = Down(off, n, h.cbs[i].caller)
                                      /\ r.h.cbs[i].func = Down(off, n, h.cbs[i].func)
<1> DEFINE kept == DOMAIN h.mem \ {off}
           entity(o) == IF o \in marked THEN h.mem[o] ELSE Fixed(h.mem[o], off, n)
           D == {Down(off, n, o) : o \in kept}
           m == [p \in D |-> entity(CHOOSE o \in kept : Down(off, n, o) = p)]
           c == [i \in DOMAIN h.cbs |-> [caller |-> Down(off, n, h.cbs[i].caller), func |-> Down(off, n, h.cbs[i].func)]]
           b == h.brk - n
           s == Down(off, n, h.scope)
           g == [mem |-> m, brk |-> b, size |-> h.size, scope |-> s, cbs |-> c]
<1>1. r = [h |-> g, off |-> off, marked |-> {Down(off, n, o) : o \in marked \ {off}}]
  <2> DEFINE entityOf(w, o) == IF o \in marked THEN h.mem[o] ELSE Fixed(h.mem[o], off, w)
             At(w) == [h |-> [mem |-> [p \in {Down(off, w, o) : o \in kept} |->
                                           entityOf(w, CHOOSE o \in kept : Down(off, w, o) = p)],
                              brk |-> h.brk - w, size |-> h.size, scope |-> Down(off, w, h.scope),
                              cbs |-> [i \in DOMAIN h.cbs |-> [caller |-> Down(off, w, h.cbs[i].caller),
                                                              func |-> Down(off, w, h.cbs[i].func)]]],
                       off |-> off, marked |-> {Down(off, w, o) : o \in marked \ {off}}]
  <2>1. r = At(h.mem[off].words)
    BY Zenon DEF Without, Down
  <2>2. r = At(n)
    <3> HIDE DEF At
    <3> QED
      BY <2>1
  <2> QED
    BY <2>2, Zenon
<1>2. /\ h \in Heap /\ off \in DOMAIN h.mem /\ off \in Nat /\ n \in Nat \ {0} /\ h.brk \in Nat /\ off + n <= h.brk
      /\ \A o \in kept : o \in Nat /\ Down(off, n, o) \in Nat
      /\ \A o, p \in kept : Down(off, n, o) = Down(off, n, p) => o = p
  BY Below_brk, DownFacts
<1>3. \A o \in kept : Down(off, n, o) \in D /\ m[Down(off, n, o)] = entity(o)
  <2> TAKE o \in kept
  <2> DEFINE q == CHOOSE p \in kept : Down(off, n, p) = Down(off, n, o)
  <2>1. q \in kept /\ Down(off, n, q) = Down(off, n, o)
    OBVIOUS
  <2>2. q = o
    <3> HIDE DEF q, kept
    <3> QED
      BY <1>2, <2>1
  <2>3. Down(off, n, o) \in D
    OBVIOUS
  <2>4. m[Down(off, n, o)] = entity(q)
    BY <2>3
  <2> HIDE DEF m, D, entity, q
  <2> QED
    BY <2>2, <2>3, <2>4
<1>4. \A o \in kept : entity(o) \in Entity
  <2> TAKE o \in kept
  <2>1. h.mem[o] \in Entity
    BY <1>2, HeapIs
  <2>2. CASE o \in marked
    BY <2>1, <2>2
  <2>3. CASE o \notin marked
    <3> DEFINE e == h.mem[o]
               L == Live(h, marked)
    <3>1. o \in L /\ off \notin L /\ L \subseteq kept /\ 0 \in L
      BY <2>3 DEF Live, Sound
    <3>2. /\ e.kind \in {"obj", "prop", "str"} /\ e.link \in Nat /\ e.key \in Nat /\ e.val.off \in Nat
      BY <1>2, HeapIs
    <3>3. e.kind # "str" => e.link \in L
      BY <3>1, <3>2 DEF Sound, Props
    <3>4. e.kind = "prop" => e.key \in L /\ (is_mem_entity(e.val) => e.val.off \in L)
      BY <3>1 DEF Sound, Props, Points
    <3> HIDE DEF e, L, kept
    <3>5. \A p \in L : p # off /\ Down(off, n, p) \in Nat
      BY <1>2, <3>1
    <3> DEFINE f == Fixed(e, off, n)
    <3>6. /\ f.link = (IF e.kind = "str" THEN e.link ELSE Down(off, n, e.link))
          /\ f.key = (IF e.kind = "prop" THEN Down(off, n, e.key) ELSE e.key)
          /\ f.val.off = (IF e.kind = "prop" /\ is_mem_entity(e.val) THEN Down(off, n, e.val.off) ELSE e.val.off)
          /\ f.link \in Nat /\ f.key \in Nat /\ f.val.off \in Nat => f \in Entity
      <4>1. e \in Entity /\ (e.kind # "str" => e.link # off)
        BY <2>1, <3>3, <3>5 DEF e
      <4> QED
        BY <1>2, <4>1, FixedFacts
    <3> HIDE DEF f
    <3>7. f \in Entity
      BY <3>2, <3>3, <3>4, <3>5, <3>6
    <3> QED
      BY <2>3, <3>7 DEF f, e
  <2> QED
    BY <2>2, <2>3
<1>5. m \in Memory
  <2>1. D \in SUBSET Nat
    BY <1>2
  <2>2. \A p \in D : \E o \in kept : p = Down(off, n, o)
    OBVIOUS
  <2>3. m = [p \in D |-> m[p]]
    OBVIOUS
  <2> HIDE DEF m, entity, D
  <2>4. \A p \in D : m[p] \in Entity
    BY <1>3, <1>4, <2>2
  <2>5. m \in [D -> Entity]
    BY <2>3, <2>4
  <2> QED
    BY <2>1, <2>5, MemoryIs
<1>6. b \in Nat /\ s \in Nat
  <2>1. h.scope \in kept
    BY DEF Live
  <2> QED
    BY <1>2, <2>1
<1>7. c \in Seq([caller : Nat, func : Nat]) /\ DOMAIN c = DOMAIN h.cbs
  <2>1. h.cbs \in Seq([caller : Nat, func : Nat])
    BY <1>2, HeapIs
  <2>2. \A i \in DOMAIN h.cbs : h.cbs[i].caller \in kept /\ h.cbs[i].func \in kept
    BY DEF Sound, Live
  <2>3. \A i \in DOMAIN h.cbs : c[i] \in [caller : Nat, func : Nat]
    BY <1>2, <2>2
  <2>4. DOMAIN h.cbs = 1 .. Len(h.cbs) /\ Len(h.cbs) \in Nat
    BY <2>1, LenProperties
  <2>5. c = [i \in 1 .. Len(h.cbs) |-> c[i]]
    BY <2>4
  <2> HIDE DEF c
  <2>6. c \in [1 .. Len(h.cbs) -> [caller : Nat, func : Nat]]
    BY <2>3, <2>4, <2>5
  <2> QED
    BY <2>4, <2>5, <2>6, SeqDef
<1>8. \A i \in DOMAIN h.cbs : /\ c[i].caller = Down(off, n, h.cbs[i].caller)
                              /\ c[i].func = Down(off, n, h.cbs[i].func)
  OBVIOUS
<1>9. DOMAIN m = D
  OBVIOUS
<1> HIDE DEF m, c, b, s
<1>10. /\ g \in Heap /\ g.mem = m /\ g.brk = b /\ g.size = h.size /\ g.scope = s /\ g.cbs = c
  BY <1>2, <1>5, <1>6, <1>7, HeapIs DEF Heap
<1> HIDE DEF g
<1>11. \A o \in kept : m[Down(off, n, o)] \in Entity
  BY <1>3, <1>4
<1>12. r.h = g /\ r.off = off /\ r.marked = {Down(off, n, o) : o \in marked \ {off}}
  BY <1>1
<1> HIDE DEF entity
<1> QED
  BY <1>3, <1>7, <1>8, <1>9, <1>10, <1>11, <1>12 DEF b, s, entity

(* The memory stays packed when an entity is deleted.                       *)
LEMMA WithoutPacked ==
    ASSUME NEW h, Packed(h), NEW marked \in SUBSET DOMAIN h.mem, NEW off \in marked,
           Sound(h, Live(h, marked)), h.scope \in Live(h, marked),
           NEW n, n = h.mem[off].words, NEW r, r = Without(h, off, marked)
    PROVE  Packed(r.h) /\ off \in DOMAIN r.h.mem \cup {r.h.brk}
<1> DEFINE kept == DOMAIN h.mem \ {off}
           g == r.h
<1>1. /\ h \in Heap /\ off \in DOMAIN h.mem /\ off \in Nat /\ n \in Nat \ {0} /\ h.brk \in Nat /\ off + n <= h.brk
      /\ h.size \in Nat /\ h.brk <= h.size
      /\ \A o \in kept : /\ o \in Nat /\ Down(off, n, o) \in Nat
                         /\ o < off \/ (off + n <= o /\ Down(off, n, o) = o - n)
      /\ \A o, p \in kept : o < p <=> Down(off, n, o) < Down(off, n, p)
  <2>1. /\ h \in Heap /\ off \in DOMAIN h.mem /\ \A o \in DOMAIN h.mem : o \in Nat /\ o < h.brk
    BY Below_brk
  <2>2. n \in Nat \ {0} /\ h.brk \in Nat /\ h.size \in Nat
    BY <2>1, HeapIs DEF Heap
  <2>3. off + n <= h.brk /\ h.brk <= h.size
    BY <2>1 DEF Packed
  <2>4. /\ \A o \in kept : /\ o \in Nat /\ Down(off, n, o) \in Nat
                           /\ o < off \/ (off + n <= o /\ Down(off, n, o) = o - n)
        /\ \A o, p \in kept : o < p <=> Down(off, n, o) < Down(off, n, p)
    BY DownFacts
  <2> QED
    BY <2>1, <2>2, <2>3, <2>4
<1>2. /\ DOMAIN g.mem = {Down(off, n, o) : o \in kept}
      /\ \A o \in kept : g.mem[Down(off, n, o)] = IF o \in marked THEN h.mem[o] ELSE Fixed(h.mem[o], off, n)
      /\ g \in Heap /\ g.brk = h.brk - n /\ g.size = h.size
  BY WithoutFields
<1>3. \A o \in kept : o \in DOMAIN h.mem /\ o \in Nat /\ h.mem[o].words \in Nat \ {0}
  BY <1>1, HeapIs
<1>4. \A o \in kept : g.mem[Down(off, n, o)].words = h.mem[o].words
  <2> TAKE o \in kept
  <2>1. CASE o \in marked
    BY <1>2, <2>1
  <2>2. CASE o \notin marked
    <3>1. h.mem[o] \in Entity /\ (h.mem[o].kind # "str" => h.mem[o].link # off)
      <4>1. o \in Live(h, marked) /\ off \notin Live(h, marked) /\ 0 \in Live(h, marked)
        BY <2>2 DEF Live, Sound
      <4>2. h.mem[o] \in Entity /\ h.mem[o].kind \in {"obj", "prop", "str"}
        BY <1>1, HeapIs
      <4>3. h.mem[o].kind # "str" => h.mem[o].link \in Live(h, marked)
        BY <4>1, <4>2 DEF Sound, Props
      <4> QED
        BY <4>1, <4>2, <4>3
    <3> DEFINE f == Fixed(h.mem[o], off, n)
    <3>2. f.words = h.mem[o].words
      BY <1>1, <3>1, FixedFacts
    <3> QED
      BY <1>2, <2>2, <3>2
  <2> QED
    BY <2>1, <2>2
<1>5. \A o \in kept : /\ o + h.mem[o].words \in DOMAIN h.mem \cup {h.brk} /\ o + h.mem[o].words <= h.brk
                      /\ o < off => o + h.mem[o].words <= off
                      /\ \A p \in kept : o < p => o + h.mem[o].words <= p
  BY <1>1 DEF Packed
<1>6. off + n \in DOMAIN h.mem \cup {h.brk}
  BY <1>1 DEF Packed
<1>7. off \in DOMAIN g.mem \cup {g.brk}
  <2>1. CASE off + n = h.brk
    BY <1>1, <1>2, <2>1
  <2>2. CASE off + n \in DOMAIN h.mem
    <3>1. off + n \in kept /\ Down(off, n, off + n) = off
      BY <1>1, <2>2 DEF Down
    <3> QED
      BY <1>2, <3>1
  <2> QED
    BY <1>6, <2>1, <2>2
<1>8. g.brk <= g.size
  BY <1>1, <1>2
<1>9. ASSUME NEW o \in kept
      PROVE  LET q == Down(off, n, o) IN
             q + h.mem[o].words \in DOMAIN g.mem \cup {g.brk} /\ q + h.mem[o].words <= g.brk
  <2> DEFINE w == h.mem[o].words
             q == Down(off, n, o)
             u == o + w
  <2>1. w \in Nat \ {0} /\ o \in Nat /\ u \in Nat /\ u \in DOMAIN h.mem \cup {h.brk} /\ u <= h.brk
    BY <1>3, <1>5
  <2>2. CASE o < off
    <3>1. q = o /\ u <= off
      BY <1>1, <1>5, <2>1, <2>2 DEF Down
    <3>2. u <= g.brk
      BY <1>1, <1>2, <2>1, <3>1
    <3>3. u \in DOMAIN g.mem \cup {g.brk}
      <4>1. CASE u = off
        BY <1>7, <4>1
      <4>2. CASE u # off
        <5>1. u \in kept /\ Down(off, n, u) = u
          BY <1>1, <2>1, <3>1, <4>2 DEF Down
        <5> QED
          BY <1>2, <5>1
      <4> QED
        BY <4>1, <4>2
    <3> HIDE DEF w, q
    <3> QED
      BY <3>1, <3>2, <3>3 DEF q, w
  <2>3. CASE off + n <= o
    <3>1. q = o - n /\ q + w = u - n /\ off < u
      BY <1>1, <2>1, <2>3 DEF Down
    <3>2. u - n <= g.brk
      BY <1>1, <1>2, <2>1
    <3>3. u - n \in DOMAIN g.mem \cup {g.brk}
      <4>1. CASE u = h.brk
        BY <1>2, <4>1
      <4>2. CASE u # h.brk
        <5>1. u \in kept /\ Down(off, n, u) = u - n
          BY <1>1, <2>1, <3>1, <4>2 DEF Down
        <5> QED
          BY <1>2, <5>1
      <4> QED
        BY <4>1, <4>2
    <3> HIDE DEF w, q, u
    <3> QED
      BY <3>1, <3>2, <3>3 DEF w, q
  <2> QED
    BY <1>1, <2>2, <2>3
<1>10. ASSUME NEW o \in kept, NEW p \in kept, Down(off, n, o) < Down(off, n, p)
       PROVE  Down(off, n, o) + h.mem[o].words <= Down(off, n, p)
  <2> DEFINE w == h.mem[o].words
  <2>1. w \in Nat \ {0} /\ o \in Nat /\ p \in Nat /\ o < p /\ o + w <= p /\ (o < off => o + w <= off)
    BY <1>1, <1>3, <1>5, <1>10
  <2> HIDE DEF w
  <2>2. Down(off, n, o) + w <= Down(off, n, p)
    BY <1>1, <2>1 DEF Down
  <2> QED
    BY <2>2 DEF w
<1> HIDE DEF g, kept
<1>11. \A q \in DOMAIN g.mem : \E o \in kept : q = Down(off, n, o)
  BY <1>2
<1>12. \A q \in DOMAIN g.mem : q + g.mem[q].words \in DOMAIN g.mem \cup {g.brk} /\ q + g.mem[q].words <= g.brk
  BY <1>4, <1>9, <1>11
<1>13. ASSUME NEW q \in DOMAIN g.mem, NEW p \in DOMAIN g.mem, q < p PROVE q + g.mem[q].words <= p
  <2>1. PICK o \in kept : q = Down(off, n, o)
    BY <1>11
  <2>2. PICK u \in kept : p = Down(off, n, u)
    BY <1>11
  <2>3. Down(off, n, o) + h.mem[o].words <= Down(off, n, u)
    BY ONLY <1>10, <1>13, <2>1, <2>2
  <2> QED
    BY <1>4, <2>1, <2>2, <2>3
<1> QED
  BY <1>2, <1>7, <1>8, <1>12, <1>13 DEF Packed, g

\* What is not marked moves down with all that it refers to.
Slid(h, marked, off, n, r) ==
    /\ Live(r.h, r.marked) = {Down(off, n, o) : o \in Live(h, marked)} /\ r.marked \subseteq DOMAIN r.h.mem
    /\ Down(off, n, 0) = 0
    /\ \A o \in Live(h, marked) : LET e == h.mem[o]
                                      f == r.h.mem[Down(off, n, o)] IN
           /\ f.kind = e.kind /\ f.up = e.up /\ f.text = e.text
           /\ e.kind # "str" => f.link = Down(off, n, e.link)
           /\ e.kind = "prop" =>
                  /\ f.key = Down(off, n, e.key) /\ f.val.type = e.val.type
                  /\ is_mem_entity(e.val) => f.val.off = Down(off, n, e.val.off)

LEMMA WithoutLive ==
    ASSUME NEW h, Packed(h), NEW marked \in SUBSET DOMAIN h.mem, NEW off \in marked,
           Sound(h, Live(h, marked)), h.scope \in Live(h, marked),
           NEW n, n = h.mem[off].words, NEW r, r = Without(h, off, marked)
    PROVE  Slid(h, marked, off, n, r)
<1> DEFINE kept == DOMAIN h.mem \ {off}
           L == Live(h, marked)
           g == r.h
<1>1. /\ h \in Heap /\ off \in DOMAIN h.mem /\ off \in Nat /\ n \in Nat \ {0}
      /\ \A o, p \in kept : Down(off, n, o) = Down(off, n, p) => o = p
  BY Below_brk, DownFacts
<1>2. /\ r.marked = {Down(off, n, o) : o \in marked \ {off}}
      /\ DOMAIN g.mem = {Down(off, n, o) : o \in kept}
      /\ \A o \in kept : g.mem[Down(off, n, o)] = IF o \in marked THEN h.mem[o] ELSE Fixed(h.mem[o], off, n)
  BY WithoutFields
<1>3. L = kept \ marked /\ off \notin L /\ 0 \in L /\ marked \ {off} \subseteq kept
  BY DEF Live, Sound
<1>4. Down(off, n, 0) = 0
  BY <1>1, <1>3 DEF Down
<1>5. Live(g, r.marked) = {Down(off, n, o) : o \in L}
  <2> HIDE DEF kept, L, g
  <2>1. DOMAIN g.mem \ r.marked = {Down(off, n, o) : o \in L}
    <3>1. ASSUME NEW o \in L PROVE Down(off, n, o) \in DOMAIN g.mem \ r.marked
      BY <1>1, <1>2, <1>3
    <3>2. ASSUME NEW q \in DOMAIN g.mem \ r.marked PROVE \E o \in L : q = Down(off, n, o)
      <4>1. PICK o \in kept : q = Down(off, n, o)
        BY <1>2, <3>2
      <4>2. o \notin marked
        BY <1>2, <3>2, <4>1 DEF kept
      <4> QED
        BY <1>3, <4>1, <4>2
    <3> QED
      BY <3>1, <3>2
  <2> QED
    BY <2>1 DEF Live
<1>6. r.marked \subseteq DOMAIN g.mem
  <2> HIDE DEF kept, L, g
  <2> QED
    BY <1>2, <1>3
<1>7. ASSUME NEW o \in L, NEW e, e = h.mem[o], NEW f, f = g.mem[Down(off, n, o)]
      PROVE  /\ f.kind = e.kind /\ f.up = e.up /\ f.text = e.text
             /\ e.kind # "str" => f.link = Down(off, n, e.link)
             /\ e.kind = "prop" =>
                    /\ f.key = Down(off, n, e.key) /\ f.val.type = e.val.type
                    /\ is_mem_entity(e.val) => f.val.off = Down(off, n, e.val.off)
  <2>1. o \in kept /\ o \notin marked /\ f = Fixed(e, off, n)
    BY <1>2, <1>3, <1>7
  <2>2. e \in Entity /\ e.kind \in {"obj", "prop", "str"}
    BY <1>1, <1>7, <2>1, HeapIs
  <2>3. e.kind # "str" => e.link \in L
    BY <1>3, <1>7, <2>2 DEF Sound, Props
  <2>4. e.kind # "str" => e.link # off
    BY <1>3, <2>3, Zenon
  <2> QED
    BY <1>1, <2>1, <2>2, <2>4, FixedFacts
<1> QED
  BY <1>4, <1>5, <1>6, <1>7, SMTT(30) DEF L, g, Slid

(* A list that goes over into another, entity by entity, keeps its names.    *)
LEMMA DeclaredGoes ==
    ASSUME NEW h, Packed(h), NEW S, Sound(h, S), NEW g, Packed(g), 0 \in DOMAIN g.mem, NEW to \in [S -> Nat],
           to[0] = 0, to[h.mem[0].link] \in Listed(g, 0),
           \A o \in Props(h, S) : /\ to[o] \in Rest(g) /\ g.mem[to[o]].link = to[h.mem[o].link]
                                  /\ g.mem[g.mem[to[o]].key].text = h.mem[h.mem[o].key].text
    PROVE  Declared(h) \subseteq Declared(g)
<1> DEFINE U == {o \in Props(h, S) \cup {0} : to[o] \in Listed(g, 0)}
<1>1. 0 \in S /\ S \subseteq DOMAIN h.mem /\ h.mem[0].kind = "obj"
  BY DEF Sound
<1>2. h.mem[0].link \in Props(h, S) \cup {0} /\ \A o \in Props(h, S) : h.mem[o].link \in Props(h, S) \cup {0}
  BY DEF Sound, Props
<1>3. h.mem[0].link \in U
  BY <1>2
<1>4. \A o \in U \cap Rest(h) : o \in Props(h, S) /\ to[o] \in Chain(g, 0)
  <2>1. Chain(g, 0) = Listed(g, 0) \cap Rest(g)
    BY ListedIs
  <2> QED
    BY <2>1 DEF Rest
<1>5. \A o \in U \cap Rest(h) : h.mem[o].link \in U
  <2> TAKE o \in U \cap Rest(h)
  <2>1. g.mem[to[o]].link \in Listed(g, 0)
    BY <1>4, ListedIs
  <2> QED
    BY <1>2, <1>4, <2>1
<1>6. Chain(h, 0) \subseteq U \cap Rest(h)
  <2> HIDE DEF U
  <2>1. 0 \in DOMAIN h.mem
    BY <1>1
  <2>2. Listed(h, 0) \subseteq U /\ Chain(h, 0) = Listed(h, 0) \cap Rest(h)
    BY <1>3, <1>5, <2>1, ListedIs, Zenon
  <2> QED
    BY <2>2
<1>7. ASSUME NEW o \in Chain(h, 0) PROVE h.mem[h.mem[o].key].text \in Declared(g)
  <2>1. to[o] \in Chain(g, 0) /\ g.mem[g.mem[to[o]].key].text = h.mem[h.mem[o].key].text
    BY <1>4, <1>6, Zenon
  <2> QED
    BY <2>1, Zenon DEF Declared
<1> QED
  BY <1>7 DEF Declared

(* A deletion keeps what the loop keeps, and the names of the globals.       *)
LEMMA WithoutKeeps ==
    ASSUME NEW t, Sweeping(t), t.off \in t.marked, NEW r, r = Without(t.h, t.off, t.marked)
    PROVE  /\ Sweeping(r) /\ Declared(t.h) \subseteq Declared(r.h)
           /\ t.h.scope = 0 => r.h.scope = 0
           /\ r.h.mem[r.h.scope].kind = t.h.mem[t.h.scope].kind /\ r.h.mem[r.h.scope].up = t.h.mem[t.h.scope].up
<1> DEFINE h == t.h
           off == t.off
           marked == t.marked
           n == h.mem[off].words
           g == r.h
           L == Live(h, marked)
           M == Live(g, r.marked)
           to(o) == Down(off, n, o)
<1>1. Packed(h) /\ marked \in SUBSET DOMAIN h.mem /\ off \in marked /\ Sound(h, L) /\ h.scope \in L
  BY DEF Sweeping
<1>2. Packed(g) /\ off \in DOMAIN g.mem \cup {g.brk}
  BY <1>1, WithoutPacked
<1>3. /\ M = {to(o) : o \in L} /\ r.marked \subseteq DOMAIN g.mem
      /\ to(0) = 0
      /\ \A o \in L : LET e == h.mem[o]
                          f == g.mem[to(o)] IN
             /\ f.kind = e.kind /\ f.up = e.up /\ f.text = e.text
             /\ e.kind # "str" => f.link = to(e.link)
             /\ e.kind = "prop" =>
                    /\ f.key = to(e.key) /\ f.val.type = e.val.type
                    /\ is_mem_entity(e.val) => f.val.off = to(e.val.off)
  <2>1. n = h.mem[off].words /\ r = Without(h, off, marked)
    OBVIOUS
  <2> HIDE DEF h, off, marked, n
  <2>2. Slid(h, marked, off, n, r)
    BY <1>1, <2>1, WithoutLive
  <2> QED
    BY <2>2 DEF Slid
<1>4. /\ r.off = off /\ g.scope = to(h.scope) /\ DOMAIN g.cbs = DOMAIN h.cbs
      /\ \A i \in DOMAIN h.cbs : g.cbs[i].caller = to(h.cbs[i].caller) /\ g.cbs[i].func = to(h.cbs[i].func)
  BY <1>1, WithoutFields
<1>5. /\ L \subseteq DOMAIN h.mem /\ M \subseteq DOMAIN g.mem /\ off \notin L
      /\ \A o \in L : to(o) \in Nat
      /\ \A o, p \in L : (o < p <=> to(o) < to(p)) /\ (to(o) = to(p) => o = p)
  BY <1>1, DownFacts DEF Live
<1>6. 0 \in L /\ h.mem[0].kind = "obj" /\ h.mem[0].up = 0
  BY <1>1 DEF Sound
<1>7. \A o \in L : h.mem[o].kind \in {"obj", "prop", "str"}
  BY <1>1, <1>5, Below_brk, HeapIs
<1> HIDE DEF h, off, marked, n, g, L, M, to
<1>8. \A o \in L : /\ h.mem[o].kind # "str" => h.mem[o].link \in L
                   /\ h.mem[o].kind # "str" /\ h.mem[o].link # 0 => h.mem[h.mem[o].link].kind = "prop"
  BY <1>1, <1>6, <1>7 DEF Sound, Props
<1>9. \A o \in L : h.mem[o].kind = "prop" =>
                      /\ h.mem[o].link < o
                      /\ h.mem[o].key \in L /\ h.mem[h.mem[o].key].kind = "str"
                      /\ Points(h, L, h.mem[o].val)
  BY <1>1 DEF Sound, Props
<1>10. \A o \in L : to(o) \in M
  BY <1>3
<1>11. \A q \in M : \E o \in L : q = to(o)
  BY <1>3
<1>12. ASSUME NEW q \in M, g.mem[q].kind \in {"obj", "prop"}, g.mem[q].link # 0
       PROVE  g.mem[q].link \in Props(g, M)
  <2>1. PICK o \in L : q = to(o)
    BY <1>11
  <2>2. h.mem[o].kind \in {"obj", "prop"} /\ h.mem[o].link \in L /\ g.mem[q].link = to(h.mem[o].link)
    BY <1>3, <1>8, <1>12, <2>1
  <2>3. h.mem[h.mem[o].link].kind = "prop"
    BY <1>3, <1>8, <1>12, <2>1, <2>2
  <2>4. g.mem[to(h.mem[o].link)].kind = "prop" /\ to(h.mem[o].link) \in M
    BY <1>3, <1>10, <2>2, <2>3
  <2> QED
    BY <2>2, <2>4 DEF Props
<1>13. ASSUME NEW q \in M, g.mem[q].kind = "prop"
       PROVE  /\ g.mem[q].link < q
              /\ g.mem[q].key \in M /\ g.mem[g.mem[q].key].kind = "str"
              /\ Points(g, M, g.mem[q].val)
  <2>1. PICK o \in L : q = to(o)
    BY <1>11
  <2>2. h.mem[o].kind = "prop"
    BY <1>3, <1>13, <2>1
  <2> DEFINE e == h.mem[o]
             f == g.mem[q]
  <2>3. /\ f.link = to(e.link) /\ f.key = to(e.key) /\ f.val.type = e.val.type
        /\ is_mem_entity(e.val) => f.val.off = to(e.val.off)
    BY <1>3, <2>1, <2>2
  <2>4. e.link \in L /\ e.link < o /\ e.key \in L /\ h.mem[e.key].kind = "str" /\ Points(h, L, e.val)
    BY <1>8, <1>9, <2>2
  <2>5. f.link < q
    BY <1>5, <2>1, <2>3, <2>4
  <2>6. f.key \in M /\ g.mem[f.key].kind = "str"
    BY <1>3, <1>10, <2>3, <2>4
  <2>7. Points(g, M, f.val)
    <3>1. SUFFICES ASSUME is_mem_entity(f.val)
                   PROVE  f.val.off \in M /\ g.mem[f.val.off].kind = (IF f.val.type = "obj" THEN "obj" ELSE "str")
      BY DEF Points
    <3>2. /\ is_mem_entity(e.val) /\ f.val.off = to(e.val.off) /\ e.val.off \in L
          /\ h.mem[e.val.off].kind = (IF e.val.type = "obj" THEN "obj" ELSE "str")
      BY <2>3, <2>4, <3>1 DEF is_mem_entity, Points
    <3> QED
      BY <1>3, <1>10, <2>3, <3>2
  <2> QED
    BY <2>5, <2>6, <2>7
<1>14. \A i \in DOMAIN g.cbs : LET c == g.cbs[i] IN
           /\ c.caller \in M /\ g.mem[c.caller].kind = "str" /\ g.mem[c.caller].text = "ffi"
           /\ c.func \in M /\ g.mem[c.func].kind = "str" /\ g.mem[c.func].text = "code"
  <2>1. \A i \in DOMAIN h.cbs : LET c == h.cbs[i] IN
           /\ c.caller \in L /\ h.mem[c.caller].kind = "str" /\ h.mem[c.caller].text = "ffi"
           /\ c.func \in L /\ h.mem[c.func].kind = "str" /\ h.mem[c.func].text = "code"
    BY <1>1 DEF Sound
  <2> QED
    BY <1>3, <1>4, <1>10, <2>1
<1>15. Sound(g, M)
  <2>1. 0 \in M /\ g.mem[0].kind = "obj" /\ g.mem[0].up = 0
    BY <1>3, <1>6, <1>10
  <2> QED
    BY <1>5, <1>12, <1>13, <1>14, <2>1 DEF Sound, Props
<1>16. Declared(h) \subseteq Declared(g)
  <2> DEFINE f == [o \in L |-> to(o)]
  <2>1. f \in [L -> Nat] /\ f[0] = 0 /\ \A o \in L : f[o] = to(o)
    BY <1>3, <1>5, <1>6
  <2> HIDE DEF f
  <2>2. 0 \in DOMAIN g.mem
    BY <1>15 DEF Sound
  <2>3. f[h.mem[0].link] \in Listed(g, 0)
    <3>1. g.mem[0].link = f[h.mem[0].link]
      BY <1>3, <1>6, <1>8, <2>1
    <3> QED
      BY <1>2, <2>2, <3>1, ListedIs
  <2>4. ASSUME NEW o \in Props(h, L)
        PROVE  /\ f[o] \in Rest(g) /\ g.mem[f[o]].link = f[h.mem[o].link]
               /\ g.mem[g.mem[f[o]].key].text = h.mem[h.mem[o].key].text
    <3>1. o \in L /\ h.mem[o].kind = "prop" /\ o # 0
      BY <1>6 DEF Props
    <3>2. f[o] \in Rest(g)
      BY <1>3, <1>5, <1>6, <1>10, <2>1, <3>1 DEF Rest
    <3>3. g.mem[f[o]].link = f[h.mem[o].link] /\ g.mem[f[o]].key = to(h.mem[o].key) /\ h.mem[o].key \in L
      BY <1>3, <1>8, <1>9, <2>1, <3>1
    <3> QED
      BY <1>3, <3>2, <3>3
  <2> QED
    BY <1>1, <1>2, <1>15, <2>1, <2>2, <2>3, <2>4, DeclaredGoes
<1>17. /\ g.scope \in M /\ (h.scope = 0 => g.scope = 0)
       /\ g.mem[g.scope].kind = h.mem[h.scope].kind /\ g.mem[g.scope].up = h.mem[h.scope].up
  BY <1>1, <1>3, <1>4, <1>10
<1> QED
  BY <1>2, <1>3, <1>4, <1>15, <1>16, <1>17, Zenon DEF Sweeping, h, g, M, off

\* What a collection that began with h keeps.
Swept(h, g) ==
    /\ Declared(h) \subseteq Declared(g)
    /\ h.scope = 0 => g.scope = 0
    /\ g.mem[g.scope].kind = h.mem[h.scope].kind /\ g.mem[g.scope].up = h.mem[h.scope].up

LoopState == [h : Heap, off : Nat, marked : SUBSET Nat]

(* A turn of the loop.                                                      *)
LEMMA TurnKeeps ==
    ASSUME NEW t \in LoopState, Sweeping(t), NEW r, r = Turn(t)
    PROVE  r \in LoopState /\ Sweeping(r) /\ Swept(t.h, r.h)
<1>1. /\ Packed(t.h) /\ t.h \in Heap /\ t.off \in Nat /\ t.marked \subseteq DOMAIN t.h.mem
      /\ t.off \in DOMAIN t.h.mem \cup {t.h.brk} /\ t.h.brk \in Nat /\ DOMAIN t.h.mem \subseteq Nat
  BY Below_brk, HeapIs DEF Sweeping, LoopState
<1>2. CASE t.off >= t.h.brk
  <2>1. r = t
    BY <1>2 DEF Turn
  <2> QED
    BY <2>1 DEF Swept
<1>3. CASE ~(t.off >= t.h.brk) /\ t.off \in t.marked
  <2>1. r = Without(t.h, t.off, t.marked)
    BY <1>3 DEF Turn
  <2>2. Sweeping(r) /\ Swept(t.h, r.h)
    BY <1>3, <2>1, WithoutKeeps DEF Swept
  <2>3. r.h \in Heap /\ DOMAIN r.h.mem \subseteq Nat /\ r.marked \subseteq DOMAIN r.h.mem
    BY <2>2, Below_brk, HeapIs DEF Sweeping
  <2>4. \E x, y : Without(t.h, t.off, t.marked) = [h |-> x, off |-> t.off, marked |-> y]
    BY Zenon DEF Without
  <2>5. PICK x, y : r = [h |-> x, off |-> t.off, marked |-> y]
    BY <2>1, <2>4
  <2>6. r.h = x /\ r.marked = y
    BY <2>5
  <2> QED
    BY <1>1, <2>2, <2>3, <2>5, <2>6 DEF LoopState
<1>4. CASE ~(t.off >= t.h.brk) /\ t.off \notin t.marked
  <2> DEFINE o == t.off + t.h.mem[t.off].words
  <2>1. r = [t EXCEPT !.off = o]
    BY <1>4 DEF Turn
  <2>2. t.off \in DOMAIN t.h.mem
    BY <1>1, <1>4
  <2>3. o \in DOMAIN t.h.mem \cup {t.h.brk} /\ o \in Nat
    BY <1>1, <2>2 DEF Packed
  <2> HIDE DEF o
  <2>4. r.h = t.h /\ r.off = o /\ r.marked = t.marked /\ r \in LoopState
    BY <2>1, <2>3 DEF LoopState
  <2> QED
    BY <2>3, <2>4 DEF Sweeping, Swept
<1> QED
  BY <1>2, <1>3, <1>4

\* f gives the state of the loop after each turn.
Loops(f, h, marked) ==
    /\ Deleted(h, marked) = f[Cardinality(DOMAIN h.mem)].h
    /\ f[0] = [h |-> h, off |-> 0, marked |-> marked]
    /\ \A n \in Nat : /\ f[n] \in LoopState /\ Sweeping(f[n]) /\ Swept(h, f[n].h)
                     /\ f[n + 1] = Turn(f[n])

(* All turns of the loop.                                                   *)
LEMMA Turns ==
    ASSUME NEW h, Packed(h), NEW marked \in SUBSET DOMAIN h.mem, Sound(h, Live(h, marked)),
           h.scope \in Live(h, marked)
    PROVE  \E f : Loops(f, h, marked)
<1> DEFINE X == {t \in LoopState : Sweeping(t) /\ Swept(h, t.h)}
           A == [h |-> h, off |-> 0, marked |-> marked]
           G == [t \in X |-> Turn(t)]
           Is(f) == f = [n \in Nat |-> IF n = 0 THEN A ELSE Turn(f[n - 1])]
           after == CHOOSE f : Is(f)
           N == Cardinality(DOMAIN h.mem)
<1>1. Deleted(h, marked) = after[N].h
  BY DEF Deleted
<1>2. A \in X
  <2>1. A.h = h /\ A.off = 0 /\ A.marked = marked
    OBVIOUS
  <2>2. h \in Heap /\ DOMAIN h.mem \subseteq Nat /\ 0 \in DOMAIN h.mem
    BY Below_brk, HeapIs DEF Sound
  <2>3. A \in LoopState
    BY <2>2 DEF LoopState
  <2> HIDE DEF A
  <2> QED
    BY <2>1, <2>2, <2>3 DEF Sweeping, Swept
<1>3. ASSUME NEW t \in X PROVE Turn(t) \in X
  <2> DEFINE r == Turn(t)
  <2>1. r \in LoopState /\ Sweeping(r) /\ Swept(t.h, r.h)
    BY TurnKeeps
  <2> HIDE DEF r
  <2>2. Swept(h, r.h)
    BY <2>1 DEF Swept
  <2> QED
    BY <2>1, <2>2 DEF r
<1> HIDE DEF X, A
<1>4. G \in [X -> X] /\ \A t \in X : G[t] = Turn(t)
  BY <1>3
<1> HIDE DEF G
<1>5. PICK f \in [Nat -> X] : Goes(f, A, G)
  BY <1>2, <1>4, Iterate
<1>6. Is(f)
  <2>1. ASSUME NEW n \in Nat PROVE f[n] = IF n = 0 THEN A ELSE Turn(f[n - 1])
    <3>1. CASE n = 0
      BY <1>5, <3>1 DEF Goes
    <3>2. CASE n # 0
      <4>1. n - 1 \in Nat /\ (n - 1) + 1 = n
        BY <3>2
      <4>2. f[n] = G[f[n - 1]] /\ f[n - 1] \in X
        BY <1>5, <4>1 DEF Goes
      <4> QED
        BY <1>4, <3>2, <4>2
    <3> QED
      BY <3>1, <3>2
  <2> QED
    BY <1>5, <2>1
<1> HIDE DEF Is
<1>7. Is(after)
  BY <1>6
<1> HIDE DEF after
<1>8. \A n \in Nat : after[n] = IF n = 0 THEN A ELSE Turn(after[n - 1])
  <2> TAKE n \in Nat
  <2> DEFINE turn(k) == IF k = 0 THEN A ELSE Turn(after[k - 1])
  <2>1. after = [k \in Nat |-> turn(k)]
    BY <1>7, Zenon DEF Is
  <2> HIDE DEF turn
  <2>2. after[n] = turn(n)
    BY <2>1
  <2> QED
    BY <2>2 DEF turn
<1>9. \A n \in Nat : after[n + 1] = Turn(after[n])
  <2> TAKE n \in Nat
  <2>1. n + 1 \in Nat /\ n + 1 # 0 /\ (n + 1) - 1 = n
    OBVIOUS
  <2> QED
    BY <1>8, <2>1
<1>10. \A n \in Nat : after[n] \in X
  <2> DEFINE I == {n \in Nat : after[n] \in X}
  <2>1. 0 \in I
    BY <1>2, <1>8
  <2>2. ASSUME NEW n \in Nat, n \in I PROVE n + 1 \in I
    BY <1>3, <1>9, <2>2
  <2> HIDE DEF I
  <2>3. \A n \in Nat : n \in I
    BY <2>1, <2>2, SetInduction
  <2> QED
    BY <2>3 DEF I
<1>11. after[0] = A
  BY <1>8
<1> QED
  BY <1>1, <1>9, <1>10, <1>11 DEF X, A, N, Loops

(* What the loop leaves.                                                    *)
LEMMA DeletedKeeps ==
    ASSUME NEW h, Packed(h), NEW marked \in SUBSET DOMAIN h.mem, Sound(h, Live(h, marked)),
           h.scope \in Live(h, marked)
    PROVE  \E t \in LoopState : t.h = Deleted(h, marked) /\ Sweeping(t) /\ Swept(h, t.h)
<1>1. PICK f : Loops(f, h, marked)
  BY Turns, Zenon
<1>2. Cardinality(DOMAIN h.mem) \in Nat
  BY Below_brk, FS_CardinalityType
<1> QED
  BY <1>1, <1>2 DEF Loops

------------------------------------------------------------------------------
(* Where a collection moves an entity                                       *)

(* Words in use, below an offset.                                           *)
LEMMA UsedFacts ==
    ASSUME NEW h, Packed(h), NEW S \in SUBSET DOMAIN h.mem
    PROVE  /\ \A o \in Nat : UsedBelow(h, S, o) \in Nat
           /\ UsedBelow(h, S, 0) = 0
           /\ \A o, p \in Nat : o <= p => UsedBelow(h, S, o) <= UsedBelow(h, S, p)
           /\ \A x \in DOMAIN h.mem :
                  UsedBelow(h, S, x + h.mem[x].words) =
                      UsedBelow(h, S, x) + IF x \in S THEN h.mem[x].words ELSE 0
<1> DEFINE U(o) == {w \in Words(h, S) : w < o}
<1>1. \A o : UsedBelow(h, S, o) = Cardinality(U(o))
  BY DEF UsedBelow
<1>2. \A o \in DOMAIN h.mem : o \in Nat /\ h.mem[o].words \in Nat \ {0}
  BY Below_brk, HeapIs DEF Packed
<1>3. \A w \in Words(h, S) : w \in Nat
  <2> TAKE w \in Words(h, S)
  <2>1. PICK o \in S : w \in o .. o + h.mem[o].words - 1
    BY DEF Words
  <2> QED
    BY <1>2, <2>1
<1>4. ASSUME NEW o \in Nat PROVE IsFiniteSet(U(o)) /\ Cardinality(U(o)) \in Nat
  <2>1. IsFiniteSet(0 .. o - 1)
    BY FS_Interval
  <2>2. U(o) \subseteq 0 .. o - 1
    BY <1>3
  <2> HIDE DEF U
  <2> QED
    BY <2>1, <2>2, FS_Subset, FS_CardinalityType
<1>5. U(0) = {}
  BY <1>3
<1>6. ASSUME NEW o \in Nat, NEW p \in Nat, o <= p PROVE Cardinality(U(o)) <= Cardinality(U(p))
  <2>1. U(o) \subseteq U(p)
    BY <1>3, <1>6
  <2> HIDE DEF U
  <2> QED
    BY <1>4, <2>1, FS_Subset
<1>7. ASSUME NEW x \in DOMAIN h.mem, NEW n, n = h.mem[x].words
      PROVE  Cardinality(U(x + n)) = Cardinality(U(x)) + IF x \in S THEN n ELSE 0
  <2>1. x \in Nat /\ n \in Nat \ {0} /\ x + n \in Nat
    BY <1>2, <1>7
  <2>2. ASSUME NEW w \in U(x + n), ~(w < x) PROVE x \in S
    <3>1. PICK o \in S : w \in o .. o + h.mem[o].words - 1
      BY DEF Words
    <3>2. o \in Nat /\ h.mem[o].words \in Nat /\ w \in Nat /\ w < x + n /\ o <= w /\ w < o + h.mem[o].words
      BY <1>2, <1>3, <3>1
    <3>3. o < x => o + h.mem[o].words <= x
      BY DEF Packed
    <3>4. x < o => x + n <= o
      BY <1>7 DEF Packed
    <3>5. o = x
      BY <2>1, <2>2, <3>2, <3>3, <3>4
    <3> QED
      BY <3>5
  <2>3. U(x) \subseteq U(x + n)
    BY <1>3, <2>1
  <2>4. CASE x \notin S
    <3>1. U(x + n) = U(x)
      BY <2>2, <2>3, <2>4
    <3> HIDE DEF U
    <3> QED
      BY <1>4, <2>1, <2>4, <3>1
  <2>5. CASE x \in S
    <3> DEFINE V == x .. x + n - 1
    <3>1. V \subseteq Words(h, S)
      BY <1>7, <2>5 DEF Words
    <3>2. \A w \in V : w \in U(x + n) /\ ~(w < x)
      BY <2>1, <3>1
    <3>3. \A w \in U(x + n) : w \in U(x) \/ w \in V
      BY <1>3, <2>1
    <3>4. U(x + n) = U(x) \cup V /\ U(x) \cap V = {}
      BY <2>3, <3>2, <3>3
    <3>5. IsFiniteSet(V) /\ Cardinality(V) = n
      <4> DEFINE y == x + n - 1
      <4>1. x \in Int /\ y \in Int /\ x <= y /\ y - x + 1 = n
        BY <2>1
      <4> HIDE DEF y
      <4>2. IsFiniteSet(x .. y) /\ Cardinality(x .. y) = y - x + 1
        BY <4>1, FS_Interval
      <4> QED
        BY <4>1, <4>2 DEF y, V
    <3>6. IsFiniteSet(U(x)) /\ Cardinality(U(x)) \in Nat
      BY <1>4, <2>1
    <3> HIDE DEF U, V
    <3>7. Cardinality(U(x) \cup V) = Cardinality(U(x)) + Cardinality(V) - Cardinality(U(x) \cap V)
      BY <3>5, <3>6, FS_Union
    <3>8. Cardinality(U(x) \cap V) = 0
      BY <3>4, FS_EmptySet
    <3>9. Cardinality(U(x + n)) = Cardinality(U(x)) + n
      <4> DEFINE a == Cardinality(U(x))
      <4>1. Cardinality(U(x + n)) = Cardinality(U(x) \cup V)
        BY <3>4, Zenon
      <4>2. Cardinality(U(x) \cup V) = a + n - 0
        BY <3>5, <3>7, <3>8, Zenon
      <4> QED
        BY <2>1, <3>6, <4>1, <4>2
    <3> QED
      BY <2>5, <3>9
  <2> QED
    BY <2>4, <2>5
<1> HIDE DEF U
<1>8. Cardinality(U(0)) = 0
  BY <1>5, FS_EmptySet
<1> QED
  BY <1>1, <1>4, <1>6, <1>7, <1>8

\* When the loop has come to x, what is below x has moved, and the rest has
\* moved with x.
Pos(h, S, x, o)  == IF o < x THEN UsedBelow(h, S, o) ELSE o - x + UsedBelow(h, S, x)
Left(h, S, x)    == {o \in DOMAIN h.mem : o \in S \/ x <= o}
Places(h)         == DOMAIN h.mem \cup {h.brk}

\* All that is left lies in its old order.
LEMMA PosFacts ==
    ASSUME NEW h, Packed(h), NEW S \in SUBSET DOMAIN h.mem, NEW x \in Places(h)
    PROVE  /\ x \in Nat /\ UsedBelow(h, S, x) \in Nat
           /\ \A o \in Nat : Pos(h, S, x, o) \in Nat
           /\ Pos(h, S, x, x) = UsedBelow(h, S, x)
           /\ \A o \in Left(h, S, x), p \in Left(h, S, x) \cup {h.brk} : o < p => Pos(h, S, x, o) < Pos(h, S, x, p)
<1> DEFINE T(o) == UsedBelow(h, S, o)
<1>1. /\ DOMAIN h.mem \subseteq Nat /\ h.brk \in Nat
      /\ \A o \in DOMAIN h.mem : h.mem[o].words \in Nat \ {0} /\ o + h.mem[o].words <= h.brk
      /\ \A o, p \in DOMAIN h.mem : o < p => o + h.mem[o].words <= p
  BY Below_brk, HeapIs DEF Packed
<1>2. x \in Nat
  BY <1>1 DEF Places
<1>3. /\ \A o \in Nat : T(o) \in Nat
      /\ \A o, p \in Nat : o <= p => T(o) <= T(p)
      /\ \A o \in S : T(o + h.mem[o].words) = T(o) + h.mem[o].words
  BY UsedFacts
<1> HIDE DEF T
<1>4. \A o : Pos(h, S, x, o) = IF o < x THEN T(o) ELSE o - x + T(x)
  BY DEF Pos, T
<1>5. ASSUME NEW o \in Left(h, S, x), NEW p \in Left(h, S, x) \cup {h.brk}, o < p
      PROVE  Pos(h, S, x, o) < Pos(h, S, x, p)
  <2>1. o \in DOMAIN h.mem /\ p \in Places(h) /\ o \in Nat /\ p \in Nat /\ (o < x => o \in S)
    BY <1>1, <1>2 DEF Left, Places
  <2> DEFINE n == h.mem[o].words
  <2>2. n \in Nat \ {0} /\ o + n <= p /\ (o < x => o + n <= x) /\ o + n \in Nat
    BY <1>1, <1>2, <1>5, <2>1 DEF Places
  <2>3. o \in S => T(o + n) = T(o) + n
    BY <1>3
  <2> HIDE DEF n
  <2>4. CASE p < x
    <3>1. T(o + n) = T(o) + n /\ T(o + n) <= T(p) /\ T(o) \in Nat /\ T(p) \in Nat
      BY <1>2, <1>3, <1>5, <2>1, <2>2, <2>3, <2>4
    <3>2. Pos(h, S, x, o) = T(o) /\ Pos(h, S, x, p) = T(p)
      BY <1>2, <1>4, <1>5, <2>1, <2>4
    <3> QED
      BY <2>2, <3>1, <3>2
  <2>5. CASE o < x /\ x <= p
    <3>1. T(o + n) = T(o) + n /\ T(o + n) <= T(x) /\ T(o) \in Nat /\ T(x) \in Nat
      BY <1>2, <1>3, <2>1, <2>2, <2>3, <2>5
    <3>2. Pos(h, S, x, o) = T(o) /\ Pos(h, S, x, p) = p - x + T(x)
      BY <1>2, <1>4, <2>1, <2>5
    <3> QED
      BY <1>2, <2>1, <2>2, <2>5, <3>1, <3>2
  <2>6. CASE x <= o
    <3>1. Pos(h, S, x, o) = o - x + T(x) /\ Pos(h, S, x, p) = p - x + T(x) /\ T(x) \in Nat
      BY <1>2, <1>3, <1>4, <1>5, <2>1, <2>6
    <3> QED
      BY <1>2, <1>5, <2>1, <3>1
  <2> QED
    BY <1>2, <2>1, <2>4, <2>5, <2>6
<1>6. \A o \in Nat : Pos(h, S, x, o) \in Nat
  BY <1>2, <1>3, <1>4
<1>7. Pos(h, S, x, x) = T(x) /\ T(x) \in Nat
  BY <1>2, <1>3, <1>4
<1> QED
  BY <1>2, <1>5, <1>6, <1>7 DEF T

\* From x to y nothing moves, or what is above x moves down to x.
Stays(h, S, x, y) ==
    /\ UsedBelow(h, S, y) = UsedBelow(h, S, x) + h.mem[x].words
    /\ Left(h, S, y) = Left(h, S, x)
    /\ \A o \in Places(h) : Pos(h, S, y, o) = Pos(h, S, x, o)
Falls(h, S, x, y) ==
    /\ UsedBelow(h, S, y) = UsedBelow(h, S, x)
    /\ Left(h, S, y) = Left(h, S, x) \ {x}
    /\ \A o \in (Left(h, S, x) \ {x}) \cup {h.brk} :
           Pos(h, S, y, o) = Down(UsedBelow(h, S, x), h.mem[x].words, Pos(h, S, x, o))

(* A turn at x.                                                             *)
LEMMA PosMoves ==
    ASSUME NEW h, Packed(h), NEW S \in SUBSET DOMAIN h.mem, NEW x \in DOMAIN h.mem
    PROVE  LET y == x + h.mem[x].words IN
           y \in Places(h) /\ (x \in S => Stays(h, S, x, y)) /\ (x \notin S => Falls(h, S, x, y))
<1> DEFINE n == h.mem[x].words
<1> DEFINE T(o) == UsedBelow(h, S, o)
<1>1. /\ DOMAIN h.mem \subseteq Nat /\ h.brk \in Nat /\ n \in Nat \ {0} /\ x + n \in Places(h) /\ x + n <= h.brk
      /\ \A o \in DOMAIN h.mem : o # x => o < x \/ x + n <= o
  <2>1. /\ DOMAIN h.mem \subseteq Nat /\ h.brk \in Nat /\ n \in Nat \ {0} /\ x + n \in Places(h) /\ x + n <= h.brk
    BY Below_brk, HeapIs DEF Packed, Places
  <2>2. \A o \in DOMAIN h.mem : x < o => x + n <= o
    BY DEF Packed
  <2> QED
    BY <2>1, <2>2
<1>2. T(x) \in Nat /\ T(x + n) = T(x) + IF x \in S THEN n ELSE 0
  <2>1. T(x) \in Nat
    BY <1>1, UsedFacts, Zenon
  <2>2. \A z \in DOMAIN h.mem : UsedBelow(h, S, z + h.mem[z].words) =
                                   UsedBelow(h, S, z) + IF z \in S THEN h.mem[z].words ELSE 0
    BY UsedFacts, Zenon
  <2> QED
    BY <2>1, <2>2, Zenon
<1>3. \A y, o : Pos(h, S, y, o) = IF o < y THEN T(o) ELSE o - y + T(y)
  BY DEF Pos
<1>4. x \in Places(h)
  BY DEF Places
<1>5. /\ \A o \in Left(h, S, x) : o < x => Pos(h, S, x, o) < T(x)
      /\ \A o \in Nat : Pos(h, S, x, o) \in Nat
  <2>1. x \in Left(h, S, x)
    BY <1>1 DEF Left
  <2>2. Pos(h, S, x, x) = T(x)
    BY <1>4, PosFacts
  <2> HIDE DEF T
  <2> QED
    BY <1>4, <2>1, <2>2, PosFacts
<1> HIDE DEF T, n
<1>6. CASE x \in S
  <2>1. T(x + n) = T(x) + n
    BY <1>1, <1>2, <1>6
  <2>2. Left(h, S, x + n) = Left(h, S, x)
    BY <1>1, <1>6 DEF Left
  <2>3. ASSUME NEW o \in Places(h) PROVE Pos(h, S, x + n, o) = Pos(h, S, x, o)
    <3>1. o \in Nat /\ (o < x \/ o = x \/ x + n <= o)
      BY <1>1 DEF Places
    <3> QED
      BY <1>1, <1>2, <1>3, <2>1, <3>1
  <2>4. Stays(h, S, x, x + n)
    BY <2>1, <2>2, <2>3 DEF T, n, Stays
  <2> QED
    BY <1>1, <1>6, <2>4 DEF n
<1>7. CASE x \notin S
  <2>1. T(x + n) = T(x)
    BY <1>2, <1>7
  <2>2. Left(h, S, x + n) = Left(h, S, x) \ {x}
    BY <1>1, <1>7 DEF Left
  <2>3. ASSUME NEW o \in (Left(h, S, x) \ {x}) \cup {h.brk}
        PROVE  Pos(h, S, x + n, o) = Down(T(x), n, Pos(h, S, x, o))
    <3>1. o \in Nat /\ (o < x \/ x + n <= o) /\ x \in Nat
      BY <1>1 DEF Left
    <3>2. CASE o < x
      <4>1. Pos(h, S, x + n, o) = T(o) /\ Pos(h, S, x, o) = T(o)
        BY <1>1, <1>3, <3>1, <3>2
      <4>2. Pos(h, S, x, o) < T(x) /\ Pos(h, S, x, o) \in Nat
        BY <1>1, <1>5, <3>1, <3>2
      <4> QED
        BY <1>2, <4>1, <4>2 DEF Down
    <3>3. CASE x + n <= o
      <4>1. Pos(h, S, x + n, o) = o - (x + n) + T(x) /\ Pos(h, S, x, o) = o - x + T(x)
        BY <1>1, <1>3, <2>1, <3>1, <3>3
      <4>2. T(x) < o - x + T(x)
        <5>1. o - x \in Nat \ {0} /\ T(x) \in Nat
          BY <1>1, <1>2, <3>1, <3>3
        <5>2. \A a \in Nat \ {0}, b \in Nat : b < a + b
          OBVIOUS
        <5> QED
          BY <5>1, <5>2
      <4> QED
        BY <1>1, <1>2, <3>1, <4>1, <4>2 DEF Down
    <3> QED
      BY <3>1, <3>2, <3>3
  <2>4. Falls(h, S, x, x + n)
    BY <2>1, <2>2, <2>3 DEF T, n, Falls
  <2> QED
    BY <1>1, <1>7, <2>4 DEF n
<1> QED
  BY <1>6, <1>7

(* Nothing in S refers to what is not in S.                                 *)
LEMMA ReferredIn ==
    ASSUME NEW h, Packed(h), NEW S, Sound(h, S)
    PROVE  /\ S \in SUBSET DOMAIN h.mem /\ 0 \in S
           /\ \A o \in S : LET e == h.mem[o] IN
                  /\ e \in Entity
                  /\ e.kind # "str" => e.link \in S
                  /\ e.kind = "prop" => e.key \in S
                  /\ e.kind = "prop" /\ is_mem_entity(e.val) => e.val.off \in S
           /\ \A i \in DOMAIN h.cbs : h.cbs[i].caller \in S /\ h.cbs[i].func \in S
<1>1. S \in SUBSET DOMAIN h.mem /\ 0 \in S /\ h \in Heap
  BY DEF Sound, Packed
<1>2. ASSUME NEW o \in S
      PROVE  /\ h.mem[o] \in Entity
             /\ h.mem[o].kind # "str" => h.mem[o].link \in S
             /\ h.mem[o].kind = "prop" => h.mem[o].key \in S
             /\ h.mem[o].kind = "prop" /\ is_mem_entity(h.mem[o].val) => h.mem[o].val.off \in S
  <2>1. h.mem[o] \in Entity /\ h.mem[o].kind \in {"obj", "prop", "str"}
    BY <1>1, HeapIs
  <2>2. h.mem[o].kind # "str" => h.mem[o].link \in S
    BY <1>1, <2>1 DEF Sound, Props
  <2>3. h.mem[o].kind = "prop" =>
            h.mem[o].key \in S /\ (is_mem_entity(h.mem[o].val) => h.mem[o].val.off \in S)
    BY DEF Sound, Props, Points
  <2> QED
    BY <2>1, <2>2, <2>3
<1>3. \A i \in DOMAIN h.cbs : h.cbs[i].caller \in S /\ h.cbs[i].func \in S
  BY DEF Sound
<1> QED
  BY <1>1, <1>2, <1>3

\* f is e with its references moved.
Moves(h, S, x, e, f) ==
    /\ f \in Entity /\ f.kind = e.kind /\ f.up = e.up /\ f.text = e.text /\ f.words = e.words
    /\ f.link = (IF e.kind = "str" THEN e.link ELSE Pos(h, S, x, e.link))
    /\ f.key = (IF e.kind = "prop" THEN Pos(h, S, x, e.key) ELSE e.key)
    /\ f.val.type = e.val.type
    /\ f.val.off = (IF e.kind = "prop" /\ is_mem_entity(e.val) THEN Pos(h, S, x, e.val.off) ELSE e.val.off)

\* The loop has come to x, S being what is kept of h.
Reached(h, S, x, t) ==
    /\ x \in Places(h) /\ t.off = UsedBelow(h, S, x)
    /\ DOMAIN t.h.mem = {Pos(h, S, x, o) : o \in Left(h, S, x)}
    /\ t.marked = {Pos(h, S, x, o) : o \in Left(h, S, x) \ S}
    /\ \A o \in S : Moves(h, S, x, h.mem[o], t.h.mem[Pos(h, S, x, o)])
    /\ \A o \in Left(h, S, x) \ S : t.h.mem[Pos(h, S, x, o)] = h.mem[o]
    /\ t.h.brk = Pos(h, S, x, h.brk) /\ t.h.size = h.size /\ t.h.scope = Pos(h, S, x, h.scope)
    /\ DOMAIN t.h.cbs = DOMAIN h.cbs
    /\ \A i \in DOMAIN h.cbs : /\ t.h.cbs[i].caller = Pos(h, S, x, h.cbs[i].caller)
                               /\ t.h.cbs[i].func = Pos(h, S, x, h.cbs[i].func)

(* Where the loop is, and what it does there.                               *)
LEMMA ReachedOff ==
    ASSUME NEW h, Packed(h), NEW S, Sound(h, S), NEW x, NEW t \in LoopState, Sweeping(t), Reached(h, S, x, t)
    PROVE  /\ t.off >= t.h.brk <=> x = h.brk
           /\ x # h.brk => /\ x \in DOMAIN h.mem /\ t.off = Pos(h, S, x, x) /\ t.off \in DOMAIN t.h.mem
                           /\ t.off \in t.marked <=> x \notin S
                           /\ t.h.mem[t.off].words = h.mem[x].words
           /\ \A o, p \in Left(h, S, x) : Pos(h, S, x, o) = Pos(h, S, x, p) => o = p
<1>1. S \in SUBSET DOMAIN h.mem /\ x \in Places(h) /\ DOMAIN h.mem \subseteq Nat /\ h.brk \in Nat
      /\ \A o \in DOMAIN h.mem : o < h.brk
  BY ReferredIn, Below_brk, HeapIs DEF Reached, Packed
<1>2. /\ x \in Nat /\ UsedBelow(h, S, x) \in Nat /\ \A o \in Nat : Pos(h, S, x, o) \in Nat
      /\ Pos(h, S, x, x) = t.off
      /\ \A o \in Left(h, S, x), p \in Left(h, S, x) \cup {h.brk} : o < p => Pos(h, S, x, o) < Pos(h, S, x, p)
  <2>1. t.off = UsedBelow(h, S, x)
    BY DEF Reached
  <2> QED
    BY <1>1, <2>1, PosFacts, Zenon
<1>3. ASSUME NEW o \in Left(h, S, x), NEW p \in Left(h, S, x), Pos(h, S, x, o) = Pos(h, S, x, p) PROVE o = p
  <2>1. o \in Nat /\ p \in Nat /\ Pos(h, S, x, o) \in Nat /\ Pos(h, S, x, p) \in Nat
    BY <1>1, <1>2 DEF Left
  <2>2. ~(o < p) /\ ~(p < o)
    BY <1>2, <1>3, <2>1
  <2> QED
    BY <2>1, <2>2
<1>4. CASE x = h.brk
  <2>1. t.off = t.h.brk /\ t.off \in Nat
    BY <1>1, <1>2, <1>4 DEF Reached
  <2> QED
    BY <1>3, <1>4, <2>1
<1>5. CASE x # h.brk
  <2>1. x \in DOMAIN h.mem /\ x < h.brk /\ x \in Left(h, S, x)
    BY <1>1, <1>2, <1>5 DEF Places, Left
  <2>2. t.off < t.h.brk /\ t.off \in Nat /\ t.h.brk \in Nat
    BY <1>1, <1>2, <2>1 DEF Reached
  <2>3. t.off \in DOMAIN t.h.mem
    BY <1>2, <2>1 DEF Reached
  <2>4. CASE x \in S
    <3>1. t.off \notin t.marked
      BY <1>2, <1>3, <2>1, <2>4 DEF Reached
    <3>2. t.h.mem[t.off].words = h.mem[x].words
      BY <1>2, <2>4 DEF Reached, Moves
    <3> QED
      BY <1>2, <1>3, <1>5, <2>1, <2>2, <2>3, <2>4, <3>1, <3>2
  <2>5. CASE x \notin S
    <3>1. t.off \in t.marked /\ t.h.mem[t.off] = h.mem[x]
      BY <1>2, <2>1, <2>5 DEF Reached
    <3> QED
      BY <1>2, <1>3, <1>5, <2>1, <2>2, <2>3, <2>5, <3>1
  <2> QED
    BY <2>4, <2>5
<1> QED
  BY <1>4, <1>5

\* The loop goes past an entity that is kept.
LEMMA PassesKept ==
    ASSUME NEW h, Packed(h), NEW S, Sound(h, S), h.scope \in S, NEW x, x # h.brk, x \in S,
           NEW t \in LoopState, Sweeping(t), Reached(h, S, x, t)
    PROVE  Reached(h, S, x + h.mem[x].words, Turn(t))
<1> DEFINE n == h.mem[x].words
           y == x + n
           r == Turn(t)
<1>1. /\ t.off < t.h.brk /\ x \in DOMAIN h.mem /\ t.off \notin t.marked /\ t.h.mem[t.off].words = n
      /\ t.off \in DOMAIN t.h.mem
  <2>1. ~(t.off >= t.h.brk) /\ x \in DOMAIN h.mem /\ t.off \notin t.marked /\ t.h.mem[t.off].words = n
        /\ t.off \in DOMAIN t.h.mem
    BY ReachedOff
  <2> QED
    BY <2>1, Below_brk DEF Sweeping
<1>2. r = [t EXCEPT !.off = t.off + n]
  BY <1>1, ReachedOff DEF Turn
<1>3. r.h = t.h /\ r.off = t.off + n /\ r.marked = t.marked
  BY <1>2 DEF LoopState
<1> HIDE DEF r
<1>4. S \in SUBSET DOMAIN h.mem /\ S \subseteq Places(h) /\ h.brk \in Places(h)
  BY ReferredIn DEF Places
<1>5. /\ y \in Places(h) /\ UsedBelow(h, S, y) = UsedBelow(h, S, x) + n /\ Left(h, S, y) = Left(h, S, x)
      /\ \A o \in Places(h) : Pos(h, S, y, o) = Pos(h, S, x, o)
  <2>1. y \in Places(h) /\ Stays(h, S, x, y)
    BY <1>1, <1>4, PosMoves
  <2> HIDE DEF y
  <2> QED
    BY <2>1 DEF Stays
<1> HIDE DEF y
<1>6. Left(h, S, x) \subseteq Places(h)
  BY DEF Left, Places
<1>7. \A o \in S : Moves(h, S, y, h.mem[o], r.h.mem[Pos(h, S, y, o)])
  <2> TAKE o \in S
  <2>1. Moves(h, S, x, h.mem[o], t.h.mem[Pos(h, S, x, o)]) /\ Pos(h, S, y, o) = Pos(h, S, x, o)
    BY <1>4, <1>5 DEF Reached
  <2> DEFINE e == h.mem[o]
             f == t.h.mem[Pos(h, S, x, o)]
  <2>2. /\ e.kind # "str" => e.link \in Places(h)
        /\ e.kind = "prop" => e.key \in Places(h)
        /\ e.kind = "prop" /\ is_mem_entity(e.val) => e.val.off \in Places(h)
        /\ e.kind = "str" \/ e.kind # "str"
    BY <1>4, ReferredIn
  <2>3. Moves(h, S, x, e, f)
    BY <2>1
  <2> HIDE DEF e, f
  <2>4. Moves(h, S, y, e, f)
    BY <1>5, <2>2, <2>3 DEF Moves
  <2> QED
    BY <1>3, <2>1, <2>4 DEF e, f
<1>8. /\ Pos(h, S, y, h.brk) = Pos(h, S, x, h.brk) /\ Pos(h, S, y, h.scope) = Pos(h, S, x, h.scope)
      /\ \A i \in DOMAIN h.cbs : /\ Pos(h, S, y, h.cbs[i].caller) = Pos(h, S, x, h.cbs[i].caller)
                                 /\ Pos(h, S, y, h.cbs[i].func) = Pos(h, S, x, h.cbs[i].func)
  BY <1>4, <1>5, ReferredIn
<1>9. /\ {Pos(h, S, y, o) : o \in Left(h, S, y)} = {Pos(h, S, x, o) : o \in Left(h, S, x)}
      /\ {Pos(h, S, y, o) : o \in Left(h, S, y) \ S} = {Pos(h, S, x, o) : o \in Left(h, S, x) \ S}
      /\ \A o \in Left(h, S, y) \ S : r.h.mem[Pos(h, S, y, o)] = t.h.mem[Pos(h, S, x, o)]
  BY <1>3, <1>5, <1>6
<1> HIDE DEF n
<1>10. Reached(h, S, y, r)
  BY <1>3, <1>5, <1>7, <1>8, <1>9 DEF Reached
<1> QED
  BY <1>10 DEF y, n, r

\* References that have moved to one place move on to the next.
LEMMA MovesOn ==
    ASSUME NEW h, Packed(h), NEW S, Sound(h, S), NEW x, NEW y, NEW off \in Nat, NEW n \in Nat, NEW o \in S,
           NEW e, e = h.mem[o], NEW d, Moves(h, S, x, e, d), NEW f, f = Fixed(d, off, n),
           \A p \in S : /\ Pos(h, S, y, p) = Down(off, n, Pos(h, S, x, p)) /\ Pos(h, S, y, p) \in Nat
                        /\ Pos(h, S, x, p) # off
    PROVE  Moves(h, S, y, e, f)
<1>1. /\ e \in Entity /\ e.kind \in {"obj", "prop", "str"} /\ e.link \in Nat /\ e.key \in Nat /\ e.val.off \in Nat
      /\ e.kind # "str" => e.link \in S
      /\ e.kind = "prop" => e.key \in S
      /\ e.kind = "prop" /\ is_mem_entity(e.val) => e.val.off \in S
  <2>1. e \in Entity
    BY ReferredIn
  <2>2. e.kind \in {"obj", "prop", "str"} /\ e.link \in Nat /\ e.key \in Nat /\ e.val.off \in Nat
    BY <2>1 DEF Entity, Value
  <2>3. /\ e.kind # "str" => e.link \in S
        /\ e.kind = "prop" => e.key \in S
        /\ e.kind = "prop" /\ is_mem_entity(e.val) => e.val.off \in S
    BY ReferredIn
  <2> QED
    BY <2>1, <2>2, <2>3
<1>2. /\ d \in Entity /\ d.kind = e.kind /\ d.up = e.up /\ d.text = e.text /\ d.words = e.words
      /\ d.link = (IF e.kind = "str" THEN e.link ELSE Pos(h, S, x, e.link))
      /\ d.key = (IF e.kind = "prop" THEN Pos(h, S, x, e.key) ELSE e.key)
      /\ d.val.type = e.val.type
      /\ d.val.off = (IF e.kind = "prop" /\ is_mem_entity(e.val) THEN Pos(h, S, x, e.val.off) ELSE e.val.off)
  BY DEF Moves
<1>3. is_mem_entity(d.val) <=> is_mem_entity(e.val)
  BY <1>2 DEF is_mem_entity
<1>4. d.kind # "str" => d.link # off
  BY <1>1, <1>2
<1>5. /\ f.kind = d.kind /\ f.up = d.up /\ f.text = d.text /\ f.words = d.words
      /\ f.link = (IF d.kind = "str" THEN d.link ELSE Down(off, n, d.link))
      /\ f.key = (IF d.kind = "prop" THEN Down(off, n, d.key) ELSE d.key)
      /\ f.val.type = d.val.type
      /\ f.val.off = (IF d.kind = "prop" /\ is_mem_entity(d.val) THEN Down(off, n, d.val.off) ELSE d.val.off)
      /\ f.link \in Nat /\ f.key \in Nat /\ f.val.off \in Nat => f \in Entity
  BY <1>2, <1>4, FixedFacts
<1>6. /\ f.link = (IF e.kind = "str" THEN e.link ELSE Pos(h, S, y, e.link))
      /\ f.key = (IF e.kind = "prop" THEN Pos(h, S, y, e.key) ELSE e.key)
      /\ f.val.off = (IF e.kind = "prop" /\ is_mem_entity(e.val) THEN Pos(h, S, y, e.val.off) ELSE e.val.off)
  BY <1>1, <1>2, <1>3, <1>5
<1>7. f.link \in Nat /\ f.key \in Nat /\ f.val.off \in Nat
  BY <1>1, <1>6
<1> QED
  BY <1>2, <1>5, <1>6, <1>7 DEF Moves

\* The loop deletes an entity.
LEMMA PassesDeleted ==
    ASSUME NEW h, Packed(h), NEW S, Sound(h, S), h.scope \in S, NEW x, x # h.brk, x \notin S,
           NEW t \in LoopState, Sweeping(t), Reached(h, S, x, t)
    PROVE  Reached(h, S, x + h.mem[x].words, Turn(t))
<1> DEFINE n == h.mem[x].words
           y == x + n
           r == Turn(t)
           P(o) == Pos(h, S, x, o)
           Q(o) == Pos(h, S, y, o)
           off == t.off
           rest == Left(h, S, x) \ {x}
<1>1. /\ ~(off >= t.h.brk) /\ x \in DOMAIN h.mem /\ off \in t.marked /\ t.h.mem[off].words = n
      /\ off \in DOMAIN t.h.mem /\ off = P(x) /\ off = UsedBelow(h, S, x) /\ x \in Left(h, S, x)
      /\ \A o, p \in Left(h, S, x) : P(o) = P(p) => o = p
  <2>1. /\ ~(off >= t.h.brk) /\ x \in DOMAIN h.mem /\ off \in t.marked /\ t.h.mem[off].words = n
        /\ off \in DOMAIN t.h.mem /\ off = P(x)
        /\ \A o, p \in Left(h, S, x) : P(o) = P(p) => o = p
    BY ReachedOff
  <2>2. off = UsedBelow(h, S, x)
    BY DEF Reached
  <2>3. x \in Nat
    BY <2>1, Below_brk
  <2> QED
    BY <2>1, <2>2, <2>3 DEF Left
<1>2. r = Without(t.h, off, t.marked)
  BY <1>1 DEF Turn
<1>3. /\ Packed(t.h) /\ t.marked \in SUBSET DOMAIN t.h.mem /\ Sound(t.h, Live(t.h, t.marked))
      /\ t.h.scope \in Live(t.h, t.marked)
  BY DEF Sweeping
<1>4. /\ r.off = off /\ r.marked = {Down(off, n, q) : q \in t.marked \ {off}}
      /\ DOMAIN r.h.mem = {Down(off, n, q) : q \in DOMAIN t.h.mem \ {off}}
      /\ \A q \in DOMAIN t.h.mem \ {off} :
             r.h.mem[Down(off, n, q)] = IF q \in t.marked THEN t.h.mem[q] ELSE Fixed(t.h.mem[q], off, n)
      /\ r.h.brk = t.h.brk - n /\ r.h.size = t.h.size /\ r.h.scope = Down(off, n, t.h.scope)
      /\ DOMAIN r.h.cbs = DOMAIN t.h.cbs
      /\ \A i \in DOMAIN t.h.cbs : /\ r.h.cbs[i].caller = Down(off, n, t.h.cbs[i].caller)
                                   /\ r.h.cbs[i].func = Down(off, n, t.h.cbs[i].func)
  <2>1. n = t.h.mem[off].words
    BY <1>1
  <2> HIDE DEF n, r, off
  <2> QED
    BY <1>1, <1>2, <1>3, <2>1, WithoutFields
<1> HIDE DEF r
<1>5. S \in SUBSET DOMAIN h.mem /\ S \subseteq rest
  BY ReferredIn DEF Left
<1>6. /\ y \in Places(h) /\ UsedBelow(h, S, y) = off /\ Left(h, S, y) = rest
      /\ \A o \in rest \cup {h.brk} : Q(o) = Down(off, n, P(o))
  <2>1. y \in Places(h) /\ Falls(h, S, x, y)
    BY <1>1, <1>5, PosMoves
  <2> HIDE DEF y
  <2>2. UsedBelow(h, S, y) = UsedBelow(h, S, x) /\ Left(h, S, y) = rest
    BY <2>1 DEF Falls
  <2>3. ASSUME NEW o \in rest \cup {h.brk} PROVE Q(o) = Down(off, n, P(o))
    BY <1>1, <2>1, <2>3 DEF Falls
  <2> QED
    BY <1>1, <2>1, <2>2, <2>3
<1>7. /\ x \in Nat /\ y \in Nat /\ off \in Nat /\ n \in Nat /\ h.brk \in Nat
      /\ \A o \in S : o \in Nat /\ Q(o) \in Nat /\ P(o) # off
  <2>1. DOMAIN h.mem \subseteq Nat /\ h.brk \in Nat /\ n \in Nat
    BY <1>1, Below_brk, HeapIs DEF Packed
  <2>2. x \in Nat /\ y \in Nat /\ off \in Nat
    <3>1. x \in Places(h)
      BY <1>1 DEF Places
    <3>2. UsedBelow(h, S, x) \in Nat
      BY <1>5, <3>1, PosFacts, Zenon
    <3> QED
      BY <1>1, <2>1, <3>2
  <2>3. ASSUME NEW o \in S PROVE o \in Nat /\ Q(o) \in Nat /\ P(o) # off
    <3>1. o \in Nat /\ o # x /\ o \in Left(h, S, x)
      BY <1>5, <2>1
    <3> HIDE DEF P, Q, y, off
    <3>2. P(o) # off
      BY <1>1, <3>1
    <3>3. Q(o) \in Nat
      BY <1>5, <1>6, <3>1, PosFacts DEF Q
    <3> QED
      BY <3>1, <3>2, <3>3
  <2> QED
    BY <2>1, <2>2, <2>3
<1>8. /\ DOMAIN t.h.mem = {P(o) : o \in Left(h, S, x)}
      /\ t.marked = {P(o) : o \in Left(h, S, x) \ S}
      /\ \A o \in S : Moves(h, S, x, h.mem[o], t.h.mem[P(o)])
      /\ \A o \in Left(h, S, x) \ S : t.h.mem[P(o)] = h.mem[o]
      /\ t.h.brk = P(h.brk) /\ t.h.size = h.size /\ t.h.scope = P(h.scope)
      /\ DOMAIN t.h.cbs = DOMAIN h.cbs
      /\ \A i \in DOMAIN h.cbs : t.h.cbs[i].caller = P(h.cbs[i].caller) /\ t.h.cbs[i].func = P(h.cbs[i].func)
  BY DEF Reached
<1> HIDE DEF P, Q, off, y, n
<1>9. /\ DOMAIN t.h.mem \ {off} = {P(o) : o \in rest}
      /\ t.marked \ {off} = {P(o) : o \in rest \ S}
  <2>1. \A o \in rest : o \in Left(h, S, x) /\ P(o) # off
    BY <1>1
  <2>2. \A o \in Left(h, S, x) : P(o) # off => o \in rest
    BY <1>1
  <2> HIDE DEF rest
  <2>3. DOMAIN t.h.mem \ {off} = {P(o) : o \in rest}
    BY <1>8, <2>1, <2>2
  <2>4. t.marked \ {off} = {P(o) : o \in rest \ S}
    BY <1>8, <2>1, <2>2
  <2> QED
    BY <2>3, <2>4
<1>10. DOMAIN r.h.mem = {Q(o) : o \in rest} /\ r.marked = {Q(o) : o \in rest \ S}
  <2> HIDE DEF rest
  <2> QED
    BY <1>4, <1>6, <1>9
<1>11. ASSUME NEW o \in rest \ S PROVE r.h.mem[Q(o)] = h.mem[o]
  <2>1. P(o) \in t.marked /\ P(o) \in DOMAIN t.h.mem \ {off} /\ Q(o) = Down(off, n, P(o)) /\ t.h.mem[P(o)] = h.mem[o]
    BY <1>6, <1>8, <1>9
  <2> QED
    BY <1>4, <2>1
<1>12. ASSUME NEW o \in S PROVE Moves(h, S, y, h.mem[o], r.h.mem[Q(o)])
  <2>1. P(o) \notin t.marked /\ P(o) \in DOMAIN t.h.mem \ {off} /\ Q(o) = Down(off, n, P(o))
    BY <1>1, <1>5, <1>6, <1>8, <1>9
  <2>2. r.h.mem[Q(o)] = Fixed(t.h.mem[P(o)], off, n)
    BY <1>4, <2>1
  <2>3. \A p \in S : Pos(h, S, y, p) = Down(off, n, Pos(h, S, x, p)) /\ Pos(h, S, y, p) \in Nat /\ Pos(h, S, x, p) # off
    BY <1>5, <1>6, <1>7 DEF P, Q
  <2>4. Moves(h, S, x, h.mem[o], t.h.mem[P(o)])
    BY <1>8
  <2>5. Moves(h, S, y, h.mem[o], Fixed(t.h.mem[P(o)], off, n))
    BY <1>7, <2>3, <2>4, MovesOn, Zenon
  <2> QED
    BY <2>2, <2>5
<1>13. r.h.brk = Q(h.brk)
  <2>1. Q(h.brk) = Pos(h, S, y, h.brk) /\ P(h.brk) = Pos(h, S, x, h.brk) /\ y = x + n
    BY DEF Q, P, y
  <2>2. y <= h.brk /\ x <= h.brk
    BY <1>1, <1>7, Below_brk DEF Packed, y, n
  <2>3. Pos(h, S, y, h.brk) = h.brk - y + off /\ Pos(h, S, x, h.brk) = h.brk - x + off
    BY <1>1, <1>6, <1>7, <2>2 DEF Pos
  <2> QED
    BY <1>4, <1>7, <1>8, <2>1, <2>3
<1>14. r.h.scope = Q(h.scope) /\ r.h.size = h.size
  BY <1>4, <1>5, <1>6, <1>8
<1>15. ASSUME NEW i \in DOMAIN h.cbs
       PROVE  r.h.cbs[i].caller = Q(h.cbs[i].caller) /\ r.h.cbs[i].func = Q(h.cbs[i].func)
  <2>1. h.cbs[i].caller \in rest /\ h.cbs[i].func \in rest
    BY <1>5, ReferredIn
  <2> HIDE DEF rest
  <2> QED
    BY <1>4, <1>6, <1>8, <2>1
<1>16. r.off = off /\ DOMAIN r.h.cbs = DOMAIN h.cbs
  BY <1>4, <1>8
<1>17. Reached(h, S, y, r)
  <2> HIDE DEF rest
  <2> QED
    BY <1>6, <1>10, <1>11, <1>12, <1>13, <1>14, <1>15, <1>16 DEF Reached, Q
<1> QED
  BY <1>17 DEF y, n, r

\* The entities below x.
Lower(h, x) == {o \in DOMAIN h.mem : o < x}

(* Where the loop begins.                                                   *)
LEMMA BeginsReached ==
    ASSUME NEW h, Packed(h), NEW S, Sound(h, S), h.scope \in S,
           NEW t, t = [h |-> h, off |-> 0, marked |-> DOMAIN h.mem \ S]
    PROVE  Reached(h, S, 0, t)
<1>1. /\ S \in SUBSET DOMAIN h.mem /\ 0 \in S /\ DOMAIN h.mem \subseteq Nat /\ h.brk \in Nat
      /\ \A i \in DOMAIN h.cbs : h.cbs[i].caller \in S /\ h.cbs[i].func \in S
  BY ReferredIn, Below_brk, HeapIs DEF Packed
<1>2. t.h = h /\ t.off = 0 /\ t.marked = DOMAIN h.mem \ S
  OBVIOUS
<1>3. 0 \in Places(h) /\ UsedBelow(h, S, 0) = 0
  BY <1>1, UsedFacts DEF Places
<1>4. \A o \in Nat : Pos(h, S, 0, o) = o
  BY <1>3 DEF Pos
<1>5. Left(h, S, 0) = DOMAIN h.mem
  BY <1>1 DEF Left
<1>6. ASSUME NEW o \in S PROVE Moves(h, S, 0, h.mem[o], h.mem[o])
  <2> DEFINE e == h.mem[o]
  <2>1. e \in Entity
    BY ReferredIn
  <2> HIDE DEF e
  <2>2. e.link \in Nat /\ e.key \in Nat /\ e.val.off \in Nat
    BY <2>1 DEF Entity, Value
  <2>3. Moves(h, S, 0, e, e)
    BY <1>4, <2>1, <2>2 DEF Moves
  <2> QED
    BY <2>3 DEF e
<1>7. /\ DOMAIN h.mem = {Pos(h, S, 0, o) : o \in Left(h, S, 0)}
      /\ DOMAIN h.mem \ S = {Pos(h, S, 0, o) : o \in Left(h, S, 0) \ S}
      /\ \A o \in DOMAIN h.mem : Pos(h, S, 0, o) = o
  BY <1>1, <1>4, <1>5
<1>8. /\ h.brk = Pos(h, S, 0, h.brk) /\ h.scope = Pos(h, S, 0, h.scope)
      /\ \A i \in DOMAIN h.cbs : /\ h.cbs[i].caller = Pos(h, S, 0, h.cbs[i].caller)
                                 /\ h.cbs[i].func = Pos(h, S, 0, h.cbs[i].func)
  BY <1>1, <1>4
<1> QED
  BY <1>1, <1>2, <1>3, <1>5, <1>6, <1>7, <1>8 DEF Reached

(* The turns are enough to come to the end.                                 *)
LEMMA ComesToEnd ==
    ASSUME NEW h, Packed(h), NEW S, Sound(h, S), h.scope \in S, NEW marked, marked = DOMAIN h.mem \ S
    PROVE  \E t \in LoopState : t.h = Deleted(h, marked) /\ Sweeping(t) /\ Reached(h, S, h.brk, t)
<1> DEFINE N == Cardinality(DOMAIN h.mem)
           A == [h |-> h, off |-> 0, marked |-> marked]
<1>1. S \in SUBSET DOMAIN h.mem /\ Live(h, marked) = S /\ marked \in SUBSET DOMAIN h.mem
  BY ReferredIn DEF Live
<1>2. PICK f : /\ Deleted(h, marked) = f[N].h /\ f[0] = A
               /\ \A n \in Nat : /\ f[n] \in LoopState /\ Sweeping(f[n]) /\ f[n + 1] = Turn(f[n])
  <2>1. Sound(h, Live(h, marked)) /\ h.scope \in Live(h, marked)
    BY <1>1
  <2>2. PICK f : Loops(f, h, marked)
    BY <1>1, <2>1, Turns, Zenon
  <2> QED
    BY <2>2, Zenon DEF Loops
<1>3. N \in Nat /\ IsFiniteSet(DOMAIN h.mem) /\ DOMAIN h.mem \subseteq Nat
  BY Below_brk, FS_CardinalityType
<1>4. \A x : IsFiniteSet(Lower(h, x)) /\ Cardinality(Lower(h, x)) \in Nat
  BY <1>3, FS_Subset, FS_CardinalityType DEF Lower
<1> DEFINE At(n, x) == Reached(h, S, x, f[n]) /\ (x = h.brk \/ Cardinality(Lower(h, x)) = n)
           I == {n \in Nat : \E x : At(n, x)}
<1>5. 0 \in I
  <2>1. Lower(h, 0) = {}
    BY <1>3 DEF Lower
  <2>2. Cardinality(Lower(h, 0)) = 0
    BY <2>1, FS_EmptySet
  <2>3. Reached(h, S, 0, A)
    BY BeginsReached
  <2> QED
    BY <1>2, <2>2, <2>3
<1>6. ASSUME NEW n \in Nat, n \in I PROVE n + 1 \in I
  <2>1. PICK x : At(n, x)
    BY <1>6
  <2>2. f[n] \in LoopState /\ Sweeping(f[n]) /\ f[n + 1] = Turn(f[n])
    BY <1>2
  <2>3. CASE x = h.brk
    <3>1. Turn(f[n]) = f[n]
      BY <2>1, <2>2, <2>3, ReachedOff DEF Turn
    <3> QED
      BY <2>1, <2>2, <2>3, <3>1
  <2>4. CASE x # h.brk
    <3> DEFINE w == h.mem[x].words
    <3>1. x \in DOMAIN h.mem
      BY <2>1, <2>2, <2>4, ReachedOff
    <3>2. Reached(h, S, x + w, f[n + 1])
      BY <2>1, <2>2, <2>4, PassesKept, PassesDeleted
    <3>3. /\ w \in Nat \ {0} /\ x \in Nat
          /\ \A o \in DOMAIN h.mem : o \in Nat /\ (x < o => x + w <= o)
      BY <3>1, Below_brk, HeapIs DEF Packed
    <3> HIDE DEF w
    <3>4. Lower(h, x + w) = Lower(h, x) \cup {x} /\ x \notin Lower(h, x)
      BY <3>1, <3>3 DEF Lower
    <3>5. Cardinality(Lower(h, x + w)) = n + 1
      <4>1. Cardinality(Lower(h, x) \cup {x}) = Cardinality(Lower(h, x)) + 1
        BY <1>4, <3>4, FS_AddElement
      <4> QED
        BY <2>1, <2>4, <3>4, <4>1
    <3> QED
      BY <3>2, <3>5
  <2> QED
    BY <2>3, <2>4
<1>7. N \in I
  <2> HIDE DEF I, N
  <2> QED
    BY <1>3, <1>5, <1>6, SetInduction
<1>8. PICK x : At(N, x)
  BY <1>7
<1>9. x = h.brk
  <2>1. SUFFICES ASSUME x # h.brk PROVE FALSE
    OBVIOUS
  <2>2. x \in DOMAIN h.mem /\ x \in Nat
    BY <1>2, <1>3, <1>8, <2>1, ReachedOff
  <2>3. Lower(h, x) \in SUBSET DOMAIN h.mem /\ x \notin Lower(h, x)
    BY <2>2 DEF Lower
  <2>4. Cardinality(Lower(h, x)) < N
    <3>1. Lower(h, x) # DOMAIN h.mem /\ N < N + 1
      BY <1>3, <2>2, <2>3
    <3> QED
      BY <1>3, <2>3, <3>1, Fewer
  <2> QED
    BY <1>3, <1>8, <2>1, <2>4
<1> QED
  BY <1>2, <1>3, <1>8, <1>9

\* Relocated, part by part.
To(h, S, o) == UsedBelow(h, S, o)
Moved(h, S, e) ==
    [e EXCEPT !.link = IF e.kind # "str" THEN To(h, S, @) ELSE @,
              !.key = IF e.kind = "prop" THEN To(h, S, @) ELSE @,
              !.val.off = IF e.kind = "prop" /\ is_mem_entity(e.val) THEN To(h, S, @) ELSE @]

(* An entity is its fields.                                                *)
LEMMA MovedIs ==
    ASSUME NEW h, NEW S, NEW e \in Entity, NEW f \in Entity,
           f.kind = e.kind, f.up = e.up, f.text = e.text, f.words = e.words,
           f.link = (IF e.kind = "str" THEN e.link ELSE To(h, S, e.link)),
           f.key = (IF e.kind = "prop" THEN To(h, S, e.key) ELSE e.key),
           f.val.type = e.val.type,
           f.val.off = (IF e.kind = "prop" /\ is_mem_entity(e.val) THEN To(h, S, e.val.off) ELSE e.val.off)
    PROVE  f = Moved(h, S, e)
<1> DEFINE l == IF e.kind # "str" THEN To(h, S, e.link) ELSE e.link
           k == IF e.kind = "prop" THEN To(h, S, e.key) ELSE e.key
           w == IF e.kind = "prop" /\ is_mem_entity(e.val) THEN To(h, S, e.val.off) ELSE e.val.off
           v == [e.val EXCEPT !.off = w]
<1>1. Moved(h, S, e) = [e EXCEPT !.link = l, !.key = k, !.val = v]
  BY Zenon DEF Moved
<1>2. f.link = l /\ f.key = k /\ f.val.off = w /\ f.val.type = e.val.type
  OBVIOUS
<1>3. f.val = v
  <2>1. f.val \in Value /\ e.val \in Value
    BY DEF Entity
  <2> HIDE DEF w
  <2> QED
    BY <1>2, <2>1 DEF Value
<1> HIDE DEF l, k, v
<1>4. f = [e EXCEPT !.link = l, !.key = k, !.val = v]
  BY <1>2, <1>3 DEF Entity
<1> QED
  BY <1>1, <1>4

(* A collection relocates what is reachable, in one piece.                  *)
LEMMA CollectMoves ==
    ASSUME NEW h, Packed(h), Sound(h, Unmarked(h)), h.scope \in Unmarked(h)
    PROVE  js_gc(h) = Relocated(h)
<1> DEFINE S == Unmarked(h)
           g == js_gc(h)
           x == h.brk
           T(o) == To(h, S, o)
           m == [p \in {T(o) : o \in S} |-> Moved(h, S, h.mem[CHOOSE o \in S : T(o) = p])]
           c == [i \in DOMAIN h.cbs |-> [caller |-> T(h.cbs[i].caller), func |-> T(h.cbs[i].func)]]
<1>1. Relocated(h) = [mem |-> m, brk |-> T(x), size |-> h.size, scope |-> T(h.scope), cbs |-> c]
  BY Zenon DEF Relocated, To, Moved
<1>2. PICK t \in LoopState : t.h = g /\ Sweeping(t) /\ Reached(h, S, x, t)
  <2> HIDE DEF S
  <2>1. g = Deleted(h, DOMAIN h.mem \ S)
    BY DEF js_gc, S
  <2> HIDE DEF g
  <2> QED
    BY <2>1, ComesToEnd DEF S
<1> HIDE DEF g
<1>3. /\ S \in SUBSET DOMAIN h.mem /\ x \in Nat /\ DOMAIN h.mem \subseteq Nat /\ \A o \in DOMAIN h.mem : o < x
      /\ \A i \in DOMAIN h.cbs : h.cbs[i].caller \in S /\ h.cbs[i].func \in S
      /\ \A o \in S : h.mem[o] \in Entity
  <2> HIDE DEF S
  <2> QED
    BY ReferredIn, Below_brk, HeapIs DEF Packed, S
<1> HIDE DEF S
<1>4. x \in Places(h) /\ S \subseteq Left(h, S, x) /\ Left(h, S, x) \subseteq S
  BY <1>3 DEF Places, Left
<1>5. /\ \A o \in S : Pos(h, S, x, o) = T(o)
      /\ Pos(h, S, x, x) = T(x)
  <2>1. \A o \in S : o < x
    BY <1>3
  <2>2. Pos(h, S, x, x) = T(x)
    BY <1>3, <1>4, PosFacts DEF To
  <2> QED
    BY <2>1, <2>2 DEF Pos, To
<1>6. /\ DOMAIN g.mem = {T(o) : o \in S}
      /\ \A o \in S : Moves(h, S, x, h.mem[o], g.mem[T(o)])
      /\ g.brk = T(x) /\ g.size = h.size /\ g.scope = T(h.scope)
      /\ DOMAIN g.cbs = DOMAIN h.cbs
      /\ \A i \in DOMAIN h.cbs : g.cbs[i].caller = T(h.cbs[i].caller) /\ g.cbs[i].func = T(h.cbs[i].func)
  <2> HIDE DEF T
  <2>1. Left(h, S, x) = S
    BY <1>4
  <2>2. DOMAIN g.mem = {Pos(h, S, x, o) : o \in S}
    BY <1>2, <2>1 DEF Reached
  <2>3. {Pos(h, S, x, o) : o \in S} = {T(o) : o \in S}
    BY <1>5
  <2>4. \A o \in S : Moves(h, S, x, h.mem[o], g.mem[T(o)])
    BY <1>2, <1>5 DEF Reached
  <2>5. h.scope \in S
    BY DEF S
  <2> QED
    BY <1>2, <1>3, <1>5, <2>2, <2>3, <2>4, <2>5 DEF Reached
<1>7. \A o, p \in S : T(o) = T(p) => o = p
  <2> HIDE DEF T
  <2>1. Sound(h, S)
    BY DEF S
  <2> QED
    BY <1>2, <1>4, <1>5, <2>1, ReachedOff
<1>8. \A o \in S : g.mem[T(o)] = Moved(h, S, h.mem[o])
  <2> TAKE o \in S
  <2> DEFINE e == h.mem[o]
             f == g.mem[T(o)]
  <2>1. Moves(h, S, x, e, f) /\ e \in Entity /\ Sound(h, S)
    BY <1>3, <1>6 DEF S
  <2>2. /\ e.kind # "str" => e.link \in S
        /\ e.kind = "prop" => e.key \in S
        /\ e.kind = "prop" /\ is_mem_entity(e.val) => e.val.off \in S
    BY <2>1, ReferredIn
  <2> HIDE DEF e, f, T
  <2>3. /\ f.link = (IF e.kind = "str" THEN e.link ELSE T(e.link))
        /\ f.key = (IF e.kind = "prop" THEN T(e.key) ELSE e.key)
        /\ f.val.off = (IF e.kind = "prop" /\ is_mem_entity(e.val) THEN T(e.val.off) ELSE e.val.off)
        /\ f \in Entity /\ f.kind = e.kind /\ f.up = e.up /\ f.text = e.text /\ f.words = e.words
        /\ f.val.type = e.val.type
    BY <1>5, <2>1, <2>2 DEF Moves
  <2>4. f = Moved(h, S, e)
    BY <2>1, <2>3, MovedIs DEF T
  <2> QED
    BY <2>4 DEF e, f
<1>9. g \in Heap
  BY <1>2, Below_brk DEF Sweeping
<1>10. g.mem = m
  <2> HIDE DEF T
  <2>1. \A o \in S : m[T(o)] = Moved(h, S, h.mem[o])
    <3> TAKE o \in S
    <3> DEFINE q == CHOOSE p \in S : T(p) = T(o)
    <3>1. q \in S /\ T(q) = T(o)
      OBVIOUS
    <3>2. m[T(o)] = Moved(h, S, h.mem[q])
      OBVIOUS
    <3> HIDE DEF q, m
    <3>3. q = o
      BY <1>7, <3>1
    <3> QED
      BY <3>2, <3>3
  <2>2. DOMAIN m = DOMAIN g.mem /\ m = [p \in DOMAIN m |-> m[p]]
    BY <1>6
  <2> HIDE DEF m
  <2>3. g.mem = [p \in DOMAIN g.mem |-> g.mem[p]]
    BY <1>9, HeapIs DEF Memory
  <2>4. \A p \in DOMAIN g.mem : g.mem[p] = m[p]
    BY <1>6, <1>8, <2>1
  <2> QED
    BY <2>2, <2>3, <2>4
<1>11. g.cbs = c
  <2> HIDE DEF T
  <2>1. g.cbs \in Seq([caller : Nat, func : Nat])
    BY <1>9, HeapIs
  <2>2. g.cbs = [i \in DOMAIN g.cbs |-> g.cbs[i]]
    BY <2>1
  <2>3. \A i \in DOMAIN g.cbs : g.cbs[i] \in [caller : Nat, func : Nat]
    <3> DEFINE q == g.cbs
    <3>1. q \in Seq([caller : Nat, func : Nat])
      BY <2>1
    <3> HIDE DEF q
    <3>2. DOMAIN q = 1 .. Len(q) /\ \A i \in 1 .. Len(q) : q[i] \in [caller : Nat, func : Nat]
      BY <3>1, LenProperties, ElementOfSeq
    <3> QED
      BY <3>2 DEF q
  <2>4. ASSUME NEW i \in DOMAIN h.cbs PROVE g.cbs[i] = c[i]
    BY <1>6, <2>3
  <2>5. DOMAIN c = DOMAIN g.cbs /\ c = [i \in DOMAIN c |-> c[i]]
    BY <1>6
  <2> HIDE DEF c
  <2> QED
    BY <1>6, <2>2, <2>4, <2>5
<1> HIDE DEF m, c, T
<1>12. g = [mem |-> g.mem, brk |-> g.brk, size |-> g.size, scope |-> g.scope, cbs |-> g.cbs]
  BY <1>9 DEF Heap
<1> QED
  BY <1>1, <1>6, <1>10, <1>11, <1>12 DEF g

------------------------------------------------------------------------------
(* A collection                                                              *)

(* js_gc between evaluations and in a callback.                              *)
LEMMA CollectFacts ==
    ASSUME NEW h, NEW fs, NEW S, NEW sc, HeapInv(h, fs, S, sc), \A i \in 1 .. Len(fs) : Called(fs[i]),
           NEW g, g = js_gc(h)
    PROVE  /\ \E S2, sc2 : HeapInv(g, fs, S2, sc2)
           /\ Declared(h) \subseteq Declared(g)
           /\ g = Relocated(h)
<1> DEFINE marked == DOMAIN h.mem \ Unmarked(h)
<1>1. /\ fs \in Seq(Frame) /\ Packed(h) /\ Sound(h, S) /\ Nested(h, fs, S, sc)
      /\ Len(fs) \in Nat /\ S \subseteq DOMAIN h.mem
  BY LenProperties DEF HeapInv, Sound
<1>2. Len(fs) = 0 \/ Len(fs) = 1
  <2>1. SUFFICES ASSUME Len(fs) # 0, Len(fs) # 1 PROVE FALSE
    OBVIOUS
  <2>2. 2 \in 1 .. Len(fs)
    <3>1. \A n \in Nat : n # 0 /\ n # 1 => 2 \in 1 .. n
      OBVIOUS
    <3> QED
      BY <1>1, <2>1, <3>1
  <2> QED
    BY <1>1, <2>2 DEF Nested
<1>3. h.mem[h.scope].kind = "obj" /\ h.mem[h.scope].up = 0 /\ (Len(fs) = 0 => h.scope = 0)
  BY <1>1, <1>2 DEF Nested, Sound
<1>4. 0 \in Scopes(h)
  BY <1>3, ScopesFacts
<1>5. Live(h, marked) = Unmarked(h) /\ Sound(h, Unmarked(h)) /\ h.scope \in Unmarked(h)
  BY <1>1, <1>4, UnmarkedFacts, ScopesFacts DEF Live
<1>6. PICK t \in LoopState : t.h = g /\ Sweeping(t) /\ Swept(h, t.h)
  <2>1. g = Deleted(h, marked) /\ marked \in SUBSET DOMAIN h.mem
    BY DEF js_gc
  <2> HIDE DEF marked
  <2> QED
    BY <1>1, <1>5, <2>1, DeletedKeeps
<1> DEFINE S2 == Live(g, t.marked)
           sc2 == [i \in 0 .. Len(fs) |-> IF i = 0 THEN 0 ELSE g.scope]
<1>7. /\ Packed(g) /\ Sound(g, S2) /\ g.scope \in S2
      /\ Declared(h) \subseteq Declared(g)
      /\ g.mem[g.scope].kind = "obj" /\ g.mem[g.scope].up = 0 /\ (Len(fs) = 0 => g.scope = 0)
  BY <1>3, <1>6 DEF Sweeping, Swept
<1>8. Nested(g, fs, S2, sc2)
  <2>1. 0 \in S2 /\ S2 \subseteq DOMAIN g.mem /\ \A o \in DOMAIN g.mem : o \in Nat
    BY <1>7, Below_brk DEF Sound
  <2>2. g.scope \in Nat
    BY <1>7, <2>1
  <2> HIDE DEF S2
  <2>3. sc2 \in [0 .. Len(fs) -> S2] /\ sc2[0] = 0 /\ sc2[Len(fs)] = g.scope
    BY <1>1, <1>2, <1>7, <2>1
  <2>4. ASSUME NEW i \in 1 .. Len(fs)
        PROVE  i = 1 /\ sc2[i] = g.scope /\ sc2[i - 1] = 0
    BY <1>1, <1>2
  <2> HIDE DEF sc2
  <2> QED
    BY <1>7, <2>2, <2>3, <2>4 DEF Nested
<1>9. Opened(g, fs, S2, sc2)
  BY DEF Opened
<1> HIDE DEF S2, sc2
<1>10. g = Relocated(h)
  BY <1>1, <1>5, CollectMoves
<1> QED
  BY <1>1, <1>7, <1>8, <1>9, <1>10 DEF HeapInv

------------------------------------------------------------------------------
(* The memory grows                                                         *)

\* g has the entities of h in their places, and others only behind them.
Grown(h, g) ==
    /\ Packed(g) /\ DOMAIN h.mem \subseteq DOMAIN g.mem /\ h.brk <= g.brk /\ h.brk \in DOMAIN g.mem \cup {g.brk}
    /\ \A o \in DOMAIN h.mem : /\ g.mem[o].kind = h.mem[o].kind /\ g.mem[o].up = h.mem[o].up
                               /\ g.mem[o].text = h.mem[o].text /\ g.mem[o].words = h.mem[o].words

\* A value that refers to no object, to a new one, or to one a property of h refers to.
Fresh(h, S, v) ==
    v.type = "obj" => v.off >= h.brk \/ \E o \in Props(h, S) : h.mem[o].val.type = "obj" /\ h.mem[o].val.off = v.off

LEMMA GrownTwice ==
    ASSUME NEW h, Packed(h), NEW g, Grown(h, g), NEW r, Grown(g, r)
    PROVE  Grown(h, r)
<1>1. h.brk \in Nat /\ g.brk \in Nat /\ r.brk \in Nat
  BY Below_brk, HeapIs DEF Grown
<1> QED
  BY <1>1 DEF Grown

(* What is in use stays in use when nothing of it changes.                   *)
LEMMA SameSound ==
    ASSUME NEW h, NEW S, Sound(h, S), NEW g, S \subseteq DOMAIN g.mem, g.cbs = h.cbs,
           \A o \in S : g.mem[o] = h.mem[o]
    PROVE  Sound(g, S) /\ Props(g, S) = Props(h, S)
<1>1. Props(g, S) = Props(h, S)
  BY DEF Props
<1>2. \A v : Points(h, S, v) => Points(g, S, v)
  BY DEF Points
<1>3. 0 \in S /\ g.mem[0].kind = "obj" /\ g.mem[0].up = 0
  BY DEF Sound
<1>4. \A o \in S : g.mem[o].kind \in {"obj", "prop"} /\ g.mem[o].link # 0 => g.mem[o].link \in Props(g, S)
  BY <1>1 DEF Sound
<1>5. ASSUME NEW o \in Props(g, S)
      PROVE  /\ g.mem[o].link < o /\ g.mem[o].key \in S /\ g.mem[g.mem[o].key].kind = "str"
             /\ Points(g, S, g.mem[o].val)
  <2>1. o \in S /\ o \in Props(h, S) /\ g.mem[o] = h.mem[o]
    BY <1>1 DEF Props
  <2>2. /\ h.mem[o].link < o /\ h.mem[o].key \in S /\ h.mem[h.mem[o].key].kind = "str"
        /\ Points(h, S, h.mem[o].val)
    BY <2>1 DEF Sound
  <2> QED
    BY <1>2, <2>1, <2>2
<1>6. \A i \in DOMAIN g.cbs : LET c == g.cbs[i] IN
          /\ c.caller \in S /\ g.mem[c.caller].kind = "str" /\ g.mem[c.caller].text = "ffi"
          /\ c.func \in S /\ g.mem[c.func].kind = "str" /\ g.mem[c.func].text = "code"
  BY DEF Sound
<1> QED
  BY <1>1, <1>3, <1>4, <1>5, <1>6 DEF Sound

(* A string, or an object without properties, may be in use.                *)
LEMMA MoreSound ==
    ASSUME NEW h, NEW S, Sound(h, S), NEW o \in DOMAIN h.mem,
           h.mem[o].kind = "str" \/ (h.mem[o].kind = "obj" /\ h.mem[o].link = 0)
    PROVE  Sound(h, S \cup {o}) /\ Props(h, S \cup {o}) = Props(h, S)
<1> DEFINE S2 == S \cup {o}
<1>1. Props(h, S2) = Props(h, S)
  BY DEF Props
<1>2. \A v : Points(h, S, v) => Points(h, S2, v)
  BY DEF Points
<1> QED
  BY <1>1, <1>2 DEF Sound

(* An entity is allocated.                                                  *)
LEMMA AllocGrows ==
    ASSUME NEW h, Packed(h), NEW e \in Entity, NEW r, r = mkentity(h, e)
    PROVE  /\ Grown(h, r.h) /\ r.h.scope = h.scope /\ r.h.cbs = h.cbs
           /\ \A o \in DOMAIN h.mem : r.h.mem[o] = h.mem[o]
           /\ r.ok => r.off = h.brk /\ h.brk \in DOMAIN r.h.mem /\ r.h.mem[h.brk] = e
           /\ ~r.ok => r.h = h /\ h.brk + e.words > h.size
           /\ r.ok \in BOOLEAN
<1>0. r.ok \in BOOLEAN
  BY AllocFacts
<1>1. h.brk \in Nat /\ e.words \in Nat \ {0}
  BY Below_brk, HeapIs DEF Entity
<1>2. CASE r.ok
  <2>1. /\ r.off = h.brk /\ r.h.brk = h.brk + e.words /\ r.h.scope = h.scope /\ r.h.cbs = h.cbs
        /\ DOMAIN r.h.mem = DOMAIN h.mem \cup {h.brk}
        /\ r.h.mem[h.brk] = e /\ \A o \in DOMAIN h.mem : r.h.mem[o] = h.mem[o]
        /\ Packed(r.h)
    BY <1>2, AllocFacts
  <2>2. h.brk <= r.h.brk
    BY <1>1, <2>1
  <2>3. r.ok = TRUE
    BY <1>0, <1>2
  <2> QED
    BY <2>1, <2>2, <2>3 DEF Grown
<1>3. CASE ~r.ok
  <2>1. r.h = h /\ h.brk + e.words > h.size
    BY <1>3, AllocFacts
  <2>2. Grown(h, h)
    BY <1>1 DEF Grown
  <2>3. r.ok = FALSE
    BY <1>0, <1>3
  <2> QED
    BY <2>1, <2>2, <2>3
<1> QED
  BY <1>0, <1>2, <1>3

(* What a block or call opened upon stays.                                  *)
LEMMA GrownOpened ==
    ASSUME NEW h, NEW fs, NEW S, NEW sc, HeapInv(h, fs, S, sc),
           NEW g, Grown(h, g), NEW S2, \A o \in Props(g, S2) : Fresh(h, S, g.mem[o].val)
    PROVE  Opened(g, fs, S2, sc)
<1>1. fs \in Seq(Frame) /\ Packed(h) /\ Opened(h, fs, S, sc) /\ Packed(g)
  BY DEF HeapInv, Grown
<1>2. h.brk \in Nat /\ g.brk \in Nat /\ \A o \in DOMAIN h.mem : o \in Nat /\ o < h.brk
  BY <1>1, Below_brk, HeapIs
<1> SUFFICES ASSUME NEW j \in 1 .. Len(fs), NEW f, f = fs[j], ~Called(f)
             PROVE  /\ f.brk1 <= f.brk2 /\ f.brk2 <= g.brk
                    /\ f.brk1 \in DOMAIN g.mem \cup {g.brk}
                    /\ \A i \in 1 .. j - 1 : ~Called(fs[i]) => fs[i].brk2 <= f.brk1
                    /\ \A i \in 0 .. j - 1 : sc[i] < f.brk1
                    /\ f.brk1 # f.brk2 =>
                           /\ f.brk1 \in DOMAIN g.mem /\ g.mem[f.brk1].kind = "obj"
                           /\ f.brk2 = f.brk1 + g.mem[f.brk1].words
                           /\ \A o \in Props(g, S2) : g.mem[o].val.type = "obj" => g.mem[o].val.off # f.brk1
                    /\ f.type = "call" => f.code \in DOMAIN g.mem /\ g.mem[f.code].text = "code" /\ f.code < f.brk1
  BY DEF Opened
<1>3. f \in Frame /\ f.brk1 \in Nat /\ f.brk2 \in Nat
  <2>1. f \in Frame
    BY <1>1, ElementOfSeq
  <2> QED
    BY <2>1 DEF Frame
<1>4. /\ f.brk1 <= f.brk2 /\ f.brk2 <= h.brk
      /\ f.brk1 \in DOMAIN h.mem \cup {h.brk}
      /\ \A i \in 1 .. j - 1 : ~Called(fs[i]) => fs[i].brk2 <= f.brk1
      /\ \A i \in 0 .. j - 1 : sc[i] < f.brk1
      /\ f.brk1 # f.brk2 =>
             /\ f.brk1 \in DOMAIN h.mem /\ h.mem[f.brk1].kind = "obj"
             /\ f.brk2 = f.brk1 + h.mem[f.brk1].words
             /\ \A o \in Props(h, S) : h.mem[o].val.type = "obj" => h.mem[o].val.off # f.brk1
      /\ f.type = "call" => f.code \in DOMAIN h.mem /\ h.mem[f.code].text = "code" /\ f.code < f.brk1
  BY <1>1 DEF Opened
<1>5. f.brk2 <= g.brk /\ f.brk1 \in DOMAIN g.mem \cup {g.brk}
  BY <1>2, <1>3, <1>4 DEF Grown
<1>6. ASSUME f.brk1 # f.brk2
      PROVE  /\ f.brk1 \in DOMAIN g.mem /\ g.mem[f.brk1].kind = "obj"
             /\ f.brk2 = f.brk1 + g.mem[f.brk1].words
             /\ \A o \in Props(g, S2) : g.mem[o].val.type = "obj" => g.mem[o].val.off # f.brk1
  <2>1. f.brk1 \in DOMAIN h.mem /\ f.brk1 < h.brk
    BY <1>2, <1>4, <1>6
  <2>2. ASSUME NEW o \in Props(g, S2), g.mem[o].val.type = "obj" PROVE g.mem[o].val.off # f.brk1
    <3>1. Fresh(h, S, g.mem[o].val)
      OBVIOUS
    <3> QED
      BY <1>2, <1>3, <1>4, <1>6, <2>1, <2>2, <3>1 DEF Fresh
  <2> QED
    BY <1>4, <1>6, <2>1, <2>2 DEF Grown
<1>7. f.type = "call" => f.code \in DOMAIN g.mem /\ g.mem[f.code].text = "code" /\ f.code < f.brk1
  BY <1>4 DEF Grown
<1> QED
  BY <1>4, <1>5, <1>6, <1>7

(* The blocks and calls go on as they were.                                 *)
LEMMA GrownInv ==
    ASSUME NEW h, NEW fs, NEW S, NEW sc, HeapInv(h, fs, S, sc),
           NEW g, Grown(h, g), g.scope = h.scope, NEW S2, S \subseteq S2, Sound(g, S2),
           \A o \in Props(g, S2) : Fresh(h, S, g.mem[o].val)
    PROVE  HeapInv(g, fs, S2, sc)
<1>1. /\ fs \in Seq(Frame) /\ Packed(h) /\ Sound(h, S) /\ Nested(h, fs, S, sc)
      /\ Len(fs) \in Nat /\ Packed(g)
  BY LenProperties DEF HeapInv, Grown
<1>2. Nested(g, fs, S2, sc)
  <2>1. sc \in [0 .. Len(fs) -> S2] /\ sc[0] = 0 /\ sc[Len(fs)] = g.scope
    BY <1>1 DEF Nested
  <2>2. \A i \in 1 .. Len(fs) : sc[i] \in DOMAIN h.mem
    BY <1>1 DEF Nested, Sound
  <2> QED
    BY <1>1, <2>1, <2>2 DEF Nested, Grown
<1>3. Opened(g, fs, S2, sc)
  BY GrownOpened
<1> QED
  BY <1>1, <1>2, <1>3 DEF HeapInv

(* Globals stay declared when their names and the links behind them stay.    *)
LEMMA GrownDeclared ==
    ASSUME NEW h, Packed(h), NEW S, Sound(h, S), NEW g, Grown(h, g),
           h.mem[0].link \in Listed(g, 0),
           \A o \in Props(h, S) : g.mem[o].link = h.mem[o].link /\ g.mem[o].key = h.mem[o].key
    PROVE  Declared(h) \subseteq Declared(g)
<1> DEFINE to == [o \in S |-> o]
<1>1. /\ S \subseteq DOMAIN h.mem /\ 0 \in S /\ DOMAIN h.mem \subseteq DOMAIN g.mem
      /\ \A o \in DOMAIN h.mem : o \in Nat /\ g.mem[o].text = h.mem[o].text
      /\ h.mem[0].kind = "obj" /\ (h.mem[0].link = 0 \/ h.mem[0].link \in S)
      /\ Packed(g)
  BY Below_brk DEF Sound, Grown, Props
<1>2. to \in [S -> Nat] /\ \A o \in S : to[o] = o
  BY <1>1
<1> HIDE DEF to
<1>3. ASSUME NEW o \in Props(h, S)
      PROVE  /\ to[o] \in Rest(g) /\ g.mem[to[o]].link = to[h.mem[o].link]
             /\ g.mem[g.mem[to[o]].key].text = h.mem[h.mem[o].key].text
  <2>1. o \in S /\ o # 0 /\ h.mem[o].key \in S /\ h.mem[o].link \in S
    BY <1>1 DEF Sound, Props
  <2> QED
    BY <1>1, <1>2, <2>1 DEF Rest
<1>4. to[0] = 0 /\ to[h.mem[0].link] \in Listed(g, 0) /\ 0 \in DOMAIN g.mem
  BY <1>1, <1>2
<1> QED
  BY <1>1, <1>2, <1>3, <1>4, DeclaredGoes

LEMMA SetpropRoom ==
    ASSUME NEW h, Packed(h), NEW obj \in DOMAIN h.mem, NEW k \in Nat, NEW v \in Value
    PROVE  setprop(h, obj, k, v).ok => ~(h.brk + 4 > h.size)
<1> DEFINE r == setprop(h, obj, k, v)
<1>1. /\ r.ok => r.h.brk = h.brk + 4 /\ r.h.size = h.size
      /\ Packed(r.h)
  BY SetpropFacts
<1> HIDE DEF r
<1>2. r.h.brk <= r.h.size /\ h.brk \in Nat /\ h.size \in Nat
  BY <1>1, Below_brk, HeapIs DEF Packed
<1>3. r.ok => ~(h.brk + 4 > h.size)
  BY <1>1, <1>2
<1> QED
  BY <1>3 DEF r

(* A property is put in front of a list.                                    *)
LEMMA SetpropGrows ==
    ASSUME NEW h, Packed(h), NEW obj \in DOMAIN h.mem, NEW k \in Nat, NEW v \in Value,
           NEW r, r = setprop(h, obj, k, v)
    PROVE  /\ Grown(h, r.h) /\ r.h.scope = h.scope /\ r.h.cbs = h.cbs
           /\ \A o \in DOMAIN h.mem : o # obj => r.h.mem[o] = h.mem[o]
           /\ r.ok \in BOOLEAN
           /\ r.ok => /\ r.off = h.brk /\ h.brk \in DOMAIN r.h.mem
                      /\ r.h.mem[h.brk] = Property(h.mem[obj].link, k, v)
           /\ ~r.ok => h.brk + 4 > h.size
           /\ r.h.mem[obj].kind = h.mem[obj].kind /\ r.h.mem[obj].up = h.mem[obj].up
           /\ r.h.mem[obj].text = h.mem[obj].text /\ r.h.mem[obj].link = h.brk
<1>1. /\ r.ok \in BOOLEAN /\ Packed(r.h)
      /\ r.h.scope = h.scope /\ r.h.cbs = h.cbs
      /\ ~r.ok => r.h.brk = h.brk /\ DOMAIN r.h.mem = DOMAIN h.mem /\ h.brk + 4 > h.size
      /\ r.ok => /\ r.off = h.brk /\ r.h.brk = h.brk + 4
                 /\ DOMAIN r.h.mem = DOMAIN h.mem \cup {h.brk}
                 /\ r.h.mem[h.brk] = Property(h.mem[obj].link, k, v)
      /\ r.h.mem[obj] = [h.mem[obj] EXCEPT !.link = h.brk]
      /\ \A o \in DOMAIN h.mem : o # obj => r.h.mem[o] = h.mem[o]
  BY SetpropFacts
<1>2. h.brk \in Nat /\ h.mem[obj] \in Entity
  BY Below_brk, HeapIs
<1>3. /\ r.h.mem[obj].kind = h.mem[obj].kind /\ r.h.mem[obj].up = h.mem[obj].up
      /\ r.h.mem[obj].text = h.mem[obj].text /\ r.h.mem[obj].words = h.mem[obj].words
      /\ r.h.mem[obj].link = h.brk
  BY <1>1, <1>2 DEF Entity
<1>4. DOMAIN h.mem \subseteq DOMAIN r.h.mem /\ h.brk <= r.h.brk /\ h.brk \in DOMAIN r.h.mem \cup {r.h.brk}
  <2>1. CASE r.ok
    BY <1>1, <1>2, <2>1
  <2>2. CASE ~r.ok
    BY <1>1, <1>2, <2>2
  <2> QED
    BY <2>1, <2>2
<1>5. \A o \in DOMAIN h.mem : /\ r.h.mem[o].kind = h.mem[o].kind /\ r.h.mem[o].up = h.mem[o].up
                              /\ r.h.mem[o].text = h.mem[o].text /\ r.h.mem[o].words = h.mem[o].words
  BY <1>1, <1>3
<1>6. Grown(h, r.h)
  BY <1>1, <1>4, <1>5 DEF Grown
<1>7. r.ok => h.brk \in DOMAIN r.h.mem
  BY <1>1
<1> QED
  BY <1>1, <1>3, <1>6, <1>7

\* The property is in use when its object, its name and its value are.
Put(h, S, v, r) ==
    /\ Sound(r.h, S \cup {h.brk}) /\ Props(r.h, S \cup {h.brk}) = Props(h, S) \cup {h.brk}
    /\ r.h.mem[h.brk].val = v
    /\ \A o \in Props(h, S) : r.h.mem[o] = h.mem[o]
    /\ h.mem[0].link \in Listed(r.h, 0)

LEMMA SetpropSound ==
    ASSUME NEW h, Packed(h), NEW S, Sound(h, S), NEW obj \in S, h.mem[obj].kind = "obj",
           NEW k \in S, h.mem[k].kind = "str", NEW v \in Value, Points(h, S, v),
           NEW r, r = setprop(h, obj, k, v), r.ok
    PROVE  Put(h, S, v, r)
<1> DEFINE g == r.h
           n == h.brk
           S2 == S \cup {n}
<1>1. S \subseteq DOMAIN h.mem /\ DOMAIN h.mem \subseteq Nat /\ n \in Nat /\ n \notin DOMAIN h.mem
  BY Below_brk, HeapIs DEF Sound
<1>2. /\ Grown(h, g) /\ g.cbs = h.cbs
      /\ \A o \in DOMAIN h.mem : o # obj => g.mem[o] = h.mem[o]
      /\ n \in DOMAIN g.mem /\ g.mem[n] = Property(h.mem[obj].link, k, v)
      /\ g.mem[obj].kind = "obj" /\ g.mem[obj].up = h.mem[obj].up /\ g.mem[obj].link = n
  <2>1. k \in Nat /\ obj \in DOMAIN h.mem
    BY <1>1
  <2> QED
    BY <2>1, SetpropGrows
<1>3. /\ g.mem[n].kind = "prop" /\ g.mem[n].link = h.mem[obj].link /\ g.mem[n].key = k /\ g.mem[n].val = v
  <2> HIDE DEF g, n
  <2>1. g.mem[n] = Property(h.mem[obj].link, k, v)
    BY <1>2
  <2>2. \A l, q, w : /\ Property(l, q, w).kind = "prop" /\ Property(l, q, w).link = l
                     /\ Property(l, q, w).key = q /\ Property(l, q, w).val = w
    BY DEF Property
  <2> QED
    BY <2>1, <2>2
<1>4. /\ \A o \in DOMAIN h.mem : g.mem[o].kind = h.mem[o].kind /\ g.mem[o].up = h.mem[o].up /\ g.mem[o].text = h.mem[o].text
      /\ DOMAIN h.mem \subseteq DOMAIN g.mem /\ Packed(g)
  BY <1>2 DEF Grown
<1>5. 0 \in S /\ h.mem[0].kind = "obj" /\ h.mem[0].up = 0
  BY DEF Sound
<1>6. \A o \in Props(h, S) : o \in S /\ o # obj /\ g.mem[o] = h.mem[o]
  BY <1>1, <1>2 DEF Props
<1>7. h.mem[obj].link \in Props(h, S) \cup {0}
  BY DEF Sound
<1> HIDE DEF g, n
<1>8. Props(g, S2) = Props(h, S) \cup {n}
  BY <1>1, <1>3, <1>4 DEF Props
<1>9. ASSUME NEW w, Points(h, S, w) PROVE Points(g, S2, w)
  BY <1>1, <1>4, <1>9 DEF Points
<1>10. ASSUME NEW o \in S2, g.mem[o].kind \in {"obj", "prop"}, g.mem[o].link # 0
       PROVE  g.mem[o].link \in Props(g, S2)
  <2>1. CASE o = n
    BY <1>3, <1>7, <1>8, <1>10, <2>1
  <2>2. CASE o = obj
    BY <1>2, <1>8, <2>2
  <2>3. CASE o \in S /\ o # obj
    <3>1. g.mem[o] = h.mem[o]
      BY <1>1, <1>2, <2>3
    <3>2. h.mem[o].link \in Props(h, S)
      BY <1>10, <2>3, <3>1 DEF Sound
    <3> QED
      BY <1>8, <3>1, <3>2
  <2> QED
    BY <2>1, <2>2, <2>3
<1>11. ASSUME NEW o \in Props(g, S2)
       PROVE  /\ g.mem[o].link < o
              /\ g.mem[o].key \in S2 /\ g.mem[g.mem[o].key].kind = "str"
              /\ Points(g, S2, g.mem[o].val)
  <2>1. CASE o = n
    <3>1. h.mem[obj].link < n
      BY <1>1, <1>5, <1>7, Below_brk DEF Props, n
    <3>2. g.mem[k].kind = "str"
      BY <1>1, <1>4
    <3> QED
      BY <1>3, <1>9, <2>1, <3>1, <3>2
  <2>2. CASE o \in Props(h, S)
    <3>1. /\ h.mem[o].link < o /\ h.mem[o].key \in S /\ h.mem[h.mem[o].key].kind = "str"
          /\ Points(h, S, h.mem[o].val) /\ g.mem[o] = h.mem[o]
      BY <1>6, <2>2 DEF Sound
    <3> QED
      BY <1>1, <1>4, <1>9, <3>1
  <2> QED
    BY <1>8, <2>1, <2>2
<1>12. \A i \in DOMAIN g.cbs : LET c == g.cbs[i] IN
           /\ c.caller \in S2 /\ g.mem[c.caller].kind = "str" /\ g.mem[c.caller].text = "ffi"
           /\ c.func \in S2 /\ g.mem[c.func].kind = "str" /\ g.mem[c.func].text = "code"
  <2>1. \A i \in DOMAIN h.cbs : LET c == h.cbs[i] IN
           /\ c.caller \in S /\ h.mem[c.caller].kind = "str" /\ h.mem[c.caller].text = "ffi"
           /\ c.func \in S /\ h.mem[c.func].kind = "str" /\ h.mem[c.func].text = "code"
    BY DEF Sound
  <2> QED
    BY <1>1, <1>2, <1>4, <2>1
<1>13. S2 \subseteq DOMAIN g.mem /\ 0 \in S2 /\ g.mem[0].kind = "obj" /\ g.mem[0].up = 0
  BY <1>1, <1>2, <1>4, <1>5
<1>14. Sound(g, S2)
  <2> HIDE DEF S2
  <2> QED
    BY <1>10, <1>11, <1>12, <1>13 DEF Sound
<1>15. h.mem[0].link \in Listed(g, 0)
  <2>1. 0 \in DOMAIN g.mem
    BY <1>13
  <2>2. g.mem[0].link \in Listed(g, 0)
    BY <1>4, <2>1, ListedIs
  <2>3. CASE obj = 0
    <3>1. n \in Listed(g, 0) \cap Rest(g)
      BY <1>1, <1>2, <1>5, <2>2, <2>3 DEF Rest
    <3>2. g.mem[n].link \in Listed(g, 0)
      BY <1>4, <2>1, <3>1, ListedIs
    <3> QED
      BY <1>3, <2>3, <3>2
  <2>4. CASE obj # 0
    BY <1>1, <1>2, <1>5, <2>2, <2>4
  <2> QED
    BY <2>3, <2>4
<1> QED
  BY <1>3, <1>6, <1>8, <1>14, <1>15 DEF g, n, Put

(* Bound that found room: the variable is in use.                           *)
LEMMA BoundKeeps ==
    ASSUME NEW h, Packed(h), NEW S, Sound(h, S), NEW obj \in S, h.mem[obj].kind = "obj",
           NEW x \in Texts, NEW v \in Value, Points(h, S, v), NEW b, b = Bound(h, obj, x, v), b.ok
    PROVE  /\ Grown(h, b.h) /\ b.h.scope = h.scope
           /\ h.mem[0].link \in Listed(b.h, 0)
           /\ \A o \in Props(h, S) : b.h.mem[o] = h.mem[o]
           /\ \E T : /\ S \subseteq T /\ Sound(b.h, T)
                     /\ \A o \in Props(b.h, T) : o \in Props(h, S) \/ b.h.mem[o].val = v
<1> DEFINE name == mkentity(h, Name(x))
           m == name.h
           S1 == S \cup {h.brk}
           S2 == S1 \cup {m.brk}
<1>1. Name(x) \in Entity /\ Name(x).kind = "str" /\ Name(x).words = 2
  BY EntitiesAre DEF Name, String
<1>2. S \subseteq DOMAIN h.mem /\ h.brk \notin DOMAIN h.mem /\ h.brk \in Nat /\ h.size \in Nat /\ 0 \in S
  BY Below_brk, HeapIs DEF Sound
<1> HIDE DEF name
<1>3. /\ Grown(h, m) /\ m.scope = h.scope /\ m.cbs = h.cbs
      /\ \A o \in DOMAIN h.mem : m.mem[o] = h.mem[o]
      /\ name.ok => name.off = h.brk /\ h.brk \in DOMAIN m.mem /\ m.mem[h.brk] = Name(x)
      /\ ~name.ok => m = h /\ h.brk + 2 > h.size
      /\ name.ok \in BOOLEAN
  BY <1>1, AllocGrows DEF name
<1>4. b = setprop(m, obj, name.off, v)
  BY DEF Bound, name
<1>5. name.ok
  <2>1. SUFFICES ASSUME ~name.ok PROVE FALSE
    OBVIOUS
  <2>2. m = h /\ h.brk + 2 > h.size
    BY <1>3, <2>1
  <2>3. name.off = 0
    BY <1>1, <2>1, AllocFacts DEF name
  <2>4. ~(h.brk + 4 > h.size)
    <3>1. setprop(h, obj, name.off, v).ok /\ obj \in DOMAIN h.mem /\ name.off \in Nat
      BY <1>2, <1>4, <2>2, <2>3
    <3> QED
      BY <3>1, SetpropRoom
  <2> QED
    BY <1>2, <2>2, <2>4
<1> HIDE DEF m
<1>6. Packed(m) /\ DOMAIN h.mem \subseteq DOMAIN m.mem /\ name.off = h.brk /\ m.mem[h.brk].kind = "str"
  BY <1>1, <1>3, <1>5 DEF Grown
<1>7. Sound(m, S1) /\ Props(m, S1) = Props(h, S)
  <2>1. Sound(m, S) /\ Props(m, S) = Props(h, S)
    BY <1>2, <1>3, <1>6, SameSound
  <2> QED
    BY <1>3, <1>5, <1>6, <2>1, MoreSound
<1>8. Points(m, S1, v)
  BY <1>2, <1>3 DEF Points
<1>9. m.mem[obj].kind = "obj" /\ m.mem[0] = h.mem[0]
  BY <1>2, <1>3
<1> HIDE DEF S1
<1>10. obj \in S1 /\ name.off \in S1 /\ S \subseteq S1 /\ S1 \subseteq DOMAIN m.mem /\ DOMAIN m.mem \subseteq Nat
  BY <1>6, <1>7, Below_brk DEF S1, Sound
<1>11. /\ Sound(b.h, S2) /\ Props(b.h, S2) = Props(m, S1) \cup {m.brk}
       /\ b.h.mem[m.brk].val = v
       /\ \A o \in Props(m, S1) : b.h.mem[o] = m.mem[o]
       /\ m.mem[0].link \in Listed(b.h, 0)
  <2>1. m.mem[name.off].kind = "str"
    BY <1>6
  <2> DEFINE k == name.off
  <2> HIDE DEF k
  <2>2. k \in S1 /\ m.mem[k].kind = "str" /\ b = setprop(m, obj, k, v)
    BY <1>4, <1>10, <2>1 DEF k
  <2>3. Put(m, S1, v, b)
    BY <1>6, <1>7, <1>8, <1>9, <1>10, <2>2, SetpropSound
  <2> QED
    BY <2>3 DEF Put
<1>12. Grown(m, b.h) /\ b.h.scope = m.scope
  BY <1>4, <1>6, <1>10, SetpropGrows
<1>13. Grown(h, b.h)
  BY <1>3, <1>12, GrownTwice
<1>14. \A o \in Props(h, S) : b.h.mem[o] = h.mem[o]
  BY <1>2, <1>3, <1>7, <1>11 DEF Props
<1>15. S \subseteq S2 /\ Sound(b.h, S2) /\ \A o \in Props(b.h, S2) : o \in Props(h, S) \/ b.h.mem[o].val = v
  BY <1>7, <1>10, <1>11
<1> HIDE DEF S2
<1> QED
  BY <1>3, <1>9, <1>11, <1>12, <1>13, <1>14, <1>15

------------------------------------------------------------------------------
(* Expressions                                                              *)

\* What evaluating an expression leaves, T being what is in use then.
Evaluates(h, S, e, T) ==
    /\ Grown(h, e.h) /\ e.h.scope = h.scope
    /\ \A o \in DOMAIN h.mem : e.h.mem[o] = h.mem[o]
    /\ S \subseteq T /\ Sound(e.h, T)
    /\ \A o \in Props(e.h, T) : Fresh(h, S, e.h.mem[o].val)
    /\ e.val \in Value
    /\ e.ok /\ ~Misplaced(e.val) => Points(e.h, T, e.val) /\ Fresh(h, S, e.val)

LEMMA OwnFresh ==
    ASSUME NEW h, NEW S
    PROVE  \A o \in Props(h, S) : Fresh(h, S, h.mem[o].val)
BY DEF Fresh

(* Nothing, or a string, is allocated.                                      *)
LEMMA StringEvaluates ==
    ASSUME NEW h, Packed(h), NEW S, Sound(h, S), NEW e \in Entity, e.kind = "str", NEW s, s = mkentity(h, e),
           NEW type \in {"str", "func"}, NEW r, r.h = s.h, r.val = [type |-> type, off |-> s.off],
           ~s.ok => ~r.ok \/ Misplaced(r.val)
    PROVE  \E T : Evaluates(h, S, r, T)
<1>1. S \subseteq DOMAIN h.mem /\ h.brk \in Nat
  BY Below_brk, HeapIs DEF Sound
<1>2. /\ Grown(h, s.h) /\ s.h.scope = h.scope /\ s.h.cbs = h.cbs
      /\ \A o \in DOMAIN h.mem : s.h.mem[o] = h.mem[o]
      /\ s.ok => s.off = h.brk /\ h.brk \in DOMAIN s.h.mem /\ s.h.mem[h.brk] = e
      /\ ~s.ok => s.off = 0
      /\ s.ok \in BOOLEAN
  BY AllocGrows, AllocFacts
<1>3. Sound(s.h, S) /\ Props(s.h, S) = Props(h, S)
  <2>1. S \subseteq DOMAIN s.h.mem
    BY <1>1, <1>2 DEF Grown
  <2> QED
    BY <1>1, <1>2, <2>1, SameSound
<1>4. r.val \in Value /\ r.val.type = type /\ r.val.off = s.off
  BY <1>1, <1>2 DEF Value
<1>5. Fresh(h, S, r.val)
  BY <1>4 DEF Fresh
<1>6. \A o \in Props(h, S) : Fresh(h, S, s.h.mem[o].val)
  BY <1>1, <1>2, OwnFresh DEF Props
<1>7. CASE s.ok
  <2> DEFINE T == S \cup {h.brk}
  <2>1. Sound(s.h, T) /\ Props(s.h, T) = Props(h, S)
    BY <1>2, <1>3, <1>7, MoreSound
  <2>2. Points(s.h, T, r.val)
    BY <1>2, <1>4, <1>7 DEF Points
  <2>3. S \subseteq T
    OBVIOUS
  <2> HIDE DEF T
  <2>4. Evaluates(h, S, r, T)
    BY <1>2, <1>4, <1>5, <1>6, <2>1, <2>2, <2>3 DEF Evaluates
  <2> QED
    BY <2>4
<1>8. CASE ~s.ok
  <2>1. Evaluates(h, S, r, S)
    BY <1>2, <1>3, <1>4, <1>5, <1>6, <1>8 DEF Evaluates
  <2> QED
    BY <2>1
<1> QED
  BY <1>7, <1>8

(* An object with one property is allocated, or as much of it as fits.       *)
LEMMA ObjectEvaluates ==
    ASSUME NEW h, Packed(h), NEW S, Sound(h, S), NEW e, e = Evaluated(h, "obj"), "obj" \notin Names
    PROVE  \E T : Evaluates(h, S, e, T)
<1> DEFINE o == mkentity(h, Object(0))
           n == mkentity(o.h, Name("k"))
           p == setprop(n.h, o.off, n.off, None)
           S1 == S \cup {h.brk}
           S2 == S1 \cup {o.h.brk}
           S3 == S2 \cup {n.h.brk}
<1>1. /\ e.val = [type |-> "obj", off |-> o.off] /\ e.ok = (o.ok /\ n.ok /\ p.ok)
      /\ e.h = IF ~o.ok THEN h ELSE IF ~n.ok THEN o.h ELSE p.h
  <2>1. e = [val |-> [type |-> "obj", off |-> o.off], ok |-> o.ok /\ n.ok /\ p.ok,
             h |-> IF ~o.ok THEN h ELSE IF ~n.ok THEN o.h ELSE p.h]
    BY DEF Evaluated
  <2> HIDE DEF o, n, p
  <2> QED
    BY <2>1
<1>2. /\ Object(0) \in Entity /\ Object(0).kind = "obj" /\ Object(0).link = 0
      /\ Name("k") \in Entity /\ Name("k").kind = "str" /\ None \in Value /\ None.type = "num"
  <2>1. "k" \in Texts /\ 0 \in Nat /\ 2 \in Nat \ {0}
    BY DEF Texts
  <2>2. Name("k") \in Entity /\ Object(0) \in Entity /\ None \in Value
    BY <2>1, EntitiesAre DEF Name
  <2>3. Object(0).kind = "obj" /\ Object(0).link = 0 /\ Name("k").kind = "str" /\ None.type = "num"
    BY DEF Object, Name, String, None
  <2> QED
    BY <2>2, <2>3
<1>3. S \subseteq DOMAIN h.mem /\ h.brk \in Nat /\ h.brk \notin DOMAIN h.mem
  BY Below_brk, HeapIs DEF Sound
<1>4. /\ Grown(h, o.h) /\ o.h.scope = h.scope /\ o.h.cbs = h.cbs
      /\ \A q \in DOMAIN h.mem : o.h.mem[q] = h.mem[q]
      /\ o.ok => o.off = h.brk /\ h.brk \in DOMAIN o.h.mem /\ o.h.mem[h.brk] = Object(0)
      /\ ~o.ok => o.off = 0
      /\ o.ok \in BOOLEAN
  <2> HIDE DEF n, p
  <2> QED
    BY <1>2, AllocGrows, AllocFacts
<1> HIDE DEF o
<1>5. /\ Grown(o.h, n.h) /\ n.h.scope = o.h.scope /\ n.h.cbs = o.h.cbs
      /\ \A q \in DOMAIN o.h.mem : n.h.mem[q] = o.h.mem[q]
      /\ n.ok => n.off = o.h.brk /\ o.h.brk \in DOMAIN n.h.mem /\ n.h.mem[o.h.brk] = Name("k")
      /\ n.ok \in BOOLEAN
  <2>1. Packed(o.h)
    BY <1>4 DEF Grown
  <2> QED
    BY <1>2, <2>1, AllocGrows
<1> HIDE DEF n
<1>6. o.off \in Nat /\ e.val \in Value /\ e.val.type = "obj" /\ e.val.off = o.off
  BY <1>1, <1>3, <1>4 DEF Value
<1>7. ASSUME e.h = h, e.ok = FALSE PROVE Evaluates(h, S, e, S)
  <2>1. Grown(h, h)
    BY <1>3 DEF Grown
  <2> QED
    BY <1>6, <1>7, <2>1, OwnFresh DEF Evaluates
<1>8. ASSUME NEW g, Grown(h, g), g.scope = h.scope, g.cbs = h.cbs, \A q \in DOMAIN h.mem : g.mem[q] = h.mem[q],
             e.h = g, e.ok = FALSE
      PROVE  Evaluates(h, S, e, S)
  <2>1. S \subseteq DOMAIN g.mem /\ \A q \in S : g.mem[q] = h.mem[q]
    BY <1>3, <1>8 DEF Grown
  <2>2. Sound(g, S) /\ Props(g, S) = Props(h, S)
    BY <1>8, <2>1, SameSound
  <2>3. \A q \in Props(g, S) : Fresh(h, S, g.mem[q].val)
    BY <2>1, <2>2, OwnFresh DEF Props
  <2> QED
    BY <1>6, <1>8, <2>2, <2>3 DEF Evaluates
<1>9. CASE ~o.ok
  BY <1>1, <1>4, <1>7, <1>9
<1>10. CASE o.ok /\ ~n.ok
  <2>1. e.h = o.h /\ e.ok = FALSE
    BY <1>1, <1>5, <1>10
  <2> QED
    BY <1>4, <1>8, <2>1
<1>11. CASE o.ok /\ n.ok
  <2>1. /\ Packed(n.h) /\ DOMAIN h.mem \subseteq DOMAIN o.h.mem /\ DOMAIN o.h.mem \subseteq DOMAIN n.h.mem
        /\ Grown(h, n.h) /\ o.off = h.brk /\ n.off = o.h.brk /\ o.off \in DOMAIN o.h.mem
        /\ n.h.mem[o.off] = Object(0) /\ n.off \in DOMAIN n.h.mem /\ n.h.mem[n.off] = Name("k")
        /\ \A q \in DOMAIN h.mem : n.h.mem[q] = h.mem[q]
        /\ n.h.scope = h.scope /\ n.h.cbs = h.cbs
    <3>1. Grown(h, n.h)
      BY <1>4, <1>5, GrownTwice
    <3> QED
      BY <1>4, <1>5, <1>11, <3>1 DEF Grown
  <2>2. n.off \in Nat /\ o.off \in DOMAIN n.h.mem
    BY <2>1, Below_brk
  <2>3. /\ Grown(n.h, p.h) /\ p.h.scope = n.h.scope /\ p.h.cbs = n.h.cbs
        /\ \A q \in DOMAIN n.h.mem : q # o.off => p.h.mem[q] = n.h.mem[q]
        /\ p.ok \in BOOLEAN
    BY <1>2, <2>1, <2>2, SetpropGrows
  <2>4. e.h = p.h /\ e.ok = p.ok
    BY <1>1, <1>11, <2>3
  <2>5. Grown(h, p.h)
    BY <2>1, <2>3, GrownTwice
  <2>6. ASSUME NEW q \in DOMAIN h.mem PROVE p.h.mem[q] = h.mem[q]
    <3>1. q \in DOMAIN n.h.mem /\ q # o.off /\ n.h.mem[q] = h.mem[q]
      BY <1>3, <2>1
    <3> QED
      BY <2>3, <3>1
  <2>7. CASE ~p.ok
    <3>1. e.ok = FALSE
      BY <2>3, <2>4, <2>7
    <3> HIDE DEF p
    <3> QED
      BY <1>8, <2>1, <2>3, <2>4, <2>5, <2>6, <3>1
  <2>8. CASE p.ok
    <3>1. Sound(n.h, S) /\ Props(n.h, S) = Props(h, S)
      <4>1. S \subseteq DOMAIN n.h.mem /\ \A q \in S : n.h.mem[q] = h.mem[q]
        BY <1>3, <2>1
      <4> QED
        BY <2>1, <4>1, SameSound
    <3>2. Sound(n.h, S1) /\ Props(n.h, S1) = Props(h, S)
      BY <1>2, <2>1, <2>2, <3>1, MoreSound
    <3>3. Sound(n.h, S2) /\ Props(n.h, S2) = Props(h, S)
      BY ONLY <1>2, <2>1, <3>2, MoreSound
    <3>4. /\ o.off \in S2 /\ n.off \in S2 /\ n.h.mem[o.off].kind = "obj" /\ n.h.mem[n.off].kind = "str"
          /\ Points(n.h, S2, None) /\ S \subseteq S2
      BY <1>2, <2>1 DEF Points, is_mem_entity
    <3> HIDE DEF p, S1, S2
    <3>5. Put(n.h, S2, None, p)
      <4>1. p = setprop(n.h, o.off, n.off, None)
        BY DEF p
      <4> QED
        BY <1>2, <2>1, <2>8, <3>3, <3>4, <4>1, SetpropSound
    <3>6. /\ Sound(p.h, S3) /\ Props(p.h, S3) = Props(h, S) \cup {n.h.brk}
          /\ p.h.mem[n.h.brk].val = None
      BY <3>3, <3>5 DEF Put
    <3>7. S \subseteq S3 /\ o.off \in S3
      BY <3>4
    <3> HIDE DEF S3
    <3>8. ASSUME NEW q \in Props(p.h, S3) PROVE Fresh(h, S, p.h.mem[q].val)
      <4>1. CASE q = n.h.brk
        BY <1>2, <3>6, <4>1 DEF Fresh
      <4>2. CASE q \in Props(h, S)
        BY <1>3, <2>6, <4>2, OwnFresh DEF Props
      <4> QED
        BY <3>6, <4>1, <4>2
    <3>9. Points(p.h, S3, e.val) /\ Fresh(h, S, e.val)
      <4>1. p.h.mem[o.off].kind = "obj"
        BY <2>1, <2>2, <2>3, <3>4 DEF Grown
      <4>2. o.off >= h.brk
        BY <1>3, <2>1
      <4> QED
        BY <1>6, <3>7, <4>1, <4>2 DEF Points, Fresh
    <3>10. Evaluates(h, S, e, S3)
      BY <1>6, <2>1, <2>3, <2>4, <2>5, <2>6, <3>6, <3>7, <3>8, <3>9 DEF Evaluates
    <3> QED
      BY <3>10
  <2> QED
    BY <2>7, <2>8
<1> QED
  BY <1>4, <1>5, <1>9, <1>10, <1>11

(* What is in use after an expression is sound, and so is its value.         *)
LEMMA EvaluatedFacts ==
    ASSUME NEW h, NEW fs, NEW S, NEW sc, HeapInv(h, fs, S, sc), NEW k \in Kinds, NEW e, e = Evaluated(h, k)
    PROVE  \E T : Evaluates(h, S, e, T)
<1>1. Packed(h) /\ Sound(h, S) /\ h.brk \in Nat
  BY Below_brk, HeapIs DEF HeapInv
<1>2. /\ k \in {"num", "str", "func", "obj"} \cup Names
      /\ k \in {"num", "str", "func", "obj"} => k \notin Names
      /\ "obj" \notin Names
  BY NamesAssumption, LiteralsAssumption DEF Kinds
<1>3. None \in Value /\ ~is_mem_entity(None) /\ None.type # "obj"
  BY EntitiesAre DEF None, is_mem_entity
<1>4. Grown(h, h)
  BY <1>1 DEF Grown
<1>5. ASSUME e.h = h, e.val \in Value, e.ok => Points(h, S, e.val) /\ Fresh(h, S, e.val)
      PROVE  Evaluates(h, S, e, S)
  BY <1>1, <1>4, <1>5, OwnFresh DEF Evaluates
<1>6. CASE k = "num"
  <2>1. e = [h |-> h, ok |-> TRUE, val |-> None]
    BY <1>2, <1>6 DEF Evaluated
  <2> QED
    BY <1>3, <1>5, <2>1 DEF Points, Fresh
<1>7. CASE k = "str"
  <2> DEFINE s == mkentity(h, Data)
  <2>1. e = [h |-> s.h, ok |-> s.ok, val |-> [type |-> "str", off |-> s.off]]
    BY <1>2, <1>7 DEF Evaluated
  <2>2. Data \in Entity /\ Data.kind = "str"
    <3>1. "data" \in Texts /\ 2 \in Nat \ {0}
      BY DEF Texts
    <3> QED
      BY <3>1, EntitiesAre DEF Data, String
  <2>3. e.h = s.h /\ e.val = [type |-> "str", off |-> s.off] /\ (~s.ok => ~e.ok)
    <3> HIDE DEF s
    <3> QED
      BY <2>1
  <2> QED
    BY <1>1, <2>2, <2>3, StringEvaluates
<1>8. CASE k = "func"
  <2> DEFINE s == mkentity(h, Code)
  <2>1. e = [h |-> s.h, ok |-> TRUE, val |-> [type |-> "func", off |-> s.off]]
    BY <1>2, <1>8 DEF Evaluated
  <2>2. Code \in Entity /\ Code.kind = "str"
    BY EntitiesAre, SizesAssumption, Zenon DEF Code, String, Texts
  <2>3. ~s.ok => s.off = 0
    BY <1>1, <2>2, AllocFacts
  <2>4. e.h = s.h /\ e.val = [type |-> "func", off |-> s.off] /\ (~s.ok => Misplaced(e.val))
    <3> HIDE DEF s
    <3> QED
      BY <2>1, <2>3 DEF Misplaced
  <2> QED
    BY <1>1, <2>2, <2>4, StringEvaluates
<1>9. CASE k = "obj"
  BY <1>1, <1>2, <1>9, ObjectEvaluates
<1>10. CASE k \in Names
  <2>1. e = IF lookup(h, k) = 0 THEN [h |-> h, ok |-> FALSE, val |-> None]
            ELSE [h |-> h, ok |-> TRUE, val |-> h.mem[lookup(h, k)].val]
    BY <1>2, <1>10 DEF Evaluated
  <2>2. CASE lookup(h, k) = 0
    <3>1. e.h = h /\ e.ok = FALSE /\ e.val = None
      BY <2>1, <2>2
    <3> QED
      BY <1>3, <1>5, <3>1
  <2>3. CASE lookup(h, k) # 0
    <3>1. lookup(h, k) \in Props(h, S)
      BY <2>3, LookupFacts
    <3>2. e.h = h /\ e.ok = TRUE /\ e.val = h.mem[lookup(h, k)].val
      BY <2>1, <2>3
    <3>3. Points(h, S, e.val) /\ Fresh(h, S, e.val)
      BY <1>1, <3>1, <3>2, OwnFresh DEF Sound
    <3>4. e.val \in Value
      BY <1>1, <3>1, <3>2, Below_brk, HeapIs DEF Props, Sound
    <3> QED
      BY <1>5, <3>2, <3>3, <3>4
  <2> QED
    BY <2>2, <2>3
<1> QED
  BY <1>2, <1>6, <1>7, <1>8, <1>9, <1>10

------------------------------------------------------------------------------
(* The actions                                                              *)

Holds(h, fs) == \E S, sc : HeapInv(h, fs, S, sc)

\* The invariant holds of g, and the globals of h are declared in it.
Keeps(h, g, fs) == Holds(g, fs) /\ Declared(h) \subseteq Declared(g)

LEMMA InvParts ==
    ASSUME NEW h, NEW fs, NEW S, NEW sc, HeapInv(h, fs, S, sc)
    PROVE  /\ Packed(h) /\ Sound(h, S) /\ Nested(h, fs, S, sc) /\ Opened(h, fs, S, sc) /\ h \in Heap
           /\ fs \in Seq(Frame) /\ Len(fs) \in Nat
           /\ S \subseteq DOMAIN h.mem /\ DOMAIN h.mem \subseteq Nat /\ h.brk \in Nat /\ h.brk \notin DOMAIN h.mem
           /\ 0 \in S /\ h.mem[0].kind = "obj"
           /\ h.scope \in S /\ h.mem[h.scope].kind = "obj"
<1>1. /\ Packed(h) /\ Sound(h, S) /\ Nested(h, fs, S, sc) /\ Opened(h, fs, S, sc)
      /\ fs \in Seq(Frame) /\ Len(fs) \in Nat
  BY LenProperties DEF HeapInv
<1>2. /\ h \in Heap /\ S \subseteq DOMAIN h.mem /\ DOMAIN h.mem \subseteq Nat /\ h.brk \in Nat /\ h.brk \notin DOMAIN h.mem
      /\ 0 \in S /\ h.mem[0].kind = "obj"
  BY <1>1, Below_brk, HeapIs DEF Sound
<1>3. h.scope \in S /\ h.mem[h.scope].kind = "obj"
  BY ScopesFacts
<1> QED
  BY <1>1, <1>2, <1>3

(* What only adds to the memory.                                            *)
LEMMA AddingKeeps ==
    ASSUME NEW h, NEW fs, NEW S, NEW sc, HeapInv(h, fs, S, sc),
           NEW g, Grown(h, g), g.scope = h.scope, NEW T, S \subseteq T, Sound(g, T),
           \A o \in Props(g, T) : Fresh(h, S, g.mem[o].val),
           h.mem[0].link \in Listed(g, 0),
           \A o \in Props(h, S) : g.mem[o].link = h.mem[o].link /\ g.mem[o].key = h.mem[o].key
    PROVE  Keeps(h, g, fs)
<1>1. HeapInv(g, fs, T, sc)
  BY GrownInv
<1>2. Declared(h) \subseteq Declared(g)
  BY InvParts, GrownDeclared
<1> QED
  BY <1>1, <1>2 DEF Keeps, Holds

LEMMA EvaluatedKeeps ==
    ASSUME NEW h, NEW fs, NEW S, NEW sc, HeapInv(h, fs, S, sc), NEW k \in Kinds
    PROVE  Keeps(h, Evaluated(h, k).h, fs)
<1> DEFINE e == Evaluated(h, k)
<1>1. PICK T : Evaluates(h, S, e, T)
  BY EvaluatedFacts
<1> HIDE DEF e
<1>2. /\ Grown(h, e.h) /\ e.h.scope = h.scope /\ S \subseteq T /\ Sound(e.h, T)
      /\ \A o \in DOMAIN h.mem : e.h.mem[o] = h.mem[o]
      /\ \A o \in Props(e.h, T) : Fresh(h, S, e.h.mem[o].val)
  BY <1>1 DEF Evaluates
<1>3. S \subseteq DOMAIN h.mem /\ 0 \in S
  BY InvParts
<1>4. h.mem[0].link \in Listed(e.h, 0)
  <2>1. 0 \in DOMAIN e.h.mem /\ Packed(e.h) /\ e.h.mem[0] = h.mem[0]
    BY <1>2, <1>3 DEF Grown
  <2>2. e.h.mem[0].link \in Listed(e.h, 0)
    BY <2>1, ListedIs
  <2> QED
    BY <2>1, <2>2
<1>5. \A o \in Props(h, S) : e.h.mem[o].link = h.mem[o].link /\ e.h.mem[o].key = h.mem[o].key
  BY <1>2, <1>3 DEF Props
<1>6. Keeps(h, e.h, fs)
  BY <1>2, <1>4, <1>5, AddingKeeps, Zenon
<1> QED
  BY <1>6 DEF e

(* let x = k, when there is room.                                           *)
LEMMA LetKeeps ==
    ASSUME NEW h, NEW fs, NEW S, NEW sc, HeapInv(h, fs, S, sc), NEW k \in Kinds, NEW x \in Names,
           NEW e, e = Evaluated(h, k), e.ok, ~Misplaced(e.val),
           NEW b, b = Bound(e.h, e.h.scope, x, e.val), b.ok
    PROVE  Keeps(h, b.h, fs)
<1>1. PICK T : Evaluates(h, S, e, T)
  BY EvaluatedFacts
<1>2. /\ Grown(h, e.h) /\ e.h.scope = h.scope /\ S \subseteq T /\ Sound(e.h, T)
      /\ \A o \in DOMAIN h.mem : e.h.mem[o] = h.mem[o]
      /\ \A o \in Props(e.h, T) : Fresh(h, S, e.h.mem[o].val)
      /\ e.val \in Value /\ Points(e.h, T, e.val) /\ Fresh(h, S, e.val)
  BY <1>1 DEF Evaluates
<1>3. S \subseteq DOMAIN h.mem /\ 0 \in S /\ h.scope \in S /\ h.mem[h.scope].kind = "obj" /\ Packed(h)
  BY InvParts
<1>4. Packed(e.h) /\ e.h.scope \in T /\ e.h.mem[e.h.scope].kind = "obj" /\ x \in Texts
  <2>1. Packed(e.h) /\ x \in Texts
    BY <1>2, Zenon DEF Grown, Texts
  <2>2. h.scope \in DOMAIN h.mem /\ h.scope \in T
    BY <1>2, <1>3
  <2>3. e.h.mem[h.scope] = h.mem[h.scope]
    BY <1>2, <2>2
  <2> QED
    BY <1>2, <1>3, <2>1, <2>2, <2>3
<1>5. /\ Grown(e.h, b.h) /\ b.h.scope = e.h.scope
      /\ e.h.mem[0].link \in Listed(b.h, 0)
      /\ \A o \in Props(e.h, T) : b.h.mem[o] = e.h.mem[o]
      /\ \E U : /\ T \subseteq U /\ Sound(b.h, U)
                /\ \A o \in Props(b.h, U) : o \in Props(e.h, T) \/ b.h.mem[o].val = e.val
  <2> DEFINE obj == e.h.scope
  <2>1. obj \in T /\ e.h.mem[obj].kind = "obj" /\ b = Bound(e.h, obj, x, e.val)
    BY <1>4
  <2>2. Packed(e.h) /\ Sound(e.h, T) /\ x \in Texts /\ e.val \in Value /\ Points(e.h, T, e.val)
    BY <1>2, <1>4
  <2> HIDE DEF obj
  <2> QED
    BY <2>1, <2>2, BoundKeeps
<1>6. PICK U : /\ T \subseteq U /\ Sound(b.h, U)
               /\ \A o \in Props(b.h, U) : o \in Props(e.h, T) \/ b.h.mem[o].val = e.val
  BY <1>5
<1>7. Grown(h, b.h)
  BY <1>2, <1>3, <1>5, GrownTwice
<1>8. \A o \in Props(b.h, U) : Fresh(h, S, b.h.mem[o].val)
  BY <1>2, <1>5, <1>6, SMTT(30)
<1>9. \A o \in Props(h, S) : o \in Props(e.h, T) /\ b.h.mem[o] = h.mem[o]
  BY <1>2, <1>3, <1>5, SMTT(30) DEF Props
<1>10. h.mem[0].link \in Listed(b.h, 0)
  BY <1>2, <1>3, <1>5
<1> QED
  BY <1>2, <1>5, <1>6, <1>7, <1>8, <1>9, <1>10, AddingKeeps, SMTT(30)

(* What an assignment replaces is the value of a property.                   *)
LEMMA TargetFacts ==
    ASSUME NEW h, NEW fs, NEW S, NEW sc, HeapInv(h, fs, S, sc), NEW x, NEW field \in BOOLEAN,
           NEW t, t = Target(h, x, field), t # 0
    PROVE  t \in Props(h, S)
<1> DEFINE p == lookup(h, x)
<1>1. t = IF ~field THEN p
          ELSE IF p = 0 \/ h.mem[p].val.type # "obj" THEN 0 ELSE lkp(h, h.mem[p].val.off, "k")
  BY DEF Target
<1>2. CASE ~field
  BY <1>1, <1>2, LookupFacts
<1>3. CASE field
  <2>1. p # 0 /\ h.mem[p].val.type = "obj" /\ t = lkp(h, h.mem[p].val.off, "k")
    BY <1>1, <1>3
  <2>2. p \in Props(h, S)
    BY <2>1, LookupFacts
  <2> HIDE DEF p
  <2>3. h.mem[p].val.off \in S /\ h.mem[h.mem[p].val.off].kind = "obj" /\ Packed(h) /\ Sound(h, S)
    <3>1. Packed(h) /\ Sound(h, S)
      BY InvParts
    <3>2. Points(h, S, h.mem[p].val) /\ h.mem[p].val.type = "obj"
      BY <2>1, <2>2, <3>1 DEF Sound
    <3> QED
      BY <3>1, <3>2 DEF Points, is_mem_entity
  <2> QED
    BY <2>1, <2>3, ChainFacts
<1> QED
  BY <1>2, <1>3

\* The value of a property is replaced.
Replaced(h, S, v, g) ==
    /\ Grown(h, g) /\ g.scope = h.scope /\ Sound(g, S) /\ Props(g, S) = Props(h, S)
    /\ \A o \in DOMAIN h.mem : /\ g.mem[o].link = h.mem[o].link /\ g.mem[o].key = h.mem[o].key
                               /\ g.mem[o].val = h.mem[o].val \/ g.mem[o].val = v

LEMMA ReplaceSound ==
    ASSUME NEW h, Packed(h), NEW S, Sound(h, S), NEW t \in Props(h, S), NEW v \in Value, Points(h, S, v),
           NEW g, g = [h EXCEPT !.mem[t].val = v]
    PROVE  Replaced(h, S, v, g)
<1> DEFINE m == [h.mem[t] EXCEPT !.val = v]
<1>1. h \in Heap /\ S \subseteq DOMAIN h.mem /\ t \in DOMAIN h.mem /\ h.brk \in Nat
  BY Below_brk, HeapIs DEF Sound, Props
<1>2. /\ m \in Entity /\ m.words = h.mem[t].words /\ m.kind = h.mem[t].kind /\ m.up = h.mem[t].up
      /\ m.text = h.mem[t].text /\ m.link = h.mem[t].link /\ m.key = h.mem[t].key /\ m.val = v
  <2>1. h.mem[t] \in Entity
    BY <1>1, HeapIs
  <2> QED
    BY <2>1 DEF Entity
<1>3. g = [h EXCEPT !.mem = [h.mem EXCEPT ![t] = m]]
  OBVIOUS
<1> HIDE DEF m
<1>4. /\ Packed(g) /\ DOMAIN g.mem = DOMAIN h.mem
      /\ g.mem[t] = m /\ \A o \in DOMAIN h.mem : o # t => g.mem[o] = h.mem[o]
      /\ g.brk = h.brk /\ g.scope = h.scope /\ g.cbs = h.cbs
  <2>1. Poked(h, t, m, g)
    BY <1>1, <1>2, <1>3, PokeFacts, Zenon
  <2> QED
    BY <2>1 DEF Poked
<1>5. \A o \in DOMAIN h.mem : /\ g.mem[o].kind = h.mem[o].kind /\ g.mem[o].up = h.mem[o].up
                              /\ g.mem[o].text = h.mem[o].text /\ g.mem[o].words = h.mem[o].words
                              /\ g.mem[o].link = h.mem[o].link /\ g.mem[o].key = h.mem[o].key
                              /\ g.mem[o].val = h.mem[o].val \/ g.mem[o].val = v
  BY <1>2, <1>4
<1>6. Grown(h, g)
  BY <1>1, <1>4, <1>5 DEF Grown
<1>7. Props(g, S) = Props(h, S)
  BY <1>1, <1>5 DEF Props
<1>8. Sound(g, S)
  <2>1. ASSUME NEW w, Points(h, S, w) PROVE Points(g, S, w)
    BY <1>1, <1>5, <2>1 DEF Points
  <2>2. S \subseteq DOMAIN g.mem /\ 0 \in S /\ g.mem[0].kind = "obj" /\ g.mem[0].up = 0
    BY <1>1, <1>4, <1>5 DEF Sound
  <2>3. \A o \in S : g.mem[o].kind \in {"obj", "prop"} /\ g.mem[o].link # 0 => g.mem[o].link \in Props(g, S)
    <3>1. \A o \in S : h.mem[o].kind \in {"obj", "prop"} /\ h.mem[o].link # 0 => h.mem[o].link \in Props(h, S)
      BY DEF Sound
    <3> QED
      BY <1>1, <1>5, <1>7, <3>1
  <2>4. ASSUME NEW o \in Props(g, S)
        PROVE  /\ g.mem[o].link < o /\ g.mem[o].key \in S /\ g.mem[g.mem[o].key].kind = "str"
               /\ Points(g, S, g.mem[o].val)
    <3>1. o \in Props(h, S) /\ o \in DOMAIN h.mem
      BY <1>1, <1>7 DEF Props
    <3>2. /\ h.mem[o].link < o /\ h.mem[o].key \in S /\ h.mem[h.mem[o].key].kind = "str"
          /\ Points(h, S, h.mem[o].val)
      BY <3>1 DEF Sound
    <3>3. Points(g, S, g.mem[o].val)
      BY <1>5, <2>1, <3>1, <3>2
    <3> QED
      BY <1>1, <1>5, <3>1, <3>2, <3>3
  <2>5. ASSUME NEW i \in DOMAIN g.cbs, NEW c, c = g.cbs[i]
        PROVE  /\ c.caller \in S /\ g.mem[c.caller].kind = "str" /\ g.mem[c.caller].text = "ffi"
               /\ c.func \in S /\ g.mem[c.func].kind = "str" /\ g.mem[c.func].text = "code"
    <3>1. /\ c.caller \in S /\ h.mem[c.caller].kind = "str" /\ h.mem[c.caller].text = "ffi"
          /\ c.func \in S /\ h.mem[c.func].kind = "str" /\ h.mem[c.func].text = "code"
      BY <1>4, <2>5 DEF Sound
    <3> QED
      BY <1>1, <1>5, <3>1
  <2> QED
    BY ONLY <2>2, <2>3, <2>4, <2>5 DEF Sound
<1> QED
  BY <1>4, <1>5, <1>6, <1>7, <1>8 DEF Replaced

LEMMA AssignKeeps ==
    ASSUME NEW h, NEW fs, NEW S, NEW sc, HeapInv(h, fs, S, sc), NEW k \in Kinds, NEW x, NEW field \in BOOLEAN,
           NEW e, e = Evaluated(h, k), e.ok, ~Misplaced(e.val), NEW t, t = Target(h, x, field), t # 0,
           NEW g, g = [e.h EXCEPT !.mem[t].val = e.val]
    PROVE  Keeps(h, g, fs)
<1>1. PICK T : Evaluates(h, S, e, T)
  BY EvaluatedFacts
<1> DEFINE r == e.h
           v == e.val
<1>2. /\ Grown(h, r) /\ r.scope = h.scope /\ S \subseteq T /\ Sound(r, T)
      /\ \A o \in DOMAIN h.mem : r.mem[o] = h.mem[o]
      /\ \A o \in Props(r, T) : Fresh(h, S, r.mem[o].val)
      /\ v \in Value /\ Points(r, T, v) /\ Fresh(h, S, v)
  BY <1>1 DEF Evaluates
<1>3. g = [r EXCEPT !.mem[t].val = v]
  OBVIOUS
<1> HIDE DEF r, v
<1>4. /\ S \subseteq DOMAIN h.mem /\ 0 \in S /\ Packed(h) /\ Packed(r) /\ DOMAIN h.mem \subseteq DOMAIN r.mem
      /\ T \subseteq DOMAIN r.mem
  BY <1>2, InvParts DEF Grown, Sound
<1>5. t \in Props(r, T)
  <2>1. t \in Props(h, S)
    BY TargetFacts
  <2> QED
    BY <1>2, <1>4, <2>1 DEF Props
<1>6. /\ Grown(r, g) /\ g.scope = r.scope /\ Sound(g, T) /\ Props(g, T) = Props(r, T)
      /\ \A o \in DOMAIN r.mem : /\ g.mem[o].link = r.mem[o].link /\ g.mem[o].key = r.mem[o].key
                                 /\ g.mem[o].val = r.mem[o].val \/ g.mem[o].val = v
  <2>1. Replaced(r, T, v, g)
    BY <1>2, <1>3, <1>4, <1>5, ReplaceSound, Zenon
  <2> QED
    BY <2>1 DEF Replaced
<1>7. Grown(h, g)
  BY <1>2, <1>4, <1>6, GrownTwice
<1>8. \A o \in Props(g, T) : Fresh(h, S, g.mem[o].val)
  BY <1>2, <1>4, <1>6 DEF Props
<1>9. \A o \in DOMAIN h.mem : g.mem[o].link = h.mem[o].link /\ g.mem[o].key = h.mem[o].key
  BY <1>2, <1>4, <1>6
<1>10. h.mem[0].link \in Listed(g, 0)
  <2>1. 0 \in DOMAIN g.mem /\ Packed(g) /\ g.mem[0].link = h.mem[0].link
    BY <1>4, <1>7, <1>9 DEF Grown
  <2>2. g.mem[0].link \in Listed(g, 0)
    BY ONLY <2>1, ListedIs
  <2> QED
    BY <2>1, <2>2
<1>11. g.scope = h.scope /\ \A o \in Props(h, S) : g.mem[o].link = h.mem[o].link /\ g.mem[o].key = h.mem[o].key
  BY <1>2, <1>4, <1>6, <1>9 DEF Props
<1> QED
  BY <1>2, <1>6, <1>7, <1>8, <1>10, <1>11, AddingKeeps

\* A frame is pushed; the scopes of all are the global one when mkscope failed.
Pushed(fs, failed, f, fs2) ==
    /\ fs2 \in Seq(Frame) /\ Len(fs2) = Len(fs) + 1 /\ fs2[Len(fs) + 1] = f
    /\ \A i \in 1 .. Len(fs) :
           /\ fs2[i].type = fs[i].type /\ fs2[i].code = fs[i].code
           /\ fs2[i].brk1 = fs[i].brk1 /\ fs2[i].brk2 = fs[i].brk2
           /\ fs2[i].own = IF failed THEN 0 ELSE fs[i].own

AddsFrame(fs, failed, f, fs2) ==
    fs2 = Append([i \in DOMAIN fs |-> [fs[i] EXCEPT !.own = IF failed THEN 0 ELSE fs[i].own]], f)

LEMMA PushedFacts ==
    ASSUME NEW fs \in Seq(Frame), NEW failed \in BOOLEAN, NEW f \in Frame, NEW fs2, AddsFrame(fs, failed, f, fs2)
    PROVE  Pushed(fs, failed, f, fs2)
<1> DEFINE own(i) == IF failed THEN 0 ELSE fs[i].own
           q == [i \in 1 .. Len(fs) |-> [fs[i] EXCEPT !.own = own(i)]]
<1>1. DOMAIN fs = 1 .. Len(fs) /\ Len(fs) \in Nat /\ \A i \in 1 .. Len(fs) : fs[i] \in Frame
  BY LenProperties, ElementOfSeq
<1>2. fs2 = Append(q, f)
  BY <1>1 DEF AddsFrame
<1>3. ASSUME NEW e \in Frame, NEW n \in Nat
      PROVE  LET r == [e EXCEPT !.own = n] IN
             r \in Frame /\ r.type = e.type /\ r.code = e.code /\ r.brk1 = e.brk1 /\ r.brk2 = e.brk2 /\ r.own = n
  BY DEF Frame
<1>4. \A i \in 1 .. Len(fs) : own(i) \in Nat
  BY <1>1 DEF Frame
<1> HIDE DEF own
<1>5. \A i \in 1 .. Len(fs) :
          /\ q[i] \in Frame /\ q[i].type = fs[i].type /\ q[i].code = fs[i].code
          /\ q[i].brk1 = fs[i].brk1 /\ q[i].brk2 = fs[i].brk2 /\ q[i].own = own(i)
  <2> TAKE i \in 1 .. Len(fs)
  <2> DEFINE e == fs[i]
             n == own(i)
             r == q[i]
  <2>1. e \in Frame /\ n \in Nat /\ r = [e EXCEPT !.own = n]
    BY <1>1, <1>4
  <2> HIDE DEF e, n, r
  <2>2. /\ r \in Frame /\ r.type = e.type /\ r.code = e.code /\ r.brk1 = e.brk1 /\ r.brk2 = e.brk2
        /\ r.own = n
    BY <1>3, <2>1
  <2> QED
    BY <2>2 DEF e, n, r
<1>6. q = [i \in 1 .. Len(fs) |-> q[i]]
  OBVIOUS
<1> HIDE DEF q
<1>7. q \in [1 .. Len(fs) -> Frame]
  BY <1>5, <1>6
<1>8. q \in Seq(Frame) /\ Len(q) = Len(fs)
  BY <1>1, <1>7, SeqDef, LenProperties
<1>9. /\ fs2 \in Seq(Frame) /\ Len(fs2) = Len(fs) + 1 /\ fs2[Len(fs) + 1] = f
      /\ \A i \in 1 .. Len(fs) : fs2[i] = q[i]
  BY <1>2, <1>8, AppendProperties
<1> QED
  BY <1>5, <1>9 DEF own, Pushed

\* A frame is opened upon the end of h, g having the scope for it or no room.
OpensUpon(h, g, S2, f) ==
    /\ f.brk1 = h.brk /\ f.brk2 = g.brk
    /\ g.brk # h.brk => /\ h.brk \in DOMAIN g.mem /\ g.mem[h.brk].kind = "obj"
                        /\ g.brk = h.brk + g.mem[h.brk].words
                        /\ \A o \in Props(g, S2) : g.mem[o].val.type = "obj" => g.mem[o].val.off # h.brk
    /\ f.type = "call" => f.code \in DOMAIN h.mem /\ h.mem[f.code].text = "code"

AllFresh(h, S, g, S2) == \A o \in Props(g, S2) : Fresh(h, S, g.mem[o].val)
Lowered(n, sc, sc2)   == \A i \in 0 .. n : sc2[i] = sc[i] \/ sc2[i] = 0

LEMMA PushedOpened ==
    ASSUME NEW h, NEW fs, NEW S, NEW sc, HeapInv(h, fs, S, sc),
           NEW g, Grown(h, g), NEW S2, AllFresh(h, S, g, S2),
           NEW fs2, NEW sc2, NEW failed, NEW f, Pushed(fs, failed, f, fs2), Lowered(Len(fs), sc, sc2),
           OpensUpon(h, g, S2, f)
    PROVE  Opened(g, fs2, S2, sc2)
<1>1. /\ Packed(h) /\ Nested(h, fs, S, sc) /\ Opened(h, fs, S, sc) /\ Len(fs) \in Nat
      /\ 0 \in S /\ S \subseteq DOMAIN h.mem /\ h.brk \in Nat /\ \A o \in DOMAIN h.mem : o \in Nat /\ o < h.brk
  BY InvParts, Below_brk
<1>0. /\ Len(fs2) = Len(fs) + 1 /\ fs2[Len(fs) + 1] = f
      /\ \A i \in 1 .. Len(fs) : /\ fs2[i].type = fs[i].type /\ fs2[i].code = fs[i].code
                                /\ fs2[i].brk1 = fs[i].brk1 /\ fs2[i].brk2 = fs[i].brk2
      /\ \A i \in 0 .. Len(fs) : sc2[i] = sc[i] \/ sc2[i] = 0
      /\ \A o \in Props(g, S2) : Fresh(h, S, g.mem[o].val)
      /\ f.brk1 = h.brk /\ f.brk2 = g.brk
      /\ g.brk # h.brk => /\ h.brk \in DOMAIN g.mem /\ g.mem[h.brk].kind = "obj"
                          /\ g.brk = h.brk + g.mem[h.brk].words
                          /\ \A o \in Props(g, S2) : g.mem[o].val.type = "obj" => g.mem[o].val.off # h.brk
      /\ f.type = "call" => f.code \in DOMAIN h.mem /\ h.mem[f.code].text = "code"
  BY DEF Pushed, OpensUpon, Lowered, AllFresh
<1>2. \A i \in 0 .. Len(fs) : sc[i] < h.brk /\ sc2[i] < h.brk
  BY <1>0, <1>1 DEF Nested
<1>3. Opened(g, fs, S2, sc)
  BY <1>0, GrownOpened
<1>4. ASSUME NEW j \in 1 .. Len(fs), NEW e, e = fs2[j], ~Called(e)
      PROVE  /\ e.brk1 <= e.brk2 /\ e.brk2 <= g.brk
             /\ e.brk1 \in DOMAIN g.mem \cup {g.brk}
             /\ \A i \in 1 .. j - 1 : ~Called(fs2[i]) => fs2[i].brk2 <= e.brk1
             /\ \A i \in 0 .. j - 1 : sc2[i] < e.brk1
             /\ e.brk1 # e.brk2 =>
                    /\ e.brk1 \in DOMAIN g.mem /\ g.mem[e.brk1].kind = "obj"
                    /\ e.brk2 = e.brk1 + g.mem[e.brk1].words
                    /\ \A o \in Props(g, S2) : g.mem[o].val.type = "obj" => g.mem[o].val.off # e.brk1
             /\ e.type = "call" => e.code \in DOMAIN g.mem /\ g.mem[e.code].text = "code" /\ e.code < e.brk1
  <2> DEFINE d == fs[j]
  <2>1. e.type = d.type /\ e.code = d.code /\ e.brk1 = d.brk1 /\ e.brk2 = d.brk2 /\ ~Called(d)
    BY <1>0, <1>4 DEF Called
  <2>2. /\ d.brk1 <= d.brk2 /\ d.brk2 <= g.brk
        /\ d.brk1 \in DOMAIN g.mem \cup {g.brk}
        /\ \A i \in 1 .. j - 1 : ~Called(fs[i]) => fs[i].brk2 <= d.brk1
        /\ \A i \in 0 .. j - 1 : sc[i] < d.brk1
        /\ d.brk1 # d.brk2 =>
               /\ d.brk1 \in DOMAIN g.mem /\ g.mem[d.brk1].kind = "obj"
               /\ d.brk2 = d.brk1 + g.mem[d.brk1].words
               /\ \A o \in Props(g, S2) : g.mem[o].val.type = "obj" => g.mem[o].val.off # d.brk1
        /\ d.type = "call" => d.code \in DOMAIN g.mem /\ g.mem[d.code].text = "code" /\ d.code < d.brk1
    BY <1>3, <2>1 DEF Opened
  <2>3. \A i \in 1 .. j - 1 : ~Called(fs2[i]) => fs2[i].brk2 <= e.brk1
    <3> TAKE i \in 1 .. j - 1
    <3>1. i \in 1 .. Len(fs)
      BY <1>1
    <3> QED
      BY <1>0, <2>1, <2>2, <3>1 DEF Called
  <2>4. \A i \in 0 .. j - 1 : sc2[i] < e.brk1
    <3> TAKE i \in 0 .. j - 1
    <3>1. i \in 0 .. Len(fs) /\ 0 \in 0 .. j - 1
      BY <1>1
    <3>2. sc[0] = 0
      BY <1>0, <1>1 DEF Nested
    <3> QED
      BY <1>0, <2>1, <2>2, <3>1, <3>2
  <2> HIDE DEF d
  <2> QED
    BY <2>1, <2>2, <2>3, <2>4
<1>5. ASSUME ~Called(f)
      PROVE  /\ f.brk1 <= f.brk2 /\ f.brk2 <= g.brk
             /\ f.brk1 \in DOMAIN g.mem \cup {g.brk}
             /\ \A i \in 1 .. Len(fs) : ~Called(fs2[i]) => fs2[i].brk2 <= f.brk1
             /\ \A i \in 0 .. Len(fs) : sc2[i] < f.brk1
             /\ f.brk1 # f.brk2 =>
                    /\ f.brk1 \in DOMAIN g.mem /\ g.mem[f.brk1].kind = "obj"
                    /\ f.brk2 = f.brk1 + g.mem[f.brk1].words
                    /\ \A o \in Props(g, S2) : g.mem[o].val.type = "obj" => g.mem[o].val.off # f.brk1
             /\ f.type = "call" => f.code \in DOMAIN g.mem /\ g.mem[f.code].text = "code" /\ f.code < f.brk1
  <2>1. g.brk \in Nat /\ h.brk <= g.brk /\ h.brk \in DOMAIN g.mem \cup {g.brk}
    BY Below_brk, HeapIs DEF Grown
  <2>2. \A i \in 1 .. Len(fs) : ~Called(fs2[i]) => fs2[i].brk2 <= f.brk1
    BY <1>0, <1>1 DEF Opened, Called
  <2>3. f.type = "call" => f.code \in DOMAIN g.mem /\ g.mem[f.code].text = "code" /\ f.code < f.brk1
    BY <1>0, <1>1 DEF Grown
  <2> QED
    BY <1>0, <1>2, <2>1, <2>2, <2>3
<1>6. \A j \in 1 .. Len(fs2) : j \in 1 .. Len(fs) \/ (j = Len(fs) + 1 /\ j - 1 = Len(fs))
  BY <1>0, <1>1
<1> QED
  BY <1>0, <1>4, <1>5, <1>6 DEF Opened

(* Only the scope changes.                                                  *)
LEMMA ScopeMoves ==
    ASSUME NEW h, Packed(h), NEW n \in Nat, NEW g, g = [h EXCEPT !.scope = n]
    PROVE  /\ Packed(g) /\ g.mem = h.mem /\ g.brk = h.brk /\ g.size = h.size /\ g.cbs = h.cbs /\ g.scope = n
           /\ \A S : Sound(h, S) => Sound(g, S)
           /\ \A S : Props(g, S) = Props(h, S)
           /\ \A r : Grown(r, h) => Grown(r, g)
           /\ Declared(g) = Declared(h)
<1>1. h \in Heap
  BY DEF Packed
<1>2. g \in Heap /\ g.mem = h.mem /\ g.brk = h.brk /\ g.size = h.size /\ g.cbs = h.cbs /\ g.scope = n
  BY <1>1 DEF Heap
<1>3. Packed(g)
  BY <1>2 DEF Packed
<1>4. \A S : Props(g, S) = Props(h, S)
  BY <1>2 DEF Props
<1>5. ASSUME NEW S, Sound(h, S) PROVE Sound(g, S)
  <2>1. S \subseteq DOMAIN g.mem
    BY <1>2, <1>5 DEF Sound
  <2> QED
    BY <1>2, <1>5, <2>1, SameSound
<1>6. ASSUME NEW r, Grown(r, h) PROVE Grown(r, g)
  BY <1>2, <1>3, <1>6 DEF Grown
<1>7. Declared(g) = Declared(h)
  <2>1. Chain(g, 0) = Chain(h, 0)
    BY <1>2, Zenon DEF Chain
  <2> QED
    BY <1>2, <2>1 DEF Declared
<1> QED
  BY <1>2, <1>3, <1>4, <1>5, <1>6, <1>7

\* mkscope, and the frame f upon those there are.
Entered(h, fs, type, code, g, failed, f, fs2) ==
    /\ g = Scoped(h) /\ failed = (g.brk = h.brk)
    /\ f = [type |-> type, code |-> code, own |-> g.scope, brk1 |-> h.brk, brk2 |-> g.brk]
    /\ AddsFrame(fs, failed, f, fs2)

(* A block, a call or a callback is entered.                                *)
LEMMA OpensKeeps ==
    ASSUME NEW h, NEW fs, NEW S, NEW sc, HeapInv(h, fs, S, sc),
           NEW type \in {"block", "call", "callback"}, NEW code \in Nat, type = "callback" => Len(fs) = 0,
           type = "call" => code \in DOMAIN h.mem /\ h.mem[code].text = "code",
           NEW g, NEW failed, NEW f, NEW fs2, Entered(h, fs, type, code, g, failed, f, fs2)
    PROVE  Keeps(h, g, fs2)
<1> DEFINE e == Object(h.scope)
           o == mkentity(h, e)
           r == o.h
           L == Len(fs)
<1>0. /\ g = Scoped(h) /\ failed = (g.brk = h.brk)
      /\ f = [type |-> type, code |-> code, own |-> g.scope, brk1 |-> h.brk, brk2 |-> g.brk]
      /\ AddsFrame(fs, failed, f, fs2)
  BY DEF Entered
<1> USE <1>0
<1>1. /\ Packed(h) /\ Sound(h, S) /\ Nested(h, fs, S, sc) /\ h \in Heap /\ fs \in Seq(Frame) /\ L \in Nat
      /\ S \subseteq DOMAIN h.mem /\ DOMAIN h.mem \subseteq Nat /\ h.brk \in Nat /\ h.brk \notin DOMAIN h.mem
      /\ 0 \in S /\ h.mem[0].kind = "obj" /\ h.scope \in S
      /\ \A q \in DOMAIN h.mem : q < h.brk
  BY InvParts, Below_brk
<1>2. e \in Entity /\ e.kind = "obj" /\ e.link = 0 /\ e.up = h.scope /\ e.words = 2
  <2>1. e \in Entity
    BY <1>1, EntitiesAre
  <2> QED
    BY <2>1, Zenon DEF Object
<1>3. g = [r EXCEPT !.scope = o.off]
  BY DEF Scoped
<1> HIDE DEF e
<1>4. /\ Grown(h, r) /\ r.scope = h.scope /\ r.cbs = h.cbs
      /\ \A q \in DOMAIN h.mem : r.mem[q] = h.mem[q]
      /\ o.ok => o.off = h.brk /\ h.brk \in DOMAIN r.mem /\ r.mem[h.brk] = e /\ r.brk = h.brk + e.words
      /\ ~o.ok => r = h /\ o.off = 0
      /\ o.ok \in BOOLEAN
  BY <1>1, <1>2, AllocGrows, AllocFacts
<1> HIDE DEF o, r
<1>5. o.off \in Nat /\ Packed(r) /\ S \subseteq DOMAIN r.mem
  BY <1>1, <1>4 DEF Grown
<1>6. /\ Packed(g) /\ g.mem = r.mem /\ g.brk = r.brk /\ g.cbs = r.cbs /\ g.scope = o.off
      /\ \A T : Sound(r, T) => Sound(g, T)
      /\ \A T : Props(g, T) = Props(r, T)
      /\ Grown(h, g)
  BY <1>3, <1>4, <1>5, ScopeMoves
<1>7. Sound(r, S) /\ Props(r, S) = Props(h, S)
  BY <1>1, <1>4, <1>5, SameSound
<1>8. f \in Frame /\ f.own = o.off /\ f.brk1 = h.brk /\ f.brk2 = g.brk /\ f.type = type /\ f.code = code
  <2>1. g.brk \in Nat /\ g.scope \in Nat
    BY <1>5, <1>6, Below_brk, HeapIs
  <2> QED
    BY <1>1, <1>6, <2>1 DEF Frame
<1>9. failed = ~o.ok
  BY <1>1, <1>2, <1>4, <1>6
<1>10. /\ Pushed(fs, failed, f, fs2)
       /\ fs2 \in Seq(Frame) /\ Len(fs2) = L + 1 /\ fs2[L + 1] = f
       /\ \A i \in 1 .. L :
              /\ fs2[i].type = fs[i].type /\ fs2[i].code = fs[i].code
              /\ fs2[i].brk1 = fs[i].brk1 /\ fs2[i].brk2 = fs[i].brk2
              /\ fs2[i].own = IF failed THEN 0 ELSE fs[i].own
  <2>1. Pushed(fs, failed, f, fs2)
    <3>1. failed \in BOOLEAN /\ f \in Frame /\ fs \in Seq(Frame) /\ AddsFrame(fs, failed, f, fs2)
      BY <1>0, <1>1, <1>8
    <3> QED
      BY ONLY <3>1, PushedFacts, Zenon
  <2> QED
    BY <2>1 DEF Pushed
<1>11. Declared(h) \subseteq Declared(g)
  <2>1. 0 \in DOMAIN g.mem /\ g.mem[0] = h.mem[0]
    BY <1>1, <1>4, <1>5, <1>6
  <2>2. h.mem[0].link \in Listed(g, 0)
    BY <1>6, <2>1, ListedIs
  <2>3. \A q \in Props(h, S) : g.mem[q].link = h.mem[q].link /\ g.mem[q].key = h.mem[q].key
    BY <1>1, <1>4, <1>6 DEF Props
  <2> QED
    BY <1>1, <1>6, <2>2, <2>3, GrownDeclared
<1>12. /\ sc[0] = 0 /\ sc[L] = h.scope
       /\ \A i \in 0 .. L : sc[i] \in S
       /\ \A i \in 1 .. L : /\ h.mem[sc[i]].kind = "obj" /\ h.mem[sc[i]].up = sc[i - 1]
                            /\ sc[i] # 0 => sc[i - 1] < sc[i]
                            /\ ~Called(fs[i]) => sc[i] = fs[i].own
                            /\ i # 1 => ~Called(fs[i])
  BY <1>1 DEF Nested
<1>13. \A i \in 1 .. L + 1 : (i \in 1 .. L /\ i # L + 1 /\ i - 1 # L + 1) \/ (i = L + 1 /\ i - 1 = L)
  BY <1>1
<1>14. L + 1 # 1 => ~Called(f)
  BY <1>1, <1>8 DEF Called
<1>15. \A i \in 1 .. L : Called(fs2[i]) <=> Called(fs[i])
  BY <1>10 DEF Called
<1>16. CASE o.ok
  <2> DEFINE T == S \cup {h.brk}
             sc2 == [i \in 0 .. L + 1 |-> IF i = L + 1 THEN h.brk ELSE sc[i]]
  <2>1. Sound(g, T) /\ Props(g, T) = Props(h, S) /\ S \subseteq T /\ h.brk \in T
    <3>1. h.brk \in DOMAIN g.mem /\ g.mem[h.brk].kind = "obj" /\ g.mem[h.brk].link = 0
      BY <1>2, <1>4, <1>6, <1>16
    <3>2. Sound(g, S) /\ Props(g, S) = Props(h, S)
      BY <1>6, <1>7
    <3> QED
      BY <3>1, <3>2, MoreSound
  <2>2. /\ sc2 \in [0 .. L + 1 -> T] /\ sc2[L + 1] = h.brk /\ \A i \in 0 .. L : sc2[i] = sc[i]
    BY <1>1, <1>12
  <2> HIDE DEF sc2, T
  <2>3. \A q \in Props(g, T) : Fresh(h, S, g.mem[q].val) /\ (g.mem[q].val.type = "obj" => g.mem[q].val.off # h.brk)
    <3> TAKE q \in Props(g, T)
    <3>1. q \in Props(h, S) /\ g.mem[q] = h.mem[q]
      BY <1>1, <1>4, <1>6, <2>1 DEF Props
    <3>2. Points(h, S, h.mem[q].val)
      BY <1>1, <3>1 DEF Sound
    <3> QED
      BY <1>1, <3>1, <3>2, OwnFresh DEF Points, is_mem_entity
  <2>4. Nested(g, fs2, T, sc2)
    <3>1. sc2[0] = 0 /\ sc2[L + 1] = g.scope
      BY <1>1, <1>4, <1>6, <1>12, <1>16, <2>2
    <3>2. ASSUME NEW i \in 1 .. L + 1
          PROVE  /\ g.mem[sc2[i]].kind = "obj" /\ g.mem[sc2[i]].up = sc2[i - 1]
                 /\ sc2[i] # 0 => sc2[i - 1] < sc2[i]
                 /\ ~Called(fs2[i]) => sc2[i] = fs2[i].own
                 /\ i # 1 => ~Called(fs2[i])
      <4>1. CASE i \in 1 .. L
        <5>1. i - 1 \in 0 .. L /\ i \in 0 .. L
          BY <1>1, <4>1
        <5>2. sc2[i] = sc[i] /\ sc2[i - 1] = sc[i - 1] /\ sc[i] \in DOMAIN h.mem
          BY <1>1, <1>12, <2>2, <5>1
        <5>3. g.mem[sc[i]] = h.mem[sc[i]]
          BY <1>4, <1>6, <5>2
        <5>4. ~failed /\ fs2[i].own = fs[i].own
          BY <1>9, <1>10, <1>16, <4>1
        <5>5. /\ h.mem[sc[i]].kind = "obj" /\ h.mem[sc[i]].up = sc[i - 1]
              /\ sc[i] # 0 => sc[i - 1] < sc[i]
              /\ ~Called(fs[i]) => sc[i] = fs[i].own
              /\ i # 1 => ~Called(fs[i])
          BY <1>12, <4>1
        <5> QED
          BY <1>15, <4>1, <5>2, <5>3, <5>4, <5>5
      <4>2. CASE i = L + 1
        <5>1. sc2[i] = h.brk /\ sc2[i - 1] = h.scope /\ h.scope < h.brk
          BY <1>1, <1>12, <2>2, <4>2
        <5>2. g.mem[h.brk] = e /\ f.own = h.brk
          BY <1>4, <1>6, <1>8, <1>16
        <5>3. fs2[i] = f /\ (i # 1 => ~Called(f))
          BY <1>10, <1>14, <4>2
        <5> QED
          BY <1>2, <5>1, <5>2, <5>3
      <4> QED
        BY <1>13, <4>1, <4>2
    <3> QED
      BY <1>10, <2>2, <3>1, <3>2 DEF Nested
  <2>5. Opened(g, fs2, T, sc2)
    <3>1. g.brk # h.brk => /\ h.brk \in DOMAIN g.mem /\ g.mem[h.brk].kind = "obj" /\ g.brk = h.brk + g.mem[h.brk].words
                           /\ \A q \in Props(g, T) : g.mem[q].val.type = "obj" => g.mem[q].val.off # h.brk
      BY <1>2, <1>4, <1>6, <1>16, <2>3
    <3>2. \A q \in Props(g, T) : Fresh(h, S, g.mem[q].val)
      BY <2>3
    <3>3. \A i \in 0 .. L : sc2[i] = sc[i] \/ sc2[i] = 0
      BY <2>2
    <3>4. f.type = "call" => f.code \in DOMAIN h.mem /\ h.mem[f.code].text = "code"
      BY <1>8
    <3>5. OpensUpon(h, g, T, f) /\ AllFresh(h, S, g, T) /\ Lowered(L, sc, sc2)
      BY <1>6, <1>8, <3>1, <3>2, <3>3, <3>4 DEF OpensUpon, AllFresh, Lowered
    <3> QED
      BY <1>6, <1>10, <3>5, PushedOpened
  <2>6. HeapInv(g, fs2, T, sc2)
    BY <1>6, <1>10, <2>1, <2>4, <2>5 DEF HeapInv
  <2> QED
    BY <1>11, <2>6 DEF Keeps, Holds
<1>17. CASE ~o.ok
  <2> DEFINE sc2 == [i \in 0 .. L + 1 |-> 0]
  <2>1. sc2 \in [0 .. L + 1 -> S] /\ \A i \in 0 .. L + 1 : sc2[i] = 0
    BY <1>1
  <2> HIDE DEF sc2
  <2>2. Sound(g, S) /\ Props(g, S) = Props(h, S) /\ g.mem = h.mem /\ g.brk = h.brk /\ g.scope = 0
    BY <1>4, <1>6, <1>7, <1>17
  <2>3. \A q \in Props(g, S) : Fresh(h, S, g.mem[q].val)
    BY <2>2, OwnFresh
  <2>4. Nested(g, fs2, S, sc2)
    <3>1. sc2[0] = 0 /\ sc2[L + 1] = g.scope
      BY <1>1, <2>1, <2>2
    <3>2. ASSUME NEW i \in 1 .. L + 1
          PROVE  /\ g.mem[sc2[i]].kind = "obj" /\ g.mem[sc2[i]].up = sc2[i - 1]
                 /\ sc2[i] # 0 => sc2[i - 1] < sc2[i]
                 /\ ~Called(fs2[i]) => sc2[i] = fs2[i].own
                 /\ i # 1 => ~Called(fs2[i])
      <4>1. i \in 0 .. L + 1 /\ i - 1 \in 0 .. L + 1
        BY <1>1
      <4>2. sc2[i] = 0 /\ sc2[i - 1] = 0 /\ g.mem[0].kind = "obj" /\ g.mem[0].up = 0
        BY <1>1, <2>1, <2>2, <4>1 DEF Sound
      <4>3. fs2[i].own = 0 /\ (i # 1 => ~Called(fs2[i]))
        <5>1. CASE i \in 1 .. L
          BY <1>9, <1>10, <1>12, <1>15, <1>17, <5>1
        <5>2. CASE i = L + 1
          BY <1>4, <1>8, <1>10, <1>14, <1>17, <5>2
        <5> QED
          BY <1>13, <5>1, <5>2
      <4> QED
        BY <4>2, <4>3
    <3> QED
      BY <1>10, <2>1, <3>1, <3>2 DEF Nested
  <2>5. Opened(g, fs2, S, sc2)
    <3>1. \A i \in 0 .. L : sc2[i] = sc[i] \/ sc2[i] = 0
      BY <1>1, <2>1
    <3>2. f.type = "call" => f.code \in DOMAIN h.mem /\ h.mem[f.code].text = "code"
      BY <1>8
    <3>3. OpensUpon(h, g, S, f) /\ AllFresh(h, S, g, S) /\ Lowered(L, sc, sc2)
      BY <1>6, <1>8, <2>2, <2>3, <3>1, <3>2 DEF OpensUpon, AllFresh, Lowered
    <3> QED
      BY <1>6, <1>10, <3>3, PushedOpened
  <2>6. HeapInv(g, fs2, S, sc2)
    BY <1>6, <1>10, <2>2, <2>4, <2>5 DEF HeapInv
  <2> QED
    BY <1>11, <2>6 DEF Keeps, Holds
<1> QED
  BY <1>4, <1>16, <1>17

(* All frames but the innermost one.                                        *)
LEMMA Popped ==
    ASSUME NEW fs \in Seq(Frame), fs # <<>>
    PROVE  /\ SubSeq(fs, 1, Len(fs) - 1) \in Seq(Frame)
           /\ Len(SubSeq(fs, 1, Len(fs) - 1)) = Len(fs) - 1
           /\ \A i \in 1 .. Len(fs) - 1 : SubSeq(fs, 1, Len(fs) - 1)[i] = fs[i]
<1> DEFINE n == Len(fs) - 1
           fs2 == SubSeq(fs, 1, n)
<1>1. Len(fs) \in Nat /\ Len(fs) # 0
  BY EmptySeq, LenProperties
<1>2. n \in Int /\ 1 \in Int /\ n \in Nat /\ n - 1 + 1 = n /\ \A i \in 1 .. n : 1 + i - 1 = i /\ i \in 1 .. Len(fs)
  BY <1>1
<1>3. \A i \in 1 .. n : fs[i] \in Frame
  BY <1>2, ElementOfSeq
<1> HIDE DEF n
<1>4. /\ fs2 \in Seq(Frame) /\ Len(fs2) = IF 1 <= n THEN n - 1 + 1 ELSE 0
      /\ \A i \in 1 .. n - 1 + 1 : fs2[i] = fs[1 + i - 1]
  BY <1>2, <1>3, SubSeqProperties
<1>5. fs2 \in Seq(Frame) /\ Len(fs2) = n /\ \A i \in 1 .. n : fs2[i] = fs[i]
  BY <1>2, <1>4
<1> QED
  BY <1>5 DEF n

(* The block or call that is executed ends.                                 *)
LEMMA PopInv ==
    ASSUME NEW h, NEW fs, NEW S, NEW sc, HeapInv(h, fs, S, sc), fs # <<>>,
           NEW g, g = [h EXCEPT !.scope = h.mem[h.scope].up],
           NEW sc2, sc2 = [i \in 0 .. Len(fs) - 1 |-> sc[i]]
    PROVE  HeapInv(g, SubSeq(fs, 1, Len(fs) - 1), S, sc2)
<1> DEFINE L == Len(fs)
           fs2 == SubSeq(fs, 1, L - 1)
<1>1. /\ Packed(h) /\ Sound(h, S) /\ Nested(h, fs, S, sc) /\ Opened(h, fs, S, sc) /\ h \in Heap
      /\ fs \in Seq(Frame) /\ L \in Nat /\ h.scope \in DOMAIN h.mem
  BY InvParts
<1>2. L # 0 /\ L - 1 \in Nat
  BY <1>1, EmptySeq
<1>3. /\ fs2 \in Seq(Frame) /\ Len(fs2) = L - 1 /\ \A i \in 1 .. L - 1 : fs2[i] = fs[i]
  BY <1>1, Popped
<1> HIDE DEF fs2, L
<1>4. /\ sc[0] = 0 /\ sc[L] = h.scope
      /\ \A i \in 0 .. L : sc[i] \in S
      /\ \A i \in 1 .. L : /\ h.mem[sc[i]].kind = "obj" /\ h.mem[sc[i]].up = sc[i - 1]
                           /\ sc[i] # 0 => sc[i - 1] < sc[i]
                           /\ ~Called(fs[i]) => sc[i] = fs[i].own
                           /\ i # 1 => ~Called(fs[i])
  BY <1>1 DEF Nested, L
<1>5. h.mem[h.scope].up = sc[L - 1] /\ h.mem[h.scope].up \in Nat
  <2>1. L \in 1 .. L
    BY <1>1, <1>2
  <2> QED
    BY <1>1, <1>4, <2>1, HeapIs
<1>6. /\ Packed(g) /\ g.mem = h.mem /\ g.brk = h.brk /\ g.scope = sc[L - 1] /\ Sound(g, S)
      /\ Props(g, S) = Props(h, S)
  BY <1>1, <1>5, ScopeMoves
<1>7. /\ sc2 \in [0 .. L - 1 -> S] /\ \A i \in 0 .. L - 1 : sc2[i] = sc[i]
  BY <1>1, <1>2, <1>4 DEF L
<1>8. Nested(g, fs2, S, sc2)
  <2>1. sc2[0] = 0 /\ sc2[L - 1] = g.scope
    BY <1>2, <1>4, <1>6, <1>7
  <2>2. ASSUME NEW i \in 1 .. L - 1
        PROVE  /\ g.mem[sc2[i]].kind = "obj" /\ g.mem[sc2[i]].up = sc2[i - 1]
               /\ sc2[i] # 0 => sc2[i - 1] < sc2[i]
               /\ ~Called(fs2[i]) => sc2[i] = fs2[i].own
               /\ i # 1 => ~Called(fs2[i])
    <3>1. i \in 1 .. L /\ i \in 0 .. L - 1 /\ i - 1 \in 0 .. L - 1
      BY <1>1, <1>2
    <3>2. sc2[i] = sc[i] /\ sc2[i - 1] = sc[i - 1] /\ fs2[i] = fs[i]
      BY <1>3, <1>7, <3>1
    <3> QED
      BY <1>4, <1>6, <3>1, <3>2
  <2> QED
    BY <1>3, <1>7, <2>1, <2>2 DEF Nested
<1>9. Opened(g, fs2, S, sc2)
  <2> SUFFICES ASSUME NEW j \in 1 .. Len(fs2), NEW f, f = fs2[j], ~Called(f)
               PROVE  /\ f.brk1 <= f.brk2 /\ f.brk2 <= g.brk
                      /\ f.brk1 \in DOMAIN g.mem \cup {g.brk}
                      /\ \A i \in 1 .. j - 1 : ~Called(fs2[i]) => fs2[i].brk2 <= f.brk1
                      /\ \A i \in 0 .. j - 1 : sc2[i] < f.brk1
                      /\ f.brk1 # f.brk2 =>
                             /\ f.brk1 \in DOMAIN g.mem /\ g.mem[f.brk1].kind = "obj"
                             /\ f.brk2 = f.brk1 + g.mem[f.brk1].words
                             /\ \A o \in Props(g, S) : g.mem[o].val.type = "obj" => g.mem[o].val.off # f.brk1
                      /\ f.type = "call" => f.code \in DOMAIN g.mem /\ g.mem[f.code].text = "code" /\ f.code < f.brk1
    BY DEF Opened
  <2>0. j \in 1 .. L - 1
    BY <1>3
  <2>1. j \in 1 .. L /\ f = fs[j] /\ ~Called(fs[j])
    <3>1. j \in 1 .. L
      BY <1>1, <1>2, <2>0
    <3>2. f = fs[j]
      BY <1>3, <2>0
    <3> QED
      BY <3>1, <3>2
  <2>2. /\ f.brk1 <= f.brk2 /\ f.brk2 <= h.brk
        /\ f.brk1 \in DOMAIN h.mem \cup {h.brk}
        /\ \A i \in 1 .. j - 1 : ~Called(fs[i]) => fs[i].brk2 <= f.brk1
        /\ \A i \in 0 .. j - 1 : sc[i] < f.brk1
        /\ f.brk1 # f.brk2 =>
               /\ f.brk1 \in DOMAIN h.mem /\ h.mem[f.brk1].kind = "obj"
               /\ f.brk2 = f.brk1 + h.mem[f.brk1].words
               /\ \A o \in Props(h, S) : h.mem[o].val.type = "obj" => h.mem[o].val.off # f.brk1
        /\ f.type = "call" => f.code \in DOMAIN h.mem /\ h.mem[f.code].text = "code" /\ f.code < f.brk1
    BY <1>1, <2>1 DEF Opened, L
  <2>3. \A i \in 1 .. j - 1 : ~Called(fs2[i]) => fs2[i].brk2 <= f.brk1
    <3> TAKE i \in 1 .. j - 1
    <3>1. fs2[i] = fs[i]
      BY <1>2, <1>3
    <3> QED
      BY <2>2, <3>1
  <2>4. \A i \in 0 .. j - 1 : sc2[i] < f.brk1
    <3> TAKE i \in 0 .. j - 1
    <3>1. sc2[i] = sc[i]
      BY <1>2, <1>7
    <3> QED
      BY <2>2, <3>1
  <2> QED
    BY <1>6, <2>2, <2>3, <2>4
<1> QED
  BY <1>3, <1>6, <1>8, <1>9 DEF HeapInv, fs2, L

\* Nothing in use is at b or behind it, but for an object no value refers to.
Cuttable(h, fs, S, sc, b) ==
    /\ b \in DOMAIN h.mem \cup {h.brk}
    /\ b # h.brk => /\ h.mem[b].kind = "obj" /\ b + h.mem[b].words = h.brk
                    /\ \A o \in Props(h, S) : h.mem[o].val.type = "obj" => h.mem[o].val.off # b
    /\ \A i \in 0 .. Len(fs) : sc[i] < b
    /\ \A i \in 1 .. Len(fs) : ~Called(fs[i]) => fs[i].brk2 <= b

(* The fast scope GC.                                                       *)
LEMMA CutKeeps ==
    ASSUME NEW h, NEW fs, NEW S, NEW sc, HeapInv(h, fs, S, sc), NEW b, Cuttable(h, fs, S, sc, b),
           NEW g, g = Below(h, b)
    PROVE  Keeps(h, g, fs)
<1> DEFINE D == {o \in DOMAIN h.mem : o < b}
           T == {o \in S : o < b}
           m == [o \in D |-> h.mem[o]]
<1>1. /\ Packed(h) /\ Sound(h, S) /\ Nested(h, fs, S, sc) /\ Opened(h, fs, S, sc) /\ h \in Heap
      /\ fs \in Seq(Frame) /\ Len(fs) \in Nat /\ S \subseteq DOMAIN h.mem /\ 0 \in S
      /\ h.brk \in Nat /\ h.size \in Nat /\ h.brk <= h.size
      /\ \A o \in DOMAIN h.mem : o \in Nat /\ o < h.brk
      /\ h.mem[0].kind = "obj" /\ h.mem[0].up = 0
  <2>1. /\ Packed(h) /\ Sound(h, S) /\ Nested(h, fs, S, sc) /\ Opened(h, fs, S, sc) /\ h \in Heap
        /\ fs \in Seq(Frame) /\ Len(fs) \in Nat /\ S \subseteq DOMAIN h.mem /\ 0 \in S /\ h.brk \in Nat
    BY InvParts
  <2>2. \A o \in DOMAIN h.mem : o \in Nat /\ o < h.brk
    BY <2>1, Below_brk
  <2>3. h.size \in Nat /\ h.brk <= h.size
    BY <2>1 DEF Packed, Heap
  <2>4. h.mem[0].kind = "obj" /\ h.mem[0].up = 0
    BY <2>1 DEF Sound
  <2> QED
    BY <2>1, <2>2, <2>3, <2>4
<1>2. /\ b \in DOMAIN h.mem \cup {h.brk} /\ b \in Nat /\ b <= h.brk
      /\ b # h.brk => /\ b \in DOMAIN h.mem /\ h.mem[b].kind = "obj" /\ b + h.mem[b].words = h.brk
                      /\ \A o \in Props(h, S) : h.mem[o].val.type = "obj" => h.mem[o].val.off # b
      /\ \A i \in 0 .. Len(fs) : sc[i] < b
      /\ \A i \in 1 .. Len(fs) : ~Called(fs[i]) => fs[i].brk2 <= b
  BY <1>1 DEF Cuttable
<1>3. \A o \in DOMAIN h.mem : o < b \/ (o = b /\ b # h.brk)
  <2> SUFFICES ASSUME NEW o \in DOMAIN h.mem, ~(o < b), o # b PROVE FALSE
    BY <1>1
  <2>1. b < o /\ b \in DOMAIN h.mem /\ b + h.mem[b].words = h.brk
    BY <1>1, <1>2
  <2>2. b + h.mem[b].words <= o
    BY <1>1, <2>1 DEF Packed
  <2> QED
    BY <1>1, <2>1, <2>2
<1>4. g = [h EXCEPT !.brk = b, !.mem = m]
  BY DEF Below
<1>5. m \in Memory
  <2>1. D \in SUBSET Nat /\ \A o \in D : h.mem[o] \in Entity
    BY <1>1, HeapIs
  <2>2. m \in [D -> Entity]
    BY <2>1
  <2> HIDE DEF m, D
  <2> QED
    BY <2>1, <2>2, MemoryIs
<1>6. DOMAIN m = D /\ \A o \in DOMAIN h.mem : o < b => o \in D /\ m[o] = h.mem[o]
  OBVIOUS
<1> HIDE DEF m
<1>7. g \in Heap /\ g.mem = m /\ g.brk = b /\ g.size = h.size /\ g.scope = h.scope /\ g.cbs = h.cbs
  BY <1>1, <1>2, <1>4, <1>5 DEF Heap
<1>8. /\ DOMAIN g.mem = D /\ D \subseteq DOMAIN h.mem
      /\ \A o \in DOMAIN h.mem : o < b => o \in DOMAIN g.mem /\ g.mem[o] = h.mem[o]
      /\ \A o \in DOMAIN g.mem : o \in DOMAIN h.mem /\ o < b /\ g.mem[o] = h.mem[o]
  BY <1>6, <1>7
<1> HIDE DEF D
<1>9. Packed(g)
  <2>1. g.brk <= g.size
    BY <1>1, <1>2, <1>7
  <2>2. ASSUME NEW o \in DOMAIN g.mem
        PROVE  o + g.mem[o].words \in DOMAIN g.mem \cup {g.brk} /\ o + g.mem[o].words <= g.brk
    <3> DEFINE u == o + h.mem[o].words
    <3>1. /\ o \in DOMAIN h.mem /\ o < b /\ g.mem[o] = h.mem[o]
          /\ u \in DOMAIN h.mem \cup {h.brk} /\ u \in Nat
          /\ b \in DOMAIN h.mem => u <= b
      BY <1>1, <1>2, <1>8 DEF Packed
    <3> HIDE DEF u
    <3>2. u <= b
      BY <1>1, <1>2, <3>1
    <3>3. u \in DOMAIN g.mem \cup {b}
      BY <1>1, <1>2, <1>8, <3>1, <3>2
    <3> QED
      BY <1>7, <3>1, <3>2, <3>3 DEF u
  <2>3. \A o, p \in DOMAIN g.mem : o < p => o + g.mem[o].words <= p
    BY <1>1, <1>8 DEF Packed
  <2> QED
    BY <1>7, <2>1, <2>2, <2>3 DEF Packed
<1>10. \A o \in S : o < b => o \in T /\ g.mem[o] = h.mem[o]
  BY <1>1, <1>8
<1>11. \A o \in T : o \in S /\ o < b /\ o \in DOMAIN g.mem /\ g.mem[o] = h.mem[o]
  BY <1>1, <1>8
<1> HIDE DEF T
<1>12. ASSUME NEW o \in S, h.mem[o].kind # "obj" PROVE o \in T /\ g.mem[o] = h.mem[o]
  BY <1>1, <1>2, <1>3, <1>10, <1>12
<1>13. Props(g, T) = Props(h, S)
  BY <1>11, <1>12 DEF Props
<1>14. \A o \in Props(h, S) : o \in T /\ g.mem[o] = h.mem[o]
  BY <1>12 DEF Props
<1>15. 0 < b /\ 0 \in T /\ g.mem[0] = h.mem[0]
  <2>1. 0 \in 0 .. Len(fs) /\ sc[0] = 0
    BY <1>1 DEF Nested
  <2>2. 0 < b
    BY <1>2, <2>1
  <2> QED
    BY <1>1, <1>10, <2>2
<1>16. Sound(g, T)
  <2>1. \A o \in T : g.mem[o].kind \in {"obj", "prop"} /\ g.mem[o].link # 0 => g.mem[o].link \in Props(g, T)
    <3> TAKE o \in T
    <3>1. o \in S /\ g.mem[o] = h.mem[o]
      BY <1>11
    <3> QED
      BY <1>1, <1>13, <3>1 DEF Sound
  <2>2. ASSUME NEW o \in Props(g, T)
        PROVE  /\ g.mem[o].link < o /\ g.mem[o].key \in T /\ g.mem[g.mem[o].key].kind = "str"
               /\ Points(g, T, g.mem[o].val)
    <3> DEFINE e == h.mem[o]
    <3>1. o \in Props(h, S) /\ g.mem[o] = e
      BY <1>13, <1>14
    <3>2. /\ e.link < o /\ e.key \in S /\ h.mem[e.key].kind = "str" /\ Points(h, S, e.val)
      BY <1>1, <3>1 DEF Sound
    <3> HIDE DEF e
    <3>3. e.key \in T /\ g.mem[e.key].kind = "str"
      BY <1>12, <3>2
    <3>4. Points(g, T, e.val)
      <4>1. SUFFICES ASSUME is_mem_entity(e.val)
                     PROVE  e.val.off \in T /\ g.mem[e.val.off].kind = (IF e.val.type = "obj" THEN "obj" ELSE "str")
        BY DEF Points
      <4>2. e.val.off \in S /\ h.mem[e.val.off].kind = (IF e.val.type = "obj" THEN "obj" ELSE "str")
        BY <3>2, <4>1 DEF Points
      <4>3. CASE e.val.type = "obj"
        <5>1. e.val.off # b \/ b = h.brk
          BY <1>2, <3>1, <4>3 DEF e
        <5>2. e.val.off < b
          BY <1>1, <1>3, <4>2, <5>1
        <5> QED
          BY <1>10, <4>2, <5>2
      <4>4. CASE e.val.type # "obj"
        BY <1>12, <4>2, <4>4
      <4> QED
        BY <4>3, <4>4
    <3> QED
      BY <3>1, <3>2, <3>3, <3>4
  <2>3. ASSUME NEW i \in DOMAIN g.cbs, NEW c, c = g.cbs[i]
        PROVE  /\ c.caller \in T /\ g.mem[c.caller].kind = "str" /\ g.mem[c.caller].text = "ffi"
               /\ c.func \in T /\ g.mem[c.func].kind = "str" /\ g.mem[c.func].text = "code"
    <3>1. /\ c.caller \in S /\ h.mem[c.caller].kind = "str" /\ h.mem[c.caller].text = "ffi"
          /\ c.func \in S /\ h.mem[c.func].kind = "str" /\ h.mem[c.func].text = "code"
      BY <1>1, <1>7, <2>3 DEF Sound
    <3> QED
      BY <1>12, <3>1
  <2>4. T \subseteq DOMAIN g.mem
    BY <1>11
  <2> QED
    BY <1>1, <1>15, <2>1, <2>2, <2>3, <2>4, SMTT(30) DEF Sound
<1>17. Nested(g, fs, T, sc)
  <2>1. \A i \in 0 .. Len(fs) : sc[i] \in T /\ g.mem[sc[i]] = h.mem[sc[i]]
    BY <1>1, <1>2, <1>10 DEF Nested
  <2>2. sc \in [0 .. Len(fs) -> T] /\ sc[0] = 0 /\ sc[Len(fs)] = g.scope
    BY <1>1, <1>7, <2>1 DEF Nested
  <2>3. \A i \in 1 .. Len(fs) : i \in 0 .. Len(fs)
    BY <1>1
  <2> QED
    BY <1>1, <2>1, <2>2, <2>3 DEF Nested
<1>18. Opened(g, fs, T, sc)
  <2> SUFFICES ASSUME NEW j \in 1 .. Len(fs), NEW f, f = fs[j], ~Called(f)
               PROVE  /\ f.brk1 <= f.brk2 /\ f.brk2 <= g.brk
                      /\ f.brk1 \in DOMAIN g.mem \cup {g.brk}
                      /\ \A i \in 1 .. j - 1 : ~Called(fs[i]) => fs[i].brk2 <= f.brk1
                      /\ \A i \in 0 .. j - 1 : sc[i] < f.brk1
                      /\ f.brk1 # f.brk2 =>
                             /\ f.brk1 \in DOMAIN g.mem /\ g.mem[f.brk1].kind = "obj"
                             /\ f.brk2 = f.brk1 + g.mem[f.brk1].words
                             /\ \A o \in Props(g, T) : g.mem[o].val.type = "obj" => g.mem[o].val.off # f.brk1
                      /\ f.type = "call" => f.code \in DOMAIN g.mem /\ g.mem[f.code].text = "code" /\ f.code < f.brk1
    BY DEF Opened
  <2>1. f.brk1 \in Nat /\ f.brk2 \in Nat
    <3>1. f \in Frame
      BY <1>1, ElementOfSeq
    <3> QED
      BY <3>1 DEF Frame
  <2>2. /\ f.brk1 <= f.brk2 /\ f.brk2 <= h.brk
        /\ f.brk1 \in DOMAIN h.mem \cup {h.brk}
        /\ \A i \in 1 .. j - 1 : ~Called(fs[i]) => fs[i].brk2 <= f.brk1
        /\ \A i \in 0 .. j - 1 : sc[i] < f.brk1
        /\ f.brk1 # f.brk2 =>
               /\ f.brk1 \in DOMAIN h.mem /\ h.mem[f.brk1].kind = "obj"
               /\ f.brk2 = f.brk1 + h.mem[f.brk1].words
               /\ \A o \in Props(h, S) : h.mem[o].val.type = "obj" => h.mem[o].val.off # f.brk1
        /\ f.type = "call" => f.code \in DOMAIN h.mem /\ h.mem[f.code].text = "code" /\ f.code < f.brk1
    BY <1>1 DEF Opened
  <2>3. f.brk2 <= b /\ f.brk1 <= b
    BY <1>2, <2>1, <2>2
  <2>4. f.brk1 \in DOMAIN g.mem \cup {b}
    BY <1>1, <1>2, <1>8, <2>1, <2>2, <2>3
  <2>5. ASSUME f.brk1 # f.brk2
        PROVE  /\ f.brk1 \in DOMAIN g.mem /\ g.mem[f.brk1].kind = "obj"
               /\ f.brk2 = f.brk1 + g.mem[f.brk1].words
               /\ \A o \in Props(g, T) : g.mem[o].val.type = "obj" => g.mem[o].val.off # f.brk1
    <3>1. f.brk1 < b /\ f.brk1 \in DOMAIN h.mem
      BY <1>2, <2>1, <2>2, <2>3, <2>5
    <3>2. f.brk1 \in DOMAIN g.mem /\ g.mem[f.brk1] = h.mem[f.brk1]
      BY <1>8, <3>1
    <3> QED
      BY <1>13, <1>14, <2>2, <2>5, <3>2
  <2>6. ASSUME f.type = "call" PROVE f.code \in DOMAIN g.mem /\ g.mem[f.code].text = "code" /\ f.code < f.brk1
    <3>1. f.code \in DOMAIN h.mem /\ f.code < f.brk1 /\ f.code \in Nat
      BY <1>1, <2>2, <2>6
    <3>2. f.code < b
      BY <1>2, <2>1, <2>3, <3>1
    <3> QED
      BY <1>8, <2>2, <2>6, <3>1, <3>2
  <2> QED
    BY <1>7, <2>2, <2>3, <2>4, <2>5, <2>6
<1>19. Declared(h) \subseteq Declared(g)
  <2> DEFINE to == [o \in S |-> o]
  <2>1. to \in [S -> Nat] /\ \A o \in S : to[o] = o
    BY <1>1
  <2> HIDE DEF to
  <2>2. 0 \in DOMAIN g.mem /\ to[0] = 0
    BY <1>1, <1>11, <1>15, <2>1
  <2>3. to[h.mem[0].link] \in Listed(g, 0)
    <3>1. g.mem[0].link \in Listed(g, 0)
      BY <1>9, <2>2, ListedIs
    <3>2. h.mem[0].link \in S
      BY <1>1 DEF Sound, Props
    <3> QED
      BY <1>15, <2>1, <3>1, <3>2
  <2>4. ASSUME NEW o \in Props(h, S)
        PROVE  /\ to[o] \in Rest(g) /\ g.mem[to[o]].link = to[h.mem[o].link]
               /\ g.mem[g.mem[to[o]].key].text = h.mem[h.mem[o].key].text
    <3>1. o \in T /\ o \in DOMAIN g.mem /\ g.mem[o] = h.mem[o] /\ o \in S /\ o # 0
      BY <1>1, <1>11, <1>14 DEF Props
    <3>2. h.mem[o].link \in S /\ h.mem[o].key \in S /\ h.mem[h.mem[o].key].kind = "str"
      BY <1>1 DEF Sound, Props
    <3>3. g.mem[h.mem[o].key] = h.mem[h.mem[o].key]
      BY <1>12, <3>2
    <3> QED
      BY <2>1, <3>1, <3>2, <3>3 DEF Rest
  <2> QED
    BY ONLY <1>1, <1>9, <2>1, <2>2, <2>3, <2>4, DeclaredGoes
<1>20. HeapInv(g, fs, T, sc)
  BY <1>1, <1>9, <1>16, <1>17, <1>18 DEF HeapInv
<1> QED
  BY <1>19, <1>20 DEF Keeps, Holds

LEMMA ExitKeeps ==
    ASSUME NEW h, NEW fs, NEW S, NEW sc, HeapInv(h, fs, S, sc), fs # <<>>, NEW f, f = fs[Len(fs)],
           NEW r, r = [h EXCEPT !.scope = h.mem[h.scope].up],
           NEW g, g = IF f.type = "block" THEN FastGc(r, f) ELSE r
    PROVE  Keeps(h, g, SubSeq(fs, 1, Len(fs) - 1))
<1> DEFINE L == Len(fs)
           fs2 == SubSeq(fs, 1, L - 1)
           sc2 == [i \in 0 .. L - 1 |-> sc[i]]
<1>1. HeapInv(r, fs2, S, sc2)
  BY PopInv
<1>2. /\ Packed(h) /\ Nested(h, fs, S, sc) /\ Opened(h, fs, S, sc) /\ Sound(h, S)
      /\ fs \in Seq(Frame) /\ L \in Nat /\ L # 0
  BY InvParts, EmptySeq
<1>3. L \in 1 .. L /\ L - 1 \in Nat /\ \A i \in 0 .. L - 1 : sc2[i] = sc[i]
  BY <1>2
<1>4. h.mem[h.scope].up \in Nat
  <2>1. h.scope \in DOMAIN h.mem /\ h \in Heap
    BY <1>2, InvParts
  <2> QED
    BY <2>1, HeapIs
<1>5. /\ r.mem = h.mem /\ r.brk = h.brk /\ Props(r, S) = Props(h, S) /\ Declared(r) = Declared(h)
  BY <1>2, <1>4, ScopeMoves
<1>6. Len(fs2) = L - 1 /\ \A i \in 1 .. L - 1 : fs2[i] = fs[i]
  BY <1>2, Popped
<1> HIDE DEF L, fs2, sc2
<1>7. CASE f.type = "block" /\ r.brk = f.brk2
  <2> DEFINE b == f.brk1
  <2>1. /\ f.brk2 = h.brk /\ b \in DOMAIN h.mem \cup {h.brk}
        /\ \A i \in 1 .. L - 1 : ~Called(fs[i]) => fs[i].brk2 <= b
        /\ \A i \in 0 .. L - 1 : sc[i] < b
        /\ b # f.brk2 =>
               /\ b \in DOMAIN h.mem /\ h.mem[b].kind = "obj" /\ f.brk2 = b + h.mem[b].words
               /\ \A o \in Props(h, S) : h.mem[o].val.type = "obj" => h.mem[o].val.off # b
    <3>1. ~Called(f) /\ f = fs[L] /\ f.brk2 = h.brk
      BY <1>5, <1>7 DEF Called, L
    <3> QED
      BY <1>2, <1>3, <3>1 DEF Opened, L
  <2>2. g = Below(r, b)
    BY <1>7 DEF FastGc
  <2> HIDE DEF b
  <2>3. Cuttable(r, fs2, S, sc2, b)
    <3>1. \A i \in 0 .. Len(fs2) : sc2[i] < b
      BY <1>3, <1>6, <2>1
    <3>2. \A i \in 1 .. Len(fs2) : ~Called(fs2[i]) => fs2[i].brk2 <= b
      BY <1>6, <2>1
    <3>3. b # r.brk => /\ r.mem[b].kind = "obj" /\ b + r.mem[b].words = r.brk
                       /\ \A o \in Props(r, S) : r.mem[o].val.type = "obj" => r.mem[o].val.off # b
      BY <1>5, <2>1
    <3> QED
      BY <1>5, <2>1, <3>1, <3>2, <3>3 DEF Cuttable
  <2>4. Keeps(r, g, fs2)
    BY <1>1, <2>2, <2>3, CutKeeps
  <2> QED
    BY <1>5, <2>4 DEF Keeps, fs2, L
<1>8. CASE ~(f.type = "block" /\ r.brk = f.brk2)
  <2>1. g = r
    BY <1>8 DEF FastGc
  <2> QED
    BY <1>1, <1>5, <2>1 DEF Keeps, Holds, fs2, L
<1> QED
  BY <1>7, <1>8

(* A callback is registered: three words are taken from the end.            *)
LEMMA RegisterKeeps ==
    ASSUME NEW h, NEW fs, NEW S, NEW sc, HeapInv(h, fs, S, sc), h.brk <= h.size - 3,
           NEW c \in [caller : Nat, func : Nat],
           c.caller \in S, h.mem[c.caller].kind = "str", h.mem[c.caller].text = "ffi",
           c.func \in S, h.mem[c.func].kind = "str", h.mem[c.func].text = "code",
           NEW g, g = [h EXCEPT !.size = h.size - 3, !.cbs = Append(h.cbs, c)]
    PROVE  Keeps(h, g, fs)
<1>1. /\ Packed(h) /\ Sound(h, S) /\ Nested(h, fs, S, sc) /\ Opened(h, fs, S, sc) /\ h \in Heap
      /\ fs \in Seq(Frame)
  BY InvParts
<1>2. h.brk \in Nat /\ h.size \in Nat /\ h.size - 3 \in Nat /\ h.cbs \in Seq([caller : Nat, func : Nat])
  <2>1. h.brk \in Nat /\ h.size \in Nat /\ h.cbs \in Seq([caller : Nat, func : Nat])
    BY <1>1 DEF Heap
  <2> QED
    BY <2>1
<1> DEFINE cbs == Append(h.cbs, c)
           N == Len(h.cbs)
<1>3. /\ cbs \in Seq([caller : Nat, func : Nat]) /\ N \in Nat /\ DOMAIN h.cbs = 1 .. N /\ DOMAIN cbs = 1 .. N + 1
      /\ cbs[N + 1] = c /\ \A i \in 1 .. N : cbs[i] = h.cbs[i]
  BY <1>2, AppendProperties, LenProperties
<1> HIDE DEF cbs, N
<1>4. /\ g \in Heap /\ g.mem = h.mem /\ g.brk = h.brk /\ g.size = h.size - 3 /\ g.scope = h.scope /\ g.cbs = cbs
  BY <1>1, <1>2, <1>3 DEF Heap, cbs
<1>5. Packed(g)
  BY <1>1, <1>4 DEF Packed
<1>6. Props(g, S) = Props(h, S)
  BY ONLY <1>4, Zenon DEF Props
<1>7. Sound(g, S)
  <2>1. ASSUME NEW i \in DOMAIN g.cbs, NEW d, d = g.cbs[i]
        PROVE  /\ d.caller \in S /\ g.mem[d.caller].kind = "str" /\ g.mem[d.caller].text = "ffi"
               /\ d.func \in S /\ g.mem[d.func].kind = "str" /\ g.mem[d.func].text = "code"
    <3>1. i \in 1 .. N \/ i = N + 1
      <4>1. i \in 1 .. N + 1 /\ N \in Nat
        BY <1>3, <1>4
      <4> QED
        BY <4>1
    <3>2. CASE i = N + 1
      BY <1>3, <1>4, <2>1, <3>2, Zenon
    <3>3. CASE i \in 1 .. N
      <4>1. d = h.cbs[i] /\ i \in DOMAIN h.cbs
        BY <1>3, <1>4, <2>1, <3>3
      <4> QED
        BY <1>1, <1>4, <4>1 DEF Sound
    <3> QED
      BY <3>1, <3>2, <3>3
  <2>2. \A o \in Props(g, S) : Points(g, S, g.mem[o].val)
    BY <1>1, <1>4, <1>6, SMTT(30) DEF Sound, Points
  <2> QED
    BY ONLY <1>1, <1>4, <1>6, <2>1, <2>2 DEF Sound
<1>8. Nested(g, fs, S, sc)
  BY <1>1, <1>4 DEF Nested
<1>9. Opened(g, fs, S, sc)
  BY <1>1, <1>4, <1>6 DEF Opened
<1>10. Declared(g) = Declared(h)
  <2>1. Chain(g, 0) = Chain(h, 0)
    BY <1>4, Zenon DEF Chain
  <2> QED
    BY <1>4, <2>1 DEF Declared
<1> QED
  BY <1>1, <1>5, <1>7, <1>8, <1>9, <1>10 DEF HeapInv, Keeps, Holds

(* An embedder binds a C function to a global variable.                     *)
LEMMA ImportKeeps ==
    ASSUME NEW h, NEW fs, NEW S, NEW sc, HeapInv(h, fs, S, sc), NEW x \in Imported,
           NEW s, s = mkentity(h, Signature), s.ok,
           NEW b, b = Bound(s.h, 0, x, [type |-> "func", off |-> s.off]), b.ok
    PROVE  Keeps(h, b.h, fs)
<1> DEFINE v == [type |-> "func", off |-> s.off]
           e == [h |-> s.h, ok |-> s.ok, val |-> v]
<1>1. /\ S \subseteq DOMAIN h.mem /\ 0 \in S /\ h.brk \notin DOMAIN h.mem
      /\ Packed(h) /\ Sound(h, S) /\ h.mem[0].kind = "obj"
  BY InvParts
<1>2. Signature \in Entity /\ Signature.kind = "str"
  <2>1. "ffi" \in Texts
    BY DEF Texts
  <2>2. Signature \in Entity
    BY <2>1, EntitiesAre DEF Signature
  <2> QED
    BY <2>2 DEF Signature, String
<1>3. s.off = h.brk /\ s.off # 0
  BY <1>1, <1>2, AllocFacts
<1>4. /\ e.h = s.h /\ e.val = [type |-> "func", off |-> s.off] /\ e.ok /\ ~Misplaced(e.val)
      /\ b = Bound(e.h, 0, x, e.val)
  BY <1>3 DEF Misplaced
<1> HIDE DEF e, v
<1>5. PICK T : Evaluates(h, S, e, T)
  BY <1>1, <1>2, <1>4, StringEvaluates
<1>6. /\ Grown(h, e.h) /\ e.h.scope = h.scope /\ S \subseteq T /\ Sound(e.h, T)
      /\ \A o \in DOMAIN h.mem : e.h.mem[o] = h.mem[o]
      /\ \A o \in Props(e.h, T) : Fresh(h, S, e.h.mem[o].val)
      /\ e.val \in Value /\ Points(e.h, T, e.val) /\ Fresh(h, S, e.val)
  BY <1>4, <1>5 DEF Evaluates
<1>7. Packed(e.h) /\ 0 \in T /\ e.h.mem[0].kind = "obj" /\ x \in Texts
  BY <1>1, <1>6, Zenon DEF Grown, Texts
<1>8. /\ Grown(e.h, b.h) /\ b.h.scope = e.h.scope
      /\ e.h.mem[0].link \in Listed(b.h, 0)
      /\ \A o \in Props(e.h, T) : b.h.mem[o] = e.h.mem[o]
      /\ \E U : /\ T \subseteq U /\ Sound(b.h, U)
                /\ \A o \in Props(b.h, U) : o \in Props(e.h, T) \/ b.h.mem[o].val = e.val
  <2> DEFINE obj == 0
  <2>1. obj \in T /\ e.h.mem[obj].kind = "obj" /\ b = Bound(e.h, obj, x, e.val)
    BY <1>4, <1>7
  <2> HIDE DEF obj
  <2> QED
    BY <1>6, <1>7, <2>1, BoundKeeps
<1>9. PICK U : /\ T \subseteq U /\ Sound(b.h, U)
               /\ \A o \in Props(b.h, U) : o \in Props(e.h, T) \/ b.h.mem[o].val = e.val
  BY <1>8
<1>10. Grown(h, b.h)
  BY <1>1, <1>6, <1>8, GrownTwice
<1>11. \A o \in Props(b.h, U) : Fresh(h, S, b.h.mem[o].val)
  BY <1>6, <1>8, <1>9
<1>12. \A o \in Props(h, S) : o \in Props(e.h, T) /\ b.h.mem[o] = h.mem[o]
  BY <1>1, <1>6, <1>8 DEF Props
<1>13. h.mem[0].link \in Listed(b.h, 0) /\ S \subseteq U /\ b.h.scope = h.scope
  BY <1>1, <1>6, <1>8, <1>9
<1> QED
  BY <1>9, <1>10, <1>11, <1>12, <1>13, AddingKeeps

------------------------------------------------------------------------------
(* Every step                                                               *)

LEMMA InitHolds == Init => Holds(heap, frames)
<1> SUFFICES ASSUME Init PROVE Holds(heap, frames)
  OBVIOUS
<1> DEFINE e == Object(0)
           m == [o \in {0} |-> e]
           sc == [i \in 0 .. 0 |-> 0]
<1>1. heap = [mem |-> m, brk |-> 2, size |-> Size, scope |-> 0, cbs |-> <<>>] /\ frames = <<>>
  BY DEF Init
<1>2. e \in Entity /\ e.kind = "obj" /\ e.up = 0 /\ e.link = 0 /\ e.words = 2
  <2>1. e \in Entity
    BY EntitiesAre
  <2> QED
    BY <2>1, Zenon DEF Object
<1>3. m \in Memory /\ DOMAIN m = {0} /\ m[0] = e
  <2>1. {0} \in SUBSET Nat /\ m \in [{0} -> Entity]
    BY <1>2
  <2> HIDE DEF m
  <2>2. m \in Memory
    BY <2>1, MemoryIs
  <2> QED
    BY <2>2 DEF m
<1> HIDE DEF e, m
<1>4. heap \in Heap
  <2>1. Size \in Nat /\ <<>> \in Seq([caller : Nat, func : Nat])
    BY SizesAssumption
  <2> QED
    BY <1>1, <1>3, <2>1 DEF Heap
<1>5. heap.mem = m /\ heap.brk = 2 /\ heap.size = Size /\ heap.scope = 0 /\ heap.cbs = <<>>
  BY <1>1
<1>6. Packed(heap)
  BY <1>2, <1>3, <1>4, <1>5, SizesAssumption DEF Packed
<1>7. Sound(heap, {0}) /\ Props(heap, {0}) = {}
  <2>1. Props(heap, {0}) = {}
    BY <1>2, <1>3, <1>5 DEF Props
  <2> QED
    BY <1>2, <1>3, <1>5, <2>1 DEF Sound
<1>8. Len(frames) = 0 /\ frames \in Seq(Frame) /\ sc \in [0 .. 0 -> {0}] /\ sc[0] = 0
  BY <1>1
<1> HIDE DEF sc
<1>9. Nested(heap, frames, {0}, sc) /\ Opened(heap, frames, {0}, sc)
  <2>1. 1 .. 0 = {}
    OBVIOUS
  <2> QED
    BY <1>5, <1>8, <2>1 DEF Nested, Opened
<1> QED
  BY <1>6, <1>7, <1>8, <1>9 DEF HeapInv, Holds

(* Nothing changes.                                                         *)
LEMMA SameKeeps ==
    ASSUME NEW h, NEW fs, Holds(h, fs)
    PROVE  Keeps(h, h, fs)
BY DEF Keeps

(* Between evaluations nothing is open but, at most, a callback.            *)
LEMMA OnlyCallbacks ==
    ASSUME NEW S, NEW sc, HeapInv(heap, frames, S, sc), lev = 0
    PROVE  \A i \in 1 .. Len(frames) : Called(frames[i])
<1>1. frames \in Seq(Frame) /\ Len(frames) \in Nat
  BY InvParts
<1> SUFFICES ASSUME NEW i \in 1 .. Len(frames) PROVE Called(frames[i])
  OBVIOUS
<1>2. CASE InCallback
  <2>1. Len(frames) = 1
    BY <1>1, <1>2 DEF lev
  <2> QED
    BY <1>2, <2>1 DEF InCallback, Called
<1>3. CASE ~InCallback
  <2>1. Len(frames) = 0
    BY <1>1, <1>3 DEF lev
  <2> QED
    BY <2>1
<1> QED
  BY <1>2, <1>3

(* A statement begins; between evaluations, and in a callback, it collects. *)
LEMMA BeginCollects ==
    ASSUME Holds(heap, frames), Begin, lev = 0
    PROVE  Keeps(heap, heap', frames') /\ heap' = Relocated(heap)
<1>1. PICK S, sc : HeapInv(heap, frames, S, sc)
  BY DEF Holds
<1>2. frames' = frames /\ heap' = js_gc(heap)
  BY DEF Begin
<1>3. \A i \in 1 .. Len(frames) : Called(frames[i])
  BY <1>1, OnlyCallbacks
<1>4. /\ \E S2, sc2 : HeapInv(heap', frames, S2, sc2)
      /\ Declared(heap) \subseteq Declared(heap') /\ heap' = Relocated(heap)
  BY <1>1, <1>2, <1>3, CollectFacts
<1> QED
  BY <1>2, <1>4 DEF Keeps, Holds

LEMMA BeginKeeps ==
    ASSUME Holds(heap, frames), Begin
    PROVE  Keeps(heap, heap', frames')
<1>1. CASE lev = 0
  BY <1>1, BeginCollects
<1>2. CASE lev # 0
  <2>1. frames' = frames /\ heap' = heap
    BY <1>2 DEF Begin
  <2> QED
    BY <2>1, SameKeeps
<1> QED
  BY <1>1, <1>2

LEMMA DiscardKeeps ==
    ASSUME Holds(heap, frames), NEW k \in Kinds, Discard(k)
    PROVE  Keeps(heap, heap', frames')
<1>1. PICK S, sc : HeapInv(heap, frames, S, sc)
  BY DEF Holds
<1>2. heap' = Evaluated(heap, k).h /\ frames' = frames
  BY DEF Discard, Ends
<1> QED
  BY <1>1, <1>2, EvaluatedKeeps

LEMMA LetStepKeeps ==
    ASSUME Holds(heap, frames), NEW x \in Names, NEW k \in Kinds, Let(x, k), ~broken'
    PROVE  Keeps(heap, heap', frames')
<1>1. PICK S, sc : HeapInv(heap, frames, S, sc)
  BY DEF Holds
<1> DEFINE e == Evaluated(heap, k)
           b == Bound(e.h, e.h.scope, x, e.val)
<1>2. CASE heap' = e.h /\ frames' = frames
  BY <1>1, <1>2, EvaluatedKeeps
<1>3. CASE e.ok /\ heap' = b.h /\ frames' = frames /\ b.ok /\ ~Misplaced(e.val)
  BY <1>1, <1>3, LetKeeps
<1>4. \/ heap' = e.h /\ frames' = frames
      \/ e.ok /\ heap' = b.h /\ frames' = frames /\ b.ok /\ ~Misplaced(e.val)
  <2> HIDE DEF e, b
  <2> QED
    BY Zenon DEF Let, Ends, e, b
<1> QED
  BY <1>2, <1>3, <1>4

LEMMA AssignStepKeeps ==
    ASSUME Holds(heap, frames), NEW x \in Names, NEW field \in BOOLEAN, NEW k \in Kinds,
           Assign(x, field, k), ~broken'
    PROVE  Keeps(heap, heap', frames')
<1>1. PICK S, sc : HeapInv(heap, frames, S, sc)
  BY DEF Holds
<1> DEFINE e == Evaluated(heap, k)
           t == Target(heap, x, field)
           g == [e.h EXCEPT !.mem[t].val = e.val]
<1>2. CASE heap' = heap /\ frames' = frames
  BY <1>2, SameKeeps
<1>3. CASE heap' = e.h /\ frames' = frames
  BY <1>1, <1>3, EvaluatedKeeps
<1>4. CASE e.ok /\ t # 0 /\ heap' = g /\ frames' = frames /\ ~Misplaced(e.val)
  <2>1. Keeps(heap, g, frames)
    BY <1>1, <1>4, AssignKeeps
  <2> QED
    BY <1>4, <2>1
<1>5. \/ heap' = heap /\ frames' = frames
      \/ heap' = e.h /\ frames' = frames
      \/ e.ok /\ t # 0 /\ heap' = g /\ frames' = frames /\ ~Misplaced(e.val)
  BY Zenon DEF Assign, Ends
<1> QED
  BY <1>2, <1>3, <1>4, <1>5

(* Opens, for a block, a call of a function in place, or a callback.        *)
LEMMA OpensStepKeeps ==
    ASSUME Holds(heap, frames), NEW type \in {"block", "call", "callback"}, NEW code \in Nat,
           type = "callback" => frames = <<>>,
           type = "call" => code \in DOMAIN heap.mem /\ heap.mem[code].text = "code",
           Opens(type, code)
    PROVE  Keeps(heap, heap', frames')
<1>1. PICK S, sc : HeapInv(heap, frames, S, sc)
  BY DEF Holds
<1> DEFINE g == Scoped(heap)
           failed == g.brk = heap.brk
           f == [type |-> type, code |-> code, own |-> g.scope, brk1 |-> heap.brk, brk2 |-> g.brk]
           fs2 == Append([i \in DOMAIN frames |-> [frames[i] EXCEPT !.own = IF failed THEN 0 ELSE frames[i].own]], f)
<1>2. heap' = g /\ frames' = fs2
  BY DEF Opens
<1>3. type = "callback" => Len(frames) = 0
  OBVIOUS
<1>4. Entered(heap, frames, type, code, g, failed, f, fs2)
  BY DEF Entered, AddsFrame
<1> HIDE DEF g, failed, f, fs2
<1>5. Keeps(heap, g, fs2)
  BY <1>1, <1>3, <1>4, OpensKeeps
<1> QED
  BY <1>2, <1>5

LEMMA BlockKeeps ==
    ASSUME Holds(heap, frames), EnterBlock
    PROVE  Keeps(heap, heap', frames')
<1>1. Opens("block", 0)
  BY DEF EnterBlock
<1> QED
  BY <1>1, OpensStepKeeps

(* A function is called, or the call fails.                                 *)
LEMMA CallKeeps ==
    ASSUME Holds(heap, frames), NEW x \in Names, Call(x)
    PROVE  Keeps(heap, heap', frames')
<1>1. PICK S, sc : HeapInv(heap, frames, S, sc)
  BY DEF Holds
<1> DEFINE p == lookup(heap, x)
           v == heap.mem[p].val
<1>2. CASE p # 0 /\ v.type = "func" /\ heap.mem[v.off].text = "code" /\ Opens("call", v.off)
  <2>1. p \in Props(heap, S) /\ Sound(heap, S) /\ S \subseteq DOMAIN heap.mem /\ DOMAIN heap.mem \subseteq Nat
    BY <1>1, <1>2, LookupFacts, InvParts
  <2>2. v.off \in S
    BY <1>2, <2>1 DEF Sound, Points, is_mem_entity
  <2> HIDE DEF v
  <2> DEFINE code == v.off
  <2>3. code \in Nat /\ code \in DOMAIN heap.mem /\ heap.mem[code].text = "code" /\ Opens("call", code)
    BY <1>2, <2>1, <2>2
  <2> HIDE DEF code
  <2> QED
    BY <2>3, OpensStepKeeps
<1>3. CASE heap' = heap /\ frames' = frames
  BY <1>3, SameKeeps
<1>4. \/ p # 0 /\ v.type = "func" /\ heap.mem[v.off].text = "code" /\ Opens("call", v.off)
      \/ heap' = heap /\ frames' = frames
  BY Zenon DEF Call, Ends
<1> QED
  BY <1>2, <1>3, <1>4

LEMMA CallbackKeeps ==
    ASSUME Holds(heap, frames), Callback
    PROVE  Keeps(heap, heap', frames')
<1>1. PICK S, sc : HeapInv(heap, frames, S, sc)
  BY DEF Holds
<1>2. PICK i \in DOMAIN heap.cbs : Opens("callback", heap.cbs[i].func)
  BY DEF Callback
<1> DEFINE code == heap.cbs[i].func
<1>3. code \in Nat /\ frames = <<>> /\ Opens("callback", code)
  <2>1. Sound(heap, S) /\ S \subseteq DOMAIN heap.mem /\ DOMAIN heap.mem \subseteq Nat
    BY <1>1, InvParts
  <2> QED
    BY <1>2, <2>1 DEF Sound, Callback
<1> HIDE DEF code
<1> QED
  BY <1>3, OpensStepKeeps

LEMMA RegisterStepKeeps ==
    ASSUME Holds(heap, frames), NEW x \in Names, NEW y \in Names, Register(x, y), ~broken'
    PROVE  Keeps(heap, heap', frames')
<1>1. PICK S, sc : HeapInv(heap, frames, S, sc)
  BY DEF Holds
<1> DEFINE p == lookup(heap, x)
           q == lookup(heap, y)
           c == [caller |-> heap.mem[p].val.off, func |-> heap.mem[q].val.off]
           g == [heap EXCEPT !.size = heap.size - 3, !.cbs = Append(heap.cbs, c)]
<1>2. /\ p # 0 /\ q # 0 /\ heap.brk <= heap.size - 3
      /\ heap.mem[p].val.type = "func" /\ heap.mem[heap.mem[p].val.off].text = "ffi"
      /\ heap.mem[q].val.type = "func" /\ heap.mem[heap.mem[q].val.off].text = "code"
  BY DEF Register
<1>3. heap' = g /\ frames' = frames
  BY DEF Register, Ends
<1>4. /\ p \in Props(heap, S) /\ q \in Props(heap, S) /\ Sound(heap, S)
      /\ S \subseteq DOMAIN heap.mem /\ DOMAIN heap.mem \subseteq Nat
  BY <1>1, <1>2, LookupFacts, InvParts
<1>5. \A o \in Props(heap, S) : heap.mem[o].val.type = "func" =>
          heap.mem[o].val.off \in S /\ heap.mem[heap.mem[o].val.off].kind = "str"
  BY <1>4 DEF Sound, Points, is_mem_entity
<1>6. /\ c \in [caller : Nat, func : Nat]
      /\ c.caller \in S /\ heap.mem[c.caller].kind = "str" /\ heap.mem[c.caller].text = "ffi"
      /\ c.func \in S /\ heap.mem[c.func].kind = "str" /\ heap.mem[c.func].text = "code"
  BY <1>2, <1>4, <1>5
<1> HIDE DEF p, q, c
<1>7. Keeps(heap, g, frames)
  BY <1>1, <1>2, <1>6, RegisterKeeps, Zenon
<1> QED
  BY <1>3, <1>7

LEMMA ExitStepKeeps ==
    ASSUME Holds(heap, frames), Exit
    PROVE  Keeps(heap, heap', frames')
<1>1. PICK S, sc : HeapInv(heap, frames, S, sc)
  BY DEF Holds
<1> DEFINE f == frames[Len(frames)]
           r == [heap EXCEPT !.scope = heap.mem[heap.scope].up]
           g == IF f.type = "block" THEN FastGc(r, f) ELSE r
<1>2. frames # <<>> /\ heap' = g /\ frames' = SubSeq(frames, 1, Len(frames) - 1)
  BY DEF Exit
<1>3. Keeps(heap, g, SubSeq(frames, 1, Len(frames) - 1))
  BY <1>1, <1>2, ExitKeeps
<1> QED
  BY <1>2, <1>3

LEMMA ImportStepKeeps ==
    ASSUME Holds(heap, frames), NEW x \in Imported, Import(x), ~broken'
    PROVE  Keeps(heap, heap', frames')
<1>1. PICK S, sc : HeapInv(heap, frames, S, sc)
  BY DEF Holds
<1> DEFINE s == mkentity(heap, Signature)
           b == Bound(s.h, 0, x, [type |-> "func", off |-> s.off])
<1>2. s.ok /\ b.ok /\ heap' = b.h /\ frames' = frames
  BY DEF Import
<1>3. Keeps(heap, b.h, frames)
  BY <1>1, <1>2, ImportKeeps
<1> QED
  BY <1>2, <1>3

(* A step that leaves every reference at an entity keeps the invariant, and *)
(* every global variable.                                                   *)
LEMMA NextKeeps ==
    ASSUME Holds(heap, frames), Next, ~broken'
    PROVE  Keeps(heap, heap', frames')
<1>1. CASE Begin
  BY <1>1, BeginKeeps
<1>2. CASE Statement
  <2>1. ASSUME NEW k \in Kinds, Discard(k) PROVE Keeps(heap, heap', frames')
    BY <2>1, DiscardKeeps
  <2>2. ASSUME NEW x \in Names, NEW k \in Kinds, Let(x, k) PROVE Keeps(heap, heap', frames')
    BY <2>2, LetStepKeeps
  <2>3. ASSUME NEW x \in Names, NEW field \in BOOLEAN, NEW k \in Kinds, Assign(x, field, k)
        PROVE  Keeps(heap, heap', frames')
    BY <2>3, AssignStepKeeps
  <2>4. ASSUME EnterBlock PROVE Keeps(heap, heap', frames')
    BY <2>4, BlockKeeps
  <2>5. ASSUME NEW x \in Names, Call(x) PROVE Keeps(heap, heap', frames')
    BY <2>5, CallKeeps
  <2>6. ASSUME NEW x \in Names, NEW y \in Names, Register(x, y) PROVE Keeps(heap, heap', frames')
    BY <2>6, RegisterStepKeeps
  <2> QED
    BY <1>2, <2>1, <2>2, <2>3, <2>4, <2>5, <2>6 DEF Statement
<1>3. CASE Exit
  BY <1>3, ExitStepKeeps
<1>4. CASE Callback
  BY <1>4, CallbackKeeps
<1>5. ASSUME NEW x \in Imported, Import(x) PROVE Keeps(heap, heap', frames')
  BY <1>5, ImportStepKeeps
<1> QED
  BY <1>1, <1>2, <1>3, <1>4, <1>5 DEF Next

LEMMA StepsAre == ASSUME Next PROVE ~broken
BY DEF Next, Begin, Statement, Exit, Callback, Import

------------------------------------------------------------------------------
(* The theorems                                                             *)

(* While no reference that is reachable is wrong there is a set of entities *)
(* in use that leads nowhere else, and the scopes, the blocks and the calls  *)
(* are where they were when they were entered.                               *)
THEOREM IInvHolds == Spec => []IInv
<1>1. Init => IInv
  BY InitHolds DEF IInv, Holds
<1>2. IInv /\ [Next]_vars => IInv'
  <2> SUFFICES ASSUME IInv, [Next]_vars, ~broken' PROVE Holds(heap', frames')
    BY Zenon DEF IInv, Holds
  <2>1. CASE Next
    <3>1. Holds(heap, frames)
      BY <2>1, StepsAre DEF IInv, Holds
    <3> QED
      BY <2>1, <3>1, NextKeeps DEF Keeps
  <2>2. CASE UNCHANGED vars
    BY <2>2 DEF IInv, Holds, vars
  <2> QED
    BY <2>1, <2>2
<1> QED
  BY <1>1, <1>2, PTL DEF Spec

(* What the program can reach is an entity of the kind the reference says,   *)
(* property lists end, the memory is full of entities up to brk, and what a   *)
(* callback holds are functions: for js_lkp, js_gc and fficb of elk.c.        *)
THEOREM HeapSoundHolds == Spec => []HeapSound
<1>1. IInv => HeapSound
  <2> SUFFICES ASSUME NEW S, NEW sc, HeapInv(heap, frames, S, sc)
               PROVE  /\ \A o \in Unmarked(heap) : Lands(heap, o, {"obj", "prop", "str"}) /\ SoundEntity(heap, o)
                      /\ \A o \in DOMAIN heap.mem : o + heap.mem[o].words \in DOMAIN heap.mem \cup {heap.brk}
                      /\ heap.brk <= heap.size
                      /\ \A i \in DOMAIN heap.cbs : /\ heap.mem[heap.cbs[i].caller].text = "ffi"
                                                    /\ heap.mem[heap.cbs[i].func].text = "code"
    BY DEF IInv, HeapSound
  <2>1. /\ Packed(heap) /\ Sound(heap, S) /\ heap \in Heap /\ S \subseteq DOMAIN heap.mem
        /\ Unmarked(heap) \subseteq S
    BY InvParts, UnmarkedFacts
  <2>2. ASSUME NEW o \in Unmarked(heap)
        PROVE  Lands(heap, o, {"obj", "prop", "str"}) /\ SoundEntity(heap, o)
    <3> DEFINE e == heap.mem[o]
    <3>1. o \in S /\ o \in DOMAIN heap.mem /\ e.kind \in {"obj", "prop", "str"}
      BY <2>1, HeapIs
    <3>2. e.kind \in {"obj", "prop"} /\ e.link # 0 => Lands(heap, e.link, {"prop"})
      BY <2>1, <3>1 DEF Sound, Props, Lands
    <3>3. ASSUME e.kind = "prop"
          PROVE  /\ e.link < o /\ Lands(heap, e.key, {"str"})
                 /\ is_mem_entity(e.val) => Lands(heap, e.val.off, IF e.val.type = "obj" THEN {"obj"} ELSE {"str"})
      <4>1. o \in Props(heap, S)
        BY <3>1, <3>3 DEF Props
      <4>2. /\ e.link < o /\ e.key \in S /\ heap.mem[e.key].kind = "str" /\ Points(heap, S, e.val)
        BY <2>1, <4>1 DEF Sound
      <4> HIDE DEF e
      <4> QED
        BY <2>1, <4>2 DEF Points, Lands
    <3> QED
      BY <3>1, <3>2, <3>3 DEF SoundEntity, Lands
  <2> QED
    BY <2>1, <2>2 DEF Packed, Sound
<1> QED
  BY <1>1, IInvHolds, PTL

(* The current scope is that of the innermost block or call (js_mkscope and   *)
(* js_delscope), also when one of them did not fit.                           *)
THEOREM ScopesNestHolds == Spec => []ScopesNest
<1>1. IInv => ScopesNest
  <2> SUFFICES ASSUME NEW S, NEW sc, HeapInv(heap, frames, S, sc)
               PROVE  /\ frames = <<>> => heap.scope = 0
                      /\ frames # <<>> /\ frames[Len(frames)].type # "callback" =>
                             heap.scope = frames[Len(frames)].own
    BY DEF IInv, ScopesNest
  <2>1. Nested(heap, frames, S, sc) /\ frames \in Seq(Frame) /\ Len(frames) \in Nat
    BY InvParts
  <2>2. frames = <<>> => Len(frames) = 0
    OBVIOUS
  <2>3. frames # <<>> => Len(frames) \in 1 .. Len(frames)
    BY <2>1, EmptySeq
  <2> QED
    BY <2>1, <2>2, <2>3 DEF Nested, Called
<1> QED
  BY <1>1, IInvHolds, PTL

(* The code of a function that a statement calls is not moved or collected      *)
(* (call_js runs fn in place), whatever the function does to the variable it is  *)
(* in.  Callbacks are left out of CodeStays: their code does move.               *)
THEOREM CodeStaysHolds == Spec => []CodeStays
<1>1. IInv => CodeStays
  <2> SUFFICES ASSUME NEW S, NEW sc, HeapInv(heap, frames, S, sc), NEW i \in DOMAIN frames, frames[i].type = "call"
               PROVE  frames[i].code \in DOMAIN heap.mem /\ heap.mem[frames[i].code].text = "code"
    BY DEF IInv, CodeStays, InPlace
  <2>1. Opened(heap, frames, S, sc) /\ frames \in Seq(Frame)
    BY InvParts
  <2>2. i \in 1 .. Len(frames)
    BY <2>1, LenProperties
  <2>3. ~Called(frames[i])
    BY DEF Called
  <2> QED
    BY <2>1, <2>2, <2>3 DEF Opened
<1> QED
  BY <1>1, IInvHolds, PTL

(* No step undeclares a global variable: neither a collection, nor the fast   *)
(* collection at the end of a block.                                          *)
THEOREM GlobalsStayHolds == Spec => GlobalsStay
<1>1. IInv /\ [Next]_vars => [~broken' => Declared(heap) \subseteq Declared(heap')]_vars
  <2> SUFFICES ASSUME IInv, Next, ~broken' PROVE Declared(heap) \subseteq Declared(heap')
    OBVIOUS
  <2>1. Holds(heap, frames)
    BY StepsAre DEF IInv, Holds
  <2> QED
    BY <2>1, NextKeeps DEF Keeps
<1> QED
  BY <1>1, IInvHolds, PTL DEF Spec, GlobalsStay

(* A collection moves every entity that is reachable down by the words of     *)
(* the unreachable ones below it, and the references with it: js_gc, whose    *)
(* loop deletes one entity at a time and fixes up the others each time, does  *)
(* it for every memory that a program can get into.                           *)
THEOREM GcRelocatesHolds == Spec => GcRelocates
<1>1. IInv /\ [Next]_vars => [Begin /\ lev = 0 => heap' = Relocated(heap)]_vars
  <2> SUFFICES ASSUME IInv, Begin, lev = 0 PROVE heap' = Relocated(heap)
    OBVIOUS
  <2>1. Holds(heap, frames)
    BY DEF IInv, Holds, Begin
  <2> QED
    BY <2>1, BeginCollects
<1> QED
  BY <1>1, IInvHolds, PTL DEF Spec, GcRelocates
================================================================================

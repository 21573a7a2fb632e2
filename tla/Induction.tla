-------------------------------- MODULE Induction --------------------------------
(***************************************************************************)
(* Induction on the natural numbers, over sets: a property P of numbers is  *)
(* used as the set {n \in Nat : P(n)}.                                      *)
(***************************************************************************)
EXTENDS Integers, WellFoundedInduction, TLAPS

(* A set of natural numbers that is not empty has a least element.          *)
LEMMA LeastNatural ==
    ASSUME NEW T \in SUBSET Nat, T # {}
    PROVE  \E x \in T : \A y \in T : x <= y
<1> DEFINE R == OpToRel(<, Nat)
<1>1. IsWellFoundedOn(R, Nat)
  BY NatLessThanWellFounded
<1>2. \A x, y \in Nat : x < y => <<x, y>> \in R
  BY DEF OpToRel
<1> HIDE DEF R
<1>3. PICK x \in T : \A y \in T : ~ (<<y, x>> \in R)
  BY <1>1, WFMin
<1>4. ASSUME NEW y \in T PROVE x <= y
  <2>1. x \in Nat /\ y \in Nat
    OBVIOUS
  <2>2. ~ (y < x)
    BY <1>2, <1>3, <2>1
  <2> QED
    BY <2>1, <2>2
<1> QED
  BY <1>3, <1>4

(* A set that has 0 and with every number its successor has all of them.     *)
LEMMA SetInduction ==
    ASSUME NEW S, 0 \in S, \A n \in Nat : n \in S => n + 1 \in S
    PROVE  \A n \in Nat : n \in S
<1> DEFINE T == Nat \ S
<1>1. SUFFICES ASSUME T # {} PROVE FALSE
  OBVIOUS
<1>2. PICK x \in T : \A y \in T : x <= y
  BY <1>1, LeastNatural
<1>3. x # 0 /\ x - 1 \in Nat /\ x - 1 \notin T
  BY <1>2
<1> QED
  BY <1>2, <1>3

(* The same between two numbers.                                             *)
LEMMA IntervalInduction ==
    ASSUME NEW a \in Int, NEW b \in Int, NEW S, a \in S,
           \A n \in a .. b - 1 : n \in S => n + 1 \in S
    PROVE  \A n \in a .. b : n \in S
<1> DEFINE U == {k \in Nat : a + k <= b => a + k \in S}
<1>1. 0 \in U
  OBVIOUS
<1>2. ASSUME NEW k \in Nat, k \in U PROVE k + 1 \in U
  <2>1. CASE a + k + 1 <= b
    <3>1. a + k \in S /\ a + k \in a .. b - 1
      BY <1>2, <2>1
    <3>2. (a + k) + 1 \in S
      BY <3>1
    <3> QED
      BY <3>2
  <2>2. CASE ~(a + k + 1 <= b)
    BY <2>2
  <2> QED
    BY <2>1, <2>2
<1> HIDE DEF U
<1>3. \A k \in Nat : k \in U
  BY <1>1, <1>2, SetInduction
<1>4. ASSUME NEW n \in a .. b PROVE n \in S
  <2>1. n - a \in U /\ n - a \in Nat /\ a + (n - a) = n /\ n <= b
    BY <1>3
  <2> QED
    BY <2>1 DEF U
<1> QED
  BY <1>4

(* f goes from A by one step G after the other.                              *)
Goes(f, A, G) == f[0] = A /\ \A n \in Nat : f[n + 1] = G[f[n]]

LEMMA Iterate ==
    ASSUME NEW X, NEW A \in X, NEW G \in [X -> X]
    PROVE  \E f \in [Nat -> X] : Goes(f, A, G)
<1>1. \E f \in [Nat -> X] : f[0] = A /\ \A n \in Nat : f[n + 1] = G[f[n]]
  <2> DEFINE Up(g, n) == /\ g \in [0 .. n -> X] /\ g[0] = A
                         /\ \A k \in 0 .. n - 1 : g[k + 1] = G[g[k]]
             I == {n \in Nat : \E g : Up(g, n)}
  <2>1. 0 \in I
    <3> DEFINE g == [k \in 0 .. 0 |-> A]
    <3>1. Up(g, 0)
      OBVIOUS
    <3> QED
      BY <3>1
  <2>2. ASSUME NEW n \in Nat, n \in I PROVE n + 1 \in I
    <3>1. PICK g : Up(g, n)
      BY <2>2
    <3> DEFINE h == [k \in 0 .. n + 1 |-> IF k = n + 1 THEN G[g[n]] ELSE g[k]]
    <3>2. h \in [0 .. n + 1 -> X]
      BY <3>1
    <3>3. h[0] = A
      BY <3>1
    <3>4. \A k \in 0 .. n : h[k + 1] = G[h[k]]
      <4> TAKE k \in 0 .. n
      <4>1. h[k] = g[k]
        OBVIOUS
      <4>2. CASE k = n
        BY <4>1, <4>2
      <4>3. CASE k # n
        <5>1. h[k + 1] = g[k + 1] /\ k \in 0 .. n - 1
          BY <4>3
        <5> QED
          BY <3>1, <4>1, <5>1
      <4> QED
        BY <4>2, <4>3
    <3>5. Up(h, n + 1)
      BY <3>2, <3>3, <3>4
    <3> HIDE DEF Up, h
    <3>6. n + 1 \in Nat
      OBVIOUS
    <3> QED
      BY <3>5, <3>6
  <2> DEFINE g(n) == CHOOSE f : Up(f, n)
  <2>3. \A n \in Nat : Up(g(n), n)
    <3> HIDE DEF Up
    <3>1. \A n \in Nat : n \in I
      <4> HIDE DEF I
      <4> QED
        BY <2>1, <2>2, SetInduction
    <3> QED
      BY <3>1
  <2>4. ASSUME NEW n \in Nat PROVE g(n + 1)[n] = g(n)[n]
    <3> DEFINE p == g(n)
               q == g(n + 1)
               E == {k \in Nat : k <= n => p[k] = q[k]}
    <3>1. Up(p, n) /\ Up(q, n + 1)
      <4>1. n + 1 \in Nat
        OBVIOUS
      <4> HIDE DEF Up, g
      <4> QED
        BY <2>3, <4>1
    <3> HIDE DEF p, q
    <3>2. 0 \in E
      BY <3>1
    <3>3. \A k \in Nat : k \in E => k + 1 \in E
      <4> SUFFICES ASSUME NEW k \in Nat, k \in E, k + 1 <= n PROVE p[k + 1] = q[k + 1]
        OBVIOUS
      <4>1. k \in 0 .. n - 1 /\ k \in 0 .. (n + 1) - 1 /\ p[k] = q[k]
        OBVIOUS
      <4> QED
        BY <3>1, <4>1
    <3>4. n \in E
      <4> HIDE DEF E
      <4> QED
        BY <3>2, <3>3, SetInduction
    <3> QED
      BY <3>4 DEF p, q
  <2> DEFINE f == [n \in Nat |-> g(n)[n]]
  <2>5. f \in [Nat -> X] /\ f[0] = A
    <3> HIDE DEF g
    <3>1. \A n \in Nat : g(n) \in [0 .. n -> X] /\ g(n)[0] = A
      BY <2>3
    <3>2. \A n \in Nat : g(n)[n] \in X
      BY <3>1
    <3> QED
      BY <3>1, <3>2
  <2>6. ASSUME NEW n \in Nat PROVE f[n + 1] = G[f[n]]
    <3> HIDE DEF g
    <3>1. g(n + 1)[n + 1] = G[g(n + 1)[n]]
      <4>1. n \in 0 .. (n + 1) - 1
        OBVIOUS
      <4> QED
        BY <2>3, <4>1
    <3> QED
      BY <2>4, <3>1
  <2> QED
    BY <2>5, <2>6
<1> QED
  BY <1>1 DEF Goes
==================================================================================

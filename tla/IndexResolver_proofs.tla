-------------------------- MODULE IndexResolver_proofs --------------------------
(* Proofs about the search for the index of a value in IndexResolver, for   *)
(* every subject, every alphabet and every set of inputs the assumptions    *)
(* allow.                                                                   *)
EXTENDS IndexResolver, Induction, SequenceTheorems, CalcSubject, TLAPS

(* The invariant, in parts.                                                  *)

TypeInv ==
    /\ input \in Inputs
    /\ next \in Nat \ {0} /\ next - 1 <= Len(Shown(input))
    /\ comparisons \in [Pos -> Seq(Nat)]
    /\ pc \in {"step", "rerun", "verdict", "raised"}
    /\ inherited \in BOOLEAN
    /\ died \in {"no", "earlier", "now"}

Searching == pc \in {"rerun", "verdict"}
Single(e) == e.from = e.to

\* There is an index left to try, and every character searched for is one of
\* the value that was read.
SearchInv == Searching =>
    /\ next > 1
    /\ todo \in Seq(STRING) /\ todo # <<>>
    /\ cands # {} /\ cands \subseteq get_duplicate_indexes(input, todo[1])
    /\ \A j \in 1 .. Len(todo) : \E p \in Current.from .. Current.to : input[p] = todo[j]
    /\ Single(Current) => Len(todo) = 1

\* An answer in the file is a comparison that is recorded already, unless an
\* earlier trace has left it or the verifier has just given it.
Answer   == \E i \in Pos, m \in Nat : m \in Elements(comparisons[i]) /\ updated = <<i, input[i], m>>
OldFile  == updated \in {NoFile, Zeros, Truncated} \/ Answer
FileInv  == inherited \/ OldFile \/ (pc = "verdict" /\ died # "now" /\ updated = Want)

BaseInv == TypeInv /\ SearchInv /\ FileInv

\* As long as no verifier has died, the index of a single character is among
\* those left to try, the verifier confirms that one and no other, and it
\* never confirms an index for the characters of a longer value.
StillThere == Searching /\ died = "no" /\ Single(Current) => Current.from \in cands
Answered   == pc = "verdict" /\ died = "no" =>
    (updated = Want <=> Single(Current) /\ Current.from = Candidate)
Found == died = "no" /\ Len(input) > 1 =>
    \A k \in 1 .. next - 1 : LET e == Shown(input)[k] IN
        Single(e) /\ (k < next - 1 \/ pc = "step") => e.mid \in Elements(comparisons[e.from])

CalmInv == StillThere /\ Answered /\ Found

------------------------------------------------------------------------------
(* Operators                                                                *)

LEMMA LeastIs ==
    ASSUME NEW S \in SUBSET Nat, S # {}
    PROVE  Least(S) \in S /\ \A j \in S : Least(S) <= j
BY LeastNatural DEF Least

(* A value that is shown is a part of the input.                            *)
LEMMA ShownFacts ==
    ASSUME NEW t \in Inputs, NEW k \in 1 .. Len(Shown(t))
    PROVE  LET e == Shown(t)[k] IN
           /\ e.from \in 1 .. Len(t) /\ e.to \in 1 .. Len(t) /\ e.from <= e.to
           /\ e.mid \in Nat /\ k \in DOMAIN Shown(t)
<1>1. Shown(t) \in Seq([from : 1 .. Len(t), to : 1 .. Len(t), mid : Nat, at : Nat])
  BY ShownAssumption
<1>2. k \in DOMAIN Shown(t)
  BY <1>1, LenProperties
<1>3. Shown(t)[k] \in [from : 1 .. Len(t), to : 1 .. Len(t), mid : Nat, at : Nat]
  BY <1>1, ElementOfSeq
<1> QED
  BY <1>2, <1>3, ShownAssumption

LEMMA InputFacts ==
    ASSUME NEW t \in Inputs
    PROVE  /\ t \in Seq(STRING) /\ Len(t) \in Nat /\ Len(t) <= MaxLen /\ MaxLen \in Nat
           /\ DOMAIN t = 1 .. Len(t) /\ 1 .. Len(t) \subseteq Pos /\ Len(Shown(t)) \in Nat
<1>1. t \in Seq(STRING) /\ Len(t) <= MaxLen /\ MaxLen \in Nat
  BY InputsAssumption
<1>2. Len(t) \in Nat /\ DOMAIN t = 1 .. Len(t)
  BY <1>1, LenProperties
<1>3. Len(Shown(t)) \in Nat
  BY ShownAssumption, LenProperties
<1> QED
  BY <1>1, <1>2, <1>3 DEF Pos

(* A mutation replaces the later duplicates and nothing else.               *)
LEMMA MutatedFacts ==
    ASSUME NEW t, NEW D, NEW i, NEW s \in Mutated(t, D, i), NEW p \in DOMAIN t
    PROVE  /\ p \in {j \in D : j > i} => s[p] # t[i]
           /\ p \notin {j \in D : j > i} => s[p] = t[p]
<1> DEFINE later == {j \in D : j > i}
<1>1. PICK f \in [later -> get_alternative_chars(t[i])] :
          s = [q \in DOMAIN t |-> IF q \in later THEN f[q] ELSE t[q]]
  BY DEF Mutated
<1>2. s[p] = IF p \in later THEN f[p] ELSE t[p]
  BY <1>1
<1>3. p \in later => f[p] \in get_alternative_chars(t[i])
  BY <1>1
<1>4. t[i] \notin get_alternative_chars(t[i])
  BY DEF get_alternative_chars
<1> QED
  BY <1>2, <1>3, <1>4

------------------------------------------------------------------------------
(* The search                                                               *)

(* What the index that is tried is, and whom it is tried for.                *)
LEMMA CandidateFacts ==
    ASSUME TypeInv, SearchInv, Searching
    PROVE  /\ Candidate \in cands /\ \A j \in cands : Candidate <= j
           /\ Candidate \in 1 .. Len(input) /\ Candidate \in Pos
           /\ cands \in SUBSET (1 .. Len(input))
           /\ input[Candidate] = todo[1] /\ Len(todo) \in Nat \ {0}
           /\ next - 1 \in 1 .. Len(Shown(input)) /\ Current = Shown(input)[next - 1]
           /\ Current.mid \in Nat
           /\ \E p \in Current.from .. Current.to : input[p] = input[Candidate]
<1>1. cands # {} /\ cands \subseteq get_duplicate_indexes(input, todo[1]) /\ next > 1
      /\ todo \in Seq(STRING) /\ todo # <<>>
      /\ \A j \in 1 .. Len(todo) : \E p \in Current.from .. Current.to : input[p] = todo[j]
  BY DEF SearchInv
<1>2. Len(todo) \in Nat \ {0}
  BY <1>1, EmptySeq
<1>3. input \in Inputs /\ Len(input) \in Nat /\ 1 .. Len(input) \subseteq Pos
  BY InputFacts DEF TypeInv
<1>4. cands \subseteq 1 .. Len(input) /\ \A j \in cands : input[j] = todo[1]
  BY <1>1 DEF get_duplicate_indexes
<1>5. Candidate \in cands /\ \A j \in cands : Candidate <= j
  BY <1>1, <1>3, <1>4, LeastIs DEF Candidate
<1>6. next - 1 \in 1 .. Len(Shown(input)) /\ Len(Shown(input)) \in Nat
  BY <1>1, <1>3, InputFacts DEF TypeInv
<1>7. Current.mid \in Nat
  BY <1>3, <1>6, ShownFacts DEF Current
<1>8. 1 \in 1 .. Len(todo)
  BY <1>2
<1> QED
  BY <1>1, <1>2, <1>3, <1>4, <1>5, <1>6, <1>7, <1>8 DEF Current

(* What is asked for is no placeholder.                                     *)
LEMMA WantIsAnswer ==
    ASSUME TypeInv, SearchInv, Searching
    PROVE  Want # Zeros /\ Want # NoFile /\ Want # Truncated
<1>1. Candidate \in Nat /\ Candidate # 0
  BY CandidateFacts, InputFacts DEF TypeInv
<1>2. Want[1] = Candidate /\ Zeros[1] = 0
  BY DEF Want, Zeros
<1>3. Want # Zeros
  BY <1>1, <1>2
<1>4. Len(Want) = 3 /\ Len(NoFile) = 0 /\ Len(Truncated) = 1
  BY DEF Want, NoFile, Truncated
<1> QED
  BY <1>3, <1>4

(* The characters of a value are placed one after the other.                 *)
LEMMA PlaceFacts ==
    ASSUME NEW chars, Place(chars)
    PROVE  /\ todo' = chars
           /\ chars = <<>> => pc' = "step"
           /\ chars # <<>> => pc' = "rerun" /\ cands' = get_duplicate_indexes(input, chars[1])
BY DEF Place

(* A search that starts, or goes on, with characters of the value satisfies  *)
(* SearchInv.                                                               *)
LEMMA PlaceSearch ==
    ASSUME NEW chars \in Seq(STRING), Place(chars), input \in Inputs, input' = input,
           next' > 1, next' - 1 \in 1 .. Len(Shown(input)),
           NEW e, Current' = e,
           \A j \in 1 .. Len(chars) : \E p \in e.from .. e.to : input[p] = chars[j],
           Single(e) => Len(chars) \in {0, 1}
    PROVE  SearchInv'
<1> SUFFICES ASSUME chars # <<>> PROVE SearchInv'
  BY PlaceFacts DEF SearchInv, Searching
<1>0. Len(chars) \in Nat \ {0}
  BY EmptySeq
<1>1. todo' = chars /\ cands' = get_duplicate_indexes(input, chars[1])
  BY PlaceFacts
<1>4. e = Shown(input)[next' - 1]
  BY DEF Current
<1>5. e.from \in 1 .. Len(input) /\ e.to \in 1 .. Len(input) /\ Len(input) \in Nat
  BY <1>4, ShownFacts, InputFacts
<1>6. PICK p \in e.from .. e.to : input[p] = chars[1]
  BY <1>0
<1>7. p \in get_duplicate_indexes(input, chars[1])
  BY <1>5, <1>6 DEF get_duplicate_indexes
<1>8. cands' # {} /\ cands' \subseteq get_duplicate_indexes(input', todo'[1])
  BY <1>1, <1>7
<1>9. ASSUME Single(e) PROVE Len(todo') = 1
  <2>1. Len(chars) = 1
    BY <1>0, <1>9, Zenon
  <2> QED
    BY <1>1, <2>1
<1>10. \A j \in 1 .. Len(todo') : \E q \in e.from .. e.to : input'[q] = todo'[j]
  BY <1>1
<1> QED
  BY <1>1, <1>8, <1>9, <1>10 DEF SearchInv, Single

(* TypeInv and SearchInv hold on their own.                                  *)
LEMMA SearchInit == Init => TypeInv /\ SearchInv
<1> SUFFICES ASSUME Init PROVE TypeInv /\ SearchInv
  OBVIOUS
<1>1. input \in Inputs /\ next = 1 /\ Len(Shown(input)) \in Nat
  BY InputFacts DEF Init
<1>2. comparisons \in [Pos -> Seq(Nat)]
  BY EmptySeq DEF Init
<1> QED
  BY <1>1, <1>2 DEF Init, TypeInv, SearchInv, Searching

LEMMA AppendType ==
    ASSUME comparisons \in [Pos -> Seq(Nat)], NEW S, NEW m \in Nat, comparisons' = Append1(comparisons, S, m)
    PROVE  comparisons' \in [Pos -> Seq(Nat)]
<1>1. \A i \in Pos : comparisons[i] \in Seq(Nat) /\ Append(comparisons[i], m) \in Seq(Nat)
  BY AppendProperties
<1> QED
  BY <1>1 DEF Append1

(* What is appended is an element, and nothing else is new.                  *)
LEMMA AppendElements ==
    ASSUME NEW S, NEW q \in Seq(S), NEW v \in S
    PROVE  Append(q, v) \in Seq(S) /\ Elements(Append(q, v)) = Elements(q) \cup {v}
<1>1. /\ Append(q, v) \in Seq(S) /\ Len(Append(q, v)) = Len(q) + 1 /\ Len(q) \in Nat
      /\ \A i \in 1 .. Len(q) : Append(q, v)[i] = q[i]
      /\ Append(q, v)[Len(q) + 1] = v
  BY AppendProperties, LenProperties
<1>2. DOMAIN q = 1 .. Len(q) /\ DOMAIN Append(q, v) = 1 .. Len(q) + 1
  BY <1>1, LenProperties
<1>3. \A i \in 1 .. Len(q) + 1 : i \in 1 .. Len(q) \/ i = Len(q) + 1
  BY <1>1
<1>4. Len(q) + 1 \in 1 .. Len(q) + 1 /\ \A i \in 1 .. Len(q) : i \in 1 .. Len(q) + 1
  BY <1>1
<1> DEFINE a == Append(q, v)
<1>5. /\ \A i \in DOMAIN a : a[i] = v \/ \E j \in DOMAIN q : a[i] = q[j]
      /\ \E i \in DOMAIN a : a[i] = v
      /\ \A j \in DOMAIN q : \E i \in DOMAIN a : a[i] = q[j]
  BY <1>1, <1>2, <1>3, <1>4
<1> HIDE DEF a
<1>6. Elements(a) = Elements(q) \cup {v}
  BY <1>5 DEF Elements
<1> QED
  BY <1>1, <1>6 DEF a

(* What is recorded stays recorded.                                         *)
LEMMA AppendKeeps ==
    ASSUME comparisons \in [Pos -> Seq(Nat)], NEW S, NEW m \in Nat, comparisons' = Append1(comparisons, S, m)
    PROVE  \A i \in Pos : /\ Elements(comparisons[i]) \subseteq Elements(comparisons'[i])
                          /\ i \in S => m \in Elements(comparisons'[i])
<1> SUFFICES ASSUME NEW i \in Pos
             PROVE  /\ Elements(comparisons[i]) \subseteq Elements(comparisons'[i])
                    /\ i \in S => m \in Elements(comparisons'[i])
  OBVIOUS
<1>1. comparisons'[i] = IF i \in S THEN Append(comparisons[i], m) ELSE comparisons[i]
  BY DEF Append1
<1>2. Elements(Append(comparisons[i], m)) = Elements(comparisons[i]) \cup {m}
  BY AppendElements
<1> QED
  BY <1>1, <1>2

LEMMA MoreThanOne == \A n \in Nat : n > 1 => n # 1
OBVIOUS

(* A value that is shown is a sequence of characters of the input.           *)
LEMMA ValueFacts ==
    ASSUME NEW t \in Inputs, NEW k \in 1 .. Len(Shown(t)), NEW e, e = Shown(t)[k],
           NEW v, v = SubSeq(t, e.from, e.to)
    PROVE  /\ v \in Seq(STRING) /\ v # <<>> /\ Len(v) = e.to - e.from + 1
           /\ \A j \in 1 .. Len(v) : v[j] = t[e.from + j - 1] /\ e.from + j - 1 \in e.from .. e.to
           /\ Single(e) => Len(v) \in {0, 1}
<1>1. /\ e.from \in 1 .. Len(t) /\ e.to \in 1 .. Len(t) /\ e.from <= e.to
      /\ Len(t) \in Nat /\ t \in Seq(STRING)
  BY ShownFacts, InputFacts
<1>2. e.from \in Int /\ e.to \in Int
  BY <1>1
<1>3. ASSUME NEW i \in e.from .. e.to PROVE t[i] \in STRING
  <2>1. i \in 1 .. Len(t)
    BY <1>1
  <2> QED
    BY <1>1, <2>1, ElementOfSeq
<1>4. /\ SubSeq(t, e.from, e.to) \in Seq(STRING)
      /\ Len(SubSeq(t, e.from, e.to)) = IF e.from <= e.to THEN e.to - e.from + 1 ELSE 0
      /\ \A j \in 1 .. e.to - e.from + 1 : SubSeq(t, e.from, e.to)[j] = t[e.from + j - 1]
  <2> DEFINE a == e.from
             b == e.to
  <2>1. a \in Int /\ b \in Int /\ \A i \in a .. b : t[i] \in STRING
    BY <1>2, <1>3
  <2> HIDE DEF a, b
  <2>2. /\ SubSeq(t, a, b) \in Seq(STRING)
        /\ Len(SubSeq(t, a, b)) = IF a <= b THEN b - a + 1 ELSE 0
        /\ \A j \in 1 .. b - a + 1 : SubSeq(t, a, b)[j] = t[a + j - 1]
    BY <2>1, SubSeqProperties
  <2> QED
    BY <2>2 DEF a, b
<1>5. v \in Seq(STRING) /\ Len(v) = e.to - e.from + 1
  BY <1>1, <1>4
<1>6. v # <<>>
  <2>1. Len(v) # 0
    BY <1>1, <1>5
  <2> QED
    BY <2>1, EmptySeq
<1>7. ASSUME NEW j \in 1 .. Len(v)
      PROVE  v[j] = t[e.from + j - 1] /\ e.from + j - 1 \in e.from .. e.to
  <2>1. j \in 1 .. e.to - e.from + 1
    BY <1>5
  <2>2. e.from + j - 1 \in e.from .. e.to
    BY <1>2, <2>1
  <2> QED
    BY <1>4, <2>1, <2>2
<1>8. Single(e) => Len(v) \in {0, 1}
  BY <1>1, <1>5 DEF Single
<1> QED
  BY <1>5, <1>6, <1>7, <1>8

(* The ways of ReadValue.                                                    *)
Read  == Shown(input)[next]
Value == SubSeq(input, Read.from, Read.to)
Span  == Find(input, Value) .. Find(input, Value) + Len(Value) - 1

LEMMA ReadValueFacts ==
    ASSUME ReadValue
    PROVE  /\ pc = "step" /\ next <= Len(Shown(input)) /\ next' = next + 1
           /\ UNCHANGED <<input, updated, inherited, died>>
           /\ \/ Value = input /\ Place(<<>>) /\ UNCHANGED comparisons
              \/ /\ Value # input /\ CountedOnce(input, Value) /\ Len(Value) > 1 /\ Place(<<>>)
                 /\ \E S \in SUBSET Span : comparisons' = Append1(comparisons, S, Read.mid)
              \/ /\ Value # input /\ CountedOnce(input, Value) /\ Len(Value) = 1 /\ Place(<<>>)
                 /\ comparisons' = Append1(comparisons, Span, Read.mid)
              \/ Value # input /\ ~CountedOnce(input, Value) /\ Place(Value) /\ UNCHANGED comparisons
<1> DEFINE N == {i \in Span : Read.mid \notin Elements(comparisons[i])}
<1>1. N \in SUBSET Span
  OBVIOUS
<1>2. \/ Value = input /\ Place(<<>>) /\ UNCHANGED comparisons
      \/ /\ Value # input /\ CountedOnce(input, Value) /\ Len(Value) > 1 /\ Place(<<>>)
         /\ comparisons' = Append1(comparisons, N, Read.mid)
      \/ /\ Value # input /\ CountedOnce(input, Value) /\ Len(Value) = 1 /\ Place(<<>>)
         /\ comparisons' = Append1(comparisons, Span, Read.mid)
      \/ Value # input /\ ~CountedOnce(input, Value) /\ Place(Value) /\ UNCHANGED comparisons
  BY DEF ReadValue, Read, Value, Span
<1> HIDE DEF N
<1> QED
  BY <1>1, <1>2 DEF ReadValue

(* The ways of Verdict: the answer is taken, the search goes on with the     *)
(* next index, the search of this character ends, or jsonpickle raises.      *)
LEMMA VerdictFacts ==
    ASSUME Verdict
    PROVE  /\ pc = "verdict" /\ UNCHANGED <<input, next, updated, inherited, died>>
           /\ \/ /\ updated = Want /\ Want[3] \notin Elements(comparisons[Want[1]])
                 /\ comparisons' = Append1(comparisons, {Want[1]}, Want[3])
                 /\ Place(Tail(todo))
              \/ /\ updated = Want /\ Want[3] \in Elements(comparisons[Want[1]])
                 /\ Place(Tail(todo)) /\ UNCHANGED comparisons
              \/ /\ updated # Want /\ cands # {Candidate}
                 /\ cands' = cands \ {Candidate} /\ todo' = todo /\ pc' = "rerun" /\ UNCHANGED comparisons
              \/ updated # Want /\ cands = {Candidate} /\ Place(Tail(todo)) /\ UNCHANGED comparisons
              \/ updated = Truncated /\ pc' = "raised" /\ UNCHANGED <<todo, cands, comparisons>>
BY DEF Verdict, TryNext

(* What is appended is a method, for an index of the input.                  *)
LEMMA ReadFacts ==
    ASSUME TypeInv, ReadValue
    PROVE  /\ next \in 1 .. Len(Shown(input)) /\ Read.mid \in Nat
           /\ Value \in Seq(STRING) /\ Value # <<>> /\ Len(Value) = Read.to - Read.from + 1
           /\ \A j \in 1 .. Len(Value) :
                  Value[j] = input[Read.from + j - 1] /\ Read.from + j - 1 \in Read.from .. Read.to
           /\ Single(Read) => Len(Value) = 1
<1>1. next \in 1 .. Len(Shown(input)) /\ input \in Inputs
  BY ReadValueFacts, InputFacts DEF TypeInv
<1>2. /\ Read.mid \in Nat
      /\ Value \in Seq(STRING) /\ Value # <<>> /\ Len(Value) = Read.to - Read.from + 1
      /\ \A j \in 1 .. Len(Value) :
             Value[j] = input[Read.from + j - 1] /\ Read.from + j - 1 \in Read.from .. Read.to
      /\ Single(Read) => Len(Value) \in {0, 1}
  <2>1. Read.mid \in Nat
    BY <1>1, ShownFacts DEF Read
  <2>2. \A t \in Inputs : \A k \in 1 .. Len(Shown(t)) :
            LET e == Shown(t)[k]
                v == SubSeq(t, e.from, e.to)
            IN  /\ v \in Seq(STRING) /\ v # <<>> /\ Len(v) = e.to - e.from + 1
                /\ \A j \in 1 .. Len(v) : v[j] = t[e.from + j - 1] /\ e.from + j - 1 \in e.from .. e.to
                /\ Single(e) => Len(v) \in {0, 1}
    BY ValueFacts, Zenon
  <2> QED
    BY <1>1, <2>1, <2>2, Zenon DEF Read, Value
<1>3. Single(Read) => Len(Value) = 1
  <2>1. Len(Value) # 0
    BY <1>2, EmptySeq
  <2> QED
    BY <1>2, <2>1, Zenon
<1> QED
  BY <1>1, <1>2, <1>3, Zenon

LEMMA TypeNext ==
    ASSUME TypeInv, SearchInv, [Next]_vars
    PROVE  /\ TypeInv'
           /\ \A i \in Pos : Elements(comparisons[i]) \subseteq Elements(comparisons'[i])
<1> DEFINE Grow == /\ comparisons' \in [Pos -> Seq(Nat)]
                   /\ \A i \in Pos : Elements(comparisons[i]) \subseteq Elements(comparisons'[i])
<1>1. comparisons \in [Pos -> Seq(Nat)] /\ input \in Inputs /\ Len(Shown(input)) \in Nat
      /\ next \in Nat \ {0} /\ died \in {"no", "earlier", "now"} /\ inherited \in BOOLEAN
  BY InputFacts DEF TypeInv
<1>2. ASSUME UNCHANGED comparisons PROVE Grow
  BY <1>1, <1>2
<1>3. ASSUME NEW S, NEW m \in Nat, comparisons' = Append1(comparisons, S, m) PROVE Grow
  BY <1>1, <1>3, AppendType, AppendKeeps
<1>4. CASE ReadValue
  <2>1. Grow
    <3>1. Read.mid \in Nat
      BY <1>4, ReadFacts
    <3> QED
      BY <1>2, <1>3, <1>4, <3>1, ReadValueFacts
  <2>2. pc' \in {"step", "rerun", "verdict", "raised"}
    BY <1>4, ReadValueFacts, PlaceFacts
  <2>3. /\ next' \in Nat \ {0} /\ next' - 1 <= Len(Shown(input))
        /\ input' = input /\ died' = died /\ inherited' = inherited
    BY <1>1, <1>4, ReadValueFacts
  <2> HIDE DEF Grow
  <2> QED
    BY <1>1, <2>1, <2>2, <2>3 DEF TypeInv, Grow
<1>5. CASE Rerun
  BY <1>5 DEF Rerun, TypeInv
<1>6. CASE RerunDies
  BY <1>6 DEF RerunDies, TypeInv
<1>7. CASE Verdict
  <2>1. Grow
    <3>1. Searching
      BY <1>7, VerdictFacts DEF Searching
    <3>2. Want[3] \in Nat
      BY <3>1, CandidateFacts DEF Want
    <3> QED
      BY <1>2, <1>3, <1>7, <3>2, VerdictFacts
  <2>2. pc' \in {"step", "rerun", "verdict", "raised"}
    BY <1>7, VerdictFacts, PlaceFacts
  <2> HIDE DEF Grow
  <2> QED
    BY <1>1, <1>7, <2>1, <2>2, VerdictFacts DEF TypeInv, Grow
<1>8. CASE UNCHANGED vars
  BY <1>8 DEF vars, TypeInv
<1> QED
  BY <1>4, <1>5, <1>6, <1>7, <1>8 DEF Next

LEMMA SearchNext ==
    ASSUME TypeInv, SearchInv, [Next]_vars
    PROVE  SearchInv'
<1>1. input \in Inputs /\ next \in Nat \ {0} /\ Len(Shown(input)) \in Nat
      /\ next - 1 <= Len(Shown(input))
  BY InputFacts DEF TypeInv
<1>2. CASE ReadValue
  <2>1. /\ next' = next + 1 /\ input' = input /\ next \in 1 .. Len(Shown(input))
        /\ Place(<<>>) \/ Place(Value)
    BY <1>2, ReadValueFacts, ReadFacts
  <2>2. next' > 1 /\ next' - 1 = next /\ next' - 1 \in 1 .. Len(Shown(input))
    BY <1>1, <2>1
  <2>3. Current' = Read
    BY <2>1, <2>2 DEF Read, Current
  <2>4. CASE Place(<<>>)
    <3>1. <<>> \in Seq(STRING) /\ Len(<<>>) = 0
      BY EmptySeq
    <3>2. /\ \A j \in 1 .. Len(<<>>) : \E p \in Read.from .. Read.to : input[p] = <<>>[j]
          /\ Single(Read) => Len(<<>>) \in {0, 1}
      BY <3>1
    <3> QED
      BY <1>1, <2>1, <2>2, <2>3, <2>4, <3>1, <3>2, PlaceSearch
  <2>5. CASE Place(Value)
    <3>1. /\ Value \in Seq(STRING)
          /\ Single(Read) => Len(Value) \in {0, 1}
          /\ \A j \in 1 .. Len(Value) : \E p \in Read.from .. Read.to : input[p] = Value[j]
      BY <1>2, ReadFacts
    <3> QED
      BY <1>1, <2>1, <2>2, <2>3, <2>5, <3>1, PlaceSearch
  <2> QED
    BY <2>1, <2>4, <2>5
<1>3. CASE Rerun
  BY <1>3 DEF Rerun, SearchInv, Searching, Current
<1>4. CASE RerunDies
  BY <1>4 DEF RerunDies, SearchInv, Searching, Current
<1>5. CASE Verdict
  <2>1. Searching /\ input' = input /\ next' = next
    BY <1>5, VerdictFacts DEF Searching
  <2>2. /\ next > 1 /\ todo \in Seq(STRING) /\ todo # <<>>
        /\ cands \subseteq get_duplicate_indexes(input, todo[1])
        /\ \A j \in 1 .. Len(todo) : \E p \in Current.from .. Current.to : input[p] = todo[j]
        /\ Single(Current) => Len(todo) = 1
    BY <2>1 DEF SearchInv
  <2>3. CASE Place(Tail(todo))
    <3>1. /\ Tail(todo) \in Seq(STRING) /\ Len(Tail(todo)) = Len(todo) - 1 /\ Len(todo) \in Nat
          /\ \A j \in 1 .. Len(Tail(todo)) : Tail(todo)[j] = todo[j + 1]
      BY <2>2, HeadTailProperties, LenProperties
    <3>2. ASSUME NEW j \in 1 .. Len(Tail(todo))
          PROVE  \E p \in Current.from .. Current.to : input[p] = Tail(todo)[j]
      <4>1. j + 1 \in 1 .. Len(todo)
        BY <3>1
      <4> QED
        BY <2>2, <3>1, <4>1
    <3>3. Single(Current) => Len(Tail(todo)) \in {0, 1}
      BY <2>2, <3>1
    <3>4. Current' = Current
      BY <2>1 DEF Current
    <3>5. next' > 1 /\ next' - 1 \in 1 .. Len(Shown(input))
      BY <1>1, <2>1, <2>2
    <3> QED
      BY <1>1, <2>1, <2>3, <3>1, <3>2, <3>3, <3>4, <3>5, PlaceSearch
  <2>4. CASE cands # {Candidate} /\ cands' = cands \ {Candidate} /\ todo' = todo /\ pc' = "rerun"
    <3>1. cands' # {} /\ cands' \subseteq cands
      BY <2>1, <2>4, CandidateFacts
    <3> QED
      BY <2>1, <2>2, <2>4, <3>1 DEF SearchInv, Current
  <2>5. CASE pc' = "raised"
    BY <2>5 DEF SearchInv, Searching
  <2> QED
    BY <1>5, <2>3, <2>4, <2>5, VerdictFacts
<1>6. CASE UNCHANGED vars
  BY <1>6 DEF vars, SearchInv, Searching, Current
<1> QED
  BY <1>2, <1>3, <1>4, <1>5, <1>6 DEF Next

------------------------------------------------------------------------------
(* The file                                                                 *)

LEMMA WantParts == Want[1] = Candidate /\ Want[2] = input[Candidate] /\ Want[3] = Current.mid
BY DEF Want

(* What a verifier that does not die leaves in the file.                     *)
LEMMA RerunFacts ==
    ASSUME Rerun
    PROVE  /\ pc = "rerun" /\ pc' = "verdict" /\ UNCHANGED <<input, next, todo, cands, comparisons>>
           /\ died' = IF died = "no" THEN "no" ELSE "earlier"
           /\ \E s \in Mutations : updated' = Verified(s, Want, Current.at, updated)
           /\ updated' \in {Want, Zeros} \/ UNCHANGED <<updated, inherited>>
           /\ inherited' \in {inherited, FALSE}
<1>1. PICK s \in Mutations : /\ updated' = Verified(s, Want, Current.at, updated)
                             /\ inherited' = IF SingleChars(s) = {} THEN inherited ELSE FALSE
  BY DEF Rerun
<1>2. updated' \in {Want, Zeros} \/ (updated' = updated /\ SingleChars(s) = {})
  BY <1>1 DEF Verified
<1>3. inherited' \in {inherited, FALSE} /\ (SingleChars(s) = {} => inherited' = inherited)
  BY <1>1
<1> QED
  BY <1>1, <1>2, <1>3 DEF Rerun

(* An answer of an earlier search that is read again is a comparison that is *)
(* recorded already.                                                        *)
LEMMA OldAnswerIsKnown ==
    ASSUME TypeInv, SearchInv, Searching, OldFile, updated = Want
    PROVE  Want[3] \in Elements(comparisons[Want[1]])
<1>1. Answer
  BY WantIsAnswer DEF OldFile
<1>2. PICK i \in Pos, m \in Nat : m \in Elements(comparisons[i]) /\ Want = <<i, input[i], m>>
  BY <1>1 DEF Answer
<1>3. Want[1] = i /\ Want[3] = m
  BY <1>2
<1> QED
  BY <1>2, <1>3

LEMMA KnownAnswerIsOld ==
    ASSUME TypeInv, SearchInv, Searching, updated' = Want, input' = input,
           Current.mid \in Elements(comparisons'[Candidate])
    PROVE  OldFile'
<1>1. Candidate \in Pos /\ Current.mid \in Nat
  BY CandidateFacts
<1>2. updated' = <<Candidate, input'[Candidate], Current.mid>>
  BY DEF Want
<1> QED
  BY <1>1, <1>2 DEF OldFile, Answer

LEMMA OldFileStays ==
    ASSUME OldFile, input' = input, updated' \in {updated, Zeros, Truncated},
           \A i \in Pos : Elements(comparisons[i]) \subseteq Elements(comparisons'[i])
    PROVE  OldFile'
<1>1. CASE updated' \in {Zeros, Truncated}
  BY <1>1 DEF OldFile
<1>2. CASE updated' = updated /\ updated \in {NoFile, Zeros, Truncated}
  BY <1>2 DEF OldFile
<1>3. CASE updated' = updated /\ Answer
  <2>1. PICK i \in Pos, m \in Nat : m \in Elements(comparisons[i]) /\ updated = <<i, input[i], m>>
    BY <1>3 DEF Answer
  <2>2. m \in Elements(comparisons'[i]) /\ updated' = <<i, input'[i], m>>
    BY <1>3, <2>1
  <2> QED
    BY <2>2 DEF OldFile, Answer
<1> QED
  BY <1>1, <1>2, <1>3 DEF OldFile

(* Only a verdict adds what the file says.                                  *)
LEMMA FileNext ==
    ASSUME BaseInv, [Next]_vars
    PROVE  FileInv'
<1>1. TypeInv /\ SearchInv /\ FileInv
      /\ \A i \in Pos : Elements(comparisons[i]) \subseteq Elements(comparisons'[i])
  BY TypeNext DEF BaseInv
<1>2. CASE ReadValue
  <2>1. /\ inherited \/ OldFile
        /\ input' = input /\ updated' = updated /\ inherited' = inherited
    BY <1>1, <1>2, ReadValueFacts DEF FileInv
  <2> QED
    BY <1>1, <2>1, OldFileStays DEF FileInv
<1>3. CASE Rerun
  <2>1. /\ inherited \/ OldFile
        /\ input' = input /\ (updated' \in {Want, Zeros} \/ UNCHANGED <<updated, inherited>>)
    BY <1>1, <1>3, RerunFacts DEF FileInv
  <2>2. CASE updated' = Want
    <3>1. Want' = Want /\ pc' = "verdict"
      BY <1>3, RerunFacts DEF Want, Current, Candidate
    <3>2. died' # "now"
      BY <1>3, RerunFacts
    <3> QED
      BY <2>2, <3>1, <3>2 DEF FileInv
  <2>3. CASE updated' = Zeros
    BY <2>3 DEF FileInv, OldFile
  <2>4. CASE UNCHANGED <<updated, inherited>>
    BY <1>1, <2>1, <2>4, OldFileStays DEF FileInv
  <2> QED
    BY <2>1, <2>2, <2>3, <2>4
<1>4. CASE RerunDies
  <2>1. /\ inherited \/ OldFile
        /\ input' = input /\ (updated' \in {Zeros, Truncated} \/ UNCHANGED <<updated, inherited>>)
    BY <1>1, <1>4 DEF FileInv, RerunDies
  <2>2. CASE updated' \in {Zeros, Truncated}
    BY <2>2 DEF FileInv, OldFile
  <2> QED
    BY <1>1, <2>1, <2>2, OldFileStays DEF FileInv
<1>5. CASE Verdict
  <2>1. Searching /\ input' = input /\ updated' = updated /\ inherited' = inherited
    BY <1>5, VerdictFacts DEF Searching
  <2>2. CASE OldFile
    BY <1>1, <2>1, <2>2, OldFileStays DEF FileInv
  <2>3. CASE updated = Want
    <3>1. Current.mid \in Nat /\ Candidate \in Pos
      BY <1>1, <2>1, CandidateFacts
    <3>2. Current.mid \in Elements(comparisons'[Candidate])
      <4>1. Want # Truncated
        BY <1>1, <2>1, WantIsAnswer
      <4>2. CASE comparisons' = Append1(comparisons, {Want[1]}, Want[3])
        BY <1>1, <3>1, <4>2, WantParts, AppendKeeps DEF TypeInv
      <4>3. CASE Want[3] \in Elements(comparisons[Want[1]])
        BY <1>1, <3>1, <4>3, WantParts
      <4> QED
        BY <1>5, <2>3, <4>1, <4>2, <4>3, VerdictFacts
    <3> QED
      BY <1>1, <2>1, <2>3, <3>2, KnownAnswerIsOld DEF FileInv
  <2> QED
    BY <1>1, <2>1, <2>2, <2>3 DEF FileInv
<1>6. CASE UNCHANGED vars
  <2>1. FileInv' = FileInv
    BY <1>6 DEF FileInv, vars, OldFile, Answer, Want, Current, Candidate
  <2> QED
    BY <1>1, <2>1
<1> QED
  BY <1>2, <1>3, <1>4, <1>5, <1>6 DEF Next

(* There is an index left to try as long as check runs, every character that *)
(* is searched for is one of the value, and the file holds what is recorded  *)
(* unless it is still that of an earlier trace.                             *)
THEOREM BaseHolds == Spec => []BaseInv
<1>1. Init => BaseInv
  BY SearchInit DEF BaseInv, FileInv, OldFile, Init
<1>2. BaseInv /\ [Next]_vars => BaseInv'
  BY TypeNext, SearchNext, FileNext DEF BaseInv
<1> QED
  BY <1>1, <1>2, PTL DEF Spec

(* An answer of the same trace that check reads as that of a verifier that    *)
(* has died adds nothing, whatever the subject does and whatever the file     *)
(* held when the trace began.                                               *)
THEOREM StaleHolds == Spec => StaleAddsNothing
<1>1. BaseInv /\ [Next]_vars =>
          [pc = "verdict" /\ died = "now" /\ ~inherited => comparisons' = comparisons]_vars
  <2> SUFFICES ASSUME BaseInv, Next, pc = "verdict", died = "now", ~inherited
               PROVE  comparisons' = comparisons
    OBVIOUS
  <2>1. TypeInv /\ SearchInv /\ Searching /\ OldFile
    BY DEF BaseInv, FileInv, Searching
  <2>2. Verdict
    BY DEF Next, ReadValue, Rerun, RerunDies
  <2>3. updated = Want => Want[3] \in Elements(comparisons[Want[1]])
    BY <2>1, OldAnswerIsKnown
  <2> QED
    BY <2>2, <2>3, VerdictFacts
<1> QED
  BY <1>1, BaseHolds, PTL DEF Spec, StaleAddsNothing

------------------------------------------------------------------------------
(* Runs that are stable                                                     *)

LEMMA StableRun ==
    ASSUME RunsAreStable, NEW t \in Inputs, NEW k \in DOMAIN Shown(t), NEW i \in DOMAIN t,
           NEW e, e = Shown(t)[k],
           IF Single(e) THEN i <= e.from /\ t[i] = t[e.from] ELSE \E p \in e.from .. e.to : t[p] = t[i],
           NEW s \in Mutated(t, get_duplicate_indexes(t, t[i]), i)
    PROVE  /\ SingleChars(s) # {}
           /\ e.from = i /\ e.to = i => e \in Elements(Shown(s))
           /\ \A h \in SingleChars(s) :
                  Shown(s)[h].at = e.at /\ Shown(s)[h].mid = e.mid /\ s[Shown(s)[h].from] = t[i]
                      => Shown(s)[h] = e
BY DEF RunsAreStable, StableOn, Single

(* The verifier confirms the index of a single character, and no other one   *)
(* before it.                                                               *)
LEMMA SingleIsVerified ==
    ASSUME RunsAreStable, TypeInv, SearchInv, Searching, Single(Current), Current.from \in cands,
           NEW s \in Mutations
    PROVE  Verified(s, Want, Current.at, updated) = IF Current.from = Candidate THEN Want ELSE Zeros
<1> DEFINE e == Current
           D == get_duplicate_indexes(input, input[Candidate])
           hit(k) == s[Shown(s)[k].from] = Want[2] /\ Shown(s)[k].mid = Want[3] /\ Shown(s)[k].at = e.at
<1>1. /\ input \in Inputs /\ Candidate \in DOMAIN input /\ next - 1 \in DOMAIN Shown(input)
      /\ e = Shown(input)[next - 1] /\ Candidate <= e.from
  BY CandidateFacts, InputFacts, ShownFacts DEF TypeInv
<1>2. e.from \in 1 .. Len(input) /\ e.from \in DOMAIN input /\ e.to = e.from /\ Len(input) \in Nat
  BY CandidateFacts, InputFacts DEF TypeInv, Single
<1>3. input[e.from] = input[Candidate]
  <2>1. PICK p \in e.from .. e.to : input[p] = input[Candidate]
    BY CandidateFacts
  <2>2. p = e.from
    BY <1>2, <2>1
  <2> QED
    BY <2>1, <2>2
<1>4. s \in Mutated(input, D, Candidate)
  BY DEF Mutations
<1> HIDE DEF e
<1>5. /\ SingleChars(s) # {}
      /\ e.from = Candidate /\ e.to = Candidate => e \in Elements(Shown(s))
      /\ \A h \in SingleChars(s) :
             Shown(s)[h].at = e.at /\ Shown(s)[h].mid = e.mid /\ s[Shown(s)[h].from] = input[Candidate]
                 => Shown(s)[h] = e
  <2>1. Single(e)
    BY DEF e
  <2> QED
    BY <1>1, <1>3, <1>4, <2>1, StableRun
<1>6. Want[2] = input[Candidate] /\ Want[3] = e.mid
  BY WantParts DEF e
<1>7. CASE e.from = Candidate
  <2>1. PICK k \in DOMAIN Shown(s) : Shown(s)[k] = e
    BY <1>2, <1>5, <1>7 DEF Elements
  <2>2. k \in SingleChars(s)
    BY <1>2, <2>1 DEF SingleChars
  <2>3. Candidate \notin {j \in D : j > Candidate}
    BY <1>2, <1>7
  <2>4. s[e.from] = input[e.from]
    BY <1>1, <1>4, <1>7, <2>3, MutatedFacts
  <2>5. hit(k)
    BY <1>3, <1>6, <2>1, <2>4
  <2> QED
    BY <1>7, <2>2, <2>5 DEF Verified, e
<1>8. CASE e.from # Candidate
  <2>1. e.from \in {j \in D : j > Candidate}
    BY <1>1, <1>2, <1>3, <1>8, CandidateFacts, InputFacts DEF get_duplicate_indexes
  <2>2. s[e.from] # input[Candidate]
    BY <1>2, <1>4, <2>1, MutatedFacts
  <2>3. ASSUME NEW k \in SingleChars(s), hit(k) PROVE FALSE
    <3>1. Shown(s)[k] = e
      BY <1>5, <1>6, <2>3
    <3> QED
      BY <1>6, <2>2, <2>3, <3>1
  <2> QED
    BY <1>5, <1>8, <2>3 DEF Verified, e
<1> QED
  BY <1>7, <1>8 DEF e

(* No index is confirmed for the characters of a longer value.               *)
LEMMA FragmentIsNotVerified ==
    ASSUME RunsAreStable, TypeInv, SearchInv, Searching, ~Single(Current), NEW s \in Mutations
    PROVE  Verified(s, Want, Current.at, updated) = Zeros
<1> DEFINE e == Current
           hit(k) == s[Shown(s)[k].from] = Want[2] /\ Shown(s)[k].mid = Want[3] /\ Shown(s)[k].at = e.at
<1>1. /\ input \in Inputs /\ Candidate \in DOMAIN input /\ next - 1 \in DOMAIN Shown(input)
      /\ e = Shown(input)[next - 1] /\ \E p \in e.from .. e.to : input[p] = input[Candidate]
  BY CandidateFacts, InputFacts, ShownFacts DEF TypeInv
<1>2. s \in Mutated(input, get_duplicate_indexes(input, input[Candidate]), Candidate)
  BY DEF Mutations
<1>3. /\ SingleChars(s) # {}
      /\ \A h \in SingleChars(s) :
             Shown(s)[h].at = e.at /\ Shown(s)[h].mid = e.mid /\ s[Shown(s)[h].from] = input[Candidate]
                 => Shown(s)[h] = e
  <2> HIDE DEF e
  <2>1. ~Single(e)
    BY DEF e
  <2> QED
    BY <1>1, <1>2, <2>1, StableRun
<1>4. ASSUME NEW k \in SingleChars(s), hit(k) PROVE FALSE
  <2>1. Shown(s)[k] = e
    BY <1>3, <1>4, WantParts
  <2>2. Single(Shown(s)[k])
    BY DEF SingleChars, Single
  <2> QED
    BY <2>1, <2>2
<1> QED
  BY <1>3, <1>4 DEF Verified

(* A value is found where it was read, or before.                           *)
LEMMA FoundFacts ==
    ASSUME TypeInv, ReadValue
    PROVE  /\ Find(input, Value) \in 1 .. Read.from
           /\ CountedOnce(input, Value) => Read.from < Find(input, Value) + Len(Value)
<1>1. /\ input \in Inputs /\ next \in 1 .. Len(Shown(input)) /\ Len(Value) = Read.to - Read.from + 1
  BY ReadFacts DEF TypeInv
<1>2. /\ Read.from \in 1 .. Len(input) /\ Read.to \in 1 .. Len(input) /\ Read.from <= Read.to
      /\ Len(input) \in Nat
  BY <1>1, ShownFacts, InputFacts DEF Read
<1>3. Read.from \in 1 .. Len(input) - Len(Value) + 1 /\ Read.from + Len(Value) - 1 = Read.to
  BY <1>1, <1>2
<1>4. SubSeq(input, Read.from, Read.from + Len(Value) - 1) = Value
  BY <1>3 DEF Value
<1>5. Read.from \in Occurrences(input, Value)
  BY <1>3, <1>4 DEF Occurrences
<1>6. Occurrences(input, Value) \in SUBSET Nat /\ \A p \in Occurrences(input, Value) : p >= 1
  BY <1>1, <1>2 DEF Occurrences
<1>7. /\ Find(input, Value) \in Occurrences(input, Value)
      /\ \A p \in Occurrences(input, Value) : Find(input, Value) <= p
  BY <1>5, <1>6, LeastIs DEF Find
<1>8. CountedOnce(input, Value) => Read.from < Find(input, Value) + Len(Value)
  BY <1>5 DEF CountedOnce
<1> QED
  BY <1>2, <1>5, <1>6, <1>7, <1>8

(* The character that was read stays among the indexes to be tried.          *)
LEMMA StillThereNext ==
    ASSUME BaseInv, CalmInv, [Next]_vars
    PROVE  StillThere'
<1>1. TypeInv /\ SearchInv /\ StillThere /\ Answered
  BY DEF BaseInv, CalmInv
<1>2. CASE ReadValue
  <2>1. /\ input' = input /\ next' = next + 1 /\ next \in Nat /\ died' = died /\ input \in Inputs
        /\ next \in 1 .. Len(Shown(input))
    BY <1>1, <1>2, ReadValueFacts, ReadFacts DEF TypeInv
  <2>2. Current' = Read
    BY <2>1 DEF Current, Read
  <2>3. SUFFICES ASSUME pc' # "step", Single(Read) PROVE Read.from \in cands'
    BY <2>2 DEF StillThere, Searching, Single
  <2>4. Place(Value) /\ Value # <<>>
    BY <1>1, <1>2, <2>3, ReadValueFacts, PlaceFacts, ReadFacts
  <2>5. cands' = get_duplicate_indexes(input, Value[1])
    BY <2>4, PlaceFacts
  <2>6. Read.from \in 1 .. Len(input) /\ Len(input) \in Nat /\ Read.to = Read.from
    BY <2>1, <2>3, ShownFacts, InputFacts DEF Read, Single
  <2>7. Value[1] = input[Read.from]
    <3>0. Len(Value) = 1
      BY <1>1, <1>2, <2>3, ReadFacts, Zenon
    <3>1. 1 \in 1 .. Len(Value)
      BY <3>0
    <3>2. \A j \in 1 .. Len(Value) : Value[j] = input[Read.from + j - 1]
      BY <1>1, <1>2, ReadFacts
    <3>3. Value[1] = input[Read.from + 1 - 1]
      BY <3>1, <3>2, Zenon
    <3>4. Read.from + 1 - 1 = Read.from
      BY <2>6
    <3> QED
      BY <3>3, <3>4
  <2> QED
    BY <2>5, <2>6, <2>7 DEF get_duplicate_indexes
<1>3. CASE Rerun
  BY <1>1, <1>3 DEF Rerun, StillThere, Searching, Current
<1>4. CASE RerunDies
  BY <1>4 DEF RerunDies, StillThere
<1>5. CASE Verdict
  <2>1. pc = "verdict" /\ Searching /\ input' = input /\ next' = next /\ died' = died /\ Current' = Current
    BY <1>5, VerdictFacts DEF Searching, Current
  <2>2. SUFFICES ASSUME Searching', died = "no", Single(Current) PROVE Current.from \in cands'
    BY <2>1 DEF StillThere, Single
  <2>3. Current.from \in cands
    BY <1>1, <2>1, <2>2 DEF StillThere
  <2>4. CASE Place(Tail(todo))
    <3>1. todo \in Seq(STRING) /\ todo # <<>> /\ Len(todo) = 1
      BY <1>1, <2>1, <2>2 DEF SearchInv
    <3>2. Tail(todo) \in Seq(STRING) /\ Len(Tail(todo)) = 0
      BY <3>1, HeadTailProperties
    <3>3. Tail(todo) = <<>>
      BY <3>2, EmptySeq
    <3> QED
      BY <2>2, <2>4, <3>3, PlaceFacts DEF Searching
  <2>5. CASE updated # Want /\ cands' = cands \ {Candidate}
    BY <1>1, <2>1, <2>2, <2>3, <2>5 DEF Answered
  <2> QED
    BY <1>5, <2>2, <2>4, <2>5, VerdictFacts DEF Searching
<1>6. CASE UNCHANGED vars
  BY <1>1, <1>6 DEF vars, StillThere, Searching, Current
<1> QED
  BY <1>2, <1>3, <1>4, <1>5, <1>6 DEF Next

LEMMA AnsweredNext ==
    ASSUME RunsAreStable, BaseInv, CalmInv, [Next]_vars
    PROVE  Answered'
<1>1. TypeInv /\ SearchInv /\ FileInv /\ StillThere /\ Answered
  BY DEF BaseInv, CalmInv
<1>2. CASE ReadValue
  BY <1>2, ReadValueFacts, PlaceFacts DEF Answered
<1>3. CASE Rerun
  <2>1. Searching /\ died \in {"no", "earlier", "now"}
    BY <1>1, <1>3, RerunFacts DEF Searching, TypeInv
  <2>2. Want' = Want /\ Current' = Current /\ Candidate' = Candidate
    BY <1>3, RerunFacts DEF Want, Current, Candidate
  <2>3. PICK s \in Mutations : updated' = Verified(s, Want, Current.at, updated)
    BY <1>3, RerunFacts
  <2>4. SUFFICES ASSUME died = "no"
                 PROVE  updated' = Want <=> Single(Current) /\ Current.from = Candidate
    BY <1>3, <2>2, RerunFacts DEF Answered, Single
  <2>5. CASE Single(Current)
    <3>1. Current.from \in cands
      BY <1>1, <2>1, <2>4, <2>5 DEF StillThere
    <3>2. updated' = IF Current.from = Candidate THEN Want ELSE Zeros
      BY <1>1, <2>1, <2>3, <2>5, <3>1, SingleIsVerified
    <3> QED
      BY <1>1, <2>1, <2>5, <3>2, WantIsAnswer
  <2>6. CASE ~Single(Current)
    <3>1. updated' = Zeros
      BY <1>1, <2>1, <2>3, <2>6, FragmentIsNotVerified
    <3> QED
      BY <1>1, <2>1, <2>6, <3>1, WantIsAnswer
  <2> QED
    BY <2>5, <2>6
<1>4. CASE RerunDies
  BY <1>4 DEF RerunDies, Answered
<1>5. CASE Verdict
  BY <1>5, VerdictFacts, PlaceFacts DEF Answered
<1>6. CASE UNCHANGED vars
  <2>1. Answered' = Answered
    BY <1>6 DEF vars, Answered, Want, Candidate, Current, Single
  <2> QED
    BY <1>1, <2>1
<1> QED
  BY <1>2, <1>3, <1>4, <1>5, <1>6 DEF Next

LEMMA FoundNext ==
    ASSUME BaseInv, CalmInv, [Next]_vars
    PROVE  Found'
<1>1. TypeInv /\ SearchInv /\ FileInv /\ StillThere /\ Answered /\ Found
  BY DEF BaseInv, CalmInv
<1>2. /\ input \in Inputs /\ next \in Nat \ {0} /\ comparisons \in [Pos -> Seq(Nat)]
      /\ next - 1 <= Len(Shown(input)) /\ Len(Shown(input)) \in Nat
      /\ \A i \in Pos : Elements(comparisons[i]) \subseteq Elements(comparisons'[i])
      /\ died \in {"no", "earlier", "now"}
  BY <1>1, TypeNext, InputFacts DEF TypeInv
<1>3. ASSUME died = "no", Len(input) > 1, NEW k \in 1 .. next - 1, Single(Shown(input)[k]),
             k < next - 1 \/ pc = "step"
      PROVE  Shown(input)[k].mid \in Elements(comparisons'[Shown(input)[k].from])
  <2>1. Shown(input)[k].mid \in Elements(comparisons[Shown(input)[k].from])
    BY <1>1, <1>3 DEF Found
  <2>2. k \in 1 .. Len(Shown(input))
    BY <1>2
  <2>3. Shown(input)[k].from \in Pos
    BY <1>2, <2>2, ShownFacts, InputFacts
  <2> QED
    BY <1>2, <2>1, <2>3
<1>4. CASE ReadValue
  <2>1. /\ input' = input /\ next' = next + 1 /\ died' = died /\ pc = "step"
        /\ next \in 1 .. Len(Shown(input)) /\ Read.mid \in Nat
    BY <1>1, <1>4, ReadValueFacts, ReadFacts
  <2>2. ASSUME pc' = "step", Len(input) > 1, Single(Read) PROVE Read.mid \in Elements(comparisons'[Read.from])
    <3>1. Read.from \in 1 .. Len(input) /\ Read.from \in Pos /\ Read.to = Read.from
      BY <1>2, <2>1, <2>2, ShownFacts, InputFacts DEF Read, Single
    <3>2. Len(Value) = 1 /\ Value # <<>>
      BY <1>1, <1>4, <2>2, ReadFacts
    <3>3. /\ Value # input /\ CountedOnce(input, Value)
          /\ comparisons' = Append1(comparisons, Span, Read.mid)
      <4>1. ~Place(Value)
        BY <2>2, <3>2, PlaceFacts
      <4>2. Value # input
        <5>1. Len(input) # 1
          BY <1>2, <2>2, InputFacts, MoreThanOne, Zenon
        <5> QED
          BY <3>2, <5>1, Zenon
      <4> QED
        BY <1>4, <3>2, <4>1, <4>2, ReadValueFacts
    <3>4. Read.from \in Span
      BY <1>1, <1>4, <3>1, <3>2, <3>3, FoundFacts DEF Span
    <3> QED
      BY <1>2, <2>1, <3>1, <3>3, <3>4, AppendKeeps
  <2>3. SUFFICES ASSUME died = "no", Len(input) > 1, NEW k \in 1 .. next,
                        Single(Shown(input)[k]), k < next \/ pc' = "step"
                 PROVE  Shown(input)[k].mid \in Elements(comparisons'[Shown(input)[k].from])
    <3>1. next' - 1 = next
      BY <1>2, <2>1
    <3> QED
      BY <2>1, <3>1 DEF Found
  <2>4. CASE k < next
    BY <1>2, <1>3, <2>1, <2>3, <2>4
  <2>5. CASE k = next
    BY <2>2, <2>3, <2>5 DEF Read
  <2> QED
    BY <1>2, <2>4, <2>5
<1>5. ASSUME input' = input, next' = next, died' = "no" => died = "no", pc' # "step" \/ pc = "step"
      PROVE  Found'
  BY <1>3, <1>5 DEF Found, Single
<1>6. CASE Rerun
  BY <1>2, <1>5, <1>6, RerunFacts
<1>7. CASE RerunDies
  BY <1>5, <1>7 DEF RerunDies
<1>8. CASE Verdict
  <2>1. /\ pc = "verdict" /\ Searching /\ UNCHANGED <<input, next, updated, inherited, died>>
    BY <1>8, VerdictFacts DEF Searching
  <2>2. /\ next - 1 \in 1 .. Len(Shown(input)) /\ Current = Shown(input)[next - 1]
        /\ Candidate \in Pos /\ Current.mid \in Nat
    BY <1>1, <2>1, CandidateFacts
  <2>3. ASSUME pc' = "step", died = "no", Single(Current) PROVE Current.mid \in Elements(comparisons'[Current.from])
    <3>1. Current.from \in cands
      BY <1>1, <2>1, <2>3 DEF StillThere
    <3>2. updated = Want <=> Current.from = Candidate
      BY <1>1, <2>1, <2>3 DEF Answered
    <3>3. ~ (cands = {Candidate} /\ updated # Want)
      BY <3>1, <3>2
    <3>4. \/ updated = Want /\ comparisons' = Append1(comparisons, {Want[1]}, Want[3])
          \/ updated = Want /\ Want[3] \in Elements(comparisons[Want[1]])
      BY <1>8, <2>3, <3>3, VerdictFacts
    <3>5. Current.mid \in Elements(comparisons'[Candidate])
      BY <1>2, <2>2, <3>4, WantParts, AppendKeeps
    <3> QED
      BY <3>2, <3>4, <3>5
  <2>4. SUFFICES ASSUME died = "no", Len(input) > 1, NEW k \in 1 .. next - 1,
                        Single(Shown(input)[k]), k < next - 1 \/ pc' = "step"
                 PROVE  Shown(input)[k].mid \in Elements(comparisons'[Shown(input)[k].from])
    BY <2>1 DEF Found, Single
  <2>5. CASE k < next - 1
    BY <1>3, <2>4, <2>5
  <2>6. CASE k = next - 1
    BY <2>2, <2>3, <2>4, <2>6
  <2> QED
    BY <1>2, <2>4, <2>5, <2>6
<1>9. CASE UNCHANGED vars
  BY <1>5, <1>9 DEF vars
<1> QED
  BY <1>4, <1>6, <1>7, <1>8, <1>9 DEF Next

(* As long as no verifier has died, the index that was read is not lost, and *)
(* it alone is confirmed.                                                   *)
THEOREM CalmHolds == ASSUME RunsAreStable PROVE Spec => []CalmInv
<1>1. Init => CalmInv
  <2> SUFFICES ASSUME Init PROVE CalmInv
    OBVIOUS
  <2> QED
    BY DEF Init, CalmInv, StillThere, Answered, Found, Searching
<1>2. BaseInv /\ CalmInv /\ [Next]_vars => CalmInv'
  BY StillThereNext, AnsweredNext, FoundNext DEF CalmInv
<1> QED
  BY <1>1, <1>2, BaseHolds, PTL DEF Spec

(* "we re-run the program with the mutated string until we find the right    *)
(* index": every single character that was read is recorded for its reader,  *)
(* for every subject whose runs are stable under the mutations.              *)
THEOREM ReadIsFoundHolds == ASSUME RunsAreStable PROVE Spec => []ReadIsFound
<1>1. TypeInv /\ CalmInv => ReadIsFound
  BY DEF TypeInv, CalmInv, Found, ReadIsFound, Single
<1> QED
  BY <1>1, BaseHolds, CalmHolds, PTL DEF BaseInv

------------------------------------------------------------------------------
(* The promise of a trace                                                   *)

(* No verifier dies.                                                        *)
LEMMA NoneDies == ASSUME ~ChildMayFail PROVE Spec => [](died = "no")
<1>1. Init => died = "no"
  BY DEF Init
<1>2. died = "no" /\ [Next]_vars => (died = "no")'
  <2> SUFFICES ASSUME died = "no", [Next]_vars PROVE died' = "no"
    OBVIOUS
  <2>1. CASE ReadValue
    BY <2>1, ReadValueFacts
  <2>2. CASE Rerun
    BY <2>2, RerunFacts
  <2>3. CASE RerunDies
    BY <2>3 DEF RerunDies
  <2>4. CASE Verdict
    BY <2>4, VerdictFacts
  <2>5. CASE UNCHANGED vars
    BY <2>5 DEF vars
  <2> QED
    BY <2>1, <2>2, <2>3, <2>4, <2>5 DEF Next
<1> QED
  BY <1>1, <1>2, PTL DEF Spec

LEMMA Shorter ==
    \A m, n, l \in Nat : /\ n >= m => 1 .. m - 1 \subseteq 1 .. n - 1
                         /\ n - 1 <= l => 1 .. n - 1 \subseteq 1 .. l
OBVIOUS

(* The readers of an index become more.                                      *)
LEMMA ReadersGrow ==
    ASSUME TypeInv, TypeInv', input' = input, next' >= next
    PROVE  /\ Readers' \in [Pos -> SUBSET Nat]
           /\ \A i \in Pos : Readers[i] \subseteq Readers'[i]
<1>1. /\ input \in Inputs /\ next \in Nat /\ next' \in Nat
      /\ next' - 1 <= Len(Shown(input)) /\ Len(Shown(input)) \in Nat
  <2>1. input \in Inputs /\ next \in Nat \ {0}
    BY DEF TypeInv
  <2>2. input' \in Inputs /\ next' \in Nat \ {0} /\ next' - 1 <= Len(Shown(input'))
    BY DEF TypeInv
  <2> QED
    BY <2>1, <2>2, InputFacts
<1>3. \A k \in 1 .. next' - 1 : Shown(input)[k].mid \in Nat
  <2>1. 1 .. next' - 1 \subseteq 1 .. Len(Shown(input))
    BY <1>1, Shorter, Zenon
  <2> QED
    BY <1>1, <2>1, ShownFacts
<1>4. 1 .. next - 1 \subseteq 1 .. next' - 1
  BY <1>1, Shorter, Zenon
<1> DEFINE R(n) == [i \in Pos |->
        {Shown(input)[k].mid : k \in {j \in 1 .. n : i \in Shown(input)[j].from .. Shown(input)[j].to}}]
<1>2. Readers = R(next - 1) /\ Readers' = R(next' - 1)
  BY DEF Readers
<1>5. R(next' - 1) \in [Pos -> SUBSET Nat]
  BY <1>3
<1>6. \A i \in Pos : R(next - 1)[i] \subseteq R(next' - 1)[i]
  BY <1>4
<1> HIDE DEF R
<1> QED
  BY <1>2, <1>5, <1>6

(* What is added to an index was read from it.                              *)
LEMMA AppendIsRecorded ==
    ASSUME comparisons \in [Pos -> Seq(Nat)], NEW S, NEW m, comparisons' = Append1(comparisons, S, m),
           \A i \in S : m \in Readers'[i]
    PROVE  Promise!Recorded /\ comparisons' = [i \in Pos |-> comparisons'[i]]
BY DEF Append1, Promise!Recorded

LEMMA SameIsRecorded ==
    ASSUME comparisons \in [Pos -> Seq(Nat)], UNCHANGED comparisons
    PROVE  Promise!Recorded /\ comparisons' = [i \in Pos |-> comparisons'[i]]
BY DEF Promise!Recorded

(* The values that have been looked at are among those that were read.       *)
LEMMA ReadersHave ==
    ASSUME input' = input, next \in Nat, next' \in Nat, NEW k \in 1 .. next' - 1,
           NEW i \in Pos, i \in Shown(input)[k].from .. Shown(input)[k].to
    PROVE  Shown(input)[k].mid \in Readers'[i]
BY DEF Readers

LEMMA ReadValueKeepsPromise ==
    ASSUME FragmentsAreFound, TypeInv, TypeInv', ReadValue
    PROVE  Promise!Recorded /\ comparisons' = [i \in Pos |-> comparisons'[i]]
<1>1. /\ input' = input /\ next' = next + 1 /\ next \in 1 .. Len(Shown(input)) /\ next \in Nat
      /\ comparisons \in [Pos -> Seq(Nat)] /\ input \in Inputs
  BY ReadValueFacts, ReadFacts DEF TypeInv
<1>2. CASE UNCHANGED comparisons
  BY <1>1, <1>2, SameIsRecorded
<1>3. ASSUME NEW S \in SUBSET Span, Value # input, CountedOnce(input, Value),
             comparisons' = Append1(comparisons, S, Read.mid)
      PROVE  Promise!Recorded /\ comparisons' = [i \in Pos |-> comparisons'[i]]
  <2>1. /\ Read.from \in 1 .. Len(input) /\ Read.to \in 1 .. Len(input) /\ Read.from <= Read.to
        /\ Len(input) \in Nat /\ next \in DOMAIN Shown(input)
    BY <1>1, ShownFacts, InputFacts DEF Read
  <2>2. Len(Value) = Read.to - Read.from + 1
    BY ReadFacts
  <2>3. Find(input, Value) = Read.from
    <3>1. CASE Read.from < Read.to
      <4>1. next \in DOMAIN Shown(input) /\ input \in Inputs
        BY <1>1, ShownFacts, InputFacts
      <4> QED
        BY <1>3, <3>1, <4>1, Zenon DEF FragmentsAreFound, Read, Value
    <3>2. CASE ~(Read.from < Read.to)
      <4>1. Len(Value) + Find(input, Value) = Find(input, Value) + 1 /\ Find(input, Value) \in 1 .. Read.from
        BY <2>1, <2>2, <3>2, FoundFacts
      <4>2. Read.from < Find(input, Value) + Len(Value)
        BY <1>3, FoundFacts
      <4> QED
        BY <2>1, <4>1, <4>2
    <3> QED
      BY <3>1, <3>2
  <2>4. Span = Read.from .. Read.to
    BY <2>1, <2>2, <2>3 DEF Span
  <2>5. ASSUME NEW i \in S PROVE Read.mid \in Readers'[i]
    <3>1. next \in 1 .. next' - 1 /\ next' \in Nat
      BY <1>1
    <3>2. i \in Read.from .. Read.to /\ i \in Pos
      <4>1. Len(input) \in Nat /\ 1 .. Len(input) \subseteq Pos
        BY <1>1, InputFacts
      <4>2. i \in Read.from .. Read.to
        BY <2>4
      <4> QED
        BY <2>1, <4>1, <4>2
    <3> QED
      BY <1>1, <2>5, <3>1, <3>2, ReadersHave DEF Read
  <2> QED
    BY <1>1, <1>3, <2>5, AppendIsRecorded
<1> QED
  BY <1>2, <1>3, ReadValueFacts

LEMMA VerdictKeepsPromise ==
    ASSUME BaseInv, CalmInv, TypeInv', died = "no", Verdict
    PROVE  Promise!Recorded /\ comparisons' = [i \in Pos |-> comparisons'[i]]
<1>1. /\ pc = "verdict" /\ Searching /\ input' = input /\ next' = next
      /\ TypeInv /\ SearchInv /\ Answered
  BY VerdictFacts DEF Searching, BaseInv, CalmInv
<1>2. /\ next - 1 \in 1 .. Len(Shown(input)) /\ Current = Shown(input)[next - 1]
      /\ Candidate \in Pos /\ next \in Nat /\ input \in Inputs /\ comparisons \in [Pos -> Seq(Nat)]
  BY <1>1, CandidateFacts DEF TypeInv
<1>3. CASE UNCHANGED comparisons
  BY <1>2, <1>3, SameIsRecorded
<1>4. CASE /\ updated = Want /\ Want[3] \notin Elements(comparisons[Want[1]])
           /\ comparisons' = Append1(comparisons, {Want[1]}, Want[3])
  <2>2. Single(Current) /\ Current.from = Candidate
    BY <1>1, <1>4 DEF Answered
  <2>3. Candidate \in Current.from .. Current.to
    BY <1>2, <2>2, ShownFacts DEF Single
  <2>4. Current.mid \in Readers'[Candidate]
    BY <1>1, <1>2, <2>3, ReadersHave
  <2> DEFINE S == {Want[1]}
             m == Want[3]
  <2>5. \A i \in S : m \in Readers'[i]
    BY <2>4, WantParts
  <2>6. comparisons' = Append1(comparisons, S, m)
    BY <1>4
  <2> HIDE DEF S, m
  <2> QED
    BY <1>2, <2>5, <2>6, AppendIsRecorded
<1> QED
  BY <1>3, <1>4, VerdictFacts

(* The resolver implements what TracePromise asks of a trace, for every      *)
(* subject whose runs are stable under the mutations and whose fragments are *)
(* found where they are read, as long as no verifier dies.                   *)
THEOREM KeepsPromiseHolds ==
    ASSUME RunsAreStable, FragmentsAreFound, ~ChildMayFail
    PROVE  Spec => KeepsPromise
<1>1. Init => Promise!Init
  <2> SUFFICES ASSUME Init PROVE Promise!Init
    OBVIOUS
  <2>1. Readers = [i \in Pos |-> {}]
    BY DEF Init, Readers
  <2> QED
    BY <2>1 DEF Init, Promise!Init
<1>2. BaseInv /\ BaseInv' /\ CalmInv /\ died = "no" /\ [Next]_vars => [Promise!Next]_(Promise!vars)
  <2> SUFFICES ASSUME BaseInv, BaseInv', CalmInv, died = "no", [Next]_vars
               PROVE  Promise!Next \/ UNCHANGED Promise!vars
    OBVIOUS
  <2>1. TypeInv /\ TypeInv' /\ comparisons \in [Pos -> Seq(Nat)] /\ next \in Nat
    BY DEF BaseInv, TypeInv
  <2>2. CASE UNCHANGED <<input, next, comparisons>>
    BY <2>2 DEF Promise!vars, Readers
  <2>3. CASE ReadValue
    <3>1. input' = input /\ next' >= next
      BY <2>1, <2>3, ReadValueFacts
    <3>2. Promise!ReadersGrow
      BY <2>1, <3>1, ReadersGrow DEF Promise!ReadersGrow
    <3> QED
      BY <2>1, <2>3, <3>2, ReadValueKeepsPromise DEF Promise!Next
  <2>4. CASE Verdict
    <3>1. input' = input /\ next' >= next
      BY <2>1, <2>4, VerdictFacts
    <3>2. Promise!ReadersGrow
      BY <2>1, <3>1, ReadersGrow DEF Promise!ReadersGrow
    <3> QED
      BY <2>1, <2>4, <3>2, VerdictKeepsPromise DEF Promise!Next
  <2> QED
    BY <2>2, <2>3, <2>4 DEF Next, Rerun, RerunDies, vars
<1> QED
  BY <1>1, <1>2, BaseHolds, CalmHolds, NoneDies, PTL DEF Spec, KeepsPromise, Promise!Spec

------------------------------------------------------------------------------
(* calc, a subject                                                           *)

(* The values a run has seen.                                                *)
Seen(r) == Elements(r.shown)

(* From r to q a run on an input of n characters only goes forward: what it   *)
(* sees on the way are single characters from r on, at different times.       *)
Forwards(n, r, q) ==
    /\ q \in Runs /\ r.at <= q.at /\ r.n <= q.n /\ Seen(r) \subseteq Seen(q)
    /\ \A v \in Seen(q) \ Seen(r) : /\ v.from = v.to /\ r.at <= v.from /\ v.from <= n
                                    /\ r.n < v.at /\ v.at <= q.n
    /\ \A v, w \in Seen(q) \ Seen(r) : v.at = w.at => v = w

(* A run that has come to a place and a method.                              *)
LEMMA CallIs ==
    ASSUME NEW r \in Runs, NEW m \in Nat
    PROVE  InMethod(r, m) \in Calls /\ InMethod(r, m).run = r /\ InMethod(r, m).id = m
BY DEF InMethod, Calls

(* The parts of a run.                                                       *)
LEMMA RunIs ==
    ASSUME NEW r \in Runs
    PROVE  r.at \in Nat \ {0} /\ r.reg \in Nat /\ r.n \in Nat /\ r.shown \in Seq(Values)
BY DEF Runs

(* Two that are appended are elements.                                       *)
LEMMA SeenTwoMore ==
    ASSUME NEW q \in Seq(Values), NEW v \in Values, NEW w \in Values
    PROVE  q \o <<v, w>> \in Seq(Values) /\ Elements(q \o <<v, w>>) = Elements(q) \cup {v, w}
<1>1. q \o <<v, w>> = Append(Append(q, v), w)
  <2>1. <<v, w>> \in Seq(Values) /\ Len(<<v, w>>) = 2
    OBVIOUS
  <2> QED
    BY <2>1
<1>2. Append(q, v) \in Seq(Values) /\ Elements(Append(q, v)) = Elements(q) \cup {v}
  BY AppendElements
<1> DEFINE a == Append(q, v)
<1>3. Append(a, w) \in Seq(Values) /\ Elements(Append(a, w)) = Elements(a) \cup {w}
  <2> HIDE DEF a
  <2>1. a \in Seq(Values)
    BY <1>2 DEF a
  <2> QED
    BY <2>1, AppendElements
<1> QED
  BY <1>1, <1>2, <1>3

(* Going forward goes on.                                                    *)
LEMMA ForwardsOn ==
    ASSUME NEW n \in Nat, NEW r \in Runs, NEW p, NEW q, Forwards(n, r, p), Forwards(n, p, q)
    PROVE  Forwards(n, r, q)
<1>1. p \in Runs /\ q \in Runs
  BY DEF Forwards
<1>2. /\ r.at \in Nat /\ p.at \in Nat /\ q.at \in Nat /\ r.n \in Nat /\ p.n \in Nat /\ q.n \in Nat
  BY <1>1, RunIs
<1>3. \A v \in Seen(q) : v.from \in Nat /\ v.at \in Nat
  <2>1. q.shown \in Seq(Values)
    BY <1>1, RunIs
  <2>2. \A i \in DOMAIN q.shown : q.shown[i] \in Values
    BY <2>1, LenProperties, ElementOfSeq
  <2> QED
    BY <2>2 DEF Seen, Elements, Values
<1>4. \A v \in Seen(q) \ Seen(r) : v \in Seen(q) \ Seen(p) \/ v \in Seen(p) \ Seen(r)
  OBVIOUS
<1>5. r.at <= q.at /\ r.n <= q.n /\ Seen(r) \subseteq Seen(q)
  BY <1>2 DEF Forwards
<1>6. ASSUME NEW v \in Seen(q) \ Seen(r)
      PROVE  v.from = v.to /\ r.at <= v.from /\ v.from <= n /\ r.n < v.at /\ v.at <= q.n
  BY <1>2, <1>3, <1>4 DEF Forwards
<1>7. ASSUME NEW v \in Seen(q) \ Seen(r), NEW w \in Seen(q) \ Seen(r), v.at = w.at PROVE v = w
  <2>1. \A x \in Seen(q) \ Seen(p) : p.n < x.at
    BY DEF Forwards
  <2>2. \A x \in Seen(p) \ Seen(r) : x.at <= p.n
    BY DEF Forwards
  <2>3. \/ v \in Seen(q) \ Seen(p) /\ w \in Seen(q) \ Seen(p)
        \/ v \in Seen(p) \ Seen(r) /\ w \in Seen(p) \ Seen(r)
    BY <1>2, <1>3, <1>4, <1>7, <2>1, <2>2
  <2> QED
    BY <1>7, <2>3 DEF Forwards
<1> QED
  BY <1>1, <1>5, <1>6, <1>7 DEF Forwards

(* Steps that show nothing.                                                  *)
LEMMA QuietForwards ==
    ASSUME NEW n, NEW r \in Runs, NEW q \in Runs, q.shown = r.shown, r.at <= q.at, r.n <= q.n
    PROVE  Forwards(n, r, q) /\ Seen(q) = Seen(r)
BY DEF Forwards, Seen

(* A step, a return and a call show nothing and do not go back.               *)
LEMMA StepFacts ==
    ASSUME NEW r \in Runs
    PROVE  /\ Advance(r) \in Runs /\ Advance(r).at = r.at + 1 /\ Advance(r).reg = r.reg
           /\ Leave(r) \in Runs /\ Leave(r).at = r.at /\ Leave(r).reg = r.reg
           /\ Call(r) \in Runs /\ Call(r).at = r.at /\ Call(r).reg = r.reg + 1
           /\ Seen(Advance(r)) = Seen(r) /\ Seen(Leave(r)) = Seen(r) /\ Seen(Call(r)) = Seen(r)
           /\ \A n : Forwards(n, r, Advance(r)) /\ Forwards(n, r, Leave(r)) /\ Forwards(n, r, Call(r))
<1>1. r.at \in Nat \ {0} /\ r.reg \in Nat /\ r.n \in Nat /\ r.shown \in Seq(Values)
  BY RunIs
<1>2. /\ Advance(r) \in Runs /\ Advance(r).at = r.at + 1 /\ Advance(r).reg = r.reg
      /\ Advance(r).n = r.n + 1 /\ Advance(r).shown = r.shown
  <2>1. r.at + 1 \in Nat \ {0} /\ r.n + 1 \in Nat
    BY <1>1
  <2> QED
    BY <1>1, <2>1 DEF Advance, Runs
<1>3. /\ Leave(r) \in Runs /\ Leave(r).at = r.at /\ Leave(r).reg = r.reg
      /\ Leave(r).n = r.n + 1 /\ Leave(r).shown = r.shown
  BY <1>1 DEF Leave, Runs
<1>4. /\ Call(r) \in Runs /\ Call(r).at = r.at /\ Call(r).reg = r.reg + 1
      /\ Call(r).n = r.n /\ Call(r).shown = r.shown
  BY <1>1 DEF Call, Runs
<1>5. r.at <= r.at + 1 /\ r.n <= r.n + 1 /\ r.at <= r.at /\ r.n <= r.n
  BY <1>1
<1> QED
  BY <1>2, <1>3, <1>4, <1>5, QuietForwards

(* Steps that show the character at p.                                       *)
LEMMA LoudForwards ==
    ASSUME NEW n \in Nat, NEW r \in Runs, NEW q \in Runs, NEW p \in Nat, r.at <= p, p <= n,
           NEW V, Seen(q) = Seen(r) \cup V, q.at = r.at, r.n <= q.n,
           \A v \in V : v.from = p /\ v.to = p /\ r.n < v.at /\ v.at <= q.n,
           \A v, w \in V : v.at = w.at => v = w
    PROVE  Forwards(n, r, q)
<1>1. r.at \in Nat \ {0} /\ r.n \in Nat /\ r.at <= q.at /\ Seen(r) \subseteq Seen(q)
  BY RunIs
<1>2. \A v \in Seen(q) \ Seen(r) : v \in V
  OBVIOUS
<1>3. ASSUME NEW v \in Seen(q) \ Seen(r)
      PROVE  v.from = v.to /\ r.at <= v.from /\ v.from <= n /\ r.n < v.at /\ v.at <= q.n
  BY <1>2
<1> QED
  BY <1>1, <1>2, <1>3 DEF Forwards

(* One instruction shows it, or nothing if p is past the end.                *)
LEMMA ShowFacts ==
    ASSUME NEW n \in Nat, NEW r \in Runs, NEW s, Len(s) = n, NEW p \in Nat, r.at <= p, NEW m \in Nat
    PROVE  /\ Show(r, s, p, m) \in Runs /\ Show(r, s, p, m).at = r.at /\ Show(r, s, p, m).reg = r.reg
           /\ Forwards(n, r, Show(r, s, p, m))
<1> DEFINE v == [from |-> p, to |-> p, mid |-> m, at |-> r.n + 1]
           q == Show(r, s, p, m)
<1>1. r.at \in Nat \ {0} /\ r.reg \in Nat /\ r.n \in Nat /\ r.shown \in Seq(Values)
  BY RunIs
<1>2. v \in Values /\ v.from = p /\ v.to = p /\ v.at = r.n + 1
  BY <1>1 DEF Values
<1>3. Append(r.shown, v) \in Seq(Values) /\ Elements(Append(r.shown, v)) = Elements(r.shown) \cup {v}
  BY <1>1, <1>2, AppendElements
<1>4. q = [r EXCEPT !.n = @ + 1, !.shown = IF p <= n THEN Append(@, v) ELSE @]
  BY DEF Show
<1> HIDE DEF v, q
<1>5. /\ q \in Runs /\ q.at = r.at /\ q.reg = r.reg /\ q.n = r.n + 1
      /\ q.shown = IF p <= n THEN Append(r.shown, v) ELSE r.shown
  <2> DEFINE k == r.n + 1
             shown == IF p <= n THEN Append(r.shown, v) ELSE r.shown
  <2>1. k \in Nat /\ shown \in Seq(Values)
    BY <1>1, <1>3
  <2>2. q = [r EXCEPT !.n = k, !.shown = shown]
    BY <1>1, <1>4, Zenon
  <2> HIDE DEF k, shown
  <2>3. q \in Runs /\ q.at = r.at /\ q.reg = r.reg /\ q.n = k /\ q.shown = shown
    BY <1>1, <2>1, <2>2 DEF Runs
  <2> QED
    BY <2>3 DEF k, shown
<1>6. Forwards(n, r, q)
  <2>1. CASE p <= n
    <3>1. q.shown = Append(r.shown, v)
      BY <1>5, <2>1
    <3>2. Seen(q) = Seen(r) \cup {v}
      BY <1>3, <3>1 DEF Seen
    <3> DEFINE V == {v}
    <3>3. r.n <= q.n /\ r.n < v.at /\ v.at <= q.n
      BY <1>1, <1>2, <1>5
    <3>4. /\ \A w \in V : w.from = p /\ w.to = p /\ r.n < w.at /\ w.at <= q.n
          /\ \A w, x \in V : w.at = x.at => w = x
      BY <1>2, <3>3
    <3>5. Seen(q) = Seen(r) \cup V
      BY <3>2
    <3> HIDE DEF V
    <3>6. q \in Runs /\ q.at = r.at
      BY <1>5
    <3> QED
      BY <2>1, <3>3, <3>4, <3>5, <3>6, LoudForwards
  <2>2. CASE ~(p <= n)
    <3>1. q.shown = r.shown /\ r.at <= q.at /\ r.n <= q.n
      BY <1>1, <1>5, <2>2
    <3> QED
      BY <1>5, <3>1, QuietForwards
  <2> QED
    BY <2>1, <2>2
<1> QED
  BY <1>5, <1>6 DEF q

(* Two do, one after the other.                                              *)
LEMMA TestedFacts ==
    ASSUME NEW n \in Nat, NEW r \in Runs, r.at <= n, NEW m \in Nat
    PROVE  LET q == ShowTested(r, r.at, m)
           IN  /\ q \in Runs /\ q.at = r.at /\ q.reg = r.reg /\ Forwards(n, r, q)
               /\ \E v \in Seen(q) : v.from = r.at
<1> DEFINE v(k) == [from |-> r.at, to |-> r.at, mid |-> m, at |-> k]
           a == v(r.n + 1)
           b == v(r.n + 2)
           q == ShowTested(r, r.at, m)
<1>1. r.at \in Nat \ {0} /\ r.reg \in Nat /\ r.n \in Nat /\ r.shown \in Seq(Values)
  BY RunIs
<1>2. /\ a \in Values /\ a.from = r.at /\ a.to = r.at /\ a.at = r.n + 1
      /\ b \in Values /\ b.from = r.at /\ b.to = r.at /\ b.at = r.n + 2
  BY <1>1 DEF Values
<1>3. r.shown \o <<a, b>> \in Seq(Values) /\ Elements(r.shown \o <<a, b>>) = Elements(r.shown) \cup {a, b}
  <2> HIDE DEF a, b
  <2> QED
    BY <1>1, <1>2, SeenTwoMore
<1>4. q = [r EXCEPT !.n = @ + 2, !.shown = @ \o <<a, b>>]
  BY DEF ShowTested
<1> HIDE DEF a, b, q
<1>5. /\ q \in Runs /\ q.at = r.at /\ q.reg = r.reg /\ q.n = r.n + 2 /\ q.shown = r.shown \o <<a, b>>
  <2> DEFINE k == r.n + 2
             shown == r.shown \o <<a, b>>
  <2>1. k \in Nat /\ shown \in Seq(Values)
    BY <1>1, <1>3
  <2>2. q = [r EXCEPT !.n = k, !.shown = shown]
    BY <1>1, <1>4, Zenon
  <2> HIDE DEF k, shown
  <2>3. q \in Runs /\ q.at = r.at /\ q.reg = r.reg /\ q.n = k /\ q.shown = shown
    BY <1>1, <2>1, <2>2 DEF Runs
  <2> QED
    BY <2>3 DEF k, shown
<1>6. Seen(q) = Seen(r) \cup {a, b}
  BY <1>3, <1>5 DEF Seen
<1>7. /\ r.n <= q.n /\ r.n < a.at /\ a.at <= q.n /\ r.n < b.at /\ b.at <= q.n /\ a.at # b.at
  BY <1>1, <1>2, <1>5
<1>8. Forwards(n, r, q)
  <2>1. /\ \A w \in {a, b} : w.from = r.at /\ w.to = r.at /\ r.n < w.at /\ w.at <= q.n
        /\ \A w, x \in {a, b} : w.at = x.at => w = x
    BY <1>2, <1>7
  <2>2. r.at <= r.at /\ r.at \in Nat
    BY <1>1
  <2> QED
    BY <1>5, <1>6, <1>7, <2>1, <2>2, LoudForwards
<1> QED
  BY <1>2, <1>5, <1>6, <1>8 DEF q

(* The parts of a call.                                                      *)
LEMMA CallParts == ASSUME NEW x \in Calls PROVE x.run \in Runs /\ x.id \in Nat /\ x.run.at \in Nat \ {0}
BY RunIs DEF Calls

(* What parse_num makes of a call, with f for itself.                        *)
Tested(x)    == ShowTested(x.run, x.run.at, x.id)
Num(f, s, x) == IF x.run.at > Len(s) THEN Leave(x.run)
                ELSE IF s[x.run.at] \in Digits THEN f[InMethod(Advance(Tested(x)), x.id)]
                ELSE Leave(Tested(x))

(* It calls itself one place further.                                        *)
LEMMA NextCall ==
    ASSUME NEW n \in Nat, NEW x \in Calls, x.run.at <= n
    PROVE  /\ Tested(x) \in Runs /\ Tested(x).at = x.run.at /\ Tested(x).reg \in Nat
           /\ Forwards(n, x.run, Tested(x))
           /\ \E v \in Seen(Tested(x)) : v.from = x.run.at
           /\ InMethod(Advance(Tested(x)), x.id) \in Calls
           /\ InMethod(Advance(Tested(x)), x.id).run = Advance(Tested(x))
           /\ InMethod(Advance(Tested(x)), x.id).id = x.id
           /\ Advance(Tested(x)) \in Runs
           /\ Advance(Tested(x)).at = x.run.at + 1 /\ Forwards(n, x.run, Advance(Tested(x)))
           /\ Forwards(n, x.run, Leave(Tested(x)))
<1> DEFINE t == Tested(x)
<1>1. x.run \in Runs /\ x.id \in Nat
  BY CallParts
<1>2. /\ t \in Runs /\ t.at = x.run.at /\ t.reg = x.run.reg /\ Forwards(n, x.run, t)
      /\ \E v \in Seen(t) : v.from = x.run.at
  BY <1>1, TestedFacts DEF Tested
<1> HIDE DEF t
<1>3. /\ Advance(t) \in Runs /\ Advance(t).at = t.at + 1 /\ Forwards(n, t, Advance(t))
      /\ Leave(t) \in Runs /\ Forwards(n, t, Leave(t))
  BY <1>2, StepFacts
<1>4. Forwards(n, x.run, Advance(t)) /\ Forwards(n, x.run, Leave(t))
  BY <1>1, <1>2, <1>3, ForwardsOn
<1>5. InMethod(Advance(t), x.id) \in Calls /\ InMethod(Advance(t), x.id).run = Advance(t)
      /\ InMethod(Advance(t), x.id).id = x.id
  BY <1>1, <1>3, CallIs
<1>6. t.reg \in Nat
  BY <1>2, RunIs
<1> QED
  BY <1>2, <1>3, <1>4, <1>5, <1>6 DEF t

(* What parse_num makes of a call depends on later calls only.                *)
LEMMA NumSame ==
    ASSUME NEW s, NEW n \in Nat, Len(s) = n, NEW f, NEW g, NEW x \in Calls,
           \A y \in Calls : y.run.at > x.run.at => f[y] = g[y]
    PROVE  Num(f, s, x) = Num(g, s, x)
<1>1. CASE x.run.at > Len(s)
  BY <1>1 DEF Num
<1>2. CASE ~(x.run.at > Len(s))
  <2> DEFINE y == InMethod(Advance(Tested(x)), x.id)
  <2>1. x.run.at <= n /\ x.run.at \in Nat
    BY <1>2, CallParts
  <2>2. y \in Calls /\ y.run.at = x.run.at + 1
    BY <2>1, NextCall
  <2>3. f[y] = g[y]
    BY <2>1, <2>2
  <2> QED
    BY <1>2, <2>3 DEF Num
<1> QED
  BY <1>1, <1>2

(* If f goes forward from every later call, so does parse_num, past a digit.  *)
LEMMA NumForwards ==
    ASSUME NEW s, NEW n \in Nat, Len(s) = n, NEW f, NEW x \in Calls,
           \A y \in Calls : y.run.at > x.run.at => Forwards(n, y.run, f[y])
    PROVE  /\ Forwards(n, x.run, Num(f, s, x))
           /\ x.run.at <= n /\ s[x.run.at] \in Digits => Num(f, s, x).at > x.run.at
<1>1. x.run \in Runs /\ x.run.at \in Nat
  BY CallParts
<1>2. CASE x.run.at > Len(s)
  BY <1>1, <1>2, StepFacts DEF Num
<1>3. CASE ~(x.run.at > Len(s))
  <2> DEFINE y == InMethod(Advance(Tested(x)), x.id)
  <2>1. x.run.at <= n
    BY <1>1, <1>3
  <2>2. /\ y \in Calls /\ y.run.at = x.run.at + 1
        /\ Forwards(n, x.run, y.run) /\ Forwards(n, x.run, Leave(Tested(x)))
    BY <2>1, NextCall
  <2>3. CASE s[x.run.at] \in Digits
    <3>1. Num(f, s, x) = f[y]
      BY <1>3, <2>3 DEF Num
    <3> HIDE DEF y
    <3>2. Forwards(n, y.run, f[y])
      BY <1>1, <2>2
    <3>3. Forwards(n, x.run, f[y])
      BY <1>1, <2>2, <3>2, ForwardsOn
    <3>4. f[y].at > x.run.at
      <4>1. f[y] \in Runs /\ y.run.at <= f[y].at
        BY <3>2 DEF Forwards
      <4>2. f[y].at \in Nat
        BY <4>1, RunIs
      <4> QED
        BY <1>1, <2>2, <4>1, <4>2
    <3> QED
      BY <3>1, <3>3, <3>4
  <2>4. CASE s[x.run.at] \notin Digits
    <3>1. Num(f, s, x) = Leave(Tested(x))
      BY <1>3, <2>4 DEF Num
    <3> QED
      BY <2>2, <2>4, <3>1
  <2> QED
    BY <2>3, <2>4
<1> QED
  BY <1>1, <1>2, <1>3

(* What it makes of a call is a run.                                         *)
LEMMA NumRuns ==
    ASSUME NEW s, NEW n \in Nat, Len(s) = n, NEW f \in [Calls -> Runs], NEW x \in Calls
    PROVE  Num(f, s, x) \in Runs
<1>1. x.run \in Runs /\ x.run.at \in Nat
  BY CallParts
<1>2. CASE x.run.at > Len(s)
  BY <1>1, <1>2, StepFacts DEF Num
<1>3. CASE ~(x.run.at > Len(s))
  <2>1. x.run.at <= n
    BY <1>1, <1>3
  <2>2. InMethod(Advance(Tested(x)), x.id) \in Calls /\ Leave(Tested(x)) \in Runs
    BY <2>1, NextCall, StepFacts
  <2>3. f[InMethod(Advance(Tested(x)), x.id)] \in Runs
    BY <2>2
  <2> QED
    BY <1>3, <2>2, <2>3 DEF Num
<1> QED
  BY <1>2, <1>3

(* The function parse_num exists: from the end of the input backwards.        *)
LEMMA NumExists ==
    ASSUME NEW s, NEW n \in Nat, Len(s) = n
    PROVE  \E f : f = [x \in Calls |-> Num(f, s, x)]
<1> DEFINE Fits(f, k) == \A x \in Calls : x.run.at + k > n => f[x] = Num(f, s, x)
           I == {k \in Nat : \E f \in [Calls -> Runs] : Fits(f, k)}
<1>1. 0 \in I
  <2> DEFINE f == [x \in Calls |-> Leave(x.run)]
  <2>1. f \in [Calls -> Runs]
    BY CallParts, StepFacts
  <2>2. ASSUME NEW x \in Calls, x.run.at + 0 > n PROVE f[x] = Num(f, s, x)
    <3>1. x.run.at > Len(s)
      BY <2>2, CallParts
    <3> QED
      BY <3>1 DEF Num
  <2> HIDE DEF f
  <2> QED
    BY <2>1, <2>2
<1>2. ASSUME NEW k \in Nat, k \in I PROVE k + 1 \in I
  <2>1. PICK f \in [Calls -> Runs] : Fits(f, k)
    BY <1>2
  <2> DEFINE g == [x \in Calls |-> Num(f, s, x)]
  <2>2. g \in [Calls -> Runs]
    BY NumRuns
  <2>3. \A x \in Calls : x.run.at + k > n => g[x] = f[x]
    BY <2>1
  <2>4. ASSUME NEW x \in Calls, x.run.at + (k + 1) > n PROVE g[x] = Num(g, s, x)
    <3>1. g[x] = Num(f, s, x)
      OBVIOUS
    <3> HIDE DEF g
    <3>2. ASSUME NEW y \in Calls, y.run.at > x.run.at PROVE f[y] = g[y]
      <4>1. y.run.at \in Nat /\ x.run.at \in Nat
        BY CallParts
      <4>2. y.run.at + k > n
        BY <2>4, <3>2, <4>1
      <4> QED
        BY <2>3, <4>2
    <3>3. Num(f, s, x) = Num(g, s, x)
      BY <3>2, NumSame
    <3> QED
      BY <3>1, <3>3
  <2> HIDE DEF g
  <2>5. Fits(g, k + 1)
    BY <2>4
  <2> QED
    BY <2>2, <2>5
<1>3. n \in I
  <2> HIDE DEF I
  <2> QED
    BY <1>1, <1>2, SetInduction
<1>4. PICK f \in [Calls -> Runs] : Fits(f, n)
  BY <1>3
<1>5. ASSUME NEW x \in Calls PROVE f[x] = Num(f, s, x)
  <2>1. x.run.at + n > n
    BY CallParts
  <2> QED
    BY <1>4, <2>1
<1>6. f = [x \in Calls |-> Num(f, s, x)]
  <2>1. f = [x \in Calls |-> f[x]]
    OBVIOUS
  <2> QED
    BY <1>5, <2>1, Zenon
<1> QED
  BY <1>6

(* So each call does what the source says.                                   *)
LEMMA NumStep ==
    ASSUME NEW s, NEW n \in Nat, Len(s) = n
    PROVE  \A x \in Calls : parse_num(s)[x] = Num(parse_num(s), s, x)
<1> DEFINE h == CHOOSE f : f = [x \in Calls |-> Num(f, s, x)]
<1>1. \E f : f = [x \in Calls |-> Num(f, s, x)]
  BY NumExists
<1>2. h = [x \in Calls |-> Num(h, s, x)]
  BY <1>1, Zenon
<1>3. parse_num(s) = h
  BY Zenon DEF parse_num, Num, Tested
<1> HIDE DEF h
<1>4. \A x \in Calls : h[x] = Num(h, s, x)
  BY <1>2, Zenon
<1> QED
  BY <1>3, <1>4

(* parse_num goes forward, past a digit if it is at one.                      *)
LEMMA NumGoesOn ==
    ASSUME NEW s, NEW n \in Nat, Len(s) = n, NEW x \in Calls
    PROVE  /\ Forwards(n, x.run, parse_num(s)[x])
           /\ x.run.at <= n /\ s[x.run.at] \in Digits => parse_num(s)[x].at > x.run.at
<1> DEFINE I == {k \in Nat : \A y \in Calls : y.run.at + k > n => Forwards(n, y.run, parse_num(s)[y])}
           num == parse_num(s)
<1>1. \A y \in Calls : num[y] = Num(num, s, y)
  BY NumStep
<1> HIDE DEF num
<1>2. ASSUME NEW k \in Nat, \A y \in Calls : y.run.at + k > n => Forwards(n, y.run, num[y]),
             NEW y \in Calls, y.run.at + (k + 1) > n
      PROVE  Forwards(n, y.run, num[y])
  <2>1. ASSUME NEW z \in Calls, z.run.at > y.run.at PROVE Forwards(n, z.run, num[z])
    <3>1. y.run.at \in Nat /\ z.run.at \in Nat
      BY CallParts
    <3>2. z.run.at + k > n
      BY <1>2, <2>1, <3>1
    <3> QED
      BY <1>2, <3>2
  <2> QED
    BY <1>1, <2>1, NumForwards
<1>3. 0 \in I
  <2> SUFFICES ASSUME NEW y \in Calls, y.run.at + 0 > n PROVE Forwards(n, y.run, num[y])
    BY DEF num
  <2>1. y.run.at > Len(s) /\ y.run \in Runs
    BY CallParts
  <2> QED
    BY <1>1, <2>1, StepFacts DEF Num
<1>4. \A k \in Nat : k \in I => k + 1 \in I
  BY <1>2 DEF num
<1>5. n \in I
  <2> HIDE DEF I
  <2> QED
    BY <1>3, <1>4, SetInduction
<1>6. \A y \in Calls : Forwards(n, y.run, num[y])
  <2> TAKE y \in Calls
  <2>1. y.run.at + n > n
    BY CallParts
  <2> QED
    BY <1>5, <2>1 DEF num
<1>7. Num(num, s, x) = num[x]
  BY <1>1
<1> QED
  BY <1>6, <1>7, NumForwards DEF num

(* What parse_expr makes of a call, with f for itself: the method it calls,   *)
(* the call it goes on with after a number, after "(", after the rest of the  *)
(* parenthesis, and past another character.                                  *)
Callee(x)        == Tested(x).reg + 1
Numbered(s, x)   == InMethod(parse_num(s)[InMethod(Call(Tested(x)), Callee(x))], x.id)
Opened(s, x)     == Call(Advance(Show(Call(Tested(x)), s, x.run.at, Callee(x))))
Inside(s, x)     == InMethod(Opened(s, x), Opened(s, x).reg)
Closed(s, q, m)  == Leave(IF q.at <= Len(s) /\ s[q.at] = ")" THEN Advance(Show(q, s, q.at, m))
                                                            ELSE Show(q, s, q.at, m))
Outside(f, s, x) == InMethod(Closed(s, f[Inside(s, x)], Callee(x)), x.id)
Skipped(x)       == InMethod(Advance(Tested(x)), x.id)
Expr(f, s, x) ==
    IF x.run.at > Len(s) THEN Leave(x.run)
    ELSE CASE s[x.run.at] \in Digits -> f[Numbered(s, x)]
           [] s[x.run.at] = "("      -> f[Outside(f, s, x)]
           [] s[x.run.at] = ")"      -> Leave(Tested(x))
           [] OTHER                  -> f[Skipped(x)]

(* The cases are told apart by the character.                                *)
LEMMA ExprCases ==
    ASSUME NEW f, NEW s, NEW x
    PROVE  /\ x.run.at > Len(s) => Expr(f, s, x) = Leave(x.run)
           /\ ~(x.run.at > Len(s)) =>
                  \/ s[x.run.at] \in Digits /\ Expr(f, s, x) = f[Numbered(s, x)]
                  \/ s[x.run.at] = "(" /\ Expr(f, s, x) = f[Outside(f, s, x)]
                  \/ s[x.run.at] = ")" /\ Expr(f, s, x) = Leave(Tested(x))
                  \/ s[x.run.at] \notin Digits \cup {"(", ")"} /\ Expr(f, s, x) = f[Skipped(x)]
<1>1. "(" \notin Digits /\ ")" \notin Digits /\ "(" # ")"
  BY DEF Digits
<1>2. \/ s[x.run.at] \in Digits \/ s[x.run.at] = "(" \/ s[x.run.at] = ")"
      \/ s[x.run.at] \notin Digits \cup {"(", ")"}
  OBVIOUS
<1> QED
  BY <1>1, <1>2 DEF Expr

(* Each goes forward from where the character has been tested, and past it.   *)
LEMMA NumberedForwards ==
    ASSUME NEW s, NEW n \in Nat, Len(s) = n, NEW x \in Calls, x.run.at <= n, s[x.run.at] \in Digits
    PROVE  /\ Numbered(s, x) \in Calls /\ Numbered(s, x).run.at > x.run.at
           /\ Forwards(n, Tested(x), Numbered(s, x).run)
<1> DEFINE c == Call(Tested(x))
           y == InMethod(c, Callee(x))
           q == parse_num(s)[y]
<1>1. x.run \in Runs /\ x.id \in Nat
  BY CallParts
<1>2. Tested(x) \in Runs /\ Tested(x).at = x.run.at /\ Callee(x) \in Nat
  BY NextCall DEF Callee
<1>3. c \in Runs /\ c.at = x.run.at /\ Forwards(n, Tested(x), c)
  BY <1>2, StepFacts
<1> HIDE DEF c
<1>4. y \in Calls /\ y.run = c
  BY <1>2, <1>3, CallIs
<1> HIDE DEF y
<1>5. Forwards(n, c, q) /\ q.at > x.run.at
  BY <1>3, <1>4, NumGoesOn
<1> HIDE DEF q
<1>6. Forwards(n, Tested(x), q) /\ q \in Runs
  <2>1. Forwards(n, Tested(x), q)
    BY <1>2, <1>3, <1>5, ForwardsOn
  <2> QED
    BY <2>1 DEF Forwards
<1>7. Numbered(s, x) = InMethod(q, x.id)
  BY DEF Numbered, q, y, c
<1> QED
  BY <1>1, <1>5, <1>6, <1>7, CallIs

(* So does the call in the parenthesis,                                      *)
LEMMA InsideForwards ==
    ASSUME NEW s, NEW n \in Nat, Len(s) = n, NEW x \in Calls, x.run.at <= n
    PROVE  /\ Inside(s, x) \in Calls /\ Inside(s, x).run.at > x.run.at /\ Callee(x) \in Nat
           /\ Forwards(n, Tested(x), Inside(s, x).run)
<1> DEFINE c == Call(Tested(x))
           w == Show(c, s, x.run.at, Callee(x))
           a == Advance(w)
           o == Call(a)
<1>1. x.run \in Runs /\ x.id \in Nat /\ x.run.at \in Nat
  BY CallParts
<1>2. Tested(x) \in Runs /\ Tested(x).at = x.run.at /\ Callee(x) \in Nat
  BY NextCall DEF Callee
<1>3. c \in Runs /\ c.at = x.run.at /\ Forwards(n, Tested(x), c)
  BY <1>2, StepFacts
<1> HIDE DEF c
<1>4. w \in Runs /\ w.at = x.run.at /\ Forwards(n, c, w)
  <2>1. c.at <= x.run.at
    BY <1>1, <1>3
  <2> QED
    BY <1>1, <1>2, <1>3, <2>1, ShowFacts
<1> HIDE DEF w
<1>5. a \in Runs /\ a.at = x.run.at + 1 /\ Forwards(n, w, a)
  BY <1>4, StepFacts
<1> HIDE DEF a
<1>6. o \in Runs /\ o.at = x.run.at + 1 /\ Forwards(n, a, o) /\ o.reg \in Nat
  BY <1>5, StepFacts, RunIs
<1> HIDE DEF o
<1>7. Forwards(n, Tested(x), o)
  <2>1. Forwards(n, Tested(x), w)
    BY <1>2, <1>3, <1>4, ForwardsOn
  <2>2. Forwards(n, Tested(x), a)
    BY <1>2, <1>5, <2>1, ForwardsOn
  <2> QED
    BY <1>2, <1>6, <2>2, ForwardsOn
<1>8. Inside(s, x) = InMethod(o, o.reg)
  BY DEF Inside, Opened, o, a, w, c
<1>9. Inside(s, x) \in Calls /\ Inside(s, x).run = o
  BY <1>6, <1>8, CallIs
<1>10. o.at > x.run.at
  BY <1>1, <1>6
<1> QED
  BY <1>2, <1>7, <1>9, <1>10

(* the end of the parenthesis,                                               *)
LEMMA ClosedForwards ==
    ASSUME NEW s, NEW n \in Nat, Len(s) = n, NEW q \in Runs, NEW m \in Nat
    PROVE  Closed(s, q, m) \in Runs /\ Forwards(n, q, Closed(s, q, m))
<1> DEFINE w == Show(q, s, q.at, m)
           a == Advance(w)
<1>1. q.at \in Nat /\ q.at <= q.at
  BY RunIs
<1>2. w \in Runs /\ Forwards(n, q, w)
  BY <1>1, ShowFacts
<1> HIDE DEF w
<1>3. a \in Runs /\ Forwards(n, q, a)
  BY <1>2, StepFacts, ForwardsOn
<1> HIDE DEF a
<1>4. Closed(s, q, m) = Leave(a) \/ Closed(s, q, m) = Leave(w)
  BY DEF Closed, a, w
<1>5. /\ Leave(a) \in Runs /\ Forwards(n, a, Leave(a))
      /\ Leave(w) \in Runs /\ Forwards(n, w, Leave(w))
  BY <1>2, <1>3, StepFacts
<1>6. Forwards(n, q, Leave(a)) /\ Forwards(n, q, Leave(w))
  BY <1>2, <1>3, <1>5, ForwardsOn
<1> QED
  BY <1>4, <1>5, <1>6

(* and the call after it.                                                    *)
LEMMA OutsideForwards ==
    ASSUME NEW s, NEW n \in Nat, Len(s) = n, NEW f, NEW x \in Calls, x.run.at <= n,
           Forwards(n, Inside(s, x).run, f[Inside(s, x)])
    PROVE  /\ Outside(f, s, x) \in Calls /\ Outside(f, s, x).run.at > x.run.at
           /\ Forwards(n, Tested(x), Outside(f, s, x).run)
<1> DEFINE o == Inside(s, x)
           q == f[o]
           c == Closed(s, q, Callee(x))
<1>1. x.run \in Runs /\ x.id \in Nat /\ x.run.at \in Nat
  BY CallParts
<1>2. /\ o \in Calls /\ o.run.at > x.run.at /\ Callee(x) \in Nat
      /\ Forwards(n, Tested(x), o.run) /\ Tested(x) \in Runs
  BY InsideForwards, NextCall
<1>3. Forwards(n, o.run, q) /\ q \in Runs /\ q.at >= o.run.at
  BY DEF Forwards
<1> HIDE DEF o
<1>4. o.run.at \in Nat /\ q.at \in Nat
  BY <1>2, <1>3, RunIs, CallParts
<1> HIDE DEF q
<1>5. c \in Runs /\ Forwards(n, q, c) /\ c.at >= q.at
  <2>1. c \in Runs /\ Forwards(n, q, c)
    BY <1>2, <1>3, ClosedForwards
  <2> QED
    BY <2>1 DEF Forwards
<1> HIDE DEF c
<1>6. Forwards(n, Tested(x), c)
  <2>1. Forwards(n, Tested(x), q)
    BY <1>2, <1>3, ForwardsOn
  <2> QED
    BY <1>2, <1>5, <2>1, ForwardsOn
<1>7. c.at > x.run.at
  <2>1. c.at \in Nat
    BY <1>5, RunIs
  <2> QED
    BY <1>1, <1>2, <1>3, <1>4, <1>5, <2>1
<1>8. Outside(f, s, x) = InMethod(c, x.id)
  BY DEF Outside, c, q, o
<1> QED
  BY <1>1, <1>5, <1>6, <1>7, <1>8, CallIs

(* f goes forward from every call later than x.                              *)
Onwards(f, n, x) == \A y \in Calls : y.run.at > x.run.at => Forwards(n, y.run, f[y])

(* If it does, parse_expr goes forward from x, and sees its character.        *)
LEMMA ExprForwards ==
    ASSUME NEW s, NEW n \in Nat, Len(s) = n, NEW f, NEW x \in Calls, Onwards(f, n, x)
    PROVE  /\ Forwards(n, x.run, Expr(f, s, x))
           /\ x.run.at <= n => \E v \in Seen(Expr(f, s, x)) : v.from = x.run.at
<1>1. x.run \in Runs /\ x.run.at \in Nat
  BY CallParts
<1>2. CASE x.run.at > Len(s)
  BY <1>1, <1>2, ExprCases, StepFacts
<1>3. CASE ~(x.run.at > Len(s))
  <2>1. x.run.at <= n
    BY <1>1, <1>3
  <2>2. /\ Tested(x) \in Runs /\ Forwards(n, x.run, Tested(x))
        /\ \E v \in Seen(Tested(x)) : v.from = x.run.at
    BY <2>1, NextCall
  <2>3. ASSUME NEW y \in Calls, y.run.at > x.run.at, Forwards(n, Tested(x), y.run)
        PROVE  Forwards(n, Tested(x), f[y])
    <3>1. Forwards(n, y.run, f[y])
      BY <2>3 DEF Onwards
    <3> QED
      BY <2>2, <2>3, <3>1, ForwardsOn
  <2>4. Forwards(n, Tested(x), Expr(f, s, x))
    <3>1. CASE s[x.run.at] \in Digits /\ Expr(f, s, x) = f[Numbered(s, x)]
      BY <2>1, <2>3, <3>1, NumberedForwards
    <3>2. CASE s[x.run.at] = "(" /\ Expr(f, s, x) = f[Outside(f, s, x)]
      <4>1. Forwards(n, Inside(s, x).run, f[Inside(s, x)])
        BY <2>1, InsideForwards DEF Onwards
      <4>2. /\ Outside(f, s, x) \in Calls /\ Outside(f, s, x).run.at > x.run.at
            /\ Forwards(n, Tested(x), Outside(f, s, x).run)
        BY <2>1, <4>1, OutsideForwards
      <4> QED
        BY <2>3, <3>2, <4>2
    <3>3. CASE s[x.run.at] = ")" /\ Expr(f, s, x) = Leave(Tested(x))
      BY <2>2, <3>3, StepFacts
    <3>4. CASE Expr(f, s, x) = f[Skipped(x)]
      <4>1. Skipped(x) \in Calls /\ Skipped(x).run.at > x.run.at /\ Forwards(n, Tested(x), Skipped(x).run)
        BY <1>1, <2>1, <2>2, NextCall, StepFacts DEF Skipped
      <4> QED
        BY <2>3, <3>4, <4>1
    <3> QED
      BY <1>3, <3>1, <3>2, <3>3, <3>4, ExprCases
  <2>5. Forwards(n, x.run, Expr(f, s, x))
    BY <1>1, <2>2, <2>4, ForwardsOn
  <2> QED
    BY <2>2, <2>4, <2>5 DEF Forwards
<1> QED
  BY <1>1, <1>2, <1>3

(* What parse_expr makes of a call depends on later calls only.               *)
LEMMA ExprSame ==
    ASSUME NEW s, NEW n \in Nat, Len(s) = n, NEW f, NEW g, NEW x \in Calls, Onwards(f, n, x),
           \A y \in Calls : y.run.at > x.run.at => f[y] = g[y]
    PROVE  Expr(f, s, x) = Expr(g, s, x)
<1>1. x.run.at \in Nat
  BY CallParts
<1>2. CASE x.run.at > Len(s)
  BY <1>2, ExprCases
<1>3. CASE ~(x.run.at > Len(s))
  <2>1. x.run.at <= n
    BY <1>1, <1>3
  <2>2. s[x.run.at] \in Digits => f[Numbered(s, x)] = g[Numbered(s, x)]
    BY <2>1, NumberedForwards
  <2>3. f[Inside(s, x)] = g[Inside(s, x)] /\ Forwards(n, Inside(s, x).run, f[Inside(s, x)])
    BY <2>1, InsideForwards DEF Onwards
  <2>4. Outside(f, s, x) = Outside(g, s, x)
    BY <2>3 DEF Outside
  <2>5. f[Outside(f, s, x)] = g[Outside(g, s, x)]
    <3>1. Outside(f, s, x) \in Calls /\ Outside(f, s, x).run.at > x.run.at
      BY <2>1, <2>3, OutsideForwards
    <3>2. f[Outside(f, s, x)] = g[Outside(f, s, x)]
      BY <3>1
    <3> QED
      BY <2>4, <3>2
  <2>6. f[Skipped(x)] = g[Skipped(x)]
    <3>1. Skipped(x) \in Calls /\ Skipped(x).run.at > x.run.at
      BY <1>1, <2>1, NextCall DEF Skipped
    <3> QED
      BY <3>1
  <2> QED
    BY <1>3, <2>2, <2>5, <2>6 DEF Expr
<1> QED
  BY <1>2, <1>3

(* The function parse_expr exists, and goes forward.                         *)
LEMMA ExprExists ==
    ASSUME NEW s, NEW n \in Nat, Len(s) = n
    PROVE  \E f : f = [x \in Calls |-> Expr(f, s, x)]
<1> DEFINE Right(f, x) == f[x] = Expr(f, s, x) /\ Forwards(n, x.run, f[x])
           Fits(f, k) == \A x \in Calls : x.run.at + k > n => Right(f, x)
           I == {k \in Nat : \E f \in [Calls -> Runs] : Fits(f, k)}
<1>1. 0 \in I
  <2> DEFINE f == [x \in Calls |-> Leave(x.run)]
  <2>1. f \in [Calls -> Runs]
    BY CallParts, StepFacts
  <2>2. ASSUME NEW x \in Calls, x.run.at + 0 > n PROVE Right(f, x)
    <3>1. x.run.at > Len(s) /\ x.run \in Runs
      BY <2>2, CallParts
    <3>2. f[x] = Leave(x.run)
      OBVIOUS
    <3> HIDE DEF f
    <3>3. Expr(f, s, x) = Leave(x.run)
      BY <3>1, ExprCases
    <3> QED
      BY <3>1, <3>2, <3>3, StepFacts
  <2> HIDE DEF f
  <2> QED
    BY <2>1, <2>2
<1>2. ASSUME NEW k \in Nat, k \in I PROVE k + 1 \in I
  <2>1. PICK f \in [Calls -> Runs] : Fits(f, k)
    BY <1>2
  <2> DEFINE g == [x \in Calls |-> IF x.run.at + (k + 1) > n THEN Expr(f, s, x) ELSE x.run]
  <2>2. ASSUME NEW x \in Calls, x.run.at + (k + 1) > n, NEW y \in Calls, y.run.at > x.run.at
        PROVE  Right(f, y)
    <3>1. y.run.at \in Nat /\ x.run.at \in Nat
      BY CallParts
    <3>2. y.run.at + k > n
      BY <2>2, <3>1
    <3> QED
      BY <2>1, <3>2
  <2>3. ASSUME NEW x \in Calls, x.run.at + (k + 1) > n
        PROVE  Onwards(f, n, x) /\ Forwards(n, x.run, Expr(f, s, x))
    <3>1. Onwards(f, n, x)
      BY <2>2, <2>3 DEF Onwards
    <3> QED
      BY <3>1, ExprForwards
  <2>4. \A x \in Calls : x.run.at + (k + 1) > n => g[x] = Expr(f, s, x)
    OBVIOUS
  <2>5. g \in [Calls -> Runs]
    <3>1. ASSUME NEW x \in Calls PROVE (IF x.run.at + (k + 1) > n THEN Expr(f, s, x) ELSE x.run) \in Runs
      BY <2>3, CallParts DEF Forwards
    <3> QED
      BY <3>1
  <2> HIDE DEF g
  <2>6. ASSUME NEW x \in Calls, x.run.at + (k + 1) > n PROVE Right(g, x)
    <3>1. ASSUME NEW y \in Calls, y.run.at > x.run.at PROVE f[y] = g[y]
      <4>1. y.run.at \in Nat /\ x.run.at \in Nat
        BY CallParts
      <4>2. y.run.at + (k + 1) > n
        BY <2>6, <3>1, <4>1
      <4>3. g[y] = Expr(f, s, y)
        BY <2>4, <4>2
      <4>4. f[y] = Expr(f, s, y)
        BY <2>2, <2>6, <3>1
      <4> QED
        BY <4>3, <4>4
    <3>2. Expr(f, s, x) = Expr(g, s, x)
      BY <2>3, <2>6, <3>1, ExprSame
    <3> QED
      BY <2>3, <2>4, <2>6, <3>2
  <2>7. Fits(g, k + 1)
    BY <2>6
  <2> QED
    BY <2>5, <2>7
<1>3. n \in I
  <2> HIDE DEF I
  <2> QED
    BY <1>1, <1>2, SetInduction
<1>4. PICK f \in [Calls -> Runs] : Fits(f, n)
  BY <1>3
<1>5. ASSUME NEW x \in Calls PROVE f[x] = Expr(f, s, x)
  <2>1. x.run.at + n > n
    BY CallParts
  <2> QED
    BY <1>4, <2>1
<1>6. f = [x \in Calls |-> Expr(f, s, x)]
  <2>1. f = [x \in Calls |-> f[x]]
    OBVIOUS
  <2> QED
    BY <1>5, <2>1, Zenon
<1> QED
  BY <1>6

(* So each call does what the source says.                                   *)
LEMMA ExprStep ==
    ASSUME NEW s, NEW n \in Nat, Len(s) = n
    PROVE  \A x \in Calls : parse_expr(s)[x] = Expr(parse_expr(s), s, x)
<1> DEFINE h == CHOOSE f : f = [x \in Calls |-> Expr(f, s, x)]
<1>1. \E f : f = [x \in Calls |-> Expr(f, s, x)]
  BY ExprExists
<1>2. h = [x \in Calls |-> Expr(h, s, x)]
  BY <1>1, Zenon
<1>3. parse_expr(s) = h
  BY Zenon DEF parse_expr, Expr, Numbered, Outside, Inside, Opened, Closed, Skipped, Callee, Tested
<1> HIDE DEF h
<1>4. \A x \in Calls : h[x] = Expr(h, s, x)
  BY <1>2, Zenon
<1> QED
  BY <1>3, <1>4

(* parse_expr goes forward, and sees the character it is at.                  *)
LEMMA ExprGoesOn ==
    ASSUME NEW s, NEW n \in Nat, Len(s) = n
    PROVE  \A x \in Calls : /\ Forwards(n, x.run, parse_expr(s)[x])
                            /\ x.run.at <= n => \E v \in Seen(parse_expr(s)[x]) : v.from = x.run.at
<1> DEFINE I == {k \in Nat : \A y \in Calls : y.run.at + k > n => Forwards(n, y.run, parse_expr(s)[y])}
           expr == parse_expr(s)
<1>1. \A y \in Calls : expr[y] = Expr(expr, s, y)
  BY ExprStep
<1> HIDE DEF expr
<1>2. ASSUME NEW k \in Nat, \A y \in Calls : y.run.at + k > n => Forwards(n, y.run, expr[y]),
             NEW y \in Calls, y.run.at + (k + 1) > n
      PROVE  Forwards(n, y.run, expr[y])
  <2>1. ASSUME NEW z \in Calls, z.run.at > y.run.at PROVE Forwards(n, z.run, expr[z])
    <3>1. y.run.at \in Nat /\ z.run.at \in Nat
      BY CallParts
    <3>2. z.run.at + k > n
      BY <1>2, <2>1, <3>1
    <3> QED
      BY <1>2, <3>2
  <2>2. Onwards(expr, n, y)
    BY <2>1 DEF Onwards
  <2> QED
    BY <1>1, <2>2, ExprForwards
<1>3. 0 \in I
  <2> SUFFICES ASSUME NEW y \in Calls, y.run.at + 0 > n PROVE Forwards(n, y.run, expr[y])
    BY DEF expr
  <2>1. y.run.at > Len(s) /\ y.run \in Runs
    BY CallParts
  <2> QED
    BY <1>1, <2>1, ExprCases, StepFacts
<1>4. \A k \in Nat : k \in I => k + 1 \in I
  BY <1>2 DEF expr
<1>5. n \in I
  <2> HIDE DEF I
  <2> QED
    BY <1>3, <1>4, SetInduction
<1>6. ASSUME NEW y \in Calls PROVE Forwards(n, y.run, expr[y])
  <2>1. y.run.at + n > n
    BY CallParts
  <2> QED
    BY <1>5, <2>1 DEF expr
<1>7. ASSUME NEW y \in Calls, y.run.at <= n PROVE \E v \in Seen(expr[y]) : v.from = y.run.at
  <2>1. Onwards(expr, n, y) /\ expr[y] = Expr(expr, s, y)
    BY <1>1, <1>6 DEF Onwards
  <2>2. \E v \in Seen(Expr(expr, s, y)) : v.from = y.run.at
    BY <1>7, <2>1, ExprForwards
  <2> QED
    BY <2>1, <2>2, Zenon
<1> QED
  BY <1>6, <1>7 DEF expr

(* What a run has seen of the first i characters.  Two runs, on inputs with   *)
(* the same first i characters, agree if they are the same and not past them, *)
(* or are both past them and have seen the same of them.                     *)
Low(i, r)      == {v \in Seen(r) : v.from <= i}
Agree(i, p, q) == \/ p = q /\ p.at <= i
                  \/ p.at > i /\ q.at > i /\ Low(i, p) = Low(i, q)

SameStart(i, n, s, t) == Len(s) = n /\ Len(t) = n /\ i <= n /\ \A j \in 1 .. i : s[j] = t[j]

(* What a run has seen are values.                                           *)
LEMMA SeenValues ==
    ASSUME NEW r \in Runs, NEW v \in Seen(r)
    PROVE  v.from \in Nat /\ v.at \in Nat /\ v.mid \in Nat
<1>1. r.shown \in Seq(Values)
  BY RunIs
<1>2. \A i \in DOMAIN r.shown : r.shown[i] \in Values
  BY <1>1, LenProperties, ElementOfSeq
<1> QED
  BY <1>2 DEF Seen, Elements, Values

(* A run that is past them sees no more of them.                             *)
LEMMA PassedStays ==
    ASSUME NEW i \in Nat, NEW n \in Nat, NEW p \in Runs, NEW q, p.at > i, Forwards(n, p, q)
    PROVE  q \in Runs /\ q.at > i /\ Low(i, q) = Low(i, p)
<1>1. q \in Runs /\ p.at <= q.at /\ Seen(p) \subseteq Seen(q)
  BY DEF Forwards
<1>2. p.at \in Nat /\ q.at \in Nat
  BY <1>1, RunIs
<1>3. ASSUME NEW v \in Seen(q), v.from <= i PROVE v \in Seen(p)
  <2>1. v.from \in Nat
    BY <1>1, SeenValues
  <2>2. v \in Seen(q) \ Seen(p) => p.at <= v.from
    BY DEF Forwards
  <2> QED
    BY <1>2, <1>3, <2>1, <2>2
<1>4. Low(i, q) = Low(i, p)
  BY <1>1, <1>3 DEF Low
<1> QED
  BY <1>1, <1>2, <1>4

(* A run agrees with itself.                                                 *)
LEMMA AgreeSame == ASSUME NEW i \in Nat, NEW r \in Runs PROVE Agree(i, r, r)
BY RunIs DEF Agree

(* Runs that agree go on to agree, if they do as long as they are the same.   *)
LEMMA AgreeOn ==
    ASSUME NEW i \in Nat, NEW n \in Nat, NEW p \in Runs, NEW q \in Runs, Agree(i, p, q),
           NEW p2, NEW q2, Forwards(n, p, p2), Forwards(n, q, q2),
           p = q /\ p.at <= i => Agree(i, p2, q2)
    PROVE  Agree(i, p2, q2)
<1>1. CASE p = q /\ p.at <= i
  BY <1>1
<1>2. CASE p.at > i /\ q.at > i /\ Low(i, p) = Low(i, q)
  <2>1. p2.at > i /\ Low(i, p2) = Low(i, p) /\ q2.at > i /\ Low(i, q2) = Low(i, q)
    BY <1>2, PassedStays
  <2> QED
    BY <1>2, <2>1 DEF Agree
<1> QED
  BY <1>1, <1>2 DEF Agree

(* From one call, parse_num on the one input and on the other end in runs     *)
(* that agree.                                                               *)
LEMMA NumAgrees ==
    ASSUME NEW i \in Nat, NEW n \in Nat, NEW s, NEW t, SameStart(i, n, s, t)
    PROVE  \A x \in Calls : Agree(i, parse_num(s)[x], parse_num(t)[x])
<1> DEFINE f == parse_num(s)
           g == parse_num(t)
           I == {k \in Nat : \A y \in Calls : y.run.at + k > i => Agree(i, f[y], g[y])}
<1>0. Len(s) = n /\ Len(t) = n /\ i <= n /\ \A j \in 1 .. i : s[j] = t[j]
  BY DEF SameStart
<1>1. \A y \in Calls : /\ f[y] = Num(f, s, y) /\ Forwards(n, y.run, f[y])
                       /\ g[y] = Num(g, t, y) /\ Forwards(n, y.run, g[y])
  BY <1>0, NumStep, NumGoesOn
<1> HIDE DEF f, g
<1>2. ASSUME NEW y \in Calls, y.run.at > i PROVE Agree(i, f[y], g[y])
  <2>1. y.run \in Runs /\ ~(y.run.at <= i)
    BY <1>2, CallParts
  <2>2. Agree(i, y.run, y.run)
    BY <2>1, AgreeSame
  <2> QED
    BY <1>1, <2>1, <2>2, AgreeOn
<1>3. ASSUME NEW k \in Nat, \A y \in Calls : y.run.at + k > i => Agree(i, f[y], g[y]),
             NEW y \in Calls, y.run.at + (k + 1) > i, ~(y.run.at > i)
      PROVE  Agree(i, f[y], g[y])
  <2> DEFINE z == InMethod(Advance(Tested(y)), y.id)
  <2>1. y.run.at \in 1 .. i /\ y.run.at <= n /\ ~(y.run.at > n) /\ y.run.at \in Nat
    BY <1>0, <1>3, CallParts
  <2>2. z \in Calls /\ z.run.at = y.run.at + 1 /\ Tested(y) \in Runs
    BY <2>1, NextCall
  <2> HIDE DEF z
  <2>3. Agree(i, f[z], g[z])
    BY <1>3, <2>1, <2>2
  <2>4. /\ f[y] = IF s[y.run.at] \in Digits THEN f[z] ELSE Leave(Tested(y))
        /\ g[y] = IF t[y.run.at] \in Digits THEN g[z] ELSE Leave(Tested(y))
    BY <1>0, <1>1, <2>1 DEF Num, z
  <2>5. s[y.run.at] = t[y.run.at]
    BY <1>0, <2>1
  <2>6. Agree(i, Leave(Tested(y)), Leave(Tested(y)))
    BY <2>2, StepFacts, AgreeSame
  <2> QED
    BY <2>3, <2>4, <2>5, <2>6
<1>4. 0 \in I
  <2> SUFFICES ASSUME NEW y \in Calls, y.run.at + 0 > i PROVE Agree(i, f[y], g[y])
    BY DEF f, g
  <2>1. y.run.at > i
    BY CallParts
  <2> QED
    BY <1>2, <2>1
<1>5. \A k \in Nat : k \in I => k + 1 \in I
  BY <1>2, <1>3 DEF f, g
<1>6. i \in I
  <2> HIDE DEF I
  <2> QED
    BY <1>4, <1>5, SetInduction
<1>7. ASSUME NEW y \in Calls PROVE Agree(i, f[y], g[y])
  <2>1. y.run.at + i > i
    BY CallParts
  <2> QED
    BY <1>6, <2>1 DEF f, g
<1> QED
  BY <1>7 DEF f, g

(* So they do after a parenthesis.                                           *)
LEMMA ClosedAgrees ==
    ASSUME NEW i \in Nat, NEW n \in Nat, NEW s, NEW t, SameStart(i, n, s, t), NEW m \in Nat,
           NEW p \in Runs, NEW q \in Runs, Agree(i, p, q)
    PROVE  Agree(i, Closed(s, p, m), Closed(t, q, m))
<1>1. Len(s) = n /\ Len(t) = n /\ i <= n /\ \A j \in 1 .. i : s[j] = t[j]
  BY DEF SameStart
<1>2. /\ Closed(s, p, m) \in Runs /\ Forwards(n, p, Closed(s, p, m))
      /\ Closed(t, q, m) \in Runs /\ Forwards(n, q, Closed(t, q, m))
  BY <1>1, ClosedForwards
<1>3. ASSUME p = q, p.at <= i PROVE Closed(s, p, m) = Closed(t, q, m)
  <2>1. p.at \in 1 .. i /\ p.at <= n
    BY <1>1, <1>3, RunIs
  <2>2. Show(p, s, p.at, m) = Show(q, t, q.at, m)
    BY <1>1, <1>3, <2>1 DEF Show
  <2>3. s[p.at] = t[q.at]
    BY <1>1, <1>3, <2>1
  <2> QED
    BY <1>1, <1>3, <2>2, <2>3 DEF Closed
<1>4. p = q /\ p.at <= i => Agree(i, Closed(s, p, m), Closed(t, q, m))
  BY <1>2, <1>3, AgreeSame
<1> QED
  BY <1>2, <1>4, AgreeOn

(* And parse_expr.                                                           *)
LEMMA ExprAgrees ==
    ASSUME NEW i \in Nat, NEW n \in Nat, NEW s, NEW t, SameStart(i, n, s, t)
    PROVE  \A x \in Calls : Agree(i, parse_expr(s)[x], parse_expr(t)[x])
<1> DEFINE f == parse_expr(s)
           g == parse_expr(t)
           I == {k \in Nat : \A y \in Calls : y.run.at + k > i => Agree(i, f[y], g[y])}
<1>0. Len(s) = n /\ Len(t) = n /\ i <= n /\ \A j \in 1 .. i : s[j] = t[j]
  BY DEF SameStart
<1>1. \A y \in Calls : /\ f[y] = Expr(f, s, y) /\ Forwards(n, y.run, f[y])
                       /\ g[y] = Expr(g, t, y) /\ Forwards(n, y.run, g[y])
  BY <1>0, ExprStep, ExprGoesOn
<1> HIDE DEF f, g
<1>2. ASSUME NEW y \in Calls, y.run.at > i PROVE Agree(i, f[y], g[y])
  <2>1. y.run \in Runs /\ ~(y.run.at <= i)
    BY <1>2, CallParts
  <2>2. Agree(i, y.run, y.run)
    BY <2>1, AgreeSame
  <2> QED
    BY <1>1, <2>1, <2>2, AgreeOn
<1>3. ASSUME NEW k \in Nat, \A y \in Calls : y.run.at + k > i => Agree(i, f[y], g[y]),
             NEW x \in Calls, x.run.at + (k + 1) > i, ~(x.run.at > i)
      PROVE  Agree(i, f[x], g[x])
  <2> DEFINE c == s[x.run.at]
  <2>1. x.run.at \in 1 .. i /\ x.run.at <= n /\ ~(x.run.at > n) /\ x.run.at \in Nat /\ x.run \in Runs
    BY <1>0, <1>3, CallParts
  <2>2. c = t[x.run.at]
    BY <1>0, <2>1
  <2> HIDE DEF c
  <2>3. \/ c \in Digits /\ f[x] = f[Numbered(s, x)] /\ g[x] = g[Numbered(t, x)]
        \/ c = "(" /\ f[x] = f[Outside(f, s, x)] /\ g[x] = g[Outside(g, t, x)]
        \/ c = ")" /\ f[x] = Leave(Tested(x)) /\ g[x] = Leave(Tested(x))
        \/ f[x] = f[Skipped(x)] /\ g[x] = g[Skipped(x)]
    <3>1. f[x] = Expr(f, s, x) /\ g[x] = Expr(g, t, x) /\ ~(x.run.at > Len(s)) /\ ~(x.run.at > Len(t))
      BY <1>0, <1>1, <2>1
    <3>2. s[x.run.at] = c /\ t[x.run.at] = c
      BY <2>2 DEF c
    <3>3. "(" \notin Digits /\ ")" \notin Digits /\ "(" # ")"
      BY DEF Digits
    <3>4. \/ c \in Digits /\ f[x] = f[Numbered(s, x)]
          \/ c = "(" /\ f[x] = f[Outside(f, s, x)]
          \/ c = ")" /\ f[x] = Leave(Tested(x))
          \/ c \notin Digits \cup {"(", ")"} /\ f[x] = f[Skipped(x)]
      BY <3>1, <3>2, ExprCases
    <3>5. \/ c \in Digits /\ g[x] = g[Numbered(t, x)]
          \/ c = "(" /\ g[x] = g[Outside(g, t, x)]
          \/ c = ")" /\ g[x] = Leave(Tested(x))
          \/ c \notin Digits \cup {"(", ")"} /\ g[x] = g[Skipped(x)]
      BY <3>1, <3>2, ExprCases
    <3> QED
      BY <3>3, <3>4, <3>5
  <2>4. ASSUME NEW y \in Calls, NEW z \in Calls, Agree(i, y.run, z.run), y.id = z.id, y.run.at > x.run.at
        PROVE  Agree(i, f[y], g[z])
    <3>1. ASSUME y.run = z.run PROVE Agree(i, f[y], g[z])
      <4>1. y = z
        BY <2>4, <3>1 DEF Calls
      <4>2. y.run.at + k > i
        BY <1>3, <2>1, <2>4, CallParts
      <4> QED
        BY <1>3, <4>1, <4>2
    <3>2. y.run \in Runs /\ z.run \in Runs
      BY CallParts
    <3> QED
      BY <1>1, <2>4, <3>1, <3>2, AgreeOn
  <2>5. CASE c \in Digits /\ f[x] = f[Numbered(s, x)] /\ g[x] = g[Numbered(t, x)]
    <3> DEFINE y == Numbered(s, x)
               z == Numbered(t, x)
    <3>1. y \in Calls /\ y.run.at > x.run.at /\ z \in Calls
      BY <1>0, <2>1, <2>2, <2>5, NumberedForwards DEF c
    <3>2. Agree(i, y.run, z.run) /\ y.id = z.id
      <4> DEFINE w == InMethod(Call(Tested(x)), Callee(x))
      <4>1. w \in Calls
        <5>1. Tested(x) \in Runs /\ Callee(x) \in Nat
          BY <2>1, NextCall DEF Callee
        <5>2. Call(Tested(x)) \in Runs
          BY <5>1, StepFacts
        <5> QED
          BY <5>1, <5>2, CallIs
      <4>2. Agree(i, parse_num(s)[w], parse_num(t)[w])
        BY <4>1, NumAgrees
      <4> QED
        BY <4>2 DEF Numbered, InMethod
    <3> HIDE DEF y, z
    <3>3. Agree(i, f[y], g[z])
      BY <2>4, <3>1, <3>2
    <3>4. f[x] = f[y] /\ g[x] = g[z]
      BY <2>5 DEF y, z
    <3> QED
      BY <3>3, <3>4
  <2>6. CASE c = "(" /\ f[x] = f[Outside(f, s, x)] /\ g[x] = g[Outside(g, t, x)]
    <3> DEFINE o == Inside(s, x)
               y == Outside(f, s, x)
               z == Outside(g, t, x)
    <3>1. o = Inside(t, x)
      <4>1. Show(Call(Tested(x)), s, x.run.at, Callee(x)) = Show(Call(Tested(x)), t, x.run.at, Callee(x))
        BY <1>0, <2>1 DEF Show
      <4> QED
        BY <4>1 DEF Inside, Opened
    <3>2. o \in Calls /\ o.run.at > x.run.at /\ Callee(x) \in Nat /\ o.run \in Runs
      BY <1>0, <2>1, InsideForwards, CallParts
    <3>3. Forwards(n, o.run, f[o]) /\ Forwards(n, o.run, g[o])
      BY <1>1, <3>2
    <3>4. y \in Calls /\ y.run.at > x.run.at /\ z \in Calls
      BY <1>0, <2>1, <3>1, <3>3, OutsideForwards
    <3>5. Agree(i, f[o], g[o]) /\ f[o] \in Runs /\ g[o] \in Runs
      <4>1. Agree(i, o.run, o.run)
        BY <3>2, AgreeSame
      <4>2. Agree(i, f[o], g[o])
        BY <2>4, <3>2, <4>1
      <4> QED
        BY <3>3, <4>2 DEF Forwards
    <3>6. Agree(i, y.run, z.run) /\ y.id = z.id
      <4>1. Agree(i, Closed(s, f[o], Callee(x)), Closed(t, g[o], Callee(x)))
        BY <3>2, <3>5, ClosedAgrees
      <4> QED
        BY <3>1, <4>1 DEF Outside, InMethod
    <3> HIDE DEF o, y, z
    <3>7. Agree(i, f[y], g[z])
      BY <2>4, <3>4, <3>6
    <3>8. f[x] = f[y] /\ g[x] = g[z]
      BY <2>6 DEF y, z
    <3> QED
      BY <3>7, <3>8
  <2>7. Tested(x) \in Runs /\ Skipped(x) \in Calls /\ Skipped(x).run.at > x.run.at
    BY <2>1, NextCall DEF Skipped
  <2>8. CASE c = ")" /\ f[x] = Leave(Tested(x)) /\ g[x] = Leave(Tested(x))
    BY <2>7, <2>8, StepFacts, AgreeSame
  <2>9. CASE f[x] = f[Skipped(x)] /\ g[x] = g[Skipped(x)]
    <3>1. Agree(i, Skipped(x).run, Skipped(x).run)
      BY <2>7, CallParts, AgreeSame
    <3> QED
      BY <2>4, <2>7, <2>9, <3>1
  <2> QED
    BY <2>5, <2>6, <2>8, <2>9, <2>3
<1>4. 0 \in I
  <2> SUFFICES ASSUME NEW y \in Calls, y.run.at + 0 > i PROVE Agree(i, f[y], g[y])
    BY DEF f, g
  <2>1. y.run.at > i
    BY CallParts
  <2> QED
    BY <1>2, <2>1
<1>5. \A k \in Nat : k \in I => k + 1 \in I
  BY <1>2, <1>3 DEF f, g
<1>6. i \in I
  <2> HIDE DEF I
  <2> QED
    BY <1>4, <1>5, SetInduction
<1>7. ASSUME NEW y \in Calls PROVE Agree(i, f[y], g[y])
  <2>1. y.run.at + i > i
    BY CallParts
  <2> QED
    BY <1>6, <2>1 DEF f, g
<1> QED
  BY <1>7 DEF f, g

(* The run of calc on an input, from main on.                                *)
Main    == InMethod([at |-> 1, reg |-> 2, n |-> 0, shown |-> <<>>], 2)
Calc(s) == parse_expr(s)[Main]

(* It begins at the first character, and has seen nothing.                    *)
LEMMA MainFacts == Main \in Calls /\ Main.run \in Runs /\ Main.run.at = 1 /\ Seen(Main.run) = {}
<1> DEFINE r == [at |-> 1, reg |-> 2, n |-> 0, shown |-> <<>>]
<1>1. r \in Runs /\ r.at = 1 /\ r.shown = <<>>
  BY EmptySeq DEF Runs
<1> HIDE DEF r
<1>2. Main \in Calls /\ Main.run = r
  BY <1>1, CallIs DEF Main, r
<1>3. Seen(r) = {}
  BY <1>1 DEF Seen, Elements
<1> QED
  BY <1>1, <1>2, <1>3

(* What calc shows: single characters of the input, each instance of the      *)
(* program one, and the first character in any case.                         *)
LEMMA CalcFacts ==
    ASSUME NEW s, NEW n \in Nat, Len(s) = n
    PROVE  /\ Calc(s) \in Runs /\ CalcShown(s) = Calc(s).shown /\ Elements(CalcShown(s)) = Seen(Calc(s))
           /\ \A v \in Seen(Calc(s)) : v.from = v.to /\ v.from \in 1 .. n /\ v.mid \in Nat /\ v.at \in Nat
           /\ \A v, w \in Seen(Calc(s)) : v.at = w.at => v = w
           /\ n >= 1 => Seen(Calc(s)) # {}
<1>1. Forwards(n, Main.run, Calc(s)) /\ n >= 1 => \E v \in Seen(Calc(s)) : v.from = 1
  BY MainFacts, ExprGoesOn DEF Calc
<1>2. Forwards(n, Main.run, Calc(s))
  BY MainFacts, ExprGoesOn DEF Calc
<1>3. Calc(s) \in Runs
  BY <1>2 DEF Forwards
<1>4. CalcShown(s) = Calc(s).shown
  BY DEF CalcShown, Calc, Main
<1>5. \A v \in Seen(Calc(s)) : v \in Seen(Calc(s)) \ Seen(Main.run)
  BY MainFacts
<1>6. ASSUME NEW v \in Seen(Calc(s))
      PROVE  v.from = v.to /\ v.from \in 1 .. n /\ v.mid \in Nat /\ v.at \in Nat
  <2>1. v.from \in Nat /\ v.mid \in Nat /\ v.at \in Nat
    BY <1>3, SeenValues
  <2>2. v.from = v.to /\ 1 <= v.from /\ v.from <= n
    BY <1>2, <1>5, MainFacts DEF Forwards
  <2> QED
    BY <2>1, <2>2
<1>7. ASSUME NEW v \in Seen(Calc(s)), NEW w \in Seen(Calc(s)), v.at = w.at PROVE v = w
  BY <1>2, <1>5, <1>7 DEF Forwards
<1>8. Elements(CalcShown(s)) = Seen(Calc(s))
  BY <1>4 DEF Seen
<1> QED
  BY <1>1, <1>2, <1>3, <1>4, <1>6, <1>7, <1>8

(* calc is a subject, as ShownAssumption asks of one.                         *)
THEOREM CalcIsASubject ==
    \A s : Len(s) \in Nat =>
        /\ CalcShown(s) \in Seq([from : 1 .. Len(s), to : 1 .. Len(s), mid : Nat, at : Nat])
        /\ \A k \in DOMAIN CalcShown(s) : CalcShown(s)[k].from <= CalcShown(s)[k].to
<1> SUFFICES ASSUME NEW s, Len(s) \in Nat
             PROVE  /\ CalcShown(s) \in Seq([from : 1 .. Len(s), to : 1 .. Len(s), mid : Nat, at : Nat])
                    /\ \A k \in DOMAIN CalcShown(s) : CalcShown(s)[k].from <= CalcShown(s)[k].to
  OBVIOUS
<1> DEFINE q == CalcShown(s)
           T == [from : 1 .. Len(s), to : 1 .. Len(s), mid : Nat, at : Nat]
<1>1. /\ q \in Seq(Values)
      /\ \A v \in Elements(q) : v.from = v.to /\ v.from \in 1 .. Len(s) /\ v.mid \in Nat /\ v.at \in Nat
  BY CalcFacts, RunIs
<1> HIDE DEF q
<1>2. q \in [1 .. Len(q) -> Values] /\ Len(q) \in Nat
  BY <1>1, LenProperties
<1>3. ASSUME NEW k \in 1 .. Len(q) PROVE q[k] \in T /\ q[k].from <= q[k].to
  <2>1. q[k] \in Elements(q) /\ q[k] \in Values
    BY <1>2 DEF Elements
  <2>2. q[k].from = q[k].to /\ q[k].from \in 1 .. Len(s) /\ q[k].mid \in Nat /\ q[k].at \in Nat
    BY <1>1, <2>1
  <2> QED
    BY <2>1, <2>2 DEF Values
<1> HIDE DEF T
<1>4. q \in [1 .. Len(q) -> T]
  BY <1>2, <1>3
<1>5. q \in Seq(T)
  BY <1>2, <1>4, SeqDef
<1> QED
  BY <1>2, <1>3, <1>5 DEF q, T

(* A mutated input has the length of the input.                              *)
LEMMA MutatedLen ==
    ASSUME NEW t, NEW n \in Nat, t \in Seq(STRING), Len(t) = n, NEW D, NEW i, NEW s \in Mutated(t, D, i)
    PROVE  Len(s) = n
<1>1. DOMAIN t = 1 .. n
  BY LenProperties
<1>2. PICK f : s = [p \in DOMAIN t |-> IF p \in {j \in D : j > i} THEN f[p] ELSE t[p]]
  BY DEF Mutated
<1> DEFINE S == {s[p] : p \in 1 .. n}
<1>3. s \in [1 .. n -> S]
  BY <1>1, <1>2
<1> HIDE DEF S
<1>4. s \in Seq(S)
  BY <1>3, SeqDef
<1> QED
  BY <1>3, <1>4, LenProperties

------------------------------------------------------------------------------
(* The resolver on calc                                                      *)

(* The subject is calc.                                                      *)
IsCalc == \A s : Shown(s) = CalcShown(s)

(* The runs of calc are stable: it reads its input once, from left to right,  *)
(* so that what it shows of the characters up to the index depends on these   *)
(* alone, and a character that is replaced is never the one that is looked    *)
(* for.                                                                      *)
THEOREM CalcRunsAreStable == ASSUME IsCalc PROVE RunsAreStable
<1> SUFFICES ASSUME NEW t \in Inputs, NEW k \in DOMAIN Shown(t), NEW i \in DOMAIN t,
                    NEW e, e = Shown(t)[k],
                    IF e.from = e.to THEN i <= e.from /\ t[i] = t[e.from]
                                     ELSE \E p \in e.from .. e.to : t[p] = t[i],
                    NEW s \in Mutated(t, get_duplicate_indexes(t, t[i]), i)
             PROVE  /\ SingleChars(s) # {}
                    /\ e.from = i /\ e.to = i => e \in Elements(Shown(s))
                    /\ \A h \in SingleChars(s) :
                           Shown(s)[h].at = e.at /\ Shown(s)[h].mid = e.mid /\ s[Shown(s)[h].from] = t[i]
                               => Shown(s)[h] = e
  BY DEF RunsAreStable, StableOn
<1> DEFINE n == Len(t)
           D == get_duplicate_indexes(t, t[i])
<1>1. n \in Nat /\ DOMAIN t = 1 .. n /\ t \in Seq(STRING)
  BY InputFacts
<1>2. Len(s) = n
  BY <1>1, MutatedLen
<1>3. /\ Shown(t) = CalcShown(t) /\ Elements(Shown(t)) = Seen(Calc(t))
      /\ Shown(s) = CalcShown(s) /\ Elements(Shown(s)) = Seen(Calc(s))
  BY <1>1, <1>2, CalcFacts DEF IsCalc
<1>4. e \in Seen(Calc(t))
  BY <1>3 DEF Elements
<1> HIDE DEF n
<1>5. ASSUME NEW p \in 1 .. n
      PROVE  /\ p <= i => s[p] = t[p]
             /\ s[p] = t[i] => p <= i
  <2>1. /\ p \in {j \in D : j > i} => s[p] # t[i]
        /\ p \notin {j \in D : j > i} => s[p] = t[p]
    BY <1>1, MutatedFacts
  <2>2. p > i /\ t[p] = t[i] => p \in {j \in D : j > i}
    BY DEF get_duplicate_indexes, n
  <2>3. p <= i => p \notin {j \in D : j > i}
    BY <1>1
  <2> QED
    BY <1>1, <2>1, <2>2, <2>3
<1>6. SameStart(i, n, s, t) /\ i \in Nat
  <2>1. \A j \in 1 .. i : s[j] = t[j]
    BY <1>1, <1>5
  <2> QED
    BY <1>1, <1>2, <2>1 DEF SameStart, n
<1>7. Low(i, Calc(s)) = Low(i, Calc(t))
  <2>1. Agree(i, Calc(s), Calc(t))
    BY <1>1, <1>6, MainFacts, ExprAgrees DEF Calc
  <2> QED
    BY <2>1 DEF Agree
<1>8. SingleChars(s) # {}
  <2>1. n >= 1
    BY <1>1
  <2>2. PICK v \in Seen(Calc(s)) : v.from = v.to
    BY <1>1, <1>2, <2>1, CalcFacts
  <2>3. PICK h \in DOMAIN Shown(s) : Shown(s)[h] = v
    BY <1>3 DEF Elements
  <2> QED
    BY <2>2, <2>3 DEF SingleChars
<1>9. ASSUME e.from = i PROVE e \in Elements(Shown(s))
  <2>1. e \in Low(i, Calc(t))
    BY <1>1, <1>4, <1>9 DEF Low
  <2> QED
    BY <1>3, <1>7, <2>1 DEF Low
<1>10. ASSUME NEW h \in SingleChars(s), Shown(s)[h].at = e.at, s[Shown(s)[h].from] = t[i]
       PROVE  Shown(s)[h] = e
  <2> DEFINE v == Shown(s)[h]
  <2>1. v \in Seen(Calc(s))
    BY <1>3 DEF SingleChars, Elements
  <2> HIDE DEF v
  <2>2. v.from \in 1 .. n
    BY <1>1, <1>2, <2>1, CalcFacts
  <2>3. v.from <= i
    BY <1>5, <1>10, <2>2 DEF v
  <2>4. v \in Seen(Calc(t))
    BY <1>7, <2>1, <2>3 DEF Low
  <2>5. v.at = e.at
    BY <1>10 DEF v
  <2> QED
    BY <1>1, <1>4, <2>4, <2>5, CalcFacts DEF v, n
<1> QED
  BY <1>8, <1>9, <1>10

(* So the premise holds on every input that is traced of calc.                *)
THEOREM CalcFlowsTheSamePath == ASSUME IsCalc PROVE Spec => []FlowsTheSamePath
<1>1. RunsAreStable
  BY CalcRunsAreStable
<1>2. TypeInv => FlowsTheSamePath
  BY <1>1 DEF TypeInv, FlowsTheSamePath, RunsAreStable
<1> QED
  BY <1>2, BaseHolds, PTL DEF BaseInv

(* Every single character calc reads is recorded for the method that read it. *)
THEOREM CalcReadIsFound == ASSUME IsCalc PROVE Spec => []ReadIsFound
BY CalcRunsAreStable, ReadIsFoundHolds

(* And calc shows single characters only, so that there is no fragment to be  *)
(* taken for another: what is recorded has been read.                        *)
THEOREM CalcKeepsPromise == ASSUME IsCalc, ~ChildMayFail PROVE Spec => KeepsPromise
<1>1. ASSUME NEW t \in Inputs, NEW k \in DOMAIN Shown(t)
      PROVE  Shown(t)[k].from = Shown(t)[k].to /\ Shown(t)[k].from \in Nat
  <2>1. Len(t) \in Nat /\ Shown(t) = CalcShown(t)
    BY InputFacts DEF IsCalc
  <2>2. Shown(t)[k] \in Seen(Calc(t))
    BY <2>1, CalcFacts DEF Elements
  <2>3. \A v \in Seen(Calc(t)) : v.from = v.to /\ v.from \in 1 .. Len(t)
    BY <2>1, CalcFacts
  <2> QED
    BY <2>1, <2>2, <2>3
<1>2. FragmentsAreFound
  BY <1>1 DEF FragmentsAreFound
<1> QED
  BY <1>2, CalcRunsAreStable, KeepsPromiseHolds
================================================================================

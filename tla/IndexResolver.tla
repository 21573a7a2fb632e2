----------------------------- MODULE IndexResolver -----------------------------
(***************************************************************************)
(* Finding the index of a value that occurs more than once in the input:    *)
(* add_value_to_comparisons, verify_substr_path and check of the tracer, and *)
(* the verifier it starts (check2.py), which runs the subject again on a    *)
(* mutated input and compares what it sees at the same instruction.  Parent  *)
(* and verifier talk through the file updated_comparisons alone.            *)
(*                                                                         *)
(* The subject is a constant operator: Shown(s) is the sequence of values   *)
(* [from, to, mid, at] it shows on input s, at being the instr_count.       *)
(***************************************************************************)
EXTENDS Integers, Sequences, FiniteSets

CONSTANTS
    Inputs,           \* the inputs that may be traced
    Before,           \* bound: those that an earlier trace may have been of
    MaxLen,           \* bound: their length
    Shown(_),         \* the subject
    DigitChars, LetterChars, \* the alphabets mutations draw from
    ChildMayFail      \* the verifier may die at any point

ASSUME InputsAssumption ==
    /\ MaxLen \in Nat /\ Before \subseteq Inputs
    /\ \A s \in Inputs : s \in Seq(STRING) /\ Len(s) <= MaxLen
ASSUME ShownAssumption ==
    \A s \in Inputs :
        /\ Shown(s) \in Seq([from : 1 .. Len(s), to : 1 .. Len(s), mid : Nat, at : Nat])
        /\ \A k \in DOMAIN Shown(s) : Shown(s)[k].from <= Shown(s)[k].to

VARIABLES
    input,       \* the input being traced
    next,        \* the value of Shown(input) to be looked at next
    todo,        \* the characters of the current value still to be placed
    cands,       \* the indexes still to be tried for the first of them, in ascending order
    comparisons, \* index -> the mids recorded for it, oldest first
    updated,     \* the file updated_comparisons
    inherited,   \* ghost: the file is still what an earlier trace has left
    pc,          \* "step" (event_loop), "rerun" or "verdict" (check), "raised"
    died         \* ghost: a verifier has died: "no", "earlier" or "now"

vars == <<input, next, todo, cands, comparisons, updated, inherited, pc, died>>

Pos    == 1 .. MaxLen
NoFile == <<>>
Zeros  == <<0, 0, 0>>
Truncated == <<"">>

Elements(s) == {s[i] : i \in DOMAIN s}
Least(S) == CHOOSE i \in S : \A j \in S : i <= j
Current == Shown(input)[next - 1]

------------------------------------------------------------------------------
(* add_value_to_comparisons *)

Occurrences(s, v) == {p \in 1 .. Len(s) - Len(v) + 1 : SubSeq(s, p, p + Len(v) - 1) = v}
\* str.find and str.count, which leaves overlapping occurrences out.
Find(s, v) == Least(Occurrences(s, v))
CountedOnce(s, v) == \A p \in Occurrences(s, v) : p < Find(s, v) + Len(v)

get_duplicate_indexes(s, c) == {i \in 1 .. Len(s) : s[i] = c}

Append1(cmp, S, m) == [i \in Pos |-> IF i \in S THEN Append(cmp[i], m) ELSE cmp[i]]

\* Start on the first of the characters chars, or go back to the event loop.
Place(chars) ==
    /\ todo' = chars
    /\ IF chars = <<>> THEN cands' = {} /\ pc' = "step"
       ELSE cands' = get_duplicate_indexes(input, chars[1]) /\ pc' = "rerun"

\* The next value in a register.
ReadValue ==
    /\ pc = "step" /\ next <= Len(Shown(input))
    /\ next' = next + 1
    /\ LET e == Shown(input)[next]
           v == SubSeq(input, e.from, e.to)
           first == Find(input, v)
           span == first .. first + Len(v) - 1
       IN  \/ /\ v = input
              /\ Place(<<>>) /\ UNCHANGED comparisons
           \/ /\ v # input /\ CountedOnce(input, v) /\ Len(v) > 1
              /\ comparisons' = Append1(comparisons, {i \in span : e.mid \notin Elements(comparisons[i])}, e.mid)
              /\ Place(<<>>)
           \/ /\ v # input /\ CountedOnce(input, v) /\ Len(v) = 1
              /\ comparisons' = Append1(comparisons, span, e.mid)
              /\ Place(<<>>)
           \/ /\ v # input /\ ~CountedOnce(input, v)
              /\ Place(v) /\ UNCHANGED comparisons
    /\ UNCHANGED <<input, updated, inherited, died>>

------------------------------------------------------------------------------
(* verify_substr_path and check *)

get_alternative_chars(c) ==
    IF c \in DigitChars THEN DigitChars \ {c} ELSE LetterChars \ {c}

\* Mutant: the index itself is replaced as well.
Mutated_Itself(s, dups, i) ==
    {[p \in DOMAIN s |-> IF p \in {j \in dups : j >= i} THEN c ELSE s[p]] : c \in get_alternative_chars(s[i])}

\* Mutant: the earlier duplicates are replaced.
Mutated_Earlier(s, dups, i) ==
    {[p \in DOMAIN s |-> IF p \in {j \in dups : j < i} THEN c ELSE s[p]] : c \in get_alternative_chars(s[i])}

\* The later duplicates of the index are replaced by random alternatives.
Mutated(s, dups, i) ==
    LET later == {j \in dups : j > i}
    IN  {[p \in DOMAIN s |-> IF p \in later THEN f[p] ELSE s[p]] :
            f \in [later -> get_alternative_chars(s[i])]}

SingleChars(s) == {k \in DOMAIN Shown(s) : Shown(s)[k].from = Shown(s)[k].to}

\* What the verifier's event loop on s leaves in the file: every single
\* character it sees overwrites it, the one that was asked for at that
\* instruction ends the run.
Verified(s, want, at, file) ==
    LET hit(e) == s[e.from] = want[2] /\ e.mid = want[3] /\ e.at = at
    IN  IF \E k \in SingleChars(s) : hit(Shown(s)[k]) THEN want
        ELSE IF SingleChars(s) # {} THEN Zeros ELSE file

\* The answers a verifier may give to a search on t.
Answers(t) ==
    UNION {LET e == Shown(t)[k]
               v == SubSeq(t, e.from, e.to)
               asked == {<<i, t[i], e.mid>> : i \in {j \in DOMAIN t : t[j] \in Elements(v)}}
           IN  {w \in asked :
                    /\ v # t /\ ~CountedOnce(t, v)
                    /\ \E s \in Mutated(t, get_duplicate_indexes(t, w[2]), w[1]) :
                           Verified(s, w, e.at, NoFile) = w} :
           k \in DOMAIN Shown(t)}

\* Nobody deletes the file: a trace begins with what the one before has left.
Leftovers == {NoFile, Zeros, Truncated} \cup UNION {Answers(t) : t \in Before}

Init ==
    /\ input \in Inputs
    /\ next = 1
    /\ todo = <<>> /\ cands = {}
    /\ comparisons = [i \in Pos |-> <<>>]
    /\ updated \in Leftovers /\ inherited = TRUE
    /\ pc = "step"
    /\ died = "no"

Candidate == Least(cands)
Want      == <<Candidate, input[Candidate], Current.mid>>
Mutations == Mutated(input, get_duplicate_indexes(input, input[Candidate]), Candidate)

\* check: mutate, run the verifier to its end.
Rerun ==
    /\ pc = "rerun"
    /\ \E s \in Mutations :
           /\ updated' = Verified(s, Want, Current.at, updated)
           /\ inherited' = IF SingleChars(s) = {} THEN inherited ELSE FALSE
    /\ pc' = "verdict"
    /\ died' = IF died = "no" THEN "no" ELSE "earlier"
    /\ UNCHANGED <<input, next, todo, cands, comparisons>>

\* The verifier dies before its first write, after one of the others, or
\* between opening the file and writing it.
RerunDies ==
    /\ pc = "rerun" /\ ChildMayFail
    /\ \/ UNCHANGED <<updated, inherited>>
       \/ /\ updated' \in {Zeros, Truncated} /\ inherited' = FALSE
          /\ \E s \in Mutations : SingleChars(s) # {}
    /\ pc' = "verdict" /\ died' = "now"
    /\ UNCHANGED <<input, next, todo, cands, comparisons>>

\* Mutant: the same index is tried again.
TryNext_Same ==
    IF cands # {Candidate}
    THEN cands' = cands /\ todo' = todo /\ pc' = "rerun"
    ELSE Place(Tail(todo))

\* The search of this character goes on with the next index, if there is one.
TryNext ==
    IF cands # {Candidate}
    THEN cands' = cands \ {Candidate} /\ todo' = todo /\ pc' = "rerun"
    ELSE Place(Tail(todo))

\* Mutant: the answer is appended without a look at what is there.
Verdict_Unchecked ==
    /\ pc = "verdict"
    /\ \/ /\ updated = Want
          /\ comparisons' = Append1(comparisons, {Want[1]}, Want[3])
          /\ Place(Tail(todo))
       \/ /\ updated \notin {Want, Truncated}
          /\ TryNext /\ UNCHANGED comparisons
       \/ /\ updated = Truncated \* jsonpickle raises, and nobody catches it
          /\ pc' = "raised"
          /\ UNCHANGED <<todo, cands, comparisons>>
    /\ UNCHANGED <<input, next, updated, inherited, died>>

\* check reads the file, whoever wrote it; verify_substr_path takes the answer.
Verdict ==
    /\ pc = "verdict"
    /\ LET known == Want[3] \in Elements(comparisons[Want[1]])
       IN  \/ /\ updated = Want /\ ~known
              /\ comparisons' = Append1(comparisons, {Want[1]}, Want[3])
              /\ Place(Tail(todo))
           \/ /\ updated = Want /\ known
              /\ Place(Tail(todo)) /\ UNCHANGED comparisons
           \/ /\ updated \notin {Want, Truncated}
              /\ TryNext /\ UNCHANGED comparisons
           \/ /\ updated = Truncated \* jsonpickle raises, and nobody catches it
              /\ pc' = "raised"
              /\ UNCHANGED <<todo, cands, comparisons>>
    /\ UNCHANGED <<input, next, updated, inherited, died>>

Next == ReadValue \/ Rerun \/ RerunDies \/ Verdict

Spec == Init /\ [][Next]_vars /\ WF_vars(Next)

------------------------------------------------------------------------------
(* Premises about the subject, which the method takes for granted. *)

\* "check that the character we are interested in verifying flows through the
\* same path": with the later duplicates replaced, the subject shows what is
\* read from one of them at the same instruction, the character itself is seen
\* there from no other place, and the verifier sees some character at all.
StableOn(t) ==
    \A k \in DOMAIN Shown(t), i \in DOMAIN t :
        LET e == Shown(t)[k]
            Searched == IF e.from = e.to THEN i <= e.from /\ t[i] = t[e.from]
                        ELSE \E p \in e.from .. e.to : t[p] = t[i]
        IN  Searched =>
                \A s \in Mutated(t, get_duplicate_indexes(t, t[i]), i) :
                    /\ SingleChars(s) # {}
                    /\ e.from = i /\ e.to = i => e \in Elements(Shown(s))
                    /\ \A h \in SingleChars(s) :
                           Shown(s)[h].at = e.at /\ Shown(s)[h].mid = e.mid /\ s[Shown(s)[h].from] = t[i]
                               => Shown(s)[h] = e

RunsAreStable == \A t \in Inputs : StableOn(t)

\* A fragment that str.count finds once is the one that was read.
FragmentsAreFound ==
    \A t \in Inputs : \A k \in DOMAIN Shown(t) :
        LET e == Shown(t)[k]
            v == SubSeq(t, e.from, e.to)
        IN  e.from < e.to /\ v # t /\ CountedOnce(t, v) => Find(t, v) = e.from

(* Properties *)

\* The methods that have read an index so far.
Readers == [i \in Pos |->
    {Shown(input)[k].mid : k \in {j \in 1 .. next - 1 : i \in Shown(input)[j].from .. Shown(input)[j].to}}]

\* The resolver keeps the promise of a trace: what it adds was read.
Promise == INSTANCE TracePromise WITH readers <- Readers, Ids <- Nat
KeepsPromise == Promise!Spec

\* "we re-run the program with the mutated string until we find the right
\* index": a single character that was read is recorded for its reader once
\* the resolver is through with it, as long as no verifier has died.
ReadIsFound ==
    pc = "step" /\ died = "no" /\ Len(input) > 1 =>
        \A k \in 1 .. next - 1 : LET e == Shown(input)[k] IN
            e.from = e.to => e.mid \in Elements(comparisons[e.from])

\* The premise on the subject holds for the input that is traced.
FlowsTheSamePath == next = 1 => StableOn(input)

\* "check that the character we are interested in verifying flows through the
\* same path" (Final.ipynb:1208) is not so when a verifier dies: the answer of an
\* earlier one is in the file.  Read as its own, an answer of the same trace adds
\* nothing to it.  The file outlives the trace, though: what an earlier trace has
\* left, and no verifier has overwritten (inherited), may add an index that nobody
\* verified, and is all that can.
StaleAddsNothing ==
    [][pc = "verdict" /\ died = "now" /\ ~inherited => comparisons' = comparisons]_vars

\* Every value is dealt with in the end, or the script has raised.
Finishes == <>(pc = "raised" \/ (pc = "step" /\ next > Len(Shown(input))))
================================================================================

--------------------------- MODULE CallTracer_proofs ---------------------------
(* Proofs about the debugger loop of CallTracer, for every input, every     *)
(* bound, every resolver and every name filter the assumptions allow.       *)
EXTENDS CallTracer, SequenceTheorems, TLAPS

(* What Append, Pop and Top do to a sequence.                               *)
LEMMA AppendFacts ==
    ASSUME NEW S, NEW s \in Seq(S), NEW e \in S
    PROVE  /\ Append(s, e) \in Seq(S)
           /\ Append(s, e) # <<>>
           /\ Len(Append(s, e)) = Len(s) + 1
           /\ \A i \in 1 .. Len(s) : Append(s, e)[i] = s[i]
           /\ Append(s, e)[Len(s) + 1] = e
           /\ Top(Append(s, e)) = e
           /\ DOMAIN Append(s, e) = 1 .. Len(s) + 1
<1>1. /\ Append(s, e) \in Seq(S) /\ Append(s, e) # <<>>
      /\ Len(Append(s, e)) = Len(s) + 1
      /\ \A i \in 1 .. Len(s) : Append(s, e)[i] = s[i]
      /\ Append(s, e)[Len(s) + 1] = e
  BY AppendProperties
<1>2. DOMAIN Append(s, e) = 1 .. Len(s) + 1
  BY <1>1, LenProperties
<1> QED
  BY <1>1, <1>2 DEF Top

LEMMA PopFacts ==
    ASSUME NEW S, NEW s \in Seq(S), Len(s) > 1
    PROVE  /\ Pop(s) \in Seq(S)
           /\ Pop(s) # <<>>
           /\ Len(Pop(s)) = Len(s) - 1
           /\ \A i \in 1 .. Len(s) - 1 : Pop(s)[i] = s[i]
           /\ Top(Pop(s)) = s[Len(s) - 1]
<1>1. Len(s) \in Nat /\ \A i \in 1 .. Len(s) : s[i] \in S
  BY LenProperties, ElementOfSeq
<1>2. /\ Pop(s) \in Seq(S)
      /\ Len(Pop(s)) = Len(s) - 1
      /\ \A i \in 1 .. Len(s) - 1 : Pop(s)[i] = s[1 + i - 1]
  <2>1. \A i \in 1 .. Len(s) - 1 : s[i] \in S
    BY <1>1
  <2>2. Len(s) - 1 \in Int /\ 1 <= Len(s) - 1 /\ Len(s) - 1 - 1 + 1 = Len(s) - 1
    BY <1>1
  <2> QED
    BY <2>1, <2>2, SubSeqProperties DEF Pop
<1> QED
  BY <1>1, <1>2 DEF Top

LEMMA SameLength ==
    ASSUME NEW m \in Nat, NEW n \in Nat \ {0}, 1 .. m = 1 .. n
    PROVE  m = n
<1>1. n \in 1 .. m
  OBVIOUS
<1>2. m \in 1 .. n
  BY <1>1
<1> QED
  BY <1>1, <1>2

LEMMA IdsInSeq ==
    ASSUME NEW s \in Seq(Ids), NEW i \in 1 .. Len(s)
    PROVE  s[i] \in Ids /\ s[i] \in Nat
<1>1. s[i] \in Ids
  BY ElementOfSeq
<1> QED
  BY <1>1 DEF Ids

------------------------------------------------------------------------------
(* Types and stacks                                                         *)

StackInv == TypeOK /\ FramesShape /\ StacksAgree /\ NoUnderflow

LEMMA TopFrame == ASSUME TypeOK PROVE Top(frames) \in Frame /\ Len(frames) \in Nat \ {0}
<1>1. Len(frames) \in Nat \ {0}
  BY EmptySeq DEF TypeOK
<1>2. Len(frames) \in 1 .. Len(frames)
  BY <1>1
<1> QED
  BY <1>1, <1>2, ElementOfSeq DEF TypeOK, Top

(* The program has a method to return from, and the debugger an entry for it. *)
LEMMA RunningFacts ==
    ASSUME StackInv, Running
    PROVE  /\ Len(frames) > 1
           /\ Len(mstack) > 1 /\ Len(method_stack) > 1
           /\ mstack = method_stack /\ mid = Top(mstack)
<1>1. Len(frames) \in Nat \ {0} /\ Len(mstack) \in Nat
  BY TopFrame, LenProperties DEF StackInv, TypeOK
<1>2. Len(frames) # 1
  BY DEF StackInv, Running, Top, FramesShape
<1>3. Len(mstack) >= Len(frames)
  BY DEF StackInv, NoUnderflow
<1>4. mstack = method_stack /\ mid = Top(mstack)
  BY DEF StackInv, NoUnderflow, StacksAgree
<1>5. Len(frames) > 1 /\ Len(mstack) > 1
  BY <1>1, <1>2, <1>3
<1> QED
  BY <1>4, <1>5

(* A step that records characters keeps the types of comparisons and reads.  *)
LEMMA RecordType ==
    ASSUME TypeOK, NEW S, Record(S)
    PROVE  comparisons' \in [Pos -> Seq(Ids)]
<1>1. \A i \in Pos : comparisons[i] \in Seq(Ids) /\ Append(comparisons[i], mid) \in Seq(Ids)
  BY AppendProperties DEF TypeOK
<1> QED
  BY <1>1 DEF Record

LEMMA NoteReadsType ==
    ASSUME TypeOK, NEW S, NoteReads(S)
    PROVE  reads' \in [Pos -> Seq(Ids)]
<1>1. Top(frames).id \in Ids
  BY TopFrame DEF Frame
<1>2. \A i \in Pos : reads[i] \in Seq(Ids) /\ Append(reads[i], Top(frames).id) \in Seq(Ids)
  BY <1>1, AppendProperties DEF TypeOK
<1> QED
  BY <1>2 DEF NoteReads

(* What the actions that show a value have in common.                       *)
ValueStep ==
    /\ Instruction
    /\ \/ UNCHANGED comparisons
       \/ \E S \in SUBSET Pos : Record(S)
    /\ reads' \in [Pos -> Seq(Ids)]

LEMMA ReadsAreValueSteps ==
    ASSUME TypeOK,
           \/ ReadNothing
           \/ \E p \in Pos : ReadUniqueChar(p) \/ ReadAmbiguousChar(p)
           \/ \E p, q \in Pos : ReadFragment(p, q)
    PROVE  ValueStep
<1>1. CASE ReadNothing
  BY <1>1 DEF ReadNothing, ValueStep, TypeOK
<1>2. ASSUME NEW p \in Pos, ReadUniqueChar(p) PROVE ValueStep
  BY <1>2, NoteReadsType DEF ReadUniqueChar, ValueStep
<1>3. ASSUME NEW S, RecordNew(S) PROVE \E T \in SUBSET Pos : Record(T)
  <2> DEFINE T == {i \in Pos : i \in S /\ mid \notin Elements(comparisons[i])}
  <2>1. Record(T)
    BY <1>3 DEF RecordNew, Record
  <2> QED
    BY <2>1
<1>4. ASSUME NEW p \in Pos, ReadAmbiguousChar(p) PROVE ValueStep
  BY <1>4, <1>3, NoteReadsType DEF ReadAmbiguousChar, ValueStep
<1>5. ASSUME NEW p \in Pos, NEW q \in Pos, ReadFragment(p, q) PROVE ValueStep
  BY <1>5, <1>3, NoteReadsType DEF ReadFragment, ValueStep
<1> QED
  BY <1>1, <1>2, <1>4, <1>5

LEMMA StackInit == Init => StackInv
<1> SUFFICES ASSUME Init PROVE StackInv
  OBVIOUS
<1> USE DEF Init
<1>1. 0 \in Ids /\ 1 \in Ids /\ method_register \in Ids \ {0} /\ mid \in Ids
  BY BoundAssumption DEF Ids
<1>2. frames \in Seq(Frame) /\ frames # <<>>
  BY <1>1 DEF Frame
<1>3. mstack \in Seq(Ids) /\ method_stack \in Seq(Ids) /\ method_stack # <<>>
  BY <1>1
<1>4. method_map \in [0 .. method_register -> Seq(Ids)]
  BY <1>1
<1>5. comparisons \in [Pos -> Seq(Ids)] /\ reads \in [Pos -> Seq(Ids)]
  OBVIOUS
<1>6. instr_count \in 0 .. MaxInstr
  BY BoundAssumption
<1>7. TypeOK
  BY <1>1, <1>2, <1>3, <1>4, <1>5, <1>6 DEF TypeOK
<1>8. FramesShape
  BY FollowedAssumption DEF FramesShape
<1>9. StacksAgree /\ NoUnderflow
  BY DEF StacksAgree, NoUnderflow, Top
<1> QED
  BY <1>7, <1>8, <1>9 DEF StackInv

(* Stepping into a method.                                                  *)
LEMMA FollowCallStack ==
    ASSUME StackInv, NEW kind \in Kinds, FollowCall(kind)
    PROVE  StackInv'
<1> DEFINE new == method_register + 1
<1>1. /\ new \in Ids \ {0} /\ method_register \in Nat
      /\ kind \in Followed /\ method_register' = new /\ mid' = new
      /\ mstack' = Append(mstack, new) /\ method_stack' = Append(method_stack, new)
      /\ frames' = Append(frames, [id |-> new, kind |-> kind])
      /\ UNCHANGED <<alive, comparisons, instr_count, loop, reads>>
  BY BoundAssumption DEF FollowCall, Enter, StackInv, TypeOK, Ids
<1>2. [id |-> new, kind |-> kind] \in Frame
  BY <1>1, FollowedAssumption DEF Frame
<1>3. /\ frames \in Seq(Frame) /\ mstack \in Seq(Ids) /\ method_stack \in Seq(Ids)
      /\ mstack = method_stack /\ loop # "failed"
      /\ Len(frames) \in Nat \ {0} /\ Len(mstack) \in Nat /\ Len(mstack) >= Len(frames)
  BY TopFrame, LenProperties DEF StackInv, TypeOK, StacksAgree, NoUnderflow
<1>4. /\ mstack' \in Seq(Ids) /\ Len(mstack') = Len(mstack) + 1 /\ Top(mstack') = new
      /\ method_stack' \in Seq(Ids) /\ method_stack' # <<>>
  BY <1>1, <1>3, AppendFacts
<1>5. /\ frames' \in Seq(Frame) /\ frames' # <<>> /\ Len(frames') = Len(frames) + 1
      /\ \A i \in 1 .. Len(frames) : frames'[i] = frames[i]
      /\ frames'[Len(frames) + 1] = [id |-> new, kind |-> kind]
  BY <1>1, <1>2, <1>3, AppendFacts
<1>6. method_map' \in [0 .. new -> Seq(Ids)]
  <2>1. /\ method_map \in [0 .. method_register -> Seq(Ids)]
        /\ method_map' = [j \in DOMAIN method_map \cup {new} |->
             IF j = new THEN <<>>
             ELSE IF j = Top(method_stack) THEN Append(method_map[j], new)
             ELSE method_map[j]]
    BY DEF FollowCall, Enter, StackInv, TypeOK
  <2>2. DOMAIN method_map \cup {new} = 0 .. new
    BY <1>1, <2>1
  <2>3. \A j \in 0 .. new : j # new =>
            method_map[j] \in Seq(Ids) /\ Append(method_map[j], new) \in Seq(Ids)
    <3> SUFFICES ASSUME NEW j \in 0 .. new, j # new
                 PROVE  method_map[j] \in Seq(Ids) /\ Append(method_map[j], new) \in Seq(Ids)
      OBVIOUS
    <3>1. j \in 0 .. method_register
      BY <1>1
    <3>2. method_map[j] \in Seq(Ids) /\ new \in Ids
      BY <3>1, <2>1, <1>1
    <3> QED
      BY <3>2, AppendProperties
  <2>4. <<>> \in Seq(Ids)
    OBVIOUS
  <2> QED
    BY <2>1, <2>2, <2>3, <2>4
<1>7. TypeOK'
  BY <1>1, <1>4, <1>5, <1>6 DEF StackInv, TypeOK
<1>8. FramesShape'
  <2>1. frames'[1] = frames[1]
    BY <1>3, <1>5
  <2>2. ASSUME NEW i \in 2 .. Len(frames') PROVE frames'[i].kind \in Followed
    <3>1. CASE i = Len(frames) + 1
      BY <3>1, <1>5, <1>1
    <3>2. CASE i # Len(frames) + 1
      <4>1. i \in 2 .. Len(frames)
        BY <3>2, <1>3, <1>5
      <4>2. frames'[i] = frames[i]
        BY <4>1, <1>5
      <4> QED
        BY <4>1, <4>2 DEF StackInv, FramesShape
    <3> QED
      BY <3>1, <3>2
  <2> QED
    BY <2>1, <2>2 DEF StackInv, FramesShape
<1>9. NoUnderflow'
  BY <1>1, <1>3, <1>4, <1>5 DEF NoUnderflow
<1>10. StacksAgree'
  BY <1>1, <1>3, <1>4 DEF StacksAgree
<1> QED
  BY <1>7, <1>8, <1>9, <1>10 DEF StackInv

(* Returning from a method: by RunningFacts neither stack runs empty.       *)
LEMMA ReturnStack ==
    ASSUME StackInv, Return
    PROVE  StackInv'
<1>1. /\ Len(frames) > 1 /\ Len(mstack) > 1 /\ Len(method_stack) > 1
      /\ mstack = method_stack
  BY RunningFacts DEF Return
<1>2. /\ frames' = Pop(frames) /\ mstack' = Pop(mstack) /\ method_stack' = Pop(method_stack)
      /\ mid' = Top(Pop(mstack)) /\ loop' = loop
      /\ instr_count' = instr_count + 1 /\ instr_count < MaxInstr
      /\ UNCHANGED <<alive, method_register, method_map, comparisons, reads>>
  BY <1>1 DEF Return
<1>3. /\ frames \in Seq(Frame) /\ mstack \in Seq(Ids) /\ loop # "failed"
      /\ Len(frames) \in Nat /\ Len(mstack) \in Nat /\ Len(mstack) >= Len(frames)
  BY TopFrame, LenProperties DEF StackInv, TypeOK, NoUnderflow
<1>4. /\ frames' \in Seq(Frame) /\ frames' # <<>> /\ Len(frames') = Len(frames) - 1
      /\ \A i \in 1 .. Len(frames) - 1 : frames'[i] = frames[i]
  BY <1>1, <1>2, <1>3, PopFacts
<1>5. /\ mstack' \in Seq(Ids) /\ mstack' # <<>> /\ Len(mstack') = Len(mstack) - 1
      /\ Top(mstack') = mstack[Len(mstack) - 1]
  BY <1>1, <1>2, <1>3, PopFacts
<1>6. mid' \in Ids
  <2>1. Len(mstack) - 1 \in 1 .. Len(mstack)
    BY <1>1, <1>3
  <2> QED
    BY <2>1, <1>2, <1>3, <1>5, ElementOfSeq
<1>7. instr_count' \in 0 .. MaxInstr
  BY <1>2, BoundAssumption DEF StackInv, TypeOK
<1>8. TypeOK'
  BY <1>1, <1>2, <1>4, <1>5, <1>6, <1>7 DEF StackInv, TypeOK
<1>9. FramesShape'
  BY <1>1, <1>3, <1>4 DEF StackInv, FramesShape
<1>10. NoUnderflow'
  BY <1>2, <1>3, <1>4, <1>5 DEF NoUnderflow
<1>11. StacksAgree'
  BY <1>1, <1>2 DEF StacksAgree
<1> QED
  BY <1>8, <1>9, <1>10, <1>11 DEF StackInv

(* Leaving a library routine; every other step leaves the stacks alone.     *)
LEMMA FinishStack ==
    ASSUME StackInv, FinishOutOfScope
    PROVE  StackInv'
<1>1. UNCHANGED <<debugger, comparisons, instr_count, loop, reads>>
  BY DEF FinishOutOfScope
<1>2. frames \in Seq(Frame) /\ Len(frames) \in Nat \ {0} /\ Len(mstack) \in Nat
  BY TopFrame, LenProperties DEF StackInv, TypeOK
<1>3. CASE Top(frames).kind = "library"
  <2>1. frames' = Pop(frames) /\ alive' = alive
    BY <1>3 DEF FinishOutOfScope
  <2>2. Len(frames) > 1
    BY <1>2, <1>3 DEF StackInv, FramesShape, Top
  <2>3. /\ frames' \in Seq(Frame) /\ frames' # <<>> /\ Len(frames') = Len(frames) - 1
        /\ \A i \in 1 .. Len(frames) - 1 : frames'[i] = frames[i]
    BY <1>2, <2>1, <2>2, PopFacts
  <2>4. TypeOK'
    BY <1>1, <2>1, <2>3 DEF StackInv, TypeOK, debugger
  <2>5. FramesShape'
    BY <1>2, <2>2, <2>3 DEF StackInv, FramesShape
  <2>6. NoUnderflow' /\ StacksAgree'
    BY <1>1, <1>2, <2>3 DEF StackInv, NoUnderflow, StacksAgree, debugger
  <2> QED
    BY <2>4, <2>5, <2>6 DEF StackInv
<1>4. CASE Top(frames).kind # "library"
  <2>1. frames' = frames /\ alive' = FALSE
    BY <1>4 DEF FinishOutOfScope
  <2> QED
    BY <1>1, <2>1 DEF StackInv, TypeOK, FramesShape, NoUnderflow, StacksAgree, debugger
<1> QED
  BY <1>3, <1>4

LEMMA ValueStack ==
    ASSUME StackInv, ValueStep
    PROVE  StackInv'
<1>1. comparisons' \in [Pos -> Seq(Ids)]
  BY RecordType DEF ValueStep, StackInv, TypeOK
<1>2. UNCHANGED <<frames, alive, debugger, loop>> /\ instr_count' \in 0 .. MaxInstr
  BY BoundAssumption DEF ValueStep, Instruction, StackInv, TypeOK
<1>3. reads' \in [Pos -> Seq(Ids)]
  BY DEF ValueStep
<1> QED
  BY <1>1, <1>2, <1>3 DEF StackInv, TypeOK, FramesShape, NoUnderflow, StacksAgree, debugger

(* The steps that touch neither a stack, the map nor a comparison.          *)
QuietStep ==
    /\ UNCHANGED <<frames, debugger, comparisons, instr_count, reads>>
    /\ alive' \in BOOLEAN
    /\ loop' = loop \/ loop' = "written"

LEMMA QuietSteps ==
    ASSUME TypeOK,
           (\E kind \in Kinds : SkipCall(kind)) \/ Crash \/ Break \/ UNCHANGED vars
    PROVE  QuietStep
BY DEF SkipCall, Crash, Break, vars, QuietStep, TypeOK

LEMMA QuietStack ==
    ASSUME StackInv, QuietStep
    PROVE  StackInv'
BY DEF QuietStep, StackInv, TypeOK, FramesShape, NoUnderflow, StacksAgree, debugger

(* The steps of the loop, sorted by what they disturb.                      *)
LEMMA StepCases ==
    ASSUME TypeOK, [Next]_vars
    PROVE  \/ \E kind \in Kinds : FollowCall(kind)
           \/ Return
           \/ FinishOutOfScope
           \/ ValueStep
           \/ QuietStep
<1>1. \/ \E kind \in Kinds : FollowCall(kind)
      \/ Return
      \/ FinishOutOfScope
      \/ \/ ReadNothing
         \/ \E p \in Pos : ReadUniqueChar(p) \/ ReadAmbiguousChar(p)
         \/ \E p, q \in Pos : ReadFragment(p, q)
      \/ (\E kind \in Kinds : SkipCall(kind)) \/ Crash \/ Break \/ UNCHANGED vars
  BY DEF Next
<1> QED
  BY <1>1, ReadsAreValueSteps, QuietSteps

LEMMA StackStep ==
    ASSUME StackInv, [Next]_vars
    PROVE  StackInv'
<1>1. TypeOK
  BY DEF StackInv
<1> QED
  BY <1>1, StepCases, FollowCallStack, ReturnStack, FinishStack, ValueStack, QuietStack

(* Every variable of the loop keeps its type: TypeOK.                       *)
THEOREM TypeCorrect == Spec => []TypeOK
<1>1. Init => StackInv
  BY StackInit
<1>2. StackInv /\ [Next]_vars => StackInv'
  BY StackStep
<1>3. StackInv => TypeOK
  BY DEF StackInv
<1> QED
  BY <1>1, <1>2, <1>3, PTL DEF Spec

(* The two stacks, popped under different guards, never drift apart,        *)
(* whatever the program does and whatever is followed: StacksAgree.         *)
THEOREM StacksNeverDrift == Spec => []StacksAgree
<1>1. Init => StackInv
  BY StackInit
<1>2. StackInv /\ [Next]_vars => StackInv'
  BY StackStep
<1>3. StackInv => StacksAgree
  BY DEF StackInv
<1> QED
  BY <1>1, <1>2, <1>3, PTL DEF Spec

(* CallStack.leave never runs off its stack, so the script never dies of    *)
(* an IndexError there: NoUnderflow.                                        *)
THEOREM LeaveFindsAnEntry == Spec => []NoUnderflow
<1>1. Init => StackInv
  BY StackInit
<1>2. StackInv /\ [Next]_vars => StackInv'
  BY StackStep
<1>3. StackInv => NoUnderflow
  BY DEF StackInv
<1> QED
  BY <1>1, <1>2, <1>3, PTL DEF Spec

------------------------------------------------------------------------------
(* Ids grow along the stack and none is used before it is handed out.       *)

IdInv == StackInv /\ IdsGrow /\ IdsHandedOut

(* What a followed call does to the map: the caller gets one more child.    *)
LEMMA MapOfCall ==
    ASSUME StackInv, IdsGrow, NEW kind \in Kinds, FollowCall(kind)
    PROVE  /\ method_register \in Nat /\ method_register' = method_register + 1
           /\ Top(method_stack) \in 0 .. method_register
           /\ method_map'[method_register + 1] = <<>>
           /\ \A r \in 0 .. method_register : r # Top(method_stack) => method_map'[r] = method_map[r]
           /\ method_map'[Top(method_stack)] =
                  Append(method_map[Top(method_stack)], method_register + 1)
<1>1. /\ method_map' = [j \in DOMAIN method_map \cup {method_register + 1} |->
             IF j = method_register + 1 THEN <<>>
             ELSE IF j = Top(method_stack) THEN Append(method_map[j], method_register + 1)
             ELSE method_map[j]]
      /\ method_register' = method_register + 1
      /\ DOMAIN method_map = 0 .. method_register /\ method_register \in Nat
  BY DEF FollowCall, Enter, StackInv, TypeOK, Ids
<1>2. Top(method_stack) \in 0 .. method_register
  <2>1. mstack = method_stack /\ method_stack \in Seq(Ids) /\ Len(method_stack) \in Nat \ {0}
    BY EmptySeq DEF StackInv, TypeOK, StacksAgree, NoUnderflow
  <2>2. Len(method_stack) \in 1 .. Len(method_stack)
    BY <2>1
  <2>3. Top(method_stack) \in Ids
    BY <2>1, <2>2, ElementOfSeq DEF Top
  <2>4. Top(method_stack) <= method_register
    BY <2>1, <2>2 DEF IdsGrow, Top
  <2> QED
    BY <1>1, <2>3, <2>4 DEF Ids
<1> QED
  BY <1>1, <1>2

LEMMA IdsGrowStep ==
    ASSUME IdInv, [Next]_vars
    PROVE  IdsGrow'
<1>0. TypeOK /\ mstack \in Seq(Ids) /\ Len(mstack) \in Nat /\ method_register \in Nat
  BY LenProperties DEF IdInv, StackInv, TypeOK, Ids
<1>1. ASSUME NEW kind \in Kinds, FollowCall(kind) PROVE IdsGrow'
  <2> DEFINE new == method_register + 1
  <2>1. new \in Ids /\ mstack' = Append(mstack, new) /\ method_register' = new
    BY <1>0, <1>1, BoundAssumption DEF FollowCall, Enter, Ids
  <2>2. /\ Len(mstack') = Len(mstack) + 1 /\ mstack'[Len(mstack) + 1] = new
        /\ \A i \in 1 .. Len(mstack) : mstack'[i] = mstack[i]
    BY <1>0, <2>1, AppendFacts
  <2>3. \A i \in 1 .. Len(mstack) : mstack[i] \in Ids /\ mstack[i] < new
    <3>1. \A i \in 1 .. Len(mstack) : mstack[i] \in Nat /\ mstack[i] \in Ids
      BY <1>0, IdsInSeq
    <3>2. \A i \in 1 .. Len(mstack) : mstack[i] <= method_register
      BY DEF IdInv, IdsGrow
    <3> QED
      BY <1>0, <3>1, <3>2
  <2>4. ASSUME NEW i \in 1 .. Len(mstack'), NEW j \in 1 .. Len(mstack'), i < j
        PROVE  mstack'[i] < mstack'[j]
    <3>1. i \in 1 .. Len(mstack)
      BY <1>0, <2>2, <2>4
    <3>2. CASE j = Len(mstack) + 1
      BY <3>1, <3>2, <2>2, <2>3
    <3>3. CASE j # Len(mstack) + 1
      <4>1. j \in 1 .. Len(mstack)
        BY <1>0, <2>2, <3>3
      <4> QED
        BY <4>1, <3>1, <2>2, <2>4 DEF IdInv, IdsGrow
    <3> QED
      BY <3>2, <3>3
  <2>5. ASSUME NEW i \in 1 .. Len(mstack') PROVE mstack'[i] <= method_register'
    <3>1. CASE i = Len(mstack) + 1
      BY <3>1, <1>0, <2>1, <2>2
    <3>2. CASE i # Len(mstack) + 1
      <4>1. i \in 1 .. Len(mstack)
        BY <1>0, <2>2, <3>2
      <4>2. mstack'[i] \in Nat /\ mstack'[i] < new
        BY <4>1, <2>2, <2>3 DEF Ids
      <4> QED
        BY <4>2, <2>1, <1>0
    <3> QED
      BY <3>1, <3>2
  <2> QED
    BY <2>4, <2>5 DEF IdsGrow
<1>2. CASE Return
  <2>1. mstack' = Pop(mstack) /\ method_register' = method_register /\ Len(mstack) > 1
    BY <1>2, RunningFacts DEF Return, IdInv
  <2>2. /\ Len(mstack') = Len(mstack) - 1
        /\ \A i \in 1 .. Len(mstack) - 1 : mstack'[i] = mstack[i]
    BY <1>0, <2>1, PopFacts
  <2>3. \A i \in 1 .. Len(mstack') : i \in 1 .. Len(mstack) /\ mstack'[i] = mstack[i]
    BY <1>0, <2>2
  <2> QED
    BY <2>1, <2>3 DEF IdInv, IdsGrow
<1>3. CASE FinishOutOfScope
  BY <1>3 DEF FinishOutOfScope, debugger, IdInv, IdsGrow
<1>4. CASE ValueStep
  BY <1>4 DEF ValueStep, Instruction, debugger, IdInv, IdsGrow
<1>5. CASE QuietStep
  BY <1>5 DEF QuietStep, debugger, IdInv, IdsGrow
<1> QED
  BY <1>0, <1>1, <1>2, <1>3, <1>4, <1>5, StepCases

(* A step that shows a value appends mid to some indexes and nothing else.  *)
LEMMA RecordFacts ==
    ASSUME TypeOK, ValueStep, NEW i \in Pos
    PROVE  \/ comparisons'[i] = comparisons[i]
           \/ mid # 0 /\ comparisons'[i] = Append(comparisons[i], mid)
<1>1. CASE UNCHANGED comparisons
  BY <1>1
<1>2. CASE \E S \in SUBSET Pos : Record(S)
  BY <1>2 DEF Record
<1> QED
  BY <1>1, <1>2 DEF ValueStep

LEMMA IdsHandedOutStep ==
    ASSUME IdInv, [Next]_vars
    PROVE  IdsHandedOut'
<1>0. /\ TypeOK /\ method_register \in Nat /\ mid \in Ids /\ mid <= method_register
      /\ method_map \in [0 .. method_register -> Seq(Ids)]
      /\ comparisons \in [Pos -> Seq(Ids)]
  <2>1. /\ TypeOK /\ mstack \in Seq(Ids) /\ mstack = method_stack /\ method_stack # <<>>
        /\ mid = Top(mstack)
    BY DEF IdInv, StackInv, TypeOK, StacksAgree, NoUnderflow
  <2>2. Len(mstack) \in 1 .. Len(mstack)
    BY <2>1, EmptySeq
  <2> QED
    BY <2>1, <2>2 DEF IdInv, IdsGrow, Top, TypeOK, Ids
<1>1. ASSUME NEW kind \in Kinds, FollowCall(kind) PROVE IdsHandedOut'
  <2> DEFINE new == method_register + 1
             top == Top(method_stack)
  <2>1. /\ method_register' = new /\ top \in 0 .. method_register
        /\ method_map'[new] = <<>>
        /\ \A r \in 0 .. method_register : r # top => method_map'[r] = method_map[r]
        /\ method_map'[top] = Append(method_map[top], new)
    BY <1>1, MapOfCall DEF IdInv
  <2>2. new \in Ids /\ comparisons' = comparisons
    BY <1>0, <1>1, BoundAssumption DEF FollowCall, Ids
  <2>3. ASSUME NEW r \in 0 .. new, NEW j \in 1 .. Len(method_map'[r])
        PROVE  method_map'[r][j] <= new
    <3>1. CASE r = new
      BY <3>1, <2>1
    <3>2. CASE r = top
      <4>1. method_map[top] \in Seq(Ids)
        BY <1>0, <2>1
      <4>2. /\ Len(method_map'[top]) = Len(method_map[top]) + 1
            /\ \A i \in 1 .. Len(method_map[top]) : method_map'[top][i] = method_map[top][i]
            /\ method_map'[top][Len(method_map[top]) + 1] = new
        BY <4>1, <2>1, <2>2, AppendFacts
      <4>3. Len(method_map[top]) \in Nat
        BY <4>1, LenProperties
      <4>6. \A i \in 1 .. Len(method_map[top]) :
                method_map[top][i] \in Nat /\ method_map[top][i] <= method_register
        <5>1. \A i \in 1 .. Len(method_map[top]) : method_map[top][i] \in Nat
          BY <4>1, IdsInSeq
        <5> QED
          BY <5>1, <2>1 DEF IdInv, IdsHandedOut
      <4>4. CASE j = Len(method_map[top]) + 1
        BY <4>2, <4>4, <3>2, <1>0
      <4>5. CASE j # Len(method_map[top]) + 1
        <5>1. j \in 1 .. Len(method_map[top])
          BY <4>2, <4>3, <4>5, <3>2
        <5>2. method_map'[top][j] \in Nat /\ method_map'[top][j] <= method_register
          BY <5>1, <4>2, <4>6
        <5> QED
          BY <5>2, <3>2, <1>0
      <4> QED
        BY <4>4, <4>5
    <3>3. CASE r # new /\ r # top
      <4>1. r \in 0 .. method_register /\ method_map'[r] = method_map[r]
        BY <3>3, <2>1, <1>0
      <4>2. method_map[r] \in Seq(Ids)
        BY <4>1, <1>0
      <4>3. method_map[r][j] \in Nat
        BY <4>1, <4>2, IdsInSeq
      <4>4. method_map[r][j] <= method_register
        BY <4>1 DEF IdInv, IdsHandedOut
      <4> QED
        BY <4>1, <4>3, <4>4, <1>0
    <3> QED
      BY <3>1, <3>2, <3>3
  <2>4. ASSUME NEW i \in Pos, NEW a \in 1 .. Len(comparisons[i])
        PROVE  comparisons[i][a] <= new
    <3>1. comparisons[i] \in Seq(Ids)
      BY <1>0
    <3>2. comparisons[i][a] \in Nat
      BY <3>1, IdsInSeq
    <3>3. comparisons[i][a] <= method_register
      BY DEF IdInv, IdsHandedOut
    <3> QED
      BY <3>2, <3>3, <1>0
  <2> QED
    BY <2>1, <2>2, <2>3, <2>4 DEF IdsHandedOut
<1>2. CASE Return
  BY <1>2 DEF Return, IdInv, IdsHandedOut
<1>3. CASE FinishOutOfScope
  BY <1>3 DEF FinishOutOfScope, debugger, IdInv, IdsHandedOut
<1>4. CASE ValueStep
  <2>1. UNCHANGED <<method_register, method_map>>
    BY <1>4 DEF ValueStep, Instruction, debugger
  <2>2. ASSUME NEW i \in Pos, NEW a \in 1 .. Len(comparisons'[i])
        PROVE  comparisons'[i][a] <= method_register
    <3>1. comparisons[i] \in Seq(Ids) /\ Len(comparisons[i]) \in Nat
      BY <1>0, LenProperties
    <3>2. CASE comparisons'[i] = comparisons[i]
      BY <3>2 DEF IdInv, IdsHandedOut
    <3>3. CASE comparisons'[i] = Append(comparisons[i], mid)
      <4>1. /\ Len(comparisons'[i]) = Len(comparisons[i]) + 1
            /\ \A b \in 1 .. Len(comparisons[i]) : comparisons'[i][b] = comparisons[i][b]
            /\ comparisons'[i][Len(comparisons[i]) + 1] = mid
        BY <3>1, <3>3, <1>0, AppendFacts
      <4>2. CASE a = Len(comparisons[i]) + 1
        BY <4>1, <4>2, <1>0
      <4>3. CASE a # Len(comparisons[i]) + 1
        <5>1. a \in 1 .. Len(comparisons[i])
          BY <4>1, <4>3, <3>1
        <5> QED
          BY <5>1, <4>1 DEF IdInv, IdsHandedOut
      <4> QED
        BY <4>2, <4>3
    <3> QED
      BY <3>2, <3>3, <1>0, <1>4, RecordFacts
  <2> QED
    BY <2>1, <2>2 DEF IdInv, IdsHandedOut
<1>5. CASE QuietStep
  BY <1>5 DEF QuietStep, debugger, IdInv, IdsHandedOut
<1> QED
  BY <1>0, <1>1, <1>2, <1>3, <1>4, <1>5, StepCases

------------------------------------------------------------------------------
(* The call tree                                                            *)

(* The entries of the map after a followed call: the old ones, at their old *)
(* places, and one new id at the end of the caller's children.              *)
LEMMA EntriesOfCall ==
    ASSUME IdInv, NEW kind \in Kinds, FollowCall(kind)
    PROVE  LET new == method_register + 1
               top == Top(method_stack)
               last == Len(method_map[top]) + 1
           IN  /\ \A r \in 0 .. method_register : \A j \in DOMAIN method_map[r] :
                      /\ j \in DOMAIN method_map'[r]
                      /\ method_map'[r][j] = method_map[r][j]
                      /\ method_map[r][j] <= method_register
               /\ last \in DOMAIN method_map'[top] /\ method_map'[top][last] = new
               /\ \A r \in 0 .. new : \A j \in DOMAIN method_map'[r] :
                      \/ r \in 0 .. method_register /\ j \in DOMAIN method_map[r]
                      \/ r = top /\ j = last
<1> DEFINE new == method_register + 1
           top == Top(method_stack)
           last == Len(method_map[top]) + 1
<1>1. /\ method_register \in Nat /\ top \in 0 .. method_register
      /\ method_map'[new] = <<>>
      /\ \A r \in 0 .. method_register : r # top => method_map'[r] = method_map[r]
      /\ method_map'[top] = Append(method_map[top], new)
  BY MapOfCall DEF IdInv
<1>2. \A r \in 0 .. method_register : method_map[r] \in Seq(Ids)
  BY DEF IdInv, StackInv, TypeOK
<1>3. \A r \in 0 .. method_register :
          Len(method_map[r]) \in Nat /\ DOMAIN method_map[r] = 1 .. Len(method_map[r])
  BY <1>2, LenProperties
<1>4. new \in Ids
  BY <1>1, BoundAssumption DEF FollowCall, Ids
<1>5. /\ DOMAIN method_map'[top] = 1 .. last
      /\ \A j \in 1 .. Len(method_map[top]) : method_map'[top][j] = method_map[top][j]
      /\ method_map'[top][last] = new
  BY <1>1, <1>2, <1>4, AppendFacts
<1>6. ASSUME NEW r \in 0 .. method_register, NEW j \in DOMAIN method_map[r]
      PROVE  /\ j \in DOMAIN method_map'[r]
             /\ method_map'[r][j] = method_map[r][j]
             /\ method_map[r][j] <= method_register
  <2>1. j \in 1 .. Len(method_map[r])
    BY <1>3
  <2>2. method_map[r][j] <= method_register
    BY <2>1 DEF IdInv, IdsHandedOut
  <2>3. CASE r = top
    BY <2>1, <2>2, <2>3, <1>3, <1>5
  <2>4. CASE r # top
    BY <2>2, <2>4, <1>1
  <2> QED
    BY <2>3, <2>4
<1>7. last \in DOMAIN method_map'[top] /\ method_map'[top][last] = new
  BY <1>1, <1>3, <1>5
<1>8. ASSUME NEW r \in 0 .. new, NEW j \in DOMAIN method_map'[r]
      PROVE  \/ r \in 0 .. method_register /\ j \in DOMAIN method_map[r]
             \/ r = top /\ j = last
  <2>1. r # new
    BY <1>1
  <2>2. r \in 0 .. method_register
    BY <2>1, <1>1
  <2>3. CASE r = top
    BY <2>2, <2>3, <1>3, <1>5
  <2>4. CASE r # top
    BY <2>2, <2>4, <1>1
  <2> QED
    BY <2>3, <2>4
<1> QED
  BY <1>6, <1>7, <1>8

LEMMA CallTreeStep ==
    ASSUME IdInv, CallTree, [Next]_vars
    PROVE  CallTree'
<1>0. TypeOK /\ method_register \in Nat
  BY DEF IdInv, StackInv, TypeOK, Ids
<1>1. ASSUME NEW kind \in Kinds, FollowCall(kind) PROVE CallTree'
  <2> DEFINE new == method_register + 1
             top == Top(method_stack)
             last == Len(method_map[top]) + 1
  <2>1. /\ \A r \in 0 .. method_register : \A j \in DOMAIN method_map[r] :
               /\ j \in DOMAIN method_map'[r]
               /\ method_map'[r][j] = method_map[r][j]
               /\ method_map[r][j] <= method_register
        /\ last \in DOMAIN method_map'[top] /\ method_map'[top][last] = new
        /\ \A r \in 0 .. new : \A j \in DOMAIN method_map'[r] :
               \/ r \in 0 .. method_register /\ j \in DOMAIN method_map[r]
               \/ r = top /\ j = last
    BY <1>1, EntriesOfCall
  <2>2. method_register' = new /\ top \in 0 .. method_register
    BY <1>1, MapOfCall DEF IdInv
  <2> SUFFICES ASSUME NEW id \in 1 .. new
               PROVE  \E p \in 0 .. id - 1 : \E i \in DOMAIN method_map'[p] :
                          /\ method_map'[p][i] = id
                          /\ \A r \in 0 .. new : \A j \in DOMAIN method_map'[r] :
                                 method_map'[r][j] = id => r = p /\ j = i
    BY <2>2 DEF CallTree
  <2>3. CASE id = new
    <3>1. \A r \in 0 .. new : \A j \in DOMAIN method_map'[r] :
              method_map'[r][j] = new => r = top /\ j = last
      <4> SUFFICES ASSUME NEW r \in 0 .. new, NEW j \in DOMAIN method_map'[r],
                          method_map'[r][j] = new, r \in 0 .. method_register, j \in DOMAIN method_map[r]
                   PROVE  FALSE
        BY <2>1
      <4>1. new <= method_register
        BY <2>1
      <4> QED
        BY <4>1, <1>0
    <3>2. top \in 0 .. id - 1
      BY <2>2, <2>3, <1>0
    <3> QED
      BY <3>1, <3>2, <2>1, <2>3
  <2>4. CASE id # new
    <3>1. id \in 1 .. method_register
      BY <2>4, <1>0
    <3>2. PICK p \in 0 .. id - 1 : \E i \in DOMAIN method_map[p] :
              /\ method_map[p][i] = id
              /\ \A r \in 0 .. method_register : \A j \in DOMAIN method_map[r] :
                     method_map[r][j] = id => r = p /\ j = i
      BY <3>1 DEF CallTree
    <3>3. PICK i \in DOMAIN method_map[p] :
              /\ method_map[p][i] = id
              /\ \A r \in 0 .. method_register : \A j \in DOMAIN method_map[r] :
                     method_map[r][j] = id => r = p /\ j = i
      BY <3>2
    <3>4. p \in 0 .. method_register
      BY <3>1, <1>0
    <3>5. i \in DOMAIN method_map'[p] /\ method_map'[p][i] = id
      BY <3>3, <3>4, <2>1
    <3>6. ASSUME NEW r \in 0 .. new, NEW j \in DOMAIN method_map'[r], method_map'[r][j] = id
          PROVE  r = p /\ j = i
      <4>1. r \in 0 .. method_register /\ j \in DOMAIN method_map[r]
        BY <3>6, <2>1, <2>4
      <4> QED
        BY <4>1, <3>6, <3>3, <2>1
    <3> QED
      BY <3>5, <3>6
  <2> QED
    BY <2>3, <2>4
<1>2. ASSUME UNCHANGED <<method_register, method_map>> PROVE CallTree'
  BY <1>2 DEF CallTree
<1>3. Return => UNCHANGED <<method_register, method_map>>
  BY DEF Return
<1>4. FinishOutOfScope \/ ValueStep \/ QuietStep => UNCHANGED <<method_register, method_map>>
  BY DEF FinishOutOfScope, ValueStep, Instruction, QuietStep, debugger
<1> QED
  BY <1>0, <1>1, <1>2, <1>3, <1>4, StepCases

------------------------------------------------------------------------------
(* Who was called by whom                                                   *)

(* A call adds to the map, so that descendants stay descendants: a set that *)
(* is closed after the call is closed before it, the new id left out.       *)
LEMMA DescendantsStay ==
    ASSUME IdInv, NEW kind \in Kinds, FollowCall(kind),
           NEW k \in 0 .. method_register, NEW s \in 0 .. method_register, DescendsFrom(k, s)
    PROVE  DescendsFrom(k, s)'
<1>1. /\ method_register \in Nat /\ method_register' = method_register + 1
      /\ \A r \in 0 .. method_register : \A j \in DOMAIN method_map[r] :
             /\ j \in DOMAIN method_map'[r]
             /\ method_map'[r][j] = method_map[r][j]
             /\ method_map[r][j] <= method_register
  BY MapOfCall, EntriesOfCall DEF IdInv
<1>2. \A r \in 0 .. method_register : \A j \in DOMAIN method_map[r] : method_map[r][j] \in 0 .. method_register
  <2> SUFFICES ASSUME NEW r \in 0 .. method_register, NEW j \in DOMAIN method_map[r]
               PROVE  method_map[r][j] \in 0 .. method_register
    OBVIOUS
  <2>1. method_map[r] \in Seq(Ids)
    BY DEF IdInv, StackInv, TypeOK
  <2>2. j \in 1 .. Len(method_map[r])
    BY <2>1, LenProperties
  <2>3. method_map[r][j] \in Nat
    BY <2>1, <2>2, IdsInSeq
  <2> QED
    BY <2>3, <1>1
<1> SUFFICES ASSUME NEW S \in SUBSET (0 .. method_register + 1), s \in S,
                    \A r \in S : Elements(method_map'[r]) \subseteq S
             PROVE  k \in S
  BY <1>1 DEF DescendsFrom
<1> DEFINE T == S \cap (0 .. method_register)
<1>3. ASSUME NEW r \in T PROVE Elements(method_map[r]) \subseteq T
  <2> SUFFICES ASSUME NEW j \in DOMAIN method_map[r] PROVE method_map[r][j] \in T
    BY DEF Elements
  <2>1. j \in DOMAIN method_map'[r] /\ method_map'[r][j] = method_map[r][j]
    BY <1>1
  <2>2. method_map'[r][j] \in S
    BY <2>1 DEF Elements
  <2> QED
    BY <2>1, <2>2, <1>2
<1>4. T \in SUBSET (0 .. method_register) /\ s \in T
  OBVIOUS
<1>5. k \in T
  BY <1>3, <1>4 DEF DescendsFrom
<1> QED
  BY <1>5

(* The called method descends from every open one.                          *)
LEMMA NewDescends ==
    ASSUME IdInv, OpenMethodsCalledTheRest, NEW kind \in Kinds, FollowCall(kind),
           NEW i \in 1 .. Len(mstack), NEW s, s = mstack[i], NEW new, new = method_register + 1
    PROVE  DescendsFrom(new, s)'
<1> DEFINE last == Len(method_map[Top(method_stack)]) + 1
<1>1. /\ method_register' = new /\ method_register \in Nat
      /\ Top(method_stack) \in 0 .. method_register
      /\ last \in DOMAIN method_map'[Top(method_stack)]
      /\ method_map'[Top(method_stack)][last] = new
  BY MapOfCall, EntriesOfCall DEF IdInv
<1>2. PICK top : top = Top(method_stack)
  OBVIOUS
<1>3. mstack \in Seq(Ids) /\ Len(mstack) \in Nat /\ top = mstack[Len(mstack)]
  BY <1>2, LenProperties DEF IdInv, StackInv, TypeOK, StacksAgree, NoUnderflow, Top
<1>4. s \in 0 .. method_register
  <2>1. mstack[i] \in Nat
    BY <1>3, IdsInSeq
  <2>2. mstack[i] <= method_register
    BY DEF IdInv, IdsGrow
  <2> QED
    BY <2>1, <2>2, <1>1
<1>5. top \in s .. method_register
  <2>1. CASE i = Len(mstack)
    BY <2>1, <1>1, <1>2, <1>3, <1>4
  <2>2. CASE i # Len(mstack)
    <3>1. i < Len(mstack) /\ Len(mstack) \in 1 .. Len(mstack)
      BY <2>2, <1>3
    <3>2. mstack[i] < mstack[Len(mstack)]
      BY <3>1 DEF IdInv, IdsGrow
    <3> QED
      BY <3>2, <1>1, <1>2, <1>3, <1>4
  <2> QED
    BY <2>1, <2>2
<1>6. DescendsFrom(top, s)
  BY <1>5 DEF OpenMethodsCalledTheRest
<1>7. DescendsFrom(top, s)'
  BY <1>1, <1>2, <1>4, <1>6, DescendantsStay
<1> SUFFICES ASSUME NEW S \in SUBSET (0 .. new), s \in S,
                    \A r \in S : Elements(method_map'[r]) \subseteq S
             PROVE  new \in S
  BY <1>1 DEF DescendsFrom
<1>8. top \in S
  BY <1>1, <1>7 DEF DescendsFrom
<1>9. new \in Elements(method_map'[top])
  BY <1>1, <1>2 DEF Elements
<1> QED
  BY <1>8, <1>9

LEMMA OpenMethodsStep ==
    ASSUME IdInv, OpenMethodsCalledTheRest, [Next]_vars
    PROVE  OpenMethodsCalledTheRest'
<1>0. TypeOK /\ mstack \in Seq(Ids) /\ Len(mstack) \in Nat /\ method_register \in Nat
  BY LenProperties DEF IdInv, StackInv, TypeOK, Ids
<1>1. ASSUME NEW kind \in Kinds, FollowCall(kind) PROVE OpenMethodsCalledTheRest'
  <2>1. PICK new : new = method_register + 1
    OBVIOUS
  <2>2. new \in Ids /\ mstack' = Append(mstack, new) /\ method_register' = new
    BY <1>0, <1>1, <2>1, BoundAssumption DEF FollowCall, Enter, Ids
  <2>3. /\ Len(mstack') = Len(mstack) + 1 /\ mstack'[Len(mstack) + 1] = new
        /\ \A i \in 1 .. Len(mstack) : mstack'[i] = mstack[i]
    BY <1>0, <2>2, AppendFacts
  <2> SUFFICES ASSUME NEW i \in 1 .. Len(mstack'), NEW s, s = mstack'[i], NEW k \in s .. new
               PROVE  DescendsFrom(k, s)'
    BY <2>2 DEF OpenMethodsCalledTheRest
  <2>4. CASE i = Len(mstack) + 1
    <3>1. s = new /\ k = new
      BY <2>1, <2>3, <2>4, <1>0
    <3> QED
      BY <3>1 DEF DescendsFrom
  <2>5. CASE i # Len(mstack) + 1
    <3>1. i \in 1 .. Len(mstack) /\ s = mstack[i]
      BY <2>3, <2>5, <1>0
    <3>2. CASE k = new
      BY <3>1, <3>2, <1>1, <2>1, NewDescends
    <3>3. CASE k # new
      <4>1. s \in Nat
        BY <3>1, <1>0, IdsInSeq
      <4>2. k \in s .. method_register /\ k \in 0 .. method_register /\ s \in 0 .. method_register
        BY <4>1, <3>3, <1>0, <2>1
      <4>3. DescendsFrom(k, s)
        BY <4>2, <3>1 DEF OpenMethodsCalledTheRest
      <4> QED
        BY <4>2, <4>3, <1>1, DescendantsStay
    <3> QED
      BY <3>2, <3>3
  <2> QED
    BY <2>4, <2>5
<1>2. CASE Return
  <2>1. /\ mstack' = Pop(mstack) /\ Len(mstack) > 1
        /\ UNCHANGED <<method_register, method_map>>
    BY <1>2, RunningFacts DEF Return, IdInv
  <2>2. \A i \in 1 .. Len(mstack') : i \in 1 .. Len(mstack) /\ mstack'[i] = mstack[i]
    BY <1>0, <2>1, PopFacts
  <2> QED
    BY <2>1, <2>2 DEF OpenMethodsCalledTheRest, DescendsFrom
<1>3. FinishOutOfScope \/ ValueStep \/ QuietStep => UNCHANGED <<mstack, method_register, method_map>>
  BY DEF FinishOutOfScope, ValueStep, Instruction, QuietStep, debugger
<1>4. ASSUME UNCHANGED <<mstack, method_register, method_map>> PROVE OpenMethodsCalledTheRest'
  BY <1>4 DEF OpenMethodsCalledTheRest, DescendsFrom
<1> QED
  BY <1>0, <1>1, <1>2, <1>3, <1>4, StepCases

LEMMA SmallerIsCallerStep ==
    ASSUME IdInv, OpenMethodsCalledTheRest, SmallerIsCaller, [Next]_vars
    PROVE  SmallerIsCaller'
<1>0. TypeOK /\ comparisons \in [Pos -> Seq(Ids)] /\ mstack \in Seq(Ids) /\ mid \in Ids
  BY DEF IdInv, StackInv, TypeOK
<1>1. ASSUME NEW kind \in Kinds, FollowCall(kind) PROVE SmallerIsCaller'
  <2>1. comparisons' = comparisons
    BY <1>1 DEF FollowCall
  <2> SUFFICES ASSUME NEW i \in Pos, NEW a \in DOMAIN comparisons[i], NEW b \in DOMAIN comparisons[i],
                      a < b, comparisons[i][b] < comparisons[i][a],
                      NEW k, k = comparisons[i][a], NEW s, s = comparisons[i][b]
               PROVE  DescendsFrom(k, s)'
    BY <2>1 DEF SmallerIsCaller
  <2>2. k \in 0 .. method_register /\ s \in 0 .. method_register
    <3>1. comparisons[i] \in Seq(Ids)
      BY <1>0
    <3>2. a \in 1 .. Len(comparisons[i]) /\ b \in 1 .. Len(comparisons[i])
      BY <3>1, LenProperties
    <3>3. k \in Nat /\ s \in Nat
      BY <3>1, <3>2, IdsInSeq
    <3>4. k <= method_register /\ s <= method_register
      BY <3>2 DEF IdInv, IdsHandedOut
    <3>5. method_register \in Nat
      BY DEF IdInv, StackInv, TypeOK, Ids
    <3> QED
      BY <3>3, <3>4, <3>5
  <2>3. DescendsFrom(k, s)
    BY DEF SmallerIsCaller
  <2> QED
    BY <2>2, <2>3, <1>1, DescendantsStay
<1>2. CASE ValueStep
  <2>1. UNCHANGED <<method_register, method_map>>
    BY <1>2 DEF ValueStep, Instruction, debugger
  <2> SUFFICES ASSUME NEW i \in Pos, NEW a \in DOMAIN comparisons'[i], NEW b \in DOMAIN comparisons'[i],
                      a < b, comparisons'[i][b] < comparisons'[i][a]
               PROVE  DescendsFrom(comparisons'[i][a], comparisons'[i][b])
    BY <2>1 DEF SmallerIsCaller, DescendsFrom
  <2>2. CASE comparisons'[i] = comparisons[i]
    BY <2>2 DEF SmallerIsCaller
  <2>3. CASE comparisons'[i] = Append(comparisons[i], mid)
    <3>1. comparisons[i] \in Seq(Ids) /\ Len(comparisons[i]) \in Nat
          /\ DOMAIN comparisons[i] = 1 .. Len(comparisons[i])
      BY <1>0, LenProperties
    <3>2. /\ DOMAIN comparisons'[i] = 1 .. Len(comparisons[i]) + 1
          /\ \A c \in 1 .. Len(comparisons[i]) : comparisons'[i][c] = comparisons[i][c]
          /\ comparisons'[i][Len(comparisons[i]) + 1] = mid
      BY <2>3, <3>1, <1>0, AppendFacts
    <3>3. a \in 1 .. Len(comparisons[i])
      BY <3>1, <3>2
    <3>4. CASE b = Len(comparisons[i]) + 1
      <4>1. comparisons'[i][b] = mid /\ comparisons'[i][a] = comparisons[i][a]
        BY <3>2, <3>3, <3>4
      <4>2. mid = mstack[Len(mstack)] /\ Len(mstack) \in 1 .. Len(mstack)
        BY EmptySeq DEF IdInv, StackInv, TypeOK, StacksAgree, NoUnderflow, Top
      <4>3. comparisons[i][a] \in mid .. method_register
        <5>1. comparisons[i][a] \in Nat /\ mid \in Nat
          BY <3>1, <3>3, <1>0, IdsInSeq DEF Ids
        <5>2. comparisons[i][a] <= method_register
          BY <3>3 DEF IdInv, IdsHandedOut
        <5>3. method_register \in Nat
          BY DEF IdInv, StackInv, TypeOK, Ids
        <5> QED
          BY <5>1, <5>2, <5>3, <4>1
      <4> QED
        BY <4>1, <4>2, <4>3 DEF OpenMethodsCalledTheRest
    <3>5. CASE b # Len(comparisons[i]) + 1
      <4>1. b \in 1 .. Len(comparisons[i])
        BY <3>1, <3>2, <3>5
      <4> QED
        BY <4>1, <3>1, <3>2, <3>3 DEF SmallerIsCaller
    <3> QED
      BY <3>4, <3>5
  <2> QED
    BY <2>2, <2>3, <1>0, <1>2, RecordFacts
<1>3. Return \/ FinishOutOfScope \/ QuietStep => UNCHANGED <<comparisons, method_register, method_map>>
  BY DEF Return, FinishOutOfScope, QuietStep, debugger
<1>4. ASSUME UNCHANGED <<comparisons, method_register, method_map>> PROVE SmallerIsCaller'
  BY <1>4 DEF SmallerIsCaller, DescendsFrom
<1> QED
  BY <1>0, <1>1, <1>2, <1>3, <1>4, StepCases

------------------------------------------------------------------------------
(* The inductive invariant                                                  *)

LEMMA InitIInv == Init => IInv
<1> SUFFICES ASSUME Init PROVE IInv
  OBVIOUS
<1>1. StackInv
  BY StackInit
<1>2. /\ mstack = <<0, 1>> /\ method_register = 1
      /\ method_map[0] = <<1>> /\ method_map[1] = <<>> /\ \A i \in Pos : comparisons[i] = <<>>
  BY DEF Init
<1>3. Len(mstack) = 2 /\ mstack[1] = 0 /\ mstack[2] = 1
  BY <1>2
<1>4. IdsGrow
  <2>1. \A i \in 1 .. Len(mstack) : i = 1 \/ i = 2
    BY <1>3
  <2> QED
    BY <2>1, <1>2, <1>3 DEF IdsGrow
<1>5. \A r \in 0 .. 1 : \A j \in DOMAIN method_map[r] : r = 0 /\ j = 1 /\ method_map[r][j] = 1
  <2>1. DOMAIN method_map[0] = {1} /\ DOMAIN method_map[1] = {}
    BY <1>2
  <2>2. \A r \in 0 .. 1 : r = 0 \/ r = 1
    OBVIOUS
  <2> QED
    BY <2>1, <2>2, <1>2
<1>6. IdsHandedOut
  <2>1. \A r \in 0 .. 1 : r = 0 \/ r = 1
    OBVIOUS
  <2>2. Len(method_map[0]) = 1 /\ Len(method_map[1]) = 0
    BY <1>2
  <2>3. \A r \in 0 .. 1 : \A j \in 1 .. Len(method_map[r]) : method_map[r][j] <= 1
    BY <1>2, <2>1, <2>2
  <2> QED
    BY <2>3, <1>2 DEF IdsHandedOut
<1>7. CallTree
  <2> SUFFICES ASSUME NEW id \in 1 .. 1
               PROVE  \E p \in 0 .. id - 1 : \E i \in DOMAIN method_map[p] :
                          /\ method_map[p][i] = id
                          /\ \A r \in 0 .. 1 : \A j \in DOMAIN method_map[r] :
                                 method_map[r][j] = id => r = p /\ j = i
    BY <1>2 DEF CallTree
  <2>1. id = 1 /\ 0 \in 0 .. id - 1 /\ 1 \in DOMAIN method_map[0] /\ method_map[0][1] = 1
    BY <1>2
  <2> QED
    BY <2>1, <1>5
<1>8. OpenMethodsCalledTheRest
  <2>1. ASSUME NEW S \in SUBSET (0 .. 1), 0 \in S, \A r \in S : Elements(method_map[r]) \subseteq S
        PROVE  1 \in S
    <3>1. Elements(method_map[0]) = {1}
      BY <1>2 DEF Elements
    <3> QED
      BY <2>1, <3>1
  <2>2. DescendsFrom(0, 0) /\ DescendsFrom(1, 1) /\ DescendsFrom(1, 0)
    BY <2>1, <1>2 DEF DescendsFrom
  <2>3. ASSUME NEW i \in 1 .. Len(mstack), NEW k \in mstack[i] .. method_register
        PROVE  DescendsFrom(k, mstack[i])
    <3>1. CASE i = 1
      <4>1. k = 0 \/ k = 1
        BY <3>1, <1>2, <1>3
      <4> QED
        BY <4>1, <3>1, <1>3, <2>2
    <3>2. CASE i = 2
      <4>1. k = 1
        BY <3>2, <1>2, <1>3
      <4> QED
        BY <4>1, <3>2, <1>3, <2>2
    <3> QED
      BY <3>1, <3>2, <1>3
  <2> QED
    BY <2>3 DEF OpenMethodsCalledTheRest
<1>9. SmallerIsCaller
  BY <1>2 DEF SmallerIsCaller
<1> QED
  BY <1>1, <1>4, <1>6, <1>7, <1>8, <1>9 DEF IInv, StackInv

LEMMA StepIInv == IInv /\ [Next]_vars => IInv'
<1> SUFFICES ASSUME IInv, [Next]_vars PROVE IInv'
  OBVIOUS
<1>1. IdInv /\ CallTree /\ OpenMethodsCalledTheRest /\ SmallerIsCaller
  BY DEF IInv, IdInv, StackInv
<1>2. StackInv'
  BY <1>1, StackStep DEF IdInv
<1>3. IdsGrow' /\ IdsHandedOut'
  BY <1>1, IdsGrowStep, IdsHandedOutStep
<1>4. CallTree' /\ OpenMethodsCalledTheRest' /\ SmallerIsCaller'
  BY <1>1, CallTreeStep, OpenMethodsStep, SmallerIsCallerStep
<1> QED
  BY <1>2, <1>3, <1>4 DEF IInv, StackInv

(* IInv holds in every state of every run of the loop.                      *)
THEOREM Inductive == Spec => []IInv
BY InitIInv, StepIInv, PTL DEF Spec

(* The saved call tree passes the asserts of reconstruct_method_tree, for   *)
(* every program and every filter: CallTree.                                *)
THEOREM CallTreeRebuilds == Spec => []CallTree
<1>1. IInv => CallTree
  BY DEF IInv
<1> QED
  BY Inductive, <1>1, PTL

(* The comment of the heuristic of last_comparisons, "midC is a child of    *)
(* mid", is right about every trace: SmallerIsCaller.                       *)
THEOREM HeuristicPremise == Spec => []SmallerIsCaller
<1>1. IInv => SmallerIsCaller
  BY DEF IInv
<1> QED
  BY Inductive, <1>1, PTL

------------------------------------------------------------------------------
(* When only code of the binary is followed, the debugger's stack is the    *)
(* program's.                                                               *)

OnlyFunctions == Followed = {"function"}

LEMMA MirrorStep ==
    ASSUME OnlyFunctions, StackInv, StackIsProgramStack, [Next]_vars
    PROVE  StackIsProgramStack'
<1>0. /\ TypeOK /\ frames \in Seq(Frame) /\ Len(frames) \in Nat \ {0}
      /\ method_stack \in Seq(Ids) /\ DOMAIN frames = 1 .. Len(frames)
      /\ Len(method_stack) = Len(frames) /\ \A i \in 1 .. Len(frames) : method_stack[i] = frames[i].id
  <2>1. TypeOK /\ frames \in Seq(Frame) /\ Len(frames) \in Nat \ {0} /\ method_stack \in Seq(Ids)
    BY TopFrame DEF StackInv, TypeOK
  <2>2. DOMAIN frames = 1 .. Len(frames) /\ DOMAIN method_stack = 1 .. Len(method_stack)
        /\ Len(method_stack) \in Nat
    BY <2>1, LenProperties
  <2>3. DOMAIN method_stack = DOMAIN frames /\ \A i \in DOMAIN frames : method_stack[i] = frames[i].id
    BY DEF StackIsProgramStack
  <2>4. Len(method_stack) = Len(frames)
    BY <2>1, <2>2, <2>3, SameLength
  <2> QED
    BY <2>1, <2>2, <2>3, <2>4
<1>1. \A s \in Seq(Frame), t \in Seq(Ids) :
          Len(t) = Len(s) /\ (\A i \in 1 .. Len(s) : t[i] = s[i].id)
              => t = [i \in DOMAIN s |-> s[i].id]
  <2> SUFFICES ASSUME NEW s \in Seq(Frame), NEW t \in Seq(Ids), Len(t) = Len(s),
                      \A i \in 1 .. Len(s) : t[i] = s[i].id
               PROVE  t = [i \in DOMAIN s |-> s[i].id]
    OBVIOUS
  <2>1. DOMAIN s = 1 .. Len(s) /\ t \in [1 .. Len(t) -> Ids]
    BY LenProperties
  <2> QED
    BY <2>1
<1>2. ASSUME NEW kind \in Kinds, FollowCall(kind) PROVE StackIsProgramStack'
  <2> DEFINE new == method_register + 1
             frame == [id |-> new, kind |-> kind]
  <2>1. /\ new \in Ids /\ frame \in Frame
        /\ frames' = Append(frames, frame) /\ method_stack' = Append(method_stack, new)
    BY <1>0, <1>2, BoundAssumption, FollowedAssumption DEF FollowCall, Enter, TypeOK, Ids, Frame
  <2>2. /\ frames' \in Seq(Frame) /\ Len(frames') = Len(frames) + 1 /\ frames'[Len(frames) + 1] = frame
        /\ \A i \in 1 .. Len(frames) : frames'[i] = frames[i]
    BY <1>0, <2>1, AppendFacts
  <2>3. /\ method_stack' \in Seq(Ids) /\ Len(method_stack') = Len(frames) + 1
        /\ method_stack'[Len(frames) + 1] = new
        /\ \A i \in 1 .. Len(frames) : method_stack'[i] = method_stack[i]
    BY <1>0, <2>1, AppendFacts
  <2>4. \A i \in 1 .. Len(frames') : i \in 1 .. Len(frames) \/ i = Len(frames) + 1
    BY <1>0, <2>2
  <2>5. \A i \in 1 .. Len(frames') : method_stack'[i] = frames'[i].id
    BY <1>0, <2>2, <2>3, <2>4
  <2> QED
    BY <1>1, <2>2, <2>3, <2>5 DEF StackIsProgramStack
<1>3. CASE Return
  <2>1. /\ frames' = Pop(frames) /\ method_stack' = Pop(method_stack)
        /\ Len(frames) > 1 /\ Len(method_stack) > 1
    BY <1>3, RunningFacts DEF Return
  <2>2. /\ frames' \in Seq(Frame) /\ Len(frames') = Len(frames) - 1
        /\ \A i \in 1 .. Len(frames) - 1 : frames'[i] = frames[i]
    BY <1>0, <2>1, PopFacts
  <2>3. /\ method_stack' \in Seq(Ids) /\ Len(method_stack') = Len(frames) - 1
        /\ \A i \in 1 .. Len(frames) - 1 : method_stack'[i] = method_stack[i]
    BY <1>0, <2>1, PopFacts
  <2>4. \A i \in 1 .. Len(frames') : i \in 1 .. Len(frames) /\ i \in 1 .. Len(frames) - 1
    BY <1>0, <2>2
  <2>5. \A i \in 1 .. Len(frames') : method_stack'[i] = frames'[i].id
    BY <1>0, <2>2, <2>3, <2>4
  <2> QED
    BY <1>1, <2>2, <2>3, <2>5 DEF StackIsProgramStack
<1>4. CASE FinishOutOfScope
  <2>1. Top(frames).kind # "library"
    <3>1. Len(frames) = 1 \/ Len(frames) \in 2 .. Len(frames)
      BY <1>0
    <3> QED
      BY <3>1 DEF StackInv, FramesShape, OnlyFunctions, Top
  <2>2. UNCHANGED <<frames, method_stack>>
    BY <1>4, <2>1 DEF FinishOutOfScope, debugger
  <2> QED
    BY <2>2 DEF StackIsProgramStack
<1>5. ValueStep \/ QuietStep => UNCHANGED <<frames, method_stack>>
  BY DEF ValueStep, Instruction, QuietStep, debugger
<1>6. ASSUME UNCHANGED <<frames, method_stack>> PROVE StackIsProgramStack'
  BY <1>6 DEF StackIsProgramStack
<1> QED
  BY <1>0, <1>2, <1>3, <1>4, <1>5, <1>6, StepCases

LEMMA MirrorInit == Init => StackIsProgramStack
<1> SUFFICES ASSUME Init PROVE method_stack = [i \in DOMAIN frames |-> frames[i].id]
  BY DEF StackIsProgramStack
<1>1. frames = <<[id |-> 0, kind |-> "startup"], [id |-> 1, kind |-> "function"]>> /\ method_stack = <<0, 1>>
  BY DEF Init
<1>2. DOMAIN frames = 1 .. 2 /\ frames[1].id = 0 /\ frames[2].id = 1
  BY <1>1
<1> QED
  BY <1>1, <1>2

(* The open methods are the frames of the program: StackIsProgramStack.     *)
THEOREM StackMirrorsProgram == ASSUME OnlyFunctions PROVE Spec => []StackIsProgramStack
<1>1. Init => StackInv /\ StackIsProgramStack
  BY StackInit, MirrorInit
<1>2. (StackInv /\ StackIsProgramStack) /\ [Next]_vars => (StackInv /\ StackIsProgramStack)'
  BY StackStep, MirrorStep
<1> QED
  BY <1>1, <1>2, PTL DEF Spec

LEMMA MidIsRunning ==
    ASSUME StackInv, StackIsProgramStack
    PROVE  mid = Top(frames).id
<1>1. /\ Len(frames) \in Nat \ {0} /\ DOMAIN frames = 1 .. Len(frames)
      /\ method_stack \in Seq(Ids) /\ mid = method_stack[Len(method_stack)]
  BY TopFrame, LenProperties DEF TypeOK, StackInv, StacksAgree, NoUnderflow, Top
<1>2. Len(method_stack) \in Nat /\ DOMAIN method_stack = 1 .. Len(method_stack)
  BY <1>1, LenProperties
<1>3. DOMAIN method_stack = DOMAIN frames /\ \A i \in DOMAIN frames : method_stack[i] = frames[i].id
  BY DEF StackIsProgramStack
<1>4. Len(method_stack) = Len(frames)
  BY <1>1, <1>2, <1>3, SameLength
<1>5. Len(frames) \in DOMAIN frames
  BY <1>1
<1> QED
  BY <1>1, <1>3, <1>4, <1>5 DEF Top

(* What a step appends to the comparisons of an index is the running method. *)
LEMMA AttributionStep ==
    ASSUME StackInv, StackIsProgramStack, [Next]_vars, NEW i \in Pos
    PROVE  comparisons'[i] # comparisons[i] => comparisons'[i] = Append(comparisons[i], Top(frames).id)
<1>1. TypeOK
  BY DEF StackInv
<1>2. ValueStep => (comparisons'[i] # comparisons[i] => comparisons'[i] = Append(comparisons[i], Top(frames).id))
  BY <1>1, MidIsRunning, RecordFacts
<1>3. (\E kind \in Kinds : FollowCall(kind)) \/ Return \/ FinishOutOfScope \/ QuietStep
          => comparisons' = comparisons
  BY DEF FollowCall, Return, FinishOutOfScope, QuietStep
<1> QED
  BY <1>1, <1>2, <1>3, StepCases

(* Every comparison is recorded under the method whose instruction showed   *)
(* the character: AttributedToRunning.                                      *)
THEOREM Attribution == ASSUME OnlyFunctions PROVE Spec => AttributedToRunning
<1> DEFINE A == \A i \in Pos : comparisons'[i] # comparisons[i]
                    => comparisons'[i] = Append(comparisons[i], Top(frames).id)
<1>1. Init => StackInv /\ StackIsProgramStack
  BY StackInit, MirrorInit
<1>2. (StackInv /\ StackIsProgramStack) /\ [Next]_vars => (StackInv /\ StackIsProgramStack)'
  BY StackStep, MirrorStep
<1>3. StackInv /\ StackIsProgramStack /\ [Next]_vars => [A]_vars
  BY AttributionStep
<1> QED
  BY <1>1, <1>2, <1>3, PTL DEF Spec, AttributedToRunning

------------------------------------------------------------------------------
(* A resolver that confirms the index that was read, on an input of which   *)
(* no fragment of several characters occurs twice, makes the trace exact.   *)

ExactResolver == \A p \in Pos : Outcomes(p) = {p}
FragmentsOnce == \A p, q \in Pos : p < q => Occurrences(p, q) = {p}
ExactTrace    == OnlyFunctions /\ ExactResolver /\ FragmentsOnce

LEMMA AppendElements ==
    ASSUME NEW S, NEW s \in Seq(S), NEW e \in S
    PROVE  Elements(Append(s, e)) = Elements(s) \cup {e}
<1>1. /\ DOMAIN s = 1 .. Len(s) /\ Len(s) \in Nat
      /\ DOMAIN Append(s, e) = 1 .. Len(s) + 1
      /\ \A i \in 1 .. Len(s) : Append(s, e)[i] = s[i]
      /\ Append(s, e)[Len(s) + 1] = e
  BY AppendFacts, LenProperties
<1>2. \A i \in 1 .. Len(s) + 1 : i \in 1 .. Len(s) \/ i = Len(s) + 1
  BY <1>1
<1>3. Len(s) + 1 \in DOMAIN Append(s, e) /\ 1 .. Len(s) \subseteq DOMAIN Append(s, e)
  BY <1>1
<1> QED
  BY <1>1, <1>2, <1>3 DEF Elements

(* A step that shows the characters of S to the running method, which is     *)
(* not the root, notes it and records it for each of them.                   *)
LEMMA SameReadersStep ==
    ASSUME TypeOK, mid = Top(frames).id, mid # 0,
           NEW S, NoteReads(S), Record(S) \/ RecordNew(S),
           NEW i \in Pos, Elements(comparisons[i]) = Elements(reads[i])
    PROVE  Elements(comparisons'[i]) = Elements(reads'[i])
<1>1. comparisons[i] \in Seq(Ids) /\ reads[i] \in Seq(Ids) /\ mid \in Ids
  BY DEF TypeOK
<1>2. i \in S => Elements(reads'[i]) = Elements(reads[i]) \cup {mid}
  <2>1. reads'[i] = IF i \in S /\ (reads[i] = <<>> \/ Top(reads[i]) # mid)
                    THEN Append(reads[i], mid) ELSE reads[i]
    BY DEF NoteReads
  <2>2. ASSUME reads[i] # <<>>, Top(reads[i]) = mid PROVE mid \in Elements(reads[i])
    <3>1. Len(reads[i]) \in DOMAIN reads[i]
      BY <1>1, <2>2, EmptySeq, LenProperties
    <3> QED
      BY <3>1, <2>2 DEF Top, Elements
  <2> QED
    BY <1>1, <2>1, <2>2, AppendElements
<1>3. i \notin S => reads'[i] = reads[i]
  BY DEF NoteReads
<1>4. i \notin S => comparisons'[i] = comparisons[i]
  BY DEF Record, RecordNew
<1>5. ASSUME i \in S
      PROVE  \/ comparisons'[i] = Append(comparisons[i], mid)
             \/ comparisons'[i] = comparisons[i] /\ mid \in Elements(comparisons[i])
  <2>1. CASE Record(S)
    BY <1>5, <2>1 DEF Record
  <2>2. CASE RecordNew(S)
    <3> DEFINE T == {j \in S : mid \notin Elements(comparisons[j])}
    <3>1. Record(T)
      BY <2>2 DEF RecordNew
    <3>2. comparisons'[i] = IF i \in T THEN Append(comparisons[i], mid) ELSE comparisons[i]
      BY <3>1 DEF Record
    <3> QED
      BY <1>5, <3>2
  <2> QED
    BY <2>1, <2>2
<1>6. i \in S => Elements(comparisons'[i]) = Elements(comparisons[i]) \cup {mid}
  <2>1. Elements(Append(comparisons[i], mid)) = Elements(comparisons[i]) \cup {mid}
    BY <1>1, AppendElements
  <2>2. mid \in Elements(comparisons[i]) => Elements(comparisons[i]) = Elements(comparisons[i]) \cup {mid}
    OBVIOUS
  <2> QED
    BY <1>5, <2>1, <2>2
<1> QED
  BY <1>2, <1>3, <1>4, <1>6

SameReaders == \A i \in Pos : Elements(comparisons[i]) = Elements(reads[i])
ExactInv    == IdInv /\ StackIsProgramStack /\ SameReaders

LEMMA ExactStep ==
    ASSUME ExactTrace, ExactInv, [Next]_vars
    PROVE  SameReaders'
<1>0. TypeOK /\ StackInv /\ mid = Top(frames).id
  BY MidIsRunning DEF ExactInv, IdInv, StackInv
<1>1. Running => mid # 0
  <2> SUFFICES ASSUME Running PROVE mid # 0
    OBVIOUS
  <2>1. mstack \in Seq(Ids) /\ Len(mstack) \in Nat /\ Len(mstack) > 1 /\ mid = mstack[Len(mstack)]
    BY <1>0, RunningFacts, LenProperties DEF TypeOK, Top
  <2>2. 1 \in 1 .. Len(mstack) /\ Len(mstack) \in 1 .. Len(mstack)
    BY <2>1
  <2>3. mstack[1] \in Nat /\ mid \in Nat /\ mstack[1] < mid
    BY <2>1, <2>2, IdsInSeq DEF ExactInv, IdInv, IdsGrow
  <2> QED
    BY <2>3
<1>2. ASSUME NEW S, Running, NoteReads(S), Record(S) \/ RecordNew(S) PROVE SameReaders'
  <2> SUFFICES ASSUME NEW i \in Pos PROVE Elements(comparisons'[i]) = Elements(reads'[i])
    BY DEF SameReaders
  <2> QED
    BY <1>0, <1>1, <1>2, SameReadersStep DEF ExactInv, SameReaders
<1>3. ASSUME NEW p \in Pos, ReadUniqueChar(p) PROVE SameReaders'
  BY <1>2, <1>3 DEF ReadUniqueChar, Instruction
<1>4. ASSUME NEW p \in Pos, ReadAmbiguousChar(p) PROVE SameReaders'
  <2>1. Running /\ NoteReads({p})
    BY <1>4 DEF ReadAmbiguousChar, Instruction
  <2>2. RecordNew({p})
    <3>1. PICK i \in Outcomes(p) : RecordNew(IF i = None THEN {} ELSE {i})
      BY <1>4 DEF ReadAmbiguousChar
    <3>2. i = p /\ p # None
      BY DEF ExactTrace, ExactResolver, Pos, None
    <3> QED
      BY <3>1, <3>2
  <2> QED
    BY <1>2, <2>1, <2>2
<1>5. ASSUME NEW p \in Pos, NEW q \in Pos, ReadFragment(p, q) PROVE SameReaders'
  <2>1. Running /\ NoteReads(p .. q) /\ p < q
    BY <1>5 DEF ReadFragment, Instruction
  <2>2. First(p, q) = p /\ CountedOnce(p, q)
    <3>1. Occurrences(p, q) = {p} /\ p <= p /\ p \in Int /\ q \in Int
      BY <2>1 DEF ExactTrace, FragmentsOnce, Pos
    <3>2. First(p, q) = p
      BY <3>1 DEF First
    <3> QED
      BY <2>1, <3>1, <3>2 DEF CountedOnce
  <2>3. First(p, q) + q - p = q
    BY <2>2 DEF Pos
  <2>4. RecordNew(p .. q)
    BY <1>5, <2>2, <2>3 DEF ReadFragment
  <2> QED
    BY <1>2, <2>1, <2>4
<1>6. ASSUME UNCHANGED <<comparisons, reads>> PROVE SameReaders'
  BY <1>6 DEF ExactInv, SameReaders
<1> QED
  BY <1>3, <1>4, <1>5, <1>6 DEF Next, vars, FollowCall, SkipCall, Return, FinishOutOfScope, ReadNothing, Crash, Break

LEMMA ExactInduction ==
    ASSUME ExactTrace
    PROVE  Spec => []ExactInv
<1>1. Init => ExactInv
  <2>1. Init => IInv /\ StackIsProgramStack
    BY InitIInv, MirrorInit
  <2>2. Init => SameReaders
    BY DEF Init, SameReaders
  <2> QED
    BY <2>1, <2>2 DEF ExactInv, IInv, IdInv, StackInv
<1>2. ExactInv /\ [Next]_vars => ExactInv'
  BY StackStep, IdsGrowStep, IdsHandedOutStep, MirrorStep, ExactStep DEF ExactInv, IdInv, ExactTrace
<1> QED
  BY <1>1, <1>2, PTL DEF Spec

(* With such a resolver, on such an input, no method that read a character   *)
(* is missing from the trace, wherever the program dies: ReadIsRecorded.     *)
THEOREM NothingIsForgotten == ASSUME ExactTrace PROVE Spec => []ReadIsRecorded
<1>1. ExactInv => ReadIsRecorded
  BY DEF ExactInv, SameReaders, ReadIsRecorded
<1> QED
  BY ExactInduction, <1>1, PTL

LEMMA ReadersOnlyGrow ==
    ASSUME TypeOK, NEW S, NoteReads(S), NEW i \in Pos
    PROVE  Elements(reads[i]) \subseteq Elements(reads'[i])
<1>1. reads[i] \in Seq(Ids) /\ Top(frames).id \in Ids
  BY TopFrame DEF TypeOK, Frame
<1>2. reads'[i] = Append(reads[i], Top(frames).id) \/ reads'[i] = reads[i]
  BY DEF NoteReads
<1>3. Elements(Append(reads[i], Top(frames).id)) = Elements(reads[i]) \cup {Top(frames).id}
  BY <1>1, AppendElements
<1> QED
  BY <1>2, <1>3

LEMMA PromiseStep ==
    ASSUME ExactTrace, ExactInv, TypeOK', SameReaders', [Next]_vars
    PROVE  [Promise!Next]_Promise!vars
<1> DEFINE readers == [i \in Pos |-> Elements(reads[i])]
<1>0. TypeOK /\ StackInv /\ StackIsProgramStack
  BY DEF ExactInv, IdInv, StackInv
<1>1. Promise!ReadersGrow
  <2>1. readers' \in [Pos -> SUBSET Ids]
    <3>1. ASSUME NEW i \in Pos PROVE Elements(reads'[i]) \subseteq Ids
      <4>1. reads'[i] \in Seq(Ids)
        BY DEF TypeOK
      <4> QED
        BY <4>1, ElementOfSeq, LenProperties DEF Elements
    <3> QED
      BY <3>1
  <2>2. ASSUME NEW i \in Pos PROVE Elements(reads[i]) \subseteq Elements(reads'[i])
    <3>1. (\E S : NoteReads(S)) \/ reads' = reads
      BY DEF Next, vars, FollowCall, SkipCall, Return, FinishOutOfScope, ReadNothing,
             ReadUniqueChar, ReadAmbiguousChar, ReadFragment, Crash, Break
    <3> QED
      BY <1>0, <3>1, ReadersOnlyGrow
  <2> QED
    BY <2>1, <2>2 DEF Promise!ReadersGrow
<1>2. Promise!Recorded
  <2> SUFFICES ASSUME NEW i \in Pos, comparisons'[i] # comparisons[i]
               PROVE  \E m \in Elements(reads'[i]) : comparisons'[i] = Append(comparisons[i], m)
    BY DEF Promise!Recorded
  <2>1. comparisons'[i] = Append(comparisons[i], Top(frames).id)
    BY <1>0, AttributionStep
  <2>2. comparisons[i] \in Seq(Ids) /\ Top(frames).id \in Ids
    BY <1>0, TopFrame DEF TypeOK, Frame
  <2>3. Top(frames).id \in Elements(comparisons'[i])
    BY <2>1, <2>2, AppendElements
  <2> QED
    BY <2>1, <2>3 DEF SameReaders
<1>3. comparisons' = [i \in Pos |-> comparisons'[i]]
  BY DEF TypeOK
<1> QED
  BY <1>1, <1>2, <1>3 DEF Promise!Next

(* With such a resolver, on such an input, the loop implements TracePromise: *)
(* every comparison names a method that did read the character, and what is  *)
(* recorded is never taken back: KeepsPromise.                               *)
THEOREM TraceKeepsPromise == ASSUME ExactTrace PROVE Spec => KeepsPromise
<1>1. Init => Promise!Init
  BY DEF Init, Promise!Init, Elements
<1>2. ExactInv /\ ExactInv' /\ [Next]_vars => [Promise!Next]_Promise!vars
  BY PromiseStep DEF ExactInv, IdInv, StackInv
<1> QED
  BY <1>1, <1>2, ExactInduction, PTL DEF Spec, KeepsPromise, Promise!Spec
================================================================================

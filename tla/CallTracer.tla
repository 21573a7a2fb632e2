------------------------------ MODULE CallTracer ------------------------------
(***************************************************************************)
(* The debugger loop of the tracer (BinaryDebugger.event_loop): it steps a  *)
(* stripped binary under gdb, keeps the call stack and the call tree of the *)
(* traced program, and attributes every input character it sees in a        *)
(* register to the method that is running.                                  *)
(*                                                                         *)
(* The traced program is the environment: it may call, return, read any     *)
(* part of its input, exit or die.  What the loop does about an instruction *)
(* is an action.  Names and addresses are abstracted to the kind of the     *)
(* callee; positions count from 1.  The comparisons [idx, char, mid] are    *)
(* kept per index, in the order they were appended: the loop ends with a    *)
(* stable sort by index, so this order is all that reaches the trace.       *)
(***************************************************************************)
EXTENDS Integers, Sequences

CONSTANTS
    Input,        \* the input string: a sequence of characters
    Followed,     \* the kinds of callee the name filter lets the loop follow
    Outcomes(_),  \* Outcomes(p): what the resolver may confirm when the
                  \* non-unique character at p is read: an index, or None
    MaxCalls,     \* bound: method ids handed out
    MaxInstr      \* bound: instructions counted by instr_count

\* "function": code of the traced binary.  "library": a PLT stub, from which
\* control leaves the mapped range of the binary.  "unnamed": no symbol.
Kinds == {"function", "library", "unnamed"}
None  == 0
N     == Len(Input)
Pos   == 1 .. N
Ids   == 0 .. MaxCalls
Frame == [id : Ids, kind : {"startup", "function", "library"}]

ASSUME InputAssumption == Input \in Seq(STRING)
ASSUME FollowedAssumption == "function" \in Followed /\ Followed \subseteq {"function", "library"}
ASSUME OutcomesAssumption == \A p \in Pos : Outcomes(p) \subseteq Pos \cup {None}
ASSUME BoundAssumption == MaxCalls \in Nat \ {0} /\ MaxInstr \in Nat

VARIABLES
    frames,          \* the traced program's own stack: [id, kind], top last
    alive,           \* the traced program still exists
    mstack,          \* CallStack.mstack (the method ids)
    method_register, \* CallStack.method_register: the last id handed out
    method_map,      \* id -> the ids of its children, in call order
    method_stack,    \* the ids of the open methods, root first
    mid,             \* the id characters are attributed to
    comparisons,     \* index -> the mids recorded for it, oldest first
    instr_count,     \* instructions stepped, calls left out
    loop,            \* "tracing", "written" (tree saved) or "failed" (raised)
    reads            \* ghost: index -> the methods that did read it, no repeats

debugger == <<mstack, method_register, method_map, method_stack, mid>>
vars == <<frames, alive, debugger, comparisons, instr_count, loop, reads>>

Top(s) == s[Len(s)]
Pop(s) == SubSeq(s, 1, Len(s) - 1)
Elements(s) == {s[i] : i \in DOMAIN s}

Running == loop = "tracing" /\ alive /\ Top(frames).kind = "function"

Init ==
    /\ frames = <<[id |-> 0, kind |-> "startup"], [id |-> 1, kind |-> "function"]>>
    /\ alive = TRUE
    /\ mstack = <<0, 1>>
    /\ method_register = 1
    /\ method_map = [id \in 0 .. 1 |-> IF id = 0 THEN <<1>> ELSE <<>>]
    /\ method_stack = <<0, 1>>
    /\ mid = 1
    /\ comparisons = [i \in Pos |-> <<>>]
    /\ instr_count = 0
    /\ loop = "tracing"
    /\ reads = [i \in Pos |-> <<>>]

------------------------------------------------------------------------------
(* Calls and returns *)

\* Mutant: the new method becomes a child of the root of the stack.
Enter_ToRoot(id) ==
    /\ method_register' = id
    /\ mstack' = Append(mstack, id)
    /\ mid' = id
    /\ method_map' = [j \in DOMAIN method_map \cup {id} |->
            IF j = id THEN <<>>
            ELSE IF j = method_stack[1] THEN Append(method_map[j], id)
            ELSE method_map[j]]
    /\ method_stack' = Append(method_stack, id)

\* CallStack.enter and the three updates that open a method.
Enter(id) ==
    /\ method_register' = id
    /\ mstack' = Append(mstack, id)
    /\ mid' = id
    /\ method_map' = [j \in DOMAIN method_map \cup {id} |->
            IF j = id THEN <<>>
            ELSE IF j = Top(method_stack) THEN Append(method_map[j], id)
            ELSE method_map[j]]
    /\ method_stack' = Append(method_stack, id)

\* Mutant: ids are depths, so that they are given out again.
FollowCall_DepthIds(kind) ==
    /\ Running
    /\ kind \in Followed
    /\ method_register < MaxCalls
    /\ Enter(Len(mstack))
    /\ frames' = Append(frames, [id |-> Len(mstack), kind |-> kind])
    /\ UNCHANGED <<alive, comparisons, instr_count, loop, reads>>

\* A call whose name passes the filter is stepped into.
FollowCall(kind) ==
    /\ Running
    /\ kind \in Followed
    /\ method_register < MaxCalls
    /\ Enter(method_register + 1)
    /\ frames' = Append(frames, [id |-> method_register + 1, kind |-> kind])
    /\ UNCHANGED <<alive, comparisons, instr_count, loop, reads>>

\* Mutant: the callee is stepped into and not finished.
SkipCall_NoFinish(kind) ==
    /\ Running
    /\ kind \in Kinds \ Followed
    /\ Len(frames) <= MaxCalls
    /\ frames' = Append(frames, [id |-> method_register, kind |-> "function"])
    /\ UNCHANGED <<alive, debugger, comparisons, instr_count, loop, reads>>

\* Any other call runs to its end under "finish"; the program may end inside.
SkipCall(kind) ==
    /\ Running
    /\ kind \in Kinds \ Followed
    /\ alive' \in BOOLEAN
    /\ UNCHANGED <<frames, debugger, comparisons, instr_count, loop, reads>>

\* Mutant: the id to attribute to is not restored (as in ExecutionTree.py).
Return_KeepMid ==
    /\ Running
    /\ instr_count < MaxInstr
    /\ instr_count' = instr_count + 1
    /\ frames' = Pop(frames)
    /\ mstack' = Pop(mstack)
    /\ method_stack' = Pop(method_stack)
    /\ UNCHANGED <<alive, mid, loop, method_register, method_map, comparisons, reads>>

\* Mutant: only CallStack is popped.
Return_KeepStack ==
    /\ Running
    /\ instr_count < MaxInstr
    /\ instr_count' = instr_count + 1
    /\ frames' = Pop(frames)
    /\ mstack' = Pop(mstack)
    /\ mid' = Top(Pop(mstack))
    /\ UNCHANGED <<alive, loop, method_stack, method_register, method_map, comparisons, reads>>

\* retq: CallStack.leave pops without a test and then reads the top (an
\* IndexError ends the script), the method stack keeps its root.
Return ==
    /\ Running
    /\ instr_count < MaxInstr
    /\ instr_count' = instr_count + 1
    /\ frames' = Pop(frames)
    /\ mstack' = Pop(mstack)
    /\ IF Len(mstack) > 1
       THEN /\ method_stack' = IF Len(method_stack) > 1 THEN Pop(method_stack) ELSE method_stack
            /\ mid' = Top(Pop(mstack))
            /\ loop' = loop
       ELSE /\ loop' = "failed"
            /\ UNCHANGED <<method_stack, mid>>
    /\ UNCHANGED <<alive, method_register, method_map, comparisons, reads>>

\* Outside the mapped range the loop says "finish": a library routine returns
\* to its caller, the startup code ends the process.
FinishOutOfScope ==
    /\ loop = "tracing" /\ alive
    /\ Top(frames).kind # "function"
    /\ IF Top(frames).kind = "library"
       THEN frames' = Pop(frames) /\ alive' = alive
       ELSE frames' = frames /\ alive' = FALSE
    /\ UNCHANGED <<debugger, comparisons, instr_count, loop, reads>>

------------------------------------------------------------------------------
(* Values seen in registers *)

Duplicates(p) == {q \in Pos : Input[q] = Input[p]}

\* Where the fragment Input[p..q] occurs; str.count leaves overlapping
\* occurrences out, str.find takes the first.
Occurrences(p, q) == {s \in Pos : s + q - p <= N /\ SubSeq(Input, s, s + q - p) = SubSeq(Input, p, q)}
First(p, q) == CHOOSE s \in Occurrences(p, q) : \A t \in Occurrences(p, q) : s <= t
CountedOnce(p, q) == \A s \in Occurrences(p, q) : s <= First(p, q) + q - p

\* The truth: the running method has read the positions in S.
NoteReads(S) ==
    LET reader == Top(frames).id
    IN  reads' = [i \in Pos |->
            IF i \in S /\ (reads[i] = <<>> \/ Top(reads[i]) # reader)
            THEN Append(reads[i], reader) ELSE reads[i]]

\* Append [i, Input[i], mid] for each i of S; nothing for the root, mid = 0.
Record(S) ==
    comparisons' = [i \in Pos |->
        IF i \in S /\ mid # 0 THEN Append(comparisons[i], mid) ELSE comparisons[i]]

\* Mutant: an index that has an owner is left alone.
RecordNew_ByIndex(S) == Record({i \in S : comparisons[i] = <<>>})

\* The same under "if c not in comparisons".
RecordNew(S) == Record({i \in S : mid \notin Elements(comparisons[i])})

Instruction ==
    /\ Running
    /\ instr_count < MaxInstr
    /\ instr_count' = instr_count + 1
    /\ UNCHANGED <<frames, alive, debugger, loop>>

\* An instruction that shows nothing of the input, or all of it.
ReadNothing == Instruction /\ UNCHANGED <<comparisons, reads>>

\* A character that occurs once is recorded, even when it already is.
ReadUniqueChar(p) ==
    /\ N > 1 /\ Duplicates(p) = {p}
    /\ Instruction
    /\ NoteReads({p})
    /\ Record({p})

\* Mutant: the first occurrence is taken for the one that was read.
ReadAmbiguousChar_Find(p) ==
    /\ Duplicates(p) # {p}
    /\ Instruction
    /\ NoteReads({p})
    /\ RecordNew({First(p, p)})

\* A character that occurs more often goes to the resolver, which confirms an
\* index or none; a confirmed one is recorded once per method.
ReadAmbiguousChar(p) ==
    /\ Duplicates(p) # {p}
    /\ Instruction
    /\ NoteReads({p})
    /\ \E i \in Outcomes(p) : RecordNew(IF i = None THEN {} ELSE {i})

\* A string of several characters that str.count finds once is recorded at the
\* place str.find gives.  When it is found more often each character goes to
\* the resolver, whose re-run sees the string again at that instruction, never
\* a single character, and confirms nothing.
ReadFragment(p, q) ==
    /\ p < q /\ q - p + 1 < N
    /\ Instruction
    /\ NoteReads(p .. q)
    /\ RecordNew(IF CountedOnce(p, q) THEN First(p, q) .. First(p, q) + q - p ELSE {})

------------------------------------------------------------------------------
(* The end of the trace *)

\* An instruction kills the program.
Crash ==
    /\ Running
    /\ alive' = FALSE
    /\ UNCHANGED <<frames, debugger, comparisons, instr_count, loop, reads>>

\* gdb.error: there is no process left.  The comparisons are sorted by index
\* and the trace is saved.
Break ==
    /\ loop = "tracing" /\ ~alive
    /\ loop' = "written"
    /\ UNCHANGED <<frames, alive, debugger, comparisons, instr_count, reads>>

Next ==
    \/ \E kind \in Kinds : FollowCall(kind) \/ SkipCall(kind)
    \/ Return
    \/ FinishOutOfScope
    \/ ReadNothing
    \/ \E p \in Pos : ReadUniqueChar(p) \/ ReadAmbiguousChar(p)
    \/ \E p, q \in Pos : ReadFragment(p, q)
    \/ Crash
    \/ Break

Spec == Init /\ [][Next]_vars

------------------------------------------------------------------------------
(* Properties *)

\* Every variable has its type.
TypeOK ==
    /\ frames \in Seq(Frame) /\ frames # <<>>
    /\ alive \in BOOLEAN
    /\ mstack \in Seq(Ids)
    /\ method_register \in Ids \ {0}
    /\ method_map \in [0 .. method_register -> Seq(Ids)]
    /\ method_stack \in Seq(Ids) /\ method_stack # <<>>
    /\ mid \in Ids
    /\ comparisons \in [Pos -> Seq(Ids)]
    /\ instr_count \in 0 .. MaxInstr
    /\ loop \in {"tracing", "written", "failed"}
    /\ reads \in [Pos -> Seq(Ids)]

\* The trace can be rebuilt (the asserts of reconstruct_method_tree): every id
\* but the root is the child of exactly one earlier id, once.
CallTree ==
    \A id \in 1 .. method_register :
        \E p \in 0 .. id - 1 : \E i \in DOMAIN method_map[p] :
            /\ method_map[p][i] = id
            /\ \A r \in 0 .. method_register : \A j \in DOMAIN method_map[r] :
                   method_map[r][j] = id => r = p /\ j = i

\* The two stacks, popped under different guards, never drift apart, and
\* characters go to the method on their top.
StacksAgree == loop # "failed" => mstack = method_stack /\ mid = Top(mstack)

\* CallStack.leave never runs off its stack, whatever is followed: the frames
\* the program can still return from all have an entry.
NoUnderflow == loop # "failed" /\ Len(mstack) >= Len(frames)

\* "method_stack keeps track of method id when there is a function call and
\* function return": the open methods are the frames of the program.
StackIsProgramStack == method_stack = [i \in DOMAIN frames |-> frames[i].id]

\* What is appended names the method whose instruction showed the character.
AttributedToRunning ==
    [][\A i \in Pos : comparisons'[i] # comparisons[i]
            => comparisons'[i] = Append(comparisons[i], Top(frames).id)]_vars

\* k was called, directly or through others, by s: it is in every set of
\* methods that holds s and the children of its members.
DescendsFrom(k, s) ==
    \A S \in SUBSET (0 .. method_register) :
        (s \in S /\ \A r \in S : Elements(method_map[r]) \subseteq S) => k \in S

\* "midC is a child of mid": when a later comparison of an index carries a
\* smaller id, the earlier owner was called by the later one (the premise of
\* the LAST_COMPARISON_HEURISTIC of last_comparisons).
SmallerIsCaller ==
    \A i \in Pos : \A a, b \in DOMAIN comparisons[i] :
        a < b /\ comparisons[i][b] < comparisons[i][a]
            => DescendsFrom(comparisons[i][a], comparisons[i][b])

\* The strengthening that makes these invariants inductive.  The program's stack
\* has its startup frame at the bottom; ids grow along the debugger's stack; no
\* id is used before it is handed out; whatever was called since an open method
\* was entered descends from it.
FramesShape ==
    /\ frames[1].kind = "startup"
    /\ \A i \in 2 .. Len(frames) : frames[i].kind \in Followed

IdsGrow ==
    /\ \A i, j \in 1 .. Len(mstack) : i < j => mstack[i] < mstack[j]
    /\ \A i \in 1 .. Len(mstack) : mstack[i] <= method_register

IdsHandedOut ==
    /\ \A r \in 0 .. method_register : \A j \in 1 .. Len(method_map[r]) :
           method_map[r][j] <= method_register
    /\ \A i \in Pos : \A a \in 1 .. Len(comparisons[i]) : comparisons[i][a] <= method_register

OpenMethodsCalledTheRest ==
    \A i \in 1 .. Len(mstack) : \A k \in mstack[i] .. method_register : DescendsFrom(k, mstack[i])

IInv ==
    /\ TypeOK /\ FramesShape /\ StacksAgree /\ NoUnderflow
    /\ IdsGrow /\ IdsHandedOut
    /\ CallTree /\ OpenMethodsCalledTheRest /\ SmallerIsCaller

\* With an exact resolver the loop keeps the promise of TracePromise: what is
\* recorded stays and grows by one method at a time, which has read the index.
Promise == INSTANCE TracePromise WITH readers <- [i \in Pos |-> Elements(reads[i])]
KeepsPromise == Promise!Spec

\* No method that read a character is forgotten (inputs of two characters or
\* more, of which no fragment repeats).
ReadIsRecorded == \A i \in Pos : Elements(reads[i]) \subseteq Elements(comparisons[i])
================================================================================

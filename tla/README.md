# Formal model of BMiner

BMiner (the repository's `Final.ipynb`, with `subject/z.py` as the tracer
script extracted from it) mines a context-free grammar from a stripped binary
and a few sample inputs.  It steps the binary under gdb, watches which
characters of the input pass through registers and in which function, builds a
derivation tree of the input from that, generalizes the trees by experiments on
the binary, and turns them into a compact grammar.  This directory holds TLA+
models of that whole chain and of five of the programs it is tried on, the TLC
instances that check them, and TLAPS proofs about the tracer, the index
resolver, the owners of the indexes, the session, the csv buffer and elk's memory.

Line numbers of `Final.ipynb` are lines of the JSON file.

## Inventory

| Part | Source | State | Operations | Model |
| --- | --- | --- | --- | --- |
| Call tracer | `z.py` 135-188, notebook 1410-1469 | `CallStack`, `method_map`, `method_stack`, `mid`, `instr_count`, comparisons | follow or skip a call, return, read, finish, break | `CallTracer` |
| Instruction parsing, register reads | `z.py` 20-79, 326-383 | none | classify an instruction, print a register as string or char | the kinds of step of `CallTracer`; the text of gdb is left out |
| Symbols, `main`, address range | `z.py` 82-126, 204-275 | table of names | nm, readelf, info symbol | kinds of callee in `CallTracer`; the parsing is left out |
| Index resolver | notebook 1062-1330, `z.py` 385-459 | comparisons; the file `updated_comparisons` | place a value, mutate, verify, take the verdict | `IndexResolver` |
| Verifier (`check2.py`) | notebook 1769-1830 | the same file | re-run the subject on the mutated input | `Verified` in `IndexResolver` |
| Trace to tree | notebook 2272-2295, 2898-3013, 4099-4393, 8754-8775 | last owner of an index, tree | last_comparisons, no_overlap, to_tree, miner | `LastComparisons`, `MethodTree` |
| Generalizer | notebook 8798-9500 | `EXEC_MAP`, buckets, patterns | is_compatible, check, identify_buckets | `MinerSession` |
| Session | notebook 4649, 11158 | files `inp.0.txt` and `tree`, call_trace | binary_miner, generate_trace; a gdb that dies | `MinerSession` |
| Trees to grammar | notebook 9707-9790 | grammar | to_grammar, merge_grammar, convert_to_grammar | `GrammarMiner` |
| Repetitions | notebook 9842-10261 | chunks, prefix tree of `Node` | detect_chunks, chunkify, add_child, generate_grammar | `PrefixTree` |
| Compaction | notebook 10261-11021 | grammar, its length | chains, duplicate keys, single alternatives, duplicate rules, self definitions | `GrammarMiner` |
| Traced programs calc, cgi_decode | `subject/calc/calc.c`, `subject/ini/cgi_decode.c` | cursor | recursive descent, pointer walk | `CalcSubject`, `CgiSubject` |
| Traced program csv | `subject/csv/csv.c` | rows of fields, delimiters | the calls of `csv.h`, load and save | `Sheet`, `CsvBuffer`, `CsvFile`, `CsvSession` |
| Traced program tiny.c | `subject/tinyC/tiny.c` | code, stack, globals | parser, code generator, one action per opcode | `TinyC`, `TinyCMeaning` |
| Traced program elk | `subject/elk/elk.c` | memory of entities, scopes, callbacks | allocation, properties, js_gc, blocks, calls | `ElkHeap` |
| Evaluation | notebook 11319-11520, `check_it.py` | none | recall, precision | no: counting over external fuzzers |
| `ExecutionTree.py`, `Miner.ipynb` | | | earlier versions | no; `Return_KeepMid` of `CallTracer` is how the first differs |
| Other subjects | `subject/*` | | third-party parsers | no |

How the parts meet.  The tracer calls the resolver for each value it sees in a
register; the resolver starts a second gdb on a mutated input and reads that
one's answer from a file; the trace goes to the tree builder through the file
`tree`; the generalizer writes the text of a tree with a node swapped to
`inp.0.txt`, runs the tracer and the tree builder again and compares what comes
out; the grammar stages are a pipeline of functions with one loop around the
last of them.

What is hard.  The traced program is an adversary to the loop: it may call,
return, leave the mapped range, crash or exit at any instruction, and two
stacks, the call tree and an id have to follow it.  The resolver relies on an
experiment with a mutated input whose run may take another path, and on a file
nobody deletes.  The owner of an index depends on the order of the
comparisons.  Overlap removal edits trees recursively from both ends.  The
session exchanges two files with gdb processes whose exit nobody looks at.  The
passes of the compaction undo and enable each other.  There is no concurrency
between threads; processes alternate.  In the traced programs: rows and widths
that a dozen calls must keep in step (csv), jumps in bytes (tiny.c), and a
compacting collector that runs in the middle of an evaluation (elk).

What makes each part correct.  Tracer: its stack is the program's, the call
tree can be rebuilt, a value goes to the method that runs.  Resolver: what it
records was read; what was read is found; it ends.  Tree builder: the tree
spells the input, in order, without overlap, and loses nothing it was given.
Session: what is read as a trace is a tree of a text that was traced, a swap that is
accepted was confirmed by the program.  Grammar: the rules derive what they were learned
from, and compaction keeps the language and ends.  csv: each call does its own
change to the cells, and what is saved loads again.  tiny.c: it accepts
what its grammar derives and computes what the program means.  elk: a
collection relocates exactly what is reachable.

## Modules

`CallTracer` (after `z.py`).  `frames` is the stack of the traced program, the
environment; all other variables but the ghost `reads` are the debugger's.  One
action per branch of `event_loop`: `FollowCall`, `SkipCall` (step and finish,
in which the program may end), `Return`, `FinishOutOfScope`, the four kinds of
value (`ReadNothing`, `ReadUniqueChar`, `ReadAmbiguousChar`, `ReadFragment`),
`Crash` and `Break`.  A callee is a function of the binary, a stub of a library
routine, or unnamed; `Followed` is what the name filter lets through:
`{"function"}` for the notebook (names with `@plt` or `@GLIBC` are skipped),
`{"function", "library"}` for `z.py`, whose filter looks for `exit` and `alloc`
in names that have lost their suffix.  A stub that is entered leaves the mapped
range and comes back by `finish`.  `Outcomes` says what the resolver may answer
for an ambiguous character.  The comparisons are kept per index: the loop ends
with a stable sort by index, so only the order within an index reaches the
trace.  With a resolver that finds what was read, `CallTracer` refines
`TracePromise` (`KeepsPromise`, with `readers` computed from the ghost).

`IndexResolver` (after the notebook).  One value of the subject at a time:
`ReadValue` is `add_value_to_comparisons` up to the first search, `Rerun` is
`check` up to the end of the verifier, `Verdict` is the rest of `check` and of
the iteration of `verify_substr_path`.  `cands` is the set of indexes left to
try; the code tries them in ascending order, so the least is the one at hand.
The random alternative characters are nondeterministic (`Mutated`).  `updated` is the file; with `ChildMayFail` the
verifier may die before its first write, after one, or between opening and
writing (`RerunDies`; an empty file makes jsonpickle raise in the parent, which
ends the script).  `Shown` is the subject: the values it shows and at which
instruction.  The notebook never deletes the file, so a trace starts with
whatever an earlier one may have left (`Leftovers`: no file, one of the writes
that answer no, an empty file, or any answer a verifier may give to a search on an
input of `Before`); the ghost `inherited` is true until a verifier has written.  What the method
takes for granted of a subject is stated as `RunsAreStable` (with the later
duplicates replaced, the subject still shows the character that was read, at
the same instruction, shows that character there from no other place, and shows the
verifier some character at all, so that the file is overwritten) and
`FragmentsAreFound` (a longer value that `str.count` finds once is found where
it was read).

`TracePromise` is the abstract specification: comparisons of an index only
grow, one method at a time, and a method is recorded only for what it has read.
`IndexResolver` refines it as well, with `readers` computed from what the
subject has shown so far.

`CalcSubject` and `CgiSubject` are the two programs, as functions from an input
to the values shown.  calc (`parse_num`, and `parse_expr` with `parse_paren` in line)
loads a character and shows it again when it is tested with `isdigit`; cgi_decode shows the rest of the input as a string (the
pointer) before the character behind it, and `strip_input` looks at the last
character first.

`LastComparisons` and `MethodTree`, which extends it (after the notebook).  A
small program writes a trace (`Call`, `Return`, `Compare`), `Finish` sorts it,
`KeepLast` is one iteration of `last_comparisons`; in `MethodTree`, `Mine` is the
rest of `miner`: attach, `to_tree` with `no_overlap` and `remove_overlap_from`, and the
last assertion (`Accepted`), without which nothing is added to `my_trees`.
The sort is by index and stable, so the comparisons are kept per index, oldest
first, and `KeepLast` takes them from the least index upwards.  A failed assertion of `no_overlap` is the result
`AssertionFails`.  Nodes carry positions, not text.  LAST_COMPARISON_HEURISTIC (off by default
in the notebook) is chosen at the start.  The sets of ranges are Python dictionaries
keyed by range; they never hold a range twice, so a set of nodes stands for
them.  `to_tree` and `remove_overlap_from` recurse; here they are recursive
functions, the first on the methods, the second on `Nodes`, the trees no deeper than
there are methods.

`MinerSession` (after the notebook).  `inp` and `tree` are the files; every
seed is written, traced and read (`WriteSeed`, `GdbEnds` or `GdbDies`,
`ReadTrace`), then every node is compared with the first node of each bucket,
both ways (`Known` when the texts are equal or `EXEC_MAP` has an answer, `Check`
and `Verified` when the program is asked).  A gdb that dies leaves the tree that
was there and any text in `inp.0.txt`, because a verifier of an index works on a
mutated one; or, dying while it writes, a tree that cannot be decoded (`NoTree`), at which
`binary_miner` raises and `check` says no.  A tree is its text and its shape, the two things `tree_to_pstr`
shows; what swapping two nodes makes (`Swap`) and what the program makes of a
text (`Parse`) are chosen at the start from sets of functions.  A seed has one
node.

`PrefixTree` and `GrammarMiner` (after the notebook).  `PrefixTree` is
`generate_grammar` for one nonterminal: windows that come twice in a row become
chunks, the lists become a prefix tree with counters, the tree becomes rules.
`GrammarMiner` starts with the grammar of a set of derivation trees; one action
is one pass with the `grammar_gc` behind it, and `Measure` is the test of the
loop.  `learned` keeps the grammar before the first pass for the properties.
The order of Python's hash sets does not matter because the rules are sorted
first.  Names with blanks or colons are left out.

`Sheet`, `CsvBuffer`, `CsvFile`, `CsvSession` (after `csv.c`).  `Sheet` is the
abstract specification: every cell has a text, `Change` says what each call with its
arguments does to the cells and `Fatal` which calls end the sheet.  `CsvBuffer` is the
buffer with its rows of different widths, one action per call of `csv.h`; the
ghost `call` holds the call and its arguments, and is `Returned` before the next one,
so that two equal calls in a row are two steps.  Its `Promise` is the refinement mapping,
under which every call must be the change of its own label.  `CsvFile` is
`read_next_field`, `csv_load` and `csv_save` as functions on files, and
`CsvSession` puts the two together.  A call outside the buffer, which the code
does not guard against in an empty buffer, ends the claims (`status`).

`TinyC` (after `tiny.c`) holds the parser and the code generator as operators on
token sequences, and the machine as actions.  `c` has numbers and jumps as they should
be; `Object` is what `g` and `fix` store of them, truncated to a signed char (`code`).  `TinyCMeaning` is independent of it: the grammar at the head of the
file read as what derives from what, and an evaluator over derivations.

`ElkHeap` (after `elk.c`).  The memory is a function from offsets to entities.
`Begin` enters a statement (and collects, if the code does), the other actions are
its effects: let, assignment, literals, blocks, calls, returns, an import by the
embedder, registered callbacks and their firing.  Words of 4 bytes.  What a set
of entities leads to (`Closed`: property lists, enclosing scopes, the marking of
`js_gc`) is a recursive function; the loop of `js_delete_marked_entities` is kept
turn by turn (`Turn`, `Without`), with the fixing up of offsets in each.  The field
`own` of a frame is a ghost.  `broken` becomes true when an allocation that fails
loses a property list; nothing is said of what follows.

The modules `MC...` give the constants their values; `CallTracer_proofs`,
`IndexResolver_proofs`, `LastComparisons_proofs`, `MethodTree_proofs`, `MinerSession_proofs`,
`CsvBuffer_proofs` and `ElkHeap_proofs` hold the theorems, and `Induction` what they
share: the induction rules of the library take an operator as a parameter, so
they are stated over sets there.  The operators marked "Mutant"
or "MUTANT" are plausible bugs, each of which a property must catch.

## Runs

| Run | Question | Result |
| --- | --- | --- |
| `tracer_exact` | own functions followed; exact resolver, any crash | the stack is the program's, attribution is right, the trace names exactly the readers (refines `TracePromise`) |
| `tracer_plt` | the filter of `z.py`, any resolver, any crash | tree and stacks stay consistent, a smaller id that comes later is a caller's |
| `resolver_calc` | every input of calc up to 4 characters | calc shows a searched character at the same place when mutated, what was read is found, nothing else recorded (refines `TracePromise`) |
| `resolver_cgi` | cgi_decode, any file left by an earlier trace, and the verifier may die | a stale answer of the same trace adds nothing, what was read is found while no verifier dies, every search ends |
| `tree` | all traces of a small program | the tree spells its range, loses nothing compared, owners are as the heuristic says, leaves are maximal, `miner` refuses the tree exactly when an end of the input was compared by nobody, the assertion of `no_overlap` fails only where a method calls three others |
| `session` | three seeds, every outcome of their swaps, up to two gdb processes that die | what is traced is a seed up to this one or what an earlier session left, never a mutated text; a bucket holds what the program confirmed both ways, nothing is refused wrongly while nothing dies, the session ends |
| `grammar` | pairs of derivation trees, to the end of the compaction | the rules learned derive the lists up to repetition, no pass changes the language, no replacement is circular |
| `csv` | any sequence of calls on small files | every call does its own change at its own cell (the buffer refines `Sheet`), rows keep a field, saved files load again, plain files split |
| `tinyc` | all short token sequences, nested and damaged programs, jumps around the limits of a char | parser and grammar agree; code and meaning agree and the machine stays on instructions while numbers and jumps fit a char |
| `elk` | a memory that fills up | collections relocate what is reachable, references land, scopes nest, the code of a function called by a statement stays, globals stay |
| `elk_callback` | "Call function, no GC" | violated in a callback, whose own code moves |
| `grammar_start` | `assert len(child_parent_map) < len(grammar)` | violated after a round in which `START` got the rules of a recursive method |

That only the later duplicates of an index are mutated (notebook 1150, against
1031) does no harm while every verifier ends: indexes are tried in ascending
order and the first confirmation ends the search, so the earlier duplicates
have been ruled out by then, which `resolver_calc` shows.

### Met while reading

Read, and left without a run of their own:

- An ambiguous character read by A, B and A again ends with B, where the text
  (notebook 2868) speaks of the method that last touched an index: `z.py` 409
  records it once per method.
- `str.count` leaves overlapping occurrences out (`z.py` 419): on `111` the
  fragment `11` counts once and is put down at the first place.  A fragment that
  counts more often is never resolved (notebook 1812, against 1293).
- `updated_comparisons` survives a trace, so that the first verifier of a later one may
  die and the answer of the earlier trace be taken for its own: on `1xx`, with the
  answer [2, "x", 3] in the file, 2 is recorded though the subject showed the character
  of index 3.  `check` says of itself (1208) that it looks whether the character flows through the
  same path.  `StaleAddsNothing` leaves just this case out (`inherited`).
- When a verifier dies on the right index, a later index may be confirmed in
  its place (1150 and 1231, against 1031).  In `z.py` this happens without a
  death: its loop goes on to the next index when the confirmed comparison is
  known already (`continue` at 411, which the notebook replaced by a return).
- The filter of `z.py` (157) enters stubs of library functions, whose entry stays
  on the stack when the routine returns, so `StackIsProgramStack` needs
  `Followed = {"function"}`.
- Characters before the first or behind the last compared one are in no node, so
  the assertion of `miner` at 8771 fails for them (`FailsAtTheEnds`; calc never reads what
  follows an unmatched parenthesis).  The comment at 2916 speaks of the last
  character of the child where the code tests the last index of the caller.  A
  later child within the range of a former one is dropped (4287), where the text
  (4160) says it keeps its range.
- `assert len(overlaps) == 1` (4297) fails although the comment above it (4292) says that
  "overlaps can happen on multiple parts": main calls three methods, the first reads index 2, the
  second 3, the third 1 and 4, and the range 1-4 overlaps both 2-2 and 3-3.
  `OverlapsTakeThree` says that it takes three called methods.
- `tree` is read whatever became of gdb: a seed whose trace fails counts as the seed
  before it, or as one of an earlier session (`TracesAreOwn` admits both, `NoDeathNoError`
  is about sessions without a death).
- `EXEC_MAP` has one answer per text: 1+2+2 may come from a {1} and a {2} in two
  ways.  `OneTreePerText` is the premise under which the answers are about the
  swap that is asked.
- `detect_chunks` (9920) misses a repetition that ends a list; two equal
  neighbours are merged by `add_child` all the same, but a single list of three
  equal symbols gets no star.
- csv: `csv_clear_row` on the last row removes it, where `csv.h` 234 says "Row size is now
  1."; `csv_clear_row` and `csv_remove_row` on the only row reallocate to size 0, where `csv.h`
  239 and 253 say that "reallocation should never fail": the arrays are freed and the buffer
  still points at them (`Fatal` of `Sheet` names these calls).  Guards of the form `row > rows - 1` never hold in an empty buffer;
  `csv_copy_row` of a row that is not there returns 0 (`csv.h` says 1);
  `csv_get_field` never returns 2 for an empty cell; a text that ends with an
  empty quoted one keeps what stood before it; `csv_load` into a buffer that has
  rows lays the file over them.
- tiny.c: numbers and jumps are stored in a signed char, which the comments at 241 and
  243 admit ("missing overflow check"): `b = 130;` leaves -126 in `b`.  `ComputesMeaning` is about numbers up to 127
  (`NumbersFit`), and it and `OnInstructions` about jumps of 127 bytes forward and 128 back
  (`JumpsFit`); a longer jump lands anywhere.  The call of `run()` is commented out in
  the source.
- elk: `setprop` repoints the list before it allocates, a function literal without
  room becomes a function at offset 0, and a scope without room is offset 0,
  after which execution goes on.

### Bounds

`MaxCalls` and `MaxInstr` cap the ids handed out and the instructions stepped.
Four calls allow a chain with a sibling and a return in between, and a call
after a return; four or five instructions allow returns and a read in two
methods.  The input of `MCCallTracer` holds a repeated and a unique character in
`tracer_exact`, in which no fragment occurs twice, and distinct characters in
`tracer_plt`.  The resolver runs on every string up to length 4 (calc) or 3
(cgi_decode, with a dying verifier) over the characters its subject tells
apart, all of them mutated in all ways over a small alphabet; three positions
allow a character to be read, missed and found again, four allow two ambiguous
characters at once and a fragment that occurs twice.  `tree` has an input of
4, four methods and 4 comparisons: children with gaps that overlap at an end, on two
parts at once, include each other, or are read again by their caller.  `Before` is one input in `resolver_calc`, where no
verifier dies, and all of them in `resolver_cgi`.

`session`: three seeds give a second and a third bucket, and two deaths cover a
dead trace with a dead verification after it; a swap makes a new text or the text
of a seed, in two shapes, and the program may reject one text.  `grammar`: 384
pairs of lists of up to 5 items, with nested groups, and one tree whose main
calls a helper; languages are compared on words of up to 4 symbols
(`MaxWord`), which tell apart one repetition, two, and a group with an operand.
`csv`: files of up to 4 characters (a letter, both delimiters, a newline), one of
which is also edited, up to 3 rows, 3 columns and 4 fields, so that rows differ in width.
`tinyc`: all texts of up to 4 tokens (6 for expressions), programs of two levels of
statements and the same with a token missing or swapped, 60 instructions
(`MaxSteps`), and conditionals and loops over 108 to 130 bytes that are jumped over, so
that a jump of every kind is once just short enough and once too long.  `elk`: 23 words
hold the global scope, two names and a function, and run full in the middle of a call;
three blocks or calls may be open.  `elk_callback` has 29 words, for a function of the embedder
besides, and one frame.  Deadlock
checking is off: all the programs stop.

### Fairness

`Finishes` of `resolver_cgi` and of `session` need `WF_vars(Next)`: the tracer and
the notebook are sequential processes that wait for their gdb.  That the subject
ends on every input is part of `Shown` and `Parse`; the code has no timeout
should one not.

## Proofs

`CallTracer_proofs` proves, for every input, every bound, every filter and
every resolver that the assumptions of `CallTracer` allow:

- `TypeCorrect`, `StacksNeverDrift` and `LeaveFindsAnEntry`: types, that `mstack`,
  `method_stack` and `mid` agree, and that `CallStack.leave` never empties its
  stack before the program's own has returned.  The invariant is `StackInv`:
  types, the shape of the program's stack (startup code at the bottom, followed
  callees above), agreement, and that the debugger's stack is at least as high as
  the program's.
- `Inductive`: `IInv` adds that ids grow along the stack (`IdsGrow`), that no id
  occurs before it is handed out (`IdsHandedOut`), that every id is the child of
  one earlier id (`CallTree`), that whatever was called since an open method was
  entered descends from it (`OpenMethodsCalledTheRest`), and the property of the
  heuristic itself.  Neither of the last two is inductive alone: a comparison
  with a smaller id is made by an open method, and only
  `OpenMethodsCalledTheRest` says that the earlier owner was called by it.
- `CallTreeRebuilds`: the asserts of `reconstruct_method_tree` hold of every
  trace, crashed or not.
- `HeuristicPremise`: "midC is a child of mid" (notebook 2915) is right, as
  "descendant".
- `StackMirrorsProgram` and `Attribution`, under the assumption `OnlyFunctions`
  (`Followed = {"function"}`): `method_stack` is the program's stack, and what is
  appended names the running method.  With a library stub followed the first is
  false: its entry is never popped.
- `NothingIsForgotten` and `TraceKeepsPromise`, under `ExactTrace`: besides
  `OnlyFunctions`, the resolver confirms the index that was read
  (`ExactResolver`) and no fragment occurs twice (`FragmentsOnce`).  The invariant is
  that the comparisons of an index and its readers are the same set
  (`SameReaders`); it needs `StackIsProgramStack`, or the id that is recorded would not
  be the reader's, and `IdsGrow`, by which the running method is not the root that
  nothing is recorded for.  The second is the refinement: initial states map to
  initial states of `TracePromise` and each step to a step of it.

`IndexResolver_proofs` proves, for every subject, alphabet and set of inputs:

- `StaleHolds`: `StaleAddsNothing`, whatever the subject does, whatever file the trace
  began with and however often the verifier dies.  The invariant is `BaseInv`, whose
  part `FileInv` says that an answer in the file is a comparison that is recorded
  already, unless an earlier trace has left it or the verifier has just given it.  The
  first of these exceptions is no weakness of the proof: such an answer does add (Met while reading).
- `ReadIsFoundHolds`, under `RunsAreStable`: as long as no verifier has died, every
  single character that was read is recorded for its reader, whatever was in the file.  `CalmInv` says that
  the index that was read is among those left to try (`StillThere`), that the
  verifier confirms this one and no other (`Answered`), and that the values
  before have been dealt with (`Found`).  The indexes below the right one are
  never confirmed because the character at the right one is replaced in their
  runs, and the right one is confirmed because it is not replaced in its own.
- `KeepsPromiseHolds`, under `RunsAreStable` and `FragmentsAreFound` when no verifier
  dies: `IndexResolver` implements `TracePromise`, step by step.

For calc both premises are proved, for inputs of any length (`IsCalc`: the subject
is calc), so that nothing is left open:

- `CalcIsASubject`: its recursive descent ends and what it shows lies within the
  input, as `ShownAssumption` asks.  `parse_num` and `parse_expr` are functions of
  a run and a method; that they exist is shown backwards from the end of the input,
  because every call they make is on a later position.  From a run to its result
  nothing goes back (`Forwards`): the position, the instruction count and what was
  seen only grow, and what is new lies at or after the position.
- `CalcRunsAreStable`: on two inputs with the same first `i` characters the runs
  are the same until they are past `i` and see nothing more of these characters
  after that (`Agree`).  A mutation changes later duplicates only, so what is
  searched for is shown unmoved, and a character that was replaced no longer equals
  the one that is looked for.
- `CalcFlowsTheSamePath`, `CalcReadIsFound` and `CalcKeepsPromise`: the properties of
  `resolver_calc` for every input; calc shows single characters, so the second
  premise is never asked for.

cgi_decode does not have the second premise: of `+++` the pointer shows `++` at the
second place, which `str.count` finds once, at the first.  `resolver_cgi` does not ask
for the refinement, and the first premise is only checked there.

`LastComparisons_proofs` proves `DeepestOrBoundaryHolds`, for every length of the
input and every trace of every program that calls, compares and returns: with
the heuristic on, an index goes to the last called of its readers, or to one
that compared nothing beyond it.  What an owner must be (`Owned`) is not kept by
one iteration alone: an index that returns from a called method to its caller
must not be read by a third one called in between, or that one would be the
last called and not the owner.  `OthersReturned` excludes it: when a method compares an
index after one it called has, everything called since the caller is closed.

`MethodTree_proofs` proves, for every length of the input, every number of methods
and every trace, with and without the heuristic:

- `MethodTreeHolds`, the invariant `MInv`.  To that of `LastComparisons` it adds
  `CallTree` (a method but main is called once, by one that was called earlier, which
  is why the recursion of `to_tree` ends), `Owners` (the indexes that were kept have
  owners in the trace, in ascending order), and what a tree that was mined is.
- `SpellsHolds`, `NothingComparedIsLostHolds`, `LeavesAreMaximalHolds` and
  `FailsAtTheEndsHolds` from it; the last because a tree spells exactly its range, whose
  ends are compared and which holds all that was.
  A tree is `Good` when at every node the children lie in a row, no two neighbouring
  leaves are both runs of the method's own indexes, and the first and last index of
  the node are owned within it.  The argument goes through the code from the inside.
  What `indexes_to_children` makes are the maximal runs of a method (`RunsAre`).  The
  children of a method own different indexes, because nothing is called from
  two methods (`FromApart`).  A later child that does not lie within a former one
  reaches over an end of it: `remove_overlap_from` takes that end off, and by
  induction on the depth what is left is good, lies on one side, and keeps every run
  outside of what was taken (`Trims`).  `add_child` therefore keeps everything that was compared
  (`Keeps`) or fails the assertion, `filled` closes the gaps with pieces
  no child owns (`FilledGrown`), and the tree of a method ranges over all indexes
  that it and what it called own (`ToTreeIs`).
- `MiningKeepsTheTrace`: a behaviour of `MethodTree` is one of `LastComparisons`.

A trace at which the assertion fails is outside of these properties, as `tree` is then
`AssertionFails`; that this takes a method with three callees (`OverlapsTakeThree`) is
only model-checked.

`MinerSession_proofs` proves, for every list of seeds, every program, every
outcome of the swaps and every number of deaths:

- `Inductive`, `VerdictsSound`, `TracesSound`, `BucketsSound`: the invariant
  `IInv` and the three properties in it.  `TreeIsOwn` says that the file `tree`
  holds a tree of this program whoever left it; `SeedsInOrder` and `NodesInOrder` say
  which seed and which node each step is about, without which the tree that is
  read could be one of a later text; `FirstWayConfirmed` remembers that the answer
  to the first way was yes when the second is asked, and `Unanswered` that a
  verification is about a text without an answer, so that no answer is
  overwritten; `BucketsInOrder` keeps the places in range.
- `CalmSessionsAreRight`: `NoDeathNoError`.  Its invariant `CalmInv` holds while
  no gdb has died: the file `tree` answers for what is in `inp.0.txt` (`Answers`), a
  refusal in `EXEC_MAP` is the program's (`Refusals`), and the buckets before the
  one at hand have been refused (`KeptOut`).

`CsvBuffer_proofs` proves, for every set of texts, files and delimiters, every
loader that returns rows of text without an empty one, and every size:

- `TypeCorrect`: no sequence of calls leaves a row without a field, which
  `remove_last_field` relies on (it decrements a width without a look at it).
- `SheetKept`: `KeepsSheet`, the refinement: a call is the change of its label, with
  the arguments it was given, and ends the sheet exactly when `Fatal` says so.  Its invariant `BufferInv` adds to the
  types that the buffer fits in the window of the sheet (`Tight`); without it a
  row moved up or a field moved back could bring something in from beyond the
  window.  The argument has two layers.  `Cell(b, i, k)` is what a buffer shows at
  a cell, whatever its widths; a lemma for each operation on a row or the buffer
  (`FieldRemoved`, `StoredCell`, `FileLaidOver`...) says what it does to that, and one
  for each action of `Sheet` (`IsRemove`, `IsPut`, `IsOverlay`...) says which change of
  the cells it is.  A lemma per call (`RemoveFieldStep`...) joins the two: that
  `csv_remove_field` shifts a row and cuts its end, or blanks the only field, and
  that `csv_clear_field` does the one or the other, are the same to the sheet.

`ElkHeap_proofs` proves, for every size of the memory, all sets of variables,
imports and literals, and every depth of blocks and calls:

- `IInvHolds`.  While `broken` is false there is a set S of entities in use that leads
  nowhere else, each reference landing on its kind and lists going down
  (`Sound`), the memory is filled without gaps up to `brk` (`Packed`), the scopes
  are those of the blocks and calls from the global one inwards (`Nested`), and what each
  block and call opened upon is still there, below its scope, no value referring
  to that (`Opened`).  S is not what the roots reach: the fast collection of `js_block`
  and the scopes it drops are right about more than that, and a set that exists
  is easier to keep through an allocation than the reachable one.
- `HeapSoundHolds`, `ScopesNestHolds`, `CodeStaysHolds` and `GlobalsStayHolds` from it.  Like the
  property, `CodeStaysHolds` is about functions that a statement calls; the code of a
  callback does move (`elk_callback`).  For
  the first, `Closed` is shown to be the least set that contains the roots and
  what its members refer to, so what is reachable is in S.
- `GcRelocatesHolds`: a collection is one relocation.  The loop deletes one entity
  at a time, moves the rest down and adjusts every offset above, so each reference
  is adjusted as often as entities below it go.  The invariant of
  the loop (`Reached`) follows the place x of the original memory that it has come to: what is
  below x lies where it will stay, the rest has moved down with x, and so have
  the references; a turn moves x past one entity (`PassesKept`, `PassesDeleted`), and
  there are as many turns as entities (`ComesToEnd`).
- Each action keeps the invariant and the global variables (`Keeps`); a statement
  is an evaluation (`Evaluates`) followed by its effect, and allocation is the only
  way the memory grows (`Grown`).

Assumptions on constants: `InputAssumption`, `FollowedAssumption`,
`OutcomesAssumption`, `BoundAssumption` of `CallTracer`; `InputsAssumption` and
`ShownAssumption` of `IndexResolver` (inputs are strings of bounded length, and
what a subject shows is a part of its input); `SizeAssumption` of
`LastComparisons` and `MethodsAssumption` of `MethodTree`; `SeedsAssumption`, `SwapAssumption`, `ParseAssumption`,
`LeftAssumption`, `NoTreeAssumption`, `DeathsAssumption` of `MinerSession`;
`TextAssumption`, `LoadedAssumption`, `DelimsAssumption`, `SizeAssumption` of `CsvBuffer`;
`SizesAssumption` (the global scope fits), `NamesAssumption` and
`LiteralsAssumption` (variables and kinds of literals are told apart) of `ElkHeap`.
TLC evaluates all of them in the runs of these modules.

Only model-checked: the grammar, tiny.c, how csv reads and writes its files
(`SaveLoads`, `PlainFilesSplit`), and liveness under fairness, which is out of the
prover's reach.  `PrefixTree`, `GrammarMiner`, `CsvFile`, `TinyC` and
`TinyCMeaning` use recursive operators, which the prover cannot reason about;
what a recursive function computes can be proved by the set induction of
`Induction`, as for elk's collector and the method trees.

## Not modelled

The text of gdb's and nm's answers, names and addresses; that a blank is never
seen as a character (`extract_char` splits at blanks); values that are part of the
input by accident (a register that happens to hold a character of the input).
`MethodTree` does not treat a piece of the input of the form `<...>`, which
`is_nt` takes for a nonterminal.  Of the session: compilation and `flag.txt`, a
session of another program in the same directory (11231 to 11270, without
`clean_build`), several nodes of one name in a tree, the renaming from the
patterns and the treatment of while and if nodes.  Of the grammar: cleaning of
token names.  Of csv: allocations that fail, copies between two buffers.  Of
elk: parsing, operators, numbers, the text of strings, if, while and return;
`js_call` and the three words a callback takes without a look at `brk`.
The evaluation counts over external fuzzers; `ExecutionTree.py` and `Miner.ipynb` are
earlier versions of what is modelled.

The models cover the miner and a part of its subjects.  Most of the
repository's source lines are copies of other projects that the miner treats as
black boxes: duktape, SQLite, mjs and libyaml make up nearly all of some two hundred
thousand lines of C, and the miner itself is a notebook and scripts of a few thousand
lines.  Modelling those copies would say nothing about BMiner, so the share of the
C code that is covered stays small.

What could follow: the renaming of nodes from their patterns with several nodes
of one name; a session after one of another program; elk's parser and its
control statements; the opcodes of tiny.c and the fields of csv with functions in the
place of their recursive operators, so that `OnInstructions` and `SaveLoads` can be
proved.

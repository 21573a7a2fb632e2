------------------------------ MODULE MinerSession ------------------------------
(***************************************************************************)
(* A session of binary_miner of Final.ipynb: every seed is traced by a gdb of  *)
(* its own, then generalize_method_trees sorts the nodes of one method into    *)
(* buckets; to compare two nodes it swaps one for the other and has the        *)
(* program trace the text that comes out.  gdb and the notebook share a        *)
(* directory: inp.0.txt is what gdb reads, tree what it leaves behind.  A gdb   *)
(* may die, and nobody looks at its exit.                                      *)
(*                                                                         *)
(* Left out: the trees but for their text and the shape that tree_to_pstr      *)
(* shows with braces; more than one node a seed (the nodes of two seeds have    *)
(* different texts); flag.txt and the compiler.                               *)
(***************************************************************************)
EXTENDS Integers, Sequences, FiniteSets

CONSTANTS
    Texts,      \* inputs: the seeds, those that swaps make, mutated ones
    Shapes,     \* of trees
    Seeds,      \* the arguments of binary_miner, in order
    Left,       \* texts that an earlier session may have left in the files
    Swaps, Swap(_, _, _),   \* ways in which replacing nodes may turn out: the tree of x with the node of y
    Parses, Parse(_, _),    \* programs: the shape of the tree of a text
    MaxDeaths   \* bound: gdb processes that die

ASSUME SeedsAssumption == Seeds \in Seq(Texts) /\ Seeds # <<>>

Trees  == [text : Texts, shape : Shapes]
NoTree == [text |-> "none", shape |-> "none"]

ASSUME SwapAssumption   == \A w \in Swaps : \A x, y \in Texts : Swap(w, x, y) \in Trees
ASSUME ParseAssumption  == \A p \in Parses : \A x \in Texts : Parse(p, x) \in Shapes
ASSUME LeftAssumption   == Left \subseteq Texts /\ Left # {}
ASSUME NoTreeAssumption == NoTree \notin Trees
ASSUME DeathsAssumption == MaxDeaths \in Nat

VARIABLES
    swap, parse,   \* of this session: what replace_nodes makes, what the program does
    inp,           \* the file inp.0.txt
    tree,          \* the file tree; NoTree when it is missing or torn
    deaths,
    step,          \* where binary_miner is
    call_trace,    \* the trees read after the traces of the seeds
    EXEC_MAP,      \* verdicts of check, by text
    buckets,       \* the first node of each, by its place in call_trace
    pattern,       \* of the nodes that are in a bucket
    at             \* [e, b, way]: node e is compared with bucket b, this way

vars == <<swap, parse, inp, tree, deaths, step, call_trace, EXEC_MAP, buckets, pattern, at>>

Steps == {"seed", "trace", "traced", "ask", "verify", "verified", "done", "failed"}

-----------------------------------------------------------------------------
(* What gdb leaves when it is done with a text.                               *)
Traced(text) == [text |-> text, shape |-> Parse(parse, text)]

Start == [e |-> 2, b |-> 1, way |-> 1]

Init ==
    /\ swap \in Swaps /\ parse \in Parses
    /\ inp \in Left
    /\ tree \in {NoTree} \union { Traced(text) : text \in Left }
    /\ deaths = 0
    /\ step = "seed"
    /\ call_trace = <<>> /\ EXEC_MAP = <<>>
    /\ buckets = <<1>> /\ pattern = <<0>> /\ at = Start

(* print(inp, file=f), whatever is in the file.                               *)
Written_Once(text) == IF inp \in Texts THEN inp ELSE text  \* MUTANT: keeps the file that is there
Written(text) == text

WriteSeed ==
    /\ step = "seed"
    /\ inp' = Written(Seeds[Len(call_trace) + 1])
    /\ step' = "trace"
    /\ UNCHANGED <<swap, parse, tree, deaths, call_trace, EXEC_MAP, buckets, pattern, at>>

After(run) == IF run = "trace" THEN "traced" ELSE "verified"

GdbEnds ==
    /\ step \in {"trace", "verify"}
    /\ tree' = Traced(inp)
    /\ step' = After(step)
    /\ UNCHANGED <<swap, parse, inp, deaths, call_trace, EXEC_MAP, buckets, pattern, at>>

(* The verifier of an index works on a mutated inp.0.txt: a death there leaves *)
(* that text in the file.  A death while tree is written leaves nothing that    *)
(* can be decoded.                                                           *)
GdbDies ==
    /\ step \in {"trace", "verify"}
    /\ deaths < MaxDeaths
    /\ deaths' = deaths + 1
    /\ \/ inp' \in Texts /\ UNCHANGED tree
       \/ tree' = NoTree /\ UNCHANGED inp
    /\ step' = After(step)
    /\ UNCHANGED <<swap, parse, call_trace, EXEC_MAP, buckets, pattern, at>>

ReadTrace ==
    /\ step = "traced"
    /\ IF tree = NoTree
       THEN step' = "failed" /\ UNCHANGED call_trace
       ELSE /\ call_trace' = Append(call_trace, tree)
            /\ step' = CASE Len(call_trace') < Len(Seeds) -> "seed"
                         [] Len(call_trace') = Len(Seeds) -> IF Len(Seeds) > 1 THEN "ask" ELSE "done"
    /\ UNCHANGED <<swap, parse, inp, tree, deaths, EXEC_MAP, buckets, pattern, at>>

-----------------------------------------------------------------------------
Node(e) == call_trace[e].text

(* The tree of x with the node of y in it.                                    *)
Replaced(x, y) == Swap(swap, Node(x), Node(y))

Updated ==
    LET r == buckets[at.b]
    IN  IF at.way = 1 THEN Replaced(at.e, r) ELSE Replaced(r, at.e)

Same == Node(at.e) = Node(buckets[at.b])

(* is_compatible asks both ways.                                              *)
Enough_Once(way) == way \in {1, 2}  \* MUTANT: one way is enough
Enough_Never(way) == way = 3         \* MUTANT: the second answer is asked for again
Enough(way) == way = 2

Tried_First(b) == TRUE  \* MUTANT: the first bucket that does not fit is the last
Tried(b) == b = Len(buckets)

Next_e == IF at.e < Len(call_trace) THEN [e |-> at.e + 1, b |-> 1, way |-> 1] ELSE at

(* identify_buckets with the verdict v: the other way, the next bucket, a      *)
(* bucket found, or a new one.                                               *)
Goes(v) ==
    LET settled == v /\ Enough(at.way)
        new     == ~v /\ Tried(at.b)
    IN  /\ pattern' = IF settled THEN Append(pattern, at.b - 1)
                      ELSE IF new THEN Append(pattern, Len(buckets)) ELSE pattern
        /\ buckets' = IF new THEN Append(buckets, at.e) ELSE buckets
        /\ at' = CASE settled \/ new -> Next_e
                   [] v /\ ~settled -> [at EXCEPT !.way = 2]
                   [] ~v /\ ~new -> [at EXCEPT !.b = @ + 1, !.way = 1]
        /\ step' = IF (settled \/ new) /\ at.e = Len(call_trace) THEN "done" ELSE "ask"
        /\ UNCHANGED <<swap, parse, tree, deaths, call_trace>>

(* The nodes have the same text, or check has an answer for the text.          *)
Known ==
    /\ step = "ask"
    /\ Same \/ Updated.text \in DOMAIN EXEC_MAP
    /\ Goes(IF Same THEN TRUE ELSE EXEC_MAP[Updated.text])
    /\ UNCHANGED <<inp, EXEC_MAP>>

Check ==
    /\ step = "ask"
    /\ ~Same /\ Updated.text \notin DOMAIN EXEC_MAP
    /\ inp' = Written(Updated.text)
    /\ step' = "verify"
    /\ UNCHANGED <<swap, parse, tree, deaths, call_trace, EXEC_MAP, buckets, pattern, at>>

(* parsed_ps == updated_ps: the braces and the text between them.              *)
SamePs_Braces(parsed, updated) == parsed.shape = updated.shape  \* MUTANT: the braces alone
SamePs(parsed, updated) == parsed = updated

Verified ==
    /\ step = "verified"
    /\ LET v == SamePs(tree, Updated)
       IN  /\ EXEC_MAP' = [s \in DOMAIN EXEC_MAP \union {Updated.text} |->
                             IF s = Updated.text THEN v ELSE EXEC_MAP[s]]
           /\ Goes(v)
    /\ UNCHANGED inp

Next == WriteSeed \/ GdbEnds \/ GdbDies \/ ReadTrace \/ Known \/ Check \/ Verified

Spec == Init /\ [][Next]_vars /\ WF_vars(Next)

-----------------------------------------------------------------------------
TypeOK ==
    /\ swap \in Swaps /\ parse \in Parses
    /\ inp \in Texts
    /\ tree \in Trees \union {NoTree}
    /\ deaths \in 0 .. MaxDeaths
    /\ step \in Steps
    /\ call_trace \in Seq(Trees) /\ Len(call_trace) <= Len(Seeds)
    /\ DOMAIN EXEC_MAP \subseteq Texts /\ \A s \in DOMAIN EXEC_MAP : EXEC_MAP[s] \in BOOLEAN
    /\ buckets \in Seq(Nat \ {0}) /\ pattern \in Seq(Nat)
    /\ at \in [e : Nat, b : Nat, way : {1, 2}]

Confirms(x, y) == Replaced(x, y) = Traced(Replaced(x, y).text)

(* Two swaps of the session may come out with the same text and different       *)
(* trees (1+2+2 from {1}+{2}, in two ways); EXEC_MAP keeps one answer for both.  *)
OneTreePerText ==
    \A x, y, z, w \in Texts :
        Swap(swap, x, y).text = Swap(swap, z, w).text => Swap(swap, x, y) = Swap(swap, z, w)

(* check: a swap passes only if the program takes the text of the new tree in   *)
(* exactly that shape.  The tree that a dead gdb leaves in the file, of a seed   *)
(* or of another swap, never passes for an answer, because the text is part     *)
(* of what is compared.                                                       *)
OnlyTheProgramConfirms ==
    \A s \in DOMAIN EXEC_MAP :
        EXEC_MAP[s] => \E x, y \in Texts : Swap(swap, x, y) = Traced(s)

(* binary_miner: what is read after a trace is a tree that this program made,   *)
(* of a seed up to this one or left by an earlier session; the mutated text       *)
(* that a dead verifier leaves in inp.0.txt is never traced.                     *)
TracesAreOwn ==
    \A i \in DOMAIN call_trace :
        /\ call_trace[i] = Traced(call_trace[i].text)
        /\ call_trace[i].text \in Left \union { Seeds[j] : j \in 1 .. i }

Fits(e, r) ==
    \/ r = e
    \/ Node(r) = Node(e)
    \/ OneTreePerText => Confirms(e, r) /\ Confirms(r, e)

(* identify_buckets: a node is put with the first node of a bucket only if the  *)
(* program confirms the swap both ways, whatever has died on the way.            *)
BucketsAreConfirmed == \A e \in DOMAIN pattern : Fits(e, buckets[pattern[e] + 1])

(* When no gdb has died the traces are those of the seeds, in order, and a node  *)
(* is kept out of a bucket only if the program refuses a swap with its first     *)
(* node: the buckets are those of the one-to-one comparison.                     *)
NoDeathNoError ==
    deaths = 0 /\ OneTreePerText =>
        /\ \A i \in DOMAIN call_trace : call_trace[i] = Traced(Seeds[i])
        /\ \A e \in DOMAIN pattern : \A b \in 1 .. pattern[e] :
               e > 1 => ~(Confirms(e, buckets[b]) /\ Confirms(buckets[b], e))

(* What the proofs rest on: where the seeds and the nodes are, that the file     *)
(* tree holds a tree of this program, and that a node goes the second way only    *)
(* when the first has been confirmed.                                          *)
Seeding == step \in {"seed", "trace", "traced"}
Sorting == step \in {"ask", "verify", "verified"}

TreeIsOwn == tree # NoTree => tree = Traced(tree.text)

SeedsInOrder ==
    Seeding =>
        /\ Len(call_trace) < Len(Seeds)
        /\ step = "trace" => inp = Seeds[Len(call_trace) + 1]
        /\ tree # NoTree => tree.text \in Left \union { Seeds[j] : j \in 1 .. Len(call_trace) + 1 }
        /\ buckets = <<1>> /\ pattern = <<0>> /\ at = Start

NodesInOrder ==
    Sorting =>
        /\ Len(call_trace) = Len(Seeds)
        /\ at.e \in 2 .. Len(call_trace)
        /\ at.b \in 1 .. Len(buckets)
        /\ Len(pattern) = at.e - 1

BucketsInOrder ==
    /\ \A k \in DOMAIN buckets : buckets[k] <= Len(pattern)
    /\ \A e \in DOMAIN pattern : pattern[e] < Len(buckets)
    /\ step = "done" => Len(pattern) = Len(Seeds)

FirstWayConfirmed ==
    Sorting /\ at.way = 2 =>
        \/ Same
        \/ LET s == Replaced(at.e, buckets[at.b]).text IN s \in DOMAIN EXEC_MAP /\ EXEC_MAP[s]

Unanswered == step \in {"verify", "verified"} => ~Same /\ Updated.text \notin DOMAIN EXEC_MAP

IInv ==
    /\ TypeOK /\ TreeIsOwn /\ SeedsInOrder /\ NodesInOrder /\ BucketsInOrder
    /\ FirstWayConfirmed /\ Unanswered
    /\ OnlyTheProgramConfirms /\ TracesAreOwn /\ BucketsAreConfirmed

(* The session ends, with every node in a bucket unless there was no tree to     *)
(* read.                                                                      *)
Finishes == <>(\/ step = "failed"
               \/ step = "done" /\ Len(pattern) = Len(Seeds))
================================================================================

-------------------------------- MODULE ElkHeap --------------------------------
(***************************************************************************)
(* The memory of subject/elk/elk.c, one of the traced programs: entities    *)
(* packed from offset 0 to brk, allocation, scopes and the compacting       *)
(* collector js_gc, under the statements and API calls that use them.       *)
(* Offsets and sizes are in words of 4 bytes.  What is left out: parsing,   *)
(* numbers, the characters of strings.                                      *)
(*                                                                         *)
(* An entity is a record [kind, link, up, key, val, text, words]: link is    *)
(* the first property of an object or the next one of a property, up the    *)
(* enclosing scope of an object.  A value is [type, off].                   *)
(***************************************************************************)
EXTENDS Integers, Sequences, FiniteSets

CONSTANTS
    Names,       \* of variables
    Imported,    \* those an embedder binds to C functions
    Literals,    \* the kinds of literals in the programs
    Size,        \* words of memory
    CodeWords,   \* words of a function literal
    MaxFrames    \* bound: blocks and calls open at a time

ASSUME SizesAssumption == Size \in Nat /\ Size >= 2 /\ CodeWords \in Nat \ {0}
ASSUME NamesAssumption == Names \cap {"num", "str", "func", "obj"} = {}
ASSUME LiteralsAssumption == Literals \subseteq {"num", "str", "func", "obj"}

VARIABLES
    heap,    \* [mem: offset -> entity, brk, size, scope, cbs]
    frames,  \* the blocks and calls being executed, on the C stack
    begun,   \* js_stmt has been entered and has not done its work
    err,     \* js_err has moved pos to the end of the code
    broken   \* a reference that is reachable points at no entity

vars == <<heap, frames, begun, err, broken>>

None   == [type |-> "num", off |-> 0]
Object(up)       == [kind |-> "obj", link |-> 0, up |-> up, key |-> 0, val |-> None, text |-> "", words |-> 2]
Property(n, k, v) == [kind |-> "prop", link |-> n, up |-> 0, key |-> k, val |-> v, text |-> "", words |-> 4]
String(t, n)     == [kind |-> "str", link |-> 0, up |-> 0, key |-> 0, val |-> None, text |-> t, words |-> n]

is_mem_entity(v) == v.type \in {"obj", "str", "func"}
Code      == String("code", CodeWords)  \* a function literal
Signature == String("ffi", 2)           \* an imported C function
Data      == String("data", 2)
Name(x)   == String(x, 2)

Init ==
    /\ heap = [mem |-> [o \in {0} |-> Object(0)], brk |-> 2, size |-> Size, scope |-> 0, cbs |-> <<>>]
    /\ frames = <<>>
    /\ begun = FALSE /\ err = FALSE /\ broken = FALSE

------------------------------------------------------------------------------
(* Allocation and properties.  A result is [h, ok, off].                        *)

mkentity(h, e) ==
    IF h.brk + e.words > h.size THEN [h |-> h, ok |-> FALSE, off |-> 0]
    ELSE [h |-> [h EXCEPT !.mem = [o \in DOMAIN @ \cup {h.brk} |-> IF o = h.brk THEN e ELSE @[o]],
                          !.brk = @ + e.words],
          ok |-> TRUE, off |-> h.brk]

\* Mutant: the new property does not keep the list it is put in front of.
setprop_Alone(h, obj, k, v) ==
    mkentity([h EXCEPT !.mem[obj].link = h.brk], Property(0, k, v))

\* The head of the list is repointed before the property is allocated.
setprop(h, obj, k, v) ==
    mkentity([h EXCEPT !.mem[obj].link = h.brk], Property(h.mem[obj].link, k, v))

\* mkstr for the name, then setprop; a name that did not fit has offset 0.
Bound(h, obj, x, v) == LET name == mkentity(h, Name(x)) IN setprop(name.h, obj, name.off, v)

\* What S leads to, refers giving what each offset refers to; n bounds the steps.
Closed(refers, S) ==
    LET from[n \in Nat] == [T \in SUBSET Nat |->
            LET more == UNION {refers[o] : o \in T \cap DOMAIN refers}
            IN  IF n = 0 \/ more \subseteq T THEN T ELSE from[n - 1][T \cup more]]
    IN  from[Cardinality(DOMAIN refers) + 1][S]

Highest(S) == CHOOSE o \in S : \A p \in S : p <= o

\* lkp: the property of obj named x that comes first, or 0.  A list goes down.
Chain(h, obj) ==
    LET rest == DOMAIN h.mem \ {0}
    IN  Closed([o \in rest |-> {h.mem[o].link}], {h.mem[obj].link}) \cap rest
lkp(h, obj, x) ==
    LET found == {o \in Chain(h, obj) : h.mem[h.mem[o].key].text = x}
    IN  IF found = {} THEN 0 ELSE Highest(found)

\* lookup: through the enclosing scopes, which lie lower.
Scopes(h) == Closed([o \in DOMAIN h.mem \ {0} |-> {h.mem[o].up}], {h.scope})
lookup(h, x) ==
    LET s == {o \in Scopes(h) : lkp(h, o, x) # 0}
    IN  IF s = {} THEN 0 ELSE lkp(h, Highest(s), x)

------------------------------------------------------------------------------
(* js_gc                                                                        *)

Referred(e) ==
    CASE e.kind = "obj"  -> {e.link}
      [] e.kind = "prop" -> {e.link, e.key} \cup (IF is_mem_entity(e.val) THEN {e.val.off} ELSE {})
      [] e.kind = "str"  -> {}

References(h) == [o \in DOMAIN h.mem |-> Referred(h.mem[o])]

\* Mutant: the callbacks' functions are not roots.
Unmarked_NoCallbacks(h) == Closed(References(h), Scopes(h))

\* js_unmark_used_entities: what the scopes and the callbacks reach.
Unmarked(h) ==
    Closed(References(h), Scopes(h) \cup UNION {{h.cbs[i].caller, h.cbs[i].func} : i \in DOMAIN h.cbs})

\* Mutant: the keys of properties are not fixed up.
Fixed_NotKeys(e, start, n) ==
    [e EXCEPT !.link = IF e.kind # "str" /\ (IF e.kind = "prop" THEN @ >= start ELSE @ > start) THEN @ - n ELSE @,
              !.val.off = IF e.kind = "prop" /\ is_mem_entity(e.val) /\ @ > start THEN @ - n ELSE @]

\* js_fixup_offsets, on one entity: n words at start go.  The word with the
\* link of a property holds its type bit too.  up stays as it is.
Fixed(e, start, n) ==
    [e EXCEPT !.link = IF e.kind # "str" /\ (IF e.kind = "prop" THEN @ >= start ELSE @ > start) THEN @ - n ELSE @,
              !.key = IF e.kind = "prop" /\ @ > start THEN @ - n ELSE @,
              !.val.off = IF e.kind = "prop" /\ is_mem_entity(e.val) /\ @ > start THEN @ - n ELSE @]

\* The entity at off is deleted, those above it move down.
Without(h, off, marked) ==
    LET n         == h.mem[off].words
        down(o)   == IF o > off THEN o - n ELSE o
        kept      == DOMAIN h.mem \ {off}
        entity(o) == IF o \in marked THEN h.mem[o] ELSE Fixed(h.mem[o], off, n)
    IN  [h |-> [mem |-> [p \in {down(o) : o \in kept} |-> entity(CHOOSE o \in kept : down(o) = p)],
                brk |-> h.brk - n, size |-> h.size, scope |-> down(h.scope),
                cbs |-> [i \in DOMAIN h.cbs |-> [caller |-> down(h.cbs[i].caller), func |-> down(h.cbs[i].func)]]],
         off |-> off, marked |-> {down(o) : o \in marked \ {off}}]

\* js_delete_marked_entities: a turn of its loop at an offset, marked being
\* what is to go, and all turns.
Turn(t) ==
    IF t.off >= t.h.brk THEN t
    ELSE IF t.off \in t.marked THEN Without(t.h, t.off, t.marked)
    ELSE [t EXCEPT !.off = @ + t.h.mem[t.off].words]
Deleted(h, marked) ==
    LET after[n \in Nat] == IF n = 0 THEN [h |-> h, off |-> 0, marked |-> marked] ELSE Turn(after[n - 1])
    IN  after[Cardinality(DOMAIN h.mem)].h

js_gc(h) == Deleted(h, DOMAIN h.mem \ Unmarked(h))

------------------------------------------------------------------------------
(* Statements.  A statement is entered by Begin and ends with its one effect.   *)

InCallback == frames # <<>> /\ frames[1].type = "callback"
\* Mutant: a call does not count as a level.
lev_Blocks == Cardinality({i \in DOMAIN frames : frames[i].type = "block"})

lev == Len(frames) - IF InCallback THEN 1 ELSE 0

Begin ==
    /\ ~begun /\ ~err /\ ~broken
    /\ begun' = TRUE
    /\ heap' = IF lev = 0 THEN js_gc(heap) ELSE heap
    /\ UNCHANGED <<frames, err, broken>>

Ends(h, failed) ==
    /\ heap' = h /\ begun' = FALSE
    /\ err' = (failed /\ frames # <<>>)
    /\ UNCHANGED frames

\* The value of an expression: a number, the value of a variable, or a literal,
\* [h, ok, val].  A function literal that does not fit becomes a function at 0.
Kinds == Literals \cup Names
Evaluated(h, k) ==
    CASE k = "num"  -> [h |-> h, ok |-> TRUE, val |-> None]
      [] k = "str"  -> LET s == mkentity(h, Data) IN [h |-> s.h, ok |-> s.ok, val |-> [type |-> "str", off |-> s.off]]
      [] k = "func" -> LET s == mkentity(h, Code) IN [h |-> s.h, ok |-> TRUE, val |-> [type |-> "func", off |-> s.off]]
      [] k = "obj"  -> LET o == mkentity(h, Object(0))
                           n == mkentity(o.h, Name("k"))
                           p == setprop(n.h, o.off, n.off, None)
                       IN  [val |-> [type |-> "obj", off |-> o.off],
                            ok |-> o.ok /\ n.ok /\ p.ok,
                            h |-> IF ~o.ok THEN h ELSE IF ~n.ok THEN o.h ELSE p.h]
      [] k \in Names -> IF lookup(h, k) = 0 THEN [h |-> h, ok |-> FALSE, val |-> None]
                        ELSE [h |-> h, ok |-> TRUE, val |-> h.mem[lookup(h, k)].val]

Misplaced(v) == v.type = "func" /\ v.off = 0

Discard(k) == LET e == Evaluated(heap, k) IN Ends(e.h, ~e.ok) /\ UNCHANGED broken

\* js_let: undeclared in this scope.  Without room the list of the scope is lost.
Let(x, k) ==
    LET e == Evaluated(heap, k)
        b == Bound(e.h, e.h.scope, x, e.val)
    IN  \/ ~e.ok /\ Ends(e.h, TRUE) /\ UNCHANGED broken
        \/ e.ok /\ lkp(e.h, e.h.scope, x) # 0 /\ Ends(e.h, TRUE) /\ UNCHANGED broken
        \/ /\ e.ok /\ lkp(e.h, e.h.scope, x) = 0
           /\ Ends(b.h, ~b.ok)
           /\ broken' = (~b.ok \/ Misplaced(e.val))

\* assign: x, or the property k of the object x, takes the value.
Target(h, x, field) ==
    LET p == lookup(h, x)
    IN  IF ~field THEN p
        ELSE IF p = 0 \/ h.mem[p].val.type # "obj" THEN 0 ELSE lkp(h, h.mem[p].val.off, "k")
Assign(x, field, k) ==
    LET e == Evaluated(heap, k)
        t == Target(heap, x, field)
    IN  \/ lookup(heap, x) = 0 /\ Ends(heap, TRUE) /\ UNCHANGED broken
        \/ lookup(heap, x) # 0 /\ (~e.ok \/ t = 0) /\ Ends(e.h, TRUE) /\ UNCHANGED broken
        \/ /\ e.ok /\ t # 0
           /\ Ends([e.h EXCEPT !.mem[t].val = e.val], FALSE)
           /\ broken' = Misplaced(e.val)

------------------------------------------------------------------------------
(* Scopes, calls and callbacks                                                  *)

\* Mutant: every scope is put into the global one.
Scoped_Global(h) ==
    LET o == mkentity(h, Object(0)) IN [o.h EXCEPT !.scope = o.off]

\* mkscope: without room the error value is the scope, which is offset 0.  A
\* block is skipped then; a call goes on, as js_eval_nogc forgets the error.
\* own is a ghost: the scope of the frame, 0 once a mkscope has failed in it.
Scoped(h) ==
    LET o == mkentity(h, Object(h.scope)) IN [o.h EXCEPT !.scope = o.off]
Opens(type, code) ==
    /\ Len(frames) < MaxFrames
    /\ heap' = Scoped(heap)
    /\ LET failed == Scoped(heap).brk = heap.brk
           own(f)  == IF failed THEN 0 ELSE f.own
       IN  /\ frames' = Append([i \in DOMAIN frames |-> [frames[i] EXCEPT !.own = own(frames[i])]],
                               [type |-> type, code |-> code, own |-> Scoped(heap).scope,
                                brk1 |-> heap.brk, brk2 |-> Scoped(heap).brk])
           /\ err' = (failed /\ type = "block")
    /\ begun' = FALSE
    /\ UNCHANGED broken

EnterBlock == Opens("block", 0)

\* do_call_op and call_js, for a function without parameters.
Call(x) ==
    LET p == lookup(heap, x)
    IN  IF p # 0 /\ heap.mem[p].val.type = "func" /\ heap.mem[heap.mem[p].val.off].text = "code"
        THEN Opens("call", heap.mem[p].val.off)
        ELSE Ends(heap, p = 0 \/ heap.mem[p].val.type # "func") /\ UNCHANGED broken

Below(h, brk) == [h EXCEPT !.brk = brk, !.mem = [o \in {q \in DOMAIN @ : q < brk} |-> @[o]]]

\* The fast scope GC of js_block: nothing but the scope was allocated.
FastGc(h, f) == IF h.brk = f.brk2 THEN Below(h, f.brk1) ELSE h

Exit ==
    /\ frames # <<>> /\ ~begun /\ ~broken
    /\ LET f == frames[Len(frames)]
           h == [heap EXCEPT !.scope = heap.mem[heap.scope].up]
       IN  \* js_block leaves an error to its caller; do_call_op and fficb go on
           \* behind the call, and call_js has dropped the error.
           /\ heap' = IF f.type = "block" THEN FastGc(h, f) ELSE h
           /\ err' = (err /\ f.type = "block" /\ Len(frames) > 1)
    /\ frames' = SubSeq(frames, 1, Len(frames) - 1)
    /\ UNCHANGED <<begun, broken>>

\* js_set(js_glob, x, js_import(...)): an embedder's call between evaluations.
Import(x) ==
    /\ frames = <<>> /\ ~begun /\ ~broken
    /\ LET s == mkentity(heap, Signature)
           b == Bound(s.h, 0, x, [type |-> "func", off |-> s.off])
       IN  heap' = b.h /\ broken' = (~b.ok \/ ~s.ok)
    /\ UNCHANGED <<frames, begun, err>>

\* call_c with a callback parameter: x is a C function, y the function that C
\* may call later.  The three words are taken from the end of the memory.
Register(x, y) ==
    LET p == lookup(heap, x)
        q == lookup(heap, y)
        fits == heap.brk <= heap.size - 3
    IN  /\ p # 0 /\ q # 0
        /\ heap.mem[p].val.type = "func" /\ heap.mem[heap.mem[p].val.off].text = "ffi"
        /\ heap.mem[q].val.type = "func" /\ heap.mem[heap.mem[q].val.off].text = "code"
        /\ Ends([heap EXCEPT !.size = @ - 3,
                             !.cbs = Append(@, [caller |-> heap.mem[p].val.off, func |-> heap.mem[q].val.off])], FALSE)
        /\ broken' = ~fits

\* fficb: C calls back when no evaluation is running.
Callback ==
    /\ frames = <<>> /\ ~begun /\ ~broken
    /\ \E i \in DOMAIN heap.cbs : Opens("callback", heap.cbs[i].func)

Statement ==
    /\ begun /\ ~broken
    /\ \/ \E k \in Kinds : Discard(k)
       \/ \E x \in Names, k \in Kinds : Let(x, k)
       \/ \E x \in Names, field \in BOOLEAN, k \in Kinds : Assign(x, field, k)
       \/ EnterBlock
       \/ \E x \in Names : Call(x)
       \/ \E x, y \in Names : Register(x, y)

Next == Begin \/ Statement \/ Exit \/ Callback \/ \E x \in Imported : Import(x)

Spec == Init /\ [][Next]_vars

------------------------------------------------------------------------------
(* Properties                                                                   *)

\* Where a reference must land, by what refers to it.
Lands(h, o, kinds) == o \in DOMAIN h.mem /\ h.mem[o].kind \in kinds
SoundEntity(h, o) ==
    LET e == h.mem[o]
    IN  /\ e.kind \in {"obj", "prop"} /\ e.link # 0 => Lands(h, e.link, {"prop"}) /\ (e.kind = "prop" => e.link < o)
        /\ e.kind = "prop" => Lands(h, e.key, {"str"})
        /\ e.kind = "prop" /\ is_mem_entity(e.val) =>
               Lands(h, e.val.off, IF e.val.type = "obj" THEN {"obj"} ELSE {"str"})

\* Everything the program can reach is an entity of the expected kind, the
\* entities fill the memory up to brk without gaps, and a property list only
\* goes down, so that lkp and js_unmark_entity end.
HeapSound ==
    ~broken =>
        /\ \A o \in Unmarked(heap) : Lands(heap, o, {"obj", "prop", "str"}) /\ SoundEntity(heap, o)
        /\ \A o \in DOMAIN heap.mem : o + heap.mem[o].words \in DOMAIN heap.mem \cup {heap.brk}
        /\ heap.brk <= heap.size
        /\ \A i \in DOMAIN heap.cbs : heap.mem[heap.cbs[i].caller].text = "ffi" /\ heap.mem[heap.cbs[i].func].text = "code"

\* The words that the entities in S take, and those below o.
Words(h, S) == UNION {o .. o + h.mem[o].words - 1 : o \in S}
UsedBelow(h, S, o) == Cardinality({w \in Words(h, S) : w < o})

\* One collection moves every entity that is reachable down by the words of the
\* unreachable ones below it, and every reference with it; nothing else stays.
Relocated(h) ==
    LET live     == Unmarked(h)
        to(o)    == UsedBelow(h, live, o)
        moved(e) == [e EXCEPT !.link = IF e.kind # "str" THEN to(@) ELSE @,
                              !.key = IF e.kind = "prop" THEN to(@) ELSE @,
                              !.val.off = IF e.kind = "prop" /\ is_mem_entity(e.val) THEN to(@) ELSE @]
    IN  [mem |-> [p \in {to(o) : o \in live} |-> moved(h.mem[CHOOSE o \in live : to(o) = p])],
         brk |-> to(h.brk), size |-> h.size, scope |-> to(h.scope),
         cbs |-> [i \in DOMAIN h.cbs |-> [caller |-> to(h.cbs[i].caller), func |-> to(h.cbs[i].func)]]]

GcRelocates == [][Begin /\ lev = 0 => heap' = Relocated(heap)]_vars

\* The scope is that of the innermost block or call, and the global one between
\* evaluations.  Once mkscope has failed all of them go on in the global one,
\* but the next evaluation starts right.  The scope of a callback itself may
\* move: lev is 0 there, and every statement collects.
ScopesNest ==
    ~broken =>
        /\ frames = <<>> => heap.scope = 0
        /\ frames # <<>> =>
               LET f == frames[Len(frames)] IN f.type # "callback" => heap.scope = f.own

\* A running function's code stays where it is: fn points into the memory.
InPlace(f) == f.code \in DOMAIN heap.mem /\ heap.mem[f.code].text = "code"

\* So it is for every function that a statement has called, in a callback too,
\* though f = 1 inside f drops it.  The function that C has called back is not
\* one of them: there lev is 0.
CodeStays == ~broken => \A i \in DOMAIN frames : frames[i].type = "call" => InPlace(frames[i])

\* call_js, which fficb uses as well, says "Call function, no GC".
CallbackCodeStays == ~broken => \A i \in DOMAIN frames : frames[i].type = "callback" => InPlace(frames[i])

\* A global variable stays declared, whatever is allocated, collected or given
\* back at the end of a block.
Declared(h) == {h.mem[h.mem[o].key].text : o \in Chain(h, 0)}
GlobalsStay == [][~broken' => Declared(heap) \subseteq Declared(heap')]_vars
================================================================================

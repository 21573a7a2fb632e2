------------------------------- MODULE PrefixTree -------------------------------
(***************************************************************************)
(* The learning of repetitions (generate_grammar of Final.ipynb): the        *)
(* alternatives of one nonterminal are turned into a prefix tree acceptor,    *)
(* after the chunks that are repeated in them have been set apart, and the    *)
(* tree into rules.                                                          *)
(*                                                                         *)
(* A symbol is <<name, uid, tag>>: a terminal ("t"), or the nonterminal       *)
(* <name>, <name-uid> ("k"), <name-uid-c> ("c") or <name-uid-s> ("s").  An     *)
(* item of a list is a symbol or a repeated chunk {'_': symbols}.             *)
(***************************************************************************)
EXTENDS Integers, FiniteSets, SequencesExt

Terminal(name) == <<name, 0, "t">>
Nonterminal(name) == <<name, 0, "k">>
is_nt(symbol) == symbol[3] # "t"

Plain(symbol) == [chunk |-> FALSE, symbols |-> <<symbol>>]
Chunk(symbols) == [chunk |-> TRUE, symbols |-> symbols]
NoItem == [chunk |-> FALSE, symbols |-> <<>>]

Window(list, i, n) == SubSeq(list, i, i + n - 1)

-----------------------------------------------------------------------------
(* The windows of n symbols that come twice in a row.  The loop makes        *)
(* len - n turns and the last compared window starts one before the end, so  *)
(* a repetition that ends the list is not seen.                              *)
detect_chunks(n, list) ==
    { Window(list, i, n) :
        i \in { j \in 1 .. Len(list) - 2 * n : Window(list, j, n) = Window(list, j + n, n) } }

(* Every window that is in the set, from the left, becomes a chunk.          *)
RECURSIVE chunkify(_, _, _)
chunkify(items, n, chunks) ==
    LET symbols == FlattenSeq([i \in 1 .. n |-> items[i].symbols])
    IN  CASE Len(items) < n -> items
          [] /\ Len(items) >= n
             /\ \A i \in 1 .. n : ~items[i].chunk
             /\ symbols \in chunks
             -> <<Chunk(symbols)>> \o chunkify(SubSeq(items, n + 1, Len(items)), n, chunks)
          [] OTHER -> <<Head(items)>> \o chunkify(Tail(items), n, chunks)

(* The chunks of every list are looked for in all of them, short ones first. *)
identify_chunks(lists) ==
    LET maximum == CHOOSE m \in { Len(lists[i]) : i \in DOMAIN lists } :
                     \A i \in DOMAIN lists : Len(lists[i]) <= m
        all_chunks == [n \in 1 .. maximum \div 2 |-> UNION { detect_chunks(n, lists[i]) : i \in DOMAIN lists }]
        chunked(list) ==
            FoldLeft(LAMBDA items, n : chunkify(items, n, all_chunks[n]),
                     [i \in DOMAIN list |-> Plain(list[i])],
                     [n \in DOMAIN all_chunks |-> n])
    IN  [i \in DOMAIN lists |-> chunked(lists[i])]

-----------------------------------------------------------------------------
(* A tree is the function from uids to nodes, and the root has uid 0.         *)
Node(item) == [item |-> item, count |-> 1, counters |-> {}, last |-> FALSE, children |-> <<>>]

(* [tree, branch] after one item: a repetition of the current item only       *)
(* counts, an item that a child has goes to it.                              *)
add_child(state, item) ==
    LET tree == state.tree
        at   == state.branch
        uid  == Cardinality(DOMAIN tree)
        same == { c \in Range(tree[at].children) : tree[c].item = item }
    IN  CASE item = tree[at].item -> [state EXCEPT !.tree[at].count = @ + 1]
          [] item # tree[at].item /\ same # {} ->
                LET c == CHOOSE x \in same : TRUE
                IN  [tree |-> [tree EXCEPT ![c].count = 1], branch |-> c]
          [] OTHER ->
                [tree   |-> [tree EXCEPT ![at].children = Append(@, uid)] @@ (uid :> Node(item)),
                 branch |-> uid]

update_tree(tree, items) ==
    LET state == FoldLeft(add_child, [tree |-> tree, branch |-> 0], items)
    IN  [state.tree EXCEPT ![state.branch].last = TRUE]

update_counters(tree) ==
    [u \in DOMAIN tree |-> [tree[u] EXCEPT !.counters = @ \union {tree[u].count}, !.count = 0]]

create_tree_with_lsts(lists) ==
    FoldLeft(LAMBDA tree, items : update_counters(update_tree([tree EXCEPT ![0].count = 1], items)),
             0 :> Node(NoItem), lists)

-----------------------------------------------------------------------------
(* A chunk may be repeated when two lists have it a different number of       *)
(* times, a list that does not have it included.                             *)
get_star(node, key) ==
    IF Cardinality(node.counters) > 1
    THEN << node.item.symbols, Append(node.item.symbols, key) >>
    ELSE << node.item.symbols >>

(* The rules of a node: its item, then the key of its only child or of the    *)
(* choice among its children; and the item alone if a list ends here.         *)
RuleOf(tree, u, key) ==
    LET node == tree[u]
        next == CASE Len(node.children) = 0 -> <<>>
                  [] Len(node.children) = 1 -> << <<key, node.children[1], "k">> >>
                  [] OTHER -> << <<key, u, "c">> >>
    IN  (IF node.item.chunk THEN << <<key, u, "s">> >> ELSE node.item.symbols) \o next

Ending_Lost(tree, u, key) == <<>>  \* MUTANT: a list that is the beginning of another one is lost

Ending(tree, u, key) ==
    IF tree[u].last /\ tree[u].children # <<>> THEN << RuleOf([tree EXCEPT ![u].children = <<>>], u, key) >> ELSE <<>>

Alternatives(tree, u, key) == << RuleOf(tree, u, key) >> \o Ending(tree, u, key)

node_to_grammar(tree, key) ==
    LET branching == { u \in DOMAIN tree : Len(tree[u].children) > 1 }
        chunks    == { u \in DOMAIN tree : tree[u].item.chunk }
        keys == { <<key, u, "k">> : u \in DOMAIN tree }
                    \union { <<key, u, "c">> : u \in branching } \union { <<key, u, "s">> : u \in chunks }
    IN  [k \in keys |->
           CASE k[3] = "k" -> Alternatives(tree, k[2], key)
             [] k[3] = "c" -> [i \in DOMAIN tree[k[2]].children |-> << <<key, tree[k[2]].children[i], "k">> >>]
             [] k[3] = "s" -> get_star(tree[k[2]], k)]

generate_grammar(lists, key) == node_to_grammar(create_tree_with_lsts(identify_chunks(lists)), key)
================================================================================

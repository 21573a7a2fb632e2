------------------------------- MODULE MethodTree -------------------------------
(***************************************************************************)
(* From the owners of the indexes to a derivation tree:                     *)
(* attach_comparisons, to_tree and miner of Final.ipynb, on the traces and  *)
(* owners of LastComparisons.                                               *)
(* A node is [mid, kids, s, e]; mid is 0 for a piece of the input.          *)
(***************************************************************************)
EXTENDS LastComparisons

ASSUME MethodsAssumption == MaxMethods \in Nat \ {0}

VARIABLES
    tree,        \* the derivation tree
    my_trees     \* what miner has made of the traces

vars == <<stack, method_map, comparisons, done, last_cmp_only, order, LAST_COMPARISON_HEURISTIC, pc,
          tree, my_trees>>

\* The nodes of a depth; a tree is no deeper than there are methods.
NodesOver(S) == [mid : Nat, kids : Seq(S), s : Int, e : Int]
NodesOfDepth[d \in 0 .. MaxMethods] == NodesOver(IF d = 0 THEN {} ELSE NodesOfDepth[d - 1])
Nodes == NodesOfDepth[MaxMethods]

Node(m, kids) == [mid |-> m, kids |-> kids, s |-> kids[1].s, e |-> Last(kids).e]
Leaf(s, e)    == [mid |-> 0, kids |-> <<>>, s |-> s, e |-> e]
NoTree        == Leaf(0, 0)
AssertionFails == Leaf(0, -1)
NotMined      == Leaf(0, -2)

\* The i-th of a set of numbers, and a set of nodes in the order of their starts.
nth(K, i) == CHOOSE k \in K : Cardinality({x \in K : x <= k}) = i
Sorted(S) == LET starts == {x.s : x \in S}
             IN  [i \in 1 .. Cardinality(starts) |-> CHOOSE n \in S : n.s = nth(starts, i)]

------------------------------------------------------------------------------
(* to_tree *)

\* attach_comparisons: the indexes of a method, in the order of last_cmp_only.
indexes(m) == LET K == {k \in DOMAIN order : last_cmp_only[order[k]] = m}
              IN  [i \in 1 .. Cardinality(K) |-> order[nth(K, i)]]

\* Mutant: one leaf from the first index to the last.
indexes_to_children_One(idx) == IF idx = <<>> THEN <<>> ELSE <<Leaf(idx[1], Last(idx))>>

\* Maximal runs of neighbours become leaves.
indexes_to_children(idx) ==
    LET starts == {k \in DOMAIN idx : k = 1 \/ idx[k] # idx[k - 1] + 1}
        end(n) == IF n = Cardinality(starts) THEN Len(idx) ELSE nth(starts, n + 1) - 1
    IN  [n \in 1 .. Cardinality(starts) |-> Leaf(idx[nth(starts, n)], idx[end(n)])]

does_item_overlap(a, b)       == a.s <= b.e /\ b.s <= a.e
is_second_item_included(a, b) == b.s >= a.s /\ b.e <= a.e

\* What is left of node n when the range of node r is taken from it: the
\* children that remain keep their order, which is that of their starts.
remove_overlap_from(n, r) ==
    LET rem[x \in Nodes] ==
            LET left == {IF does_item_overlap(c, r) THEN rem[c] ELSE c : c \in ToSet(x.kids)} \ {NoTree}
            IN  IF left = {} THEN NoTree ELSE Node(x.mid, Sorted(left))
    IN  rem[n]

\* Mutant: the former child goes as a whole.
add_child_Drop(ranges, a) ==
    IF a = NoTree \/ \E n \in ranges : is_second_item_included(n, a) THEN ranges
    ELSE {n \in ranges : ~does_item_overlap(n, a)} \cup {a}

\* Mutant: the former child is left as it is.
add_child_Keep(ranges, a) ==
    IF a = NoTree \/ \E n \in ranges : is_second_item_included(n, a) THEN ranges ELSE ranges \cup {a}

\* One child more in my_ranges: the later node keeps its range, the one former
\* node it overlaps is trimmed; a node within a former one goes.
add_child(ranges, a) ==
    LET overlaps == {n \in ranges : does_item_overlap(n, a)}
    IN  IF \/ a = NoTree \/ AssertionFails \in ranges
           \/ \E n \in ranges : is_second_item_included(n, a)
        THEN ranges
        ELSE IF \E n, o \in overlaps : n # o THEN {AssertionFails}
        ELSE ((ranges \ overlaps) \cup {remove_overlap_from(n, a) : n \in overlaps} \cup {a}) \ {NoTree}

no_overlap(arr) ==
    LET my_ranges[k \in 0 .. Len(arr)] == IF k = 0 THEN {} ELSE add_child(my_ranges[k - 1], arr[k])
    IN  Sorted(my_ranges[Len(arr)])

\* Mutant: nothing is filled in.
filled_None(kids) == kids

\* Fill in what was not compared between two children.
filled(kids) ==
    Sorted(ToSet(kids) \cup {Leaf(kids[k - 1].e + 1, kids[k].s - 1) :
                                 k \in {j \in 2 .. Len(kids) : kids[j].s # kids[j - 1].e + 1}})

tree_of(m, idx, node_children) ==
    LET children == no_overlap(node_children \o indexes_to_children(idx))
    IN  IF AssertionFails \in ToSet(node_children) \cup ToSet(children) THEN AssertionFails
        ELSE IF children = <<>> THEN NoTree
        ELSE Node(m, filled(children))

to_tree ==
    LET t[m \in DOMAIN method_map] ==
            tree_of(m, indexes(m), [k \in DOMAIN method_map[m] |-> t[method_map[m][k]]])
    IN  t[main]

\* tree_to_str, by position.
Yield(n) ==
    LET y[x \in Nodes] == IF x.kids = <<>> THEN [k \in 1 .. x.e - x.s + 1 |-> x.s + k - 1]
                          ELSE FlattenSeq([k \in DOMAIN x.kids |-> y[x.kids[k]]])
    IN  y[n]

\* "assert tree_to_str(tree) == my_str".
Accepted(t) == t \notin {NoTree, AssertionFails} /\ Yield(t) = [k \in Pos |-> k]

\* miner: the trace becomes a tree, unless one of the assertions fails.
Mine ==
    /\ pc = "last" /\ Left = {} /\ tree = NotMined
    /\ tree' = to_tree
    /\ my_trees' = IF Accepted(tree') THEN <<tree'>> ELSE <<>>
    /\ UNCHANGED lastVars

Init == LastInit /\ tree = NotMined /\ my_trees = <<>>

Next == (LastNext /\ UNCHANGED <<tree, my_trees>>) \/ Mine

Spec == Init /\ [][Next]_vars

------------------------------------------------------------------------------
(* Properties *)

Mined == tree \notin {NotMined, NoTree, AssertionFails}

\* A tree spells the part of the input it ranges over: whatever was trimmed,
\* no two nodes overlap, none is out of order, and nothing between is missing.
Spells == Mined => Yield(tree) = [k \in 1 .. tree.e - tree.s + 1 |-> tree.s + k - 1]

\* Trimming never loses an index at the edge: the tree ranges over everything
\* that was compared.
NothingComparedIsLost == Mined => ToSet(order) \subseteq tree.s .. tree.e

\* "FILL IN chars that we did not compare": it is done between two children and
\* not before the first or behind the last, so that miner's last assertion fails
\* exactly when the first or the last character was compared by nobody.
FailsAtTheEnds ==
    tree \notin {NotMined, AssertionFails} =>
        (my_trees = <<tree>> <=> {1, Size} \subseteq ToSet(order))

Subtrees(n) ==
    LET sub[x \in Nodes] == {x} \cup UNION {sub[c] : c \in ToSet(x.kids)}
    IN  sub[n]

\* "group contiguous letters in a node together, and call it a leaf node": two
\* neighbouring leaves of a method are not both its own comparisons, in
\* whatever order the program read them.
LeavesAreMaximal ==
    Mined => \A n \in Subtrees(tree) : \A k \in 1 .. Len(n.kids) - 1 :
        LET a == n.kids[k]
            b == n.kids[k + 1]
        IN  a.mid = 0 /\ b.mid = 0 => \E i \in a.s .. b.e : last_cmp_only[i] # n.mid

\* "overlaps can happen on multiple parts", says the comment above no_overlap's
\* assert len(overlaps) == 1, which a third child whose range reaches over two
\* former ones does fail.  It takes that third child: whatever two methods read
\* in between each other, and however their own callees were trimmed, neither the
\* second of them nor what the caller compared itself overlaps more than one.
OverlapsTakeThree == tree = AssertionFails => \E m \in DOMAIN method_map : Len(method_map[m]) > 2
================================================================================

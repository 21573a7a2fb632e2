----------------------------- MODULE MCGrammarMiner -----------------------------
(* GrammarMiner for programs with a main that calls itself through a group,     *)
(* and a helper that reads a digit.                                           *)
EXTENDS GrammarMiner

Leaf(name) == [symbol |-> Terminal(name), children |-> <<>>]
Method(name, children) == [symbol |-> Nonterminal(name), children |-> children]

One   == Method("digit", <<Leaf("1")>>)
Two   == Method("digit", <<Leaf("2")>>)
Plus  == Leaf("+")
Group(children) == Method("group", <<Leaf("("), Method("expr", children)>>)

Small == { Plus, One, Two, Group(<<One>>), Group(<<One, Group(<<Two>>)>>) }
Apart(list) == \A i \in 1 .. Len(list) - 1 : ~(list[i] = Plus /\ list[i + 1] = Plus)

Lists ==
    { list \in UNION { [1 .. n -> Small] : n \in 1 .. 2 } \union [1 .. 3 -> {Plus, One}] : Apart(list) }
    \union { <<One, Plus, One, Plus, Two>>, <<One, Plus, One, Plus, One>>,
             <<One, Two, One>>, <<Two, Two, Two, Plus>>, <<One, One, One, One>> }

Main(children) == Method("START", <<Method("expr", children)>>)

Pairs == { {Main(l), Main(m)} : l, m \in Lists }

(* A main that has a helper read the parenthesis that group reads itself.       *)
Sum == Method("expr", << Method("group", <<Leaf("("), Method("expr", <<One>>)>>), Plus,
                         Method("group", <<Leaf("("), Method("expr", <<One>>)>>) >>)
Helper == Method("START", << Method("main", << Method("open", <<Leaf("(")>>), Sum >>) >>)

AllForests == Pairs \union { {Helper} }

Sorted == << Terminal("("), Terminal("+"), Terminal("1"), Terminal("2"), Nonterminal("START"), Nonterminal("digit"),
             Nonterminal("expr"), Nonterminal("group"), Nonterminal("main"), Nonterminal("open") >>
================================================================================

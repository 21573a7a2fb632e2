------------------------------ MODULE GrammarMiner ------------------------------
(***************************************************************************)
(* From derivation trees to the grammar that is printed (convert_to_grammar,  *)
(* cleanup_grammar and compact_grammar of Final.ipynb).  One action is one    *)
(* pass of compact_grammar with the grammar_gc that follows it.               *)
(*                                                                         *)
(* A grammar is a function from keys to sequences of rules, and a tree is      *)
(* [symbol, children].  Left out: the order of the keys and of the rules      *)
(* after the first sorting, and what is done with names (spaces, colons).     *)
(***************************************************************************)
EXTENDS PrefixTree

CONSTANTS
    Forests,   \* the sets of derivation trees that are mined, one tree a seed
    Order,     \* the base symbols as Python sorts them
    MaxWord    \* bound: length of the words by which languages are compared

VARIABLES
    grammar,
    learned,   \* the grammar that compact_grammar was given
    pass,      \* what is to be done next
    size,      \* l, the length of the grammar before this round
    failed     \* an assertion has failed, or a loop without end been entered

vars == <<grammar, learned, pass, size, failed>>

Start == Nonterminal("START")
Ignores == {Start, Nonterminal("main")}  \* by remove_single_entry_chains

-----------------------------------------------------------------------------
(* Trees to rules.                                                           *)
RECURSIVE to_grammar(_)
to_grammar(tree) ==
    IF tree.children = <<>> THEN {}
    ELSE { <<tree.symbol, [i \in DOMAIN tree.children |-> tree.children[i].symbol]>> }
            \union UNION { to_grammar(tree.children[i]) : i \in DOMAIN tree.children }

RECURSIVE Before(_, _)
Before(r, s) ==
    LET at(x) == CHOOSE i \in DOMAIN Order : Order[i] = x
    IN  \/ r = <<>>
        \/ /\ r # <<>> /\ s # <<>>
           /\ \/ at(Head(r)) < at(Head(s))
              \/ Head(r) = Head(s) /\ Before(Tail(r), Tail(s))

(* The rules of a key are a set, sorted by the first grammar_gc.              *)
convert_to_grammar(forest) ==
    LET rules == UNION { to_grammar(tree) : tree \in forest }
    IN  [k \in { r[1] : r \in rules } |-> SetToSortSeq({ r[2] : r \in { x \in rules : x[1] = k } }, Before)]

collapse_rules(g) == FoldSet(LAMBDA k, r_grammar : generate_grammar(g[k], k[1]) @@ r_grammar, <<>>, DOMAIN g)

-----------------------------------------------------------------------------
(* What the passes are made of.                                              *)
Symbols(g, k) == UNION { Range(rule) : rule \in Range(g[k]) }

RECURSIVE Reached(_, _)
Reached(g, keys) ==
    LET more == keys \union { s \in UNION { Symbols(g, k) : k \in keys } : is_nt(s) }
    IN  IF more = keys THEN keys ELSE Reached(g, more)

(* The assertion of grammar_gc: it drops nothing.                            *)
AllReached(g) == Reached(g, {Start}) = DOMAIN g

len_grammar(g) ==
    MapThenSumSet(LAMBDA k : FoldLeft(LAMBDA sum, rule : sum + Len(rule), 0, g[k]), DOMAIN g)

(* How often s occurs, the length of get_parents_of_tokens(g)[s].             *)
Parents(g, s) ==
    MapThenSumSet(LAMBDA k : FoldLeft(LAMBDA sum, rule : sum + Cardinality({ i \in DOMAIN rule : rule[i] = s }), 0, g[k]),
                  DOMAIN g)

Single(g) == { k \in DOMAIN g : Len(g[k]) = 1 /\ k # Start }

(* Keys of a replacement that lead into a cycle.                             *)
RECURSIVE Settled(_, _)
Settled(rules, done) ==
    LET more == done \union { k \in DOMAIN rules : Range(rules[k]) \intersect DOMAIN rules \subseteq done }
    IN  IF more = done THEN done ELSE Settled(rules, more)

Endless(rules) == Settled(rules, {}) # DOMAIN rules

Substituted(g, into(_)) ==
    [k \in DOMAIN g |-> [i \in DOMAIN g[k] |-> FlattenSeq([j \in DOMAIN g[k][i] |-> into(g[k][i][j])])]]

Without(g, keys) == [k \in DOMAIN g \ keys |-> g[k]]

-----------------------------------------------------------------------------
(* The passes.                                                               *)
(* MUTANT: the first of several rules counts                                  *)
replacement_candidate_chains_Any(g) ==
    [k \in { x \in DOMAIN g \ Ignores : Len(g[x][1]) = 1 /\ is_nt(g[x][1][1]) } |-> g[k][1]]

replacement_candidate_chains(g) ==
    [k \in { x \in Single(g) \ Ignores : Len(g[x][1]) = 1 /\ is_nt(g[x][1][1]) } |-> g[k][1]]

RECURSIVE first_in_chain(_, _)
first_in_chain(s, chain) ==
    IF s \in DOMAIN chain THEN first_in_chain(Head(chain[s]), chain) ELSE s

replace_key_by_key(g, chain) ==
    Substituted(Without(g, DOMAIN chain), LAMBDA s : <<first_in_chain(s, chain)>>)

(* Keys with the same rules; the start symbol is always the first in order.    *)
Bagged(rules) == [r \in Range(rules) |-> Cardinality({ i \in DOMAIN rules : rules[i] = r })]

collect_duplicate_rule_keys_First(g) ==  \* MUTANT: compares the first rules only
    LET alike(k) == { x \in DOMAIN g : g[x][1] = g[k][1] }
        first(K) == IF Start \in K THEN Start ELSE CHOOSE k \in K : TRUE
    IN  [k \in { x \in DOMAIN g : first(alike(x)) # x } |-> <<first(alike(k))>>]

collect_duplicate_rule_keys(g) ==
    LET alike(k) == { x \in DOMAIN g : Bagged(g[x]) = Bagged(g[k]) }
        first(K) == IF Start \in K THEN Start ELSE CHOOSE k \in K : TRUE
    IN  [k \in { x \in DOMAIN g : first(alike(x)) # x } |-> <<first(alike(k))>>]

RECURSIVE remove_duplicate_rule_keys(_)
remove_duplicate_rule_keys(g) ==
    LET duplicates == collect_duplicate_rule_keys(g)
    IN  IF duplicates = <<>> THEN g
        ELSE remove_duplicate_rule_keys(replace_key_by_key(g, duplicates))

(* Keys that have one rule and one use.                                      *)
single_refs(g) == [k \in { x \in Single(g) : Parents(g, x) <= 1 } |-> g[k][1]]

RECURSIVE remove_references(_, _)
remove_references(s, rules) ==
    IF s \in DOMAIN rules
    THEN FlattenSeq([i \in DOMAIN rules[s] |-> remove_references(rules[s][i], rules)])
    ELSE <<s>>

replace_keys_by_rule(g, rules) ==
    Substituted(Without(g, DOMAIN rules), LAMBDA s : remove_references(s, rules))

(* child_parent_map has a key less than the grammar: the start symbol is in    *)
(* no rule.                                                                  *)
StartUnused(g) == Cardinality({ k \in DOMAIN g : Parents(g, k) > 0 }) < Cardinality(DOMAIN g)

remove_duplicate_rules_in_a_key(g) == [k \in DOMAIN g |-> SetToSeq(Range(g[k]))]

remove_self_definitions(g) == [k \in DOMAIN g |-> SelectSeq(g[k], LAMBDA rule : rule # <<k>>)]

-----------------------------------------------------------------------------
Init ==
    /\ \E forest \in Forests : grammar = convert_to_grammar(forest)
    /\ pass = "cleanup"
    /\ learned = <<>>
    /\ size = 0
    /\ failed = "no"

(* A pass that comes to an end turns the grammar into g, and grammar_gc looks  *)
(* at it.                                                                    *)
Pass(here, there, endless, g) ==
    /\ pass = here /\ failed = "no"
    /\ failed' = IF endless THEN "endless" ELSE IF AllReached(g) THEN "no" ELSE "unreached"
    /\ grammar' = IF endless THEN grammar ELSE g
    /\ pass' = IF failed' = "no" THEN there ELSE here

cleanup_grammar ==
    /\ Pass("cleanup", "chains", FALSE, collapse_rules(grammar))
    /\ learned' = grammar'
    /\ size' = len_grammar(grammar')

remove_single_entry_chains ==
    LET chain == replacement_candidate_chains(grammar)
    IN  /\ Pass("chains", "duplicates", Endless(chain), replace_key_by_key(grammar, chain))
        /\ UNCHANGED <<learned, size>>

RemoveDuplicateKeys ==
    /\ Pass("duplicates", "alts", FALSE, remove_duplicate_rule_keys(grammar))
    /\ UNCHANGED <<learned, size>>

remove_single_alts ==
    LET rules == single_refs(grammar)
    IN  /\ StartUnused(grammar)
        /\ Pass("alts", "rules", Endless(rules), replace_keys_by_rule(grammar, rules))
        /\ UNCHANGED <<learned, size>>

AssertionFails ==
    /\ pass = "alts" /\ failed = "no" /\ ~StartUnused(grammar)
    /\ failed' = "assertion"
    /\ UNCHANGED <<grammar, learned, pass, size>>

RemoveDuplicateRules ==
    Pass("rules", "self", FALSE, remove_duplicate_rules_in_a_key(grammar)) /\ UNCHANGED <<learned, size>>

RemoveSelfDefinitions ==
    Pass("self", "measure", FALSE, remove_self_definitions(grammar)) /\ UNCHANGED <<learned, size>>

(* diff = l - l_, l = l_                                                     *)
Again(l, l_) == l - l_ > 0

Measure ==
    /\ pass = "measure" /\ failed = "no"
    /\ pass' = IF Again(size, len_grammar(grammar)) THEN "chains" ELSE "done"
    /\ size' = len_grammar(grammar)
    /\ UNCHANGED <<grammar, learned, failed>>

Next ==
    \/ cleanup_grammar \/ remove_single_entry_chains \/ RemoveDuplicateKeys \/ remove_single_alts
    \/ AssertionFails \/ RemoveDuplicateRules \/ RemoveSelfDefinitions \/ Measure

Spec == Init /\ [][Next]_vars

-----------------------------------------------------------------------------
(* The language of a grammar, cut at n symbols, by rounds from the empty one: *)
(* the reference.  A symbol that is no key of g stands for itself.            *)
Short(n, words) == { w \in words : Len(w) <= n }
Joined(n, W, V) == UNION { { w \o v : v \in Short(n - Len(w), V) } : w \in W }

RECURSIVE Rounds(_, _, _)
Rounds(g, n, words) ==
    LET of(s)   == IF s \in DOMAIN g THEN words[s] ELSE {<<s>>}
        by(rule) == FoldLeft(LAMBDA W, s : Joined(n, W, of(s)), {<<>>}, rule)
        more     == FoldSet(LAMBDA k, found : (k :> UNION { by(rule) : rule \in Range(g[k]) }) @@ found,
                            <<>>, DOMAIN g)
    IN  IF more = words THEN words ELSE Rounds(g, n, more)

Words(g, n) == Rounds(g, n, [k \in DOMAIN g |-> {}])

(* A list of items with what comes several times in a row taken once.         *)
Squeezed(items) ==
    FlattenSeq([i \in DOMAIN items |-> IF i > 1 /\ items[i] = items[i - 1] THEN <<>> ELSE items[i].symbols])

(* g with each chunk taken once.                                             *)
Once(g) == [k \in DOMAIN g |-> SelectSeq(g[k], LAMBDA rule : k \notin Range(rule))]

(* generate_grammar: up to repetition, the rules learned from the            *)
(* alternatives of a key derive those alternatives, all of them, and nothing  *)
(* else: no list is lost because it is the beginning of another one, and no    *)
(* two lists are mixed after they have shared a prefix.                       *)
LearnsTheLists ==
    pass = "cleanup" =>
        \A k \in DOMAIN grammar :
            LET lists == grammar[k]
                longest == Max({ Len(lists[i]) : i \in DOMAIN lists })
            IN  Words(Once(generate_grammar(lists, k[1])), longest)[k]
                    = { Squeezed(identify_chunks(lists)[i]) : i \in DOMAIN lists }

(* compact_grammar: no pass changes what the grammar derives.  Merging keys    *)
(* with equal rules, splicing rules into their only use and following chains   *)
(* of keys in rules that refer to one another must neither lose a word nor      *)
(* add one.                                                                  *)
KeepsLanguage ==
    pass # "cleanup" => Words(grammar, MaxWord)[Start] = Words(learned, MaxWord)[Start]

(* "TODO: check for cycles" of remove_references, and first_in_chain, which    *)
(* follows replacements until there is none: no replacement leads back to      *)
(* itself, since every key derives a word; and grammar_gc never finds a key     *)
(* that a pass has left behind, as its assertion says.                        *)
NoCycleNothingLeft == failed \notin {"endless", "unreached"}

(* remove_single_alts: "assert len(child_parent_map) < len(grammar)".          *)
StartIsUnused == failed # "assertion"
================================================================================

-------------------------------- MODULE MCTinyC --------------------------------
(* TinyCMeaning on every text of up to 4 tokens (6, of expressions), on        *)
(* programs built from a few statements, and on those programs with a token    *)
(* removed or two swapped; and on programs whose jumps are as long as a char    *)
(* can hold, and longer.                                                       *)
EXTENDS TinyCMeaning

Vars    == {"a", "b", "c"}
Numbers == {"1", "2", "127", "130"}
ValueOf(w) == CASE w = "1" -> 1 [] w = "2" -> 2 [] w = "127" -> 127 [] w = "130" -> 130
Tokens  == {"a", "b"} \cup {"1", "=", ";", "(", ")", "{", "}", "if", "else", "while", "do", "-", "<"}

Short == UNION {[1 .. n -> Tokens] : n \in 0 .. 4}
         \cup UNION {[1 .. n -> {"a", "=", ";", "(", ")", "-"}] : n \in 5 .. 6}

Exprs == {<<"a">>, <<"1", "-", "a">>, <<"b", "-", "1", "+", "2">>, <<"a", "<", "2">>, <<"b", "=", "a", "-", "(", "a", "=", "1", ")">>,
          <<"a", "<", "(", "b", "=", "b", "+", "1", ")">>}
Base  == {<<";">>, <<"{", "}">>, <<"a", "=", "a", "+", "1", ";">>, <<"b", "=", "2", "-", "b", ";">>, <<"a", "=", "b", "-", "1", "-", "a", ";">>,
          <<"a", "=", "127", ";">>, <<"b", "=", "130", ";">>}

Cond(e) == <<"(">> \o e \o <<")">>
Over1(S) ==
    {<<"if">> \o Cond(e) \o s : e \in Exprs, s \in S}
    \cup {<<"if">> \o Cond(e) \o s \o <<"else">> \o q : e \in Exprs, s \in S, q \in S}
    \cup {<<"while">> \o Cond(e) \o s : e \in Exprs, s \in S}
    \cup {<<"do">> \o s \o <<"while">> \o Cond(e) \o <<";">> : e \in Exprs, s \in S}
    \cup {<<"{">> \o s \o q \o <<"}">> : s \in S, q \in S}

Nested == {<<"if">> \o Cond(e) \o s : e \in {<<"a">>, <<"a", "<", "2">>}, s \in Over1(Base)}
          \cup {<<"{", "b", "=", "1", ";">> \o s \o <<"a", "=", "b", ";", "}">> : s \in Over1(Base)}
Programs == Base \cup Over1(Base) \cup Nested

Without(t, i) == SubSeq(t, 1, i - 1) \o SubSeq(t, i + 1, Len(t))
Swapped(t, i) == [t EXCEPT ![i] = t[i + 1], ![i + 1] = t[i]]
Damaged == UNION {{Without(t, i) : i \in DOMAIN t} \cup {Swapped(t, i) : i \in 1 .. Len(t) - 1} : t \in Over1(Base)}

\* A statement with n bytes of code: a = a = ... = a, after an a if n is even.
Chain(k) == [i \in 1 .. 2 * k + 2 |-> IF i = 2 * k + 2 THEN ";" ELSE IF i % 2 = 1 THEN "a" ELSE "="]
Body(n)  == IF n % 2 = 1 THEN Chain((n - 3) \div 2) ELSE <<"{", "a", ";">> \o Chain((n - 6) \div 2) \o <<"}">>

\* It is jumped over, so that runs are short; the loops run once more.
Skip(n)  == <<"if", "(", "c", ")">> \o Body(n)
Twice    == <<"(", "(", "b", "=", "b", "+", "1", ")", "<", "2", ")">>
Long     == UNION {{Skip(n), Skip(n) \o <<"else", "a", "=", "1", ";">>, <<"while">> \o Twice \o Skip(n),
                    <<"do">> \o Skip(n) \o <<"while">> \o Twice \o <<";">>} : n \in 108 .. 130}
LongPrograms == {<<"{">> \o s \o <<"a", "=", "a", "+", "b", "-", "2", ";", "}">> : s \in Long}

AllTexts == Short \cup Programs \cup Damaged \cup LongPrograms
================================================================================

--------------------------------- MODULE MCCsv ---------------------------------
(* CsvSession on short files; some of the buffers are edited.                  *)
EXTENDS CsvSession

Strings(S, n) == UNION {[1 .. k -> S] : k \in 0 .. n}

Chars      == {"a", ",", ";", "\"", "n"}
Quotes     == {"\"", ";"}
EmptyText  == <<>>
AllText    == Seq(Chars)
SetTexts   == {<<>>, <<"a", ",", "\"">>}
AllFiles   == Strings({"a", ",", "\"", "n"}, 4)
EditFiles  == {<<"a", ",", ",", "a">>}
================================================================================

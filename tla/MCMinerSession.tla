----------------------------- MODULE MCMinerSession -----------------------------
(* Sessions with three seeds, whose swaps make one of two new texts or a seed.   *)
EXTENDS MinerSession

S == <<"s1", "s2", "s3">>
AllTexts == {"s1", "s2", "s3", "t", "u"}

Made == [text : {"t", "s1"}, shape : {"l", "r"}]
Fixed == [text |-> "u", shape |-> "l"]

(* How the swaps of the first node with the second and the third come out.       *)
AllSwaps == Made \X Made \X Made
SwapOf(w, x, y) ==
    CASE <<x, y>> = <<"s2", "s1">> -> w[1]
      [] <<x, y>> = <<"s1", "s2">> -> w[2]
      [] <<x, y>> = <<"s3", "s1">> -> w[3]
      [] OTHER -> Fixed

(* The shape e is that of an input the program rejects.                          *)
AllParses == {"l", "e"}
ParseOf(p, x) == IF x = "u" THEN p ELSE "l"
================================================================================

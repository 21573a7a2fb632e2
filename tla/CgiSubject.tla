------------------------------- MODULE CgiSubject -------------------------------
(***************************************************************************)
(* subject/ini/cgi_decode.c, a traced program that walks a pointer: its     *)
(* register shows the rest of the input as a string before it shows the     *)
(* character.  strip_input looks at the last character first, and the two   *)
(* digits of an escape are read before either is tested.  A value is        *)
(* [from, to, mid, at]; at counts one instruction per value or test.        *)
(***************************************************************************)
EXTENDS Integers, Sequences

\* hex_values[c] >= 0, over the characters the instances use.
HexDigits == {"1", "2", "3", "a", "b"}

\* main is method 1, init_hex_values 2, strip_input 3 and cgi_decode 4.
StripInput == 3
CgiDecode  == 4

Value(p, q, m, n) == [from |-> p, to |-> q, mid |-> m, at |-> n]

\* *s: the pointer, then the character behind it.
Deref(s, p, n) ==
    IF p <= Len(s) THEN <<Value(p, Len(s), CgiDecode, n), Value(p, p, CgiDecode, n + 1)>> ELSE <<>>

RECURSIVE cgi_decode(_, _, _)
cgi_decode(s, p, n) ==
    IF p > Len(s) THEN <<>>
    ELSE IF s[p] = "+" THEN Deref(s, p, n) \o cgi_decode(s, p + 1, n + 3)
    ELSE IF s[p] = "%" THEN
        Deref(s, p, n) \o Deref(s, p + 1, n + 2) \o Deref(s, p + 2, n + 4) \o
            IF p + 2 <= Len(s) /\ s[p + 1] \in HexDigits /\ s[p + 2] \in HexDigits
            THEN cgi_decode(s, p + 3, n + 7) ELSE <<>>
    ELSE Deref(s, p, n) \o cgi_decode(s, p + 1, n + 4)

CgiShown(s) == <<Value(Len(s), Len(s), StripInput, 1)>> \o cgi_decode(s, 1, 2)
================================================================================

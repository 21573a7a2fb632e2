---------------------------- MODULE CsvBuffer_proofs ----------------------------
(***************************************************************************)
(* The buffer of csv.c implements the sheet that csv.h speaks of, for every *)
(* set of texts, files and delimiters and every size.  First what each      *)
(* operation on a row and on the buffer does to what is shown, then what    *)
(* each call is in the sheet.                                               *)
(***************************************************************************)
EXTENDS CsvBuffer, SequenceTheorems, TLAPS

RowsOfText == {q \in Seq(Text) : q # <<>>}

\* What a row shows at a column, and a buffer at a cell.
Shown(q, k)   == IF k <= Len(q) THEN q[k] ELSE Empty
Cell(b, i, k) == IF i <= Len(b) THEN Shown(b[i], k) ELSE Empty

Tight(b) == Len(b) <= MaxRows /\ \A r \in 1 .. Len(b) : Len(b[r]) <= MaxWidth

BufferInv == TypeOK /\ Tight(rows)

(* A function on 1 .. n is a sequence.                                      *)
LEMMA FunctionIsSeq ==
    ASSUME NEW S, NEW n \in Nat, NEW f \in [1 .. n -> S]
    PROVE  f \in Seq(S) /\ Len(f) = n /\ DOMAIN f = 1 .. n
OBVIOUS

(* And a sequence is one.                                                   *)
LEMMA SeqIsFunction ==
    ASSUME NEW S, NEW s \in Seq(S)
    PROVE  /\ Len(s) \in Nat /\ DOMAIN s = 1 .. Len(s) /\ s \in [1 .. Len(s) -> S]
           /\ \A i \in 1 .. Len(s) : s[i] \in S
           /\ s # <<>> <=> Len(s) >= 1
OBVIOUS

(* What is left of a sequence without its last element.                     *)
LEMMA Beginning ==
    ASSUME NEW S, NEW s \in Seq(S), Len(s) - 1 \in Nat
    PROVE  /\ SubSeq(s, 1, Len(s) - 1) \in Seq(S)
           /\ Len(SubSeq(s, 1, Len(s) - 1)) = Len(s) - 1
           /\ \A k \in 1 .. Len(s) - 1 : SubSeq(s, 1, Len(s) - 1)[k] = s[k]
<1> DEFINE m == Len(s) - 1
           p == SubSeq(s, 1, m)
<1>1. m \in Nat /\ \A k \in 1 .. m : s[k] \in S
  BY SeqIsFunction
<1> HIDE DEF m
<1>2. p \in Seq(S) /\ Len(p) = (IF 1 <= m THEN m - 1 + 1 ELSE 0) /\ \A k \in 1 .. m - 1 + 1 : p[k] = s[1 + k - 1]
  BY <1>1, SubSeqProperties
<1> HIDE DEF p
<1>3. p \in Seq(S) /\ Len(p) = m /\ \A k \in 1 .. m : p[k] = s[k]
  BY <1>1, <1>2, SeqIsFunction
<1> QED
  BY <1>3 DEF p, m

(* What a row shows is text, at every column.                               *)
LEMMA RowFacts ==
    ASSUME NEW q \in RowsOfText
    PROVE  /\ q \in Seq(Text) /\ Len(q) \in Nat /\ Len(q) >= 1
           /\ \A k \in 1 .. Len(q) : q[k] \in Text
           /\ \A k \in Nat \ {0} : Shown(q, k) \in Text
<1>1. q \in Seq(Text) /\ q # <<>>
  BY DEF RowsOfText
<1>2. Len(q) \in Nat /\ Len(q) >= 1 /\ \A k \in 1 .. Len(q) : q[k] \in Text
  BY <1>1, SeqIsFunction
<1>3. \A k \in Nat \ {0} : Shown(q, k) \in Text
  BY <1>2, TextAssumption DEF Shown
<1> QED
  BY <1>1, <1>2, <1>3

(* A row made from 1 .. n.                                                  *)
LEMMA RowMade ==
    ASSUME NEW n \in Nat \ {0}, NEW f \in [1 .. n -> Text]
    PROVE  f \in RowsOfText /\ Len(f) = n
<1>1. f \in Seq(Text) /\ Len(f) = n
  BY FunctionIsSeq
<1>2. f # <<>>
  BY <1>1
<1> QED
  BY <1>1, <1>2 DEF RowsOfText

(* A blank row shows nothing.                                               *)
LEMMA BlankRow == Blank \in RowsOfText /\ Len(Blank) = 1 /\ \A k \in Nat \ {0} : Shown(Blank, k) = Empty
BY TextAssumption DEF Blank, RowsOfText, Shown

(* Padding a row changes nothing that is shown.                             *)
LEMMA PaddedRow ==
    ASSUME NEW q \in RowsOfText, NEW n \in Nat
    PROVE  /\ Extended(q, n, Empty) \in RowsOfText
           /\ Len(Extended(q, n, Empty)) >= n
           /\ \A k \in Nat \ {0} : Shown(Extended(q, n, Empty), k) = Shown(q, k)
<1> DEFINE m == IF n > Len(q) THEN n ELSE Len(q)
           f == [i \in 1 .. m |-> IF i <= Len(q) THEN q[i] ELSE Empty]
<1>1. m \in Nat \ {0} /\ m >= n /\ m >= Len(q)
  BY RowFacts
<1>2. f \in [1 .. m -> Text]
  BY RowFacts, TextAssumption
<1>3. Extended(q, n, Empty) = f
  BY DEF Extended
<1> HIDE DEF m
<1>4. f \in RowsOfText /\ Len(f) = m
  BY <1>1, <1>2, RowMade
<1>5. \A k \in Nat \ {0} : Shown(f, k) = Shown(q, k)
  BY <1>1, <1>4, RowFacts DEF Shown
<1> QED
  BY <1>1, <1>3, <1>4, <1>5

(* A field in place of another.                                             *)
LEMMA RowChanged ==
    ASSUME NEW q \in RowsOfText, NEW c \in 1 .. Len(q), NEW t \in Text
    PROVE  /\ [q EXCEPT ![c] = t] \in RowsOfText
           /\ \A k \in Nat \ {0} : Shown([q EXCEPT ![c] = t], k) = IF k = c THEN t ELSE Shown(q, k)
<1> DEFINE f == [q EXCEPT ![c] = t]
<1>1. q \in [1 .. Len(q) -> Text] /\ Len(q) \in Nat \ {0}
  BY RowFacts, SeqIsFunction
<1>2. f \in [1 .. Len(q) -> Text]
  BY <1>1
<1>3. f \in RowsOfText /\ Len(f) = Len(q)
  BY <1>1, <1>2, RowMade
<1>4. \A k \in Nat \ {0} : Shown(f, k) = IF k = c THEN t ELSE Shown(q, k)
  BY <1>1, <1>3 DEF Shown
<1> QED
  BY <1>3, <1>4

(* remove_last_field hides the last field, though it keeps the only one.    *)
LEMMA LastFieldRemoved ==
    ASSUME NEW q \in RowsOfText
    PROVE  /\ remove_last_field(q) \in RowsOfText
           /\ \A k \in Nat \ {0} : Shown(remove_last_field(q), k) = IF k = Len(q) THEN Empty ELSE Shown(q, k)
<1>1. CASE Len(q) = 1
  <2>1. remove_last_field(q) = Blank
    BY <1>1 DEF remove_last_field
  <2>2. \A k \in Nat \ {0} : Empty = IF k = Len(q) THEN Empty ELSE Shown(q, k)
    BY <1>1 DEF Shown
  <2> QED
    BY <2>1, <2>2, BlankRow
<1>2. CASE Len(q) # 1
  <2> DEFINE s == SubSeq(q, 1, Len(q) - 1)
  <2>1. Len(q) - 1 \in Nat \ {0} /\ q \in Seq(Text)
    BY <1>2, RowFacts
  <2>2. s \in Seq(Text) /\ Len(s) = Len(q) - 1 /\ \A k \in 1 .. Len(q) - 1 : s[k] = q[k]
    BY <2>1, Beginning
  <2>3. s \in RowsOfText
    BY <2>1, <2>2, SeqIsFunction DEF RowsOfText
  <2>4. remove_last_field(q) = s
    BY <1>2 DEF remove_last_field
  <2> HIDE DEF s
  <2>5. \A k \in Nat \ {0} : Shown(s, k) = IF k = Len(q) THEN Empty ELSE Shown(q, k)
    BY <2>1, <2>2, <2>3, RowFacts DEF Shown
  <2> QED
    BY <2>3, <2>4, <2>5
<1> QED
  BY <1>1, <1>2

(* csv_insert_field moves what is at c and to its right by one.             *)
LEMMA FieldInserted ==
    ASSUME NEW q \in RowsOfText, NEW c \in 1 .. Len(q), NEW t \in Text
    PROVE  /\ Inserted(q, c, t) \in RowsOfText
           /\ \A k \in Nat \ {0} : Shown(Inserted(q, c, t), k) =
                  IF k < c THEN Shown(q, k) ELSE IF k = c THEN t ELSE Shown(q, k - 1)
<1> DEFINE f == [k \in 1 .. Len(q) + 1 |-> IF k < c THEN q[k] ELSE IF k = c THEN t ELSE q[k - 1]]
<1>1. Len(q) + 1 \in Nat \ {0} /\ Len(q) \in Nat /\ c \in Nat /\ \A k \in 1 .. Len(q) : q[k] \in Text
  BY RowFacts
<1>2. f \in [1 .. Len(q) + 1 -> Text]
  <2>1. ASSUME NEW k \in 1 .. Len(q) + 1 PROVE (IF k < c THEN q[k] ELSE IF k = c THEN t ELSE q[k - 1]) \in Text
    <3>1. CASE k < c
      BY <1>1, <3>1
    <3>2. CASE k = c
      BY <3>2, <1>1
    <3>3. CASE k > c
      <4>1. k - 1 \in 1 .. Len(q)
        BY <1>1, <3>3
      <4> QED
        BY <1>1, <3>3, <4>1
    <3> QED
      BY <1>1, <3>1, <3>2, <3>3
  <2> QED
    BY <2>1
<1>3. Inserted(q, c, t) = f
  <2>1. \A k \in 1 .. Len(q) + 1 : (CASE k < c -> q[k] [] k = c -> t [] k > c -> q[k - 1])
                                   = (IF k < c THEN q[k] ELSE IF k = c THEN t ELSE q[k - 1])
    BY <1>1
  <2> QED
    BY <2>1 DEF Inserted
<1>4. f \in RowsOfText /\ Len(f) = Len(q) + 1
  BY <1>1, <1>2, RowMade
<1>5. \A k \in Nat \ {0} : Shown(f, k) = IF k < c THEN Shown(q, k) ELSE IF k = c THEN t ELSE Shown(q, k - 1)
  <2> TAKE k \in Nat \ {0}
  <2>1. k <= Len(f) <=> k \in 1 .. Len(q) + 1
    BY <1>1, <1>4
  <2> QED
    BY <1>1, <2>1 DEF Shown
<1> QED
  BY <1>3, <1>4, <1>5

(* csv_remove_field moves what is to the right of c back by one.            *)
LEMMA FieldRemoved ==
    ASSUME NEW q \in RowsOfText, NEW c \in 1 .. Len(q)
    PROVE  /\ remove_last_field(Removed(q, c)) \in RowsOfText
           /\ \A k \in Nat \ {0} : Shown(remove_last_field(Removed(q, c)), k) =
                  IF k < c THEN Shown(q, k) ELSE Shown(q, k + 1)
<1> DEFINE f == [k \in 1 .. Len(q) |-> IF k >= c /\ k < Len(q) THEN q[k + 1] ELSE q[k]]
<1>1. Len(q) \in Nat \ {0} /\ c \in Nat \ {0} /\ c <= Len(q) /\ \A k \in 1 .. Len(q) : q[k] \in Text
  BY RowFacts
<1>2. f \in [1 .. Len(q) -> Text]
  BY <1>1
<1>3. f \in RowsOfText /\ Len(f) = Len(q)
  BY <1>1, <1>2, RowMade
<1>4. Removed(q, c) = f
  BY DEF Removed
<1>5. \A k \in Nat \ {0} : k # Len(q) => Shown(f, k) = IF k < c THEN Shown(q, k) ELSE Shown(q, k + 1)
  BY <1>1, <1>3 DEF Shown
<1>6. Shown(q, Len(q) + 1) = Empty
  BY <1>1 DEF Shown
<1> HIDE DEF f
<1>7. /\ remove_last_field(f) \in RowsOfText
      /\ \A k \in Nat \ {0} : Shown(remove_last_field(f), k) = IF k = Len(q) THEN Empty ELSE Shown(f, k)
  BY <1>3, LastFieldRemoved
<1>8. ASSUME NEW k \in Nat \ {0}
      PROVE  (IF k = Len(q) THEN Empty ELSE Shown(f, k)) = IF k < c THEN Shown(q, k) ELSE Shown(q, k + 1)
  <2>1. CASE k = Len(q)
    BY <1>1, <1>6, <2>1
  <2>2. CASE k # Len(q)
    BY <1>5, <2>2
  <2> QED
    BY <2>1, <2>2
<1> QED
  BY <1>4, <1>7, <1>8

------------------------------------------------------------------------------
Grids == Seq(RowsOfText)

(* What a sequence of rows shows is text, at every cell.                    *)
LEMMA GridFacts ==
    ASSUME NEW b \in Grids
    PROVE  /\ b \in Seq(RowsOfText) /\ Len(b) \in Nat /\ (b # <<>> <=> Len(b) >= 1)
           /\ DOMAIN b = 1 .. Len(b)
           /\ \A i \in 1 .. Len(b) : b[i] \in RowsOfText
           /\ \A i, k \in Nat \ {0} : Cell(b, i, k) \in Text
<1>1. /\ b \in Seq(RowsOfText) /\ Len(b) \in Nat /\ (b # <<>> <=> Len(b) >= 1)
      /\ DOMAIN b = 1 .. Len(b)
      /\ \A i \in 1 .. Len(b) : b[i] \in RowsOfText
  BY SeqIsFunction DEF Grids
<1>2. ASSUME NEW i \in Nat \ {0}, NEW k \in Nat \ {0} PROVE Cell(b, i, k) \in Text
  <2>1. CASE i <= Len(b)
    <3>1. b[i] \in RowsOfText
      BY <1>1, <2>1
    <3> QED
      BY <2>1, <3>1, RowFacts DEF Cell
  <2>2. CASE ~(i <= Len(b))
    BY <2>2, TextAssumption DEF Cell
  <2> QED
    BY <2>1, <2>2
<1> QED
  BY <1>1, <1>2

(* A sequence of rows made from 1 .. n.                                     *)
LEMMA GridMade ==
    ASSUME NEW n \in Nat, NEW g \in [1 .. n -> RowsOfText]
    PROVE  g \in Grids /\ Len(g) = n
BY FunctionIsSeq DEF Grids

(* Appending rows changes nothing that is shown.                            *)
LEMMA PaddedGrid ==
    ASSUME NEW b \in Grids, NEW n \in Nat
    PROVE  /\ Extended(b, n, Blank) \in Grids
           /\ Len(Extended(b, n, Blank)) >= n
           /\ Len(Extended(b, n, Blank)) >= Len(b)
           /\ \A i, k \in Nat \ {0} : Cell(Extended(b, n, Blank), i, k) = Cell(b, i, k)
<1> DEFINE m == IF n > Len(b) THEN n ELSE Len(b)
           g == [i \in 1 .. m |-> IF i <= Len(b) THEN b[i] ELSE Blank]
<1>1. m \in Nat /\ m >= n /\ m >= Len(b) /\ Len(b) \in Nat
  BY GridFacts
<1>2. g \in [1 .. m -> RowsOfText]
  BY GridFacts, BlankRow
<1>3. Extended(b, n, Blank) = g
  BY DEF Extended
<1> HIDE DEF m
<1>4. g \in Grids /\ Len(g) = m
  BY <1>1, <1>2, GridMade
<1>5. ASSUME NEW i \in Nat \ {0}, NEW k \in Nat \ {0} PROVE Cell(g, i, k) = Cell(b, i, k)
  <2>1. CASE i <= Len(b)
    BY <1>1, <1>4, <2>1 DEF Cell
  <2>2. CASE ~(i <= Len(b)) /\ i <= m
    <3>1. g[i] = Blank
      BY <1>1, <2>2
    <3> QED
      BY <1>4, <2>2, <3>1, BlankRow DEF Cell
  <2>3. CASE ~(i <= m)
    BY <1>1, <1>4, <2>3 DEF Cell
  <2> QED
    BY <2>1, <2>2, <2>3
<1> QED
  BY <1>1, <1>3, <1>4, <1>5

(* A row in place of another.                                               *)
LEMMA RowReplaced ==
    ASSUME NEW b \in Grids, NEW r \in 1 .. Len(b), NEW q \in RowsOfText
    PROVE  /\ [b EXCEPT ![r] = q] \in Grids
           /\ \A i, k \in Nat \ {0} :
                 Cell([b EXCEPT ![r] = q], i, k) = IF i = r THEN Shown(q, k) ELSE Cell(b, i, k)
<1> DEFINE g == [b EXCEPT ![r] = q]
<1>1. b \in [1 .. Len(b) -> RowsOfText] /\ Len(b) \in Nat
  BY SeqIsFunction DEF Grids
<1>2. g \in [1 .. Len(b) -> RowsOfText] /\ g[r] = q /\ \A i \in 1 .. Len(b) : i # r => g[i] = b[i]
  BY <1>1
<1> HIDE DEF g
<1>3. g \in Grids /\ Len(g) = Len(b)
  BY <1>1, <1>2, GridMade
<1>4. \A i, k \in Nat \ {0} : Cell(g, i, k) = IF i = r THEN Shown(q, k) ELSE Cell(b, i, k)
  BY <1>1, <1>2, <1>3 DEF Cell
<1> QED
  BY <1>3, <1>4 DEF g

(* Without the last row there is nothing to see in its place.               *)
LEMMA LastRowRemoved ==
    ASSUME NEW b \in Grids, Len(b) > 1
    PROVE  /\ SubSeq(b, 1, Len(b) - 1) \in Grids
           /\ \A i, k \in Nat \ {0} :
                 Cell(SubSeq(b, 1, Len(b) - 1), i, k) = IF i = Len(b) THEN Empty ELSE Cell(b, i, k)
<1> DEFINE g == SubSeq(b, 1, Len(b) - 1)
<1>1. Len(b) \in Nat /\ Len(b) - 1 \in Nat /\ b \in Seq(RowsOfText)
  BY GridFacts
<1>2. g \in Grids /\ Len(g) = Len(b) - 1 /\ \A i \in 1 .. Len(b) - 1 : g[i] = b[i]
  BY <1>1, Beginning DEF Grids
<1> HIDE DEF g
<1>3. \A i, k \in Nat \ {0} : Cell(g, i, k) = IF i = Len(b) THEN Empty ELSE Cell(b, i, k)
  BY <1>1, <1>2 DEF Cell
<1> QED
  BY <1>2, <1>3 DEF g

(* Without a row those below it are one row higher.                         *)
LEMMA RowLeftOut ==
    ASSUME NEW b \in Grids, Len(b) > 1, NEW r \in 1 .. Len(b),
           NEW g, g = [i \in 1 .. Len(b) - 1 |-> IF i < r THEN b[i] ELSE b[i + 1]]
    PROVE  /\ g \in Grids
           /\ \A i, k \in Nat \ {0} : Cell(g, i, k) = IF i < r THEN Cell(b, i, k) ELSE Cell(b, i + 1, k)
<1>1. Len(b) \in Nat /\ Len(b) - 1 \in Nat /\ r \in Nat /\ \A i \in 1 .. Len(b) : b[i] \in RowsOfText
  BY GridFacts
<1>2. g \in [1 .. Len(b) - 1 -> RowsOfText]
  BY <1>1
<1>3. g \in Grids /\ Len(g) = Len(b) - 1
  BY <1>1, <1>2, GridMade
<1>4. \A i \in 1 .. Len(b) - 1 : g[i] = IF i < r THEN b[i] ELSE b[i + 1]
  OBVIOUS
<1>5. ASSUME NEW i \in Nat \ {0}, NEW k \in Nat \ {0}
      PROVE  Cell(g, i, k) = IF i < r THEN Cell(b, i, k) ELSE Cell(b, i + 1, k)
  <2>1. CASE i <= Len(b) - 1
    BY <1>1, <1>3, <1>4, <2>1 DEF Cell
  <2>2. CASE ~(i <= Len(b) - 1)
    BY <1>1, <1>3, <2>2 DEF Cell
  <2> QED
    BY <2>1, <2>2
<1> QED
  BY <1>3, <1>5

(* csv_set_field changes one cell, and rows and fields appear for it.       *)
LEMMA StoredCell ==
    ASSUME NEW b \in Grids, NEW r \in Nat \ {0}, NEW c \in Nat \ {0}, NEW t \in Text
    PROVE  /\ Stored(b, r, c, t) \in Grids
           /\ \A i, k \in Nat \ {0} :
                 Cell(Stored(b, r, c, t), i, k) = IF i = r /\ k = c THEN t ELSE Cell(b, i, k)
<1> DEFINE p == Extended(b, r, Blank)
           q == Extended(p[r], c, Empty)
<1>1. Stored(b, r, c, t) = [p EXCEPT ![r] = [q EXCEPT ![c] = t]]
  BY DEF Stored
<1>2. p \in Grids /\ Len(p) >= r /\ \A i, k \in Nat \ {0} : Cell(p, i, k) = Cell(b, i, k)
  BY PaddedGrid
<1> HIDE DEF p
<1>3. r \in 1 .. Len(p) /\ p[r] \in RowsOfText
  BY <1>2, GridFacts
<1>4. q \in RowsOfText /\ Len(q) >= c /\ \A k \in Nat \ {0} : Shown(q, k) = Shown(p[r], k)
  BY <1>3, PaddedRow
<1> HIDE DEF q
<1>5. c \in 1 .. Len(q)
  BY <1>4, RowFacts
<1>6. /\ [q EXCEPT ![c] = t] \in RowsOfText
      /\ \A k \in Nat \ {0} : Shown([q EXCEPT ![c] = t], k) = IF k = c THEN t ELSE Shown(q, k)
  BY <1>4, <1>5, RowChanged, ZenonT(60)
<1> DEFINE u == [q EXCEPT ![c] = t]
<1>7. u \in RowsOfText /\ \A k \in Nat \ {0} : Shown(u, k) = IF k = c THEN t ELSE Shown(q, k)
  BY <1>6
<1> HIDE DEF u
<1>8. /\ [p EXCEPT ![r] = u] \in Grids
      /\ \A i, k \in Nat \ {0} : Cell([p EXCEPT ![r] = u], i, k) = IF i = r THEN Shown(u, k) ELSE Cell(p, i, k)
  BY <1>2, <1>3, <1>7, RowReplaced
<1>9. \A k \in Nat \ {0} : Cell(b, r, k) = Shown(q, k)
  <2> TAKE k \in Nat \ {0}
  <2>1. Cell(p, r, k) = Shown(p[r], k)
    BY <1>2 DEF Cell
  <2> QED
    BY <1>2, <1>4, <2>1
<1>10. ASSUME NEW i \in Nat \ {0}, NEW k \in Nat \ {0}
      PROVE  Cell([p EXCEPT ![r] = u], i, k) = IF i = r /\ k = c THEN t ELSE Cell(b, i, k)
  <2>1. Cell([p EXCEPT ![r] = u], i, k) = IF i = r THEN Shown(u, k) ELSE Cell(p, i, k)
    BY <1>8
  <2>2. Cell(p, i, k) = Cell(b, i, k) /\ Cell(b, r, k) = Shown(q, k)
    BY <1>2, <1>9
  <2>3. Shown(u, k) = IF k = c THEN t ELSE Shown(q, k)
    BY <1>7
  <2> QED
    BY <2>1, <2>2, <2>3
<1> QED
  BY <1>1, <1>8, <1>10 DEF u

Over(q, p) == [c \in 1 .. Len(q) + Len(p) - 1 |->
                  IF c <= Len(p) THEN p[c] ELSE IF c <= Len(q) THEN q[c] ELSE Empty]

Grown(b, r) == Extended(b, r, Blank)[r]

(* A row of a file over a row of the buffer.                                *)
LEMMA RowLaidOver ==
    ASSUME NEW q \in RowsOfText, NEW p \in RowsOfText
    PROVE  /\ Over(q, p) \in RowsOfText
           /\ \A k \in Nat \ {0} : Shown(Over(q, p), k) = IF k <= Len(p) THEN p[k] ELSE Shown(q, k)
<1> DEFINE n == Len(q) + Len(p) - 1
           f == [c \in 1 .. n |-> IF c <= Len(p) THEN p[c] ELSE IF c <= Len(q) THEN q[c] ELSE Empty]
<1>1. n \in Nat \ {0} /\ n >= Len(q) /\ n >= Len(p) /\ Len(q) \in Nat /\ Len(p) \in Nat
  BY RowFacts
<1>2. f \in [1 .. n -> Text]
  BY RowFacts, TextAssumption
<1>3. Over(q, p) = f
  BY DEF Over
<1> HIDE DEF n
<1>4. f \in RowsOfText /\ Len(f) = n
  BY <1>1, <1>2, RowMade
<1>5. \A k \in Nat \ {0} : Shown(f, k) = IF k <= Len(p) THEN p[k] ELSE Shown(q, k)
  BY <1>1, <1>4 DEF Shown
<1> QED
  BY <1>3, <1>4, <1>5

(* Row r of a buffer, appended if there was none, shows what was there.     *)
LEMMA GrownRow ==
    ASSUME NEW b \in Grids, NEW r \in Nat \ {0}
    PROVE  Grown(b, r) \in RowsOfText /\ \A k \in Nat \ {0} : Shown(Grown(b, r), k) = Cell(b, r, k)
<1> DEFINE p == Extended(b, r, Blank)
<1>1. p \in Grids /\ Len(p) >= r /\ \A i, k \in Nat \ {0} : Cell(p, i, k) = Cell(b, i, k)
  BY PaddedGrid
<1>2. Grown(b, r) = p[r]
  BY DEF Grown
<1> HIDE DEF p
<1>3. p[r] \in RowsOfText /\ \A k \in Nat \ {0} : Cell(p, r, k) = Shown(p[r], k)
  BY <1>1, GridFacts DEF Cell
<1> QED
  BY <1>1, <1>2, <1>3

(* csv_load shows the rows of the file, and the buffer where they end.      *)
LEMMA FileLaidOver ==
    ASSUME NEW b \in Grids, NEW f \in Grids
    PROVE  /\ LaidOver(b, f) \in Grids
           /\ \A i, k \in Nat \ {0} : Cell(LaidOver(b, f), i, k) =
                  IF i <= Len(f) /\ k <= Len(f[i]) THEN f[i][k] ELSE Cell(b, i, k)
<1> DEFINE n == Len(b) + Len(f)
           g == [r \in 1 .. n |-> IF r <= Len(f) THEN Over(Grown(b, r), f[r]) ELSE Grown(b, r)]
<1>1. LaidOver(b, f) = g
  BY DEF LaidOver, Over, Grown
<1>2. n \in Nat /\ n >= Len(b) /\ n >= Len(f) /\ Len(b) \in Nat /\ Len(f) \in Nat
  BY GridFacts
<1>3. \A r \in 1 .. Len(f) : f[r] \in RowsOfText
  BY GridFacts
<1> HIDE DEF n
<1>4. ASSUME NEW r \in 1 .. n
      PROVE  /\ g[r] \in RowsOfText
             /\ \A k \in Nat \ {0} : Shown(g[r], k) =
                    IF r <= Len(f) /\ k <= Len(f[r]) THEN f[r][k] ELSE Cell(b, r, k)
  <2>1. Grown(b, r) \in RowsOfText /\ \A k \in Nat \ {0} : Shown(Grown(b, r), k) = Cell(b, r, k)
    BY <1>2, GrownRow
  <2>2. CASE r <= Len(f)
    <3>1. g[r] = Over(Grown(b, r), f[r]) /\ f[r] \in RowsOfText
      BY <1>2, <1>3, <2>2
    <3>2. /\ Over(Grown(b, r), f[r]) \in RowsOfText
          /\ \A k \in Nat \ {0} : Shown(Over(Grown(b, r), f[r]), k) =
                 IF k <= Len(f[r]) THEN f[r][k] ELSE Shown(Grown(b, r), k)
      BY <2>1, <3>1, RowLaidOver
    <3> QED
      BY <2>1, <2>2, <3>1, <3>2
  <2>3. CASE ~(r <= Len(f))
    <3>1. g[r] = Grown(b, r)
      BY <2>3
    <3> QED
      BY <2>1, <2>3, <3>1
  <2> QED
    BY <2>2, <2>3
<1>5. g \in [1 .. n -> RowsOfText]
  BY <1>4
<1>6. g \in Grids /\ Len(g) = n
  BY <1>2, <1>5, GridMade
<1> HIDE DEF g
<1>7. ASSUME NEW i \in Nat \ {0}, NEW k \in Nat \ {0}
      PROVE  Cell(g, i, k) = IF i <= Len(f) /\ k <= Len(f[i]) THEN f[i][k] ELSE Cell(b, i, k)
  <2>1. CASE i <= n
    BY <1>2, <1>4, <1>6, <2>1 DEF Cell
  <2>2. CASE ~(i <= n)
    BY <1>2, <1>6, <2>2 DEF Cell
  <2> QED
    BY <2>1, <2>2
<1> QED
  BY <1>1, <1>6, <1>7

------------------------------------------------------------------------------
(* What Sheet.tla says of the cells, in terms of what the buffer shows.     *)
LEMMA CellsShown ==
    ASSUME NEW b
    PROVE  CellsOf(b) = [i \in Row |-> [k \in Column |-> Cell(b, i, k)]]
BY DEF CellsOf, Cell, Shown

(* The window of the sheet is the one the calls are made in.                *)
LEMMA Window ==
    /\ \A i \in Row : i \in Nat \ {0} /\ i + 1 \in Nat \ {0} /\ i <= MaxRows
    /\ \A k \in Column : k \in Nat \ {0} /\ k + 1 \in Nat \ {0} /\ k <= MaxWidth
    /\ Promise!Rows = Row /\ Promise!Columns = Column
BY SizeAssumption DEF Row, Column, Promise!Rows, Promise!Columns

(* Beyond the window a buffer that fits in it shows nothing.                *)
LEMMA BeyondTheWindow ==
    ASSUME Tight(rows), rows \in Grids, NEW i \in Nat \ {0}, NEW k \in Nat \ {0}
    PROVE  Promise!At(i, k) = Cell(rows, i, k)
<1>1. CASE i \in Row /\ k \in Column
  BY <1>1, CellsShown DEF Promise!At, Promise!Rows, Promise!Columns, Row, Column
<1>2. CASE i \notin Row
  <2>1. i > MaxRows
    BY <1>2, SizeAssumption DEF Row
  <2>2. Cell(rows, i, k) = Empty
    BY <2>1, SizeAssumption, GridFacts DEF Tight, Cell
  <2> QED
    BY <1>2, <2>2 DEF Promise!At, Promise!Rows, Row
<1>3. CASE i \in Row /\ k \notin Column
  <2>1. k > MaxWidth
    BY <1>3, SizeAssumption DEF Column
  <2>2. i <= Len(rows) => Len(rows[i]) <= MaxWidth /\ Len(rows[i]) \in Nat
    BY GridFacts, RowFacts DEF Tight
  <2>3. Cell(rows, i, k) = Empty
    BY <2>1, <2>2, SizeAssumption DEF Cell, Shown
  <2> QED
    BY <1>3, <2>3 DEF Promise!At, Promise!Columns, Column
<1> QED
  BY <1>1, <1>2, <1>3

(* The same of the cells after a step.                                      *)
LEMMA CellsNext == CellsOf(rows)' = [i \in Row |-> [k \in Column |-> Cell(rows', i, k)]]
BY DEF CellsOf, Cell, Shown

(* One cell changed.                                                        *)
LEMMA IsPut ==
    ASSUME NEW r \in Row, NEW c \in Column, NEW t \in Text,
           \A i, k \in Nat \ {0} : Cell(rows', i, k) = IF i = r /\ k = c THEN t ELSE Cell(rows, i, k)
    PROVE  Promise!Put(r, c, t)
<1> DEFINE old == [i \in Row |-> [k \in Column |-> Cell(rows, i, k)]]
           new == [i \in Row |-> [k \in Column |-> Cell(rows', i, k)]]
<1>1. CellsOf(rows) = old /\ CellsOf(rows)' = new
  BY CellsShown, CellsNext
<1>2. new = [old EXCEPT ![r] = [old[r] EXCEPT ![c] = t]]
  BY Window
<1> HIDE DEF old, new
<1> QED
  BY <1>1, <1>2 DEF Promise!Put

(* A cell pushed into a row.                                                *)
LEMMA IsInsert ==
    ASSUME NEW r \in Row, NEW c \in Column, NEW t \in Text,
           \A i, k \in Nat \ {0} : Cell(rows', i, k) =
               IF i = r THEN IF k < c THEN Cell(rows, r, k) ELSE IF k = c THEN t ELSE Cell(rows, r, k - 1)
               ELSE Cell(rows, i, k)
    PROVE  Promise!Insert(r, c, t)
<1> DEFINE old == [i \in Row |-> [k \in Column |-> Cell(rows, i, k)]]
           new == [i \in Row |-> [k \in Column |-> Cell(rows', i, k)]]
           line == [k \in Column |-> CASE k < c -> old[r][k] [] k = c -> t [] k > c -> old[r][k - 1]]
<1>1. CellsOf(rows) = old /\ CellsOf(rows)' = new
  BY CellsShown, CellsNext
<1>2. new = [old EXCEPT ![r] = line]
  <2>1. ASSUME NEW k \in Column PROVE line[k] = Cell(rows', r, k)
    <3>1. CASE k < c
      BY <3>1, Window
    <3>2. CASE k = c
      BY <3>2, Window
    <3>3. CASE k > c
      <4>1. k - 1 \in Column /\ k \in Nat /\ c \in Nat
        BY <3>3, SizeAssumption DEF Column
      <4>2. old[r][k - 1] = Cell(rows, r, k - 1)
        BY <4>1
      <4>3. Cell(rows', r, k) = Cell(rows, r, k - 1)
        BY <3>3, <4>1, Window
      <4> QED
        BY <3>3, <4>1, <4>2, <4>3
    <3> QED
      BY <3>1, <3>2, <3>3, Window
  <2>2. line = [k \in Column |-> Cell(rows', r, k)]
    BY <2>1
  <2> HIDE DEF line
  <2> QED
    BY <2>2, Window
<1> HIDE DEF old, new
<1> QED
  BY <1>1, <1>2 DEF Promise!Insert, Promise!Columns, Column

(* A cell taken out of a row.                                               *)
LEMMA IsRemove ==
    ASSUME NEW r \in Row, NEW c \in Column, Tight(rows), rows \in Grids,
           \A i, k \in Nat \ {0} : Cell(rows', i, k) =
               IF i = r THEN IF k < c THEN Cell(rows, r, k) ELSE Cell(rows, r, k + 1)
               ELSE Cell(rows, i, k)
    PROVE  Promise!Remove(r, c)
<1> DEFINE old == [i \in Row |-> [k \in Column |-> Cell(rows, i, k)]]
           new == [i \in Row |-> [k \in Column |-> Cell(rows', i, k)]]
           line == [k \in Column |-> IF k < c THEN old[r][k] ELSE Promise!At(r, k + 1)]
<1>1. CellsOf(rows) = old /\ CellsOf(rows)' = new
  BY CellsShown, CellsNext
<1>2. new = [old EXCEPT ![r] = line]
  <2>1. \A k \in Column : Promise!At(r, k + 1) = Cell(rows, r, k + 1)
    BY Window, BeyondTheWindow
  <2>2. line = [k \in Column |-> Cell(rows', r, k)]
    BY <2>1, Window
  <2> HIDE DEF line
  <2> QED
    BY <2>2, Window
<1> HIDE DEF old, new
<1> QED
  BY <1>1, <1>2 DEF Promise!Remove, Promise!Columns, Column

(* A row that shows what another one showed.                                *)
LEMMA IsCopyRow ==
    ASSUME NEW d \in Row, NEW s \in Row, Tight(rows), rows \in Grids,
           \A i, k \in Nat \ {0} : Cell(rows', i, k) = IF i = d THEN Cell(rows, s, k) ELSE Cell(rows, i, k)
    PROVE  Promise!CopyRow(d, s)
<1> DEFINE old == [i \in Row |-> [k \in Column |-> Cell(rows, i, k)]]
           new == [i \in Row |-> [k \in Column |-> Cell(rows', i, k)]]
           line == [k \in Column |-> Promise!At(s, k)]
<1>1. CellsOf(rows) = old /\ CellsOf(rows)' = new
  BY CellsShown, CellsNext
<1>2. new = [old EXCEPT ![d] = line]
  <2>1. \A k \in Column : Promise!At(s, k) = Cell(rows, s, k)
    BY Window, BeyondTheWindow
  <2>2. line = [k \in Column |-> Cell(rows', d, k)]
    BY <2>1, Window
  <2> HIDE DEF line
  <2> QED
    BY <2>2, Window
<1> HIDE DEF old, new
<1> QED
  BY <1>1, <1>2 DEF Promise!CopyRow, Promise!Columns, Column

(* A row that shows nothing.                                                *)
LEMMA IsClearRow ==
    ASSUME NEW r \in Row,
           \A i, k \in Nat \ {0} : Cell(rows', i, k) = IF i = r THEN Empty ELSE Cell(rows, i, k)
    PROVE  Promise!ClearRow(r)
<1> DEFINE old == [i \in Row |-> [k \in Column |-> Cell(rows, i, k)]]
           new == [i \in Row |-> [k \in Column |-> Cell(rows', i, k)]]
<1>1. CellsOf(rows) = old /\ CellsOf(rows)' = new
  BY CellsShown, CellsNext
<1>2. new = [old EXCEPT ![r] = [k \in Column |-> Empty]]
  BY Window
<1> HIDE DEF old, new
<1> QED
  BY <1>1, <1>2 DEF Promise!ClearRow, Promise!Columns, Column

(* A row taken out of the sheet.                                            *)
LEMMA IsRemoveRow ==
    ASSUME NEW r \in Row, Tight(rows), rows \in Grids,
           \A i, k \in Nat \ {0} : Cell(rows', i, k) = IF i < r THEN Cell(rows, i, k) ELSE Cell(rows, i + 1, k)
    PROVE  Promise!RemoveRow(r)
<1> DEFINE old == [i \in Row |-> [k \in Column |-> Cell(rows, i, k)]]
           new == [i \in Row |-> [k \in Column |-> Cell(rows', i, k)]]
<1>1. CellsOf(rows) = old /\ CellsOf(rows)' = new
  BY CellsShown, CellsNext
<1>2. new = [i \in Row |-> IF i < r THEN old[i] ELSE [k \in Column |-> Promise!At(i + 1, k)]]
  <2>1. \A i \in Row, k \in Column : Promise!At(i + 1, k) = Cell(rows, i + 1, k)
    BY Window, BeyondTheWindow
  <2>2. ASSUME NEW i \in Row
        PROVE  new[i] = IF i < r THEN old[i] ELSE [k \in Column |-> Promise!At(i + 1, k)]
    BY <2>1, Window
  <2> QED
    BY <2>2
<1> HIDE DEF old, new
<1> QED
  BY <1>1, <1>2 DEF Promise!RemoveRow, Promise!Rows, Promise!Columns, Row, Column

(* A file laid over the sheet.                                              *)
LEMMA IsOverlay ==
    ASSUME NEW f,
           \A i, k \in Nat \ {0} : Cell(rows', i, k) =
               IF i <= Len(f) /\ k <= Len(f[i]) THEN f[i][k] ELSE Cell(rows, i, k)
    PROVE  Promise!Overlay(f)
<1> DEFINE old == [i \in Row |-> [k \in Column |-> Cell(rows, i, k)]]
           new == [i \in Row |-> [k \in Column |-> Cell(rows', i, k)]]
<1>1. CellsOf(rows) = old /\ CellsOf(rows)' = new
  BY CellsShown, CellsNext
<1>2. new = [i \in Row |-> [k \in Column |-> IF i <= Len(f) /\ k <= Len(f[i]) THEN f[i][k] ELSE old[i][k]]]
  <2>1. \A i \in Row, k \in Column : Cell(rows', i, k) = IF i <= Len(f) /\ k <= Len(f[i]) THEN f[i][k] ELSE old[i][k]
    BY Window
  <2> HIDE DEF old
  <2> QED
    BY <2>1
<1> HIDE DEF old, new
<1> QED
  BY <1>1, <1>2 DEF Promise!Overlay, Promise!Rows, Promise!Columns, Row, Column

------------------------------------------------------------------------------
SheetStep == [Promise!Next]_(Promise!vars)

(* The rows of the buffer are of text, and none is empty.                   *)
LEMMA RowsAreGrid == ASSUME TypeOK PROVE rows \in Grids
<1>1. rows \in Seq(Seq(Text)) /\ \A i \in 1 .. Len(rows) : rows[i] \in RowsOfText
  BY SeqIsFunction DEF TypeOK, RowsOfText
<1>2. Len(rows) \in Nat /\ rows \in [1 .. Len(rows) -> RowsOfText]
  BY <1>1, SeqIsFunction
<1> QED
  BY <1>2, FunctionIsSeq DEF Grids

(* And such rows are what TypeOK asks for.                                  *)
LEMMA GridIsRows ==
    ASSUME NEW b \in Grids
    PROVE  b \in Seq(Seq(Text)) /\ \A r \in DOMAIN b : b[r] # <<>>
<1>1. Len(b) \in Nat /\ DOMAIN b = 1 .. Len(b) /\ \A i \in 1 .. Len(b) : b[i] \in Seq(Text) /\ b[i] # <<>>
  BY GridFacts DEF RowsOfText
<1>2. b \in [1 .. Len(b) -> Seq(Text)]
  BY <1>1, SeqIsFunction DEF Grids
<1> QED
  BY <1>1, <1>2, FunctionIsSeq

(* A buffer that becomes another one fits in the window, and is a buffer.   *)
LEMMA Becoming ==
    ASSUME BufferInv, NEW b \in Grids, Becomes(b)
    PROVE  /\ BufferInv' /\ rows' = b /\ UNCHANGED <<delims, file, status>>
<1>1. rows' = b /\ Fits(b) /\ UNCHANGED <<delims, file, status>>
  BY DEF Becomes
<1>2. Tight(rows')
  BY <1>1, GridFacts DEF Fits, Tight
<1>3. TypeOK'
  BY <1>1, GridIsRows DEF BufferInv, TypeOK
<1> QED
  BY <1>1, <1>2, <1>3 DEF BufferInv, Tight

(* A call is made.                                                          *)
Making(op) == status = "ok" /\ call = Returned /\ call'.op = op /\ op # "returned"

(* A call that changes cells as the sheet asks of it is a step of the sheet. *)
LEMMA Changing ==
    ASSUME BufferInv, NEW op, Making(op), NEW b \in Grids, Becomes(b),
           ~Promise!Fatal(call'), Promise!Change(call')
    PROVE  BufferInv' /\ SheetStep
<1>1. BufferInv' /\ status' = status
  BY Becoming
<1>2. Promise!Call
  BY <1>1 DEF Promise!Call, Making, Returned, Promise!Returned
<1> QED
  BY <1>1, <1>2 DEF SheetStep, Promise!Next, Making

(* The return from a call leaves the cells alone.                           *)
LEMMA Returning == ASSUME BufferInv, status = "ok", Return PROVE BufferInv' /\ SheetStep
<1>1. BufferInv'
  BY DEF BufferInv, TypeOK, Tight, Return
<1>2. CellsOf(rows)' = CellsOf(rows)
  BY CellsNext, CellsShown DEF Return
<1>3. Promise!Next
  BY <1>2 DEF Promise!Next, Promise!Return, Return, Returned, Promise!Returned
<1> QED
  BY <1>1, <1>3 DEF SheetStep

(* A call after which the buffer is of no use ends the sheet.               *)
LEMMA Ending ==
    ASSUME BufferInv, NEW op, Making(op), UNCHANGED <<rows, delims, file>>,
           status' \in {"freed", "undefined", "destroyed"}, Promise!Fatal(call')
    PROVE  BufferInv' /\ SheetStep
<1>1. BufferInv'
  BY DEF BufferInv, TypeOK, Tight
<1>2. Promise!Call
  BY DEF Promise!Call, Making, Returned, Promise!Returned
<1> QED
  BY <1>1, <1>2 DEF SheetStep, Promise!Next, Making

(* Which calls end the sheet, in terms of the rows.                         *)
LEMMA FatalCalls ==
    ASSUME BufferInv, NEW k
    PROVE  /\ k.op \in {"insert_field", "remove_field", "measure"} => (Promise!Fatal(k) <=> rows = <<>>)
           /\ k.op = "copy_field" /\ k.r \in Row /\ k.s \in Row =>
                  (Promise!Fatal(k) <=> ~Exists(k.r, k.c) \/ ~Exists(k.s, k.sc))
           /\ k.op = "clear_row" => (Promise!Fatal(k) <=> k.r > Len(rows) \/ Len(rows) = 1)
           /\ k.op = "copy_row" =>
                  (Promise!Fatal(k) <=> IF rows = <<>> THEN k.s > k.r
                                        ELSE k.s > Len(rows) /\ (k.r > Len(rows) \/ Len(rows) = 1))
           /\ k.op = "remove_row" => (Promise!Fatal(k) <=> rows = <<>> \/ (k.r = 1 /\ Len(rows) = 1))
           /\ k.op \in {"set_field", "clear_field", "load", "set_field_delim", "set_text_delim"} =>
                  ~Promise!Fatal(k)
           /\ k.op = "destroy_buffer" => Promise!Fatal(k)
<1> DEFINE w == [r \in 1 .. Len(rows) |-> Len(rows[r])]
<1>1. rows \in Grids /\ Len(rows) \in Nat /\ (rows # <<>> <=> Len(rows) >= 1)
  BY RowsAreGrid, GridFacts DEF BufferInv
<1>2. \A r \in 1 .. Len(rows) : w[r] = Len(rows[r]) /\ Len(rows[r]) \in Nat
  BY <1>1, GridFacts, RowFacts
<1>3. w \in [1 .. Len(rows) -> Nat]
  BY <1>2
<1> HIDE DEF w
<1>4. w \in Seq(Nat) /\ Len(w) = Len(rows)
  BY <1>1, <1>3, FunctionIsSeq
<1>5. w = <<>> <=> rows = <<>>
  BY <1>1, <1>4, SeqIsFunction
<1>6. \A r, c : r \in Row => (r <= Len(w) /\ c <= w[r] <=> Exists(r, c))
  BY <1>1, <1>2, <1>4, Window DEF Exists, Width
<1>7. \A r : Promise!NoRowToClear(r) <=> r > Len(rows) \/ Len(rows) = 1
  BY <1>4 DEF Promise!NoRowToClear, w
<1>8. \A r, c : r \in Row => (Promise!Has(r, c) <=> Exists(r, c))
  BY <1>6 DEF Promise!Has, w
<1>9. Promise!Fatal(k) <=>
        CASE k.op \in {"insert_field", "remove_field", "measure"} -> w = <<>>
          [] k.op = "copy_field" -> ~Promise!Has(k.r, k.c) \/ ~Promise!Has(k.s, k.sc)
          [] k.op = "clear_row"  -> Promise!NoRowToClear(k.r)
          [] k.op = "copy_row"   -> IF w = <<>> THEN k.s > k.r ELSE k.s > Len(w) /\ Promise!NoRowToClear(k.r)
          [] k.op = "remove_row" -> w = <<>> \/ (k.r = 1 /\ Len(w) = 1)
          [] OTHER               -> k.op = "destroy_buffer"
  BY DEF Promise!Fatal, w
<1>10. k.op \in {"insert_field", "remove_field", "measure"} => (Promise!Fatal(k) <=> rows = <<>>)
  BY <1>5, <1>9
<1>11. k.op = "copy_field" /\ k.r \in Row /\ k.s \in Row =>
         (Promise!Fatal(k) <=> ~Exists(k.r, k.c) \/ ~Exists(k.s, k.sc))
  BY <1>8, <1>9
<1>12. k.op = "clear_row" => (Promise!Fatal(k) <=> k.r > Len(rows) \/ Len(rows) = 1)
  BY <1>7, <1>9
<1>13. k.op = "copy_row" =>
         (Promise!Fatal(k) <=> IF rows = <<>> THEN k.s > k.r
                               ELSE k.s > Len(rows) /\ (k.r > Len(rows) \/ Len(rows) = 1))
  <2>1. k.op = "copy_row" =>
          (Promise!Fatal(k) <=> IF w = <<>> THEN k.s > k.r ELSE k.s > Len(w) /\ Promise!NoRowToClear(k.r))
    BY <1>9
  <2> QED
    BY <1>4, <1>5, <1>7, <2>1
<1>14. k.op = "remove_row" => (Promise!Fatal(k) <=> rows = <<>> \/ (k.r = 1 /\ Len(rows) = 1))
  <2>1. k.op = "remove_row" => (Promise!Fatal(k) <=> w = <<>> \/ (k.r = 1 /\ Len(w) = 1))
    BY <1>9
  <2> QED
    BY <1>4, <1>5, <2>1
<1>15. k.op \in {"set_field", "clear_field", "load", "set_field_delim", "set_text_delim"} => ~Promise!Fatal(k)
  BY <1>9
<1>16. k.op = "destroy_buffer" => Promise!Fatal(k)
  BY <1>9
<1> QED
  BY <1>10, <1>11, <1>12, <1>13, <1>14, <1>15, <1>16

(* Where there is no field there is nothing to see, nor to the right of it. *)
LEMMA NothingThere ==
    ASSUME BufferInv, NEW r \in Row, NEW c \in Column, ~Exists(r, c), NEW k \in Nat \ {0}, k >= c
    PROVE  Cell(rows, r, k) = Empty
<1>1. rows \in Grids /\ r \in Nat \ {0} /\ c \in Nat \ {0}
  BY RowsAreGrid, Window DEF BufferInv
<1>2. CASE r > Len(rows)
  BY <1>1, <1>2, GridFacts DEF Cell
<1>3. CASE r <= Len(rows) /\ c > Len(rows[r])
  <2>1. Len(rows[r]) \in Nat
    BY <1>1, <1>3, GridFacts, RowFacts
  <2> QED
    BY <1>1, <1>3, <2>1 DEF Cell, Shown
<1> QED
  BY <1>1, <1>2, <1>3, GridFacts, RowFacts DEF Exists, Width

(* A call that puts the buffer back as it was.                              *)
LEMMA Nothing == ASSUME BufferInv, Becomes(rows) PROVE rows \in Grids /\ rows' = rows
BY RowsAreGrid DEF Becomes, BufferInv

------------------------------------------------------------------------------
(* What csv_set_field does to the cells.                                    *)
LEMMA FieldSet ==
    ASSUME BufferInv, NEW r \in Row, NEW c \in Column, NEW t \in Text, SetField(r, c, t)
    PROVE  \E b \in Grids :
              /\ Becomes(b)
              /\ \A i, k \in Nat \ {0} : Cell(rows', i, k) = IF i = r /\ k = c THEN t ELSE Cell(rows, i, k)
<1> DEFINE b == Stored(rows, r, c, t)
<1>1. rows \in Grids
  BY RowsAreGrid DEF BufferInv
<1>2. b \in Grids /\ \A i, k \in Nat \ {0} : Cell(b, i, k) = IF i = r /\ k = c THEN t ELSE Cell(rows, i, k)
  <2>1. r \in Nat \ {0} /\ c \in Nat \ {0}
    BY Window
  <2> QED
    BY <1>1, <2>1, StoredCell
<1>3. Becomes(b)
  BY DEF SetField
<1> HIDE DEF b
<1>4. rows' = b
  BY <1>2, <1>3, Becoming
<1> QED
  BY <1>2, <1>3, <1>4

(* csv_set_field is Put.                                                    *)
LEMMA SetFieldStep ==
    ASSUME BufferInv, NEW r \in Row, NEW c \in Column, NEW t \in Text, SetField(r, c, t),
           Making("set_field"), call'.r = r, call'.c = c, call'.t = t
    PROVE  BufferInv' /\ SheetStep
<1>1. PICK b \in Grids :
         /\ Becomes(b)
         /\ \A i, k \in Nat \ {0} : Cell(rows', i, k) = IF i = r /\ k = c THEN t ELSE Cell(rows, i, k)
  BY FieldSet
<1>2. Promise!Put(r, c, t)
  BY <1>1, IsPut
<1>3. Promise!Change(call')
  BY <1>2 DEF Promise!Change, Making
<1>4. ~Promise!Fatal(call')
  BY FatalCalls DEF Making
<1> QED
  BY <1>1, <1>3, <1>4, Changing

(* One row of the buffer becomes q.                                         *)
LEMMA RowBecomes ==
    ASSUME BufferInv, NEW r \in Row, r <= Len(rows), NEW q \in RowsOfText, Becomes([rows EXCEPT ![r] = q])
    PROVE  /\ [rows EXCEPT ![r] = q] \in Grids
           /\ \A i, k \in Nat \ {0} : Cell(rows', i, k) = IF i = r THEN Shown(q, k) ELSE Cell(rows, i, k)
           /\ \A k \in Nat \ {0} : Cell(rows, r, k) = Shown(rows[r], k)
<1> DEFINE b == [rows EXCEPT ![r] = q]
<1>1. rows \in Grids /\ r \in 1 .. Len(rows)
  BY RowsAreGrid, GridFacts, Window DEF BufferInv
<1>2. b \in Grids /\ \A i, k \in Nat \ {0} : Cell(b, i, k) = IF i = r THEN Shown(q, k) ELSE Cell(rows, i, k)
  BY <1>1, RowReplaced
<1> HIDE DEF b
<1>3. Becomes(b)
  BY DEF b
<1>4. rows' = b
  BY <1>2, <1>3, Becoming
<1>5. b \in Grids /\ \A i, k \in Nat \ {0} : Cell(rows', i, k) = IF i = r THEN Shown(q, k) ELSE Cell(rows, i, k)
  BY <1>2, <1>4
<1> QED
  BY <1>1, <1>5 DEF b, Cell

(* A field that exists is one of a row of text.                             *)
LEMMA ExistingRow ==
    ASSUME BufferInv, NEW r \in Row, NEW c \in Column, Exists(r, c)
    PROVE  /\ r <= Len(rows) /\ r \in 1 .. Len(rows)
           /\ rows[r] \in RowsOfText /\ c \in 1 .. Len(rows[r])
<1>1. rows \in Grids /\ r <= Len(rows) /\ c <= Len(rows[r])
  BY RowsAreGrid DEF BufferInv, Exists, Width
<1>2. r \in 1 .. Len(rows)
  BY <1>1, Window, GridFacts
<1>3. rows[r] \in RowsOfText
  BY <1>1, <1>2, GridFacts
<1>4. c \in 1 .. Len(rows[r])
  BY <1>1, <1>3, Window, RowFacts
<1> QED
  BY <1>1, <1>2, <1>3, <1>4

(* csv_insert_field is Insert, and Put where the row has no such field.     *)
LEMMA InsertFieldStep ==
    ASSUME BufferInv, NEW r \in Row, NEW c \in Column, NEW t \in Text, InsertField(r, c, t),
           Making("insert_field"), call'.r = r, call'.c = c, call'.t = t
    PROVE  BufferInv' /\ SheetStep
<1>0. Promise!Fatal(call') <=> rows = <<>>
  BY FatalCalls DEF Making
<1>1. CASE rows = <<>> /\ Undefined
  BY <1>0, <1>1, Ending DEF Undefined
<1>2. CASE rows # <<>> /\ ~Exists(r, c) /\ SetField(r, c, t)
  <2>1. PICK b \in Grids :
           /\ Becomes(b)
           /\ \A i, k \in Nat \ {0} : Cell(rows', i, k) = IF i = r /\ k = c THEN t ELSE Cell(rows, i, k)
    BY <1>2, FieldSet
  <2>2. ASSUME NEW i \in Nat \ {0}, NEW k \in Nat \ {0}
        PROVE  Cell(rows', i, k) =
               IF i = r THEN IF k < c THEN Cell(rows, r, k) ELSE IF k = c THEN t ELSE Cell(rows, r, k - 1)
               ELSE Cell(rows, i, k)
    <3>1. k > c => k - 1 \in Nat \ {0} /\ k - 1 >= c /\ k >= c /\ ~(k < c) /\ k # c
      BY Window
    <3>2. k > c => Cell(rows, r, k) = Empty /\ Cell(rows, r, k - 1) = Empty
      BY <1>2, <3>1, NothingThere
    <3>3. k < c \/ k = c \/ k > c
      BY Window
    <3> QED
      BY <2>1, <3>1, <3>2, <3>3
  <2>3. Promise!Insert(r, c, t)
    BY <2>2, IsInsert
  <2>4. Promise!Change(call')
    BY <2>3 DEF Promise!Change, Making
  <2> QED
    BY <1>0, <1>2, <2>1, <2>4, Changing
<1>3. CASE rows # <<>> /\ Exists(r, c) /\ Becomes([rows EXCEPT ![r] = Inserted(rows[r], c, t)])
  <2> DEFINE q == Inserted(rows[r], c, t)
  <2>1. r <= Len(rows) /\ rows[r] \in RowsOfText /\ c \in 1 .. Len(rows[r])
    BY <1>3, ExistingRow
  <2>2. /\ q \in RowsOfText
        /\ \A k \in Nat \ {0} : Shown(q, k) =
               IF k < c THEN Shown(rows[r], k) ELSE IF k = c THEN t ELSE Shown(rows[r], k - 1)
    BY <2>1, FieldInserted
  <2> HIDE DEF q
  <2>3. Becomes([rows EXCEPT ![r] = q])
    BY <1>3 DEF q
  <2>4. /\ [rows EXCEPT ![r] = q] \in Grids
        /\ \A i, k \in Nat \ {0} : Cell(rows', i, k) = IF i = r THEN Shown(q, k) ELSE Cell(rows, i, k)
        /\ \A k \in Nat \ {0} : Cell(rows, r, k) = Shown(rows[r], k)
    BY <2>1, <2>2, <2>3, RowBecomes
  <2>5. ASSUME NEW i \in Nat \ {0}, NEW k \in Nat \ {0}
        PROVE  Cell(rows', i, k) =
               IF i = r THEN IF k < c THEN Cell(rows, r, k) ELSE IF k = c THEN t ELSE Cell(rows, r, k - 1)
               ELSE Cell(rows, i, k)
    <3>1. k > c => k - 1 \in Nat \ {0} /\ ~(k < c) /\ k # c
      BY Window
    <3>2. k < c \/ k = c \/ k > c
      BY Window
    <3>3. Shown(q, k) = IF k < c THEN Cell(rows, r, k) ELSE IF k = c THEN t ELSE Cell(rows, r, k - 1)
      BY <2>2, <2>4, <3>1, <3>2
    <3> QED
      BY <2>4, <3>3
  <2>6. Promise!Insert(r, c, t)
    BY <2>5, IsInsert
  <2>7. Promise!Change(call')
    BY <2>6 DEF Promise!Change, Making
  <2> QED
    BY <1>0, <1>3, <2>3, <2>4, <2>7, Changing
<1> QED
  BY <1>1, <1>2, <1>3 DEF InsertField

(* csv_clear_field is Put with the empty text, whether the field goes or not. *)
LEMMA ClearFieldStep ==
    ASSUME BufferInv, NEW r \in Row, NEW c \in Column, ClearField(r, c),
           Making("clear_field"), call'.r = r, call'.c = c
    PROVE  BufferInv' /\ SheetStep
<1>0. ~Promise!Fatal(call')
  BY FatalCalls DEF Making
<1>1. CASE ~Exists(r, c)
  <2>1. Becomes(rows) /\ rows \in Grids /\ rows' = rows
    BY <1>1, Nothing DEF ClearField
  <2>2. Cell(rows, r, c) = Empty
    BY <1>1, Window, NothingThere
  <2>3. \A i, k \in Nat \ {0} : Cell(rows', i, k) = IF i = r /\ k = c THEN Empty ELSE Cell(rows, i, k)
    BY <2>1, <2>2
  <2>4. Promise!Put(r, c, Empty)
    BY <2>3, TextAssumption, IsPut
  <2>5. Promise!Change(call')
    BY <2>4 DEF Promise!Change, Making
  <2> QED
    BY <1>0, <2>1, <2>5, Changing
<1>2. CASE Exists(r, c)
  <2> DEFINE q == IF c = Len(rows[r]) THEN remove_last_field(rows[r]) ELSE [rows[r] EXCEPT ![c] = Empty]
  <2>1. r <= Len(rows) /\ rows[r] \in RowsOfText /\ c \in 1 .. Len(rows[r])
    BY <1>2, ExistingRow
  <2>2. q \in RowsOfText /\ \A k \in Nat \ {0} : Shown(q, k) = IF k = c THEN Empty ELSE Shown(rows[r], k)
    <3>1. CASE c = Len(rows[r])
      BY <2>1, <3>1, LastFieldRemoved
    <3>2. CASE c # Len(rows[r])
      <4>1. /\ [rows[r] EXCEPT ![c] = Empty] \in RowsOfText
            /\ \A k \in Nat \ {0} : Shown([rows[r] EXCEPT ![c] = Empty], k) = IF k = c THEN Empty ELSE Shown(rows[r], k)
        BY <2>1, TextAssumption, RowChanged, ZenonT(30)
      <4> QED
        BY <3>2, <4>1
    <3> QED
      BY <3>1, <3>2
  <2> HIDE DEF q
  <2>3. Becomes([rows EXCEPT ![r] = q])
    BY <1>2 DEF q, ClearField
  <2>4. /\ [rows EXCEPT ![r] = q] \in Grids
        /\ \A i, k \in Nat \ {0} : Cell(rows', i, k) = IF i = r THEN Shown(q, k) ELSE Cell(rows, i, k)
        /\ \A k \in Nat \ {0} : Cell(rows, r, k) = Shown(rows[r], k)
    BY <2>1, <2>2, <2>3, RowBecomes
  <2>5. \A i, k \in Nat \ {0} : Cell(rows', i, k) = IF i = r /\ k = c THEN Empty ELSE Cell(rows, i, k)
    BY <2>2, <2>4
  <2>6. Promise!Put(r, c, Empty)
    BY <2>5, TextAssumption, IsPut
  <2>7. Promise!Change(call')
    BY <2>6 DEF Promise!Change, Making
  <2> QED
    BY <1>0, <2>3, <2>4, <2>7, Changing
<1> QED
  BY <1>1, <1>2

(* csv_remove_field is Remove.                                              *)
LEMMA RemoveFieldStep ==
    ASSUME BufferInv, NEW r \in Row, NEW c \in Column, RemoveField(r, c),
           Making("remove_field"), call'.r = r, call'.c = c
    PROVE  BufferInv' /\ SheetStep
<1>0. Promise!Fatal(call') <=> rows = <<>>
  BY FatalCalls DEF Making
<1>1. CASE rows = <<>> /\ Undefined
  BY <1>0, <1>1, Ending DEF Undefined
<1>2. CASE rows # <<>> /\ ~Exists(r, c) /\ Becomes(rows)
  <2>1. rows \in Grids /\ rows' = rows
    BY <1>2, Nothing
  <2>2. ASSUME NEW k \in Nat \ {0}, ~(k < c)
        PROVE  Cell(rows, r, k) = Empty /\ Cell(rows, r, k + 1) = Empty
    <3>1. k >= c /\ k + 1 >= c /\ k + 1 \in Nat \ {0}
      BY <2>2, Window
    <3> QED
      BY <1>2, <3>1, NothingThere
  <2>3. \A i, k \in Nat \ {0} : Cell(rows', i, k) =
            IF i = r THEN IF k < c THEN Cell(rows, r, k) ELSE Cell(rows, r, k + 1)
            ELSE Cell(rows, i, k)
    BY <2>1, <2>2
  <2>4. Promise!Remove(r, c)
    BY <2>1, <2>3, IsRemove DEF BufferInv
  <2>5. Promise!Change(call')
    BY <2>4 DEF Promise!Change, Making
  <2> QED
    BY <1>0, <1>2, <2>1, <2>5, Changing
<1>3. CASE rows # <<>> /\ Exists(r, c) /\ Becomes([rows EXCEPT ![r] = remove_last_field(Removed(rows[r], c))])
  <2> DEFINE q == remove_last_field(Removed(rows[r], c))
  <2>1. r <= Len(rows) /\ rows[r] \in RowsOfText /\ c \in 1 .. Len(rows[r])
    BY <1>3, ExistingRow
  <2>2. /\ q \in RowsOfText
        /\ \A k \in Nat \ {0} : Shown(q, k) = IF k < c THEN Shown(rows[r], k) ELSE Shown(rows[r], k + 1)
    BY <2>1, FieldRemoved
  <2> HIDE DEF q
  <2>3. Becomes([rows EXCEPT ![r] = q])
    BY <1>3 DEF q
  <2>4. /\ [rows EXCEPT ![r] = q] \in Grids
        /\ \A i, k \in Nat \ {0} : Cell(rows', i, k) = IF i = r THEN Shown(q, k) ELSE Cell(rows, i, k)
        /\ \A k \in Nat \ {0} : Cell(rows, r, k) = Shown(rows[r], k)
    BY <2>1, <2>2, <2>3, RowBecomes
  <2>5. \A k \in Nat \ {0} : k + 1 \in Nat \ {0}
    OBVIOUS
  <2>6. \A i, k \in Nat \ {0} : Cell(rows', i, k) =
            IF i = r THEN IF k < c THEN Cell(rows, r, k) ELSE Cell(rows, r, k + 1)
            ELSE Cell(rows, i, k)
    BY <2>2, <2>4, <2>5
  <2>7. Promise!Remove(r, c)
    BY <2>6, IsRemove, RowsAreGrid DEF BufferInv
  <2>8. Promise!Change(call')
    BY <2>7 DEF Promise!Change, Making
  <2> QED
    BY <1>0, <1>3, <2>3, <2>4, <2>8, Changing
<1> QED
  BY <1>1, <1>2, <1>3 DEF RemoveField

(* csv_copy_field is Put with the text of another cell.                     *)
LEMMA CopyFieldStep ==
    ASSUME BufferInv, NEW d \in Row, NEW s \in Row, NEW dc \in Column, NEW sc \in Column,
           CopyField(d, dc, s, sc),
           Making("copy_field"), call'.r = d, call'.c = dc, call'.s = s, call'.sc = sc
    PROVE  BufferInv' /\ SheetStep
<1>0. Promise!Fatal(call') <=> ~Exists(d, dc) \/ ~Exists(s, sc)
  BY FatalCalls DEF Making
<1>1. CASE ~(Exists(d, dc) /\ Exists(s, sc))
  BY <1>0, <1>1, Ending DEF CopyField, Undefined
<1>2. CASE Exists(d, dc) /\ Exists(s, sc)
  <2> DEFINE t == rows[s][sc]
  <2>1. t \in Text
    BY <1>2, ExistingRow, RowFacts
  <2>2. d <= Len(rows) /\ d \in 1 .. Len(rows) /\ rows[d] \in RowsOfText /\ dc \in 1 .. Len(rows[d])
    BY <1>2, ExistingRow
  <2>3. rows \in Grids
    BY RowsAreGrid DEF BufferInv
  <2>4. Becomes([rows EXCEPT ![d] = [rows[d] EXCEPT ![dc] = t]])
    BY <1>2 DEF CopyField
  <2> HIDE DEF t
  <2>5. /\ [rows[d] EXCEPT ![dc] = t] \in RowsOfText
        /\ \A k \in Nat \ {0} : Shown([rows[d] EXCEPT ![dc] = t], k) = IF k = dc THEN t ELSE Shown(rows[d], k)
    BY <2>1, <2>2, RowChanged, ZenonT(30)
  <2> DEFINE q == [rows[d] EXCEPT ![dc] = t]
  <2>6. q \in RowsOfText /\ \A k \in Nat \ {0} : Shown(q, k) = IF k = dc THEN t ELSE Shown(rows[d], k)
    BY <2>5
  <2>7. Becomes([rows EXCEPT ![d] = q])
    BY <2>4
  <2> HIDE DEF q
  <2>8. /\ [rows EXCEPT ![d] = q] \in Grids
        /\ \A i, k \in Nat \ {0} : Cell(rows', i, k) = IF i = d THEN Shown(q, k) ELSE Cell(rows, i, k)
        /\ \A k \in Nat \ {0} : Cell(rows, d, k) = Shown(rows[d], k)
    BY <2>2, <2>6, <2>7, RowBecomes
  <2>9. \A i, k \in Nat \ {0} : Cell(rows', i, k) = IF i = d /\ k = dc THEN t ELSE Cell(rows, i, k)
    BY <2>6, <2>8
  <2>10. Promise!Put(d, dc, t)
    BY <2>1, <2>9, IsPut
  <2>11. t = Promise!At(s, sc)
    <3>1. s \in 1 .. Len(rows) /\ rows[s] \in RowsOfText /\ sc \in 1 .. Len(rows[s])
      BY <1>2, ExistingRow
    <3>2. Cell(rows, s, sc) = t
      BY <3>1, <2>3, GridFacts, RowFacts DEF Cell, Shown, t
    <3> QED
      BY <2>3, <3>2, Window, BeyondTheWindow DEF BufferInv
  <2>12. Promise!Change(call')
    BY <2>10, <2>11 DEF Promise!Change, Making
  <2> QED
    BY <1>0, <1>2, <2>7, <2>8, <2>12, Changing
<1> QED
  BY <1>1, <1>2

(* What csv_clear_row does: the last row is cleared by removing it, and the *)
(* only one takes the buffer with it.                                       *)
LEMMA RowCleared ==
    ASSUME BufferInv, NEW r \in Row, ClearRow(r)
    PROVE  IF r > Len(rows) \/ Len(rows) = 1
           THEN status' \in {"freed", "undefined"} /\ UNCHANGED <<rows, delims, file>>
           ELSE \E b \in Grids :
                   /\ Becomes(b)
                   /\ \A i, k \in Nat \ {0} : Cell(rows', i, k) = IF i = r THEN Empty ELSE Cell(rows, i, k)
<1>1. Len(rows) \in Nat /\ r \in Nat \ {0} /\ rows \in Grids
  BY RowsAreGrid, GridFacts, Window DEF BufferInv
<1>2. CASE r = Len(rows) /\ Len(rows) > 1
  <2> DEFINE b == SubSeq(rows, 1, Len(rows) - 1)
  <2>1. Becomes(b)
    BY <1>1, <1>2 DEF ClearRow, remove_last_row
  <2>2. b \in Grids /\ \A i, k \in Nat \ {0} : Cell(b, i, k) = IF i = r THEN Empty ELSE Cell(rows, i, k)
    BY <1>1, <1>2, LastRowRemoved
  <2> HIDE DEF b
  <2>3. rows' = b
    BY <2>1, <2>2, Becoming
  <2> QED
    BY <1>1, <1>2, <2>1, <2>2, <2>3
<1>3. CASE r = Len(rows) /\ Len(rows) = 1
  BY <1>1, <1>3 DEF ClearRow, remove_last_row
<1>4. CASE r < Len(rows)
  <2>1. Becomes([rows EXCEPT ![r] = Blank])
    BY <1>1, <1>4 DEF ClearRow
  <2>2. /\ [rows EXCEPT ![r] = Blank] \in Grids
        /\ \A i, k \in Nat \ {0} : Cell(rows', i, k) = IF i = r THEN Shown(Blank, k) ELSE Cell(rows, i, k)
    BY <1>1, <1>4, <2>1, BlankRow, RowBecomes
  <2>3. \A i, k \in Nat \ {0} : Cell(rows', i, k) = IF i = r THEN Empty ELSE Cell(rows, i, k)
    BY <2>2, BlankRow
  <2>4. ~(r > Len(rows) \/ Len(rows) = 1)
    BY <1>1, <1>4
  <2> QED
    BY <2>1, <2>2, <2>3, <2>4
<1>5. CASE r > Len(rows)
  BY <1>1, <1>5 DEF ClearRow, Undefined
<1>6. r < Len(rows) \/ r > Len(rows) \/ (r = Len(rows) /\ Len(rows) = 1) \/ (r = Len(rows) /\ Len(rows) > 1)
  BY <1>1
<1> HIDE DEF ClearRow
<1> QED
  BY <1>2, <1>3, <1>4, <1>5, <1>6, Zenon

(* csv_clear_row is ClearRow, where it does not free the arrays or miss them. *)
LEMMA ClearRowStep ==
    ASSUME BufferInv, NEW r \in Row, ClearRow(r), Making("clear_row"), call'.r = r
    PROVE  BufferInv' /\ SheetStep
<1>1. Promise!Fatal(call') <=> r > Len(rows) \/ Len(rows) = 1
  BY FatalCalls DEF Making
<1>2. CASE r > Len(rows) \/ Len(rows) = 1
  BY <1>1, <1>2, RowCleared, Ending
<1>3. CASE ~(r > Len(rows) \/ Len(rows) = 1)
  <2>1. PICK b \in Grids :
           /\ Becomes(b)
           /\ \A i, k \in Nat \ {0} : Cell(rows', i, k) = IF i = r THEN Empty ELSE Cell(rows, i, k)
    BY <1>3, RowCleared
  <2>2. Promise!ClearRow(r)
    BY <2>1, IsClearRow
  <2>3. Promise!Change(call')
    BY <2>2 DEF Promise!Change, Making
  <2> QED
    BY <1>1, <1>3, <2>1, <2>3, Changing
<1> QED
  BY <1>2, <1>3

(* csv_copy_row is CopyRow, and clears d for a row that does not exist.     *)
LEMMA CopyRowStep ==
    ASSUME BufferInv, NEW d \in Row, NEW s \in Row, CopyRow(d, s),
           Making("copy_row"), call'.r = d, call'.s = s
    PROVE  BufferInv' /\ SheetStep
<1>0. /\ Promise!Fatal(call') <=> IF rows = <<>> THEN s > d
                                  ELSE s > Len(rows) /\ (d > Len(rows) \/ Len(rows) = 1)
      /\ rows \in Grids /\ Len(rows) \in Nat /\ s \in Nat \ {0} /\ d \in Nat \ {0}
  BY FatalCalls, RowsAreGrid, GridFacts, Window DEF Making, BufferInv
<1>1. CASE rows = <<>> /\ s > d /\ Undefined
  BY <1>0, <1>1, Ending DEF Undefined
<1>2. CASE rows # <<>> /\ s > Len(rows) /\ ClearRow(d)
  <2>1. CASE d > Len(rows) \/ Len(rows) = 1
    BY <1>0, <1>2, <2>1, RowCleared, Ending
  <2>2. CASE ~(d > Len(rows) \/ Len(rows) = 1)
    <3>1. PICK b \in Grids :
             /\ Becomes(b)
             /\ \A i, k \in Nat \ {0} : Cell(rows', i, k) = IF i = d THEN Empty ELSE Cell(rows, i, k)
      BY <1>2, <2>2, RowCleared
    <3>2. \A k \in Nat \ {0} : Cell(rows, s, k) = Empty
      BY <1>0, <1>2 DEF Cell
    <3>3. \A i, k \in Nat \ {0} : Cell(rows', i, k) = IF i = d THEN Cell(rows, s, k) ELSE Cell(rows, i, k)
      BY <3>1, <3>2
    <3>4. Promise!CopyRow(d, s)
      BY <1>0, <3>3, IsCopyRow DEF BufferInv
    <3>5. Promise!Change(call')
      BY <3>4 DEF Promise!Change, Making
    <3> QED
      BY <1>0, <1>2, <2>2, <3>1, <3>5, Changing
  <2> QED
    BY <2>1, <2>2
<1>3. CASE /\ s <= IF rows = <<>> THEN d ELSE Len(rows)
           /\ LET padded == Extended(rows, d, Blank) IN Becomes([padded EXCEPT ![d] = padded[s]])
  <2> DEFINE p == Extended(rows, d, Blank)
             b == [p EXCEPT ![d] = p[s]]
  <2>1. rows \in Grids
    BY RowsAreGrid DEF BufferInv
  <2>2. /\ p \in Grids /\ Len(p) >= d /\ Len(p) >= Len(rows)
        /\ \A i, k \in Nat \ {0} : Cell(p, i, k) = Cell(rows, i, k)
    BY <2>1, Window, PaddedGrid
  <2>3. Becomes(b)
    BY <1>3
  <2> HIDE DEF p
  <2>4. d \in 1 .. Len(p) /\ s \in 1 .. Len(p)
    BY <1>3, <2>1, <2>2, Window, GridFacts
  <2>5. p[s] \in RowsOfText /\ \A k \in Nat \ {0} : Cell(p, s, k) = Shown(p[s], k)
    BY <2>2, <2>4, GridFacts DEF Cell
  <2>6. /\ b \in Grids
        /\ \A i, k \in Nat \ {0} : Cell(b, i, k) = IF i = d THEN Shown(p[s], k) ELSE Cell(p, i, k)
    BY <2>2, <2>4, <2>5, RowReplaced, ZenonT(30)
  <2> HIDE DEF b
  <2>7. rows' = b
    BY <2>3, <2>6, Becoming
  <2>8. \A i, k \in Nat \ {0} : Cell(rows', i, k) = IF i = d THEN Cell(rows, s, k) ELSE Cell(rows, i, k)
    BY <2>2, <2>5, <2>6, <2>7, Window
  <2>9. Promise!CopyRow(d, s)
    BY <2>1, <2>8, IsCopyRow DEF BufferInv
  <2>10. Promise!Change(call')
    BY <2>9 DEF Promise!Change, Making
  <2>11. ~Promise!Fatal(call')
    BY <1>0, <1>3
  <2> QED
    BY <2>3, <2>6, <2>10, <2>11, Changing
<1> QED
  BY <1>1, <1>2, <1>3 DEF CopyRow

(* csv_remove_row is RemoveRow, where it does not free the arrays.          *)
LEMMA RemoveRowStep ==
    ASSUME BufferInv, NEW r \in Row, RemoveRow(r), Making("remove_row"), call'.r = r
    PROVE  BufferInv' /\ SheetStep
<1>0. /\ Promise!Fatal(call') <=> rows = <<>> \/ (r = 1 /\ Len(rows) = 1)
      /\ rows \in Grids /\ Len(rows) \in Nat /\ (rows # <<>> <=> Len(rows) >= 1) /\ r \in Nat \ {0}
  BY FatalCalls, RowsAreGrid, GridFacts, Window DEF Making, BufferInv
<1>1. CASE rows = <<>> /\ Undefined
  <2>1. Promise!Fatal(call')
    BY <1>0, <1>1
  <2> QED
    BY <1>1, <2>1, Ending DEF Undefined
<1>2. CASE rows # <<>> /\ r > Len(rows) /\ Becomes(rows)
  <2>1. rows' = rows
    BY <1>2, Nothing
  <2>2. \A i, k \in Nat \ {0} : ~(i < r) => Cell(rows, i, k) = Empty /\ Cell(rows, i + 1, k) = Empty
    BY <1>0, <1>2 DEF Cell
  <2>3. \A i, k \in Nat \ {0} : Cell(rows', i, k) = IF i < r THEN Cell(rows, i, k) ELSE Cell(rows, i + 1, k)
    BY <2>1, <2>2
  <2>4. Promise!RemoveRow(r)
    BY <1>0, <2>3, IsRemoveRow DEF BufferInv
  <2>5. Promise!Change(call')
    BY <2>4 DEF Promise!Change, Making
  <2>6. ~Promise!Fatal(call')
    BY <1>0, <1>2
  <2> QED
    BY <1>0, <1>2, <2>5, <2>6, Changing
<1>3. CASE rows # <<>> /\ r <= Len(rows) /\ Len(rows) = 1 /\ remove_last_row
  <2>1. r = 1
    BY <1>0, <1>3
  <2>2. status' = "freed" /\ UNCHANGED <<rows, delims, file>>
    BY <1>3 DEF remove_last_row
  <2> QED
    BY <1>0, <1>3, <2>1, <2>2, Ending
<1>4. CASE /\ rows # <<>> /\ r <= Len(rows) /\ Len(rows) > 1
           /\ Becomes([i \in 1 .. Len(rows) - 1 |-> IF i < r THEN rows[i] ELSE rows[i + 1]])
  <2> DEFINE b == [i \in 1 .. Len(rows) - 1 |-> IF i < r THEN rows[i] ELSE rows[i + 1]]
  <2>1. rows \in Grids /\ r \in 1 .. Len(rows)
    BY <1>4, RowsAreGrid, GridFacts, Window DEF BufferInv
  <2>2. /\ b \in Grids
        /\ \A i, k \in Nat \ {0} : Cell(b, i, k) = IF i < r THEN Cell(rows, i, k) ELSE Cell(rows, i + 1, k)
    BY <1>4, <2>1, RowLeftOut
  <2>3. Becomes(b)
    BY <1>4
  <2> HIDE DEF b
  <2>4. rows' = b
    BY <2>2, <2>3, Becoming
  <2>5. Promise!RemoveRow(r)
    BY <2>1, <2>2, <2>4, IsRemoveRow DEF BufferInv
  <2>6. Promise!Change(call')
    BY <2>5 DEF Promise!Change, Making
  <2>7. ~Promise!Fatal(call')
    BY <1>0, <1>4
  <2> QED
    BY <2>2, <2>3, <2>6, <2>7, Changing
<1> QED
  BY <1>1, <1>2, <1>3, <1>4 DEF RemoveRow

(* csv_load is Overlay with the rows of the file.                           *)
LEMMA LoadStep ==
    ASSUME BufferInv, Load, Making("load")
    PROVE  BufferInv' /\ SheetStep
<1> DEFINE f == Loaded(file, delims.field, delims.text)
           b == LaidOver(rows, f)
<1>1. f \in Sheets
  BY LoadedAssumption DEF BufferInv, TypeOK
<1>2. f \in Grids
  <2> HIDE DEF f
  <2>1. Len(f) \in Nat /\ f \in [1 .. Len(f) -> RowsOfText]
    BY <1>1, SeqIsFunction DEF Sheets, RowsOfText
  <2> QED
    BY <1>1, <2>1, FunctionIsSeq DEF Grids, Sheets
<1>3. Becomes(b)
  BY DEF Load
<1> HIDE DEF f
<1>4. /\ b \in Grids
      /\ \A i, k \in Nat \ {0} : Cell(b, i, k) =
             IF i <= Len(f) /\ k <= Len(f[i]) THEN f[i][k] ELSE Cell(rows, i, k)
  BY <1>2, RowsAreGrid, FileLaidOver DEF BufferInv
<1> HIDE DEF b
<1>5. rows' = b
  BY <1>3, <1>4, Becoming
<1>6. Promise!Overlay(f)
  BY <1>4, <1>5, IsOverlay
<1>7. Promise!Change(call')
  BY <1>6 DEF Promise!Change, Making, f
<1>8. ~Promise!Fatal(call')
  BY FatalCalls DEF Making
<1> QED
  BY <1>3, <1>4, <1>7, <1>8, Changing

(* The delimiters are no matter of the cells.                               *)
LEMMA DelimStep ==
    ASSUME BufferInv, NEW op \in {"set_field_delim", "set_text_delim"}, Making(op),
           UNCHANGED <<rows, file, status>>, delims' \in [field : FieldDelims, text : TextDelims]
    PROVE  BufferInv' /\ SheetStep
<1>1. BufferInv'
  BY DEF BufferInv, TypeOK, Tight
<1>2. CellsOf(rows)' = CellsOf(rows)
  BY CellsNext, CellsShown
<1>3. ~Promise!Fatal(call')
  BY FatalCalls DEF Making
<1>4. Promise!Change(call')
  BY <1>2 DEF Promise!Change, Making
<1>5. Promise!Call
  BY <1>3, <1>4 DEF Promise!Call, Making, Returned, Promise!Returned
<1> QED
  BY <1>1, <1>5 DEF SheetStep, Promise!Next, Making

------------------------------------------------------------------------------
(* The buffer of a new program fits and is the empty sheet.                 *)
LEMMA Starting == ASSUME Init PROVE BufferInv /\ Promise!Init
<1>1. rows = <<>> /\ Len(rows) = 0
  <2>1. rows = <<>>
    BY DEF Init
  <2> QED
    BY <2>1
<1>2. TypeOK
  <2>1. rows \in Seq(Seq(Text)) /\ DOMAIN rows = 1 .. 0
    BY <1>1
  <2>2. \A r \in DOMAIN rows : rows[r] # <<>>
    BY <2>1
  <2>3. delims \in [field : FieldDelims, text : TextDelims]
    BY DelimsAssumption DEF Init
  <2> QED
    BY <2>1, <2>2, <2>3 DEF Init, TypeOK
<1>3. Tight(rows)
  BY <1>1, SizeAssumption DEF Tight
<1>4. CellsOf(rows) = [i \in Row |-> [k \in Column |-> Empty]]
  <2>1. \A i \in Row, k \in Column : Cell(rows, i, k) = Empty
    BY <1>1, Window DEF Cell
  <2> QED
    BY <2>1, CellsShown
<1>5. Promise!Init
  BY <1>4 DEF Init, Promise!Init, Promise!Rows, Promise!Columns, Row, Column, Returned, Promise!Returned
<1> QED
  BY <1>2, <1>3, <1>5 DEF BufferInv

(* Every call is the step of the sheet that it should be.                   *)
LEMMA Calling == ASSUME BufferInv, status = "ok", call = Returned, Call PROVE BufferInv' /\ SheetStep
<1>1. CASE Load /\ call' = [op |-> "load"]
  BY <1>1, LoadStep DEF Making
<1>2. CASE Edit
  <2>1. ASSUME NEW r \in Row, NEW c \in Column, NEW t \in Texts, SetField(r, c, t),
               call' = [op |-> "set_field", r |-> r, c |-> c, t |-> t]
        PROVE  BufferInv' /\ SheetStep
    BY <2>1, TextAssumption, SetFieldStep DEF Making
  <2>2. ASSUME NEW r \in Row, NEW c \in Column, NEW t \in Texts, InsertField(r, c, t),
               call' = [op |-> "insert_field", r |-> r, c |-> c, t |-> t]
        PROVE  BufferInv' /\ SheetStep
    BY <2>2, TextAssumption, InsertFieldStep DEF Making
  <2>3. ASSUME NEW r \in Row, NEW c \in Column, ClearField(r, c),
               call' = [op |-> "clear_field", r |-> r, c |-> c]
        PROVE  BufferInv' /\ SheetStep
    BY <2>3, ClearFieldStep DEF Making
  <2>4. ASSUME NEW r \in Row, NEW c \in Column, RemoveField(r, c),
               call' = [op |-> "remove_field", r |-> r, c |-> c]
        PROVE  BufferInv' /\ SheetStep
    BY <2>4, RemoveFieldStep DEF Making
  <2>5. ASSUME NEW d \in Row, NEW s \in Row, NEW dc \in Column, NEW sc \in Column, CopyField(d, dc, s, sc),
               call' = [op |-> "copy_field", r |-> d, c |-> dc, s |-> s, sc |-> sc]
        PROVE  BufferInv' /\ SheetStep
    BY <2>5, CopyFieldStep DEF Making
  <2>6. ASSUME NEW r \in Row, ClearRow(r), call' = [op |-> "clear_row", r |-> r]
        PROVE  BufferInv' /\ SheetStep
    BY <2>6, ClearRowStep DEF Making
  <2>7. ASSUME NEW r \in Row, RemoveRow(r), call' = [op |-> "remove_row", r |-> r]
        PROVE  BufferInv' /\ SheetStep
    BY <2>7, RemoveRowStep DEF Making
  <2>8. ASSUME NEW d \in Row, NEW s \in Row, CopyRow(d, s), call' = [op |-> "copy_row", r |-> d, s |-> s]
        PROVE  BufferInv' /\ SheetStep
    BY <2>8, CopyRowStep DEF Making
  <2>9. CASE Measure /\ call' = [op |-> "measure"]
    <3>1. Making("measure") /\ Promise!Fatal(call')
      BY <2>9, FatalCalls DEF Making, Measure
    <3> QED
      BY <2>9, <3>1, Ending DEF Measure, Undefined
  <2> QED
    BY <1>2, <2>1, <2>2, <2>3, <2>4, <2>5, <2>6, <2>7, <2>8, <2>9 DEF Edit
<1>3. ASSUME NEW d \in FieldDelims, SetFieldDelim(d), call' = [op |-> "set_field_delim"]
      PROVE  BufferInv' /\ SheetStep
  BY <1>3, DelimStep DEF SetFieldDelim, Making, BufferInv, TypeOK
<1>4. ASSUME NEW d \in TextDelims, SetTextDelim(d), call' = [op |-> "set_text_delim"]
      PROVE  BufferInv' /\ SheetStep
  BY <1>4, DelimStep DEF SetTextDelim, Making, BufferInv, TypeOK
<1>5. CASE Destroy /\ call' = [op |-> "destroy_buffer"]
  <2>1. Making("destroy_buffer") /\ Promise!Fatal(call')
    BY <1>5, FatalCalls DEF Making
  <2> QED
    BY <1>5, <2>1, Ending DEF Destroy
<1> QED
  BY <1>1, <1>2, <1>3, <1>4, <1>5 DEF Call

(* Every step is one of the sheet or leaves it alone.                       *)
LEMMA Stepping == ASSUME BufferInv, [Next]_vars PROVE BufferInv' /\ SheetStep
<1>1. CASE UNCHANGED vars
  <2>1. BufferInv'
    BY <1>1 DEF vars, BufferInv, TypeOK, Tight
  <2>2. UNCHANGED Promise!vars
    BY <1>1, CellsNext, CellsShown DEF vars, Promise!vars
  <2> QED
    BY <2>1, <2>2 DEF SheetStep
<1>2. CASE Next
  BY <1>2, Calling, Returning DEF Next
<1> QED
  BY <1>1, <1>2

(* Whatever is called in whatever order, the rows stay rows of text of which *)
(* none is empty, as remove_last_field of csv.c relies on.                  *)
THEOREM TypeCorrect == Spec => []TypeOK
<1>1. Init => BufferInv
  BY Starting
<1>2. BufferInv /\ [Next]_vars => BufferInv'
  BY Stepping
<1>3. BufferInv => TypeOK
  BY DEF BufferInv
<1> QED
  BY <1>1, <1>2, <1>3, PTL DEF Spec

(* Each call of csv.h does to the cells what its comment says, at the cell  *)
(* and with the text it is given, however the buffer has grown and shrunk   *)
(* before, and ends the sheet exactly when it reaches outside the rows,     *)
(* removes or clears the only one, or destroys the buffer.                  *)
THEOREM SheetKept == Spec => KeepsSheet
<1>1. Init => BufferInv /\ Promise!Init
  BY Starting
<1>2. BufferInv /\ [Next]_vars => BufferInv' /\ [Promise!Next]_(Promise!vars)
  BY Stepping DEF SheetStep
<1> QED
  BY <1>1, <1>2, PTL DEF Spec, KeepsSheet, Promise!Spec
================================================================================

-------------------------------- MODULE CsvFile --------------------------------
(***************************************************************************)
(* The texts of subject/csv/csv.c: what read_next_field and csv_load make   *)
(* of a file, and the file csv_save writes.  A file is a sequence of        *)
(* characters; 255, which a char of -1 takes for the end, is not one.       *)
(***************************************************************************)
EXTENDS Integers, Sequences, FiniteSets, SequencesExt

Newline == "n"
EOF     == "eof"
ReadAt(f, p) == IF p <= Len(f) THEN f[p] ELSE EOF

\* read_next_field up to the end of the text: [text, p] with p the position of
\* the character that ended it.  An opening text delimiter sets the length c to
\* 0 and leaves tmp as it is until the next character is added.
RECURSIVE Scan(_, _, _, _, _, _)
Scan(f, p, d, tmp, c, mode) ==
    LET ch   == ReadAt(f, p)
        done == [text |-> tmp, p |-> p]
        add(m) == Scan(f, p + 1, d, Append(SubSeq(tmp, 1, c), ch), c + 1, m)
    IN  CASE ch = EOF -> done
          [] mode = "plain" /\ ch = d.text -> Scan(f, p + 1, d, tmp, 0, "text")
          [] mode = "plain" /\ ch # d.text /\ ch \in {d.field, Newline} -> done
          [] mode = "plain" /\ ch \notin {EOF, d.text, d.field, Newline} -> add("plain")
          [] mode = "text" /\ ch = d.text -> Scan(f, p + 1, d, tmp, c, "esc")
          [] mode = "text" /\ ch \notin {EOF, d.text} -> add("text")
          [] mode = "esc" /\ ch = d.text -> add("text")
          [] mode = "esc" /\ ch \notin {EOF, d.text} -> done

\* Mutant: no look behind a newline.
Skipped_NoPeek(f, p, d) ==
    LET ends == {q \in p .. Len(f) : f[q] \in {d.field, Newline}}
        q    == CHOOSE q \in ends : \A r \in ends : q <= r
    IN  IF ends = {} THEN [next |-> 2, p |-> Len(f) + 1]
        ELSE [p |-> q + 1, next |-> IF f[q] = d.field THEN 0 ELSE 1]

\* The rest of read_next_field: skip to the delimiter, peek behind a newline.
\* next is 0 (same row), 1 (a new row) or 2 (nothing follows).
Skipped(f, p, d) ==
    LET ends == {q \in p .. Len(f) : f[q] \in {d.field, Newline}}
        q    == CHOOSE q \in ends : \A r \in ends : q <= r
    IN  IF ends = {} THEN [next |-> 2, p |-> Len(f) + 1]
        ELSE [p |-> q + 1,
              next |-> IF f[q] = d.field THEN 0 ELSE IF q < Len(f) THEN 1 ELSE 2]

\* csv_load, into an empty buffer, from position p.
RECURSIVE RowsFrom(_, _, _, _, _)
RowsFrom(f, p, d, done, row) ==
    LET read == Scan(f, p, d, <<>>, 0, "plain")
        skip == Skipped(f, read.p, d)
        full == Append(row, read.text)
    IN  CASE skip.next = 0 -> RowsFrom(f, skip.p, d, done, full)
          [] skip.next = 1 -> RowsFrom(f, skip.p, d, Append(done, full), <<>>)
          [] skip.next = 2 -> Append(done, full)

Parsed(f, fd, td) == RowsFrom(f, 1, [field |-> fd, text |-> td], <<>>, <<>>)

------------------------------------------------------------------------------

\* Mutant: the text delimiters of a text are not doubled.
Quoted_NoEscape(t, d) ==
    IF \E i \in DOMAIN t : t[i] \in {d.text, d.field, Newline} THEN <<d.text>> \o t \o <<d.text>> ELSE t

\* A text with a special character is quoted, its text delimiters doubled.
Quoted(t, d) ==
    IF \E i \in DOMAIN t : t[i] \in {d.text, d.field, Newline}
    THEN <<d.text>> \o FlattenSeq([i \in DOMAIN t |-> IF t[i] = d.text THEN <<t[i], t[i]>> ELSE <<t[i]>>])
         \o <<d.text>>
    ELSE t

\* The parts with sep between them.
Joined(parts, sep) ==
    FlattenSeq([i \in DOMAIN parts |-> IF i < Len(parts) THEN Append(parts[i], sep) ELSE parts[i]])

Saved(b, d) ==
    Joined([r \in DOMAIN b |-> Joined([c \in DOMAIN b[r] |-> Quoted(b[r][c], d)], d.field)], Newline)

------------------------------------------------------------------------------
\* The reading csv.h describes for files without text delimiters.

Cuts(s, sep) == SetToSortSeq({i \in DOMAIN s : s[i] = sep} \cup {0, Len(s) + 1}, LAMBDA i, j : i < j)
Split(s, sep) ==
    LET cuts == Cuts(s, sep)
    IN  [k \in 1 .. Len(cuts) - 1 |-> SubSeq(s, cuts[k] + 1, cuts[k + 1] - 1)]

Lines(f) == IF f # <<>> /\ Last(f) = Newline THEN Split(Front(f), Newline) ELSE Split(f, Newline)
PlainReading(f, d) == LET lines == Lines(f) IN [r \in DOMAIN lines |-> Split(lines[r], d.field)]
================================================================================

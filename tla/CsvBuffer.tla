------------------------------- MODULE CsvBuffer -------------------------------
(***************************************************************************)
(* subject/csv/csv.c, one of the traced programs: the buffer and the calls  *)
(* of csv.h that change it.  Row and entry n of the code are n + 1 here.    *)
(* Allocations succeed, except realloc to size 0, which frees and returns   *)
(* NULL.  A call that reads or writes outside the buffer is undefined, and  *)
(* nothing is said of what follows it.                                      *)
(***************************************************************************)
EXTENDS Integers, Sequences, SequencesExt

CONSTANTS
    Char, Text, Empty, \* the texts, sequences of characters; Empty is one
    Texts,             \* those the caller sets
    Files,             \* what inp.0.txt may hold
    Edited,            \* bound: the files whose buffer is edited after loading
    Loaded(_, _, _),   \* the rows csv_load reads from a file, under the delimiters
    FieldDelims, TextDelims,      \* the delimiters the caller may choose
    MaxRows, MaxWidth, MaxFields  \* bounds: on rows, fields of a row, all fields

Sheets == {b \in Seq(Seq(Text)) : b # <<>> /\ \A r \in DOMAIN b : b[r] # <<>>}

ASSUME TextAssumption == Texts \subseteq Text /\ Empty \in Text
ASSUME LoadedAssumption ==
    \A f \in Files, fd \in FieldDelims, td \in TextDelims : Loaded(f, fd, td) \in Sheets
ASSUME DelimsAssumption == "," \in FieldDelims /\ "\"" \in TextDelims
ASSUME SizeAssumption == MaxRows \in Nat /\ MaxWidth \in Nat

VARIABLES
    rows,       \* buffer->field: a sequence of rows, each a sequence of texts
    delims,     \* buffer->field_delim and text_delim
    file,       \* inp.0.txt
    status,     \* "ok", "freed" (arrays freed and still pointed at),
                \* "undefined" (outside the buffer), "destroyed"
    call        \* ghost: the call of csv.h just made, with its arguments;
                \* Returned before the next one

vars == <<rows, delims, file, status, call>>

Returned == [op |-> "returned"]

Blank == <<Empty>>  \* append_row has append_field put one field into a row

Extended(s, n, x) == [i \in 1 .. (IF n > Len(s) THEN n ELSE Len(s)) |-> IF i <= Len(s) THEN s[i] ELSE x]
Width(r) == Len(rows[r])
Exists(r, c) == r <= Len(rows) /\ c <= Width(r)

FieldsOf(b) == FoldLeft(LAMBDA n, row : n + Len(row), 0, b)
Fits(b) == /\ Len(b) <= MaxRows
           /\ \A r \in DOMAIN b : Len(b[r]) <= MaxWidth
           /\ FieldsOf(b) <= MaxFields

\* csv_create_buffer
Init ==
    /\ rows = <<>>
    /\ delims = [field |-> ",", text |-> "\""]
    /\ file \in Files
    /\ status = "ok"
    /\ call = Returned

Becomes(b) == Fits(b) /\ rows' = b /\ UNCHANGED <<delims, file, status>>
Undefined  == status' = "undefined" /\ UNCHANGED <<rows, delims, file>>

------------------------------------------------------------------------------

\* Mutant: the only field is removed like any other.
remove_last_field_Any(row) == SubSeq(row, 1, Len(row) - 1)

\* The row without its last field; the only one is cleared instead.
remove_last_field(row) == IF Len(row) = 1 THEN Blank ELSE SubSeq(row, 1, Len(row) - 1)

\* The last row goes, unless it is the only one: then realloc frees the arrays,
\* returns NULL and the call fails.
remove_last_row ==
    \/ Len(rows) > 1 /\ Becomes(SubSeq(rows, 1, Len(rows) - 1))
    \/ Len(rows) = 1 /\ status' = "freed" /\ UNCHANGED <<rows, delims, file>>

Stored(b, r, c, t) ==
    LET padded == Extended(b, r, Blank)
    IN  [padded EXCEPT ![r] = [Extended(@, c, Empty) EXCEPT ![c] = t]]

SetField(r, c, t) == Becomes(Stored(rows, r, c, t))

Inserted(row, c, t) ==
    [k \in 1 .. Len(row) + 1 |-> CASE k < c -> row[k] [] k = c -> t [] k > c -> row[k - 1]]

\* The guard compares with rows - 1, which has no meaning for an empty buffer.
InsertField(r, c, t) ==
    \/ rows = <<>> /\ Undefined
    \/ rows # <<>> /\ ~Exists(r, c) /\ SetField(r, c, t)
    \/ rows # <<>> /\ Exists(r, c) /\ Becomes([rows EXCEPT ![r] = Inserted(@, c, t)])

\* The last field of a row is removed, unless it is the first as well.
ClearField(r, c) ==
    IF ~Exists(r, c) THEN Becomes(rows)
    ELSE Becomes([rows EXCEPT ![r] = IF c = Len(@) THEN remove_last_field(@) ELSE [@ EXCEPT ![c] = Empty]])

Removed(row, c) == [k \in 1 .. Len(row) |-> IF k >= c /\ k < Len(row) THEN row[k + 1] ELSE row[k]]

RemoveField(r, c) ==
    \/ rows = <<>> /\ Undefined
    \/ rows # <<>> /\ ~Exists(r, c) /\ Becomes(rows)
    \/ rows # <<>> /\ Exists(r, c) /\ Becomes([rows EXCEPT ![r] = remove_last_field(Removed(@, c))])

\* No index is checked.
CopyField(d, dc, s, sc) ==
    IF Exists(d, dc) /\ Exists(s, sc) THEN Becomes([rows EXCEPT ![d][dc] = rows[s][sc]]) ELSE Undefined

ClearRow(r) ==
    CASE r = Len(rows) -> remove_last_row
      [] r < Len(rows) -> Becomes([rows EXCEPT ![r] = Blank])
      [] OTHER         -> Undefined

\* A row that does not exist is copied as an empty one.  In an empty buffer the
\* guard is void again: the rows up to d are appended first, then s is read.
CopyRow(d, s) ==
    \/ rows = <<>> /\ s > d /\ Undefined
    \/ rows # <<>> /\ s > Len(rows) /\ ClearRow(d)
    \/ /\ s <= IF rows = <<>> THEN d ELSE Len(rows)
       /\ LET padded == Extended(rows, d, Blank) IN Becomes([padded EXCEPT ![d] = padded[s]])

\* The rows below move up by csv_copy_row, then the last one goes.
RemoveRow(r) ==
    \/ rows = <<>> /\ Undefined
    \/ rows # <<>> /\ r > Len(rows) /\ Becomes(rows)
    \/ rows # <<>> /\ r <= Len(rows) /\ Len(rows) > 1 /\ Becomes([i \in 1 .. Len(rows) - 1 |-> IF i < r THEN rows[i] ELSE rows[i + 1]])
    \/ rows # <<>> /\ r <= Len(rows) /\ Len(rows) = 1 /\ remove_last_row

\* csv_get_width and csv_get_field_length change nothing, but their guards are
\* void in an empty buffer as well.
Measure == rows = <<>> /\ Undefined

\* Mutant: the fields are read into the row that was appended.
LaidOver_AtEnd(b, f) == b \o f

\* Every row of the file appends one row to the buffer, and its fields are read
\* into row number i of the buffer, which is another one if there were rows.
LaidOver(b, f) ==
    [r \in 1 .. Len(b) + Len(f) |->
        LET row == Extended(b, r, Blank)[r]
        IN  IF r <= Len(f)
            THEN [c \in 1 .. Len(row) + Len(f[r]) - 1 |->
                     IF c <= Len(f[r]) THEN f[r][c] ELSE IF c <= Len(row) THEN row[c] ELSE Empty]
            ELSE row]

Load == Becomes(LaidOver(rows, Loaded(file, delims.field, delims.text)))

SetFieldDelim(d) == delims' = [delims EXCEPT !.field = d] /\ UNCHANGED <<rows, file, status>>
SetTextDelim(d)  == delims' = [delims EXCEPT !.text = d] /\ UNCHANGED <<rows, file, status>>
Destroy          == status' = "destroyed" /\ UNCHANGED <<rows, delims, file>>

Row    == 1 .. MaxRows
Column == 1 .. MaxWidth

Edit ==
    \/ \E r \in Row, c \in Column, t \in Texts :
          \/ SetField(r, c, t)    /\ call' = [op |-> "set_field", r |-> r, c |-> c, t |-> t]
          \/ InsertField(r, c, t) /\ call' = [op |-> "insert_field", r |-> r, c |-> c, t |-> t]
    \/ \E r \in Row, c \in Column :
          \/ ClearField(r, c)  /\ call' = [op |-> "clear_field", r |-> r, c |-> c]
          \/ RemoveField(r, c) /\ call' = [op |-> "remove_field", r |-> r, c |-> c]
    \/ \E d, s \in Row, dc, sc \in Column :
          CopyField(d, dc, s, sc) /\ call' = [op |-> "copy_field", r |-> d, c |-> dc, s |-> s, sc |-> sc]
    \/ \E r \in Row :
          \/ ClearRow(r)  /\ call' = [op |-> "clear_row", r |-> r]
          \/ RemoveRow(r) /\ call' = [op |-> "remove_row", r |-> r]
    \/ \E d, s \in Row : CopyRow(d, s) /\ call' = [op |-> "copy_row", r |-> d, s |-> s]
    \/ Measure /\ call' = [op |-> "measure"]

Call ==
    \/ Load /\ call' = [op |-> "load"]
    \/ file \in Edited /\ Edit
    \/ \E d \in FieldDelims : SetFieldDelim(d) /\ call' = [op |-> "set_field_delim"]
    \/ \E d \in TextDelims : SetTextDelim(d) /\ call' = [op |-> "set_text_delim"]
    \/ Destroy /\ call' = [op |-> "destroy_buffer"]

Return == call # Returned /\ call' = Returned /\ UNCHANGED <<rows, delims, file, status>>

Next == status = "ok" /\ \/ call = Returned /\ Call
                         \/ Return

Spec == Init /\ [][Next]_vars

------------------------------------------------------------------------------
CellsOf(b) == [r \in Row |-> [c \in Column |->
                  IF r <= Len(b) /\ c <= Len(b[r]) THEN b[r][c] ELSE Empty]]

Promise == INSTANCE Sheet WITH
    Height <- MaxRows, Breadth <- MaxWidth,
    cells <- CellsOf(rows), usable <- status = "ok",
    content <- Loaded(file, delims.field, delims.text),
    widths <- [r \in 1 .. Len(rows) |-> Len(rows[r])]

\* Each call of csv.h does to the cells of the sheet what its comment says, at
\* the cell and with the text it is given, whatever rows and widths the buffer
\* has; and it makes the buffer useless exactly when it reaches outside the
\* rows, removes or clears the only one, or destroys the buffer.
KeepsSheet == Promise!Spec

\* Every row has at least one field, as remove_last_field relies on, and all
\* of it is text (the arrays of csv.c never get out of step).
TypeOK ==
    /\ rows \in Seq(Seq(Text)) /\ \A r \in DOMAIN rows : rows[r] # <<>>
    /\ delims \in [field : FieldDelims, text : TextDelims]
    /\ file \in Files
    /\ status \in {"ok", "freed", "undefined", "destroyed"}
================================================================================

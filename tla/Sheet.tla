--------------------------------- MODULE Sheet ---------------------------------
(***************************************************************************)
(* What a CSV buffer promises: a sheet in which every cell has a text, most *)
(* of them the empty one, and what each call of csv.h does to its cells.    *)
(* How the rows grow and shrink is no part of it; they tell only which      *)
(* calls end the sheet, because they reach outside the rows or remove the   *)
(* only one.                                                                *)
(***************************************************************************)
EXTENDS Integers, Sequences

CONSTANTS
    Height, Breadth, \* bounds: the window of the sheet that is looked at
    Empty            \* the text of most cells

VARIABLES
    cells,
    usable,
    call,    \* the call just made and its arguments; Returned before the next one
    content, \* input: the rows of texts that the file to load holds
    widths   \* input: the width of every row

vars == <<cells, usable, call>>

Rows    == 1 .. Height
Columns == 1 .. Breadth

Returned == [op |-> "returned"]

\* Beyond the window every cell is empty.
At(r, c) == IF r \in Rows /\ c \in Columns THEN cells[r][c] ELSE Empty

Init == cells = [r \in Rows |-> [c \in Columns |-> Empty]] /\ usable = TRUE /\ call = Returned

Put(r, c, t) == cells' = [cells EXCEPT ![r][c] = t]

\* What is at c and to the right of it moves one to the right.
Insert(r, c, t) ==
    cells' = [cells EXCEPT ![r] =
        [k \in Columns |-> CASE k < c -> cells[r][k] [] k = c -> t [] k > c -> cells[r][k - 1]]]

Remove(r, c) ==
    cells' = [cells EXCEPT ![r] = [k \in Columns |-> IF k < c THEN cells[r][k] ELSE At(r, k + 1)]]

CopyRow(d, s)  == cells' = [cells EXCEPT ![d] = [k \in Columns |-> At(s, k)]]
ClearRow(r)    == cells' = [cells EXCEPT ![r] = [k \in Columns |-> Empty]]
RemoveRow(r)   == cells' = [i \in Rows |-> IF i < r THEN cells[i] ELSE [k \in Columns |-> At(i + 1, k)]]

\* The rows of a file are laid over the first rows.
Overlay(f) ==
    cells' = [r \in Rows |-> [c \in Columns |->
                  IF r <= Len(f) /\ c <= Len(f[r]) THEN f[r][c] ELSE cells[r][c]]]

\* Every call makes its own change, at the cell and with the text it is given.
Change(k) ==
    CASE k.op = "set_field"    -> Put(k.r, k.c, k.t)
      [] k.op = "insert_field" -> Insert(k.r, k.c, k.t)
      [] k.op = "clear_field"  -> Put(k.r, k.c, Empty)
      [] k.op = "remove_field" -> Remove(k.r, k.c)
      [] k.op = "copy_field"   -> Put(k.r, k.c, At(k.s, k.sc))
      [] k.op = "clear_row"    -> ClearRow(k.r)
      [] k.op = "copy_row"     -> CopyRow(k.r, k.s)
      [] k.op = "remove_row"   -> RemoveRow(k.r)
      [] k.op = "load"         -> Overlay(content)
      [] OTHER                 -> UNCHANGED cells

Has(r, c) == r <= Len(widths) /\ c <= widths[r]

\* To clear a row that does not exist, or the only one.
NoRowToClear(r) == r > Len(widths) \/ Len(widths) = 1

\* The calls that end the sheet.
Fatal(k) ==
    CASE k.op \in {"insert_field", "remove_field", "measure"} -> widths = <<>>
      [] k.op = "copy_field" -> ~Has(k.r, k.c) \/ ~Has(k.s, k.sc)
      [] k.op = "clear_row"  -> NoRowToClear(k.r)
      [] k.op = "copy_row"   -> IF widths = <<>> THEN k.s > k.r ELSE k.s > Len(widths) /\ NoRowToClear(k.r)
      [] k.op = "remove_row" -> widths = <<>> \/ (k.r = 1 /\ Len(widths) = 1)
      [] OTHER               -> k.op = "destroy_buffer"

Call   == /\ call = Returned /\ call' # Returned
          /\ IF Fatal(call') THEN usable' = FALSE ELSE usable' = TRUE /\ Change(call')
Return == call # Returned /\ call' = Returned /\ UNCHANGED <<cells, usable>>

Next == usable /\ (Call \/ Return)

Spec == Init /\ [][Next]_vars
================================================================================

------------------------------- MODULE CsvSession -------------------------------
(* The buffer of CsvBuffer on the files of CsvFile, and what csv.h promises of    *)
(* loading and saving.                                                         *)
EXTENDS CsvBuffer, CsvFile

\* csv_save writes what csv_load reads back as the same cells, while the two
\* delimiters differ.  (Rows may differ: an empty last row is not read again.)
SaveLoads ==
    status = "ok" /\ delims.field # delims.text =>
        LET back == Parsed(Saved(rows, delims), delims.field, delims.text)
        IN  Len(back) <= Len(rows) + 1 /\ CellsOf(back) = CellsOf(rows)

\* csv_load reads a file without text delimiters as lines of fields (csv.h, at
\* read_next_field): one empty cell between two delimiters and after a last one.
PlainFilesSplit ==
    [][Load /\ rows = <<>> /\ (\A i \in DOMAIN file : file[i] # delims.text)
           => rows' = PlainReading(file, delims)]_vars
================================================================================

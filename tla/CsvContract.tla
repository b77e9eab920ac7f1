------------------------------ MODULE CsvContract ------------------------------
(***************************************************************************)
(* parse_csv: the rows of a CSV file are read once, in order; the first    *)
(* row that breaks the contract rejects the file.  The header is valid.    *)
(*                                                                         *)
(* A row is reduced to what the contract tells apart: its instrument, its  *)
(* timestamp, whether its volume is zero, and its defects, named by the    *)
(* codes they are reported with.                                           *)
(***************************************************************************)
EXTENDS Integers, SequencesExt

\* The checks of _parse_row, in the order they are made.
Checks == <<"malformed_row", "invalid_instrument_identifier",
            "invalid_timestamp", "invalid_decimal",
            "invalid_ohlc_relationship", "invalid_volume">>

NoRow == 0
Accepted == [code |-> "none", row |-> NoRow]
Violation(code, row) == [code |-> code, row |-> row]

\* The code a row is refused with for itself, "none" for a sound one.
ParseRow(row) ==
    LET found == {n \in DOMAIN Checks : Checks[n] \in row.defects}
    IN  IF found = {} THEN "none" ELSE Checks[Min(found)]

\* Nothing is read: the keys seen, the last time of each instrument, and how
\* many rows were read.
Unread == [seen |-> {}, last |-> <<>>, count |-> 0, verdict |-> Accepted]

\* Mutant: the last time of all instruments is kept instead of each one's.
UniqueAndSortedGlobally(reader, row) ==
    IF <<row.instrument, row.time>> \in reader.seen THEN "duplicate_row"
    ELSE IF \E i \in DOMAIN reader.last : row.time <= reader.last[i]
    THEN "unsorted_rows" ELSE "none"

\* _require_unique_and_sorted.
UniqueAndSorted(reader, row) ==
    IF <<row.instrument, row.time>> \in reader.seen THEN "duplicate_row"
    ELSE IF /\ row.instrument \in DOMAIN reader.last
            /\ row.time <= reader.last[row.instrument]
    THEN "unsorted_rows" ELSE "none"

\* One turn of the loop; the header is row 1 of the file.
ReadRow(reader, row) ==
    LET number == reader.count + 2
        code == IF ParseRow(row) # "none" THEN ParseRow(row)
                ELSE UniqueAndSorted(reader, row)
    IN  IF reader.verdict # Accepted THEN reader
        ELSE IF code # "none"
        THEN [reader EXCEPT !.verdict = Violation(code, number)]
        ELSE [seen |-> reader.seen \cup {<<row.instrument, row.time>>},
              last |-> [i \in DOMAIN reader.last \cup {row.instrument} |->
                           IF i = row.instrument THEN row.time
                           ELSE reader.last[i]],
              count |-> reader.count + 1,
              verdict |-> Accepted]

\* The loop: what is known after each number of rows.
Readers(rows) ==
    LET reader[n \in 0 .. Len(rows)] ==
            IF n = 0 THEN Unread ELSE ReadRow(reader[n - 1], rows[n])
    IN  reader

\* The violation a file is rejected for, Accepted for a file that has none.
ParseCsv(rows) ==
    IF rows = <<>> THEN Violation("empty_file", NoRow)
    ELSE Readers(rows)[Len(rows)].verdict
================================================================================

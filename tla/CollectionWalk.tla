---------------------------- MODULE CollectionWalk ----------------------------
(***************************************************************************)
(* Paging through a collection (runs, datasets, strategies, optimizations) *)
(* to its end, as its page in the browser does with the button Next.  The  *)
(* endpoint answers with two statements, a COUNT and a SELECT with LIMIT   *)
(* and OFFSET, neither in a transaction, while rows are inserted.          *)
(*                                                                         *)
(* A row is its place in the order of the SELECT: created_at_utc, then the *)
(* identifier.  Creation reads the clock before it inserts and identifiers *)
(* are random, so that a row may be inserted before another one.  No row   *)
(* is deleted.                                                             *)
(***************************************************************************)
EXTENDS Integers, FiniteSets, Sequences

\* ORDER BY, LIMIT and OFFSET.
PageAt(table, limit, offset) ==
    {row \in table : Cardinality({r \in table : r <= row})
                         \in offset + 1 .. offset + limit}

\* Mutant: the last page counts as reached one row early.
HasNextEarly(limit, offset, total) == offset + limit + 1 < total

\* Next is enabled (the total is from the COUNT).
HasNext(limit, offset, total) == offset + limit < total

\* One request of the walk and, if there is a next page, the click that follows
\* it.  The controls are there only under a list that is not empty.
Turn(walk, limit, counted, selected) ==
    LET shown == PageAt(selected, limit, walk.offset) IN
    IF ~walk.more THEN walk
    ELSE [pages  |-> Append(walk.pages, shown),
          offset |-> walk.offset + limit,
          more   |-> /\ shown # {}
                     /\ HasNext(limit, walk.offset, Cardinality(counted))]

\* The first page is asked for when the collection is opened.
Opened == [pages |-> <<>>, offset |-> 0, more |-> TRUE]

\* The walk whose statements found the tables of reads, two for each request.
Walk(limit, reads) ==
    LET walk[n \in 0 .. Len(reads) \div 2] ==
            IF n = 0 THEN Opened
            ELSE Turn(walk[n - 1], limit, reads[2 * n - 1], reads[2 * n])
    IN  walk[Len(reads) \div 2]
================================================================================

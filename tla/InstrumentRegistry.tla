-------------------------- MODULE InstrumentRegistry --------------------------
(***************************************************************************)
(* Which instrument an identifier means, and since when: the aliases of    *)
(* instruments (POST /instruments/{id}/aliases), the mappings of a         *)
(* dataset's identifiers (POST /datasets/{id}/instrument-mappings), and    *)
(* the snapshot of bars that a run resolves through the mappings.          *)
(*                                                                         *)
(* Both endpoints read the rows that could overlap with the new one and    *)
(* then insert it.  The reads and the insert are separate statements on    *)
(* separate connections, and the database has no constraint on ranges.     *)
(*                                                                         *)
(* A scope is what the overlap check groups by: a symbol on an exchange,   *)
(* or an identifier within a dataset.  The mappings of one dataset are     *)
(* modelled, since no statement looks at two of them; the dataset is there *)
(* before its first mapping is asked for, so the check that it exists is   *)
(* left out.                                                               *)
(***************************************************************************)
EXTENDS Integers, Sequences, FiniteSets

CONSTANTS
    Threads,
    Instruments,    \* instrument identifiers, created or still to be created
    Symbols,        \* scopes of aliases
    Identifiers,    \* scopes of mappings: the dataset's source identifiers
    LastDay,        \* bound on the calendar: days are 1 .. LastDay
    MaxRows         \* bound on the aliases and mappings that are stored

ASSUME ScopesAssumption == Symbols \cap Identifiers = {}
ASSUME BoundsAssumption == LastDay \in Nat \ {0} /\ MaxRows \in Nat

VARIABLES
    instruments,    \* the table of instruments
    rows,           \* the tables of aliases and of mappings, oldest row first
    pc,
    request,        \* what the thread was asked to store
    answer,         \* the last answer of the thread
    seen,           \* history: the number of rows when the thread read them
    checked         \* history: the same for the request of each stored row

history == <<seen, checked>>
vars == <<instruments, rows, pc, request, answer, history>>

--------------------------------------------------------------------------------
(* Values *)

Days == 1 .. LastDay
\* An open end; date.max is later than any day.
OpenEnd == LastDay + 1
Scopes == Symbols \cup Identifiers

\* A request is not validated until the row is built, so its range may be
\* reversed.
Requests == [scope : Scopes, instrument : Instruments,
             from : Days, to : Days \cup {OpenEnd}]
WellFormed(row) == row.from <= row.to
Rows == {row \in Requests : WellFormed(row)}

NoRequest == [scope |-> "none"]

Answers == {"none", "created", "not_found", "conflict", "error"}

TypeOK ==
    /\ instruments \subseteq Instruments
    /\ rows \in Seq(Rows) /\ Len(rows) <= MaxRows
    /\ \A i \in DOMAIN rows : rows[i].instrument \in instruments
    /\ pc \in [Threads -> {"idle", "get_instrument", "find", "create"}]
    /\ request \in [Threads -> Requests \cup {NoRequest}]
    /\ answer \in [Threads -> Answers]
    /\ seen \in [Threads -> 0 .. Len(rows)]
    /\ checked \in Seq(0 .. Len(rows)) /\ Len(checked) = Len(rows)

\* Mutant: the day on which one range ends and the other begins is not shared.
OverlapExclusive(a, b) == a.from < b.to /\ b.from < a.to

\* date_ranges_overlap.
DateRangesOverlap(a, b) == a.from <= b.to /\ b.from <= a.to

\* Mutant: the rows of every scope are asked.
OverlappingAnywhere(row) == {i \in DOMAIN rows : DateRangesOverlap(row, rows[i])}

\* find_overlapping, of the alias and of the mapping repository.
Overlapping(row) ==
    {i \in DOMAIN rows : /\ rows[i].scope = row.scope
                         /\ DateRangesOverlap(row, rows[i])}

--------------------------------------------------------------------------------
(* The endpoints *)

CreateInstrument ==
    /\ \E i \in Instruments \ instruments : instruments' = instruments \cup {i}
    /\ UNCHANGED <<rows, pc, request, answer, history>>

PostRow(t) ==
    /\ pc[t] = "idle"
    /\ request' \in {[request EXCEPT ![t] = row] : row \in Requests}
    /\ pc' = [pc EXCEPT ![t] = "get_instrument"]
    /\ answer' = [answer EXCEPT ![t] = "none"]
    /\ UNCHANGED <<instruments, rows, history>>

Reply(t, what) ==
    /\ answer' = [answer EXCEPT ![t] = what]
    /\ pc' = [pc EXCEPT ![t] = "idle"]
    /\ request' = [request EXCEPT ![t] = NoRequest]
    /\ seen' = [seen EXCEPT ![t] = 0]

GetInstrument(t) ==
    /\ pc[t] = "get_instrument"
    /\ \/ /\ request[t].instrument \in instruments
          /\ pc' = [pc EXCEPT ![t] = "find"]
          /\ UNCHANGED <<request, answer, seen>>
       \/ /\ request[t].instrument \notin instruments
          /\ Reply(t, "not_found")
    /\ UNCHANGED <<instruments, rows, checked>>

FindOverlapping(t) ==
    /\ pc[t] = "find"
    /\ \/ /\ Overlapping(request[t]) = {}
          /\ pc' = [pc EXCEPT ![t] = "create"]
          /\ seen' = [seen EXCEPT ![t] = Len(rows)]
          /\ UNCHANGED <<request, answer>>
       \/ /\ Overlapping(request[t]) # {}
          /\ Reply(t, "conflict")
    /\ UNCHANGED <<instruments, rows, checked>>

\* The row is built, which fails for a reversed range, and inserted.
CreateRow(t) ==
    /\ pc[t] = "create" /\ Len(rows) < MaxRows
    /\ \/ /\ WellFormed(request[t])
          /\ rows' = Append(rows, request[t])
          /\ checked' = Append(checked, seen[t])
          /\ Reply(t, "created")
       \/ /\ ~WellFormed(request[t])
          /\ Reply(t, "error")
          /\ UNCHANGED <<rows, checked>>
    /\ UNCHANGED instruments

Init ==
    /\ instruments = {}
    /\ rows = <<>>
    /\ pc = [t \in Threads |-> "idle"]
    /\ request = [t \in Threads |-> NoRequest]
    /\ answer = [t \in Threads |-> "none"]
    /\ seen = [t \in Threads |-> 0]
    /\ checked = <<>>

Handle(t) == GetInstrument(t) \/ FindOverlapping(t) \/ CreateRow(t)

Next ==
    \/ CreateInstrument
    \/ \E t \in Threads : PostRow(t) \/ Handle(t)

Spec == Init /\ [][Next]_vars

--------------------------------------------------------------------------------
(* The snapshot of a run *)

Mappings == {i \in DOMAIN rows : rows[i].scope \in Identifiers}

\* The mappings of an instrument that touch the period (get_snapshot).
Candidates(instrument, period) ==
    {i \in Mappings : /\ rows[i].instrument = instrument
                      /\ DateRangesOverlap(rows[i], period)}

\* ORDER BY effective_from LIMIT 1: of equal ones any may come first.
Resolutions(instrument, period) ==
    LET touching == Candidates(instrument, period) IN
    {rows[i].scope : i \in {i \in touching :
        \A j \in touching : rows[i].from <= rows[j].from}}

Periods == {p \in [from : Days, to : Days] : p.from <= p.to}

\* Every identifier has a bar on every day; the snapshot is the days of the
\* period, of the identifier that was resolved.
Snapshot(identifier, period) ==
    {[identifier |-> identifier, day |-> d] : d \in period.from .. period.to}

--------------------------------------------------------------------------------
(* Properties *)

\* The instrument that a scope means on a day, one for each row that says so.
Meanings(scope, day) ==
    {i \in DOMAIN rows : /\ rows[i].scope = scope
                         /\ rows[i].from <= day /\ day <= rows[i].to}

\* INSTRUMENT_AND_CORPORATE_ACTION_CONTRACT.md wants the ranges of a symbol on
\* an exchange not to overlap.  What the endpoints ensure is this: if two rows
\* mean something for a scope on the same day, the older one was stored between
\* the read and the insert of the request for the younger one.  Requests that
\* come one after the other give every scope at most one meaning a day.
OneMeaningPerDay ==
    \A scope \in Scopes, day \in Days \cup {OpenEnd} :
        \A i, j \in Meanings(scope, day) : i < j => i > checked[j]

\* A range is refused only for a day that it would share with a stored row of
\* its scope: what is still free can be stored.
RefusalsAreJustified ==
    [][\A t \in Threads :
           pc[t] = "find" /\ answer'[t] = "conflict" /\ WellFormed(request[t]) =>
               \E day \in Days \cup {OpenEnd} :
                   /\ request[t].from <= day /\ day <= request[t].to
                   /\ Meanings(request[t].scope, day) # {}]_vars

\* INSTRUMENT_AND_CORPORATE_ACTION_CONTRACT.md: "A mapping resolves an
\* identifier only for its applicable effective date range."  Every bar of a
\* snapshot lies in a mapping of its identifier to the run's instrument.
SnapshotsRespectMappings ==
    \A instrument \in Instruments, p \in Periods :
        \A identifier \in Resolutions(instrument, p) :
            \A bar \in Snapshot(identifier, p) :
                \E i \in Meanings(bar.identifier, bar.day) :
                    rows[i].instrument = instrument
================================================================================

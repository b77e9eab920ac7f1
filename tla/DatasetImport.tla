---------------------------- MODULE DatasetImport ----------------------------
(***************************************************************************)
(* POST /datasets:import-from-yahoo-finance: prices are fetched from Yahoo *)
(* Finance, written as CSV, parsed again by the contract every import has  *)
(* to meet, and stored as a dataset with its bars, its import record and   *)
(* its validation events in one transaction.                               *)
(*                                                                         *)
(* The check whether the same content was imported before is one statement *)
(* on a connection of its own, long before that transaction.  A request    *)
(* may be repeated while the first is still running: the client gives up   *)
(* after thirty seconds, and no bound is set on what follows the fetch.    *)
(***************************************************************************)
EXTENDS CsvContract

CONSTANTS
    Threads,
    Payloads,       \* what Yahoo may answer: entries in the order of time
    Identifiers,    \* which kinds of instrument identifiers are requested
    Names,          \* which kinds of dataset names
    MaxRows,        \* stands for MAX_UPLOAD_BYTES
    MaxPosts,       \* bound on the number of requests
    Faults          \* what may go wrong: a subset of {"crash", "database"}

\* A trading day has two instants: Yahoo ends an unfinished day with an entry
\* of the present moment.  An entry is empty, sound, or has prices that break
\* the contract or that the columns of the database cannot hold.
Entries == [instant : Nat, kind : {"null", "bar", "zero_volume",
                                   "bad_prices", "unstorable"}]

ASSUME PayloadsAssumption == Payloads \subseteq Seq(Entries)
ASSUME IdentifiersAssumption == Identifiers \subseteq {"plain", "blank", "comma"}
ASSUME NamesAssumption == Names \subseteq {"plain", "blank"}
ASSUME BoundsAssumption == MaxRows \in Nat /\ MaxPosts \in Nat

VARIABLES
    datasets,   \* the tables, by the number of the request that wrote a row:
    bars,       \* the rows of the bars of the dataset
    imports,
    events,     \* the validation events of the import
    posts,      \* how many requests were made
    declared,   \* history: requests with allow_reimport
    known,      \* history: the datasets there were when a request was admitted
    pc,
    request,    \* what the thread works on
    answer      \* the last answer of the thread

tables == <<datasets, bars, imports, events>>
history == <<declared, known>>
vars == <<tables, posts, history, pc, request, answer>>

--------------------------------------------------------------------------------
(* Values *)

NoDataset == 0
Ids == 1 .. MaxPosts
NoRequest == [id |-> 0, rows |-> <<>>, name |-> "plain"]
NoAnswer == [code |-> 0, id |-> 0, dataset |-> NoDataset, failure |-> Accepted]

Day(entry) == entry.instant \div 2

\* The entries with prices, in their order.
Traded(payload) ==
    LET traded[n \in 0 .. Len(payload)] ==
            IF n = 0 THEN <<>>
            ELSE IF payload[n].kind = "null" THEN traded[n - 1]
            ELSE Append(traded[n - 1], payload[n])
    IN  traded[Len(payload)]

\* The row that an entry is written as, and read as again: an identifier with
\* a comma adds a column, a blank one is refused by the contract.
RowOf(entry, identifier) ==
    [instrument |-> identifier,
     time |-> Day(entry),
     zeroVolume |-> entry.kind = "zero_volume",
     storable |-> entry.kind # "unstorable",
     defects |->
        {"malformed_row" : x \in {"comma"} \cap {identifier}}
        \cup {"invalid_instrument_identifier" :
                  x \in {"blank"} \cap {identifier}}
        \cup {"invalid_ohlc_relationship" :
                  x \in {"bad_prices"} \cap {entry.kind}}]

\* fetch_daily_ohlcv_csv.
CsvOf(payload, identifier) ==
    [n \in 1 .. Len(Traded(payload)) |-> RowOf(Traded(payload)[n], identifier)]

DaysOf(rows) == {rows[n].time : n \in DOMAIN rows}

\* _build_warning_events; the adjustment policy of Yahoo's prices is known.
WarningsOf(rows) ==
    IF \E n \in DOMAIN rows : rows[n].zeroVolume
    THEN <<[severity |-> "warning", code |-> "zero_volume_bars"]>> ELSE <<>>

StatusOf(rows) == IF WarningsOf(rows) = <<>> THEN "valid" ELSE "warning"

\* The accepted imports of a content (find_by_content_checksum).
Earlier(rows) == {i \in DOMAIN imports : imports[i].content = rows
                                         /\ imports[i].dataset # NoDataset}

With(table, id, row) ==
    [i \in DOMAIN table \cup {id} |-> IF i = id THEN row ELSE table[i]]

TypeOK ==
    /\ DOMAIN datasets \cup DOMAIN imports \subseteq Ids
    /\ \A i \in DOMAIN datasets : datasets[i].status \in {"valid", "warning"}
    /\ \A i \in DOMAIN bars : bars[i] \subseteq Nat \X BOOLEAN
    /\ \A i \in DOMAIN imports :
          imports[i].status \in {"valid", "warning", "rejected"}
    /\ posts \in 0 .. MaxPosts
    /\ declared \subseteq Ids
    /\ DOMAIN known \subseteq Ids
    /\ pc \in [Threads -> {"idle", "fetch", "validate", "find", "parse",
                           "raised"}]
    /\ \A t \in Threads : request[t].id \in 0 .. posts
    /\ \A t \in Threads :
          answer[t].code \in {0, 201, 409, 422, 500, 502}

--------------------------------------------------------------------------------
(* The steps of a request *)

PostImport(t) ==
    /\ pc[t] = "idle" /\ posts < MaxPosts
    /\ posts' = posts + 1
    /\ \E allow \in BOOLEAN, name \in Names :
          /\ declared' = IF allow THEN declared \cup {posts'} ELSE declared
          /\ request' = [request EXCEPT ![t] = [id |-> posts', rows |-> <<>>,
                                                name |-> name]]
    /\ pc' = [pc EXCEPT ![t] = "fetch"]
    /\ answer' = [answer EXCEPT ![t] = NoAnswer]
    /\ UNCHANGED <<tables, known>>

Answer(t, code, dataset, failure) ==
    /\ answer' = [answer EXCEPT ![t] = [code |-> code, id |-> request[t].id,
                                        dataset |-> dataset,
                                        failure |-> failure]]
    /\ pc' = [pc EXCEPT ![t] = "idle"]
    /\ request' = [request EXCEPT ![t] = NoRequest]

\* Yahoo is unreachable, or has no entry with prices; or the provider raises
\* what the endpoint does not catch, such as a timeout while it reads or a
\* payload of another shape.
FetchFailed(t) ==
    /\ pc[t] = "fetch"
    /\ \E code \in {502, 500} : Answer(t, code, NoDataset, Accepted)
    /\ UNCHANGED <<tables, posts, history>>

Fetch(t) ==
    /\ pc[t] = "fetch"
    /\ \E payload \in Payloads, identifier \in Identifiers :
          /\ Traded(payload) # <<>>
          /\ request' = [request EXCEPT ![t].rows = CsvOf(payload, identifier)]
    /\ pc' = [pc EXCEPT ![t] = "validate"]
    /\ UNCHANGED <<tables, posts, history, answer>>

\* _reject: the import and its error event in one transaction.
Reject(t, verdict) ==
    LET id == request[t].id IN
    /\ imports' = With(imports, id,
           [dataset |-> NoDataset, content |-> request[t].rows,
            status |-> "rejected", rowCount |-> 0, failure |-> verdict])
    /\ events' = With(events, id, <<[severity |-> "error",
                                     code |-> verdict.code]>>)
    /\ Answer(t, 422, NoDataset, verdict)
    /\ UNCHANGED <<datasets, bars, posts, history>>

RejectMetadata(t) ==
    /\ pc[t] = "validate"
    /\ request[t].name = "blank"
    /\ Reject(t, Violation("invalid_metadata", NoRow))

RejectSize(t) ==
    /\ pc[t] = "validate"
    /\ request[t].name # "blank" /\ Len(request[t].rows) > MaxRows
    /\ Reject(t, Violation("upload_too_large", NoRow))

ValidateRequest(t) ==
    /\ pc[t] = "validate"
    /\ request[t].name # "blank" /\ Len(request[t].rows) <= MaxRows
    /\ pc' = [pc EXCEPT ![t] = IF request[t].id \in declared THEN "parse"
                               ELSE "find"]
    /\ UNCHANGED <<tables, posts, history, request, answer>>

\* The content may be imported.
Admit(t) ==
    /\ pc' = [pc EXCEPT ![t] = "parse"]
    /\ known' = With(known, request[t].id, DOMAIN datasets)
    /\ UNCHANGED <<request, answer>>

\* Mutant: rejected imports of the content are found as well.
FindExistingAny(t) ==
    LET found == {i \in DOMAIN imports : imports[i].content = request[t].rows}
    IN  /\ pc[t] = "find"
        /\ \/ found = {} /\ Admit(t)
           \/ /\ \E i \in found : Answer(t, 409, imports[i].dataset, Accepted)
              /\ UNCHANGED known
        /\ UNCHANGED <<tables, posts, declared>>

\* Mutant: the content is not looked up.
FindExistingNothing(t) ==
    /\ pc[t] = "find"
    /\ Admit(t)
    /\ UNCHANGED <<tables, posts, declared>>

\* Of several imports one is named (the code takes the one started last).
FindExisting(t) ==
    LET found == Earlier(request[t].rows) IN
    /\ pc[t] = "find"
    /\ \/ found = {} /\ Admit(t)
       \/ /\ \E i \in found : Answer(t, 409, imports[i].dataset, Accepted)
          /\ UNCHANGED known
    /\ UNCHANGED <<tables, posts, declared>>

RejectContent(t) ==
    /\ pc[t] = "parse"
    /\ ParseCsv(request[t].rows) # Accepted
    /\ Reject(t, ParseCsv(request[t].rows))

\* What persist_accepted_import writes for a request.
DatasetRow(rows) ==
    [content |-> rows, status |-> StatusOf(rows),
     from |-> Min(DaysOf(rows)), to |-> Max(DaysOf(rows))]

BarRows(rows) == {<<rows[n].time, rows[n].zeroVolume>> : n \in DOMAIN rows}

\* Mutant: without a transaction the dataset may be left with nothing else.
PersistInPieces(t) ==
    LET id == request[t].id
        rows == request[t].rows
    IN  /\ pc[t] = "parse"
        /\ ParseCsv(rows) = Accepted
        /\ datasets' = With(datasets, id, DatasetRow(rows))
        /\ bars' = With(bars, id, BarRows(rows))
        /\ pc' = [pc EXCEPT ![t] = "raised"]
        /\ UNCHANGED <<imports, events, posts, history, request, answer>>

PersistAccepted(t) ==
    LET id == request[t].id
        rows == request[t].rows
    IN  /\ pc[t] = "parse"
        /\ ParseCsv(rows) = Accepted
        /\ \A n \in DOMAIN rows : rows[n].storable
        /\ datasets' = With(datasets, id, DatasetRow(rows))
        /\ bars' = With(bars, id, BarRows(rows))
        /\ imports' = With(imports, id,
               [dataset |-> id, content |-> rows, status |-> StatusOf(rows),
                rowCount |-> Len(rows), failure |-> Accepted])
        /\ events' = With(events, id, WarningsOf(rows))
        /\ Answer(t, 201, id, Accepted)
        /\ UNCHANGED <<posts, history>>

\* A column cannot hold a price: ROLLBACK, and the exception is not handled.
PersistFailed(t) ==
    /\ pc[t] = "parse"
    /\ ParseCsv(request[t].rows) = Accepted
    /\ \E n \in DOMAIN request[t].rows : ~request[t].rows[n].storable
    /\ pc' = [pc EXCEPT ![t] = "raised"]
    /\ UNCHANGED <<tables, posts, history, request, answer>>

\* A statement or a transaction of the repositories raises and is rolled back.
DatabaseError(t) ==
    /\ "database" \in Faults
    /\ pc[t] \in {"validate", "find", "parse"}
    /\ pc' = [pc EXCEPT ![t] = "raised"]
    /\ UNCHANGED <<tables, posts, history, request, answer>>

AnswerError(t) ==
    /\ pc[t] = "raised"
    /\ Answer(t, 500, NoDataset, Accepted)
    /\ UNCHANGED <<tables, posts, history>>

Crash ==
    /\ "crash" \in Faults
    /\ pc' = [t \in Threads |-> "idle"]
    /\ request' = [t \in Threads |-> NoRequest]
    /\ answer' = [t \in Threads |-> NoAnswer]
    /\ UNCHANGED <<tables, posts, history>>

Init ==
    /\ datasets = <<>> /\ bars = <<>> /\ imports = <<>> /\ events = <<>>
    /\ posts = 0
    /\ declared = {}
    /\ known = <<>>
    /\ pc = [t \in Threads |-> "idle"]
    /\ request = [t \in Threads |-> NoRequest]
    /\ answer = [t \in Threads |-> NoAnswer]

Handle(t) ==
    \/ FetchFailed(t) \/ Fetch(t)
    \/ RejectMetadata(t) \/ RejectSize(t) \/ ValidateRequest(t)
    \/ FindExisting(t)
    \/ RejectContent(t) \/ PersistAccepted(t) \/ PersistFailed(t)
    \/ DatabaseError(t) \/ AnswerError(t)

Next ==
    \/ \E t \in Threads : PostImport(t) \/ Handle(t)
    \/ Crash

Spec == Init /\ [][Next]_vars

--------------------------------------------------------------------------------
(* Properties *)

\* Whatever fails, the tables tell one story about a request: a dataset has one
\* bar for each row of its content and for nothing else, at distinct times
\* within its coverage, whose ends both have a bar; exactly one import record,
\* of the same content, status and count; and it is marked "warning" when one
\* of its bars has no volume.  A rejected import has an error event and neither
\* a dataset nor bars.
ImportsAreWhole ==
    /\ DOMAIN bars = DOMAIN datasets
    /\ DOMAIN events = DOMAIN imports
    /\ \A d \in DOMAIN datasets :
          LET times == {bar[1] : bar \in bars[d]}
              silent == \E bar \in bars[d] : bar[2]
          IN  /\ d \in DOMAIN imports
              /\ imports[d].dataset = d
              /\ imports[d].content = datasets[d].content
              /\ imports[d].status = datasets[d].status
              /\ imports[d].rowCount = Cardinality(bars[d])
              /\ Cardinality(times) = Cardinality(bars[d])
              /\ times = DaysOf(datasets[d].content)
              /\ {datasets[d].from, datasets[d].to} \subseteq times
              /\ times \subseteq datasets[d].from .. datasets[d].to
              /\ (datasets[d].status = "warning") = silent
    /\ \A i \in DOMAIN imports \ DOMAIN datasets :
          /\ imports[i].status = "rejected" /\ imports[i].dataset = NoDataset
          /\ Len(events[i]) = 1 /\ events[i][1].severity = "error"

\* What a client is told is so: the dataset of a 201 is the request's own, a
\* 409 names a dataset that is stored, 422 was recorded with the reason that is
\* answered, and after a 500 or 502 nothing of the request is stored.
AnswersAreTrue ==
    \A t \in Threads :
        LET told == answer[t] IN
        CASE told.code = 201 ->
                told.dataset = told.id /\ told.dataset \in DOMAIN datasets
          [] told.code = 409 -> /\ told.dataset \in DOMAIN datasets
                                /\ told.id \notin DOMAIN imports
          [] told.code = 422 -> /\ told.id \in DOMAIN imports \ DOMAIN datasets
                                /\ imports[told.id].failure = told.failure
          [] told.code \in {500, 502} ->
                told.id \notin DOMAIN imports \cup DOMAIN datasets
          [] OTHER -> TRUE

\* TASK-004 wants a new version of imported content "only if the request
\* explicitly allows re-import".  What the service ensures is this: of two
\* datasets with the same content, the request for the one allowed it or was
\* admitted when the other was not stored yet.  Requests that come one after the
\* other never duplicate a dataset undeclared.
ReimportsAreDeclared ==
    \A e \in DOMAIN datasets \ declared :
        \A d \in DOMAIN datasets \ {e} :
            datasets[d].content = datasets[e].content => d \notin known[e]
================================================================================

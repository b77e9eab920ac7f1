----------------------- MODULE InstrumentRegistryProofs -----------------------
(***************************************************************************)
(* Proofs about InstrumentRegistry for any number of requests at once, any *)
(* scopes and any calendar: what the check before the insert ensures of    *)
(* the stored ranges, and that it refuses none without a reason.           *)
(***************************************************************************)
EXTENDS InstrumentRegistry, TLAPS

\* Two rows speak for one scope on one day.
Clash(a, b) == a.scope = b.scope /\ DateRangesOverlap(a, b)

(* What a request under way is, and that it has no answer yet. *)
RequestInv(t) ==
    /\ pc[t] # "idle" => request[t] \in Requests /\ answer[t] = "none"
    /\ pc[t] \in {"find", "create"} => request[t].instrument \in instruments

(* The rows that a request has read do not clash with it. *)
ReadInv(t) ==
    pc[t] = "create" => \A i \in 1 .. seen[t] : ~Clash(request[t], rows[i])

(* The rows that the request of a stored row had read do not clash with it. *)
StoredInv ==
    \A j \in DOMAIN rows : /\ checked[j] < j
                           /\ \A i \in 1 .. checked[j] : ~Clash(rows[j], rows[i])

IInv ==
    /\ TypeOK
    /\ \A t \in Threads : RequestInv(t) /\ ReadInv(t)
    /\ StoredInv

--------------------------------------------------------------------------------
(* Ranges of days *)

LEMMA DaysFacts ==
    /\ LastDay \in Nat /\ LastDay >= 1 /\ OpenEnd = LastDay + 1
    /\ Days = 1 .. LastDay /\ Days \cup {OpenEnd} = 1 .. LastDay + 1
BY BoundsAssumption DEF Days, OpenEnd

\* Two ranges overlap if and only if they have a day in common.
LEMMA OverlapIsACommonDay ==
    ASSUME NEW a \in Requests, NEW b \in Requests, WellFormed(a), WellFormed(b)
    PROVE  DateRangesOverlap(a, b) <=>
              \E day \in Days \cup {OpenEnd} : /\ a.from <= day /\ day <= a.to
                                              /\ b.from <= day /\ day <= b.to
<1>1. /\ a.from \in Days /\ a.to \in Days \cup {OpenEnd}
      /\ b.from \in Days /\ b.to \in Days \cup {OpenEnd}
  BY DEF Requests
<1>2. ASSUME DateRangesOverlap(a, b)
      PROVE  \E day \in Days \cup {OpenEnd} : /\ a.from <= day /\ day <= a.to
                                              /\ b.from <= day /\ day <= b.to
  <2> DEFINE later == IF a.from <= b.from THEN b.from ELSE a.from
  <2>1. /\ later \in Days \cup {OpenEnd}
        /\ a.from <= later /\ later <= a.to /\ b.from <= later /\ later <= b.to
    BY <1>1, <1>2, DaysFacts DEF DateRangesOverlap, WellFormed
  <2> HIDE DEF later
  <2> QED  BY <2>1
<1>3. ASSUME NEW day \in Days \cup {OpenEnd}, a.from <= day, day <= a.to,
             b.from <= day, day <= b.to
      PROVE  DateRangesOverlap(a, b)
  BY <1>1, <1>3, DaysFacts DEF DateRangesOverlap
<1> QED  BY <1>2, <1>3

\* The rows that the check finds are those that clash with the request.
LEMMA OverlappingAreClashes ==
    ASSUME NEW row
    PROVE  Overlapping(row) = {i \in DOMAIN rows : Clash(row, rows[i])}
BY DEF Overlapping, Clash

LEMMA RowsTyped ==
    ASSUME TypeOK
    PROVE  /\ Len(rows) \in Nat /\ DOMAIN rows = 1 .. Len(rows)
           /\ \A i \in 1 .. Len(rows) : rows[i] \in Requests /\ WellFormed(rows[i])
           /\ Len(checked) = Len(rows) /\ DOMAIN checked = 1 .. Len(rows)
           /\ \A i \in 1 .. Len(rows) : checked[i] \in 0 .. Len(rows)
<1>1. rows \in Seq(Rows) /\ checked \in Seq(0 .. Len(rows))
      /\ Len(checked) = Len(rows)
  BY DEF TypeOK
<1>2. \A i \in 1 .. Len(rows) : rows[i] \in Rows
  BY <1>1
<1>3. \A i \in 1 .. Len(rows) : checked[i] \in 0 .. Len(rows)
  <2> DEFINE Counts == 0 .. Len(rows)
  <2>1. checked \in Seq(Counts)
    BY <1>1
  <2> HIDE DEF Counts
  <2>2. \A i \in 1 .. Len(checked) : checked[i] \in Counts
    BY <2>1
  <2> QED  BY <1>1, <2>2 DEF Counts
<1> QED  BY <1>1, <1>2, <1>3 DEF Rows

--------------------------------------------------------------------------------
(* The invariant *)

LEMMA InitIInv ==
    ASSUME Init
    PROVE  IInv
<1>1. TypeOK
  BY BoundsAssumption DEF Init, TypeOK, Answers
<1>2. StoredInv /\ \A t \in Threads : RequestInv(t) /\ ReadInv(t)
  BY DEF Init, StoredInv, RequestInv, ReadInv
<1> QED  BY <1>1, <1>2 DEF IInv

LEMMA CreateInstrumentStep ==
    ASSUME IInv, CreateInstrument
    PROVE  IInv'
<1>1. PICK i \in Instruments \ instruments : instruments' = instruments \cup {i}
  BY DEF CreateInstrument
<1>2. UNCHANGED <<rows, pc, request, answer, seen, checked>>
  BY DEF CreateInstrument, history
<1>3. TypeOK'
  BY <1>1, <1>2 DEF IInv, TypeOK
<1>4. StoredInv' /\ \A t \in Threads : RequestInv(t)' /\ ReadInv(t)'
  BY <1>1, <1>2 DEF IInv, StoredInv, RequestInv, ReadInv
<1> QED  BY <1>3, <1>4 DEF IInv

LEMMA PostRowStep ==
    ASSUME IInv, NEW t \in Threads, PostRow(t)
    PROVE  IInv'
<1>1. PICK row \in Requests : request' = [request EXCEPT ![t] = row]
  BY DEF PostRow
<1>2. /\ pc' = [pc EXCEPT ![t] = "get_instrument"]
      /\ answer' = [answer EXCEPT ![t] = "none"]
      /\ UNCHANGED <<instruments, rows, seen, checked>>
  BY DEF PostRow, history
<1>3. TypeOK'
  BY <1>1, <1>2 DEF IInv, TypeOK, Answers
<1>4. \A u \in Threads : RequestInv(u)' /\ ReadInv(u)'
  BY <1>1, <1>2 DEF IInv, TypeOK, RequestInv, ReadInv
<1>5. StoredInv'
  BY <1>2 DEF IInv, StoredInv
<1> QED  BY <1>3, <1>4, <1>5 DEF IInv

\* A request ends without a row.
LEMMA ReplyStep ==
    ASSUME IInv, NEW t \in Threads, NEW what \in Answers, Reply(t, what),
           UNCHANGED <<instruments, rows, checked>>
    PROVE  IInv'
<1>1. TypeOK'
  BY DEF IInv, TypeOK, Reply
<1>2. \A u \in Threads : RequestInv(u)' /\ ReadInv(u)'
  BY DEF IInv, TypeOK, Reply, RequestInv, ReadInv
<1>3. StoredInv'
  BY DEF IInv, StoredInv
<1> QED  BY <1>1, <1>2, <1>3 DEF IInv

LEMMA GetInstrumentStep ==
    ASSUME IInv, NEW t \in Threads, GetInstrument(t)
    PROVE  IInv'
<1>1. CASE /\ request[t].instrument \in instruments
           /\ pc' = [pc EXCEPT ![t] = "find"]
           /\ UNCHANGED <<request, answer, seen>>
  <2>1. UNCHANGED <<instruments, rows, checked>> /\ pc[t] = "get_instrument"
    BY DEF GetInstrument
  <2>2. TypeOK'
    BY <1>1, <2>1 DEF IInv, TypeOK
  <2>3. \A u \in Threads : RequestInv(u)' /\ ReadInv(u)'
    BY <1>1, <2>1 DEF IInv, TypeOK, RequestInv, ReadInv
  <2>4. StoredInv'
    BY <2>1 DEF IInv, StoredInv
  <2> QED  BY <2>2, <2>3, <2>4 DEF IInv
<1>2. CASE Reply(t, "not_found")
  BY <1>2, ReplyStep DEF GetInstrument, Answers
<1> QED  BY <1>1, <1>2 DEF GetInstrument

LEMMA FindOverlappingStep ==
    ASSUME IInv, NEW t \in Threads, FindOverlapping(t)
    PROVE  IInv'
<1>1. CASE /\ Overlapping(request[t]) = {}
           /\ pc' = [pc EXCEPT ![t] = "create"]
           /\ seen' = [seen EXCEPT ![t] = Len(rows)]
           /\ UNCHANGED <<request, answer>>
  <2>1. UNCHANGED <<instruments, rows, checked>> /\ pc[t] = "find"
    BY DEF FindOverlapping
  <2>2. Len(rows) \in Nat /\ DOMAIN rows = 1 .. Len(rows)
    BY RowsTyped DEF IInv
  <2>3. TypeOK'
    BY <1>1, <2>1, <2>2 DEF IInv, TypeOK
  <2>4. \A i \in 1 .. Len(rows) : ~Clash(request[t], rows[i])
    BY <1>1, <2>2, OverlappingAreClashes
  <2>5. \A u \in Threads : RequestInv(u)' /\ ReadInv(u)'
    BY <1>1, <2>1, <2>4 DEF IInv, TypeOK, RequestInv, ReadInv
  <2>6. StoredInv'
    BY <2>1 DEF IInv, StoredInv
  <2> QED  BY <2>3, <2>5, <2>6 DEF IInv
<1>2. CASE Reply(t, "conflict")
  BY <1>2, ReplyStep DEF FindOverlapping, Answers
<1> QED  BY <1>1, <1>2 DEF FindOverlapping

LEMMA CreateRowStep ==
    ASSUME IInv, NEW t \in Threads, CreateRow(t)
    PROVE  IInv'
<1>1. CASE /\ WellFormed(request[t])
           /\ rows' = Append(rows, request[t])
           /\ checked' = Append(checked, seen[t])
           /\ Reply(t, "created")
  <2> DEFINE N == Len(rows)
  <2>1. /\ N \in Nat /\ N < MaxRows /\ MaxRows \in Nat /\ pc[t] = "create"
        /\ DOMAIN rows = 1 .. N /\ DOMAIN checked = 1 .. N /\ Len(checked) = N
        /\ seen[t] \in 0 .. N /\ instruments' = instruments
        /\ request[t] \in Rows /\ request[t].instrument \in instruments
        /\ \A i \in 1 .. seen[t] : ~Clash(request[t], rows[i])
    <3>1. pc[t] = "create" /\ N < MaxRows /\ instruments' = instruments
      BY DEF CreateRow
    <3>2. request[t] \in Requests /\ request[t].instrument \in instruments
          /\ \A i \in 1 .. seen[t] : ~Clash(request[t], rows[i])
      BY <3>1 DEF IInv, RequestInv, ReadInv
    <3> QED  BY <1>1, <3>1, <3>2, RowsTyped, BoundsAssumption DEF IInv, TypeOK, Rows
  <2>2. /\ rows' \in Seq(Rows) /\ Len(rows') = N + 1 /\ DOMAIN rows' = 1 .. N + 1
        /\ rows'[N + 1] = request[t] /\ \A i \in 1 .. N : rows'[i] = rows[i]
    BY <1>1, <2>1 DEF IInv, TypeOK
  <2>3. /\ Len(checked') = N + 1 /\ DOMAIN checked' = 1 .. N + 1
        /\ checked'[N + 1] = seen[t] /\ \A i \in 1 .. N : checked'[i] = checked[i]
        /\ checked' \in Seq(0 .. N + 1)
    <3> DEFINE Counts == 0 .. N
               More == 0 .. N + 1
    <3>1. checked \in Seq(Counts) /\ seen[t] \in Counts
      BY <2>1 DEF IInv, TypeOK
    <3>2. Counts \subseteq More
      BY <2>1
    <3>3. checked \in Seq(More) /\ seen[t] \in More
      <4> HIDE DEF Counts, More
      <4> QED  BY <3>1, <3>2
    <3>4. /\ Len(checked') = N + 1 /\ DOMAIN checked' = 1 .. N + 1
          /\ checked'[N + 1] = seen[t] /\ \A i \in 1 .. N : checked'[i] = checked[i]
          /\ checked' \in Seq(More)
      <4> HIDE DEF Counts, More
      <4> QED  BY <1>1, <2>1, <3>3
    <3> QED  BY <3>4
  <2>4. TypeOK'
    <3>1. seen' \in [Threads -> 0 .. N + 1]
      BY <1>1, <2>1 DEF IInv, TypeOK, Reply
    <3>2. \A i \in DOMAIN rows' : rows'[i].instrument \in instruments'
      <4>1. \A i \in 1 .. N : rows'[i].instrument \in instruments'
        BY <2>1, <2>2, RowsTyped DEF IInv, TypeOK
      <4>2. rows'[N + 1].instrument \in instruments'
        BY <2>1, <2>2
      <4>3. \A i \in 1 .. N + 1 : i \in 1 .. N \/ i = N + 1
        BY <2>1
      <4> QED  BY <2>2, <4>1, <4>2, <4>3
    <3> QED  BY <1>1, <2>1, <2>2, <2>3, <3>1, <3>2
             DEF IInv, TypeOK, Reply, Answers
  <2>5. \A u \in Threads : RequestInv(u)'
    BY <1>1, <2>1 DEF IInv, TypeOK, Reply, RequestInv
  <2>6. \A u \in Threads : ReadInv(u)'
    <3> SUFFICES ASSUME NEW u \in Threads, pc'[u] = "create", NEW i \in 1 .. seen'[u]
                 PROVE  ~Clash(request'[u], rows'[i])
      BY DEF ReadInv
    <3>1. u # t /\ pc[u] = "create" /\ seen'[u] = seen[u] /\ request'[u] = request[u]
      BY <1>1 DEF IInv, TypeOK, Reply
    <3>2. i \in 1 .. N
      BY <2>1, <3>1 DEF IInv, TypeOK
    <3> QED  BY <2>2, <3>1, <3>2 DEF IInv, ReadInv
  <2>7. StoredInv'
    <3>1. ASSUME NEW j \in 1 .. N
          PROVE  /\ checked'[j] < j
                 /\ \A i \in 1 .. checked'[j] : ~Clash(rows'[j], rows'[i])
      <4>1. /\ checked[j] < j /\ checked[j] \in 0 .. N
            /\ \A i \in 1 .. checked[j] : ~Clash(rows[j], rows[i])
        BY <2>1, RowsTyped DEF IInv, StoredInv
      <4>2. \A i \in 1 .. checked[j] : i \in 1 .. N
        BY <2>1, <4>1
      <4> QED  BY <2>2, <2>3, <4>1, <4>2
    <3>2. /\ checked'[N + 1] < N + 1
          /\ \A i \in 1 .. checked'[N + 1] : ~Clash(rows'[N + 1], rows'[i])
      BY <2>1, <2>2, <2>3
    <3> QED  BY <2>1, <2>2, <3>1, <3>2 DEF StoredInv
  <2> QED  BY <2>4, <2>5, <2>6, <2>7 DEF IInv
<1>2. CASE Reply(t, "error") /\ UNCHANGED <<rows, checked>>
  BY <1>2, ReplyStep DEF CreateRow, Answers
<1> QED  BY <1>1, <1>2 DEF CreateRow

LEMMA NextIInv ==
    ASSUME IInv, [Next]_vars
    PROVE  IInv'
<1>1. CASE CreateInstrument
  BY <1>1, CreateInstrumentStep
<1>2. ASSUME NEW t \in Threads, PostRow(t) \/ Handle(t)
      PROVE  IInv'
  BY <1>2, PostRowStep, GetInstrumentStep, FindOverlappingStep, CreateRowStep
     DEF Handle
<1>3. CASE UNCHANGED vars
  <2>1. UNCHANGED <<instruments, rows, pc, request, answer, seen, checked>>
    BY <1>3 DEF vars, history
  <2>2. TypeOK' /\ StoredInv'
    BY <2>1 DEF IInv, TypeOK, StoredInv
  <2>3. \A t \in Threads : RequestInv(t)' /\ ReadInv(t)'
    BY <2>1 DEF IInv, RequestInv, ReadInv
  <2> QED  BY <2>2, <2>3 DEF IInv
<1> QED  BY <1>1, <1>2, <1>3 DEF Next

--------------------------------------------------------------------------------
(* Theorems *)

\* The inductive invariant: what a request has read does not clash with it, nor
\* with the row it becomes.
THEOREM Invariance == Spec => []IInv
BY InitIInv, NextIInv, PTL DEF Spec

\* The type invariant of the registry.
THEOREM TypeCorrect == Spec => []TypeOK
<1>1. IInv => TypeOK
  BY DEF IInv
<1> QED  BY <1>1, Invariance, PTL

LEMMA MeaningsClash ==
    ASSUME TypeOK, NEW scope, NEW day \in Days \cup {OpenEnd},
           NEW i \in Meanings(scope, day), NEW j \in Meanings(scope, day)
    PROVE  Clash(rows[j], rows[i])
<1>1. /\ i \in 1 .. Len(rows) /\ j \in 1 .. Len(rows)
      /\ rows[i].scope = scope /\ rows[j].scope = scope
      /\ rows[i].from <= day /\ day <= rows[i].to
      /\ rows[j].from <= day /\ day <= rows[j].to
  BY RowsTyped DEF Meanings
<1>2. /\ rows[i] \in Requests /\ rows[j] \in Requests
      /\ WellFormed(rows[i]) /\ WellFormed(rows[j])
  BY <1>1, RowsTyped
<1>3. DateRangesOverlap(rows[j], rows[i])
  BY <1>1, <1>2, OverlapIsACommonDay
<1> QED  BY <1>1, <1>3 DEF Clash

\* Two meanings of a scope on one day come only from requests that were under
\* way at the same time.
THEOREM MeaningsAreChecked == Spec => []OneMeaningPerDay
<1>1. ASSUME IInv
      PROVE  OneMeaningPerDay
  <2> SUFFICES ASSUME NEW scope \in Scopes, NEW day \in Days \cup {OpenEnd},
                      NEW i \in Meanings(scope, day),
                      NEW j \in Meanings(scope, day), i < j, ~(i > checked[j])
               PROVE  FALSE
    BY DEF OneMeaningPerDay
  <2>1. TypeOK /\ StoredInv
    BY <1>1 DEF IInv
  <2>2. i \in 1 .. Len(rows) /\ j \in 1 .. Len(rows) /\ Len(rows) \in Nat
        /\ checked[j] \in 0 .. Len(rows)
    BY <2>1, RowsTyped DEF Meanings
  <2>3. i \in 1 .. checked[j]
    BY <2>2
  <2>4. ~Clash(rows[j], rows[i])
    BY <2>1, <2>2, <2>3, RowsTyped DEF StoredInv
  <2> QED  BY <2>1, <2>4, MeaningsClash
<1> QED  BY <1>1, Invariance, PTL

\* A well-formed range is refused for a conflict only if it shares a day with a
\* stored row of its scope.
THEOREM RefusalsJustified == Spec => RefusalsAreJustified
<1> DEFINE Justified ==
      \A t \in Threads :
        pc[t] = "find" /\ answer'[t] = "conflict" /\ WellFormed(request[t]) =>
            \E day \in Days \cup {OpenEnd} :
                /\ request[t].from <= day /\ day <= request[t].to
                /\ Meanings(request[t].scope, day) # {}
<1>1. ASSUME IInv, [Next]_vars
      PROVE  Justified
  <2> SUFFICES ASSUME NEW t \in Threads, pc[t] = "find", answer'[t] = "conflict",
                      WellFormed(request[t])
               PROVE  \E day \in Days \cup {OpenEnd} :
                          /\ request[t].from <= day /\ day <= request[t].to
                          /\ Meanings(request[t].scope, day) # {}
    OBVIOUS
  <2>1. /\ TypeOK /\ answer[t] = "none" /\ request[t] \in Requests
    BY <1>1 DEF IInv, RequestInv
  <2>2. FindOverlapping(t)
    <3>1. ~UNCHANGED vars /\ ~CreateInstrument
      BY <2>1 DEF vars, CreateInstrument
    <3>2. ASSUME NEW u \in Threads, u # t, PostRow(u) \/ Handle(u)
          PROVE  FALSE
      BY <2>1, <3>2 DEF PostRow, Handle, GetInstrument, FindOverlapping,
                        CreateRow, Reply, TypeOK
    <3> QED  BY <1>1, <3>1, <3>2
             DEF Next, PostRow, Handle, GetInstrument, CreateRow
  <2>3. Overlapping(request[t]) # {}
    BY <2>1, <2>2 DEF FindOverlapping
  <2>4. PICK i \in 1 .. Len(rows) : Clash(request[t], rows[i])
    BY <2>1, <2>3, OverlappingAreClashes, RowsTyped
  <2>5. PICK day \in Days \cup {OpenEnd} :
            /\ request[t].from <= day /\ day <= request[t].to
            /\ rows[i].from <= day /\ day <= rows[i].to
    BY <2>1, <2>4, RowsTyped, OverlapIsACommonDay DEF Clash
  <2>6. i \in Meanings(request[t].scope, day)
    BY <2>1, <2>4, <2>5, RowsTyped DEF Meanings, Clash
  <2> QED  BY <2>5, <2>6
<1>2. [][Justified]_vars <=> RefusalsAreJustified
  BY DEF RefusalsAreJustified
<1> HIDE DEF Justified
<1> QED  BY <1>1, <1>2, Invariance, PTL DEF Spec

--------------------------------------------------------------------------------
(* Requests that come one after the other *)

\* Nothing is stored between the read and the insert of a request.
SerialInv(t) ==
    /\ pc[t] = "create" => seen[t] = Len(rows)
    /\ \A j \in DOMAIN rows : checked[j] = j - 1

\* What the contract asks of the ranges, and what the endpoints ensure as long
\* as one request is handled at a time: a scope has at most one meaning a day.
THEOREM SerialRequestsMeanOne ==
    ASSUME NEW t, Threads = {t}
    PROVE  Spec => [](\A scope \in Scopes, day \in Days \cup {OpenEnd} :
                         \A i, j \in Meanings(scope, day) : i = j)
<1>1. Init => SerialInv(t)
  BY DEF Init, SerialInv
<1>2. ASSUME IInv, SerialInv(t), [Next]_vars
      PROVE  SerialInv(t)'
  <2>1. /\ TypeOK /\ DOMAIN rows = 1 .. Len(rows) /\ Len(rows) \in Nat
        /\ Len(checked) = Len(rows)
    BY <1>2, RowsTyped DEF IInv
  <2>2. CASE CreateInstrument \/ UNCHANGED vars
    BY <1>2, <2>2 DEF CreateInstrument, vars, history, SerialInv
  <2>3. CASE PostRow(t)
    BY <1>2, <2>1, <2>3 DEF PostRow, history, SerialInv, TypeOK
  <2>4. CASE GetInstrument(t) \/ FindOverlapping(t)
    BY <1>2, <2>1, <2>4 DEF GetInstrument, FindOverlapping, Reply, SerialInv, TypeOK
  <2>5. CASE CreateRow(t)
    <3>1. pc[t] = "create" /\ pc' = [pc EXCEPT ![t] = "idle"]
      BY <2>5 DEF CreateRow, Reply
    <3>2. CASE rows' = Append(rows, request[t]) /\ checked' = Append(checked, seen[t])
      <4>1. request[t] \in Requests /\ checked \in Seq(0 .. Len(rows))
            /\ rows \in Seq(Rows) /\ seen[t] = Len(rows)
        BY <1>2, <3>1 DEF IInv, RequestInv, TypeOK, SerialInv
      <4>2. /\ DOMAIN rows' = 1 .. Len(rows) + 1
            /\ checked'[Len(rows) + 1] = Len(rows)
            /\ \A j \in 1 .. Len(rows) : checked'[j] = checked[j]
        BY <2>1, <3>2, <4>1
      <4>3. \A j \in 1 .. Len(rows) : checked'[j] = j - 1
        BY <1>2, <2>1, <4>2 DEF SerialInv
      <4>4. \A j \in DOMAIN rows' : checked'[j] = j - 1
        BY <2>1, <4>2, <4>3
      <4>5. pc'[t] # "create"
        BY <2>1, <3>1 DEF TypeOK
      <4> QED  BY <4>4, <4>5 DEF SerialInv
    <3>3. CASE UNCHANGED <<rows, checked>>
      BY <1>2, <2>1, <3>1, <3>3 DEF SerialInv, TypeOK
    <3> QED  BY <2>5, <3>2, <3>3 DEF CreateRow
  <2> QED  BY <1>2, <2>2, <2>3, <2>4, <2>5 DEF Next, Handle
<1>3. ASSUME IInv, SerialInv(t)
      PROVE  \A scope \in Scopes, day \in Days \cup {OpenEnd} :
                 \A i, j \in Meanings(scope, day) : i = j
  <2>1. TypeOK /\ StoredInv
    BY <1>3 DEF IInv
  <2>2. ASSUME NEW scope \in Scopes, NEW day \in Days \cup {OpenEnd},
               NEW i \in Meanings(scope, day), NEW j \in Meanings(scope, day),
               i < j
        PROVE  FALSE
    <3>1. i \in 1 .. Len(rows) /\ j \in 1 .. Len(rows) /\ Len(rows) \in Nat
      BY <2>1, RowsTyped DEF Meanings
    <3>2. i \in 1 .. checked[j]
      BY <1>3, <2>1, <2>2, <3>1, RowsTyped DEF SerialInv
    <3>3. ~Clash(rows[j], rows[i])
      BY <2>1, <3>1, <3>2, RowsTyped DEF StoredInv
    <3> QED  BY <2>1, <3>3, MeaningsClash
  <2>3. ASSUME NEW scope, NEW day
        PROVE  Meanings(scope, day) \subseteq Nat
    BY <2>1, RowsTyped DEF Meanings
  <2> QED  BY <2>2, <2>3
<1> QED  BY <1>1, <1>2, <1>3, Invariance, PTL DEF Spec
===============================================================================

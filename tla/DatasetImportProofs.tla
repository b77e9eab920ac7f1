-------------------------- MODULE DatasetImportProofs --------------------------
(***************************************************************************)
(* Proofs about DatasetImport for any number of threads and requests, any  *)
(* payloads and any combination of faults; and, for files of any length,   *)
(* about the contract that the rows are read by.                           *)
(***************************************************************************)
EXTENDS DatasetImport, TLAPS, FiniteSetTheorems, SequenceTheorems,
        FunctionTheorems, NaturalsInduction, WellFoundedInduction

--------------------------------------------------------------------------------
(* Induction, for a set of numbers: the smallest number outside the set has a
   predecessor. *)

LEMMA NumbersFromZero ==
    ASSUME NEW T, 0 \in T, \A n \in Nat : n \in T => n + 1 \in T
    PROVE  \A n \in Nat : n \in T
<1> SUFFICES ASSUME {n \in Nat : n \notin T} # {} PROVE FALSE
  OBVIOUS
<1> DEFINE S == {n \in Nat : n \notin T}
<1>1. PICK m \in S : \A k \in S : <<k, m>> \notin OpToRel(<, Nat)
  <2>1. S \subseteq Nat /\ S # {}
    OBVIOUS
  <2> HIDE DEF S
  <2> QED  BY <2>1, NatLessThanWellFounded, WFMin
<1>2. m - 1 \in Nat /\ m - 1 < m
  <2>1. m # 0
    OBVIOUS
  <2> QED  BY <2>1
<1>3. <<m - 1, m>> \in OpToRel(<, Nat)
  BY <1>2 DEF OpToRel
<1>4. m - 1 \in T
  BY <1>1, <1>2, <1>3
<1> QED  BY <1>2, <1>4

--------------------------------------------------------------------------------
(* The loops are defined by recursion: functions that satisfy their equations
   exist for every length. *)

ReadersEquation(rows, N, g) ==
    g = [n \in 0 .. N |-> IF n = 0 THEN Unread ELSE ReadRow(g[n - 1], rows[n])]

LEMMA ReadersExist ==
    ASSUME NEW rows, NEW N \in Nat
    PROVE  \E g : ReadersEquation(rows, N, g)
<1> DEFINE T == {k \in Nat : \E g : ReadersEquation(rows, k, g)}
<1>1. 0 \in T
  <2> DEFINE g == [n \in 0 .. 0 |-> Unread]
  <2>1. g = [n \in 0 .. 0 |-> IF n = 0 THEN Unread ELSE ReadRow(g[n - 1], rows[n])]
    OBVIOUS
  <2> QED  BY <2>1 DEF ReadersEquation
<1>2. ASSUME NEW k \in Nat, k \in T
      PROVE  k + 1 \in T
  <2>1. PICK g : g = [n \in 0 .. k |-> IF n = 0 THEN Unread
                                        ELSE ReadRow(g[n - 1], rows[n])]
    BY <1>2 DEF ReadersEquation
  <2> DEFINE h == [n \in 0 .. k + 1 |-> IF n = k + 1 THEN ReadRow(g[k], rows[n])
                                        ELSE g[n]]
  <2>2. /\ \A n \in 0 .. k : h[n] = g[n]
        /\ h[k + 1] = ReadRow(g[k], rows[k + 1])
        /\ h = [n \in 0 .. k + 1 |-> h[n]]
    OBVIOUS
  <2> HIDE DEF h
  <2>3. ASSUME NEW n \in 0 .. k + 1
        PROVE  h[n] = IF n = 0 THEN Unread ELSE ReadRow(h[n - 1], rows[n])
    <3>1. CASE n = 0
      <4>1. 0 \in 0 .. k /\ g[0] = Unread
        BY <2>1
      <4> QED  BY <2>2, <3>1, <4>1
    <3>2. CASE n \in 1 .. k
      <4>1. n - 1 \in 0 .. k /\ n \in 0 .. k /\ n # 0
        BY <3>2
      <4>2. g[n] = ReadRow(g[n - 1], rows[n])
        BY <2>1, <4>1
      <4>3. h[n] = g[n] /\ h[n - 1] = g[n - 1]
        BY <2>2, <4>1
      <4> QED  BY <4>1, <4>2, <4>3
    <3>3. CASE n = k + 1
      <4>1. n - 1 = k /\ k \in 0 .. k /\ n # 0
        BY <3>3
      <4> QED  BY <2>2, <3>3, <4>1
    <3> QED  BY <3>1, <3>2, <3>3
  <2>4. ReadersEquation(rows, k + 1, h)
    BY <2>2, <2>3 DEF ReadersEquation
  <2> QED  BY <2>4
<1> HIDE DEF T
<1>3. N \in T
  BY <1>1, <1>2, NumbersFromZero
<1> QED  BY <1>3 DEF T

\* What the loop of parse_csv knows after each row.
LEMMA ReadersUnfold ==
    ASSUME NEW rows, Len(rows) \in Nat
    PROVE  /\ Readers(rows)[0] = Unread
           /\ \A n \in 1 .. Len(rows) :
                 Readers(rows)[n] = ReadRow(Readers(rows)[n - 1], rows[n])
<1>1. Readers(rows) = CHOOSE g : ReadersEquation(rows, Len(rows), g)
  BY DEF Readers, ReadersEquation
<1>2. ReadersEquation(rows, Len(rows), Readers(rows))
  BY <1>1, ReadersExist
<1>3. DOMAIN Readers(rows) = 0 .. Len(rows)
  BY <1>2 DEF ReadersEquation
<1> QED  BY <1>2, <1>3 DEF ReadersEquation

TradedEquation(payload, N, g) ==
    g = [n \in 0 .. N |-> IF n = 0 THEN <<>>
                          ELSE IF payload[n].kind = "null" THEN g[n - 1]
                          ELSE Append(g[n - 1], payload[n])]

LEMMA TradedExist ==
    ASSUME NEW payload, NEW N \in Nat
    PROVE  \E g : TradedEquation(payload, N, g)
<1> DEFINE T == {k \in Nat : \E g : TradedEquation(payload, k, g)}
           next(was, entry) == IF entry.kind = "null" THEN was ELSE Append(was, entry)
<1>0. \A N1, g : TradedEquation(payload, N1, g) <=>
          g = [n \in 0 .. N1 |-> IF n = 0 THEN <<>> ELSE next(g[n - 1], payload[n])]
  BY DEF TradedEquation
<1> HIDE DEF next
<1>1. 0 \in T
  <2> DEFINE g == [n \in 0 .. 0 |-> <<>>]
  <2>1. g = [n \in 0 .. 0 |-> IF n = 0 THEN <<>> ELSE next(g[n - 1], payload[n])]
    OBVIOUS
  <2> QED  BY <1>0, <2>1
<1>2. ASSUME NEW k \in Nat, k \in T
      PROVE  k + 1 \in T
  <2>1. PICK g : g = [n \in 0 .. k |-> IF n = 0 THEN <<>>
                                        ELSE next(g[n - 1], payload[n])]
    BY <1>0, <1>2
  <2> DEFINE h == [n \in 0 .. k + 1 |-> IF n = k + 1 THEN next(g[k], payload[n])
                                        ELSE g[n]]
  <2>2. /\ \A n \in 0 .. k : h[n] = g[n]
        /\ h[k + 1] = next(g[k], payload[k + 1])
        /\ h = [n \in 0 .. k + 1 |-> h[n]]
    OBVIOUS
  <2> HIDE DEF h
  <2>3. ASSUME NEW n \in 0 .. k + 1
        PROVE  h[n] = IF n = 0 THEN <<>> ELSE next(h[n - 1], payload[n])
    <3>1. CASE n = 0
      <4>1. 0 \in 0 .. k /\ g[0] = <<>>
        BY <2>1
      <4> QED  BY <2>2, <3>1, <4>1
    <3>2. CASE n \in 1 .. k
      <4>1. n - 1 \in 0 .. k /\ n \in 0 .. k /\ n # 0
        BY <3>2
      <4>2. g[n] = next(g[n - 1], payload[n])
        BY <2>1, <4>1
      <4>3. h[n] = g[n] /\ h[n - 1] = g[n - 1]
        BY <2>2, <4>1
      <4> QED  BY <4>1, <4>2, <4>3
    <3>3. CASE n = k + 1
      <4>1. n - 1 = k /\ k \in 0 .. k /\ n # 0
        BY <3>3
      <4> QED  BY <2>2, <3>3, <4>1
    <3> QED  BY <3>1, <3>2, <3>3
  <2>4. TradedEquation(payload, k + 1, h)
    BY <1>0, <2>2, <2>3
  <2> QED  BY <2>4
<1> HIDE DEF T
<1>3. N \in T
  BY <1>1, <1>2, NumbersFromZero
<1> QED  BY <1>3 DEF T

\* What has prices of an answer is a sequence of entries again.
LEMMA TradedIsASequence ==
    ASSUME NEW payload \in Seq(Entries)
    PROVE  Traded(payload) \in Seq(Entries)
<1> DEFINE N == Len(payload)
<1>1. N \in Nat /\ \A n \in 1 .. N : payload[n] \in Entries
  BY ElementOfSeq, LenProperties
<1>2. PICK g : TradedEquation(payload, N, g) /\ Traded(payload) = g[N]
  <2> DEFINE g == CHOOSE g : TradedEquation(payload, N, g)
  <2>1. TradedEquation(payload, N, g)
    BY <1>1, TradedExist
  <2>2. Traded(payload) = g[N]
    BY DEF Traded, TradedEquation
  <2> QED  BY <2>1, <2>2
<1> DEFINE T == {n \in Nat : n <= N => g[n] \in Seq(Entries)}
<1>3. 0 \in T
  BY <1>1, <1>2, EmptySeq DEF TradedEquation
<1>4. ASSUME NEW n \in Nat, n \in T
      PROVE  n + 1 \in T
  <2> SUFFICES ASSUME n + 1 <= N PROVE g[n + 1] \in Seq(Entries)
    OBVIOUS
  <2>1. n + 1 \in 1 .. N /\ n + 1 # 0 /\ (n + 1) - 1 = n /\ n <= N
    BY <1>1
  <2>2. g[n + 1] = IF payload[n + 1].kind = "null" THEN g[n]
                   ELSE Append(g[n], payload[n + 1])
    <3>1. \A m \in 0 .. N : g[m] = IF m = 0 THEN <<>>
                                    ELSE IF payload[m].kind = "null" THEN g[m - 1]
                                    ELSE Append(g[m - 1], payload[m])
      BY <1>2, Zenon DEF TradedEquation
    <3>2. n + 1 \in 0 .. N
      BY <2>1
    <3> QED  BY <2>1, <3>1, <3>2, Zenon
  <2>3. g[n] \in Seq(Entries)
    BY <1>4, <2>1
  <2> QED  BY <1>1, <2>1, <2>2, <2>3, AppendProperties
<1> HIDE DEF T
<1>5. N \in T
  BY <1>1, <1>3, <1>4, NumbersFromZero
<1> QED  BY <1>1, <1>2, <1>5 DEF T

--------------------------------------------------------------------------------
(* Files *)

\* The rows of one instrument; the instruments and the times of a request's file.
IsFile(rows) ==
    /\ Len(rows) \in Nat
    /\ DOMAIN rows = 1 .. Len(rows)
    /\ \A n \in 1 .. Len(rows) : rows[n].time \in Nat /\ rows[n].zeroVolume \in BOOLEAN
    /\ \A m, n \in 1 .. Len(rows) : rows[m].instrument = rows[n].instrument

Increasing(rows) ==
    \A m, n \in 1 .. Len(rows) : m < n => rows[m].time < rows[n].time

LEMMA EmptyFile == IsFile(<<>>)
<1>1. Len(<<>>) = 0 /\ DOMAIN <<>> = {}
  OBVIOUS
<1> QED  BY <1>1 DEF IsFile

\* fetch_daily_ohlcv_csv writes a file of one instrument.
LEMMA FetchedFile ==
    ASSUME NEW payload \in Payloads, NEW identifier
    PROVE  IsFile(CsvOf(payload, identifier))
<1> DEFINE traded == Traded(payload)
           rows == CsvOf(payload, identifier)
<1>1. traded \in Seq(Entries)
  BY PayloadsAssumption, TradedIsASequence
<1>2. Len(traded) \in Nat /\ \A n \in 1 .. Len(traded) : traded[n].instant \in Nat
  <2>1. \A e \in Entries : e.instant \in Nat
    BY DEF Entries
  <2> QED  BY <1>1, <2>1, ElementOfSeq, LenProperties
<1> HIDE DEF traded
<1>3. rows = [n \in 1 .. Len(traded) |-> RowOf(traded[n], identifier)]
  BY DEF CsvOf, traded
<1>4. rows \in Seq({RowOf(traded[n], identifier) : n \in 1 .. Len(traded)})
  <2> DEFINE R == {RowOf(traded[n], identifier) : n \in 1 .. Len(traded)}
  <2>1. rows \in [1 .. Len(traded) -> R]
    BY <1>3
  <2> HIDE DEF R
  <2> QED  BY <1>2, <2>1, SeqDef DEF R
<1>5. Len(rows) = Len(traded)
  <2>1. DOMAIN rows = 1 .. Len(rows) /\ Len(rows) \in Nat
    BY <1>4, LenProperties
  <2>2. DOMAIN rows = 1 .. Len(traded)
    BY <1>3
  <2> QED  BY <1>2, <2>1, <2>2
<1>6. ASSUME NEW n \in 1 .. Len(traded)
      PROVE  /\ rows[n].time \in Nat /\ rows[n].zeroVolume \in BOOLEAN
             /\ rows[n].instrument = identifier
  <2>1. rows[n] = RowOf(traded[n], identifier) /\ traded[n].instant \in Nat
    BY <1>2, <1>3
  <2>2. Day(traded[n]) \in Nat
    BY <2>1 DEF Day
  <2> QED  BY <2>1, <2>2 DEF RowOf
<1> HIDE DEF rows
<1>7. DOMAIN rows = 1 .. Len(rows)
  BY <1>3, <1>5
<1>8. IsFile(rows)
  BY <1>2, <1>5, <1>6, <1>7 DEF IsFile
<1> QED  BY <1>8 DEF rows

\* What is known when the first n rows were accepted.
Read(rows, n, reader) ==
    /\ reader = [seen |-> reader.seen, last |-> reader.last,
                 count |-> reader.count, verdict |-> reader.verdict]
    /\ reader.verdict = Accepted =>
          /\ \A m \in 1 .. n : /\ rows[m].instrument \in DOMAIN reader.last
                               /\ reader.last[rows[m].instrument] \in Nat
                               /\ rows[m].time <= reader.last[rows[m].instrument]
          /\ \A l, m \in 1 .. n : l < m => rows[l].time < rows[m].time

LEMMA ReadOneMore ==
    ASSUME NEW rows, IsFile(rows), NEW n \in Nat, n + 1 <= Len(rows),
           NEW reader, Read(rows, n, reader)
    PROVE  Read(rows, n + 1, ReadRow(reader, rows[n + 1]))
<1> DEFINE row == rows[n + 1]
           more == ReadRow(reader, row)
<1>1. /\ row.time \in Nat
      /\ \A m \in 1 .. n : rows[m].time \in Nat /\ rows[m].instrument = row.instrument
  BY DEF IsFile
<1>2. CASE reader.verdict # Accepted
  BY <1>2 DEF Read, ReadRow
<1>3. CASE reader.verdict = Accepted
  <2> DEFINE code == IF ParseRow(row) # "none" THEN ParseRow(row)
                     ELSE UniqueAndSorted(reader, row)
  <2>1. CASE code # "none"
    <3>1. more = [reader EXCEPT !.verdict = Violation(code, reader.count + 2)]
      BY <1>3, <2>1 DEF ReadRow
    <3>2. /\ more = [seen |-> more.seen, last |-> more.last,
                     count |-> more.count, verdict |-> more.verdict]
          /\ more.verdict = Violation(code, reader.count + 2)
      BY <3>1 DEF Read
    <3>3. more.verdict # Accepted
      BY <2>1, <3>2 DEF Violation, Accepted
    <3> QED  BY <3>2, <3>3 DEF Read
  <2>2. CASE code = "none"
    <3>1. more = [seen |-> reader.seen \cup {<<row.instrument, row.time>>},
                  last |-> [i \in DOMAIN reader.last \cup {row.instrument} |->
                               IF i = row.instrument THEN row.time
                               ELSE reader.last[i]],
                  count |-> reader.count + 1,
                  verdict |-> Accepted]
      BY <1>3, <2>2 DEF ReadRow
    <3>2. UniqueAndSorted(reader, row) = "none"
      BY <2>2
    <3>3. row.instrument \in DOMAIN reader.last => ~(row.time <= reader.last[row.instrument])
      BY <3>2 DEF UniqueAndSorted
    <3>4. \A m \in 1 .. n : rows[m].time < row.time
      BY <1>1, <1>3, <3>3 DEF Read
    <3>5. row.instrument \in DOMAIN more.last /\ more.last[row.instrument] = row.time
      BY <3>1
    <3>6. \A m \in 1 .. n + 1 : m \in 1 .. n \/ m = n + 1
      OBVIOUS
    <3>7. \A l, m \in 1 .. n : l < m => rows[l].time < rows[m].time
      BY <1>3 DEF Read
    <3>8. \A l, m \in 1 .. n + 1 : l < m => rows[l].time < rows[m].time
      BY <3>4, <3>6, <3>7
    <3>9. \A m \in 1 .. n + 1 : rows[m].instrument = row.instrument /\ rows[m].time <= row.time
      BY <1>1, <3>4, <3>6
    <3>10. more = [seen |-> more.seen, last |-> more.last,
                   count |-> more.count, verdict |-> more.verdict]
      BY <3>1
    <3> HIDE DEF more, row
    <3>11. Read(rows, n + 1, more)
      BY <1>1, <3>5, <3>8, <3>9, <3>10 DEF Read
    <3> QED  BY <3>11 DEF more, row
  <2> QED  BY <2>1, <2>2
<1> QED  BY <1>2, <1>3

\* A file of one instrument that the contract accepts has its rows in strictly
\* increasing order of time, however long it is.
LEMMA AcceptedIsIncreasing ==
    ASSUME NEW rows, IsFile(rows), ParseCsv(rows) = Accepted
    PROVE  Len(rows) > 0 /\ Increasing(rows)
<1> DEFINE N == Len(rows)
           T == {n \in Nat : n <= N => Read(rows, n, Readers(rows)[n])}
<1>1. N \in Nat
  BY DEF IsFile
<1>2. 0 \in T
  <2>1. Read(rows, 0, Unread)
    BY DEF Read, Unread
  <2> QED  BY <1>1, <2>1, ReadersUnfold
<1>3. ASSUME NEW n \in Nat, n \in T
      PROVE  n + 1 \in T
  <2> SUFFICES ASSUME n + 1 <= N PROVE Read(rows, n + 1, Readers(rows)[n + 1])
    OBVIOUS
  <2>1. n + 1 \in 1 .. N /\ (n + 1) - 1 = n /\ n <= N
    BY <1>1
  <2>2. Readers(rows)[n + 1] = ReadRow(Readers(rows)[n], rows[n + 1])
    BY <1>1, <2>1, ReadersUnfold
  <2> QED  BY <1>3, <2>1, <2>2, ReadOneMore
<1> HIDE DEF T
<1>4. N \in T
  BY <1>1, <1>2, <1>3, NumbersFromZero
<1>5. rows # <<>>
  BY DEF ParseCsv, Violation, Accepted
<1>6. N > 0
  <2>1. ASSUME N = 0 PROVE FALSE
    <3>1. DOMAIN rows = {}
      BY <2>1 DEF IsFile
    <3> QED  BY <1>5, <3>1
  <2> QED  BY <1>1, <2>1
<1>7. Readers(rows)[N].verdict = Accepted
  BY <1>5 DEF ParseCsv
<1> QED  BY <1>1, <1>4, <1>6, <1>7 DEF T, Read, Increasing

--------------------------------------------------------------------------------
(* What is stored of an accepted file *)

\* There is one element for each number when no two numbers give the same.
LEMMA OneForEach ==
    ASSUME NEW N \in Nat, NEW f, DOMAIN f = 1 .. N, NEW S,
           \A n \in 1 .. N : f[n] \in S, \A x \in S : \E n \in 1 .. N : f[n] = x,
           \A m, n \in 1 .. N : m < n => f[m] # f[n],
           f = [n \in 1 .. N |-> f[n]]
    PROVE  Cardinality(S) = N
<1>1. f \in [1 .. N -> S]
  OBVIOUS
<1>2. \A m, n \in 1 .. N : f[m] = f[n] => m = n
  OBVIOUS
<1>3. f \in Bijection(1 .. N, S)
  BY <1>1, <1>2, Fun_IsBij
<1>4. ExistsBijection(1 .. N, S)
  BY <1>3 DEF ExistsBijection
<1> QED  BY <1>4, FS_CountingElements

LEMMA StoredFile ==
    ASSUME NEW rows, IsFile(rows), Len(rows) > 0, Increasing(rows)
    PROVE  LET row == DatasetRow(rows)
               stored == BarRows(rows)
               times == {bar[1] : bar \in stored}
           IN  /\ times = DaysOf(rows)
               /\ Cardinality(stored) = Len(rows) /\ Cardinality(times) = Len(rows)
               /\ {row.from, row.to} \subseteq times
               /\ times \subseteq row.from .. row.to
               /\ (row.status = "warning") <=> \E bar \in stored : bar[2]
               /\ row.status \in {"valid", "warning"}
               /\ stored \subseteq Nat \X BOOLEAN
<1> DEFINE N == Len(rows)
           row == DatasetRow(rows)
           stored == BarRows(rows)
           times == {bar[1] : bar \in stored}
<1>1. /\ N \in Nat /\ N > 0 /\ DOMAIN rows = 1 .. N
      /\ \A n \in 1 .. N : rows[n].time \in Nat /\ rows[n].zeroVolume \in BOOLEAN
      /\ \A m, n \in 1 .. N : m < n => rows[m].time < rows[n].time
  BY DEF IsFile, Increasing
<1>2. stored = {<<rows[n].time, rows[n].zeroVolume>> : n \in 1 .. N}
  BY <1>1 DEF BarRows
<1>3. DaysOf(rows) = {rows[n].time : n \in 1 .. N}
  BY <1>1 DEF DaysOf
<1> HIDE DEF row, stored
<1>0. \A bar \in stored : \E n \in 1 .. N : /\ bar[1] = rows[n].time
                                             /\ bar[2] = rows[n].zeroVolume
  <2>1. ASSUME NEW bar \in stored
        PROVE  \E n \in 1 .. N : bar[1] = rows[n].time /\ bar[2] = rows[n].zeroVolume
    <3>1. PICK n \in 1 .. N : bar = <<rows[n].time, rows[n].zeroVolume>>
      BY <1>2
    <3>2. bar[1] = rows[n].time /\ bar[2] = rows[n].zeroVolume
      BY <3>1
    <3> QED  BY <3>2
  <2> HIDE DEF N
  <2> QED  BY <2>1
<1>13. ASSUME NEW n \in 1 .. N
       PROVE  \E bar \in stored : bar[1] = rows[n].time /\ bar[2] = rows[n].zeroVolume
  <2> DEFINE bar == <<rows[n].time, rows[n].zeroVolume>>
  <2>1. bar \in stored /\ bar[1] = rows[n].time /\ bar[2] = rows[n].zeroVolume
    BY <1>2
  <2> HIDE DEF bar
  <2> QED  BY <2>1
<1>4. times = DaysOf(rows)
  <2>1. ASSUME NEW x \in times PROVE x \in DaysOf(rows)
    <3>1. PICK bar \in stored : x = bar[1]
      OBVIOUS
    <3> QED  BY <1>0, <1>3, <3>1
  <2>2. ASSUME NEW x \in DaysOf(rows) PROVE x \in times
    <3>1. PICK n \in 1 .. N : x = rows[n].time
      BY <1>3
    <3>2. PICK bar \in stored : bar[1] = rows[n].time
      BY <1>13
    <3> QED  BY <3>1, <3>2
  <2> QED  BY <2>1, <2>2
<1>5. Cardinality(stored) = N
  <2> DEFINE f == [n \in 1 .. N |-> <<rows[n].time, rows[n].zeroVolume>>]
  <2>1. \A m, n \in 1 .. N : m < n => f[m] # f[n]
    BY <1>1
  <2>2. DOMAIN f = 1 .. N /\ f = [n \in 1 .. N |-> f[n]]
    OBVIOUS
  <2>3. /\ \A n \in 1 .. N : f[n] \in stored
        /\ \A x \in stored : \E n \in 1 .. N : f[n] = x
    BY <1>2
  <2> HIDE DEF f
  <2> QED  BY <1>1, <2>1, <2>2, <2>3, OneForEach
<1>6. Cardinality(DaysOf(rows)) = N
  <2> DEFINE f == [n \in 1 .. N |-> rows[n].time]
  <2>1. \A m, n \in 1 .. N : m < n => f[m] # f[n]
    BY <1>1
  <2>2. DOMAIN f = 1 .. N /\ f = [n \in 1 .. N |-> f[n]]
    OBVIOUS
  <2>3. /\ \A n \in 1 .. N : f[n] \in DaysOf(rows)
        /\ \A x \in DaysOf(rows) : \E n \in 1 .. N : f[n] = x
    BY <1>3
  <2> HIDE DEF f
  <2> QED  BY <1>1, <2>1, <2>2, <2>3, OneForEach
<1>7. \A n \in 1 .. N : rows[1].time <= rows[n].time /\ rows[n].time <= rows[N].time
  BY <1>1
<1>8. row.from = rows[1].time /\ row.to = rows[N].time
  <2>1. 1 \in 1 .. N /\ N \in 1 .. N
    BY <1>1
  <2>2. /\ rows[1].time \in DaysOf(rows) /\ \A y \in DaysOf(rows) : rows[1].time =< y
        /\ rows[N].time \in DaysOf(rows) /\ \A y \in DaysOf(rows) : rows[N].time >= y
        /\ \A y \in DaysOf(rows) : y \in Nat
    BY <1>1, <1>3, <1>7, <2>1
  <2>3. /\ Min(DaysOf(rows)) \in DaysOf(rows)
        /\ \A y \in DaysOf(rows) : Min(DaysOf(rows)) =< y
        /\ Max(DaysOf(rows)) \in DaysOf(rows)
        /\ \A y \in DaysOf(rows) : Max(DaysOf(rows)) >= y
    BY <2>2 DEF Min, Max
  <2>4. Min(DaysOf(rows)) = rows[1].time /\ Max(DaysOf(rows)) = rows[N].time
    BY <2>2, <2>3
  <2> QED  BY <2>4 DEF DatasetRow, row
<1>9. {row.from, row.to} \subseteq times
  <2>1. 1 \in 1 .. N /\ N \in 1 .. N
    BY <1>1
  <2> QED  BY <1>3, <1>4, <1>8, <2>1
<1>10. times \subseteq row.from .. row.to
  <2>1. 1 \in 1 .. N /\ N \in 1 .. N
    BY <1>1
  <2>2. row.from \in Nat /\ row.to \in Nat
    BY <1>1, <1>8, <2>1
  <2>3. ASSUME NEW x \in times PROVE x \in row.from .. row.to
    <3>1. PICK n \in 1 .. N : x = rows[n].time
      BY <1>3, <1>4
    <3> QED  BY <1>1, <1>7, <1>8, <2>2, <3>1
  <2> QED  BY <2>3
<1>11. (row.status = "warning") <=> \E bar \in stored : bar[2]
  <2>1. (\E bar \in stored : bar[2]) <=> \E n \in 1 .. N : rows[n].zeroVolume
    <3>1. ASSUME NEW bar \in stored, bar[2] PROVE \E n \in 1 .. N : rows[n].zeroVolume
      BY <1>0, <3>1
    <3>2. ASSUME NEW n \in 1 .. N, rows[n].zeroVolume PROVE \E bar \in stored : bar[2]
      <4>1. PICK bar \in stored : bar[2] = rows[n].zeroVolume
        BY <1>13
      <4> QED  BY <3>2, <4>1
    <3> QED  BY <3>1, <3>2
  <2>2. <<[severity |-> "warning", code |-> "zero_volume_bars"]>> # <<>>
    OBVIOUS
  <2>3. row.status = StatusOf(rows)
    BY DEF DatasetRow, row
  <2> QED  BY <1>1, <2>1, <2>2, <2>3 DEF StatusOf, WarningsOf
<1>12. row.status \in {"valid", "warning"} /\ stored \subseteq Nat \X BOOLEAN
  BY <1>1, <1>2 DEF DatasetRow, StatusOf, row
<1> HIDE DEF N
<1> QED  BY <1>4, <1>5, <1>6, <1>9, <1>10, <1>11, <1>12 DEF N, row, stored

--------------------------------------------------------------------------------
(* The invariant *)

Labels == {"idle", "fetch", "validate", "find", "parse", "raised"}

IsRequest(q) ==
    /\ q = [id |-> q.id, rows |-> q.rows, name |-> q.name]
    /\ q.id \in 0 .. posts
    /\ IsFile(q.rows)

ImportTypeOK ==
    /\ posts \in 0 .. MaxPosts
    /\ declared \subseteq 1 .. posts /\ DOMAIN known \subseteq 1 .. posts
    /\ DOMAIN imports \subseteq 1 .. posts
    /\ pc \in [Threads -> Labels]
    /\ request = [t \in Threads |-> request[t]]
    /\ answer = [t \in Threads |-> answer[t]]
    /\ \A t \in Threads : IsRequest(request[t])

(* A dataset is what was written of an accepted file. *)
DatasetInv(d) ==
    LET rows == datasets[d].content IN
    /\ IsFile(rows) /\ ParseCsv(rows) = Accepted
    /\ datasets[d] = DatasetRow(rows) /\ bars[d] = BarRows(rows)
    /\ d \in DOMAIN imports
    /\ imports[d].dataset = d /\ imports[d].content = rows
    /\ imports[d].status = StatusOf(rows) /\ imports[d].rowCount = Len(rows)

RejectedInv(i) ==
    /\ imports[i].status = "rejected" /\ imports[i].dataset = NoDataset
    /\ Len(events[i]) = 1 /\ events[i][1].severity = "error"

TablesInv ==
    /\ DOMAIN bars = DOMAIN datasets /\ DOMAIN events = DOMAIN imports
    /\ \A d \in DOMAIN datasets : DatasetInv(d)
    /\ \A i \in DOMAIN imports \ DOMAIN datasets : RejectedInv(i)

(* What was known when a request was admitted was stored, and stays so. *)
KnownInv ==
    /\ \A e \in DOMAIN known : known[e] \subseteq DOMAIN datasets
    /\ DOMAIN datasets \ declared \subseteq DOMAIN known

(* A request under way has written nothing, and what it was admitted with has
   another content. *)
ThreadInv(t) ==
    LET q == request[t] IN
    /\ pc[t] # "idle" => q.id \in (1 .. posts) \ DOMAIN imports
    /\ pc[t] = "parse" /\ q.id \notin declared =>
          /\ q.id \in DOMAIN known
          /\ \A d \in known[q.id] : datasets[d].content # q.rows

(* What was told is so, now and later. *)
IsTrue(told) ==
    /\ told.code \in {0, 201, 409, 422, 500, 502}
    /\ told.code # 0 => told.id \in 1 .. posts
    /\ told.code = 201 => told.dataset = told.id /\ told.dataset \in DOMAIN datasets
    /\ told.code = 409 => told.dataset \in DOMAIN datasets /\ told.id \notin DOMAIN imports
    /\ told.code = 422 => /\ told.id \in DOMAIN imports \ DOMAIN datasets
                         /\ imports[told.id].failure = told.failure
    /\ told.code \in {500, 502} => told.id \notin DOMAIN imports \cup DOMAIN datasets

(* No two requests under way are the same, nor is one that was answered. *)
OwnInv(t, u) ==
    pc[u] # "idle" =>
        /\ answer[t].code # 0 => answer[t].id # request[u].id
        /\ t # u /\ pc[t] # "idle" => request[t].id # request[u].id

IInv ==
    /\ ImportTypeOK
    /\ TablesInv
    /\ KnownInv
    /\ ReimportsAreDeclared
    /\ \A t \in Threads : ThreadInv(t) /\ IsTrue(answer[t])
    /\ \A t, u \in Threads : OwnInv(t, u)

LEMMA StoredIds ==
    ASSUME IInv
    PROVE  /\ DOMAIN datasets \subseteq DOMAIN imports /\ DOMAIN imports \subseteq 1 .. posts
           /\ DOMAIN known \subseteq 1 .. posts /\ declared \subseteq 1 .. posts
           /\ posts \in 0 .. MaxPosts /\ MaxPosts \in Nat /\ posts \in Nat
           /\ DOMAIN bars = DOMAIN datasets /\ DOMAIN events = DOMAIN imports
BY BoundsAssumption DEF IInv, ImportTypeOK, TablesInv, DatasetInv

--------------------------------------------------------------------------------
(* Steps that write no table *)

\* A thread goes on with its request, or answers it.
LEMMA QuietStep ==
    ASSUME IInv, NEW t \in Threads, pc[t] # "idle", UNCHANGED <<tables, posts, history>>,
           NEW label \in Labels, NEW q, NEW told,
           pc' = [pc EXCEPT ![t] = label], request' = [request EXCEPT ![t] = q],
           answer' = [answer EXCEPT ![t] = told], IsRequest(q), IsTrue(told),
           \/ label = "idle" /\ told.id = request[t].id
           \/ label # "idle" /\ told = answer[t] /\ q.id = request[t].id,
           label = "parse" /\ q.id \notin declared =>
              /\ q.id \in DOMAIN known
              /\ \A d \in known[q.id] : datasets[d].content # q.rows
    PROVE  IInv'
<1>1. /\ UNCHANGED <<datasets, bars, imports, events, posts, declared, known>>
      /\ ImportTypeOK
  BY DEF tables, history, IInv
<1>2. /\ \A u \in Threads \ {t} : /\ pc'[u] = pc[u] /\ request'[u] = request[u]
                                  /\ answer'[u] = answer[u]
      /\ pc'[t] = label /\ request'[t] = q /\ answer'[t] = told
  BY <1>1 DEF ImportTypeOK
<1>3. ImportTypeOK'
  <2>1. \A u \in Threads : IsRequest(request[u])'
    BY <1>1, <1>2 DEF ImportTypeOK, IsRequest
  <2> QED  BY <1>1, <2>1 DEF ImportTypeOK
<1>4. TablesInv' /\ KnownInv' /\ ReimportsAreDeclared'
  BY <1>1 DEF IInv, TablesInv, KnownInv, ReimportsAreDeclared, DatasetInv, RejectedInv
<1>5. ASSUME NEW u \in Threads
      PROVE  (ThreadInv(u) /\ IsTrue(answer[u]))'
  <2>1. ThreadInv(u) /\ ThreadInv(t) /\ IsTrue(answer[u])
    BY DEF IInv
  <2>2. IsTrue(answer[u])'
    BY <1>1, <1>2, <2>1 DEF IsTrue
  <2>3. ThreadInv(u)'
    BY <1>1, <1>2, <2>1 DEF ThreadInv
  <2> QED  BY <2>2, <2>3
<1>6. ASSUME NEW u \in Threads, NEW v \in Threads
      PROVE  OwnInv(u, v)'
  <2>1. OwnInv(u, v) /\ OwnInv(u, t) /\ OwnInv(t, v) /\ OwnInv(t, t)
    BY DEF IInv
  <2> QED  BY <1>2, <2>1 DEF OwnInv
<1> QED  BY <1>3, <1>4, <1>5, <1>6 DEF IInv

LEMMA QuietEnd ==
    ASSUME IInv, NEW t \in Threads, pc[t] # "idle", UNCHANGED <<tables, posts, history>>,
           NEW q, NEW told,
           pc' = [pc EXCEPT ![t] = "idle"], request' = [request EXCEPT ![t] = q],
           answer' = [answer EXCEPT ![t] = told], IsRequest(q), IsTrue(told),
           told.id = request[t].id
    PROVE  IInv'
<1>1. "idle" \in Labels
  BY DEF Labels
<1> QED  BY <1>1, QuietStep

\* What can be told of a request that wrote nothing.
LEMMA QuietTruth ==
    ASSUME IInv, NEW t \in Threads, pc[t] # "idle", NEW code, NEW dataset, NEW failure,
           \/ code \in {500, 502}
           \/ code = 409 /\ dataset \in DOMAIN datasets
    PROVE  IsTrue([code |-> code, id |-> request[t].id, dataset |-> dataset,
                   failure |-> failure])
<1>1. request[t].id \in (1 .. posts) \ DOMAIN imports
  BY DEF IInv, ThreadInv
<1> QED  BY <1>1, StoredIds DEF IsTrue

\* An answer that leaves the tables as they are.
LEMMA QuietAnswer ==
    ASSUME IInv, NEW t \in Threads, pc[t] # "idle", UNCHANGED <<tables, posts, history>>,
           NEW code, NEW dataset, NEW failure, Answer(t, code, dataset, failure),
           IsTrue([code |-> code, id |-> request[t].id, dataset |-> dataset,
                   failure |-> failure])
    PROVE  IInv'
<1>1. IsRequest(NoRequest)
  BY StoredIds, EmptyFile DEF IsRequest, NoRequest
<1> QED  BY <1>1, QuietEnd DEF Answer

\* A thread that goes on without an answer, with the same request.
LEMMA QuietMove ==
    ASSUME IInv, NEW t \in Threads, pc[t] # "idle", UNCHANGED <<tables, posts, history>>,
           UNCHANGED <<request, answer>>, NEW label \in Labels \ {"idle"},
           pc' = [pc EXCEPT ![t] = label],
           label = "parse" => request[t].id \in declared
    PROVE  IInv'
<1>1. /\ request' = [request EXCEPT ![t] = request[t]]
      /\ answer' = [answer EXCEPT ![t] = answer[t]]
      /\ IsRequest(request[t]) /\ IsTrue(answer[t])
  BY DEF IInv, ImportTypeOK
<1> QED  BY <1>1, QuietStep

LEMMA FetchStep ==
    ASSUME IInv, NEW t \in Threads, FetchFailed(t) \/ Fetch(t)
    PROVE  IInv'
<1>1. CASE FetchFailed(t)
  <2>1. PICK code \in {502, 500} : Answer(t, code, NoDataset, Accepted)
    BY <1>1 DEF FetchFailed
  <2>2. pc[t] # "idle" /\ UNCHANGED <<tables, posts, history>>
    BY <1>1 DEF FetchFailed
  <2>3. IsTrue([code |-> code, id |-> request[t].id, dataset |-> NoDataset,
                failure |-> Accepted])
    BY <2>2, QuietTruth
  <2> QED  BY <2>1, <2>2, <2>3, QuietAnswer
<1>2. CASE Fetch(t)
  <2>1. PICK payload \in Payloads, identifier \in Identifiers :
            request' = [request EXCEPT ![t].rows = CsvOf(payload, identifier)]
    BY <1>2 DEF Fetch
  <2> DEFINE q == [request[t] EXCEPT !.rows = CsvOf(payload, identifier)]
  <2>2. IsRequest(request[t]) /\ request = [u \in Threads |-> request[u]]
    BY DEF IInv, ImportTypeOK
  <2>3. q = [id |-> request[t].id, rows |-> CsvOf(payload, identifier),
             name |-> request[t].name]
    BY <2>2 DEF IsRequest
  <2>4. IsRequest(q) /\ q.id = request[t].id
    BY <2>2, <2>3, FetchedFile DEF IsRequest
  <2>5. request' = [request EXCEPT ![t] = q]
    BY <2>1, <2>2
  <2>6. answer' = [answer EXCEPT ![t] = answer[t]] /\ IsTrue(answer[t])
    BY <1>2 DEF Fetch, IInv, ImportTypeOK
  <2> HIDE DEF q
  <2> QED  BY <1>2, <2>4, <2>5, <2>6, QuietStep DEF Fetch, Labels
<1> QED  BY <1>1, <1>2

LEMMA QuietSteps ==
    ASSUME IInv, NEW t \in Threads,
           ValidateRequest(t) \/ PersistFailed(t) \/ DatabaseError(t) \/ AnswerError(t)
    PROVE  IInv'
<1>1. CASE ValidateRequest(t)
  BY <1>1, QuietMove DEF ValidateRequest, Labels
<1>2. CASE PersistFailed(t)
  BY <1>2, QuietMove DEF PersistFailed, Labels
<1>3. CASE DatabaseError(t)
  BY <1>3, QuietMove DEF DatabaseError, Labels
<1>4. CASE AnswerError(t)
  <2>1. /\ pc[t] # "idle" /\ UNCHANGED <<tables, posts, history>>
        /\ Answer(t, 500, NoDataset, Accepted)
    BY <1>4 DEF AnswerError
  <2>2. IsTrue([code |-> 500, id |-> request[t].id, dataset |-> NoDataset,
                failure |-> Accepted])
    BY <2>1, QuietTruth
  <2> QED  BY <2>1, <2>2, QuietAnswer
<1> QED  BY <1>1, <1>2, <1>3, <1>4

LEMMA WithProperties ==
    ASSUME NEW table, NEW id, NEW row
    PROVE  /\ DOMAIN With(table, id, row) = DOMAIN table \cup {id}
           /\ With(table, id, row)[id] = row
           /\ \A i \in DOMAIN table : i # id => With(table, id, row)[i] = table[i]
BY DEF With

\* A request is admitted when no dataset has its content.
LEMMA FindExistingStep ==
    ASSUME IInv, NEW t \in Threads, FindExisting(t)
    PROVE  IInv'
<1> DEFINE q == request[t]
<1>1. pc[t] = "find" /\ UNCHANGED <<tables, posts, declared>>
  BY DEF FindExisting
<1>2. CASE \E i \in Earlier(q.rows) : Answer(t, 409, imports[i].dataset, Accepted)
                                     /\ UNCHANGED known
  <2>1. PICK i \in Earlier(q.rows) : Answer(t, 409, imports[i].dataset, Accepted)
    BY <1>2
  <2>2. imports[i].dataset \in DOMAIN datasets
    BY DEF IInv, TablesInv, DatasetInv, RejectedInv, Earlier
  <2>3. pc[t] # "idle" /\ UNCHANGED <<tables, posts, history>>
    BY <1>1, <1>2 DEF history
  <2>4. IsTrue([code |-> 409, id |-> request[t].id, dataset |-> imports[i].dataset,
                failure |-> Accepted])
    BY <2>2, <2>3, QuietTruth
  <2> QED  BY <2>1, <2>3, <2>4, QuietAnswer
<1>3. CASE Earlier(q.rows) = {} /\ Admit(t)
  <2>1. /\ UNCHANGED <<datasets, bars, imports, events, posts, declared>>
        /\ pc' = [pc EXCEPT ![t] = "parse"]
        /\ known' = With(known, q.id, DOMAIN datasets)
        /\ UNCHANGED <<request, answer>>
    BY <1>1, <1>3 DEF tables, Admit
  <2>2. /\ DOMAIN known' = DOMAIN known \cup {q.id}
        /\ known'[q.id] = DOMAIN datasets
        /\ \A e \in DOMAIN known : e # q.id => known'[e] = known[e]
    BY <2>1 DEF With
  <2>3. q.id \in (1 .. posts) \ DOMAIN imports
    BY <1>1 DEF IInv, ThreadInv
  <2>4. \A d \in DOMAIN datasets : datasets[d].content # q.rows
    <3> SUFFICES ASSUME NEW d \in DOMAIN datasets, datasets[d].content = q.rows
                 PROVE  FALSE
      OBVIOUS
    <3>1. DatasetInv(d) /\ d \in 1 .. posts
      BY StoredIds DEF IInv, TablesInv
    <3>2. d \in Earlier(q.rows)
      BY <3>1 DEF DatasetInv, Earlier, NoDataset
    <3> QED  BY <1>3, <3>2
  <2>5. ImportTypeOK'
    <3>1. ImportTypeOK /\ pc' \in [Threads -> Labels]
      BY <2>1 DEF IInv, ImportTypeOK, Labels
    <3>2. \A u \in Threads : IsRequest(request[u])'
      BY <2>1, <3>1 DEF ImportTypeOK, IsRequest
    <3> QED  BY <2>1, <2>2, <2>3, <3>1, <3>2 DEF ImportTypeOK
  <2>6. TablesInv' /\ KnownInv'
    BY <2>1, <2>2 DEF IInv, TablesInv, KnownInv, DatasetInv, RejectedInv
  <2>7. ReimportsAreDeclared'
    <3>1. ASSUME NEW e \in DOMAIN datasets \ declared
          PROVE  known'[e] = known[e]
      BY <2>2, <2>3, StoredIds DEF IInv, KnownInv
    <3> QED  BY <2>1, <3>1 DEF IInv, ReimportsAreDeclared
  <2>8. ASSUME NEW u \in Threads
        PROVE  (ThreadInv(u) /\ IsTrue(answer[u]))'
    <3>1. ThreadInv(u) /\ IsTrue(answer[u]) /\ OwnInv(u, t) /\ ImportTypeOK
      BY DEF IInv
    <3>2. IsTrue(answer[u])'
      BY <2>1, <3>1 DEF IsTrue
    <3>3. ASSUME u = t PROVE ThreadInv(u)'
      BY <2>1, <2>2, <2>3, <2>4, <3>1, <3>3 DEF ThreadInv
    <3>4. ASSUME u # t PROVE ThreadInv(u)'
      <4>1. pc'[u] = pc[u]
        BY <2>1, <3>1, <3>4 DEF ImportTypeOK
      <4>2. pc[u] # "idle" => request[u].id # q.id
        BY <1>1, <3>1, <3>4 DEF OwnInv
      <4> QED  BY <2>1, <2>2, <3>1, <4>1, <4>2 DEF ThreadInv
    <3> QED  BY <3>2, <3>3, <3>4
  <2>9. ASSUME NEW u \in Threads, NEW v \in Threads
        PROVE  OwnInv(u, v)'
    <3>1. OwnInv(u, v) /\ ImportTypeOK
      BY DEF IInv
    <3>2. \A w \in Threads : pc'[w] # "idle" => pc[w] # "idle"
      BY <1>1, <2>1, <3>1 DEF ImportTypeOK
    <3> QED  BY <2>1, <3>1, <3>2 DEF OwnInv
  <2> QED  BY <2>5, <2>6, <2>7, <2>8, <2>9 DEF IInv
<1> QED  BY <1>2, <1>3 DEF FindExisting

--------------------------------------------------------------------------------
(* Steps that write *)

\* The request of a thread is written and answered: what this means for the
\* threads.
LEMMA WrittenStep ==
    ASSUME IInv, NEW t \in Threads, NEW id, id = request[t].id, pc[t] # "idle",
           UNCHANGED <<posts, history>>,
           pc' = [pc EXCEPT ![t] = "idle"], request' = [request EXCEPT ![t] = NoRequest],
           NEW told, answer' = [answer EXCEPT ![t] = told], told.id = id, IsTrue(told)',
           DOMAIN imports' = DOMAIN imports \cup {id},
           \A i \in DOMAIN imports : imports'[i] = imports[i],
           DOMAIN datasets \subseteq DOMAIN datasets',
           DOMAIN datasets' \subseteq DOMAIN datasets \cup {id},
           \A d \in DOMAIN datasets : datasets'[d] = datasets[d]
    PROVE  /\ ImportTypeOK'
           /\ \A u \in Threads : (ThreadInv(u) /\ IsTrue(answer[u]))'
           /\ \A u, v \in Threads : OwnInv(u, v)'
<1>1. /\ UNCHANGED <<posts, declared, known>>
      /\ ImportTypeOK /\ ThreadInv(t)
  BY DEF history, IInv
<1>2. id \in 1 .. posts /\ id \notin DOMAIN imports /\ id \notin DOMAIN datasets
  BY <1>1, StoredIds DEF ThreadInv
<1>3. /\ \A u \in Threads \ {t} : /\ pc'[u] = pc[u] /\ request'[u] = request[u]
                                  /\ answer'[u] = answer[u]
      /\ pc'[t] = "idle" /\ request'[t] = NoRequest /\ answer'[t] = told
  BY <1>1 DEF ImportTypeOK
<1>4. ImportTypeOK'
  <2>1. IsRequest(NoRequest)'
    BY <1>1, StoredIds, EmptyFile DEF IsRequest, NoRequest
  <2>2. \A u \in Threads : IsRequest(request[u])'
    BY <1>1, <1>3, <2>1 DEF ImportTypeOK, IsRequest
  <2> QED  BY <1>1, <1>2, <2>2 DEF ImportTypeOK, Labels
<1>5. ASSUME NEW u \in Threads
      PROVE  (ThreadInv(u) /\ IsTrue(answer[u]))'
  <2>1. ThreadInv(u) /\ IsTrue(answer[u]) /\ OwnInv(u, t) /\ OwnInv(t, u) /\ KnownInv
    BY DEF IInv
  <2>2. ASSUME u = t PROVE (ThreadInv(u) /\ IsTrue(answer[u]))'
    BY <1>3, <2>2 DEF ThreadInv, IsTrue
  <2>3. ASSUME u # t PROVE ThreadInv(u)'
    <3>1. pc[u] # "idle" => request[u].id # id
      BY <2>1, <2>3 DEF OwnInv
    <3>2. pc[u] # "idle" => request[u].id \notin DOMAIN imports'
      BY <2>1, <3>1 DEF ThreadInv
    <3>3. ASSUME pc[u] = "parse", request[u].id \notin declared
          PROVE  /\ request[u].id \in DOMAIN known
                 /\ \A d \in known[request[u].id] : datasets'[d].content # request[u].rows
      <4>1. known[request[u].id] \subseteq DOMAIN datasets
        BY <2>1, <3>3 DEF ThreadInv, KnownInv
      <4> QED  BY <2>1, <3>3, <4>1 DEF ThreadInv
    <3> QED  BY <1>1, <1>3, <2>1, <2>3, <3>2, <3>3 DEF ThreadInv
  <2>4. ASSUME u # t PROVE IsTrue(answer[u])'
    <3>1. answer'[u] = answer[u] /\ (answer[u].code # 0 => answer[u].id # id)
      BY <1>3, <2>1, <2>4 DEF OwnInv
    <3> DEFINE was == answer[u]
    <3>2. IsTrue(was) /\ (was.code # 0 => was.id # id)
      BY <2>1, <3>1
    <3> HIDE DEF was
    <3>3. PICK a : a = was
      OBVIOUS
    <3>4. IsTrue(a)'
      BY <1>1, <1>2, <3>2, <3>3 DEF IsTrue
    <3> QED  BY <3>1, <3>3, <3>4 DEF was, IsTrue
  <2> QED  BY <2>2, <2>3, <2>4
<1>6. ASSUME NEW u \in Threads, NEW v \in Threads
      PROVE  OwnInv(u, v)'
  <2>1. OwnInv(u, v) /\ OwnInv(t, v)
    BY DEF IInv
  <2> QED  BY <1>3, <2>1 DEF OwnInv
<1> QED  BY <1>4, <1>5, <1>6

LEMMA RejectStep ==
    ASSUME IInv, NEW t \in Threads, pc[t] # "idle", NEW verdict, Reject(t, verdict)
    PROVE  IInv'
<1> DEFINE id == request[t].id
           told == [code |-> 422, id |-> id, dataset |-> NoDataset, failure |-> verdict]
           row == [dataset |-> NoDataset, content |-> request[t].rows,
                   status |-> "rejected", rowCount |-> 0, failure |-> verdict]
           event == [severity |-> "error", code |-> verdict.code]
<1>1. /\ imports' = With(imports, id, row) /\ events' = With(events, id, <<event>>)
      /\ UNCHANGED <<datasets, bars, posts, declared, known>>
      /\ UNCHANGED <<posts, history>>
      /\ pc' = [pc EXCEPT ![t] = "idle"] /\ request' = [request EXCEPT ![t] = NoRequest]
      /\ answer' = [answer EXCEPT ![t] = told]
  BY DEF Reject, Answer, history
<1>2. /\ id \in 1 .. posts /\ id \notin DOMAIN imports /\ id \notin DOMAIN datasets
      /\ id \notin DOMAIN events
  BY StoredIds DEF IInv, ThreadInv
<1>3. /\ DOMAIN imports' = DOMAIN imports \cup {id} /\ imports'[id] = row
      /\ \A i \in DOMAIN imports : imports'[i] = imports[i]
      /\ DOMAIN events' = DOMAIN events \cup {id} /\ events'[id] = <<event>>
      /\ \A i \in DOMAIN events : events'[i] = events[i]
  BY <1>1, <1>2 DEF With
<1>4. row.status = "rejected" /\ row.dataset = NoDataset /\ row.failure = verdict
  OBVIOUS
<1>5. Len(<<event>>) = 1 /\ <<event>>[1].severity = "error"
  OBVIOUS
<1>6. /\ told.code = 422 /\ told.id = id /\ told.failure = verdict
  OBVIOUS
<1> HIDE DEF row, event, told
<1>7. TablesInv'
  <2>1. ASSUME NEW d \in DOMAIN datasets
        PROVE  DatasetInv(d)'
    BY <1>1, <1>3 DEF IInv, TablesInv, DatasetInv
  <2>2. ASSUME NEW i \in DOMAIN imports' \ DOMAIN datasets
        PROVE  RejectedInv(i)'
    <3>1. CASE i = id
      BY <1>3, <1>4, <1>5, <3>1 DEF RejectedInv
    <3>2. CASE i # id
      <4>1. i \in DOMAIN imports /\ RejectedInv(i) /\ i \in DOMAIN events
        BY <1>3, <2>2, <3>2, StoredIds DEF IInv, TablesInv
      <4> QED  BY <1>3, <4>1 DEF RejectedInv
    <3> QED  BY <3>1, <3>2
  <2> QED  BY <1>1, <1>3, <2>1, <2>2, StoredIds DEF TablesInv
<1>8. KnownInv' /\ ReimportsAreDeclared'
  BY <1>1 DEF IInv, KnownInv, ReimportsAreDeclared
<1>9. PICK a, k : a = told /\ k = id
  OBVIOUS
<1>10. IsTrue(a)' /\ a.id = k
  BY <1>1, <1>2, <1>3, <1>4, <1>6, <1>9 DEF IsTrue
<1>11. /\ ImportTypeOK'
       /\ \A u \in Threads : (ThreadInv(u) /\ IsTrue(answer[u]))'
       /\ \A u, v \in Threads : OwnInv(u, v)'
  BY <1>1, <1>3, <1>9, <1>10, WrittenStep
<1> QED  BY <1>7, <1>8, <1>11 DEF IInv

LEMMA PersistAcceptedStep ==
    ASSUME IInv, NEW t \in Threads, PersistAccepted(t)
    PROVE  IInv'
<1> DEFINE id == request[t].id
           rows == request[t].rows
           told == [code |-> 201, id |-> id, dataset |-> id, failure |-> Accepted]
           row == [dataset |-> id, content |-> rows, status |-> StatusOf(rows),
                   rowCount |-> Len(rows), failure |-> Accepted]
<1>1. /\ imports' = With(imports, id, row)
      /\ events' = With(events, id, WarningsOf(rows))
      /\ datasets' = With(datasets, id, DatasetRow(rows))
      /\ bars' = With(bars, id, BarRows(rows))
      /\ UNCHANGED <<posts, declared, known>> /\ UNCHANGED <<posts, history>>
      /\ pc' = [pc EXCEPT ![t] = "idle"] /\ request' = [request EXCEPT ![t] = NoRequest]
      /\ answer' = [answer EXCEPT ![t] = told]
      /\ pc[t] = "parse" /\ ParseCsv(rows) = Accepted
  BY DEF PersistAccepted, Answer, history
<1>2. /\ id \in 1 .. posts /\ id \notin DOMAIN imports /\ id \notin DOMAIN datasets
      /\ id \notin DOMAIN events /\ id \notin DOMAIN bars /\ IsFile(rows)
      /\ id \notin declared =>
            id \in DOMAIN known /\ \A d \in known[id] : datasets[d].content # rows
  BY <1>1, StoredIds DEF IInv, ThreadInv, ImportTypeOK, IsRequest
<1>3. /\ DOMAIN imports' = DOMAIN imports \cup {id} /\ imports'[id] = row
      /\ \A i \in DOMAIN imports : imports'[i] = imports[i]
      /\ DOMAIN events' = DOMAIN events \cup {id}
      /\ \A i \in DOMAIN events : events'[i] = events[i]
  BY <1>1, <1>2 DEF With
<1>4. /\ DOMAIN datasets' = DOMAIN datasets \cup {id}
      /\ datasets'[id] = DatasetRow(rows)
      /\ \A i \in DOMAIN datasets : datasets'[i] = datasets[i]
      /\ DOMAIN bars' = DOMAIN bars \cup {id} /\ bars'[id] = BarRows(rows)
      /\ \A i \in DOMAIN bars : bars'[i] = bars[i]
  BY <1>1, <1>2 DEF With
<1>5. /\ row.dataset = id /\ row.content = rows /\ row.status = StatusOf(rows)
      /\ row.rowCount = Len(rows)
      /\ told.code = 201 /\ told.id = id /\ told.dataset = id
  OBVIOUS
<1>6. DatasetRow(rows).content = rows
  BY DEF DatasetRow
<1> HIDE DEF row, told
<1>7. TablesInv'
  <2>1. ASSUME NEW d \in DOMAIN datasets'
        PROVE  DatasetInv(d)'
    <3>1. CASE d = id
      BY <1>1, <1>2, <1>3, <1>4, <1>5, <1>6, <3>1 DEF DatasetInv
    <3>2. CASE d # id
      <4>1. /\ d \in DOMAIN datasets /\ DatasetInv(d) /\ d \in DOMAIN bars
            /\ d \in DOMAIN imports
        BY <1>4, <2>1, <3>2, StoredIds DEF IInv, TablesInv
      <4> QED  BY <1>3, <1>4, <4>1 DEF DatasetInv
    <3> QED  BY <3>1, <3>2
  <2>2. ASSUME NEW i \in DOMAIN imports' \ DOMAIN datasets'
        PROVE  RejectedInv(i)'
    <3>1. i \in DOMAIN imports /\ RejectedInv(i) /\ i \in DOMAIN events
      BY <1>3, <1>4, <2>2, StoredIds DEF IInv, TablesInv
    <3> QED  BY <1>3, <3>1 DEF RejectedInv
  <2> QED  BY <1>3, <1>4, <2>1, <2>2, StoredIds DEF TablesInv
<1>8. KnownInv'
  BY <1>1, <1>2, <1>4 DEF IInv, KnownInv
<1>9. ReimportsAreDeclared'
  <2> SUFFICES ASSUME NEW e \in DOMAIN datasets' \ declared,
                      NEW d \in DOMAIN datasets' \ {e},
                      datasets'[d].content = datasets'[e].content,
                      d \in known[e]
               PROVE  FALSE
    BY <1>1 DEF ReimportsAreDeclared
  <2>1. known[e] \subseteq DOMAIN datasets
    <3>1. e \in DOMAIN known
      BY <1>2, <1>4 DEF IInv, KnownInv
    <3> QED  BY <3>1 DEF IInv, KnownInv
  <2>2. d \in DOMAIN datasets
    BY <2>1
  <2>3. CASE e = id
    BY <1>2, <1>4, <1>6, <2>2, <2>3
  <2>4. CASE e # id
    BY <1>2, <1>4, <2>2, <2>4 DEF IInv, ReimportsAreDeclared
  <2> QED  BY <2>3, <2>4
<1>10. PICK a, k : a = told /\ k = id
  OBVIOUS
<1>11. IsTrue(a)' /\ a.id = k
  BY <1>1, <1>2, <1>4, <1>5, <1>10 DEF IsTrue
<1>12. /\ ImportTypeOK'
       /\ \A u \in Threads : (ThreadInv(u) /\ IsTrue(answer[u]))'
       /\ \A u, v \in Threads : OwnInv(u, v)'
  <2>1. /\ DOMAIN datasets \subseteq DOMAIN datasets'
        /\ DOMAIN datasets' \subseteq DOMAIN datasets \cup {k}
        /\ DOMAIN imports' = DOMAIN imports \cup {k}
        /\ k = request[t].id /\ pc[t] # "idle"
    BY <1>1, <1>3, <1>4, <1>10
  <2> QED  BY <1>1, <1>3, <1>4, <1>10, <1>11, <2>1, WrittenStep
<1> QED  BY <1>7, <1>8, <1>9, <1>12 DEF IInv

\* A new request has a number of its own.
LEMMA PostImportStep ==
    ASSUME IInv, NEW t \in Threads, PostImport(t)
    PROVE  IInv'
<1>1. PICK allow \in BOOLEAN, name \in Names :
          /\ declared' = IF allow THEN declared \cup {posts'} ELSE declared
          /\ request' = [request EXCEPT ![t] = [id |-> posts', rows |-> <<>>,
                                                name |-> name]]
  BY DEF PostImport
<1> DEFINE q == [id |-> posts', rows |-> <<>>, name |-> name]
<1>2. /\ posts' = posts + 1 /\ posts < MaxPosts /\ pc[t] = "idle"
      /\ pc' = [pc EXCEPT ![t] = "fetch"] /\ answer' = [answer EXCEPT ![t] = NoAnswer]
      /\ UNCHANGED <<datasets, bars, imports, events, known>>
      /\ ImportTypeOK
  BY DEF PostImport, tables, IInv
<1>3. /\ posts \in Nat /\ posts' \in 0 .. MaxPosts /\ posts' \in 1 .. posts'
      /\ 1 .. posts \subseteq 1 .. posts' /\ posts' \notin 1 .. posts
      /\ 0 .. posts \subseteq 0 .. posts'
  BY <1>2, StoredIds
<1>4. /\ \A u \in Threads \ {t} : /\ pc'[u] = pc[u] /\ request'[u] = request[u]
                                  /\ answer'[u] = answer[u]
      /\ pc'[t] = "fetch" /\ request'[t] = q /\ answer'[t] = NoAnswer
  BY <1>1, <1>2 DEF ImportTypeOK
<1>5. \A i \in 1 .. posts : i \in declared' <=> i \in declared
  BY <1>1, <1>3
<1>6. ImportTypeOK'
  <2>1. IsRequest(request[t])'
    <3>1. /\ request'[t] = [id |-> request'[t].id, rows |-> request'[t].rows,
                            name |-> request'[t].name]
          /\ request'[t].id = posts' /\ request'[t].rows = <<>>
          /\ request'[t].name = name
      BY <1>4
    <3>2. request'[t].id \in 0 .. posts'
      BY <1>3, <3>1
    <3> QED  BY <1>1, <3>1, <3>2, EmptyFile DEF IsRequest
  <2>2. \A u \in Threads : IsRequest(request[u])'
    BY <1>2, <1>3, <1>4, <2>1 DEF ImportTypeOK, IsRequest
  <2>3. declared' \subseteq 1 .. posts'
    BY <1>1, <1>3, StoredIds
  <2>4. pc' \in [Threads -> Labels]
    BY <1>2 DEF ImportTypeOK, Labels
  <2> QED  BY <1>1, <1>2, <1>3, <2>2, <2>3, <2>4 DEF ImportTypeOK
<1>7. TablesInv'
  BY <1>2 DEF IInv, TablesInv, DatasetInv, RejectedInv
<1>8. DOMAIN datasets \ declared' = DOMAIN datasets \ declared
  BY <1>5, StoredIds
<1>9. KnownInv' /\ ReimportsAreDeclared'
  BY <1>2, <1>8 DEF IInv, KnownInv, ReimportsAreDeclared
<1>10. ASSUME NEW u \in Threads
       PROVE  (ThreadInv(u) /\ IsTrue(answer[u]))'
  <2>1. ThreadInv(u) /\ IsTrue(answer[u])
    BY DEF IInv
  <2>2. ASSUME u = t PROVE ThreadInv(u)'
    <3>1. q.id = posts' /\ posts' \notin DOMAIN imports
      BY <1>3, StoredIds
    <3> QED  BY <1>2, <1>3, <1>4, <2>2, <3>1 DEF ThreadInv
  <2>3. ASSUME u # t PROVE ThreadInv(u)'
    BY <1>2, <1>3, <1>4, <1>5, <2>1, <2>3 DEF ThreadInv
  <2>4. ASSUME u = t PROVE IsTrue(answer[u])'
    BY <1>4, <2>4 DEF IsTrue, NoAnswer
  <2>5. ASSUME u # t PROVE IsTrue(answer[u])'
    BY <1>2, <1>3, <1>4, <2>1, <2>5 DEF IsTrue
  <2> QED  BY <2>2, <2>3, <2>4, <2>5
<1>11. ASSUME NEW u \in Threads, NEW v \in Threads
       PROVE  OwnInv(u, v)'
  <2>1. /\ OwnInv(u, v) /\ ThreadInv(u) /\ ThreadInv(v) /\ IsTrue(answer[u])
    BY DEF IInv
  <2>2. /\ pc[v] # "idle" => request[v].id # posts'
        /\ pc[u] # "idle" => request[u].id # posts'
        /\ answer[u].code # 0 => answer[u].id # posts'
    BY <1>3, <2>1 DEF ThreadInv, IsTrue
  <2>3. NoAnswer.code = 0 /\ q.id = posts'
    BY DEF NoAnswer
  <2> HIDE DEF q
  <2> QED  BY <1>4, <2>1, <2>2, <2>3 DEF OwnInv
<1> QED  BY <1>6, <1>7, <1>9, <1>10, <1>11 DEF IInv

\* After a crash no request is under way; the tables are what they were.
LEMMA CrashStep ==
    ASSUME IInv, Crash
    PROVE  IInv'
<1>1. /\ UNCHANGED <<datasets, bars, imports, events, posts, declared, known>>
      /\ pc' = [t \in Threads |-> "idle"] /\ request' = [t \in Threads |-> NoRequest]
      /\ answer' = [t \in Threads |-> NoAnswer]
  BY DEF Crash, tables, history
<1>2. ImportTypeOK'
  <2>1. IsRequest(NoRequest)'
    BY <1>1, StoredIds, EmptyFile DEF IsRequest, NoRequest
  <2>2. \A u \in Threads : IsRequest(request[u])'
    BY <1>1, <2>1 DEF IsRequest
  <2> QED  BY <1>1, <2>2 DEF IInv, ImportTypeOK, Labels
<1>3. TablesInv' /\ KnownInv' /\ ReimportsAreDeclared'
  BY <1>1 DEF IInv, TablesInv, DatasetInv, RejectedInv, KnownInv, ReimportsAreDeclared
<1>4. \A u \in Threads : (ThreadInv(u) /\ IsTrue(answer[u]))'
  BY <1>1 DEF ThreadInv, IsTrue, NoAnswer
<1>5. \A u, v \in Threads : OwnInv(u, v)'
  BY <1>1 DEF OwnInv
<1> QED  BY <1>2, <1>3, <1>4, <1>5 DEF IInv

LEMMA InitIInv == Init => IInv
<1> SUFFICES ASSUME Init PROVE IInv
  OBVIOUS
<1>1. DOMAIN <<>> = {}
  OBVIOUS
<1>2. ImportTypeOK
  <2>1. \A u \in Threads : IsRequest(request[u])
    BY EmptyFile DEF Init, IsRequest, NoRequest
  <2> QED  BY <1>1, <2>1, BoundsAssumption DEF Init, ImportTypeOK, Labels
<1>3. TablesInv /\ KnownInv /\ ReimportsAreDeclared
  BY <1>1 DEF Init, TablesInv, KnownInv, ReimportsAreDeclared
<1>4. \A u \in Threads : ThreadInv(u) /\ IsTrue(answer[u])
  BY DEF Init, ThreadInv, IsTrue, NoAnswer
<1>5. \A u, v \in Threads : OwnInv(u, v)
  BY DEF Init, OwnInv
<1> QED  BY <1>2, <1>3, <1>4, <1>5 DEF IInv

LEMMA NextIInv ==
    ASSUME IInv, [Next]_vars
    PROVE  IInv'
<1>1. CASE UNCHANGED vars
  BY <1>1 DEF vars, tables, history, IInv, ImportTypeOK, IsRequest, TablesInv, DatasetInv,
              RejectedInv, KnownInv, ReimportsAreDeclared, ThreadInv, IsTrue, OwnInv
<1>2. ASSUME NEW t \in Threads, RejectMetadata(t) \/ RejectSize(t) \/ RejectContent(t)
      PROVE  IInv'
  <2>1. pc[t] # "idle" /\ \E verdict : Reject(t, verdict)
    BY <1>2 DEF RejectMetadata, RejectSize, RejectContent
  <2> QED  BY <2>1, RejectStep
<1>3. ASSUME NEW t \in Threads, Handle(t)
      PROVE  IInv'
  BY <1>2, <1>3, FetchStep, QuietSteps, FindExistingStep, PersistAcceptedStep DEF Handle
<1> QED  BY <1>1, <1>3, PostImportStep, CrashStep DEF Next

\* The invariant of the tables, the requests under way and the answers.
THEOREM ImportInvariance == Spec => []IInv
BY InitIInv, NextIInv, PTL DEF Spec

THEOREM ImportTypeCorrect == Spec => []TypeOK
<1>1. ASSUME IInv
      PROVE  TypeOK
  <2>1. /\ DOMAIN datasets \cup DOMAIN imports \subseteq Ids /\ posts \in 0 .. MaxPosts
        /\ declared \subseteq Ids /\ DOMAIN known \subseteq Ids
    BY <1>1, StoredIds DEF Ids
  <2>2. ASSUME NEW d \in DOMAIN datasets
        PROVE  /\ datasets[d].status \in {"valid", "warning"}
               /\ bars[d] \subseteq Nat \X BOOLEAN
               /\ imports[d].status \in {"valid", "warning"}
    <3> DEFINE rows == datasets[d].content
    <3>1. DatasetInv(d)
      BY <1>1 DEF IInv, TablesInv
    <3>2. /\ DatasetRow(rows).status \in {"valid", "warning"}
          /\ BarRows(rows) \subseteq Nat \X BOOLEAN
      BY <3>1, AcceptedIsIncreasing, StoredFile DEF DatasetInv
    <3> QED  BY <3>1, <3>2 DEF DatasetInv, DatasetRow
  <2>3. \A i \in DOMAIN imports : imports[i].status \in {"valid", "warning", "rejected"}
    BY <1>1, <2>2 DEF IInv, TablesInv, RejectedInv
  <2> QED  BY <1>1, <2>1, <2>2, <2>3
           DEF IInv, TablesInv, ImportTypeOK, IsRequest, IsTrue, TypeOK, Labels
<1> QED  BY <1>1, ImportInvariance, PTL

\* Whatever fails, and for files of any length, the tables tell one story about
\* a request (persist_accepted_import, and the order that parse_csv insists on).
THEOREM ImportsStayWhole == Spec => []ImportsAreWhole
<1>1. ASSUME IInv
      PROVE  ImportsAreWhole
  <2>1. TablesInv
    BY <1>1 DEF IInv
  <2>2. ASSUME NEW d \in DOMAIN datasets
        PROVE  LET times == {bar[1] : bar \in bars[d]}
                   silent == \E bar \in bars[d] : bar[2]
               IN  /\ d \in DOMAIN imports
                   /\ imports[d].dataset = d
                   /\ imports[d].content = datasets[d].content
                   /\ imports[d].status = datasets[d].status
                   /\ imports[d].rowCount = Cardinality(bars[d])
                   /\ Cardinality(times) = Cardinality(bars[d])
                   /\ times = DaysOf(datasets[d].content)
                   /\ {datasets[d].from, datasets[d].to} \subseteq times
                   /\ times \subseteq datasets[d].from .. datasets[d].to
                   /\ (datasets[d].status = "warning") = silent
    <3> DEFINE rows == datasets[d].content
               row == DatasetRow(rows)
               stored == BarRows(rows)
               times == {bar[1] : bar \in stored}
    <3>1. DatasetInv(d)
      BY <2>1 DEF TablesInv
    <3>2. /\ times = DaysOf(rows)
          /\ Cardinality(stored) = Len(rows) /\ Cardinality(times) = Len(rows)
          /\ {row.from, row.to} \subseteq times
          /\ times \subseteq row.from .. row.to
          /\ (row.status = "warning") <=> \E bar \in stored : bar[2]
      BY <3>1, AcceptedIsIncreasing, StoredFile DEF DatasetInv
    <3>3. datasets[d] = row /\ bars[d] = stored /\ row.status = StatusOf(rows)
      BY <3>1 DEF DatasetInv, DatasetRow
    <3>4. /\ d \in DOMAIN imports /\ imports[d].dataset = d /\ imports[d].content = rows
          /\ imports[d].status = StatusOf(rows) /\ imports[d].rowCount = Len(rows)
      BY <3>1 DEF DatasetInv
    <3> HIDE DEF row, stored, rows
    <3> QED  BY <3>2, <3>3, <3>4 DEF rows
  <2> QED  BY <2>1, <2>2 DEF TablesInv, RejectedInv, ImportsAreWhole
<1> QED  BY <1>1, ImportInvariance, PTL

\* What a client is told of its request is so, and stays so.
THEOREM AnswersStayTrue == Spec => []AnswersAreTrue
<1>1. IInv => AnswersAreTrue
  BY DEF IInv, IsTrue, AnswersAreTrue
<1> QED  BY <1>1, ImportInvariance, PTL

\* Of two datasets of the same content, the request for the one allowed it or was
\* admitted before the other was stored.
THEOREM ReimportsWereDeclared == Spec => []ReimportsAreDeclared
<1>1. IInv => ReimportsAreDeclared
  BY DEF IInv
<1> QED  BY <1>1, ImportInvariance, PTL
================================================================================

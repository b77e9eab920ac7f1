---------------------------- MODULE ReferenceChecks ----------------------------
(***************************************************************************)
(* The pure functions against reference definitions, over every input of a *)
(* bounded size: parse_csv on files that grow row by row, and              *)
(* compute_fifo_realized_pnl on long-only lists of fills that grow fill by *)
(* fill.  The fills are not only the round trips that the engine produces: *)
(* purchases may add to a position, and a sale may close part of a lot or  *)
(* several lots.  Strategies and optimizations are asked for once, and     *)
(* what was accepted is compared with what is derived from it later.       *)
(* Walks through a collection read tables that grow between statements.    *)
(***************************************************************************)
EXTENDS CsvContract, RunMetrics, InputForms, CollectionWalk

CONSTANTS
    Instruments, Times, Defects, MaxRows,   \* of files
    Prices, Quantities, MaxFills,           \* of lists of fills
    Strategies,     \* what is asked for: parameters and eligible_after_bars
    Optimizations,  \* what is asked for: a request and the days of the dataset
    Places, PageSizes, MaxReads             \* of walks through a collection

ASSUME FilesAssumption ==
    /\ Times \subseteq Nat /\ MaxRows \in Nat
    /\ Defects \subseteq ToSet(Checks)

ASSUME FillsAssumption ==
    /\ Prices \subseteq Nat \ {0} /\ Quantities \subseteq Nat \ {0}
    /\ MaxFills \in Nat

\* What the JSON of a request can hold: integers, base kinds in a combination.
ASSUME StrategiesAssumption ==
    \A spec \in Strategies :
        LET p == spec.parameters IN
        /\ spec.eligibleAfter \in Int
        /\ p.kind \notin BaseKinds => p.conditions \in Seq(Indicators(p))
        /\ \A c \in Indicators(p) : c.kind \in BaseKinds /\ Fields(c) \subseteq Int

ASSUME OptimizationsAssumption ==
    \A optimization \in Optimizations :
        LET q == optimization.request IN
        /\ \A numbers \in {optimization.days, q.fastWindows, q.slowWindows} :
              numbers \subseteq Int /\ IsFiniteSet(numbers)
        /\ \A period \in {q.train, q.validation, q.holdout} :
              period.from \in Int /\ period.to \in Int

ASSUME WalksAssumption ==
    /\ Places \subseteq Nat /\ IsFiniteSet(Places)
    /\ PageSizes \subseteq Nat \ {0} /\ MaxReads \in Nat

VARIABLES file, fills, asked, reads   \* all but one stay empty

vars == <<file, fills, asked, reads>>

--------------------------------------------------------------------------------
(* Files *)

Rows == [instrument : Instruments, time : Times, zeroVolume : {FALSE},
         defects : SUBSET Defects]

AppendRow ==
    /\ fills = <<>> /\ asked = <<>> /\ reads = <<>> /\ Len(file) < MaxRows
    /\ \E row \in Rows : file' = Append(file, row)
    /\ UNCHANGED <<fills, asked, reads>>

--------------------------------------------------------------------------------
(* Fills.  The reference counts shares one by one: the k-th share ever sold is
   the k-th share ever bought. *)

Shares(fill) == [k \in 1 .. fill.quantity |-> fill.price]

\* The price of every share that the fills of one side traded, in order.
SharesOf(side, list) ==
    LET shares[n \in 0 .. Len(list)] ==
            IF n = 0 THEN <<>>
            ELSE IF list[n].side = side THEN shares[n - 1] \o Shares(list[n])
            ELSE shares[n - 1]
    IN  shares[Len(list)]

Open(list) == Len(SharesOf("buy", list)) - Len(SharesOf("sell", list))

Fill(side, quantity, price) ==
    /\ file = <<>> /\ asked = <<>> /\ reads = <<>> /\ Len(fills) < MaxFills
    /\ fills' = Append(fills, [side |-> side, quantity |-> quantity,
                               price |-> price])
    /\ UNCHANGED <<file, asked, reads>>

Buy == \E q \in Quantities, p \in Prices : Fill("buy", q, p)

Sell == \E q \in 1 .. Open(fills), p \in Prices : Fill("sell", q, p)

--------------------------------------------------------------------------------
(* Requests *)

Ask(what, requests) ==
    /\ file = <<>> /\ fills = <<>> /\ asked = <<>> /\ reads = <<>>
    /\ \E request \in requests : asked' = <<what, request>>
    /\ UNCHANGED <<file, fills, reads>>

AskForStrategy == Ask("strategy", Strategies)

AskForOptimization == Ask("optimization", Optimizations)

--------------------------------------------------------------------------------
(* Walks: what each statement finds holds at least what the one before found. *)

ReadTable ==
    /\ file = <<>> /\ fills = <<>> /\ asked = <<>> /\ Len(reads) < MaxReads
    /\ \E new \in SUBSET Places :
          reads' = Append(reads, IF reads = <<>> THEN new ELSE new \cup Last(reads))
    /\ UNCHANGED <<file, fills, asked>>

Init == file = <<>> /\ fills = <<>> /\ asked = <<>> /\ reads = <<>>

Next ==
    \/ AppendRow
    \/ Buy \/ Sell
    \/ AskForStrategy \/ AskForOptimization
    \/ ReadTable

Spec == Init /\ [][Next]_vars

--------------------------------------------------------------------------------
(* Properties *)

Same(i, j) == file[i].instrument = file[j].instrument

\* What the contract says of a file's n-th row, whatever was read before it.
Sound(n) ==
    /\ file[n].defects = {}
    /\ \A m \in 1 .. n - 1 : Same(m, n) => file[m].time < file[n].time

\* A file is accepted exactly when each of its rows has no defect and its
\* instruments' times increase strictly; the row that is reported otherwise is
\* the first that is at fault (the header is row 1), and it is reported as a
\* duplicate exactly when an earlier row has its key, although the parser
\* compares with nothing but the last time of the instrument and a set of keys.
FirstOffenceIsReported ==
    LET verdict == ParseCsv(file)
        at == verdict.row - 1
        repeated == \E m \in 1 .. at - 1 :
                        Same(m, at) /\ file[m].time = file[at].time
    IN  CASE file = <<>> -> verdict.code = "empty_file"
          [] verdict.code = "none" -> \A n \in DOMAIN file : Sound(n)
          [] OTHER ->
                /\ ~Sound(at) /\ \A n \in 1 .. at - 1 : Sound(n)
                /\ verdict.code \in file[at].defects <=> file[at].defects # {}
                /\ file[at].defects = {} =>
                      verdict.code = IF repeated THEN "duplicate_row"
                                     ELSE "unsorted_rows"

\* The profit of each sale is that of its shares, matched with the shares
\* bought first; what stays open are the youngest shares, in their order.
MatchesShareByShare ==
    LET bought == SharesOf("buy", fills)
        soldBefore(i) == Len(SharesOf("sell", SubSeq(fills, 1, i - 1)))
        profit(i) ==
            Total([k \in 1 .. fills[i].quantity |->
                      fills[i].price - bought[soldBefore(i) + k]])
        salesTo(n) == {i \in 1 .. n : fills[i].side = "sell"}
        sales == salesTo(Len(fills))
        realized == FifoRealizedPnl(fills)
        lots == FifoBook(fills).lots
        openShares == SharesOf("lot", [k \in 1 .. Len(lots) |->
                          [side |-> "lot", quantity |-> lots[k].quantity,
                           price |-> lots[k].price]])
    IN  /\ Len(realized) = Cardinality(sales)
        /\ \A i \in sales : realized[Cardinality(salesTo(i))] = profit(i)
        /\ openShares = SubSeq(bought, Len(bought) - Open(fills) + 1, Len(bought))

\* An accepted strategy decides when it says it does: its first decision is on
\* the bar its specification names or on the next one (a crossing needs a bar
\* before it), never held up further by an indicator whose warm-up the
\* specification's check underestimates.
StrategiesAreWarm ==
    asked # <<>> /\ asked[1] = "strategy" =>
        LET spec == asked[2] IN
        AcceptsStrategy(spec.parameters, spec.eligibleAfter) =>
            FirstDecision(spec.parameters, spec.eligibleAfter)
                \in spec.eligibleAfter .. spec.eligibleAfter + 1

\* OPTIMIZATION_AND_BIAS_SAFEGUARD_CONTRACT.md: each period contains "enough
\* valid bars for the largest candidate window plus a completed next-bar fill
\* opportunity".  For every valid pair of an accepted optimization the strategy
\* derived later is accepted, and in every period that can be run it decides at
\* least once with a bar left to fill the order.  The validation period, between
\* the others, can be run if one of them can (OptimizationExecution assumes so).
CandidatesHaveRoom ==
    asked # <<>> /\ asked[1] = "optimization" =>
        LET q == asked[2].request
            days == asked[2].days
            legs == RunnableLegs(q, days)
        IN  AcceptsOptimization(q, days) =>
                /\ \A c \in ValidPairs(q) :
                      /\ AcceptsStrategy(CandidateStrategy(c), c[2])
                      /\ \A leg \in legs :
                            FirstDecision(CandidateStrategy(c), c[2]) + 1
                                <= Cardinality(Snapshot(days, Period(q, leg)))
                /\ legs # {} => "validation" \in legs

\* The rules of the forms and those of the server say the same, though each is
\* written in its own language: a form sends every request that the server could
\* accept; a strategy is accepted with the warm-up that the form derives whenever
\* it is with any, and with none shorter; and the form for an optimization refuses
\* exactly what the server refuses whatever data and limit it has.
FormsAgreeWithTheServer ==
    /\ asked # <<>> /\ asked[1] = "strategy" =>
          LET p == asked[2].parameters IN
          AcceptsStrategy(p, asked[2].eligibleAfter) =>
              /\ FormSendsStrategy(p)
              /\ FormEligible(p) <= asked[2].eligibleAfter
              /\ AcceptsStrategy(p, FormEligible(p))
    /\ asked # <<>> /\ asked[1] = "optimization" =>
          LET q == asked[2].request
              days == asked[2].days
          IN  /\ FormSendsOptimization(q) <=> ValidGrid(q) /\ ValidPartitions(q)
              /\ \A leg \in RunnableLegs(q, days) :
                    FormSendsRun(Period(q, leg), StoredSettings(q.settings))

\* TASK-020-multi-indicator-combo-strategy.md: "/strategies/new gains a distinct
\* combo-building UI", to add "a user-composed combination of 2-3 existing base
\* indicator conditions".  What the form sends of a strategy that the server
\* accepts is accepted.
FormsAreAccepted ==
    asked # <<>> /\ asked[1] = "strategy" =>
        LET p == asked[2].parameters IN
        AcceptsStrategy(p, asked[2].eligibleAfter) =>
            AcceptsStrategy(Sent(p), FormEligible(p))

Smaller(row, rows) == {r \in rows : r < row}

\* Paging to the end of a collection shows every row that was there when it
\* began, though rows come in before the page that is read.  A row is missed
\* only when another one got in before it between the two statements of the
\* last page, which is then taken for the end; and a row is shown on two pages
\* only when another one got in before it between them.
WalksAreComplete ==
    \A limit \in PageSizes :
        LET pages == Walk(limit, reads).pages
            table(n) == reads[2 * n]
            end == Len(pages)
            shown == UNION ToSet(pages)
        IN  /\ reads # <<>> /\ ~Walk(limit, reads).more =>
                  \A row \in reads[1] \ shown :
                      Smaller(row, table(end) \ reads[2 * end - 1]) # {}
            /\ \A m, n \in DOMAIN pages : m < n =>
                  \A row \in pages[m] \cap pages[n] :
                      Smaller(row, table(n) \ table(m)) # {}
================================================================================

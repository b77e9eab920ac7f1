---------------------------- MODULE EngineAdapter ----------------------------
(***************************************************************************)
(* One execution of the engine: BacktraderEngineAdapter.execute and the    *)
(* callbacks of _BaseCrossoverStrategy.                                    *)
(*                                                                         *)
(* Backtrader calls the strategy back from its loop over the bars: the     *)
(* broker tries the orders of the previous bar at the open of this one,    *)
(* the strategy is notified of the outcome and then decides on this bar's  *)
(* close.  The adapter does not ask the broker what happened: it keeps its *)
(* own cash and its own events, from which the artifact is built, while    *)
(* the decisions look at the position of the broker.  The broker is the    *)
(* library's; it is modelled from how the adapter uses it (market orders,  *)
(* no commission, cash checked at submission and at execution).            *)
(*                                                                         *)
(* The indicators are left open: a bar may signal an entry and an exit or  *)
(* not, which covers every kind of strategy.                               *)
(*                                                                         *)
(* The two accounts are of different numbers.  The adapter's money and     *)
(* prices are decimals, here integers in units of the rounding quantum.    *)
(* The broker's are binary floats, made from the decimals: its cash is     *)
(* counted in grains, of which a unit has many, and every amount it works  *)
(* out may be off by a few of them.                                        *)
(***************************************************************************)
EXTENDS Integers, Sequences

CONSTANTS
    Manifests,  \* capital, fraction, increment, warm-up
    Bars,       \* what a bar can be
    MaxBars,    \* bound on the length of the feed
    Unit,       \* how many grains of the broker's money make up one unit
    Drift       \* how many grains one conversion or booking may be off

Positive == Nat \ {0}
Rationals == [num : Positive, den : Positive]

ASSUME ManifestsAssumption ==
    Manifests \subseteq [capital : Positive,
                         fraction : {q \in Rationals : q.num <= q.den},
                         increment : Rationals, eligibleAfter : Positive]
\* The bars table has CHECKs: prices are positive, volumes are not negative.
ASSUME BarsAssumption ==
    Bars \subseteq [open : Positive, close : Positive, volume : Nat]
ASSUME MaxBarsAssumption == MaxBars \in Positive
\* However coarse the floats are: how the drift compares with a unit is open.
ASSUME PrecisionAssumption == Unit \in Positive /\ Drift \in Nat

VARIABLES
    manifest,        \* the run manifest
    bars,            \* the bars the feed has delivered
    step,            \* which callback of the loop is next
    cash, position,  \* the broker's account, its cash in grains
    queue,           \* orders the broker has still to try
    notice,          \* what the broker has to tell the strategy
    availableCash,   \* the adapter's account
    orderContext,    \* orders the adapter has submitted and not accounted for
    orderEvents, fillEvents, positionEvents, cashEvents, warnings,
    result,          \* the failure code, "completed", or "none"
    intents,         \* history: every order intent, with the cash it was sized on
    marks            \* history: the adapter's cash and the broker's position at
                     \* the close of each bar

broker == <<cash, position, queue, notice>>
events == <<orderEvents, fillEvents, positionEvents, cashEvents, warnings>>
history == <<intents, marks>>
adapter == <<availableCash, orderContext, events>>
vars == <<manifest, bars, step, broker, adapter, result, history>>

--------------------------------------------------------------------------------
(* Values *)

Sides == {"buy", "sell"}
Refs == 1 .. MaxBars
NoNotice == [ref |-> 0, status |-> "none"]

\* Bars are numbered by their position in the feed; so are all times.
Today == Len(bars)
Bar == bars[Today]

Orders == [ref : Refs, side : Sides, size : Positive]
Contexts == [side : Sides, quantity : Positive, created : Refs]

OrderEvents == [ref : Refs, side : Sides, created : Refs, quantity : Positive,
                status : {"filled", "rejected"}]
FillEvents == [ref : Refs, side : Sides, at : Refs, quantity : Positive,
               price : Positive]
PositionEvents == [at : Refs, quantity : Nat, averageCost : Nat]
CashEvents == [at : Refs, before : Int, after : Int]
Warnings == [code : {"position_sizing_zero_quantity", "zero_volume_fill"},
             at : Refs]

TypeOK ==
    /\ manifest \in Manifests
    /\ bars \in Seq(Bars) /\ Len(bars) <= MaxBars
    /\ step \in {"feed", "broker", "notify", "next", "done"}
    /\ cash \in Int /\ position \in Int
    /\ queue \in Seq(Orders)
    /\ notice \in {NoNotice} \cup [ref : Refs, status : {"completed", "margin"}]
    /\ availableCash \in Int
    /\ DOMAIN orderContext \subseteq Refs
    /\ \A ref \in DOMAIN orderContext : orderContext[ref] \in Contexts
    /\ orderEvents \in Seq(OrderEvents)
    /\ fillEvents \in Seq(FillEvents)
    /\ positionEvents \in Seq(PositionEvents)
    /\ cashEvents \in Seq(CashEvents)
    /\ warnings \in Seq(Warnings)
    /\ result \in {"none", "completed", "missing_next_bar", "engine_error"}
    /\ intents \in Seq([created : Refs, side : Sides, quantity : Positive,
                        onCash : Int])
    /\ marks \in Seq([cash : Int, position : Int])

\* Mutant: the position is sized at the bar's open.
QuantityAtOpen ==
    LET budget == (availableCash * manifest.fraction.num)
                      \div manifest.fraction.den
        units == (budget * manifest.increment.den)
                      \div (Bar.open * manifest.increment.num)
    IN  (units * manifest.increment.num) \div manifest.increment.den

\* The sizing in _submit_entry: three times rounded down.
Quantity ==
    LET budget == (availableCash * manifest.fraction.num)
                      \div manifest.fraction.den
        units == (budget * manifest.increment.den)
                      \div (Bar.close * manifest.increment.num)
    IN  (units * manifest.increment.num) \div manifest.increment.den

--------------------------------------------------------------------------------
(* The feed and the broker *)

LoadBar ==
    /\ step = "feed" /\ Today < MaxBars
    /\ \E bar \in Bars : bars' = Append(bars, bar)
    /\ step' = "broker"
    /\ UNCHANGED <<manifest, broker, adapter, result, history>>

\* The floats that a decimal, or the exact result of an operation, may become.
Near(grains) == grains - Drift .. grains + Drift

Direction(order) == IF order.side = "buy" THEN 1 ELSE -1

\* The cash the broker may work out for an order filled at a price.
Left(order, price) ==
    Near(cash - Direction(order) * order.size * price * Unit)

\* The cash is checked at the close of the bar that created the order, when it
\* is submitted, and at the open of this bar, when it is executed.  Where the
\* cash just covers the order, the roundings decide.
SubmittedAt(order) == bars[intents[order.ref].created].close

MayFill(order, left) ==
    order.side = "buy" =>
        /\ left >= 0
        /\ \E checked \in Left(order, SubmittedAt(order)) : checked >= 0

MayRefuse(order) ==
    /\ order.side = "buy"
    /\ \E price \in {SubmittedAt(order), Bar.open} :
          \E left \in Left(order, price) : left < 0

ExecuteOrder ==
    LET order == Head(queue) IN
    /\ step = "broker" /\ queue # <<>>
    /\ \E left \in Left(order, Bar.open) :
          MayFill(order, left) /\ cash' = left
    /\ position' = position + Direction(order) * order.size
    /\ notice' = [ref |-> order.ref, status |-> "completed"]
    /\ queue' = Tail(queue)
    /\ step' = "notify"
    /\ UNCHANGED <<manifest, bars, adapter, result, history>>

RefuseOrder ==
    LET order == Head(queue) IN
    /\ step = "broker" /\ queue # <<>>
    /\ MayRefuse(order)
    /\ notice' = [ref |-> order.ref, status |-> "margin"]
    /\ queue' = Tail(queue)
    /\ step' = "notify"
    /\ UNCHANGED <<manifest, bars, cash, position, adapter, result, history>>

BrokerIdle ==
    /\ step = "broker" /\ queue = <<>>
    /\ step' = "next"
    /\ UNCHANGED <<manifest, bars, broker, adapter, result, history>>

--------------------------------------------------------------------------------
(* The callbacks of the strategy *)

Drop(ref) == [r \in DOMAIN orderContext \ {ref} |-> orderContext[r]]

OrderEvent(ref, status) ==
    [ref |-> ref, side |-> orderContext[ref].side,
     created |-> orderContext[ref].created,
     quantity |-> orderContext[ref].quantity, status |-> status]

\* What _handle_fill books for a fill at the given price.
BookFill(ref, at, price) ==
    LET order == orderContext[ref]
        bought == order.side = "buy"
        value == price * order.quantity
        after == IF bought THEN availableCash - value ELSE availableCash + value
    IN  /\ availableCash' = after
        /\ orderEvents' = Append(orderEvents, OrderEvent(ref, "filled"))
        /\ fillEvents' = Append(fillEvents,
               [ref |-> ref, side |-> order.side, at |-> at,
                quantity |-> order.quantity, price |-> price])
        /\ cashEvents' = Append(cashEvents,
               [at |-> at, before |-> availableCash, after |-> after])
        /\ positionEvents' = Append(positionEvents,
               [at |-> at, quantity |-> IF bought THEN order.quantity ELSE 0,
                averageCost |-> IF bought THEN price ELSE 0])
        /\ warnings' = IF bars[at].volume = 0
                       THEN Append(warnings, [code |-> "zero_volume_fill",
                                              at |-> at])
                       ELSE warnings

Notified(status) == step = "notify" /\ notice.status = status

\* Mutant: the fill is booked at the bar's close.
NotifyCompletedAtClose ==
    /\ Notified("completed")
    /\ BookFill(notice.ref, Today, Bar.close)
    /\ orderContext' = Drop(notice.ref)
    /\ notice' = NoNotice
    /\ step' = "broker"
    /\ UNCHANGED <<manifest, bars, cash, position, queue, result, history>>

\* Mutant: the bar of the fill is the one that created the order.
NotifyCompletedAtSignal ==
    LET at == orderContext[notice.ref].created IN
    /\ Notified("completed")
    /\ BookFill(notice.ref, at, bars[at].open)
    /\ orderContext' = Drop(notice.ref)
    /\ notice' = NoNotice
    /\ step' = "broker"
    /\ UNCHANGED <<manifest, bars, cash, position, queue, result, history>>

NotifyCompleted ==
    /\ Notified("completed")
    /\ BookFill(notice.ref, Today, Bar.open)
    /\ orderContext' = Drop(notice.ref)
    /\ notice' = NoNotice
    /\ step' = "broker"
    /\ UNCHANGED <<manifest, bars, cash, position, queue, result, history>>

NotifyMargin ==
    /\ Notified("margin")
    /\ orderEvents' = Append(orderEvents, OrderEvent(notice.ref, "rejected"))
    /\ orderContext' = Drop(notice.ref)
    /\ notice' = NoNotice
    /\ step' = "broker"
    /\ UNCHANGED <<manifest, bars, cash, position, queue, availableCash,
                   fillEvents, positionEvents, cashEvents, warnings, result,
                   history>>

\* The end of next(): the bar is closed and the loop goes on.
EndOfBar ==
    /\ step = "next"
    /\ step' = "feed"
    /\ marks' = Append(marks, [cash |-> availableCash, position |-> position])
    /\ UNCHANGED <<manifest, bars, cash, position, notice, availableCash,
                   orderEvents, fillEvents, positionEvents, cashEvents, result>>

\* An order is created, and noted under its reference.
Submit(side, quantity) ==
    LET ref == Len(intents) + 1 IN
    /\ intents' = Append(intents, [created |-> Today, side |-> side,
                                   quantity |-> quantity,
                                   onCash |-> availableCash])
    /\ queue' = Append(queue, [ref |-> ref, side |-> side, size |-> quantity])
    /\ orderContext' = [r \in DOMAIN orderContext \cup {ref} |->
           IF r = ref THEN [side |-> side, quantity |-> quantity,
                            created |-> Today]
           ELSE orderContext[r]]

Eligible == Today >= manifest.eligibleAfter

\* next() outside the warm-up, or without a signal that applies.
Hold ==
    /\ EndOfBar
    /\ UNCHANGED <<queue, orderContext, warnings, intents>>

\* Mutant: a position is no reason not to enter again.
SubmitEntryAgain ==
    /\ EndOfBar
    /\ Eligible /\ Quantity > 0
    /\ Submit("buy", Quantity)
    /\ UNCHANGED warnings

SubmitEntry ==
    /\ EndOfBar
    /\ Eligible /\ position = 0 /\ Quantity > 0
    /\ Submit("buy", Quantity)
    /\ UNCHANGED warnings

WarnZeroQuantity ==
    /\ EndOfBar
    /\ Eligible /\ position = 0 /\ Quantity <= 0
    /\ warnings' = Append(warnings, [code |-> "position_sizing_zero_quantity",
                                     at |-> Today])
    /\ UNCHANGED <<queue, orderContext, intents>>

SubmitExit ==
    /\ EndOfBar
    /\ Eligible /\ position > 0
    /\ Submit("sell", position)
    /\ UNCHANGED warnings

\* Mutant: only an order for an entry fails the run.
StopEntriesOnly ==
    /\ step = "feed" /\ bars # <<>>
    /\ result' = IF \E r \in DOMAIN orderContext : orderContext[r].side = "buy"
                 THEN "missing_next_bar" ELSE "completed"
    /\ step' = "done"
    /\ UNCHANGED <<manifest, bars, broker, adapter, history>>

\* The feed is exhausted.
Stop ==
    /\ step = "feed" /\ bars # <<>>
    /\ result' = IF DOMAIN orderContext # {} THEN "missing_next_bar"
                 ELSE "completed"
    /\ step' = "done"
    /\ UNCHANGED <<manifest, bars, broker, adapter, history>>

\* An exception anywhere in the loop: the result carries no events.
RaiseInEngine ==
    /\ step # "done"
    /\ result' = "engine_error"
    /\ step' = "done"
    /\ orderEvents' = <<>> /\ fillEvents' = <<>> /\ positionEvents' = <<>>
    /\ cashEvents' = <<>> /\ warnings' = <<>>
    /\ UNCHANGED <<manifest, bars, broker, availableCash, orderContext, history>>

Init ==
    /\ manifest \in Manifests
    /\ bars = <<>>
    /\ step = "feed"
    /\ cash \in Near(manifest.capital * Unit)
    /\ position = 0
    /\ queue = <<>>
    /\ notice = NoNotice
    /\ availableCash = manifest.capital
    /\ orderContext = [r \in {} |-> 0]
    /\ orderEvents = <<>> /\ fillEvents = <<>> /\ positionEvents = <<>>
    /\ cashEvents = <<>> /\ warnings = <<>>
    /\ result = "none"
    /\ intents = <<>>
    /\ marks = <<>>

Next ==
    \/ LoadBar \/ ExecuteOrder \/ RefuseOrder \/ BrokerIdle
    \/ NotifyCompleted \/ NotifyMargin
    \/ Hold \/ SubmitEntry \/ WarnZeroQuantity \/ SubmitExit
    \/ Stop \/ RaiseInEngine

Spec == Init /\ [][Next]_vars

--------------------------------------------------------------------------------
(* Properties *)

\* The position the events report.
Reported ==
    IF positionEvents = <<>> THEN 0
    ELSE positionEvents[Len(positionEvents)].quantity

\* The roundings so far: of the capital and of each fill.
Roundings == Drift * (1 + Len(fillEvents))

\* The adapter's books follow the broker's: between two notifications the
\* position its events report is the broker's, and the cash it sizes the next
\* order on is the broker's but for the roundings, although it works both out
\* again from prices and quantities of its own.  Only the broker checks that an
\* order is covered, so it is by the roundings that the adapter may be in debt.
BooksAgree ==
    step # "notify" /\ result # "engine_error" =>
        /\ Reported = position
        /\ cash - availableCash * Unit \in -Roundings .. Roundings
        /\ availableCash * Unit >= -Roundings

\* No look-ahead and no intrabar fill: an order is decided at a bar's close and
\* filled at the open of the very next bar, at that bar's price, for the
\* quantity that was intended; a refused order is never filled.
FillsAtNextOpen ==
    \A i \in DOMAIN fillEvents :
        LET fill == fillEvents[i] IN
        /\ fill.at = intents[fill.ref].created + 1
        /\ fill.price = bars[fill.at].open
        /\ fill.quantity = intents[fill.ref].quantity
        /\ \A k \in DOMAIN orderEvents :
              orderEvents[k].ref = fill.ref => orderEvents[k].status = "filled"

\* Long only, one position at a time: never two orders on their way, never a
\* short position, and the fills are round trips, each sale closing exactly what
\* the purchase before it opened.
RoundTripsOnly ==
    /\ position >= 0
    /\ \A r1, r2 \in DOMAIN orderContext : r1 = r2
    /\ \A i \in DOMAIN fillEvents :
          /\ fillEvents[i].side = IF i % 2 = 1 THEN "buy" ELSE "sell"
          /\ i % 2 = 0 => fillEvents[i].quantity = fillEvents[i - 1].quantity

\* Every intent is accounted for: it has one order event, or it is the single
\* intent of the last bar, and then (and only then) the run fails for want of a
\* next bar.
IntentsAreSettled ==
    step = "done" /\ result # "engine_error" =>
        LET settled == {orderEvents[k].ref : k \in DOMAIN orderEvents}
            unsettled == {r \in DOMAIN intents : intents[r].created = Len(bars)}
        IN  /\ settled = DOMAIN intents \ unsettled
            /\ Len(orderEvents) = Len(intents) - (IF unsettled = {} THEN 0 ELSE 1)
            /\ (result = "missing_next_bar") <=> (unsettled # {})

\* An entry costs, at the close it is sized on, at most the declared fraction of
\* the cash there was.
EntriesAreWithinBudget ==
    \A r \in DOMAIN intents :
        intents[r].side = "buy" =>
            intents[r].quantity * bars[intents[r].created].close
                * manifest.fraction.den
                <= intents[r].onCash * manifest.fraction.num
================================================================================

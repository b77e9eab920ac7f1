----------------------------- MODULE EngineProofs -----------------------------
(***************************************************************************)
(* Proofs about EngineAdapter and EngineArtifact for every manifest, every *)
(* feed, any bound on its length and any precision of the broker's money.  *)
(* Of the adapter: its books follow the broker's but for the roundings,    *)
(* orders are filled at the next open, the fills are round trips, every    *)
(* intent is settled and every entry is within its budget.  Of the         *)
(* artifact: the snapshots, rebuilt from the events alone, are the         *)
(* accounts at every close, the matched fills explain what was gained, and *)
(* the drawdown is the worst loss.                                         *)
(***************************************************************************)
EXTENDS EngineArtifact, TLAPS, FiniteSetTheorems, NaturalsInduction, WellFoundedInduction

(* PART ONE: THE ADAPTER *)

\* The reference of the last order.
Latest == Len(intents)

\* What the fills so far have bought and not sold.
HeldByFills ==
    IF Len(fillEvents) % 2 = 1 THEN fillEvents[Len(fillEvents)].quantity ELSE 0

\* No order is on its way.
Idle == DOMAIN orderContext = {} /\ queue = <<>>

\* The latest order is on its way since the close of the given day, and is the
\* only one.
SentOn(day) ==
    /\ Latest >= 1 /\ intents[Latest].created = day
    /\ DOMAIN orderContext = {Latest}
    /\ orderContext[Latest] = [side |-> intents[Latest].side,
                               quantity |-> intents[Latest].quantity,
                               created |-> day]

Queued ==
    queue = <<[ref |-> Latest, side |-> intents[Latest].side,
               size |-> intents[Latest].quantity]>>

(* How far each callback has the latest order. *)
StepInv ==
    /\ step # "done" => result = "none"
    /\ step # "notify" => notice = NoNotice \/ result = "engine_error"
    /\ step = "feed" => Idle \/ (SentOn(Today) /\ Queued)
    /\ step = "broker" => Idle \/ (SentOn(Today - 1) /\ Queued)
    /\ step = "notify" => /\ SentOn(Today - 1) /\ queue = <<>>
                          /\ notice # NoNotice /\ notice.ref = Latest
    /\ step = "next" => Idle
    /\ step = "done" /\ result # "engine_error" =>
          IF result = "completed" THEN Idle
          ELSE result = "missing_next_bar" /\ SentOn(Today)

(* Orders are created on days of their own, in order. *)
DaysInv ==
    /\ Latest <= Today
    /\ \A r \in 1 .. Latest : intents[r].created <= Today
    /\ step \in {"broker", "notify", "next"} =>
          /\ Latest < Today
          /\ \A r \in 1 .. Latest : intents[r].created < Today
    /\ result # "engine_error" /\ Idle =>
          \A r \in 1 .. Latest : intents[r].created < Today
    /\ \A r \in 1 .. Latest - 1 : intents[r].created < Today

(* An exit is for what the fills hold, an entry when they hold nothing. *)
SizeInv ==
    \A r \in DOMAIN orderContext : result # "engine_error" =>
        HeldByFills = IF orderContext[r].side = "buy" THEN 0
                      ELSE orderContext[r].quantity

\* The broker's money is that amount of the adapter's but for some grains.
Within(grains, money, slack) == grains - money * Unit \in -slack .. slack

(* The books, and how they differ from the broker's until a fill is booked.  That
   the broker's cash covered a purchase is all that keeps the adapter's from
   falling deeper. *)
BooksInv ==
    result # "engine_error" =>
        /\ Reported = HeldByFills
        /\ availableCash * Unit >= -Roundings
        /\ IF step = "notify" /\ notice.status = "completed"
           THEN LET order == orderContext[Latest]
                    value == order.quantity * Bar.open
                    slack == Roundings + Drift
                IN  IF order.side = "buy"
                    THEN /\ Within(cash, availableCash - value, slack) /\ cash >= 0
                         /\ position = order.quantity
                    ELSE /\ Within(cash, availableCash + value, slack)
                         /\ position = 0
           ELSE Within(cash, availableCash, Roundings) /\ position = HeldByFills

(* Order events and fills, one by one. *)
EventsInv ==
    /\ result # "engine_error" =>
          Len(orderEvents) = Latest - (IF DOMAIN orderContext = {} THEN 0 ELSE 1)
    /\ \A k \in DOMAIN orderEvents : orderEvents[k].ref = k
    /\ \A i \in DOMAIN fillEvents :
          LET fill == fillEvents[i] IN
          /\ fill.ref \in DOMAIN orderEvents /\ fill.ref <= Latest
          /\ orderEvents[fill.ref].status = "filled"
          /\ fill.at = intents[fill.ref].created + 1 /\ fill.at <= Today
          /\ fill.price = bars[fill.at].open
          /\ fill.quantity = intents[fill.ref].quantity

RoundTrips ==
    \A i \in DOMAIN fillEvents :
        /\ fillEvents[i].side = IF i % 2 = 1 THEN "buy" ELSE "sell"
        /\ i % 2 = 0 => fillEvents[i].quantity = fillEvents[i - 1].quantity

IInv ==
    /\ TypeOK
    /\ StepInv
    /\ DaysInv
    /\ DOMAIN orderContext \subseteq {Latest}
    /\ SizeInv
    /\ position >= 0
    /\ BooksInv
    /\ EventsInv
    /\ RoundTrips
    /\ EntriesAreWithinBudget

--------------------------------------------------------------------------------
(* Arithmetic *)

\* Division rounds down.
LEMMA DivFloor ==
    ASSUME NEW a \in Int, NEW b \in Positive
    PROVE  a \div b \in Int /\ (a \div b) * b <= a
BY DEF Positive

LEMMA TimesMonotone ==
    ASSUME NEW a \in Int, NEW b \in Int, NEW c \in Positive, a <= b
    PROVE  a * c <= b * c
BY DEF Positive

LEMMA TimesCancel ==
    ASSUME NEW a \in Int, NEW b \in Int, NEW c \in Positive, a * c <= b * c
    PROVE  a <= b
BY DEF Positive

LEMMA TimesPositive ==
    ASSUME NEW a \in Positive, NEW b \in Positive
    PROVE  a * b \in Positive
BY DEF Positive

\* Rounding down three times, as _submit_entry does, stays within the budget.
LEMMA ThreeRoundings ==
    ASSUME NEW money \in Int, NEW price \in Positive,
           NEW fn \in Positive, NEW fd \in Positive,
           NEW in \in Positive, NEW id \in Positive,
           NEW budget, budget = (money * fn) \div fd,
           NEW units, units = (budget * id) \div (price * in),
           NEW size, size = (units * in) \div id
    PROVE  size \in Int /\ size * price * fd <= money * fn
<1>1. price * in \in Positive /\ money * fn \in Int
  BY TimesPositive DEF Positive
<1>2. budget \in Int /\ budget * fd <= money * fn
  BY <1>1, DivFloor
<1>3. budget * id \in Int
  BY <1>2 DEF Positive
<1>4. units \in Int /\ units * (price * in) <= budget * id
  BY <1>1, <1>3, DivFloor
<1>5. units * in \in Int
  BY <1>4 DEF Positive
<1>6. size \in Int /\ size * id <= units * in
  BY <1>5, DivFloor
<1>7. size * id \in Int /\ size * price \in Int
  BY <1>6 DEF Positive
<1>8. size * id * price <= units * in * price
  BY <1>5, <1>6, <1>7, TimesMonotone
<1>9. size * id * price = size * price * id
  BY <1>6 DEF Positive
<1>10. units * in * price = units * (price * in)
  BY <1>4 DEF Positive
<1>11. size * price * id <= budget * id
  BY <1>4, <1>8, <1>9, <1>10, <1>3, <1>5, <1>7 DEF Positive
<1>12. size * price <= budget
  BY <1>11, <1>7, <1>2, TimesCancel
<1>13. size * price * fd <= budget * fd
  BY <1>12, <1>7, <1>2, TimesMonotone
<1>14. size * price * fd \in Int /\ budget * fd \in Int
  BY <1>7, <1>2 DEF Positive
<1> QED  BY <1>13, <1>14, <1>2, <1>1, <1>6

\* One more amount of the broker's is rounded.
LEMMA DriftAdds ==
    ASSUME NEW grains \in Int, NEW money \in Int, NEW slack \in Int,
           NEW value \in Int, Within(grains, money, slack),
           NEW left \in Near(grains - value * Unit)
    PROVE  left \in Int /\ Within(left, money - value, slack + Drift)
<1> DEFINE had == money * Unit
           moved == value * Unit
<1>1. /\ Unit \in Int /\ Drift \in Int
      /\ had \in Int /\ moved \in Int /\ (money - value) * Unit = had - moved
  BY PrecisionAssumption DEF Positive
<1>2. /\ grains - had \in -slack .. slack
      /\ left \in (grains - moved) - Drift .. (grains - moved) + Drift
  BY DEF Within, Near
<1> HIDE DEF had, moved
<1>3. left \in Int /\ left - (had - moved) \in -(slack + Drift) .. slack + Drift
  BY <1>1, <1>2
<1> QED  BY <1>1, <1>3 DEF Within

\* What was covered by the broker's cash is covered but for the slack.
LEMMA CoveredByCash ==
    ASSUME NEW grains \in Int, NEW money \in Int, NEW slack \in Int,
           Within(grains, money, slack), grains >= 0
    PROVE  money * Unit >= -slack
<1> DEFINE had == money * Unit
<1>1. had \in Int /\ grains - had \in -slack .. slack
  BY PrecisionAssumption DEF Positive, Within
<1> HIDE DEF had
<1>2. had >= -slack
  BY <1>1
<1> QED  BY <1>2 DEF had

--------------------------------------------------------------------------------
(* Initial states *)

\* The manifest and the bars, by their parts.
LEMMA InputsTyped ==
    ASSUME manifest \in Manifests, bars \in Seq(Bars)
    PROVE  /\ manifest.capital \in Positive
           /\ manifest.fraction.num \in Positive
           /\ manifest.fraction.den \in Positive
           /\ manifest.increment.num \in Positive
           /\ manifest.increment.den \in Positive
           /\ Today \in Nat
           /\ \A i \in 1 .. Today : /\ bars[i] \in Bars
                                    /\ bars[i].open \in Positive
                                    /\ bars[i].close \in Positive
                                    /\ bars[i].volume \in Nat
<1>1. manifest.fraction \in Rationals /\ manifest.increment \in Rationals
      /\ manifest.capital \in Positive
  BY ManifestsAssumption
<1>2. Today \in Nat /\ \A i \in 1 .. Today : bars[i] \in Bars
  BY DEF Today
<1>3. \A bar \in Bars : bar.open \in Positive /\ bar.close \in Positive
                        /\ bar.volume \in Nat
  BY BarsAssumption
<1> QED  BY <1>1, <1>2, <1>3 DEF Rationals

\* The events and the intents, by their parts.
LEMMA ListsTyped ==
    ASSUME TypeOK
    PROVE  /\ Latest \in Nat /\ DOMAIN intents = 1 .. Latest
           /\ \A r \in 1 .. Latest : /\ intents[r].created \in Refs
                                    /\ intents[r].side \in Sides
                                    /\ intents[r].quantity \in Positive
                                    /\ intents[r].onCash \in Int
           /\ Len(fillEvents) \in Nat
           /\ DOMAIN fillEvents = 1 .. Len(fillEvents)
           /\ \A i \in 1 .. Len(fillEvents) :
                 /\ fillEvents[i].ref \in Refs /\ fillEvents[i].at \in Refs
                 /\ fillEvents[i].quantity \in Positive
                 /\ fillEvents[i].price \in Positive
           /\ Len(orderEvents) \in Nat
           /\ DOMAIN orderEvents = 1 .. Len(orderEvents)
<1> DEFINE Intents == [created : Refs, side : Sides, quantity : Positive,
                       onCash : Int]
<1>0. intents \in Seq(Intents)
  BY DEF TypeOK
<1>1. /\ Latest \in Nat /\ DOMAIN intents = 1 .. Latest
      /\ \A r \in 1 .. Latest : intents[r] \in Intents
  <2> HIDE DEF Intents
  <2> QED  BY <1>0 DEF Latest
<1>2. /\ Len(fillEvents) \in Nat /\ DOMAIN fillEvents = 1 .. Len(fillEvents)
      /\ \A i \in 1 .. Len(fillEvents) : fillEvents[i] \in FillEvents
  BY DEF TypeOK
<1>3. Len(orderEvents) \in Nat /\ DOMAIN orderEvents = 1 .. Len(orderEvents)
  BY DEF TypeOK
<1> QED  BY <1>1, <1>2, <1>3 DEF FillEvents

LEMMA InitIInv ==
    ASSUME Init
    PROVE  IInv
<1> USE DEF Init
<1> DEFINE start == manifest.capital * Unit
<1>0. /\ manifest.capital \in Positive /\ start \in Positive
      /\ Drift \in Nat /\ Roundings = Drift
      /\ cash \in start - Drift .. start + Drift
  BY InputsTyped, TimesPositive, PrecisionAssumption DEF Roundings, Near
<1>1. TypeOK
  <2>1. manifest.capital \in Int /\ cash \in Int
    <3> HIDE DEF start
    <3> QED  BY <1>0 DEF Positive
  <2> QED  BY <2>1, MaxBarsAssumption DEF TypeOK, Positive
<1>2. StepInv
  BY DEF StepInv, Idle
<1>3. DaysInv
  BY DEF DaysInv, Latest, Today
<1>4. SizeInv /\ DOMAIN orderContext \subseteq {Latest} /\ position >= 0
  BY DEF SizeInv
<1>5. BooksInv
  <2>1. cash - start \in -Roundings .. Roundings /\ start >= -Roundings
    <3> HIDE DEF start
    <3> QED  BY <1>0 DEF Positive
  <2> QED  BY <2>1 DEF BooksInv, Within, Reported, HeldByFills
<1>6. EventsInv
  BY DEF EventsInv, Latest
<1>7. RoundTrips
  BY DEF RoundTrips
<1>8. EntriesAreWithinBudget
  BY DEF EntriesAreWithinBudget
<1> QED  BY <1>1, <1>2, <1>3, <1>4, <1>5, <1>6, <1>7, <1>8 DEF IInv

--------------------------------------------------------------------------------
(* The steps *)

LEMMA LoadBarStep ==
    ASSUME IInv, LoadBar
    PROVE  IInv'
<1>0. /\ TypeOK /\ StepInv /\ DaysInv /\ SizeInv /\ BooksInv /\ EventsInv
      /\ RoundTrips /\ EntriesAreWithinBudget
  BY DEF IInv
<1>1. PICK bar \in Bars : bars' = Append(bars, bar)
  BY DEF LoadBar
<1>2. /\ step = "feed" /\ step' = "broker" /\ Today < MaxBars
      /\ UNCHANGED <<manifest, cash, position, queue, notice, availableCash,
                     orderContext, orderEvents, fillEvents, positionEvents,
                     cashEvents, warnings, result, intents, marks>>
  BY DEF LoadBar, broker, adapter, events, history
<1>3. /\ Today \in Nat /\ Today' = Today + 1 /\ bars' \in Seq(Bars)
      /\ \A i \in 1 .. Today : bars'[i] = bars[i]
  BY <1>0, <1>1 DEF TypeOK, Today
<1>4. TypeOK'
  BY <1>0, <1>2, <1>3, MaxBarsAssumption DEF TypeOK, Today, Positive
<1>5. /\ Latest' = Latest /\ Latest \in Nat /\ HeldByFills' = HeldByFills
      /\ Reported' = Reported /\ Roundings' = Roundings /\ (Idle' <=> Idle)
  BY <1>0, <1>2 DEF Latest, HeldByFills, Reported, Roundings, Idle, TypeOK
<1>6. StepInv'
  BY <1>0, <1>2, <1>3, <1>5 DEF StepInv, SentOn, Queued
<1>7. \A r \in 1 .. Latest : intents[r].created \in Nat
  BY <1>0, ListsTyped DEF Refs
<1>8. DaysInv'
  <2>1. /\ Latest <= Today
        /\ \A r \in 1 .. Latest : intents[r].created <= Today
    BY <1>0 DEF DaysInv
  <2>2. Latest < Today' /\ \A r \in 1 .. Latest : intents[r].created < Today'
    BY <1>3, <1>5, <1>7, <2>1
  <2>3. /\ Latest <= Today'
        /\ \A r \in 1 .. Latest : intents[r].created <= Today'
    BY <1>3, <1>5, <1>7, <2>2
  <2>4. \A r \in 1 .. Latest - 1 : r \in 1 .. Latest
    BY <1>5
  <2> QED  BY <1>2, <1>5, <2>2, <2>3, <2>4 DEF DaysInv
<1>9. SizeInv' /\ (DOMAIN orderContext \subseteq {Latest})' /\ (position >= 0)'
  BY <1>0, <1>2, <1>5 DEF SizeInv, IInv
<1>10. BooksInv'
  BY <1>0, <1>2, <1>5 DEF BooksInv, Within
<1>11. EventsInv'
  <2>1. \A i \in DOMAIN fillEvents : fillEvents[i].at \in Refs
    BY <1>0, ListsTyped
  <2> QED  BY <1>0, <1>2, <1>3, <1>5, <2>1 DEF EventsInv, Refs
<1>12. RoundTrips'
  BY <1>0, <1>2 DEF RoundTrips
<1>13. EntriesAreWithinBudget'
  <2>1. \A r \in DOMAIN intents : intents[r].created \in 1 .. Today
    BY <1>0, ListsTyped DEF DaysInv, Refs
  <2> QED  BY <1>0, <1>2, <1>3, <2>1 DEF EntriesAreWithinBudget
<1> QED  BY <1>4, <1>6, <1>8, <1>9, <1>10, <1>11, <1>12, <1>13 DEF IInv

\* Nothing but the callback that is next, what the broker holds for it and the
\* result changes: the parts of the invariant that such a step keeps.
LEMMA BooksUntouched ==
    ASSUME IInv,
           UNCHANGED <<manifest, bars, availableCash, orderContext, orderEvents,
                       fillEvents, positionEvents, intents, result>>
    PROVE  /\ Latest' = Latest /\ Today' = Today /\ HeldByFills' = HeldByFills
           /\ Reported' = Reported /\ Roundings' = Roundings
           /\ (DOMAIN orderContext \subseteq {Latest})'
           /\ SizeInv' /\ EventsInv' /\ RoundTrips' /\ EntriesAreWithinBudget'
<1>1. /\ Latest' = Latest /\ Today' = Today /\ HeldByFills' = HeldByFills
      /\ Reported' = Reported /\ Roundings' = Roundings
  BY DEF Latest, Today, HeldByFills, Reported, Roundings
<1>2. SizeInv' /\ (DOMAIN orderContext \subseteq {Latest})'
  BY <1>1 DEF SizeInv, IInv
<1>3. EventsInv'
  BY <1>1 DEF EventsInv, IInv
<1>4. RoundTrips' /\ EntriesAreWithinBudget'
  BY <1>1 DEF RoundTrips, EntriesAreWithinBudget, IInv
<1> QED  BY <1>1, <1>2, <1>3, <1>4

LEMMA BrokerIdleStep ==
    ASSUME IInv, BrokerIdle
    PROVE  IInv'
<1>1. /\ step = "broker" /\ step' = "next" /\ queue = <<>>
      /\ UNCHANGED <<manifest, bars, cash, position, queue, notice,
                     availableCash, orderContext, orderEvents, fillEvents,
                     positionEvents, cashEvents, warnings, result, intents,
                     marks>>
  BY DEF BrokerIdle, broker, adapter, events, history
<1>2. /\ Latest' = Latest /\ Today' = Today /\ HeldByFills' = HeldByFills
      /\ Reported' = Reported /\ Roundings' = Roundings
      /\ (DOMAIN orderContext \subseteq {Latest})'
      /\ SizeInv' /\ EventsInv' /\ RoundTrips' /\ EntriesAreWithinBudget'
  BY <1>1, BooksUntouched
<1>3. TypeOK'
  BY <1>1 DEF IInv, TypeOK
<1>4. Idle /\ Idle'
  BY <1>1 DEF IInv, StepInv, Idle, Queued
<1>5. StepInv'
  BY <1>1, <1>4 DEF IInv, StepInv
<1>6. DaysInv'
  BY <1>1, <1>2 DEF IInv, DaysInv
<1>7. BooksInv' /\ (position >= 0)'
  BY <1>1, <1>2 DEF IInv, BooksInv, Within
<1> QED  BY <1>2, <1>3, <1>5, <1>6, <1>7 DEF IInv

\* The order the broker tries is the latest.
LEMMA TriedOrder ==
    ASSUME IInv, step = "broker", queue # <<>>
    PROVE  /\ SentOn(Today - 1) /\ Queued
           /\ Head(queue) = [ref |-> Latest, side |-> intents[Latest].side,
                             size |-> intents[Latest].quantity]
           /\ Tail(queue) = <<>>
           /\ Latest \in Refs /\ Today \in Refs
           /\ intents[Latest].quantity \in Positive
           /\ intents[Latest].side \in Sides
           /\ HeldByFills = IF intents[Latest].side = "buy" THEN 0
                            ELSE intents[Latest].quantity
           /\ Bar.open \in Positive
<1>1. SentOn(Today - 1) /\ Queued
  BY DEF IInv, StepInv, Idle
<1>2. TypeOK /\ DaysInv
  BY DEF IInv
<1>3. Latest \in 1 .. Latest /\ Latest < Today /\ Today \in Nat
      /\ Today <= MaxBars
  BY <1>1, <1>2, ListsTyped DEF SentOn, DaysInv, TypeOK, Today
<1>4. HeldByFills = IF intents[Latest].side = "buy" THEN 0
                    ELSE intents[Latest].quantity
  BY <1>1 DEF IInv, SizeInv, StepInv, SentOn
<1>5. Bar.open \in Positive
  <2>1. Today \in 1 .. Today
    BY <1>2, <1>3, ListsTyped
  <2>2. manifest \in Manifests /\ bars \in Seq(Bars)
    BY <1>2 DEF TypeOK
  <2> QED  BY <2>1, <2>2, InputsTyped DEF Bar
<1>6. Latest \in Refs /\ Today \in Refs
  BY <1>3, MaxBarsAssumption, ListsTyped, <1>2 DEF Refs, Positive
<1>7. intents[Latest].quantity \in Positive /\ intents[Latest].side \in Sides
  BY <1>2, <1>3, ListsTyped
<1>8. Head(queue) = [ref |-> Latest, side |-> intents[Latest].side,
                     size |-> intents[Latest].quantity]
      /\ Tail(queue) = <<>>
  BY <1>1 DEF Queued
<1> QED  BY <1>1, <1>4, <1>5, <1>6, <1>7, <1>8

LEMMA ExecuteOrderStep ==
    ASSUME IInv, ExecuteOrder
    PROVE  IInv'
<1> DEFINE order == Head(queue)
<1>1. /\ step = "broker" /\ step' = "notify" /\ queue # <<>>
      /\ queue' = Tail(queue)
      /\ notice' = [ref |-> order.ref, status |-> "completed"]
      /\ cash' \in Left(order, Bar.open) /\ MayFill(order, cash')
      /\ position' = position + Direction(order) * order.size
      /\ UNCHANGED <<manifest, bars, availableCash, orderContext, orderEvents,
                     fillEvents, positionEvents, cashEvents, warnings, result,
                     intents, marks>>
  BY DEF ExecuteOrder, adapter, events, history
<1>2. /\ Latest' = Latest /\ Today' = Today /\ HeldByFills' = HeldByFills
      /\ Reported' = Reported /\ Roundings' = Roundings
      /\ (DOMAIN orderContext \subseteq {Latest})'
      /\ SizeInv' /\ EventsInv' /\ RoundTrips' /\ EntriesAreWithinBudget'
  BY <1>1, BooksUntouched
<1>3. /\ SentOn(Today - 1)
      /\ order = [ref |-> Latest, side |-> intents[Latest].side,
                  size |-> intents[Latest].quantity]
      /\ Tail(queue) = <<>>
      /\ Latest \in Refs /\ Today \in Refs
      /\ intents[Latest].quantity \in Positive /\ intents[Latest].side \in Sides
      /\ HeldByFills = IF intents[Latest].side = "buy" THEN 0
                       ELSE intents[Latest].quantity
      /\ Bar.open \in Positive
  BY <1>1, TriedOrder
<1>4. /\ Within(cash, availableCash, Roundings)
      /\ position = HeldByFills /\ Reported = HeldByFills
      /\ availableCash * Unit >= -Roundings
      /\ result = "none" /\ cash \in Int /\ availableCash \in Int
      /\ Roundings \in Int
  <2>1. /\ Within(cash, availableCash, Roundings)
        /\ position = HeldByFills /\ Reported = HeldByFills
        /\ availableCash * Unit >= -Roundings /\ result = "none"
    BY <1>1 DEF IInv, StepInv, BooksInv
  <2>2. cash \in Int /\ availableCash \in Int /\ Len(fillEvents) \in Nat
    BY ListsTyped DEF IInv, TypeOK
  <2> QED  BY <2>1, <2>2, PrecisionAssumption DEF Roundings
<1> DEFINE quantity == intents[Latest].quantity
           bought == intents[Latest].side = "buy"
           cost == quantity * Bar.open
           spent == IF bought THEN cost ELSE -cost
<1>5. /\ cost \in Int /\ spent \in Int
      /\ Direction(order) * order.size * Bar.open = spent
  BY <1>3 DEF Direction, Positive
<1>6. /\ cash' \in Int /\ Within(cash', availableCash - spent, Roundings + Drift)
      /\ bought => cash' >= 0
      /\ position' = IF bought THEN quantity ELSE 0
  <2>1. cash' \in Near(cash - spent * Unit)
    <3> HIDE DEF spent, order
    <3> QED  BY <1>1, <1>5 DEF Left
  <2>2. cash' \in Int /\ Within(cash', availableCash - spent, Roundings + Drift)
    <3> HIDE DEF spent
    <3> QED  BY <1>4, <1>5, <2>1, DriftAdds
  <2>3. bought => cash' >= 0
    BY <1>1, <1>3 DEF MayFill
  <2>4. Direction(order) * order.size = IF bought THEN quantity ELSE -quantity
    BY <1>3 DEF Direction, Positive
  <2>5. position' = IF bought THEN quantity ELSE 0
    <3>1. position' = position + Direction(order) * order.size
      BY <1>1
    <3>2. quantity \in Int
      BY <1>3 DEF Positive
    <3> HIDE DEF order
    <3> QED  BY <1>3, <1>4, <2>4, <3>1, <3>2
  <2> QED  BY <2>2, <2>3, <2>5
<1>7. TypeOK'
  <2>1. cash' \in Int /\ position' \in Int /\ position' >= 0
    <3> HIDE DEF cost
    <3> QED  BY <1>3, <1>4, <1>5, <1>6 DEF Positive
  <2>2. notice' \in [ref : Refs, status : {"completed", "margin"}]
    BY <1>1, <1>3
  <2> QED  BY <1>1, <1>3, <2>1, <2>2 DEF IInv, TypeOK
<1>8. StepInv'
  BY <1>1, <1>2, <1>3, <1>4 DEF StepInv, SentOn, NoNotice
<1>9. DaysInv'
  <2>1. Idle' <=> FALSE
    BY <1>1, <1>3 DEF Idle, SentOn
  <2> QED  BY <1>1, <1>2, <2>1 DEF IInv, DaysInv
<1>10. position' >= 0
  BY <1>3, <1>6 DEF Positive
<1>11. BooksInv'
  <2>1. Bar' = Bar /\ orderContext'[Latest'].quantity = quantity
        /\ orderContext'[Latest'].side = intents[Latest].side
    BY <1>1, <1>2, <1>3 DEF Bar, SentOn
  <2>2. IF bought THEN Within(cash', availableCash - cost, Roundings + Drift)
        ELSE Within(cash', availableCash + cost, Roundings + Drift)
    <3>1. ~bought => availableCash - spent = availableCash + cost
      <4> HIDE DEF cost
      <4> QED  BY <1>4, <1>5
    <3> HIDE DEF cost
    <3> QED  BY <1>6, <3>1
  <2>3. /\ step' = "notify" /\ notice'.status = "completed"
        /\ availableCash' = availableCash
    BY <1>1
  <2> QED  BY <1>2, <1>4, <1>6, <2>1, <2>2, <2>3 DEF BooksInv
<1> QED  BY <1>2, <1>7, <1>8, <1>9, <1>10, <1>11 DEF IInv

LEMMA RefuseOrderStep ==
    ASSUME IInv, RefuseOrder
    PROVE  IInv'
<1> DEFINE order == Head(queue)
<1>1. /\ step = "broker" /\ step' = "notify" /\ queue # <<>>
      /\ queue' = Tail(queue)
      /\ notice' = [ref |-> order.ref, status |-> "margin"]
      /\ UNCHANGED <<manifest, bars, cash, position, availableCash, orderContext,
                     orderEvents, fillEvents, positionEvents, cashEvents,
                     warnings, result, intents, marks>>
  BY DEF RefuseOrder, adapter, events, history
<1>2. /\ Latest' = Latest /\ Today' = Today /\ HeldByFills' = HeldByFills
      /\ Reported' = Reported /\ Roundings' = Roundings
      /\ (DOMAIN orderContext \subseteq {Latest})'
      /\ SizeInv' /\ EventsInv' /\ RoundTrips' /\ EntriesAreWithinBudget'
  BY <1>1, BooksUntouched
<1>3. /\ SentOn(Today - 1)
      /\ order.ref = Latest
      /\ Tail(queue) = <<>>
      /\ Latest \in Refs
  BY <1>1, TriedOrder
<1>4. TypeOK'
  <2>1. notice' \in [ref : Refs, status : {"completed", "margin"}]
    BY <1>1, <1>3
  <2> QED  BY <1>1, <1>3, <2>1 DEF IInv, TypeOK
<1>5. StepInv'
  BY <1>1, <1>2, <1>3 DEF IInv, StepInv, SentOn, NoNotice
<1>6. DaysInv'
  <2>1. Idle' <=> FALSE
    BY <1>1, <1>3 DEF Idle, SentOn
  <2> QED  BY <1>1, <1>2, <2>1 DEF IInv, DaysInv
<1>7. BooksInv' /\ (position >= 0)'
  BY <1>1, <1>2 DEF IInv, BooksInv, Within
<1> QED  BY <1>2, <1>4, <1>5, <1>6, <1>7 DEF IInv

LEMMA RaiseInEngineStep ==
    ASSUME IInv, RaiseInEngine
    PROVE  IInv'
<1>1. /\ step' = "done" /\ result' = "engine_error"
      /\ orderEvents' = <<>> /\ fillEvents' = <<>> /\ positionEvents' = <<>>
      /\ cashEvents' = <<>> /\ warnings' = <<>>
      /\ UNCHANGED <<manifest, bars, cash, position, queue, notice,
                     availableCash, orderContext, intents, marks>>
  BY DEF RaiseInEngine, broker, history
<1>2. TypeOK'
  BY <1>1 DEF IInv, TypeOK
<1>3. Latest' = Latest /\ Today' = Today
  BY <1>1 DEF Latest, Today
<1>4. StepInv' /\ DaysInv' /\ SizeInv' /\ BooksInv'
      /\ (position >= 0)' /\ (DOMAIN orderContext \subseteq {Latest})'
  BY <1>1, <1>3 DEF IInv, StepInv, DaysInv, SizeInv, BooksInv
<1>5. EventsInv' /\ RoundTrips'
  BY <1>1 DEF EventsInv, RoundTrips
<1>6. EntriesAreWithinBudget'
  BY <1>1 DEF IInv, EntriesAreWithinBudget
<1> QED  BY <1>2, <1>4, <1>5, <1>6 DEF IInv

LEMMA StopStep ==
    ASSUME IInv, Stop
    PROVE  IInv'
<1>1. /\ step = "feed" /\ step' = "done"
      /\ result' = IF DOMAIN orderContext # {} THEN "missing_next_bar"
                   ELSE "completed"
      /\ UNCHANGED <<manifest, bars, cash, position, queue, notice,
                     availableCash, orderContext, orderEvents, fillEvents,
                     positionEvents, cashEvents, warnings, intents, marks>>
  BY DEF Stop, broker, adapter, events, history
<1>2. TypeOK'
  BY <1>1 DEF IInv, TypeOK
<1>3. /\ Latest' = Latest /\ Today' = Today /\ HeldByFills' = HeldByFills
      /\ Reported' = Reported /\ Roundings' = Roundings
  BY <1>1 DEF Latest, Today, HeldByFills, Reported, Roundings
<1>4. result = "none" /\ result' # "engine_error"
  BY <1>1 DEF IInv, StepInv
<1>5. StepInv'
  BY <1>1, <1>3 DEF IInv, StepInv, SentOn, Idle
<1>6. DaysInv'
  BY <1>1, <1>3, <1>4 DEF IInv, DaysInv, Idle
<1>7. SizeInv' /\ BooksInv' /\ (position >= 0)'
      /\ (DOMAIN orderContext \subseteq {Latest})'
  BY <1>1, <1>3, <1>4 DEF IInv, SizeInv, BooksInv, Within
<1>8. EventsInv' /\ RoundTrips' /\ EntriesAreWithinBudget'
  BY <1>1, <1>3, <1>4 DEF IInv, EventsInv, RoundTrips, EntriesAreWithinBudget
<1> QED  BY <1>2, <1>5, <1>6, <1>7, <1>8 DEF IInv

\* What a callback between a try of the broker and the next bar knows.
LEMMA NotifiedOrder ==
    ASSUME IInv, step = "notify"
    PROVE  /\ SentOn(Today - 1) /\ queue = <<>> /\ notice.ref = Latest
           /\ result = "none" /\ Idle = FALSE
           /\ Latest \in Refs /\ Today \in Refs /\ Today - 1 \in Refs
           /\ intents[Latest].quantity \in Positive
           /\ intents[Latest].side \in Sides
           /\ orderContext[Latest].quantity = intents[Latest].quantity
           /\ orderContext[Latest].side = intents[Latest].side
           /\ orderContext[Latest].created = intents[Latest].created
           /\ intents[Latest].created = Today - 1
           /\ HeldByFills = IF intents[Latest].side = "buy" THEN 0
                            ELSE intents[Latest].quantity
           /\ Bar.open \in Positive /\ Bar.volume \in Nat
           /\ Len(orderEvents) = Latest - 1
           /\ Drop(notice.ref) = [r \in {} |-> 0]
<1>1. SentOn(Today - 1) /\ queue = <<>> /\ notice.ref = Latest /\ result = "none"
  BY DEF IInv, StepInv
<1>2. TypeOK /\ DaysInv /\ SizeInv /\ EventsInv
  BY DEF IInv
<1>3. Latest \in 1 .. Latest /\ Latest < Today /\ Today \in Nat
      /\ Today <= MaxBars
  BY <1>1, <1>2, ListsTyped DEF SentOn, DaysInv, TypeOK, Today
<1>4. Bar.open \in Positive /\ Bar.volume \in Nat
  <2>1. Today \in 1 .. Today
    BY <1>2, <1>3, ListsTyped
  <2>2. manifest \in Manifests /\ bars \in Seq(Bars)
    BY <1>2 DEF TypeOK
  <2> QED  BY <2>1, <2>2, InputsTyped DEF Bar
<1>5. Latest \in Refs /\ Today \in Refs /\ Today - 1 \in Refs
  BY <1>3, MaxBarsAssumption, ListsTyped, <1>2 DEF Refs, Positive
<1>6. intents[Latest].quantity \in Positive /\ intents[Latest].side \in Sides
  BY <1>2, <1>3, ListsTyped
<1>7. /\ intents[Latest].created = Today - 1
      /\ DOMAIN orderContext = {Latest}
      /\ orderContext[Latest].quantity = intents[Latest].quantity
      /\ orderContext[Latest].side = intents[Latest].side
      /\ orderContext[Latest].created = intents[Latest].created
  BY <1>1 DEF SentOn
<1>8. HeldByFills = IF intents[Latest].side = "buy" THEN 0
                    ELSE intents[Latest].quantity
  BY <1>1, <1>2, <1>7 DEF SizeInv
<1>9. Len(orderEvents) = Latest - 1 /\ Idle = FALSE
  BY <1>1, <1>2, <1>7 DEF EventsInv, Idle
<1>10. Drop(notice.ref) = [r \in {} |-> 0]
  BY <1>1, <1>7 DEF Drop
<1> QED  BY <1>1, <1>4, <1>5, <1>6, <1>7, <1>8, <1>9, <1>10

LEMMA NotifyMarginStep ==
    ASSUME IInv, NotifyMargin
    PROVE  IInv'
<1> DEFINE event == OrderEvent(notice.ref, "rejected")
<1>1. /\ step = "notify" /\ notice.status = "margin" /\ step' = "broker"
      /\ orderEvents' = Append(orderEvents, event)
      /\ orderContext' = Drop(notice.ref) /\ notice' = NoNotice
      /\ UNCHANGED <<manifest, bars, cash, position, queue, availableCash,
                     fillEvents, positionEvents, cashEvents, warnings, result,
                     intents, marks>>
  BY DEF NotifyMargin, Notified, history
<1>2. /\ SentOn(Today - 1) /\ queue = <<>> /\ notice.ref = Latest
      /\ result = "none"
      /\ Latest \in Refs /\ Today - 1 \in Refs
      /\ intents[Latest].quantity \in Positive /\ intents[Latest].side \in Sides
      /\ orderContext[Latest].quantity = intents[Latest].quantity
      /\ orderContext[Latest].side = intents[Latest].side
      /\ orderContext[Latest].created = intents[Latest].created
      /\ intents[Latest].created = Today - 1
      /\ Len(orderEvents) = Latest - 1
      /\ orderContext' = [r \in {} |-> 0]
  BY <1>1, NotifiedOrder
<1>3. /\ Latest' = Latest /\ Today' = Today /\ HeldByFills' = HeldByFills
      /\ Reported' = Reported /\ Roundings' = Roundings /\ Latest \in Nat
  BY <1>1, ListsTyped DEF Latest, Today, HeldByFills, Reported, Roundings, IInv
<1>4. event \in OrderEvents /\ event.ref = Latest
  BY <1>2 DEF OrderEvent, OrderEvents
<1>5. /\ orderEvents' \in Seq(OrderEvents) /\ Len(orderEvents') = Latest
      /\ DOMAIN orderEvents' = 1 .. Latest
      /\ orderEvents'[Latest] = event
      /\ \A k \in DOMAIN orderEvents : orderEvents'[k] = orderEvents[k]
      /\ DOMAIN orderEvents = 1 .. Latest - 1
  <2> HIDE DEF event
  <2>1. orderEvents \in Seq(OrderEvents)
    BY DEF IInv, TypeOK
  <2> QED  BY <1>1, <1>2, <1>3, <1>4, <2>1
<1>6. TypeOK'
  <2> HIDE DEF event
  <2> QED  BY <1>1, <1>2, <1>5 DEF IInv, TypeOK
<1>7. DOMAIN orderContext' = {} /\ Idle'
  BY <1>1, <1>2 DEF Idle
<1>8. StepInv'
  BY <1>1, <1>2, <1>7 DEF StepInv
<1>9. DaysInv'
  BY <1>1, <1>2, <1>3, <1>7 DEF IInv, DaysInv
<1>10. SizeInv' /\ (DOMAIN orderContext \subseteq {Latest})' /\ (position >= 0)'
  BY <1>1, <1>7 DEF SizeInv, IInv
<1>11. BooksInv'
  BY <1>1, <1>3 DEF BooksInv, Within, IInv
<1>12. EventsInv'
  <2> HIDE DEF event
  <2> QED  BY <1>1, <1>3, <1>4, <1>5, <1>7, ListsTyped DEF EventsInv, IInv
<1>13. RoundTrips' /\ EntriesAreWithinBudget'
  BY <1>1 DEF RoundTrips, EntriesAreWithinBudget, IInv
<1> QED  BY <1>6, <1>8, <1>9, <1>10, <1>11, <1>12, <1>13 DEF IInv

LEMMA NotifyCompletedStep ==
    ASSUME IInv, NotifyCompleted
    PROVE  IInv'
<1> DEFINE event == OrderEvent(notice.ref, "filled")
           bought == intents[Latest].side = "buy"
           quantity == intents[Latest].quantity
           value == Bar.open * quantity
           after == IF bought THEN availableCash - value
                    ELSE availableCash + value
           fill == [ref |-> Latest, side |-> intents[Latest].side, at |-> Today,
                    quantity |-> quantity, price |-> Bar.open]
           cashEvent == [at |-> Today, before |-> availableCash, after |-> after]
           positionEvent == [at |-> Today,
                             quantity |-> IF bought THEN quantity ELSE 0,
                             averageCost |-> IF bought THEN Bar.open ELSE 0]
<1>1. /\ SentOn(Today - 1) /\ queue = <<>> /\ notice.ref = Latest
      /\ result = "none"
      /\ Latest \in Refs /\ Today - 1 \in Refs /\ Today \in Refs
      /\ quantity \in Positive /\ intents[Latest].side \in Sides
      /\ orderContext[Latest].quantity = quantity
      /\ orderContext[Latest].side = intents[Latest].side
      /\ orderContext[Latest].created = intents[Latest].created
      /\ intents[Latest].created = Today - 1
      /\ Len(orderEvents) = Latest - 1
      /\ Drop(notice.ref) = [r \in {} |-> 0]
      /\ HeldByFills = IF bought THEN 0 ELSE quantity
      /\ Bar.open \in Positive
  BY NotifiedOrder DEF NotifyCompleted, Notified
<1>2. /\ step = "notify" /\ notice.status = "completed" /\ step' = "broker"
      /\ orderEvents' = Append(orderEvents, event)
      /\ fillEvents' = Append(fillEvents, fill)
      /\ cashEvents' = Append(cashEvents, cashEvent)
      /\ positionEvents' = Append(positionEvents, positionEvent)
      /\ availableCash' = after
      /\ warnings' \in {warnings, Append(warnings, [code |-> "zero_volume_fill",
                                                   at |-> Today])}
      /\ orderContext' = [r \in {} |-> 0] /\ notice' = NoNotice
      /\ UNCHANGED <<manifest, bars, cash, position, queue, result, intents,
                     marks>>
  BY <1>1 DEF NotifyCompleted, Notified, BookFill, history
<1>3. /\ Latest' = Latest /\ Today' = Today /\ Latest \in Nat
  BY <1>2, ListsTyped DEF Latest, Today, IInv
<1>4. /\ event \in OrderEvents /\ event.ref = Latest /\ event.status = "filled"
      /\ fill \in FillEvents /\ cashEvent \in CashEvents
      /\ positionEvent \in PositionEvents /\ after \in Int
  <2>1. availableCash \in Int /\ value \in Int
    <3>1. availableCash \in Int
      BY DEF IInv, TypeOK
    <3>2. Bar.open \in Int /\ quantity \in Int
      BY <1>1 DEF Positive
    <3> QED  BY <3>1, <3>2
  <2>2. after \in Int
    <3> HIDE DEF value
    <3> QED  BY <2>1
  <2>3. cashEvent \in CashEvents
    <3> HIDE DEF after
    <3> QED  BY <2>1, <2>2, <1>1 DEF CashEvents
  <2>4. event \in OrderEvents /\ event.ref = Latest /\ event.status = "filled"
    BY <1>1 DEF OrderEvent, OrderEvents
  <2>5. fill \in FillEvents
    BY <1>1 DEF FillEvents
  <2>6. positionEvent \in PositionEvents
    BY <1>1 DEF PositionEvents, Positive
  <2> QED  BY <2>2, <2>3, <2>4, <2>5, <2>6
<1>5. /\ orderEvents' \in Seq(OrderEvents) /\ Len(orderEvents') = Latest
      /\ DOMAIN orderEvents' = 1 .. Latest
      /\ orderEvents'[Latest] = event
      /\ \A k \in DOMAIN orderEvents : orderEvents'[k] = orderEvents[k]
      /\ DOMAIN orderEvents = 1 .. Latest - 1
  <2> HIDE DEF event
  <2>1. orderEvents \in Seq(OrderEvents)
    BY DEF IInv, TypeOK
  <2> QED  BY <1>1, <1>2, <1>3, <1>4, <2>1
<1> DEFINE F == Len(fillEvents)
<1>6. /\ fillEvents' \in Seq(FillEvents) /\ F \in Nat /\ Len(fillEvents') = F + 1
      /\ DOMAIN fillEvents = 1 .. F /\ DOMAIN fillEvents' = 1 .. F + 1
      /\ fillEvents'[F + 1] = fill
      /\ \A i \in 1 .. F : fillEvents'[i] = fillEvents[i]
  <2> HIDE DEF fill
  <2>1. fillEvents \in Seq(FillEvents)
    BY DEF IInv, TypeOK
  <2> QED  BY <1>2, <1>4, <2>1
<1>7. /\ cashEvents' \in Seq(CashEvents) /\ positionEvents' \in Seq(PositionEvents)
      /\ Reported' = positionEvent.quantity
  <2> HIDE DEF cashEvent, positionEvent
  <2>1. cashEvents \in Seq(CashEvents) /\ positionEvents \in Seq(PositionEvents)
    BY DEF IInv, TypeOK
  <2>2. cashEvents' \in Seq(CashEvents)
    BY <1>2, <1>4, <2>1
  <2>3. /\ positionEvents' \in Seq(PositionEvents)
        /\ Len(positionEvents') = Len(positionEvents) + 1
        /\ positionEvents'[Len(positionEvents')] = positionEvent
        /\ positionEvents' # <<>>
    <3>1. positionEvents' = Append(positionEvents, positionEvent)
          /\ positionEvent \in PositionEvents
      BY <1>2, <1>4
    <3> QED  BY <2>1, <3>1
  <2> QED  BY <2>2, <2>3 DEF Reported
<1>8. TypeOK'
  <2>1. warnings' \in Seq(Warnings)
    <3> DEFINE warning == [code |-> "zero_volume_fill", at |-> Today]
    <3>1. warning \in Warnings
      BY <1>1 DEF Warnings
    <3>2. warnings \in Seq(Warnings)
      BY DEF IInv, TypeOK
    <3>3. warnings' \in {warnings, Append(warnings, warning)}
      BY <1>2
    <3> HIDE DEF warning
    <3> QED  BY <3>1, <3>2, <3>3
  <2> HIDE DEF event, fill, cashEvent, positionEvent, after
  <2> QED  BY <1>1, <1>2, <1>4, <1>5, <1>6, <1>7, <2>1 DEF IInv, TypeOK
<1>9. /\ F % 2 \in {0, 1} /\ (F + 1) % 2 = 1 - (F % 2)
      /\ (F % 2 = 0) <=> bought
      /\ HeldByFills' = IF bought THEN quantity ELSE 0
  <2>1. F % 2 \in {0, 1} /\ (F + 1) % 2 = 1 - (F % 2)
    BY <1>6
  <2>2. (F % 2 = 0) <=> bought
    <3>1. F % 2 = 1 => fillEvents[F].quantity \in Positive
      BY <1>6, ListsTyped DEF IInv
    <3> QED  BY <1>1, <2>1, <3>1 DEF HeldByFills, Positive
  <2> QED  BY <1>6, <2>1, <2>2 DEF HeldByFills
<1>10. DOMAIN orderContext' = {} /\ Idle'
  BY <1>1, <1>2 DEF Idle
<1>11. StepInv'
  BY <1>1, <1>2, <1>10 DEF StepInv
<1>12. DaysInv'
  BY <1>1, <1>2, <1>3, <1>10 DEF IInv, DaysInv
<1>13. SizeInv' /\ (DOMAIN orderContext \subseteq {Latest})' /\ (position >= 0)'
  BY <1>2, <1>10 DEF SizeInv, IInv
<1>14. BooksInv'
  <2>1. /\ availableCash * Unit >= -Roundings
        /\ Within(cash, after, Roundings + Drift) /\ (bought => cash >= 0)
        /\ position = IF bought THEN quantity ELSE 0
    <3>1. value = quantity * Bar.open
      BY <1>1 DEF Positive
    <3> HIDE DEF value
    <3> QED  BY <1>1, <1>2, <3>1 DEF IInv, BooksInv
  <2>2. /\ Roundings' = Roundings + Drift /\ Roundings \in Int
        /\ Drift \in Nat /\ Unit \in Positive
    <3>1. Drift \in Nat /\ Unit \in Positive
      BY PrecisionAssumption
    <3>2. Drift * (1 + (F + 1)) = Drift * (1 + F) + Drift /\ Drift * (1 + F) \in Int
      <4>1. F \in Int /\ Drift \in Int
        BY <1>6, <3>1
      <4> HIDE DEF F
      <4> QED  BY <4>1
    <3> QED  BY <1>6, <3>1, <3>2 DEF Roundings
  <2>3. cash \in Int /\ availableCash \in Int /\ value \in Positive
    BY <1>1, TimesPositive DEF IInv, TypeOK
  <2>4. after * Unit >= -(Roundings + Drift)
    <3>1. CASE bought
      <4> HIDE DEF after
      <4> QED  BY <1>4, <2>1, <2>2, <2>3, <3>1, CoveredByCash
    <3>2. CASE ~bought
      <4>1. after = availableCash + value
        BY <3>2
      <4> HIDE DEF after, value
      <4>2. availableCash <= after
        BY <2>3, <4>1 DEF Positive
      <4>3. availableCash * Unit <= after * Unit
        BY <1>4, <2>2, <2>3, <4>2, TimesMonotone
      <4> DEFINE had == availableCash * Unit
                 has == after * Unit
      <4>4. had \in Int /\ has \in Int /\ had <= has /\ had >= -Roundings
        BY <1>4, <2>1, <2>2, <2>3, <4>3 DEF Positive
      <4> HIDE DEF had, has
      <4>5. has >= -(Roundings + Drift)
        BY <2>2, <4>4
      <4> QED  BY <4>5 DEF has
    <3> QED  BY <3>1, <3>2
  <2> HIDE DEF after
  <2> QED  BY <1>2, <1>7, <1>9, <2>1, <2>2, <2>4 DEF BooksInv
<1>15. EventsInv'
  <2>1. Len(orderEvents') = Latest' - (IF DOMAIN orderContext' = {} THEN 0 ELSE 1)
    BY <1>3, <1>5, <1>10
  <2>2. \A k \in DOMAIN orderEvents' : orderEvents'[k].ref = k
    <3> HIDE DEF event
    <3> QED  BY <1>3, <1>4, <1>5 DEF IInv, EventsInv
  <2>3. ASSUME NEW i \in 1 .. F
        PROVE  LET f == fillEvents'[i] IN
               /\ f.ref \in DOMAIN orderEvents' /\ f.ref <= Latest'
               /\ orderEvents'[f.ref].status = "filled"
               /\ f.at = intents'[f.ref].created + 1 /\ f.at <= Today'
               /\ f.price = bars'[f.at].open
               /\ f.quantity = intents'[f.ref].quantity
    <3>1. fillEvents'[i] = fillEvents[i] /\ i \in DOMAIN fillEvents
      BY <1>6
    <3>2. LET f == fillEvents[i] IN
          /\ f.ref \in DOMAIN orderEvents /\ f.ref <= Latest
          /\ orderEvents[f.ref].status = "filled"
          /\ f.at = intents[f.ref].created + 1 /\ f.at <= Today
          /\ f.price = bars[f.at].open
          /\ f.quantity = intents[f.ref].quantity
      BY <3>1 DEF IInv, EventsInv
    <3>3. fillEvents[i].ref \in DOMAIN orderEvents'
          /\ orderEvents'[fillEvents[i].ref] = orderEvents[fillEvents[i].ref]
      BY <1>3, <1>5, <3>2
    <3> QED  BY <1>2, <1>3, <3>1, <3>2, <3>3
  <2>4. /\ fill.ref \in DOMAIN orderEvents' /\ fill.ref <= Latest'
        /\ orderEvents'[fill.ref].status = "filled"
        /\ fill.at = intents'[fill.ref].created + 1 /\ fill.at <= Today'
        /\ fill.price = bars'[fill.at].open
        /\ fill.quantity = intents'[fill.ref].quantity
    <3> HIDE DEF event
    <3> QED  BY <1>1, <1>2, <1>3, <1>4, <1>5 DEF Bar, Refs
  <2> HIDE DEF event, fill
  <2> QED  BY <1>6, <2>1, <2>2, <2>3, <2>4 DEF EventsInv
<1>16. RoundTrips'
  <2>1. fill.side = IF (F + 1) % 2 = 1 THEN "buy" ELSE "sell"
    BY <1>1, <1>9 DEF Sides
  <2>2. (F + 1) % 2 = 0 => fill.quantity = fillEvents[F].quantity /\ F \in 1 .. F
    <3>1. (F + 1) % 2 = 0 => F % 2 = 1 /\ ~bought /\ F # 0
      BY <1>6, <1>9
    <3>2. (F + 1) % 2 = 0 => HeldByFills = fillEvents[F].quantity
                             /\ HeldByFills = quantity
      BY <1>1, <3>1 DEF HeldByFills
    <3> QED  BY <1>6, <3>1, <3>2
  <2>3. ASSUME NEW i \in 1 .. F
        PROVE  /\ fillEvents'[i].side = IF i % 2 = 1 THEN "buy" ELSE "sell"
               /\ i % 2 = 0 => fillEvents'[i].quantity = fillEvents'[i - 1].quantity
    <3>1. i % 2 = 0 => i - 1 \in 1 .. F
      BY <1>6
    <3> HIDE DEF fill
    <3> QED  BY <1>6, <3>1 DEF IInv, RoundTrips
  <2> HIDE DEF fill
  <2> QED  BY <1>6, <2>1, <2>2, <2>3 DEF RoundTrips
<1>17. EntriesAreWithinBudget'
  BY <1>2 DEF EntriesAreWithinBudget, IInv
<1> QED  BY <1>8, <1>11, <1>12, <1>13, <1>14, <1>15, <1>16, <1>17 DEF IInv

\* What next() finds when it is called.
LEMMA NextFinds ==
    ASSUME IInv, step = "next"
    PROVE  /\ TypeOK /\ Idle /\ result = "none" /\ notice = NoNotice
           /\ Latest \in Nat /\ Today \in Nat /\ Latest < Today
           /\ Latest + 1 \in Refs /\ Today \in Refs
           /\ \A r \in 1 .. Latest : intents[r].created < Today
           /\ position = HeldByFills /\ Reported = HeldByFills
           /\ Len(orderEvents) = Latest
           /\ Bar.close \in Positive
<1>1. TypeOK /\ Idle /\ result = "none" /\ notice = NoNotice
  BY DEF IInv, StepInv
<1>2. Latest \in Nat /\ Today \in Nat /\ Latest < Today /\ Today <= MaxBars
      /\ \A r \in 1 .. Latest : intents[r].created < Today
  BY <1>1, ListsTyped DEF IInv, DaysInv, Today, TypeOK
<1>3. Latest + 1 \in Refs /\ Today \in Refs
  BY <1>2, MaxBarsAssumption DEF Refs, Positive
<1>4. position = HeldByFills /\ Reported = HeldByFills
  BY <1>1 DEF IInv, BooksInv
<1>5. Len(orderEvents) = Latest
  BY <1>1, <1>2 DEF IInv, EventsInv, Idle
<1>6. Bar.close \in Positive
  <2>1. Today \in 1 .. Today
    BY <1>2
  <2>2. manifest \in Manifests /\ bars \in Seq(Bars)
    BY <1>1 DEF TypeOK
  <2> QED  BY <2>1, <2>2, InputsTyped DEF Bar
<1> QED  BY <1>1, <1>2, <1>3, <1>4, <1>5, <1>6

LEMMA MarksTyped ==
    ASSUME TypeOK, EndOfBar
    PROVE  marks' \in Seq([cash : Int, position : Int])
<1> DEFINE Accounts == [cash : Int, position : Int]
           mark == [cash |-> availableCash, position |-> position]
<1>1. marks \in Seq(Accounts) /\ mark \in Accounts /\ marks' = Append(marks, mark)
  BY DEF TypeOK, EndOfBar
<1>2. marks' \in Seq(Accounts)
  <2> HIDE DEF Accounts, mark
  <2> QED  BY <1>1
<1> QED  BY <1>2

\* The bar ends without an order.
LEMMA QuietBar ==
    ASSUME IInv, EndOfBar, UNCHANGED <<queue, orderContext, intents>>,
           warnings' \in Seq(Warnings)
    PROVE  IInv'
<1>1. /\ step = "next" /\ step' = "feed"
      /\ UNCHANGED <<manifest, bars, cash, position, notice, availableCash,
                     orderEvents, fillEvents, positionEvents, cashEvents, result>>
  BY DEF EndOfBar
<1>2. /\ TypeOK /\ Idle /\ result = "none" /\ notice = NoNotice
  BY <1>1, NextFinds
<1>3. /\ Latest' = Latest /\ Today' = Today /\ HeldByFills' = HeldByFills
      /\ Reported' = Reported /\ Roundings' = Roundings
      /\ (DOMAIN orderContext \subseteq {Latest})'
      /\ SizeInv' /\ EventsInv' /\ RoundTrips' /\ EntriesAreWithinBudget'
  BY <1>1, BooksUntouched
<1>4. TypeOK'
  BY <1>1, <1>2, MarksTyped DEF TypeOK
<1>5. StepInv' /\ DaysInv'
  BY <1>1, <1>2, <1>3 DEF IInv, StepInv, DaysInv, Idle
<1>6. BooksInv' /\ (position >= 0)'
  BY <1>1, <1>3 DEF IInv, BooksInv, Within
<1> QED  BY <1>3, <1>4, <1>5, <1>6 DEF IInv

\* The bar ends with an order for what the fills hold, or for an entry within
\* its budget when they hold nothing.
LEMMA BarWithOrder ==
    ASSUME IInv, EndOfBar, UNCHANGED warnings,
           NEW side \in Sides, NEW quantity \in Positive,
           Submit(side, quantity),
           HeldByFills = IF side = "buy" THEN 0 ELSE quantity,
           side = "buy" => quantity * Bar.close * manifest.fraction.den
                             <= availableCash * manifest.fraction.num
    PROVE  IInv'
<1> DEFINE intent == [created |-> Today, side |-> side, quantity |-> quantity,
                      onCash |-> availableCash]
           context == [side |-> side, quantity |-> quantity, created |-> Today]
           order == [ref |-> Latest + 1, side |-> side, size |-> quantity]
<1>1. /\ step = "next" /\ step' = "feed"
      /\ UNCHANGED <<manifest, bars, cash, position, notice, availableCash,
                     orderEvents, fillEvents, positionEvents, cashEvents, result,
                     warnings>>
  BY DEF EndOfBar
<1>2. /\ TypeOK /\ Idle /\ result = "none" /\ notice = NoNotice
      /\ Latest \in Nat /\ Today \in Nat /\ Latest < Today
      /\ Latest + 1 \in Refs /\ Today \in Refs
      /\ \A r \in 1 .. Latest : intents[r].created < Today
      /\ position = HeldByFills /\ Reported = HeldByFills
      /\ Len(orderEvents) = Latest
  BY <1>1, NextFinds
<1>3. /\ Today' = Today /\ HeldByFills' = HeldByFills /\ Reported' = Reported
      /\ Roundings' = Roundings
  BY <1>1 DEF Today, HeldByFills, Reported, Roundings
<1>4. /\ intents' = Append(intents, intent)
      /\ queue' = <<order>>
      /\ orderContext' = [r \in {Latest + 1} |-> context]
  BY <1>2 DEF Submit, Latest, Idle
<1> DEFINE Intents == [created : Refs, side : Sides, quantity : Positive,
                       onCash : Int]
<1>5. /\ intents' \in Seq(Intents) /\ Latest' = Latest + 1
      /\ DOMAIN intents = 1 .. Latest /\ DOMAIN intents' = 1 .. Latest + 1
      /\ intents'[Latest + 1] = intent
      /\ \A r \in 1 .. Latest : intents'[r] = intents[r]
  <2>1. intents \in Seq(Intents) /\ intent \in Intents
    BY <1>2 DEF TypeOK
  <2> HIDE DEF Intents, intent
  <2> QED  BY <1>2, <1>4, <2>1 DEF Latest
<1>6. /\ DOMAIN orderContext' = {Latest'} /\ orderContext'[Latest'] = context
      /\ SentOn(Today)' /\ Queued'
  <2>1. DOMAIN orderContext' = {Latest'} /\ orderContext'[Latest'] = context
    BY <1>4, <1>5
  <2>2. intents'[Latest'] = intent /\ Latest' >= 1
    BY <1>2, <1>5
  <2>3. /\ intents'[Latest'].created = Today' /\ intents'[Latest'].side = side
        /\ intents'[Latest'].quantity = quantity
    BY <1>3, <2>2
  <2>4. Queued'
    BY <1>4, <1>5, <2>3 DEF Queued
  <2>5. SentOn(Today)'
    BY <1>3, <2>1, <2>2, <2>3 DEF SentOn
  <2> QED  BY <2>1, <2>4, <2>5
<1>7. TypeOK'
  <2>1. queue' \in Seq(Orders)
    <3>1. order \in Orders
      BY <1>2 DEF Orders
    <3> HIDE DEF order
    <3> QED  BY <1>4, <3>1
  <2>2. DOMAIN orderContext' \subseteq Refs
        /\ \A ref \in DOMAIN orderContext' : orderContext'[ref] \in Contexts
    BY <1>2, <1>5, <1>6 DEF Contexts
  <2>3. marks' \in Seq([cash : Int, position : Int])
    BY <1>2, MarksTyped
  <2> QED  BY <1>1, <1>2, <1>5, <2>1, <2>2, <2>3 DEF TypeOK
<1>8. StepInv'
  <2>1. Idle' <=> FALSE
    BY <1>6 DEF Idle
  <2> QED  BY <1>1, <1>2, <1>6 DEF StepInv
<1>9. DaysInv'
  <2>1. Idle' <=> FALSE
    BY <1>6 DEF Idle
  <2>2. \A r \in 1 .. Latest : intents[r].created \in Nat
    BY <1>2, ListsTyped DEF Refs
  <2>3. intents'[Latest + 1].created = Today
    BY <1>5
  <2>4. Latest < Today /\ \A r \in 1 .. Latest : intents[r].created < Today
    BY <1>1, <1>2 DEF IInv, DaysInv
  <2>5. Latest' <= Today' /\ Today' = Today /\ step' = "feed"
    BY <1>1, <1>2, <1>3, <1>5, <2>4
  <2> HIDE DEF intent
  <2>6. \A r \in 1 .. Latest' - 1 : intents'[r].created < Today'
    BY <1>2, <1>5, <2>4, <2>5
  <2>7. \A r \in 1 .. Latest' : intents'[r].created <= Today'
    BY <1>2, <1>5, <2>2, <2>3, <2>4, <2>5 DEF Refs
  <2> QED  BY <2>1, <2>5, <2>6, <2>7 DEF DaysInv
<1>10. SizeInv' /\ (DOMAIN orderContext \subseteq {Latest})' /\ (position >= 0)'
  BY <1>1, <1>3, <1>6 DEF SizeInv, IInv
<1>11. BooksInv'
  BY <1>1, <1>2, <1>3 DEF IInv, BooksInv, Within
<1>12. EventsInv'
  <2>1. Len(orderEvents') = Latest' - (IF DOMAIN orderContext' = {} THEN 0 ELSE 1)
    BY <1>1, <1>2, <1>5, <1>6
  <2>2. ASSUME NEW i \in DOMAIN fillEvents
        PROVE  /\ fillEvents[i].ref \in 1 .. Latest
               /\ intents'[fillEvents[i].ref] = intents[fillEvents[i].ref]
    <3>1. fillEvents[i].ref \in Nat /\ fillEvents[i].ref >= 1
      BY <1>2, ListsTyped DEF Refs
    <3> QED  BY <1>2, <1>5, <3>1 DEF IInv, EventsInv
  <2> HIDE DEF intent
  <2> QED  BY <1>1, <1>2, <1>3, <1>5, <2>1, <2>2 DEF IInv, EventsInv
<1>13. RoundTrips'
  BY <1>1 DEF RoundTrips, IInv
<1>14. EntriesAreWithinBudget'
  <2>1. ASSUME NEW r \in 1 .. Latest
        PROVE  intents'[r].side = "buy" =>
                 intents'[r].quantity * bars'[intents'[r].created].close
                     * manifest'.fraction.den
                     <= intents'[r].onCash * manifest'.fraction.num
    BY <1>1, <1>5 DEF IInv, EntriesAreWithinBudget
  <2>2. side = "buy" =>
          intent.quantity * bars'[intent.created].close * manifest'.fraction.den
              <= intent.onCash * manifest'.fraction.num
    BY <1>1 DEF Bar
  <2>3. intent.side = side
    OBVIOUS
  <2> HIDE DEF intent
  <2> QED  BY <1>2, <1>5, <2>1, <2>2, <2>3 DEF EntriesAreWithinBudget
<1> QED  BY <1>7, <1>8, <1>9, <1>10, <1>11, <1>12, <1>13, <1>14 DEF IInv

LEMMA HoldStep ==
    ASSUME IInv, Hold
    PROVE  IInv'
BY QuietBar DEF Hold, IInv, TypeOK

LEMMA WarnZeroQuantityStep ==
    ASSUME IInv, WarnZeroQuantity
    PROVE  IInv'
<1> DEFINE warning == [code |-> "position_sizing_zero_quantity", at |-> Today]
<1>1. /\ EndOfBar /\ UNCHANGED <<queue, orderContext, intents>>
      /\ warnings' = Append(warnings, warning) /\ step = "next"
  BY DEF WarnZeroQuantity, EndOfBar
<1>2. warning \in Warnings
  BY <1>1, NextFinds DEF Warnings
<1>3. warnings' \in Seq(Warnings)
  <2> HIDE DEF warning
  <2> QED  BY <1>1, <1>2 DEF IInv, TypeOK
<1> QED  BY <1>1, <1>3, QuietBar

LEMMA SubmitExitStep ==
    ASSUME IInv, SubmitExit
    PROVE  IInv'
<1>1. EndOfBar /\ step = "next" /\ position > 0 /\ Submit("sell", position)
      /\ UNCHANGED warnings
  BY DEF SubmitExit, EndOfBar
<1>2. position \in Positive /\ position = HeldByFills
  BY <1>1, NextFinds DEF TypeOK, Positive
<1> QED  BY <1>1, <1>2, BarWithOrder DEF Sides

LEMMA SubmitEntryStep ==
    ASSUME IInv, SubmitEntry
    PROVE  IInv'
<1>1. EndOfBar /\ step = "next" /\ position = 0 /\ Quantity > 0
      /\ Submit("buy", Quantity) /\ UNCHANGED warnings
  BY DEF SubmitEntry, EndOfBar
<1>2. /\ TypeOK /\ HeldByFills = 0 /\ Bar.close \in Positive
      /\ availableCash \in Int
  BY <1>1, NextFinds DEF TypeOK
<1>3. /\ manifest.fraction.num \in Positive /\ manifest.fraction.den \in Positive
      /\ manifest.increment.num \in Positive
      /\ manifest.increment.den \in Positive
  BY <1>2, InputsTyped DEF TypeOK
<1>4. /\ Quantity \in Int
      /\ Quantity * Bar.close * manifest.fraction.den
            <= availableCash * manifest.fraction.num
  BY <1>2, <1>3, ThreeRoundings DEF Quantity
<1>5. Quantity \in Positive
  BY <1>1, <1>4 DEF Positive
<1> HIDE DEF Quantity
<1> QED  BY <1>1, <1>2, <1>4, <1>5, BarWithOrder DEF Sides

--------------------------------------------------------------------------------
(* Theorems *)

LEMMA NextIInv ==
    ASSUME IInv, [Next]_vars
    PROVE  IInv'
<1>1. CASE LoadBar            BY <1>1, LoadBarStep
<1>2. CASE ExecuteOrder       BY <1>2, ExecuteOrderStep
<1>3. CASE RefuseOrder        BY <1>3, RefuseOrderStep
<1>4. CASE BrokerIdle         BY <1>4, BrokerIdleStep
<1>5. CASE NotifyCompleted    BY <1>5, NotifyCompletedStep
<1>6. CASE NotifyMargin       BY <1>6, NotifyMarginStep
<1>7. CASE Hold               BY <1>7, HoldStep
<1>8. CASE SubmitEntry        BY <1>8, SubmitEntryStep
<1>9. CASE WarnZeroQuantity   BY <1>9, WarnZeroQuantityStep
<1>10. CASE SubmitExit        BY <1>10, SubmitExitStep
<1>11. CASE Stop              BY <1>11, StopStep
<1>12. CASE RaiseInEngine     BY <1>12, RaiseInEngineStep
<1>13. CASE UNCHANGED vars
  <2>1. UNCHANGED <<manifest, bars, step, cash, position, queue, notice,
                    availableCash, orderContext, orderEvents, fillEvents,
                    positionEvents, cashEvents, warnings, result, intents, marks>>
    BY <1>13 DEF vars, broker, adapter, events, history
  <2>2. /\ Latest' = Latest /\ Today' = Today /\ HeldByFills' = HeldByFills
        /\ Reported' = Reported /\ Roundings' = Roundings
        /\ (DOMAIN orderContext \subseteq {Latest})'
        /\ SizeInv' /\ EventsInv' /\ RoundTrips' /\ EntriesAreWithinBudget'
    BY <2>1, BooksUntouched
  <2>3. TypeOK'
    BY <2>1 DEF IInv, TypeOK
  <2>4. StepInv' /\ DaysInv' /\ BooksInv' /\ (position >= 0)'
    BY <2>1, <2>2 DEF IInv, StepInv, DaysInv, BooksInv, Within, SentOn, Queued, Idle, Bar
  <2> QED  BY <2>2, <2>3, <2>4 DEF IInv
<1> QED  BY <1>1, <1>2, <1>3, <1>4, <1>5, <1>6, <1>7, <1>8, <1>9, <1>10, <1>11,
            <1>12, <1>13 DEF Next

\* The inductive invariant: in which callback the latest order is where, and by
\* which fill the adapter's books are behind the broker's.
THEOREM Invariance == Spec => []IInv
<1> QED  BY InitIInv, NextIInv, PTL DEF Spec

\* Every variable of the engine has its type, for feeds of any length.
THEOREM TypeCorrect == Spec => []TypeOK
<1>1. IInv => TypeOK
  BY DEF IInv
<1> QED  BY <1>1, Invariance, PTL

\* The position the adapter works out is the broker's, and the cash it works out
\* from prices and quantities of its own is the broker's but for one rounding of
\* the capital and one of each fill, whatever was filled and refused.
THEOREM BooksStayClose == Spec => []BooksAgree
<1>1. IInv => BooksAgree
  BY DEF IInv, BooksInv, Within, BooksAgree
<1> QED  BY <1>1, Invariance, PTL

\* There is no look-ahead: a fill is at the open of the bar after its decision.
THEOREM FilledAtNextOpen == Spec => []FillsAtNextOpen
<1>1. ASSUME IInv PROVE FillsAtNextOpen
  BY <1>1 DEF IInv, EventsInv, FillsAtNextOpen
<1> QED  BY <1>1, Invariance, PTL

\* The strategy is long only, with one position and one order at a time.
THEOREM OnlyRoundTrips == Spec => []RoundTripsOnly
<1>1. ASSUME IInv PROVE RoundTripsOnly
  BY <1>1 DEF IInv, RoundTrips, RoundTripsOnly
<1> QED  BY <1>1, Invariance, PTL

\* No intent is lost: when the run ends without an exception of the engine, the
\* only one without an event is that of the last bar, which fails the run.
THEOREM IntentsSettled == Spec => []IntentsAreSettled
<1>1. ASSUME IInv PROVE IntentsAreSettled
  <2> SUFFICES ASSUME step = "done", result # "engine_error"
               PROVE  IntentsAreSettled
    BY DEF IntentsAreSettled
  <2> DEFINE settled == {orderEvents[k].ref : k \in DOMAIN orderEvents}
             unsettled == {r \in DOMAIN intents : intents[r].created = Len(bars)}
  <2>1. /\ Latest \in Nat /\ DOMAIN intents = 1 .. Latest
        /\ DOMAIN orderEvents = 1 .. Len(orderEvents)
        /\ \A r \in 1 .. Latest : intents[r].created \in Nat
        /\ Today \in Nat /\ Len(orderEvents) \in Nat
    <3>1. TypeOK /\ manifest \in Manifests /\ bars \in Seq(Bars)
      BY <1>1 DEF IInv, TypeOK
    <3>2. \A r \in 1 .. Latest : intents[r].created \in Refs
      BY <3>1, ListsTyped
    <3> QED  BY <3>1, <3>2, ListsTyped, InputsTyped DEF Refs
  <2>2. settled = DOMAIN orderEvents
    <3>1. \A k \in DOMAIN orderEvents : orderEvents[k].ref = k
      BY <1>1 DEF IInv, EventsInv
    <3> QED  BY <3>1
  <2>3. CASE result = "completed"
    <3>1. Idle /\ Len(orderEvents) = Latest
      BY <1>1, <2>1, <2>3 DEF IInv, StepInv, EventsInv, Idle
    <3>2. unsettled = {}
      BY <1>1, <2>1, <3>1 DEF IInv, DaysInv, Today
    <3> QED  BY <2>1, <2>2, <2>3, <3>1, <3>2 DEF IntentsAreSettled, Latest
  <2>4. CASE result # "completed"
    <3>1. /\ result = "missing_next_bar" /\ SentOn(Today)
      BY <1>1, <2>4 DEF IInv, StepInv
    <3>2. Len(orderEvents) = Latest - 1 /\ Latest \in 1 .. Latest
      <4>1. DOMAIN orderContext # {} /\ Latest >= 1
        BY <3>1 DEF SentOn
      <4>2. Len(orderEvents) = Latest - (IF DOMAIN orderContext = {} THEN 0 ELSE 1)
        BY <1>1 DEF IInv, EventsInv
      <4> QED  BY <2>1, <4>1, <4>2
    <3>3. unsettled = {Latest}
      BY <1>1, <2>1, <3>1, <3>2 DEF IInv, DaysInv, Today, SentOn
    <3>4. DOMAIN orderEvents = DOMAIN intents \ {Latest}
      BY <2>1, <3>2
    <3> QED  BY <2>1, <2>2, <3>1, <3>2, <3>3, <3>4 DEF IntentsAreSettled, Latest
  <2> QED  BY <2>3, <2>4
<1> QED  BY <1>1, Invariance, PTL

\* Three roundings down never cost more than the declared fraction of the cash.
THEOREM EntriesWithinBudget == Spec => []EntriesAreWithinBudget
<1>1. IInv => EntriesAreWithinBudget
  BY DEF IInv
<1> QED  BY <1>1, Invariance, PTL

--------------------------------------------------------------------------------
(* RECURSION OVER SEQUENCES *)

\* Induction, for a set of numbers: the smallest number outside the set has a
\* predecessor.
LEMMA NumbersFromZero ==
    ASSUME NEW T, 0 \in T, \A n \in Nat : n \in T => n + 1 \in T
    PROVE  \A n \in Nat : n \in T
<1> SUFFICES ASSUME {n \in Nat : n \notin T} # {} PROVE FALSE
  OBVIOUS
<1> DEFINE S == {n \in Nat : n \notin T}
<1>1. PICK m \in S : \A k \in S : <<k, m>> \notin OpToRel(<, Nat)
  <2>1. S \subseteq Nat /\ S # {}
    OBVIOUS
  <2> HIDE DEF S
  <2> QED  BY <2>1, NatLessThanWellFounded, WFMin
<1>2. m - 1 \in Nat /\ m - 1 < m
  <2>1. m # 0
    OBVIOUS
  <2> QED  BY <2>1
<1>3. <<m - 1, m>> \in OpToRel(<, Nat)
  BY <1>2 DEF OpToRel
<1>4. m - 1 \in T
  BY <1>1, <1>2, <1>3
<1> QED  BY <1>2, <1>4

\* A loop of N turns that computes a value of S after each of them, from the
\* value before.
IsLoop(N, S, start, next) ==
    N \in Nat /\ start \in S /\ next \in [(1 .. N) \X S -> S]

Computes(N, S, start, next, g) ==
    /\ g \in [0 .. N -> S]
    /\ g[0] = start
    /\ \A n \in 1 .. N : g[n] = next[<<n, g[n - 1]>>]

LEMMA Iteration ==
    ASSUME NEW N, NEW S, NEW start, NEW next, IsLoop(N, S, start, next)
    PROVE  \E g : Computes(N, S, start, next, g)
<1> USE DEF IsLoop
<1> DEFINE Until(k, g) == /\ g \in [0 .. k -> S]
                          /\ g[0] = start
                          /\ \A n \in 1 .. k : g[n] = next[<<n, g[n - 1]>>]
           T == {k \in Nat : k <= N => \E g : Until(k, g)}
<1>1. 0 \in T
  <2> DEFINE g == [n \in 0 .. 0 |-> start]
  <2>1. Until(0, g)
    OBVIOUS
  <2> QED  BY <2>1
<1>2. ASSUME NEW k \in Nat, k \in T
      PROVE  k + 1 \in T
  <2> SUFFICES ASSUME k + 1 <= N PROVE \E g : Until(k + 1, g)
    OBVIOUS
  <2>1. PICK g : Until(k, g)
    BY <1>2
  <2>2. <<k + 1, g[k]>> \in (1 .. N) \X S
    BY <2>1
  <2>3. next[<<k + 1, g[k]>>] \in S
    BY <2>2
  <2> DEFINE h == [n \in 0 .. k + 1 |-> IF n = k + 1 THEN next[<<k + 1, g[k]>>]
                                        ELSE g[n]]
  <2>4. /\ h \in [0 .. k + 1 -> S]
        /\ \A n \in 0 .. k : h[n] = g[n]
        /\ h[k + 1] = next[<<k + 1, g[k]>>]
    BY <2>1, <2>3
  <2> HIDE DEF h
  <2>5. \A n \in 1 .. k + 1 : h[n] = next[<<n, h[n - 1]>>]
    <3> TAKE n \in 1 .. k + 1
    <3>1. CASE n = k + 1
      BY <2>4, <3>1
    <3>2. CASE n \in 1 .. k
      <4>1. n - 1 \in 0 .. k /\ n \in 0 .. k
        BY <3>2
      <4> QED  BY <2>1, <2>4, <3>2, <4>1
    <3> QED  BY <3>1, <3>2
  <2> QED  BY <2>1, <2>4, <2>5
<1> HIDE DEF T
<1>3. N \in T
  BY <1>1, <1>2, NumbersFromZero
<1>4. PICK g : Until(N, g)
  BY <1>3 DEF T
<1> QED  BY <1>4 DEF Computes

\* Two loops that do the same turn by turn compute the same.
Alike(N, g, h) ==
    /\ N \in Nat /\ g[0] = h[0]
    /\ \A n \in 1 .. N : g[n - 1] = h[n - 1] => g[n] = h[n]

LEMMA SameTurns ==
    ASSUME NEW N, NEW g, NEW h, Alike(N, g, h)
    PROVE  \A n \in 0 .. N : g[n] = h[n]
<1> USE DEF Alike
<1> DEFINE T == {n \in Nat : n <= N => g[n] = h[n]}
<1>1. 0 \in T
  OBVIOUS
<1>2. ASSUME NEW n \in Nat, n \in T
      PROVE  n + 1 \in T
  <2>1. n + 1 <= N => n + 1 \in 1 .. N /\ (n + 1) - 1 = n /\ n <= N
    OBVIOUS
  <2> QED  BY <1>2, <2>1
<1> HIDE DEF T
<1>3. \A n \in Nat : n \in T
  BY <1>1, <1>2, NumbersFromZero
<1> QED  BY <1>3 DEF T

--------------------------------------------------------------------------------
(* PART TWO: THE ARTIFACT *)

\* The first n events, and no more, have happened by a time.
LastBy(list, time, n) ==
    /\ n \in 0 .. Len(list)
    /\ \A k \in 1 .. n : list[k].at <= time
    /\ \A k \in n + 1 .. Len(list) : list[k].at > time

CashAfter(n) == IF n = 0 THEN manifest.capital ELSE cashEvents[n].after
PositionAfter(n) == IF n = 0 THEN 0 ELSE positionEvents[n].quantity

Closed == IF step \in {"feed", "done"} THEN Today ELSE Today - 1

(* The accounts at the closes so far can be read off the events. *)
MarksInv ==
    result # "engine_error" =>
        /\ Len(marks) = Closed
        /\ step = "done" => Today >= 1
        /\ availableCash = CashAfter(Len(cashEvents))
        /\ \A k \in DOMAIN cashEvents : cashEvents[k].at <= Today
        /\ \A k \in DOMAIN positionEvents : positionEvents[k].at <= Today
        /\ \A i \in DOMAIN marks :
              /\ \E n \in 0 .. Len(cashEvents) :
                    LastBy(cashEvents, i, n) /\ marks[i].cash = CashAfter(n)
              /\ \E n \in 0 .. Len(positionEvents) :
                    /\ LastBy(positionEvents, i, n)
                    /\ marks[i].position = PositionAfter(n)

--------------------------------------------------------------------------------
(* The cursor over the events *)

\* The cursor stands where the events up to its time end.
LEMMA AppliedByLast ==
    ASSUME NEW list, Len(list) \in Nat, NEW time \in Nat, NEW n,
           \A k \in 1 .. Len(list) : list[k].at \in Int,
           LastBy(list, time, n)
    PROVE  AppliedBy(list, time) = n
<1> DEFINE applied == {m \in 0 .. Len(list) : \A k \in 1 .. m : list[k].at <= time}
<1>1. n \in applied
  BY DEF LastBy
<1>2. \A m \in applied : n >= m
  <2> SUFFICES ASSUME NEW m \in applied, m > n
               PROVE  FALSE
    BY DEF LastBy
  <2>1. m \in 0 .. Len(list) /\ list[n + 1].at <= time
    BY DEF LastBy
  <2>2. list[n + 1].at > time
    BY <2>1 DEF LastBy
  <2> QED  BY <2>1, <2>2 DEF LastBy
<1>3. applied \subseteq Nat
  OBVIOUS
<1>4. \A m \in applied : (\A k \in applied : m >= k) => m = n
  <2> HIDE DEF applied
  <2> TAKE m \in applied
  <2> HAVE \A k \in applied : m >= k
  <2>1. m >= n /\ n >= m /\ m \in Nat /\ n \in Nat
    BY <1>1, <1>2, <1>3
  <2> QED  BY <2>1
<1>5. AppliedBy(list, time) = CHOOSE m \in applied : \A k \in applied : m >= k
  BY DEF AppliedBy, Max
<1> HIDE DEF applied
<1> QED  BY <1>1, <1>2, <1>4, <1>5

\* A later event does not move the cursor of an earlier day.
LEMMA LastByAppend ==
    ASSUME NEW S, NEW list \in Seq(S), NEW event, NEW time \in Nat,
           NEW n, LastBy(list, time, n), event.at > time
    PROVE  LastBy(Append(list, event), time, n)
<1>1. /\ Len(list) \in Nat /\ Len(Append(list, event)) = Len(list) + 1
      /\ \A k \in 1 .. Len(list) : Append(list, event)[k] = list[k]
      /\ Append(list, event)[Len(list) + 1] = event
  OBVIOUS
<1>2. n \in 0 .. Len(list)
  BY DEF LastBy
<1>3. \A k \in 1 .. n : Append(list, event)[k].at <= time
  BY <1>1, <1>2 DEF LastBy
<1>4. ASSUME NEW k \in n + 1 .. Len(list) + 1
      PROVE  Append(list, event)[k].at > time
  BY <1>1, <1>2 DEF LastBy
<1> QED  BY <1>1, <1>2, <1>3, <1>4 DEF LastBy

--------------------------------------------------------------------------------
(* The drawdown *)

LEMMA MaxOfTwo ==
    ASSUME NEW a \in Int, NEW b \in Int
    PROVE  Max({a, b}) = IF a >= b THEN a ELSE b
<1> DEFINE m == IF a >= b THEN a ELSE b
<1>1. m \in {a, b} /\ \A y \in {a, b} : m >= y
  OBVIOUS
<1>2. \A x \in {a, b} : (\A y \in {a, b} : x >= y) => x = m
  OBVIOUS
<1> HIDE DEF m
<1>3. Max({a, b}) = m
  BY <1>1, <1>2 DEF Max
<1> QED  BY <1>3 DEF m

LEMMA ProductsOrdered ==
    ASSUME NEW a \in Nat, NEW b \in Nat, NEW c \in Nat, NEW d \in Nat, a <= b, c <= d
    PROVE  a * c <= b * d
<1>1. a * c <= b * c
  OBVIOUS
<1>2. b * c <= b * d
  OBVIOUS
<1> QED  BY <1>1, <1>2

\* A ratio that is at least another one is above what that one is above.
LEMMA RatiosOrdered ==
    ASSUME NEW p \in [num : Positive, den : Positive],
           NEW q \in [num : Positive, den : Positive],
           NEW r \in [num : Positive, den : Positive],
           ~LessThan(p, q), LessThan(r, q)
    PROVE  ~LessThan(p, r)
<1> DEFINE a == p.num
           b == p.den
           c == q.num
           d == q.den
           e == r.num
           f == r.den
<1>1. /\ a \in Positive /\ b \in Positive /\ c \in Positive
      /\ d \in Positive /\ e \in Positive /\ f \in Positive
  OBVIOUS
<1>2. ~(a * d < c * b) /\ e * d < c * f
  BY DEF LessThan
<1>3. LessThan(p, r) <=> a * f < e * b
  BY DEF LessThan
<1> HIDE DEF a, b, c, d, e, f
<1>4. /\ a * d \in Int /\ c * b \in Int /\ e * d \in Int /\ c * f \in Int
      /\ a * f \in Int /\ e * b \in Int
  BY <1>1 DEF Positive
<1>5. (c * b) * f <= (a * d) * f /\ (e * d) * b <= (c * f) * b
  BY <1>1, <1>2, <1>4, TimesMonotone
<1>6. (c * f) * b = (c * b) * f /\ (e * d) * b = (e * b) * d
      /\ (a * d) * f = (a * f) * d
  BY <1>1 DEF Positive
<1>7. (e * b) * d <= (a * f) * d
  <2>1. (e * d) * b \in Int /\ (c * f) * b \in Int /\ (a * d) * f \in Int
    BY <1>1, <1>4 DEF Positive
  <2> QED  BY <1>5, <1>6, <2>1
<1>8. e * b <= a * f
  BY <1>1, <1>4, <1>7, TimesCancel
<1> QED  BY <1>3, <1>4, <1>8

Falls == [top : Positive, worst : [num : Positive, den : Positive]]

LEMMA DrawdownTurn ==
    ASSUME NEW acc \in Falls, NEW snapshot, snapshot.equity \in Positive
    PROVE  /\ Drawdown(acc, snapshot) \in Falls
           /\ Drawdown(acc, snapshot).top =
                  IF acc.top >= snapshot.equity THEN acc.top ELSE snapshot.equity
           /\ Drawdown(acc, snapshot).worst =
                  IF snapshot.equity * acc.worst.den
                         < acc.worst.num * Drawdown(acc, snapshot).top
                  THEN [num |-> snapshot.equity, den |-> Drawdown(acc, snapshot).top]
                  ELSE acc.worst
<1> DEFINE e == snapshot.equity
           top == Max({acc.top, e})
<1>1. acc.top \in Positive /\ acc.worst \in [num : Positive, den : Positive]
  BY DEF Falls
<1>2. top = (IF acc.top >= e THEN acc.top ELSE e) /\ top \in Positive /\ top > 0
  <2>1. top = IF acc.top >= e THEN acc.top ELSE e
    BY <1>1, MaxOfTwo DEF Positive
  <2> HIDE DEF top
  <2> QED  BY <1>1, <2>1 DEF Positive
<1> HIDE DEF top
<1>3. Drawdown(acc, snapshot)
        = [top |-> top, worst |-> Least(acc.worst, [num |-> e, den |-> top])]
  BY <1>2 DEF Drawdown, top
<1>4. Least(acc.worst, [num |-> e, den |-> top])
        = IF e * acc.worst.den < acc.worst.num * top
          THEN [num |-> e, den |-> top] ELSE acc.worst
  BY DEF Least, LessThan
<1> QED  BY <1>1, <1>2, <1>3, <1>4 DEF Falls

\* What the loop of _max_drawdown_metric knows after each snapshot.
LEMMA DrawdownLoop ==
    ASSUME NEW snapshots, Len(snapshots) \in Positive,
           \A i \in 1 .. Len(snapshots) : snapshots[i].equity \in Positive
    PROVE  \E g \in [0 .. Len(snapshots) -> Falls] :
              /\ g[0] = [top |-> snapshots[1].equity, worst |-> One]
              /\ \A n \in 1 .. Len(snapshots) :
                    g[n] = Drawdown(g[n - 1], snapshots[n])
              /\ MaxDrawdown(snapshots) = g[Len(snapshots)].worst
<1> DEFINE N == Len(snapshots)
           start == [top |-> snapshots[1].equity, worst |-> One]
           next == [p \in (1 .. N) \X Falls |-> Drawdown(p[2], snapshots[p[1]])]
           Loop(g) == g = [n \in 0 .. N |-> IF n = 0 THEN start
                                           ELSE Drawdown(g[n - 1], snapshots[n])]
<1>1. N \in Nat /\ 1 \in 1 .. N
  BY DEF Positive
<1>2. start \in Falls
  BY <1>1 DEF Falls, One, Positive
<1>3. next \in [(1 .. N) \X Falls -> Falls]
  BY DrawdownTurn
<1>4. PICK f \in [0 .. N -> Falls] : /\ f[0] = start
                                    /\ \A n \in 1 .. N : f[n] = next[<<n, f[n - 1]>>]
  <2>1. IsLoop(N, Falls, start, next)
    BY <1>1, <1>2, <1>3 DEF IsLoop
  <2>2. PICK f : Computes(N, Falls, start, next, f)
    BY <2>1, Iteration
  <2> QED  BY <2>2 DEF Computes
<1>5. \A n \in 1 .. N : f[n] = Drawdown(f[n - 1], snapshots[n])
  <2> TAKE n \in 1 .. N
  <2>1. n - 1 \in 0 .. N
    BY <1>1
  <2>2. <<n, f[n - 1]>> \in (1 .. N) \X Falls
    BY <1>4, <2>1
  <2> QED  BY <1>4, <2>2
<1>6. Loop(f)
  BY <1>1, <1>4, <1>5
<1> DEFINE g == CHOOSE h : Loop(h)
<1>7. Loop(g)
  BY <1>6
<1>8. MaxDrawdown(snapshots) = g[N].worst
  BY DEF MaxDrawdown
<1> HIDE DEF g, start, next
<1>9. /\ DOMAIN g = 0 .. N /\ g[0] = start
      /\ \A n \in 1 .. N : g[n] = Drawdown(g[n - 1], snapshots[n])
  BY <1>1, <1>7
<1>10. \A n \in 0 .. N : g[n] = f[n]
  <2>1. Alike(N, g, f)
    BY <1>1, <1>4, <1>5, <1>9 DEF Alike
  <2> QED  BY <2>1, SameTurns
<1>11. g \in [0 .. N -> Falls]
  BY <1>4, <1>7, <1>10
<1> QED  BY <1>8, <1>9, <1>11 DEF start

(* The top is the highest equity so far, and the worst ratio is that of two
   closes, none being worse. *)
FallsTo(snapshots, n, acc) ==
    /\ \A i \in 1 .. n : snapshots[i].equity <= acc.top
    /\ \E i \in 1 .. n : snapshots[i].equity = acc.top
    /\ \A i, j \in 1 .. n : i <= j =>
          acc.worst.num * snapshots[i].equity <= snapshots[j].equity * acc.worst.den
    /\ \E i, j \in 1 .. n :
          /\ i <= j
          /\ snapshots[j].equity * acc.worst.den = acc.worst.num * snapshots[i].equity

LEMMA FirstFall ==
    ASSUME NEW snapshots, snapshots[1].equity \in Positive
    PROVE  FallsTo(snapshots, 1, Drawdown([top |-> snapshots[1].equity,
                                           worst |-> One], snapshots[1]))
<1> DEFINE e == snapshots[1].equity
           acc == [top |-> e, worst |-> One]
           more == Drawdown(acc, snapshots[1])
<1>1. acc \in Falls
  BY DEF Falls, One, Positive
<1>2. more.top = e
  BY <1>1, DrawdownTurn
<1>3. more.worst = One
  <2>1. e * 1 = 1 * e
    BY DEF Positive
  <2> HIDE DEF more
  <2>2. more.worst = IF e * acc.worst.den < acc.worst.num * more.top
                     THEN [num |-> e, den |-> more.top] ELSE acc.worst
    BY <1>1, DrawdownTurn DEF more
  <2> QED  BY <1>2, <2>1, <2>2 DEF One, Positive
<1> HIDE DEF more
<1>4. \A i \in 1 .. 1 : i = 1
  OBVIOUS
<1>5. e * more.worst.den = more.worst.num * e /\ e \in Nat
  BY <1>3 DEF One, Positive
<1>6. FallsTo(snapshots, 1, more)
  <2>1. \A i \in 1 .. 1 : snapshots[i].equity = e
    BY <1>4
  <2>2. 1 \in 1 .. 1 /\ 1 <= 1
    OBVIOUS
  <2>3. more.worst.num * e <= e * more.worst.den
    BY <1>3 DEF One, Positive
  <2> HIDE DEF e
  <2> QED  BY <1>2, <1>5, <2>1, <2>2, <2>3 DEF FallsTo
<1> QED  BY <1>6 DEF more

LEMMA NextFall ==
    ASSUME NEW snapshots, NEW n \in Nat, n > 0,
           \A i \in 1 .. n + 1 : snapshots[i].equity \in Positive,
           NEW acc \in Falls, FallsTo(snapshots, n, acc)
    PROVE  FallsTo(snapshots, n + 1, Drawdown(acc, snapshots[n + 1]))
<1> DEFINE equity(i) == snapshots[i].equity
           e == equity(n + 1)
           more == Drawdown(acc, snapshots[n + 1])
<1>1. /\ e \in Positive /\ acc.top \in Positive
      /\ acc.worst.num \in Positive /\ acc.worst.den \in Positive
      /\ \A i \in 1 .. n : equity(i) \in Positive
  BY DEF Falls
<1>2. /\ more \in Falls /\ more.top = IF acc.top >= e THEN acc.top ELSE e
      /\ more.worst = IF e * acc.worst.den < acc.worst.num * more.top
                      THEN [num |-> e, den |-> more.top] ELSE acc.worst
  BY <1>1, DrawdownTurn
<1> HIDE DEF more
<1>3. \A i \in 1 .. n + 1 : i \in 1 .. n \/ i = n + 1
  OBVIOUS
<1>4. more.top \in Positive /\ more.worst.num \in Positive /\ more.worst.den \in Positive
  BY <1>2 DEF Falls
<1>5. \A i \in 1 .. n + 1 : equity(i) <= more.top
  <2>1. \A i \in 1 .. n : equity(i) <= acc.top
    BY DEF FallsTo
  <2> QED  BY <1>1, <1>2, <1>3, <2>1 DEF Positive
<1>6. PICK i0 \in 1 .. n + 1 : equity(i0) = more.top
  <2>1. PICK i \in 1 .. n : equity(i) = acc.top
    BY DEF FallsTo
  <2>2. i \in 1 .. n + 1 /\ n + 1 \in 1 .. n + 1
    OBVIOUS
  <2> QED  BY <1>2, <2>1, <2>2
<1>7. CASE e * acc.worst.den < acc.worst.num * more.top
  <2>1. more.worst = [num |-> e, den |-> more.top]
    BY <1>2, <1>7
  <2>2. ASSUME NEW i \in 1 .. n + 1, NEW j \in 1 .. n + 1, i <= j
        PROVE  e * equity(i) <= equity(j) * more.top
    <3>1. equity(i) \in Positive /\ equity(j) \in Positive /\ equity(i) <= more.top
      BY <1>5
    <3>2. CASE j = n + 1
      BY <1>1, <1>4, <3>1, <3>2, ProductsOrdered DEF Positive
    <3>3. CASE j \in 1 .. n
      <4>1. i \in 1 .. n
        BY <2>2, <3>3
      <4>2. acc.worst.num * equity(i) <= equity(j) * acc.worst.den
        BY <2>2, <3>3, <4>1 DEF FallsTo
      <4> DEFINE p == [num |-> equity(j), den |-> equity(i)]
                 r == [num |-> e, den |-> more.top]
      <4>3. /\ p \in [num : Positive, den : Positive]
            /\ r \in [num : Positive, den : Positive]
            /\ acc.worst \in [num : Positive, den : Positive]
        BY <1>1, <1>4, <3>1 DEF Falls
      <4>4. ~LessThan(p, acc.worst)
        <5>1. acc.worst.num * equity(i) \in Int /\ equity(j) * acc.worst.den \in Int
          BY <1>1, <3>1 DEF Positive
        <5> QED  BY <4>2, <5>1 DEF LessThan
      <4>5. LessThan(r, acc.worst)
        BY <1>7 DEF LessThan
      <4>6. ~LessThan(p, r)
        <5> HIDE DEF p, r
        <5> QED  BY <4>3, <4>4, <4>5, RatiosOrdered
      <4>7. e * equity(i) \in Int /\ equity(j) * more.top \in Int
        BY <1>1, <1>4, <3>1 DEF Positive
      <4> QED  BY <4>6, <4>7 DEF LessThan
    <3> QED  BY <1>3, <3>2, <3>3
  <2>3. e * more.top = e * equity(i0) /\ i0 <= n + 1 /\ n + 1 \in 1 .. n + 1
    BY <1>6
  <2>4. \A i, j \in 1 .. n + 1 : i <= j =>
          more.worst.num * equity(i) <= equity(j) * more.worst.den
    BY <2>1, <2>2
  <2>5. \E i, j \in 1 .. n + 1 :
          i <= j /\ equity(j) * more.worst.den = more.worst.num * equity(i)
    BY <2>1, <2>3
  <2>6. FallsTo(snapshots, n + 1, more)
    BY <1>5, <1>6, <2>4, <2>5 DEF FallsTo
  <2> QED  BY <2>6 DEF more
<1>8. CASE ~(e * acc.worst.den < acc.worst.num * more.top)
  <2>1. more.worst = acc.worst
    BY <1>2, <1>8
  <2>2. acc.worst.num * more.top <= e * acc.worst.den
    BY <1>1, <1>4, <1>8 DEF Positive
  <2>3. ASSUME NEW i \in 1 .. n + 1, NEW j \in 1 .. n + 1, i <= j
        PROVE  acc.worst.num * equity(i) <= equity(j) * acc.worst.den
    <3>1. equity(i) \in Positive /\ equity(i) <= more.top
      BY <1>5
    <3>2. CASE j = n + 1
      <4>1. acc.worst.num * equity(i) <= acc.worst.num * more.top
        BY <1>1, <1>4, <3>1, ProductsOrdered DEF Positive
      <4>2. /\ acc.worst.num * equity(i) \in Int /\ acc.worst.num * more.top \in Int
            /\ e * acc.worst.den \in Int
        BY <1>1, <1>4, <3>1 DEF Positive
      <4> QED  BY <2>2, <3>2, <4>1, <4>2
    <3>3. CASE j \in 1 .. n
      <4>1. i \in 1 .. n
        BY <2>3, <3>3
      <4> QED  BY <2>3, <3>3, <4>1 DEF FallsTo
    <3> QED  BY <1>3, <3>2, <3>3
  <2>4. \E i, j \in 1 .. n + 1 :
          i <= j /\ equity(j) * acc.worst.den = acc.worst.num * equity(i)
    <3>1. PICK i \in 1 .. n, j \in 1 .. n :
              i <= j /\ equity(j) * acc.worst.den = acc.worst.num * equity(i)
      BY DEF FallsTo
    <3>2. i \in 1 .. n + 1 /\ j \in 1 .. n + 1
      OBVIOUS
    <3> QED  BY <3>1, <3>2
  <2>5. FallsTo(snapshots, n + 1, more)
    BY <1>5, <1>6, <2>1, <2>3, <2>4 DEF FallsTo
  <2> QED  BY <2>5 DEF more
<1> QED  BY <1>7, <1>8

\* _max_drawdown_metric: of all falls from a close to a later one, the worst.
LEMMA WorstFall ==
    ASSUME NEW snapshots, Len(snapshots) \in Positive,
           \A i \in 1 .. Len(snapshots) : snapshots[i].equity \in Positive
    PROVE  LET worst == MaxDrawdown(snapshots) IN
           /\ worst \in [num : Positive, den : Positive]
           /\ \A i, j \in 1 .. Len(snapshots) : i <= j =>
                 worst.num * snapshots[i].equity <= snapshots[j].equity * worst.den
           /\ \E i, j \in 1 .. Len(snapshots) :
                 /\ i <= j
                 /\ snapshots[j].equity * worst.den = worst.num * snapshots[i].equity
<1> DEFINE N == Len(snapshots)
<1>1. PICK g \in [0 .. N -> Falls] :
          /\ g[0] = [top |-> snapshots[1].equity, worst |-> One]
          /\ \A n \in 1 .. N : g[n] = Drawdown(g[n - 1], snapshots[n])
          /\ MaxDrawdown(snapshots) = g[N].worst
  BY DrawdownLoop
<1>2. N \in Nat /\ N >= 1 /\ 1 \in 1 .. N
  BY DEF Positive
<1> DEFINE T == {n \in Nat : n + 1 <= N => FallsTo(snapshots, n + 1, g[n + 1])}
<1>3. 0 \in T
  <2>1. g[1] = Drawdown(g[1 - 1], snapshots[1]) /\ 1 - 1 = 0 /\ 0 + 1 = 1
    BY <1>1, <1>2
  <2>2. FallsTo(snapshots, 1, g[1])
    BY <1>1, <1>2, <2>1, FirstFall
  <2> QED  BY <2>2
<1>4. ASSUME NEW n \in Nat, n \in T
      PROVE  n + 1 \in T
  <2> SUFFICES ASSUME (n + 1) + 1 <= N
               PROVE  FallsTo(snapshots, (n + 1) + 1, g[(n + 1) + 1])
    OBVIOUS
  <2> DEFINE k == n + 1
  <2>1. k \in Nat /\ k > 0 /\ k + 1 \in 1 .. N /\ k \in 0 .. N /\ (k + 1) - 1 = k
        /\ k <= N
    BY <1>2
  <2>2. FallsTo(snapshots, k, g[k])
    BY <1>4, <2>1
  <2> HIDE DEF k
  <2>3. g[k] \in Falls /\ g[k + 1] = Drawdown(g[k], snapshots[k + 1])
    BY <1>1, <2>1
  <2>4. \A i \in 1 .. k + 1 : snapshots[i].equity \in Positive
    BY <1>2, <2>1
  <2>5. FallsTo(snapshots, k + 1, g[k + 1])
    BY <2>1, <2>2, <2>3, <2>4, NextFall
  <2> QED  BY <2>5 DEF k
<1> HIDE DEF T
<1>5. N - 1 \in T
  <2>1. \A n \in Nat : n \in T
    BY <1>3, <1>4, NumbersFromZero
  <2>2. N - 1 \in Nat
    BY <1>2
  <2> QED  BY <2>1, <2>2
<1>6. FallsTo(snapshots, N, g[N])
  <2>1. (N - 1) + 1 = N
    BY <1>2
  <2> QED  BY <1>5, <2>1, <1>2 DEF T
<1>7. g[N] \in Falls
  BY <1>1, <1>2
<1> QED  BY <1>1, <1>6, <1>7 DEF FallsTo, Falls

--------------------------------------------------------------------------------
(* Matching the fills *)

Lots == [quantity : Nat, price : Int]
Sales == [price : Int, remaining : Nat, pnl : Int, open : Seq(Lots)]
Books == [lots : Seq(Lots), realized : Seq(Int)]

LEMMA MinOfTwo ==
    ASSUME NEW a \in Int, NEW b \in Int
    PROVE  Min({a, b}) = IF a <= b THEN a ELSE b
<1> DEFINE m == IF a <= b THEN a ELSE b
<1>1. m \in {a, b} /\ \A y \in {a, b} : m <= y
  OBVIOUS
<1>2. \A x \in {a, b} : (\A y \in {a, b} : x <= y) => x = m
  OBVIOUS
<1> HIDE DEF m
<1>3. Min({a, b}) = m
  BY <1>1, <1>2 DEF Min
<1> QED  BY <1>3 DEF m

\* One lot against a sale; one of the quantity that is left settles it.
LEMMA LotMatched ==
    ASSUME NEW sale \in Sales, NEW lot \in Lots
    PROVE  /\ MatchLot(sale, lot) \in Sales
           /\ sale.remaining = lot.quantity =>
                 /\ MatchLot(sale, lot).open = sale.open
                 /\ MatchLot(sale, lot).pnl
                       = sale.pnl + lot.quantity * (sale.price - lot.price)
<1> DEFINE matched == Min({sale.remaining, lot.quantity})
           gain == matched * (sale.price - lot.price)
           rest == [lot EXCEPT !.quantity = @ - matched]
<1>1. /\ sale.price \in Int /\ sale.remaining \in Nat /\ sale.pnl \in Int
      /\ sale.open \in Seq(Lots) /\ lot.quantity \in Nat /\ lot.price \in Int
  BY DEF Sales, Lots
<1>2. /\ matched \in Nat /\ matched <= sale.remaining /\ matched <= lot.quantity
      /\ sale.remaining = lot.quantity => matched = lot.quantity
  <2>1. matched = IF sale.remaining <= lot.quantity THEN sale.remaining
                  ELSE lot.quantity
    BY <1>1, MinOfTwo
  <2> HIDE DEF matched
  <2> QED  BY <1>1, <2>1
<1>3. MatchLot(sale, lot)
        = [price |-> sale.price, remaining |-> sale.remaining - matched,
           pnl |-> sale.pnl + gain,
           open |-> IF matched = lot.quantity THEN sale.open
                    ELSE Append(sale.open, rest)]
  BY DEF MatchLot
<1> HIDE DEF matched
<1>4. gain \in Int /\ sale.remaining - matched \in Nat
  BY <1>1, <1>2
<1>5. rest \in Lots
  <2>1. /\ lot.quantity - matched \in Nat
        /\ lot = [quantity |-> lot.quantity, price |-> lot.price]
    BY <1>1, <1>2 DEF Lots
  <2>2. rest = [quantity |-> lot.quantity - matched, price |-> lot.price]
    BY <2>1
  <2> QED  BY <1>1, <2>1, <2>2 DEF Lots
<1>6. gain = matched * (sale.price - lot.price)
  OBVIOUS
<1> HIDE DEF gain, rest
<1>7. Append(sale.open, rest) \in Seq(Lots)
  BY <1>1, <1>5
<1>8. MatchLot(sale, lot) \in Sales
  BY <1>1, <1>3, <1>4, <1>7 DEF Sales
<1> QED  BY <1>2, <1>3, <1>6, <1>8

\* The loop over the open lots.
LEMMA SaleLoop ==
    ASSUME NEW fill, fill.quantity \in Nat, fill.price \in Int,
           NEW lots \in Seq(Lots)
    PROVE  \E g \in [0 .. Len(lots) -> Sales] :
              /\ g[0] = [price |-> fill.price, remaining |-> fill.quantity,
                         pnl |-> 0, open |-> <<>>]
              /\ \A n \in 1 .. Len(lots) : g[n] = MatchLot(g[n - 1], lots[n])
              /\ SaleOver(fill, lots) = g[Len(lots)]
<1> DEFINE N == Len(lots)
           start == [price |-> fill.price, remaining |-> fill.quantity,
                     pnl |-> 0, open |-> <<>>]
           next == [p \in (1 .. N) \X Sales |-> MatchLot(p[2], lots[p[1]])]
           Loop(g) == g = [n \in 0 .. N |-> IF n = 0 THEN start
                                           ELSE MatchLot(g[n - 1], lots[n])]
<1>1. N \in Nat /\ \A n \in 1 .. N : lots[n] \in Lots
  OBVIOUS
<1>2. start \in Sales
  BY DEF Sales
<1>3. next \in [(1 .. N) \X Sales -> Sales]
  BY <1>1, LotMatched
<1>4. PICK f \in [0 .. N -> Sales] : /\ f[0] = start
                                    /\ \A n \in 1 .. N : f[n] = next[<<n, f[n - 1]>>]
  <2>1. IsLoop(N, Sales, start, next)
    BY <1>1, <1>2, <1>3 DEF IsLoop
  <2>2. PICK f : Computes(N, Sales, start, next, f)
    BY <2>1, Iteration
  <2> QED  BY <2>2 DEF Computes
<1>5. \A n \in 1 .. N : f[n] = MatchLot(f[n - 1], lots[n])
  <2> TAKE n \in 1 .. N
  <2>1. n - 1 \in 0 .. N
    BY <1>1
  <2>2. <<n, f[n - 1]>> \in (1 .. N) \X Sales
    BY <1>4, <2>1
  <2> QED  BY <1>4, <2>2
<1>6. Loop(f)
  BY <1>1, <1>4, <1>5
<1> DEFINE g == CHOOSE h : Loop(h)
<1>7. Loop(g)
  BY <1>6
<1>8. SaleOver(fill, lots) = g[N]
  BY DEF SaleOver
<1> HIDE DEF g, start, next
<1>9. /\ DOMAIN g = 0 .. N /\ g[0] = start
      /\ \A n \in 1 .. N : g[n] = MatchLot(g[n - 1], lots[n])
  BY <1>1, <1>7
<1>10. \A n \in 0 .. N : g[n] = f[n]
  <2>1. Alike(N, g, f)
    BY <1>1, <1>4, <1>5, <1>9 DEF Alike
  <2> QED  BY <2>1, SameTurns
<1>11. g \in [0 .. N -> Sales]
  BY <1>4, <1>7, <1>10
<1> QED  BY <1>8, <1>9, <1>11 DEF start

\* A sale of exactly the one lot that is open.
LEMMA SaleOfTheLot ==
    ASSUME NEW fill, fill.quantity \in Nat, fill.price \in Int,
           NEW price \in Int
    PROVE  LET lot == [quantity |-> fill.quantity, price |-> price]
           IN  /\ SaleOver(fill, <<lot>>).open = <<>>
               /\ SaleOver(fill, <<lot>>).pnl
                     = fill.quantity * (fill.price - price)
<1> DEFINE lot == [quantity |-> fill.quantity, price |-> price]
           start == [price |-> fill.price, remaining |-> fill.quantity,
                     pnl |-> 0, open |-> <<>>]
<1>1. lot \in Lots /\ <<lot>> \in Seq(Lots) /\ Len(<<lot>>) = 1
      /\ <<lot>>[1] = lot
  BY DEF Lots
<1>2. start \in Sales
  BY DEF Sales
<1>3. SaleOver(fill, <<lot>>) = MatchLot(start, lot)
  <2>1. PICK g \in [0 .. Len(<<lot>>) -> Sales] :
              /\ g[0] = start
              /\ \A n \in 1 .. Len(<<lot>>) : g[n] = MatchLot(g[n - 1], <<lot>>[n])
              /\ SaleOver(fill, <<lot>>) = g[Len(<<lot>>)]
    BY <1>1, SaleLoop
  <2> HIDE DEF lot, start
  <2>2. g[1] = MatchLot(g[1 - 1], <<lot>>[1]) /\ SaleOver(fill, <<lot>>) = g[1]
    BY <1>1, <2>1
  <2> QED  BY <1>1, <2>1, <2>2
<1>4. /\ MatchLot(start, lot).open = start.open
      /\ MatchLot(start, lot).pnl
            = start.pnl + lot.quantity * (start.price - lot.price)
  <2>1. start.remaining = lot.quantity
    OBVIOUS
  <2> HIDE DEF start, lot
  <2> QED  BY <1>1, <1>2, <2>1, LotMatched
<1>5. fill.quantity * (fill.price - price) \in Int
  OBVIOUS
<1> QED  BY <1>3, <1>4, <1>5

LEMMA FillMatched ==
    ASSUME NEW book \in Books,
           NEW fill, fill.quantity \in Nat, fill.price \in Int
    PROVE  MatchFill(book, fill) \in Books
<1>1. book.lots \in Seq(Lots) /\ book.realized \in Seq(Int)
  BY DEF Books
<1>2. CASE fill.side = "buy"
  <2>1. [quantity |-> fill.quantity, price |-> fill.price] \in Lots
    BY DEF Lots
  <2>2. Append(book.lots, [quantity |-> fill.quantity, price |-> fill.price])
           \in Seq(Lots)
    BY <1>1, <2>1
  <2> QED  BY <1>1, <1>2, <2>2 DEF MatchFill, Books
<1>3. CASE fill.side # "buy"
  <2> DEFINE sale == SaleOver(fill, book.lots)
  <2>1. sale \in Sales
    <3>1. PICK g \in [0 .. Len(book.lots) -> Sales] : sale = g[Len(book.lots)]
      BY <1>1, SaleLoop
    <3>2. Len(book.lots) \in 0 .. Len(book.lots)
      BY <1>1
    <3> QED  BY <3>1, <3>2
  <2>2. MatchFill(book, fill)
          = [lots |-> sale.open, realized |-> Append(book.realized, sale.pnl)]
    BY <1>3 DEF MatchFill
  <2> HIDE DEF sale
  <2>3. sale.open \in Seq(Lots) /\ sale.pnl \in Int
    BY <2>1 DEF Sales
  <2>4. Append(book.realized, sale.pnl) \in Seq(Int)
    BY <1>1, <2>3
  <2> QED  BY <2>2, <2>3, <2>4 DEF Books
<1> QED  BY <1>2, <1>3

\* The loop over the fills.
LEMMA BookLoop ==
    ASSUME NEW fills \in Seq(FillEvents)
    PROVE  /\ FifoBooks(fills) \in [0 .. Len(fills) -> Books]
           /\ FifoBooks(fills)[0] = NoBook
           /\ \A n \in 1 .. Len(fills) :
                 FifoBooks(fills)[n] = MatchFill(FifoBooks(fills)[n - 1], fills[n])
<1> DEFINE N == Len(fills)
           next == [p \in (1 .. N) \X Books |-> MatchFill(p[2], fills[p[1]])]
           Loop(g) == g = [n \in 0 .. N |-> IF n = 0 THEN NoBook
                                           ELSE MatchFill(g[n - 1], fills[n])]
<1>1. N \in Nat
      /\ \A n \in 1 .. N : fills[n].quantity \in Nat /\ fills[n].price \in Int
  <2>1. N \in Nat /\ \A n \in 1 .. N : fills[n] \in FillEvents
    OBVIOUS
  <2> QED  BY <2>1 DEF FillEvents, Positive
<1>2. NoBook \in Books
  <2>1. <<>> \in Seq(Lots) /\ <<>> \in Seq(Int)
    OBVIOUS
  <2> QED  BY <2>1 DEF NoBook, Books
<1>3. next \in [(1 .. N) \X Books -> Books]
  BY <1>1, FillMatched
<1>4. PICK f \in [0 .. N -> Books] : /\ f[0] = NoBook
                                    /\ \A n \in 1 .. N : f[n] = next[<<n, f[n - 1]>>]
  <2>1. IsLoop(N, Books, NoBook, next)
    BY <1>1, <1>2, <1>3 DEF IsLoop
  <2>2. PICK f : Computes(N, Books, NoBook, next, f)
    BY <2>1, Iteration
  <2> QED  BY <2>2 DEF Computes
<1>5. \A n \in 1 .. N : f[n] = MatchFill(f[n - 1], fills[n])
  <2> TAKE n \in 1 .. N
  <2>1. n - 1 \in 0 .. N
    BY <1>1
  <2>2. <<n, f[n - 1]>> \in (1 .. N) \X Books
    BY <1>4, <2>1
  <2> QED  BY <1>4, <2>2
<1>6. Loop(f)
  <2>1. N \in Nat /\ DOMAIN f = 0 .. N
    BY <1>1, <1>4
  <2>2. \A n \in 0 .. N : f[n] = IF n = 0 THEN NoBook ELSE MatchFill(f[n - 1], fills[n])
    BY <1>4, <1>5, <2>1
  <2>3. f = [n \in 0 .. N |-> f[n]]
    BY <1>4
  <2> QED  BY <2>2, <2>3
<1> DEFINE g == CHOOSE h : Loop(h)
<1>7. Loop(g)
  BY <1>6
<1>8. FifoBooks(fills) = g
  BY DEF FifoBooks
<1> HIDE DEF g, next
<1>9. /\ DOMAIN g = 0 .. N /\ g[0] = NoBook
      /\ \A n \in 1 .. N : g[n] = MatchFill(g[n - 1], fills[n])
  BY <1>1, <1>7
<1>10. \A n \in 0 .. N : g[n] = f[n]
  <2>1. Alike(N, g, f)
    BY <1>1, <1>4, <1>5, <1>9 DEF Alike
  <2> QED  BY <2>1, SameTurns
<1>11. g \in [0 .. N -> Books]
  BY <1>4, <1>7, <1>10
<1> QED  BY <1>8, <1>9, <1>11

LEMMA NoFillMatched == FifoBook(<<>>) = NoBook
<1>1. <<>> \in Seq(FillEvents) /\ Len(<<>>) = 0
  OBVIOUS
<1> QED  BY <1>1, BookLoop DEF FifoBook

\* One more fill is matched after all others.
LEMMA BookAppended ==
    ASSUME NEW fills \in Seq(FillEvents), NEW fill \in FillEvents
    PROVE  /\ FifoBook(fills) \in Books
           /\ FifoBook(Append(fills, fill)) = MatchFill(FifoBook(fills), fill)
<1> DEFINE more == Append(fills, fill)
           N == Len(fills)
           g == FifoBooks(fills)
           h == FifoBooks(more)
<1>1. /\ N \in Nat /\ more \in Seq(FillEvents) /\ Len(more) = N + 1
      /\ more[N + 1] = fill /\ \A n \in 1 .. N : more[n] = fills[n]
  OBVIOUS
<1>2. /\ g \in [0 .. N -> Books] /\ g[0] = NoBook
      /\ \A n \in 1 .. N : g[n] = MatchFill(g[n - 1], fills[n])
  BY BookLoop
<1> HIDE DEF more
<1>3. h[0] = NoBook /\ \A n \in 1 .. N + 1 : h[n] = MatchFill(h[n - 1], more[n])
  BY <1>1, BookLoop
<1>4. FifoBook(fills) = g[N] /\ FifoBook(more) = h[N + 1]
  BY <1>1 DEF FifoBook
<1> HIDE DEF g, h
<1>5. h[N] = g[N]
  <2>1. Alike(N, g, h)
    BY <1>1, <1>2, <1>3 DEF Alike
  <2> QED  BY <1>1, <2>1, SameTurns
<1>6. h[N + 1] = MatchFill(h[(N + 1) - 1], more[N + 1]) /\ (N + 1) - 1 = N
  BY <1>1, <1>3
<1> QED  BY <1>1, <1>2, <1>4, <1>5, <1>6 DEF more

LEMMA SumLoop ==
    ASSUME NEW numbers \in Seq(Int)
    PROVE  \E g \in [0 .. Len(numbers) -> Int] :
              /\ g[0] = 0
              /\ \A n \in 1 .. Len(numbers) : g[n] = g[n - 1] + numbers[n]
              /\ Total(numbers) = g[Len(numbers)]
<1> DEFINE N == Len(numbers)
           next == [p \in (1 .. N) \X Int |-> p[2] + numbers[p[1]]]
           Loop(g) == g = [n \in 0 .. N |-> IF n = 0 THEN 0
                                           ELSE g[n - 1] + numbers[n]]
<1>1. N \in Nat /\ \A n \in 1 .. N : numbers[n] \in Int
  OBVIOUS
<1>2. next \in [(1 .. N) \X Int -> Int]
  BY <1>1
<1>3. PICK f \in [0 .. N -> Int] : /\ f[0] = 0
                                  /\ \A n \in 1 .. N : f[n] = next[<<n, f[n - 1]>>]
  <2>1. IsLoop(N, Int, 0, next)
    BY <1>1, <1>2 DEF IsLoop
  <2>2. PICK f : Computes(N, Int, 0, next, f)
    BY <2>1, Iteration
  <2> QED  BY <2>2 DEF Computes
<1>4. \A n \in 1 .. N : f[n] = f[n - 1] + numbers[n]
  <2> TAKE n \in 1 .. N
  <2>1. n - 1 \in 0 .. N
    BY <1>1
  <2>2. <<n, f[n - 1]>> \in (1 .. N) \X Int
    BY <1>3, <2>1
  <2> QED  BY <1>3, <2>2
<1>5. Loop(f)
  BY <1>1, <1>3, <1>4
<1> DEFINE g == CHOOSE h : Loop(h)
<1>6. Loop(g)
  BY <1>5
<1>7. Total(numbers) = g[N]
  BY DEF Total
<1> HIDE DEF g, next
<1>8. /\ DOMAIN g = 0 .. N /\ g[0] = 0
      /\ \A n \in 1 .. N : g[n] = g[n - 1] + numbers[n]
  <2>1. N \in Nat /\ g = [n \in 0 .. N |-> IF n = 0 THEN 0
                                          ELSE g[n - 1] + numbers[n]]
    BY <1>1, <1>6
  <2> HIDE DEF N
  <2>2. DOMAIN g = 0 .. N /\ \A n \in 0 .. N :
           g[n] = IF n = 0 THEN 0 ELSE g[n - 1] + numbers[n]
    BY <2>1, Zenon
  <2> QED  BY <2>1, <2>2
<1>9. \A n \in 0 .. N : g[n] = f[n]
  <2>1. Alike(N, g, f)
    BY <1>1, <1>3, <1>4, <1>8 DEF Alike
  <2> QED  BY <2>1, SameTurns
<1>10. g \in [0 .. N -> Int]
  BY <1>3, <1>6, <1>9
<1> QED  BY <1>7, <1>8, <1>10

LEMMA NothingTotal == Total(<<>>) = 0
<1>1. <<>> \in Seq(Int) /\ Len(<<>>) = 0
  OBVIOUS
<1> QED  BY <1>1, SumLoop

LEMMA TotalAppended ==
    ASSUME NEW numbers \in Seq(Int), NEW number \in Int
    PROVE  /\ Total(numbers) \in Int
           /\ Total(Append(numbers, number)) = Total(numbers) + number
<1> DEFINE more == Append(numbers, number)
           N == Len(numbers)
<1>1. /\ N \in Nat /\ more \in Seq(Int) /\ Len(more) = N + 1
      /\ more[N + 1] = number /\ \A n \in 1 .. N : more[n] = numbers[n]
  OBVIOUS
<1> HIDE DEF more
<1>2. PICK g :
         /\ g \in [0 .. N -> Int]
         /\ g[0] = 0
         /\ \A n \in 1 .. N : g[n] = g[n - 1] + numbers[n]
         /\ Total(numbers) = g[N]
  BY SumLoop
<1>3. PICK h :
         /\ h \in [0 .. N + 1 -> Int]
         /\ h[0] = 0
         /\ \A n \in 1 .. N + 1 : h[n] = h[n - 1] + more[n]
         /\ Total(more) = h[N + 1]
  BY <1>1, SumLoop
<1> HIDE DEF N
<1>4. h[N] = g[N]
  <2>1. Alike(N, g, h)
    BY <1>1, <1>2, <1>3 DEF Alike
  <2>2. \A n \in 0 .. N : g[n] = h[n]
    BY <2>1, SameTurns
  <2>3. N \in 0 .. N
    BY <1>1
  <2> QED  BY <2>2, <2>3
<1>5. h[N + 1] = h[(N + 1) - 1] + more[N + 1] /\ (N + 1) - 1 = N
  BY <1>1, <1>3
<1>6. g[N] \in Int
  BY <1>1, <1>2
<1> QED  BY <1>1, <1>2, <1>3, <1>4, <1>5, <1>6 DEF more, N

--------------------------------------------------------------------------------
(* The accounts at the closes *)

\* The events by their parts.
LEMMA EventListsTyped ==
    ASSUME TypeOK
    PROVE  /\ cashEvents \in Seq(CashEvents) /\ Len(cashEvents) \in Nat
           /\ DOMAIN cashEvents = 1 .. Len(cashEvents)
           /\ \A k \in 1 .. Len(cashEvents) : /\ cashEvents[k].at \in Int
                                             /\ cashEvents[k].after \in Int
           /\ positionEvents \in Seq(PositionEvents) /\ Len(positionEvents) \in Nat
           /\ DOMAIN positionEvents = 1 .. Len(positionEvents)
           /\ \A k \in 1 .. Len(positionEvents) :
                 /\ positionEvents[k].at \in Int
                 /\ positionEvents[k].quantity \in Int
           /\ Len(marks) \in Nat /\ DOMAIN marks = 1 .. Len(marks)
<1>1. /\ cashEvents \in Seq(CashEvents) /\ positionEvents \in Seq(PositionEvents)
  BY DEF TypeOK
<1>2. /\ \A k \in 1 .. Len(cashEvents) : cashEvents[k] \in CashEvents
      /\ \A k \in 1 .. Len(positionEvents) : positionEvents[k] \in PositionEvents
      /\ Len(cashEvents) \in Nat /\ Len(positionEvents) \in Nat
      /\ DOMAIN cashEvents = 1 .. Len(cashEvents)
      /\ DOMAIN positionEvents = 1 .. Len(positionEvents)
  BY <1>1
<1>3. /\ \A event \in CashEvents : event.at \in Int /\ event.after \in Int
      /\ \A event \in PositionEvents : event.at \in Int /\ event.quantity \in Int
  BY DEF CashEvents, PositionEvents, Refs
<1>4. Len(marks) \in Nat /\ DOMAIN marks = 1 .. Len(marks)
  BY DEF TypeOK
<1> QED  BY <1>1, <1>2, <1>3, <1>4

LEMMA InitMarks ==
    ASSUME Init
    PROVE  MarksInv
BY DEF Init, MarksInv, Closed, Today, CashAfter

\* A step that books nothing and closes no bar.
LEMMA MarksKept ==
    ASSUME MarksInv, TypeOK,
           UNCHANGED <<manifest, availableCash, cashEvents, positionEvents, marks>>,
           result' # "engine_error" => /\ result # "engine_error"
                                       /\ Closed' = Closed
                                       /\ step' = "done" => Today' >= 1
                                       /\ Today' >= Today,
           Today \in Nat, Today' \in Nat
    PROVE  MarksInv'
<1> SUFFICES ASSUME result' # "engine_error"
             PROVE  MarksInv'
  BY DEF MarksInv
<1>1. \A n : CashAfter(n)' = CashAfter(n) /\ PositionAfter(n)' = PositionAfter(n)
  BY DEF CashAfter, PositionAfter
<1>2. /\ \A k \in DOMAIN cashEvents : cashEvents[k].at <= Today'
      /\ \A k \in DOMAIN positionEvents : positionEvents[k].at <= Today'
  BY EventListsTyped DEF MarksInv
<1>3. \A i \in DOMAIN marks' :
        /\ \E n \in 0 .. Len(cashEvents') :
              LastBy(cashEvents', i, n) /\ marks'[i].cash = CashAfter(n)'
        /\ \E n \in 0 .. Len(positionEvents') :
              /\ LastBy(positionEvents', i, n)
              /\ marks'[i].position = PositionAfter(n)'
  BY <1>1 DEF MarksInv
<1> QED  BY <1>1, <1>2, <1>3 DEF MarksInv, CashAfter

\* A booked fill is of today, after every closed bar.
LEMMA BookedMarks ==
    ASSUME IInv, MarksInv, NotifyCompleted
    PROVE  MarksInv'
<1> DEFINE cashEvent == cashEvents'[Len(cashEvents')]
           positionEvent == positionEvents'[Len(positionEvents')]
           C == Len(cashEvents)
           P == Len(positionEvents)
<1>1. /\ step = "notify" /\ step' = "broker" /\ result = "none"
      /\ TypeOK /\ TypeOK' /\ Today \in Refs
  <2>1. step = "notify" /\ step' = "broker"
    BY DEF NotifyCompleted, Notified
  <2>2. IInv'
    BY NotifyCompletedStep
  <2> QED  BY <2>1, <2>2, NotifiedOrder DEF IInv
<1>2. /\ UNCHANGED <<manifest, bars, result, marks>>
      /\ \E after :
            /\ availableCash' = after
            /\ cashEvents' = Append(cashEvents, [at |-> Today,
                                                before |-> availableCash,
                                                after |-> after])
      /\ \E quantity, cost :
            positionEvents' = Append(positionEvents, [at |-> Today,
                                                      quantity |-> quantity,
                                                      averageCost |-> cost])
  BY DEF NotifyCompleted, BookFill, history
<1>3. /\ C \in Nat /\ P \in Nat
      /\ Len(cashEvents') = C + 1 /\ Len(positionEvents') = P + 1
      /\ cashEvents' = Append(cashEvents, cashEvent)
      /\ positionEvents' = Append(positionEvents, positionEvent)
      /\ cashEvent.at = Today /\ cashEvent.after = availableCash'
      /\ positionEvent.at = Today
      /\ \A k \in 1 .. C : cashEvents'[k] = cashEvents[k]
      /\ \A k \in 1 .. P : positionEvents'[k] = positionEvents[k]
      /\ cashEvents \in Seq(CashEvents) /\ positionEvents \in Seq(PositionEvents)
      /\ DOMAIN cashEvents = 1 .. C /\ DOMAIN positionEvents = 1 .. P
      /\ DOMAIN cashEvents' = 1 .. C + 1 /\ DOMAIN positionEvents' = 1 .. P + 1
  <2>1. PICK event : cashEvents' = Append(cashEvents, event) /\ event.at = Today
                     /\ event.after = availableCash'
    BY <1>2
  <2>2. PICK other : positionEvents' = Append(positionEvents, other)
                     /\ other.at = Today
    BY <1>2
  <2> QED  BY <1>1, <2>1, <2>2, EventListsTyped
<1>4. Closed' = Closed /\ Closed = Today - 1 /\ Today' = Today
      /\ Len(marks) = Closed
  BY <1>1, <1>2 DEF Closed, Today, MarksInv
<1>5. availableCash' = CashAfter(Len(cashEvents))'
  BY <1>3 DEF CashAfter
<1>6. /\ \A k \in DOMAIN cashEvents' : cashEvents'[k].at <= Today'
      /\ \A k \in DOMAIN positionEvents' : positionEvents'[k].at <= Today'
  <2>1. \A k \in 1 .. C : cashEvents'[k].at <= Today'
    BY <1>1, <1>3, <1>4 DEF MarksInv
  <2>2. \A k \in 1 .. P : positionEvents'[k].at <= Today'
    BY <1>1, <1>3, <1>4 DEF MarksInv
  <2>3. cashEvents'[C + 1].at <= Today' /\ positionEvents'[P + 1].at <= Today'
    BY <1>1, <1>3, <1>4 DEF Refs
  <2> QED  BY <1>3, <2>1, <2>2, <2>3
<1>7. ASSUME NEW i \in DOMAIN marks'
      PROVE  /\ \E n \in 0 .. Len(cashEvents') :
                   LastBy(cashEvents', i, n) /\ marks'[i].cash = CashAfter(n)'
             /\ \E n \in 0 .. Len(positionEvents') :
                   /\ LastBy(positionEvents', i, n)
                   /\ marks'[i].position = PositionAfter(n)'
  <2>1. i \in Nat /\ i < Today
    BY <1>1, <1>2, <1>4, EventListsTyped DEF Refs
  <2>2. PICK c \in 0 .. C : LastBy(cashEvents, i, c) /\ marks[i].cash = CashAfter(c)
    BY <1>1, <1>2 DEF MarksInv
  <2>3. PICK p \in 0 .. P : /\ LastBy(positionEvents, i, p)
                           /\ marks[i].position = PositionAfter(p)
    BY <1>1, <1>2 DEF MarksInv
  <2>4. LastBy(cashEvents', i, c)
    <3> HIDE DEF cashEvent
    <3> QED  BY <1>1, <1>3, <2>1, <2>2, LastByAppend DEF Refs
  <2>5. LastBy(positionEvents', i, p)
    <3> HIDE DEF positionEvent
    <3> QED  BY <1>1, <1>3, <2>1, <2>3, LastByAppend DEF Refs
  <2>6. CashAfter(c)' = CashAfter(c) /\ PositionAfter(p)' = PositionAfter(p)
    BY <1>2, <1>3 DEF CashAfter, PositionAfter
  <2>7. c \in 0 .. Len(cashEvents') /\ p \in 0 .. Len(positionEvents')
    BY <1>3
  <2> QED  BY <1>2, <2>2, <2>3, <2>4, <2>5, <2>6, <2>7
<1> HIDE DEF cashEvent, positionEvent
<1> QED  BY <1>1, <1>2, <1>4, <1>5, <1>6, <1>7 DEF MarksInv

\* The account at the close of a bar is the one after all events so far.
LEMMA ClosedMarks ==
    ASSUME IInv, MarksInv, EndOfBar
    PROVE  MarksInv'
<1> DEFINE mark == [cash |-> availableCash, position |-> position]
<1>1. /\ step = "next" /\ step' = "feed" /\ marks' = Append(marks, mark)
      /\ UNCHANGED <<manifest, bars, availableCash, cashEvents, positionEvents,
                     result>>
  BY DEF EndOfBar
<1>2. /\ TypeOK /\ result = "none" /\ Today \in Refs
      /\ position = Reported
  BY <1>1, NextFinds
<1>3. /\ Len(marks) \in Nat /\ Len(marks) = Today - 1 /\ Len(marks') = Today
      /\ \A i \in 1 .. Len(marks) : marks'[i] = marks[i]
      /\ marks'[Today] = mark
      /\ DOMAIN marks = 1 .. Len(marks) /\ DOMAIN marks' = 1 .. Today
  <2>1. Len(marks) = Today - 1
    BY <1>1, <1>2 DEF MarksInv, Closed
  <2> DEFINE Accounts == [cash : Int, position : Int]
  <2>2. marks \in Seq(Accounts) /\ mark \in Accounts
    BY <1>2 DEF TypeOK
  <2> HIDE DEF Accounts, mark
  <2> QED  BY <1>1, <1>2, <2>1, <2>2 DEF Refs
<1>4. Closed' = Today' /\ Today' = Today
  BY <1>1 DEF Closed, Today
<1>5. /\ availableCash = CashAfter(Len(cashEvents))
      /\ \A k \in DOMAIN cashEvents : cashEvents[k].at <= Today
      /\ \A k \in DOMAIN positionEvents : positionEvents[k].at <= Today
  BY <1>2 DEF MarksInv
<1>6. \A n : CashAfter(n)' = CashAfter(n) /\ PositionAfter(n)' = PositionAfter(n)
  BY <1>1 DEF CashAfter, PositionAfter
<1>7. ASSUME NEW i \in 1 .. Len(marks)
      PROVE  /\ \E n \in 0 .. Len(cashEvents') :
                   LastBy(cashEvents', i, n) /\ marks'[i].cash = CashAfter(n)'
             /\ \E n \in 0 .. Len(positionEvents') :
                   /\ LastBy(positionEvents', i, n)
                   /\ marks'[i].position = PositionAfter(n)'
  BY <1>1, <1>2, <1>3, <1>6 DEF MarksInv
<1>8. /\ LastBy(cashEvents, Today, Len(cashEvents))
      /\ LastBy(positionEvents, Today, Len(positionEvents))
  <2>1. Len(cashEvents) \in Nat /\ DOMAIN cashEvents = 1 .. Len(cashEvents)
    BY <1>2, EventListsTyped
  <2>2. Len(positionEvents) \in Nat
        /\ DOMAIN positionEvents = 1 .. Len(positionEvents)
    BY <1>2, EventListsTyped
  <2>3. LastBy(cashEvents, Today, Len(cashEvents))
    BY <1>5, <2>1 DEF LastBy
  <2>4. LastBy(positionEvents, Today, Len(positionEvents))
    BY <1>5, <2>2 DEF LastBy
  <2> QED  BY <2>3, <2>4
<1>9. /\ marks'[Today].cash = CashAfter(Len(cashEvents))
      /\ marks'[Today].position = PositionAfter(Len(positionEvents))
  <2>1. Reported = PositionAfter(Len(positionEvents))
    BY <1>2, EventListsTyped DEF Reported, PositionAfter
  <2> QED  BY <1>2, <1>3, <1>5, <2>1
<1>10. ASSUME NEW i \in DOMAIN marks'
       PROVE  /\ \E n \in 0 .. Len(cashEvents') :
                    LastBy(cashEvents', i, n) /\ marks'[i].cash = CashAfter(n)'
              /\ \E n \in 0 .. Len(positionEvents') :
                    /\ LastBy(positionEvents', i, n)
                    /\ marks'[i].position = PositionAfter(n)'
  <2>1. CASE i \in 1 .. Len(marks)
    BY <2>1, <1>7
  <2>2. CASE i = Today
    <3>1. Len(cashEvents) \in 0 .. Len(cashEvents)
          /\ Len(positionEvents) \in 0 .. Len(positionEvents)
      BY <1>2, EventListsTyped
    <3> QED  BY <2>2, <3>1, <1>1, <1>6, <1>8, <1>9
  <2> QED  BY <2>1, <2>2, <1>3
<1>11. availableCash' = CashAfter(Len(cashEvents))'
  BY <1>1, <1>5, <1>6
<1> HIDE DEF mark
<1> QED  BY <1>1, <1>2, <1>3, <1>4, <1>5, <1>10, <1>11 DEF MarksInv

LEMMA NextMarks ==
    ASSUME IInv, MarksInv, [Next]_vars
    PROVE  MarksInv'
<1>1. TypeOK /\ TypeOK'
  BY NextIInv DEF IInv
<1>2. Today \in Nat /\ Today' \in Nat
  <2>1. bars \in Seq(Bars) /\ bars' \in Seq(Bars)
    BY <1>1 DEF TypeOK
  <2> QED  BY <2>1 DEF Today
<1>3. CASE LoadBar
  <2>1. /\ step = "feed" /\ step' = "broker" /\ Today' = Today + 1
        /\ UNCHANGED <<manifest, availableCash, cashEvents, positionEvents, marks,
                       result>>
    BY <1>1, <1>3 DEF LoadBar, adapter, events, history, Today, TypeOK
  <2> QED  BY <1>1, <1>2, <2>1, MarksKept DEF Closed
<1>4. CASE ExecuteOrder \/ RefuseOrder \/ BrokerIdle \/ NotifyMargin
  <2>1. /\ step \in {"broker", "notify"} /\ step' \in {"broker", "notify", "next"}
        /\ UNCHANGED <<manifest, bars, availableCash, cashEvents, positionEvents,
                       marks, result>>
    BY <1>4 DEF ExecuteOrder, RefuseOrder, BrokerIdle, NotifyMargin, Notified,
                broker, adapter, events, history
  <2>2. Today' = Today
    BY <2>1 DEF Today
  <2> QED  BY <1>1, <1>2, <2>1, <2>2, MarksKept DEF Closed
<1>5. CASE NotifyCompleted
  BY <1>5, BookedMarks
<1>6. CASE Hold \/ SubmitEntry \/ WarnZeroQuantity \/ SubmitExit
  BY <1>6, ClosedMarks DEF Hold, SubmitEntry, WarnZeroQuantity, SubmitExit
<1>7. CASE Stop
  <2>1. /\ step = "feed" /\ step' = "done" /\ bars # <<>> /\ result = "none"
        /\ UNCHANGED <<manifest, bars, availableCash, cashEvents, positionEvents,
                       marks>>
    BY <1>7 DEF Stop, adapter, events, history, IInv, StepInv
  <2>2. Today' = Today /\ Today >= 1
    BY <1>1, <1>2, <2>1 DEF Today, TypeOK
  <2> QED  BY <1>1, <1>2, <2>1, <2>2, MarksKept DEF Closed
<1>8. CASE RaiseInEngine
  BY <1>8 DEF RaiseInEngine, MarksInv
<1>9. CASE UNCHANGED vars
  <2>1. UNCHANGED <<manifest, bars, step, availableCash, cashEvents,
                    positionEvents, marks, result>>
    BY <1>9 DEF vars, adapter, events, history
  <2>2. Today' = Today /\ Closed' = Closed
    BY <2>1 DEF Today, Closed
  <2>3. result # "engine_error" /\ step = "done" => Today >= 1
    BY DEF MarksInv
  <2> QED  BY <1>1, <1>2, <2>1, <2>2, <2>3, MarksKept
<1> QED  BY <1>3, <1>4, <1>5, <1>6, <1>7, <1>8, <1>9 DEF Next

--------------------------------------------------------------------------------
(* The account is never empty nor in debt *)

\* All roundings of a run stay below one unit of the adapter's money.
FineGrained == Drift * (1 + MaxBars) < Unit

(* The broker refuses an order that its cash does not cover, which the adapter's
   then covers but for less than a unit, and a position is sold for something. *)
SolventInv ==
    FineGrained /\ result # "engine_error" =>
        /\ Len(fillEvents) <= Len(orderEvents)
        /\ HeldByFills = 0 => availableCash > 0
        /\ \A i \in DOMAIN marks : /\ marks[i].cash >= 0 /\ marks[i].position >= 0
                                   /\ marks[i].cash > 0 \/ marks[i].position > 0

LEMMA InitSolvent ==
    ASSUME Init
    PROVE  SolventInv
<1>1. manifest.capital \in Positive
  BY ManifestsAssumption DEF Init
<1> QED  BY <1>1 DEF Init, SolventInv, Positive

\* What is less than a unit in debt is not in debt.
LEMMA NoDebt ==
    ASSUME IInv, SolventInv, FineGrained, result # "engine_error"
    PROVE  availableCash \in Nat
<1>1. /\ Unit \in Nat /\ Unit > 0 /\ Drift \in Nat /\ MaxBars \in Nat
      /\ availableCash \in Int /\ Len(fillEvents) \in Nat
  BY PrecisionAssumption, MaxBarsAssumption, ListsTyped DEF IInv, TypeOK, Positive
<1>2. Len(fillEvents) <= MaxBars
  <2>1. Len(fillEvents) <= Len(orderEvents) /\ Len(orderEvents) \in Nat
    BY ListsTyped DEF SolventInv, IInv
  <2>2. Len(orderEvents) <= Latest /\ Latest <= Today /\ Today <= MaxBars
        /\ Latest \in Nat /\ Today \in Nat
    <3>1. Len(orderEvents) = Latest - (IF DOMAIN orderContext = {} THEN 0 ELSE 1)
          /\ Latest <= Today /\ Today <= MaxBars
      BY DEF IInv, EventsInv, DaysInv, TypeOK, Today
    <3>2. Latest \in Nat /\ Today \in Nat
      BY ListsTyped DEF IInv, TypeOK, Today
    <3> QED  BY <3>1, <3>2
  <2> QED  BY <1>1, <2>1, <2>2
<1>3. Roundings < Unit /\ Roundings \in Nat
  <2>1. Drift * (1 + Len(fillEvents)) <= Drift * (1 + MaxBars)
    BY <1>1, <1>2
  <2> QED  BY <1>1, <2>1 DEF FineGrained, Roundings
<1>4. availableCash * Unit >= -Roundings
  BY DEF IInv, BooksInv
<1>5. availableCash < 0 => availableCash * Unit <= -Unit
  <2> SUFFICES ASSUME availableCash < 0
               PROVE  availableCash * Unit <= -Unit
    OBVIOUS
  <2>1. availableCash <= -1
    BY <1>1
  <2>2. availableCash * Unit <= (-1) * Unit
    BY <1>1, <2>1, PrecisionAssumption, TimesMonotone
  <2> QED  BY <1>1, <2>2
<1> DEFINE had == availableCash * Unit
<1>6. had \in Int
  BY <1>1
<1> HIDE DEF had
<1>7. ~(availableCash < 0)
  <2>1. had >= -Roundings /\ (availableCash < 0 => had <= -Unit)
    BY <1>4, <1>5 DEF had
  <2> QED  BY <1>1, <1>3, <1>6, <2>1
<1> QED  BY <1>1, <1>7

\* A sale is for something, a purchase leaves a position.
LEMMA BookedSolvent ==
    ASSUME IInv, SolventInv, NotifyCompleted
    PROVE  SolventInv'
<1> SUFFICES ASSUME FineGrained, result' # "engine_error"
             PROVE  SolventInv'
  BY DEF SolventInv, FineGrained
<1> DEFINE order == orderContext[notice.ref]
           value == Bar.open * order.quantity
           fill == [ref |-> notice.ref, side |-> order.side, at |-> Today,
                    quantity |-> order.quantity, price |-> Bar.open]
           event == OrderEvent(notice.ref, "filled")
<1>1. /\ UNCHANGED <<result, marks>>
      /\ orderEvents' = Append(orderEvents, event)
      /\ fillEvents' = Append(fillEvents, fill)
      /\ availableCash' = IF order.side = "buy" THEN availableCash - value
                          ELSE availableCash + value
      /\ result = "none"
  BY NotifiedOrder DEF NotifyCompleted, Notified, BookFill, history
<1>2. /\ Bar.open \in Positive /\ order.quantity \in Positive /\ value \in Positive
  BY NotifiedOrder, TimesPositive DEF NotifyCompleted, Notified
<1>3. /\ Len(fillEvents') = Len(fillEvents) + 1 /\ Len(fillEvents) \in Nat
      /\ Len(orderEvents') = Len(orderEvents) + 1 /\ Len(orderEvents) \in Nat
      /\ fillEvents'[Len(fillEvents')] = fill
  <2>1. fillEvents \in Seq(FillEvents) /\ orderEvents \in Seq(OrderEvents)
    BY DEF IInv, TypeOK
  <2> HIDE DEF fill, event
  <2> QED  BY <1>1, <2>1
<1>4. Len(fillEvents') <= Len(orderEvents')
  BY <1>1, <1>3 DEF SolventInv
<1>5. HeldByFills' = 0 => availableCash' > 0
  <2>1. availableCash \in Nat
    BY <1>1, NoDebt
  <2>2. CASE order.side = "buy"
    <3>1. Len(fillEvents') % 2 = 1
      <4>1. IInv'
        BY NotifyCompletedStep
      <4>2. Len(fillEvents') \in DOMAIN fillEvents' /\ fill.side = "buy"
        <5>1. DOMAIN fillEvents' = 1 .. Len(fillEvents')
          BY <4>1, ListsTyped DEF IInv, TypeOK
        <5> QED  BY <1>3, <2>2, <5>1
      <4> QED  BY <1>3, <4>1, <4>2 DEF IInv, RoundTrips
    <3>2. HeldByFills' = order.quantity
      BY <1>3, <3>1 DEF HeldByFills
    <3> QED  BY <1>2, <3>2 DEF Positive
  <2>3. CASE order.side # "buy"
    <3> HIDE DEF value
    <3> QED  BY <1>1, <1>2, <2>1, <2>3 DEF Positive
  <2> QED  BY <2>2, <2>3
<1> QED  BY <1>1, <1>4, <1>5 DEF SolventInv

LEMMA NextSolvent ==
    ASSUME IInv, SolventInv, [Next]_vars
    PROVE  SolventInv'
<1> SUFFICES ASSUME FineGrained, result' # "engine_error"
             PROVE  SolventInv'
  BY DEF SolventInv, FineGrained
<1>1. CASE NotifyCompleted
  BY <1>1, BookedSolvent
<1>2. CASE \/ LoadBar \/ ExecuteOrder \/ RefuseOrder \/ BrokerIdle
           \/ Stop \/ UNCHANGED vars
  <2>1. /\ UNCHANGED <<availableCash, fillEvents, orderEvents, marks>>
        /\ result' = result \/ result = "none"
    BY <1>2 DEF LoadBar, ExecuteOrder, RefuseOrder, BrokerIdle, Stop, IInv,
                StepInv, broker, adapter, events, history, vars
  <2>2. result # "engine_error"
    BY <2>1
  <2> QED  BY <2>1, <2>2 DEF SolventInv, HeldByFills
<1>3. CASE NotifyMargin
  <2> DEFINE event == OrderEvent(notice.ref, "rejected")
  <2>1. /\ UNCHANGED <<availableCash, fillEvents, marks, result>>
        /\ orderEvents' = Append(orderEvents, event)
    BY <1>3 DEF NotifyMargin, history
  <2>2. Len(orderEvents') = Len(orderEvents) + 1 /\ Len(orderEvents) \in Nat
        /\ Len(fillEvents) \in Nat
    <3>1. orderEvents \in Seq(OrderEvents) /\ fillEvents \in Seq(FillEvents)
      BY DEF IInv, TypeOK
    <3> HIDE DEF event
    <3> QED  BY <2>1, <3>1
  <2> QED  BY <2>1, <2>2 DEF SolventInv, HeldByFills
<1>4. CASE Hold \/ SubmitEntry \/ WarnZeroQuantity \/ SubmitExit
  <2> DEFINE mark == [cash |-> availableCash, position |-> position]
             Accounts == [cash : Int, position : Int]
  <2>1. /\ marks' = Append(marks, mark) /\ step = "next"
        /\ UNCHANGED <<availableCash, fillEvents, orderEvents, result>>
    BY <1>4 DEF Hold, SubmitEntry, WarnZeroQuantity, SubmitExit, EndOfBar
  <2>2. marks \in Seq(Accounts) /\ mark \in Accounts /\ position \in Int
        /\ position >= 0
    BY DEF IInv, TypeOK
  <2>3. /\ DOMAIN marks = 1 .. Len(marks) /\ DOMAIN marks' = 1 .. Len(marks) + 1
        /\ \A i \in 1 .. Len(marks) : marks'[i] = marks[i]
        /\ marks'[Len(marks) + 1] = mark /\ Len(marks) \in Nat
    <3> HIDE DEF mark, Accounts
    <3> QED  BY <2>1, <2>2
  <2>4. \A i \in DOMAIN marks' : i \in DOMAIN marks \/ i = Len(marks) + 1
    BY <2>3
  <2>5. availableCash \in Nat /\ position = HeldByFills
    BY <2>1, NoDebt, NextFinds
  <2>6. availableCash > 0 \/ position > 0
    BY <2>1, <2>2, <2>5 DEF SolventInv
  <2>7. HeldByFills' = HeldByFills
    BY <2>1 DEF HeldByFills
  <2> QED  BY <2>1, <2>2, <2>3, <2>4, <2>5, <2>6, <2>7 DEF SolventInv
<1>5. CASE RaiseInEngine
  BY <1>5 DEF RaiseInEngine
<1> QED  BY <1>1, <1>2, <1>3, <1>4, <1>5 DEF Next

--------------------------------------------------------------------------------
(* The profit *)

\* A purchase waits for its sale.
Holding == Len(fillEvents) % 2 = 1
LastFill == fillEvents[Len(fillEvents)]
Trades == FifoRealizedPnl(fillEvents)

(* Every sale settles the one open lot, and the cash is what the trades gained. *)
ProfitInv ==
    result # "engine_error" =>
        /\ Len(positionEvents) = Len(fillEvents)
        /\ Holding => positionEvents[Len(fillEvents)].averageCost = LastFill.price
        /\ FifoBook(fillEvents).lots =
              IF Holding THEN <<[quantity |-> LastFill.quantity,
                                 price |-> LastFill.price]>>
              ELSE <<>>
        /\ Len(fillEvents) = 2 * Len(Trades) + (IF Holding THEN 1 ELSE 0)
        /\ \A n \in 1 .. Len(Trades) :
              Trades[n] > 0 <=> fillEvents[2 * n].price > fillEvents[2 * n - 1].price
        /\ availableCash =
              manifest.capital + Total(Trades)
                  - (IF Holding THEN LastFill.quantity * LastFill.price ELSE 0)

LEMMA InitProfit ==
    ASSUME Init
    PROVE  ProfitInv
<1>1. /\ fillEvents = <<>> /\ Len(fillEvents) = 0 /\ Len(positionEvents) = 0
      /\ availableCash = manifest.capital
  BY DEF Init
<1>2. ~Holding
  BY <1>1 DEF Holding
<1>3. FifoBook(fillEvents) = NoBook /\ Trades = <<>> /\ Len(Trades) = 0
  BY <1>1, NoFillMatched DEF NoBook, Trades, FifoRealizedPnl
<1>4. Total(Trades) = 0
  BY <1>3, NothingTotal
<1>5. manifest.capital \in Int
  BY InputsTyped DEF Init, Positive
<1> QED  BY <1>1, <1>2, <1>3, <1>4, <1>5 DEF ProfitInv, NoBook

\* What the adapter books for a fill.
LEMMA BookedFill ==
    ASSUME IInv, NotifyCompleted
    PROVE  \E fill, event :
              /\ fill \in FillEvents /\ event \in PositionEvents
              /\ fillEvents' = Append(fillEvents, fill)
              /\ positionEvents' = Append(positionEvents, event)
              /\ fill.price \in Positive /\ fill.quantity \in Positive
              /\ IF fill.side = "buy"
                 THEN /\ ~Holding
                      /\ availableCash' = availableCash - fill.quantity * fill.price
                      /\ event.averageCost = fill.price
                 ELSE /\ Holding /\ LastFill.quantity = fill.quantity
                      /\ availableCash' = availableCash + fill.quantity * fill.price
<1> DEFINE side == intents[Latest].side
           quantity == intents[Latest].quantity
           fill == [ref |-> Latest, side |-> side, at |-> Today,
                    quantity |-> quantity, price |-> Bar.open]
           event == [at |-> Today,
                     quantity |-> IF side = "buy" THEN quantity ELSE 0,
                     averageCost |-> IF side = "buy" THEN Bar.open ELSE 0]
<1>1. /\ Latest \in Refs /\ Today \in Refs /\ notice.ref = Latest
      /\ quantity \in Positive /\ side \in Sides /\ Bar.open \in Positive
      /\ orderContext[Latest].quantity = quantity
      /\ orderContext[Latest].side = side
      /\ HeldByFills = IF side = "buy" THEN 0 ELSE quantity
  BY NotifiedOrder DEF NotifyCompleted, Notified
<1>2. /\ fillEvents' = Append(fillEvents, fill)
      /\ positionEvents' = Append(positionEvents, event)
      /\ availableCash' = IF side = "buy" THEN availableCash - Bar.open * quantity
                          ELSE availableCash + Bar.open * quantity
  BY <1>1 DEF NotifyCompleted, BookFill
<1>3. fill \in FillEvents /\ event \in PositionEvents
  BY <1>1 DEF FillEvents, PositionEvents, Positive
<1>4. Holding <=> side # "buy"
  <2>1. Holding => fillEvents[Len(fillEvents)].quantity \in Positive
    <3>1. Holding => Len(fillEvents) \in 1 .. Len(fillEvents)
      BY ListsTyped DEF IInv, Holding
    <3> QED  BY <3>1, ListsTyped DEF IInv
  <2> QED  BY <1>1, <2>1 DEF HeldByFills, Holding, Positive
<1>5. side # "buy" => LastFill.quantity = quantity
  BY <1>1, <1>4 DEF HeldByFills, Holding, LastFill
<1>6. Bar.open * quantity = quantity * Bar.open
  BY <1>1 DEF Positive
<1>7. /\ fill.side = side /\ fill.quantity = quantity /\ fill.price = Bar.open
      /\ side = "buy" => event.averageCost = fill.price
  OBVIOUS
<1> HIDE DEF fill, event, side, quantity
<1> QED  BY <1>1, <1>2, <1>3, <1>4, <1>5, <1>6, <1>7

\* A list with one more element.
LEMMA OneMore ==
    ASSUME NEW S, NEW list \in Seq(S), NEW x \in S
    PROVE  /\ Len(list) \in Nat /\ Len(Append(list, x)) = Len(list) + 1
           /\ Append(list, x)[Len(list) + 1] = x
           /\ \A n \in 1 .. Len(list) : Append(list, x)[n] = list[n]
           /\ Append(list, x) \in Seq(S)
OBVIOUS

LEMMA BookedProfit ==
    ASSUME IInv, ProfitInv, NotifyCompleted
    PROVE  ProfitInv'
<1> DEFINE F == Len(fillEvents)
           T == Len(Trades)
<1>1. /\ result # "engine_error" /\ UNCHANGED manifest
      /\ fillEvents \in Seq(FillEvents) /\ positionEvents \in Seq(PositionEvents)
      /\ availableCash \in Int /\ manifest.capital \in Int
  <2>1. result # "engine_error" /\ UNCHANGED manifest
    BY NotifiedOrder DEF NotifyCompleted, Notified
  <2>2. manifest.capital \in Int
    BY InputsTyped DEF IInv, TypeOK, Positive
  <2> QED  BY <2>1, <2>2 DEF IInv, TypeOK
<1>2. PICK fill, event :
        /\ fill \in FillEvents /\ event \in PositionEvents
        /\ fillEvents' = Append(fillEvents, fill)
        /\ positionEvents' = Append(positionEvents, event)
        /\ fill.price \in Positive /\ fill.quantity \in Positive
        /\ IF fill.side = "buy"
           THEN /\ ~Holding
                /\ availableCash' = availableCash - fill.quantity * fill.price
                /\ event.averageCost = fill.price
           ELSE /\ Holding /\ LastFill.quantity = fill.quantity
                /\ availableCash' = availableCash + fill.quantity * fill.price
  BY BookedFill
<1>3. /\ F \in Nat /\ Len(fillEvents') = F + 1 /\ fillEvents'[F + 1] = fill
      /\ LastFill' = fill
      /\ \A n \in 1 .. F : fillEvents'[n] = fillEvents[n]
      /\ Len(positionEvents') = F + 1 /\ positionEvents'[F + 1] = event
  <2>1. Len(positionEvents) = F
    BY <1>1 DEF ProfitInv
  <2> QED  BY <1>1, <1>2, <2>1, OneMore DEF LastFill
<1>4. /\ FifoBook(fillEvents) \in Books
      /\ FifoBook(fillEvents') = MatchFill(FifoBook(fillEvents), fill)
      /\ Trades = FifoBook(fillEvents).realized
      /\ Trades' = FifoBook(fillEvents').realized
      /\ Trades \in Seq(Int) /\ T \in Nat
  <2>1. /\ FifoBook(fillEvents) \in Books
        /\ FifoBook(fillEvents') = MatchFill(FifoBook(fillEvents), fill)
    BY <1>1, <1>2, BookAppended
  <2>2. /\ Trades = FifoBook(fillEvents).realized
        /\ Trades' = FifoBook(fillEvents').realized
    BY DEF Trades, FifoRealizedPnl
  <2>3. Trades \in Seq(Int)
    BY <2>1, <2>2 DEF Books
  <2> QED  BY <2>1, <2>2, <2>3
<1>5. /\ F = 2 * T + (IF Holding THEN 1 ELSE 0)
      /\ \A n \in 1 .. T :
            Trades[n] > 0 <=> fillEvents[2 * n].price > fillEvents[2 * n - 1].price
      /\ availableCash = manifest.capital + Total(Trades)
             - (IF Holding THEN LastFill.quantity * LastFill.price ELSE 0)
      /\ FifoBook(fillEvents).lots =
              IF Holding THEN <<[quantity |-> LastFill.quantity,
                                 price |-> LastFill.price]>>
              ELSE <<>>
  BY <1>1 DEF ProfitInv
<1>6. \A n \in 1 .. T : /\ fillEvents'[2 * n] = fillEvents[2 * n]
                       /\ fillEvents'[2 * n - 1] = fillEvents[2 * n - 1]
  <2> TAKE n \in 1 .. T
  <2>1. 2 * n \in 1 .. F /\ 2 * n - 1 \in 1 .. F
    <3>1. F = 2 * T + (IF Holding THEN 1 ELSE 0)
      BY <1>5
    <3>2. F \in Nat /\ T \in Nat
      BY <1>3, <1>4
    <3> HIDE DEF F, T
    <3> QED  BY <3>1, <3>2
  <2> QED  BY <1>3, <2>1
<1>7. Holding' <=> ~Holding
  <2>1. F % 2 \in {0, 1} /\ (F + 1) % 2 = 1 - (F % 2)
    BY <1>3
  <2> QED  BY <1>3, <2>1 DEF Holding
<1>8. CASE fill.side = "buy"
  <2>1. ~Holding /\ Holding' /\ F = 2 * T /\ FifoBook(fillEvents).lots = <<>>
    BY <1>2, <1>5, <1>7, <1>8
  <2> DEFINE lot == [quantity |-> fill.quantity, price |-> fill.price]
  <2>2. FifoBook(fillEvents') = [lots |-> Append(<<>>, lot),
                                 realized |-> FifoBook(fillEvents).realized]
    BY <1>4, <1>8, <2>1 DEF MatchFill
  <2>3. /\ FifoBook(fillEvents').lots = <<lot>>
        /\ Trades' = Trades /\ Len(Trades') = T
    <3>1. Append(<<>>, lot) = <<lot>>
      OBVIOUS
    <3> QED  BY <1>4, <2>2, <3>1
  <2>4. availableCash' = manifest.capital + Total(Trades')
                             - fill.quantity * fill.price
    <3>1. availableCash = manifest.capital + Total(Trades)
      <4>1. Total(Trades) \in Int
        BY <1>4, TotalAppended
      <4> QED  BY <1>1, <1>5, <2>1, <4>1
    <3>2. availableCash' = availableCash - fill.quantity * fill.price
      BY <1>2, <1>8
    <3>3. Total(Trades') = Total(Trades)
      BY <2>3
    <3> DEFINE value == fill.quantity * fill.price
               total == Total(Trades')
    <3>4. availableCash' = availableCash - value
      BY <3>2
    <3>5. availableCash = manifest.capital + total
      BY <3>1, <3>3
    <3>6. value \in Int /\ total \in Int
      <4>1. Total(Trades) \in Int
        BY <1>4, TotalAppended
      <4> QED  BY <1>2, <3>3, <4>1 DEF Positive
    <3> HIDE DEF lot, value, total
    <3>7. availableCash' = manifest.capital + (total - value)
      BY <1>1, <3>4, <3>5, <3>6
    <3> QED  BY <3>7 DEF value, total
  <2>5. \A n \in 1 .. T :
            Trades'[n] > 0
                <=> fillEvents'[2 * n].price > fillEvents'[2 * n - 1].price
    BY <1>5, <1>6, <2>3
  <2>6. event.averageCost = fill.price /\ F + 1 = 2 * T + 1
    BY <1>2, <1>8, <2>1
  <2> QED  BY <1>1, <1>3, <2>1, <2>3, <2>4, <2>5, <2>6 DEF ProfitInv
<1>9. CASE fill.side # "buy"
  <2> DEFINE cost == LastFill.price
             lot == [quantity |-> fill.quantity, price |-> cost]
             pnl == fill.quantity * (fill.price - cost)
  <2>1. /\ Holding /\ ~Holding' /\ F = 2 * T + 1
        /\ LastFill.quantity = fill.quantity
        /\ FifoBook(fillEvents).lots = <<lot>>
    BY <1>2, <1>5, <1>7, <1>9
  <2>2. cost \in Int /\ fill.price \in Int /\ fill.quantity \in Nat
        /\ fill.quantity > 0
    <3>1. F \in 1 .. F
      BY <1>3, <1>4, <2>1
    <3>2. cost \in Positive
      BY <3>1, ListsTyped DEF IInv, LastFill
    <3> HIDE DEF cost
    <3> QED  BY <1>2, <3>2 DEF Positive
  <2>3. /\ SaleOver(fill, <<lot>>).open = <<>>
        /\ SaleOver(fill, <<lot>>).pnl = pnl
    BY <2>2, SaleOfTheLot
  <2> HIDE DEF cost
  <2>4. /\ pnl \in Int /\ (pnl > 0 <=> fill.price > cost)
        /\ pnl = fill.quantity * fill.price - fill.quantity * cost
    <3>1. fill.price - cost > 0 <=> fill.price > cost
      BY <2>2
    <3>2. pnl \in Int /\ pnl = fill.quantity * fill.price - fill.quantity * cost
      BY <2>2
    <3>3. fill.price - cost > 0 => pnl > 0
      BY <2>2
    <3>4. fill.price - cost <= 0 => pnl <= 0
      BY <2>2
    <3> HIDE DEF pnl
    <3> QED  BY <2>2, <3>1, <3>2, <3>3, <3>4
  <2> HIDE DEF pnl, lot
  <2>5. FifoBook(fillEvents') = [lots |-> <<>>, realized |-> Append(Trades, pnl)]
    BY <1>4, <1>9, <2>1, <2>3 DEF MatchFill
  <2>6. /\ FifoBook(fillEvents').lots = <<>> /\ Trades' = Append(Trades, pnl)
        /\ Len(Trades') = T + 1 /\ Trades'[T + 1] = pnl
        /\ \A n \in 1 .. T : Trades'[n] = Trades[n]
    <3>1. FifoBook(fillEvents').lots = <<>> /\ Trades' = Append(Trades, pnl)
      BY <1>4, <2>5
    <3> QED  BY <1>4, <2>4, <3>1, OneMore
  <2>7. availableCash' = manifest.capital + Total(Trades')
    <3>1. Total(Trades) \in Int /\ Total(Trades') = Total(Trades) + pnl
      BY <1>4, <2>4, <2>6, TotalAppended
    <3>2. availableCash = manifest.capital + Total(Trades) - fill.quantity * cost
      BY <1>5, <2>1 DEF cost
    <3>3. availableCash' = availableCash + fill.quantity * fill.price
      BY <1>2, <1>9
    <3> DEFINE paid == fill.quantity * cost
               earned == fill.quantity * fill.price
    <3>4. paid \in Int /\ earned \in Int /\ pnl = earned - paid
      BY <2>2, <2>4
    <3>5. availableCash = manifest.capital + Total(Trades) - paid
          /\ availableCash' = availableCash + earned
      BY <3>2, <3>3
    <3> HIDE DEF paid, earned
    <3> QED  BY <1>1, <3>1, <3>4, <3>5
  <2>8. \A n \in 1 .. T + 1 :
            Trades'[n] > 0
                <=> fillEvents'[2 * n].price > fillEvents'[2 * n - 1].price
    <3> TAKE n \in 1 .. T + 1
    <3>1. CASE n \in 1 .. T
      BY <1>5, <1>6, <2>6, <3>1
    <3>2. CASE n = T + 1
      <4>1. 2 * n = F + 1 /\ 2 * n - 1 = F /\ F \in 1 .. F
        BY <1>3, <1>4, <2>1, <3>2
      <4>2. fillEvents'[2 * n].price = fill.price
            /\ fillEvents'[2 * n - 1].price = cost
        BY <1>3, <4>1 DEF cost, LastFill
      <4> QED  BY <2>4, <2>6, <3>2, <4>2
    <3> QED  BY <1>4, <3>1, <3>2
  <2>9. F + 1 = 2 * (T + 1)
    BY <1>4, <2>1
  <2>10. availableCash' = manifest.capital + Total(Trades') - 0
    <3>1. Total(Trades') \in Int
      BY <1>4, <2>4, <2>6, TotalAppended
    <3> QED  BY <1>1, <2>7, <3>1
  <2>11. F + 1 = 2 * (T + 1) + 0
    BY <2>9, <1>4
  <2> QED  BY <1>1, <1>3, <2>1, <2>6, <2>8, <2>10, <2>11 DEF ProfitInv
<1> QED  BY <1>8, <1>9

LEMMA NextProfit ==
    ASSUME IInv, ProfitInv, [Next]_vars
    PROVE  ProfitInv'
<1>1. CASE NotifyCompleted
  BY <1>1, BookedProfit
<1>2. CASE RaiseInEngine
  BY <1>2 DEF RaiseInEngine, ProfitInv
<1>3. CASE \/ LoadBar \/ ExecuteOrder \/ RefuseOrder \/ BrokerIdle \/ NotifyMargin
           \/ Hold \/ SubmitEntry \/ WarnZeroQuantity \/ SubmitExit
           \/ Stop \/ UNCHANGED vars
  <2>1. /\ UNCHANGED <<manifest, fillEvents, positionEvents, availableCash>>
        /\ result' = result \/ result = "none"
    BY <1>3 DEF LoadBar, ExecuteOrder, RefuseOrder, BrokerIdle, NotifyMargin,
                Hold, SubmitEntry, WarnZeroQuantity, SubmitExit, EndOfBar, Stop,
                IInv, StepInv, broker, adapter, events, history, vars
  <2>2. result' # "engine_error" => result # "engine_error"
    BY <2>1
  <2> QED  BY <2>1, <2>2 DEF ProfitInv, Holding, LastFill, Trades
<1> QED  BY <1>1, <1>2, <1>3 DEF Next

\* As many numbers as their doubles.
LEMMA DoublesCounted ==
    ASSUME NEW T \in Nat, NEW S \in SUBSET (1 .. T),
           NEW D, D = {2 * n : n \in S}
    PROVE  IsFiniteSet(S) /\ Cardinality(D) = Cardinality(S)
<1>1. IsFiniteSet(S)
  <2>1. IsFiniteSet(1 .. T)
    BY FS_Interval
  <2> QED  BY <2>1, FS_Subset
<1> DEFINE f == [n \in S |-> 2 * n]
<1>2. f \in Bijection(S, D)
  <2>1. f \in [S -> D]
    OBVIOUS
  <2>2. \A a, b \in S : f[a] = f[b] => a = b
    OBVIOUS
  <2>3. \A t \in D : \E s \in S : f[s] = t
    OBVIOUS
  <2> HIDE DEF f
  <2> QED  BY <2>1, <2>2, <2>3 DEF Bijection, Injection, Surjection, IsInjective
<1>3. ExistsBijection(S, D)
  BY <1>2 DEF ExistsBijection
<1> QED  BY <1>1, <1>3, FS_Bijection

\* The sales are the even fills.
LEMMA SalesCounted ==
    ASSUME IInv, ProfitInv, result = "completed"
    PROVE  LET sales == {n \in DOMAIN fillEvents : fillEvents[n].side = "sell"}
               won == {n \in sales : fillEvents[n].price > fillEvents[n - 1].price}
           IN  /\ Trades \in Seq(Int) /\ IsFiniteSet(sales)
               /\ Len(Trades) = Cardinality(sales)
               /\ Wins(Trades) = Cardinality(won)
<1> DEFINE F == Len(fillEvents)
           T == Len(Trades)
           sales == {n \in DOMAIN fillEvents : fillEvents[n].side = "sell"}
           won == {n \in sales : fillEvents[n].price > fillEvents[n - 1].price}
           wins == {n \in DOMAIN Trades : Trades[n] > 0}
<1>1. /\ Trades \in Seq(Int) /\ T \in Nat /\ DOMAIN Trades = 1 .. T
      /\ F \in Nat /\ DOMAIN fillEvents = 1 .. F
  <2>1. fillEvents \in Seq(FillEvents)
    BY DEF IInv, TypeOK
  <2>2. FifoBooks(fillEvents) \in [0 .. F -> Books] /\ F \in Nat
    BY <2>1, BookLoop
  <2>3. FifoBook(fillEvents) \in Books
    BY <2>2 DEF FifoBook
  <2>4. Trades \in Seq(Int)
    BY <2>3 DEF Books, Trades, FifoRealizedPnl
  <2> QED  BY <2>1, <2>4
<1>2. /\ F = 2 * T + (IF Holding THEN 1 ELSE 0)
      /\ \A n \in 1 .. T :
            Trades[n] > 0 <=> fillEvents[2 * n].price > fillEvents[2 * n - 1].price
  BY DEF ProfitInv
<1>3. \A n \in 1 .. F : fillEvents[n].side = IF n % 2 = 1 THEN "buy" ELSE "sell"
  BY <1>1 DEF IInv, RoundTrips
<1> HIDE DEF F, T
<1>4. sales = {2 * n : n \in 1 .. T}
  <2>1. \A n \in 1 .. T : 2 * n \in 1 .. F /\ (2 * n) % 2 = 0
    BY <1>1, <1>2
  <2>2. ASSUME NEW m \in 1 .. F, fillEvents[m].side = "sell"
        PROVE  \E n \in 1 .. T : m = 2 * n
    <3>1. m % 2 = 0
      BY <1>3, <2>2
    <3>2. PICK n \in Nat : m = 2 * n
      <4>1. m \div 2 \in Nat /\ m = 2 * (m \div 2) + (m % 2)
        BY <1>1
      <4> QED  BY <3>1, <4>1
    <3>3. F = 2 * T \/ F = 2 * T + 1
      BY <1>1, <1>2
    <3>4. n \in 1 .. T
      BY <1>1, <3>2, <3>3
    <3> QED  BY <3>2, <3>4
  <2>3. \A n \in 1 .. T : 2 * n \in sales
    BY <1>1, <1>3, <2>1
  <2>4. \A m \in sales : \E n \in 1 .. T : m = 2 * n
    BY <1>1, <2>2
  <2> HIDE DEF sales
  <2> QED  BY <2>3, <2>4
<1>5. won = {2 * n : n \in wins}
  BY <1>1, <1>2, <1>4
<1>6. wins \in SUBSET (1 .. T) /\ 1 .. T \in SUBSET (1 .. T)
  BY <1>1
<1>7. Cardinality(1 .. T) = T /\ IsFiniteSet(1 .. T)
  BY <1>1, FS_Interval
<1> HIDE DEF sales, won, wins
<1>8. Cardinality(sales) = T /\ Cardinality(won) = Cardinality(wins)
  <2>1. Cardinality(sales) = Cardinality(1 .. T)
    BY <1>1, <1>4, <1>6, DoublesCounted
  <2>2. Cardinality(won) = Cardinality(wins)
    BY <1>1, <1>5, <1>6, DoublesCounted
  <2> QED  BY <1>7, <2>1, <2>2
<1>9. IsFiniteSet(sales)
  <2>1. IsFiniteSet(1 .. F) /\ sales \in SUBSET (1 .. F)
    BY <1>1, FS_Interval DEF sales
  <2> QED  BY <2>1, FS_Subset
<1>10. Wins(Trades) = Cardinality(wins)
  BY DEF Wins, wins
<1> QED  BY <1>1, <1>8, <1>9, <1>10 DEF sales, won, T

--------------------------------------------------------------------------------
(* The artifact *)

LEMMA SignOfHoldings ==
    ASSUME NEW q \in Int, NEW price \in Positive
    PROVE  q * price \in Int /\ (q * price > 0 <=> q > 0)
<1>1. price \in Nat /\ price > 0
  BY DEF Positive
<1>2. q > 0 => q * price > 0
  BY <1>1
<1>3. q <= 0 => q * price <= 0
  BY <1>1, TimesMonotone
<1> QED  BY <1>1, <1>2, <1>3

\* The snapshots of a completed run are the broker's accounts at the closes.
LEMMA SnapshotsAtCloses ==
    ASSUME IInv, MarksInv, step = "done", result = "completed",
           NEW snapshots, snapshots = PortfolioSnapshots(bars, cashEvents, positionEvents,
                                                         manifest.capital)
    PROVE  /\ Today \in Nat /\ Today >= 1 /\ Len(marks) = Today
           /\ DOMAIN marks = 1 .. Today
           /\ DOMAIN snapshots = 1 .. Today /\ Len(snapshots) = Today
           /\ \A i \in 1 .. Today :
                 /\ snapshots[i].cash = marks[i].cash
                 /\ snapshots[i].holdings = marks[i].position * bars[i].close
                 /\ snapshots[i].equity = marks[i].cash + marks[i].position * bars[i].close
                 /\ marks[i].cash \in Int /\ marks[i].position \in Int
                 /\ bars[i].close \in Positive
<1>1. /\ Today \in Nat /\ Today >= 1 /\ Len(marks) = Today
      /\ DOMAIN marks = 1 .. Today
      /\ DOMAIN snapshots = 1 .. Today /\ Len(snapshots) = Today
  <2>1. /\ Today >= 1 /\ Len(marks) = Today
    BY DEF MarksInv, Closed
  <2>2. Today \in Nat /\ DOMAIN marks = 1 .. Len(marks)
    BY EventListsTyped DEF IInv, TypeOK, Today
  <2>3. snapshots = [i \in 1 .. Today |-> snapshots[i]]
    BY DEF PortfolioSnapshots, Today
  <2>4. DOMAIN snapshots = 1 .. Today /\ Len(snapshots) = Today
    BY <2>2, <2>3
  <2> QED  BY <2>1, <2>2, <2>4
<1>2. ASSUME NEW i \in 1 .. Today
      PROVE  /\ snapshots[i].cash = marks[i].cash
             /\ snapshots[i].holdings = marks[i].position * bars[i].close
             /\ snapshots[i].equity = marks[i].cash + marks[i].position * bars[i].close
             /\ marks[i].cash \in Int /\ marks[i].position \in Int
             /\ bars[i].close \in Positive
  <2>1. PICK c \in 0 .. Len(cashEvents) :
          LastBy(cashEvents, i, c) /\ marks[i].cash = CashAfter(c)
    BY <1>1 DEF MarksInv
  <2>2. PICK p \in 0 .. Len(positionEvents) :
          LastBy(positionEvents, i, p) /\ marks[i].position = PositionAfter(p)
    BY <1>1 DEF MarksInv
  <2>3. TypeOK /\ i \in Nat
    BY <1>1 DEF IInv
  <2>4. AppliedBy(cashEvents, i) = c
    BY <2>1, <2>3, EventListsTyped, AppliedByLast
  <2>5. AppliedBy(positionEvents, i) = p
    BY <2>2, <2>3, EventListsTyped, AppliedByLast
  <2>6. snapshots[i] = [cash |-> CashAfter(c), holdings |-> PositionAfter(p) * bars[i].close,
                        equity |-> CashAfter(c) + PositionAfter(p) * bars[i].close]
    BY <2>4, <2>5 DEF PortfolioSnapshots, CashAfter, PositionAfter, Today
  <2>7. marks[i] \in [cash : Int, position : Int]
    <3> DEFINE Accounts == [cash : Int, position : Int]
    <3>1. marks \in Seq(Accounts)
      BY <2>3 DEF TypeOK
    <3>2. marks[i] \in Accounts
      <4> HIDE DEF Accounts
      <4> QED  BY <1>1, <3>1
    <3> QED  BY <3>2
  <2>8. bars[i].close \in Positive
    BY <2>3, InputsTyped DEF TypeOK
  <2> QED  BY <2>1, <2>2, <2>6, <2>7, <2>8
<1> QED  BY <1>1, <1>2

LEMMA BuiltArtifact ==
    ASSUME IInv, MarksInv, BuildArtifact
    PROVE  SnapshotsReplayTheRun'
<1> SUFFICES ASSUME HasMetrics'
             PROVE  SnapshotsReplayTheRun'
  BY DEF SnapshotsReplayTheRun
<1> DEFINE snapshots == PortfolioSnapshots(bars, cashEvents, positionEvents,
                                           manifest.capital)
<1>1. step = "done" /\ UNCHANGED vars
  BY DEF BuildArtifact
<1>2. /\ result = "completed" /\ artifact'.snapshots = snapshots
      /\ TheMetrics' = Metrics(manifest.capital, snapshots, fillEvents)
  BY DEF BuildArtifact, HasMetrics, TheMetrics
<1>3. UNCHANGED <<marks, bars>>
  BY <1>1 DEF vars, history
<1>4. /\ Today \in Nat /\ Today >= 1 /\ Len(marks) = Today
      /\ DOMAIN marks = 1 .. Today
      /\ DOMAIN snapshots = 1 .. Today /\ Len(snapshots) = Today
  BY <1>1, <1>2, SnapshotsAtCloses
<1>5. \A i \in 1 .. Today :
         /\ snapshots[i].cash = marks[i].cash
         /\ snapshots[i].holdings = marks[i].position * bars[i].close
         /\ marks[i].position \in Int /\ bars[i].close \in Positive
  BY <1>1, <1>2, SnapshotsAtCloses
<1> HIDE DEF snapshots
<1>6. {i \in DOMAIN snapshots : snapshots[i].holdings > 0}
        = {i \in DOMAIN marks : marks[i].position > 0}
  BY <1>4, <1>5, SignOfHoldings
<1>7. TheMetrics'.exposureTimeRatio
        = Ratio(Cardinality({i \in DOMAIN snapshots : snapshots[i].holdings > 0}),
                Len(snapshots))
  BY <1>2 DEF Metrics
<1>8. TheMetrics'.exposureTimeRatio
        = [num |-> Cardinality({i \in DOMAIN marks : marks[i].position > 0}),
           den |-> Len(bars)]
  <2> DEFINE exposed == {i \in DOMAIN snapshots : snapshots[i].holdings > 0}
             held == {i \in DOMAIN marks : marks[i].position > 0}
  <2>1. exposed = held /\ Len(snapshots) = Len(bars) /\ Len(snapshots) # 0
    BY <1>4, <1>6 DEF Today
  <2>2. TheMetrics'.exposureTimeRatio = Ratio(Cardinality(exposed), Len(snapshots))
    BY <1>7
  <2>3. TheMetrics'.exposureTimeRatio = [num |-> Cardinality(held), den |-> Len(bars)]
    <3> HIDE DEF exposed, held
    <3> QED  BY <2>1, <2>2 DEF Ratio
  <2> QED  BY <2>3
<1> QED  BY <1>2, <1>3, <1>4, <1>5, <1>8 DEF SnapshotsReplayTheRun

\* Every snapshot is worth something, unless the roundings are coarse.
WorthSomething ==
    FineGrained /\ HasMetrics =>
        \A i \in DOMAIN artifact.snapshots : artifact.snapshots[i].equity > 0

LEMMA BuiltWorth ==
    ASSUME IInv, MarksInv, SolventInv, BuildArtifact
    PROVE  WorthSomething'
<1> SUFFICES ASSUME FineGrained, HasMetrics'
             PROVE  WorthSomething'
  BY DEF WorthSomething, FineGrained
<1> DEFINE snapshots == PortfolioSnapshots(bars, cashEvents, positionEvents,
                                           manifest.capital)
<1>1. /\ step = "done" /\ result = "completed"
      /\ artifact'.snapshots = snapshots
  BY DEF BuildArtifact, HasMetrics
<1>2. DOMAIN marks = 1 .. Today /\ DOMAIN snapshots = 1 .. Today
  BY <1>1, SnapshotsAtCloses
<1>3. ASSUME NEW i \in 1 .. Today
      PROVE  snapshots[i].equity > 0
  <2>1. /\ snapshots[i].equity = marks[i].cash + marks[i].position * bars[i].close
        /\ marks[i].cash \in Int /\ marks[i].position \in Int
        /\ bars[i].close \in Positive
    BY <1>1, SnapshotsAtCloses
  <2>2. /\ marks[i].cash >= 0 /\ marks[i].position >= 0
        /\ marks[i].cash > 0 \/ marks[i].position > 0
    BY <1>1, <1>2 DEF SolventInv
  <2> DEFINE worth == marks[i].position * bars[i].close
  <2>3. worth \in Int /\ worth >= 0 /\ (marks[i].position > 0 => worth > 0)
    BY <2>1, <2>2 DEF Positive
  <2> HIDE DEF worth
  <2>4. marks[i].cash + worth > 0
    BY <2>1, <2>2, <2>3
  <2> QED  BY <2>1, <2>4 DEF worth
<1> HIDE DEF snapshots
<1> QED  BY <1>1, <1>2, <1>3 DEF WorthSomething

\* The drawdown is taken of the snapshots.
LEMMA BuiltDrawdown ==
    ASSUME IInv, MarksInv, BuildArtifact
    PROVE  DrawdownIsTheWorstLoss'
<1> SUFFICES ASSUME HasMetrics',
                    \A i \in DOMAIN artifact'.snapshots :
                        artifact'.snapshots[i].equity > 0
             PROVE  DrawdownIsTheWorstLoss'
  BY DEF DrawdownIsTheWorstLoss
<1> DEFINE snapshots == PortfolioSnapshots(bars, cashEvents, positionEvents,
                                           manifest.capital)
<1>1. step = "done" /\ UNCHANGED vars
  BY DEF BuildArtifact
<1>2. /\ result = "completed" /\ artifact'.snapshots = snapshots
      /\ TheMetrics' = Metrics(manifest.capital, snapshots, fillEvents)
  BY DEF BuildArtifact, HasMetrics, TheMetrics
<1>3. /\ Today \in Nat /\ Today >= 1 /\ DOMAIN marks = 1 .. Today
      /\ DOMAIN snapshots = 1 .. Today /\ Len(snapshots) = Today
  BY <1>1, <1>2, SnapshotsAtCloses
<1>4. ASSUME NEW i \in 1 .. Today
      PROVE  snapshots[i].equity \in Positive
  <2>1. /\ snapshots[i].equity = marks[i].cash + marks[i].position * bars[i].close
        /\ marks[i].cash \in Int /\ marks[i].position \in Int
        /\ bars[i].close \in Positive
    BY <1>1, <1>2, SnapshotsAtCloses
  <2>2. snapshots[i].equity \in Int
    BY <2>1 DEF Positive
  <2>3. snapshots[i].equity > 0
    BY <1>2, <1>3
  <2> HIDE DEF snapshots
  <2> QED  BY <2>2, <2>3 DEF Positive
<1> HIDE DEF snapshots
<1> DEFINE worst == MaxDrawdown(snapshots)
           equity(i) == snapshots[i].equity
<1>5. /\ worst.num \in Positive /\ worst.den \in Positive
      /\ \A i, j \in 1 .. Today : i <= j =>
            worst.num * equity(i) <= equity(j) * worst.den
      /\ \E i, j \in 1 .. Today :
            i <= j /\ equity(j) * worst.den = worst.num * equity(i)
  <2>1. Len(snapshots) \in Positive
    BY <1>3 DEF Positive
  <2>2. \A i \in 1 .. Len(snapshots) : snapshots[i].equity \in Positive
    BY <1>3, <1>4
  <2>3. /\ worst \in [num : Positive, den : Positive]
        /\ \A i, j \in 1 .. Len(snapshots) : i <= j =>
              worst.num * snapshots[i].equity <= snapshots[j].equity * worst.den
        /\ \E i, j \in 1 .. Len(snapshots) :
              /\ i <= j
              /\ snapshots[j].equity * worst.den = worst.num * snapshots[i].equity
    BY <2>1, <2>2, WorstFall
  <2> HIDE DEF worst
  <2> QED  BY <1>3, <2>3
<1>6. TheMetrics'.maxDrawdown = worst
  BY <1>2 DEF Metrics
<1> HIDE DEF worst
<1>7. \A i, j \in 1 .. Today : i <= j =>
          ~LessThan([num |-> equity(j), den |-> equity(i)], worst)
  <2> TAKE i, j \in 1 .. Today
  <2>1. worst.num * equity(i) \in Int /\ equity(j) * worst.den \in Int
    BY <1>4, <1>5 DEF Positive
  <2> QED  BY <1>5, <2>1 DEF LessThan
<1> QED  BY <1>2, <1>3, <1>5, <1>6, <1>7 DEF DrawdownIsTheWorstLoss

\* After the last close nothing happens any more.
LEMMA LastMark ==
    ASSUME IInv, MarksInv, step = "done", result = "completed"
    PROVE  /\ Today \in Nat /\ Today >= 1
           /\ marks[Today].cash = availableCash
           /\ marks[Today].position = Reported
<1>1. /\ Today \in Nat /\ Today >= 1 /\ Today \in DOMAIN marks
  <2>1. Today \in Nat
    BY DEF IInv, TypeOK, Today
  <2>2. Len(marks) = Today /\ Today >= 1
    BY DEF MarksInv, Closed
  <2> QED  BY <2>1, <2>2, EventListsTyped DEF IInv
<1> DEFINE C == Len(cashEvents)
           P == Len(positionEvents)
<1>2. /\ C \in Nat /\ P \in Nat
      /\ \A k \in 1 .. C : cashEvents[k].at \in Int /\ cashEvents[k].at <= Today
      /\ \A k \in 1 .. P : /\ positionEvents[k].at \in Int
                          /\ positionEvents[k].at <= Today
  BY EventListsTyped DEF IInv, MarksInv
<1>3. PICK c \in 0 .. C : LastBy(cashEvents, Today, c)
                          /\ marks[Today].cash = CashAfter(c)
  BY <1>1 DEF MarksInv
<1>4. PICK p \in 0 .. P : LastBy(positionEvents, Today, p)
                          /\ marks[Today].position = PositionAfter(p)
  BY <1>1 DEF MarksInv
<1>5. c = C
  <2> SUFFICES ASSUME c < C PROVE FALSE
    BY <1>2, <1>3
  <2>1. c + 1 \in 1 .. C /\ c + 1 \in c + 1 .. C
    BY <1>2, <1>3
  <2>2. cashEvents[c + 1].at > Today
    BY <1>3, <2>1 DEF LastBy
  <2> QED  BY <1>1, <1>2, <2>1, <2>2
<1>6. p = P
  <2> SUFFICES ASSUME p < P PROVE FALSE
    BY <1>2, <1>4
  <2>1. p + 1 \in 1 .. P /\ p + 1 \in p + 1 .. P
    BY <1>2, <1>4
  <2>2. positionEvents[p + 1].at > Today
    BY <1>4, <2>1 DEF LastBy
  <2> QED  BY <1>1, <1>2, <2>1, <2>2
<1>7. availableCash = CashAfter(C)
  BY DEF MarksInv
<1>8. PositionAfter(P) = Reported
  <2>1. (P = 0) <=> (positionEvents = <<>>)
    BY EventListsTyped DEF IInv
  <2> QED  BY <2>1 DEF PositionAfter, Reported
<1> QED  BY <1>1, <1>3, <1>4, <1>5, <1>6, <1>7, <1>8

LEMMA BuiltProfit ==
    ASSUME IInv, MarksInv, ProfitInv, BuildArtifact
    PROVE  ProfitIsExplained'
<1> SUFFICES ASSUME HasMetrics'
             PROVE  ProfitIsExplained'
  BY DEF ProfitIsExplained
<1> DEFINE snapshots == PortfolioSnapshots(bars, cashEvents, positionEvents,
                                           manifest.capital)
           last == positionEvents[Len(positionEvents)]
           held == IF positionEvents = <<>> THEN 0
                   ELSE last.quantity * (Bar.close - last.averageCost)
           sales == {n \in DOMAIN fillEvents : fillEvents[n].side = "sell"}
           won == {n \in sales : fillEvents[n].price > fillEvents[n - 1].price}
<1>1. step = "done" /\ UNCHANGED vars
  BY DEF BuildArtifact
<1>2. /\ result = "completed"
      /\ TheMetrics' = Metrics(manifest.capital, snapshots, fillEvents)
  BY DEF BuildArtifact, HasMetrics, TheMetrics
<1>3. UNCHANGED <<bars, positionEvents, fillEvents>>
  BY <1>1 DEF vars, adapter, events
<1>4. /\ Trades \in Seq(Int) /\ Len(Trades) \in Nat
      /\ IsFiniteSet(sales) /\ Cardinality(sales) \in Nat
      /\ Len(Trades) = Cardinality(sales)
      /\ Wins(Trades) = Cardinality(won)
  <2>1. /\ Trades \in Seq(Int) /\ IsFiniteSet(sales)
        /\ Len(Trades) = Cardinality(sales)
        /\ Wins(Trades) = Cardinality(won)
    BY <1>2, SalesCounted
  <2> HIDE DEF sales, won
  <2> QED  BY <2>1, FS_CardinalityType
<1>5. (sales = {}) <=> (Cardinality(sales) = 0)
  <2> HIDE DEF sales
  <2> QED  BY <1>4, FS_EmptySet
<1>6. snapshots[Today].equity = availableCash + Reported * Bar.close
      /\ Len(snapshots) = Today
  <2>1. /\ Today \in 1 .. Today /\ marks[Today].cash = availableCash
        /\ marks[Today].position = Reported
    BY <1>1, <1>2, LastMark
  <2>2. /\ Len(snapshots) = Today
        /\ snapshots[Today].equity
              = marks[Today].cash + marks[Today].position * bars[Today].close
    BY <1>1, <1>2, <2>1, SnapshotsAtCloses
  <2> QED  BY <2>1, <2>2 DEF Bar
<1>7. (availableCash + Reported * Bar.close) - manifest.capital
        = Total(Trades) + held
  <2>1. /\ manifest.capital \in Int /\ Bar.close \in Int /\ Total(Trades) \in Int
        /\ Today \in 1 .. Today
    <3>1. Today \in 1 .. Today
      BY <1>1, <1>2, LastMark
    <3>2. manifest.capital \in Positive /\ Bar.close \in Positive
      BY <3>1, InputsTyped DEF IInv, TypeOK, Bar
    <3>3. Total(Trades) \in Int
      BY <1>4, TotalAppended
    <3> QED  BY <3>1, <3>2, <3>3 DEF Positive
  <2>2. /\ Len(positionEvents) = Len(fillEvents)
        /\ Holding => positionEvents[Len(fillEvents)].averageCost = LastFill.price
        /\ availableCash = manifest.capital + Total(Trades)
               - (IF Holding THEN LastFill.quantity * LastFill.price ELSE 0)
        /\ Reported = HeldByFills
    BY <1>2 DEF IInv, BooksInv, ProfitInv
  <2>3. /\ Len(fillEvents) \in Nat
        /\ positionEvents = <<>> <=> Len(fillEvents) = 0
        /\ Len(fillEvents) # 0 => last.averageCost \in Int /\ last.quantity = Reported
    <3>1. positionEvents \in Seq(PositionEvents)
      BY DEF IInv, TypeOK
    <3>2. /\ Len(positionEvents) \in Nat
          /\ positionEvents = <<>> <=> Len(positionEvents) = 0
          /\ Len(positionEvents) # 0 => last \in PositionEvents
      BY <3>1
    <3>3. last \in PositionEvents => last.averageCost \in Int
      BY DEF PositionEvents
    <3> HIDE DEF last
    <3> QED  BY <2>2, <3>2, <3>3 DEF Reported, last
  <2>4. CASE Holding
    <3> DEFINE q == LastFill.quantity
               p == LastFill.price
               c == Bar.close
    <3>1. Len(fillEvents) # 0 /\ Reported = q /\ last.averageCost = p
          /\ last.quantity = q
      BY <2>2, <2>3, <2>4 DEF Holding, HeldByFills, LastFill
    <3>2. q \in Int /\ p \in Int /\ c \in Int
      <4>1. q \in Positive /\ p \in Positive
        <5>1. Len(fillEvents) \in 1 .. Len(fillEvents)
          BY <2>3, <3>1
        <5> QED  BY <5>1, ListsTyped DEF IInv, LastFill
      <4> QED  BY <2>1, <4>1 DEF Positive
    <3>3. held = q * (c - p)
      BY <2>3, <3>1
    <3>4. availableCash = manifest.capital + Total(Trades) - q * p
      BY <2>2, <2>4
    <3>5. Reported * Bar.close = q * c
      BY <3>1
    <3> HIDE DEF q, p, c, held
    <3>6. q * (c - p) = q * c - q * p /\ q * c \in Int /\ q * p \in Int
      BY <3>2
    <3> DEFINE worth == q * c
               paid == q * p
    <3>7. /\ held = worth - paid /\ worth \in Int /\ paid \in Int
          /\ availableCash = manifest.capital + Total(Trades) - paid
          /\ Reported * Bar.close = worth
      BY <3>3, <3>4, <3>5, <3>6
    <3> HIDE DEF worth, paid
    <3> QED  BY <2>1, <3>7
  <2>5. CASE ~Holding
    <3>1. Reported = 0
      BY <2>2, <2>5 DEF Holding, HeldByFills
    <3>2. held = 0
      BY <2>1, <2>3, <3>1
    <3>3. Reported * Bar.close = 0
      BY <2>1, <3>1
    <3>4. availableCash = manifest.capital + Total(Trades)
      BY <2>1, <2>2, <2>5
    <3> HIDE DEF held
    <3> QED  BY <2>1, <3>2, <3>3, <3>4
  <2> QED  BY <2>4, <2>5
<1> HIDE DEF snapshots, held, sales, won
<1>8. /\ TheMetrics'.finalEquity = snapshots[Today].equity
      /\ TheMetrics'.initialEquity = manifest.capital
      /\ TheMetrics'.tradeCount = Len(Trades)
      /\ TheMetrics'.winRate = Ratio(Wins(Trades), Len(Trades))
      /\ TheMetrics'.realizedPnl = Total(Trades)
  BY <1>2, <1>6 DEF Metrics, Trades
<1>9. TheMetrics'.finalEquity - TheMetrics'.initialEquity
        = TheMetrics'.realizedPnl + held
  BY <1>6, <1>7, <1>8
<1>10. TheMetrics'.winRate = IF sales = {} THEN NotAvailable
                             ELSE [num |-> Cardinality(won),
                                   den |-> Cardinality(sales)]
  BY <1>4, <1>5, <1>8 DEF Ratio
<1>11. TheMetrics'.tradeCount = Cardinality(sales)
  BY <1>4, <1>8
<1> QED  BY <1>3, <1>9, <1>10, <1>11
         DEF ProfitIsExplained, held, sales, won, Bar, Today

(* The parts that hold of an execution, and what is built from them once. *)
ArtifactIInv ==
    /\ IInv
    /\ MarksInv
    /\ SolventInv
    /\ ProfitInv
    /\ artifact # NoArtifact => step = "done"
    /\ SnapshotsReplayTheRun
    /\ ProfitIsExplained
    /\ WorthSomething
    /\ DrawdownIsTheWorstLoss

LEMMA ArtifactStep ==
    ASSUME ArtifactIInv, [ArtifactNext]_artifactVars
    PROVE  ArtifactIInv'
<1> USE DEF ArtifactIInv
<1>1. [Next]_vars
  BY DEF ArtifactNext, artifactVars, BuildArtifact
<1>2. IInv' /\ MarksInv' /\ SolventInv' /\ ProfitInv'
  BY <1>1, NextIInv, NextMarks, NextSolvent, NextProfit
<1>3. CASE BuildArtifact
  <2>1. step = "done" /\ step' = step
    BY <1>3 DEF BuildArtifact, vars
  <2>2. /\ SnapshotsReplayTheRun' /\ ProfitIsExplained' /\ WorthSomething'
        /\ DrawdownIsTheWorstLoss'
    BY <1>3, BuiltArtifact, BuiltProfit, BuiltWorth, BuiltDrawdown
  <2> QED  BY <1>2, <2>1, <2>2
<1>4. CASE UNCHANGED artifact /\ (Next \/ UNCHANGED vars)
  <2>1. CASE artifact = NoArtifact
    <3>1. ~HasMetrics'
      BY <1>4, <2>1 DEF NoArtifact, HasMetrics
    <3> QED  BY <1>2, <1>4, <2>1, <3>1
             DEF SnapshotsReplayTheRun, ProfitIsExplained, WorthSomething,
                 DrawdownIsTheWorstLoss
  <2>2. CASE artifact # NoArtifact
    <3>1. step = "done"
      BY <2>2
    <3>2. ~Next
      BY <3>1 DEF Next, LoadBar, ExecuteOrder, RefuseOrder, BrokerIdle,
                  NotifyCompleted, NotifyMargin, Notified, Hold, SubmitEntry,
                  WarnZeroQuantity, SubmitExit, EndOfBar, Stop, RaiseInEngine
    <3>3. UNCHANGED <<step, marks, bars, positionEvents, fillEvents, artifact>>
      BY <1>4, <3>2 DEF vars, adapter, events, history
    <3>4. SnapshotsReplayTheRun'
      BY <3>3 DEF SnapshotsReplayTheRun, HasMetrics, TheMetrics
    <3>5. ProfitIsExplained'
      BY <3>3 DEF ProfitIsExplained, HasMetrics, TheMetrics, Bar, Today
    <3>6. DrawdownIsTheWorstLoss'
      BY <3>3 DEF DrawdownIsTheWorstLoss, HasMetrics, TheMetrics
    <3>7. WorthSomething'
      BY <3>3 DEF WorthSomething, HasMetrics
    <3> QED  BY <1>2, <3>1, <3>3, <3>4, <3>5, <3>6, <3>7
  <2> QED  BY <2>1, <2>2
<1> QED  BY <1>3, <1>4 DEF ArtifactNext, artifactVars

--------------------------------------------------------------------------------
(* Theorems *)

\* The inductive invariant: where in the lists of events each close is, that the
\* account is solvent where the roundings are small, and what the fills so far have gained.
THEOREM ArtifactInvariance == ArtifactSpec => []ArtifactIInv
<1>1. ArtifactInit => ArtifactIInv
  <2> SUFFICES ASSUME ArtifactInit PROVE ArtifactIInv
    OBVIOUS
  <2>1. IInv /\ MarksInv /\ SolventInv /\ ProfitInv
    BY InitIInv, InitMarks, InitSolvent, InitProfit DEF ArtifactInit
  <2>2. artifact = NoArtifact /\ ~HasMetrics
    BY DEF ArtifactInit, HasMetrics, NoArtifact
  <2> QED  BY <2>1, <2>2 DEF ArtifactIInv, SnapshotsReplayTheRun, ProfitIsExplained,
                             WorthSomething, DrawdownIsTheWorstLoss
<1> QED  BY <1>1, ArtifactStep, PTL DEF ArtifactSpec

\* Cash, holdings and exposure of the artifact, rebuilt with a cursor over each
\* list of events, are the adapter's cash and the broker's position at every close.
THEOREM SnapshotsReplayed == ArtifactSpec => []SnapshotsReplayTheRun
<1>1. ArtifactIInv => SnapshotsReplayTheRun
  BY DEF ArtifactIInv
<1> QED  BY <1>1, ArtifactInvariance, PTL

\* The realized profits and the position that is left explain what was gained,
\* and the trades and the wins are those of the fills.
THEOREM ProfitExplained == ArtifactSpec => []ProfitIsExplained
<1>1. ArtifactIInv => ProfitIsExplained
  BY DEF ArtifactIInv
<1> QED  BY <1>1, ArtifactInvariance, PTL

\* No close is worth less of an earlier one than the drawdown says, and one is
\* worth just that much.
THEOREM DrawdownIsWorst == ArtifactSpec => []DrawdownIsTheWorstLoss
<1>1. ArtifactIInv => DrawdownIsTheWorstLoss
  BY DEF ArtifactIInv
<1> QED  BY <1>1, ArtifactInvariance, PTL

\* Where all roundings of a run stay below one unit, the adapter, which checks no
\* order itself, is never in debt, and every snapshot is worth something, which
\* is the condition of DrawdownIsTheWorstLoss.
Solvent ==
    FineGrained =>
        /\ result # "engine_error" => availableCash >= 0
        /\ HasMetrics =>
              \A i \in DOMAIN artifact.snapshots : artifact.snapshots[i].equity > 0

THEOREM NeverInDebt == ArtifactSpec => []Solvent
<1>1. ASSUME ArtifactIInv PROVE Solvent
  BY <1>1, NoDebt DEF ArtifactIInv, WorthSomething, Solvent
<1> QED  BY <1>1, ArtifactInvariance, PTL

\* Building the artifact leaves the engine alone.
LEMMA ArtifactObserves == ArtifactSpec => Spec
<1>1. ArtifactInit => Init
  BY DEF ArtifactInit
<1>2. [ArtifactNext]_artifactVars => [Next]_vars
  BY DEF ArtifactNext, artifactVars, BuildArtifact
<1> QED  BY <1>1, <1>2, PTL DEF ArtifactSpec, Spec

\* What holds of an execution of the engine holds when its artifact is built.
THEOREM EngineUnderArtifact ==
    ArtifactSpec => [](/\ BooksAgree /\ FillsAtNextOpen /\ RoundTripsOnly
                       /\ IntentsAreSettled /\ EntriesAreWithinBudget)
BY ArtifactObserves, BooksStayClose, FilledAtNextOpen, OnlyRoundTrips,
   IntentsSettled, EntriesWithinBudget, PTL
===============================================================================

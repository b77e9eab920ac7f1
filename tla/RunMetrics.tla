------------------------------ MODULE RunMetrics ------------------------------
(***************************************************************************)
(* The pure functions of domain/run_artifact.py: the portfolio snapshots   *)
(* and the metrics of a run, worked out from its bars and events alone.    *)
(*                                                                         *)
(* Times are positions in the sequence of bars; money is integral; a ratio *)
(* is a pair of integers, and the ones that the code shifts by one (return *)
(* and drawdown) are kept unshifted.                                       *)
(***************************************************************************)
EXTENDS Integers, SequencesExt

\* Mutant: an event shows only from the bar after it.
AppliedBefore(events, time) ==
    Max({n \in 0 .. Len(events) : \A k \in 1 .. n : events[k].at < time})

\* How many leading events have happened by a time: the position of the cursor
\* that moves on while the next event is not later.
AppliedBy(events, time) ==
    Max({n \in 0 .. Len(events) : \A k \in 1 .. n : events[k].at <= time})

\* build_portfolio_snapshots: cash and holdings at the close of each bar.
PortfolioSnapshots(bars, cashEvents, positionEvents, initialCash) ==
    [i \in 1 .. Len(bars) |->
        LET c == AppliedBy(cashEvents, i)
            p == AppliedBy(positionEvents, i)
            cash == IF c = 0 THEN initialCash ELSE cashEvents[c].after
            quantity == IF p = 0 THEN 0 ELSE positionEvents[p].quantity
        IN  [cash |-> cash, holdings |-> quantity * bars[i].close,
             equity |-> cash + quantity * bars[i].close]]

\* Mutant: a lot that a sale touches is closed as a whole.
MatchWholeLot(sale, lot) ==
    LET matched == Min({sale.remaining, lot.quantity}) IN
    [price |-> sale.price,
     remaining |-> sale.remaining - matched,
     pnl |-> sale.pnl + matched * (sale.price - lot.price),
     open |-> IF matched > 0 THEN sale.open ELSE Append(sale.open, lot)]

\* One open lot against a sale: the oldest lots come first.
MatchLot(sale, lot) ==
    LET matched == Min({sale.remaining, lot.quantity}) IN
    [price |-> sale.price,
     remaining |-> sale.remaining - matched,
     pnl |-> sale.pnl + matched * (sale.price - lot.price),
     open |-> IF matched = lot.quantity THEN sale.open
              ELSE Append(sale.open, [lot EXCEPT !.quantity = @ - matched])]

\* A sale after each number of lots.
SaleOver(fill, lots) ==
    LET sale[n \in 0 .. Len(lots)] ==
            IF n = 0 THEN [price |-> fill.price, remaining |-> fill.quantity,
                           pnl |-> 0, open |-> <<>>]
            ELSE MatchLot(sale[n - 1], lots[n])
    IN  sale[Len(lots)]

NoBook == [lots |-> <<>>, realized |-> <<>>]

MatchFill(book, fill) ==
    IF fill.side = "buy"
    THEN [lots |-> Append(book.lots, [quantity |-> fill.quantity,
                                      price |-> fill.price]),
          realized |-> book.realized]
    ELSE LET sale == SaleOver(fill, book.lots)
         IN  [lots |-> sale.open, realized |-> Append(book.realized, sale.pnl)]

\* The open lots and the profits after each number of fills.
FifoBooks(fills) ==
    LET book[n \in 0 .. Len(fills)] ==
            IF n = 0 THEN NoBook ELSE MatchFill(book[n - 1], fills[n])
    IN  book

FifoBook(fills) == FifoBooks(fills)[Len(fills)]

\* compute_fifo_realized_pnl: the profit of each sale (v1 has no costs).
FifoRealizedPnl(fills) == FifoBook(fills).realized

Total(numbers) ==
    LET sum[n \in 0 .. Len(numbers)] ==
            IF n = 0 THEN 0 ELSE sum[n - 1] + numbers[n]
    IN  sum[Len(numbers)]

LessThan(p, q) == p.num * q.den < q.num * p.den
Least(p, q) == IF LessThan(q, p) THEN q ELSE p

One == [num |-> 1, den |-> 1]

\* Mutant: the drawdown is measured against the first snapshot.
DrawdownFromStart(acc, snapshot) ==
    [top |-> acc.top,
     worst |-> Least(acc.worst, [num |-> snapshot.equity, den |-> acc.top])]

\* One snapshot in the loop of _max_drawdown_metric.
Drawdown(acc, snapshot) ==
    LET top == Max({acc.top, snapshot.equity}) IN
    [top |-> top,
     worst |-> IF top > 0
               THEN Least(acc.worst, [num |-> snapshot.equity, den |-> top])
               ELSE acc.worst]

MaxDrawdown(snapshots) ==
    LET seen[n \in 0 .. Len(snapshots)] ==
            IF n = 0 THEN [top |-> snapshots[1].equity, worst |-> One]
            ELSE Drawdown(seen[n - 1], snapshots[n])
    IN  seen[Len(snapshots)].worst

\* A metric that has no value.
NotAvailable == [num |-> 0, den |-> 0]

Ratio(num, den) == IF den = 0 THEN NotAvailable ELSE [num |-> num, den |-> den]

\* Mutant: every trade that did not lose counts as won.
WinsNotLosses(realized) == Cardinality({n \in DOMAIN realized : realized[n] >= 0})

\* The wins of _trade_metrics.
Wins(realized) == Cardinality({n \in DOMAIN realized : realized[n] > 0})

\* compute_metrics over snapshots that are all valid.  The annualized return is
\* the total return to a power whose divisor are the elapsed sessions; only these
\* are here.
Metrics(initialEquity, snapshots, fills) ==
    LET realized == FifoRealizedPnl(fills)
        finalEquity == snapshots[Len(snapshots)].equity
    IN  [initialEquity |-> initialEquity,
         finalEquity |-> finalEquity,
         totalReturn |-> Ratio(finalEquity, initialEquity),
         elapsedSessions |-> Len(snapshots) - 1,
         maxDrawdown |-> MaxDrawdown(snapshots),
         tradeCount |-> Len(realized),
         winRate |-> Ratio(Wins(realized), Len(realized)),
         realizedPnl |-> Total(realized),
         exposureTimeRatio |->
             Ratio(Cardinality({i \in DOMAIN snapshots :
                                    snapshots[i].holdings > 0}),
                   Len(snapshots))]
================================================================================

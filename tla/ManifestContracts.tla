--------------------------- MODULE ManifestContracts ---------------------------
(***************************************************************************)
(* What is accepted as a strategy specification, as a run manifest and as  *)
(* an optimization.  Each is checked by a service of its own, at its own   *)
(* time: an optimization is checked when it is created, the specifications *)
(* and the manifests of its candidates only when the optimizer derives     *)
(* them, from the amounts as the database has stored them.                 *)
(*                                                                         *)
(* A request is accepted or not; which of its faults is reported first is  *)
(* left out.  Days are numbers.  An amount is counted in tenths of the     *)
(* last decimal of the columns DECIMAL(18, 6), so that it may be finer     *)
(* than what they hold, and is finite: the checks of a run refuse others,  *)
(* and no such column can hold them.                                       *)
(***************************************************************************)
EXTENDS Integers, Sequences, FiniteSetsExt

Unit == 10000000

--------------------------------------------------------------------------------
(* Strategy specifications *)

BaseKinds == {"sma_crossover", "rsi_threshold", "macd_crossover",
              "bollinger_breakout"}

\* The __init__ and __post_init__ of the parameters of each kind.  A combination
\* holds the sequence of its conditions' parameters.
ValidBase(p) ==
    /\ p.priceField = "close"
    /\ CASE p.kind = "sma_crossover" -> 1 <= p.fast /\ p.fast < p.slow
         [] p.kind = "rsi_threshold" ->
               2 <= p.period /\ 0 < p.oversold
                   /\ p.oversold < p.overbought /\ p.overbought < 100
         [] p.kind = "macd_crossover" ->
               1 <= p.fast /\ p.fast < p.slow /\ 1 <= p.signal
         [] p.kind = "bollinger_breakout" ->
               2 <= p.period /\ p.deviations \in 1 .. 4

ValidParameters(p) ==
    IF p.kind \in BaseKinds THEN ValidBase(p)
    ELSE /\ Len(p.conditions) \in 2 .. 3
         /\ \A i \in DOMAIN p.conditions : ValidBase(p.conditions[i])
         /\ \A i, j \in DOMAIN p.conditions :
               p.conditions[i].kind = p.conditions[j].kind => i = j

\* The parameters of the indicators a strategy is built from.
Indicators(p) ==
    IF p.kind \in BaseKinds THEN {p}
    ELSE {p.conditions[i] : i \in DOMAIN p.conditions}

\* Mutant: the first change of the RSI is forgotten.
WarmUpShort(p) ==
    CASE p.kind = "sma_crossover" -> p.slow
      [] p.kind = "macd_crossover" -> p.slow + p.signal
      [] OTHER -> p.period

\* required_warmup_bars of one kind.
WarmUp(p) ==
    CASE p.kind = "sma_crossover" -> p.slow
      [] p.kind = "rsi_threshold" -> p.period + 1
      [] p.kind = "macd_crossover" -> p.slow + p.signal
      [] p.kind = "bollinger_breakout" -> p.period

RequiredWarmUp(p) == Max({WarmUp(c) : c \in Indicators(p)})

\* build_parameters, SignalPolicy and StrategySpecV1.
AcceptsStrategy(p, eligibleAfter) ==
    /\ ValidParameters(p)
    /\ 1 <= eligibleAfter
    /\ RequiredWarmUp(p) <= eligibleAfter

\* How many bars Backtrader's indicators need for their first value: n for an
\* average over n, n + 1 for an average over n changes, one less than both
\* together for an average of averages.
FirstValue(p) ==
    CASE p.kind = "sma_crossover" -> Max({p.fast, p.slow})
      [] p.kind = "rsi_threshold" -> p.period + 1
      [] p.kind = "macd_crossover" -> Max({p.fast, p.slow}) + p.signal - 1
      [] p.kind = "bollinger_breakout" -> p.period

\* Backtrader calls the strategy when every line has a value, and a crossing
\* compares two bars; the strategy itself waits for eligible_after_bars.
FirstDecision(p, eligibleAfter) ==
    Max({eligibleAfter} \cup {FirstValue(c) + 1 : c \in Indicators(p)})

--------------------------------------------------------------------------------
(* Run manifests.  A dataset is the days that have a bar; an accepted import
   declares its first and its last one as the coverage. *)

WithinCoverage(days, period) ==
    /\ days # {}
    /\ Min(days) <= period.from
    /\ period.to <= Max(days)

ValidAmounts(s) ==
    /\ s.capital > 0
    /\ s.fraction > 0 /\ s.fraction <= Unit
    /\ s.increment > 0
    /\ s.riskFree >= 0

ValidSettings(s) ==
    /\ ValidAmounts(s)
    /\ s.currency # "blank"
    /\ s.moneyScale >= 0
    /\ s.annualizationBasis >= 1

\* create_run_manifest for one registered instrument and an existing strategy
\* and dataset.
AcceptsRun(days, period, settings) ==
    /\ WithinCoverage(days, period)
    /\ period.from < period.to
    /\ ValidSettings(settings)

\* get_snapshot for an instrument whose mapping is never changed.
Snapshot(days, period) == days \cap period.from .. period.to

--------------------------------------------------------------------------------
(* Optimizations *)

Pairs(q) == q.fastWindows \X q.slowWindows

ValidPairs(q) == {c \in Pairs(q) : c[1] < c[2]}

ValidGrid(q) ==
    /\ q.fastWindows # {} /\ q.slowWindows # {}
    /\ \A w \in q.fastWindows \cup q.slowWindows : w >= 1

ValidPartitions(q) ==
    /\ q.train.from <= q.train.to
    /\ q.train.to < q.validation.from
    /\ q.validation.from <= q.validation.to
    /\ q.validation.to < q.holdout.from
    /\ q.holdout.from <= q.holdout.to

LargestSlowWindow(q) ==
    IF ValidPairs(q) = {} THEN Max(q.slowWindows)
    ELSE Max({c[2] : c \in ValidPairs(q)})

\* Mutant: the bar on which the last signal is filled is not counted.
MinimumBarsShort(q) == LargestSlowWindow(q) + 1

\* validate_partition_bar_coverage.
MinimumBars(q) == LargestSlowWindow(q) + 2

\* create_optimization on a registered instrument that is mapped for the three
\* periods.  Amounts need only be decimals.
AcceptsOptimization(q, days) ==
    /\ ValidGrid(q)
    /\ ValidPartitions(q)
    /\ Cardinality(Pairs(q)) <= q.maxCandidates
    /\ \A period \in {q.train, q.validation, q.holdout} :
          Cardinality(Snapshot(days, period)) >= MinimumBars(q)

\* A decimal column rounds what is finer than its scale, halves away from zero.
RoundedUp(amount) == ((amount + 5) \div 10) * 10
Stored(amount) == IF amount >= 0 THEN RoundedUp(amount) ELSE -RoundedUp(-amount)

StoredSettings(s) ==
    [s EXCEPT !.capital = Stored(@), !.fraction = Stored(@),
              !.increment = Stored(@), !.riskFree = Stored(@)]

\* The parameters _execute_candidate derives for a pair; its eligible_after_bars
\* is the slow window.
CandidateStrategy(c) ==
    [kind |-> "sma_crossover", priceField |-> "close", fast |-> c[1], slow |-> c[2]]

Period(q, leg) ==
    CASE leg = "train" -> q.train
      [] leg = "validation" -> q.validation
      [] leg = "holdout" -> q.holdout

\* The periods for which _run_period can create the runs of the optimization.
RunnableLegs(q, days) ==
    {leg \in {"train", "validation", "holdout"} :
        AcceptsRun(days, Period(q, leg), StoredSettings(q.settings))}
================================================================================

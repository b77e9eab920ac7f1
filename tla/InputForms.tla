------------------------------ MODULE InputForms ------------------------------
(***************************************************************************)
(* The forms of the frontend repeat rules of the server, in a language of  *)
(* their own: they refuse some inputs before they send anything, and they  *)
(* derive the warm-up of a strategy, which the user cannot type.           *)
(*                                                                         *)
(* A form holds the numbers of a request of ManifestContracts; what is no  *)
(* number at all is refused like 0, and names are not blank.  Which of its *)
(* errors a form shows is left out.                                        *)
(***************************************************************************)
EXTENDS ManifestContracts

\* Mutant: the smoothing of the signal line is forgotten.
FormWarmUpShort(p) ==
    CASE p.kind \in {"sma_crossover", "macd_crossover"} -> p.slow
      [] p.kind = "rsi_threshold" -> p.period + 1
      [] p.kind = "bollinger_breakout" -> p.period

\* requiredWarmupBars of STRATEGY_KINDS.
FormWarmUp(p) ==
    CASE p.kind = "sma_crossover" -> p.slow
      [] p.kind = "rsi_threshold" -> p.period + 1
      [] p.kind = "macd_crossover" -> p.slow + p.signal
      [] p.kind = "bollinger_breakout" -> p.period

FormEligible(p) == Max({FormWarmUp(c) : c \in Indicators(p)})

\* The fields of STRATEGY_KINDS.
Fields(p) ==
    CASE p.kind = "sma_crossover" -> {p.fast, p.slow}
      [] p.kind = "rsi_threshold" -> {p.period, p.oversold, p.overbought}
      [] p.kind = "macd_crossover" -> {p.fast, p.slow, p.signal}
      [] p.kind = "bollinger_breakout" -> {p.period, p.deviations}

CrossFieldError(p) ==
    \/ p.kind \in {"sma_crossover", "macd_crossover"} /\ p.fast >= p.slow
    \/ p.kind = "rsi_threshold" /\ p.oversold >= p.overbought

\* The buttons keep a combination at two or three conditions.
FormSendsStrategy(p) ==
    /\ \A c \in Indicators(p) :
          (\A number \in Fields(c) : number >= 1) /\ ~CrossFieldError(c)
    /\ p.kind \notin BaseKinds =>
          /\ Len(p.conditions) \in 2 .. 3
          /\ Cardinality({c.kind : c \in Indicators(p)}) = Len(p.conditions)

\* createStrategy adds the price field to the parameters it is given, which are
\* those of the conditions only for a single kind.
Sent(p) ==
    IF p.kind \in BaseKinds THEN [p EXCEPT !.priceField = "close"]
    ELSE [p EXCEPT !.conditions = [i \in DOMAIN p.conditions |->
             [p.conditions[i] EXCEPT !.priceField = "missing"]]]

FormSendsRun(period, settings) ==
    /\ period.from <= period.to
    /\ settings.moneyScale >= 0
    /\ settings.annualizationBasis >= 1

FormSendsOptimization(q) ==
    /\ q.fastWindows # {} /\ q.slowWindows # {}
    /\ \A w \in q.fastWindows \cup q.slowWindows : w >= 1
    /\ q.train.from <= q.train.to /\ q.train.to < q.validation.from
    /\ q.validation.from <= q.validation.to
    /\ q.validation.to < q.holdout.from /\ q.holdout.from <= q.holdout.to
================================================================================

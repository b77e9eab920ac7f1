--------------------------- MODULE MCReferenceChecks ---------------------------
(* Bounds of the requests, of the server and of the forms.  The days of a dataset
   are 1 to 14, its ends and one day in between may be missing.  Settings differ
   in one field from sound ones. *)
EXTENDS ReferenceChecks

Sma == [kind : {"sma_crossover"}, priceField : {"close", "missing"},
        fast : 0 .. 3, slow : 0 .. 4]
Rsi == [kind : {"rsi_threshold"}, priceField : {"close", "missing"},
        period : 1 .. 4, oversold : {0, 30},
        overbought : {30, 70, 100}]
Macd == [kind : {"macd_crossover"}, priceField : {"close", "missing"},
         fast : 0 .. 2, slow : 1 .. 3, signal : 0 .. 3]
Bollinger == [kind : {"bollinger_breakout"}, priceField : {"close", "missing"},
              period : 1 .. 4, deviations : {0, 2, 5}]

SomeSma == [kind |-> "sma_crossover", priceField |-> "close", fast |-> 1, slow |-> 4]
SomeBollinger == [kind |-> "bollinger_breakout", priceField |-> "close",
                  period |-> 4, deviations |-> 2]

Some == {SomeSma, [SomeSma EXCEPT !.priceField = "missing"],
         SomeBollinger, [SomeBollinger EXCEPT !.period = 1],
         [kind |-> "rsi_threshold", priceField |-> "close", period |-> 3,
          oversold |-> 30, overbought |-> 70],
         [kind |-> "macd_crossover", priceField |-> "close", fast |-> 1,
          slow |-> 2, signal |-> 3]}
Combo == [kind : {"multi_indicator_combo"},
          conditions : UNION {[1 .. n -> Some] : n \in 1 .. 4}]

MCStrategies == [parameters : Sma \cup Rsi \cup Macd \cup Bollinger \cup Combo,
                 eligibleAfter : 0 .. 7]

SoundSettings == [capital |-> 100, fraction |-> Unit, increment |-> 10,
                  riskFree |-> 0, currency |-> "IDR", moneyScale |-> 2,
                  annualizationBasis |-> 252]

Settings == {SoundSettings}
    \cup {[SoundSettings EXCEPT !.capital = amount] : amount \in {-10, 4, 5}}
    \cup {[SoundSettings EXCEPT !.fraction = part] : part \in {0, 3333333, Unit + 10}}
    \cup {[SoundSettings EXCEPT !.increment = amount] : amount \in {-10, 4}}
    \cup {[SoundSettings EXCEPT !.riskFree = -10],
          [SoundSettings EXCEPT !.currency = "blank"],
          [SoundSettings EXCEPT !.moneyScale = -1],
          [SoundSettings EXCEPT !.annualizationBasis = 0]}

Spans(from, to) == [from : from, to : to]

Requests == [train : Spans({1, 2}, {4, 5}), validation : Spans({5, 6}, {8, 9}),
             holdout : Spans({9, 10, 11}, {13, 14, 15}),
             fastWindows : {{1}, {1, 2}}, slowWindows : {{1}, {2}, {1, 3}},
             maxCandidates : {2, 4}, settings : {SoundSettings}]
    \cup [train : Spans({1}, {4, 5}), validation : Spans({5}, {8}),
          holdout : Spans({9}, {14, 15}),
          fastWindows : {{1}, {0, 1}}, slowWindows : {{2}},
          maxCandidates : {2}, settings : Settings]

Datasets == {(first .. last) \ {gap} : first \in {1, 2}, last \in {13, 14},
                                       gap \in {0} \cup 3 .. 12}

MCOptimizations == [request : Requests, days : Datasets]
================================================================================

---------------------------- MODULE EngineArtifact ----------------------------
(***************************************************************************)
(* The artifact of an execution: build_run_artifact takes the result of    *)
(* the engine, which holds no account but only events, and values the      *)
(* portfolio at every bar from them.  A completed run gets snapshots and   *)
(* metrics, a failed one neither.                                          *)
(***************************************************************************)
EXTENDS EngineAdapter, RunMetrics

VARIABLE artifact

artifactVars == <<vars, artifact>>

NoArtifact == [built |-> FALSE]

\* build_run_artifact.
BuildArtifact ==
    LET snapshots == PortfolioSnapshots(bars, cashEvents, positionEvents,
                                        manifest.capital)
    IN  /\ step = "done" /\ artifact = NoArtifact
        /\ artifact' =
              IF result = "completed"
              THEN [built |-> TRUE, snapshots |-> snapshots,
                    metrics |-> <<Metrics(manifest.capital, snapshots,
                                          fillEvents)>>]
              ELSE [built |-> TRUE, snapshots |-> <<>>, metrics |-> <<>>]
        /\ UNCHANGED vars

ArtifactInit == Init /\ artifact = NoArtifact

ArtifactNext ==
    \/ Next /\ UNCHANGED artifact
    \/ BuildArtifact

ArtifactSpec == ArtifactInit /\ [][ArtifactNext]_artifactVars

--------------------------------------------------------------------------------
(* Properties *)

HasMetrics == artifact.built /\ artifact.metrics # <<>>
TheMetrics == artifact.metrics[1]

\* The snapshots replay the run: the cash at each close is what the adapter had
\* there, the holdings and the exposure are the broker's, although they are
\* rebuilt from two event lists with a cursor each.
SnapshotsReplayTheRun ==
    HasMetrics =>
        /\ Len(artifact.snapshots) = Len(marks)
        /\ \A i \in DOMAIN marks :
              /\ artifact.snapshots[i].cash = marks[i].cash
              /\ artifact.snapshots[i].holdings =
                     marks[i].position * bars[i].close
        /\ TheMetrics.exposureTimeRatio =
              [num |-> Cardinality({i \in DOMAIN marks : marks[i].position > 0}),
               den |-> Len(bars)]

\* The result is explained: what the run gained is the realized profit of its
\* trades plus the change in value of what it still holds; each sale is a trade,
\* won if it was sold at more than it was bought for right before, whatever the
\* other round trips were; and a run without a trade has no win rate.
ProfitIsExplained ==
    HasMetrics =>
        LET last == positionEvents[Len(positionEvents)]
            held == IF positionEvents = <<>> THEN 0
                    ELSE last.quantity * (Bar.close - last.averageCost)
            sales == {n \in DOMAIN fillEvents : fillEvents[n].side = "sell"}
            won == {n \in sales : fillEvents[n].price > fillEvents[n - 1].price}
        IN  /\ TheMetrics.finalEquity - TheMetrics.initialEquity =
                   TheMetrics.realizedPnl + held
            /\ TheMetrics.tradeCount = Cardinality(sales)
            /\ TheMetrics.winRate =
                   IF sales = {} THEN NotAvailable
                   ELSE [num |-> Cardinality(won), den |-> Cardinality(sales)]

\* The drawdown is the worst loss from any close to a later one, of a run that
\* is worth something at every close.
DrawdownIsTheWorstLoss ==
    HasMetrics =>
        LET equity(i) == artifact.snapshots[i].equity
            days == DOMAIN artifact.snapshots
            worst == TheMetrics.maxDrawdown
        IN  (\A i \in days : equity(i) > 0) =>
                /\ \A i, j \in days : i <= j =>
                      ~LessThan([num |-> equity(j), den |-> equity(i)], worst)
                /\ \E i, j \in days : i <= j /\
                      equity(j) * worst.den = worst.num * equity(i)
================================================================================

# Formal models of idx-backtest-lab

TLA+ models of idx-backtest-lab (a FastAPI service over one DuckDB file that
imports market data, executes backtests with Backtrader and runs parameter
optimizations, and the pages that show it in a browser), checked with TLC on
small instances. Every safety property of the passing runs, and both refinements,
are also proved with TLAPS for every size; liveness is left to TLC.
The code is the reference: each definition is translated from the lines
`PROJECT.json` maps it to.

## 1. Inventory

All endpoints are plain functions, which the framework runs in a pool of
threads. They share nothing in memory. Every repository call opens its own
DuckDB connection and is one statement or one explicit transaction. So the
interesting behaviour of the whole system lies *between* repository calls:
another thread acts, a call raises, or the process ends. In the models one
repository call is one step.

| Component (`src/backend/app/...`) | State | Operations | What makes it hard | What makes it correct |
|---|---|---|---|---|
| **Run execution** `application/execute_backtest_run_service.py`, `domain/backtest_run.py`, `infrastructure/db/backtest_run_repository.py`, `run_artifact_writer.py`, `api/routes/backtest_runs.py` | `backtest_runs` (status, failure code, manifest), artifact tables | create, execute (read, strategy, snapshot, reject / start, engine, finish, persist), answer | check of the status long before its change; terminal status and bundle in two transactions; exceptions at every call | one engine execution per run; the stored verdict is the engine's; an answer stays true; one path through the life cycle |
| **Optimization** `application/execute_optimization_service.py`, `domain/optimization.py`, `infrastructure/db/optimization_repository.py`, `api/routes/optimizations.py` | `optimizations`, `optimization_candidates`, plus the runs it creates | evaluate candidates (train, validation), select, holdout, fail | unguarded `record_*` updates; its runs are visible to other clients; partial failures | one driver; sealed holdout; best candidate selected, whatever the order; selection final; results backed by artifacts |
| **Engine adapter** `infrastructure/engine/backtrader_adapter.py`, `domain/execution_result.py` | cash, outstanding orders, event lists | Backtrader's callbacks `notify_order`, `next`, `stop` | books kept in decimals apart from the broker's in floats; orders filled a bar later or refused; end of data | positions equal, cash equal up to roundings; fills at the next open; round trips only; each intent settled; entries within budget |
| **Run artifact** `domain/run_artifact.py`, `application/run_artifact_builder.py` | none (pure) | snapshots, FIFO profit, metrics | cursors over two event lists; partial lots; running peak | the artifact replays the run; profit explained; drawdown is the worst loss |
| **Dataset import** `application/dataset_import_service.py`, `infrastructure/db/dataset_import_writer.py`, `infrastructure/market_data/yahoo_finance_provider.py`, `api/routes/datasets.py` | `datasets`, `bars`, `dataset_imports`, `dataset_validation_events` | fetch, validate, look up duplicate, parse, persist accepted / rejected | four tables in one transaction; duplicate check before it | imports whole; answers true; reimports declared |
| **CSV contract** `infrastructure/ingestion/csv_parser.py` | none (pure) | parse rows, unique and sorted | incremental order and duplicate check per instrument | first offence reported; accepted files are sound |
| **Instruments, aliases, mappings** `application/instrument_service.py`, `dataset_instrument_mapping_service.py`, repositories, `bar_snapshot_repository.py` | `instruments`, `instrument_aliases`, `dataset_instrument_mappings` | create, resolve in a snapshot | overlap check and insert in two connections; inclusive and open ranges | one meaning per identifier and day; refusals justified |
| **Migrations and startup** `infrastructure/db/migration_runner.py`, `main.py`, `infrastructure/db/readiness.py` | `schema_migrations`, the schema, the files of the release | discover, verify, apply one by one, serve, readiness | stops between statements; edited, missing, newer files; swallowed error | ledger = schema; only grows; a successful start serves its own schema; an applicable release is applied |
| **Strategy specs, run and optimization manifests** `domain/strategy_spec.py`, `backtest_manifest.py`, `application/*_manifest_service.py`, `strategy_spec_service.py` | `strategy_specs`, the JSON of a run or optimization | validate, insert | three validations at three times: what one accepts another may refuse later; bar counts and bounds off by one | an accepted strategy decides on the bar it names; an accepted optimization leaves every valid candidate room for a decision and its fill |
| Corporate actions | `corporate_actions` | insert, list | nothing reads them | not modelled |
| **Read endpoints** `api/routes/run_artifacts.py`, `backtest_runs.py`, `infrastructure/db/*_repository.py` | none | a run, its summary, artifacts, manifest; lists | an answer is put together from several statements, and from COUNT and SELECT | answers do not contradict themselves; a walk through a list is complete |
| **Frontend** `src/frontend/app`, `lib/api` | what is shown, the requests under way, the Execute button | load, execute, load again, page through a list, check and send a form | requests overtake each other; timers of 8 s (executions 60 s, imports 30 s); a body that breaks off after the headers; rules of the server written once more | what is shown in the end is current and is the result of the execution; forms and server agree |
| Settings, logging, health | none | - | - | not modelled |

Interactions: an optimization creates strategy specs and runs and calls the run
service directly (shared tables, same thread); run execution calls the snapshot
query (which resolves an instrument through the mappings), the engine adapter
(which Backtrader calls back), the artifact builder and the artifact writer; an
import writes the bars a snapshot reads; migrations precede everything else. The
pages of the frontend only use the endpoints; nothing is pushed to them.

## 2. Modules

| Module | Models | Uses |
|---|---|---|
| `RunLifecycle` | abstract: phases of a run and its bundle | |
| `RunExecution` | the run service and its endpoint, thread by thread | implements `RunLifecycle` |
| `RunExecutionProofs` | inductive invariant, safety and refinement theorems | `RunExecution` |
| `RunPage` | the endpoints of a run, call by call, and the page that asks them | EXTENDS `RunExecution` |
| `RunPageProofs` | what the page shows, for any order of answers | `RunPage`, `RunExecutionProofs` |
| `SealedHoldout` | abstract: what ADR-009 promises of an optimization | |
| `OptimizationExecution` | the optimizer as one more client of the run service | EXTENDS `RunExecution`, implements `SealedHoldout` |
| `OptimizationExecutionProofs` | inductive invariant, safety and refinement theorems | `OptimizationExecution`, `RunExecutionProofs` |
| `EngineAdapter` | adapter and broker over one feed | |
| `RunMetrics` | snapshots, FIFO matching, metrics as functions | |
| `EngineArtifact` | the artifact of what the adapter reported | EXTENDS `EngineAdapter`, `RunMetrics` |
| `EngineProofs` | theorems about the adapter, then about the artifact | `EngineArtifact` |
| `CsvContract` | the parser as a recursive function of the rows | |
| `DatasetImport` | the import use case, thread by thread | EXTENDS `CsvContract` |
| `DatasetImportProofs` | theorems about imports and about the files they read | `DatasetImport` |
| `ManifestContracts` | what is accepted as a strategy, a run, an optimization | |
| `CollectionWalk` | a page of a list, and paging to its end | |
| `InputForms` | what the forms of the frontend refuse, derive and send | EXTENDS `ManifestContracts` |
| `ReferenceChecks` | pure functions against reference definitions | EXTENDS `CsvContract`, `RunMetrics`, `InputForms`, `CollectionWalk` |
| `ReferenceChecksProofs` | the same comparisons for inputs of any size | `ReferenceChecks` |
| `InstrumentRegistry` | registration of aliases and mappings, and their use | |
| `InstrumentRegistryProofs` | what the check before the insert ensures | `InstrumentRegistry` |
| `SchemaMigration` | releases, migrations, startup, readiness | |
| `SchemaMigrationProofs` | inductive invariant and theorems of the migrations | `SchemaMigration` |
| `MC*` | constants, symmetry sets, for TLC | the module of the same name |

How state and actions correspond to the code:

- **RunExecution.** `status`, `failureCode`, `manifest`, `bundle` are columns.
  `pc[t]` is the next repository call of a thread, `outcome[t]` the one value it
  carries to it (a failure code, an engine outcome, the raised error), `target`
  its run. `TransitionStatus` is the guarded `UPDATE ... WHERE status = ?`; its
  other outcome is `StaleStatus` (the code raises `StaleRunStatusError`). DuckDB
  may also refuse one of two conflicting writes with an exception; the loser
  then raises and changes nothing, as it does with a stale status. `executions`
  and `engineSaid` are history.
- **OptimizationExecution.** `op[t]` and `local[t]` are the position and the
  local variables inside `execute_optimization`; during a call of the run
  service (`op[t] = "execute"`) the thread moves by the actions of
  `RunExecution`, in which `EnterService` and `LeaveService` take the place of
  the endpoint. `runnable` says for which periods `create_run_manifest` accepts
  what `create_optimization` had accepted; `ManifestContracts!RunnableLegs` is
  how it decides that.
- **SealedHoldout.** The rows as the reader of the result needs them: who is
  judged, the choice, the run the holdout was opened for, what it showed.
  `ImplementsSealedHoldout` maps a row that is not `pending` to judged, a stored
  audit to decided, and `COMPLETED` or `FAILED` to the end, after which no step is
  left: a late driver that overwrites a result would be a step it has not got.
- **RunPage.** `view[s]` is the state of one `useLoadable`, `inflight[s]` its
  requests: pending, abandoned by the cleanup of the effect (`cancelled`), or
  broken. `ReadNext` is one repository call of the endpoint; the calls of one
  answer see different states of the run. `button` is `executing` and
  `executeError`, `serving` the thread whose answer is awaited. A timer ends the
  wait, never the thread. `Breaking` bounds which answers may break off; they do
  so after the headers, when `apiFetch` has cleared the timer.
- **CollectionWalk.** A row is its place in `ORDER BY created_at_utc, id`. A new
  row may have any place: the clock is read before the insert, and identifiers
  are random. A walk reads two tables for each page, one for the COUNT, one for
  the SELECT, and goes on while Next is enabled.
- **EngineAdapter.** `step` is the callback Backtrader is about to make. The
  broker (`cash`, `position`, `queue`, `notice`) is external, modelled from its
  use: market orders, no commission, cash checked at submission and at the open.
  The indicators are a free choice of signal per bar. The money is of two kinds,
  as in the code: the adapter's is decimal, here an integer in units of the
  quantum; the broker's is a binary float made from it
  (`backtrader_adapter.py:45-48, 482`), counted in grains (`Unit` of them to a
  unit). `Near` is what a conversion or an operation may make of an exact amount:
  anything up to `Drift` grains away. `Left` is the cash an order leaves, and with
  it `MayFill` and `MayRefuse`: where the cash just covers an order both are true.
  Prices are given exactly in `Left`, their own rounding being part of its drift.
  `marks` is history: the adapter's cash and the broker's position at each close.
- **ManifestContracts.** Predicates of a request: accepted or not. A dataset is
  the set of its days, an amount is counted in tenths of the last stored decimal,
  and `Stored` is the rounding of the column `DECIMAL(18, 6)`, halves away from zero. The periods of an
  optimization may be refused later as periods of runs: `create_run_manifest`
  wants them within the declared coverage of the dataset and the amounts, as
  stored, positive. `FirstValue` is what Backtrader's indicators need (external).
  `priceField` is a field of the parameters that may be missing.
- **InputForms.** A form holds the numbers of such a request. `FormSendsStrategy`,
  `FormSendsRun` and `FormSendsOptimization` are the early returns of
  `handleSubmit`, `FormWarmUp` is the copy of the warm-up in `STRATEGY_KINDS`, and
  `Sent` is what `createStrategy` makes of the parameters.
- **DatasetImport.** A payload is a sequence of entries with an instant and a
  kind; `Day` and `RowOf` are the conversion to CSV rows. A fetch that fails is
  answered 502 where it raised `YahooFinanceFetchError` and 500 where it raised
  anything else. `declared` and `known`
  are history (who allowed a reimport; what was stored when a request was
  admitted).
- **InstrumentRegistry.** Aliases and mappings have the same service, so a row
  is `[scope, instrument, from, to]`, the open end being one day after the last.
  `checked[j]` is history: the rows there were at the read for row `j`.
  The instrument may not exist yet; the dataset of the mappings always does (none is
  ever deleted).
- **SchemaMigration.** `files` is the directory of the installed release,
  `ledger` is `schema_migrations`, `schema` the statements that took effect in
  order. `Deploy` installs any directory while the server is down.

Operators named as mutants in their comments are not part of the models. Each is
a plausible mistake in the definition that follows it; `PROJECT.json` says which
property finds it.

## 3. Runs

| Run | Question | Bounds and why they suffice |
|---|---|---|
| `MCRunExecution` | safety of run execution under crashes and database errors, and refinement of the life cycle | 3 threads, 2 runs: a winner, a loser and a late-comer on one run while another run goes on. Crashes and errors are unbounded. |
| `MCRunPage` | the page while others execute the run; progress without faults, and the fair life cycle | 2 threads, 1 run: the user's execution and another client's; threads only influence each other through the row of one run. 2 sections: one whose answer takes three calls, one that may be 404; answers to the first may break off. The network and the timers fail at any time. |
| `MCOptimization` | one driver, and the refinement of `SealedHoldout`, with faults | 2 drivers, 4 candidates, equal objectives so that ties decide |
| `MCOptimizationClient` | the same against a client that executes the runs; settling | 1 optimizer, 1 client, 3 pairs of which one is invalid, 2 objectives, every `Runnable` |
| `MCEngineArtifact` | adapter, broker, artifact | feeds of up to 5 bars (two round trips, or one and an order without a next bar), prices 2 and 3, capital 6 (spent to the last unit at either price, so that the roundings decide), 7 (half of it after a warm-up of 2 bars, or with an increment of 3/2) and 1 (zero quantity); 8 grains to a unit and a drift of 1, each amount up to a grain off, 5 bars together below a unit |
| `MCReferenceChecks` | CSV reader, FIFO matching, what is derived from accepted requests, whether the forms mean the same | files of up to 4 rows, 2 instruments, 3 times; up to 6 fills; strategies with windows up to 4 around every bound, combinations of 1 to 4 conditions, with and without their price field; optimizations over datasets of 12 to 14 days with a day missing, periods on both sides of the coverage and of the bar count, settings with one field out of range; walks of up to 4 requests over up to 4 rows that come in between any two statements, in any order, pages of 1 and 2 |
| `MCMigration` | migrations under stops and any sequence of releases | versions 1 to 3, three contents of which one fails, 2 stops |
| `MCRegistry` | overlap checks under races | 2 threads, 2 days and an open end, 2 rows: an overlap needs two |
| `MCImport` | imports under races and faults | 2 threads, 2 requests, up to 2 entries, all kinds |
| `MCForms` | **violated** as documented below | the strategies of `MCReferenceChecks` |
| `MCRegistrySnapshot` | **violated** as documented below | 1 thread |
| `MCMigrationNewer` | **violated** as documented below | 1 stop |

Runs whose cfg says `CHECK_DEADLOCK FALSE` stop where the system does: the feed
ends, the bound on requests, rows, or inputs is reached, or a stop too many.
Symmetry is used only in runs without temporal properties that mention
fairness, over threads, runs and optimizers, none of which the properties tell
apart.

Of the type invariants only that of `RunExecution` is listed in a run: the other
properties of the other runs fail where theirs would. All of them are proved.

Fairness: `RunExecution!FairSpec` and `OptFairSpec` assume weak fairness of each
thread inside a handler. The operating system schedules threads, and no step of
a handler waits for another thread. Requests need not come. `FairPageSpec` adds
that a pending request is answered, fails or breaks off (until the headers are
there it has a timer) and so does the execution; the user need not click, and
abandoned requests may stay forever. `SchemaMigration!FairSpec`
assumes that a deployed server is started and that its startup runs on; stops
are bounded by `MaxStops`, without which the process could be stopped forever.
Liveness is checked without crashes and database errors for runs and
optimizations, because the code has no recovery: with them a run may stay
`running` and an optimization in any status forever.

### Statements of the documentation the code does not keep

1. `tasks/TASK-020-multi-indicator-combo-strategy.md:5,20`: combinations of
   indicators are "user-composed", in "a distinct combo-building UI". The form
   sends the conditions of a combination without `price_field`
   (`lib/api/strategies.ts:220` adds it to the object around them), and
   `build_parameters` refuses each of them (`strategy_spec.py:271-276`): no
   combination can be created from the form. The test of the form mocks the API
   (`page.test.tsx:198-237`), the tests of the API send the field. Run `MCForms`.
2. `docs/INSTRUMENT_AND_CORPORATE_ACTION_CONTRACT.md:13`: "A mapping resolves an
   identifier only for its applicable effective date range." A snapshot takes
   one mapping for the whole period (`bar_snapshot_repository.py:51-79`): run
   `MCRegistrySnapshot`.
3. `docs/adr/ADR-002-local-persistence-and-schema-evolution.md:12`: migrations
   "fail before application startup/use if the database is newer". The startup
   hook logs the error and serves (`main.py:32-36`): run `MCMigrationNewer`.

Observed while modelling and not made a run: a candidate whose evaluation raises
stays `pending` in a failed optimization (`execute_optimization_service.py:258-271`;
`README.md:35-36`: "every candidate, rejection, and failure is recorded"), and
`CompletedIsEvidenced` says that it is the only one; the form of an optimization
counts the valid pairs, while the limit of candidates counts all of them; runs rejected before the engine
have no bundle (ADR-007 wants one per terminal run); entries are not multiples of
a non-integer increment; an entry that spends exactly the cash may be refused as
Margin, because the broker computes in floats (three shares at 0.1 on a cash of
0.3), while the adapter's artifact is exact in decimals: with a capital of
1000.10, three shares at 333.33 leave it 0.11 and the broker a little more; after
a failed startup the readiness probe can answer
ready, as it compares counts; an optimization's amounts are rounded to six
decimals when stored, so its runs may differ from its checksummed manifest, and
an increment below half of the last decimal becomes zero and makes every run
refused (`docs/OPTIMIZATION_AND_BIAS_SAFEGUARD_CONTRACT.md:23` wants the
assumptions preserved); overlapping rows and undeclared duplicates are
possible for concurrent requests (the properties `OneMeaningPerDay` and
`ReimportsAreDeclared` say exactly when).

Of the pages: a refused or timed-out execution does not load the page again, so
it stays at `created` and the button is offered, even if the run was executed
meanwhile (`page.tsx:107-110`); between the answer of an execution and the next
load the button is offered once more, and a click then ends in a conflict that
is shown next to a run that succeeded; the lists of events and snapshots are not
loaded again after an execution (`page.tsx:116-125`), so a page opened before it
shows them empty; a body that breaks off leaves "Executing…" forever
(`client.ts:77-83`). Next may be clicked again before the page it asked for has
come, which skips that page. The choices of datasets and strategies in the forms
are the first 100 rows by creation (`runs/new/page.tsx:19`). The comparison of
runs counts the bundle of a failed run as a completed one
(`run_artifacts.py:293-299`); no page uses it.

## 4. Proofs

Eight modules hold the proofs. Together they state every invariant of the passing
runs, the action properties `LedgerOnlyGrows` and `RefusalsAreJustified`, and the
refinements `ImplementsLifecycle` and `ImplementsSealedHoldout`, for every value of
the constants that satisfies the ASSUMEs of the modules.

| Module | Theorems (the specification implies ...) |
|---|---|
| `RunExecutionProofs` | `Invariance` (`IInv`), `TypeCorrect`, `ExecutedOnce` (`EngineRunsOnce`), `VerdictKept` (`VerdictIsTheEngines`), `DurableAnswers` (`AnswersAreDurable`), `Refinement` (`ImplementsLifecycle`) |
| `RunPageProofs` | `PageInvariance`, `PageOnlyObserves` (`PageSpec => Spec`), `ScreenIsCurrent` (`ShownIsCurrent`), `AnswersStayWhole` (`AnswersAreWhole`), `ResultIsShown` (`ExecutedIsShown`) |
| `OptimizationExecutionProofs` | `OptInvariance`, `OptTypeCorrect`, `DrivenByOne` (`OneDriver`), `HoldoutStaysSealed` (`HoldoutIsSealed`), `SelectionStaysBest` (`SelectionIsBest`), `CompletionIsEvidenced` (`CompletedIsEvidenced`), `RunsUnderOptimizers` and `OptRunsRefine` (the theorems of runs beside optimizers), `SealedRefinement` (`ImplementsSealedHoldout`) |
| `EngineProofs` | of `EngineAdapter`: `Invariance`, `TypeCorrect`, `BooksStayClose` (`BooksAgree`), `FilledAtNextOpen` (`FillsAtNextOpen`), `OnlyRoundTrips` (`RoundTripsOnly`), `IntentsSettled` (`IntentsAreSettled`), `EntriesWithinBudget` (`EntriesAreWithinBudget`); of `EngineArtifact`: `ArtifactInvariance`, `SnapshotsReplayed` (`SnapshotsReplayTheRun`), `ProfitExplained` (`ProfitIsExplained`), `DrawdownIsWorst` (`DrawdownIsTheWorstLoss`), `NeverInDebt` (`Solvent`), `EngineUnderArtifact` (the invariants of the engine beside the builder) |
| `InstrumentRegistryProofs` | `Invariance`, `TypeCorrect`, `MeaningsAreChecked` (`OneMeaningPerDay`), `RefusalsJustified` (`RefusalsAreJustified`), `SerialRequestsMeanOne` |
| `DatasetImportProofs` | `ImportInvariance`, `ImportTypeCorrect`, `ImportsStayWhole` (`ImportsAreWhole`), `AnswersStayTrue` (`AnswersAreTrue`), `ReimportsWereDeclared` (`ReimportsAreDeclared`) |
| `SchemaMigrationProofs` | `Invariance`, `TypeCorrect`, `LedgerKept` (`LedgerIsTheSchema`), `ServedSchema` (`ServedAsWritten`), `LedgerPersists` (`LedgerOnlyGrows`) |
| `ReferenceChecksProofs` | `OffencesReported` (`FirstOffenceIsReported`), `SharesMatched` (`MatchesShareByShare`), `StrategiesWarm` (`StrategiesAreWarm`), `CandidatesDecide` (`CandidatesHaveRoom`), `FormsAgree` (`FormsAgreeWithTheServer`), `WalksComplete` (`WalksAreComplete`) |

### Assumptions

The ASSUMEs bound no size, with two exceptions that the code has as well: the
windows of a grid are finitely many (`GridAssumption`, `OptimizationsAssumption`: they
are JSON lists), and so are the rows of a collection (`WalksAssumption`). The others
say what a value is: manifests, bars and fills as the CHECKs of the tables and the
validation of requests admit them (`ManifestsAssumption`, `BarsAssumption`,
`FillsAssumption`), payloads are sequences of entries (`PayloadsAssumption`), numbers
of a request are integers (`StrategiesAssumption`), the name of an alias is not that
of a dataset's identifier (`ScopesAssumption`: they are two tables), and a unit has a whole number of the
broker's grains (`PrecisionAssumption`: how many, and how the drift compares with
them, is open). TLC evaluates
them in every run.

### Arguments

None of the properties is inductive. What each invariant adds:

- **Runs.** `EngineRunsOnce` alone allows a second thread at label `engine` for a
  run that was already executed. `IInv` adds what a thread knows at each label
  (`ThreadInv`: at `engine` the run is `running` and not yet executed; at `finish`
  the thread holds what the engine said; at `persist` the row already says the
  same and there is no bundle), what a row says alone (`RunInv`) and that no two
  threads are between the transition to `running` and the bundle of one run
  (`SoleExecutor`). The key step is `StartRun`: the guarded update requires
  `created`, and a thread past it sees `running` or a terminal status, so nobody
  else is past it. `Refinement` maps a failed run to `rejected`, `failed` or
  `aborted` by what the engine said.
- **The page.** A page never changes a run by itself (`PageOnlyObserves`), so
  `IInv` holds beside it. `SectionInv` adds what each waiting request has read so
  far and how that fits with what the run has become (`Consistent`: a terminal
  status, a bundle and metrics that were read are still there), that a request
  that is not abandoned carries the last load, and that a section that waits for
  nothing shows the last load. An answer that comes late either is abandoned or
  was sent after the last click.
- **Optimizations.** `OptIInv` is on top of `IInv` of runs: what the rows say in
  each status (`RowsInv`), which runs they rest on (`EvidenceInv`), and for the
  driver where it is in the loop over the candidates (`LoopInv`: the pending rows
  are those it has still to do and the current one), what it knows of its runs
  (`RunsInv`) and of the selection (`HoldoutInv`). The key steps: the guarded
  transition to `validating`, after which every status but the driver's own is a
  stale one for others; and `RecordSelection`, where the audit read before is
  still that of the rows. That the selection exists and is unique is an order
  argument: a strict total order on a finite set has a first element
  (`FiniteHasFirst`, by a minimal subset that has none). `SealedRefinement` maps
  each action to one of `SealedHoldout`, nothing after the end included.
- **Engine.** `IInv` says in which callback the latest order is where (`StepInv`),
  on which day each was created (`DaysInv`), and that the adapter's books differ
  from the broker's by the fill that it has not been notified of, and otherwise by no more than the roundings so far (`BooksInv`, `Within`): the books
  are close again only because notifications come before `next`. Each fill adds
  one drift (`DriftAdds`), and a broker that is not in debt bounds the debt of the
  adapter (`CoveredByCash`). None of this compares `Drift` with `Unit`. `EntriesAreWithinBudget` needs `ThreeRoundings`: rounding
  down three times, with any increment, never exceeds the exact quotient.
- **Artifact.** The builder reads two lists of events, without the broker.
  `MarksInv` says for each close how many events had happened by then, so that the
  cursors stop where the broker was; `SolventInv`, that the adapter's cash and the
  position are never negative and never both zero, so that an equity is positive and
  each ratio of two has a value. That one holds where the roundings of all bars stay
  below one unit (`FineGrained`): a debt is a whole number of units, and what the
  broker covers leaves less than one. It is the hypothesis of `Solvent`, not an
  ASSUME; `DrawdownIsTheWorstLoss` speaks of runs worth something at
  every close. `ProfitInv`: the open lot and the realized profits are those of the
  round trips so far. The drawdown is a fold: its invariant is that the peak is
  a close so far and no pair of closes so far falls deeper.
- **Registry.** `ReadInv` and `StoredInv`: the rows that a request has read do not
  clash with the row it becomes, and `checked[j]` remembers how many those were.
  Two rows that clash were therefore inserted by requests that overlapped in time.
  With one thread that cannot be (`SerialRequestsMeanOne`).
- **Imports.** `TablesInv` ties the four tables together; `ThreadInv` and `OwnInv`:
  a request under way has written nothing yet and no answer is about it, and what
  it was admitted with has another content.
- **Migrations.** `LoopInv`: the directory is contiguous and the database not
  newer, and all versions below the cursor are recorded as they stand in the
  directory; `TransactionInv`: an open transaction is for a version not yet
  recorded. At `Commit` the recorded versions and those below the cursor leave only
  `cursor = n + 1`, so no gap and no second execution.
- **Functions against their references.** The reader of files is described by what
  it knows after `n` rows (`Known`: the keys it has seen and the greatest time of
  each instrument), from which its next verdict is that of the definition. A walk
  misses a row only if the row's rank is beyond all pages, and ranks only grow
  (`Rank`, `MissedIsLater`); a repeated row was pushed from one page to a later
  one. Lots are matched share by share (`Settled`: a sale that has gone over some
  lots has taken exactly their oldest shares, until it was settled or they were
  gone), and numbering the sales is the bijection behind `Len(realized)`. For
  strategies and optimizations the comparisons come down to cases on the kind of
  indicator and the arithmetic of windows and days.

### Techniques and their limits

The induction theorems of the library take an operator as parameter, which the
provers cannot instantiate. Induction over the length of a list is done instead for
a set of numbers: `NumbersFromZero` (0 is in it and it is closed under successor) is
proved from a minimal counterexample, and each loop is a recursive *function*, whose
existence (`Iteration`) and uniqueness (`SameTurns`) are proved the same way. This is
why the modules have recursive functions and neither `FoldLeft` nor RECURSIVE
operators where a theorem is. The modules of proofs about different components
cannot extend each other (their variables clash), so these few lemmas are stated in
each that needs them.

What the proofs changed in the models: in `UniqueAndSorted` two guards of a CASE
overlapped (a row that repeats the last key is also not after it). TLC takes the
first, TLA+ does not say which; `_require_unique_and_sorted` returns early, so it is
an IF now. `MatchesShareByShare` numbers the sales by counting them rather than by
selecting a subsequence, which says the same.

Only model-checked: `ExecuteSettles`, `ImplementsFairLifecycle`, `ExecutionIsShown`,
`OptimizationSettles` and `ApplicableIsApplied` are liveness properties and need
ENABLED, which the prover does not support. The properties of the three violated runs
are refuted by TLC and so have no proof.

## 5. Not modelled

- **Corporate actions**: rows are inserted after two existence checks, never
  changed, and read by nothing but their own list.
- **Comparison of runs, validation events, candidates as a list, events and
  snapshots of a run**: single reads of rows that do not change any more.
- **Forms as processes**: they keep what is typed until it is sent (what they
  send is `InputForms`); a form that is sent twice is two requests, which the
  models of the server contain. The form of an import checks that
  fields are filled in and that the period is not empty.
- **The page of an optimization**: effects and handler are those of the page of a
  run (`ShownIsCurrent` rests on the same flag), around the endpoint modelled in
  `OptimizationExecution`.
- **Annualized return and stored decimals**: powers and roundings of real numbers.
- **Settings, logging, correlation identifiers, health**: no state others use.

## 6. Plan

| Stage | Work |
|---|---|
| done | every component of the inventory but those under section 5; for each the runs of section 3 and the theorems of section 4 |
| next | the theorems that a reader would want besides the properties of the runs: that a run which was never refused keeps its verdict under any page and any optimizer at once; the bounds of the metrics (win rate, exposure) for every artifact; the conditions under which the statements that the code does not keep would hold (a registry snapshot within one mapping, a database that is not newer) |

----------------------------- MODULE RunExecution -----------------------------
(***************************************************************************)
(* Executing backtest runs: POST /backtest-runs and                        *)
(* POST /backtest-runs/{run_id}:execute.                                   *)
(*                                                                         *)
(* The handlers are plain functions that the web framework runs in a pool  *)
(* of threads, so any number of them may be inside execute_backtest_run at *)
(* once, even for the same run.  They share nothing but the DuckDB file.   *)
(* Every repository call opens a connection of its own and is one          *)
(* statement or one transaction, so a repository call is one step here and *)
(* anything may happen between two of them: a step of another thread, an   *)
(* exception from the database, the end of the process.                    *)
(***************************************************************************)
EXTENDS Integers

CONSTANTS
    Threads,    \* threads of the server that handle requests
    Runs,       \* the run identifiers that can be created
    NoRun,      \* a thread that works on no run
    Faults      \* what may go wrong: a subset of {"crash", "database"}

ASSUME NoRunAssumption == NoRun \notin Runs
ASSUME FaultsAssumption == Faults \subseteq {"crash", "database"}

VARIABLES
    status,       \* backtest_runs.status; "absent" when there is no row
    failureCode,  \* backtest_runs.failure_code
    manifest,     \* what the stored configuration of the run leads to
    bundle,       \* run_artifact_bundles.terminal_status; "none" without a row
    executions,   \* history: how often the engine executed the run
    engineSaid,   \* history: the outcome of its last execution
    pc,           \* the next repository call of the thread
    target,       \* the run the thread works on
    outcome,      \* what the thread carries to its next step
    reply         \* the last answer the thread sent to its client

rows == <<status, failureCode, manifest, bundle>>
history == <<executions, engineSaid>>
threads == <<pc, target, outcome, reply>>
vars == <<status, failureCode, manifest, bundle, executions, engineSaid,
          pc, target, outcome, reply>>

--------------------------------------------------------------------------------
(* Values *)

Statuses == {"created", "running", "completed", "failed", "cancelled"}

\* BacktestRunStatus and its table of allowed transitions.
AllowedTransitions ==
    [created   |-> {"running", "cancelled", "failed"},
     running   |-> {"completed", "failed"},
     completed |-> {},
     failed    |-> {},
     cancelled |-> {}]

Terminal == {s \in Statuses : AllowedTransitions[s] = {}}

\* A manifest over one instrument, over several, or one whose strategy row is
\* missing or no longer has the recorded checksum.
Manifests == {"single", "multi", "stale_strategy"}

\* What the bar snapshot query leads to, besides bars.
Rejections == {"unsupported_multi_instrument", "unresolved_instrument_mapping",
               "empty_bar_snapshot", "snapshot_error"}

\* Mutant: the cause itself is stored as the failure code.
FailureCodeRaw(cause) == cause

\* The failure code that is stored: any exception of the snapshot query is
\* recorded as an unresolved mapping.
FailureCodeOf(cause) ==
    IF cause = "snapshot_error" THEN "unresolved_instrument_mapping" ELSE cause

EngineFailures == {"missing_next_bar", "engine_error"}
EngineResults == {"completed"} \cup EngineFailures
EngineOutcomes == EngineResults \cup {"engine_raised"}

FailureCodes == {"none", "unsupported_multi_instrument",
                 "unresolved_instrument_mapping", "empty_bar_snapshot"}
                \cup EngineFailures

TerminalStatusOf(result) ==
    IF result = "completed" THEN "completed" ELSE "failed"

Errors == {"run_not_found", "not_eligible", "strategy_not_found",
           "stale_status", "engine_execution_error", "database_error"}
          \cup Rejections

HttpCodeOf(error) ==
    CASE error \in {"run_not_found", "strategy_not_found"} -> 404
      [] error = "not_eligible" -> 409
      [] error \in {"unsupported_multi_instrument", "empty_bar_snapshot",
                    "unresolved_instrument_mapping"} -> 422
      [] OTHER -> 500

RepositoryCalls == {"get_run", "get_strategy", "get_snapshot", "reject",
                    "start", "finish", "persist"}

Labels == RepositoryCalls \cup {"idle", "engine", "returned", "raised"}

NoReply == [code |-> 0, run |-> NoRun, terminal |-> "none", status |-> "none"]

Replies == [code : {0, 200, 404, 409, 422, 500}, run : Runs \cup {NoRun},
            terminal : Terminal \cup {"none"},
            status : Statuses \cup {"absent", "none"}]

TypeOK ==
    /\ status \in [Runs -> Statuses \cup {"absent"}]
    /\ failureCode \in [Runs -> FailureCodes]
    /\ manifest \in [Runs -> Manifests \cup {"none"}]
    /\ bundle \in [Runs -> {"none", "completed", "failed"}]
    /\ executions \in [Runs -> Nat]
    /\ engineSaid \in [Runs -> EngineOutcomes \cup {"none"}]
    /\ pc \in [Threads -> Labels]
    /\ target \in [Threads -> Runs \cup {NoRun}]
    /\ outcome \in [Threads -> {"none"} \cup EngineOutcomes \cup Errors]
    /\ reply \in [Threads -> Replies]

--------------------------------------------------------------------------------
(* The steps of a thread *)

Goto(t, label, value) ==
    /\ pc' = [pc EXCEPT ![t] = label]
    /\ outcome' = [outcome EXCEPT ![t] = value]

Raise(t, error) == Goto(t, "raised", error)

\* transition_status: an UPDATE guarded by the expected status.
TransitionStatus(r, expected, next, code) ==
    /\ next \in AllowedTransitions[expected]
    /\ status[r] = expected
    /\ status' = [status EXCEPT ![r] = next]
    /\ failureCode' = [failureCode EXCEPT
                           ![r] = IF code = "none" THEN @ ELSE code]
    /\ UNCHANGED <<manifest, bundle>>

\* No row matched the guard: transition_status raises and changes nothing.
StaleStatus(t, expected) ==
    /\ status[target[t]] # expected
    /\ Raise(t, "stale_status")
    /\ UNCHANGED rows

\* create_run_manifest as far as the table of runs shows it: one INSERT.
CreateRun(r, kind) ==
    /\ status[r] = "absent"
    /\ status' = [status EXCEPT ![r] = "created"]
    /\ manifest' = [manifest EXCEPT ![r] = kind]
    /\ UNCHANGED <<failureCode, bundle, history>>

\* The service is entered with a run identifier.
CallService(t, r) ==
    /\ target' = [target EXCEPT ![t] = r]
    /\ Goto(t, "get_run", "none")
    /\ UNCHANGED <<rows, history>>

GetRun(t) ==
    /\ pc[t] = "get_run"
    /\ \/ /\ status[target[t]] = "absent"
          /\ Raise(t, "run_not_found")
       \/ /\ status[target[t]] \notin {"absent", "created"}
          /\ Raise(t, "not_eligible")
       \/ /\ status[target[t]] = "created"
          /\ Goto(t, "get_strategy", "none")
    /\ UNCHANGED <<rows, history, target, reply>>

GetStrategy(t) ==
    /\ pc[t] = "get_strategy"
    /\ \/ /\ manifest[target[t]] = "stale_strategy"
          /\ Raise(t, "strategy_not_found")
       \/ /\ manifest[target[t]] = "multi"
          /\ Goto(t, "reject", "unsupported_multi_instrument")
       \/ /\ manifest[target[t]] = "single"
          /\ Goto(t, "get_snapshot", "none")
    /\ UNCHANGED <<rows, history, target, reply>>

\* Mutant: no handler around the snapshot query and the empty check, so the run
\* stays CREATED.
GetSnapshotUnhandled(t) ==
    /\ pc[t] = "get_snapshot"
    /\ \/ Goto(t, "start", "none")
       \/ Raise(t, "unresolved_instrument_mapping")
    /\ UNCHANGED <<rows, history, target, reply>>

\* The mapping of the instrument may be added between two executions, so what
\* the query finds is not a property of the run.
GetSnapshot(t) ==
    /\ pc[t] = "get_snapshot"
    /\ \/ Goto(t, "start", "none")
       \/ Goto(t, "reject", "empty_bar_snapshot")
       \/ Goto(t, "reject", "unresolved_instrument_mapping")
       \/ /\ "database" \in Faults
          /\ Goto(t, "reject", "snapshot_error")
    /\ UNCHANGED <<rows, history, target, reply>>

\* Mutant: the rejection is an UPDATE without the status guard.
RejectRunUnguarded(t) ==
    /\ pc[t] = "reject"
    /\ status' = [status EXCEPT ![target[t]] = "failed"]
    /\ failureCode' = [failureCode EXCEPT
                           ![target[t]] = FailureCodeOf(outcome[t])]
    /\ Raise(t, outcome[t])
    /\ UNCHANGED <<manifest, bundle, history, target, reply>>

RejectRun(t) ==
    /\ pc[t] = "reject"
    /\ \/ /\ TransitionStatus(target[t], "created", "failed",
                              FailureCodeOf(outcome[t]))
          /\ Raise(t, outcome[t])
       \/ StaleStatus(t, "created")
    /\ UNCHANGED <<history, target, reply>>

\* Mutant: the transition to RUNNING trusts the status that was read at entry.
StartRunUnguarded(t) ==
    /\ pc[t] = "start"
    /\ status' = [status EXCEPT ![target[t]] = "running"]
    /\ Goto(t, "engine", "none")
    /\ UNCHANGED <<failureCode, manifest, bundle, history, target, reply>>

StartRun(t) ==
    /\ pc[t] = "start"
    /\ \/ /\ TransitionStatus(target[t], "created", "running", "none")
          /\ Goto(t, "engine", "none")
       \/ StaleStatus(t, "created")
    /\ UNCHANGED <<history, target, reply>>

ExecuteEngine(t) ==
    /\ pc[t] = "engine"
    /\ \E said \in EngineOutcomes :
          /\ engineSaid' = [engineSaid EXCEPT ![target[t]] = said]
          /\ Goto(t, "finish", said)
    /\ executions' = [executions EXCEPT ![target[t]] = @ + 1]
    /\ UNCHANGED <<rows, target, reply>>

\* Mutant: a result that reports a failure is raised before it is persisted.
FinishRunFailsEarly(t) ==
    /\ pc[t] = "finish"
    /\ \/ /\ outcome[t] \in EngineFailures \cup {"engine_raised"}
          /\ TransitionStatus(target[t], "running", "failed", "engine_error")
          /\ Raise(t, "engine_execution_error")
       \/ /\ outcome[t] = "completed"
          /\ TransitionStatus(target[t], "running", "completed", "none")
          /\ Goto(t, "persist", outcome[t])
    /\ UNCHANGED <<history, target, reply>>

FinishRun(t) ==
    /\ pc[t] = "finish"
    /\ \/ /\ outcome[t] = "engine_raised"
          /\ TransitionStatus(target[t], "running", "failed", "engine_error")
          /\ Raise(t, "engine_execution_error")
       \/ /\ outcome[t] \in EngineFailures
          /\ TransitionStatus(target[t], "running", "failed", outcome[t])
          /\ Goto(t, "persist", outcome[t])
       \/ /\ outcome[t] = "completed"
          /\ TransitionStatus(target[t], "running", "completed", "none")
          /\ Goto(t, "persist", outcome[t])
       \/ StaleStatus(t, "running")
    /\ UNCHANGED <<history, target, reply>>

\* Mutant: a failure to persist is swallowed.
PersistArtifactSwallowed(t) ==
    /\ pc[t] = "persist"
    /\ \/ bundle' = [bundle EXCEPT
                         ![target[t]] = TerminalStatusOf(outcome[t])]
       \/ UNCHANGED bundle
    /\ Goto(t, "returned", outcome[t])
    /\ UNCHANGED <<status, failureCode, manifest, history, target, reply>>

\* Mutant: the bundle always records a completed run.
PersistArtifactCompleted(t) ==
    /\ pc[t] = "persist"
    /\ bundle' = [bundle EXCEPT ![target[t]] = "completed"]
    /\ Goto(t, "returned", outcome[t])
    /\ UNCHANGED <<status, failureCode, manifest, history, target, reply>>

\* build_run_artifact and one transaction; run_id is unique in the table.
PersistArtifact(t) ==
    /\ pc[t] = "persist"
    /\ \/ /\ bundle[target[t]] = "none"
          /\ bundle' = [bundle EXCEPT
                            ![target[t]] = TerminalStatusOf(outcome[t])]
          /\ Goto(t, "returned", outcome[t])
       \/ /\ bundle[target[t]] # "none"
          /\ Raise(t, "database_error")
          /\ UNCHANGED bundle
    /\ UNCHANGED <<status, failureCode, manifest, history, target, reply>>

\* A repository call (or building the artifact) raises and is rolled back.  The
\* snapshot query has its own handler: see GetSnapshot.
DatabaseError(t) ==
    /\ "database" \in Faults
    /\ pc[t] \in RepositoryCalls \ {"get_snapshot"}
    /\ Raise(t, "database_error")
    /\ UNCHANGED <<rows, history, target, reply>>

ServiceStep(t) ==
    \/ GetRun(t)
    \/ GetStrategy(t)
    \/ GetSnapshot(t)
    \/ RejectRun(t)
    \/ StartRun(t)
    \/ ExecuteEngine(t)
    \/ FinishRun(t)
    \/ PersistArtifact(t)
    \/ DatabaseError(t)

--------------------------------------------------------------------------------
(* The endpoints *)

PostRun(r) ==
    /\ \E kind \in Manifests : CreateRun(r, kind)
    /\ UNCHANGED threads

PostExecute(t, r) ==
    /\ pc[t] = "idle"
    /\ CallService(t, r)
    /\ reply' = [reply EXCEPT ![t] = NoReply]

Answer(t, answer) ==
    /\ reply' = [reply EXCEPT ![t] = answer]
    /\ Goto(t, "idle", "none")
    /\ target' = [target EXCEPT ![t] = NoRun]
    /\ UNCHANGED <<rows, history>>

\* After the service returns, the endpoint reads the run again for its answer.
AnswerExecuted(t) ==
    /\ pc[t] = "returned"
    /\ Answer(t, [code |-> 200, run |-> target[t],
                  terminal |-> TerminalStatusOf(outcome[t]),
                  status |-> status[target[t]]])

AnswerError(t) ==
    /\ \/ pc[t] = "raised"
       \/ pc[t] = "returned" /\ "database" \in Faults
    /\ Answer(t, [code |-> HttpCodeOf(outcome[t]), run |-> target[t],
                  terminal |-> "none", status |-> "none"])

\* The process ends and is started again; nothing recovers what was running.
Crash ==
    /\ "crash" \in Faults
    /\ pc' = [t \in Threads |-> "idle"]
    /\ target' = [t \in Threads |-> NoRun]
    /\ outcome' = [t \in Threads |-> "none"]
    /\ reply' = [t \in Threads |-> NoReply]
    /\ UNCHANGED <<rows, history>>

Init ==
    /\ status = [r \in Runs |-> "absent"]
    /\ failureCode = [r \in Runs |-> "none"]
    /\ manifest = [r \in Runs |-> "none"]
    /\ bundle = [r \in Runs |-> "none"]
    /\ executions = [r \in Runs |-> 0]
    /\ engineSaid = [r \in Runs |-> "none"]
    /\ pc = [t \in Threads |-> "idle"]
    /\ target = [t \in Threads |-> NoRun]
    /\ outcome = [t \in Threads |-> "none"]
    /\ reply = [t \in Threads |-> NoReply]

Handle(t) ==
    \/ ServiceStep(t)
    \/ AnswerExecuted(t)
    \/ AnswerError(t)

Next ==
    \/ \E r \in Runs : PostRun(r)
    \/ \E t \in Threads, r \in Runs : PostExecute(t, r)
    \/ \E t \in Threads : Handle(t)
    \/ Crash

Spec == Init /\ [][Next]_vars

\* A thread that entered a handler keeps running: the operating system
\* schedules it, nothing in the handler waits for another thread.  Requests
\* themselves need never come.
FairSpec == Spec /\ \A t \in Threads : WF_vars(Handle(t))

--------------------------------------------------------------------------------
(* Properties *)

\* A thread that is past the transition to RUNNING and has not given up.
Executing(t, r) == target[t] = r /\ pc[t] \in {"engine", "finish", "persist"}

\* However many clients ask for the execution of a run, and whatever fails, the
\* engine executes it at most once, and never two threads are past the
\* transition to RUNNING of the same run (execute_backtest_run checks the status
\* long before it changes it; only the guarded UPDATE makes this true).
EngineRunsOnce ==
    /\ \A r \in Runs : executions[r] <= 1
    /\ \A r \in Runs, t1, t2 \in Threads :
          Executing(t1, r) /\ Executing(t2, r) => t1 = t2

\* The stored verdict on a run is the engine's: a run is completed only when
\* its engine said so, a run that reached the engine never carries the failure
\* code of a rejection by another thread, and the artifact bundle, if there is
\* one, records the same terminal status as the run's row.
VerdictIsTheEngines ==
    \A r \in Runs :
        /\ status[r] = "completed" => engineSaid[r] = "completed"
        /\ status[r] \in {"running", "completed"} => failureCode[r] = "none"
        /\ status[r] = "failed" /\ engineSaid[r] # "none" =>
              failureCode[r] = IF engineSaid[r] = "engine_raised"
                               THEN "engine_error" ELSE engineSaid[r]
        /\ bundle[r] # "none" =>
              /\ bundle[r] = status[r]
              /\ engineSaid[r] # "engine_raised"

\* A client that got 200 can rely on what it read: the status in the answer is
\* the terminal status the engine returned, and both the row and the artifact
\* bundle say so from then on.
AnswersAreDurable ==
    \A t \in Threads :
        reply[t].code = 200 =>
            /\ reply[t].status = reply[t].terminal
            /\ status[reply[t].run] = reply[t].terminal
            /\ bundle[reply[t].run] = reply[t].terminal

\* The phase of a run as its readers may think of it.
Phase(r) ==
    IF status[r] # "failed" THEN status[r]
    ELSE CASE engineSaid[r] = "none" -> "rejected"
           [] engineSaid[r] = "engine_raised" -> "aborted"
           [] OTHER -> "failed"

Lifecycle == INSTANCE RunLifecycle WITH phase <- [r \in Runs |-> Phase(r)]

\* Execution implements the life cycle of RunLifecycle, whatever fails: no step
\* goes back, and a bundle is written once, after the verdict it agrees with.
ImplementsLifecycle == Lifecycle!Spec

\* Without faults execution also implements the life cycle's promise that a run
\* that was started is finished and its bundle published.
ImplementsFairLifecycle == Lifecycle!FairSpec

\* Without faults, asking for the execution of a run settles it: unless its
\* strategy row is unusable, the run ends in a terminal status, also when
\* other threads are executing the same run.
ExecuteSettles ==
    \A t \in Threads, r \in Runs :
        (pc[t] = "get_run" /\ target[t] = r
            /\ status[r] = "created" /\ manifest[r] # "stale_strategy")
        ~> status[r] \in Terminal
================================================================================

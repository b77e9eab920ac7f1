------------------------ MODULE OptimizationExecution ------------------------
(***************************************************************************)
(* Executing a parameter optimization:                                     *)
(* POST /optimizations/{optimization_id}:execute.                          *)
(*                                                                         *)
(* The optimizer is a client of the run service inside the same process:   *)
(* for every candidate of the grid it creates and executes a train and a   *)
(* validation run, selects a candidate by the validation objective, and    *)
(* runs that candidate once on the holdout period.  It drives the actions  *)
(* of RunExecution with its own thread, while other clients may execute    *)
(* the same runs by identifier, because GET /backtest-runs lists them.     *)
(*                                                                         *)
(* One optimization is modelled: two of them share no row.                 *)
(***************************************************************************)
EXTENDS RunExecution, FiniteSets

CONSTANTS
    Optimizers,     \* the threads that serve requests for the optimization;
                    \* the other threads serve requests for runs
    FastWindows,    \* the declared grid
    SlowWindows,
    Objectives,     \* the values of the objective that runs can yield
    Runnable        \* the sets of periods for which create_run_manifest may
                    \* accept the manifest, see OptInit

ASSUME OptimizersAssumption == Optimizers \subseteq Threads
\* validate_grid_inputs
ASSUME GridAssumption ==
    /\ FastWindows \subseteq Nat \ {0} /\ FastWindows # {}
    /\ SlowWindows \subseteq Nat \ {0} /\ SlowWindows # {}
    /\ IsFiniteSet(FastWindows) /\ IsFiniteSet(SlowWindows)
\* Only the order of the values matters; zero stands for "not available".
ASSUME ObjectivesAssumption == Objectives \subseteq Nat \ {0}
\* The validation period lies between the others, so that it is within the
\* coverage if one of them is.
ASSUME RunnableAssumption ==
    /\ Runnable \subseteq SUBSET {"train", "validation", "holdout"}
    /\ \A L \in Runnable : "validation" \notin L => L = {}

VARIABLES
    optStatus,    \* optimizations.status
    optFailure,   \* optimizations.failure_code
    candidate,    \* the rows of optimization_candidates
    selection,    \* selected_candidate_id and selection_audit_json
    holdout,      \* holdout_run_id and holdout_objective_value
    runFor,       \* the period and the candidate in the manifest of a run
    derived,      \* candidates with a strategy specification of their own
    runnable,     \* the periods for which it does, for this optimization
    op,           \* the next step of a thread inside execute_optimization
    local         \* its local variables

optRows == <<optStatus, optFailure, candidate, selection, holdout>>
optVars == <<optStatus, optFailure, candidate, selection, holdout, runFor,
             derived, runnable, op, local>>
runVars == <<rows, history, threads>>
allVars == <<vars, optVars>>

--------------------------------------------------------------------------------
(* Values *)

\* A candidate is the pair of its windows.
Candidates == FastWindows \X SlowWindows
NoCandidate == <<0, 0>>
Fast(c) == c[1]
Slow(c) == c[2]

IsValidCandidatePair(c) == Fast(c) < Slow(c)

\* canonicalize_grid: candidates are evaluated in lexicographic order.
Precedes(c, d) == \/ Fast(c) < Fast(d)
                  \/ Fast(c) = Fast(d) /\ Slow(c) < Slow(d)

FirstOf(todo) == CHOOSE c \in todo : \A d \in todo \ {c} : Precedes(c, d)

OptStatuses == {"created", "validating", "running_train_validation",
                "selecting", "running_holdout", "completed", "failed",
                "cancelled"}

OptAllowed ==
    [created                  |-> {"validating", "cancelled", "failed"},
     validating               |-> {"running_train_validation", "failed"},
     running_train_validation |-> {"selecting", "failed"},
     selecting                |-> {"running_holdout", "failed"},
     running_holdout          |-> {"completed", "failed"},
     completed                |-> {},
     failed                   |-> {},
     cancelled                |-> {}]

OptTerminal == {s \in OptStatuses : OptAllowed[s] = {}}

CandidateStatuses == {"pending", "rejected", "completed", "failed"}

NotAvailable == 0

Legs == {"train", "validation", "holdout"}

CandidateRows ==
    [status : CandidateStatuses, train : Runs \cup {NoRun},
     validation : Runs \cup {NoRun}, objective : Objectives \cup {NotAvailable}]

\* What the selection sees of a candidate, and what its audit records.
AuditOf(rowsOf) ==
    {[id |-> c, status |-> rowsOf[c].status, objective |-> rowsOf[c].objective] :
        c \in Candidates}

AuditEntries == [id : Candidates, status : CandidateStatuses,
                 objective : Objectives \cup {NotAvailable}]

Eligible(audit) == {e \in audit : /\ e.status = "completed"
                                  /\ e.objective # NotAvailable}

\* Mutant: the objective is not compared at all.
BeatsByWindows(e, f) ==
    \/ Slow(e.id) < Slow(f.id)
    \/ Slow(e.id) = Slow(f.id) /\ Fast(e.id) < Fast(f.id)

\* The order of select_candidate: highest objective, then lower slow window,
\* then lower fast window.
Beats(e, f) ==
    \/ e.objective > f.objective
    \/ /\ e.objective = f.objective
       /\ \/ Slow(e.id) < Slow(f.id)
          \/ Slow(e.id) = Slow(f.id) /\ Fast(e.id) < Fast(f.id)

SelectCandidate(audit) ==
    IF Eligible(audit) = {} THEN NoCandidate
    ELSE (CHOOSE e \in Eligible(audit) :
              \A f \in Eligible(audit) \ {e} : Beats(e, f)).id

Calls == {"get", "validate", "begin", "list", "spec", "create", "record",
          "select", "relist", "decide", "no_eligible", "start_holdout",
          "record_holdout", "complete", "reread", "fail"}

\* The calls inside the two try blocks, whose exceptions fail the optimization.
Guarded == {"spec", "create", "record"}

Ops == Calls \cup {"idle", "execute", "raised"}

NoLocal == [todo |-> {}, current |-> NoCandidate, leg |-> "none",
            run |-> [l \in Legs |-> NoRun], failed |-> FALSE, audit |-> {}]

Locals == [todo : SUBSET Candidates, current : Candidates \cup {NoCandidate},
           leg : Legs \cup {"none"}, run : [Legs -> Runs \cup {NoRun}],
           failed : BOOLEAN, audit : SUBSET AuditEntries]

OptTypeOK ==
    /\ TypeOK
    /\ optStatus \in OptStatuses
    /\ optFailure \in {"none", "unexpected_error", "no_eligible_candidate"}
    /\ candidate \in [Candidates -> CandidateRows]
    /\ selection \in [choice : Candidates \cup {NoCandidate},
                      audit : SUBSET AuditEntries]
    /\ holdout \in [run : Runs \cup {NoRun},
                    objective : Objectives \cup {NotAvailable}]
    /\ runFor \in [Runs -> (Legs \X Candidates) \cup {<<"none", NoCandidate>>}]
    /\ derived \subseteq Candidates
    /\ runnable \subseteq Legs
    /\ op \in [Optimizers -> Ops]
    /\ local \in [Optimizers -> Locals]

--------------------------------------------------------------------------------
(* The steps of execute_optimization *)

GoOn(t, label, locals) ==
    /\ op' = [op EXCEPT ![t] = label]
    /\ local' = [local EXCEPT ![t] = locals]

RaiseOut(t) == GoOn(t, "raised", local[t])

\* transition_status of the optimization repository.
TransitionOpt(from, to, code) ==
    /\ to \in OptAllowed[from]
    /\ optStatus = from
    /\ optStatus' = to
    /\ optFailure' = IF code = "none" THEN optFailure ELSE code
    /\ UNCHANGED <<candidate, selection, holdout>>

\* A transition that leads on to label next, or finds another status and raises.
TransitionOrRaise(t, from, to, code, next, locals) ==
    /\ \/ TransitionOpt(from, to, code) /\ GoOn(t, next, locals)
       \/ optStatus # from /\ RaiseOut(t) /\ UNCHANGED optRows
    /\ UNCHANGED <<runVars, runFor, derived, runnable>>

PostOptimize(t) ==
    /\ op[t] = "idle"
    /\ GoOn(t, "get", NoLocal)
    /\ UNCHANGED <<runVars, optRows, runFor, derived, runnable>>

GetOptimization(t) ==
    /\ op[t] = "get"
    /\ \/ optStatus = "created" /\ GoOn(t, "validate", NoLocal)
       \/ optStatus # "created" /\ RaiseOut(t)
    /\ UNCHANGED <<runVars, optRows, runFor, derived, runnable>>

\* Mutant: the status that was read is trusted when it is changed.
StartValidatingUnguarded(t) ==
    /\ op[t] = "validate"
    /\ optStatus' = "validating"
    /\ GoOn(t, "begin", NoLocal)
    /\ UNCHANGED <<optFailure, candidate, selection, holdout>>
    /\ UNCHANGED <<runVars, runFor, derived, runnable>>

StartValidating(t) ==
    /\ op[t] = "validate"
    /\ TransitionOrRaise(t, "created", "validating", "none", "begin", NoLocal)

StartTrainValidation(t) ==
    /\ op[t] = "begin"
    /\ TransitionOrRaise(t, "validating", "running_train_validation", "none",
                         "list", NoLocal)

\* The head of the loop over the candidates.
TakeNext(t, todo) ==
    IF todo = {} THEN GoOn(t, "select", NoLocal)
    ELSE GoOn(t, "spec", [NoLocal EXCEPT !.todo = todo \ {FirstOf(todo)},
                                         !.current = FirstOf(todo),
                                         !.leg = "train"])

ListCandidates(t) ==
    /\ op[t] = "list"
    /\ TakeNext(t, {c \in Candidates : candidate[c].status = "pending"})
    /\ UNCHANGED <<runVars, optRows, runFor, derived, runnable>>

CreateStrategySpec(t) ==
    /\ op[t] = "spec"
    /\ derived' = derived \cup {local[t].current}
    /\ GoOn(t, "create", local[t])
    /\ UNCHANGED <<runVars, optRows, runFor, runnable>>

\* Identifiers are random; which unused one is drawn makes no difference.
FreshRun == CHOOSE r \in Runs : status[r] = "absent"

\* The first half of _run_period: create_run_manifest checks the period and the
\* amounts only now and may reject them.
CreatePeriodRun(t) ==
    LET leg == local[t].leg IN
    /\ op[t] = "create"
    /\ \/ /\ leg \in runnable
          /\ FreshRun \in Runs
          /\ CreateRun(FreshRun, "single")
          /\ runFor' = [runFor EXCEPT ![FreshRun] = <<leg, local[t].current>>]
          /\ GoOn(t, "execute", [local[t] EXCEPT !.run[leg] = FreshRun])
       \/ /\ leg \notin runnable
          /\ GoOn(t, "fail", local[t])
          /\ UNCHANGED <<rows, history, runFor>>
    /\ UNCHANGED <<threads, optRows, derived, runnable>>

\* The second half: execute_backtest_run on the same thread.
EnterService(t) ==
    /\ op[t] = "execute" /\ pc[t] = "idle"
    /\ CallService(t, local[t].run[local[t].leg])
    /\ UNCHANGED <<reply, optVars>>

InService(t) ==
    /\ op[t] = "execute"
    /\ ServiceStep(t)
    /\ UNCHANGED optVars

LeaveService(t) ==
    /\ Goto(t, "idle", "none")
    /\ target' = [target EXCEPT ![t] = NoRun]
    /\ UNCHANGED <<rows, history, reply, optRows, runFor, derived, runnable>>

\* Mutant: a holdout run that raised is tried again.
ServiceRaisedRetried(t) ==
    /\ op[t] = "execute" /\ pc[t] = "raised"
    /\ GoOn(t, IF local[t].leg = "holdout" THEN "create" ELSE "fail", local[t])
    /\ LeaveService(t)

\* Mutant: an exception of the service escapes the optimizer as it is.
ServiceRaisedUnhandled(t) ==
    /\ op[t] = "execute" /\ pc[t] = "raised"
    /\ RaiseOut(t)
    /\ LeaveService(t)

\* Any exception of the service fails the optimization.
ServiceRaised(t) ==
    /\ op[t] = "execute" /\ pc[t] = "raised"
    /\ GoOn(t, "fail", local[t])
    /\ LeaveService(t)

Failed(t) == TerminalStatusOf(outcome[t]) = "failed"

\* Mutant: the result of the train run is ignored, and a failed candidate whose
\* validation succeeded counts as completed.
TrainReturnedIgnored(t) ==
    /\ op[t] = "execute" /\ pc[t] = "returned" /\ local[t].leg = "train"
    /\ GoOn(t, "create", [local[t] EXCEPT !.leg = "validation"])
    /\ LeaveService(t)

TrainReturned(t) ==
    /\ op[t] = "execute" /\ pc[t] = "returned" /\ local[t].leg = "train"
    /\ IF Failed(t)
       THEN GoOn(t, "record", [local[t] EXCEPT !.failed = TRUE])
       ELSE GoOn(t, "create", [local[t] EXCEPT !.leg = "validation"])
    /\ LeaveService(t)

ValidationReturned(t) ==
    /\ op[t] = "execute" /\ pc[t] = "returned" /\ local[t].leg = "validation"
    /\ GoOn(t, "record", [local[t] EXCEPT !.failed = Failed(t)])
    /\ LeaveService(t)

HoldoutReturned(t) ==
    /\ op[t] = "execute" /\ pc[t] = "returned" /\ local[t].leg = "holdout"
    /\ GoOn(t, "record_holdout", [local[t] EXCEPT !.failed = Failed(t)])
    /\ LeaveService(t)

\* _objective_from_run reads the metrics of a run that did not fail; the
\* objective may be missing from these too, and is from a run without a bundle.
ObjectivesOf(t) ==
    IF local[t].failed \/ bundle[local[t].run[local[t].leg]] # "completed"
    THEN {NotAvailable} ELSE Objectives \cup {NotAvailable}

\* record_candidate_result, preceded by the reads of the runs' warnings and
\* metrics, and followed by the head of the loop.
RecordCandidate(t) ==
    /\ op[t] = "record"
    /\ \E objective \in ObjectivesOf(t) :
          candidate' = [candidate EXCEPT ![local[t].current] =
              [status |-> IF local[t].failed THEN "failed" ELSE "completed",
               train |-> local[t].run["train"],
               validation |-> local[t].run["validation"],
               objective |-> objective]]
    /\ TakeNext(t, local[t].todo)
    /\ UNCHANGED <<optStatus, optFailure, selection, holdout>>
    /\ UNCHANGED <<runVars, runFor, derived, runnable>>

StartSelecting(t) ==
    /\ op[t] = "select"
    /\ TransitionOrRaise(t, "running_train_validation", "selecting", "none",
                         "relist", NoLocal)

ListForSelection(t) ==
    /\ op[t] = "relist"
    /\ GoOn(t, "decide", [NoLocal EXCEPT !.audit = AuditOf(candidate)])
    /\ UNCHANGED <<runVars, optRows, runFor, derived, runnable>>

RecordSelection(t) ==
    LET choice == SelectCandidate(local[t].audit) IN
    /\ op[t] = "decide"
    /\ selection' = [choice |-> choice, audit |-> local[t].audit]
    /\ IF choice = NoCandidate
       THEN GoOn(t, "no_eligible", NoLocal)
       ELSE GoOn(t, "start_holdout", [NoLocal EXCEPT !.current = choice,
                                                     !.leg = "holdout"])
    /\ UNCHANGED <<optStatus, optFailure, candidate, holdout>>
    /\ UNCHANGED <<runVars, runFor, derived, runnable>>

FailNoEligible(t) ==
    /\ op[t] = "no_eligible"
    /\ TransitionOrRaise(t, "selecting", "failed", "no_eligible_candidate",
                         "reread", NoLocal)

StartHoldout(t) ==
    /\ op[t] = "start_holdout"
    /\ TransitionOrRaise(t, "selecting", "running_holdout", "none",
                         "create", local[t])

\* Mutant: the objective of the selected candidate is refreshed with the
\* result of the holdout.
RecordHoldoutRefreshes(t) ==
    /\ op[t] = "record_holdout"
    /\ \E objective \in ObjectivesOf(t) :
          /\ holdout' = [run |-> local[t].run["holdout"],
                         objective |-> objective]
          /\ candidate' = [candidate EXCEPT
                               ![local[t].current].objective = objective]
    /\ GoOn(t, "complete", local[t])
    /\ UNCHANGED <<optStatus, optFailure, selection>>
    /\ UNCHANGED <<runVars, runFor, derived, runnable>>

RecordHoldout(t) ==
    /\ op[t] = "record_holdout"
    /\ \E objective \in ObjectivesOf(t) :
          holdout' = [run |-> local[t].run["holdout"], objective |-> objective]
    /\ GoOn(t, "complete", local[t])
    /\ UNCHANGED <<optStatus, optFailure, candidate, selection>>
    /\ UNCHANGED <<runVars, runFor, derived, runnable>>

CompleteOptimization(t) ==
    /\ op[t] = "complete"
    /\ TransitionOrRaise(t, "running_holdout", "completed", "none",
                         "reread", NoLocal)

\* _try_fail swallows a stale status, and the exception goes on either way.
TryFail(t) ==
    LET from == IF local[t].leg = "holdout" THEN "running_holdout"
                ELSE "running_train_validation"
    IN  /\ op[t] = "fail"
        /\ \/ TransitionOpt(from, "failed", "unexpected_error")
           \/ optStatus # from /\ UNCHANGED optRows
        /\ RaiseOut(t)
        /\ UNCHANGED <<runVars, runFor, derived, runnable>>

\* A repository call raises.
OptDatabaseError(t) ==
    /\ "database" \in Faults
    /\ op[t] \in Calls
    /\ GoOn(t, IF op[t] \in Guarded THEN "fail" ELSE "raised", local[t])
    /\ UNCHANGED <<runVars, optRows, runFor, derived, runnable>>

AnswerOptimize(t) ==
    /\ op[t] \in {"reread", "raised"}
    /\ GoOn(t, "idle", NoLocal)
    /\ UNCHANGED <<runVars, optRows, runFor, derived, runnable>>

OptimizerStep(t) ==
    \/ GetOptimization(t) \/ StartValidating(t) \/ StartTrainValidation(t)
    \/ ListCandidates(t) \/ CreateStrategySpec(t) \/ CreatePeriodRun(t)
    \/ EnterService(t) \/ InService(t) \/ ServiceRaised(t)
    \/ TrainReturned(t) \/ ValidationReturned(t) \/ HoldoutReturned(t)
    \/ RecordCandidate(t) \/ StartSelecting(t) \/ ListForSelection(t)
    \/ RecordSelection(t) \/ FailNoEligible(t) \/ StartHoldout(t)
    \/ RecordHoldout(t) \/ CompleteOptimization(t) \/ TryFail(t)
    \/ OptDatabaseError(t) \/ AnswerOptimize(t)

\* Another client executes a run it found in the list of runs.
ClientStep(t) ==
    /\ \/ \E r \in Runs : status[r] # "absent" /\ PostExecute(t, r)
       \/ Handle(t)
    /\ UNCHANGED optVars

CrashAll ==
    /\ Crash
    /\ op' = [t \in Optimizers |-> "idle"]
    /\ local' = [t \in Optimizers |-> NoLocal]
    /\ UNCHANGED <<optRows, runFor, derived, runnable>>

\* After POST /optimizations: the candidates are inserted with the manifest.
\* Creation does not check the coverage of the dataset at the ends of the train
\* and holdout periods, nor the amounts.
OptInit ==
    /\ Init
    /\ optStatus = "created"
    /\ optFailure = "none"
    /\ candidate = [c \in Candidates |->
           [status |-> IF IsValidCandidatePair(c) THEN "pending" ELSE "rejected",
            train |-> NoRun, validation |-> NoRun, objective |-> NotAvailable]]
    /\ selection = [choice |-> NoCandidate, audit |-> {}]
    /\ holdout = [run |-> NoRun, objective |-> NotAvailable]
    /\ runFor = [r \in Runs |-> <<"none", NoCandidate>>]
    /\ derived = {}
    /\ runnable \in Runnable
    /\ op = [t \in Optimizers |-> "idle"]
    /\ local = [t \in Optimizers |-> NoLocal]

OptNext ==
    \/ \E t \in Optimizers : PostOptimize(t) \/ OptimizerStep(t)
    \/ \E t \in Threads \ Optimizers : ClientStep(t)
    \/ CrashAll

OptSpec == OptInit /\ [][OptNext]_allVars

\* As for runs: a thread that serves a request keeps running.
OptFairSpec ==
    /\ OptSpec
    /\ \A t \in Optimizers : WF_allVars(OptimizerStep(t))
    /\ \A t \in Threads \ Optimizers : WF_allVars(ClientStep(t) /\ Handle(t))

--------------------------------------------------------------------------------
(* Properties *)

Driving(t) == op[t] \notin {"idle", "get", "validate", "raised", "reread"}

\* Two requests to execute the optimization never both drive it: candidates are
\* not evaluated twice and the holdout is not run twice, although the status is
\* read long before it is changed and no result is recorded under a guard.
OneDriver ==
    \A t1, t2 \in Optimizers : Driving(t1) /\ Driving(t2) => t1 = t2

HoldoutRuns == {r \in Runs : runFor[r][1] = "holdout"}

\* ADR-009: the holdout is sealed from the selection and evaluated at most once,
\* for the selected candidate.  No run over the holdout period exists, let alone
\* executes, before the selection is stored; there is never a second one.
HoldoutIsSealed ==
    /\ \A r \in HoldoutRuns :
          /\ selection.choice # NoCandidate
          /\ runFor[r][2] = selection.choice
    /\ \A r1, r2 \in HoldoutRuns : r1 = r2

\* ADR-009 as an abstract specification: what the rows and the runs of the
\* optimization show, with every guard that keeps the holdout sealed.
Sealed == INSTANCE SealedHoldout WITH
    Nobody   <- NoCandidate,
    Scores   <- Objectives,
    Unscored <- NotAvailable,
    Prefers  <- LAMBDA c, d : \/ Slow(c) < Slow(d)
                              \/ Slow(c) = Slow(d) /\ Fast(c) < Fast(d),
    judged   <- {c \in Candidates : candidate[c].status # "pending"},
    score    <- [c \in Candidates |-> candidate[c].objective],
    decided  <- selection.audit # {},
    choice   <- selection.choice,
    opened   <- {<<r, runFor[r][2]>> : r \in HoldoutRuns},
    result   <- holdout,
    outcome  <- IF optStatus \in {"completed", "failed"} THEN optStatus ELSE "open"

\* Whatever other requests, crashes and database errors there are, the rows take
\* the path of SealedHoldout: all judged, then one best chosen, then the holdout
\* opened once for it, then the end, after which nothing changes.
ImplementsSealedHoldout == Sealed!Spec

\* The rows as the selection has to see them.
Ranked == {c \in Candidates : candidate[c].status = "completed"
                              /\ candidate[c].objective # NotAvailable}

\* The selected candidate is the best of all candidates as their rows are once
\* the optimization has moved on (not as they were when they were listed), by
\* objective, then slow window, then fast window; the audit of the selection says
\* what the rows say; and an optimization fails for want of an eligible candidate
\* only when there is none.
SelectionIsBest ==
    /\ selection.audit # {} => selection.audit = AuditOf(candidate)
    /\ optStatus \in {"running_holdout", "completed"} =>
          /\ selection.choice \in Ranked
          /\ \A c \in Ranked :
                LET best == candidate[selection.choice].objective
                    other == candidate[c].objective
                IN  /\ other <= best
                    /\ other = best => Slow(selection.choice) <= Slow(c)
                    /\ other = best /\ Slow(selection.choice) = Slow(c) =>
                           Fast(selection.choice) <= Fast(c)
    /\ optFailure = "no_eligible_candidate" => Ranked = {}

IsEvidence(r, leg, c, terminal) ==
    /\ r \in Runs /\ runFor[r] = <<leg, c>>
    /\ status[r] \in terminal
    /\ bundle[r] = status[r]

\* A completed optimization is backed by artifacts: no candidate is pending,
\* every completed candidate has its own completed train and validation run with
\* their bundles, and the holdout run of the selected candidate is terminal and
\* published.  However it ends, the result of at most one candidate that was
\* attempted is missing: the one whose evaluation raised, whose row stays pending.
CompletedIsEvidenced ==
    /\ \A c, d \in derived :
          candidate[c].status = "pending" /\ candidate[d].status = "pending" => c = d
    /\ optStatus = "completed" =>
        /\ \A c \in Candidates :
              /\ candidate[c].status # "pending"
              /\ candidate[c].status = "completed" =>
                   /\ IsEvidence(candidate[c].train, "train", c, {"completed"})
                   /\ IsEvidence(candidate[c].validation, "validation", c,
                                 {"completed"})
        /\ IsEvidence(holdout.run, "holdout", selection.choice,
                      {"completed", "failed"})

\* Without faults every request to execute a created optimization ends it, also
\* when other clients execute its runs in between.
OptimizationSettles ==
    \A t \in Optimizers :
        (op[t] = "get" /\ optStatus = "created") ~> optStatus \in OptTerminal
================================================================================

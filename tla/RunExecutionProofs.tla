-------------------------- MODULE RunExecutionProofs --------------------------
(***************************************************************************)
(* Proofs about RunExecution for every set of threads and runs and every   *)
(* combination of faults.                                                  *)
(***************************************************************************)
EXTENDS RunExecution, TLAPS

(* What is true of a run's row between any two steps. *)
RunInv(r) ==
    /\ executions[r] \in {0, 1}
    /\ executions[r] = 0 <=> engineSaid[r] = "none"
    /\ status[r] \in {"absent", "created"} =>
          engineSaid[r] = "none" /\ bundle[r] = "none"
    /\ status[r] # "failed" => failureCode[r] = "none"
    /\ status[r] = "running" => bundle[r] = "none"
    /\ status[r] = "completed" => engineSaid[r] = "completed"
    /\ status[r] = "failed" /\ engineSaid[r] # "none" =>
          /\ engineSaid[r] # "completed"
          /\ failureCode[r] = IF engineSaid[r] = "engine_raised"
                              THEN "engine_error" ELSE engineSaid[r]
    /\ bundle[r] # "none" =>
          bundle[r] = status[r] /\ engineSaid[r] \in EngineResults
    /\ status[r] # "cancelled"

(* What a thread at a given label knows about its run. *)
ThreadInv(t) ==
    LET r == target[t] IN
    /\ pc[t] # "idle" => r \in Runs
    /\ pc[t] = "reject" => outcome[t] \in Rejections
    /\ pc[t] = "raised" => outcome[t] \in Errors
    /\ pc[t] = "engine" => status[r] = "running" /\ engineSaid[r] = "none"
    /\ pc[t] = "finish" => /\ status[r] = "running"
                           /\ outcome[t] \in EngineOutcomes
                           /\ engineSaid[r] = outcome[t]
    /\ pc[t] = "persist" => /\ outcome[t] \in EngineResults
                            /\ status[r] = TerminalStatusOf(outcome[t])
                            /\ engineSaid[r] = outcome[t]
                            /\ bundle[r] = "none"
    /\ pc[t] = "returned" => /\ outcome[t] \in EngineResults
                             /\ status[r] = TerminalStatusOf(outcome[t])
                             /\ bundle[r] = TerminalStatusOf(outcome[t])

(* A run has one thread past the transition to RUNNING at most. *)
SoleExecutor ==
    \A r \in Runs, t1, t2 \in Threads :
        Executing(t1, r) /\ Executing(t2, r) => t1 = t2

(* What an answer of 200 promised stays true. *)
AnswerInv(t) ==
    reply[t].code = 200 =>
        /\ reply[t].run \in Runs
        /\ reply[t].terminal \in {"completed", "failed"}
        /\ reply[t].status = reply[t].terminal
        /\ status[reply[t].run] = reply[t].terminal
        /\ bundle[reply[t].run] = reply[t].terminal

IInv ==
    /\ TypeOK
    /\ \A r \in Runs : RunInv(r)
    /\ \A t \in Threads : ThreadInv(t)
    /\ SoleExecutor
    /\ \A t \in Threads : AnswerInv(t)

--------------------------------------------------------------------------------
(* Facts about the value sets *)

LEMMA TerminalStatuses == Terminal = {"completed", "failed", "cancelled"}
  BY DEF Terminal, Statuses, AllowedTransitions

LEMMA HttpCodes ==
    ASSUME NEW error
    PROVE  HttpCodeOf(error) \in {404, 409, 422, 500}
  BY DEF HttpCodeOf

LEMMA InitIInv == Init => IInv
<1> SUFFICES ASSUME Init PROVE IInv
  OBVIOUS
<1>1. NoReply \in Replies
  BY TerminalStatuses DEF NoReply, Replies
<1>2. TypeOK
  BY <1>1 DEF Init, TypeOK, Labels, FailureCodes
<1>3. \A r \in Runs : RunInv(r)
  BY DEF Init, RunInv
<1>4. \A t \in Threads : ThreadInv(t)
  BY DEF Init, ThreadInv
<1>0. \A t \in Threads : AnswerInv(t)
  BY DEF Init, AnswerInv, NoReply
<1>5. SoleExecutor
  BY DEF Init, SoleExecutor, Executing
<1>6. QED
  BY <1>2, <1>3, <1>4, <1>0, <1>5 DEF IInv

--------------------------------------------------------------------------------
(* One lemma per action of a thread.                                       *)

LEMMA GetRunStep ==
    ASSUME IInv, NEW t \in Threads, GetRun(t)
    PROVE  IInv'
<1> DEFINE r == target[t]
<1>1. TypeOK'
  BY DEF IInv, TypeOK, ThreadInv, GetRun, Raise, Goto, rows, history,
         Labels, RepositoryCalls, Errors, Rejections, EngineOutcomes,
         EngineResults, EngineFailures, FailureCodes, Statuses,
         TerminalStatusOf
<1>2. ASSUME NEW q \in Runs PROVE RunInv(q)'
  BY <1>2 DEF IInv, TypeOK, RunInv, ThreadInv, GetRun, Raise, Goto, rows, history,
              TerminalStatusOf, Rejections, EngineOutcomes, EngineResults,
              EngineFailures
<1>3. ASSUME NEW u \in Threads PROVE ThreadInv(u)'
  BY <1>3 DEF IInv, TypeOK, RunInv, ThreadInv, SoleExecutor, Executing,
              GetRun, Raise, Goto, rows, history, TerminalStatusOf, Rejections,
              EngineOutcomes, EngineResults, EngineFailures, Errors
<1>4. SoleExecutor'
  BY DEF IInv, TypeOK, ThreadInv, SoleExecutor, Executing, GetRun, Raise, Goto, rows, history
<1>5. ASSUME NEW u \in Threads PROVE AnswerInv(u)'
  BY <1>5 DEF IInv, TypeOK, RunInv, ThreadInv, AnswerInv,
              GetRun, Raise, Goto, rows, history, TerminalStatusOf, EngineResults,
              EngineFailures
<1>6. QED
  BY <1>1, <1>2, <1>3, <1>4, <1>5 DEF IInv

LEMMA GetStrategyStep ==
    ASSUME IInv, NEW t \in Threads, GetStrategy(t)
    PROVE  IInv'
<1> DEFINE r == target[t]
<1>1. TypeOK'
  BY DEF IInv, TypeOK, ThreadInv, GetStrategy, Raise, Goto, rows, history,
         Labels, RepositoryCalls, Errors, Rejections, EngineOutcomes,
         EngineResults, EngineFailures, FailureCodes, Statuses,
         TerminalStatusOf
<1>2. ASSUME NEW q \in Runs PROVE RunInv(q)'
  BY <1>2 DEF IInv, TypeOK, RunInv, ThreadInv, GetStrategy, Raise, Goto, rows, history,
              TerminalStatusOf, Rejections, EngineOutcomes, EngineResults,
              EngineFailures
<1>3. ASSUME NEW u \in Threads PROVE ThreadInv(u)'
  BY <1>3 DEF IInv, TypeOK, RunInv, ThreadInv, SoleExecutor, Executing,
              GetStrategy, Raise, Goto, rows, history, TerminalStatusOf, Rejections,
              EngineOutcomes, EngineResults, EngineFailures, Errors
<1>4. SoleExecutor'
  BY DEF IInv, TypeOK, ThreadInv, SoleExecutor, Executing, GetStrategy, Raise, Goto, rows, history
<1>5. ASSUME NEW u \in Threads PROVE AnswerInv(u)'
  BY <1>5 DEF IInv, TypeOK, RunInv, ThreadInv, AnswerInv,
              GetStrategy, Raise, Goto, rows, history, TerminalStatusOf, EngineResults,
              EngineFailures
<1>6. QED
  BY <1>1, <1>2, <1>3, <1>4, <1>5 DEF IInv

LEMMA GetSnapshotStep ==
    ASSUME IInv, NEW t \in Threads, GetSnapshot(t)
    PROVE  IInv'
<1> DEFINE r == target[t]
<1>1. TypeOK'
  BY DEF IInv, TypeOK, ThreadInv, GetSnapshot, Goto, rows, history,
         Labels, RepositoryCalls, Errors, Rejections, EngineOutcomes,
         EngineResults, EngineFailures, FailureCodes, Statuses,
         TerminalStatusOf
<1>2. ASSUME NEW q \in Runs PROVE RunInv(q)'
  BY <1>2 DEF IInv, TypeOK, RunInv, ThreadInv, GetSnapshot, Goto, rows, history,
              TerminalStatusOf, Rejections, EngineOutcomes, EngineResults,
              EngineFailures
<1>3. ASSUME NEW u \in Threads PROVE ThreadInv(u)'
  BY <1>3 DEF IInv, TypeOK, RunInv, ThreadInv, SoleExecutor, Executing,
              GetSnapshot, Goto, rows, history, TerminalStatusOf, Rejections,
              EngineOutcomes, EngineResults, EngineFailures, Errors
<1>4. SoleExecutor'
  BY DEF IInv, TypeOK, ThreadInv, SoleExecutor, Executing, GetSnapshot, Goto, rows, history
<1>5. ASSUME NEW u \in Threads PROVE AnswerInv(u)'
  BY <1>5 DEF IInv, TypeOK, RunInv, ThreadInv, AnswerInv,
              GetSnapshot, Goto, rows, history, TerminalStatusOf, EngineResults,
              EngineFailures
<1>6. QED
  BY <1>1, <1>2, <1>3, <1>4, <1>5 DEF IInv

LEMMA RejectRunStep ==
    ASSUME IInv, NEW t \in Threads, RejectRun(t)
    PROVE  IInv'
<1> DEFINE r == target[t]
<1>1. TypeOK'
  BY DEF IInv, TypeOK, ThreadInv, RejectRun, TransitionStatus, StaleStatus, Raise, Goto, rows, history, FailureCodeOf, AllowedTransitions,
         Labels, RepositoryCalls, Errors, Rejections, EngineOutcomes,
         EngineResults, EngineFailures, FailureCodes, Statuses,
         TerminalStatusOf
<1>2. ASSUME NEW q \in Runs PROVE RunInv(q)'
  BY <1>2 DEF IInv, TypeOK, RunInv, ThreadInv, RejectRun, TransitionStatus, StaleStatus, Raise, Goto, rows, history, FailureCodeOf, AllowedTransitions,
              TerminalStatusOf, Rejections, EngineOutcomes, EngineResults,
              EngineFailures
<1>3. ASSUME NEW u \in Threads PROVE ThreadInv(u)'
  BY <1>3 DEF IInv, TypeOK, RunInv, ThreadInv, SoleExecutor, Executing,
              RejectRun, TransitionStatus, StaleStatus, Raise, Goto, rows, history, FailureCodeOf, AllowedTransitions, TerminalStatusOf, Rejections,
              EngineOutcomes, EngineResults, EngineFailures, Errors
<1>4. SoleExecutor'
  BY DEF IInv, TypeOK, ThreadInv, SoleExecutor, Executing, RejectRun, TransitionStatus, StaleStatus, Raise, Goto, rows, history, FailureCodeOf, AllowedTransitions
<1>5. ASSUME NEW u \in Threads PROVE AnswerInv(u)'
  BY <1>5 DEF IInv, TypeOK, RunInv, ThreadInv, AnswerInv,
              RejectRun, TransitionStatus, StaleStatus, Raise, Goto, rows, history, FailureCodeOf, AllowedTransitions, TerminalStatusOf, EngineResults,
              EngineFailures
<1>6. QED
  BY <1>1, <1>2, <1>3, <1>4, <1>5 DEF IInv

LEMMA StartRunStep ==
    ASSUME IInv, NEW t \in Threads, StartRun(t)
    PROVE  IInv'
<1> DEFINE r == target[t]
<1>1. TypeOK'
  BY DEF IInv, TypeOK, ThreadInv, StartRun, TransitionStatus, StaleStatus,
         Raise, Goto, rows, history, AllowedTransitions, Labels,
         RepositoryCalls, Errors, Rejections, FailureCodes, Statuses
<1>2. ASSUME NEW q \in Runs PROVE RunInv(q)'
  BY <1>2 DEF IInv, TypeOK, RunInv, ThreadInv, StartRun, TransitionStatus,
              StaleStatus, Raise, Goto, rows, history, AllowedTransitions
<1>3. r \in Runs /\ RunInv(r)
  BY DEF IInv, ThreadInv, StartRun
<1>4. ASSUME NEW u \in Threads, target[u] = r, status[r] = "created"
      PROVE  pc[u] \notin {"engine", "finish", "persist", "returned"}
  BY <1>4 DEF IInv, ThreadInv, TerminalStatusOf
<1>5. CASE status[r] = "created"
  <2>1. /\ status' = [status EXCEPT ![r] = "running"]
        /\ pc' = [pc EXCEPT ![t] = "engine"]
        /\ outcome' = [outcome EXCEPT ![t] = "none"]
        /\ UNCHANGED <<bundle, executions, engineSaid, target, reply>>
    BY <1>5 DEF StartRun, TransitionStatus, StaleStatus, Goto, history
  <2>2. ASSUME NEW u \in Threads PROVE ThreadInv(u)'
    <3>1. CASE target[u] # r
      BY <3>1, <2>1, <1>3 DEF IInv, TypeOK, ThreadInv
    <3>2. CASE u = t
      BY <3>2, <2>1, <1>3, <1>5 DEF IInv, TypeOK, RunInv, ThreadInv
    <3>3. CASE target[u] = r /\ u # t
      BY <3>3, <2>1, <1>3, <1>4, <1>5 DEF IInv, TypeOK, ThreadInv
    <3>4. QED
      BY <3>1, <3>2, <3>3
  <2>3. SoleExecutor'
    BY <2>1, <1>3, <1>4, <1>5 DEF IInv, TypeOK, SoleExecutor, Executing
  <2>4. ASSUME NEW u \in Threads PROVE AnswerInv(u)'
    BY <2>1, <2>4, <1>3, <1>5 DEF IInv, TypeOK, AnswerInv
  <2>5. QED
    BY <1>1, <1>2, <2>2, <2>3, <2>4 DEF IInv
<1>6. CASE status[r] # "created"
  <2>1. /\ pc' = [pc EXCEPT ![t] = "raised"]
        /\ outcome' = [outcome EXCEPT ![t] = "stale_status"]
        /\ UNCHANGED <<status, bundle, executions, engineSaid, target, reply>>
    BY <1>6 DEF StartRun, TransitionStatus, StaleStatus, Raise, Goto, rows,
                history
  <2>2. ASSUME NEW u \in Threads PROVE ThreadInv(u)'
    BY <2>1, <2>2, <1>3 DEF IInv, TypeOK, ThreadInv, Errors
  <2>3. SoleExecutor'
    BY <2>1 DEF IInv, TypeOK, SoleExecutor, Executing
  <2>4. ASSUME NEW u \in Threads PROVE AnswerInv(u)'
    BY <2>1, <2>4 DEF IInv, TypeOK, AnswerInv
  <2>5. QED
    BY <1>1, <1>2, <2>2, <2>3, <2>4 DEF IInv
<1>7. QED
  BY <1>5, <1>6

LEMMA ExecuteEngineStep ==
    ASSUME IInv, NEW t \in Threads, ExecuteEngine(t)
    PROVE  IInv'
<1> DEFINE r == target[t]
<1>1. TypeOK'
  BY DEF IInv, TypeOK, ThreadInv, ExecuteEngine, Goto, rows,
         Labels, RepositoryCalls, Errors, Rejections, EngineOutcomes,
         EngineResults, EngineFailures, FailureCodes, Statuses,
         TerminalStatusOf
<1>2. ASSUME NEW q \in Runs PROVE RunInv(q)'
  BY <1>2 DEF IInv, TypeOK, RunInv, ThreadInv, ExecuteEngine, Goto, rows,
              TerminalStatusOf, Rejections, EngineOutcomes, EngineResults,
              EngineFailures
<1>3. ASSUME NEW u \in Threads PROVE ThreadInv(u)'
  BY <1>3 DEF IInv, TypeOK, RunInv, ThreadInv, SoleExecutor, Executing,
              ExecuteEngine, Goto, rows, TerminalStatusOf, Rejections,
              EngineOutcomes, EngineResults, EngineFailures, Errors
<1>4. SoleExecutor'
  BY DEF IInv, TypeOK, ThreadInv, SoleExecutor, Executing, ExecuteEngine, Goto, rows
<1>5. ASSUME NEW u \in Threads PROVE AnswerInv(u)'
  BY <1>5 DEF IInv, TypeOK, RunInv, ThreadInv, AnswerInv,
              ExecuteEngine, Goto, rows, TerminalStatusOf, EngineResults,
              EngineFailures
<1>6. QED
  BY <1>1, <1>2, <1>3, <1>4, <1>5 DEF IInv

LEMMA FinishRunStep ==
    ASSUME IInv, NEW t \in Threads, FinishRun(t)
    PROVE  IInv'
<1> DEFINE r == target[t]
<1>1. TypeOK'
  BY DEF IInv, TypeOK, ThreadInv, FinishRun, TransitionStatus, StaleStatus, Raise, Goto, rows, history, AllowedTransitions,
         Labels, RepositoryCalls, Errors, Rejections, EngineOutcomes,
         EngineResults, EngineFailures, FailureCodes, Statuses,
         TerminalStatusOf
<1>2. ASSUME NEW q \in Runs PROVE RunInv(q)'
  BY <1>2 DEF IInv, TypeOK, RunInv, ThreadInv, FinishRun, TransitionStatus, StaleStatus, Raise, Goto, rows, history, AllowedTransitions,
              TerminalStatusOf, Rejections, EngineOutcomes, EngineResults,
              EngineFailures
<1>3. ASSUME NEW u \in Threads PROVE ThreadInv(u)'
  BY <1>3 DEF IInv, TypeOK, RunInv, ThreadInv, SoleExecutor, Executing,
              FinishRun, TransitionStatus, StaleStatus, Raise, Goto, rows, history, AllowedTransitions, TerminalStatusOf, Rejections,
              EngineOutcomes, EngineResults, EngineFailures, Errors
<1>4. SoleExecutor'
  BY DEF IInv, TypeOK, ThreadInv, SoleExecutor, Executing, FinishRun, TransitionStatus, StaleStatus, Raise, Goto, rows, history, AllowedTransitions
<1>5. ASSUME NEW u \in Threads PROVE AnswerInv(u)'
  BY <1>5 DEF IInv, TypeOK, RunInv, ThreadInv, AnswerInv,
              FinishRun, TransitionStatus, StaleStatus, Raise, Goto, rows, history, AllowedTransitions, TerminalStatusOf, EngineResults,
              EngineFailures
<1>6. QED
  BY <1>1, <1>2, <1>3, <1>4, <1>5 DEF IInv

LEMMA PersistArtifactStep ==
    ASSUME IInv, NEW t \in Threads, PersistArtifact(t)
    PROVE  IInv'
<1> DEFINE r == target[t]
<1>1. TypeOK'
  BY DEF IInv, TypeOK, ThreadInv, PersistArtifact, Raise, Goto, history,
         Labels, RepositoryCalls, Errors, Rejections, EngineOutcomes,
         EngineResults, EngineFailures, FailureCodes, Statuses,
         TerminalStatusOf
<1>2. ASSUME NEW q \in Runs PROVE RunInv(q)'
  BY <1>2 DEF IInv, TypeOK, RunInv, ThreadInv, PersistArtifact, Raise, Goto, history,
              TerminalStatusOf, Rejections, EngineOutcomes, EngineResults,
              EngineFailures
<1>3. ASSUME NEW u \in Threads PROVE ThreadInv(u)'
  BY <1>3 DEF IInv, TypeOK, RunInv, ThreadInv, SoleExecutor, Executing,
              PersistArtifact, Raise, Goto, history, TerminalStatusOf, Rejections,
              EngineOutcomes, EngineResults, EngineFailures, Errors
<1>4. SoleExecutor'
  BY DEF IInv, TypeOK, ThreadInv, SoleExecutor, Executing, PersistArtifact, Raise, Goto, history
<1>5. ASSUME NEW u \in Threads PROVE AnswerInv(u)'
  BY <1>5 DEF IInv, TypeOK, RunInv, ThreadInv, AnswerInv,
              PersistArtifact, Raise, Goto, history, TerminalStatusOf, EngineResults,
              EngineFailures
<1>6. QED
  BY <1>1, <1>2, <1>3, <1>4, <1>5 DEF IInv

LEMMA DatabaseErrorStep ==
    ASSUME IInv, NEW t \in Threads, DatabaseError(t)
    PROVE  IInv'
<1> DEFINE r == target[t]
<1>1. TypeOK'
  BY DEF IInv, TypeOK, ThreadInv, DatabaseError, Raise, Goto, rows, history, RepositoryCalls,
         Labels, RepositoryCalls, Errors, Rejections, EngineOutcomes,
         EngineResults, EngineFailures, FailureCodes, Statuses,
         TerminalStatusOf
<1>2. ASSUME NEW q \in Runs PROVE RunInv(q)'
  BY <1>2 DEF IInv, TypeOK, RunInv, ThreadInv, DatabaseError, Raise, Goto, rows, history, RepositoryCalls,
              TerminalStatusOf, Rejections, EngineOutcomes, EngineResults,
              EngineFailures
<1>3. ASSUME NEW u \in Threads PROVE ThreadInv(u)'
  BY <1>3 DEF IInv, TypeOK, RunInv, ThreadInv, SoleExecutor, Executing,
              DatabaseError, Raise, Goto, rows, history, RepositoryCalls, TerminalStatusOf, Rejections,
              EngineOutcomes, EngineResults, EngineFailures, Errors
<1>4. SoleExecutor'
  BY DEF IInv, TypeOK, ThreadInv, SoleExecutor, Executing, DatabaseError, Raise, Goto, rows, history, RepositoryCalls
<1>5. ASSUME NEW u \in Threads PROVE AnswerInv(u)'
  BY <1>5 DEF IInv, TypeOK, RunInv, ThreadInv, AnswerInv,
              DatabaseError, Raise, Goto, rows, history, RepositoryCalls, TerminalStatusOf, EngineResults,
              EngineFailures
<1>6. QED
  BY <1>1, <1>2, <1>3, <1>4, <1>5 DEF IInv

LEMMA AnswerExecutedStep ==
    ASSUME IInv, NEW t \in Threads, AnswerExecuted(t)
    PROVE  IInv'
<1> DEFINE r == target[t]
<1>1. TypeOK'
  BY HttpCodes, TerminalStatuses
     DEF IInv, TypeOK, ThreadInv, AnswerExecuted, Answer, Goto, rows, history, HttpCodeOf,
         Labels, RepositoryCalls, Errors, Rejections, EngineOutcomes,
         EngineResults, EngineFailures, FailureCodes, Statuses, Replies,
         TerminalStatusOf
<1>2. ASSUME NEW q \in Runs PROVE RunInv(q)'
  BY <1>2 DEF IInv, TypeOK, RunInv, ThreadInv, AnswerExecuted, Answer, Goto, rows, history, HttpCodeOf,
              TerminalStatusOf, Rejections, EngineOutcomes, EngineResults,
              EngineFailures
<1>3. ASSUME NEW u \in Threads PROVE ThreadInv(u)'
  BY <1>3 DEF IInv, TypeOK, RunInv, ThreadInv, SoleExecutor, Executing,
              AnswerExecuted, Answer, Goto, rows, history, HttpCodeOf, TerminalStatusOf, Rejections,
              EngineOutcomes, EngineResults, EngineFailures, Errors
<1>4. SoleExecutor'
  BY DEF IInv, TypeOK, ThreadInv, SoleExecutor, Executing, AnswerExecuted, Answer, Goto, rows, history, HttpCodeOf
<1>5. ASSUME NEW u \in Threads PROVE AnswerInv(u)'
  BY <1>5, HttpCodes DEF IInv, TypeOK, RunInv, ThreadInv, AnswerInv,
              AnswerExecuted, Answer, Goto, rows, history, HttpCodeOf, TerminalStatusOf, EngineResults,
              EngineFailures
<1>6. QED
  BY <1>1, <1>2, <1>3, <1>4, <1>5 DEF IInv

LEMMA AnswerErrorStep ==
    ASSUME IInv, NEW t \in Threads, AnswerError(t)
    PROVE  IInv'
<1> DEFINE r == target[t]
<1>1. TypeOK'
  BY HttpCodes, TerminalStatuses
     DEF IInv, TypeOK, ThreadInv, AnswerError, Answer, Goto, rows, history, HttpCodeOf,
         Labels, RepositoryCalls, Errors, Rejections, EngineOutcomes,
         EngineResults, EngineFailures, FailureCodes, Statuses, Replies,
         TerminalStatusOf
<1>2. ASSUME NEW q \in Runs PROVE RunInv(q)'
  BY <1>2 DEF IInv, TypeOK, RunInv, ThreadInv, AnswerError, Answer, Goto, rows, history, HttpCodeOf,
              TerminalStatusOf, Rejections, EngineOutcomes, EngineResults,
              EngineFailures
<1>3. ASSUME NEW u \in Threads PROVE ThreadInv(u)'
  BY <1>3 DEF IInv, TypeOK, RunInv, ThreadInv, SoleExecutor, Executing,
              AnswerError, Answer, Goto, rows, history, HttpCodeOf, TerminalStatusOf, Rejections,
              EngineOutcomes, EngineResults, EngineFailures, Errors
<1>4. SoleExecutor'
  BY DEF IInv, TypeOK, ThreadInv, SoleExecutor, Executing, AnswerError, Answer, Goto, rows, history, HttpCodeOf
<1>5. ASSUME NEW u \in Threads PROVE AnswerInv(u)'
  BY <1>5, HttpCodes DEF IInv, TypeOK, RunInv, ThreadInv, AnswerInv,
              AnswerError, Answer, Goto, rows, history, HttpCodeOf, TerminalStatusOf, EngineResults,
              EngineFailures
<1>6. QED
  BY <1>1, <1>2, <1>3, <1>4, <1>5 DEF IInv

--------------------------------------------------------------------------------
(* The endpoints and the crash.                                            *)

LEMMA PostRunStep ==
    ASSUME IInv, NEW r \in Runs, PostRun(r)
    PROVE  IInv'
<1>1. PICK kind \in Manifests : CreateRun(r, kind)
  BY DEF PostRun
<1>2. TypeOK'
  BY <1>1 DEF IInv, TypeOK, PostRun, CreateRun, threads, history, Statuses
<1>3. ASSUME NEW q \in Runs PROVE RunInv(q)'
  BY <1>1, <1>3 DEF IInv, TypeOK, RunInv, CreateRun, history
<1>4. ASSUME NEW u \in Threads PROVE ThreadInv(u)'
  BY <1>1, <1>4 DEF IInv, TypeOK, ThreadInv, PostRun, CreateRun, threads,
                    history, TerminalStatusOf
<1>5. SoleExecutor'
  BY DEF IInv, SoleExecutor, Executing, PostRun, threads
<1>6. ASSUME NEW u \in Threads PROVE AnswerInv(u)'
  BY <1>1, <1>6 DEF IInv, TypeOK, AnswerInv, PostRun, CreateRun, threads
<1>7. QED
  BY <1>2, <1>3, <1>4, <1>5, <1>6 DEF IInv

LEMMA PostExecuteStep ==
    ASSUME IInv, NEW t \in Threads, NEW r \in Runs, PostExecute(t, r)
    PROVE  IInv'
<1> USE DEF PostExecute, CallService, Goto, rows, history
<1>1. NoReply \in Replies /\ NoReply.code # 200
  BY TerminalStatuses DEF NoReply, Replies
<1>2. TypeOK'
  BY <1>1 DEF IInv, TypeOK, Labels, RepositoryCalls
<1>3. ASSUME NEW q \in Runs PROVE RunInv(q)'
  BY <1>3 DEF IInv, RunInv
<1>4. ASSUME NEW u \in Threads PROVE ThreadInv(u)'
  BY <1>4 DEF IInv, TypeOK, ThreadInv
<1>5. SoleExecutor'
  BY DEF IInv, TypeOK, SoleExecutor, Executing
<1>6. ASSUME NEW u \in Threads PROVE AnswerInv(u)'
  BY <1>1, <1>6 DEF IInv, TypeOK, AnswerInv
<1>7. QED
  BY <1>2, <1>3, <1>4, <1>5, <1>6 DEF IInv

LEMMA CrashStep ==
    ASSUME IInv, Crash
    PROVE  IInv'
<1> USE DEF Crash, rows, history
<1>1. NoReply \in Replies /\ NoReply.code # 200
  BY TerminalStatuses DEF NoReply, Replies
<1>2. TypeOK'
  BY <1>1 DEF IInv, TypeOK, Labels
<1>3. ASSUME NEW q \in Runs PROVE RunInv(q)'
  BY <1>3 DEF IInv, RunInv
<1>4. ASSUME NEW u \in Threads PROVE ThreadInv(u)'
  BY <1>4 DEF ThreadInv
<1>5. SoleExecutor'
  BY DEF SoleExecutor, Executing
<1>6. ASSUME NEW u \in Threads PROVE AnswerInv(u)'
  BY <1>1, <1>6 DEF AnswerInv
<1>7. QED
  BY <1>2, <1>3, <1>4, <1>5, <1>6 DEF IInv

LEMMA StutterStep ==
    ASSUME IInv, UNCHANGED vars
    PROVE  IInv'
<1> USE DEF vars
<1>1. TypeOK'
  BY DEF IInv, TypeOK
<1>2. ASSUME NEW q \in Runs PROVE RunInv(q)'
  BY <1>2 DEF IInv, RunInv
<1>3. ASSUME NEW u \in Threads PROVE ThreadInv(u)' /\ AnswerInv(u)'
  BY <1>3 DEF IInv, ThreadInv, AnswerInv
<1>4. SoleExecutor'
  BY DEF IInv, SoleExecutor, Executing
<1>5. QED
  BY <1>1, <1>2, <1>3, <1>4 DEF IInv

--------------------------------------------------------------------------------
(* Safety                                                                  *)

LEMMA HandleStep ==
    ASSUME IInv, NEW t \in Threads, Handle(t)
    PROVE  IInv'
  BY GetRunStep, GetStrategyStep, GetSnapshotStep, RejectRunStep,
     StartRunStep, ExecuteEngineStep, FinishRunStep, PersistArtifactStep,
     DatabaseErrorStep, AnswerExecutedStep, AnswerErrorStep
     DEF Handle, ServiceStep

\* The inductive invariant holds in every reachable state of every instance.
THEOREM Invariance == Spec => []IInv
<1>1. IInv /\ [Next]_vars => IInv'
  BY PostRunStep, PostExecuteStep, HandleStep, CrashStep, StutterStep DEF Next
<1>2. QED
  BY InitIInv, <1>1, PTL DEF Spec

\* Every variable keeps its type: in particular, what a thread raises or stores
\* as a failure code is always one of the codes the service knows.
THEOREM TypeCorrect == Spec => []TypeOK
<1>1. IInv => TypeOK
  BY DEF IInv
<1>2. QED
  BY Invariance, <1>1, PTL

\* execute_backtest_run: the engine executes a run at most once, for any number
\* of concurrent requests, crashes and database errors.
THEOREM ExecutedOnce == Spec => []EngineRunsOnce
<1>1. IInv => EngineRunsOnce
  BY DEF IInv, EngineRunsOnce, RunInv, SoleExecutor
<1>2. QED
  BY Invariance, <1>1, PTL

\* The stored status, failure code and artifact bundle of a run that reached
\* the engine are the engine's verdict.
THEOREM VerdictKept == Spec => []VerdictIsTheEngines
<1>1. IInv => VerdictIsTheEngines
  BY DEF IInv, VerdictIsTheEngines, RunInv, EngineResults, EngineFailures
<1>2. QED
  BY Invariance, <1>1, PTL

\* An answer of 200 is backed by the row and by the bundle for ever.
THEOREM DurableAnswers == Spec => []AnswersAreDurable
<1>1. IInv => AnswersAreDurable
  BY DEF IInv, AnswersAreDurable, AnswerInv
<1>2. QED
  BY Invariance, <1>1, PTL

--------------------------------------------------------------------------------
(* Refinement.  Only the guarded UPDATEs, the execution of the engine and   *)
(* the insertion of the bundle are visible in the life cycle of a run; of   *)
(* these, the execution of the engine leaves a running run running.         *)

\* A step that leaves what the life cycle shows alone.
LEMMA InvisibleStep ==
    ASSUME UNCHANGED <<status, bundle, engineSaid>>
    PROVE  UNCHANGED Lifecycle!vars
  BY DEF Lifecycle!vars, Phase

\* A step that moves one run from one phase to another and touches no bundle.
LEMMA VisibleMove ==
    ASSUME NEW r \in Runs, NEW from, NEW to,
           Phase(r) \in from, Phase(r)' = to,
           \A q \in Runs \ {r} : Phase(q)' = Phase(q),
           UNCHANGED bundle
    PROVE  Lifecycle!Move(r, from, to)
  BY DEF Lifecycle!Move

LEMMA LifecycleInit == Init => Lifecycle!Init
  BY DEF Init, Lifecycle!Init, Phase

LEMMA PostRunRefines ==
    ASSUME IInv, NEW r \in Runs, PostRun(r)
    PROVE  Lifecycle!Create(r)
<1>1. PICK kind \in Manifests : CreateRun(r, kind)
  BY DEF PostRun
<1>2. /\ Phase(r) = "absent" /\ Phase(r)' = "created"
      /\ \A q \in Runs \ {r} : Phase(q)' = Phase(q)
      /\ UNCHANGED bundle
  BY <1>1 DEF IInv, TypeOK, CreateRun, history, Phase
<1>3. QED
  BY <1>2, VisibleMove DEF Lifecycle!Create

LEMMA RejectRunRefines ==
    ASSUME IInv, NEW t \in Threads, RejectRun(t)
    PROVE  (\E r \in Runs : Lifecycle!Reject(r)) \/ UNCHANGED Lifecycle!vars
<1>1. PICK r \in Runs : r = target[t] /\ RunInv(r)
  BY DEF IInv, ThreadInv, RejectRun
<1>2. CASE StaleStatus(t, "created")
  BY <1>2, InvisibleStep DEF StaleStatus, rows, RejectRun, history
<1>3. CASE TransitionStatus(r, "created", "failed", FailureCodeOf(outcome[t]))
  <2>1. /\ Phase(r) = "created" /\ Phase(r)' = "rejected"
        /\ \A q \in Runs \ {r} : Phase(q)' = Phase(q)
        /\ UNCHANGED bundle
    BY <1>1, <1>3 DEF IInv, TypeOK, RunInv, TransitionStatus, RejectRun,
                      history, Phase
  <2>2. QED
    BY <1>1, <2>1, VisibleMove DEF Lifecycle!Reject
<1>4. QED
  BY <1>1, <1>2, <1>3 DEF RejectRun

LEMMA StartRunRefines ==
    ASSUME IInv, NEW t \in Threads, StartRun(t)
    PROVE  (\E r \in Runs : Lifecycle!Start(r)) \/ UNCHANGED Lifecycle!vars
<1>1. PICK r \in Runs : r = target[t]
  BY DEF IInv, ThreadInv, StartRun
<1>2. CASE StaleStatus(t, "created")
  BY <1>2, InvisibleStep DEF StaleStatus, rows, StartRun, history
<1>3. CASE TransitionStatus(r, "created", "running", "none")
  <2>1. /\ Phase(r) = "created" /\ Phase(r)' = "running"
        /\ \A q \in Runs \ {r} : Phase(q)' = Phase(q)
        /\ UNCHANGED bundle
    BY <1>1, <1>3 DEF IInv, TypeOK, TransitionStatus, StartRun, history, Phase
  <2>2. QED
    BY <1>1, <2>1, VisibleMove DEF Lifecycle!Start
<1>4. QED
  BY <1>1, <1>2, <1>3 DEF StartRun

LEMMA ExecuteEngineRefines ==
    ASSUME IInv, NEW t \in Threads, ExecuteEngine(t)
    PROVE  UNCHANGED Lifecycle!vars
<1> DEFINE r == target[t]
<1>1. r \in Runs /\ status[r] = "running"
  BY DEF IInv, ThreadInv, ExecuteEngine
<1>2. \A q \in Runs : Phase(q)' = Phase(q)
  BY <1>1 DEF IInv, TypeOK, ExecuteEngine, rows, Phase
<1>3. QED
  BY <1>2 DEF Lifecycle!vars, ExecuteEngine, rows

LEMMA FinishRunRefines ==
    ASSUME IInv, NEW t \in Threads, FinishRun(t)
    PROVE  (\E r \in Runs : Lifecycle!Finish(r)) \/ UNCHANGED Lifecycle!vars
<1>1. PICK r \in Runs : /\ r = target[t] /\ status[r] = "running"
                       /\ engineSaid[r] = outcome[t]
                       /\ outcome[t] \in EngineOutcomes
  BY DEF IInv, ThreadInv, FinishRun
<1>2. PICK to \in Lifecycle!Publishable \cup {"aborted"} :
        /\ Phase(r) = "running" /\ Phase(r)' = to
        /\ \A q \in Runs \ {r} : Phase(q)' = Phase(q)
        /\ UNCHANGED bundle
  <2>1. Phase(r)' \in Lifecycle!Publishable \cup {"aborted"}
    BY <1>1 DEF IInv, TypeOK, FinishRun, TransitionStatus, StaleStatus,
                history, Phase, EngineFailures, Lifecycle!Publishable
  <2>2. /\ Phase(r) = "running"
        /\ \A q \in Runs \ {r} : Phase(q)' = Phase(q)
        /\ UNCHANGED bundle
    BY <1>1 DEF IInv, TypeOK, FinishRun, TransitionStatus, StaleStatus,
                history, Phase
  <2>3. QED
    BY <2>1, <2>2
<1>3. Lifecycle!Move(r, {"running"}, to)
  BY <1>2, VisibleMove
<1>4. QED
  BY <1>2, <1>3 DEF Lifecycle!Finish

LEMMA PersistArtifactRefines ==
    ASSUME IInv, NEW t \in Threads, PersistArtifact(t)
    PROVE  Lifecycle!Publish(target[t])
<1> DEFINE r == target[t]
<1>1. /\ r \in Runs /\ outcome[t] \in EngineResults
      /\ status[r] = TerminalStatusOf(outcome[t])
      /\ engineSaid[r] = outcome[t] /\ bundle[r] = "none"
  BY DEF IInv, ThreadInv, PersistArtifact
<1>2. /\ bundle' = [bundle EXCEPT ![r] = TerminalStatusOf(outcome[t])]
      /\ UNCHANGED <<status, engineSaid>>
  BY <1>1 DEF PersistArtifact, history
<1>3. /\ Phase(r) = TerminalStatusOf(outcome[t])
      /\ Phase(r) \in Lifecycle!Publishable
  BY <1>1 DEF Phase, TerminalStatusOf, EngineResults, EngineFailures,
              Lifecycle!Publishable
<1>4. \A q \in Runs : Phase(q)' = Phase(q)
  BY <1>2 DEF Phase
<1>5. QED
  BY <1>1, <1>2, <1>3, <1>4 DEF Lifecycle!Publish

LEMMA HandleRefines ==
    ASSUME IInv, NEW t \in Threads, Handle(t)
    PROVE  \/ \E r \in Runs : Lifecycle!Reject(r) \/ Lifecycle!Start(r)
                \/ Lifecycle!Finish(r) \/ Lifecycle!Publish(r)
           \/ UNCHANGED Lifecycle!vars
<1>1. pc[t] # "idle" => target[t] \in Runs
  BY DEF IInv, ThreadInv
<1>2. CASE GetRun(t) \/ GetStrategy(t) \/ GetSnapshot(t) \/ DatabaseError(t)
  BY <1>2, InvisibleStep DEF GetRun, GetStrategy, GetSnapshot, DatabaseError,
                             rows, history
<1>3. CASE AnswerExecuted(t) \/ AnswerError(t)
  BY <1>3, InvisibleStep DEF AnswerExecuted, AnswerError, Answer, rows, history
<1>4. CASE RejectRun(t)
  BY <1>4, RejectRunRefines
<1>5. CASE StartRun(t)
  BY <1>5, StartRunRefines
<1>6. CASE ExecuteEngine(t)
  BY <1>6, ExecuteEngineRefines
<1>7. CASE FinishRun(t)
  BY <1>7, FinishRunRefines
<1>8. CASE PersistArtifact(t)
  BY <1>1, <1>8, PersistArtifactRefines DEF PersistArtifact
<1>9. QED
  BY <1>2, <1>3, <1>4, <1>5, <1>6, <1>7, <1>8 DEF Handle, ServiceStep

\* Every behaviour of the service is a behaviour of the life cycle: no run ever
\* goes back, and at most one bundle is written, for the result of the engine.
THEOREM Refinement == Spec => ImplementsLifecycle
<1>1. IInv /\ [Next]_vars => [Lifecycle!Next]_(Lifecycle!vars)
  <2> SUFFICES ASSUME IInv, [Next]_vars
               PROVE  Lifecycle!Next \/ UNCHANGED Lifecycle!vars
    OBVIOUS
  <2>1. ASSUME NEW r \in Runs, PostRun(r) PROVE Lifecycle!Next
    BY <2>1, PostRunRefines DEF Lifecycle!Next
  <2>2. ASSUME NEW t \in Threads, NEW r \in Runs, PostExecute(t, r)
        PROVE  UNCHANGED Lifecycle!vars
    BY <2>2, InvisibleStep DEF PostExecute, CallService, rows, history
  <2>3. ASSUME NEW t \in Threads, Handle(t)
        PROVE  Lifecycle!Next \/ UNCHANGED Lifecycle!vars
    BY <2>3, HandleRefines DEF Lifecycle!Next
  <2>4. CASE Crash
    BY <2>4, InvisibleStep DEF Crash, rows, history
  <2>5. CASE UNCHANGED vars
    BY <2>5, InvisibleStep DEF vars
  <2>6. QED
    BY <2>1, <2>2, <2>3, <2>4, <2>5 DEF Next
<1>2. QED
  BY LifecycleInit, <1>1, Invariance, PTL
     DEF Spec, ImplementsLifecycle, Lifecycle!Spec

================================================================================

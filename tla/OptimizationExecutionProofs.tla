---------------------- MODULE OptimizationExecutionProofs ----------------------
(***************************************************************************)
(* Proofs about OptimizationExecution for every grid, every number of      *)
(* optimizers and clients, and every combination of faults.                *)
(***************************************************************************)
EXTENDS OptimizationExecution, RunExecutionProofs, FiniteSetTheorems,
        WellFoundedInduction

Pending == {c \in Candidates : candidate[c].status = "pending"}

NothingSelected == [choice |-> NoCandidate, audit |-> {}]
NothingHeldOut == [run |-> NoRun, objective |-> NotAvailable]

\* The selection as it follows from the rows of the candidates.
SelectionOfRows == [choice |-> SelectCandidate(AuditOf(candidate)),
                    audit  |-> AuditOf(candidate)]

(* What the rows of the optimization say between any two steps. *)
RowsInv ==
    /\ optStatus \in {"created", "validating"} => derived = {}
    /\ optStatus \in {"created", "validating", "running_train_validation"} =>
          selection = NothingSelected
    /\ optStatus \in {"created", "validating", "running_train_validation",
                      "selecting"} =>
          HoldoutRuns = {} /\ holdout = NothingHeldOut
    /\ optStatus \in {"selecting", "running_holdout", "completed"} => Pending = {}
    /\ optStatus \in {"running_holdout", "completed"} =>
          selection.choice # NoCandidate
    /\ selection # NothingSelected => selection = SelectionOfRows
    /\ optFailure = "no_eligible_candidate" =>
          /\ optStatus = "failed"
          /\ selection = SelectionOfRows /\ selection.choice = NoCandidate
    /\ \A c, d \in derived \cap Pending : c = d

(* What the runs of the optimization are for, and what they show. *)
EvidenceInv ==
    /\ \A r \in Runs : status[r] = "absent" <=> runFor[r][1] = "none"
    /\ \A c \in Candidates :
          /\ candidate[c].objective # NotAvailable =>
                candidate[c].status = "completed"
          /\ candidate[c].status = "completed" =>
                /\ IsEvidence(candidate[c].train, "train", c, {"completed"})
                /\ IsEvidence(candidate[c].validation, "validation", c,
                              {"completed"})
    /\ optStatus = "completed" =>
          IsEvidence(holdout.run, "holdout", selection.choice,
                     {"completed", "failed"})

(* The status of the optimization while a thread drives it. *)
PhaseInv(t) ==
    /\ op[t] = "begin" => optStatus = "validating"
    /\ op[t] \in {"list", "select"} => optStatus = "running_train_validation"
    /\ op[t] \in {"relist", "decide", "no_eligible", "start_holdout"} =>
          optStatus = "selecting"
    /\ op[t] = "spec" => local[t].leg = "train"
    /\ op[t] = "record" => local[t].leg \in {"train", "validation"}
    /\ op[t] \in {"record_holdout", "complete", "start_holdout"} =>
          local[t].leg = "holdout"
    /\ op[t] \in {"spec", "create", "execute", "record", "record_holdout",
                  "complete", "fail"} =>
          /\ local[t].leg \in Legs
          /\ optStatus = IF local[t].leg = "holdout" THEN "running_holdout"
                         ELSE "running_train_validation"

(* Where a thread is in the loop over the candidates. *)
LoopInv(t) ==
    LET l == local[t] IN
    /\ op[t] = "list" => derived = {}
    /\ op[t] = "select" => Pending = {}
    /\ op[t] \in {"spec", "create", "execute", "record"} /\ l.leg # "holdout" =>
          /\ l.current \in Candidates
          /\ l.current \notin l.todo
          /\ Pending = l.todo \cup {l.current}
          /\ derived \cap Pending \subseteq
                IF op[t] = "spec" THEN {} ELSE {l.current}

(* What a thread knows of the runs it created and of its service call. *)
RunsInv(t) ==
    LET l == local[t] IN
    /\ pc[t] # "idle" => op[t] = "execute" /\ target[t] = l.run[l.leg]
    /\ op[t] = "execute" => /\ l.run[l.leg] \in Runs
                            /\ runFor[l.run[l.leg]] = <<l.leg, l.current>>
    /\ op[t] \in {"create", "execute", "record"} /\ l.leg = "validation" =>
          IsEvidence(l.run["train"], "train", l.current, {"completed"})
    /\ op[t] = "record" =>
          l.failed \/ /\ l.leg = "validation"
                      /\ IsEvidence(l.run["validation"], "validation", l.current,
                                    {"completed"})
    /\ op[t] = "record_holdout" =>
          IsEvidence(l.run["holdout"], "holdout", l.current,
                     {"completed", "failed"})

(* Where a thread is between the selection and the end. *)
HoldoutInv(t) ==
    LET l == local[t] IN
    /\ op[t] \in {"relist", "decide"} => selection = NothingSelected
    /\ op[t] = "decide" => l.audit = AuditOf(candidate)
    /\ op[t] = "no_eligible" =>
          selection = SelectionOfRows /\ selection.choice = NoCandidate
    /\ op[t] \in {"start_holdout", "create", "execute", "record_holdout"}
       /\ l.leg = "holdout" =>
          /\ selection = SelectionOfRows
          /\ l.current = selection.choice /\ l.current # NoCandidate
          /\ holdout = NothingHeldOut
    /\ op[t] = "create" /\ l.leg = "holdout" => HoldoutRuns = {}
    /\ op[t] = "complete" =>
          IsEvidence(holdout.run, "holdout", selection.choice,
                     {"completed", "failed"})

ThreadOk(t) == PhaseInv(t) /\ LoopInv(t) /\ RunsInv(t) /\ HoldoutInv(t)

OptIInv ==
    /\ IInv
    /\ OptTypeOK
    /\ OneDriver
    /\ HoldoutIsSealed
    /\ RowsInv
    /\ EvidenceInv
    /\ \A t \in Optimizers : ThreadOk(t)

--------------------------------------------------------------------------------
(* Facts about orders and about the choices of the optimizer               *)

\* Every non-empty finite set has a first element in a strict total order.  A
\* subset without one that is minimal among such subsets would have one.
LEMMA FiniteHasFirst ==
    ASSUME NEW S, IsFiniteSet(S), S # {}, NEW R,
           \A x, y \in S : x # y => <<x, y>> \in R \/ <<y, x>> \in R,
           \A x, y, z \in S : <<x, y>> \in R /\ <<y, z>> \in R => <<x, z>> \in R
    PROVE  \E m \in S : \A x \in S \ {m} : <<m, x>> \in R
<1> DEFINE Counter == {T \in SUBSET S :
                         /\ T # {}
                         /\ ~ \E m \in T : \A x \in T \ {m} : <<m, x>> \in R}
<1>1. SUFFICES ASSUME Counter # {} PROVE FALSE
  <2>1. Counter = {}
    BY <1>1
  <2>2. QED
    BY <2>1
<1>2. PICK T \in Counter :
        \A U \in Counter : <<U, T>> \notin StrictSubsetOrdering(S)
  <2>1. IsWellFoundedOn(StrictSubsetOrdering(S), SUBSET S)
    BY FS_StrictSubsetOrderingWellFounded, FS_FiniteSubsetsOfFinite
  <2> HIDE DEF Counter
  <2>2. Counter \subseteq SUBSET S
    BY DEF Counter
  <2>3. QED
    BY <1>1, <2>1, <2>2, WFMin
<1>3. PICK a \in T : TRUE
  OBVIOUS
<1> DEFINE U == T \ {a}
<1>4. U \notin Counter
  <2>1. U \in SUBSET S /\ T \in SUBSET S /\ U \subseteq T /\ U # T
    BY <1>3
  <2>2. <<U, T>> \in StrictSubsetOrdering(S)
    <3> HIDE DEF U, Counter
    <3>1. QED
      BY <2>1 DEF StrictSubsetOrdering
  <2>3. QED
    BY <2>2, <1>2
<1>5. CASE U = {}
  BY <1>5, <1>3
<1>6. CASE U # {}
  <2>1. PICK m \in U : \A x \in U \ {m} : <<m, x>> \in R
    BY <1>4, <1>6
  <2>2. CASE <<m, a>> \in R
    BY <2>1, <2>2, <1>3
  <2>3. CASE <<a, m>> \in R
    BY <2>1, <2>3, <1>3
  <2>4. QED
    BY <2>1, <2>2, <2>3, <1>3
<1>7. QED
  BY <1>5, <1>6

LEMMA NoCandidateIsNone == NoCandidate \notin Candidates
  BY GridAssumption DEF NoCandidate, Candidates

LEMMA CandidatesFinite == IsFiniteSet(Candidates) /\ Candidates # {}
<1>1. IsFiniteSet(Candidates)
  BY GridAssumption, FS_Product DEF Candidates
<1>2. PICK f \in FastWindows, s \in SlowWindows : TRUE
  BY GridAssumption
<1>3. <<f, s>> \in Candidates
  BY DEF Candidates
<1>4. QED
  BY <1>1, <1>3

LEMMA CandidateWindows ==
    ASSUME NEW c \in Candidates
    PROVE  /\ Fast(c) \in Nat \ {0} /\ Slow(c) \in Nat \ {0}
           /\ c = <<Fast(c), Slow(c)>>
<1>1. PICK f \in FastWindows, s \in SlowWindows : c = <<f, s>>
  BY DEF Candidates
<1>2. QED
  BY <1>1, GridAssumption DEF Fast, Slow

\* The loop takes a candidate that is still to be done.
LEMMA FirstOfTodo ==
    ASSUME NEW todo \in SUBSET Candidates, todo # {}
    PROVE  FirstOf(todo) \in todo
<1> DEFINE R == {p \in Candidates \X Candidates : Precedes(p[1], p[2])}
<1>1. IsFiniteSet(todo)
  BY CandidatesFinite, FS_Subset
<1>2. \A x, y \in Candidates : <<x, y>> \in R <=> Precedes(x, y)
  OBVIOUS
<1>0. \A c \in Candidates : /\ Fast(c) \in Nat /\ Slow(c) \in Nat
                            /\ c = <<Fast(c), Slow(c)>>
  BY CandidateWindows
<1>3. \A x, y \in Candidates : x # y => Precedes(x, y) \/ Precedes(y, x)
  BY <1>0 DEF Precedes
<1>4. \A x, y, z \in Candidates : Precedes(x, y) /\ Precedes(y, z) => Precedes(x, z)
  BY <1>0 DEF Precedes
<1>5. \E m \in todo : \A x \in todo \ {m} : <<m, x>> \in R
  <2> HIDE DEF R
  <2>1. /\ \A x, y \in todo : x # y => <<x, y>> \in R \/ <<y, x>> \in R
        /\ \A x, y, z \in todo :
              <<x, y>> \in R /\ <<y, z>> \in R => <<x, z>> \in R
    BY <1>2, <1>3, <1>4
  <2>2. QED
    BY <1>1, <2>1, FiniteHasFirst
<1>6. \E m \in todo : \A x \in todo \ {m} : Precedes(m, x)
  BY <1>2, <1>5
<1>7. QED
  BY <1>6 DEF FirstOf

\* What select_candidate chooses among finitely many candidates: nothing when
\* none is eligible, and else one that beats all the others.
LEMMA SelectedBeatsAll ==
    ASSUME NEW audit \in SUBSET AuditEntries, IsFiniteSet(audit),
           \A e, f \in audit : e.id = f.id => e = f
    PROVE  \/ Eligible(audit) = {} /\ SelectCandidate(audit) = NoCandidate
           \/ \E e \in Eligible(audit) :
                 /\ SelectCandidate(audit) = e.id
                 /\ \A f \in Eligible(audit) \ {e} : Beats(e, f)
<1> DEFINE R == {p \in audit \X audit : Beats(p[1], p[2])}
<1>1. IsFiniteSet(Eligible(audit)) /\ Eligible(audit) \subseteq audit
  <2>1. Eligible(audit) \subseteq audit
    BY DEF Eligible
  <2>2. QED
    BY <2>1, FS_Subset
<1>2. \A x, y \in audit : <<x, y>> \in R <=> Beats(x, y)
  OBVIOUS
<1>3. \A e \in audit : /\ e \in AuditEntries /\ e.id \in Candidates /\ e.objective \in Nat
                       /\ Fast(e.id) \in Nat /\ Slow(e.id) \in Nat
                       /\ e.id = <<Fast(e.id), Slow(e.id)>>
  <2> SUFFICES ASSUME NEW e \in audit
               PROVE  /\ e \in AuditEntries /\ e.id \in Candidates
                      /\ e.objective \in Nat
                      /\ Fast(e.id) \in Nat /\ Slow(e.id) \in Nat
                      /\ e.id = <<Fast(e.id), Slow(e.id)>>
    OBVIOUS
  <2>0. e \in AuditEntries
    OBVIOUS
  <2>1. /\ e.id \in Candidates
        /\ e.objective \in Objectives \/ e.objective = NotAvailable
    BY <2>0 DEF AuditEntries
  <2>2. e.objective \in Nat
    <3>1. Objectives \subseteq Nat /\ NotAvailable \in Nat
      BY ObjectivesAssumption DEF NotAvailable
    <3>2. QED
      BY <2>1, <3>1
  <2>3. e.id \in Candidates
    BY <2>1
  <2>4. /\ Fast(e.id) \in Nat /\ Slow(e.id) \in Nat
        /\ e.id = <<Fast(e.id), Slow(e.id)>>
    BY <2>3, CandidateWindows
  <2>5. QED
    BY <2>0, <2>2, <2>3, <2>4
<1>4. \A x, y \in audit : x # y => Beats(x, y) \/ Beats(y, x)
  <2> SUFFICES ASSUME NEW x \in audit, NEW y \in audit, x # y
               PROVE  Beats(x, y) \/ Beats(y, x)
    OBVIOUS
  <2>1. Fast(x.id) # Fast(y.id) \/ Slow(x.id) # Slow(y.id)
    BY <1>3
  <2>2. QED
    BY <1>3, <2>1 DEF Beats
<1>5. \A x, y, z \in audit : Beats(x, y) /\ Beats(y, z) => Beats(x, z)
  BY <1>3 DEF Beats
<1>6. CASE Eligible(audit) = {}
  BY <1>6 DEF SelectCandidate
<1>7. CASE Eligible(audit) # {}
  <2>1. \E m \in Eligible(audit) : \A x \in Eligible(audit) \ {m} : <<m, x>> \in R
    <3> HIDE DEF R
    <3>1. /\ \A x, y \in Eligible(audit) :
                x # y => <<x, y>> \in R \/ <<y, x>> \in R
          /\ \A x, y, z \in Eligible(audit) :
                <<x, y>> \in R /\ <<y, z>> \in R => <<x, z>> \in R
      BY <1>1, <1>2, <1>4, <1>5
    <3>2. QED
      BY <1>1, <1>7, <3>1, FiniteHasFirst
  <2>2. \E m \in Eligible(audit) : \A x \in Eligible(audit) \ {m} : Beats(m, x)
    BY <1>1, <1>2, <2>1
  <2>3. QED
    BY <1>7, <2>2 DEF SelectCandidate
<1>8. QED
  BY <1>6, <1>7

LEMMA AuditOfRows ==
    ASSUME OptTypeOK
    PROVE  /\ AuditOf(candidate) \in SUBSET AuditEntries
           /\ IsFiniteSet(AuditOf(candidate))
           /\ AuditOf(candidate) # {}
           /\ \A e, f \in AuditOf(candidate) : e.id = f.id => e = f
<1> DEFINE entry(c) == [id |-> c, status |-> candidate[c].status,
                       objective |-> candidate[c].objective]
           f == [c \in Candidates |-> entry(c)]
<1>1. IsFiniteSet(AuditOf(candidate))
  <2>1. f \in Surjection(Candidates, AuditOf(candidate))
    BY DEF Surjection, AuditOf
  <2>2. QED
    BY <2>1, CandidatesFinite, FS_Surjection
<1>2. AuditOf(candidate) \in SUBSET AuditEntries
  BY DEF OptTypeOK, AuditOf, AuditEntries, CandidateRows
<1>3. AuditOf(candidate) # {}
  BY CandidatesFinite DEF AuditOf
<1>4. ASSUME NEW e \in AuditOf(candidate), NEW g \in AuditOf(candidate),
             e.id = g.id
      PROVE  e = g
  <2>1. e = entry(e.id) /\ g = entry(g.id)
    BY DEF AuditOf
  <2>2. QED
    BY <1>4, <2>1
<1>5. QED
  BY <1>1, <1>2, <1>3, <1>4
--------------------------------------------------------------------------------
(* Frames: what a step leaves alone                                        *)

\* While a thread drives the optimization, the status is neither the first nor
\* a terminal one.
LEMMA DrivenStatus ==
    ASSUME OptIInv, NEW t \in Optimizers, Driving(t)
    PROVE  optStatus \in {"validating", "running_train_validation",
                          "selecting", "running_holdout"}
  BY DEF OptIInv, OptTypeOK, Ops, Calls, Driving, PhaseInv, ThreadOk

\* A thread that does not drive knows nothing that could become wrong.
LEMMA IdleThreadOk ==
    ASSUME NEW t \in Optimizers, ~Driving(t), pc[t] = "idle"
    PROVE  ThreadOk(t)
  BY DEF Driving, ThreadOk, PhaseInv, LoopInv, RunsInv, HoldoutInv

LEMMA GoOnTypes ==
    ASSUME OptTypeOK, NEW t \in Optimizers, NEW label \in Ops,
           NEW locals \in Locals, GoOn(t, label, locals)
    PROVE  /\ op' \in [Optimizers -> Ops] /\ local' \in [Optimizers -> Locals]
           /\ op'[t] = label /\ local'[t] = locals
           /\ \A u \in Optimizers \ {t} : op'[u] = op[u] /\ local'[u] = local[u]
  BY DEF OptTypeOK, GoOn

LEMMA NoLocalType == NoLocal \in Locals
  BY DEF NoLocal, Locals, Legs

LEMMA SelectionFrame ==
    ASSUME UNCHANGED candidate
    PROVE  /\ SelectionOfRows' = SelectionOfRows
           /\ AuditOf(candidate)' = AuditOf(candidate)
           /\ Pending' = Pending
  BY DEF SelectionOfRows, SelectCandidate, AuditOf, Pending
\* Nothing but the control of threads changes.
runsFor == <<runFor, derived, runnable>>

\* The rows and the runs are left alone.
LEMMA RowsFrame ==
    ASSUME OptIInv, UNCHANGED <<runVars, optRows, runsFor>>
    PROVE  /\ IInv' /\ HoldoutIsSealed' /\ RowsInv' /\ EvidenceInv'
           /\ HoldoutRuns' = HoldoutRuns
<1>1. IInv'
  BY StutterStep DEF OptIInv, runVars, rows, history, threads, vars
<1>2. HoldoutRuns' = HoldoutRuns
  BY DEF HoldoutRuns, runsFor
<1>3. HoldoutIsSealed'
  BY <1>2 DEF OptIInv, HoldoutIsSealed, optRows, runsFor
<1>4. RowsInv'
  BY <1>2, SelectionFrame
     DEF OptIInv, RowsInv, optRows, runsFor, NothingSelected, NothingHeldOut
<1>5. EvidenceInv'
  BY DEF OptIInv, EvidenceInv, IsEvidence, runVars, rows, optRows, runsFor
<1>6. QED
  BY <1>1, <1>2, <1>3, <1>4, <1>5

\* A thread that does not drive moves to another such label.
LEMMA WaitingStep ==
    ASSUME OptIInv, NEW t \in Optimizers, ~Driving(t),
           NEW label \in {"idle", "get", "validate", "raised", "reread"},
           NEW locals \in Locals, GoOn(t, label, locals),
           UNCHANGED <<runVars, optRows, runsFor>>
    PROVE  OptIInv'
<1>1. IInv' /\ HoldoutIsSealed' /\ RowsInv' /\ EvidenceInv'
  BY RowsFrame
<1>2. label \in Ops
  BY DEF Ops, Calls
<1>3. OptTypeOK'
  BY <1>1, <1>2, GoOnTypes
     DEF OptIInv, IInv, OptTypeOK, runVars, optRows, runsFor
<1>4. OneDriver'
  BY <1>2, GoOnTypes DEF OptIInv, OneDriver, Driving
<1>5. pc[t] = "idle"
  BY DEF OptIInv, ThreadOk, RunsInv, Driving
<1>6. ASSUME NEW u \in Optimizers PROVE ThreadOk(u)'
  <2>1. CASE u = t
    <3>1. ~Driving(t)' /\ pc'[t] = "idle"
      BY <1>2, <1>5, GoOnTypes DEF OptIInv, Driving, runVars, threads
    <3>2. QED
      BY <2>1, <3>1 DEF ThreadOk, Driving, PhaseInv, LoopInv, RunsInv, HoldoutInv
  <2>2. CASE u # t
    <3>1. op'[u] = op[u] /\ local'[u] = local[u]
      BY <1>2, <2>2, GoOnTypes DEF OptIInv
    <3>2. ThreadOk(u)
      BY DEF OptIInv
    <3>3. PhaseInv(u)' /\ LoopInv(u)'
      BY <3>1, <3>2, SelectionFrame
         DEF ThreadOk, PhaseInv, LoopInv, optRows, runsFor
    <3>4. RunsInv(u)'
      BY <3>1, <3>2
         DEF ThreadOk, RunsInv, IsEvidence, runVars, rows, threads, optRows, runsFor
    <3>5. HoldoutInv(u)'
      BY <3>1, <3>2, SelectionFrame, RowsFrame
         DEF ThreadOk, HoldoutInv, IsEvidence, runVars, rows, optRows, runsFor,
             NothingSelected, NothingHeldOut
    <3>6. QED
      BY <3>3, <3>4, <3>5 DEF ThreadOk
  <2>3. QED
    BY <2>1, <2>2
<1>7. QED
  BY <1>1, <1>3, <1>4, <1>6 DEF OptIInv

\* A step of the thread that drives: the others do not care what it does.
LEMMA DriverStep ==
    ASSUME OptIInv, NEW t \in Optimizers,
           \A u \in Optimizers \ {t} : ~Driving(u),
           \A u \in Optimizers \ {t} : /\ op'[u] = op[u] /\ local'[u] = local[u]
                                       /\ pc'[u] = pc[u],
           IInv', OptTypeOK', HoldoutIsSealed', RowsInv', EvidenceInv',
           ThreadOk(t)'
    PROVE  OptIInv'
<1>1. ASSUME NEW u \in Optimizers, u # t PROVE ~Driving(u)' /\ ThreadOk(u)'
  <2>1. pc[u] = "idle"
    BY <1>1 DEF OptIInv, ThreadOk, RunsInv, Driving
  <2>2. ~Driving(u)' /\ pc'[u] = "idle"
    BY <1>1, <2>1 DEF Driving
  <2>3. QED
    BY <2>2 DEF ThreadOk, Driving, PhaseInv, LoopInv, RunsInv, HoldoutInv
<1>2. OneDriver'
  BY <1>1 DEF OneDriver
<1>3. QED
  BY <1>1, <1>2 DEF OptIInv
\* The same when only the control of the thread changes.
LEMMA ControlStep ==
    ASSUME OptIInv, NEW t \in Optimizers, Driving(t),
           NEW label \in Ops, NEW locals \in Locals, GoOn(t, label, locals),
           UNCHANGED <<runVars, optRows, runsFor>>,
           ThreadOk(t)'
    PROVE  OptIInv'
<1>1. IInv' /\ HoldoutIsSealed' /\ RowsInv' /\ EvidenceInv'
  BY RowsFrame
<1>2. OptTypeOK'
  BY <1>1, GoOnTypes DEF OptIInv, IInv, OptTypeOK, runVars, optRows, runsFor
<1>3. \A u \in Optimizers \ {t} : ~Driving(u)
  BY DEF OptIInv, OneDriver
<1>4. \A u \in Optimizers \ {t} : /\ op'[u] = op[u] /\ local'[u] = local[u]
                                  /\ pc'[u] = pc[u]
  BY GoOnTypes DEF OptIInv, runVars, threads
<1>5. QED
  BY <1>1, <1>2, <1>3, <1>4, DriverStep

\* A thread that raises gives up driving.
LEMMA RaiseOutStep ==
    ASSUME OptIInv, NEW t \in Optimizers, RaiseOut(t), pc[t] = "idle",
           UNCHANGED <<runVars, optRows, runsFor>>
    PROVE  OptIInv'
<1>1. "raised" \in Ops /\ local[t] \in Locals /\ GoOn(t, "raised", local[t])
  BY DEF RaiseOut, Ops, OptIInv, OptTypeOK
<1>2. op'[t] = "raised" /\ pc'[t] = "idle"
  BY <1>1, GoOnTypes DEF OptIInv, runVars, threads
<1>3. ThreadOk(t)'
  BY <1>2 DEF ThreadOk, PhaseInv, LoopInv, RunsInv, HoldoutInv
<1>4. CASE Driving(t)
  BY <1>1, <1>3, <1>4, ControlStep
<1>5. CASE ~Driving(t)
  BY <1>1, <1>5, WaitingStep
<1>6. QED
  BY <1>4, <1>5

--------------------------------------------------------------------------------
(* The steps of a request before and after it drives the optimization      *)

LEMMA PostOptimizeStep ==
    ASSUME OptIInv, NEW t \in Optimizers, PostOptimize(t)
    PROVE  OptIInv'
  BY WaitingStep, NoLocalType DEF PostOptimize, Driving, runsFor

LEMMA GetOptimizationStep ==
    ASSUME OptIInv, NEW t \in Optimizers, GetOptimization(t)
    PROVE  OptIInv'
  BY WaitingStep, NoLocalType
     DEF GetOptimization, Driving, runsFor, RaiseOut, OptIInv, OptTypeOK

LEMMA AnswerOptimizeStep ==
    ASSUME OptIInv, NEW t \in Optimizers, AnswerOptimize(t)
    PROVE  OptIInv'
  BY WaitingStep, NoLocalType DEF AnswerOptimize, Driving, runsFor

\* A step that only changes the status, on the way to the label next.
LEMMA TransitionStep ==
    ASSUME OptIInv, NEW t \in Optimizers,
           \A u \in Optimizers \ {t} : ~Driving(u),
           NEW from, NEW to \in OptStatuses,
           NEW code \in {"none", "unexpected_error", "no_eligible_candidate"},
           NEW next \in Ops, NEW locals \in Locals,
           TransitionOpt(from, to, code), GoOn(t, next, locals),
           UNCHANGED <<runVars, runsFor>>,
           RowsInv', EvidenceInv', ThreadOk(t)'
    PROVE  OptIInv'
<1>1. IInv'
  BY StutterStep DEF OptIInv, runVars, rows, history, threads, vars
<1>2. OptTypeOK'
  BY <1>1, GoOnTypes
     DEF OptIInv, IInv, OptTypeOK, runVars, runsFor, TransitionOpt
<1>3. HoldoutIsSealed'
  BY DEF OptIInv, HoldoutIsSealed, HoldoutRuns, runsFor, TransitionOpt
<1>4. \A u \in Optimizers \ {t} : /\ op'[u] = op[u] /\ local'[u] = local[u]
                                  /\ pc'[u] = pc[u]
  BY GoOnTypes DEF OptIInv, runVars, threads
<1>5. QED
  BY <1>1, <1>2, <1>3, <1>4, DriverStep

\* A thread that serves no run has not called the service.
LEMMA NotInService ==
    ASSUME OptIInv, NEW t \in Optimizers, op[t] # "execute"
    PROVE  pc[t] = "idle"
  BY DEF OptIInv, ThreadOk, RunsInv

LEMMA OthersDoNotDrive ==
    ASSUME OptIInv, NEW t \in Optimizers, Driving(t)
    PROVE  \A u \in Optimizers \ {t} : ~Driving(u)
  BY DEF OptIInv, OneDriver

\* A guarded transition: what it has to establish when its guard holds.
LEMMA TransitionOrRaiseStep ==
    ASSUME OptIInv, NEW t \in Optimizers, op[t] # "execute",
           NEW from, NEW to \in OptStatuses,
           NEW code \in {"none", "unexpected_error", "no_eligible_candidate"},
           NEW next \in Ops, NEW locals \in Locals,
           TransitionOrRaise(t, from, to, code, next, locals),
           Driving(t) \/ from = "created",
           /\ TransitionOpt(from, to, code)
           /\ op'[t] = next /\ local'[t] = locals /\ pc'[t] = "idle"
           => RowsInv' /\ EvidenceInv' /\ ThreadOk(t)'
    PROVE  OptIInv'
<1>1. CASE optStatus # from /\ RaiseOut(t) /\ UNCHANGED optRows
  BY <1>1, NotInService, RaiseOutStep DEF TransitionOrRaise, runsFor
<1>2. CASE TransitionOpt(from, to, code) /\ GoOn(t, next, locals)
  <2>1. \A u \in Optimizers \ {t} : ~Driving(u)
    BY <1>2, DrivenStatus, OthersDoNotDrive DEF TransitionOpt
  <2>2. op'[t] = next /\ local'[t] = locals /\ pc'[t] = "idle"
    BY <1>2, GoOnTypes, NotInService
       DEF OptIInv, TransitionOrRaise, runVars, threads
  <2>3. UNCHANGED <<runVars, runsFor>>
    BY DEF TransitionOrRaise, runsFor
  <2>4. QED
    BY <1>2, <2>1, <2>2, <2>3, TransitionStep
<1>3. QED
  BY <1>1, <1>2 DEF TransitionOrRaise

\* A transition changes the status, and the failure code if it has one.
LEMMA TransitionFrame ==
    ASSUME OptIInv, NEW from, NEW to, NEW code, TransitionOpt(from, to, code),
           UNCHANGED <<runVars, runsFor>>
    PROVE  /\ optStatus' = to /\ optStatus = from
           /\ optFailure' = IF code = "none" THEN optFailure ELSE code
           /\ selection' = selection /\ holdout' = holdout
           /\ HoldoutRuns' = HoldoutRuns /\ Pending' = Pending
           /\ SelectionOfRows' = SelectionOfRows /\ derived' = derived
           /\ to # "completed" => EvidenceInv'
<1>1. /\ HoldoutRuns' = HoldoutRuns /\ Pending' = Pending
      /\ SelectionOfRows' = SelectionOfRows
  BY SelectionFrame DEF TransitionOpt, HoldoutRuns, runsFor
<1>2. to # "completed" => EvidenceInv'
  BY DEF OptIInv, EvidenceInv, IsEvidence, TransitionOpt, runVars, rows, runsFor
<1>3. QED
  BY <1>1, <1>2 DEF TransitionOpt, runsFor

LEMMA StartValidatingStep ==
    ASSUME OptIInv, NEW t \in Optimizers, StartValidating(t)
    PROVE  OptIInv'
<1>1. ASSUME TransitionOpt("created", "validating", "none"), op'[t] = "begin"
      PROVE  RowsInv' /\ ThreadOk(t)' /\ EvidenceInv'
  <2>1. RowsInv' /\ EvidenceInv'
    BY <1>1, TransitionFrame
       DEF OptIInv, RowsInv, NothingSelected, NothingHeldOut, StartValidating,
           TransitionOrRaise, runsFor
  <2>2. ThreadOk(t)'
    BY <1>1, NotInService
       DEF ThreadOk, PhaseInv, LoopInv, RunsInv, HoldoutInv, TransitionOpt,
           StartValidating, TransitionOrRaise, runVars, threads
  <2>3. QED
    BY <2>1, <2>2
<1>2. QED
  BY <1>1, TransitionOrRaiseStep, NoLocalType
     DEF StartValidating, Ops, Calls, OptStatuses

LEMMA StartTrainValidationStep ==
    ASSUME OptIInv, NEW t \in Optimizers, StartTrainValidation(t)
    PROVE  OptIInv'
<1>1. ASSUME TransitionOpt("validating", "running_train_validation", "none"),
             op'[t] = "list", pc'[t] = "idle"
      PROVE  RowsInv' /\ ThreadOk(t)' /\ EvidenceInv'
  <2>1. RowsInv' /\ EvidenceInv' /\ derived' = {}
    BY <1>1, TransitionFrame
       DEF OptIInv, RowsInv, NothingSelected, NothingHeldOut,
           StartTrainValidation, TransitionOrRaise, runsFor
  <2>2. ThreadOk(t)'
    BY <1>1, <2>1
       DEF ThreadOk, PhaseInv, LoopInv, RunsInv, HoldoutInv, TransitionOpt
  <2>3. QED
    BY <2>1, <2>2
<1>2. QED
  BY <1>1, TransitionOrRaiseStep, NoLocalType
     DEF StartTrainValidation, Driving, Ops, Calls, OptStatuses

LEMMA StartSelectingStep ==
    ASSUME OptIInv, NEW t \in Optimizers, StartSelecting(t)
    PROVE  OptIInv'
<1>1. ASSUME TransitionOpt("running_train_validation", "selecting", "none"),
             op'[t] = "relist", pc'[t] = "idle"
      PROVE  RowsInv' /\ ThreadOk(t)' /\ EvidenceInv'
  <2>1. RowsInv' /\ EvidenceInv' /\ selection' = NothingSelected
    BY <1>1, TransitionFrame
       DEF OptIInv, RowsInv, ThreadOk, LoopInv, NothingSelected, NothingHeldOut,
           StartSelecting, TransitionOrRaise, runsFor
  <2>2. ThreadOk(t)'
    BY <1>1, <2>1
       DEF ThreadOk, PhaseInv, LoopInv, RunsInv, HoldoutInv, TransitionOpt,
           NothingSelected
  <2>3. QED
    BY <2>1, <2>2
<1>2. QED
  BY <1>1, TransitionOrRaiseStep, NoLocalType
     DEF StartSelecting, Driving, Ops, Calls, OptStatuses

LEMMA FailNoEligibleStep ==
    ASSUME OptIInv, NEW t \in Optimizers, FailNoEligible(t)
    PROVE  OptIInv'
<1>1. ASSUME TransitionOpt("selecting", "failed", "no_eligible_candidate"),
             op'[t] = "reread", pc'[t] = "idle"
      PROVE  RowsInv' /\ ThreadOk(t)' /\ EvidenceInv'
  <2>1. RowsInv' /\ EvidenceInv'
    BY <1>1, TransitionFrame
       DEF OptIInv, RowsInv, ThreadOk, HoldoutInv, NothingSelected,
           NothingHeldOut, FailNoEligible, TransitionOrRaise, runsFor
  <2>2. ThreadOk(t)'
    BY <1>1 DEF ThreadOk, PhaseInv, LoopInv, RunsInv, HoldoutInv
  <2>3. QED
    BY <2>1, <2>2
<1>2. QED
  BY <1>1, TransitionOrRaiseStep, NoLocalType
     DEF FailNoEligible, Driving, Ops, Calls, OptStatuses

LEMMA StartHoldoutStep ==
    ASSUME OptIInv, NEW t \in Optimizers, StartHoldout(t)
    PROVE  OptIInv'
<1>1. ASSUME TransitionOpt("selecting", "running_holdout", "none"),
             op'[t] = "create", pc'[t] = "idle", local'[t] = local[t]
      PROVE  RowsInv' /\ ThreadOk(t)' /\ EvidenceInv'
  <2>1. /\ local[t].leg = "holdout" /\ selection = SelectionOfRows
        /\ local[t].current = selection.choice
        /\ local[t].current # NoCandidate
        /\ holdout = NothingHeldOut /\ HoldoutRuns = {}
    BY <1>1 DEF OptIInv, RowsInv, ThreadOk, PhaseInv, HoldoutInv, StartHoldout,
                TransitionOpt
  <2>2. RowsInv' /\ EvidenceInv'
    BY <1>1, <2>1, TransitionFrame
       DEF OptIInv, RowsInv, NothingSelected, NothingHeldOut, StartHoldout,
           TransitionOrRaise, runsFor
  <2>3. ThreadOk(t)'
    BY <1>1, <2>1, TransitionFrame
       DEF ThreadOk, PhaseInv, LoopInv, RunsInv, HoldoutInv, StartHoldout,
           TransitionOrRaise, runsFor, NothingHeldOut, Legs
  <2>4. QED
    BY <2>2, <2>3
<1>2. local[t] \in Locals
  BY DEF OptIInv, OptTypeOK
<1>3. QED
  BY <1>1, <1>2, TransitionOrRaiseStep
     DEF StartHoldout, Driving, Ops, Calls, OptStatuses

LEMMA CompleteOptimizationStep ==
    ASSUME OptIInv, NEW t \in Optimizers, CompleteOptimization(t)
    PROVE  OptIInv'
<1>1. ASSUME TransitionOpt("running_holdout", "completed", "none"),
             op'[t] = "reread", pc'[t] = "idle"
      PROVE  RowsInv' /\ ThreadOk(t)' /\ EvidenceInv'
  <2>1. RowsInv'
    BY <1>1, TransitionFrame
       DEF OptIInv, RowsInv, NothingSelected, NothingHeldOut,
           CompleteOptimization, TransitionOrRaise, runsFor
  <2>2. EvidenceInv'
    BY <1>1 DEF OptIInv, ThreadOk, HoldoutInv, EvidenceInv, IsEvidence,
                TransitionOpt, CompleteOptimization, TransitionOrRaise, runVars,
                rows
  <2>3. ThreadOk(t)'
    BY <1>1 DEF ThreadOk, PhaseInv, LoopInv, RunsInv, HoldoutInv
  <2>4. QED
    BY <2>1, <2>2, <2>3
<1>2. QED
  BY <1>1, TransitionOrRaiseStep, NoLocalType
     DEF CompleteOptimization, Driving, Ops, Calls, OptStatuses

LEMMA TryFailStep ==
    ASSUME OptIInv, NEW t \in Optimizers, TryFail(t)
    PROVE  OptIInv'
<1>1. pc[t] = "idle" /\ Driving(t)
  BY NotInService DEF TryFail, Driving
<1>2. /\ RaiseOut(t) /\ UNCHANGED <<runVars, runsFor>>
      /\ "raised" \in Ops /\ local[t] \in Locals
  BY DEF TryFail, runsFor, OptIInv, OptTypeOK, Ops
<1>3. CASE UNCHANGED optRows
  BY <1>1, <1>2, <1>3, RaiseOutStep
<1>4. ASSUME NEW from \in {"running_holdout", "running_train_validation"},
             TransitionOpt(from, "failed", "unexpected_error")
      PROVE  OptIInv'
  <2>1. op'[t] = "raised" /\ pc'[t] = "idle"
    BY <1>1, <1>2, GoOnTypes DEF OptIInv, RaiseOut, runVars, threads
  <2>2. RowsInv' /\ EvidenceInv'
    BY <1>2, <1>4, TransitionFrame
       DEF OptIInv, RowsInv, NothingSelected, NothingHeldOut
  <2>3. ThreadOk(t)'
    BY <2>1 DEF ThreadOk, PhaseInv, LoopInv, RunsInv, HoldoutInv
  <2>4. QED
    BY <1>1, <1>2, <1>4, <2>2, <2>3, OthersDoNotDrive, TransitionStep
       DEF RaiseOut, OptStatuses
<1>5. QED
  BY <1>3, <1>4 DEF TryFail
--------------------------------------------------------------------------------
(* The loop over the candidates                                            *)

LEMMA TakeNextGoesOn ==
    ASSUME NEW t \in Optimizers, NEW todo \in SUBSET Candidates,
           TakeNext(t, todo)
    PROVE  \E label \in Ops, l \in Locals :
              /\ GoOn(t, label, l)
              /\ \/ label = "select" /\ todo = {}
                 \/ /\ label = "spec" /\ l.leg = "train"
                    /\ l.current \in todo /\ l.todo = todo \ {l.current}
<1> DEFINE first == [NoLocal EXCEPT !.todo = todo \ {FirstOf(todo)},
                                    !.current = FirstOf(todo),
                                    !.leg = "train"]
<1>1. CASE todo = {}
  <2>1. GoOn(t, "select", NoLocal)
    BY <1>1 DEF TakeNext
  <2>2. QED
    BY <1>1, <2>1, NoLocalType DEF Ops, Calls
<1>2. CASE todo # {}
  <2>1. FirstOf(todo) \in todo
    BY <1>2, FirstOfTodo
  <2>2. first \in Locals /\ first.leg = "train" /\ first.current = FirstOf(todo)
        /\ first.todo = todo \ {FirstOf(todo)}
    BY <2>1 DEF NoLocal, Locals, Legs
  <2>3. GoOn(t, "spec", first)
    BY <1>2 DEF TakeNext
  <2>4. "spec" \in Ops
    BY DEF Ops, Calls
  <2> HIDE DEF first
  <2>5. QED
    BY <2>1, <2>2, <2>3, <2>4
<1>3. QED
  BY <1>1, <1>2

LEMMA ListCandidatesStep ==
    ASSUME OptIInv, NEW t \in Optimizers, ListCandidates(t)
    PROVE  OptIInv'
<1>1. /\ optStatus = "running_train_validation" /\ derived = {}
      /\ pc[t] = "idle" /\ Driving(t)
  BY NotInService DEF OptIInv, ThreadOk, PhaseInv, LoopInv, ListCandidates, Driving
<1>2. TakeNext(t, Pending) /\ Pending \in SUBSET Candidates
  BY DEF ListCandidates, Pending
<1>3. PICK label \in Ops, l \in Locals :
         /\ GoOn(t, label, l)
         /\ \/ label = "select" /\ Pending = {}
            \/ /\ label = "spec" /\ l.leg = "train"
               /\ l.current \in Pending /\ l.todo = Pending \ {l.current}
  BY <1>2, TakeNextGoesOn
<1>4. UNCHANGED <<runVars, optRows, runsFor>>
  BY DEF ListCandidates, runsFor
<1>5. /\ op'[t] = label /\ local'[t] = l /\ pc'[t] = "idle"
      /\ optStatus' = "running_train_validation" /\ derived' = {}
      /\ Pending' = Pending
  BY <1>1, <1>3, <1>4, GoOnTypes, SelectionFrame
     DEF OptIInv, runVars, threads, optRows, runsFor
<1>6. ThreadOk(t)'
  <2>1. PhaseInv(t)' /\ RunsInv(t)' /\ HoldoutInv(t)'
    BY <1>3, <1>5 DEF PhaseInv, RunsInv, HoldoutInv, Legs
  <2>2. LoopInv(t)'
    BY <1>2, <1>3, <1>5 DEF LoopInv
  <2>3. QED
    BY <2>1, <2>2 DEF ThreadOk
<1>7. QED
  BY <1>1, <1>3, <1>4, <1>6, ControlStep

LEMMA CreateStrategySpecStep ==
    ASSUME OptIInv, NEW t \in Optimizers, CreateStrategySpec(t)
    PROVE  OptIInv'
<1> DEFINE l == local[t]
<1>1. /\ optStatus = "running_train_validation" /\ l.leg = "train"
      /\ l \in Locals /\ l.current \in Candidates /\ l.current \notin l.todo
      /\ Pending = l.todo \cup {l.current} /\ derived \cap Pending = {}
      /\ pc[t] = "idle" /\ Driving(t)
  BY NotInService DEF OptIInv, OptTypeOK, ThreadOk, PhaseInv, LoopInv,
                      CreateStrategySpec, Driving
<1>2. GoOn(t, "create", l) /\ "create" \in Ops
      /\ derived' = derived \cup {l.current}
      /\ UNCHANGED <<runVars, optRows, runFor, runnable>>
  BY DEF CreateStrategySpec, Ops, Calls
<1>3. /\ op'[t] = "create" /\ local'[t] = l /\ pc'[t] = "idle"
      /\ optStatus' = optStatus /\ Pending' = Pending
      /\ HoldoutRuns' = HoldoutRuns
  BY <1>1, <1>2, GoOnTypes, SelectionFrame
     DEF OptIInv, runVars, threads, optRows, HoldoutRuns
<1>4. IInv'
  BY <1>2, StutterStep DEF OptIInv, runVars, rows, history, threads, vars
<1>5. OptTypeOK'
  BY <1>1, <1>2, <1>4, GoOnTypes DEF OptIInv, IInv, OptTypeOK, runVars, optRows
<1>6. HoldoutIsSealed' /\ EvidenceInv'
  BY <1>2, <1>3 DEF OptIInv, HoldoutIsSealed, EvidenceInv, IsEvidence, runVars,
                    rows, optRows
<1>7. RowsInv'
  BY <1>1, <1>2, <1>3, SelectionFrame
     DEF OptIInv, RowsInv, optRows, NothingSelected, NothingHeldOut
<1>8. ThreadOk(t)'
  BY <1>1, <1>2, <1>3 DEF ThreadOk, PhaseInv, LoopInv, RunsInv, HoldoutInv, Legs
<1>9. \A u \in Optimizers \ {t} : /\ op'[u] = op[u] /\ local'[u] = local[u]
                                  /\ pc'[u] = pc[u]
  BY <1>1, <1>2, GoOnTypes DEF OptIInv, runVars, threads
<1>10. QED
  BY <1>1, <1>4, <1>5, <1>6, <1>7, <1>8, <1>9, OthersDoNotDrive, DriverStep

\* A repository call raises: inside the try blocks the thread goes on to fail
\* the optimization, elsewhere it gives up.
LEMMA OptDatabaseErrorStep ==
    ASSUME OptIInv, NEW t \in Optimizers, OptDatabaseError(t)
    PROVE  OptIInv'
<1>1. pc[t] = "idle" /\ local[t] \in Locals
      /\ UNCHANGED <<runVars, optRows, runsFor>>
  BY NotInService DEF OptIInv, OptTypeOK, OptDatabaseError, Calls, runsFor
<1>2. CASE op[t] \notin Guarded
  BY <1>1, <1>2, RaiseOutStep DEF OptDatabaseError, RaiseOut
<1>3. CASE op[t] \in Guarded
  <2>1. GoOn(t, "fail", local[t]) /\ "fail" \in Ops /\ Driving(t)
    BY <1>3 DEF OptDatabaseError, Ops, Calls, Driving, Guarded
  <2>2. /\ op'[t] = "fail" /\ local'[t] = local[t] /\ pc'[t] = "idle"
        /\ optStatus' = optStatus
    BY <1>1, <2>1, GoOnTypes DEF OptIInv, runVars, threads, optRows
  <2>3. ThreadOk(t)'
    BY <1>3, <2>2 DEF OptIInv, ThreadOk, PhaseInv, LoopInv, RunsInv, HoldoutInv,
                      Guarded, Legs
  <2>4. QED
    BY <1>1, <2>1, <2>3, ControlStep
<1>4. QED
  BY <1>2, <1>3

\* Which evidence a run is depends on nothing but the tables of runs.
LEMMA EvidenceFrame ==
    ASSUME UNCHANGED <<runVars, runFor>>,
           NEW r, NEW leg, NEW c, NEW terminal
    PROVE  IsEvidence(r, leg, c, terminal)' = IsEvidence(r, leg, c, terminal)
  BY DEF IsEvidence, runVars, rows

LEMMA RecordCandidateStep ==
    ASSUME OptIInv, NEW t \in Optimizers, RecordCandidate(t)
    PROVE  OptIInv'
<1>0. PICK l \in Locals, c \in Candidates : l = local[t] /\ c = l.current
  BY DEF OptIInv, OptTypeOK, ThreadOk, PhaseInv, LoopInv, RecordCandidate
<1>1. /\ optStatus = "running_train_validation"
      /\ l \in Locals /\ c \in Candidates /\ c \notin l.todo
      /\ Pending = l.todo \cup {c} /\ derived \cap Pending \subseteq {c}
      /\ pc[t] = "idle" /\ Driving(t)
  BY <1>0, NotInService
     DEF OptIInv, OptTypeOK, ThreadOk, PhaseInv, LoopInv, RecordCandidate, Driving
<1>2. PICK objective \in ObjectivesOf(t) :
         candidate' = [candidate EXCEPT ![c] =
             [status |-> IF l.failed THEN "failed" ELSE "completed",
              train |-> l.run["train"], validation |-> l.run["validation"],
              objective |-> objective]]
  BY <1>0 DEF RecordCandidate
<1>3. /\ objective \in Objectives \cup {NotAvailable}
      /\ l.failed => objective = NotAvailable
  BY <1>0 DEF ObjectivesOf
<1>4. /\ TakeNext(t, l.todo) /\ l.todo \in SUBSET Candidates
      /\ UNCHANGED <<optStatus, optFailure, selection, holdout>>
      /\ UNCHANGED <<runVars, runsFor>>
  BY <1>0, <1>1 DEF RecordCandidate, runsFor, Locals
<1>5. PICK label \in Ops, m \in Locals :
         /\ GoOn(t, label, m)
         /\ \/ label = "select" /\ l.todo = {}
            \/ /\ label = "spec" /\ m.leg = "train"
               /\ m.current \in l.todo /\ m.todo = l.todo \ {m.current}
  BY <1>4, TakeNextGoesOn
<1>6. /\ op'[t] = label /\ local'[t] = m /\ pc'[t] = "idle"
      /\ \A u \in Optimizers \ {t} : /\ op'[u] = op[u] /\ local'[u] = local[u]
                                     /\ pc'[u] = pc[u]
  BY <1>1, <1>4, <1>5, GoOnTypes DEF OptIInv, runVars, threads
<1>7. candidate \in [Candidates -> CandidateRows]
  BY DEF OptIInv, OptTypeOK
<1>8. /\ candidate' \in [Candidates -> CandidateRows]
      /\ candidate'[c].objective = objective
      /\ candidate'[c].status = IF l.failed THEN "failed" ELSE "completed"
      /\ candidate'[c].train = l.run["train"]
      /\ candidate'[c].validation = l.run["validation"]
      /\ \A d \in Candidates \ {c} : candidate'[d] = candidate[d]
  <2>1. l.run["train"] \in Runs \cup {NoRun} /\ l.run["validation"] \in Runs \cup {NoRun}
    BY <1>1 DEF Locals, Legs
  <2>2. [status |-> IF l.failed THEN "failed" ELSE "completed",
         train |-> l.run["train"], validation |-> l.run["validation"],
         objective |-> objective] \in CandidateRows
    BY <1>3, <2>1 DEF CandidateRows, CandidateStatuses
  <2>3. QED
    BY <1>1, <1>2, <1>7, <2>2
<1>9. Pending' = l.todo
  BY <1>1, <1>8 DEF Pending
<1>10. IInv'
  BY <1>4, StutterStep DEF OptIInv, runVars, rows, history, threads, vars
<1>11. OptTypeOK'
  BY <1>4, <1>5, <1>8, <1>10, GoOnTypes
     DEF OptIInv, IInv, OptTypeOK, runVars, runsFor
<1>12. HoldoutIsSealed' /\ HoldoutRuns' = HoldoutRuns
  BY <1>4 DEF OptIInv, HoldoutIsSealed, HoldoutRuns, runsFor
<1>13. RowsInv'
  BY <1>1, <1>4, <1>9, <1>12
     DEF OptIInv, RowsInv, runsFor, NothingSelected, NothingHeldOut
<1>14. EvidenceInv'
  <2>1. candidate'[c].status = "completed" =>
           /\ IsEvidence(l.run["train"], "train", c, {"completed"})
           /\ IsEvidence(l.run["validation"], "validation", c, {"completed"})
    BY <1>0, <1>8 DEF OptIInv, ThreadOk, RunsInv, RecordCandidate
  <2>2. /\ candidate'[c].objective # NotAvailable =>
              candidate'[c].status = "completed"
        /\ candidate'[c].status = "completed" =>
              /\ IsEvidence(candidate[c].train, "train", c, {"completed"})'
              /\ IsEvidence(candidate[c].validation, "validation", c,
                            {"completed"})'
    BY <1>3, <1>4, <1>8, <2>1, EvidenceFrame DEF runsFor
  <2>3. \A d \in Candidates \ {c} :
           /\ candidate'[d].objective # NotAvailable =>
                 candidate'[d].status = "completed"
           /\ candidate'[d].status = "completed" =>
                 /\ IsEvidence(candidate[d].train, "train", d, {"completed"})'
                 /\ IsEvidence(candidate[d].validation, "validation", d,
                               {"completed"})'
    BY <1>4, <1>8, EvidenceFrame DEF OptIInv, EvidenceInv, runsFor
  <2>4. QED
    BY <1>1, <1>4, <2>2, <2>3 DEF OptIInv, EvidenceInv, runsFor, runVars, rows
<1>15. ThreadOk(t)'
  <2>1. PhaseInv(t)' /\ RunsInv(t)' /\ HoldoutInv(t)'
    BY <1>1, <1>4, <1>5, <1>6 DEF PhaseInv, RunsInv, HoldoutInv, Legs
  <2>2. LoopInv(t)'
    BY <1>1, <1>4, <1>5, <1>6, <1>9 DEF LoopInv, runsFor
  <2>3. QED
    BY <2>1, <2>2 DEF ThreadOk
<1>16. QED
  BY <1>1, <1>6, <1>10, <1>11, <1>12, <1>13, <1>14, <1>15, OthersDoNotDrive,
     DriverStep
--------------------------------------------------------------------------------
(* The selection and the result of the holdout                             *)

LEMMA ListForSelectionStep ==
    ASSUME OptIInv, NEW t \in Optimizers, ListForSelection(t)
    PROVE  OptIInv'
<1> DEFINE l == [NoLocal EXCEPT !.audit = AuditOf(candidate)]
<1>1. /\ optStatus = "selecting" /\ selection = NothingSelected
      /\ pc[t] = "idle" /\ Driving(t)
  BY NotInService DEF OptIInv, ThreadOk, PhaseInv, HoldoutInv, ListForSelection,
                      Driving
<1>2. /\ l \in Locals /\ l.audit = AuditOf(candidate)
  BY AuditOfRows DEF OptIInv, NoLocal, Locals, Legs
<1>3. /\ GoOn(t, "decide", l) /\ "decide" \in Ops
      /\ UNCHANGED <<runVars, optRows, runsFor>>
  BY DEF ListForSelection, Ops, Calls, runsFor
<1>4. /\ op'[t] = "decide" /\ local'[t] = l /\ pc'[t] = "idle"
      /\ optStatus' = optStatus /\ selection' = selection
      /\ AuditOf(candidate)' = AuditOf(candidate)
  <2> HIDE DEF l
  <2>1. QED
    BY <1>1, <1>2, <1>3, GoOnTypes, SelectionFrame
       DEF OptIInv, runVars, threads, optRows
<1>5. ThreadOk(t)'
  <2> HIDE DEF l
  <2>1. QED
    BY <1>1, <1>2, <1>4 DEF ThreadOk, PhaseInv, LoopInv, RunsInv, HoldoutInv,
                            NothingSelected
<1>6. QED
  <2> HIDE DEF l
  <2>1. QED
    BY <1>1, <1>2, <1>3, <1>5, ControlStep

LEMMA SelectionType ==
    ASSUME OptTypeOK
    PROVE  SelectCandidate(AuditOf(candidate)) \in Candidates \cup {NoCandidate}
<1>1. Eligible(AuditOf(candidate)) \subseteq AuditEntries
  BY AuditOfRows DEF Eligible
<1>2. \A e \in AuditEntries : e.id \in Candidates
  BY DEF AuditEntries
<1>3. QED
  BY <1>1, <1>2, AuditOfRows, SelectedBeatsAll

LEMMA RecordSelectionStep ==
    ASSUME OptIInv, NEW t \in Optimizers, RecordSelection(t)
    PROVE  OptIInv'
<1>0. PICK audit, choice :
         audit = AuditOf(candidate) /\ choice = SelectCandidate(audit)
  OBVIOUS
<1>1. /\ optStatus = "selecting" /\ local[t].audit = audit
      /\ selection = NothingSelected
      /\ HoldoutRuns = {} /\ holdout = NothingHeldOut
      /\ pc[t] = "idle" /\ Driving(t)
  BY <1>0, NotInService DEF OptIInv, RowsInv, ThreadOk, PhaseInv, HoldoutInv,
                            RecordSelection, Driving
<1>2. /\ choice \in Candidates \cup {NoCandidate}
      /\ audit \in SUBSET AuditEntries
  BY <1>0, SelectionType, AuditOfRows DEF OptIInv
<1>3. /\ selection' = [choice |-> choice, audit |-> audit]
      /\ UNCHANGED <<optStatus, optFailure, candidate, holdout>>
      /\ UNCHANGED <<runVars, runsFor>>
  BY <1>0, <1>1 DEF RecordSelection, runsFor
<1>4. PICK label \in Ops, l \in Locals :
         /\ GoOn(t, label, l)
         /\ \/ label = "no_eligible" /\ choice = NoCandidate
            \/ /\ label = "start_holdout" /\ choice # NoCandidate
               /\ l.leg = "holdout" /\ l.current = choice
  <2>1. CASE choice = NoCandidate
    <3>1. GoOn(t, "no_eligible", NoLocal)
      BY <1>0, <1>1, <2>1 DEF RecordSelection
    <3>2. QED
      BY <2>1, <3>1, NoLocalType DEF Ops, Calls
  <2>2. CASE choice # NoCandidate
    <3> DEFINE m == [NoLocal EXCEPT !.current = choice, !.leg = "holdout"]
    <3>1. GoOn(t, "start_holdout", m)
      BY <1>0, <1>1, <2>2 DEF RecordSelection
    <3>2. m \in Locals /\ m.leg = "holdout" /\ m.current = choice
      BY <1>2 DEF NoLocal, Locals, Legs
    <3>3. "start_holdout" \in Ops
      BY DEF Ops, Calls
    <3> HIDE DEF m
    <3>4. QED
      BY <2>2, <3>1, <3>2, <3>3
  <2>3. QED
    BY <2>1, <2>2
<1>5. /\ op'[t] = label /\ local'[t] = l /\ pc'[t] = "idle"
      /\ \A u \in Optimizers \ {t} : /\ op'[u] = op[u] /\ local'[u] = local[u]
                                     /\ pc'[u] = pc[u]
  BY <1>1, <1>3, <1>4, GoOnTypes DEF OptIInv, runVars, threads
<1>6. IInv'
  BY <1>3, StutterStep DEF OptIInv, runVars, rows, history, threads, vars
<1>7. OptTypeOK'
  BY <1>2, <1>3, <1>4, <1>6, GoOnTypes
     DEF OptIInv, IInv, OptTypeOK, runVars, runsFor
<1>8. HoldoutRuns' = {} /\ HoldoutIsSealed'
  BY <1>1, <1>3 DEF HoldoutIsSealed, HoldoutRuns, runsFor
<1>9. selection' = SelectionOfRows'
  BY <1>0, <1>3, SelectionFrame DEF SelectionOfRows
<1>10. RowsInv'
  BY <1>1, <1>3, <1>8, <1>9, SelectionFrame
     DEF OptIInv, RowsInv, runsFor, NothingHeldOut
<1>11. EvidenceInv'
  BY <1>1, <1>3, EvidenceFrame DEF OptIInv, EvidenceInv, runVars, rows, runsFor
<1>12. ThreadOk(t)'
  BY <1>1, <1>3, <1>4, <1>5, <1>9
     DEF ThreadOk, PhaseInv, LoopInv, RunsInv, HoldoutInv, NothingHeldOut
<1>13. QED
  BY <1>1, <1>5, <1>6, <1>7, <1>8, <1>10, <1>11, <1>12, OthersDoNotDrive,
     DriverStep

LEMMA RecordHoldoutStep ==
    ASSUME OptIInv, NEW t \in Optimizers, RecordHoldout(t)
    PROVE  OptIInv'
<1>0. PICK l \in Locals : l = local[t]
  BY DEF OptIInv, OptTypeOK
<1>1. /\ optStatus = "running_holdout" /\ l.leg = "holdout"
      /\ IsEvidence(l.run["holdout"], "holdout", selection.choice,
                    {"completed", "failed"})
      /\ l.run["holdout"] \in Runs \cup {NoRun}
      /\ pc[t] = "idle" /\ Driving(t)
  BY <1>0, NotInService DEF OptIInv, ThreadOk, PhaseInv, RunsInv, HoldoutInv,
                            RecordHoldout, Driving, Locals, Legs
<1>2. PICK objective \in Objectives \cup {NotAvailable} :
         holdout' = [run |-> l.run["holdout"], objective |-> objective]
  BY <1>0 DEF RecordHoldout, ObjectivesOf
<1>3. /\ GoOn(t, "complete", l) /\ "complete" \in Ops
      /\ UNCHANGED <<optStatus, optFailure, candidate, selection>>
      /\ UNCHANGED <<runVars, runsFor>>
  BY <1>0 DEF RecordHoldout, runsFor, Ops, Calls
<1>4. /\ op'[t] = "complete" /\ local'[t] = l /\ pc'[t] = "idle"
      /\ \A u \in Optimizers \ {t} : /\ op'[u] = op[u] /\ local'[u] = local[u]
                                     /\ pc'[u] = pc[u]
  BY <1>1, <1>3, GoOnTypes DEF OptIInv, runVars, threads
<1>5. IInv'
  BY <1>3, StutterStep DEF OptIInv, runVars, rows, history, threads, vars
<1>6. OptTypeOK'
  BY <1>1, <1>2, <1>3, <1>5, GoOnTypes
     DEF OptIInv, IInv, OptTypeOK, runVars, runsFor
<1>7. HoldoutRuns' = HoldoutRuns /\ HoldoutIsSealed'
  BY <1>3 DEF OptIInv, HoldoutIsSealed, HoldoutRuns, runsFor
<1>8. RowsInv'
  BY <1>1, <1>3, <1>7, SelectionFrame
     DEF OptIInv, RowsInv, runsFor, NothingSelected
<1>9. EvidenceInv'
  BY <1>1, <1>3, EvidenceFrame DEF OptIInv, EvidenceInv, runVars, rows, runsFor
<1>10. IsEvidence(holdout.run, "holdout", selection.choice,
                  {"completed", "failed"})'
  BY <1>1, <1>2, <1>3, EvidenceFrame DEF runsFor
<1>11. ThreadOk(t)'
  BY <1>1, <1>3, <1>4, <1>10
     DEF ThreadOk, PhaseInv, LoopInv, RunsInv, HoldoutInv, Legs
<1>12. QED
  BY <1>1, <1>4, <1>5, <1>6, <1>7, <1>8, <1>9, <1>11, OthersDoNotDrive, DriverStep

--------------------------------------------------------------------------------
(* What steps on the tables of runs leave alone                            *)

\* A published verdict stays, and no run appears or disappears.
Keeps(r) ==
    /\ status[r] \in {"completed", "failed"} /\ bundle[r] = status[r] =>
          status'[r] = status[r] /\ bundle'[r] = bundle[r]
    /\ status[r] = "absent" <=> status'[r] = "absent"

LEMMA ServiceKeeps ==
    ASSUME IInv, NEW t \in Threads, ServiceStep(t)
    PROVE  /\ \A r \in Runs : Keeps(r)
           /\ \A u \in Threads \ {t} : pc'[u] = pc[u]
           /\ pc[t] # "idle" /\ pc'[t] # "idle" /\ target' = target
           /\ reply' = reply
<1>1. TypeOK /\ ThreadInv(t)
  BY DEF IInv
<1>2. CASE GetRun(t) \/ GetStrategy(t) \/ GetSnapshot(t) \/ DatabaseError(t)
  BY <1>1, <1>2 DEF GetRun, GetStrategy, GetSnapshot, DatabaseError, Raise, Goto,
                    TypeOK, rows, RepositoryCalls, Keeps
<1>3. CASE RejectRun(t)
  BY <1>1, <1>3 DEF RejectRun, TransitionStatus, StaleStatus, Raise, Goto, TypeOK,
                    rows, Keeps
<1>4. CASE StartRun(t)
  BY <1>1, <1>4 DEF StartRun, TransitionStatus, StaleStatus, Raise, Goto, TypeOK,
                    rows, Keeps
<1>5. CASE ExecuteEngine(t)
  BY <1>1, <1>5 DEF ExecuteEngine, Goto, TypeOK, rows, Keeps
<1>6. CASE FinishRun(t)
  BY <1>1, <1>6 DEF FinishRun, TransitionStatus, StaleStatus, Raise, Goto, TypeOK,
                    rows, Keeps
<1>7. CASE PersistArtifact(t)
  BY <1>1, <1>7 DEF PersistArtifact, Raise, Goto, TypeOK, ThreadInv,
                    TerminalStatusOf, Keeps
<1>8. QED
  BY <1>2, <1>3, <1>4, <1>5, <1>6, <1>7 DEF ServiceStep
\* Evidence is made of published verdicts, so it stays.
LEMMA EvidenceKept ==
    ASSUME \A r \in Runs : Keeps(r),
           NEW r, NEW leg, NEW c, NEW terminal \in SUBSET {"completed", "failed"},
           IsEvidence(r, leg, c, terminal), runFor'[r] = runFor[r]
    PROVE  IsEvidence(r, leg, c, terminal)'
  BY DEF IsEvidence, Keeps

\* A step on the tables of runs only: what remains to be shown is where the
\* threads are.
LEMMA RunsStep ==
    ASSUME OptIInv, IInv', \A r \in Runs : Keeps(r), UNCHANGED optVars,
           \A u \in Optimizers : pc'[u] # "idle" =>
              op[u] = "execute" /\ target'[u] = local[u].run[local[u].leg]
    PROVE  OptIInv'
<1> USE DEF optVars
<1>1. OptTypeOK' /\ OneDriver'
  BY DEF OptIInv, IInv, OptTypeOK, OneDriver, Driving
<1>2. HoldoutRuns' = HoldoutRuns /\ HoldoutIsSealed'
  BY DEF OptIInv, HoldoutIsSealed, HoldoutRuns
<1>3. RowsInv'
  BY <1>2, SelectionFrame DEF OptIInv, RowsInv, NothingSelected, NothingHeldOut
<1>4. EvidenceInv'
  <2>1. \A r \in Runs : status'[r] = "absent" <=> runFor'[r][1] = "none"
    BY DEF OptIInv, EvidenceInv, Keeps
  <2>2. ASSUME NEW c \in Candidates, candidate[c].status = "completed"
        PROVE  /\ IsEvidence(candidate[c].train, "train", c, {"completed"})'
               /\ IsEvidence(candidate[c].validation, "validation", c,
                             {"completed"})'
    BY <2>2, EvidenceKept DEF OptIInv, EvidenceInv
  <2>3. optStatus = "completed" =>
           IsEvidence(holdout.run, "holdout", selection.choice,
                      {"completed", "failed"})'
    BY EvidenceKept DEF OptIInv, EvidenceInv
  <2>4. QED
    BY <2>1, <2>2, <2>3 DEF OptIInv, EvidenceInv
<1>5. ASSUME NEW u \in Optimizers PROVE ThreadOk(u)'
  <2>1. ThreadOk(u)
    BY DEF OptIInv
  <2>2. PhaseInv(u)' /\ LoopInv(u)'
    BY <2>1, SelectionFrame DEF ThreadOk, PhaseInv, LoopInv
  <2>3. RunsInv(u)'
    BY <2>1, EvidenceKept DEF ThreadOk, RunsInv
  <2>4. HoldoutInv(u)'
    BY <1>2, <2>1, SelectionFrame, EvidenceKept
       DEF ThreadOk, HoldoutInv, NothingSelected, NothingHeldOut
  <2>5. QED
    BY <2>2, <2>3, <2>4 DEF ThreadOk
<1>6. QED
  BY <1>1, <1>2, <1>3, <1>4, <1>5 DEF OptIInv

LEMMA RowsUnchangedKeep ==
    ASSUME UNCHANGED rows
    PROVE  \A r \in Runs : Keeps(r)
  BY DEF rows, Keeps

--------------------------------------------------------------------------------
(* The steps of the service and of other clients                           *)

LEMMA EnterServiceStep ==
    ASSUME OptIInv, NEW t \in Optimizers, EnterService(t)
    PROVE  OptIInv'
<1> USE DEF EnterService, CallService, Goto, rows, history
<1>1. PICK r \in Runs : r = local[t].run[local[t].leg]
  BY DEF OptIInv, ThreadOk, RunsInv
<1>2. IInv /\ t \in Threads
  BY OptimizersAssumption DEF OptIInv
<1>3. IInv'
  <2>1. TypeOK'
    BY <1>1, <1>2 DEF IInv, TypeOK, Labels, RepositoryCalls
  <2>2. ASSUME NEW q \in Runs PROVE RunInv(q)'
    BY <1>2, <2>2 DEF IInv, RunInv
  <2>3. ASSUME NEW u \in Threads PROVE ThreadInv(u)'
    BY <1>1, <1>2, <2>3 DEF IInv, TypeOK, ThreadInv
  <2>4. SoleExecutor'
    BY <1>1, <1>2 DEF IInv, TypeOK, SoleExecutor, Executing
  <2>5. ASSUME NEW u \in Threads PROVE AnswerInv(u)'
    BY <1>2, <2>5 DEF IInv, AnswerInv
  <2>6. QED
    BY <2>1, <2>2, <2>3, <2>4, <2>5 DEF IInv
<1>4. ASSUME NEW u \in Optimizers, pc'[u] # "idle"
      PROVE  op[u] = "execute" /\ target'[u] = local[u].run[local[u].leg]
  BY <1>1, <1>2, <1>4, OptimizersAssumption
     DEF OptIInv, IInv, TypeOK, ThreadOk, RunsInv
<1>5. QED
  BY <1>3, <1>4, RunsStep, RowsUnchangedKeep

LEMMA InServiceStep ==
    ASSUME OptIInv, NEW t \in Optimizers, InService(t)
    PROVE  OptIInv'
<1>1. IInv /\ t \in Threads /\ ServiceStep(t)
  BY OptimizersAssumption DEF OptIInv, InService
<1>2. IInv'
  BY <1>1, HandleStep DEF Handle
<1>3. ASSUME NEW u \in Optimizers, pc'[u] # "idle"
      PROVE  op[u] = "execute" /\ target'[u] = local[u].run[local[u].leg]
  BY <1>1, <1>3, ServiceKeeps, OptimizersAssumption DEF OptIInv, ThreadOk, RunsInv
<1>4. QED
  BY <1>1, <1>2, <1>3, ServiceKeeps, RunsStep DEF InService

LEMMA ClientStepStep ==
    ASSUME OptIInv, NEW t \in Threads \ Optimizers, ClientStep(t)
    PROVE  OptIInv'
<1>1. IInv /\ TypeOK
  BY DEF OptIInv, IInv
<1>2. ASSUME NEW u \in Optimizers, pc'[u] = pc[u], target'[u] = target[u],
             pc'[u] # "idle"
      PROVE  op[u] = "execute" /\ target'[u] = local[u].run[local[u].leg]
  BY <1>2 DEF OptIInv, ThreadOk, RunsInv
<1>3. CASE \E r \in Runs : PostExecute(t, r)
  <2>1. IInv'
    BY <1>1, <1>3, PostExecuteStep
  <2>2. /\ UNCHANGED rows
        /\ \A u \in Optimizers : pc'[u] = pc[u] /\ target'[u] = target[u]
    BY <1>1, <1>3, OptimizersAssumption
       DEF PostExecute, CallService, Goto, TypeOK
  <2>3. QED
    BY <1>2, <2>1, <2>2, RunsStep, RowsUnchangedKeep DEF ClientStep
<1>4. CASE ServiceStep(t)
  <2>1. IInv'
    BY <1>1, <1>4, HandleStep DEF Handle
  <2>2. \A u \in Optimizers : pc'[u] = pc[u] /\ target'[u] = target[u]
    BY <1>1, <1>4, ServiceKeeps, OptimizersAssumption
  <2>3. QED
    BY <1>1, <1>2, <1>4, <2>1, <2>2, ServiceKeeps, RunsStep DEF ClientStep
<1>5. CASE AnswerExecuted(t) \/ AnswerError(t)
  <2>1. IInv'
    BY <1>1, <1>5, HandleStep DEF Handle
  <2>2. /\ UNCHANGED rows
        /\ \A u \in Optimizers : pc'[u] = pc[u] /\ target'[u] = target[u]
    BY <1>1, <1>5, OptimizersAssumption
       DEF AnswerExecuted, AnswerError, Answer, Goto, TypeOK
  <2>3. QED
    BY <1>2, <2>1, <2>2, RunsStep, RowsUnchangedKeep DEF ClientStep
<1>6. QED
  BY <1>3, <1>4, <1>5 DEF ClientStep, Handle

LEMMA CrashAllStep ==
    ASSUME OptIInv, CrashAll
    PROVE  OptIInv'
<1>1. IInv' /\ UNCHANGED rows
  BY CrashStep DEF OptIInv, CrashAll, Crash
<1>2. UNCHANGED optRows /\ UNCHANGED runsFor
  BY DEF CrashAll, runsFor
<1>3. \A u \in Optimizers : op'[u] = "idle" /\ pc'[u] = "idle"
  BY OptimizersAssumption DEF CrashAll, Crash
<1>4. ASSUME NEW u \in Optimizers PROVE ThreadOk(u)' /\ ~Driving(u)'
  BY <1>3, <1>4 DEF ThreadOk, PhaseInv, LoopInv, RunsInv, HoldoutInv, Driving
<1>5. OneDriver'
  BY <1>4 DEF OneDriver
<1>6. OptTypeOK'
  BY <1>1, <1>2, NoLocalType
     DEF OptIInv, IInv, OptTypeOK, CrashAll, Ops, optRows, runsFor
<1>7. HoldoutIsSealed' /\ HoldoutRuns' = HoldoutRuns
  BY <1>2 DEF OptIInv, HoldoutIsSealed, HoldoutRuns, optRows, runsFor
<1>8. RowsInv'
  BY <1>2, <1>7, SelectionFrame
     DEF OptIInv, RowsInv, NothingSelected, NothingHeldOut, optRows, runsFor
<1>9. EvidenceInv'
  BY <1>1, <1>2 DEF OptIInv, EvidenceInv, IsEvidence, rows, optRows, runsFor
<1>10. QED
  BY <1>1, <1>4, <1>5, <1>6, <1>7, <1>8, <1>9 DEF OptIInv
\* The call of the service has ended; the optimizer goes on.
LEMMA LeaveServiceStep ==
    ASSUME OptIInv, NEW t \in Optimizers, op[t] = "execute", LeaveService(t),
           NEW label \in Ops, NEW locals \in Locals, GoOn(t, label, locals),
           pc'[t] = "idle" /\ op'[t] = label /\ local'[t] = locals => ThreadOk(t)'
    PROVE  OptIInv'
<1> USE DEF LeaveService, Goto, rows, history
<1>1. IInv /\ TypeOK /\ t \in Threads
  BY OptimizersAssumption DEF OptIInv, IInv
<1>2. IInv'
  <2>1. TypeOK'
    BY <1>1 DEF TypeOK, Labels
  <2>2. ASSUME NEW q \in Runs PROVE RunInv(q)'
    BY <1>1, <2>2 DEF IInv, RunInv
  <2>3. ASSUME NEW u \in Threads PROVE ThreadInv(u)'
    BY <1>1, <2>3 DEF IInv, TypeOK, ThreadInv
  <2>4. SoleExecutor'
    BY <1>1 DEF IInv, TypeOK, SoleExecutor, Executing
  <2>5. ASSUME NEW u \in Threads PROVE AnswerInv(u)'
    BY <1>1, <2>5 DEF IInv, AnswerInv
  <2>6. QED
    BY <2>1, <2>2, <2>3, <2>4, <2>5 DEF IInv
<1>3. /\ UNCHANGED <<rows, optRows, runsFor>>
      /\ pc'[t] = "idle" /\ \A u \in Threads \ {t} : pc'[u] = pc[u]
  BY <1>1 DEF TypeOK, runsFor
<1>4. /\ op'[t] = label /\ local'[t] = locals
      /\ \A u \in Optimizers \ {t} : op'[u] = op[u] /\ local'[u] = local[u]
  BY GoOnTypes DEF OptIInv
<1>5. OptTypeOK'
  BY <1>2, <1>3, GoOnTypes DEF OptIInv, IInv, OptTypeOK, optRows, runsFor
<1>6. HoldoutIsSealed' /\ HoldoutRuns' = HoldoutRuns
  BY <1>3 DEF OptIInv, HoldoutIsSealed, HoldoutRuns, optRows, runsFor
<1>7. RowsInv'
  BY <1>3, <1>6, SelectionFrame
     DEF OptIInv, RowsInv, NothingSelected, NothingHeldOut, optRows, runsFor
<1>8. EvidenceInv'
  BY <1>3 DEF OptIInv, EvidenceInv, IsEvidence, optRows, runsFor
<1>9. Driving(t) /\ ThreadOk(t)'
  BY <1>3, <1>4 DEF Driving
<1>10. QED
  BY <1>2, <1>3, <1>4, <1>5, <1>6, <1>7, <1>8, <1>9, OthersDoNotDrive, DriverStep,
     OptimizersAssumption

LEMMA ServiceRaisedStep ==
    ASSUME OptIInv, NEW t \in Optimizers, ServiceRaised(t)
    PROVE  OptIInv'
<1>1. /\ op[t] = "execute" /\ LeaveService(t) /\ local[t] \in Locals
      /\ GoOn(t, "fail", local[t]) /\ "fail" \in Ops
  BY DEF OptIInv, OptTypeOK, ServiceRaised, Ops, Calls
<1>2. ASSUME pc'[t] = "idle", op'[t] = "fail", local'[t] = local[t]
      PROVE  ThreadOk(t)'
  BY <1>1, <1>2 DEF OptIInv, ThreadOk, PhaseInv, LoopInv, RunsInv, HoldoutInv,
                    LeaveService, optRows
<1>3. QED
  BY <1>1, <1>2, LeaveServiceStep

\* What a run that returned shows.
LEMMA ReturnedEvidence ==
    ASSUME OptIInv, NEW t \in Optimizers, op[t] = "execute", pc[t] = "returned"
    PROVE  LET l == local[t] IN
           IsEvidence(l.run[l.leg], l.leg, l.current,
                      IF Failed(t) THEN {"failed"} ELSE {"completed"})
<1>1. /\ local[t].run[local[t].leg] \in Runs
      /\ target[t] = local[t].run[local[t].leg]
      /\ runFor[target[t]] = <<local[t].leg, local[t].current>>
  BY DEF OptIInv, ThreadOk, RunsInv
<1>2. /\ status[target[t]] = TerminalStatusOf(outcome[t])
      /\ bundle[target[t]] = TerminalStatusOf(outcome[t])
  BY OptimizersAssumption DEF OptIInv, IInv, ThreadInv
<1>3. QED
  BY <1>1, <1>2 DEF IsEvidence, Failed, TerminalStatusOf

LEMMA TrainReturnedStep ==
    ASSUME OptIInv, NEW t \in Optimizers, TrainReturned(t)
    PROVE  OptIInv'
<1>0. PICK l \in Locals : l = local[t]
  BY DEF OptIInv, OptTypeOK
<1>1. /\ op[t] = "execute" /\ pc[t] = "returned" /\ LeaveService(t)
      /\ l.leg = "train" /\ optStatus = "running_train_validation"
      /\ l.current \in Candidates /\ l.current \notin l.todo
      /\ Pending = l.todo \cup {l.current} /\ derived \cap Pending \subseteq {l.current}
  BY <1>0 DEF OptIInv, ThreadOk, PhaseInv, LoopInv, TrainReturned
<1>2. Pending' = Pending /\ derived' = derived /\ optStatus' = optStatus
  BY <1>1, SelectionFrame DEF LeaveService, optRows
<1>3. CASE Failed(t)
  <2> DEFINE m == [l EXCEPT !.failed = TRUE]
  <2>1. GoOn(t, "record", m) /\ "record" \in Ops
    BY <1>0, <1>3 DEF TrainReturned, Ops, Calls
  <2>2. /\ m \in Locals /\ m.failed /\ m.leg = l.leg /\ m.current = l.current
        /\ m.todo = l.todo
    BY DEF Locals
  <2> HIDE DEF m
  <2>3. ASSUME pc'[t] = "idle", op'[t] = "record", local'[t] = m
        PROVE  ThreadOk(t)'
    BY <1>1, <1>2, <2>2, <2>3
       DEF ThreadOk, PhaseInv, LoopInv, RunsInv, HoldoutInv, Legs
  <2>4. QED
    BY <1>1, <2>1, <2>2, <2>3, LeaveServiceStep
<1>4. CASE ~Failed(t)
  <2> DEFINE m == [l EXCEPT !.leg = "validation"]
  <2>1. GoOn(t, "create", m) /\ "create" \in Ops
    BY <1>0, <1>4 DEF TrainReturned, Ops, Calls
  <2>2. /\ m \in Locals /\ m.leg = "validation" /\ m.current = l.current
        /\ m.todo = l.todo /\ m.run = l.run
    BY DEF Locals, Legs
  <2> HIDE DEF m
  <2>3. IsEvidence(l.run["train"], "train", l.current, {"completed"})
    BY <1>0, <1>1, <1>4, ReturnedEvidence
  <2>4. IsEvidence(l.run["train"], "train", l.current, {"completed"})'
    BY <1>1, <2>3 DEF LeaveService, rows, IsEvidence
  <2>5. ASSUME pc'[t] = "idle", op'[t] = "create", local'[t] = m
        PROVE  ThreadOk(t)'
    BY <1>1, <1>2, <2>2, <2>4, <2>5
       DEF ThreadOk, PhaseInv, LoopInv, RunsInv, HoldoutInv, Legs
  <2>6. QED
    BY <1>1, <2>1, <2>2, <2>5, LeaveServiceStep
<1>5. QED
  BY <1>3, <1>4

LEMMA ValidationReturnedStep ==
    ASSUME OptIInv, NEW t \in Optimizers, ValidationReturned(t)
    PROVE  OptIInv'
<1>0. PICK l \in Locals : l = local[t]
  BY DEF OptIInv, OptTypeOK
<1>1. /\ op[t] = "execute" /\ pc[t] = "returned" /\ LeaveService(t)
      /\ l.leg = "validation" /\ optStatus = "running_train_validation"
      /\ l.current \in Candidates /\ l.current \notin l.todo
      /\ Pending = l.todo \cup {l.current} /\ derived \cap Pending \subseteq {l.current}
      /\ IsEvidence(l.run["train"], "train", l.current, {"completed"})
  BY <1>0 DEF OptIInv, ThreadOk, PhaseInv, LoopInv, RunsInv, ValidationReturned
<1>2. Pending' = Pending /\ derived' = derived /\ optStatus' = optStatus
  BY <1>1, SelectionFrame DEF LeaveService, optRows
<1>3. PICK failed \in BOOLEAN : failed = Failed(t)
  BY DEF Failed
<1> DEFINE m == [l EXCEPT !.failed = failed]
<1>4. GoOn(t, "record", m) /\ "record" \in Ops
  BY <1>0, <1>3 DEF ValidationReturned, Ops, Calls
<1>5. /\ m \in Locals /\ m.failed = failed /\ m.leg = l.leg
      /\ m.current = l.current /\ m.todo = l.todo /\ m.run = l.run
  BY DEF Locals
<1> HIDE DEF m
<1>6. failed \/ IsEvidence(l.run["validation"], "validation", l.current,
                           {"completed"})
  BY <1>0, <1>1, <1>3, ReturnedEvidence
<1>7. /\ IsEvidence(l.run["train"], "train", l.current, {"completed"})'
      /\ failed \/ IsEvidence(l.run["validation"], "validation", l.current,
                              {"completed"})'
  BY <1>1, <1>6 DEF LeaveService, rows, IsEvidence
<1>8. ASSUME pc'[t] = "idle", op'[t] = "record", local'[t] = m
      PROVE  ThreadOk(t)'
  BY <1>1, <1>2, <1>5, <1>7, <1>8
     DEF ThreadOk, PhaseInv, LoopInv, RunsInv, HoldoutInv, Legs
<1>9. QED
  BY <1>1, <1>4, <1>5, <1>8, LeaveServiceStep

LEMMA HoldoutReturnedStep ==
    ASSUME OptIInv, NEW t \in Optimizers, HoldoutReturned(t)
    PROVE  OptIInv'
<1>0. PICK l \in Locals : l = local[t]
  BY DEF OptIInv, OptTypeOK
<1>1. /\ op[t] = "execute" /\ pc[t] = "returned" /\ LeaveService(t)
      /\ l.leg = "holdout" /\ optStatus = "running_holdout"
      /\ selection = SelectionOfRows /\ l.current = selection.choice
      /\ l.current # NoCandidate /\ holdout = NothingHeldOut
  BY <1>0 DEF OptIInv, ThreadOk, PhaseInv, HoldoutInv, HoldoutReturned
<1>2. /\ SelectionOfRows' = SelectionOfRows /\ selection' = selection
      /\ optStatus' = optStatus /\ holdout' = holdout
  BY <1>1, SelectionFrame DEF LeaveService, optRows
<1>3. PICK failed \in BOOLEAN : failed = Failed(t)
  BY DEF Failed
<1> DEFINE m == [l EXCEPT !.failed = failed]
<1>4. GoOn(t, "record_holdout", m) /\ "record_holdout" \in Ops
  BY <1>0, <1>3 DEF HoldoutReturned, Ops, Calls
<1>5. /\ m \in Locals /\ m.failed = failed /\ m.leg = l.leg
      /\ m.current = l.current /\ m.todo = l.todo /\ m.run = l.run
  BY DEF Locals
<1> HIDE DEF m
<1>6. IsEvidence(l.run["holdout"], "holdout", l.current, {"completed", "failed"})
  BY <1>0, <1>1, ReturnedEvidence DEF IsEvidence
<1>7. IsEvidence(l.run["holdout"], "holdout", l.current, {"completed", "failed"})'
  BY <1>1, <1>6 DEF LeaveService, rows, IsEvidence
<1>8. ASSUME pc'[t] = "idle", op'[t] = "record_holdout", local'[t] = m
      PROVE  ThreadOk(t)'
  BY <1>1, <1>2, <1>5, <1>7, <1>8
     DEF ThreadOk, PhaseInv, LoopInv, RunsInv, HoldoutInv, Legs, NothingHeldOut
<1>9. QED
  BY <1>1, <1>4, <1>5, <1>8, LeaveServiceStep

\* The run of a period is created, or its manifest is rejected.
LEMMA CreatePeriodRunStep ==
    ASSUME OptIInv, NEW t \in Optimizers, CreatePeriodRun(t)
    PROVE  OptIInv'
<1>0. PICK l \in Locals, leg \in Legs : l = local[t] /\ leg = l.leg
  BY DEF OptIInv, OptTypeOK, ThreadOk, PhaseInv, CreatePeriodRun
<1>1. /\ op[t] = "create" /\ pc[t] = "idle" /\ Driving(t)
      /\ optStatus = IF leg = "holdout" THEN "running_holdout"
                     ELSE "running_train_validation"
  BY <1>0, NotInService DEF OptIInv, ThreadOk, PhaseInv, CreatePeriodRun, Driving
<1>2. /\ leg # "holdout" => l.current \in Candidates
      /\ leg = "holdout" => /\ l.current \in Candidates
                            /\ l.current = selection.choice
                            /\ l.current # NoCandidate
                            /\ HoldoutRuns = {}
  BY <1>0, <1>1 DEF OptIInv, OptTypeOK, ThreadOk, LoopInv, HoldoutInv
<1>3. CASE leg \notin runnable
  <2>1. /\ GoOn(t, "fail", l) /\ "fail" \in Ops
        /\ UNCHANGED <<runVars, optRows, runsFor>>
    BY <1>0, <1>3 DEF CreatePeriodRun, runVars, runsFor, Ops, Calls
  <2>2. /\ op'[t] = "fail" /\ local'[t] = l /\ pc'[t] = "idle"
        /\ optStatus' = optStatus
    BY <1>1, <2>1, GoOnTypes DEF OptIInv, runVars, threads, optRows
  <2>3. ThreadOk(t)'
    BY <1>0, <1>1, <2>2 DEF ThreadOk, PhaseInv, LoopInv, RunsInv, HoldoutInv
  <2>4. QED
    BY <1>1, <2>1, <2>3, ControlStep
<1>4. CASE leg \in runnable
  <2> DEFINE m(r) == [l EXCEPT !.run[leg] = r]
  <2>1. PICK r \in Runs :
           /\ CreateRun(r, "single")
           /\ runFor' = [runFor EXCEPT ![r] = <<leg, l.current>>]
           /\ GoOn(t, "execute", m(r))
    BY <1>0, <1>4 DEF CreatePeriodRun
  <2>2. UNCHANGED <<threads, optRows, derived, runnable>>
    BY DEF CreatePeriodRun
  <2>3. /\ m(r) \in Locals /\ m(r).leg = leg /\ m(r).run[leg] = r
        /\ m(r).current = l.current /\ m(r).todo = l.todo
        /\ \A other \in Legs \ {leg} : m(r).run[other] = l.run[other]
    BY <1>0 DEF Locals
  <2>4. PICK locals \in Locals : locals = m(r)
    BY <2>3
  <2> HIDE DEF m
  <2>5. /\ op'[t] = "execute" /\ local'[t] = locals /\ pc'[t] = "idle"
        /\ \A u \in Optimizers \ {t} : /\ op'[u] = op[u] /\ local'[u] = local[u]
                                       /\ pc'[u] = pc[u]
    BY <1>1, <2>1, <2>2, <2>4, GoOnTypes DEF OptIInv, threads, Ops
  <2>6. IInv'
    BY <2>1, <2>2, PostRunStep DEF OptIInv, PostRun, Manifests
  <2>7. OptTypeOK'
    <3>1. runFor' \in [Runs -> (Legs \X Candidates) \cup {<<"none", NoCandidate>>}]
      BY <1>0, <1>2, <2>1 DEF OptIInv, OptTypeOK
    <3>2. op' \in [Optimizers -> Ops] /\ local' \in [Optimizers -> Locals]
      BY <2>1, <2>4, GoOnTypes DEF OptIInv, Ops
    <3>3. QED
      BY <2>2, <2>6, <3>1, <3>2 DEF OptIInv, IInv, OptTypeOK, optRows
  <2>8. /\ status[r] = "absent" /\ status'[r] = "created"
        /\ \A q \in Runs \ {r} : status'[q] = status[q] /\ runFor'[q] = runFor[q]
        /\ UNCHANGED bundle
        /\ runFor'[r] = <<leg, l.current>> /\ runFor[r][1] = "none"
    BY <2>1 DEF OptIInv, OptTypeOK, TypeOK, CreateRun, EvidenceInv
  <2>9. HoldoutRuns' = IF leg = "holdout" THEN {r} ELSE HoldoutRuns
    BY <1>2, <2>8 DEF HoldoutRuns
  <2>10. HoldoutIsSealed'
    <3>1. CASE leg = "holdout"
      BY <1>2, <2>2, <2>8, <2>9, <3>1 DEF HoldoutIsSealed, optRows
    <3>2. CASE leg # "holdout"
      BY <2>2, <2>8, <2>9, <3>2
         DEF OptIInv, HoldoutIsSealed, HoldoutRuns, optRows
    <3>3. QED
      BY <3>1, <3>2
  <2>11. RowsInv'
    BY <1>1, <2>2, <2>9, SelectionFrame
       DEF OptIInv, RowsInv, NothingSelected, NothingHeldOut, optRows
  <2>12. ASSUME NEW q, NEW l2, NEW c, NEW terminal \in SUBSET {"completed", "failed"},
                IsEvidence(q, l2, c, terminal)
         PROVE  IsEvidence(q, l2, c, terminal)'
    BY <2>8, <2>12 DEF IsEvidence
  <2>13. EvidenceInv'
    <3>1. \A q \in Runs : status'[q] = "absent" <=> runFor'[q][1] = "none"
      BY <1>0, <2>8 DEF OptIInv, EvidenceInv, Legs
    <3>2. ASSUME NEW c \in Candidates, candidate[c].status = "completed"
          PROVE  /\ IsEvidence(candidate[c].train, "train", c, {"completed"})'
                 /\ IsEvidence(candidate[c].validation, "validation", c,
                               {"completed"})'
      BY <2>2, <2>12, <3>2 DEF OptIInv, EvidenceInv, optRows
    <3>3. optStatus' # "completed"
      BY <1>1, <2>2 DEF optRows
    <3>4. QED
      BY <2>2, <3>1, <3>2, <3>3 DEF OptIInv, EvidenceInv, optRows
  <2>14. ThreadOk(t)'
    <3>1. ThreadOk(t)
      BY DEF OptIInv
    <3>2. PhaseInv(t)'
      BY <1>0, <1>1, <2>2, <2>3, <2>4, <2>5 DEF PhaseInv, optRows
    <3>3. LoopInv(t)'
      BY <1>0, <1>1, <2>2, <2>3, <2>4, <2>5, <3>1, SelectionFrame
         DEF ThreadOk, LoopInv, optRows
    <3>4. RunsInv(t)'
      BY <1>0, <1>1, <2>3, <2>4, <2>5, <2>8, <2>12, <3>1
         DEF ThreadOk, RunsInv, Legs
    <3>5. HoldoutInv(t)'
      BY <1>0, <1>1, <2>2, <2>3, <2>4, <2>5, <3>1, SelectionFrame
         DEF ThreadOk, HoldoutInv, NothingHeldOut, optRows
    <3>6. QED
      BY <3>2, <3>3, <3>4, <3>5 DEF ThreadOk
  <2>15. QED
    BY <1>1, <2>5, <2>6, <2>7, <2>10, <2>11, <2>13, <2>14, OthersDoNotDrive,
       DriverStep
<1>5. QED
  BY <1>3, <1>4

LEMMA OptInitInv == OptInit => OptIInv
<1> SUFFICES ASSUME OptInit PROVE OptIInv
  OBVIOUS
<1>1. IInv
  BY InitIInv DEF OptInit
<1>2. OptTypeOK
  BY <1>1, NoLocalType, RunnableAssumption
     DEF OptInit, IInv, OptTypeOK, OptStatuses, CandidateRows, CandidateStatuses,
         Ops, Legs
<1>3. HoldoutRuns = {}
  BY DEF OptInit, HoldoutRuns
<1>4. OneDriver /\ HoldoutIsSealed
  BY <1>3 DEF OptInit, OneDriver, Driving, HoldoutIsSealed
<1>5. RowsInv
  BY <1>3 DEF OptInit, RowsInv, NothingSelected, NothingHeldOut
<1>6. EvidenceInv
  BY DEF OptInit, Init, EvidenceInv
<1>7. ASSUME NEW t \in Optimizers PROVE ThreadOk(t)
  <2>1. pc[t] = "idle" /\ op[t] = "idle"
    BY OptimizersAssumption DEF OptInit, Init
  <2>2. QED
    BY <2>1, IdleThreadOk DEF Driving
<1>8. QED
  BY <1>1, <1>2, <1>4, <1>5, <1>6, <1>7 DEF OptIInv

LEMMA OptStutterStep ==
    ASSUME OptIInv, UNCHANGED allVars
    PROVE  OptIInv'
<1>1. IInv' /\ \A r \in Runs : Keeps(r)
  BY StutterStep DEF OptIInv, allVars, vars, Keeps
<1>2. \A u \in Optimizers : pc'[u] # "idle" =>
         op[u] = "execute" /\ target'[u] = local[u].run[local[u].leg]
  BY DEF OptIInv, ThreadOk, RunsInv, allVars, vars
<1>3. QED
  BY <1>1, <1>2, RunsStep DEF allVars

LEMMA OptimizerStepStep ==
    ASSUME OptIInv, NEW t \in Optimizers, OptimizerStep(t)
    PROVE  OptIInv'
  BY GetOptimizationStep, StartValidatingStep, StartTrainValidationStep,
     ListCandidatesStep, CreateStrategySpecStep, CreatePeriodRunStep,
     EnterServiceStep, InServiceStep, ServiceRaisedStep, TrainReturnedStep,
     ValidationReturnedStep, HoldoutReturnedStep, RecordCandidateStep,
     StartSelectingStep, ListForSelectionStep, RecordSelectionStep,
     FailNoEligibleStep, StartHoldoutStep, RecordHoldoutStep,
     CompleteOptimizationStep, TryFailStep, OptDatabaseErrorStep,
     AnswerOptimizeStep
     DEF OptimizerStep

--------------------------------------------------------------------------------
(* Safety                                                                  *)

\* The inductive invariant holds in every reachable state of every instance.
THEOREM OptInvariance == OptSpec => []OptIInv
<1>1. OptIInv /\ [OptNext]_allVars => OptIInv'
  BY PostOptimizeStep, OptimizerStepStep, ClientStepStep, CrashAllStep,
     OptStutterStep
     DEF OptNext
<1>2. QED
  BY OptInitInv, <1>1, PTL DEF OptSpec

\* Every variable keeps its type, the tables of runs included.
THEOREM OptTypeCorrect == OptSpec => []OptTypeOK
<1>1. OptIInv => OptTypeOK
  BY DEF OptIInv
<1>2. QED
  BY OptInvariance, <1>1, PTL

\* What RunExecution guarantees of runs and answers also holds while optimizers
\* drive the service from the inside.
THEOREM RunsUnderOptimizers ==
    OptSpec => [](EngineRunsOnce /\ VerdictIsTheEngines /\ AnswersAreDurable)
<1>1. OptIInv => EngineRunsOnce /\ VerdictIsTheEngines /\ AnswersAreDurable
  BY DEF OptIInv, IInv, EngineRunsOnce, VerdictIsTheEngines, AnswersAreDurable,
         RunInv, SoleExecutor, AnswerInv, EngineResults, EngineFailures
<1>2. QED
  BY OptInvariance, <1>1, PTL

\* execute_optimization: of any number of concurrent requests for an optimization
\* one drives it, through crashes and database errors.
THEOREM DrivenByOne == OptSpec => []OneDriver
<1>1. OptIInv => OneDriver
  BY DEF OptIInv
<1>2. QED
  BY OptInvariance, <1>1, PTL

\* ADR-009: at most one run over the holdout period is ever created, after the
\* selection is stored, and for the selected candidate.
THEOREM HoldoutStaysSealed == OptSpec => []HoldoutIsSealed
<1>1. OptIInv => HoldoutIsSealed
  BY DEF OptIInv
<1>2. QED
  BY OptInvariance, <1>1, PTL

\* What is stored as the selection, compared with the rows of the candidates.
LEMMA ChoiceIsBest ==
    ASSUME OptTypeOK, NEW choice, choice # NoCandidate,
           choice = SelectCandidate(AuditOf(candidate))
    PROVE  /\ choice \in Ranked
           /\ \A c \in Ranked :
                 LET best == candidate[choice].objective
                     other == candidate[c].objective
                 IN  /\ other <= best
                     /\ other = best => Slow(choice) <= Slow(c)
                     /\ other = best /\ Slow(choice) = Slow(c) =>
                            Fast(choice) <= Fast(c)
<1> DEFINE entry(c) == [id |-> c, status |-> candidate[c].status,
                       objective |-> candidate[c].objective]
<1>1. PICK e \in Eligible(AuditOf(candidate)) :
         /\ choice = e.id
         /\ \A f \in Eligible(AuditOf(candidate)) \ {e} : Beats(e, f)
  BY AuditOfRows, SelectedBeatsAll
<1>2. choice \in Ranked /\ e = entry(choice)
  BY <1>1 DEF Eligible, AuditOf, Ranked
<1>3. ASSUME NEW c \in Ranked PROVE entry(c) \in Eligible(AuditOf(candidate))
  BY <1>3 DEF Eligible, AuditOf, Ranked
<1>4. ASSUME NEW c \in Ranked
      PROVE  /\ candidate[c].objective \in Nat
             /\ Slow(c) \in Nat /\ Fast(c) \in Nat
  <2>1. c \in Candidates
    BY DEF Ranked
  <2>2. Slow(c) \in Nat /\ Fast(c) \in Nat
    BY <2>1, CandidateWindows
  <2>3. candidate[c].objective \in Objectives \cup {NotAvailable}
    BY <2>1 DEF OptTypeOK, CandidateRows
  <2>4. Objectives \subseteq Nat /\ NotAvailable \in Nat
    BY ObjectivesAssumption DEF NotAvailable
  <2>5. QED
    BY <2>2, <2>3, <2>4
<1>5. ASSUME NEW c \in Ranked, c # choice
      PROVE  \/ candidate[choice].objective > candidate[c].objective
             \/ /\ candidate[choice].objective = candidate[c].objective
                /\ \/ Slow(choice) < Slow(c)
                   \/ Slow(choice) = Slow(c) /\ Fast(choice) < Fast(c)
  <2>1. Beats(e, entry(c))
    BY <1>1, <1>2, <1>3, <1>5
  <2>2. QED
    BY <1>2, <2>1 DEF Beats
<1>6. ASSUME NEW c \in Ranked
      PROVE  /\ candidate[c].objective <= candidate[choice].objective
             /\ candidate[c].objective = candidate[choice].objective =>
                   Slow(choice) <= Slow(c)
             /\ candidate[c].objective = candidate[choice].objective
                /\ Slow(choice) = Slow(c) => Fast(choice) <= Fast(c)
  <2>1. CASE c = choice
    BY <1>2, <1>4, <2>1
  <2>2. CASE c # choice
    BY <1>2, <1>4, <1>5, <2>2
  <2>3. QED
    BY <2>1, <2>2
<1>7. QED
  BY <1>2, <1>6

\* select_candidate and record_selection: the stored choice is the best of the
\* rows as they are, the audit repeats them, and a failure for want of an
\* eligible candidate is true.
THEOREM SelectionStaysBest == OptSpec => []SelectionIsBest
<1>1. OptIInv => SelectionIsBest
  <2> SUFFICES ASSUME OptIInv PROVE SelectionIsBest
    OBVIOUS
  <2>1. selection.audit # {} => selection.audit = AuditOf(candidate)
    BY DEF OptIInv, RowsInv, NothingSelected, SelectionOfRows
  <2>2. ASSUME optStatus \in {"running_holdout", "completed"}
        PROVE  /\ selection.choice # NoCandidate
               /\ selection.choice = SelectCandidate(AuditOf(candidate))
    BY <2>2 DEF OptIInv, RowsInv, NothingSelected, SelectionOfRows
  <2>3. ASSUME optFailure = "no_eligible_candidate" PROVE Ranked = {}
    <3>1. SelectCandidate(AuditOf(candidate)) = NoCandidate
      BY <2>3 DEF OptIInv, RowsInv, SelectionOfRows
    <3>2. \A e \in Eligible(AuditOf(candidate)) : e.id # NoCandidate
      BY NoCandidateIsNone DEF Eligible, AuditOf
    <3>3. Eligible(AuditOf(candidate)) = {}
      BY <3>1, <3>2, AuditOfRows, SelectedBeatsAll DEF OptIInv
    <3>4. ASSUME NEW c \in Ranked PROVE FALSE
      <4> DEFINE entry == [id |-> c, status |-> candidate[c].status,
                           objective |-> candidate[c].objective]
      <4>1. entry \in Eligible(AuditOf(candidate))
        BY <3>4 DEF Eligible, AuditOf, Ranked
      <4>2. QED
        BY <3>3, <4>1
    <3>5. QED
      BY <3>4
  <2>4. QED
    BY <2>1, <2>2, <2>3, ChoiceIsBest DEF OptIInv, SelectionIsBest
<1>2. QED
  BY OptInvariance, <1>1, PTL

\* A completed optimization is backed by published runs, and at most one
\* candidate that was attempted has no result.
THEOREM CompletionIsEvidenced == OptSpec => []CompletedIsEvidenced
<1>1. OptIInv => CompletedIsEvidenced
  <2> SUFFICES ASSUME OptIInv PROVE CompletedIsEvidenced
    OBVIOUS
  <2>1. \A c, d \in derived :
           candidate[c].status = "pending" /\ candidate[d].status = "pending"
           => c = d
    BY DEF OptIInv, OptTypeOK, RowsInv, Pending
  <2>2. optStatus = "completed" =>
           \A c \in Candidates : candidate[c].status # "pending"
    BY DEF OptIInv, RowsInv, Pending
  <2>3. QED
    BY <2>1, <2>2 DEF OptIInv, EvidenceInv, CompletedIsEvidenced
<1>2. QED
  BY OptInvariance, <1>1, PTL
--------------------------------------------------------------------------------
(* Refinement of the life cycle of runs: entering and leaving the service   *)
(* shows nothing, and the optimizer creates runs as everybody does.         *)

LEMMA RunsOfOptimizerRefine ==
    ASSUME OptIInv, NEW t \in Optimizers, OptimizerStep(t)
    PROVE  Lifecycle!Next \/ UNCHANGED Lifecycle!vars
<1>1. IInv /\ t \in Threads
  BY OptimizersAssumption DEF OptIInv
<1>2. CASE CreatePeriodRun(t)
  <2>1. CASE FreshRun \in Runs /\ CreateRun(FreshRun, "single")
    <3>1. PostRun(FreshRun)
      BY <1>2, <2>1 DEF PostRun, CreatePeriodRun, Manifests
    <3>2. QED
      BY <1>1, <2>1, <3>1, PostRunRefines DEF Lifecycle!Next
  <2>2. CASE UNCHANGED <<rows, history>>
    BY <2>2, InvisibleStep DEF rows, history
  <2>3. QED
    BY <1>2, <2>1, <2>2 DEF CreatePeriodRun
<1>3. CASE InService(t)
  BY <1>1, <1>3, HandleRefines DEF InService, Handle, Lifecycle!Next
<1>4. CASE EnterService(t)
  BY <1>4, InvisibleStep DEF EnterService, CallService, rows, history
<1>5. CASE ServiceRaised(t) \/ TrainReturned(t) \/ ValidationReturned(t)
           \/ HoldoutReturned(t)
  BY <1>5, InvisibleStep
     DEF ServiceRaised, TrainReturned, ValidationReturned, HoldoutReturned,
         LeaveService, rows, history
<1>6. CASE UNCHANGED runVars
  BY <1>6, InvisibleStep DEF runVars, rows, history
<1>7. QED
  BY <1>2, <1>3, <1>4, <1>5, <1>6
     DEF OptimizerStep, GetOptimization, StartValidating, StartTrainValidation,
         ListCandidates, CreateStrategySpec, RecordCandidate, StartSelecting,
         ListForSelection, RecordSelection, FailNoEligible, StartHoldout,
         RecordHoldout, CompleteOptimization, TryFail, OptDatabaseError,
         AnswerOptimize, TransitionOrRaise

\* The runs of an optimization follow the life cycle of all runs.
THEOREM OptRunsRefine == OptSpec => ImplementsLifecycle
<1>1. OptIInv /\ [OptNext]_allVars => [Lifecycle!Next]_(Lifecycle!vars)
  <2> SUFFICES ASSUME OptIInv, [OptNext]_allVars
               PROVE  Lifecycle!Next \/ UNCHANGED Lifecycle!vars
    OBVIOUS
  <2>1. ASSUME NEW t \in Optimizers, PostOptimize(t) \/ OptimizerStep(t)
        PROVE  Lifecycle!Next \/ UNCHANGED Lifecycle!vars
    BY <2>1, RunsOfOptimizerRefine, InvisibleStep
       DEF PostOptimize, runVars, rows, history
  <2>2. ASSUME NEW t \in Threads \ Optimizers, ClientStep(t)
        PROVE  Lifecycle!Next \/ UNCHANGED Lifecycle!vars
    <3>1. CASE Handle(t)
      BY <3>1, HandleRefines DEF OptIInv, Lifecycle!Next
    <3>2. CASE \E r \in Runs : PostExecute(t, r)
      BY <3>2, InvisibleStep DEF PostExecute, CallService, rows, history
    <3>3. QED
      BY <2>2, <3>1, <3>2 DEF ClientStep
  <2>3. CASE CrashAll
    BY <2>3, InvisibleStep DEF CrashAll, Crash, rows, history
  <2>4. CASE UNCHANGED allVars
    BY <2>4, InvisibleStep DEF allVars, vars
  <2>5. QED
    BY <2>1, <2>2, <2>3, <2>4 DEF OptNext
<1>2. OptInit => Lifecycle!Init
  BY LifecycleInit DEF OptInit
<1>3. QED
  BY <1>1, <1>2, OptInvariance, PTL
     DEF OptSpec, ImplementsLifecycle, Lifecycle!Spec

--------------------------------------------------------------------------------
(* Refinement of SealedHoldout.  Visible there are the recording of a       *)
(* candidate, of the selection and of the holdout's result, the creation of *)
(* the holdout run, and the transitions into a terminal status.             *)

\* A step that leaves what SealedHoldout shows alone.
LEMMA UnsealedStep ==
    ASSUME UNCHANGED <<candidate, selection, holdout>>,
           HoldoutRuns' = HoldoutRuns,
           \A r \in HoldoutRuns : runFor'[r] = runFor[r],
           \/ optStatus' = optStatus
           \/ {optStatus, optStatus'} \cap {"completed", "failed"} = {}
    PROVE  UNCHANGED Sealed!vars
<1>1. {<<r, runFor[r][2]>> : r \in HoldoutRuns}' = {<<r, runFor[r][2]>> : r \in HoldoutRuns}
  OBVIOUS
<1>2. QED
  BY <1>1 DEF Sealed!vars
LEMMA SealedInit == OptInit => Sealed!Init
<1> SUFFICES ASSUME OptInit PROVE Sealed!Init
  OBVIOUS
<1>1. HoldoutRuns = {}
  BY DEF OptInit, HoldoutRuns
<1>2. {<<r, runFor[r][2]>> : r \in HoldoutRuns} = {}
  BY <1>1
<1>3. QED
  BY <1>2 DEF OptInit, Sealed!Init

LEMMA RecordCandidateJudges ==
    ASSUME OptIInv, NEW t \in Optimizers, RecordCandidate(t)
    PROVE  Sealed!Next
<1>0. PICK l \in Locals, c \in Candidates : l = local[t] /\ c = l.current
  BY DEF OptIInv, OptTypeOK, ThreadOk, PhaseInv, LoopInv, RecordCandidate
<1>1. /\ optStatus = "running_train_validation"
      /\ candidate[c].status = "pending" /\ selection = NothingSelected
  BY <1>0 DEF OptIInv, RowsInv, ThreadOk, PhaseInv, LoopInv, RecordCandidate,
              Pending
<1>2. PICK objective \in ObjectivesOf(t) :
         candidate' = [candidate EXCEPT ![c] =
             [status |-> IF l.failed THEN "failed" ELSE "completed",
              train |-> l.run["train"], validation |-> l.run["validation"],
              objective |-> objective]]
  BY <1>0 DEF RecordCandidate
<1>3. objective \in Objectives \cup {NotAvailable}
  BY DEF ObjectivesOf
<1>4. UNCHANGED <<optStatus, selection, holdout, runFor>>
  BY DEF RecordCandidate
<1>5. /\ candidate'[c].objective = objective
      /\ candidate'[c].status # "pending"
      /\ \A d \in Candidates \ {c} : candidate'[d] = candidate[d]
  BY <1>2 DEF OptIInv, OptTypeOK
<1>6. {d \in Candidates : candidate'[d].status # "pending"}
      = {d \in Candidates : candidate[d].status # "pending"} \cup {c}
  BY <1>5
<1>7. [d \in Candidates |-> candidate'[d].objective]
      = [[d \in Candidates |-> candidate[d].objective] EXCEPT ![c] = objective]
  BY <1>5
<1>8. HoldoutRuns' = HoldoutRuns
      /\ {<<r, runFor[r][2]>> : r \in HoldoutRuns}'
         = {<<r, runFor[r][2]>> : r \in HoldoutRuns}
  BY <1>4 DEF HoldoutRuns
<1>9. Sealed!Judge(c)
  BY <1>1, <1>3, <1>4, <1>6, <1>7, <1>8 DEF Sealed!Judge, NothingSelected
<1>10. QED
  BY <1>1, <1>9 DEF Sealed!Next

LEMMA RecordSelectionChooses ==
    ASSUME OptIInv, NEW t \in Optimizers, RecordSelection(t)
    PROVE  Sealed!Next
<1>0. PICK audit, choice :
         audit = AuditOf(candidate) /\ choice = SelectCandidate(audit)
  OBVIOUS
<1>1. /\ optStatus = "selecting" /\ local[t].audit = audit
      /\ selection = NothingSelected /\ Pending = {}
  BY <1>0 DEF OptIInv, RowsInv, ThreadOk, PhaseInv, HoldoutInv, RecordSelection
<1>2. /\ selection' = [choice |-> choice, audit |-> audit]
      /\ UNCHANGED <<optStatus, candidate, holdout, runFor>>
  BY <1>0, <1>1 DEF RecordSelection
<1>3. audit # {}
  BY <1>0, AuditOfRows DEF OptIInv
<1>4. \A c \in Candidates :
         candidate[c].objective # NotAvailable =>
            [id |-> c, status |-> candidate[c].status,
             objective |-> candidate[c].objective] \in Eligible(audit)
  BY <1>0 DEF OptIInv, EvidenceInv, Eligible, AuditOf
<1>5. \/ choice = NoCandidate /\ Sealed!Eligible = {}
      \/ choice \in Candidates /\ Sealed!Best(choice)
  <2>1. CASE Eligible(audit) = {} /\ choice = NoCandidate
    BY <1>4, <2>1 DEF Sealed!Eligible
  <2>2. ASSUME NEW e \in Eligible(audit), choice = e.id,
               \A f \in Eligible(audit) \ {e} : Beats(e, f)
        PROVE  choice \in Candidates /\ Sealed!Best(choice)
    <3>1. /\ choice \in Candidates /\ e.objective = candidate[choice].objective
          /\ e.objective # NotAvailable
      BY <1>0, <2>2 DEF Eligible, AuditOf
    <3>2. ASSUME NEW d \in Candidates, candidate[d].objective # NotAvailable,
                 d # choice
          PROVE  \/ candidate[d].objective < candidate[choice].objective
                 \/ /\ candidate[d].objective = candidate[choice].objective
                    /\ \/ Slow(choice) < Slow(d)
                       \/ Slow(choice) = Slow(d) /\ Fast(choice) < Fast(d)
      <4> DEFINE f == [id |-> d, status |-> candidate[d].status,
                       objective |-> candidate[d].objective]
      <4>1. f \in Eligible(audit) /\ f # e
        BY <1>4, <2>2, <3>2
      <4>2. Beats(e, f)
        BY <2>2, <4>1
      <4>3. candidate[d].objective \in Nat /\ candidate[choice].objective \in Nat
        <5>1. /\ candidate[d].objective \in Objectives \cup {NotAvailable}
              /\ candidate[choice].objective \in Objectives \cup {NotAvailable}
          BY <3>1 DEF OptIInv, OptTypeOK, CandidateRows
        <5>2. Objectives \subseteq Nat /\ NotAvailable \in Nat
          BY ObjectivesAssumption DEF NotAvailable
        <5>3. QED
          BY <5>1, <5>2
      <4>4. QED
        BY <2>2, <3>1, <4>2, <4>3 DEF Beats
    <3>3. QED
      BY <3>1, <3>2 DEF Sealed!Best, Sealed!Eligible
  <2>3. QED
    BY <1>0, <2>1, <2>2, AuditOfRows, SelectedBeatsAll DEF OptIInv
<1>6. {<<r, runFor[r][2]>> : r \in HoldoutRuns}'
      = {<<r, runFor[r][2]>> : r \in HoldoutRuns}
  BY <1>2 DEF HoldoutRuns
<1>7. {c \in Candidates : candidate[c].status # "pending"} = Candidates
  BY <1>1 DEF Pending
<1>8. Sealed!Choose
  BY <1>1, <1>2, <1>3, <1>5, <1>6, <1>7 DEF Sealed!Choose, NothingSelected
<1>9. QED
  BY <1>1, <1>8 DEF Sealed!Next

LEMMA CreatePeriodRunOpens ==
    ASSUME OptIInv, NEW t \in Optimizers, CreatePeriodRun(t)
    PROVE  Sealed!Next \/ UNCHANGED Sealed!vars
<1>0. PICK l \in Locals, leg \in Legs : l = local[t] /\ leg = l.leg
  BY DEF OptIInv, OptTypeOK, ThreadOk, PhaseInv, CreatePeriodRun
<1>1. UNCHANGED optRows
  BY DEF CreatePeriodRun
<1>2. CASE UNCHANGED runFor
  BY <1>1, <1>2, UnsealedStep DEF optRows, HoldoutRuns
<1>3. CASE leg \in runnable
  <2>1. PICK r \in Runs : /\ CreateRun(r, "single")
                          /\ runFor' = [runFor EXCEPT ![r] = <<leg, l.current>>]
    BY <1>0, <1>3 DEF CreatePeriodRun
  <2>2. /\ runFor[r][1] = "none" /\ runFor'[r] = <<leg, l.current>>
        /\ \A q \in Runs \ {r} : runFor'[q] = runFor[q]
    BY <2>1 DEF OptIInv, OptTypeOK, EvidenceInv, CreateRun
  <2>3. CASE leg # "holdout"
    <3>1. HoldoutRuns' = HoldoutRuns /\ \A q \in HoldoutRuns : runFor'[q] = runFor[q]
      BY <2>2, <2>3 DEF HoldoutRuns
    <3>2. QED
      BY <1>1, <3>1, UnsealedStep DEF optRows
  <2>4. CASE leg = "holdout"
    <3>1. /\ optStatus = "running_holdout" /\ HoldoutRuns = {}
          /\ l.current = selection.choice /\ selection.choice # NoCandidate
      BY <1>0, <2>4 DEF OptIInv, ThreadOk, PhaseInv, HoldoutInv, CreatePeriodRun
    <3>2. HoldoutRuns' = {r}
      BY <2>2, <2>4, <3>1 DEF HoldoutRuns
    <3>3. {<<q, runFor[q][2]>> : q \in HoldoutRuns} = {}
      BY <3>1
    <3>4. {<<q, runFor[q][2]>> : q \in HoldoutRuns}' = {<<r, selection.choice>>}
      BY <2>2, <3>1, <3>2
    <3>5. Sealed!OpenHoldout(r)
      BY <1>1, <3>1, <3>3, <3>4 DEF Sealed!OpenHoldout, optRows
    <3>6. QED
      BY <3>1, <3>5 DEF Sealed!Next
  <2>5. QED
    BY <2>3, <2>4
<1>4. QED
  BY <1>0, <1>2, <1>3 DEF CreatePeriodRun

LEMMA RecordHoldoutReveals ==
    ASSUME OptIInv, NEW t \in Optimizers, RecordHoldout(t)
    PROVE  Sealed!Next
<1>0. PICK l \in Locals : l = local[t]
  BY DEF OptIInv, OptTypeOK
<1>1. /\ optStatus = "running_holdout" /\ l.leg = "holdout"
      /\ IsEvidence(l.run["holdout"], "holdout", selection.choice,
                    {"completed", "failed"})
      /\ holdout = NothingHeldOut
  BY <1>0 DEF OptIInv, ThreadOk, PhaseInv, RunsInv, HoldoutInv, RecordHoldout
<1>2. PICK r \in Runs : r = l.run["holdout"] /\ runFor[r] = <<"holdout", selection.choice>>
  BY <1>1 DEF IsEvidence
<1>3. PICK objective \in Objectives \cup {NotAvailable} :
         holdout' = [run |-> r, objective |-> objective]
  BY <1>0, <1>2 DEF RecordHoldout, ObjectivesOf
<1>4. UNCHANGED <<optStatus, candidate, selection, runFor>>
  BY DEF RecordHoldout
<1>5. <<r, selection.choice>> \in {<<q, runFor[q][2]>> : q \in HoldoutRuns}
  BY <1>2 DEF HoldoutRuns
<1>6. {<<q, runFor[q][2]>> : q \in HoldoutRuns}'
      = {<<q, runFor[q][2]>> : q \in HoldoutRuns}
  BY <1>4 DEF HoldoutRuns
<1>7. Sealed!Reveal(r)
  BY <1>1, <1>3, <1>4, <1>5, <1>6 DEF Sealed!Reveal, NothingHeldOut
<1>8. QED
  BY <1>1, <1>7 DEF Sealed!Next

\* A transition shows nothing, unless it ends the optimization.
LEMMA TransitionEnds ==
    ASSUME OptIInv, NEW from, NEW to, NEW code, TransitionOpt(from, to, code),
           UNCHANGED runFor, from \notin {"completed", "failed"},
           to = "completed" => holdout.run # NoRun
    PROVE  Sealed!Next \/ UNCHANGED Sealed!vars
<1>1. HoldoutRuns' = HoldoutRuns
      /\ {<<q, runFor[q][2]>> : q \in HoldoutRuns}'
         = {<<q, runFor[q][2]>> : q \in HoldoutRuns}
  BY DEF HoldoutRuns
<1>2. CASE to \notin {"completed", "failed"}
  BY <1>1, <1>2, UnsealedStep DEF TransitionOpt
<1>3. CASE to = "completed"
  <2>1. Sealed!Complete
    BY <1>1, <1>3 DEF TransitionOpt, Sealed!Complete, Sealed!End
  <2>2. QED
    BY <2>1 DEF Sealed!Next, TransitionOpt
<1>4. CASE to = "failed"
  <2>1. Sealed!End("failed")
    BY <1>1, <1>4 DEF TransitionOpt, Sealed!End
  <2>2. QED
    BY <2>1 DEF Sealed!Next, TransitionOpt
<1>5. QED
  BY <1>2, <1>3, <1>4

LEMMA TransitionOrRaiseEnds ==
    ASSUME OptIInv, NEW t \in Optimizers, NEW from, NEW to, NEW code,
           NEW next, NEW locals,
           TransitionOrRaise(t, from, to, code, next, locals),
           from \notin {"completed", "failed"},
           to = "completed" => holdout.run # NoRun
    PROVE  Sealed!Next \/ UNCHANGED Sealed!vars
<1>1. CASE TransitionOpt(from, to, code)
  BY <1>1, TransitionEnds DEF TransitionOrRaise
<1>2. CASE UNCHANGED optRows
  BY <1>2, UnsealedStep DEF TransitionOrRaise, optRows, HoldoutRuns
<1>3. QED
  BY <1>1, <1>2 DEF TransitionOrRaise

LEMMA OptimizerStepSeals ==
    ASSUME OptIInv, NEW t \in Optimizers, OptimizerStep(t)
    PROVE  Sealed!Next \/ UNCHANGED Sealed!vars
<1>1. CASE UNCHANGED <<optRows, runFor>>
  BY <1>1, UnsealedStep DEF optRows, HoldoutRuns
<1>2. CASE GetOptimization(t) \/ ListCandidates(t) \/ CreateStrategySpec(t)
           \/ EnterService(t) \/ InService(t) \/ ServiceRaised(t)
           \/ TrainReturned(t) \/ ValidationReturned(t) \/ HoldoutReturned(t)
           \/ ListForSelection(t) \/ OptDatabaseError(t) \/ AnswerOptimize(t)
  BY <1>1, <1>2
     DEF GetOptimization, ListCandidates, CreateStrategySpec, EnterService,
         InService, ServiceRaised, TrainReturned, ValidationReturned,
         HoldoutReturned, LeaveService, ListForSelection, OptDatabaseError,
         AnswerOptimize, optRows, optVars
<1>3. CASE StartValidating(t)
  BY <1>3, TransitionOrRaiseEnds DEF StartValidating
<1>4. CASE StartTrainValidation(t)
  BY <1>4, TransitionOrRaiseEnds DEF StartTrainValidation
<1>5. CASE StartSelecting(t)
  BY <1>5, TransitionOrRaiseEnds DEF StartSelecting
<1>6. CASE FailNoEligible(t)
  BY <1>6, TransitionOrRaiseEnds DEF FailNoEligible
<1>7. CASE StartHoldout(t)
  BY <1>7, TransitionOrRaiseEnds DEF StartHoldout
<1>8. CASE CompleteOptimization(t)
  <2>1. holdout.run # NoRun
    BY <1>8, NoRunAssumption
       DEF OptIInv, ThreadOk, HoldoutInv, IsEvidence, CompleteOptimization
  <2>2. QED
    BY <1>8, <2>1, TransitionOrRaiseEnds DEF CompleteOptimization
<1>9. CASE TryFail(t)
  <2>1. ASSUME NEW from \in {"running_holdout", "running_train_validation"},
               TransitionOpt(from, "failed", "unexpected_error")
        PROVE  Sealed!Next \/ UNCHANGED Sealed!vars
    BY <1>9, <2>1, TransitionEnds DEF TryFail
  <2>2. QED
    BY <1>1, <1>9, <2>1 DEF TryFail
<1>10. CASE RecordCandidate(t) \/ RecordSelection(t) \/ RecordHoldout(t)
            \/ CreatePeriodRun(t)
  BY <1>10, RecordCandidateJudges, RecordSelectionChooses, RecordHoldoutReveals,
     CreatePeriodRunOpens
<1>11. QED
  BY <1>2, <1>3, <1>4, <1>5, <1>6, <1>7, <1>8, <1>9, <1>10 DEF OptimizerStep

\* The rows of an optimization take the path that ADR-009 promises: all judged,
\* one best chosen, the holdout opened once for it, the end, and nothing after.
THEOREM SealedRefinement == OptSpec => ImplementsSealedHoldout
<1>1. OptIInv /\ [OptNext]_allVars => [Sealed!Next]_(Sealed!vars)
  <2> SUFFICES ASSUME OptIInv, [OptNext]_allVars
               PROVE  Sealed!Next \/ UNCHANGED Sealed!vars
    OBVIOUS
  <2>1. CASE UNCHANGED <<optRows, runFor>>
    BY <2>1, UnsealedStep DEF optRows, HoldoutRuns
  <2>2. ASSUME NEW t \in Optimizers, PostOptimize(t) \/ OptimizerStep(t)
        PROVE  Sealed!Next \/ UNCHANGED Sealed!vars
    BY <2>1, <2>2, OptimizerStepSeals DEF PostOptimize
  <2>3. QED
    BY <2>1, <2>2 DEF OptNext, ClientStep, CrashAll, allVars, optVars, optRows
<1>2. QED
  BY SealedInit, <1>1, OptInvariance, PTL
     DEF OptSpec, ImplementsSealedHoldout, Sealed!Spec
================================================================================

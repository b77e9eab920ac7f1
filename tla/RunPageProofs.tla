----------------------------- MODULE RunPageProofs -----------------------------
(***************************************************************************)
(* Proofs about RunPage for any number of threads and runs and any choice  *)
(* of sections: what the page shows of a run while answers overtake each   *)
(* other and anybody executes the run.                                     *)
(***************************************************************************)
EXTENDS RunPage, RunExecutionProofs

IsRequest(q) ==
    /\ q = [load |-> q.load, state |-> q.state, saw |-> q.saw]
    /\ q.load \in Nat
    /\ q.state \in {"pending", "abandoned", "broken"}

PageTypeOK ==
    /\ reloads \in Nat
    /\ button \in {"closed", "idle", "waiting", "succeeded", "failed"}
    /\ serving \subseteq Threads
    /\ DOMAIN inflight = Sections /\ inflight = [s \in Sections |-> inflight[s]]
    /\ view \in [Sections -> {view[s] : s \in Sections}]

\* What was read of the run, one call after the other, fits together and with
\* what the run has become since; after an execution was answered with success
\* it is the result of the run.
Consistent(s, load, saw) ==
    LET read == DOMAIN saw IN
    /\ read \subseteq {Calls(s)[i] : i \in DOMAIN Calls(s)}
    /\ "metrics" \in read => "bundle" \in read
    /\ "bundle" \in read /\ s # "artifacts" => "run" \in read
    /\ "run" \in read =>
          /\ saw["run"] \in Statuses
          /\ saw["run"] \in Terminal => status[Page] = saw["run"]
    /\ "bundle" \in read =>
          /\ saw["bundle"] \in {"none", bundle[Page]}
          /\ saw["bundle"] # "none" /\ "run" \in read =>
                saw["run"] \in {"created", "running", saw["bundle"]}
    /\ "metrics" \in read =>
          /\ saw["metrics"] = TRUE => bundle[Page] = "completed"
          /\ saw["bundle"] # "none" => saw["metrics"] = (bundle[Page] = "completed")
    /\ load > 0 =>
          /\ "run" \in read => saw["run"] = status[Page]
          /\ "bundle" \in read => saw["bundle"] = bundle[Page]
          /\ "metrics" \in read => saw["metrics"] = (bundle[Page] = "completed")
          /\ "manifest" \in read => saw["manifest"] = TRUE

(* A request that is not abandoned was sent by the last load. *)
RequestInv(s, q) ==
    /\ q.state = "pending" => Consistent(s, q.load, q.saw)
    /\ q.state # "abandoned" => q.load = reloads

(* What a section shows, v, and what it waits for. *)
ViewInv(s, v) ==
    /\ v.load \in Nat
    /\ v.load <= reloads
    /\ v.load > 0 => v.kind \in {"loaded", "error"}
    /\ v.kind \in {"loading", "loaded", "not_found", "error"}
    /\ v.kind = "loaded" =>
          /\ Consistent(s, v.load, v.saw)
          /\ \A i \in DOMAIN Calls(s) : Calls(s)[i] \in DOMAIN v.saw

SectionInv(s) ==
    /\ \A q \in inflight[s] : IsRequest(q) /\ RequestInv(s, q)
    /\ ViewInv(s, view[s])
    /\ button # "closed" /\ Live(s) = {} => view[s].load = reloads
    /\ button = "closed" => inflight[s] = {} /\ view[s].kind = "loading"

(* The execution that the page waits for is one of its run. *)
ServingInv(t) ==
    /\ pc[t] # "idle" => target[t] = Page
    /\ pc[t] = "idle" /\ reply[t].code = 200 => reply[t].run = Page

PageInv ==
    /\ button = "closed" => reloads = 0 /\ serving = {}
    /\ button # "closed" => status[Page] # "absent"
    /\ reloads > 0 => bundle[Page] # "none"

PageIInv ==
    /\ IInv
    /\ PageTypeOK
    /\ PageInv
    /\ \A t \in serving : ServingInv(t)
    /\ \A s \in Sections : SectionInv(s)

--------------------------------------------------------------------------------
(* The run under the page *)

\* A terminal status and a bundle are final, a started run is not created again,
\* and no run disappears.
LEMMA RowAdvances ==
    ASSUME IInv, NEW r \in Runs, [Next]_vars
    PROVE  /\ status[r] \in Terminal => status'[r] = status[r]
           /\ bundle[r] # "none" => bundle'[r] = bundle[r]
           /\ status[r] # "absent" => status'[r] # "absent"
<1>1. CASE UNCHANGED <<status, bundle>>
  BY <1>1
<1>2. ASSUME NEW q \in Runs, PostRun(q)
      PROVE  /\ UNCHANGED bundle
             /\ status[r] # "absent" => status'[r] = status[r]
  BY <1>2 DEF PostRun, CreateRun, IInv, TypeOK
<1>3. ASSUME NEW t \in Threads, NEW q, NEW expected, NEW next, NEW code, q \in Runs,
             TransitionStatus(q, expected, next, code),
             expected \in {"created", "running"},
             next \in {"running", "completed", "failed"}
      PROVE  /\ UNCHANGED bundle
             /\ status[r] \in Terminal => status'[r] = status[r]
             /\ status[r] # "absent" => status'[r] # "absent"
  BY <1>3, TerminalStatuses DEF TransitionStatus, IInv, TypeOK
<1>4. ASSUME NEW t \in Threads, Handle(t)
      PROVE  \/ UNCHANGED <<status, bundle>>
             \/ /\ UNCHANGED bundle
                /\ status[r] \in Terminal => status'[r] = status[r]
                /\ status[r] # "absent" => status'[r] # "absent"
             \/ /\ UNCHANGED status
                /\ bundle[r] # "none" => bundle'[r] = bundle[r]
  <2>1. pc[t] # "idle" => target[t] \in Runs
    BY DEF IInv, ThreadInv
  <2>2. CASE RejectRun(t) \/ StartRun(t) \/ FinishRun(t)
    <3>1. target[t] \in Runs
      BY <2>1, <2>2 DEF RejectRun, StartRun, FinishRun
    <3>2. \/ UNCHANGED rows
          \/ \E expected \in {"created", "running"},
                next \in {"running", "completed", "failed"} :
                \E code : TransitionStatus(target[t], expected, next, code)
      BY <2>2 DEF RejectRun, StartRun, FinishRun, StaleStatus
    <3> QED  BY <1>3, <3>1, <3>2 DEF rows
  <2>3. CASE PersistArtifact(t)
    BY <2>1, <2>3 DEF PersistArtifact, IInv, TypeOK
  <2>4. CASE GetRun(t) \/ GetStrategy(t) \/ GetSnapshot(t) \/ ExecuteEngine(t)
             \/ DatabaseError(t) \/ AnswerExecuted(t) \/ AnswerError(t)
    BY <2>4 DEF GetRun, GetStrategy, GetSnapshot, ExecuteEngine, DatabaseError,
                AnswerExecuted, AnswerError, Answer, rows
  <2> QED  BY <1>4, <2>2, <2>3, <2>4 DEF Handle, ServiceStep
<1>5. CASE \E t \in Threads, q \in Runs : PostExecute(t, q)
  BY <1>1, <1>5 DEF PostExecute, CallService, rows
<1>6. CASE Crash \/ UNCHANGED vars
  BY <1>1, <1>6 DEF Crash, rows, vars
<1>7. status[r] \in Terminal => status[r] # "absent"
  BY TerminalStatuses
<1> QED  BY <1>2, <1>4, <1>5, <1>6, <1>7 DEF Next

\* The page makes no step of the run's that others do not make.
LEMMA PageStepIsStep ==
    ASSUME [PageNext]_allVars
    PROVE  [Next]_vars
<1>1. OtherClient => [Next]_vars
  BY DEF OtherClient, Next
<1>2. ASSUME NEW t \in Threads
      PROVE  /\ ThreadMoves(t) => [Next]_vars
             /\ ClickExecute(t) => [Next]_vars
             /\ ExecuteAnswered(t) => [Next]_vars
             /\ ExecuteBreaks(t) => [Next]_vars
  BY PageAssumption DEF ThreadMoves, ClickExecute, ExecuteAnswered, ExecuteBreaks, Next
<1>3. ASSUME NEW s \in Sections
      PROVE  /\ ReadNext(s) => [Next]_vars
             /\ AnswerBreaks(s) => [Next]_vars
             /\ SettleOne(s, {q \in inflight[s] : q.state # "broken"}) => [Next]_vars
  BY DEF ReadNext, AnswerBreaks, SettleOne, AnswerArrives, RequestFails, Settle
<1>4. Open \/ ExecuteFails \/ UNCHANGED allVars => [Next]_vars
  BY DEF Open, ExecuteFails, allVars
<1> QED  BY <1>1, <1>2, <1>3, <1>4 DEF PageNext

LEMMA NextIInv ==
    ASSUME IInv, [Next]_vars
    PROVE  IInv'
BY PostRunStep, PostExecuteStep, HandleStep, CrashStep, StutterStep DEF Next

\* What is written with a bundle.
LEMMA BundleFacts ==
    ASSUME IInv
    PROVE  /\ Page \in Runs
           /\ status[Page] \in Statuses \cup {"absent"}
           /\ bundle[Page] \in {"none", "completed", "failed"}
           /\ bundle[Page] # "none" => status[Page] = bundle[Page]
           /\ bundle[Page] # "none" => status[Page] \in Terminal
<1>1. Page \in Runs
  BY PageAssumption
<1> QED  BY <1>1, TerminalStatuses DEF IInv, TypeOK, RunInv

--------------------------------------------------------------------------------
(* What was read *)

LEMMA SectionKinds ==
    ASSUME NEW s \in Sections
    PROVE  s \in {"run", "summary", "artifacts", "manifest"}
BY PageAssumption

\* The calls of each endpoint, and their order.
LEMMA CallsOrder ==
    ASSUME NEW s \in Sections
    PROVE  /\ s \in {"run", "summary"} =>
                 /\ DOMAIN Calls(s) = 1 .. 3
                 /\ Calls(s)[1] = "run" /\ Calls(s)[2] = "bundle"
                 /\ Calls(s)[3] = "metrics"
           /\ s = "artifacts" => DOMAIN Calls(s) = 1 .. 1 /\ Calls(s)[1] = "bundle"
           /\ s = "manifest" => DOMAIN Calls(s) = 1 .. 1 /\ Calls(s)[1] = "manifest"
BY DEF Calls

LEMMA NothingReadIsConsistent ==
    ASSUME NEW s, NEW load
    PROVE  Consistent(s, load, << >>)
<1>1. DOMAIN << >> = {}
  OBVIOUS
<1> QED  BY <1>1 DEF Consistent

\* One more call keeps what was read consistent.
LEMMA ReadConsistent ==
    ASSUME IInv, NEW s \in Sections, NEW load \in Nat, NEW saw,
           Consistent(s, load, saw),
           status[Page] # "absent", load > 0 => bundle[Page] # "none",
           NEW i \in DOMAIN Calls(s), Calls(s)[i] \notin DOMAIN saw,
           \A j \in 1 .. i - 1 : Calls(s)[j] \in DOMAIN saw,
           NEW read, read = [c \in DOMAIN saw \cup {Calls(s)[i]} |->
                               IF c = Calls(s)[i] THEN Read(Calls(s)[i]) ELSE saw[c]]
    PROVE  Consistent(s, load, read)
<1> DEFINE call == Calls(s)[i]
<1>1. /\ DOMAIN read = DOMAIN saw \cup {call}
      /\ read[call] = Read(call)
      /\ \A c \in DOMAIN saw : c # call => read[c] = saw[c]
  OBVIOUS
<1>2. /\ call = "bundle" /\ s # "artifacts" => "run" \in DOMAIN saw
      /\ call = "metrics" => "bundle" \in DOMAIN saw
      /\ call = "run" => i = 1
      /\ call \in {"run", "bundle", "metrics", "manifest"}
  BY SectionKinds, CallsOrder
<1>3. /\ status[Page] \in Statuses
      /\ bundle[Page] \in {"none", "completed", "failed"}
      /\ bundle[Page] # "none" => status[Page] = bundle[Page]
      /\ bundle[Page] # "none" => status[Page] \in Terminal
  BY BundleFacts
<1> HIDE DEF call
<1>4. CASE call = "run"
  BY <1>1, <1>2, <1>3, <1>4 DEF Consistent, Read
<1>5. CASE call = "bundle"
  BY <1>1, <1>2, <1>3, <1>5, TerminalStatuses DEF Consistent, Read, Statuses
<1>6. CASE call = "metrics"
  BY <1>1, <1>2, <1>3, <1>6 DEF Consistent, Read
<1>7. CASE call = "manifest"
  <2>1. \A c \in {"run", "bundle", "metrics"} :
          /\ c \in DOMAIN read <=> c \in DOMAIN saw
          /\ c \in DOMAIN saw => read[c] = saw[c]
    BY <1>1, <1>7
  <2>2. load > 0 => read["manifest"] = TRUE
    <3>1. Read("manifest") = (bundle[Page] # "none")
      BY DEF Read
    <3>2. load > 0 => Read("manifest") = TRUE
      BY <3>1
    <3> QED  BY <1>1, <1>7, <3>2
  <2>3. DOMAIN read \subseteq {Calls(s)[j] : j \in DOMAIN Calls(s)}
    BY <1>1 DEF Consistent, call
  <2> QED  BY <2>1, <2>2, <2>3 DEF Consistent
<1> QED  BY <1>2, <1>4, <1>5, <1>6, <1>7

\* The run may go on: what was read before remains consistent with it.
LEMMA KeptConsistent ==
    ASSUME IInv, [Next]_vars, NEW s, NEW load, NEW saw,
           Consistent(s, load, saw), load > 0 => bundle[Page] # "none"
    PROVE  Consistent(s, load, saw)'
<1>1. /\ status[Page] \in Terminal => status'[Page] = status[Page]
      /\ bundle[Page] # "none" => bundle'[Page] = bundle[Page]
      /\ bundle[Page] # "none" => status[Page] \in Terminal
      /\ bundle[Page] \in {"none", "completed", "failed"}
  BY RowAdvances, PageAssumption, BundleFacts
<1>2. bundle'[Page] = "completed" => bundle[Page] \in {"none", "completed"}
  BY <1>1
<1> QED  BY <1>1, <1>2 DEF Consistent

--------------------------------------------------------------------------------
(* What a step leaves alone *)

LEMMA KeptSection ==
    ASSUME PageIInv, [Next]_vars, NEW s \in Sections,
           inflight'[s] = inflight[s], view'[s] = view[s], reloads' = reloads,
           button' = button \/ (button # "closed" /\ button' # "closed")
    PROVE  SectionInv(s)'
<1>1. IInv /\ PageInv /\ SectionInv(s) /\ reloads \in Nat
  BY DEF PageIInv, PageTypeOK
<1>2. ASSUME NEW q \in inflight'[s]
      PROVE  IsRequest(q) /\ RequestInv(s, q)'
  <2>1. q \in inflight[s] /\ IsRequest(q) /\ RequestInv(s, q)
    BY <1>1 DEF SectionInv
  <2>2. q.state = "pending" => q.load = reloads
    BY <2>1 DEF RequestInv
  <2>3. ASSUME q.state = "pending"
        PROVE  Consistent(s, q.load, q.saw)'
    BY <1>1, <2>1, <2>2, <2>3, KeptConsistent DEF RequestInv, PageInv
  <2> QED  BY <2>1, <2>3 DEF RequestInv
<1>3. PICK v : v = view[s]
  OBVIOUS
<1>4. ViewInv(s, v) /\ (v.load > 0 => bundle[Page] # "none")
  BY <1>1, <1>3 DEF SectionInv, ViewInv, PageInv
<1>5. Consistent(s, v.load, v.saw) => Consistent(s, v.load, v.saw)'
  BY <1>1, <1>4, KeptConsistent
<1>6. ViewInv(s, v)'
  BY <1>4, <1>5 DEF ViewInv
<1>7. view'[s] = v
  BY <1>3
<1>8. ViewInv(s, view[s])'
  BY <1>6, <1>7 DEF ViewInv, Consistent
<1>9. Live(s)' = Live(s)
  BY DEF Live
<1> QED  BY <1>1, <1>2, <1>8, <1>9 DEF SectionInv

\* A step of the run's that the page does not take part in, for the rest of the
\* invariant.
LEMMA KeptPage ==
    ASSUME PageIInv, [Next]_vars,
           reloads' = reloads, button' = button, serving' \subseteq serving
    PROVE  PageInv'
BY RowAdvances, PageAssumption DEF PageIInv, PageInv

LEMMA KeptServing ==
    ASSUME PageIInv, NEW t \in serving',
           t \in serving, pc'[t] = pc[t], target'[t] = target[t], reply'[t] = reply[t]
    PROVE  ServingInv(t)'
BY DEF PageIInv, ServingInv

--------------------------------------------------------------------------------
(* One lemma per action *)

LEMMA OtherClientStep ==
    ASSUME PageIInv, OtherClient
    PROVE  PageIInv'
<1>1. [Next]_vars /\ UNCHANGED page
  BY DEF OtherClient, Next
<1>2. IInv'
  BY <1>1, NextIInv DEF PageIInv
<1>3. PageTypeOK' /\ PageInv'
  BY <1>1, KeptPage DEF PageIInv, PageTypeOK, page
<1>4. ASSUME NEW t \in serving'
      PROVE  ServingInv(t)'
  <2>1. t \in serving /\ t \in Threads
    BY <1>1, <1>4 DEF page, PageIInv, PageTypeOK
  <2>2. pc'[t] = pc[t] /\ target'[t] = target[t] /\ reply'[t] = reply[t]
    BY <2>1 DEF OtherClient, PostRun, PostExecute, CallService, Goto, threads,
                PageIInv, IInv, TypeOK
  <2> QED  BY <2>1, <2>2, KeptServing
<1>5. ASSUME NEW s \in Sections
      PROVE  SectionInv(s)'
  BY <1>1, KeptSection DEF page
<1> QED  BY <1>2, <1>3, <1>4, <1>5 DEF PageIInv

LEMMA ThreadMovesStep ==
    ASSUME PageIInv, NEW t \in Threads, ThreadMoves(t)
    PROVE  PageIInv'
<1>1. [Next]_vars /\ UNCHANGED page
  BY DEF ThreadMoves, Next
<1>2. IInv'
  BY <1>1, NextIInv DEF PageIInv
<1>3. PageTypeOK' /\ PageInv'
  BY <1>1, KeptPage DEF PageIInv, PageTypeOK, page
<1>4. ASSUME NEW u \in serving'
      PROVE  ServingInv(u)'
  <2>1. u \in serving /\ u \in Threads /\ ServingInv(u) /\ IInv /\ TypeOK
    BY <1>1, <1>4 DEF page, PageIInv, PageTypeOK, IInv
  <2>2. CASE ServiceStep(t)
    <3>1. UNCHANGED <<target, reply>> /\ pc[t] # "idle"
      BY <2>2 DEF ServiceStep, GetRun, GetStrategy, GetSnapshot, RejectRun, StartRun,
                  ExecuteEngine, FinishRun, PersistArtifact, DatabaseError,
                  RepositoryCalls
    <3>2. \E label, value : Goto(t, label, value) /\ label # "idle"
      BY <2>2 DEF ServiceStep, GetRun, GetStrategy, GetSnapshot, RejectRun, StartRun,
                  ExecuteEngine, FinishRun, PersistArtifact, DatabaseError, Raise,
                  StaleStatus
    <3>3. pc'[u] = pc[u] \/ (u = t /\ pc'[u] # "idle")
      BY <2>1, <3>2 DEF Goto, TypeOK
    <3> QED  BY <2>1, <3>1, <3>3 DEF ServingInv
  <2>3. CASE AnswerExecuted(t) \/ AnswerError(t)
    <3>1. pc[t] # "idle"
      BY <2>3 DEF AnswerExecuted, AnswerError
    <3>2. /\ pc' = [pc EXCEPT ![t] = "idle"]
          /\ reply'[t].run = target[t]
          /\ \A w \in Threads : w # t => /\ reply'[w] = reply[w]
                                         /\ target'[w] = target[w]
      BY <2>1, <2>3 DEF AnswerExecuted, AnswerError, Answer, Goto, TypeOK
    <3> QED  BY <2>1, <3>1, <3>2 DEF ServingInv, TypeOK
  <2> QED  BY <2>2, <2>3 DEF ThreadMoves, Handle
<1>5. ASSUME NEW s \in Sections
      PROVE  SectionInv(s)'
  BY <1>1, KeptSection DEF page
<1> QED  BY <1>2, <1>3, <1>4, <1>5 DEF PageIInv

LEMMA ClickExecuteStep ==
    ASSUME PageIInv, NEW t \in Threads, ClickExecute(t)
    PROVE  PageIInv'
<1>1. [Next]_vars
  BY PageAssumption DEF ClickExecute, Next
<1>2. IInv'
  BY <1>1, NextIInv DEF PageIInv
<1>3. button # "closed"
  BY PageAssumption DEF ClickExecute, ButtonShown, PageIInv, SectionInv
<1>4. /\ button' = "waiting" /\ serving' = {t}
      /\ UNCHANGED <<view, inflight, reloads>>
  BY DEF ClickExecute
<1>5. PageTypeOK'
  BY <1>4 DEF PageIInv, PageTypeOK
<1>6. PageInv'
  BY <1>1, <1>3, <1>4, RowAdvances, PageAssumption DEF PageIInv, PageInv
<1>7. ASSUME NEW u \in serving'
      PROVE  ServingInv(u)'
  <2>1. u = t /\ pc'[t] = "get_run" /\ target'[t] = Page
    BY <1>4, <1>7 DEF ClickExecute, PostExecute, CallService, Goto, PageIInv, IInv,
                      TypeOK
  <2> QED  BY <2>1 DEF ServingInv
<1>8. ASSUME NEW s \in Sections
      PROVE  SectionInv(s)'
  BY <1>1, <1>3, <1>4, KeptSection
<1> QED  BY <1>2, <1>5, <1>6, <1>7, <1>8 DEF PageIInv

LEMMA ExecuteFailsStep ==
    ASSUME PageIInv, ExecuteFails \/ \E t \in Threads : ExecuteBreaks(t)
    PROVE  PageIInv'
<1>1. /\ UNCHANGED vars /\ UNCHANGED <<view, inflight, reloads>> /\ serving' = {}
      /\ serving # {}
      /\ button' = button \/ button' = "failed"
  BY DEF ExecuteFails, ExecuteBreaks
<1>2. button # "closed"
  BY <1>1 DEF PageIInv, PageInv
<1>3. IInv'
  BY <1>1, NextIInv DEF PageIInv
<1>4. PageTypeOK' /\ PageInv'
  BY <1>1, <1>2 DEF PageIInv, PageTypeOK, PageInv, vars
<1>5. ASSUME NEW s \in Sections
      PROVE  SectionInv(s)'
  BY <1>1, <1>2, KeptSection
<1> QED  BY <1>1, <1>3, <1>4, <1>5 DEF PageIInv

\* Steps in which only one section takes part.
LEMMA OneSectionStep ==
    ASSUME PageIInv, NEW s \in Sections, UNCHANGED <<vars, reloads, button, serving>>,
           NEW requests, inflight' = [inflight EXCEPT ![s] = requests],
           NEW shown, view' = [view EXCEPT ![s] = shown],
           \A q \in requests : IsRequest(q) /\ RequestInv(s, q),
           ViewInv(s, shown), button # "closed",
           \/ \E q \in requests : q.state # "abandoned"
           \/ shown.load = reloads
           \/ shown = view[s] /\ Live(s) \subseteq requests
    PROVE  PageIInv'
<1>1. /\ inflight'[s] = requests /\ view'[s] = shown
      /\ \A u \in Sections : u # s => inflight'[u] = inflight[u] /\ view'[u] = view[u]
  BY DEF PageIInv, PageTypeOK
<1>2. IInv'
  BY NextIInv DEF PageIInv
<1>3. PageTypeOK' /\ PageInv'
  BY DEF PageIInv, PageTypeOK, PageInv, vars
<1>4. ASSUME NEW t \in serving'
      PROVE  ServingInv(t)'
  BY <1>4, KeptServing DEF vars
<1>5. ASSUME NEW u \in Sections, u # s
      PROVE  SectionInv(u)'
  BY <1>1, <1>5, KeptSection
<1>6. UNCHANGED <<status, bundle, reloads, button>>
  BY DEF vars
<1>7. \A q \in inflight'[s] : IsRequest(q) /\ RequestInv(s, q)'
  BY <1>1, <1>6 DEF RequestInv, Consistent
<1>8. ViewInv(s, view[s])'
  BY <1>1, <1>6 DEF ViewInv, Consistent
<1>9. Live(s)' = {} => view'[s].load = reloads'
  <2>1. Live(s)' = {q \in requests : q.state # "abandoned"}
    BY <1>1 DEF Live
  <2>2. CASE shown = view[s] /\ Live(s) \subseteq requests
    <3>1. Live(s) \subseteq Live(s)'
      BY <2>1, <2>2 DEF Live
    <3>2. Live(s) = {} => view[s].load = reloads
      BY DEF PageIInv, SectionInv
    <3> QED  BY <1>1, <1>6, <2>2, <3>1, <3>2
  <2> QED  BY <1>1, <1>6, <2>1, <2>2
<1>10. SectionInv(s)'
  BY <1>6, <1>7, <1>8, <1>9 DEF SectionInv
<1> QED  BY <1>2, <1>3, <1>4, <1>5, <1>10 DEF PageIInv

LEMMA OpenIfInflight ==
    ASSUME PageIInv, NEW s \in Sections, NEW q \in inflight[s]
    PROVE  /\ button # "closed" /\ status[Page] # "absent"
           /\ IsRequest(q) /\ RequestInv(s, q) /\ ViewInv(s, view[s])
           /\ reloads > 0 => bundle[Page] # "none"
           /\ q.load > 0 /\ q.state = "pending" => bundle[Page] # "none"
           /\ view = [view EXCEPT ![s] = view[s]]
           /\ reloads \in Nat
           /\ \A p \in inflight[s] : IsRequest(p) /\ RequestInv(s, p)
<1>1. SectionInv(s) /\ PageInv /\ PageTypeOK
  BY DEF PageIInv
<1>2. button # "closed" /\ status[Page] # "absent"
  BY <1>1 DEF SectionInv, PageInv
<1>3. view = [view EXCEPT ![s] = view[s]]
  BY <1>1 DEF PageTypeOK
<1> QED  BY <1>1, <1>2, <1>3 DEF SectionInv, PageInv, RequestInv, PageTypeOK

LEMMA ReadNextStep ==
    ASSUME PageIInv, NEW s \in Sections, ReadNext(s)
    PROVE  PageIInv'
<1>1. PICK q \in Pending(s), i \in DOMAIN Calls(s) :
          /\ Calls(s)[i] \notin DOMAIN q.saw
          /\ \A j \in 1 .. i - 1 : Calls(s)[j] \in DOMAIN q.saw
          /\ inflight' = [inflight EXCEPT ![s] = (@ \ {q}) \cup
                 {[q EXCEPT !.saw = [c \in DOMAIN @ \cup {Calls(s)[i]} |->
                       IF c = Calls(s)[i] THEN Read(Calls(s)[i]) ELSE @[c]]]}]
  BY DEF ReadNext
<1> DEFINE read == [c \in DOMAIN q.saw \cup {Calls(s)[i]} |->
                       IF c = Calls(s)[i] THEN Read(Calls(s)[i]) ELSE q.saw[c]]
           more == [q EXCEPT !.saw = read]
           requests == (inflight[s] \ {q}) \cup {more}
<1>2. q \in inflight[s] /\ q.state = "pending"
  BY DEF Pending
<1>3. inflight' = [inflight EXCEPT ![s] = requests]
  BY <1>1, <1>2 DEF PageIInv, PageTypeOK
<1>4. /\ IsRequest(q) /\ RequestInv(s, q) /\ status[Page] # "absent"
      /\ q.load > 0 => bundle[Page] # "none"
  BY <1>2, OpenIfInflight
<1>5. more = [load |-> q.load, state |-> q.state, saw |-> read]
  BY <1>4 DEF IsRequest
<1>6. Consistent(s, q.load, read)
  <2>1. Consistent(s, q.load, q.saw) /\ q.load \in Nat
    BY <1>2, <1>4 DEF RequestInv, IsRequest
  <2>2. IInv
    BY DEF PageIInv
  <2> QED  BY <1>1, <1>4, <2>1, <2>2, ReadConsistent
<1> HIDE DEF read
<1>7. IsRequest(more) /\ RequestInv(s, more) /\ more.state = "pending"
  BY <1>2, <1>4, <1>5, <1>6 DEF IsRequest, RequestInv
<1> HIDE DEF more
<1>8. \A p \in requests : IsRequest(p) /\ RequestInv(s, p)
  BY <1>2, <1>7, OpenIfInflight
<1>9. \E p \in requests : p.state # "abandoned"
  BY <1>7
<1>10. /\ button # "closed" /\ ViewInv(s, view[s])
       /\ view = [view EXCEPT ![s] = view[s]]
  BY <1>2, OpenIfInflight
<1>11. UNCHANGED <<vars, reloads, button, serving, view>>
  BY DEF ReadNext
<1>12. view' = [view EXCEPT ![s] = view[s]]
  BY <1>10, <1>11
<1> HIDE DEF requests
<1> QED  BY <1>3, <1>8, <1>9, <1>10, <1>11, <1>12, OneSectionStep

LEMMA ChangedRequest ==
    ASSUME NEW q, IsRequest(q), NEW state, NEW saw
    PROVE  [q EXCEPT !.state = state, !.saw = saw] =
              [load |-> q.load, state |-> state, saw |-> saw]
<1>1. PICK load, old, read : q = [load |-> load, state |-> old, saw |-> read]
  BY DEF IsRequest
<1>2. [q EXCEPT !.state = state] = [load |-> load, state |-> state, saw |-> read]
  BY <1>1
<1>3. [q EXCEPT !.state = state, !.saw = saw] =
          [[q EXCEPT !.state = state] EXCEPT !.saw = saw]
  OBVIOUS
<1>4. [[load |-> load, state |-> state, saw |-> read] EXCEPT !.saw = saw] =
          [load |-> load, state |-> state, saw |-> saw]
  OBVIOUS
<1> QED  BY <1>1, <1>2, <1>3, <1>4

LEMMA AnswerBreaksStep ==
    ASSUME PageIInv, NEW s \in Sections, AnswerBreaks(s)
    PROVE  PageIInv'
<1>1. PICK q \in Pending(s) :
          inflight' = [inflight EXCEPT ![s] = (@ \ {q}) \cup
                 {[q EXCEPT !.state = "broken", !.saw = << >>]}]
  BY DEF AnswerBreaks
<1> DEFINE half == [q EXCEPT !.state = "broken", !.saw = << >>]
           requests == (inflight[s] \ {q}) \cup {half}
<1>2. q \in inflight[s] /\ q.state = "pending"
  BY DEF Pending
<1>3. inflight' = [inflight EXCEPT ![s] = requests]
  BY <1>1, <1>2 DEF PageIInv, PageTypeOK
<1>4. IsRequest(q) /\ RequestInv(s, q)
  BY <1>2, OpenIfInflight
<1>5. half = [load |-> q.load, state |-> "broken", saw |-> << >>]
  BY <1>4, ChangedRequest
<1>6. IsRequest(half) /\ RequestInv(s, half) /\ half.state = "broken"
  BY <1>2, <1>4, <1>5 DEF IsRequest, RequestInv
<1> HIDE DEF half
<1>7. \A p \in requests : IsRequest(p) /\ RequestInv(s, p)
  BY <1>2, <1>6, OpenIfInflight
<1>8. \E p \in requests : p.state # "abandoned"
  BY <1>6
<1>9. /\ button # "closed" /\ ViewInv(s, view[s])
      /\ view = [view EXCEPT ![s] = view[s]]
  BY <1>2, OpenIfInflight
<1>10. UNCHANGED <<vars, reloads, button, serving, view>>
  BY DEF AnswerBreaks
<1>11. view' = [view EXCEPT ![s] = view[s]]
  BY <1>9, <1>10
<1> HIDE DEF requests
<1> QED  BY <1>3, <1>7, <1>8, <1>9, <1>10, <1>11, OneSectionStep

LEMMA SettleStep ==
    ASSUME PageIInv, NEW s \in Sections, NEW q \in inflight[s], q.state # "broken",
           NEW kind, kind \in {"loaded", "not_found", "error"}, NEW saw,
           q.state = "pending" /\ kind = "loaded" =>
              /\ Consistent(s, q.load, saw)
              /\ \A i \in DOMAIN Calls(s) : Calls(s)[i] \in DOMAIN saw,
           q.state = "pending" /\ kind = "not_found" => q.load = 0,
           Settle(s, q, kind, saw)
    PROVE  PageIInv'
<1> DEFINE requests == inflight[s] \ {q}
           shown == IF q.state = "pending"
                    THEN [kind |-> kind, load |-> q.load, saw |-> saw] ELSE view[s]
<1>1. inflight' = [inflight EXCEPT ![s] = requests]
  BY DEF Settle, PageIInv, PageTypeOK
<1>2. /\ button # "closed" /\ ViewInv(s, view[s]) /\ IsRequest(q) /\ RequestInv(s, q)
      /\ view = [view EXCEPT ![s] = view[s]] /\ reloads \in Nat
  BY OpenIfInflight
<1>3. view' = [view EXCEPT ![s] = shown]
  BY <1>2 DEF Settle, Show
<1>4. \A p \in requests : IsRequest(p) /\ RequestInv(s, p)
  BY OpenIfInflight
<1>5. q.state = "pending" => q.load = reloads /\ q.load \in Nat
  BY <1>2 DEF RequestInv, IsRequest
<1>6. ViewInv(s, shown)
  BY <1>2, <1>5 DEF ViewInv
<1>7. shown.load = reloads \/ (shown = view[s] /\ Live(s) \subseteq requests)
  <2>1. CASE q.state = "pending"
    BY <1>5, <2>1
  <2>2. CASE q.state # "pending"
    <3>1. q.state = "abandoned"
      BY <1>2, <2>2 DEF IsRequest
    <3> QED  BY <2>2, <3>1 DEF Live
  <2> QED  BY <2>1, <2>2
<1>8. UNCHANGED <<vars, reloads, button, serving>>
  BY DEF Settle
<1> HIDE DEF requests, shown
<1> QED  BY <1>1, <1>2, <1>3, <1>4, <1>6, <1>7, <1>8, OneSectionStep

LEMMA SettleOneStep ==
    ASSUME PageIInv, NEW s \in Sections,
           SettleOne(s, {q \in inflight[s] : q.state # "broken"})
    PROVE  PageIInv'
<1>1. PICK q \in inflight[s] : q.state # "broken"
                                /\ (AnswerArrives(s, q) \/ RequestFails(s, q))
  BY DEF SettleOne
<1>2. CASE RequestFails(s, q)
  BY <1>1, <1>2, SettleStep DEF RequestFails
<1>3. CASE AnswerArrives(s, q)
  <2> DEFINE kind == IF NotFound(s, q.saw) THEN "not_found" ELSE "loaded"
  <2>1. /\ q.state = "pending" /\ Settle(s, q, kind, q.saw)
        /\ \A i \in DOMAIN Calls(s) : Calls(s)[i] \in DOMAIN q.saw
    BY <1>3 DEF AnswerArrives, Answered
  <2>2. /\ Consistent(s, q.load, q.saw) /\ q.load \in Nat
        /\ q.load > 0 => bundle[Page] # "none"
    BY <2>1, OpenIfInflight DEF RequestInv, IsRequest
  <2>3. NotFound(s, q.saw) => q.load = 0
    <3>1. s = "artifacts" => "bundle" \in DOMAIN q.saw
      BY <2>1, CallsOrder
    <3>2. s = "manifest" => "manifest" \in DOMAIN q.saw
      BY <2>1, CallsOrder
    <3> QED  BY <2>2, <3>1, <3>2 DEF NotFound, Consistent
  <2>4. kind \in {"loaded", "not_found", "error"} /\ (kind = "not_found" => q.load = 0)
    BY <2>3
  <2> HIDE DEF kind
  <2> QED  BY <1>1, <2>1, <2>2, <2>4, SettleStep
<1> QED  BY <1>1, <1>2, <1>3

--------------------------------------------------------------------------------
(* Loading the page *)

\* After a load every section waits for a request of that load, and the others
\* are abandoned.
LEMMA LoadSections ==
    ASSUME PageIInv, NEW token \in Nat, Load(token), reloads' = token,
           reloads <= token, button' # "closed", view' = view,
           UNCHANGED vars,
           \A s \in Sections : view[s].load > 0 => bundle[Page] # "none"
    PROVE  \A s \in Sections : SectionInv(s)'
<1> SUFFICES ASSUME NEW s \in Sections PROVE SectionInv(s)'
  OBVIOUS
<1> DEFINE sent == [load |-> token, state |-> "pending", saw |-> << >>]
           dropped == {[q EXCEPT !.state = "abandoned", !.saw = << >>] :
                          q \in {p \in inflight[s] : p.state # "broken"}}
<1>1. inflight'[s] = dropped \cup {sent}
  BY DEF Load
<1>2. SectionInv(s) /\ reloads \in Nat
  BY DEF PageIInv, PageTypeOK
<1>3. IsRequest(sent) /\ RequestInv(s, sent)' /\ sent.state = "pending"
  <2>1. sent.load = token /\ sent.state = "pending" /\ sent.saw = << >>
    OBVIOUS
  <2>2. Consistent(s, token, << >>)'
    <3>1. DOMAIN << >> = {}
      OBVIOUS
    <3> QED  BY <3>1 DEF Consistent
  <2> QED  BY <2>1, <2>2 DEF IsRequest, RequestInv
<1>4. ASSUME NEW q \in dropped
      PROVE  IsRequest(q) /\ RequestInv(s, q)'
  <2>1. PICK p \in inflight[s] : q = [p EXCEPT !.state = "abandoned", !.saw = << >>]
    OBVIOUS
  <2>2. IsRequest(p)
    BY <1>2 DEF SectionInv
  <2>3. q = [load |-> p.load, state |-> "abandoned", saw |-> << >>]
    BY <2>1, <2>2, ChangedRequest
  <2> QED  BY <2>2, <2>3 DEF IsRequest, RequestInv
<1> HIDE DEF dropped
<1>5. \A q \in inflight'[s] : IsRequest(q) /\ RequestInv(s, q)'
  BY <1>1, <1>3, <1>4
<1>6. ViewInv(s, view[s])'
  <2>1. ViewInv(s, view[s]) /\ view'[s] = view[s] /\ UNCHANGED <<status, bundle>>
    BY <1>2 DEF SectionInv, vars
  <2> QED  BY <1>2, <2>1 DEF ViewInv, Consistent
<1>7. Live(s)' # {}
  BY <1>1, <1>3 DEF Live
<1> QED  BY <1>5, <1>6, <1>7 DEF SectionInv

LEMMA OpenStep ==
    ASSUME PageIInv, Open
    PROVE  PageIInv'
<1>1. /\ button = "closed" /\ button' = "idle" /\ status[Page] # "absent"
      /\ UNCHANGED <<vars, view, reloads, serving>> /\ Load(reloads)
      /\ reloads \in Nat /\ reloads = 0 /\ serving = {}
  BY DEF Open, PageIInv, PageInv, PageTypeOK
<1>2. IInv'
  BY <1>1, NextIInv DEF PageIInv
<1>3. PageTypeOK' /\ PageInv'
  BY <1>1 DEF PageIInv, PageTypeOK, PageInv, vars, Load
<1>4. \A s \in Sections : view[s].load <= reloads /\ view[s].load \in Nat
  BY DEF PageIInv, SectionInv, ViewInv
<1>5. \A s \in Sections : SectionInv(s)'
  BY <1>1, <1>4, LoadSections
<1> QED  BY <1>1, <1>2, <1>3, <1>5 DEF PageIInv

LEMMA ExecuteAnsweredStep ==
    ASSUME PageIInv, NEW t \in Threads, ExecuteAnswered(t)
    PROVE  PageIInv'
<1>1. /\ t \in serving /\ pc[t] = "idle" /\ serving' = {}
      /\ UNCHANGED <<vars, view>>
      /\ button # "closed" /\ reloads \in Nat /\ ServingInv(t) /\ AnswerInv(t)
  BY DEF ExecuteAnswered, PageIInv, PageInv, PageTypeOK, IInv
<1>2. IInv'
  BY <1>1, NextIInv DEF PageIInv
<1>3. CASE reply[t].code # 200
  <2>1. button' = "failed" /\ UNCHANGED <<reloads, inflight>>
    BY <1>3 DEF ExecuteAnswered
  <2>2. PageTypeOK' /\ PageInv'
    BY <1>1, <2>1 DEF PageIInv, PageTypeOK, PageInv, vars
  <2>3. \A s \in Sections : SectionInv(s)'
    BY <1>1, <2>1, KeptSection
  <2> QED  BY <1>1, <1>2, <2>2, <2>3 DEF PageIInv
<1>4. CASE reply[t].code = 200
  <2>1. button' = "succeeded" /\ reloads' = reloads + 1 /\ Load(reloads + 1)
    BY <1>4 DEF ExecuteAnswered
  <2>2. bundle[Page] # "none"
    BY <1>1, <1>4 DEF ServingInv, AnswerInv
  <2>3. PageTypeOK'
    <3>1. PageTypeOK /\ view' = view /\ reloads' \in Nat
      BY <1>1, <2>1 DEF PageIInv
    <3>2. DOMAIN inflight' = Sections /\ inflight' = [s \in Sections |-> inflight'[s]]
      BY <2>1 DEF Load
    <3> QED  BY <1>1, <2>1, <3>1, <3>2 DEF PageTypeOK
  <2>5. PageInv'
    BY <1>1, <2>1, <2>2 DEF PageIInv, PageInv, vars
  <2>4. \A s \in Sections : SectionInv(s)'
    BY <1>1, <2>1, <2>2, LoadSections
  <2> QED  BY <1>1, <1>2, <2>3, <2>4, <2>5 DEF PageIInv
<1> QED  BY <1>3, <1>4

--------------------------------------------------------------------------------
(* The invariant *)

LEMMA PageInitIInv == PageInit => PageIInv
<1> SUFFICES ASSUME PageInit PROVE PageIInv
  OBVIOUS
<1>1. IInv
  BY InitIInv DEF PageInit
<1>2. PageTypeOK /\ PageInv
  BY DEF PageInit, PageTypeOK, PageInv
<1>3. \A s \in Sections : SectionInv(s)
  BY DEF PageInit, SectionInv, ViewInv
<1>4. serving = {}
  BY DEF PageInit
<1> QED  BY <1>1, <1>2, <1>3, <1>4 DEF PageIInv

LEMMA PageNextIInv ==
    ASSUME PageIInv, [PageNext]_allVars
    PROVE  PageIInv'
<1>1. CASE UNCHANGED allVars
  <2>1. IInv'
    BY <1>1, NextIInv DEF allVars, PageIInv
  <2>2. PageTypeOK' /\ PageInv'
    BY <1>1 DEF allVars, vars, page, PageIInv, PageTypeOK, PageInv
  <2>3. \A t \in serving' : ServingInv(t)'
    BY <1>1, KeptServing DEF allVars, vars, page
  <2>4. \A s \in Sections : SectionInv(s)'
    BY <1>1, KeptSection DEF allVars, page
  <2> QED  BY <2>1, <2>2, <2>3, <2>4 DEF PageIInv
<1>2. CASE \E t \in Threads : ThreadMoves(t) \/ ClickExecute(t)
                               \/ ExecuteAnswered(t) \/ ExecuteBreaks(t)
  BY <1>2, ThreadMovesStep, ClickExecuteStep, ExecuteAnsweredStep, ExecuteFailsStep
<1>3. CASE \E s \in Sections :
               \/ ReadNext(s)
               \/ SettleOne(s, {q \in inflight[s] : q.state # "broken"})
               \/ AnswerBreaks(s)
  BY <1>3, ReadNextStep, SettleOneStep, AnswerBreaksStep
<1> QED  BY <1>1, <1>2, <1>3, OtherClientStep, OpenStep, ExecuteFailsStep DEF PageNext

\* The invariant of the page and of the run under it, which anybody executes.
THEOREM PageInvariance == PageSpec => []PageIInv
BY PageInitIInv, PageNextIInv, PTL DEF PageSpec

\* Whatever the page does is something that the endpoints of the run allow, so
\* that what is proved of the runs holds under the page.
THEOREM PageOnlyObserves == PageSpec => Spec
BY PageStepIsStep, PTL DEF PageSpec, PageInit, Spec

\* No answer from before the last execution stays on the screen, in whatever
\* order the answers come, and whichever of them come.
THEOREM ScreenIsCurrent == PageSpec => []ShownIsCurrent
<1>1. PageIInv => ShownIsCurrent
  BY DEF PageIInv, SectionInv, ShownIsCurrent
<1> QED  BY <1>1, PageInvariance, PTL

\* An answer that several statements make up does not contradict itself.
THEOREM AnswersStayWhole == PageSpec => []AnswersAreWhole
<1>1. ASSUME PageIInv
      PROVE  AnswersAreWhole
  <2> SUFFICES ASSUME NEW s \in Sections \cap {"run", "summary"},
                      view[s].kind = "loaded"
               PROVE  LET saw == view[s].saw IN
                      /\ saw["bundle"] # "none" =>
                            saw["run"] \in {"created", "running", saw["bundle"]}
                      /\ Reason(saw) = "metric_not_computed" => saw["bundle"] = "failed"
    BY DEF AnswersAreWhole
  <2>1. /\ Consistent(s, view[s].load, view[s].saw)
        /\ \A i \in DOMAIN Calls(s) : Calls(s)[i] \in DOMAIN view[s].saw
    BY <1>1 DEF PageIInv, SectionInv, ViewInv
  <2>2. {"run", "bundle", "metrics"} \subseteq DOMAIN view[s].saw
    BY <2>1, CallsOrder
  <2>3. IInv
    BY <1>1 DEF PageIInv
  <2> QED  BY <2>1, <2>2, <2>3, BundleFacts DEF Consistent, Reason
<1> QED  BY <1>1, PageInvariance, PTL

\* A page that has settled after a successful execution shows the result of it.
THEOREM ResultIsShown == PageSpec => []ExecutedIsShown
<1>1. ASSUME PageIInv
      PROVE  ExecutedIsShown
  <2> SUFFICES ASSUME NEW s \in Sections, reloads > 0, Live(s) = {},
                      view[s].kind # "error"
               PROVE  /\ view[s].kind = "loaded"
                      /\ s \in {"run", "summary"} =>
                            LET saw == view[s].saw IN
                            /\ saw["run"] \in Terminal /\ saw["bundle"] = saw["run"]
                            /\ (Reason(saw) = "available") = (saw["run"] = "completed")
    BY DEF ExecutedIsShown
  <2>1. reloads \in Nat /\ PageInv /\ SectionInv(s) /\ IInv
    BY <1>1 DEF PageIInv, PageTypeOK
  <2>2. button # "closed" /\ bundle[Page] # "none" /\ view[s].load = reloads
    BY <2>1 DEF PageInv, SectionInv
  <2>3. /\ view[s].kind = "loaded"
        /\ Consistent(s, view[s].load, view[s].saw)
        /\ \A i \in DOMAIN Calls(s) : Calls(s)[i] \in DOMAIN view[s].saw
    BY <2>1, <2>2 DEF SectionInv, ViewInv
  <2>4. ASSUME s \in {"run", "summary"}
        PROVE  {"run", "bundle", "metrics"} \subseteq DOMAIN view[s].saw
    BY <2>3, <2>4, CallsOrder
  <2> QED  BY <2>1, <2>2, <2>3, <2>4, BundleFacts DEF Consistent, Reason
<1> QED  BY <1>1, PageInvariance, PTL
================================================================================

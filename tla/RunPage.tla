------------------------------- MODULE RunPage -------------------------------
(***************************************************************************)
(* The page of a run: what the browser shows of a run that this page, or   *)
(* anybody else, may execute, and the endpoints it reads.                  *)
(*                                                                         *)
(* Every section of the page loads itself by a request of its own.  After  *)
(* an execution it abandons the request under way and sends another; the   *)
(* abandoned one may still be answered, before the other or after it.  An  *)
(* endpoint makes several repository calls to answer, each on its own, so  *)
(* a run may be executed between two of them.  A request is ended by its   *)
(* answer, its timer, the network or the server.  But the timer stops when *)
(* the headers are there, and nothing handles a body that breaks off: who  *)
(* waits for it then waits forever.                                        *)
(***************************************************************************)
EXTENDS RunExecution, Sequences

CONSTANTS
    Page,        \* the run that the page shows
    Sections,    \* the sections of the page
    Breaking     \* the sections an answer for which may break off: a bound

ASSUME PageAssumption ==
    /\ Page \in Runs
    /\ "run" \in Sections
    /\ Sections \subseteq {"run", "summary", "artifacts", "manifest"}
    /\ Breaking \subseteq Sections

VARIABLES
    view,        \* per section: what is shown, and the load that asked for it
    inflight,    \* per section: its requests that are not over
    reloads,     \* reloadToken: how many executions were answered with success
    button,      \* what the Execute button is doing; "closed": no page yet
    serving      \* the thread that handles the execution the page waits for

page == <<view, inflight, reloads, button, serving>>
allVars == <<vars, page>>

--------------------------------------------------------------------------------
(* The endpoints *)

\* Mutant: the metrics are read before the bundle.
CallsMetricsFirst(s) ==
    CASE s \in {"run", "summary"} -> <<"run", "metrics", "bundle">>
      [] s = "artifacts"          -> <<"bundle">>
      [] s = "manifest"           -> <<"manifest">>

\* The repository calls that make up an answer, in their order.  A run is never
\* deleted, so that the run of an open page exists needs no step.
Calls(s) ==
    CASE s \in {"run", "summary"} -> <<"run", "bundle", "metrics">>
      [] s = "artifacts"          -> <<"bundle">>
      [] s = "manifest"           -> <<"manifest">>

\* The transaction of the bundle writes the manifest and, if the run completed,
\* its metrics as well.
Read(call) ==
    CASE call = "run"      -> status[Page]
      [] call = "bundle"   -> bundle[Page]
      [] call = "manifest" -> bundle[Page] # "none"
      [] call = "metrics"  -> bundle[Page] = "completed"

\* How the answer explains a metric (_run_metric_value).
Reason(saw) ==
    IF saw["metrics"] THEN "available"
    ELSE IF saw["bundle"] = "none" THEN "run_not_yet_executed"
    ELSE "metric_not_computed"

\* Artifacts and manifest are 404 while there is no row.
NotFound(s, saw) ==
    \/ s = "artifacts" /\ saw["bundle"] = "none"
    \/ s = "manifest" /\ ~saw["manifest"]

--------------------------------------------------------------------------------
(* The requests of a section *)

\* What a section waits for, be it in vain.
Live(s) == {q \in inflight[s] : q.state # "abandoned"}

Pending(s) == {q \in inflight[s] : q.state = "pending"}

\* The effects of all sections run: their cleanup abandons what is under way,
\* then each asks anew.  What an abandoned request read does not matter.
Load(token) ==
    inflight' = [s \in Sections |->
        {[q EXCEPT !.state = "abandoned", !.saw = << >>] :
                q \in {p \in inflight[s] : p.state # "broken"}}
            \cup {[load |-> token, state |-> "pending", saw |-> << >>]}]

\* The next repository call for the answer of a request.
ReadNext(s) ==
    /\ \E q \in Pending(s), i \in DOMAIN Calls(s) :
          LET call == Calls(s)[i] IN
          /\ call \notin DOMAIN q.saw
          /\ \A j \in 1 .. i - 1 : Calls(s)[j] \in DOMAIN q.saw
          /\ inflight' = [inflight EXCEPT ![s] = (@ \ {q}) \cup
                 {[q EXCEPT !.saw = [c \in DOMAIN @ \cup {call} |->
                                         IF c = call THEN Read(call) ELSE @[c]]]}]
    /\ UNCHANGED <<vars, view, reloads, button, serving>>

Show(s, q, kind, saw) ==
    view' = [view EXCEPT ![s] = [kind |-> kind, load |-> q.load, saw |-> saw]]

\* Mutant: what comes back is shown though its request was abandoned.
SettleAlways(s, q, kind, saw) ==
    /\ inflight' = [inflight EXCEPT ![s] = @ \ {q}]
    /\ Show(s, q, kind, saw)
    /\ UNCHANGED <<vars, reloads, button, serving>>

\* A request is over; what comes back for an abandoned one is dropped.
Settle(s, q, kind, saw) ==
    /\ inflight' = [inflight EXCEPT ![s] = @ \ {q}]
    /\ IF q.state = "pending" THEN Show(s, q, kind, saw) ELSE UNCHANGED view
    /\ UNCHANGED <<vars, reloads, button, serving>>

Answered(s, q) ==
    /\ q.state = "pending"
    /\ \A i \in DOMAIN Calls(s) : Calls(s)[i] \in DOMAIN q.saw

AnswerArrives(s, q) ==
    /\ Answered(s, q)
    /\ Settle(s, q, IF NotFound(s, q.saw) THEN "not_found" ELSE "loaded", q.saw)

\* An error, or whatever comes back for an abandoned request.
RequestFails(s, q) == Settle(s, q, "error", << >>)

SettleOne(s, requests) ==
    \E q \in requests : AnswerArrives(s, q) \/ RequestFails(s, q)

\* The body of an answer breaks off (response.text() rejects).
AnswerBreaks(s) ==
    /\ s \in Breaking
    /\ \E q \in Pending(s) :
          /\ Answered(s, q)
          /\ inflight' = [inflight EXCEPT ![s] = (@ \ {q}) \cup
                 {[q EXCEPT !.state = "broken", !.saw = << >>]}]
    /\ UNCHANGED <<vars, view, reloads, button, serving>>

--------------------------------------------------------------------------------
(* The user *)

Open ==
    /\ button = "closed" /\ status[Page] # "absent"
    /\ button' = "idle"
    /\ Load(reloads)
    /\ UNCHANGED <<vars, view, reloads, serving>>

\* The button is there while the run on the screen is CREATED.
ButtonShown ==
    view["run"].kind = "loaded" /\ view["run"].saw["run"] = "created"

\* Mutant: the page is loaded anew when the button is clicked.
ClickExecuteReloads(t) ==
    /\ ButtonShown /\ button # "waiting"
    /\ button' = "waiting" /\ serving' = {t}
    /\ PostExecute(t, Page)
    /\ reloads' = 1
    /\ Load(1)
    /\ UNCHANGED view

ClickExecute(t) ==
    /\ ButtonShown /\ button # "waiting"
    /\ button' = "waiting" /\ serving' = {t}
    /\ PostExecute(t, Page)
    /\ UNCHANGED <<view, inflight, reloads>>

\* Mutant: the answer is not followed by a load.
ExecuteAnsweredNoLoad(t) ==
    /\ t \in serving /\ pc[t] = "idle"
    /\ serving' = {}
    /\ button' = IF reply[t].code = 200 THEN "succeeded" ELSE "failed"
    /\ UNCHANGED <<vars, view, inflight, reloads>>

\* Only success loads the page anew; a refusal is shown at the button.
ExecuteAnswered(t) ==
    /\ t \in serving /\ pc[t] = "idle"
    /\ serving' = {}
    /\ \/ /\ reply[t].code = 200
          /\ button' = "succeeded"
          /\ reloads' = reloads + 1
          /\ Load(reloads + 1)
       \/ /\ reply[t].code # 200
          /\ button' = "failed"
          /\ UNCHANGED <<reloads, inflight>>
    /\ UNCHANGED <<vars, view>>

\* The timer of the execution (60 seconds) or the network.  The thread goes on,
\* and nobody hears its answer.
ExecuteFails ==
    /\ serving # {}
    /\ button' = "failed" /\ serving' = {}
    /\ UNCHANGED <<vars, view, inflight, reloads>>

\* The body of the answer breaks off: handleExecute never returns.
ExecuteBreaks(t) ==
    /\ t \in serving /\ pc[t] = "idle"
    /\ serving' = {}
    /\ UNCHANGED <<vars, view, inflight, reloads, button>>

--------------------------------------------------------------------------------
(* The system *)

OtherClient ==
    /\ \/ \E r \in Runs : PostRun(r)
       \/ \E t \in Threads \ serving, r \in Runs : PostExecute(t, r)
    /\ UNCHANGED page

ThreadMoves(t) == Handle(t) /\ UNCHANGED page

PageInit ==
    /\ Init
    /\ view = [s \in Sections |-> [kind |-> "loading", load |-> 0, saw |-> << >>]]
    /\ inflight = [s \in Sections |-> {}]
    /\ reloads = 0
    /\ button = "closed"
    /\ serving = {}

PageNext ==
    \/ OtherClient
    \/ \E t \in Threads : ThreadMoves(t) \/ ClickExecute(t)
                          \/ ExecuteAnswered(t) \/ ExecuteBreaks(t)
    \/ \E s \in Sections :
          \/ ReadNext(s)
          \/ SettleOne(s, {q \in inflight[s] : q.state # "broken"})
          \/ AnswerBreaks(s)
    \/ Open
    \/ ExecuteFails

PageSpec == PageInit /\ [][PageNext]_allVars

\* Threads run on (see FairSpec), and every request that is waited for has a
\* timer of its own, until its headers are there.  The user need not do anything.
FairPageSpec ==
    /\ PageSpec
    /\ \A t \in Threads : WF_allVars(ThreadMoves(t))
    /\ \A s \in Sections : WF_allVars(SettleOne(s, Pending(s)) \/ AnswerBreaks(s))
    /\ WF_allVars(\/ ExecuteFails
                  \/ \E t \in Threads : ExecuteAnswered(t) \/ ExecuteBreaks(t))

--------------------------------------------------------------------------------
(* Properties *)

\* The screen never settles on an answer from before the last execution: when a
\* section waits for nothing, what it shows, an error included, was asked for by
\* the last load.  Answers overtake each other; only the cancelled flag of
\* useLoadable tells them apart.
ShownIsCurrent ==
    button # "closed" =>
        \A s \in Sections : Live(s) = {} => view[s].load = reloads

\* An answer put together from several statements does not contradict itself,
\* though the run may be executed between any two of them: a bundle agrees with
\* the status beside it unless that is from before the end of the run, and a
\* metric is never explained as not computed but for an execution that failed.
AnswersAreWhole ==
    \A s \in Sections \cap {"run", "summary"} :
        LET saw == view[s].saw IN
        view[s].kind = "loaded" =>
            /\ saw["bundle"] # "none" =>
                  saw["run"] \in {"created", "running", saw["bundle"]}
            /\ Reason(saw) = "metric_not_computed" => saw["bundle"] = "failed"

\* Once an execution was answered with success and the page has settled, every
\* section shows its result or an error: the terminal status, the bundle that
\* agrees with it, and metrics if it completed.  The load that follows the answer
\* comes late enough, whoever else executes the run.
ExecutedIsShown ==
    \A s \in Sections :
        reloads > 0 /\ Live(s) = {} /\ view[s].kind # "error" =>
            /\ view[s].kind = "loaded"
            /\ s \in {"run", "summary"} =>
                  LET saw == view[s].saw IN
                  /\ saw["run"] \in Terminal /\ saw["bundle"] = saw["run"]
                  /\ (Reason(saw) = "available") = (saw["run"] = "completed")

\* A body broke off: of the answer to the execution, or of the run's own load.
HeardHalf ==
    \/ button = "waiting" /\ serving = {}
    \/ \E q \in inflight["run"] : q.state = "broken"

\* Whoever clicks Execute learns what came of it: an error at the button, a page
\* that could not be loaded, or the terminal status.  Only an answer that breaks
\* off after its headers keeps it from him, forever.
ExecutionIsShown ==
    button = "waiting" ~>
        \/ HeardHalf
        \/ button = "failed"
        \/ view["run"].kind = "error"
        \/ view["run"].kind = "loaded" /\ view["run"].saw["run"] \in Terminal
================================================================================

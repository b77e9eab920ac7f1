----------------------------- MODULE RunLifecycle -----------------------------
(***************************************************************************)
(* What a backtest run promises to whoever reads it, whatever threads,     *)
(* crashes and database errors happen behind it: one forward path through  *)
(* its phases, and at most one artifact bundle, written only after the     *)
(* engine gave a result and agreeing with it.                              *)
(*                                                                         *)
(* This is the abstract specification.  RunExecution implements it.        *)
(***************************************************************************)
CONSTANT Runs

VARIABLES
    phase,      \* phase[r]: how far run r has come
    bundle      \* bundle[r]: the terminal status its artifact bundle records

vars == <<phase, bundle>>

\* A run that is rejected never reached the engine; one that is aborted lost
\* its result to an exception of the engine.  Neither has anything to publish.
Phases == {"absent", "created", "running",
           "completed", "failed", "rejected", "aborted"}

Publishable == {"completed", "failed"}

TypeOK ==
    /\ phase \in [Runs -> Phases]
    /\ bundle \in [Runs -> Publishable \cup {"none"}]

Init ==
    /\ phase = [r \in Runs |-> "absent"]
    /\ bundle = [r \in Runs |-> "none"]

Move(r, from, to) ==
    /\ phase[r] \in from
    /\ phase' = [phase EXCEPT ![r] = to]
    /\ UNCHANGED bundle

Create(r) == Move(r, {"absent"}, "created")

Reject(r) == Move(r, {"created"}, "rejected")

Start(r) == Move(r, {"created"}, "running")

Finish(r) == \E verdict \in Publishable \cup {"aborted"} :
                Move(r, {"running"}, verdict)

Publish(r) ==
    /\ phase[r] \in Publishable
    /\ bundle[r] = "none"
    /\ bundle' = [bundle EXCEPT ![r] = phase[r]]
    /\ UNCHANGED phase

Next == \E r \in Runs :
            \/ Create(r)
            \/ Reject(r)
            \/ Start(r)
            \/ Finish(r)
            \/ Publish(r)

Spec == Init /\ [][Next]_vars

\* Without faults a run that was started is also finished and published.
FairSpec == Spec /\ \A r \in Runs : WF_vars(Finish(r)) /\ WF_vars(Publish(r))
================================================================================

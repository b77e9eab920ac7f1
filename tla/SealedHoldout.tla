---------------------------- MODULE SealedHoldout ----------------------------
(***************************************************************************)
(* What an optimization promises to whoever trusts its result (ADR-009):   *)
(* every candidate is judged once, on validation data; then one of the     *)
(* best is chosen, once; only then the holdout is opened, once, for the    *)
(* chosen candidate; and what it shows changes nothing that was decided.   *)
(*                                                                         *)
(* This is the abstract specification.  OptimizationExecution implements   *)
(* it, whatever other requests, crashes and database errors there are.     *)
(***************************************************************************)
EXTENDS Naturals

CONSTANTS
    Candidates,
    Nobody,         \* no candidate
    Runs,           \* what evaluates a candidate on the holdout
    NoRun,
    Scores,         \* the values of the objective, in their order
    Unscored,       \* no value
    Prefers(_, _)   \* how a tie between two candidates is broken

VARIABLES
    judged,     \* the candidates that have a result, or never had a chance
    score,      \* their objective on validation data
    decided,    \* whether the choice is made
    choice,     \* it may be that nobody is eligible
    opened,     \* what the holdout was opened for: <<run, candidate>>
    result,     \* what it showed: the run and its objective
    outcome

vars == <<judged, score, decided, choice, opened, result, outcome>>

Eligible == {c \in Candidates : score[c] # Unscored}

Best(c) ==
    /\ c \in Eligible
    /\ \A d \in Eligible \ {c} :
          score[d] < score[c] \/ (score[d] = score[c] /\ Prefers(c, d))

Init ==
    /\ judged \subseteq Candidates
    /\ score = [c \in Candidates |-> Unscored]
    /\ decided = FALSE /\ choice = Nobody
    /\ opened = {}
    /\ result = [run |-> NoRun, objective |-> Unscored]
    /\ outcome = "open"

Judge(c) ==
    /\ c \notin judged /\ ~decided
    /\ judged' = judged \cup {c}
    /\ \E s \in Scores \cup {Unscored} : score' = [score EXCEPT ![c] = s]
    /\ UNCHANGED <<decided, choice, opened, result, outcome>>

Choose ==
    /\ judged = Candidates /\ ~decided
    /\ decided' = TRUE
    /\ \/ Eligible = {} /\ choice' = Nobody
       \/ \E c \in Candidates : Best(c) /\ choice' = c
    /\ UNCHANGED <<judged, score, opened, result, outcome>>

OpenHoldout(run) ==
    /\ choice # Nobody /\ opened = {}
    /\ opened' = {<<run, choice>>}
    /\ UNCHANGED <<judged, score, decided, choice, result, outcome>>

Reveal(run) ==
    /\ <<run, choice>> \in opened /\ result.run = NoRun
    /\ \E s \in Scores \cup {Unscored} : result' = [run |-> run, objective |-> s]
    /\ UNCHANGED <<judged, score, decided, choice, opened, outcome>>

End(how) ==
    /\ outcome' = how
    /\ UNCHANGED <<judged, score, decided, choice, opened, result>>

Complete == result.run # NoRun /\ End("completed")

\* Nothing happens after the end.
Next ==
    /\ outcome = "open"
    /\ \/ \E c \in Candidates : Judge(c)
       \/ Choose
       \/ \E run \in Runs : OpenHoldout(run) \/ Reveal(run)
       \/ Complete
       \/ End("failed")

Spec == Init /\ [][Next]_vars
================================================================================

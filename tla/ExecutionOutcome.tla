-------------------------- MODULE ExecutionOutcome --------------------------
(***************************************************************************)
(* What the execution service promises a candidate, with nothing about     *)
(* leases, workers, queues or sandboxes: an accepted execution is tried a  *)
(* bounded number of times, one try after the other, and ends exactly once *)
(* with a verdict or with the candidate's cancellation.  A verdict stands  *)
(* on the current try, or on none when the service itself gives up; a      *)
(* submission is graded in the step that ends it with a verdict.           *)
(***************************************************************************)
EXTENDS Naturals

CONSTANTS Execution, Submits, MaxTries

VARIABLES
    phase,    \* where each execution is
    try,      \* the try it is at
    basis,    \* the try its verdict stands on
    grade     \* has the submission been graded?

ovars == <<phase, try, basis, grade>>

OutcomeVerdicts == {"COMPLETED", "FAILED", "TIMEOUT"}

OutcomeInit ==
    /\ phase = [e \in Execution |-> "absent"]
    /\ try = [e \in Execution |-> 0]
    /\ basis = [e \in Execution |-> 0]
    /\ grade = [e \in Execution |-> FALSE]

Accept(e) ==
    /\ phase[e] = "absent"
    /\ phase' = [phase EXCEPT ![e] = "accepted"]
    /\ UNCHANGED <<try, basis, grade>>

Try(e) ==
    /\ phase[e] = "accepted" \/ phase[e] = "working"
    /\ try[e] < MaxTries
    /\ phase' = [phase EXCEPT ![e] = "working"]
    /\ try' = [try EXCEPT ![e] = @ + 1]
    /\ UNCHANGED <<basis, grade>>

Conclude(e, verdict, on) ==
    /\ phase[e] = "working"
    /\ on \in IF verdict = "COMPLETED" THEN {try[e]} ELSE {0, try[e]}
    /\ phase' = [phase EXCEPT ![e] = verdict]
    /\ basis' = [basis EXCEPT ![e] = on]
    /\ grade' = [grade EXCEPT ![e] = e \in Submits]
    /\ UNCHANGED try

Withdraw(e) ==
    /\ phase[e] \in {"accepted", "working"}
    /\ phase' = [phase EXCEPT ![e] = "CANCELLED"]
    /\ UNCHANGED <<try, basis, grade>>

OutcomeNext ==
    \E e \in Execution :
        \/ Accept(e) \/ Try(e) \/ Withdraw(e)
        \/ \E v \in OutcomeVerdicts, on \in 0..MaxTries : Conclude(e, v, on)

OutcomeSpec == OutcomeInit /\ [][OutcomeNext]_ovars
=============================================================================

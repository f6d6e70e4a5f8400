-------------------------- MODULE ExecutionClaims --------------------------
(***************************************************************************)
(* The durable side of asynchronous code execution: one row of             *)
(* execution_requests per execution, its execution_public_results row and  *)
(* the submission_results row of a graded submission.  Every operator that *)
(* changes a row is one PostgreSQL statement or transaction of             *)
(* execution_domain.py, execution_claims.py, execution_results.py or       *)
(* execution_submission.py, so each is atomic.                             *)
(*                                                                         *)
(* Timestamps are abstracted to what the SQL compares: lease_expires_at is *)
(* NULL ("none"), in the future ("live") or in the past ("expired").       *)
(***************************************************************************)
EXTENDS Naturals

CONSTANTS
    Execution,    \* ids of execution_requests rows
    Submits,      \* the executions of type SUBMIT; the others are RUNs
    Worker,       \* worker_id of every execution controller
    None,         \* SQL NULL
    MaxAttempts   \* ExecutionControllerSettings.max_attempts

ASSUME SubmitsAssumption == Submits \subseteq Execution
ASSUME NoneAssumption == None \notin Worker \cup Execution
\* ExecutionControllerSettings.discover refuses anything outside 1..10.
ASSUME MaxAttemptsAssumption == MaxAttempts \in 1..10

VARIABLES
    state,      \* execution_requests.state
    attempt,    \* execution_requests.attempt_count
    owner,      \* execution_requests.lease_owner
    lease,      \* execution_requests.lease_expires_at against the clock
    job_name,   \* is execution_requests.kubernetes_job_name set?
    result,     \* the execution_public_results row
    graded      \* does submission_results hold a row for the submission?

rows == <<state, attempt, owner, lease, job_name, result, graded>>

-----------------------------------------------------------------------------
(* The execution state machine.                                            *)

ActiveStates == {"DISPATCHING", "RUNNING"}
TerminalStates == {"COMPLETED", "FAILED", "TIMEOUT", "CANCELLED"}
ExecutionStates == {"ABSENT", "QUEUED"} \cup ActiveStates \cup TerminalStates

\* LEGAL_EXECUTION_TRANSITIONS, the table validate_execution_transition reads.
LegalTransition(from, to) ==
    \/ from = "QUEUED" /\ to \in {"DISPATCHING", "CANCELLED"}
    \/ from = "DISPATCHING" /\ to \in {"RUNNING", "FAILED", "CANCELLED"}
    \/ from = "RUNNING" /\ to \in TerminalStates

(* A persisted result: the execution status it carries and the attempt     *)
(* number of the sandbox input it was computed from; 0 when the controller *)
(* wrote the projection itself (timeout, infrastructure failure).          *)
NoResult == [status |-> "none", input |-> 0]
Results == [status : TerminalStates \ {"CANCELLED"}, input : 0..MaxAttempts]

RowsTypeOK ==
    /\ state \in [Execution -> ExecutionStates]
    /\ attempt \in [Execution -> 0..MaxAttempts]
    /\ owner \in [Execution -> Worker \cup {None}]
    /\ lease \in [Execution -> {"none", "live", "expired"}]
    /\ job_name \in [Execution -> BOOLEAN]
    /\ result \in [Execution -> Results \cup {NoResult}]
    /\ graded \in [Execution -> BOOLEAN]

RowsInit ==
    /\ state = [e \in Execution |-> "ABSENT"]
    /\ attempt = [e \in Execution |-> 0]
    /\ owner = [e \in Execution |-> None]
    /\ lease = [e \in Execution |-> "none"]
    /\ job_name = [e \in Execution |-> FALSE]
    /\ result = [e \in Execution |-> NoResult]
    /\ graded = [e \in Execution |-> FALSE]

-----------------------------------------------------------------------------
(* ExecutionRepository (execution_domain.py).                              *)

\* create_queued: the row is born QUEUED, with no attempt and no lease.
CreateQueued(e) ==
    /\ state[e] = "ABSENT"
    /\ state' = [state EXCEPT ![e] = "QUEUED"]
    /\ UNCHANGED <<attempt, owner, lease, job_name, result, graded>>

\* transition: validates against the table, then clears the lease.
Transition(e, target) ==
    /\ LegalTransition(state[e], target)
    /\ state' = [state EXCEPT ![e] = target]
    /\ owner' = [owner EXCEPT ![e] = None]
    /\ lease' = [lease EXCEPT ![e] = "none"]

\* cancel: refuses a terminal execution and leaves the submission alone.
CancelRow(e) ==
    /\ state[e] \notin TerminalStates
    /\ Transition(e, "CANCELLED")
    /\ UNCHANGED <<attempt, job_name, result, graded>>

-----------------------------------------------------------------------------
(* ExecutionClaimRepository (execution_claims.py): compare-and-set updates *)
(* by a worker w that was told nothing newer than what it read.            *)

TakeLease(e, w) ==
    /\ owner' = [owner EXCEPT ![e] = w]
    /\ lease' = [lease EXCEPT ![e] = "live"]

ClaimForDispatch(e, w) ==
    /\ state[e] = "QUEUED"
    /\ state' = [state EXCEPT ![e] = "DISPATCHING"]
    /\ attempt' = [attempt EXCEPT ![e] = @ + 1]
    /\ TakeLease(e, w)
    /\ UNCHANGED <<job_name, result, graded>>

\* Mutant: the attempt limit compared with <= instead of <.
CanRetryPastLimit(e, expected) ==
    /\ state[e] \in ActiveStates
    /\ attempt[e] = expected
    /\ expected <= MaxAttempts
    /\ lease[e] = "expired"

CanRetryMissingSandbox(e, expected) ==
    /\ state[e] \in ActiveStates
    /\ attempt[e] = expected
    /\ expected < MaxAttempts
    /\ lease[e] = "expired"

RetryMissingSandbox(e, w) ==
    /\ state' = [state EXCEPT ![e] = "DISPATCHING"]
    /\ attempt' = [attempt EXCEPT ![e] = @ + 1]
    /\ job_name' = [job_name EXCEPT ![e] = FALSE]
    /\ TakeLease(e, w)
    /\ UNCHANGED <<result, graded>>

\* Mutant: mark_running updates by id, whatever became of the row meanwhile.
CanMarkRunningById(e, w) == state[e] # "ABSENT" /\ w \in Worker

\* mark_running compares the owner and the lease, not the attempt.
CanMarkRunning(e, w) ==
    state[e] = "DISPATCHING" /\ owner[e] = w /\ lease[e] = "live"

MarkRunning(e) ==
    /\ state' = [state EXCEPT ![e] = "RUNNING"]
    /\ job_name' = [job_name EXCEPT ![e] = TRUE]
    /\ UNCHANGED <<attempt, owner, lease, result, graded>>

\* renew_lease moves lease_expires_at further into the future.
CanRenewLease(e, w) ==
    owner[e] = w /\ lease[e] = "live" /\ state[e] \in ActiveStates

\* Mutant: a live lease of anybody's is enough.
OwnsAnyLease(e, w, a) ==
    lease[e] = "live" /\ state[e] \in ActiveStates

\* lock_owned_attempt: the row lock every terminal write is made under.
OwnsAttempt(e, w, a) ==
    attempt[e] = a /\ owner[e] = w /\ lease[e] = "live" /\ state[e] \in ActiveStates

-----------------------------------------------------------------------------
(* Row updates the controller issues itself (execution_controller.py).     *)

CanReacquire(e, seen, a) ==
    state[e] = seen /\ attempt[e] = a /\ lease[e] = "expired"

\* Mutant: an adopted DISPATCHING row is not marked RUNNING.
ReacquireOnly(e, w, sandboxExists) ==
    /\ TakeLease(e, w)
    /\ UNCHANGED <<state, attempt, job_name, result, graded>>

\* _reacquire_expired_execution; a DISPATCHING row whose sandbox exists is
\* marked RUNNING in the same transaction.
Reacquire(e, w, sandboxExists) ==
    LET marked == sandboxExists /\ state[e] = "DISPATCHING"
    IN  /\ TakeLease(e, w)
        /\ state' = [state EXCEPT ![e] = IF marked THEN "RUNNING" ELSE @]
        /\ job_name' = [job_name EXCEPT ![e] = IF marked THEN TRUE ELSE @]
        /\ UNCHANGED <<attempt, result, graded>>

\* Mutant: the lease is set to NULL instead of to the current time.
DropOwnLease(e, w, a) ==
    LET mine == attempt[e] = a /\ owner[e] = w /\ state[e] \in ActiveStates
    IN  /\ lease' = [lease EXCEPT ![e] = IF mine THEN "none" ELSE @]
        /\ job_name' = [job_name EXCEPT ![e] = IF mine THEN FALSE ELSE @]
        /\ UNCHANGED <<state, attempt, owner, result, graded>>

\* The UPDATE of _defer_infrastructure_retry, guarded by attempt and owner.
ExpireOwnLease(e, w, a) ==
    LET mine == attempt[e] = a /\ owner[e] = w /\ state[e] \in ActiveStates
    IN  /\ lease' = [lease EXCEPT ![e] = IF mine THEN "expired" ELSE @]
        /\ job_name' = [job_name EXCEPT ![e] = IF mine THEN FALSE ELSE @]
        /\ UNCHANGED <<state, attempt, owner, result, graded>>

\* The UPDATE of _process_cancel.
ForgetCancelledSandbox(e) ==
    LET cancelled == state[e] = "CANCELLED"
    IN  /\ job_name' = [job_name EXCEPT ![e] = IF cancelled THEN FALSE ELSE @]
        /\ owner' = [owner EXCEPT ![e] = IF cancelled THEN None ELSE @]
        /\ lease' = [lease EXCEPT ![e] = IF cancelled THEN "none" ELSE @]
        /\ UNCHANGED <<state, attempt, result, graded>>

\* The UPDATE of _cleanup_terminal_orphans.
ForgetOrphanSandbox(e) ==
    /\ job_name' = [job_name EXCEPT ![e] = IF state[e] \in TerminalStates THEN FALSE ELSE @]
    /\ UNCHANGED <<state, attempt, owner, lease, result, graded>>

\* Mutant: a submission that timed out is not finalized.
PersistUngradedTimeout(e, projection) ==
    /\ Transition(e, projection.status)
    /\ result' = [result EXCEPT ![e] = projection]
    /\ graded' = [graded EXCEPT ![e] = @ \/ (e \in Submits /\ projection.status # "TIMEOUT")]
    /\ UNCHANGED <<attempt, job_name>>

\* persist_terminal_result followed by finalize_submission, in the caller's
\* transaction and under its row lock.
PersistTerminalResult(e, projection) ==
    /\ Transition(e, projection.status)
    /\ result' = [result EXCEPT ![e] = projection]
    /\ graded' = [graded EXCEPT ![e] = @ \/ e \in Submits]
    /\ UNCHANGED <<attempt, job_name>>
=============================================================================

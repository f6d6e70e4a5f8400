------------------------ MODULE ExecutionController ------------------------
(***************************************************************************)
(* The execution controllers (execution_controller.py) at work on the rows *)
(* of ExecutionClaims: several single-threaded controllers take messages   *)
(* from an at-least-once queue, create one Kubernetes Job and one input    *)
(* Secret per execution, watch the Job, persist its trusted result, and    *)
(* reconcile executions whose lease ran out.                               *)
(*                                                                         *)
(* One action is one database transaction or one call to the Kubernetes or *)
(* queue API; a controller can stop between any two of them.  An exception *)
(* that leaves process_message or _reconcile_lease is logged and dropped   *)
(* by the loop: the controller is idle again and nothing was acknowledged, *)
(* which is also what a crash and restart leaves behind.                   *)
(***************************************************************************)
EXTENDS ExecutionClaims

CONSTANTS
    PodLog,      \* what a runner pod's log may hold, see LogKinds
    MaxFaults    \* bound on crashes, failed calls, lost messages, late workers

(* The log of a finished pod, as _persist_observation tells logs apart:    *)
(* a result line with one of the three runner statuses that passes the     *)
(* trusted comparison; a result line that parses and that trusted_compare  *)
(* refuses ("rejected"); an unparsable log or an infrastructure error      *)
(* category ("garbled"); no output at all ("empty").                       *)
Verdicts == {"COMPLETED", "FAILED", "TIMEOUT"}
LogKinds == Verdicts \cup {"rejected", "garbled", "empty"}

ASSUME PodLogAssumption == PodLog \subseteq LogKinds
ASSUME MaxFaultsAssumption == MaxFaults \in Nat

VARIABLES
    outbox,   \* unpublished execution_outbox rows
    inbox,    \* messages the queue may deliver (again)
    job,      \* the Kubernetes Job execution-<id>: its phase, its pod's input
    secret,   \* attempt in request.json of Secret input-execution-<id>, 0: none
    pods,     \* finished pods labelled with the execution id, of any attempt
    work,     \* the call each controller is in the middle of
    faults    \* faults so far

sandbox == <<job, secret, pods>>
messages == <<outbox, inbox>>
vars == <<rows, outbox, inbox, job, secret, pods, work, faults>>

Message == {"requested", "cancel"} \X Execution
NoJob == [phase |-> "none", input |-> 0]
Jobs == [phase : {"none", "pending", "active", "finished", "deadline"},
         input : 0..MaxAttempts]
Pods == [input : 0..MaxAttempts, log : LogKinds]

(* pc: the next call of the controller.                                    *)
(*   secret, job, mark   _create_resources and mark_running                *)
(*   monitor             the loop of _monitor                              *)
(*   persist, timeout, limit   the transaction of a terminal projection    *)
(*   defer, expire       _defer_infrastructure_retry                       *)
(*   observe, retry, reacquire, adopt   _reconcile_lease                   *)
(*   abort, discard, clean, cancel, orphan   a call of sandbox.cleanup     *)
(*   cancelled, orphaned the transaction that forgets the sandbox          *)
(*   ack                 delete_message                                    *)
CleanupSteps == {"abort", "discard", "clean", "defer", "cancel", "orphan"}
PersistSteps == {"persist", "timeout", "limit"}
Steps == {"idle", "secret", "job", "mark", "monitor", "expire", "observe",
          "retry", "reacquire", "adopt", "cancelled", "orphaned", "ack"}
         \cup CleanupSteps \cup PersistSteps

Idle == [pc |-> "idle", ex |-> None, att |-> 0, mode |-> "none",
         seen |-> "none", log |-> "none", input |-> 0]
Tasks == [pc : Steps, ex : Execution \cup {None}, att : 0..MaxAttempts,
          mode : {"none", "requested", "cancel", "reconcile"},
          seen : ActiveStates \cup {"none"},
          log : LogKinds \cup {"none"}, input : 0..MaxAttempts]

TypeOK ==
    /\ RowsTypeOK
    /\ outbox \subseteq Message
    /\ inbox \subseteq Message
    /\ job \in [Execution -> Jobs]
    /\ secret \in [Execution -> 0..MaxAttempts]
    /\ pods \in [Execution -> SUBSET Pods]
    /\ work \in [Worker -> Tasks]
    /\ faults \in 0..MaxFaults

Init ==
    /\ RowsInit
    /\ outbox = {}
    /\ inbox = {}
    /\ job = [e \in Execution |-> NoJob]
    /\ secret = [e \in Execution |-> 0]
    /\ pods = [e \in Execution |-> {}]
    /\ work = [w \in Worker |-> Idle]
    /\ faults = 0

Fault ==
    /\ faults < MaxFaults
    /\ faults' = faults + 1

-----------------------------------------------------------------------------
(* The candidate's API calls and the outbox.                               *)

\* create_queued writes the row and its outbox message in one transaction.
Create(e) ==
    /\ CreateQueued(e)
    /\ outbox' = outbox \cup {<<"requested", e>>}
    /\ UNCHANGED <<inbox, sandbox, work, faults>>

Cancel(e) ==
    /\ CancelRow(e)
    /\ outbox' = outbox \cup {<<"cancel", e>>}
    /\ UNCHANGED <<inbox, sandbox, work, faults>>

\* publish_claimed_messages: send, then mark published.  When the transaction
\* around the batch is rolled back, the message is sent and stays unpublished.
Publish(m) ==
    /\ m \in outbox
    /\ inbox' = inbox \cup {m}
    /\ \/ outbox' = outbox \ {m} /\ UNCHANGED faults
       \/ outbox' = outbox /\ Fault
    /\ UNCHANGED <<rows, sandbox, work>>

\* The queue gives up on a message (maxReceiveCount) and moves it to the DLQ.
LoseMessage(m) ==
    /\ m \in inbox
    /\ Fault
    /\ inbox' = inbox \ {m}
    /\ UNCHANGED <<rows, outbox, sandbox, work>>

\* Mutant: the outbox row keeps its published_at.
RequeueUnpublishedOnly(e) ==
    /\ state[e] = "QUEUED" /\ <<"requested", e>> \in outbox
    /\ UNCHANGED vars

\* _requeue_stale_queued unpublishes the outbox row of a QUEUED execution.
RequeueStaleQueued(e) ==
    /\ state[e] = "QUEUED"
    /\ outbox' = outbox \cup {<<"requested", e>>}
    /\ UNCHANGED <<rows, inbox, sandbox, work, faults>>

-----------------------------------------------------------------------------
(* The Kubernetes side of a sandbox (execution_kubernetes.py).             *)

\* POST of a name that exists answers 409, which _create_resources accepts.
PostSecret(e, a) == secret' = [secret EXCEPT ![e] = IF @ = 0 THEN a ELSE @]
PostJob(e) ==
    job' = [job EXCEPT ![e] = IF @.phase = "none" THEN [NoJob EXCEPT !.phase = "pending"] ELSE @]

\* Background deletion: the Job is gone, finished pods linger, and a pod that
\* is killed may still have written a log.
DeleteJob(e) ==
    /\ job' = [job EXCEPT ![e] = NoJob]
    /\ \/ UNCHANGED pods
       \/ /\ job[e].phase = "active"
          /\ \E l \in PodLog :
                pods' = [pods EXCEPT ![e] = @ \cup {[input |-> job[e].input, log |-> l]}]

DeleteSecret(e) == secret' = [secret EXCEPT ![e] = 0]

\* cleanup: each DELETE that fails is swallowed.
Cleanup(e) ==
    \/ DeleteJob(e) /\ DeleteSecret(e) /\ UNCHANGED faults
    \/ /\ Fault
       /\ DeleteJob(e) \/ UNCHANGED <<job, pods>>
       /\ DeleteSecret(e) \/ UNCHANGED secret

\* The kubelet mounts the Secret as it is when the pod starts.
PodStarts(e) ==
    /\ job[e].phase = "pending"
    /\ secret[e] # 0
    /\ job' = [job EXCEPT ![e] = [phase |-> "active", input |-> secret[e]]]
    /\ UNCHANGED <<rows, messages, secret, pods, work, faults>>

PodFinishes(e) ==
    /\ job[e].phase = "active"
    /\ job' = [job EXCEPT ![e].phase = "finished"]
    /\ \E l \in PodLog :
          pods' = [pods EXCEPT ![e] = @ \cup {[input |-> job[e].input, log |-> l]}]
    /\ UNCHANGED <<rows, messages, secret, work, faults>>

\* activeDeadlineSeconds; the killed pod is removed or left without output.
SandboxDeadline(e) ==
    /\ job[e].phase \in {"pending", "active"}
    /\ job' = [job EXCEPT ![e].phase = "deadline"]
    /\ \/ UNCHANGED pods
       \/ pods' = [pods EXCEPT ![e] = @ \cup {[input |-> job[e].input, log |-> "empty"]}]
    /\ UNCHANGED <<rows, messages, secret, work, faults>>

\* ttlSecondsAfterFinished: Job and pods go, the Secret has no owner and stays.
SandboxReaped(e) ==
    /\ job[e].phase \in {"finished", "deadline"}
    /\ job' = [job EXCEPT ![e] = NoJob]
    /\ pods' = [pods EXCEPT ![e] = {}]
    /\ UNCHANGED <<rows, messages, secret, work, faults>>

PodCollected(e) ==
    /\ \E p \in pods[e] : pods' = [pods EXCEPT ![e] = @ \ {p}]
    /\ UNCHANGED <<rows, messages, job, secret, work, faults>>

-----------------------------------------------------------------------------
(* Time and failure.                                                       *)

Attended(e) == \E w \in Worker : owner[e] = w /\ work[w].ex = e

\* A lease nobody works under runs out; one whose owner is still at work runs
\* out only when that controller is late.
LeaseExpires(e) ==
    /\ lease[e] = "live"
    /\ IF Attended(e) THEN Fault ELSE UNCHANGED faults
    /\ lease' = [lease EXCEPT ![e] = "expired"]
    /\ UNCHANGED <<state, attempt, owner, job_name, result, graded,
                   messages, sandbox, work>>

Crash(w) ==
    /\ work[w].pc # "idle"
    /\ Fault
    /\ work' = [work EXCEPT ![w] = Idle]
    /\ UNCHANGED <<rows, messages, sandbox>>

-----------------------------------------------------------------------------
(* Control flow of one controller.                                         *)

Goto(w, task) == work' = [work EXCEPT ![w] = task]
At(w, step) == work[w].pc = step
Step(w, step) == [work[w] EXCEPT !.pc = step]

\* True from _process_requested deletes the message; a reconciliation has none.
Acknowledge(w) ==
    IF work[w].mode = "reconcile" THEN Idle ELSE Step(w, "ack")

\* _defer_infrastructure_retry: give up at the attempt limit, else clean up.
Deferral(t) == [t EXCEPT !.pc = IF t.att >= MaxAttempts THEN "limit" ELSE "defer"]

\* Mutant: the attempt number in the log is not compared.
ExamineAnyAttempt(t, p) ==
    IF p.log \in {"empty", "garbled"}
    THEN Deferral(t)
    ELSE [t EXCEPT !.pc = "persist", !.log = p.log, !.input = p.input]

\* _persist_observation up to its transaction: the pod's log must be there,
\* parse, and carry the attempt number of the package.
Examine(t, p) ==
    IF p.log \in {"empty", "garbled"} \/ p.input # t.att
    THEN Deferral(t)
    ELSE [t EXCEPT !.pc = "persist", !.log = p.log, !.input = p.input]

(* process_message                                                         *)

\* _process_requested: claim, or acknowledge a message whose row has moved on.
ReceiveRequested(w, e) ==
    /\ At(w, "idle")
    /\ <<"requested", e>> \in inbox
    /\ \/ /\ ClaimForDispatch(e, w)
          /\ Goto(w, [Idle EXCEPT !.pc = "secret", !.ex = e, !.att = attempt[e] + 1,
                                  !.mode = "requested"])
       \/ /\ state[e] # "QUEUED"
          /\ Goto(w, [Idle EXCEPT !.pc = "ack", !.ex = e, !.mode = "requested"])
          /\ UNCHANGED rows
    /\ UNCHANGED <<messages, sandbox, faults>>

ReceiveCancel(w, e) ==
    /\ At(w, "idle")
    /\ <<"cancel", e>> \in inbox
    /\ Goto(w, [Idle EXCEPT !.ex = e, !.mode = "cancel", !.pc = "cancel"])
    /\ UNCHANGED <<rows, messages, sandbox, faults>>

DeleteMessage(w) ==
    /\ At(w, "ack")
    /\ inbox' = inbox \ {<<work[w].mode, work[w].ex>>}
    /\ Goto(w, Idle)
    /\ UNCHANGED <<rows, outbox, sandbox, faults>>

(* _start_sandbox                                                          *)

CreateSecret(w) ==
    /\ At(w, "secret")
    /\ PostSecret(work[w].ex, work[w].att)
    /\ Goto(w, Step(w, "job"))
    /\ UNCHANGED <<rows, messages, job, pods, faults>>

CreateJob(w) ==
    /\ At(w, "job")
    /\ PostJob(work[w].ex)
    /\ Goto(w, Step(w, "mark"))
    /\ UNCHANGED <<rows, messages, secret, pods, faults>>

\* A POST that raises, whether or not it had its effect, ends in cleanup.
CreateFails(w) ==
    /\ Fault
    /\ \/ At(w, "secret") /\ UNCHANGED <<secret, job>>
       \/ At(w, "job") /\ UNCHANGED <<secret, job>>
       \/ At(w, "job") /\ PostJob(work[w].ex) /\ UNCHANGED secret
    /\ Goto(w, Step(w, "abort"))
    /\ UNCHANGED <<rows, messages, pods>>

\* A reconciliation that started a sandbox does not monitor it.
StartSandbox(w) ==
    LET e == work[w].ex IN
    /\ At(w, "mark")
    /\ \/ /\ CanMarkRunning(e, w)
          /\ MarkRunning(e)
          /\ Goto(w, IF work[w].mode = "reconcile" THEN Idle ELSE Step(w, "monitor"))
       \/ /\ ~CanMarkRunning(e, w)
          /\ Goto(w, Step(w, "discard"))
          /\ UNCHANGED rows
    /\ UNCHANGED <<messages, sandbox, faults>>

(* _monitor                                                                *)

\* The Job is Complete or Failed: read the log of the first labelled pod, any
\* of them; without a pod _runner_logs raises.
MonitorFinished(w) ==
    LET t == work[w] IN
    /\ At(w, "monitor")
    /\ job[t.ex].phase \in {"finished", "deadline"}
    /\ \/ \E p \in pods[t.ex] :
             Goto(w, IF job[t.ex].phase = "deadline" /\ p.log = "empty"
                     THEN Step(w, "timeout") ELSE Examine(t, p))
       \/ pods[t.ex] = {} /\ Goto(w, Idle)
    /\ UNCHANGED <<rows, messages, sandbox, faults>>

MonitorMissing(w) ==
    /\ At(w, "monitor")
    /\ job[work[w].ex].phase = "none"
    /\ Goto(w, Deferral(work[w]))
    /\ UNCHANGED <<rows, messages, sandbox, faults>>

\* The Job is still there past the controller's own deadline.
MonitorDeadline(w) ==
    /\ At(w, "monitor")
    /\ job[work[w].ex].phase \in {"pending", "active"}
    /\ Goto(w, Step(w, "timeout"))
    /\ UNCHANGED <<rows, messages, sandbox, faults>>

\* A renewal that succeeds leaves the lease live; one that fails ends the
\* call without an acknowledgement.
MonitorRenew(w) ==
    /\ At(w, "monitor")
    /\ job[work[w].ex].phase \in {"pending", "active"}
    /\ ~CanRenewLease(work[w].ex, w)
    /\ Goto(w, Idle)
    /\ UNCHANGED <<rows, messages, sandbox, faults>>

(* Terminal projections: _persist_observation's transaction,               *)
(* _persist_timeout and _persist_infrastructure_failure.                   *)

Projection(t) ==
    CASE t.pc = "persist" -> [status |-> t.log, input |-> t.input]
      [] t.pc = "timeout" -> [status |-> "TIMEOUT", input |-> 0]
      [] t.pc = "limit"   -> [status |-> "FAILED", input |-> 0]

\* trusted_compare raises TrustedResultError inside the transaction.
Rejected(t) == t.pc = "persist" /\ t.log = "rejected"

PersistProjection(w) ==
    LET t == work[w] IN
        /\ t.pc \in PersistSteps
        /\ \/ /\ OwnsAttempt(t.ex, w, t.att)
              /\ ~Rejected(t)
              /\ PersistTerminalResult(t.ex, Projection(t))
              /\ Goto(w, Step(w, "clean"))
           \/ /\ OwnsAttempt(t.ex, w, t.att)
              /\ Rejected(t)
              /\ Goto(w, Deferral(t))
              /\ UNCHANGED rows
           \/ /\ ~OwnsAttempt(t.ex, w, t.att)
              /\ Goto(w, IF state[t.ex] \in TerminalStates THEN Step(w, "clean") ELSE Idle)
              /\ UNCHANGED rows
        /\ UNCHANGED <<messages, sandbox, faults>>

\* sandbox.cleanup(handle), and what each caller does after it.
CleanupSandbox(w) ==
    LET t == work[w] IN
    /\ t.pc \in CleanupSteps
    /\ Cleanup(t.ex)
    /\ Goto(w, CASE t.pc = "abort" -> Idle
                 [] t.pc \in {"discard", "clean"} -> Acknowledge(w)
                 [] t.pc = "defer" -> Step(w, "expire")
                 [] t.pc = "cancel" -> Step(w, "cancelled")
                 [] t.pc = "orphan" -> Step(w, "orphaned"))
    /\ UNCHANGED <<rows, messages>>

DeferRetry(w) ==
    /\ At(w, "expire")
    /\ ExpireOwnLease(work[w].ex, w, work[w].att)
    /\ Goto(w, Idle)
    /\ UNCHANGED <<messages, sandbox, faults>>

ProcessCancel(w) ==
    /\ At(w, "cancelled")
    /\ ForgetCancelledSandbox(work[w].ex)
    /\ Goto(w, Step(w, "ack"))
    /\ UNCHANGED <<messages, sandbox, faults>>

(* reconcile_once                                                          *)

\* Mutant: only RUNNING executions are scanned.
ScanExpiredRunning(w, e) ==
    /\ At(w, "idle")
    /\ state[e] = "RUNNING"
    /\ lease[e] = "expired"
    /\ Goto(w, [Idle EXCEPT !.pc = "observe", !.ex = e, !.att = attempt[e],
                            !.mode = "reconcile", !.seen = state[e]])
    /\ UNCHANGED <<rows, messages, sandbox, faults>>

\* expired_leases reads under a lock it gives up with its transaction: what
\* follows works from a snapshot.
ScanExpired(w, e) ==
    /\ At(w, "idle")
    /\ state[e] \in ActiveStates
    /\ lease[e] = "expired"
    /\ Goto(w, [Idle EXCEPT !.pc = "observe", !.ex = e, !.att = attempt[e],
                            !.mode = "reconcile", !.seen = state[e]])
    /\ UNCHANGED <<rows, messages, sandbox, faults>>

ReconcileObserve(w) ==
    LET t == work[w] IN
    /\ At(w, "observe")
    /\ \/ /\ job[t.ex].phase = "none"
          /\ Goto(w, Step(w, "retry"))
       \/ /\ job[t.ex].phase \in {"pending", "active"}
          /\ Goto(w, Step(w, "adopt"))
       \/ /\ job[t.ex].phase \in {"finished", "deadline"}
          /\ \/ \E p \in pods[t.ex] :
                   Goto(w, [t EXCEPT !.pc = "adopt", !.log = p.log, !.input = p.input])
             \/ pods[t.ex] = {} /\ Goto(w, Idle)
    /\ UNCHANGED <<rows, messages, sandbox, faults>>

\* _retry_expired_missing_sandbox: a new attempt, or None for whatever reason.
RetryExpired(w) ==
    LET t == work[w] IN
    /\ At(w, "retry")
    /\ \/ /\ CanRetryMissingSandbox(t.ex, t.att)
          /\ RetryMissingSandbox(t.ex, w)
          /\ Goto(w, [t EXCEPT !.pc = "secret", !.att = @ + 1, !.seen = "none"])
       \/ /\ ~CanRetryMissingSandbox(t.ex, t.att)
          /\ Goto(w, Step(w, "reacquire"))
          /\ UNCHANGED rows
    /\ UNCHANGED <<messages, sandbox, faults>>

\* _reacquire_expired_execution, then: persist the failure of a missing
\* sandbox, examine a finished one, or leave a live one running under the
\* new lease.
ReconcileReacquire(w) ==
    LET t == work[w]
        found == t.pc = "adopt"
        task == [t EXCEPT !.seen = "none", !.log = "none", !.input = 0]
    IN  /\ t.pc \in {"reacquire", "adopt"}
        /\ \/ /\ CanReacquire(t.ex, t.seen, t.att)
              /\ Reacquire(t.ex, w, found)
              /\ Goto(w, IF ~found THEN [task EXCEPT !.pc = "limit"]
                         ELSE IF t.log = "none" THEN Idle
                         ELSE Examine(task, [log |-> t.log, input |-> t.input]))
           \/ /\ ~CanReacquire(t.ex, t.seen, t.att)
              /\ Goto(w, Idle)
              /\ UNCHANGED rows
        /\ UNCHANGED <<messages, sandbox, faults>>

\* Mutant: CANCELLED executions are left to their cancel message.
ScanOrphanUncancelled(w, e) ==
    /\ At(w, "idle")
    /\ state[e] \in Verdicts
    /\ job_name[e]
    /\ Goto(w, [Idle EXCEPT !.pc = "orphan", !.ex = e, !.mode = "reconcile"])
    /\ UNCHANGED <<rows, messages, sandbox, faults>>

ScanOrphan(w, e) ==
    /\ At(w, "idle")
    /\ state[e] \in TerminalStates
    /\ job_name[e]
    /\ Goto(w, [Idle EXCEPT !.pc = "orphan", !.ex = e, !.mode = "reconcile"])
    /\ UNCHANGED <<rows, messages, sandbox, faults>>

CleanupOrphan(w) ==
    /\ At(w, "orphaned")
    /\ ForgetOrphanSandbox(work[w].ex)
    /\ Goto(w, Idle)
    /\ UNCHANGED <<messages, sandbox, faults>>

-----------------------------------------------------------------------------
(* run_forever: what a controller does next, busy or idle.                 *)
Controller(w) ==
    \/ \E e \in Execution :
          \/ ReceiveRequested(w, e) \/ ReceiveCancel(w, e)
          \/ ScanExpired(w, e) \/ ScanOrphan(w, e)
    \/ DeleteMessage(w)
    \/ CreateSecret(w) \/ CreateJob(w) \/ StartSandbox(w)
    \/ MonitorFinished(w) \/ MonitorMissing(w) \/ MonitorRenew(w) \/ MonitorDeadline(w)
    \/ PersistProjection(w) \/ CleanupSandbox(w) \/ DeferRetry(w)
    \/ ProcessCancel(w) \/ CleanupOrphan(w)
    \/ ReconcileObserve(w) \/ RetryExpired(w) \/ ReconcileReacquire(w)

Cluster(e) ==
    PodStarts(e) \/ PodFinishes(e) \/ SandboxDeadline(e) \/ SandboxReaped(e) \/ PodCollected(e)

Next ==
    \/ \E e \in Execution :
          Create(e) \/ Cancel(e) \/ RequeueStaleQueued(e) \/ Cluster(e) \/ LeaseExpires(e)
    \/ \E m \in Message : Publish(m) \/ LoseMessage(m)
    \/ \E w \in Worker : Controller(w) \/ CreateFails(w) \/ Crash(w)

Spec == Init /\ [][Next]_vars

(* The controllers' loops go on, the outbox is published and stale QUEUED  *)
(* rows are re-published by the same loops, leases run out with the clock, *)
(* and Kubernetes enforces activeDeadlineSeconds and the TTL of a Job.     *)
(* Nothing is assumed of the candidate, of faults, or of a pod finishing.  *)
Fairness ==
    /\ \A w \in Worker : WF_vars(Controller(w))
    /\ \A m \in Message : WF_vars(Publish(m))
    /\ \A e \in Execution :
          /\ WF_vars(RequeueStaleQueued(e))
          /\ WF_vars(LeaseExpires(e) /\ ~Attended(e))
          /\ WF_vars(SandboxDeadline(e))
          /\ WF_vars(SandboxReaped(e))

FairSpec == Spec /\ Fairness

-----------------------------------------------------------------------------
(* Safety.                                                                 *)

\* A finished execution has exactly the result its state announces, and a
\* result read from a pod was computed from the input of the attempt the row
\* records: a pod of an abandoned attempt, its lingering log, a reused Secret
\* or a controller that lost its lease never decides the outcome
\* (parse_runner_result's attempt check and lock_owned_attempt).
ResultOfCurrentAttempt ==
    \A e \in Execution :
        IF state[e] \in Verdicts
        THEN /\ result[e].status = state[e]
             /\ result[e].input \in {0, attempt[e]}
             /\ state[e] = "COMPLETED" => result[e].input = attempt[e]
        ELSE result[e] = NoResult

\* A submission is graded exactly when its execution has a result; a RUN and
\* a cancelled execution are never graded (finalize_submission).
GradedWithResult ==
    \A e \in Execution : graded[e] <=> e \in Submits /\ result[e] # NoResult

\* Whatever was interrupted, an execution that is neither QUEUED nor finished
\* carries an owner and a lease, so that expired_leases can find it; a row in
\* any other state carries none (transition and the claims repository).
ActiveIsLeased ==
    \A e \in Execution :
        /\ state[e] \in ActiveStates <=> owner[e] # None
        /\ state[e] \in ActiveStates <=> lease[e] # "none"
        /\ state[e] \in ActiveStates => attempt[e] > 0

\* Under the lock of lock_owned_attempt the transition a controller is about
\* to persist is in LEGAL_EXECUTION_TRANSITIONS: persist_terminal_result never
\* raises ExecutionTransitionError and loses a result.
PersistIsLegal ==
    \A w \in Worker :
        LET t == work[w] IN
        t.pc \in PersistSteps /\ OwnsAttempt(t.ex, w, t.att) /\ ~Rejected(t)
            => LegalTransition(state[t.ex], Projection(t).status)

\* A finished execution never changes again: not its state, not its attempt,
\* not its result, not the grade (TERMINAL_EXECUTION_STATUSES).
TerminalIsFinal ==
    [][\A e \in Execution :
          state[e] \in TerminalStates =>
              /\ state'[e] = state[e]
              /\ attempt'[e] = attempt[e]
              /\ result'[e] = result[e]
              /\ graded'[e] = graded[e]]_vars

-----------------------------------------------------------------------------
(* Liveness.                                                               *)

\* However the controllers crash, lose messages or run late, finitely often,
\* every execution that was accepted finishes (outbox, stale-QUEUED republish
\* and lease reconciliation together).
EveryExecutionFinishes ==
    \A e \in Execution : state[e] = "QUEUED" ~> state[e] \in TerminalStates

\* The Job name of a finished execution is eventually forgotten for good, so
\* reconciliation has nothing left to do for it (_cleanup_terminal_orphans).
FinishedIsForgotten ==
    \A e \in Execution : state[e] \in TerminalStates ~> [](~job_name[e])

-----------------------------------------------------------------------------
(* The controllers implement the promise of ExecutionOutcome.              *)

PhaseOf(s) ==
    CASE s = "ABSENT" -> "absent"
      [] s = "QUEUED" -> "accepted"
      [] s \in ActiveStates -> "working"
      [] OTHER -> s

Outcome == INSTANCE ExecutionOutcome WITH
    MaxTries <- MaxAttempts,
    phase <- [e \in Execution |-> PhaseOf(state[e])],
    try <- attempt,
    basis <- [e \in Execution |-> result[e].input],
    grade <- graded

\* Every step of the controllers, the cluster and the candidate is a step the
\* promise allows, or changes nothing the candidate can see.
KeepsOutcomePromise == Outcome!OutcomeSpec

-----------------------------------------------------------------------------
(* Statements of the repository's documents that the code does not keep;   *)
(* each is checked by a run of its own that finds the violation.           *)

\* "A worker that loses its lease must not delete a sandbox another worker
\* may have adopted": no cleanup removes the Job of an execution that another
\* controller owns under a live lease (_start_sandbox and
\* _defer_infrastructure_retry clean up by execution id, before or after
\* they find out that they lost the lease).
LostLeaseKeepsSandbox ==
    [][\A w \in Worker, e \in Execution :
          /\ work[w].pc \in CleanupSteps /\ work[w].ex = e /\ work'[w] # work[w]
          /\ state[e] \in ActiveStates /\ lease[e] = "live" /\ owner[e] # w
          /\ job[e].phase # "none"
          => job'[e].phase # "none"]_vars

\* "starts a fresh bounded attempt when an expired execution has no sandbox
\* and retry budget remains": the controller fails an execution for
\* infrastructure reasons only at the attempt limit (_reconcile_lease takes
\* every None of _retry_expired_missing_sandbox for exhaustion).
FailsOnlyAtAttemptLimit ==
    \A e \in Execution :
        result[e] = [status |-> "FAILED", input |-> 0] => attempt[e] = MaxAttempts
=============================================================================

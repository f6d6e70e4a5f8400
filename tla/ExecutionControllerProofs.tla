--------------------- MODULE ExecutionControllerProofs ---------------------
(***************************************************************************)
(* Proofs about ExecutionController for every set of executions and        *)
(* workers, every attempt limit and every number of faults.                *)
(***************************************************************************)
EXTENDS ExecutionController, TLAPS

(* The inductive invariant.  RowOK ties the columns of one row together;   *)
(* WorkOK says what a controller in the middle of a call may still rely    *)
(* on: its attempt number is not ahead of the row's, a log it is about to  *)
(* persist carries that attempt number, and as long as the row is still    *)
(* its own at that attempt, a sandbox it watched means the row is RUNNING. *)
RowOK(e) ==
    /\ state[e] \in {"ABSENT", "QUEUED"} => attempt[e] = 0
    /\ state[e] \in ActiveStates => attempt[e] > 0
    /\ state[e] \in ActiveStates <=> owner[e] # None
    /\ state[e] \in ActiveStates <=> lease[e] # "none"

WorkOK(t, w) ==
    IF t.pc = "idle" THEN t = Idle
    ELSE /\ t.ex \in Execution
         /\ t.att <= attempt[t.ex]
         /\ t.pc = "persist" =>
                t.input = t.att /\ t.log \in Verdicts \cup {"rejected"}
         /\ t.pc \in {"monitor", "persist", "timeout"} =>
                (owner[t.ex] = w /\ attempt[t.ex] = t.att => state[t.ex] = "RUNNING")

(* The same of a task t and the rows after a step.                         *)
WillBeOK(t, w) ==
    IF t.pc = "idle" THEN t = Idle
    ELSE /\ t.ex \in Execution
         /\ t.att <= attempt'[t.ex]
         /\ t.pc = "persist" =>
                t.input = t.att /\ t.log \in Verdicts \cup {"rejected"}
         /\ t.pc \in {"monitor", "persist", "timeout"} =>
                (owner'[t.ex] = w /\ attempt'[t.ex] = t.att => state'[t.ex] = "RUNNING")

RowInv == \A e \in Execution : RowOK(e)
WorkInv == \A w \in Worker : WorkOK(work[w], w)
ResultInv == ResultOfCurrentAttempt /\ GradedWithResult

IInv == TypeOK /\ RowInv /\ WorkInv /\ ResultInv

EnvTypeOK ==
    /\ outbox \subseteq Message
    /\ inbox \subseteq Message
    /\ job \in [Execution -> Jobs]
    /\ secret \in [Execution -> 0..MaxAttempts]
    /\ pods \in [Execution -> SUBSET Pods]
    /\ faults \in 0..MaxFaults

(* A step of w leaves alone whatever another controller may rely on.       *)
RespectsOthers(w) ==
    \A e \in Execution :
        /\ attempt[e] <= attempt'[e]
        /\ \A v \in Worker \ {w} :
              owner'[e] = v =>
                  owner[e] = v /\ attempt'[e] = attempt[e] /\ state'[e] = state[e]

RowsKept(w) == RowsTypeOK' /\ RowInv' /\ ResultInv' /\ RespectsOthers(w)

-----------------------------------------------------------------------------
(* Kinds of step.                                                          *)

\* A step that changes no row and no controller's task keeps the invariant as
\* long as it keeps the types of queue, cluster and fault counter.
LEMMA EnvStep ==
    ASSUME IInv, EnvTypeOK', UNCHANGED <<rows, work>>
    PROVE  IInv'
  BY DEF IInv, TypeOK, EnvTypeOK, RowsTypeOK, RowInv, RowOK, WorkInv, WorkOK, ResultInv,
         ResultOfCurrentAttempt, GradedWithResult, rows

\* A controller moves on to task t without touching a row.
LEMMA LocalStep ==
    ASSUME IInv, NEW w \in Worker, NEW t \in Tasks, Goto(w, t), WorkOK(t, w),
           EnvTypeOK', UNCHANGED rows
    PROVE  IInv'
  <1>1. RowsTypeOK' /\ RowInv' /\ ResultInv'
    BY DEF IInv, TypeOK, RowsTypeOK, RowInv, RowOK, ResultInv, ResultOfCurrentAttempt,
           GradedWithResult, rows
  <1>2. work' \in [Worker -> Tasks]
    BY DEF IInv, TypeOK, Goto
  <1>3. WorkInv'
    <2> SUFFICES ASSUME NEW v \in Worker PROVE WorkOK(work[v], v)'
      BY DEF WorkInv
    <2>1. WorkOK(work'[v], v)
      BY DEF IInv, TypeOK, WorkInv, Goto
    <2> QED
      BY <2>1 DEF WorkOK, rows
  <1> QED
    BY <1>1, <1>2, <1>3 DEF IInv, TypeOK, EnvTypeOK

\* What another controller relies on survives a step that respects it.
LEMMA OthersKeep ==
    ASSUME IInv, NEW x, NEW v \in Worker \ {x}, RespectsOthers(x), RowsTypeOK',
           work'[v] = work[v]
    PROVE  WorkOK(work[v], v)'
  <1>1. work[v] \in Tasks /\ WorkOK(work[v], v)
    BY DEF IInv, TypeOK, WorkInv
  <1>2. CASE work[v].pc = "idle"
    BY <1>1, <1>2 DEF WorkOK
  <1>3. CASE work[v].pc # "idle"
    <2>1. /\ work[v].ex \in Execution
          /\ work[v].att <= attempt[work[v].ex]
      BY <1>1, <1>3 DEF WorkOK
    <2>2. /\ attempt[work[v].ex] <= attempt'[work[v].ex]
          /\ owner'[work[v].ex] = v =>
                /\ owner[work[v].ex] = v
                /\ attempt'[work[v].ex] = attempt[work[v].ex]
                /\ state'[work[v].ex] = state[work[v].ex]
      BY <2>1 DEF RespectsOthers
    <2>3. /\ attempt[work[v].ex] \in Nat /\ attempt'[work[v].ex] \in Nat
          /\ work[v].att \in Nat
      BY <1>1, <2>1, MaxAttemptsAssumption DEF IInv, TypeOK, RowsTypeOK, Tasks
    <2> QED
      BY <1>1, <1>3, <2>1, <2>2, <2>3 DEF WorkOK
  <1> QED
    BY <1>2, <1>3

\* A controller moves on to task t and changes a row.
LEMMA RowStep ==
    ASSUME IInv, NEW w \in Worker, NEW t \in Tasks, Goto(w, t), WillBeOK(t, w),
           RowsKept(w), EnvTypeOK'
    PROVE  IInv'
  <1>1. work' \in [Worker -> Tasks] /\ work'[w] = t
    BY DEF IInv, TypeOK, Goto
  <1>2. ASSUME NEW v \in Worker, v # w PROVE WorkOK(work[v], v)'
    <2>1. work'[v] = work[v]
      BY <1>2 DEF IInv, TypeOK, Goto
    <2> QED
      BY <1>2, <2>1, OthersKeep DEF RowsKept
  <1>3. WorkOK(work[w], w)'
    BY <1>1 DEF WorkOK, WillBeOK
  <1> QED
    BY <1>1, <1>2, <1>3 DEF IInv, TypeOK, EnvTypeOK, WorkInv, RowsKept

\* The candidate or the clock changes a row.
LEMMA OutsideStep ==
    ASSUME IInv, UNCHANGED work, RowsKept(None), EnvTypeOK'
    PROVE  IInv'
  <1>1. ASSUME NEW v \in Worker PROVE WorkOK(work[v], v)'
    BY OthersKeep, NoneAssumption DEF RowsKept
  <1>2. work' \in [Worker -> Tasks]
    BY DEF IInv, TypeOK
  <1> QED
    BY <1>1, <1>2 DEF IInv, TypeOK, EnvTypeOK, WorkInv, RowsKept

-----------------------------------------------------------------------------
(* The row operations of ExecutionClaims.                                  *)

\* create_queued, cancel and the clock.
LEMMA OutsideRowOps ==
    ASSUME IInv, NEW e \in Execution,
           \/ CreateQueued(e) \/ CancelRow(e)
           \/ /\ lease[e] = "live"
              /\ lease' = [lease EXCEPT ![e] = "expired"]
              /\ UNCHANGED <<state, attempt, owner, job_name, result, graded>>
    PROVE  RowsKept(None)
  <1> USE MaxAttemptsAssumption, NoneAssumption DEF IInv, TypeOK, RowsTypeOK,
        CreateQueued, CancelRow, Transition, LegalTransition,
        ExecutionStates, ActiveStates, TerminalStates, Verdicts
  <1>1. RowsTypeOK'
    OBVIOUS
  <1>2. RowInv'
    BY DEF RowInv, RowOK
  <1>3. ResultInv'
    BY DEF ResultInv, ResultOfCurrentAttempt, GradedWithResult
  <1>4. RespectsOthers(None)
    BY DEF RespectsOthers, RowInv, RowOK
  <1> QED
    BY <1>1, <1>2, <1>3, <1>4 DEF RowsKept

\* claim_for_dispatch: a QUEUED row has used no attempt.
LEMMA ClaimForDispatchKeeps ==
    ASSUME IInv, NEW e \in Execution, NEW w \in Worker, ClaimForDispatch(e, w)
    PROVE  RowsKept(w) /\ attempt'[e] = attempt[e] + 1 /\ attempt[e] = 0
  <1> USE MaxAttemptsAssumption, NoneAssumption DEF IInv, TypeOK, RowsTypeOK,
        ClaimForDispatch, TakeLease, ExecutionStates, ActiveStates, TerminalStates, Verdicts
  <1>0. attempt[e] = 0
    BY DEF RowInv, RowOK
  <1>1. RowsTypeOK'
    BY <1>0
  <1>2. RowInv'
    BY <1>0 DEF RowInv, RowOK
  <1>3. ResultInv'
    BY DEF ResultInv, ResultOfCurrentAttempt, GradedWithResult
  <1>4. RespectsOthers(w)
    BY DEF RespectsOthers
  <1> QED
    BY <1>0, <1>1, <1>2, <1>3, <1>4 DEF RowsKept

\* retry_missing_sandbox: one more attempt, never beyond the limit.
LEMMA RetryMissingSandboxKeeps ==
    ASSUME IInv, NEW e \in Execution, NEW w \in Worker, NEW a,
           CanRetryMissingSandbox(e, a), RetryMissingSandbox(e, w)
    PROVE  RowsKept(w) /\ attempt'[e] = a + 1 /\ a + 1 \in 0..MaxAttempts
  <1> USE MaxAttemptsAssumption, NoneAssumption DEF IInv, TypeOK, RowsTypeOK,
        CanRetryMissingSandbox, RetryMissingSandbox, TakeLease,
        ExecutionStates, ActiveStates, TerminalStates, Verdicts
  <1>1. RowsTypeOK' /\ attempt'[e] = a + 1 /\ a + 1 \in 0..MaxAttempts
    OBVIOUS
  <1>2. RowInv'
    BY DEF RowInv, RowOK
  <1>3. ResultInv'
    BY DEF ResultInv, ResultOfCurrentAttempt, GradedWithResult
  <1>4. RespectsOthers(w)
    BY DEF RespectsOthers
  <1> QED
    BY <1>1, <1>2, <1>3, <1>4 DEF RowsKept

\* mark_running: the row is the caller's own.
LEMMA MarkRunningKeeps ==
    ASSUME IInv, NEW e \in Execution, NEW w \in Worker,
           CanMarkRunning(e, w), MarkRunning(e)
    PROVE  RowsKept(w) /\ state'[e] = "RUNNING" /\ attempt' = attempt
  <1> USE MaxAttemptsAssumption, NoneAssumption DEF IInv, TypeOK, RowsTypeOK,
        CanMarkRunning, MarkRunning, ExecutionStates, ActiveStates, TerminalStates, Verdicts
  <1>1. RowsTypeOK' /\ state'[e] = "RUNNING" /\ attempt' = attempt
    OBVIOUS
  <1>2. RowInv'
    BY DEF RowInv, RowOK
  <1>3. ResultInv'
    BY DEF ResultInv, ResultOfCurrentAttempt, GradedWithResult
  <1>4. RespectsOthers(w)
    BY DEF RespectsOthers
  <1> QED
    BY <1>1, <1>2, <1>3, <1>4 DEF RowsKept

\* _reacquire_expired_execution: an expired lease belongs to an active row.
LEMMA ReacquireKeeps ==
    ASSUME IInv, NEW e \in Execution, NEW w \in Worker, NEW seen, NEW a,
           NEW found \in BOOLEAN, CanReacquire(e, seen, a), Reacquire(e, w, found)
    PROVE  RowsKept(w) /\ attempt' = attempt /\ (found => state'[e] = "RUNNING")
  <1> USE MaxAttemptsAssumption, NoneAssumption DEF IInv, TypeOK, RowsTypeOK,
        CanReacquire, Reacquire, TakeLease, ExecutionStates, ActiveStates, TerminalStates,
        Verdicts
  <1>0. state[e] \in ActiveStates
    BY DEF RowInv, RowOK
  <1>1. RowsTypeOK' /\ attempt' = attempt /\ (found => state'[e] = "RUNNING")
    BY <1>0
  <1>2. RowInv'
    BY <1>0 DEF RowInv, RowOK
  <1>3. ResultInv'
    BY <1>0 DEF ResultInv, ResultOfCurrentAttempt, GradedWithResult
  <1>4. RespectsOthers(w)
    BY DEF RespectsOthers
  <1> QED
    BY <1>1, <1>2, <1>3, <1>4 DEF RowsKept

\* _defer_infrastructure_retry expires at most the caller's own lease.
LEMMA ExpireOwnLeaseKeeps ==
    ASSUME IInv, NEW e \in Execution, NEW w \in Worker, NEW a, ExpireOwnLease(e, w, a)
    PROVE  RowsKept(w) /\ attempt' = attempt
  <1> USE MaxAttemptsAssumption, NoneAssumption DEF IInv, TypeOK, RowsTypeOK,
        ExpireOwnLease, ExecutionStates, ActiveStates, TerminalStates, Verdicts
  <1>1. RowsTypeOK' /\ attempt' = attempt
    OBVIOUS
  <1>2. RowInv'
    BY DEF RowInv, RowOK
  <1>3. ResultInv'
    BY DEF ResultInv, ResultOfCurrentAttempt, GradedWithResult
  <1>4. RespectsOthers(w)
    BY DEF RespectsOthers
  <1> QED
    BY <1>1, <1>2, <1>3, <1>4 DEF RowsKept

\* _process_cancel forgets the sandbox of a cancelled execution.
LEMMA ForgetCancelledKeeps ==
    ASSUME IInv, NEW e \in Execution, NEW w \in Worker, ForgetCancelledSandbox(e)
    PROVE  RowsKept(w) /\ attempt' = attempt
  <1> USE MaxAttemptsAssumption, NoneAssumption DEF IInv, TypeOK, RowsTypeOK,
        ForgetCancelledSandbox, ExecutionStates, ActiveStates, TerminalStates, Verdicts
  <1>1. RowsTypeOK' /\ attempt' = attempt
    OBVIOUS
  <1>2. RowInv'
    BY DEF RowInv, RowOK
  <1>3. ResultInv'
    BY DEF ResultInv, ResultOfCurrentAttempt, GradedWithResult
  <1>4. RespectsOthers(w)
    BY DEF RespectsOthers
  <1> QED
    BY <1>1, <1>2, <1>3, <1>4 DEF RowsKept

\* _cleanup_terminal_orphans forgets the sandbox of a finished execution.
LEMMA ForgetOrphanKeeps ==
    ASSUME IInv, NEW e \in Execution, NEW w \in Worker, ForgetOrphanSandbox(e)
    PROVE  RowsKept(w) /\ attempt' = attempt
  <1> USE MaxAttemptsAssumption, NoneAssumption DEF IInv, TypeOK, RowsTypeOK,
        ForgetOrphanSandbox, ExecutionStates, ActiveStates, TerminalStates, Verdicts
  <1>1. RowsTypeOK' /\ attempt' = attempt
    OBVIOUS
  <1>2. RowInv'
    BY DEF RowInv, RowOK
  <1>3. ResultInv'
    BY DEF ResultInv, ResultOfCurrentAttempt, GradedWithResult
  <1>4. RespectsOthers(w)
    BY DEF RespectsOthers
  <1> QED
    BY <1>1, <1>2, <1>3, <1>4 DEF RowsKept

\* persist_terminal_result and finalize_submission: the projection stands on
\* the attempt the lock was taken for, or on none.
LEMMA PersistTerminalResultKeeps ==
    ASSUME IInv, NEW e \in Execution, NEW w \in Worker, NEW a, NEW p \in Results,
           OwnsAttempt(e, w, a), p.input \in {0, a},
           p.status = "COMPLETED" => p.input = a, PersistTerminalResult(e, p)
    PROVE  RowsKept(w) /\ attempt' = attempt
  <1> USE MaxAttemptsAssumption, NoneAssumption, SubmitsAssumption
        DEF IInv, TypeOK, RowsTypeOK, OwnsAttempt, PersistTerminalResult, Transition,
        LegalTransition, Results, NoResult, ExecutionStates, ActiveStates, TerminalStates,
        Verdicts
  <1>1. RowsTypeOK' /\ attempt' = attempt
    OBVIOUS
  <1>2. RowInv'
    BY DEF RowInv, RowOK
  <1>3. ResultInv'
    <2>1. ResultOfCurrentAttempt'
      BY DEF ResultInv, ResultOfCurrentAttempt
    <2>2. result[e] = NoResult /\ ~graded[e] /\ result'[e] # NoResult
      BY DEF ResultInv, ResultOfCurrentAttempt, GradedWithResult
    <2>3. GradedWithResult'
      BY <2>2 DEF ResultInv, GradedWithResult
    <2> QED
      BY <2>1, <2>3 DEF ResultInv
  <1>4. RespectsOthers(w)
    BY DEF RespectsOthers
  <1> QED
    BY <1>1, <1>2, <1>3, <1>4 DEF RowsKept

-----------------------------------------------------------------------------
(* The actions.                                                            *)

\* What a busy controller's task tells.
LEMMA TaskFacts ==
    ASSUME IInv, NEW w \in Worker
    PROVE  /\ work[w] \in Tasks
           /\ WorkOK(work[w], w)
           /\ work[w].pc # "idle" => work[w].ex \in Execution
           /\ Idle \in Tasks /\ WorkOK(Idle, w)
  <1>1. work[w] \in Tasks /\ WorkOK(work[w], w)
    BY DEF IInv, TypeOK, WorkInv
  <1>2. Idle \in Tasks
    BY MaxAttemptsAssumption DEF Idle, Tasks, Steps
  <1>3. WorkOK(Idle, w)
    BY DEF WorkOK, Idle
  <1> QED
    BY <1>1, <1>2, <1>3 DEF WorkOK

\* Unchanged queue, cluster and fault counter keep their types.
LEMMA EnvSame ==
    ASSUME IInv, UNCHANGED <<messages, sandbox, faults>>
    PROVE  EnvTypeOK'
  BY DEF IInv, TypeOK, EnvTypeOK, messages, sandbox

\* A fault stays within the bound.
LEMMA FaultType ==
    ASSUME IInv, Fault
    PROVE  faults' \in 0..MaxFaults
  BY MaxFaultsAssumption DEF IInv, TypeOK, Fault

\* The API calls of the candidate, the stale-QUEUED republish and the clock.
LEMMA OutsideActions ==
    ASSUME IInv, NEW e \in Execution,
           Create(e) \/ Cancel(e) \/ RequeueStaleQueued(e) \/ LeaseExpires(e)
    PROVE  IInv'
  <1>1. CASE Create(e) \/ Cancel(e)
    <2>1. EnvTypeOK'
      BY <1>1 DEF IInv, TypeOK, EnvTypeOK, Create, Cancel, Message, sandbox
    <2>2. RowsKept(None) /\ UNCHANGED work
      BY <1>1, OutsideRowOps DEF Create, Cancel
    <2> QED
      BY <2>1, <2>2, OutsideStep
  <1>2. CASE RequeueStaleQueued(e)
    <2>1. EnvTypeOK' /\ UNCHANGED <<rows, work>>
      BY <1>2 DEF IInv, TypeOK, EnvTypeOK, RequeueStaleQueued, Message, sandbox
    <2> QED
      BY <2>1, EnvStep
  <1>3. CASE LeaseExpires(e)
    <2>1. faults' \in 0..MaxFaults
      BY <1>3, FaultType DEF LeaseExpires, IInv, TypeOK
    <2>2. EnvTypeOK'
      BY <1>3, <2>1 DEF LeaseExpires, IInv, TypeOK, EnvTypeOK, messages, sandbox
    <2>3. RowsKept(None) /\ UNCHANGED work
      BY <1>3, OutsideRowOps DEF LeaseExpires
    <2> QED
      BY <2>2, <2>3, OutsideStep
  <1> QED
    BY <1>1, <1>2, <1>3

\* Publishing, or losing a message, touches neither rows nor controllers.
LEMMA QueueActions ==
    ASSUME IInv, NEW m \in Message, Publish(m) \/ LoseMessage(m)
    PROVE  IInv'
  <1>1. faults' \in 0..MaxFaults
    BY FaultType DEF Publish, LoseMessage, IInv, TypeOK
  <1>2. EnvTypeOK' /\ UNCHANGED <<rows, work>>
    BY <1>1 DEF Publish, LoseMessage, IInv, TypeOK, EnvTypeOK, sandbox
  <1> QED
    BY <1>2, EnvStep

\* Nothing Kubernetes does on its own touches rows or controllers.
LEMMA ClusterActions ==
    ASSUME IInv, NEW e \in Execution, Cluster(e)
    PROVE  IInv'
  <1> USE MaxAttemptsAssumption, PodLogAssumption
        DEF IInv, TypeOK, EnvTypeOK, Jobs, Pods, NoJob, LogKinds, Verdicts, messages
  <1>1. CASE PodStarts(e)
    <2>1. EnvTypeOK' /\ UNCHANGED <<rows, work>>
      BY <1>1 DEF PodStarts
    <2> QED
      BY <2>1, EnvStep
  <1>2. CASE PodFinishes(e)
    <2>1. EnvTypeOK' /\ UNCHANGED <<rows, work>>
      BY <1>2 DEF PodFinishes
    <2> QED
      BY <2>1, EnvStep
  <1>3. CASE SandboxDeadline(e)
    <2>1. EnvTypeOK' /\ UNCHANGED <<rows, work>>
      BY <1>3 DEF SandboxDeadline
    <2> QED
      BY <2>1, EnvStep
  <1>4. CASE SandboxReaped(e)
    <2>1. EnvTypeOK' /\ UNCHANGED <<rows, work>>
      BY <1>4 DEF SandboxReaped
    <2> QED
      BY <2>1, EnvStep
  <1>5. CASE PodCollected(e)
    <2>1. EnvTypeOK' /\ UNCHANGED <<rows, work>>
      BY <1>5 DEF PodCollected
    <2> QED
      BY <2>1, EnvStep
  <1> QED
    BY <1>1, <1>2, <1>3, <1>4, <1>5 DEF Cluster

(* Steps of one controller that change no row. *)

\* delete_message ends the call.
LEMMA DeleteMessageStep ==
    ASSUME IInv, NEW w \in Worker, DeleteMessage(w)
    PROVE  IInv'
  <1> DEFINE t == Idle
  <1>1. EnvTypeOK' /\ UNCHANGED rows
    BY DEF DeleteMessage, IInv, TypeOK, EnvTypeOK, sandbox
  <1>2. t \in Tasks /\ WorkOK(t, w)
    BY TaskFacts, MaxAttemptsAssumption DEF DeleteMessage, At, Step, WorkOK, Tasks, Steps, Idle
  <1>3. Goto(w, t)
    BY DEF DeleteMessage
  <1> QED
    BY <1>1, <1>2, <1>3, LocalStep

\* Creating the Secret keeps its attempt number within the limit.
LEMMA CreateSecretStep ==
    ASSUME IInv, NEW w \in Worker, CreateSecret(w)
    PROVE  IInv'
  <1> DEFINE t == Step(w, "job")
  <1>1. EnvTypeOK' /\ UNCHANGED rows
    BY TaskFacts DEF CreateSecret, PostSecret, At, IInv, TypeOK, EnvTypeOK, messages, Tasks
  <1>2. t \in Tasks /\ WorkOK(t, w)
    BY TaskFacts, MaxAttemptsAssumption DEF CreateSecret, At, Step, WorkOK, Tasks, Steps, Idle
  <1>3. Goto(w, t)
    BY DEF CreateSecret
  <1> QED
    BY <1>1, <1>2, <1>3, LocalStep

\* Creating the Job.
LEMMA CreateJobStep ==
    ASSUME IInv, NEW w \in Worker, CreateJob(w)
    PROVE  IInv'
  <1> DEFINE t == Step(w, "mark")
  <1>1. EnvTypeOK' /\ UNCHANGED rows
    BY TaskFacts, MaxAttemptsAssumption DEF CreateJob, PostJob, NoJob, Jobs, At, IInv, TypeOK, EnvTypeOK, messages
  <1>2. t \in Tasks /\ WorkOK(t, w)
    BY TaskFacts, MaxAttemptsAssumption DEF CreateJob, At, Step, WorkOK, Tasks, Steps, Idle
  <1>3. Goto(w, t)
    BY DEF CreateJob
  <1> QED
    BY <1>1, <1>2, <1>3, LocalStep

\* A POST that raises.
LEMMA CreateFailsStep ==
    ASSUME IInv, NEW w \in Worker, CreateFails(w)
    PROVE  IInv'
  <1> DEFINE t == Step(w, "abort")
  <1>1. EnvTypeOK' /\ UNCHANGED rows
    BY TaskFacts, FaultType, MaxAttemptsAssumption DEF CreateFails, PostJob, NoJob, Jobs, At, IInv, TypeOK, EnvTypeOK, messages
  <1>2. t \in Tasks /\ WorkOK(t, w)
    BY TaskFacts, MaxAttemptsAssumption DEF CreateFails, At, Step, WorkOK, Tasks, Steps, Idle, CleanupSteps
  <1>3. Goto(w, t)
    BY DEF CreateFails
  <1> QED
    BY <1>1, <1>2, <1>3, LocalStep

\* A Job that disappeared under its monitor.
LEMMA MonitorMissingStep ==
    ASSUME IInv, NEW w \in Worker, MonitorMissing(w)
    PROVE  IInv'
  <1> DEFINE t == Deferral(work[w])
  <1>1. EnvTypeOK' /\ UNCHANGED rows
    BY EnvSame DEF MonitorMissing
  <1>2. t \in Tasks /\ WorkOK(t, w)
    BY TaskFacts, MaxAttemptsAssumption DEF MonitorMissing, At, Step, WorkOK, Tasks, Steps, Idle, Deferral, CleanupSteps, PersistSteps
  <1>3. Goto(w, t)
    BY DEF MonitorMissing
  <1> QED
    BY <1>1, <1>2, <1>3, LocalStep

\* A Job that outlived the deadline: the watched row is still RUNNING.
LEMMA MonitorDeadlineStep ==
    ASSUME IInv, NEW w \in Worker, MonitorDeadline(w)
    PROVE  IInv'
  <1> DEFINE t == Step(w, "timeout")
  <1>1. EnvTypeOK' /\ UNCHANGED rows
    BY EnvSame DEF MonitorDeadline
  <1>2. t \in Tasks /\ WorkOK(t, w)
    BY TaskFacts, MaxAttemptsAssumption DEF MonitorDeadline, At, Step, WorkOK, Tasks, Steps, Idle, PersistSteps
  <1>3. Goto(w, t)
    BY DEF MonitorDeadline
  <1> QED
    BY <1>1, <1>2, <1>3, LocalStep

\* A lost lease ends the call.
LEMMA MonitorRenewStep ==
    ASSUME IInv, NEW w \in Worker, MonitorRenew(w)
    PROVE  IInv'
  <1> DEFINE t == Idle
  <1>1. EnvTypeOK' /\ UNCHANGED rows
    BY EnvSame DEF MonitorRenew
  <1>2. t \in Tasks /\ WorkOK(t, w)
    BY TaskFacts, MaxAttemptsAssumption DEF MonitorRenew, At, Step, WorkOK, Tasks, Steps, Idle
  <1>3. Goto(w, t)
    BY DEF MonitorRenew
  <1> QED
    BY <1>1, <1>2, <1>3, LocalStep

\* A crash forgets the task and nothing else.
LEMMA CrashStep ==
    ASSUME IInv, NEW w \in Worker, Crash(w)
    PROVE  IInv'
  <1> DEFINE t == Idle
  <1>1. EnvTypeOK' /\ UNCHANGED rows
    BY FaultType DEF Crash, IInv, TypeOK, EnvTypeOK, messages, sandbox
  <1>2. t \in Tasks /\ WorkOK(t, w)
    BY TaskFacts, MaxAttemptsAssumption DEF Crash, At, Step, WorkOK, Tasks, Steps, Idle
  <1>3. Goto(w, t)
    BY DEF Crash, Goto
  <1> QED
    BY <1>1, <1>2, <1>3, LocalStep

\* A pod's log that is examined is persisted under its own attempt number, or
\* the attempt is given up.
LEMMA ExamineOK ==
    ASSUME IInv, NEW w \in Worker, NEW t \in Tasks, NEW p,
           t.pc # "idle", t.ex \in Execution, t.att <= attempt[t.ex],
           p.log \in LogKinds, p.input \in 0..MaxAttempts,
           owner[t.ex] = w /\ attempt[t.ex] = t.att => state[t.ex] = "RUNNING"
    PROVE  Examine(t, p) \in Tasks /\ WorkOK(Examine(t, p), w)
  <1>1. CASE p.log \in {"empty", "garbled"} \/ p.input # t.att
    BY <1>1 DEF Examine, Deferral, WorkOK, Tasks, Steps, CleanupSteps, PersistSteps
  <1>2. CASE ~(p.log \in {"empty", "garbled"} \/ p.input # t.att)
    BY <1>2 DEF Examine, WorkOK, Tasks, Steps, CleanupSteps, PersistSteps, LogKinds, Verdicts
  <1> QED
    BY <1>1, <1>2

\* A finished Job under its monitor.
LEMMA MonitorFinishedStep ==
    ASSUME IInv, NEW w \in Worker, MonitorFinished(w)
    PROVE  IInv'
  <1>1. EnvTypeOK' /\ UNCHANGED rows
    BY EnvSame DEF MonitorFinished
  <1>2. /\ work[w] \in Tasks /\ work[w].pc = "monitor" /\ work[w].ex \in Execution
        /\ work[w].att <= attempt[work[w].ex]
        /\ owner[work[w].ex] = w /\ attempt[work[w].ex] = work[w].att
              => state[work[w].ex] = "RUNNING"
    BY TaskFacts DEF MonitorFinished, At, WorkOK
  <1>3. CASE Goto(w, Idle)
    BY <1>1, <1>3, TaskFacts, LocalStep
  <1>4. ASSUME NEW p \in pods[work[w].ex],
               Goto(w, IF job[work[w].ex].phase = "deadline" /\ p.log = "empty"
                       THEN Step(w, "timeout") ELSE Examine(work[w], p))
        PROVE  IInv'
    <2>1. p.log \in LogKinds /\ p.input \in 0..MaxAttempts
      BY <1>2 DEF IInv, TypeOK, Pods
    <2>2. Examine(work[w], p) \in Tasks /\ WorkOK(Examine(work[w], p), w)
      BY <1>2, <2>1, ExamineOK
    <2>3. Step(w, "timeout") \in Tasks /\ WorkOK(Step(w, "timeout"), w)
      BY <1>2 DEF Step, WorkOK, Tasks, Steps, PersistSteps
    <2> QED
      BY <1>1, <1>4, <2>2, <2>3, LocalStep
  <1> QED
    BY <1>3, <1>4 DEF MonitorFinished

\* sandbox.cleanup and what follows it.
LEMMA CleanupSandboxStep ==
    ASSUME IInv, NEW w \in Worker, CleanupSandbox(w)
    PROVE  IInv'
  <1> DEFINE t == CASE work[w].pc = "abort" -> Idle
                    [] work[w].pc \in {"discard", "clean"} -> Acknowledge(w)
                    [] work[w].pc = "defer" -> Step(w, "expire")
                    [] work[w].pc = "cancel" -> Step(w, "cancelled")
                    [] work[w].pc = "orphan" -> Step(w, "orphaned")
  <1>1. /\ work[w] \in Tasks /\ work[w].pc \in CleanupSteps /\ work[w].ex \in Execution
        /\ WorkOK(work[w], w) /\ Idle \in Tasks /\ WorkOK(Idle, w)
    BY TaskFacts DEF CleanupSandbox, CleanupSteps
  <1>2. EnvTypeOK'
    <2>1. faults' \in 0..MaxFaults
      BY FaultType DEF CleanupSandbox, Cleanup, IInv, TypeOK
    <2>2. secret' \in [Execution -> 0..MaxAttempts]
      BY <1>1, MaxAttemptsAssumption DEF CleanupSandbox, Cleanup, DeleteSecret, IInv, TypeOK
    <2>3. job' \in [Execution -> Jobs]
      BY <1>1, MaxAttemptsAssumption
         DEF CleanupSandbox, Cleanup, DeleteJob, NoJob, Jobs, IInv, TypeOK
    <2>4. pods' \in [Execution -> SUBSET Pods]
      <3>1. ASSUME NEW l \in PodLog
            PROVE  [input |-> job[work[w].ex].input, log |-> l] \in Pods
        BY <1>1, PodLogAssumption DEF Pods, Jobs, IInv, TypeOK
      <3> QED
        BY <1>1, <3>1 DEF CleanupSandbox, Cleanup, DeleteJob, IInv, TypeOK
    <2> QED
      BY <2>1, <2>2, <2>3, <2>4 DEF CleanupSandbox, IInv, TypeOK, EnvTypeOK, messages
  <1>3. t \in Tasks /\ WorkOK(t, w)
    BY <1>1 DEF CleanupSteps, Acknowledge, Step, WorkOK, Tasks, Steps
  <1>4. Goto(w, t) /\ UNCHANGED rows
    BY DEF CleanupSandbox
  <1> QED
    BY <1>2, <1>3, <1>4, LocalStep

\* Taking up a cancellation, an expired lease or an orphan.
LEMMA ScanSteps ==
    ASSUME IInv, NEW w \in Worker, NEW e \in Execution,
           ReceiveCancel(w, e) \/ ScanExpired(w, e) \/ ScanOrphan(w, e)
    PROVE  IInv'
  <1>1. /\ attempt[e] \in 0..MaxAttempts /\ attempt[e] >= 0 /\ attempt[e] <= attempt[e]
        /\ 0 \in 0..MaxAttempts
    BY MaxAttemptsAssumption DEF IInv, TypeOK, RowsTypeOK
  <1>2. CASE ReceiveCancel(w, e)
    <2> DEFINE t == [Idle EXCEPT !.ex = e, !.mode = "cancel", !.pc = "cancel"]
    <2>1. t \in Tasks /\ WorkOK(t, w)
      BY <1>1, <1>2 DEF ReceiveCancel, Idle, Tasks, Steps, CleanupSteps, WorkOK
    <2>2. Goto(w, t) /\ EnvTypeOK' /\ UNCHANGED rows
      BY <1>2, EnvSame DEF ReceiveCancel
    <2> QED
      BY <2>1, <2>2, LocalStep
  <1>3. CASE ScanExpired(w, e)
    <2> DEFINE t == [Idle EXCEPT !.pc = "observe", !.ex = e, !.att = attempt[e],
                               !.mode = "reconcile", !.seen = state[e]]
    <2>1. t \in Tasks /\ WorkOK(t, w)
      BY <1>1, <1>3 DEF ScanExpired, Idle, Tasks, Steps, CleanupSteps, WorkOK
    <2>2. Goto(w, t) /\ EnvTypeOK' /\ UNCHANGED rows
      BY <1>3, EnvSame DEF ScanExpired
    <2> QED
      BY <2>1, <2>2, LocalStep
  <1>4. CASE ScanOrphan(w, e)
    <2> DEFINE t == [Idle EXCEPT !.pc = "orphan", !.ex = e, !.mode = "reconcile"]
    <2>1. t \in Tasks /\ WorkOK(t, w)
      BY <1>1, <1>4 DEF ScanOrphan, Idle, Tasks, Steps, CleanupSteps, WorkOK
    <2>2. Goto(w, t) /\ EnvTypeOK' /\ UNCHANGED rows
      BY <1>4, EnvSame DEF ScanOrphan
    <2> QED
      BY <2>1, <2>2, LocalStep
  <1> QED
    BY <1>2, <1>3, <1>4

\* The observation a reconciliation acts on later.
LEMMA ReconcileObserveStep ==
    ASSUME IInv, NEW w \in Worker, ReconcileObserve(w)
    PROVE  IInv'
  <1>1. EnvTypeOK' /\ UNCHANGED rows
    BY EnvSame DEF ReconcileObserve
  <1>2. /\ work[w] \in Tasks /\ work[w].pc = "observe" /\ work[w].ex \in Execution
        /\ WorkOK(work[w], w) /\ Idle \in Tasks /\ WorkOK(Idle, w)
    BY TaskFacts DEF ReconcileObserve, At
  <1>3. CASE Goto(w, Idle)
    BY <1>1, <1>2, <1>3, LocalStep
  <1>4. CASE Goto(w, Step(w, "retry")) \/ Goto(w, Step(w, "adopt"))
    <2>1. ASSUME NEW s \in {"retry", "adopt"} PROVE Step(w, s) \in Tasks /\ WorkOK(Step(w, s), w)
      BY <1>2 DEF Step, WorkOK, Tasks, Steps
    <2> QED
      BY <1>1, <1>4, <2>1, LocalStep
  <1>5. ASSUME NEW p \in pods[work[w].ex],
               Goto(w, [work[w] EXCEPT !.pc = "adopt", !.log = p.log, !.input = p.input])
        PROVE  IInv'
    <2>1. p.log \in LogKinds /\ p.input \in 0..MaxAttempts
      BY <1>2 DEF IInv, TypeOK, Pods
    <2> DEFINE t == [work[w] EXCEPT !.pc = "adopt", !.log = p.log, !.input = p.input]
    <2>2. t \in Tasks /\ WorkOK(t, w)
      BY <1>2, <2>1 DEF WorkOK, Tasks, Steps
    <2> QED
      BY <1>1, <1>5, <2>2, LocalStep
  <1> QED
    BY <1>3, <1>4, <1>5 DEF ReconcileObserve

(* Steps of one controller that change a row. *)

\* The end of _defer_infrastructure_retry.
LEMMA DeferRetryStep ==
    ASSUME IInv, NEW w \in Worker, DeferRetry(w)
    PROVE  IInv'
  <1> DEFINE t == Idle
  <1>1. work[w].pc = "expire" /\ Goto(w, t) /\ EnvTypeOK'
    BY EnvSame DEF DeferRetry, At
  <1>2. RowsKept(w) /\ attempt' = attempt
    BY <1>1, TaskFacts, ExpireOwnLeaseKeeps DEF DeferRetry
  <1>3. t \in Tasks /\ WillBeOK(t, w)
    BY <1>1, <1>2, TaskFacts DEF WorkOK, WillBeOK, Tasks, Steps, Idle, Step
  <1> QED
    BY <1>1, <1>2, <1>3, RowStep

\* The end of _process_cancel.
LEMMA ProcessCancelStep ==
    ASSUME IInv, NEW w \in Worker, ProcessCancel(w)
    PROVE  IInv'
  <1> DEFINE t == Step(w, "ack")
  <1>1. work[w].pc = "cancelled" /\ Goto(w, t) /\ EnvTypeOK'
    BY EnvSame DEF ProcessCancel, At
  <1>2. RowsKept(w) /\ attempt' = attempt
    BY <1>1, TaskFacts, ForgetCancelledKeeps DEF ProcessCancel
  <1>3. t \in Tasks /\ WillBeOK(t, w)
    BY <1>1, <1>2, TaskFacts DEF WorkOK, WillBeOK, Tasks, Steps, Idle, Step
  <1> QED
    BY <1>1, <1>2, <1>3, RowStep

\* The end of _cleanup_terminal_orphans.
LEMMA CleanupOrphanStep ==
    ASSUME IInv, NEW w \in Worker, CleanupOrphan(w)
    PROVE  IInv'
  <1> DEFINE t == Idle
  <1>1. work[w].pc = "orphaned" /\ Goto(w, t) /\ EnvTypeOK'
    BY EnvSame DEF CleanupOrphan, At
  <1>2. RowsKept(w) /\ attempt' = attempt
    BY <1>1, TaskFacts, ForgetOrphanKeeps DEF CleanupOrphan
  <1>3. t \in Tasks /\ WillBeOK(t, w)
    BY <1>1, <1>2, TaskFacts DEF WorkOK, WillBeOK, Tasks, Steps, Idle, Step
  <1> QED
    BY <1>1, <1>2, <1>3, RowStep

\* Claiming a QUEUED execution, or dropping a message whose row moved on.
LEMMA ReceiveRequestedStep ==
    ASSUME IInv, NEW w \in Worker, NEW e \in Execution, ReceiveRequested(w, e)
    PROVE  IInv'
  <1> DEFINE claimed == [Idle EXCEPT !.pc = "secret", !.ex = e, !.att = attempt[e] + 1,
                                     !.mode = "requested"]
             stale == [Idle EXCEPT !.pc = "ack", !.ex = e, !.mode = "requested"]
  <1>1. EnvTypeOK'
    BY EnvSame DEF ReceiveRequested
  <1>2. attempt[e] \in 0..MaxAttempts /\ 0 \in 0..MaxAttempts
    BY MaxAttemptsAssumption DEF IInv, TypeOK, RowsTypeOK
  <1>3. CASE ClaimForDispatch(e, w) /\ Goto(w, claimed)
    <2>1. RowsKept(w) /\ attempt'[e] = attempt[e] + 1 /\ attempt[e] = 0
      BY <1>3, ClaimForDispatchKeeps
    <2>2. claimed \in Tasks
      <3>1. attempt[e] + 1 \in 0..MaxAttempts
        BY <2>1, MaxAttemptsAssumption
      <3> QED
        BY <1>2, <3>1 DEF Idle, Tasks, Steps
    <2>3. WillBeOK(claimed, w)
      BY <2>1, <1>2 DEF WorkOK, WillBeOK, Idle
    <2> QED
      BY <1>1, <1>3, <2>1, <2>2, <2>3, RowStep
  <1>4. CASE Goto(w, stale) /\ UNCHANGED rows
    <2>1. stale \in Tasks
      BY <1>2 DEF Idle, Tasks, Steps
    <2>2. WorkOK(stale, w)
      BY <1>2 DEF Idle, WorkOK
    <2> QED
      BY <1>1, <1>4, <2>1, <2>2, LocalStep
  <1> QED
    BY <1>3, <1>4 DEF ReceiveRequested

\* mark_running after the sandbox was created, or a lease lost meanwhile.
LEMMA StartSandboxStep ==
    ASSUME IInv, NEW w \in Worker, StartSandbox(w)
    PROVE  IInv'
  <1>1. EnvTypeOK' /\ work[w].pc = "mark"
    BY EnvSame DEF StartSandbox, At
  <1>2. /\ work[w] \in Tasks /\ work[w].ex \in Execution /\ WorkOK(work[w], w)
        /\ Idle \in Tasks /\ WorkOK(Idle, w)
    BY <1>1, TaskFacts
  <1>3. CASE CanMarkRunning(work[w].ex, w) /\ MarkRunning(work[w].ex)
    <2> DEFINE t == IF work[w].mode = "reconcile" THEN Idle ELSE Step(w, "monitor")
    <2>1. RowsKept(w) /\ state'[work[w].ex] = "RUNNING" /\ attempt' = attempt
      BY <1>2, <1>3, MarkRunningKeeps
    <2>2. t \in Tasks /\ WillBeOK(t, w)
      BY <1>1, <1>2, <2>1 DEF WorkOK, WillBeOK, Tasks, Steps, Idle, Step
    <2>3. Goto(w, t)
      BY <1>3 DEF StartSandbox
    <2> QED
      BY <1>1, <2>1, <2>2, <2>3, RowStep
  <1>4. CASE Goto(w, Step(w, "discard")) /\ UNCHANGED rows
    <2>1. Step(w, "discard") \in Tasks /\ WorkOK(Step(w, "discard"), w)
      BY <1>1, <1>2 DEF WorkOK, Tasks, Steps, CleanupSteps, Step
    <2> QED
      BY <1>1, <1>4, <2>1, LocalStep
  <1> QED
    BY <1>3, <1>4 DEF StartSandbox

\* The transaction of a terminal projection.
LEMMA PersistProjectionStep ==
    ASSUME IInv, NEW w \in Worker, PersistProjection(w)
    PROVE  IInv'
  <1>1. EnvTypeOK' /\ work[w].pc \in PersistSteps
    BY EnvSame DEF PersistProjection
  <1>2. /\ work[w] \in Tasks /\ work[w].ex \in Execution /\ WorkOK(work[w], w)
        /\ Idle \in Tasks /\ WorkOK(Idle, w)
    BY <1>1, TaskFacts DEF PersistSteps
  <1>3. Step(w, "clean") \in Tasks /\ WorkOK(Step(w, "clean"), w)
    BY <1>1, <1>2 DEF WorkOK, Tasks, Steps, CleanupSteps, PersistSteps, Step
  <1>4. CASE /\ OwnsAttempt(work[w].ex, w, work[w].att)
             /\ ~Rejected(work[w])
             /\ PersistTerminalResult(work[w].ex, Projection(work[w]))
             /\ Goto(w, Step(w, "clean"))
    <2> DEFINE p == Projection(work[w])
    <2>1. /\ p \in Results
          /\ p.input \in {0, work[w].att}
          /\ p.status = "COMPLETED" => p.input = work[w].att
      <3>1. CASE work[w].pc = "persist"
        BY <1>2, <1>4, <3>1, MaxAttemptsAssumption
           DEF Projection, Rejected, Results, TerminalStates, WorkOK, Verdicts, Tasks
      <3>2. CASE work[w].pc = "timeout" \/ work[w].pc = "limit"
        BY <3>2, MaxAttemptsAssumption DEF Projection, Results, TerminalStates
      <3> QED
        BY <1>1, <3>1, <3>2 DEF PersistSteps
    <2>2. RowsKept(w) /\ attempt' = attempt
      BY <1>2, <1>4, <2>1, PersistTerminalResultKeeps
    <2>3. WillBeOK(Step(w, "clean"), w)
      BY <1>1, <1>2, <2>2 DEF WorkOK, WillBeOK, Step, PersistSteps, Tasks
    <2> QED
      BY <1>1, <1>3, <1>4, <2>2, <2>3, RowStep
  <1>5. CASE Goto(w, Deferral(work[w])) /\ UNCHANGED rows
    <2>1. Deferral(work[w]) \in Tasks /\ WorkOK(Deferral(work[w]), w)
      BY <1>1, <1>2 DEF Deferral, WorkOK, Tasks, Steps, CleanupSteps, PersistSteps
    <2> QED
      BY <1>1, <1>5, <2>1, LocalStep
  <1>6. CASE /\ Goto(w, IF state[work[w].ex] \in TerminalStates THEN Step(w, "clean") ELSE Idle)
             /\ UNCHANGED rows
    BY <1>1, <1>2, <1>3, <1>6, LocalStep
  <1> QED
    BY <1>4, <1>5, <1>6 DEF PersistProjection

\* A fresh attempt for an expired execution without a sandbox.
LEMMA RetryExpiredStep ==
    ASSUME IInv, NEW w \in Worker, RetryExpired(w)
    PROVE  IInv'
  <1>1. EnvTypeOK' /\ work[w].pc = "retry"
    BY EnvSame DEF RetryExpired, At
  <1>2. work[w] \in Tasks /\ work[w].ex \in Execution /\ WorkOK(work[w], w)
    BY <1>1, TaskFacts
  <1>3. CASE /\ CanRetryMissingSandbox(work[w].ex, work[w].att)
             /\ RetryMissingSandbox(work[w].ex, w)
    <2> DEFINE t == [work[w] EXCEPT !.pc = "secret", !.att = @ + 1, !.seen = "none"]
    <2>1. /\ RowsKept(w) /\ attempt'[work[w].ex] = work[w].att + 1
          /\ work[w].att + 1 \in 0..MaxAttempts
      BY <1>2, <1>3, RetryMissingSandboxKeeps
    <2>2. t \in Tasks
      BY <1>2, <2>1 DEF Tasks, Steps
    <2>3. WillBeOK(t, w)
      BY <1>2, <2>1 DEF WorkOK, WillBeOK, Tasks
    <2>4. Goto(w, t)
      BY <1>3 DEF RetryExpired
    <2> QED
      BY <1>1, <2>1, <2>2, <2>3, <2>4, RowStep
  <1>4. CASE Goto(w, Step(w, "reacquire")) /\ UNCHANGED rows
    <2>1. Step(w, "reacquire") \in Tasks /\ WorkOK(Step(w, "reacquire"), w)
      BY <1>1, <1>2 DEF WorkOK, Tasks, Steps, Step
    <2> QED
      BY <1>1, <1>4, <2>1, LocalStep
  <1> QED
    BY <1>3, <1>4 DEF RetryExpired

\* A reconciliation drops its snapshot and observation and keeps the rest.
LEMMA DropSnapshot ==
    ASSUME NEW t \in Tasks
    PROVE  LET task == [t EXCEPT !.seen = "none", !.log = "none", !.input = 0]
           IN  /\ task \in Tasks
               /\ task.pc = t.pc /\ task.ex = t.ex /\ task.att = t.att
  <1>1. 0 \in 0..MaxAttempts
    BY MaxAttemptsAssumption
  <1>2. [t EXCEPT !.seen = "none", !.log = "none", !.input = 0] \in Tasks
    BY <1>1 DEF Tasks
  <1> QED
    BY <1>2 DEF Tasks

\* Taking over an expired execution: an adopted sandbox means RUNNING.
LEMMA ReconcileReacquireStep ==
    ASSUME IInv, NEW w \in Worker, ReconcileReacquire(w)
    PROVE  IInv'
  <1> DEFINE e == work[w].ex
             found == work[w].pc = "adopt"
             task == [work[w] EXCEPT !.seen = "none", !.log = "none", !.input = 0]
             p == [log |-> work[w].log, input |-> work[w].input]
             t == IF ~found THEN [task EXCEPT !.pc = "limit"]
                  ELSE IF work[w].log = "none" THEN Idle ELSE Examine(task, p)
  <1>1. EnvTypeOK' /\ work[w].pc \in {"reacquire", "adopt"}
    BY EnvSame DEF ReconcileReacquire
  <1>2. /\ work[w] \in Tasks /\ work[w].ex \in Execution /\ WorkOK(work[w], w)
        /\ Idle \in Tasks /\ WorkOK(Idle, w)
    BY <1>1, TaskFacts
  <1>3. CASE /\ CanReacquire(e, work[w].seen, work[w].att)
             /\ Reacquire(e, w, found)
             /\ Goto(w, t)
    <2>1. RowsKept(w) /\ attempt' = attempt /\ (found => state'[e] = "RUNNING")
      BY <1>2, <1>3, ReacquireKeeps
    <2>2. task \in Tasks /\ task.pc = work[w].pc /\ task.ex = e /\ task.att = work[w].att
      BY <1>2, DropSnapshot
    <2> HIDE DEF task
    <2>3. CASE ~found
      <3> DEFINE s == [task EXCEPT !.pc = "limit"]
      <3>1. s \in Tasks /\ s.pc = "limit" /\ s.ex = e /\ s.att = work[w].att
        BY <2>2 DEF Tasks, Steps, PersistSteps
      <3>2. WillBeOK(s, w)
        BY <1>1, <1>2, <2>1, <3>1 DEF WorkOK, WillBeOK
      <3>3. Goto(w, s)
        BY <1>3, <2>3
      <3> QED
        BY <1>1, <2>1, <3>1, <3>2, <3>3, RowStep
    <2>4. CASE found /\ work[w].log = "none"
      <3>1. Goto(w, Idle) /\ WillBeOK(Idle, w)
        BY <1>3, <2>4 DEF WillBeOK, Idle
      <3> QED
        BY <1>1, <1>2, <2>1, <3>1, RowStep
    <2>5. CASE found /\ work[w].log # "none"
      <3>1. Goto(w, Examine(task, p))
        BY <1>3, <2>5
      <3>2. Examine(task, p) \in Tasks /\ WillBeOK(Examine(task, p), w)
        <4>1. p.log \in LogKinds /\ p.input \in 0..MaxAttempts
          BY <1>2, <2>5 DEF Tasks
        <4>2. task.att <= attempt'[e] /\ state'[e] = "RUNNING"
          BY <1>1, <1>2, <2>1, <2>2, <2>5 DEF WorkOK
        <4>3. CASE p.log \in {"empty", "garbled"} \/ p.input # task.att
          BY <1>2, <2>2, <4>2, <4>3
             DEF Examine, Deferral, WillBeOK, Tasks, Steps, CleanupSteps, PersistSteps
        <4>4. CASE ~(p.log \in {"empty", "garbled"} \/ p.input # task.att)
          <5> DEFINE s == [task EXCEPT !.pc = "persist", !.log = p.log, !.input = p.input]
          <5>1. s \in Tasks
            BY <2>2, <4>1 DEF Tasks, Steps, PersistSteps
          <5>2. /\ s.pc = "persist" /\ s.ex = e /\ s.att = task.att
                /\ s.log = p.log /\ s.input = p.input
            BY <2>2 DEF Tasks
          <5>3. WillBeOK(s, w)
            BY <1>2, <4>1, <4>2, <4>4, <5>2 DEF WillBeOK, LogKinds, Verdicts
          <5> QED
            BY <4>4, <5>1, <5>3 DEF Examine
        <4> QED
          BY <4>3, <4>4
      <3> QED
        BY <1>1, <2>1, <3>1, <3>2, RowStep
    <2> QED
      BY <2>3, <2>4, <2>5
  <1>4. CASE Goto(w, Idle) /\ UNCHANGED rows
    BY <1>1, <1>2, <1>4, LocalStep
  <1> QED
    BY <1>3, <1>4 DEF ReconcileReacquire

-----------------------------------------------------------------------------
(* The theorems.                                                           *)

\* Every step keeps the invariant.
LEMMA NextKeepsIInv ==
    ASSUME IInv, [Next]_vars
    PROVE  IInv'
  <1>1. CASE \E e \in Execution :
               Create(e) \/ Cancel(e) \/ RequeueStaleQueued(e) \/ Cluster(e) \/ LeaseExpires(e)
    BY <1>1, OutsideActions, ClusterActions
  <1>2. CASE \E m \in Message : Publish(m) \/ LoseMessage(m)
    BY <1>2, QueueActions
  <1>3. ASSUME NEW w \in Worker, Controller(w) PROVE IInv'
    BY <1>3, ReceiveRequestedStep, ScanSteps, DeleteMessageStep, CreateSecretStep, CreateJobStep,
       StartSandboxStep, MonitorFinishedStep, MonitorMissingStep, MonitorRenewStep,
       MonitorDeadlineStep, PersistProjectionStep, CleanupSandboxStep, DeferRetryStep,
       ProcessCancelStep, CleanupOrphanStep, ReconcileObserveStep, RetryExpiredStep,
       ReconcileReacquireStep DEF Controller
  <1>4. ASSUME NEW w \in Worker, CreateFails(w) \/ Crash(w) PROVE IInv'
    BY <1>4, CreateFailsStep, CrashStep
  <1>5. CASE UNCHANGED vars
    <2>1. EnvTypeOK' /\ UNCHANGED <<rows, work>>
      BY <1>5 DEF vars, IInv, TypeOK, EnvTypeOK
    <2> QED
      BY <2>1, EnvStep
  <1> QED
    BY <1>1, <1>2, <1>3, <1>4, <1>5 DEF Next

\* The initial state satisfies the invariant.
LEMMA InitIInv == Init => IInv
  <1> SUFFICES ASSUME Init PROVE IInv
    OBVIOUS
  <1> USE MaxAttemptsAssumption, MaxFaultsAssumption, NoneAssumption DEF Init, RowsInit
  <1>1. TypeOK
    BY DEF TypeOK, RowsTypeOK, ExecutionStates, NoJob, Jobs, Idle, Tasks, Steps
  <1>2. RowInv
    BY DEF RowInv, RowOK, ActiveStates
  <1>3. WorkInv
    BY DEF WorkInv, WorkOK, Idle
  <1>4. ResultInv
    BY DEF ResultInv, ResultOfCurrentAttempt, GradedWithResult, Verdicts
  <1> QED
    BY <1>1, <1>2, <1>3, <1>4 DEF IInv

\* The invariant holds in every reachable state.
LEMMA Invariance == Spec => []IInv
  BY InitIInv, NextKeepsIInv, PTL DEF Spec

\* Type correctness of rows, messages, sandboxes and controllers.
THEOREM TypeCorrect == Spec => []TypeOK
  <1>1. IInv => TypeOK
    BY DEF IInv
  <1> QED
    BY <1>1, Invariance, PTL

\* The fence: whatever controllers, pods and messages survive from abandoned
\* attempts, a persisted result is the result of the attempt on record.
THEOREM Fencing == Spec => []ResultOfCurrentAttempt
  <1>1. IInv => ResultOfCurrentAttempt
    BY DEF IInv, ResultInv
  <1> QED
    BY <1>1, Invariance, PTL

\* A submission is graded exactly when its execution has a result.
THEOREM Grading == Spec => []GradedWithResult
  <1>1. IInv => GradedWithResult
    BY DEF IInv, ResultInv
  <1> QED
    BY <1>1, Invariance, PTL

\* No execution is stranded: an active row has an owner and a lease that can
\* run out, and no other row has either.
THEOREM NoneStranded == Spec => []ActiveIsLeased
  <1>1. IInv => ActiveIsLeased
    BY DEF IInv, RowInv, RowOK, ActiveIsLeased
  <1> QED
    BY <1>1, Invariance, PTL

\* persist_terminal_result never meets an illegal transition under its lock.
THEOREM PersistLegal == Spec => []PersistIsLegal
  <1>1. IInv => PersistIsLegal
    <2> SUFFICES ASSUME IInv, NEW w \in Worker, work[w].pc \in PersistSteps,
                        OwnsAttempt(work[w].ex, w, work[w].att), ~Rejected(work[w])
                 PROVE  LegalTransition(state[work[w].ex], Projection(work[w]).status)
      BY DEF PersistIsLegal
    <2>1. WorkOK(work[w], w)
      BY TaskFacts
    <2>2. CASE work[w].pc = "limit"
      BY <2>2 DEF Projection, OwnsAttempt, LegalTransition, ActiveStates, TerminalStates
    <2>3. CASE work[w].pc = "timeout"
      BY <2>1, <2>3 DEF WorkOK, Projection, OwnsAttempt, LegalTransition, TerminalStates
    <2>4. CASE work[w].pc = "persist"
      BY <2>1, <2>4
         DEF WorkOK, Projection, OwnsAttempt, LegalTransition, TerminalStates, Verdicts, Rejected
    <2> QED
      BY <2>2, <2>3, <2>4 DEF PersistSteps
  <1> QED
    BY <1>1, Invariance, PTL

-----------------------------------------------------------------------------
(* What a step does to the columns a candidate can see.                    *)

(* Nothing, except that a row being worked on may go from one active state *)
(* to the other.                                                           *)
QuietRows ==
    /\ state' \in [Execution -> ExecutionStates]
    /\ \A e \in Execution :
          state'[e] = state[e] \/ {state[e], state'[e]} \subseteq ActiveStates
    /\ UNCHANGED <<attempt, result, graded>>

(* Or one of the five row operations that are more than that.              *)
RetriesRow(e, w, a) == CanRetryMissingSandbox(e, a) /\ RetryMissingSandbox(e, w)
PersistsRow(e, w, a, p) ==
    /\ OwnsAttempt(e, w, a)
    /\ p.input \in {0, a}
    /\ p.status = "COMPLETED" => p.input = a
    /\ PersistTerminalResult(e, p)

VisibleRows ==
    \E e \in Execution :
        \/ CreateQueued(e) \/ CancelRow(e)
        \/ \E w \in Worker :
              \/ ClaimForDispatch(e, w)
              \/ \E a \in 0..MaxAttempts :
                    RetriesRow(e, w, a) \/ \E p \in Results : PersistsRow(e, w, a, p)

\* Rows that stay are quiet.
LEMMA SameRowsQuiet ==
    ASSUME IInv, UNCHANGED rows
    PROVE  QuietRows
  BY DEF QuietRows, IInv, TypeOK, RowsTypeOK, rows

\* The projection a controller is about to write stands on the attempt it
\* locked the row for, or on none.
LEMMA PersistIsVisible ==
    ASSUME IInv, NEW w \in Worker, PersistProjection(w)
    PROVE  QuietRows \/ VisibleRows
  <1>1. work[w].pc \in PersistSteps
    BY DEF PersistProjection
  <1>2. work[w] \in Tasks /\ work[w].ex \in Execution /\ WorkOK(work[w], w)
    BY <1>1, TaskFacts DEF PersistSteps
  <1>3. CASE UNCHANGED rows
    BY <1>3, SameRowsQuiet
  <1>4. CASE /\ OwnsAttempt(work[w].ex, w, work[w].att)
             /\ ~Rejected(work[w])
             /\ PersistTerminalResult(work[w].ex, Projection(work[w]))
    <2> DEFINE p == Projection(work[w])
    <2>1. /\ p \in Results
          /\ p.input \in {0, work[w].att}
          /\ p.status = "COMPLETED" => p.input = work[w].att
      <3>1. CASE work[w].pc = "persist"
        BY <1>2, <1>4, <3>1, MaxAttemptsAssumption
           DEF Projection, Rejected, Results, TerminalStates, WorkOK, Verdicts, Tasks
      <3>2. CASE work[w].pc = "timeout" \/ work[w].pc = "limit"
        BY <3>2, MaxAttemptsAssumption DEF Projection, Results, TerminalStates
      <3> QED
        BY <1>1, <3>1, <3>2 DEF PersistSteps
    <2>2. work[w].att \in 0..MaxAttempts
      BY <1>2 DEF Tasks
    <2>3. PersistsRow(work[w].ex, w, work[w].att, p)
      BY <1>4, <2>1 DEF PersistsRow
    <2> QED
      BY <1>2, <2>1, <2>2, <2>3 DEF VisibleRows
  <1> QED
    BY <1>3, <1>4 DEF PersistProjection

\* Of a controller's calls, claiming, marking, retrying, re-acquiring and
\* persisting are the ones that can move a row to another state.
LEMMA ControllerIsQuietOrVisible ==
    ASSUME IInv, NEW w \in Worker, Controller(w)
    PROVE  QuietRows \/ VisibleRows
  <1>1. ASSUME NEW e \in Execution, ReceiveRequested(w, e)
        PROVE  QuietRows \/ VisibleRows
    BY <1>1, SameRowsQuiet DEF ReceiveRequested, VisibleRows
  <1>2. CASE StartSandbox(w)
    <2>1. CASE UNCHANGED rows
      BY <2>1, SameRowsQuiet
    <2>2. CASE CanMarkRunning(work[w].ex, w) /\ MarkRunning(work[w].ex)
      <3>1. work[w].ex \in Execution
        BY <1>2, TaskFacts DEF StartSandbox, At
      <3> QED
        BY <2>2, <3>1
           DEF CanMarkRunning, MarkRunning, QuietRows, IInv, TypeOK, RowsTypeOK, ActiveStates,
               ExecutionStates
    <2> QED
      BY <1>2, <2>1, <2>2 DEF StartSandbox
  <1>3. CASE PersistProjection(w)
    BY <1>3, PersistIsVisible
  <1>4. CASE RetryExpired(w)
    <2>1. work[w].ex \in Execution /\ work[w].att \in 0..MaxAttempts
      BY <1>4, TaskFacts DEF RetryExpired, At, Tasks
    <2> QED
      BY <1>4, <2>1, SameRowsQuiet DEF RetryExpired, RetriesRow, VisibleRows
  <1>5. CASE ReconcileReacquire(w)
    <2> DEFINE t == work[w]
               found == t.pc = "adopt"
    <2>1. t.ex \in Execution
      BY <1>5, TaskFacts DEF ReconcileReacquire
    <2>2. CASE CanReacquire(t.ex, t.seen, t.att) /\ Reacquire(t.ex, w, found)
      BY <2>1, <2>2
         DEF Reacquire, QuietRows, IInv, TypeOK, RowsTypeOK, ActiveStates, ExecutionStates
    <2> QED
      BY <1>5, <2>2, SameRowsQuiet DEF ReconcileReacquire
  <1>6. CASE DeferRetry(w) \/ ProcessCancel(w) \/ CleanupOrphan(w)
    BY <1>6 DEF DeferRetry, ProcessCancel, CleanupOrphan, ExpireOwnLease, ForgetCancelledSandbox,
                ForgetOrphanSandbox, QuietRows, IInv, TypeOK, RowsTypeOK
  <1>7. CASE \/ \E e \in Execution : ReceiveCancel(w, e) \/ ScanExpired(w, e) \/ ScanOrphan(w, e)
             \/ DeleteMessage(w) \/ CreateSecret(w) \/ CreateJob(w)
             \/ MonitorFinished(w) \/ MonitorMissing(w) \/ MonitorRenew(w) \/ MonitorDeadline(w)
             \/ CleanupSandbox(w) \/ ReconcileObserve(w)
    BY <1>7, SameRowsQuiet
       DEF ReceiveCancel, ScanExpired, ScanOrphan, DeleteMessage, CreateSecret, CreateJob,
           MonitorFinished, MonitorMissing, MonitorRenew, MonitorDeadline, CleanupSandbox,
           ReconcileObserve
  <1> QED
    BY <1>1, <1>2, <1>3, <1>4, <1>5, <1>6, <1>7 DEF Controller

\* Every step is quiet or one of the five visible row operations.
LEMMA StepIsQuietOrVisible ==
    ASSUME IInv, [Next]_vars
    PROVE  QuietRows \/ VisibleRows
  <1>1. ASSUME NEW e \in Execution,
               Create(e) \/ Cancel(e) \/ RequeueStaleQueued(e) \/ Cluster(e) \/ LeaseExpires(e)
        PROVE  QuietRows \/ VisibleRows
    <2>1. CASE Create(e) \/ Cancel(e)
      BY <2>1 DEF Create, Cancel, VisibleRows
    <2>2. CASE LeaseExpires(e)
      BY <2>2 DEF LeaseExpires, QuietRows, IInv, TypeOK, RowsTypeOK
    <2>3. CASE RequeueStaleQueued(e) \/ Cluster(e)
      BY <2>3, SameRowsQuiet DEF RequeueStaleQueued, Cluster, PodStarts, PodFinishes,
                                 SandboxDeadline, SandboxReaped, PodCollected
    <2> QED
      BY <1>1, <2>1, <2>2, <2>3
  <1>2. CASE \E m \in Message : Publish(m) \/ LoseMessage(m)
    BY <1>2, SameRowsQuiet DEF Publish, LoseMessage
  <1>3. CASE \E w \in Worker : Controller(w)
    BY <1>3, ControllerIsQuietOrVisible
  <1>4. CASE \E w \in Worker : CreateFails(w) \/ Crash(w)
    BY <1>4, SameRowsQuiet DEF CreateFails, Crash
  <1>5. CASE UNCHANGED vars
    BY <1>5, SameRowsQuiet DEF vars
  <1> QED
    BY <1>1, <1>2, <1>3, <1>4, <1>5 DEF Next

\* A visible row operation starts from a row that is not terminal, and
\* touches no other.
LEMMA VisibleRowsSpareTerminal ==
    ASSUME IInv, QuietRows \/ VisibleRows, NEW e \in Execution, state[e] \in TerminalStates
    PROVE  /\ state'[e] = state[e]
           /\ attempt'[e] = attempt[e]
           /\ result'[e] = result[e]
           /\ graded'[e] = graded[e]
  <1> USE DEF IInv, TypeOK, RowsTypeOK, ActiveStates, TerminalStates
  <1>1. CASE QuietRows
    BY <1>1 DEF QuietRows
  <1>2. ASSUME NEW x \in Execution, CreateQueued(x) \/ CancelRow(x)
        PROVE  state'[e] = state[e] /\ UNCHANGED <<attempt, result, graded>>
    BY <1>2 DEF CreateQueued, CancelRow, Transition
  <1>3. ASSUME NEW x \in Execution, NEW w \in Worker, NEW a \in 0..MaxAttempts,
               ClaimForDispatch(x, w) \/ RetriesRow(x, w, a)
        PROVE  state'[e] = state[e] /\ attempt'[e] = attempt[e] /\ UNCHANGED <<result, graded>>
    BY <1>3 DEF ClaimForDispatch, RetriesRow, CanRetryMissingSandbox, RetryMissingSandbox
  <1>4. ASSUME NEW x \in Execution, NEW w \in Worker, NEW a \in 0..MaxAttempts, NEW p \in Results,
               PersistsRow(x, w, a, p)
        PROVE  /\ state'[e] = state[e] /\ attempt' = attempt
               /\ result'[e] = result[e] /\ graded'[e] = graded[e]
    BY <1>4 DEF PersistsRow, OwnsAttempt, PersistTerminalResult, Transition
  <1> QED
    BY <1>1, <1>2, <1>3, <1>4, MaxAttemptsAssumption DEF VisibleRows

\* A finished execution never changes again, whichever controllers, messages
\* and clocks still know of it.
THEOREM Finality == Spec => TerminalIsFinal
  <1>1. IInv /\ [Next]_vars =>
          [\A e \in Execution :
              state[e] \in TerminalStates =>
                  /\ state'[e] = state[e]
                  /\ attempt'[e] = attempt[e]
                  /\ result'[e] = result[e]
                  /\ graded'[e] = graded[e]]_vars
    BY StepIsQuietOrVisible, VisibleRowsSpareTerminal
  <1> QED
    BY <1>1, Invariance, PTL DEF Spec, TerminalIsFinal

-----------------------------------------------------------------------------
(* The refinement of ExecutionOutcome.                                     *)

(* The two variables of the promise that are computed from the rows.       *)
phaseMap == [e \in Execution |-> PhaseOf(state[e])]
basisMap == [e \in Execution |-> result[e].input]

\* The initial rows map to an initial state of the promise.
LEMMA InitOutcome == Init => Outcome!OutcomeInit
  <1> SUFFICES ASSUME Init PROVE Outcome!OutcomeInit
    OBVIOUS
  <1>1. phaseMap = [e \in Execution |-> "absent"]
    BY DEF Init, RowsInit, PhaseOf, ActiveStates, phaseMap
  <1>2. basisMap = [e \in Execution |-> 0]
    BY DEF Init, RowsInit, NoResult, basisMap
  <1>3. attempt = [e \in Execution |-> 0] /\ graded = [e \in Execution |-> FALSE]
    BY DEF Init, RowsInit
  <1> QED
    BY <1>1, <1>2, <1>3 DEF Outcome!OutcomeInit, phaseMap, basisMap

\* A quiet step changes nothing the promise speaks of.
LEMMA QuietOutcome ==
    ASSUME IInv, QuietRows
    PROVE  UNCHANGED Outcome!ovars
  <1>1. \A e \in Execution : PhaseOf(state'[e]) = PhaseOf(state[e])
    BY DEF QuietRows, PhaseOf, ActiveStates
  <1> QED
    BY <1>1 DEF QuietRows, Outcome!ovars

\* create_queued is the promise's Accept, cancel its Withdraw.
LEMMA CandidateOutcome ==
    ASSUME IInv, NEW x \in Execution, CreateQueued(x) \/ CancelRow(x)
    PROVE  Outcome!Accept(x) \/ Outcome!Withdraw(x)
  <1> USE DEF IInv, TypeOK, RowsTypeOK, ExecutionStates, ActiveStates, TerminalStates, PhaseOf
  <1>1. CASE CreateQueued(x)
    BY <1>1 DEF CreateQueued, Outcome!Accept
  <1>2. CASE CancelRow(x)
    BY <1>2 DEF CancelRow, Transition, LegalTransition, Outcome!Withdraw
  <1> QED
    BY <1>1, <1>2

\* claim_for_dispatch and retry_missing_sandbox are its Try: a QUEUED row has
\* used no attempt, and the attempt limit is tested before a retry.
LEMMA AttemptOutcome ==
    ASSUME IInv, NEW x \in Execution, NEW w \in Worker, NEW a \in 0..MaxAttempts,
           ClaimForDispatch(x, w) \/ RetriesRow(x, w, a)
    PROVE  Outcome!Try(x)
  <1> USE MaxAttemptsAssumption
        DEF IInv, TypeOK, RowsTypeOK, ExecutionStates, ActiveStates, TerminalStates, PhaseOf
  <1>1. CASE ClaimForDispatch(x, w)
    <2>1. attempt[x] < MaxAttempts
      BY <1>1 DEF ClaimForDispatch, RowInv, RowOK
    <2>2. phaseMap[x] = "accepted" /\ phaseMap' = [phaseMap EXCEPT ![x] = "working"]
      BY <1>1 DEF ClaimForDispatch, phaseMap
    <2> QED
      BY <1>1, <2>1, <2>2 DEF ClaimForDispatch, Outcome!Try, phaseMap
  <1>2. CASE RetriesRow(x, w, a)
    <2>1. attempt[x] < MaxAttempts
      BY <1>2 DEF RetriesRow, CanRetryMissingSandbox
    <2>2. phaseMap[x] = "working" /\ phaseMap' = [phaseMap EXCEPT ![x] = "working"]
      BY <1>2 DEF RetriesRow, CanRetryMissingSandbox, RetryMissingSandbox, phaseMap
    <2> QED
      BY <1>2, <2>1, <2>2 DEF RetriesRow, RetryMissingSandbox, Outcome!Try, phaseMap
  <1> QED
    BY <1>1, <1>2

\* persist_terminal_result is its Conclude: the verdict stands on the attempt
\* on record or on none, and the grade is written with it.
LEMMA PersistOutcome ==
    ASSUME IInv, NEW x \in Execution, NEW w \in Worker, NEW a \in 0..MaxAttempts,
           NEW p \in Results, PersistsRow(x, w, a, p)
    PROVE  \E v \in Outcome!OutcomeVerdicts, on \in 0..MaxAttempts : Outcome!Conclude(x, v, on)
  <1> USE DEF IInv, TypeOK, RowsTypeOK, ExecutionStates, ActiveStates, TerminalStates
  <1>1. p.status \in Outcome!OutcomeVerdicts /\ p.input \in 0..MaxAttempts
    BY DEF Results, Outcome!OutcomeVerdicts
  <1>2. /\ attempt[x] = a /\ state[x] \in ActiveStates
        /\ state' = [state EXCEPT ![x] = p.status]
        /\ result' = [result EXCEPT ![x] = p]
        /\ graded' = [graded EXCEPT ![x] = graded[x] \/ x \in Submits]
        /\ attempt' = attempt
    BY DEF PersistsRow, OwnsAttempt, PersistTerminalResult, Transition
  <1>3. graded[x] = FALSE
    BY <1>2 DEF ResultInv, ResultOfCurrentAttempt, GradedWithResult, Verdicts
  <1>4. Outcome!Conclude(x, p.status, p.input)
    <2>1. phaseMap[x] = "working"
      BY <1>2 DEF phaseMap, PhaseOf
    <2>2. p.input \in IF p.status = "COMPLETED" THEN {attempt[x]} ELSE {0, attempt[x]}
      BY <1>2 DEF PersistsRow
    <2>3. phaseMap' = [phaseMap EXCEPT ![x] = p.status]
      BY <1>1, <1>2 DEF phaseMap, PhaseOf, Outcome!OutcomeVerdicts
    <2>4. basisMap' = [basisMap EXCEPT ![x] = p.input]
      BY <1>1, <1>2 DEF basisMap
    <2>5. graded' = [graded EXCEPT ![x] = x \in Submits]
      <3>1. (graded[x] \/ x \in Submits) = (x \in Submits)
        BY <1>3, SMT
      <3> QED
        BY <1>2, <3>1, Zenon
    <2> QED
      BY <1>2, <2>1, <2>2, <2>3, <2>4, <2>5 DEF Outcome!Conclude, phaseMap, basisMap
  <1> QED
    BY <1>1, <1>4

\* The controllers keep the promise made to the candidate: every behaviour of
\* rows, queue, cluster and controllers is one of ExecutionOutcome.
THEOREM PromiseKept == Spec => KeepsOutcomePromise
  <1>1. IInv /\ [Next]_vars => [Outcome!OutcomeNext]_(Outcome!ovars)
    <2> SUFFICES ASSUME IInv, [Next]_vars
                 PROVE  Outcome!OutcomeNext \/ UNCHANGED Outcome!ovars
      OBVIOUS
    <2>1. CASE QuietRows
      BY <2>1, QuietOutcome
    <2>2. ASSUME NEW x \in Execution, CreateQueued(x) \/ CancelRow(x)
          PROVE  Outcome!OutcomeNext
      BY <2>2, CandidateOutcome DEF Outcome!OutcomeNext
    <2>3. ASSUME NEW x \in Execution, NEW w \in Worker, NEW a \in 0..MaxAttempts,
                 ClaimForDispatch(x, w) \/ RetriesRow(x, w, a)
          PROVE  Outcome!OutcomeNext
      BY <2>3, AttemptOutcome DEF Outcome!OutcomeNext
    <2>4. ASSUME NEW x \in Execution, NEW w \in Worker, NEW a \in 0..MaxAttempts,
                 NEW p \in Results, PersistsRow(x, w, a, p)
          PROVE  Outcome!OutcomeNext
      BY <2>4, PersistOutcome DEF Outcome!OutcomeNext
    <2>5. 0 \in 0..MaxAttempts
      BY MaxAttemptsAssumption
    <2> QED
      BY <2>1, <2>2, <2>3, <2>4, <2>5, StepIsQuietOrVisible DEF VisibleRows
  <1> QED
    BY <1>1, InitOutcome, Invariance, PTL DEF Spec, KeepsOutcomePromise, Outcome!OutcomeSpec

=============================================================================

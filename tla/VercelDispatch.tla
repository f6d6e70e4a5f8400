--------------------------- MODULE VercelDispatch ---------------------------
(***************************************************************************)
(* Execution without controllers, as vercel.json deploys it: the API       *)
(* thread that queued an execution claims it, runs it in a Vercel Sandbox  *)
(* and persists the verdict before it answers (vercel_sandbox_runtime.py). *)
(* The rows and their statements are those of ExecutionClaims; every       *)
(* thread of a deployment has the same worker id.  No process reconciles.  *)
(***************************************************************************)
EXTENDS ExecutionClaims

CONSTANTS
    Sql,        \* the executions in SQL; the others are in Python
    Thread,     \* API threads
    MaxFaults   \* bound on leases that expire and processes that stop

ASSUME VercelAssumption == Sql \subseteq Execution /\ MaxFaults \in Nat

VARIABLES
    thread,   \* the dispatch each thread is at
    box,      \* the sandbox of each thread
    runs,     \* how often the candidate's program of an execution ran
    faults    \* faults so far

vvars == <<rows, thread, box, runs, faults>>

\* Steps that call the Vercel API; any of the calls may fail.
Calls == {"create", "bootstrap", "seal", "upload", "execute", "read"}

Idle == [pc |-> "idle", e |-> None, w |-> None, a |-> 0, log |-> "none",
         projection |-> NoResult]
NoBox == [net |-> "none", source |-> FALSE]

VercelInit ==
    /\ RowsInit
    /\ thread = [t \in Thread |-> Idle]
    /\ box = [t \in Thread |-> NoBox]
    /\ runs = [e \in Execution |-> 0]
    /\ faults = 0

Goto(t, pc) == thread' = [thread EXCEPT ![t].pc = pc]
Return(t) == thread' = [thread EXCEPT ![t] = Idle]

-----------------------------------------------------------------------------
(* The candidate's requests.                                               *)

\* queue_run or queue_submit, then dispatch_vercel_execution; a repeated
\* request finds its execution and dispatches it again.
QueueForQuestion(t, e, w) ==
    /\ thread[t] = Idle
    /\ IF state[e] = "ABSENT" THEN CreateQueued(e) ELSE UNCHANGED rows
    /\ thread' = [thread EXCEPT ![t] = [Idle EXCEPT !.pc = "claim", !.e = e, !.w = w]]
    /\ UNCHANGED <<box, runs, faults>>

CancelExecution(e) ==
    /\ state[e] # "ABSENT"
    /\ CancelRow(e)
    /\ UNCHANGED <<thread, box, runs, faults>>

-----------------------------------------------------------------------------
(* dispatch_vercel_execution.                                              *)

\* Mutant: an execution that is being dispatched is claimed once more.
ClaimUnfinished(t) ==
    LET d == thread[t] IN
    /\ d.pc = "claim"
    /\ IF state[d.e] \in {"QUEUED", "DISPATCHING"}
         THEN /\ state' = [state EXCEPT ![d.e] = "DISPATCHING"]
              /\ attempt' = [attempt EXCEPT ![d.e] = 1]
              /\ TakeLease(d.e, d.w)
              /\ thread' = [thread EXCEPT ![t].pc = "create", ![t].a = 1]
              /\ UNCHANGED <<job_name, result, graded>>
         ELSE Return(t) /\ UNCHANGED rows
    /\ UNCHANGED <<box, runs, faults>>

\* claim_for_dispatch, with the package read in the same transaction.
Claim(t) ==
    LET d == thread[t] IN
    /\ d.pc = "claim"
    /\ IF state[d.e] = "QUEUED"
         THEN /\ ClaimForDispatch(d.e, d.w)
              /\ thread' = [thread EXCEPT ![t].pc = "create", ![t].a = attempt[d.e] + 1]
         ELSE Return(t) /\ UNCHANGED rows
    /\ UNCHANGED <<box, runs, faults>>

\* create: a SQL sandbox may fetch packages, a Python sandbox nothing.
CreateSandbox(t) ==
    /\ thread[t].pc = "create"
    /\ box' = [box EXCEPT ![t].net = IF thread[t].e \in Sql THEN "packages" ELSE "closed"]
    /\ Goto(t, IF thread[t].e \in Sql THEN "bootstrap" ELSE "upload")
    /\ UNCHANGED <<rows, runs, faults>>

\* Mutant: the files go in before the network is closed.
BootstrapAndUpload(t) ==
    /\ thread[t].pc = "bootstrap"
    /\ box' = [box EXCEPT ![t].source = TRUE]
    /\ Goto(t, "seal")
    /\ UNCHANGED <<rows, runs, faults>>

Bootstrap(t) ==
    /\ thread[t].pc = "bootstrap"
    /\ Goto(t, "seal")
    /\ UNCHANGED <<rows, box, runs, faults>>

\* update_network_policy("deny-all")
UpdateNetworkPolicy(t) ==
    /\ thread[t].pc = "seal"
    /\ box' = [box EXCEPT ![t].net = "closed"]
    /\ Goto(t, "upload")
    /\ UNCHANGED <<rows, runs, faults>>

UploadFiles(t) ==
    /\ thread[t].pc = "upload"
    /\ box' = [box EXCEPT ![t].source = TRUE]
    /\ Goto(t, "execute")
    /\ UNCHANGED <<rows, runs, faults>>

Execute(t) ==
    /\ thread[t].pc = "execute"
    /\ runs' = [runs EXCEPT ![thread[t].e] = @ + 1]
    /\ Goto(t, "read")
    /\ UNCHANGED <<rows, box, faults>>

\* The log holds a result of this attempt, or something else.
ReadFile(t) ==
    /\ thread[t].pc = "read"
    /\ \E found \in {"good", "bad"} :
          thread' = [thread EXCEPT ![t].pc = "stop", ![t].log = found]
    /\ UNCHANGED <<rows, box, runs, faults>>

Projection(status, input) == [status |-> status, input |-> input]

\* A call fails: VercelSandboxError, on its way through finally.  A command
\* whose answer is lost may have run.
CallFails(t) ==
    LET d == thread[t] IN
    /\ d.pc \in Calls
    /\ thread' = [thread EXCEPT ![t].pc = IF d.pc = "create" THEN "persist" ELSE "stop",
                                ![t].log = "error",
                                ![t].projection = Projection("FAILED", 0)]
    /\ \/ UNCHANGED runs
       \/ d.pc = "execute" /\ runs' = [runs EXCEPT ![d.e] = @ + 1]
    /\ UNCHANGED <<rows, box, faults>>

\* stop swallows its own failure; Vercel ends the sandbox by its timeout.
StopSandbox(t) ==
    /\ thread[t].pc = "stop"
    /\ box' = [box EXCEPT ![t] = NoBox]
    /\ Goto(t, IF thread[t].log = "error" THEN "persist" ELSE "mark")
    /\ UNCHANGED <<rows, runs, faults>>

\* The program has run before mark_running asks whether it still may.
MarkRunningAfterRun(t) ==
    LET d == thread[t] IN
    /\ d.pc = "mark"
    /\ IF CanMarkRunning(d.e, d.w) THEN MarkRunning(d.e) /\ Goto(t, "compare")
                                   ELSE Return(t) /\ UNCHANGED rows
    /\ UNCHANGED <<box, runs, faults>>

\* Mutant: the TrustedResultError of a bad log is not caught.
CompareGoodOnly(t) ==
    LET d == thread[t] IN
    /\ d.pc = "compare"
    /\ IF d.log = "good"
         THEN \E s \in {"COMPLETED", "FAILED", "TIMEOUT"} :
                 thread' = [thread EXCEPT ![t].pc = "persist", ![t].projection = Projection(s, d.a)]
         ELSE Return(t)
    /\ UNCHANGED <<rows, box, runs, faults>>

\* parse_runner_result, load_expected_tests and trusted_compare.
Compare(t) ==
    LET d == thread[t] IN
    /\ d.pc = "compare"
    /\ \E p \in IF d.log = "good" THEN {Projection(s, d.a) : s \in {"COMPLETED", "FAILED", "TIMEOUT"}}
                                  ELSE {Projection("FAILED", 0)} :
          thread' = [thread EXCEPT ![t].pc = "persist", ![t].projection = p]
    /\ UNCHANGED <<rows, box, runs, faults>>

\* Mutant: the owner is not looked at.
PersistAnyway(t) ==
    LET d == thread[t] IN
    /\ d.pc = "persist"
    /\ state' = [state EXCEPT ![d.e] = d.projection.status]
    /\ result' = [result EXCEPT ![d.e] = d.projection]
    /\ graded' = [graded EXCEPT ![d.e] = d.e \in Submits]
    /\ Return(t)
    /\ UNCHANGED <<attempt, owner, lease, job_name, box, runs, faults>>

\* _persist_projection
PersistProjection(t) ==
    LET d == thread[t] IN
    /\ d.pc = "persist"
    /\ IF OwnsAttempt(d.e, d.w, d.a) THEN PersistTerminalResult(d.e, d.projection)
                                     ELSE UNCHANGED rows
    /\ Return(t)
    /\ UNCHANGED <<box, runs, faults>>

Dispatch(t) ==
    \/ Claim(t) \/ CreateSandbox(t) \/ Bootstrap(t) \/ UpdateNetworkPolicy(t)
    \/ UploadFiles(t) \/ Execute(t) \/ ReadFile(t) \/ StopSandbox(t)
    \/ MarkRunningAfterRun(t) \/ Compare(t) \/ PersistProjection(t)

-----------------------------------------------------------------------------
(* Faults.                                                                 *)

\* The 180 seconds of the lease pass; the calls of a SQL dispatch may take
\* longer, and nothing renews it.
LeaseExpires(e) ==
    /\ faults < MaxFaults
    /\ lease[e] = "live"
    /\ lease' = [lease EXCEPT ![e] = "expired"]
    /\ faults' = faults + 1
    /\ UNCHANGED <<state, attempt, owner, job_name, result, graded, thread, box, runs>>

\* The function is stopped (maxDuration), or an exception nobody catches.
ProcessStops(t) ==
    /\ faults < MaxFaults
    /\ thread[t] # Idle
    /\ Return(t)
    /\ box' = [box EXCEPT ![t] = NoBox]
    /\ faults' = faults + 1
    /\ UNCHANGED <<rows, runs>>

-----------------------------------------------------------------------------
VercelNext ==
    \/ \E t \in Thread : Dispatch(t) \/ CallFails(t) \/ ProcessStops(t)
    \/ \E t \in Thread, e \in Execution, w \in Worker : QueueForQuestion(t, e, w)
    \/ \E e \in Execution : CancelExecution(e) \/ LeaseExpires(e)

VercelSpec == VercelInit /\ [][VercelNext]_vvars

(* A thread that is not stopped goes on, each call ending in an answer or  *)
(* an error, and the client repeats its request with the same key.         *)
FairVercelSpec ==
    /\ VercelSpec
    /\ \A t \in Thread : WF_vvars(Dispatch(t))
    /\ \A e \in Execution : WF_vvars(\E t \in Thread, w \in Worker : QueueForQuestion(t, e, w))

-----------------------------------------------------------------------------
(* Properties.                                                             *)

\* A candidate's program runs at most once per accepted execution, however
\* often the request is repeated while the first dispatch is under way: the
\* worker id is the same, so only claim_for_dispatch's state test decides.
RunsAtMostOnce == \A e \in Execution : runs[e] <= 1

\* "Candidate source is not uploaded until after the policy is replaced with
\* deny-all" (vercel_sandbox_runtime.py): no sandbox has both.
SourceNeverMeetsEgress == \A t \in Thread : box[t].source => box[t].net = "closed"

Abstract == INSTANCE ExecutionOutcome WITH
    MaxTries <- MaxAttempts,
    phase <- [e \in Execution |->
                CASE state[e] = "ABSENT" -> "absent"
                  [] state[e] = "QUEUED" -> "accepted"
                  [] state[e] \in ActiveStates -> "working"
                  [] OTHER -> state[e]],
    try <- attempt,
    basis <- [e \in Execution |-> result[e].input],
    grade <- graded

\* The inline dispatch keeps the same promise as the controllers: one verdict,
\* on the current attempt, never over a cancellation.
KeepsInlinePromise == Abstract!OutcomeSpec

\* "Verify each execution converges to exactly one durable terminal state":
\* an accepted execution ends, also after a process stopped or a lease expired.
ExecutionConverges ==
    \A e \in Execution : state[e] = "QUEUED" ~> state[e] \in TerminalStates

\* What does hold: an accepted execution ends, whatever the Vercel API answers,
\* unless a process stopped or a lease expired.
ConvergesUndisturbed ==
    \A e \in Execution : state[e] = "QUEUED" ~> (state[e] \in TerminalStates \/ faults > 0)
=============================================================================

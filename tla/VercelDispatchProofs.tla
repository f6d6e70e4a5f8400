------------------------ MODULE VercelDispatchProofs ------------------------
(***************************************************************************)
(* Proofs about VercelDispatch for every set of executions, threads and    *)
(* worker ids and every number of faults.                                  *)
(***************************************************************************)
EXTENDS VercelDispatch, TLAPS

-----------------------------------------------------------------------------
(* Types.                                                                  *)

DispatchSteps == {"idle", "claim", "stop", "mark", "compare", "persist"} \cup Calls
Dispatches == [pc : DispatchSteps, e : Execution \cup {None}, w : Worker \cup {None},
               a : 0..MaxAttempts, log : {"none", "good", "bad", "error"},
               projection : Results \cup {NoResult}]
Boxes == [net : {"none", "packages", "closed"}, source : BOOLEAN]

VercelTypeOK ==
    /\ RowsTypeOK
    /\ thread \in [Thread -> Dispatches]
    /\ box \in [Thread -> Boxes]
    /\ runs \in [Execution -> Nat]

(* A thread that is not idle serves an execution under a worker id, and    *)
(* what it is about to persist, at once or after stopping a sandbox that   *)
(* failed, stands on its own attempt or on none.                           *)
Persists(d) == d.pc = "persist" \/ (d.pc = "stop" /\ d.log = "error")
BusyOK(t) ==
    /\ thread[t].pc # "idle" => thread[t].e \in Execution /\ thread[t].w \in Worker
    /\ Persists(thread[t]) =>
          /\ thread[t].projection \in Results
          /\ thread[t].projection.input \in {0, thread[t].a}
          /\ thread[t].projection.status = "COMPLETED" =>
                thread[t].projection.input = thread[t].a

(* A row that no dispatch has claimed has used no attempt and was never    *)
(* run; a row that is not finished has no grade.                           *)
RowOK(e) ==
    /\ state[e] \in {"ABSENT", "QUEUED"} => attempt[e] = 0 /\ runs[e] = 0
    /\ state[e] \notin TerminalStates => ~graded[e]

(* Before the candidate's program: the dispatch that claimed an execution  *)
(* and has not run it yet is the only one of its execution.                *)
BeforeRun == {"create", "bootstrap", "seal", "upload", "execute"}
UnrunOK(t) ==
    thread[t].pc \in BeforeRun =>
        /\ runs[thread[t].e] = 0
        /\ state[thread[t].e] \notin {"ABSENT", "QUEUED"}
AloneOK(t, u) ==
    (/\ thread[t].pc \in BeforeRun
     /\ thread[u].pc \in BeforeRun
     /\ thread[t].e = thread[u].e) => t = u

(* The sandbox of a thread: none before create and after stop, no source   *)
(* before the upload, no open network from the upload on.                  *)
BoxOK(t) ==
    /\ thread[t].pc \notin Calls \cup {"stop"} => box[t] = NoBox
    /\ thread[t].pc = "create" => box[t] = NoBox
    /\ thread[t].pc \in {"bootstrap", "seal"} => ~box[t].source
    /\ thread[t].pc \in {"upload", "execute", "read"} => box[t].net = "closed"
    /\ box[t].source => box[t].net = "closed"

ThreadInv == \A t \in Thread : BusyOK(t) /\ UnrunOK(t) /\ BoxOK(t)
AloneInv == \A t, u \in Thread : AloneOK(t, u)
RowInv == \A e \in Execution : RowOK(e) /\ runs[e] <= 1

VercelInv == VercelTypeOK /\ ThreadInv /\ AloneInv /\ RowInv

-----------------------------------------------------------------------------
(* A step of one thread.                                                   *)

\* What a step leaves of the rows: nothing claimed becomes unclaimed again.
RowsKept ==
    /\ RowsTypeOK'
    /\ \A e \in Execution :
          /\ state[e] \notin {"ABSENT", "QUEUED"} => state'[e] \notin {"ABSENT", "QUEUED"}
          /\ state'[e] \in {"ABSENT", "QUEUED"} => attempt'[e] = 0
          /\ state'[e] \notin TerminalStates => ~graded'[e]

\* A thread goes on to dispatch d with sandbox b, at most out of the steps
\* before the run, and runs nothing: the other threads notice only the rows.
LEMMA QuietThreadStep ==
    ASSUME VercelInv, NEW t \in Thread, NEW d \in Dispatches, NEW b \in Boxes, RowsKept,
           thread' = [thread EXCEPT ![t] = d], box' = [box EXCEPT ![t] = b], UNCHANGED runs,
           d.pc \in BeforeRun => thread[t].pc \in BeforeRun /\ d.e = thread[t].e,
           BusyOK(t)', BoxOK(t)'
    PROVE  VercelInv'
  <1> USE DEF VercelInv
  <1>1. VercelTypeOK'
    BY DEF VercelTypeOK, RowsKept
  <1>2. RowInv'
    BY DEF RowsKept, RowInv, RowOK, VercelTypeOK
  <1>3. ASSUME NEW u \in Thread, u # t
        PROVE  BusyOK(u)' /\ UnrunOK(u)' /\ BoxOK(u)'
    <2>1. thread'[u] = thread[u] /\ box'[u] = box[u]
      BY <1>3 DEF VercelTypeOK
    <2>2. BusyOK(u) /\ UnrunOK(u) /\ BoxOK(u)
      BY DEF ThreadInv
    <2>3. thread[u].pc \in BeforeRun => thread[u].e \in Execution
      BY <2>2 DEF BusyOK, Persists, BeforeRun
    <2> QED
      BY <2>1, <2>2, <2>3 DEF BusyOK, Persists, UnrunOK, BoxOK, RowsKept
  <1>4. UnrunOK(t)'
    <2>1. thread'[t] = d
      BY DEF VercelTypeOK
    <2>2. d.pc \in BeforeRun => d.e \in Execution
      BY DEF ThreadInv, BusyOK, Persists, BeforeRun
    <2> QED
      BY <2>1, <2>2 DEF ThreadInv, UnrunOK, RowsKept
  <1>5. AloneInv'
    BY DEF AloneInv, AloneOK, VercelTypeOK
  <1> QED
    BY <1>1, <1>2, <1>3, <1>4, <1>5 DEF ThreadInv

-----------------------------------------------------------------------------
(* The statements of ExecutionClaims the deployment uses.                  *)

\* A transaction that changed nothing.
LEMMA SameRowsKept ==
    ASSUME VercelInv, UNCHANGED rows
    PROVE  RowsKept
  BY DEF VercelInv, VercelTypeOK, RowsTypeOK, RowInv, RowOK, RowsKept, rows

\* create_queued, cancel and a lease that runs out.
LEMMA CandidateRowsKept ==
    ASSUME VercelInv, NEW e \in Execution,
           \/ CreateQueued(e) \/ CancelRow(e)
           \/ /\ lease' = [lease EXCEPT ![e] = "expired"]
              /\ UNCHANGED <<state, attempt, owner, job_name, result, graded>>
    PROVE  RowsKept
  BY NoneAssumption, MaxAttemptsAssumption
     DEF VercelInv, VercelTypeOK, RowsTypeOK, RowInv, RowOK, RowsKept, CreateQueued, CancelRow,
         Transition, LegalTransition, ExecutionStates, ActiveStates, TerminalStates

\* claim_for_dispatch uses the first attempt.
LEMMA ClaimRowsKept ==
    ASSUME VercelInv, NEW e \in Execution, NEW w \in Worker, ClaimForDispatch(e, w)
    PROVE  RowsKept /\ attempt[e] = 0 /\ state' = [state EXCEPT ![e] = "DISPATCHING"]
  BY NoneAssumption, MaxAttemptsAssumption
     DEF VercelInv, VercelTypeOK, RowsTypeOK, RowInv, RowOK, RowsKept, ClaimForDispatch,
         TakeLease, ExecutionStates, ActiveStates, TerminalStates

\* mark_running.
LEMMA MarkRowsKept ==
    ASSUME VercelInv, NEW e \in Execution, NEW w \in Worker, CanMarkRunning(e, w), MarkRunning(e)
    PROVE  RowsKept
  BY NoneAssumption, MaxAttemptsAssumption
     DEF VercelInv, VercelTypeOK, RowsTypeOK, RowInv, RowOK, RowsKept, CanMarkRunning,
         MarkRunning, ExecutionStates, ActiveStates, TerminalStates

\* persist_terminal_result and finalize_submission.
LEMMA PersistRowsKept ==
    ASSUME VercelInv, NEW e \in Execution, NEW w \in Worker, NEW a, NEW p \in Results,
           OwnsAttempt(e, w, a), PersistTerminalResult(e, p)
    PROVE  RowsKept
  BY NoneAssumption, MaxAttemptsAssumption, SubmitsAssumption
     DEF VercelInv, VercelTypeOK, RowsTypeOK, RowInv, RowOK, RowsKept, OwnsAttempt,
         PersistTerminalResult, Transition, LegalTransition, Results, ExecutionStates,
         ActiveStates, TerminalStates

-----------------------------------------------------------------------------
(* The actions.                                                            *)

\* What is known of a thread.
LEMMA ThreadFacts ==
    ASSUME VercelInv, NEW t \in Thread
    PROVE  /\ thread[t] \in Dispatches /\ box[t] \in Boxes
           /\ BusyOK(t) /\ UnrunOK(t) /\ BoxOK(t)
           /\ Idle \in Dispatches /\ NoBox \in Boxes
  BY MaxAttemptsAssumption
     DEF VercelInv, VercelTypeOK, ThreadInv, Idle, NoBox, Dispatches, DispatchSteps, Boxes

\* A thread that ends its request with whatever rows it leaves.
LEMMA ReturnStep ==
    ASSUME VercelInv, NEW t \in Thread, RowsKept, Return(t), UNCHANGED runs,
           box' = [box EXCEPT ![t] = NoBox]
    PROVE  VercelInv'
  <1>1. BusyOK(t)' /\ BoxOK(t)'
    BY DEF Return, VercelInv, VercelTypeOK, BusyOK, Persists, BoxOK, Idle, NoBox, Calls
  <1>2. Idle.pc \notin BeforeRun
    BY DEF Idle, BeforeRun
  <1> QED
    BY <1>1, <1>2, ThreadFacts, QuietThreadStep DEF Return

\* A request is queued, or finds the execution it is about.
LEMMA QueueStep ==
    ASSUME VercelInv, NEW t \in Thread, NEW e \in Execution, NEW w \in Worker,
           QueueForQuestion(t, e, w)
    PROVE  VercelInv'
  <1> DEFINE d == [Idle EXCEPT !.pc = "claim", !.e = e, !.w = w]
  <1>1. RowsKept
    BY SameRowsKept, CandidateRowsKept DEF QueueForQuestion
  <1>2. d \in Dispatches /\ d.pc = "claim" /\ d.e = e /\ d.w = w
    <2>1. 0 \in 0..MaxAttempts
      BY MaxAttemptsAssumption
    <2> QED
      BY <2>1 DEF Idle, Dispatches, DispatchSteps
  <1>3. thread' = [thread EXCEPT ![t] = d] /\ box' = [box EXCEPT ![t] = box[t]]
    BY DEF QueueForQuestion, VercelInv, VercelTypeOK
  <1>4. BusyOK(t)' /\ BoxOK(t)'
    <2>1. thread'[t] = d /\ box'[t] = box[t] /\ box[t] = NoBox
      BY <1>3, ThreadFacts
         DEF QueueForQuestion, VercelInv, VercelTypeOK, BoxOK, Idle, Calls
    <2> QED
      BY <1>2, <2>1 DEF BusyOK, Persists, BoxOK, NoBox, Calls
  <1> QED
    BY <1>1, <1>2, <1>3, <1>4, ThreadFacts, QuietThreadStep DEF QueueForQuestion, BeforeRun

\* The state test of claim_for_dispatch: an execution that is still QUEUED was
\* never run and no other dispatch is about to run it.
LEMMA ClaimStep ==
    ASSUME VercelInv, NEW t \in Thread, Claim(t)
    PROVE  VercelInv'
  <1> DEFINE e == thread[t].e
             d == [thread[t] EXCEPT !.pc = "create", !.a = attempt[e] + 1]
  <1>1. e \in Execution /\ thread[t].w \in Worker /\ box[t] = NoBox /\ UNCHANGED <<box, runs>>
    BY ThreadFacts DEF Claim, BusyOK, Persists, BoxOK, Calls
  <1>2. CASE Return(t) /\ UNCHANGED rows
    <2>1. box' = [box EXCEPT ![t] = NoBox]
      BY <1>1 DEF VercelInv, VercelTypeOK
    <2> QED
      BY <1>1, <1>2, <2>1, SameRowsKept, ReturnStep
  <1>3. CASE state[e] = "QUEUED" /\ ClaimForDispatch(e, thread[t].w) /\ thread' = [thread EXCEPT ![t] = d]
    <2>1. RowsKept /\ attempt[e] = 0 /\ state' = [state EXCEPT ![e] = "DISPATCHING"]
      BY <1>1, <1>3, ClaimRowsKept
    <2>2. d \in Dispatches /\ d.pc = "create" /\ d.e = e /\ d.w = thread[t].w
      <3>1. attempt[e] + 1 \in 0..MaxAttempts
        BY <2>1, MaxAttemptsAssumption
      <3>2. thread[t] \in Dispatches
        BY ThreadFacts
      <3> QED
        BY <1>1, <3>1, <3>2 DEF Dispatches, DispatchSteps, Calls
    <2> HIDE DEF d
    <2>3. runs[e] = 0 /\ state'[e] = "DISPATCHING"
      BY <1>1, <1>3, <2>1 DEF VercelInv, VercelTypeOK, RowsTypeOK, RowInv, RowOK
    <2>4. thread'[t] = d /\ \A u \in Thread : u # t => thread'[u] = thread[u]
      BY <1>3 DEF VercelInv, VercelTypeOK
    <2>5. VercelTypeOK'
      BY <1>1, <1>3, <2>1, <2>2 DEF VercelInv, VercelTypeOK, RowsKept
    <2>6. RowInv'
      BY <1>1, <2>1, <2>3 DEF VercelInv, RowsKept, RowInv, RowOK, VercelTypeOK
    <2>7. ASSUME NEW u \in Thread PROVE BusyOK(u)' /\ UnrunOK(u)' /\ BoxOK(u)'
      <3>1. CASE u = t
        <4>1. /\ thread'[t].pc = "create" /\ thread'[t].e = e /\ thread'[t].w \in Worker
              /\ box'[t] = NoBox /\ runs'[e] = 0
          BY <1>1, <2>2, <2>3, <2>4
        <4> QED
          BY <1>1, <2>3, <3>1, <4>1 DEF BusyOK, Persists, UnrunOK, BoxOK, NoBox, Calls
      <3>2. CASE u # t
        <4>1. BusyOK(u) /\ UnrunOK(u) /\ BoxOK(u)
          BY ThreadFacts
        <4>2. thread[u].pc \in BeforeRun => thread[u].e \in Execution
          BY <4>1 DEF BusyOK, Persists, BeforeRun
        <4> QED
          BY <1>1, <2>1, <2>4, <3>2, <4>1, <4>2 DEF BusyOK, Persists, UnrunOK, BoxOK, RowsKept
      <3> QED
        BY <3>1, <3>2
    <2>8. AloneInv'
      <3>1. ASSUME NEW u \in Thread, u # t, thread[u].pc \in BeforeRun PROVE thread[u].e # e
        BY <1>3, <3>1, ThreadFacts DEF UnrunOK
      <3>2. ASSUME NEW u \in Thread, NEW v \in Thread PROVE AloneOK(u, v)'
        <4>1. AloneOK(u, v)
          BY DEF VercelInv, AloneInv
        <4>2. d.pc = "create" /\ d.e = e
          BY <2>2
        <4> HIDE DEF e
        <4> QED
          BY <2>4, <3>1, <4>1, <4>2 DEF AloneOK
      <3> QED
        BY <3>2 DEF AloneInv
    <2> QED
      BY <2>5, <2>6, <2>7, <2>8 DEF VercelInv, ThreadInv
  <1>4. thread' = [thread EXCEPT ![t].pc = "create", ![t].a = attempt[e] + 1]
           => thread' = [thread EXCEPT ![t] = d]
    BY ThreadFacts DEF VercelInv, VercelTypeOK, Dispatches
  <1> QED
    BY <1>2, <1>3, <1>4 DEF Claim

\* The dispatch of a thread at its next step.
LEMMA MoveFacts ==
    ASSUME VercelInv, NEW t \in Thread, NEW pc \in DispatchSteps, Goto(t, pc)
    PROVE  /\ [thread[t] EXCEPT !.pc = pc] \in Dispatches
           /\ thread' = [thread EXCEPT ![t] = [thread[t] EXCEPT !.pc = pc]]
           /\ thread'[t] = [thread[t] EXCEPT !.pc = pc]
           /\ thread'[t].pc = pc /\ thread'[t].e = thread[t].e /\ thread'[t].w = thread[t].w
           /\ thread'[t].a = thread[t].a /\ thread'[t].projection = thread[t].projection
  <1>1. thread[t] \in Dispatches
    BY ThreadFacts
  <1>2. [thread[t] EXCEPT !.pc = pc] \in Dispatches
    BY <1>1 DEF Dispatches
  <1>3. thread' = [thread EXCEPT ![t] = [thread[t] EXCEPT !.pc = pc]]
    BY DEF Goto
  <1>4. thread'[t] = [thread[t] EXCEPT !.pc = pc]
    BY <1>3 DEF VercelInv, VercelTypeOK
  <1> QED
    BY <1>1, <1>2, <1>3, <1>4 DEF Dispatches

\* The calls before the program runs: create, bootstrap, seal and upload.
LEMMA PrepareStep ==
    ASSUME VercelInv, NEW t \in Thread,
           CreateSandbox(t) \/ Bootstrap(t) \/ UpdateNetworkPolicy(t) \/ UploadFiles(t)
    PROVE  VercelInv'
  <1>0. RowsKept /\ UNCHANGED runs
    BY SameRowsKept DEF CreateSandbox, Bootstrap, UpdateNetworkPolicy, UploadFiles
  <1>1. PICK pc \in {"bootstrap", "seal", "upload", "execute"}, b \in Boxes :
           /\ Goto(t, pc) /\ box' = [box EXCEPT ![t] = b]
           /\ pc = "upload" => b.net = "closed"
           /\ pc = "execute" => b.net = "closed"
           /\ pc \in {"bootstrap", "seal"} => ~b.source
           /\ b.source => b.net = "closed"
    <2>1. box[t] \in Boxes /\ BoxOK(t)
      BY ThreadFacts
    <2>2. CASE CreateSandbox(t)
      <3> DEFINE n == IF thread[t].e \in Sql THEN "packages" ELSE "closed"
                 b == [box[t] EXCEPT !.net = n]
      <3>1. ~box[t].source
        BY <2>1, <2>2 DEF CreateSandbox, BoxOK, NoBox
      <3>2. b \in Boxes /\ ~b.source /\ (thread[t].e \notin Sql => b.net = "closed")
        <4>1. n \in {"packages", "closed"} /\ (thread[t].e \notin Sql => n = "closed")
          OBVIOUS
        <4> HIDE DEF n
        <4> QED
          BY <2>1, <3>1, <4>1 DEF Boxes
      <3>3. box' = [box EXCEPT ![t] = b]
        BY <2>2 DEF CreateSandbox
      <3>4. Goto(t, IF thread[t].e \in Sql THEN "bootstrap" ELSE "upload")
        BY <2>2 DEF CreateSandbox
      <3> HIDE DEF b
      <3> QED
        BY <3>2, <3>3, <3>4
    <2>3. CASE Bootstrap(t)
      <3>1. box' = [box EXCEPT ![t] = box[t]]
        BY <2>3 DEF Bootstrap, VercelInv, VercelTypeOK
      <3> QED
        BY <2>1, <2>3, <3>1 DEF Bootstrap, BoxOK
    <2>4. CASE UpdateNetworkPolicy(t)
      <3> DEFINE b == [box[t] EXCEPT !.net = "closed"]
      <3>1. b \in Boxes /\ b.net = "closed"
        BY <2>1 DEF Boxes
      <3>2. box' = [box EXCEPT ![t] = b] /\ Goto(t, "upload")
        BY <2>4 DEF UpdateNetworkPolicy
      <3> HIDE DEF b
      <3> QED
        BY <3>1, <3>2
    <2>5. CASE UploadFiles(t)
      <3> DEFINE b == [box[t] EXCEPT !.source = TRUE]
      <3>1. b \in Boxes /\ b.net = "closed"
        BY <2>1, <2>5 DEF Boxes, UploadFiles, BoxOK
      <3>2. box' = [box EXCEPT ![t] = b] /\ Goto(t, "execute")
        BY <2>5 DEF UploadFiles
      <3> HIDE DEF b
      <3> QED
        BY <3>1, <3>2
    <2> QED
      BY <2>2, <2>3, <2>4, <2>5
  <1>2. thread[t].pc \in BeforeRun
    BY DEF CreateSandbox, Bootstrap, UpdateNetworkPolicy, UploadFiles, BeforeRun
  <1>3. pc \in DispatchSteps
    BY <1>1 DEF DispatchSteps, Calls
  <1> DEFINE d == [thread[t] EXCEPT !.pc = pc]
  <1>4. /\ d \in Dispatches /\ thread' = [thread EXCEPT ![t] = d] /\ d.e = thread[t].e
        /\ thread'[t].pc = pc /\ thread'[t].e = thread[t].e /\ thread'[t].w = thread[t].w
    BY <1>1, <1>3, MoveFacts
  <1>5. BusyOK(t)'
    BY <1>1, <1>2, <1>4, ThreadFacts DEF BusyOK, Persists, BeforeRun
  <1>6. BoxOK(t)'
    <2>1. box'[t] = b
      BY <1>1 DEF VercelInv, VercelTypeOK
    <2> QED
      BY <1>1, <1>4, <2>1 DEF BoxOK, Calls
  <1> HIDE DEF d
  <1> QED
    BY <1>0, <1>1, <1>2, <1>4, <1>5, <1>6, QuietThreadStep

\* The program runs, as far as it was not run before: this dispatch is the
\* only one of its execution that has not run it yet.
LEMMA RunStep ==
    ASSUME VercelInv, NEW t \in Thread, NEW d \in Dispatches, thread[t].pc = "execute",
           UNCHANGED <<rows, box>>, thread' = [thread EXCEPT ![t] = d],
           d.pc \in {"read", "stop"}, d.e = thread[t].e, d.w = thread[t].w,
           runs' = [runs EXCEPT ![thread[t].e] = @ + 1], BusyOK(t)'
    PROVE  VercelInv'
  <1> DEFINE e == thread[t].e
  <1>1. e \in Execution /\ thread[t].w \in Worker /\ runs[e] = 0 /\ state[e] \notin {"ABSENT", "QUEUED"}
    BY ThreadFacts DEF BusyOK, Persists, UnrunOK, BeforeRun
  <1>2. RowsKept
    BY SameRowsKept
  <1>3. runs'[e] = 1 /\ \A x \in Execution : x # e => runs'[x] = runs[x]
    BY <1>1 DEF VercelInv, VercelTypeOK
  <1>4. thread'[t] = d /\ \A u \in Thread : u # t => thread'[u] = thread[u]
    BY DEF VercelInv, VercelTypeOK
  <1>5. VercelTypeOK'
    BY <1>1, <1>2 DEF VercelInv, VercelTypeOK, RowsKept
  <1>6. RowInv'
    BY <1>1, <1>2, <1>3 DEF VercelInv, RowInv, RowOK, RowsKept, rows
  <1>7. ASSUME NEW u \in Thread PROVE BusyOK(u)' /\ UnrunOK(u)' /\ BoxOK(u)'
    <2>1. CASE u = t
      BY <1>1, <1>4, <2>1, ThreadFacts DEF BusyOK, Persists, UnrunOK, BoxOK, BeforeRun, Calls
    <2>2. CASE u # t
      <3>1. BusyOK(u) /\ UnrunOK(u) /\ BoxOK(u)
        BY ThreadFacts
      <3>2. thread[u].pc \in BeforeRun => thread[u].e # e /\ thread[u].e \in Execution
        BY <2>2, <3>1 DEF VercelInv, AloneInv, AloneOK, BusyOK, Persists, BeforeRun
      <3> QED
        BY <1>3, <1>4, <2>2, <3>1, <3>2 DEF BusyOK, Persists, UnrunOK, BoxOK, rows
    <2> QED
      BY <2>1, <2>2
  <1>8. AloneInv'
    BY <1>4 DEF VercelInv, AloneInv, AloneOK, BeforeRun
  <1> QED
    BY <1>5, <1>6, <1>7, <1>8 DEF VercelInv, ThreadInv

\* run_command, when its answer arrives.
LEMMA ExecuteStep ==
    ASSUME VercelInv, NEW t \in Thread, Execute(t)
    PROVE  VercelInv'
  <1>1. "read" \in DispatchSteps /\ Goto(t, "read")
    BY DEF DispatchSteps, Calls, Execute
  <1> DEFINE d == [thread[t] EXCEPT !.pc = "read"]
  <1>2. d \in Dispatches /\ thread' = [thread EXCEPT ![t] = d] /\ thread'[t] = d
        /\ d.pc = "read" /\ d.e = thread[t].e /\ d.w = thread[t].w
    BY <1>1, MoveFacts
  <1> HIDE DEF d
  <1>3. BusyOK(t)'
    BY <1>2, ThreadFacts DEF Execute, BusyOK, Persists
  <1> QED
    BY <1>2, <1>3, RunStep DEF Execute

\* A call that raises VercelSandboxError, whatever became of it.
LEMMA CallFailsStep ==
    ASSUME VercelInv, NEW t \in Thread, CallFails(t)
    PROVE  VercelInv'
  <1> DEFINE failed == Projection("FAILED", 0)
             pc == IF thread[t].pc = "create" THEN "persist" ELSE "stop"
             d == [thread[t] EXCEPT !.pc = pc, !.log = "error", !.projection = failed]
  <1>1. failed \in Results /\ failed.input = 0 /\ failed.status = "FAILED"
    BY MaxAttemptsAssumption DEF Projection, Results, TerminalStates
  <1>2. thread[t] \in Dispatches /\ BusyOK(t) /\ BoxOK(t) /\ box[t] \in Boxes
    BY ThreadFacts
  <1>3. d \in Dispatches
    BY <1>1, <1>2 DEF Dispatches, DispatchSteps
  <1>4. /\ d.pc = (IF thread[t].pc = "create" THEN "persist" ELSE "stop")
        /\ d.e = thread[t].e /\ d.w = thread[t].w /\ d.projection = failed
    BY <1>2 DEF Dispatches
  <1>5. thread' = [thread EXCEPT ![t] = d] /\ thread'[t] = d
    BY <1>2 DEF CallFails, VercelInv, VercelTypeOK
  <1> HIDE DEF d, failed, pc
  <1>6. CASE UNCHANGED runs
    <2>1. RowsKept /\ box' = [box EXCEPT ![t] = box[t]] /\ box'[t] = box[t]
      BY SameRowsKept DEF CallFails, VercelInv, VercelTypeOK
    <2>2. BusyOK(t)'
      BY <1>1, <1>2, <1>4, <1>5 DEF BusyOK, Persists, CallFails, Calls
    <2>3. BoxOK(t)'
      BY <1>2, <1>4, <1>5, <2>1 DEF BoxOK, Calls, NoBox
    <2>4. d.pc \notin BeforeRun
      BY <1>4 DEF BeforeRun
    <2> QED
      BY <1>2, <1>3, <1>5, <1>6, <2>1, <2>2, <2>3, <2>4, QuietThreadStep
  <1>7. CASE thread[t].pc = "execute" /\ runs' = [runs EXCEPT ![thread[t].e] = @ + 1]
    <2>1. BusyOK(t)'
      BY <1>1, <1>2, <1>4, <1>5 DEF BusyOK, Persists, CallFails, Calls
    <2> QED
      BY <1>3, <1>4, <1>5, <1>7, <2>1, RunStep DEF CallFails
  <1> QED
    BY <1>6, <1>7 DEF CallFails

\* read_file: the log is good or bad, whichever it holds.
LEMMA ReadFileStep ==
    ASSUME VercelInv, NEW t \in Thread, ReadFile(t)
    PROVE  VercelInv'
  <1>1. RowsKept /\ UNCHANGED runs /\ box' = [box EXCEPT ![t] = box[t]] /\ box'[t] = box[t]
    BY SameRowsKept DEF ReadFile, VercelInv, VercelTypeOK
  <1>2. PICK found \in {"good", "bad"} :
           thread' = [thread EXCEPT ![t].pc = "stop", ![t].log = found]
    BY DEF ReadFile
  <1> DEFINE d == [thread[t] EXCEPT !.pc = "stop", !.log = found]
  <1>3. thread[t] \in Dispatches /\ BusyOK(t) /\ BoxOK(t) /\ box[t] \in Boxes
    BY ThreadFacts
  <1>4. /\ d \in Dispatches /\ d.pc = "stop" /\ d.log = found
        /\ d.e = thread[t].e /\ d.w = thread[t].w
    BY <1>3 DEF Dispatches, DispatchSteps
  <1>5. thread' = [thread EXCEPT ![t] = d] /\ thread'[t] = d
    BY <1>2, <1>3 DEF VercelInv, VercelTypeOK
  <1> HIDE DEF d
  <1>6. BusyOK(t)' /\ BoxOK(t)' /\ d.pc \notin BeforeRun
    BY <1>1, <1>3, <1>4, <1>5 DEF ReadFile, BusyOK, Persists, BoxOK, BeforeRun, Calls
  <1> QED
    BY <1>1, <1>3, <1>4, <1>5, <1>6, QuietThreadStep

\* stop, which forgets the sandbox whether or not Vercel does.
LEMMA StopSandboxStep ==
    ASSUME VercelInv, NEW t \in Thread, StopSandbox(t)
    PROVE  VercelInv'
  <1>1. RowsKept /\ UNCHANGED runs /\ box' = [box EXCEPT ![t] = NoBox] /\ box'[t] = NoBox
    BY SameRowsKept DEF StopSandbox, VercelInv, VercelTypeOK
  <1> DEFINE pc == IF thread[t].log = "error" THEN "persist" ELSE "mark"
             d == [thread[t] EXCEPT !.pc = pc]
  <1>2. pc \in DispatchSteps /\ Goto(t, pc)
    BY DEF StopSandbox, DispatchSteps
  <1>3. /\ d \in Dispatches /\ thread' = [thread EXCEPT ![t] = d] /\ d.pc = pc
        /\ thread'[t].pc = pc /\ thread'[t].e = thread[t].e /\ thread'[t].w = thread[t].w
        /\ thread'[t].a = thread[t].a /\ thread'[t].projection = thread[t].projection
    BY <1>2, MoveFacts, ThreadFacts DEF Dispatches
  <1>4. pc \in {"mark", "persist"} /\ (pc = "persist" => thread[t].log = "error")
    OBVIOUS
  <1> HIDE DEF d, pc
  <1>5. BusyOK(t)' /\ BoxOK(t)' /\ d.pc \notin BeforeRun
    BY <1>1, <1>3, <1>4, ThreadFacts DEF StopSandbox, BusyOK, Persists, BoxOK, NoBox, BeforeRun, Calls
  <1> QED
    BY <1>1, <1>3, <1>5, ThreadFacts, QuietThreadStep

\* mark_running, after the program has run.
LEMMA MarkStep ==
    ASSUME VercelInv, NEW t \in Thread, MarkRunningAfterRun(t)
    PROVE  VercelInv'
  <1>1. /\ thread[t].pc = "mark" /\ box[t] = NoBox /\ UNCHANGED runs
        /\ thread[t].e \in Execution /\ thread[t].w \in Worker
        /\ box' = [box EXCEPT ![t] = NoBox] /\ box'[t] = NoBox
    BY ThreadFacts DEF MarkRunningAfterRun, BusyOK, Persists, BoxOK, Calls, VercelInv, VercelTypeOK
  <1>2. CASE Return(t) /\ UNCHANGED rows
    BY <1>1, <1>2, SameRowsKept, ReturnStep
  <1>3. CASE /\ CanMarkRunning(thread[t].e, thread[t].w)
             /\ MarkRunning(thread[t].e)
             /\ Goto(t, "compare")
    <2> DEFINE d == [thread[t] EXCEPT !.pc = "compare"]
    <2>1. RowsKept
      BY <1>1, <1>3, MarkRowsKept
    <2>2. "compare" \in DispatchSteps
      BY DEF DispatchSteps
    <2>3. /\ d \in Dispatches /\ thread' = [thread EXCEPT ![t] = d] /\ d.pc = "compare"
          /\ thread'[t].pc = "compare" /\ thread'[t].e = thread[t].e /\ thread'[t].w = thread[t].w
      BY <1>3, <2>2, MoveFacts, ThreadFacts DEF Dispatches
    <2> HIDE DEF d
    <2>4. BusyOK(t)' /\ BoxOK(t)' /\ d.pc \notin BeforeRun
      BY <1>1, <2>3 DEF BusyOK, Persists, BoxOK, NoBox, BeforeRun, Calls
    <2> QED
      BY <1>1, <2>1, <2>3, <2>4, ThreadFacts, QuietThreadStep
  <1> QED
    BY <1>2, <1>3 DEF MarkRunningAfterRun

\* The trusted comparison, or the failure of a log that holds no result.
LEMMA CompareStep ==
    ASSUME VercelInv, NEW t \in Thread, Compare(t)
    PROVE  VercelInv'
  <1>1. /\ thread[t].pc = "compare" /\ box[t] = NoBox /\ UNCHANGED runs /\ RowsKept
        /\ thread[t].e \in Execution /\ thread[t].w \in Worker
        /\ box' = [box EXCEPT ![t] = NoBox] /\ box'[t] = NoBox
    BY ThreadFacts, SameRowsKept
       DEF Compare, BusyOK, Persists, BoxOK, Calls, VercelInv, VercelTypeOK
  <1>2. thread[t] \in Dispatches
    BY ThreadFacts
  <1>3. PICK p : /\ p \in {Projection(s, thread[t].a) : s \in {"COMPLETED", "FAILED", "TIMEOUT"}}
                           \cup {Projection("FAILED", 0)}
                 /\ thread' = [thread EXCEPT ![t].pc = "persist", ![t].projection = p]
    BY DEF Compare
  <1>4. /\ p \in Results /\ p.input \in {0, thread[t].a}
        /\ p.status = "COMPLETED" => p.input = thread[t].a
    <2>1. thread[t].a \in 0..MaxAttempts /\ 0 \in 0..MaxAttempts
      BY <1>2, MaxAttemptsAssumption DEF Dispatches
    <2> QED
      BY <1>3, <2>1 DEF Projection, Results, TerminalStates
  <1> DEFINE d == [thread[t] EXCEPT !.pc = "persist", !.projection = p]
  <1>5. /\ d \in Dispatches /\ d.pc = "persist" /\ d.projection = p
        /\ d.e = thread[t].e /\ d.w = thread[t].w /\ d.a = thread[t].a
    BY <1>2, <1>4 DEF Dispatches, DispatchSteps
  <1>6. thread' = [thread EXCEPT ![t] = d] /\ thread'[t] = d
    BY <1>2, <1>3 DEF VercelInv, VercelTypeOK
  <1> HIDE DEF d
  <1>7. BusyOK(t)' /\ BoxOK(t)' /\ d.pc \notin BeforeRun
    BY <1>1, <1>4, <1>5, <1>6 DEF BusyOK, Persists, BoxOK, NoBox, BeforeRun, Calls
  <1> QED
    BY <1>1, <1>5, <1>6, <1>7, ThreadFacts, QuietThreadStep

\* The terminal transaction.
LEMMA PersistStep ==
    ASSUME VercelInv, NEW t \in Thread, PersistProjection(t)
    PROVE  VercelInv'
  <1>1. /\ BusyOK(t) /\ BoxOK(t) /\ UNCHANGED <<box, runs>> /\ Return(t)
        /\ thread[t].pc = "persist"
    BY ThreadFacts DEF PersistProjection
  <1>2. /\ thread[t].e \in Execution /\ thread[t].w \in Worker /\ thread[t].projection \in Results
        /\ box' = [box EXCEPT ![t] = NoBox]
    BY <1>1 DEF BusyOK, Persists, BoxOK, Calls, VercelInv, VercelTypeOK
  <1>3. RowsKept
    BY <1>2, PersistRowsKept, SameRowsKept DEF PersistProjection
  <1> QED
    BY <1>1, <1>2, <1>3, ReturnStep

\* The candidate cancels, a lease runs out: only rows change.
LEMMA OutsideStep ==
    ASSUME VercelInv, NEW e \in Execution, CancelExecution(e) \/ LeaseExpires(e)
    PROVE  VercelInv'
  <1>1. RowsKept /\ UNCHANGED <<thread, box, runs>>
    BY CandidateRowsKept DEF CancelExecution, LeaseExpires
  <1>2. VercelTypeOK'
    BY <1>1 DEF VercelInv, VercelTypeOK, RowsKept
  <1>3. RowInv'
    BY <1>1 DEF VercelInv, RowsKept, RowInv, RowOK, VercelTypeOK
  <1>4. ASSUME NEW u \in Thread PROVE BusyOK(u)' /\ UnrunOK(u)' /\ BoxOK(u)'
    <2>1. BusyOK(u) /\ UnrunOK(u) /\ BoxOK(u)
      BY ThreadFacts
    <2>2. thread[u].pc \in BeforeRun => thread[u].e \in Execution
      BY <2>1 DEF BusyOK, Persists, BeforeRun
    <2> QED
      BY <1>1, <2>1, <2>2 DEF BusyOK, Persists, UnrunOK, BoxOK, RowsKept
  <1>5. AloneInv'
    BY <1>1 DEF VercelInv, AloneInv, AloneOK
  <1> QED
    BY <1>2, <1>3, <1>4, <1>5 DEF VercelInv, ThreadInv

\* The process stops: its sandbox is forgotten with it.
LEMMA StopsStep ==
    ASSUME VercelInv, NEW t \in Thread, ProcessStops(t)
    PROVE  VercelInv'
  BY SameRowsKept, ReturnStep DEF ProcessStops

-----------------------------------------------------------------------------
(* The theorems.                                                           *)

\* The initial state satisfies the invariant.
LEMMA InitVercelInv == VercelInit => VercelInv
  <1> SUFFICES ASSUME VercelInit PROVE VercelInv
    OBVIOUS
  <1> USE MaxAttemptsAssumption DEF VercelInit, RowsInit
  <1>1. VercelTypeOK
    <2>1. RowsTypeOK
      BY DEF RowsTypeOK, ExecutionStates
    <2>2. 0 \in 0..MaxAttempts
      OBVIOUS
    <2>3. Idle \in Dispatches /\ NoBox \in Boxes
      BY <2>2 DEF Idle, NoBox, Dispatches, DispatchSteps, Boxes
    <2> QED
      BY <2>1, <2>3 DEF VercelTypeOK
  <1>2. ThreadInv
    BY DEF ThreadInv, BusyOK, Persists, UnrunOK, BoxOK, Idle, NoBox, BeforeRun, Calls
  <1>3. AloneInv
    BY DEF AloneInv, AloneOK, Idle, BeforeRun
  <1>4. RowInv
    <2>1. ASSUME NEW e \in Execution
          PROVE  attempt[e] = 0 /\ runs[e] = 0 /\ ~graded[e]
      OBVIOUS
    <2> HIDE DEF VercelInit, RowsInit
    <2>2. 0 <= 1
      OBVIOUS
    <2> QED
      BY <2>1, <2>2 DEF RowInv, RowOK
  <1> QED
    BY <1>1, <1>2, <1>3, <1>4 DEF VercelInv

\* Every step keeps the invariant.
LEMMA NextVercelInv ==
    ASSUME VercelInv, [VercelNext]_vvars
    PROVE  VercelInv'
  <1>1. ASSUME NEW t \in Thread, Dispatch(t) \/ CallFails(t) \/ ProcessStops(t)
        PROVE  VercelInv'
    BY <1>1, ClaimStep, PrepareStep, ExecuteStep, ReadFileStep, StopSandboxStep, MarkStep,
       CompareStep, PersistStep, CallFailsStep, StopsStep DEF Dispatch
  <1>2. CASE UNCHANGED vvars
    BY <1>2 DEF vvars, rows, VercelInv, VercelTypeOK, RowsTypeOK, ThreadInv, BusyOK, Persists,
                UnrunOK, BoxOK, AloneInv, AloneOK, RowInv, RowOK
  <1> QED
    BY <1>1, <1>2, QueueStep, OutsideStep DEF VercelNext

\* The invariant holds in every reachable state.
LEMMA VercelInvariance == VercelSpec => []VercelInv
  BY InitVercelInv, NextVercelInv, PTL DEF VercelSpec

\* A candidate's program runs at most once per accepted execution, however
\* many threads are asked to dispatch it and whatever fails on the way.
THEOREM AtMostOneRun == VercelSpec => []RunsAtMostOnce
  <1>1. VercelInv => RunsAtMostOnce
    BY DEF VercelInv, RowInv, RunsAtMostOnce
  <1> QED
    BY <1>1, VercelInvariance, PTL

\* No sandbox holds the candidate's source while its network is open.
THEOREM SourceIsSealed == VercelSpec => []SourceNeverMeetsEgress
  <1>1. VercelInv => SourceNeverMeetsEgress
    BY DEF VercelInv, ThreadInv, BoxOK, SourceNeverMeetsEgress
  <1> QED
    BY <1>1, VercelInvariance, PTL

-----------------------------------------------------------------------------
(* The refinement of ExecutionOutcome.  A row whose verdict is not written *)
(* yet has no grade, so the grade a verdict brings is a new one.           *)

(* The two variables of the promise that are computed from the rows.       *)
phaseMap == [e \in Execution |->
                CASE state[e] = "ABSENT" -> "absent"
                  [] state[e] = "QUEUED" -> "accepted"
                  [] state[e] \in ActiveStates -> "working"
                  [] OTHER -> state[e]]
basisMap == [e \in Execution |-> result[e].input]

\* The initial rows map to an initial state of the promise.
LEMMA InitAbstract == VercelInit => Abstract!OutcomeInit
  <1> SUFFICES ASSUME VercelInit PROVE Abstract!OutcomeInit
    OBVIOUS
  <1>1. phaseMap = [e \in Execution |-> "absent"]
    BY DEF VercelInit, RowsInit, ActiveStates, phaseMap
  <1>2. basisMap = [e \in Execution |-> 0]
    BY DEF VercelInit, RowsInit, NoResult, basisMap
  <1>3. attempt = [e \in Execution |-> 0] /\ graded = [e \in Execution |-> FALSE]
    BY DEF VercelInit, RowsInit
  <1> QED
    BY <1>1, <1>2, <1>3 DEF Abstract!OutcomeInit, phaseMap, basisMap

\* A request is accepted or withdrawn.
LEMMA CandidateAbstract ==
    ASSUME VercelInv, NEW e \in Execution, CreateQueued(e) \/ CancelRow(e)
    PROVE  Abstract!Accept(e) \/ Abstract!Withdraw(e)
  <1> USE DEF VercelInv, VercelTypeOK, RowsTypeOK, ExecutionStates, ActiveStates, TerminalStates
  <1>1. CASE CreateQueued(e)
    BY <1>1 DEF CreateQueued, Abstract!Accept
  <1>2. CASE CancelRow(e)
    BY <1>2 DEF CancelRow, Transition, LegalTransition, Abstract!Withdraw
  <1> QED
    BY <1>1, <1>2

\* The claim of a row that has used no attempt is the promise's only Try.
LEMMA ClaimAbstract ==
    ASSUME VercelInv, NEW e \in Execution, NEW w \in Worker, ClaimForDispatch(e, w)
    PROVE  Abstract!Try(e)
  <1> USE DEF VercelInv, VercelTypeOK, RowsTypeOK
  <1>1. attempt[e] < MaxAttempts
    BY MaxAttemptsAssumption DEF ClaimForDispatch, RowInv, RowOK
  <1>2. phaseMap[e] = "accepted" /\ phaseMap' = [phaseMap EXCEPT ![e] = "working"]
    BY DEF ClaimForDispatch, phaseMap, ExecutionStates, ActiveStates, TerminalStates
  <1> QED
    BY <1>1, <1>2 DEF ClaimForDispatch, Abstract!Try, phaseMap

\* mark_running and the clock change nothing the candidate can see.
LEMMA QuietAbstract ==
    ASSUME VercelInv, NEW e \in Execution,
           \/ \E w \in Worker : CanMarkRunning(e, w) /\ MarkRunning(e)
           \/ UNCHANGED <<state, attempt, result, graded>>
    PROVE  UNCHANGED Abstract!ovars
  <1>1. phaseMap' = phaseMap
    BY DEF VercelInv, VercelTypeOK, RowsTypeOK, CanMarkRunning, MarkRunning, ActiveStates, phaseMap
  <1> QED
    BY <1>1 DEF MarkRunning, Abstract!ovars, phaseMap

\* The terminal transaction concludes the execution on the current attempt or
\* on none, never over a cancellation.
LEMMA PersistAbstract ==
    ASSUME VercelInv, NEW e \in Execution, NEW w \in Worker, NEW a, NEW p \in Results,
           OwnsAttempt(e, w, a), p.input \in {0, a}, p.status = "COMPLETED" => p.input = a,
           PersistTerminalResult(e, p)
    PROVE  Abstract!OutcomeNext
  <1> USE DEF VercelInv, VercelTypeOK, RowsTypeOK, ExecutionStates, ActiveStates, TerminalStates
  <1>1. p.status \in Abstract!OutcomeVerdicts /\ p.input \in 0..MaxAttempts
    BY DEF Results, Abstract!OutcomeVerdicts
  <1>2. /\ attempt[e] = a /\ state[e] \in ActiveStates
        /\ state' = [state EXCEPT ![e] = p.status]
        /\ result' = [result EXCEPT ![e] = p]
        /\ graded' = [graded EXCEPT ![e] = graded[e] \/ e \in Submits]
        /\ attempt' = attempt
    BY DEF OwnsAttempt, PersistTerminalResult, Transition
  <1>3. Abstract!Conclude(e, p.status, p.input)
    <2>1. phaseMap[e] = "working"
      BY <1>2 DEF phaseMap
    <2>2. p.input \in IF p.status = "COMPLETED" THEN {attempt[e]} ELSE {0, attempt[e]}
      BY <1>2
    <2>3. phaseMap' = [phaseMap EXCEPT ![e] = p.status]
      BY <1>1, <1>2 DEF phaseMap, Abstract!OutcomeVerdicts
    <2>4. basisMap' = [basisMap EXCEPT ![e] = p.input]
      BY <1>1, <1>2 DEF basisMap
    <2>5. graded' = [graded EXCEPT ![e] = e \in Submits]
      <3>1. ~graded[e]
        BY <1>2 DEF RowInv, RowOK
      <3>2. (graded[e] \/ e \in Submits) = (e \in Submits)
        BY <3>1, SMT
      <3> QED
        BY <1>2, <3>2, Zenon
    <2> QED
      BY <1>2, <2>1, <2>2, <2>3, <2>4, <2>5 DEF Abstract!Conclude, phaseMap, basisMap
  <1> QED
    BY <1>1, <1>3 DEF Abstract!OutcomeNext

\* Executions dispatched inline keep the same promise as the controllers'.
THEOREM InlinePromiseKept == VercelSpec => KeepsInlinePromise
  <1>1. VercelInv /\ [VercelNext]_vvars => [Abstract!OutcomeNext]_(Abstract!ovars)
    <2> SUFFICES ASSUME VercelInv, [VercelNext]_vvars
                 PROVE  Abstract!OutcomeNext \/ UNCHANGED Abstract!ovars
      OBVIOUS
    <2>1. CASE UNCHANGED <<state, attempt, result, graded>>
      BY <2>1 DEF Abstract!ovars
    <2>2. ASSUME NEW t \in Thread, NEW e \in Execution, NEW w \in Worker, QueueForQuestion(t, e, w)
          PROVE  Abstract!OutcomeNext \/ UNCHANGED <<state, attempt, result, graded>>
      BY <2>2, CandidateAbstract DEF QueueForQuestion, rows, Abstract!OutcomeNext
    <2>3. ASSUME NEW t \in Thread, Claim(t)
          PROVE  Abstract!OutcomeNext \/ UNCHANGED <<state, attempt, result, graded>>
      <3>1. thread[t].e \in Execution /\ thread[t].w \in Worker
        BY <2>3, ThreadFacts DEF Claim, BusyOK
      <3> QED
        BY <2>3, <3>1, ClaimAbstract DEF Claim, rows, Abstract!OutcomeNext
    <2>4. ASSUME NEW t \in Thread, MarkRunningAfterRun(t)
          PROVE  UNCHANGED Abstract!ovars
      <3>1. thread[t].e \in Execution /\ thread[t].w \in Worker
        BY <2>4, ThreadFacts DEF MarkRunningAfterRun, BusyOK
      <3> QED
        BY <2>1, <2>4, <3>1, QuietAbstract DEF MarkRunningAfterRun, rows
    <2>5. ASSUME NEW t \in Thread, PersistProjection(t)
          PROVE  Abstract!OutcomeNext \/ UNCHANGED <<state, attempt, result, graded>>
      <3>1. /\ thread[t].e \in Execution /\ thread[t].w \in Worker /\ thread[t].projection \in Results
            /\ thread[t].projection.input \in {0, thread[t].a}
            /\ thread[t].projection.status = "COMPLETED" => thread[t].projection.input = thread[t].a
        BY <2>5, ThreadFacts DEF PersistProjection, BusyOK, Persists
      <3> QED
        BY <2>5, <3>1, PersistAbstract DEF PersistProjection, rows
    <2>6. ASSUME NEW e \in Execution, CancelExecution(e)
          PROVE  Abstract!OutcomeNext
      BY <2>6, CandidateAbstract DEF CancelExecution, Abstract!OutcomeNext
    <2>7. ASSUME NEW t \in Thread,
                 \/ CreateSandbox(t) \/ Bootstrap(t) \/ UpdateNetworkPolicy(t) \/ UploadFiles(t)
                 \/ Execute(t) \/ ReadFile(t) \/ StopSandbox(t) \/ Compare(t)
                 \/ CallFails(t) \/ ProcessStops(t)
          PROVE  UNCHANGED <<state, attempt, result, graded>>
      BY <2>7 DEF CreateSandbox, Bootstrap, UpdateNetworkPolicy, UploadFiles, Execute, ReadFile,
                  StopSandbox, Compare, CallFails, ProcessStops, rows
    <2>8. ASSUME NEW e \in Execution, LeaseExpires(e)
          PROVE  UNCHANGED <<state, attempt, result, graded>>
      BY <2>8 DEF LeaseExpires
    <2>9. CASE UNCHANGED vvars
      BY <2>1, <2>9 DEF vvars, rows
    <2> QED
      BY <2>1, <2>2, <2>3, <2>4, <2>5, <2>6, <2>7, <2>8, <2>9 DEF VercelNext, Dispatch
  <1> QED
    BY <1>1, InitAbstract, VercelInvariance, PTL DEF VercelSpec, KeepsInlinePromise, Abstract!OutcomeSpec

=============================================================================

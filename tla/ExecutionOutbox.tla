-------------------------- MODULE ExecutionOutbox --------------------------
(***************************************************************************)
(* How an execution's events get to a controller: the rows of              *)
(* execution_outbox (outbox.py), the batches in which several controllers  *)
(* publish them (execution_publisher.py), the main queue, its dead-letter  *)
(* queue, and the operator's tool for the latter (execution_dlq.py).  What *)
(* a controller does with an event is in ExecutionController; here it is   *)
(* only what the tool and the requeue can see of it.                       *)
(*                                                                         *)
(* A queue is a set of events: that SQS may deliver an event again is in   *)
(* that receiving one need not remove it.                                  *)
(***************************************************************************)
EXTENDS Naturals, FiniteSets

CONSTANTS
    ExecId,       \* ids of execution_requests rows
    Controller,   \* controllers, each with at most one open batch
    Operator,     \* people running execution_dlq
    Nothing,      \* no event
    BatchSize,    \* outbox_batch_size
    Overflow,     \* attempt_count from which 2**attempt_count is no float
    MaxMishaps    \* bound on outages, lost transactions and redrives

Event == {"requested", "cancel"} \X ExecId

ASSUME OutboxAssumption ==
    /\ Nothing \notin Event
    /\ BatchSize \in Nat \ {0} /\ Overflow \in Nat /\ MaxMishaps \in Nat

VARIABLES
    exec,      \* what a queue event finds: execution_requests.state
    job,       \* is kubernetes_job_name set?
    row,       \* execution_outbox: published_at and next_attempt_at
    tries,     \* execution_outbox.attempt_count
    created,   \* execution_outbox.created_at, as the row's place in that order
    batch,     \* the open transaction of each controller
    queue,     \* execution queue
    dlq,       \* dead-letter queue
    tool,      \* the message each operator is at
    mishaps    \* mishaps so far

xvars == <<exec, job, row, tries, created, batch, queue, dlq, tool, mishaps>>

Terminal == {"DONE", "CANCELLED"}
NoBatch == [todo |-> {}, marks |-> [v \in Event |-> "none"], open |-> FALSE]
NoMessage == [pc |-> "idle", v |-> Nothing, mode |-> "none"]

OutboxInit ==
    /\ exec = [e \in ExecId |-> "ABSENT"]
    /\ job = [e \in ExecId |-> FALSE]
    /\ row = [v \in Event |-> "absent"]
    /\ tries = [v \in Event |-> 0]
    /\ created = [v \in Event |-> 0]
    /\ batch = [c \in Controller |-> NoBatch]
    /\ queue = {}
    /\ dlq = {}
    /\ tool = [o \in Operator |-> NoMessage]
    /\ mishaps = 0

-----------------------------------------------------------------------------
(* The transactions that write an event beside the state it is about.      *)

Enqueue(v) ==
    /\ row' = [row EXCEPT ![v] = "due"]
    /\ created' = [created EXCEPT ![v] = 1 + Cardinality({u \in Event : row[u] # "absent"})]

CreateExecution(e) ==
    /\ exec[e] = "ABSENT"
    /\ exec' = [exec EXCEPT ![e] = "QUEUED"]
    /\ Enqueue(<<"requested", e>>)
    /\ UNCHANGED <<job, tries, batch, queue, dlq, tool, mishaps>>

Cancel(e) ==
    /\ exec[e] \in {"QUEUED", "ACTIVE"}
    /\ exec' = [exec EXCEPT ![e] = "CANCELLED"]
    /\ Enqueue(<<"cancel", e>>)
    /\ UNCHANGED <<job, tries, batch, queue, dlq, tool, mishaps>>

-----------------------------------------------------------------------------
(* Publication: publish_outbox_once of controller c.                       *)

Locked == {v \in Event : \E c \in Controller : v \in batch[c].todo \/ batch[c].marks[v] # "none"}

\* The first rows of a set, as many as a batch takes.
FirstOf(free) ==
    {v \in free : Cardinality({u \in free : created[u] < created[v]}) < BatchSize}

Claims(c, free) ==
    /\ ~batch[c].open
    /\ free # {}
    /\ batch' = [batch EXCEPT ![c] = [NoBatch EXCEPT !.todo = FirstOf(free), !.open = TRUE]]
    /\ UNCHANGED <<exec, job, row, tries, created, queue, dlq, tool, mishaps>>

\* Mutant: the rows are read without FOR UPDATE.
ClaimBatchUnlocked(c) == Claims(c, {v \in Event : row[v] = "due"})

\* claim_batch: FOR UPDATE SKIP LOCKED, oldest first.
ClaimBatch(c) == Claims(c, {v \in Event : row[v] = "due" /\ v \notin Locked})

\* The message of the batch whose turn it is.
Turn(c, v) ==
    /\ v \in batch[c].todo
    /\ \A u \in batch[c].todo : created[v] <= created[u]

Marked(c, v, m) ==
    LET b == batch[c] IN
    batch' = [batch EXCEPT ![c] = [b EXCEPT !.todo = b.todo \ {v}, !.marks = [b.marks EXCEPT ![v] = m]]]

Publish(c) ==
    \E v \in Event :
        /\ Turn(c, v)
        /\ queue' = queue \cup {v}
        /\ Marked(c, v, "published")
        /\ UNCHANGED <<exec, job, row, tries, created, dlq, tool, mishaps>>

\* A failed send is recorded by mark_failed.  retry_delay_seconds computes
\* 2**attempt_count as a float before it caps it: too large an exponent raises
\* OverflowError out of the loop and takes the transaction with it.
PublishFails(c) ==
    /\ mishaps < MaxMishaps
    /\ mishaps' = mishaps + 1
    /\ \E v \in Event :
          /\ Turn(c, v)
          /\ IF tries[v] < Overflow
               THEN Marked(c, v, "failed")
               ELSE batch' = [batch EXCEPT ![c] = NoBatch]
    /\ UNCHANGED <<exec, job, row, tries, created, queue, dlq, tool>>

Commit(c) ==
    LET marks == batch[c].marks IN
    /\ batch[c].open
    /\ batch[c].todo = {}
    /\ row' = [v \in Event |-> CASE marks[v] = "published" -> "published"
                                 [] marks[v] = "failed" -> "delayed"
                                 [] OTHER -> row[v]]
    /\ tries' = [v \in Event |-> IF marks[v] = "failed" THEN tries[v] + 1 ELSE tries[v]]
    /\ batch' = [batch EXCEPT ![c] = NoBatch]
    /\ UNCHANGED <<exec, job, created, queue, dlq, tool, mishaps>>

\* The controller stops or loses its connection: what it sent stays sent.
Rollback(c) ==
    /\ batch[c].open
    /\ mishaps < MaxMishaps
    /\ mishaps' = mishaps + 1
    /\ batch' = [batch EXCEPT ![c] = NoBatch]
    /\ UNCHANGED <<exec, job, row, tries, created, queue, dlq, tool>>

\* The backoff of next_attempt_at ends.
DelayPasses(v) ==
    /\ row[v] = "delayed"
    /\ row' = [row EXCEPT ![v] = "due"]
    /\ UNCHANGED <<exec, job, tries, created, batch, queue, dlq, tool, mishaps>>

\* Mutant: a row that once failed is taken for delivered.
RequeueUntried(e) ==
    LET v == <<"requested", e>> IN
    /\ exec[e] = "QUEUED"
    /\ row[v] = "published" /\ tries[v] = 0
    /\ row' = [row EXCEPT ![v] = "due"]
    /\ UNCHANGED <<exec, job, tries, created, batch, queue, dlq, tool, mishaps>>

\* _requeue_stale_queued, for a row that was published long ago.
RequeueStaleQueued(e) ==
    LET v == <<"requested", e>> IN
    /\ exec[e] = "QUEUED"
    /\ row[v] = "published"
    /\ row' = [row EXCEPT ![v] = "due"]
    /\ UNCHANGED <<exec, job, tries, created, batch, queue, dlq, tool, mishaps>>

-----------------------------------------------------------------------------
(* The queues and their consumers.                                         *)

\* A controller claims a queued execution or finds nothing to do.
ReceiveRequested(e) ==
    /\ <<"requested", e>> \in queue
    /\ exec' = [exec EXCEPT ![e] = IF @ = "QUEUED" THEN "ACTIVE" ELSE @]
    /\ queue' \in {queue, queue \ {<<"requested", e>>}}
    /\ UNCHANGED <<job, row, tries, created, batch, dlq, tool, mishaps>>

\* mark_running records the Job.
StartRunning(e) ==
    /\ exec[e] = "ACTIVE" /\ ~job[e]
    /\ job' = [job EXCEPT ![e] = TRUE]
    /\ UNCHANGED <<exec, row, tries, created, batch, queue, dlq, tool, mishaps>>

\* _process_cancel cleans up and forgets the Job of a cancelled execution.
ReceiveCancel(e) ==
    /\ <<"cancel", e>> \in queue
    /\ job' = [job EXCEPT ![e] = @ /\ exec[e] # "CANCELLED"]
    /\ queue' \in {queue, queue \ {<<"cancel", e>>}}
    /\ UNCHANGED <<exec, row, tries, created, batch, dlq, tool, mishaps>>

Finish(e) ==
    /\ exec[e] = "ACTIVE"
    /\ exec' = [exec EXCEPT ![e] = "DONE"]
    /\ UNCHANGED <<job, row, tries, created, batch, queue, dlq, tool, mishaps>>

\* maxReceiveCount deliveries without a deletion.
Redrive(v) ==
    /\ v \in queue
    /\ mishaps < MaxMishaps
    /\ mishaps' = mishaps + 1
    /\ queue' = queue \ {v}
    /\ dlq' = dlq \cup {v}
    /\ UNCHANGED <<exec, job, row, tries, created, batch, tool>>

-----------------------------------------------------------------------------
(* execution_dlq.  The database is read, then the queues are written.      *)

\* Mutant: whatever a controller has claimed counts as settled.
ClassifyActiveDone(v) ==
    LET s == exec[v[2]] IN
    CASE s = "ABSENT" -> "HOLD_UNKNOWN"
      [] v[1] = "requested" /\ s = "QUEUED" -> "REPLAY"
      [] v[1] = "requested" -> "DISCARD_TERMINAL"
      [] v[1] = "cancel" /\ s = "CANCELLED" /\ job[v[2]] -> "REPLAY"
      [] v[1] = "cancel" /\ s \in {"QUEUED", "ACTIVE"} -> "HOLD_IN_PROGRESS"
      [] OTHER -> "DISCARD_TERMINAL"

ClassifyEvent(v) ==
    LET s == exec[v[2]] IN
    CASE s = "ABSENT" -> "HOLD_UNKNOWN"
      [] v[1] = "requested" /\ s = "QUEUED" -> "REPLAY"
      [] v[1] = "requested" /\ s = "ACTIVE" -> "HOLD_IN_PROGRESS"
      [] v[1] = "cancel" /\ s = "CANCELLED" /\ job[v[2]] -> "REPLAY"
      [] v[1] = "cancel" /\ s \in {"QUEUED", "ACTIVE"} -> "HOLD_IN_PROGRESS"
      [] OTHER -> "DISCARD_TERMINAL"

\* Receiving hides the message for 30 seconds only, so two operators may be at
\* the same one.  A message that is held becomes visible again.
ClassifyMessage(o, v, mode) ==
    /\ tool[o] = NoMessage
    /\ v \in dlq
    /\ ClassifyEvent(v) = IF mode = "replay" THEN "REPLAY" ELSE "DISCARD_TERMINAL"
    /\ tool' = [tool EXCEPT ![o] = [pc |-> "classified", v |-> v, mode |-> mode]]
    /\ UNCHANGED <<exec, job, row, tries, created, batch, queue, dlq, mishaps>>

ReplaySend(o) ==
    /\ tool[o].pc = "classified" /\ tool[o].mode = "replay"
    /\ queue' = queue \cup {tool[o].v}
    /\ tool' = [tool EXCEPT ![o].pc = "sent"]
    /\ UNCHANGED <<exec, job, row, tries, created, batch, dlq, mishaps>>

DeleteDead(o) ==
    /\ \/ tool[o].pc = "sent"
       \/ tool[o].pc = "classified" /\ tool[o].mode = "discard"
    /\ dlq' = dlq \ {tool[o].v}
    /\ tool' = [tool EXCEPT ![o] = NoMessage]
    /\ UNCHANGED <<exec, job, row, tries, created, batch, queue, mishaps>>

\* The tool fails or is interrupted between two calls.
ToolStops(o) ==
    /\ tool[o] # NoMessage
    /\ tool' = [tool EXCEPT ![o] = NoMessage]
    /\ UNCHANGED <<exec, job, row, tries, created, batch, queue, dlq, mishaps>>

-----------------------------------------------------------------------------
Publisher(c) == ClaimBatch(c) \/ Publish(c) \/ PublishFails(c) \/ Commit(c) \/ Rollback(c)
Consumer(e) == ReceiveRequested(e) \/ StartRunning(e) \/ ReceiveCancel(e) \/ Finish(e)
DlqTool(o) ==
    \/ \E v \in Event, mode \in {"replay", "discard"} : ClassifyMessage(o, v, mode)
    \/ ReplaySend(o) \/ DeleteDead(o) \/ ToolStops(o)

OutboxNext ==
    \/ \E e \in ExecId : CreateExecution(e) \/ Cancel(e) \/ RequeueStaleQueued(e) \/ Consumer(e)
    \/ \E c \in Controller : Publisher(c)
    \/ \E v \in Event : DelayPasses(v) \/ Redrive(v)
    \/ \E o \in Operator : DlqTool(o)

OutboxSpec == OutboxInit /\ [][OutboxNext]_xvars

-----------------------------------------------------------------------------
(* Properties.                                                             *)

\* A controller publishes only rows that are still unpublished, although it
\* reads them once and another controller commits in between: the row lock is
\* held to the end of the batch and SKIP LOCKED keeps the others out.
ClaimedStaysDue ==
    \A c \in Controller : \A v \in batch[c].todo : row[v] = "due"

\* "durable state proves no replay is needed": when the tool deletes a message
\* for good, its execution is over and a cancelled one keeps no Job, although
\* both were read before.
DiscardIsSafe ==
    [][\A v \in Event :
          (v \in dlq /\ v \notin dlq' /\ \E o \in Operator : tool[o].v = v /\ tool[o].mode = "discard"
             /\ tool'[o] = NoMessage)
          => exec[v[2]] \in Terminal /\ (exec[v[2]] = "CANCELLED" /\ v[1] = "cancel" => ~job[v[2]])]_xvars

\* "retry is intentionally durable": every queued execution is taken or
\* cancelled in the end, through outages, rolled-back batches and dead letters
\* and past a backoff that overflows, without any operator.
RequestIsTaken ==
    \A e \in ExecId : exec[e] = "QUEUED" ~> exec[e] # "QUEUED"
=============================================================================

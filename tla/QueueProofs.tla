---------------------------- MODULE QueueProofs ----------------------------
(***************************************************************************)
(* Proofs about the ways a message reaches a controller.  ExecutionOutbox: *)
(* for every number of executions, controllers and operators and every     *)
(* size of a batch.  LocalTransport, the queue in the table and the thread *)
(* pools: for every set of messages and processes, every number of slots   *)
(* and every bound on receives and attempts.                               *)
(***************************************************************************)
EXTENDS ExecutionOutbox, LocalTransport, FiniteSetTheorems, TLAPS

-----------------------------------------------------------------------------
(* The outbox.                                                             *)

ExecStates == {"ABSENT", "QUEUED", "ACTIVE", "DONE", "CANCELLED"}
RowStates == {"absent", "due", "delayed", "published"}
Batches == [todo : SUBSET Event, marks : [Event -> {"none", "published", "failed"}], open : BOOLEAN]
Messages == [pc : {"idle", "classified", "sent"}, v : Event \cup {Nothing},
             mode : {"none", "replay", "discard"}]

OutboxTypeOK ==
    /\ exec \in [ExecId -> ExecStates]
    /\ job \in [ExecId -> BOOLEAN]
    /\ row \in [Event -> RowStates]
    /\ batch \in [Controller -> Batches]
    /\ tool \in [Operator -> Messages]

(* A row that a batch has read or marked is due, as long as the batch is   *)
(* open, and no other batch has it.                                        *)
Holds(c, v) == v \in batch[c].todo \/ batch[c].marks[v] # "none"
HeldOK(c, v) == Holds(c, v) => row[v] = "due" /\ \A d \in Controller \ {c} : ~Holds(d, v)
LockInv == \A c \in Controller, v \in Event : HeldOK(c, v)

(* What the tool is about to discard stays settled.                        *)
Settled(v) ==
    /\ v \in Event
    /\ exec[v[2]] \in Terminal
    /\ v[1] = "cancel" /\ exec[v[2]] = "CANCELLED" => ~job[v[2]]
ToolInv == \A o \in Operator : tool[o].mode = "discard" => Settled(tool[o].v)

OutboxInv == OutboxTypeOK /\ LockInv /\ ToolInv

-----------------------------------------------------------------------------
(* What the steps do to the rows that are locked.                          *)

\* Rows that only become due, under unchanged batches, stay locked as they are.
LEMMA RowsBecomeDue ==
    ASSUME LockInv, UNCHANGED batch, \A v \in Event : row'[v] = row[v] \/ row'[v] = "due"
    PROVE  LockInv'
  BY DEF LockInv, HeldOK, Holds

\* A batch that gives its rows up leaves the others theirs.
LEMMA BatchGivenUp ==
    ASSUME OutboxTypeOK, LockInv, NEW c \in Controller, batch' = [batch EXCEPT ![c] = NoBatch],
           \A v \in Event : row'[v] = row[v] \/ Holds(c, v)
    PROVE  LockInv' /\ batch' \in [Controller -> Batches]
  <1>1. NoBatch \in Batches /\ \A v \in Event : v \notin NoBatch.todo /\ NoBatch.marks[v] = "none"
    BY DEF NoBatch, Batches
  <1>2. batch' \in [Controller -> Batches]
    BY <1>1 DEF OutboxTypeOK
  <1>3. \A v \in Event : ~Holds(c, v)'
    BY <1>1 DEF Holds, OutboxTypeOK
  <1>4. \A d \in Controller \ {c}, v \in Event : Holds(d, v)' <=> Holds(d, v)
    BY DEF Holds, OutboxTypeOK
  <1>5. ASSUME NEW d \in Controller, NEW v \in Event
        PROVE  HeldOK(d, v)'
    BY <1>3, <1>4 DEF LockInv, HeldOK
  <1>6. LockInv'
    BY <1>5 DEF LockInv
  <1> QED
    BY <1>2, <1>6

\* A message of a batch that has been sent or has failed stays locked.
LEMMA MarkKeepsLock ==
    ASSUME OutboxTypeOK, LockInv, NEW c \in Controller, NEW v \in Event,
           NEW m \in {"published", "failed"}, Turn(c, v), Marked(c, v, m), UNCHANGED row
    PROVE  LockInv' /\ batch' \in [Controller -> Batches]
  <1> DEFINE T == batch[c].todo \ {v}
             M == [batch[c].marks EXCEPT ![v] = m]
             b == [batch[c] EXCEPT !.todo = T, !.marks = M]
  <1>1. batch[c] \in Batches
    BY DEF OutboxTypeOK
  <1>2. b.todo = T /\ b.marks = M /\ b \in Batches
    <2>1. T \in SUBSET Event /\ M \in [Event -> {"none", "published", "failed"}]
      BY <1>1 DEF Batches
    <2> HIDE DEF T, M
    <2> QED
      BY <1>1, <2>1 DEF Batches
  <1>3. batch' = [batch EXCEPT ![c] = b]
    BY DEF Marked
  <1> HIDE DEF b
  <1>4. batch' \in [Controller -> Batches] /\ batch'[c] = b
    BY <1>2, <1>3 DEF OutboxTypeOK
  <1>5. \A u \in Event : Holds(c, u)' => Holds(c, u)
    BY <1>1, <1>2, <1>4 DEF Holds, Turn, Batches
  <1>6. \A d \in Controller \ {c}, u \in Event : Holds(d, u)' <=> Holds(d, u)
    BY <1>3 DEF Holds, OutboxTypeOK
  <1>7. ASSUME NEW d \in Controller, NEW u \in Event
        PROVE  HeldOK(d, u)'
    BY <1>5, <1>6 DEF LockInv, HeldOK
  <1>8. LockInv'
    BY <1>7 DEF LockInv
  <1> QED
    BY <1>4, <1>8

\* claim_batch takes due rows that no other batch has: SKIP LOCKED.
LEMMA ClaimBatchStep ==
    ASSUME OutboxInv, NEW c \in Controller, ClaimBatch(c)
    PROVE  OutboxInv'
  <1> USE DEF OutboxInv
  <1> DEFINE free == {v \in Event : row[v] = "due" /\ v \notin Locked}
             b == [NoBatch EXCEPT !.todo = FirstOf(free), !.open = TRUE]
  <1>1. batch' = [batch EXCEPT ![c] = b] /\ UNCHANGED <<exec, job, row, tool>>
    BY DEF ClaimBatch, Claims
  <1>2. FirstOf(free) \in SUBSET free /\ free \in SUBSET Event
    BY DEF FirstOf
  <1>3. b.todo = FirstOf(free) /\ b.marks = NoBatch.marks /\ b \in Batches
    BY <1>2 DEF NoBatch, Batches
  <1>4. \A v \in Event : NoBatch.marks[v] = "none"
    BY DEF NoBatch
  <1> HIDE DEF b
  <1>5. batch' \in [Controller -> Batches] /\ batch'[c] = b
    BY <1>1, <1>3 DEF OutboxTypeOK
  <1>6. \A v \in Event : Holds(c, v)' => row[v] = "due" /\ \A d \in Controller : ~Holds(d, v)
    BY <1>2, <1>3, <1>4, <1>5 DEF Holds, Locked
  <1>7. \A d \in Controller \ {c}, v \in Event : Holds(d, v)' <=> Holds(d, v)
    BY <1>1 DEF Holds, OutboxTypeOK
  <1>8. ASSUME NEW d \in Controller, NEW v \in Event
        PROVE  HeldOK(d, v)'
    BY <1>1, <1>6, <1>7 DEF LockInv, HeldOK
  <1>9. LockInv'
    BY <1>8 DEF LockInv
  <1> QED
    BY <1>1, <1>5, <1>9 DEF OutboxTypeOK, ToolInv, Settled

\* Sending, marking, committing and rolling back a batch.
LEMMA BatchStep ==
    ASSUME OutboxInv, NEW c \in Controller, Publish(c) \/ PublishFails(c) \/ Commit(c) \/ Rollback(c)
    PROVE  OutboxInv'
  <1> USE DEF OutboxInv
  <1>1. UNCHANGED <<exec, job, tool>>
    BY DEF Publish, PublishFails, Commit, Rollback
  <1>2. CASE \E v \in Event, m \in {"published", "failed"} : Turn(c, v) /\ Marked(c, v, m) /\ UNCHANGED row
    BY <1>1, <1>2, MarkKeepsLock DEF OutboxTypeOK, ToolInv, Settled
  <1>3. CASE batch' = [batch EXCEPT ![c] = NoBatch] /\ UNCHANGED row
    BY <1>1, <1>3, BatchGivenUp DEF OutboxTypeOK, ToolInv, Settled
  <1>4. CASE Commit(c)
    <2>1. batch[c].marks \in [Event -> {"none", "published", "failed"}]
      BY DEF OutboxTypeOK, Batches
    <2>2. row' \in [Event -> RowStates] /\ \A v \in Event : row'[v] = row[v] \/ Holds(c, v)
      BY <1>4, <2>1 DEF Commit, Holds, OutboxTypeOK, RowStates
    <2>3. batch' = [batch EXCEPT ![c] = NoBatch]
      BY <1>4 DEF Commit
    <2> QED
      BY <1>1, <2>2, <2>3, BatchGivenUp DEF OutboxTypeOK, ToolInv, Settled
  <1> QED
    BY <1>2, <1>3, <1>4 DEF Publish, PublishFails, Rollback

\* Executions and their events.
LEMMA ExecutionStep ==
    ASSUME OutboxInv, NEW e \in ExecId,
           CreateExecution(e) \/ Cancel(e) \/ RequeueStaleQueued(e) \/ Consumer(e)
    PROVE  OutboxInv'
  <1> USE DEF OutboxInv
  <1>1. UNCHANGED <<batch, tool>>
    BY DEF CreateExecution, Cancel, RequeueStaleQueued, Consumer, ReceiveRequested, StartRunning,
           ReceiveCancel, Finish
  <1>2. <<"requested", e>> \in Event /\ <<"cancel", e>> \in Event
    BY DEF Event
  <1>3. row' \in [Event -> RowStates] /\ \A v \in Event : row'[v] = row[v] \/ row'[v] = "due"
    BY <1>2 DEF CreateExecution, Cancel, Enqueue, RequeueStaleQueued, Consumer, ReceiveRequested,
           StartRunning, ReceiveCancel, Finish, OutboxTypeOK, RowStates
  <1>4. /\ exec' \in [ExecId -> ExecStates] /\ job' \in [ExecId -> BOOLEAN]
        /\ \A f \in ExecId : exec[f] \in Terminal =>
              exec'[f] = exec[f] /\ (~job[f] => ~job'[f])
    BY DEF CreateExecution, Cancel, RequeueStaleQueued, Consumer, ReceiveRequested, StartRunning,
           ReceiveCancel, Finish, OutboxTypeOK, ExecStates, Terminal
  <1>5. OutboxTypeOK'
    BY <1>1, <1>3, <1>4 DEF OutboxTypeOK
  <1>6. LockInv'
    BY <1>1, <1>3, RowsBecomeDue
  <1>7. ToolInv'
    <2>1. \A v \in Event : v[2] \in ExecId
      BY DEF Event
    <2> QED
      BY <1>1, <1>4, <2>1 DEF ToolInv, Settled
  <1> QED
    BY <1>5, <1>6, <1>7

\* The operator's tool.
LEMMA DlqToolStep ==
    ASSUME OutboxInv, NEW o \in Operator, DlqTool(o)
    PROVE  OutboxInv'
  <1> USE DEF OutboxInv
  <1>1. UNCHANGED <<exec, job, row, batch>>
    BY DEF DlqTool, ClassifyMessage, ReplaySend, DeleteDead, ToolStops
  <1>2. LockInv'
    BY <1>1, RowsBecomeDue
  <1>3. CASE \E v \in Event, mode \in {"replay", "discard"} : ClassifyMessage(o, v, mode)
    <2>1. PICK v \in Event, mode \in {"replay", "discard"} : ClassifyMessage(o, v, mode)
      BY <1>3
    <2>2. [pc |-> "classified", v |-> v, mode |-> mode] \in Messages
      BY DEF Messages
    <2>3. tool' = [tool EXCEPT ![o] = [pc |-> "classified", v |-> v, mode |-> mode]]
      BY <2>1 DEF ClassifyMessage
    <2>4. mode = "discard" => Settled(v)
      <3>1. v[1] \in {"requested", "cancel"} /\ v[2] \in ExecId
        BY DEF Event
      <3>2. exec[v[2]] \in ExecStates
        BY <3>1 DEF OutboxTypeOK
      <3> QED
        BY <2>1, <3>1, <3>2 DEF ClassifyMessage, ClassifyEvent, Settled, ExecStates, Terminal
    <2> QED
      BY <1>1, <1>2, <2>2, <2>3, <2>4 DEF OutboxTypeOK, ToolInv, Settled
  <1>4. CASE ReplaySend(o)
    <2>1. tool' = [tool EXCEPT ![o].pc = "sent"] /\ tool[o].mode = "replay"
      BY <1>4 DEF ReplaySend
    <2>2. tool[o] \in Messages
      BY DEF OutboxTypeOK
    <2>3. tool'[o] = [tool[o] EXCEPT !.pc = "sent"]
      BY <2>1 DEF OutboxTypeOK
    <2>4. [tool[o] EXCEPT !.pc = "sent"] \in Messages /\ tool'[o].mode = "replay"
      BY <2>1, <2>2, <2>3 DEF Messages
    <2>5. OutboxTypeOK'
      BY <1>1, <2>1, <2>3, <2>4 DEF OutboxTypeOK
    <2>6. \A p \in Operator \ {o} : tool'[p] = tool[p]
      BY <2>1 DEF OutboxTypeOK
    <2> QED
      BY <1>1, <1>2, <2>4, <2>5, <2>6 DEF ToolInv, Settled
  <1>5. CASE tool' = [tool EXCEPT ![o] = NoMessage]
    <2>1. NoMessage \in Messages /\ NoMessage.mode = "none"
      BY DEF NoMessage, Messages
    <2> QED
      BY <1>1, <1>2, <1>5, <2>1 DEF OutboxTypeOK, ToolInv, Settled
  <1> QED
    BY <1>3, <1>4, <1>5 DEF DlqTool, DeleteDead, ToolStops

-----------------------------------------------------------------------------
(* The theorems.                                                           *)

\* The initial state satisfies the invariant.
LEMMA InitOutboxInv == OutboxInit => OutboxInv
  <1> SUFFICES ASSUME OutboxInit PROVE OutboxInv
    OBVIOUS
  <1>1. NoBatch \in Batches /\ NoMessage \in Messages /\ NoMessage.mode = "none"
    BY DEF NoBatch, NoMessage, Batches, Messages
  <1>2. \A v \in Event : v \notin NoBatch.todo /\ NoBatch.marks[v] = "none"
    BY DEF NoBatch
  <1>3. OutboxTypeOK
    BY <1>1 DEF OutboxInit, OutboxTypeOK, ExecStates, RowStates
  <1>4. LockInv
    BY <1>2 DEF OutboxInit, LockInv, HeldOK, Holds
  <1>5. ToolInv
    BY <1>1 DEF OutboxInit, ToolInv
  <1> QED
    BY <1>3, <1>4, <1>5 DEF OutboxInv

\* Every step keeps the invariant.
LEMMA NextOutboxInv ==
    ASSUME OutboxInv, [OutboxNext]_xvars
    PROVE  OutboxInv'
  <1>1. ASSUME NEW v \in Event, DelayPasses(v) \/ Redrive(v)
        PROVE  OutboxInv'
    <2>1. UNCHANGED <<exec, job, batch, tool>>
      BY <1>1 DEF DelayPasses, Redrive
    <2>2. row' \in [Event -> RowStates] /\ \A u \in Event : row'[u] = row[u] \/ row'[u] = "due"
      BY <1>1 DEF DelayPasses, Redrive, OutboxInv, OutboxTypeOK, RowStates
    <2> QED
      BY <2>1, <2>2, RowsBecomeDue DEF OutboxInv, OutboxTypeOK, ToolInv, Settled
  <1>2. CASE UNCHANGED xvars
    BY <1>2, RowsBecomeDue DEF xvars, OutboxInv, OutboxTypeOK, ToolInv, Settled
  <1> QED
    BY <1>1, <1>2, ClaimBatchStep, BatchStep, ExecutionStep, DlqToolStep DEF OutboxNext, Publisher

\* The invariant holds in every reachable state.
LEMMA OutboxInvariance == OutboxSpec => []OutboxInv
  BY InitOutboxInv, NextOutboxInv, PTL DEF OutboxSpec

\* A controller publishes only rows that are still due, whatever the others
\* commit while its batch is open: claim_batch locks and skips locked rows.
THEOREM ClaimsStayDue == OutboxSpec => []ClaimedStaysDue
  <1>1. OutboxInv => ClaimedStaysDue
    BY DEF OutboxInv, OutboxTypeOK, Batches, LockInv, HeldOK, Holds, ClaimedStaysDue
  <1> QED
    BY <1>1, OutboxInvariance, PTL

\* discard_terminal_batch deletes a message for good only when its execution is
\* over and a cancelled one has no Job, although it read both before.
THEOREM DiscardsAreSafe == OutboxSpec => DiscardIsSafe
  <1>1. ASSUME OutboxInv, [OutboxNext]_xvars
        PROVE  [\A v \in Event :
                  (v \in dlq /\ v \notin dlq' /\ \E o \in Operator : tool[o].v = v /\ tool[o].mode = "discard"
                     /\ tool'[o] = NoMessage)
                  => exec[v[2]] \in Terminal /\ (exec[v[2]] = "CANCELLED" /\ v[1] = "cancel" => ~job[v[2]])]_xvars
    BY <1>1 DEF OutboxInv, ToolInv, Settled
  <1> QED
    BY <1>1, OutboxInvariance, PTL DEF OutboxSpec, DiscardIsSafe

-----------------------------------------------------------------------------
(* The queue.                                                              *)

\* A message is received under a handle of its own each time; a process holds
\* the newest only while the row is there.
Items == [msg : Message, receipt : Nat]
Rows == [state : {"absent", "visible", "hidden", "deleted"}, receipt : Nat]

EachReceiptOnce ==
    \A p, q \in Process : \A n \in DOMAIN inbox[p], k \in DOMAIN inbox[q] :
        inbox[p][n].msg = inbox[q][k].msg /\ inbox[p][n].receipt = inbox[q][k].receipt => p = q /\ n = k
ReceiptsGrow ==
    \A p \in Process : \A n \in DOMAIN inbox[p] : inbox[p][n].receipt <= lrow[inbox[p][n].msg].receipt

QueueTypeOK ==
    /\ lrow \in [Message -> Rows]
    /\ inbox \in [Process -> Seq(Items)]
QueueInv == QueueTypeOK /\ EachReceiptOnce /\ ReceiptsGrow /\ UnhandledStaysQueued

\* Any order of a set names each of its members once.
LEMMA Ordered ==
    ASSUME NEW S, IsFiniteSet(S)
    PROVE  /\ SetToSeq(S) \in [1..Cardinality(S) -> S] /\ Cardinality(S) \in Nat
           /\ \A n, k \in 1..Cardinality(S) : SetToSeq(S)[n] = SetToSeq(S)[k] => n = k
  <1>1. Cardinality(S) \in Nat /\ ExistsBijection(1..Cardinality(S), S)
    BY FS_CardinalityType
  <1>2. PICK f \in [1..Cardinality(S) -> S] : IsInjective(f)
    BY <1>1 DEF ExistsBijection, Bijection, Injection, IsInjective
  <1>3. SetToSeq(S) \in [1..Cardinality(S) -> S] /\ IsInjective(SetToSeq(S))
    BY <1>2 DEF SetToSeq
  <1> QED
    BY <1>1, <1>3 DEF IsInjective

\* What is in an inbox.
LEMMA Held ==
    ASSUME QueueTypeOK, NEW q \in Process, NEW k \in DOMAIN inbox[q]
    PROVE  /\ inbox[q][k] \in Items /\ inbox[q][k].msg \in Message /\ inbox[q][k].receipt \in Nat
           /\ lrow[inbox[q][k].msg] \in Rows
  <1>1. inbox[q] \in Seq(Items)
    BY DEF QueueTypeOK
  <1>2. inbox[q][k] \in Items
    BY <1>1
  <1> QED
    BY <1>2 DEF QueueTypeOK, Items

\* Receiving: the handles are newer than every one held for those messages.
LEMMA ReceiveStep ==
    ASSUME QueueInv, NEW p \in Process, LocalReceive(p)
    PROVE  QueueInv'
  <1> DEFINE got == {m \in Message : lrow[m].state = "visible" /\ lrow[m].receipt < MaxReceives}
             order == SetToSeq(got)
             size == Cardinality(got)
             new == [n \in 1..size |-> [msg |-> order[n], receipt |-> lrow[order[n]].receipt + 1]]
  <1>1. IsFiniteSet(got)
    BY TransportAssumption, FS_Subset
  <1>2. /\ order \in [1..size -> got] /\ DOMAIN order = 1..size /\ size \in Nat
        /\ \A n, k \in 1..size : order[n] = order[k] => n = k
    BY <1>1, Ordered
  <1>3. /\ lrow' = [m \in Message |-> IF m \in got THEN [state |-> "hidden", receipt |-> lrow[m].receipt + 1]
                                      ELSE lrow[m]]
        /\ inbox' = [inbox EXCEPT ![p] = new] /\ inbox[p] = <<>>
    BY <1>2 DEF LocalReceive
  <1>4. got \subseteq Message
    OBVIOUS
  <1> HIDE DEF got, size, order
  <1>5. lrow' \in [Message -> Rows]
    BY <1>3 DEF QueueInv, QueueTypeOK, Rows
  <1>6. \A n \in 1..size : /\ new[n] \in Items /\ order[n] \in got /\ new[n].msg = order[n]
                           /\ new[n].receipt = lrow[order[n]].receipt + 1
    BY <1>2, <1>4 DEF QueueInv, QueueTypeOK, Items, Rows
  <1>7. new \in Seq(Items) /\ DOMAIN new = 1..size
    BY <1>2, <1>6
  <1> HIDE DEF new
  <1>8. /\ inbox' \in [Process -> Seq(Items)]
        /\ inbox'[p] = new
        /\ \A q \in Process \ {p} : inbox'[q] = inbox[q]
    BY <1>3, <1>7 DEF QueueInv, QueueTypeOK
  <1>9. \A m \in Message : /\ lrow[m].receipt \in Nat
                           /\ m \in got => lrow'[m].receipt = lrow[m].receipt + 1 /\ lrow'[m].state = "hidden"
                           /\ m \notin got => lrow'[m] = lrow[m]
    BY <1>3 DEF QueueInv, QueueTypeOK, Rows
  <1>10. \A q \in Process : \A k \in DOMAIN inbox[q] :
            /\ inbox[q][k] \in Items /\ inbox[q][k].msg \in Message /\ inbox[q][k].receipt \in Nat
            /\ inbox[q][k].receipt <= lrow[inbox[q][k].msg].receipt
    BY Held DEF QueueInv, ReceiptsGrow
  <1>11. EachReceiptOnce'
    <2>1. ASSUME NEW q \in Process \ {p}, NEW k \in DOMAIN inbox[q], NEW n \in 1..size
          PROVE  ~(new[n].msg = inbox[q][k].msg /\ new[n].receipt = inbox[q][k].receipt)
      BY <1>4, <1>6, <1>9, <1>10
    <2>2. ASSUME NEW n \in 1..size, NEW k \in 1..size, new[n].msg = new[k].msg
          PROVE  n = k
      BY <1>2, <1>6, <2>2
    <2> SUFFICES ASSUME NEW q \in Process, NEW r \in Process, NEW n \in DOMAIN inbox'[q],
                        NEW k \in DOMAIN inbox'[r], inbox'[q][n].msg = inbox'[r][k].msg,
                        inbox'[q][n].receipt = inbox'[r][k].receipt
                 PROVE  q = r /\ n = k
      BY DEF EachReceiptOnce
    <2>3. CASE q = p /\ r = p
      <3>1. n \in 1..size /\ k \in 1..size /\ new[n].msg = new[k].msg
        BY <1>7, <1>8, <2>3
      <3> QED
        BY <2>2, <2>3, <3>1
    <2>4. CASE q = p /\ r # p
      <3>1. n \in 1..size /\ k \in DOMAIN inbox[r] /\ inbox'[q] = new /\ inbox'[r] = inbox[r]
        BY <1>7, <1>8, <2>4
      <3> QED
        BY <2>1, <2>4, <3>1
    <2>5. CASE q # p /\ r = p
      <3>1. k \in 1..size /\ n \in DOMAIN inbox[q] /\ inbox'[r] = new /\ inbox'[q] = inbox[q]
        BY <1>7, <1>8, <2>5
      <3> QED
        BY <2>1, <2>5, <3>1
    <2>6. CASE q # p /\ r # p
      <3>1. inbox'[q] = inbox[q] /\ inbox'[r] = inbox[r]
        BY <1>8, <2>6
      <3> QED
        BY <3>1 DEF QueueInv, EachReceiptOnce
    <2> QED
      BY <2>3, <2>4, <2>5, <2>6
  <1>12. ReceiptsGrow' /\ UnhandledStaysQueued'
    <2> SUFFICES ASSUME NEW q \in Process, NEW k \in DOMAIN inbox'[q]
                 PROVE  /\ inbox'[q][k].receipt <= lrow'[inbox'[q][k].msg].receipt
                        /\ inbox'[q][k].receipt = lrow'[inbox'[q][k].msg].receipt =>
                              lrow'[inbox'[q][k].msg].state \in {"visible", "hidden"}
      BY DEF ReceiptsGrow, UnhandledStaysQueued, HoldsMessage
    <2>1. CASE q = p
      BY <1>4, <1>6, <1>7, <1>8, <1>9, <2>1
    <2>2. CASE q # p
      <3>1. PICK item \in Items : item = inbox[q][k] /\ item = inbox'[q][k]
        BY <1>8, <1>10, <2>2
      <3>2. /\ item.msg \in Message /\ item.receipt \in Nat
            /\ item.receipt <= lrow[item.msg].receipt
            /\ item.receipt = lrow[item.msg].receipt => lrow[item.msg].state \in {"visible", "hidden"}
        BY <1>8, <1>10, <2>2, <3>1 DEF QueueInv, UnhandledStaysQueued, HoldsMessage
      <3> QED
        BY <1>9, <3>1, <3>2
    <2> QED
      BY <2>1, <2>2
  <1> QED
    BY <1>5, <1>8, <1>11, <1>12 DEF QueueInv, QueueTypeOK

\* Messages leave an inbox, that at position n of p among them: from says where
\* the messages that stay were.
StillHeld(from, p, n) ==
    /\ inbox' \in [Process -> Seq(Items)]
    /\ \A q \in Process : \A k \in DOMAIN inbox'[q] :
          from[q][k] \in DOMAIN inbox[q] /\ inbox'[q][k] = inbox[q][from[q][k]]
    /\ \A q \in Process : \A i, k \in DOMAIN inbox'[q] : from[q][i] = from[q][k] => i = k
    /\ \A k \in DOMAIN inbox'[p] : from[p][k] # n

\* A row goes only with its newest handle, which that message was.
RowsKept(p, n) ==
    /\ lrow' \in [Message -> Rows]
    /\ \A m \in Message :
          /\ lrow'[m].receipt = lrow[m].receipt
          /\ \/ lrow'[m] = lrow[m]
             \/ /\ n \in DOMAIN inbox[p]
                /\ inbox[p][n].msg = m /\ inbox[p][n].receipt = lrow[m].receipt

LEMMA FewerHeld ==
    ASSUME QueueInv, NEW p \in Process, NEW n, NEW from, StillHeld(from, p, n), RowsKept(p, n)
    PROVE  QueueInv'
  <1> USE DEF StillHeld, RowsKept
  <1>1. QueueTypeOK'
    BY DEF QueueTypeOK
  <1>2. EachReceiptOnce'
    <2> SUFFICES ASSUME NEW q \in Process, NEW r \in Process, NEW i \in DOMAIN inbox'[q],
                        NEW k \in DOMAIN inbox'[r], inbox'[q][i].msg = inbox'[r][k].msg,
                        inbox'[q][i].receipt = inbox'[r][k].receipt
                 PROVE  q = r /\ i = k
      BY DEF EachReceiptOnce
    <2>1. PICK a \in DOMAIN inbox[q] : a = from[q][i] /\ inbox'[q][i] = inbox[q][a]
      OBVIOUS
    <2>2. PICK b \in DOMAIN inbox[r] : b = from[r][k] /\ inbox'[r][k] = inbox[r][b]
      OBVIOUS
    <2>3. inbox[q][a].msg = inbox[r][b].msg /\ inbox[q][a].receipt = inbox[r][b].receipt
      BY <2>1, <2>2
    <2>4. q = r /\ a = b
      <3>1. EachReceiptOnce
        BY DEF QueueInv
      <3> HIDE DEF StillHeld, RowsKept
      <3> QED
        BY <2>3, <3>1 DEF EachReceiptOnce
    <2> QED
      BY <2>1, <2>2, <2>4
  <1>3. ASSUME NEW q \in Process, NEW k \in DOMAIN inbox'[q]
        PROVE  /\ inbox'[q][k].receipt <= lrow'[inbox'[q][k].msg].receipt
               /\ inbox'[q][k].receipt = lrow'[inbox'[q][k].msg].receipt =>
                     lrow'[inbox'[q][k].msg].state \in {"visible", "hidden"}
    <2>1. PICK j \in DOMAIN inbox[q] : j = from[q][k] /\ inbox'[q][k] = inbox[q][j]
      OBVIOUS
    <2>2. PICK item \in Items : item = inbox[q][j]
      BY Held DEF QueueInv
    <2>3. PICK m \in Message : m = item.msg
      BY <2>2 DEF Items
    <2>4. /\ item.receipt <= lrow[m].receipt /\ lrow'[m].receipt = lrow[m].receipt
          /\ item.receipt = lrow[m].receipt => lrow[m].state \in {"visible", "hidden"}
      BY <2>2, <2>3 DEF QueueInv, ReceiptsGrow, UnhandledStaysQueued, HoldsMessage
    <2>5. ASSUME item.receipt = lrow[m].receipt
          PROVE  lrow'[m] = lrow[m]
      <3>1. SUFFICES ASSUME n \in DOMAIN inbox[p], inbox[p][n].msg = m,
                            inbox[p][n].receipt = lrow[m].receipt
                     PROVE  FALSE
        OBVIOUS
      <3>2. q = p /\ j = n
        BY <2>2, <2>3, <2>5, <3>1 DEF QueueInv, EachReceiptOnce
      <3> QED
        BY <2>1, <3>2
    <2> QED
      BY <2>1, <2>2, <2>3, <2>4, <2>5
  <1>4. ReceiptsGrow' /\ UnhandledStaysQueued'
    BY <1>3 DEF ReceiptsGrow, UnhandledStaysQueued, HoldsMessage
  <1> QED
    BY <1>1, <1>2, <1>4 DEF QueueInv

\* Handling a message ends, with a delete or without one.
LEMMA HandledStep ==
    ASSUME QueueInv, NEW p \in Process, LocalAcknowledge(p) \/ LocalLeave(p)
    PROVE  QueueInv'
  <1> DEFINE from == [q \in Process |-> [k \in Nat |-> IF q = p THEN k + 1 ELSE k]]
  <1>1. inbox[p] \in Seq(Items) /\ inbox[p] # <<>> /\ inbox' = [inbox EXCEPT ![p] = Tail(@)]
    BY DEF LocalAcknowledge, LocalLeave, QueueInv, QueueTypeOK
  <1>2. /\ Tail(inbox[p]) \in Seq(Items) /\ 1 \in DOMAIN inbox[p] /\ Head(inbox[p]) = inbox[p][1]
        /\ \A k \in DOMAIN Tail(inbox[p]) : /\ k \in Nat \ {0} /\ k + 1 \in DOMAIN inbox[p]
                                           /\ Tail(inbox[p])[k] = inbox[p][k + 1]
    BY <1>1
  <1>3. /\ inbox' \in [Process -> Seq(Items)] /\ inbox'[p] = Tail(inbox[p])
        /\ \A q \in Process \ {p} : inbox'[q] = inbox[q]
    BY <1>1, <1>2 DEF QueueInv, QueueTypeOK
  <1>4. ASSUME NEW q \in Process, NEW k \in DOMAIN inbox'[q]
        PROVE  /\ k \in Nat \ {0} /\ from[q][k] \in DOMAIN inbox[q]
               /\ inbox'[q][k] = inbox[q][from[q][k]]
               /\ from[q][k] = IF q = p THEN k + 1 ELSE k
    <2>1. inbox'[q] \in Seq(Items)
      BY <1>3
    <2>2. k \in Nat \ {0} /\ from[q][k] = IF q = p THEN k + 1 ELSE k
      BY <2>1
    <2> QED
      BY <1>2, <1>3, <2>2
  <1> HIDE DEF from
  <1>5. \A q \in Process : \A n, k \in DOMAIN inbox'[q] : from[q][n] = from[q][k] => n = k
    BY <1>4
  <1>6. \A k \in DOMAIN inbox'[p] : from[p][k] # 1
    BY <1>4
  <1>7. PICK item \in Items : item = inbox[p][1]
    BY <1>2, Held DEF QueueInv
  <1>8. /\ lrow' \in [Message -> Rows] /\ \A m \in Message : lrow'[m].receipt = lrow[m].receipt
        /\ \A m \in Message : \/ lrow'[m] = lrow[m]
                              \/ item.msg = m /\ item.receipt = lrow[m].receipt
    <2>1. CASE lrow' = lrow
      BY <2>1 DEF QueueInv, QueueTypeOK
    <2>2. CASE lrow' # lrow
      <3>1. lrow' = [lrow EXCEPT ![item.msg].state = "deleted"] /\ lrow[item.msg].receipt = item.receipt
        BY <1>2, <1>7, <2>2 DEF LocalAcknowledge, LocalLeave, HoldsReceipt
      <3> QED
        BY <3>1 DEF QueueInv, QueueTypeOK, Items, Rows
    <2> QED
      BY <2>1, <2>2
  <1> QED
    <2>1. StillHeld(from, p, 1)
      BY <1>3, <1>4, <1>5, <1>6 DEF StillHeld
    <2>2. RowsKept(p, 1)
      BY <1>2, <1>7, <1>8 DEF RowsKept
    <2> QED
      BY <2>1, <2>2, FewerHeld

\* The process ends with what it holds.
LEMMA StopsStep ==
    ASSUME QueueInv, NEW p \in Process, TransportStops(p)
    PROVE  QueueInv'
  <1> DEFINE from == [q \in Process |-> [k \in Nat |-> k]]
  <1>1. /\ inbox' \in [Process -> Seq(Items)] /\ inbox'[p] = <<>>
        /\ \A q \in Process \ {p} : inbox'[q] = inbox[q]
        /\ lrow' = lrow
    BY DEF TransportStops, QueueInv, QueueTypeOK
  <1>2. ASSUME NEW q \in Process, NEW k \in DOMAIN inbox'[q]
        PROVE  /\ k \in Nat \ {0} /\ from[q][k] = k /\ k \in DOMAIN inbox[q]
               /\ inbox'[q][k] = inbox[q][k]
    <2>1. inbox'[q] \in Seq(Items)
      BY <1>1
    <2> QED
      BY <1>1, <2>1
  <1> HIDE DEF from
  <1> QED
    <2>1. StillHeld(from, p, 0)
      BY <1>1, <1>2 DEF StillHeld
    <2>2. RowsKept(p, 0)
      BY <1>1 DEF RowsKept, QueueInv, QueueTypeOK
    <2> QED
      BY <2>1, <2>2, FewerHeld

\* A row becomes visible or is hidden again, under the handle it has.
LEMMA VisibilityStep ==
    ASSUME QueueInv, UNCHANGED inbox, NEW m \in Message, NEW state \in {"visible", "hidden"},
           lrow' = [lrow EXCEPT ![m].state = state]
    PROVE  QueueInv'
  <1>1. /\ lrow' \in [Message -> Rows]
        /\ \A o \in Message : /\ lrow'[o].receipt = lrow[o].receipt
                              /\ lrow'[o].state = IF o = m THEN state ELSE lrow[o].state
    BY DEF QueueInv, QueueTypeOK, Rows
  <1>2. QueueTypeOK' /\ EachReceiptOnce'
    BY <1>1 DEF QueueInv, QueueTypeOK, EachReceiptOnce
  <1>3. ReceiptsGrow' /\ UnhandledStaysQueued'
    BY <1>1, Held DEF QueueInv, ReceiptsGrow, UnhandledStaysQueued, HoldsMessage
  <1> QED
    BY <1>2, <1>3 DEF QueueInv

LEMMA QueueInvariant == TransportSpec => []QueueInv
  <1>1. TransportInit => QueueInv
    BY DEF TransportInit, NoRow, QueueInv, QueueTypeOK, Rows, EachReceiptOnce, ReceiptsGrow, UnhandledStaysQueued
  <1>2. QueueInv /\ [TransportNext]_transportVars => QueueInv'
    <2> SUFFICES ASSUME QueueInv, [TransportNext]_transportVars
                 PROVE  QueueInv'
      OBVIOUS
    <2>1. ASSUME NEW m \in Message, LocalSend(m) \/ BecomesVisible(m)
          PROVE  QueueInv'
      BY <2>1, VisibilityStep DEF LocalSend, BecomesVisible
    <2>2. ASSUME NEW p \in Process, LocalExtend(p)
          PROVE  QueueInv'
      <3>1. inbox[p] \in Seq(Items) /\ inbox[p] # <<>>
        BY <2>2 DEF LocalExtend, QueueInv, QueueTypeOK
      <3>2. Head(inbox[p]) \in Items
        BY <3>1
      <3>3. Head(inbox[p]).msg \in Message
        BY <3>2 DEF Items
      <3> QED
        BY <2>2, <3>3, VisibilityStep DEF LocalExtend
    <2>3. ASSUME NEW p \in Process, LocalReceive(p)
          PROVE  QueueInv'
      BY <2>3, ReceiveStep
    <2>4. ASSUME NEW p \in Process, LocalAcknowledge(p) \/ LocalLeave(p)
          PROVE  QueueInv'
      BY <2>4, HandledStep
    <2>5. ASSUME NEW p \in Process, TransportStops(p)
          PROVE  QueueInv'
      BY <2>5, StopsStep
    <2>6. CASE UNCHANGED <<lrow, inbox>>
      BY <2>6 DEF QueueInv, QueueTypeOK, EachReceiptOnce, ReceiptsGrow, UnhandledStaysQueued, HoldsMessage
    <2> QED
      BY <2>1, <2>2, <2>3, <2>4, <2>5, <2>6
         DEF TransportNext, transportVars, LocalCreate, LocalCleanup, InvokeStarts, InvokeEnds
  <1> QED
    BY <1>1, <1>2, PTL DEF TransportSpec

\* A message that a process holds and nobody received since is in the queue: a
\* late delete by an earlier receiver removes nothing
\* (LocalExecutionQueueClient.receive_messages, delete_message).
THEOREM UnhandledIsQueued == TransportSpec => []UnhandledStaysQueued
  <1>1. QueueInv => UnhandledStaysQueued
    BY DEF QueueInv
  <1> QED
    BY <1>1, QueueInvariant, PTL

-----------------------------------------------------------------------------
(* The thread pools.                                                       *)

\* Attempts are numbered by the database, so no two requests have the same.
\* The future of an execution is none, or of the newest attempt its process
\* started, and not done before that one's request has left the pool.
Requests == [process : Process, of : LocalExecutions, attempt : Nat \ {0}, running : BOOLEAN]
Futures == [attempt : Nat, done : BOOLEAN]

PoolTypeOK ==
    /\ invocation \subseteq Requests
    /\ future \in [Process -> [LocalExecutions -> Futures]]
    /\ attempts \in [LocalExecutions -> Nat]
RequestOK(i) ==
    /\ i.attempt <= attempts[i.of]
    /\ LET f == future[i.process][i.of]
       IN  f # NoFuture => f.attempt >= i.attempt /\ (f.done => f.attempt > i.attempt)
PoolInv ==
    /\ PoolTypeOK
    /\ \A i, j \in invocation : i.of = j.of /\ i.attempt = j.attempt => i = j
    /\ \A i \in invocation : RequestOK(i)
    /\ \A p \in Process, x \in LocalExecutions : future[p][x].attempt <= attempts[x]

\* The future of one execution in one process changes.
LEMMA OneFuture ==
    ASSUME PoolTypeOK, NEW p \in Process, NEW x \in LocalExecutions, NEW f \in Futures,
           future' = [future EXCEPT ![p][x] = f]
    PROVE  /\ future' \in [Process -> [LocalExecutions -> Futures]]
           /\ \A q \in Process, y \in LocalExecutions :
                future'[q][y] = IF q = p /\ y = x THEN f ELSE future[q][y]
  BY DEF PoolTypeOK

\* _create.
LEMMA LocalCreateStep ==
    ASSUME QueueInv, PoolInv, NEW p \in Process, LocalCreate(p)
    PROVE  PoolInv'
  <1>1. PICK x \in LocalExecutions : x = About[Head(inbox[p]).msg]
    <2>1. inbox[p] \in Seq(Items) /\ inbox[p] # <<>>
      BY DEF LocalCreate, QueueInv, QueueTypeOK
    <2>2. Head(inbox[p]) \in Items
      BY <2>1
    <2>3. Head(inbox[p]).msg \in Message
      BY <2>2 DEF Items
    <2> QED
      BY <2>3 DEF LocalExecutions
  <1> DEFINE number == attempts[x] + 1
             f == [attempt |-> number, done |-> FALSE]
             new == [process |-> p, of |-> x, attempt |-> number, running |-> FALSE]
  <1>2. /\ attempts' = [attempts EXCEPT ![x] = number] /\ future' = [future EXCEPT ![p][x] = f]
        /\ invocation' = invocation \cup {new}
    BY <1>1 DEF LocalCreate, Created
  <1>3. number \in Nat \ {0} /\ f \in Futures /\ new \in Requests
    BY DEF PoolInv, PoolTypeOK, Futures, Requests
  <1>4. /\ f.attempt = number /\ ~f.done
        /\ new.process = p /\ new.of = x /\ new.attempt = number
    OBVIOUS
  <1> HIDE DEF f, new
  <1>5. /\ attempts' \in [LocalExecutions -> Nat] /\ attempts'[x] = number /\ number > attempts[x]
        /\ \A y \in LocalExecutions \ {x} : attempts'[y] = attempts[y]
    BY <1>2, <1>3 DEF PoolInv, PoolTypeOK
  <1>6. /\ future' \in [Process -> [LocalExecutions -> Futures]]
        /\ \A q \in Process, y \in LocalExecutions :
             future'[q][y] = IF q = p /\ y = x THEN f ELSE future[q][y]
    BY <1>2, <1>3, OneFuture DEF PoolInv
  <1> HIDE DEF number
  <1>7. PoolTypeOK'
    BY <1>2, <1>3, <1>5, <1>6 DEF PoolInv, PoolTypeOK
  <1>8. \A i \in invocation : /\ i \in Requests /\ i.process \in Process /\ i.of \in LocalExecutions
                              /\ i.attempt \in Nat /\ i.attempt <= attempts[i.of] /\ attempts[i.of] \in Nat
                              /\ i.of = x => i.attempt < number
    BY <1>3, <1>5 DEF PoolInv, PoolTypeOK, RequestOK, Requests
  <1>9. ASSUME NEW i \in invocation'
        PROVE  RequestOK(i)'
    <2>1. CASE i = new
      BY <1>3, <1>4, <1>5, <1>6, <2>1 DEF RequestOK
    <2>2. CASE i # new
      <3>1. i \in invocation /\ RequestOK(i)
        BY <1>2, <2>2 DEF PoolInv
      <3> QED
        BY <1>3, <1>4, <1>5, <1>6, <1>8, <3>1 DEF RequestOK
    <2> QED
      BY <2>1, <2>2
  <1>10. \A i, j \in invocation' : i.of = j.of /\ i.attempt = j.attempt => i = j
    BY <1>2, <1>3, <1>4, <1>8 DEF PoolInv
  <1>11. \A q \in Process, y \in LocalExecutions : future'[q][y].attempt <= attempts'[y]
    <2> SUFFICES ASSUME NEW q \in Process, NEW y \in LocalExecutions
                 PROVE  future'[q][y].attempt <= attempts'[y]
      OBVIOUS
    <2>1. /\ future[q][y].attempt <= attempts[y] /\ attempts[y] \in Nat
          /\ future[q][y].attempt \in Nat /\ attempts[x] \in Nat
      BY DEF PoolInv, PoolTypeOK, Futures
    <2>2. CASE y = x
      BY <1>3, <1>4, <1>5, <1>6, <2>1, <2>2
    <2>3. CASE y # x
      BY <1>5, <1>6, <2>1, <2>3
    <2> QED
      BY <2>2, <2>3
  <1> QED
    BY <1>7, <1>9, <1>10, <1>11 DEF PoolInv

\* A pool thread takes a request.
LEMMA InvokeStartsStep ==
    ASSUME PoolInv, NEW i \in invocation, InvokeStarts(i)
    PROVE  PoolInv'
  <1> DEFINE new == [i EXCEPT !.running = TRUE]
  <1>1. /\ i \in Requests /\ new \in Requests
        /\ new.process = i.process /\ new.of = i.of /\ new.attempt = i.attempt
    BY DEF PoolInv, PoolTypeOK, Requests
  <1>2. invocation' = (invocation \ {i}) \cup {new} /\ UNCHANGED <<future, attempts>>
    BY DEF InvokeStarts
  <1> HIDE DEF new
  <1>3. PoolTypeOK'
    BY <1>1, <1>2 DEF PoolInv, PoolTypeOK
  <1>4. \A j \in invocation' : RequestOK(j)'
    BY <1>1, <1>2 DEF PoolInv, RequestOK
  <1>5. \A j, k \in invocation' : j.of = k.of /\ j.attempt = k.attempt => j = k
    BY <1>1, <1>2 DEF PoolInv
  <1> QED
    BY <1>2, <1>3, <1>4, <1>5 DEF PoolInv

\* It answers: its future is done, if it is still that request's.
LEMMA InvokeEndsStep ==
    ASSUME PoolInv, NEW i \in invocation, InvokeEnds(i)
    PROVE  PoolInv'
  <1>1. invocation' = invocation \ {i} /\ UNCHANGED attempts
    BY DEF InvokeEnds
  <1>2. PICK p \in Process, x \in LocalExecutions, n \in Nat \ {0} :
           p = i.process /\ x = i.of /\ n = i.attempt
    BY DEF PoolInv, PoolTypeOK, Requests
  <1>3. CASE future[p][x].attempt = n
    <2>0. PICK g \in Futures : g = future[p][x]
      BY DEF PoolInv, PoolTypeOK
    <2> DEFINE f == [g EXCEPT !.done = TRUE]
    <2>1. f \in Futures /\ f.attempt = n
      BY <1>3, <2>0 DEF Futures
    <2>2. future' = [future EXCEPT ![p][x] = f]
      BY <1>2, <1>3, <2>0 DEF InvokeEnds
    <2> HIDE DEF f
    <2>3. /\ future' \in [Process -> [LocalExecutions -> Futures]]
          /\ \A q \in Process, y \in LocalExecutions :
               future'[q][y] = IF q = p /\ y = x THEN f ELSE future[q][y]
      BY <2>1, <2>2, OneFuture DEF PoolInv
    <2>4. PoolTypeOK'
      BY <1>1, <2>3 DEF PoolInv, PoolTypeOK
    <2>5. ASSUME NEW j \in invocation'
          PROVE  RequestOK(j)'
      <3>1. /\ j \in invocation /\ j # i /\ RequestOK(j)
            /\ j.process \in Process /\ j.of \in LocalExecutions /\ j.attempt \in Nat
        BY <1>1 DEF PoolInv, PoolTypeOK, Requests
      <3>2. CASE j.process = p /\ j.of = x
        <4>1. future[p][x] # NoFuture
          BY <1>2, <1>3 DEF NoFuture
        <4>2. j.attempt <= n /\ j.attempt # n
          BY <1>2, <1>3, <3>1, <3>2, <4>1 DEF PoolInv, RequestOK
        <4>3. future'[j.process][j.of] = f /\ f.attempt > j.attempt
          BY <1>2, <2>1, <2>3, <3>1, <3>2, <4>2
        <4>4. j.attempt <= attempts'[j.of]
          BY <1>1, <3>1 DEF RequestOK
        <4> QED
          BY <2>1, <3>1, <4>3, <4>4 DEF RequestOK
      <3>3. CASE ~(j.process = p /\ j.of = x)
        <4>1. future'[j.process][j.of] = future[j.process][j.of]
          BY <2>3, <3>1, <3>3
        <4> QED
          BY <1>1, <3>1, <4>1 DEF RequestOK
      <3> QED
        BY <3>2, <3>3
    <2>6. \A q \in Process, y \in LocalExecutions : future'[q][y].attempt <= attempts'[y]
      BY <1>1, <1>3, <2>1, <2>3 DEF PoolInv
    <2> QED
      BY <1>1, <2>4, <2>5, <2>6 DEF PoolInv
  <1>4. CASE future[p][x].attempt # n
    <2>1. UNCHANGED future
      BY <1>2, <1>4 DEF InvokeEnds
    <2> QED
      BY <1>1, <2>1 DEF PoolInv, PoolTypeOK, RequestOK
  <1> QED
    BY <1>3, <1>4

\* cleanup.
LEMMA LocalCleanupStep ==
    ASSUME PoolInv, NEW p \in Process, NEW x \in LocalExecutions, LocalCleanup(p, x)
    PROVE  PoolInv'
  <1>1. NoFuture \in Futures /\ NoFuture.attempt = 0
    BY DEF NoFuture, Futures
  <1>2. /\ future' = [future EXCEPT ![p][x] = NoFuture] /\ invocation' \subseteq invocation
        /\ UNCHANGED attempts
    BY DEF LocalCleanup
  <1>3. /\ future' \in [Process -> [LocalExecutions -> Futures]]
        /\ \A q \in Process, y \in LocalExecutions :
             future'[q][y] = IF q = p /\ y = x THEN NoFuture ELSE future[q][y]
    BY <1>1, <1>2, OneFuture DEF PoolInv
  <1>4. PoolTypeOK'
    BY <1>2, <1>3 DEF PoolInv, PoolTypeOK
  <1>5. ASSUME NEW j \in invocation'
        PROVE  RequestOK(j)'
    <2>1. RequestOK(j) /\ j.process \in Process /\ j.of \in LocalExecutions
      BY <1>2 DEF PoolInv, PoolTypeOK, Requests
    <2> QED
      BY <1>2, <1>3, <2>1 DEF RequestOK
  <1>6. \A q \in Process, y \in LocalExecutions : future'[q][y].attempt <= attempts'[y]
    BY <1>1, <1>2, <1>3 DEF PoolInv, PoolTypeOK
  <1> QED
    BY <1>2, <1>4, <1>5, <1>6 DEF PoolInv

\* The process ends.
LEMMA PoolStopsStep ==
    ASSUME PoolInv, NEW p \in Process, TransportStops(p)
    PROVE  PoolInv'
  <1>1. NoFuture \in Futures /\ NoFuture.attempt = 0
    BY DEF NoFuture, Futures
  <1>2. /\ future' = [future EXCEPT ![p] = [x \in LocalExecutions |-> NoFuture]]
        /\ invocation' \subseteq invocation /\ UNCHANGED attempts
    BY DEF TransportStops, PoolInv, PoolTypeOK
  <1>3. /\ future' \in [Process -> [LocalExecutions -> Futures]]
        /\ \A q \in Process, y \in LocalExecutions :
             future'[q][y] = IF q = p THEN NoFuture ELSE future[q][y]
    BY <1>1, <1>2 DEF PoolInv, PoolTypeOK
  <1>4. PoolTypeOK'
    BY <1>2, <1>3 DEF PoolInv, PoolTypeOK
  <1>5. ASSUME NEW j \in invocation'
        PROVE  RequestOK(j)'
    <2>1. RequestOK(j) /\ j.process \in Process /\ j.of \in LocalExecutions
      BY <1>2 DEF PoolInv, PoolTypeOK, Requests
    <2> QED
      BY <1>2, <1>3, <2>1 DEF RequestOK
  <1>6. \A q \in Process, y \in LocalExecutions : future'[q][y].attempt <= attempts'[y]
    BY <1>1, <1>2, <1>3 DEF PoolInv, PoolTypeOK
  <1> QED
    BY <1>2, <1>4, <1>5, <1>6 DEF PoolInv

\* A result observed for an execution is of the newest attempt its process
\* started, whatever an earlier one left in the pool (_create, _invoke, cleanup,
\* observe).
THEOREM NewestIsObserved == TransportSpec => []ObservesNewestRequest
  <1>1. TransportInit => PoolInv
    BY DEF TransportInit, PoolInv, PoolTypeOK, NoFuture, Futures
  <1>2. QueueInv /\ PoolInv /\ [TransportNext]_transportVars => PoolInv'
    <2> SUFFICES ASSUME QueueInv, PoolInv, [TransportNext]_transportVars
                 PROVE  PoolInv'
      OBVIOUS
    <2>1. ASSUME NEW p \in Process, LocalCreate(p)
          PROVE  PoolInv'
      BY <2>1, LocalCreateStep
    <2>2. ASSUME NEW p \in Process, NEW x \in LocalExecutions, LocalCleanup(p, x)
          PROVE  PoolInv'
      BY <2>2, LocalCleanupStep
    <2>3. ASSUME NEW p \in Process, TransportStops(p)
          PROVE  PoolInv'
      BY <2>3, PoolStopsStep
    <2>4. ASSUME NEW i \in invocation, InvokeStarts(i) \/ InvokeEnds(i)
          PROVE  PoolInv'
      BY <2>4, InvokeStartsStep, InvokeEndsStep
    <2>5. CASE UNCHANGED <<future, invocation, attempts>>
      BY <2>5 DEF PoolInv, PoolTypeOK, RequestOK
    <2> QED
      BY <2>1, <2>2, <2>3, <2>4, <2>5
         DEF TransportNext, transportVars, LocalSend, BecomesVisible, LocalExtend,
             LocalReceive, LocalAcknowledge, LocalLeave
  <1>3. PoolInv => ObservesNewestRequest
    <2> SUFFICES ASSUME PoolInv, NEW p \in Process, NEW i \in invocation, i.process = p,
                        ObserveLocal(p, i.of) = "DONE"
                 PROVE  future[p][i.of].attempt > i.attempt
      BY DEF ObservesNewestRequest
    <2>1. future[p][i.of] # NoFuture /\ future[p][i.of].done
      BY DEF ObserveLocal
    <2> QED
      BY <2>1 DEF PoolInv, RequestOK
  <1> QED
    BY <1>1, <1>2, <1>3, QueueInvariant, PTL DEF TransportSpec
=============================================================================

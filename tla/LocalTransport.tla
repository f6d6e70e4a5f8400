--------------------------- MODULE LocalTransport ---------------------------
(***************************************************************************)
(* What the local execution controller puts in the place of SQS and        *)
(* Kubernetes (local_execution_controller.py): a queue in a PostgreSQL     *)
(* table and an executor that posts requests to runner containers from a   *)
(* thread pool.  ExecutionController models the controller above them.     *)
(*                                                                         *)
(* A controller receives a batch of messages and handles them one after    *)
(* the other; each may run long, so the messages behind it become visible  *)
(* again and reach another controller.  Handling a message may start,      *)
(* observe and clean up a sandbox and ends with or without a delete.       *)
(***************************************************************************)
EXTENDS Naturals, Sequences, FiniteSets, SequencesExt

CONSTANTS
    Message,       \* rows of local_execution_queue
    About,         \* the execution of each message
    Process,       \* controllers
    Slots,         \* maximum_parallel of an executor
    MaxReceives,   \* bound on receive_count
    MaxAttempt     \* bound on attempts of an execution

ASSUME TransportAssumption ==
    /\ IsFiniteSet(Message) /\ DOMAIN About = Message
    /\ Slots \in Nat \ {0} /\ MaxReceives \in Nat /\ MaxAttempt \in Nat

LocalExecutions == {About[m] : m \in Message}

VARIABLES
    lrow,        \* local_execution_queue: visibility and the newest receipt handle
    inbox,       \* the received messages each process has still to handle, with their handles
    future,      \* _futures and _attempts of each process, by execution
    invocation,  \* requests of each process in the thread pool
    attempts     \* execution_requests.attempt_count

transportVars == <<lrow, inbox, future, invocation, attempts>>

NoRow == [state |-> "absent", receipt |-> 0]
NoFuture == [attempt |-> 0, done |-> FALSE]

TransportInit ==
    /\ lrow = [m \in Message |-> NoRow]
    /\ inbox = [p \in Process |-> <<>>]
    /\ future = [p \in Process |-> [x \in LocalExecutions |-> NoFuture]]
    /\ invocation = {}
    /\ attempts = [x \in LocalExecutions |-> 0]

-----------------------------------------------------------------------------
(* LocalExecutionQueueClient.                                              *)

(* send_message; the row is visible at once.                               *)
LocalSend(m) ==
    /\ lrow[m] = NoRow
    /\ lrow' = [lrow EXCEPT ![m].state = "visible"]
    /\ UNCHANGED <<inbox, future, invocation, attempts>>

(* receive_messages: the visible rows, in the order of their creation,     *)
(* under new receipt handles.                                              *)
LocalReceive(p) ==
    LET got == {m \in Message : lrow[m].state = "visible" /\ lrow[m].receipt < MaxReceives}
        order == SetToSeq(got) IN
    /\ inbox[p] = <<>> /\ got # {}
    /\ lrow' = [m \in Message |-> IF m \in got THEN [state |-> "hidden", receipt |-> lrow[m].receipt + 1]
                                  ELSE lrow[m]]
    /\ inbox' = [inbox EXCEPT ![p] =
                    [n \in DOMAIN order |-> [msg |-> order[n], receipt |-> lrow[order[n]].receipt + 1]]]
    /\ UNCHANGED <<future, invocation, attempts>>

(* The clock passes visible_at.                                            *)
BecomesVisible(m) ==
    /\ lrow[m].state = "hidden"
    /\ lrow' = [lrow EXCEPT ![m].state = "visible"]
    /\ UNCHANGED <<inbox, future, invocation, attempts>>

HoldsMessage(item) == lrow[item.msg].state \in {"visible", "hidden"}
HoldsReceipt(item) == HoldsMessage(item) /\ lrow[item.msg].receipt = item.receipt

(* change_message_visibility while a sandbox is monitored.                 *)
LocalExtend(p) ==
    /\ inbox[p] # <<>> /\ HoldsReceipt(Head(inbox[p]))
    /\ lrow' = [lrow EXCEPT ![Head(inbox[p]).msg].state = "hidden"]
    /\ UNCHANGED <<inbox, future, invocation, attempts>>

(* process_message ends; delete_message finds the row by its receipt.      *)
LocalAcknowledge(p) ==
    /\ inbox[p] # <<>>
    /\ lrow' = IF HoldsReceipt(Head(inbox[p]))
               THEN [lrow EXCEPT ![Head(inbox[p]).msg].state = "deleted"] ELSE lrow
    /\ inbox' = [inbox EXCEPT ![p] = Tail(@)]
    /\ UNCHANGED <<future, invocation, attempts>>

(* It ends without a delete: deferred, lost, or an exception.              *)
LocalLeave(p) ==
    /\ inbox[p] # <<>>
    /\ inbox' = [inbox EXCEPT ![p] = Tail(@)]
    /\ UNCHANGED <<lrow, future, invocation, attempts>>

-----------------------------------------------------------------------------
(* LocalHttpSandboxExecutor, used for the message at hand.                 *)

Running(p) == {i \in invocation : i.process = p /\ i.running}

(* Mutant: an earlier future is kept.                                   *)
CreateUnlessPresent(p, x) ==
    IF future[p][x] # NoFuture THEN future
    ELSE [future EXCEPT ![p][x] = [attempt |-> attempts[x] + 1, done |-> FALSE]]

(* _create stores its future over an earlier one; that one's request stays *)
(* in the pool.                                                            *)
Created(p, x) == [future EXCEPT ![p][x] = [attempt |-> attempts[x] + 1, done |-> FALSE]]

LocalCreate(p) ==
    LET x == About[Head(inbox[p]).msg] IN
    /\ inbox[p] # <<>> /\ attempts[x] < MaxAttempt
    /\ attempts' = [attempts EXCEPT ![x] = @ + 1]
    /\ future' = Created(p, x)
    /\ invocation' = invocation \cup {[process |-> p, of |-> x, attempt |-> attempts[x] + 1,
                                        running |-> FALSE]}
    /\ UNCHANGED <<lrow, inbox>>

(* A pool thread takes the next request, and answers it or fails.          *)
InvokeStarts(i) ==
    /\ ~i.running /\ Cardinality(Running(i.process)) < Slots
    /\ invocation' = (invocation \ {i}) \cup {[i EXCEPT !.running = TRUE]}
    /\ UNCHANGED <<lrow, inbox, future, attempts>>

InvokeEnds(i) ==
    /\ i.running
    /\ invocation' = invocation \ {i}
    /\ future' = IF future[i.process][i.of].attempt = i.attempt
                 THEN [future EXCEPT ![i.process][i.of].done = TRUE] ELSE future
    /\ UNCHANGED <<lrow, inbox, attempts>>

(* observe.                                                                *)
ObserveLocal(p, x) ==
    IF future[p][x] = NoFuture THEN "MISSING" ELSE IF future[p][x].done THEN "DONE" ELSE "RUNNING"

(* cleanup cancels a request that is still waiting; a running one goes on. *)
LocalCleanup(p, x) ==
    /\ ObserveLocal(p, x) # "MISSING"
    /\ future' = [future EXCEPT ![p][x] = NoFuture]
    /\ invocation' = {i \in invocation : i.running \/ i.process # p \/ i.of # x
                                          \/ i.attempt # future[p][x].attempt}
    /\ UNCHANGED <<lrow, inbox, attempts>>

(* The process ends: close() and everything in memory is gone.             *)
TransportStops(p) ==
    /\ inbox[p] # <<>> \/ \E x \in LocalExecutions : future[p][x] # NoFuture
    /\ inbox' = [inbox EXCEPT ![p] = <<>>]
    /\ future' = [future EXCEPT ![p] = [x \in LocalExecutions |-> NoFuture]]
    /\ invocation' = {i \in invocation : i.process # p}
    /\ UNCHANGED <<lrow, attempts>>

TransportNext ==
    \/ \E m \in Message : LocalSend(m) \/ BecomesVisible(m)
    \/ \E p \in Process : \/ LocalReceive(p) \/ LocalExtend(p) \/ LocalAcknowledge(p) \/ LocalLeave(p)
                          \/ LocalCreate(p) \/ TransportStops(p)
                          \/ \E x \in LocalExecutions : LocalCleanup(p, x)
    \/ \E i \in invocation : InvokeStarts(i) \/ InvokeEnds(i)

TransportSpec == TransportInit /\ [][TransportNext]_transportVars

-----------------------------------------------------------------------------
(* A message that some process has received last and not yet handled is    *)
(* still in the queue, so that a crash of that process loses nothing: a    *)
(* late delete by an earlier receiver must not remove it.                  *)
UnhandledStaysQueued ==
    \A p \in Process : \A n \in DOMAIN inbox[p] :
        inbox[p][n].receipt = lrow[inbox[p][n].msg].receipt => HoldsMessage(inbox[p][n])

(* A result observed for the message at hand belongs to the newest attempt *)
(* this process started for its execution, whatever was left in the pool   *)
(* by an earlier one: a newer request of the process is never hidden       *)
(* behind an older future.                                                 *)
ObservesNewestRequest ==
    \A p \in Process : \A i \in invocation :
        i.process = p /\ ObserveLocal(p, i.of) = "DONE" => future[p][i.of].attempt > i.attempt
=============================================================================

---------------------------- MODULE CandidateApi ----------------------------
(***************************************************************************)
(* The API a candidate works with: practice sessions (practice.py) and the *)
(* RUN and SUBMIT requests of execution_api.py, against the execution      *)
(* service seen through its promise, ExecutionOutcome.  One candidate, one *)
(* published question and runtime.                                         *)
(*                                                                         *)
(* A request is one READ COMMITTED transaction.  It opens with ensure_user *)
(* (principal_transaction), whose upsert locks the candidate's users row   *)
(* until commit; Check is what it reads, Write what it writes and commits. *)
(* The execution controllers take no users lock, so their transactions     *)
(* fall between a Check and its Write.                                     *)
(***************************************************************************)
EXTENDS ExecutionOutcome, FiniteSets

CONSTANTS
    Session,      \* ids of practice_sessions rows
    Request,      \* API threads serving the candidate's requests
    Key,          \* values of the Idempotency-Key header
    Source,       \* submitted sources; a source stands for its hash
    Nobody,       \* no request, no session, no key
    MaxRuns,      \* MAX_ACTIVE_RUNS_PER_CANDIDATE
    MaxSubmits,   \* MAX_ACTIVE_SUBMITS_PER_CANDIDATE
    Hints,        \* number of hints of the question
    MaxEvents     \* bound on the events of a session

Runs == Execution \ Submits

ASSUME ApiAssumption ==
    /\ Submits \subseteq Execution
    /\ Nobody \notin Request \cup Session
    /\ {MaxTries, MaxRuns, MaxSubmits, Hints, MaxEvents} \subseteq Nat

VARIABLES
    session,   \* practice_sessions.state
    draft,     \* practice_sessions.draft_code
    counts,    \* run_count, submission_count and hint_count
    events,    \* highest sequence_number of practice_session_events
    order,     \* session, key and source an execution was created with
    txn,       \* the transaction of each API thread
    lock,      \* the request whose transaction holds the users row
    closing    \* sequence number a finalizing controller is about to insert

pvars == <<session, draft, counts, events, order>>
avars == <<ovars, pvars, txn, lock, closing>>

OpenStates == {"IN_PROGRESS", "PAUSED"}
Operations == {"none", "create", "patch", "pause", "resume", "complete",
               "hint", "event", "run", "submit", "cancel"}
Starter == "starter"

NoOrder == [s |-> Nobody, k |-> Nobody, src |-> Starter]
Done == [pc |-> "idle", op |-> "none", s |-> Nobody, k |-> Nobody, src |-> Starter,
         e |-> Nobody, n |-> 0]

ApiInit ==
    /\ OutcomeInit
    /\ session = [s \in Session |-> "ABSENT"]
    /\ draft = [s \in Session |-> Starter]
    /\ counts = [s \in Session |-> [runs |-> 0, submits |-> 0, hints |-> 0]]
    /\ events = [s \in Session |-> 0]
    /\ order = [e \in Execution |-> NoOrder]
    /\ txn = [r \in Request |-> Done]
    /\ lock = Nobody
    /\ closing = [e \in Execution |-> 0]

-----------------------------------------------------------------------------
(* A request's transaction.                                                *)

\* The arguments a request of each kind comes with.
Arguments(op) ==
    [pc : {"check"}, op : {op}, n : {0},
     s : IF op \in {"create", "cancel"} THEN {Nobody} ELSE Session,
     k : IF op \in {"run", "submit"} THEN Key ELSE {Nobody},
     src : IF op \in {"patch", "run", "submit"} THEN Source ELSE {Starter},
     e : IF op = "cancel" THEN Execution ELSE {Nobody}]

\* Mutant: the users row is only read, so transactions overlap.
BeginUnlocked(r) ==
    /\ txn[r] = Done
    /\ \E op \in Operations \ {"none"} : \E t \in Arguments(op) : txn' = [txn EXCEPT ![r] = t]
    /\ UNCHANGED <<ovars, pvars, lock, closing>>

\* ensure_user waits for the users row and keeps it until the end.
Begin(r) ==
    /\ txn[r] = Done
    /\ lock = Nobody
    /\ \E op \in Operations \ {"none"} : \E t \in Arguments(op) : txn' = [txn EXCEPT ![r] = t]
    /\ lock' = r
    /\ UNCHANGED <<ovars, pvars, closing>>

Release(r) ==
    /\ txn' = [txn EXCEPT ![r] = Done]
    /\ lock' = IF lock = r THEN Nobody ELSE lock

Proceed(r, n) ==
    /\ txn' = [txn EXCEPT ![r].pc = "write", ![r].n = n]
    /\ UNCHANGED lock

\* An error response or a lost connection: nothing is kept.
Rollback(r) ==
    /\ txn[r].pc # "idle"
    /\ Release(r)
    /\ UNCHANGED <<ovars, pvars, closing>>

-----------------------------------------------------------------------------
(* What the transactions read.                                             *)

Active(kind) == {e \in kind : phase[e] \in {"accepted", "working"}}

\* Mutant: only executions that are still active are looked up.
KeyTakenByActive(kind, k) == \E e \in Active(kind) : order[e].k = k

KeyTaken(kind, k) == \E e \in kind : phase[e] # "absent" /\ order[e].k = k
Open(s) == session[s] \in OpenStates

\* create: find an open session of the question or make one.
CanCreate(t) == \A s \in Session : ~Open(s)

CanPatch(t) == Open(t.s)

\* The allowed sets of the transition routes.
CanTransition(t) ==
    \/ t.op = "pause" /\ session[t.s] = "IN_PROGRESS"
    \/ t.op = "resume" /\ session[t.s] = "PAUSED"
    \/ t.op = "complete" /\ session[t.s] = "SUBMITTED"

CanHint(t) == session[t.s] # "ABSENT" /\ counts[t.s].hints < Hints
CanAppend(t) == session[t.s] # "ABSENT" /\ events[t.s] < MaxEvents

\* _session_question
Executable(s) == session[s] \notin {"ABSENT", "COMPLETED"}

\* _existing_execution finds the key with the same request hash.
Repeats(t) ==
    \E e \in (IF t.op = "run" THEN Runs ELSE Submits) :
        phase[e] # "absent" /\ order[e] = [s |-> t.s, k |-> t.k, src |-> t.src]

CanAnswer(t) == t.op \in {"run", "submit"} /\ Executable(t.s) /\ Repeats(t)

\* _enforce_backpressure; a key used for another request is refused.
CanRun(t) ==
    /\ Executable(t.s)
    /\ ~KeyTaken(Runs, t.k)
    /\ Cardinality(Active(Runs)) < MaxRuns

CanSubmit(t) ==
    /\ Executable(t.s)
    /\ ~KeyTaken(Submits, t.k)
    /\ Cardinality(Active(Submits)) < MaxSubmits

\* A repeated request is answered with its execution, duplicate = True.
Answer(r) ==
    /\ txn[r].pc = "check"
    /\ CanAnswer(txn[r])
    /\ Release(r)
    /\ UNCHANGED <<ovars, pvars, closing>>

Check(r) ==
    LET t == txn[r] IN
    /\ t.pc = "check"
    /\ \/ t.op = "create" /\ CanCreate(t) /\ Proceed(r, 0)
       \/ t.op = "patch" /\ CanPatch(t) /\ Proceed(r, 0)
       \/ t.op \in {"pause", "resume", "complete"} /\ CanTransition(t) /\ Proceed(r, 0)
       \/ t.op = "hint" /\ CanHint(t) /\ Proceed(r, counts[t.s].hints + 1)
       \/ t.op = "event" /\ CanAppend(t) /\ Proceed(r, events[t.s] + 1)
       \/ t.op = "run" /\ CanRun(t) /\ Proceed(r, 0)
       \/ t.op = "submit" /\ CanSubmit(t) /\ Proceed(r, 0)
    /\ UNCHANGED <<ovars, pvars, closing>>

-----------------------------------------------------------------------------
(* What they write.  A transaction that updates a practice_sessions row    *)
(* waits for a controller that is finalizing that session; the row lock it *)
(* then holds makes its append_event follow every committed event.         *)

RowFree(s) == \A e \in Execution : closing[e] = 0 \/ order[e].s # s

AppendEvent(s) ==
    /\ events[s] < MaxEvents
    /\ events' = [events EXCEPT ![s] = @ + 1]

Writing(r, op) == txn[r].pc = "write" /\ txn[r].op = op

CreateSession(r) ==
    /\ Writing(r, "create")
    /\ \E s \in Session :
          /\ session[s] = "ABSENT"
          /\ session' = [session EXCEPT ![s] = "IN_PROGRESS"]
          /\ AppendEvent(s)
    /\ Release(r)
    /\ UNCHANGED <<ovars, draft, counts, order, closing>>

PatchSession(r) ==
    /\ Writing(r, "patch")
    /\ RowFree(txn[r].s)
    /\ draft' = [draft EXCEPT ![txn[r].s] = txn[r].src]
    /\ Release(r)
    /\ UNCHANGED <<ovars, session, counts, events, order, closing>>

TransitionTarget(op) ==
    CASE op = "pause" -> "PAUSED"
      [] op = "resume" -> "IN_PROGRESS"
      [] op = "complete" -> "COMPLETED"

\* The UPDATE compares the id only.
TransitionSession(r) ==
    LET t == txn[r] IN
    /\ t.pc = "write" /\ t.op \in {"pause", "resume", "complete"}
    /\ RowFree(t.s)
    /\ session' = [session EXCEPT ![t.s] = TransitionTarget(t.op)]
    /\ AppendEvent(t.s)
    /\ Release(r)
    /\ UNCHANGED <<ovars, draft, counts, order, closing>>

\* next_hint writes the count it computed from what it read.
RevealHint(r) ==
    LET t == txn[r] IN
    /\ Writing(r, "hint")
    /\ RowFree(t.s)
    /\ counts' = [counts EXCEPT ![t.s].hints = t.n]
    /\ AppendEvent(t.s)
    /\ Release(r)
    /\ UNCHANGED <<ovars, session, draft, order, closing>>

\* POST events updates no session row: its sequence number may be taken by a
\* controller first, which fails on uq_practice_event_sequence.
PostEvent(r) ==
    LET t == txn[r] IN
    /\ Writing(r, "event")
    /\ events[t.s] < t.n
    /\ AppendEvent(t.s)
    /\ Release(r)
    /\ UNCHANGED <<ovars, session, draft, counts, order, closing>>

Place(e, t) ==
    /\ Accept(e)
    /\ order' = [order EXCEPT ![e] = [s |-> t.s, k |-> t.k, src |-> t.src]]

\* queue_run from _queue_execution on.  create_queued looks for the key once
\* more and inserts ON CONFLICT DO NOTHING; the session is updated either way.
QueueRun(r) ==
    LET t == txn[r]
        duplicate == KeyTaken(Runs, t.k)
    IN  /\ Writing(r, "run")
        /\ RowFree(t.s)
        /\ IF duplicate THEN UNCHANGED <<ovars, order>> ELSE \E e \in Runs : Place(e, t)
        /\ draft' = [draft EXCEPT ![t.s] = t.src]
        /\ counts' = [counts EXCEPT ![t.s].runs = @ + 1]
        /\ AppendEvent(t.s)
        /\ Release(r)
        /\ UNCHANGED <<session, closing>>

\* Mutant: the session's state is not checked again before it is SUBMITTED.
QueueSubmitUnchecked(r) ==
    LET t == txn[r] IN
    /\ Writing(r, "submit")
    /\ ~KeyTaken(Submits, t.k)
    /\ RowFree(t.s)
    /\ \E e \in Submits : Place(e, t)
    /\ session' = [session EXCEPT ![t.s] = "SUBMITTED"]
    /\ draft' = [draft EXCEPT ![t.s] = t.src]
    /\ counts' = [counts EXCEPT ![t.s].submits = @ + 1]
    /\ AppendEvent(t.s)
    /\ Release(r)
    /\ UNCHANGED closing

\* queue_submit from the INSERT INTO submissions on; a submission with the
\* key of another one violates uq_submissions_candidate_idempotency, and
\* repository.transition accepts an open session only.
QueueSubmit(r) ==
    LET t == txn[r] IN
    /\ Writing(r, "submit")
    /\ ~KeyTaken(Submits, t.k)
    /\ Open(t.s)
    /\ RowFree(t.s)
    /\ \E e \in Submits : Place(e, t)
    /\ session' = [session EXCEPT ![t.s] = "SUBMITTED"]
    /\ draft' = [draft EXCEPT ![t.s] = t.src]
    /\ counts' = [counts EXCEPT ![t.s].submits = @ + 1]
    /\ AppendEvent(t.s)
    /\ Release(r)
    /\ UNCHANGED closing

\* cancel_execution; transition takes the execution's row lock.  Neither the
\* submission nor the session is touched.
CancelExecution(r) ==
    LET t == txn[r] IN
    /\ t.pc = "check" /\ t.op = "cancel"
    /\ closing[t.e] = 0
    /\ Withdraw(t.e)
    /\ Release(r)
    /\ UNCHANGED <<pvars, closing>>

-----------------------------------------------------------------------------
(* The execution service.                                                  *)

Service(e) == Try(e) /\ UNCHANGED <<pvars, txn, lock, closing>>

Submitted(e) == e \in Submits /\ session[order[e].s] = "SUBMITTED"

\* A terminal projection that completes no session: a RUN, or a submission
\* whose session the candidate has completed already.
ConcludeQuietly(e) ==
    /\ phase[e] = "working"
    /\ closing[e] = 0
    /\ ~Submitted(e)
    /\ \E v \in OutcomeVerdicts, on \in 0..MaxTries : Conclude(e, v, on)
    /\ UNCHANGED <<pvars, txn, lock, closing>>

\* finalize_submission has updated the session, holds its row, and computes
\* the sequence number of its event from what is committed.
FinalizeSubmission(e) ==
    /\ phase[e] = "working"
    /\ closing[e] = 0
    /\ Submitted(e)
    /\ closing' = [closing EXCEPT ![e] = events[order[e].s] + 1]
    /\ UNCHANGED <<ovars, pvars, txn, lock>>

\* Mutant: the session is completed in a transaction of its own, later.
FinalizeCommitsGrade(e) ==
    /\ closing[e] # 0
    /\ \E v \in OutcomeVerdicts, on \in 0..MaxTries : Conclude(e, v, on)
    /\ closing' = [closing EXCEPT ![e] = 0]
    /\ UNCHANGED <<pvars, txn, lock>>

FinalizeCommits(e) ==
    LET s == order[e].s IN
    /\ closing[e] # 0
    /\ events[s] < closing[e]
    /\ \E v \in OutcomeVerdicts, on \in 0..MaxTries : Conclude(e, v, on)
    /\ session' = [session EXCEPT ![s] = "COMPLETED"]
    /\ events' = [events EXCEPT ![s] = closing[e]]
    /\ closing' = [closing EXCEPT ![e] = 0]
    /\ UNCHANGED <<draft, counts, order, txn, lock>>

\* Its event lost to POST events: the whole terminal transaction is rolled
\* back and the execution is left to its lease.
FinalizeConflicts(e) ==
    /\ closing[e] # 0
    /\ events[order[e].s] >= closing[e]
    /\ closing' = [closing EXCEPT ![e] = 0]
    /\ UNCHANGED <<ovars, pvars, txn, lock>>

-----------------------------------------------------------------------------
Write(r) ==
    \/ CreateSession(r) \/ PatchSession(r) \/ TransitionSession(r) \/ RevealHint(r)
    \/ PostEvent(r) \/ QueueRun(r) \/ QueueSubmit(r) \/ CancelExecution(r)

Finalize(e) ==
    ConcludeQuietly(e) \/ FinalizeSubmission(e) \/ FinalizeCommits(e) \/ FinalizeConflicts(e)

ApiNext ==
    \/ \E r \in Request : Begin(r) \/ Check(r) \/ Answer(r) \/ Write(r) \/ Rollback(r)
    \/ \E e \in Execution : Service(e) \/ Finalize(e)

ApiSpec == ApiInit /\ [][ApiNext]_avars

(* The controllers keep working on an execution (EveryExecutionFinishes of *)
(* ExecutionController); an API transaction ends one way or the other.     *)
ApiFairness ==
    /\ \A e \in Execution : WF_avars(Service(e)) /\ WF_avars(Finalize(e))
    /\ \A r \in Request : WF_avars(Rollback(r))

FairApiSpec == ApiSpec /\ ApiFairness

-----------------------------------------------------------------------------
(* Properties.                                                             *)

\* The active executions of a candidate stay within the documented limits
\* although each request counts first and inserts later: the users row that
\* ensure_user locks is what makes _enforce_backpressure sound.
WithinBackpressure ==
    /\ Cardinality(Active(Runs)) <= MaxRuns
    /\ Cardinality(Active(Submits)) <= MaxSubmits

\* create's find-or-insert leaves the candidate at most one open session.
OneOpenSession ==
    \A s, u \in Session : Open(s) /\ Open(u) => s = u

\* run_count and submission_count are the numbers of different idempotency
\* keys used in the session: requests repeated or carried out side by side
\* neither run a key twice nor lose a count (_existing_execution).
CountedOncePerKey ==
    \A s \in Session :
        /\ counts[s].runs = Cardinality({order[e].k : e \in {x \in Runs : order[x].s = s}})
        /\ counts[s].submits = Cardinality({order[e].k : e \in {x \in Submits : order[x].s = s}})

\* A session is submitted once: it has left the open states exactly when it
\* has an execution of type SUBMIT, and it never has two.
SubmittedOnce ==
    \A s \in Session :
        LET own == {e \in Submits : order[e].s = s} IN
        /\ session[s] \in {"SUBMITTED", "COMPLETED"} <=> own # {}
        /\ Cardinality(own) <= 1

\* A graded submission has a completed session, and a session still SUBMITTED
\* waits for an execution that is under way or was cancelled: grade and
\* session change in one transaction (finalize_submission).
GradedIsCompleted ==
    \A e \in Submits :
        phase[e] # "absent" =>
            /\ grade[e] => session[order[e].s] = "COMPLETED"
            /\ session[order[e].s] = "SUBMITTED" =>
                  phase[e] \in {"accepted", "working", "CANCELLED"}

\* Sessions and submissions agree, however creations, submissions and
\* evaluations interleave: one open session at most, one submission of each,
\* and a grade only with a completed session.
SessionsAgree == OneOpenSession /\ SubmittedOnce /\ GradedIsCompleted

\* A submission is evaluated and its session completed, unless the candidate
\* cancels it; conflicts with posted events only delay it.
SubmissionsSettle ==
    \A e \in Submits :
        phase[e] = "accepted" ~>
            phase[e] = "CANCELLED" \/ \E s \in Session : order[e].s = s /\ session[s] = "COMPLETED"
=============================================================================

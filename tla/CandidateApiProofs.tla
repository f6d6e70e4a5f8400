------------------------- MODULE CandidateApiProofs -------------------------
(***************************************************************************)
(* Proofs about CandidateApi for every number of sessions, API threads,    *)
(* keys and executions and every limit.                                    *)
(***************************************************************************)
EXTENDS CandidateApi, FiniteSetTheorems, TLAPS

-----------------------------------------------------------------------------
(* The inductive invariant.                                                *)

Phases == {"absent", "accepted", "working", "CANCELLED"} \cup OutcomeVerdicts
SessionStates == OpenStates \cup {"ABSENT", "SUBMITTED", "COMPLETED"}
Orders == [s : Session \cup {Nobody}, k : Key \cup {Nobody}, src : Source \cup {Starter}]
Transactions ==
    [pc : {"idle", "check", "write"}, op : Operations, s : Session \cup {Nobody},
     k : Key \cup {Nobody}, src : Source \cup {Starter}, e : Execution \cup {Nobody}, n : Nat]

OutcomeTypeOK ==
    /\ phase \in [Execution -> Phases]
    /\ try \in [Execution -> Nat]
    /\ basis \in [Execution -> Nat]
    /\ grade \in [Execution -> BOOLEAN]

PracticeTypeOK ==
    /\ session \in [Session -> SessionStates]
    /\ draft \in [Session -> Source \cup {Starter}]
    /\ counts \in [Session -> [runs : Nat, submits : Nat, hints : Nat]]
    /\ events \in [Session -> Nat]
    /\ order \in [Execution -> Orders]
    /\ closing \in [Execution -> Nat]

TxnTypeOK ==
    /\ txn \in [Request -> Transactions]
    /\ lock \in Request \cup {Nobody}

ApiTypeOK == OutcomeTypeOK /\ PracticeTypeOK /\ TxnTypeOK

(* A request that is under way holds the users row and has the arguments   *)
(* of its operation.                                                       *)
AskedOK(t) ==
    /\ t.pc # "idle" /\ t.op \notin {"create", "cancel"} => t.s \in Session
    /\ t.pc # "idle" /\ t.op \in {"run", "submit"} => t.k \in Key
    /\ t.pc # "idle" /\ t.op = "cancel" => t.e \in Execution
RequestInv == \A r \in Request : (txn[r].pc # "idle" => lock = r) /\ AskedOK(txn[r])

(* What Check found that is still so when the request writes, whatever the *)
(* controllers committed in between: a session found SUBMITTED may have    *)
(* been completed.                                                         *)
Found(t) ==
    /\ t.op = "create" => CanCreate(t)
    /\ t.op \in {"pause", "resume"} => Open(t.s)
    /\ t.op = "complete" => session[t.s] \in {"SUBMITTED", "COMPLETED"}
    /\ t.op \in {"run", "submit"} => session[t.s] # "ABSENT"
    /\ t.op = "run" => ~KeyTaken(Runs, t.k) /\ Cardinality(Active(Runs)) < MaxRuns
    /\ t.op = "submit" => ~KeyTaken(Submits, t.k) /\ Cardinality(Active(Submits)) < MaxSubmits
CheckedInv == \A r \in Request : txn[r].pc = "write" => Found(txn[r])

(* Finitely many executions have been accepted, within the limits.         *)
Accepted == {e \in Execution : phase[e] # "absent"}
LimitInv == IsFiniteSet(Accepted) /\ WithinBackpressure

(* An accepted execution belongs to a session that exists; only a working  *)
(* submission of a SUBMITTED session is about to complete one.             *)
OrderOK(e) ==
    /\ phase[e] = "absent" => order[e].s = Nobody /\ ~grade[e]
    /\ phase[e] # "absent" => order[e].s \in Session /\ session[order[e].s] # "ABSENT"
    /\ closing[e] # 0 =>
          e \in Submits /\ phase[e] = "working" /\ session[order[e].s] = "SUBMITTED"
OrderInv == \A e \in Execution : OrderOK(e)

(* The counters of a session are the numbers of its keys.                  *)
KeysOf(kind, s) == {order[e].k : e \in {x \in kind : order[x].s = s}}
CountOK(s) ==
    /\ IsFiniteSet(KeysOf(Runs, s)) /\ counts[s].runs = Cardinality(KeysOf(Runs, s))
    /\ IsFiniteSet(KeysOf(Submits, s)) /\ counts[s].submits = Cardinality(KeysOf(Submits, s))
CountInv == \A s \in Session : CountOK(s)

(* Sessions and their submissions.                                         *)
OneSubmission == \A e, f \in Submits : order[e].s \in Session /\ order[e].s = order[f].s => e = f
SubmittedHasOne ==
    \A s \in Session : session[s] \in {"SUBMITTED", "COMPLETED"} <=>
                          \E e \in Submits : order[e].s = s
SessionInv == OneOpenSession /\ OneSubmission /\ SubmittedHasOne /\ GradedIsCompleted

DataInv == OutcomeTypeOK /\ PracticeTypeOK /\ LimitInv /\ OrderInv /\ CountInv /\ SessionInv
TxnInv == TxnTypeOK /\ RequestInv /\ CheckedInv
ApiInv == DataInv /\ TxnInv

-----------------------------------------------------------------------------
(* The transactions.  The users row leaves one of them at a time beyond    *)
(* its beginning, so the end of one leaves none.                           *)

\* Once a request has released the users row, no request is under way.
LEMMA ReleaseLeavesNone ==
    ASSUME TxnInv, NEW r \in Request, txn[r].pc # "idle", Release(r)
    PROVE  TxnInv'
  <1>1. lock = r /\ lock' = Nobody
    BY DEF TxnInv, RequestInv, Release
  <1>2. Done \in Transactions
    BY DEF Done, Transactions, Operations
  <1>3. TxnTypeOK'
    BY <1>1, <1>2 DEF TxnInv, TxnTypeOK, Release
  <1>4. \A q \in Request : txn'[q].pc = "idle"
    <2> SUFFICES ASSUME NEW q \in Request PROVE txn'[q].pc = "idle"
      OBVIOUS
    <2>1. CASE q = r
      BY <2>1 DEF Release, Done, TxnInv, TxnTypeOK
    <2>2. CASE q # r
      BY <1>1, <2>2 DEF Release, TxnInv, TxnTypeOK, RequestInv
    <2> QED
      BY <2>1, <2>2
  <1> QED
    BY <1>3, <1>4 DEF TxnInv, RequestInv, AskedOK, CheckedInv

\* The arguments of a request are those of its operation.
LEMMA ArgumentsAreAsked ==
    ASSUME NEW op \in Operations \ {"none"}, NEW t \in Arguments(op)
    PROVE  t \in Transactions /\ t.pc = "check" /\ t.op = op /\ AskedOK(t)
  <1>1. t.pc = "check" /\ t.op = op
    BY DEF Arguments
  <1>2. /\ t.s \in IF op \in {"create", "cancel"} THEN {Nobody} ELSE Session
        /\ t.k \in IF op \in {"run", "submit"} THEN Key ELSE {Nobody}
        /\ t.e \in IF op = "cancel" THEN Execution ELSE {Nobody}
    BY DEF Arguments
  <1>3. t \in Transactions
    BY DEF Arguments, Transactions
  <1> QED
    BY <1>1, <1>2, <1>3 DEF AskedOK

\* A request begins when no other one is under way.
LEMMA BeginStep ==
    ASSUME TxnInv, NEW r \in Request, Begin(r)
    PROVE  TxnInv'
  <1> USE DEF TxnInv, TxnTypeOK
  <1>1. PICK op \in Operations \ {"none"} : \E t \in Arguments(op) : txn' = [txn EXCEPT ![r] = t]
    BY DEF Begin
  <1>2. PICK t \in Arguments(op) : txn' = [txn EXCEPT ![r] = t]
    BY <1>1
  <1>3. t \in Transactions /\ t.pc = "check" /\ AskedOK(t)
    BY ArgumentsAreAsked
  <1>4. \A q \in Request : q # r => txn[q].pc = "idle"
    BY ApiAssumption DEF Begin, RequestInv
  <1>5. txn'[r] = t /\ lock' = r
    BY <1>2 DEF Begin
  <1>6. \A q \in Request : q # r => txn'[q] = txn[q]
    BY <1>2
  <1>7. TxnTypeOK'
    BY <1>2, <1>3, <1>5
  <1>8. RequestInv'
    BY <1>3, <1>4, <1>5, <1>6 DEF RequestInv
  <1>9. CheckedInv'
    BY <1>3, <1>4, <1>5, <1>6 DEF CheckedInv
  <1> QED
    BY <1>7, <1>8, <1>9

\* What a request found is what it needs when it goes on to write.
LEMMA CheckStep ==
    ASSUME DataInv, TxnInv, NEW r \in Request, Check(r)
    PROVE  TxnInv'
  <1> USE DEF TxnInv, TxnTypeOK
  <1> DEFINE t == txn[r]
  <1>1. t \in Transactions /\ t.pc = "check" /\ lock' = lock
    BY DEF Check, Proceed
  <1>2. AskedOK(t) /\ lock = r
    BY <1>1 DEF RequestInv
  <1>3. PICK n \in Nat : txn' = [txn EXCEPT ![r].pc = "write", ![r].n = n]
    <2>1. t.op = "hint" => counts[t.s].hints + 1 \in Nat
      BY <1>1, <1>2 DEF AskedOK, DataInv, PracticeTypeOK
    <2>2. t.op = "event" => events[t.s] + 1 \in Nat
      BY <1>1, <1>2 DEF AskedOK, DataInv, PracticeTypeOK
    <2> QED
      BY <2>1, <2>2 DEF Check, Proceed
  <1>4. txn'[r] = [t EXCEPT !.pc = "write", !.n = n]
    BY <1>3
  <1>5. [t EXCEPT !.pc = "write", !.n = n] \in Transactions
    BY <1>1 DEF Transactions
  <1>6. /\ txn'[r].op = t.op /\ txn'[r].s = t.s /\ txn'[r].k = t.k /\ txn'[r].e = t.e
        /\ txn'[r].pc = "write"
    BY <1>1, <1>4 DEF Transactions
  <1>7. Found(t)
    <2>1. t.op \in Operations
      BY <1>1 DEF Transactions
    <2> HIDE DEF t
    <2> QED
      BY <2>1 DEF Check, CanTransition, CanRun, CanSubmit, Executable, Found, Open, OpenStates, t
  <1>8. \A q \in Request : q # r => txn'[q] = txn[q] /\ txn[q].pc = "idle"
    BY <1>2, <1>3 DEF RequestInv
  <1>9. TxnTypeOK'
    BY <1>1, <1>3, <1>4, <1>5
  <1>10. RequestInv'
    BY <1>1, <1>2, <1>6, <1>8 DEF RequestInv, AskedOK
  <1>11. CheckedInv'
    <2>1. UNCHANGED <<session, phase, order>>
      BY DEF Check, ovars, pvars
    <2>2. Found(t)'
      BY <1>7, <2>1, <1>3 DEF Found, CanCreate, Open, KeyTaken, Active
    <2> QED
      BY <1>6, <1>8, <2>1, <1>7 DEF CheckedInv, Found, CanCreate, Open, KeyTaken, Active
  <1> QED
    BY <1>9, <1>10, <1>11

-----------------------------------------------------------------------------
(* Steps that accept no execution: what a controller commits, and the      *)
(* candidate's cancellation.                                               *)

\* No execution is accepted and none becomes active again.
NoneAccepted ==
    \A e \in Execution :
        /\ phase'[e] = "absent" <=> phase[e] = "absent"
        /\ phase'[e] \in {"accepted", "working"} => phase[e] \in {"accepted", "working"}

\* A controller completes SUBMITTED sessions and changes no other.
Settles ==
    /\ NoneAccepted
    /\ UNCHANGED <<order, counts, draft, txn, lock>>
    /\ \A s \in Session :
          session'[s] = session[s] \/ (session[s] = "SUBMITTED" /\ session'[s] = "COMPLETED")

\* The active executions of a kind are finitely many.
LEMMA ActiveFinite ==
    ASSUME LimitInv, NEW kind \in SUBSET Execution
    PROVE  IsFiniteSet(Active(kind)) /\ Cardinality(Active(kind)) \in Nat
  <1>1. Active(kind) \in SUBSET Accepted
    BY DEF Active, Accepted
  <1>2. IsFiniteSet(Accepted)
    BY DEF LimitInv
  <1>3. IsFiniteSet(Active(kind))
    BY <1>1, <1>2, FS_Subset
  <1> QED
    BY <1>3, FS_CardinalityType

\* When none is accepted, no more executions are active than before.
LEMMA ActiveShrinks ==
    ASSUME LimitInv, NoneAccepted, NEW kind \in SUBSET Execution
    PROVE  Cardinality(Active(kind)') \in Nat /\ Cardinality(Active(kind)') <= Cardinality(Active(kind))
  <1>1. Active(kind)' \in SUBSET Active(kind)
    BY DEF Active, NoneAccepted
  <1>2. IsFiniteSet(Active(kind))
    BY ActiveFinite
  <1>3. IsFiniteSet(Active(kind)') /\ Cardinality(Active(kind)') <= Cardinality(Active(kind))
    BY <1>1, <1>2, FS_Subset
  <1> QED
    BY <1>3, FS_CardinalityType

\* The kinds of executions are sets of executions.
LEMMA Kinds == Runs \in SUBSET Execution /\ Submits \in SUBSET Execution
  BY ApiAssumption DEF Runs

\* When none is accepted, the limits are kept.
LEMMA LimitsKept ==
    ASSUME LimitInv, NoneAccepted
    PROVE  LimitInv'
  <1>1. Accepted' = Accepted
    BY DEF Accepted, NoneAccepted
  <1>2. MaxRuns \in Nat /\ MaxSubmits \in Nat
    BY ApiAssumption
  <1>3. /\ Cardinality(Active(Runs)') \in Nat /\ Cardinality(Active(Runs)) \in Nat
        /\ Cardinality(Active(Runs)') <= Cardinality(Active(Runs))
    BY Kinds, ActiveShrinks, ActiveFinite
  <1>4. /\ Cardinality(Active(Submits)') \in Nat /\ Cardinality(Active(Submits)) \in Nat
        /\ Cardinality(Active(Submits)') <= Cardinality(Active(Submits))
    BY Kinds, ActiveShrinks, ActiveFinite
  <1>5. WithinBackpressure'
    BY <1>2, <1>3, <1>4 DEF LimitInv, WithinBackpressure
  <1> QED
    BY <1>1, <1>5 DEF LimitInv

\* The counters stay right while no key is placed.
LEMMA CountsKept ==
    ASSUME CountInv, UNCHANGED order,
           \A s \in Session : counts'[s].runs = counts[s].runs /\ counts'[s].submits = counts[s].submits
    PROVE  CountInv'
  <1>1. ASSUME NEW kind, kind = Runs \/ kind = Submits, NEW s \in Session
        PROVE  KeysOf(kind, s)' = KeysOf(kind, s)
    BY <1>1 DEF KeysOf, Runs
  <1>2. \A s \in Session : KeysOf(Runs, s)' = KeysOf(Runs, s) /\ KeysOf(Submits, s)' = KeysOf(Submits, s)
    BY <1>1 DEF Runs
  <1> QED
    BY <1>2 DEF CountInv, CountOK

\* What a request found is still so after a controller's commit.
LEMMA FoundStays ==
    ASSUME DataInv, TxnInv, Settles, PracticeTypeOK'
    PROVE  TxnInv'
  <1>1. TxnTypeOK' /\ RequestInv'
    BY DEF TxnInv, TxnTypeOK, RequestInv, AskedOK, Settles
  <1>2. ASSUME NEW r \in Request, txn'[r].pc = "write"
        PROVE  Found(txn[r])'
    <2>1. txn' = txn
      BY DEF Settles
    <2>2. PICK t \in Transactions : t = txn[r] /\ t.pc = "write"
      BY <1>2, <2>1 DEF TxnInv, TxnTypeOK
    <2>3. Found(t) /\ AskedOK(t)
      BY <2>2 DEF TxnInv, CheckedInv, RequestInv
    <2>4. NoneAccepted /\ LimitInv /\ order' = order
      BY DEF DataInv, Settles
    <2>5. \A kind \in SUBSET Execution : \A k : KeyTaken(kind, k)' => KeyTaken(kind, k)
      BY <2>4 DEF KeyTaken, NoneAccepted
    <2>6. \A s \in Session : Open(s)' <=> Open(s)
      BY DEF Open, OpenStates, Settles
    <2>7. /\ Cardinality(Active(Runs)') \in Nat /\ Cardinality(Active(Runs)) \in Nat
          /\ Cardinality(Active(Runs)') <= Cardinality(Active(Runs))
      BY <2>4, Kinds, ActiveShrinks, ActiveFinite
    <2>8. /\ Cardinality(Active(Submits)') \in Nat /\ Cardinality(Active(Submits)) \in Nat
          /\ Cardinality(Active(Submits)') <= Cardinality(Active(Submits))
      BY <2>4, Kinds, ActiveShrinks, ActiveFinite
    <2>9. MaxRuns \in Nat /\ MaxSubmits \in Nat
      BY ApiAssumption
    <2>10. t.op = "create" => CanCreate(t)'
      BY <2>3, <2>6 DEF Found, CanCreate, Settles
    <2>11. t.op \in {"pause", "resume"} => Open(t.s)'
      BY <2>2, <2>3, <2>6 DEF Found, AskedOK
    <2>12. t.op = "complete" => session'[t.s] \in {"SUBMITTED", "COMPLETED"}
      BY <2>2, <2>3 DEF Found, AskedOK, Settles
    <2>13. t.op \in {"run", "submit"} => session'[t.s] # "ABSENT"
      BY <2>2, <2>3 DEF Found, AskedOK, Settles
    <2>14. t.op = "run" => ~KeyTaken(Runs, t.k)' /\ Cardinality(Active(Runs)') < MaxRuns
      BY <2>3, <2>5, <2>7, <2>9, Kinds DEF Found
    <2>15. t.op = "submit" => ~KeyTaken(Submits, t.k)' /\ Cardinality(Active(Submits)') < MaxSubmits
      BY <2>3, <2>5, <2>8, <2>9, Kinds DEF Found
    <2>16. Found(t)'
      BY <2>10, <2>11, <2>12, <2>13, <2>14, <2>15 DEF Found
    <2> QED
      BY <2>1, <2>2, <2>16 DEF Found, CanCreate, KeyTaken, Open, Active
  <1> QED
    BY <1>1, <1>2 DEF TxnInv, CheckedInv

-----------------------------------------------------------------------------
(* The controllers' steps.                                                 *)

\* Steps of requests that only read or give up leave the rows as they are.
LEMMA RowsUntouched ==
    ASSUME DataInv, UNCHANGED <<ovars, pvars, closing>>
    PROVE  DataInv'
  <1> USE DEF DataInv, ovars, pvars
  <1>1. NoneAccepted
    BY DEF NoneAccepted
  <1>2. OutcomeTypeOK' /\ PracticeTypeOK'
    BY DEF OutcomeTypeOK, PracticeTypeOK
  <1>3. LimitInv'
    BY <1>1, LimitsKept
  <1>4. CountInv'
    BY CountsKept
  <1>5. OrderInv'
    BY DEF OrderInv, OrderOK
  <1>6. SessionInv'
    BY DEF SessionInv, OneOpenSession, OneSubmission, SubmittedHasOne, GradedIsCompleted, Open
  <1> QED
    BY <1>2, <1>3, <1>4, <1>5, <1>6

\* Another try of an execution.
LEMMA ServiceStep ==
    ASSUME ApiInv, NEW e \in Execution, Service(e)
    PROVE  ApiInv'
  <1> USE DEF ApiInv, DataInv
  <1>1. /\ phase' = [phase EXCEPT ![e] = "working"] /\ phase[e] \in {"accepted", "working"}
        /\ try' = [try EXCEPT ![e] = @ + 1]
        /\ UNCHANGED <<basis, grade, session, draft, counts, events, order, txn, lock, closing>>
    BY DEF Service, Try, pvars
  <1>2. OutcomeTypeOK' /\ PracticeTypeOK'
    BY <1>1 DEF OutcomeTypeOK, PracticeTypeOK, Phases
  <1>3. Settles
    BY <1>1 DEF Settles, NoneAccepted, OutcomeTypeOK
  <1>4. LimitInv' /\ CountInv'
    BY <1>1, <1>3, LimitsKept, CountsKept DEF Settles
  <1>5. OrderInv'
    BY <1>1 DEF OrderInv, OrderOK, OutcomeTypeOK
  <1>6. SessionInv'
    BY <1>1 DEF SessionInv, OneOpenSession, OneSubmission, SubmittedHasOne, GradedIsCompleted, Open,
                OutcomeTypeOK
  <1>7. TxnInv'
    BY <1>2, <1>3, FoundStays
  <1> QED
    BY <1>2, <1>4, <1>5, <1>6, <1>7

\* What a verdict does to the execution.
LEMMA ConcludeEffect ==
    ASSUME OutcomeTypeOK, NEW e \in Execution,
           \E v \in OutcomeVerdicts, on \in 0..MaxTries : Conclude(e, v, on)
    PROVE  /\ OutcomeTypeOK'
           /\ phase[e] = "working" /\ phase'[e] \in OutcomeVerdicts
           /\ \A f \in Execution : f # e => phase'[f] = phase[f] /\ grade'[f] = grade[f]
           /\ grade'[e] = (e \in Submits)
           /\ NoneAccepted
  <1>1. PICK v \in OutcomeVerdicts, on \in 0..MaxTries : Conclude(e, v, on)
    OBVIOUS
  <1>2. on \in Nat /\ v \in Phases
    BY ApiAssumption DEF Phases
  <1>3. (e \in Submits) \in BOOLEAN
    OBVIOUS
  <1>4. OutcomeTypeOK'
    <2>1. phase' \in [Execution -> Phases] /\ try' \in [Execution -> Nat] /\ basis' \in [Execution -> Nat]
      BY <1>1, <1>2 DEF OutcomeTypeOK, Conclude
    <2>2. grade' \in [Execution -> BOOLEAN]
      BY <1>1, <1>3 DEF OutcomeTypeOK, Conclude
    <2> QED
      BY <2>1, <2>2 DEF OutcomeTypeOK
  <1>5. phase[e] = "working" /\ phase' = [phase EXCEPT ![e] = v] /\ grade' = [grade EXCEPT ![e] = e \in Submits]
    BY <1>1 DEF Conclude
  <1>6. phase'[e] = v /\ \A f \in Execution : f # e => phase'[f] = phase[f]
    BY <1>5 DEF OutcomeTypeOK
  <1>7. grade'[e] = (e \in Submits) /\ \A f \in Execution : f # e => grade'[f] = grade[f]
    BY <1>5, Zenon DEF OutcomeTypeOK
  <1>8. NoneAccepted
    BY <1>5, <1>6 DEF NoneAccepted, OutcomeVerdicts
  <1> QED
    BY <1>4, <1>5, <1>6, <1>7, <1>8

\* A terminal projection that completes no session: a submission it grades has
\* been completed by the candidate.
LEMMA ConcludeQuietlyStep ==
    ASSUME ApiInv, NEW e \in Execution, ConcludeQuietly(e)
    PROVE  ApiInv'
  <1> USE DEF ApiInv, DataInv
  <1>1. /\ phase[e] = "working" /\ phase'[e] \in OutcomeVerdicts /\ closing[e] = 0 /\ ~Submitted(e)
        /\ \A f \in Execution : f # e => phase'[f] = phase[f] /\ grade'[f] = grade[f]
        /\ grade'[e] = (e \in Submits)
        /\ NoneAccepted /\ OutcomeTypeOK'
        /\ UNCHANGED <<session, draft, counts, events, order, txn, lock, closing>>
    BY ConcludeEffect DEF ConcludeQuietly, pvars
  <1>2. PracticeTypeOK'
    BY <1>1 DEF PracticeTypeOK
  <1>3. Settles
    BY <1>1 DEF Settles
  <1>4. LimitInv' /\ CountInv'
    BY <1>1, <1>3, LimitsKept, CountsKept DEF Settles
  <1>5. OrderInv'
    <2> SUFFICES ASSUME NEW f \in Execution PROVE OrderOK(f)'
      BY DEF OrderInv
    <2>1. OrderOK(f)
      BY DEF OrderInv
    <2>2. CASE f = e
      BY <1>1, <2>1, <2>2 DEF OrderOK, OutcomeVerdicts
    <2>3. CASE f # e
      BY <1>1, <2>1, <2>3 DEF OrderOK
    <2> QED
      BY <2>2, <2>3
  <1>6. SessionInv'
    <2>1. OneOpenSession' /\ OneSubmission' /\ SubmittedHasOne'
      BY <1>1 DEF SessionInv, OneOpenSession, OneSubmission, SubmittedHasOne, Open
    <2>2. ASSUME NEW f \in Submits, phase'[f] # "absent"
          PROVE  /\ grade'[f] => session'[order'[f].s] = "COMPLETED"
                 /\ session'[order'[f].s] = "SUBMITTED" => phase'[f] \in {"accepted", "working", "CANCELLED"}
      <3>1. f \in Execution
        BY ApiAssumption
      <3>2. CASE f = e
        <4>1. order[e].s \in Session
          BY <1>1 DEF OrderInv, OrderOK
        <4>2. session[order[e].s] \in {"SUBMITTED", "COMPLETED"}
          BY <3>2, <4>1, <2>2 DEF SessionInv, SubmittedHasOne
        <4>3. session[order[e].s] = "COMPLETED"
          BY <1>1, <3>2, <4>2, <2>2 DEF Submitted
        <4> QED
          BY <1>1, <3>2, <4>3
      <3>3. CASE f # e
        BY <1>1, <2>2, <3>1, <3>3 DEF SessionInv, GradedIsCompleted
      <3> QED
        BY <3>2, <3>3
    <2>3. GradedIsCompleted'
      BY <2>2 DEF GradedIsCompleted
    <2> QED
      BY <2>1, <2>3 DEF SessionInv
  <1>7. TxnInv'
    BY <1>2, <1>3, FoundStays
  <1> QED
    BY <1>1, <1>2, <1>4, <1>5, <1>6, <1>7

\* A finalizing controller reads the next sequence number of the session.
LEMMA FinalizeSubmissionStep ==
    ASSUME ApiInv, NEW e \in Execution, FinalizeSubmission(e) \/ FinalizeConflicts(e)
    PROVE  ApiInv'
  <1> USE DEF ApiInv, DataInv
  <1>1. /\ UNCHANGED <<phase, try, basis, grade, session, draft, counts, events, order, txn, lock>>
        /\ \/ closing' = [closing EXCEPT ![e] = 0]
           \/ /\ closing' = [closing EXCEPT ![e] = events[order[e].s] + 1]
              /\ phase[e] = "working" /\ Submitted(e)
    BY DEF FinalizeSubmission, FinalizeConflicts, ovars, pvars
  <1>2. OutcomeTypeOK' /\ PracticeTypeOK'
    <2>1. phase[e] = "working" => events[order[e].s] + 1 \in Nat
      BY DEF OrderInv, OrderOK, PracticeTypeOK
    <2> QED
      BY <1>1, <2>1 DEF OutcomeTypeOK, PracticeTypeOK
  <1>3. Settles
    BY <1>1 DEF Settles, NoneAccepted
  <1>4. LimitInv' /\ CountInv'
    BY <1>1, <1>3, LimitsKept, CountsKept DEF Settles
  <1>5. OrderInv'
    BY <1>1 DEF OrderInv, OrderOK, PracticeTypeOK, Submitted
  <1>6. SessionInv'
    BY <1>1 DEF SessionInv, OneOpenSession, OneSubmission, SubmittedHasOne, GradedIsCompleted, Open
  <1>7. TxnInv'
    BY <1>2, <1>3, FoundStays
  <1> QED
    BY <1>2, <1>4, <1>5, <1>6, <1>7

\* The grade and the session's completion are one commit.
LEMMA FinalizeCommitsStep ==
    ASSUME ApiInv, NEW e \in Execution, FinalizeCommits(e)
    PROVE  ApiInv'
  <1> USE DEF ApiInv, DataInv
  <1> DEFINE s == order[e].s
  <1>1. /\ phase[e] = "working" /\ phase'[e] \in OutcomeVerdicts /\ closing[e] # 0
        /\ \A f \in Execution : f # e => phase'[f] = phase[f] /\ grade'[f] = grade[f]
        /\ grade'[e] = (e \in Submits)
        /\ NoneAccepted /\ OutcomeTypeOK'
        /\ session' = [session EXCEPT ![s] = "COMPLETED"]
        /\ events' = [events EXCEPT ![s] = closing[e]]
        /\ closing' = [closing EXCEPT ![e] = 0]
        /\ UNCHANGED <<draft, counts, order, txn, lock>>
    BY ConcludeEffect DEF FinalizeCommits
  <1>2. s \in Session /\ e \in Submits /\ session[s] = "SUBMITTED"
    BY <1>1 DEF OrderInv, OrderOK
  <1>3. PracticeTypeOK'
    BY <1>1, <1>2 DEF PracticeTypeOK, SessionStates
  <1>4. Settles
    BY <1>1, <1>2 DEF Settles, PracticeTypeOK
  <1>5. LimitInv' /\ CountInv'
    BY <1>1, <1>4, LimitsKept, CountsKept DEF Settles
  <1>6. \A f \in Submits : order[f].s = s => f = e
    BY <1>2 DEF SessionInv, OneSubmission
  <1> HIDE DEF s
  <1>7. session'[s] = "COMPLETED" /\ \A u \in Session : u # s => session'[u] = session[u]
    BY <1>1, <1>2 DEF PracticeTypeOK
  <1>8. closing'[e] = 0 /\ \A f \in Execution : f # e => closing'[f] = closing[f]
    BY <1>1 DEF PracticeTypeOK
  <1>9. order' = order
    BY <1>1
  <1>10. OrderInv'
    <2> SUFFICES ASSUME NEW f \in Execution PROVE OrderOK(f)'
      BY DEF OrderInv
    <2>1. OrderOK(f)
      BY DEF OrderInv
    <2>2. CASE f = e
      BY <1>1, <1>2, <1>7, <1>8, <1>9, <2>1, <2>2 DEF OrderOK, OutcomeVerdicts, s
    <2>3. CASE f # e
      <3>1. phase'[f] = phase[f] /\ grade'[f] = grade[f] /\ closing'[f] = closing[f]
        BY <1>1, <1>8, <2>3
      <3>2. phase'[f] # "absent" => order'[f].s \in Session /\ session'[order'[f].s] # "ABSENT"
        BY <2>1, <3>1, <1>7, <1>9 DEF OrderOK
      <3>3. closing[f] # 0 => order[f].s \in Session /\ order[f].s # s
        BY <2>1, <2>3, <1>6 DEF OrderOK
      <3> QED
        BY <2>1, <3>1, <3>2, <3>3, <1>7, <1>9 DEF OrderOK
    <2> QED
      BY <2>2, <2>3
  <1>11. SessionInv'
    <2>1. OneOpenSession'
      BY <1>7 DEF SessionInv, OneOpenSession, Open, OpenStates
    <2>2. OneSubmission'
      BY <1>9 DEF SessionInv, OneSubmission
    <2>3. SubmittedHasOne'
      BY <1>2, <1>7, <1>9 DEF SessionInv, SubmittedHasOne, s
    <2>4. ASSUME NEW f \in Submits, phase'[f] # "absent"
          PROVE  /\ grade'[f] => session'[order'[f].s] = "COMPLETED"
                 /\ session'[order'[f].s] = "SUBMITTED" => phase'[f] \in {"accepted", "working", "CANCELLED"}
      <3>1. CASE f = e
        BY <1>7, <1>9, <3>1 DEF s
      <3>2. CASE f # e
        <4>1. f \in Execution /\ order[f].s # s
          BY <1>6, <3>2, ApiAssumption
        <4>2. phase'[f] = phase[f] /\ grade'[f] = grade[f]
          BY <1>1, <3>2, <4>1
        <4>3. order[f].s \in Session
          BY <2>4, <4>1, <4>2 DEF OrderInv, OrderOK
        <4>4. session'[order[f].s] = session[order[f].s]
          BY <1>7, <4>1, <4>3
        <4> QED
          BY <2>4, <4>2, <4>4, <1>9 DEF SessionInv, GradedIsCompleted
      <3> QED
        BY <3>1, <3>2
    <2>5. GradedIsCompleted'
      BY <2>4 DEF GradedIsCompleted
    <2> QED
      BY <2>1, <2>2, <2>3, <2>5 DEF SessionInv
  <1>12. TxnInv'
    BY <1>3, <1>4, FoundStays
  <1> QED
    BY <1>1, <1>3, <1>5, <1>10, <1>11, <1>12

-----------------------------------------------------------------------------
(* The requests' writes.                                                   *)

\* What a request that writes brings with it.
LEMMA WriterFound ==
    ASSUME ApiInv, NEW r \in Request, txn[r].pc = "write"
    PROVE  /\ txn[r] \in Transactions
           /\ AskedOK(txn[r]) /\ Found(txn[r])
  BY DEF ApiInv, TxnInv, TxnTypeOK, RequestInv, CheckedInv

\* A step that changes the session rows only, and no counter of executions.
LEMMA SessionRowStep ==
    ASSUME ApiInv, PracticeTypeOK', UNCHANGED <<ovars, order, closing>>,
           \A s \in Session : /\ counts'[s].runs = counts[s].runs
                              /\ counts'[s].submits = counts[s].submits
    PROVE  OutcomeTypeOK' /\ LimitInv' /\ CountInv'
  <1> USE DEF ApiInv, DataInv, ovars
  <1>1. NoneAccepted
    BY DEF NoneAccepted
  <1> QED
    BY <1>1, LimitsKept, CountsKept DEF OutcomeTypeOK

\* A new session is made when the candidate has no open one.
LEMMA CreateSessionStep ==
    ASSUME ApiInv, NEW r \in Request, CreateSession(r)
    PROVE  DataInv'
  <1> USE DEF ApiInv, DataInv
  <1>1. PICK s \in Session :
            /\ session[s] = "ABSENT" /\ session' = [session EXCEPT ![s] = "IN_PROGRESS"]
            /\ events' = [events EXCEPT ![s] = @ + 1]
    BY DEF CreateSession, AppendEvent
  <1>2. UNCHANGED <<ovars, draft, counts, order, closing>>
    BY DEF CreateSession
  <1>3. CanCreate(txn[r])
    BY WriterFound DEF CreateSession, Writing, Found
  <1>4. session'[s] = "IN_PROGRESS" /\ \A u \in Session : u # s => session'[u] = session[u]
    BY <1>1 DEF PracticeTypeOK
  <1>5. PracticeTypeOK'
    BY <1>1, <1>2 DEF PracticeTypeOK, SessionStates, OpenStates
  <1>6. OutcomeTypeOK' /\ LimitInv' /\ CountInv'
    BY <1>2, <1>5, SessionRowStep
  <1>7. OrderInv'
    BY <1>1, <1>2, <1>4 DEF OrderInv, OrderOK, ovars
  <1>8. SessionInv'
    <2>1. OneOpenSession'
      BY <1>3, <1>4 DEF CanCreate, OneOpenSession, Open
    <2>2. OneSubmission' /\ SubmittedHasOne'
      BY <1>1, <1>2, <1>4 DEF SessionInv, OneSubmission, SubmittedHasOne
    <2>3. GradedIsCompleted'
      BY <1>1, <1>2, <1>4, ApiAssumption
         DEF SessionInv, GradedIsCompleted, ovars, OrderInv, OrderOK
    <2> QED
      BY <2>1, <2>2, <2>3 DEF SessionInv
  <1> QED
    BY <1>5, <1>6, <1>7, <1>8

\* The candidate pauses, resumes or completes a session nobody finalizes.
LEMMA TransitionSessionStep ==
    ASSUME ApiInv, NEW r \in Request, TransitionSession(r)
    PROVE  DataInv'
  <1> USE DEF ApiInv, DataInv
  <1>1. PICK t \in Transactions : t = txn[r]
    BY DEF TxnInv, TxnTypeOK
  <1>2. /\ t.pc = "write" /\ t.op \in {"pause", "resume", "complete"} /\ RowFree(t.s)
        /\ session' = [session EXCEPT ![t.s] = TransitionTarget(t.op)]
        /\ events' = [events EXCEPT ![t.s] = @ + 1]
        /\ UNCHANGED <<ovars, draft, counts, order, closing>>
    BY <1>1 DEF TransitionSession, AppendEvent
  <1>3. AskedOK(t) /\ Found(t)
    BY <1>1, <1>2, WriterFound
  <1>4. t.s \in Session
    BY <1>2, <1>3 DEF AskedOK
  <1>5. \/ Open(t.s) /\ TransitionTarget(t.op) \in OpenStates
        \/ session[t.s] \in {"SUBMITTED", "COMPLETED"} /\ TransitionTarget(t.op) = "COMPLETED"
    BY <1>2, <1>3 DEF Found, TransitionTarget, OpenStates
  <1>6. /\ session'[t.s] = TransitionTarget(t.op)
        /\ \A u \in Session : u # t.s => session'[u] = session[u]
    BY <1>2, <1>4 DEF PracticeTypeOK
  <1>7. PracticeTypeOK'
    BY <1>2, <1>4, <1>5 DEF PracticeTypeOK, SessionStates, OpenStates
  <1>8. OutcomeTypeOK' /\ LimitInv' /\ CountInv'
    BY <1>2, <1>7, SessionRowStep
  <1>9. OrderInv'
    <2> SUFFICES ASSUME NEW e \in Execution PROVE OrderOK(e)'
      BY DEF OrderInv
    <2>1. OrderOK(e)
      BY DEF OrderInv
    <2>2. closing[e] # 0 => order[e].s # t.s
      BY <1>2 DEF RowFree
    <2>3. phase[e] # "absent" => session'[order[e].s] # "ABSENT"
      BY <2>1, <1>5, <1>6 DEF OrderOK, OpenStates
    <2>4. closing[e] # 0 => order[e].s \in Session
      BY <2>1 DEF OrderOK
    <2> QED
      BY <2>1, <2>2, <2>3, <2>4, <1>2, <1>6 DEF OrderOK, ovars
  <1>10. SessionInv'
    <2>1. OneOpenSession'
      BY <1>5, <1>6 DEF SessionInv, OneOpenSession, Open, OpenStates
    <2>2. OneSubmission'
      BY <1>2 DEF SessionInv, OneSubmission
    <2>3. SubmittedHasOne'
      BY <1>2, <1>4, <1>5, <1>6 DEF SessionInv, SubmittedHasOne, Open, OpenStates
    <2>4. ASSUME NEW e \in Submits, phase[e] # "absent"
          PROVE  /\ grade[e] => session'[order[e].s] = "COMPLETED"
                 /\ session'[order[e].s] = "SUBMITTED" => phase[e] \in {"accepted", "working", "CANCELLED"}
      <3>1. order[e].s \in Session
        BY <2>4, ApiAssumption DEF OrderInv, OrderOK
      <3>2. session[order[e].s] \in {"SUBMITTED", "COMPLETED"}
        BY <3>1 DEF SessionInv, SubmittedHasOne
      <3>3. CASE order[e].s = t.s
        BY <3>2, <3>3, <1>5, <1>6 DEF Open, OpenStates
      <3>4. CASE order[e].s # t.s
        BY <2>4, <3>1, <3>4, <1>6 DEF SessionInv, GradedIsCompleted
      <3> QED
        BY <3>3, <3>4
    <2>5. GradedIsCompleted'
      BY <1>2, <2>4 DEF GradedIsCompleted, ovars
    <2> QED
      BY <2>1, <2>2, <2>3, <2>5 DEF SessionInv
  <1> QED
    BY <1>7, <1>8, <1>9, <1>10

\* Drafts, hints and posted events change no state of a session.
LEMMA NotesStep ==
    ASSUME ApiInv, NEW r \in Request, PatchSession(r) \/ RevealHint(r) \/ PostEvent(r)
    PROVE  DataInv'
  <1> USE DEF ApiInv, DataInv
  <1>1. PICK t \in Transactions : t = txn[r]
    BY DEF TxnInv, TxnTypeOK
  <1>2. t.pc = "write" /\ t.op \in {"patch", "hint", "event"}
    BY <1>1 DEF PatchSession, RevealHint, PostEvent, Writing
  <1>3. t.s \in Session
    BY <1>1, <1>2, WriterFound DEF AskedOK
  <1>4. /\ UNCHANGED <<ovars, session, order, closing>>
        /\ draft' = draft \/ draft' = [draft EXCEPT ![t.s] = t.src]
        /\ counts' = counts \/ counts' = [counts EXCEPT ![t.s].hints = t.n]
        /\ events' = events \/ events' = [events EXCEPT ![t.s] = @ + 1]
    BY <1>1 DEF PatchSession, RevealHint, PostEvent, AppendEvent
  <1>5. t.n \in Nat /\ t.src \in Source \cup {Starter}
    BY DEF Transactions
  <1>6. /\ counts' \in [Session -> [runs : Nat, submits : Nat, hints : Nat]]
        /\ \A s \in Session : counts'[s].runs = counts[s].runs /\ counts'[s].submits = counts[s].submits
    <2> DEFINE Counts == [runs : Nat, submits : Nat, hints : Nat]
    <2>1. counts \in [Session -> Counts]
      BY DEF PracticeTypeOK
    <2>2. \A c \in Counts : /\ [c EXCEPT !.hints = t.n] \in Counts
                            /\ [c EXCEPT !.hints = t.n].runs = c.runs
                            /\ [c EXCEPT !.hints = t.n].submits = c.submits
      BY <1>5
    <2> HIDE DEF Counts
    <2>3. CASE counts' = counts
      BY <2>1, <2>3 DEF Counts
    <2>4. CASE counts' = [counts EXCEPT ![t.s].hints = t.n]
      <3>1. counts' = [counts EXCEPT ![t.s] = [counts[t.s] EXCEPT !.hints = t.n]]
        BY <2>4
      <3>2. counts' \in [Session -> Counts]
        BY <3>1, <2>1, <2>2, <1>3
      <3>3. ASSUME NEW s \in Session
            PROVE  counts'[s].runs = counts[s].runs /\ counts'[s].submits = counts[s].submits
        BY <3>1, <2>1, <2>2, <1>3
      <3> QED
        BY <3>2, <3>3 DEF Counts
    <2> QED
      BY <1>4, <2>3, <2>4
  <1>7. PracticeTypeOK'
    BY <1>3, <1>4, <1>5, <1>6 DEF PracticeTypeOK
  <1>8. OutcomeTypeOK' /\ LimitInv' /\ CountInv'
    BY <1>4, <1>6, <1>7, SessionRowStep
  <1>9. OrderInv'
    BY <1>4 DEF OrderInv, OrderOK, ovars
  <1>10. SessionInv'
    BY <1>4 DEF SessionInv, OneOpenSession, OneSubmission, SubmittedHasOne, GradedIsCompleted, Open, ovars
  <1> QED
    BY <1>7, <1>8, <1>9, <1>10

\* The candidate's cancellation leaves the session as it is.
LEMMA CancelExecutionStep ==
    ASSUME ApiInv, NEW r \in Request, CancelExecution(r)
    PROVE  DataInv'
  <1> USE DEF ApiInv, DataInv
  <1>1. PICK e \in Execution :
            /\ phase[e] \in {"accepted", "working"} /\ phase' = [phase EXCEPT ![e] = "CANCELLED"]
            /\ closing[e] = 0
            /\ UNCHANGED <<try, basis, grade, pvars, closing>>
    BY DEF CancelExecution, Withdraw, TxnInv, RequestInv, AskedOK
  <1>2. OutcomeTypeOK' /\ PracticeTypeOK'
    BY <1>1 DEF OutcomeTypeOK, PracticeTypeOK, Phases, pvars
  <1>3. NoneAccepted
    BY <1>1 DEF NoneAccepted, OutcomeTypeOK
  <1>4. LimitInv' /\ CountInv'
    BY <1>1, <1>3, LimitsKept, CountsKept DEF pvars
  <1>5. OrderInv'
    BY <1>1 DEF OrderInv, OrderOK, OutcomeTypeOK, pvars
  <1>6. SessionInv'
    <2>1. OneOpenSession' /\ OneSubmission' /\ SubmittedHasOne'
      BY <1>1 DEF SessionInv, OneOpenSession, OneSubmission, SubmittedHasOne, Open, pvars
    <2>2. GradedIsCompleted'
      BY <1>1, ApiAssumption DEF SessionInv, GradedIsCompleted, OutcomeTypeOK, pvars
    <2> QED
      BY <2>1, <2>2 DEF SessionInv
  <1> QED
    BY <1>2, <1>4, <1>5, <1>6

-----------------------------------------------------------------------------
(* Placing an execution.                                                   *)

\* Placing an execution under a key nobody has used.
LEMMA PlaceEffect ==
    ASSUME ApiInv, NEW e \in Execution, NEW t \in Transactions, Place(e, t)
    PROVE  /\ OutcomeTypeOK' /\ order' \in [Execution -> Orders]
           /\ phase[e] = "absent" /\ phase'[e] = "accepted"
           /\ order'[e].s = t.s /\ order'[e].k = t.k
           /\ \A f \in Execution : f # e => phase'[f] = phase[f] /\ order'[f] = order[f]
           /\ UNCHANGED <<try, basis, grade>>
  <1> USE DEF ApiInv, DataInv
  <1>1. /\ phase[e] = "absent" /\ phase' = [phase EXCEPT ![e] = "accepted"]
        /\ order' = [order EXCEPT ![e] = [s |-> t.s, k |-> t.k, src |-> t.src]]
        /\ UNCHANGED <<try, basis, grade>>
    BY DEF Place, Accept
  <1>2. [s |-> t.s, k |-> t.k, src |-> t.src] \in Orders
    BY DEF Transactions, Orders
  <1>3. order \in [Execution -> Orders]
    BY DEF PracticeTypeOK
  <1>4. OutcomeTypeOK'
    BY <1>1 DEF OutcomeTypeOK, Phases
  <1>5. order' \in [Execution -> Orders]
    BY <1>1, <1>2, <1>3
  <1>6. order'[e] = [s |-> t.s, k |-> t.k, src |-> t.src]
    BY <1>1, <1>3
  <1>7. phase'[e] = "accepted" /\ \A f \in Execution : f # e => phase'[f] = phase[f]
    BY <1>1 DEF OutcomeTypeOK
  <1>8. \A f \in Execution : f # e => order'[f] = order[f]
    BY <1>1, <1>3
  <1> QED
    BY <1>1, <1>4, <1>5, <1>6, <1>7, <1>8

\* One execution more is active, of the kind it was placed in.
LEMMA ActiveGrows ==
    ASSUME LimitInv, NEW e \in Execution, phase'[e] = "accepted", phase[e] = "absent",
           \A f \in Execution : f # e => phase'[f] = phase[f],
           NEW kind \in SUBSET Execution
    PROVE  /\ IsFiniteSet(Accepted')
           /\ Cardinality(Active(kind)') = IF e \in kind THEN Cardinality(Active(kind)) + 1
                                                        ELSE Cardinality(Active(kind))
  <1>1. Accepted' = Accepted \cup {e}
    BY DEF Accepted
  <1>2. IsFiniteSet(Accepted')
    BY <1>1, FS_AddElement DEF LimitInv
  <1>3. IsFiniteSet(Active(kind)) /\ e \notin Active(kind)
    BY ActiveFinite DEF Active
  <1>4. CASE e \in kind
    <2>1. Active(kind)' = Active(kind) \cup {e}
      BY <1>4 DEF Active
    <2>2. Cardinality(Active(kind) \cup {e}) = Cardinality(Active(kind)) + 1
      BY <1>3, FS_AddElement
    <2> QED
      BY <1>2, <1>4, <2>1, <2>2
  <1>5. CASE e \notin kind
    <2>1. Active(kind)' = Active(kind)
      BY <1>5 DEF Active
    <2> QED
      BY <1>2, <1>5, <2>1
  <1> QED
    BY <1>4, <1>5

\* A key nobody has used is one key more of its session and of its kind.
LEMMA KeysGrow ==
    ASSUME ApiInv, NEW kind \in SUBSET Execution, NEW e \in Execution, NEW t \in Transactions,
           Place(e, t), t.s \in Session, e \in kind => ~KeyTaken(kind, t.k),
           NEW s \in Session, IsFiniteSet(KeysOf(kind, s))
    PROVE  /\ IsFiniteSet(KeysOf(kind, s)')
           /\ Cardinality(KeysOf(kind, s)') =
                 IF e \in kind /\ s = t.s THEN Cardinality(KeysOf(kind, s)) + 1
                                          ELSE Cardinality(KeysOf(kind, s))
  <1> USE DEF ApiInv, DataInv
  <1>1. /\ phase[e] = "absent" /\ order'[e].s = t.s /\ order'[e].k = t.k
        /\ \A f \in Execution : f # e => order'[f] = order[f]
    BY PlaceEffect
  <1>2. order[e].s # s
    BY <1>1, ApiAssumption DEF OrderInv, OrderOK
  <1>3. CASE e \in kind /\ s = t.s
    <2>1. KeysOf(kind, s)' = KeysOf(kind, s) \cup {t.k}
      BY <1>1, <1>2, <1>3 DEF KeysOf
    <2>2. t.k \notin KeysOf(kind, s)
      <3> SUFFICES ASSUME NEW f \in kind, order[f].s = s, order[f].k = t.k PROVE FALSE
        BY DEF KeysOf
      <3>1. phase[f] # "absent"
        BY ApiAssumption DEF OrderInv, OrderOK
      <3> QED
        BY <1>3, <3>1 DEF KeyTaken
    <2>3. /\ IsFiniteSet(KeysOf(kind, s) \cup {t.k})
          /\ Cardinality(KeysOf(kind, s) \cup {t.k}) = Cardinality(KeysOf(kind, s)) + 1
      BY <2>2, FS_AddElement
    <2> QED
      BY <1>3, <2>1, <2>3
  <1>4. CASE ~(e \in kind /\ s = t.s)
    <2>1. \A f \in kind : (order'[f].s = s <=> order[f].s = s) /\ (order[f].s = s => order'[f].k = order[f].k)
      BY <1>1, <1>2, <1>4
    <2>2. KeysOf(kind, s)' = KeysOf(kind, s)
      BY <2>1 DEF KeysOf
    <2> QED
      BY <1>4, <2>2
  <1> QED
    BY <1>3, <1>4


\* A new execution keeps the limits when Check found room for it.
LEMMA PlacedWithinLimits ==
    ASSUME ApiInv, NEW e \in Execution, NEW t \in Transactions, Place(e, t),
           e \in Runs => Cardinality(Active(Runs)) < MaxRuns,
           e \in Submits => Cardinality(Active(Submits)) < MaxSubmits
    PROVE  LimitInv'
  <1> USE DEF ApiInv, DataInv
  <1>1. /\ phase[e] = "absent" /\ phase'[e] = "accepted"
        /\ \A f \in Execution : f # e => phase'[f] = phase[f]
    BY PlaceEffect
  <1>2. /\ IsFiniteSet(Accepted')
        /\ Cardinality(Active(Runs)') = IF e \in Runs THEN Cardinality(Active(Runs)) + 1
                                                     ELSE Cardinality(Active(Runs))
        /\ Cardinality(Active(Submits)') = IF e \in Submits THEN Cardinality(Active(Submits)) + 1
                                                           ELSE Cardinality(Active(Submits))
    BY <1>1, Kinds, ActiveGrows
  <1>3. Cardinality(Active(Runs)) \in Nat /\ Cardinality(Active(Submits)) \in Nat
    BY Kinds, ActiveFinite
  <1>4. MaxRuns \in Nat /\ MaxSubmits \in Nat
    BY ApiAssumption
  <1> QED
    BY <1>2, <1>3, <1>4 DEF LimitInv, WithinBackpressure

\* A new execution belongs to its session.
LEMMA PlacedBelongs ==
    ASSUME ApiInv, NEW e \in Execution, NEW t \in Transactions, Place(e, t),
           t.s \in Session, session'[t.s] # "ABSENT", closing' = closing,
           \A s \in Session : session'[s] = session[s] \/ (Open(s) /\ session'[s] = "SUBMITTED")
    PROVE  OrderInv'
  <1> USE DEF ApiInv, DataInv
  <1>1. /\ phase[e] = "absent" /\ phase'[e] = "accepted" /\ order'[e].s = t.s /\ grade' = grade
        /\ \A f \in Execution : f # e => phase'[f] = phase[f] /\ order'[f] = order[f]
    BY PlaceEffect
  <1> SUFFICES ASSUME NEW f \in Execution PROVE OrderOK(f)'
    BY DEF OrderInv
  <1>2. OrderOK(f)
    BY DEF OrderInv
  <1>3. CASE f = e
    BY <1>1, <1>2, <1>3 DEF OrderOK
  <1>4. CASE f # e
    BY <1>1, <1>2, <1>4 DEF OrderOK, Open, OpenStates
  <1> QED
    BY <1>3, <1>4

\* queue_run places one execution and counts one run.
LEMMA QueueRunStep ==
    ASSUME ApiInv, NEW r \in Request, QueueRun(r)
    PROVE  DataInv'
  <1> USE DEF ApiInv, DataInv
  <1>1. PICK t \in Transactions : t = txn[r]
    BY DEF TxnInv, TxnTypeOK
  <1>2. /\ t.pc = "write" /\ t.op = "run"
        /\ draft' = [draft EXCEPT ![t.s] = t.src]
        /\ counts' = [counts EXCEPT ![t.s].runs = @ + 1]
        /\ events' = [events EXCEPT ![t.s] = @ + 1]
        /\ UNCHANGED <<session, closing>>
    BY <1>1 DEF QueueRun, Writing, AppendEvent
  <1>3. AskedOK(t) /\ Found(t)
    BY <1>1, <1>2, WriterFound
  <1>4. /\ t.s \in Session /\ session[t.s] # "ABSENT"
        /\ ~KeyTaken(Runs, t.k) /\ Cardinality(Active(Runs)) < MaxRuns
    BY <1>2, <1>3 DEF AskedOK, Found
  <1>5. PICK e \in Runs : Place(e, t)
    BY <1>1, <1>4 DEF QueueRun
  <1>6. e \in Execution /\ e \notin Submits
    BY DEF Runs
  <1>7. /\ OutcomeTypeOK' /\ order' \in [Execution -> Orders]
        /\ phase[e] = "absent" /\ phase'[e] = "accepted" /\ grade' = grade
        /\ \A f \in Execution : f # e => phase'[f] = phase[f] /\ order'[f] = order[f]
    BY <1>5, <1>6, PlaceEffect
  <1>8. PracticeTypeOK'
    BY <1>2, <1>4, <1>7 DEF PracticeTypeOK, Transactions
  <1>9. LimitInv'
    BY <1>4, <1>5, <1>6, PlacedWithinLimits
  <1>10. OrderInv'
    BY <1>2, <1>4, <1>5, <1>6, PlacedBelongs
  <1>11. CountInv'
    <2> SUFFICES ASSUME NEW s \in Session PROVE CountOK(s)'
      BY DEF CountInv
    <2>1. CountOK(s)
      BY DEF CountInv
    <2>2. /\ IsFiniteSet(KeysOf(Runs, s)')
          /\ Cardinality(KeysOf(Runs, s)') = IF s = t.s THEN Cardinality(KeysOf(Runs, s)) + 1
                                                      ELSE Cardinality(KeysOf(Runs, s))
      BY <1>4, <1>5, <1>6, <2>1, Kinds, KeysGrow DEF CountOK
    <2>3. /\ IsFiniteSet(KeysOf(Submits, s)')
          /\ Cardinality(KeysOf(Submits, s)') = Cardinality(KeysOf(Submits, s))
      BY <1>4, <1>5, <1>6, <2>1, Kinds, KeysGrow DEF CountOK
    <2>4. /\ counts'[s].runs = IF s = t.s THEN counts[s].runs + 1 ELSE counts[s].runs
          /\ counts'[s].submits = counts[s].submits
      BY <1>2, <1>4 DEF PracticeTypeOK
    <2> QED
      BY <2>1, <2>2, <2>3, <2>4 DEF CountOK
  <1>12. SessionInv'
    <2>1. \A f \in Submits : f \in Execution /\ f # e
      BY <1>6, ApiAssumption
    <2> QED
      BY <1>2, <1>7, <2>1
         DEF SessionInv, OneOpenSession, OneSubmission, SubmittedHasOne, GradedIsCompleted, Open
  <1> QED
    BY <1>7, <1>8, <1>9, <1>10, <1>11, <1>12

\* queue_submit places one execution, counts it and submits the session.
LEMMA QueueSubmitStep ==
    ASSUME ApiInv, NEW r \in Request, QueueSubmit(r)
    PROVE  DataInv'
  <1> USE DEF ApiInv, DataInv
  <1>1. PICK t \in Transactions : t = txn[r]
    BY DEF TxnInv, TxnTypeOK
  <1>2. /\ t.pc = "write" /\ t.op = "submit" /\ ~KeyTaken(Submits, t.k) /\ Open(t.s)
        /\ session' = [session EXCEPT ![t.s] = "SUBMITTED"]
        /\ draft' = [draft EXCEPT ![t.s] = t.src]
        /\ counts' = [counts EXCEPT ![t.s].submits = @ + 1]
        /\ events' = [events EXCEPT ![t.s] = @ + 1]
        /\ closing' = closing
    BY <1>1 DEF QueueSubmit, Writing, AppendEvent
  <1>3. AskedOK(t) /\ Found(t)
    BY <1>1, <1>2, WriterFound
  <1>4. t.s \in Session /\ Cardinality(Active(Submits)) < MaxSubmits
    BY <1>2, <1>3 DEF AskedOK, Found
  <1>5. PICK e \in Submits : Place(e, t)
    BY <1>1 DEF QueueSubmit
  <1>6. e \in Execution /\ e \notin Runs
    BY ApiAssumption DEF Runs
  <1>7. /\ OutcomeTypeOK' /\ order' \in [Execution -> Orders]
        /\ phase[e] = "absent" /\ phase'[e] = "accepted" /\ grade' = grade /\ order'[e].s = t.s
        /\ \A f \in Execution : f # e => phase'[f] = phase[f] /\ order'[f] = order[f]
    BY <1>5, <1>6, PlaceEffect
  <1>8. session'[t.s] = "SUBMITTED" /\ \A u \in Session : u # t.s => session'[u] = session[u]
    BY <1>2, <1>4 DEF PracticeTypeOK
  <1>9. \A f \in Submits : order[f].s # t.s
    BY <1>2, <1>4 DEF SessionInv, SubmittedHasOne, Open, OpenStates
  <1>10. PracticeTypeOK'
    BY <1>2, <1>4, <1>7 DEF PracticeTypeOK, Transactions, SessionStates
  <1>11. LimitInv'
    BY <1>4, <1>5, <1>6, PlacedWithinLimits
  <1>12. OrderInv'
    BY <1>2, <1>4, <1>5, <1>6, <1>8, PlacedBelongs
  <1>13. CountInv'
    <2> SUFFICES ASSUME NEW s \in Session PROVE CountOK(s)'
      BY DEF CountInv
    <2>1. CountOK(s)
      BY DEF CountInv
    <2>2. /\ IsFiniteSet(KeysOf(Submits, s)')
          /\ Cardinality(KeysOf(Submits, s)') = IF s = t.s THEN Cardinality(KeysOf(Submits, s)) + 1
                                                         ELSE Cardinality(KeysOf(Submits, s))
      BY <1>2, <1>4, <1>5, <1>6, <2>1, Kinds, KeysGrow DEF CountOK
    <2>3. /\ IsFiniteSet(KeysOf(Runs, s)')
          /\ Cardinality(KeysOf(Runs, s)') = Cardinality(KeysOf(Runs, s))
      BY <1>4, <1>5, <1>6, <2>1, Kinds, KeysGrow DEF CountOK
    <2>4. /\ counts'[s].submits = IF s = t.s THEN counts[s].submits + 1 ELSE counts[s].submits
          /\ counts'[s].runs = counts[s].runs
      BY <1>2, <1>4 DEF PracticeTypeOK
    <2> QED
      BY <2>1, <2>2, <2>3, <2>4 DEF CountOK
  <1>14. SessionInv'
    <2>1. \A f \in Submits : f # e => f \in Execution /\ order'[f] = order[f] /\ phase'[f] = phase[f]
      BY <1>7, ApiAssumption
    <2>2. OneOpenSession'
      BY <1>8 DEF SessionInv, OneOpenSession, Open, OpenStates
    <2>3. OneSubmission'
      BY <1>7, <1>9, <2>1 DEF SessionInv, OneSubmission
    <2>4. SubmittedHasOne'
      <3> SUFFICES ASSUME NEW s \in Session
                   PROVE  session'[s] \in {"SUBMITTED", "COMPLETED"} <=> \E f \in Submits : order'[f].s = s
        BY DEF SubmittedHasOne
      <3>1. CASE s = t.s
        BY <3>1, <1>5, <1>7, <1>8
      <3>2. CASE s # t.s
        <4>1. order[e].s # s
          BY <1>6, <1>7, ApiAssumption DEF OrderInv, OrderOK
        <4>2. \A f \in Submits : order'[f].s = s <=> order[f].s = s
          BY <2>1, <3>2, <4>1, <1>7
        <4> QED
          BY <3>2, <4>2, <1>8 DEF SessionInv, SubmittedHasOne
      <3> QED
        BY <3>1, <3>2
    <2>5. GradedIsCompleted'
      <3> SUFFICES ASSUME NEW f \in Submits, phase'[f] # "absent"
                   PROVE  /\ grade'[f] => session'[order'[f].s] = "COMPLETED"
                          /\ session'[order'[f].s] = "SUBMITTED" =>
                                phase'[f] \in {"accepted", "working", "CANCELLED"}
        BY DEF GradedIsCompleted
      <3>1. CASE f = e
        BY <3>1, <1>6, <1>7 DEF OrderInv, OrderOK
      <3>2. CASE f # e
        <4>1. order[f].s \in Session /\ order[f].s # t.s
          BY <2>1, <3>2, <1>9 DEF OrderInv, OrderOK
        <4> QED
          BY <2>1, <3>2, <4>1, <1>7, <1>8 DEF SessionInv, GradedIsCompleted
      <3> QED
        BY <3>1, <3>2
    <2> QED
      BY <2>2, <2>3, <2>4, <2>5 DEF SessionInv
  <1> QED
    BY <1>7, <1>10, <1>11, <1>12, <1>13, <1>14

-----------------------------------------------------------------------------
(* The theorems.                                                           *)

\* The initial state satisfies the invariant.
LEMMA InitApiInv == ApiInit => ApiInv
  <1> SUFFICES ASSUME ApiInit PROVE ApiInv
    OBVIOUS
  <1> USE DEF ApiInit
  <1>1. OutcomeTypeOK
    BY DEF OutcomeInit, OutcomeTypeOK, Phases
  <1>2. PracticeTypeOK
    <2>1. NoOrder \in Orders
      BY DEF NoOrder, Orders
    <2> QED
      BY <2>1 DEF PracticeTypeOK, SessionStates
  <1>3. TxnInv
    <2>1. Done \in Transactions /\ Done.pc = "idle"
      BY DEF Done, Transactions, Operations
    <2> QED
      BY <2>1 DEF TxnInv, TxnTypeOK, RequestInv, AskedOK, CheckedInv
  <1>4. phase = [e \in Execution |-> "absent"] /\ grade = [e \in Execution |-> FALSE]
    BY DEF OutcomeInit
  <1>5. \A e \in Execution : order[e].s = Nobody
    BY DEF NoOrder
  <1>6. IsFiniteSet({}) /\ Cardinality({}) = 0
    BY FS_EmptySet
  <1>7. LimitInv
    <2>1. Accepted = {} /\ Active(Runs) = {} /\ Active(Submits) = {}
      BY <1>4, Kinds DEF Accepted, Active
    <2>2. 0 <= MaxRuns /\ 0 <= MaxSubmits
      BY ApiAssumption
    <2> QED
      BY <1>6, <2>1, <2>2 DEF LimitInv, WithinBackpressure
  <1>8. OrderInv
    BY <1>4, <1>5 DEF OrderInv, OrderOK
  <1>9. CountInv
    <2> SUFFICES ASSUME NEW s \in Session PROVE CountOK(s)
      BY DEF CountInv
    <2>1. KeysOf(Runs, s) = {} /\ KeysOf(Submits, s) = {}
      BY <1>5, Kinds, ApiAssumption DEF KeysOf
    <2>2. counts[s].runs = 0 /\ counts[s].submits = 0
      OBVIOUS
    <2> HIDE DEF ApiInit
    <2> QED
      BY <1>6, <2>1, <2>2 DEF CountOK
  <1>10. SessionInv
    BY <1>4, <1>5, ApiAssumption, Kinds
       DEF SessionInv, OneOpenSession, OneSubmission, SubmittedHasOne, GradedIsCompleted, Open, OpenStates
  <1> QED
    BY <1>1, <1>2, <1>3, <1>7, <1>8, <1>9, <1>10 DEF ApiInv, DataInv

\* Every step keeps the invariant.
LEMMA NextApiInv ==
    ASSUME ApiInv, [ApiNext]_avars
    PROVE  ApiInv'
  <1>1. ASSUME NEW r \in Request, Begin(r) \/ Check(r) \/ Answer(r) \/ Rollback(r)
        PROVE  ApiInv'
    <2>1. DataInv'
      BY <1>1, RowsUntouched DEF Begin, Check, Answer, Rollback, ApiInv
    <2>2. TxnInv'
      BY <1>1, BeginStep, CheckStep, ReleaseLeavesNone DEF Answer, Rollback, ApiInv
    <2> QED
      BY <2>1, <2>2 DEF ApiInv
  <1>2. ASSUME NEW r \in Request, Write(r)
        PROVE  ApiInv'
    <2>1. DataInv'
      BY <1>2, CreateSessionStep, TransitionSessionStep, NotesStep, QueueRunStep, QueueSubmitStep,
         CancelExecutionStep DEF Write
    <2>2. txn[r].pc # "idle" /\ Release(r)
      BY <1>2 DEF Write, CreateSession, PatchSession, TransitionSession, RevealHint, PostEvent,
                  QueueRun, QueueSubmit, CancelExecution, Writing
    <2>3. TxnInv'
      BY <2>2, ReleaseLeavesNone DEF ApiInv
    <2> QED
      BY <2>1, <2>3 DEF ApiInv
  <1>3. ASSUME NEW e \in Execution, Service(e) \/ Finalize(e)
        PROVE  ApiInv'
    BY <1>3, ServiceStep, ConcludeQuietlyStep, FinalizeSubmissionStep, FinalizeCommitsStep DEF Finalize
  <1>4. CASE UNCHANGED avars
    <2>1. DataInv'
      BY <1>4, RowsUntouched DEF avars, ApiInv
    <2>2. TxnInv'
      <3>1. UNCHANGED <<txn, lock, session, phase, order>>
        BY <1>4 DEF avars, pvars, ovars
      <3> QED
        BY <3>1 DEF ApiInv, TxnInv, TxnTypeOK, RequestInv, AskedOK, CheckedInv, Found, CanCreate, Open,
                    KeyTaken, Active
    <2> QED
      BY <2>1, <2>2 DEF ApiInv
  <1> QED
    BY <1>1, <1>2, <1>3, <1>4 DEF ApiNext

\* The invariant holds in every reachable state.
LEMMA ApiInvariance == ApiSpec => []ApiInv
  BY InitApiInv, NextApiInv, PTL DEF ApiSpec

\* The candidate's active executions stay within the limits of
\* _enforce_backpressure for every number of API threads: the count is read
\* and the row inserted under the users row ensure_user locks.
THEOREM Backpressure == ApiSpec => []WithinBackpressure
  <1>1. ApiInv => WithinBackpressure
    BY DEF ApiInv, DataInv, LimitInv
  <1> QED
    BY <1>1, ApiInvariance, PTL

\* run_count and submission_count count each idempotency key of the session
\* once (queue_run, queue_submit, _existing_execution).
THEOREM EachKeyOnce == ApiSpec => []CountedOncePerKey
  <1>1. ApiInv => CountedOncePerKey
    BY DEF ApiInv, DataInv, CountInv, CountOK, KeysOf, CountedOncePerKey
  <1> QED
    BY <1>1, ApiInvariance, PTL

\* Sessions and submissions agree: one open session, one submission of each,
\* and a grade only with a completed session (create, repository.transition
\* and finalize_submission).
THEOREM SessionAgreement == ApiSpec => []SessionsAgree
  <1>1. ASSUME ApiInv PROVE SubmittedOnce
    <2> SUFFICES ASSUME NEW s \in Session
                 PROVE  LET own == {e \in Submits : order[e].s = s} IN
                        /\ session[s] \in {"SUBMITTED", "COMPLETED"} <=> own # {}
                        /\ Cardinality(own) <= 1
      BY DEF SubmittedOnce
    <2> DEFINE own == {e \in Submits : order[e].s = s}
    <2>1. session[s] \in {"SUBMITTED", "COMPLETED"} <=> own # {}
      BY <1>1 DEF ApiInv, DataInv, SessionInv, SubmittedHasOne
    <2>2. own = {} \/ \E e : own = {e}
      BY <1>1 DEF ApiInv, DataInv, SessionInv, OneSubmission
    <2>3. Cardinality(own) = 0 \/ Cardinality(own) = 1
      BY <2>2, FS_EmptySet, FS_Singleton
    <2> HIDE DEF own
    <2>4. Cardinality(own) <= 1
      BY <2>3
    <2> QED
      BY <2>1, <2>4 DEF own
  <1>2. ApiInv => SessionsAgree
    BY <1>1 DEF ApiInv, DataInv, SessionInv, SessionsAgree
  <1> QED
    BY <1>2, ApiInvariance, PTL

\* Whatever requests and sessions do around it, the execution service is seen
\* to keep its promise: every step of the API and of the controllers is a step
\* of ExecutionOutcome or leaves it alone.
THEOREM ServiceKeepsPromise == ApiSpec => OutcomeSpec
  <1>1. ApiInit => OutcomeInit
    BY DEF ApiInit
  <1>2. ASSUME ApiInv, [ApiNext]_avars
        PROVE  [OutcomeNext]_ovars
    <2>2. ASSUME NEW r \in Request, QueueRun(r)
          PROVE  [OutcomeNext]_ovars
      BY <2>2 DEF QueueRun, Place, OutcomeNext, Runs
    <2>3. ASSUME NEW r \in Request, QueueSubmit(r)
          PROVE  [OutcomeNext]_ovars
      BY <2>3, ApiAssumption DEF QueueSubmit, Place, OutcomeNext
    <2>4. ASSUME NEW r \in Request, CancelExecution(r)
          PROVE  [OutcomeNext]_ovars
      <3>1. txn[r].e \in Execution /\ Withdraw(txn[r].e)
        BY <2>4, <1>2 DEF CancelExecution, ApiInv, TxnInv, RequestInv, AskedOK
      <3> QED
        BY <3>1 DEF OutcomeNext
    <2>5. ASSUME NEW e \in Execution, Service(e) \/ Finalize(e)
          PROVE  [OutcomeNext]_ovars
      BY <2>5 DEF Service, Finalize, ConcludeQuietly, FinalizeSubmission, FinalizeCommits,
                  FinalizeConflicts, OutcomeNext
    <2>6. ASSUME NEW r \in Request, Begin(r) \/ Check(r) \/ Answer(r) \/ Rollback(r) \/ CreateSession(r)
                                    \/ PatchSession(r) \/ TransitionSession(r) \/ RevealHint(r) \/ PostEvent(r)
          PROVE  UNCHANGED ovars
      BY <2>6 DEF Begin, Check, Answer, Rollback, CreateSession, PatchSession, TransitionSession,
                  RevealHint, PostEvent
    <2>7. CASE UNCHANGED avars
      BY <2>7 DEF avars
    <2> QED
      BY <1>2, <2>2, <2>3, <2>4, <2>5, <2>6, <2>7 DEF ApiNext, Write
  <1> QED
    BY <1>1, <1>2, ApiInvariance, PTL DEF ApiSpec, OutcomeSpec

=============================================================================

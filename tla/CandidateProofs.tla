--------------------------- MODULE CandidateProofs ---------------------------
(***************************************************************************)
(* Proofs about what the platform keeps of a candidate: the account        *)
(* (Identity), the mock interviews (MockInterview), the evidence of        *)
(* competencies (CandidateEvidence), the arena's ratings (AiArena) and the *)
(* records of reviews, tutoring and progress (StudyRecords), for every set *)
(* of subjects, requests, sessions, templates, sources, competencies,      *)
(* versions, grades, comments, problems and database sessions.             *)
(***************************************************************************)
EXTENDS ImportProofs, Identity, MockInterview, CandidateEvidence, AiArena, StudyRecords

-----------------------------------------------------------------------------
(* Competency evidence.                                                    *)

\* A row an open transaction calculated counts its own source, otherwise only
\* what is recorded, and misses only what overlapped it.
Row == [of : Competency, counts : SUBSET Source]
RowOK(r, t) ==
    /\ r \in Row
    /\ t.source \in r.counts
    /\ r.counts \subseteq evidence[r.of] \cup {t.source}
    /\ evidence[r.of] \ r.counts \subseteq t.met

\* Open transactions are of different sources that are not recorded yet, and
\* each has met the other.
Transactions == [source : Source, left : SUBSET Competency, aggregate : Row \cup {NoAggregate},
                 wrote : SUBSET Row, met : SUBSET Source]

TxOK(w) ==
    \/ tx[w] = Closed
    \/ /\ tx[w] \in Transactions
       /\ \A c \in Competency : tx[w].source \notin evidence[c]
       /\ \A r \in tx[w].wrote : RowOK(r, tx[w])
       /\ tx[w].aggregate # NoAggregate => RowOK(tx[w].aggregate, tx[w])
       /\ \A v \in Writer \ {w} : tx[v] # Closed => /\ tx[v].source \in tx[w].met
                                                   /\ tx[v].source # tx[w].source

EvidenceInv ==
    /\ DOMAIN tx = Writer
    /\ evidence \in [Competency -> SUBSET Source]
    /\ \A w \in Writer : TxOK(w)
    /\ OnlyOverlapIsMissed

\* A transaction that is not closed has a source.
LEMMA OpenTx ==
    ASSUME EvidenceInv, NEW w \in Writer
    PROVE  /\ tx[w] = Closed \/ (tx[w] \in Transactions /\ tx[w].source \in Source)
           /\ tx[w].source # NoEvidence <=> tx[w] # Closed
           /\ tx[w] # Closed => tx[w].source \in Open
  <1>1. tx[w] = Closed \/ tx[w] \in Transactions
    BY DEF EvidenceInv, TxOK
  <1>2. tx[w] \in Transactions => tx[w].source \in Source /\ tx[w].source # NoEvidence
    BY EvidenceAssumption DEF Transactions
  <1>3. Closed.source = NoEvidence
    BY DEF Closed
  <1> QED
    BY <1>1, <1>2, <1>3 DEF Open

\* A transaction begins beside the open ones.
LEMMA RecordStartStep ==
    ASSUME EvidenceInv, NEW w \in Writer, NEW s \in Source, RecordStart(w, s)
    PROVE  EvidenceInv'
  <1> USE DEF EvidenceInv
  <1> DEFINE new == [Closed EXCEPT !.source = s, !.left = Measures[s], !.met = Open]
  <1>1. UNCHANGED <<evidence, mastery, overlapped>> /\ tx[w] = Closed
    BY DEF RecordStart
  <1>2. tx' = [v \in Writer |->
                IF v = w THEN new
                ELSE IF tx[v] # Closed THEN [tx[v] EXCEPT !.met = @ \cup {s}] ELSE tx[v]]
    BY DEF RecordStart
  <1>3. Open \subseteq Source
    BY OpenTx DEF Open, Closed
  <1>4. /\ new \in Transactions /\ new.source = s /\ new.met = Open
        /\ new.wrote = {} /\ new.aggregate = NoAggregate
    BY <1>3, EvidenceAssumption DEF Transactions, Closed
  <1>5. \A c \in Competency : s \notin evidence[c]
    BY DEF RecordStart, Recorded
  <1>6. s \notin Open
    BY DEF RecordStart
  <1> HIDE DEF new
  <1>7. ASSUME NEW v \in Writer \ {w}, tx[v] # Closed
        PROVE  /\ tx'[v] \in Transactions /\ tx'[v].source = tx[v].source
               /\ tx'[v].wrote = tx[v].wrote /\ tx'[v].aggregate = tx[v].aggregate
               /\ tx'[v].met = tx[v].met \cup {s}
    <2>1. PICK t \in Transactions : t = tx[v]
      BY <1>7, OpenTx
    <2>2. tx'[v] = [t EXCEPT !.met = t.met \cup {s}]
      BY <1>2, <1>7, <2>1
    <2> QED
      BY <2>1, <2>2 DEF Transactions
  <1>8. TxOK(w)'
    <2>1. \A v \in Writer \ {w} : tx'[v] # Closed => tx'[v].source \in Open /\ tx'[v].source # s
      BY <1>2, <1>6, <1>7, OpenTx
    <2> QED
      BY <1>1, <1>2, <1>4, <1>5, <2>1 DEF TxOK
  <1>9. ASSUME NEW v \in Writer \ {w} PROVE TxOK(v)'
    <2>1. CASE tx[v] = Closed
      BY <1>2, <2>1 DEF TxOK
    <2>2. CASE tx[v] # Closed
      <3>1. TxOK(v)
        OBVIOUS
      <3>2. ASSUME NEW r, RowOK(r, tx[v]) PROVE RowOK(r, tx'[v])
        BY <1>7, <2>2, <3>2 DEF RowOK
      <3>3. ASSUME NEW u \in Writer \ {v}, tx'[u] # Closed
            PROVE  tx'[u].source \in tx'[v].met /\ tx'[u].source # tx'[v].source
        <4>1. CASE u = w
          BY <1>2, <1>4, <1>6, <1>7, <2>2, <4>1, OpenTx
        <4>2. CASE u # w
          <5>1. tx[u] # Closed
            BY <1>2, <3>3, <4>2
          <5> QED
            BY <1>7, <2>2, <3>1, <3>3, <4>2, <5>1 DEF TxOK
        <4> QED
          BY <4>1, <4>2
      <3> QED
        BY <1>1, <1>7, <2>2, <3>1, <3>2, <3>3 DEF TxOK, RowOK
    <2> QED
      BY <2>1, <2>2
  <1> QED
    BY <1>1, <1>2, <1>8, <1>9 DEF OnlyOverlapIsMissed

\* One transaction goes on; the others see nothing of it.
LEMMA TxGoesOn ==
    ASSUME EvidenceInv, NEW w \in Writer, NEW new \in Transactions,
           tx[w] # Closed, new.source = tx[w].source, new.met = tx[w].met,
           tx' = [tx EXCEPT ![w] = new],
           UNCHANGED <<evidence, mastery, overlapped>>,
           \A r \in new.wrote : RowOK(r, new),
           new.aggregate # NoAggregate => RowOK(new.aggregate, new)
    PROVE  EvidenceInv'
  <1> USE DEF EvidenceInv
  <1>1. tx'[w] = new /\ \A v \in Writer \ {w} : tx'[v] = tx[v]
    OBVIOUS
  <1>2. new # Closed
    BY OpenTx DEF Closed
  <1>3. ASSUME NEW v \in Writer PROVE TxOK(v)'
    <2>1. TxOK(v)
      OBVIOUS
    <2>2. CASE v = w
      BY <1>1, <2>1, <2>2 DEF TxOK, RowOK
    <2>3. CASE v # w
      BY <1>1, <1>2, <2>1, <2>3 DEF TxOK, RowOK
    <2> QED
      BY <2>2, <2>3
  <1> QED
    BY <1>3 DEF OnlyOverlapIsMissed

\* The aggregate sees what is committed and the transaction's own row.
LEMMA EvidenceAggregateStep ==
    ASSUME EvidenceInv, NEW w \in Writer, NEW c \in Competency, EvidenceAggregate(w, c)
    PROVE  EvidenceInv'
  <1> USE DEF EvidenceInv
  <1>1. tx[w].aggregate = NoAggregate /\ c \in tx[w].left /\ UNCHANGED <<evidence, mastery, overlapped>>
    BY DEF EvidenceAggregate
  <1>2. tx[w] # Closed
    BY <1>1 DEF Closed
  <1>3. PICK t \in Transactions : t = tx[w]
    BY <1>2, OpenTx
  <1>4. PICK row \in Row : row = [of |-> c, counts |-> evidence[c] \cup {t.source}]
    <2>1. evidence[c] \cup {t.source} \in SUBSET Source
      BY DEF Transactions
    <2> QED
      BY <2>1 DEF Row
  <1> DEFINE new == [t EXCEPT !.aggregate = row, !.left = t.left \ {c}]
  <1>5. /\ new \in Transactions /\ new.source = t.source /\ new.met = t.met
        /\ new.wrote = t.wrote /\ new.aggregate = row
    BY DEF Transactions
  <1>6. tx' = [tx EXCEPT ![w] = new]
    BY <1>3, <1>4 DEF EvidenceAggregate, Aggregate
  <1> HIDE DEF new
  <1>7. RowOK(row, new)
    BY <1>4, <1>5 DEF RowOK
  <1>8. \A r \in new.wrote : RowOK(r, new)
    BY <1>2, <1>3, <1>5 DEF TxOK, RowOK
  <1> QED
    BY <1>1, <1>2, <1>3, <1>5, <1>6, <1>7, <1>8, TxGoesOn

\* The row that is written is the one calculated before.
LEMMA MasteryUpsertStep ==
    ASSUME EvidenceInv, NEW w \in Writer, MasteryUpsert(w)
    PROVE  EvidenceInv'
  <1> USE DEF EvidenceInv
  <1>1. tx[w].aggregate # NoAggregate /\ UNCHANGED <<evidence, mastery, overlapped>>
    BY DEF MasteryUpsert
  <1>2. tx[w] # Closed
    BY <1>1 DEF Closed
  <1>3. PICK t \in Transactions : t = tx[w]
    BY <1>2, OpenTx
  <1> DEFINE new == [t EXCEPT !.wrote = t.wrote \cup {t.aggregate}, !.aggregate = NoAggregate]
  <1>4. /\ new \in Transactions /\ new.source = t.source /\ new.met = t.met
        /\ new.wrote = t.wrote \cup {t.aggregate} /\ new.aggregate = NoAggregate
    <2>1. t.aggregate \in Row
      BY <1>1, <1>3 DEF Transactions
    <2> QED
      BY <2>1 DEF Transactions
  <1>5. tx' = [tx EXCEPT ![w] = new]
    BY <1>3 DEF MasteryUpsert
  <1> HIDE DEF new
  <1>6. \A r \in new.wrote : RowOK(r, new)
    BY <1>1, <1>2, <1>3, <1>4 DEF TxOK, RowOK
  <1> QED
    BY <1>1, <1>2, <1>3, <1>4, <1>5, <1>6, TxGoesOn

\* What a commit adds is evidence that every open transaction has met.
LEMMA RecordCommitStep ==
    ASSUME EvidenceInv, NEW w \in Writer, RecordCommit(w)
    PROVE  EvidenceInv'
  <1> USE DEF EvidenceInv
  <1> DEFINE Wrote(c) == \E r \in tx[w].wrote : r.of = c
             Chosen(c) == CHOOSE r \in tx[w].wrote : r.of = c
  <1>1. /\ tx[w].source # NoEvidence
        /\ evidence' = [c \in Competency |-> IF Wrote(c) THEN evidence[c] \cup {tx[w].source} ELSE evidence[c]]
        /\ mastery' = [c \in Competency |-> IF Wrote(c) THEN Chosen(c).counts ELSE mastery[c]]
        /\ overlapped' = [c \in Competency |-> IF Wrote(c) THEN tx[w].met ELSE overlapped[c]]
        /\ tx' = [tx EXCEPT ![w] = Closed]
    BY DEF RecordCommit
  <1>2. PICK t \in Transactions : t = tx[w]
    BY <1>1, OpenTx
  <1>3. TxOK(w) /\ t # Closed /\ t.source \in Source
    BY <1>1, <1>2, OpenTx DEF Transactions
  <1>4. ASSUME NEW c \in Competency, Wrote(c)
        PROVE  Chosen(c) \in t.wrote /\ Chosen(c).of = c /\ RowOK(Chosen(c), t)
    BY <1>2, <1>3, <1>4 DEF TxOK
  <1>5. \A c \in Competency : /\ evidence'[c] = evidence[c] \cup {t.source} \/ evidence'[c] = evidence[c]
                              /\ evidence'[c] \in SUBSET Source
    BY <1>1, <1>2, <1>3
  <1>6. OnlyOverlapIsMissed'
    <2>1. ASSUME NEW c \in Competency
          PROVE  mastery'[c] \subseteq evidence'[c] /\ evidence'[c] \ mastery'[c] \subseteq overlapped'[c]
      <3>1. CASE Wrote(c)
        <4>1. /\ mastery'[c] = Chosen(c).counts /\ overlapped'[c] = t.met
              /\ evidence'[c] = evidence[c] \cup {t.source}
          BY <1>1, <1>2, <3>1
        <4> HIDE DEF Chosen
        <4> QED
          BY <1>4, <3>1, <4>1 DEF RowOK
      <3>2. CASE ~Wrote(c)
        BY <1>1, <3>2 DEF OnlyOverlapIsMissed
      <3> QED
        BY <3>1, <3>2
    <2> QED
      BY <2>1 DEF OnlyOverlapIsMissed
  <1>7. ASSUME NEW v \in Writer PROVE TxOK(v)'
    <2>1. CASE v = w \/ tx[v] = Closed
      BY <1>1, <2>1 DEF TxOK
    <2>2. CASE v # w /\ tx[v] # Closed
      <3>1. TxOK(v) /\ tx'[v] = tx[v]
        BY <1>1, <2>2
      <3>2. t.source \in tx[v].met /\ t.source # tx[v].source
        BY <1>2, <1>3, <2>2, <3>1 DEF TxOK
      <3>3. ASSUME NEW r, RowOK(r, tx[v]) PROVE RowOK(r, tx[v])'
        BY <1>5, <3>1, <3>2, <3>3 DEF RowOK, Row
      <3>4. \A u \in Writer : tx'[u] # Closed => tx'[u] = tx[u]
        BY <1>1
      <3> QED
        BY <1>5, <2>2, <3>1, <3>2, <3>3, <3>4 DEF TxOK
    <2> QED
      BY <2>1, <2>2
  <1> QED
    BY <1>1, <1>5, <1>6, <1>7

\* Of a transaction that is rolled back nothing stays.
LEMMA RecordAbortsStep ==
    ASSUME EvidenceInv, NEW w \in Writer, RecordAborts(w)
    PROVE  EvidenceInv'
  <1> USE DEF EvidenceInv
  <1>1. tx' = [tx EXCEPT ![w] = Closed] /\ UNCHANGED <<evidence, mastery, overlapped>>
    BY DEF RecordAborts
  <1>2. tx'[w] = Closed /\ \A v \in Writer \ {w} : tx'[v] = tx[v]
    BY <1>1
  <1>3. ASSUME NEW v \in Writer PROVE TxOK(v)'
    BY <1>1, <1>2, <1>3 DEF TxOK, RowOK
  <1> QED
    BY <1>1, <1>3 DEF OnlyOverlapIsMissed

\* A mastery row counts only recorded evidence and misses only what a
\* transaction beside its last writer recorded (_write_evidence,
\* _write_progress, _write_mastery).
THEOREM MissesOnlyOverlap == EvidenceSpec => []OnlyOverlapIsMissed
  <1>1. EvidenceInit => EvidenceInv
    BY DEF EvidenceInit, EvidenceInv, TxOK, OnlyOverlapIsMissed
  <1>2. EvidenceInv /\ [EvidenceNext]_evidenceVars => EvidenceInv'
    <2> SUFFICES ASSUME EvidenceInv, [EvidenceNext]_evidenceVars PROVE EvidenceInv'
      OBVIOUS
    <2>1. CASE EvidenceNext
      BY <2>1, RecordStartStep, EvidenceAggregateStep, MasteryUpsertStep, RecordCommitStep,
         RecordAbortsStep DEF EvidenceNext
    <2>2. CASE UNCHANGED evidenceVars
      BY <2>2 DEF evidenceVars, EvidenceInv, TxOK, RowOK, OnlyOverlapIsMissed
    <2> QED
      BY <2>1, <2>2
  <1>3. EvidenceInv => OnlyOverlapIsMissed
    BY DEF EvidenceInv
  <1> QED
    BY <1>1, <1>2, <1>3, PTL DEF EvidenceSpec

-----------------------------------------------------------------------------
(* Accounts.                                                               *)

Accounts == [status : {"absent", "active", "deleted"}, email : Nat, roles : SUBSET AnyRole]
Principals == [subject : Subject, email : Nat, roles : SUBSET AnyRole]
IdentityTypeOK ==
    /\ provider \in [Subject -> [life : {"none", "active", "deleted"}, version : Nat]]
    /\ sent \subseteq [subject : Subject, type : ClerkTypes, version : Nat]
    /\ account \in [Subject -> Accounts]
    /\ principal \in [Request -> Principals \cup {NoPrincipal}]

\* Nobody but an administrator changes what the database says of a subject.
Authoritative(s) ==
    /\ account[s].status = "deleted" => account'[s].status = "deleted"
    /\ account'[s].roles # account[s].roles =>
          (account[s].roles = {} /\ account'[s].roles = {"candidate"})
          \/ \E roles \in SUBSET AnyRole : GrantRoles(s, roles)

AuthoritativeStep == \A s \in Subject \ LocalSubject : Authoritative(s)

\* Steps that write no account.
LEMMA AccountsUntouched ==
    ASSUME IdentityTypeOK, UNCHANGED account
    PROVE  account' \in [Subject -> Accounts] /\ AuthoritativeStep
  BY DEF IdentityTypeOK, AuthoritativeStep, Authoritative

\* A step that writes one account.
LEMMA OneAccount ==
    ASSUME IdentityTypeOK, NEW s \in Subject, NEW new \in Accounts, account' = [account EXCEPT ![s] = new],
           s \notin LocalSubject => Authoritative(s)
    PROVE  account' \in [Subject -> Accounts] /\ AuthoritativeStep
  BY DEF IdentityTypeOK, AuthoritativeStep, Authoritative

\* The upsert of an event's metadata.
LEMMA ProvisionedStep ==
    ASSUME IdentityTypeOK, NEW s \in Subject, NEW email \in Nat, account' = Provisioned(s, email)
    PROVE  account' \in [Subject -> Accounts] /\ AuthoritativeStep
  <1>1. PICK old \in Accounts : old = account[s]
    BY DEF IdentityTypeOK
  <1> DEFINE new == [status |-> IF old = NoAccount THEN "active" ELSE old.status, email |-> email,
                     roles |-> IF old.roles = {} THEN {"candidate"} ELSE old.roles]
  <1>2. new \in Accounts
    BY IdentityAssumption DEF Accounts
  <1>3. /\ old.status = "deleted" => new.status = "deleted"
        /\ new.roles # old.roles => old.roles = {} /\ new.roles = {"candidate"}
    BY DEF NoAccount
  <1>4. account' = [account EXCEPT ![s] = new]
    BY <1>1 DEF Provisioned
  <1> HIDE DEF new
  <1>5. account'[s] = new
    BY <1>4 DEF IdentityTypeOK
  <1>6. Authoritative(s)
    BY <1>1, <1>3, <1>5 DEF Authoritative
  <1> QED
    BY <1>2, <1>4, <1>6, OneAccount

\* A deletion that may find no account.
LEMMA UserDeletedStep ==
    ASSUME IdentityTypeOK, NEW e \in sent, UserDeletedEvent(e)
    PROVE  account' \in [Subject -> Accounts] /\ AuthoritativeStep
  <1>1. PICK s \in Subject : s = e.subject
    BY DEF IdentityTypeOK
  <1>2. PICK old \in Accounts : old = account[s]
    BY DEF IdentityTypeOK
  <1> DEFINE new == [old EXCEPT !.status = IF old.status = "absent" THEN old.status ELSE "deleted"]
  <1>3. new \in Accounts /\ new.roles = old.roles /\ (old.status = "deleted" => new.status = "deleted")
    BY DEF Accounts
  <1>4. account' = [account EXCEPT ![s] = new]
    BY <1>1, <1>2 DEF UserDeletedEvent
  <1> HIDE DEF new
  <1>5. account'[s] = new
    BY <1>4 DEF IdentityTypeOK
  <1>6. Authoritative(s)
    BY <1>2, <1>3, <1>5 DEF Authoritative
  <1> QED
    BY <1>3, <1>4, <1>6, OneAccount

\* The upsert a request begins with, for the principal it was authenticated as.
LEMMA EnsureUserStep ==
    ASSUME IdentityTypeOK, NEW q \in Request, EnsureUser(q)
    PROVE  account' \in [Subject -> Accounts] /\ AuthoritativeStep
  <1>1. PICK p \in Principals : p = principal[q]
    BY DEF IdentityTypeOK, EnsureUser
  <1>2. PICK s \in Subject : s = p.subject
    BY DEF Principals
  <1>3. PICK old \in Accounts : old = account[s]
    BY DEF IdentityTypeOK
  <1> DEFINE new == [status |-> IF old = NoAccount THEN "active" ELSE old.status, email |-> p.email,
                     roles |-> IF s \in LocalSubject THEN p.roles ELSE old.roles]
  <1>4. new \in Accounts
    BY DEF Accounts, Principals
  <1>5. /\ old.status = "deleted" => new.status = "deleted"
        /\ s \notin LocalSubject => new.roles = old.roles
    BY DEF NoAccount
  <1>6. account' = [account EXCEPT ![s] = new]
    BY <1>1, <1>2, <1>3 DEF EnsureUser
  <1> HIDE DEF new
  <1>7. account'[s] = new
    BY <1>6 DEF IdentityTypeOK
  <1>8. s \notin LocalSubject => Authoritative(s)
    BY <1>3, <1>5, <1>7 DEF Authoritative
  <1> QED
    BY <1>4, <1>6, <1>8, OneAccount

\* What an administrator gives and takes.
LEMMA GrantRolesStep ==
    ASSUME IdentityTypeOK, NEW s \in Subject, NEW roles \in SUBSET AnyRole, GrantRoles(s, roles)
    PROVE  account' \in [Subject -> Accounts] /\ AuthoritativeStep
  <1>1. PICK old \in Accounts : old = account[s]
    BY DEF IdentityTypeOK
  <1> DEFINE new == [old EXCEPT !.roles = roles]
  <1>2. new \in Accounts /\ new.status = old.status
    BY DEF Accounts
  <1>3. account' = [account EXCEPT ![s] = new]
    BY <1>1 DEF GrantRoles
  <1> HIDE DEF new
  <1>4. account'[s] = new
    BY <1>3 DEF IdentityTypeOK
  <1>5. Authoritative(s)
    BY <1>1, <1>2, <1>4 DEF Authoritative
  <1> QED
    BY <1>2, <1>3, <1>5, OneAccount

LEMMA IdentityStep ==
    ASSUME IdentityTypeOK, IdentityNext
    PROVE  IdentityTypeOK' /\ AuthoritativeStep
  <1> USE DEF IdentityTypeOK
  <1>1. ASSUME NEW s \in Subject, NEW t \in ClerkTypes, ProviderChanges(s, t)
        PROVE  IdentityTypeOK' /\ AuthoritativeStep
    <2>1. PICK n \in Nat : n = provider[s].version
      OBVIOUS
    <2> DEFINE new == [life |-> IF t = "user.deleted" THEN "deleted" ELSE "active", version |-> n + 1]
    <2>2. new \in [life : {"none", "active", "deleted"}, version : Nat]
      BY <2>1
    <2>3. provider' = [provider EXCEPT ![s] = new] /\ UNCHANGED <<account, principal>>
      BY <1>1, <2>1 DEF ProviderChanges
    <2> HIDE DEF new
    <2>4. sent' \subseteq [subject : Subject, type : ClerkTypes, version : Nat]
      BY <1>1, <2>1 DEF ProviderChanges, ProviderEvent
    <2> QED
      BY <2>2, <2>3, <2>4, AccountsUntouched
  <1>2. ASSUME NEW s \in Subject, NEW v \in 1..MaxVersion, Reconcile(s, v)
        PROVE  IdentityTypeOK' /\ AuthoritativeStep
    <2>1. v \in Nat /\ account' = Provisioned(s, v) /\ UNCHANGED <<provider, sent, principal>>
      BY <1>2 DEF Reconcile
    <2> QED
      BY <2>1, ProvisionedStep
  <1>3. ASSUME NEW s \in Subject, NEW roles \in SUBSET AnyRole, GrantRoles(s, roles)
        PROVE  IdentityTypeOK' /\ AuthoritativeStep
    BY <1>3, GrantRolesStep DEF GrantRoles
  <1>4. ASSUME NEW s \in Subject, NEW q \in Request,
               Authenticate(q, s) \/ \E r \in SUBSET AnyRole : AuthenticateLocal(q, s, r)
        PROVE  IdentityTypeOK' /\ AuthoritativeStep
    <2>1. account[s].email \in Nat /\ account[s].roles \in SUBSET AnyRole
      BY DEF Accounts
    <2>2. UNCHANGED <<provider, sent, account>>
      BY <1>4 DEF Authenticate, AuthenticateLocal
    <2>3. PICK p \in Principals : principal' = [principal EXCEPT ![q] = p]
      BY <1>4, <2>1 DEF Authenticate, AuthenticateLocal, Principals
    <2> QED
      BY <2>2, <2>3, AccountsUntouched
  <1>5. ASSUME NEW e \in sent, UserEvent(e)
        PROVE  IdentityTypeOK' /\ AuthoritativeStep
    <2>1. /\ e.subject \in Subject /\ e.version \in Nat /\ account' = Provisioned(e.subject, e.version)
          /\ UNCHANGED <<provider, sent, principal>>
      BY <1>5 DEF UserEvent
    <2> QED
      BY <2>1, ProvisionedStep
  <1>6. ASSUME NEW e \in sent, UserDeletedEvent(e)
        PROVE  IdentityTypeOK' /\ AuthoritativeStep
    BY <1>6, UserDeletedStep DEF UserDeletedEvent
  <1>7. ASSUME NEW e \in sent, OtherEvent(e)
        PROVE  IdentityTypeOK' /\ AuthoritativeStep
    BY <1>7, AccountsUntouched DEF OtherEvent
  <1>8. ASSUME NEW q \in Request, EnsureUser(q)
        PROVE  IdentityTypeOK' /\ AuthoritativeStep
    <2>1. principal' \in [Request -> Principals \cup {NoPrincipal}] /\ UNCHANGED <<provider, sent>>
      BY <1>8 DEF EnsureUser
    <2> QED
      BY <1>8, <2>1, EnsureUserStep
  <1> QED
    BY <1>1, <1>2, <1>3, <1>4, <1>5, <1>6, <1>7, <1>8 DEF IdentityNext

\* Late, repeated and reordered webhooks, reconciliations and requests never
\* bring a deleted account back nor change roles an administrator gave
\* (process_clerk_event, reconcile_clerk_identity, ensure_user).
THEOREM DatabaseDecides == IdentitySpec => DatabaseIsAuthoritative
  <1>1. IdentityInit => IdentityTypeOK
    BY DEF IdentityInit, IdentityTypeOK, NoAccount, Accounts
  <1>2. IdentityTypeOK /\ [IdentityNext]_identityVars => IdentityTypeOK' /\ [AuthoritativeStep]_identityVars
    <2> SUFFICES ASSUME IdentityTypeOK, [IdentityNext]_identityVars
                 PROVE  IdentityTypeOK' /\ [AuthoritativeStep]_identityVars
      OBVIOUS
    <2>1. CASE IdentityNext
      BY <2>1, IdentityStep
    <2>2. CASE UNCHANGED identityVars
      BY <2>2 DEF identityVars, IdentityTypeOK
    <2> QED
      BY <2>1, <2>2
  <1>3. [AuthoritativeStep]_identityVars =>
          [\A s \in Subject \ LocalSubject :
              /\ account[s].status = "deleted" => account'[s].status = "deleted"
              /\ account'[s].roles # account[s].roles =>
                    (account[s].roles = {} /\ account'[s].roles = {"candidate"})
                    \/ \E roles \in SUBSET AnyRole : GrantRoles(s, roles)]_identityVars
    BY DEF AuthoritativeStep, Authoritative
  <1> QED
    BY <1>1, <1>2, <1>3, PTL DEF IdentitySpec, DatabaseIsAuthoritative

-----------------------------------------------------------------------------
(* Mock interviews.                                                        *)

\* The phases of the templates, the answers that may be stored and the
\* sessions of a candidate.
Phase == UNION {{Template[f][n] : n \in DOMAIN Template[f]} : f \in DOMAIN Template}
Score == {RubricScore[answer] : answer \in AnswerKey \X Phase}
Given == [key : AnswerKey, phase : Phase, score : Score]
Interviews == [focus : DOMAIN Template, status : {"IN_PROGRESS", "PAUSED", "CANCELLED", "COMPLETED"},
               phase : Phase \cup {"COMPLETE"}, key : CreateKey]

\* ReportCoversInterview, of one session.
Covered(s) ==
    LET given == answers[s] IN
    /\ \A m, n \in DOMAIN given : given[m].key = given[n].key => m = n
    /\ interview[s] # NoInterview =>
          LET phases == Template[interview[s].focus]
              complete == Len(given) = Len(phases)
          IN  /\ Len(given) <= Len(phases)
              /\ \A n \in DOMAIN given : given[n].phase = phases[n]
              /\ (interview[s].status = "COMPLETED") = complete
              /\ (s \in evidenced) = complete
              /\ complete => report[s].rubric = given
              /\ ~complete => report[s] = NoReport /\ interview[s].phase = phases[Len(given) + 1]

\* A session nobody created has no answers, evidence or report.
SessionOK(s) ==
    /\ interview[s] \in Interviews \cup {NoInterview}
    /\ answers[s] \in Seq(Given)
    /\ interview[s] = NoInterview => answers[s] = <<>> /\ s \notin evidenced /\ report[s] = NoReport
    /\ Covered(s)

InterviewInv ==
    /\ DOMAIN interview = Session /\ DOMAIN answers = Session /\ DOMAIN report = Session
    /\ \A s \in Session : SessionOK(s)

\* A step of one session leaves the others as they are.
Elsewhere(s) ==
    /\ DOMAIN interview' = Session /\ DOMAIN answers' = Session /\ DOMAIN report' = Session
    /\ \A t \in Session \ {s} : /\ interview'[t] = interview[t]
                               /\ answers'[t] = answers[t]
                               /\ report'[t] = report[t]
                               /\ (t \in evidenced') = (t \in evidenced)

LEMMA OneSession ==
    ASSUME InterviewInv, NEW s \in Session, Elsewhere(s), SessionOK(s)'
    PROVE  InterviewInv'
  <1>1. ASSUME NEW t \in Session \ {s}
        PROVE  SessionOK(t)'
    <2>1. SessionOK(t)
      BY DEF InterviewInv
    <2> QED
      BY <2>1 DEF Elsewhere, SessionOK, Covered
  <1> QED
    BY <1>1 DEF InterviewInv, Elsewhere

\* What the templates are: not empty, their phases different.
LEMMA Phases ==
    ASSUME NEW f \in DOMAIN Template
    PROVE  /\ Len(Template[f]) \in Nat \ {0}
           /\ DOMAIN Template[f] = 1..Len(Template[f])
           /\ \A n \in 1..Len(Template[f]) :
                /\ Template[f][n] \in Phase
                /\ (CHOOSE m \in DOMAIN Template[f] : Template[f][m] = Template[f][n]) = n
  <1>1. ASSUME NEW n \in DOMAIN Template[f]
        PROVE  /\ Template[f][n] \in Phase
               /\ (CHOOSE m \in DOMAIN Template[f] : Template[f][m] = Template[f][n]) = n
    <2>1. Template[f][n] \in {Template[f][m] : m \in DOMAIN Template[f]}
      OBVIOUS
    <2>2. Template[f][n] \in Phase
      BY <2>1, Zenon DEF Phase
    <2>3. \A m, k \in DOMAIN Template[f] : Template[f][m] = Template[f][k] => m = k
      BY InterviewAssumption
    <2> QED
      BY <2>2, <2>3
  <1> QED
    BY <1>1, InterviewAssumption

LEMMA CreateInterviewStep ==
    ASSUME InterviewInv, NEW s \in Session, NEW key \in CreateKey, NEW f \in DOMAIN Template,
           CreateInterview(key, f, s)
    PROVE  InterviewInv'
  <1> DEFINE new == [focus |-> f, status |-> "IN_PROGRESS", phase |-> Template[f][1], key |-> key]
  <1>1. new \in Interviews /\ new # NoInterview
    <2>1. Template[f][1] \in Phase
      BY Phases
    <2> QED
      BY <2>1 DEF Interviews, NoInterview
  <1>2. new.focus = f /\ new.phase = Template[f][1] /\ new.status # "COMPLETED"
    OBVIOUS
  <1>3. interview' = [interview EXCEPT ![s] = new] /\ UNCHANGED <<answers, report, evidenced>>
    BY DEF CreateInterview
  <1> HIDE DEF new
  <1>4. answers[s] = <<>> /\ s \notin evidenced /\ report[s] = NoReport
    BY DEF CreateInterview, InterviewInv, SessionOK
  <1>5. interview'[s] = new /\ Elsewhere(s)
    BY <1>3 DEF InterviewInv, Elsewhere
  <1>6. SessionOK(s)'
    <2>1. Len(answers[s]) = 0 /\ DOMAIN answers[s] = {} /\ answers[s] \in Seq(Given)
      BY <1>4
    <2> QED
      BY <1>1, <1>2, <1>3, <1>4, <1>5, <2>1, Phases DEF SessionOK, Covered
  <1> QED
    BY <1>5, <1>6, OneSession

\* Only sessions in progress or paused change state, and none becomes completed.
LEMMA UpdateInterviewStep ==
    ASSUME InterviewInv, NEW s \in Session, NEW a, UpdateInterview(s, a)
    PROVE  InterviewInv'
  <1>1. PICK old \in Interviews \cup {NoInterview} : old = interview[s]
    BY DEF InterviewInv, SessionOK
  <1>2. PICK status \in {"IN_PROGRESS", "PAUSED", "CANCELLED"} :
           status = InterviewTransition(old.status, a) /\ old.status \in {"IN_PROGRESS", "PAUSED"}
    <2>1. InterviewTransition(old.status, a) # "invalid"
      BY <1>1 DEF UpdateInterview
    <2>2. /\ InterviewTransition(old.status, a) \in {"IN_PROGRESS", "PAUSED", "CANCELLED"}
          /\ old.status \in {"IN_PROGRESS", "PAUSED"}
      BY <2>1 DEF InterviewTransition
    <2> QED
      BY <2>2
  <1> DEFINE new == [old EXCEPT !.status = status]
  <1>3. /\ old # NoInterview /\ old \in Interviews
        /\ new \in Interviews /\ new # NoInterview
        /\ new.focus = old.focus /\ new.phase = old.phase
        /\ new.status # "COMPLETED" /\ old.status # "COMPLETED"
    BY <1>2 DEF Interviews, NoInterview
  <1>4. interview' = [interview EXCEPT ![s] = new] /\ UNCHANGED <<answers, report, evidenced>>
    BY <1>1, <1>2 DEF UpdateInterview
  <1> HIDE DEF new
  <1>5. interview'[s] = new /\ Elsewhere(s)
    BY <1>4 DEF InterviewInv, Elsewhere
  <1>6. SessionOK(s)
    BY DEF InterviewInv
  <1>7. SessionOK(s)'
    BY <1>1, <1>3, <1>4, <1>5, <1>6 DEF SessionOK, Covered
  <1> QED
    BY <1>5, <1>7, OneSession

\* The report is of the evidence it was built from.
LEMMA ReportRubric == ASSUME NEW given PROVE BuildReport(given).rubric = given
  BY DEF BuildReport

\* An answer is to the first phase without one; the last completes the session.
LEMMA AnswerInterviewStep ==
    ASSUME InterviewInv, NEW s \in Session, NEW key \in AnswerKey, AnswerInterview(s, key)
    PROVE  InterviewInv'
  <1>1. SessionOK(s) /\ interview[s].status = "IN_PROGRESS" /\ ~Answered(s, key)
    BY DEF InterviewInv, AnswerInterview
  <1>2. PICK old \in Interviews : old = interview[s]
    BY <1>1 DEF SessionOK, NoInterview
  <1>3. PICK f \in DOMAIN Template : f = old.focus
    BY DEF Interviews
  <1>4. PICK before \in Seq(Given) : before = answers[s]
    BY <1>1 DEF SessionOK
  <1> DEFINE k == Len(before) + 1
             last == Len(Template[f])
             this == [key |-> key, phase |-> old.phase, score |-> RubricScore[key, old.phase]]
             given == Append(before, this)
  <1>5. /\ k \in 1..last /\ last \in Nat /\ old.phase = Template[f][k]
        /\ \A n \in DOMAIN before : before[n].phase = Template[f][n]
        /\ \A m, n \in DOMAIN before : before[m].key = before[n].key => m = n
        /\ s \notin evidenced /\ report[s] = NoReport
    <2>1. interview[s] # NoInterview /\ old.status # "COMPLETED" /\ last \in Nat /\ Len(before) \in Nat
      BY <1>1, <1>2, Phases DEF NoInterview
    <2> QED
      BY <1>1, <1>2, <1>3, <1>4, <2>1 DEF SessionOK, Covered
  <1>6. old.phase \in Phase /\ PhaseIndex(s) = k
    BY <1>2, <1>3, <1>5, Phases DEF PhaseIndex
  <1>7. this \in Given
    <2>1. <<key, old.phase>> \in AnswerKey \X Phase
      BY <1>6
    <2>2. RubricScore[key, old.phase] \in Score
      BY <2>1, Zenon DEF Score
    <2> QED
      BY <1>6, <2>2 DEF Given
  <1>8. this.phase = Template[f][k] /\ \A n \in DOMAIN before : before[n].key # this.key
    BY <1>1, <1>4, <1>5 DEF Answered
  <1>9. answers' = [answers EXCEPT ![s] = given]
    BY <1>2, <1>4 DEF AnswerInterview, EvaluateResponse
  <1> HIDE DEF this
  <1>10. /\ given \in Seq(Given) /\ Len(given) = k /\ DOMAIN given = 1..k /\ given # <<>>
         /\ \A n \in DOMAIN given : given[n].phase = Template[f][n]
         /\ \A m, n \in DOMAIN given : given[m].key = given[n].key => m = n
    <2>1. /\ given \in Seq(Given) /\ Len(given) = k /\ DOMAIN given = 1..k /\ given # <<>>
          /\ given[k] = this /\ DOMAIN before = 1..(k - 1) /\ k \in Nat
          /\ \A n \in 1..(k - 1) : given[n] = before[n]
      BY <1>7
    <2> QED
      BY <1>5, <1>8, <2>1
  <1> HIDE DEF given
  <1>11. answers'[s] = given
    BY <1>9 DEF InterviewInv
  <1>12. CASE k + 1 <= last
    <2> DEFINE new == [old EXCEPT !.phase = Template[f][k + 1]]
    <2>1. /\ new \in Interviews /\ new # NoInterview
          /\ new.focus = f /\ new.phase = Template[f][k + 1] /\ new.status # "COMPLETED"
      <3>1. Template[f][k + 1] \in Phase
        BY <1>5, <1>12, Phases
      <3> QED
        BY <1>1, <1>2, <1>3, <3>1 DEF Interviews, NoInterview
    <2>2. interview' = [interview EXCEPT ![s] = new] /\ UNCHANGED <<report, evidenced>>
      BY <1>2, <1>3, <1>6, <1>12 DEF AnswerInterview
    <2> HIDE DEF new
    <2>3. interview'[s] = new /\ Elsewhere(s)
      BY <1>9, <2>2 DEF InterviewInv, Elsewhere
    <2>4. SessionOK(s)'
      BY <1>5, <1>10, <1>11, <1>12, <2>1, <2>2, <2>3 DEF SessionOK, Covered
    <2> QED
      BY <2>3, <2>4, OneSession
  <1>13. CASE ~(k + 1 <= last)
    <2> DEFINE new == [old EXCEPT !.phase = "COMPLETE", !.status = "COMPLETED"]
    <2>1. /\ new \in Interviews /\ new # NoInterview
          /\ new.focus = f /\ new.status = "COMPLETED"
      BY <1>3 DEF Interviews, NoInterview
    <2>2. CompleteSession(s, given)
      BY <1>2, <1>3, <1>4, <1>6, <1>13 DEF AnswerInterview, EvaluateResponse, given, this
    <2>3. /\ interview' = [interview EXCEPT ![s] = new]
          /\ report' = [report EXCEPT ![s] = BuildReport(given)]
          /\ evidenced' = evidenced \cup {s}
      BY <1>2, <1>5, <2>2 DEF CompleteSession
    <2> HIDE DEF new
    <2>4. /\ interview'[s] = new /\ Elsewhere(s) /\ s \in evidenced'
          /\ report'[s].rubric = given
      BY <1>9, <2>3, ReportRubric DEF InterviewInv, Elsewhere
    <2>5. SessionOK(s)'
      BY <1>5, <1>10, <1>11, <1>13, <2>1, <2>4 DEF SessionOK, Covered
    <2> QED
      BY <2>4, <2>5, OneSession
  <1> QED
    BY <1>12, <1>13

\* However requests are repeated, delayed and interleaved with pauses and
\* cancellations, a session stores one answer for each phase in turn, and is
\* completed with a report of just those answers when all have theirs
\* (answer_mock_interview, _complete_session).
THEOREM ReportsCover == InterviewSpec => []ReportCoversInterview
  <1>1. InterviewInit => InterviewInv
    BY DEF InterviewInit, InterviewInv, SessionOK, Covered
  <1>2. InterviewInv /\ [InterviewNext]_interviewVars => InterviewInv'
    <2> SUFFICES ASSUME InterviewInv, [InterviewNext]_interviewVars
                 PROVE  InterviewInv'
      OBVIOUS
    <2>1. ASSUME NEW s \in Session, NEW key \in CreateKey, NEW f \in DOMAIN Template,
                 CreateInterview(key, f, s)
          PROVE  InterviewInv'
      BY <2>1, CreateInterviewStep
    <2>2. ASSUME NEW s \in Session, NEW a \in {"pause", "resume", "cancel"}, UpdateInterview(s, a)
          PROVE  InterviewInv'
      BY <2>2, UpdateInterviewStep
    <2>3. ASSUME NEW s \in Session, NEW key \in AnswerKey, AnswerInterview(s, key)
          PROVE  InterviewInv'
      BY <2>3, AnswerInterviewStep
    <2>4. CASE UNCHANGED interviewVars
      BY <2>4 DEF interviewVars, InterviewInv, SessionOK, Covered
    <2> QED
      BY <2>1, <2>2, <2>3, <2>4 DEF InterviewNext
  <1>3. InterviewInv => ReportCoversInterview
    BY DEF InterviewInv, SessionOK, Covered, ReportCoversInterview
  <1> QED
    BY <1>1, <1>2, <1>3, PTL DEF InterviewSpec

-----------------------------------------------------------------------------
(* The arithmetic of the rating.                                           *)

\* Rounding keeps the order, and a natural number stays one.
LEMMA RoundingKeepsOrder ==
    ASSUME NEW m \in Nat, NEW n \in Nat, m <= n
    PROVE  /\ RoundHalfEven(m, 50) \in Nat /\ RoundHalfEven(n, 50) \in Nat
           /\ RoundHalfEven(m, 50) <= RoundHalfEven(n, 50)
  <1>1. ASSUME NEW k \in Nat
        PROVE  k \div 50 \in Nat /\ k % 50 \in 0..49 /\ k % 50 = k - 50 * (k \div 50)
    <2>1. k \div 50 \in Nat
      OBVIOUS
    <2>2. k % 50 \in 0..49
      OBVIOUS
    <2>3. k % 50 = k - 50 * (k \div 50)
      OBVIOUS
    <2> QED
      BY <2>1, <2>2, <2>3
  <1> QED
    BY <1>1 DEF RoundHalfEven

LEMMA RoundingIsNatural ==
    ASSUME NEW n \in Nat, NEW d \in Nat, d # 0
    PROVE  RoundHalfEven(n, d) \in Nat
  <1>1. n \div d \in Nat
    OBVIOUS
  <1> QED
    BY <1>1 DEF RoundHalfEven

\* A better score contributes no less, and a score below 50 nothing.
LEMMA BetterContributesMore ==
    ASSUME NEW d \in {"easy", "medium", "hard"}, NEW s \in Nat \cup {-1}, NEW t \in Nat \cup {-1}, s <= t
    PROVE  /\ RatingContribution(d, s) \in Nat /\ RatingContribution(d, t) \in Nat
           /\ RatingContribution(d, s) <= RatingContribution(d, t)
           /\ RatingContribution(d, -1) = 0
  <1> DEFINE maximum == [easy |-> 18, medium |-> 28, hard |-> 42]
             m == maximum[d]
  <1>1. m \in {18, 28, 42}
    OBVIOUS
  <1>2. ASSUME NEW u \in Nat \cup {-1}, ~(u < 50)
        PROVE  (u - 50) * m \in Nat /\ RatingContribution(d, u) = RoundHalfEven((u - 50) * m, 50)
    BY <1>1, <1>2 DEF RatingContribution
  <1>3. ASSUME NEW u \in Nat \cup {-1}, u < 50 PROVE RatingContribution(d, u) = 0
    BY <1>3 DEF RatingContribution
  <1> HIDE DEF m
  <1>4. CASE s < 50 /\ t < 50
    BY <1>3, <1>4
  <1>5. CASE s < 50 /\ ~(t < 50)
    <2>1. (t - 50) * m \in Nat
      BY <1>2, <1>5
    <2>2. RoundHalfEven((t - 50) * m, 50) \in Nat
      BY <2>1, RoundingIsNatural
    <2> QED
      BY <1>2, <1>3, <1>5, <2>2
  <1>6. CASE ~(s < 50) /\ ~(t < 50)
    <2>1. (s - 50) * m <= (t - 50) * m
      BY <1>1, <1>6
    <2>2. /\ RoundHalfEven((s - 50) * m, 50) \in Nat /\ RoundHalfEven((t - 50) * m, 50) \in Nat
          /\ RoundHalfEven((s - 50) * m, 50) <= RoundHalfEven((t - 50) * m, 50)
      BY <1>2, <1>6, <2>1, RoundingKeepsOrder
    <2> QED
      BY <1>2, <1>3, <1>6, <2>2
  <1> QED
    BY <1>4, <1>5, <1>6

\* A score is a natural number.
LEMMA ScoreIsNatural ==
    ASSUME NEW g \in Grade, NEW length \in ArenaPrompt
    PROVE  ArenaScore(g, length) \in Nat
  <1>1. g.tests \in Nat /\ 70 * g.passed \in Nat /\ 10 * g.quality \in Nat
    BY ArenaAssumption
  <1>2. RoundHalfEven(10 * g.quality, 100) \in Nat
    BY <1>1, RoundingIsNatural
  <1>3. g.tests # 0 => RoundHalfEven(70 * g.passed, g.tests) \in Nat
    BY <1>1, RoundingIsNatural
  <1>4. PerformanceScore(g.ms) \in Nat
    BY ArenaAssumption DEF PerformanceScore
  <1>5. PromptEfficiency(length) \in Nat
    BY ArenaAssumption DEF PromptEfficiency
  <1> QED
    BY <1>2, <1>3, <1>4, <1>5 DEF ArenaScore

\* What a best score is worth.
Worth(d, best) == RatingContribution(d, best) + (IF best >= 70 THEN 5 ELSE 0)

\* A finalization is paid the difference between what the best score is worth
\* after it and before it.
LEMMA PaidTheDifference ==
    ASSUME NEW d \in {"easy", "medium", "hard"}, NEW total \in Nat, NEW best \in Nat \cup {-1}
    PROVE  /\ Worth(d, best) \in Nat /\ Worth(d, -1) = 0
           /\ RatingDelta(d, total, best)
                = Worth(d, IF total > best THEN total ELSE best) - Worth(d, best)
  <1> DEFINE c == RatingContribution(d, total)
             b == RatingContribution(d, best)
  <1>1. /\ c \in Nat /\ b \in Nat /\ RatingContribution(d, -1) = 0
        /\ total <= best => c <= b
        /\ best <= total => b <= c
    BY BetterContributesMore
  <1>2. Max({0, c - b}) = IF c >= b THEN c - b ELSE 0
    <2> HIDE DEF c, b
    <2>1. ASSUME NEW x \in Int PROVE Max({0, x}) = IF x >= 0 THEN x ELSE 0
      <3>1. \E y \in {0, x} : \A z \in {0, x} : y >= z
        OBVIOUS
      <3> DEFINE y == Max({0, x})
      <3>2. y \in {0, x} /\ \A z \in {0, x} : y >= z
        BY <3>1 DEF Max
      <3> HIDE DEF y
      <3> QED
        BY <3>2 DEF y
    <2> QED
      BY <1>1, <2>1
  <1>3. RatingDelta(d, total, best) = (IF c >= b THEN c - b ELSE 0)
                                        + (IF total >= 70 /\ best < 70 THEN 5 ELSE 0)
    BY <1>2 DEF RatingDelta, FirstSolve
  <1> HIDE DEF c, b
  <1>4. CASE total > best
    <2>1. Worth(d, total) = c + (IF total >= 70 THEN 5 ELSE 0)
      BY DEF Worth, c
    <2>2. Worth(d, best) = b + (IF best >= 70 THEN 5 ELSE 0)
      BY DEF Worth, b
    <2> QED
      BY <1>1, <1>3, <1>4, <2>1, <2>2 DEF Worth
  <1>5. CASE ~(total > best)
    <2>1. Worth(d, best) = b + (IF best >= 70 THEN 5 ELSE 0)
      BY DEF Worth, b
    <2> QED
      BY <1>1, <1>3, <1>5, <2>1 DEF Worth
  <1> QED
    BY <1>4, <1>5

-----------------------------------------------------------------------------
(* The inductive invariant of the arena.                                   *)

Generations == [version : ArenaVersion, prompt : ArenaPrompt, code : ArenaCode]
Graded == [version : ArenaVersion, code : ArenaCode, grade : Grade]
ScoresOf(v) == {-1} \cup {r.total : r \in {q \in arenaResult : q.version = v}}

\* A result judged a generation and a submission that match, and a version
\* always has a best score.
ResultOK(r) ==
    /\ r.key \in ArenaKey /\ r.sub \in ArenaSubmission /\ r.total \in Nat
    /\ MatchingPair(r.key, r.sub)
    /\ r.version = generation[r.key].version

HasBest(v) == \E b \in ScoresOf(v) : \A s \in ScoresOf(v) : b >= s

\* An open finalization is the only one of the candidate, its pair has no
\* result yet, and its gain is measured against the best score there is now.
FinalizationOK(c) ==
    /\ c.key \in ArenaKey /\ c.sub \in ArenaSubmission /\ c.total \in Nat
    /\ MatchingPair(c.key, c.sub) /\ ~StoredResult(c.key, c.sub)
    /\ c.version = generation[c.key].version
    /\ c.delta = RatingDelta(Difficulty[c.version], c.total, BestScore(c.version))

CallOK(t) ==
    /\ call[t].op = "generate" => /\ call[t].key \in ArenaKey /\ call[t].prompt \in ArenaPrompt
                                  /\ call[t].version \in ArenaVersion
    /\ call[t].op = "finalize" => FinalizationOK(call[t])

OneFinalization == \A t, u \in ArenaThread :
    call[t].op = "finalize" /\ call[u].op = "finalize" => t = u

ArenaTypeOK ==
    /\ challenge \in ArenaVersion
    /\ DOMAIN generation = ArenaKey /\ DOMAIN graded = ArenaSubmission /\ DOMAIN call = ArenaThread
    /\ \A k \in ArenaKey : generation[k] = NoArena \/ generation[k] \in Generations
    /\ \A s \in ArenaSubmission : graded[s] = NoArena \/ graded[s] \in Graded

ArenaInv ==
    /\ ArenaTypeOK
    /\ \A r \in arenaResult : ResultOK(r)
    /\ \A v \in ArenaVersion : HasBest(v)
    /\ \A t \in ArenaThread : CallOK(t)
    /\ OneFinalization
    /\ RatingIsEarned

\* The best score is a score, and none is better.
LEMMA BestIsBest ==
    ASSUME NEW v, HasBest(v), \A r \in arenaResult : r.total \in Nat
    PROVE  /\ BestScore(v) \in ScoresOf(v) /\ BestScore(v) \in Nat \cup {-1}
           /\ \A s \in ScoresOf(v) : s \in Nat \cup {-1} /\ BestScore(v) >= s
  <1>1. BestScore(v) = Max(ScoresOf(v))
    BY DEF BestScore, ScoresOf
  <1>2. \A s \in ScoresOf(v) : s \in Nat \cup {-1}
    BY DEF ScoresOf
  <1>3. Max(ScoresOf(v)) \in ScoresOf(v) /\ \A s \in ScoresOf(v) : Max(ScoresOf(v)) >= s
    BY DEF HasBest, Max
  <1> QED
    BY <1>1, <1>2, <1>3

\* What a version with best score e earned is what that score is worth.
LEMMA EarnedIsWorth ==
    ASSUME NEW v \in ArenaVersion, NEW e \in Nat \cup {-1}
    PROVE  /\ (IF e < 0 THEN 0 ELSE RatingDelta(Difficulty[v], e, -1)) = Worth(Difficulty[v], e)
           /\ Worth(Difficulty[v], e) \in Nat
  <1> DEFINE d == Difficulty[v]
  <1>1. d \in {"easy", "medium", "hard"}
    BY ArenaAssumption
  <1> HIDE DEF d
  <1>2. Worth(d, e) \in Nat /\ Worth(d, -1) = 0
    BY <1>1, PaidTheDifference
  <1>3. e \in Nat => RatingDelta(d, e, -1) = Worth(d, IF e > -1 THEN e ELSE -1) - Worth(d, -1)
    BY <1>1, PaidTheDifference
  <1>4. (IF e < 0 THEN 0 ELSE RatingDelta(d, e, -1)) = Worth(d, e)
    BY <1>2, <1>3
  <1> QED
    BY <1>2, <1>4 DEF d

\* Generations and grades, once there, stay; without a new result the results
\* and the rating keep what holds of them.
LEMMA ResultsStand ==
    ASSUME ArenaInv, arenaResult' = arenaResult, profile' = profile,
           \A k \in ArenaKey : generation[k] # NoArena => generation'[k] = generation[k],
           \A s \in ArenaSubmission : graded[s] # NoArena => graded'[s] = graded[s]
    PROVE  /\ \A r \in arenaResult' : ResultOK(r)'
           /\ \A v \in ArenaVersion : HasBest(v)'
           /\ RatingIsEarned'
           /\ \A c : FinalizationOK(c) => FinalizationOK(c)'
  <1>1. \A k \in ArenaKey, s \in ArenaSubmission : MatchingPair(k, s) =>
            MatchingPair(k, s)' /\ generation'[k] = generation[k] /\ graded'[s] = graded[s]
    BY DEF MatchingPair
  <1>2. \A r \in arenaResult : ResultOK(r) /\ ResultOK(r)'
    BY <1>1 DEF ArenaInv, ResultOK
  <1>3. \A v : BestScore(v)' = BestScore(v) /\ ScoresOf(v)' = ScoresOf(v)
    BY DEF BestScore, ScoresOf
  <1>4. \A v \in ArenaVersion : HasBest(v)'
    BY <1>3 DEF ArenaInv, HasBest
  <1>5. RatingIsEarned'
    <2>1. \A v : Earned(v)' = Earned(v)
      BY <1>3 DEF Earned
    <2>2. \A r \in arenaResult : generation'[r.key] = generation[r.key] /\ graded'[r.sub] = graded[r.sub]
      BY <1>1, <1>2 DEF ResultOK
    <2> QED
      BY <2>1, <2>2 DEF ArenaInv, RatingIsEarned
  <1>6. ASSUME NEW c, FinalizationOK(c) PROVE FinalizationOK(c)'
    <2>1. StoredResult(c.key, c.sub)' = StoredResult(c.key, c.sub)
      BY DEF StoredResult
    <2> QED
      BY <1>1, <1>3, <1>6, <2>1 DEF FinalizationOK
  <1> QED
    BY <1>2, <1>4, <1>5, <1>6

\* Steps that store no result: the hour, a republication, a submission, a
\* generation's two transactions, and a request that ends early.
LEMMA CallsStand ==
    ASSUME ArenaInv, arenaResult' = arenaResult, profile' = profile, ArenaTypeOK',
           \A k \in ArenaKey : generation[k] # NoArena => generation'[k] = generation[k],
           \A s \in ArenaSubmission : graded[s] # NoArena => graded'[s] = graded[s],
           \A t \in ArenaThread :
               \/ call'[t] = call[t] \/ call'[t] = NoCall
               \/ /\ call'[t].op = "generate" /\ call'[t].key \in ArenaKey
                  /\ call'[t].prompt \in ArenaPrompt /\ call'[t].version \in ArenaVersion
    PROVE  ArenaInv'
  <1>1. /\ \A r \in arenaResult' : ResultOK(r)'
        /\ \A v \in ArenaVersion : HasBest(v)'
        /\ RatingIsEarned'
        /\ \A c : FinalizationOK(c) => FinalizationOK(c)'
    BY ResultsStand
  <1>2. \A t \in ArenaThread : call'[t].op = "finalize" => call'[t] = call[t]
    BY DEF NoCall
  <1>3. ASSUME NEW t \in ArenaThread PROVE CallOK(t)'
    <2>1. CallOK(t)
      BY DEF ArenaInv
    <2>2. CASE call'[t] = call[t]
      BY <1>1, <2>1, <2>2 DEF CallOK
    <2>3. CASE call'[t] = NoCall
      BY <2>3 DEF CallOK, NoCall
    <2>4. CASE /\ call'[t].op = "generate" /\ call'[t].key \in ArenaKey
               /\ call'[t].prompt \in ArenaPrompt /\ call'[t].version \in ArenaVersion
      BY <2>4 DEF CallOK
    <2> QED
      BY <2>2, <2>3, <2>4
  <1>4. OneFinalization'
    BY <1>2 DEF ArenaInv, OneFinalization
  <1> QED
    BY <1>1, <1>3, <1>4 DEF ArenaInv

LEMMA HourOrRepublicationStep ==
    ASSUME ArenaInv, HourPasses \/ \E v \in ArenaVersion : Republish(v)
    PROVE  ArenaInv'
  <1>1. /\ challenge' \in ArenaVersion
        /\ UNCHANGED <<generation, graded, arenaResult, profile, call>>
    BY DEF HourPasses, Republish, ArenaInv, ArenaTypeOK
  <1>2. ArenaTypeOK'
    BY <1>1 DEF ArenaInv, ArenaTypeOK
  <1> QED
    BY <1>1, <1>2, CallsStand

LEMMA SubmitGeneratedStep ==
    ASSUME ArenaInv, NEW s \in ArenaSubmission, NEW v \in ArenaVersion, NEW code \in ArenaCode,
           NEW g \in Grade, SubmitGenerated(s, v, code, g)
    PROVE  ArenaInv'
  <1>1. /\ graded[s] = NoArena
        /\ graded' = [graded EXCEPT ![s] = [version |-> v, code |-> code, grade |-> g]]
        /\ UNCHANGED <<challenge, generation, arenaResult, profile, call>>
    BY DEF SubmitGenerated
  <1>2. ArenaTypeOK'
    BY <1>1 DEF ArenaInv, ArenaTypeOK, Graded
  <1>3. \A p \in ArenaSubmission : graded[p] # NoArena => graded'[p] = graded[p]
    BY <1>1 DEF ArenaInv, ArenaTypeOK
  <1> QED
    BY <1>1, <1>2, <1>3, CallsStand

LEMMA GenerateStartStep ==
    ASSUME ArenaInv, NEW t \in ArenaThread, NEW k \in ArenaKey, NEW p \in ArenaPrompt,
           GenerateStart(t, k, p)
    PROVE  ArenaInv'
  <1>1. /\ call' = [call EXCEPT ![t] = [op |-> "generate", key |-> k, prompt |-> p,
                                        version |-> challenge]]
        /\ UNCHANGED <<challenge, generation, graded, arenaResult, profile>>
    BY DEF GenerateStart
  <1>2. ArenaTypeOK' /\ challenge \in ArenaVersion /\ DOMAIN call = ArenaThread
    BY <1>1 DEF ArenaInv, ArenaTypeOK
  <1>3. \A u \in ArenaThread :
           \/ call'[u] = call[u] \/ call'[u] = NoCall
           \/ /\ call'[u].op = "generate" /\ call'[u].key \in ArenaKey
              /\ call'[u].prompt \in ArenaPrompt /\ call'[u].version \in ArenaVersion
    BY <1>1, <1>2
  <1> QED
    BY <1>1, <1>2, <1>3, CallsStand

LEMMA GenerateStoreStep ==
    ASSUME ArenaInv, NEW t \in ArenaThread, NEW code \in ArenaCode, GenerateStore(t, code)
    PROVE  ArenaInv'
  <1> DEFINE c == call[t]
             new == [version |-> c.version, prompt |-> c.prompt, code |-> code]
  <1>1. /\ c.op = "generate"
        /\ generation' = IF generation[c.key] = NoArena /\ challenge = c.version
                         THEN [generation EXCEPT ![c.key] = new] ELSE generation
        /\ call' = [call EXCEPT ![t] = NoCall]
        /\ UNCHANGED <<challenge, graded, arenaResult, profile>>
    BY DEF GenerateStore
  <1>2. DOMAIN call = ArenaThread /\ DOMAIN generation = ArenaKey
    BY DEF ArenaInv, ArenaTypeOK
  <1>3. new \in Generations /\ c.key \in ArenaKey
    BY <1>1 DEF ArenaInv, CallOK, Generations
  <1> HIDE DEF c, new
  <1>4. ArenaTypeOK'
    BY <1>1, <1>3 DEF ArenaInv, ArenaTypeOK
  <1>5. \A k \in ArenaKey : generation[k] # NoArena => generation'[k] = generation[k]
    BY <1>1, <1>2
  <1>6. \A u \in ArenaThread : call'[u] = call[u] \/ call'[u] = NoCall
    BY <1>1, <1>2
  <1> QED
    BY <1>1, <1>4, <1>5, <1>6, CallsStand

LEMMA ArenaCallDiesStep ==
    ASSUME ArenaInv, NEW t \in ArenaThread, ArenaCallDies(t)
    PROVE  ArenaInv'
  <1>1. /\ call' = [call EXCEPT ![t] = NoCall]
        /\ UNCHANGED <<challenge, generation, graded, arenaResult, profile>>
    BY DEF ArenaCallDies
  <1>2. ArenaTypeOK' /\ DOMAIN call = ArenaThread
    BY <1>1 DEF ArenaInv, ArenaTypeOK
  <1>3. \A u \in ArenaThread : call'[u] = call[u] \/ call'[u] = NoCall
    BY <1>1, <1>2
  <1> QED
    BY <1>1, <1>2, <1>3, CallsStand

\* A finalization opens when no other is open, and reads the best score.
LEMMA FinalizeReadStep ==
    ASSUME ArenaInv, NEW t \in ArenaThread, NEW k \in ArenaKey, NEW s \in ArenaSubmission,
           FinalizeRead(t, k, s)
    PROVE  ArenaInv'
  <1> DEFINE v == generation[k].version
             total == ArenaScore(graded[s].grade, generation[k].prompt)
             c == [op |-> "finalize", key |-> k, sub |-> s, version |-> v, total |-> total,
                   delta |-> RatingDelta(Difficulty[v], total, BestScore(v)),
                   solved |-> FirstSolve(total, BestScore(v))]
  <1>1. /\ UserRowFree /\ ~StoredResult(k, s) /\ MatchingPair(k, s)
        /\ call' = [call EXCEPT ![t] = c]
        /\ UNCHANGED <<challenge, generation, graded, arenaResult, profile>>
    BY DEF FinalizeRead
  <1>2. total \in Nat
    <2>1. generation[k] \in Generations /\ graded[s] \in Graded
      BY <1>1 DEF ArenaInv, ArenaTypeOK, MatchingPair
    <2> QED
      BY <2>1, ScoreIsNatural DEF Generations, Graded
  <1>3. FinalizationOK(c)
    BY <1>1, <1>2 DEF FinalizationOK
  <1>4. c.op = "finalize"
    OBVIOUS
  <1> HIDE DEF c
  <1>5. /\ \A r \in arenaResult' : ResultOK(r)'
        /\ \A w \in ArenaVersion : HasBest(w)'
        /\ RatingIsEarned'
        /\ \A e : FinalizationOK(e) => FinalizationOK(e)'
    BY <1>1, ResultsStand
  <1>6. DOMAIN call = ArenaThread /\ ArenaTypeOK'
    BY <1>1 DEF ArenaInv, ArenaTypeOK
  <1>7. call'[t] = c /\ \A u \in ArenaThread \ {t} : call'[u] = call[u]
    BY <1>1, <1>6
  <1>8. \A u \in ArenaThread : CallOK(u)'
    BY <1>3, <1>4, <1>5, <1>7 DEF ArenaInv, CallOK
  <1>9. OneFinalization'
    BY <1>1, <1>7 DEF UserRowFree, OneFinalization
  <1> QED
    BY <1>5, <1>6, <1>8, <1>9 DEF ArenaInv

\* The best score of a version after a result: the better of the two.
LEMMA BestAfterResult ==
    ASSUME ArenaInv, NEW r, r.total \in Nat, arenaResult' = arenaResult \cup {r},
           NEW v \in ArenaVersion
    PROVE  /\ HasBest(v)'
           /\ BestScore(v)' = IF v = r.version /\ r.total > BestScore(v) THEN r.total ELSE BestScore(v)
  <1> DEFINE b == BestScore(v)
             best == IF v = r.version /\ r.total > b THEN r.total ELSE b
  <1>1. \A q \in arenaResult' : q.total \in Nat
    BY DEF ArenaInv, ResultOK
  <1>2. /\ b \in ScoresOf(v) /\ b \in Nat \cup {-1}
        /\ \A s \in ScoresOf(v) : s \in Nat \cup {-1} /\ b >= s
    BY BestIsBest DEF ArenaInv, ResultOK
  <1>3. ScoresOf(v)' = IF v = r.version THEN ScoresOf(v) \cup {r.total} ELSE ScoresOf(v)
    BY DEF ScoresOf
  <1> HIDE DEF b
  <1>4. /\ best \in ScoresOf(v)' /\ best \in Nat \cup {-1}
        /\ \A s \in ScoresOf(v)' : s \in Nat \cup {-1} /\ best >= s
    <2>1. CASE v = r.version
      <3>1. \A s \in ScoresOf(v)' : s \in ScoresOf(v) \/ s = r.total
        BY <1>3, <2>1
      <3>2. \A s \in ScoresOf(v) : s \in ScoresOf(v)'
        BY <1>3
      <3>3. r.total \in ScoresOf(v)'
        BY <1>3, <2>1
      <3>4. r.total \in Nat /\ b \in Nat \cup {-1}
        BY <1>2
      <3>5. best \in ScoresOf(v)' /\ best \in Nat \cup {-1} /\ best >= b /\ best >= r.total
        <4>1. CASE r.total > b
          BY <2>1, <3>3, <3>4, <4>1
        <4>2. CASE ~(r.total > b)
          <5>1. b \in ScoresOf(v)'
            BY <1>2, <3>2
          <5> QED
            BY <3>4, <4>2, <5>1
        <4> QED
          BY <4>1, <4>2
      <3>6. ASSUME NEW s \in ScoresOf(v)' PROVE s \in Nat \cup {-1} /\ best >= s
        <4>1. s = r.total \/ (s \in Nat \cup {-1} /\ b >= s)
          BY <1>2, <3>1
        <4> HIDE DEF best
        <4> QED
          BY <3>4, <3>5, <4>1
      <3> QED
        BY <3>5, <3>6
    <2>2. CASE v # r.version
      BY <1>2, <1>3, <2>2
    <2> QED
      BY <2>1, <2>2
  <1>5. HasBest(v)'
    BY <1>4 DEF HasBest
  <1>6. BestScore(v)' = Max(ScoresOf(v)')
    BY DEF BestScore, ScoresOf
  <1>7. Max(ScoresOf(v)') \in ScoresOf(v)' /\ \A s \in ScoresOf(v)' : Max(ScoresOf(v)') >= s
    BY <1>5 DEF HasBest, Max
  <1> DEFINE m == Max(ScoresOf(v)')
  <1>8. m = best
    <2> HIDE DEF best, m
    <2>1. m \in Nat \cup {-1} /\ m >= best /\ best >= m /\ best \in Nat \cup {-1}
      BY <1>4, <1>7 DEF m
    <2> QED
      BY <2>1
  <1> QED
    BY <1>5, <1>6, <1>8 DEF b

\* A finalization commits: the rating grows by what the sum of the earnings
\* grows by.
LEMMA FinalizeWriteStep ==
    ASSUME ArenaInv, NEW t \in ArenaThread, FinalizeWrite(t)
    PROVE  ArenaInv'
  <1> DEFINE c == call[t]
             r == [key |-> c.key, sub |-> c.sub, version |-> c.version, total |-> c.total,
                   delta |-> c.delta, after |-> profile.rating + c.delta]
             x == c.version
  <1>1. /\ c.op = "finalize"
        /\ profile'.rating = profile.rating + c.delta
        /\ arenaResult' = arenaResult \cup {r}
        /\ call' = [call EXCEPT ![t] = NoCall]
        /\ UNCHANGED <<challenge, generation, graded>>
    BY DEF FinalizeWrite, RatedProfile
  <1>2. FinalizationOK(c)
    BY <1>1 DEF ArenaInv, CallOK
  <1>3. x \in ArenaVersion
    BY <1>2 DEF FinalizationOK, MatchingPair, ArenaInv, ArenaTypeOK, Generations
  <1>4. r.key = c.key /\ r.sub = c.sub /\ r.version = x /\ r.total = c.total /\ r.total \in Nat
    BY <1>2 DEF FinalizationOK
  <1> HIDE DEF r
  <1>5. DOMAIN call = ArenaThread /\ ArenaTypeOK'
    BY <1>1 DEF ArenaInv, ArenaTypeOK
  <1>6. ASSUME NEW v \in ArenaVersion
        PROVE  /\ HasBest(v)' /\ HasBest(v)
               /\ BestScore(v) \in Nat \cup {-1}
               /\ BestScore(v)' = IF v = x /\ c.total > BestScore(v) THEN c.total ELSE BestScore(v)
    <2>1. BestScore(v) \in Nat \cup {-1}
      BY BestIsBest DEF ArenaInv, ResultOK
    <2>2. HasBest(v)' /\ BestScore(v)' = IF v = r.version /\ r.total > BestScore(v) THEN r.total ELSE BestScore(v)
      BY <1>1, <1>4, BestAfterResult
    <2> QED
      BY <1>4, <2>1, <2>2 DEF ArenaInv
  <1>7. \A q \in arenaResult' : ResultOK(q)'
    <2>1. \A k, s : MatchingPair(k, s)' = MatchingPair(k, s)
      BY <1>1 DEF MatchingPair
    <2>2. ResultOK(r)
      BY <1>2, <1>4 DEF FinalizationOK, ResultOK
    <2>3. \A q \in arenaResult' : ResultOK(q)
      BY <1>1, <2>2 DEF ArenaInv
    <2> QED
      BY <1>1, <2>1, <2>3 DEF ResultOK
  <1>8. \A q, p \in arenaResult' : q.key = p.key \/ q.sub = p.sub => q = p
    <2>1. \A q \in arenaResult : q.key # r.key /\ q.sub # r.sub
      BY <1>2, <1>4 DEF FinalizationOK, StoredResult
    <2>2. \A q, p \in arenaResult : q.key = p.key \/ q.sub = p.sub => q = p
      BY DEF ArenaInv, RatingIsEarned
    <2> QED
      BY <1>1, <2>1, <2>2
  <1> DEFINE w == [v \in ArenaVersion |-> Earned(v)]
             u == [v \in ArenaVersion |-> Earned(v)']
             d == Difficulty[x]
             b == BestScore(x)
  <1>9. ASSUME NEW v \in ArenaVersion
        PROVE  /\ Earned(v) \in Nat /\ Earned(v) = Worth(Difficulty[v], BestScore(v))
               /\ Earned(v)' \in Nat /\ Earned(v)' = Worth(Difficulty[v], BestScore(v)')
    <2>1. BestScore(v) \in Nat \cup {-1} /\ BestScore(v)' \in Nat \cup {-1}
      BY <1>4, <1>6
    <2>2. Earned(v)' = IF BestScore(v)' < 0 THEN 0 ELSE RatingDelta(Difficulty[v], BestScore(v)', -1)
      BY DEF Earned
    <2>3. Earned(v) = IF BestScore(v) < 0 THEN 0 ELSE RatingDelta(Difficulty[v], BestScore(v), -1)
      BY DEF Earned
    <2> QED
      BY <2>1, <2>2, <2>3, EarnedIsWorth
  <1>10. w \in [ArenaVersion -> Int] /\ u \in [ArenaVersion -> Int]
    BY <1>9
  <1>11. \A v \in ArenaVersion \ {x} : u[v] = w[v]
    BY <1>6, <1>9
  <1>12. SumFunction(w) \in Int /\ SumFunction(u) = SumFunction(w) + (u[x] - w[x])
    <2> HIDE DEF w, u
    <2> QED
      BY <1>3, <1>10, <1>11, SumChangesBy, ArenaAssumption
  <1>13. c.delta = u[x] - w[x]
    <2>1. c.delta = RatingDelta(d, c.total, b)
      BY <1>2 DEF FinalizationOK
    <2>2. d \in {"easy", "medium", "hard"} /\ c.total \in Nat /\ b \in Nat \cup {-1}
      BY <1>3, <1>4, <1>6, ArenaAssumption
    <2>3. RatingDelta(d, c.total, b) = Worth(d, IF c.total > b THEN c.total ELSE b) - Worth(d, b)
      <3> HIDE DEF d, b, c
      <3> QED
        BY <2>2, PaidTheDifference
    <2>4. u[x] = Worth(d, IF c.total > b THEN c.total ELSE b) /\ w[x] = Worth(d, b)
      BY <1>3, <1>6, <1>9
    <2> QED
      BY <2>1, <2>3, <2>4
  <1>14. profile'.rating = 1000 + SumFunction(u)
    <2>1. profile.rating = 1000 + SumFunction(w)
      BY DEF ArenaInv, RatingIsEarned
    <2>2. u[x] \in Int /\ w[x] \in Int
      BY <1>3, <1>10
    <2> HIDE DEF u, w
    <2> QED
      BY <1>1, <1>12, <1>13, <2>1, <2>2
  <1>15. RatingIsEarned'
    <2>1. \A q \in arenaResult' : graded'[q.sub].code = generation'[q.key].code
                                 /\ graded'[q.sub].version = generation'[q.key].version
      BY <1>7 DEF ResultOK, MatchingPair
    <2> QED
      BY <1>8, <1>14, <2>1 DEF RatingIsEarned
  <1>16. call'[t] = NoCall /\ \A s \in ArenaThread \ {t} : call'[s] = call[s] /\ call[s].op # "finalize"
    BY <1>1, <1>5 DEF ArenaInv, OneFinalization
  <1>17. \A s \in ArenaThread : CallOK(s)'
    BY <1>16 DEF ArenaInv, CallOK, NoCall
  <1>18. OneFinalization'
    BY <1>16 DEF OneFinalization, NoCall
  <1> QED
    BY <1>5, <1>6, <1>7, <1>15, <1>17, <1>18 DEF ArenaInv

LEMMA ArenaStart == ArenaInit => ArenaInv
  <1> SUFFICES ASSUME ArenaInit PROVE ArenaInv
    OBVIOUS
  <1> USE DEF ArenaInit
  <1>1. ArenaTypeOK
    BY DEF ArenaTypeOK
  <1>2. \A v : ScoresOf(v) = {-1} /\ BestScore(v) = Max({-1})
    BY DEF ScoresOf, BestScore
  <1>3. Max({-1}) = -1
    <2>1. \E m \in {-1} : \A n \in {-1} : m >= n
      OBVIOUS
    <2> QED
      BY <2>1 DEF Max
  <1>4. \A v \in ArenaVersion : HasBest(v)
    BY <1>2 DEF HasBest
  <1>5. \A v \in ArenaVersion : Earned(v) = 0
    BY <1>2, <1>3 DEF Earned
  <1>6. RatingIsEarned
    <2>1. [v \in ArenaVersion |-> Earned(v)] = [v \in ArenaVersion |-> 0]
      BY <1>5
    <2>2. SumFunction([v \in ArenaVersion |-> 0]) = 0
      BY SumOfZeros, ArenaAssumption
    <2> QED
      BY <2>1, <2>2 DEF RatingIsEarned
  <1>7. \A t \in ArenaThread : CallOK(t) /\ call[t].op # "finalize"
    BY DEF CallOK, NoCall
  <1> QED
    BY <1>1, <1>4, <1>6, <1>7 DEF ArenaInv, OneFinalization

LEMMA ArenaStep == ArenaInv /\ [ArenaNext]_arenaVars => ArenaInv'
  <1> SUFFICES ASSUME ArenaInv, [ArenaNext]_arenaVars PROVE ArenaInv'
    OBVIOUS
  <1>1. CASE HourPasses
    BY <1>1, HourOrRepublicationStep
  <1>2. CASE \E v \in ArenaVersion : Republish(v)
    BY <1>2, HourOrRepublicationStep
  <1>3. CASE \E v \in ArenaVersion, s \in ArenaSubmission, code \in ArenaCode, g \in Grade :
                SubmitGenerated(s, v, code, g)
    BY <1>3, SubmitGeneratedStep
  <1>4. CASE \E t \in ArenaThread, k \in ArenaKey, p \in ArenaPrompt : GenerateStart(t, k, p)
    BY <1>4, GenerateStartStep
  <1>5. CASE \E t \in ArenaThread, code \in ArenaCode : GenerateStore(t, code)
    BY <1>5, GenerateStoreStep
  <1>6. CASE \E t \in ArenaThread, k \in ArenaKey, s \in ArenaSubmission : FinalizeRead(t, k, s)
    BY <1>6, FinalizeReadStep
  <1>7. CASE \E t \in ArenaThread : FinalizeWrite(t)
    BY <1>7, FinalizeWriteStep
  <1>8. CASE \E t \in ArenaThread : ArenaCallDies(t)
    BY <1>8, ArenaCallDiesStep
  <1>9. CASE UNCHANGED arenaVars
    <2>1. UNCHANGED <<challenge, generation, graded, arenaResult, profile, call>>
      BY <1>9 DEF arenaVars
    <2>2. ArenaTypeOK'
      BY <2>1 DEF ArenaInv, ArenaTypeOK
    <2> QED
      BY <2>1, <2>2, CallsStand
  <1> QED
    BY <1>1, <1>2, <1>3, <1>4, <1>5, <1>6, <1>7, <1>8, <1>9 DEF ArenaNext

\* However generations, submissions and finalizations arrive, repeat or die,
\* the rating is 1000 plus what each version's best score is worth, and a
\* result judged the code it was generated as (finalize_arena_submission).
THEOREM RatingsAreEarned == ArenaSpec => []RatingIsEarned
  <1>1. ArenaInv => RatingIsEarned
    BY DEF ArenaInv
  <1> QED
    BY <1>1, ArenaStart, ArenaStep, PTL DEF ArenaSpec

-----------------------------------------------------------------------------
(* Grades.                                                                 *)

ReviewGrade == [caught : SUBSET (DOMAIN Finding), false : Nat, rated : Nat, right : BOOLEAN]
Catches(c, n) == Finding[n].file = c.file /\ Distance(c, Finding[n]) <= 1

\* A comment catches at most one finding (_matching_finding).
LEMMA CatchesOne ==
    ASSUME NEW c \in Comment, NEW m \in DOMAIN Finding, NEW n \in DOMAIN Finding,
           Catches(c, m), Catches(c, n)
    PROVE  m = n
  <1>1. c.line \in Nat /\ Finding[m].line \in Nat /\ Finding[n].line \in Nat
    BY StudyAssumption DEF Comment
  <1>2. Finding[m].file = Finding[n].file
    BY DEF Catches
  <1>3. Distance(Finding[m], Finding[n]) <= 2
    BY <1>1 DEF Catches, Distance
  <1>4. Distance(Finding[m], Finding[n]) \in Nat
    BY <1>1 DEF Distance
  <1> QED
    BY <1>2, <1>3, <1>4, FindingsApart

\* The findings grade_review has caught after a comment are those it had and
\* those the comment is within a line of.
LEMMA GradeCommentCatches ==
    ASSUME NEW grade \in ReviewGrade, NEW c \in Comment
    PROVE  /\ GradeComment(grade, c) \in ReviewGrade
           /\ GradeComment(grade, c).caught =
                 grade.caught \cup {n \in DOMAIN Finding : Catches(c, n)}
  <1> DEFINE available == DOMAIN Finding \ grade.caught
             near == {n \in available : Finding[n].file = c.file /\ Distance(c, Finding[n]) <= 1}
             nearest == {n \in near : \A m \in near : Distance(c, Finding[n]) <= Distance(c, Finding[m])}
             N == MatchingFinding(c, available)
             missed == [grade EXCEPT !.false = @ + 1]
             found == [grade EXCEPT !.caught = @ \cup {N},
                                    !.rated = @ + (IF c.severity = Finding[N].severity THEN 1 ELSE 0)]
  <1>1. DOMAIN Finding \subseteq Nat \ {0}
    BY StudyAssumption
  <1>2. N = IF near = {} THEN 0 ELSE Min(nearest)
    BY DEF MatchingFinding
  <1>3. GradeComment(grade, c) = IF N = 0 THEN missed ELSE found
    BY DEF GradeComment
  <1>4. near = {n \in available : Catches(c, n)}
    BY DEF Catches
  <1>5. CASE near = {}
    <2>1. GradeComment(grade, c) = missed
      BY <1>2, <1>3, <1>5
    <2>2. missed \in ReviewGrade /\ missed.caught = grade.caught
      BY DEF ReviewGrade
    <2>3. {n \in DOMAIN Finding : Catches(c, n)} \subseteq grade.caught
      BY <1>4, <1>5
    <2> QED
      BY <2>1, <2>2, <2>3
  <1>6. CASE near # {}
    <2>1. PICK n \in available : Catches(c, n)
      BY <1>4, <1>6
    <2>2. \A m \in DOMAIN Finding : Catches(c, m) => m = n
      BY <2>1, CatchesOne
    <2>3. near = {n}
      BY <1>4, <2>1, <2>2
    <2>4. Distance(c, Finding[n]) <= Distance(c, Finding[n])
      <3>1. c.line \in Nat /\ Finding[n].line \in Nat
        BY StudyAssumption DEF Comment
      <3> QED
        BY <3>1 DEF Distance
    <2>5. nearest = {n}
      BY <2>3, <2>4
    <2>6. Min({n}) = n
      BY <1>1, <2>1 DEF Min
    <2>7. N = n /\ n # 0
      BY <1>1, <1>2, <1>6, <2>1, <2>5, <2>6
    <2>8. GradeComment(grade, c) = found
      BY <1>3, <2>7
    <2> HIDE DEF N
    <2>9. found \in ReviewGrade /\ found.caught = grade.caught \cup {N}
      <3> DEFINE right == IF c.severity = Finding[N].severity THEN 1 ELSE 0
                 caught == grade.caught \cup {N}
                 rated == grade.rated + right
      <3>1. grade.caught \in SUBSET (DOMAIN Finding) /\ grade.rated \in Nat
        BY DEF ReviewGrade
      <3>2. right \in Nat
        OBVIOUS
      <3>3. N \in DOMAIN Finding
        BY <2>1, <2>7
      <3> HIDE DEF right
      <3>4. caught \in SUBSET (DOMAIN Finding) /\ rated \in Nat
        BY <3>1, <3>2, <3>3
      <3>5. found = [grade EXCEPT !.caught = caught, !.rated = rated]
        BY DEF right
      <3> HIDE DEF caught, rated, found
      <3>6. found \in ReviewGrade /\ found.caught = caught
        BY <3>4, <3>5 DEF ReviewGrade
      <3> QED
        BY <3>6 DEF caught
    <2>10. {m \in DOMAIN Finding : Catches(c, m)} = {n}
      BY <2>1, <2>2
    <2> QED
      BY <2>7, <2>8, <2>9, <2>10
  <1> QED
    BY <1>5, <1>6

\* grade_review catches the findings some comment is within a line of.
LEMMA GradeCatches ==
    ASSUME NEW given \in Seq(Comment), NEW verdict
    PROVE  /\ GradeReview(given, verdict) \in ReviewGrade
           /\ GradeReview(given, verdict).caught =
                 {n \in DOMAIN Finding : \E i \in DOMAIN given :
                     given[i].file = Finding[n].file /\ Distance(given[i], Finding[n]) <= 1}
  <1> DEFINE N == Len(given)
             base == [caught |-> {}, false |-> 0, rated |-> 0, right |-> verdict = "request_changes"]
             G == [n \in 1..N |-> [grade \in ReviewGrade |-> GradeComment(grade, given[n])]]
             Fold(f) == f = [d \in SUBSET (1..N) |->
                               IF d = {} THEN base ELSE GradeComment(f[d \ {Max(d)}], given[Max(d)])]
             Caught(n) == {k \in DOMAIN Finding : \E i \in 1..n : Catches(given[i], k)}
  <1>1. N \in Nat /\ DOMAIN given = 1..N /\ \A n \in 1..N : given[n] \in Comment
    OBVIOUS
  <1> HIDE DEF N
  <1>2. base \in ReviewGrade /\ base.caught = {}
    BY DEF ReviewGrade
  <1> HIDE DEF base
  <1>3. G \in [1..N -> [ReviewGrade -> ReviewGrade]]
    BY <1>1, GradeCommentCatches
  <1>4. PICK iter \in [SUBSET (1..N) -> ReviewGrade] : FoldsRows(N, base, G, iter)
    <2> HIDE DEF G
    <2> QED
      BY <1>1, <1>2, <1>3, FoldRecursion
  <1>5. Fold(iter)
    <2>1. ASSUME NEW d \in SUBSET (1..N), d # {}
          PROVE  G[Max(d)][iter[d \ {Max(d)}]] = GradeComment(iter[d \ {Max(d)}], given[Max(d)])
      <3>1. Max(d) \in d
        <4>1. d \in SUBSET (0..N)
          OBVIOUS
        <4> QED
          BY <1>1, <2>1, <4>1, LastRow
      <3>2. iter[d \ {Max(d)}] \in ReviewGrade /\ Max(d) \in 1..N
        BY <3>1
      <3> QED
        BY <3>2
    <2> HIDE DEF G
    <2> QED
      BY <1>4, <2>1 DEF FoldsRows
  <1> DEFINE f == CHOOSE f : Fold(f)
  <1>6. Fold(f)
    <2> HIDE DEF Fold
    <2> QED
      BY <1>5, Zenon
  <1>7. GradeReview(given, verdict) = f[1..N]
    BY <1>1 DEF GradeReview, FoldLeft, MapThenFoldSet, base
  <1> HIDE DEF f
  <1> DEFINE Right(n) == n <= N => f[1..n] \in ReviewGrade /\ f[1..n].caught = Caught(n)
             P == {n \in Nat : Right(n)}
  <1>8. Right(0)
    <2>1. f[1..0] = base
      <3>1. 1..0 = {} /\ {} \in SUBSET (1..N)
        OBVIOUS
      <3> QED
        BY <1>6, <3>1
    <2>2. Caught(0) = {}
      BY RowsUpTo
    <2> QED
      BY <1>2, <2>1, <2>2
  <1>9. ASSUME NEW n \in Nat, Right(n) PROVE Right(n + 1)
    <2> SUFFICES ASSUME n + 1 <= N
                 PROVE  f[1..n + 1] \in ReviewGrade /\ f[1..n + 1].caught = Caught(n + 1)
      OBVIOUS
    <2>1. Max(1..n + 1) = n + 1 /\ (1..n + 1) \ {n + 1} = 1..n /\ 1..n + 1 # {}
      BY RowsUpTo
    <2>2. 1..n + 1 \in SUBSET (1..N) /\ n + 1 \in 1..N /\ n <= N
      BY <1>1
    <2>3. f[1..n + 1] = GradeComment(f[1..n], given[n + 1])
      BY <1>6, <2>1, <2>2
    <2>4. f[1..n] \in ReviewGrade /\ f[1..n].caught = Caught(n) /\ given[n + 1] \in Comment
      BY <1>1, <1>9, <2>2
    <2>5. /\ f[1..n + 1] \in ReviewGrade
          /\ f[1..n + 1].caught = Caught(n) \cup {k \in DOMAIN Finding : Catches(given[n + 1], k)}
      <3>1. \A grade \in ReviewGrade, c \in Comment :
               /\ GradeComment(grade, c) \in ReviewGrade
               /\ GradeComment(grade, c).caught =
                     grade.caught \cup {k \in DOMAIN Finding : Catches(c, k)}
        BY GradeCommentCatches
      <3> HIDE DEF Caught
      <3> QED
        BY <2>3, <2>4, <3>1
    <2>6. Caught(n + 1) = Caught(n) \cup {k \in DOMAIN Finding : Catches(given[n + 1], k)}
      <3>1. 1..n + 1 = (1..n) \cup {n + 1}
        OBVIOUS
      <3> QED
        BY <3>1
    <2> QED
      BY <2>5, <2>6
  <1>10. \A n \in Nat : Right(n)
    <2> HIDE DEF Right
    <2>1. 0 \in P /\ \A n \in Nat : n \in P => n + 1 \in P
      BY <1>8, <1>9
    <2> HIDE DEF P
    <2>2. \A n \in Nat : n \in P
      BY <2>1, EveryNumber
    <2> QED
      BY <2>2 DEF P
  <1>11. GradeReview(given, verdict) \in ReviewGrade /\ GradeReview(given, verdict).caught = Caught(N)
    BY <1>1, <1>7, <1>10
  <1> QED
    BY <1>1, <1>11 DEF Catches

-----------------------------------------------------------------------------
(* Progress.                                                               *)

RecordedType == ActivityType \cup {"bookmark_changed"}
ActivityRow == [problem : Problem, type : RecordedType, key : ActivityKey \cup {NoStudy}]
ProgressRow == [status : {"none", "viewed", "attempted", "failed", "solved"}, views : Nat,
                attempts : Nat, solved : Nat, failed : Nat, bookmarked : BOOLEAN]

EventsOf(a, p, types) == {n \in DOMAIN a : a[n].problem = p /\ a[n].type \in types}

\* The events of a problem after one more (_append_event).
LEMMA EventsAfter ==
    ASSUME NEW a \in Seq(ActivityRow), NEW e \in ActivityRow, NEW p, NEW types
    PROVE  /\ IsFiniteSet(EventsOf(a, p, types)) /\ Cardinality(EventsOf(a, p, types)) \in Nat
           /\ EventsOf(a, p, types) \in SUBSET (0..Len(a))
           /\ EventsOf(Append(a, e), p, types) \in SUBSET (0..Len(a) + 1)
           /\ e.problem = p /\ e.type \in types =>
                 /\ EventsOf(Append(a, e), p, types) = EventsOf(a, p, types) \cup {Len(a) + 1}
                 /\ Cardinality(EventsOf(Append(a, e), p, types)) = Cardinality(EventsOf(a, p, types)) + 1
           /\ ~(e.problem = p /\ e.type \in types) =>
                 EventsOf(Append(a, e), p, types) = EventsOf(a, p, types)
  <1> DEFINE old == EventsOf(a, p, types)
             b == Append(a, e)
  <1>1. /\ Len(a) \in Nat /\ DOMAIN a = 1..Len(a) /\ DOMAIN b = 1..Len(a) + 1
        /\ b[Len(a) + 1] = e /\ \A n \in 1..Len(a) : b[n] = a[n]
    OBVIOUS
  <1>2. DOMAIN b = DOMAIN a \cup {Len(a) + 1} /\ Len(a) + 1 \notin DOMAIN a
    BY <1>1
  <1> HIDE DEF b
  <1>3. old \subseteq DOMAIN a
    BY DEF EventsOf
  <1>4. IsFiniteSet(old) /\ Cardinality(old) \in Nat
    <2>1. IsFiniteSet(1..Len(a))
      <3>1. 1 \in Int /\ Len(a) \in Int
        BY <1>1
      <3> QED
        BY <3>1, FS_Interval, Zenon
    <2>2. old \subseteq 1..Len(a)
      BY <1>1, <1>3
    <2> HIDE DEF old
    <2>3. IsFiniteSet(old)
      BY <2>1, <2>2, FS_Subset
    <2> QED
      BY <2>3, FS_CardinalityType
  <1>5. old \in SUBSET (0..Len(a)) /\ EventsOf(b, p, types) \in SUBSET (0..Len(a) + 1)
    BY <1>1, <1>3 DEF EventsOf
  <1>6. ASSUME e.problem = p, e.type \in types
        PROVE  EventsOf(b, p, types) = old \cup {Len(a) + 1}
    BY <1>1, <1>2, <1>6 DEF EventsOf
  <1>7. ASSUME ~(e.problem = p /\ e.type \in types)
        PROVE  EventsOf(b, p, types) = old
    BY <1>1, <1>2, <1>7 DEF EventsOf
  <1>8. Cardinality(old \cup {Len(a) + 1}) = Cardinality(old) + 1
    <2>1. Len(a) + 1 \notin old
      BY <1>2, <1>3
    <2> HIDE DEF old
    <2> QED
      BY <1>4, <2>1, FS_AddElement
  <1> QED
    BY <1>4, <1>5, <1>6, <1>7, <1>8 DEF b

\* What a problem's row says of the events recorded for it.
Tells(state, a, p) ==
    /\ state.views = Cardinality(EventsOf(a, p, {"problem_viewed"}))
    /\ state.status = "attempted" <=> Cardinality(EventsOf(a, p, {"session_started", "draft_saved"})) > 0
    /\ state.status \notin {"solved", "failed"}
    /\ state.attempts = 0 /\ state.solved = 0 /\ state.failed = 0

\* An event of another problem, or one that only records a bookmark, changes
\* nothing a problem's row tells.
LEMMA OthersTellNothing ==
    ASSUME NEW a \in Seq(ActivityRow), NEW e \in ActivityRow, NEW p, NEW state, Tells(state, a, p),
           e.problem # p \/ e.type = "bookmark_changed"
    PROVE  Tells(state, Append(a, e), p)
  <1> DEFINE b == Append(a, e)
  <1>1. \A types : e.type \notin types \/ e.problem # p => EventsOf(b, p, types) = EventsOf(a, p, types)
    BY EventsAfter
  <1>2. /\ EventsOf(b, p, {"problem_viewed"}) = EventsOf(a, p, {"problem_viewed"})
        /\ EventsOf(b, p, {"session_started", "draft_saved"}) = EventsOf(a, p, {"session_started", "draft_saved"})
    BY <1>1
  <1> HIDE DEF b
  <1> QED
    BY <1>2 DEF Tells, b

\* An event of the problem the policy admits is told by the row it is
\* projected on (_apply_event_projection, knowledge_activity_owner_insert).
LEMMA ProjectionTells ==
    ASSUME NEW a \in Seq(ActivityRow), NEW e \in ActivityRow, NEW state \in ProgressRow,
           Tells(state, a, e.problem), e.type \in InteractionEvents
    PROVE  /\ ApplyEvent(state, e.type) \in ProgressRow
           /\ Tells(ApplyEvent(state, e.type), Append(a, e), e.problem)
  <1> DEFINE p == e.problem
             b == Append(a, e)
             after == ApplyEvent(state, e.type)
             Count(s, types) == Cardinality(EventsOf(s, p, types))
             status == IF e.type \in {"session_started", "draft_saved"} THEN "attempted" ELSE state.status
             views == IF e.type = "problem_viewed" THEN state.views + 1 ELSE state.views
  <1>1. /\ e.type \in {"session_started", "draft_saved", "problem_viewed", "session_time_recorded"}
        /\ state.status \in {"none", "viewed", "attempted"}
    BY DEF InteractionEvents, ActivityType, Attempting, Tells, ProgressRow
  <1>2. after = [state EXCEPT !.status = status, !.views = views]
    <2>1. CASE e.type \in {"session_started", "draft_saved"}
      BY <1>1, <2>1 DEF ApplyEvent, Attempting, ProgressRow
    <2>2. CASE e.type \in {"problem_viewed", "session_time_recorded"}
      BY <1>1, <2>2 DEF ApplyEvent, Attempting, ProgressRow
    <2> QED
      BY <1>1, <2>1, <2>2
  <1>3. status \in {"none", "viewed", "attempted"} /\ views \in Nat
    BY <1>1 DEF ProgressRow
  <1> HIDE DEF after, status, views
  <1>4. /\ after \in ProgressRow /\ after.status = status /\ after.views = views
        /\ after.attempts = state.attempts /\ after.solved = state.solved /\ after.failed = state.failed
    BY <1>2, <1>3 DEF ProgressRow
  <1>5. \A types : /\ Count(a, types) \in Nat
                   /\ Count(b, types) = IF e.type \in types THEN Count(a, types) + 1 ELSE Count(a, types)
    BY EventsAfter
  <1>6. /\ Count(b, {"problem_viewed"}) =
              IF e.type = "problem_viewed" THEN Count(a, {"problem_viewed"}) + 1
              ELSE Count(a, {"problem_viewed"})
        /\ Count(a, {"session_started", "draft_saved"}) \in Nat
        /\ Count(b, {"session_started", "draft_saved"}) =
              IF e.type \in {"session_started", "draft_saved"}
              THEN Count(a, {"session_started", "draft_saved"}) + 1
              ELSE Count(a, {"session_started", "draft_saved"})
    BY <1>5
  <1>7. /\ state.views = Count(a, {"problem_viewed"})
        /\ state.status = "attempted" <=> Count(a, {"session_started", "draft_saved"}) > 0
        /\ state.attempts = 0 /\ state.solved = 0 /\ state.failed = 0
    BY DEF Tells
  <1> HIDE DEF b, Count
  <1>8. /\ after.views = Count(b, {"problem_viewed"})
        /\ after.status = "attempted" <=> Count(b, {"session_started", "draft_saved"}) > 0
    BY <1>4, <1>6, <1>7 DEF status, views
  <1> QED
    BY <1>3, <1>4, <1>7, <1>8 DEF Tells, after, b, Count

-----------------------------------------------------------------------------
(* The inductive invariant of the study records.                           *)

PrReviewRow == [status : {"absent", "active", "submitted"},
                verdict : {"none", "approve", "request_changes"}, grade : ReviewGrade \cup {NoStudy}]

TutorEvent == [type : {"event", "message.user", "message.assistant"},
               text : MessageKey \cup Reply \cup {NoStudy}]

\* A submitted review has the grade of the comments it had.
ReviewInv ==
    /\ prReview \in [StudySession -> PrReviewRow]
    /\ comments \in [StudySession -> Seq(Comment)]
    /\ \A s \in StudySession : prReview[s].status = "submitted" =>
          prReview[s].grade = GradeReview(comments[s], prReview[s].verdict)

\* A stored answer has its question beside it.
TutorInv ==
    /\ said \in [StudySession -> [EventKey \cup MessageEvents -> TutorEvent \cup {NoStudy}]]
    /\ \A s \in StudySession, m \in MessageKey :
          ExistingResponse(s, m) => said[s][<<m, "user">>] # NoStudy

\* Every row tells its problem's events, and a key is recorded once.
ProgressInv ==
    /\ activity \in Seq(ActivityRow)
    /\ progress \in [Problem -> ProgressRow]
    /\ \A p \in Problem : Tells(progress[p], activity, p)
    /\ \A m, n \in DOMAIN activity :
          activity[m].key = activity[n].key /\ activity[m].key # NoStudy => m = n

LEMMA CreateReviewStep ==
    ASSUME ReviewInv, NEW s \in StudySession, CreateReview(s)
    PROVE  ReviewInv'
  <1>1. /\ prReview' = [prReview EXCEPT ![s].status = "active"] /\ comments' = comments
    BY DEF CreateReview
  <1>2. prReview' \in [StudySession -> PrReviewRow] /\ prReview'[s].status = "active"
    BY <1>1 DEF ReviewInv, PrReviewRow
  <1>3. \A r \in StudySession : r # s => prReview'[r] = prReview[r]
    BY <1>1 DEF ReviewInv
  <1> QED
    BY <1>1, <1>2, <1>3 DEF ReviewInv

\* Comments change only while their review is not graded (create_review_comment,
\* delete_review_comment).
LEMMA CommentsStep ==
    ASSUME ReviewInv, NEW s \in StudySession, ReviewActive(s), NEW given \in Seq(Comment),
           comments' = [comments EXCEPT ![s] = given], prReview' = prReview
    PROVE  ReviewInv'
  <1>1. comments' \in [StudySession -> Seq(Comment)]
    BY DEF ReviewInv
  <1>2. \A r \in StudySession : r # s => comments'[r] = comments[r]
    BY DEF ReviewInv
  <1> QED
    BY <1>1, <1>2 DEF ReviewInv, ReviewActive

LEMMA CreateCommentStep ==
    ASSUME ReviewInv, NEW s \in StudySession, NEW c \in Comment, NEW n, CreateComment(s, c, n)
    PROVE  ReviewInv'
  <1>1. /\ ReviewActive(s) /\ n \in 1..Len(comments[s]) + 1
        /\ comments' = [comments EXCEPT ![s] = InsertAt(comments[s], n, c)] /\ prReview' = prReview
    BY DEF CreateComment
  <1>2. comments[s] \in Seq(Comment)
    BY DEF ReviewInv
  <1>3. InsertAt(comments[s], n, c) \in Seq(Comment)
    <2>1. n - 1 \in 0..Len(comments[s]) /\ n \in 1..Len(comments[s]) + 1
      BY <1>1, <1>2
    <2>2. SubSeq(comments[s], 1, n - 1) \in Seq(Comment)
      BY <1>2, <2>1
    <2>3. SubSeq(comments[s], n, Len(comments[s])) \in Seq(Comment)
      BY <1>2, <2>1
    <2> QED
      BY <2>2, <2>3 DEF InsertAt
  <1> QED
    BY <1>1, <1>3, CommentsStep

LEMMA DeleteCommentStep ==
    ASSUME ReviewInv, NEW s \in StudySession, NEW n, DeleteComment(s, n)
    PROVE  ReviewInv'
  <1>1. /\ ReviewActive(s) /\ n \in DOMAIN comments[s]
        /\ comments' = [comments EXCEPT ![s] = RemoveAt(comments[s], n)] /\ prReview' = prReview
    BY DEF DeleteComment
  <1>2. comments[s] \in Seq(Comment)
    BY DEF ReviewInv
  <1>3. RemoveAt(comments[s], n) \in Seq(Comment)
    <2>1. n \in 1..Len(comments[s])
      BY <1>1, <1>2
    <2>2. SubSeq(comments[s], 1, n - 1) \in Seq(Comment)
      BY <1>2, <2>1
    <2>3. SubSeq(comments[s], n + 1, Len(comments[s])) \in Seq(Comment)
      BY <1>2, <2>1
    <2> QED
      BY <2>2, <2>3 DEF RemoveAt
  <1> QED
    BY <1>1, <1>3, CommentsStep

LEMMA SubmitReviewStep ==
    ASSUME ReviewInv, NEW s \in StudySession, NEW verdict \in {"approve", "request_changes"},
           SubmitReview(s, verdict)
    PROVE  ReviewInv'
  <1> DEFINE row == [status |-> "submitted", verdict |-> verdict,
                     grade |-> GradeReview(comments[s], verdict)]
  <1>1. prReview' = [prReview EXCEPT ![s] = row] /\ comments' = comments
    BY DEF SubmitReview
  <1>2. GradeReview(comments[s], verdict) \in ReviewGrade
    <2>1. comments[s] \in Seq(Comment)
      BY DEF ReviewInv
    <2> QED
      BY <2>1, GradeCatches
  <1>3. row \in PrReviewRow
    BY <1>2 DEF PrReviewRow
  <1>4. \A r \in StudySession : prReview'[r] = IF r = s THEN row ELSE prReview[r]
    BY <1>1 DEF ReviewInv
  <1>5. prReview' \in [StudySession -> PrReviewRow]
    BY <1>1, <1>3 DEF ReviewInv
  <1> QED
    BY <1>1, <1>4, <1>5 DEF ReviewInv

\* An event stored keeps its key (INSERT ... ON CONFLICT).
LEMMA InsertEventKeeps ==
    ASSUME NEW K, NEW stored \in [K -> TutorEvent \cup {NoStudy}], NEW key \in K, NEW event \in TutorEvent
    PROVE  /\ InsertEvent(stored, key, event) \in [K -> TutorEvent \cup {NoStudy}]
           /\ InsertEvent(stored, key, event)[key] = IF stored[key] = NoStudy THEN event ELSE stored[key]
           /\ InsertEvent(stored, key, event)[key] # NoStudy
           /\ \A k \in K : k # key => InsertEvent(stored, key, event)[k] = stored[k]
  <1>1. event # NoStudy
    BY StudyAssumption DEF TutorEvent
  <1> QED
    BY <1>1 DEF InsertEvent

LEMMA AppendTutorEventStep ==
    ASSUME TutorInv, NEW s \in StudySession, NEW key \in EventKey, AppendTutorEvent(s, key)
    PROVE  TutorInv'
  <1> DEFINE K == EventKey \cup MessageEvents
             event == [type |-> "event", text |-> NoStudy]
             stored == InsertEvent(said[s], key, event)
  <1>1. said' = [said EXCEPT ![s] = stored]
    BY DEF AppendTutorEvent
  <1>2. said[s] \in [K -> TutorEvent \cup {NoStudy}] /\ event \in TutorEvent /\ key \in K
    BY DEF TutorInv, TutorEvent
  <1>3. /\ stored \in [K -> TutorEvent \cup {NoStudy}]
        /\ stored[key] = IF said[s][key] = NoStudy THEN event ELSE said[s][key]
        /\ stored[key] # NoStudy
        /\ \A k \in K : k # key => stored[k] = said[s][k]
    BY <1>2, InsertEventKeeps
  <1>4. event.type = "event"
    OBVIOUS
  <1> HIDE DEF stored, event, K
  <1>5. said' \in [StudySession -> [K -> TutorEvent \cup {NoStudy}]]
    BY <1>1, <1>3 DEF TutorInv, K
  <1>6. \A r \in StudySession : said'[r] = IF r = s THEN stored ELSE said[r]
    BY <1>1 DEF TutorInv
  <1>7. ASSUME NEW r \in StudySession, NEW m \in MessageKey, ExistingResponse(r, m)'
        PROVE  said'[r][<<m, "user">>] # NoStudy
    <2>1. said'[r][<<m, "assistant">>] # NoStudy /\ said'[r][<<m, "assistant">>].type = "message.assistant"
      BY <1>7 DEF ExistingResponse
    <2>2. <<m, "assistant">> \in K /\ <<m, "user">> \in K
      BY DEF K, MessageEvents
    <2>3. said[r][<<m, "user">>] # NoStudy
      <3>1. said'[r][<<m, "assistant">>] = said[r][<<m, "assistant">>]
        BY <1>3, <1>4, <1>6, <2>1, <2>2
      <3> QED
        BY <2>1, <3>1 DEF TutorInv, ExistingResponse
    <2> QED
      BY <1>3, <1>6, <2>2, <2>3
  <1> QED
    BY <1>5, <1>7 DEF TutorInv, K

LEMMA SendTutorMessageStep ==
    ASSUME TutorInv, NEW s \in StudySession, NEW m \in MessageKey, NEW reply \in Reply,
           SendTutorMessage(s, m, reply)
    PROVE  TutorInv'
  <1> DEFINE K == EventKey \cup MessageEvents
             question == [type |-> "message.user", text |-> m]
             answer == [type |-> "message.assistant", text |-> reply]
             asked == InsertEvent(said[s], <<m, "user">>, question)
             stored == InsertEvent(asked, <<m, "assistant">>, answer)
  <1>1. said' = [said EXCEPT ![s] = stored]
    BY DEF SendTutorMessage
  <1>2. /\ said[s] \in [K -> TutorEvent \cup {NoStudy}]
        /\ question \in TutorEvent /\ answer \in TutorEvent
        /\ \A n \in MessageKey : <<n, "user">> \in K /\ <<n, "assistant">> \in K
    <2>1. question \in TutorEvent /\ answer \in TutorEvent
      BY DEF TutorEvent
    <2>2. \A n \in MessageKey : <<n, "user">> \in K /\ <<n, "assistant">> \in K
      BY DEF MessageEvents
    <2> QED
      BY <2>1, <2>2 DEF TutorInv
  <1> HIDE DEF question, answer, K
  <1> DEFINE Kept(before, key, event, after) ==
                /\ after \in [K -> TutorEvent \cup {NoStudy}] /\ after[key] # NoStudy
                /\ \A k \in K : k # key => after[k] = before[k]
  <1>3a. \A before \in [K -> TutorEvent \cup {NoStudy}], key \in K, event \in TutorEvent :
           Kept(before, key, event, InsertEvent(before, key, event))
    BY InsertEventKeeps
  <1>3. /\ asked \in [K -> TutorEvent \cup {NoStudy}] /\ asked[<<m, "user">>] # NoStudy
        /\ \A k \in K : k # <<m, "user">> => asked[k] = said[s][k]
    <2>1. Kept(said[s], <<m, "user">>, question, asked)
      <3> HIDE DEF Kept
      <3> QED
        BY <1>2, <1>3a
    <2> HIDE DEF asked
    <2> QED
      BY <2>1
  <1> HIDE DEF asked
  <1>4. /\ stored \in [K -> TutorEvent \cup {NoStudy}]
        /\ \A k \in K : k # <<m, "assistant">> => stored[k] = asked[k]
    BY <1>2, <1>3, <1>3a
  <1> HIDE DEF stored
  <1>5. said' \in [StudySession -> [K -> TutorEvent \cup {NoStudy}]]
    BY <1>1, <1>4 DEF TutorInv, K
  <1>6. \A r \in StudySession : said'[r] = IF r = s THEN stored ELSE said[r]
    BY <1>1 DEF TutorInv
  <1>7. ASSUME NEW r \in StudySession, NEW n \in MessageKey, ExistingResponse(r, n)'
        PROVE  said'[r][<<n, "user">>] # NoStudy
    <2>1. said'[r][<<n, "assistant">>] # NoStudy /\ said'[r][<<n, "assistant">>].type = "message.assistant"
      BY <1>7 DEF ExistingResponse
    <2>2. CASE r # s
      BY <1>6, <2>1, <2>2 DEF TutorInv, ExistingResponse
    <2>3. CASE r = s /\ n = m
      <3>1. <<m, "user">> # <<m, "assistant">> /\ <<m, "user">> \in K
        BY <1>2
      <3> QED
        BY <1>3, <1>4, <1>6, <2>3, <3>1
    <2>4. CASE r = s /\ n # m
      <3>1. /\ <<n, "user">> \in K /\ <<n, "assistant">> \in K
            /\ <<n, "user">> \notin {<<m, "user">>, <<m, "assistant">>}
            /\ <<n, "assistant">> \notin {<<m, "user">>, <<m, "assistant">>}
        BY <1>2, <2>4
      <3>2. /\ said'[r][<<n, "user">>] = said[r][<<n, "user">>]
            /\ said'[r][<<n, "assistant">>] = said[r][<<n, "assistant">>]
        BY <1>3, <1>4, <1>6, <2>4, <3>1
      <3> QED
        BY <2>1, <3>2 DEF TutorInv, ExistingResponse
    <2> QED
      BY <2>2, <2>3, <2>4
  <1> QED
    BY <1>5, <1>7 DEF TutorInv, K

\* _ensure_state tells what the row told.
LEMMA EnsureTells ==
    ASSUME ProgressInv, NEW p \in Problem
    PROVE  EnsureState(p) \in ProgressRow /\ Tells(EnsureState(p), activity, p)
  <1>1. progress[p] \in ProgressRow /\ Tells(progress[p], activity, p)
    BY DEF ProgressInv
  <1>2. CASE progress[p] # NoProgress
    BY <1>1, <1>2 DEF EnsureState
  <1>3. CASE progress[p] = NoProgress
    <2>1. EnsureState(p) = [NoProgress EXCEPT !.status = "viewed"]
      BY <1>3 DEF EnsureState
    <2>2. /\ EnsureState(p) \in ProgressRow /\ EnsureState(p).status = "viewed"
          /\ EnsureState(p).views = NoProgress.views /\ EnsureState(p).attempts = NoProgress.attempts
          /\ EnsureState(p).solved = NoProgress.solved /\ EnsureState(p).failed = NoProgress.failed
          /\ NoProgress.status = "none"
      <3>1. NoProgress \in ProgressRow /\ NoProgress.status = "none"
        BY DEF NoProgress, ProgressRow
      <3> QED
        BY <2>1, <3>1 DEF ProgressRow
    <2> QED
      BY <1>1, <1>3, <2>2 DEF Tells
  <1> QED
    BY <1>2, <1>3

\* One row is written and, with it, at most one event of its problem.
LEMMA RowStep ==
    ASSUME ProgressInv, NEW p \in Problem, NEW row \in ProgressRow,
           progress' = [progress EXCEPT ![p] = row],
           \/ activity' = activity /\ Tells(row, activity, p)
           \/ \E e \in ActivityRow : /\ activity' = Append(activity, e) /\ e.problem = p
                                     /\ Tells(row, Append(activity, e), p) /\ AppendsActivity(e.key)
    PROVE  ProgressInv'
  <1>1. activity \in Seq(ActivityRow) /\ progress \in [Problem -> ProgressRow]
    BY DEF ProgressInv
  <1>2. progress' \in [Problem -> ProgressRow]
    BY <1>1
  <1>3. \A q \in Problem : progress'[q] = IF q = p THEN row ELSE progress[q]
    BY <1>1
  <1>4. CASE activity' = activity /\ Tells(row, activity, p)
    <2>1. \A q \in Problem : Tells(progress'[q], activity, q)
      BY <1>3, <1>4 DEF ProgressInv
    <2>2. \A q \in Problem : Tells(progress[q], activity, q)'
      BY <1>4, <2>1 DEF Tells
    <2> QED
      BY <1>2, <1>4, <2>2 DEF ProgressInv
  <1>5. ASSUME NEW e \in ActivityRow, activity' = Append(activity, e), e.problem = p,
               Tells(row, Append(activity, e), p), AppendsActivity(e.key)
        PROVE  ProgressInv'
    <2>1. activity' \in Seq(ActivityRow)
      BY <1>1, <1>5
    <2>2. ASSUME NEW q \in Problem PROVE Tells(progress'[q], Append(activity, e), q)
      <3>1. CASE q = p
        BY <1>3, <1>5, <3>1
      <3>2. CASE q # p
        BY <1>1, <1>3, <1>5, <3>2, OthersTellNothing DEF ProgressInv
      <3> QED
        BY <3>1, <3>2
    <2>3. \A q \in Problem : Tells(progress[q], activity, q)'
      BY <1>5, <2>2 DEF Tells
    <2>4. /\ DOMAIN activity' = DOMAIN activity \cup {Len(activity) + 1}
          /\ activity'[Len(activity) + 1] = e
          /\ \A n \in DOMAIN activity : activity'[n] = activity[n]
      BY <1>1, <1>5
    <2>5. ASSUME NEW m \in DOMAIN activity', NEW n \in DOMAIN activity',
                 activity'[m].key = activity'[n].key, activity'[m].key # NoStudy
          PROVE  m = n
      <3>1. CASE m \in DOMAIN activity /\ n \in DOMAIN activity
        BY <2>4, <2>5, <3>1 DEF ProgressInv
      <3>2. CASE m \notin DOMAIN activity /\ n \in DOMAIN activity
        BY <1>5, <2>4, <2>5, <3>2 DEF AppendsActivity
      <3>3. CASE m \in DOMAIN activity /\ n \notin DOMAIN activity
        BY <1>5, <2>4, <2>5, <3>3 DEF AppendsActivity
      <3>4. CASE m \notin DOMAIN activity /\ n \notin DOMAIN activity
        BY <2>4, <3>4
      <3> QED
        BY <3>1, <3>2, <3>3, <3>4
    <2> QED
      BY <1>2, <2>1, <2>3, <2>5 DEF ProgressInv
  <1> QED
    BY <1>4, <1>5

LEMMA GetProgressStep ==
    ASSUME ProgressInv, NEW p \in Problem, GetProgress(p)
    PROVE  ProgressInv'
  BY EnsureTells, RowStep DEF GetProgress

LEMMA PatchProgressStep ==
    ASSUME ProgressInv, NEW p \in Problem, NEW on \in BOOLEAN, PatchProgress(p, on)
    PROVE  ProgressInv'
  <1> DEFINE e == [problem |-> p, type |-> "bookmark_changed", key |-> NoStudy]
             row == [EnsureState(p) EXCEPT !.bookmarked = on]
  <1>1. progress' = [progress EXCEPT ![p] = row] /\ activity' = Append(activity, e)
    BY DEF PatchProgress
  <1>2. e \in ActivityRow /\ e.problem = p /\ e.type = "bookmark_changed" /\ AppendsActivity(e.key)
    BY DEF ActivityRow, RecordedType, AppendsActivity
  <1>3. EnsureState(p) \in ProgressRow /\ Tells(EnsureState(p), activity, p) /\ activity \in Seq(ActivityRow)
    BY EnsureTells DEF ProgressInv
  <1>4. /\ row \in ProgressRow /\ row.status = EnsureState(p).status /\ row.views = EnsureState(p).views
        /\ row.attempts = EnsureState(p).attempts /\ row.solved = EnsureState(p).solved
        /\ row.failed = EnsureState(p).failed
    BY <1>3 DEF ProgressRow
  <1> HIDE DEF row, e
  <1>5. Tells(row, activity, p)
    BY <1>3, <1>4 DEF Tells
  <1>6. Tells(row, Append(activity, e), p)
    BY <1>2, <1>3, <1>5, OthersTellNothing
  <1> QED
    BY <1>1, <1>2, <1>4, <1>6, RowStep

LEMMA RecordActivityStep ==
    ASSUME ProgressInv, NEW p \in Problem, NEW type \in ActivityType,
           NEW key \in ActivityKey \cup {NoStudy}, RecordActivity(p, type, key)
    PROVE  ProgressInv'
  <1> DEFINE e == [problem |-> p, type |-> type, key |-> key]
             row == ApplyEvent(EnsureState(p), e.type)
  <1>1. EnsureState(p) \in ProgressRow /\ Tells(EnsureState(p), activity, p) /\ activity \in Seq(ActivityRow)
    BY EnsureTells DEF ProgressInv
  <1>2. e \in ActivityRow /\ e.problem = p /\ e.type \in InteractionEvents /\ e.key = key
    BY DEF ActivityRow, RecordedType, RecordActivity
  <1>3. CASE AppendsActivity(key)
    <2>1. progress' = [progress EXCEPT ![p] = row] /\ activity' = Append(activity, e)
      BY <1>3 DEF RecordActivity
    <2> HIDE DEF e
    <2>2. row \in ProgressRow /\ Tells(row, Append(activity, e), p)
      BY <1>1, <1>2, ProjectionTells
    <2> HIDE DEF row
    <2> QED
      BY <1>2, <1>3, <2>1, <2>2, RowStep
  <1>4. CASE ~AppendsActivity(key)
    <2>1. progress' = [progress EXCEPT ![p] = EnsureState(p)] /\ activity' = activity
      BY <1>4 DEF RecordActivity
    <2> QED
      BY <1>1, <2>1, RowStep
  <1> QED
    BY <1>3, <1>4

LEMMA StudyStart ==
    ASSUME StudyInit
    PROVE  ReviewInv /\ TutorInv /\ ProgressInv
  <1>1. NoPrReview \in PrReviewRow /\ NoPrReview.status = "absent"
    BY DEF NoPrReview, PrReviewRow
  <1>2. ReviewInv
    BY <1>1 DEF StudyInit, ReviewInv
  <1>3. TutorInv
    <2>1. \A m \in MessageKey : <<m, "assistant">> \in EventKey \cup MessageEvents
      BY DEF MessageEvents
    <2> QED
      BY <2>1 DEF StudyInit, TutorInv, ExistingResponse
  <1>4. ProgressInv
    <2>1. NoProgress \in ProgressRow /\ NoProgress.status = "none"
          /\ NoProgress.views = 0 /\ NoProgress.attempts = 0 /\ NoProgress.solved = 0
          /\ NoProgress.failed = 0
      BY DEF NoProgress, ProgressRow
    <2>2. \A p, types : EventsOf(<<>>, p, types) = {}
      BY DEF EventsOf
    <2>3. Cardinality({}) = 0
      BY FS_EmptySet
    <2>4. \A p : Tells(NoProgress, <<>>, p)
      <3> HIDE DEF NoProgress
      <3>1. ~(Cardinality({}) > 0)
        BY <2>3
      <3> QED
        BY <2>1, <2>2, <2>3, <3>1 DEF Tells
    <2>5. activity = <<>> /\ progress = [p \in Problem |-> NoProgress]
      BY DEF StudyInit
    <2> QED
      BY <2>1, <2>4, <2>5 DEF ProgressInv
  <1> QED
    BY <1>2, <1>3, <1>4

LEMMA StudyStep ==
    ASSUME ReviewInv, TutorInv, ProgressInv,
           [ReviewPractice \/ Tutoring \/ Progressing \/ Engaging]_studyVars
    PROVE  ReviewInv' /\ TutorInv' /\ ProgressInv'
  <1>1. ASSUME UNCHANGED prVars PROVE ReviewInv'
    BY <1>1 DEF ReviewInv, prVars
  <1>2. ASSUME UNCHANGED tutorVars PROVE TutorInv'
    BY <1>2 DEF TutorInv, tutorVars, ExistingResponse
  <1>3. ASSUME UNCHANGED progressVars PROVE ProgressInv'
    BY <1>3 DEF ProgressInv, progressVars, Tells
  <1>4. ASSUME ReviewPractice PROVE ReviewInv' /\ UNCHANGED <<tutorVars, progressVars>>
    <2>1. ASSUME NEW s \in StudySession, CreateReview(s)
          PROVE  ReviewInv' /\ UNCHANGED <<tutorVars, progressVars>>
      BY <2>1, CreateReviewStep DEF CreateReview
    <2>2. ASSUME NEW s \in StudySession, NEW c \in Comment, NEW n, CreateComment(s, c, n)
          PROVE  ReviewInv' /\ UNCHANGED <<tutorVars, progressVars>>
      BY <2>2, CreateCommentStep DEF CreateComment
    <2>3. ASSUME NEW s \in StudySession, NEW n, DeleteComment(s, n)
          PROVE  ReviewInv' /\ UNCHANGED <<tutorVars, progressVars>>
      BY <2>3, DeleteCommentStep DEF DeleteComment
    <2>4. ASSUME NEW s \in StudySession, NEW verdict \in {"approve", "request_changes"},
                 SubmitReview(s, verdict)
          PROVE  ReviewInv' /\ UNCHANGED <<tutorVars, progressVars>>
      BY <2>4, SubmitReviewStep DEF SubmitReview
    <2> QED
      BY <1>4, <2>1, <2>2, <2>3, <2>4 DEF ReviewPractice
  <1>5. ASSUME Tutoring PROVE TutorInv' /\ UNCHANGED <<prVars, progressVars>>
    <2>1. ASSUME NEW s \in StudySession, CreateTutor(s) \/ EndTutor(s)
          PROVE  TutorInv' /\ UNCHANGED <<prVars, progressVars>>
      BY <2>1 DEF CreateTutor, EndTutor, TutorInv, ExistingResponse
    <2>2. ASSUME NEW s \in StudySession, NEW key \in EventKey, AppendTutorEvent(s, key)
          PROVE  TutorInv' /\ UNCHANGED <<prVars, progressVars>>
      BY <2>2, AppendTutorEventStep DEF AppendTutorEvent
    <2>3. ASSUME NEW s \in StudySession, NEW m \in MessageKey, NEW reply \in Reply,
                 SendTutorMessage(s, m, reply)
          PROVE  TutorInv' /\ UNCHANGED <<prVars, progressVars>>
      BY <2>3, SendTutorMessageStep DEF SendTutorMessage
    <2> QED
      BY <1>5, <2>1, <2>2, <2>3 DEF Tutoring
  <1>6. ASSUME Progressing PROVE ProgressInv' /\ UNCHANGED <<prVars, tutorVars>>
    <2>1. ASSUME NEW p \in Problem, GetProgress(p)
          PROVE  ProgressInv' /\ UNCHANGED <<prVars, tutorVars>>
      BY <2>1, GetProgressStep DEF GetProgress
    <2>2. ASSUME NEW p \in Problem, NEW on \in BOOLEAN, PatchProgress(p, on)
          PROVE  ProgressInv' /\ UNCHANGED <<prVars, tutorVars>>
      BY <2>2, PatchProgressStep DEF PatchProgress
    <2>3. ASSUME NEW p \in Problem, NEW type \in ActivityType, NEW key \in ActivityKey \cup {NoStudy},
                 RecordActivity(p, type, key)
          PROVE  ProgressInv' /\ UNCHANGED <<prVars, tutorVars>>
      BY <2>3, RecordActivityStep DEF RecordActivity
    <2> QED
      BY <1>6, <2>1, <2>2, <2>3 DEF Progressing
  <1>7. ASSUME Engaging PROVE UNCHANGED <<prVars, tutorVars, progressVars>>
    BY <1>7 DEF Engaging, Bookmark, WriteNote, DeleteNote
  <1>8. ASSUME UNCHANGED studyVars PROVE UNCHANGED <<prVars, tutorVars, progressVars>>
    BY <1>8 DEF studyVars, prVars, tutorVars, progressVars
  <1> QED
    BY <1>1, <1>2, <1>3, <1>4, <1>5, <1>6, <1>7, <1>8

\* A problem's progress is what its recorded events say and no request makes up
\* the outcome of a run or a submission, a submitted review's grade is that of
\* its comments and catches every finding some comment is near, and a tutor's
\* stored answer has its question, after any sequence of requests and retries
\* (knowledge_activity_owner_insert, _apply_event_projection, grade_review,
\* send_tutor_message).
THEOREM RecordsAgree == StudySpec => []StudyRecordsAgree
  <1> DEFINE Inv == ReviewInv /\ TutorInv /\ ProgressInv
  <1>1. StudyInit => Inv
    BY StudyStart
  <1>2. Inv /\ [ReviewPractice \/ Tutoring \/ Progressing \/ Engaging]_studyVars => Inv'
    BY StudyStep
  <1>3. Inv => StudyRecordsAgree
    <2> SUFFICES ASSUME Inv PROVE StudyRecordsAgree
      OBVIOUS
    <2>1. ASSUME NEW s \in StudySession, prReview[s].status = "submitted"
          PROVE  /\ prReview[s].grade = GradeReview(comments[s], prReview[s].verdict)
                 /\ prReview[s].grade.caught =
                       {n \in DOMAIN Finding : \E i \in DOMAIN comments[s] :
                           comments[s][i].file = Finding[n].file
                           /\ Distance(comments[s][i], Finding[n]) <= 1}
      <3>1. comments[s] \in Seq(Comment) /\ prReview[s].grade = GradeReview(comments[s], prReview[s].verdict)
        BY <2>1 DEF ReviewInv
      <3> QED
        BY <3>1, GradeCatches
    <2>2. ASSUME NEW p \in Problem
          PROVE  /\ progress[p].views = RecordedEvents(p, {"problem_viewed"})
                 /\ progress[p].status = "attempted" <=>
                       RecordedEvents(p, {"session_started", "draft_saved"}) > 0
                 /\ progress[p].status \notin {"solved", "failed"}
                 /\ progress[p].attempts = 0 /\ progress[p].solved = 0 /\ progress[p].failed = 0
      <3>1. Tells(progress[p], activity, p)
        BY DEF ProgressInv
      <3>2. \A types : RecordedEvents(p, types) = Cardinality(EventsOf(activity, p, types))
        BY DEF RecordedEvents, EventsOf
      <3> QED
        BY <3>1, <3>2 DEF Tells
    <2>3. /\ \A m, n \in DOMAIN activity :
                activity[m].key = activity[n].key /\ activity[m].key # NoStudy => m = n
          /\ \A s \in StudySession, m \in MessageKey :
                ExistingResponse(s, m) => said[s][<<m, "user">>] # NoStudy
      BY DEF ProgressInv, TutorInv
    <2> QED
      BY <2>1, <2>2, <2>3 DEF StudyRecordsAgree
  <1> QED
    BY <1>1, <1>2, <1>3, PTL DEF StudySpec
=============================================================================

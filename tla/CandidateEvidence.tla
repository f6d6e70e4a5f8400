-------------------------- MODULE CandidateEvidence --------------------------
(***************************************************************************)
(* The evidence of a candidate's competencies and the mastery calculated   *)
(* from it.  A graded submission (submissions.py _write_evidence and, on   *)
(* the asynchronous path, attachment_progress_patch.py _write_progress)    *)
(* and a completed mock interview (mock_interview_routes.py                *)
(* _write_mastery) each insert one evidence row per competency, aggregate  *)
(* all rows of the competency and upsert its mastery row, all in the       *)
(* transaction that records the grade or the report.                       *)
(*                                                                         *)
(* Transactions are READ COMMITTED: an aggregate sees what is committed    *)
(* and what its own transaction inserted.  The mastery row stays locked    *)
(* from its upsert to the end of the transaction; the evidence rows lock   *)
(* nothing.  A mastery row is the set of evidence it was calculated from.  *)
(***************************************************************************)
EXTENDS FiniteSets

CONSTANTS
    Source,         \* graded submissions and completed interviews of one candidate
    ApiSource,      \* those the API records: interviews and synchronous submissions
    Competency,     \* competencies
    Measures,       \* Measures[s]: the competencies source s is evidence of
    Writer,         \* database sessions: API threads and controllers
    NoEvidence        \* no source

ASSUME EvidenceAssumption ==
    /\ NoEvidence \notin Source /\ ApiSource \subseteq Source
    /\ \A s \in Source : Measures[s] \subseteq Competency

VARIABLES
    evidence,   \* committed candidate_competency_evidence: sources per competency
    mastery,    \* committed candidate_competency_mastery: the evidence it counts
    tx,         \* open transactions: source, competencies left, aggregate read, rows written
    overlapped  \* sources whose transactions ran beside the last writer of a mastery row

evidenceVars == <<evidence, mastery, tx, overlapped>>

NoAggregate == [of |-> NoEvidence, counts |-> {}]
Closed == [source |-> NoEvidence, left |-> {}, aggregate |-> NoAggregate, wrote |-> {}, met |-> {}]

EvidenceInit ==
    /\ evidence = [c \in Competency |-> {}]
    /\ mastery = [c \in Competency |-> {}]
    /\ tx = [w \in Writer |-> Closed]
    /\ overlapped = [c \in Competency |-> {}]

Recorded(s) == \E c \in Competency : s \in evidence[c]
Open == {tx[w].source : w \in Writer} \ {NoEvidence}

(* A source is evidence once: the submission's key and its execution row   *)
(* lock, _write_progress's look for existing rows and the interview's row  *)
(* lock keep a second transaction for it out.  The API's transactions lock *)
(* the candidate's users row, so they follow one another; a controller's   *)
(* do not.                                                                 *)
RecordStart(w, s) ==
    /\ tx[w] = Closed
    /\ ~Recorded(s) /\ s \notin Open
    /\ s \in ApiSource => Open \cap ApiSource = {}
    /\ tx' = [v \in Writer |->
                IF v = w THEN [Closed EXCEPT !.source = s, !.left = Measures[s], !.met = Open]
                ELSE IF tx[v] # Closed THEN [tx[v] EXCEPT !.met = @ \cup {s}]
                ELSE tx[v]]
    /\ UNCHANGED <<evidence, mastery, overlapped>>

(* Mutant: the aggregate comes before the insert.                       *)
AggregateBeforeInsert(w, c) == evidence[c]

(* What the aggregate of competency c counts for the transaction of w,     *)
(* whose own row is already inserted.                                      *)
Aggregate(w, c) == evidence[c] \cup {tx[w].source}

(* The insert and the aggregate of one competency, in any order of them.   *)
EvidenceAggregate(w, c) ==
    /\ tx[w].aggregate = NoAggregate /\ c \in tx[w].left
    /\ tx' = [tx EXCEPT ![w].aggregate = [of |-> c, counts |-> Aggregate(w, c)],
                        ![w].left = @ \ {c}]
    /\ UNCHANGED <<evidence, mastery, overlapped>>

RowFree(w, c) == \A v \in Writer \ {w} : ~\E r \in tx[v].wrote : r.of = c

(* The upsert of the mastery row, which waits for its lock.                *)
MasteryUpsert(w) ==
    /\ tx[w].aggregate # NoAggregate
    /\ RowFree(w, tx[w].aggregate.of)
    /\ tx' = [tx EXCEPT ![w].wrote = @ \cup {tx[w].aggregate}, ![w].aggregate = NoAggregate]
    /\ UNCHANGED <<evidence, mastery, overlapped>>

RecordCommit(w) ==
    LET s == tx[w].source
        Wrote(c) == \E r \in tx[w].wrote : r.of = c
        Row(c) == CHOOSE r \in tx[w].wrote : r.of = c
    IN
    /\ s # NoEvidence /\ tx[w].left = {} /\ tx[w].aggregate = NoAggregate
    /\ evidence' = [c \in Competency |-> IF Wrote(c) THEN evidence[c] \cup {s} ELSE evidence[c]]
    /\ mastery' = [c \in Competency |-> IF Wrote(c) THEN Row(c).counts ELSE mastery[c]]
    /\ overlapped' = [c \in Competency |-> IF Wrote(c) THEN tx[w].met ELSE overlapped[c]]
    /\ tx' = [tx EXCEPT ![w] = Closed]

(* A crash, or the deadlock of two transactions that lock their mastery    *)
(* rows in opposite orders; the caller may try the source again.           *)
RecordAborts(w) ==
    /\ tx[w] # Closed
    /\ tx' = [tx EXCEPT ![w] = Closed]
    /\ UNCHANGED <<evidence, mastery, overlapped>>

EvidenceNext ==
    \E w \in Writer :
        \/ \E s \in Source : RecordStart(w, s)
        \/ \E c \in Competency : EvidenceAggregate(w, c)
        \/ MasteryUpsert(w)
        \/ RecordCommit(w)
        \/ RecordAborts(w)

EvidenceSpec == EvidenceInit /\ [][EvidenceNext]_evidenceVars

-----------------------------------------------------------------------------
(* Correctness.                                                            *)

(* A mastery row counts only recorded evidence, and all of it but what was *)
(* recorded by a transaction that ran beside the row's last writer: with   *)
(* writers one after another no evidence is ever left out of a candidate's *)
(* readiness (_write_evidence, _write_progress, _write_mastery).           *)
OnlyOverlapIsMissed ==
    \A c \in Competency :
        /\ mastery[c] \subseteq evidence[c]
        /\ evidence[c] \ mastery[c] \subseteq overlapped[c]
=============================================================================

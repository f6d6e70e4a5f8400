--------------------------- MODULE ContentReview ---------------------------
(***************************************************************************)
(* The life of the versions of one question: the review workflow           *)
(* (reviews.py), the synchroniser that copies Git packages into the        *)
(* database and its rollback (content_sync.py), the launch bootstrap       *)
(* (publish_production_launch_catalog.py), the local catalogue script      *)
(* (publish_local_catalog.py) and the attachment importer                  *)
(* (sync_attachment_question_bank.py).  They all write question_versions   *)
(* and questions.current_published_version_id.                             *)
(*                                                                         *)
(* A version is identified by its version string; its content is its hash. *)
(* reviews.py locks the version row and touches the questions row only at  *)
(* the end; the synchronisers upsert the questions row first, read the     *)
(* version WITHOUT a lock and write it later in the same transaction.      *)
(* `syncing' is that open transaction: it holds the questions row, not the *)
(* version.  Two transactions that take the rows in opposite orders are a  *)
(* deadlock PostgreSQL resolves by failing one of them.                    *)
(*                                                                         *)
(* Every writer of a version inserts a passed validation run with it, so   *)
(* the reviewers' validation guard is always met and is left out.          *)
(***************************************************************************)
EXTENDS Naturals, Sequences, FiniteSets

CONSTANTS
    Version,      \* versions the question may have
    Attachment,   \* those written by the attachment importer
    Package,      \* content hashes of packages in the Git tree
    Imported,     \* content hashes of uploaded packages
    Reviewer,     \* users who can sign in
    PackageAuthor,   \* a user "content-author:<id>", made for a package
    ImportActor,  \* the user the attachment importer makes for itself
    HasRole,      \* HasRole[k]: users with the role "<k>-reviewer"
    PublishKey,   \* idempotency keys of publish requests
    LocalVersion, LocalTechnical, LocalEditorial, LocalKey,   \* of the local script
    Nobody,       \* no reviewer, no version, no import
    MaxSyncs,     \* bound on contents written by synchronisers
    MaxAssigns    \* bound on (re)assignments

Content == Package \cup Imported
Kinds == {"technical", "editorial"}
OtherKind(k) == CHOOSE o \in Kinds : o # k

ASSUME ContentAssumption ==
    /\ Attachment \cup LocalVersion \subseteq Version
    /\ Package \cap Imported = {}
    /\ HasRole \in [Kinds -> SUBSET Reviewer]
    /\ {PackageAuthor, ImportActor} \cap Reviewer = {}
    /\ Nobody \notin Version \cup Reviewer \cup Content

VARIABLES
    version,    \* question_versions: state, content_hash, source_revision;
                \* author_id of the version's provenance_records row
    review,     \* review_assignments and the latest review_decisions row of each
    events,     \* publication_events
    current,    \* questions.current_published_version_id
    syncing,    \* the open transaction of a synchroniser
    script,     \* calls the local catalogue script has left
    syncs,      \* contents written so far
    assigns     \* assignments so far

reviewVars == <<version, review, events, current, syncing, script, syncs, assigns>>

Absent == [state |-> "absent", hash |-> Nobody, source |-> Nobody, author |-> Nobody]
Exists(v) == version[v] # Absent
NoReview == [reviewer |-> Nobody, completed |-> FALSE, outcome |-> "none", by |-> Nobody, of |-> Nobody]
NotSyncing == [v |-> Nobody, hash |-> Nobody, state |-> "none", fresh |-> FALSE]
(* Mutant: the questions row is not locked.                             *)
QuestionUnlocked == TRUE
(* No synchroniser holds the questions row.                                *)
QuestionFree == syncing = NotSyncing

(* A behaviour may begin with a part of its budgets spent.                 *)
ReviewInit ==
    /\ version = [v \in Version |-> Absent]
    /\ review = [v \in Version |-> [k \in Kinds |-> NoReview]]
    /\ events = {} /\ current = Nobody /\ syncing = NotSyncing /\ script = <<>>
    /\ syncs \in 0..MaxSyncs /\ assigns \in 0..MaxAssigns

SetState(v, s) == [version EXCEPT ![v].state = s]
(* _author_subject: the user the provenance record names.                  *)
Author(v) == version[v].author

-----------------------------------------------------------------------------
(* reviews.py.                                                             *)

(* Mutant: the upsert leaves completed_at alone.                        *)
AssignKeepingCompleted(v, k, r) ==
    [review EXCEPT ![v][k].reviewer = r]

(* The upsert keeps the row, hence the decisions that point to it.         *)
Assigned(v, k, r) ==
    LET row == review[v][k] IN
    [review EXCEPT ![v][k] = [row EXCEPT !.reviewer = r, !.completed = FALSE]]

(* ReviewRepository.assign, in any state of the version.                   *)
Assign(v, k, r) ==
    /\ Exists(v) /\ assigns < MaxAssigns
    /\ r \in HasRole[k] /\ r # Author(v) /\ r # review[v][OtherKind(k)].reviewer
    /\ review' = Assigned(v, k, r)
    /\ assigns' = assigns + 1
    /\ UNCHANGED <<version, events, current, syncing, syncs>>

CanDecide(v, k, r) ==
    /\ Exists(v) /\ review[v][k].reviewer = r /\ r # Nobody /\ r # Author(v)
    /\ k = "technical" => version[v].state = "awaiting_technical_review"
    /\ k = "editorial" => /\ version[v].state = "awaiting_editorial_review"
                          /\ review[v]["technical"].completed
                          /\ review[v]["technical"].reviewer # r

(* ReviewRepository.decide: a decision is appended, the version moves on.  *)
Decide(v, k, r, outcome) ==
    /\ CanDecide(v, k, r)
    /\ review' = [review EXCEPT ![v][k] = [reviewer |-> r, completed |-> TRUE, outcome |-> outcome,
                                           by |-> r, of |-> version[v].hash]]
    /\ version' = SetState(v, IF outcome # "approved" THEN "draft"
                              ELSE IF k = "technical" THEN "awaiting_editorial_review" ELSE "approved")
    /\ UNCHANGED <<events, current, syncing, syncs, assigns>>

(* ReviewRepository.publish; a key that was used answers without a write.  *)
Publish(v, key) ==
    /\ Exists(v) /\ QuestionFree
    /\ ~\E e \in events : e.key = <<"request", key>>
    /\ version[v].state = "approved"
    /\ \A k \in Kinds : review[v][k].outcome = "approved"
    /\ review[v]["technical"].reviewer # review[v]["editorial"].reviewer
    /\ events' = events \cup {[key |-> <<"request", key>>, version |-> v, hash |-> version[v].hash]}
    /\ version' = SetState(v, "published")
    /\ current' = v
    /\ UNCHANGED <<review, syncing, syncs, assigns>>

(* Mutant: the served version is not withdrawn.                         *)
TransitionKeepingPointer(v, target) ==
    /\ Exists(v)
    /\ target = "deprecated" => version[v].state = "published"
    /\ target = "archived" => version[v].state # "published"
    /\ current = v => QuestionFree
    /\ version' = SetState(v, target)
    /\ UNCHANGED <<review, events, current, syncing, syncs, assigns>>

(* ReviewRepository.transition: an administrator deprecates or archives.   *)
ReviewTransition(v, target) ==
    /\ Exists(v)
    /\ target = "deprecated" => version[v].state = "published"
    /\ target = "archived" => version[v].state # "published"
    /\ current = v => QuestionFree
    /\ version' = SetState(v, target)
    /\ current' = IF current = v THEN Nobody ELSE current
    /\ UNCHANGED <<review, events, syncing, syncs, assigns>>

-----------------------------------------------------------------------------
(* The synchronisers.                                                      *)

(* ContentSynchronizer._synchronize_package up to its decision to write:   *)
(* the questions row is taken by the upsert, the version only read.  An    *)
(* equal hash and an approved or published version end the transaction.    *)
SyncRead(v, h) ==
    /\ v \notin Attachment /\ QuestionFree /\ syncs < MaxSyncs
    /\ version[v].hash # h /\ version[v].state \notin {"approved", "published"}
    /\ syncing' = [v |-> v, hash |-> h, state |-> "awaiting_technical_review", fresh |-> ~Exists(v)]
    /\ UNCHANGED <<version, review, events, current, syncs, assigns>>

(* upsert_one of the attachment importer, the same way.                    *)
AttachmentRead(v, h, publish) ==
    /\ v \in Attachment /\ QuestionFree /\ syncs < MaxSyncs
    /\ version[v].hash # h /\ version[v].state \notin {"approved", "published"}
    /\ syncing' = [v |-> v, hash |-> h, fresh |-> ~Exists(v),
                   state |-> IF publish THEN "published" ELSE "awaiting_technical_review"]
    /\ UNCHANGED <<version, review, events, current, syncs, assigns>>

(* _replace_sidecars and ensure_import_actor name a user of their own, and *)
(* no longer the person who may have uploaded the version before.          *)
SyncAuthor(v) == IF v \in Attachment THEN ImportActor ELSE PackageAuthor

(* The version as its writer leaves it: the content and its author change, *)
(* assignments and decisions stay.                                         *)
Synced(w) == [state |-> w.state, hash |-> w.hash, source |-> "git", author |-> SyncAuthor(w.v)]

(* _upsert_version and _replace_sidecars.  A version deleted since the     *)
(* read violates a foreign key (SyncAborts).                               *)
PackageWrite ==
    LET w == syncing IN
    /\ w # NotSyncing /\ w.v \notin Attachment
    /\ w.fresh \/ Exists(w.v)
    /\ version' = [version EXCEPT ![w.v] = Synced(w)]
    /\ syncing' = NotSyncing /\ syncs' = syncs + 1
    /\ UNCHANGED <<review, events, current, assigns>>

(* The versions once w.v is published: the one before it is deprecated.    *)
Superseded(w) ==
    [u \in Version |-> IF u = w.v THEN Synced(w)
                       ELSE IF w.state = "published" /\ u = current
                       THEN [version[u] EXCEPT !.state = "deprecated"] ELSE version[u]]

(* The rest of upsert_one.                                                 *)
AttachmentWrite ==
    LET w == syncing IN
    /\ w # NotSyncing /\ w.v \in Attachment
    /\ w.fresh \/ Exists(w.v)
    /\ version' = Superseded(w)
    /\ current' = IF w.state = "published" THEN w.v ELSE current
    /\ syncing' = NotSyncing /\ syncs' = syncs + 1
    /\ UNCHANGED <<review, events, assigns>>

(* The transaction fails: a crash, a foreign key, or the victim of a deadlock. *)
SyncAborts ==
    /\ syncing # NotSyncing
    /\ syncing' = NotSyncing
    /\ UNCHANGED <<version, review, events, current, syncs, assigns>>

(* upsert_one finds the same hash and was asked to publish: whatever its   *)
(* state, the version is published; the current one is not deprecated.     *)
AttachmentPublish(v) ==
    /\ v \in Attachment /\ QuestionFree
    /\ Exists(v) /\ version[v].state # "published"
    /\ version' = SetState(v, "published")
    /\ current' = v
    /\ UNCHANGED <<review, events, syncing, syncs, assigns>>

(* ContentSynchronizer.rollback to a version that has a publication event, *)
(* whatever its state and content are now.                                 *)
RollbackTo(v) ==
    /\ QuestionFree /\ Exists(v)
    /\ \E e \in events : e.version = v
    /\ current # v
    /\ version' = [u \in Version |->
                     IF u = v THEN [version[u] EXCEPT !.state = "published"]
                     ELSE IF u = current THEN [version[u] EXCEPT !.state = "deprecated"]
                     ELSE version[u]]
    /\ current' = v
    /\ UNCHANGED <<review, events, syncing, syncs, assigns>>

(* publish_launch_set for this question and the package h of the tree; a   *)
(* version that is published already, and every error, changes nothing.    *)
LaunchAllowed(v, h) ==
    /\ Exists(v) /\ version[v].hash = h /\ h \in Package
    /\ version[v].state = "awaiting_technical_review"
    /\ current \in {v, Nobody}

LaunchBootstrap(v, h) ==
    /\ v \notin Attachment /\ QuestionFree
    /\ LaunchAllowed(v, h)
    /\ events' = events \cup {[key |-> <<"launch", v, h>>, version |-> v, hash |-> h]}
    /\ version' = SetState(v, "published")
    /\ current' = v
    /\ UNCHANGED <<review, syncing, syncs, assigns>>

-----------------------------------------------------------------------------
(* publish_local_catalog.py: the calls it makes for a version, chosen from *)
(* the state it read once, with two fixed reviewers and a fixed key.       *)

LocalCalls(state) ==
    LET editorial == <<"assign editorial", "decide editorial", "publish">>
    IN  CASE state = "awaiting_technical_review" ->
                <<"assign technical", "assign editorial", "decide technical">> \o editorial
          [] state = "awaiting_editorial_review" -> editorial
          [] state = "approved" -> <<"publish">>
          [] OTHER -> <<>>

LocalCall(v, step) ==
    CASE step = "assign technical" -> Assign(v, "technical", LocalTechnical)
      [] step = "assign editorial" -> Assign(v, "editorial", LocalEditorial)
      [] step = "decide technical" -> Decide(v, "technical", LocalTechnical, "approved")
      [] step = "decide editorial" -> Decide(v, "editorial", LocalEditorial, "approved")
      [] step = "publish" -> Publish(v, LocalKey)

LocalStart(v) ==
    /\ script = <<>> /\ Exists(v)
    /\ script' = LocalCalls(version[v].state)
    /\ UNCHANGED <<version, review, events, current, syncing, syncs, assigns>>

LocalStep(v) ==
    /\ script # <<>>
    /\ LocalCall(v, Head(script))
    /\ script' = Tail(script)

(* A refused call raises and ends the script; a key that was used before   *)
(* is answered "already published".                                        *)
LocalStops ==
    /\ script # <<>>
    /\ script' = <<>>
    /\ UNCHANGED <<version, review, events, current, syncing, syncs, assigns>>

(* What people and operators do to version v; the script is busy with the  *)
(* version LocalVersion.                                                   *)
ReviewNext ==
    \/ \E v \in Version :
         \/ /\ UNCHANGED script
            /\ \/ \E k \in Kinds, r \in Reviewer :
                    Assign(v, k, r) \/ \E o \in {"approved", "rejected"} : Decide(v, k, r, o)
               \/ \E key \in PublishKey : Publish(v, key)
               \/ \E t \in {"deprecated", "archived"} : ReviewTransition(v, t)
               \/ \E h \in Package : SyncRead(v, h) \/ LaunchBootstrap(v, h)
               \/ \E h \in Package, p \in BOOLEAN : AttachmentRead(v, h, p)
               \/ AttachmentPublish(v)
               \/ RollbackTo(v)
    \/ UNCHANGED script /\ (PackageWrite \/ AttachmentWrite \/ SyncAborts)
    \/ \E v \in LocalVersion : LocalStart(v) \/ LocalStep(v)
    \/ LocalStops

-----------------------------------------------------------------------------
(* Correctness.                                                            *)

(* The version candidates are served, questions.current_published_version_id, *)
(* is in state published: no deprecation, archival, synchronisation,       *)
(* rollback or bootstrap, however interleaved, leaves the pointer behind.  *)
CurrentIsPublished == current # Nobody => version[current].state = "published"

(* Technical and editorial approval require different users (assign and    *)
(* decide): an approved version carries two decisions on the content it    *)
(* has now, by two people, whatever was reassigned or synchronised in      *)
(* between.  That neither is its author is not stated: the author on       *)
(* record of a version that can be approved is a user of a synchroniser.   *)
ApprovedByTwo ==
    \A v \in Version : version[v].state = "approved" =>
        /\ \A k \in Kinds : /\ review[v][k].outcome = "approved"
                            /\ review[v][k].of = version[v].hash
                            /\ review[v][k].by # Nobody
        /\ review[v]["technical"].by # review[v]["editorial"].by

(* A published version keeps its content (_synchronize_package refuses to  *)
(* change it): the decision to write was read without a lock, and only the *)
(* order in which the rows are taken keeps a publication out of the gap.   *)
PublishedIsImmutable ==
    [][\A v \in Version : version[v].state = "published" /\ Exists(v)' =>
          version'[v].hash = version[v].hash]_reviewVars
=============================================================================

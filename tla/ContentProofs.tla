--------------------------- MODULE ContentProofs ---------------------------
(***************************************************************************)
(* Proofs about ContentReview and ContentImport together, for every set of *)
(* versions, packages, reviewers, uploads and imports and every number of  *)
(* synchronisations and assignments.                                       *)
(***************************************************************************)
EXTENDS ContentImport, TLAPS

-----------------------------------------------------------------------------
(* The inductive invariant.                                                *)

VersionStates == {"absent", "generated", "draft", "awaiting_technical_review",
                  "awaiting_editorial_review", "approved", "published", "deprecated", "archived"}
People == Reviewer \cup {Nobody}
Versions == [state : VersionStates, hash : Content \cup {Nobody}, source : Import \cup {Nobody, "git"},
             author : People \cup {PackageAuthor, ImportActor}]
Reviews == [reviewer : People, completed : BOOLEAN, outcome : {"none", "approved", "rejected"},
            by : People, of : Content \cup {Nobody}]
LocalSteps == {"assign technical", "assign editorial", "decide technical", "decide editorial", "publish"}

ReviewTypeOK ==
    /\ version \in [Version -> Versions]
    /\ review \in [Version -> [Kinds -> Reviews]]
    /\ current \in Version \cup {Nobody}
    /\ script \in Seq(LocalSteps)

(* The version a synchroniser is about to write was not published when it  *)
(* read it and is not published now; it writes no approval.                *)
SyncInv ==
    syncing # NotSyncing =>
        /\ syncing.v \in Version
        /\ syncing.hash \in Content
        /\ syncing.state \in {"awaiting_technical_review", "published"}
        /\ version[syncing.v].state # "published"

(* A completed assignment is completed by the reviewer it names, and a     *)
(* version that awaits its editor has its technical approval, on the       *)
(* content it has.                                                         *)
ApprovedOn(v, k) ==
    /\ review[v][k].outcome = "approved"
    /\ review[v][k].of = version[v].hash
    /\ review[v][k].by # Nobody
DecisionOK(v) ==
    /\ \A k \in Kinds : review[v][k].completed => review[v][k].by = review[v][k].reviewer
    /\ version[v].state \in {"awaiting_editorial_review", "approved"} => ApprovedOn(v, "technical")
    /\ version[v].state = "approved" =>
          /\ ApprovedOn(v, "editorial")
          /\ review[v]["technical"].by # review[v]["editorial"].by
DecisionInv == \A v \in Version : DecisionOK(v)

ReviewInv == ReviewTypeOK /\ SyncInv /\ CurrentIsPublished /\ DecisionInv

(* A version an import has created is in its report or about to be, unless *)
(* the import has stopped; only a finished import can be rolled back.      *)
Item == [status : {"accepted", "warning", "draft", "rejected", "rolled_back"},
         version : Version \cup {Elsewhere, Nobody}]
Imports == [status : {"none", "processing", "failed", "completed_with_warnings", "completed", "rolled_back"},
            upload : Upload \cup {NoUpload}, pc : {"idle", "record", "persist", "stopped", "done"},
            created : Version \cup {Elsewhere, Nobody}, items : Seq(Item),
            available : BOOLEAN, traced : BOOLEAN]

ReportedBy(i, v) ==
    \/ imports[i].pc = "stopped"
    \/ imports[i].pc = "persist" /\ imports[i].created = v
    \/ \E j \in DOMAIN imports[i].items : imports[i].items[j].version = v
ImportOK(i) ==
    /\ imports[i].status \in {"rolled_back"} \/ imports[i].available => imports[i].pc = "done"
    /\ imports[i].pc = "idle" => \A v \in Version : version[v].source # i
    /\ \A v \in Version : version[v].source = i => ReportedBy(i, v)
ImportInv ==
    /\ imports \in [Import -> Imports]
    /\ \A i \in Import : ImportOK(i)
    /\ RolledBackLeavesNothing

ContentInv == ReviewInv /\ ImportInv

-----------------------------------------------------------------------------
(* The steps of reviewers, operators and synchronisers.                    *)

\* What is shown of each of them: the invariant, that a published version
\* keeps its content, and that no version becomes one of an import's.
Immutable ==
    \A v \in Version : version[v].state = "published" /\ Exists(v)' => version'[v].hash = version[v].hash
ReviewEffect ==
    /\ ReviewInv' /\ Immutable
    /\ \A v \in Version : version'[v].source = version[v].source \/ version'[v].source = "git"

\* Only the state of a version changes.
LEMMA StateEffect ==
    ASSUME ReviewTypeOK, NEW v \in Version, NEW s \in VersionStates, version' = SetState(v, s)
    PROVE  /\ version' \in [Version -> Versions]
           /\ version'[v].state = s
           /\ version'[v].hash = version[v].hash /\ version'[v].source = version[v].source
           /\ \A u \in Version : u # v => version'[u] = version[u]
  <1>1. version[v] \in Versions
    BY DEF ReviewTypeOK
  <1>2. version' = [version EXCEPT ![v] = [version[v] EXCEPT !.state = s]]
    BY DEF SetState
  <1>3. /\ [version[v] EXCEPT !.state = s] \in Versions
        /\ [version[v] EXCEPT !.state = s].state = s
        /\ [version[v] EXCEPT !.state = s].hash = version[v].hash
        /\ [version[v] EXCEPT !.state = s].source = version[v].source
    BY <1>1 DEF Versions
  <1> QED
    BY <1>2, <1>3 DEF ReviewTypeOK

\* Nothing is written.
LEMMA NothingWritten ==
    ASSUME ReviewInv, UNCHANGED <<version, review, current>>, SyncInv', script' \in Seq(LocalSteps)
    PROVE  ReviewEffect
  BY DEF ReviewInv, ReviewTypeOK, CurrentIsPublished, DecisionInv, DecisionOK, ApprovedOn,
         ReviewEffect, Immutable

\* ReviewRepository.assign.
LEMMA AssignStep ==
    ASSUME ReviewInv, NEW v \in Version, NEW k \in Kinds, NEW r, Assign(v, k, r),
           script' \in Seq(LocalSteps)
    PROVE  ReviewEffect
  <1> USE DEF ReviewInv
  <1> DEFINE row == [review[v][k] EXCEPT !.reviewer = r, !.completed = FALSE]
  <1>1. review[v] \in [Kinds -> Reviews] /\ review[v][k] \in Reviews
    BY DEF ReviewTypeOK
  <1>2. r \in People
    BY ContentAssumption DEF Assign, People
  <1>3. /\ row \in Reviews /\ ~row.completed
        /\ row.outcome = review[v][k].outcome /\ row.by = review[v][k].by /\ row.of = review[v][k].of
    BY <1>1, <1>2 DEF Reviews
  <1>4. review' = [review EXCEPT ![v] = [review[v] EXCEPT ![k] = row]]
    BY DEF Assign, Assigned
  <1>5. UNCHANGED <<version, current, syncing>>
    BY DEF Assign
  <1> HIDE DEF row
  <1>6. review' \in [Version -> [Kinds -> Reviews]]
    BY <1>1, <1>3, <1>4 DEF ReviewTypeOK
  <1>7. ASSUME NEW u \in Version, NEW j \in Kinds
        PROVE  /\ review'[u][j].outcome = review[u][j].outcome
               /\ review'[u][j].by = review[u][j].by
               /\ review'[u][j].of = review[u][j].of
               /\ review'[u][j].completed => review[u][j].completed
                                             /\ review'[u][j].reviewer = review[u][j].reviewer
    <2>1. CASE u = v /\ j = k
      <3>1. review'[u][j] = row
        BY <2>1, <1>1, <1>4 DEF ReviewTypeOK
      <3> QED
        BY <2>1, <3>1, <1>3
    <2>2. CASE ~(u = v /\ j = k)
      <3>1. review'[u][j] = review[u][j]
        BY <2>2, <1>1, <1>4 DEF ReviewTypeOK
      <3> QED
        BY <3>1
    <2> QED
      BY <2>1, <2>2
  <1>8. DecisionInv'
    <2>1. ASSUME NEW u \in Version PROVE DecisionOK(u)'
      BY <1>5, <1>7 DEF DecisionInv, DecisionOK, ApprovedOn, Kinds
    <2> QED
      BY <2>1 DEF DecisionInv
  <1> QED
    BY <1>5, <1>6, <1>8 DEF ReviewTypeOK, SyncInv, CurrentIsPublished, ReviewEffect, Immutable

\* ReviewRepository.decide: neither the served version nor one a synchroniser
\* found published is decided on.
LEMMA DecideStep ==
    ASSUME ReviewInv, NEW v \in Version, NEW k \in Kinds, NEW r, NEW o \in {"approved", "rejected"},
           Decide(v, k, r, o), script' \in Seq(LocalSteps)
    PROVE  ReviewEffect
  <1> USE DEF ReviewInv
  <1> DEFINE s == IF o # "approved" THEN "draft"
                  ELSE IF k = "technical" THEN "awaiting_editorial_review" ELSE "approved"
             row == [reviewer |-> r, completed |-> TRUE, outcome |-> o, by |-> r, of |-> version[v].hash]
  <1>1. /\ review[v][k].reviewer = r /\ r # Nobody
        /\ k = "technical" => version[v].state = "awaiting_technical_review"
        /\ k = "editorial" => /\ version[v].state = "awaiting_editorial_review"
                              /\ review[v]["technical"].completed /\ review[v]["technical"].reviewer # r
    BY DEF Decide, CanDecide
  <1>2. version' = SetState(v, s) /\ review' = [review EXCEPT ![v][k] = row] /\ UNCHANGED <<current, syncing>>
    BY DEF Decide
  <1>3. row \in Reviews
    <2>1. review[v][k] \in Reviews /\ version[v] \in Versions
      BY DEF ReviewTypeOK
    <2>2. r \in People /\ version[v].hash \in Content \cup {Nobody}
      BY <1>1, <2>1 DEF Reviews, Versions
    <2> QED
      BY <2>2 DEF Reviews
  <1>4. review' \in [Version -> [Kinds -> Reviews]]
    BY <1>2, <1>3 DEF ReviewTypeOK
  <1>5. review'[v][k] = row /\ \A j \in Kinds : j # k => review'[v][j] = review[v][j]
    BY <1>2 DEF ReviewTypeOK
  <1>6. \A u \in Version : u # v => review'[u] = review[u]
    BY <1>2 DEF ReviewTypeOK
  <1>7. s \in VersionStates /\ s # "published"
    BY DEF VersionStates
  <1>8. /\ version' \in [Version -> Versions] /\ version'[v].state = s
        /\ version'[v].hash = version[v].hash /\ version'[v].source = version[v].source
        /\ \A u \in Version : u # v => version'[u] = version[u]
    BY <1>2, <1>7, StateEffect
  <1>9. version[v].state # "published"
    BY <1>1 DEF Kinds
  <1>10. CurrentIsPublished' /\ SyncInv'
    BY <1>2, <1>7, <1>8, <1>9, ContentAssumption DEF CurrentIsPublished, SyncInv, ReviewTypeOK
  <1>11. ASSUME NEW u \in Version PROVE DecisionOK(u)'
    <2>1. CASE u # v
      BY <2>1, <1>6, <1>8 DEF DecisionInv, DecisionOK, ApprovedOn
    <2>2. CASE u = v /\ k = "technical"
      BY <2>2, <1>1, <1>5, <1>8 DEF DecisionInv, DecisionOK, ApprovedOn, Kinds
    <2>3. CASE u = v /\ k = "editorial"
      BY <2>3, <1>1, <1>5, <1>8 DEF DecisionInv, DecisionOK, ApprovedOn, Kinds
    <2> QED
      BY <2>1, <2>2, <2>3 DEF Kinds
  <1> HIDE DEF s, row
  <1>12. DecisionInv'
    BY <1>11 DEF DecisionInv
  <1>13. Immutable /\ \A u \in Version : version'[u].source = version[u].source
    BY <1>8 DEF Immutable
  <1> QED
    BY <1>2, <1>4, <1>8, <1>10, <1>12, <1>13 DEF ReviewTypeOK, ReviewEffect

\* A step that leaves a version in a state that shows no approval, while no
\* synchroniser has the question or the version is not made the served one.
LEMMA StateStep ==
    ASSUME ReviewInv, NEW v \in Version,
           NEW s \in VersionStates \ {"awaiting_editorial_review", "approved"},
           version' = SetState(v, s), UNCHANGED <<review, syncing>>, script' \in Seq(LocalSteps),
           \/ (current' = v /\ s = "published" /\ QuestionFree)
           \/ (current' \in {current, Nobody} /\ current' # v /\ s # "published")
    PROVE  ReviewEffect
  <1> USE DEF ReviewInv
  <1>1. /\ version' \in [Version -> Versions] /\ version'[v].state = s
        /\ version'[v].hash = version[v].hash /\ version'[v].source = version[v].source
        /\ \A u \in Version : u # v => version'[u] = version[u]
    BY StateEffect
  <1>2. CurrentIsPublished'
    BY <1>1 DEF CurrentIsPublished, ReviewTypeOK
  <1>3. SyncInv'
    BY <1>1 DEF SyncInv, QuestionFree
  <1>4. DecisionInv'
    BY <1>1 DEF DecisionInv, DecisionOK, ApprovedOn
  <1>5. Immutable /\ \A u \in Version : version'[u].source = version[u].source
    BY <1>1 DEF Immutable
  <1> QED
    BY <1>1, <1>2, <1>3, <1>4, <1>5 DEF ReviewTypeOK, ReviewEffect

\* Publishing, deprecating, archiving and the two ways to publish without a
\* review.
LEMMA PublicationStep ==
    ASSUME ReviewInv, NEW v \in Version, script' \in Seq(LocalSteps),
           \/ \E key : Publish(v, key)
           \/ \E t \in {"deprecated", "archived"} : ReviewTransition(v, t)
           \/ \E h : LaunchBootstrap(v, h)
           \/ AttachmentPublish(v)
    PROVE  ReviewEffect
  <1>1. UNCHANGED <<review, syncing>>
    BY DEF Publish, ReviewTransition, LaunchBootstrap, AttachmentPublish
  <1>2. CASE version' = SetState(v, "published") /\ current' = v /\ QuestionFree
    BY <1>1, <1>2, StateStep DEF VersionStates
  <1>3. CASE \E t \in {"deprecated", "archived"} : ReviewTransition(v, t)
    <2>1. PICK t \in {"deprecated", "archived"} :
              version' = SetState(v, t) /\ current' = IF current = v THEN Nobody ELSE current
      BY <1>3 DEF ReviewTransition
    <2>2. current' \in {current, Nobody} /\ current' # v
      BY <2>1, ContentAssumption
    <2>3. t \in VersionStates \ {"awaiting_editorial_review", "approved"} /\ t # "published"
      BY DEF VersionStates
    <2> QED
      BY <1>1, <2>1, <2>2, <2>3, StateStep
  <1> QED
    BY <1>2, <1>3 DEF Publish, LaunchBootstrap, AttachmentPublish

\* What a synchroniser reads is not published, and the questions row it takes
\* keeps it so.
LEMMA ReadStep ==
    ASSUME ReviewInv, NEW v \in Version, NEW h \in Content, script' \in Seq(LocalSteps),
           SyncRead(v, h) \/ \E p \in BOOLEAN : AttachmentRead(v, h, p)
    PROVE  ReviewEffect
  <1>1. UNCHANGED <<version, review, current>>
    BY DEF SyncRead, AttachmentRead
  <1>2. SyncInv'
    BY DEF SyncRead, AttachmentRead, SyncInv
  <1> QED
    BY <1>1, <1>2, NothingWritten

\* What it writes is no published version, and no approval.
LEMMA WriteStep ==
    ASSUME ReviewInv, PackageWrite \/ AttachmentWrite, script' \in Seq(LocalSteps)
    PROVE  ReviewEffect
  <1> USE DEF ReviewInv
  <1>1. PICK w : w = syncing
    OBVIOUS
  <1>2. /\ w.v \in Version /\ w.hash \in Content /\ version[w.v].state # "published"
        /\ w.state \in {"awaiting_technical_review", "published"}
    BY <1>1 DEF PackageWrite, AttachmentWrite, SyncInv
  <1>3. UNCHANGED review /\ syncing' = NotSyncing
    BY DEF PackageWrite, AttachmentWrite
  <1>4. /\ Synced(w) \in Versions /\ Synced(w).state = w.state /\ Synced(w).source = "git"
    BY <1>2 DEF Synced, SyncAuthor, Versions, VersionStates
  <1>5. current # w.v
    BY <1>2, ContentAssumption DEF CurrentIsPublished
  <1>6. /\ version' \in [Version -> Versions] /\ version'[w.v] = Synced(w)
        /\ \A u \in Version : u # w.v =>
              \/ version'[u] = version[u]
              \/ /\ w.state = "published" /\ u = current /\ w.v \in Attachment
                 /\ version'[u].state = "deprecated"
                 /\ version'[u].hash = version[u].hash /\ version'[u].source = version[u].source
    <2>1. CASE PackageWrite
      <3>1. version' = [version EXCEPT ![w.v] = Synced(w)]
        BY <2>1, <1>1 DEF PackageWrite
      <3> QED
        BY <3>1, <1>2, <1>4 DEF ReviewTypeOK
    <2>2. CASE AttachmentWrite
      <3>1. version' = Superseded(w) /\ w.v \in Attachment
        BY <2>2, <1>1 DEF AttachmentWrite
      <3>2. \A u \in Version : /\ [version[u] EXCEPT !.state = "deprecated"] \in Versions
                               /\ [version[u] EXCEPT !.state = "deprecated"].state = "deprecated"
                               /\ [version[u] EXCEPT !.state = "deprecated"].hash = version[u].hash
                               /\ [version[u] EXCEPT !.state = "deprecated"].source = version[u].source
        BY DEF ReviewTypeOK, Versions, VersionStates
      <3> QED
        BY <3>1, <3>2, <1>2, <1>4 DEF Superseded, ReviewTypeOK
    <2> QED
      BY <2>1, <2>2
  <1>7. \/ /\ current' = current
           /\ w.state = "published" => w.v \notin Attachment
        \/ current' = w.v /\ w.state = "published"
    BY <1>1 DEF PackageWrite, AttachmentWrite
  <1>8. ReviewTypeOK' /\ SyncInv'
    BY <1>2, <1>3, <1>6, <1>7 DEF ReviewTypeOK, SyncInv
  <1>9. CurrentIsPublished'
    BY <1>4, <1>5, <1>6, <1>7 DEF CurrentIsPublished, ReviewTypeOK
  <1>10. DecisionInv'
    <2>1. ASSUME NEW u \in Version PROVE DecisionOK(u)'
      BY <1>2, <1>3, <1>4, <1>6 DEF DecisionInv, DecisionOK, ApprovedOn
    <2> QED
      BY <2>1 DEF DecisionInv
  <1>11. Immutable
    BY <1>2, <1>6 DEF Immutable
  <1>12. \A u \in Version : version'[u].source = version[u].source \/ version'[u].source = "git"
    BY <1>4, <1>6
  <1> QED
    BY <1>8, <1>9, <1>10, <1>11, <1>12 DEF ReviewEffect

\* ContentSynchronizer.rollback exchanges the served version.
LEMMA RollbackToStep ==
    ASSUME ReviewInv, NEW v \in Version, RollbackTo(v), script' \in Seq(LocalSteps)
    PROVE  ReviewEffect
  <1> USE DEF ReviewInv
  <1>1. /\ syncing = NotSyncing /\ current # v /\ current' = v /\ UNCHANGED <<review, syncing>>
        /\ version' = [u \in Version |->
                         IF u = v THEN [version[u] EXCEPT !.state = "published"]
                         ELSE IF u = current THEN [version[u] EXCEPT !.state = "deprecated"]
                         ELSE version[u]]
    BY DEF RollbackTo, QuestionFree
  <1>2. \A u \in Version, s \in VersionStates :
            /\ [version[u] EXCEPT !.state = s] \in Versions
            /\ [version[u] EXCEPT !.state = s].state = s
            /\ [version[u] EXCEPT !.state = s].hash = version[u].hash
            /\ [version[u] EXCEPT !.state = s].source = version[u].source
    BY DEF ReviewTypeOK, Versions
  <1>3. /\ version' \in [Version -> Versions] /\ version'[v].state = "published"
        /\ \A u \in Version : /\ version'[u].hash = version[u].hash
                              /\ version'[u].source = version[u].source
                              /\ version'[u] = version[u] \/ version'[u].state \in {"published", "deprecated"}
    <2>1. "published" \in VersionStates /\ "deprecated" \in VersionStates
      BY DEF VersionStates
    <2> QED
      BY <1>1, <1>2, <2>1 DEF ReviewTypeOK
  <1>4. DecisionInv'
    <2>1. ASSUME NEW u \in Version PROVE DecisionOK(u)'
      BY <1>1, <1>3 DEF DecisionInv, DecisionOK, ApprovedOn
    <2> QED
      BY <2>1 DEF DecisionInv
  <1>5. ReviewTypeOK' /\ SyncInv' /\ CurrentIsPublished'
    BY <1>1, <1>3 DEF ReviewTypeOK, SyncInv, CurrentIsPublished
  <1> QED
    BY <1>3, <1>4, <1>5 DEF Immutable, ReviewEffect

\* The local script makes calls of reviewers.
LEMMA LocalScriptStep ==
    ASSUME ReviewInv, NEW v \in LocalVersion, LocalStart(v) \/ LocalStep(v) \/ LocalStops
    PROVE  ReviewEffect
  <1> USE DEF ReviewInv
  <1>1. v \in Version
    BY ContentAssumption
  <1>2. CASE LocalStart(v)
    <2>1. LocalCalls(version[v].state) \in Seq(LocalSteps)
      <3>1. /\ <<"assign technical", "assign editorial", "decide technical">> \in Seq(LocalSteps)
            /\ <<"assign editorial", "decide editorial", "publish">> \in Seq(LocalSteps)
            /\ <<"publish">> \in Seq(LocalSteps) /\ <<>> \in Seq(LocalSteps)
        BY DEF LocalSteps
      <3>2. \A s, t \in Seq(LocalSteps) : s \o t \in Seq(LocalSteps)
        OBVIOUS
      <3> QED
        BY <3>1, <3>2 DEF LocalCalls
    <2>2. UNCHANGED <<version, review, current, syncing>> /\ script' \in Seq(LocalSteps)
      BY <1>2, <2>1 DEF LocalStart
    <2> QED
      BY <2>2, NothingWritten DEF SyncInv
  <1>3. CASE LocalStep(v)
    <2>1. script \in Seq(LocalSteps) /\ script # <<>>
      BY <1>3 DEF LocalStep, ReviewTypeOK
    <2>2. PICK c \in LocalSteps : c = Head(script) /\ LocalCall(v, c)
      BY <1>3, <2>1 DEF LocalStep
    <2>3. script' \in Seq(LocalSteps)
      BY <1>3, <2>1 DEF LocalStep
    <2>4. \/ \E k \in Kinds : \E r : Assign(v, k, r) \/ Decide(v, k, r, "approved")
          \/ \E key : Publish(v, key)
      BY <2>2 DEF LocalCall, LocalSteps, Kinds
    <2> QED
      BY <1>1, <2>3, <2>4, AssignStep, DecideStep, PublicationStep
  <1>4. CASE LocalStops
    <2>1. UNCHANGED <<version, review, current, syncing>> /\ script' \in Seq(LocalSteps)
      BY <1>4 DEF LocalStops
    <2> QED
      BY <2>1, NothingWritten DEF SyncInv
  <1> QED
    BY <1>2, <1>3, <1>4

\* Every step of the review.
LEMMA ReviewStep ==
    ASSUME ReviewInv, ReviewNext
    PROVE  ReviewEffect
  <1>1. script \in Seq(LocalSteps)
    BY DEF ReviewInv, ReviewTypeOK
  <1>2. CASE \E v \in LocalVersion : LocalStart(v) \/ LocalStep(v)
    BY <1>2, LocalScriptStep
  <1>3. CASE LocalStops
    <2>1. UNCHANGED <<version, review, current, syncing>> /\ script' \in Seq(LocalSteps)
      BY <1>3 DEF LocalStops
    <2> QED
      BY <2>1, NothingWritten DEF SyncInv, ReviewInv
  <1>4. CASE UNCHANGED script /\ (PackageWrite \/ AttachmentWrite \/ SyncAborts)
    <2>1. CASE SyncAborts
      BY <2>1, <1>1, <1>4, NothingWritten DEF SyncAborts, SyncInv
    <2> QED
      BY <2>1, <1>1, <1>4, WriteStep
  <1>5. ASSUME NEW v \in Version, UNCHANGED script,
               \E k \in Kinds, r \in Reviewer :
                  Assign(v, k, r) \/ \E o \in {"approved", "rejected"} : Decide(v, k, r, o)
        PROVE  ReviewEffect
    BY <1>1, <1>5, AssignStep, DecideStep
  <1>6. ASSUME NEW v \in Version, UNCHANGED script,
               \/ \E key \in PublishKey : Publish(v, key)
               \/ \E t \in {"deprecated", "archived"} : ReviewTransition(v, t)
               \/ \E h \in Package : LaunchBootstrap(v, h)
               \/ AttachmentPublish(v)
        PROVE  ReviewEffect
    BY <1>1, <1>6, PublicationStep
  <1>7. ASSUME NEW v \in Version, UNCHANGED script, NEW h \in Package,
               SyncRead(v, h) \/ \E p \in BOOLEAN : AttachmentRead(v, h, p)
        PROVE  ReviewEffect
    BY <1>1, <1>7, ReadStep DEF Content
  <1>8. ASSUME NEW v \in Version, UNCHANGED script, RollbackTo(v)
        PROVE  ReviewEffect
    BY <1>1, <1>8, RollbackToStep
  <1> QED
    BY <1>2, <1>3, <1>4, <1>5, <1>6, <1>7, <1>8 DEF ReviewNext

-----------------------------------------------------------------------------
(* The steps of an import.                                                 *)

\* What an import is about, and its next record, are as uploaded.
LEMMA RecordTypes ==
    ASSUME ContentInv, NEW i \in Import
    PROVE  /\ imports[i] \in Imports /\ imports[i].upload.records \in Seq(Record)
           /\ AtRecord(i) => CurrentRecord(i) \in Record
  <1>1. imports[i] \in Imports
    BY DEF ContentInv, ImportInv
  <1>2. imports[i].upload.records \in Seq(Record)
    <2>1. imports[i].upload \in Upload \/ imports[i].upload = NoUpload
      BY <1>1 DEF Imports
    <2>2. NoUpload.records = <<>>
      BY DEF NoUpload
    <2>3. <<>> \in Seq(Record)
      OBVIOUS
    <2> QED
      BY <2>1, <2>2, <2>3, ImportAssumption
  <1>3. imports[i].items \in Seq(Item)
    BY <1>1 DEF Imports
  <1>4. AtRecord(i) => Next1(i) \in 1..Len(imports[i].upload.records)
    BY <1>3 DEF AtRecord, Next1
  <1> QED
    BY <1>1, <1>2, <1>4 DEF CurrentRecord

\* One import goes on, and at most one version becomes its own.
GoesOn(i, new) ==
    /\ imports' = [imports EXCEPT ![i] = new]
    /\ new.status = "rolled_back" => imports[i].status = "rolled_back"
    /\ new.status = "rolled_back" \/ new.available => new.pc = "done"
    /\ new.pc # "idle"
    /\ imports[i].pc = "record" \/ UNCHANGED version
    /\ \A v \in Version : version'[v].source \in {version[v].source, i}
    /\ \A v \in Version : version'[v].source = i =>
          \/ new.pc = "stopped"
          \/ new.pc = "persist" /\ new.created = v
          \/ \E j \in DOMAIN new.items : new.items[j].version = v

LEMMA ImportGoesOn ==
    ASSUME ContentInv, NEW i \in Import, NEW new \in Imports, GoesOn(i, new)
    PROVE  ImportInv'
  <1> USE DEF ContentInv, ImportInv, GoesOn
  <1>1. imports' \in [Import -> Imports] /\ imports'[i] = new
    BY DEF ImportInv
  <1>2. \A k \in Import \ {i} : imports'[k] = imports[k]
    OBVIOUS
  <1>3. ASSUME NEW k \in Import PROVE ImportOK(k)'
    <2>1. CASE k = i
      BY <2>1, <1>1 DEF ImportOK, ReportedBy
    <2>2. CASE k # i
      <3>1. imports'[k] = imports[k] /\ ImportOK(k)
        BY <2>2, <1>2
      <3>2. \A v \in Version : version'[v].source = k => version[v].source = k
        BY <2>2
      <3> QED
        BY <3>1, <3>2 DEF ImportOK, ReportedBy
    <2> QED
      BY <2>1, <2>2
  <1>4. RolledBackLeavesNothing'
    <2> SUFFICES ASSUME NEW k \in Import, imports'[k].status = "rolled_back", NEW v \in Version
                 PROVE  version'[v].source # k
      BY DEF RolledBackLeavesNothing
    <2>1. imports[k].status = "rolled_back"
      BY <1>1, <1>2
    <2>2. version[v].source # k /\ imports[k].pc = "done"
      BY <2>1 DEF RolledBackLeavesNothing, ImportOK
    <2> QED
      BY <2>2
  <1> QED
    BY <1>1, <1>3, <1>4

\* A version that an import leaves alone.
LEMMA ReviewUntouched ==
    ASSUME ReviewInv, UNCHANGED reviewVars
    PROVE  ReviewInv' /\ Immutable
  <1>1. SyncInv' /\ script' \in Seq(LocalSteps)
    BY DEF ReviewInv, SyncInv, ReviewTypeOK, reviewVars
  <1> QED
    BY <1>1, NothingWritten DEF reviewVars, ReviewEffect

\* The steps of an upload that write no version.
LEMMA ImportStep ==
    ASSUME ContentInv, NEW i \in Import,
           \/ \E u \in Upload : ImportStart(i, u)
           \/ SkipDraft(i) \/ DraftRaises(i) \/ PersistItem(i)
           \/ ImportDies(i) \/ ImportComplete(i) \/ RecordTraces(i)
    PROVE  ContentInv' /\ Immutable
  <1> USE DEF ContentInv
  <1>1. UNCHANGED reviewVars
    BY DEF ImportStart, SkipDraft, DraftRaises, PersistItem, ImportDies, ImportComplete, RecordTraces
  <1>2. ReviewInv' /\ Immutable
    BY <1>1, ReviewUntouched
  <1>3. UNCHANGED version
    BY <1>1 DEF reviewVars
  <1>4. imports \in [Import -> Imports] /\ ImportOK(i)
    BY DEF ImportInv
  <1>5. PICK old \in Imports : old = imports[i]
    BY <1>4
  <1>7. CASE \E u \in Upload : ImportStart(i, u)
    <2>1. PICK u \in Upload : ImportStart(i, u)
      BY <1>7
    <2> DEFINE new == [NoImport EXCEPT !.status = "processing", !.upload = u, !.pc = "record"]
    <2>2. /\ new \in Imports
          /\ new.status = "processing" /\ new.pc = "record" /\ ~new.available
      <3>1. <<>> \in Seq(Item)
        OBVIOUS
      <3> QED
        BY <3>1 DEF Imports, NoImport
    <2> HIDE DEF new
    <2>3. imports' = [imports EXCEPT ![i] = new] /\ old = NoImport
      BY <2>1, <1>5 DEF ImportStart, new
    <2>4. \A v \in Version : version[v].source # i
      BY <1>4, <1>5, <2>3 DEF ImportOK, NoImport
    <2>5. GoesOn(i, new)
      BY <1>3, <2>2, <2>3, <2>4 DEF GoesOn
    <2> QED
      BY <1>2, <2>2, <2>5, ImportGoesOn
  <1>8. CASE SkipDraft(i)
    <2> DEFINE new == [old EXCEPT !.pc = "persist", !.created = Nobody]
    <2>1. /\ new \in Imports
          /\ new.status = old.status /\ new.available = old.available
          /\ new.items = old.items /\ new.pc = "persist"
      BY DEF Imports
    <2> HIDE DEF new
    <2>2. imports' = [imports EXCEPT ![i] = new] /\ old.pc = "record"
      BY <1>5, <1>8, <2>1 DEF SkipDraft, AtRecord, new
    <2>3. GoesOn(i, new)
      BY <1>3, <1>4, <1>5, <2>1, <2>2 DEF GoesOn, ImportOK, ReportedBy
    <2> QED
      BY <1>2, <2>1, <2>3, ImportGoesOn
  <1>9. CASE DraftRaises(i) \/ ImportDies(i)
    <2> DEFINE new == [old EXCEPT !.pc = "stopped"]
    <2>1. /\ new \in Imports
          /\ new.status = old.status /\ new.available = old.available /\ new.pc = "stopped"
      BY DEF Imports
    <2> HIDE DEF new
    <2>2. imports' = [imports EXCEPT ![i] = new] /\ old.pc \in {"record", "persist"}
      BY <1>5, <1>9, <2>1 DEF DraftRaises, ImportDies, StopAtRecord, AtRecord, new
    <2>3. GoesOn(i, new)
      BY <1>3, <1>4, <1>5, <2>1, <2>2 DEF GoesOn, ImportOK
    <2> QED
      BY <1>2, <2>1, <2>3, ImportGoesOn
  <1>10. CASE PersistItem(i)
    <2>1. PICK item \in Item : item = [status |-> RecordStatus(old.upload.records, Next1(i)),
                                       version |-> old.created]
      <3>1. RecordStatus(old.upload.records, Next1(i)) \in {"accepted", "warning", "draft", "rejected"}
        BY DEF RecordStatus
      <3>2. old.created \in Version \cup {Elsewhere, Nobody}
        BY DEF Imports
      <3> QED
        BY <3>1, <3>2 DEF Item
    <2>2. PICK items \in Seq(Item) :
            /\ items = Append(old.items, item)
            /\ Len(old.items) + 1 \in DOMAIN items /\ items[Len(old.items) + 1] = item
            /\ \A j \in DOMAIN old.items : j \in DOMAIN items /\ items[j] = old.items[j]
      <3>1. old.items \in Seq(Item)
        BY DEF Imports
      <3>2. /\ Append(old.items, item) \in Seq(Item)
            /\ Len(old.items) + 1 \in DOMAIN Append(old.items, item)
            /\ Append(old.items, item)[Len(old.items) + 1] = item
            /\ \A j \in DOMAIN old.items : /\ j \in DOMAIN Append(old.items, item)
                                            /\ Append(old.items, item)[j] = old.items[j]
        BY <3>1
      <3> QED
        BY <3>2, Zenon
    <2> DEFINE new == [old EXCEPT !.pc = "record", !.items = items]
    <2>3. /\ new \in Imports
          /\ new.status = old.status /\ new.available = old.available
          /\ new.items = items /\ new.pc = "record"
      BY DEF Imports
    <2> HIDE DEF new
    <2>4. imports' = [imports EXCEPT ![i] = new] /\ old.pc = "persist"
      BY <1>5, <1>10, <2>1, <2>2, <2>3 DEF PersistItem, new
    <2>5. item.version = old.created
      BY <2>1
    <2>6. GoesOn(i, new)
      BY <1>3, <1>4, <1>5, <2>2, <2>3, <2>4, <2>5 DEF GoesOn, ImportOK, ReportedBy
    <2> QED
      BY <1>2, <2>3, <2>6, ImportGoesOn
  <1>11. CASE ImportComplete(i)
    <2>1. ImportStatus(old.items) \in {"failed", "completed_with_warnings", "completed"}
      BY DEF ImportStatus
    <2>2. (\E v \in Version : version[v].source = i) \in BOOLEAN
      OBVIOUS
    <2> DEFINE new == [old EXCEPT !.pc = "done", !.status = ImportStatus(old.items), !.available = \E v \in Version : version[v].source = i]
    <2>3. /\ new \in Imports
          /\ new.status # "rolled_back" /\ new.items = old.items /\ new.pc = "done"
      BY <2>1, <2>2 DEF Imports
    <2> HIDE DEF new
    <2>4. imports' = [imports EXCEPT ![i] = new] /\ old.pc = "record"
      BY <1>5, <1>11, <2>3 DEF ImportComplete, new
    <2>5. GoesOn(i, new)
      BY <1>3, <1>4, <1>5, <2>3, <2>4 DEF GoesOn, ImportOK, ReportedBy
    <2> QED
      BY <1>2, <2>3, <2>5, ImportGoesOn
  <1>12. CASE RecordTraces(i)
    <2> DEFINE new == [old EXCEPT !.traced = TRUE]
    <2>1. /\ new \in Imports
          /\ new.status = old.status /\ new.items = old.items /\ new.pc = old.pc
          /\ new.created = old.created
      BY DEF Imports
    <2> HIDE DEF new
    <2>2. imports' = [imports EXCEPT ![i] = new] /\ old.pc = "done"
      BY <1>5, <1>12, <2>1 DEF RecordTraces, new
    <2>3. GoesOn(i, new)
      BY <1>3, <1>4, <1>5, <2>1, <2>2 DEF GoesOn, ImportOK, ReportedBy
    <2> QED
      BY <1>2, <2>1, <2>3, ImportGoesOn
  <1> QED
    BY <1>7, <1>8, <1>9, <1>10, <1>11, <1>12

\* A draft is inserted while no synchroniser has the question.
LEMMA CreateDraftStep ==
    ASSUME ContentInv, NEW i \in Import, CreateDraft(i)
    PROVE  ContentInv' /\ Immutable
  <1> USE DEF ContentInv
  <1>1. PICK r \in Record : r = CurrentRecord(i)
    BY RecordTypes DEF CreateDraft
  <1>2. imports[i].pc = "record" /\ UNCHANGED <<review, current, syncing, script>>
    BY DEF CreateDraft, AtRecord
  <1>3. PICK d \in Versions : /\ d = [state |-> DraftState(imports[i].upload.method), hash |-> r.hash, source |-> i,
                                      author |-> imports[i].upload.by]
                              /\ d.state \in {"generated", "draft"} /\ d.source = i
    <2>1. r.hash \in Content
      BY DEF Record, Content
    <2>2. DraftState(imports[i].upload.method) \in {"generated", "draft"}
      BY DEF DraftState
    <2> QED
      <3> DEFINE d == [state |-> DraftState(imports[i].upload.method), hash |-> r.hash, source |-> i,
                       author |-> imports[i].upload.by]
      <3>1. d.state \in {"generated", "draft"} /\ d.source = i
        BY <2>2
      <3>2. imports[i].upload.by \in People
        <4>1. imports[i].upload \in Upload \cup {NoUpload}
          BY RecordTypes DEF Imports
        <4> QED
          BY <4>1, ImportAssumption DEF NoUpload, People
      <3>4. d \in Versions
        BY <2>1, <2>2, <3>2 DEF Versions, VersionStates
      <3> HIDE DEF d
      <3>3. \E x \in Versions : x = d /\ x.state \in {"generated", "draft"} /\ x.source = i
        BY <3>1, <3>4
      <3> QED
        BY <3>3 DEF d
  <1>4. \/ version' = version
        \/ r.v \in Version /\ ~Exists(r.v) /\ syncing = NotSyncing /\ version' = [version EXCEPT ![r.v] = d]
    BY <1>1, <1>3 DEF CreateDraft, QuestionFree
  <1>5. /\ version' \in [Version -> Versions]
        /\ \A v \in Version : \/ version'[v] = version[v]
                              \/ /\ v = r.v /\ version'[v] = d /\ syncing = NotSyncing
                                 /\ version[v] = Absent
    BY <1>4 DEF ReviewInv, ReviewTypeOK, Exists
  <1>6. ReviewTypeOK' /\ SyncInv'
    BY <1>2, <1>5 DEF ReviewInv, ReviewTypeOK, SyncInv
  <1>7. CurrentIsPublished'
    BY <1>2, <1>5 DEF ReviewInv, CurrentIsPublished, Absent, ReviewTypeOK
  <1>8. DecisionInv'
    <2>1. ASSUME NEW v \in Version PROVE DecisionOK(v)'
      BY <1>2, <1>3, <1>5 DEF ReviewInv, DecisionInv, DecisionOK, ApprovedOn
    <2> QED
      BY <2>1 DEF DecisionInv
  <1>9. Immutable
    BY <1>5 DEF Immutable, Absent
  <1>10. imports \in [Import -> Imports] /\ imports[i] \in Imports /\ ImportOK(i)
    BY DEF ImportInv
  <1> DEFINE new == [imports[i] EXCEPT !.pc = "persist", !.created = r.v]
  <1>11. /\ new \in Imports
         /\ new.status = imports[i].status /\ new.available = imports[i].available
         /\ new.pc = "persist" /\ new.created = r.v /\ new.items = imports[i].items
    BY <1>10 DEF Imports, Record
  <1> HIDE DEF new
  <1>12. imports' = [imports EXCEPT ![i] = new]
    BY <1>1 DEF CreateDraft, new
  <1>13. \A v \in Version : version'[v].source = version[v].source \/ (v = r.v /\ version'[v].source = i)
    BY <1>3, <1>5
  <1>14. GoesOn(i, new)
    BY <1>2, <1>10, <1>11, <1>12, <1>13 DEF GoesOn, ImportOK, ReportedBy
  <1>15. ImportInv'
    BY <1>11, <1>14, ImportGoesOn
  <1> QED
    BY <1>6, <1>7, <1>8, <1>9, <1>15 DEF ReviewInv

\* The reports of a rolled-back import and of the others.
LEMMA ItemsAfterTypes ==
    ASSUME NEW items \in Seq(Item), NEW own \in BOOLEAN, NEW gone \in SUBSET Version
    PROVE  /\ ItemsAfter(items, own, gone) \in Seq(Item)
           /\ DOMAIN ItemsAfter(items, own, gone) = DOMAIN items
           /\ \A n \in DOMAIN items : items[n].version \notin gone =>
                 ItemsAfter(items, own, gone)[n].version = items[n].version
  <1>1. \A n \in DOMAIN items : items[n] \in Item
    OBVIOUS
  <1>2. \A n \in DOMAIN items :
           [status |-> IF own /\ gone # {} THEN "rolled_back" ELSE items[n].status,
            version |-> IF items[n].version \in gone THEN Nobody ELSE items[n].version] \in Item
    BY <1>1 DEF Item
  <1>3. Len(items) \in Nat /\ DOMAIN items = 1..Len(items)
    OBVIOUS
  <1>4. ItemsAfter(items, own, gone) \in [1..Len(items) -> Item]
    BY <1>2, <1>3 DEF ItemsAfter
  <1>5. ItemsAfter(items, own, gone) \in Seq(Item)
    BY <1>3, <1>4
  <1> QED
    BY <1>5 DEF ItemsAfter

\* A rollback deletes every version the import has left.
LEMMA ImportRollbackStep ==
    ASSUME ContentInv, NEW i \in Import, ImportRollback(i)
    PROVE  ContentInv' /\ Immutable
  <1> USE DEF ContentInv
  <1> DEFINE gone == OwnVersions(i)
  <1>1. /\ CanRollback(i) /\ UNCHANGED <<current, syncing, script>>
        /\ version' = [v \in Version |-> IF v \in gone THEN Absent ELSE version[v]]
        /\ review' = [v \in Version |-> IF v \in gone THEN [k \in Kinds |-> NoReview] ELSE review[v]]
    BY DEF ImportRollback
  <1>2. gone \in SUBSET Version /\ \A v \in gone : current # v /\ version[v].source = i
    BY <1>1 DEF CanRollback, OwnVersions
  <1>3. imports[i].pc = "done" /\ imports \in [Import -> Imports]
    BY <1>1 DEF CanRollback, ImportInv, ImportOK
  <1>4. \A v \in Version : version[v].source = i => v \in gone
    BY <1>3 DEF OwnVersions, ImportInv, ImportOK, ReportedBy
  <1>5. Absent \in Versions /\ Absent.state = "absent" /\ Absent.source = Nobody
    BY DEF Absent, Versions, VersionStates, People
  <1>6. [k \in Kinds |-> NoReview] \in [Kinds -> Reviews]
    BY DEF NoReview, Reviews, People
  <1> HIDE DEF gone
  <1>7. ReviewTypeOK' /\ CurrentIsPublished' /\ SyncInv'
    BY <1>1, <1>2, <1>5, <1>6 DEF ReviewInv, ReviewTypeOK, CurrentIsPublished, SyncInv
  <1>8. DecisionInv'
    <2>1. ASSUME NEW v \in Version PROVE DecisionOK(v)'
      <3>1. CASE v \in gone
        BY <3>1, <1>1, <1>5 DEF DecisionOK, NoReview
      <3>2. CASE v \notin gone
        BY <3>2, <1>1 DEF ReviewInv, DecisionInv, DecisionOK, ApprovedOn
      <3> QED
        BY <3>1, <3>2
    <2> QED
      BY <2>1 DEF DecisionInv
  <1>9. Immutable
    BY <1>1 DEF Immutable, Exists
  <1>10. \A v \in Version : /\ version'[v].source # i
                            /\ \A k \in Import : version'[v].source = k => version[v].source = k /\ v \notin gone
    BY <1>1, <1>4, <1>5, ImportAssumption
  <1>11. ASSUME NEW k \in Import
         PROVE  /\ imports'[k] \in Imports
                /\ k = i => imports'[k].status = "rolled_back" /\ imports'[k].pc = "done"
                /\ k # i => /\ imports'[k].status = imports[k].status /\ imports'[k].pc = imports[k].pc
                            /\ imports'[k].created = imports[k].created
                            /\ imports'[k].available = imports[k].available
                            /\ imports'[k].items = ItemsAfter(imports[k].items, FALSE, gone)
    <2>1. imports[k] \in Imports /\ imports[k].items \in Seq(Item)
      BY <1>3 DEF Imports
    <2>2. CASE k = i
      <3>1. PICK its \in Seq(Item) : its = ItemsAfter(imports[i].items, TRUE, gone)
        BY <2>1, <2>2, <1>2, ItemsAfterTypes
      <3>2. imports'[k] = [imports[i] EXCEPT !.items = its, !.status = "rolled_back", !.available = FALSE]
        BY <2>2, <3>1 DEF ImportRollback, gone
      <3> QED
        BY <2>1, <2>2, <3>2, <1>3 DEF Imports
    <2>3. CASE k # i
      <3>1. PICK its \in Seq(Item) : its = ItemsAfter(imports[k].items, FALSE, gone)
        BY <2>1, <1>2, ItemsAfterTypes
      <3>2. imports'[k] = [imports[k] EXCEPT !.items = its]
        BY <2>3, <3>1 DEF ImportRollback, gone
      <3> QED
        BY <2>1, <2>3, <3>1, <3>2 DEF Imports
    <2> QED
      BY <2>2, <2>3
  <1>12. imports' \in [Import -> Imports]
    <2>1. imports' = [k \in Import |-> imports'[k]]
      BY DEF ImportRollback
    <2> QED
      BY <1>11, <2>1
  <1>13. ASSUME NEW k \in Import PROVE ImportOK(k)'
    <2>1. CASE k = i
      BY <2>1, <1>10, <1>11 DEF ImportOK
    <2>2. CASE k # i
      <3>1. ImportOK(k) /\ imports[k].items \in Seq(Item)
        BY <1>3 DEF ImportInv, Imports
      <3>2. ASSUME NEW v \in Version, version'[v].source = k
            PROVE  ReportedBy(k, v)'
        <4>1. ReportedBy(k, v) /\ v \notin gone
          BY <3>1, <3>2, <1>10 DEF ImportOK
        <4>2. \A n \in DOMAIN imports[k].items : imports[k].items[n].version = v =>
                 n \in DOMAIN imports'[k].items /\ imports'[k].items[n].version = v
          <5>1. PICK items \in Seq(Item) : items = imports[k].items
            BY <3>1
          <5>2. FALSE \in BOOLEAN /\ gone \in SUBSET Version
            BY <1>2
          <5>3. imports'[k].items = ItemsAfter(items, FALSE, gone)
            BY <5>1, <2>2, <1>11
          <5>4. /\ DOMAIN ItemsAfter(items, FALSE, gone) = DOMAIN items
                /\ \A n \in DOMAIN items : items[n].version \notin gone =>
                      ItemsAfter(items, FALSE, gone)[n].version = items[n].version
            BY <5>2, ItemsAfterTypes
          <5> QED
            BY <4>1, <5>1, <5>3, <5>4
        <4> QED
          BY <4>1, <4>2, <2>2, <1>11 DEF ReportedBy
      <3> QED
        BY <2>2, <3>1, <3>2, <1>10, <1>11 DEF ImportOK
    <2> QED
      BY <2>1, <2>2
  <1>14. RolledBackLeavesNothing'
    BY <1>10, <1>11 DEF ImportInv, RolledBackLeavesNothing
  <1> QED
    BY <1>7, <1>8, <1>9, <1>12, <1>13, <1>14 DEF ReviewInv, ImportInv

\* A step of the review leaves the imports' versions theirs or takes them over.
LEMMA ImportsBesideReview ==
    ASSUME ContentInv, UNCHANGED imports,
           \A v \in Version : version'[v].source = version[v].source \/ version'[v].source = "git"
    PROVE  ImportInv'
  <1>1. \A v \in Version, i \in Import : version'[v].source = i => version[v].source = i
    BY ImportAssumption
  <1> QED
    BY <1>1 DEF ContentInv, ImportInv, ImportOK, ReportedBy, RolledBackLeavesNothing

-----------------------------------------------------------------------------
(* The theorems.                                                           *)

\* The initial state satisfies the invariant.
LEMMA InitContentInv == ImportInit => ContentInv
  <1> SUFFICES ASSUME ImportInit PROVE ContentInv
    OBVIOUS
  <1> USE DEF ImportInit, ReviewInit
  <1>1. Absent \in Versions /\ Absent.state = "absent" /\ Absent.source = Nobody
    BY DEF Absent, Versions, VersionStates, People
  <1>2. NoReview \in Reviews /\ ~NoReview.completed
    BY DEF NoReview, Reviews, People
  <1>3. ReviewInv
    BY <1>1, <1>2 DEF ReviewInv, ReviewTypeOK, SyncInv, CurrentIsPublished, DecisionInv, DecisionOK
  <1>4. /\ NoImport \in Imports /\ NoImport.status = "none" /\ NoImport.pc = "idle"
        /\ ~NoImport.available
    BY DEF NoImport, Imports
  <1>5. \A v \in Version, i \in Import : version[v].source # i
    BY <1>1, ImportAssumption
  <1>6. ImportInv
    BY <1>4, <1>5 DEF ImportInv, ImportOK, RolledBackLeavesNothing
  <1> QED
    BY <1>3, <1>6 DEF ContentInv

\* Every step keeps the invariant, and the content of published versions.
LEMMA NextContentInv ==
    ASSUME ContentInv, [ContentNext]_importVars
    PROVE  ContentInv' /\ Immutable
  <1>1. CASE ReviewNext /\ UNCHANGED imports
    BY <1>1, ReviewStep, ImportsBesideReview DEF ContentInv, ReviewEffect
  <1>2. CASE ImportNext
    BY <1>2, ImportStep, CreateDraftStep, ImportRollbackStep DEF ImportNext
  <1>3. CASE UNCHANGED importVars
    BY <1>3, ReviewUntouched, ImportsBesideReview DEF importVars, reviewVars, ContentInv
  <1> QED
    BY <1>1, <1>2, <1>3 DEF ContentNext

\* The invariant holds in every reachable state.
LEMMA ContentInvariance == ContentSpec => []ContentInv
  BY InitContentInv, NextContentInv, PTL DEF ContentSpec

\* The version candidates are served is published, however reviews,
\* synchronisations, rollbacks, bootstraps and imports interleave.
THEOREM ServedIsPublished == ContentSpec => []CurrentIsPublished
  <1>1. ContentInv => CurrentIsPublished
    BY DEF ContentInv, ReviewInv
  <1> QED
    BY <1>1, ContentInvariance, PTL

\* An approved version was approved by two people on the content it has
\* (decide), whatever was reassigned or synchronised since.
THEOREM TwoApprovals == ContentSpec => []ApprovedByTwo
  <1>1. ContentInv => ApprovedByTwo
    BY DEF ContentInv, ReviewInv, DecisionInv, DecisionOK, ApprovedOn, ApprovedByTwo, Kinds
  <1> QED
    BY <1>1, ContentInvariance, PTL

\* A published version keeps its content, although synchronisers decide to
\* write on what they read without a lock (_synchronize_package).
THEOREM PublishedStays == ContentSpec => PublishedIsImmutable
  <1>1. ASSUME ContentInv, [ContentNext]_importVars
        PROVE  [\A v \in Version : version[v].state = "published" /\ Exists(v)' =>
                   version'[v].hash = version[v].hash]_reviewVars
    BY <1>1, NextContentInv DEF Immutable
  <1> QED
    BY <1>1, ContentInvariance, PTL DEF ContentSpec, PublishedIsImmutable

\* A rolled-back import leaves none of its versions behind
\* (ContentImportRepository.rollback), although drafts and the items that
\* report them are separate transactions.
THEOREM RollbackIsComplete == ContentSpec => []RolledBackLeavesNothing
  <1>1. ContentInv => RolledBackLeavesNothing
    BY DEF ContentInv, ImportInv
  <1> QED
    BY <1>1, ContentInvariance, PTL
=============================================================================

--------------------------- MODULE ContentImport ---------------------------
(***************************************************************************)
(* Uploads of question packages (ingestion.py), their reports and rollback *)
(* (import_reports.py) and the batches of the content factory              *)
(* (content_factory.py), over the versions of ContentReview.               *)
(*                                                                         *)
(* An upload is processed record by record.  The import row, the draft of  *)
(* a record, the item that reports it, and the totals are four separate    *)
(* transactions; an error raised or a crash between two of them leaves the *)
(* import in status processing, and everything written so far.             *)
(*                                                                         *)
(* A record is what the pipeline finds out about it: the version it names  *)
(* (Elsewhere: one of another question), its content, the stages it fails  *)
(* and its highest similarity (in percent) to a stored version.            *)
(***************************************************************************)
EXTENDS ContentReview

CONSTANTS
    Import,       \* ids of content_imports rows
    Upload,       \* the uploads people make: [by, method, dry, records]
    Elsewhere     \* a version of a question outside the model

FailingStages == {"schema_parsing", "provenance_validation", "license_validation",
                  "reference_validation", "executable_solution_validation", "security_check"}

Record == [kind : {"complete", "metadata_draft"}, v : Version \cup {Elsewhere}, hash : Imported,
           fails : SUBSET FailingStages, score : 0..100]

ASSUME ImportAssumption ==
    /\ Elsewhere \notin Version
    /\ Import \cap {"git", Nobody} = {}
    /\ \A u \in Upload : u.by \in Reviewer /\ u.records \in Seq(Record)

VARIABLE imports

importVars == <<reviewVars, imports>>

NoUpload == [by |-> Nobody, method |-> "none", dry |-> FALSE, records |-> <<>>]
NoImport == [status |-> "none", upload |-> NoUpload, pc |-> "idle", created |-> Nobody,
             items |-> <<>>, available |-> FALSE, traced |-> FALSE]

ImportInit == ReviewInit /\ imports = [i \in Import |-> NoImport]

Next1(i) == Len(imports[i].items) + 1
CurrentRecord(i) == imports[i].upload.records[Next1(i)]

-----------------------------------------------------------------------------
(* The pipeline of _process_record as a function of the record and of the  *)
(* records before it in the upload.                                        *)

(* similarity_action: what a score asks for.                               *)
SimilarityAction(score) ==
    IF score >= 95 THEN "publication_block"
    ELSE IF score >= 85 THEN "mandatory_originality_review"
    ELSE IF score >= 70 THEN "reviewer_warning" ELSE "normal_processing"

(* identity_validation: an id counts once its record has passed the schema. *)
SeenIds(records, n) ==
    {records[j].v : j \in {m \in 1..(n - 1) :
        records[m].kind = "complete" /\ "schema_parsing" \notin records[m].fails}}

RecordStatus(records, n) ==
    LET r == records[n] IN
    IF r.kind = "metadata_draft" THEN "draft"
    ELSE IF r.fails # {} \/ r.v \in SeenIds(records, n) THEN "rejected"
    ELSE IF SimilarityAction(r.score) # "normal_processing" THEN "warning" ELSE "accepted"

(* The status import_upload ends with.                                     *)
ImportStatus(items) ==
    LET accepted == {j \in DOMAIN items : items[j].status # "rejected"}
        warned == {j \in DOMAIN items : items[j].status \in {"warning", "draft"}}
    IN  IF accepted = {} THEN "failed"
        ELSE IF warned # {} \/ accepted # DOMAIN items THEN "completed_with_warnings" ELSE "completed"

(* The state in which _create_draft inserts a version.                     *)
DraftState(method) == IF method \in {"generation", "json", "jsonl", "zip"} THEN "generated" ELSE "draft"

-----------------------------------------------------------------------------
(* import_upload.                                                          *)

(* A parsed upload with 1 to 1,000 records gets its row; every parse error *)
(* is raised before there is one.                                          *)
ImportStart(i, u) ==
    /\ imports[i] = NoImport /\ u.records # <<>>
    /\ imports' = [imports EXCEPT ![i] = [NoImport EXCEPT !.status = "processing", !.upload = u,
                                                          !.pc = "record"]]
    /\ UNCHANGED reviewVars

AtRecord(i) == imports[i].pc = "record" /\ Next1(i) <= Len(imports[i].upload.records)
ToDraft(i) ==
    /\ RecordStatus(imports[i].upload.records, Next1(i)) \in {"accepted", "warning"}
    /\ ~imports[i].upload.dry

(* A record that is rejected, only metadata, or part of a dry run creates  *)
(* no version.                                                             *)
SkipDraft(i) ==
    /\ AtRecord(i) /\ ~ToDraft(i)
    /\ imports' = [imports EXCEPT ![i].pc = "persist", ![i].created = Nobody]
    /\ UNCHANGED reviewVars

(* _create_draft finds the same content and returns it, or inserts it with *)
(* whoever uploaded it as its author.                                      *)
CreateDraft(i) ==
    LET r == CurrentRecord(i) IN
    /\ AtRecord(i) /\ ToDraft(i)
    /\ r.v \in Version => QuestionFree /\ version[r.v].hash \in {r.hash, Nobody}
    /\ imports' = [imports EXCEPT ![i].pc = "persist", ![i].created = r.v]
    /\ version' = IF r.v \in Version /\ ~Exists(r.v)
                  THEN [version EXCEPT ![r.v] = [state |-> DraftState(imports[i].upload.method),
                                                 hash |-> r.hash, source |-> i,
                                                 author |-> imports[i].upload.by]]
                  ELSE version
    /\ UNCHANGED <<review, events, current, syncing, script, syncs, assigns>>

StopAtRecord(i) == [imports EXCEPT ![i].pc = "stopped"]

(* _create_draft raises: changed content under the same version, a slug or *)
(* a track it cannot use.  Nothing catches it: the import never ends.      *)
DraftRaises(i) ==
    /\ AtRecord(i) /\ ToDraft(i)
    /\ CurrentRecord(i).v \in Version =>
          Exists(CurrentRecord(i).v) /\ version[CurrentRecord(i).v].hash # CurrentRecord(i).hash
    /\ imports' = StopAtRecord(i)
    /\ UNCHANGED reviewVars

(* _persist_item (and _persist_duplicate); a version that a rollback has   *)
(* deleted meanwhile violates the item's foreign key.                      *)
PersistItem(i) ==
    /\ imports[i].pc = "persist"
    /\ imports[i].created \in Version => Exists(imports[i].created)
    /\ imports' = [imports EXCEPT ![i].pc = "record",
          ![i].items = Append(@, [status |-> RecordStatus(imports[i].upload.records, Next1(i)),
                                  version |-> imports[i].created])]
    /\ UNCHANGED reviewVars

(* A crash, or the foreign key.                                            *)
ImportDies(i) ==
    /\ imports[i].pc \in {"record", "persist"}
    /\ imports' = StopAtRecord(i)
    /\ UNCHANGED reviewVars

(* The totals; rollback_available asks whether any version is the import's. *)
ImportComplete(i) ==
    /\ imports[i].pc = "record" /\ Next1(i) > Len(imports[i].upload.records)
    /\ imports' = [imports EXCEPT ![i].pc = "done", ![i].status = ImportStatus(imports[i].items),
                      ![i].available = \E v \in Version : version[v].source = i]
    /\ UNCHANGED reviewVars

(* ContentFactory._record_traces follows an import of method generation.   *)
RecordTraces(i) ==
    /\ imports[i].pc = "done" /\ imports[i].upload.method = "generation" /\ ~imports[i].traced
    /\ imports' = [imports EXCEPT ![i].traced = TRUE]
    /\ UNCHANGED reviewVars

-----------------------------------------------------------------------------
(* ContentImportRepository.rollback.                                       *)

Protected == {"approved", "published", "deprecated"}
OwnVersions(i) == {v \in Version : /\ version[v].source = i
                                   /\ \E j \in DOMAIN imports[i].items : imports[i].items[j].version = v}

(* Mutant: rollback does not wait for rollback_available.               *)
CanRollbackUnfinished(i) ==
    /\ imports[i].status # "none"
    /\ \A v \in OwnVersions(i) : /\ version[v].state \notin Protected
                                 /\ ~\E e \in events : e.version = v
                                 /\ current # v

(* publication_events and questions.current_published_version_id refer to  *)
(* question_versions without ON DELETE: their versions cannot be deleted.  *)
CanRollback(i) ==
    /\ imports[i].available
    /\ \A v \in OwnVersions(i) : /\ version[v].state \notin Protected
                                 /\ ~\E e \in events : e.version = v
                                 /\ current # v

(* The report of a rolled-back import; items of others lose the reference  *)
(* to a version that is deleted.                                           *)
ItemsAfter(items, own, gone) ==
    [n \in DOMAIN items |->
       [status |-> IF own /\ gone # {} THEN "rolled_back" ELSE items[n].status,
        version |-> IF items[n].version \in gone THEN Nobody ELSE items[n].version]]

(* The versions go, with their assignments and decisions; the question too *)
(* if it has no version left, for which its row must be free.              *)
ImportRollback(i) ==
    LET gone == OwnVersions(i) IN
    /\ CanRollback(i)
    /\ (gone # {} /\ \A v \in Version \ gone : ~Exists(v)) => QuestionFree
    /\ version' = [v \in Version |-> IF v \in gone THEN Absent ELSE version[v]]
    /\ review' = [v \in Version |-> IF v \in gone THEN [k \in Kinds |-> NoReview] ELSE review[v]]
    /\ imports' = [j \in Import |->
          IF j = i THEN [imports[i] EXCEPT !.items = ItemsAfter(imports[i].items, TRUE, gone),
                                           !.status = "rolled_back", !.available = FALSE]
          ELSE [imports[j] EXCEPT !.items = ItemsAfter(imports[j].items, FALSE, gone)]]
    /\ UNCHANGED <<events, current, syncing, script, syncs, assigns>>

ImportNext ==
    \E i \in Import :
        \/ \E u \in Upload : ImportStart(i, u)
        \/ SkipDraft(i) \/ CreateDraft(i) \/ DraftRaises(i) \/ PersistItem(i)
        \/ ImportDies(i) \/ ImportComplete(i) \/ RecordTraces(i) \/ ImportRollback(i)

ContentNext ==
    \/ ReviewNext /\ UNCHANGED imports
    \/ ImportNext

ContentSpec == ImportInit /\ [][ContentNext]_importVars

-----------------------------------------------------------------------------
(* Correctness.                                                            *)

(* Rolling an import back leaves none of its versions behind, although a   *)
(* second import may share them, a synchronisation may have taken them     *)
(* over and their drafts and items are written by separate transactions.   *)
RolledBackLeavesNothing ==
    \A i \in Import : imports[i].status = "rolled_back" =>
        \A v \in Version : version[v].source # i
=============================================================================

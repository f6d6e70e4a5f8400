---------------------------- MODULE CorpusImport ----------------------------
(***************************************************************************)
(* import_large_question_corpus.py: files of up to a million rows imported *)
(* in chunks, each chunk one transaction that also moves the checkpoint of *)
(* its batch.  A run that stops is started again and continues after the   *)
(* checkpoint; nothing keeps two runs of one batch from overlapping.       *)
(*                                                                         *)
(* A row is its id, its fingerprint, its concept family and whether it     *)
(* passes validate_row.  The trigger of migration 0016 keeps the identity  *)
(* of a batch's file and never lets a checkpoint go back.                  *)
(***************************************************************************)
EXTENDS Naturals, Sequences, FiniteSets, FiniteSetsExt

CONSTANTS
    Batch,         \* batches of one corpus version
    RowsOf,        \* the physical rows of each batch's file
    Quarantined,   \* batches imported as rejected_proprietary
    RowId,         \* question ids
    Chunk,         \* chunk sizes runs are started with
    Runner,        \* processes
    NoBatch

ASSUME CorpusAssumption ==
    /\ Quarantined \subseteq Batch /\ NoBatch \notin Batch
    /\ Chunk \subseteq Nat \ {0}
    /\ \A b \in Batch : Len(RowsOf[b]) \in Nat /\ DOMAIN RowsOf[b] = 1..Len(RowsOf[b])
    /\ \A b \in Batch : \A n \in DOMAIN RowsOf[b] : RowsOf[b][n].id \in RowId

VARIABLES
    batch,     \* knowledge_corpus_import_batches
    served,    \* knowledge_problems with their serving metadata, by question id
    runner     \* each process: its batch, chunk size, checkpoint read and rows consumed

corpusVars == <<batch, served, runner>>

NotServed == [batch |-> NoBatch, row |-> 0, class |-> "none", fp |-> "none"]
IdleRunner == [batch |-> NoBatch, chunk |-> 0, checkpoint |-> 0, pos |-> 0]
Physical(b) == Len(RowsOf[b])

CorpusInit ==
    /\ batch = [b \in Batch |-> [status |-> "absent", checkpoint |-> 0]]
    /\ served = [q \in RowId |-> NotServed]
    /\ runner = [r \in Runner |-> IdleRunner]

-----------------------------------------------------------------------------
(* prepare_stream and its DuplicateTracker, fed with the rows numbered     *)
(* `fed': every valid row adds its id, every new id its fingerprint, every *)
(* accepted row its concept.                                               *)

NewId(b, fed, n) ==
    /\ n \in fed /\ RowsOf[b][n].valid
    /\ ~\E m \in fed : m < n /\ RowsOf[b][m].valid /\ RowsOf[b][m].id = RowsOf[b][n].id

Accepted(b, fed, n) ==
    /\ NewId(b, fed, n)
    /\ ~\E m \in fed : m < n /\ NewId(b, fed, m) /\ RowsOf[b][m].fp = RowsOf[b][n].fp

(* canonical_classification of an accepted row.                            *)
Classification(b, fed, n) ==
    IF b \in Quarantined THEN "rejected_quarantined"
    ELSE IF \E m \in fed : m < n /\ Accepted(b, fed, m) /\ RowsOf[b][m].concept = RowsOf[b][n].concept
    THEN "legitimate_variant" ELSE "canonical_candidate"

(* Mutant: a run streams from its checkpoint.                           *)
StreamFromCheckpoint(r) == (runner[r].checkpoint + 1)..Physical(runner[r].batch)

(* A run streams its file from the first row, whatever the checkpoint is.  *)
Streamed(r) == 1..Physical(runner[r].batch)

-----------------------------------------------------------------------------
(* process_source.                                                         *)

(* ensure_batch and ensure_source_file; a completed batch is answered      *)
(* "already_imported".                                                     *)
StartImport(r, b, chunk) ==
    /\ runner[r] = IdleRunner
    /\ ~(batch[b].status = "completed" /\ batch[b].checkpoint = Physical(b))
    /\ batch' = [batch EXCEPT ![b].status = "running"]
    /\ runner' = [runner EXCEPT ![r] = [batch |-> b, chunk |-> chunk,
                                        checkpoint |-> batch[b].checkpoint, pos |-> 0]]
    /\ UNCHANGED served

(* The accepted rows a run has not consumed, and those of its next chunk.  *)
Ahead(r) == {n \in Streamed(r) : n > runner[r].pos /\ Accepted(runner[r].batch, Streamed(r), n)}
ChunkRows(r) == {n \in Ahead(r) : Cardinality({m \in Ahead(r) : m <= n}) <= runner[r].chunk}
FinalChunk(r) == Cardinality(Ahead(r)) < runner[r].chunk

(* Rows up to the checkpoint read at the start, and quarantined ones, are  *)
(* consumed without being imported.                                        *)
Pending(r) ==
    {n \in ChunkRows(r) : n > runner[r].checkpoint /\ runner[r].batch \notin Quarantined}

CheckpointRow(r) == IF FinalChunk(r) THEN Physical(runner[r].batch) ELSE Max(ChunkRows(r))

(* import_row: upserts under the question id.                              *)
ImportRow(r, n) ==
    [batch |-> runner[r].batch, row |-> n, class |-> Classification(runner[r].batch, Streamed(r), n),
     fp |-> RowsOf[runner[r].batch][n].fp]

(* uq_knowledge_serving_fingerprint: another question of the corpus        *)
(* version, from another batch, has the fingerprint.                       *)
FingerprintTaken(r) ==
    \E n \in Pending(r), q \in RowId :
        q # RowsOf[runner[r].batch][n].id /\ served[q].fp = RowsOf[runner[r].batch][n].fp

(* flush: the rows and the checkpoint in one transaction.                  *)
Flush(r) ==
    LET b == runner[r].batch
        RowOf(q) == {n \in Pending(r) : RowsOf[b][n].id = q}
    IN
    /\ runner[r] # IdleRunner
    /\ ~FingerprintTaken(r)
    /\ served' = [q \in RowId |-> IF RowOf(q) = {} THEN served[q] ELSE ImportRow(r, Max(RowOf(q)))]
    /\ batch' = [batch EXCEPT ![b] =
                    [status |-> IF FinalChunk(r) THEN "completed" ELSE "running",
                     checkpoint |-> Max({@.checkpoint, CheckpointRow(r)})]]
    /\ runner' = [runner EXCEPT ![r] = IF FinalChunk(r) THEN IdleRunner
                                       ELSE [@ EXCEPT !.pos = Max(ChunkRows(r))]]

(* A crash, a lost connection or the unique constraint ends the process;   *)
(* the batch stays running at its checkpoint.                              *)
ImportStops(r) ==
    /\ runner[r] # IdleRunner
    /\ runner' = [runner EXCEPT ![r] = IdleRunner]
    /\ UNCHANGED <<batch, served>>

CorpusNext ==
    \E r \in Runner : \/ \E b \in Batch, c \in Chunk : StartImport(r, b, c)
                      \/ Flush(r) \/ ImportStops(r)

CorpusSpec == CorpusInit /\ [][CorpusNext]_corpusVars

-----------------------------------------------------------------------------
(* However often an import is stopped, resumed or run twice at once, the   *)
(* corpus is that of an uninterrupted one: every accepted row up to the    *)
(* checkpoint is served, and what is served is an accepted row with the    *)
(* family it has in the whole file ("restart checkpoints and repeat-import *)
(* idempotency", NEXT_MULTI_AGENT_EXECUTION_PROMPT.md).                    *)
ResumesAsUninterrupted ==
    \A b \in Batch :
        LET all == 1..Physical(b) IN
        /\ b \notin Quarantined =>
              \A n \in 1..batch[b].checkpoint :
                  Accepted(b, all, n) => served[RowsOf[b][n].id] # NotServed
        /\ \A q \in RowId : served[q].batch = b =>
              /\ RowsOf[b][served[q].row].id = q
              /\ Accepted(b, all, served[q].row)
              /\ served[q].class = Classification(b, all, served[q].row)
=============================================================================

---------------------------- MODULE ImportProofs ----------------------------
(***************************************************************************)
(* Proofs about what the administration brings in: the large corpus import *)
(* (CorpusImport), for every number of batches, files of every length,     *)
(* every chunk size and every number of runs at once, the references of an *)
(* external source (SourceRegistry), for every set of URLs, collectors and *)
(* collections and every limit on a batch, and the knowledge bank          *)
(* (KnowledgeBank), for every set of archives, bundles and problems.       *)
(*                                                                         *)
(* An import folds a sequence of records, so what it computes is a         *)
(* recursion on sets of row numbers: the lemmas on recursion and on sums   *)
(* show that its solution exists and carry an invariant through it.        *)
(***************************************************************************)
EXTENDS CorpusImport, SourceRegistry, KnowledgeBank, FiniteSetTheorems, SequenceTheorems,
        WellFoundedInduction, TLAPS

-----------------------------------------------------------------------------
(* Sets of row numbers.                                                    *)

\* A set of row numbers has a first.
LEMMA FirstRow ==
    ASSUME NEW S \in SUBSET Nat, S # {}
    PROVE  \E n \in S : \A m \in S : n <= m
  <1> DEFINE R == {p \in Nat \X Nat : p[1] < p[2]}
  <1>1. IsWellFoundedOn(R, Nat)
    BY NatLessThanWellFounded DEF OpToRel
  <1>2. \A m, n \in Nat : m < n => <<m, n>> \in R
    OBVIOUS
  <1> HIDE DEF R
  <1>3. PICK n \in S : \A m \in S : ~(<<m, n>> \in R)
    BY <1>1, WFMin, Zenon
  <1>4. ASSUME NEW m \in S PROVE n <= m
    <2>1. m \in Nat /\ n \in Nat /\ ~(m < n)
      BY <1>2, <1>3
    <2> QED
      BY <2>1
  <1> QED
    BY <1>4

\* A set of rows of a file has a last, which is Max.
LEMMA LastRow ==
    ASSUME NEW N \in Nat, NEW S \in SUBSET (0..N), S # {}
    PROVE  Max(S) \in S /\ \A m \in S : m <= Max(S)
  <1> DEFINE T == {N - n : n \in S}
  <1>1. T \in SUBSET Nat /\ T # {}
    <2>1. \A n \in S : N - n \in Nat
      OBVIOUS
    <2>2. PICK n \in S : TRUE
      OBVIOUS
    <2>3. N - n \in T
      OBVIOUS
    <2>4. ASSUME NEW t \in T PROVE t \in Nat
      <3>1. PICK k \in S : t = N - k
        OBVIOUS
      <3> QED
        BY <2>1, <3>1
    <2> QED
      BY <2>3, <2>4
  <1>2. PICK t \in T : \A u \in T : t <= u
    <2> HIDE DEF T
    <2> QED
      BY <1>1, FirstRow
  <1>3. PICK n \in S : t = N - n
    OBVIOUS
  <1>4. \A m \in S : n >= m
    <2> SUFFICES ASSUME NEW m \in S PROVE n >= m
      OBVIOUS
    <2>1. N - m \in T
      OBVIOUS
    <2>2. N - n <= N - m
      BY <1>2, <1>3, <2>1
    <2> QED
      BY <2>2
  <1>5. Max(S) \in S /\ \A m \in S : Max(S) >= m
    BY <1>4 DEF Max
  <1> QED
    BY <1>5

-----------------------------------------------------------------------------
(* The inductive invariant.                                                *)

\* Of the accepted rows of a batch up to row n none is missing.
AllServed(b, n) ==
    \A m \in 1..n : Accepted(b, 1..Physical(b), m) => served[RowsOf[b][m].id] # NotServed

\* The checkpoint a run has read is not ahead of its batch, and what it has
\* consumed is served, by itself or by the runs before it.
RunnerOK(r) ==
    \/ runner[r] = IdleRunner
    \/ /\ runner[r] \in [batch : Batch, chunk : Chunk, checkpoint : Nat, pos : Nat]
       /\ runner[r].checkpoint \in 0..batch[runner[r].batch].checkpoint
       /\ runner[r].pos \in 0..Physical(runner[r].batch)
       /\ runner[r].batch \notin Quarantined => AllServed(runner[r].batch, runner[r].pos)

BatchOK(b) ==
    /\ batch[b].checkpoint \in 0..Physical(b)
    /\ b \notin Quarantined => AllServed(b, batch[b].checkpoint)

\* What is served is an accepted row, with the family it has in its file.
ServedOK(q) ==
    served[q].batch \in Batch =>
        LET b == served[q].batch
            n == served[q].row
        IN  /\ n \in 1..Physical(b)
            /\ RowsOf[b][n].id = q
            /\ Accepted(b, 1..Physical(b), n)
            /\ served[q].class = Classification(b, 1..Physical(b), n)

CorpusInv ==
    /\ DOMAIN runner = Runner /\ DOMAIN batch = Batch
    /\ \A r \in Runner : RunnerOK(r)
    /\ \A b \in Batch : BatchOK(b)
    /\ \A q \in RowId : ServedOK(q)

-----------------------------------------------------------------------------
(* A chunk of a run.                                                       *)

\* A run is in a batch, at a place of its file.
Running(r) == runner[r] # IdleRunner

\* The rows ahead of a run and of its chunk are accepted rows of its file.
LEMMA ChunkTypes ==
    ASSUME CorpusInv, NEW r \in Runner, Running(r)
    PROVE  /\ runner[r].batch \in Batch /\ Physical(runner[r].batch) \in Nat
           /\ runner[r].chunk \in Nat \ {0} /\ runner[r].pos \in Nat
           /\ Ahead(r) = {n \in 1..Physical(runner[r].batch) :
                            n > runner[r].pos /\ Accepted(runner[r].batch, 1..Physical(runner[r].batch), n)}
           /\ IsFiniteSet(Ahead(r)) /\ Cardinality(Ahead(r)) \in Nat
           /\ ChunkRows(r) \subseteq Ahead(r)
  <1>1. RunnerOK(r)
    BY DEF CorpusInv
  <1>2. /\ runner[r].batch \in Batch /\ runner[r].chunk \in Nat \ {0}
        /\ runner[r].pos \in 0..Physical(runner[r].batch)
    BY <1>1, CorpusAssumption DEF RunnerOK, Running
  <1>3. Physical(runner[r].batch) \in Nat
    BY <1>2, CorpusAssumption DEF Physical
  <1>4. IsFiniteSet(1..Physical(runner[r].batch))
    BY <1>3, FS_Interval
  <1>5. Ahead(r) \in SUBSET (1..Physical(runner[r].batch))
    BY DEF Ahead, Streamed
  <1>6. IsFiniteSet(Ahead(r)) /\ Cardinality(Ahead(r)) \in Nat
    BY <1>4, <1>5, FS_Subset, FS_CardinalityType
  <1> QED
    BY <1>2, <1>3, <1>6 DEF Ahead, Streamed, ChunkRows

\* How many of the rows ahead come up to row n.
LEMMA UpTo ==
    ASSUME CorpusInv, NEW r \in Runner, Running(r), NEW n \in Nat, NEW m \in Nat, n <= m
    PROVE  /\ Cardinality({k \in Ahead(r) : k <= n}) \in Nat
           /\ Cardinality({k \in Ahead(r) : k <= n}) <= Cardinality({k \in Ahead(r) : k <= m})
           /\ Cardinality({k \in Ahead(r) : k <= m}) <= Cardinality(Ahead(r))
  <1>1. IsFiniteSet(Ahead(r)) /\ Ahead(r) \subseteq Nat
    BY ChunkTypes
  <1> DEFINE N == {k \in Ahead(r) : k <= n}
             M == {k \in Ahead(r) : k <= m}
  <1>2. M \in SUBSET Ahead(r)
    OBVIOUS
  <1>3. N \in SUBSET M
    BY <1>1
  <1> HIDE DEF N, M
  <1>4. IsFiniteSet(M) /\ Cardinality(M) <= Cardinality(Ahead(r))
    BY <1>1, <1>2, FS_Subset
  <1>5. IsFiniteSet(N) /\ Cardinality(N) <= Cardinality(M)
    BY <1>3, <1>4, FS_Subset
  <1>6. Cardinality(N) \in Nat
    BY <1>5, FS_CardinalityType
  <1> QED
    BY <1>4, <1>5, <1>6 DEF N, M

\* A chunk is a prefix of the rows ahead, up to the row its checkpoint names.
LEMMA ChunkIsPrefix ==
    ASSUME CorpusInv, NEW r \in Runner, Running(r)
    PROVE  /\ CheckpointRow(r) \in 0..Physical(runner[r].batch)
           /\ ~FinalChunk(r) => CheckpointRow(r) = Max(ChunkRows(r))
           /\ \A n \in Ahead(r) : n <= CheckpointRow(r) => n \in ChunkRows(r)
  <1>1. /\ Physical(runner[r].batch) \in Nat /\ Ahead(r) \subseteq 1..Physical(runner[r].batch)
        /\ runner[r].chunk \in Nat \ {0} /\ Cardinality(Ahead(r)) \in Nat
        /\ ChunkRows(r) \subseteq Ahead(r)
    BY ChunkTypes
  <1>2. CASE FinalChunk(r)
    <2>1. ASSUME NEW n \in Ahead(r) PROVE n \in ChunkRows(r)
      <3>1. n \in Nat /\ n <= n
        BY <1>1
      <3>2. /\ Cardinality({k \in Ahead(r) : k <= n}) \in Nat
            /\ Cardinality({k \in Ahead(r) : k <= n}) <= Cardinality(Ahead(r))
        BY <3>1, UpTo
      <3>3. Cardinality({k \in Ahead(r) : k <= n}) <= runner[r].chunk
        BY <1>1, <1>2, <3>2 DEF FinalChunk
      <3> QED
        BY <3>3 DEF ChunkRows
    <2> QED
      BY <1>1, <1>2, <2>1 DEF CheckpointRow
  <1>3. CASE ~FinalChunk(r)
    <2>1. Ahead(r) # {}
      BY <1>1, <1>3, FS_EmptySet DEF FinalChunk
    <2>2. PICK first \in Ahead(r) : \A n \in Ahead(r) : first <= n
      <3>1. Ahead(r) \in SUBSET Nat
        BY <1>1
      <3> QED
        BY <2>1, <3>1, FirstRow
    <2>3. {k \in Ahead(r) : k <= first} = {first}
      BY <1>1, <2>2
    <2>4. first \in ChunkRows(r)
      <3>1. Cardinality({first}) = 1
        BY FS_Singleton
      <3> QED
        BY <1>1, <2>3, <3>1 DEF ChunkRows
    <2> DEFINE last == Max(ChunkRows(r))
    <2>5. last \in ChunkRows(r) /\ \A n \in ChunkRows(r) : n <= last
      <3>1. ChunkRows(r) \in SUBSET (0..Physical(runner[r].batch)) /\ ChunkRows(r) # {}
        BY <1>1, <2>4
      <3> QED
        BY <1>1, <3>1, LastRow
    <2>6. CheckpointRow(r) = last
      BY <1>3 DEF CheckpointRow
    <2> HIDE DEF last
    <2>7. ASSUME NEW n \in Ahead(r), n <= last PROVE n \in ChunkRows(r)
      <3>1. n \in Nat /\ last \in Nat
        BY <1>1, <2>5
      <3>2. /\ Cardinality({k \in Ahead(r) : k <= n}) \in Nat
            /\ Cardinality({k \in Ahead(r) : k <= n}) <= Cardinality({k \in Ahead(r) : k <= last})
        BY <2>7, <3>1, UpTo
      <3>3. last \in Nat /\ last <= last
        BY <3>1
      <3>4. Cardinality({k \in Ahead(r) : k <= last}) \in Nat
        BY <3>3, UpTo
      <3>5. Cardinality({k \in Ahead(r) : k <= last}) <= runner[r].chunk
        BY <2>5 DEF ChunkRows
      <3>6. Cardinality({k \in Ahead(r) : k <= n}) <= runner[r].chunk
        BY <1>1, <3>2, <3>4, <3>5
      <3> QED
        BY <3>6 DEF ChunkRows
    <2>8. last \in 0..Physical(runner[r].batch)
      BY <1>1, <2>5
    <2> QED
      BY <1>3, <2>6, <2>7, <2>8 DEF CheckpointRow
  <1> QED
    BY <1>2, <1>3

-----------------------------------------------------------------------------
(* The steps of a run.                                                     *)

\* Rows that are served stay served, whoever's they become.
LEMMA StaysServed ==
    ASSUME \A q \in RowId : served[q] # NotServed => served'[q] # NotServed,
           NEW b \in Batch, NEW n, AllServed(b, n), n \in 0..Physical(b)
    PROVE  AllServed(b, n)'
  <1>1. \A m \in 1..n : RowsOf[b][m].id \in RowId
    BY CorpusAssumption DEF Physical
  <1> QED
    BY <1>1 DEF AllServed

\* A run starts behind the checkpoint of its batch.
LEMMA StartImportStep ==
    ASSUME CorpusInv, NEW r \in Runner, NEW b \in Batch, NEW c \in Chunk, StartImport(r, b, c)
    PROVE  CorpusInv'
  <1> USE DEF CorpusInv
  <1> DEFINE new == [batch |-> b, chunk |-> c, checkpoint |-> batch[b].checkpoint, pos |-> 0]
  <1>1. /\ DOMAIN runner' = Runner /\ DOMAIN batch' = Batch
        /\ runner'[r] = new /\ \A x \in Runner \ {r} : runner'[x] = runner[x]
        /\ served' = served
    BY DEF StartImport
  <1>2. \A a \in Batch : batch'[a].checkpoint = batch[a].checkpoint
    BY DEF StartImport
  <1>3. batch[b].checkpoint \in 0..Physical(b) /\ Physical(b) \in Nat
    BY CorpusAssumption DEF BatchOK, Physical
  <1>4. RunnerOK(r)'
    <2>1. AllServed(b, 0)'
      BY DEF AllServed
    <2>2. Physical(b)' = Physical(b)
      BY DEF Physical
    <2> QED
      BY <1>1, <1>2, <1>3, <2>1, <2>2 DEF RunnerOK
  <1>5. ASSUME NEW x \in Runner \ {r} PROVE RunnerOK(x)'
    BY <1>1, <1>2, <1>5 DEF RunnerOK, AllServed
  <1>6. ASSUME NEW a \in Batch PROVE BatchOK(a)'
    BY <1>1, <1>2, <1>6 DEF BatchOK, AllServed
  <1>7. ASSUME NEW q \in RowId PROVE ServedOK(q)'
    BY <1>1, <1>7 DEF ServedOK
  <1> QED
    BY <1>1, <1>4, <1>5, <1>6, <1>7

\* A run that ends leaves what it has imported.
LEMMA ImportStopsStep ==
    ASSUME CorpusInv, NEW r \in Runner, ImportStops(r)
    PROVE  CorpusInv'
  <1> USE DEF CorpusInv
  <1>1. /\ DOMAIN runner' = Runner /\ batch' = batch /\ served' = served
        /\ runner'[r] = IdleRunner /\ \A x \in Runner \ {r} : runner'[x] = runner[x]
    BY DEF ImportStops
  <1>2. ASSUME NEW x \in Runner PROVE RunnerOK(x)'
    BY <1>1, <1>2 DEF RunnerOK, AllServed
  <1>3. ASSUME NEW a \in Batch PROVE BatchOK(a)'
    BY <1>1, <1>3 DEF BatchOK, AllServed
  <1>4. ASSUME NEW q \in RowId PROVE ServedOK(q)'
    BY <1>1, <1>4 DEF ServedOK
  <1> QED
    BY <1>1, <1>2, <1>3, <1>4

\* A flush writes accepted rows of its chunk and nothing else.
LEMMA FlushedRows ==
    ASSUME CorpusInv, NEW r \in Runner, Flush(r)
    PROVE  LET b == runner[r].batch
               N == Physical(b)
           IN
           \A q \in RowId :
              \/ /\ served'[q] = served[q]
                 /\ ~\E n \in Pending(r) : RowsOf[b][n].id = q
              \/ \E n \in 1..N : /\ RowsOf[b][n].id = q
                                 /\ Accepted(b, 1..N, n)
                                 /\ served'[q] = ImportRow(r, n)
  <1> DEFINE b == runner[r].batch
             N == Physical(b)
  <1>1. /\ N \in Nat /\ Ahead(r) = {n \in 1..N : n > runner[r].pos /\ Accepted(b, 1..N, n)}
        /\ ChunkRows(r) \subseteq Ahead(r)
    BY ChunkTypes DEF Flush, Running
  <1>2. ASSUME NEW q \in RowId
        PROVE  \/ served'[q] = served[q] /\ ~\E n \in Pending(r) : RowsOf[b][n].id = q
               \/ \E n \in 1..N : /\ RowsOf[b][n].id = q
                                  /\ Accepted(b, 1..N, n)
                                  /\ served'[q] = ImportRow(r, n)
    <2> DEFINE own == {n \in Pending(r) : RowsOf[b][n].id = q}
    <2>1. served'[q] = IF own = {} THEN served[q] ELSE ImportRow(r, Max(own))
      BY DEF Flush
    <2>2. CASE own = {}
      BY <2>1, <2>2
    <2>3. CASE own # {}
      <3>1. own \in SUBSET (1..N) /\ \A n \in own : Accepted(b, 1..N, n) /\ RowsOf[b][n].id = q
        BY <1>1 DEF Pending
      <3>2. Max(own) \in own
        <4>1. own \in SUBSET (0..N)
          BY <1>1, <3>1
        <4> HIDE DEF own, N
        <4> QED
          BY <1>1, <2>3, <4>1, LastRow
      <3> QED
        BY <2>1, <2>3, <3>1, <3>2
    <2> QED
      BY <2>2, <2>3
  <1> QED
    BY <1>2

\* The rows and the checkpoint of a chunk.
LEMMA FlushStep ==
    ASSUME CorpusInv, NEW r \in Runner, Flush(r)
    PROVE  CorpusInv'
  <1> USE DEF CorpusInv
  <1>1. PICK b \in Batch : b = runner[r].batch
    BY ChunkTypes DEF Flush, Running
  <1>2. PICK N \in Nat : N = Physical(b)
    BY <1>1, ChunkTypes DEF Flush, Running
  <1>3. PICK point \in 0..N : point = CheckpointRow(r)
    BY <1>1, <1>2, ChunkIsPrefix DEF Flush, Running
  <1>4. /\ RunnerOK(r) /\ runner[r] # IdleRunner /\ runner[r].pos \in 0..N /\ runner[r].chunk \in Chunk
        /\ runner[r].checkpoint \in 0..batch[b].checkpoint /\ batch[b].checkpoint \in 0..N
    BY <1>1, <1>2 DEF Flush, RunnerOK, BatchOK
  <1>5. \A q \in RowId :
           \/ served'[q] = served[q] /\ ~\E n \in Pending(r) : RowsOf[b][n].id = q
           \/ \E n \in 1..N : RowsOf[b][n].id = q /\ Accepted(b, 1..N, n) /\ served'[q] = ImportRow(r, n)
    BY <1>1, <1>2, FlushedRows
  <1>6. ASSUME NEW n \in 1..N
        PROVE  /\ ImportRow(r, n) # NotServed
               /\ ImportRow(r, n).batch = b /\ ImportRow(r, n).row = n
               /\ ImportRow(r, n).class = Classification(b, 1..N, n)
    BY <1>1, <1>2, CorpusAssumption DEF ImportRow, NotServed, Streamed
  <1>7. \A q \in RowId : served[q] # NotServed => served'[q] # NotServed
    BY <1>5, <1>6
  <1>8. PICK reached \in 0..N : /\ reached = Max({batch[b].checkpoint, point})
                               /\ reached \in {batch[b].checkpoint, point}
                               /\ batch[b].checkpoint <= reached /\ point <= reached
    <2> DEFINE S == {batch[b].checkpoint, point}
    <2>1. S \in SUBSET (0..N) /\ S # {} /\ batch[b].checkpoint \in S /\ point \in S
      BY <1>4
    <2>2. Max(S) \in S /\ \A m \in S : m <= Max(S)
      <3> HIDE DEF S
      <3> QED
        BY <2>1, LastRow
    <2>3. Max(S) \in 0..N /\ batch[b].checkpoint <= Max(S) /\ point <= Max(S)
      BY <2>1, <2>2
    <2> QED
      BY <2>2, <2>3
  <1>9. /\ DOMAIN batch' = Batch /\ batch'[b].checkpoint = reached
        /\ \A a \in Batch \ {b} : batch'[a] = batch[a]
    BY <1>1, <1>3, <1>8 DEF Flush
  <1>10. DOMAIN runner' = Runner /\ \A x \in Runner \ {r} : runner'[x] = runner[x]
    BY DEF Flush
  <1>11. b \notin Quarantined => AllServed(b, point)'
    <2> SUFFICES ASSUME b \notin Quarantined, NEW m \in 1..point, Accepted(b, 1..N, m)
                 PROVE  served'[RowsOf[b][m].id] # NotServed
      BY <1>2 DEF AllServed
    <2>1. m \in 1..N /\ RowsOf[b][m].id \in RowId
      BY <1>2, CorpusAssumption DEF Physical
    <2>2. CASE m <= runner[r].pos
      BY <1>1, <1>2, <1>4, <1>7, <2>1, <2>2 DEF RunnerOK, AllServed
    <2>3. CASE m <= runner[r].checkpoint
      <3>1. AllServed(b, batch[b].checkpoint) /\ m \in 1..batch[b].checkpoint
        BY <1>4, <2>1, <2>3 DEF BatchOK
      <3> QED
        BY <1>2, <1>7, <2>1, <3>1 DEF AllServed
    <2>4. CASE m > runner[r].pos /\ m > runner[r].checkpoint
      <3>1. m \in Ahead(r)
        BY <1>1, <1>2, <2>1, <2>4 DEF Ahead, Streamed
      <3>2. m \in Pending(r)
        BY <1>1, <1>3, <2>4, <3>1, ChunkIsPrefix DEF Pending, Flush, Running
      <3> QED
        BY <1>5, <1>6, <2>1, <3>2
    <2> QED
      BY <1>4, <2>1, <2>2, <2>3, <2>4
  <1>12. ASSUME NEW a \in Batch PROVE BatchOK(a)'
    <2>1. CASE a = b
      <3>1. b \notin Quarantined => AllServed(b, batch[b].checkpoint)'
        <4>1. ASSUME b \notin Quarantined PROVE AllServed(b, reached)'
          <5>1. CASE reached = point
            BY <1>11, <4>1, <5>1
          <5>2. CASE reached = batch[b].checkpoint
            <6>1. AllServed(b, reached)
              BY <4>1, <5>2 DEF BatchOK
            <6> QED
              BY <1>2, <1>7, <6>1, StaysServed
          <5> QED
            BY <1>8, <5>1, <5>2
        <4> QED
          BY <1>9, <4>1
      <3> QED
        BY <2>1, <1>2, <1>9, <3>1 DEF BatchOK
    <2>2. CASE a # b
      <3>1. PICK n \in 0..Physical(a) : n = batch[a].checkpoint
        BY DEF BatchOK
      <3>2. a \notin Quarantined => AllServed(a, n)'
        BY <1>7, <3>1, StaysServed DEF BatchOK
      <3> QED
        BY <1>9, <2>2, <3>1, <3>2 DEF BatchOK
    <2> QED
      BY <2>1, <2>2
  <1>13. RunnerOK(r)'
    <2>1. CASE FinalChunk(r)
      <3>1. runner'[r] = IdleRunner
        BY <2>1 DEF Flush
      <3> QED
        BY <3>1 DEF RunnerOK
    <2>2. CASE ~FinalChunk(r)
      <3>1. point = Max(ChunkRows(r))
        BY <1>3, <2>2, ChunkIsPrefix DEF Flush, Running
      <3>2. PICK old \in [batch : Batch, chunk : Chunk, checkpoint : Nat, pos : Nat] : old = runner[r]
        BY <1>4 DEF RunnerOK
      <3>3. runner'[r] = [old EXCEPT !.pos = point]
        BY <2>2, <3>1, <3>2 DEF Flush
      <3>4. /\ runner'[r] \in [batch : Batch, chunk : Chunk, checkpoint : Nat, pos : Nat]
            /\ runner'[r].batch = old.batch /\ runner'[r].checkpoint = old.checkpoint
            /\ runner'[r].pos = point
        BY <3>3
      <3> QED
        BY <1>1, <1>2, <1>4, <1>8, <1>9, <1>11, <3>2, <3>4 DEF RunnerOK
    <2> QED
      BY <2>1, <2>2
  <1>14. ASSUME NEW x \in Runner \ {r} PROVE RunnerOK(x)'
    <2>1. CASE runner[x] = IdleRunner
      BY <1>10, <2>1 DEF RunnerOK
    <2>2. CASE runner[x] # IdleRunner
      <3>1. PICK a \in Batch : a = runner[x].batch
        BY <2>2 DEF RunnerOK
      <3>2. PICK n \in 0..Physical(a) : n = runner[x].pos
        BY <2>2, <3>1 DEF RunnerOK
      <3>3. a \notin Quarantined => AllServed(a, n)'
        BY <1>7, <2>2, <3>1, <3>2, StaysServed DEF RunnerOK
      <3>4. /\ batch[a].checkpoint \in Nat /\ batch'[a].checkpoint \in Nat
            /\ batch[a].checkpoint <= batch'[a].checkpoint
        BY <1>4, <1>8, <1>9, <1>12, CorpusAssumption DEF BatchOK, Physical
      <3> QED
        BY <1>10, <2>2, <3>1, <3>2, <3>3, <3>4 DEF RunnerOK
    <2> QED
      BY <2>1, <2>2
  <1>15. ASSUME NEW q \in RowId PROVE ServedOK(q)'
    <2>1. CASE served'[q] = served[q]
      BY <2>1 DEF ServedOK
    <2>2. CASE \E n \in 1..N : RowsOf[b][n].id = q /\ Accepted(b, 1..N, n) /\ served'[q] = ImportRow(r, n)
      <3>1. PICK n \in 1..N : RowsOf[b][n].id = q /\ Accepted(b, 1..N, n) /\ served'[q] = ImportRow(r, n)
        BY <2>2
      <3>2. served'[q].batch = b /\ served'[q].row = n /\ served'[q].class = Classification(b, 1..N, n)
        BY <1>6, <3>1
      <3> QED
        BY <1>2, <3>1, <3>2 DEF ServedOK
    <2> QED
      BY <1>5, <2>1, <2>2
  <1> QED
    BY <1>9, <1>10, <1>12, <1>13, <1>14, <1>15

-----------------------------------------------------------------------------
(* The theorem.                                                            *)

LEMMA CorpusInvariant == CorpusSpec => []CorpusInv
  <1>1. CorpusInit => CorpusInv
    <2> SUFFICES ASSUME CorpusInit PROVE CorpusInv
      OBVIOUS
    <2>1. \A b \in Batch : Physical(b) \in Nat
      BY CorpusAssumption DEF Physical
    <2>2. \A b \in Batch : BatchOK(b)
      BY <2>1 DEF CorpusInit, BatchOK, AllServed
    <2>3. \A q \in RowId : ServedOK(q)
      BY CorpusAssumption DEF CorpusInit, ServedOK, NotServed
    <2> QED
      BY <2>2, <2>3 DEF CorpusInit, CorpusInv, RunnerOK
  <1>2. CorpusInv /\ [CorpusNext]_corpusVars => CorpusInv'
    <2> SUFFICES ASSUME CorpusInv, [CorpusNext]_corpusVars PROVE CorpusInv'
      OBVIOUS
    <2>1. CASE CorpusNext
      BY <2>1, StartImportStep, FlushStep, ImportStopsStep DEF CorpusNext
    <2>2. CASE UNCHANGED corpusVars
      BY <2>2 DEF corpusVars, CorpusInv, RunnerOK, BatchOK, ServedOK, AllServed
    <2> QED
      BY <2>1, <2>2
  <1> QED
    BY <1>1, <1>2, PTL DEF CorpusSpec

\* However often an import is stopped, resumed with another chunk size or run
\* beside another run of its batch, what is served is what one uninterrupted
\* run would serve (process_source, flush).
THEOREM ResumingIsSafe == CorpusSpec => []ResumesAsUninterrupted
  <1>1. CorpusInv => ResumesAsUninterrupted
    BY DEF CorpusInv, ResumesAsUninterrupted, BatchOK, ServedOK, AllServed
  <1> QED
    BY <1>1, CorpusInvariant, PTL

-----------------------------------------------------------------------------
(* External references.                                                    *)

\* A collector's references go out in batches; a collection that fits one batch
\* is sent whole or has been sent.
Collections == [pc : {"idle", "sync"}, todo : Seq(ExternalReferenceInput), all : Seq(ExternalReferenceInput)]
SourceInv ==
    /\ collector \in [Collector -> Collections]
    /\ DOMAIN refs = Url
    /\ \A c \in Collector : CompleteSnapshot(c) => collector[c].todo \in {<<>>, collector[c].all}

\* What the next batch is and what it leaves.
LEMMA Batches ==
    ASSUME SourceInv, NEW c \in Collector, collector[c].todo # <<>>
    PROVE  LET todo == collector[c].todo
               rest == SubSeq(todo, Len(NextBatch(c)) + 1, Len(todo))
           IN  /\ rest \in Seq(ExternalReferenceInput)
               /\ CompleteSnapshot(c) => rest = <<>> /\ NextBatch(c) = collector[c].all
  <1>1. PICK todo \in Seq(ExternalReferenceInput) : todo = collector[c].todo
    BY DEF SourceInv, Collections
  <1>2. PICK all \in Seq(ExternalReferenceInput) : all = collector[c].all
    BY DEF SourceInv, Collections
  <1>3. /\ Len(todo) \in Nat \ {0} /\ SyncLimit \in Nat \ {0}
        /\ NextBatch(c) = SubSeq(todo, 1, IF Len(todo) < SyncLimit THEN Len(todo) ELSE SyncLimit)
    BY <1>1, SourceAssumption DEF NextBatch
  <1>4. Len(NextBatch(c)) \in Nat
    BY <1>3
  <1>5. SubSeq(todo, Len(NextBatch(c)) + 1, Len(todo)) \in Seq(ExternalReferenceInput)
    BY <1>3, <1>4
  <1>6. ASSUME CompleteSnapshot(c)
        PROVE  NextBatch(c) = all /\ SubSeq(todo, Len(NextBatch(c)) + 1, Len(todo)) = <<>>
    <2>1. todo = all /\ Len(todo) <= SyncLimit
      BY <1>1, <1>2, <1>6 DEF SourceInv, CompleteSnapshot
    <2>2. NextBatch(c) = SubSeq(todo, 1, Len(todo))
      BY <1>3, <2>1
    <2>3. SubSeq(todo, 1, Len(todo)) = todo
      BY SubSeqFull
    <2>4. SubSeq(todo, Len(todo) + 1, Len(todo)) = <<>>
      BY <1>3, SubSeqEmpty
    <2> QED
      BY <2>1, <2>2, <2>3, <2>4
  <1> QED
    BY <1>1, <1>2, <1>5, <1>6

\* One collector changes.
LEMMA OneCollector ==
    ASSUME SourceInv, DOMAIN refs' = Url, NEW c \in Collector, NEW new \in Collections,
           collector' = [collector EXCEPT ![c] = new],
           Len(new.all) <= SyncLimit => new.todo \in {<<>>, new.all}
    PROVE  SourceInv'
  <1>1. /\ collector' \in [Collector -> Collections] /\ collector'[c] = new
        /\ \A d \in Collector \ {c} : collector'[d] = collector[d]
    BY DEF SourceInv
  <1> QED
    BY <1>1 DEF SourceInv, CompleteSnapshot

\* A batch never takes back what its collection found.
LEMMA SyncBatchStep ==
    ASSUME SourceInv, NEW c \in Collector, SyncBatch(c)
    PROVE  /\ SourceInv'
           /\ \A d \in Collector \ {c} : collector'[d] = collector[d]
           /\ \A n \in DOMAIN collector[c].all :
                LET u == collector[c].all[n].url IN
                u \in Url /\ refs[u].availability = "available" => refs'[u].availability = "available"
  <1> DEFINE given == NextBatch(c)
  <1>1. PICK old \in Collections : old = collector[c] /\ old.todo # <<>>
    BY DEF SourceInv, SyncBatch
  <1>2. PICK rest \in Seq(ExternalReferenceInput) :
           /\ rest = SubSeq(old.todo, Len(given) + 1, Len(old.todo))
           /\ CompleteSnapshot(c) => rest = <<>> /\ given = old.all
    BY <1>1, Batches
  <1> DEFINE new == [old EXCEPT !.todo = rest]
  <1>3. new \in Collections /\ new.all = old.all /\ new.todo = rest
    BY DEF Collections
  <1>4. collector' = [collector EXCEPT ![c] = new]
    BY <1>1, <1>2 DEF SyncBatch
  <1>5. refs' = Upserted(given, CompleteSnapshot(c))
    BY DEF SyncBatch
  <1> HIDE DEF new
  <1>6. DOMAIN refs' = Url
    BY <1>5 DEF Upserted
  <1>7. SourceInv'
    BY <1>1, <1>2, <1>3, <1>4, <1>6, OneCollector DEF CompleteSnapshot
  <1>8. ASSUME NEW n \in DOMAIN old.all, old.all[n].url \in Url,
               refs[old.all[n].url].availability = "available"
        PROVE  refs'[old.all[n].url].availability = "available"
    <2>1. PICK u \in Url : u = old.all[n].url
      BY <1>8
    <2>2. CASE u \in {given[k].url : k \in DOMAIN given}
      BY <1>5, <2>1, <2>2 DEF Upserted
    <2>3. CASE u \notin {given[k].url : k \in DOMAIN given}
      <3>1. ~CompleteSnapshot(c)
        BY <1>2, <2>1, <2>3
      <3> QED
        BY <1>5, <1>8, <2>1, <2>3, <3>1 DEF Upserted
    <2> QED
      BY <2>2, <2>3
  <1>9. \A d \in Collector \ {c} : collector'[d] = collector[d]
    BY <1>4 DEF SourceInv
  <1> QED
    BY <1>1, <1>7, <1>8, <1>9

\* What a collector has found is not taken back by its own later batches: only a
\* batch that is the whole collection is sent as a complete snapshot
\* (collect_external_references.py synchronize, SourceRegistryRepository.sync).
THEOREM FindsStay == SourceSpec => OwnFindsStayAvailable
  <1> DEFINE Kept == \A c \in Collector : collector'[c].todo # collector[c].todo /\ refs' # refs =>
                        \A n \in DOMAIN collector[c].all : LET u == collector[c].all[n].url IN
                          u \in Url /\ refs[u].availability = "available" => refs'[u].availability = "available"
  <1>1. SourceInit => SourceInv
    BY DEF SourceInit, SourceInv, IdleCollector, Collections
  <1>2. SourceInv /\ [SourceNext]_sourceVars => SourceInv' /\ [Kept]_sourceVars
    <2> SUFFICES ASSUME SourceInv, [SourceNext]_sourceVars
                 PROVE  SourceInv' /\ [Kept]_sourceVars
      OBVIOUS
    <2>1. ASSUME NEW c \in Collector, SyncBatch(c)
          PROVE  SourceInv' /\ Kept
      BY <2>1, SyncBatchStep
    <2>2. ASSUME NEW c \in Collector, NEW co \in Collectable, NEW found \in Found, StartCollecting(c, co, found)
          PROVE  SourceInv' /\ UNCHANGED refs
      <3>1. [pc |-> "sync", todo |-> found, all |-> found] \in Collections
        BY SourceAssumption DEF Collections
      <3> QED
        BY <2>2, <3>1, OneCollector DEF StartCollecting, SourceInv
    <2>3. ASSUME NEW c \in Collector, SyncRefused(c) \/ RecomputeCommit(c)
          PROVE  SourceInv' /\ UNCHANGED refs
      <3>1. IdleCollector \in Collections /\ IdleCollector.todo = <<>>
        BY DEF IdleCollector, Collections
      <3> QED
        BY <2>3, <3>1, OneCollector DEF SyncRefused, RecomputeCommit, SourceInv
    <2>4. CASE UNCHANGED <<refs, collector>>
      BY <2>4 DEF SourceInv, CompleteSnapshot
    <2> QED
      BY <2>1, <2>2, <2>3, <2>4
         DEF SourceNext, sourceVars, ReviewSource, HostedChanges, RecomputeRead
  <1> QED
    BY <1>1, <1>2, PTL DEF SourceSpec, OwnFindsStayAvailable

-----------------------------------------------------------------------------
(* Recursion.                                                              *)

\* Induction, on a set of numbers.
LEMMA EveryNumber ==
    ASSUME NEW P, 0 \in P, \A n \in Nat : n \in P => n + 1 \in P
    PROVE  \A n \in Nat : n \in P
  <1> SUFFICES ASSUME Nat \ P # {} PROVE FALSE
    OBVIOUS
  <1>1. PICK n \in Nat \ P : \A m \in Nat \ P : n <= m
    BY FirstRow
  <1>2. n # 0 /\ n - 1 \in Nat /\ n = (n - 1) + 1
    BY <1>1
  <1>3. n - 1 \in P
    BY <1>1, <1>2
  <1> QED
    BY <1>1, <1>2, <1>3

\* A function of a set can be iterated.
LEMMA Iteration ==
    ASSUME NEW V, NEW start \in V, NEW G \in [V -> V]
    PROVE  \E f \in [Nat -> V] : f[0] = start /\ \A n \in Nat : f[n + 1] = G[f[n]]
  <1> DEFINE Prefix(h, n) == /\ h \in [0..n -> V]
                             /\ h[0] = start
                             /\ \A i \in Nat : i < n => h[i + 1] = G[h[i]]
             Has == {n \in Nat : \E h : Prefix(h, n)}
             Same(i) == \A m, n \in Nat : \A g, h :
                          Prefix(g, m) /\ Prefix(h, n) /\ i <= m /\ i <= n => g[i] = h[i]
             Agree == {i \in Nat : Same(i)}
             f == [n \in Nat |-> (CHOOSE h : Prefix(h, n))[n]]
  <1>1. 0 \in Has
    <2>1. Prefix([i \in 0..0 |-> start], 0)
      OBVIOUS
    <2> QED
      BY <2>1
  <1>2. ASSUME NEW n \in Nat, n \in Has PROVE n + 1 \in Has
    <2>1. PICK h : Prefix(h, n)
      BY <1>2
    <2> DEFINE g == [i \in 0..n + 1 |-> IF i <= n THEN h[i] ELSE G[h[n]]]
    <2>2. h[n] \in V /\ G[h[n]] \in V
      BY <2>1
    <2>3. g \in [0..n + 1 -> V]
      BY <2>1, <2>2
    <2>4. g[0] = start
      BY <2>1
    <2>5. ASSUME NEW i \in Nat, i < n + 1 PROVE g[i + 1] = G[g[i]]
      <3>1. g[i] = h[i]
        BY <2>5
      <3>2. CASE i < n
        BY <2>1, <3>1, <3>2
      <3>3. CASE i = n
        BY <3>1, <3>3
      <3> QED
        BY <2>5, <3>2, <3>3
    <2>6. Prefix(g, n + 1)
      BY <2>3, <2>4, <2>5
    <2> QED
      BY <2>6
  <1>3. \A n \in Nat : n \in Has
    <2> HIDE DEF Has
    <2> QED
      BY <1>1, <1>2, EveryNumber
  <1>4. Same(0)
    OBVIOUS
  <1>5. ASSUME NEW i \in Nat, Same(i) PROVE Same(i + 1)
    <2>1. ASSUME NEW m \in Nat, NEW n \in Nat, NEW g, NEW h, Prefix(g, m), Prefix(h, n),
                 i + 1 <= m, i + 1 <= n
          PROVE  g[i + 1] = h[i + 1]
      <3>1. i <= m /\ i <= n /\ i < m /\ i < n
        BY <2>1
      <3>2. g[i] = h[i]
        <4> HIDE DEF Prefix
        <4> QED
          BY <1>5, <2>1, <3>1
      <3>3. g[i + 1] = G[g[i]] /\ h[i + 1] = G[h[i]]
        BY <2>1, <3>1, Zenon
      <3> QED
        BY <3>2, <3>3
    <2> HIDE DEF Prefix
    <2> QED
      BY <2>1
  <1>6. \A i \in Nat : Same(i)
    <2> HIDE DEF Same
    <2>1. 0 \in Agree /\ \A n \in Nat : n \in Agree => n + 1 \in Agree
      BY <1>4, <1>5
    <2> HIDE DEF Agree
    <2>2. \A n \in Nat : n \in Agree
      BY <2>1, EveryNumber
    <2> QED
      BY <2>2 DEF Agree
  <1>7. ASSUME NEW n \in Nat PROVE Prefix(CHOOSE h : Prefix(h, n), n)
    <2>1. \E h : Prefix(h, n)
      BY <1>3
    <2> HIDE DEF Prefix
    <2> QED
      BY <2>1, Zenon
  <1>8. f \in [Nat -> V]
    <2>1. ASSUME NEW n \in Nat PROVE f[n] \in V
      <3>1. Prefix(CHOOSE h : Prefix(h, n), n)
        BY <1>7
      <3>2. (CHOOSE h : Prefix(h, n)) \in [0..n -> V]
        BY <3>1, Zenon
      <3> QED
        BY <3>2
    <2> QED
      BY <2>1
  <1>9. f[0] = start
    <2>1. Prefix(CHOOSE h : Prefix(h, 0), 0)
      BY <1>7
    <2>2. (CHOOSE h : Prefix(h, 0))[0] = start
      BY <2>1, Zenon
    <2> QED
      BY <2>2
  <1>10. ASSUME NEW n \in Nat PROVE f[n + 1] = G[f[n]]
    <2>1. PICK k : k = CHOOSE h : Prefix(h, n)
      OBVIOUS
    <2>2. PICK g : g = CHOOSE h : Prefix(h, n + 1)
      OBVIOUS
    <2>3. Prefix(k, n) /\ Prefix(g, n + 1)
      BY <1>7, <2>1, <2>2, n + 1 \in Nat
    <2>4. f[n] = k[n] /\ f[n + 1] = g[n + 1]
      BY <2>1, <2>2
    <2>5. n + 1 \in Nat /\ n < n + 1 /\ n <= n + 1 /\ n <= n
      OBVIOUS
    <2>6. g[n + 1] = G[g[n]]
      BY <2>3, <2>5, Zenon
    <2>7. Same(n)
      BY <1>6
    <2>8. g[n] = k[n]
      <3> HIDE DEF Prefix
      <3> QED
        BY <2>3, <2>5, <2>7
    <2> QED
      BY <2>4, <2>6, <2>8
  <1> QED
    BY <1>8, <1>9, <1>10

\* The sizes of the subsets of a finite set.
LEMMA SubsetSize ==
    ASSUME NEW S, IsFiniteSet(S), NEW s \in SUBSET S
    PROVE  /\ Cardinality(s) \in Nat /\ Cardinality(s) <= Cardinality(S)
           /\ Cardinality(s) = 0 => s = {}
           /\ s = {} => Cardinality(s) = 0
           /\ \A x \in s : Cardinality(s \ {x}) = Cardinality(s) - 1
  <1>1. IsFiniteSet(s) /\ Cardinality(s) <= Cardinality(S)
    BY FS_Subset
  <1>2. Cardinality(s) \in Nat
    BY <1>1, FS_CardinalityType
  <1>3. Cardinality(s) = 0 <=> s = {}
    BY <1>1, FS_EmptySet, Zenon
  <1>4. ASSUME NEW x \in s PROVE Cardinality(s \ {x}) = Cardinality(s) - 1
    BY <1>1, FS_RemoveElement
  <1> QED
    BY <1>1, <1>2, <1>3, <1>4

\* Induction over the subsets of a finite set, whatever element is taken away.
LEMMA EverySubset ==
    ASSUME NEW S, IsFiniteSet(S), NEW pick, \A s \in SUBSET S : s # {} => pick[s] \in s,
           NEW P, {} \in P, \A s \in SUBSET S : s # {} /\ s \ {pick[s]} \in P => s \in P
    PROVE  \A s \in SUBSET S : s \in P
  <1> DEFINE Sized(n) == \A s \in SUBSET S : Cardinality(s) = n => s \in P
             Q == {n \in Nat : Sized(n)}
  <1>1. ASSUME NEW s \in SUBSET S
        PROVE  /\ Cardinality(s) \in Nat
               /\ Cardinality(s) = 0 <=> s = {}
               /\ s # {} => Cardinality(s \ {pick[s]}) = Cardinality(s) - 1
    BY SubsetSize
  <1>2. Sized(0)
    BY <1>1
  <1>3. ASSUME NEW n \in Nat, Sized(n) PROVE Sized(n + 1)
    <2> SUFFICES ASSUME NEW s \in SUBSET S, Cardinality(s) = n + 1 PROVE s \in P
      OBVIOUS
    <2>1. s # {}
      BY <1>1
    <2>2. Cardinality(s \ {pick[s]}) = n
      BY <1>1, <2>1
    <2>3. s \ {pick[s]} \in P
      BY <1>3, <2>2
    <2> QED
      BY <2>1, <2>3
  <1>4. \A n \in Nat : Sized(n)
    <2> HIDE DEF Sized
    <2>1. 0 \in Q /\ \A n \in Nat : n \in Q => n + 1 \in Q
      BY <1>2, <1>3
    <2> HIDE DEF Q
    <2>2. \A n \in Nat : n \in Q
      BY <2>1, EveryNumber
    <2> QED
      BY <2>2 DEF Q
  <1> QED
    BY <1>1, <1>4

\* A function of the subsets of a finite set may be defined by recursion.
FoldsOver(S, pick, base, G, iter) ==
    iter = [s \in SUBSET S |-> IF s = {} THEN base ELSE G[pick[s]][iter[s \ {pick[s]}]]]

LEMMA SetRecursion ==
    ASSUME NEW S, IsFiniteSet(S), NEW pick, \A s \in SUBSET S : s # {} => pick[s] \in s,
           NEW V, NEW base \in V, NEW G \in [S -> [V -> V]]
    PROVE  \E iter \in [SUBSET S -> V] : FoldsOver(S, pick, base, G, iter)
  <1> DEFINE W == [SUBSET S -> V]
             Stepped(h) == [s \in SUBSET S |-> IF s = {} THEN base ELSE G[pick[s]][h[s \ {pick[s]}]]]
             F == [h \in W |-> Stepped(h)]
             start == [s \in SUBSET S |-> base]
  <1>1. ASSUME NEW h \in W PROVE Stepped(h) \in W
    <2>1. ASSUME NEW s \in SUBSET S, s # {} PROVE G[pick[s]][h[s \ {pick[s]}]] \in V
      <3>1. pick[s] \in S /\ s \ {pick[s]} \in SUBSET S
        BY <2>1
      <3> QED
        BY <3>1
    <2> QED
      BY <2>1
  <1>2. start \in W /\ F \in [W -> W]
    BY <1>1
  <1>3. PICK f \in [Nat -> W] : f[0] = start /\ \A n \in Nat : f[n + 1] = F[f[n]]
    <2> DEFINE Iterates(u, H, h) == h[0] = u /\ \A n \in Nat : h[n + 1] = H[h[n]]
    <2>1. \A U : \A u \in U : \A H \in [U -> U] : \E f \in [Nat -> U] : Iterates(u, H, f)
      BY Iteration
    <2> HIDE DEF W, F, start, Iterates
    <2>2. \E f \in [Nat -> W] : Iterates(start, F, f)
      BY <1>2, <2>1, Zenon
    <2> QED
      BY <2>2 DEF Iterates
  <1>4. f[0] = start /\ \A n \in Nat : f[n] \in W /\ f[n + 1] = Stepped(f[n])
    <2> HIDE DEF W, Stepped
    <2> QED
      BY <1>3
  <1> DEFINE Done(n) == \A s \in SUBSET S : Cardinality(s) <= n => f[n + 1][s] = f[n][s]
             D == {n \in Nat : Done(n)}
  <1>5. ASSUME NEW s \in SUBSET S
        PROVE  /\ Cardinality(s) \in Nat /\ Cardinality(s) <= Cardinality(S)
               /\ Cardinality(s) = 0 <=> s = {}
               /\ s # {} => Cardinality(s \ {pick[s]}) = Cardinality(s) - 1
    BY SubsetSize
  <1>6. Done(0)
    <2> SUFFICES ASSUME NEW s \in SUBSET S, Cardinality(s) <= 0 PROVE f[0 + 1][s] = f[0][s]
      OBVIOUS
    <2>1. s = {}
      <3>1. Cardinality(s) \in Nat /\ (Cardinality(s) = 0 <=> s = {})
        BY <1>5
      <3>2. Cardinality(s) = 0
        BY <3>1
      <3> QED
        BY <3>1, <3>2
    <2>2. f[0][s] = base
      BY <1>4
    <2>3. f[0 + 1] = Stepped(f[0])
      <3> HIDE DEF W, Stepped, F, start
      <3> QED
        BY <1>4
    <2>4. f[0 + 1][s] = base
      BY <2>1, <2>3
    <2> QED
      BY <2>2, <2>4
  <1>7. ASSUME NEW n \in Nat, Done(n) PROVE Done(n + 1)
    <2> SUFFICES ASSUME NEW s \in SUBSET S, Cardinality(s) <= n + 1
                 PROVE  f[n + 1 + 1][s] = f[n + 1][s]
      OBVIOUS
    <2>1. f[n + 1 + 1] = Stepped(f[n + 1]) /\ f[n + 1] = Stepped(f[n])
      <3> HIDE DEF Stepped
      <3> QED
        BY <1>4, n + 1 \in Nat
    <2>2. CASE s = {}
      BY <2>1, <2>2
    <2>3. CASE s # {}
      <3>1. pick[s] \in s /\ s \ {pick[s]} \in SUBSET S
        BY <2>3
      <3>2. Cardinality(s \ {pick[s]}) <= n
        BY <1>5, <2>3
      <3>3. f[n + 1][s \ {pick[s]}] = f[n][s \ {pick[s]}]
        BY <1>7, <3>1, <3>2
      <3>4. /\ f[n + 1 + 1][s] = G[pick[s]][f[n + 1][s \ {pick[s]}]]
            /\ f[n + 1][s] = G[pick[s]][f[n][s \ {pick[s]}]]
        BY <2>1, <2>3
      <3> QED
        BY <3>3, <3>4
    <2> QED
      BY <2>2, <2>3
  <1>8. \A n \in Nat : Done(n)
    <2> HIDE DEF Done
    <2>1. 0 \in D /\ \A n \in Nat : n \in D => n + 1 \in D
      BY <1>6, <1>7
    <2> HIDE DEF D
    <2>2. \A n \in Nat : n \in D
      BY <2>1, EveryNumber
    <2> QED
      BY <2>2 DEF D
  <1> DEFINE N == Cardinality(S)
             iter == f[N]
  <1>9. N \in Nat /\ \A s \in SUBSET S : Cardinality(s) <= N
    BY <1>5, FS_CardinalityType
  <1>10. iter \in W /\ f[N + 1] \in W /\ f[N + 1] = Stepped(iter)
    <2> HIDE DEF W, Stepped, N
    <2> QED
      BY <1>4, <1>9, N + 1 \in Nat
  <1>11. \A s \in SUBSET S : f[N + 1][s] = iter[s]
    <2> HIDE DEF N
    <2> QED
      BY <1>8, <1>9
  <1>12. f[N + 1] = iter
    <2> HIDE DEF N
    <2>1. \A g, h \in W : (\A s \in SUBSET S : g[s] = h[s]) => g = h
      OBVIOUS
    <2> HIDE DEF W
    <2> QED
      BY <1>10, <1>11, <2>1, Zenon
  <1>13. iter = Stepped(iter)
    <2> HIDE DEF Stepped, N
    <2> QED
      BY <1>10, <1>12
  <1> HIDE DEF N
  <1> QED
    BY <1>10, <1>13 DEF FoldsOver

\* The subset of all rows up to one, and its last row.
LEMMA RowsUpTo ==
    /\ 1..0 = {}
    /\ \A n \in Nat : /\ Max(1..n + 1) = n + 1
                      /\ (1..n + 1) \ {n + 1} = 1..n
                      /\ 1..n + 1 # {}
  <1>1. 1..0 = {}
    OBVIOUS
  <1>2. ASSUME NEW n \in Nat PROVE Max(1..n + 1) = n + 1
    <2>1. 1..n + 1 \in SUBSET (0..n + 1) /\ 1..n + 1 # {} /\ n + 1 \in Nat
      OBVIOUS
    <2>2. Max(1..n + 1) \in 1..n + 1 /\ \A m \in 1..n + 1 : m <= Max(1..n + 1)
      BY <2>1, LastRow
    <2>3. n + 1 \in 1..n + 1
      OBVIOUS
    <2>4. n + 1 <= Max(1..n + 1)
      BY <2>2, <2>3
    <2> QED
      BY <2>2, <2>4
  <1>3. ASSUME NEW n \in Nat PROVE (1..n + 1) \ {n + 1} = 1..n /\ 1..n + 1 # {}
    OBVIOUS
  <1> QED
    BY <1>1, <1>2, <1>3

\* What FoldLeft chooses exists, when the operator keeps a set of values.
FoldsRows(N, base, G, iter) ==
    iter = [s \in SUBSET (1..N) |-> IF s = {} THEN base ELSE G[Max(s)][iter[s \ {Max(s)}]]]

LEMMA FoldRecursion ==
    ASSUME NEW N \in Nat, NEW V, NEW base \in V, NEW G \in [1..N -> [V -> V]]
    PROVE  \E iter \in [SUBSET (1..N) -> V] : FoldsRows(N, base, G, iter)
  <1> DEFINE pick == [s \in SUBSET (1..N) |-> Max(s)]
  <1>1. IsFiniteSet(1..N)
    BY FS_Interval
  <1>2. ASSUME NEW s \in SUBSET (1..N), s # {} PROVE pick[s] \in s
    <2>1. s \in SUBSET (0..N)
      OBVIOUS
    <2> QED
      BY <1>2, <2>1, LastRow
  <1> HIDE DEF pick
  <1>3. PICK iter \in [SUBSET (1..N) -> V] : FoldsOver(1..N, pick, base, G, iter)
    BY <1>1, <1>2, SetRecursion
  <1>4. \A s \in SUBSET (1..N) : pick[s] = Max(s)
    BY DEF pick
  <1> QED
    BY <1>3, <1>4 DEF FoldsOver, FoldsRows

-----------------------------------------------------------------------------
(* Sums.                                                                   *)

\* The recursion that SumFunction stands for.
SumOver(S, w, iter) ==
    iter = [s \in SUBSET S |->
               IF s = {} THEN 0
               ELSE w[CHOOSE x \in s : TRUE] + iter[s \ {CHOOSE x \in s : TRUE}]]

\* It has a solution, and SumFunction is its value.
LEMMA SumIsDefined ==
    ASSUME NEW S, IsFiniteSet(S), NEW w \in [S -> Int]
    PROVE  \E iter : SumOver(S, w, iter) /\ SumFunction(w) = iter[S]
  <1> DEFINE G == [x \in S |-> [v \in Int |-> w[x] + v]]
             pick == [s \in SUBSET S |-> CHOOSE x \in s : TRUE]
  <1>1. G \in [S -> [Int -> Int]]
    OBVIOUS
  <1>2. \A s \in SUBSET S : s # {} => pick[s] \in s
    OBVIOUS
  <1>3. PICK iter \in [SUBSET S -> Int] : FoldsOver(S, pick, 0, G, iter)
    <2> HIDE DEF G, pick
    <2> QED
      BY <1>1, <1>2, SetRecursion, 0 \in Int
  <1>4. ASSUME NEW s \in SUBSET S, s # {}
        PROVE  G[pick[s]][iter[s \ {pick[s]}]]
                 = w[CHOOSE x \in s : TRUE] + iter[s \ {CHOOSE x \in s : TRUE}]
    <2>1. pick[s] = CHOOSE x \in s : TRUE
      OBVIOUS
    <2>2. pick[s] \in S
      BY <1>2, <1>4
    <2> HIDE DEF pick
    <2> QED
      BY <2>1, <2>2
  <1>5. SumOver(S, w, iter)
    <2> HIDE DEF G, pick
    <2> QED
      BY <1>3, <1>4 DEF SumOver, FoldsOver
  <1>6. SumFunction(w) = (CHOOSE f : SumOver(S, w, f))[S]
    BY DEF SumFunction, SumFunctionOnSet, FoldFunctionOnSet, MapThenFoldSet, SumOver
  <1>7. SumOver(S, w, CHOOSE f : SumOver(S, w, f))
    BY <1>5, Zenon
  <1> QED
    BY <1>6, <1>7

\* A sum of zeros is zero.
LEMMA SumOfZeros ==
    ASSUME NEW S, IsFiniteSet(S)
    PROVE  SumFunction([x \in S |-> 0]) = 0
  <1> DEFINE w == [x \in S |-> 0]
             pick == [s \in SUBSET S |-> CHOOSE x \in s : TRUE]
  <1>1. w \in [S -> Int]
    OBVIOUS
  <1>2. PICK iter : SumOver(S, w, iter) /\ SumFunction(w) = iter[S]
    <2> HIDE DEF w
    <2> QED
      BY <1>1, SumIsDefined
  <1> DEFINE P == {s \in SUBSET S : iter[s] = 0}
  <1>3. \A s \in SUBSET S : s # {} => pick[s] \in s
    OBVIOUS
  <1>4. {} \in P
    BY <1>2 DEF SumOver
  <1>5. ASSUME NEW s \in SUBSET S, s # {}, s \ {pick[s]} \in P PROVE s \in P
    <2>1. iter[s] = w[pick[s]] + iter[s \ {pick[s]}]
      BY <1>2, <1>5 DEF SumOver
    <2>2. w[pick[s]] = 0
      BY <1>3, <1>5
    <2> HIDE DEF pick, w
    <2> QED
      BY <1>5, <2>1, <2>2
  <1>6. \A s \in SUBSET S : s \in P
    <2> HIDE DEF P, pick
    <2> QED
      BY <1>3, <1>4, <1>5, EverySubset
  <1>7. iter[S] = 0
    BY <1>6
  <1> HIDE DEF w
  <1> QED
    BY <1>2, <1>7 DEF w

\* A sum changes by what one of its summands changes by.
LEMMA SumChangesBy ==
    ASSUME NEW S, IsFiniteSet(S), NEW w \in [S -> Int], NEW u \in [S -> Int], NEW x \in S,
           \A y \in S \ {x} : u[y] = w[y]
    PROVE  SumFunction(w) \in Int /\ SumFunction(u) = SumFunction(w) + (u[x] - w[x])
  <1> DEFINE pick == [s \in SUBSET S |-> CHOOSE y \in s : TRUE]
  <1>1. PICK f : SumOver(S, w, f) /\ SumFunction(w) = f[S]
    BY SumIsDefined
  <1>2. PICK g : SumOver(S, u, g) /\ SumFunction(u) = g[S]
    BY SumIsDefined
  <1> DEFINE Differ(s) == /\ f[s] \in Int
                          /\ g[s] = f[s] + (IF x \in s THEN u[x] - w[x] ELSE 0)
             P == {s \in SUBSET S : Differ(s)}
  <1>3. \A s \in SUBSET S : s # {} => pick[s] \in s
    OBVIOUS
  <1>4. {} \in P
    BY <1>1, <1>2 DEF SumOver
  <1>5. ASSUME NEW s \in SUBSET S, s # {}, Differ(s \ {pick[s]}) PROVE Differ(s)
    <2> DEFINE r == s \ {pick[s]}
    <2>1. f[s] = w[pick[s]] + f[r] /\ g[s] = u[pick[s]] + g[r]
      BY <1>1, <1>2, <1>5 DEF SumOver
    <2>2. pick[s] \in s /\ pick[s] \in S
      BY <1>3, <1>5
    <2> HIDE DEF pick
    <2>3. w[pick[s]] \in Int /\ u[pick[s]] \in Int /\ w[x] \in Int /\ u[x] \in Int
      BY <2>2
    <2>4. CASE pick[s] = x
      BY <1>5, <2>1, <2>2, <2>3, <2>4
    <2>5. CASE pick[s] # x
      <3>1. u[pick[s]] = w[pick[s]] /\ (x \in r <=> x \in s)
        BY <2>2, <2>5
      <3> QED
        BY <1>5, <2>1, <2>3, <3>1
    <2> QED
      BY <2>4, <2>5
  <1>6. \A s \in SUBSET S : s # {} /\ s \ {pick[s]} \in P => s \in P
    <2> HIDE DEF Differ, pick
    <2> QED
      BY <1>5
  <1>7. \A s \in SUBSET S : s \in P
    <2> HIDE DEF P, pick
    <2> QED
      BY <1>3, <1>4, <1>6, EverySubset
  <1>8. Differ(S)
    BY <1>7
  <1> QED
    BY <1>1, <1>2, <1>8

-----------------------------------------------------------------------------
(* The knowledge bank: what an import brings.                              *)

\* Among the rows of a finite file some are longest, and one of them is first.
LEMMA LongestRow ==
    ASSUME NEW N \in Nat, NEW f \in [1..N -> Nat], NEW D \in SUBSET (1..N), D # {}
    PROVE  \E n \in D : \A m \in D : f[m] <= f[n] /\ (m < n => f[m] < f[n])
  <1> DEFINE Bounded(n) == \E b \in Nat : \A m \in 1..N : m <= n => f[m] <= b
             P == {n \in Nat : Bounded(n)}
  <1>1. Bounded(0)
    OBVIOUS
  <1>2. ASSUME NEW n \in Nat, Bounded(n) PROVE Bounded(n + 1)
    <2>1. PICK b \in Nat : \A m \in 1..N : m <= n => f[m] <= b
      BY <1>2
    <2> DEFINE c == IF n + 1 \in 1..N /\ f[n + 1] > b THEN f[n + 1] ELSE b
    <2>2. c \in Nat /\ c >= b /\ (n + 1 \in 1..N => c >= f[n + 1])
      OBVIOUS
    <2> HIDE DEF c
    <2>3. ASSUME NEW m \in 1..N, m <= n + 1 PROVE f[m] <= c
      <3>1. CASE m = n + 1
        BY <2>2, <3>1
      <3>2. CASE m <= n
        <4>1. f[m] \in Nat /\ f[m] <= b
          BY <2>1, <3>2
        <4> QED
          BY <2>2, <4>1
      <3> QED
        BY <2>3, <3>1, <3>2
    <2> QED
      BY <2>2, <2>3
  <1>3. \A n \in Nat : Bounded(n)
    <2> HIDE DEF Bounded
    <2>1. 0 \in P /\ \A n \in Nat : n \in P => n + 1 \in P
      BY <1>1, <1>2
    <2> HIDE DEF P
    <2>2. \A n \in Nat : n \in P
      BY <2>1, EveryNumber
    <2> QED
      BY <2>2 DEF P
  <1>4. PICK b \in Nat : \A m \in 1..N : f[m] <= b
    <2>1. Bounded(N)
      BY <1>3
    <2> QED
      BY <2>1
  <1> DEFINE lens == {f[m] : m \in D}
  <1>5. lens \in SUBSET (0..b) /\ lens # {}
    <2>1. \A m \in D : f[m] \in 0..b
      <3>1. \A m \in 1..N : f[m] \in Nat /\ f[m] <= b
        BY <1>4
      <3> QED
        BY <3>1
    <2> QED
      BY <2>1
  <1>6. Max(lens) \in lens /\ \A x \in lens : x <= Max(lens)
    <2>1. \A k \in Nat : \A S \in SUBSET (0..k) :
             S # {} => Max(S) \in S /\ \A x \in S : x <= Max(S)
      BY LastRow
    <2>2. b \in Nat
      OBVIOUS
    <2> HIDE DEF lens
    <2> QED
      BY <1>5, <2>1, <2>2
  <1> DEFINE longest == {m \in D : f[m] = Max(lens)}
  <1>7. longest \in SUBSET Nat /\ longest # {}
    <2>1. PICK m \in D : Max(lens) = f[m]
      BY <1>6
    <2>2. m \in longest
      BY <2>1
    <2>3. D \in SUBSET Nat
      OBVIOUS
    <2> QED
      BY <2>2, <2>3
  <1>8. PICK n \in longest : \A m \in longest : n <= m
    <2> HIDE DEF longest
    <2> QED
      BY <1>7, FirstRow
  <1>9. ASSUME NEW m \in D PROVE f[m] <= f[n] /\ (m < n => f[m] < f[n])
    <2>1. f[m] \in Nat /\ f[n] \in Nat /\ m \in Nat /\ n \in Nat
      BY <1>8
    <2>2. f[m] <= f[n]
      BY <1>6, <1>8
    <2>3. m < n => f[m] # f[n]
      <3> HIDE DEF lens
      <3>1. f[m] = f[n] => m \in longest
        BY <1>8
      <3>2. f[m] = f[n] => n <= m
        BY <1>8, <3>1
      <3> QED
        BY <2>1, <3>2
    <2> QED
      BY <2>1, <2>2, <2>3
  <1> QED
    BY <1>8, <1>9

\* What a function makes of a finite set is finite.
LEMMA ImageIsFinite ==
    ASSUME NEW S, IsFiniteSet(S), NEW g
    PROVE  IsFiniteSet({g[x] : x \in S})
  <1> DEFINE T == {g[x] : x \in S}
             h == [x \in S |-> g[x]]
  <1>1. h \in Surjection(S, T)
    BY DEF Surjection
  <1> HIDE DEF h, T
  <1>2. IsFiniteSet(T)
    BY <1>1, FS_Surjection
  <1> QED
    BY <1>2 DEF T

\* A finite set makes a finite sequence of its elements.
LEMMA SetToSeqIsSeq ==
    ASSUME NEW S, IsFiniteSet(S)
    PROVE  SetToSeq(S) \in Seq(S)
  <1> DEFINE n == Cardinality(S)
  <1>1. n \in Nat
    BY FS_CardinalityType
  <1>2. \E f : f \in Bijection(1..n, S)
    BY FS_NatBijection, FS_CardinalityType DEF ExistsBijection
  <1>3. \E f \in [1..n -> S] : IsInjective(f)
    BY <1>2 DEF Bijection, Injection, IsInjective
  <1>4. SetToSeq(S) \in [1..n -> S]
    BY <1>3 DEF SetToSeq
  <1> QED
    BY <1>1, <1>4

\* Two sequences flattened are the one after the other.
LEMMA FlattenTwo ==
    ASSUME NEW S, NEW s \in Seq(S), NEW t \in Seq(S), NEW both, both = <<s, t>>
    PROVE  FlattenSeq(both) = s \o t
  <1> DEFINE Flattens(f) == f = [i \in 1..Len(both) |-> IF i = 1 THEN both[i] ELSE f[i - 1] \o both[i]]
             g == [i \in 1..2 |-> IF i = 1 THEN s ELSE s \o t]
  <1>1. Len(both) = 2 /\ both[1] = s /\ both[2] = t
    OBVIOUS
  <1>2. Flattens(g)
    BY <1>1
  <1>3. FlattenSeq(both) = (CHOOSE f : Flattens(f))[Len(both)]
    BY <1>1 DEF FlattenSeq
  <1>4. Flattens(CHOOSE f : Flattens(f))
    <2> HIDE DEF Flattens
    <2> QED
      BY <1>2, Zenon
  <1> DEFINE h == CHOOSE f : Flattens(f)
  <1>5. h = [i \in 1..Len(both) |-> IF i = 1 THEN both[i] ELSE h[i - 1] \o both[i]]
    BY <1>4, Zenon
  <1> HIDE DEF h, Flattens
  <1>6. h[1] = s
    <2>1. 1 \in 1..Len(both)
      BY <1>1
    <2>2. h[1] = both[1]
      BY <1>5, <2>1, Zenon
    <2> QED
      BY <1>1, <2>2
  <1>7. h[2] = h[1] \o t
    <2>1. 2 \in 1..Len(both) /\ 2 # 1
      BY <1>1
    <2>2. h[2] = h[2 - 1] \o both[2]
      BY <1>5, <2>1, Zenon
    <2>3. 2 - 1 = 1
      OBVIOUS
    <2> QED
      BY <1>1, <2>2, <2>3
  <1> QED
    BY <1>1, <1>3, <1>6, <1>7 DEF h

PayloadOK(p) ==
    /\ p.disp \in Dispositions
    /\ p.problems \in Seq(ProblemObservation)
    /\ p.solutions \subseteq SolutionObservation
    /\ p.companies \subseteq CompanyObservation /\ IsFiniteSet(p.companies)

\* The problems of two bundles merged are problems of the two: of each key
\* there is a longest description that comes first.
LEMMA MergedAreGiven ==
    ASSUME NEW a \in Bundle, NEW b \in Bundle
    PROVE  MergedProblems(<<a, b>>) \in Seq(ProblemObservation)
  <1> DEFINE both == <<a, b>>
             lists == [n \in DOMAIN both |-> both[n].problems]
             all == FlattenSeq(lists)
             At(k) == {n \in DOMAIN all : all[n].key = k}
             Best(k) == CHOOSE n \in DOMAIN all :
                 /\ all[n].key = k
                 /\ \A m \in DOMAIN all : all[m].key = k =>
                       ~LongerFirst(all[n], all[m]) /\ (m < n => LongerFirst(all[m], all[n]))
             keys == {all[n].key : n \in DOMAIN all}
             best == {all[Best(k)] : k \in keys}
  <1>1. a.problems \in Seq(ProblemObservation) /\ b.problems \in Seq(ProblemObservation)
    BY KnowledgeAssumption
  <1>2. all \in Seq(ProblemObservation)
    <2>1. lists = <<a.problems, b.problems>>
      OBVIOUS
    <2> HIDE DEF lists
    <2>2. all = a.problems \o b.problems
      BY <1>1, <2>1, FlattenTwo
    <2> QED
      BY <1>1, <2>2
  <1> HIDE DEF all
  <1> DEFINE N == Len(all)
             f == [n \in 1..N |-> all[n].len]
  <1>3. N \in Nat /\ DOMAIN all = 1..N /\ \A n \in 1..N : all[n] \in ProblemObservation
    BY <1>2
  <1>4. f \in [1..N -> Nat]
    BY <1>3 DEF ProblemObservation
  <1>5. ASSUME NEW k \in keys PROVE Best(k) \in DOMAIN all
    <2>1. At(k) \in SUBSET (1..N) /\ At(k) # {}
      BY <1>3
    <2>2. PICK n \in At(k) : \A m \in At(k) : f[m] <= f[n] /\ (m < n => f[m] < f[n])
      <3> HIDE DEF f, At, N
      <3> QED
        BY <1>3, <1>4, <2>1, LongestRow
    <2>3. \A m \in DOMAIN all : all[m].key = k =>
             ~LongerFirst(all[n], all[m]) /\ (m < n => LongerFirst(all[m], all[n]))
      <3> SUFFICES ASSUME NEW m \in DOMAIN all, all[m].key = k
                   PROVE  ~LongerFirst(all[n], all[m]) /\ (m < n => LongerFirst(all[m], all[n]))
        OBVIOUS
      <3>1. m \in At(k) /\ n \in 1..N /\ m \in 1..N
        BY <1>3
      <3>2. f[m] = all[m].len /\ f[n] = all[n].len /\ f[m] \in Nat /\ f[n] \in Nat
        BY <1>4, <3>1
      <3>3. f[m] <= f[n] /\ (m < n => f[m] < f[n])
        <4> HIDE DEF f, At
        <4> QED
          BY <2>2, <3>1
      <3> HIDE DEF f
      <3> QED
        BY <3>2, <3>3 DEF LongerFirst
    <2>4. n \in DOMAIN all /\ all[n].key = k
      OBVIOUS
    <2> HIDE DEF At, f, keys
    <2> QED
      BY <2>3, <2>4, Zenon
  <1>6. best \in SUBSET ProblemObservation
    <2> HIDE DEF Best
    <2> QED
      BY <1>3, <1>5
  <1>7. IsFiniteSet(keys) /\ IsFiniteSet(best)
    <2>1. IsFiniteSet(1..N)
      BY <1>3, FS_Interval
    <2> DEFINE g == [n \in 1..N |-> all[n].key]
               h == [k \in keys |-> all[Best(k)]]
    <2>2. keys = {g[n] : n \in 1..N}
      BY <1>3
    <2>3. IsFiniteSet({g[n] : n \in 1..N})
      <3> HIDE DEF g
      <3> QED
        BY <2>1, ImageIsFinite
    <2>4. IsFiniteSet(keys)
      <3> HIDE DEF keys, g
      <3> QED
        BY <2>2, <2>3
    <2>5. best = {h[k] : k \in keys}
      <3> HIDE DEF keys, Best
      <3> QED
        OBVIOUS
    <2>6. IsFiniteSet({h[k] : k \in keys})
      <3> HIDE DEF h, keys
      <3> QED
        BY <2>4, ImageIsFinite
    <2> HIDE DEF keys, best, h
    <2> QED
      BY <2>4, <2>5, <2>6
  <1>8. MergedProblems(both) = SetToSeq(best)
    BY DEF MergedProblems, all
  <1>9. SetToSeq(best) \in Seq(best)
    <2> HIDE DEF best
    <2> QED
      BY <1>7, SetToSeqIsSeq
  <1> HIDE DEF best
  <1> QED
    BY <1>6, <1>8, <1>9

\* Whatever is imported, a bundle or a merged corpus, is well formed.
LEMMA PayloadTypes ==
    ASSUME NEW p \in Payloads
    PROVE  PayloadOK(p)
  <1>1. CASE p \in Bundle
    BY <1>1, KnowledgeAssumption DEF PayloadOK
  <1>2. CASE p \in {MergeBundles(<<a, b>>) : a \in Bundle, b \in Bundle}
    <2>1. PICK a \in Bundle, b \in Bundle : p = MergeBundles(<<a, b>>)
      BY <1>2
    <2> DEFINE both == <<a, b>>
    <2>2. DOMAIN both = {1, 2} /\ both[1] = a /\ both[2] = b
      OBVIOUS
    <2>3. PayloadOK(a) /\ PayloadOK(b)
      BY KnowledgeAssumption DEF PayloadOK
    <2>4. p.disp = "rights_review_required" /\ p.problems = MergedProblems(both)
      BY <2>1 DEF MergeBundles
    <2>5. p.solutions \subseteq a.solutions \cup b.solutions
      <3> DEFINE Kept(n) == {s \in both[n].solutions : ~\E m \in 1..(n - 1) :
                               \E t \in both[m].solutions : t.key = s.key /\ t.digest = s.digest}
      <3>1. p.solutions = UNION {Kept(n) : n \in DOMAIN both}
        BY <2>1 DEF MergeBundles
      <3>2. \A n \in DOMAIN both : Kept(n) \subseteq a.solutions \cup b.solutions
        BY <2>2
      <3> HIDE DEF Kept
      <3> QED
        BY <3>1, <3>2
    <2>6. p.companies = a.companies \cup b.companies
      <3>1. p.companies = UNION {both[n].companies : n \in DOMAIN both}
        BY <2>1 DEF MergeBundles
      <3> QED
        BY <2>2, <3>1
    <2>7. IsFiniteSet(p.companies)
      BY <2>3, <2>6, FS_Union DEF PayloadOK
    <2> QED
      BY <2>3, <2>4, <2>5, <2>6, <2>7, MergedAreGiven DEF PayloadOK, Dispositions
  <1> QED
    BY <1>1, <1>2 DEF Payloads

\* The problems an import upserts are a finite sequence of observations.
LEMMA UpsertedAreObservations ==
    ASSUME NEW p, PayloadOK(p)
    PROVE  p.problems \o ObservedProblems(p) \in Seq(ProblemObservation)
  <1> DEFINE known == {p.problems[n].key : n \in DOMAIN p.problems} \cup {s.key : s \in p.solutions}
             unknown == {o \in p.companies : o.key \notin known}
             g == [c \in unknown |-> [key |-> c.key, source |-> c.source,
                                      disp |-> "external_reference_only", len |-> 0]]
             rows == {g[c] : c \in unknown}
  <1>1. ObservedProblems(p) = SetToSeq(rows)
    <2>1. rows = {[key |-> c.key, source |-> c.source, disp |-> "external_reference_only", len |-> 0] :
                    c \in unknown}
      <3> HIDE DEF known
      <3> QED
        OBVIOUS
    <2> HIDE DEF rows, g
    <2> QED
      BY <2>1 DEF ObservedProblems
  <1>2. IsFiniteSet(unknown)
    <2>1. unknown \in SUBSET p.companies /\ IsFiniteSet(p.companies)
      BY DEF PayloadOK
    <2> HIDE DEF unknown
    <2> QED
      BY <2>1, FS_Subset
  <1>3. IsFiniteSet(rows)
    <2> HIDE DEF unknown, g
    <2> QED
      BY <1>2, ImageIsFinite
  <1>4. rows \subseteq ProblemObservation
    <2>1. ASSUME NEW c \in unknown PROVE g[c] \in ProblemObservation
      <3>1. c \in CompanyObservation
        BY DEF PayloadOK
      <3> HIDE DEF unknown
      <3> QED
        BY <3>1 DEF CompanyObservation, ProblemObservation, Dispositions
    <2> HIDE DEF unknown, g
    <2> QED
      BY <2>1
  <1>5. ObservedProblems(p) \in Seq(rows)
    <2> HIDE DEF rows
    <2> QED
      BY <1>1, <1>3, SetToSeqIsSeq
  <1>6. ObservedProblems(p) \in Seq(ProblemObservation)
    <2> HIDE DEF rows
    <2> QED
      BY <1>4, <1>5
  <1> QED
    BY <1>6 DEF PayloadOK

-----------------------------------------------------------------------------
(* The inductive invariant of the knowledge bank.                          *)

Publications == {"absent", "draft", "metadata_only", "blocked", "published"}
ProblemReviews == {"absent", "awaiting_technical_review", "rights_metadata_only",
                   "rejected_for_rights_risk", "rights_review_required", "approved"}

ProblemRow == [pub : Publications, review : ProblemReviews, len : Nat,
               body : Dispositions \cup {"none"}, links : SUBSET Archive]

SolutionRow == [source : Archive, review : ProblemReviews, executable : BOOLEAN]

KnowledgeTypeOK ==
    /\ sources \in [Archive -> Dispositions \cup {"none"}]
    /\ problems \in [Key -> ProblemRow]
    /\ solutions \in [Key -> [Digest -> SolutionRow \cup {NoSolution}]]
    /\ publishing \subseteq Key

\* An upsert never publishes and never takes a source away.
UpsertsFrom(rows) ==
    \A k \in Key : /\ rows[k].pub = "published" => problems[k].pub = "published"
                   /\ problems[k].links \subseteq rows[k].links

LEMMA UpsertKeeps ==
    ASSUME NEW rows \in [Key -> ProblemRow], NEW r \in ProblemObservation
    PROVE  /\ UpsertProblem(rows, r) \in [Key -> ProblemRow]
           /\ UpsertsFrom(rows) => UpsertsFrom(UpsertProblem(rows, r))
  <1> DEFINE old == rows[r.key]
             fresh == [pub |-> PublicationState(r.disp).pub, review |-> PublicationState(r.disp).review,
                       len |-> r.len, body |-> IF r.len = 0 THEN "none" ELSE r.disp,
                       links |-> {r.source}]
             longer == [old EXCEPT !.len = IF r.len > old.len THEN r.len ELSE old.len,
                                   !.body = IF r.len > old.len THEN r.disp ELSE old.body,
                                   !.links = old.links \cup {r.source}]
             row == IF old = NoProblem THEN fresh ELSE longer
  <1>1. r.key \in Key /\ r.source \in Archive /\ r.disp \in Dispositions /\ r.len \in Nat
    BY DEF ProblemObservation
  <1>2. old \in ProblemRow
    BY <1>1
  <1>3. UpsertProblem(rows, r) = [rows EXCEPT ![r.key] = row]
    BY DEF UpsertProblem
  <1>4. fresh \in ProblemRow /\ fresh.pub # "published"
    BY <1>1 DEF PublicationState, ProblemRow, Publications, ProblemReviews, Dispositions
  <1>5. longer \in ProblemRow /\ longer.pub = old.pub /\ old.links \subseteq longer.links
    <2> HIDE DEF old
    <2> QED
      BY <1>1, <1>2 DEF ProblemRow
  <1>6. old = NoProblem => old.links = {}
    BY DEF NoProblem
  <1> HIDE DEF fresh, longer
  <1>7. row \in ProblemRow /\ (row.pub = "published" => old.pub = "published") /\ old.links \subseteq row.links
    BY <1>4, <1>5, <1>6
  <1> HIDE DEF row
  <1>8. [rows EXCEPT ![r.key] = row] \in [Key -> ProblemRow]
    BY <1>7
  <1>9. ASSUME UpsertsFrom(rows) PROVE UpsertsFrom([rows EXCEPT ![r.key] = row])
    BY <1>1, <1>7, <1>9 DEF UpsertsFrom
  <1> QED
    BY <1>3, <1>8, <1>9

\* Nor does a whole import.
LEMMA ImportKeeps ==
    ASSUME KnowledgeTypeOK, NEW p, PayloadOK(p)
    PROVE  ImportedProblems(p) \in [Key -> ProblemRow] /\ UpsertsFrom(ImportedProblems(p))
  <1> DEFINE s == p.problems \o ObservedProblems(p)
             N == Len(s)
             V == [Key -> ProblemRow]
             G == [n \in 1..N |-> [rows \in V |-> UpsertProblem(rows, s[n])]]
             Fold(f) == f = [d \in SUBSET (1..N) |->
                               IF d = {} THEN problems ELSE UpsertProblem(f[d \ {Max(d)}], s[Max(d)])]
  <1>1. s \in Seq(ProblemObservation)
    BY UpsertedAreObservations
  <1> HIDE DEF s
  <1>2. N \in Nat /\ DOMAIN s = 1..N /\ \A n \in 1..N : s[n] \in ProblemObservation
    BY <1>1
  <1> HIDE DEF N
  <1>3. problems \in V
    BY DEF KnowledgeTypeOK
  <1>4. G \in [1..N -> [V -> V]]
    BY <1>2, UpsertKeeps
  <1>5. PICK iter \in [SUBSET (1..N) -> V] : FoldsRows(N, problems, G, iter)
    <2> HIDE DEF V, G
    <2> QED
      BY <1>2, <1>3, <1>4, FoldRecursion
  <1>6. Fold(iter)
    <2>1. ASSUME NEW d \in SUBSET (1..N), d # {}
          PROVE  G[Max(d)][iter[d \ {Max(d)}]] = UpsertProblem(iter[d \ {Max(d)}], s[Max(d)])
      <3>1. Max(d) \in d
        <4>1. d \in SUBSET (0..N)
          OBVIOUS
        <4> QED
          BY <1>2, <2>1, <4>1, LastRow
      <3>2. iter[d \ {Max(d)}] \in V /\ Max(d) \in 1..N
        BY <3>1
      <3> HIDE DEF V
      <3> QED
        BY <3>2
    <2> HIDE DEF G, V
    <2> QED
      BY <1>5, <2>1 DEF FoldsRows
  <1> DEFINE f == CHOOSE f : Fold(f)
  <1>7. Fold(f)
    <2> HIDE DEF Fold
    <2> QED
      BY <1>6, Zenon
  <1>8. ImportedProblems(p) = f[1..N]
    BY <1>2 DEF ImportedProblems, FoldLeft, MapThenFoldSet, s
  <1> HIDE DEF f
  <1> DEFINE Keeps(n) == n <= N => f[1..n] \in V /\ UpsertsFrom(f[1..n])
             P == {n \in Nat : Keeps(n)}
  <1>9. Keeps(0)
    <2>1. f[1..0] = problems
      <3>1. 1..0 = {} /\ {} \in SUBSET (1..N)
        OBVIOUS
      <3> QED
        BY <1>7, <3>1
    <2> QED
      BY <1>3, <2>1 DEF UpsertsFrom
  <1>10. ASSUME NEW n \in Nat, Keeps(n) PROVE Keeps(n + 1)
    <2> SUFFICES ASSUME n + 1 <= N
                 PROVE  f[1..n + 1] \in V /\ UpsertsFrom(f[1..n + 1])
      OBVIOUS
    <2>1. Max(1..n + 1) = n + 1 /\ (1..n + 1) \ {n + 1} = 1..n /\ 1..n + 1 # {}
      BY RowsUpTo
    <2>2. 1..n + 1 \in SUBSET (1..N) /\ n + 1 \in 1..N /\ n <= N
      BY <1>2
    <2>3. f[1..n + 1] = UpsertProblem(f[1..n], s[n + 1])
      BY <1>7, <2>1, <2>2
    <2>4. f[1..n] \in V /\ UpsertsFrom(f[1..n]) /\ s[n + 1] \in ProblemObservation
      BY <1>2, <1>10, <2>2
    <2> QED
      BY <2>3, <2>4, UpsertKeeps
  <1>11. \A n \in Nat : Keeps(n)
    <2> HIDE DEF Keeps
    <2>1. 0 \in P /\ \A n \in Nat : n \in P => n + 1 \in P
      BY <1>9, <1>10
    <2> HIDE DEF P
    <2>2. \A n \in Nat : n \in P
      BY <2>1, EveryNumber
    <2> QED
      BY <2>2 DEF P
  <1> QED
    BY <1>2, <1>8, <1>11

\* A source that is hostable now was declared so by an import; so was a source
\* of every problem that is published or about to be, and the source of every
\* approved solution.
KnowledgeInv ==
    /\ KnowledgeTypeOK
    /\ \A s \in Archive : sources[s] = "hostable_licensed" => LicensedBySomeImport(s)
    /\ \A k \in Key : k \in publishing \/ problems[k].pub = "published" =>
          \E s \in problems[k].links : LicensedBySomeImport(s)
    /\ \A k \in Key, d \in Digest, s \in Archive :
          solutions[k][d].review = "approved" /\ solutions[k][d].source = s => LicensedBySomeImport(s)

\* A license once declared stays declared.
LEMMA LicensesStay ==
    ASSUME runs \subseteq runs', NEW s, LicensedBySomeImport(s)
    PROVE  LicensedBySomeImport(s)'
  BY DEF LicensedBySomeImport, SourceNames

LEMMA ImportPayloadStep ==
    ASSUME KnowledgeInv, NEW p \in Payloads, ImportPayload(p)
    PROVE  KnowledgeInv'
  <1>1. PayloadOK(p)
    BY PayloadTypes
  <1>2. /\ sources' = EnsuredSources(p) /\ problems' = ImportedProblems(p)
        /\ solutions' = ImportedSolutions(p) /\ runs' = runs \cup {p}
        /\ publishing' = publishing
    BY DEF ImportPayload
  <1>3. \A s : LicensedBySomeImport(s) => LicensedBySomeImport(s)'
    BY <1>2, LicensesStay
  <1>4. problems' \in [Key -> ProblemRow] /\ UpsertsFrom(problems')
    BY <1>1, <1>2, ImportKeeps DEF KnowledgeInv
  <1>5. sources' \in [Archive -> Dispositions \cup {"none"}]
    BY <1>1, <1>2 DEF KnowledgeInv, KnowledgeTypeOK, PayloadOK, EnsuredSources
  <1>6. ASSUME NEW s \in Archive, sources'[s] = "hostable_licensed"
        PROVE  LicensedBySomeImport(s)'
    <2>1. CASE s \in SourceNames(p)
      <3>1. p.disp = "hostable_licensed" /\ p \in runs'
        BY <1>2, <1>6, <2>1 DEF EnsuredSources
      <3> QED
        BY <2>1, <3>1 DEF LicensedBySomeImport, SourceNames
    <2>2. CASE s \notin SourceNames(p)
      <3>1. sources[s] = "hostable_licensed"
        BY <1>2, <1>6, <2>2 DEF EnsuredSources
      <3> QED
        BY <1>3, <3>1 DEF KnowledgeInv
    <2> QED
      BY <2>1, <2>2
  <1>7. ASSUME NEW k \in Key, k \in publishing' \/ problems'[k].pub = "published"
        PROVE  \E s \in problems'[k].links : LicensedBySomeImport(s)'
    <2>1. k \in publishing \/ problems[k].pub = "published"
      BY <1>2, <1>4, <1>7 DEF UpsertsFrom
    <2>2. PICK s \in problems[k].links : LicensedBySomeImport(s)
      BY <2>1 DEF KnowledgeInv
    <2> QED
      BY <1>3, <1>4, <2>2 DEF UpsertsFrom
  <1>8. ASSUME NEW k \in Key, NEW d \in Digest
        PROVE  /\ solutions'[k][d] \in SolutionRow \cup {NoSolution}
               /\ \/ solutions'[k][d] = solutions[k][d]
                  \/ solutions'[k][d].review # "approved"
    <2> DEFINE given == {s \in p.solutions : s.key = k /\ s.digest = d}
               s == CHOOSE s \in given : TRUE
               row == [source |-> IF solutions[k][d] = NoSolution THEN s.source ELSE solutions[k][d].source,
                       review |-> PublicationState(s.disp).review,
                       executable |-> s.disp = "hostable_licensed"]
    <2>1. solutions'[k][d] = IF given = {} THEN solutions[k][d] ELSE row
      BY <1>2 DEF ImportedSolutions
    <2>2. solutions[k][d] \in SolutionRow \cup {NoSolution}
      BY DEF KnowledgeInv, KnowledgeTypeOK
    <2>3. CASE given = {}
      BY <2>1, <2>2, <2>3
    <2>4. CASE given # {}
      <3>1. s \in SolutionObservation
        BY <1>1, <2>4 DEF PayloadOK
      <3> HIDE DEF s
      <3>2. PublicationState(s.disp).review \in ProblemReviews \ {"approved"}
        BY DEF PublicationState, ProblemReviews
      <3>3. row \in SolutionRow
        BY <2>2, <3>1, <3>2 DEF SolutionRow, SolutionObservation
      <3> HIDE DEF given
      <3> QED
        BY <2>1, <2>4, <3>2, <3>3
    <2> QED
      BY <2>3, <2>4
  <1>9. solutions' \in [Key -> [Digest -> SolutionRow \cup {NoSolution}]]
    <2>1. solutions' = [k \in Key |-> [d \in Digest |-> solutions'[k][d]]]
      BY <1>2 DEF ImportedSolutions
    <2> QED
      BY <1>8, <2>1
  <1>10. ASSUME NEW k \in Key, NEW d \in Digest, NEW s \in Archive,
                solutions'[k][d].review = "approved", solutions'[k][d].source = s
         PROVE  LicensedBySomeImport(s)'
    <2>1. solutions'[k][d] = solutions[k][d]
      BY <1>8, <1>10
    <2>2. LicensedBySomeImport(s)
      BY <1>10, <2>1 DEF KnowledgeInv
    <2> QED
      BY <1>3, <2>2
  <1>11. KnowledgeTypeOK'
    BY <1>2, <1>4, <1>5, <1>9 DEF KnowledgeInv, KnowledgeTypeOK
  <1> QED
    BY <1>6, <1>7, <1>10, <1>11 DEF KnowledgeInv

LEMMA PublishProblemReadStep ==
    ASSUME KnowledgeInv, NEW k \in Key, PublishProblemRead(k)
    PROVE  KnowledgeInv'
  <1>1. /\ Hostable(k) /\ publishing' = publishing \cup {k}
        /\ UNCHANGED <<sources, problems, solutions, runs>>
    BY DEF PublishProblemRead
  <1>2. \A s : LicensedBySomeImport(s)' = LicensedBySomeImport(s)
    BY <1>1 DEF LicensedBySomeImport, SourceNames
  <1>3. KnowledgeTypeOK'
    BY <1>1 DEF KnowledgeInv, KnowledgeTypeOK
  <1>4. PICK s \in problems[k].links : sources[s] = "hostable_licensed"
    BY <1>1 DEF Hostable
  <1>5. s \in Archive /\ LicensedBySomeImport(s)
    BY <1>4 DEF KnowledgeInv, KnowledgeTypeOK, ProblemRow
  <1> QED
    BY <1>1, <1>2, <1>3, <1>5 DEF KnowledgeInv

LEMMA PublishProblemWriteStep ==
    ASSUME KnowledgeInv, NEW k \in Key, PublishProblemWrite(k)
    PROVE  KnowledgeInv'
  <1> DEFINE Approved(j, d) == /\ j = k /\ solutions[j][d] # NoSolution
                               /\ sources[solutions[j][d].source] = "hostable_licensed"
  <1>1. /\ k \in publishing /\ publishing' = publishing \ {k}
        /\ problems' = [problems EXCEPT ![k].pub = "published", ![k].review = "approved"]
        /\ solutions' = [j \in Key |-> [d \in Digest |->
              IF Approved(j, d) THEN [solutions[j][d] EXCEPT !.review = "approved"] ELSE solutions[j][d]]]
        /\ UNCHANGED <<sources, runs>>
    BY DEF PublishProblemWrite
  <1>2. \A s : LicensedBySomeImport(s)' = LicensedBySomeImport(s)
    BY <1>1 DEF LicensedBySomeImport, SourceNames
  <1>3. problems \in [Key -> ProblemRow]
    BY DEF KnowledgeInv, KnowledgeTypeOK
  <1>4. /\ problems' \in [Key -> ProblemRow]
        /\ \A j \in Key : /\ problems'[j].links = problems[j].links
                          /\ j # k => problems'[j] = problems[j]
    BY <1>1, <1>3 DEF ProblemRow, Publications, ProblemReviews
  <1>5. ASSUME NEW j \in Key, j \in publishing' \/ problems'[j].pub = "published"
        PROVE  \E s \in problems'[j].links : LicensedBySomeImport(s)'
    <2>1. j \in publishing \/ problems[j].pub = "published"
      BY <1>1, <1>4, <1>5
    <2> QED
      BY <1>2, <1>4, <2>1 DEF KnowledgeInv
  <1>6. ASSUME NEW j \in Key, NEW d \in Digest
        PROVE  /\ solutions'[j][d] \in SolutionRow \cup {NoSolution}
               /\ solutions'[j][d].review = "approved" =>
                     \A s \in Archive : solutions'[j][d].source = s => LicensedBySomeImport(s)
    <2>1. solutions[j][d] \in SolutionRow \cup {NoSolution}
      BY DEF KnowledgeInv, KnowledgeTypeOK
    <2>2. solutions'[j][d] = IF Approved(j, d) THEN [solutions[j][d] EXCEPT !.review = "approved"]
                             ELSE solutions[j][d]
      BY <1>1
    <2>3. CASE Approved(j, d)
      <3>1. solutions[j][d] \in SolutionRow
        BY <2>1, <2>3
      <3>2. \A s \in Archive : solutions[j][d].source = s => LicensedBySomeImport(s)
        BY <2>3, <3>1 DEF KnowledgeInv, SolutionRow
      <3>3. solutions'[j][d] \in SolutionRow /\ solutions'[j][d].source = solutions[j][d].source
        BY <2>2, <2>3, <3>1 DEF SolutionRow, ProblemReviews
      <3> QED
        BY <3>2, <3>3
    <2>4. CASE ~Approved(j, d)
      <3>1. solutions'[j][d] = solutions[j][d]
        BY <2>2, <2>4
      <3> QED
        BY <2>1, <3>1 DEF KnowledgeInv
    <2> QED
      BY <2>3, <2>4
  <1>7. solutions' \in [Key -> [Digest -> SolutionRow \cup {NoSolution}]]
    <2>1. solutions' = [j \in Key |-> [d \in Digest |-> solutions'[j][d]]]
      BY <1>1
    <2> QED
      BY <1>6, <2>1
  <1>8. KnowledgeTypeOK'
    BY <1>1, <1>4, <1>7 DEF KnowledgeInv, KnowledgeTypeOK
  <1>9. \A j \in Key, d \in Digest, s \in Archive :
           solutions'[j][d].review = "approved" /\ solutions'[j][d].source = s =>
              LicensedBySomeImport(s)'
    BY <1>2, <1>6
  <1> QED
    BY <1>1, <1>2, <1>5, <1>8, <1>9 DEF KnowledgeInv

\* Whatever archives are imported in whatever order, alone or merged, and
\* whenever an editor publishes, hosted problems and shown solutions name a
\* source that an import declared hostable (import_payload, publish_problem).
THEOREM HostedIsLicensed == KnowledgeSpec => []HostedWasLicensed
  <1>1. KnowledgeInit => KnowledgeInv
    <2> SUFFICES ASSUME KnowledgeInit PROVE KnowledgeInv
      OBVIOUS
    <2>1. NoProblem \in ProblemRow /\ NoProblem.pub = "absent" /\ NoSolution.review = "absent"
      BY DEF NoProblem, ProblemRow, Publications, ProblemReviews, NoSolution
    <2> QED
      BY <2>1 DEF KnowledgeInit, KnowledgeInv, KnowledgeTypeOK
  <1>2. KnowledgeInv /\ [KnowledgeNext]_knowledgeVars => KnowledgeInv'
    <2> SUFFICES ASSUME KnowledgeInv, [KnowledgeNext]_knowledgeVars PROVE KnowledgeInv'
      OBVIOUS
    <2>1. CASE \E p \in Payloads : ImportPayload(p)
      BY <2>1, ImportPayloadStep
    <2>2. CASE \E k \in Key : PublishProblemRead(k)
      BY <2>2, PublishProblemReadStep
    <2>3. CASE \E k \in Key : PublishProblemWrite(k)
      BY <2>3, PublishProblemWriteStep
    <2>4. CASE UNCHANGED knowledgeVars
      BY <2>4 DEF knowledgeVars, KnowledgeInv, KnowledgeTypeOK, LicensedBySomeImport, SourceNames
    <2> QED
      BY <2>1, <2>2, <2>3, <2>4 DEF KnowledgeNext
  <1>3. KnowledgeInv => HostedWasLicensed
    <2> SUFFICES ASSUME KnowledgeInv, NEW k \in Key
                 PROVE  /\ Visible(k) /\ Availability(k) \in {"hosted", "runnable"} =>
                              \E s \in problems[k].links : LicensedBySomeImport(s)
                        /\ \A d \in Digest : ShownSolution(k, d) => LicensedBySomeImport(solutions[k][d].source)
      BY DEF HostedWasLicensed
    <2>1. Availability(k) \in {"hosted", "runnable"} => problems[k].pub = "published"
      BY DEF Availability
    <2>2. ASSUME NEW d \in Digest, ShownSolution(k, d) PROVE LicensedBySomeImport(solutions[k][d].source)
      <3>1. solutions[k][d] \in SolutionRow \cup {NoSolution} /\ solutions[k][d].review = "approved"
        BY <2>2 DEF ShownSolution, KnowledgeInv, KnowledgeTypeOK
      <3>2. solutions[k][d].source \in Archive
        BY <3>1 DEF NoSolution, SolutionRow
      <3> QED
        BY <3>1, <3>2 DEF KnowledgeInv
    <2> QED
      BY <2>1, <2>2 DEF KnowledgeInv
  <1> QED
    BY <1>1, <1>2, <1>3, PTL DEF KnowledgeSpec
=============================================================================

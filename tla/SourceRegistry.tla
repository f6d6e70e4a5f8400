--------------------------- MODULE SourceRegistry ---------------------------
(***************************************************************************)
(* A registered external source, its rights review and the references      *)
(* collected from it (source_registry.py), the collector that applies the  *)
(* source policy and uploads batches of references                         *)
(* (collect_external_references.py), and the coverage gaps computed from   *)
(* what is hosted (question_intelligence.py).                              *)
(*                                                                         *)
(* A collector reads and reviews the source once and then sends several    *)
(* batches, each a transaction of its own under the lock of the source     *)
(* row; administrators review the source in between.  A reference is its   *)
(* URL; what matters of it is whether it carries an abstract and whether   *)
(* it is valid (https, on the domain, known competencies).                 *)
(***************************************************************************)
EXTENDS Naturals, Sequences, FiniteSets, SequencesExt

CONSTANTS
    Url,          \* canonical URLs on the source's domain
    BadUrl,       \* a URL _validate_reference refuses
    Collector,    \* running collectors
    Found,        \* what a collection of the site may return
    SyncLimit,    \* references in one SourceSyncInput (1,000)
    Hosted,       \* bound on hosted questions of the competency
    MaxReviews    \* bound on reviews

(* ExternalReferenceInput, as far as it matters.                          *)
ExternalReferenceInput == [url : Url \cup {BadUrl}, abstract : BOOLEAN]

ASSUME SourceAssumption == /\ SyncLimit \in Nat \ {0} /\ MaxReviews \in Nat /\ Hosted \in Nat
                           /\ BadUrl \notin Url
                           /\ \A found \in Found : found \in Seq(ExternalReferenceInput)

VARIABLES
    source,      \* source_registry: rights_status, coverage_level, connector_status, volume
    refs,        \* external_question_references: availability and abstract, by URL
    collector,   \* each collector's references and what it has sent of them
    hosted,      \* questions hosted for the competency
    gap,         \* its open coverage_gap_briefs and what they recommend
    snapshot,    \* the statement snapshot of each gap computation
    reviews      \* reviews so far

sourceVars == <<source, refs, collector, hosted, gap, snapshot, reviews>>

FullContent == {"OPEN_LICENSE_FULL_CONTENT"}
Collectable == {"DEEPLINK_ONLY", "METADATA_ONLY", "PLATFORM_ORIGINAL_FULL_CONTENT"} \cup FullContent
Coverage == Collectable \cup {"DISCOVERY_ONLY", "ABSTRACT_SIGNAL_ONLY", "BLOCKED"}
VerifiedRights == {"open_license_verified"}
Rights == VerifiedRights \cup {"unreviewed", "blocked"}
Connector == {"unreviewed", "approved", "paused"}

NoRef == [availability |-> "absent", abstract |-> FALSE]
IdleCollector == [pc |-> "idle", todo |-> <<>>, all |-> <<>>]
NoSnapshot == [taken |-> FALSE, hosted |-> 0, open |-> 0]

SourceInit ==
    /\ source = [rights |-> "unreviewed", coverage |-> "DISCOVERY_ONLY", connector |-> "unreviewed",
                 volume |-> 0]
    /\ refs = [u \in Url |-> NoRef]
    /\ collector = [c \in Collector |-> IdleCollector]
    /\ hosted = 0 /\ gap = [open |-> 0, recommended |-> 3] /\ snapshot = [c \in Collector |-> NoSnapshot]
    /\ reviews = 0

-----------------------------------------------------------------------------
(* What a review may record (SourceRegistryRepository.review).             *)
ReviewAllowed(rights, coverage, connector) ==
    /\ coverage \in FullContent => rights \in VerifiedRights
    /\ coverage = "BLOCKED" => rights = "blocked"
    /\ connector = "approved" => coverage \notin {"BLOCKED", "DISCOVERY_ONLY", "ABSTRACT_SIGNAL_ONLY"}

ReviewSource(rights, coverage, connector) ==
    /\ reviews < MaxReviews
    /\ ReviewAllowed(rights, coverage, connector)
    /\ source' = [source EXCEPT !.rights = rights, !.coverage = coverage, !.connector = connector]
    /\ reviews' = reviews + 1
    /\ UNCHANGED <<refs, collector, hosted, gap, snapshot>>

(* The collector's main: apply_source_policy reviews the source, then the  *)
(* site is read; what it read is cut into batches of SyncLimit.            *)
StartCollecting(c, coverage, found) ==
    /\ collector[c].pc = "idle" /\ reviews < MaxReviews
    /\ ReviewAllowed(source.rights, coverage, "approved")
    /\ source' = [source EXCEPT !.coverage = coverage, !.connector = "approved"]
    /\ collector' = [collector EXCEPT ![c] = [pc |-> "sync", todo |-> found, all |-> found]]
    /\ reviews' = reviews + 1
    /\ UNCHANGED <<refs, hosted, gap, snapshot>>

(* Mutant: each batch is sent as a complete snapshot.                   *)
CompleteEachBatch(c) == TRUE

(* synchronize: a snapshot is complete only when one batch holds it all.   *)
CompleteSnapshot(c) == Len(collector[c].all) <= SyncLimit
NextBatch(c) == SubSeq(collector[c].todo, 1, IF Len(collector[c].todo) < SyncLimit
                                             THEN Len(collector[c].todo) ELSE SyncLimit)

MaySync == source.connector = "approved" /\ source.coverage \in Collectable

(* _validate_reference and the competency check: one bad reference fails   *)
(* the transaction.                                                        *)
ValidReference(r) ==
    /\ r.url \in Url
    /\ source.coverage = "DEEPLINK_ONLY" => ~r.abstract

(* The last of several references to a URL wins.                           *)
AbstractOf(given, u) == given[SelectLastInSeq(given, LAMBDA r : r.url = u)].abstract

(* The upserts of one sync call, and its complete-snapshot update.         *)
Upserted(given, complete) ==
    LET seen == {given[n].url : n \in DOMAIN given}
    IN  [u \in Url |->
           IF u \in seen
           THEN [availability |-> "available", abstract |-> AbstractOf(given, u)]
           ELSE IF complete /\ refs[u].availability = "available"
           THEN [refs[u] EXCEPT !.availability = "unavailable"] ELSE refs[u]]

(* SourceRegistryRepository.sync, called for the next batch.              *)
SyncBatch(c) ==
    LET given == NextBatch(c) IN
    /\ collector[c].pc = "sync" /\ collector[c].todo # <<>>
    /\ MaySync
    /\ \A n \in DOMAIN given : ValidReference(given[n])
    /\ refs' = Upserted(given, CompleteSnapshot(c))
    /\ source' = [source EXCEPT !.volume = Cardinality({u \in Url : refs'[u] # NoRef})]
    /\ collector' = [collector EXCEPT ![c].todo = SubSeq(@, Len(given) + 1, Len(@))]
    /\ UNCHANGED <<hosted, gap, snapshot, reviews>>

(* A refused call raises in the collector, which ends.                     *)
SyncRefused(c) ==
    /\ collector[c].pc = "sync" /\ collector[c].todo # <<>>
    /\ ~MaySync \/ \E n \in DOMAIN NextBatch(c) : ~ValidReference(NextBatch(c)[n])
    /\ collector' = [collector EXCEPT ![c] = IdleCollector]
    /\ UNCHANGED <<source, refs, hosted, gap, snapshot, reviews>>

-----------------------------------------------------------------------------
(* recompute_gaps is one statement over one snapshot, then a commit.       *)

HostedChanges(n) ==
    /\ n \in 0..Hosted /\ n # hosted
    /\ hosted' = n
    /\ UNCHANGED <<source, refs, collector, gap, snapshot, reviews>>

RecomputeRead(c) ==
    /\ collector[c].pc = "sync" /\ collector[c].todo = <<>> /\ ~snapshot[c].taken
    /\ snapshot' = [snapshot EXCEPT ![c] = [taken |-> TRUE, hosted |-> hosted, open |-> gap.open]]
    /\ UNCHANGED <<source, refs, collector, hosted, gap, reviews>>

(* Open briefs are resolved at three hosted questions, refreshed below; a  *)
(* brief is inserted when the snapshot shows none: two computations at     *)
(* once may insert one each.                                               *)
RecomputeCommit(c) ==
    /\ snapshot[c].taken
    /\ gap' = IF snapshot[c].hosted >= 3 THEN [gap EXCEPT !.open = 0]
              ELSE [open |-> IF snapshot[c].open = 0 THEN gap.open + 1 ELSE gap.open,
                    recommended |-> 3 - snapshot[c].hosted]
    /\ snapshot' = [snapshot EXCEPT ![c] = NoSnapshot]
    /\ collector' = [collector EXCEPT ![c] = IdleCollector]
    /\ UNCHANGED <<source, refs, hosted, reviews>>

SourceNext ==
    \/ \E ri \in Rights, co \in Coverage, cn \in Connector : ReviewSource(ri, co, cn)
    \/ \E c \in Collector :
         \/ \E co \in Collectable, f \in Found : StartCollecting(c, co, f)
         \/ SyncBatch(c) \/ SyncRefused(c) \/ RecomputeRead(c) \/ RecomputeCommit(c)
    \/ \E n \in 0..Hosted : HostedChanges(n)

SourceSpec == SourceInit /\ [][SourceNext]_sourceVars

-----------------------------------------------------------------------------
(* What a collector has found is not taken back by its own later batches:  *)
(* only a batch that is the whole collection may mark the rest unavailable. *)
OwnFindsStayAvailable ==
    [][\A c \in Collector : collector'[c].todo # collector[c].todo /\ refs' # refs =>
          \A n \in DOMAIN collector[c].all : LET u == collector[c].all[n].url IN
             u \in Url /\ refs[u].availability = "available" => refs'[u].availability = "available"]_sourceVars
=============================================================================

# Verification of the SkillForge execution platform

TLA+ models of the parts of this repository in which several processes, transactions, queues or
clients have to agree: the asynchronous execution of candidates' programs and the API in front of
it, the clients that save drafts and follow executions, the publication of content with everything
that writes it, and the records of a candidate's study. TLC checks the models on small instances;
TLAPS proves, for every value of the constants, the safety of the execution path (controllers, inline
dispatch, API, outbox, local transport), that both ways of executing implement one abstract promise,
and the central invariants of content, imports, accounts, interviews and evidence. File names without a path are below
`src/apps/api/src/rigor_api/`.

`PROJECT.json` lists the components, the runs, the mutants (one plausible bug per property that TLC
must find), the source lines behind every definition, the findings, the hazards and the theorems.

## 1. The system

A candidate opens a practice session, runs and submits code. A request is stored as a row of
`execution_requests` with an event in `execution_outbox`, in one transaction. Controllers publish
the events to a queue, receive them, claim the row under a lease, create a Kubernetes Job and a
Secret with its input, watch the Job, compare what its pod printed with the answers in the
database, and persist the verdict together with the grade and the session's completion. Whatever
is interrupted is found again through its expired lease. Two deployments replace parts of this:
on Vercel the API thread does it all inline in a Vercel Sandbox; locally a PostgreSQL table is the
queue and HTTP runners are the cluster.

| component | state | operations | hard part | module |
|---|---|---|---|---|
| state machine, claims: `execution_domain.py`, `execution_claims.py` | `execution_requests`: state, attempt, lease, Job name | create, transition, cancel, claim, retry, mark running, renew, lock | compare-and-set by workers with old knowledge | ExecutionClaims |
| controller: `execution_controller.py` | the call it is in; nothing durable of its own | process message, start, monitor, persist, defer, reconcile, clean up | crash between any two calls; two controllers at one execution | ExecutionController |
| cluster client: `execution_kubernetes.py`, `sandbox_jobs.py` | Job, Secret, pods, by execution id | create, observe, logs, cleanup | 409 on a leftover Secret; pods of old attempts; half a cleanup | ExecutionController |
| results, grading: `execution_results.py`, `execution_submission.py` | `execution_public_results`, `submission_results` | parse, compare, project, finalize | the runner is not trusted; grade and session in one transaction | TrustedComparison, ExecutionClaims, CandidateApi |
| outbox: `outbox.py`, `execution_publisher.py`, `execution_sqs.py` | `execution_outbox` | claim batch, send, mark, back off | sends are not transactional | ExecutionOutbox |
| dead letters: `execution_dlq.py` | dead-letter queue | classify, replay, discard | reads the database, then writes queues | ExecutionOutbox |
| execution API: `execution_api.py`, `execution_routes.py` | idempotency keys, limits | run, submit, cancel | count first, insert later; repeated requests | CandidateApi |
| practice: `practice.py` | `practice_sessions`, their events | create, patch, pause, resume, complete, hint, event | unconditional UPDATEs beside the controllers | CandidateApi |
| inline execution: `vercel_sandbox_*.py` | row and sandbox | claim, create, bootstrap, close network, upload, run, read, persist | one worker id for all threads, no reconciliation | VercelDispatch |
| runner images: `src/services/*-runner` | the loop over the tests | execute, time out, print | partial results | TrustedComparison (partly) |
| local controller: `local_execution_controller.py` | `local_execution_queue`, futures | send, receive, delete, create, observe | new receipt handle per delivery; futures by execution id | LocalTransport |
| reviews, publication: `reviews.py`, `content_sync.py`, `src/scripts/publish_*.py`, `sync_attachment_question_bank.py` | `question_versions.state`, assignments, decisions, published version | assign, decide, publish, deprecate, archive, sync, rollback, bootstrap | two independent reviewers through reassignments; rows locked in two orders | ContentReview |
| ingestion, content factory: `ingestion.py`, `import_reports.py`, `content_factory.py` | imports, items, drafts | import, retract, roll back | four transactions per record | ContentImport |
| source registry: `source_registry.py`, `collect_external_references.py`, `question_intelligence.py` | sources, references, gaps, briefs | register, review, pause, sync, recompute | collections larger than a batch; policy changes under a collector | SourceRegistry |
| knowledge bank: `knowledge_*.py` | sources, problems, solutions, articles | import, publish, show | rights change with every import | KnowledgeBank |
| large corpus: `import_large_question_corpus.py` | batches, checkpoints, corpus rows | stage, classify, commit a chunk, resume | interruption and overlapping runs | CorpusImport |
| identity: `identity_webhooks.py`, `principal_auth.py`, `saas_routes.py`, `profiles.py` | users, roles | webhooks, provisioning, reconcile, admin changes | repeated and reordered webhooks, old tokens | Identity |
| mock interviews: `mock_interview_*.py` | session, phase, answers, report | create, answer, pause, resume, cancel | repeated and late answers; completion writes evidence | MockInterview |
| AI arena: `ai_arena_*.py` | generations, quota, rating | generate, finalize | best score read before the profile is locked | AiArena |
| evidence and mastery: `submissions.py`, `attachment_progress_patch.py`, `mock_interview_routes.py` | evidence rows, mastery rows | record with a submission, an evaluation, an interview | read-aggregate-write beside other writers | CandidateEvidence |
| PR reviews, tutor, study progress, notes: `pr_review_*.py`, `tutor_*.py`, `knowledge_progress_routes.py`, `question_engagement.py` | comments, events, progress | comment, submit; append, send; activity, patch | projections of event logs under repeats | StudyRecords |
| web workspace: `src/apps/web/components/skillsforge-practice-workspace.tsx`, `src/apps/web/lib/async-execution.ts` | React state, localStorage, requests in flight | edit, autosave, run, submit, cancel, reload | answers out of order, closures with old state | PracticeWorkspace |
| mobile workspace: `src/apps/mobile/app/(candidate)/practice/[slug].tsx`, `drafts.ts` | screen, device draft, requests in flight | edit, two autosaves, run, submit, hint, reopen | timers that restart each other; answers of left screens | MobileWorkspace |
| catalogues, schemas, configuration, health, background worker, question schema package, other pages, infrastructure | none shared, or declarations | queries, views | none a model checker reaches | not modelled |

### What makes it correct

* One verdict per execution, never changed, never decided by an abandoned attempt.
* A grade exactly with a verdict; session, grade and verdict in one transaction.
* Nothing accepted is forgotten, whoever crashes, and no sandbox outlives its purpose.
* Limits, keys and counters hold although every request checks first and writes later.
* A submission passes only when every test was answered, and hidden tests stay hidden.
* What the candidate types reaches the server, or at least the device, whatever answers come late.
* Candidates are served a published version, and content whose rights some import declared; the
  review workflow approves only what two people have; a rolled-back import leaves nothing.
* Derived records (mastery, rating, report, progress, an interrupted import) are those of the events
  that were recorded, once each, however often a client or an operator repeats itself.

## 2. The modules

```
ExecutionOutcome   what a candidate is promised: accepted, tried, concluded once or withdrawn
  ^ implemented by ExecutionController and VercelDispatch, extended by CandidateApi
ExecutionClaims    the durable rows; one operator per SQL statement or transaction
  ^ extended by ExecutionController (queue, cluster, several controllers) and VercelDispatch
ExecutionOutbox    publication, the two queues, the dead-letter tool
TrustedComparison  from the tests that are sent to the verdict that is stored
LocalTransport     the queue table and the executor of local development
PracticeWorkspace, MobileWorkspace   the clients
ContentReview      the versions of a question  <- extended by ContentImport
SourceRegistry, KnowledgeBank, CorpusImport    external content
Identity           accounts
MockInterview, AiArena, CandidateEvidence, StudyRecords   a candidate's records
MCDelivery         composes ExecutionOutbox, LocalTransport, VercelDispatch, TrustedComparison
                   and the two clients into one run
MCPlatform         composes the content, account and record modules into one run
MC*                the instances TLC checks
ExecutionControllerProofs, VercelDispatchProofs, CandidateApiProofs, TrustedComparisonProofs,
QueueProofs (ExecutionOutbox, LocalTransport), ContentProofs, ImportProofs (CorpusImport,
SourceRegistry, KnowledgeBank), CandidateProofs (Identity, MockInterview, CandidateEvidence,
AiArena, StudyRecords; it uses ImportProofs' lemmas on recursion)               the theorems
```

Each module states its own specification (`Spec`, `ApiSpec`, `VercelSpec`, `OutboxSpec`,
`TransportSpec`, `ComparisonSpec`, `ContentSpec`, `CorpusSpec`, `SourceSpec`, `KnowledgeSpec`,
`IdentitySpec`, `InterviewSpec`, `ArenaSpec`, `EvidenceSpec`, `StudySpec`), which the theorems are about; a composed run takes the same Init and Next.

The modules of one composed run share no state (except ContentReview and ContentImport, which are one
state machine). A variable `focus`, chosen in the initial state, names the one that takes steps, so
that their state spaces add up and do not multiply.

**ExecutionClaims.** A row is seven functions of the execution: state, attempt_count, lease owner,
lease, Job name, result, grade. A lease is what the SQL compares: NULL, in the future or in the
past. `LegalTransition` is `LEGAL_EXECUTION_TRANSITIONS`; the claims are the compare-and-set
statements with exactly their WHERE clauses (`mark_running` compares the owner, not the attempt;
`retry_missing_sandbox` does not consult the table).

**ExecutionController.** One action is one transaction or one external call, so a crash, an expired
lease or another controller can come between any two. `work[w]` is the call controller `w` is in,
with what it has read: a reconciler works from the snapshot `expired_leases` gave it. A Job and a
Secret are named after the execution, not the attempt: POST on a leftover one answers 409 and is
taken for success, so a Job may run the previous attempt's input, and `_runner_logs` may read the
pod of an earlier attempt. A log is abstracted to what `_persist_observation` tells apart. The
paths of `_process_requested` for an unsupported language and for an attempt beyond the limit are
left out: the API creates neither.

**ExecutionOutcome.** Four actions on phase, try, basis and grade. It is the abstract specification
of both execution paths, and the environment of CandidateApi, which *extends* it: each step of the
service that the API's model takes is one the controllers were shown to take.

**CandidateApi.** A request is one READ COMMITTED transaction in two steps, what it reads and what
it writes. `principal_transaction` opens it with `ensure_user`, whose upsert locks the candidate's
`users` row to the end: this lock, which no comment mentions, serialises a candidate's requests and
is what the limits, the counters and `create`'s find-or-insert rest on (the mutant `BeginUnlocked`
removes it). The controllers do not take it and fall between the two steps. `finalize_submission`
is in two steps as well, because `POST events` can take the sequence number it computed. The
session states CREATED and EVALUATING are never written by the code and are not in the model.

**VercelDispatch.** One thread claims, creates a sandbox, for SQL installs packages with the network
open and closes it, uploads, executes, reads, stops, and only then calls `mark_running`. Every call
may fail; a stopped function or an expired lease is a fault.

**ExecutionOutbox.** A batch is a transaction with row locks and the marks it will commit; what was
sent stays sent when it is rolled back. `created` orders the rows: a batch is the set of the oldest
free rows (`FirstOf`), taken oldest first (`Turn`). The executions are reduced to what the requeue and the
dead-letter tool see. `Overflow` is the attempt count at which `2**attempt_count` stops being a
float (1024 in the code).

**TrustedComparison.** The tests a question has, the ones that are sent, the runner's result line
(from the honest loop of `run_request`, or any other line), parsing, comparison, grade. Answers are
sequences, with column lists for SQL; an unordered comparison sorts the rows of two lists or of two
results with the same columns. A question is any that `validate_package` lets through (`Validated`),
which bounds neither its tests nor its comparisons. Every refusal is modelled: a runner refuses a
request of more than `MaxTests` tests and prints a line of no attempt; the controller refuses a line
of another attempt, a log over `MAX_RESULT_LOG_BYTES` (`long`), more than `MaxResultTests` results, a
question without or with too many tests (`Loads`), a strategy it does not support, and a tolerance
that is no number. Left out of the comparison: `normalized_text`, `json`, valid tolerances and the
equality of JSON numbers.

**LocalTransport.** The table gives a message a new receipt with every delivery; a process that took
too long holds an old one, which must neither delete nor extend. The executor keeps one future per
execution id, replaced by a second create while the first request still runs in the pool. A process
handles its batch in order; slots bound the pool, and a restart forgets futures.

**PracticeWorkspace.** The page's React state and refs, its effects and timers, and the requests it
has sent. A request reaches the server late, after a newer one, or never; its answer finds whatever
the page has become, or a reloaded page, which does not hear it. The server side is the promise
CandidateApi is checked for: a key names one execution of one source, a save changes an open session.

**MobileWorkspace.** The screen's three timers run on a clock of steps; only the order of their
deadlines (350 ms < 1 s < 1.2 s) matters. Every effect with `elapsed` in its dependencies starts
over when the second changes. A screen that is left keeps its callbacks, with its own `sourceRef`;
a stopped app has none. Timestamps of device and server are compared as `shouldRestoreLocalDraft`
does; the device's clock is taken to be right.

**ContentReview.** All writers of `question_versions` and of the pointer: the review workflow, which
locks the version, the synchroniser, which reads the version without a lock and writes it later
while it holds the questions row, its rollback, and three scripts. Two orders of locking are a
deadlock that fails one transaction; that, and not a check, keeps a publication out of the gap
(mutant `QuestionUnlocked`). A version has the author its provenance record names: for packages a user
`content-author:<id>` made for the purpose, for attachments the importing user, for an import's draft
the uploader, until a synchronisation takes the version over. Every writer inserts a passed validation run with a version, so the
reviewers' validation guard is always met and is left out.

**ContentImport.** A record passes the pipeline as a function of the stages it fails and its
similarity; import row, draft, item and totals are separate transactions, with a crash in between.

**SourceRegistry.** A collector reads the policy once and sends batches, each a transaction, while
administrators review and pause the source; gaps and briefs are recomputed in a read and a write.

**KnowledgeBank.** Imports in one transaction each, upserts that keep the longer description,
dispositions that change, publication that reads first, and what candidates are shown.

**CorpusImport.** Chunks with a checkpoint each. Duplicates and families depend on all earlier rows,
so a resumed run reads the file from its start (mutant `StreamFromCheckpoint`).

**Identity.** The upsert every authenticated transaction begins with, webhooks in any order and
number, reconciliation, role and status changes by administrators.

**MockInterview, AiArena.** Their transactions lock the candidate's `users` row first, so an
interview's request is one step. A generation is two transactions around the provider's call; a
finalization reads the best score before it locks the profile row (mutant `NoUserRow`).

**CandidateEvidence.** The three writers of mastery, of which the controllers do not take the users
row: each inserts its evidence, aggregates what it can see, and upserts under the mastery row's lock.

**StudyRecords.** Pull-request reviews with their grading as an operator, tutor sessions and chat
turns with their derived event keys, the knowledge progress projection, bookmarks and notes. Of the
types `ActivityInput` offers, a request can record only those the policy
`knowledge_activity_owner_insert` of migration 20260824_0016 admits (`InteractionEvents`); with any
other the INSERT fails and the request leaves nothing. The projection is modelled whole.

## 3. The runs

| run | instance | checks | states |
|---|---|---|---|
| execution_safety | 1 submission, 2 controllers, 2 attempts, 1 fault, all logs | `TypeOK`, `ResultOfCurrentAttempt`, `GradedWithResult`, `ActiveIsLeased`, `PersistIsLegal`, `TerminalIsFinal`, `KeepsOutcomePromise` | 1.5 M |
| execution_recovery | 1 RUN, 1 controller, 2 attempts, 2 faults | `EveryExecutionFinishes`, `FinishedIsForgotten` | 97 k |
| execution_racing | 1 submission, 2 controllers, 1 attempt, 1 fault | `EveryExecutionFinishes` | 108 k |
| api_runs | 1 session, 2 requests, 2 runs and 1 submission, limits 1 | `WithinBackpressure`, `CountedOncePerKey` | 323 k |
| api_submits | 2 sessions, 2 requests, 2 submissions | `SessionsAgree`, `SubmissionsSettle` | 653 k |
| delivery | outbox: 1 execution, 2 controllers, 2 operators, 2 mishaps | `ClaimedStaysDue`, `DiscardIsSafe`, `RequestIsTaken` | 459 k in all |
| | transport: 2 messages of 1 execution, 2 processes, 1 slot, 2 deliveries | `UnhandledStaysQueued`, `ObservesNewestRequest` | |
| | inline: 1 SQL and 1 Python execution, 2 threads, 1 fault | `RunsAtMostOnce`, `SourceNeverMeetsEgress`, `KeepsInlinePromise`, `ConvergesUndisturbed` | |
| | comparison: every question of one small test, some of two, unfit questions; runners take 2 (Python) and 1 (SQL) tests, the controller 2; every result line of up to 2 results | `VerdictIsEarned`, `HiddenStaysHidden`, `HonestSubmitCounts` | |
| | browser: 2 texts, 2 keys, 2 requests in flight; 4 budgets of edits, keys, a reload, a lost message | `DraftCatchesUp` | |
| | mobile: 2 openings, 1 edit, a stall, or a click and a lost message | `DeviceCatchesUp` | |
| platform | content: 1 question of up to 2 versions with 2 packages, 3 reviewers, 2 syncs, 3 assignments, 2 uploads | `CurrentIsPublished`, `ApprovedByTwo`, `PublishedIsImmutable`, `RolledBackLeavesNothing` | 731 k in all |
| | sources: 2 collectors, batches of 1, 3 reviews | `OwnFindsStayAvailable` | |
| | knowledge: 3 archives, 2 problems | `HostedWasLicensed` | |
| | corpus: 3 files of up to 4 rows, chunks of 1 and 2, 2 runs | `ResumesAsUninterrupted` | |
| | accounts: 2 subjects, 2 roles, 3 versions of their metadata | `DatabaseIsAuthoritative` | |
| | interviews: 2 sessions of 3 and 1 phases, 4 answer keys | `ReportCoversInterview` | |
| | arena: 2 generations, 2 submissions, 2 threads, quota 1 | `RatingIsEarned` | |
| | evidence: 3 sources of 2 competencies, 2 writers | `OnlyOverlapIsMissed` | |
| | study: 1 review with 2 comments, 1 tutor session, 3 activities | `StudyRecordsAgree` | |
| stale_cleanup, early_limit, vercel_stops, comparison_run, knowledge_rights | smallest instance that shows it | a documented statement each | violated |

**Bounds.** Two controllers are needed for every race, two attempts for a result of an abandoned
attempt; one fault at a time reaches every recovery path, and a second one (recovery) a fault during
recovery. Executions share only the queue and the workers' time, so one suffices for the races; the
proofs cover any number. The API needs two requests (a race), two keys (a repeat and a different
request) and limits of 1, so that the limit is reached. In the comparison two tests distinguish
"all" from "some", two elements order from content. The event bound `MaxEvents` only cuts sequences
off after every operation has happened in some order. A client needs two texts or two requests in
flight for an overtaking, one reload or a second opening for an answer nobody waits for. The content
instance has as many reviewers as allow both an illegal and a legal pair, and three assignments, one
more than the kinds, so that one is a reassignment; a collection needs two batches, a corpus a chunk
boundary inside a file, the arena two threads with one quota. Budgets (`Budget`, `Allowance`) are
sets of records: each behaviour gets one, so that the expensive cases do not multiply.

**Deadlock** is not checked where a behaviour may end: an execution that is over and forgotten
leaves nothing to do, a budget is spent, an interview is completed.

**Fairness.** `run_forever` catches every exception and goes on: weak fairness of each controller's
next step, of publication and of the stale-QUEUED requeue, which the same loop calls. The clock
moves: a lease nobody attends to runs out, a back-off ends. Kubernetes enforces
`activeDeadlineSeconds` and the TTL of finished Jobs. Nothing is assumed of the candidate, of
operators, or of a pod finishing, and faults are finite. In CandidateApi the service goes on
(what EveryExecutionFinishes shows of the controllers) and a transaction that cannot commit ends.
For Vercel a thread that is not stopped goes on and the client repeats its request. In the browser a
page that is opened loads, the 15 s timer fires, requests arrive and their answers are handled; it is
not assumed that the 700 ms timer ever gets its turn. On the phone time passes while a screen is open,
timers that are due fire, requests arrive and answers are handled. The weak fairness conditions are
stated part by part in MCDelivery; the parts of MCPlatform are checked for safety only, for each
waits for people or repeats by hand.

## 4. What the code does not keep

Five statements of the repository's documents are refuted by runs; PROJECT.json quotes them.

* **stale_cleanup**: `_defer_infrastructure_retry` and `_start_sandbox` delete by execution id,
  before or after finding out that the lease is lost, and so the Job the new owner watches.
* **early_limit**: `_reconcile_lease` takes a failed compare-and-set for an exhausted budget; two
  reconcilers of one lease can fail an execution at attempt 1 of 2.
* **vercel_stops**: without a reconciler one stopped function leaves a row DISPATCHING for ever,
  and it goes on counting against the candidate's limit.
* **comparison_run**: a RUN is sent the public tests, but all tests must come back; a RUN of a
  question with hidden tests ends as an infrastructure failure.
* **knowledge_rights**: an import keeps the longer description whatever its disposition, so a
  published problem comes to show the text of a `rejected_proprietary` source.

Met while modelling, visible in the models, without a run of their own:

* a retry takes RUNNING back to DISPATCHING (`execution_claims.py:139`), an edge neither
  `LEGAL_EXECUTION_TRANSITIONS` nor `src/docs/architecture/EXECUTION_STATE_MACHINE.md` has;
* a failed DELETE is swallowed by `cleanup` (`execution_kubernetes.py:438`) and the Job name is then
  forgotten; the Job has a TTL, the input Secret has none and stays;
* `queue_run` (`execution_api.py:544`) may overwrite the draft of a session a controller completed
  after the state was read;
* repeating an accepted submission after its evaluation is refused with 409 instead of being
  answered, because the session is looked at before the key (`execution_api.py:155`);
* `retry_delay_seconds` (`outbox.py:34`) caps after the exponentiation: from attempt 1024 on it
  raises, and the whole batch is rolled back;
* cancelling a SUBMIT, or its failure, leaves its session SUBMITTED until the candidate completes it
  by hand;
* the result of an honest runner is refused, and the attempt spent, in four cases: its log is over
  256 KiB (`execution_results.py:240`) although a Python runner lets each test return 64 KiB and a SQL
  runner 256 KiB; a runner that refuses its request prints attempt 0, which no row is at; an SQL
  question of 101 to 200 tests is one the runner always refuses, and one of more than 200 one the
  controller never loads (`execution_results.py:363`); and a comparison strategy outside the
  controller's list, or a tolerance that is no number, raises. A question package is validated for
  none of this (`src/packages/question-schema/src/rigor_question_schema/models.py:106`): such an
  execution is retried to its attempt limit and fails. `HonestSubmitCounts` says that nothing else
  is refused.

Content:

* a rollback (`content_sync.py:232`) publishes a version again whose content was changed since, and
  neither it, nor `publish_production_launch_catalog.py`, nor a publication of
  `sync_attachment_question_bank.py` asks for an approval: candidates can be served what nobody approved;
* the author a reviewer must not be (`reviews.py:123`, `:204`) is for a package the user
  `content-author:<id>` of `content_sync.py:709`, which no one signs in as: the person who wrote a
  package may review it. `ApprovedByTwo` therefore says nothing of authors;
* a synchronisation can overwrite an approval given between its unlocked read and its write
  (`content_sync.py:374`); the approval is lost, which is safe;
* reassigning the technical reviewer after the approval leaves the version without a way forward;
* an IngestionError raised while a draft is created leaves the import `processing`, which the
  rollback refuses; the rollback deletes `review_decisions`, append-only in
  `src/docs/DATABASE_SCHEMA.md:15`; nothing consults `publication_block` before a publication;
* publishing again under a used key answers `published` though the version may be something else;
* `recompute_gaps` run twice at once inserts an open brief twice; stored abstracts survive the
  downgrade of a source to deep links; a disposition downgrade leaves approved solutions shown;
  `get_problem` returns the description of metadata-only problems too;
* a corpus row whose fingerprint two files of one corpus version share stops the second file for good.

Accounts and records:

* a `user.deleted` webhook before the `user.created` finds no row, and the late creation is active;
* mastery loses an update when a controller and the API, or two controllers, record evidence of one
  competency at once (`attachment_progress_patch.py:118`), until the next evidence arrives: this is
  the exception `OnlyOverlapIsMissed` states;
* the arena's quota is consumed by duplicates and by calls that fail (`ai_arena_routes.py:413`);
* a tutor message holds the candidate's users row during the provider's call;
  `append_tutor_event`'s ON CONFLICT DO UPDATE needs a privilege migration 0019 does not grant; a
  client's event key `<k>:assistant` takes the key of a reply;
* comments of a review are ordered by the start of their transactions, not by their commits;
* `ActivityInput` (`knowledge_progress_routes.py:50`) and the web client's type
  (`src/apps/web/lib/knowledge-progress-api.ts:47`) offer `public_tests_run`, `submission_completed`,
  `problem_solved` and `problem_failed`, which the INSERT policy refuses unless
  `rigor.trusted_evidence` is on; nothing turns it on, so such a request fails, and the statuses solved
  and failed and the three counters of the progress table are never reached
  (`src/docs/NEXT_MILESTONE_CONTRACT.md:239` plans the trusted projection).

Clients:

* in the browser a reload before the first autosave loses what was typed, although
  `src/docs/SYSTEM_ARCHITECTURE.md:48` promises browser storage until the autosave succeeds; a late
  answer to a cancellation forgets a newer execution; a submission's key, taken after the await, can
  outlive an edit; the keyboard shortcuts work while a request is pending;
* in the mobile app the 1.2 s autosave depends on `elapsed`, which the 1 s interval changes, so it is
  started over before it can fire; only a stall or a suspension lets it through, although
  `[slug].tsx:414` says drafts are synchronised to the session. `DeviceCatchesUp` is therefore about
  the device's draft, and the same statement about the server's is false in the model;
* in the mobile app a cleared text is never stored; a late answer of a screen that was left overwrites
  the newer draft on the device, until the next second stores it again.

## 5. The proofs

The theorems hold for every set of executions, controllers, threads, sessions, keys, versions,
uploads, files and so on, and for every value of the bounds. They assume the named assumptions of
the modules, which TLC evaluates in every run, and nothing else:

* identifiers of different kinds differ, and "nobody" is none of them (NULL is no id);
* submissions, SQL executions, attachment versions and the like are subsets of what they are taken from;
* `max_attempts` is in 1..10, as `discover` enforces; batch sizes and slots are positive
  (`claim_batch` refuses others, a thread pool has a worker); bounds on faults are numbers;
* uploads, collections and corpus files are finite sequences of what their parsers produce;
* a mock interview's template has phases, each once; every message has an execution, and the queue
  table is finite;
* a question has a test, and finitely many; identifiers and answers are compared as naturals, and the
  limits of runners and controller are naturals;
* a bundle of the knowledge bank consists of observations of the types `knowledge_ingestion.py`
  declares, its company observations finitely many;
* the arena has finitely many versions of three difficulties; a grade's passed tests are among its
  tests, its time is an integer and its quality, in hundredths, is what `score_arena_submission` clamps;
* two findings of one file are more than two lines apart (`FindingsApart`: the three findings of
  `pr_review_domain.py:236` are in three files), and lines are naturals.

| module | theorem | statement |
|---|---|---|
| ExecutionController | TypeCorrect, Fencing, Grading, NoneStranded, PersistLegal | `Spec => []` of `TypeOK`, `ResultOfCurrentAttempt`, `GradedWithResult`, `ActiveIsLeased`, `PersistIsLegal` |
| | Finality | `Spec => TerminalIsFinal` |
| | PromiseKept | `Spec => KeepsOutcomePromise`: the controllers implement ExecutionOutcome |
| VercelDispatch | AtMostOneRun, SourceIsSealed | `VercelSpec => []` of `RunsAtMostOnce`, `SourceNeverMeetsEgress` |
| | InlinePromiseKept | `VercelSpec => KeepsInlinePromise`: so does inline dispatch |
| CandidateApi | Backpressure, EachKeyOnce, SessionAgreement | `ApiSpec => []` of `WithinBackpressure`, `CountedOncePerKey`, `SessionsAgree` |
| | ServiceKeepsPromise | `ApiSpec => OutcomeSpec`: and the API disturbs neither |
| ExecutionOutbox | ClaimsStayDue, DiscardsAreSafe | `ClaimedStaysDue`, `DiscardIsSafe` |
| LocalTransport | UnhandledIsQueued, NewestIsObserved | `UnhandledStaysQueued`, `ObservesNewestRequest` |
| TrustedComparison | VerdictsAreEarned, NothingHiddenIsShown, HonestSubmitIsCounted | `ComparisonSpec => []` of `VerdictIsEarned`, `HiddenStaysHidden`, `HonestSubmitCounts` |
| ContentImport | ServedIsPublished, TwoApprovals, PublishedStays, RollbackIsComplete | `CurrentIsPublished`, `ApprovedByTwo`, `PublishedIsImmutable`, `RolledBackLeavesNothing` |
| CorpusImport | ResumingIsSafe | `ResumesAsUninterrupted` |
| SourceRegistry | FindsStay | `OwnFindsStayAvailable` |
| KnowledgeBank | HostedIsLicensed | `HostedWasLicensed` |
| Identity | DatabaseDecides | `DatabaseIsAuthoritative` |
| MockInterview | ReportsCover | `ReportCoversInterview` |
| CandidateEvidence | MissesOnlyOverlap | `OnlyOverlapIsMissed` |
| AiArena | RatingsAreEarned | `RatingIsEarned` |
| StudyRecords | RecordsAgree | `StudyRecordsAgree` |

With them every invariant and every action property the passing runs check is a theorem.

Few of these properties are inductive. The strengthenings, each checked by TLC before it was proved:

**Execution (`IInv`).** `RowInv` ties the columns of a row together; `WorkInv` is what a controller
in the middle of a call may rely on: its attempt is not ahead of the row's; a log about to be
persisted carries that attempt; and *as long as the row is still its own at that attempt*, a sandbox
it watched means RUNNING. The last part is the fencing argument: a controller never knows whether it
still owns the row, only what follows if it does. `RespectsOthers` says what a step owes the other
controllers: attempts only grow, and a row that ends up theirs was theirs and is unchanged. Each row
operation has a lemma that it keeps the rows and respects others (`*Keeps`), each action a lemma that
it leaves its controller in a task that satisfies `WorkOK` (`*Step`), and three general lemmas
(`EnvStep`, `LocalStep`, `RowStep`) put them together. Finality and the refinement then need only the
row operations under that invariant: a step maps to Try, Conclude, Withdraw or a stutter according to
what it does to the row.

**Inline dispatch (`VercelInv`).** All threads share one worker id, so ownership of the row says
nothing; `AloneInv` says that of the threads at one execution at most one is between its claim and the
program's start, because a claimed row never becomes unclaimed again (`RowsKept`); `UnrunOK` that the
program has not run before that start; `BoxOK` orders source and network.

**API (`ApiInv`).** Everything rests on the users row: a request that is under way holds it
(`RequestInv`), so what it found is still so when it writes (`CheckedInv`), whatever the controllers,
who do not take that lock, committed in between: a session it found SUBMITTED may be COMPLETED.
The counters are the cardinalities of the keys of a session (`CountInv`), which needs that accepted
executions are finitely many. SessionsAgree needs that a session is SUBMITTED or COMPLETED exactly
when it has its one submission (`SubmittedHasOne`).

**Outbox (`OutboxInv`).** A row that an open batch has read or marked is due and in no other batch
(`LockInv`); what the dead-letter tool classified for discarding stays settled (`ToolInv`), as
terminal states are final and a Job name is not given to a finished execution.

**Local transport (`QueueInv`, `PoolInv`).** A handle names one delivery (`EachReceiptOnce`) and
the row's handle is the newest (`ReceiptsGrow`); a process's future is of an attempt at least as new
as any of its requests still in the pool, and done only if it is newer than those.

**Comparison (`ComparisonInv`).** The log of an honest runner is a prefix of the request and all of
it when complete (`HonestOK`); what is stored is a function of log and question (`StoredOK`), so that
the rest is about that function, for any log. Comparing sorted rows is comparing bags (`SortAlike`):
that a finite set can be listed in a given order (`Listed`) is shown without induction, each member
going to the place that is the number of members up to it, an injection into 1..n and so onto it.
Results with distinct identifiers count their tests (`CountsAlike`), which turns the numbers of
passed and returned results into numbers of tests (`Counted`). HonestSubmitIsCounted needs that the
request lists every test once (`Sent`), so that a log that is fresh and short is refused for nothing
the API, the runner and the controller could have agreed on.

**Content (`ContentInv`).** The version a synchroniser is about to write was not published when it
was read and still is not (`SyncInv`), because it holds the questions row; a version that awaits its
editor carries the technical approval of the content it has (`DecisionInv`); and a version an import
created is in its report or about to be (`ImportInv`), although they are written in two transactions.

**Corpus (`CorpusInv`).** Everything up to a batch's checkpoint is served, and whatever is served is
classified as the whole file classifies it. The lemmas about the chunk of a run need minima and
maxima of sets of row numbers; `FirstRow` gets them from the well-foundedness of `<` on the naturals
(`WFMin`), without an induction over the file.

**Accounts, interviews, evidence.** Identity needs types only: each request is one transaction.
`InterviewInv` adds that the current phase is the one after the answers. `EvidenceInv` follows each
open transaction: what it has met, aggregated and written.

**Recursion.** An import, a grade and a rating fold an operator over a sequence or a set, which in the
community modules is a function that `CHOOSE` picks by its recursion equation; nothing follows from
that before such a function is shown to exist. Induction on the naturals (`EveryNumber`) is shown by
the least counterexample; the iterates of a function exist because their prefixes agree
(`Iteration`); a recursion on the subsets of a finite set has a solution because its n-th iterate is
right on every subset of up to n elements (`SetRecursion`). `FoldRecursion` and `SumIsDefined` are its
instances for FoldLeft and SumFunction. A fold is then followed row by row, and a sum changes by what
one of its summands changes by (`SumChangesBy`, an induction over subsets).

**Knowledge bank (`KnowledgeInv`).** `HostedWasLicensed` is about what is shown; inductive is that a
source which is hostable *now*, a source of every problem published *or being published*, and the
source of every approved solution were each declared hostable by some import. An editor's write acts
on a read from before other imports: it needs that licences stay declared (`LicensesStay`) and that an
upsert never publishes and never takes a source away (`UpsertKeeps`, carried through a payload by
`ImportKeeps`). A merged bundle is a payload like any other (`PayloadTypes`): the longest description
exists (`LongestRow`), and merging keeps observations what they were.

**Arena (`ArenaInv`).** The gain of an open finalization was computed before its insertion. It is right
because the users row is held from one to the other: at most one finalization is open, its pair has no
result yet, and its gain is measured against the best score there still is (`FinalizationOK`). That
inserting it changes one summand of the rating by exactly that gain (`PaidTheDifference`) needs that a
better total never contributes less, rounding included (`BetterContributesMore`).

**Study records.** `ReviewInv`, `TutorInv` and `ProgressInv` are kept each by its own requests. A
review's comments change only before it is graded; a comment is within a line of at most one finding
(`CatchesOne`), so that the findings caught do not depend on the order of the comments
(`GradeCatches`). A progress row tells its problem's events (`Tells`): one more event the policy admits
is told by the projected row (`ProjectionTells`), one of another problem changes nothing
(`OthersTellNothing`), and no row ever tells of an outcome.

`ServiceKeepsPromise` and the two refinements share ExecutionOutcome, so what the candidate sees
through the API is what either way of executing provides; the fairness of the service that
CandidateApi's liveness assumes is not part of these theorems.

**What stays with TLC, and why.**

* Liveness and everything that involves fairness or ENABLED: `EveryExecutionFinishes`,
  `FinishedIsForgotten`, `SubmissionsSettle`, `RequestIsTaken`, `ConvergesUndisturbed`,
  `DraftCatchesUp`, `DeviceCatchesUp`.
* What the five refuted statements say: each is false, and its run is a counterexample.

## 6. Not modelled

* **Text and scores**: parsers, similarity, rubrics, tutor heuristics, normalisation and numeric
  tolerance are functions whose values the models take as given; no protocol state depends on how
  they are computed.
* **Cryptography and security settings**: token and webhook signatures, network policies and
  container settings are data or external.
* **Views**: catalogues, company readiness, analytics, health and most pages only read.
* **Synchronous local runners and the legacy routes**: `main.py:73` removes the legacy run and submit
  routes, so that only the legacy application reaches `submissions.py`'s writers; the evidence writer
  is modelled beside its asynchronous successor, the rest repeats CandidateApi synchronously.
* **Runner images** in part: process limits and database fixtures are below the loop over the tests.
* **Other**: the background worker calls operations that are modelled; schemas, migrations and
  infrastructure are declarations, cited where a definition rests on one.

## 7. What is left

Every safety property is proved; liveness stays with TLC. What would say more is in section 6: the
text and the scores the models take as given, the rest of the legacy application, and the parts of
the runner images below their loops.

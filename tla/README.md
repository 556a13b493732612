# LineageWeave: TLA+ models, model checking and proofs

LineageWeave reconstructs lineages of business posts and derives evidence from
them (summaries, entities, graph edges, answers with citations).  Most of the
program is a sequence of pure transformations between a PostgreSQL row and a
provider call.  What is hard in it is the part around those calls: rows that are
claimed, leased, retried and settled by workers that only hear of them through
a lossy stream, on behalf of readers whose rights and sources change meanwhile.
This project models that part, and the algorithms whose outcome it decides.

PostgreSQL is always the truth and a Valkey stream is only a wake-up.  The
common shape of a durable job is

    request --(transaction)--> row --(after the commit)--> XADD wake-up
    worker  --XREAD--> claim (transaction) --> provider, for minutes, with no
            transaction held --> persist / settle (transaction)
    sweep   --> rows that look lost or orphaned: XADD again

and every arrow may fail, repeat, or be overtaken by another actor's.

## 1. Inventory

| Component | State | Operations | Hard behaviour | What makes it correct | Module |
|---|---|---|---|---|---|
| **Global Ask queue** `global_ask_queue.py`, `global_ask_service.py`, migrations 0165, 0203 | `global_ask_job` rows with the captured scope; cursor, batch and semaphore per process | submit, sweep, read, dispatch, claim, load visibility, compute, settle | several processes, orphan sweep by age alone, unguarded settle, revocations while waiting, crashes | a live task keeps its row; a settled response stays; the scope only narrows; every job settles | `GlobalAskQueue` |
| **Global Ask retrieval and answer** `post_chat_ingestion.py`, `global_ask_queue.py`, `claim_verification.py` | none but the computation in hand | search, expand, rows, revisions, facts, answer, verify, draw | a dozen statements without a snapshot and minutes of providers between them | facts stand under what evidences them; an answer about the past knows nothing later; only public claims leave | `AskAnswer` |
| **Post-content ingestion** `post_content_queue.py`, `post_content_worker.py`, migration 0050, three scripts | one ledger row per post; the derived evidence | ensure, claim, three persists, finish, sweep, requeue, backfill, import | leases that outlive their holder or not, fencing by a number that is also reset, body edited between read and write | fenced attempts; a failure is earned and terminal; evidence converges to the current body | `PostContentQueue` |
| **Post normalization and content units** `post_content_normalization.py`, `post_content_persistence.py`, `post_structure.py`, the persists of `post_content_worker.py` and of three scripts | units, panels, vectors of a post; its ledger row | look, ensure, requeue, claim, import, backfill; describe, adjudicate, embed, replace; check, finish, record | three providers, batch by batch, each of which may fail or change its model; whoever persists replaces what another has persisted | a success declared of units that still stand was declared of whole units of one body | `ContentUnits` |
| **Analysis-run delivery** `analysis_run_start.py`, `_outbox.py`, `_worker.py`, migrations 0018-0023, 0217 | append-only status events, one outbox row, append-only delivery events, receipt, result | start, claim, compute, persist, replay from entry 0-0, read | two drivers of one run, crash after claim, lost lock session, remote runs still running | one outcome per run; event tables agree; a claimed run is resumed | `AnalysisDelivery` |
| **Analysis-run registry** `analysis_run_ingestion.py`, migrations 0018, 0020, 0022 | runs by (account, idempotency key), frozen snapshots | create or replay | two creations of one key, shared snapshots, backdated posts | one run per key, equal to what was asked; nothing from after its cutoff | `AnalysisRegistry` |
| **Post chat** `post_chat_ingestion.py`, `post_chat_replay_policy.py`, migration 0249 | answers with authorization receipt, scope and sources | ask, gather, revalidate, persist, replay, browse | replay to another reader; rewriting, withdrawal or deletion while an answer is made | nobody is shown an answer made beyond his own rights | `PostChat` |
| **Post summary** `post_summary_ingestion.py`, `main.py` | replaced projection of a post | capture, generate, store, fall back | body or rights change during the computation | the summary is of the locked body, and the last good one is kept | `PostSummary` |
| **Event lineage** `reconstruct.py`, `lineage_ingestion.py` | edges, their evidence, rebuild metadata | group, score, fuse, thread; replace; read | ties in time, rebuilds that overlap, readers between statements | a forest that leads forward in time; no invisible bridge | `LineageTree`, `LineageGraph` |
| **External lineage** `external_lineage_*.py` | none | parse, cut off, budget, infer, check | observed parents among inferred ones | labels are shown to a model only as allowed; the result meets its contract | `ExternalLineage` |
| **Entity catalog and names** `corporate_entity_ingestion.py` and resolution modules | entities, parents, names | score, resolve, place, create | scored before the lock, recursion to the parent | created only if nothing is like it; no entity above itself | `EntityCatalog` |
| **Knowledge graph, Keymen, teams** `knowledge_graph.py`, `keyman_ingestion.py`, migration 0016 | mentions, edges, evidence | replace mentions, derive, prune | edges shared by posts, two writers, edges behind their mentions | an edge stands exactly while something evidences it | `MentionGraph` |
| **Counterparties, verification, customer hints** `entity_relationship_ingestion.py`, `relation_verification_ingestion.py`, `customer_hint_ingestion.py` | relation rows with verdicts, resolutions | classify, search, store; capture, derive, bind | an answer for a row that was replaced meanwhile | a verdict belongs to the row it was asked for | `ClaimEvidence` |
| **Ontology neighborhood and cursor** `ontology_neighborhood*.py`, `ontology_source_cursor.py` | none but the sealed token | begin, load, widen, assemble, cut, continue | visibility and facts change between statements and pages; three limits | no repeat or leak; no gap where a chain can exhaust the neighborhood | `NeighborhoodPages` |
| **Source posts, revisions, Voices** import script, `source_post_revision.py`, migrations 0024, 0237, 0243 | valid-time intervals | import, assign, read as of a clock | source times that stand still or go back | one version per clock; the past stays | `SourceRevisions` |
| **Activity stream, tickets, commitments** `issue_ticket_ingestion.py`, `activity_stream.py` | ticket rows, one stream per post | create, edit, derive, tell | choice, write and event are three steps | no stacked commitments; only committed changes are told | `IssueTickets` |
| **Period reports** `report_ingestion.py`, `period_report.py` | item bank and scores by period | calibrate, score, replace, read | rebuilds of one period or of two, grants of the reader | one metric per rebuild; nothing computed of hidden posts is shown | `PeriodReports` |
| **Authentication, HTTP API** `auth.py`, `main.py` | process lifespan | handlers | worker tasks are started once and never watched | (handlers are actions of the modules above) | |
| **MCP server and quota; channel weights; occupational data; provider clients; provenance and calendar; frontend; operations** | see `PROJECT.json` | | statistics, reference data, I/O, one atomic script | not modelled, reasons in section 6 | |

Components interact through the rows they share.  `SourceScope` states once who
may read which post; chat and summary use it, other modules take visibility as an
input that may change between any two statements.  `ContentUnits` looks into what
`PostContentQueue` persists in one step, `AskAnswer` into one task of
`GlobalAskQueue`, `AnalysisRegistry` creates the runs of `AnalysisDelivery`, and
`MentionGraph` binds names to the entities of `EntityCatalog`.

`PROJECT.json` lists every component with its sources and status, and under
`hazards` what is hard to test in them, at its line, with the properties that
cover it.

## 2. Modules

| Module | What it is |
|---|---|
| `GlobalAskQueue` | the queue in every detail that matters: rows, wake-ups, cursors, slots, phases of a task, time |
| `DurableAnswer` | what a polling reader is promised; `GlobalAskQueue` refines it (`ImplementsPromise`) |
| `PostContentQueue` | ledger, consumer loop, the job in its hands, requests, scripts and imports |
| `AnalysisDelivery` | outbox, lock, claim, computation, receipt, outcome, worker loop, readers |
| `OneOutcome` | a run is started once and ends at most once; `AnalysisDelivery` refines it (`ImplementsOutcome`) |
| `AnalysisRegistry` | creation and replay of runs over shared snapshots |
| `SourceScope`, `PostChat`, `PostSummary`, `ClaimEvidence`, `AskAnswer`, `IssueTickets`, `ContentUnits` | what is derived from a post on request |
| `LineageTree`, `LineageGraph`, `NeighborhoodPages`, `ExternalLineage` | what is derived from all posts together |
| `SourceRevisions`, `EntityCatalog`, `MentionGraph`, `PeriodReports` | what is kept of posts, organizations and evaluations |
| `MCGlobalAskQueue`, `MCPostContentQueue` | symmetry sets for the model checker |
| `MCNeighborhood` | a neighborhood larger than a window, for `NeighborhoodPages` |
| `MCAnalysis`, `MCDerived`, `MCProjections`, `MCRecords` | instances of several components that share no variables: a behaviour explores one of them, the others stay in one initial state |
| `GlobalAskProofs`, `PostContentProofs`, `AnalysisProofs`, `UnitProofs`, `TicketProofs`, `DerivedProofs`, `RecordProofs`, `ProjectionProofs` | theorems; the last three, and `AnalysisProofs`, about the composed instances and each of their components |

### GlobalAskQueue

| Model | Code |
|---|---|
| `job[j]` (status, scope, evidence, age, created) | row of `global_ask_job` with its scope tables; `age` counts from `updated_at`, `created` from `created_at`; `evidence` is what a stored answer may rest on |
| `worker[p]`, `inbox[p]`, `batch[p]` | the worker task of a process, the entries past its cursor, the entries of the last `XREAD` still to dispatch |
| `task[p][s]` | the coroutine in semaphore slot `s`: phase, job, timer, the scope it has loaded |
| `Submit`, `Sweep`, `Read`, `Dispatch`, `ClaimFails` | `enqueue_global_ask_job`, `republish_queued_global_ask_jobs`, `consume_global_ask_stream_once`, the claiming `UPDATE` |
| `LoadEntities`, `LoadUnits`, `Answers`, `Fails`, `DeadlineFires`, `Settle` | `process_global_ask_job`: the statements of `load_job_visibility`, the computation under `wait_for`, the settling `UPDATE` |
| `Crash`, `Start`, `StartsDead`, `Trim`, `Tick` | shutdown, `lifespan`, a start with Valkey unreachable, the stream's `maxlen`, time |

Every process reads every wake-up, because the code uses no consumer group.
The sweep and the batch alternate, as in the loop.  The retrieval and the
provider are one action with three outcomes: an answer, an exception, or nothing
until the deadline.

### PostContentQueue

| Model | Code |
|---|---|
| `job[x]` | row of `post_content_ingestion_job`; `due` and `stale` say that the retry interval or the lease is over; `budget` is a history variable that counts the resets of `attempt_count` |
| `evidence[x]` | which body the stored units are of, whether `post_content_is_complete` holds, the digests of cases and constructs |
| `worker[p]`, `inbox[p]`, `batch[p]` | the consumer and the job in its hands, the entries past its cursor, the handled part of the batch it would read again after an error |
| `client[c]` | a content request or script between its transactions: what it has read and will act on |
| `Claim`, `RefuseExhausted`, `IgnoreWakeup`, `Republish` | `_claim_job` and its early returns, `republish_queued_post_content_jobs` |
| `PersistContent`, `PersistCases`, `PersistConstructs`, `CheckComplete`, `AttemptFails` | `process_post_content_job`, one action per transaction |
| `FinishSucceeded`, `FinishBlank`, `FinishFailed`, `FinishRaises` | `_finish_job`, `_finish_failed_job` and their failure |
| `Look`, `Ensure`, `Requeue`, `PersistDirectly`, `RecordBackfill`, `Publish`, `Abandon`, `Edit` | content endpoint, requeue and backfill scripts, import |
| `RetryComesDue`, `LeaseExpires`, `Start`, `Crash`, `Dies` | time and the life of a consumer |

### AnalysisDelivery, AnalysisRegistry

| Model | Code |
|---|---|
| `statuses[r]`, `outbox`, `deliveries[r]`, `receipt`, `result[r]` | the rows of migrations 0018-0023 and 0217, in ordinal order |
| `driver[d]`, `lock[r]`, `reader[w]`, `stream` | a delivery in the hands of a request or worker, the session-level advisory lock, a worker's cursor |
| `Enqueue`, `PublishWakeup`, `Connect`, `Claim`, `Compute`, `Persist`, `Close` | `enqueue_pending_analysis_run`, `deliver_queued_analysis_run` and what it calls, step by step |
| `StartWorker`, `ReadBatch`, `HandleEntry`, `LookupFails` | `analysis_run_worker.py` |
| `LoseSession`, `StopDriver`, `RemoteEnds`, `EditPosts`, `EstimateWeights` | the environment: a cut connection, a stop at any step, TEPP, posts, weights |
| `ReadStatus`, `ReadResult` | the statements of `fetch_visible_analysis_run` |
| `AskRun`, `ReplayRun`, `CapturePosts`, `InsertRun`, `InsertRaises` | `create_pending_analysis_run`; posts appear with any earlier time meanwhile |

Trees and measurements are what they were computed from.

### PostChat, PostSummary, ClaimEvidence

Each handler is split at its database statements and provider calls; between any
two of them posts are imported, rewritten, withdrawn, moved to another unit and
deleted.  `PostChat` keeps of an answer what it was made of, and the receipt by
which it is replayed (`Replayable`, `ReplayableByCitations` for rows without
one).  `PostSummary` has the capture, the fallback to the last summary and the
storing transaction with its lock.  `ClaimEvidence` has the relations of a post's
counterparties with their verification, and the customer behind a raw code.

### AskAnswer

| Model | Code |
|---|---|
| `ask` | the local state of `compute_global_ask_answer` and `gather_global_chat_sources` |
| `Begin`, `Search`, `Expand`, `ReadRows`, `ReadRevisions`, `ReadSemantic`, `ReadGraph` | the statements of `gather_global_chat_sources`, in their order, with limits, budget and rank fusion |
| `Answer`, `Verify`, `Draw`, `Picture` | the provider's answer with its citations, the verification in public, the timeline (the whole component of readable posts around each cited one) and pictures |
| `ChangeSight`, `Rewrite`, `Restate`, `Relink` | grants, imports, extractions and rebuilds meanwhile |

Facts count while all that they relate is labelled and readable, and of the pairs
of a source and a fact only the first `FactPairs` are read.  A drawn timeline is
assumed to stay below its limit of nodes.

### IssueTickets, ContentUnits

`IssueTickets` is the ticket table of one post, the requests that create, edit
and derive, the stream of events and the calendar that reads the table.
`disturbed` is a history variable: it marks that a commitment was reopened or
written past another derivation's choice, the two exceptions without which
`NotStacked` does not hold.

| `ContentUnits` | Code |
|---|---|
| `ledger` | the row of `post_content_ingestion_job`: status, digest, `attempt_count`; `budget` counts the resets of it (history) |
| `Look`, `Ensure`, `RequeueFailed` | a content request in three steps (body, completeness, `ensure_post_content_job`), the explicit retry in two; both may set `attempt_count` to 0 |
| `TakeLease`, `RefuseExhausted` | `_claim_job`; `lease` and `retry_after` may be over at any moment |
| `ImportPost`, `Backfill`, `Record` | the scripts that persist units without a job, of the body that one of them replaces; the success that one of them records asks for no completeness |
| `Describe`, `Structure`, `Embed`, `Replace` | `persist_post_content`: three providers batch by batch, then one transaction in which nothing asks who holds the lease |
| `Check`, `FinishSucceeded`, `FinishFailed` | the completeness of whatever is stored by now, and in another transaction the finish, fenced by the number of the attempt alone |
| `AttemptFails`, `Stops` | an exception of a provider or a statement; a process or script that ends at any step |

`SucceededIsStored` does not hold of every success.  The history variables
`author` (the claim that persisted the units) and `judge` (the budget of the claim
that declared the success, and its body) say of which it does: of a success
declared by a claim of the present budget, while the units are those of the
present attempt.  Outside of it are, each of them what the code does: an attempt
that lost its lease and replaces the units after the success of another; a script
that does; a claim of an earlier budget whose number is the present one again,
which passes the fence; the backfill, which records a success of units it has not
looked at.

### LineageTree, LineageGraph, NeighborhoodPages, ExternalLineage

`LineageTree` defines the outcome of a reconstruction as a set of forests, since
equal times and equal scores leave it open.  `LineageGraph` has the rebuild's
transaction at READ COMMITTED (a statement sees what was committed when it began,
then waits for rows being deleted) and the readers between its commits.
`NeighborhoodPages` has every statement of a request, the windows over sources
and facts, the sealed cursor and the assembler's order and cuts, as operators on
sets of facts with a rank.  `ExternalLineage` has parsing, cutoff, budget,
inference and the contract of the result, checked over all documents of three
records.

### SourceRevisions, EntityCatalog, MentionGraph, PeriodReports

`SourceRevisions`: the import row by row with its triggers, Voices, and
`KnownAt`/`SpokenAt`, what a clock in the past is answered.  `EntityCatalog`: an
extraction binds names one by one; it scores them in a snapshot, expands short
names, places a new one below a parent that is bound first, and creates under
one lock.  `MentionGraph`: writers replace mentions in one transaction and derive
edges in a later one under the projection lock.  `PeriodReports`: a rebuild loads
the bank of its period or the nearest earlier one, scores group by group and
writes in one transaction; a reader sends three statements.

Abstractions shared by all: SHA-256 does not collide (a digest is the body), the
text of answers and evidence is reduced to what they are for, and scores are
small integers.  Row locks are modelled where a property rests on them (`Locked`
of `PostChat` and `PostSummary`, `Awaits` of `PeriodReports`, `locking` of
`MentionGraph`, `lock` of `EntityCatalog`).  Trimming of the stream is an action in `GlobalAskQueue`; in
`PostContentQueue` lost wake-ups come from publishing; the activity stream is cut
exactly at its length, where the server may keep a little more.

## 3. Runs

| Run | Properties | Bounds | What it shows |
|---|---|---|---|
| `ask_timing` | `TypeOK`, `LiveWorkerKeepsRow`, `OneTaskPerJob`, `SettledIsFinal` | 2 jobs, 2 processes with 2 slots, 1 fault, 1 dead start, slack 1+1+1 within an orphan window of 3 | the age rule of the sweep is safe as long as the work around the computation fits the slack |
| `ask_scope` | `ScopeOnlyNarrows`, `ImplementsPromise` | 1 job, 2 entities, 1 unit, 2 changes of grants, 1 fault | losing the last unit does not lift the restriction, moving a grant does not widen it, and the queue refines `DurableAnswer` |
| `ask_liveness` | `JobEventuallySettles` | 2 jobs in 1 slot, 2 faults | both jobs settle though the provider may never answer |
| `content_fence` | `TypeOK`, `FencedAttempts`, `FailureSpendsBudget`, `NewerAttemptSurvives`, `NoAutomaticReopen` | 2 consumers, 1 client of each kind in turn, 2 attempts, 3 claims, 1 reset, 1 edit, 1 miss | attempt numbers fence holders whose lease expired |
| `content_converge` | `JobEventuallySettles`, `ReaderConverges` | 1 consumer (as deployed), a polling reader, 1 import, 2 misses, 1 fault, 1 death | every job settles, and after the last edit the reader gets complete evidence of the current body, or a failure for it |
| `analysis` | `AnalysisTypeOK`, `EventsAgree`, `ComputesAlone`, `SucceededIsShownWithResult`, `NoFutureInformation`, `AnswersMatch`, `ImplementsOutcome`, `LineageSettles` | 1 run of three kinds, 1 start request and 1 worker, 1 stream entry, 1 fault, 1 edit; 2 keys, 2 creators, 3 creations, clock to 2 | one outcome per run whoever delivers it, agreement of the event tables, no evidence after the cutoff, and every started reconstruction settles |
| `analysis_measured` | `MeasurementIsStored` (violated) | one measurement, no fault | the outcome transaction of a completed measurement always rolls back |
| `derived` | `DerivedTypeOK`, `EvidenceStands`, `CustomerOfPresentText`, `AnswerIsGrounded`, `EgressIsPublic`, `UnitsAreWhole`, `ReadersAreAuthorized`, `LateAnswersBelong`, `TicketsAreTrue` | 2 requests of each kind over 2 posts; an answer over 3 posts and 6 facts with 1 change; 2 clerks and 2 tickets; a body of three pieces with a picture, persisted once with every answer of the providers; two bodies of one text each, persisted by 2 consumers or a consumer and a script with budgets and attempts up to 3 together | what is shown was made of what its reader may read, and what is stored is what the post says or what was searched for, against everything that others do between two statements |
| `projections` | `ProjectionsTypeOK`, `TimelinesHangTogether`, `ExternalIsSound`, `PagesAreWhole` | 3 records, two of one time, 2 rebuilds, 1 reader; 2 posts, 2 persons, 2 firms, pages of 1 edge, 1 write; all documents of 3 records | forests whatever the ties, page chains without repeat or leak and without gap where the windows allow it, and contracts kept |
| `neighborhood` | `NeighborhoodIsDelivered` (violated) | 2 posts, 5 persons, a firm and its parent; pages and windows of 3 edges, mentions filtered out, no write | a chain of pages ends as complete, yet a fact between two windows of its first page and the parent of a firm on it are never delivered |
| `records` | `RecordsTypeOK`, `EvidenceIsCurrent`, `ReportsAreSound`, `HistoryIsKept`, `NamesAreBound` | 1 post against 3 instants; 2 extractions of 3 names; 2 writers over 2 posts; 2 rebuilds and 1 reader of 2 periods | history, names, edges and reports stay sound under every interleaving |
| `catalog_cycle` | `NoEntityAboveItself` (violated) | 2 extractions of 3 names | a row becomes its own parent through a name bound by likeness |

The violated properties quote what comments and ADRs say of the code; further
findings without a run are disagreements that a passing property states as its
exception.  `PROJECT.json` cites both sides of each.  Properties of several
components that have the same shape are one property of the MC module:
`ReadersAreAuthorized` (`ShownIsAuthorized`, `ToldIsAuthorized`),
`LateAnswersBelong` (`LastGoodKept`, `OutcomeBelongsToRelation`),
`TimelinesHangTogether`, `ExternalIsSound`, `PagesAreWhole`, `ReportsAreSound`,
`HistoryIsKept`, `NamesAreBound`.

**How far a chain of pages is complete.**  `PagesPartition` promises a complete
chain only to an `Exhaustible` neighborhood.  The code keeps the rows of every
window of a first page, and each later window is of wider posts: with more rows
than `HARD_MAXIMUM_EDGES` there can be a gap between the last window and the
rows of an earlier one.  As long as nothing is filtered or hidden a page never
reaches the gap, because the rows before it fill the page; with a filter it may,
and the cursor then skips the gap.  The second way to lose facts is a source
page whose rows are all filtered, which hands over to the hierarchy.  So
`Exhaustible` asks for one of: no fact filtered or hidden and no page over its
nodes; or a neighborhood that fits a window and no hierarchy.  `neighborhood` shows
a chain that skips a gap and, in the same trace, loses the hierarchy of a firm;
`projections` has filters for both cases.

**Why the bounds suffice.**  The protocols compare a row with one holder's
memory of it; two processes are enough for every pair of roles (old holder, new
holder; sweeper, worker), and two jobs for contention on a slot.  The time
windows are small but keep the order of the code's values: deadline < orphan
window, retry interval and lease passed or not.  Attempts are cut to 2 (first
and last), so retry, last attempt and exhaustion all occur.  Requests over one
row come in pairs, posts in pairs or threes (focus, neighbour, bystander), limits
are below the number of things they cut, and batches below the number of pieces.
In `derived` the units part has two halves (`PersistedOnce`, `PersistedByTwo`): what
providers answer matters to what is persisted, who persists matters to what is
declared of it, and a request is looked at beside one writer, not two.
Of two posts only one is ever a demonstration and only one of two hint posts is
rewritten: what may be read or bound is decided alike for each.
Every constant named `Max...` bounds a counter or an environment that the code
does not; the theorems below hold for every value of them.  In
`content_converge` the bounds on claims and resets are out of reach or only stop
a row that would otherwise be claimed again.  Symmetry is used only in runs
without liveness properties, over identifiers that no operator orders.

**Deadlock** is checked except where the system really stops: when all requests
of a bounded instance have been answered, or the only consumer has ended and the
post has no text left to poll for.

## 4. Fairness

Used only by the specifications that state it (`FairSpec`, `AnalysisSpec`).

- Loop steps, database statements and the finishing steps are weakly fair: the
  event loop runs every ready coroutine and an answered statement continues it.
- `Tick`, `RetryComesDue`, `LeaseExpires`: time passes.
- `Start`: a process that stopped is started again, by an operator or an
  orchestrator (`docker-compose.yml` itself sets no restart policy).
- `Look`: a reader polls while the content is processing (the frontend does,
  every two seconds) and opens the post again now and then.
- `AnalysisDelivery`: `PublishWakeup`, `Deliver`, `StartWorker` and the worker's
  loop are weakly fair.  `Enqueue` is strongly fair: whoever waits for a run
  that is not delivered presses start again now and then, and a start may find
  the run's lock taken in between.  Without it a run whose wake-up was lost
  stays where it is until a worker restarts: no sweep reads the outbox.
- Not fair: the provider of Global Ask (`Answers`, `Fails`; only the deadline
  ends it), faults, edits, grants, TEPP (`RemoteEnds`), and the restart of a
  *dead* worker: nothing in `lifespan` restarts a task that ended while its
  process serves requests.  `JobEventuallySettles` of `PostContentQueue`
  therefore says "or all consumers have ended" (`Stranded`); a dead start of
  Global Ask is in `ask_timing` and left out of `ask_liveness`.
- In `PostContentQueue` every provider call is assumed to return or time out:
  the HTTP client has a timeout, though the lease does not bound its sum.

## 5. Proofs

All theorems are checked by TLAPS for every value of the constants, from the
assumptions named in the modules and nothing else unless stated.  Every
invariant that a passing run checks is the conclusion of a theorem.

Most assumptions say that null values are fresh and bounds are natural numbers.
The others say what the schema or the code decides before any state changes:

| Assumption | Why it holds |
|---|---|
| `AskOrders`, `PageConstants`, `TreeClock` | every `order by` the program relies on ends in an identifier, so it is total, and tables are finite; scores and clocks are numbers |
| `AskFacts` | an edge's evidence is the post it was mentioned in; other facts have no ends |
| `CatalogLikeness` | the ratio of `SequenceMatcher` is 1 for a normalized name and itself and for no other pair |
| `CatalogNames`, `ReportNothing` | a row's identifier is no name; no bank and no report is the absent one |
| `RevisionColumns` | body and Voice have values to take |
| `ExternalPayloads`, `SomeDocument` | what decoding makes of a document: lists of records with clocks, and there is one to analyze |

`GlobalAskProofs`

- `TypeCorrectness`: `Spec => []TypeOK`.
- `ScopeNeverWidens`: `ScopeOnlyNarrows` for any entities, units and history of
  grants.  The property is not inductive: it speaks of tasks that compute,
  while the scope is loaded in two statements.  `ScopeInv` adds how each half
  relates to the captured scope in between, and that a restricted scope names a
  unit, without which an empty intersection would read as "unrestricted".
- `ClaimIsExclusive`, under `SlackFits` (`ClaimSlack + Deadline + SettleSlack
  =< OrphanAfter`): a live task keeps its row and is alone on it.  The
  invariant `ClaimInv` ties the age of the row to the clock of the task
  (`Timely`): whatever is alive is younger than the window, so no sweep takes
  it, so nobody can claim it again.  Nothing in the code enforces `SlackFits`.
  The theorem states both `LiveWorkerKeepsRow` and `OneTaskPerJob`.
- `SettledResponsesStay` and `QueueKeepsPromise`, under `SlackFits`: the
  settling `UPDATE` compares nothing, and is right only by the exclusion above.
  The refinement maps `queued` and `running` to `pending` and forgets wake-ups,
  tasks and time; every step is a step of `DurableAnswer` or a stutter.

`PostContentProofs`

- `TypeCorrectness`, through `TypeInv`, which adds that rows have digests and
  held rows exist.
- The lemma `RowChanges` summarises what any step can do to one row.  The
  theorems about rows rest on it instead of repeating the case analysis.
- `FailureIsTerminal`: a failed row becomes active only with a new budget.
- `FailureIsEarned`: with texts that are not blank a row fails only after all
  its attempts.
- `AttemptsAreFenced`: within one budget no two holders have the same attempt,
  for any number of consumers.  `FencedAttempts` alone is not inductive: a new
  claim might meet a holder with a higher number.  `FenceInv` adds
  `NobodyIsAhead`: the row's pair (budget, attempts) is never behind a holder's.
- `SupersededLeaveNoTrace`: a holder whose attempt was taken over ends without
  touching the row, within one budget (across a reset it may: the finding at
  `post_content_queue.py:195`).

`AnalysisProofs`

- `DeliveryTypeCorrectness`, `EventsAlwaysAgree`, `SuccessIsShownWhole`, from
  `DeliveryInv`: beside `EventsAgree` it relates what a driver holds to the rows
  (`HandsOK`: whoever computes has a claim) and what a reader has read to what
  is now there (`ViewsOK`: rows only grow).
- `LockExcludes`: `LockHeld` says that while no session was cut whoever works
  has the lock; `ComputesAlone` follows.
- `DeliveryImplementsOutcome`: the refinement of `OneOutcome`, step by step.
- `RegistryTypeCorrectness`, `NothingFromTheFuture`, `AnswersAlwaysMatch`, from
  `RegistryInv`: a snapshot's availability bounds the creation times of its
  members, although runs with different clocks share it.
- `AnalysisTyped`, `AnalysisSound`: the same, the refinement included, of delivery
  and registry next to each other (`AnalysisImplementsParts`).

`UnitProofs`

- `UnitsTyped` and `UnitsWhole`, from `UnitsInv`: `WritersOK` says what a consumer
  or script holds at each step, and that its claim was given out (`GivenOut`:
  attempts compare within one budget, since a reset counts from 0 again under
  those who are at work).  `ClaimsInOrder` says that no two consumers hold the same
  claim, that whoever goes on to judge the units he wrote, which nobody replaced,
  judges these, and that after a success of the present budget nobody holds the
  present claim.  Without it `FinishSucceeded` could declare whole what another
  wrote, for its fence compares a number and nothing else.

`TicketProofs`

- `TicketsTrue`, from `TicketsInv`: `OneOutstanding` (no two commitments
  outstanding unless disturbed), `RequestOK` (what a request has chosen is there,
  and what it will tell of it is so: between the write and the event other
  requests go on), `EventOK` (the same of the events in the stream).

`DerivedProofs`

- `EvidenceAlwaysStands` and `AnswersAreAuthorized`, from `ChatInv`: `HeldOK` says
  that from its first source on a request holds the post asked about, and that
  whatever it has locked may be read until it commits; the receipt of a stored
  answer rests on nothing else.
- `SummariesAreAuthorized` and `LastGoodIsKept`, from `SummaryInv`: `CallOK` says
  that a new reply is of the captured body, and that a row locked for share is
  as captured.
- `OutcomesBelong`, from `RelationInv`: an outcome stored is one of a search for
  the label of the row, and what it cites exists.
- `CustomersOfPresentText`, from `HintInv`: a resolution keeps the code and text it
  was derived from, and the derivation is bound to the row it was captured for.
  What is *shown* is filtered when it is read; without the stored origin a
  resolution of an older text would pass.
- `AnswerGrounded`, from `GroundedInv`.  The lists of the answer are permutations
  cut to a limit: `ListOK` (no post twice, all of them asked about), proved for
  sorting, cutting, fusing and selecting (`SortedLists`, `ThoseKept`), is what numbering and citing rest on.  `AnchorLeads` keeps the best
  match at the head of the list through the expansion; `NotYet` says which parts
  of the answer are still empty at each step, so that nothing read before the
  rows are fixed can stand under them; `PastOnly` says that a computation with a
  cutoff has no fact and no text younger than it.
- `EgressPublic`, from `EgressInv`: `EgressIsPublic` with the point at which
  claims may have left, so that no later change to what is cited or public
  counts.
- `ReadersAuthorized`, `LateAnswers`, `DerivedTyped`, `DerivedSound`: all of this
  composed.  Every behaviour of `MCDerived` is one of each of the seven components
  (`DerivedImplementsParts`).

`RecordProofs`

- `HistoryKept`, from `RevisionInv`.  `OneVersionKnown` and `PastIsKept` speak of
  every clock, so the invariant describes the shape of a history: `VersionsHang`
  (intervals meet without gap or overlap, the open one is the row's body) and
  `VoicesHang` (the same of primary Voices).  `VersionJoins` and its companion say
  what one statement makes of such a history: the clocks before its own are left
  as they were, from its own clock on the new body is known.  That includes
  source times that stand still or go back.
- `NamesBound`, from `CatalogInv`: `ExtractionHangs` says how far what an
  extraction remembers may be from the name it was asked for (the likeness, the
  expansion of a short name, the row found under the lock), on every level of the
  recursion to parents.  `TwinsAreKin` is an action property: the lock makes what
  was scored the catalog of the moment.
- `EvidenceCurrent`, from `GraphInv`: `LockInv` (one writer projects),
  `WritersInv` (what the writer has in hand is derived from mentions that still
  stand, or the post is behind), `EvidenceInv` (`EvidenceIsCurrent` but for the
  post in the holder's hands).
- `ReportsSound`, from `ReportInv`: `ScoredOnOne` (what a rebuild has in hand is
  scored on the bank it has read), `RowStands` (a report names a bank that exists
  and is not younger), `ReadAsIs` (a reader whose statements were not disturbed
  has read the rows as they are).  The second conjunct is needed for the first:
  that two rows of one rebuild agree is not kept by a write alone.
- `RecordsSound`: all four next to each other.

`ProjectionProofs`

- `ReconstructionHasResult`: `Forests` is never empty, so that no theorem about
  its results is void and no rebuild is stuck in it.
- `LineageSound`, from `LineageInv`.  *Forest*: the members of a group are ordered,
  a parent is chosen among earlier places, so of any set of records the one with
  the least place has its parent outside.  *Budget*: the pairs judged are a
  double sum, over groups and over places, of windows that `PairCount` sums
  beforehand; sums over finite sets are compared term by term (`SumFunction`
  lemmas by well-founded induction on the domain).  *Hangs together*: a component
  is the smallest set closed under visible links around what was asked; a part
  of the timeline that no link leaves and that misses what was asked could be
  taken away from it.  `EdgeOK` holds for the stored edges under any overlap of
  rebuilds, although their union need not be a forest.
- `PagesSound`, from `PageInv`: while a request is open whatever is visible is in
  `chain.visible`, the set of what was visible at some moment of it, and what any
  statement has collected lies in that set; the limits on a page are the lemma
  that the first few of a ranked set are few.
- `ExternalSound`, from `ExternalInv`: inferred edges are of children without an
  observed parent and of candidates, the pairs judged are those counted, and the
  result is the one that follows from both.  The contract is the conclusion, the
  serializer's check never fails (`inquiry.pc # "broken"`).
- `TimelinesSound`, `ExternalAnswers`, `ProjectionsTyped`: the same of
  `MCProjections`, whose behaviours are behaviours of all three
  (`ProjectionsImplementParts`).

**Only model-checked**: `JobEventuallySettles` of both queues, `ReaderConverges`
and `LineageSettles`, liveness, which the provers cannot reason about; the
properties of the three runs that expect a violation; and of `PagesAreWhole` the
half that the pages of a chain over an undisturbed graph repeat no fact and,
where `Exhaustible` holds, leave none out (`PagesPartition`).  It relates the
pages delivered to the key of the cursor over several requests, which `PageInv`
does not; the other half, that what is shown was visible, is `PagesSound`.

## 6. What is not modelled, and the plan

Parts of modelled components that are left out, besides wording and layout: the
activity event of a chat answer; the list endpoint and the purge of the registry;
the 5W1H endpoint; leftover pairs of a reconstruction; how the likeness of two
names is computed; the random walk over the graph; labels, expiry and sealing of
the source cursor's token; report comparisons, ranking and dashboard; the
rewriting of a question; how a document is cut into pieces; titles and assignees
of tickets.  Requests carry one account each, and crashes take a whole process.

Components left out:

- *Channel weight estimation*, *leftover maps*, the statistics inside reports:
  floating point, beyond TLC and the provers.
- *Authentication, HTTP API*: no state of its own; handlers that write are
  actions of the modules.
- *MCP server and quota*: each decision is one atomic Lua script.
- *Occupational constructs, job architecture*: import and search of reference
  data; the replacement of a post's constructs is in `PostContentQueue`.
- *Provider clients*: what a caller can see of them, an answer, an incomplete
  answer, an exception or none, is in the modules.
- *Provenance and calendar*: stateless translations.
- *Frontend*, *operations*: clients and one-shot scripts.

What would come next, most important first: a proof of `PagesPartition`, from an
invariant that ties what a chain has delivered to the key in its cursor; an
abstract ledger that `PostContentQueue` and `ContentUnits` both refine; the quota
of the MCP server.

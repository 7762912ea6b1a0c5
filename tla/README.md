# Verification of the OSINT platform

TLA+ modules, TLC runs and TLAPS proofs about the parts of this repository
whose correctness depends on the order of events: coroutines, requests,
processes and browser callbacks that share state in memory, in Redis, on disk,
in Qdrant and in Neo4j, and that fail or restart at any point.  Paths are
relative to the repository.

Contents: [the system](#1-the-system) · [the modules](#2-the-modules-and-the-code) ·
[the runs](#3-the-runs) · [fairness](#4-fairness) · [the proofs](#5-the-proofs) ·
[what the code and its documents disagree on](#6-disagreements-found) ·
[not modelled](#7-not-modelled) · [plan](#8-plan)

## 1. The system

The platform ingests open-source feeds, keeps them as a graph (Neo4j) and
vectors (Qdrant), raises *incidents* out of bursts of signals, answers an
analyst's questions with a model, and shows everything on a globe.

| Part | State it keeps | Operations | Talks to |
|---|---|---|---|
| **backend** (`services/backend`, FastAPI, one asyncio loop) | see the next table | REST and SSE routes | Redis streams in, Neo4j, browser |
| **data-ingestion** (`services/data-ingestion`, APScheduler and CLI) | Redis keys, parquet files, SQLite | collectors, GDELT ingestion, batch jobs | feeds, Neo4j, Qdrant, Redis streams out |
| **intelligence** (`services/intelligence`, LangGraph) | checkpoint files of the re-enrichment | queries, retrieval, re-enrichment | Qdrant, Neo4j, model servers |
| **vision-enrichment** (`services/vision-enrichment`) | a Redis consumer group | claim, enrich, acknowledge | Redis streams, Neo4j, Qdrant |
| **frontend** (`services/frontend`, React and Cesium) | browser state | scope controller, live feeds, briefing page | backend REST and SSE |
| ops, scripts, infra, contracts, docs | none at run time | | |

The components with a protocol of their own, and the module that models each:

| Component | State | Hard behaviour | What makes it correct | Module |
|---|---|---|---|---|
| Cluster store (`incident_promoter/cluster_store.py`) | clusters, reservations, pending creates, cooldowns | every database call is an await between a check and its use; calls that raise after they committed | one open incident per burst, nothing open without an owner, a silence holds, an end is final | ClusterStore |
| Promoter (`promoter.py`), incident table and routes | two tasks, Neo4j nodes | crash and restart, degraded reads, routes beside the drain | a restart loses no open incident | ClusterStore, PromoterRestart |
| Detectors (`detectors/`) | windows, centroids, ignition flags | flags outlive the incident, centroids drift | an ended incident lets the burst ignite again | Detectors |
| Signal stream and landing page | ring, bounded queues, browser's cursor | reconnects, full queues, stale cursors | the feed has every signal or was reset | SignalFeed |
| Incident stream and War Room | ring, browser's cursor, snapshots | publication after commit, late snapshots | an incident that ended is taken down | IncidentFeed |
| GDELT ingestion (`gdelt_raw/`) | checkpoint, slice states, pending and job sets, files | several processes on the same keys, kills between two commands | no slice is forgotten or called done too early | GdeltSlice, GdeltIngest |
| Telegram collector | watermark, dedup hashes | cancellation in the middle of a batch, the fetch limit | the watermark passes only what is persisted | TelegramCollector |
| Vision consumer | consumer group, retry counters | crash between two effects, claim of idle entries | every entry is answered for | VisionConsumer |
| Report store, analysis stream, briefing page | Neo4j dossiers, SSE streams, page state | numbers given again, late chats, deletes beside analyses | an answer is filed in its dossier | ReportStore, BriefingPage |
| NLM ingest (`nlm_ingest/`) | phase statuses in SQLite, files on disk | statuses and files change apart, kills, commands side by side | no source seeps away | NlmIngest |
| Scope controller and router adapter | intents, the URL, browser history | late catalog answers, lost or late echoes, Back | the URL names the scope shown | ScopeNavigation, ScopeController |
| Spatial normaliser, batch, re-enrichment, cutover | two stores, checkpoint files, approvals | killed runs, writers between windows, changed reviews | an activated catalog serves the truth | SpatialScopes, SpatialBatch, SpatialReenrich, SpatialCutover |

How they interact: collectors append envelopes to Redis streams; the backend's
`signal_stream` reads them and fans them out to live queues, one per browser
and one for the promoter, which asks the detectors and hands hits to
`ClusterStore.handle`.  The store writes the incident table and publishes on
the incident stream, which the browser reads by SSE.  The sweeper closes
clusters that fall quiet; analysts silence or promote through the routes, which
write the same table and then tell the store.  GDELT ingestion and the spatial
jobs fill Neo4j and Qdrant beside all this.  The Telegram collector feeds the
vision worker through a Redis stream.  The briefing page reads and writes
dossiers over REST and runs analyses over SSE; the country briefing writes the
same dossiers.

`PROJECT.json` lists every component with its status, and every hazard with
its line and the properties that cover it.

## 2. The modules and the code

Everywhere: the code between two awaits (Python) or in one browser callback
(TypeScript) is one action, because both run on one loop; a call to a database
or a service is one or two actions, the effect and the continuation, with
anything else in between.  Texts, metrics, coordinates and timestamps are
reduced to what the code branches on.

### IncidentLifecycle — what the analyst is promised

The abstract specification: the status of every incident and which bursts are
under a live silence.  An incident opens only if its burst has no open one
and is not silenced, it ends once, and it never opens again.

### ClusterStore — one process lifetime of the promoter

| Variable | In the code |
|---|---|
| `status` | status of the incident node in Neo4j |
| `answer` | a silence/promote request whose transaction has committed and whose answer is under way |
| `cluster`, `byId` | `_by_key`, domain of `_by_incident_id` |
| `reserving` | `_reserving` |
| `pending`, `deferred` | `_pending_creates`: the id kept for the retry, and the number of hits behind it |
| `cooldown` | `_cooldowns`: none, active, or expired and still in the map |
| `task` | where each caller of `handle` is suspended |
| `sweep` | the sweeper's snapshot and the close it waits for |
| `lastEvent` | the last envelope published for each incident |

A database call is two actions: the transaction (`CreateIncident`,
`ApplySignalUpdate`, `CloseIncident`, `AnalystDecides`), and the continuation
(`FinishCreate`, `FinishUpdate`, `FinishClose`, `AnalystAnswered`).
`CreateRaises`, `UpdateRaises` and `CloseRaises` raise, with or without having
committed; `UpdateReplayed` is a mutation receipt answering for an update that
was applied before.  `StartCreate`, `RaceDropped`, `Absorb` and `StartUpdate`
are the branches of the decision under the lock; `ReplayOrReturn` is the loop
over the deferred hits.

### PromoterRestart — crashes and rehydration

Extends ClusterStore with `mode` (starting, read, running, blocked), the rows
the rehydration query returned, and whether it was degraded.  `Crash` loses
everything except the table and what subscribers have already seen.  `Read` is
the query, `Rehydrate` the construction of the maps from rows that may be
stale by then; the sweeper and the routes run in between, on the empty store.

### Detectors — from signals to hits and back

One FIRMS cell (the severity bucket has the same shape) and Telegram posts that
are matched to centroids by the Jaccard index of their token sets.  `bucket`
and `centroid` are `_buckets` and `_centroids`, `suppressed` is
`_suppressed_until`; `storeCluster` (none, open, promoted or terminal), `lastHit`,
`storeCooldown` and `unfinished` (`_pending_creates`) are the store's view, `hit` is the
hit on its way.  An update refreshes `lastHit` when its database call has
succeeded; that call may also fail, find no incident, or find one that has ended.
`written` and `promoted` are what the table keeps for a restart: the last timeline event of
a key, and whether it has a promoted row; `_rehydrate` makes clusters of open
and promoted rows.  The store's concurrency is left to ClusterStore: here it is
the decision a hit meets, the sweep and the termination listener.

### SignalFeed and IncidentFeed — the two event streams

SignalFeed follows a record from the Redis stream through the consumer loop
(`cursor`, `reading`), the ring (`ring`, `seen`), the live queue and the SSE
generator (`queue`, `delivered`) over the connection (`wire`, `phase`, `url`)
into `useSignalFeed` (`items`, `dedupe`, `lastId`, `fetch`, `resetBuffer`).
Connections break, requests fail and the backend restarts; the replay window
(`horizon`) moves on its own.

IncidentFeed has the same stations for incidents: `db` and `unsent` are the
table and, per incident, the publications still to come, `clock` and `seq` make the event ids,
`ring`, `queue`, `delivered`, `replayed`, `wire` the stream, and `active`,
`dedupe`, `lastId`, `fetches` are IncidentProvider with its REST snapshots.
An analyst's end may commit, and be published, while an earlier update of the
incident is unpublished: the update is then published first or, as the store's check
after its call has it, not at all.  A create has no such check; what follows is
`ClusterStoreReopened` in section 6, which IncidentFeed leaves out.

### GdeltSlice and GdeltIngest — GDELT ingestion

GdeltSlice holds the state and the steps of `run_forward_slice`, one action per
Redis command or store write; GdeltIngest adds the forward tick with
`replay_pending`, a backfill job with its workers, `resume`, and kills.  A worker
asks for the states of its slice one read at a time (`SkipDone`), and marks it done or
failed command by command (`MarkDone`, `MarkFailed`).

| Variable | In the code |
|---|---|
| `files`, `complete` | the parquet files, the three stream states in Redis |
| `storeDone` | `gdelt:slice:<slice>:<store>` is "done" |
| `pending` | `gdelt:pending:<store>`, the write-ahead intents |
| `checkpoint` | `gdelt:forward:last_slice:parquet` |
| `written` | what Neo4j and Qdrant hold |
| `job` | the pending, failed and done sets of one backfill job |
| `runner` | where each coroutine is suspended, and its local variables |
| `passed`, `killed`, `overrun` | history, for the properties only |

The three streams of a slice are one; the pointers that only `status` and
`reconcile_forward_state` read are left out.  `resume` is given at any moment of
a job, beside its workers too: it reads the failed set (`Resume`), enqueues what
it has read (`Requeue`) and deletes the set (`ClearFailed`).  A kill of a process also
stands for a Redis outage that makes its coroutine raise outside a `try`.

### TelegramCollector and VisionConsumer

TelegramCollector is one channel and its polls: fetch, group albums, and per
item enqueue for vision, extract, write to Qdrant, mark as seen; the watermark
moves through the contiguous run of successes.  A poll can be cancelled, and
can fail, between any two of these.  VisionConsumer extends it with the worker:
`delivered`, `pel` and `tries` are the consumer group, `worker` the entries in
hand, `described`, `enriched` and `dead` the effects.  The two are composed in
one module because an entry speaks of a document the collector writes, perhaps
later.

### ScopeNavigation and ScopeController

ScopeNavigation is the browser's history and `RouterScopeNavigation`: its
methods are operators on a record whose fields are those of the class
(`queue`, `active`, `fallback`, `desired`, `committed`, `stale`, `repairs`).
ScopeController has the history (`entries`, `pos`), the location effect that has
not run yet (`unseen`), the adapter (`nav`), the controller's intent
(`ctl`) and the catalog revision (`active`).  Foreground intents, hydration of
external locations, echoes, timeouts, failures and repairs are its actions.
Three variables are history, for the properties only: `wanted` is the user's last
command; `overtaken` says that the user has acted while the URL was on its way;
`refused`, that a write failed or timed out and none was confirmed since, or a late
echo is still expected.  In both cases URL and scope may really differ (section 6), so
UrlNamesScope speaks of neither.

### SpatialScopes, SpatialBatch, SpatialReenrich, SpatialCutover

SpatialScopes is the normaliser as operators over an arbitrary tree of scopes
and any two catalogs: codes and coordinates in, scope or conflict out.
SpatialBatch is the Neo4j job (`raw`, `location`, the checkpoint, the retained
report, the run), SpatialReenrich the Qdrant job with its projector (`points`,
the checkpoint, the report, the run).  SpatialCutover composes both with the
live writers, the maintenance window of the runbook, the published coverage and
the exact queries that read the result.  A run can be killed between any two of
its steps.  The operator is held to the runbook: he may preview and apply as
often as he likes, and roll back to the backups.  A query accepts every derivation
revision that the served catalog calls compatible with the scope's (`CurrentRevision`,
`Admits`); that a revision is never compatible with another scope's is an assumption
(`ScopeInputs`): revisions are hashes, and a manifest lists a scope's own.

### ReportStore and BriefingPage — briefing dossiers

| Variable | In the code |
|---|---|
| `reports` | the dossiers in Neo4j by number: scope, status, application, chat |
| `call`, `wire` | each request's handler and the events of its SSE stream |
| `page` | the state and the refs of the `BriefingPage` component |
| `listing`, `loads` | its requests for the list and for a chat |
| `born`, `met`, `seen`, a call's `since` | history, for the properties only |

`met` has the calls that a fault met, and those a deletion `Robbed`: of the number they
have in hand, or of the country's last dossier that they are about to read.

ReportStore has one action per awaited step of `create_report` with its retries
over taken numbers, `get_or_create_report_by_scope`, `update_report`,
`delete_report`, the country briefing's save and `stream_intel_query`; every
store call may raise, a write also after it committed, and an analysis is
cancelled when its connection breaks.  BriefingPage adds the page: the list and its
retry, the chat loads with their generation counter, selection, creation, deletion,
the analysis with its cancel button and the effects that file its result; and other
clients that save, create, delete, publish, and take a publication back.

### NlmIngest — one notebook through its phases

| Variable | In the code |
|---|---|
| `status` | `phase_status` of the notebook, "unknown" before it is registered |
| `podcast`, `reports`, `transcript`, `extraction`, `legacy` | the files on disk; a file half written is torn |
| `offered`, `written` | what NotebookLM offers, what Neo4j and Qdrant hold |
| `proc` | the commands under way, and their local variables |
| `cut` | history: an export was killed between its two statuses |

One action per file written, status committed or set of files read: `List` to
`Fetch` are `export_all`, `Register` to `Renew` the loop of the export command
with `reconcile_phases`, `Select` to `Finish` the other three phases, `Validate`
and `Attempt` the retry command, and `Open`, `Reactivate`, `Unlink` the migration
of the old layout that `_get_db` makes every command begin with.  `Alone` names the
commands the operator does not give while another of them runs; the code has no
lock of its own.

## 3. The runs

| Run | Instance | Question | Properties |
|---|---|---|---|
| `cluster_store` | one burst, two ids, two callers of `handle`, one deferred hit | what the store promises under every interleaving | OneOpenPerKey, OpenIsOwned, SilenceHolds, EndEventFinal, refinement of IncidentLifecycle |
| `restart` | one burst, two ids, two restarts, fair | what a restart may lose, and that bursts still leave the store | OrphanNeedsPromoted, ReservationReleased, QuietClusterLeaves |
| `detectors` | one cell, three posts of two channels, four signals | do detector and store agree on what is burning | LayersAgree, OpenCellStaysIgnited |
| `signal_feed` | four records, ring of three, queue of one, feed of two, two faults | is the landing page complete or reset | RingHasNoHole, QuietFeedComplete, ResetKeepsLive, FeedSettles |
| `incident_feed` | two incidents, two milliseconds, ring of three, two faults | is an ended incident taken down | EndedIsTakenDown, IdsAscend |
| `gdelt_ingest` | two slices, one tick, one worker with a job of the second, one kill | no slice forgotten, none called done too early | StrandedOnlyByKill, JobAccounted, PendingLeavesOnlyWritten |
| `gdelt_forward` | three slices, one tick, catch-up 2, grace 2, replay of one, one kill | which slices the checkpoint passes; pending slices are written | CheckpointPassesByPolicy, PendingReplayed |
| `vision` | an album of two and a service message, limit 2, two faults | nothing passed over, every entry answered for | WatermarkPassesOnlyPersisted, EntryAccounted, ChannelCatchesUp, EntrySettles |
| `scope_controller` | three scopes, two catalog revisions, three moves, one fault | URL, screen and intent agree | UrlNamesScope, LastPromptIntentWins, ComesToRest |
| `spatial_cutover` | four scopes, two records, two points, two windows, one kill, one live write | an activated catalog serves what the evidence says | ResolvedByAllEvidence, AccountingReconciles, ActivatedServesTruth, AppliedAsReviewed, CutoverFinishes |
| `briefing` | two dossiers at first, two attempts, seven stories (below) | answers are filed right, requests fail only for a cause, the page never goes back or hangs | AnswerStaysInDossier, FailsForCause, PublishedStays, LoadsNeverGoBack, AskSettles |
| `nlm_ingest` | podcast and one report, one process, any commands, failures, one kill, fair | is every source ingested that counts as done, and every artifact in the end | ExtractedIsIngested, SourceIngested |

Each property's comment, above its definition, says which behaviour it is
about, and each has a mutant: a plausible bug, kept beside the definition it
replaces, under which TLC finds that property violated in the run that checks
it.  Properties that are proved are not all run again: `TypeOK` of the proved
modules, PendingIsOwed, GoneOnlyByDelete, MapsInverse, EndedInDatabase, CreateExclusive, DoneIsWritten,
JobDoneRecoverable and others below stay defined beside the rest.

Bounds, and why they are enough to meet the interesting cases:

* *Ids per burst* (`Ids`): two, so that a late answer about the first incident
  can meet its successor.  *Callers of `handle`* (`Handlers`): the promoter has one
  drain, which awaits every hit, so `restart` and the code have one; the store's
  reservation is written for several, and so `cluster_store` has two (symmetric), more
  than ever run.  *MaxDeferred*: one deferred hit is
  enough for the replay loop to run, and to be interrupted by an end, a silence
  or a second failure.  *MaxRestarts*: two, so that a restart can meet the
  leavings of a restart.  Two bursts meet only in the sweeper's snapshot; the
  proofs have any number.
* *Detectors*: four signals (`MaxSignals`); `MinHits` 2 and windows of 1 make a cell ignite, fall quiet, be
  swept or silenced and ignite again within `MaxNow` 5; the three posts overlap so that one
  widens a centroid away from the post that started it; `MaxCentroids` 2 makes
  the third push one out.
* *SignalFeed*: with a ring of three and batches of two a record can leave the
  ring while a browser is away; a queue of one overflows; a feed of two drops a
  shown signal; the browser forgets an id (`DedupeCap` 3).  Two faults
  (`MaxFeedFaults`) are a lost connection and a failed snapshot, or a restart and a
  lost connection.
* *IncidentFeed*: two milliseconds and a counter below `SeqWrap` 8 give ids of
  one and of different milliseconds; `Window` 1 and a ring of three make both
  ways to fall behind happen; one update puts an event between trigger and end.
* *GDELT*: the tick and the worker work on the same slice in `gdelt_ingest`,
  and the tick also on another; `gdelt_forward` has three slices so that a tick
  has two to catch up and can wait for, or give up, the first.  `ReplayLimit` 1
  makes one slice stand in the way of another.  A job of one slice is enough for
  `resume`: the slice can fail, be enqueued again, be popped and fail once more
  before the set is deleted.
* *Telegram and vision*: `Limit` 2 of three messages leaves one for a second
  poll; `MaxPending` 0 makes the second enqueue be deferred; `MaxRetries` 1 and
  two faults lead to a dead letter.
* *ScopeController*: world, a country and an admin-1 under it; three moves are
  an intent, the one that supersedes it, and Back; two revisions make the catalog
  change under an intent; `MaxIds` 20 is above what three moves can use.
* *SpatialCutover*: the new catalog takes the old revision of one scope for compatible
  and of no other, and it knows one code more and one less, moves a
  border off one cell and over another, so that records become resolved,
  conflicting, located deeper, or unknown; two windows, so that the checkpoints of
  a rolled back window meet the next; `PageSize` 1 and `BatchSizes` {1, 2} make a
  run consist of two pages or one, so a kill can come between pages.
* *Briefing*: instead of everything at once, seven stories: *Reading* (two
  analyses while the user looks at other dossiers), *Cancelling* (an analysis is
  cancelled and another asked for), *Troubled* (a fresh page, one
  analysis, one fault), *Editing* (create and delete beside an analysis),
  *Failing* (create and delete, another client deletes, one fault), *Sharing*
  (an analysis, a country briefing and two changes of status on one dossier), *Racing*
  (two country briefings, a create and a delete at once).  `Attempts` is 2 where the
  code has 5, so that in *Racing* two rivals exhaust the third (`report_store.py:358`);
  FailsForCause allows that failure, and asks for as many rivals as there were attempts.
* *NLM*: one process in the run (the proofs have any number), because a second one that is not kept apart loses a source
  (section 6); a killed command leaves its files and statuses to the next.  A podcast and a report are the two kinds of source; the
  notebook starts new, or in the old layout with its ingestion done or not.

Deadlock is checked where the system never stops: the cluster store, the
restarts, GDELT and NLM.  The other instances say CHECK_DEADLOCK FALSE: their
behaviours end when the messages, moves or faults they are given are used up.

## 4. Fairness

* **ClusterStore, PromoterRestart**: one event loop runs every ready
  continuation, and the driver returns or raises, so the database steps of a
  call, its continuation, the sweeper's pass and, at a start, the read and the
  rehydration are weakly fair.  The close of a quiet incident may raise; the
  sweeper tries again on every pass, and a close tried for ever succeeds in
  the end (strong fairness).  Hits, analysts, the clock, deletions, crashes and
  failing calls are never forced.
* **SignalFeed**: the consumer loop, the SSE generator, the network, the REST
  answers and the browser's reconnect timer take their next step (weak
  fairness).  New records, lost connections and restarts are never forced.
* **GdeltIngest**: APScheduler starts a tick every 15 minutes
  (`scheduler.py:546`, at most one at a time), and every process takes its next
  step (weak fairness).  Store errors, raised in `try` blocks, may occur any
  number of times but not for ever.  This is a real assumption: `replay_pending`
  takes the ten oldest slices, and ten that fail for ever starve the others.
* **VisionConsumer**: the collector's interval job and the worker's loop take
  their next step (weak fairness); XAUTOCLAIM, which sees an entry only in the
  rounds when it is idle, is strongly fair.
* **ScopeController**: the router lands a request, effects run, the catalog
  answers or fails, and the echo timer fires (weak fairness).  The user and
  the browser's Back button owe nothing.
* **SpatialCutover**: one weak fairness on the procedure as a whole: the
  operator takes a next step of the runbook as long as there is one.  Kills,
  live writers and rollbacks are never forced.
* **BriefingPage**: the handler of an analysis takes its next step, because the
  model call is bounded by `asyncio.timeout` and a Neo4j call returns or raises,
  and the browser hears what was sent (weak fairness).
* **NlmIngest**: a command under way takes its next step (weak fairness), and
  the operator gives the `run` command again and again (strong fairness: not
  while something else runs).  NotebookLM, the models and the stores fail any
  number of times but not for ever (`Recover`).  Kills, other commands and new
  artifacts are never forced.
* **IncidentFeed, Detectors**: safety only.

## 5. The proofs

Eight modules, all obligations checked by TLAPS.  The theorems hold for every
value of the constants that satisfies the modules' named assumptions.

**`PromoterProofs`** (`DetectorsAssumption`, `StoreAssumption`, `RestartAssumption`), in
three parts.

*The detectors*: LayersAlwaysAgree (LayersAgree) and OpenCellAlwaysIgnited
(OpenCellStaysIgnited), for any cells, posts, thresholds and windows.  Neither is
inductive: a create returns after silences, sweeps and promotions that came in
between.  `NoClusterInCooldown` says that a burst with a cluster has no live cooldown,
`HitInv` that the create under way is for an ignited cell that still has no cluster.

*One lifetime of the promoter*: TypeCorrect, AtMostOneOpen,
OpenAlwaysOwned, MapsStayInverse, AbsorbedOnlyIfEnded, SilenceAlwaysHolds,
CreateStaysExclusive, EndIsFinal and ImplementsLifecycle (ClusterStore
implements IncidentLifecycle) from StoreInvariant.  None of these is inductive
by itself: whether a late answer is harmless depends on what it says about the
table at the time, on who holds the reservation, and on what the sweeper has in
its snapshot.  `StoreInv` is their common strengthening: `MapsInverse`,
`ClusterInv` (what a status in memory implies about the table), `PendingInv` (an
id kept for a retry belongs to an untracked burst and has never ended),
`CooldownInv`, `OpenIsOwned`, `CreateExclusive`, `TaskInv`, `SweepInv` and
`AnswerInv` (an answer that is on its way was true when it was given, and
statuses only move forward), and `EventInv` (an end is published only for
incidents that have ended).  One lemma per action, one step per conjunct the
action can disturb.

*Across restarts*: OrphansHaveCause
(OrphanNeedsPromoted) and RestartTypes from RestartInvariant, for any number of
bursts, incidents, callers, crashes and degraded reads.  `StoreInv` of ClusterStore
does not survive a restart: the second map of a rehydration may know more incidents of
a burst than the first, and a burst may have two open ones.  `RestartInv` says what is
left.  Incidents of a burst are created in the order of their ids (`Numbering`), so an
older open one is `Hidden` behind a promoted one that is older still (`OlderInv`); rows
that were read only lag the table (`RowsInv`); before the drain starts nothing is under
way (`RestInv`); and while it runs, `DrainInv` is `StoreInv` with every claim about an
incident weakened to "or it is `Free`", that is hidden, or past.  The two
facts that carry the drain are that a late answer which marks the cluster of another
incident does so only where the whole burst is `AllHidden` (`MappedInv`), and that
statuses only move forward (`Onward`).  Steps that leave the maps alone are
handled by the lemmas about one lifetime.

**`GdeltIngestProofs`** (`SliceAssumption`, `IngestAssumption`): IngestInvariant,
IngestTypes, DoneStaysWritten, JobDoneStaysRecoverable, OnlyKillsStrand,
PendingLeftWritten.  A slice is neither written nor pending for a while after
its parquet checkpoint, so what a runner has done so far is part of the
invariant: `RunnerOK` says, for each place a runner can be suspended at, for which
stores its slice is already `Safe`; `CompleteInv` that a complete slice is in the
hands of such a runner, safe in both stores, or was in the hands of a killed one.
Steps of others cannot spoil this (`Grows`): the lemma `Assemble` says so once.

On top of it, JobAlwaysAccounted by `JobInv` and CheckpointAlwaysByPolicy by
`PolicyInv`.  With resumes beside the workers the
three sets of a job overlap, so `JobInv` counts nothing: a slice of the range is
failed or `Kept` elsewhere, and `ResumeOK` says that a resume about to enqueue
knows every failed slice but the overrun ones, and one about to delete the set
finds each of them kept.  A worker's mark falls between these two as a history of
its own (`overrun`).  `PolicyInv` with `TickOK` bounds what a tick has passed by
the slices it has seen incomplete; `Beyond` is the arithmetic of the catch-up
window.

**`VisionConsumerProofs`** (`TelegramAssumption`, `VisionAssumption`): the
watermark passes only what is persisted, every entry is accounted for, and a
pending point is owed to an entry.  `PollInv` says how far the poll in progress
has carried each of its items, `WorkerInv` with `Carried` what the worker has
already done for the entry in hand, `PointInv` which points can say "pending".

**`SpatialCutoverProofs`** (with `BatchAssumption`, `ReenrichAssumption`,
`CutoverAssumption`): ResolvedByAllEvidence, AccountingReconciles,
ActivatedServesTruth and AppliedAsReviewed, for any sizes of lanes and pages and
any number of windows, kills, rollbacks and live writes.  `NeoInv` relates checkpoint,
run and store of the Neo4j job, `QInv` with `Lane` the same for Qdrant: the points
before the cursor are projected to the target, whichever run wrote them.
`ServeInv` says that a published coverage is that of a lane with nothing left to do.
The module begins with the scopes themselves (`ScopeTree`, `ScopeInputs`):
ResolvedIsAgreed, for every tree of scopes, every catalog and every source: a location is resolved exactly
when all of its evidence is on one line with no boundary in it, and then to the
end of that line.  Lemmas about the tree (two ancestors of one scope are
compatible, the deepest of a compatible set is below all of it) carry it.
ReprojectAgain, for every payload: a second projection changes nothing a query sees, at
most the reason, and a third changes nothing at all.

**`BriefingPageProofs`** (`StoreAssumption`, `PageAssumption`): PageInvariant,
AnswerAlwaysStays, DeletedOnly, PublishedForever, NoLoadGoesBack and
FailuresHaveCause.  Numbers are given again, so
that an answer meets its dossier is an argument about births: whatever the page,
a request or an answer knows of a birth, it knows the number that went with it
(`Known`, `PageKnown`, `CallKnown`); a running analysis keeps both (`Kept`); what
is stored or shown in a chat was filed there under its number (`StoreFiled`,
`PageFiled`).  `Effect` and `Handled` describe each step of a handler once, and
one lemma per group of actions shows that it keeps the invariant.  NoLoadGoesBack
needs `LoadInv` beside it: what the newest load of a chat brings lies between
what was brought last and what is stored.  FailuresHaveCause (FailsForCause) holds for any
number of attempts and rivals.  `CauseInv` says of every request that each number refused to it was
that of a dossier born since it was sent (`Pace`: a number that is read is free at that
moment, so what occupies it later is younger), and what a request that has met neither
fault nor deletion finds at each of its steps (`Cause`): the number that refused it is still
there, the country still has a dossier to read.  That no deletion breaks this is what
`Robbed` has to name exactly.

**`NlmIngestProofs`** (`NlmAssumption`): IngestionIsComplete (ExtractedIsIngested) and
TypeCorrect from NlmInvariant, for any number of processes, reports and kills.
They assume `Sequential`: the operator gives none of export, extract, ingest and
migrate while another of them runs.  That is the discipline the commands are
written for and no lock enforces; without it a source is lost (`NlmOverlap` in
section 6).  The invariant says which command can be at which place (`PlaceOK`) and
that at most one of the exclusive ones is under way (`AtMostOneBusy`); that nobody
has got past the old layout while its file exists (`LegacyInv`); that whoever opens
the extraction again owes the ingestion (`DebtInv`); and what an extraction, an
ingestion and a skipping export know while they run (`ExtractorInv`: nothing counts
as ingested meanwhile; `IngesterInv`: what is not in both stores is still in hand or
to do; `SkipperInv`).  `Quiet` and `Lonely` turn these into what one action has to
show: a step that changes no status or file spoils nothing, and the step of an
exclusive command only has itself to answer for.

**`IncidentFeedProofs`** (`IncidentFeedAssumption`): IdsAlwaysAscend (IdsAscend),
EndIsTakenDown (EndedIsTakenDown) and FeedTypes from FeedInvariant, for any incidents,
any sizes of ring, queue and window, and any number of lost connections, failed requests
and restarts.  They assume `WrapsBetweenEvents`: the counter of event ids, kept modulo
10^6, starts again only in a millisecond in which nothing has been published yet.  Without
it IdsAscend is false (section 6).  `NumberInv` says that the
next id lies above all there have been, also after a restart, which takes at least a
millisecond.  The argument for the end of an incident is about where it is.
`RingInv`: an envelope of the ring that opens an incident which is over has the end behind
it, in the ring or still to be published.  `PipeInv` says the same of what is on
its way to the browser, and `ConnInv` that frames on their way are newer than what the
browser has, and are in the ring or were evicted by newer ones.  `ShownInv` follows for what the
browser shows: the end is to be published or on its way; or the connection is down, and
the end is in the ring or a `Gap` has opened, which the next connection either answers
with a reset or counts as missed.  `Onward` describes what a
step may do to the ring (lose envelopes at the head, gain newer ones); its lemma OnwardIs says
once that a gap then stays a gap and that an end which leaves the ring leaves one.

**`FrontendProofs`** (`ScopeAssumption`; `SignalFeedAssumption`, `ShownIsRemembered`), in
two parts.

*The scope controller*: UrlAlwaysNamesScope (UrlNamesScope), PromptIntentWins
(LastPromptIntentWins) and ScopeTypes from ScopeInvariant, for any tree of scopes, any
catalogs, and any number of moves and faults.  Both are about quiet moments, and all the
work is in between.  As long as the user acts only when the URL is settled (otherwise
`overtaken`, and nothing is claimed), `OneWay` holds: there is at most one write; it is
either on its way to the browser or there and unread; and it is the one that the
intent waits for.  `Purpose` says what an intent can be waiting for at all, `Named`
that without a refused write an idle adapter has a URL that names the scope, `Asked` that the
user's command is the intent under way, or is the scope shown.  The repairs
and late echoes that make the controller hard then need a failed write first, and each
timeout, failure, supersession or move of the history keeps these four.

*The signal feed*: RingNeverHasHole (RingHasNoHole), FeedAlwaysComplete
(QuietFeedComplete) and ResetAlwaysKeepsLive (ResetKeepsLive) from FeedInvariant, for any
number of records and faults and any sizes of batch, ring, queue and feed.  `RingInv`
says that the ring is a run of ids up to the last one the consumer knows of (`Edge`).  By
`StreamInv` the frames on their way ascend, what is queued comes after them, and a
reset can only be the first of them.  `CompleteInv` is the claim itself, made for every
moment: each id of the ring that the browser's cursor has passed is `Held`, and the
others are held, on their way, or a reset is.  Shown is not the same as held: a feed
that keeps the newest few `Covers` an id when it shows it or shows enough newer ones, and
while a snapshot is awaited it is the snapshot, merged with what has arrived since the reset,
that has to cover it (`FetchInv`).  `ConnectInv` is about the id in the URL of a reconnect: what a
replay after it leaves out is covered already.  `ViewInv` ties in the browser's
duplicates: an id that it remembers it has shown.  The buffer of a reset is cut to
`DedupeCap` and the feed to `FeedCap`; `ShownIsRemembered` says that the first is not
the smaller (500 and 6 in the code), without which QuietFeedComplete is false.
A batch is folded into the ring, and no theorem about folds can be used here; so the
lemmas unfold one into a chain of single insertions, and an induction along it is
made by taking the least place at which a claim fails (`LeastIs`).

Only model-checked is what needs fairness, because this prover does none of it:
ReservationReleased, QuietClusterLeaves, PendingReplayed, FeedSettles,
ChannelCatchesUp, EntrySettles, ComesToRest, CutoverFinishes, AskSettles and
SourceIngested.  Every other property of the runs, the refinement of IncidentLifecycle
included, is stated by a theorem.

## 6. Disagreements found

Each of these properties states what a document, a comment or a test says, and
the code does something else.  Most have a configuration beside the runs; `tlc
-config X.cfg M` shows the counterexample in seconds.  A configuration with a star
is that of the run: give it the property in place of its own.

| Configuration | Module, property | What happens, and what says otherwise |
|---|---|---|
| `ClusterStoreReopened` | MCClusterStore, NotReopenedOnStream | A create whose answer is late publishes the incident as open after its end was published. |
| `ClusterStoreSilence` | MCClusterStore, SilenceTakesEffect | A silence of an incident the store does not track yet starts no cooldown. |
| `ClusterStoreQuiet` | MCClusterStore, QuietIncidentCloses | An incident whose create committed but raised stays open when its burst stops: only a further hit would adopt it. |
| `PromoterRestartDouble` | MCPromoterRestart, OneOpenPerKey | `_rehydrate` (`promoter.py:97`) writes the rows newest first into `_by_key`, so of two rows of one burst the older wins: a promoted one replaces the open one, and once it is dropped a second incident opens.  The test `test_rehydrate_then_subscribe_avoids_double_create` ("first signal updates, not creates") and the design (`2026-05-19-incident-auto-promoter-design.md:556`, "next restart rehydrates cleanly") say otherwise. |
| `Detectors` * | MCDetectors, FirstSignalUpdates | After a restart the detector has forgotten that it ignited (`firms.py:123`), so the first signal of a running incident is no hit (`test_promoter.py:99`, design line 656). |
| `GdeltStranded` | GdeltIngest, NothingStranded | A kill between the parquet checkpoint and the write-ahead intent leaves a slice that is pending nowhere and is not fetched again.  StrandedOnlyByKill shows that nothing else strands one. |
| `GdeltResume` | GdeltIngest, FailedAreKept | `resume_backfill_pending` reads the failed set, enqueues those slices and deletes the set; one that fails in between is then in no set of the job ("Move all failed slices back into pending", `run.py:332`).  JobAccounted shows that no other slice is lost. |
| `IncidentFeed` * | IncidentFeed, LateReconnectIsReset | A stale `Last-Event-ID` on an empty ring is answered with "ok" and nothing (`incident_stream.py:94-95`, `signal_stream.py:175`); the design (`2026-04-14-odin-4layer-hlidskjalf-design.md:393`) promises a reset. |
| `TelegramSkipped` | MCVisionConsumer, NothingSkipped | With more than 50 new messages only the newest 50 are fetched (`telegram_collector.py:300-304`) and the watermark passes the others, against "This guarantees zero data loss" (line 328). |
| `VisionBacklog` | MCVisionConsumer, BacklogBounded | XPENDING counts delivered entries only (`_maybe_enqueue_vision`, 612-632), so the backlog of undelivered ones has no bound (`2026-04-04-telegram-collector-design.md:230-232`). |
| `ScopeStaleEcho` | MCScopeController, LastIntentWins | The echo of a superseded write that arrives after its successor was asked for is hydrated as an external navigation and wins (`scopeController.ts:380`, 702; `03-frontend-core-and-navigation.md:240`, 299-301). |
| `BriefingPage` * | MCBriefingPage, NeverFalselyEmpty | The end of an analysis of dossier A reloads A's chat and, through the one generation counter, drops B's load: B is shown as "No dialogue yet" (`BriefingPage.tsx:570`; `briefingPage.test.tsx:280`). |
| `BriefingPage` * | MCBriefingPage, NeverInAnother | A dossier deleted while its analysis runs gives its number to the next one, and the answer is stored there (`briefingPage.test.tsx:300`, "never inserts an answer into a different dossier"). |
| `SpatialReapply` | MCSpatialCutover, ReapplyWritesNothing | `reproject_payload` (`spatial_reprojection.py:33`) is documented as idempotent, but for evidence that is malformed or unlinked the second projection writes another reason than the first.  A fresh checkpoint file and a second pass settle it: a third writes nothing (theorem ReprojectAgain). |
| `NlmOverlap` | NlmIngest, NoSourceSeepsAway | An export reopens the extraction of a new report and, in a commit of its own, the ingestion (`state.py:174-176`).  When an extraction ends in between, the ingestion still counts as done and the report is in no store; the same when the export is killed there.  The design (`2026-05-31-nlm-report-extract-integration-design.md`, acceptance criterion 8) says "keine versickerten Quellen".  ExtractedIsIngested shows that nothing else loses one. |

Seen while modelling, without a configuration:

* GDELT: `resume` re-enqueues the failed slices of a job but starts no worker,
  and the `backfill` command always takes a new job id.  The pull-back of the
  checkpoint that `advance_last_slice` rules out can happen, at the price of a
  second download.
* Event ids are called monotonic by construction (`incident_stream.py:59-60`);
  with a clock set back IdsAscend does not hold, nor when two events fall into the
  millisecond in which the counter starts again: the second has the lower id, a browser
  that has the first does not get it, and replay passes it by.
* Detectors: a centroid widened by other posts no longer matches its own first
  post; that post then starts a centroid under the same fingerprint and
  overwrites the ignited one (`telegram.py:165-187`).  A silence is by-passed by
  a reworded post.  A failing create leaves the detector ignited, so one later
  signal creates.
* Telegram: late members of an album are dropped as duplicates; the startup run
  (`scheduler.py:579`) overlaps the interval job; a document upserted twice can
  lose its description; a document without entities has no Document node, so its
  entry ends as a dead letter and its point stays "pending"; a deferred
  enqueue is never made up for.
* Scope controller: "resolving" can stay on screen (`scopeController.ts:759-784`,
  494-497); a user who re-enters the scope shown while Back is being hydrated
  leaves URL and scope apart; a displaced repair's id stays in
  `repairNavigationIds` and swallows a later Back; a bad candidate's problem is
  published and cleared by the commit that follows.  After a failed write the next intent
  clears the notice: when that one is cancelled or fails to resolve, nothing on screen
  says that the URL still does not name the scope.  And hydration by Back does not tell the
  adapter what it committed (`latestCommitted`, `navigation.ts:308`, 355), so a failed write
  that is echoed late is repaired to the scope of the last confirmed write and not to the
  one shown.  These two are why UrlNamesScope has `refused` in it.
* Spatial: live writers write a conflict with the scope keys of the common
  ancestor, the batch clears them; `_revoke_assignment` leaves a stale conflict
  flag when no keys are held; a crash between the first page's write and the first
  checkpoint makes an approved report "drifted"; the batch size is part of the
  report but not of the checkpoint's key; a complete Qdrant checkpoint makes a
  later apply a no-op; a checkpoint kept across windows lets a resumed run apply
  pages under the old approval; the branch for a target revision mismatch is dead
  (`manifest.py:242-268` binds all revisions).
* Briefing: timeouts and generic errors leave no notice in the chat, refusals by
  HTTP status do; the same error of the same dossier is told once
  (`processedErrorKey`); `DETACH DELETE` leaves the dossier's messages without
  one; a dossier created while the list is loading is overwritten by the older
  list; a retried briefing save appends its message twice (documented,
  `almanac.py:334-335`).

## 7. Not modelled

* **Promoter**: the 500-row limit of the rehydration query; the instances are
  far below it.
* **GDELT**: parsing, filtering, transformation, `status`, `doctor`.
* **Incident table and routes**: row decoding, timelines, spatial projections,
  manual create and update.
* **Streams**: other consumers of the signal stream, the promoter's own live queue,
  spatial payloads, a clock set back.
* **Telegram, vision**: adaptive polling, the seven-day TTL of hashes, the
  events stream's XADD; an upsert thread that goes on after its poll was
  cancelled; claims of entries a live worker still holds (a batch takes at most
  5 × 75 s, the idle time is 600 s).
* **Scope controller**: `SpatialScopeProvider` is not mounted outside tests; the
  router's `flushSync` makes the window of late echoes small, the port leaves
  it open, and so does the model.  Left out: the URL that is replaced because the
  catalog answers under another key than it was asked for
  (`resolved.canonicalizedFrom`, `scopeController.ts:358-360`; a misspelt candidate in
  the URL is modelled), the microtask after `cancelPending` (494-509) in which the
  aborted run drops its navigation id, which the model does at once, and a navigation that fails inside
  `repairLatestLocation` (`navigation.ts:359-365`), after which nothing repairs the
  URL until the next location arrives.
* **Spatial**: the clean-up of aircraft labels, theatre edges, records without a
  stable key, geo points, vectors, the catalog compiler and its clients; a
  parent's query does not count locations resolved below it (documented).  The
  accounting's category for what a query cannot classify (`ExcludedUnsupported`)
  is empty in every reachable state: it takes a record with a scope key and no
  conflict flag, which no writer of this code leaves behind.  A
  point's published tokens can include a child while its ancestor is withheld
  (documented, `09-qdrant-retrieval.md:97-101`).
* **Briefing**: texts and metrics, unmounting the page, the limits of 200 dossiers
  and 500 messages, undecodable rows, the country panel's own hook, the `/intel`
  history.  The two unique constraints are assumed to exist; `POST /reports`
  does not check it, only the country briefing's save does.
* **Intelligence**: what its agents compute depends on model output, and no state
  outlives a query but the re-enrichment's, which is modelled.
* **NLM**: several notebooks (the code isolates them from each other), slide decks,
  mp3 files, the candidates file, the backfill of Neo4j edges, an operator who
  deletes files, a text that changes under an extraction, SQLite's lock errors, a
  disk that is full.
* **Other collectors, caches, proxies, views, layers,
  infrastructure**: sequential, or without a protocol of their own.

## 8. Plan

What this project set out to prove is proved; what is left, in this order:

1. **Liveness by hand**: FeedSettles and ComesToRest have bounded runs; a variant
   function (a natural number that every helpful step lowers), with its decrease proved as
   an action property, would carry the argument for every size up to the last
   step, which needs fairness.
2. **The rehydration limit** of 500 rows (`incident_store.py:447`): a constant in
   PromoterRestart's `Read`, and what OrphanNeedsPromoted becomes beside it.
3. **The spatial catalog** (compiler, filters, the timeline's query): pure functions
   over a published catalog, best stated as operators that SpatialScopes' tree checks.
4. **The scheduler** and **the intelligence workflow**, when a second consumer of their
   state appears; today nothing outlives a call.

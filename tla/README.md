# eventframed: a TLA+ verification project

eventframed is a Go daemon that keeps the memory of an agent (evidence as
EventFrames, learned usefulness, a predictive graph, proposals for future turns)
and an OpenClaw plugin in TypeScript that captures turns, recalls evidence and
carries approved proposals to the host's scheduler. This directory holds models of
its stateful core, the TLC configurations that check them, and TLAPS proofs. Every
definition is translated from the source; `map` in `PROJECT.json` names the lines.

    tlc -workers 2 -config MCAgencyQueue.cfg MCAgencyQueue   # a run
    tlapm AgencyQueueProofs.tla                              # the proofs of a module

## 1. Inventory

### The parts, their state and their operations

| Component | State | Operations | Hard behaviour | What makes it correct |
|---|---|---|---|---|
| Version vector (`internal/model/api.go`, `internal/store`) | nine counters, one vector per tenant | every mutation advances some; two compatibility tests | decisions taken under an old vector arrive late | a stale decision is never accepted; bookkeeping alone makes none stale |
| Agency queue (`libravdbstore`, `memorystore`, `store/tau.go`) | archive of records, active projection | put, claim, resolve, deletion of cited evidence | leases that run out, clocks read before the lock, repeated decisions | one live opportunity per target, spacing, exclusive leases, no approval after uncertainty; the projection changes nothing |
| Turn planner (`internal/agency/tau.go`, `PlanTauTurn`) | none of its own | fit a law, choose a turn, look up and issue a plan | concurrent and repeated calls, midnight, late dispatch | one turn per plan, worth its cost under every law within the radius, outside quiet hours |
| Authority adapter (`plugin/src/agency.ts`, `operator-scheduler.ts`, `client.ts`) | attempt in progress, generation, timer | poll, clean up by tag, schedule, approve, reconcile, compensate | two systems without a common transaction; crash, stop, lost reply | every scheduled turn is named by a durable record; compensation keeps the target reserved |
| Recall (`internal/service/service.go`) | request in progress | nominate, read, capture, rank, pack, journal; bounded retry | several reads without a lock, optimistic commit | a journal reflects one state of the store |
| Ranking and packing (`service.go`, `internal/packing`) | none | suppress repeats, correct, rerank, bounded deltas, diversify, pack | fallback paths, boundaries, greedy passes | motion bounded by policy, packet within budgets and maximal |
| Outcomes and learning (`service.go`, `libravdbstore`, `internal/bayes`) | journals, posteriors, residuals, certificates | observe outcome, publish certificate, revise and split group | concurrent duplicates, change points, overlapping certificates | an outcome counts once, in one epoch; a split loses and mixes nothing |
| Predictive graph and compositions (`internal/graph`, `internal/invariant`) | graph, snaps, tombstones | propose, publish, roll back, compose, decompose | invalidation of dependants | what a change influences is forgotten with the publication |
| Candidate index and contract guard (`internal/retrieval`) | remote index; lane, permits, circuit | index after commit, search, repair, reindex; acquire, retry, trip, recover | two stores without a common transaction; lost answers | acknowledged evidence is indexed; every request ends |
| Rank-delta store (`internal/rankdelta`) | SQLite table, LRU cache | get and put batches | read-through cache races | a recall serves its live deltas |
| Residual pool (`service.go`) | channel, workers, first error | load residuals | error, cancellation and hand-over race | goes on only with everything loaded |
| Store opening and migration (`libravdbstore/migrate.go`) | collections, runtime marker | open, upgrade, two migrations | death between two writes | no partial corpus is published |
| Process start (`cmd/eventframed`, `internal/agency`) | key files, tokens, socket | load or create, listen, shut down | racing starts, torn files | whoever serves holds the values of the files |
| Epistemic authentication (`internal/epistemic`) | registry, cache, ledger | verify, consume, tag | key rotation, restarts with another registry | an observation is learnt once; only trusted learning is served |
| Background fuzz queue (`service/background_fuzz.go`) | dedup table, bounded channel, worker | enqueue, run, close | mark and send are two steps; corpus moves under an audit | none lost, none suppressed for ever |
| Fuzz evaluation, calibration, working belief, embedding, framing, API, plugin hooks, experiments | none to speak of | pure or floating-point computation, decoding, text | rounding | not modelled, section 5 |

### Interactions

- HTTP handlers call the service, the service calls the store. A store write is one
  LibraVDB transaction under `writeMu`; store reads take no lock that spans two calls.
  What the service reads before it calls the store (the clock, a snapshot, a
  certificate) may be old when the write happens.
- After a store write the service brings the remote candidate index in line; recall
  repairs what it finds stale there.
- The plugin claims proposals over HTTP, schedules a turn with the host, and reports
  the decision over HTTP. Host scheduler and daemon share no transaction.
- Evidence deletion reaches into the agency queue (open proposals that cite the event
  are rejected in the same transaction) and advances the version vector, which
  invalidates forecasts, journals in progress and queued audits.
- Publishing a graph withdraws the certification of the posteriors whose keys the nodes of
  the change's closure declare, and disables the residuals of those keys and of the nodes'
  events; a change of the registry of issuers advances the policy version, which
  disables residuals and certificates learnt under the old one.
- Recalls nominate background audits; the worker starts only while no recall is active.

`hazards` in `PROJECT.json` lists, line by line, what is hard to test in this, with the
properties aimed at each.

## 2. Modules

| Module | Models | Builds on |
|---|---|---|
| `Snapshots` | `model.Snapshot`, which counters each mutation advances, both compatibility tests | - |
| `MemoryAgency` | the agency queue of the memory store: what the queue promises | `Snapshots` |
| `AgencyQueue` | the durable queue with its projection; implements `MemoryAgency` | extends `MemoryAgency` |
| `AgencyAuthority` | the adapter's workers, composed with the queue and the host scheduler | `AgencyQueue` |
| `Sums` | sums along a sequence | - |
| `TauPlanner` | from a law to an issued turn | `Sums` |
| `RecallJournal` | the reads, commit and retry of a recall, outcomes, certificates | `Snapshots` |
| `RecallOrder` | from the frontier of a recall to its packet | `Sums` |
| `Beliefs` | what one outcome does to posteriors and residuals | - |
| `MemoryStore` | the learning side of the memory store: what the store promises | `Beliefs`, `Snapshots` |
| `LearningStore` | the durable store and the requests above it; implements `MemoryStore` | `Beliefs`, `Snapshots` |
| `SnapClosure` | closure, burden, publication and rollback of a graph | `Sums` |
| `CandidateIndex` | the remote index, its repair and the contract client | - |
| `RankDeltas`, `ResidualPool` | table behind cache; worker pool | - |
| `StoreLifecycle` | databases over starts and migrations | - |
| `Daemon` | processes that share key files and socket | - |
| `EvidenceTrust` | authenticated outcomes over registries | - |
| `FuzzQueue` | the background fuzz queue | - |
| `MC...` | constants of the TLC instances | the modules named |
| `AgencyQueueProofs` | theorems about the queue, and its refinement | `AgencyQueue` |
| `AuthorityProofs` | theorems about the adapter composed with the queue | `AgencyAuthority`, `AgencyQueueProofs` |
| `RecallProofs`, `FuzzProofs`, `LearningProofs` | theorems about one module each | `RecallJournal`, `FuzzQueue`, `LearningStore` |
| `TrustProofs` | theorems about authentication and the key files | `EvidenceTrust`, `Daemon` |
| `StoreProofs` | theorems about what surrounds the store | `StoreLifecycle`, `ResidualPool`, `RankDeltas`, `CandidateIndex` |
| `PlanningProofs` | theorems about the computations | `TauPlanner`, `RecallOrder`, `SnapClosure` |

`MCRecalls`, `MCStores` and `MCPlanning` hold several independent parts: the variable
`part` is fixed initially, and a behaviour exercises that part only. Nothing is shared
between parts, so this is their disjoint union and not a composition.

Definitions marked `\* Fault:` belong to no specification. Each is a plausible mistake
in the definition it precedes, and serves to confirm that a property notices it.

### AgencyQueue and MemoryAgency

`MemoryAgency` is one map `agency` of records, decided on directly. `AgencyQueue`
extends it by `active`, the projection collection: a claim and a deletion scan the
projection, admission scans the archive, `Persist` writes both, as
`persistAgencyResolution` does. `PutAgencyProposal`, `PutDuplicate` (the retry of a put
repairs the projection), `Claim` (sweep of blocked, stale and expired records, then the
lease of the first `ClaimLimit` due ones), `ReportUncertain`, `AcknowledgeCancellation`,
`ResolveExpired`, `Approve`, `Reject`, `Put`, `Delete`, `DeleteBefore` and
`OtherMutation` are the operations. A refused request changes nothing and is the absence
of an enabled action. The two modules have their own definitions of every operation, one
over `agency` alone and one over both, so the refinement `ImplementsMemory` (identity on
the shared variables) says something about both stores.

`RequestTimes` is explicit because the code depends on it: the service reads `time.Now()`
before the store takes `writeMu`, so an operation's `now` may lag the clock by up to
`MaxLag` and operations need not commit in the order of their readings. `learned`: a
consumer decides only after it received a claim reply. `planned` is the snapshot the
planner last read from `/v1/health`. The immutable content of a proposal is `Draft[p]`.

### AgencyAuthority

`processAgencyClaim` is a sequence of awaited calls. `work[w].at` names the next call of
worker `w`; one step is one call with the code after its reply. Calls to the daemon are
the queue's own actions. Calls to the scheduler act on `jobs`; unscheduling by tag is two
steps (`ListTag`, `RemoveListed`), because `operator-scheduler.ts` lists first and removes
one by one. `Faults` selects the failures: a request that never arrives, a lost reply, a
scheduler call that fails or succeeds without a reply, a crash of the worker, a stop and
restart of the service.

### TauPlanner

`PlanTau` is the decision: candidate delays, the window that is useful wherever inside the
slack the turn is dispatched, the lower probability within the total-variation radius,
expected utility, quiet hours, and the order of `Better`. `FitTau` fits a law to closed
episodes. `Lookup`, `CheckBase`, `Decide` and `Put` are the steps of a call of
`PlanTauTurn`; clock, evidence and the frozen counters move between them. Probabilities
are exact fractions of a law's total.

### RecallJournal

`recalls[r].at` is the next store call of `recallOnce`: nominate, read the graph, capture
the snapshot, read both certificates, read the posterior of each candidate, commit.
`Commit` and `Refuse` are `PutBayesianJournal` with `JournalSnapshotCompatible`; `Refuse`
is also the retry loop of `Recall`. `Check` and `Apply` are the two halves of
`ObserveBayesianOutcome`, outside and inside the store lock. `motion` is the in-memory
ingest history, lost by `Restart`, which may also bind another policy.

### RecallOrder

One step per stage of the frontier: `DecideFrontier` (deep review and suppression of
correlated decisions), `Correct`, `RankCandidates` or `RankFails` (the fallback of the
retrieval contract), `ApplyRankDeltas`, `ApplyResolutionPreference`, `SetLimit` and
`Pack`. Scores are integers; corrections and the contract's answer are inputs.

### Beliefs, MemoryStore and LearningStore

`Beliefs` is package `bayes` with a posterior abstracted to the outcomes it has absorbed
and those behind each member's statistics; the verdicts "the law changed" and "the members
diverge" are arguments. Both stores call it. `MemoryStore` executes every request at once.
`LearningStore` has requests in flight: a recall (`Nominate`, `Capture`, `ReadKeys`,
`CheckJournal` and `InsertJournal` under the read lock), a composition, a snap, an outcome
whose freshness was tested (`TestFreshness`) before `ApplyBayesianOutcome`; and `Restart`,
which loses them and the ingest motion. The refinement maps `motion` to all ingests,
remembered or forgotten: the durable store may refuse more than the memory store after a
restart, never accept more.

### SnapClosure

`Propose`, then `Expand` (one ring of the closure per step), `StartSearch` and `Search`
(one node of the search's queue per step), `PublishSnap` or `RefuseSnap`, and
`RollbackSnap`. `CandidateCompatibility` is the scorer a change can influence; scores are
multiplied by `Scale` so that means stay integers. A node has two lists, its member events
and the posterior keys it declares; nothing ties one to the other (`graph.go:42`), and a
model that derived the keys from the members would hide a posterior that stays certified.
What the store forgets goes by the lists: posteriors by declared key, residuals by declared
key or source event (`Untouched`). `LearnPosterior` and `LearnResidual` bring learning back
at any time.

### CandidateIndex

A request first changes `stored`, then calls the index through `Enter` (write lane),
`Acquire` (permit, circuit), `Attempt` (effect, with or without an answer), `Judge` and
`Count` (retry, lookup after a failed insertion, trip). `Recall` nominates, resolves each
nomination in the store and repairs what is stale. `Restart` may start a reindexing.

### RankDeltas and ResidualPool

`CacheGet`, `Query`, `Scan`, `Merge`, `Lock`, `Commit`, `Fill` are the accesses of a
recall to the cache and the table, interleaved with others and with version motion.
`ResidualPool` is the unbuffered hand-over: a sender, its look at `Done`, workers, the
first error, the caller's cancellation.

### StoreLifecycle

A database is its marker, its collections and its agency archive and projection. `Start`
picks the daemon or a migration; `Load`, `Rebuild`, `Mark`, `ServeStore`, `Backup`,
`CheckSource`, `Copy` and `Publish` are its writes, and `Stop` may come between any two.
A pending or claimed record lapses when its expiry passes (`Lapse`), at any moment. The
rebuild chooses the records with one reading of the clock (`Choose`: uncertain ones, and
open ones that have not lapsed) and then writes tenant by tenant, so what it writes may
have lapsed since, as `libravdbstore/store.go:1919` has it.

### Daemon

`OpenStores`, then `Look`, `Create`, `WriteKey` for each key file, `Assemble`, `Listen`,
`SignProposal`, and the ends `ShutDown`, `Abort`, `Kill`. The library is not assumed to
keep a second process out of the database.

### EvidenceTrust

`Reload` starts with another registry or none; `Submit`, `CheckSignature`, `Withhold`,
`SubmitUnsigned` and `Learn` are an outcome request, with the verifier's cache. The ledger
key is the identity of the observation, not of the request. `learnt` is a history variable:
how often posteriors and residuals moved on account of each request. The ledger alone
could not tell a second application from the first, as both leave the same record.

### FuzzQueue

Enqueueing is split where the code leaves the mutex: read the clock, mark, send, count.
The worker takes a job only at a tick with no active recall, compares the snapshot, reads
the events, evaluates, compares again, and publishes.

## 3. What the runs check

| Run | Question | Properties |
|---|---|---|
| `agency_queue` | two proposals for one target under one forecast, lagging clocks, evidence that comes and goes, fair polling | `TypeOK`, `ActiveProjection`, `OneLiveOpportunity`, `NoApprovalAfterUncertainty`, `SpacedUnlessLate`, `ForecastBinding`, `UncertainBlocksScope`, `ForecastInvalidated`, `ProposalsSettle`, `ImplementsMemory` |
| `authority_accounted` | two workers of one identity, stops, lost replies, failing scheduler calls, quiet hours | `JobsAccounted` |
| `authority_crash` | two consumers, crashes, every call failing before or after its effect, a full handle set | `CompensationReserved`, `ClearedMeansCancelled`, `AttemptsEnd` |
| `recalls` | a recall against every writer, outcomes sent twice, restart, cancellation; the fuzz queue | `FailureNeedsMotion`, `EpochsNotMixed`, `ReadsCurrent`, `RecallsEnd`; `MarkedAlive`, `AuditConsistent`, `JobsServed` |
| `learning` | requests in flight, overlapping certificates, splits, snaps, deletions, restarts | `OwnEvidence`, `SplitMaterialises`, `Implements` |
| `stores` | six parts around the store | index: `AcknowledgedIndexed`, `RequestsEnd`; deltas: `DeltasAreLive`; pool: `LoadsComplete`; database: `EventsKept`, `MarkedProjects`; keys: `KeysAgree`; trust: `ObservationOnce`, `TrustServed` |
| `planning` | the computations behind a decision | turns: `QuietHoursKept`, `OneTurnPerPlan`, `TurnsPayOff`; graph: `BurdenExact`, `InfluencedForgotten`; order: `MotionBounded`, `PacketMaximal` |
| `agency_late_approval` | two forecasts for one target, two consumers, a request that waits | **violated**: finding 1 |
| `authority_late_cleanup` | two consumers, no fault at all | **violated**: finding 2 |
| `recall_graph` | a graph publication during a recall | **violated**: finding 3 |
| `repeats_suppressed` | three repeated records in two certified buckets | **violated**: finding 4 |
| `contract_six` | the databases of `stores`, a raw-text one of contract 6 among them | **violated**: finding 5 |

Reference definitions for the computations: `BurdenExact` compares the step-wise search
with connectedness, `InfluencedForgotten` the closure with the scorer itself over every
nomination, `TurnsPayOff` the planner's bound with every law within the radius and every
dispatch within the slack, `QuietHoursKept` the interval arithmetic with the hours of
every day, `PacketMaximal` the greedy pass with what could still be added at its end.

### Findings

1. *Backdated approval* (`agency_late_approval`). An approval that waited for the store
   lock commits with a clock reading from before its proposal's expiry. In the meantime a
   request with a later reading saw the proposal expired and admitted the next one, which
   is then approved within the cooldown of the first. The cooldown is tested at admission
   only. `docs/tau-agency.md:67` promises one reserved opportunity plus the declared
   cooldown. `SpacedUnlessLate` says that this is the only way: turns are a cooldown apart
   unless the earlier was decided so shortly before its expiry that it may have waited
   beyond it, and the later after that expiry. With `MaxLag = 0` it is `ApprovalSpacing`.
2. *Unfenced cleanup* (`authority_late_cleanup`). The tag cleanup of an attempt whose
   lease ran out removes the job another worker has scheduled and approved since.
   `docs/tau-agency.md:80` says this does not happen.
3. *Graph read before the capture* (`recall_graph`). `recallOnce` reads the graph
   (`service.go:616`) before it captures the snapshot the commit is compared with (642);
   a publication in between is not noticed. `docs/protocol.md:251` promises a 409.
4. *Repeats in a second bucket* (`repeats_suppressed`). `markCorrelatedBayesianDecisions`
   remembers only the first decision of an evidence group; two later ones that share
   another certified bucket are compared with it and never with each other
   (`service.go:928`). The comment at `service.go:679` says repeated records cannot
   present themselves as independent evidence.
5. *Projection not rebuilt* (`contract_six`). A contract-6 database has a raw-text corpus,
   so `Open` refuses it and the corpus migration is the way forward. The migration
   publishes the current contract (`migrate.go:213`) without rebuilding the active
   projection, and `Open` rebuilds it only for a marker below 7
   (`libravdbstore/store.go:1858`): the daemon serves with open proposals no claim finds
   until their put is retried, and uncertain ones the sweep of a claim does not see.
   `docs/architecture.md:375` and `docs/protocol.md:449` say that such databases rebuild
   the projection first.

### Observations without a run

- `docs/architecture.md:371` describes the active projection as the open proposals bounded
  by the pending budget. The code also keeps uncertain records there (which the sweep
  needs), and expired ones until the next claim.
- A posterior's `UpdatedAt` is the availability of the outcome applied last, not the
  latest one (`libravdbstore/store.go:645`); a recall of the past may use an outcome from
  after its `as_of` (`docs/protocol.md:279`).
- The freshness of a selected outcome is tested before the store lock
  (`service.go:1700`); an ingest in between moves the epoch and the outcome starts a
  posterior of the new epoch.
- The second of two overlapping certificates takes over the common member's index entry
  (`libravdbstore/store.go:545`). A split leaves the siblings' exact residuals active. A
  late outcome for a revoked pool lands in its uncertified posterior, which nobody serves.
- After a snap has been rolled back the one before it cannot be.
- Candidate index: an observation that overlaps a deletion or repair of the same ID can
  lose its entry (`AcknowledgedIndexed` excludes it by `settled`); an entry left behind
  under an old text refuses re-observation under a new text until it is deleted; the retry
  of a retention or decomposition does not repeat the index deletion.
- A success in flight closes a circuit opened meanwhile.
- `GetBatch` may cache an older row after a newer commit; harmless, since a recall keeps a
  stored delta only if it is the live one (`DeltasAreLive`).
- With adaptive packing (off by default) and a limit below `packK`, the expansion shrinks
  the packet.
- The graph policy admits a closure radius of 0 (`graph.go:21`; the default is 2), under
  which a publication does not forget the neighbours of a changed edge:
  `InfluencedIsForgotten` needs a radius of at least 1.
- A node that holds events and declares no posterior keys leaves the events' own posteriors
  (whose key is the event's identifier, `libravdbstore/store.go:832`) certified when the
  node changes: only their residuals are disabled. `docs/protocol.md:394` speaks of the
  records of the closure, which these are not, so `InfluencedForgotten` speaks of declared
  keys and of residuals, and promises nothing about such a posterior.
- The corpus migration reads Phase 1 collections left over by the legacy migration, so it
  brings back events deleted since; the legacy migration skips a record that does not
  decode, the corpus migration fails on it.
- A crash between the exclusive creation of a key file and its write leaves a malformed
  file every later start refuses; the loser of a race for a file exits with an error. A
  start removes the socket of a live daemon (`main.go:274`), and the older daemon's
  shutdown then removes the newer one's.
- `start()` of the adapter is not fenced after its first `await poll()`
  (`plugin/src/agency.ts:55`): a stop during that poll is followed by an interval nothing
  clears.
- An unsigned outcome removes the trust tag of a posterior. Without a registry everything
  is served, as the documentation says.

### Bounds, and why they are enough

- `agency_*`: two proposals suffice for every property that compares proposals (all
  pairwise). The clock runs through notBefore, lease end, both expiries and a cooldown
  after an approval, and a reading may lag by a tick, which is enough for an approval that
  waits beyond its expiry. One consumer suffices for what `agency_queue` adds to the
  theorems, since the safety properties are proved for any consumers, lags and drafts (of
  distinct forecasts too); two consumers race over a lease in `agency_late_approval` and
  in the `authority_*` runs.
  `LeaseDuration = 1` lets a lease end before the expiry. `MaxRuntime` bounds mutations of
  the environment, `MaxReported` uncertain reports; decisions and polls are not bounded.
  One kind of other mutation is enough (`TauMotions`): the compatibility test treats all
  alike, and the proofs cover all of them. Chain and pending budgets are not reached by
  these drafts; the refinement proof covers their tests for every value.
- `authority_*`: one proposal, two workers, two jobs: a job of each worker can be alive at
  once and be removed by the other. The proposal outlives two leases. `MaxRefs` is 32 in
  the code and 2 in `authority_crash`, so that a handle set fills up.
- `recalls`: one recall, two attempts, an ingest history of one version (4096 in the
  code), so that one is forgotten; four versions, more than the attempts; two senders. For
  the queue: capacity one with two questions fills, three recalls allow a duplicate while
  queued, while running and within the cooldown.
- `learning`: three events, two certificates with a common member, one outcome about each
  member of the first and a selected one, one composition, recall and snap in flight; five
  writes after the preloaded events, of which one may move the evidence epoch and two the
  graph (a snap and its rollback).
- `stores`: two callers and three requests over two events and a restart, two attempts and
  a threshold of two, so that retries trip the circuit, and one permit, so that a caller
  waits for the other's; a cache of one row and two
  recalls; four candidates and two workers; nine databases (new, Phase 1, raw and
  canonical corpora, each also of contract 6, a newer contract) over three starts, so that
  a migration or an upgrade is cut off and repeated before the daemon serves; three
  processes and three generated keys; two registries of which one revokes the other's key, six requests
  that repeat, forge, derive and omit signatures, three restarts.
- `planning`: days of four hours over which quiet hours wrap, horizons across midnight,
  both radii zero and positive, two callers with two requests of one plan; graphs of up to
  three nodes and two edges over two events and two declared keys (nodes with events and no
  key, and the reverse, among them) against three published graphs, radius one; frontiers of three candidates and every answer of the contract.

Deadlock is checked in the `agency_*`, `authority_*` and `recall_graph` runs. It is
disabled in `recalls`, `learning`, `stores` and `planning`: their requests are bounded, and
once they have ended nothing is left to do. `RecallsEnd`, `JobsServed` and `RequestsEnd`
say where waiting for ever would matter.

Symmetry is used in `agency_late_approval` (consumers and handles) and in
`planning` (planners), without liveness; the permuted values are only compared for equality.

### Fairness

- `AgencyQueue!FairSpec`: weak fairness of the clock and of claims with a current reading.
  The adapter polls from an interval timer for as long as it runs.
- `FairAuthoritySpec`: weak fairness of each worker's steps. Every call of the client and
  of the scheduler has a timeout. Polls, crashes and deliveries are not assumed.
- `RecallsFairness`: weak fairness of each recall's steps (store calls return, the retry is
  bounded), of the audit worker (a ticker) and of callers in progress. Nothing is assumed
  about writers. Recalls are bounded, so `JobsServed` says what happens once they stop:
  an endless stream of overlapping recalls may keep the worker waiting, by design.
- `IndexFairness`: weak fairness of the steps of each request; remote calls have
  deadlines. Nothing is assumed about the circuit, the service's answers or restarts.

## 4. What is proved

Every safety property of the passing runs is also a theorem, for every value of the
constants that satisfies the named assumptions of the modules (and the hypothesis the
table names):

| Module | Theorem | States |
|---|---|---|
| `AgencyQueueProofs` | `TypeCorrect` | `TypeOK` |
|  | `ProjectionExact` | `ActiveProjection` |
|  | `BasesStayBehind` | `BasesBehind`: no base snapshot is ahead of the store |
|  | `NeverApproved` | `NoApprovalAfterUncertainty` |
|  | `OneOpportunity` | `OneLiveOpportunity` |
|  | `StaleStaysStale` | `StaleForever`: a lost base is never regained |
|  | `MutationInvalidates` | `ForecastInvalidated` |
|  | `UncertainBlocks` | `UncertainBlocksScope` |
|  | `LeasesExclusive` | `LeaseExclusive`: a running lease is not handed on |
|  | `QueueImplementsMemory` | `ImplementsMemory` |
|  | `ForecastsBound` | `ForecastBinding` |
|  | `ApprovalsSpacedUnlessLate` | `SpacedUnlessLate`, for any lag |
| `AuthorityProofs` | `AuthorityInvariant` | `AInv`, the inductive invariant |
|  | `AuthorityImplementsQueue` | the system implements `Spec` of `AgencyQueue` |
|  | `CompensationsReserved` | `CompensationReserved` |
|  | `ClearedCannotRun` | `ClearedMeansCancelled` |
|  | `JobsAlwaysAccounted` | `JobsAccounted`; from `NothingForgotten` |
| `RecallProofs` | `RecallInvariant` | `RecallInv`, the inductive invariant |
|  | `EpochsStayApart` | `EpochsNotMixed` |
|  | `FailuresHaveMotion` | `FailureNeedsMotion` |
|  | `CommitsAreCurrent` | `ReadsCurrent` |
| `LearningProofs` | `LearningInvariant` | `LearningInv`, the inductive invariant |
|  | `EvidenceIsOwn` | `OwnEvidence` |
|  | `SplitsMaterialise` | `SplitMaterialises` |
|  | `StoreImplementsMemory` | `Implements` |
| `FuzzProofs` | `MarksAreAlive` | `MarkedAlive` |
|  | `AuditsAreConsistent` | `AuditConsistent` |
| `TrustProofs` | `KeysAlwaysAgree` | `KeysAgree` |
|  | `ObservationsOnce` | `ObservationOnce` |
|  | `OnlyTrustedServed` | `TrustServed` |
| `StoreProofs` | `PoolLoadsComplete` | `LoadsComplete` |
|  | `MigrationsKeepEvents` | `EventsKept` |
|  | `MarkersFollowProjection` | `MarkedProjects` |
|  | `ServesLiveDeltas` | `DeltasAreLive` |
|  | `AcknowledgedStaysIndexed` | `AcknowledgedIndexed` |
| `PlanningProofs` | `PlannerInvariant` | `PlannerInv`, the inductive invariant |
|  | `OneTurnIsPlanned` | `OneTurnPerPlan` |
|  | `QuietHoursAreKept` | `QuietHoursKept` |
|  | `TurnsArePaidOff` | `TurnsPayOff` |
|  | `MotionInvariant` | `MotionInv`, the inductive invariant |
|  | `MotionIsBounded` | `MotionBounded` |
|  | `PacketIsMaximal` | `PacketMaximal` |
|  | `BurdenIsExact` | `BurdenExact` |
|  | `InfluencedIsForgotten` | `InfluencedForgotten`; from `ClosureRadius >= 1` |

*Queue.* `ConstantsAssumption` admits finitely many proposals with arbitrary drafts, any
number of consumers and handles, any lag, lease, budget and set of other mutations. The
inductive invariant `IInv` conjoins the type invariant, `ActiveProjection`,
`InitialBehind`, `BasesBehind`, `NoApprovalAfterUncertainty` and `OneLiveOpportunity`. The
conjuncts need one another. Claims and deletions overwrite the archive with what they
found in the projection, so nothing about the archive is inductive unless the projection
is exact. `OneLiveOpportunity` for a newly issued proposal follows from the admission
test, made with a clock reading that lags: the earlier proposal had not expired at the
reading or it has expired by now; for an old pair it follows because a stale base stays
stale, which needs `BasesBehind`: in every step the runtime counter advances at least as
much as the agency counter, so the difference the compatibility test looks at can only
grow. `BasesBehind` in turn needs `InitialBehind` for records that were never bound. The
action properties follow from `IInv` and one step. `SpacedUnlessLate` needs `SpacingInv`,
which speaks of the dates a decision not yet committed may still carry (`MayDate`: a reading
of the clock since the consumer learnt of its lease, which is not before the admission). Of
two turns of one target that are open together, one has expired at every date the other may
carry (`OpenApart`), for the later was admitted by a reading at which the earlier had
expired; so if both are approved, the expired one was approved late. A turn admitted after
an approval was admitted a cooldown later, and is decided later still (`TurnApart`).

*Refinement of the queue.* `QueueImplementsMemory` takes the durable queue action by
action. Under an exact projection every scan of the projection selects what a scan of the
archive selects (`SameSweep`), and `PutDuplicate` stutters; the clock bound makes the
request times of the one readings of the other.

*Adapter.* `AInv` adds to `IInv` that a worker has a proposal exactly while it is in an
attempt, that no two attempts have one handle, that what a cleanup lists it found, and
`CompensationReserved`. Because every call to the daemon is an action of the queue,
`AuthorityImplementsQueue` carries every theorem about the queue over to the system with
its crashes and lost replies. `JobsHeld` is the invariant behind `JobsAccounted`: the
attempt that created a job still has its handle or its tag, or the record names it. It
holds without crashes and lost requests and with room for one handle per job and the tag
(`NothingForgotten`); a crash between scheduling and the report forgets a job, which the
retry finds by its tag.

*Recall.* `RecallInv` says of each recall what it knows: counters it captured are not
ahead of the store, and what it has read since is what the store holds unless one of them
has moved. So the commit test suffices for `ReadsCurrent`, and every refused attempt has
a mutation of its own (`FailureNeedsMotion`). Every absorbed outcome is on record under
the epoch of its posterior (`EpochsNotMixed`).

*Learning.* `LearningInv` keeps the evidence of a posterior apart by event, says that the
keys a draft read have not moved unless it is outdated, and that a captured base that is
still the snapshot still has the certificate read under it. A shared posterior that a
change point has reset cannot be split, so a split finds the evidence of every member.
`StoreImplementsMemory` maps each commit of the durable store to the request of the memory
store that does the same at once, and every other step to a stutter.

*Fuzz queue.* `FuzzInv`: a job is with a caller that sends or drops it, in the channel, or
with the worker; wherever it is its mark is open, no two places hold one job, and an open
mark has its job somewhere. `AuditInv` adds that no job is of a version to come.

*Authentication and key files.* `TrustInv`: what is in the verifier's cache has a genuine
signature and does not outlive its registry, so the ledger has every outcome with the
registry that vouches for it; a request that moved anything moved it once and is the one on
record under its key (`Counted`), so two requests of one observation cannot both have; a
posterior is tagged with the registry of all it absorbed,
and a residual of the current policy version is of the current registry. `DaemonInv`: a
process has settled a prefix of the four files, a settled file holds the value the process
works with, a file being written is torn and has one writer, and a file that holds a value
keeps it (`ValuesStay`).

*Around the store.* `PoolInv`: as long as no error is recorded, what was sent is loaded or
in a worker's hands. `KeptInv`: a migration has copied what it no longer has to do, and its
sources stay. `ProjectionInv`: only a canonical database of an early contract lacks the
projection of records other than `Unrebuilt`, which are those of a raw corpus of such a
contract (finding 5); a rebuild has done the tenants it no longer has to do, and what it
chose for the others holds all that stand and nothing that is settled. `DeltaInv`: cache
and table hold one row per key, and what a recall has loaded is one valid row per key, of
none of the keys it still looks up; after the merge it is the live set. `IndexInv`: a write
is alone in the lane from its entry to its return, so an insertion that was taken is still
there when its answer arrives, and no request under way will delete a settled event.

*Computations.* These are inductions over data. The library's induction theorems take a
predicate as a parameter, which the provers cannot instantiate; the proofs use instead
that a nonempty set of numbers has a least member (`LeastNumber`, from `WFMin`) and argue
about the least counterexample. Sums are a recursive function (`Sums`), sorting is by
`Arrange`, whose result is a permutation in order.
- `PlannerInv`: a stored turn, or one about to be, was decided by `PlanTau` for an offered
  request of its plan, and every answer is the stored turn. That a decided turn pays off
  under every law within the radius rests on `LowerBound`: moving mass from a set lowers
  its probability by no more than the radius. That it avoids quiet hours rests on the
  interval arithmetic over days of any length.
- `MotionInv`: each stage rearranges the whole frontier and moves a score from that of the
  retrieval contract by no more than the bounds of the stages so far. `PacketInv`: a
  candidate the pass is past is packed or excluded, and more packed candidates exclude no
  less.
- `BurdenInv`: what a search has seen can be reached and is closed but for its queue, so a
  search that ends without its goal has seen the whole component; the burden is that of
  the obligations dealt with. `InfluenceInv`: after one ring the closure holds the
  neighbours of every difference, so an edge that lends an event outside it a score is the
  same, between the same nodes, in both graphs, and a node that declares a key outside it
  is the same in both and is lent the same; a rollback forgets the closure of the
  publication it withdraws.

Only model-checked: the liveness properties `ProposalsSettle`, `AttemptsEnd`, `RecallsEnd`,
`JobsServed` and `RequestsEnd`, since fairness and `ENABLED` are out of the prover's reach.

## 5. What is not modelled

- One tenant. The vector and the collections are per tenant; nothing crosses. The
  exception is the projection of `StoreLifecycle`, which is rebuilt tenant by tenant.
- Floating point: posteriors' parameters, calibration, drift statistics, residual
  corrections, similarity, the predictors behind a score, omitted-influence estimates,
  working beliefs and forecast rescue (off by default). Where control depends on a verdict,
  the verdict is a choice; where order depends on a score, scores are integers.
- Failures inside a LibraVDB or SQLite transaction: the libraries' atomicity is assumed.
- A remote call (scheduler or index) that times out and takes effect after the client gave
  up and cleaned up: effects happen during the call that asks for them.
- The interval timer of `registerAgencyService`: it is fairness only.
- Fuzz evaluation and translation: statistics over one request without a side effect; the
  queue takes their verdict as a choice.
- HTTP decoding, configuration, embedding, framing and plugin hooks: requests reach the
  service one to one, and the texts and vectors are opaque.
- Search and statistics of the memory store; evaluation and experiment programs, which are
  not part of the running system.

## 6. Plan

Proofs: the corrected variants of the findings (an approval that tests the cooldown again,
a cleanup fenced by its lease, a graph read after the capture, a migration that rebuilds
the projection) would need no exception; each is worth a theorem once the code has it.
Deadlock freedom of the adapter and the index as invariants (somebody can always move),
which is the part of their liveness a prover can reach.

Modelling: late effects of calls that timed out, in `AgencyAuthority` and
`CandidateIndex`; the poll timer of the adapter.

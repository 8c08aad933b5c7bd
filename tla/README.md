# MEVWatch backbone: TLA+ models, checks and proofs

MEVWatch (this repository) detects MEV and fraud on chain. It is a set of
services that share nothing but a Kafka backbone of domain events, plus one
RabbitMQ queue for simulation jobs and the stores each service owns. This
directory holds TLA+ modules for the parts of it where correctness depends on
the order of steps, the TLC configurations that check them on small instances,
and TLAPS proofs of the properties that matter most.

`PROJECT.json` maps every definition to the source lines it models and lists
the components, runs, mutants, findings, hazards and theorems.

## 1. Inventory

| Component | State it keeps | Operations | What is hard | What makes it correct |
|---|---|---|---|---|
| Block tree (`ingestion/src/tree.rs`) | the recent blocks, the canonical tip, the finalized block | `add_block`, `finalize`, pruning | forks, ties, reorgs over pruned ancestors | the tip is held and best; an update can be replayed; memory is bounded; finality is final |
| Ingestion pipeline and head poller (`pipeline.rs`, `source/head_stream.rs`) | cursor, channel of heads, back-fill stack, the tree | poll, fetch, back-fill, publish, finality tick | two tasks, endpoints that disagree, failed fetches, restarts | consumers rebuild a real chain; finality in order; ingestion catches up |
| Event bus consume loop (`event-bus/src/lib.rs`, `run_consumer`) | position per partition; the broker's committed offset | receive, Commit, Skip, Retry, Stop, poison, shutdown | lost commits, seeks, rebalances, crashes | at least once, in order, nothing wedges |
| Bounded FIFO map (`bounded-map`) | entries, insertion queue with stale keys | `put`, `take`, `retain_values`, eviction | lazily cleaned queue, eviction at the limit | within capacity, evicts the oldest, loses nothing it holds |
| Detection service (`detection/src/scheduler.rs`, `reorg.rs`) and cross-block state (`detector-api/src/cross_block_state.rs`) | two channels, the block in hand, snapshots per block | receive, detect, publish, hand on, commit, rewind | two topics without a common order, offsets that travel through two channels, redelivery | no offset passes unpublished findings; the state follows the chain; every block is detected |
| Simulation slow path (`dispatcher.rs`, `queue.rs`, `worker.rs`, `reorg.rs`) | RabbitMQ queue, quarantine, jobs in hand, each worker's orphaned blocks, what the incident index has named | dispatch, resolve, simulate, publish, settle, track reverts, retract | two brokers, full queue, delivery limit, a revert that races a simulation, stops at any point | no alert is lost between the brokers; jobs dropped only for reverted blocks; every incident the index names for a reverted block is retracted |
| Incident read model (`simulation/src/projection.rs`, `projection_consumer.rs`, `store.rs`) | rows by alert, incident links, orphaned terminals; Postgres rows, job rows, analytics rows | fold one event, write it through | events of five topics in any order, redelivery, failed writes, restarts | stored rows converge and never go back; nothing committed is lost |
| Cross-chain correlator (`cross-chain-correlator`) | ring of seen envelopes, leg buffer, finding tracker, two changelogs | route, join, buffer, evict, journal, publish, retract, replay | state rebuilt from changelogs, two tasks that journal before they lock, bounded memories | replay restores the buffer; a leg joins once; a finding follows its legs |
| Transactional outbox (`outbox/src/lib.rs`) and its callers (`intelligence/src/store.rs`, `server/src/feedback.rs`) | the callers' transactions, table rows with lease and stamp | `promote`, feedback, `enqueue`, `flush_once`, `mark_published`, `run_flusher` | open transactions, replicas, leases that lapse, crashes between publish and stamp | announce only writes that were committed; every announcement in the end |
| Circuit breaker, RPC pool (`resilience`, `ingestion/src/source`) | breaker state per endpoint | route, record, probe | half-open probes, timeouts | not modelled |
| Event store, rebuild, rule engine, notification, copilot, server, intelligence | their own stores | see `PROJECT.json` | leases, windows, caches | not modelled |

How they interact: ingestion publishes `RawBlockReceived`, `BlockAssembled`,
`BlockCanonicalized`, `BlockReverted` and `BlockFinalized`; detection consumes
assembled and reverted blocks and publishes preliminary alerts; the simulation
dispatcher turns an alert into a job on `sim.jobs`, a worker runs it and
publishes `SimulationCompleted` and `IncidentCreated`; the reorg consumer turns
reverted blocks into `IncidentRetracted`; the projection consumer folds all of
it into the read model that the API serves. The correlator joins observations
of several chains into findings and retracts them when a leg's block is
reverted. API writes that must be announced go through an outbox; every
correlation buffer is a bounded map.

## 2. Modules

| Module | Models | State and actions |
|---|---|---|
| `BlockTree` | `tree.rs` | operators on a tree value: `AddBlock`, `Finalize`, `PruneBelow`, `PruneToDepth`, the reorg walk. Hashes are block names, `Parent` and `Number` are constants |
| `BlockTreeCalls`, `MCBlockTree` | any caller of the tree | `CallAddBlock` in any order, `CallFinalize` of an ancestor of the tip |
| `Filter` | order-preserving filter of a list | `Sift`, a recursive function, used by the tree, the consumers' view, the correlator, the bounded map's queue and the FIFO cache, so that proofs can unfold it |
| `ChainEvents` | the events of one `add_block` in publication order | operators over `BlockTree`, used by `Ingestion` and `Detection` |
| `Ingestion`, `MCIngestion` | pipeline, poller, channel, endpoints | one action per await point: `PollTick`, `PollFetch`, `PollSend`, `TakeHead`, `AddStep`, `BackFill`, `TickFinalize`, `Publish`, their failures, `Shutdown`, `Abandon`, `Restart`. The bus is what a consumer of it knows |
| `CrossBlockState` | `cross_block_state.rs` | operators on the list of snapshots: `Apply`, `RevertTip`, `PruneToWindow`. An accumulator is the sequence of blocks folded into it |
| `Detection`, `MCDetection` | the detection service of one chain | composes `ChainEvents`, as the source of the two topics, with three tasks and two channels: `Receive`, `Process`, `Publish`, `Abandon`, `Finish`, `Commit`, and `Shutdown`, `Restart`, `Crash`, `Rebalance` |
| `SlowPath`, `MCSlowPath` | dispatcher, `sim.jobs`, workers, revert trackers, reorg consumer | `DispatchJob`, `DispatchAudit`; `Take`, `Resolve`, `Simulate`, `Falters`, `Poisoned`, `PublishResult`, `SettleResults`; `Track`, `LookUp`, `Retract`, `RetractSkips`, `RevertHandled`; a stop of each |
| `LegBuffer` | `buffer.rs`, `join.rs` | operators on the buffer: `Insert`, `Evicted`, `RemoveLeg`, `EvictExpired`, `Seed`, `Matched`, `Consume`. A leg is one event; `TxOf` is the transaction whose hash the code knows it by, and several legs may share one |
| `FindingTracker` | the tracker of `finality.rs` | operators on the set of tracked findings |
| `Correlator`, `MCCorrelator` | chain consumers, actor, finality consumer, both changelogs | composes `LegBuffer` and `FindingTracker`: `Deliver`, `OnLeg` and one action per entry, record, track and publish; `TakeFate`, `JournalFate`, `ApplyFate`, `RetractFinding`; `Shutdown`, `Restart`, `Crash`, `Rebalance` |
| `ConsumerLoop` | the offset bookkeeping of `run_consumer` | `Commits` (may be lost), `Retries` (seek back), `Reassign`, `Resume` |
| `RunConsumer`, `MCRunConsumer` | `run_consumer` with any handler | one action per verdict, `SkipPoison`, `Shutdown`, `Start`, `Rebalance` |
| `OrderedDelivery` | abstract: ordered at-least-once delivery | what `RunConsumer` implements |
| `BoundedFifoMap` | `bounded-map` | operators on a map value, used by `BoundedMapCalls` and `IncidentFold` |
| `BoundedMapCalls` | any owner of a map | `CallPut`, `CallTake`, `CallRetain` |
| `FifoCache` | abstract: a FIFO cache | what `BoundedMapCalls` implements |
| `IncidentFold` | `projection.rs` | the fold of one event, with the orphan buffer |
| `ProjectionConsumer`, `MCProjection` | `projection_consumer.rs`, `store.rs` | composes `ConsumerLoop` and `IncidentFold`: `Handle`, the failure of each of its writes, `Rebalance`, `Restart` |
| `Outbox` | `outbox/src/lib.rs`, the transaction of `promote` and the feedback handler | `Begin`, `Announce`, `EndTransaction`, `Feedback`, `Claim`, `Publish`, `Stamp`, their failures, leases that expire |
| `BlockTreeProofs`, `IngestionProofs`, `RunConsumerProofs`, `OutboxProofs`, `DetectionProofs`, `SlowPathProofs`, `CorrelatorProofs` | | proofs about the module each is named after |
| `ProjectionProofs` | | proofs about the bounded map and the incident read model that is built on it |

Definitions called "Mutant of ..." are deliberate bugs, used to show that the
property they break depends on that code. No specification uses them.

### Abstractions worth knowing

* **Everywhere.** A block is a name; hashing is assumed injective.
  `publish_resilient` is one step that delivers or, once a shutdown was
  requested, loses that one event as the code's `accept_loss` does; the next
  event is attempted again. RPC failover is a free choice of
  endpoint or failure per call, so breaker state cannot hide a behaviour. Times
  are small numbers.
* **Detection.** The roster is one detector that finds something in every
  block, so every block owes the bus two events. The build is a release build:
  the `debug_assert` on a second block at the tip's height is compiled out.
  `rewind_to` has no caller outside the tests and is left out.
* **Slow path.** A model worker is a worker process with one job slot and its
  own revert tracker. Dispatcher and reorg consumer share a process in the code;
  here they stop independently, which allows more behaviours. What simulating an
  alert yields is fixed per alert, and so is a permanent fault, that of a
  retraction included (`RetractSkips`); transient faults are free. The
  incident index is external: a lookup may name any of the block's incidents, and
  names again what it named before. `main.rs:103` wires `EmptyIncidentIndex`,
  which is the behaviour in which every lookup names nothing and nothing is
  retracted; the property is about the consumer, for whatever index it is given.
* **Correlator.** One bridge or pair of one replica. A changelog is what its
  replay returns, since replay folds entries one at a time; replay is complete.
  A leg is one event of the feed and is identified, as in the code, by its
  transaction hash, which it may share with another leg of the same bridge or
  pair. Records without a leg are not in the feed, and a block is either reverted
  or final, once, although either event may be delivered again. Commits are
  asynchronous: a restart or a rebalance goes back to any offset that was read, up
  to `MaxLag` records (a bound).
  The properties name what they do not cover: the legs in `loose` (delivered again
  after a restart, an entry given up at shutdown, a seed over capacity); the legs
  in `shadowed` (their hash left the changelog with another leg); and the findings
  in `excused` (evicted, tracked after the revert of a leg's block was applied,
  an entry or a retraction given up). Section 4 says what becomes of them.
* **Outbox.** `writes` are the callers' transactions and `rows` the table; a row
  names the transaction it was inserted in, so that an announcement outside its
  write's transaction can be expressed (it is the mutant). What other connections
  see of an open transaction is Postgres's read committed, marked external. The
  rows of a batch are published in any order, because
  `UPDATE ... RETURNING` promises none; a claim is one atomic statement; a
  publish that fails may have reached the broker all the same.

## 3. Runs

| Run | Question | Instance |
|---|---|---|
| `block_tree` | Does the tree keep its promises under any calls? Tip best, heights bounded, updates replayable, finality declared once, and a final block reverted only at the floor's own height | nine blocks: a fork at the root with branches of three and four and a second fork, depth 2, so that pruning cuts into both branches |
| `ingest_safety` | Do the published events describe a real chain, also in the middle of a reorg, is finality announced once and in order and taken back only at the floor's own height, and is nobody told to undo what was never done? | six blocks; one endpoint whose head jumps between branches at will, which is what failover between disagreeing endpoints looks like; one failed back-fill, one crash anywhere or one shutdown whose drain loses any of its events singly, catch-up slices of 2, a channel of 2 |
| `ingest_live` | Do consumers reach the network's head and its finality? | one fork, catch-up slices of 1, so that the cursor advances through a truncated range, under fairness |
| `ingest_orphaned_root` | violation: the same, without the proviso that the tree keeps a block of the settled chain | as above |
| `bounded_map` | Capacity, and refinement of a FIFO cache | five keys, capacity 2, a queue of up to 6, so that stale keys and evictions mix |
| `run_consumer` | Nothing committed before it is settled, refinement of ordered delivery, everything settled | two partitions, one poison record, three failures of any kind |
| `projection` | Do stored rows converge to the reference and never go back, whatever the order of topics, redeliveries and store faults? Do job rows, across a restart? | one alert simulated twice, finalized and retracted, on five topics; one fault or restart |
| `outbox` | Is an announcement sent only of a write that was committed? Are only announced rows stamped, duplicates paid for by failures, every committed announcement published in the end? | two replicas, three rows, one promotion that commits or rolls back among feedback verdicts, an idempotency key, batches of 2, one failure or lapsed lease |
| `detection` | Can an offset pass unpublished findings? Does the cross-block state stay in its window, fold nothing twice and rewind exactly? Is every block detected? | four blocks with a fork at the third height, one unencodable and one undecodable, window 2, work channel 2, done channel 1, two faults |
| `detection_tip` | violation: the newest snapshot is the canonical tip | the same chain, no fault |
| `slow_path` | Can an alert get lost between Kafka and RabbitMQ, a job be dropped without a revert, a retraction be forgotten, also when the process stops between two incidents of one block? Is every alert settled? | five alerts of two sibling blocks (two confirmed in one of them; in the other one whose retraction is refused, one that can never be simulated, one that can never be queued), one worker, a queue of 1, delivery limit 1, one revert, one stop |
| `correlator` | Does the changelog restore the buffer, can a leg count twice, can a published finding outlive its legs? | four legs, two of them of one transaction, that can meet in a bridge or an arbitrage finding or push each other out; a buffer of 2, other memories of 1 or 2, one tick, one fault; symmetry of the two blocks; 4.9 million states, about two and a half minutes |

The bounds are small, and each is chosen so that the case in question happens:
pruning that removes an ancestor needs a depth below the branch length; a
duplicate announcement needs one lapsed lease and a second replica; an orphaned
terminal needs two topics; a redelivery that meets a rewound state needs a fork
and a rebalance; a job that is dead-lettered by its delivery limit needs one
fault after one requeue; an eviction needs a buffer of two and three legs that
do not meet; a hash that leaves with another leg needs two legs of one
transaction and a third to join one of them; a stop between two retractions needs
two incidents of one block. The safety properties and refinements of every passing run are proved
without bounds as well, some under hypotheses that their statements name
(section 5).

Deadlock checking is off where the system may come to rest: a bounded log is
consumed, a bounded chain has settled. `block_tree` runs with it on.

Four properties of `projection` (`ConvergesToReference`, `CommittedIsPersisted`,
`AnalyticsNotDoubled`, `RowNeverRegresses`) are stated for the first session of
the service (`crashes = 0`): after a restart the fold starts from nothing
(section 4).

`ConvergesToReference` allows for ties: where two events of one alert carry the
same timestamp, which of them a row shows depends on the order in which they
arrived, and the property asks only that it be one of them.

### Fairness

* `ingest_live`: weak fairness of the steps that need only the runtime, the
  broker and room in the channel (`tokio` schedules both tasks, the channel's
  receiver never stops), strong fairness of the fetch, since a failed fetch is
  retried on every tick and a pool with a working endpoint answers again and
  again, and weak fairness of the network, which settles.
* `run_consumer`: a received record gets a verdict, every partition is fetched,
  and a stopped service is started again by its supervisor. Failures are
  finitely many (`MaxFailures`), so a record is not retried for ever.
* `outbox`: the loop of `run_flusher` never ends for good, and a lease ends by
  the clock. Committing a transaction is not assumed.
* `detection`: ingestion publishes what it owes, each topic is delivered, the
  scheduler and the committer tasks run, a publish that `publish_resilient`
  retries succeeds in the end, a process that was shut down is started again.
  That blocks arrive, or that a commit is kept, is not assumed.
* `slow_path`: dispatcher, workers and reorg consumer run, a queue with jobs
  delivers them, retried publishes succeed. Faults and stops are never forced,
  and the delivery limit bounds how often a job can come back.

## 4. Findings

1. `ingest_orphaned_root`: if the first head after boot is orphaned, every head
   of the winning branch back-fills below the root and fails; ingestion stops
   for good.
2. `detection_tip`: the winning block of a one-block reorg is assembled before
   the losing one is reverted. `apply` ignores a block at the tip's height (in a
   debug build it panics), the revert then pops the losing block, and the
   canonical block is never folded in, although "the back is the canonical tip".

   The state then trails the tree by a block, which has a second consequence.
   With `g`, then `a2`, `b2` and `d2` on it, `a3` on `a2` and `b3` on `b2`, and
   every record delivered once in publication order, a side block can be folded
   in because it is above the state's tip though not above the tree's, and the
   next canonical block is folded in over it. The revert of the side block, if
   it comes, finds another tip and does nothing: the snapshots end as `g`, `d2`,
   `a3` while the chain is `g`, `a2`, `a3`. This is the case the module comment
   of `cross_block_state.rs` (lines 10-13) is written against: the accumulator
   "would carry the contributions of orphaned blocks forever". A reorg deeper
   than what the tree retains, and a revert that overtakes its block on the
   other topic, leave orphans in the state too. What does hold, in any order, is
   that each rewind is exact (`RewindIsExact`).

Further disagreements between a comment and the code have no run of their own;
those that bear on a property are hazards with a note in `PROJECT.json`:

* `prune_below` keeps siblings of the finalized block, and such a side branch
  can overtake, so that a declared block is reverted (`tree.rs:370` against
  `:107-109`). No order of heads and finality ticks makes it worse than the
  floor's own height: `FinalRevertedOnlyAtFloor` of the tree,
  `FinalRevertedAtFloor` of the pipeline.
* A finality tick that names a block ahead of the tree's tip makes `add_block`
  refuse every block up to it, and no head can be linked until a restart.
  `Rooted`, the proviso of the liveness properties, excludes it.
* After a shutdown was requested each publish is given up on its own
  (`pipeline.rs:303-318`), so that `BlockCanonicalized` may be delivered although
  the `BlockAssembled` of the same block was lost, and a consumer's chain may
  have a gap. `ViewIsChain` and `AssembledFirst` are stated up to the events in
  `abandoned`; `RevertedWasCanonical` holds in the drain too.
* The reorg consumer skips, and commits, a revert as soon as one of its
  retractions is refused for good (`simulation/src/reorg.rs:400-409`): the
  incidents after it keep standing. `NamedAreRetracted` excuses only the
  blocks that have such an incident.
* `put` appends a queue entry per new key and only eviction at capacity pops
  one, so that a map drained by `take` grows its queue without bound
  (`bounded-map/src/lib.rs:73` against `:5-7`).
* After a restart the empty fold overwrites a stored row with what the next
  event alone says (`projection_consumer.rs:135`), and an orphaned terminal
  that was committed is forgotten.
* A lower finalized tag declares a block twice (`FinalityAdvances`), a failed
  seek skips a record for good (`SeekMayFail`), a reorg may have no common
  ancestor, and the outbox's batches are not in id order.
* Two legs of one transaction: when one of them joins, `remove` takes that leg
  and forgets the hash (`buffer.rs:142-149`, `:203-210`), while its `Removed`
  entry drops both from the changelog (`changelog.rs:359-363`). The other leg stays
  a candidate of the running process and is gone after a restart, although the
  replay is said to rebuild "the exact set of in-flight legs".
  `ReplayRestoresBuffer` holds in one direction without exception, and in the
  other up to such legs.
* A finding is journaled and tracked in two steps (`finality.rs:395-398`). When the
  revert of its block is applied between them, or before both, it is tracked too
  late: it is published and never retracted. Retractions that fail for good are
  given up and counted (`finality.rs:511-526`). What
  `FindingsFollowTheirLegs` shows is that every other published finding is
  tracked until it is final or retracted.

## 5. Proofs

All proofs hold for every value of the constants, from the named assumptions of
the modules (`BlockAssumption`, `IngestionAssumption`, `LogAssumption`,
`CapacityAssumption`, `EventAssumption`, `OutboxAssumption`, `DetectionAssumption`,
`SlowPathAssumption`, `CorrelatorAssumption`, ...), which every run also
evaluates. A theorem that needs more has it as a hypothesis in its statement;
each such hypothesis is named below with the reason why the code does not give
it.

The walks over parents and the filters of lists are recursive functions. The
library's induction theorems take an operator as a parameter; the proofs use
instead a lemma about sets (`Induction`: a set that holds 0 and is closed under
successor holds every natural number), and `Iteration`, `Recursion` and
`SiftFacts` for what a recursive function on an initial segment returns.

* **Block tree** (`BlockTreeProofs`): `TreeInvariant`, and from it
  `TreeTypeCorrect`, `TipNeverDangles`, `TipAlwaysBest`, `HeightsBounded`. That
  the tip is best is not inductive: a new block is compared by `(number, seq)`,
  so the invariant `TreeInv` also says that every held block's sequence number
  is below the next one, and that a tree without a tip is empty. Pruning keeps
  it because neither floor exceeds the tip's height.
  `UpdatesReplayable` is about the two sequences a reorg returns: the walk up
  from the old tip and the walk up from the new one are lines of parents, and
  `RootsLowest` in the invariant says that what is missing a parent lies at the
  bottom of the tree, so that every reverted height has its replacement.
  `FinalRevertsAtFloor` and `DeclaredOnce` assume `FinalityAdvances`, that the
  finalized tag does not go back: `finalize` does not compare the new tag with
  the old one, and a failover to an endpoint that lags may serve a lower one.
* **Ingestion** (`IngestionProofs`), for any number of restarts, failed
  back-fills and endpoints:
  * `IngestionTypeCorrect`, and `AssembledBeforeCanonical`, from `KnownInv`
    (whatever the tree holds and whatever is owed as canonical was assembled, is
    owed as assembled before it, or that announcement was abandoned).
  * `ViewFollowsTree` and `RevertsAreCanonical`. Neither is inductive: in the
    middle of a reorg the consumers' chain agrees with neither branch. The
    invariant says what `view` becomes when the owed events are applied: those
    still to come are first assembled blocks, then reverts, which are the end of
    `view` read backwards, then the new branch, and the result ends in the
    tree's chain. A restart that loses the tree leaves an empty chain, which any
    view ends in. In a drain that has abandoned an event only what the reverts
    need is kept: each owed revert names a block the view holds.
  * `ViewStaysChain`, for reorgs of any depth, from `ChainInv`: the blocks about
    to be put in place continue what the reverts leave of the view. When the tree
    has pruned the block two branches fork from, the heights still follow each
    other, since both walks end at the tree's lowest height, and the one missing
    link is to a block the tree no longer holds.
  * `FinalityAscends`, under `TagAdvances` (as for the tree), and
    `OneSourceAscends`, which derives `TagAdvances` for a pool of one endpoint.
  * `FinalRevertsStayAtFloor`, under `TagAdvances`, for any interleaving of heads
    in flight and finality ticks, from `RevertInv`: a tree whose tip has
    reached its floor holds nothing below it, so that a reorg reaches a declared block only at that height.
* **Consume loop** (`RunConsumerProofs`): `NoRecordLost`, `NoRecordOvertaken`
  and `LoopRefinesDelivery`, from `LoopInvariant`. That the committed offset is
  covered by settled records is not inductive, because a commit takes the
  session's position: `ReachedIsSettled` says the same of the position. The
  proofs assume `~SeekMayFail`; with failing seeks the properties are false.
* **Bounded map** (`ProjectionProofs`): `CapacityKept`, `QueueCoversMap` and
  `EvictionExact`, from `MapInvariant`. Eviction makes room only if the queue
  holds a key the map holds, which is `HeldIsQueued`; that a pop loses no other
  held key follows from `OldestExists`, a least-element argument. The proofs
  cover keys that come back after a `take`.
  `MapIsFifoCache` is the refinement of `FifoCache`, under `~Reuse`: a key that
  was taken does not come back, since its old place in the queue would decide
  when the new entry goes, and the map is then not a FIFO cache. The mapping
  keeps of the queue the keys that are still held, in order. The step proof
  needs `Tidy`: the queue has each key once, and a key of it that is not held
  was taken.
* **Incident read model** (`ProjectionProofs`), for any log on any number of
  topics, any interleaving of them and any number of failed writes, failed
  commits, rebalances and restarts:
  * `AnalyticsAppendedOnce` and `RowsOnlyMoveForward`, from `Session`: the row
    in the store is never ahead of the fold's in any of its three parts, figures,
    retraction and finality (`StoreBehind`), and an event with an analytics row
    is one the fold has taken (`AppendedOnce`), so that it will call it a
    duplicate. Neither property is inductive: both depend on the row the fold
    keeps, which the failing write has already changed.
  * `CommittedIsSafe` and `ReadModelConverges`, from `KeptInv`. An event that
    was handled is in the stored row, or it is a terminal that waits in the
    orphan buffer or in the fold while the record that will write it, its
    `IncidentCreated`, is still to come (`HandledIsKept`). At the end of the log
    nothing is to come, and every stored row has taken every event of its alert
    and nothing else (`Sourced`): the ladder of the fold leaves exactly one row
    for that, the reference, up to ties.
    Two hypotheses. `Roomy`: the orphan buffer is unbounded or has room for
    every incident that a terminal names; a full buffer evicts the oldest
    incident, a loss the code documents. `~SeekMayFail`: a failed seek skips a
    record for good. Both hold in the run.
  * `JobRowsConverge`, from `JobInv`, under `~SeekMayFail`: a handled job event
    is in its job row. It holds across restarts, because `record_job` merges
    with the row in the store instead of overwriting it.
* **Outbox** (`OutboxProofs`): `OnlyCommittedSent` and `NothingStampedUnsent`,
  from `OutboxInvariant`. That what is announced was written takes two facts: an
  announcement is inserted in its write's transaction (`InOwnTransaction`, which
  is what the callers do), and a flusher works on, and the broker has, only rows
  that every connection sees (`BatchVisible`, `SentVisible`). What a flusher is
  about to stamp is at the broker (`HeldWasSent`). The lease is not needed for
  either; it only limits duplicates.
  `DuplicatesPaid` is about exactly that: the extra copies of all rows, those at
  the broker and those a flusher still holds, form a finite set (`Surplus`) that
  is never larger than the number of failures and lapsed leases. A claim adds a
  holder only to a row without a lease, and whatever takes the lease from a row
  that still has a holder counts as a failure.
* **Detection** (`DetectionProofs`): `NothingCommittedUnpublished`, from
  `Types /\ Order`. A commit takes an offset that travelled through two
  channels, so the invariant says of every record on its way that all earlier
  records of its topic are settled, in hand or ahead of it: `WorkInOrder`,
  `CurrentInOrder`, `DoneInOrder`, and `ReadInOrder` of the consumer's position.
  A rebalance sets the position back while the channels live on, which is why
  the parts do not speak of consecutive offsets.
  `HistoryIsBounded`, `NothingFoldedTwice` and `SnapshotsNest` follow from
  `Store(cross)`: the snapshots ascend, lie within the window, each accumulator
  folds ascending heights that do not pass its block's, and it is the one below
  with its own block folded in last. The tasks and topics may do what they like:
  the invariant is kept by `apply` and by `revert_tip` of any block.
* **Slow path** (`SlowPathProofs`): `TypeCorrect`; `OnlyRevertedCancelled` and
  `NoneForgotten` from `ReorgInv` (every orphaned block of a worker is in the
  topic; the plan for the revert in hand holds each incident named for its block
  that is not retracted yet, `PlanCovers`, and nothing else, `PlanNamed`); `NoAlertLost` from `AccountInv` (a queued but uncommitted
  alert is accounted for too, and what a worker has left to publish is exactly
  what is missing on the bus). They hold for any number of stops and workers.
* **Correlator** (`CorrelatorProofs`), for any chains, legs, capacities, clock
  and number of faults:
  * `FindingsFollow`, from `FollowInv`: a finding is recorded before it is
    tracked and tracked before it is public, so the changelog and the tracker
    may differ only by the finding in the actor's hand and by the fate in the
    finality consumer's; a crash may fall between any two steps, and what the
    replay then restores is what the invariant says of the changelog.
  * `LegsOnce` and `ReplayRestores`, from `JoinInv`, which follows each leg
    outside `loose` from its record to its finding: it reaches the actor once
    (`Fresh`), it is a candidate or in one finding, never both (`Apart`), it is
    held and logged once (`Single`), and the buffer is what the changelog will
    say when the entries still to be appended are in it, where a removal counts
    for every leg of its hash and the legs in `shadowed` are candidates that the
    changelog has lost (`Same`). That the index may point at no leg is no
    concern: what is joined comes from the buffer's legs. The two
    properties are not inductive because the changelog lags behind the buffer
    between the steps of the actor.

Model-checked only: the liveness properties (`CatchesUp`, `FinalityArrives`,
`EverythingSettled`, `EveryAnnouncementPublished`, `EveryBlockDetected`,
`EveryAlertSettled`), because fairness and `ENABLED` are out of this prover's
reach, and the two violations.

## 6. Not modelled

Detectors and numeric code (pure functions with real-valued thresholds), chain
reads and revm, HTTP and gRPC request handling, reports and read queries,
metrics, operator tools and schema migrations. Usage metering is documented as
approximate. The ExEx source and its progress watermark, the failover pool's
breaker state, sharding of the correlator over replicas, the cross-chain finding
fold and the feedback ledger of the read model are left for later.
`PROJECT.json` gives the reason for every component.

## 7. Plan

In order of importance:

1. `CircuitBreaker` and the RPC pool, replacing the free choice of endpoint, and
   the progress watermark of the ExEx source.
2. `BatchConsumer` (`event-bus/src/batch.rs`) with the event store's append, as
   a second refinement of `OrderedDelivery`.
3. `SlowPath` composed with `ProjectionConsumer`, so that the answers of the
   index come from the read model, once the code has the query.
4. The copilot's leased queue, notification delivery, the rule engine's
   temporal windows, the server's degrade ladder.
5. Proofs: the state of the read model after a restart, once the code seeds the
   fold from the store.

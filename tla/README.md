# Verification of opentelemetry-kinesis-stream

TLA+ models, TLC runs and TLAPS proofs for the Kinesis receiver (a "KCL-lite"
consumer coordinated through DynamoDB leases) and the Kinesis exporter of
`jrglee/opentelemetry-kinesis-stream`. Paths below are relative to `src/`.

## 1. Inventory

### Receiver

| Component | State | Operations | Talks to |
|---|---|---|---|
| Lease store (`internal/lease/{lease,memory,dynamodb}.go`) | one row per shard: owner, counter, checkpoint | `List` (eventually consistent), `Ensure`, `Acquire` (fenced on counter), `Heartbeat`/`Checkpoint`/`Release` (fenced on owner and counter), `Delete` (fenced on counter) | all replicas, concurrently |
| Shard poller (`receiver/.../poller*.go`) | `p.leased` (shared with the heartbeat goroutine under `leaseMu`), iterator, `advanceSeq`, drain channel, two contexts | `openIterator`, `GetRecords` loop, `handleRecord`, `checkpointWithRetry`, `writeShardEnd`, `release`, `runHeartbeat` | store, Kinesis, downstream consumer, dead-letter sink |
| Fair-share planner (`internal/lease/taker.go`) | none | `Plan` over one snapshot of the table | coordinator |
| Coordinator (`coordinator.go`) | `active`, `observed`, `stopped`, wait group | `start`, `run`, `reconcile`, `tryAcquire`, `startPoller`, `releasePoller`, `drainAndStop` | store, pollers |
| Discovery and cleanup (`shard_discovery.go`) | `liveShards`, `absent`, `observed` | `discoverShards`, `refreshObservations`, `parentsDrained`, `cleanupOrphans` | Kinesis `ListShards`, store |
| Lifecycle (`receiver.go`) | contexts, `coord` | `Start`, `Shutdown` with a grace period | coordinator |

What is hard: no leader, so every decision is taken on a snapshot that others
change; store calls whose answer is lost take effect later; a replica that was
robbed of a lease goes on until a conditional write refuses it; checkpoints must
trail deliveries through partial batches, retries, drains and crashes; children
of a reshard wait for their parents across replicas; `ListShards` and `Scan` may
omit things, and listing and ensuring are not one step; shards are trimmed while
they are read; shutdown races with starting.

What makes it correct: no checkpoint covers an unprocessed record; checkpoints
do not go back; a lease is presumed dead only after real silence; children come
after parents; only rows of trimmed shards are deleted, and no finished shard is
read again; every shard is taken some day, and rebalancing comes to rest; a clean
shutdown has stopped and released everything; everything put is eventually
processed.

### Exporter

| Component | State | Operations |
|---|---|---|
| Grouping and keys (`exporter/.../partition*.go`, `signal_*.go`) | none | `groupByTags` by resource or by leaf, `resolveParts`, `joinParts`, `applyPromotions` |
| Oversize recovery (`oversize.go`, `signal*.go`) | the recursion | `emit`, `packChain`, `tryEncode`, `packSplit`, `splitHalf`, `truncateAttributes` |
| PutRecords (`record.go`, `exporter.go`) | the chunk, the records to retry, the attempt | `flush`, `putRecords`, `sleepBackoff`, `classifyPutRecordsError`; around it exporterhelper's timeout and retry senders, below it the AWS client with its own retries |

What is hard: partial failures matched to the right records in every retry,
limits at their boundary, retries of what took effect, order within a key,
halving with a bounded depth, data points that leave their metric and come back
by origin, cuts inside a code point. What makes it correct: an acknowledged
request is on the stream; regrouping loses and merges nothing and writes back only
what is missing; equal keys mean equal tuples; items are shipped once or counted
as dropped; records fit; order within a key is kept by packing; exports end.

The hazards, each at its line and with the properties that would catch it, are
in `PROJECT.json`.

## 2. Modules

| Module | Models | Notes |
|---|---|---|
| `Lease` | the row, `Ensure` and the four fenced writes, as operators | shared with the proofs |
| `ShardConsumer` | all pollers of all replicas, the rows they contend for, the stream | extends `Lease` |
| `AtLeastOnce` | abstract specification: what a consumer of the stream is promised | implemented by `ShardConsumer` |
| `XProofs` | theorems about X: `ShardConsumer`, `Coordinator` (with `Taker`), `Discovery`, `Lifecycle`, `PutRecords`, `Oversize` | |
| `GroupingProofs` | theorems about what `groupByTags` builds, and about keys and order behind it | extends `OversizeProofs` |
| `Extrema` | lemmas on least and largest members and on minimal counterexamples | used by the proofs |
| `Taker` | `lease.Plan` | used by `Coordinator` |
| `Coordinator` | reconcile passes of several replicas over time | counters by equality |
| `Discovery` | discovery, observation, taking and cleanup passes | reshards, trimming, omissions |
| `Lifecycle` | one replica's `Start`, discovery loop, pollers and `Shutdown` | |
| `Grouping` | key plans and the groupers of the three signals, as operators | no state |
| `Oversize` | `emit` up to `flush`: grouping, policy chain, halving | extends `Grouping`; hands its entries to `PutRecords` |
| `PutRecords` | `flush`, `putRecords`, the retry sender around them and the AWS client's retries below them | |
| `MC*` | values of the constants for TLC | |

Definitions keep the names of the code; `PROJECT.json` maps each to its lines. A
definition called "Mutant" in its comment is a plausible bug of the definition
below it, used to show that a property can fail; no specification uses it.

### ShardConsumer

One record per (worker, shard) holds the program counter and the locals of a
`shardPoller`: the cached lease, the iterator, the batch in hand, `advanceSeq`,
`retry`, the attempt of `checkpointWithRetry`, and whether it is draining, its
poll context or its kill context is done. Each store or Kinesis call and each record
handed down is a step; the heartbeat is a step of its own between any two.
Sequence numbers are 1..MaxSeq, checkpoint 0 is TRIM_HORIZON and MaxSeq+1 is
SHARD_END; a missing row has counter -1.

A store call succeeds, is refused, or is *lost*: the caller sees an error and the
request joins `net`, from which it may reach the store later, any number of
times, also after its sender crashed. Which leases a coordinator goes for is left
open (`TryAcquire` of what is free, unowned or has no live poller; `Steal` of
anything), which includes every plan that `Taker` can make. `List` and the
conditional `Acquire` are one step, because the counter makes an `Acquire` on an
outdated snapshot fail. `EnsureLease` creates rows parents first; what happens
when it does not is in `Discovery`. `handleRecord` is the set of its results:
delivered, permanently rejected, dead-lettered, or to be retried. Rows are not
deleted here.

*Bounds.* A behaviour draws one allotment of disturbances from `Allotments`: how
many store calls are lost, Kinesis or downstream errors occur, live leases are
stolen, pollers are drained, replicas are cancelled or crash, heartbeats are
sent. Heartbeats are unbounded in the code; one or two are enough to outdate a
token at any point.

### Coordinator and Taker

`owner`, what each replica polls and holds, and what it remembers of each row.
Counters only matter by equality with the last one seen, so a row is either as
the replica last saw it (for so many ticks, capped at LeaseDuration) or changed
since. `Reconcile` lists, refreshes the observations and computes a plan with the
operators of `Taker`; its releases and acquires are then carried out one by one
while other replicas move. A clock tick waits until every live holder has
heartbeated in time (the configuration requires `heartbeat_interval` <
`lease_duration`); a *stall* lets a replica miss that. `FinishShard` takes a shard
to SHARD_END, after which it counts in nobody's fair share; ages of such rows are
read by nobody and stand still. A scenario says which shards are active and which
disturbances may happen.

### Discovery

Passes of each replica: list the stream (`Discover`), ensure the rows of what was
listed some time later (`EnsureRows`), list the table, take at most one lease whose
parents count as drained, clean up. Shards close with a reshard and are trimmed by
retention; a listing may omit a shard, a scan may miss a row, a pass may fail at
any of its calls (an `Ensure` after some others succeeded included; a `Delete` with or
without effect, after which the shard's absence count stands), a replica may crash. A poller opens its iterator (`OpenIterator`), which Kinesis refuses for a
trimmed shard; one that has an iterator may finish. `c.liveShards` is part of the
pass, because only a pass whose own discovery wrote it reads it. Acquiring and
deleting are fenced on the counter: `known` is the rows whose counter a replica's
last observation still matches. What `Plan` would take is over-approximated (a
takeable lease of any owner). Older versions of a row in a stale scan are refused
by the fence and need no model; missing rows do. A row that is deleted and created
again starts at TRIM_HORIZON; that its counter starts at 0 too, so that a request
of its former life could pass the fence, is not in the model.

### Lifecycle

`Start` first builds its clients (`SetUp`, one step that succeeds or leaves
`r.coord` nil), then `start` runs with discovery inside; the discovery loop, an
acquire in flight, the pollers with their exits, and `Shutdown` with its deadline
and grace period interleave; one downstream consumer may be wedged and one store
call may fail. A `Shutdown` that finds `r.coord` nil returns at once
(`ShutdownUnbuilt`). When `Start` has failed that is right; while `Start` is still
building it is the disturbance *early*: the receiver then starts all the same, and
only the collector, which calls the two in turn, rules it out, so
`CleanMeansStopped` and `CleanMeansReleased` claim nothing after it. The moment
between the assignments of `r.coord` and `r.cancel` is not told apart. Clearing a
slot of `c.active` and `wg.Done` are one step. Peers are absent.

### Oversize

A batch is a sequence of resources with units (log records, spans, metrics; the
scopes flattened as `splitHalf` does) of items (one, or a metric's data points,
possibly none). Texts are sequences of bytes, named by their role in UTF-8 where
they are cut. In the batch that is exported, items are numbered in order, and
resources and units carry their position, which is how the code finds them again.
Without a key plan the batch is one group (`GroupWhole`). With one, the loops of the
groupers are steps, with the cursor `next`: over the resources (`GroupResource`), or
over resources, units and items (`GroupLeaf`; `UnitEnds`, where a metric without
data points is copied as a shell; `ResourceEnds`). Each applies an operator of
`Grouping`: one bucket for each key, in which resources and metrics are found again
by their index in the batch, and key parts are promoted to resources or items. A key plan is a
sequence of sources with an optional regex, given as a function from texts to
submatches; the empty plan is strategy random. Where the three signals do the same
with their own types, one operator stands for all three, and `PROJECT.json` maps it to
the lines of one of them: `AddLeaf` to traces, `GroupLeaf` to logs, `UnitEnds` and
`ResourceEnds` to metrics, whose shells are the general case. That no key part holds the separator is
an assumption of the code (`signal.go:17-19` calls it vanishingly unlikely; nothing
checks it) and of the model (`SeparatorAssumption`). The
64-bit digest that becomes the partition key is represented by the text it is the
digest of, that is, without collisions.

The size of a payload is the sum of its parts plus one byte for each resource,
which stands for marshalling without compression. The recursion of `packSplit` is
an explicit stack. An encoding fails at most MaxErrors times, at any attempt.

### PutRecords

One request of N packed records with sizes and keys. The records of a call are a
set (`attempt`), because flush and the retries of putRecords only ever leave
records out and never change their order. A call puts any subset of them on the
stream and reports the others as failed, or fails after taking effect or not,
retryably or permanently; the deadline may pass at any time. A request that ends
retryably is sent again as a whole, up to MaxSends times.

Within one call the AWS client may transmit the request several times: `client.go:16,26`
leaves it its default retryer, which repeats a transmission that was throttled, was
answered by a 5xx or whose answer was lost. `Repeat` is such a transmission; it may
have stored any part of the records, and `putRecords` only sees the answer to the last
one. The history variable `unanswered` counts, for each record, the transmissions with
it that were repeated, up to MaxRepeats. `stream` has one element for each transmission
that Kinesis took anything of: the set of records it took, which it appends in the
order of the request.

## 3. Runs

All "pass" runs end without error; sizes and times are with two TLC workers.

| Run | Shows | Bounds | States |
|---|---|---|---|
| `Consume` | `TypeOK`, `TokenIsCurrent`, `NoLoss`, `NoRedelivery`, `CheckpointsNeverRegress`, `Implements` (refinement of `AtLeastOnce`) | 2 replicas, 1 shard, 2 records of which one is undecodable, batches of 2, 2 checkpoint attempts; three scenarios: (steal, lost write, heartbeat), (2 lost writes, error, crash), (2 errors, 2 drains, heartbeat) | 1.4M, 90 s |
| `Reshard` | `ChildAfterParent`, `EventuallyProcessed`, `EventuallyFinished` | 2 replicas, a shard and its child, 1 record each, 2 checkpoint attempts; (lost write, crash), (steal) | 110k, 85 s |
| `Rebalance` | `TypeOK`, `StaleMeansSilent`, `Settles` | 2 replicas, lease 2 ticks, all shards unowned: 3 shards, or 2 with a stall, a lost Acquire or a shard that ends | 56k, 70 s |
| `Reaping` | `TypeOK`, `OnlyTrimmedReaped`, `NoSecondReading`, `ChildAfterListedParent` | 2 replicas, a split, threshold 2; an omission and a failed call, or a crash | 3.0M, 145 s |
| `Collected` | `EventuallyReaped`, `EventuallyTaken` | 1 replica, the same split, threshold 3; (omission, failed call), (stale scan, crash) | 13k, 20 s |
| `Export` | `TypeOK`, `AcknowledgedIsStored`, `CopiesBounded`, `CallFits`, `EventuallyEnds` | 3 records of sizes 1, 2 and 4 against 2 records and 3 bytes a call, 3 attempts, 2 sends, 1 repeated transmission of each record | 776k, 25 s |
| `Shutdown` | `TypeOK`, `CleanMeansStopped`, `CleanMeansReleased`, `EveryoneAsked`, `NoAddAtZero`, `ShutdownReturns` | 2 shards, a lost call, a wedged consumer, an early Shutdown | 5.7k, 2 s |
| `Repack` | `TypeOK`, `Regrouped`, `Additive`, `Accounted`, `RecordsFit`, `OneKeyPerTuple`, `InOrder`, `WellFormed`, `OnlyUnfitDropped` | 4 items of 3 weights in 10 shapes, both strategies, 5 chains; logs and metrics under 5 key plans; 2 halvings, values cut at 2 bytes, 1 codec failure | 296k, 35 s |
| `Blocked` | violation of `TrimmedIsDrained` | 1 replica, no disturbance | |
| `StaleScan` | violation of `ChildAfterParent` | 1 replica, 1 stale scan | |
| `Uneven` | violation of `EvenSplit` | 3 replicas, 4 shards held 2-2-0 | |
| `KeyOrder` | violation of `KeyOrder` | 2 records of one key | |

Why the bounds are enough to be of interest: two replicas are what every race in
the receiver needs (an old and a new owner; a reaper and a taker); two records
make a batch that can be cut; a second checkpoint attempt makes a retry of what
took effect, in `Consume` and in `Reshard`, where two attempts that both fail are left
to `Consume`. The code's threshold is 3; `Reaping` has 2, with one omission, because
passes that only count absences add states and no order of events (a pass that
listed the stream before a shard existed counts as an absence of it too, which
`Misled` allows for: `OnlyTrimmedReaped` and `NoSecondReading` claim something of a
shard when its listings can mislead a replica less often than the threshold). Three shards and two replicas are the smallest
odd division, two shards the smallest in which a steal leaves the victim with one.
`Export` has chunks limited by count, by
bytes and by a single record that exceeds the bytes, two or three chunks for any sizes, and
in each of them room for a repeated transmission; in `Repack` the weights put
pieces exactly at and one above the limit for both key lengths, and two halvings
are too few for one of the shapes; its key plans read every source, promote to
both levels and to a taken target, and include tuples with equal concatenation. `CHECK_DEADLOCK FALSE` is used where the
system ends: an export (`Export`, `Repack`, `KeyOrder`) and a shutdown.

### Disagreements

The four violation runs are recorded as findings.

* `StaleScan`: `parentsDrained` takes a parent without a row for drained. A scan
  without `ConsistentRead` may return a child's new row and not its parent's; the
  child is then read first, and no conditional write prevents it. A `ListShards`
  that omits the parent before its row exists has the same effect (with one
  omission instead of the stale scan in `StaleScan.cfg`).
* `Blocked`: a parent that is trimmed before it was read to its end keeps a row
  below SHARD_END, which `parentsDrained` waits for and `cleanupOrphans` does not
  delete; no poller can open it. Its children are never acquired, although ADR 0006
  treats trimmed parents as drained. `EventuallyTaken` says that nothing else keeps
  a shard from being acquired.
* `Uneven`: when every owner is exactly at the target, a joining replica finds
  neither a free lease nor an owner above it.
* `KeyOrder`: the failed part of a call is retried behind records of the same key. The
  run has no repeated transmissions (MaxRepeats = 0); it does not need them.

Met on the way and not kept as runs: `reconcile` counts a shard whose lease was
just stolen as its own and may release another one, so two replicas that always
plan between a steal and the victim's next heartbeat exchange roles for ever
(`Settles` has this as its one exception; `Config.Validate` does not relate
`discovery_interval` to `heartbeat_interval`, and the user guide advises a lower
`discovery_interval` for faster convergence); `cleanupOrphans` keeps its absence
counts over a pass in which discovery listed the shard again but `List` failed, so
the absences need not be consecutive; the comment of `putRecords` (`record.go:146-148`)
says that a record that succeeded is never re-sent, which holds for what an answer
reported (`CopiesBounded`), while the client's own retries may duplicate what they had
no answer for; an item that cannot be split and is reached
after exactly `max_attempts` halvings is counted as `max_attempts`, not as
`irreducible`; the comment of `splitMetricsHalf` calls a metric indivisible,
which it is not; `utf8SafeCut` cuts inside the first code point if that alone
exceeds `max_attribute_value_bytes`, which `WellFormed` exempts.

### Fairness

* `ShardConsumer`: weak fairness of ensuring each row, of *some* replica
  acquiring each lease that can be taken, and of each poller's next step. Discovery
  and reconcile run on a ticker in every live replica and a poller is a goroutine
  whose calls have timeouts. Nothing is assumed of producers, reshards,
  heartbeats and late writes; allotments end outages.
* `Coordinator`: time, passes, heartbeats and exits of pollers are weakly fair;
  the acquires of a plan are strongly fair, since the short time between a `List`
  and an `Acquire` is not hit by a heartbeat on every pass.
* `Discovery`: passes, exits of pollers whose shard is finished or cannot be
  opened, and the passing of lease_duration are weakly fair. That a shard that can
  be picked again and again is picked, and one that is polled again and again is
  opened and finished, is strong fairness: which shard `Plan` picks is the subject
  of `Coordinator`, reading to the end that of `ShardConsumer`, and both are
  over-approximated here. The stream need not reshard or trim.
* `Lifecycle`: the steps of `Start`, of the loop and of `Shutdown`; pollers once
  asked to stop, unless wedged. `Shutdown` need not be called.
* `PutRecords`: calls return, backoffs end, the retry sender resends or gives up.
  Nothing is assumed of the client's repeats but that they are bounded, as its attempts
  are.

## 4. Proofs

Each theorem holds for every value of the constants that the named ASSUMEs admit;
the runs evaluate those ASSUMEs. Every invariant that a passing run checks of
`ShardConsumer`, `Coordinator`, `Discovery`, `Lifecycle` and `PutRecords` is proved,
and so are their action properties and the refinement; of the nine invariants of
`Oversize` all but `OnlyUnfitDropped` are.

| Module | Theorem | States |
|---|---|---|
| `ShardConsumerProofs` | `Invariance` | `Spec => []IInv` |
| | `TypeCorrect`, `NothingLost`, `TokensCurrent`, `ParentsComeFirst` | `[]TypeOK`, `[]NoLoss`, `[]TokenIsCurrent`, `[]ChildAfterParent` |
| | `CheckpointsAdvance` | `CheckpointsNeverRegress` (action property) |
| | `Refinement` | `Implements`: `ShardConsumer` implements `AtLeastOnce` |
| | `HandsOverOnce` | `[]NoRedelivery` |
| `CoordinatorProofs` | `Invariance`, `TypeCorrect` | `[]IInv`, `[]TypeOK` |
| | `TakeoverNeedsSilence` | `StaleMeansSilent` (action property) |
| | `PlanKeepsToShare` | what `lease.Plan` may return, for any table |
| `DiscoveryProofs` | `Invariance`, `TypeCorrect` | `[]IInv`, `[]TypeOK` |
| | `ReapsOnlyTrimmed`, `ReadOnce`, `ChildrenWait` | `[]OnlyTrimmedReaped`, `[]NoSecondReading`, `[]ChildAfterListedParent` |
| `LifecycleProofs` | `Invariance`, `TypeCorrect` | `[]IInv`, `[]TypeOK` |
| | `CleanStops`, `CleanReleases`, `AllAsked` | `[]CleanMeansStopped`, `[]CleanMeansReleased`, `[]EveryoneAsked` |
| | `AddsAreCounted` | `NoAddAtZero` (action property) |
| `PutRecordsProofs` | `Invariance`, `TypeCorrect` | `[]IInv`, `[]TypeOK` |
| | `Acknowledged`, `OneCopyPerAnswer`, `CallsFit` | `[]AcknowledgedIsStored`, `[]CopiesBounded`, `[]CallFits` |
| `OversizeProofs` | `Invariance`, `TypeCorrect` | `[]IInv`, `[]TypeOK` |
| | `EveryItemAccounted`, `AllRecordsFit`, `CutsAtCodePoints` | `[]Accounted`, `[]RecordsFit`, `[]WellFormed` |
| `GroupingProofs` | `GroupsInvariance`, `PackInvariance` | `[]GroupsInv`, `[]PackInv` |
| | `NothingLostInGrouping`, `PromotionAdds` | `[]Regrouped`, `[]Additive` |
| | `RecordsInOrder`, `OneTupleOneKey` | `[]InOrder`, `[]OneKeyPerTuple` |

### ShardConsumer

For every set of workers and shards, parent relation, number of records, set of
undecodable records, batch limit, number of checkpoint attempts and allotment of
disturbances. The assumptions are the types of the constants and that NoOwner is no
worker. None of the safety properties is inductive: that a checkpoint covers only
processed records depends on what pollers are about to write and on requests still
under way. `IInv` adds

* `AbsentRows`: a row that does not exist has no owner and no checkpoint;
* `PollerPositions`: everything before a poller's iterator, and in a batch
  everything up to `advanceSeq`, is processed, and the iterator is not behind the
  checkpoint it holds;
* `TokensTrail`: a cached lease is not ahead of the row, and equals the row if the
  counters are equal;
* `PendingWrites`: a request still under way has at most the row's counter; a
  checkpoint in it is accounted for, and not behind the row's if it would pass the
  fence;
* `ParentsFirst`: rows appear parents first, and a shard that is or was read has
  parents at SHARD_END.

The proof first shows type correctness of each action, and that what is put,
closed and processed only grows (`Grows`), so that an accounted checkpoint stays
accounted. It then describes a step by its effect on a row, a poller and a
pending request (`Effects`), shows once that these effects preserve `IInv` (the
counter grows with every write, so every other token and pending request for the
row is refused from then on), and for each action that it has these effects.
`CheckpointsAdvance` and `Refinement` follow from the same facts.

`HandsOverOnce` needs a second invariant, of behaviours that are granted no lost
call, no steal, no kill and no crash (`Handover == Graceful => Calm`). Then nothing
is under way; a running poller owns its row with a current token (`Undisturbed`), so
a shard has at most one; and each processed record is covered by the checkpoint or
lies behind that poller's position (`Handed`). The step that matters is the release: a
drained poller gives the row up only after its checkpoint took in the last record it
handed down, so the next owner starts behind everything that was processed.

### Coordinator and Taker

For any workers, any finite set of shards (numbers, as `Plan` breaks ties by shard
id) and any lease duration. `StaleMeansSilent` is about what a replica believes while
others move: `Seen` says that the age it remembers of a row is at most the silence of
the row if the row is as the replica saw it, and `Planned` that what is in a plan and
not a steal was unowned or expired by that age, which only grows while the counter is
the same; if the counter has changed, the conditional `Acquire` refuses.

`PlanKeepsToShare` is about the operators alone: releases, acquires and steals of a
plan against the fair share. It rests on the ceiling division of `FairShareTarget`
and the cardinalities of the sets that the plan is cut from.

### Discovery

For any workers, threshold and allotment, and any finite lineage in which parents
have smaller numbers than their children. `ReapsOnlyTrimmed` counts: `Excused`
bounds each absence count of a shard that Kinesis still has by the omissions so far
and the one listing that may be older than the shard (`Misled`), so below the
threshold only trimmed shards are reaped. `ReadOnce` adds where a finished shard can
be: at SHARD_END, where it is not read (`Finished`), or deleted, hence trimmed, and a
row that a pass in progress creates again cannot be opened (`Gone`). `ChildrenWait`
uses `Followed`: as long as nothing is omitted, a listing that has a child has its
parents unless they are trimmed, a row's parents have rows or are finished or
trimmed, and so what a pass decides to take waits for all of them.

### Lifecycle

For any set of shards and any disturbances. `Counted` says that the wait group is the
number of goroutines that have started and not exited (a cardinality over the
shards plus the loop), and `Control` relates the program counters of `Start`,
the loop, an acquire in flight and `Shutdown` with `stopped`, the contexts and
`c.active`. Then a wait group at zero means that all are gone, whichever of the
three was first.

### PutRecords

For requests of any number and size of records and any limits. `Covered` says that
every record before the chunk is stored, and every record of the chunk is stored or
tried again; `Once` that a send leaves at most one copy of a record, and none of a
record that it has still to put, besides one for each repeated transmission of it; `Chunked` that the chunk an attempt is a part of
keeps the byte limit, from which the attempt inherits it, because dropping records
from a call does not add bytes. Byte sums are a recursive function over the record
numbers. That it exists, and is monotone in the set, is proved by a least
counterexample (`TotalExists`, `BytesMonotone`, with `LeastNatural` of `Extrema`), the
form in which induction is open to the provers here.

### Oversize

For any batches, key plans, chains of policies and limits. `Accounted` counts the
items that are shipped, pending or dropped, but is not inductive: while the loops of
`groupByTags` run, an item may be in no group yet, and a step of `packSplit` may rely
on there being no current piece. The invariant has four parts. `InputOK` is what
`InputsAssumption` says of the batch and never changes. `Types` is `TypeOK`. `Control`
says which pieces there are at which place of the export: one current piece or a
stack, never both, and neither between two groups. `Kept` says where the items are:
until the loops are done, those in the groups and those after the cursor are the
items of the batch, each once; from then on (`Whole`) those in records, on the stack,
in the current piece and in groups hold no item twice and are, with the drop counts,
as many as the batch has.

Its proof rests on lemmas about the operators. `Inserted` and what follows from it:
`AddLeaf` and `AddResource` put the items they are given into the groups and leave the
others, whichever bucket, resource or metric they find, and `AddShell` adds none.
`PieceHalved`: the halves of `splitHalf`, at each of its three levels, are batches and
concatenate to the piece. A truncation keeps the ids. Under these are the
facts about `FlattenSeq` (type, concatenation, length), which the library defines by
recursion and states no theorem about: they are proved by least counterexamples, as
the byte sums of `PutRecords` are.

`AllRecordsFit` needs only
that a record is shipped after an encoding of that very piece fitted, which is so in
each of the three places where `packChain` and `packSplit` ship one, and that the
strategy, and with it the length of the key, does not change. `CutsAtCodePoints` is
about texts in which, as in UTF-8, a code point has at most four bytes: the last
boundary within the limit is then one of the last four places, so the scan of
`utf8SafeCut` finds it, unless there is none at all.

### Grouping and order

`Kept` counts items; it does not say in which group an item is, nor in which place.
`GroupsInv`, about the loops of `groupByTags`, does. At the cursor `c`, `Grouped` says

* `DistinctKeys`: no two groups have the same key;
* `Copied`: within a group the indices of the resources rise, those of the units of a
  resource and the ids of the items of a unit too; each resource, unit and item is a
  copy of the one at its index, with the attributes that promotion may have added
  (`Grew`) and, if an item came with it, did add (`Grown`), and the group's key is the
  key of each of its items;
* `Behind`: nothing in a group is from the cursor or after it;
* `Covered`: every item before the cursor, and every unit before it that has no items,
  is in a group with its key.

`Copied` and `Behind` need each other: a rising sequence stays so when something is
appended, or when its last member grows, because all of it is behind the cursor. And
`ensureMetric` and `ensureScope` find a resource or unit only if it is the
last one of its group, because it can only be the one at the cursor. `Copied` needs
that keys are a function of the original attributes: the groupers resolve parts before
they promote, and never look at a copy. `NothingLostInGrouping` is `Covered` with
`DistinctKeys` at the end of the loops, `PromotionAdds` is `Copied`. Both strategies are
treated in the same form: with the resource grouper a cursor only moves from
resource to resource.

`PackInv` takes over when the first group is popped: what is shipped, then what is
stacked, then the current piece, then what is still grouped is, read as one sequence
of items, in order wherever two items have the same tuple of key parts (under random:
everywhere, as all have the empty tuple), and each piece is packed under the key of
its items. Every step of `emit`, `packChain` and `packSplit` takes a
subsequence of that sequence or only moves its borders; that a halving does so
rests on `PieceHalved`. The first of these states comes from `Copied`: rising
indices of resources, units and items are rising ids of the batch.

`OneTupleOneKey` needs one thing more, that `joinParts` is injective on tuples of the
same plan. If the last part has no separator in it, the last separator of a joined
text is where that part begins, so equal texts have equal last parts and equal texts
before them (`CutAtSeparator`), and so on to the first part (`JoinPartsInjective`). It
needs `SeparatorAssumption`, which is about the batches and plans that are
exported and not about the code: no text that `resolveParts` returns for them has the
separator in it. With values that have it two tuples can share a key, which is what
the code accepts (`signal.go:17-19`).

### Only model-checked

* Liveness (`EventuallyProcessed`, `EventuallyFinished`, `Settles`, `EventuallyReaped`,
  `EventuallyTaken`, `EventuallyEnds`, `ShutdownReturns`): fairness and ENABLED are out
  of the prover's reach.
* `OnlyUnfitDropped`, which follows a dropped piece to the attempts that refused it. Its
  bound is a power of two in the number of halvings, and its sizes are sums over sets
  by a fold over an arbitrary operator: neither has a theory in the provers here.
* That digests of different keys differ is an abstraction of the model (section 2),
  not a result.

## 5. Not modelled

* Encoding and compression: library calls without state of their own. A failure to
  decode (`ShardConsumer`) or to encode (`Oversize`) is an outcome.
* Configuration and factories: the constraints that the models rely on are ASSUMEs
  (`ValidChain`, `ValidPlan`, heartbeat below lease duration).
* Telemetry: counters nothing reads; drop counts are in `Oversize`.
* AWS client construction, worker ids (assumed distinct), the load generator and the
  end-to-end and performance harnesses.
* In modelled parts: scopes and their attributes, exemplars, metric types and the
  settings of their shells (data that grouping copies as a whole); sharing of memory
  between pdata clones; durations of pacing and backoff; counters of re-created rows.

## 6. Plan

Done: the receiver (leases, pollers, refinement), planning and rebalancing, discovery
and cleanup, lifecycle; in the exporter grouping, packing and sending. Proved: all
safety properties of the runs but `OnlyUnfitDropped`.

Beyond that: numbered counters for re-created rows, and `Coordinator` as a
refinement of the leases of `ShardConsumer`.

# TLA+ models of crabka

crabka is a Kafka-compatible broker in Rust: a KRaft metadata quorum, brokers that
replicate partitions, coordinators for consumer groups, transactions and share groups,
and a number of products built on top. This directory holds TLA+ models of four of its
stateful cores, the TLC configurations that check them on small instances, and TLAPS
proofs of the properties that matter most for instances of every size.

Paths below are relative to `src/crates/`. `PROJECT.json` lists, for every definition,
the source lines it models, and for every run and theorem what it shows.

## 1. The system and what is modelled

| Part | Code | Modules | State |
|---|---|---|---|
| KRaft consensus core | `kraft-core/src/core.rs`, `role.rs`, `verified/src/consensus.rs` | `KRaft` | partly: fixed voter set |
| KRaft engine: controller task, timers, quorum-state file, commit waiters, metadata log | `raft/src/kraft/controller.rs`, `log.rs`, `log/src/leader_epoch_checkpoint.rs` | `KRaft` | partly: no snapshots, no reconfiguration |
| Partition replication, in-sync sets, leader election | `broker/src/partition.rs`, `replica_state.rs`, `replicator.rs`, `replicator_supervisor.rs`, `isr_maintenance.rs`, `leader_election.rs`, `handlers/fetch.rs`, `handlers/alter_partition.rs` | `PartitionReplication` | partly: clean elections, fixed replicas |
| Transaction coordinator | `broker/src/txn/`, `handlers/init_producer_id.rs`, `handlers/produce.rs` | `TxnEntry`, `TxnCoordinator`, `TxnOutcome` | partly: one broker, transaction.version 3 |
| Share groups: delivery state of a share partition | `broker/src/share_partition/state.rs` | `AcquisitionState`, `SharePartition`, `ShareRecords` | modelled |
| Share groups: leader cells, sessions, persister | `broker/src/share_partition/manager.rs`, `handlers/share_fetch.rs`, `handlers/share_acknowledge.rs`, `share_coordinator/persister_client.rs` | `SharePartition`, `ShareDurable` | partly: no session cache |
| Share coordinator | `broker/src/share_coordinator/` | `ShareDurable` | partly: read, write, log, replay |

Section 8 lists the rest.

The metadata quorum commits records; every broker applies them to an image of its own, in
order but late. The image tells a broker which partitions it leads, at which epoch and
with which in-sync set (`PartitionReplication`). A share partition is delivered by the
leader of its data partition, which keeps the delivery state in memory and saves it
through the share coordinator; the coordinator fences a leader by its epoch
(`ShareDurable`). The transaction coordinator keeps the state of a transactional id in a
log of its own and writes markers to the partitions of a transaction (`TxnCoordinator`).
The four models do not compose: each takes what it needs of the others as an abstract
environment. `PartitionReplication` takes a committed record as a step of the controller,
`ShareDurable` takes the sequence of leaders as given, and `TxnCoordinator` takes an
append as a step that succeeds or fails.

Two modules say what a component promises rather than how it works: `ShareRecords` and
`TxnOutcome`. `SharePartition` and `TxnCoordinator` are shown to implement them.

## 2. The metadata quorum: `KRaft`

The engine of a node is one task that takes one event at a time, so each handler is one
action: the core's transition and everything the engine executes for it.

| Action | Code |
|---|---|
| `ElectionTimeout`, `FetchTimeout`, `RePoll`, `Heartbeat` | the timers of `reconcile_timers` and their handlers |
| `ReceiveVoteRequest` (`FenceVote`, `AnswerPreVote`, `GrantVote`, `DenyVote`) | `handle_vote_request` |
| `ReceiveVoteResponse` (`FencedByRejection`, `IgnoreVoteResponse`, `CountVote`) | `handle_vote_response`, both promotions |
| `ReceiveBegin` | `handle_begin_quorum_epoch` |
| `ReceiveFetch` (`AnswerDiverging`, `ServeFetch`, `RedirectFetch`) | `handle_fetch` and the engine's answer |
| `ReceiveFetchResponse` (`TruncateToHint`, `AppendFetched`) | `on_fetch_response` |
| `SubmitChange`, `Restart` | `on_submit_change`, `load_quorum_state` |

State: `epoch`, `voted`, `log` and `hwm` are durable; `leader`, `role`, `granted` and the
leader's `progress`, `coreHwm`, `epochStart` and `waiters` are not. `cast`, `elected`,
`abandoned` and `acked` are history: no action reads them.

Abstractions:

- A record is its epoch and the node that created it. A fetch response carries the whole
  rest of the leader's log; the code stops at a byte limit.
- The leader-epoch checkpoint is derived from the log instead of being stored.
- A message may be lost when it is sent, and is delivered at most once, in any order. A
  response to a request of a process that has restarted is lost (`live`).
- The count of missed fetches is a choice between `RePoll` and `FetchTimeout`.
- A handler, with its disk writes, is one step. A failing or torn quorum-state write is
  not modelled.
- Not modelled: the lone-voter shortcut, observers, voter-set changes, `EndQuorumEpoch`,
  snapshots.

There is no fairness: timeouts are random in the code and an election ends only with
probability one, so no fairness condition on these actions would be justified. All
properties are safety properties. Deadlock is not checked because the bounds stop the
system.

Two things one might expect to hold do not hold of this code, and are therefore not among
the properties. TLC gives the counterexamples:

- *At most one leader of an epoch.* A voter follows the leader of an epoch, which clears
  its vote (`core.rs:497`); gives it up without leaving the epoch (`core.rs:588`); and then
  grants a vote request of that epoch which was delayed. A second leader is elected.
  `ElectionSafetyUnlessAbandoned` is what remains true.
- *Logs that agree at an offset agree below it.* `end_offset_for_epoch` has no answer for
  an epoch the leader never recorded, also when it lies below the leader's last one
  (`leader_epoch_checkpoint.rs:160`), and a follower that diverged in such an epoch is
  served as if it were consistent.

## 3. Partition replication: `PartitionReplication`

One partition with a fixed set of replicas. `committed` is the sequence of records the
metadata log holds of the partition; `image[b]` is how far broker `b` has got in it. Each
broker has a log and, as a leader, an in-sync set (`isr`) and the progress of its
followers (`stats`).

| Action | Code |
|---|---|
| `Failover`, `TransferLeader` | `compute_failover_changes` and `failover_one`; the drain of a broker and preferred election |
| `AlterPartition` | `compute_proposal`, the request, `handle_partition` on the controller |
| `InstallReplicationTarget`, `InstallIsr` | the two halves of a reconciliation with the image |
| `Produce`, `Acknowledge` | the acks=all path of `handlers/produce.rs`, `await_hw_at_least` |
| `FetchRecords`, `FetchDiverging`, `FetchFenced` | one round trip of the follower's fetch loop, by its outcome |
| `FetchLate` | a round trip that the leader let through in the follower's epoch and serves in a later one of its own |
| `Restart` | a process that stops and starts again |

A controller task reads the image, computes a record and submits it later. Any earlier
record of `committed` may be the one it read (`k` in `Failover`, `TransferLeader`,
`AlterPartition`); applying a record compares no partition epoch, as in `image.rs`.

Abstractions:

- A record is its offset and the epoch it was appended at. A high watermark is computed
  (`HighWatermark`) instead of stored: every change of the in-sync set, of the progress
  or of the log recomputes it in the code.
- A follower's fetch is one step. On the follower's side its loop has one request out at a
  time, nothing else changes its log meanwhile, and an answer that finds another target is
  dropped. On the leader's side the comparison of epochs, the note of the progress and the
  read have awaits between them (`handlers/fetch.rs:466`, `490`, `762`). As long as the
  leader keeps its target its log only grows, so that what it reads later is what the
  same request would have read in one step at that time. If it installs a later epoch
  between them it may lead, follow and truncate in that epoch before it reads: that is
  `FetchLate`, which notes the progress or not and appends any run of records the leader
  has by then.
- A broker installs one committed record at a time. The watch channel may skip images;
  passing through them has the same effect.
- Time is left out: `recent` says that a follower was caught up within the lag limit, any
  members may have gone silent, and any broker may miss its heartbeats. The delay of an
  AlterPartition request is covered by the choice of `k` and by stale `recent` flags.
- Not modelled: unclean election and its recovery, reassignment, diskless replicas, the
  check of broker epochs in AlterPartition (KIP-903), the follower's high watermark
  (KIP-392), OFFSET_OUT_OF_RANGE after retention.

The promise of the code is that an acks=all record survives every clean election
(`leader_election.rs:100`). It holds until one of six races happens, which the history
variable `raced` records:

| Race | What happens | Where |
|---|---|---|
| overtaking | a controller task commits over a record committed since it read the image | `leader_election.rs:478` |
| lagging | a replica enters the in-sync set that has not reached the end of the leader's log | `isr_maintenance.rs:134` |
| uninstalled | a leader acknowledges by its old in-sync set when a larger one is committed | `handlers/alter_partition.rs:139` |
| unseeded | a leader acknowledges between clearing its followers' progress and seeding it | `partition.rs:688` |
| reset | a fenced follower empties its log because the leader has no record of its epoch | `replicator.rs:759` |
| late | a leader that compared epochs with a follower serves it in a later epoch | `handlers/fetch.rs:466` |

`AckedOnEveryIsrMember` states the promise with that proviso, in the form that makes it
inductive across elections: every member of the in-sync set has the record, not only the
leader. The proviso is exact in the sense that each race, allowed alone, loses an
acknowledged record: TLC finds it for overtaking and reset with two records and three
committed changes, for lagging, uninstalled and unseeded with one record and four
changes, and for late with three records and three changes (the follower takes a record
of the later epoch over a gap in its own log, and the leader of that epoch counts it as
caught up). The `uninstalled` race needs a leader that is slow to apply its own in-sync
set, `overtaking` two controller tasks at once, and the others a leader change at the
wrong moment.

`isr_loss` is a case of lagging, which contradicts a comment of the code. There are
several ways to it: a replica may be taken for recent because the leader seeded it when it
installed an in-sync set it has left since, or because the in-sync set is empty and the
leader acknowledges alone. The action constraint `FirstHeardBehind` leaves those out and
keeps the one the comment speaks of: in-sync sets hold their leader and the minimum, and a
replica is admitted only if it was in none of the in-sync sets of the epoch and its first
fetch was behind the end of the leader's log. The trace: b1 leads {b1, b2, b3}; a failover
makes b2 the leader of {b2, b3}; b2 appends a record; b1 fetches from b2 for the first
time, at offset 0, and counts as caught up (`replica_state.rs:98`); b3 replicates the
record and b2 acknowledges it; `compute_proposal` admits b1 (`isr_maintenance.rs:134`); and
the election of the preferred replica makes b1 the leader, without the record.
Within the bounds `FetchFenced` changes a log only by a reset.

There is no fairness and no liveness: a partition without a live in-sync replica stays
unavailable, and a follower whose last epoch the leader does not know asks the same for
ever (`leader_epoch_checkpoint.rs:256`) until the leader writes a record.

## 4. Transactions: `TxnEntry`, `TxnCoordinator`, `TxnOutcome`

`TxnEntry` has the record kept of a transactional id and the pure decisions on it: the
transitions, the producer identities (a producer id and an epoch, and the one staged to
follow it), the answer to a retried EndTxn, the idle timeout. `MaxEpoch` stands for
`i16::MAX`, so that the epochs run out within a run.

`TxnCoordinator` is one transactional id with several producer instances, the handlers
that serve their requests, the idle reaper, the log of `__transaction_state`, and the
partitions that take data and markers.

| Action | Code |
|---|---|
| `InitProducerId`, `RegisterPartitions`, `Produce`, `EndTxn`, `Sweeps` | a request is taken, or the reaper comes round, and the entry is looked up |
| `EnterRegister`, `EnterProduce`, `EnterEnd`, `EnterRecover`, `EnterInit`, `EndTxnPrepare`, `ReaperPrepare`, `InitFresh`, `Refuse` | the lock sections of the handlers |
| `AppendRecord`, `AppendFails`, `Install` | `TxnCoordinator::put`: the append to the log, then the new cell in the map |
| `WriteMarker`, `MarkersFail`, `MarkersDone` | one marker per partition (`write_txn_markers.rs`) |
| `EndTxnFinish`, `ReaperFinish`, `InitFinish`, `InitLooksUp`, `InitRenew` | what follows the markers |
| `AllocationFails` | the controller grants no producer id, after the entry was changed in place (`end_txn.rs:295`, `coordinator.rs:810`, `init_producer_id.rs:321`) |
| `AppendData` | the append of produced records |
| `GiveUp`, `Restart` | a client stops waiting; the broker stops and replays its log |

A handler holds the mutex of the entry only while it decides; between its lock sections,
the append, the installation and every marker, others run. `put` installs a copy in a new
`Arc`, while another handler may hold the old one, so the cells are explicit.

`TxnOutcome` is the promise to a producer: one verdict per transaction in every partition
and in every answer, a commit reported only when all its records are visible, no record
that joins later. `KeepsItsPromise` says that `TxnCoordinator` implements it, with the
open records, the markers' verdicts and the answers as the refinement mapping.

### Assumptions on the environment

The runs of the coordinator assume four things that the code does not enforce. Each is a
constant or a definition of `MCTxnCoordinator`, and dropping it gives a counterexample:

- `Serialised`: the requests of one transactional id come one after the other; only the
  writing of markers, of an EndTxn or of the reaper, overlaps with another request (`Turn`).
  This also restrains the broker's own reaper, whose lock section (`coordinator.rs:799`)
  never falls between another handler's lock section and the end of its `put`
  (`coordinator.rs:601`), nor between the validation of an EndTxn and its prepare. It also
  makes the two lock sections of keepPreparedTxn (`init_producer_id.rs:267`, `301`) one
  step, `EnterRecover`. Without it a slow
  handler puts back a copy of the entry that is older than the map's, and two producer
  instances end up with one identity (`InstancesDistinct` fails without any fault). The
  same assumption keeps a retry of EndTxn from reading a change that another handler made
  in place and has not logged, and InitProducerId from finishing its abort in a cell that
  is no longer the map's.
- `SparesPrepared`: no new producer instance while a transaction is prepared. `txn_split`
  is the run without it.
- `MCOneFault`: at most one fault per behaviour. A failed append leaves the change in memory, and a
  crash after it takes the change back when others have acted on it: the reaper writes
  abort markers for a PrepareAbort that is not in the log. Two failed appends are as bad: a
  producer id that was never logged reaches the map and the records.
- `SparesStranded`: the reaper does not take up an abort whose allocation of a producer id
  failed. The failure leaves the entry in PrepareAbort under the identity it had. The reaper
  then writes the markers and completes the abort under that same identity, so that nothing
  fences its owner, and an EndTxn of the instance before, which is one epoch behind, passes
  for a retry and is given the owner's identity (`InstancesDistinct` fails). A prepared
  commit that is stranded so stays prepared, and failures that leave no PrepareAbort do no
  harm; `txn` explores these at any time.

`InstancesDistinct` is stated up to the first time a producer is given the last epoch
(`lastGiven`, a history variable set by every answer). Recovery may hand out `i16::MAX`
(`end_txn.rs:381`), where the other identities rotate one epoch earlier, and
`is_completed_end_txn_retry` (`end_txn.rs:478`) takes an EndTxn of the epoch before the last
for the retry of the one that rotated the producer id. With three InitProducerId requests
TLC finds: one instance recovers a transaction and is given the last epoch but one, the next
recovers it with the last epoch and ends it, which rotates the producer id; the first, which
is fenced by then, retries its EndTxn, is answered as if it had ended the transaction, and
goes on with the new identity beside its owner.

The clients are Kafka producers in general. `client-producer` begins a transaction and
takes the answer of EndTxn as the model does (`InTransaction`, `Answer`); an error leaves
the transaction open, and the same decision may be sent again. After a lost answer it asks
for a new identity (`producer.rs:487`), where other clients, and the model (`GiveUp`),
may also retry EndTxn.

Known limits that no property is about: an interrupted commit is never taken up again,
neither by EndTxn, which answers CONCURRENT_TRANSACTIONS, nor by the reaper, which looks
for PrepareAbort only; a produce request with a producer id that was rotated out is not
validated by the coordinator; the epoch of the markers stays at `i16::MAX` when a recovered
identity is already there; Produce does not set the start time that the idle timeout is
measured from.

Not modelled: transaction.version below 3, partition leaders on other brokers, the move of
the coordinator to another broker, the expiry of transactional ids, and the checks of the
partition log, which are a choice (`AppendData`).

Fairness, for `txn_live`: a handler that has started runs to its end (`WF` of `Runs(h)`, and
of the reaper's own steps), and the reaper comes round for ever (`SF` of `Sweeps`, because
requests of clients disable it in between). Both are tasks the runtime keeps scheduling;
`expiration::run` is an interval loop. Nothing is assumed of the clients.

## 5. Share groups

`AcquisitionState` has the operations of `state.rs` on a window of batches (materialize,
acquire, acknowledge, renew, release, expire, archive, split and coalesce, advance the
start offset) and the two handler bodies built from them, as operators on a cell.

`SharePartition` is one cell on its leader. The cell's mutex makes each caller one step:
`ShareFetch`, its three failures (`ShareFetchReadFails`, `ShareFetchScanFails`,
`ShareFetchPartitionLost`), `ShareAcknowledge`, `ReleaseSession`, `Sweep`; `Produce`
appends data or a transaction marker, and `Tick` passes time. `log` holds the records
below the fetch bound (the high watermark, or the last stable offset). A lock is the time
it has left. A handler reads the clock just before it takes the mutex; the model reads it
inside.

`ShareRecords` states what a group is promised, record by record, without batches, locks
or a window. `RefinesRecords` says that `SharePartition` implements it.

`ShareDurable` has several brokers, each with its own cell, and the coordinator with its
memory (`durable`) and what a replay of its log would yield (`stored`). Loading a cell is
two steps (`ReadState`, `Install`) because the code holds no lock between them.
`MoveLeader` changes the leader, `LearnLeader` lets a broker find out, `Crash` loses its
cell, and on the coordinator's broker replays the log. The new leader may be any broker,
also one that `failover_one` would not choose. A write may be fenced, lost,
applied with its answer lost, or applied in memory and not appended; a snapshot of the
memory may follow an append. The answer to a remote write is discarded, as in
`send_to_leader`. A failed load gives an empty window with state epoch 0, whose writes are
fenced. Time is left out: at a sweep the locks of any members may have expired.
A cell takes its leader epoch from the image; in the code it is that of the local partition
(`manager.rs:200`), which may lag behind the image and is 0 before the partition is
materialised. With a lagging epoch as one more kind of failure TLC also finds no violation,
in 495,767 states; the run leaves it out for its time.

What holds through all of that is `NoRecordSkipped`. Three stronger statements do not hold
of this code; TLC gives the counterexamples:

- *One holder of a record.* `merge_batches` replaces a stored batch only by one with the
  same first offset (`share_coordinator/state.rs:60`). A batch that was split stays beside
  its parts, and after a reload two members hold one record.
- *An accepted record is not delivered again.* A broker that leads again uses the cell of
  its earlier leadership (`manager.rs:230`) and hands out a record accepted in between.
- *A clean cell is durable, on any broker.* The refusal of a remote write is discarded with
  its response (`persister_client.rs:452`), and the leader takes its progress for durable.
  `LocalCleanIsDurable` is the case that holds. It is about the coordinator's memory: a
  remote write whose append failed is answered, and a cell loaded afterwards is ahead of
  the log.

Two more disagreements can be read off the models. `Materialize` limits the batch it
appends and not the window, so records in flight can exceed `max_inflight`, which
`share_partition/state.rs:125-126` says caps them. `Completed` wraps around in a release
build where `archive_internal` saturates, so the completion counter can become negative at
the limit of an `i32`.

Fairness: `SharePartition` assumes weak fairness of `Tick` (time passes) and of `Sweep`
(the sweeper is an interval task that nothing disables). No request is assumed fair.
`share_locks` needs nothing else.

Not modelled: the session cache and its epochs, `invalidate`, the division of one record
budget among several partitions, the long poll; of the coordinator, initialize, delete and
alter of offsets (the state epoch is constant), pruning, and its move to another broker.
Initialize checks the state epoch, releases the lock, appends and replaces the entry
(`coordinator.rs:188`), so that a write in between is lost; pruning takes the smallest
snapshot offset of the keys in memory (`coordinator.rs:430`), which misses a key whose
initialize has appended and not yet installed.

## 6. Runs

Passing runs:

| Run | Checks | Bounds |
|---|---|---|
| `election` | `ElectedByMajority`, `OneVotePerEpochUnlessAbandoned`, `ElectionSafetyUnlessAbandoned` | 3 voters, epoch 1, empty logs at first, 2 messages in flight, 1 restart, every fetch lost |
| `replication` | `TypeOK`, `CommitsOwnEpoch`, `WaitersArePending`, `HwmAdvanceByMajority` | 3 voters, 2 epochs, submits up to 2 records, 1 message in flight, 1 restart |
| `isr` | `TypeOK`, `AckedOnEveryIsrMember` | 3 replicas, 2 records of which one is acknowledged, 3 committed changes, restarts before the last of each |
| `txn` | `TypeOK`, `OpenRecordsAreTracked`, `InstancesDistinct`, `KeepsItsPromise` | 2 producer instances (one with two-phase commit and recovery), 2 transactions, 2 partitions, 1 handler and the reaper, epochs 0 to 2, 1 fault, before the last of each unless it is a refused producer id |
| `txn_live` | `PartialAbortCompletes` | the same with 1 transaction and epochs that do not run out |
| `share_partition` | `TypeOK`, `WindowIntegrity`, `CompletionsCountedOnce`, `MarkersNeverDelivered`, `LocksHonoured`, `RefinesRecords` | 2 members, 3 records, 2 attempts, windows of 2 |
| `share_locks` | `SilentMembersLoseLocks` | 2 members, 2 records |
| `share_records` | `TypeOK`, `DoneForever` | 2 members, 3 records |
| `share_durable` | `TypeOK`, `NoRecordSkipped`, `LocalCleanIsDurable` | 2 brokers, 1 member, 2 records, 2 leader epochs, 1 crash, 1 failure; 3 leader epochs without either |

Each property has a mutant: a variant of one operator, kept beside it and marked
`Variant` or `Faulty variant`, under which TLC finds the property violated.

Runs that show a disagreement between the code and what the repository says of it. Each
checks one property, and TLC finds it violated:

| Run | Property | What happens |
|---|---|---|
| `acked_loss` | `AckedRecordsSurvive` | A leader that answers a diverging fetch executes the truncation it sends to the follower on its own log (`controller.rs:1451`), and with it removes a record whose submit had succeeded. |
| `isr_loss` | `AckedRecordsSurvive` | The first fetch of a follower counts as caught up, whatever offset it asks for (`replica_state.rs:98`). After a failover the old leader, outside the in-sync set, fetches once from the new one, is admitted behind the end of its log and elected as the preferred replica, and an acknowledged record is gone. |
| `txn_split` | `AllOrNothing` | A crash or a failed marker interrupts a commit between two markers. InitProducerId replaces the prepared entry, partitions included (`init_producer_id.rs:362`), and the next abort of the same producer id discards in one partition what the other has committed. |

Why these bounds:

- Three voters are the least with a majority that is not everybody. One epoch is enough
  for the election hazards, which are all about several candidates of the same epoch.
  Two messages let an old request overtake a new one. `replication` needs a second epoch
  and two records for logs to diverge and for the commit rule to matter; with one message
  in flight it reorders nothing, but its properties are also proved without bounds.
- `NoFetches` (an action constraint) leaves out behaviours in which a fetch is not lost,
  so followers' logs stay empty in `election`; the theorems of section 7 cover the rest.
  `WithoutHistory` (a view) hides variables that no action reads. None of the properties
  of that run other than `TypeOK` mentions them, and their types are proved.
- Three replicas leave an in-sync set of two that a third can rejoin. Three committed
  changes allow an in-sync set to shrink, a leader to fail over and another to take over;
  two records allow two leaders to append different records at one offset. In `isr` the
  constraint `OneAcked` stops at the first of the six races, past which the invariant
  claims nothing, and at the second acknowledged record. The race-free behaviours also pass with one record and four changes.
  `AckedOnEveryIsrMember` is about all in-sync replicas at once, so `MinInsync` is 1, the
  weakest setting; `isr_loss` uses 2, with which the loss is less expected.
- In `txn` epochs end at 2, so every path to a new producer id is taken. A second instance
  fences the first. One handler beside the reaper is enough, as `Serialised` lets no two
  requests of clients overlap. `txn_live` has a larger `MaxEpoch` because its property is
  not about identities. `UpToCellNames` (a view) identifies states that differ only in
  which names the cells have; no action depends on the name of a cell. `FaultsEarly` (a
  constraint) lets the fault strike while there is another instance or another transaction
  to come that may suffer from it; a refused producer id, which needs the last epochs, may
  come later.
- Three records are the least that can be split into three batches; a window of two then
  has to be extended. Two attempts let a record be delivered again and then be given up.
  `MaxOverdue` bounds how late the sweeper is for a lock: it runs every half lock
  duration. Acknowledgement requests are every range with every type, every renewal, and
  representatives of the malformed ones; fetch requests are representatives.
- `WithoutDirty` hides `dirty`, which in `SharePartition` only decides whether a write is
  attempted. `WithoutCounters` hides the completion counter, which nothing reads but
  itself.
- `share_durable` has one member that rejects the first record and accepts the second; the
  other verdicts lead to the same states of the window. A third epoch, in which a
  leadership comes back to a broker that still has its cell, is explored without faults
  (`ThirdEpochUndisturbed`).
- Symmetry is used for voters, replicas, partitions and members, in safety runs only.
- `CounterMax` stands for the largest `i32` and is above every count the runs reach.
- Deadlock is checked in the runs of `TxnCoordinator`, where the reaper never stops, of
  `SharePartition`, where time and the sweeper do not, and of `ShareRecords`; elsewhere
  the bounds stop the system.

## 7. Proofs

The theorems hold for every value of the constants that satisfies the named assumptions.

`KRaft` (from `NodeAssumption`: finitely many voters, at least two; `BoundAssumption`: the
bounds are natural numbers):

- `KRaftProofs!TypeCorrect`: `[](TypeOK /\ LeaderKnown)`. `LeaderKnown` is needed because
  a follower's fetch and a leader's response name the leader.
- `KRaftElectionProofs!ElectedByMajorityAlways`, `OneVoteAlways`, `ElectionSafetyAlways`:
  the three properties of `election`, for any number of voters, epochs, messages and
  restarts.
- `KRaftCommitProofs!CommitsOwnEpochAlways`, `WaitersArePendingAlways`,
  `HwmAdvanceByMajorityAlways`: the commit rule, the parked submits and the majority behind
  every rise of the high watermark, the properties of `replication`.

None of the three election properties is inductive alone. `ElectionInv` adds what connects
a vote to a promotion: a node has voted only in epochs it reached (`VotesBelowEpoch`); its
vote of the current epoch is still recorded unless it followed a leader since
(`VoteStands`); a pre-vote request of a candidate is older than its candidacy
(`RequestsPrecedeCandidacy`), so a late pre-vote grant carries an earlier epoch
(`GrantsAreVotes`); hence every vote a candidate counts was cast for it in its epoch
(`CountedVotesWereCast`). The steps that cast no vote are handled by one lemma,
`NoVoteCast`. Two majorities share a voter (`MajoritiesMeet`), and that voter voted once
unless it gave up a leader, which gives `ElectionSafetyUnlessAbandoned`. The proviso is
exactly what the counterexample of section 2 exhibits: election safety holds as long as no
voter gives up a leader and stays in its epoch.

`CommitInv` adds one fact to the commit properties: no high watermark passes the end of its
log (`HwmWithinLog`). A submit is parked at the new log end, and only that fact puts it
ahead of the high watermark; a truncation keeps it because it lowers the high watermark
with the log. Lemma `HighWatermarkRise` carries the argument about
`recompute_high_watermark`: a value above the current one is the greatest offset that a
majority has reached, and lies past the start of the epoch. `RaisedByServing` shows that no
other step raises it.

`PartitionReplication` (from `InsyncAssumption`: the in-sync minimum is a positive number;
`BoundAssumption`: the bounds are natural numbers; nothing is assumed of the brokers):

- `PartitionTypes!TypeCorrect`: `[]TypeOK`, which includes that no progress noted of a
  follower passes the end of the leader's log.
- `PartitionProofs!AckedRecordsKept`: `[]AckedOnEveryIsrMember`, for any number of
  replicas, records, committed changes and restarts.
- `PartitionProofs!PartitionSafety` and `LogsMatch`: the inductive invariant `SafetyInv`,
  and from it that two replicas with a record of the same epoch at an offset hold the same
  records up to it.

`AckedOnEveryIsrMember` says nothing of the brokers that may be elected later from an
in-sync set, of leaders that do not know yet that they were replaced, or of the logs it
compares, so it is far from inductive. `SafetyInv` (checked by TLC on the instance of `isr`
and on one with four changes) adds, for behaviours without a race:

- Every commit is computed from the current record, so an epoch rises exactly when the
  leader changes and has one leader (`EpochsInOrder`).
- Logs are ordered by epoch, the records of an epoch come from its leader, and the leader
  has all of them (`LogsInOrder`, `EpochsAreLed`, `LeaderHasEpoch`). Logs with a record of
  the same epoch agree up to it (`LogMatching`). So a follower that does not diverge has a
  prefix of the leader's log, and a truncation keeps what follower and leader share
  (lemmas `NotDiverging`, `TruncateSafe`).
- What a leader has noted of a follower is true until the follower leaves the leader's
  epoch (`ProgressIsTrue`).
- The members elected later come from the last in-sync set of an epoch, until one of them
  has gone on to lead a later one (`InsyncInherited`). A record that everyone who left the
  epoch had is carried on by every later member (`CarriedOn`).
- Hence a record is `Secured` when it is acknowledged, also by a leader that was replaced
  meanwhile (`AcknowledgeSafe`), and no later step undoes that (`AckedIsSecured`).

`FetchLate` is a race in itself, so that `SafetyInv` claims nothing after it; `TypeOK` is
proved across it. `StepSafe` has one lemma per action. Elections, in-sync changes and installations are
shown through what they change (`Commits`, `Elects`, `Shrinks`, `Alters`), changes of a log
through what they keep (`ExtendedKeeps`, `KeepsShared`). The proofs are in three modules:
`PartitionTypes` (the log operators, what each action does to the variables, the types),
`PartitionCommits` (the actions that change no log) and `PartitionProofs` (the others, and
the theorems).

`TxnOutcome` (no assumptions): `OneVerdictAlways` and `CommitIsCompleteAlways` say what the
promise amounts to in each state, for any transactions and partitions. TLC carries them to
`TxnCoordinator` by `KeepsItsPromise`.

`ShareRecords` (from `RecordsAssumption`): `TypeCorrect` (no record is handed out more
often than allowed, and it has an owner exactly while acquired) and `DoneForeverAlways` (a
record that was acknowledged or archived is never brought back). Lemma `StepRecord` says what one step may make of one record; the
theorems follow from it. TLC carries them to `SharePartition` by `RefinesRecords`, so for
the batch list itself they are shown on the small instance only.

Only model-checked: all properties of `TxnCoordinator`, `SharePartition` and
`ShareDurable`, both refinements, and liveness, which is out of the prover's reach.

## 8. Not modelled

Sections 2 to 5 say what is left out of the modelled parts. Of those, the ones with a
protocol of their own are the voter-set changes of KRaft, which take effect when appended
and may be truncated away (`controller.rs:1762`), its snapshots, which are installed while
fetch responses are in flight (`controller.rs:2940`), and a quorum-state file that cannot
be written: the code logs the error and sends the vote (`controller.rs:1649`). The variant
`RestartForgettingVote` shows what the lost vote costs.

| Part | Code | Why |
|---|---|---|
| Idempotent producer state | `broker/src/producer_state.rs`, `partition_writer.rs` | sequence numbers of one producer, checked in turn by one writer; the models take a refused batch as a choice |
| Consumer group coordinator | `broker/src/coordinator/unified/` | one actor per group; two protocols and the migration between them, large and mostly sequential |
| Diskless topics and write-ahead log | `broker/src/diskless/`, `broker/src/wal/` | a replication protocol of its own |
| Tiered storage | `broker/src/remote_log_manager.rs` | segment upload and deletion against an object store |
| Unclean recovery, reassignment | `broker/src/unclean_recovery.rs`, `reassignment.rs` | change the replica set that `PartitionReplication` fixes |
| Partition log, segments, compaction | `log/src/` | file layout; truncation and the epoch checkpoint are in `KRaft` and `PartitionReplication` |
| Metadata image | `metadata/src/image.rs` | pure fold of committed records |
| KRaft transport, wire codecs | `raft/src/kraft/transport.rs`, `protocol/` | I/O and generated code; loss and delay are in `KRaft` |
| Fetch sessions, quotas, authentication, authorization, audit | `broker/src/fetch_session.rs`, `throttle/`, `authz/`, ... | caches and pure decisions |
| Clients, SQL engine, schema registry, connect, operator, gateway | their crates | programs of their own |

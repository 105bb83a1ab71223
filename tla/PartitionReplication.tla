------------------------ MODULE PartitionReplication ------------------------
(***************************************************************************)
(* One partition and its replicas: the leader's follower bookkeeping       *)
(* (broker/src/replica_state.rs), the acks=all produce path                *)
(* (handlers/produce.rs, partition.rs), the follower fetch loop            *)
(* (replicator.rs, handlers/fetch.rs), the reconciliation of each broker   *)
(* with its metadata image (replicator_supervisor.rs), the in-sync set     *)
(* (isr_maintenance.rs, handlers/alter_partition.rs) and the controller's  *)
(* elections (leader_election.rs), unclean election disabled.              *)
(*                                                                         *)
(* A broker never waits for another: its image of the partition's record   *)
(* lags behind the committed one, and a broker the controller takes for    *)
(* dead may still be running.                                              *)
(***************************************************************************)
EXTENDS Integers, Sequences, FiniteSets, FiniteSetsExt, Functions

CONSTANTS
  Brokers,       \* the partition's replicas
  MinInsync,     \* min.insync.replicas
  MaxValue,      \* bound: records produced
  MaxChange      \* bound: records committed for the partition

ASSUME InsyncAssumption == MinInsync \in Nat \ {0}
ASSUME BoundAssumption == MaxValue \in Nat /\ MaxChange \in Nat

VARIABLES
  committed,   \* the partition's records in the metadata log, oldest first
  image,       \* how much of committed each broker's replica has installed
  isr,         \* ReplicaState.isr
  stats,       \* ReplicaState.per_follower
  log,         \* the records of each replica: their offsets and epochs
  produced,    \* how many records were produced
  acked,       \* the records acknowledged to their producers
  raced        \* history: the races that have happened, of AllRaces

\* overtaking:  a controller task commits over a record committed since it read the image;
\* lagging:     the in-sync set admits a replica that has not reached the end of the leader's
\*              log;
\* uninstalled: a leader acknowledges a record before it installs the in-sync set that admits
\*              a replica;
\* unseeded:    a leader acknowledges a record between the two halves of a reconciliation;
\* reset:       a fenced follower empties its log for want of an epoch boundary;
\* late:        a leader that compared epochs with a follower serves it in a later epoch.
AllRaces == {"overtaking", "lagging", "uninstalled", "unseeded", "reset", "late"}

replica == <<isr, stats>>
produce == <<produced, acked>>
vars == <<committed, image, isr, stats, log, produced, acked, raced>>

NoEpoch == -1
UndefinedOffset == -1

Record(leader, epoch, members) == [leader |-> leader, epoch |-> epoch, isr |-> members]
Target(record) == [leader |-> record.leader, epoch |-> record.epoch]
Current == committed[Len(committed)]
Image(b) == committed[image[b]]
TargetOf(b) == Target(Image(b))

\* A record of the log carries its offset, counted from 1, so that a log of n records ends at n.
Holds(b, r) == r.offset <= Len(log[b]) /\ log[b][r.offset] = r

-----------------------------------------------------------------------------
(* The epochs of a log: its leader-epoch checkpoint.                       *)

Epochs(b) == {log[b][i].epoch : i \in DOMAIN log[b]}
LatestEpoch(b) == IF log[b] = <<>> THEN NoEpoch ELSE Max(Epochs(b))
StartOf(b, e) == Min({i \in DOMAIN log[b] : log[b][i].epoch = e}) - 1
Later(b, e) == {x \in Epochs(b) : x > e}

EndOffsetForEpoch(b, e) ==
  IF e \notin Epochs(b) THEN UndefinedOffset
  ELSE IF Later(b, e) = {} THEN Len(log[b]) ELSE StartOf(b, Min(Later(b, e)))

\* The epoch of b's log that e falls in, and where that epoch ends.
EpochAndOffsetFor(b, e) ==
  IF e = LatestEpoch(b) THEN [epoch |-> e, end |-> Len(log[b])]
  ELSE IF Later(b, e) = {} THEN [epoch |-> NoEpoch, end |-> Len(log[b])]
  ELSE [epoch |-> LET floor == Epochs(b) \ Later(b, e) IN IF floor = {} THEN e ELSE Max(floor),
        end |-> StartOf(b, Min(Later(b, e)))]

-----------------------------------------------------------------------------
(* The controller.  A task reads the partition's record, computes the next *)
(* and submits it; applying it replaces the record, whatever that is now.  *)

Race(kind, happens) == raced' = IF happens THEN raced \cup {kind} ELSE raced

MayCommit == Len(committed) < MaxChange

\* Commit a record computed from the k-th.
Submit(k, record) ==
  /\ committed' = Append(committed, record)
  /\ Race("overtaking", k < Len(committed))

\* failover_one for a broker that missed its heartbeats, maybe with others.  The new leader
\* is the first live member in the record's order.
FailoverOne(record, dead, alive) ==
  LET aliveIsr == record.isr \cap (alive \ {dead}) IN
  IF record.leader = dead THEN {Record(l, record.epoch + 1, aliveIsr) : l \in aliveIsr}
  ELSE IF aliveIsr # record.isr THEN {Record(record.leader, record.epoch, aliveIsr)}
  ELSE {}

Failover(dead) ==
  /\ MayCommit
  /\ \E k \in DOMAIN committed, alive \in SUBSET (Brokers \ {dead}) :
       \E record \in FailoverOne(committed[k], dead, alive) : Submit(k, record)
  /\ UNCHANGED <<image, replica, log, produce>>

\* The leader drains for its shutdown, or an operator elects the preferred replica.
TransferLeader(l) ==
  /\ MayCommit
  /\ \E k \in DOMAIN committed :
       /\ l \in committed[k].isr \ {committed[k].leader}
       /\ Submit(k, Record(l, committed[k].epoch + 1, committed[k].isr))
  /\ UNCHANGED <<image, replica, log, produce>>

-----------------------------------------------------------------------------
(* A broker and its image.                                                 *)

\* Variant: the followers' progress outlives the leadership it was measured under.
InstallReplicationTargetKeepsProgress(b) ==
  /\ image[b] < Len(committed)
  /\ image' = [image EXCEPT ![b] = @ + 1]
  /\ UNCHANGED <<committed, replica, log, produce, raced>>

\* The broker applies the next record and installs its leader and epoch.  A new target waits
\* until the produces that hold the old one are acknowledged or time out, and forgets the
\* followers' progress.  A replica whose target is not its image's neither fetches nor
\* accepts a produce, so that until then the record is as good as not applied.
InstallReplicationTarget(b) ==
  LET next == committed[image[b] + 1]
      changed == Target(next) # TargetOf(b) IN
  /\ image[b] < Len(committed)
  /\ image' = [image EXCEPT ![b] = @ + 1]
  /\ stats' = [stats EXCEPT ![b] = IF changed THEN <<>> ELSE @]
  /\ UNCHANGED <<committed, isr, log, produce, raced>>

NewStats == [leo |-> 0, recent |-> TRUE]
StatsOf(s, f) == IF f \in DOMAIN s THEN s[f] ELSE NewStats

\* install_isr on the leader, the second half of a reconciliation.
InstallIsr(b) ==
  LET members == Image(b).isr IN
  /\ Image(b).leader = b
  /\ isr[b] # members \/ ~ (members \ {b} \subseteq DOMAIN stats[b])
  /\ isr' = [isr EXCEPT ![b] = members]
  /\ stats' = [stats EXCEPT ![b] = [f \in DOMAIN @ \cup (members \ {b}) |-> StatsOf(@, f)]]
  /\ UNCHANGED <<committed, image, log, produce, raced>>

\* A process that stops and starts again: the log stays, the rest is rebuilt.
Restart(b) ==
  /\ isr[b] # {} \/ DOMAIN stats[b] # {}
  /\ isr' = [isr EXCEPT ![b] = {}]
  /\ stats' = [stats EXCEPT ![b] = <<>>]
  /\ UNCHANGED <<committed, image, log, produced, acked, raced>>

-----------------------------------------------------------------------------
(* The leader.                                                             *)

\* compute_hw: a member without progress does not count.  Every change of the in-sync set,
\* of the progress or of the log ends with it, so that the high watermark is its value.
HighWatermark(b) ==
  Min({Len(log[b])} \cup {stats[b][f].leo : f \in isr[b] \cap DOMAIN stats[b]})

\* The leader has installed its image, what an acks=all produce checks under the lock on
\* the target.
Installed(b) == Image(b).leader = b /\ isr[b] = Image(b).isr

Produce(b) ==
  LET r == [offset |-> Len(log[b]) + 1, epoch |-> TargetOf(b).epoch] IN
  /\ produced < MaxValue
  /\ Installed(b)
  /\ Cardinality(isr[b]) >= MinInsync
  /\ log' = [log EXCEPT ![b] = Append(@, r)]
  /\ produced' = produced + 1
  /\ UNCHANGED <<committed, image, replica, acked, raced>>

\* The replicas the controller counts as in sync under b.
Admitted(b) == UNION {committed[k].isr : k \in {i \in image[b] .. Len(committed) :
                                                 Target(committed[i]) = TargetOf(b)}}

\* await_hw_at_least: the high watermark passed the record, for the produce that appended it
\* or for a retry that found it in the log.  (Between the two halves of a reconciliation
\* with the same target a produce is acknowledged as it was before them.)
Acknowledge(b, r) ==
  /\ r \notin acked
  /\ Installed(b)
  /\ HighWatermark(b) >= r.offset
  /\ acked' = acked \cup {r}
  /\ raced' = raced \cup
       {race \in {"unseeded", "uninstalled"} :
          IF race = "unseeded" THEN ~ (isr[b] \ {b} \subseteq DOMAIN stats[b])
                               ELSE ~ (Admitted(b) \subseteq isr[b])}
  /\ UNCHANGED <<committed, image, replica, log, produced>>

\* compute_proposal drops the members that stopped fetching and adds the replicas that were
\* caught up of late; handle_partition of AlterPartition fences the epoch and submits.  The
\* request in between may be slow: by the time it commits, a replica that was caught up may
\* have fallen behind, and a member of the old set may be out of the new one.
AlterPartition(b) ==
  /\ MayCommit
  /\ TargetOf(b).leader = b
  /\ \E silent \in SUBSET (isr[b] \cap DOMAIN stats[b]),
        caughtUp \in SUBSET {f \in DOMAIN stats[b] \ isr[b] : stats[b][f].recent},
        k \in DOMAIN committed :
       LET members == (isr[b] \ silent) \cup caughtUp IN
       /\ members \notin {isr[b], {}}
       /\ committed[k].epoch = TargetOf(b).epoch
       /\ committed' = Append(committed, [committed[k] EXCEPT !.isr = members])
       /\ stats' = [stats EXCEPT ![b] = [f \in DOMAIN @ |->
                      [leo |-> @[f].leo, recent |-> @[f].recent /\ f \notin silent]]]
       /\ raced' = raced \cup
            {race \in {"overtaking", "lagging"} :
               IF race = "overtaking" THEN k < Len(committed)
               ELSE \E f \in members \ (committed[k].isr \cup {b}) :
                      f \in DOMAIN stats[b] => stats[b][f].leo < Len(log[b])}
  /\ UNCHANGED <<image, isr, log, produce>>

-----------------------------------------------------------------------------
(* A follower.  A round trip of its fetch loop is one step: the loop has   *)
(* one request out, nothing else changes the follower's log while it has,  *)
(* and an answer that finds another target is dropped.  The leader checks  *)
(* the epochs, notes the progress and reads its log one after the other;   *)
(* while it leads, its log only grows, and a read that comes later is the  *)
(* next round trip's.  FetchLate is for the leader that no longer leads.   *)

\* update_follower_leo.
UpdateFollowerLeo(s, f, leo, leaderLeo) ==
  [x \in DOMAIN s \cup {f} |->
     IF x # f THEN s[x]
     ELSE [leo |-> Min({leo, leaderLeo}), recent |-> StatsOf(s, f).recent \/ leo >= leaderLeo]]

\* Variant: the epochs of the two logs are compared by their ends alone.
DivergesByLength(l, f) ==
  LatestEpoch(f) # NoEpoch /\ EpochAndOffsetFor(l, LatestEpoch(f)).end < Len(log[f])

\* apply_epoch_checks, past the comparison of the two targets' epochs.
Diverges(l, f) ==
  LET found == EpochAndOffsetFor(l, LatestEpoch(f)) IN
  LatestEpoch(f) # NoEpoch /\ (found.epoch < LatestEpoch(f) \/ found.end < Len(log[f]))

TruncateTo(f, end) == log' = [log EXCEPT ![f] = SubSeq(@, 1, Min({end, Len(@)}))]

\* The leader is at a later epoch: handle_epoch_fence asks it where the follower's ended.
FetchFenced(f) ==
  LET l == TargetOf(f).leader
      end == EndOffsetForEpoch(l, TargetOf(f).epoch) IN
  /\ l # f
  /\ TargetOf(f).epoch < TargetOf(l).epoch
  /\ TruncateTo(f, IF end = UndefinedOffset THEN 0 ELSE end)
  /\ Race("reset", end = UndefinedOffset)
  /\ UNCHANGED <<committed, image, replica, produce>>

FetchDiverging(f) ==
  LET l == TargetOf(f).leader IN
  /\ l # f
  /\ TargetOf(f).epoch = TargetOf(l).epoch
  /\ Diverges(l, f)
  /\ TruncateTo(f, EpochAndOffsetFor(l, LatestEpoch(f)).end)
  /\ UNCHANGED <<committed, image, replica, produce, raced>>

\* The leader serves the next records, or none arrive.
FetchRecords(f) ==
  LET l == TargetOf(f).leader IN
  /\ l # f
  /\ TargetOf(f).epoch = TargetOf(l).epoch
  /\ ~ Diverges(l, f)
  /\ stats' = [stats EXCEPT ![l] = UpdateFollowerLeo(@, f, Len(log[f]), Len(log[l]))]
  /\ \E end \in Len(log[f]) .. Len(log[l]) :
       log' = [log EXCEPT ![f] = @ \o SubSeq(log[l], Len(@) + 1, end)]
  /\ UNCHANGED <<committed, image, isr, produce, raced>>

\* The leader let the request pass and then installed a later epoch: plan_partition_read
\* notes the progress before that or after it, and do_read finds the log as it is by then,
\* maybe shorter.  Which requests were let pass is not recorded; any follower that is still
\* at the old epoch may have sent one.
FetchLate(f) ==
  LET l == TargetOf(f).leader IN
  /\ l # f
  /\ TargetOf(f).epoch < TargetOf(l).epoch
  /\ stats' \in {stats, [stats EXCEPT ![l] = UpdateFollowerLeo(@, f, Len(log[f]), Len(log[l]))]}
  /\ \/ UNCHANGED log
     \/ \E end \in Len(log[f]) + 1 .. Len(log[l]) :
          log' = [log EXCEPT ![f] = @ \o SubSeq(log[l], Len(@) + 1, end)]
  /\ Race("late", TRUE)
  /\ UNCHANGED <<committed, image, isr, produce>>

-----------------------------------------------------------------------------
\* The partition was just created and its leader l has reconciled it.
Init ==
  \E l \in Brokers :
    /\ committed = <<Record(l, 0, Brokers)>>
    /\ image = [b \in Brokers |-> 1]
    /\ isr = [b \in Brokers |-> IF b = l THEN Brokers ELSE {}]
    /\ stats = [b \in Brokers |-> IF b = l THEN [f \in Brokers \ {l} |-> NewStats] ELSE <<>>]
    /\ log = [b \in Brokers |-> <<>>]
    /\ produced = 0
    /\ acked = {}
    /\ raced = {}

Next ==
  \E b \in Brokers :
    \/ Failover(b) \/ TransferLeader(b) \/ AlterPartition(b)
    \/ InstallReplicationTarget(b) \/ InstallIsr(b) \/ Restart(b)
    \/ Produce(b)
    \/ \E r \in Range(log[b]) : Acknowledge(b, r)
    \/ FetchFenced(b) \/ FetchDiverging(b) \/ FetchRecords(b) \/ FetchLate(b)

Spec == Init /\ [][Next]_vars

-----------------------------------------------------------------------------
PartitionRecord == [leader: Brokers, epoch: 0 .. MaxChange, isr: SUBSET Brokers]
LogRecord == [offset: 1 .. MaxValue, epoch: 0 .. MaxChange]
FollowerStats == [leo: Nat, recent: BOOLEAN]

\* Every variable has the type the code gives it; the progress a leader records of a
\* follower (FollowerStats) never passes the leader's own log end.
TypeOK ==
  /\ committed \in Seq(PartitionRecord)
  /\ image \in [Brokers -> 1 .. Len(committed)]
  /\ isr \in [Brokers -> SUBSET Brokers]
  /\ stats \in [Brokers -> Range(stats)]
  /\ \A b \in Brokers : DOMAIN stats[b] \subseteq Brokers /\ stats[b] \in [DOMAIN stats[b] -> FollowerStats]
  /\ log \in [Brokers -> Seq(LogRecord)]
  /\ acked \subseteq LogRecord
  /\ raced \subseteq AllRaces
  /\ \A b \in Brokers : TargetOf(b).leader = b =>
       \A f \in DOMAIN stats[b] : stats[b][f].leo \in 0 .. Len(log[b])

\* Until one of the races happens, every member of the committed in-sync set, and so every
\* leader failover_one may elect, holds every record acknowledged to a producer.
AckedOnEveryIsrMember == raced = {} => \A r \in acked : \A b \in Current.isr : Holds(b, r)

\* An acknowledged record is on every leader elected from the in-sync set
\* (leader_election.rs: "so it holds every committed record. No data loss").
AckedRecordsSurvive == Current.leader \in Current.isr => \A r \in acked : Holds(Current.leader, r)


-----------------------------------------------------------------------------
(* Why AckedOnEveryIsrMember holds: an invariant that is inductive.         *)

EpochOf(b) == Image(b).epoch
Leading(b) == Image(b).leader = b
Members(k) == committed[k].isr \cup {committed[k].leader}

\* Two logs have the same first n records.
Agree(x, y, n) == n <= Len(log[x]) /\ n <= Len(log[y]) /\ \A i \in 1 .. n : log[x][i] = log[y][i]

\* An epoch rises with every change of the leader and only then.
EpochsInOrder ==
  \A j, k \in DOMAIN committed : j <= k =>
    /\ committed[j].epoch <= committed[k].epoch
    /\ committed[j].epoch = committed[k].epoch => committed[j].leader = committed[k].leader

\* A log is ordered by epoch and holds nothing of an epoch its broker has not reached.
LogsInOrder ==
  \A b \in Brokers : \A i \in DOMAIN log[b] :
    /\ log[b][i].epoch <= EpochOf(b)
    /\ \A j \in i .. Len(log[b]) : log[b][i].epoch <= log[b][j].epoch

\* The records of an epoch come from its leader, which reached that epoch first.
EpochsAreLed ==
  \A b \in Brokers, k \in DOMAIN committed : \A i \in DOMAIN log[b] :
    log[b][i].epoch = committed[k].epoch => EpochOf(committed[k].leader) >= committed[k].epoch

\* While it leads, the leader has all records of its epoch.
LeaderHasEpoch ==
  \A l, b \in Brokers : Leading(l) =>
    \A i \in DOMAIN log[b] : log[b][i].epoch = EpochOf(l) => i <= Len(log[l]) /\ log[l][i] = log[b][i]

\* Two logs with records of one epoch agree up to the first of them that ends with it.
LogMatching ==
  \A x, y \in Brokers : \A i \in DOMAIN log[x], j \in DOMAIN log[y] :
    i <= j /\ log[x][i].epoch = log[y][j].epoch => Agree(x, y, i)

\* What a leader knows of a follower's log is so until the follower leaves the epoch.
ProgressIsTrue ==
  \A l \in Brokers : Leading(l) =>
    \A f \in DOMAIN stats[l] : stats[l][f].leo > 0 =>
      /\ EpochOf(f) >= EpochOf(l)
      /\ EpochOf(f) = EpochOf(l) => Agree(l, f, stats[l][f].leo)

\* The m-th record is the last of its epoch so far.
Ends(m) == \A k \in DOMAIN committed : k > m => committed[k].epoch > committed[m].epoch

\* Later records name no broker from outside the last in-sync set of an epoch until one of
\* that set has left the epoch, as a leader of a later one.
InsyncInherited ==
  \A m \in DOMAIN committed :
    Ends(m) /\ (\A x \in committed[m].isr : EpochOf(x) <= committed[m].epoch) =>
      \A k \in DOMAIN committed : k > m => Members(k) \subseteq committed[m].isr

\* Those of the last in-sync set of l's epoch that have left it had the first n records of l.
LeftWith(l, m, n) ==
  \A x \in committed[m].isr \ {l} :
    EpochOf(x) > EpochOf(l) => x \in DOMAIN stats[l] /\ stats[l][x].leo >= n

\* A record with which they left is on every later member that has reached a later epoch.
\* So it is when the leader, however stale, finds it replicated and acknowledges it.
CarriedOn ==
  \A l \in Brokers, m \in DOMAIN committed :
    Leading(l) /\ committed[m].epoch = EpochOf(l) /\ Ends(m) =>
      \A n \in DOMAIN log[l] : LeftWith(l, m, n) =>
        \A k \in m .. Len(committed) : \A x \in Members(k) :
          IF EpochOf(x) > EpochOf(l) THEN Holds(x, log[l][n]) ELSE x \in committed[m].isr \cup {l}

\* From the m-th record on, every member has reached its epoch and holds r.
Secured(r, m) ==
  /\ r.epoch <= committed[m].epoch
  /\ \A k \in m .. Len(committed) : \A x \in Members(k) :
       EpochOf(x) >= committed[m].epoch /\ Holds(x, r)

AckedIsSecured == \A r \in acked : \E m \in DOMAIN committed : Secured(r, m)

RaceFree ==
  /\ EpochsInOrder /\ LogsInOrder /\ EpochsAreLed /\ LeaderHasEpoch /\ LogMatching
  /\ ProgressIsTrue /\ InsyncInherited /\ CarriedOn /\ AckedIsSecured

\* What holds whatever races: a record is at its offset, no log is longer than what was
\* produced, and epochs rise by at most one with each record.
Bounds ==
  /\ Len(committed) >= 1 /\ produced \in 0 .. MaxValue
  /\ \A k \in DOMAIN committed : committed[k].epoch < k /\ (k = 1 \/ k <= MaxChange)
  /\ \A b \in Brokers : Len(log[b]) <= produced /\ \A i \in DOMAIN log[b] : log[b][i].offset = i

SafetyInv == TypeOK /\ Bounds /\ (raced = {} => RaceFree)

=============================================================================

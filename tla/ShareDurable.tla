---------------------------- MODULE ShareDurable ----------------------------
(***************************************************************************)
(* A share partition across leaders: the cells that brokers keep of it     *)
(* (SharePartitionLeaderManager), the durable state that the share         *)
(* coordinator keeps of it (share_coordinator/state.rs, coordinator.rs),   *)
(* and the way between them.  Leadership of the data partition moves,      *)
(* brokers learn of it late and crash, a load reads the coordinator's      *)
(* state in one step and installs the cell in another, and writes are      *)
(* fenced, lost, applied with the answer lost, or applied in the           *)
(* coordinator's memory and not appended to its log.                       *)
(*                                                                         *)
(* The log holds MaxOffset data records from the start.  The durable state *)
(* is initialised and its state epoch does not change: resets and deletes  *)
(* of a group's offsets are not modelled.  Reads of the data log do not    *)
(* fail (SharePartition has them fail).                                    *)
(***************************************************************************)
EXTENDS AcquisitionState, FiniteSets

CONSTANTS
  Broker, Member,
  None,          \* no cell, no load under way
  Host,          \* the broker that leads the partition of __share_group_state
  MaxOffset,     \* records in the log
  MaxEpoch,      \* bound: leader epochs of the data partition
  MaxCrashes,    \* bound: crashes of brokers
  MaxFailures,   \* bound: loads and writes that fail
  AckRequests,   \* acknowledgements: [first, last, type]
  FetchSizes     \* record budgets of fetches

ASSUME DurableAssumption ==
  /\ Nobody \notin Member /\ Host \in Broker /\ MaxOffset \in Nat
  /\ MaxEpoch \in Nat \ {0} /\ MaxCrashes \in Nat /\ MaxFailures \in Nat

VARIABLES
  leaderOf,   \* the leader of each epoch so far, as a sequence
  view,       \* the epoch each broker's metadata image shows
  cells,      \* each broker's cell: an AcquisitionState and its leader_epoch
  loading,    \* each broker's cell read from the coordinator and not yet installed
  durable,    \* the coordinator's state: leader_epoch, start_offset, counter, batches
  stored,     \* what a replay of the coordinator's log yields
  crashes, failures,
  settled,    \* history: offsets a member accepted or rejected
  handed      \* history: how often each offset was handed out, up to MaxAttempts

vars == <<leaderOf, view, cells, loading, durable, stored, crashes, failures, settled, handed>>
history == <<settled, handed>>

Offsets == 0 .. MaxOffset - 1
Log == [i \in 1 .. MaxOffset |-> "data"]
StateEpoch == 1   \* the state_epoch of the durable state

Init ==
  /\ leaderOf \in {<<b>> : b \in Broker}
  /\ view = [b \in Broker |-> 1]
  /\ cells = [b \in Broker |-> None]
  /\ loading = [b \in Broker |-> None]
  /\ durable = [epoch |-> 0, start |-> 0, done |-> 0, batches |-> << >>]
  /\ stored = durable
  /\ crashes = 0 /\ failures = 0
  /\ settled = {} /\ handed = [o \in Offsets |-> 0]

-----------------------------------------------------------------------------
(* The coordinator.                                                          *)

MergeBatches(batches, start, written) ==
  LET Upsert(acc, w) ==
        IF w.last < start THEN acc
        ELSE Append(SelectSeq(acc, LAMBDA b : b.first # w.first), w)
      live == SelectSeq(batches, LAMBDA b : b.last >= start)
  IN SortSeq(FoldLeft(Upsert, live, written), LAMBDA a, b : a.first < b.first)

ApplyUpdate(d, c, written) ==
  LET newStart == Max({d.start, c.start}) IN
  [epoch |-> c.epoch, start |-> newStart, done |-> c.done,
   batches |-> MergeBatches(d.batches, newStart, written)]

\* write refuses a state epoch or a leader epoch below the recorded one.
Fenced(c) == c.stateEpoch < StateEpoch \/ c.epoch < durable.epoch

\* Variant: an acquired batch is stored as acquired.
ToPersistVerbatim(c) ==
  MapBatches(c.batches, LAMBDA b :
    [first |-> b.first, last |-> b.last, count |-> b.count, state |-> b.state])

ToPersistBatches(c) ==
  MapBatches(c.batches, LAMBDA b :
    [first |-> b.first, last |-> b.last, count |-> b.count,
     state |-> IF b.state = "Acquired" THEN "Available" ELSE b.state])

-----------------------------------------------------------------------------
(* A leader's cell.                                                          *)

Leads(b) == leaderOf[view[b]] = b

\* The cell of a state that was read; a remote read leaves the counter at 0.
LoadFrom(d, epoch, done) ==
  [epoch |-> epoch, stateEpoch |-> StateEpoch, dirty |-> FALSE, done |-> done,
   start |-> d.start,
   end |-> Max({d.start} \cup {d.batches[i].last + 1 : i \in DOMAIN d.batches}),
   batches |-> Coalesce(MapBatches(d.batches, LAMBDA s :
     [Available(s.first, s.last, s.count) EXCEPT !.state = s.state]))]

EmptyWindow(epoch) ==
  [epoch |-> epoch, stateEpoch |-> 0, dirty |-> FALSE, done |-> 0,
   start |-> 0, end |-> 0, batches |-> << >>]

\* get_or_load on a miss: the state is read with no lock held.  An error, and for a
\* remote read an error code, yields an empty window at offset 0 and state epoch 0.
\* The leader epoch is the image's; the code takes the local partition's, which may lag.
ReadState(b) ==
  /\ Leads(b) /\ cells[b] = None /\ loading[b] = None
  /\ \/ /\ loading' = [loading EXCEPT ![b] =
             LoadFrom(durable, view[b], IF b = Host THEN durable.done ELSE 0)]
        /\ UNCHANGED failures
     \/ /\ failures < MaxFailures
        /\ failures' = failures + 1
        /\ loading' = [loading EXCEPT ![b] = EmptyWindow(view[b])]
  /\ UNCHANGED <<leaderOf, view, cells, durable, stored, crashes, history>>

\* The cell is installed, whatever has happened since the read.
Install(b) ==
  /\ loading[b] # None
  /\ cells' = [cells EXCEPT ![b] = loading[b]]
  /\ loading' = [loading EXCEPT ![b] = None]
  /\ UNCHANGED <<leaderOf, view, durable, stored, crashes, failures, history>>

\* What the coordinator's write makes of its memory and its log: the update changes the
\* memory, then it is appended to the log, and now and then a snapshot of the memory after it.
Applied(c) ==
  LET written == ToPersistBatches(c)
      memory == ApplyUpdate(durable, c, written)
  IN [unlogged |-> <<memory, stored>>,
      logged |-> {<<memory, memory>>, <<memory, ApplyUpdate(stored, c, written)>>}]

Unchanged == <<durable, stored>>
Outcome(w, ok, failed) == [durable |-> w[1], stored |-> w[2], ok |-> ok, failed |-> failed]

\* Variant: the local call's error is discarded too.
WriteOutcomesUnchecked(b, c) ==
  LET applied == Applied(c) IN
  IF Fenced(c) THEN {Outcome(Unchanged, TRUE, 0)}
  ELSE {Outcome(w, TRUE, 0) : w \in applied.logged}
       \cup {Outcome(w, TRUE, 1) : w \in {Unchanged, applied.unlogged}}

\* write_state: what the write of c makes of the coordinator's state, whether the leader
\* takes it as done, and whether it cost one of the failures.  The answer to a remote
\* write is discarded, its error code with it: only a call that fails is an error.
WriteOutcomes(b, c) ==
  LET remote == b # Host
      applied == Applied(c) IN
  IF Fenced(c)
  THEN {Outcome(Unchanged, remote, 0), Outcome(Unchanged, FALSE, 1)}
  ELSE {Outcome(w, TRUE, 0) : w \in applied.logged}
       \cup {Outcome(w, FALSE, 1) : w \in applied.logged}
       \cup {Outcome(w, ok, 1) : w \in {Unchanged, applied.unlogged}, ok \in {FALSE, remote}}

\* persist_if_dirty on the new value c of b's cell.
PersistIfDirty(b, c) ==
  \/ /\ ~c.dirty
     /\ cells' = [cells EXCEPT ![b] = c]
     /\ UNCHANGED <<durable, stored, failures>>
  \/ /\ c.dirty
     /\ \E out \in WriteOutcomes(b, c) :
          /\ failures + out.failed <= MaxFailures
          /\ failures' = failures + out.failed
          /\ durable' = out.durable
          /\ stored' = out.stored
          /\ cells' = [cells EXCEPT ![b] = [c EXCEPT !.dirty = ~out.ok]]

ShareFetch(b, m, max) ==
  LET pass == AcquirePass(cells[b], m, max, Log) IN
  /\ Leads(b) /\ cells[b] # None
  /\ PersistIfDirty(b, pass.cell)
  /\ handed' = [o \in Offsets |->
       IF o \in pass.got /\ handed[o] < MaxAttempts THEN handed[o] + 1 ELSE handed[o]]
  /\ UNCHANGED <<leaderOf, view, loading, crashes, settled>>

ShareAcknowledge(b, m, ack) ==
  LET holds == RangeAcquiredBy(cells[b], m, ack.first, ack.last)
      range == IF holds THEN ack.first .. ack.last ELSE {}
  IN /\ Leads(b) /\ cells[b] # None
     /\ PersistIfDirty(b, Acknowledge(cells[b], m, ack.first, ack.last, ack.type))
     /\ settled' = IF ack.type = "Release" THEN settled ELSE settled \cup range
     /\ UNCHANGED <<leaderOf, view, loading, crashes, handed>>

\* The sweeper and the release of sessions visit every loaded cell, led or not.  Time is
\* left out: the locks of any of the members may have expired when the sweeper runs.
Sweep(b) ==
  /\ cells[b] # None
  /\ \E late \in SUBSET Member :
       PersistIfDirty(b, GiveBack(cells[b], {x \in Range(cells[b].batches) : x.by \in late}))
  /\ UNCHANGED <<leaderOf, view, loading, crashes, settled, handed>>

ReleaseSession(b, m) ==
  /\ cells[b] # None
  /\ PersistIfDirty(b, ReleaseMember(cells[b], m))
  /\ UNCHANGED <<leaderOf, view, loading, crashes, settled, handed>>

-----------------------------------------------------------------------------
(* The cluster around it.                                                    *)

\* The controller moves the leadership of the data partition, to whichever broker.
MoveLeader(b) ==
  /\ Len(leaderOf) < MaxEpoch /\ b # Last(leaderOf)
  /\ leaderOf' = Append(leaderOf, b)
  /\ UNCHANGED <<view, cells, loading, durable, stored, crashes, failures, history>>

\* The metadata of a leadership change reaches a broker.  Its cells stay as they are.
LearnLeader(b) ==
  /\ view[b] < Len(leaderOf)
  /\ view' = [view EXCEPT ![b] = @ + 1]
  /\ UNCHANGED <<leaderOf, cells, loading, durable, stored, crashes, failures, history>>

\* The end of a process.  The coordinator's broker comes back with what its log holds.
Crash(b) ==
  /\ crashes < MaxCrashes
  /\ crashes' = crashes + 1
  /\ cells' = [cells EXCEPT ![b] = None]
  /\ loading' = [loading EXCEPT ![b] = None]
  /\ durable' = IF b = Host THEN stored ELSE durable
  /\ UNCHANGED <<leaderOf, view, stored, failures, history>>

Next ==
  \E b \in Broker :
    \/ ReadState(b) \/ Install(b) \/ Sweep(b)
    \/ MoveLeader(b) \/ LearnLeader(b) \/ Crash(b)
    \/ \E m \in Member :
         \/ \E max \in FetchSizes : ShareFetch(b, m, max)
         \/ \E ack \in AckRequests : ShareAcknowledge(b, m, ack)
         \/ ReleaseSession(b, m)

Spec == Init /\ [][Next]_vars

-----------------------------------------------------------------------------
Stored == [first : Offsets, last : Offsets, count : 0 .. MaxAttempts,
           state : {"Available"} \cup Terminal]

\* The durable state names offsets of the log and no lock: an acquired record is stored
\* as available.
TypeOK ==
  /\ view \in [Broker -> DOMAIN leaderOf]
  /\ \A d \in {durable, stored} :
       /\ d.epoch \in 0 .. Len(leaderOf) /\ d.start \in 0 .. MaxOffset
       /\ Range(d.batches) \subseteq Stored
  /\ settled \subseteq Offsets
  /\ handed \in [Offsets -> 0 .. MaxAttempts]

\* No record is skipped: the start offset, of the coordinator or of any leader's cell, passes only
\* records that a member accepted or rejected, or that were handed out as often as allowed,
\* whatever brokers crash, lag, reload or write over each other.
NoRecordSkipped ==
  LET passed == 0 .. Max({durable.start, stored.start}) - 1 \cup
                UNION {0 .. cells[b].start - 1 : b \in {x \in Broker : cells[x] # None}}
  IN \A o \in passed : o \in settled \/ handed[o] = MaxAttempts

\* persist_if_dirty: "Clear dirty only on a durable write".  Stated of the start offset, and
\* of the broker that hosts the coordinator: even when its cell is stale and its writes are
\* fenced, a clean cell is durable.
LocalCleanIsDurable ==
  cells[Host] # None /\ ~cells[Host].dirty => durable.start >= cells[Host].start

=============================================================================

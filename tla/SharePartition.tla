--------------------------- MODULE SharePartition ---------------------------
(***************************************************************************)
(* One share partition on its leader: the cell that                        *)
(* SharePartitionLeaderManager keeps for it (share_partition/manager.rs)   *)
(* and everything that locks it, in any order: ShareFetch and              *)
(* ShareAcknowledge requests of the group's members, the release of a      *)
(* closed session, the lock sweeper.  The cell's mutex makes each of them  *)
(* one step.  Time passes in ticks.                                        *)
(***************************************************************************)
EXTENDS AcquisitionState, FiniteSets

CONSTANTS
  Member,       \* the members of the share group
  MaxOffset,    \* bound: records in the log
  MaxOverdue,   \* bound: ticks by which the sweeper may be late for a lock
  AckRequests,  \* the acknowledgements of a ShareAcknowledge: [acks, renew]
  FetchRequests \* those a ShareFetch carries, and its max_records: [acks, renew, max]

ASSUME PartitionAssumption ==
  /\ Nobody \notin Member /\ MaxOffset \in Nat /\ MaxOverdue \in Nat

VARIABLES
  cell,   \* the AcquisitionState of the partition
  log     \* the kinds of the records below the fetch bound (HWM, or LSO)

vars == <<cell, log>>

Offsets == 0 .. MaxOffset - 1

Init ==
  /\ cell = NewWindow(0)
  /\ log = << >>

\* persist_if_dirty: the write of a dirty cell succeeds, or fails and is retried later.
PersistIfDirty(c) == cell' \in {c} \cup {[c EXCEPT !.dirty = FALSE]}

Produce(kind) ==
  /\ Len(log) < MaxOffset
  /\ log' = Append(log, kind)
  /\ UNCHANGED cell

Acked(m, req) == ApplyAcks(cell, m, req.acks, req.renew)

\* A ShareFetch: the acknowledgements it carries, then an acquire pass, whose records
\* are sent.
ShareFetch(m, req) ==
  LET pass == AcquirePass(Acked(m, req), m, req.max, log) IN
  /\ PersistIfDirty(pass.cell)
  /\ UNCHANGED log

\* The same when reading the acquired records fails: they stay acquired, nothing is
\* sent, and the handler returns before it persists.
ShareFetchReadFails(m, req) ==
  LET pass == AcquirePass(Acked(m, req), m, req.max, log) IN
  /\ pass.got # {}
  /\ cell' = pass.cell
  /\ UNCHANGED log

\* The same when the scan for control batches fails: the window has grown, its markers
\* are not archived, nothing is acquired or persisted.
ShareFetchScanFails(m, req) ==
  /\ cell' = Materialize(ExpireLocks(Acked(m, req)), Len(log))
  /\ UNCHANGED log

\* The same when the partition is no longer open on this broker.
ShareFetchPartitionLost(m, req) ==
  /\ PersistIfDirty(ExpireLocks(Acked(m, req)))
  /\ UNCHANGED log

\* A ShareAcknowledge, or a ShareFetch row that is no longer in the session.
ShareAcknowledge(m, req) ==
  /\ PersistIfDirty(Acked(m, req))
  /\ UNCHANGED log

\* The session of m is closed or opened anew, or its connection ends.
ReleaseSession(m) ==
  /\ PersistIfDirty(ReleaseMember(cell, m))
  /\ UNCHANGED log

\* Variant: the sweeper only retries writes.
SweepPersistsOnly ==
  /\ PersistIfDirty(cell)
  /\ UNCHANGED log

Sweep ==
  /\ PersistIfDirty(ExpireLocks(cell))
  /\ UNCHANGED log

Tick ==
  LET Pass(b) == IF b.state = "Acquired" THEN [b EXCEPT !.lock = @ - 1] ELSE b IN
  /\ \A i \in DOMAIN cell.batches : cell.batches[i].lock > -MaxOverdue
  /\ cell' = [cell EXCEPT !.batches = MapBatches(@, Pass)]
  /\ UNCHANGED log

Request(m) ==
  \/ \E req \in FetchRequests : \/ ShareFetch(m, req)
                               \/ ShareFetchReadFails(m, req)
                               \/ ShareFetchScanFails(m, req)
                               \/ ShareFetchPartitionLost(m, req)
  \/ \E req \in AckRequests : ShareAcknowledge(m, req)

Next ==
  \/ \E kind \in {"data", "control"} : Produce(kind)
  \/ \E m \in Member : Request(m) \/ ReleaseSession(m)
  \/ Sweep
  \/ Tick

\* The clock advances and the sweeper's interval task keeps running.
Fairness == WF_vars(Tick) /\ WF_vars(Sweep)

Spec == Init /\ [][Next]_vars /\ Fairness

-----------------------------------------------------------------------------
BatchType ==
  [first : Offsets, last : Offsets,
   state : {"Available", "Acquired", "Acknowledged", "Archived"},
   count : 0 .. MaxAttempts, by : Member \cup {Nobody},
   lock : -MaxOverdue .. LockDuration \cup {NoLock}]

\* The window lies below the fetch bound and each batch keeps its bookkeeping: a count
\* within the delivery limit, and an owner and a lock exactly while it is acquired.
TypeOK ==
  /\ log \in Seq({"data", "control"}) /\ Len(log) <= MaxOffset
  /\ cell.start \in 0 .. cell.end /\ cell.end \in 0 .. Len(log)
  /\ cell.dirty \in BOOLEAN /\ cell.done \in -CounterMax - 1 .. CounterMax
  /\ \A i \in DOMAIN cell.batches :
       LET b == cell.batches[i] IN
       /\ b \in BatchType
       /\ (b.state = "Acquired") = (b.by # Nobody)
       /\ (b.state = "Acquired") = (b.lock # NoLock)

Covering(o) == {i \in DOMAIN cell.batches : o \in cell.batches[i].first .. cell.batches[i].last}

BatchOf(o) == cell.batches[CHOOSE i \in Covering(o) : TRUE]

Holds(m, o) == \E i \in Covering(o) : cell.batches[i].by = m

\* The batches are sorted, do not overlap, leave no gap and cover exactly the window,
\* however requests split and merge them: window_integrity of state_model.rs.
WindowIntegrity ==
  /\ \A o \in Offsets : Cardinality(Covering(o)) = IF o \in cell.start .. cell.end - 1 THEN 1 ELSE 0
  /\ \A i \in DOMAIN cell.batches :
       i > 1 => cell.batches[i - 1].last + 1 = cell.batches[i].first

\* delivery_complete_count is the number of offsets that are below the start offset or
\* terminal in the window: each is counted once, though four paths count and the scan for
\* markers visits a marker on every fetch until the start offset passes it.
CompletionsCountedOnce ==
  cell.done = cell.start + Cardinality({o \in cell.start .. cell.end - 1 : BatchOf(o).state \in Terminal})

\* A transaction marker is never handed to a member, though the window holds it as an
\* available record when the scan that should archive it has failed.
MarkersNeverDelivered ==
  \A o \in Offsets, m \in Member : Holds(m, o) => log[o + 1] = "data"

\* A record that a member holds under a lock that has not expired does not pass to another
\* member in one step: not by a fetch, a sweep or another member's acknowledgement.
LocksHonoured ==
  [][\A o \in Offsets, m \in Member :
       Holds(m, o) /\ BatchOf(o).lock > 0 =>
         \A other \in Member \ {m} : ~Holds(other, o)']_vars

\* The records of a member that falls silent come back to the group: unless it sends
\* requests for ever, every lock it holds is eventually gone, by the sweeper alone.
SilentMembersLoseLocks ==
  \A m \in Member, o \in Offsets :
    []<><<Request(m)>>_vars \/ (Holds(m, o) ~> ~Holds(m, o))

-----------------------------------------------------------------------------
\* The record of an offset, as the batch list tells it.
RecordOf(o) ==
  IF o < cell.start \/ (Covering(o) # {} /\ BatchOf(o).state \in Terminal)
  THEN [state |-> "done", by |-> Nobody, count |-> 0]
  ELSE IF Covering(o) = {} THEN [state |-> "new", by |-> Nobody, count |-> 0]
  ELSE [state |-> IF BatchOf(o).state = "Acquired" THEN "acquired" ELSE "available",
        by |-> BatchOf(o).by, count |-> BatchOf(o).count]

Records == INSTANCE ShareRecords WITH
  Offset <- Offsets, record <- [o \in Offsets |-> RecordOf(o)]

\* The batch list implements the record-by-record promise: every handler, whatever it
\* splits, merges or drops, moves each record only as ShareRecords allows.
RefinesRecords == Records!Spec

=============================================================================

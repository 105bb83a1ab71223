-------------------------- MODULE AcquisitionState --------------------------
(***************************************************************************)
(* The acquisition state machine of one share partition, as operators on   *)
(* its value: crates/broker/src/share_partition/state.rs, and the use the  *)
(* ShareFetch and ShareAcknowledge handlers make of it while they hold the *)
(* lock of its cell.                                                       *)
(*                                                                         *)
(* The window [start, end) of live offsets is a sequence of batches, runs  *)
(* of offsets in one delivery state.  A batch's lock field is the time     *)
(* left until lock_deadline, at or below zero once the lock has expired.   *)
(***************************************************************************)
EXTENDS Integers, SequencesExt

CONSTANTS
  Nobody,         \* acquired_by of a batch that no member holds
  MaxAttempts,    \* max_delivery_attempts
  MaxInflight,    \* max_inflight_records
  LockDuration,   \* record_lock_duration, in ticks
  CounterMax      \* the largest value of the i32 delivery_complete_count

ASSUME AcquisitionAssumption ==
  /\ MaxAttempts \in Nat \ {0} /\ MaxInflight \in Nat \ {0}
  /\ LockDuration \in Nat \ {0} /\ CounterMax \in Nat \ {0}

NoLock == LockDuration + 1   \* lock of a batch that no member holds

Terminal == {"Acknowledged", "Archived"}

Available(first, last, count) ==
  [first |-> first, last |-> last, state |-> "Available", count |-> count,
   by |-> Nobody, lock |-> NoLock]

Size(b) == b.last - b.first + 1

\* Variant: the owner is not cleared.
UnlockedOwned(b, state) == [b EXCEPT !.state = state, !.lock = NoLock]

Unlocked(b, state) == [b EXCEPT !.state = state, !.by = Nobody, !.lock = NoLock]

NewWindow(start) ==
  [start |-> start, end |-> start, dirty |-> FALSE, done |-> 0, batches |-> << >>]

\* delivery_complete_count + n, which wraps around in a release build.
Completed(c, n) ==
  IF c.done + n > CounterMax THEN c.done + n - 2 * (CounterMax + 1) ELSE c.done + n

\* The same with saturating_add.
CompletedSaturating(c, n) == IF c.done + n > CounterMax THEN CounterMax ELSE c.done + n

-----------------------------------------------------------------------------
(* The shape of the batch list.                                              *)

MapBatches(batches, Op(_)) ==
  LET Step(mapped, b) == Append(mapped, Op(b)) IN FoldLeft(Step, << >>, batches)

\* Variant: the head keeps the offset of the split.
SplitAfterOffset(batches, offset) ==
  LET hit == {i \in DOMAIN batches : batches[i].first < offset /\ offset <= batches[i].last}
      i == Min(hit)
  IN IF hit = {} THEN batches
     ELSE InsertAt([batches EXCEPT ![i].last = offset], i + 1,
                   [batches[i] EXCEPT !.first = offset])

SplitAtOffset(batches, offset) ==
  LET hit == {i \in DOMAIN batches : batches[i].first < offset /\ offset <= batches[i].last}
      i == Min(hit)
  IN IF hit = {} THEN batches
     ELSE InsertAt([batches EXCEPT ![i].last = offset - 1], i + 1,
                   [batches[i] EXCEPT !.first = offset])

Mergeable(a, b) ==
  /\ a.last + 1 = b.first
  /\ a.state = b.state /\ a.count = b.count /\ a.by = b.by /\ a.lock = b.lock

Coalesce(batches) ==
  LET Merge(merged, b) ==
        IF merged # << >> /\ Mergeable(Last(merged), b)
        THEN [merged EXCEPT ![Len(merged)].last = b.last]
        ELSE Append(merged, b)
  IN FoldLeft(Merge, << >>, batches)

\* Variant: terminal batches behind one that is not are dropped too.
AdvanceSpsoPast(c) ==
  LET Drop(acc, b) ==
        IF b.state \in Terminal THEN [acc EXCEPT !.start = b.last + 1]
        ELSE [acc EXCEPT !.kept = Append(@, b)]
      left == FoldLeft(Drop, [start |-> c.start, kept |-> << >>], c.batches)
  IN [c EXCEPT !.start = left.start, !.end = Max({c.end, left.start}),
               !.batches = Coalesce(left.kept)]

\* Drops the batches of the terminal prefix, then coalesces.
AdvanceSpso(c) ==
  LET Drop(acc, b) ==
        IF acc.kept = << >> /\ b.first = acc.start /\ b.state \in Terminal
        THEN [acc EXCEPT !.start = b.last + 1]
        ELSE [acc EXCEPT !.kept = Append(@, b)]
      left == FoldLeft(Drop, [start |-> c.start, kept |-> << >>], c.batches)
  IN [c EXCEPT !.start = left.start, !.end = Max({c.end, left.start}),
               !.batches = Coalesce(left.kept)]

-----------------------------------------------------------------------------
(* Filling the window.                                                       *)

Materialize(c, upper) ==
  LET last == Min({upper - 1, c.end + MaxInflight - 1}) IN
  IF c.end >= upper \/ \E i \in DOMAIN c.batches : c.batches[i].state = "Available"
  THEN c
  ELSE [c EXCEPT !.batches = Coalesce(Append(@, Available(c.end, last, 0))),
                 !.end = last + 1]

\* Variant: an offset that is terminal already is archived again.
Overlapping(b, first, last) == b.last >= first /\ b.first <= last

Archivable(b, first, last) == b.last >= first /\ b.first <= last /\ b.state \notin Terminal

\* Archives the offsets of a transaction marker.
ArchiveInternal(c, first, last) ==
  LET split == SplitAtOffset(SplitAtOffset(c.batches, first), last + 1)
      Hit(b) == Archivable(b, first, last)
      Archive(acc, b) ==
        IF Hit(b)
        THEN [acc EXCEPT !.done = CompletedSaturating(acc, Size(b)), !.dirty = TRUE,
                         !.batches = Append(@, Unlocked(b, "Archived"))]
        ELSE [acc EXCEPT !.batches = Append(@, b)]
      after == FoldLeft(Archive, [c EXCEPT !.batches = << >>], split)
  IN IF \E i \in DOMAIN split : Hit(split[i]) THEN AdvanceSpso(after)
     ELSE [c EXCEPT !.batches = split]

-----------------------------------------------------------------------------
(* Handing records out and taking verdicts.                                  *)

Acquired(b, member) ==
  [b EXCEPT !.state = "Acquired", !.count = @ + 1, !.by = member, !.lock = LockDuration]

\* The walk of acquire: the cell it leaves and, in got, the offsets handed out.
Acquire(c, member, maxRecords) ==
  LET Step(acc, b) ==
        LET over == Size(b) > acc.budget
            head == IF over THEN [b EXCEPT !.last = b.first + acc.budget - 1] ELSE b
            tail == IF over THEN <<[b EXCEPT !.first = head.last + 1]>> ELSE << >>
        IN IF acc.budget = 0 \/ b.state # "Available"
           THEN [acc EXCEPT !.c.batches = Append(@, b)]
           ELSE IF b.count >= MaxAttempts
           THEN [acc EXCEPT !.c.batches = Append(@, Unlocked(b, "Archived")),
                            !.c.done = Completed(acc.c, Size(b)), !.c.dirty = TRUE]
           ELSE [acc EXCEPT !.c.batches = @ \o <<Acquired(head, member)>> \o tail,
                            !.c.dirty = TRUE, !.budget = @ - Size(head),
                            !.got = @ \cup (head.first .. head.last)]
      walk == FoldLeft(Step, [c |-> [c EXCEPT !.batches = << >>, !.dirty = FALSE],
                              budget |-> maxRecords, got |-> {}], c.batches)
  IN [cell |-> IF walk.c.dirty THEN AdvanceSpso(walk.c) ELSE c, got |-> walk.got]

\* Variant: acquired by any member.
RangeAcquired(c, member, first, last) ==
  LET Scan(acc, b) ==
        IF ~acc.ok \/ acc.cursor > last \/ b.last < first \/ b.first > last THEN acc
        ELSE [ok |-> b.first <= acc.cursor /\ b.state = "Acquired", cursor |-> b.last + 1]
      scan == FoldLeft(Scan, [ok |-> TRUE, cursor |-> first], c.batches)
  IN scan.ok /\ scan.cursor > last

\* Each offset of [first, last] is acquired by member, as the scan of the list sees it.
RangeAcquiredBy(c, member, first, last) ==
  LET Scan(acc, b) ==
        IF ~acc.ok \/ acc.cursor > last \/ b.last < first \/ b.first > last THEN acc
        ELSE [ok |-> b.first <= acc.cursor /\ b.state = "Acquired" /\ b.by = member,
              cursor |-> b.last + 1]
      scan == FoldLeft(Scan, [ok |-> TRUE, cursor |-> first], c.batches)
  IN scan.ok /\ scan.cursor > last

\* What an acknowledgement makes of a batch inside the acknowledged range.
Verdict(ack) ==
  CASE ack = "Accept"  -> "Acknowledged"
    [] ack = "Release" -> "Available"
    [] OTHER           -> "Archived"     \* Reject, Gap

InRange(b, first, last) == b.first >= first /\ b.last <= last /\ b.state = "Acquired"

Acknowledge(c, member, first, last, ack) ==
  LET Apply(acc, b) ==
        IF InRange(b, first, last)
        THEN [acc EXCEPT !.batches = Append(@, Unlocked(b, Verdict(ack))),
                         !.done = IF ack = "Release" THEN @ ELSE Completed(acc, Size(b))]
        ELSE [acc EXCEPT !.batches = Append(@, b)]
  IN IF first > last \/ ~RangeAcquiredBy(c, member, first, last) THEN c
     ELSE AdvanceSpso(FoldLeft(Apply, [c EXCEPT !.batches = << >>, !.dirty = TRUE],
                               SplitAtOffset(SplitAtOffset(c.batches, first), last + 1)))

Renew(c, member, first, last) ==
  LET Extend(b) == IF InRange(b, first, last) THEN [b EXCEPT !.lock = LockDuration] ELSE b
  IN IF first > last \/ ~RangeAcquiredBy(c, member, first, last) THEN c
     ELSE [c EXCEPT !.dirty = TRUE,
                    !.batches = MapBatches(SplitAtOffset(SplitAtOffset(@, first), last + 1),
                                           Extend)]

\* Makes the acquired ones of the batches in lost available again, with their count.
GiveBack(c, lost) ==
  LET Hit(b) == b.state = "Acquired" /\ b \in lost
      Free(b) == IF Hit(b) THEN Unlocked(b, "Available") ELSE b
  IN IF \E b \in Range(c.batches) : Hit(b)
     THEN [c EXCEPT !.dirty = TRUE, !.batches = Coalesce(MapBatches(@, Free))]
     ELSE c

\* Variant: the deadline is not compared with the time.
ExpireAnyLock(c) == GiveBack(c, Range(c.batches))

ExpireLocks(c) == GiveBack(c, {b \in Range(c.batches) : b.lock <= 0})

ReleaseMember(c, member) == GiveBack(c, {b \in Range(c.batches) : b.by = member})

-----------------------------------------------------------------------------
(* What a handler does to the cell it has locked.  A request carries         *)
(* acknowledgement batches [first, last, types]; renew says that they only   *)
(* extend locks; maxRecords is its record budget.                            *)

\* The maximal runs of one type in the per-offset list of an acknowledgement batch.
AckRuns(first, types) ==
  LET Extend(runs, i) ==
        IF runs # << >> /\ Last(runs).type = types[i]
        THEN [runs EXCEPT ![Len(runs)].last = @ + 1]
        ELSE Append(runs, [first |-> first + i - 1, last |-> first + i - 1, type |-> types[i]])
  IN FoldLeft(Extend, << >>, [i \in DOMAIN types |-> i])

\* "Unknown" is a code that AckType::from_i8 rejects.
ApplyRun(c, member, run) ==
  IF run.type = "Unknown" THEN c ELSE Acknowledge(c, member, run.first, run.last, run.type)

ApplyOneAck(c, member, a) ==
  LET whole(type) == [first |-> a.first, last |-> a.last, type |-> type]
      Apply(acc, run) == ApplyRun(acc, member, run)
  IN CASE Len(a.types) = 0 -> ApplyRun(c, member, whole("Accept"))
       [] Len(a.types) = 1 -> ApplyRun(c, member, whole(a.types[1]))
       [] Len(a.types) > 1 /\ Len(a.types) # a.last - a.first + 1 -> c
       [] OTHER -> FoldLeft(Apply, c, AckRuns(a.first, a.types))

ApplyAcks(c, member, acks, renew) ==
  LET Apply(acc, a) == IF renew THEN Renew(acc, member, a.first, a.last)
                       ELSE ApplyOneAck(acc, member, a)
  IN FoldLeft(Apply, c, acks)

\* The offsets of transaction markers in the window, archived one batch at a time.
ArchiveControl(c, log) ==
  LET control == {o \in c.start .. c.end - 1 : log[o + 1] = "control"}
      Archive(acc, o) == ArchiveInternal(acc, o, o)
  IN FoldLeft(Archive, c, SetToSortSeq(control, <))

\* Variant: the markers are archived before the window grows.
AcquirePassArchiveFirst(c, member, maxRecords, log) ==
  Acquire(Materialize(ArchiveControl(ExpireLocks(c), log), Len(log)), member, maxRecords)

\* One acquire pass over a partition whose records below the fetch bound are log,
\* after the acknowledgements: expire, materialize, archive markers, acquire.
AcquirePass(c, member, maxRecords, log) ==
  Acquire(ArchiveControl(Materialize(ExpireLocks(c), Len(log)), log), member, maxRecords)

=============================================================================

---------------------------- MODULE ShareRecords ----------------------------
(***************************************************************************)
(* What a share partition promises, record by record, whatever the leader  *)
(* keeps its state in (KIP-932, and the crate's own contract in the header *)
(* of crates/broker/src/share_partition/state.rs).                         *)
(*                                                                         *)
(* A record is new until it enters the window; available; acquired by one  *)
(* member; and done once it is acknowledged or archived.  count is the     *)
(* number of times it has been handed out.                                 *)
(***************************************************************************)
EXTENDS Integers

CONSTANTS Offset, Member, Nobody, MaxAttempts

ASSUME RecordsAssumption ==
  /\ Offset \subseteq Nat /\ Nobody \notin Member /\ MaxAttempts \in Nat \ {0}

VARIABLE record

New    == [state |-> "new", by |-> Nobody, count |-> 0]
Done   == [state |-> "done", by |-> Nobody, count |-> 0]
Free(r) == [state |-> "available", by |-> Nobody, count |-> r.count]
HeldBy(r, m) == r.state = "acquired" /\ r.by = m
Hand(r, m) == [state |-> "acquired", by |-> m, count |-> r.count + 1]

Init == record = [o \in Offset |-> New]

\* Only a record never handed out, or handed out as often as allowed, is given up
\* without a verdict of the member that holds it.
MayGiveUp(r) == r.count = 0 \/ r.count >= MaxAttempts

\* Variant: a verdict without the lock is taken of a record that is done.
SettledUnchecked(r, m) == IF r.state = "done" \/ HeldBy(r, m) THEN {r, Free(r), Done} ELSE {r}

\* Variant: the attempts are not counted against the limit.
FetchedUnlimited(r, m) ==
  {r} \cup (IF r.state \in {"new", "acquired"} THEN {Free(r)} ELSE {})
      \cup (IF r.state # "done" /\ (MayGiveUp(r) \/ HeldBy(r, m)) THEN {Done} ELSE {})
      \cup (IF r.state # "done" /\ r.count <= MaxAttempts THEN {Hand(r, m)} ELSE {})

\* What a fetch by m may make of a record: it enters the window, loses an expired
\* lock, receives m's verdict, is given up, or is handed to m.
Fetched(r, m) ==
  {r} \cup (IF r.state \in {"new", "acquired"} THEN {Free(r)} ELSE {})
      \cup (IF r.state # "done" /\ (MayGiveUp(r) \/ HeldBy(r, m)) THEN {Done} ELSE {})
      \cup (IF r.state # "done" /\ r.count < MaxAttempts THEN {Hand(r, m)} ELSE {})

\* What a verdict of m may make of a record: nothing unless m holds it.
Settled(r, m) == IF HeldBy(r, m) THEN {r, Free(r), Done} ELSE {r}

Handed(o) == record'[o].state = "acquired" /\ record'[o].count > record[o].count

\* Records enter the window in the order of the log, and a fetch hands out the lowest
\* available ones.
Fetch(m) ==
  /\ record' \in [Offset -> UNION {Fetched(record[o], m) : o \in Offset}]
  /\ \A o \in Offset : record'[o] \in Fetched(record[o], m)
  /\ \A o, p \in Offset : o < p /\ record'[p].state # "new" => record'[o].state # "new"
  /\ \A o, p \in Offset : o < p /\ Handed(p) => record'[o].state # "available"

Settle(m) ==
  /\ record' \in [Offset -> UNION {Settled(record[o], m) : o \in Offset}]
  /\ \A o \in Offset : record'[o] \in Settled(record[o], m)

Lapse == \E lost \in SUBSET {o \in Offset : record[o].state = "acquired"} :
  record' = [o \in Offset |-> IF o \in lost THEN Free(record[o]) ELSE record[o]]

Next == Lapse \/ \E m \in Member : Fetch(m) \/ Settle(m)

Spec == Init /\ [][Next]_record

-----------------------------------------------------------------------------
Record ==
  {r \in [state : {"new", "available", "acquired", "done"}, by : Member \cup {Nobody},
           count : 0 .. MaxAttempts] :
     /\ (r.state = "acquired") = (r.by # Nobody)
     /\ r.state \in {"new", "done"} => r.count = 0}

\* No record is handed out more often than max_delivery_attempts, and a record has an
\* owner exactly while it is acquired.
TypeOK == record \in [Offset -> Record]

\* A record that is acknowledged or archived stays so, whatever late verdicts, lapses and
\* fetches follow.
DoneForever ==
  [][\A o \in Offset : record[o].state = "done" => record'[o] = record[o]]_record

=============================================================================

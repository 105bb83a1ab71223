------------------------- MODULE ShareRecordsProofs -------------------------
(***************************************************************************)
(* The promise of a share partition keeps its own invariants for every set *)
(* of offsets, members and every delivery limit.                           *)
(***************************************************************************)
EXTENDS ShareRecords, TLAPS

USE DEF Record, New, Done, Free, Hand, HeldBy, MayGiveUp

\* What one record may become in a fetch: a record again, and done if it was done.
LEMMA FetchedRecord ==
  ASSUME NEW r \in Record, NEW m \in Member, NEW s \in Fetched(r, m)
  PROVE  /\ s \in Record
         /\ r.state = "done" => s = r
<1>1. CASE s = r
  BY <1>1
<1>2. CASE r.state \in {"new", "acquired"} /\ s = Free(r)
  BY <1>2, RecordsAssumption
<1>3. CASE r.state # "done" /\ s = Done
  BY <1>3, RecordsAssumption
<1>4. CASE r.state # "done" /\ r.count < MaxAttempts /\ s = Hand(r, m)
  BY <1>4, RecordsAssumption
<1>. QED
  BY <1>1, <1>2, <1>3, <1>4 DEF Fetched

\* The same of a verdict.
LEMMA SettledRecord ==
  ASSUME NEW r \in Record, NEW m \in Member, NEW s \in Settled(r, m)
  PROVE  /\ s \in Record
         /\ r.state = "done" => s = r
<1>1. CASE s = r
  BY <1>1
<1>2. CASE r.state = "acquired" /\ s = Free(r)
  BY <1>2, RecordsAssumption
<1>3. CASE r.state = "acquired" /\ s = Done
  BY <1>3, RecordsAssumption
<1>. QED
  BY <1>1, <1>2, <1>3 DEF Settled

\* The same of a lapse, for a record that is acquired.
LEMMA FreedRecord ==
  ASSUME NEW r \in Record, r.state = "acquired"
  PROVE  Free(r) \in Record /\ Free(r).state = "available"
BY RecordsAssumption

\* What a step does to each record, whichever action it is.
LEMMA StepRecord ==
  ASSUME TypeOK, Next
  PROVE  /\ TypeOK'
         /\ \A o \in Offset : record[o].state = "done" => record'[o] = record[o]
<1>1. CASE Lapse
  <2>1. PICK lost \in SUBSET {o \in Offset : record[o].state = "acquired"} :
          record' = [o \in Offset |-> IF o \in lost THEN Free(record[o]) ELSE record[o]]
    BY <1>1 DEF Lapse
  <2>2. ASSUME NEW o \in Offset
        PROVE  /\ record'[o] \in Record
               /\ record[o].state = "done" => record'[o] = record[o]
    <3>1. record[o] \in Record
      BY DEF TypeOK
    <3>2. CASE o \in lost
      <4>1. record'[o] = Free(record[o]) /\ record[o].state = "acquired"
        BY <2>1, <3>2 DEF Free
      <4>. QED
        BY <3>1, <4>1, FreedRecord
    <3>3. CASE o \notin lost
      BY <2>1, <3>1, <3>3
    <3>. QED
      BY <3>2, <3>3
  <2>. QED
    BY <2>1, <2>2 DEF TypeOK
<1>2. ASSUME NEW m \in Member, Fetch(m)
      PROVE  /\ TypeOK'
             /\ \A o \in Offset : record[o].state = "done" => record'[o] = record[o]
  <2>1. ASSUME NEW o \in Offset
        PROVE  /\ record'[o] \in Record
               /\ record[o].state = "done" => record'[o] = record[o]
    <3>1. record[o] \in Record /\ record'[o] \in Fetched(record[o], m)
      BY <1>2 DEF TypeOK, Fetch
    <3>. QED
      BY <3>1, FetchedRecord
  <2>2. record' = [o \in Offset |-> record'[o]]
    BY <1>2 DEF Fetch
  <2>. QED
    BY <2>1, <2>2 DEF TypeOK
<1>3. ASSUME NEW m \in Member, Settle(m)
      PROVE  /\ TypeOK'
             /\ \A o \in Offset : record[o].state = "done" => record'[o] = record[o]
  <2>1. ASSUME NEW o \in Offset
        PROVE  /\ record'[o] \in Record
               /\ record[o].state = "done" => record'[o] = record[o]
    <3>1. record[o] \in Record /\ record'[o] \in Settled(record[o], m)
      BY <1>3 DEF TypeOK, Settle
    <3>. QED
      BY <3>1, SettledRecord
  <2>2. record' = [o \in Offset |-> record'[o]]
    BY <1>3 DEF Settle
  <2>. QED
    BY <2>1, <2>2 DEF TypeOK
<1>. QED
  BY <1>1, <1>2, <1>3 DEF Next

-----------------------------------------------------------------------------
\* acquire never hands a record out more than max_delivery_attempts times, and a record
\* has an owner exactly while it is acquired.
THEOREM TypeCorrect == Spec => []TypeOK
<1>1. Init => TypeOK
  BY RecordsAssumption DEF Init, TypeOK
<1>2. TypeOK /\ [Next]_record => TypeOK'
  BY StepRecord DEF TypeOK
<1>. QED
  BY <1>1, <1>2, PTL DEF Spec

\* An acknowledged or archived record stays so: no late verdict, lapse or fetch brings it
\* back.
THEOREM DoneForeverAlways == Spec => DoneForever
<1>1. TypeOK /\ [Next]_record =>
        [\A o \in Offset : record[o].state = "done" => record'[o] = record[o]]_record
  BY StepRecord
<1>. QED
  BY <1>1, TypeCorrect, PTL DEF Spec, DoneForever

=============================================================================

--------------------------- MODULE PartitionTypes ---------------------------
(***************************************************************************)
(* PartitionReplication, first part of the proofs: what the log operators  *)
(* compute, what each step does to the variables, and type correctness for *)
(* any replicas and any bounds.                                            *)
(***************************************************************************)
EXTENDS PartitionReplication, WellFoundedInduction, TLAPS

USE SMTT(120)

-----------------------------------------------------------------------------
(* What Min and Max of FiniteSetsExt name, for sets of natural numbers.    *)

\* How numbers compare, in the form in which first-order steps use it.
LEMMA AtLeastPositive == \A a, b \in Nat : a > 0 /\ b >= a => b > 0
  OBVIOUS

LEMMA NotAbove == \A a, b \in Nat : ~(a > b) => a <= b
  OBVIOUS

LEMMA AboveOrEqual == \A a, b \in Nat : a >= b => a > b \/ a = b
  OBVIOUS

LEMMA AboveAtLeast == \A a, b, c \in Nat : a > b /\ b >= c => a >= c /\ a # c /\ ~(c >= a)
  OBVIOUS

LEMMA AboveStays == \A a, b, c \in Nat : a > b /\ a <= c => c > b
  OBVIOUS

LEMMA AtMostSelf == \A a \in Nat : a <= a /\ a >= a /\ ~(a > a)
  OBVIOUS

LEMMA UpTo ==
  \A n, k \in Nat : n <= k => (n > 0 => n \in 1 .. k) /\ \A i \in 1 .. n : i \in 1 .. k
  OBVIOUS

LEMMA WithinLength == \A k, n \in Nat : k <= n => \A i \in 1 .. k : i \in Nat /\ i <= n
  OBVIOUS

\* A non-empty set of naturals has a smallest element, and Min names it.
LEMMA MinOfNaturals ==
  ASSUME NEW S \in SUBSET Nat, S # {}
  PROVE  Min(S) \in S /\ \A y \in S : Min(S) <= y
<1>1. PICK x \in S : \A y \in S : <<y, x>> \notin OpToRel(<, Nat)
  BY WFMin, NatLessThanWellFounded, ZenonT(120)
<1>2. \A y \in S : ~(y < x)
  BY <1>1, ZenonT(120) DEF OpToRel
<1>3. \A y \in S : x <= y
  BY <1>2
<1>4. QED
  BY <1>3, ZenonT(120) DEF Min

\* A non-empty set of naturals with an upper bound has a greatest element, and
\* Max names it.
LEMMA MaxOfBounded ==
  ASSUME NEW b \in Nat, NEW S \in SUBSET (0..b), S # {}
  PROVE  Max(S) \in S /\ \A y \in S : Max(S) >= y
<1> DEFINE T == {b - x : x \in S}
<1>1. T \subseteq Nat
  OBVIOUS
<1>2. T # {}
  BY ZenonT(120)
<1>3. Min(T) \in T /\ \A y \in T : Min(T) <= y
  BY <1>1, <1>2, MinOfNaturals, ZenonT(120)
<1>4. PICK x \in S : Min(T) = b - x
  BY <1>3, ZenonT(120)
<1>5. \A y \in S : x >= y
  BY <1>3, <1>4
<1>6. QED
  BY <1>5, ZenonT(120) DEF Max

\* Of two naturals Min names the smaller.
LEMMA MinOfTwo ==
  ASSUME NEW a \in Nat, NEW b \in Nat
  PROVE  Min({a, b}) = IF a <= b THEN a ELSE b
<1> DEFINE S == {a, b}
<1>0. S \in SUBSET Nat /\ S # {}
  OBVIOUS
<1>1. Min(S) \in S /\ \A y \in S : Min(S) <= y
  BY <1>0, MinOfNaturals, ZenonT(120)
<1>2. QED
  BY <1>1

-----------------------------------------------------------------------------
(* The log operators.                                                      *)

\* A log is a sequence of records, and its epochs are bounded.
LEMMA LogType ==
  ASSUME TypeOK, NEW b \in Brokers
  PROVE  /\ log[b] \in Seq(LogRecord) /\ Len(log[b]) \in Nat /\ DOMAIN log[b] = 1 .. Len(log[b])
         /\ \A i \in DOMAIN log[b] : log[b][i].epoch \in 0 .. MaxChange /\ log[b][i].epoch \in Nat
         /\ Epochs(b) \in SUBSET (0 .. MaxChange)
         /\ log[b] # << >> <=> Len(log[b]) > 0
<1>1. log[b] \in Seq(LogRecord)
  BY DEF TypeOK
<1>2. \A i \in DOMAIN log[b] : log[b][i] \in LogRecord
  BY <1>1
<1>3. \A i \in DOMAIN log[b] : log[b][i].epoch \in 0 .. MaxChange
  BY <1>2 DEF LogRecord
<1>4. QED
  BY <1>1, <1>3 DEF Epochs

\* The latest epoch of a log is that of its last record.
LEMMA LatestIsLast ==
  ASSUME TypeOK, LogsInOrder, NEW b \in Brokers, log[b] # << >>
  PROVE  LatestEpoch(b) = log[b][Len(log[b])].epoch /\ LatestEpoch(b) \in Nat
<1> DEFINE n == Len(log[b])
           last == log[b][n].epoch
<1>1. n \in DOMAIN log[b] /\ last \in Epochs(b) /\ last \in Nat
  BY LogType DEF Epochs
<1>2. Max(Epochs(b)) \in Epochs(b) /\ \A y \in Epochs(b) : Max(Epochs(b)) >= y
  BY <1>1, LogType, MaxOfBounded, BoundAssumption, ZenonT(120)
<1>3. \A y \in Epochs(b) : y <= last /\ y \in Nat
  <2>1. \A i \in DOMAIN log[b] : log[b][i].epoch <= last /\ log[b][i].epoch \in Nat
    BY <1>1, LogType DEF LogsInOrder
  <2>2. QED
    BY <2>1, ZenonT(120) DEF Epochs
<1>4. Max(Epochs(b)) = last
  BY <1>1, <1>2, <1>3
<1>5. QED
  BY <1>1, <1>4 DEF LatestEpoch

\* Where the records after epoch e start in an ordered log.
LEMMA BoundaryAfter ==
  ASSUME TypeOK, LogsInOrder, NEW b \in Brokers, NEW e \in Nat, Later(b, e) # {}
  PROVE  LET s == StartOf(b, Min(Later(b, e))) IN
         /\ s \in 0 .. Len(log[b]) - 1
         /\ \A i \in 1 .. s : log[b][i].epoch <= e
         /\ \A i \in s + 1 .. Len(log[b]) : log[b][i].epoch > e
<1> DEFINE next == Min(Later(b, e))
           at == {i \in DOMAIN log[b] : log[b][i].epoch = next}
           first == Min(at)
           s == StartOf(b, next)
<1>1. Later(b, e) \in SUBSET Nat /\ Later(b, e) \subseteq Epochs(b)
  BY LogType DEF Later
<1>2. next \in Later(b, e) /\ \A y \in Later(b, e) : next <= y
  BY <1>1, MinOfNaturals, ZenonT(120)
<1>3. next \in Nat /\ next > e /\ next \in Epochs(b)
  BY <1>1, <1>2 DEF Later
<1> HIDE DEF next
<1>4. at \in SUBSET Nat /\ at # {}
  BY <1>3, LogType DEF Epochs
<1>5. first \in at /\ \A i \in at : first <= i
  BY <1>4, MinOfNaturals, ZenonT(120)
<1>6. s = first - 1
  BY DEF StartOf
<1> HIDE DEF s, first
<1>7. first \in Nat /\ first \in DOMAIN log[b] /\ log[b][first].epoch = next
  BY <1>4, <1>5
<1> HIDE DEF at
<1>8. s + 1 \in DOMAIN log[b] /\ log[b][s + 1].epoch = next /\ \A i \in at : s + 1 <= i
  <2>1. s + 1 = first
    BY <1>6, <1>7
  <2>2. QED
    BY <1>5, <1>7, <2>1
<1>9. s \in 0 .. Len(log[b]) - 1
  BY <1>6, <1>7, <1>8, LogType
<1>10. \A i \in s + 1 .. Len(log[b]) : log[b][i].epoch > e
  BY <1>3, <1>8, <1>9, LogType DEF LogsInOrder
<1>11. ASSUME NEW i \in 1 .. s PROVE log[b][i].epoch <= e
  <2>1. i \in DOMAIN log[b] /\ i < s + 1 /\ log[b][i].epoch \in Nat /\ log[b][i].epoch \in Epochs(b)
    BY <1>9, LogType DEF Epochs
  <2>2. log[b][i].epoch <= next
    BY <1>8, <1>9, <2>1, LogType DEF LogsInOrder
  <2>3. log[b][i].epoch # next
    BY <1>8, <1>9, <2>1 DEF at
  <2>4. log[b][i].epoch \notin Later(b, e)
    BY <1>2, <1>3, <2>1, <2>2, <2>3
  <2>5. QED
    BY <2>1, <2>4 DEF Later
<1>12. QED
  BY <1>9, <1>10, <1>11 DEF s, next

\* A log that holds a record of epoch e or below at o ends its answer about e at o or after.
LEMMA EndIsAfter ==
  ASSUME TypeOK, LogsInOrder, NEW b \in Brokers, NEW e \in Nat,
         NEW o \in DOMAIN log[b], log[b][o].epoch <= e
  PROVE  /\ EpochAndOffsetFor(b, e).end \in o .. Len(log[b])
         /\ EndOffsetForEpoch(b, e) \in (o .. Len(log[b])) \cup {UndefinedOffset}
<1>1. o \in 1 .. Len(log[b]) /\ Len(log[b]) \in Nat
  BY LogType
<1>2. CASE Later(b, e) = {}
  BY <1>1, <1>2 DEF EpochAndOffsetFor, EndOffsetForEpoch
<1>3. CASE Later(b, e) # {}
  <2> DEFINE s == StartOf(b, Min(Later(b, e)))
  <2>1. /\ s \in 0 .. Len(log[b]) - 1
        /\ \A i \in s + 1 .. Len(log[b]) : log[b][i].epoch > e
    BY <1>3, BoundaryAfter
  <2>2. s \in o .. Len(log[b])
    BY <1>1, <2>1, LogType
  <2>3. EndOffsetForEpoch(b, e) \in {s, UndefinedOffset}
    BY <1>3 DEF EndOffsetForEpoch
  <2>4. EpochAndOffsetFor(b, e).end \in {s, Len(log[b])}
    BY <1>3 DEF EpochAndOffsetFor
  <2> HIDE DEF s
  <2>5. QED
    BY <1>1, <2>2, <2>3, <2>4
<1>4. QED
  BY <1>2, <1>3

\* A follower that the leader's epochs do not contradict has a prefix of the leader's log.
LEMMA NotDiverging ==
  ASSUME TypeOK, LogsInOrder, LogMatching, NEW l \in Brokers, NEW f \in Brokers,
         ~Diverges(l, f)
  PROVE  log[f] = << >> \/ Agree(f, l, Len(log[f]))
<1> SUFFICES ASSUME log[f] # << >> PROVE Agree(f, l, Len(log[f]))
  OBVIOUS
<1> DEFINE e == LatestEpoch(f)
           n == Len(log[f])
           found == EpochAndOffsetFor(l, e)
<1>1. e \in Nat /\ n \in DOMAIN log[f] /\ n \in Nat /\ n > 0 /\ log[f][n].epoch = e
  BY LatestIsLast, LogType
<1>2. ~(found.epoch < e) /\ ~(found.end < n)
  BY <1>1 DEF Diverges, NoEpoch
<1>3. \A j \in DOMAIN log[l] : j >= n /\ log[l][j].epoch = e => Agree(f, l, n)
  BY <1>1, LogType DEF LogMatching
<1>4. CASE e = LatestEpoch(l)
  <2>1. found.end = Len(log[l])
    BY <1>4 DEF EpochAndOffsetFor
  <2>2. log[l] # << >>
    BY <1>1, <1>4 DEF LatestEpoch, NoEpoch
  <2>3. log[l][Len(log[l])].epoch = e /\ Len(log[l]) \in DOMAIN log[l] /\ Len(log[l]) \in Nat
    BY <1>4, <2>2, LatestIsLast, LogType
  <2>4. QED
    BY <1>1, <1>2, <1>3, <2>1, <2>3
<1>5. CASE e # LatestEpoch(l) /\ Later(l, e) = {}
  <2>1. found.epoch = NoEpoch
    BY <1>5 DEF EpochAndOffsetFor
  <2>2. QED
    BY <1>1, <1>2, <2>1 DEF NoEpoch
<1>6. CASE e # LatestEpoch(l) /\ Later(l, e) # {}
  <2> DEFINE s == StartOf(l, Min(Later(l, e)))
             floor == Epochs(l) \ Later(l, e)
  <2>1. /\ s \in 0 .. Len(log[l]) - 1
        /\ \A i \in 1 .. s : log[l][i].epoch <= e
        /\ \A i \in s + 1 .. Len(log[l]) : log[l][i].epoch > e
    BY <1>1, <1>6, BoundaryAfter
  <2>2. found.end = s /\ found.epoch = IF floor = {} THEN e ELSE Max(floor)
    BY <1>6 DEF EpochAndOffsetFor
  <2> HIDE DEF s
  <2>3. s \in DOMAIN log[l] /\ s >= n
    BY <1>1, <1>2, <2>1, <2>2, LogType
  <2>4. log[l][s].epoch \in floor
    BY <1>1, <2>1, <2>3, LogType DEF Later, Epochs
  <2>5. floor \in SUBSET (0 .. MaxChange) /\ floor # {}
    BY <2>4, LogType
  <2>6. Max(floor) \in floor /\ ~(Max(floor) < e)
    <3>1. Max(floor) \in floor
      BY <2>5, MaxOfBounded, BoundAssumption, ZenonT(120)
    <3>2. QED
      BY <1>2, <2>2, <2>5, <3>1, ZenonT(120)
  <2>7. Max(floor) = e /\ e \in Epochs(l)
    <3> DEFINE m == Max(floor)
    <3> HIDE DEF m
    <3>1. m \in Epochs(l) /\ ~(m > e) /\ ~(m < e) /\ m \in Nat
      BY <2>5, <2>6 DEF Later, m
    <3>2. QED
      BY <1>1, <3>1 DEF m
  <2>8. PICK j \in DOMAIN log[l] : log[l][j].epoch = e
    BY <2>7 DEF Epochs
  <2>9. log[l][s].epoch >= e
    <3>1. j \in DOMAIN log[l] /\ s \in j .. Len(log[l])
      <4>1. j \in Nat /\ j <= Len(log[l]) /\ Len(log[l]) \in Nat /\ s \in Nat /\ s <= Len(log[l])
        BY <2>1, LogType
      <4>2. ~(j >= s + 1)
        BY <1>1, <2>1, <2>8, <4>1
      <4>3. QED
        BY <4>1, <4>2
    <3>2. log[l][j].epoch <= log[l][s].epoch
      BY <3>1 DEF LogsInOrder
    <3>3. QED
      BY <1>1, <2>3, <2>8, <3>2, LogType
  <2>10. log[l][s].epoch = e
    BY <1>1, <2>1, <2>3, <2>9, LogType
  <2>11. QED
    BY <1>1, <1>3, <2>3, <2>10
<1>7. QED
  BY <1>4, <1>5, <1>6

-----------------------------------------------------------------------------
(* Types and bounds, whatever races.                                       *)

Typed == TypeOK /\ Bounds

StatsTyped ==
  /\ stats \in [Brokers -> Range(stats)]
  /\ \A b \in Brokers : DOMAIN stats[b] \subseteq Brokers /\ stats[b] \in [DOMAIN stats[b] -> FollowerStats]

\* The record a broker has installed.
LEMMA ImageType ==
  ASSUME TypeOK, NEW b \in Brokers
  PROVE  /\ Len(committed) \in Nat /\ DOMAIN committed = 1 .. Len(committed)
         /\ image[b] \in DOMAIN committed /\ image[b] \in Nat /\ Image(b) = committed[image[b]]
         /\ Image(b).leader \in Brokers /\ Image(b).isr \subseteq Brokers
         /\ EpochOf(b) = Image(b).epoch /\ EpochOf(b) \in Nat
         /\ TargetOf(b) = [leader |-> Image(b).leader, epoch |-> EpochOf(b)]
         /\ TargetOf(b).leader = Image(b).leader /\ TargetOf(b).epoch = EpochOf(b)
<1>1. committed \in Seq(PartitionRecord) /\ image[b] \in 1 .. Len(committed)
  BY DEF TypeOK
<1>2. committed[image[b]] \in PartitionRecord
  BY <1>1
<1>3. QED
  BY <1>1, <1>2, BoundAssumption DEF PartitionRecord, Image, EpochOf, TargetOf, Target

\* The records of the partition.
LEMMA CommittedType ==
  ASSUME TypeOK
  PROVE  /\ committed \in Seq(PartitionRecord)
         /\ Len(committed) \in Nat /\ DOMAIN committed = 1 .. Len(committed)
         /\ \A k \in DOMAIN committed :
              /\ committed[k] \in PartitionRecord
              /\ committed[k].leader \in Brokers /\ committed[k].isr \subseteq Brokers
              /\ committed[k].epoch \in Nat /\ committed[k].epoch \in 0 .. MaxChange
              /\ Members(k) \subseteq Brokers
<1>1. committed \in Seq(PartitionRecord)
  BY DEF TypeOK
<1>2. Len(committed) \in Nat /\ DOMAIN committed = 1 .. Len(committed)
  BY <1>1
<1>3. ASSUME NEW k \in DOMAIN committed PROVE committed[k] \in PartitionRecord
  BY <1>1
<1>4. QED
  BY <1>1, <1>2, <1>3, BoundAssumption DEF PartitionRecord, Members

\* The entries of a leader's bookkeeping.
LEMMA StatsType ==
  ASSUME StatsTyped, NEW b \in Brokers
  PROVE  /\ DOMAIN stats = Brokers /\ DOMAIN stats[b] \in SUBSET Brokers
         /\ stats[b] \in [DOMAIN stats[b] -> FollowerStats]
         /\ \A f \in DOMAIN stats[b] :
              stats[b][f] \in FollowerStats /\ stats[b][f].leo \in Nat /\ stats[b][f].recent \in BOOLEAN
BY DEF StatsTyped, FollowerStats

\* Replacing one broker's bookkeeping.
LEMMA StatsUpdated ==
  ASSUME StatsTyped, NEW b \in Brokers, NEW D \in SUBSET Brokers, NEW v \in [D -> FollowerStats],
         stats' = [stats EXCEPT ![b] = v]
  PROVE  StatsTyped' /\ stats'[b] = v /\ \A c \in Brokers \ {b} : stats'[c] = stats[c]
<1>1. DOMAIN stats = Brokers /\ DOMAIN stats' = Brokers /\ DOMAIN v = D
  BY DEF StatsTyped
<1>2. stats'[b] = v /\ \A c \in Brokers \ {b} : stats'[c] = stats[c]
  BY <1>1
<1>3. stats' \in [Brokers -> Range(stats')]
  BY <1>1, ZenonT(120) DEF Range
<1>4. ASSUME NEW c \in Brokers
      PROVE  DOMAIN stats'[c] \subseteq Brokers /\ stats'[c] \in [DOMAIN stats'[c] -> FollowerStats]
  BY <1>1, <1>2 DEF StatsTyped
<1>5. QED
  BY <1>2, <1>3, <1>4, ZenonT(120) DEF StatsTyped

\* Replacing one broker's log.
LEMMA LogUpdated ==
  ASSUME TypeOK, NEW b \in Brokers, NEW s \in Seq(LogRecord), log' = [log EXCEPT ![b] = s]
  PROVE  /\ log' \in [Brokers -> Seq(LogRecord)]
         /\ log'[b] = s /\ \A c \in Brokers \ {b} : log'[c] = log[c]
BY DEF TypeOK

\* A new record leaves the installed ones as they were.
LEMMA CommitKeepsImages ==
  ASSUME TypeOK, NEW record, committed' = Append(committed, record), image' = image
  PROVE  /\ Len(committed') = Len(committed) + 1 /\ committed'[Len(committed) + 1] = record
         /\ \A k \in DOMAIN committed : committed'[k] = committed[k]
         /\ DOMAIN committed' = 1 .. Len(committed) + 1
         /\ \A b \in Brokers : /\ Image(b)' = Image(b) /\ EpochOf(b)' = EpochOf(b)
                               /\ TargetOf(b)' = TargetOf(b) /\ (Leading(b)' <=> Leading(b))
<1>1. /\ Len(committed') = Len(committed) + 1 /\ committed'[Len(committed) + 1] = record
      /\ \A k \in DOMAIN committed : committed'[k] = committed[k]
      /\ DOMAIN committed' = 1 .. Len(committed) + 1
  BY CommittedType
<1>2. \A b \in Brokers : Image(b)' = Image(b)
  BY <1>1, ImageType DEF Image
<1>3. QED
  BY <1>1, <1>2 DEF EpochOf, TargetOf, Leading

\* What the three actions that commit a record have in common: it is computed from the k-th
\* by an election, by dropping members or by the leader b, whose newcomers have caught up.
SameProgress ==
  \A b \in Brokers :
    DOMAIN stats'[b] = DOMAIN stats[b] /\ \A f \in DOMAIN stats[b] : stats'[b][f].leo = stats[b][f].leo

Elects(k, record) ==
  /\ record.epoch = committed[k].epoch + 1
  /\ record.leader \in committed[k].isr /\ record.isr \subseteq committed[k].isr

Shrinks(k, record) ==
  /\ record.epoch = committed[k].epoch /\ record.leader = committed[k].leader
  /\ record.isr \subseteq committed[k].isr

Alters(k, record, b) ==
  /\ record.epoch = committed[k].epoch /\ record.leader = committed[k].leader
  /\ Leading(b) /\ EpochOf(b) = committed[k].epoch
  /\ \A f \in record.isr \ (committed[k].isr \cup {b}) :
       "lagging" \notin raced' => f \in DOMAIN stats[b] /\ ~(stats[b][f].leo < Len(log[b]))

Commits(k, record) ==
  /\ MayCommit /\ k \in DOMAIN committed /\ record \in [leader: Brokers, epoch: Nat, isr: SUBSET Brokers]
  /\ committed' = Append(committed, record)
  /\ UNCHANGED <<image, isr, log, produced, acked>>
  /\ raced \subseteq raced' /\ raced' \subseteq AllRaces
  /\ k < Len(committed) => "overtaking" \in raced'
  /\ StatsTyped' /\ SameProgress
  /\ Elects(k, record) \/ Shrinks(k, record) \/ \E b \in Brokers : Alters(k, record, b)

\* A commit keeps types and bounds.
LEMMA CommitTyped ==
  ASSUME Typed, NEW record, NEW k, Commits(k, record)
  PROVE  Typed'
<1> USE DEF Typed
<1>1. /\ Len(committed') = Len(committed) + 1 /\ committed'[Len(committed) + 1] = record
      /\ \A i \in DOMAIN committed : committed'[i] = committed[i]
      /\ DOMAIN committed' = 1 .. Len(committed) + 1
      /\ \A b \in Brokers : TargetOf(b)' = TargetOf(b)
  BY CommitKeepsImages DEF Commits
<1>2. /\ k \in Nat /\ k <= Len(committed) /\ committed[k].epoch \in Nat /\ committed[k].epoch < k
      /\ Len(committed) \in Nat /\ Len(committed) < MaxChange
  BY CommittedType DEF Bounds, MayCommit, Commits
<1>3. record.epoch < Len(committed) + 1 /\ record.epoch \in 0 .. MaxChange
  <2>1. record.epoch \in {committed[k].epoch, committed[k].epoch + 1} /\ record.epoch \in Nat
    BY DEF Commits, Elects, Shrinks, Alters
  <2>2. QED
    BY <1>2, <2>1, BoundAssumption
<1>4. record \in PartitionRecord
  BY <1>3 DEF PartitionRecord, Commits
<1>5. committed' \in Seq(PartitionRecord)
  BY <1>4, CommittedType DEF Commits
<1>6. image' \in [Brokers -> 1 .. Len(committed')]
  BY <1>1, CommittedType DEF TypeOK, Commits
<1>7. \A b \in Brokers : TargetOf(b)'.leader = b =>
        \A f \in DOMAIN stats'[b] : stats'[b][f].leo \in 0 .. Len(log'[b])
  BY <1>1, ZenonT(120) DEF TypeOK, Commits, SameProgress
<1>8. TypeOK'
  BY <1>5, <1>6, <1>7 DEF TypeOK, StatsTyped, Commits
<1>9. Bounds'
  <2>1. \A i \in DOMAIN committed' : committed'[i].epoch < i /\ (i = 1 \/ i <= MaxChange)
    <3>1. ASSUME NEW i \in DOMAIN committed PROVE committed'[i].epoch < i /\ (i = 1 \/ i <= MaxChange)
      BY <1>1 DEF Bounds
    <3>2. committed'[Len(committed) + 1].epoch < Len(committed) + 1 /\ Len(committed) + 1 <= MaxChange
      BY <1>1, <1>2, <1>3, BoundAssumption
    <3>3. QED
      BY <1>1, <1>2, <3>1, <3>2, CommittedType
  <2>2. QED
    BY <1>1, <1>2, <2>1 DEF Bounds, Commits
<1>10. QED
  BY <1>8, <1>9

\* failover_one elects a live member of the in-sync set or drops the dead ones.
LEMMA FailoverCommits ==
  ASSUME Typed, NEW dead \in Brokers, Failover(dead)
  PROVE  \E k \in DOMAIN committed : \E record : Commits(k, record)
<1>1. PICK k \in DOMAIN committed, alive \in SUBSET (Brokers \ {dead}) :
        \E record \in FailoverOne(committed[k], dead, alive) : Submit(k, record)
  BY DEF Failover
<1>2. PICK record \in FailoverOne(committed[k], dead, alive) : Submit(k, record)
  BY <1>1
<1>3. committed[k].leader \in Brokers /\ committed[k].isr \subseteq Brokers /\ committed[k].epoch \in Nat
  BY CommittedType DEF Typed
<1>4. /\ record \in [leader: Brokers, epoch: Nat, isr: SUBSET Brokers]
      /\ Elects(k, record) \/ Shrinks(k, record)
  BY <1>2, <1>3 DEF FailoverOne, Record, Elects, Shrinks
<1>5. StatsTyped' /\ SameProgress
  BY DEF Failover, replica, Typed, TypeOK, StatsTyped, SameProgress
<1>6. raced \subseteq raced' /\ raced' \subseteq AllRaces /\ (k < Len(committed) => "overtaking" \in raced')
  BY <1>2 DEF Submit, Race, AllRaces, Typed, TypeOK
<1>7. Commits(k, record)
  BY <1>2, <1>4, <1>5, <1>6 DEF Commits, Failover, Submit, replica, produce
<1>8. QED
  BY <1>7

\* A transfer elects another member of the in-sync set.
LEMMA TransferCommits ==
  ASSUME Typed, NEW l \in Brokers, TransferLeader(l)
  PROVE  \E k \in DOMAIN committed : \E record : Commits(k, record)
<1>1. PICK k \in DOMAIN committed :
        /\ l \in committed[k].isr \ {committed[k].leader}
        /\ Submit(k, Record(l, committed[k].epoch + 1, committed[k].isr))
  BY DEF TransferLeader
<1> DEFINE record == Record(l, committed[k].epoch + 1, committed[k].isr)
<1>3. committed[k].leader \in Brokers /\ committed[k].isr \subseteq Brokers /\ committed[k].epoch \in Nat
  BY CommittedType DEF Typed
<1>4. record \in [leader: Brokers, epoch: Nat, isr: SUBSET Brokers] /\ Elects(k, record)
  BY <1>1, <1>3 DEF Record, Elects
<1>5. StatsTyped' /\ SameProgress
  BY DEF TransferLeader, replica, Typed, TypeOK, StatsTyped, SameProgress
<1>6. raced \subseteq raced' /\ raced' \subseteq AllRaces /\ (k < Len(committed) => "overtaking" \in raced')
  BY <1>1 DEF Submit, Race, AllRaces, Typed, TypeOK
<1> HIDE DEF record
<1>7. Commits(k, record)
  BY <1>1, <1>4, <1>5, <1>6 DEF Commits, TransferLeader, Submit, replica, produce, record
<1>8. QED
  BY <1>7

\* AlterPartition replaces the in-sync set of the record it names.
LEMMA AlterCommits ==
  ASSUME Typed, NEW b \in Brokers, AlterPartition(b)
  PROVE  \E k \in DOMAIN committed : \E record : Commits(k, record)
<1>1. PICK silent \in SUBSET (isr[b] \cap DOMAIN stats[b]),
           caughtUp \in SUBSET {f \in DOMAIN stats[b] \ isr[b] : stats[b][f].recent},
           k \in DOMAIN committed :
        LET members == (isr[b] \ silent) \cup caughtUp IN
        /\ members \notin {isr[b], {}}
        /\ committed[k].epoch = TargetOf(b).epoch
        /\ committed' = Append(committed, [committed[k] EXCEPT !.isr = members])
        /\ stats' = [stats EXCEPT ![b] = [f \in DOMAIN @ |->
                       [leo |-> @[f].leo, recent |-> @[f].recent /\ f \notin silent]]]
        /\ raced' = raced \cup
             {race \in {"overtaking", "lagging"} :
                IF race = "overtaking" THEN k < Len(committed)
                ELSE \E f \in members \ (committed[k].isr \cup {b}) :
                       f \in DOMAIN stats[b] => stats[b][f].leo < Len(log[b])}
  BY ZenonT(120) DEF AlterPartition
<1> DEFINE members == (isr[b] \ silent) \cup caughtUp
           record == [committed[k] EXCEPT !.isr = members]
           Stats == [f \in DOMAIN stats[b] |->
                       [leo |-> stats[b][f].leo, recent |-> stats[b][f].recent /\ f \notin silent]]
           Lags == \E f \in members \ (committed[k].isr \cup {b}) :
                     f \in DOMAIN stats[b] => stats[b][f].leo < Len(log[b])
<1>2. StatsTyped /\ members \subseteq Brokers
  BY DEF Typed, TypeOK, StatsTyped
<1>3. committed[k] \in PartitionRecord
  BY CommittedType DEF Typed
<1>4. /\ record \in [leader: Brokers, epoch: Nat, isr: SUBSET Brokers]
      /\ record.epoch = committed[k].epoch /\ record.leader = committed[k].leader /\ record.isr = members
  BY <1>2, <1>3, BoundAssumption DEF PartitionRecord
<1> HIDE DEF members, record
<1>5. Stats \in [DOMAIN stats[b] -> FollowerStats] /\ DOMAIN stats[b] \in SUBSET Brokers
  BY <1>2, StatsType DEF FollowerStats
<1>6. StatsTyped' /\ stats'[b] = Stats /\ \A c \in Brokers \ {b} : stats'[c] = stats[c]
  BY <1>1, <1>2, <1>5, StatsUpdated, ZenonT(120)
<1>7. SameProgress
  BY <1>6 DEF SameProgress
<1>8. raced \subseteq raced' /\ raced' \subseteq AllRaces /\ (k < Len(committed) => "overtaking" \in raced')
  BY <1>1 DEF AllRaces, Typed, TypeOK
<1>9. "lagging" \notin raced' => ~Lags
  BY <1>1 DEF members
<1>10. Alters(k, record, b)
  BY <1>1, <1>4, <1>9, ImageType, ZenonT(120) DEF Alters, AlterPartition, Leading, Typed
<1>11. Commits(k, record)
  BY <1>1, <1>4, <1>6, <1>7, <1>8, <1>10, ZenonT(120) DEF Commits, AlterPartition, produce, record, members
<1>12. QED
  BY <1>11

\* Steps that leave the partition's records and the images alone.
LEMMA SameImages ==
  ASSUME UNCHANGED <<committed, image>>
  PROVE  /\ \A b : /\ Image(b)' = Image(b) /\ EpochOf(b)' = EpochOf(b)
                  /\ TargetOf(b)' = TargetOf(b) /\ (Leading(b)' <=> Leading(b))
         /\ \A k : Members(k)' = Members(k) /\ (Ends(k)' <=> Ends(k))
BY DEF Image, EpochOf, TargetOf, Leading, Members, Ends

\* A broker installs the next record's leader and epoch.
LEMMA InstallEffect ==
  ASSUME Typed, NEW b \in Brokers, InstallReplicationTarget(b)
  PROVE  LET next == committed[image[b] + 1] IN
         /\ image[b] + 1 \in DOMAIN committed
         /\ image' \in [Brokers -> 1 .. Len(committed)]
         /\ Image(b)' = next /\ EpochOf(b)' = next.epoch
         /\ \A c \in Brokers \ {b} : /\ Image(c)' = Image(c) /\ EpochOf(c)' = EpochOf(c)
                                     /\ TargetOf(c)' = TargetOf(c) /\ (Leading(c)' <=> Leading(c))
                                     /\ stats'[c] = stats[c]
         /\ TargetOf(b)' = Target(next) /\ (Leading(b)' <=> next.leader = b)
         /\ Target(next) # TargetOf(b) => DOMAIN stats'[b] = {}
         /\ Target(next) = TargetOf(b) => stats'[b] = stats[b]
         /\ StatsTyped'
<1> DEFINE next == committed[image[b] + 1]
           changed == Target(next) # TargetOf(b)
           v == IF changed THEN << >> ELSE stats[b]
           D == IF changed THEN {} ELSE DOMAIN stats[b]
<1>1. /\ image[b] < Len(committed) /\ image' = [image EXCEPT ![b] = image[b] + 1]
      /\ stats' = [stats EXCEPT ![b] = v] /\ committed' = committed
  BY DEF InstallReplicationTarget
<1>2. image[b] + 1 \in DOMAIN committed
  BY <1>1, ImageType DEF Typed
<1>3. image'[b] = image[b] + 1 /\ \A c \in Brokers \ {b} : image'[c] = image[c]
  BY <1>1 DEF Typed, TypeOK
<1>31. image' \in [Brokers -> 1 .. Len(committed)]
  BY <1>1, <1>2, CommittedType DEF Typed, TypeOK
<1>4. StatsTyped /\ D \in SUBSET Brokers /\ v \in [D -> FollowerStats]
  BY DEF Typed, TypeOK, StatsTyped
<1>5. StatsTyped' /\ stats'[b] = v /\ \A c \in Brokers \ {b} : stats'[c] = stats[c]
  BY <1>1, <1>4, StatsUpdated, ZenonT(120)
<1>6. Image(b)' = next /\ \A c \in Brokers \ {b} : Image(c)' = Image(c)
  BY <1>1, <1>3 DEF Image
<1> HIDE DEF next
<1>7. /\ EpochOf(b)' = next.epoch /\ TargetOf(b)' = Target(next) /\ (Leading(b)' <=> next.leader = b)
      /\ \A c \in Brokers \ {b} : /\ EpochOf(c)' = EpochOf(c) /\ TargetOf(c)' = TargetOf(c)
                                  /\ (Leading(c)' <=> Leading(c))
  BY <1>6 DEF EpochOf, TargetOf, Leading
<1>8. /\ Target(next) # TargetOf(b) => DOMAIN stats'[b] = {}
      /\ Target(next) = TargetOf(b) => stats'[b] = stats[b]
  BY <1>5
<1>9. QED
  BY <1>2, <1>31, <1>5, <1>6, <1>7, <1>8, ZenonT(120) DEF next

LEMMA InstallTyped ==
  ASSUME Typed, NEW b \in Brokers, InstallReplicationTarget(b)
  PROVE  Typed'
<1>1. /\ image' \in [Brokers -> 1 .. Len(committed')] /\ StatsTyped'
      /\ UNCHANGED <<committed, isr, log, produced, acked, raced>>
  BY InstallEffect, ZenonT(120) DEF InstallReplicationTarget, produce
<1>2. ASSUME NEW c \in Brokers, TargetOf(c)'.leader = c, NEW f \in DOMAIN stats'[c]
      PROVE  stats'[c][f].leo \in 0 .. Len(log'[c])
  <2>1. TargetOf(c)' = TargetOf(c) /\ stats'[c] = stats[c]
    BY <1>2, InstallEffect
  <2>2. QED
    BY <1>1, <1>2, <2>1 DEF Typed, TypeOK
<1>3. TypeOK'
  BY <1>1, <1>2 DEF Typed, TypeOK, StatsTyped
<1>4. QED
  BY <1>1, <1>3 DEF Typed, Bounds

\* install_isr adds members and takes none away.
LEMMA InstallIsrEffect ==
  ASSUME Typed, NEW b \in Brokers, InstallIsr(b)
  PROVE  /\ UNCHANGED <<committed, image, log, produced, acked, raced>>
         /\ isr' \in [Brokers -> SUBSET Brokers] /\ StatsTyped'
         /\ \A c \in Brokers : DOMAIN stats[c] \subseteq DOMAIN stats'[c]
         /\ \A c \in Brokers : \A f \in DOMAIN stats'[c] :
              IF f \in DOMAIN stats[c] THEN stats'[c][f] = stats[c][f] ELSE stats'[c][f].leo = 0
<1> DEFINE D == DOMAIN stats[b] \cup (Image(b).isr \ {b})
           v == [f \in D |-> StatsOf(stats[b], f)]
<1>1. StatsTyped /\ Image(b).isr \subseteq Brokers
  BY ImageType DEF Typed, TypeOK, StatsTyped
<1>2. v \in [D -> FollowerStats] /\ D \in SUBSET Brokers
  BY <1>1, StatsType DEF StatsOf, NewStats, FollowerStats
<1>3. /\ UNCHANGED <<committed, image, log, produced, acked, raced>>
      /\ stats' = [stats EXCEPT ![b] = v] /\ isr' = [isr EXCEPT ![b] = Image(b).isr]
  BY DEF InstallIsr, produce
<1>4. StatsTyped' /\ stats'[b] = v /\ \A c \in Brokers \ {b} : stats'[c] = stats[c]
  BY <1>1, <1>2, <1>3, StatsUpdated, ZenonT(120)
<1>5. isr' \in [Brokers -> SUBSET Brokers]
  BY <1>1, <1>3 DEF Typed, TypeOK
<1>6. ASSUME NEW c \in Brokers
      PROVE  /\ DOMAIN stats[c] \subseteq DOMAIN stats'[c]
             /\ \A f \in DOMAIN stats'[c] :
                  IF f \in DOMAIN stats[c] THEN stats'[c][f] = stats[c][f] ELSE stats'[c][f].leo = 0
  <2>1. CASE c = b
    BY <1>4, <2>1 DEF StatsOf, NewStats
  <2>2. CASE c # b
    BY <1>4, <2>2
  <2>3. QED
    BY <2>1, <2>2
<1>7. QED
  BY <1>3, <1>4, <1>5, <1>6, ZenonT(120)

LEMMA InstallIsrTyped ==
  ASSUME Typed, NEW b \in Brokers, InstallIsr(b)
  PROVE  Typed'
<1>1. /\ UNCHANGED <<committed, image, log, produced, acked, raced>>
      /\ isr' \in [Brokers -> SUBSET Brokers] /\ StatsTyped'
  BY InstallIsrEffect
<1>2. ASSUME NEW c \in Brokers, TargetOf(c)'.leader = c, NEW f \in DOMAIN stats'[c]
      PROVE  stats'[c][f].leo \in 0 .. Len(log'[c])
  <2>1. TargetOf(c).leader = c /\ log'[c] = log[c]
    BY <1>1, <1>2, SameImages
  <2>2. IF f \in DOMAIN stats[c] THEN stats'[c][f] = stats[c][f] ELSE stats'[c][f].leo = 0
    BY <1>2, InstallIsrEffect
  <2>3. Len(log[c]) \in Nat
    BY LogType DEF Typed
  <2>4. QED
    BY <2>1, <2>2, <2>3 DEF Typed, TypeOK
<1>3. TypeOK'
  BY <1>1, <1>2 DEF Typed, TypeOK, StatsTyped
<1>4. QED
  BY <1>1, <1>3 DEF Typed, Bounds

\* A restart forgets the bookkeeping.
LEMMA RestartEffect ==
  ASSUME Typed, NEW b \in Brokers, Restart(b)
  PROVE  /\ UNCHANGED <<committed, image, log, produced, acked, raced>>
         /\ isr' \in [Brokers -> SUBSET Brokers] /\ StatsTyped'
         /\ DOMAIN stats'[b] = {} /\ \A c \in Brokers \ {b} : stats'[c] = stats[c]
<1> DEFINE v == << >>
           D == {}
<1>1. /\ UNCHANGED <<committed, image, log, produced, acked, raced>>
      /\ stats' = [stats EXCEPT ![b] = v] /\ isr' = [isr EXCEPT ![b] = {}]
  BY DEF Restart
<1>2. StatsTyped /\ D \in SUBSET Brokers /\ v \in [D -> FollowerStats]
  BY DEF Typed, TypeOK, StatsTyped
<1>3. StatsTyped' /\ stats'[b] = v /\ \A c \in Brokers \ {b} : stats'[c] = stats[c]
  BY <1>1, <1>2, StatsUpdated, ZenonT(120)
<1>4. isr' \in [Brokers -> SUBSET Brokers]
  BY <1>1 DEF Typed, TypeOK
<1>5. DOMAIN stats'[b] = {}
  BY <1>3
<1>6. QED
  BY <1>1, <1>3, <1>4, <1>5

LEMMA RestartTyped ==
  ASSUME Typed, NEW b \in Brokers, Restart(b)
  PROVE  Typed'
<1>1. /\ UNCHANGED <<committed, image, log, produced, acked, raced>>
      /\ isr' \in [Brokers -> SUBSET Brokers] /\ StatsTyped'
      /\ DOMAIN stats'[b] = {} /\ \A c \in Brokers \ {b} : stats'[c] = stats[c]
  BY RestartEffect
<1>2. \A c \in Brokers : TargetOf(c)' = TargetOf(c)
  BY <1>1, SameImages
<1>3. TypeOK'
  BY <1>1, <1>2, ZenonT(120) DEF Typed, TypeOK, StatsTyped
<1>4. QED
  BY <1>1, <1>3 DEF Typed, Bounds

\* A leader appends a record of its epoch.
LEMMA ProduceEffect ==
  ASSUME Typed, NEW b \in Brokers, Produce(b)
  PROVE  /\ UNCHANGED <<committed, image, isr, stats, acked, raced>>
         /\ Leading(b) /\ isr[b] = Image(b).isr
         /\ produced' = produced + 1 /\ produced' \in 0 .. MaxValue
         /\ log' \in [Brokers -> Seq(LogRecord)]
         /\ \A c \in Brokers \ {b} : log'[c] = log[c]
         /\ Len(log'[b]) = Len(log[b]) + 1
         /\ log'[b][Len(log[b]) + 1] = [offset |-> Len(log[b]) + 1, epoch |-> EpochOf(b)]
         /\ \A i \in 1 .. Len(log[b]) : log'[b][i] = log[b][i]
<1> DEFINE r == [offset |-> Len(log[b]) + 1, epoch |-> EpochOf(b)]
           s == Append(log[b], r)
<1>1. /\ UNCHANGED <<committed, image, isr, stats, acked, raced>>
      /\ Leading(b) /\ isr[b] = Image(b).isr
      /\ produced < MaxValue /\ produced' = produced + 1
  BY DEF Produce, Installed, Leading, replica
<1>2. log' = [log EXCEPT ![b] = s]
  BY ImageType, ZenonT(120) DEF Produce, Typed
<1>3. log[b] \in Seq(LogRecord) /\ Len(log[b]) \in Nat /\ Len(log[b]) <= produced /\ produced \in 0 .. MaxValue
  BY LogType DEF Typed, Bounds
<1>4. EpochOf(b) \in 0 .. MaxChange
  BY ImageType, CommittedType DEF Typed
<1>5. r \in LogRecord
  BY <1>1, <1>3, <1>4, BoundAssumption DEF LogRecord
<1> HIDE DEF r
<1>6. /\ s \in Seq(LogRecord) /\ Len(s) = Len(log[b]) + 1 /\ s[Len(log[b]) + 1] = r
      /\ \A i \in 1 .. Len(log[b]) : s[i] = log[b][i]
  BY <1>3, <1>5
<1> HIDE DEF s
<1>7. log' \in [Brokers -> Seq(LogRecord)] /\ log'[b] = s /\ \A c \in Brokers \ {b} : log'[c] = log[c]
  BY <1>2, <1>6, LogUpdated, ZenonT(120) DEF Typed
<1>8. produced' \in 0 .. MaxValue
  BY <1>1, <1>3, BoundAssumption
<1>9. QED
  BY <1>1, <1>6, <1>7, <1>8, ZenonT(120) DEF r

LEMMA ProduceTyped ==
  ASSUME Typed, NEW b \in Brokers, Produce(b)
  PROVE  Typed'
<1>1. /\ UNCHANGED <<committed, image, isr, stats, acked, raced>>
      /\ produced' = produced + 1 /\ produced' \in 0 .. MaxValue
      /\ log' \in [Brokers -> Seq(LogRecord)]
      /\ \A c \in Brokers \ {b} : log'[c] = log[c]
      /\ Len(log'[b]) = Len(log[b]) + 1
      /\ log'[b][Len(log[b]) + 1].offset = Len(log[b]) + 1
      /\ \A i \in 1 .. Len(log[b]) : log'[b][i] = log[b][i]
  <2>1. log'[b][Len(log[b]) + 1] = [offset |-> Len(log[b]) + 1, epoch |-> EpochOf(b)]
    BY ProduceEffect
  <2>2. log'[b][Len(log[b]) + 1].offset = Len(log[b]) + 1
    BY <2>1
  <2>3. QED
    BY <2>2, ProduceEffect, ZenonT(120)
<1>2. \A c \in Brokers : /\ Len(log[c]) \in Nat /\ DOMAIN log[c] = 1 .. Len(log[c]) /\ Len(log[c]) <= produced
                         /\ \A i \in DOMAIN log[c] : log[c][i].offset = i
  BY LogType DEF Typed, Bounds
<1>3. \A c \in Brokers : DOMAIN log'[c] = 1 .. Len(log'[c])
  BY <1>1
<1>4. produced \in Nat
  BY DEF Typed, Bounds
<1>5. ASSUME NEW c \in Brokers
      PROVE  Len(log'[c]) <= produced' /\ \A i \in DOMAIN log'[c] : log'[c][i].offset = i
  <2>1. CASE c # b
    BY <1>1, <1>2, <1>4, <2>1
  <2>2. CASE c = b
    <3>1. Len(log[b]) \in Nat /\ DOMAIN log'[b] = 1 .. Len(log[b]) + 1 /\ Len(log[b]) <= produced
      BY <1>1, <1>2, <1>3
    <3>2. ASSUME NEW i \in 1 .. Len(log[b]) + 1 PROVE log'[b][i].offset = i
      BY <1>1, <1>2, <3>1
    <3>3. QED
      BY <1>1, <1>4, <2>2, <3>1, <3>2
  <2>3. QED
    BY <2>1, <2>2
<1>6. \A c \in Brokers : TargetOf(c)' = TargetOf(c) /\ Len(log[c]) <= Len(log'[c])
  BY <1>1, <1>2, SameImages
<1>7. \A c \in Brokers : TargetOf(c)'.leader = c =>
        \A f \in DOMAIN stats'[c] : stats'[c][f].leo \in 0 .. Len(log'[c])
  BY <1>1, <1>2, <1>6 DEF Typed, TypeOK
<1>8. TypeOK'
  BY <1>1, <1>7 DEF Typed, TypeOK
<1>9. QED
  BY <1>1, <1>5, <1>8 DEF Typed, Bounds

LEMMA AcknowledgeTyped ==
  ASSUME Typed, NEW b \in Brokers, NEW r \in Range(log[b]), Acknowledge(b, r)
  PROVE  Typed' /\ UNCHANGED <<committed, image, isr, stats, log, produced>> /\ raced \subseteq raced'
<1>1. UNCHANGED <<committed, image, isr, stats, log, produced>> /\ acked' = acked \cup {r}
  BY DEF Acknowledge, replica
<1>2. raced \subseteq raced' /\ raced' \subseteq AllRaces
  BY DEF Acknowledge, Typed, TypeOK, AllRaces
<1>3. r \in LogRecord
  BY LogType DEF Typed, Range
<1>4. \A c \in Brokers : TargetOf(c)' = TargetOf(c)
  BY <1>1, SameImages
<1>5. TypeOK'
  BY <1>1, <1>2, <1>3, <1>4 DEF Typed, TypeOK
<1>6. QED
  BY <1>1, <1>2, <1>5 DEF Typed, Bounds

\* The offsets a leader answers with, whatever races.
LEMMA EndType ==
  ASSUME TypeOK, NEW b \in Brokers, NEW e
  PROVE  EpochAndOffsetFor(b, e).end \in Nat /\ EndOffsetForEpoch(b, e) \in Nat \cup {UndefinedOffset}
<1> DEFINE next == Min(Later(b, e))
           at == {i \in DOMAIN log[b] : log[b][i].epoch = next}
           first == Min(at)
<1>1. ASSUME Later(b, e) # {} PROVE StartOf(b, next) \in Nat
  <2>1. Later(b, e) \in SUBSET Nat /\ Later(b, e) \subseteq Epochs(b)
    BY LogType DEF Later
  <2>2. next \in Epochs(b)
    BY <1>1, <2>1, MinOfNaturals, ZenonT(120)
  <2> HIDE DEF next
  <2>3. at \in SUBSET Nat /\ at # {}
    BY <2>2, LogType DEF Epochs
  <2>4. first \in at
    BY <2>3, MinOfNaturals, ZenonT(120)
  <2>5. StartOf(b, next) = first - 1
    BY DEF StartOf
  <2> HIDE DEF first
  <2>6. first \in 1 .. Len(log[b])
    BY <2>4, LogType
  <2>7. QED
    BY <2>5, <2>6, LogType
<1>2. Len(log[b]) \in Nat
  BY LogType
<1> HIDE DEF next
<1>3. Later(b, e) = {} \/ StartOf(b, Min(Later(b, e))) \in Nat
  BY <1>1 DEF next
<1>4. QED
  BY <1>2, <1>3 DEF EpochAndOffsetFor, EndOffsetForEpoch

\* A truncation keeps a prefix of one log.
LEMMA TruncateEffect ==
  ASSUME Typed, NEW f \in Brokers, NEW end \in Nat, TruncateTo(f, end)
  PROVE  /\ log' \in [Brokers -> Seq(LogRecord)]
         /\ \A c \in Brokers \ {f} : log'[c] = log[c]
         /\ Len(log'[f]) = IF end <= Len(log[f]) THEN end ELSE Len(log[f])
         /\ Len(log'[f]) <= Len(log[f]) /\ Len(log'[f]) \in Nat /\ DOMAIN log'[f] = 1 .. Len(log'[f])
         /\ \A i \in DOMAIN log'[f] : i \in DOMAIN log[f] /\ log'[f][i] = log[f][i]
<1> DEFINE n == Min({end, Len(log[f])})
           s == SubSeq(log[f], 1, n)
<1>1. log[f] \in Seq(LogRecord) /\ Len(log[f]) \in Nat /\ DOMAIN log[f] = 1 .. Len(log[f])
  BY LogType DEF Typed
<1>2. n = IF end <= Len(log[f]) THEN end ELSE Len(log[f])
  BY <1>1, MinOfTwo
<1>3. log' = [log EXCEPT ![f] = s]
  BY DEF TruncateTo
<1> HIDE DEF n
<1>4. n \in 0 .. Len(log[f]) /\ n \in Nat
  BY <1>1, <1>2
<1>5. s \in Seq(LogRecord) /\ Len(s) = n /\ \A i \in 1 .. n : s[i] = log[f][i]
  BY <1>1, <1>4
<1> HIDE DEF s
<1>6. log' \in [Brokers -> Seq(LogRecord)] /\ log'[f] = s /\ \A c \in Brokers \ {f} : log'[c] = log[c]
  BY <1>3, <1>5, LogUpdated, ZenonT(120) DEF Typed
<1>7. DOMAIN log'[f] = 1 .. n
  BY <1>5, <1>6
<1>8. QED
  BY <1>1, <1>2, <1>4, <1>5, <1>6, <1>7

\* A follower truncates: it is not the leader its image names.
LEMMA TruncateTyped ==
  ASSUME Typed, NEW f \in Brokers, NEW end \in Nat, TruncateTo(f, end), ~Leading(f),
         UNCHANGED <<committed, image, isr, stats, produced, acked>>, raced' \subseteq AllRaces
  PROVE  Typed'
<1>1. /\ log' \in [Brokers -> Seq(LogRecord)]
      /\ \A c \in Brokers \ {f} : log'[c] = log[c]
      /\ Len(log'[f]) <= Len(log[f]) /\ Len(log'[f]) \in Nat
      /\ \A i \in DOMAIN log'[f] : i \in DOMAIN log[f] /\ log'[f][i] = log[f][i]
  BY TruncateEffect
<1>2. \A c \in Brokers : TargetOf(c)' = TargetOf(c)
  BY SameImages
<1>3. TargetOf(f).leader # f
  BY ImageType, ZenonT(120) DEF Typed, Leading
<1>4. \A c \in Brokers : TargetOf(c)'.leader = c =>
        \A x \in DOMAIN stats'[c] : stats'[c][x].leo \in 0 .. Len(log'[c])
  BY <1>1, <1>2, <1>3, ZenonT(120) DEF Typed, TypeOK
<1>5. TypeOK'
  BY <1>1, <1>4 DEF Typed, TypeOK
<1>6. \A c \in Brokers : Len(log[c]) <= produced /\ \A i \in DOMAIN log[c] : log[c][i].offset = i
  BY DEF Typed, Bounds
<1>7. produced \in Nat /\ Len(log[f]) \in Nat
  BY LogType DEF Typed, Bounds
<1>8. \A c \in Brokers : Len(log'[c]) <= produced /\ \A i \in DOMAIN log'[c] : log'[c][i].offset = i
  BY <1>1, <1>6, <1>7
<1>9. QED
  BY <1>5, <1>8 DEF Typed, Bounds

\* The two answers that make a follower truncate.
Truncates(f, l, end) ==
  /\ l \in Brokers /\ Image(f).leader = l /\ l # f /\ ~Leading(f) /\ end \in Nat
  /\ TruncateTo(f, end)
  /\ UNCHANGED <<committed, image, isr, stats, produced, acked>>
  /\ raced \subseteq raced' /\ raced' \subseteq AllRaces

LEMMA FetchFencedEffect ==
  ASSUME Typed, NEW f \in Brokers, FetchFenced(f)
  PROVE  LET l == Image(f).leader
             end == EndOffsetForEpoch(l, EpochOf(f))
             cut == IF end = UndefinedOffset THEN 0 ELSE end IN
         /\ Truncates(f, l, cut) /\ EpochOf(f) < EpochOf(l)
         /\ end = UndefinedOffset => "reset" \in raced'
<1> DEFINE l == Image(f).leader
           end == EndOffsetForEpoch(l, EpochOf(f))
           cut == IF end = UndefinedOffset THEN 0 ELSE end
<1>1. l \in Brokers /\ TargetOf(f).leader = l /\ TargetOf(f).epoch = EpochOf(f)
  BY ImageType DEF Typed
<1>2. TargetOf(l).epoch = EpochOf(l)
  BY <1>1, ImageType DEF Typed
<1>3. end \in Nat \cup {UndefinedOffset}
  BY <1>1, EndType DEF Typed
<1>4. cut \in Nat
  BY <1>3
<1>5. /\ l # f /\ EpochOf(f) < EpochOf(l) /\ TruncateTo(f, cut) /\ Race("reset", end = UndefinedOffset)
      /\ UNCHANGED <<committed, image, isr, stats, produced, acked>>
  BY <1>1, <1>2 DEF FetchFenced, replica, produce
<1>6. raced \subseteq raced' /\ raced' \subseteq AllRaces /\ (end = UndefinedOffset => "reset" \in raced')
  BY <1>5 DEF Race, AllRaces, Typed, TypeOK
<1>7. QED
  BY <1>1, <1>4, <1>5, <1>6, ZenonT(120) DEF Truncates, Leading

LEMMA FetchDivergingEffect ==
  ASSUME Typed, NEW f \in Brokers, FetchDiverging(f)
  PROVE  LET l == Image(f).leader IN
         /\ Truncates(f, l, EpochAndOffsetFor(l, LatestEpoch(f)).end)
         /\ EpochOf(f) = EpochOf(l) /\ log[f] # << >>
<1> DEFINE l == Image(f).leader
           cut == EpochAndOffsetFor(l, LatestEpoch(f)).end
<1>1. l \in Brokers /\ TargetOf(f).leader = l /\ TargetOf(f).epoch = EpochOf(f)
  BY ImageType DEF Typed
<1>2. TargetOf(l).epoch = EpochOf(l)
  BY <1>1, ImageType DEF Typed
<1>3. cut \in Nat
  BY <1>1, EndType DEF Typed
<1>4. /\ l # f /\ EpochOf(f) = EpochOf(l) /\ TruncateTo(f, cut) /\ Diverges(l, f) /\ raced' = raced
      /\ UNCHANGED <<committed, image, isr, stats, produced, acked>>
  BY <1>1, <1>2 DEF FetchDiverging, replica, produce
<1>5. log[f] # << >>
  BY <1>4 DEF Diverges, LatestEpoch
<1>6. QED
  BY <1>1, <1>3, <1>4, <1>5 DEF Truncates, Leading, Typed, TypeOK

\* What SubSeq takes of the end of a sequence.
LEMMA TailOf ==
  ASSUME NEW R, NEW s \in Seq(R), NEW n \in Nat, NEW end \in n .. Len(s)
  PROVE  /\ SubSeq(s, n + 1, end) \in Seq(R) /\ Len(SubSeq(s, n + 1, end)) = end - n
         /\ \A i \in 1 .. end - n : SubSeq(s, n + 1, end)[i] = s[n + i]
  OBVIOUS

\* The leader notes where a follower asked from.
Notes(l, f, n, m) == stats' = [stats EXCEPT ![l] = UpdateFollowerLeo(stats[l], f, n, m)]

LEMMA NotedEffect ==
  ASSUME StatsTyped, NEW l \in Brokers, NEW f \in Brokers, NEW n \in Nat, NEW m \in Nat,
         Notes(l, f, n, m)
  PROVE  /\ StatsTyped' /\ \A c \in Brokers \ {l} : stats'[c] = stats[c]
         /\ DOMAIN stats'[l] = DOMAIN stats[l] \cup {f}
         /\ \A x \in DOMAIN stats[l] \ {f} : stats'[l][x] = stats[l][x]
         /\ stats'[l][f].leo \in 0 .. m /\ (n <= m => stats'[l][f].leo = n)
<1> DEFINE D == DOMAIN stats[l] \cup {f}
           v == UpdateFollowerLeo(stats[l], f, n, m)
<1>1. PICK k : k = Min({n, m})
  OBVIOUS
<1>2. k = (IF n <= m THEN n ELSE m)
  BY <1>1, MinOfTwo, ZenonT(120)
<1>3. k \in 0 .. m /\ (n <= m => k = n)
  BY <1>2
<1>4. D \in SUBSET Brokers
  BY StatsType
<1>5. StatsOf(stats[l], f).recent \in BOOLEAN
  BY StatsType, ZenonT(120) DEF StatsOf, NewStats
<1>6. v = [x \in D |-> IF x # f THEN stats[l][x]
                       ELSE [leo |-> k, recent |-> StatsOf(stats[l], f).recent \/ n >= m]]
  BY <1>1, ZenonT(120) DEF UpdateFollowerLeo
<1>7. k \in Nat
  BY <1>2
<1>8. ASSUME NEW x \in D PROVE v[x] \in FollowerStats
  <2>1. CASE x # f
    BY <1>4, <1>6, <2>1, StatsType, ZenonT(120)
  <2>2. CASE x = f
    BY <1>5, <1>6, <1>7, <2>2 DEF FollowerStats
  <2>3. QED
    BY <2>1, <2>2, ZenonT(120)
<1> HIDE DEF v
<1>9. v \in [D -> FollowerStats] /\ v[f].leo = k /\ \A x \in D \ {f} : v[x] = stats[l][x]
  <2>1. DOMAIN v = D /\ v = [x \in D |-> v[x]] /\ f \in D
    BY <1>6, ZenonT(120)
  <2>2. v \in [D -> FollowerStats]
    BY <1>8, <2>1, ZenonT(120)
  <2>3. v[f] = [leo |-> k, recent |-> StatsOf(stats[l], f).recent \/ n >= m]
    BY <1>6, <2>1, ZenonT(120)
  <2>4. v[f].leo = k
    BY <2>3
  <2>5. \A x \in D \ {f} : v[x] = stats[l][x]
    BY <1>6, <2>1, ZenonT(120)
  <2>6. QED
    BY <2>2, <2>4, <2>5
<1>10. stats' = [stats EXCEPT ![l] = v]
  BY ZenonT(120) DEF v, Notes
<1>11. StatsTyped' /\ stats'[l] = v /\ \A c \in Brokers \ {l} : stats'[c] = stats[c]
  BY <1>4, <1>9, <1>10, StatsUpdated, ZenonT(120)
<1>12. DOMAIN v = D
  BY <1>9, ZenonT(120)
<1>13. QED
  BY <1>3, <1>9, <1>11, <1>12, ZenonT(120)

\* A follower appends what it got of a leader's log.
Appends(f, l, end) == log' = [log EXCEPT ![f] = log[f] \o SubSeq(log[l], Len(log[f]) + 1, end)]

LEMMA AppendedEffect ==
  ASSUME TypeOK, NEW l \in Brokers, NEW f \in Brokers, NEW end \in Len(log[f]) .. Len(log[l]),
         Appends(f, l, end)
  PROVE  /\ log' \in [Brokers -> Seq(LogRecord)]
         /\ \A c \in Brokers \ {f} : log'[c] = log[c]
         /\ Len(log'[f]) \in Len(log[f]) .. Len(log[l]) /\ DOMAIN log'[f] = 1 .. Len(log'[f])
         /\ \A i \in 1 .. Len(log[f]) : log'[f][i] = log[f][i]
         /\ \A i \in Len(log[f]) + 1 .. Len(log'[f]) : log'[f][i] = log[l][i]
<1> DEFINE n == Len(log[f])
           m == Len(log[l])
           tail == SubSeq(log[l], n + 1, end)
           s == log[f] \o tail
<1>1. /\ n \in Nat /\ m \in Nat /\ end \in Nat /\ n <= end /\ end <= m
      /\ log[f] \in Seq(LogRecord) /\ log[l] \in Seq(LogRecord)
  BY LogType
<1>2. tail \in Seq(LogRecord) /\ Len(tail) = end - n /\ \A i \in 1 .. end - n : tail[i] = log[l][n + i]
  BY <1>1, TailOf, ZenonT(120)
<1>3. log' = [log EXCEPT ![f] = s]
  BY ZenonT(120) DEF Appends
<1> HIDE DEF tail
<1>4. /\ s \in Seq(LogRecord) /\ Len(s) = end
      /\ \A i \in 1 .. n : s[i] = log[f][i]
      /\ \A i \in n + 1 .. end : s[i] = tail[i - n]
  BY <1>1, <1>2
<1>5. \A i \in n + 1 .. end : s[i] = log[l][i]
  <2> SUFFICES ASSUME NEW i \in n + 1 .. end PROVE s[i] = log[l][i]
    BY ZenonT(120)
  <2>1. i - n \in 1 .. end - n /\ n + (i - n) = i
    BY <1>1
  <2>2. tail[i - n] = log[l][n + (i - n)]
    BY <1>2, <2>1
  <2>3. QED
    BY <1>4, <2>1, <2>2, ZenonT(120)
<1> HIDE DEF s
<1>6. log' \in [Brokers -> Seq(LogRecord)] /\ log'[f] = s /\ \A c \in Brokers \ {f} : log'[c] = log[c]
  BY <1>3, <1>4, LogUpdated, ZenonT(120)
<1>7. QED
  BY <1>1, <1>4, <1>5, <1>6

\* A follower appends what it fetched, and the leader notes where it asked from.
LEMMA FetchRecordsEffect ==
  ASSUME Typed, NEW f \in Brokers, FetchRecords(f)
  PROVE  LET l == Image(f).leader IN
         /\ l \in Brokers /\ l # f /\ ~Leading(f) /\ EpochOf(f) = EpochOf(l) /\ ~Diverges(l, f)
         /\ UNCHANGED <<committed, image, isr, produced, acked, raced>>
         /\ StatsTyped' /\ \A c \in Brokers \ {l} : stats'[c] = stats[c]
         /\ DOMAIN stats'[l] = DOMAIN stats[l] \cup {f}
         /\ \A x \in DOMAIN stats[l] \ {f} : stats'[l][x] = stats[l][x]
         /\ stats'[l][f].leo = Len(log[f])
         /\ log' \in [Brokers -> Seq(LogRecord)]
         /\ \A c \in Brokers \ {f} : log'[c] = log[c]
         /\ Len(log'[f]) \in Len(log[f]) .. Len(log[l]) /\ DOMAIN log'[f] = 1 .. Len(log'[f])
         /\ \A i \in 1 .. Len(log[f]) : log'[f][i] = log[f][i]
         /\ \A i \in Len(log[f]) + 1 .. Len(log'[f]) : log'[f][i] = log[l][i]
<1> DEFINE l == Image(f).leader
           n == Len(log[f])
           m == Len(log[l])
<1>1. l \in Brokers /\ TargetOf(f).leader = l /\ TargetOf(f).epoch = EpochOf(f)
  BY ImageType DEF Typed
<1>2. TargetOf(l).epoch = EpochOf(l)
  BY <1>1, ImageType DEF Typed
<1>3. /\ l # f /\ EpochOf(f) = EpochOf(l) /\ ~Diverges(l, f)
      /\ UNCHANGED <<committed, image, isr, produced, acked, raced>>
      /\ Notes(l, f, n, m)
      /\ \E end \in n .. m : Appends(f, l, end)
  BY <1>1, <1>2, ZenonT(120) DEF FetchRecords, produce, Notes, Appends
<1>4. PICK end \in n .. m : Appends(f, l, end)
  BY <1>3, ZenonT(120)
<1>5. n \in Nat /\ m \in Nat /\ n <= m
  <2>1. n \in Nat /\ m \in Nat
    BY <1>1, LogType DEF Typed
  <2>2. QED
    BY <1>4, <2>1
<1>6. StatsTyped
  BY ZenonT(120) DEF Typed, TypeOK, StatsTyped
<1>7. ~Leading(f)
  BY <1>3 DEF Leading
<1> HIDE DEF l
<1>8. /\ StatsTyped' /\ \A c \in Brokers \ {l} : stats'[c] = stats[c]
      /\ DOMAIN stats'[l] = DOMAIN stats[l] \cup {f}
      /\ \A x \in DOMAIN stats[l] \ {f} : stats'[l][x] = stats[l][x]
      /\ stats'[l][f].leo = n
  BY <1>1, <1>3, <1>5, <1>6, NotedEffect, ZenonT(120)
<1>9. /\ log' \in [Brokers -> Seq(LogRecord)]
      /\ \A c \in Brokers \ {f} : log'[c] = log[c]
      /\ Len(log'[f]) \in n .. m /\ DOMAIN log'[f] = 1 .. Len(log'[f])
      /\ \A i \in 1 .. n : log'[f][i] = log[f][i]
      /\ \A i \in n + 1 .. Len(log'[f]) : log'[f][i] = log[l][i]
  BY <1>1, <1>4, AppendedEffect, ZenonT(120) DEF Typed
<1>10. QED
  BY <1>1, <1>3, <1>7, <1>8, <1>9, ZenonT(120) DEF l

\* What a fetch leaves behind, whether it is served in time or late.
Fetches(f, l) ==
  /\ l \in Brokers /\ l # f /\ ~Leading(f)
  /\ UNCHANGED <<committed, image, isr, produced, acked>>
  /\ raced \subseteq raced' /\ raced' \subseteq AllRaces
  /\ StatsTyped'
  /\ \A c \in Brokers : \A x \in DOMAIN stats'[c] :
       \/ x \in DOMAIN stats[c] /\ stats'[c][x] = stats[c][x]
       \/ c = l /\ stats'[c][x].leo \in 0 .. Len(log[l])
  /\ log' \in [Brokers -> Seq(LogRecord)]
  /\ \A c \in Brokers \ {f} : log'[c] = log[c]
  /\ DOMAIN log'[f] = 1 .. Len(log'[f])
  /\ Len(log'[f]) \in {Len(log[f])} \cup (Len(log[f]) .. Len(log[l]))
  /\ \A i \in 1 .. Len(log[f]) : log'[f][i] = log[f][i]
  /\ \A i \in Len(log[f]) + 1 .. Len(log'[f]) : log'[f][i] = log[l][i]

LEMMA FetchRecordsFetches ==
  ASSUME Typed, NEW f \in Brokers, FetchRecords(f)
  PROVE  Fetches(f, Image(f).leader)
<1> DEFINE l == Image(f).leader
<1>1. /\ l \in Brokers /\ l # f /\ ~Leading(f)
      /\ UNCHANGED <<committed, image, isr, produced, acked, raced>>
      /\ StatsTyped' /\ \A c \in Brokers \ {l} : stats'[c] = stats[c]
      /\ DOMAIN stats'[l] = DOMAIN stats[l] \cup {f}
      /\ \A x \in DOMAIN stats[l] \ {f} : stats'[l][x] = stats[l][x]
      /\ stats'[l][f].leo = Len(log[f])
      /\ log' \in [Brokers -> Seq(LogRecord)]
      /\ \A c \in Brokers \ {f} : log'[c] = log[c]
      /\ Len(log'[f]) \in Len(log[f]) .. Len(log[l]) /\ DOMAIN log'[f] = 1 .. Len(log'[f])
      /\ \A i \in 1 .. Len(log[f]) : log'[f][i] = log[f][i]
      /\ \A i \in Len(log[f]) + 1 .. Len(log'[f]) : log'[f][i] = log[l][i]
  BY FetchRecordsEffect, ZenonT(120)
<1> HIDE DEF l
<1>2. Len(log[f]) \in Nat /\ Len(log[l]) \in Nat
  BY <1>1, LogType DEF Typed
<1>3. Len(log[f]) \in 0 .. Len(log[l])
  BY <1>1, <1>2
<1>4. ASSUME NEW c \in Brokers, NEW x \in DOMAIN stats'[c]
      PROVE  \/ x \in DOMAIN stats[c] /\ stats'[c][x] = stats[c][x]
             \/ c = l /\ stats'[c][x].leo \in 0 .. Len(log[l])
  <2>1. stats'[l][f].leo \in 0 .. Len(log[l])
    BY <1>1, <1>3, ZenonT(120)
  <2>2. c # l => stats'[c] = stats[c]
    BY <1>1, ZenonT(120)
  <2>3. c = l /\ x # f => x \in DOMAIN stats[c] /\ stats'[c][x] = stats[c][x]
    BY <1>1, <1>4, ZenonT(120)
  <2>4. QED
    BY <1>4, <2>1, <2>2, <2>3, ZenonT(120)
<1>5. raced \subseteq raced' /\ raced' \subseteq AllRaces
  BY <1>1 DEF Typed, TypeOK
<1>6. Len(log'[f]) \in {Len(log[f])} \cup (Len(log[f]) .. Len(log[l]))
  BY <1>1, ZenonT(120)
<1>7. Fetches(f, l)
  BY <1>1, <1>4, <1>5, <1>6, ZenonT(120) DEF Fetches
<1>8. QED
  BY <1>7, ZenonT(120) DEF l

LEMMA FetchLateFetches ==
  ASSUME Typed, NEW f \in Brokers, FetchLate(f)
  PROVE  Fetches(f, Image(f).leader) /\ raced' # {}
<1> DEFINE l == Image(f).leader
           n == Len(log[f])
           m == Len(log[l])
<1>1. l \in Brokers /\ TargetOf(f).leader = l
  BY ImageType DEF Typed
<1>2. /\ l # f /\ UNCHANGED <<committed, image, isr, produced, acked>>
      /\ stats' = stats \/ Notes(l, f, n, m)
      /\ \/ log' = log
         \/ \E end \in n + 1 .. m : Appends(f, l, end)
  BY <1>1, ZenonT(120) DEF FetchLate, produce, Notes, Appends
<1>3. raced' = raced \cup {"late"}
  BY ZenonT(120) DEF FetchLate, Race
<1>4. raced \subseteq raced' /\ raced' \subseteq AllRaces /\ raced' # {}
  BY <1>3 DEF Typed, TypeOK, AllRaces
<1>5. n \in Nat /\ m \in Nat
  BY <1>1, LogType DEF Typed
<1>6. StatsTyped
  BY ZenonT(120) DEF Typed, TypeOK, StatsTyped
<1>7. ~Leading(f)
  BY <1>2 DEF Leading
<1> HIDE DEF l
<1>8. /\ StatsTyped'
      /\ \A c \in Brokers : \A x \in DOMAIN stats'[c] :
           \/ x \in DOMAIN stats[c] /\ stats'[c][x] = stats[c][x]
           \/ c = l /\ stats'[c][x].leo \in 0 .. m
  <2>1. CASE stats' = stats
    BY <1>6, <2>1, ZenonT(120) DEF StatsTyped, Range
  <2>2. CASE Notes(l, f, n, m)
    <3>1. /\ StatsTyped' /\ \A c \in Brokers \ {l} : stats'[c] = stats[c]
          /\ DOMAIN stats'[l] = DOMAIN stats[l] \cup {f}
          /\ \A x \in DOMAIN stats[l] \ {f} : stats'[l][x] = stats[l][x]
          /\ stats'[l][f].leo \in 0 .. m
      BY <1>1, <1>5, <1>6, <2>2, NotedEffect, ZenonT(120)
    <3>2. ASSUME NEW c \in Brokers, NEW x \in DOMAIN stats'[c]
          PROVE  \/ x \in DOMAIN stats[c] /\ stats'[c][x] = stats[c][x]
                 \/ c = l /\ stats'[c][x].leo \in 0 .. m
      <4>1. c # l => stats'[c] = stats[c]
        BY <3>1, ZenonT(120)
      <4>2. c = l /\ x # f => x \in DOMAIN stats[c] /\ stats'[c][x] = stats[c][x]
        BY <3>1, <3>2, ZenonT(120)
      <4>3. QED
        BY <3>1, <3>2, <4>1, <4>2, ZenonT(120)
    <3>3. QED
      BY <3>1, <3>2, ZenonT(120)
  <2>3. QED
    BY <1>2, <2>1, <2>2, ZenonT(120)
<1>9. /\ log' \in [Brokers -> Seq(LogRecord)]
      /\ \A c \in Brokers \ {f} : log'[c] = log[c]
      /\ DOMAIN log'[f] = 1 .. Len(log'[f]) /\ Len(log'[f]) \in {n} \cup (n .. m)
      /\ \A i \in 1 .. n : log'[f][i] = log[f][i]
      /\ \A i \in n + 1 .. Len(log'[f]) : log'[f][i] = log[l][i]
  <2>1. CASE log' = log
    <3>1. n + 1 .. n = {}
      BY <1>5
    <3>2. log \in [Brokers -> Seq(LogRecord)] /\ DOMAIN log[f] = 1 .. n
      BY LogType DEF Typed, TypeOK
    <3>3. QED
      BY <2>1, <3>1, <3>2, ZenonT(120)
  <2>2. CASE \E end \in n + 1 .. m : Appends(f, l, end)
    <3>1. PICK end \in n + 1 .. m : Appends(f, l, end)
      BY <2>2, ZenonT(120)
    <3>2. end \in n .. m
      BY <1>5
    <3>3. QED
      BY <1>1, <3>1, <3>2, AppendedEffect, ZenonT(120) DEF Typed
  <2>3. QED
    BY <1>2, <2>1, <2>2, ZenonT(120)
<1>10. l # f /\ UNCHANGED <<committed, image, isr, produced, acked>>
  BY <1>2, ZenonT(120)
<1>11. Fetches(f, l)
  BY <1>1, <1>4, <1>7, <1>8, <1>9, <1>10, ZenonT(120) DEF Fetches
<1>12. QED
  BY <1>4, <1>11, ZenonT(120) DEF l

LEMMA FetchTyped ==
  ASSUME Typed, NEW f \in Brokers, NEW l, Fetches(f, l)
  PROVE  Typed' /\ raced \subseteq raced'
<1>1. /\ l \in Brokers /\ l # f /\ ~Leading(f)
      /\ UNCHANGED <<committed, image, isr, produced, acked>>
      /\ raced \subseteq raced' /\ raced' \subseteq AllRaces
      /\ log' \in [Brokers -> Seq(LogRecord)]
      /\ \A c \in Brokers \ {f} : log'[c] = log[c]
      /\ DOMAIN log'[f] = 1 .. Len(log'[f])
      /\ Len(log'[f]) \in {Len(log[f])} \cup (Len(log[f]) .. Len(log[l]))
      /\ \A i \in 1 .. Len(log[f]) : log'[f][i] = log[f][i]
      /\ \A i \in Len(log[f]) + 1 .. Len(log'[f]) : log'[f][i] = log[l][i]
  BY ZenonT(120) DEF Fetches
<1>2. \A c \in Brokers : TargetOf(c)' = TargetOf(c)
  BY <1>1, SameImages, ZenonT(120)
<1>3. TargetOf(f).leader # f
  BY <1>1, ImageType, ZenonT(120) DEF Typed, Leading
<1>4. \A c \in Brokers : /\ Len(log[c]) \in Nat /\ DOMAIN log[c] = 1 .. Len(log[c]) /\ Len(log[c]) <= produced
                         /\ \A i \in DOMAIN log[c] : log[c][i].offset = i
  BY LogType DEF Typed, Bounds
<1>5. /\ Len(log[f]) \in Nat /\ Len(log[l]) \in Nat /\ Len(log[f]) <= produced /\ Len(log[l]) <= produced
      /\ DOMAIN log[f] = 1 .. Len(log[f]) /\ DOMAIN log[l] = 1 .. Len(log[l])
  BY <1>1, <1>4, ZenonT(120)
<1>6. ASSUME NEW c \in Brokers, TargetOf(c)'.leader = c, NEW x \in DOMAIN stats'[c]
      PROVE  stats'[c][x].leo \in 0 .. Len(log'[c])
  <2>1. c # f /\ TargetOf(c).leader = c /\ log'[c] = log[c]
    BY <1>1, <1>2, <1>3, <1>6, ZenonT(120)
  <2>2. \/ x \in DOMAIN stats[c] /\ stats'[c][x] = stats[c][x]
        \/ c = l /\ stats'[c][x].leo \in 0 .. Len(log[l])
    BY <1>6, ZenonT(120) DEF Fetches
  <2>3. QED
    BY <2>1, <2>2, ZenonT(120) DEF Typed, TypeOK
<1>7. StatsTyped'
  BY ZenonT(120) DEF Fetches
<1>8. TypeOK'
  BY <1>1, <1>6, <1>7, ZenonT(120) DEF Typed, TypeOK, StatsTyped
<1>9. ASSUME NEW i \in DOMAIN log'[f] PROVE log'[f][i].offset = i
  <2>1. CASE i \in 1 .. Len(log[f])
    BY <1>1, <1>4, <1>5, <2>1, ZenonT(120)
  <2>2. CASE i \in Len(log[f]) + 1 .. Len(log'[f])
    <3>1. i \in 1 .. Len(log[l])
      BY <1>1, <1>5, <2>2
    <3>2. QED
      BY <1>1, <1>4, <1>5, <2>2, <3>1, ZenonT(120)
  <2>3. i \in 1 .. Len(log[f]) \/ i \in Len(log[f]) + 1 .. Len(log'[f])
    BY <1>1, <1>5, <1>9
  <2>4. QED
    BY <2>1, <2>2, <2>3, ZenonT(120)
<1>10. Len(log'[f]) <= produced
  <2>1. produced \in Nat
    BY DEF Typed, Bounds
  <2>2. QED
    BY <1>1, <1>5, <2>1
<1>11. \A c \in Brokers : Len(log'[c]) <= produced' /\ \A i \in DOMAIN log'[c] : log'[c][i].offset = i
  BY <1>1, <1>4, <1>9, <1>10, ZenonT(120)
<1>12. QED
  BY <1>1, <1>8, <1>11, ZenonT(120) DEF Typed, Bounds

LEMMA InitTyped ==
  ASSUME Init
  PROVE  Typed
<1>1. PICK l \in Brokers :
        /\ committed = <<Record(l, 0, Brokers)>>
        /\ image = [b \in Brokers |-> 1]
        /\ isr = [b \in Brokers |-> IF b = l THEN Brokers ELSE {}]
        /\ stats = [b \in Brokers |-> IF b = l THEN [f \in Brokers \ {l} |-> NewStats] ELSE << >>]
        /\ log = [b \in Brokers |-> << >>]
        /\ produced = 0 /\ acked = {} /\ raced = {}
  BY DEF Init
<1>2. Record(l, 0, Brokers) \in PartitionRecord /\ Record(l, 0, Brokers).epoch = 0
  BY BoundAssumption DEF Record, PartitionRecord
<1>3. committed \in Seq(PartitionRecord) /\ Len(committed) = 1 /\ DOMAIN committed = {1} /\ committed[1].epoch = 0
  BY <1>1, <1>2
<1>4. image \in [Brokers -> 1 .. Len(committed)] /\ isr \in [Brokers -> SUBSET Brokers]
  BY <1>1, <1>3
<1>5. NewStats \in FollowerStats /\ NewStats.leo = 0
  BY DEF NewStats, FollowerStats
<1>6. stats \in [Brokers -> Range(stats)]
  BY <1>1 DEF Range
<1>7. ASSUME NEW b \in Brokers
      PROVE  /\ DOMAIN stats[b] \subseteq Brokers /\ stats[b] \in [DOMAIN stats[b] -> FollowerStats]
             /\ \A f \in DOMAIN stats[b] : stats[b][f].leo = 0
  <2>1. CASE b = l
    BY <1>1, <1>5, <2>1
  <2>2. CASE b # l
    BY <1>1, <2>2
  <2>3. QED
    BY <2>1, <2>2
<1>8. log \in [Brokers -> Seq(LogRecord)] /\ \A b \in Brokers : Len(log[b]) = 0 /\ DOMAIN log[b] = {}
  BY <1>1
<1>81. acked \subseteq LogRecord /\ raced \subseteq AllRaces
  BY <1>1
<1>82. \A b \in Brokers : \A f \in DOMAIN stats[b] : stats[b][f].leo \in 0 .. Len(log[b])
  BY <1>7, <1>8
<1>9. TypeOK
  BY <1>3, <1>4, <1>6, <1>7, <1>8, <1>81, <1>82, ZenonT(120) DEF TypeOK
<1>10. Bounds
  BY <1>1, <1>3, <1>8, BoundAssumption DEF Bounds
<1>11. QED
  BY <1>9, <1>10 DEF Typed

LEMMA StepTyped ==
  ASSUME Typed, [Next]_vars
  PROVE  Typed' /\ raced \subseteq raced'
<1>1. CASE UNCHANGED vars
  BY <1>1, ZenonT(120) DEF vars, Typed, TypeOK, Bounds, TargetOf, Image
<1>2. ASSUME NEW b \in Brokers, Failover(b) \/ TransferLeader(b) \/ AlterPartition(b)
      PROVE  Typed' /\ raced \subseteq raced'
  <2>1. PICK k \in DOMAIN committed : \E record : Commits(k, record)
    BY <1>2, FailoverCommits, TransferCommits, AlterCommits
  <2>2. PICK record : Commits(k, record)
    BY <2>1
  <2>3. QED
    BY <2>2, CommitTyped DEF Commits
<1>3. ASSUME NEW b \in Brokers, InstallReplicationTarget(b) PROVE Typed' /\ raced \subseteq raced'
  BY <1>3, InstallTyped, ZenonT(120) DEF InstallReplicationTarget
<1>4. ASSUME NEW b \in Brokers, InstallIsr(b) PROVE Typed' /\ raced \subseteq raced'
  BY <1>4, InstallIsrTyped, ZenonT(120) DEF InstallIsr
<1>5. ASSUME NEW b \in Brokers, Restart(b) PROVE Typed' /\ raced \subseteq raced'
  BY <1>5, RestartTyped, ZenonT(120) DEF Restart
<1>6. ASSUME NEW b \in Brokers, Produce(b) PROVE Typed' /\ raced \subseteq raced'
  BY <1>6, ProduceTyped, ZenonT(120) DEF Produce
<1>7. ASSUME NEW b \in Brokers, NEW r \in Range(log[b]), Acknowledge(b, r) PROVE Typed' /\ raced \subseteq raced'
  BY <1>7, AcknowledgeTyped
<1>8. ASSUME NEW b \in Brokers, FetchFenced(b) PROVE Typed' /\ raced \subseteq raced'
  BY <1>8, FetchFencedEffect, TruncateTyped DEF Truncates
<1>9. ASSUME NEW b \in Brokers, FetchDiverging(b) PROVE Typed' /\ raced \subseteq raced'
  BY <1>9, FetchDivergingEffect, TruncateTyped, ZenonT(120) DEF Truncates
<1>10. ASSUME NEW b \in Brokers, FetchRecords(b) PROVE Typed' /\ raced \subseteq raced'
  BY <1>10, FetchRecordsFetches, FetchTyped, ZenonT(120)
<1>11. ASSUME NEW b \in Brokers, FetchLate(b) PROVE Typed' /\ raced \subseteq raced'
  BY <1>11, FetchLateFetches, FetchTyped, ZenonT(120)
<1>12. QED
  BY <1>1, <1>2, <1>3, <1>4, <1>5, <1>6, <1>7, <1>8, <1>9, <1>10, <1>11 DEF Next

\* Whatever races, every variable keeps its type, and what a leader has noted of a follower
\* (ReplicaState.per_follower) never passes the leader's own log end: a change of the target
\* clears the bookkeeping, and a broker truncates only below another leader.
THEOREM TypeCorrect == Spec => []TypeOK
<1>1. Init => Typed
  BY InitTyped
<1>2. Typed /\ [Next]_vars => Typed'
  BY StepTyped
<1>3. Typed => TypeOK
  BY DEF Typed
<1>4. QED
  BY <1>1, <1>2, <1>3, PTL DEF Spec

=============================================================================

-------------------------- MODULE PartitionProofs ---------------------------
(***************************************************************************)
(* An acks=all record outlives every clean election of its partition, for  *)
(* any replicas and any bounds, as long as none of the races of            *)
(* PartitionReplication happens.  The steps that change a log, and the     *)
(* theorems.                                                               *)
(***************************************************************************)
EXTENDS PartitionCommits

USE SMTT(120)

-----------------------------------------------------------------------------
(* Steps that append to a log.                                             *)

LogsExtended ==
  \A c \in Brokers : /\ Len(log[c]) \in Nat /\ Len(log'[c]) \in Nat /\ Len(log[c]) <= Len(log'[c])
                     /\ DOMAIN log[c] = 1 .. Len(log[c]) /\ DOMAIN log'[c] = 1 .. Len(log'[c])
                     /\ \A i \in 1 .. Len(log[c]) : log'[c][i] = log[c][i]

\* What two logs share and what a log holds survives an append.
LEMMA ExtendedKeeps ==
  ASSUME Safe, LogsExtended
  PROVE  /\ \A x, y \in Brokers : \A n \in Nat : Agree(x, y, n) => Agree(x, y, n)'
         /\ \A x \in Brokers : \A r \in LogRecord : Holds(x, r) => Holds(x, r)'
<1>1. ASSUME NEW x \in Brokers, NEW y \in Brokers, NEW n \in Nat, Agree(x, y, n) PROVE Agree(x, y, n)'
  <2>1. n <= Len(log[x]) /\ n <= Len(log[y]) /\ \A i \in 1 .. n : log[x][i] = log[y][i]
    BY <1>1 DEF Agree
  <2>2. \A i \in 1 .. n : i \in 1 .. Len(log[x]) /\ i \in 1 .. Len(log[y])
    BY <2>1 DEF LogsExtended
  <2>3. QED
    BY <2>1, <2>2 DEF Agree, LogsExtended
<1>2. ASSUME NEW x \in Brokers, NEW r \in LogRecord, Holds(x, r) PROVE Holds(x, r)'
  <2>1. r.offset \in DOMAIN log[x] /\ log[x][r.offset] = r /\ r.offset \in Nat /\ r.offset <= Len(log[x])
    BY <1>2, HoldsAt DEF Safe
  <2>2. QED
    BY <2>1 DEF Holds, LogsExtended
<1>3. QED
  BY <1>1, <1>2

\* Acknowledged records stay where they are.
LEMMA ExtendedSecured ==
  ASSUME Safe, LogsExtended, UNCHANGED <<committed, image, acked>>
  PROVE  AckedIsSecured'
<1> SUFFICES ASSUME NEW r \in acked PROVE \E m \in DOMAIN committed : Secured(r, m)'
  BY DEF AckedIsSecured
<1>1. PICK m \in DOMAIN committed : Secured(r, m)
  BY DEF Safe, RaceFree, AckedIsSecured
<1>2. /\ \A b : EpochOf(b)' = EpochOf(b)
      /\ \A k : Members(k)' = Members(k)
  BY SameImages
<1>3. \A k \in m .. Len(committed) : Members(k) \subseteq Brokers
  BY CommittedType DEF Safe, Typed
<1>4. r \in LogRecord
  BY DEF Safe, Typed, TypeOK
<1>5. Secured(r, m)'
  BY <1>1, <1>2, <1>3, <1>4, ExtendedKeeps DEF Secured
<1>6. QED
  BY <1>5

LEMMA ProduceSafe ==
  ASSUME Safe, NEW b \in Brokers, Produce(b)
  PROVE  RaceFree'
<1> PICK last : last = Len(log[b]) + 1
  OBVIOUS
<1>1. UNCHANGED <<committed, image, isr, stats, acked, raced>> /\ Leading(b)
  BY ProduceEffect, ZenonT(120) DEF Safe
<1>2. /\ log' \in [Brokers -> Seq(LogRecord)]
      /\ \A c \in Brokers \ {b} : log'[c] = log[c]
      /\ Len(log'[b]) = last /\ \A i \in 1 .. Len(log[b]) : log'[b][i] = log[b][i]
  BY ProduceEffect, ZenonT(120) DEF Safe
<1>3. log'[b][last].epoch = EpochOf(b)
  <2>1. log'[b][last] = [offset |-> last, epoch |-> EpochOf(b)]
    BY ProduceEffect DEF Safe
  <2>2. QED
    BY <2>1
<1>4. \A c \in Brokers : Len(log[c]) \in Nat /\ DOMAIN log[c] = 1 .. Len(log[c]) /\ DOMAIN log'[c] = 1 .. Len(log'[c])
  BY <1>2, LogType DEF Safe, Typed
<1>5. LogsExtended /\ last \in Nat /\ last > 0 /\ DOMAIN log'[b] = 1 .. last
  <2>1. last \in Nat /\ last > 0 /\ DOMAIN log'[b] = 1 .. last /\ Len(log[b]) <= last
    BY <1>2, <1>4
  <2>2. ASSUME NEW c \in Brokers, c # b
        PROVE  Len(log'[c]) \in Nat /\ Len(log[c]) <= Len(log'[c]) /\ \A i \in 1 .. Len(log[c]) : log'[c][i] = log[c][i]
    BY <1>2, <1>4, <2>2
  <2>3. QED
    BY <1>2, <1>4, <2>1, <2>2, ZenonT(120) DEF LogsExtended
<1>6. ASSUME NEW c \in Brokers, NEW i \in DOMAIN log'[c]
      PROVE  \/ i \in DOMAIN log[c] /\ log'[c][i] = log[c][i]
             \/ c = b /\ i = last /\ log'[c][i].epoch = EpochOf(b)
  BY <1>2, <1>3, <1>4, <1>5
<1>7. /\ \A c : EpochOf(c)' = EpochOf(c) /\ (Leading(c)' <=> Leading(c))
      /\ \A k : Members(k)' = Members(k) /\ (Ends(k)' <=> Ends(k))
  BY <1>1, SameImages
<1>8. /\ \A c \in Brokers : EpochOf(c) \in Nat
      /\ \A c \in Brokers : \A i \in DOMAIN log[c] : log[c][i].epoch \in Nat /\ log[c][i].epoch <= EpochOf(c)
  BY ImageType, LogType DEF Safe, Typed, RaceFree, LogsInOrder
<1>9. /\ \A x, y \in Brokers : \A n \in Nat : Agree(x, y, n) => Agree(x, y, n)'
      /\ \A x \in Brokers : \A r \in LogRecord : Holds(x, r) => Holds(x, r)'
  BY <1>5, ExtendedKeeps
<1>10. /\ \A k \in DOMAIN committed : /\ Members(k) \subseteq Brokers /\ committed[k].isr \subseteq Brokers
                                      /\ committed[k].leader \in Brokers /\ committed[k].epoch \in Nat
       /\ DOMAIN committed = 1 .. Len(committed) /\ Len(committed) \in Nat
  BY CommittedType DEF Safe, Typed
<1>11. EpochsInOrder'
  BY <1>1 DEF Safe, RaceFree, EpochsInOrder
<1>12. InsyncInherited'
  BY <1>1, <1>7 DEF Safe, RaceFree, InsyncInherited
<1>13. LogsInOrder'
  <2> SUFFICES ASSUME NEW c \in Brokers, NEW i \in DOMAIN log'[c]
               PROVE  /\ log'[c][i].epoch <= EpochOf(c)
                      /\ \A j \in i .. Len(log'[c]) : log'[c][i].epoch <= log'[c][j].epoch
    BY <1>7 DEF LogsInOrder
  <2>1. log'[c][i].epoch <= EpochOf(c)
    BY <1>6, <1>8
  <2>2. ASSUME NEW j \in i .. Len(log'[c]) PROVE log'[c][i].epoch <= log'[c][j].epoch
    <3>1. j \in DOMAIN log'[c] /\ i <= j /\ i \in Nat /\ j \in Nat
      BY <1>4, <1>5
    <3>2. CASE c = b /\ j = last
      BY <1>3, <2>1, <3>2
    <3>3. CASE j \in DOMAIN log[c] /\ log'[c][j] = log[c][j]
      <4>1. i \in DOMAIN log[c] /\ j \in i .. Len(log[c])
        BY <1>4, <3>1, <3>3
      <4>2. log'[c][i] = log[c][i]
        BY <1>5, <4>1, ZenonT(120) DEF LogsExtended
      <4>3. QED
        BY <3>3, <4>1, <4>2 DEF Safe, RaceFree, LogsInOrder
    <3>4. QED
      BY <1>6, <3>1, <3>2, <3>3
  <2>3. QED
    BY <2>1, <2>2
<1>14. EpochsAreLed'
  <2> SUFFICES ASSUME NEW c \in Brokers, NEW k \in DOMAIN committed, NEW i \in DOMAIN log'[c],
                      log'[c][i].epoch = committed[k].epoch
               PROVE  EpochOf(committed[k].leader) >= committed[k].epoch
    BY <1>1, <1>7 DEF EpochsAreLed
  <2>1. CASE i \in DOMAIN log[c] /\ log'[c][i] = log[c][i]
    BY <2>1 DEF Safe, RaceFree, EpochsAreLed
  <2>2. CASE log'[c][i].epoch = EpochOf(b)
    <3>1. committed[k].leader = b
      BY <1>1, <2>2, LeaderOfEpoch, ZenonT(120) DEF Leading
    <3>2. QED
      BY <1>8, <2>2, <3>1
  <2>3. QED
    BY <1>6, <2>1, <2>2
<1>15. LeaderHasEpoch'
  <2> SUFFICES ASSUME NEW l \in Brokers, NEW c \in Brokers, Leading(l), NEW i \in DOMAIN log'[c],
                      log'[c][i].epoch = EpochOf(l)
               PROVE  i <= Len(log'[l]) /\ log'[l][i] = log'[c][i]
    BY <1>7 DEF LeaderHasEpoch
  <2>1. CASE i \in DOMAIN log[c] /\ log'[c][i] = log[c][i]
    <3>1. i <= Len(log[l]) /\ log[l][i] = log[c][i] /\ i \in Nat /\ i > 0
      BY <1>4, <2>1 DEF Safe, RaceFree, LeaderHasEpoch
    <3>2. QED
      BY <1>5, <2>1, <3>1 DEF LogsExtended
  <2>2. CASE c = b /\ i = last /\ log'[c][i].epoch = EpochOf(b)
    <3>1. l = b
      BY <1>1, <2>2, SameLeader DEF Leading
    <3>2. QED
      BY <1>2, <1>5, <2>2, <3>1
  <2>3. QED
    BY <1>6, <2>1, <2>2
<1>16. LogMatching'
  <2> SUFFICES ASSUME NEW x \in Brokers, NEW y \in Brokers, NEW i \in DOMAIN log'[x], NEW j \in DOMAIN log'[y],
                      i <= j, log'[x][i].epoch = log'[y][j].epoch
               PROVE  Agree(x, y, i)'
    BY DEF LogMatching
  <2>1. i \in Nat /\ j \in Nat /\ i > 0 /\ i <= Len(log'[x]) /\ j <= Len(log'[y]) /\ Len(log'[x]) \in Nat
    BY <1>4, <1>5 DEF LogsExtended
  <2>2. CASE x = y
    BY <2>1, <2>2 DEF Agree
  <2>3. CASE /\ i \in DOMAIN log[x] /\ log'[x][i] = log[x][i]
             /\ j \in DOMAIN log[y] /\ log'[y][j] = log[y][j]
    BY <1>9, <2>1, <2>3 DEF Safe, RaceFree, LogMatching
  <2>4. CASE x # y /\ x = b /\ i = last
    <3>1. y # b /\ log[y][j].epoch = EpochOf(b) /\ j \in DOMAIN log[y]
      BY <1>2, <1>3, <2>4
    <3>2. j <= Len(log[b])
      BY <1>1, <3>1 DEF Safe, RaceFree, LeaderHasEpoch
    <3>3. QED
      BY <1>4, <2>1, <2>4, <3>2
  <2>5. CASE x # y /\ y = b /\ j = last
    <3>1. x # b /\ log[x][i].epoch = EpochOf(b) /\ i \in DOMAIN log[x]
      BY <1>2, <1>3, <2>5
    <3>2. i <= Len(log[b]) /\ log[b][i] = log[x][i]
      BY <1>1, <3>1 DEF Safe, RaceFree, LeaderHasEpoch
    <3>3. i \in DOMAIN log[b]
      BY <1>4, <2>1, <3>2
    <3>4. Agree(x, b, i)
      BY <2>1, <3>1, <3>2, <3>3 DEF Safe, RaceFree, LogMatching
    <3>5. QED
      BY <1>9, <2>1, <2>5, <3>4
  <2>6. QED
    BY <1>6, <2>2, <2>3, <2>4, <2>5
<1>17. ProgressIsTrue'
  <2>1. \A l \in Brokers : \A f \in DOMAIN stats[l] : f \in Brokers /\ stats[l][f].leo \in Nat
    BY StatsType DEF Safe, Typed, TypeOK, StatsTyped
  <2>2. QED
    BY <1>1, <1>7, <1>9, <2>1, ZenonT(120) DEF Safe, RaceFree, ProgressIsTrue
<1>18. CarriedOn'
  <2> SUFFICES ASSUME NEW l \in Brokers, NEW m \in DOMAIN committed,
                      Leading(l), committed[m].epoch = EpochOf(l), Ends(m),
                      NEW n \in DOMAIN log'[l], LeftWith(l, m, n),
                      NEW k \in m .. Len(committed), NEW x \in Members(k), NEW r, r = log'[l][n]
               PROVE  IF EpochOf(x) > EpochOf(l) THEN Holds(x, r)' ELSE x \in committed[m].isr \cup {l}
    BY <1>1, <1>7 DEF CarriedOn, LeftWith, Holds
  <2>1. x \in Brokers /\ k \in DOMAIN committed
    BY <1>10
  <2>2. CASE n \in DOMAIN log[l] /\ log'[l][n] = log[l][n]
    <3>1. IF EpochOf(x) > EpochOf(l) THEN Holds(x, log[l][n]) ELSE x \in committed[m].isr \cup {l}
      BY <2>2, ZenonT(120) DEF Safe, RaceFree, CarriedOn
    <3>2. log[l][n] \in LogRecord
      BY <2>2, RecordAt DEF Safe
    <3>3. QED
      BY <1>9, <2>1, <2>2, <3>1, <3>2, ZenonT(120)
  <2>3. CASE l = b /\ n = last
    <3>1. ASSUME NEW y \in committed[m].isr \ {b} PROVE ~(EpochOf(y) > EpochOf(b))
      <4>1. SUFFICES ASSUME EpochOf(y) > EpochOf(b) PROVE FALSE
        OBVIOUS
      <4>2. y \in DOMAIN stats[b] /\ stats[b][y].leo >= last
        BY <2>3, <3>1, <4>1 DEF LeftWith
      <4>3. TargetOf(b).leader = b
        BY <1>1, ImageType, ZenonT(120) DEF Leading, Safe, Typed
      <4>4. stats[b][y].leo \in 0 .. Len(log[b])
        BY <4>2, <4>3 DEF Safe, Typed, TypeOK
      <4>5. QED
        BY <1>4, <4>2, <4>4
    <3>2. \A y \in committed[m].isr : EpochOf(y) <= committed[m].epoch
      BY <1>8, <1>10, <2>3, <3>1
    <3>3. \A h \in DOMAIN committed : h > m => Members(h) \subseteq committed[m].isr
      BY <3>2 DEF Safe, RaceFree, InsyncInherited
    <3>4. committed[m].leader = b
      BY <1>1, <2>3, LeaderOfEpoch DEF Leading
    <3>5. x \in committed[m].isr \cup {b}
      <4>1. CASE k = m
        BY <3>4, <4>1 DEF Members
      <4>2. CASE k > m
        BY <2>1, <3>3, <4>2
      <4>3. QED
        BY <1>10, <4>1, <4>2
    <3>6. ~(EpochOf(x) > EpochOf(l))
      BY <1>8, <2>3, <3>1, <3>5
    <3>7. QED
      BY <2>3, <3>5, <3>6
  <2>4. QED
    BY <1>6, <2>2, <2>3
<1>19. AckedIsSecured'
  BY <1>1, <1>5, ExtendedSecured
<1>20. QED
  BY <1>11, <1>12, <1>13, <1>14, <1>15, <1>16, <1>17, <1>18, <1>19 DEF RaceFree

\* A follower appends a part of its leader's log to its own, a prefix of it.
LEMMA FetchRecordsSafe ==
  ASSUME Safe, NEW f \in Brokers, FetchRecords(f)
  PROVE  RaceFree'
<1> PICK l : l = Image(f).leader
  OBVIOUS
<1>1. /\ l \in Brokers /\ l # f /\ ~Leading(f) /\ EpochOf(f) = EpochOf(l) /\ ~Diverges(l, f)
      /\ UNCHANGED <<committed, image, isr, produced, acked, raced>>
  BY FetchRecordsEffect DEF Safe
<1>2. /\ StatsTyped' /\ \A c \in Brokers \ {l} : stats'[c] = stats[c]
      /\ DOMAIN stats'[l] = DOMAIN stats[l] \cup {f}
      /\ \A x \in DOMAIN stats[l] \ {f} : stats'[l][x] = stats[l][x]
      /\ stats'[l][f].leo = Len(log[f])
  BY FetchRecordsEffect, ZenonT(120) DEF Safe
<1>3. /\ log' \in [Brokers -> Seq(LogRecord)]
      /\ \A c \in Brokers \ {f} : log'[c] = log[c]
      /\ Len(log'[f]) \in Len(log[f]) .. Len(log[l])
      /\ \A i \in 1 .. Len(log[f]) : log'[f][i] = log[f][i]
      /\ \A i \in Len(log[f]) + 1 .. Len(log'[f]) : log'[f][i] = log[l][i]
  BY FetchRecordsEffect, ZenonT(120) DEF Safe
<1>4. \A c \in Brokers : Len(log[c]) \in Nat /\ DOMAIN log[c] = 1 .. Len(log[c]) /\ DOMAIN log'[c] = 1 .. Len(log'[c])
  BY <1>3, LogType DEF Safe, Typed
<1>5. LogsExtended
  <2>1. Len(log'[f]) \in Nat /\ Len(log[f]) <= Len(log'[f])
    BY <1>1, <1>3, <1>4
  <2>2. ASSUME NEW c \in Brokers, c # f
        PROVE  Len(log'[c]) \in Nat /\ Len(log[c]) <= Len(log'[c]) /\ \A i \in 1 .. Len(log[c]) : log'[c][i] = log[c][i]
    BY <1>3, <1>4, <2>2
  <2>3. QED
    BY <1>3, <1>4, <2>1, <2>2, ZenonT(120) DEF LogsExtended
<1>6. \A i \in 1 .. Len(log[f]) : log[f][i] = log[l][i]
  <2>1. log[f] = << >> \/ Agree(f, l, Len(log[f]))
    BY <1>1, NotDiverging DEF Safe, Typed, RaceFree
  <2>2. QED
    BY <1>4, <2>1 DEF Agree
<1>7. \A i \in DOMAIN log'[f] : i \in DOMAIN log[l] /\ log'[f][i] = log[l][i]
  <2> SUFFICES ASSUME NEW i \in DOMAIN log'[f] PROVE i \in DOMAIN log[l] /\ log'[f][i] = log[l][i]
    OBVIOUS
  <2>1. i \in 1 .. Len(log'[f]) /\ i \in DOMAIN log[l]
    BY <1>1, <1>3, <1>4
  <2>2. CASE i \in 1 .. Len(log[f])
    BY <1>3, <1>6, <2>1, <2>2
  <2>3. CASE i \in Len(log[f]) + 1 .. Len(log'[f])
    BY <1>3, <2>1, <2>3
  <2>4. QED
    BY <1>4, <1>5, <2>1, <2>2, <2>3 DEF LogsExtended
<1>8. ASSUME NEW c \in Brokers
      PROVE  \E d \in Brokers : /\ EpochOf(d) = EpochOf(c)
                                /\ \A i \in DOMAIN log'[c] : i \in DOMAIN log[d] /\ log'[c][i] = log[d][i]
  <2>1. CASE c = f
    BY <1>1, <1>7, <2>1, ZenonT(120)
  <2>2. CASE c # f
    BY <1>3, <2>2, ZenonT(120)
  <2>3. QED
    BY <2>1, <2>2
<1>9. /\ \A c : EpochOf(c)' = EpochOf(c) /\ (Leading(c)' <=> Leading(c))
      /\ \A k : Members(k)' = Members(k) /\ (Ends(k)' <=> Ends(k))
  BY <1>1, SameImages
<1>10. /\ \A x, y \in Brokers : \A n \in Nat : Agree(x, y, n) => Agree(x, y, n)'
       /\ \A x \in Brokers : \A r \in LogRecord : Holds(x, r) => Holds(x, r)'
  BY <1>5, ExtendedKeeps
<1>11. EpochsInOrder' /\ InsyncInherited'
  BY <1>1, <1>9 DEF Safe, RaceFree, EpochsInOrder, InsyncInherited
<1>12. LogsInOrder'
  <2> SUFFICES ASSUME NEW c \in Brokers, NEW i \in DOMAIN log'[c]
               PROVE  /\ log'[c][i].epoch <= EpochOf(c)
                      /\ \A j \in i .. Len(log'[c]) : log'[c][i].epoch <= log'[c][j].epoch
    BY <1>9, ZenonT(120) DEF LogsInOrder
  <2>1. PICK d \in Brokers : /\ EpochOf(d) = EpochOf(c)
                             /\ \A j \in DOMAIN log'[c] : j \in DOMAIN log[d] /\ log'[c][j] = log[d][j]
    BY <1>8
  <2>2. log'[c][i].epoch <= EpochOf(c)
    BY <2>1 DEF Safe, RaceFree, LogsInOrder
  <2>3. ASSUME NEW j \in i .. Len(log'[c]) PROVE log'[c][i].epoch <= log'[c][j].epoch
    <3>1. j \in DOMAIN log'[c] /\ j \in Nat /\ i \in Nat /\ i <= j
      BY <1>4, <1>5 DEF LogsExtended
    <3>2. j \in i .. Len(log[d])
      BY <1>4, <2>1, <3>1
    <3>3. QED
      BY <2>1, <3>1, <3>2, ZenonT(120) DEF Safe, RaceFree, LogsInOrder
  <2>4. QED
    BY <2>2, <2>3
<1>13. EpochsAreLed'
  <2> SUFFICES ASSUME NEW c \in Brokers, NEW k \in DOMAIN committed, NEW i \in DOMAIN log'[c],
                      log'[c][i].epoch = committed[k].epoch
               PROVE  EpochOf(committed[k].leader) >= committed[k].epoch
    BY <1>1, <1>9, ZenonT(120) DEF EpochsAreLed
  <2>1. PICK d \in Brokers : i \in DOMAIN log[d] /\ log'[c][i] = log[d][i]
    BY <1>8
  <2>2. QED
    BY <2>1 DEF Safe, RaceFree, EpochsAreLed
<1>14. LeaderHasEpoch'
  <2> SUFFICES ASSUME NEW p \in Brokers, NEW c \in Brokers, Leading(p), NEW i \in DOMAIN log'[c],
                      log'[c][i].epoch = EpochOf(p)
               PROVE  i <= Len(log'[p]) /\ log'[p][i] = log'[c][i]
    BY <1>9 DEF LeaderHasEpoch
  <2>1. PICK d \in Brokers : i \in DOMAIN log[d] /\ log'[c][i] = log[d][i]
    BY <1>8
  <2>2. log'[p] = log[p]
    BY <1>1, <1>3
  <2>3. QED
    BY <2>1, <2>2 DEF Safe, RaceFree, LeaderHasEpoch
<1>15. LogMatching'
  <2> SUFFICES ASSUME NEW x \in Brokers, NEW y \in Brokers, NEW i \in DOMAIN log'[x], NEW j \in DOMAIN log'[y],
                      i <= j, log'[x][i].epoch = log'[y][j].epoch
               PROVE  Agree(x, y, i)'
    BY ZenonT(120) DEF LogMatching
  <2>1. PICK u \in Brokers : \A h \in DOMAIN log'[x] : h \in DOMAIN log[u] /\ log'[x][h] = log[u][h]
    BY <1>8
  <2>2. PICK v \in Brokers : \A h \in DOMAIN log'[y] : h \in DOMAIN log[v] /\ log'[y][h] = log[v][h]
    BY <1>8
  <2>3. Agree(u, v, i)
    BY <2>1, <2>2 DEF Safe, RaceFree, LogMatching
  <2>4. /\ i \in Nat /\ j \in Nat /\ i <= Len(log'[x]) /\ j <= Len(log'[y])
        /\ Len(log'[x]) \in Nat /\ Len(log'[y]) \in Nat
    BY <1>4, <1>5 DEF LogsExtended
  <2>5. \A h \in 1 .. i : h \in DOMAIN log'[x] /\ h \in DOMAIN log'[y]
    BY <1>4, <2>4
  <2>6. i <= Len(log'[y])
    BY <2>4
  <2>7. \A h \in 1 .. i : log'[x][h] = log'[y][h]
    BY <2>1, <2>2, <2>3, <2>5, ZenonT(120) DEF Agree
  <2>8. QED
    BY <2>4, <2>6, <2>7, ZenonT(120) DEF Agree
<1>16. ProgressIsTrue'
  <2> SUFFICES ASSUME NEW p \in Brokers, Leading(p), NEW g \in DOMAIN stats'[p], stats'[p][g].leo > 0,
                      NEW n, n = stats'[p][g].leo
               PROVE  /\ EpochOf(g) >= EpochOf(p)
                      /\ EpochOf(g) = EpochOf(p) => Agree(p, g, n)'
    BY <1>9, ZenonT(120) DEF ProgressIsTrue, Agree
  <2>1. CASE p = l /\ g = f
    <3>1. n = Len(log[f]) /\ n \in Nat /\ EpochOf(g) = EpochOf(p) /\ EpochOf(p) \in Nat
      BY <1>1, <1>2, <1>4, <2>1, ImageType, ZenonT(120) DEF Safe, Typed
    <3>2. n <= Len(log[f]) /\ n <= Len(log[l])
      BY <1>1, <1>3, <1>4, <3>1
    <3>3. Agree(l, f, n)
      BY <1>6, <3>1, <3>2 DEF Agree
    <3>4. QED
      BY <1>1, <1>10, <2>1, <3>1, <3>3, AtMostSelf, ZenonT(120)
  <2>2. CASE p # l \/ g # f
    <3>1. g \in DOMAIN stats[p] /\ stats'[p][g] = stats[p][g]
      BY <1>2, <2>2
    <3>2. g \in Brokers /\ n \in Nat
      BY <1>2, <3>1, StatsType, ZenonT(120) DEF Safe, Typed, TypeOK, StatsTyped
    <3>3. EpochOf(g) >= EpochOf(p) /\ (EpochOf(g) = EpochOf(p) => Agree(p, g, n))
      BY <3>1, ZenonT(120) DEF Safe, RaceFree, ProgressIsTrue
    <3>4. QED
      BY <1>10, <3>2, <3>3
  <2>3. QED
    BY <2>1, <2>2
<1>17. CarriedOn'
  <2>0. SUFFICES ASSUME NEW p \in Brokers, NEW m \in DOMAIN committed,
                        Leading(p), committed[m].epoch = EpochOf(p), Ends(m),
                        NEW n \in DOMAIN log'[p], LeftWith(p, m, n)',
                        NEW k \in m .. Len(committed), NEW x \in Members(k), NEW r, r = log'[p][n]
                 PROVE  IF EpochOf(x) > EpochOf(p) THEN Holds(x, r)' ELSE x \in committed[m].isr \cup {p}
    <3>0. SUFFICES ASSUME NEW p \in Brokers, NEW m \in DOMAIN committed', Leading(p)', Ends(m)',
                          committed'[m].epoch = EpochOf(p)', NEW n \in DOMAIN log'[p], LeftWith(p, m, n)',
                          NEW k \in m .. Len(committed'), NEW x \in Members(k)'
                   PROVE  IF EpochOf(x)' > EpochOf(p)' THEN Holds(x, log[p][n])'
                                                       ELSE x \in committed'[m].isr \cup {p}
      BY ZenonT(120) DEF CarriedOn
    <3>1. PICK r : r = log'[p][n]
      OBVIOUS
    <3>2. Holds(x, log[p][n])' <=> Holds(x, r)'
      BY <3>1 DEF Holds
    <3>3. QED
      BY <1>1, <1>9, <3>0, <3>1, <3>2, ZenonT(120)
  <2>1. p # f /\ log'[p] = log[p] /\ x \in Brokers /\ committed[m].isr \subseteq Brokers
    <3>1. p # f /\ log'[p] = log[p]
      BY <1>1, <1>3, <2>0, ZenonT(120)
    <3>2. Members(k) \subseteq Brokers /\ committed[m].isr \subseteq Brokers
      BY <2>0, CommittedType DEF Safe, Typed
    <3>3. QED
      BY <2>0, <3>1, <3>2, ZenonT(120)
  <2>2. LeftWith(p, m, n)
    <3> SUFFICES ASSUME NEW y \in committed[m].isr \ {p}, EpochOf(y) > EpochOf(p)
                 PROVE  y \in DOMAIN stats[p] /\ stats[p][y].leo >= n
      BY <2>0, ZenonT(120) DEF LeftWith
    <3>1. y \in DOMAIN stats'[p] /\ stats'[p][y].leo >= n
      BY <1>1, <1>9, <2>0, ZenonT(120) DEF LeftWith
    <3>2. ~(p = l /\ y = f)
      BY <1>1, ImageType, AtMostSelf, ZenonT(120) DEF Safe, Typed
    <3>3. QED
      BY <1>2, <3>1, <3>2, ZenonT(120)
  <2>3. IF EpochOf(x) > EpochOf(p) THEN Holds(x, r) ELSE x \in committed[m].isr \cup {p}
    BY <2>0, <2>1, <2>2, ZenonT(120) DEF Safe, RaceFree, CarriedOn
  <2>4. r \in LogRecord
    BY <2>0, <2>1, RecordAt, ZenonT(120) DEF Safe
  <2>5. QED
    BY <1>10, <2>1, <2>3, <2>4, ZenonT(120)
<1>18. AckedIsSecured'
  BY <1>1, <1>5, ExtendedSecured
<1>19. QED
  BY <1>11, <1>12, <1>13, <1>14, <1>15, <1>16, <1>17, <1>18 DEF RaceFree

-----------------------------------------------------------------------------
(* Truncation.                                                             *)

\* A truncation keeps what the follower and its leader both hold.
KeepsShared(f, l) == \A r \in LogRecord : Holds(f, r) /\ Holds(l, r) => Holds(f, r)'

LEMMA TruncateSafe ==
  ASSUME Safe, NEW f \in Brokers, NEW l, NEW end, Truncates(f, l, end),
         KeepsShared(f, l), EpochOf(l) >= EpochOf(f)
  PROVE  RaceFree'
<1>1. /\ l \in Brokers /\ Image(f).leader = l /\ l # f /\ ~Leading(f)
      /\ UNCHANGED <<committed, image, isr, stats, produced, acked>>
  BY DEF Truncates
<1>2. /\ \A c \in Brokers \ {f} : log'[c] = log[c]
      /\ Len(log'[f]) <= Len(log[f]) /\ Len(log'[f]) \in Nat /\ DOMAIN log'[f] = 1 .. Len(log'[f])
      /\ \A i \in DOMAIN log'[f] : i \in DOMAIN log[f] /\ log'[f][i] = log[f][i]
  BY TruncateEffect, ZenonT(120) DEF Truncates, Safe
<1>3. \A c \in Brokers : Len(log[c]) \in Nat /\ DOMAIN log[c] = 1 .. Len(log[c])
  BY LogType DEF Safe, Typed
<1>4. \A c \in Brokers : /\ DOMAIN log'[c] = 1 .. Len(log'[c]) /\ Len(log'[c]) \in Nat
                         /\ Len(log'[c]) <= Len(log[c])
                         /\ \A i \in DOMAIN log'[c] : i \in DOMAIN log[c] /\ log'[c][i] = log[c][i]
  BY <1>2, <1>3
<1>5. /\ \A c : EpochOf(c)' = EpochOf(c) /\ (Leading(c)' <=> Leading(c))
      /\ \A k : Members(k)' = Members(k) /\ (Ends(k)' <=> Ends(k))
  BY <1>1, SameImages
<1>6. ASSUME NEW x \in Brokers, NEW r \in LogRecord, Holds(x, r), x = f => Holds(l, r)
      PROVE  Holds(x, r)'
  <2>1. CASE x = f
    BY <1>6, <2>1 DEF KeepsShared
  <2>2. CASE x # f
    BY <1>2, <1>6, <2>2 DEF Holds
  <2>3. QED
    BY <2>1, <2>2
<1>7. EpochsInOrder' /\ InsyncInherited'
  BY <1>1, <1>5, ZenonT(120) DEF Safe, RaceFree, EpochsInOrder, InsyncInherited
<1>8. LogsInOrder'
  <2> SUFFICES ASSUME NEW c \in Brokers, NEW i \in DOMAIN log'[c]
               PROVE  /\ log'[c][i].epoch <= EpochOf(c)
                      /\ \A j \in i .. Len(log'[c]) : log'[c][i].epoch <= log'[c][j].epoch
    BY <1>5 DEF LogsInOrder
  <2>1. log'[c][i].epoch <= EpochOf(c)
    BY <1>4, ZenonT(120) DEF Safe, RaceFree, LogsInOrder
  <2>2. ASSUME NEW j \in i .. Len(log'[c]) PROVE log'[c][i].epoch <= log'[c][j].epoch
    <3>1. j \in DOMAIN log'[c] /\ j \in i .. Len(log[c])
      BY <1>3, <1>4
    <3>2. QED
      BY <1>4, <3>1, ZenonT(120) DEF Safe, RaceFree, LogsInOrder
  <2>3. QED
    BY <2>1, <2>2, ZenonT(120)
<1>9. EpochsAreLed'
  <2> SUFFICES ASSUME NEW c \in Brokers, NEW k \in DOMAIN committed, NEW i \in DOMAIN log'[c],
                      log'[c][i].epoch = committed[k].epoch
               PROVE  EpochOf(committed[k].leader) >= committed[k].epoch
    BY <1>1, <1>5, ZenonT(120) DEF EpochsAreLed
  <2>1. QED
    BY <1>4, ZenonT(120) DEF Safe, RaceFree, EpochsAreLed
<1>10. LeaderHasEpoch'
  <2> SUFFICES ASSUME NEW p \in Brokers, NEW c \in Brokers, Leading(p), NEW i \in DOMAIN log'[c],
                      log'[c][i].epoch = EpochOf(p)
               PROVE  i <= Len(log'[p]) /\ log'[p][i] = log'[c][i]
    BY <1>5, ZenonT(120) DEF LeaderHasEpoch
  <2>1. log'[p] = log[p]
    BY <1>1, <1>2, ZenonT(120)
  <2>2. i \in DOMAIN log[c] /\ log'[c][i] = log[c][i]
    BY <1>4, ZenonT(120)
  <2>3. i <= Len(log[p]) /\ log[p][i] = log[c][i]
    BY <2>2, ZenonT(120) DEF Safe, RaceFree, LeaderHasEpoch
  <2>4. QED
    BY <2>1, <2>2, <2>3, ZenonT(120)
<1>11. LogMatching'
  <2> SUFFICES ASSUME NEW x \in Brokers, NEW y \in Brokers, NEW i \in DOMAIN log'[x], NEW j \in DOMAIN log'[y],
                      i <= j, log'[x][i].epoch = log'[y][j].epoch
               PROVE  Agree(x, y, i)'
    BY ZenonT(120) DEF LogMatching
  <2>0. i \in DOMAIN log[x] /\ j \in DOMAIN log[y] /\ log[x][i].epoch = log[y][j].epoch
    BY <1>4, ZenonT(120)
  <2>1. Agree(x, y, i)
    BY <2>0, ZenonT(120) DEF Safe, RaceFree, LogMatching
  <2>2. i \in Nat /\ j \in Nat /\ i <= Len(log'[x]) /\ j <= Len(log'[y])
    BY <1>4
  <2>3. \A h \in 1 .. i : h \in DOMAIN log'[x] /\ h \in DOMAIN log'[y]
    BY <1>4, <2>2
  <2>4. \A h \in 1 .. i : log'[x][h] = log[x][h] /\ log'[y][h] = log[y][h]
    BY <1>4, <2>3, ZenonT(120)
  <2>5. \A h \in 1 .. i : log[x][h] = log[y][h]
    BY <2>1, ZenonT(120) DEF Agree
  <2>6. Len(log'[y]) \in Nat /\ i <= Len(log'[y])
    BY <1>4, <2>2
  <2>7. QED
    BY <2>2, <2>4, <2>5, <2>6, ZenonT(120) DEF Agree
<1>12. ProgressIsTrue'
  <2> SUFFICES ASSUME NEW p \in Brokers, Leading(p), NEW g \in DOMAIN stats[p], stats[p][g].leo > 0,
                      NEW n, n = stats[p][g].leo
               PROVE  /\ EpochOf(g) >= EpochOf(p)
                      /\ EpochOf(g) = EpochOf(p) => Agree(p, g, n)'
    <3>0. SUFFICES ASSUME NEW p \in Brokers, Leading(p)', NEW g \in DOMAIN stats'[p], stats'[p][g].leo > 0
                   PROVE  /\ EpochOf(g)' >= EpochOf(p)'
                          /\ EpochOf(g)' = EpochOf(p)' => Agree(p, g, stats[p][g].leo)'
      BY ZenonT(120) DEF ProgressIsTrue
    <3>1. PICK n : n = stats[p][g].leo
      OBVIOUS
    <3>2. Agree(p, g, stats[p][g].leo)' <=> Agree(p, g, n)'
      BY <1>1, <3>1, ZenonT(120) DEF Agree
    <3>3. QED
      BY <1>1, <1>5, <3>0, <3>1, <3>2, ZenonT(120)
  <2>1. EpochOf(g) >= EpochOf(p) /\ (EpochOf(g) = EpochOf(p) => Agree(p, g, n))
    BY ZenonT(120) DEF Safe, RaceFree, ProgressIsTrue
  <2>2. g \in Brokers /\ n \in Nat /\ n > 0
    BY StatsType, ZenonT(120) DEF Safe, Typed, TypeOK, StatsTyped
  <2>3. ASSUME EpochOf(g) = EpochOf(p) PROVE Agree(p, g, n)'
    <3>1. Agree(p, g, n) /\ log'[p] = log[p]
      BY <1>1, <1>2, <2>1, <2>3, ZenonT(120)
    <3>2. CASE g # f
      BY <1>2, <2>2, <3>1, <3>2, ZenonT(120) DEF Agree
    <3>3. CASE g = f
      <4>1. p = l
        BY <1>1, <2>3, <3>3, SameLeader, ZenonT(120) DEF Leading
      <4>2. n \in DOMAIN log[f] /\ n \in DOMAIN log[l] /\ log[f][n] = log[l][n]
        <5>1. n \in 1 .. n /\ \A k \in Nat : n <= k => n \in 1 .. k
          BY <2>2, UpTo, AtMostSelf, ZenonT(120)
        <5>2. QED
          BY <1>1, <1>3, <3>1, <3>3, <4>1, <5>1, ZenonT(120) DEF Agree
      <4>3. Holds(f, log[f][n]) /\ Holds(l, log[f][n]) /\ log[f][n] \in LogRecord /\ log[f][n].offset = n
        BY <1>1, <4>2, RecordAt, ZenonT(120) DEF Safe
      <4>4. PICK r \in LogRecord : r = log[f][n]
        BY <4>3, ZenonT(120)
      <4>5. Holds(f, r)'
        BY <4>3, <4>4, ZenonT(120) DEF KeepsShared
      <4>6. n <= Len(log'[f])
        BY <4>3, <4>4, <4>5, ZenonT(120) DEF Holds
      <4>7. \A i \in 1 .. n : i \in DOMAIN log'[f]
        BY <1>2, <2>2, <4>6, UpTo, ZenonT(120)
      <4>8. QED
        BY <1>2, <3>1, <3>3, <4>6, <4>7, ZenonT(120) DEF Agree
    <3>4. QED
      BY <3>2, <3>3, ZenonT(120)
  <2>4. QED
    BY <2>1, <2>3, ZenonT(120)
<1>13. CarriedOn'
  <2>0. SUFFICES ASSUME NEW p \in Brokers, NEW m \in DOMAIN committed,
                        Leading(p), committed[m].epoch = EpochOf(p), Ends(m),
                        NEW n \in DOMAIN log'[p], LeftWith(p, m, n),
                        NEW k \in m .. Len(committed), NEW x \in Members(k), NEW r, r = log'[p][n]
                 PROVE  IF EpochOf(x) > EpochOf(p) THEN Holds(x, r)' ELSE x \in committed[m].isr \cup {p}
    <3>0. SUFFICES ASSUME NEW p \in Brokers, NEW m \in DOMAIN committed', Leading(p)', Ends(m)',
                          committed'[m].epoch = EpochOf(p)', NEW n \in DOMAIN log'[p], LeftWith(p, m, n)',
                          NEW k \in m .. Len(committed'), NEW x \in Members(k)'
                   PROVE  IF EpochOf(x)' > EpochOf(p)' THEN Holds(x, log[p][n])'
                                                       ELSE x \in committed'[m].isr \cup {p}
      BY ZenonT(120) DEF CarriedOn
    <3>1. PICK r : r = log'[p][n]
      OBVIOUS
    <3>2. Holds(x, log[p][n])' <=> Holds(x, r)'
      BY <3>1 DEF Holds
    <3>3. LeftWith(p, m, n)
      BY <1>1, <1>5, <3>0, ZenonT(120) DEF LeftWith
    <3>4. QED
      BY <1>1, <1>5, <3>0, <3>1, <3>2, <3>3, ZenonT(120)
  <2>1. p # f /\ log'[p] = log[p] /\ x \in Brokers
    <3>1. p # f /\ log'[p] = log[p]
      BY <1>1, <1>2, <2>0, ZenonT(120)
    <3>2. Members(k) \subseteq Brokers
      BY <2>0, CommittedType DEF Safe, Typed
    <3>3. QED
      BY <2>0, <3>1, <3>2, ZenonT(120)
  <2>2. r \in LogRecord /\ r = log[p][n] /\ n \in DOMAIN log[p]
    BY <2>0, <2>1, RecordAt, ZenonT(120) DEF Safe
  <2>a. CarriedOn
    BY ZenonT(120) DEF Safe, RaceFree
  <2>3. \A h \in m .. Len(committed) : \A y \in Members(h) :
          IF EpochOf(y) > EpochOf(p) THEN Holds(y, r) ELSE y \in committed[m].isr \cup {p}
    <3>1. \A h \in m .. Len(committed) : \A y \in Members(h) :
            IF EpochOf(y) > EpochOf(p) THEN Holds(y, log[p][n]) ELSE y \in committed[m].isr \cup {p}
      BY <2>0, <2>2, <2>a, ZenonT(120) DEF CarriedOn
    <3>2. QED
      BY <2>2, <3>1, ZenonT(120)
  <2>4. ASSUME EpochOf(x) > EpochOf(p), x = f PROVE Holds(l, r)
    <3>1. /\ image[f] \in DOMAIN committed /\ image[f] \in Nat /\ EpochOf(f) = committed[image[f]].epoch
          /\ Image(f) = committed[image[f]]
          /\ Len(committed) \in Nat /\ DOMAIN committed = 1 .. Len(committed)
          /\ EpochOf(f) \in Nat
      BY ImageType, ZenonT(120) DEF Safe, Typed
    <3>2. EpochOf(l) \in Nat /\ EpochOf(p) \in Nat
      BY <1>1, ImageType, ZenonT(120) DEF Safe, Typed
    <3>3. ~(image[f] <= m)
      <4>1. image[f] <= m => EpochOf(f) <= EpochOf(p)
        BY <2>0, EpochOfBound, ZenonT(120)
      <4>2. EpochOf(f) > EpochOf(p)
        BY <2>4, ZenonT(120)
      <4>3. QED
        BY <3>1, <3>2, <4>1, <4>2
    <3>4. image[f] \in m .. Len(committed)
      BY <2>0, <3>1, <3>3
    <3>5. l \in Members(image[f])
      BY <1>1, <3>1, ZenonT(120) DEF Members
    <3>6. EpochOf(l) > EpochOf(p)
      <4>1. EpochOf(f) > EpochOf(p)
        BY <2>4, ZenonT(120)
      <4>2. QED
        BY <3>1, <3>2, <4>1
    <3>7. QED
      BY <2>3, <3>4, <3>5, <3>6, ZenonT(120)
  <2>5. QED
    BY <1>6, <2>0, <2>1, <2>2, <2>3, <2>4, ZenonT(120)
<1>14. AckedIsSecured'
  <2> SUFFICES ASSUME NEW r \in acked PROVE \E m \in DOMAIN committed : Secured(r, m)'
    BY <1>1 DEF AckedIsSecured
  <2>1. PICK m \in DOMAIN committed : Secured(r, m)
    BY DEF Safe, RaceFree, AckedIsSecured
  <2>2. /\ r \in LogRecord /\ r.epoch <= committed[m].epoch
        /\ \A k \in m .. Len(committed) : \A x \in Members(k) : EpochOf(x) >= committed[m].epoch /\ Holds(x, r)
    BY <2>1 DEF Secured, Safe, Typed, TypeOK
  <2>3. /\ \A k \in m .. Len(committed) : Members(k) \subseteq Brokers
        /\ Len(committed) \in Nat /\ DOMAIN committed = 1 .. Len(committed) /\ committed[m].epoch \in Nat
    BY CommittedType DEF Safe, Typed
  <2>4. ASSUME EpochOf(f) >= committed[m].epoch PROVE Holds(l, r)
    <3>1. /\ image[f] \in DOMAIN committed /\ image[f] \in Nat /\ EpochOf(f) = committed[image[f]].epoch
          /\ Image(f) = committed[image[f]] /\ EpochOf(f) \in Nat
      BY ImageType, ZenonT(120) DEF Safe, Typed
    <3>2. CASE image[f] >= m
      <4>1. image[f] \in m .. Len(committed)
        BY <2>3, <3>1, <3>2
      <4>2. l \in Members(image[f])
        BY <1>1, <3>1, ZenonT(120) DEF Members
      <4>3. QED
        BY <2>2, <4>1, <4>2, ZenonT(120)
    <3>3. CASE image[f] <= m
      <4>1. EpochOf(f) = committed[m].epoch
        <5>1. EpochOf(f) <= committed[m].epoch
          BY <3>3, EpochOfBound, ZenonT(120)
        <5>2. committed[m].epoch \in Nat
          BY <2>3, ZenonT(120)
        <5>3. QED
          BY <2>4, <3>1, <5>1, <5>2
      <4>2. l \in Members(m)
        BY <1>1, <4>1, LeaderOfEpoch, ZenonT(120) DEF Members
      <4>3. m \in m .. Len(committed)
        BY <2>3
      <4>4. QED
        BY <2>2, <4>2, <4>3, ZenonT(120)
    <3>4. image[f] >= m \/ image[f] <= m
      BY <2>3, <3>1
    <3>5. QED
      BY <3>2, <3>3, <3>4, ZenonT(120)
  <2>5. ASSUME NEW k \in m .. Len(committed), NEW x \in Members(k)
        PROVE  EpochOf(x) >= committed[m].epoch /\ Holds(x, r)'
    BY <1>6, <2>2, <2>3, <2>4, ZenonT(120)
  <2>6. Secured(r, m)'
    BY <1>1, <1>5, <2>2, <2>5, ZenonT(120) DEF Secured
  <2>7. QED
    BY <2>6
<1>15. QED
  BY <1>7, <1>8, <1>9, <1>10, <1>11, <1>12, <1>13, <1>14 DEF RaceFree

\* handle_epoch_fence: the follower's epoch ends after all it has of it in common.
LEMMA FetchFencedSafe ==
  ASSUME Safe, NEW f \in Brokers, FetchFenced(f), raced' = {}
  PROVE  RaceFree'
<1> PICK l : l = Image(f).leader
  OBVIOUS
<1> DEFINE end == EndOffsetForEpoch(l, EpochOf(f))
<1>1. /\ Truncates(f, l, end) /\ EpochOf(f) < EpochOf(l) /\ end # UndefinedOffset
  BY FetchFencedEffect DEF Safe
<1>2. l \in Brokers /\ EpochOf(f) \in Nat /\ end \in Nat /\ TruncateTo(f, end) /\ EpochOf(l) \in Nat
  BY <1>1, ImageType, ZenonT(120) DEF Truncates, Safe, Typed
<1>3. KeepsShared(f, l)
  <2> SUFFICES ASSUME NEW r \in LogRecord, Holds(f, r), Holds(l, r) PROVE Holds(f, r)'
    BY DEF KeepsShared
  <2>1. r.offset \in DOMAIN log[f] /\ log[f][r.offset] = r /\ r.offset \in Nat /\ r.offset > 0 /\ r.offset <= Len(log[f])
    BY HoldsAt DEF Safe
  <2>2. r.offset \in DOMAIN log[l] /\ log[l][r.offset] = r
    BY <1>2, HoldsAt, ZenonT(120) DEF Safe
  <2>3. r.epoch <= EpochOf(f)
    BY <2>1, ZenonT(120) DEF Safe, RaceFree, LogsInOrder
  <2>4. end >= r.offset
    <3>1. TypeOK /\ LogsInOrder
      BY ZenonT(120) DEF Safe, Typed, RaceFree
    <3>2. QED
      BY <1>1, <1>2, <2>1, <2>2, <2>3, <3>1, EndIsAfter
  <2> HIDE DEF end
  <2>5. /\ Len(log'[f]) = IF end <= Len(log[f]) THEN end ELSE Len(log[f])
        /\ DOMAIN log'[f] = 1 .. Len(log'[f])
        /\ \A i \in DOMAIN log'[f] : log'[f][i] = log[f][i]
    BY <1>2, TruncateEffect, ZenonT(120) DEF Safe
  <2>6. r.offset <= Len(log'[f]) /\ r.offset \in DOMAIN log'[f]
    <3>1. Len(log[f]) \in Nat
      BY LogType, ZenonT(120) DEF Safe, Typed
    <3>2. r.offset <= Len(log'[f]) /\ Len(log'[f]) \in Nat
      BY <1>2, <2>1, <2>4, <2>5, <3>1
    <3>3. QED
      BY <2>1, <2>5, <3>2
  <2>7. QED
    BY <2>1, <2>5, <2>6, ZenonT(120) DEF Holds
<1>4. QED
  BY <1>1, <1>2, <1>3, TruncateSafe

\* A diverging epoch: the same, for the follower's last epoch.
LEMMA FetchDivergingSafe ==
  ASSUME Safe, NEW f \in Brokers, FetchDiverging(f)
  PROVE  RaceFree'
<1> PICK l : l = Image(f).leader
  OBVIOUS
<1> DEFINE e == LatestEpoch(f)
           end == EpochAndOffsetFor(l, e).end
<1>1. /\ Truncates(f, l, end) /\ EpochOf(f) = EpochOf(l) /\ log[f] # << >>
  BY FetchDivergingEffect DEF Safe
<1>2. l \in Brokers /\ EpochOf(f) \in Nat /\ end \in Nat /\ TruncateTo(f, end) /\ EpochOf(l) \in Nat
  BY <1>1, ImageType, ZenonT(120) DEF Truncates, Safe, Typed
<1>3. e \in Nat /\ e = log[f][Len(log[f])].epoch
  BY <1>1, LatestIsLast, ZenonT(120) DEF Safe, Typed, RaceFree
<1>4. KeepsShared(f, l)
  <2> SUFFICES ASSUME NEW r \in LogRecord, Holds(f, r), Holds(l, r) PROVE Holds(f, r)'
    BY DEF KeepsShared
  <2>1. r.offset \in DOMAIN log[f] /\ log[f][r.offset] = r /\ r.offset \in Nat /\ r.offset > 0 /\ r.offset <= Len(log[f])
    BY HoldsAt DEF Safe
  <2>2. r.offset \in DOMAIN log[l] /\ log[l][r.offset] = r
    BY <1>2, HoldsAt, ZenonT(120) DEF Safe
  <2>3. r.epoch <= e
    <3>1. Len(log[f]) \in r.offset .. Len(log[f])
      BY <2>1, LogType DEF Safe, Typed
    <3>2. QED
      BY <1>3, <2>1, <3>1, ZenonT(120) DEF Safe, RaceFree, LogsInOrder
  <2> HIDE DEF e
  <2>4. end >= r.offset
    <3>1. TypeOK /\ LogsInOrder /\ log[l][r.offset].epoch <= e
      BY <2>2, <2>3 DEF Safe, Typed, RaceFree
    <3>2. end \in r.offset .. Len(log[l])
      BY <1>2, <1>3, <2>2, <3>1, EndIsAfter, ZenonT(120)
    <3> HIDE DEF end
    <3>3. QED
      BY <1>2, <2>1, <3>2
  <2> HIDE DEF end
  <2>5. /\ Len(log'[f]) = IF end <= Len(log[f]) THEN end ELSE Len(log[f])
        /\ DOMAIN log'[f] = 1 .. Len(log'[f])
        /\ \A i \in DOMAIN log'[f] : log'[f][i] = log[f][i]
    BY <1>2, TruncateEffect, ZenonT(120) DEF Safe
  <2>6. r.offset <= Len(log'[f]) /\ r.offset \in DOMAIN log'[f]
    <3>1. Len(log[f]) \in Nat
      BY LogType, ZenonT(120) DEF Safe, Typed
    <3>2. r.offset <= Len(log'[f]) /\ Len(log'[f]) \in Nat
      BY <1>2, <2>1, <2>4, <2>5, <3>1
    <3>3. QED
      BY <2>1, <2>5, <3>2
  <2>7. QED
    BY <2>1, <2>5, <2>6, ZenonT(120) DEF Holds
<1> HIDE DEF e, end
<1>5. QED
  BY <1>1, <1>2, <1>4, TruncateSafe

-----------------------------------------------------------------------------
(* The theorems.                                                           *)

LEMMA InitSafe ==
  ASSUME Init
  PROVE  RaceFree
<1>1. PICK l \in Brokers :
        /\ committed = <<Record(l, 0, Brokers)>>
        /\ stats = [b \in Brokers |-> IF b = l THEN [f \in Brokers \ {l} |-> NewStats] ELSE << >>]
        /\ log = [b \in Brokers |-> << >>]
        /\ acked = {}
  BY DEF Init
<1>2. DOMAIN committed = {1} /\ Len(committed) = 1
  BY <1>1
<1>3. \A b \in Brokers : DOMAIN log[b] = {}
  BY <1>1
<1>4. ASSUME NEW b \in Brokers, NEW f \in DOMAIN stats[b] PROVE ~(stats[b][f].leo > 0)
  <2>1. CASE b = l
    <3>1. stats[b][f] = NewStats
      BY <1>1, <1>4, <2>1
    <3>2. QED
      BY <3>1 DEF NewStats
  <2>2. CASE b # l
    BY <1>1, <1>4, <2>2
  <2>3. QED
    BY <2>1, <2>2
<1>5. committed[1].epoch = 0
  BY <1>1 DEF Record
<1>6. EpochsInOrder
  BY <1>2, <1>5 DEF EpochsInOrder
<1>7. InsyncInherited
  BY <1>2 DEF InsyncInherited
<1>8. LogsInOrder /\ EpochsAreLed /\ LeaderHasEpoch /\ LogMatching /\ CarriedOn
  BY <1>3, ZenonT(120) DEF LogsInOrder, EpochsAreLed, LeaderHasEpoch, LogMatching, CarriedOn
<1>9. ProgressIsTrue
  BY <1>4 DEF ProgressIsTrue
<1>10. AckedIsSecured
  BY <1>1 DEF AckedIsSecured
<1>11. QED
  BY <1>6, <1>7, <1>8, <1>9, <1>10 DEF RaceFree

LEMMA StepSafe ==
  ASSUME Safe, [Next]_vars, raced' = {}
  PROVE  RaceFree'
<1>1. CASE UNCHANGED vars
  <2>1. /\ \A b : EpochOf(b)' = EpochOf(b) /\ (Leading(b)' <=> Leading(b))
        /\ UNCHANGED <<committed, image, stats, log, acked>> /\ StatsTyped'
    BY <1>1, SameImages DEF vars, Safe, Typed, TypeOK, StatsTyped
  <2>2. Foundation' /\ \A r : \A m \in DOMAIN committed : Secured(r, m) => Secured(r, m)'
    BY <2>1, QuietStep, ZenonT(120)
  <2>3. AckedIsSecured'
    BY <2>1, <2>2 DEF Safe, RaceFree, AckedIsSecured
  <2>4. QED
    BY <2>2, <2>3 DEF Foundation, RaceFree
<1>2. ASSUME NEW b \in Brokers, Failover(b) \/ TransferLeader(b) \/ AlterPartition(b)
      PROVE  RaceFree'
  <2>1. PICK k \in DOMAIN committed : \E record : Commits(k, record)
    BY <1>2, FailoverCommits, TransferCommits, AlterCommits DEF Safe
  <2>2. PICK record : Commits(k, record)
    BY <2>1
  <2>3. QED
    BY <2>2, CommitSafe
<1>3. ASSUME NEW b \in Brokers, InstallReplicationTarget(b) PROVE RaceFree'
  BY <1>3, InstallSafe
<1>4. ASSUME NEW b \in Brokers, InstallIsr(b) PROVE RaceFree'
  BY <1>4, InstallIsrSafe
<1>5. ASSUME NEW b \in Brokers, Restart(b) PROVE RaceFree'
  BY <1>5, RestartSafe
<1>6. ASSUME NEW b \in Brokers, Produce(b) PROVE RaceFree'
  BY <1>6, ProduceSafe
<1>7. ASSUME NEW b \in Brokers, NEW r \in Range(log[b]), Acknowledge(b, r) PROVE RaceFree'
  BY <1>7, AcknowledgeSafe
<1>8. ASSUME NEW b \in Brokers, FetchFenced(b) PROVE RaceFree'
  BY <1>8, FetchFencedSafe
<1>9. ASSUME NEW b \in Brokers, FetchDiverging(b) PROVE RaceFree'
  BY <1>9, FetchDivergingSafe
<1>10. ASSUME NEW b \in Brokers, FetchRecords(b) PROVE RaceFree'
  BY <1>10, FetchRecordsSafe
<1>11. ASSUME NEW b \in Brokers, FetchLate(b) PROVE RaceFree'
  BY <1>11, FetchLateFetches DEF Safe
<1>12. QED
  BY <1>1, <1>2, <1>3, <1>4, <1>5, <1>6, <1>7, <1>8, <1>9, <1>10, <1>11 DEF Next

\* SafetyInv is an invariant of the partition: whatever happens the types and bounds hold,
\* and until one of the races happens the logs of the replicas stand in the relation that
\* makes an acknowledgement final (see the comments on the conjuncts of RaceFree).
THEOREM PartitionSafety == Spec => []SafetyInv
<1>1. Init => SafetyInv
  BY InitTyped, InitSafe DEF SafetyInv, Typed
<1>2. ASSUME SafetyInv, [Next]_vars PROVE SafetyInv'
  <2>1. Typed' /\ raced \subseteq raced'
    BY <1>2, StepTyped DEF SafetyInv, Typed
  <2>2. ASSUME raced' = {} PROVE RaceFree'
    <3>1. Safe
      BY <1>2, <2>1, <2>2 DEF SafetyInv, Safe, Typed
    <3>2. QED
      BY <1>2, <2>2, <3>1, StepSafe
  <2>3. QED
    BY <2>1, <2>2 DEF SafetyInv, Typed
<1>3. QED
  BY <1>1, <1>2, PTL DEF Spec

\* Until one of the races happens, every member of the committed in-sync set, whoever leads
\* and however stale its image, holds every record acknowledged with acks=all: failover_one
\* may elect any of them.
THEOREM AckedRecordsKept == Spec => []AckedOnEveryIsrMember
<1>1. SafetyInv => AckedOnEveryIsrMember
  <2> SUFFICES ASSUME SafetyInv, raced = {}, NEW r \in acked, NEW b \in Current.isr PROVE Holds(b, r)
    BY DEF AckedOnEveryIsrMember
  <2>1. RaceFree /\ TypeOK
    BY DEF SafetyInv
  <2>2. PICK m \in DOMAIN committed : Secured(r, m)
    BY <2>1 DEF RaceFree, AckedIsSecured
  <2>3. Len(committed) \in m .. Len(committed) /\ b \in Members(Len(committed))
    BY <2>1, CommittedType DEF Current, Members
  <2>4. QED
    BY <2>2, <2>3 DEF Secured
<1>2. QED
  BY <1>1, PartitionSafety, PTL

\* Until one of the races happens, two replicas whose logs have a record of the same epoch
\* have the same records up to there: the comparison of epochs in apply_epoch_checks finds
\* every divergence.
THEOREM LogsMatch == Spec => [](raced = {} => LogMatching)
<1>1. SafetyInv => (raced = {} => LogMatching)
  BY DEF SafetyInv, RaceFree
<1>2. QED
  BY <1>1, PartitionSafety, PTL
=============================================================================

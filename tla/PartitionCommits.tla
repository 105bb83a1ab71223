-------------------------- MODULE PartitionCommits --------------------------
(***************************************************************************)
(* PartitionReplication, second part of the proofs: the steps that change  *)
(* no log keep its safety invariant - a committed partition record, its    *)
(* installation by a broker, a restart and an acknowledgement.             *)
(***************************************************************************)
EXTENDS PartitionTypes

USE SMTT(120)

-----------------------------------------------------------------------------
(* Safety as long as nothing races: general facts.                         *)

Safe == Typed /\ RaceFree

\* No broker is ahead of the committed records.
LEMMA EpochOfBound ==
  ASSUME Safe, NEW b \in Brokers
  PROVE  /\ Len(committed) \in DOMAIN committed /\ EpochOf(b) <= committed[Len(committed)].epoch
         /\ \A k \in DOMAIN committed : image[b] <= k => EpochOf(b) <= committed[k].epoch
<1>1. /\ Len(committed) \in Nat /\ Len(committed) >= 1 /\ DOMAIN committed = 1 .. Len(committed)
      /\ image[b] \in DOMAIN committed /\ image[b] \in Nat /\ EpochOf(b) = committed[image[b]].epoch
  BY ImageType DEF Safe, Typed, Bounds
<1>2. \A k \in DOMAIN committed : image[b] <= k => EpochOf(b) <= committed[k].epoch
  BY <1>1, ZenonT(120) DEF Safe, RaceFree, EpochsInOrder
<1>3. QED
  BY <1>1, <1>2

\* An epoch has one leader.
LEMMA LeaderOfEpoch ==
  ASSUME Safe, NEW b \in Brokers, NEW k \in DOMAIN committed, EpochOf(b) = committed[k].epoch
  PROVE  Image(b).leader = committed[k].leader
<1>1. /\ image[b] \in DOMAIN committed /\ EpochOf(b) = committed[image[b]].epoch
      /\ Image(b).leader = committed[image[b]].leader
  BY ImageType DEF Safe, Typed
<1>2. image[b] \in Nat /\ k \in Nat
  BY ImageType, CommittedType DEF Safe, Typed
<1>3. image[b] <= k \/ k <= image[b]
  BY <1>2
<1>4. QED
  BY <1>1, <1>3, ZenonT(120) DEF Safe, RaceFree, EpochsInOrder

\* Two brokers of one epoch have the same leader.
LEMMA SameLeader ==
  ASSUME Safe, NEW b \in Brokers, NEW c \in Brokers, EpochOf(b) = EpochOf(c)
  PROVE  Image(b).leader = Image(c).leader
<1>1. image[c] \in DOMAIN committed /\ EpochOf(c) = committed[image[c]].epoch /\ Image(c) = committed[image[c]]
  BY ImageType DEF Safe, Typed
<1>2. QED
  BY <1>1, LeaderOfEpoch

\* What the logs hold.
LEMMA RecordAt ==
  ASSUME Typed, NEW b \in Brokers, NEW n \in DOMAIN log[b]
  PROVE  /\ log[b][n] \in LogRecord /\ log[b][n].offset = n /\ log[b][n].epoch \in Nat
         /\ n \in Nat /\ n > 0 /\ n <= Len(log[b]) /\ Holds(b, log[b][n])
<1>1. log[b][n] \in LogRecord /\ n \in Nat /\ n > 0 /\ n <= Len(log[b]) /\ log[b][n].epoch \in Nat
  BY LogType DEF Typed
<1>2. log[b][n].offset = n
  BY DEF Typed, Bounds
<1>3. QED
  BY <1>1, <1>2 DEF Holds

LEMMA HoldsAt ==
  ASSUME Typed, NEW b \in Brokers, NEW r \in LogRecord, Holds(b, r)
  PROVE  /\ r.offset \in DOMAIN log[b] /\ log[b][r.offset] = r
         /\ r.offset \in Nat /\ r.offset > 0 /\ r.offset <= Len(log[b]) /\ r.epoch \in Nat
<1>1. r.offset \in 1 .. MaxValue /\ r.epoch \in Nat
  BY BoundAssumption DEF LogRecord
<1>2. Len(log[b]) \in Nat /\ DOMAIN log[b] = 1 .. Len(log[b])
  BY LogType DEF Typed
<1>3. QED
  BY <1>1, <1>2, BoundAssumption DEF Holds

-----------------------------------------------------------------------------
(* A commit.                                                               *)

LEMMA CommitEffect ==
  ASSUME Safe, NEW k, NEW record, Commits(k, record), raced' = {}, NEW K, K = Len(committed)
  PROVE  /\ K \in Nat /\ K >= 1 /\ DOMAIN committed = 1 .. K /\ DOMAIN committed' = 1 .. K + 1
         /\ Len(committed') = K + 1 /\ committed'[K + 1] = record
         /\ \A i \in 1 .. K : /\ committed'[i] = committed[i] /\ Members(i)' = Members(i)
                              /\ committed[i].epoch \in Nat
         /\ Members(K + 1)' = record.isr \cup {record.leader} /\ Members(K + 1)' \subseteq Brokers
         /\ record.epoch \in {committed[K].epoch, committed[K].epoch + 1}
         /\ record.epoch = committed[K].epoch => record.leader = committed[K].leader
         /\ record.epoch # committed[K].epoch => Elects(K, record)
         /\ Elects(K, record) \/ Shrinks(K, record) \/ \E b \in Brokers : Alters(K, record, b)
         /\ \A b \in Brokers : /\ EpochOf(b)' = EpochOf(b) /\ (Leading(b)' <=> Leading(b))
                               /\ EpochOf(b) \in Nat /\ EpochOf(b) <= committed[K].epoch
         /\ log' = log /\ acked' = acked /\ SameProgress
<1>1. k \in DOMAIN committed /\ K \in Nat /\ K >= 1 /\ DOMAIN committed = 1 .. K
  BY CommittedType DEF Safe, Typed, Bounds, Commits
<1>2. k = K
  BY <1>1 DEF Commits
<1>3. /\ Len(committed') = K + 1 /\ committed'[K + 1] = record
      /\ \A i \in DOMAIN committed : committed'[i] = committed[i]
      /\ DOMAIN committed' = 1 .. K + 1
      /\ \A b \in Brokers : EpochOf(b)' = EpochOf(b) /\ (Leading(b)' <=> Leading(b))
  BY CommitKeepsImages DEF Commits, Safe, Typed
<1>4. /\ log' = log /\ acked' = acked /\ SameProgress
      /\ Elects(K, record) \/ Shrinks(K, record) \/ \E b \in Brokers : Alters(K, record, b)
      /\ record \in [leader: Brokers, epoch: Nat, isr: SUBSET Brokers]
  BY <1>2 DEF Commits
<1>5. \A i \in 1 .. K : committed[i].epoch \in Nat
  BY CommittedType DEF Safe, Typed
<1>6. /\ record.epoch \in {committed[K].epoch, committed[K].epoch + 1}
      /\ record.epoch = committed[K].epoch => record.leader = committed[K].leader
      /\ record.epoch # committed[K].epoch => Elects(K, record)
  BY <1>1, <1>4, <1>5 DEF Elects, Shrinks, Alters
<1>7. Members(K + 1)' = record.isr \cup {record.leader} /\ \A i \in 1 .. K : Members(i)' = Members(i)
  BY <1>1, <1>3 DEF Members
<1>8. Members(K + 1)' \subseteq Brokers
  BY <1>4, <1>7
<1>9. \A b \in Brokers : EpochOf(b) \in Nat /\ EpochOf(b) <= committed[K].epoch
  BY EpochOfBound, ImageType DEF Safe, Typed
<1>10. QED
  BY <1>1, <1>3, <1>4, <1>5, <1>6, <1>7, <1>8, <1>9, ZenonT(120)

\* A broker the in-sync set admits holds whatever the leader holds.
LEMMA Newcomer ==
  ASSUME Safe, NEW k, NEW record, Commits(k, record), raced' = {}, NEW K, K = Len(committed),
         NEW x \in Members(K + 1)', x \notin Members(K)
  PROVE  LET cur == committed[K] IN
         /\ record.epoch = cur.epoch /\ cur.leader \in Brokers /\ EpochOf(cur.leader) = cur.epoch
         /\ \A r \in LogRecord : Holds(cur.leader, r) => EpochOf(x) = cur.epoch /\ Holds(x, r)
<1> DEFINE cur == committed[K]
<1>1. /\ K \in DOMAIN committed /\ x \in record.isr \cup {record.leader} /\ x \in Brokers
      /\ Elects(K, record) \/ Shrinks(K, record) \/ \E b \in Brokers : Alters(K, record, b)
      /\ \A b \in Brokers : EpochOf(b) \in Nat /\ EpochOf(b) <= committed[K].epoch
      /\ cur.epoch \in Nat
  BY CommitEffect
<1>2. x \notin cur.isr /\ x # cur.leader
  BY DEF Members
<1>3. PICK b \in Brokers : Alters(K, record, b)
  BY <1>1, <1>2 DEF Elects, Shrinks
<1>4. Leading(b) /\ EpochOf(b) = cur.epoch /\ record.epoch = cur.epoch /\ record.leader = cur.leader
  BY <1>3 DEF Alters
<1>5. b = cur.leader
  BY <1>1, <1>4, LeaderOfEpoch DEF Leading
<1>6. x \in DOMAIN stats[b] /\ ~(stats[b][x].leo < Len(log[b]))
  BY <1>1, <1>2, <1>3, <1>4, <1>5 DEF Alters
<1>7. ASSUME NEW r \in LogRecord, Holds(b, r) PROVE EpochOf(x) = cur.epoch /\ Holds(x, r)
  <2>1. /\ r.offset \in Nat /\ r.offset > 0 /\ r.offset <= Len(log[b]) /\ log[b][r.offset] = r
        /\ Len(log[b]) \in Nat
    BY <1>7, HoldsAt, LogType DEF Safe, Typed
  <2>2. stats[b][x].leo \in Nat
    BY <1>6, StatsType DEF Safe, Typed, TypeOK, StatsTyped
  <2>3. stats[b][x].leo > 0 /\ r.offset <= stats[b][x].leo
    BY <1>6, <2>1, <2>2
  <2>4. EpochOf(x) >= EpochOf(b) /\ (EpochOf(x) = EpochOf(b) => Agree(b, x, stats[b][x].leo))
    BY <1>4, <1>6, <2>3 DEF Safe, RaceFree, ProgressIsTrue
  <2>5. EpochOf(x) = cur.epoch /\ Agree(b, x, stats[b][x].leo)
    BY <1>1, <1>4, <2>4
  <2>6. Len(log[x]) \in Nat
    BY <1>1, LogType DEF Safe, Typed
  <2>7. QED
    BY <2>1, <2>2, <2>3, <2>5, <2>6 DEF Agree, Holds
<1>8. QED
  BY <1>4, <1>5, <1>7

\* A commit that overtakes nothing and admits only replicas that have caught up keeps RaceFree.
LEMMA CommitSafe ==
  ASSUME Safe, NEW k, NEW record, Commits(k, record), raced' = {}
  PROVE  RaceFree'
<1> PICK K : K = Len(committed)
  BY ZenonT(120)
<1> DEFINE cur == committed[K]
<1>1. /\ K \in Nat /\ K >= 1 /\ DOMAIN committed = 1 .. K /\ DOMAIN committed' = 1 .. K + 1
      /\ Len(committed') = K + 1 /\ committed'[K + 1] = record
  BY CommitEffect
<1>2. \A i \in 1 .. K : committed'[i] = committed[i] /\ Members(i)' = Members(i) /\ committed[i].epoch \in Nat
  BY CommitEffect
<1>3. /\ Members(K + 1)' = record.isr \cup {record.leader} /\ Members(K + 1)' \subseteq Brokers
      /\ record.epoch \in {cur.epoch, cur.epoch + 1} /\ cur.epoch \in Nat
      /\ record.epoch = cur.epoch => record.leader = cur.leader
      /\ record.epoch # cur.epoch => Elects(K, record)
  <2>1. K \in 1 .. K
    BY <1>1
  <2>2. QED
    BY <1>2, <2>1, CommitEffect
<1>4. \A b \in Brokers : /\ EpochOf(b)' = EpochOf(b) /\ (Leading(b)' <=> Leading(b))
                         /\ EpochOf(b) \in Nat /\ EpochOf(b) <= cur.epoch
  BY CommitEffect
<1>5. log' = log /\ acked' = acked /\ SameProgress
  BY CommitEffect
<1>6. ASSUME NEW j \in 1 .. K
      PROVE  /\ committed[j].epoch <= cur.epoch
             /\ committed[j].epoch = cur.epoch => committed[j].leader = cur.leader
  BY <1>1 DEF Safe, RaceFree, EpochsInOrder
<1> HIDE DEF cur
<1>10. EpochsInOrder'
  <2> SUFFICES ASSUME NEW i \in 1 .. K + 1, NEW j \in 1 .. K + 1, i <= j
               PROVE  /\ committed'[i].epoch <= committed'[j].epoch
                      /\ committed'[i].epoch = committed'[j].epoch => committed'[i].leader = committed'[j].leader
    BY <1>1 DEF EpochsInOrder
  <2>1. CASE j \in 1 .. K
    <3>1. i \in 1 .. K
      BY <1>1, <2>1
    <3>2. QED
      BY <1>1, <1>2, <2>1, <3>1 DEF Safe, RaceFree, EpochsInOrder
  <2>2. CASE j = K + 1 /\ i \in 1 .. K
    BY <1>1, <1>2, <1>3, <1>6, <2>2
  <2>3. CASE j = K + 1 /\ i = K + 1
    BY <1>1, <1>3, <2>3
  <2>4. QED
    BY <1>1, <2>1, <2>2, <2>3
<1>11. LogsInOrder'
  BY <1>4, <1>5 DEF Safe, RaceFree, LogsInOrder
<1>12. EpochsAreLed'
  <2> SUFFICES ASSUME NEW b \in Brokers, NEW j \in 1 .. K + 1, NEW i \in DOMAIN log[b],
                      log[b][i].epoch = committed'[j].epoch, NEW p, p = committed'[j].leader
               PROVE  EpochOf(p)' >= committed'[j].epoch
    BY <1>1, <1>5 DEF EpochsAreLed
  <2>1. log[b][i].epoch <= EpochOf(b)
    BY DEF Safe, RaceFree, LogsInOrder
  <2>2. PICK h \in 1 .. K : committed[h].epoch = committed'[j].epoch /\ committed[h].leader = committed'[j].leader
    <3>1. CASE j \in 1 .. K
      BY <1>2, <3>1
    <3>2. CASE j = K + 1
      <4>1. record.epoch = cur.epoch /\ record.leader = cur.leader
        BY <1>1, <1>3, <1>4, <2>1, <3>2
      <4>2. QED
        BY <1>1, <3>2, <4>1 DEF cur
    <3>3. QED
      BY <1>1, <3>1, <3>2
  <2>3. EpochOf(p) >= committed[h].epoch /\ p \in Brokers
    BY <1>1, <2>2, CommittedType DEF Safe, RaceFree, EpochsAreLed, Typed
  <2>4. QED
    BY <1>4, <2>2, <2>3
<1>13. LeaderHasEpoch'
  BY <1>4, <1>5 DEF Safe, RaceFree, LeaderHasEpoch
<1>14. LogMatching'
  BY <1>5 DEF Safe, RaceFree, LogMatching, Agree
<1>15. ProgressIsTrue'
  <2>1. \A l, f \in Brokers : \A n : Agree(l, f, n)' <=> Agree(l, f, n)
    BY <1>5 DEF Agree
  <2>2. \A l \in Brokers : DOMAIN stats[l] \subseteq Brokers
    BY DEF Safe, Typed, TypeOK
  <2> SUFFICES ASSUME NEW l \in Brokers, Leading(l), NEW f \in DOMAIN stats[l], stats[l][f].leo > 0
               PROVE  /\ EpochOf(f)' >= EpochOf(l)'
                      /\ EpochOf(f)' = EpochOf(l)' => Agree(l, f, stats[l][f].leo)
    BY <1>4, <1>5, <2>1, <2>2 DEF ProgressIsTrue, SameProgress
  <2>3. QED
    BY <1>4, <2>2 DEF Safe, RaceFree, ProgressIsTrue
<1>16. ASSUME NEW m \in 1 .. K, Ends(m)'
       PROVE  Ends(m) /\ record.epoch > committed[m].epoch
  BY <1>1, <1>2, <1>16 DEF Ends
<1>17. InsyncInherited'
  <2> SUFFICES ASSUME NEW m \in 1 .. K + 1, Ends(m)',
                      \A x \in committed'[m].isr : EpochOf(x)' <= committed'[m].epoch,
                      NEW j \in 1 .. K + 1, j > m
               PROVE  Members(j)' \subseteq committed'[m].isr
    BY <1>1 DEF InsyncInherited
  <2>1. m \in 1 .. K /\ committed'[m] = committed[m] /\ committed[m].isr \subseteq Brokers
    BY <1>1, <1>2, CommittedType DEF Safe, Typed
  <2>2. Ends(m) /\ record.epoch > committed[m].epoch
    BY <1>16, <2>1
  <2>3. \A x \in committed[m].isr : EpochOf(x) <= committed[m].epoch
    BY <1>4, <2>1
  <2>4. \A h \in 1 .. K : h > m => Members(h) \subseteq committed[m].isr
    BY <1>1, <2>1, <2>2, <2>3 DEF Safe, RaceFree, InsyncInherited
  <2>5. CASE j \in 1 .. K
    BY <1>2, <2>1, <2>4, <2>5
  <2>6. CASE j = K + 1 /\ m = K
    BY <1>1, <1>2, <1>3, <2>1, <2>2, <2>6 DEF Elects, cur
  <2>7. CASE j = K + 1 /\ m < K
    <3>1. Members(K) \subseteq committed[m].isr /\ cur.epoch > committed[m].epoch /\ cur.leader \in committed[m].isr
      BY <1>1, <2>1, <2>2, <2>4, <2>7 DEF Ends, Members, cur
    <3>2. ASSUME NEW x \in Members(K + 1)', x \notin Members(K) PROVE FALSE
      <4>1. cur.leader \in Brokers /\ EpochOf(cur.leader) = cur.epoch
        BY <3>2, Newcomer DEF cur
      <4>2. EpochOf(cur.leader) <= committed[m].epoch
        BY <2>3, <3>1
      <4>3. QED
        BY <1>2, <1>3, <2>1, <3>1, <4>1, <4>2
    <3>3. QED
      BY <2>1, <2>7, <3>1, <3>2
  <2>8. QED
    BY <1>1, <2>1, <2>5, <2>6, <2>7
<1>19. CarriedOn'
  <2> SUFFICES ASSUME NEW l \in Brokers, NEW m \in 1 .. K + 1,
                      Leading(l), committed'[m].epoch = EpochOf(l), Ends(m)',
                      NEW n \in DOMAIN log[l], LeftWith(l, m, n)',
                      NEW j \in m .. K + 1, NEW x \in Members(j)'
               PROVE  IF EpochOf(x)' > EpochOf(l) THEN Holds(x, log[l][n]) ELSE x \in committed'[m].isr \cup {l}
    <3> SUFFICES ASSUME NEW l \in Brokers, NEW m \in DOMAIN committed', Leading(l)', Ends(m)',
                        committed'[m].epoch = EpochOf(l)', NEW n \in DOMAIN log'[l], LeftWith(l, m, n)',
                        NEW j \in m .. Len(committed'), NEW x \in Members(j)'
                 PROVE  IF EpochOf(x)' > EpochOf(l)' THEN Holds(x, log[l][n])'
                                                     ELSE x \in committed'[m].isr \cup {l}
      BY ZenonT(120) DEF CarriedOn
    <3>1. /\ m \in 1 .. K + 1 /\ j \in m .. K + 1 /\ log' = log /\ n \in DOMAIN log[l]
          /\ EpochOf(l)' = EpochOf(l) /\ Leading(l)
      BY <1>1, <1>4, <1>5, ZenonT(120)
    <3>2. Holds(x, log[l][n])' <=> Holds(x, log[l][n])
      BY <1>5 DEF Holds
    <3>3. QED
      BY <3>1, <3>2, ZenonT(120)
  <2>1. CASE m = K + 1
    <3>1. record.epoch = cur.epoch /\ record.leader = cur.leader /\ EpochOf(l) = cur.epoch
      BY <1>1, <1>3, <1>4, <2>1
    <3>2. cur.leader = l
      BY <1>1, <3>1, LeaderOfEpoch DEF Leading, cur
    <3>3. j = K + 1 /\ x \in record.isr \cup {l} /\ x \in Brokers
      BY <1>1, <1>3, <2>1, <3>1, <3>2
    <3>4. ~(EpochOf(x)' > EpochOf(l))
      BY <1>3, <1>4, <3>1, <3>3
    <3>5. QED
      BY <1>1, <2>1, <3>3, <3>4
  <2>2. CASE m \in 1 .. K
    <3>1. /\ committed'[m] = committed[m] /\ committed[m].epoch = EpochOf(l) /\ committed[m].isr \subseteq Brokers
          /\ Ends(m) /\ record.epoch > EpochOf(l)
      BY <1>1, <1>2, <1>16, <2>2, CommittedType DEF Safe, Typed
    <3>2. LeftWith(l, m, n)
      BY <1>4, <1>5, <3>1 DEF LeftWith, SameProgress
    <3>3. \A h \in m .. K : \A y \in Members(h) :
            IF EpochOf(y) > EpochOf(l) THEN Holds(y, log[l][n]) ELSE y \in committed[m].isr \cup {l}
      BY <1>1, <2>2, <3>1, <3>2 DEF Safe, RaceFree, CarriedOn
    <3>4. \A h \in m .. K : \A y \in Members(h) : y \in Brokers
      BY <1>1, <2>2, CommittedType DEF Safe, Typed
    <3>5. CASE j \in 1 .. K
      <4>1. j \in m .. K /\ x \in Members(j)
        BY <1>2, <3>5
      <4>2. QED
        BY <1>4, <3>1, <3>3, <3>4, <4>1
    <3>6. CASE j = K + 1 /\ x \in Members(K)
      <4>1. K \in m .. K
        BY <1>1, <2>2
      <4>2. QED
        BY <1>4, <3>1, <3>3, <3>4, <3>6, <4>1
    <3>7. CASE j = K + 1 /\ x \notin Members(K)
      <4>1. /\ record.epoch = cur.epoch /\ cur.leader \in Brokers /\ EpochOf(cur.leader) = cur.epoch
            /\ \A r \in LogRecord : Holds(cur.leader, r) => EpochOf(x) = cur.epoch /\ Holds(x, r)
        BY <3>7, Newcomer DEF cur
      <4>2. K \in m .. K /\ cur.leader \in Members(K)
        BY <1>1, <2>2 DEF Members, cur
      <4>3. Holds(cur.leader, log[l][n])
        BY <3>1, <3>3, <4>1, <4>2
      <4>4. log[l][n] \in LogRecord
        BY RecordAt DEF Safe
      <4>5. EpochOf(x) > EpochOf(l) /\ Holds(x, log[l][n]) /\ x \in Brokers
        BY <1>3, <3>1, <3>7, <4>1, <4>3, <4>4
      <4>6. QED
        BY <1>4, <4>5
    <3>8. QED
      BY <1>1, <2>2, <3>5, <3>6, <3>7
  <2>3. QED
    BY <1>1, <2>1, <2>2
<1>20. AckedIsSecured'
  <2> SUFFICES ASSUME NEW r \in acked PROVE \E m \in 1 .. K + 1 : Secured(r, m)'
    BY <1>1, <1>5 DEF AckedIsSecured
  <2>1. PICK m \in 1 .. K : Secured(r, m)
    BY <1>1 DEF Safe, RaceFree, AckedIsSecured
  <2>2. /\ r \in LogRecord /\ r.epoch <= committed[m].epoch
        /\ \A h \in m .. K : \A y \in Members(h) : EpochOf(y) >= committed[m].epoch /\ Holds(y, r)
    BY <2>1 DEF Safe, Typed, TypeOK, Secured
  <2>3. \A h \in m .. K : \A y \in Members(h) : y \in Brokers
    BY <1>1, <2>1, CommittedType DEF Safe, Typed
  <2>4. ASSUME NEW j \in m .. K + 1, NEW x \in Members(j)'
        PROVE  x \in Brokers /\ EpochOf(x) >= committed[m].epoch /\ Holds(x, r)
    <3>1. CASE j \in 1 .. K
      BY <1>1, <1>2, <2>1, <2>2, <2>3, <2>4, <3>1
    <3>2. CASE j = K + 1 /\ x \in Members(K)
      <4>1. K \in m .. K
        BY <1>1, <2>1
      <4>2. QED
        BY <2>2, <2>3, <3>2, <4>1
    <3>3. CASE j = K + 1 /\ x \notin Members(K)
      <4>1. /\ record.epoch = cur.epoch /\ cur.leader \in Brokers /\ EpochOf(cur.leader) = cur.epoch
            /\ \A q \in LogRecord : Holds(cur.leader, q) => EpochOf(x) = cur.epoch /\ Holds(x, q)
        BY <2>4, <3>3, Newcomer DEF cur
      <4>2. K \in m .. K /\ cur.leader \in Members(K)
        BY <1>1, <2>1 DEF Members, cur
      <4>3. Holds(cur.leader, r) /\ EpochOf(cur.leader) >= committed[m].epoch
        BY <2>2, <4>2
      <4>4. EpochOf(x) = cur.epoch /\ Holds(x, r)
        BY <2>2, <4>1, <4>3
      <4>5. QED
        BY <1>3, <2>4, <3>3, <4>1, <4>3, <4>4, ZenonT(120)
    <3>4. QED
      BY <1>1, <2>1, <3>1, <3>2, <3>3
  <2>5. m \in 1 .. K + 1 /\ committed'[m] = committed[m]
    BY <1>1, <1>2
  <2>6. Secured(r, m)'
    BY <1>1, <1>4, <1>5, <2>2, <2>4, <2>5, ZenonT(120) DEF Secured, Holds
  <2>7. QED
    BY <2>5, <2>6
<1>21. QED
  BY <1>10, <1>11, <1>12, <1>13, <1>14, <1>15, <1>17, <1>19, <1>20 DEF RaceFree

-----------------------------------------------------------------------------
(* Steps that change no record and no log: install_isr, restart and        *)
(* acknowledgement.                                                        *)

\* RaceFree but for the acknowledged records.
Foundation ==
  /\ EpochsInOrder /\ LogsInOrder /\ EpochsAreLed /\ LeaderHasEpoch /\ LogMatching
  /\ ProgressIsTrue /\ InsyncInherited /\ CarriedOn

\* What a step that changes no epoch may do: forget progress, never invent it.
LEMMA QuietStep ==
  ASSUME Safe, UNCHANGED <<committed, log>>, StatsTyped',
         \A b \in Brokers : EpochOf(b)' = EpochOf(b) /\ (Leading(b)' <=> Leading(b)),
         \A l \in Brokers : \A f \in DOMAIN stats'[l] :
           stats'[l][f].leo > 0 => f \in DOMAIN stats[l] /\ stats'[l][f].leo = stats[l][f].leo
  PROVE  Foundation' /\ \A r : \A m \in DOMAIN committed : Secured(r, m) => Secured(r, m)'
<1>1. /\ \A k : Members(k)' = Members(k) /\ (Ends(k)' <=> Ends(k))
      /\ \A k \in DOMAIN committed : /\ Members(k) \subseteq Brokers /\ committed[k].isr \subseteq Brokers
                                     /\ committed[k].leader \in Brokers
      /\ DOMAIN committed = 1 .. Len(committed) /\ Len(committed) \in Nat
  BY CommittedType DEF Members, Ends, Safe, Typed
<1>2. \A l, f, n : Agree(l, f, n)' <=> Agree(l, f, n)
  BY DEF Agree
<1>3. \A b, r : Holds(b, r)' <=> Holds(b, r)
  BY DEF Holds
<1>4. EpochsInOrder' /\ LogsInOrder' /\ LeaderHasEpoch' /\ LogMatching'
  <2>1. EpochsInOrder' /\ LogsInOrder'
    BY ZenonT(120) DEF Safe, RaceFree, EpochsInOrder, LogsInOrder
  <2>2. LeaderHasEpoch'
    BY DEF Safe, RaceFree, LeaderHasEpoch
  <2>3. LogMatching'
    BY <1>2, ZenonT(120) DEF Safe, RaceFree, LogMatching
  <2>4. QED
    BY <2>1, <2>2, <2>3, ZenonT(120)
<1>5. EpochsAreLed'
  BY <1>1 DEF Safe, RaceFree, EpochsAreLed
<1>6. ProgressIsTrue'
  <2>1. \A l \in Brokers : DOMAIN stats'[l] \subseteq Brokers
    BY DEF StatsTyped
  <2> SUFFICES ASSUME NEW l \in Brokers, Leading(l)', NEW f \in DOMAIN stats'[l], stats'[l][f].leo > 0
               PROVE  /\ EpochOf(f)' >= EpochOf(l)'
                      /\ EpochOf(f)' = EpochOf(l)' => Agree(l, f, stats'[l][f].leo)
    BY <1>2, ZenonT(120) DEF ProgressIsTrue
  <2>2. f \in DOMAIN stats[l] /\ stats'[l][f].leo = stats[l][f].leo
    BY ZenonT(120)
  <2>3. Leading(l) /\ EpochOf(l)' = EpochOf(l) /\ EpochOf(f)' = EpochOf(f)
    BY <2>1, ZenonT(120)
  <2>4. EpochOf(f) >= EpochOf(l) /\ (EpochOf(f) = EpochOf(l) => Agree(l, f, stats[l][f].leo))
    BY <2>2, <2>3, ZenonT(120) DEF Safe, RaceFree, ProgressIsTrue
  <2>5. QED
    BY <2>2, <2>3, <2>4, ZenonT(120)
<1>7. InsyncInherited'
  BY <1>1, ZenonT(120) DEF Safe, RaceFree, InsyncInherited
<1>8. CarriedOn'
  <2> SUFFICES ASSUME NEW l \in Brokers, NEW m \in DOMAIN committed,
                      Leading(l), committed[m].epoch = EpochOf(l), Ends(m),
                      NEW n \in DOMAIN log[l], LeftWith(l, m, n)',
                      NEW k \in m .. Len(committed), NEW x \in Members(k)
               PROVE  IF EpochOf(x)' > EpochOf(l)' THEN Holds(x, log[l][n]) ELSE x \in committed[m].isr \cup {l}
    BY <1>1, ZenonT(120) DEF CarriedOn, Holds
  <2>1. n \in Nat /\ n > 0
    BY RecordAt DEF Safe
  <2>2. \A f \in DOMAIN stats'[l] : stats'[l][f].leo \in Nat
    BY DEF StatsTyped, FollowerStats
  <2>3. LeftWith(l, m, n)
    <3>1. ASSUME NEW f \in DOMAIN stats'[l], stats'[l][f].leo >= n
          PROVE  f \in DOMAIN stats[l] /\ stats[l][f].leo >= n
      <4>1. stats'[l][f].leo > 0
        BY <2>1, <2>2, <3>1, AtLeastPositive, ZenonT(120)
      <4>2. QED
        BY <3>1, <4>1, ZenonT(120)
    <3>2. QED
      BY <1>1, <3>1, ZenonT(120) DEF LeftWith
  <2>4. IF EpochOf(x) > EpochOf(l) THEN Holds(x, log[l][n]) ELSE x \in committed[m].isr \cup {l}
    BY <2>3, ZenonT(120) DEF Safe, RaceFree, CarriedOn
  <2>5. x \in Brokers
    BY <1>1
  <2>6. QED
    BY <2>4, <2>5, ZenonT(120)
<1>9. \A r : \A m \in DOMAIN committed : Secured(r, m) => Secured(r, m)'
  BY <1>1, <1>3 DEF Secured
<1>10. QED
  BY <1>4, <1>5, <1>6, <1>7, <1>8, <1>9, ZenonT(120) DEF Foundation

LEMMA InstallIsrSafe ==
  ASSUME Safe, NEW b \in Brokers, InstallIsr(b)
  PROVE  RaceFree'
<1>1. UNCHANGED <<committed, image, log, acked>> /\ StatsTyped'
  BY InstallIsrEffect DEF Safe
<1>2. ASSUME NEW l \in Brokers, NEW f \in DOMAIN stats'[l], stats'[l][f].leo > 0
      PROVE  f \in DOMAIN stats[l] /\ stats'[l][f].leo = stats[l][f].leo
  BY <1>2, InstallIsrEffect DEF Safe
<1>3. Foundation' /\ \A r : \A m \in DOMAIN committed : Secured(r, m) => Secured(r, m)'
  BY <1>1, <1>2, SameImages, QuietStep, ZenonT(120)
<1>4. AckedIsSecured'
  BY <1>1, <1>3 DEF Safe, RaceFree, AckedIsSecured
<1>5. QED
  BY <1>3, <1>4 DEF Foundation, RaceFree

LEMMA RestartSafe ==
  ASSUME Safe, NEW b \in Brokers, Restart(b)
  PROVE  RaceFree'
<1>1. UNCHANGED <<committed, image, log, acked>> /\ StatsTyped'
  BY RestartEffect DEF Safe
<1>2. ASSUME NEW l \in Brokers, NEW f \in DOMAIN stats'[l], stats'[l][f].leo > 0
      PROVE  f \in DOMAIN stats[l] /\ stats'[l][f].leo = stats[l][f].leo
  BY <1>2, RestartEffect DEF Safe
<1>3. Foundation' /\ \A r : \A m \in DOMAIN committed : Secured(r, m) => Secured(r, m)'
  BY <1>1, <1>2, SameImages, QuietStep, ZenonT(120)
<1>4. AckedIsSecured'
  BY <1>1, <1>3 DEF Safe, RaceFree, AckedIsSecured
<1>5. QED
  BY <1>3, <1>4 DEF Foundation, RaceFree

\* The last record of a broker's epoch.
LEMMA LastOfEpoch ==
  ASSUME Safe, NEW b \in Brokers
  PROVE  \E m \in DOMAIN committed : committed[m].epoch = EpochOf(b) /\ image[b] <= m /\ Ends(m)
<1> DEFINE S == {k \in DOMAIN committed : committed[k].epoch = EpochOf(b)}
<1>1. /\ Len(committed) \in Nat /\ DOMAIN committed = 1 .. Len(committed)
      /\ image[b] \in S
  BY ImageType DEF Safe, Typed
<1>2. S \in SUBSET (0 .. Len(committed)) /\ S # {}
  BY <1>1
<1>3. Max(S) \in S /\ \A y \in S : Max(S) >= y
  BY <1>1, <1>2, MaxOfBounded, ZenonT(120)
<1>4. PICK m \in S : \A y \in S : m >= y
  BY <1>3
<1>5. image[b] <= m
  BY <1>1, <1>4
<1>6. ASSUME NEW k \in DOMAIN committed, k > m PROVE committed[k].epoch > committed[m].epoch
  <2>1. committed[m].epoch <= committed[k].epoch
    BY <1>1, <1>6 DEF Safe, RaceFree, EpochsInOrder
  <2>2. committed[k].epoch # committed[m].epoch
    BY <1>1, <1>4, <1>6
  <2>3. committed[k].epoch \in Nat /\ committed[m].epoch \in Nat
    BY CommittedType DEF Safe, Typed
  <2>4. QED
    BY <2>1, <2>2, <2>3
<1>7. QED
  BY <1>5, <1>6 DEF Ends

\* The high watermark passes a record only when every member with progress has it.
LEMMA HighWatermarkCovers ==
  ASSUME Safe, NEW b \in Brokers, NEW n \in Nat, HighWatermark(b) >= n,
         NEW f \in isr[b] \cap DOMAIN stats[b]
  PROVE  stats[b][f].leo >= n
<1> DEFINE S == {Len(log[b])} \cup {stats[b][x].leo : x \in isr[b] \cap DOMAIN stats[b]}
<1>1. \A x \in DOMAIN stats[b] : stats[b][x].leo \in Nat
  BY StatsType DEF Safe, Typed, TypeOK, StatsTyped
<1>2. S \in SUBSET Nat /\ S # {}
  BY <1>1, LogType DEF Safe, Typed
<1>3. Min(S) \in S /\ \A y \in S : Min(S) <= y
  BY <1>2, MinOfNaturals, ZenonT(120)
<1>4. HighWatermark(b) \in Nat /\ HighWatermark(b) <= stats[b][f].leo
  BY <1>2, <1>3, ZenonT(120) DEF HighWatermark
<1>5. QED
  BY <1>1, <1>4

\* A record is acknowledged: every member, present or elected since, has it.
LEMMA AcknowledgeSafe ==
  ASSUME Safe, NEW b \in Brokers, NEW r \in Range(log[b]), Acknowledge(b, r), raced' = {}
  PROVE  RaceFree'
<1>1. UNCHANGED <<committed, image, isr, stats, log>> /\ acked' = acked \cup {r}
  BY DEF Acknowledge, replica
<1>2. Leading(b) /\ isr[b] = Image(b).isr /\ HighWatermark(b) >= r.offset
  BY DEF Acknowledge, Installed, Leading
<1>3. isr[b] \ {b} \subseteq DOMAIN stats[b] /\ Admitted(b) \subseteq isr[b]
  BY DEF Acknowledge
<1>4. PICK n \in DOMAIN log[b] : r = log[b][n]
  BY DEF Range
<1>5. r \in LogRecord /\ r.offset = n /\ n \in Nat /\ n > 0 /\ Holds(b, r) /\ r.epoch \in Nat
  BY <1>4, RecordAt, ZenonT(120) DEF Safe
<1>6. PICK m \in DOMAIN committed : committed[m].epoch = EpochOf(b) /\ image[b] <= m /\ Ends(m)
  BY LastOfEpoch, ZenonT(120)
<1>7. Target(committed[m]) = TargetOf(b)
  BY <1>6, LeaderOfEpoch, ImageType, ZenonT(120) DEF Target, Safe, Typed
<1>8. committed[m].isr \subseteq isr[b] /\ committed[m].isr \subseteq Brokers
  <2>0. m \in image[b] .. Len(committed)
    BY <1>6, ImageType DEF Safe, Typed
  <2>1. m \in {i \in image[b] .. Len(committed) : Target(committed[i]) = TargetOf(b)}
    BY <1>7, <2>0, ZenonT(120)
  <2>2. committed[m].isr \subseteq Admitted(b)
    BY <2>1, ZenonT(120) DEF Admitted
  <2>3. QED
    BY <1>3, <2>2, CommittedType, ZenonT(120) DEF Safe, Typed
<1>9. \A x \in committed[m].isr \ {b} : x \in DOMAIN stats[b] /\ stats[b][x].leo >= n
  BY <1>2, <1>3, <1>5, <1>8, HighWatermarkCovers, ZenonT(120)
<1>10. LeftWith(b, m, n)
  BY <1>9, ZenonT(120) DEF LeftWith
<1>11. \A k \in m .. Len(committed) : \A x \in Members(k) :
         IF EpochOf(x) > EpochOf(b) THEN Holds(x, r) ELSE x \in committed[m].isr \cup {b}
  BY <1>2, <1>4, <1>6, <1>10, ZenonT(120) DEF Safe, RaceFree, CarriedOn
<1>12. ASSUME NEW x \in committed[m].isr \ {b}, ~(EpochOf(x) > EpochOf(b))
       PROVE  EpochOf(x) = EpochOf(b) /\ Holds(x, r)
  <2>1. x \in DOMAIN stats[b] /\ stats[b][x].leo >= n /\ stats[b][x].leo \in Nat /\ x \in Brokers
    BY <1>8, <1>9, <1>12, StatsType, ZenonT(120) DEF Safe, Typed, TypeOK, StatsTyped
  <2>2. EpochOf(x) >= EpochOf(b) /\ (EpochOf(x) = EpochOf(b) => Agree(b, x, stats[b][x].leo))
    <3>1. stats[b][x].leo > 0
      BY <1>5, <2>1, AtLeastPositive, ZenonT(120)
    <3>2. QED
      BY <1>2, <2>1, <3>1, ZenonT(120) DEF Safe, RaceFree, ProgressIsTrue
  <2>3. EpochOf(x) \in Nat /\ EpochOf(b) \in Nat /\ Len(log[x]) \in Nat
    BY <2>1, ImageType, LogType, ZenonT(120) DEF Safe, Typed
  <2>4. EpochOf(x) = EpochOf(b) /\ Agree(b, x, stats[b][x].leo)
    BY <1>12, <2>2, <2>3, AboveOrEqual, ZenonT(120)
  <2>5. n \in 1 .. stats[b][x].leo /\ stats[b][x].leo <= Len(log[x])
    BY <1>5, <2>1, <2>4 DEF Agree
  <2>6. n <= Len(log[x])
    BY <2>1, <2>3, <2>5, WithinLength, ZenonT(120)
  <2>7. log[x][n] = r
    BY <1>4, <2>4, <2>5, ZenonT(120) DEF Agree
  <2>8. QED
    BY <1>5, <2>4, <2>6, <2>7, ZenonT(120) DEF Holds
<1>13. Secured(r, m)
  <2>1. r.epoch <= committed[m].epoch
    BY <1>4, <1>6 DEF Safe, RaceFree, LogsInOrder
  <2>2. ASSUME NEW k \in m .. Len(committed), NEW x \in Members(k)
        PROVE  EpochOf(x) >= committed[m].epoch /\ Holds(x, r)
    <3>1. x \in Brokers /\ EpochOf(x) \in Nat /\ EpochOf(b) \in Nat
      BY <1>6, <2>2, CommittedType, ImageType DEF Safe, Typed
    <3> committed[m].epoch = EpochOf(b)
      BY <1>6, ZenonT(120)
    <3>2. CASE EpochOf(x) > EpochOf(b)
      <4>1. Holds(x, r)
        BY <1>11, <2>2, <3>2, ZenonT(120)
      <4>2. EpochOf(x) >= committed[m].epoch
        BY <3>1, <3>2
      <4>3. QED
        BY <4>1, <4>2, ZenonT(120)
    <3>3. CASE x = b
      <4>1. EpochOf(x) >= committed[m].epoch
        BY <3>1, <3>3
      <4>2. QED
        BY <1>5, <3>3, <4>1, ZenonT(120)
    <3>4. CASE ~(EpochOf(x) > EpochOf(b)) /\ x # b
      <4>1. x \in committed[m].isr \ {b}
        BY <1>11, <2>2, <3>4, ZenonT(120)
      <4>2. EpochOf(x) = EpochOf(b) /\ Holds(x, r)
        BY <1>12, <3>4, <4>1, ZenonT(120)
      <4>3. EpochOf(x) >= committed[m].epoch
        BY <3>1, <4>2
      <4>4. QED
        BY <4>2, <4>3, ZenonT(120)
    <3>5. QED
      BY <3>2, <3>3, <3>4, ZenonT(120)
  <2>3. QED
    BY <2>1, <2>2, ZenonT(120) DEF Secured
<1>14. Foundation' /\ \A q : \A i \in DOMAIN committed : Secured(q, i) => Secured(q, i)'
  <2>1. StatsTyped'
    BY <1>1 DEF Safe, Typed, TypeOK, StatsTyped
  <2>2. QED
    BY <1>1, <2>1, SameImages, QuietStep, ZenonT(120)
<1>15. AckedIsSecured'
  BY <1>1, <1>13, <1>14 DEF Safe, RaceFree, AckedIsSecured
<1>16. QED
  BY <1>14, <1>15 DEF Foundation, RaceFree

-----------------------------------------------------------------------------
(* A broker installs the next record.                                      *)

LEMMA InstallSafe ==
  ASSUME Safe, NEW b \in Brokers, InstallReplicationTarget(b)
  PROVE  RaceFree'
<1>0. PICK t : t = image[b] + 1
  OBVIOUS
<1>1. /\ t \in DOMAIN committed /\ EpochOf(b)' = committed[t].epoch
      /\ TargetOf(b)' = Target(committed[t]) /\ (Leading(b)' <=> committed[t].leader = b)
      /\ Target(committed[t]) # TargetOf(b) => DOMAIN stats'[b] = {}
      /\ Target(committed[t]) = TargetOf(b) => stats'[b] = stats[b]
      /\ StatsTyped'
  BY <1>0, InstallEffect, ZenonT(120) DEF Safe
<1>2. \A c \in Brokers \ {b} : /\ EpochOf(c)' = EpochOf(c) /\ (Leading(c)' <=> Leading(c))
                               /\ stats'[c] = stats[c]
  BY InstallEffect, ZenonT(120) DEF Safe
<1>3. UNCHANGED <<committed, log, acked>>
  BY DEF InstallReplicationTarget, produce
<1>4. /\ EpochOf(b) <= committed[t].epoch /\ committed[t].epoch \in Nat /\ EpochOf(b) \in Nat
      /\ EpochOf(b) = committed[t].epoch => Image(b).leader = committed[t].leader
      /\ TargetOf(b) = [leader |-> Image(b).leader, epoch |-> EpochOf(b)]
  <2>1. image[b] <= t
    BY <1>0, ImageType DEF Safe, Typed
  <2>2. QED
    BY <1>1, <2>1, EpochOfBound, LeaderOfEpoch, ImageType, CommittedType, ZenonT(120) DEF Safe, Typed
<1>5. CASE Target(committed[t]) = TargetOf(b)
  <2>1. committed[t].epoch = EpochOf(b) /\ committed[t].leader = Image(b).leader
    BY <1>4, <1>5 DEF Target
  <2>2. \A c \in Brokers : EpochOf(c)' = EpochOf(c) /\ (Leading(c)' <=> Leading(c))
    BY <1>1, <1>2, <2>1, ZenonT(120) DEF Leading
  <2>3. \A c \in Brokers : stats'[c] = stats[c]
    BY <1>1, <1>2, <1>5, ZenonT(120)
  <2>4. Foundation' /\ \A r : \A m \in DOMAIN committed : Secured(r, m) => Secured(r, m)'
    BY <1>1, <1>3, <2>2, <2>3, QuietStep, ZenonT(120)
  <2>5. AckedIsSecured'
    BY <1>3, <2>4 DEF Safe, RaceFree, AckedIsSecured
  <2>6. QED
    BY <2>4, <2>5 DEF Foundation, RaceFree
<1>6. CASE Target(committed[t]) # TargetOf(b)
  <2>1. DOMAIN stats'[b] = {} /\ EpochOf(b)' > EpochOf(b) /\ EpochOf(b)' \in Nat
    <3>1. EpochOf(b) # committed[t].epoch
      BY <1>4, <1>6, ZenonT(120) DEF Target
    <3>2. committed[t].epoch > EpochOf(b)
      BY <1>4, <3>1
    <3>3. QED
      BY <1>1, <1>4, <1>6, <3>2, ZenonT(120)
  <2>2. \A c \in Brokers : EpochOf(c)' \in Nat /\ EpochOf(c) \in Nat /\ EpochOf(c) <= EpochOf(c)'
    <3>1. \A c \in Brokers : EpochOf(c) \in Nat
      BY ImageType, ZenonT(120) DEF Safe, Typed
    <3>2. EpochOf(b)' \in Nat /\ EpochOf(b) <= EpochOf(b)'
      BY <1>1, <1>4, ZenonT(120)
    <3>3. \A n \in Nat : n <= n
      OBVIOUS
    <3>4. QED
      BY <1>2, <3>1, <3>2, <3>3, ZenonT(120)
  <2>3. /\ \A k : Members(k)' = Members(k) /\ (Ends(k)' <=> Ends(k))
        /\ \A x, y, n : Agree(x, y, n)' <=> Agree(x, y, n)
        /\ \A x, r : Holds(x, r)' <=> Holds(x, r)
    BY <1>3 DEF Members, Ends, Agree, Holds
  <2>4. /\ \A k \in DOMAIN committed : /\ Members(k) \subseteq Brokers /\ committed[k].isr \subseteq Brokers
                                       /\ committed[k].leader \in Brokers /\ committed[k].epoch \in Nat
        /\ DOMAIN committed = 1 .. Len(committed) /\ Len(committed) \in Nat
    BY CommittedType DEF Safe, Typed
  <2>5. EpochsInOrder' /\ LogMatching'
    BY <1>3, <2>3, ZenonT(120) DEF Safe, RaceFree, EpochsInOrder, LogMatching
  <2>6. LogsInOrder'
    <3>1. \A c \in Brokers : \A i \in DOMAIN log[c] : log[c][i].epoch \in Nat
      BY LogType DEF Safe, Typed
    <3>2. QED
      BY <1>3, <2>2, <3>1 DEF Safe, RaceFree, LogsInOrder
  <2>7. EpochsAreLed'
    <3> SUFFICES ASSUME NEW c \in Brokers, NEW k \in DOMAIN committed, NEW i \in DOMAIN log[c],
                        log[c][i].epoch = committed[k].epoch, NEW p, p = committed[k].leader
                 PROVE  EpochOf(p)' >= committed[k].epoch
      BY <1>3, ZenonT(120) DEF EpochsAreLed
    <3>1. EpochOf(p) >= committed[k].epoch /\ p \in Brokers
      BY <2>4, ZenonT(120) DEF Safe, RaceFree, EpochsAreLed
    <3>2. QED
      BY <2>2, <2>4, <3>1
  <2>8. LeaderHasEpoch'
    <3> SUFFICES ASSUME NEW l \in Brokers, NEW c \in Brokers, Leading(l)', NEW i \in DOMAIN log[c],
                        log[c][i].epoch = EpochOf(l)'
                 PROVE  i <= Len(log[l]) /\ log[l][i] = log[c][i]
      BY <1>3, ZenonT(120) DEF LeaderHasEpoch
    <3>1. CASE l = b
      <4>1. log[c][i].epoch = committed[t].epoch /\ committed[t].leader = b
        BY <1>1, <3>1, ZenonT(120)
      <4>2. EpochOf(b) >= committed[t].epoch
        BY <1>1, <4>1, ZenonT(120) DEF Safe, RaceFree, EpochsAreLed
      <4>3. QED
        BY <1>1, <1>4, <2>1, <4>2, AboveAtLeast, AtMostSelf, ZenonT(120)
    <3>2. CASE l # b
      BY <1>2, <3>2, ZenonT(120) DEF Safe, RaceFree, LeaderHasEpoch
    <3>3. QED
      BY <3>1, <3>2, ZenonT(120)
  <2>9. ProgressIsTrue'
    <3> SUFFICES ASSUME NEW l \in Brokers, Leading(l)', NEW f \in DOMAIN stats'[l], stats'[l][f].leo > 0
                 PROVE  /\ EpochOf(f)' >= EpochOf(l)'
                        /\ EpochOf(f)' = EpochOf(l)' => Agree(l, f, stats'[l][f].leo)
      BY <2>3, ZenonT(120) DEF ProgressIsTrue
    <3>1. l # b /\ Leading(l) /\ stats'[l] = stats[l] /\ EpochOf(l)' = EpochOf(l) /\ f \in Brokers
      BY <1>1, <1>2, <2>1 DEF StatsTyped
    <3>2. EpochOf(f) >= EpochOf(l) /\ (EpochOf(f) = EpochOf(l) => Agree(l, f, stats[l][f].leo))
      BY <3>1, ZenonT(120) DEF Safe, RaceFree, ProgressIsTrue
    <3>3. CASE f = b
      BY <2>1, <2>2, <3>1, <3>2, <3>3, AboveAtLeast, ZenonT(120)
    <3>4. CASE f # b
      BY <1>2, <3>1, <3>2, <3>4, ZenonT(120)
    <3>5. QED
      BY <3>3, <3>4, ZenonT(120)
  <2>10. ASSUME NEW m \in DOMAIN committed, Ends(m),
                \A x \in committed[m].isr : EpochOf(x)' <= committed[m].epoch,
                NEW k \in DOMAIN committed, k > m
         PROVE  Members(k) \subseteq committed[m].isr
    <3>1. \A x \in committed[m].isr : EpochOf(x) <= committed[m].epoch
      <4>1. ASSUME NEW x \in committed[m].isr
            PROVE  EpochOf(x)' <= committed[m].epoch /\ EpochOf(x) <= EpochOf(x)'
        BY <2>2, <2>4, <2>10, ZenonT(120)
      <4>2. \A x \in committed[m].isr : EpochOf(x) \in Nat /\ EpochOf(x)' \in Nat
        BY <2>2, <2>4, <2>10, ZenonT(120)
      <4>3. committed[m].epoch \in Nat
        BY <2>4, <2>10, ZenonT(120)
      <4>4. QED
        BY <4>1, <4>2, <4>3
    <3>2. QED
      BY <2>10, <3>1, ZenonT(120) DEF Safe, RaceFree, InsyncInherited
  <2>11. InsyncInherited'
    BY <1>3, <2>3, <2>10, ZenonT(120) DEF InsyncInherited
  <2>12. CarriedOn'
    <3>0. SUFFICES ASSUME NEW l \in Brokers, NEW m \in DOMAIN committed,
                        Leading(l)', committed[m].epoch = EpochOf(l)', Ends(m),
                        NEW n \in DOMAIN log[l], LeftWith(l, m, n)',
                        NEW k \in m .. Len(committed), NEW x \in Members(k)
                 PROVE  IF EpochOf(x)' > EpochOf(l)' THEN Holds(x, log[l][n]) ELSE x \in committed[m].isr \cup {l}
      <4>0. SUFFICES ASSUME NEW l \in Brokers, NEW m \in DOMAIN committed', Leading(l)', Ends(m)',
                            committed'[m].epoch = EpochOf(l)', NEW n \in DOMAIN log'[l], LeftWith(l, m, n)',
                            NEW k \in m .. Len(committed'), NEW x \in Members(k)'
                     PROVE  IF EpochOf(x)' > EpochOf(l)' THEN Holds(x, log[l][n])'
                                                         ELSE x \in committed'[m].isr \cup {l}
        BY ZenonT(120) DEF CarriedOn
      <4>1. Holds(x, log[l][n])' <=> Holds(x, log[l][n])
        BY <1>3 DEF Holds
      <4>2. QED
        BY <1>3, <2>3, <4>0, <4>1, ZenonT(120)
    <3>1. n \in Nat /\ n > 0 /\ log[l][n].offset = n
      BY <3>0, RecordAt, ZenonT(120) DEF Safe
    <3>2. x \in Brokers /\ k \in DOMAIN committed
      BY <2>4, <3>0
    <3>3. CASE l = b
      <4>1. \A y \in committed[m].isr : EpochOf(y)' <= committed[m].epoch
        <5>1. ASSUME NEW y \in committed[m].isr, y # b
              PROVE  ~(EpochOf(y)' > EpochOf(b)')
          BY <1>3, <2>1, <3>0, <3>3, <5>1, ZenonT(120) DEF LeftWith
        <5>2. \A y \in committed[m].isr : EpochOf(y)' \in Nat
          BY <2>2, <2>4, <3>0, ZenonT(120)
        <5>3. QED
          BY <2>1, <3>0, <3>3, <5>1, <5>2, NotAbove, AtMostSelf, ZenonT(120)
      <4>2. committed[m].leader = b
        <5>1. committed[t].leader = b /\ committed[m].epoch = committed[t].epoch
          BY <1>1, <3>0, <3>3, ZenonT(120)
        <5>2. m <= t \/ t <= m
          BY <1>1, <2>4, <3>0
        <5>3. QED
          BY <1>1, <3>0, <5>1, <5>2, ZenonT(120) DEF Safe, RaceFree, EpochsInOrder
      <4>3. x \in committed[m].isr \cup {b}
        <5>1. CASE k = m
          BY <3>0, <4>2, <5>1, ZenonT(120) DEF Members
        <5>2. CASE k > m
          BY <2>10, <3>0, <3>2, <4>1, <5>2, ZenonT(120)
        <5>3. k = m \/ k > m
          BY <2>4, <3>0
        <5>4. QED
          BY <5>1, <5>2, <5>3, ZenonT(120)
      <4>4. ~(EpochOf(x)' > EpochOf(l)')
        <5>1. EpochOf(x)' <= EpochOf(l)' \/ x = l
          BY <3>0, <3>3, <4>1, <4>3, ZenonT(120)
        <5>2. EpochOf(x)' \in Nat /\ EpochOf(l)' \in Nat
          BY <2>2, <3>2, ZenonT(120)
        <5>3. QED
          BY <5>1, <5>2
      <4>5. QED
        BY <3>3, <4>3, <4>4, ZenonT(120)
    <3>4. CASE l # b
      <4>1. Leading(l) /\ EpochOf(l)' = EpochOf(l) /\ stats'[l] = stats[l] /\ committed[m].epoch = EpochOf(l)
        BY <1>2, <3>0, <3>4, ZenonT(120)
      <4>2. LeftWith(l, m, n)
        <5>1. ASSUME NEW y \in committed[m].isr \ {l}, EpochOf(y) > EpochOf(l)
              PROVE  EpochOf(y)' > EpochOf(l)'
          BY <2>2, <2>4, <3>0, <4>1, <5>1, AboveStays, ZenonT(120)
        <5>2. QED
          BY <1>3, <3>0, <4>1, <5>1, ZenonT(120) DEF LeftWith
      <4>3. IF EpochOf(x) > EpochOf(l) THEN Holds(x, log[l][n]) ELSE x \in committed[m].isr \cup {l}
        BY <3>0, <4>1, <4>2, ZenonT(120) DEF Safe, RaceFree, CarriedOn
      <4>4. CASE x # b
        BY <1>2, <3>2, <4>1, <4>3, <4>4, ZenonT(120)
      <4>5. CASE x = b /\ EpochOf(b) > EpochOf(l)
        <5>1. EpochOf(x)' > EpochOf(l)'
          BY <2>2, <3>0, <4>1, <4>5, AboveStays, ZenonT(120)
        <5>2. QED
          BY <4>3, <4>5, <5>1, ZenonT(120)
      <4>6. CASE x = b /\ ~(EpochOf(b) > EpochOf(l))
        <5>1. b \in committed[m].isr \ {l}
          BY <3>4, <4>3, <4>6, ZenonT(120)
        <5>2. CASE ~(EpochOf(b)' > EpochOf(l)')
          BY <4>6, <5>1, <5>2, ZenonT(120)
        <5>3. CASE EpochOf(b)' > EpochOf(l)'
          <6>1. b \in DOMAIN stats[l] /\ stats[l][b].leo >= n
            BY <1>3, <3>0, <4>1, <5>1, <5>3, ZenonT(120) DEF LeftWith
          <6>2. stats[l][b].leo \in Nat /\ Len(log[b]) \in Nat
            BY <6>1, StatsType, LogType, ZenonT(120) DEF Safe, Typed, TypeOK, StatsTyped
          <6>3. EpochOf(b) >= EpochOf(l) /\ (EpochOf(b) = EpochOf(l) => Agree(l, b, stats[l][b].leo))
            <7>1. stats[l][b].leo > 0
              BY <3>1, <6>1, <6>2, AtLeastPositive, ZenonT(120)
            <7>2. QED
              BY <4>1, <6>1, <7>1, ZenonT(120) DEF Safe, RaceFree, ProgressIsTrue
          <6>4. Agree(l, b, stats[l][b].leo)
            BY <2>2, <3>0, <4>6, <6>3, AboveOrEqual, ZenonT(120)
          <6>5. Holds(b, log[l][n])
            <7>1. n \in 1 .. stats[l][b].leo /\ stats[l][b].leo <= Len(log[b])
              BY <3>1, <6>1, <6>2, <6>4 DEF Agree
            <7>2. n <= Len(log[b])
              BY <6>2, <7>1
            <7>3. log[b][n] = log[l][n]
              BY <6>4, <7>1, ZenonT(120) DEF Agree
            <7>4. QED
              BY <3>1, <7>2, <7>3, ZenonT(120) DEF Holds
          <6>6. QED
            BY <4>6, <5>3, <6>5, ZenonT(120)
        <5>4. QED
          BY <5>2, <5>3, ZenonT(120)
      <4>7. QED
        BY <4>4, <4>5, <4>6, ZenonT(120)
    <3>5. QED
      BY <3>3, <3>4, ZenonT(120)
  <2>13. AckedIsSecured'
    <3>1. ASSUME NEW r, NEW m \in DOMAIN committed, Secured(r, m) PROVE Secured(r, m)'
      <4>1. ASSUME NEW k \in m .. Len(committed), NEW x \in Members(k)
            PROVE  EpochOf(x)' >= committed[m].epoch /\ Holds(x, r)
        <5>1. EpochOf(x) >= committed[m].epoch /\ Holds(x, r)
          BY <3>1, <4>1, ZenonT(120) DEF Secured
        <5>2. x \in Brokers
          BY <2>4, <3>1, <4>1
        <5>3. QED
          BY <2>2, <2>4, <3>1, <5>1, <5>2
      <4>2. QED
        BY <1>3, <2>3, <3>1, <4>1, ZenonT(120) DEF Secured
    <3>2. QED
      BY <1>3, <3>1 DEF Safe, RaceFree, AckedIsSecured
  <2>14. QED
    BY <2>5, <2>6, <2>7, <2>8, <2>9, <2>11, <2>12, <2>13 DEF RaceFree
<1>7. QED
  BY <1>5, <1>6

=============================================================================

----------------------------- MODULE KRaftProofs -----------------------------
(***************************************************************************)
(* Type correctness of the KRaft quorum and its election safety, for any   *)
(* finite voter set and any bounds.                                        *)
(***************************************************************************)
EXTENDS KRaft, FiniteSetTheorems, WellFoundedInduction, TLAPS

USE SMTT(120)

-----------------------------------------------------------------------------
(* Smallest and greatest elements.                                         *)

\* A non-empty set of naturals has a smallest element, and Min names it.
LEMMA MinOfNaturals ==
  ASSUME NEW S \in SUBSET Nat, S # {}
  PROVE  Min(S) \in S /\ \A y \in S : Min(S) <= y
<1>1. PICK x \in S : \A y \in S : <<y, x>> \notin OpToRel(<, Nat)
  BY WFMin, NatLessThanWellFounded, ZenonT(120)
<1>2. \A y \in S : ~(y < x)
  BY <1>1, ZenonT(120) DEF OpToRel
<1>3. \A y \in S : x <= y
  BY <1>2
<1>4. QED
  BY <1>3, ZenonT(120) DEF Min

\* A non-empty set of naturals with an upper bound has a greatest element, and
\* Max names it.
LEMMA MaxOfBounded ==
  ASSUME NEW b \in Nat, NEW S \in SUBSET (0..b), S # {}
  PROVE  Max(S) \in S /\ \A y \in S : Max(S) >= y
<1> DEFINE T == {b - x : x \in S}
<1>1. T \subseteq Nat
  OBVIOUS
<1>2. T # {}
  BY ZenonT(120)
<1>3. Min(T) \in T /\ \A y \in T : Min(T) <= y
  BY <1>1, <1>2, MinOfNaturals, ZenonT(120)
<1>4. PICK x \in S : Min(T) = b - x
  BY <1>3, ZenonT(120)
<1>5. \A y \in S : x >= y
  BY <1>3, <1>4
<1>6. QED
  BY <1>5, ZenonT(120) DEF Max

-----------------------------------------------------------------------------
(* The log operators.                                                      *)

\* The last epoch of a log is an epoch of one of its records, or 0.
LEMMA LastEpochType ==
  ASSUME NEW l \in Seq(Entry)
  PROVE  LastEpoch(l) \in Nat
<1>1. CASE l = << >>
  BY <1>1 DEF LastEpoch
<1>2. CASE l # << >>
  <2>1. Len(l) \in Nat /\ Len(l) >= 1
    BY <1>2
  <2>2. Checkpoint(l) \in SUBSET (0..Len(l)) /\ 1 \in Checkpoint(l)
    BY <2>1 DEF Checkpoint
  <2>3. Max(Checkpoint(l)) \in Checkpoint(l)
    BY <2>1, <2>2, MaxOfBounded
  <2>4. PICK j \in 1..Len(l) : j = Max(Checkpoint(l))
    BY <2>3, ZenonT(120) DEF Checkpoint
  <2>5. l[j] \in Entry
    BY <2>4
  <2>6. LastEpoch(l) = l[j].epoch
    BY <1>2, <2>4 DEF LastEpoch
  <2>7. QED
    BY <2>5, <2>6 DEF Entry
<1>3. QED
  BY <1>1, <1>2

\* A divergence point is an offset within the log.
LEMMA EndOffsetType ==
  ASSUME NEW l \in Seq(Entry), NEW e \in Nat
  PROVE  EndOffsetForEpoch(l, e) \in 0..Len(l) \cup {NoOffset}
<1> DEFINE later == {j \in Checkpoint(l) : l[j].epoch > e}
<1>1. later \in SUBSET Nat /\ later \in SUBSET (1..Len(l)) /\ Len(l) \in Nat
  BY DEF Checkpoint
<1>2. later # {} => Min(later) \in later
  BY <1>1, MinOfNaturals, ZenonT(120)
<1>3. QED
  BY <1>1, <1>2 DEF EndOffsetForEpoch

\* Truncation yields a log.
LEMMA TruncateType ==
  ASSUME NEW l \in Seq(Entry), NEW o \in Nat
  PROVE  TruncateTo(l, o) \in Seq(Entry)
<1>1. Minimum(o, Len(l)) \in 0..Len(l)
  BY DEF Minimum
<1>2. QED
  BY <1>1 DEF TruncateTo

\* The records that continue a log are records.
LEMMA ContinuationType ==
  ASSUME NEW l \in Seq(Entry), NEW m \in FetchRespMsg
  PROVE  l \o Continuation(l, m) \in Seq(Entry)
<1>1. m.base \in Nat /\ m.recs \in Seq(Entry) /\ Len(m.recs) \in Nat /\ Len(l) \in Nat
  BY DEF FetchRespMsg
<1>2. CASE m.base > Len(l)
  BY <1>1, <1>2 DEF Continuation
<1>3. CASE m.base <= Len(l)
  <2> DEFINE first == Len(l) - m.base + 1
  <2>1. first \in Nat \ {0}
    BY <1>1, <1>3
  <2> HIDE DEF first
  <2>2. SubSeq(m.recs, first, Len(m.recs)) \in Seq(Entry)
    BY <1>1, <2>1
  <2>3. Continuation(l, m) \in Seq(Entry)
    BY <1>1, <1>3, <2>2 DEF Continuation, first
  <2>4. QED
    BY <2>3
<1>4. QED
  BY <1>1, <1>2, <1>3

\* A voter set of two or more has a majority within it.
LEMMA MajorityFits == Majority \in Nat /\ Majority <= Cardinality(Node)
<1>1. Cardinality(Node) \in Nat /\ Cardinality(Node) >= 2
  BY NodeAssumption, FS_CardinalityType
<1>2. QED
  BY <1>1 DEF Majority

\* The recomputed high watermark is an offset: some offset is always reached by a
\* majority, because every voter has reached the smallest one.
LEMMA HighWatermarkType ==
  ASSUME TypeOK, NEW n \in Node, NEW acks \in [Node -> Nat]
  PROVE  RecomputeHighWatermark(n, acks) \in Nat
<1> DEFINE end == Len(log[n])
           matched == [p \in Node |-> IF p = n THEN end ELSE Minimum(acks[p], end)]
           reached == {matched[p] : p \in Node}
           quorumReached ==
             {o \in reached : Cardinality({p \in Node : matched[p] >= o}) >= Majority}
           current == Minimum(coreHwm[n], end)
<1>1. end \in Nat /\ coreHwm[n] \in Nat /\ epochStart[n] \in Nat
  BY DEF TypeOK
<1>2. current \in Nat
  BY <1>1 DEF Minimum
<1>3. matched \in [Node -> 0..end]
  BY <1>1 DEF Minimum
<1> HIDE DEF end, matched, current
<1>4. reached \subseteq 0..end /\ reached \in SUBSET Nat /\ reached # {}
  BY <1>1, <1>3
<1>5. Min(reached) \in reached /\ \A o \in reached : Min(reached) <= o
  BY <1>4, MinOfNaturals, ZenonT(120)
<1>6. {p \in Node : matched[p] >= Min(reached)} = Node
  BY <1>3, <1>4, <1>5
<1>7. Min(reached) \in quorumReached
  BY <1>5, <1>6, MajorityFits, ZenonT(120)
<1>8. Max(quorumReached) \in 0..end
  <2>1. quorumReached \in SUBSET (0..end) /\ quorumReached # {}
    BY <1>4, <1>7, ZenonT(120)
  <2> HIDE DEF quorumReached
  <2>2. QED
    BY <1>1, <2>1, MaxOfBounded, ZenonT(120)
<1> HIDE DEF quorumReached
<1>9. RecomputeHighWatermark(n, acks) =
        IF Max(quorumReached) > epochStart[n] THEN Maximum(Max(quorumReached), current)
                                              ELSE current
  BY ZenonT(120) DEF RecomputeHighWatermark, end, matched, quorumReached, current
<1>10. QED
  BY <1>1, <1>2, <1>8, <1>9 DEF Maximum

-----------------------------------------------------------------------------
(* Messages.                                                               *)

\* A message of a given type carries that type's fields.
LEMMA MessageByType ==
  ASSUME NEW m \in Message
  PROVE  /\ m.type = "Vote" => m \in VoteMsg
         /\ m.type = "VoteResp" => m \in VoteRespMsg
         /\ m.type = "Begin" => m \in BeginMsg
         /\ m.type = "Fetch" => m \in FetchMsg
         /\ m.type = "FetchResp" => m \in FetchRespMsg
  BY DEF Message, VoteMsg, VoteRespMsg, BeginMsg, FetchMsg, FetchRespMsg

\* The requests a node sends are messages.
LEMMA RequestTypes ==
  ASSUME NEW n \in Node, NEW e \in Nat, NEW pre \in BOOLEAN, NEW l \in Seq(Entry), NEW to \in Node
  PROVE  /\ VoteRequests(n, e, pre, l) \subseteq VoteMsg
         /\ BeginRequests(n, e) \subseteq BeginMsg
         /\ FetchRequests(n, to, l) \subseteq FetchMsg
<1>1. LastEpoch(l) \in Nat /\ Len(l) \in Nat
  BY LastEpochType
<1>2. ASSUME NEW x \in VoteRequests(n, e, pre, l) PROVE x \in VoteMsg
  <2>1. PICK p \in Node :
          x = [type |-> "Vote", from |-> n, to |-> p, epoch |-> e, pre |-> pre,
               lastEpoch |-> LastEpoch(l), lastOffset |-> Len(l), live |-> TRUE]
    BY <1>2, ZenonT(120) DEF VoteRequests, Peers
  <2>2. QED
    BY <1>1, <2>1 DEF VoteMsg
<1>3. BeginRequests(n, e) \subseteq BeginMsg
  BY DEF BeginRequests, BeginMsg, Peers
<1>4. ASSUME NEW x \in FetchRequests(n, to, l) PROVE x \in FetchMsg
  <2>1. x = [type |-> "Fetch", from |-> n, to |-> to, epoch |-> LastEpoch(l),
             offset |-> Len(l), live |-> TRUE]
    BY <1>4 DEF FetchRequests
  <2>2. QED
    BY <1>1, <2>1 DEF FetchMsg
<1>5. QED
  BY <1>2, <1>3, <1>4

\* The replies a node sends are messages.
LEMMA ReplyTypes ==
  /\ \A m \in VoteMsg, e \in Nat, yes \in BOOLEAN : VoteReply(m, e, yes) \subseteq VoteRespMsg
  /\ \A m \in FetchMsg, ldr \in Node, div \in Nat \cup {NoOffset}, mark \in Nat,
        recs \in Seq(Entry) : FetchReply(m, ldr, div, mark, recs) \subseteq FetchRespMsg
<1>1. ASSUME NEW m \in VoteMsg, NEW e \in Nat, NEW yes \in BOOLEAN
      PROVE  VoteReply(m, e, yes) \subseteq VoteRespMsg
  BY DEF VoteReply, VoteMsg, VoteRespMsg
<1>2. ASSUME NEW m \in FetchMsg, NEW ldr \in Node, NEW div \in Nat \cup {NoOffset},
             NEW mark \in Nat, NEW recs \in Seq(Entry)
      PROVE  FetchReply(m, ldr, div, mark, recs) \subseteq FetchRespMsg
  BY DEF FetchReply, FetchMsg, FetchRespMsg
<1>3. QED
  BY <1>1, <1>2

\* Sending and consuming keep the network well typed.
LEMMA NetworkType ==
  ASSUME msgs \subseteq Message, NEW ms \in SUBSET Message, NEW m
  PROVE  (Send(ms) \/ Consume(m, ms)) => msgs' \subseteq Message
  BY DEF Send, Consume

-----------------------------------------------------------------------------
(* Type correctness.                                                       *)

\* What leaving the leader role writes is well typed.
LEMMA LeaveType ==
  ASSUME TypeOK, NEW n \in Node, LeaveLeadership(n)
  PROVE  /\ progress' \in [Node -> [Node -> Nat]]
         /\ coreHwm' \in [Node -> Nat]
         /\ epochStart' \in [Node -> Nat]
         /\ waiters' \in [Node -> SUBSET (Nat \ {0})]
  BY DEF TypeOK, LeaveLeadership

\* What advancing the high watermark writes is well typed.
LEMMA AdvanceType ==
  ASSUME TypeOK, NEW n \in Node, NEW target \in Nat, NEW l \in Seq(Entry),
         AdvanceAndApply(n, target, l)
  PROVE  /\ hwm' \in [Node -> Nat]
         /\ waiters' \in [Node -> SUBSET (Nat \ {0})]
         /\ acked' \subseteq Nat \X Entry
<1> DEFINE mark == AdvancedHwm(n, target, l)
           done == Resolved(n, mark)
           reached == {v \in done : v <= Len(l)}
<1>1. Len(l) \in Nat /\ hwm[n] \in Nat /\ waiters[n] \in SUBSET (Nat \ {0})
  BY DEF TypeOK
<1>2. mark \in Nat
  BY <1>1 DEF AdvancedHwm, Minimum, Maximum
<1>3. done \subseteq waiters[n]
  BY DEF Resolved
<1>4. reached \subseteq 1..Len(l)
  BY <1>1 DEF Resolved
<1> HIDE DEF mark, done, reached
<1>5. /\ hwm' = [hwm EXCEPT ![n] = mark]
      /\ waiters' = [waiters EXCEPT ![n] = @ \ done]
      /\ acked' = acked \cup {<<w - 1, l[w]>> : w \in reached}
  BY ZenonT(120) DEF AdvanceAndApply, mark, done, reached
<1>6. {<<w - 1, l[w]>> : w \in reached} \subseteq Nat \X Entry
  <2>1. ASSUME NEW w \in reached PROVE w - 1 \in Nat /\ l[w] \in Entry
    BY <1>1, <1>4
  <2>2. QED
    BY <2>1
<1>7. QED
  BY <1>2, <1>5, <1>6 DEF TypeOK

\* Every timer, submit and restart preserves the types.
LEMMA TypeLocal ==
  ASSUME TypeOK, LeaderKnown, NEW n \in Node, Timer(n) \/ SubmitChange(n) \/ Restart(n)
  PROVE  TypeOK'
<1>1. log[n] \in Seq(Entry) /\ epoch[n] \in Nat /\ Len(log[n]) \in Nat
  BY DEF TypeOK
<1>2. LeaderRecord(n) \in Entry
  BY <1>1 DEF Entry, LeaderRecord
<1>3. CASE ElectionTimeout(n) \/ FetchTimeout(n)
  <2>1. StartElection(n)
    BY <1>3 DEF ElectionTimeout, FetchTimeout
  <2>2. VoteRequests(n, epoch[n], TRUE, log[n]) \in SUBSET Message
    BY <1>1, RequestTypes, ZenonT(120) DEF Message
  <2>3. msgs' \subseteq Message
    BY <2>1, <2>2, NetworkType, ZenonT(120) DEF StartElection, TypeOK
  <2>4. QED
    BY <1>1, <2>1, <2>3 DEF StartElection, TypeOK, Role, logVars, leaderVars
<1>4. CASE RePoll(n)
  <2>1. FetchRequests(n, leader[n], log[n]) \in SUBSET Message
    <3>1. leader[n] \in Node
      BY <1>4 DEF RePoll, LeaderKnown
    <3>2. QED
      BY <1>1, <3>1, RequestTypes, ZenonT(120) DEF Message
  <2>2. msgs' \subseteq Message
    BY <1>4, <2>1, NetworkType, ZenonT(120) DEF RePoll, TypeOK
  <2>3. QED
    BY <1>4, <2>2, ZenonT(120) DEF RePoll, TypeOK, quorumVars, logVars, leaderVars, histVars
<1>5. CASE Heartbeat(n)
  <2>1. BeginRequests(n, epoch[n]) \in SUBSET Message
    BY <1>1, RequestTypes, ZenonT(120) DEF Message
  <2>2. msgs' \subseteq Message
    BY <1>5, <2>1, NetworkType, ZenonT(120) DEF Heartbeat, TypeOK
  <2>3. QED
    BY <1>5, <2>2, ZenonT(120) DEF Heartbeat, TypeOK, quorumVars, logVars, leaderVars, histVars
<1>6. CASE SubmitChange(n)
  BY <1>1, <1>2, <1>6 DEF SubmitChange, TypeOK, quorumVars, histVars
<1>7. CASE Restart(n)
  <2>1. msgs' \subseteq Message
    <3>1. ASSUME NEW m \in msgs, m.type \in {"Vote", "Fetch"}
          PROVE  [m EXCEPT !.live = FALSE] \in Message
      <4>1. m \in Message
        BY DEF TypeOK
      <4>2. CASE m \in VoteMsg
        BY <4>2, ZenonT(120) DEF Message, VoteMsg
      <4>3. CASE m \in FetchMsg
        BY <4>3, ZenonT(120) DEF Message, FetchMsg
      <4>4. QED
        BY <3>1, <4>1, <4>2, <4>3, MessageByType
    <3>2. QED
      BY <1>7, <3>1 DEF Restart, TypeOK
  <2>2. /\ restarts' \in Nat
        /\ abandoned' \subseteq Node \X Nat
    BY <1>1, <1>7 DEF Restart, TypeOK
  <2>3. /\ leader' \in [Node -> Node \cup {Nil}]
        /\ role' \in [Node -> Role]
        /\ granted' \in [Node -> SUBSET Node]
    BY <1>7 DEF Restart, TypeOK, Role
  <2>4. UNCHANGED <<epoch, voted, log, hwm, cast, elected, acked>> /\ LeaveLeadership(n)
    BY <1>7 DEF Restart, logVars
  <2>5. QED
    BY <2>1, <2>2, <2>3, <2>4, LeaveType, ZenonT(120) DEF TypeOK
<1>8. QED
  BY <1>3, <1>4, <1>5, <1>6, <1>7 DEF Timer

\* The votes: requests and responses preserve the types.
LEMMA TypeVotes ==
  ASSUME TypeOK, NEW n \in Node, NEW m \in msgs,
         ReceiveVoteRequest(n, m) \/ ReceiveVoteResponse(n, m)
  PROVE  TypeOK'
<1>1. m \in Message /\ log[n] \in Seq(Entry) /\ epoch[n] \in Nat
  BY DEF TypeOK
<1>2. CASE ReceiveVoteRequest(n, m)
  <2>1. /\ m \in VoteMsg /\ m.epoch \in Nat /\ m.from \in Node
    BY <1>1, <1>2, MessageByType DEF ReceiveVoteRequest, VoteMsg
  <2>2. \A e \in Nat, yes \in BOOLEAN : VoteReply(m, e, yes) \in SUBSET Message
    BY <2>1, ReplyTypes DEF Message
  <2>3. CASE FenceVote(n, m)
    <3>1. msgs' \subseteq Message
      BY <1>1, <2>2, <2>3, NetworkType, ZenonT(120) DEF FenceVote, TypeOK
    <3>2. QED
      BY <2>3, <3>1, ZenonT(120) DEF FenceVote, TypeOK, quorumVars, logVars, leaderVars, histVars
  <2>4. CASE AnswerPreVote(n, m)
    <3>1. msgs' \subseteq Message
      BY <1>1, <2>2, <2>4, NetworkType, ZenonT(120) DEF AnswerPreVote, LogIsUpToDate, TypeOK
    <3>2. QED
      BY <2>4, <3>1, ZenonT(120) DEF AnswerPreVote, TypeOK, quorumVars, logVars, leaderVars, histVars
  <2>5. CASE GrantVote(n, m)
    <3>1. msgs' \subseteq Message
      BY <2>1, <2>2, <2>5, NetworkType, ZenonT(120) DEF GrantVote, TypeOK
    <3>2. UNCHANGED <<log, hwm, restarts, elected, abandoned, acked>> /\ LeaveLeadership(n)
      BY <2>5 DEF GrantVote, logVars
    <3>3. /\ epoch' \in [Node -> Nat]
          /\ leader' \in [Node -> Node \cup {Nil}]
          /\ voted' \in [Node -> Node \cup {Nil}]
          /\ role' \in [Node -> Role]
          /\ granted' \in [Node -> SUBSET Node]
      BY <2>1, <2>5, ZenonT(120) DEF GrantVote, TypeOK, Role
    <3>4. cast' \in [Node -> SUBSET (Nat \X Node)]
      <4>1. <<m.epoch, m.from>> \in Nat \X Node
        BY <2>1
      <4>2. cast' = [cast EXCEPT ![n] = cast[n] \cup {<<m.epoch, m.from>>}]
        BY <2>5 DEF GrantVote
      <4>3. QED
        BY <4>1, <4>2, ZenonT(120) DEF TypeOK
    <3>5. QED
      BY <3>1, <3>2, <3>3, <3>4, LeaveType, ZenonT(120) DEF TypeOK
  <2>6. CASE DenyVote(n, m)
    <3>1. msgs' \subseteq Message
      BY <2>1, <2>2, <2>6, NetworkType, ZenonT(120) DEF DenyVote, TypeOK
    <3>2. UNCHANGED <<log, hwm, restarts, cast, elected, abandoned, acked>>
      BY <2>6 DEF DenyVote, logVars, histVars
    <3>3. CASE TransitionToUnattached(n, m.epoch)
      BY <2>1, <3>1, <3>2, <3>3, LeaveType, ZenonT(120) DEF TransitionToUnattached, TypeOK, Role
    <3>4. CASE UNCHANGED <<quorumVars, leaderVars>>
      BY <3>1, <3>2, <3>4, ZenonT(120) DEF TypeOK, quorumVars, leaderVars
    <3>5. QED
      BY <2>6, <3>3, <3>4 DEF DenyVote
  <2>7. QED
    BY <1>2, <2>3, <2>4, <2>5, <2>6 DEF ReceiveVoteRequest
<1>3. CASE ReceiveVoteResponse(n, m)
  <2>1. m \in VoteRespMsg /\ m.epoch \in Nat /\ m.from \in Node
    BY <1>1, <1>3, MessageByType DEF ReceiveVoteResponse, VoteRespMsg
  <2>2. CASE FencedByRejection(n, m)
    <3>1. msgs' \subseteq Message
      BY <2>2, NetworkType, ZenonT(120) DEF FencedByRejection, TypeOK
    <3>2. QED
      BY <2>1, <2>2, <3>1, LeaveType, ZenonT(120)
      DEF FencedByRejection, TransitionToUnattached, TypeOK, Role, logVars, histVars
  <2>3. CASE IgnoreVoteResponse(n, m)
    <3>1. msgs' \subseteq Message
      BY <2>3, NetworkType, ZenonT(120) DEF IgnoreVoteResponse, TypeOK
    <3>2. QED
      BY <2>3, <3>1, ZenonT(120) DEF IgnoreVoteResponse, TypeOK, quorumVars, logVars, leaderVars, histVars
  <2>4. CASE CountVote(n, m)
    <3>1. CASE PromoteToCandidate(n, m)
      <4>1. VoteRequests(n, epoch[n] + 1, FALSE, log[n]) \in SUBSET Message
        <5>1. epoch[n] + 1 \in Nat
          BY <1>1
        <5>2. VoteRequests(n, epoch[n] + 1, FALSE, log[n]) \subseteq VoteMsg
          BY <1>1, <5>1, RequestTypes, ZenonT(120)
        <5>3. QED
          BY <5>2, ZenonT(120) DEF Message
      <4>2. msgs' \subseteq Message
        BY <3>1, <4>1, NetworkType, ZenonT(120) DEF PromoteToCandidate, TypeOK
      <4>3. cast' \in [Node -> SUBSET (Nat \X Node)]
        <5>1. <<epoch[n] + 1, n>> \in Nat \X Node
          BY <1>1
        <5>2. cast' = [cast EXCEPT ![n] = cast[n] \cup {<<epoch[n] + 1, n>>}]
          BY <3>1 DEF PromoteToCandidate
        <5>3. QED
          BY <5>1, <5>2, ZenonT(120) DEF TypeOK
      <4>4. /\ epoch' \in [Node -> Nat]
            /\ leader' \in [Node -> Node \cup {Nil}]
            /\ voted' \in [Node -> Node \cup {Nil}]
            /\ role' \in [Node -> Role]
            /\ granted' \in [Node -> SUBSET Node]
        BY <1>1, <3>1 DEF PromoteToCandidate, TypeOK, Role
      <4>5. UNCHANGED <<logVars, leaderVars, restarts, elected, abandoned, acked>>
        BY <3>1 DEF PromoteToCandidate
      <4>6. QED
        BY <4>2, <4>3, <4>4, <4>5, ZenonT(120) DEF TypeOK, logVars, leaderVars
    <3>2. CASE PromoteToLeader(n, m)
      <4>1. BeginRequests(n, epoch[n]) \in SUBSET Message
        BY <1>1, RequestTypes, ZenonT(120) DEF Message
      <4>2. msgs' \subseteq Message
        BY <3>2, <4>1, NetworkType, ZenonT(120) DEF PromoteToLeader, TypeOK
      <4>3. LeaderRecord(n) \in Entry
        BY <1>1 DEF Entry, LeaderRecord
      <4>4. log' \in [Node -> Seq(Entry)]
        BY <1>1, <3>2, <4>3 DEF PromoteToLeader, TypeOK
      <4>5. /\ leader' \in [Node -> Node \cup {Nil}]
            /\ role' \in [Node -> Role]
            /\ granted' \in [Node -> SUBSET Node]
            /\ progress' \in [Node -> [Node -> Nat]]
            /\ coreHwm' \in [Node -> Nat]
            /\ epochStart' \in [Node -> Nat]
        BY <1>1, <3>2 DEF PromoteToLeader, TypeOK, Role
      <4>6. elected' \subseteq Nat \X Node
        <5>1. <<epoch[n], n>> \in Nat \X Node
          BY <1>1
        <5>2. elected' = elected \cup {<<epoch[n], n>>}
          BY <3>2 DEF PromoteToLeader
        <5>3. QED
          BY <5>1, <5>2 DEF TypeOK
      <4>7. UNCHANGED <<epoch, voted, hwm, waiters, restarts, cast, abandoned, acked>>
        BY <3>2 DEF PromoteToLeader
      <4>8. QED
        BY <4>2, <4>4, <4>5, <4>6, <4>7, ZenonT(120) DEF TypeOK
    <3>3. CASE /\ granted' = [granted EXCEPT ![n] = granted[n] \cup {m.from}]
               /\ Consume(m, {})
               /\ UNCHANGED <<epoch, voted, leader, role, logVars, leaderVars, restarts,
                              histVars, acked>>
      <4>1. msgs' \subseteq Message
        BY <3>3, NetworkType, ZenonT(120) DEF TypeOK
      <4>2. QED
        BY <2>1, <3>3, <4>1, ZenonT(120) DEF TypeOK, logVars, leaderVars, histVars
    <3>4. QED
      BY <2>4, <3>1, <3>2, <3>3, ZenonT(120) DEF CountVote
  <2>5. QED
    BY <1>3, <2>2, <2>3, <2>4 DEF ReceiveVoteResponse
<1>4. QED
  BY <1>2, <1>3

\* A leader's announcement preserves the types.
LEMMA TypeBegin ==
  ASSUME TypeOK, NEW n \in Node, NEW m \in msgs, ReceiveBegin(n, m)
  PROVE  TypeOK'
<1>1. m \in BeginMsg /\ log[n] \in Seq(Entry)
  BY MessageByType DEF ReceiveBegin, TypeOK
<1>2. m.epoch \in Nat /\ m.from \in Node
  BY <1>1 DEF BeginMsg
<1>3. CASE FollowLeader(n, m)
  <2>1. FetchRequests(n, m.from, log[n]) \subseteq Message
    BY <1>1, <1>2, RequestTypes, ZenonT(120) DEF Message
  <2>2. msgs' \subseteq Message
    BY <1>3, <2>1, NetworkType, ZenonT(120) DEF FollowLeader, TypeOK
  <2>3. QED
    BY <1>2, <1>3, <2>2, LeaveType, ZenonT(120) DEF FollowLeader, TypeOK, Role, logVars, histVars
<1>4. CASE IgnoreLeader(n, m)
  <2>1. msgs' \subseteq Message
    BY <1>4, NetworkType, ZenonT(120) DEF IgnoreLeader, TypeOK
  <2>2. QED
    BY <1>4, <2>1, ZenonT(120) DEF IgnoreLeader, TypeOK, quorumVars, logVars, leaderVars, histVars
<1>5. QED
  BY <1>3, <1>4 DEF ReceiveBegin

\* Serving a fetch preserves the types.
LEMMA TypeFetch ==
  ASSUME TypeOK, LeaderKnown, NEW n \in Node, NEW m \in msgs, ReceiveFetch(n, m)
  PROVE  TypeOK'
<1>1. m \in FetchMsg /\ log[n] \in Seq(Entry) /\ hwm[n] \in Nat /\ Len(log[n]) \in Nat
  BY MessageByType DEF ReceiveFetch, TypeOK
<1>2. m.epoch \in Nat /\ m.from \in Node /\ m.offset \in Nat
  BY <1>1 DEF FetchMsg
<1>3. CASE AnswerDiverging(n, m)
  <2>1. DivergesAt(n, m) \in Nat
    BY <1>1, <1>2, <1>3, EndOffsetType DEF AnswerDiverging, Diverges, DivergesAt
  <2>2. log' \in [Node -> Seq(Entry)]
    BY <1>1, <1>3, <2>1, TruncateType DEF AnswerDiverging, TypeOK
  <2>3. hwm' \in [Node -> Nat]
    BY <1>1, <1>3, <2>1 DEF AnswerDiverging, TypeOK, Minimum
  <2>4. leader[n] \in Node /\ << >> \in Seq(Entry)
    BY <1>3 DEF AnswerDiverging, LeaderKnown
  <2>5. FetchReply(m, leader[n], DivergesAt(n, m), hwm'[n], << >>) \subseteq Message
    BY <1>1, <2>1, <2>3, <2>4, ReplyTypes, ZenonT(120) DEF Message
  <2>6. msgs' \subseteq Message
    BY <1>3, <2>5, NetworkType, ZenonT(120) DEF AnswerDiverging, TypeOK
  <2>7. UNCHANGED <<quorumVars, leaderVars, restarts, histVars, acked>>
    BY <1>3, ZenonT(120) DEF AnswerDiverging
  <2>8. QED
    BY <2>2, <2>3, <2>6, <2>7, ZenonT(120) DEF TypeOK, quorumVars, leaderVars, histVars
<1>4. CASE ServeFetch(n, m)
  <2>1. progress' \in [Node -> [Node -> Nat]]
    BY <1>2, <1>4, ZenonT(120) DEF ServeFetch, TypeOK
  <2>2. RecomputeHighWatermark(n, progress'[n]) \in Nat
    BY <2>1, HighWatermarkType
  <2>3. /\ coreHwm' \in [Node -> Nat]
        /\ hwm' \in [Node -> Nat]
        /\ waiters' \in [Node -> SUBSET (Nat \ {0})]
        /\ acked' \subseteq Nat \X Entry
    <3> DEFINE mark == RecomputeHighWatermark(n, progress'[n])
    <3>1. CASE coreHwm' = [coreHwm EXCEPT ![n] = mark] /\ AdvanceAndApply(n, mark, log[n])
      <4>1. coreHwm' \in [Node -> Nat]
        BY <2>2, <3>1 DEF TypeOK
      <4>2. QED
        BY <1>1, <2>2, <3>1, <4>1, AdvanceType
    <3>2. CASE UNCHANGED <<coreHwm, hwm, waiters, acked>>
      BY <3>2 DEF TypeOK
    <3>3. QED
      BY <1>4, <3>1, <3>2 DEF ServeFetch
  <2>4. ServedRecords(log[n], m.offset) \in Seq(Entry)
    BY <1>1, <1>2 DEF ServedRecords
  <2>5. leader[n] \in Node /\ hwm'[n] \in Nat
    BY <1>4, <2>3 DEF ServeFetch, LeaderKnown
  <2>6. FetchReply(m, leader[n], NoOffset, hwm'[n], ServedRecords(log[n], m.offset))
          \subseteq Message
    BY <1>1, <2>4, <2>5, ReplyTypes, ZenonT(120) DEF Message
  <2>7. msgs' \subseteq Message
    BY <1>4, <2>6, NetworkType, ZenonT(120) DEF ServeFetch, TypeOK
  <2>8. UNCHANGED <<quorumVars, log, epochStart, restarts, histVars>>
    BY <1>4 DEF ServeFetch
  <2>9. QED
    BY <2>1, <2>3, <2>7, <2>8, ZenonT(120) DEF TypeOK, quorumVars, histVars
<1>5. CASE RedirectFetch(n, m)
  <2>1. << >> \in Seq(Entry) /\ (leader[n] # Nil => leader[n] \in Node)
    BY DEF TypeOK
  <2>2. (IF leader[n] = Nil THEN {} ELSE FetchReply(m, leader[n], NoOffset, hwm[n], << >>))
          \subseteq Message
    BY <1>1, <2>1, ReplyTypes, ZenonT(120) DEF Message
  <2>3. msgs' \subseteq Message
    BY <1>5, <2>2, NetworkType, ZenonT(120) DEF RedirectFetch, TypeOK
  <2>4. QED
    BY <1>5, <2>3, ZenonT(120) DEF RedirectFetch, TypeOK, quorumVars, logVars, leaderVars, histVars
<1>6. QED
  BY <1>3, <1>4, <1>5 DEF ReceiveFetch

\* Applying a fetch response preserves the types.
LEMMA TypeFetchResponse ==
  ASSUME TypeOK, NEW n \in Node, NEW m \in msgs, ReceiveFetchResponse(n, m)
  PROVE  TypeOK'
<1>1. m \in FetchRespMsg /\ log[n] \in Seq(Entry) /\ hwm[n] \in Nat
  BY MessageByType DEF ReceiveFetchResponse, TypeOK
<1>2. m.leader \in Node /\ m.hwm \in Nat /\ (m.div # NoOffset => m.div \in Nat)
  BY <1>1, ZenonT(120) DEF FetchRespMsg
<1>3. CASE TruncateToHint(n, m)
  <2>1. msgs' \subseteq Message
    BY <1>3, NetworkType, ZenonT(120) DEF TruncateToHint, TypeOK
  <2>2. log' \in [Node -> Seq(Entry)]
    BY <1>1, <1>2, <1>3, TruncateType, ZenonT(120) DEF TruncateToHint, TypeOK
  <2>3. hwm' \in [Node -> Nat]
    BY <1>1, <1>2, <1>3 DEF TruncateToHint, TypeOK, Minimum
  <2>4. UNCHANGED <<quorumVars, leaderVars, restarts, histVars, acked>>
    BY <1>3 DEF TruncateToHint
  <2>5. QED
    BY <2>1, <2>2, <2>3, <2>4, ZenonT(120) DEF TypeOK, quorumVars, leaderVars, histVars
<1>4. CASE AppendFetched(n, m)
  <2> DEFINE l == log[n] \o Continuation(log[n], m)
  <2>1. l \in Seq(Entry)
    BY <1>1, <1>2, ContinuationType, ZenonT(120)
  <2> HIDE DEF l
  <2>2. log' = [log EXCEPT ![n] = l] /\ AdvanceAndApply(n, m.hwm, l)
        /\ Consume(m, FetchRequests(n, m.leader, l))
    BY <1>4 DEF AppendFetched, l
  <2>3. FetchRequests(n, m.leader, l) \subseteq Message
    BY <1>2, <2>1, RequestTypes, ZenonT(120) DEF Message
  <2>4. msgs' \subseteq Message
    BY <2>2, <2>3, NetworkType, ZenonT(120) DEF TypeOK
  <2>5. log' \in [Node -> Seq(Entry)]
    BY <2>1, <2>2 DEF TypeOK
  <2>6. UNCHANGED <<quorumVars, progress, coreHwm, epochStart, restarts, histVars>>
    BY <1>4 DEF AppendFetched
  <2>7. QED
    BY <1>2, <2>1, <2>2, <2>4, <2>5, <2>6, AdvanceType, ZenonT(120) DEF TypeOK, quorumVars, histVars
<1>5. QED
  BY <1>3, <1>4 DEF ReceiveFetchResponse

\* Following or leading keeps implying a known leader: a step leaves both fields
\* of every node alone, or sets both of one.
LEMMA LeaderKnownStep ==
  ASSUME TypeOK, LeaderKnown, [Next]_vars
  PROVE  LeaderKnown'
<1> DEFINE Sets(n, x, r) == leader' = [leader EXCEPT ![n] = x] /\ role' = [role EXCEPT ![n] = r]
<1>1. CASE UNCHANGED <<leader, role>>
  BY <1>1 DEF LeaderKnown
<1>2. ASSUME NEW n \in Node, NEW x, NEW r, Sets(n, x, r),
             r \in {"Follower", "Leader"} => x \in Node
      PROVE  LeaderKnown'
  BY <1>2 DEF LeaderKnown, TypeOK
<1>3. ASSUME NEW n \in Node, Timer(n) \/ SubmitChange(n) \/ Restart(n) PROVE LeaderKnown'
  <2>1. UNCHANGED <<leader, role>> \/ Sets(n, Nil, "Prospective") \/ Sets(n, Nil, "Unattached")
    BY <1>3, ZenonT(120) DEF Timer, ElectionTimeout, FetchTimeout, StartElection, RePoll, Heartbeat,
                SubmitChange, Restart, quorumVars
  <2>2. QED
    BY <1>1, <1>2, <2>1
<1>4. ASSUME NEW n \in Node, NEW m \in msgs, ReceiveVoteRequest(n, m) PROVE LeaderKnown'
  <2>1. UNCHANGED <<leader, role>> \/ Sets(n, Nil, "Voted") \/ Sets(n, Nil, "Unattached")
    BY <1>4, ZenonT(120) DEF ReceiveVoteRequest, FenceVote, AnswerPreVote, GrantVote, DenyVote,
                TransitionToUnattached, quorumVars
  <2>2. QED
    BY <1>1, <1>2, <2>1
<1>5. ASSUME NEW n \in Node, NEW m \in msgs, ReceiveVoteResponse(n, m) PROVE LeaderKnown'
  <2>1. \/ UNCHANGED <<leader, role>>
        \/ Sets(n, Nil, "Candidate") \/ Sets(n, n, "Leader") \/ Sets(n, Nil, "Unattached")
    BY <1>5, ZenonT(120) DEF ReceiveVoteResponse, FencedByRejection, IgnoreVoteResponse, CountVote,
                PromoteToCandidate, PromoteToLeader, TransitionToUnattached, quorumVars
  <2>2. QED
    BY <1>1, <1>2, <2>1
<1>6. ASSUME NEW n \in Node, NEW m \in msgs, ReceiveBegin(n, m) PROVE LeaderKnown'
  <2>1. m.from \in Node
    BY <1>6, MessageByType DEF ReceiveBegin, TypeOK, BeginMsg
  <2>2. UNCHANGED <<leader, role>> \/ Sets(n, m.from, "Follower")
    BY <1>6, ZenonT(120) DEF ReceiveBegin, FollowLeader, IgnoreLeader, quorumVars
  <2>3. QED
    BY <1>1, <1>2, <2>1, <2>2
<1>7. ASSUME NEW n \in Node, NEW m \in msgs, ReceiveFetch(n, m) \/ ReceiveFetchResponse(n, m)
      PROVE  LeaderKnown'
  BY <1>1, <1>7, ZenonT(120)
  DEF ReceiveFetch, AnswerDiverging, ServeFetch, RedirectFetch, ReceiveFetchResponse,
      TruncateToHint, AppendFetched, quorumVars
<1>8. QED
  BY <1>1, <1>3, <1>4, <1>5, <1>6, <1>7 DEF Next, Deliver, vars, quorumVars

\* Every step preserves the types.
LEMMA TypeStep ==
  ASSUME TypeOK, LeaderKnown, [Next]_vars
  PROVE  TypeOK' /\ LeaderKnown'
<1>1. CASE UNCHANGED vars
  BY <1>1, ZenonT(120) DEF TypeOK, LeaderKnown, vars, quorumVars, logVars, leaderVars, histVars
<1>2. ASSUME NEW n \in Node, Timer(n) \/ SubmitChange(n) \/ Restart(n) PROVE TypeOK'
  BY <1>2, TypeLocal
<1>3. ASSUME NEW n \in Node, NEW m \in msgs, Deliver(n, m) PROVE TypeOK'
  BY <1>3, TypeVotes, TypeBegin, TypeFetch, TypeFetchResponse DEF Deliver
<1>4. QED
  BY <1>1, <1>2, <1>3, LeaderKnownStep DEF Next

\* The initial state is well typed.
LEMMA TypeInit == Init => TypeOK /\ LeaderKnown
  BY NodeAssumption DEF Init, TypeOK, LeaderKnown, Role

\* In every reachable state of every instance each field of the core and of the
\* engine has its type, and a follower or leader knows its leader.
THEOREM TypeCorrect == Spec => [](TypeOK /\ LeaderKnown)
<1>1. TypeOK /\ LeaderKnown /\ [Next]_vars => (TypeOK /\ LeaderKnown)'
  BY TypeStep
<1>2. QED
  BY TypeInit, <1>1, PTL DEF Spec

=============================================================================

-------------------------- MODULE KRaftCommitProofs --------------------------
(***************************************************************************)
(* Commitment in KRaft, for any finite voter set and any bounds: a leader  *)
(* commits through a record of its own epoch, on the word of a majority,   *)
(* and leaves no submit parked that its high watermark has reached.        *)
(***************************************************************************)
EXTENDS KRaftProofs

USE SMTT(120)

-----------------------------------------------------------------------------
(* The recomputed high watermark.                                          *)

\* A rise of the high watermark goes past the start of the epoch, to an offset within
\* the log that a majority has reached (recompute_high_watermark).
LEMMA HighWatermarkRise ==
  ASSUME TypeOK, NEW n \in Node, NEW acks \in [Node -> Nat],
         RecomputeHighWatermark(n, acks) > coreHwm[n]
  PROVE  LET mark == RecomputeHighWatermark(n, acks) IN
         /\ mark \in Nat /\ mark > epochStart[n]
         /\ Cardinality({p \in Node : mark <= IF p = n THEN Len(log[n]) ELSE acks[p]}) >= Majority
<1> DEFINE end == Len(log[n])
           matched == [p \in Node |-> IF p = n THEN end ELSE Minimum(acks[p], end)]
           reached == {matched[p] : p \in Node}
           quorumReached ==
             {o \in reached : Cardinality({p \in Node : matched[p] >= o}) >= Majority}
           current == Minimum(coreHwm[n], end)
           best == Max(quorumReached)
           mark == RecomputeHighWatermark(n, acks)
<1>1. end \in Nat /\ coreHwm[n] \in Nat /\ epochStart[n] \in Nat
  BY DEF TypeOK
<1>2. current \in Nat /\ current <= coreHwm[n]
  BY <1>1 DEF Minimum
<1>3. matched \in [Node -> 0..end]
  BY <1>1 DEF Minimum
<1>4. \A p \in Node : matched[p] <= IF p = n THEN Len(log[n]) ELSE acks[p]
  BY <1>1 DEF Minimum
<1>5. mark = IF best > epochStart[n] THEN Maximum(best, current) ELSE current
  BY ZenonT(120) DEF RecomputeHighWatermark
<1> HIDE DEF end, matched, current, mark
<1>6. reached \subseteq 0..end /\ reached \in SUBSET Nat /\ reached # {}
  BY <1>1, <1>3
<1>7. Min(reached) \in reached /\ \A o \in reached : Min(reached) <= o
  BY <1>6, MinOfNaturals, ZenonT(120)
<1>8. {p \in Node : matched[p] >= Min(reached)} = Node
  BY <1>3, <1>6, <1>7
<1>9. Min(reached) \in quorumReached
  BY <1>7, <1>8, MajorityFits, ZenonT(120)
<1>10. best \in quorumReached /\ quorumReached \in SUBSET (0..end)
  <2>1. quorumReached \in SUBSET (0..end) /\ quorumReached # {}
    BY <1>6, <1>9, ZenonT(120)
  <2> HIDE DEF quorumReached
  <2>2. QED
    BY <1>1, <2>1, MaxOfBounded, ZenonT(120)
<1>11. best \in Nat /\ Cardinality({p \in Node : matched[p] >= best}) >= Majority
  <2>1. best \in 0..end
    BY <1>10, ZenonT(120)
  <2>2. QED
    BY <1>1, <1>10, <2>1
<1> HIDE DEF reached, quorumReached, best
<1>12. mark = best /\ mark > epochStart[n]
  <2>1. mark > coreHwm[n]
    BY DEF mark
  <2>2. QED
    BY <1>1, <1>2, <1>5, <1>11, <2>1 DEF Maximum
<1> DEFINE S == {p \in Node : matched[p] >= best}
           T == {p \in Node : mark <= IF p = n THEN Len(log[n]) ELSE acks[p]}
<1>13. S \subseteq T
  <2>1. \A p \in Node : acks[p] \in Nat
    OBVIOUS
  <2>2. Len(log[n]) \in Nat
    BY <1>1 DEF end
  <2>3. QED
    BY <1>3, <1>4, <1>11, <1>12, <2>1, <2>2
<1>14. Cardinality(T) >= Majority
  <2>1. IsFiniteSet(T)
    BY NodeAssumption, FS_Subset
  <2>2. IsFiniteSet(S) /\ Cardinality(S) <= Cardinality(T)
    BY <1>13, <2>1, FS_Subset
  <2>3. Cardinality(S) \in Nat /\ Cardinality(T) \in Nat
    BY <2>1, <2>2, FS_CardinalityType
  <2>4. Cardinality(S) >= Majority
    BY <1>11
  <2> HIDE DEF S, T
  <2>5. QED
    BY <2>2, <2>3, <2>4, MajorityFits
<1>15. QED
  BY <1>11, <1>12, <1>14 DEF mark

-----------------------------------------------------------------------------
(* The induction.                                                          *)

\* A step that touches neither the logs nor what CommitInv says of a leader.
LEMMA CommitQuiet ==
  ASSUME CommitInv, TypeOK', LeaderKnown', UNCHANGED <<role, logVars, leaderVars>>
  PROVE  CommitInv'
  BY ZenonT(120) DEF CommitInv, CommitsOwnEpoch, WaitersArePending, HwmWithinLog, logVars, leaderVars

\* A node that takes a role other than the leader's, and drops what it held as a leader
\* unless it was none.
LEMMA CommitNotLeading ==
  ASSUME CommitInv, TypeOK', LeaderKnown', NEW n \in Node, NEW r, r # "Leader",
         role' = [role EXCEPT ![n] = r], UNCHANGED logVars,
         LeaveLeadership(n) \/ (role[n] # "Leader" /\ UNCHANGED leaderVars)
  PROVE  CommitInv'
<1>1. /\ role \in [Node -> Role] /\ coreHwm \in [Node -> Nat] /\ epochStart \in [Node -> Nat]
      /\ waiters \in [Node -> SUBSET (Nat \ {0})]
      /\ CommitsOwnEpoch /\ WaitersArePending
  BY DEF CommitInv, TypeOK
<1>2. \A k \in Node : role'[k] = "Leader" => k # n /\ role[k] = "Leader"
  BY <1>1
<1>3. \A k \in Node : k # n => /\ coreHwm'[k] = coreHwm[k] /\ epochStart'[k] = epochStart[k]
                               /\ waiters'[k] = waiters[k] /\ role'[k] = role[k]
  BY <1>1 DEF LeaveLeadership, leaderVars
<1>4. waiters'[n] = {}
  BY <1>1 DEF LeaveLeadership, leaderVars, WaitersArePending
<1>5. CommitsOwnEpoch'
  BY <1>1, <1>2, <1>3 DEF CommitsOwnEpoch
<1>6. WaitersArePending'
  BY <1>1, <1>3, <1>4 DEF WaitersArePending, logVars
<1>7. HwmWithinLog'
  BY DEF CommitInv, HwmWithinLog, logVars
<1>8. QED
  BY <1>5, <1>6, <1>7 DEF CommitInv

\* A truncation lowers the high watermark with the log.
LEMMA CommitTruncate ==
  ASSUME CommitInv, TypeOK', LeaderKnown', NEW n \in Node, NEW o \in Nat,
         log' = [log EXCEPT ![n] = TruncateTo(@, o)],
         hwm' = [hwm EXCEPT ![n] = Minimum(@, o)],
         UNCHANGED <<role, leaderVars>>
  PROVE  CommitInv'
<1>1. /\ log \in [Node -> Seq(Entry)] /\ hwm \in [Node -> Nat]
      /\ waiters \in [Node -> SUBSET (Nat \ {0})]
      /\ WaitersArePending /\ HwmWithinLog /\ CommitsOwnEpoch
  BY DEF CommitInv, TypeOK
<1>2. CommitsOwnEpoch'
  BY <1>1 DEF CommitsOwnEpoch, leaderVars
<1>3. WaitersArePending'
  <2>1. \A k \in Node : hwm'[k] <= hwm[k] /\ hwm'[k] \in Nat
    BY <1>1 DEF Minimum
  <2>2. QED
    BY <1>1, <2>1 DEF WaitersArePending, leaderVars
<1>4. HwmWithinLog'
  <2>1. Len(TruncateTo(log[n], o)) = Minimum(o, Len(log[n]))
    BY <1>1 DEF TruncateTo, Minimum
  <2>2. hwm'[n] <= Len(log'[n])
    BY <1>1, <2>1 DEF HwmWithinLog, Minimum
  <2>3. \A k \in Node : k # n => hwm'[k] = hwm[k] /\ log'[k] = log[k]
    BY <1>1
  <2>4. QED
    BY <1>1, <2>2, <2>3 DEF HwmWithinLog
<1>5. QED
  BY <1>2, <1>3, <1>4 DEF CommitInv

\* Advancing the high watermark over log l of node n, which extends log[n]: it stays
\* within l, and the waiters it reaches are answered.
LEMMA CommitAdvance ==
  ASSUME CommitInv, NEW n \in Node, NEW target \in Nat, NEW l \in Seq(Entry),
         Len(l) >= Len(log[n]), log' = [log EXCEPT ![n] = l], UNCHANGED role,
         AdvanceAndApply(n, target, l)
  PROVE  WaitersArePending' /\ HwmWithinLog'
<1> DEFINE mark == AdvancedHwm(n, target, l)
<1>1. /\ log \in [Node -> Seq(Entry)] /\ hwm \in [Node -> Nat]
      /\ waiters \in [Node -> SUBSET (Nat \ {0})] /\ Len(l) \in Nat
      /\ WaitersArePending /\ HwmWithinLog
  BY DEF CommitInv, TypeOK
<1>2. hwm[n] \in Nat /\ hwm[n] <= Len(l)
  BY <1>1 DEF HwmWithinLog
<1>3. mark \in Nat /\ mark <= Len(l)
  BY <1>1, <1>2 DEF AdvancedHwm, Minimum, Maximum
<1> HIDE DEF mark
<1>4. hwm' = [hwm EXCEPT ![n] = mark] /\ waiters' = [waiters EXCEPT ![n] = @ \ Resolved(n, mark)]
  BY ZenonT(120) DEF AdvanceAndApply, mark
<1>5. HwmWithinLog'
  <2>1. hwm'[n] = mark /\ log'[n] = l
    BY <1>1, <1>4
  <2>2. \A k \in Node : k # n => hwm'[k] = hwm[k] /\ log'[k] = log[k]
    BY <1>1, <1>4
  <2>3. QED
    BY <1>1, <1>3, <2>1, <2>2 DEF HwmWithinLog
<1>6. WaitersArePending'
  <2>1. \A w \in waiters'[n] : w \in waiters[n] /\ w > hwm'[n]
    BY <1>1, <1>3, <1>4 DEF Resolved
  <2>2. \A k \in Node : k # n => hwm'[k] = hwm[k] /\ waiters'[k] = waiters[k]
    BY <1>1, <1>4
  <2>3. QED
    BY <1>1, <2>1, <2>2, ZenonT(120) DEF WaitersArePending
<1>7. QED
  BY <1>5, <1>6

\* A log that grows at its end.
LEMMA CommitAppend ==
  ASSUME CommitInv, NEW n \in Node, NEW x \in Entry, log' = [log EXCEPT ![n] = Append(@, x)],
         UNCHANGED hwm
  PROVE  HwmWithinLog'
<1>1. log \in [Node -> Seq(Entry)] /\ hwm \in [Node -> Nat] /\ HwmWithinLog
  BY DEF CommitInv, TypeOK
<1>2. Len(log'[n]) = Len(log[n]) + 1
  BY <1>1
<1>3. \A k \in Node : k # n => log'[k] = log[k]
  BY <1>1
<1>4. QED
  BY <1>1, <1>2, <1>3 DEF HwmWithinLog

\* A candidate that wins: its high watermark has not moved yet.
LEMMA CommitPromotion ==
  ASSUME CommitInv, TypeOK', LeaderKnown', NEW n \in Node, NEW m, PromoteToLeader(n, m)
  PROVE  CommitInv'
<1>1. /\ role \in [Node -> Role] /\ coreHwm \in [Node -> Nat] /\ epochStart \in [Node -> Nat]
      /\ epoch \in [Node -> Nat]
      /\ CommitsOwnEpoch /\ WaitersArePending
  BY ZenonT(120) DEF CommitInv, TypeOK
<1>2. /\ role' = [role EXCEPT ![n] = "Leader"] /\ coreHwm' = [coreHwm EXCEPT ![n] = 0]
      /\ epochStart' = [epochStart EXCEPT ![n] = Len(log[n])]
      /\ log' = [log EXCEPT ![n] = Append(@, LeaderRecord(n))]
      /\ UNCHANGED <<hwm, waiters>>
  BY DEF PromoteToLeader
<1>3. LeaderRecord(n) \in Entry
  BY <1>1 DEF LeaderRecord, Entry
<1>4. HwmWithinLog'
  BY <1>2, <1>3, CommitAppend, ZenonT(120)
<1>5. CommitsOwnEpoch'
  BY <1>1, <1>2 DEF CommitsOwnEpoch
<1>6. WaitersArePending'
  BY <1>1, <1>2 DEF WaitersArePending
<1>7. QED
  BY <1>4, <1>5, <1>6 DEF CommitInv

\* Timers, submits and restarts.
LEMMA CommitLocal ==
  ASSUME CommitInv, TypeOK', LeaderKnown', NEW n \in Node,
         Timer(n) \/ SubmitChange(n) \/ Restart(n)
  PROVE  CommitInv'
<1>1. CASE (ElectionTimeout(n) \/ FetchTimeout(n)) /\ StartElection(n)
  <2>1. role[n] # "Leader" /\ role' = [role EXCEPT ![n] = "Prospective"]
        /\ UNCHANGED <<logVars, leaderVars>>
    BY <1>1, ZenonT(120) DEF ElectionTimeout, FetchTimeout, StartElection
  <2>2. QED
    BY <2>1, CommitNotLeading, "Prospective" # "Leader", ZenonT(120)
<1>2. CASE RePoll(n) \/ Heartbeat(n)
  BY <1>2, CommitQuiet DEF RePoll, Heartbeat, quorumVars
<1>3. CASE SubmitChange(n)
  <2>1. /\ log \in [Node -> Seq(Entry)] /\ hwm \in [Node -> Nat] /\ epoch \in [Node -> Nat]
        /\ waiters \in [Node -> SUBSET (Nat \ {0})]
        /\ CommitsOwnEpoch /\ WaitersArePending /\ HwmWithinLog
    BY DEF CommitInv, TypeOK
  <2>2. /\ role[n] = "Leader" /\ log' = [log EXCEPT ![n] = Append(@, LeaderRecord(n))]
        /\ waiters' = [waiters EXCEPT ![n] = @ \cup {Len(log[n]) + 1}]
        /\ UNCHANGED <<role, hwm, coreHwm, epochStart>>
    BY <1>3 DEF SubmitChange, quorumVars
  <2>3. HwmWithinLog'
    <3>1. LeaderRecord(n) \in Entry
      BY <2>1 DEF LeaderRecord, Entry
    <3>2. QED
      BY <2>2, <3>1, CommitAppend, ZenonT(120)
  <2>4. WaitersArePending'
    <3>1. Len(log[n]) + 1 > hwm[n]
      BY <2>1 DEF HwmWithinLog
    <3>2. QED
      BY <2>1, <2>2, <3>1 DEF WaitersArePending
  <2>5. CommitsOwnEpoch'
    BY <2>1, <2>2 DEF CommitsOwnEpoch
  <2>6. QED
    BY <2>3, <2>4, <2>5 DEF CommitInv
<1>4. CASE Restart(n)
  <2>1. role' = [role EXCEPT ![n] = "Unattached"] /\ LeaveLeadership(n) /\ UNCHANGED logVars
    BY <1>4 DEF Restart
  <2>2. QED
    BY <2>1, CommitNotLeading, "Unattached" # "Leader", ZenonT(120)
<1>5. QED
  BY <1>1, <1>2, <1>3, <1>4 DEF Timer, ElectionTimeout, FetchTimeout

\* Votes and the announcement of a leader.
LEMMA CommitVotes ==
  ASSUME CommitInv, TypeOK', LeaderKnown', NEW n \in Node, NEW m \in msgs,
         ReceiveVoteRequest(n, m) \/ ReceiveVoteResponse(n, m) \/ ReceiveBegin(n, m)
  PROVE  CommitInv'
<1>1. ASSUME NEW e, TransitionToUnattached(n, e), UNCHANGED logVars
      PROVE  CommitInv'
  BY <1>1, CommitNotLeading, "Unattached" # "Leader", ZenonT(120) DEF TransitionToUnattached
<1>2. CASE FenceVote(n, m) \/ AnswerPreVote(n, m) \/ IgnoreVoteResponse(n, m) \/ IgnoreLeader(n, m)
  BY <1>2, CommitQuiet, ZenonT(120) DEF FenceVote, AnswerPreVote, IgnoreVoteResponse, IgnoreLeader, quorumVars
<1>3. CASE GrantVote(n, m)
  <2>1. role' = [role EXCEPT ![n] = "Voted"] /\ LeaveLeadership(n) /\ UNCHANGED logVars
    BY <1>3 DEF GrantVote
  <2>2. QED
    BY <2>1, CommitNotLeading, "Voted" # "Leader", ZenonT(120)
<1>4. CASE DenyVote(n, m)
  <2>1. UNCHANGED logVars
    BY <1>4 DEF DenyVote
  <2>2. CASE UNCHANGED <<quorumVars, leaderVars>>
    BY <2>1, <2>2, CommitQuiet DEF quorumVars
  <2>3. QED
    BY <1>1, <1>4, <2>1, <2>2 DEF DenyVote
<1>5. CASE FencedByRejection(n, m)
  BY <1>1, <1>5 DEF FencedByRejection
<1>6. CASE CountVote(n, m)
  <2>1. CASE PromoteToCandidate(n, m)
    <3>1. role' = [role EXCEPT ![n] = "Candidate"] /\ UNCHANGED <<logVars, leaderVars>>
      BY <2>1 DEF PromoteToCandidate
    <3>2. role[n] # "Leader"
      BY <1>6 DEF CountVote, CountsInRound
    <3>3. QED
      BY <3>1, <3>2, CommitNotLeading, "Candidate" # "Leader", ZenonT(120)
  <2>2. CASE PromoteToLeader(n, m)
    BY <2>2, CommitPromotion
  <2>3. CASE UNCHANGED <<role, logVars, leaderVars>>
    BY <2>3, CommitQuiet
  <2>4. QED
    BY <1>6, <2>1, <2>2, <2>3 DEF CountVote
<1>7. CASE FollowLeader(n, m)
  <2>1. role' = [role EXCEPT ![n] = "Follower"] /\ LeaveLeadership(n) /\ UNCHANGED logVars
    BY <1>7 DEF FollowLeader
  <2>2. QED
    BY <2>1, CommitNotLeading, "Follower" # "Leader", ZenonT(120)
<1>8. QED
  BY <1>2, <1>3, <1>4, <1>5, <1>6, <1>7
  DEF ReceiveVoteRequest, ReceiveVoteResponse, ReceiveBegin

\* A fetch served by a leader: where its high watermark rises, it passes the start of the
\* epoch.
LEMMA CommitServe ==
  ASSUME CommitInv, TypeOK', LeaderKnown', NEW n \in Node, NEW m \in FetchMsg, ServeFetch(n, m)
  PROVE  CommitInv'
<1> DEFINE mark == RecomputeHighWatermark(n, progress'[n])
<1>1. /\ TypeOK /\ log \in [Node -> Seq(Entry)] /\ coreHwm \in [Node -> Nat]
      /\ progress \in [Node -> [Node -> Nat]] /\ CommitsOwnEpoch
  BY ZenonT(120) DEF CommitInv, TypeOK
<1>2. progress'[n] \in [Node -> Nat]
  BY DEF TypeOK
<1>3. UNCHANGED <<role, log, epochStart>>
  BY DEF ServeFetch, quorumVars
<1> HIDE DEF mark
<1>4. CASE mark > coreHwm[n]
  <2>1. coreHwm' = [coreHwm EXCEPT ![n] = mark] /\ AdvanceAndApply(n, mark, log[n])
    BY <1>4 DEF ServeFetch, mark
  <2>2. mark \in Nat /\ mark > epochStart[n]
    BY <1>1, <1>2, <1>4, HighWatermarkRise, ZenonT(120) DEF mark
  <2>3. CommitsOwnEpoch'
    BY <1>1, <1>3, <2>1, <2>2 DEF CommitsOwnEpoch
  <2>4. log[n] \in Seq(Entry) /\ Len(log[n]) >= Len(log[n]) /\ log' = [log EXCEPT ![n] = log[n]]
    BY <1>1, <1>3
  <2>5. WaitersArePending' /\ HwmWithinLog'
    BY <1>3, <2>1, <2>2, <2>4, CommitAdvance, ZenonT(120)
  <2>6. QED
    BY <2>3, <2>5 DEF CommitInv
<1>5. CASE ~(mark > coreHwm[n])
  <2>1. UNCHANGED <<coreHwm, hwm, waiters>>
    BY <1>5 DEF ServeFetch, mark
  <2>2. QED
    BY <1>3, <2>1, ZenonT(120) DEF CommitInv, CommitsOwnEpoch, WaitersArePending, HwmWithinLog
<1>6. QED
  BY <1>4, <1>5

\* Fetches and their responses.
LEMMA CommitFetch ==
  ASSUME CommitInv, TypeOK', LeaderKnown', NEW n \in Node, NEW m \in msgs,
         ReceiveFetch(n, m) \/ ReceiveFetchResponse(n, m)
  PROVE  CommitInv'
<1>1. log \in [Node -> Seq(Entry)] /\ m \in Message /\ log[n] \in Seq(Entry)
  BY DEF CommitInv, TypeOK
<1>2. (m.type = "Fetch" => m \in FetchMsg) /\ (m.type = "FetchResp" => m \in FetchRespMsg)
  BY <1>1, MessageByType
<1>3. CASE m \in FetchMsg /\ AnswerDiverging(n, m)
  <2>1. DivergesAt(n, m) \in Nat
    <3>1. m.epoch \in Nat
      BY <1>3 DEF FetchMsg
    <3>2. EndOffsetForEpoch(log[n], m.epoch) \in 0..Len(log[n]) \cup {NoOffset}
      BY <1>1, <3>1, EndOffsetType
    <3>3. EndOffsetForEpoch(log[n], m.epoch) # NoOffset
      BY <1>3 DEF AnswerDiverging, Diverges, DivergesAt
    <3>4. QED
      BY <1>1, <3>2, <3>3 DEF DivergesAt
  <2>2. /\ log' = [log EXCEPT ![n] = TruncateTo(@, DivergesAt(n, m))]
        /\ hwm' = [hwm EXCEPT ![n] = Minimum(@, DivergesAt(n, m))]
        /\ UNCHANGED <<role, leaderVars>>
    BY <1>3, ZenonT(120) DEF AnswerDiverging, quorumVars
  <2>3. QED
    BY <2>1, <2>2, CommitTruncate, ZenonT(120)
<1>4. CASE m \in FetchMsg /\ ServeFetch(n, m)
  BY <1>4, CommitServe
<1>5. CASE RedirectFetch(n, m)
  BY <1>5, CommitQuiet DEF RedirectFetch, quorumVars
<1>6. CASE m \in FetchRespMsg /\ TruncateToHint(n, m)
  <2>1. m.div \in Nat
    BY <1>6 DEF FetchRespMsg, TruncateToHint
  <2>2. /\ log' = [log EXCEPT ![n] = TruncateTo(@, m.div)]
        /\ hwm' = [hwm EXCEPT ![n] = Minimum(@, m.div)]
        /\ UNCHANGED <<role, leaderVars>>
    BY <1>6 DEF TruncateToHint, quorumVars
  <2>3. QED
    BY <2>1, <2>2, CommitTruncate, ZenonT(120)
<1>7. CASE m \in FetchRespMsg /\ AppendFetched(n, m)
  <2> DEFINE c == Continuation(log[n], m)
             l == log[n] \o c
  <2>1. l \in Seq(Entry)
    BY <1>1, <1>7, ContinuationType
  <2>2. /\ log' = [log EXCEPT ![n] = l] /\ AdvanceAndApply(n, m.hwm, l)
        /\ UNCHANGED <<role, coreHwm, epochStart>>
    BY <1>7 DEF AppendFetched, quorumVars
  <2>3. Len(l) >= Len(log[n])
    <3>1. c = << >> \/ c = SubSeq(m.recs, Len(log[n]) - m.base + 1, Len(m.recs))
      BY ZenonT(120) DEF Continuation
    <3>2. c \in Seq(Entry)
      BY <1>1, <1>7, <3>1 DEF Continuation, FetchRespMsg
    <3> HIDE DEF c
    <3>3. QED
      BY <1>1, <3>2
  <2>4. m.hwm \in Nat
    BY <1>7 DEF FetchRespMsg
  <2> HIDE DEF l
  <2>5. WaitersArePending' /\ HwmWithinLog'
    BY <2>1, <2>2, <2>3, <2>4, CommitAdvance, ZenonT(120)
  <2>6. CommitsOwnEpoch'
    BY <2>2 DEF CommitInv, CommitsOwnEpoch
  <2>7. QED
    BY <2>5, <2>6 DEF CommitInv
<1>8. QED
  BY <1>2, <1>3, <1>4, <1>5, <1>6, <1>7 DEF ReceiveFetch, ReceiveFetchResponse

\* Nothing is committed, and nothing waits, before the first step.
LEMMA CommitInit == Init => CommitInv
<1> SUFFICES ASSUME Init PROVE CommitInv
  OBVIOUS
<1>1. TypeOK /\ LeaderKnown
  BY TypeInit
<1>2. CommitsOwnEpoch /\ WaitersArePending /\ HwmWithinLog
  BY DEF Init, CommitsOwnEpoch, WaitersArePending, HwmWithinLog
<1>3. QED
  BY <1>1, <1>2 DEF CommitInv

\* Every step of the quorum preserves the invariant of commitment.
LEMMA CommitStep == CommitInv /\ [Next]_vars => CommitInv'
<1> SUFFICES ASSUME CommitInv, [Next]_vars PROVE CommitInv'
  OBVIOUS
<1>1. TypeOK' /\ LeaderKnown'
  BY TypeStep DEF CommitInv
<1>2. CASE \E n \in Node : Timer(n) \/ SubmitChange(n) \/ Restart(n)
  BY <1>1, <1>2, CommitLocal
<1>3. CASE \E n \in Node, m \in msgs : Deliver(n, m)
  BY <1>1, <1>3, CommitVotes, CommitFetch DEF Deliver
<1>4. CASE UNCHANGED vars
  BY <1>1, <1>4, CommitQuiet DEF vars, quorumVars
<1>5. QED
  BY <1>2, <1>3, <1>4 DEF Next

-----------------------------------------------------------------------------
(* The theorems.                                                           *)

\* A leader's high watermark has not moved, or it is past the first offset of the
\* leader's epoch (recompute_high_watermark's figure-8 guard).
THEOREM CommitsOwnEpochAlways == Spec => []CommitsOwnEpoch
<1>1. CommitInv => CommitsOwnEpoch
  BY DEF CommitInv
<1>2. QED
  BY CommitInit, CommitStep, <1>1, PTL DEF Spec

\* A parked submit is on a leader and ahead of its high watermark (try_resolve_waiters,
\* fail_waiters).
THEOREM WaitersArePendingAlways == Spec => []WaitersArePending
<1>1. CommitInv => WaitersArePending
  BY DEF CommitInv
<1>2. QED
  BY CommitInit, CommitStep, <1>1, PTL DEF Spec

\* Only a leader that serves a fetch raises its core's high watermark.
LEMMA RaisedByServing ==
  ASSUME TypeOK, [Next]_vars, NEW k \in Node, coreHwm'[k] > coreHwm[k]
  PROVE  \E m \in msgs : m.type = "Fetch" /\ ServeFetch(k, m)
<1>1. coreHwm \in [Node -> Nat] /\ coreHwm[k] \in Nat
  BY DEF TypeOK
<1>2. ~UNCHANGED coreHwm
  BY <1>1
<1>3. ASSUME NEW n \in Node PROVE coreHwm' # [coreHwm EXCEPT ![n] = 0]
  BY <1>1
<1>4. ASSUME NEW n \in Node PROVE ~LeaveLeadership(n)
  BY <1>3 DEF LeaveLeadership
<1>5. ASSUME NEW n \in Node PROVE ~(Timer(n) \/ SubmitChange(n) \/ Restart(n))
  BY <1>2, <1>4, ZenonT(120) DEF Timer, ElectionTimeout, FetchTimeout, StartElection, RePoll, Heartbeat,
                    SubmitChange, Restart, leaderVars
<1>6. ASSUME NEW n \in Node, NEW m \in msgs
      PROVE  ~(ReceiveVoteRequest(n, m) \/ ReceiveVoteResponse(n, m) \/ ReceiveBegin(n, m))
  <2>1. ~FenceVote(n, m) /\ ~AnswerPreVote(n, m) /\ ~GrantVote(n, m) /\ ~DenyVote(n, m)
    BY <1>2, <1>4, ZenonT(120) DEF FenceVote, AnswerPreVote, GrantVote, DenyVote, TransitionToUnattached, leaderVars
  <2>2. ~FencedByRejection(n, m) /\ ~IgnoreVoteResponse(n, m)
    BY <1>2, <1>4 DEF FencedByRejection, IgnoreVoteResponse, TransitionToUnattached, leaderVars
  <2>3. ~CountVote(n, m)
    BY <1>2, <1>3, ZenonT(120) DEF CountVote, PromoteToCandidate, PromoteToLeader, leaderVars
  <2>4. ~FollowLeader(n, m) /\ ~IgnoreLeader(n, m)
    BY <1>2, <1>4 DEF FollowLeader, IgnoreLeader, leaderVars
  <2>5. QED
    BY <2>1, <2>2, <2>3, <2>4, ZenonT(120) DEF ReceiveVoteRequest, ReceiveVoteResponse, ReceiveBegin
<1>7. ASSUME NEW n \in Node, NEW m \in msgs, ReceiveFetch(n, m) \/ ReceiveFetchResponse(n, m)
      PROVE  m.type = "Fetch" /\ ServeFetch(n, m)
  <2>1. ~AnswerDiverging(n, m) /\ ~RedirectFetch(n, m)
    BY <1>2, ZenonT(120) DEF AnswerDiverging, RedirectFetch, leaderVars
  <2>2. ~TruncateToHint(n, m) /\ ~AppendFetched(n, m)
    BY <1>2, ZenonT(120) DEF TruncateToHint, AppendFetched, leaderVars
  <2>3. QED
    BY <1>7, <2>1, <2>2 DEF ReceiveFetch, ReceiveFetchResponse
<1>8. PICK n \in Node, m \in msgs : m.type = "Fetch" /\ ServeFetch(n, m)
  BY <1>2, <1>5, <1>6, <1>7 DEF Next, Deliver, vars, leaderVars
<1>9. n = k
  <2>1. coreHwm' = coreHwm \/ \E mark : coreHwm' = [coreHwm EXCEPT ![n] = mark]
    BY <1>8 DEF ServeFetch
  <2>2. QED
    BY <1>1, <1>2, <2>1
<1>10. QED
  BY <1>8, <1>9

\* A rise of a leader's high watermark has a majority behind it, of the leader and the
\* followers whose latest fetch acknowledged as much.
LEMMA RiseHasMajority ==
  ASSUME TypeOK, TypeOK', [Next]_vars, NEW n \in Node, coreHwm'[n] > coreHwm[n]
  PROVE  2 * Cardinality({p \in Node : coreHwm'[n] <= IF p = n THEN Len(log[n])
                                                               ELSE progress'[n][p]})
           > Cardinality(Node)
<1> DEFINE mark == RecomputeHighWatermark(n, progress'[n])
           reached == {p \in Node : coreHwm'[n] <= IF p = n THEN Len(log[n]) ELSE progress'[n][p]}
<1>1. PICK m \in msgs : m.type = "Fetch" /\ ServeFetch(n, m)
  BY RaisedByServing
<1>2. coreHwm \in [Node -> Nat] /\ progress'[n] \in [Node -> Nat]
  BY DEF TypeOK
<1> HIDE DEF mark
<1>3. mark > coreHwm[n] /\ coreHwm'[n] = mark
  <2>1. IF mark > coreHwm[n] THEN coreHwm' = [coreHwm EXCEPT ![n] = mark]
                             ELSE UNCHANGED coreHwm
    BY <1>1 DEF ServeFetch, mark
  <2>2. QED
    BY <1>2, <2>1
<1>4. Cardinality({p \in Node : mark <= IF p = n THEN Len(log[n]) ELSE progress'[n][p]}) >= Majority
  BY <1>2, <1>3, HighWatermarkRise, ZenonT(120) DEF mark
<1>5. Cardinality(reached) >= Majority
  BY <1>3, <1>4
<1>6. Cardinality(Node) \in Nat /\ Cardinality(reached) \in Nat
  <2>1. IsFiniteSet(Node) /\ IsFiniteSet(reached)
    BY NodeAssumption, FS_Subset
  <2>2. QED
    BY <2>1, FS_CardinalityType
<1> HIDE DEF reached
<1>7. 2 * Cardinality(reached) > Cardinality(Node)
  BY <1>5, <1>6 DEF Majority
<1>8. QED
  BY <1>7 DEF reached

\* A leader's high watermark rises only to an offset more than half of the voters have
\* acknowledged (handle_fetch, recompute_high_watermark).
THEOREM HwmAdvanceByMajorityAlways == Spec => HwmAdvanceByMajority
<1>1. TypeOK /\ TypeOK' /\ [Next]_vars =>
        [\A n \in Node : coreHwm'[n] > coreHwm[n] =>
           LET reached == {p \in Node : coreHwm'[n] <= IF p = n THEN Len(log[n])
                                                                ELSE progress'[n][p]}
           IN  2 * Cardinality(reached) > Cardinality(Node)]_vars
  BY RiseHasMajority
<1>2. QED
  BY TypeCorrect, <1>1, PTL DEF Spec, HwmAdvanceByMajority

=============================================================================

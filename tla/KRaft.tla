-------------------------------- MODULE KRaft --------------------------------
(***************************************************************************)
(* The KRaft metadata quorum over a fixed voter set: the sans-IO core      *)
(* (crates/kraft-core/src/core.rs) together with the engine that drives it *)
(* (crates/raft/src/kraft/controller.rs) and its log (kraft/log.rs).       *)
(*                                                                         *)
(* The engine is one task per node, so a handler is one action: the core's *)
(* transition, then every Action the engine executes for it (persist,      *)
(* append, truncate, advance the high watermark, send).  A peer RPC is one *)
(* request and at most one response, delivered at most once, in any order, *)
(* possibly never.                                                         *)
(*                                                                         *)
(* Offsets count records, so offset o of the code is log[n][o + 1] here.   *)
(* Reconfiguration, observers and snapshots are outside this module.       *)
(***************************************************************************)
EXTENDS Integers, Sequences, FiniteSets, FiniteSetsExt

CONSTANTS
  Node,          \* the voters
  Nil,           \* "no node": leader_id = None, voted_key = None
  MaxEpoch,      \* bound: no candidate goes past this epoch
  MaxLog,        \* bound: no submit lets a log grow past this length
  MaxInFlight,   \* bound: messages in flight
  MaxRestarts    \* bound: process restarts, over all nodes

\* A lone voter elects itself without any message; that branch is left out.
ASSUME NodeAssumption == IsFiniteSet(Node) /\ Cardinality(Node) >= 2 /\ Nil \notin Node

ASSUME BoundAssumption == /\ MaxEpoch \in Nat /\ MaxLog \in Nat
                          /\ MaxInFlight \in Nat /\ MaxRestarts \in Nat

VARIABLES
  epoch,       \* QuorumState.leader_epoch (durable)
  voted,       \* QuorumState.voted_key (durable)
  leader,      \* QuorumState.leader_id (volatile: never restored by load_quorum_state)
  role,        \* the core's Role
  granted,     \* votes counted by a Prospective or Candidate
  log,         \* the metadata log (durable)
  hwm,         \* KraftLog.hwm (durable checkpoint)
  progress,    \* Role::Leader.replicas: acknowledged fetch offset of each peer
  coreHwm,     \* Role::Leader.high_watermark
  epochStart,  \* Role::Leader.epoch_start_offset
  waiters,     \* commit_waiters: need_offset of each parked submit
  msgs,        \* RPCs in flight
  restarts,    \* restarts so far
  cast,        \* history: the binding votes <<epoch, candidate>> a node ever cast
  elected,     \* history: <<epoch, node>> for every promotion to leader
  abandoned,   \* history: <<node, epoch>> where a follower dropped the leader of its epoch
  acked        \* history: <<offset, record>> of every submit answered with success

quorumVars == <<epoch, voted, leader, role, granted>>
logVars    == <<log, hwm>>
leaderVars == <<progress, coreHwm, epochStart, waiters>>
histVars   == <<cast, elected, abandoned>>
vars == <<quorumVars, logVars, leaderVars, msgs, restarts, histVars, acked>>

NoOffset == -1
Entry == [epoch : Nat, by : Node]

Minimum(a, b) == IF a <= b THEN a ELSE b
Maximum(a, b) == IF a >= b THEN a ELSE b

Majority == Cardinality(Node) \div 2 + 1

-----------------------------------------------------------------------------
(* The log and its leader-epoch checkpoint.                                *)

\* The checkpoint has an entry <<epoch, start offset>> for each record whose epoch
\* exceeds every earlier one; the entry goes when that record is truncated away.
\* An entry is named here by the position of its record.
Checkpoint(l) == {j \in 1..Len(l) : \A k \in 1..(j - 1) : l[k].epoch < l[j].epoch}

LastEpoch(l) == IF l = << >> THEN 0 ELSE l[Max(Checkpoint(l))].epoch

\* None (NoOffset) for every epoch without an entry, not only for later ones.
EndOffsetForEpoch(l, e) ==
  LET later == {j \in Checkpoint(l) : l[j].epoch > e}
  IN  IF \A j \in Checkpoint(l) : l[j].epoch # e THEN NoOffset
      ELSE IF later = {} THEN Len(l)
      ELSE Min(later) - 1

TruncateTo(l, o) == SubSeq(l, 1, Minimum(o, Len(l)))

LogIsUpToDate(n, lastEpoch, lastOffset) ==
  \/ lastEpoch > LastEpoch(log[n])
  \/ lastEpoch = LastEpoch(log[n]) /\ lastOffset >= Len(log[n])

-----------------------------------------------------------------------------
(* Messages.  live is FALSE once the requester restarted: the process that *)
(* would have consumed the response is gone.  pre of a VoteResp is history *)
(* only; the response on the wire carries no such flag.                    *)

Peers(n) == Node \ {n}

VoteRequests(n, e, pre, l) ==
  {[type |-> "Vote", from |-> n, to |-> p, epoch |-> e, pre |-> pre,
    lastEpoch |-> LastEpoch(l), lastOffset |-> Len(l), live |-> TRUE] : p \in Peers(n)}

BeginRequests(n, e) ==
  {[type |-> "Begin", from |-> n, to |-> p, epoch |-> e] : p \in Peers(n)}

\* send_fetch: nothing is sent when the leader is this node.
FetchRequests(n, to, l) ==
  {[type |-> "Fetch", from |-> n, to |-> p, epoch |-> LastEpoch(l), offset |-> Len(l),
    live |-> TRUE] : p \in {to} \ {n}}

VoteReply(m, e, yes) ==
  IF m.live THEN {[type |-> "VoteResp", from |-> m.to, to |-> m.from, epoch |-> e,
                   granted |-> yes, pre |-> m.pre]}
            ELSE {}

FetchReply(m, ldr, div, mark, recs) ==
  IF m.live THEN {[type |-> "FetchResp", from |-> m.to, to |-> m.from, leader |-> ldr,
                   div |-> div, hwm |-> mark, base |-> m.offset, recs |-> recs]}
            ELSE {}

\* A send is fire-and-forget: any part of it may be lost.
Send(ms) == \E kept \in SUBSET ms :
              /\ msgs' = msgs \cup kept
              /\ Cardinality(msgs') <= MaxInFlight

Consume(m, ms) == \E kept \in SUBSET ms :
                    /\ msgs' = (msgs \ {m}) \cup kept
                    /\ Cardinality(msgs') <= MaxInFlight

-----------------------------------------------------------------------------
(* Transitions of the core, as the engine executes them.                   *)

\* Faulty variant: the waiters of a leader that steps down stay parked.
LeaveLeadershipKeepingWaiters(n) ==
  /\ progress' = [progress EXCEPT ![n] = [p \in Node |-> 0]]
  /\ coreHwm' = [coreHwm EXCEPT ![n] = 0]
  /\ epochStart' = [epochStart EXCEPT ![n] = 0]
  /\ UNCHANGED waiters

\* Leaving the leader role drops its progress map and fails every waiter.
LeaveLeadership(n) ==
  /\ progress' = [progress EXCEPT ![n] = [p \in Node |-> 0]]
  /\ coreHwm' = [coreHwm EXCEPT ![n] = 0]
  /\ epochStart' = [epochStart EXCEPT ![n] = 0]
  /\ waiters' = [waiters EXCEPT ![n] = {}]

TransitionToUnattached(n, e) ==
  /\ epoch' = [epoch EXCEPT ![n] = e]
  /\ leader' = [leader EXCEPT ![n] = Nil]
  /\ voted' = [voted EXCEPT ![n] = Nil]
  /\ role' = [role EXCEPT ![n] = "Unattached"]
  /\ granted' = [granted EXCEPT ![n] = {}]
  /\ LeaveLeadership(n)

\* A pre-vote round at the current epoch; the leader belief is dropped.
StartElection(n) ==
  /\ leader' = [leader EXCEPT ![n] = Nil]
  /\ role' = [role EXCEPT ![n] = "Prospective"]
  /\ granted' = [granted EXCEPT ![n] = {n}]
  /\ abandoned' = abandoned \cup (IF role[n] = "Follower" THEN {<<n, epoch[n]>>} ELSE {})
  /\ Send(VoteRequests(n, epoch[n], TRUE, log[n]))
  /\ UNCHANGED <<epoch, voted, logVars, leaderVars, restarts, cast, elected, acked>>

PromoteToCandidate(n, m) ==
  /\ epoch[n] < MaxEpoch
  /\ epoch' = [epoch EXCEPT ![n] = @ + 1]
  /\ leader' = [leader EXCEPT ![n] = Nil]
  /\ voted' = [voted EXCEPT ![n] = n]
  /\ role' = [role EXCEPT ![n] = "Candidate"]
  /\ granted' = [granted EXCEPT ![n] = {n}]
  /\ cast' = [cast EXCEPT ![n] = @ \cup {<<epoch[n] + 1, n>>}]
  /\ Consume(m, VoteRequests(n, epoch[n] + 1, FALSE, log[n]))
  /\ UNCHANGED <<logVars, leaderVars, restarts, elected, abandoned, acked>>

\* The record a leader appends, for a LeaderChange as for a submit.
LeaderRecord(n) == [epoch |-> epoch[n], by |-> n]

\* epoch_start_offset is read before the LeaderChange record is appended.
PromoteToLeader(n, m) ==
  /\ leader' = [leader EXCEPT ![n] = n]
  /\ role' = [role EXCEPT ![n] = "Leader"]
  /\ granted' = [granted EXCEPT ![n] = {}]
  /\ progress' = [progress EXCEPT ![n] = [p \in Node |-> 0]]
  /\ coreHwm' = [coreHwm EXCEPT ![n] = 0]
  /\ epochStart' = [epochStart EXCEPT ![n] = Len(log[n])]
  /\ log' = [log EXCEPT ![n] = Append(@, LeaderRecord(n))]
  /\ elected' = elected \cup {<<epoch[n], n>>}
  /\ Consume(m, BeginRequests(n, epoch[n]))
  /\ UNCHANGED <<epoch, voted, hwm, waiters, restarts, cast, abandoned, acked>>

\* KraftLog::advance_hwm: never down, never past the log end.
AdvancedHwm(n, target, l) == Maximum(hwm[n], Minimum(target, Len(l)))

\* try_resolve_waiters: the submits a high watermark answers.
Resolved(n, mark) == {w \in waiters[n] : w <= mark}

\* advance_and_apply: the high watermark moves up and every waiter it reaches is
\* answered with success.
AdvanceAndApply(n, target, l) ==
  LET mark == AdvancedHwm(n, target, l)
      done == Resolved(n, mark)
  IN  /\ hwm' = [hwm EXCEPT ![n] = mark]
      /\ waiters' = [waiters EXCEPT ![n] = @ \ done]
      /\ acked' = acked \cup {<<w - 1, l[w]>> : w \in {v \in done : v <= Len(l)}}

-----------------------------------------------------------------------------
(* Timers.  Which timer is armed follows from the role (reconcile_timers). *)

ElectionTimeout(n) ==
  /\ role[n] \in {"Unattached", "Voted", "Prospective", "Candidate"}
  /\ StartElection(n)

\* The fetch watchdog, after controller_fetch_miss_limit misses in a row.
FetchTimeout(n) ==
  /\ role[n] = "Follower"
  /\ StartElection(n)

\* The fetch watchdog before that limit: poll the leader again.
RePoll(n) ==
  /\ role[n] = "Follower"
  /\ Send(FetchRequests(n, leader[n], log[n]))
  /\ UNCHANGED <<quorumVars, logVars, leaderVars, restarts, histVars, acked>>

Heartbeat(n) ==
  /\ role[n] = "Leader"
  /\ Send(BeginRequests(n, epoch[n]))
  /\ UNCHANGED <<quorumVars, logVars, leaderVars, restarts, histVars, acked>>

-----------------------------------------------------------------------------
(* Votes.                                                                  *)

\* A request behind this node's epoch.
FenceVote(n, m) ==
  /\ m.epoch < epoch[n]
  /\ Consume(m, VoteReply(m, epoch[n], FALSE))
  /\ UNCHANGED <<quorumVars, logVars, leaderVars, restarts, histVars, acked>>

\* Non-binding: nothing but the reply changes.
AnswerPreVote(n, m) ==
  /\ m.pre /\ m.epoch >= epoch[n]
  /\ Consume(m, VoteReply(m, epoch[n],
                          LogIsUpToDate(n, m.lastEpoch, m.lastOffset) /\ leader[n] = Nil))
  /\ UNCHANGED <<quorumVars, logVars, leaderVars, restarts, histVars, acked>>

\* Faulty variant: the recorded vote is not consulted.
MayGrantAnyone(n, m) ==
  /\ LogIsUpToDate(n, m.lastEpoch, m.lastOffset)
  /\ m.epoch = epoch[n] => leader[n] = Nil

\* A binding request at or above this node's epoch.  At a higher epoch the node
\* first becomes Unattached there, which clears its leader and its vote.
MayGrant(n, m) ==
  /\ LogIsUpToDate(n, m.lastEpoch, m.lastOffset)
  /\ m.epoch = epoch[n] => leader[n] = Nil /\ voted[n] \in {Nil, m.from}

GrantVote(n, m) ==
  /\ ~m.pre /\ m.epoch >= epoch[n] /\ MayGrant(n, m)
  /\ epoch' = [epoch EXCEPT ![n] = m.epoch]
  /\ leader' = [leader EXCEPT ![n] = Nil]
  /\ voted' = [voted EXCEPT ![n] = m.from]
  /\ role' = [role EXCEPT ![n] = "Voted"]
  /\ granted' = [granted EXCEPT ![n] = {}]
  /\ LeaveLeadership(n)
  /\ cast' = [cast EXCEPT ![n] = @ \cup {<<m.epoch, m.from>>}]
  /\ Consume(m, VoteReply(m, m.epoch, TRUE))
  /\ UNCHANGED <<logVars, restarts, elected, abandoned, acked>>

DenyVote(n, m) ==
  /\ ~m.pre /\ m.epoch >= epoch[n] /\ ~MayGrant(n, m)
  /\ IF m.epoch > epoch[n] THEN TransitionToUnattached(n, m.epoch)
                           ELSE UNCHANGED <<quorumVars, leaderVars>>
  /\ Consume(m, VoteReply(m, m.epoch, FALSE))
  /\ UNCHANGED <<logVars, restarts, histVars, acked>>

ReceiveVoteRequest(n, m) ==
  /\ m.type = "Vote" /\ m.to = n
  /\ FenceVote(n, m) \/ AnswerPreVote(n, m) \/ GrantVote(n, m) \/ DenyVote(n, m)

\* A higher-epoch rejection fences this node.
FencedByRejection(n, m) ==
  /\ ~m.granted /\ m.epoch > epoch[n]
  /\ TransitionToUnattached(n, m.epoch)
  /\ Consume(m, {})
  /\ UNCHANGED <<logVars, restarts, histVars, acked>>

\* Faulty variant: a grant of an earlier epoch counts.
CountsInAnyRound(n, m, r) == m.granted /\ role[n] = r

\* Whether a grant belongs to the round this node is in: role and epoch decide.
CountsInRound(n, m, r) == m.granted /\ role[n] = r /\ m.epoch = epoch[n]

IgnoreVoteResponse(n, m) ==
  /\ ~m.granted => m.epoch <= epoch[n]
  /\ ~CountsInRound(n, m, "Prospective") /\ ~CountsInRound(n, m, "Candidate")
  /\ Consume(m, {})
  /\ UNCHANGED <<quorumVars, logVars, leaderVars, restarts, histVars, acked>>

CountVote(n, m) ==
  /\ CountsInRound(n, m, "Prospective") \/ CountsInRound(n, m, "Candidate")
  /\ LET votes == granted[n] \cup {m.from}
     IN  IF Cardinality(votes) >= Majority
         THEN IF role[n] = "Prospective" THEN PromoteToCandidate(n, m)
                                         ELSE PromoteToLeader(n, m)
         ELSE /\ granted' = [granted EXCEPT ![n] = votes]
              /\ Consume(m, {})
              /\ UNCHANGED <<epoch, voted, leader, role, logVars, leaderVars, restarts,
                             histVars, acked>>

ReceiveVoteResponse(n, m) ==
  /\ m.type = "VoteResp" /\ m.to = n
  /\ FencedByRejection(n, m) \/ IgnoreVoteResponse(n, m) \/ CountVote(n, m)

-----------------------------------------------------------------------------
(* BeginQuorumEpoch: announcement and heartbeat of a leader.               *)

\* A higher epoch, or this epoch while no leader is known for it.
AcceptsLeader(n, m) == m.epoch > epoch[n] \/ (m.epoch = epoch[n] /\ leader[n] = Nil)

FollowLeader(n, m) ==
  /\ AcceptsLeader(n, m)
  /\ epoch' = [epoch EXCEPT ![n] = m.epoch]
  /\ leader' = [leader EXCEPT ![n] = m.from]
  /\ voted' = [voted EXCEPT ![n] = Nil]
  /\ role' = [role EXCEPT ![n] = "Follower"]
  /\ granted' = [granted EXCEPT ![n] = {}]
  /\ LeaveLeadership(n)
  /\ Consume(m, FetchRequests(n, m.from, log[n]))
  /\ UNCHANGED <<logVars, restarts, histVars, acked>>

IgnoreLeader(n, m) ==
  /\ ~AcceptsLeader(n, m)
  /\ Consume(m, {})
  /\ UNCHANGED <<quorumVars, logVars, leaderVars, restarts, histVars, acked>>

ReceiveBegin(n, m) ==
  /\ m.type = "Begin" /\ m.to = n
  /\ FollowLeader(n, m) \/ IgnoreLeader(n, m)

-----------------------------------------------------------------------------
(* Fetch: replication is pulled, and a fetch acknowledges what came before.*)

\* Faulty variant: the commit rule of figure 8 is left out.
RecomputeIgnoringEpochStart(n, acks) ==
  LET end     == Len(log[n])
      matched == [p \in Node |-> IF p = n THEN end ELSE Minimum(acks[p], end)]
      quorumReached == {o \in {matched[p] : p \in Node} :
                          Cardinality({p \in Node : matched[p] >= o}) >= Majority}
  IN  Maximum(Max(quorumReached), Minimum(coreHwm[n], end))

\* Faulty variant: the leader's own log end decides.
RecomputeFromLogEnd(n, acks) ==
  IF Len(log[n]) > epochStart[n] THEN Len(log[n]) ELSE coreHwm[n]

\* recompute_high_watermark: the greatest offset a majority (the leader's own log
\* end included) has reached, if it is past the start of the epoch.
RecomputeHighWatermark(n, acks) ==
  LET end     == Len(log[n])
      matched == [p \in Node |-> IF p = n THEN end ELSE Minimum(acks[p], end)]
      reached == {matched[p] : p \in Node}
      quorumReached == {o \in reached : Cardinality({p \in Node : matched[p] >= o}) >= Majority}
      best    == Max(quorumReached)
      current == Minimum(coreHwm[n], end)
  IN  IF best > epochStart[n] THEN Maximum(best, current) ELSE current

DivergesAt(n, m) == EndOffsetForEpoch(log[n], m.epoch)

Diverges(n, m) ==
  /\ m.offset > 0
  /\ DivergesAt(n, m) # NoOffset
  /\ m.offset > DivergesAt(n, m)

\* The divergence hint is an Action::TruncateTo.  It goes into the response, and
\* the engine also executes it: on this node's own log.
AnswerDiverging(n, m) ==
  /\ role[n] = "Leader" /\ Diverges(n, m)
  /\ log' = [log EXCEPT ![n] = TruncateTo(@, DivergesAt(n, m))]
  /\ hwm' = [hwm EXCEPT ![n] = Minimum(@, DivergesAt(n, m))]
  /\ Consume(m, FetchReply(m, leader[n], DivergesAt(n, m), hwm'[n], << >>))
  /\ UNCHANGED <<quorumVars, leaderVars, restarts, histVars, acked>>

\* Every record from the fetch offset to the log end.
ServedRecords(l, o) == SubSeq(l, o + 1, Len(l))

\* Consistent as far as the leader can tell: the fetch offset is acknowledged and
\* everything from it to the log end is served.
ServeFetch(n, m) ==
  /\ role[n] = "Leader" /\ ~Diverges(n, m)
  /\ progress' = [progress EXCEPT ![n][m.from] = m.offset]
  /\ LET mark == RecomputeHighWatermark(n, progress'[n])
     IN  IF mark > coreHwm[n]
         THEN coreHwm' = [coreHwm EXCEPT ![n] = mark] /\ AdvanceAndApply(n, mark, log[n])
         ELSE UNCHANGED <<coreHwm, hwm, waiters, acked>>
  /\ Consume(m, FetchReply(m, leader[n], NoOffset, hwm'[n], ServedRecords(log[n], m.offset)))
  /\ UNCHANGED <<quorumVars, log, epochStart, restarts, histVars>>

\* Faulty variant: a node that knows no leader redirects all the same.
RedirectToNobody(n, m) ==
  /\ role[n] # "Leader"
  /\ Consume(m, FetchReply(m, leader[n], NoOffset, hwm[n], << >>))
  /\ UNCHANGED <<quorumVars, logVars, leaderVars, restarts, histVars, acked>>

\* Not the leader: redirect to the known one, with this node's own high watermark
\* and no records; with none known, an error the fetcher ignores.
RedirectFetch(n, m) ==
  /\ role[n] # "Leader"
  /\ Consume(m, IF leader[n] = Nil THEN {} ELSE FetchReply(m, leader[n], NoOffset, hwm[n], << >>))
  /\ UNCHANGED <<quorumVars, logVars, leaderVars, restarts, histVars, acked>>

ReceiveFetch(n, m) ==
  /\ m.type = "Fetch" /\ m.to = n
  /\ AnswerDiverging(n, m) \/ ServeFetch(n, m) \/ RedirectFetch(n, m)

\* on_fetch_response looks at neither the role nor the epoch of this node.
TruncateToHint(n, m) ==
  /\ m.div # NoOffset
  /\ log' = [log EXCEPT ![n] = TruncateTo(@, m.div)]
  /\ hwm' = [hwm EXCEPT ![n] = Minimum(@, m.div)]
  /\ Consume(m, {})
  /\ UNCHANGED <<quorumVars, leaderVars, restarts, histVars, acked>>

\* The part of the served records that continues log l: those already present
\* are skipped, and a gap stops the loop.
Continuation(l, m) ==
  IF m.base > Len(l) THEN << >> ELSE SubSeq(m.recs, Len(l) - m.base + 1, Len(m.recs))

AppendFetched(n, m) ==
  /\ m.div = NoOffset
  /\ LET l == log[n] \o Continuation(log[n], m)
     IN  /\ log' = [log EXCEPT ![n] = l]
         /\ AdvanceAndApply(n, m.hwm, l)
         /\ Consume(m, FetchRequests(n, m.leader, l))
  /\ UNCHANGED <<quorumVars, progress, coreHwm, epochStart, restarts, histVars>>

ReceiveFetchResponse(n, m) ==
  /\ m.type = "FetchResp" /\ m.to = n
  /\ TruncateToHint(n, m) \/ AppendFetched(n, m)

-----------------------------------------------------------------------------
(* Clients and crashes.                                                    *)

\* on_submit_change on the leader; any other node refuses without a change.
SubmitChange(n) ==
  /\ role[n] = "Leader"
  /\ Len(log[n]) < MaxLog
  /\ log' = [log EXCEPT ![n] = Append(@, LeaderRecord(n))]
  /\ waiters' = [waiters EXCEPT ![n] = @ \cup {Len(log[n]) + 1}]
  /\ UNCHANGED <<quorumVars, hwm, progress, coreHwm, epochStart, msgs, restarts, histVars, acked>>

\* Faulty variant: the vote is not restored from the quorum-state file.
RestartForgettingVote(n) ==
  /\ restarts < MaxRestarts
  /\ restarts' = restarts + 1
  /\ leader' = [leader EXCEPT ![n] = Nil]
  /\ voted' = [voted EXCEPT ![n] = Nil]
  /\ role' = [role EXCEPT ![n] = "Unattached"]
  /\ granted' = [granted EXCEPT ![n] = {}]
  /\ LeaveLeadership(n)
  /\ abandoned' = abandoned \cup (IF role[n] = "Follower" THEN {<<n, epoch[n]>>} ELSE {})
  /\ UNCHANGED <<epoch, logVars, msgs, cast, elected, acked>>

\* A restart keeps the epoch, the vote, the log and its high watermark.  The
\* responses owed to the dead process are lost.
Restart(n) ==
  /\ restarts < MaxRestarts
  /\ restarts' = restarts + 1
  /\ leader' = [leader EXCEPT ![n] = Nil]
  /\ role' = [role EXCEPT ![n] = "Unattached"]
  /\ granted' = [granted EXCEPT ![n] = {}]
  /\ LeaveLeadership(n)
  /\ abandoned' = abandoned \cup (IF role[n] = "Follower" THEN {<<n, epoch[n]>>} ELSE {})
  /\ msgs' = {IF m.type \in {"Vote", "Fetch"} /\ m.from = n THEN [m EXCEPT !.live = FALSE] ELSE m :
                m \in {k \in msgs : ~(k.type \in {"VoteResp", "FetchResp"} /\ k.to = n)}}
  /\ UNCHANGED <<epoch, voted, logVars, cast, elected, acked>>

-----------------------------------------------------------------------------
Init ==
  /\ epoch = [n \in Node |-> 0]
  /\ voted = [n \in Node |-> Nil]
  /\ leader = [n \in Node |-> Nil]
  /\ role = [n \in Node |-> "Unattached"]
  /\ granted = [n \in Node |-> {}]
  /\ log = [n \in Node |-> << >>]
  /\ hwm = [n \in Node |-> 0]
  /\ progress = [n \in Node |-> [p \in Node |-> 0]]
  /\ coreHwm = [n \in Node |-> 0]
  /\ epochStart = [n \in Node |-> 0]
  /\ waiters = [n \in Node |-> {}]
  /\ msgs = {}
  /\ restarts = 0
  /\ cast = [n \in Node |-> {}]
  /\ elected = {}
  /\ abandoned = {}
  /\ acked = {}

Timer(n) == ElectionTimeout(n) \/ FetchTimeout(n) \/ RePoll(n) \/ Heartbeat(n)

Deliver(n, m) ==
  \/ ReceiveVoteRequest(n, m)
  \/ ReceiveVoteResponse(n, m)
  \/ ReceiveBegin(n, m)
  \/ ReceiveFetch(n, m)
  \/ ReceiveFetchResponse(n, m)

Next ==
  \/ \E n \in Node : Timer(n) \/ SubmitChange(n) \/ Restart(n)
  \/ \E n \in Node, m \in msgs : Deliver(n, m)

Spec == Init /\ [][Next]_vars

-----------------------------------------------------------------------------
Role == {"Unattached", "Voted", "Prospective", "Candidate", "Leader", "Follower"}

VoteMsg == [type : {"Vote"}, from : Node, to : Node, epoch : Nat, pre : BOOLEAN,
            lastEpoch : Nat, lastOffset : Nat, live : BOOLEAN]
VoteRespMsg == [type : {"VoteResp"}, from : Node, to : Node, epoch : Nat,
                granted : BOOLEAN, pre : BOOLEAN]
BeginMsg == [type : {"Begin"}, from : Node, to : Node, epoch : Nat]
FetchMsg == [type : {"Fetch"}, from : Node, to : Node, epoch : Nat, offset : Nat,
             live : BOOLEAN]
FetchRespMsg == [type : {"FetchResp"}, from : Node, to : Node, leader : Node,
                 div : Nat \cup {NoOffset}, hwm : Nat, base : Nat, recs : Seq(Entry)]
Message == VoteMsg \cup VoteRespMsg \cup BeginMsg \cup FetchMsg \cup FetchRespMsg

\* The type of every variable: what each field of the core and the engine holds.
TypeOK ==
  /\ epoch \in [Node -> Nat]
  /\ voted \in [Node -> Node \cup {Nil}]
  /\ leader \in [Node -> Node \cup {Nil}]
  /\ role \in [Node -> Role]
  /\ granted \in [Node -> SUBSET Node]
  /\ log \in [Node -> Seq(Entry)]
  /\ hwm \in [Node -> Nat]
  /\ progress \in [Node -> [Node -> Nat]]
  /\ coreHwm \in [Node -> Nat]
  /\ epochStart \in [Node -> Nat]
  /\ waiters \in [Node -> SUBSET (Nat \ {0})]
  /\ msgs \subseteq Message
  /\ restarts \in Nat
  /\ cast \in [Node -> SUBSET (Nat \X Node)]
  /\ elected \subseteq Nat \X Node
  /\ abandoned \subseteq Node \X Nat
  /\ acked \subseteq Nat \X Entry

\* A node that follows or leads knows the leader of its epoch: without it a
\* follower could not poll (reconcile_timers arms only the fetch watchdog) and a
\* leader's fetch response would name nobody.
LeaderKnown == \A n \in Node : role[n] \in {"Follower", "Leader"} => leader[n] \in Node

\* Every promotion to leader is backed by binding votes of a majority in that very
\* epoch: a pre-vote grant, which the response does not tell apart from a real
\* one, is never counted as a vote (handle_vote_response).
ElectedByMajority ==
  \A w \in elected : Cardinality({v \in Node : w \in cast[v]}) >= Majority

\* A node casts binding votes for two candidates of one epoch only after it
\* followed a leader of that epoch and gave it up (handle_begin_quorum_epoch
\* clears the vote, start_election and a restart clear the leader).
OneVotePerEpochUnlessAbandoned ==
  \A v \in Node : \A a, b \in cast[v] : a[1] = b[1] => a = b \/ <<v, a[1]>> \in abandoned

\* Two leaders of one epoch exist only if some voter gave up a leader of that
\* epoch without leaving the epoch.
ElectionSafetyUnlessAbandoned ==
  \A a, b \in elected : a[1] = b[1] => a = b \/ \E v \in Node : <<v, a[1]>> \in abandoned

\* The commit rule of Raft's figure 8: a leader's high watermark is past its
\* epoch's first offset or has not moved.
CommitsOwnEpoch ==
  \A n \in Node : role[n] = "Leader" => coreHwm[n] = 0 \/ coreHwm[n] > epochStart[n]

\* A leader's high watermark rises only to an offset more than half of the voters
\* have reached, counting the leader by its own log end and a follower by what
\* its latest fetch acknowledged (handle_fetch, recompute_high_watermark).
HwmAdvanceByMajority ==
  [][\A n \in Node : coreHwm'[n] > coreHwm[n] =>
       LET reached == {p \in Node : coreHwm'[n] <= IF p = n THEN Len(log[n]) ELSE progress'[n][p]}
       IN  2 * Cardinality(reached) > Cardinality(Node)]_vars

\* A record whose submitter was told of success is in the log of every leader of
\* that epoch or a later one ("A lost or reordered committed entry has no such
\* serialization", the repository's own model).
AckedRecordsSurvive ==
  \A a \in acked, n \in Node : (role[n] = "Leader" /\ epoch[n] >= a[2].epoch) =>
    Len(log[n]) > a[1] /\ log[n][a[1] + 1] = a[2]

\* A parked submit is on a leader and ahead of the high watermark: none is left
\* waiting once its record is committed, and none outlives the leadership.
WaitersArePending ==
  \A n \in Node : \A w \in waiters[n] : role[n] = "Leader" /\ w > hwm[n]

-----------------------------------------------------------------------------
(* The inductive invariant behind the election properties.                 *)

\* A node never voted in an epoch it has not reached.
VotesBelowEpoch == \A v \in Node : \A a \in cast[v] : a[1] <= epoch[v]

\* The vote of the current epoch is still recorded, unless a leader of that epoch
\* has been followed since.
VoteStands ==
  \A v \in Node : \A a \in cast[v] :
    (a[1] = epoch[v] /\ <<v, epoch[v]>> \notin abandoned) =>
      voted[v] = a[2] \/ role[v] = "Follower"

\* A pre-vote request of a candidate dates from before its candidacy.
RequestsPrecedeCandidacy ==
  \A m \in msgs : m.type = "Vote" =>
    /\ m.epoch <= epoch[m.from]
    /\ m.pre /\ role[m.from] = "Candidate" => m.epoch < epoch[m.from]

\* A grant in flight is a vote cast, or a pre-vote no candidacy will mistake for one.
GrantsAreVotes ==
  \A m \in msgs : (m.type = "VoteResp" /\ m.granted) =>
    IF m.pre THEN /\ m.epoch <= epoch[m.to]
                  /\ role[m.to] = "Candidate" => m.epoch < epoch[m.to]
             ELSE <<m.epoch, m.to>> \in cast[m.from]

\* Every vote a candidate has counted was cast for it in its epoch.
CountedVotesWereCast ==
  \A n \in Node : role[n] = "Candidate" => \A v \in granted[n] : <<epoch[n], n>> \in cast[v]

ElectionInv ==
  /\ TypeOK
  /\ LeaderKnown
  /\ VotesBelowEpoch
  /\ VoteStands
  /\ OneVotePerEpochUnlessAbandoned
  /\ RequestsPrecedeCandidacy
  /\ GrantsAreVotes
  /\ CountedVotesWereCast
  /\ ElectedByMajority

-----------------------------------------------------------------------------
(* The inductive invariant behind the commit properties.                   *)

\* A node's high watermark never passes the end of its own log.
HwmWithinLog == \A n \in Node : hwm[n] <= Len(log[n])

CommitInv ==
  /\ TypeOK
  /\ LeaderKnown
  /\ CommitsOwnEpoch
  /\ WaitersArePending
  /\ HwmWithinLog

=============================================================================

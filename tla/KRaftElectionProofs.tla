------------------------ MODULE KRaftElectionProofs ------------------------
(***************************************************************************)
(* Elections of KRaft: ElectionInv is inductive, for any number of voters, *)
(* and with it every leader had a majority of binding votes, and two       *)
(* leaders of one epoch need a voter that abandoned a leader of it.        *)
(***************************************************************************)
EXTENDS KRaftProofs

USE SMTT(120)

\* The type of a message tells which operation built it.
LEMMA FetchTraffic ==
  ASSUME NEW m, NEW n, NEW to, NEW l, NEW div, NEW mark, NEW recs
  PROVE  /\ \A k \in FetchRequests(n, to, l) : k.type = "Fetch"
         /\ \A k \in FetchReply(m, to, div, mark, recs) : k.type = "FetchResp"
  BY DEF FetchRequests, FetchReply

\* A set of voters that contains a majority is a majority.
LEMMA MoreVoters ==
  ASSUME NEW S \in SUBSET Node, NEW T \in SUBSET Node, S \subseteq T,
         Cardinality(S) >= Majority
  PROVE  Cardinality(T) >= Majority
<1>1. IsFiniteSet(T)
  BY NodeAssumption, FS_Subset
<1>2. IsFiniteSet(S) /\ Cardinality(S) <= Cardinality(T)
  BY <1>1, FS_Subset
<1>3. Cardinality(S) \in Nat /\ Cardinality(T) \in Nat
  BY <1>1, <1>2, FS_CardinalityType
<1>4. QED
  BY <1>2, <1>3, MajorityFits

\* A step that casts no vote and elects nobody: node n may leave its round, move
\* to a later epoch, or ask for pre-votes; what it answers is no binding grant.
LEMMA NoVoteCast ==
  ASSUME ElectionInv, TypeOK', LeaderKnown', NEW n \in Node,
         cast' = cast, elected' = elected, abandoned \subseteq abandoned',
         \A p \in Node \ {n} : /\ epoch'[p] = epoch[p] /\ voted'[p] = voted[p]
                               /\ role'[p] = role[p] /\ granted'[p] = granted[p],
         epoch'[n] >= epoch[n],
         role'[n] = "Candidate" =>
           role[n] = "Candidate" /\ epoch'[n] = epoch[n] /\ granted'[n] = granted[n],
         epoch'[n] = epoch[n] => \/ voted'[n] = voted[n] /\ role[n] # "Follower"
                                 \/ role'[n] = "Follower"
                                 \/ <<n, epoch[n]>> \in abandoned',
         \A k \in msgs' : k.type = "Vote" =>
           \/ \E j \in msgs : j.type = "Vote" /\ j.from = k.from /\ j.epoch = k.epoch /\ j.pre = k.pre
           \/ k.from = n /\ k.epoch = epoch'[n] /\ role'[n] # "Candidate",
         \A k \in msgs' : (k.type = "VoteResp" /\ k.granted) =>
           \/ k \in msgs
           \/ /\ k.pre /\ k.epoch <= epoch'[k.to]
              /\ role'[k.to] = "Candidate" => k.epoch < epoch'[k.to]
  PROVE  ElectionInv'
<1>1. /\ epoch \in [Node -> Nat] /\ epoch' \in [Node -> Nat]
      /\ cast \in [Node -> SUBSET (Nat \X Node)]
      /\ msgs \subseteq Message /\ msgs' \subseteq Message
  BY ZenonT(120) DEF ElectionInv, TypeOK
<1>2. \A p \in Node : epoch[p] \in Nat /\ epoch'[p] \in Nat /\ epoch[p] <= epoch'[p]
  BY <1>1
<1>3. \A v \in Node : \A a \in cast[v] : a[1] \in Nat /\ a[2] \in Node
  BY <1>1
<1>4. VotesBelowEpoch'
  BY <1>2, <1>3 DEF ElectionInv, VotesBelowEpoch
<1>5. VoteStands'
  BY <1>2, <1>3 DEF ElectionInv, VotesBelowEpoch, VoteStands
<1>6. OneVotePerEpochUnlessAbandoned'
  BY DEF ElectionInv, OneVotePerEpochUnlessAbandoned
<1>7. RequestsPrecedeCandidacy'
  <2> SUFFICES ASSUME NEW k \in msgs', k.type = "Vote"
               PROVE  /\ k.epoch <= epoch'[k.from]
                      /\ k.pre /\ role'[k.from] = "Candidate" => k.epoch < epoch'[k.from]
    BY DEF RequestsPrecedeCandidacy
  <2>1. k.from \in Node /\ k.epoch \in Nat
    BY <1>1, MessageByType DEF VoteMsg
  <2>2. CASE \E j \in msgs : /\ j.type = "Vote" /\ j.from = k.from
                             /\ j.epoch = k.epoch /\ j.pre = k.pre
    BY <1>2, <2>1, <2>2 DEF ElectionInv, RequestsPrecedeCandidacy
  <2>3. CASE k.from = n /\ k.epoch = epoch'[n] /\ role'[n] # "Candidate"
    BY <1>2, <2>3
  <2>4. QED
    BY <2>2, <2>3
<1>8. GrantsAreVotes'
  <2> SUFFICES ASSUME NEW k \in msgs', k.type = "VoteResp", k.granted
               PROVE  IF k.pre THEN /\ k.epoch <= epoch'[k.to]
                                    /\ role'[k.to] = "Candidate" => k.epoch < epoch'[k.to]
                               ELSE <<k.epoch, k.to>> \in cast'[k.from]
    BY DEF GrantsAreVotes
  <2>1. k.to \in Node /\ k.epoch \in Nat
    BY <1>1, MessageByType DEF VoteRespMsg
  <2>2. CASE k \in msgs
    BY <1>2, <2>1, <2>2 DEF ElectionInv, GrantsAreVotes
  <2>3. QED
    BY <2>2
<1>9. CountedVotesWereCast'
  BY DEF ElectionInv, CountedVotesWereCast
<1>10. ElectedByMajority'
  BY DEF ElectionInv, ElectedByMajority
<1>11. QED
  BY <1>4, <1>5, <1>6, <1>7, <1>8, <1>9, <1>10 DEF ElectionInv

\* What a node sends carries the node's own identity and the epoch it was given.
LEMMA SentMessages ==
  /\ \A n, e, pre, l : \A k \in VoteRequests(n, e, pre, l) :
       k.type = "Vote" /\ k.from = n /\ k.epoch = e /\ k.pre = pre
  /\ \A n, e : \A k \in BeginRequests(n, e) : k.type = "Begin"
  /\ \A n, to, l : \A k \in FetchRequests(n, to, l) : k.type = "Fetch"
  /\ \A m, e, yes : \A k \in VoteReply(m, e, yes) :
       /\ k.type = "VoteResp" /\ k.from = m.to /\ k.to = m.from
       /\ k.epoch = e /\ k.granted = yes /\ k.pre = m.pre
  /\ \A m, ldr, div, mark, recs : \A k \in FetchReply(m, ldr, div, mark, recs) :
       k.type = "FetchResp"
  BY DEF VoteRequests, BeginRequests, FetchRequests, VoteReply, FetchReply

LEMMA VotesAsked == \A n, e, pre, l : \A k \in VoteRequests(n, e, pre, l) : k.type = "Vote"
  BY DEF VoteRequests

\* Nothing appears in flight but what a step sends.
LEMMA InFlight ==
  ASSUME NEW m, NEW ms, Send(ms) \/ Consume(m, ms)
  PROVE  msgs' \subseteq msgs \cup ms
  BY DEF Send, Consume

\* A step that touches neither the quorum state nor the history, and that sends no
\* vote request and no binding grant.
LEMMA QuietStep ==
  ASSUME ElectionInv, TypeOK', LeaderKnown', NEW n \in Node, NEW ms,
         UNCHANGED <<quorumVars, histVars>>, msgs' \subseteq msgs \cup ms,
         \A k \in ms : k.type # "Vote",
         \A k \in ms : (k.type = "VoteResp" /\ k.granted) =>
           /\ k.pre /\ k.epoch <= epoch[k.to]
           /\ role[k.to] = "Candidate" => k.epoch < epoch[k.to]
  PROVE  ElectionInv'
<1>1. /\ epoch' = epoch /\ voted' = voted /\ role' = role /\ granted' = granted
      /\ cast' = cast /\ elected' = elected /\ abandoned' = abandoned
  BY DEF quorumVars, histVars
<1>2. epoch'[n] >= epoch[n]
  BY <1>1 DEF ElectionInv, TypeOK
<1>3. \A k \in msgs' : k.type = "Vote" => k \in msgs
  OBVIOUS
<1>4. \A k \in msgs' : (k.type = "VoteResp" /\ k.granted) =>
        \/ k \in msgs
        \/ /\ k.pre /\ k.epoch <= epoch'[k.to]
           /\ role'[k.to] = "Candidate" => k.epoch < epoch'[k.to]
  BY <1>1
<1>5. QED
  BY <1>1, <1>2, <1>3, <1>4, NoVoteCast, ZenonT(120)

\* Timers, submits and restarts cast no vote.
LEMMA ElectionLocal ==
  ASSUME ElectionInv, TypeOK', LeaderKnown', NEW n \in Node,
         Timer(n) \/ SubmitChange(n) \/ Restart(n)
  PROVE  ElectionInv'
<1>1. TypeOK /\ n \in DOMAIN epoch /\ n \in DOMAIN role /\ n \in DOMAIN granted
  BY ZenonT(120) DEF ElectionInv, TypeOK
<1>2. CASE ElectionTimeout(n) \/ FetchTimeout(n)
  <2>1. StartElection(n)
    BY <1>2 DEF ElectionTimeout, FetchTimeout
  <2>2. msgs' \subseteq msgs \cup VoteRequests(n, epoch[n], TRUE, log[n])
    BY <2>1, InFlight, ZenonT(120) DEF StartElection
  <2>3. /\ epoch' = epoch /\ voted' = voted /\ cast' = cast /\ elected' = elected
        /\ role' = [role EXCEPT ![n] = "Prospective"]
        /\ granted' = [granted EXCEPT ![n] = {n}]
        /\ abandoned' = abandoned \cup (IF role[n] = "Follower" THEN {<<n, epoch[n]>>} ELSE {})
    BY <2>1 DEF StartElection
  <2>4. role'[n] = "Prospective" /\ epoch[n] \in Nat
    BY <1>1, <2>3 DEF TypeOK
  <2>5. \A p \in Node \ {n} : role'[p] = role[p] /\ granted'[p] = granted[p]
    BY <2>3 DEF ElectionInv, TypeOK
  <2>6. role[n] = "Follower" => <<n, epoch[n]>> \in abandoned'
    BY <2>3
  <2>7. \A k \in msgs' : k.type = "Vote" =>
          k \in msgs \/ (k.from = n /\ k.epoch = epoch'[n])
    <3>1. \A k \in VoteRequests(n, epoch[n], TRUE, log[n]) : k.from = n /\ k.epoch = epoch[n]
      BY DEF VoteRequests
    <3>2. QED
      BY <2>2, <2>3, <3>1, ZenonT(120)
  <2>8. \A k \in msgs' : k.type = "VoteResp" => k \in msgs
    BY <2>2, SentMessages, ZenonT(120)
  <2>9. epoch'[n] >= epoch[n] /\ abandoned \subseteq abandoned'
    BY <2>3, <2>4
  <2>10. QED
    BY <2>3, <2>4, <2>5, <2>6, <2>7, <2>8, <2>9, NoVoteCast
<1>3. CASE RePoll(n)
  <2>1. msgs' \subseteq msgs \cup FetchRequests(n, leader[n], log[n])
    BY <1>3, InFlight DEF RePoll
  <2>2. UNCHANGED <<quorumVars, histVars>>
    BY <1>3 DEF RePoll
  <2>3. \A k \in FetchRequests(n, leader[n], log[n]) : k.type # "Vote" /\ k.type # "VoteResp"
    BY DEF FetchRequests
  <2>4. QED
    BY <2>1, <2>2, <2>3, QuietStep, ZenonT(120)
<1>4. CASE Heartbeat(n)
  <2>1. msgs' \subseteq msgs \cup BeginRequests(n, epoch[n])
    BY <1>4, InFlight DEF Heartbeat
  <2>2. UNCHANGED <<quorumVars, histVars>>
    BY <1>4 DEF Heartbeat
  <2>3. \A k \in BeginRequests(n, epoch[n]) : k.type # "Vote" /\ k.type # "VoteResp"
    BY DEF BeginRequests
  <2>4. QED
    BY <2>1, <2>2, <2>3, QuietStep, ZenonT(120)
<1>5. CASE SubmitChange(n)
  <2> DEFINE none == {}
  <2>1. UNCHANGED <<quorumVars, histVars>> /\ msgs' \subseteq msgs \cup none
    BY <1>5 DEF SubmitChange
  <2>2. \A k : k \notin none
    OBVIOUS
  <2> HIDE DEF none
  <2>3. QED
    BY <2>1, <2>2, QuietStep
<1>6. CASE Restart(n)
  <2>1. /\ epoch' = epoch /\ voted' = voted /\ cast' = cast /\ elected' = elected
        /\ role' = [role EXCEPT ![n] = "Unattached"]
        /\ granted' = [granted EXCEPT ![n] = {}]
        /\ abandoned' = abandoned \cup (IF role[n] = "Follower" THEN {<<n, epoch[n]>>} ELSE {})
    BY <1>6 DEF Restart
  <2>2. role'[n] = "Unattached" /\ epoch[n] \in Nat
    BY <1>1, <2>1 DEF TypeOK
  <2>3. \A p \in Node \ {n} : role'[p] = role[p] /\ granted'[p] = granted[p]
    BY <2>1 DEF ElectionInv, TypeOK
  <2>4. role[n] = "Follower" => <<n, epoch[n]>> \in abandoned'
    BY <2>1
  <2>5. ASSUME NEW k \in msgs'
        PROVE  \/ k \in msgs
               \/ \E j \in msgs : /\ j.type \in {"Vote", "Fetch"} /\ k = [j EXCEPT !.live = FALSE]
    BY <1>6 DEF Restart
  <2>6. \A k \in msgs' : k.type = "Vote" =>
          \E j \in msgs : j.type = "Vote" /\ j.from = k.from /\ j.epoch = k.epoch /\ j.pre = k.pre
    <3> SUFFICES ASSUME NEW k \in msgs', k.type = "Vote", NEW j \in msgs,
                        j.type \in {"Vote", "Fetch"}, k = [j EXCEPT !.live = FALSE]
                 PROVE  j.type = "Vote" /\ j.from = k.from /\ j.epoch = k.epoch /\ j.pre = k.pre
      BY <2>5
    <3>1. j \in VoteMsg \/ j \in FetchMsg
      BY <1>1, MessageByType DEF TypeOK
    <3>2. QED
      BY <3>1 DEF VoteMsg, FetchMsg
  <2>7. \A k \in msgs' : k.type = "VoteResp" => k \in msgs
    <3> SUFFICES ASSUME NEW k \in msgs', k.type = "VoteResp", NEW j \in msgs,
                        j.type \in {"Vote", "Fetch"}, k = [j EXCEPT !.live = FALSE]
                 PROVE  FALSE
      BY <2>5
    <3>1. j \in VoteMsg \/ j \in FetchMsg
      BY <1>1, MessageByType DEF TypeOK
    <3>2. QED
      BY <3>1 DEF VoteMsg, FetchMsg
  <2>8. epoch'[n] >= epoch[n] /\ abandoned \subseteq abandoned'
    BY <2>1, <2>2
  <2>9. QED
    BY <2>1, <2>2, <2>3, <2>4, <2>6, <2>7, <2>8, NoVoteCast
<1>7. QED
  BY <1>2, <1>3, <1>4, <1>5, <1>6 DEF Timer

\* Leaving for a later epoch, or following a leader, casts no vote.
LEMMA MovesOn ==
  ASSUME ElectionInv, TypeOK', LeaderKnown', NEW n \in Node, NEW e \in Nat, NEW r, NEW ms,
         e >= epoch[n], e = epoch[n] => r = "Follower", r # "Candidate",
         epoch' = [epoch EXCEPT ![n] = e],
         voted' = [voted EXCEPT ![n] = Nil],
         role' = [role EXCEPT ![n] = r],
         granted' = [granted EXCEPT ![n] = {}],
         UNCHANGED histVars, msgs' \subseteq msgs \cup ms,
         \A k \in ms : k.type # "Vote" /\ (k.type = "VoteResp" => ~k.granted)
  PROVE  ElectionInv'
<1>1. cast' = cast /\ elected' = elected /\ abandoned' = abandoned
  BY DEF histVars
<1>a. /\ epoch \in [Node -> Nat] /\ voted \in [Node -> Node \cup {Nil}]
      /\ role \in [Node -> Role] /\ granted \in [Node -> SUBSET Node]
  BY ZenonT(120) DEF ElectionInv, TypeOK
<1>2. \A p \in Node \ {n} : /\ epoch'[p] = epoch[p] /\ voted'[p] = voted[p]
                            /\ role'[p] = role[p] /\ granted'[p] = granted[p]
  BY <1>a
<1>3. epoch'[n] = e /\ role'[n] = r
  BY <1>a
<1>4. \A k \in msgs' : k.type = "Vote" => k \in msgs
  OBVIOUS
<1>5. \A k \in msgs' : (k.type = "VoteResp" /\ k.granted) => k \in msgs
  OBVIOUS
<1>6. QED
  BY <1>1, <1>2, <1>3, <1>4, <1>5, NoVoteCast, ZenonT(120)

\* A binding vote: the only one of its epoch, unless a leader of it was abandoned.
LEMMA ElectionGrant ==
  ASSUME ElectionInv, TypeOK', LeaderKnown', NEW n \in Node, NEW m \in msgs,
         m.type = "Vote", m.to = n, GrantVote(n, m)
  PROVE  ElectionInv'
<1>1. m.epoch \in Nat /\ m.from \in Node /\ m.pre \in BOOLEAN
  BY MessageByType, ZenonT(120) DEF ElectionInv, TypeOK, VoteMsg
<1>2. /\ ~m.pre /\ m.epoch >= epoch[n]
      /\ m.epoch = epoch[n] => leader[n] = Nil /\ voted[n] \in {Nil, m.from}
      /\ elected' = elected /\ abandoned' = abandoned
      /\ cast' = [cast EXCEPT ![n] = cast[n] \cup {<<m.epoch, m.from>>}]
      /\ epoch' = [epoch EXCEPT ![n] = m.epoch]
      /\ voted' = [voted EXCEPT ![n] = m.from]
      /\ role' = [role EXCEPT ![n] = "Voted"]
      /\ granted' = [granted EXCEPT ![n] = {}]
      /\ msgs' \subseteq msgs \cup VoteReply(m, m.epoch, TRUE)
  BY InFlight, ZenonT(120) DEF GrantVote, MayGrant
<1>3. /\ epoch \in [Node -> Nat] /\ voted \in [Node -> Node \cup {Nil}]
      /\ role \in [Node -> Role] /\ granted \in [Node -> SUBSET Node]
      /\ cast \in [Node -> SUBSET (Nat \X Node)]
      /\ msgs \subseteq Message /\ msgs' \subseteq Message
  BY ZenonT(120) DEF ElectionInv, TypeOK
<1>4. \A p \in Node \ {n} : /\ epoch'[p] = epoch[p] /\ voted'[p] = voted[p]
                            /\ role'[p] = role[p] /\ granted'[p] = granted[p]
                            /\ cast'[p] = cast[p]
  BY <1>2, <1>3
<1>5. /\ epoch'[n] = m.epoch /\ voted'[n] = m.from /\ role'[n] = "Voted"
      /\ cast'[n] = cast[n] \cup {<<m.epoch, m.from>>}
  BY <1>2, <1>3
<1>6. \A v \in Node : \A a \in cast[v] : a[1] \in Nat /\ a[2] \in Node /\ a = <<a[1], a[2]>>
  BY <1>3
<1>7. \A p \in Node : epoch[p] \in Nat /\ epoch'[p] \in Nat /\ epoch[p] <= epoch'[p]
  BY <1>1, <1>2, <1>3, <1>4, <1>5
\* The vote this one would clash with is the same vote.
<1>8. \A a \in cast[n] : a[1] = m.epoch => a = <<m.epoch, m.from>> \/ <<n, m.epoch>> \in abandoned
  <2> SUFFICES ASSUME NEW a \in cast[n], a[1] = m.epoch, <<n, m.epoch>> \notin abandoned
               PROVE  a = <<m.epoch, m.from>>
    OBVIOUS
  <2>1. m.epoch = epoch[n]
    BY <1>1, <1>2, <1>6, <1>7 DEF ElectionInv, VotesBelowEpoch
  <2>2. role[n] # "Follower"
    BY <1>2, <2>1, NodeAssumption DEF ElectionInv, LeaderKnown
  <2>3. voted[n] = a[2] /\ a[2] # Nil
    BY <1>6, <2>1, <2>2, NodeAssumption DEF ElectionInv, VoteStands
  <2>4. QED
    BY <1>2, <1>6, <2>1, <2>3
<1>9. VotesBelowEpoch'
  <2> SUFFICES ASSUME NEW v \in Node, NEW a \in cast'[v] PROVE a[1] <= epoch'[v]
    BY DEF VotesBelowEpoch
  <2>1. CASE a \in cast[v]
    BY <1>6, <1>7, <2>1 DEF ElectionInv, VotesBelowEpoch
  <2>2. CASE v = n /\ a = <<m.epoch, m.from>>
    <3>1. a[1] = m.epoch /\ epoch'[v] = m.epoch
      BY <1>5, <2>2, ZenonT(120)
    <3>2. QED
      BY <1>1, <3>1
  <2>3. QED
    BY <1>4, <1>5, <2>1, <2>2
<1>10. VoteStands'
  <2> SUFFICES ASSUME NEW v \in Node, NEW a \in cast'[v], a[1] = epoch'[v],
                      <<v, epoch'[v]>> \notin abandoned'
               PROVE  voted'[v] = a[2] \/ role'[v] = "Follower"
    BY DEF VoteStands
  <2>1. CASE v # n
    BY <1>2, <1>4, <2>1 DEF ElectionInv, VoteStands
  <2>2. CASE v = n
    <3>1. a = <<m.epoch, m.from>>
      BY <1>2, <1>5, <1>8, <2>2
    <3>2. QED
      BY <1>5, <2>2, <3>1, ZenonT(120)
  <2>3. QED
    BY <2>1, <2>2
<1>11. OneVotePerEpochUnlessAbandoned'
  <2> SUFFICES ASSUME NEW v \in Node, NEW a \in cast'[v], NEW b \in cast'[v], a[1] = b[1]
               PROVE  a = b \/ <<v, a[1]>> \in abandoned'
    BY DEF OneVotePerEpochUnlessAbandoned
  <2>1. CASE a \in cast[v] /\ b \in cast[v]
    BY <1>2, <2>1 DEF ElectionInv, OneVotePerEpochUnlessAbandoned
  <2>2. CASE v = n /\ (a = <<m.epoch, m.from>> \/ b = <<m.epoch, m.from>>)
    <3>1. /\ a \in cast[n] \/ a = <<m.epoch, m.from>>
          /\ b \in cast[n] \/ b = <<m.epoch, m.from>>
      BY <1>5, <2>2, ZenonT(120)
    <3>2. a[1] = m.epoch /\ b[1] = m.epoch
      BY <2>2
    <3>3. QED
      BY <1>2, <1>8, <2>2, <3>1, <3>2, ZenonT(120)
  <2>3. QED
    BY <1>4, <1>5, <2>1, <2>2
<1>12. RequestsPrecedeCandidacy'
  <2> SUFFICES ASSUME NEW k \in msgs', k.type = "Vote"
               PROVE  /\ k.epoch <= epoch'[k.from]
                      /\ k.pre /\ role'[k.from] = "Candidate" => k.epoch < epoch'[k.from]
    BY DEF RequestsPrecedeCandidacy
  <2>1. k \in msgs
    BY <1>2 DEF VoteReply
  <2>2. k.from \in Node /\ k.epoch \in Nat
    BY <1>3, MessageByType DEF VoteMsg
  <2>3. /\ k.epoch <= epoch[k.from]
        /\ k.pre /\ role[k.from] = "Candidate" => k.epoch < epoch[k.from]
    BY <2>1, ZenonT(120) DEF ElectionInv, RequestsPrecedeCandidacy
  <2>4. role'[k.from] = "Candidate" => role[k.from] = "Candidate" /\ epoch'[k.from] = epoch[k.from]
    BY <1>4, <1>5, <2>2, ZenonT(120)
  <2>5. epoch[k.from] \in Nat /\ epoch'[k.from] \in Nat /\ epoch[k.from] <= epoch'[k.from]
    BY <1>7, <2>2, ZenonT(120)
  <2>6. k.epoch <= epoch[k.from] => k.epoch <= epoch'[k.from]
    BY <2>2, <2>5
  <2>7. QED
    BY <2>3, <2>4, <2>6, ZenonT(120)
<1>13. GrantsAreVotes'
  <2> SUFFICES ASSUME NEW k \in msgs', k.type = "VoteResp", k.granted
               PROVE  IF k.pre THEN /\ k.epoch <= epoch'[k.to]
                                    /\ role'[k.to] = "Candidate" => k.epoch < epoch'[k.to]
                               ELSE <<k.epoch, k.to>> \in cast'[k.from]
    BY DEF GrantsAreVotes
  <2>1. k.to \in Node /\ k.from \in Node /\ k.epoch \in Nat
    BY <1>3, MessageByType DEF VoteRespMsg
  <2>2. CASE k \in msgs
    <3>1. IF k.pre THEN /\ k.epoch <= epoch[k.to]
                        /\ role[k.to] = "Candidate" => k.epoch < epoch[k.to]
                   ELSE <<k.epoch, k.to>> \in cast[k.from]
      BY <2>2, ZenonT(120) DEF ElectionInv, GrantsAreVotes
    <3>2. cast[k.from] \subseteq cast'[k.from]
      BY <1>4, <1>5, <2>1, ZenonT(120)
    <3>3. role'[k.to] = "Candidate" => role[k.to] = "Candidate" /\ epoch'[k.to] = epoch[k.to]
      BY <1>4, <1>5, <2>1, ZenonT(120)
    <3>4. epoch[k.to] \in Nat /\ epoch'[k.to] \in Nat /\ epoch[k.to] <= epoch'[k.to]
      BY <1>7, <2>1, ZenonT(120)
    <3>5. k.epoch <= epoch[k.to] => k.epoch <= epoch'[k.to]
      BY <2>1, <3>4
    <3>6. QED
      BY <3>1, <3>2, <3>3, <3>5, ZenonT(120)
  <2>3. CASE k \in VoteReply(m, m.epoch, TRUE)
    <3>1. k.from = n /\ k.to = m.from /\ k.epoch = m.epoch /\ k.pre = m.pre
      BY <2>3 DEF VoteReply
    <3>2. QED
      BY <1>2, <1>5, <3>1
  <2>4. QED
    BY <1>2, <2>2, <2>3, ZenonT(120)
<1>14. CountedVotesWereCast'
  <2> SUFFICES ASSUME NEW p \in Node, role'[p] = "Candidate", NEW v \in granted'[p]
               PROVE  <<epoch'[p], p>> \in cast'[v]
    BY DEF CountedVotesWereCast
  <2>1. p # n /\ v \in Node
    BY <1>3, <1>4, <1>5, ZenonT(120)
  <2>2. QED
    BY <1>4, <1>5, <2>1, ZenonT(120) DEF ElectionInv, CountedVotesWereCast
<1>15. ElectedByMajority'
  <2> SUFFICES ASSUME NEW w \in elected
               PROVE  Cardinality({v \in Node : w \in cast'[v]}) >= Majority
    BY <1>2, ZenonT(120) DEF ElectedByMajority
  <2>1. {v \in Node : w \in cast[v]} \subseteq {v \in Node : w \in cast'[v]}
    BY <1>4, <1>5
  <2>2. Cardinality({v \in Node : w \in cast[v]}) >= Majority
    BY DEF ElectionInv, ElectedByMajority
  <2>3. QED
    BY <2>1, <2>2, MoreVoters
<1>16. QED
  BY <1>9, <1>10, <1>11, <1>12, <1>13, <1>14, <1>15 DEF ElectionInv

\* Vote requests, pre-vote and binding.
LEMMA ElectionVoteRequest ==
  ASSUME ElectionInv, TypeOK', LeaderKnown', NEW n \in Node, NEW m \in msgs,
         ReceiveVoteRequest(n, m)
  PROVE  ElectionInv'
<1>1. m.epoch \in Nat /\ m.from \in Node /\ m.type = "Vote" /\ m.to = n
  BY MessageByType, ZenonT(120) DEF ElectionInv, TypeOK, VoteMsg, ReceiveVoteRequest
<1>2. epoch[n] \in Nat /\ epoch[m.from] \in Nat
  BY <1>1, ZenonT(120) DEF ElectionInv, TypeOK
<1>3. CASE FenceVote(n, m)
  <2>1. msgs' \subseteq msgs \cup VoteReply(m, epoch[n], FALSE)
    BY <1>3, InFlight, ZenonT(120) DEF FenceVote
  <2>2. \A k \in VoteReply(m, epoch[n], FALSE) : k.type = "VoteResp" /\ ~k.granted
    BY DEF VoteReply
  <2>3. UNCHANGED <<quorumVars, histVars>>
    BY <1>3 DEF FenceVote
  <2>4. QED
    BY <2>1, <2>2, <2>3, QuietStep, ZenonT(120)
<1>4. CASE AnswerPreVote(n, m)
  <2> DEFINE yes == LogIsUpToDate(n, m.lastEpoch, m.lastOffset) /\ leader[n] = Nil
             reply == VoteReply(m, epoch[n], yes)
  <2>1. msgs' \subseteq msgs \cup reply
    BY <1>4, InFlight, ZenonT(120) DEF AnswerPreVote
  <2>2. \A k \in reply : k.type = "VoteResp" /\ k.to = m.from /\ k.epoch = epoch[n] /\ k.pre = m.pre
    BY DEF VoteReply
  <2> HIDE DEF reply
  <2>3. m.pre /\ m.epoch >= epoch[n] /\ UNCHANGED <<quorumVars, histVars>>
    BY <1>4, ZenonT(120) DEF AnswerPreVote
  <2>4. /\ epoch[n] <= epoch[m.from]
        /\ role[m.from] = "Candidate" => epoch[n] < epoch[m.from]
    BY <1>1, <1>2, <2>3 DEF ElectionInv, RequestsPrecedeCandidacy
  <2>5. QED
    BY <2>1, <2>2, <2>3, <2>4, QuietStep, ZenonT(120)
<1>5. CASE GrantVote(n, m)
  BY <1>1, <1>5, ElectionGrant
<1>6. CASE DenyVote(n, m)
  <2>1. msgs' \subseteq msgs \cup VoteReply(m, m.epoch, FALSE)
    BY <1>6, InFlight, ZenonT(120) DEF DenyVote
  <2>2. \A k \in VoteReply(m, m.epoch, FALSE) : k.type = "VoteResp" /\ ~k.granted
    BY DEF VoteReply
  <2>3. CASE m.epoch > epoch[n]
    <3>1. TransitionToUnattached(n, m.epoch) /\ UNCHANGED histVars
      BY <1>6, <2>3 DEF DenyVote
    <3>2. m.epoch >= epoch[n] /\ m.epoch # epoch[n]
      BY <1>1, <1>2, <2>3
    <3>3. QED
      BY <1>1, <2>1, <2>2, <3>1, <3>2, MovesOn, ZenonT(120) DEF TransitionToUnattached
  <2>4. CASE ~(m.epoch > epoch[n])
    <3>1. UNCHANGED <<quorumVars, histVars>>
      BY <1>6, <2>4 DEF DenyVote
    <3>2. QED
      BY <2>1, <2>2, <3>1, QuietStep, ZenonT(120)
  <2>5. QED
    BY <2>3, <2>4
<1>7. QED
  BY <1>3, <1>4, <1>5, <1>6 DEF ReceiveVoteRequest

\* A majority of pre-votes opens a binding round in a fresh epoch.
LEMMA ElectionCandidacy ==
  ASSUME ElectionInv, TypeOK', LeaderKnown', NEW n \in Node, NEW m \in msgs,
         PromoteToCandidate(n, m)
  PROVE  ElectionInv'
<1> DEFINE e == epoch[n] + 1
<1>1. /\ epoch \in [Node -> Nat] /\ voted \in [Node -> Node \cup {Nil}]
      /\ role \in [Node -> Role] /\ granted \in [Node -> SUBSET Node]
      /\ cast \in [Node -> SUBSET (Nat \X Node)]
      /\ msgs \subseteq Message /\ msgs' \subseteq Message
  BY ZenonT(120) DEF ElectionInv, TypeOK
<1>2. /\ elected' = elected /\ abandoned' = abandoned
      /\ cast' = [cast EXCEPT ![n] = cast[n] \cup {<<e, n>>}]
      /\ epoch' = [epoch EXCEPT ![n] = e]
      /\ voted' = [voted EXCEPT ![n] = n]
      /\ role' = [role EXCEPT ![n] = "Candidate"]
      /\ granted' = [granted EXCEPT ![n] = {n}]
      /\ msgs' \subseteq msgs \cup VoteRequests(n, e, FALSE, log[n])
  BY InFlight, ZenonT(120) DEF PromoteToCandidate
<1>3. \A p \in Node \ {n} : /\ epoch'[p] = epoch[p] /\ voted'[p] = voted[p]
                            /\ role'[p] = role[p] /\ granted'[p] = granted[p]
                            /\ cast'[p] = cast[p]
  BY <1>1, <1>2
<1>4. /\ epoch'[n] = e /\ voted'[n] = n /\ role'[n] = "Candidate" /\ granted'[n] = {n}
      /\ cast'[n] = cast[n] \cup {<<e, n>>}
  BY <1>1, <1>2
<1>5. \A v \in Node : \A a \in cast[v] : a[1] \in Nat
  BY <1>1
<1>b. epoch[n] \in Nat /\ e \in Nat /\ epoch[n] < e /\ epoch[n] <= e
  BY <1>1
<1> HIDE DEF e
<1>6. /\ \A p \in Node : epoch[p] \in Nat /\ epoch'[p] \in Nat /\ epoch[p] <= epoch'[p]
      /\ epoch[n] < e
  <2>1. ASSUME NEW p \in Node
        PROVE  epoch[p] \in Nat /\ epoch'[p] \in Nat /\ epoch[p] <= epoch'[p]
    <3>1. epoch[p] \in Nat
      BY <1>1, ZenonT(120)
    <3>2. CASE p = n
      BY <1>4, <1>b, <3>2, ZenonT(120)
    <3>3. CASE p # n
      BY <1>3, <3>1, <3>3
    <3>4. QED
      BY <3>2, <3>3, ZenonT(120)
  <2>2. QED
    BY <1>b, <2>1, ZenonT(120)
<1>7. \A a \in cast[n] : a[1] # e
  <2>1. ASSUME NEW a \in cast[n] PROVE a[1] # e
    <3>1. a[1] <= epoch[n]
      BY ZenonT(120) DEF ElectionInv, VotesBelowEpoch
    <3>2. QED
      BY <1>b, <3>1
  <2>2. QED
    BY <2>1, ZenonT(120)
<1>8. VotesBelowEpoch'
  <2> SUFFICES ASSUME NEW v \in Node, NEW a \in cast'[v] PROVE a[1] <= epoch'[v]
    BY DEF VotesBelowEpoch
  <2>1. CASE a \in cast[v]
    <3>1. /\ a[1] <= epoch[v] /\ a[1] \in Nat
          /\ epoch[v] \in Nat /\ epoch'[v] \in Nat /\ epoch[v] <= epoch'[v]
      BY <1>5, <1>6, <2>1, ZenonT(120) DEF ElectionInv, VotesBelowEpoch
    <3>2. QED
      BY <3>1
  <2>2. CASE v = n /\ a = <<e, n>>
    <3>1. a[1] = e /\ epoch'[v] = e
      BY <1>4, <2>2, ZenonT(120)
    <3>2. QED
      BY <1>b, <3>1
  <2>3. QED
    BY <1>3, <1>4, <2>1, <2>2, ZenonT(120)
<1>9. VoteStands'
  <2> SUFFICES ASSUME NEW v \in Node, NEW a \in cast'[v], a[1] = epoch'[v],
                      <<v, epoch'[v]>> \notin abandoned'
               PROVE  voted'[v] = a[2] \/ role'[v] = "Follower"
    BY DEF VoteStands
  <2>1. CASE v # n
    <3>1. /\ a \in cast[v] /\ a[1] = epoch[v] /\ <<v, epoch[v]>> \notin abandoned
          /\ voted'[v] = voted[v] /\ role'[v] = role[v]
      BY <1>2, <1>3, <2>1
    <3>2. QED
      BY <3>1, ZenonT(120) DEF ElectionInv, VoteStands
  <2>2. CASE v = n
    <3>1. a = <<e, n>>
      BY <1>4, <1>7, <2>2, ZenonT(120)
    <3>2. QED
      BY <1>4, <2>2, <3>1, ZenonT(120)
  <2>3. QED
    BY <2>1, <2>2, ZenonT(120)
<1>10. OneVotePerEpochUnlessAbandoned'
  <2> SUFFICES ASSUME NEW v \in Node, NEW a \in cast'[v], NEW b \in cast'[v], a[1] = b[1]
               PROVE  a = b \/ <<v, a[1]>> \in abandoned'
    BY DEF OneVotePerEpochUnlessAbandoned
  <2>1. CASE a \in cast[v] /\ b \in cast[v]
    BY <1>2, <2>1, ZenonT(120) DEF ElectionInv, OneVotePerEpochUnlessAbandoned
  <2>2. CASE v = n /\ (a = <<e, n>> \/ b = <<e, n>>)
    <3>1. a[1] = e /\ b[1] = e
      BY <2>2
    <3>2. a = <<e, n>> /\ b = <<e, n>>
      BY <1>4, <1>7, <2>2, <3>1, ZenonT(120)
    <3>3. QED
      BY <3>2, ZenonT(120)
  <2>3. QED
    BY <1>3, <1>4, <2>1, <2>2, ZenonT(120)
<1>11. RequestsPrecedeCandidacy'
  <2> SUFFICES ASSUME NEW k \in msgs', k.type = "Vote"
               PROVE  /\ k.epoch <= epoch'[k.from]
                      /\ k.pre /\ role'[k.from] = "Candidate" => k.epoch < epoch'[k.from]
    BY DEF RequestsPrecedeCandidacy
  <2>1. k.from \in Node /\ k.epoch \in Nat
    BY <1>1, MessageByType DEF VoteMsg
  <2>2. CASE k \in msgs
    <3>1. /\ k.epoch <= epoch[k.from]
          /\ k.pre /\ role[k.from] = "Candidate" => k.epoch < epoch[k.from]
      BY <2>2, ZenonT(120) DEF ElectionInv, RequestsPrecedeCandidacy
    <3>2. /\ epoch[k.from] \in Nat /\ epoch'[k.from] \in Nat
          /\ epoch[k.from] <= epoch'[k.from]
      BY <1>6, <2>1, ZenonT(120)
    <3>3. \/ role'[k.from] = role[k.from] /\ epoch'[k.from] = epoch[k.from]
          \/ epoch[k.from] < epoch'[k.from]
      BY <1>3, <1>4, <1>b, <2>1, ZenonT(120)
    <3>4. k.epoch <= epoch[k.from]
      BY <3>1, ZenonT(120)
    <3>5. /\ k.epoch <= epoch'[k.from]
          /\ epoch[k.from] < epoch'[k.from] => k.epoch < epoch'[k.from]
      BY <2>1, <3>2, <3>4
    <3>6. QED
      BY <3>1, <3>3, <3>5, ZenonT(120)
  <2>3. CASE k \in VoteRequests(n, e, FALSE, log[n])
    <3>1. k.from = n /\ k.epoch = e /\ ~k.pre
      BY <2>3 DEF VoteRequests
    <3>2. QED
      BY <1>4, <1>6, <3>1
  <2>4. QED
    BY <1>2, <2>2, <2>3, ZenonT(120)
<1>12. GrantsAreVotes'
  <2> SUFFICES ASSUME NEW k \in msgs', k.type = "VoteResp", k.granted
               PROVE  IF k.pre THEN /\ k.epoch <= epoch'[k.to]
                                    /\ role'[k.to] = "Candidate" => k.epoch < epoch'[k.to]
                               ELSE <<k.epoch, k.to>> \in cast'[k.from]
    BY DEF GrantsAreVotes
  <2>1. k.to \in Node /\ k.from \in Node /\ k.epoch \in Nat
    BY <1>1, MessageByType DEF VoteRespMsg
  <2>2. k \in msgs
    <3>1. \A q \in VoteRequests(n, e, FALSE, log[n]) : q.type = "Vote"
      BY VotesAsked, ZenonT(120)
    <3>2. k \in msgs \/ k.type = "Vote"
      BY <1>2, <3>1, ZenonT(120)
    <3>3. QED
      BY <3>2
  <2>3. IF k.pre THEN /\ k.epoch <= epoch[k.to]
                      /\ role[k.to] = "Candidate" => k.epoch < epoch[k.to]
                 ELSE <<k.epoch, k.to>> \in cast[k.from]
    BY <2>2, ZenonT(120) DEF ElectionInv, GrantsAreVotes
  <2>4. cast[k.from] \subseteq cast'[k.from]
    BY <1>3, <1>4, <2>1, ZenonT(120)
  <2>5. epoch[k.to] \in Nat /\ epoch'[k.to] \in Nat /\ epoch[k.to] <= epoch'[k.to]
    BY <1>6, <2>1, ZenonT(120)
  <2>6. \/ role'[k.to] = role[k.to] /\ epoch'[k.to] = epoch[k.to]
        \/ epoch[k.to] < epoch'[k.to]
    BY <1>3, <1>4, <1>b, <2>1, ZenonT(120)
  <2>7. k.epoch <= epoch[k.to] =>
          /\ k.epoch <= epoch'[k.to]
          /\ epoch[k.to] < epoch'[k.to] => k.epoch < epoch'[k.to]
    BY <2>1, <2>5
  <2>8. QED
    BY <2>3, <2>4, <2>6, <2>7, ZenonT(120)
<1>13. CountedVotesWereCast'
  <2> SUFFICES ASSUME NEW p \in Node, role'[p] = "Candidate", NEW v \in granted'[p]
               PROVE  <<epoch'[p], p>> \in cast'[v]
    BY ZenonT(120) DEF CountedVotesWereCast
  <2>1. CASE p = n
    BY <1>4, <2>1
  <2>2. CASE p # n
    <3>1. v \in Node /\ <<epoch[p], p>> \in cast[v]
      BY <1>1, <1>3, <2>2, ZenonT(120) DEF ElectionInv, CountedVotesWereCast
    <3>2. QED
      BY <1>3, <1>4, <2>2, <3>1
  <2>3. QED
    BY <2>1, <2>2, ZenonT(120)
<1>14. ElectedByMajority'
  <2> SUFFICES ASSUME NEW w \in elected
               PROVE  Cardinality({v \in Node : w \in cast'[v]}) >= Majority
    BY <1>2 DEF ElectedByMajority
  <2>0. \A v \in Node : cast[v] \subseteq cast'[v]
    BY <1>3, <1>4, ZenonT(120)
  <2>1. {v \in Node : w \in cast[v]} \subseteq {v \in Node : w \in cast'[v]}
    BY <2>0, ZenonT(120)
  <2>2. Cardinality({v \in Node : w \in cast[v]}) >= Majority
    BY DEF ElectionInv, ElectedByMajority
  <2>3. QED
    BY <2>1, <2>2, MoreVoters
<1>15. QED
  BY <1>8, <1>9, <1>10, <1>11, <1>12, <1>13, <1>14 DEF ElectionInv

\* A grant counted in a round: a vote of that round, so that a majority of them
\* elects.
LEMMA ElectionCount ==
  ASSUME ElectionInv, TypeOK', LeaderKnown', NEW n \in Node, NEW m \in msgs,
         m.type = "VoteResp", m.to = n, CountVote(n, m)
  PROVE  ElectionInv'
<1> DEFINE votes == granted[n] \cup {m.from}
<1>1. /\ epoch \in [Node -> Nat] /\ role \in [Node -> Role]
      /\ granted \in [Node -> SUBSET Node]
      /\ cast \in [Node -> SUBSET (Nat \X Node)]
      /\ msgs \subseteq Message /\ msgs' \subseteq Message
  BY ZenonT(120) DEF ElectionInv, TypeOK
<1>2. m.from \in Node /\ m.epoch \in Nat /\ m.granted /\ m.epoch = epoch[n]
  BY <1>1, MessageByType DEF VoteRespMsg, CountVote, CountsInRound
<1>3. role[n] = "Candidate" => \A v \in votes : v \in Node /\ <<epoch[n], n>> \in cast[v]
  <2> SUFFICES ASSUME role[n] = "Candidate", NEW v \in votes
               PROVE  v \in Node /\ <<epoch[n], n>> \in cast[v]
    OBVIOUS
  <2>1. CASE v \in granted[n]
    BY <1>1, <2>1 DEF ElectionInv, CountedVotesWereCast
  <2>2. CASE v = m.from
    BY <1>1, <1>2, <2>2 DEF ElectionInv, GrantsAreVotes
  <2>3. QED
    BY <2>1, <2>2
<1>4. CASE PromoteToCandidate(n, m)
  BY <1>4, ElectionCandidacy
<1>5. CASE PromoteToLeader(n, m) /\ role[n] = "Candidate" /\ Cardinality(votes) >= Majority
  <2>1. /\ epoch' = epoch /\ voted' = voted /\ cast' = cast /\ abandoned' = abandoned
        /\ role' = [role EXCEPT ![n] = "Leader"]
        /\ granted' = [granted EXCEPT ![n] = {}]
        /\ elected' = elected \cup {<<epoch[n], n>>}
        /\ msgs' \subseteq msgs \cup BeginRequests(n, epoch[n])
    BY <1>5, InFlight, ZenonT(120) DEF PromoteToLeader
  <2>2. role'[n] = "Leader" /\ \A p \in Node \ {n} : role'[p] = role[p] /\ granted'[p] = granted[p]
    BY <1>1, <2>1
  <2>3. VotesBelowEpoch' /\ OneVotePerEpochUnlessAbandoned'
    BY <2>1, ZenonT(120) DEF ElectionInv, VotesBelowEpoch, OneVotePerEpochUnlessAbandoned
  <2>4. VoteStands'
    BY <1>5, <2>1, <2>2, ZenonT(120) DEF ElectionInv, VoteStands
  <2>5. \A k \in msgs' : k.type \in {"Vote", "VoteResp"} => k \in msgs
    <3>1. \A q \in BeginRequests(n, epoch[n]) : q.type \notin {"Vote", "VoteResp"}
      BY DEF BeginRequests
    <3>2. QED
      BY <2>1, <3>1, ZenonT(120)
  <2>6. RequestsPrecedeCandidacy'
    <3> SUFFICES ASSUME NEW k \in msgs', k.type = "Vote"
                 PROVE  /\ k.epoch <= epoch'[k.from]
                        /\ k.pre /\ role'[k.from] = "Candidate" => k.epoch < epoch'[k.from]
      BY ZenonT(120) DEF RequestsPrecedeCandidacy
    <3>1. k.from \in Node
      BY <1>1, MessageByType DEF VoteMsg
    <3>2. QED
      BY <2>1, <2>2, <2>5, <3>1, ZenonT(120) DEF ElectionInv, RequestsPrecedeCandidacy
  <2>7. GrantsAreVotes'
    <3> SUFFICES ASSUME NEW k \in msgs', k.type = "VoteResp", k.granted
                 PROVE  IF k.pre THEN /\ k.epoch <= epoch'[k.to]
                                      /\ role'[k.to] = "Candidate" => k.epoch < epoch'[k.to]
                                 ELSE <<k.epoch, k.to>> \in cast'[k.from]
      BY ZenonT(120) DEF GrantsAreVotes
    <3>1. k.to \in Node
      BY <1>1, MessageByType DEF VoteRespMsg
    <3>2. QED
      BY <2>1, <2>2, <2>5, <3>1, ZenonT(120) DEF ElectionInv, GrantsAreVotes
  <2>8. CountedVotesWereCast'
    BY <2>1, <2>2, ZenonT(120) DEF ElectionInv, CountedVotesWereCast
  <2>9. ElectedByMajority'
    <3> SUFFICES ASSUME NEW w \in elected'
                 PROVE  Cardinality({v \in Node : w \in cast'[v]}) >= Majority
      BY DEF ElectedByMajority
    <3>1. CASE w \in elected
      BY <2>1, <3>1, ZenonT(120) DEF ElectionInv, ElectedByMajority
    <3>2. CASE w = <<epoch[n], n>>
      <4>1. votes \subseteq {v \in Node : w \in cast'[v]} /\ votes \subseteq Node
        BY <1>3, <1>5, <2>1, <3>2, ZenonT(120)
      <4>2. QED
        BY <1>5, <4>1, MoreVoters, ZenonT(120)
    <3>3. QED
      BY <2>1, <3>1, <3>2
  <2>10. QED
    BY <2>3, <2>4, <2>6, <2>7, <2>8, <2>9 DEF ElectionInv
<1>6. CASE /\ granted' = [granted EXCEPT ![n] = votes]
           /\ Consume(m, {})
           /\ UNCHANGED <<epoch, voted, leader, role, logVars, leaderVars, restarts,
                          histVars, acked>>
  <2>1. /\ epoch' = epoch /\ voted' = voted /\ role' = role /\ cast' = cast
        /\ elected' = elected /\ abandoned' = abandoned
    BY <1>6 DEF histVars
  <2>2. granted'[n] = votes /\ \A p \in Node \ {n} : granted'[p] = granted[p]
    BY <1>1, <1>6
  <2>3. msgs' \subseteq msgs
    BY <1>6 DEF Consume
  <2>4. VotesBelowEpoch' /\ OneVotePerEpochUnlessAbandoned' /\ VoteStands' /\ ElectedByMajority'
    BY <2>1, ZenonT(120) DEF ElectionInv, VotesBelowEpoch, OneVotePerEpochUnlessAbandoned, VoteStands,
                ElectedByMajority
  <2>5. RequestsPrecedeCandidacy' /\ GrantsAreVotes'
    BY <2>1, <2>3, ZenonT(120) DEF ElectionInv, RequestsPrecedeCandidacy, GrantsAreVotes
  <2>6. CountedVotesWereCast'
    BY <1>3, <2>1, <2>2, ZenonT(120) DEF ElectionInv, CountedVotesWereCast
  <2>7. QED
    BY <2>4, <2>5, <2>6 DEF ElectionInv
<1>7. role[n] \in {"Prospective", "Candidate"}
  BY ZenonT(120) DEF CountVote, CountsInRound
<1>8. QED
  BY <1>4, <1>5, <1>6, <1>7, ZenonT(120) DEF CountVote

\* Vote responses.
LEMMA ElectionVoteResponse ==
  ASSUME ElectionInv, TypeOK', LeaderKnown', NEW n \in Node, NEW m \in msgs,
         ReceiveVoteResponse(n, m)
  PROVE  ElectionInv'
<1> DEFINE none == {}
<1>1. m.epoch \in Nat /\ m.type = "VoteResp" /\ m.to = n /\ epoch[n] \in Nat
  BY MessageByType, ZenonT(120) DEF ElectionInv, TypeOK, VoteRespMsg, ReceiveVoteResponse
<1>2. (\A k : k \notin none) /\ (Consume(m, {}) => msgs' \subseteq msgs \cup none)
  BY InFlight
<1> HIDE DEF none
<1>3. CASE FencedByRejection(n, m)
  <2>1. /\ TransitionToUnattached(n, m.epoch) /\ UNCHANGED histVars /\ Consume(m, {})
        /\ m.epoch > epoch[n]
    BY <1>3 DEF FencedByRejection
  <2>2. m.epoch >= epoch[n] /\ m.epoch # epoch[n]
    BY <1>1, <2>1
  <2>3. QED
    BY <1>1, <1>2, <2>1, <2>2, MovesOn, ZenonT(120) DEF TransitionToUnattached
<1>4. CASE IgnoreVoteResponse(n, m)
  <2>1. UNCHANGED <<quorumVars, histVars>> /\ Consume(m, {})
    BY <1>4 DEF IgnoreVoteResponse
  <2>2. QED
    BY <1>2, <2>1, QuietStep, ZenonT(120)
<1>5. CASE CountVote(n, m)
  BY <1>1, <1>5, ElectionCount, ZenonT(120)
<1>6. QED
  BY <1>3, <1>4, <1>5 DEF ReceiveVoteResponse

\* Announcements and replication cast no vote.
LEMMA ElectionOther ==
  ASSUME ElectionInv, TypeOK', LeaderKnown', NEW n \in Node, NEW m \in msgs,
         ReceiveBegin(n, m) \/ ReceiveFetch(n, m) \/ ReceiveFetchResponse(n, m)
  PROVE  ElectionInv'
<1>1. epoch[n] \in Nat
  BY ZenonT(120) DEF ElectionInv, TypeOK
<1>2. ASSUME NEW ms, UNCHANGED <<quorumVars, histVars>>, Consume(m, ms),
             \A k \in ms : k.type \in {"Fetch", "FetchResp"}
      PROVE  ElectionInv'
  <2>1. msgs' \subseteq msgs \cup ms
    BY <1>2, InFlight
  <2>2. \A k \in ms : k.type # "Vote" /\ k.type # "VoteResp"
    BY <1>2
  <2>3. QED
    BY <1>2, <2>1, <2>2, QuietStep, ZenonT(120)
<1>3. CASE FollowLeader(n, m) /\ m.type = "Begin"
  <2>1. m.epoch \in Nat
    BY <1>3, MessageByType, ZenonT(120) DEF ElectionInv, TypeOK, BeginMsg
  <2>2. m.epoch >= epoch[n]
    BY <1>1, <1>3, <2>1 DEF FollowLeader, AcceptsLeader
  <2>3. msgs' \subseteq msgs \cup FetchRequests(n, m.from, log[n])
    BY <1>3, InFlight DEF FollowLeader
  <2>4. \A k \in FetchRequests(n, m.from, log[n]) : k.type = "Fetch"
    BY FetchTraffic, ZenonT(120)
  <2>5. /\ epoch' = [epoch EXCEPT ![n] = m.epoch]
        /\ voted' = [voted EXCEPT ![n] = Nil]
        /\ role' = [role EXCEPT ![n] = "Follower"]
        /\ granted' = [granted EXCEPT ![n] = {}]
        /\ UNCHANGED histVars
    BY <1>3 DEF FollowLeader
  <2>6. QED
    BY <2>1, <2>2, <2>3, <2>4, <2>5, MovesOn, ZenonT(120)
<1>4. CASE IgnoreLeader(n, m)
  <2> DEFINE none == {}
  <2>1. Consume(m, none) /\ UNCHANGED <<quorumVars, histVars>>
    BY <1>4 DEF IgnoreLeader
  <2>2. \A k \in none : k.type \in {"Fetch", "FetchResp"}
    OBVIOUS
  <2> HIDE DEF none
  <2>3. QED
    BY <1>2, <2>1, <2>2, ZenonT(120)
<1>5. CASE AnswerDiverging(n, m)
  <2> DEFINE reply == FetchReply(m, leader[n], DivergesAt(n, m), hwm'[n], << >>)
  <2>1. \A k \in reply : k.type \in {"Fetch", "FetchResp"}
    BY FetchTraffic, ZenonT(120)
  <2>2. Consume(m, reply) /\ UNCHANGED <<quorumVars, histVars>>
    BY <1>5, ZenonT(120) DEF AnswerDiverging
  <2>3. QED
    BY <1>2, <2>1, <2>2, ZenonT(120)
<1>6. CASE ServeFetch(n, m)
  <2> DEFINE reply == FetchReply(m, leader[n], NoOffset, hwm'[n], ServedRecords(log[n], m.offset))
  <2>1. \A k \in reply : k.type \in {"Fetch", "FetchResp"}
    BY FetchTraffic, ZenonT(120)
  <2>2. Consume(m, reply) /\ UNCHANGED <<quorumVars, histVars>>
    BY <1>6 DEF ServeFetch
  <2>3. QED
    BY <1>2, <2>1, <2>2, ZenonT(120)
<1>7. CASE RedirectFetch(n, m)
  <2> DEFINE some == FetchReply(m, leader[n], NoOffset, hwm[n], << >>)
             reply == IF leader[n] = Nil THEN {} ELSE some
  <2>1. \A k \in some : k.type \in {"Fetch", "FetchResp"}
    BY FetchTraffic, ZenonT(120)
  <2>2. Consume(m, reply) /\ UNCHANGED <<quorumVars, histVars>>
    BY <1>7, ZenonT(120) DEF RedirectFetch
  <2> HIDE DEF some
  <2>3. \A k \in reply : k.type \in {"Fetch", "FetchResp"}
    BY <2>1, ZenonT(120)
  <2> HIDE DEF reply
  <2>4. QED
    BY <1>2, <2>2, <2>3, ZenonT(120)
<1>8. CASE TruncateToHint(n, m)
  <2> DEFINE none == {}
  <2>1. Consume(m, none) /\ UNCHANGED <<quorumVars, histVars>>
    BY <1>8 DEF TruncateToHint
  <2>2. \A k \in none : k.type \in {"Fetch", "FetchResp"}
    OBVIOUS
  <2> HIDE DEF none
  <2>3. QED
    BY <1>2, <2>1, <2>2, ZenonT(120)
<1>9. CASE AppendFetched(n, m)
  <2>1. PICK l : Consume(m, FetchRequests(n, m.leader, l))
    BY <1>9 DEF AppendFetched
  <2>2. \A k \in FetchRequests(n, m.leader, l) : k.type \in {"Fetch", "FetchResp"}
    BY FetchTraffic, ZenonT(120)
  <2>3. UNCHANGED <<quorumVars, histVars>>
    BY <1>9 DEF AppendFetched
  <2>4. QED
    BY <1>2, <2>1, <2>2, <2>3
<1>10. QED
  BY <1>3, <1>4, <1>5, <1>6, <1>7, <1>8, <1>9
  DEF ReceiveBegin, ReceiveFetch, ReceiveFetchResponse

-----------------------------------------------------------------------------
(* The theorems.                                                           *)

\* No vote exists before the first step.
LEMMA ElectionInit == Init => ElectionInv
<1> SUFFICES ASSUME Init PROVE ElectionInv
  OBVIOUS
<1>1. TypeOK /\ LeaderKnown
  BY TypeInit
<1>2. \A v \in Node : cast[v] = {} /\ role[v] = "Unattached"
  BY DEF Init
<1>3. elected = {} /\ msgs = {}
  BY DEF Init
<1>4. QED
  BY <1>1, <1>2, <1>3, ZenonT(120)
  DEF ElectionInv, VotesBelowEpoch, VoteStands, OneVotePerEpochUnlessAbandoned,
      RequestsPrecedeCandidacy, GrantsAreVotes, CountedVotesWereCast, ElectedByMajority

\* ElectionInv is inductive.
LEMMA ElectionStep == ElectionInv /\ [Next]_vars => ElectionInv'
<1> SUFFICES ASSUME ElectionInv, [Next]_vars PROVE ElectionInv'
  OBVIOUS
<1>1. TypeOK' /\ LeaderKnown'
  BY TypeStep DEF ElectionInv
<1>2. CASE UNCHANGED vars
  <2>1. /\ UNCHANGED <<epoch, voted, role, granted, msgs, cast, elected, abandoned>>
    BY <1>2 DEF vars, quorumVars, histVars
  <2>2. QED
    BY <1>1, <2>1, ZenonT(120)
    DEF ElectionInv, VotesBelowEpoch, VoteStands, OneVotePerEpochUnlessAbandoned,
        RequestsPrecedeCandidacy, GrantsAreVotes, CountedVotesWereCast, ElectedByMajority
<1>3. ASSUME NEW n \in Node, Timer(n) \/ SubmitChange(n) \/ Restart(n) PROVE ElectionInv'
  BY <1>1, <1>3, ElectionLocal
<1>4. ASSUME NEW n \in Node, NEW m \in msgs, Deliver(n, m) PROVE ElectionInv'
  BY <1>1, <1>4, ElectionVoteRequest, ElectionVoteResponse, ElectionOther DEF Deliver
<1>5. QED
  BY <1>2, <1>3, <1>4 DEF Next

\* Two majorities of voters share a voter.
LEMMA MajoritiesMeet ==
  ASSUME NEW S \in SUBSET Node, NEW T \in SUBSET Node,
         Cardinality(S) >= Majority, Cardinality(T) >= Majority
  PROVE  \E v \in Node : v \in S /\ v \in T
<1>1. IsFiniteSet(Node) /\ IsFiniteSet(S) /\ IsFiniteSet(T)
  BY NodeAssumption, FS_Subset
<1>2. Cardinality(Node) \in Nat /\ Cardinality(S) \in Nat /\ Cardinality(T) \in Nat
  BY <1>1, FS_CardinalityType
<1>3. Cardinality(S) + Cardinality(T) > Cardinality(Node)
  BY <1>2 DEF Majority
<1>4. S \cap T # {}
  BY <1>1, <1>3, FS_MajoritiesIntersect
<1>5. QED
  BY <1>4

\* A voter of both leaders of an epoch voted twice in it, so it abandoned a leader.
LEMMA OneLeaderPerEpoch == ElectionInv => ElectionSafetyUnlessAbandoned
<1> SUFFICES ASSUME ElectionInv, NEW a \in elected, NEW b \in elected, a[1] = b[1], a # b
             PROVE  \E v \in Node : <<v, a[1]>> \in abandoned
  BY DEF ElectionSafetyUnlessAbandoned
<1> DEFINE Voters(w) == {v \in Node : w \in cast[v]}
<1>1. Cardinality(Voters(a)) >= Majority /\ Cardinality(Voters(b)) >= Majority
  BY DEF ElectionInv, ElectedByMajority
<1>2. Voters(a) \in SUBSET Node /\ Voters(b) \in SUBSET Node
  OBVIOUS
<1>3. \E v \in Node : v \in Voters(a) /\ v \in Voters(b)
  BY <1>1, <1>2, MajoritiesMeet, ZenonT(120)
<1>4. PICK v \in Node : a \in cast[v] /\ b \in cast[v]
  BY <1>3, ZenonT(120)
<1>5. QED
  BY <1>4 DEF ElectionInv, OneVotePerEpochUnlessAbandoned

\* Every leader ever elected had the binding votes of a majority of the voters in
\* its epoch: handle_vote_response never counts a pre-vote as a vote.
THEOREM ElectedByMajorityAlways == Spec => []ElectedByMajority
<1>1. ElectionInv => ElectedByMajority
  BY DEF ElectionInv
<1>2. QED
  BY ElectionInit, ElectionStep, <1>1, PTL DEF Spec

\* A voter votes for two candidates of one epoch only after it followed a leader
\* of that epoch and then dropped it.
THEOREM OneVoteAlways == Spec => []OneVotePerEpochUnlessAbandoned
<1>1. ElectionInv => OneVotePerEpochUnlessAbandoned
  BY DEF ElectionInv
<1>2. QED
  BY ElectionInit, ElectionStep, <1>1, PTL DEF Spec

\* For any number of voters, any loss, reordering and restarts: two leaders of one
\* epoch exist only where a voter abandoned a leader of that epoch.
THEOREM ElectionSafetyAlways == Spec => []ElectionSafetyUnlessAbandoned
  BY ElectionInit, ElectionStep, OneLeaderPerEpoch, PTL DEF Spec

=============================================================================

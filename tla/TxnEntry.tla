------------------------------ MODULE TxnEntry ------------------------------
(***************************************************************************)
(* What the transaction coordinator keeps of one transactional id          *)
(* (broker/src/txn/state.rs), and the pure decisions its handlers take on  *)
(* it: the transitions of txn/decision.rs, the producer identities of      *)
(* txn/handlers/end_txn.rs, the timeout of txn/two_pc.rs.  The finalized   *)
(* transaction.version is 3 (TwoPhase).                                    *)
(***************************************************************************)
EXTENDS Integers

CONSTANTS
  MaxEpoch,     \* i16::MAX, the last producer epoch
  Partitions    \* the topic partitions a transaction may write to

ASSUME EpochAssumption == MaxEpoch \in Nat /\ MaxEpoch >= 1

NoPid == -1
NoEpoch == -1

States == {"Empty", "Ongoing", "PrepareCommit", "PrepareAbort", "CompleteCommit", "CompleteAbort"}
Prepared == {"PrepareCommit", "PrepareAbort"}
Completed == {"CompleteCommit", "CompleteAbort"}

Entry ==
  [state: States, pid: Int, epoch: -1 .. MaxEpoch, nextPid: Int, nextEpoch: -1 .. MaxEpoch,
   prevPid: Int, parts: SUBSET Partitions, twoPC: BOOLEAN]

CanTransitionToOngoing(s) == s \in {"Empty", "Ongoing"} \cup Completed

NewEmpty(id, twoPC) ==
  [state |-> "Empty", pid |-> id.pid, epoch |-> id.epoch, nextPid |-> NoPid, nextEpoch |-> NoEpoch,
   prevPid |-> NoPid, parts |-> {}, twoPC |-> twoPC]

Id(pid, epoch) == [pid |-> pid, epoch |-> epoch]

HasStagedIdentity(e) == e.nextEpoch >= 0

\* The identity of the client: the staged one, once a recovery or a completion chose it.
ClientIdentity(e) ==
  IF HasStagedIdentity(e) THEN Id(e.nextPid, e.nextEpoch) ELSE Id(e.pid, e.epoch)

\* The epoch after epoch; at the end of the epochs a fresh producer id.
NextIdentity(id, fresh) ==
  IF id.epoch < MaxEpoch - 1 THEN Id(id.pid, id.epoch + 1) ELSE Id(fresh, 0)

NextRecoveryIdentity(id, fresh) ==
  IF id.epoch < MaxEpoch THEN Id(id.pid, id.epoch + 1) ELSE Id(fresh, 0)

\* The identity a client gets when it recovers an ongoing transaction.
RecoveryIdentity(e, fresh) ==
  IF HasStagedIdentity(e) THEN NextRecoveryIdentity(ClientIdentity(e), fresh)
                          ELSE NextIdentity(ClientIdentity(e), fresh)

StageRecovery(e, fresh, twoPC) ==
  [e EXCEPT !.nextPid = RecoveryIdentity(e, fresh).pid,
            !.nextEpoch = RecoveryIdentity(e, fresh).epoch,
            !.twoPC = @ \/ twoPC]

\* Variant: the epoch of the markers may pass the last epoch.
PrepareCompletionUnbounded(e, fresh) ==
  LET next == IF HasStagedIdentity(e) THEN NextRecoveryIdentity(ClientIdentity(e), fresh)
                                      ELSE NextIdentity(ClientIdentity(e), fresh)
      stage == HasStagedIdentity(e) \/ next.pid # e.pid IN
  [e EXCEPT !.epoch = @ + 1,
            !.nextPid = IF stage THEN next.pid ELSE NoPid,
            !.nextEpoch = IF stage THEN next.epoch ELSE NoEpoch]

\* prepare_completion_identities: the markers carry the entry's own epoch, one higher than
\* the transaction's; the client continues as the completion identity, staged unless it is
\* that same identity.
PrepareCompletion(e, fresh) ==
  LET next == IF HasStagedIdentity(e) THEN NextRecoveryIdentity(ClientIdentity(e), fresh)
                                      ELSE NextIdentity(ClientIdentity(e), fresh)
      stage == HasStagedIdentity(e) \/ next.pid # e.pid IN
  [e EXCEPT !.epoch = IF @ < MaxEpoch THEN @ + 1 ELSE @,
            !.nextPid = IF stage THEN next.pid ELSE NoPid,
            !.nextEpoch = IF stage THEN next.epoch ELSE NoEpoch]

PrepareState(verdict) == IF verdict = "commit" THEN "PrepareCommit" ELSE "PrepareAbort"
CompleteState(verdict) == IF verdict = "commit" THEN "CompleteCommit" ELSE "CompleteAbort"

Prepare(e, verdict, fresh) == PrepareCompletion([e EXCEPT !.state = PrepareState(verdict)], fresh)

\* The entry once its markers are written: requestPid ended the transaction, the client
\* continues as id.
Complete(e, verdict, id, requestPid) ==
  [e EXCEPT !.state = CompleteState(verdict), !.pid = id.pid, !.epoch = id.epoch,
            !.nextPid = NoPid, !.nextEpoch = NoEpoch, !.parts = {},
            !.prevPid = IF id.pid # requestPid THEN requestPid ELSE @]

IsCompletedEndTxnRetry(e, id) ==
  \/ e.pid = id.pid /\ id.epoch < MaxEpoch /\ e.epoch = id.epoch + 1
  \/ e.prevPid = id.pid /\ id.epoch = MaxEpoch - 1 /\ e.epoch = 0

\* decide_end_txn_completion: may the handler that wrote prepared still finish it?
CompletionDecision(e, prepared, verdict) ==
  LET here == Id(e.pid, e.epoch) IN
  IF e.state = CompleteState(verdict) /\ here = ClientIdentity(prepared) THEN "AlreadyComplete"
  ELSE IF here # Id(prepared.pid, prepared.epoch) THEN "Reject"
  ELSE IF e.state = PrepareState(verdict) THEN "Proceed"
  ELSE IF e.state = CompleteState(verdict) THEN "AlreadyComplete"
  ELSE "Reject"

\* should_abort_idle_txn once the timeout has passed; a 2PC transaction has none.
ShouldAbortIdle(e) == e.state = "Ongoing" /\ ~e.twoPC

=============================================================================

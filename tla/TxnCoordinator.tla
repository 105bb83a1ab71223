--------------------------- MODULE TxnCoordinator ---------------------------
(***************************************************************************)
(* The transaction coordinator of one transactional id: the requests of    *)
(* its producers, the reaper of idle transactions, the log of              *)
(* __transaction_state, and the partitions that take the data and the      *)
(* markers (broker/src/txn, handlers/init_producer_id.rs and the           *)
(* transactional part of handlers/produce.rs).                             *)
(*                                                                         *)
(* A handler holds the entry's mutex only while it decides.  It then       *)
(* appends a copy of the entry to the log and puts a new cell with that    *)
(* copy into the coordinator's map; another handler may still hold the     *)
(* old cell, so the cells are explicit.  Between two lock sections, the    *)
(* append, the installation and every marker, other handlers run.          *)
(***************************************************************************)
EXTENDS TxnEntry, FiniteSets

CONSTANTS
  Clients,      \* producer instances that share the transactional id
  TwoPhase,     \* those that set enable2Pc
  Keeps,        \* those that set keepPreparedTxn
  Handlers,     \* requests that can be served at a time
  Reaper,       \* the handler of the idle reaper
  MaxInit,      \* bound: InitProducerId requests
  MaxTxn,       \* bound: transactions the clients begin
  Serialised,   \* the requests for the id come one after the other; see Turn
  SparesPrepared, \* no new producer instance while a transaction is prepared
  Faults,       \* the combinations of faults to consider: [crash, put, marker, reply, allocate: Nat]
  None          \* no client, handler or partition

ASSUME TxnAssumption ==
  /\ TwoPhase \subseteq Clients /\ Keeps \subseteq Clients /\ Reaper \notin Handlers /\ IsFiniteSet(Handlers)
  /\ MaxInit \in Nat /\ MaxTxn \in Nat /\ Serialised \in BOOLEAN /\ SparesPrepared \in BOOLEAN

VARIABLES
  cells,      \* the Arc<Mutex<TxnEntry>>s something refers to
  slot,       \* the one in the coordinator's map, or NoCell
  pidToTid,   \* the producer ids the coordinator maps to the transactional id
  log,        \* the last record of the id in __transaction_state, or NoEntry
  logPids,    \* the producer ids in all its records
  nextPid,    \* the next producer id of the allocator
  handler,    \* what each handler is doing
  client,     \* what each producer knows and does
  lastGiven,  \* history: was a producer ever given the last epoch?
  data,       \* the open records of each partition: [txn, pid]
  visible,    \* <<txn, partition, verdict>>: how markers resolved a transaction's records
  told,       \* <<txn, verdict>>: what EndTxn reported to the client
  begun,      \* number of transactions begun
  inits,      \* number of InitProducerId requests
  faults      \* the faults still to come

coordinator == <<cells, slot, pidToTid, log, logPids, nextPid>>
producers == <<client, lastGiven>>
vars == <<coordinator, handler, producers, data, visible, told, begun, inits, faults>>

AllHandlers == Handlers \cup {Reaper}
Verdicts == {"commit", "abort"}
Txns == 1 .. MaxTxn
NoTxn == 0
NoCell == 0
\* One cell per handler, the one in the map, and a new one.
Cells == 1 .. Cardinality(AllHandlers) + 2
NoEntry == [NewEmpty(Id(NoPid, NoEpoch), FALSE) EXCEPT !.state = "Dead"]

Idle ==
  [pc |-> "idle", op |-> "none", c |-> None, id |-> Id(NoPid, NoEpoch), txn |-> NoTxn,
   part |-> None, verdict |-> "abort", cell |-> NoCell, snap |-> NoEntry, then |-> "idle",
   left |-> {}]

NewClient ==
  [phase |-> "new", id |-> Id(NoPid, NoEpoch), txn |-> NoTxn, verdict |-> "abort", waits |-> None]

Init ==
  /\ cells = [c \in Cells |-> NoEntry]
  /\ slot = NoCell
  /\ pidToTid = {}
  /\ log = NoEntry
  /\ logPids = {}
  /\ nextPid = 1
  /\ handler = [h \in AllHandlers |-> Idle]
  /\ client = [c \in Clients |-> NewClient]
  /\ lastGiven = FALSE
  /\ data = [p \in Partitions |-> {}]
  /\ visible = {}
  /\ told = {}
  /\ begun = 0
  /\ inits = 0
  /\ faults \in Faults

-----------------------------------------------------------------------------
(* What a handler does. *)

\* A cell nothing refers to is dropped.
Sweep(cs) ==
  [x \in Cells |-> IF x = slot' \/ \E h \in AllHandlers : handler'[h].cell = x THEN cs[x] ELSE NoEntry]

Unused == CHOOSE x \in Cells : x # slot /\ \A h \in AllHandlers : handler[h].cell # x

\* The client of h gets an answer, unless it no longer waits for it.
Answer(h, answered) ==
  /\ client' = [c \in Clients |->
                  IF client[c].waits = h THEN [answered EXCEPT !.waits = None] ELSE client[c]]
  /\ lastGiven' = (lastGiven \/ \E c \in Clients : client'[c].id.epoch = MaxEpoch)

Of(h) == IF handler[h].c = None THEN NewClient ELSE client[handler[h].c]

\* The handler returns an error and leaves the cells as cs.
ErrorWith(h, cs) ==
  /\ handler' = [handler EXCEPT ![h] = Idle]
  /\ Answer(h, Of(h))
  /\ UNCHANGED slot
  /\ cells' = Sweep(cs)

\* What it did to its cell before stays.
Error(h) == ErrorWith(h, cells)

\* The handler of EndTxn reports success: the client goes on as id.
EndTxnOk(h, id) ==
  /\ handler' = [handler EXCEPT ![h] = Idle]
  /\ Answer(h, [NewClient EXCEPT !.phase = "ready", !.id = id])
  /\ told' = IF Of(h).waits = h THEN told \cup {<<handler[h].txn, handler[h].verdict>>} ELSE told

\* Under the lock h leaves e in its cell and takes a copy to persist.
Mutate(h, e, then) ==
  /\ UNCHANGED slot
  /\ handler' = [handler EXCEPT ![h].pc = "append", ![h].snap = e, ![h].then = then]
  /\ cells' = Sweep([cells EXCEPT ![handler[h].cell] = e])

Goto(h, pc) == handler' = [handler EXCEPT ![h].pc = pc]

\* The allocator handed out the next producer id, if e uses it.
Allocate(e) == nextPid' = IF nextPid \in {e.pid, e.nextPid} THEN nextPid + 1 ELSE nextPid

At(h, pc, op) == handler[h].pc = pc /\ handler[h].op = op
EntryOf(h) == cells[handler[h].cell]

-----------------------------------------------------------------------------
(* The requests of the clients. *)

\* When the requests are Serialised one handler at a time, the reaper included, decides,
\* persists and installs; others may only be writing the markers of an EndTxn or of the
\* reaper.  Nothing in the code keeps the reaper's lock section out of another handler's
\* append and installation.
Turn(h) ==
  Serialised => \A g \in AllHandlers \ {h} :
                  handler[g].pc = "idle" \/ (handler[g].pc = "markers" /\ handler[g].op # "init")

\* All but EndTxn and the reaper then also wait until no markers are being written.
Quiet == Serialised => \A g \in AllHandlers : handler[g].pc = "idle"

NotPrepared == SparesPrepared /\ slot # NoCell => cells[slot].state \notin Prepared

\* A handler h takes a request of c and looks up the entry.
Accept(h, c, op, p, pc, asking) ==
  /\ handler[h].pc = "idle" /\ client[c].waits = None /\ Turn(h)
  /\ client' = [client EXCEPT ![c] = [asking EXCEPT !.waits = h]]
  /\ handler' = [handler EXCEPT ![h] =
                   [Idle EXCEPT !.pc = pc, !.op = op, !.c = c, !.id = asking.id, !.txn = asking.txn,
                                !.part = p, !.verdict = asking.verdict, !.cell = slot]]
  /\ UNCHANGED <<coordinator, lastGiven, data, visible, told, faults>>

\* A new instance of the producer.
InitProducerId(h, c) ==
  LET op == IF c \in Keeps THEN "recover" ELSE "init" IN
  /\ inits < MaxInit /\ inits' = inits + 1
  /\ Quiet /\ (op = "init" => NotPrepared)
  /\ Accept(h, c, op, None, IF slot = NoCell THEN "fresh" ELSE "enter", NewClient)
  /\ UNCHANGED begun

\* The transaction c is in, or the one it begins.
InTransaction(c) ==
  IF client[c].phase = "ready" THEN [client[c] EXCEPT !.phase = "open", !.txn = begun + 1] ELSE client[c]

\* AddPartitionsToTxn of p; AddOffsetsToTxn and TxnOffsetCommit of the offsets partition p.
RegisterPartitions(h, c, p) ==
  /\ Quiet
  /\ client[c].phase = "open" \/ (client[c].phase = "ready" /\ begun < MaxTxn)
  /\ slot # NoCell
  /\ Accept(h, c, "register", p, "enter", InTransaction(c))
  /\ begun' = IF client[c].phase = "ready" THEN begun + 1 ELSE begun
  /\ UNCHANGED inits

\* Produce to p: unchecked if the producer id is not known here.
Produce(h, c, p) ==
  LET known == slot # NoCell /\ client[c].id.pid \in pidToTid IN
  /\ Quiet
  /\ client[c].phase = "open" \/ (client[c].phase = "ready" /\ begun < MaxTxn)
  /\ Accept(h, c, "produce", p, IF known THEN "enter" ELSE "data", InTransaction(c))
  /\ begun' = IF client[c].phase = "ready" THEN begun + 1 ELSE begun
  /\ UNCHANGED inits

\* EndTxn, or its retry with the same verdict.
EndTxn(h, c, verdict) ==
  /\ \/ client[c].phase \in {"open", "recovered"}
     \/ client[c].phase = "ending" /\ client[c].verdict = verdict
  /\ slot # NoCell
  /\ Accept(h, c, "end", None, "enter", [client[c] EXCEPT !.phase = "ending", !.verdict = verdict])
  /\ UNCHANGED <<begun, inits>>

\* The client stops waiting; the handler goes on.
GiveUp(c) ==
  /\ client[c].waits # None /\ faults.reply > 0
  /\ faults' = [faults EXCEPT !.reply = @ - 1]
  /\ client' = [client EXCEPT ![c].waits = None]
  /\ UNCHANGED <<coordinator, handler, lastGiven, data, visible, told, begun, inits>>

\* The reaper looks at the entry.
Sweeps ==
  /\ handler[Reaper].pc = "idle" /\ slot # NoCell /\ Turn(Reaper)
  /\ handler' = [handler EXCEPT ![Reaper] = [Idle EXCEPT !.pc = "enter", !.op = "reap", !.cell = slot]]
  /\ UNCHANGED <<coordinator, producers, data, visible, told, begun, inits, faults>>

-----------------------------------------------------------------------------
(* The lock sections.  Each takes the mutex of the cell the handler looked up. *)

otherVars == <<data, visible, begun, inits, faults>>

Enrol(e, p) ==
  [e EXCEPT !.state = "Ongoing", !.parts = (IF e.state \in Completed THEN {} ELSE @) \cup {p}]

MayRegister(e, id) ==
  ~HasStagedIdentity(e) /\ Id(e.pid, e.epoch) = id /\ CanTransitionToOngoing(e.state)

\* register_partitions.
EnterRegister(h) ==
  /\ At(h, "enter", "register")
  /\ MayRegister(EntryOf(h), handler[h].id)
  /\ Mutate(h, Enrol(EntryOf(h), handler[h].part), "reply")
  /\ UNCHANGED <<pidToTid, log, logPids, nextPid, producers, told, otherVars>>

MayProduce(e, id) == ~HasStagedIdentity(e) /\ e.epoch = id.epoch

\* Variant: any partition of an open transaction is taken for enrolled.
EnrolledIfOngoing(e, p) == e.state = "Ongoing"

Enrolled(e, p) == p \in e.parts /\ e.state \notin Completed

\* validate_transactional_produce finds the partition in the transaction, or adds it.
EnterProduce(h) ==
  LET e == EntryOf(h)
      p == handler[h].part IN
  /\ At(h, "enter", "produce")
  /\ MayProduce(e, handler[h].id)
  /\ \/ /\ Enrolled(e, p)
        /\ Goto(h, "data")
        /\ UNCHANGED <<cells, slot>>
     \/ /\ ~Enrolled(e, p) /\ CanTransitionToOngoing(e.state)
        /\ Mutate(h, Enrol(e, p), "data")
  /\ UNCHANGED <<pidToTid, log, logPids, nextPid, producers, told, otherVars>>

\* An EndTxn that repeats one already completed.
AlreadyEnded(e, id, verdict) == e.state = CompleteState(verdict) /\ IsCompletedEndTxnRetry(e, id)

MayEnd(e, id) == e.state \notin Prepared /\ ClientIdentity(e) = id

\* validate_end_txn.
EnterEnd(h) ==
  LET e == EntryOf(h)
      r == handler[h] IN
  /\ At(h, "enter", "end")
  /\ \/ /\ AlreadyEnded(e, r.id, r.verdict)
        /\ EndTxnOk(h, Id(e.pid, e.epoch))
        /\ UNCHANGED slot
        /\ cells' = Sweep(cells)
     \/ /\ ~AlreadyEnded(e, r.id, r.verdict) /\ MayEnd(e, r.id)
        /\ Goto(h, "prepare")
        /\ UNCHANGED <<cells, slot, producers, told>>
  /\ UNCHANGED <<pidToTid, log, logPids, nextPid, otherVars>>

\* Variant: the markers are sent before the verdict is logged.
EndTxnPrepareUnlogged(h) ==
  LET e == Prepare(EntryOf(h), handler[h].verdict, nextPid) IN
  /\ handler[h].pc = "prepare"
  /\ EntryOf(h).state = "Ongoing"
  /\ UNCHANGED slot
  /\ handler' = [handler EXCEPT ![h].pc = "markers", ![h].snap = e, ![h].left = e.parts]
  /\ cells' = Sweep([cells EXCEPT ![handler[h].cell] = e])
  /\ Allocate(e)
  /\ UNCHANGED <<pidToTid, log, logPids, producers, told, otherVars>>

\* prepare_transaction.
EndTxnPrepare(h) ==
  LET e == Prepare(EntryOf(h), handler[h].verdict, nextPid) IN
  /\ handler[h].pc = "prepare"
  /\ EntryOf(h).state = "Ongoing"
  /\ Mutate(h, e, "markers")
  /\ Allocate(e)
  /\ UNCHANGED <<pidToTid, log, logPids, producers, told, otherVars>>

\* Variant: the reaper leaves an abort alone that is prepared already.
ReaperPrepareIdleOnly ==
  LET e == Prepare(EntryOf(Reaper), "abort", nextPid)
      seen == EntryOf(Reaper) IN
  /\ At(Reaper, "enter", "reap")
  /\ \/ /\ ShouldAbortIdle(seen)
        /\ Mutate(Reaper, e, "markers")
        /\ Allocate(e)
     \/ seen.state = "PrepareAbort" /\ Error(Reaper) /\ UNCHANGED nextPid
  /\ UNCHANGED <<pidToTid, log, logPids, producers, told, otherVars>>

\* prepare_abort of the reaper: a transaction that timed out, or whose abort is to be
\* finished.
ReaperPrepare ==
  LET e == Prepare(EntryOf(Reaper), "abort", nextPid)
      seen == EntryOf(Reaper) IN
  /\ At(Reaper, "enter", "reap")
  /\ \/ /\ ShouldAbortIdle(seen)
        /\ Mutate(Reaper, e, "markers")
        /\ Allocate(e)
     \/ /\ seen.state = "PrepareAbort"
        /\ handler' = [handler EXCEPT ![Reaper].pc = "markers", ![Reaper].snap = seen,
                                      ![Reaper].left = seen.parts, ![Reaper].cell = NoCell]
        /\ UNCHANGED <<slot, nextPid>>
        /\ cells' = Sweep(cells)
  /\ UNCHANGED <<pidToTid, log, logPids, producers, told, otherVars>>

\* A producer that is new to the coordinator.
InitFresh(h) ==
  LET e == NewEmpty(Id(nextPid, 0), handler[h].c \in TwoPhase) IN
  /\ handler[h].pc = "fresh"
  /\ handler' = [handler EXCEPT ![h].pc = "append", ![h].snap = e, ![h].then = "reply"]
  /\ Allocate(e)
  /\ UNCHANGED <<cells, slot, pidToTid, log, logPids, producers, told, otherVars>>

\* InitProducerId with keepPreparedTxn: an ongoing transaction is kept, under a new
\* identity; without one it goes on like any other.  The code looks at the state again,
\* under a second lock, to answer for a prepared one; no other handler has a turn between.
EnterRecover(h) ==
  LET e == StageRecovery(EntryOf(h), nextPid, handler[h].c \in TwoPhase) IN
  /\ At(h, "enter", "recover")
  /\ \/ /\ EntryOf(h).state = "Ongoing"
        /\ Mutate(h, e, "reply")
        /\ Allocate(e)
     \/ /\ EntryOf(h).state \notin {"Ongoing"} \cup Prepared
        /\ handler' = [handler EXCEPT ![h].op = "init"]
        /\ UNCHANGED <<cells, slot, nextPid>>
  /\ UNCHANGED <<pidToTid, log, logPids, producers, told, otherVars>>

\* InitProducerId aborts an ongoing transaction first.
EnterInit(h) ==
  LET e == Prepare(EntryOf(h), "abort", nextPid) IN
  /\ At(h, "enter", "init")
  /\ \/ /\ EntryOf(h).state = "Ongoing"
        /\ UNCHANGED slot
        /\ handler' = [handler EXCEPT ![h].pc = "append", ![h].snap = e, ![h].then = "markers",
                                      ![h].id = ClientIdentity(EntryOf(h))]
        /\ cells' = [cells EXCEPT ![handler[h].cell] = e]
        /\ Allocate(e)
     \/ /\ EntryOf(h).state # "Ongoing"
        /\ Goto(h, "reinit")
        /\ UNCHANGED <<cells, slot, nextPid>>
  /\ UNCHANGED <<pidToTid, log, logPids, producers, told, otherVars>>

\* The controller does not grant a producer id that h needs: for a new producer, or for an
\* identity that follows the last epoch of one.  An entry that was to be prepared, or kept,
\* has its new state or timeout by then, and stays with it, unlogged and under the old
\* identity.
AllocationFails(h) ==
  LET e == EntryOf(h)
      r == handler[h]
      last == IF HasStagedIdentity(e) THEN MaxEpoch ELSE MaxEpoch - 1
      prepares == r.pc = "prepare" \/ At(h, "enter", "init") \/ (At(h, "enter", "reap") /\ ~e.twoPC)
      fail(changed) == ErrorWith(h, [cells EXCEPT ![r.cell] = changed]) IN
  /\ faults.allocate > 0
  /\ faults' = [faults EXCEPT !.allocate = @ - 1]
  /\ \/ r.pc = "fresh" /\ Error(h)
     \/ r.pc = "renew" /\ r.snap = NoEntry /\ ClientIdentity(e).epoch >= MaxEpoch - 1 /\ Error(h)
     \/ /\ r.cell # NoCell /\ e.state = "Ongoing" /\ ClientIdentity(e).epoch >= last
        /\ \/ prepares /\ fail([e EXCEPT !.state = PrepareState(r.verdict)])
           \/ At(h, "enter", "recover") /\ fail([e EXCEPT !.twoPC = @ \/ r.c \in TwoPhase])
  /\ UNCHANGED <<pidToTid, log, logPids, nextPid, told, data, visible, begun, inits>>

\* A check of the lock section fails: the handler returns without a change.
Refuse(h) ==
  LET e == EntryOf(h)
      id == handler[h].id IN
  /\ \/ At(h, "enter", "register") /\ ~MayRegister(e, id)
     \/ /\ At(h, "enter", "produce")
        /\ MayProduce(e, id) => ~Enrolled(e, handler[h].part) /\ ~CanTransitionToOngoing(e.state)
     \/ At(h, "enter", "end") /\ ~AlreadyEnded(e, id, handler[h].verdict) /\ ~MayEnd(e, id)
     \/ handler[h].pc = "prepare" /\ e.state # "Ongoing"
     \/ At(h, "finish", "end") /\ CompletionDecision(e, handler[h].snap, handler[h].verdict) = "Reject"
     \/ At(h, "enter", "recover") /\ e.state \in Prepared
     \/ At(h, "enter", "reap") /\ ~ShouldAbortIdle(e) /\ e.state # "PrepareAbort"
  /\ Error(h)
  /\ UNCHANGED <<pidToTid, log, logPids, nextPid, told, otherVars>>

-----------------------------------------------------------------------------
(* TxnCoordinator::put, the markers, and the second half of the handlers. *)

\* The copy is appended to __transaction_state.
AppendRecord(h) ==
  /\ handler[h].pc = "append"
  /\ log' = handler[h].snap
  /\ logPids' = logPids \cup ({handler[h].snap.pid, handler[h].snap.nextPid} \ {NoPid})
  /\ Goto(h, "install")
  /\ UNCHANGED <<cells, slot, pidToTid, nextPid, producers, told, otherVars>>

\* The append fails; the cell keeps what the handler wrote to it.
AppendFails(h) ==
  /\ handler[h].pc = "append" /\ faults.put > 0
  /\ faults' = [faults EXCEPT !.put = @ - 1]
  /\ Error(h)
  /\ UNCHANGED <<pidToTid, log, logPids, nextPid, told, data, visible, begun, inits>>

\* What the client of h learns when the last put of the handler is done.
Answered(h) ==
  CASE handler[h].op = "register" -> Of(h)
    [] handler[h].op = "init" ->
         [Of(h) EXCEPT !.phase = "ready", !.id = Id(handler[h].snap.pid, handler[h].snap.epoch)]
    [] handler[h].op = "recover" ->
         [Of(h) EXCEPT !.phase = IF handler[h].snap.state = "Ongoing" THEN "recovered" ELSE "ready",
                       !.id = ClientIdentity(handler[h].snap)]

\* The copy becomes the entry of the map, in a cell of its own.
Install(h) ==
  LET e == handler[h].snap
      new == Unused
      stays == handler[h].op = "init" IN
  /\ handler[h].pc = "install"
  /\ slot' = new
  /\ pidToTid' = {e.pid, e.nextPid} \ {NoPid}
  /\ \/ /\ handler[h].then # "reply"
        /\ handler' = [handler EXCEPT ![h].pc = handler[h].then,
                                      ![h].left = IF handler[h].then = "markers" THEN e.parts ELSE {},
                                      ![h].cell = IF stays THEN @ ELSE NoCell]
        /\ UNCHANGED <<producers, told>>
     \/ /\ handler[h].then = "reply" /\ handler[h].op \in {"end", "reap"}
        /\ EndTxnOk(h, Id(e.pid, e.epoch))
     \/ /\ handler[h].then = "reply" /\ handler[h].op \notin {"end", "reap"}
        /\ handler' = [handler EXCEPT ![h] = Idle]
        /\ Answer(h, Answered(h))
        /\ UNCHANGED told
  /\ cells' = Sweep([cells EXCEPT ![new] = e])
  /\ UNCHANGED <<log, logPids, nextPid, otherVars>>

\* The marker of one partition is appended: it resolves whatever the producer id of the
\* marker has open there.
WriteMarker(h, p) ==
  LET closed == {d \in data[p] : d.pid = handler[h].snap.pid} IN
  /\ handler[h].pc = "markers" /\ p \in handler[h].left
  /\ data' = [data EXCEPT ![p] = @ \ closed]
  /\ visible' = visible \cup {<<d.txn, p, handler[h].verdict>> : d \in closed}
  /\ handler' = [handler EXCEPT ![h].left = @ \ {p}]
  /\ UNCHANGED <<coordinator, producers, told, begun, inits, faults>>

\* A marker cannot be written, or its acknowledgement is lost; the rest are not attempted.
MarkersFail(h) ==
  /\ handler[h].pc = "markers" /\ faults.marker > 0
  /\ faults' = [faults EXCEPT !.marker = @ - 1]
  /\ Error(h)
  /\ UNCHANGED <<pidToTid, log, logPids, nextPid, told, data, visible, begun, inits>>

\* All markers are written.  EndTxn and the reaper look the entry up again; InitProducerId
\* goes back to the cell it has.
MarkersDone(h) ==
  /\ handler[h].pc = "markers" /\ handler[h].left = {} /\ Turn(h)
  /\ handler' = [handler EXCEPT ![h].pc = "finish",
                                ![h].cell = IF handler[h].op = "init" THEN @ ELSE slot]
  /\ UNCHANGED <<coordinator, producers, told, otherVars>>

\* Phase 3 of EndTxn.
EndTxnFinish(h) ==
  LET e == EntryOf(h)
      r == handler[h]
      decision == CompletionDecision(e, r.snap, r.verdict) IN
  /\ At(h, "finish", "end")
  /\ \/ /\ decision = "Proceed"
        /\ Mutate(h, Complete(e, r.verdict, ClientIdentity(r.snap), r.id.pid), "reply")
        /\ UNCHANGED <<producers, told>>
     \/ /\ decision = "AlreadyComplete"
        /\ EndTxnOk(h, Id(e.pid, e.epoch))
        /\ UNCHANGED slot
        /\ cells' = Sweep(cells)
  /\ UNCHANGED <<pidToTid, log, logPids, nextPid, otherVars>>

\* complete_abort of the reaper, unless the entry has moved on.
ReaperFinish ==
  LET e == EntryOf(Reaper)
      prepared == handler[Reaper].snap
      same == e.pid = prepared.pid /\ e.epoch = prepared.epoch /\ e.state = "PrepareAbort" IN
  /\ At(Reaper, "finish", "reap")
  /\ \/ /\ same
        /\ Mutate(Reaper, Complete(e, "abort", ClientIdentity(e), e.pid), "reply")
        /\ UNCHANGED producers
     \/ /\ ~same
        /\ Error(Reaper)
  /\ UNCHANGED <<pidToTid, log, logPids, nextPid, told, otherVars>>

\* InitProducerId completes the abort in the cell it has, whatever became of the entry.
InitFinish(h) ==
  LET e == EntryOf(h) IN
  /\ At(h, "finish", "init")
  /\ Mutate(h, Complete(e, "abort", ClientIdentity(e), handler[h].id.pid), "reinit")
  /\ UNCHANGED <<pidToTid, log, logPids, nextPid, producers, told, otherVars>>

\* It then looks up the entry again.
InitLooksUp(h) ==
  /\ handler[h].pc = "reinit"
  /\ UNCHANGED slot
  /\ handler' = [handler EXCEPT ![h].pc = "renew", ![h].cell = slot]
  /\ cells' = Sweep(cells)
  /\ UNCHANGED <<pidToTid, log, logPids, nextPid, producers, told, otherVars>>

\* Variant: an empty entry keeps its identity.
InitRenewKeepsEmpty(h) ==
  LET old == EntryOf(h)
      aborted == handler[h].snap # NoEntry \/ old.state = "Empty"
      id == IF aborted THEN Id(old.pid, old.epoch) ELSE NextIdentity(ClientIdentity(old), nextPid)
      e == NewEmpty(id, handler[h].c \in TwoPhase) IN
  /\ handler[h].pc = "renew"
  /\ Mutate(h, e, "reply")
  /\ Allocate(e)
  /\ UNCHANGED <<pidToTid, log, logPids, producers, told, otherVars>>

\* And replaces it by an empty one: with the identity the abort left, or the next one.
InitRenew(h) ==
  LET old == EntryOf(h)
      aborted == handler[h].snap # NoEntry
      id == IF aborted THEN Id(old.pid, old.epoch) ELSE NextIdentity(ClientIdentity(old), nextPid)
      e == NewEmpty(id, handler[h].c \in TwoPhase) IN
  /\ handler[h].pc = "renew"
  /\ Mutate(h, e, "reply")
  /\ Allocate(e)
  /\ UNCHANGED <<pidToTid, log, logPids, producers, told, otherVars>>

\* The records are appended to the partition, or the checks of the log refuse them.
AppendData(h) ==
  LET r == handler[h]
      d == [txn |-> r.txn, pid |-> r.id.pid] IN
  /\ r.pc = "data"
  /\ data' \in {data, [data EXCEPT ![r.part] = @ \cup {d}]}
  /\ Error(h)
  /\ UNCHANGED <<pidToTid, log, logPids, nextPid, told, visible, begun, inits, faults>>

\* The broker stops and replays __transaction_state; requests in flight are lost.
Restart ==
  /\ faults.crash > 0
  /\ faults' = [faults EXCEPT !.crash = @ - 1]
  /\ handler' = [h \in AllHandlers |-> Idle]
  /\ client' = [c \in Clients |-> [client[c] EXCEPT !.waits = None]]
  /\ slot' = IF log = NoEntry THEN NoCell ELSE 1
  /\ cells' = [x \in Cells |-> IF x = 1 THEN log ELSE NoEntry]
  /\ pidToTid' = logPids
  /\ UNCHANGED <<log, logPids, nextPid, lastGiven, data, visible, told, begun, inits>>

-----------------------------------------------------------------------------

Requests ==
  \E c \in Clients :
    \/ GiveUp(c)
    \/ \E h \in Handlers :
         \/ InitProducerId(h, c)
         \/ \E p \in Partitions : RegisterPartitions(h, c, p) \/ Produce(h, c, p)
         \/ \E verdict \in Verdicts : EndTxn(h, c, verdict)

\* One step of handler h.
Runs(h) ==
  \/ EnterRegister(h) \/ EnterProduce(h) \/ EnterEnd(h) \/ EnterRecover(h) \/ EnterInit(h)
  \/ EndTxnPrepare(h) \/ InitFresh(h) \/ Refuse(h)
  \/ EndTxnFinish(h) \/ InitFinish(h) \/ InitLooksUp(h) \/ InitRenew(h) \/ AppendData(h)
  \/ AppendRecord(h) \/ Install(h)
  \/ MarkersDone(h) \/ \E p \in Partitions : WriteMarker(h, p)

Reap == Sweeps \/ ReaperPrepare \/ ReaperFinish

Fault == Restart \/ \E h \in AllHandlers : AllocationFails(h) \/ AppendFails(h) \/ MarkersFail(h)

Next == Requests \/ (\E h \in AllHandlers : Runs(h)) \/ Reap \/ Fault

Spec == Init /\ [][Next]_vars

\* A request that is being served is served to its end, and the reaper comes round on its
\* interval for ever (expiration::run): each is a task the runtime keeps scheduling.  A
\* round of the reaper is strongly fair, because requests of the clients come in between.
Fairness ==
  /\ \A h \in AllHandlers : WF_vars(Runs(h))
  /\ WF_vars(ReaperPrepare \/ ReaperFinish)
  /\ SF_vars(Sweeps)

FairSpec == Spec /\ Fairness

-----------------------------------------------------------------------------
(* Properties. *)

\* The variables have their types; a producer id is logged before any record carries it or
\* the map knows it (put appends before it installs).
TypeOK ==
  /\ cells \in [Cells -> Entry \cup {NoEntry}]
  /\ slot \in Cells \cup {NoCell}
  /\ pidToTid \subseteq logPids
  /\ log \in Entry \cup {NoEntry}
  /\ \A p \in Partitions : \A d \in data[p] : d.txn \in Txns /\ d.pid \in logPids

\* The markers written for a transaction carry one verdict in all its partitions
\* (two_pc_model.rs: finalized at most once, never both committed and aborted).
AllOrNothing ==
  \A x, y \in visible : x[1] = y[1] => x[3] = y[3]

Outcome ==
  INSTANCE TxnOutcome WITH
    open <- {<<t, p>> \in Txns \X Partitions : \E d \in data[p] : d.txn = t},
    outcome <- visible,
    told <- {x \in told : x[1] # NoTxn}

\* The handlers, the reaper, the log and the markers together implement TxnOutcome: one
\* verdict per transaction; EndTxn answers a commit only after every marker, a retry of
\* EndTxn gets the verdict that was carried out, and no record joins a transaction whose
\* end was reported.
KeepsItsPromise == Outcome!Spec

\* Open records of the entry's producer id lie in partitions of the transaction the entry
\* holds (validate_transactional_produce adds the partition before the append), so that
\* the markers of its end reach them.
OpenRecordsAreTracked ==
  \A p \in Partitions : \A d \in data[p] :
    slot # NoCell /\ cells[slot].pid = d.pid =>
      p \in cells[slot].parts /\ cells[slot].state \in {"Ongoing"} \cup Prepared

\* No two producer instances are given the same producer id and epoch by InitProducerId and
\* EndTxn, so the epoch check fences all but one; until a recovered producer is given the
\* last epoch, which is_completed_end_txn_retry does not expect.
InstancesDistinct ==
  ~lastGiven => \A c, d \in Clients : c # d /\ client[c].phase # "new" => client[c].id # client[d].id

Aborted(t) == \E p \in Partitions : <<t, p, "abort">> \in visible
NothingOpen(t) == \A p \in Partitions : \A d \in data[p] : d.txn # t

\* A transaction that is aborted in one partition is in the end aborted in all: the reaper
\* finishes what a crash or a failed marker left in PrepareAbort.
PartialAbortCompletes == \A t \in Txns : Aborted(t) ~> NothingOpen(t)

=============================================================================

-------------------------- MODULE MCTxnCoordinator --------------------------
EXTENDS TxnCoordinator, TLC

Symmetry == Permutations(Partitions) \cup Permutations(Handlers)

FaultsOf(crash, put, marker, reply, allocate) ==
  [crash |-> crash, put |-> put, marker |-> marker, reply |-> reply, allocate |-> allocate]

\* A broker that stops once, a record that cannot be appended, a marker that cannot be
\* written, an answer that is lost, a producer id that is not granted: one fault at most.
NoFault == FaultsOf(0, 0, 0, 0, 0)
MCOneFault ==
  {NoFault, FaultsOf(1, 0, 0, 0, 0), FaultsOf(0, 1, 0, 0, 0), FaultsOf(0, 0, 1, 0, 0),
   FaultsOf(0, 0, 0, 1, 0), FaultsOf(0, 0, 0, 0, 1)}

\* A fault other than a refused producer id strikes before the last producer starts or the last
\* transaction begins.
FaultsEarly == begun = MaxTxn /\ inits = MaxInit => [faults EXCEPT !.allocate = 0] = NoFault

\* An abort whose allocation of a producer id failed, so that it kept its identity, is not
\* taken up by the reaper.
Stranded(e) == e.state = "PrepareAbort" /\ log.state = "Ongoing" /\ e.epoch = log.epoch
SparesStranded ==
  At(Reaper, "enter", "reap") /\ Stranded(EntryOf(Reaper)) => handler'[Reaper].pc # "markers"

\* The state up to the names of the cells: what each of them holds that something refers to,
\* and which handlers refer to the same one.  No rule depends on a name.
Content(x) == IF x = NoCell THEN NoEntry ELSE cells[x]
Shares(h) == {g \in AllHandlers : handler[g].cell = handler[h].cell}
UpToCellNames ==
  <<Content(slot),
    [h \in AllHandlers |-> <<[handler[h] EXCEPT !.cell = Content(@)], handler[h].cell = slot, Shares(h)>>],
    pidToTid, log, logPids, nextPid, client, lastGiven, data, visible, told, begun, inits, faults>>

=============================================================================

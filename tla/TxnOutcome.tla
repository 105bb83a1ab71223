----------------------------- MODULE TxnOutcome -----------------------------
(***************************************************************************)
(* What a producer is promised of a transaction (KIP-98, and the           *)
(* properties the models in txn/decision_model.rs and txn/two_pc_model.rs  *)
(* state for one transaction in memory): it is committed or aborted, in    *)
(* every partition it wrote to alike; EndTxn reports a commit once all its *)
(* records are visible, and an abort only if none ever is.                 *)
(***************************************************************************)
EXTENDS Naturals

CONSTANTS Txns, Partitions

VARIABLES
  open,     \* <<txn, partition>>: written, and not yet visible or discarded
  outcome,  \* <<txn, partition, verdict>>: what became of the records
  told      \* <<txn, verdict>>: reported to the producer

vars == <<open, outcome, told>>

Init == open = {} /\ outcome = {} /\ told = {}

Untold(t) == \A v \in {"commit", "abort"} : <<t, v>> \notin told

Write(t, p) ==
  /\ Untold(t)
  /\ open' = open \cup {<<t, p>>}
  /\ UNCHANGED <<outcome, told>>

\* What t came to so far, as readers and its producer know it.
Agrees(t, v) ==
  /\ \A o \in outcome : o[1] = t => o[3] = v
  /\ \A x \in told : x[1] = t => x[2] = v

\* The records of t in p become visible, or are discarded.
Resolve(t, p, v) ==
  /\ <<t, p>> \in open /\ Agrees(t, v)
  /\ open' = open \ {<<t, p>>}
  /\ outcome' = outcome \cup {<<t, p, v>>}
  /\ UNCHANGED told

Tell(t, v) ==
  /\ Agrees(t, v)
  /\ v = "commit" => \A o \in open : o[1] # t
  /\ told' = told \cup {<<t, v>>}
  /\ UNCHANGED <<open, outcome>>

Next ==
  \E t \in Txns :
    \/ \E p \in Partitions : Write(t, p) \/ \E v \in {"commit", "abort"} : Resolve(t, p, v)
    \/ \E v \in {"commit", "abort"} : Tell(t, v)

Spec == Init /\ [][Next]_vars

-----------------------------------------------------------------------------
(* What the promise amounts to, state by state.                            *)

\* The records of a transaction all came to one verdict, the one its producer was told, if
\* it was told any.
OneVerdict ==
  /\ \A x, y \in outcome : x[1] = y[1] => x[3] = y[3]
  /\ \A x, y \in told : x[1] = y[1] => x[2] = y[2]
  /\ \A x \in told, y \in outcome : x[1] = y[1] => x[2] = y[3]

\* A producer that was told of a commit has no record left that is not visible.
CommitIsComplete == \A x \in told, o \in open : x[2] = "commit" => x[1] # o[1]

=============================================================================

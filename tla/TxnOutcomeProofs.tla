-------------------------- MODULE TxnOutcomeProofs --------------------------
(***************************************************************************)
(* What TxnOutcome promises in each of its states, for any transactions    *)
(* and partitions.  TxnCoordinator implements TxnOutcome, so its markers   *)
(* and its answers keep it too.                                            *)
(***************************************************************************)
EXTENDS TxnOutcome, TLAPS

Types ==
  /\ open \subseteq Txns \X Partitions
  /\ outcome \subseteq Txns \X Partitions \X {"commit", "abort"}
  /\ told \subseteq Txns \X {"commit", "abort"}

Inv == Types /\ OneVerdict /\ CommitIsComplete

LEMMA OutcomeInit == Init => Inv
  BY DEF Init, Inv, Types, OneVerdict, CommitIsComplete

\* A step writes for a transaction that nothing was told of, resolves records or tells the
\* producer as it agrees with all that is known of the transaction.
LEMMA OutcomeStep == Inv /\ [Next]_vars => Inv'
<1> SUFFICES ASSUME Inv, [Next]_vars PROVE Inv'
  OBVIOUS
<1>1. Types /\ OneVerdict /\ CommitIsComplete
  BY DEF Inv
<1>2. ASSUME NEW t \in Txns, NEW p \in Partitions, Write(t, p) PROVE Inv'
  <2>1. open' = open \cup {<<t, p>>} /\ UNCHANGED <<outcome, told>> /\ Untold(t)
    BY <1>2 DEF Write
  <2>2. Types' /\ OneVerdict'
    BY <1>1, <2>1 DEF Types, OneVerdict
  <2>3. \A x \in told : x[1] # t
    BY <1>1, <2>1 DEF Types, Untold
  <2>4. CommitIsComplete'
    BY <1>1, <2>1, <2>3 DEF CommitIsComplete
  <2>5. QED
    BY <2>2, <2>4 DEF Inv
<1>3. ASSUME NEW t \in Txns, NEW p \in Partitions, NEW v \in {"commit", "abort"}, Resolve(t, p, v)
      PROVE  Inv'
  <2>1. /\ open' = open \ {<<t, p>>} /\ outcome' = outcome \cup {<<t, p, v>>}
        /\ UNCHANGED told /\ Agrees(t, v)
    BY <1>3 DEF Resolve
  <2>2. Types' /\ CommitIsComplete'
    BY <1>1, <2>1 DEF Types, CommitIsComplete
  <2>3. OneVerdict'
    BY <1>1, <2>1 DEF OneVerdict, Agrees
  <2>4. QED
    BY <2>2, <2>3 DEF Inv
<1>4. ASSUME NEW t \in Txns, NEW v \in {"commit", "abort"}, Tell(t, v) PROVE Inv'
  <2>1. /\ told' = told \cup {<<t, v>>} /\ UNCHANGED <<open, outcome>> /\ Agrees(t, v)
        /\ v = "commit" => \A o \in open : o[1] # t
    BY <1>4 DEF Tell
  <2>2. Types' /\ OneVerdict'
    BY <1>1, <2>1 DEF Types, OneVerdict, Agrees
  <2>3. CommitIsComplete'
    BY <1>1, <2>1 DEF CommitIsComplete
  <2>4. QED
    BY <2>2, <2>3 DEF Inv
<1>5. CASE UNCHANGED vars
  BY <1>1, <1>5 DEF vars, Inv, Types, OneVerdict, CommitIsComplete
<1>6. QED
  BY <1>2, <1>3, <1>4, <1>5 DEF Next

\* All or nothing: the markers of a transaction carry one verdict, and it is the one EndTxn
\* reported.
THEOREM OneVerdictAlways == Spec => []OneVerdict
<1>1. Inv => OneVerdict
  BY DEF Inv
<1>2. QED
  BY OutcomeInit, OutcomeStep, <1>1, PTL DEF Spec

\* EndTxn reports a commit only once every record of the transaction is visible, and no
\* record joins the transaction afterwards.
THEOREM CommitIsCompleteAlways == Spec => []CommitIsComplete
<1>1. Inv => CommitIsComplete
  BY DEF Inv
<1>2. QED
  BY OutcomeInit, OutcomeStep, <1>1, PTL DEF Spec

=============================================================================

----------------------- MODULE MCPartitionReplication -----------------------
(***************************************************************************)
(* Instances of PartitionReplication for TLC.                              *)
(***************************************************************************)
EXTENDS PartitionReplication, TLC

CONSTANT Races     \* the races a run allows

ASSUME RacesAssumption == Races \subseteq AllRaces

Symmetry == Permutations(Brokers)

OnlyRaces == raced \subseteq Races
SpecWithRaces == Init /\ [][Next /\ OnlyRaces']_vars

\* Bounds: a race ends a behaviour, but for a late fetch before the first record; and one
\* acknowledgement, for none enables or disables another step, so a record that is lost is
\* lost without the others.
OneAcked == (OnlyRaces \/ (raced = {"late"} /\ produced = 0)) /\ Cardinality(acked) <= 1

\* Bound: brokers restart before the last change and the last record.
RestartsEarly ==
  \A b \in Brokers : isr[b] # {} /\ isr'[b] = {} => produced < MaxValue /\ Len(committed) < MaxChange

\* The behaviours in which in-sync sets hold their leader and MinInsync members, and a
\* replica is admitted only by a leader that has not had it in the set before and that first
\* heard of it below the end of its log: its progress was not seeded, and it never caught up.
FirstHeardBehind ==
  /\ Current'.leader \in Current'.isr /\ Cardinality(Current'.isr) >= MinInsync
  /\ \A f \in Current'.isr \ Current.isr, k \in DOMAIN committed :
       f \in committed[k].isr => committed[k].epoch # Current'.epoch
  /\ \A l \in Brokers : \A f \in DOMAIN stats'[l] \ (DOMAIN stats[l] \cup isr[l]) :
       f \notin isr'[l] => stats'[l][f].leo < Len(log[l])

=============================================================================

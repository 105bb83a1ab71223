------------------------------- MODULE MCKRaft -------------------------------
EXTENDS KRaft, TLC

Symmetry == Permutations(Node)

\* Elections alone: every fetch is lost.
NoFetches == \A m \in msgs' : m.type # "Fetch"

\* Everything but the history variables, which no action reads.
WithoutHistory == <<quorumVars, logVars, leaderVars, msgs, restarts>>

=============================================================================

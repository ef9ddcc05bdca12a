---------------------------- MODULE MCAccountPool ----------------------------
\* Instances of AccountPool for TLC.
EXTENDS AccountPool, TLC

Symmetry == Permutations(Accounts) \cup Permutations(Callers)
=============================================================================

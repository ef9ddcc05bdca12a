--------------------------- MODULE MCSessionRouting ---------------------------
\* Instances of SessionRouting for TLC.
EXTENDS SessionRouting, TLC

CONSTANTS u1, u2, t1

OneByOne == {<<u>> : u \in Units}

Symmetry == Permutations(Convs)
=============================================================================

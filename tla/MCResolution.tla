---------------------------- MODULE MCResolution ----------------------------
EXTENDS Resolution, TLC
CONSTANTS t1, t2, t3, h1, h2, f1
MCOffset == [a \in Attempts |-> a]
Symmetry == Permutations(Txs) \cup Permutations(Honest)
=============================================================================

------------------------------ MODULE MCTelemd ------------------------------
EXTENDS Telemd, TLC

\* The goroutines of a kind are alike; no property names one.
Symmetry == Permutations(Servers) \cup Permutations(Reporters)
=============================================================================

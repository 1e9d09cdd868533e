----------------------------- MODULE MCReadiness ------------------------------
EXTENDS Readiness, TLC

Symmetry == Permutations(Threads)
=============================================================================

------------------------------ MODULE MC_Tmpfs ------------------------------
EXTENDS Tmpfs, TLC

CONSTANTS p1, p2, n1

MCProcs == {p1, p2}
MCSymmetry == Permutations(MCProcs)
=============================================================================

----------------------------- MODULE MCSummons ------------------------------
EXTENDS Summons, TLC
Symmetry == Permutations(Seats)
=============================================================================

------------------------------ MODULE MCVolume ------------------------------
EXTENDS Volume, TLC

Symmetry == Permutations(Vals) \cup Permutations(Callers)
=============================================================================

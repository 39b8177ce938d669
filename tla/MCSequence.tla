------------------------------ MODULE MCSequence ------------------------------
EXTENDS Sequence, TLC

CONSTANTS s1, s2

Symmetry == Permutations(Objects)

===============================================================================

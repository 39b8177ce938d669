------------------------------- MODULE MCTxLocks -------------------------------
EXTENDS TxLocks, TLC

CONSTANTS p1, p2, p3

Symmetry == Permutations(Threads)

===============================================================================

------------------------------- MODULE MCTxFile -------------------------------
EXTENDS TxFile, TLC

CONSTANTS t1, t2, t3, a, b

Symmetry == Permutations(Txs)

===============================================================================

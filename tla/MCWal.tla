-------------------------------- MODULE MCWal --------------------------------
(***************************************************************************)
(* Small instances of Wal.                                                 *)
(***************************************************************************)
EXTENDS Wal, TLC

CONSTANTS t1, t2, t3, a

\* Transactions differ by the ids they are given only.
TxSymmetry == Permutations(Txs)

\* A file some of whose transactions have begun and rolled back: no id is left
\* over from them before a compaction, so the ids may run out.
UsedIds(n) == idLen = n /\ active = {} /\ avail = {} /\ completed = n
VisitedInit == NewFile /\ UsedIds(1)
VisitedSpec == VisitedInit /\ [][Next]_vars

==============================================================================

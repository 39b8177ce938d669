SPECIFICATION Spec
CONSTANTS
  t1 = t1
  t2 = t2
  t3 = t3
  a = a
  b = b
  Zero = Zero
  None = None
  Txs = {t1, t2, t3}
  MaxSize = 2
  Bytes = {Zero, a}
  Lengths = {1}
  Resizes = {"grow"}
  Moves = TRUE
  EarlyEnd = FALSE
SYMMETRY Symmetry
INVARIANTS UndoIsNeeded SnapshotReads
CHECK_DEADLOCK FALSE

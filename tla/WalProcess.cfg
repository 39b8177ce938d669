SPECIFICATION VisitedSpec
CONSTANTS
  t1 = t1
  t2 = t2
  t3 = t3
  a = a
  Zero = Zero
  None = None
  Txs = {t1, t2}
  Vals = {Zero, a}
  MaxSize = 1
  MaxId = 1
  Cap = 4
  MaxRecords = 2
  SeqHalf = 2
  MultiThreaded = FALSE
  Rollbacks = TRUE
  Crashes = {"process"}
  ReopenCrash = FALSE
  FillOnGrow = TRUE
SYMMETRY TxSymmetry
INVARIANTS IdsDistinct LogMatchesTx LogEnds
PROPERTY CommitsAreAtomic
CHECK_DEADLOCK FALSE

SPECIFICATION FairSpec
CONSTANTS
  t1 = t1
  t2 = t2
  t3 = t3
  a = a
  Zero = Zero
  None = None
  Txs = {t1, t2}
  Vals = {Zero, a}
  MaxSize = 1
  MaxId = 1
  Cap = 6
  MaxRecords = 2
  SeqHalf = 2
  MultiThreaded = FALSE
  Rollbacks = TRUE
  Crashes = {}
  ReopenCrash = FALSE
  FillOnGrow = TRUE
INVARIANTS RecoveryAgrees
PROPERTY CallsReturn
CHECK_DEADLOCK FALSE

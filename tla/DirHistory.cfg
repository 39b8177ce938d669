SPECIFICATION Spec
CONSTANTS
  Keys = {"x", "y"}
  Disks <- MCDisks
  Pushes = {{"x", "y"}}
  Readers <- MCReaders
  PerMinute = 3
  SuffixTries = 2
  DirOwner = FALSE
  MaxTime = 4
  MaxOpens = 2
  FileTimes = {1, 2, 3}
  Ends = {3, 4}
INVARIANTS ReadersComplete EmittedInOrder EmissionsSound
PROPERTIES RecordsStay
CHECK_DEADLOCK FALSE

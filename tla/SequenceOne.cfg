SPECIFICATION Spec
CONSTANTS
  s1 = s1
  s2 = s2
  Objects = {s1, s2}
  CacheSize = 2
  MaxValue = 6
  OneAtATime = TRUE
SYMMETRY Symmetry
PROPERTY NumbersIncrease

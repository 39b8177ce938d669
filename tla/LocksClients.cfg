SPECIFICATION Spec
CONSTANTS
  p1 = p1
  p2 = p2
  p3 = p3
  None = None
  Threads = {p1, p2, p3}
  Operations = {"begin", "read", "write", "commit", "compact", "destroy", "number"}
SYMMETRY Symmetry
INVARIANTS NoDeadlock LogIsProtected LockOrder

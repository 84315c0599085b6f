SPECIFICATION Spec
CONSTANTS
  Proc = {p1, p2}
  Handle = {h1, h2}
  None = None
SYMMETRY Symmetry

INVARIANTS TypeOK LockInv MutualExclusion
PROPERTY ImplementsFileLock

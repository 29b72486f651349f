CONSTANTS
  None = None
  Task = {t1, t2, t3}
  Shapes <- MCShapes
  MaxEntries = 1
  Ttl = 1
  MaxNow = 1
  MaxPurges = 1
SPECIFICATION Spec
SYMMETRY Symmetry
INVARIANTS
  StoreBounded
  HitIsValid

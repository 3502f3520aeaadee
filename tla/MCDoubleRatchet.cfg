CONSTANTS
  Object = {a, b}
  Text = {t1, t2}
  MaxKeys = 4
SPECIFICATION Spec
SYMMETRY Symmetry
CHECK_DEADLOCK FALSE
INVARIANTS
  TypeOK
  FreshKeys
  SpentKeysAreGone
  ReadsInPlace
PROPERTY
  ReadsForward

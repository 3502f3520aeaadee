CONSTANTS
  Client = {c1, c2}
  MaxTotal = 2
  MaxSeq = 1
  MaxEpoch = 2
  MaxRepeats = 1
SPECIFICATION Spec
SYMMETRY Symmetry
CHECK_DEADLOCK FALSE
INVARIANTS
  TypeOK
  ShownPerArrival
  CompleteIsShown
PROPERTY
  GreetedAtMostOnce

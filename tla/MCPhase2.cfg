CONSTANTS
  Client = {c1}
  Time <- MCTime
  Stamp <- MCStamp
  Window = 1
  MaxEpoch = 3
SPECIFICATION Spec
CHECK_DEADLOCK FALSE
INVARIANTS
  TypeOK
  RepeatsAreClose
  AckMeansRead

CONSTANTS
  SessionId = {s1, s2}
  Time <- MCTime
  TTL = 2
  MaxCount = 2
SPECIFICATION Spec
CHECK_DEADLOCK FALSE
INVARIANT
  TypeOK
PROPERTY
  ImplementsLease

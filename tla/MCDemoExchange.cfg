CONSTANTS
  c1 = c1
  c2 = c2
  Client = {c1, c2}
  Time <- MCTime
  Lead <- MCLead
  Window = 1
  Stall = 2
  MaxEpoch = 2
SPECIFICATION FairSpec
CHECK_DEADLOCK FALSE
INVARIANTS
  TypeOK
  AtMostTwice
  AnsweredWasRead
PROPERTIES
  PunctualDelivery
  EveryRunEnds

CONSTANTS
  c1 = c1
  c2 = c2
  Client = {c1, c2}
  Time <- MCTicks
  Lead <- MCLead
  Window = 1
  Stall = 0
  MaxEpoch = 1
SPECIFICATION Spec
CHECK_DEADLOCK FALSE
PROPERTY
  AtMostOnceDelivery

CONSTANTS
  Nonce = {c1, c2}
  Time <- MCTime
  Stamp <- MCStamp
  Window = 1
  MaxSetBacks = 2
SPECIFICATION SetBackSpec
INVARIANT
  AdmittedPerSetBack

CONSTANTS
  Nonce = {c1, c2}
  Time <- MCTime
  Stamp <- MCStamp
  Window = 1
  MaxEpoch = 2
SPECIFICATION Spec
SYMMETRY Symmetry
CHECK_DEADLOCK FALSE
INVARIANTS
  TypeOK
  AdmittedOnce
  ForgottenIsStale
  RegisteredWasAdmitted
  SessionsShareKeys
  FreshMessageKeys
  OnlyDamageWastesANonce
PROPERTIES
  AdmitPrunes
  AtMostOnceDelivery

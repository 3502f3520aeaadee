CONSTANTS
  tunnelled = tunnelled
  direct = direct
  other = other
  Upload = {tunnelled, direct, other}
  Direct = {direct, other}
  NameOf <- MCNameOf
  ChunksOf <- MCChunksOf
  Base = 2
  ReadAs <- MCReadAs
  Download = {d1}
  Chat = {m1}
  MaxEpoch = 2
  MaxPosts = 1
SPECIFICATION FairSpec
CHECK_DEADLOCK FALSE
INVARIANTS
  TypeOK
  AckedIsStored
  SavedIsUploaded
  SavedHasNoGaps
PROPERTY
  UploadEnds

CONSTANTS
  tunnelled = tunnelled
  direct = direct
  other = other
  Upload = {tunnelled, direct, other}
  Direct = {direct, other}
  NameOf <- MCNameOf
  ChunksOf <- MCChunksOf
  Base = 2
  ReadAs <- MCReadAs
  Download = {d1}
  Chat = {m1}
  MaxEpoch = 1
  MaxPosts = 2
SPECIFICATION Spec
CHECK_DEADLOCK FALSE
INVARIANT
  PostedOnce

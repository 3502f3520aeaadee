CONSTANTS
  local = local
  headless = headless
  page = page
  image = image
  Request = {local, headless, page, image}
  Forwarded = {page, image}
  Headless = {headless}
  SizeOf <- MCSizeOf
  Block = 2
  MaxAnswer = 3
  KeepLog = 2
  KeepKeys = 2
  MaxPackets = 4
SPECIFICATION FairSpec
CHECK_DEADLOCK FALSE
INVARIANTS
  TypeOK
  BooksBalance
  LogIsNewest
  ActiveSessions
  CutWithinBlock
PROPERTY
  ForwardEnds

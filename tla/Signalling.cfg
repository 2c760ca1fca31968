CONSTANTS
  a = a
  b = b
  Clients = {a, b}
  Scripts <- Words
  Leaving = {b}
  ChannelSize = 1
  BufferCap = 4
  ReadSize = 2
  Backlog <- Kept
SPECIFICATION FairSpec
INVARIANTS
  TypeOK
  HeardInOrder
  EndsForCause
PROPERTIES
  NobodyStuck
CHECK_DEADLOCK FALSE

CONSTANTS
  s1 = s1
  s2 = s2
  Streams = {s1, s2}
  SideOf <- Sent
  Firsts <- Starts
  Modulus = 8
  Window = 3
  MaxIndex <- Bounds
SPECIFICATION Spec
INVARIANTS
  TypeOK
  InStep
  IndexKept
  NewerOpens
CHECK_DEADLOCK FALSE

CONSTANTS
  e1 = e1
  e2 = e2
  i1 = i1
  i2 = i2
  h1 = h1
  h2 = h2
  Extensions = {e1, e2}
  Ips = {i1, i2}
  IpsOf <- Roaming
  Misconfigured = {e2}
  WithoutQop = {e2}
  Callers = {e1}
  Handlers = {h1, h2}
  MaxFailures = 2
  WindowSecs = 2
  MaxFailedIps = 2
  MaxBlockedIps = 1
  NonceTtl = 2
  MaxNonces = 1
  Expires = 1
  MaxRequests = 3
  MaxFaults = 1
  MaxRestarts = 1
  MaxTime = 2
SPECIFICATION Spec
INVARIANTS
  TypeOK
  NonceOnce
  BlockEarned
  IInv
PROPERTIES
  KeepsOnline
SYMMETRY Symmetric
CHECK_DEADLOCK FALSE

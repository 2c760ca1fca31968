CONSTANTS
  c1 = c1
  c2 = c2
  c3 = c3
  e1 = e1
  e2 = e2
  Connections = {c1, c2, c3}
  Extensions = {e1, e2}
  AccountsOf <- Phones
  Unregistering = {c1, c2, c3}
  MaxConnections = 2
SPECIFICATION FairSpec
INVARIANTS
  TypeOK
  IInv
  CountsExact
  NoLeftover
PROPERTIES
  Heals
CHECK_DEADLOCK FALSE

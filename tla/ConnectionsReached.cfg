CONSTANTS
  c1 = c1
  c2 = c2
  c3 = c3
  e1 = e1
  e2 = e2
  Connections = {c1, c2, c3}
  Extensions = {e1, e2}
  AccountsOf <- Phones
  Unregistering = {}
  MaxConnections = 2
SPECIFICATION Spec
INVARIANTS
  ReachedWhereOpen
CHECK_DEADLOCK FALSE

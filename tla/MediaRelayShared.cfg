CONSTANTS
  t1 = t1
  t2 = t2
  s1 = s1
  s2 = s2
  Threads = {t1, t2}
  SessionIds = {s1, s2}
  PortStart = 2
  PortEnd = 10
  Modulus = 128
  MaxCreates = 4
  MaxMisses = 40
SPECIFICATION Spec
SYMMETRY Symmetric
CHECK_DEADLOCK FALSE
INVARIANT PortsExclusive

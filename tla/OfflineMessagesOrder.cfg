CONSTANTS
  s1 = s1
  r1 = r1
  r2 = r2
  d1 = d1
  d2 = d2
  Senders = {s1}
  Recipients = {r1}
  Deliverers = {d1, d2}
  QueueCap = 3
  TotalCap = 3
  SenderQuota = 3
  RateLimit = 3
  RateWindow = 1
  Ttl = 3
  MaxMessages = 3
  MaxTime = 2
  MaxFaults = 2
SPECIFICATION Spec
INVARIANTS
  QueuesOrdered
CHECK_DEADLOCK FALSE

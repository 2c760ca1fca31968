CONSTANTS
  s1 = s1
  r1 = r1
  r2 = r2
  d1 = d1
  d2 = d2
  Senders = {s1}
  Recipients = {r1, r2}
  Deliverers = {d1}
  QueueCap = 2
  TotalCap = 2
  SenderQuota = 3
  RateLimit = 3
  RateWindow = 1
  Ttl = 1
  MaxMessages = 4
  MaxTime = 1
  MaxFaults = 2
SPECIFICATION FairSpec
INVARIANTS
  TypeOK
  NothingLost
  NothingTwice
  QueuesOrdered
PROPERTIES
  KeepsMail
  NobodyForgotten
CHECK_DEADLOCK FALSE

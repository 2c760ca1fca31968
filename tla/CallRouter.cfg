CONSTANTS
  c1 = c1
  t1 = t1
  t2 = t2
  CallIds = {c1}
  Tasks = {t1, t2}
  InviteTasks <- OneConnection
  MaxInvites = 2
SPECIFICATION FairSpec
INVARIANTS
  TypeOK
  IInv
  RelayStoppable
  SessionOwned
  LiveCallHoldsPorts
  RelayServesCurrentCall
  StartsOnce
PROPERTIES
  KeepsPromise
  HangupFreesPorts
  EstablishedGetsMedia
CHECK_DEADLOCK FALSE

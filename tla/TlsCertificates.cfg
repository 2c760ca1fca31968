CONSTANTS
  Validity = 4
  RenewBefore = 2
  MaxMisses = 1
  MaxTime = 10
  MaxPairs = 5
  MaxFaults = 4
SPECIFICATION Spec
INVARIANTS
  TypeOK
  RenewedInTime
  RenewalRestarts
CHECK_DEADLOCK FALSE

SPECIFICATION FairSpec
CONSTANTS
  EnvelopeCount = 2
  MaxActiveDeliveries = 1
  MaxFaults = 1
  MaxDays = 1
INVARIANTS TypeOK NoLoss
PROPERTIES ImplementsPromise EventuallyConsumed
CHECK_DEADLOCK FALSE

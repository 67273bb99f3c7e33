SPECIFICATION Spec
CONSTANTS
  EnvelopeCount = 3
  MaxActiveDeliveries = 2
  MaxFaults = 1
  MaxDays = 0
INVARIANTS NoLeakedClaim FirstExposureInOrder ExactlyOnceWithoutFaults
PROPERTIES NeverExposeCompleted
CHECK_DEADLOCK FALSE

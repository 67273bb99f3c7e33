SPECIFICATION Spec
CONSTANTS
  MaxCalls = 2
  MaxCloses = 1
  MaxLeaks = 1
INVARIANTS CloseReleasesDevices
CHECK_DEADLOCK FALSE

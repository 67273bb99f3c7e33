SPECIFICATION DeviceSpec
CONSTANTS
  Slots <- MCSlots
  Identity = "identity"
  Calls <- MCCalls
  Opener <- MCOpener
  MaxChanges = 10
  MaxFaults = 1
  MaxCrashes = 1
  MaxTrouble = 1
  MaxLinks = 2
  Requests = {r1, r2}
  HostCalls <- MCNone
SYMMETRY Symmetric
INVARIANTS PromisedSurvives ResolvedCoversEarlier AccountIsComplete CertificatesAreOwn
PROPERTIES NeverBackToOldAccount ImplementsStableStore
CHECK_DEADLOCK FALSE

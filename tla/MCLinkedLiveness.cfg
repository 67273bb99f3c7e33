SPECIFICATION FairDevice
CONSTANTS
  Slots <- MCSlots
  Identity = "identity"
  Calls <- MCCalls
  Opener <- MCOpener
  MaxChanges = 8
  MaxFaults = 2
  MaxCrashes = 1
  MaxTrouble = 2
  MaxLinks = 1
  Requests = {r1}
  HostCalls <- MCHostCalls
PROPERTIES WritesLandAfterFailures ConnectingEnds LinkingSettles
CHECK_DEADLOCK FALSE

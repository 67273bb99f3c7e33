SPECIFICATION FairSpec
CONSTANTS
  MaxCalls = 2
  MaxCloses = 1
  MaxLeaks = 1
INVARIANTS TypeOK OneLiveCall EventsOnce TimersMatchCalls
PROPERTIES ProceedsOnlyLive MediaReleased CloseSettles
CHECK_DEADLOCK FALSE

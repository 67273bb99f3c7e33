SPECIFICATION FairSpec
CONSTANTS
  MaxConnects = 2
  MaxDisconnects = 2
  MaxThrows = 1
  PatientHost = FALSE
INVARIANTS ConnectionIsCurrent KeepaliveMarkIsLive NoForgottenSocket QuietAfterDisconnect
PROPERTIES LossIsReported UnusedSocketsClose DeafConnectionGivenUp
CHECK_DEADLOCK FALSE

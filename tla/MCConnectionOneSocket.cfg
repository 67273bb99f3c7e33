SPECIFICATION Spec
CONSTANTS
  MaxConnects = 2
  MaxDisconnects = 1
  PatientHost = TRUE
  MaxThrows = 0
INVARIANTS OneAuthenticatedSocket
CHECK_DEADLOCK FALSE

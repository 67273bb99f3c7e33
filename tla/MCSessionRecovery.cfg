SPECIFICATION Spec
CONSTANTS
  t1 = t1
  Task = {t1}
  Device = {1, 2}
  Primary = 1
  Senders = {2}
  Operations = {"recover"}
  MaxChanges = 0
  MaxFailures = 0
  MaxAborts = 0
  MaxTrouble = 0
INVARIANTS RecoveryEstablishes
CHECK_DEADLOCK FALSE

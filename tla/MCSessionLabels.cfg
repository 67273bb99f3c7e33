SPECIFICATION Spec
CONSTANTS
  t1 = t1
  t2 = t2
  Task = {t1, t2}
  Device = {1, 2}
  Primary = 1
  Senders = {2}
  Operations = {"content", "decrypt"}
  MaxChanges = 1
  MaxFailures = 0
  MaxAborts = 0
  MaxTrouble = 1
INVARIANTS AcceptedIsReadable
CHECK_DEADLOCK FALSE

SPECIFICATION FairSpec
CONSTANTS
  t1 = t1
  t2 = t2
  Task = {t1, t2}
  Device = {1, 2}
  Primary = 1
  Senders = {2}
  Operations = {"content", "given", "group", "sealed", "sync", "receipt", "decrypt", "archive", "renew", "recover"}
  MaxChanges = 1
  MaxFailures = 1
  MaxAborts = 1
  MaxTrouble = 1
INVARIANTS TypeOK LockInv NoLostUpdate WarmSendsAreReadable RepairSuffices RepairHeals
PROPERTIES EveryCallSettles
CHECK_DEADLOCK FALSE

SPECIFICATION FairSpec
CONSTANTS
  Callers = {t1, t2}
  Children = {c1, c2}
  None = None
  MaxRestarts = 1
  MaxFaults = 2
INVARIANTS
  TypeOK
  NeverKillsForeign
  RecordIsOwned
  ChildAccounted
PROPERTIES
  LockReturns

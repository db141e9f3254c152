\* Two commands about one job with one fault, or a job and its retry under one
\* command with two faults; no symmetry, for liveness.
SPECIFICATION SmallSpec
CONSTANTS
  Jobs = {j1, j2}
  SpareJob = j2
  MaxRevision = 2
  Commands = {c1, c2}
  SpareCommand = c2
  MaxFaults = 2
  NoJob = NoJob
  NoSnapshot = NoSnapshot
INVARIANTS
  TypeOK
  NoLostWakeup
  SentInOrder
PROPERTIES
  HookNeverOlder
  ClosedIsShown
CHECK_DEADLOCK FALSE

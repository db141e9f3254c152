\* A late answer of a command over a closed job.
SPECIFICATION Spec
CONSTANTS
  Jobs = {j1}
  MaxRevision = 2
  Commands = {c1, c2}
  MaxFaults = 0
  NoJob = NoJob
  NoSnapshot = NoSnapshot
PROPERTIES
  ViewNeverOlder
CHECK_DEADLOCK FALSE

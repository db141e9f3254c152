\* A cancel against a prompt that is being submitted.
SPECIFICATION Spec
SYMMETRY Symmetry
CONSTANTS
  BatchCount = 2
  Parallelism = 1
  Jobs = {j1}
  Workers = {w1}
  Cancels = {k1}
  MaxProgress = 0
  MaxErrors = 0
  MaxCrashes = 0
  NoJob = NoJob
  NoWorker = NoWorker
INVARIANTS
  CanceledMeansStopped
CHECK_DEADLOCK FALSE

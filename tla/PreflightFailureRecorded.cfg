\* ComfyUI does not come up.
SPECIFICATION Spec
SYMMETRY Symmetry
CONSTANTS
  BatchCount = 1
  Parallelism = 1
  Jobs = {j1}
  Workers = {w1}
  Cancels = {k1}
  MaxProgress = 0
  MaxErrors = 0
  MaxCrashes = 0
  NoJob = NoJob
  NoWorker = NoWorker
INVARIANTS
  PreflightFailureRecorded
CHECK_DEADLOCK FALSE

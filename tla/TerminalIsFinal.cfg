\* A cancel against a thread that reports progress.
SPECIFICATION Spec
SYMMETRY Symmetry
CONSTANTS
  BatchCount = 2
  Parallelism = 1
  Jobs = {j1}
  Workers = {w1}
  Cancels = {k1}
  MaxProgress = 1
  MaxErrors = 0
  MaxCrashes = 0
  NoJob = NoJob
  NoWorker = NoWorker
PROPERTIES
  TerminalIsFinal
CHECK_DEADLOCK FALSE

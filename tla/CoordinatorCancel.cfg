\* A cancel against the thread of one job of two batches, with progress
\* commits and up to two storage errors, under fairness; no symmetry, for
\* liveness.
SPECIFICATION FairSpec
CONSTANTS
  BatchCount = 2
  Parallelism = 1
  Jobs = {j1}
  Workers = {w1}
  Cancels = {k1}
  MaxProgress = 1
  MaxErrors = 2
  MaxCrashes = 0
  NoJob = NoJob
  NoWorker = NoWorker
INVARIANTS
  TypeOK
  Inv
  RecordsValid
  SignalMeansRequested
PROPERTIES
  NoLostUpdate
  FinishedWorkKept
  WorkerEnds
  RequestSettles
CHECK_DEADLOCK FALSE

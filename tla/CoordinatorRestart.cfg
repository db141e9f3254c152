\* Two jobs (a job and its retry), two threads, a cancel, and a process
\* death, a shutdown or a storage error.
SPECIFICATION Spec
SYMMETRY Symmetry
CONSTANTS
  BatchCount = 1
  Parallelism = 1
  Jobs = {j1, j2}
  Workers = {w1, w2}
  Cancels = {k1}
  MaxProgress = 0
  MaxErrors = 1
  MaxCrashes = 1
  NoJob = NoJob
  NoWorker = NoWorker
INVARIANTS
  SingleSlot
  OneWorkerPerJob
  AbandonedOnlyByCancel
PROPERTIES
  OrphansClearedFirst
  SlotPromise
CHECK_DEADLOCK FALSE

SPECIFICATION JobsSpec
CONSTANTS
  Jobs = {j1, j2}
  NoJob = NoJob
  Threads = {t1, t2}
  NoThread = NoThread
  MaxParties = 4
  MaxJobUpsets = 0
INVARIANTS
  OneOpenJob

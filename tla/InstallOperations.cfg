SPECIFICATION FairSpec
CONSTANTS
  archive = archive
  model = model
  nodePack = nodePack
  o1 = o1
  o2 = o2
  Operations = {o1, o2}
  Workers = {o1, o2}
  Files = {archive, model, nodePack}
  Archive = archive
  Nodes = {nodePack}
  Profile <- ProfileOrder
  Chunks = 2
  Missing = Missing
  MaxFaults = 1
  MaxRestarts = 1
CONSTRAINT BegunInOrder
INVARIANTS
  TypeOK
  OneOpenOperation
  SelectionComplete
  CompletedMeansInstalled
  FreshDownloadWhole
  StagingOwned
CHECK_DEADLOCK FALSE
PROPERTIES
  ClosedForever
  ThreadEnds

SPECIFICATION Spec
CONSTANTS
  archive = archive
  model = model
  nodePack = nodePack
  o1 = o1
  o2 = o2
  Operations = {o1, o2}
  Workers = {o1, o2}
  Files = {archive, model, nodePack}
  Archive = archive
  Nodes = {nodePack}
  Profile <- ProfileOrder
  Chunks = 2
  Missing = Missing
  MaxFaults = 0
  MaxRestarts = 0
INVARIANT PublishedIsVerified
CHECK_DEADLOCK FALSE

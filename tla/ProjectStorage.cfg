SPECIFICATION StorageSpec
SYMMETRY Symmetric
CONSTANTS
  Jobs = {j1, j2, j3}
  NoJob = NoJob
  References = {r1, r2}
  NoReference = NoReference
  Projects = {p1, p2}
  NoProject = NoProject
  Threads = {t1, t2}
  NoThread = NoThread
  MaxParties = 4
  MaxJobUpsets = 1
  MaxReferenceUpsets = 1
  MaxIndexUpsets = 2
  Folders = {f1, f2}
  NoFolder = NoFolder
  OldFolder = f1
  MaxProjectUpsets = 1
  MaxEdits = 1
INVARIANTS
  StorageTypeOK
  RecordMatchesFiles
  TemporariesOwned
  LoadFailsOnlyBesideWriter
  ReferencesReadable
  IndexFollowsDisk
  ProjectsConsistent
PROPERTIES
  RevisionsByOne

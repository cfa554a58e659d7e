CONSTANTS
  d1 = d1
  d2 = d2
  u1 = u1
  task = task
  doc1 = doc1
  Repository = Repository
  None = None
  Dossiers = {d1}
  Tasks = {}
  Proposals = {}
  Documents = {doc1}
  Users = {u1}
  Nightly = TRUE
  PurgeTrash = TRUE
  Strict = FALSE
  MaxDepth = 1
  TaskDepth <- MCDepth
  Sees <- MCAllRights
  MayReopen <- MCAllRights
SPECIFICATION NightSpec
CHECK_DEADLOCK FALSE
PROPERTIES NightDeletesOnlyInClosed

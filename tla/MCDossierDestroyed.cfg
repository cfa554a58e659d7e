CONSTANTS
  d1 = d1
  d2 = d2
  d3 = d3
  u1 = u1
  u2 = u2
  task = task
  Repository = Repository
  None = None
  Dossiers = {d1, d2, d3}
  Tasks = {}
  Proposals = {}
  Documents = {}
  Users = {u1}
  Nightly = TRUE
  PurgeTrash = TRUE
  Strict = TRUE
  MaxDepth = 2
  TaskDepth <- MCDepth
  Sees <- MCAllRights
  MayReopen <- MCAllRights
SPECIFICATION Spec
CHECK_DEADLOCK FALSE
PROPERTIES DestroysOnlyClosed

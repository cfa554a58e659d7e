CONSTANTS
  m = m
  s = s
  r1 = r1
  r2 = r2
  r3 = r3
  r4 = r4
  None = None
  Dossiers = {m, s}
  Requests = {r1, r2}
  FromForm = {}
  MaxRetries = 2
  MayCrash = {}
  Above <- MCAbove
  Target <- MCTarget
SPECIFICATION FairSpec
CHECK_DEADLOCK FALSE
PROPERTIES ConflictIsRetried

CONSTANTS
  p1 = p1  p2 = p2  main = main  sub = sub
  Dispositions = {p1, p2}
  Dossiers = {main, sub}
  Above <- MCAbove
  Former <- MCFormer
  Value <- MCValue
  Transports = {"filesystem", "ftps"}
  Choice <- MCChoice
  MaxRefused <- MCMaxRefused
  Reviewed = {sub}
  Names <- MCNames
  Rank <- MCRank
  Unreliable = {"ftps"}
  Switched = {"ftps"}
  NoJob = NoJob
  MaxAborts = 1
SPECIFICATION FairSpec
CHECK_DEADLOCK FALSE
INVARIANTS TypeOK DossiersFollow DeliveredOnce DeliveredIsCurrent
PROPERTIES DestroyedWasOffered ScheduledIsTried

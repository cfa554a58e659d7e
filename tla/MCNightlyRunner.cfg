CONSTANTS
  j1 = j1
  j2 = j2
  j3 = j3
  None = None
  Jobs = {j1, j2, j3}
  Providers <- MCProviders
  Rank <- MCRank
  ProviderOf <- MCProviderOf
  Broken = {j3}
  DayLength = 6
  window_start = 5
  window_end = 7
SPECIFICATION FairSpec
INVARIANTS BegunInWindow
PROPERTIES EveryJobIsDone

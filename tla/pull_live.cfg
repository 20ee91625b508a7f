CONSTANTS
  r1 = r1
  r2 = r2
  Record = {r1, r2}
  Family <- OneFamily
  Versions = 1
  FullRefreshEvery = 2
  LateBirths = {r2}
  BareNotes = {r2}
  MaxClock = 2
  MaxNotes = 1
SPECIFICATION FairSpec
INVARIANT NothingElseIsMissed
PROPERTY Converges

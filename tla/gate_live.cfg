SPECIFICATION FairSpec
CONSTANTS
  s1 = s1
  s2 = s2
  Session = {s1, s2}
  Opener = s1
  Choice = {"yes", "no", "later"}
  Default = "no"
  Skew <- Ahead
  Second = 2
  Expiry = 4
  MaxTime = 6
  None = None
CHECK_DEADLOCK FALSE
INVARIANT LateReadersAgree
PROPERTY EverySessionCompletes

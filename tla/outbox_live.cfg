CONSTANTS
  Proc = {s1}
  NoFile = NoFile
  Key = {k1, k2}
  Versions = 1
  Cap = 1
  StoneCap = 1
  Repush = {k1}
  FallbackAfterFailures = 3
SPECIFICATION FairSpec
INVARIANT QueuedRecordsSurvive
PROPERTY QueueDrains

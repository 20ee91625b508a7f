CONSTANTS
  Proc = {s1, s2}
  NoFile = NoFile
  Key = {k1}
  Versions = 2
  Cap = 1
  StoneCap = 1
  Repush = {}
  FallbackAfterFailures = 1
SPECIFICATION Spec
SYMMETRY Symmetry
INVARIANTS QueuedRecordsSurvive OneEntryPerRecord
PROPERTIES FlushedStaysFlushed NothingLeavesUnanswered

CONSTANTS
  Proc = {s1, s2}
  NoFile = NoFile
  Signal = {i1}
  CloudOn = TRUE
  IOErrors = TRUE
  MaxTrail = 2
  MaxCalls = 4
SPECIFICATION Spec
SYMMETRY Symmetry
CHECK_DEADLOCK FALSE
INVARIANTS AckedProgressSurvives PromotedHasItsChunk
PROPERTIES SavesAreAtomic ProgressNeverRegresses TerminalIsFinal

CONSTANTS
  Proc = {s1, s2}
  NoFile = NoFile
  TaskId = {t1, t2}
  AfterId = {t1, t2}
  CheckKind = {}
  IOErrors = TRUE
  MaxClock = 5
  MaxAction = 2
  MaxTasks = 2
SPECIFICATION Spec
SYMMETRY Symmetry
CHECK_DEADLOCK FALSE
INVARIANTS TypeOK AckedTasksSurvive FreshCycleInheritsNothing ActionCounterIsFresh
INVARIANT OnlyHoldersUndoAReset
PROPERTIES CycleNeverRegresses

CONSTANTS
  Proc = {s1}
  NoFile = NoFile
  TaskId = {t1, t2}
  AfterId = {}
  CheckKind = {"failed"}
  IOErrors = FALSE
  MaxClock = 6
  MaxAction = 3
  MaxTasks = 2
  Job = {j1}
  NoTask = NoTask
SPECIFICATION SpecC
SYMMETRY Symmetry
CHECK_DEADLOCK FALSE
INVARIANTS ActionIdsAreUnique InFlightOverwriteKeepsTasks
INVARIANTS CancelledIsNeverRecorded AnsweredIsOnFile

CONSTANTS
  Pusher = {p1}
  Sweeper = {s1}
  Proposer = {s1}
  Title = {a, b}
  None = None
  Inclusive = TRUE
  Crowded = FALSE
  MaxEdits = 2
  MaxFaults = 2
  MaxEvents = 3
SPECIFICATION Spec
CHECK_DEADLOCK FALSE
INVARIANT OneTwin

CONSTANTS
  Pusher = {p1}
  Sweeper = {s1, s2}
  Proposer = {s1}
  Title = {a, b}
  None = None
  Inclusive = FALSE
  Crowded = TRUE
  MaxEdits = 2
  MaxFaults = 2
  MaxEvents = 2
SPECIFICATION Spec
SYMMETRY Symmetry
CHECK_DEADLOCK FALSE
INVARIANTS EveryChangeIsAskedFor NoEchoLoop
PROPERTY ConcededTitleStands

SPECIFICATION Spec
CONSTANTS
  Prepares = {p1}
  Starts = {s1, s2}
  Stops = {x1}
  Procs = {a}
  Batches = 2
  MaxRounds = 2
  MaxRestarts = 0
  Overrun = FALSE
INVARIANT OneEngine
CHECK_DEADLOCK FALSE

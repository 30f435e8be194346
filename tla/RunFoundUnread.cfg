SPECIFICATION Spec
CONSTANTS
  MostFall = 20
  MostUnread = 1
INVARIANT FoundIsNotGivenUp
CHECK_DEADLOCK FALSE

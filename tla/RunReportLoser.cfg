SPECIFICATION Spec
CONSTANTS
  Clicks = {c1, c2}
  Engines = {}
  Procs = {p1}
  Sections = {s1}
  Indexed = TRUE
  Blips = FALSE
  MaxDeaths = 0
  MaxDeletes = 0
  NoRow = NoRow
PROPERTIES OnlyItsWriterFails
CHECK_DEADLOCK FALSE

SPECIFICATION MCSpec
CONSTANTS
  Clicks = {c1}
  Engines = {e1}
  Procs = {p1, p2}
  Sections = {s1, s2}
  Indexed = TRUE
  Blips = TRUE
  MaxDeaths = 1
  MaxDeletes = 1
  NoRow = NoRow
  Uploads = {d1}
  Types = {"presentation", "docx"}
  Limit = 1
  Requests = {r1, r2}
  Slots = 1
INVARIANTS WriteUpsHold SlotsReturned CompleteHasText
PROPERTIES CompleteStays WriteUpsEnd UploadEnds
CHECK_DEADLOCK FALSE

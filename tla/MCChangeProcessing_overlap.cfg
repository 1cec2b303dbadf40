SPECIFICATION Spec
CONSTANTS
  d1 = d1
  d2 = d2
  r1 = r1
  c1 = c1
  c2 = c2
  NoFile = NoFile
  Devices = {d1}
  Requests = {r1}
  Contents = {c1, c2}
  Legacy <- OneLegacy
  LegacyContent = c1
  MaxEdits = 2
  MaxFailures = 1
  MaxDeletes = 1
INVARIANTS TypeOK NothingSkipped TimelineConnected
PROPERTIES CursorNeverRegresses NotifiedIsFinal
CHECK_DEADLOCK FALSE

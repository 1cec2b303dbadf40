SPECIFICATION DamagedSpec
CONSTANTS
  d1 = d1
  d2 = d2
  r1 = r1
  c1 = c1
  c2 = c2
  NoFile = NoFile
  Devices = {d1}
  Requests = {}
  Contents = {c1, c2}
  Legacy <- OneLegacy
  LegacyContent = c1
  MaxEdits = 2
  MaxFailures = 2
  MaxDeletes = 1
PROPERTIES HeadRecorded
CHECK_DEADLOCK FALSE

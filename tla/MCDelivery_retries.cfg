SPECIFICATION DeliverySpec
CONSTANTS
  d1 = d1
  r1 = r1
  c1 = c1
  c2 = c2
  NoFile = NoFile
  Devices = {d1}
  Requests = {r1}
  Contents = {c1, c2}
  Legacy <- OneLegacy
  LegacyContent = c1
  MaxEdits = 1
  MaxFailures = 1
  MaxDeletes = 1
  Notifiers <- BothNotifiers
  MinSeverity = ""
  AnalysedSeverity = "low"
PROPERTIES EveryCommitRecorded CatchesUp NotifiedIsFinal
CHECK_DEADLOCK FALSE

SPECIFICATION Spec
CONSTANTS
  d1 = d1
  d2 = d2
  h1 = h1
  h2 = h2
  k1 = k1
  k2 = k2
  v1 = v1
  v2 = v2
  Gone = Gone
  Main = Main
  Devices = {d1}
  Handlers = {h1}
  Confs = {k1, k2}
  BadConfs = {k2}
  Vendors = {v1, v2}
  MaxMutations = 1
  MaxFailures = 0
PROPERTIES RefreshRevives
CHECK_DEADLOCK FALSE

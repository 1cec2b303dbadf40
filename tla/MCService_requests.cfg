SPECIFICATION Spec
CONSTANTS
  dev = dev
  u = u
  v = v
  t1 = t1
  t2 = t2
  NoRow = NoRow
  NoToken = NoToken
  Ids = {dev}
  Secrets = {"alpha", "beta"}
  Clients = {u, v}
  Tokens = {t1, t2}
  Workloads <- MCWorkloads
  Stamps <- MCStamps
  DefaultLimit = 1
  MaxLimit = 2
  MaxWrites = 2
INVARIANTS TypeOK DoorStaysClosed WalkSeesAll
PROPERTY PatchKeepsSecrets
SYMMETRY ClientSymmetry
CHECK_DEADLOCK FALSE

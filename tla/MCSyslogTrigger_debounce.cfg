SPECIFICATION FairSpec
CONSTANTS
  d1 = d1
  d2 = d2
  u1 = u1
  u2 = u2
  s1 = s1
  s2 = s2
  s3 = s3
  NoSlot = NoSlot
  NoUser = NoUser
  Devices = {d1, d2}
  Users = {u1}
  Slots = {s1, s2, s3}
  Debounce = 2
  Cooldown = 2
  MapTTL = 1
  MaxToggles = 1
INVARIANTS TypeOK EveryTimerCounted SnapshotsApart CreditedToWindow
PROPERTIES OwnWindowOnly DisabledStaysQuiet ArmedIsSnapshotted ShutsDown
CHECK_DEADLOCK FALSE

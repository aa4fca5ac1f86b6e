SPECIFICATION LateSpec
CONSTANTS
  s1 = s1
  s2 = s2
  h1 = h1
  h2 = h2
  b1 = b1
  b2 = b2
  None = none
  Creator = creator
  Sessions = {s1, s2}
  Hooks = {h1, h2}
  Buyers = {}
  Unbilled = {creator}
  MaxDrops = 2
  MaxDups = 1
  PublishCap = 1
CHECK_DEADLOCK FALSE
PROPERTIES
  PaidUndone
  PaidIsDispatched

SPECIFICATION Spec
CONSTANTS
  s1 = s1
  s2 = s2
  h1 = h1
  h2 = h2
  b1 = b1
  b2 = b2
  None = none
  Creator = creator
  Sessions = {s1}
  Hooks = {h1}
  Buyers = {b1}
  Unbilled = {}
  MaxDrops = 0
  MaxDups = 1
  PublishCap = 2
CHECK_DEADLOCK FALSE
PROPERTIES
  RefundIsFinal

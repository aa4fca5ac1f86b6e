SPECIFICATION Spec
CONSTANTS
  s1 = s1
  s2 = s2
  h1 = h1
  h2 = h2
  b1 = b1
  b2 = b2
  None = none
  Creator = creator
  Sessions = {s1, s2}
  Hooks = {h1}
  Buyers = {b1, b2}
  Unbilled = {}
  MaxDrops = 1
  MaxDups = 1
  PublishCap = 1
SYMMETRY CallerSymmetry
CHECK_DEADLOCK FALSE
INVARIANTS
  TypeOK
  UnpaidNeverRuns
  IntentIsPaid
  OneOpenSession

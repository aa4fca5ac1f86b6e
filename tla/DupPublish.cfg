SPECIFICATION Spec
CONSTANTS
  m1 = m1
  m2 = m2
  w1 = w1
  w2 = w2
  Msgs = {m1, m2}
  Workers = {w1, w2}
  MaxDelivery = 5
  MaxAttempts = 3
  Pipeline <- FullPipeline
  Unguarded <- UnguardedBlocks
  Faults = {}
  RedeliverAt = {}
  CrashAt = {}
  MayVanish = FALSE
  RedisUp = TRUE
  RowCap = 2
CHECK_DEADLOCK FALSE
INVARIANTS
  OneExecution

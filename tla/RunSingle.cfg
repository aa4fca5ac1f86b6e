SPECIFICATION Spec
CONSTANTS
  m1 = m1
  m2 = m2
  w1 = w1
  w2 = w2
  Msgs = {m1}
  Workers = {w1, w2}
  MaxDelivery = 5
  MaxAttempts = 3
  Pipeline <- FullPipeline
  Unguarded <- UnguardedBlocks
  Faults = {"before", "after"}
  RedeliverAt = {"ack"}
  CrashAt = {"claimRead", "claimCommit", "refuseCard", "failCard", "doneCard", "ack", "nack", "markRead", "markCommit", "load", "progress", "agent", "uploadMd", "uploadJson", "uploadPdf", "finRead", "finCommit"}
  MayVanish = TRUE
  RedisUp = FALSE
  RowCap = 2
SYMMETRY HandlerSymmetry
CHECK_DEADLOCK FALSE
INVARIANTS
  TypeOK
  SucceededIsDelivered
  DoneIsDelivered
PROPERTIES
  KeepsContract

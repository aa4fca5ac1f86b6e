SPECIFICATION AnnouncedSpec
CONSTANTS
  m1 = m1
  m2 = m2
  w1 = w1
  w2 = w2
  Msgs = {m1, m2}
  Workers = {w1, w2}
  MaxDelivery = 2
  MaxAttempts = 3
  Pipeline <- OneBlock
  Unguarded <- UnguardedBlocks
  Faults = {}
  RedeliverAt = {"progress", "agent", "uploadMd", "uploadJson", "uploadPdf", "finRead", "finCommit"}
  CrashAt = {"claimRead", "claimCommit", "refuseCard", "failCard", "doneCard", "ack", "nack", "markRead", "markCommit", "load", "progress", "agent", "uploadMd", "uploadJson", "uploadPdf", "finRead", "finCommit"}
  MayVanish = FALSE
  RedisUp = TRUE
  RowCap = 2
CHECK_DEADLOCK FALSE
INVARIANTS
  OneExecutionPerMessage
  AckedRunIsSettled
PROPERTIES
  EventuallySettled
  VerdictIsAnnounced

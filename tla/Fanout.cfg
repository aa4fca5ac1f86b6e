SPECIFICATION FairSpec
CONSTANTS
  q1 = q1
  q2 = q2
  q3 = q3
  Orphan = Orphan
  Questions = {q1, q2, q3}
  Concurrency = 2
  Threads = 2
  Providers = 2
  Excess = 1
  Dearest = 3
  Estimate <- TwoPrices
  Cap = 2
  Cached <- FirstAnswer
CHECK_DEADLOCK FALSE
INVARIANTS TypeOK SpendIsBounded BillIsBounded
PROPERTIES EveryQuestionEnds

SPECIFICATION FairSpec
CONSTANTS
  w1 = w1
  w2 = w2
  Handlers = {w1, w2}
  Events = 1
  Quiet = {}
  MaxFaults = 2
INVARIANTS TypeOK FeedIsPrefix TailCatchesUp ShownIsRow
PROPERTIES CardReachesPage RowReachesPage
CHECK_DEADLOCK FALSE

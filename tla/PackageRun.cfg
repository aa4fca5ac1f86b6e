SPECIFICATION FairSpec
CONSTANTS
  Corpus = {"k1", "k2"}
  TopK = 2
  Questions = {"q1", "q2"}
  Url <- Pages
  Baseline <- Monthly
  Answers <- Replies
CHECK_DEADLOCK FALSE
INVARIANTS TypeOK PackagingNeverFails CitesNameTheirSource RubricIsMet
PROPERTIES GraphEnds

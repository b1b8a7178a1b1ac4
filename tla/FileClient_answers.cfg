SPECIFICATION FairSpec
CONSTANTS
  Client = {c1, c2}
  Thread = {h1, h2}
  MaxTrans = 2
  Total <- MCTotal
INVARIANTS
  TypeOK
  QueueUnfinished
PROPERTIES
  AnswersSpec
  RequestEnds
CHECK_DEADLOCK FALSE

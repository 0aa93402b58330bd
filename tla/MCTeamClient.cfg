SPECIFICATION PageSpec
CONSTANTS
  w1 = w1
  w2 = w2
  f1 = f1
  t1 = t1
  q1 = q1
  Nothing = Nothing
  Channels <- MCChannels
  Later = {3, 4}
  General = 4
  Threads <- MCThreads
  Approvals <- MCApprovals
  Words <- MCWords
  Files <- MCFiles
  Openings <- MCOpenings
  Page = 1
  MaxReads = 2
INVARIANTS
  WordsSentOnce
  OpenThreadIsListed
PROPERTY
  EventuallyFresh
CHECK_DEADLOCK FALSE

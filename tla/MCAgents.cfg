SPECIFICATION AgentsSpec
CONSTANTS
  pub = pub priv = priv Own = Own Me = Me User = User None = None
  Listed <- MCListed Private = {priv} Shapes <- MCShapes Starts <- MCStarts
  MaxThreads = 4 PageLimit = 2 SeekLimit = 1
CHECK_DEADLOCK FALSE
INVARIANTS AnsweredOncePerLife PassedIsSettled CursorInOrder
PROPERTY EventuallyRead

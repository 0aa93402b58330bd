SPECIFICATION FairSpec
CONSTANTS
    a1 = a1
    a2 = a2
    close = close
    c1 = c1
    c2 = c2
    t1 = t1
    Appends <- MCAppends
    Closes <- MCCloses
    Commits <- MCCommits
    Tails <- MCTails
    ChunksOf <- MCChunksOf
    KeyOf <- MCKeyOf
    MaxOverlapping = 3
    None = None
INVARIANTS
    TailSound
    CalmlyComplete
PROPERTIES
    RowsStayContiguous
    TailEnds
CHECK_DEADLOCK FALSE

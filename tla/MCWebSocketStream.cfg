SPECIFICATION FairSpec
CONSTANTS
    r1 = r1
    r2 = r2
    Requests <- MCRequests
    FromSeqs <- MCFromSeqs
    PerMessage = 2
    MaxEvents = 3
    MaxInputs = 4
    Limit = 2
    None = None
INVARIANTS
    SentFaithfully
    Contiguous
PROPERTIES
    LiveEventArrives
CHECK_DEADLOCK FALSE

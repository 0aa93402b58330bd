SPECIFICATION Spec
CONSTANTS
    ann = ann
    bob = bob
    c1 = c1
    t1 = t1
    m1 = m1
    m2 = m2
    f1 = f1
    p1 = p1
    p2 = p2
    Actors <- MCActors
    Channels <- MCChannels
    Threads <- MCThreads
    Messages <- MCMessages
    Artifacts <- MCArtifacts
    Calls <- MCCalls
    Founder = ann
    MaxCalls = 7
    MaxFaults = 1
    None = None
SYMMETRY Alike
INVARIANTS
    NothingHangs
    LiveArtifactsHaveBlobs
CHECK_DEADLOCK FALSE

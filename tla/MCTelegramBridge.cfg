SPECIFICATION Spec
CONSTANTS
    s1 = s1
    s2 = s2
    u1 = u1
    u2 = u2
    c1 = c1
    c2 = c2
    h1 = h1
    h2 = h2
    a1 = a1
    Setups <- MCSetups
    Updates <- MCUpdates
    Requests <- MCRequests
    Admins <- MCAdmins
    Human <- MCHuman
    Bot <- MCBot
    Chat <- MCChat
    MaxUpsets = 1
    Null = Null
SYMMETRY Alike
INVARIANTS
    RecordsTell
    CalmlyPaired
PROPERTIES
    RetiredForGood
CHECK_DEADLOCK FALSE

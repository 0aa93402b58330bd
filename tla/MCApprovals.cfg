SPECIFICATION Spec
CONSTANTS
    c1 = c1  c2 = c2  c3 = c3  c4 = c4  c5 = c5
    old1 = old1  old2 = old2  old3 = old3  bob = bob  dan = dan  eve = eve  general = general
    Admin = admin  NoOne = NoOne  OrgWide = OrgWide
    Actors = {admin, bob, dan, eve}
    Capabilities = {"grant:create", "deploy", "channel:admin"}
    ChannelAdmin <- MCChannelAdmin
    Calls = {c1, c2, c3, c4}
    InputsOf <- MCInputsOf
    OldGrants <- MCOldGrants
    MaxOpen = 3
INVARIANT OutcomesAgree
INVARIANT EventsRetell
INVARIANT OneLivePerChannelSlot
INVARIANT RevocationIsFinal
INVARIANT CalmlyResolved

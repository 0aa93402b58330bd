SPECIFICATION Spec
CONSTANTS
  ch = ch  th = th  m1 = m1  m2 = m2  alice = alice  bob = bob  a = a  b = b  hm = hm
  Actors = {alice, bob}
  Channels = {ch}  Threads = {th}  Messages = {m1, m2}
  ChannelOf <- MCChannelOf  ParentOf <- MCParentOf
  Says <- MCSays  Filler <- MCFiller  Start <- MCStart  Open = {}  Joined <- MCJoined
  MaxCalls = 2  MaxEvents = 4  MaxPending = 2  MaxJobs = 3  MaxFaults = 1  None = None
CHECK_DEADLOCK FALSE
INVARIANTS TypeOK CalmlyDerived LiveIsFound ShownIsReadable

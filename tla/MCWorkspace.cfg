SPECIFICATION Spec
CONSTANTS
  u1 = u1
  u2 = u2
  t1 = t1
  None = None
  Users <- MCUsers
  Programs <- MCPrograms
  Starts <- MCStarts
INVARIANTS
  OneActorOneOwner
  CalmlyGranted
  CalmlyOneIdentity
PROPERTY
  AnsweredForGood
CHECK_DEADLOCK FALSE

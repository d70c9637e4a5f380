SPECIFICATION FairSpec
CONSTANTS
  q1 = q1
  q2 = q2
  q3 = q3
  None = None
  Users <- MCUsers
  Active <- MCActive
  Requests <- MCRequests
  CodeSeen = {TRUE, FALSE}
INVARIANTS
  TypeOK
  NoHalfMadeChat
  ClashIsResolvable
PROPERTIES
  ImplementsRegistry
  EveryRequestEnds
CHECK_DEADLOCK FALSE

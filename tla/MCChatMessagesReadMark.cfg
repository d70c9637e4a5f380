SPECIFICATION Spec
CONSTANTS
  alice = alice
  bob = bob
  carol = carol
  hello = hello
  again = again
  intruding = intruding
  q1 = q1
  q2 = q2
  q3 = q3
  None = None
  Users <- MCUsers
  Members <- MCMembers
  Nonces <- MCNonces
  Author <- MCAuthor
  Requests <- MCRequests
  CodeSeen = {TRUE, FALSE}
INVARIANT ReadMarkIsMessageSeq
CHECK_DEADLOCK FALSE

SPECIFICATION Spec
CONSTANTS
  alice = alice
  bob = bob
  carol = carol
  a1 = a1
  a2 = a2
  c1 = c1
  hello = hello
  again = again
  intruding = intruding
  h1 = h1
  h2 = h2
  None = None
  Users <- MCUsers
  Members <- MCMembers
  Sockets <- MCSockets
  Owner <- MCOwner
  Nonces <- MCNonces
  Author <- MCAuthor
  Handlers <- MCHandlers
INVARIANTS
  OnlineIsOpen
CHECK_DEADLOCK FALSE

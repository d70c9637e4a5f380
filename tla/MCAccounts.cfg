CONSTANTS
  Nobody = Nobody
  ann = ann
  bob = bob
  Logins <- MCLogins
  Passwords = {p, q}
  Browsers = {b1}
  Calls = {c1, c2}
  MaxCalls = 4
  MaxUpsets = 2
SPECIFICATION Spec
INVARIANTS
  TypeOK
  DecidedOnce
  RevokedIsRefused
PROPERTIES
  ImplementsMembership
CHECK_DEADLOCK FALSE

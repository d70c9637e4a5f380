SPECIFICATION FairSpec
CONSTANTS
  s1 = s1
  s2 = s2
  s3 = s3
  None = None
  Sockets <- MCSockets
  MaxEvents = 4
  Pings = {2}
  MaxReconnectAttempts = 2
  MaxQueuedEvents = 2
  HeartbeatOn = TRUE
PROPERTIES
  OnlineEndsClosed
CHECK_DEADLOCK FALSE

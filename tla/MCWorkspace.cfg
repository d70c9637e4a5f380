CONSTANTS
  a = a
  b = b
  t1 = t1
  t2 = t2
  NoChat = NoChat
  Chats = {a, b}
  Tasks = {t1, t2}
  FirstLog <- MCFirstLog
  PageSize = 1
  MaxQueuedEvents = 1
  FirstRoutes = {a}
  MaxUpsets = 3
SYMMETRY Symmetry
SPECIFICATION Spec
INVARIANTS
  TypeOK
  PendingIsUnacked
  FeedCatchesUp
  OpenChatIsRead
  RouteFollowsChat
  LoadingHasRequest
PROPERTIES
  ImplementsSubmissions
CHECK_DEADLOCK FALSE

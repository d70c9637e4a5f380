CONSTANTS
  NoChat = NoChat
  NoQuery = NoQuery
  Chats = {c1, c2}
  Queries = {q1, q2}
  FirstSize = 3
  PageSize = 2
  View = 1
  Near = 0
  Edge = 0
  MaxSize = 4
  MaxQueries = 3
  MaxUpsets = 2
SPECIFICATION Spec
INVARIANTS
  SearchSettles
  OwnMessageIsSeen
CHECK_DEADLOCK FALSE

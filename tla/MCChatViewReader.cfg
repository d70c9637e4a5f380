CONSTANTS
  NoChat = NoChat
  NoQuery = NoQuery
  Chats = {c1}
  Queries = {q1}
  FirstSize = 2
  PageSize = 2
  View = 1
  Near = 0
  Edge = 0
  MaxSize = 3
  MaxQueries = 0
  MaxUpsets = 1
SPECIFICATION Spec
INVARIANTS
  ReadingIsKept
CHECK_DEADLOCK FALSE

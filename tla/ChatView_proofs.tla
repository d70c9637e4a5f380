--------------------------- MODULE ChatView_proofs ---------------------------
(***************************************************************************)
(* For any queries, chats and sizes, the search shows what it has.  At any *)
(* time at most one request answers what stands in the field: typing gives *)
(* the request id away before the timer of the new query can ask.  An id   *)
(* that outlives its query, after the session has expired, stays harmless  *)
(* because the field is empty until the next change.                       *)
(*                                                                         *)
(* And a message of the reader's own is seen: while the force lasts, every *)
(* list that is drawn is one that moves to its end, and the force ends no  *)
(* sooner than the two frames after the last send.                         *)
(***************************************************************************)
EXTENDS ChatView, TLAPS

SearchTypeOK ==
    /\ query \in Queries \cup {NoQuery}
    /\ results \in Queries \cup {NoQuery}
    /\ searching \in BOOLEAN
    /\ timer \in {NoQuery, query}
    /\ requestId \in Nat
    /\ searches \subseteq [query : Queries, id : Nat]

\* The requests that bear the current id.
Current == {r \in searches : r.id = requestId}

OneQuestion ==
    /\ \A r \in searches : r.id <= requestId
    /\ query # NoQuery => \A r \in Current : r.query = query
    /\ timer # NoQuery => Current = {}

IInv == SearchTypeOK /\ OneQuestion /\ SearchSettles

-----------------------------------------------------------------------------

LEMMA InitInv == Init => IInv
<1> SUFFICES ASSUME Init PROVE IInv
  OBVIOUS
<1>1. SearchTypeOK /\ OneQuestion
  BY DEF Init, SearchTypeOK, OneQuestion, Current
<1>2. SearchSettles
  BY DEF Init, SearchSettles
<1> QED
  BY <1>1, <1>2 DEF IInv

\* The steps of the feed and of the session draw what the search has, or do not touch it.
LEMMA QuietStep ==
  ASSUME IInv, UNCHANGED search, shown' = shown \/ shown' = ListData(query', results', searching')
  PROVE  IInv'
BY DEF IInv, search, SearchTypeOK, OneQuestion, SearchSettles, Current

LEMMA LoadOlderIsQuiet ==
  ASSUME NEW l, LoadOlder(l)
  PROVE  UNCHANGED search /\ shown' = ListData(query', results', searching')
BY DEF LoadOlder, Draws

LEMMA FeedStepInv ==
  ASSUME IInv, FeedStep
  PROVE  IInv'
<1>1. UNCHANGED search /\ (shown' = shown \/ shown' = ListData(query', results', searching'))
  <2>1. CASE Send \/ ApplyAck \/ ReadAnswered \/ StatusChanges \/ Reloads \/ CloseMobileChatPane
    BY <2>1 DEF Send, ApplyAck, ReadAnswered, StatusChanges, Reloads, CloseMobileChatPane, Draws
  <2>2. CASE PressLoadOlder
    BY <2>2, LoadOlderIsQuiet DEF PressLoadOlder
  <2>3. CASE Frame
    BY <2>3, LoadOlderIsQuiet DEF Frame
  <2>4. ASSUME NEW c \in Chats, ApplyCreatedMessage(c) \/ OpenChat(c)
        PROVE  UNCHANGED search /\ shown' = ListData(query', results', searching')
    BY <2>4 DEF ApplyCreatedMessage, OpenChat, Draws
  <2>5. ASSUME NEW c \in Chats, NEW isForced \in BOOLEAN,
               PageAnswered(c, isForced) \/ PageFailed(c, isForced)
        PROVE  UNCHANGED search /\ shown' = ListData(query', results', searching')
    BY <2>5 DEF PageAnswered, PageFailed, Draws
  <2>6. ASSUME NEW c \in Chats, NEW before \in 1 .. MaxSize,
               OlderAnswered(c, before) \/ OlderFailed(c, before)
        PROVE  UNCHANGED search /\ shown' = ListData(query', results', searching')
    BY <2>6 DEF OlderAnswered, OlderFailed, Draws
  <2>7. ASSUME NEW top \in 0 .. MaxSize, Scroll(top)
        PROVE  UNCHANGED search /\ (shown' = shown \/ shown' = ListData(query', results', searching'))
    BY <2>7, LoadOlderIsQuiet DEF Scroll
  <2> QED
    BY <2>1, <2>2, <2>3, <2>4, <2>5, <2>6, <2>7 DEF FeedStep
<1> QED
  BY <1>1, QuietStep

LEMMA TypeInv ==
  ASSUME IInv, NEW q \in Queries \cup {NoQuery}, Type(q)
  PROVE  IInv'
<1>1. requestId' = requestId + 1 /\ searches' = searches
  BY DEF Type
<1>2. Current' = {}
  BY <1>1 DEF IInv, SearchTypeOK, OneQuestion, Current
<1>3. SearchTypeOK' /\ OneQuestion'
  BY <1>1, <1>2 DEF Type, IInv, SearchTypeOK, OneQuestion
<1>4. SearchSettles'
  BY <1>1, <1>2, ChatViewAssumption DEF Type, Refreshes, SearchSettles, Current
<1> QED
  BY <1>3, <1>4 DEF IInv

LEMMA TimerFiresInv ==
  ASSUME IInv, TimerFires
  PROVE  IInv'
<1> DEFINE r == [query |-> timer, id |-> requestId]
<1>1. /\ timer = query /\ query # NoQuery /\ searching /\ Current = {}
      /\ r \in [query : Queries, id : Nat] /\ r.query = query /\ r.id = requestId
      /\ r = [query |-> query, id |-> requestId]
  BY DEF TimerFires, IInv, SearchTypeOK, OneQuestion, SearchSettles
<1>2. UNCHANGED <<query, results, searching, requestId, shown>> /\ timer' = NoQuery
      /\ searches' = searches \cup {r}
  BY DEF TimerFires
<1> HIDE DEF r
<1>3. Current' = {r}
  BY <1>1, <1>2 DEF Current
<1>4. SearchTypeOK' /\ OneQuestion'
  BY <1>1, <1>2, <1>3 DEF IInv, SearchTypeOK, OneQuestion
<1>5. SearchSettles'
  BY <1>1, <1>2 DEF IInv, SearchSettles
<1> QED
  BY <1>4, <1>5 DEF IInv

\* An answer, or a failure: nothing else is under way for the query.
LEMMA AnswerInv ==
  ASSUME IInv, NEW r \in searches, searches' = searches \ {r},
         UNCHANGED <<query, timer, requestId>>,
         \/ r.id # requestId /\ UNCHANGED <<results, searching, shown>>
         \/ /\ r.id = requestId
            /\ results' \in {r.query, NoQuery} /\ searching' = FALSE
            /\ shown' = ListData(query', results', searching')
  PROVE  IInv'
<1>1. r \in [query : Queries, id : Nat] /\ Current' = Current \ {r}
  BY DEF IInv, SearchTypeOK, Current
<1>2. SearchTypeOK' /\ OneQuestion'
  BY <1>1 DEF IInv, SearchTypeOK, OneQuestion
<1>3. CASE r.id # requestId
  <2>1. [query |-> query, id |-> requestId] # r
    BY <1>3
  <2>2. SearchSettles'
    BY <1>3, <2>1 DEF IInv, SearchSettles
  <2> QED
    BY <1>2, <2>2 DEF IInv
<1>4. CASE r.id = requestId
  <2>1. r \in Current /\ timer = NoQuery
    BY <1>4 DEF IInv, OneQuestion, Current
  <2>2. query # NoQuery => r = [query |-> query, id |-> requestId]
    BY <1>1, <1>4, <2>1 DEF IInv, OneQuestion
  <2>3. query # NoQuery => [query |-> query, id |-> requestId] \notin searches'
    BY <2>2
  <2>4. query # NoQuery => results' \in {NoQuery, query}
    BY <1>4, <2>1 DEF IInv, OneQuestion
  <2> QED
    BY <1>2, <1>4, <2>1, <2>3, <2>4 DEF IInv, SearchSettles
<1> QED
  BY <1>2, <1>3, <1>4 DEF IInv

LEMMA ClearInv ==
  ASSUME IInv, query' = NoQuery, results' = NoQuery, searching' = FALSE, timer' = NoQuery,
         requestId' \in {requestId, requestId + 1}, UNCHANGED searches,
         shown' = ListData(query', results', searching')
  PROVE  IInv'
<1>1. requestId \in Nat /\ \A r \in searches : r \in [query : Queries, id : Nat] /\ r.id <= requestId
  BY DEF IInv, SearchTypeOK, OneQuestion
<1>2. \A r \in searches : r.id <= requestId'
  BY <1>1
<1>3. SearchTypeOK' /\ OneQuestion'
  <2>1. requestId' \in Nat
    BY <1>1
  <2> QED
    BY <1>2, <2>1 DEF IInv, SearchTypeOK, OneQuestion
<1>4. SearchSettles'
  BY DEF SearchSettles
<1> QED
  BY <1>3, <1>4 DEF IInv

\* While something is searched for, x-app-shell's note, field and results agree, however
\* updateChatSearchQuery, the timer, late answers, clearChatSearch, handleSessionExpired and
\* the drawing of the shell follow one another.
THEOREM SearchAlwaysSettles == Spec => []SearchSettles
<1>1. ASSUME IInv, [Next]_vars PROVE IInv'
  <2>1. CASE FeedStep
    BY <1>1, <2>1, FeedStepInv
  <2>2. ASSUME NEW q \in Queries \cup {NoQuery}, Type(q) PROVE IInv'
    BY <1>1, <2>2, TypeInv
  <2>3. CASE TimerFires
    BY <1>1, <2>3, TimerFiresInv
  <2>4. ASSUME NEW r \in searches, SearchAnswered(r) \/ SearchFailed(r) PROVE IInv'
    BY <1>1, <2>4, AnswerInv DEF SearchAnswered, SearchFailed, Refreshes, Draws
  <2>5. ASSUME NEW c \in Chats, SelectResult(c) PROVE IInv'
    BY <1>1, <2>5, ClearInv DEF SelectResult, ClearChatSearch, Draws
  <2>6. CASE Logout \/ HandleSessionExpired
    BY <1>1, <2>6, ClearInv DEF Logout, HandleSessionExpired, ClearChatSearch, ClearSession, Draws
  <2>7. CASE SignIn
    BY <1>1, <2>7, QuietStep DEF SignIn, Draws
  <2>8. CASE UNCHANGED vars
    BY <1>1, <2>8, QuietStep DEF vars
  <2> QED
    BY <1>1, <2>1, <2>2, <2>3, <2>4, <2>5, <2>6, <2>7, <2>8 DEF Next, SearchStep
<1>2. IInv => SearchSettles
  BY DEF IInv
<1> QED
  BY <1>1, <1>2, InitInv, PTL DEF Spec

-----------------------------------------------------------------------------
(* The reader's own message. *)

RowsType == [first : Int, last : Int, more : BOOLEAN, loading : BOOLEAN]

ListType ==
    [chat : Chats \cup {NoChat}, frame : {"none", "fresh", "second", "third", "done"},
     first : Int, last : Int, top : Int, goal : {"none", "bottom", "offset"}, from : Int]

FeedTypeOK ==
    /\ active \in Chats \cup {NoChat}
    /\ rows \in [Chats -> RowsType]
    /\ size \in [Chats -> Int]
    /\ forced \in BOOLEAN /\ releases \subseteq {1, 2}
    /\ list \in ListType
    /\ following \in BOOLEAN /\ window \in 0 .. 2

\* What draws the feed next will move it to its end, or has moved it there.
AtBottom(l) ==
    /\ l.chat # NoChat
    /\ l.goal = "bottom"
    /\ l.frame \in {"fresh", "second", "third", "done"}
    /\ l.frame = "done" => l.top = Bottom(l)

\* The force outlasts the window, and within it the list goes to its end.
FollowInv ==
    following => /\ AtBottom(list) /\ active = list.chat
                 /\ window > 0 => forced /\ \A n \in releases : n >= window

OwnInv == FeedTypeOK /\ FollowInv

LEMMA MaxOfTwo ==
    ASSUME NEW a \in Int, NEW b \in Int
    PROVE  /\ Max({a, b}) \in Int
           /\ Max({a, b}) = IF a >= b THEN a ELSE b
<1> DEFINE top == IF a >= b THEN a ELSE b
<1>1. top \in {a, b} /\ \A y \in {a, b} : top >= y
  OBVIOUS
<1>2. \A x \in {a, b} : (\A y \in {a, b} : x >= y) => x = top
  OBVIOUS
<1> QED
  BY <1>1, <1>2 DEF Max

LEMMA MinOfTwo ==
    ASSUME NEW a \in Int, NEW b \in Int
    PROVE  Min({a, b}) \in Int
<1>1. \E x \in {a, b} : \A y \in {a, b} : x <= y
  OBVIOUS
<1> QED
  BY <1>1 DEF Min

LEMMA BottomType == ASSUME NEW l \in ListType PROVE Bottom(l) \in Int
<1>1. View \in Int /\ 0 \in Int
  BY ChatViewAssumption
<1>2. Height(l) - View \in Int
  BY <1>1 DEF ListType, Height
<1> QED
  BY <1>1, <1>2, MaxOfTwo DEF Bottom

\* A list that render draws is a list.
LEMMA RenderType ==
    ASSUME NEW l \in ListType, NEW chat \in Chats \cup {NoChat}, NEW r \in RowsType,
           NEW sticky, NEW anchor
    PROVE  Render(l, chat, r, sticky, anchor) \in ListType
<1>1. CASE chat = NoChat
  BY <1>1 DEF Render, NoList, ListType
<1>2. CASE chat # NoChat
  <2>1. PICK goal \in {"bottom", "offset"},
             from \in {0, l.top, r.last - r.first + 1 - Height(l) + l.top} :
          Render(l, chat, r, sticky, anchor)
            = [chat |-> chat, frame |-> "fresh", first |-> r.first, last |-> r.last,
               top |-> 0, goal |-> goal, from |-> from]
    BY <1>2, Zenon DEF Render
  <2>2. from \in Int /\ r.first \in Int /\ r.last \in Int
    BY DEF ListType, RowsType, Height
  <2> QED
    BY <2>1, <2>2 DEF ListType
<1> QED
  BY <1>1, <1>2

\* A list drawn while it is forced to its end, or when the one before was there.
LEMMA RenderToBottom ==
    ASSUME NEW l, NEW chat, NEW r, NEW sticky \in BOOLEAN, chat # NoChat,
           sticky = TRUE \/ IsNearBottom(l)
    PROVE  /\ AtBottom(Render(l, chat, r, sticky, NoChat))
           /\ Render(l, chat, r, sticky, NoChat).chat = chat
  BY DEF Render, AtBottom

LEMMA RowsOfType ==
    ASSUME NEW rs \in [Chats -> RowsType], NEW c \in Chats \cup {NoChat}
    PROVE  RowsOf(rs, c) \in RowsType
  BY DEF RowsOf, RowsType, Empty

\* A drawing while the force lasts as long as the window, or begins anew.
LEMMA DrawnWhileForced ==
    ASSUME OwnInv,
           following' = (following /\ window > 0), window' = window, active' = active,
           ForceBottom \/ UNCHANGED force,
           rows' \in [Chats -> RowsType], size' \in [Chats -> Int],
           NEW l \in ListType, NEW r \in RowsType, NEW sticky \in BOOLEAN, forced => sticky,
           list' = Render(l, active, r, sticky, NoChat)
    PROVE  OwnInv'
<1>1. forced' \in BOOLEAN /\ releases' \subseteq {1, 2}
  BY DEF OwnInv, FeedTypeOK, ForceBottom, force
<1>2. following' \in BOOLEAN /\ window' \in 0 .. 2
  BY DEF OwnInv, FeedTypeOK
<1>3. FeedTypeOK'
  BY <1>1, <1>2, RenderType DEF OwnInv, FeedTypeOK
<1>4. ASSUME following'
      PROVE  /\ AtBottom(list') /\ active' = list'.chat
             /\ window' > 0 => forced' /\ \A n \in releases' : n >= window'
  <2>1. /\ following /\ window > 0 /\ forced /\ active = list.chat /\ list.chat # NoChat
        /\ \A n \in releases : n >= window
    BY <1>4 DEF OwnInv, FollowInv, AtBottom
  <2>2. AtBottom(list') /\ active' = list'.chat
    <3> DEFINE new == Render(l, active, r, sticky, NoChat)
    <3>1. sticky = TRUE /\ active # NoChat
      BY <2>1
    <3>2. AtBottom(new) /\ new.chat = active
      BY <3>1, RenderToBottom
    <3>3. list' = new
      OBVIOUS
    <3> HIDE DEF new
    <3> QED
      BY <3>2, <3>3
  <2>3. CASE ForceBottom
    <3>1. forced' = TRUE /\ releases' = {2} /\ 2 >= window'
      BY <1>2, <2>3 DEF ForceBottom
    <3>2. forced' /\ \A n \in releases' : n >= window'
      BY <3>1
    <3> QED
      BY <2>2, <3>2
  <2>4. CASE UNCHANGED force
    BY <2>1, <2>2, <2>4 DEF force
  <2> QED
    BY <2>3, <2>4
<1>5. FollowInv'
  BY <1>4 DEF FollowInv, AtBottom, Bottom, Height
<1> QED
  BY <1>3, <1>5 DEF OwnInv

\* A drawing after which the reader does not follow a message of their own.
LEMMA DrawnNotFollowing ==
    ASSUME OwnInv,
           following' = FALSE, window' = window, active' \in Chats \cup {NoChat},
           forced' \in BOOLEAN, releases' \subseteq {1, 2},
           rows' \in [Chats -> RowsType], size' \in [Chats -> Int],
           NEW l \in ListType, NEW r \in RowsType, NEW sticky,
           list' = Render(l, active', r, sticky, NoChat)
    PROVE  OwnInv'
<1>1. FeedTypeOK'
  BY RenderType DEF OwnInv, FeedTypeOK
<1> QED
  BY <1>1 DEF OwnInv, FollowInv

\* A step that touches nothing the feed is drawn from.
LEMMA FeedUntouched ==
    ASSUME OwnInv, UNCHANGED <<active, rows, size, forced, releases, list, following, window>>
    PROVE  OwnInv'
BY DEF OwnInv, FeedTypeOK, FollowInv, ListType, AtBottom, Bottom, Height

LEMMA OneMore ==
    ASSUME OwnInv, NEW c \in Chats, size' = [size EXCEPT ![c] = @ + 1],
           \/ rows' = rows
           \/ rows' = [rows EXCEPT ![c].first = IF rows[c].last = 0 THEN size'[c] ELSE @,
                                   ![c].last = size'[c]]
    PROVE  rows' \in [Chats -> RowsType] /\ size' \in [Chats -> Int]
<1>1. size' \in [Chats -> Int] /\ size'[c] \in Int
  BY DEF OwnInv, FeedTypeOK
<1>2. rows' \in [Chats -> RowsType]
  BY <1>1 DEF OwnInv, FeedTypeOK, RowsType
<1> QED
  BY <1>1, <1>2

LEMMA SendOwn == ASSUME OwnInv, Send PROVE OwnInv'
<1>1. /\ active \in Chats /\ active # NoChat /\ active' = active
      /\ forced' = TRUE /\ releases' = {2}
      /\ following' = TRUE /\ window' = 2
      /\ list' = DrawnTwice
  BY DEF Send, OwnInv, FeedTypeOK, ForceBottom, Draws
<1>2. rows' \in [Chats -> RowsType] /\ size' \in [Chats -> Int]
  BY <1>1, OneMore DEF Send
<1> DEFINE r == RowsOf(rows', active')
           l == Render(list, active', r, forced', NoChat)
<1>3. r \in RowsType
  BY <1>1, <1>2, RowsOfType
<1>4. list' = Render(l, active', r, forced', NoChat)
  BY <1>1 DEF DrawnTwice, RenderTwice
<1> HIDE DEF r
<1>9. l \in ListType
  BY <1>1, <1>3, RenderType DEF OwnInv, FeedTypeOK
<1> HIDE DEF l
<1>5. list' \in ListType
  BY <1>1, <1>3, <1>4, <1>9, RenderType
<1>6. AtBottom(list') /\ list'.chat = active'
  <2> DEFINE new == Render(l, active', r, forced', NoChat)
  <2>1. AtBottom(new) /\ new.chat = active'
    BY <1>1, RenderToBottom
  <2>2. list' = new
    BY <1>4
  <2> HIDE DEF new
  <2> QED
    BY <2>1, <2>2
<1>7. FeedTypeOK'
  BY <1>1, <1>2, <1>5 DEF FeedTypeOK
<1>8. FollowInv'
  BY <1>1, <1>6 DEF FollowInv, AtBottom, Bottom, Height
<1> QED
  BY <1>7, <1>8 DEF OwnInv

\* requestOlderMessages asks once, and marks the chat.
LEMMA LoadOlderType ==
    ASSUME OwnInv, NEW l, LoadOlder(l), CanLoadOlder
    PROVE  /\ rows' \in [Chats -> RowsType] /\ size' = size /\ active' = active
           /\ rows[active] \in RowsType /\ active \in Chats /\ active # NoChat
           /\ \E isForced \in {forced, forced'} :
                list' = Render(l, active, rows[active], isForced, NoChat)
<1>1. active \in Chats /\ active # NoChat
  BY DEF OwnInv, FeedTypeOK, CanLoadOlder
<1>2. rows' \in [Chats -> RowsType] /\ rows[active] \in RowsType
  BY <1>1 DEF LoadOlder, OwnInv, FeedTypeOK, RowsType
<1> QED
  BY <1>1, <1>2 DEF LoadOlder, Draws

LEMMA Replaced ==
    ASSUME NEW l \in ListType, NEW top \in Int, NEW frame \in {"second", "third", "done"}
    PROVE  LET m == [l EXCEPT !.top = top, !.frame = frame]
           IN  /\ m \in ListType /\ m.first = l.first /\ m.last = l.last
               /\ m.top = top /\ m.frame = frame /\ m.chat = l.chat /\ m.goal = l.goal
  BY DEF ListType

\* The reader scrolls a list that has come to rest.
LEMMA ScrollOwn == ASSUME OwnInv, NEW top \in Int, Scroll(top) PROVE OwnInv'
<1> DEFINE moved == [list EXCEPT !.top = top]
<1>1. /\ list.frame = "done" /\ following' = (following /\ top = Bottom(list))
      /\ UNCHANGED <<forced, releases, window>>
  BY DEF Scroll, force
<1>2. list \in ListType /\ forced \in BOOLEAN
  BY DEF OwnInv, FeedTypeOK
<1>3. /\ moved \in ListType /\ Bottom(moved) = Bottom(list) /\ moved.top = top
      /\ moved.frame = list.frame /\ moved.chat = list.chat /\ moved.goal = list.goal
  <2>1. /\ moved.first = list.first /\ moved.last = list.last
        /\ moved.top = top /\ moved.frame = list.frame /\ moved.chat = list.chat
        /\ moved.goal = list.goal /\ moved \in ListType
    BY <1>2 DEF ListType
  <2> QED
    BY <2>1 DEF Bottom, Height
<1>4. CASE LoadOlder(moved) /\ CanLoadOlder
  <2>1. /\ rows' \in [Chats -> RowsType] /\ size' = size /\ active' = active
        /\ rows[active] \in RowsType /\ active \in Chats /\ active # NoChat
        /\ \E isForced \in {forced, forced'} :
             list' = Render(moved, active, rows[active], isForced, NoChat)
    BY <1>4, LoadOlderType
  <2> HIDE DEF moved
  <2>2. PICK isForced \in BOOLEAN :
          list' = Render(moved, active, rows[active], isForced, NoChat)
    BY <1>1, <1>2, <2>1
  <2>3. list' \in ListType
    BY <1>3, <2>1, <2>2, RenderType
  <2>4. ASSUME following' PROVE AtBottom(list') /\ list'.chat = active
    <3> DEFINE new == Render(moved, active, rows[active], isForced, NoChat)
    <3>1. Bottom(moved) - moved.top = 0
      <4>1. Bottom(moved) = moved.top
        BY <1>1, <1>3, <2>4
      <4>2. Bottom(moved) \in Int
        BY <1>3, BottomType
      <4> QED
        BY <4>1, <4>2
    <3>2. IsNearBottom(moved)
      BY <3>1, ChatViewAssumption DEF IsNearBottom
    <3>3. AtBottom(new) /\ new.chat = active
      BY <2>1, <3>2, RenderToBottom
    <3>4. list' = new
      BY <2>2
    <3> HIDE DEF new
    <3> QED
      BY <3>3, <3>4
  <2>5. FeedTypeOK'
    BY <1>1, <2>1, <2>3 DEF OwnInv, FeedTypeOK
  <2>6. FollowInv'
    BY <1>1, <2>1, <2>4 DEF OwnInv, FollowInv, AtBottom, Bottom, Height
  <2> QED
    BY <2>5, <2>6 DEF OwnInv
<1>5. CASE list' = moved /\ UNCHANGED feed
  <2>1. list' = moved /\ UNCHANGED <<active, rows, size>>
    BY <1>5 DEF feed
  <2> HIDE DEF moved
  <2>2. FeedTypeOK'
    BY <1>1, <1>3, <2>1 DEF OwnInv, FeedTypeOK, ListType
  <2>3. ASSUME following' PROVE AtBottom(moved) /\ moved.chat = active
    BY <1>1, <1>3, <2>3 DEF OwnInv, FollowInv, AtBottom
  <2>4. FollowInv'
    BY <1>1, <2>1, <2>3 DEF OwnInv, FollowInv, AtBottom, Bottom, Height
  <2> QED
    BY <2>2, <2>4 DEF OwnInv
<1> QED
  BY <1>4, <1>5 DEF Scroll

\* A frame moves a new list to its end, and may be the last of the force and the window.
LEMMA FrameOwn == ASSUME OwnInv, Frame PROVE OwnInv'
<1>1. /\ following' = following
      /\ releases' = {n \in {1} : n + 1 \in releases}
      /\ forced' = (forced /\ 1 \notin releases)
      /\ window' = Max({0, window - 1})
  BY DEF Frame
<1>2. window \in 0 .. 2 /\ list \in ListType /\ forced \in BOOLEAN /\ releases \subseteq {1, 2}
  BY DEF OwnInv, FeedTypeOK
<1>3. window' \in 0 .. 2 /\ (window' > 0 => window = 2 /\ window' = 1)
  <2>1. window' = IF 0 >= window - 1 THEN 0 ELSE window - 1
    BY <1>1, <1>2, MaxOfTwo
  <2> QED
    BY <1>2, <2>1
<1>4. forced' \in BOOLEAN /\ releases' \subseteq {1, 2} /\ following' \in BOOLEAN
  BY <1>1 DEF OwnInv, FeedTypeOK
<1>5. ASSUME following, window' > 0 PROVE forced' /\ \A n \in releases' : n >= window'
  <2>1. forced /\ \A n \in releases : n >= 2
    BY <1>3, <1>5 DEF OwnInv, FollowInv
  <2>2. 1 \notin releases
    BY <2>1
  <2>3. \A n \in releases' : n = 1
    BY <1>1
  <2>4. forced' = TRUE
    BY <1>1, <2>1, <2>2
  <2>5. \A n \in releases' : n >= window'
    BY <1>3, <1>5, <2>3
  <2> QED
    BY <2>4, <2>5
<1>9. ASSUME list.goal # "bottom" PROVE Moved \in ListType
  <2>1. Bottom(list) \in Int /\ list.from \in Int
    BY <1>2, BottomType DEF ListType
  <2>2. Clamped(list, list.from) \in Int
    <3> DEFINE lower == Min({list.from, Bottom(list)})
    <3>1. lower \in Int
      BY <2>1, MinOfTwo
    <3> HIDE DEF lower
    <3>2. Max({0, lower}) \in Int
      BY <3>1, MaxOfTwo
    <3> QED
      BY <3>2 DEF Clamped, lower
  <2>3. Moved = [list EXCEPT !.top = Clamped(list, list.from), !.frame = "done"]
    BY <1>9 DEF Moved
  <2> QED
    BY <1>2, <2>2, <2>3, Replaced
<1>6. CASE UNCHANGED <<feed, list>>
  <2>1. UNCHANGED <<active, rows, size, list>>
    BY <1>6 DEF feed
  <2>2. FeedTypeOK'
    BY <1>3, <1>4, <2>1 DEF OwnInv, FeedTypeOK, ListType
  <2>3. FollowInv'
    BY <1>1, <1>5, <2>1 DEF OwnInv, FollowInv, AtBottom, Bottom, Height
  <2> QED
    BY <2>2, <2>3 DEF OwnInv
<1>7. CASE list.goal = "offset" /\ LoadOlder(Moved) /\ CanLoadOlder
  <2>1. /\ rows' \in [Chats -> RowsType] /\ size' = size /\ active' = active
        /\ rows[active] \in RowsType /\ active \in Chats
        /\ \E isForced \in {forced, forced'} :
             list' = Render(Moved, active, rows[active], isForced, NoChat)
    BY <1>7, LoadOlderType
  <2>2. list' \in ListType
    <3>1. Moved \in ListType
      BY <1>7, <1>9
    <3> QED
      BY <2>1, <3>1, RenderType
  <2>3. ~following
    BY <1>7 DEF OwnInv, FollowInv, AtBottom
  <2>4. FeedTypeOK'
    BY <1>3, <1>4, <2>1, <2>2 DEF OwnInv, FeedTypeOK
  <2> QED
    BY <1>1, <2>3, <2>4 DEF OwnInv, FollowInv
<1>8. CASE list.frame \in {"fresh", "second", "third"} /\ list' = Moved /\ UNCHANGED feed
  <2>1. UNCHANGED <<active, rows, size>>
    BY <1>8 DEF feed
  <2>2. CASE list.goal = "bottom"
    <3> DEFINE next == NextFrame[list.frame]
               end == Bottom(list)
               moved == [list EXCEPT !.top = end, !.frame = next]
    <3>1. next \in {"second", "third", "done"}
      BY <1>8 DEF NextFrame
    <3>2. list' = moved
      BY <1>8, <2>2 DEF Moved
    <3> HIDE DEF next, end
    <3>3. /\ moved \in ListType /\ Bottom(moved) = Bottom(list)
          /\ moved.top = end /\ moved.frame = next
          /\ moved.chat = list.chat /\ moved.goal = list.goal
      <4>1. /\ moved.first = list.first /\ moved.last = list.last
            /\ moved.top = end /\ moved.frame = next /\ moved.chat = list.chat
            /\ moved.goal = list.goal /\ moved \in ListType
        <5>1. end \in Int
          BY <1>2, BottomType DEF end
        <5> QED
          BY <1>2, <3>1, <5>1 DEF ListType
      <4> QED
        BY <4>1 DEF Bottom, Height
    <3> HIDE DEF moved
    <3>4. FeedTypeOK'
      BY <1>3, <1>4, <2>1, <3>2, <3>3 DEF OwnInv, FeedTypeOK, ListType
    <3>5. ASSUME following PROVE AtBottom(moved) /\ active = moved.chat
      BY <3>1, <3>3, <3>5 DEF OwnInv, FollowInv, AtBottom, end
    <3>6. FollowInv'
      BY <1>1, <1>5, <2>1, <3>2, <3>5 DEF FollowInv, AtBottom, Bottom, Height
    <3> QED
      BY <3>4, <3>6 DEF OwnInv
  <2>3. CASE list.goal # "bottom"
    <3>1. Moved \in ListType
      BY <1>9, <2>3
    <3>2. FeedTypeOK'
      BY <1>3, <1>4, <1>8, <2>1, <3>1 DEF OwnInv, FeedTypeOK, ListType
    <3>3. ~following
      BY <2>3 DEF OwnInv, FollowInv, AtBottom
    <3> QED
      BY <1>1, <3>2, <3>3 DEF OwnInv, FollowInv
  <2> QED
    BY <2>2, <2>3
<1> QED
  BY <1>6, <1>7, <1>8 DEF Frame

\* A step that draws once or twice while the reader is watched.
LEMMA WatchedOwn ==
    ASSUME OwnInv,
           following' = (following /\ window > 0), window' = window, active' = active,
           ForceBottom \/ UNCHANGED force,
           rows' \in [Chats -> RowsType], size' \in [Chats -> Int], NEW anchor,
           \/ list' = Drawn
           \/ list' = DrawnTwice
           \/ list' = RenderTwice(list, active, RowsOf(rows', active), forced', anchor)
           \/ list' = Render(Render(list, active, RowsOf(rows, active), forced, NoChat),
                             active, RowsOf(rows, active), forced', NoChat)
    PROVE  OwnInv'
<1> DEFINE old == RowsOf(rows, active)
           new == RowsOf(rows', active)
           first == Render(list, active, new, forced', NoChat)
           kept == Render(list, active, new, forced', anchor)
           before == Render(list, active, old, forced, NoChat)
<1>1. /\ active \in Chats \cup {NoChat} /\ list \in ListType
      /\ rows \in [Chats -> RowsType] /\ forced \in BOOLEAN
  BY DEF OwnInv, FeedTypeOK
<1>2. old \in RowsType /\ new \in RowsType
  BY <1>1, RowsOfType
<1> HIDE DEF old, new
<1>3. first \in ListType /\ kept \in ListType /\ before \in ListType
  BY <1>1, <1>2, RenderType
<1>4. forced' \in BOOLEAN /\ (forced => forced')
  BY <1>1 DEF ForceBottom, force
<1>5. \/ list' = Render(list, active, new, forced', NoChat)
      \/ list' = Render(first, active, new, forced', NoChat)
      \/ list' = Render(kept, active, new, forced', NoChat)
      \/ list' = Render(before, active, old, forced', NoChat)
  BY DEF Drawn, DrawnTwice, RenderTwice, old, new
<1> HIDE DEF first, kept, before
<1>6. CASE list' = Render(list, active, new, forced', NoChat)
  BY <1>1, <1>2, <1>4, <1>6, DrawnWhileForced
<1>7. CASE list' = Render(first, active, new, forced', NoChat)
  BY <1>2, <1>3, <1>4, <1>7, DrawnWhileForced
<1>8. CASE list' = Render(kept, active, new, forced', NoChat)
  BY <1>2, <1>3, <1>4, <1>8, DrawnWhileForced
<1>9. CASE list' = Render(before, active, old, forced', NoChat)
  BY <1>2, <1>3, <1>4, <1>9, DrawnWhileForced
<1> QED
  BY <1>5, <1>6, <1>7, <1>8, <1>9

\* Opening a chat, leaving it and leaving the session.
LEMMA LeaveOwn ==
    ASSUME OwnInv,
           following' = FALSE, window' = window, active' \in Chats \cup {NoChat},
           \/ ForceBottom
           \/ UNCHANGED force
           \/ forced' = FALSE /\ releases' = {},
           rows' \in [Chats -> RowsType], size' = size,
           list' = Drawn \/ list' = DrawnTwice
    PROVE  OwnInv'
<1> DEFINE new == RowsOf(rows', active')
           first == Render(list, active', new, forced', NoChat)
<1>1. list \in ListType /\ size' \in [Chats -> Int]
  BY DEF OwnInv, FeedTypeOK
<1>2. forced' \in BOOLEAN /\ releases' \subseteq {1, 2}
  BY DEF OwnInv, FeedTypeOK, ForceBottom, force
<1>3. new \in RowsType
  BY RowsOfType
<1> HIDE DEF new
<1>4. first \in ListType
  BY <1>1, <1>3, RenderType
<1>5. \/ list' = Render(list, active', new, forced', NoChat)
      \/ list' = Render(first, active', new, forced', NoChat)
  BY DEF Drawn, DrawnTwice, RenderTwice, new
<1> HIDE DEF first
<1>6. CASE list' = Render(list, active', new, forced', NoChat)
  BY <1>1, <1>2, <1>3, <1>6, DrawnNotFollowing
<1>7. CASE list' = Render(first, active', new, forced', NoChat)
  BY <1>1, <1>2, <1>3, <1>4, <1>7, DrawnNotFollowing
<1> QED
  BY <1>5, <1>6, <1>7

LEMMA PageOwn ==
    ASSUME OwnInv, NEW c \in Chats, NEW isForced \in BOOLEAN,
           PageAnswered(c, isForced) \/ PageFailed(c, isForced)
    PROVE  OwnInv'
<1>1. ForceBottom \/ UNCHANGED force
  BY DEF PageAnswered, PageFailed
<1>2. CASE PageAnswered(c, isForced)
  <2> DEFINE first == Max({1, size[c] - PageSize + 1})
  <2>1. first \in Int /\ size[c] \in Int
    <3>1. size[c] \in Int /\ size[c] - PageSize + 1 \in Int
      BY ChatViewAssumption DEF OwnInv, FeedTypeOK
    <3> QED
      BY <3>1, MaxOfTwo
  <2>2. rows' = [rows EXCEPT ![c] = [first |-> first, last |-> size[c], more |-> first > 1,
                                     loading |-> FALSE]]
    BY <1>2 DEF PageAnswered
  <2> HIDE DEF first
  <2>3. rows' \in [Chats -> RowsType]
    BY <2>1, <2>2 DEF OwnInv, FeedTypeOK, RowsType
  <2>4. size' \in [Chats -> Int]
    BY <1>2 DEF PageAnswered, OwnInv, FeedTypeOK
  <2>5. /\ following' = (following /\ window > 0) /\ window' = window
        /\ active' = active /\ list' = DrawnTwice
    BY <1>2 DEF PageAnswered, Draws
  <2> QED
    BY <1>1, <2>3, <2>4, <2>5, WatchedOwn
<1>3. CASE PageFailed(c, isForced)
  <2>1. rows' \in [Chats -> RowsType] /\ size' \in [Chats -> Int]
    BY <1>3 DEF PageFailed, OwnInv, FeedTypeOK
  <2>2. /\ following' = (following /\ window > 0) /\ window' = window /\ active' = active
        /\ list' = Render(Render(list, active, RowsOf(rows, active), forced, NoChat),
                          active, RowsOf(rows, active), forced', NoChat)
    BY <1>3 DEF PageFailed, Draws, Watches
  <2> QED
    BY <1>1, <2>1, <2>2, WatchedOwn
<1> QED
  BY <1>2, <1>3

LEMMA OlderOwn ==
    ASSUME OwnInv, NEW c \in Chats, NEW before \in 1 .. MaxSize,
           OlderAnswered(c, before) \/ OlderFailed(c, before)
    PROVE  OwnInv'
<1>1. /\ following' = (following /\ window > 0) /\ window' = window /\ active' = active
      /\ UNCHANGED force /\ forced' = forced
  BY DEF OlderAnswered, OlderFailed, Watches, force
<1>2. size' \in [Chats -> Int]
  BY DEF OlderAnswered, OlderFailed, OwnInv, FeedTypeOK
<1>3. CASE OlderAnswered(c, before)
  <2> DEFINE first == Max({1, before - PageSize})
             least == Min({first, rows[c].first})
  <2>1. before \in Int /\ before - PageSize \in Int /\ rows[c].first \in Int
        /\ rows[c].last \in Int
    BY ChatViewAssumption DEF OwnInv, FeedTypeOK, RowsType
  <2>2. first \in Int
    BY <2>1, MaxOfTwo
  <2> HIDE DEF first
  <2>3. least \in Int
    BY <2>1, <2>2, MinOfTwo
  <2>4. rows' = [rows EXCEPT ![c] = [first |-> IF rows[c].last = 0 THEN first ELSE least,
                                     last |-> IF rows[c].last = 0 THEN before - 1
                                              ELSE rows[c].last,
                                     more |-> first > 1, loading |-> FALSE]]
    BY <1>3 DEF OlderAnswered, first
  <2> HIDE DEF least
  <2>5. rows' \in [Chats -> RowsType]
    BY <2>1, <2>2, <2>3, <2>4 DEF OwnInv, FeedTypeOK, RowsType
  <2>6. list' = RenderTwice(list, active, RowsOf(rows', active), forced', c)
    BY <1>1, <1>3 DEF OlderAnswered, Draws
  <2> QED
    BY <1>1, <1>2, <2>5, <2>6, WatchedOwn
<1>4. CASE OlderFailed(c, before)
  <2>1. rows' \in [Chats -> RowsType]
    BY <1>4 DEF OlderFailed, OwnInv, FeedTypeOK, RowsType
  <2>2. list' = DrawnTwice
    BY <1>4 DEF OlderFailed, Draws
  <2> QED
    BY <1>1, <1>2, <2>1, <2>2, WatchedOwn
<1> QED
  BY <1>3, <1>4

LEMMA EmptyRows == [c \in Chats |-> Empty] \in [Chats -> RowsType]
  BY DEF Empty, RowsType

LEMMA FeedStepOwn == ASSUME OwnInv, FeedStep PROVE OwnInv'
<1>0. rows \in [Chats -> RowsType] /\ size \in [Chats -> Int] /\ active \in Chats \cup {NoChat}
  BY DEF OwnInv, FeedTypeOK
<1>1. CASE Send
  BY <1>1, SendOwn
<1>2. CASE ApplyAck \/ ReadAnswered \/ StatusChanges \/ Reloads
  <2>1. /\ following' = (following /\ window > 0) /\ window' = window /\ active' = active
        /\ UNCHANGED force /\ rows' = rows /\ size' = size
        /\ list' = Drawn \/ list' = DrawnTwice
    BY <1>2 DEF ApplyAck, ReadAnswered, StatusChanges, Reloads, Watches, Draws, feed
  <2> QED
    BY <1>0, <2>1, WatchedOwn
<1>3. CASE CloseMobileChatPane
  BY <1>0, <1>3, EmptyRows, LeaveOwn DEF CloseMobileChatPane, Draws
<1>4. CASE PressLoadOlder
  <2>1. /\ following' = (following /\ window > 0) /\ window' = window
        /\ UNCHANGED force /\ forced' = forced /\ forced \in BOOLEAN /\ list \in ListType
    BY <1>4 DEF PressLoadOlder, Watches, force, OwnInv, FeedTypeOK
  <2>2. /\ rows' \in [Chats -> RowsType] /\ size' = size /\ active' = active
        /\ rows[active] \in RowsType
        /\ \E isForced \in {forced, forced'} :
             list' = Render(list, active, rows[active], isForced, NoChat)
    BY <1>4, LoadOlderType DEF PressLoadOlder
  <2>3. list' = Render(list, active, rows[active], forced, NoChat)
    BY <2>1, <2>2
  <2> DEFINE r == rows[active]
  <2>4. r \in RowsType /\ list' = Render(list, active, r, forced, NoChat)
    BY <2>2, <2>3
  <2> HIDE DEF r
  <2> QED
    BY <1>0, <2>1, <2>2, <2>4, DrawnWhileForced
<1>5. CASE Frame
  BY <1>5, FrameOwn
<1>6. ASSUME NEW c \in Chats, ApplyCreatedMessage(c) PROVE OwnInv'
  <2>1. rows' \in [Chats -> RowsType] /\ size' \in [Chats -> Int]
    BY <1>6, OneMore DEF ApplyCreatedMessage
  <2>2. /\ following' = (following /\ window > 0) /\ window' = window /\ active' = active
        /\ UNCHANGED force /\ list' = DrawnTwice
    BY <1>6 DEF ApplyCreatedMessage, Watches, Draws
  <2> QED
    BY <2>1, <2>2, WatchedOwn
<1>7. ASSUME NEW c \in Chats, OpenChat(c) PROVE OwnInv'
  BY <1>0, <1>7, LeaveOwn DEF OpenChat, Draws
<1>8. ASSUME NEW c \in Chats, NEW isForced \in BOOLEAN,
             PageAnswered(c, isForced) \/ PageFailed(c, isForced)
      PROVE  OwnInv'
  BY <1>8, PageOwn
<1>9. ASSUME NEW c \in Chats, NEW before \in 1 .. MaxSize,
             OlderAnswered(c, before) \/ OlderFailed(c, before)
      PROVE  OwnInv'
  BY <1>9, OlderOwn
<1>10. ASSUME NEW top \in 0 .. MaxSize, Scroll(top) PROVE OwnInv'
  <2>1. top \in Int
    OBVIOUS
  <2> QED
    BY <1>10, <2>1, ScrollOwn
<1> QED
  BY <1>1, <1>2, <1>3, <1>4, <1>5, <1>6, <1>7, <1>8, <1>9, <1>10 DEF FeedStep

LEMMA NextOwn == ASSUME OwnInv, [Next]_vars PROVE OwnInv'
<1>0. rows \in [Chats -> RowsType] /\ size \in [Chats -> Int] /\ active \in Chats \cup {NoChat}
  BY DEF OwnInv, FeedTypeOK
<1>1. CASE FeedStep
  BY <1>1, FeedStepOwn
<1>2. ASSUME NEW q \in Queries \cup {NoQuery}, Type(q) PROVE OwnInv'
  BY <1>2, FeedUntouched DEF Type, feed, force, history
<1>3. CASE TimerFires
  BY <1>3, FeedUntouched DEF TimerFires, feed, force, history
<1>4. ASSUME NEW r \in searches, SearchAnswered(r) PROVE OwnInv'
  BY <1>4, FeedUntouched DEF SearchAnswered, feed, force, history
<1>5. ASSUME NEW r \in searches, SearchFailed(r) PROVE OwnInv'
  <2>1. UNCHANGED <<feed, force>>
    BY <1>5 DEF SearchFailed
  <2>2. CASE UNCHANGED <<list, history>>
    BY <2>1, <2>2, FeedUntouched DEF feed, force, history
  <2>3. CASE Draws(Drawn) /\ Watches
    <3>1. /\ following' = (following /\ window > 0) /\ window' = window /\ active' = active
          /\ UNCHANGED force /\ rows' = rows /\ size' = size /\ list' = Drawn
      BY <2>1, <2>3 DEF Draws, Watches, feed
    <3> QED
      BY <1>0, <3>1, WatchedOwn
  <2> QED
    BY <1>5, <2>2, <2>3 DEF SearchFailed
<1>6. ASSUME NEW c \in Chats, SelectResult(c) PROVE OwnInv'
  BY <1>0, <1>6, LeaveOwn DEF SelectResult, Draws
<1>7. CASE Logout \/ HandleSessionExpired
  BY <1>7, EmptyRows, LeaveOwn DEF Logout, HandleSessionExpired, ClearSession, Draws
<1>8. CASE SignIn
  <2>1. /\ following' = (following /\ window > 0) /\ window' = window /\ active' = active
        /\ UNCHANGED force /\ rows' = rows /\ size' = size /\ list' = Drawn
    BY <1>8 DEF SignIn, Draws, Watches
  <2> QED
    BY <1>0, <2>1, WatchedOwn
<1>9. CASE UNCHANGED vars
  BY <1>9, FeedUntouched DEF vars, feed, force, history
<1> QED
  BY <1>1, <1>2, <1>3, <1>4, <1>5, <1>6, <1>7, <1>8, <1>9 DEF Next, SearchStep

\* Whatever the shell draws in the two frames after a message of the reader's own, the list
\* comes to rest at its end: forceMessageListBottomUntilLayoutSettles keeps its force until
\* the last of them, and every list drawn meanwhile is one that moves itself there.
THEOREM OwnMessageAlwaysSeen == Spec => []OwnMessageIsSeen
<1>1. Init => OwnInv
  <2> SUFFICES ASSUME Init PROVE OwnInv
    OBVIOUS
  <2>1. list \in ListType /\ rows \in [Chats -> RowsType] /\ size \in [Chats -> Int]
    BY EmptyRows, ChatViewAssumption DEF Init, NoList, ListType
  <2>2. FeedTypeOK
    <3>1. /\ active = NoChat /\ forced = FALSE /\ releases = {}
          /\ following = FALSE /\ window = 0
      BY DEF Init
    <3>2. /\ active \in Chats \cup {NoChat} /\ forced \in BOOLEAN /\ following \in BOOLEAN
      BY <3>1
    <3>3. releases \subseteq {1, 2} /\ window \in 0 .. 2
      BY <3>1
    <3> QED
      BY <2>1, <3>2, <3>3 DEF FeedTypeOK
  <2> QED
    BY <2>2 DEF Init, OwnInv, FollowInv
<1>2. OwnInv /\ [Next]_vars => OwnInv'
  BY NextOwn
<1>3. OwnInv => OwnMessageIsSeen
  BY DEF OwnInv, FollowInv, AtBottom, OwnMessageIsSeen
<1> QED
  BY <1>1, <1>2, <1>3, PTL DEF Spec

=============================================================================

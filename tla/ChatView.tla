------------------------------ MODULE ChatView ------------------------------
(***************************************************************************)
(* What XAppShell draws (web/app/x-app-shell.ts) with x-message-list and   *)
(* x-chat-list: the feed of the open chat and where its reader is, and the *)
(* search above the list of chats.                                         *)
(*                                                                         *)
(* The shell draws everything anew on each change of the store.  A new     *)
(* x-message-list is at its top until an animation frame moves it to where *)
(* render told it to be, and render reads the place of the list before it. *)
(* A handler that changes the store twice therefore draws twice with no    *)
(* frame in between.  The search changes no store: it redraws the list of  *)
(* chats alone.                                                            *)
(*                                                                         *)
(* A feed is an interval of rows of equal height.  Which messages it holds *)
(* is the subject of Workspace; here a page is the rows before a row, and  *)
(* a feed has no gaps.  Pending and stored messages are rows alike.        *)
(***************************************************************************)
EXTENDS Integers, FiniteSetsExt

CONSTANTS
    Chats,
    NoChat,
    Queries,
    NoQuery,        \* an empty search, and no results
    FirstSize,      \* the messages of a chat when the page is opened
    PageSize,       \* MESSAGE_PAGE_SIZE
    View,           \* clientHeight, in rows
    Near,           \* AUTO_SCROLL_THRESHOLD_PX
    Edge,           \* LOAD_OLDER_THRESHOLD_PX
    MaxSize,        \* bound: messages of a chat
    MaxQueries,     \* bound: changes of the search
    MaxUpsets       \* bound: what the user opens and closes, and failures

ASSUME ChatViewAssumption ==
    /\ NoChat \notin Chats /\ NoQuery \notin Queries
    /\ {FirstSize, Near, Edge, MaxSize, MaxQueries, MaxUpsets} \subseteq Nat
    /\ FirstSize <= MaxSize
    /\ {PageSize, View} \subseteq Nat \ {0}

VARIABLES
    \* the store
    signedIn,
    active,         \* activeChatId
    rows,           \* of each chat, with its page state
    size,           \* the messages each chat has
    unacked,        \* own messages that have not been acknowledged
    \* the shell
    asked,          \* HTTP requests under way for the feed; equal ones are counted once
    forced,         \* shouldForceMessageListBottom
    releases,       \* messageListBottomReleaseFrames: frames until each of them ends the force
    query,          \* chatSearchQuery
    results,        \* chatSearchResults: the query they answer
    searching,      \* isChatSearchLoading
    timer,          \* chatSearchDebounceTimer: the query it will ask for
    requestId,      \* chatSearchRequestId
    searches,       \* GET /api/users under way
    \* the document
    list,           \* the x-message-list, and the chat it was drawn for
    shown,          \* what x-chat-list shows
    \* history
    window,         \* frames left of the two that follow an own message
    following,      \* the reader has sent a message, and all drawing since was in its window
    reader,         \* where the reader is: AtEnd, or the row on top of the view
    upsets          \* how much of the bound is used

feed == <<signedIn, active, rows, size, unacked, asked>>
force == <<forced, releases>>
search == <<query, results, searching, timer, requestId, searches>>
history == <<window, following, reader>>
vars == <<feed, force, search, list, shown, history, upsets>>

AtEnd == 0

Empty == [first |-> 1, last |-> 0, more |-> FALSE, loading |-> FALSE]

NoList == [chat |-> NoChat, frame |-> "none", first |-> 1, last |-> 0, top |-> 0,
           goal |-> "none", from |-> 0]

ListData(q, res, loading) ==
    IF q = NoQuery THEN [search |-> NoQuery, loading |-> FALSE, results |-> NoQuery]
    ELSE [search |-> q, loading |-> loading, results |-> res]

Init ==
    /\ signedIn = TRUE
    /\ active = NoChat
    /\ rows = [c \in Chats |-> Empty]
    /\ size = [c \in Chats |-> FirstSize]
    /\ unacked = 0
    /\ asked = {}
    /\ forced = FALSE /\ releases = {}
    /\ query = NoQuery /\ results = NoQuery /\ searching = FALSE /\ timer = NoQuery
    /\ requestId = 0 /\ searches = {}
    /\ list = NoList
    /\ shown = ListData(NoQuery, NoQuery, FALSE)
    /\ window = 0 /\ following = FALSE /\ reader = AtEnd
    /\ upsets = 0

Upset == upsets < MaxUpsets /\ upsets' = upsets + 1

-----------------------------------------------------------------------------
(* render *)

Height(l) == l.last - l.first + 1

Bottom(l) == Max({0, Height(l) - View})

IsNearBottom(l) == Bottom(l) - l.top <= Near

\* Where an offset of a list ends up that is as high as l.
Clamped(l, top) == Max({0, Min({top, Bottom(l)})})

\* The list that replaces l.  "anchor" is the chat whose reading position is to be kept
\* while older rows are put before it, or NoChat.
Render(l, chat, r, sticky, anchor) ==
    LET had == l.frame # "none"
        keeps == anchor = chat /\ had
        sticks == ~keeps /\ (sticky \/ l.chat # chat \/ ~had \/ IsNearBottom(l))
    IN  IF chat = NoChat THEN NoList
        ELSE [chat |-> chat, frame |-> "fresh", first |-> r.first, last |-> r.last, top |-> 0,
              goal |-> IF sticks THEN "bottom" ELSE "offset",
              from |-> IF sticks THEN 0
                       ELSE IF keeps THEN r.last - r.first + 1 - Height(l) + l.top
                       ELSE l.top]

RenderTwice(l, chat, r, sticky, anchor) ==
    Render(Render(l, chat, r, sticky, anchor), chat, r, sticky, NoChat)

RowsOf(rs, c) == IF c = NoChat THEN Empty ELSE rs[c]

\* What the steps below draw, from the store and the shell as they leave them.
Draws(l) ==
    /\ list' = l
    /\ shown' = ListData(query', results', searching')

Drawn == Render(list, active', RowsOf(rows', active'), forced', NoChat)
DrawnTwice == RenderTwice(list, active', RowsOf(rows', active'), forced', NoChat)

Watches == following' = (following /\ window > 0) /\ UNCHANGED <<window, reader>>

-----------------------------------------------------------------------------
(* The feed of the open chat. *)

\* forceMessageListBottomUntilLayoutSettles without the cancellation
ForceBottomBesideOthers == forced' = TRUE /\ releases' = releases \cup {2}

\* forceMessageListBottomUntilLayoutSettles
ForceBottom == forced' = TRUE /\ releases' = {2}

\* handleMessageSubmit: addLocalMessage, then the status
Send ==
    LET r == rows[active]
    IN  /\ active # NoChat /\ size[active] < MaxSize
        /\ size' = [size EXCEPT ![active] = @ + 1]
        /\ rows' = [rows EXCEPT ![active].first = IF r.last = 0 THEN size'[active] ELSE @,
                                ![active].last = size'[active]]
        /\ unacked' = unacked + 1
        /\ ForceBottom
        /\ UNCHANGED <<signedIn, active, asked, search, upsets>>
        /\ Draws(DrawnTwice)
        /\ window' = 2 /\ following' = TRUE /\ reader' = AtEnd

\* applyRealtimeEvent, message.ack: acknowledgeServerMessage, then restoreOnlineStatus
ApplyAck ==
    /\ signedIn /\ unacked > 0
    /\ unacked' = unacked - 1
    /\ UNCHANGED <<signedIn, active, rows, size, asked, force, search, upsets>>
    /\ Draws(DrawnTwice)
    /\ Watches

\* applyCreatedMessage: upsertServerMessage, then markChatRead in the open chat and
\* restoreOnlineStatus in another one
ApplyCreatedMessage(c) ==
    LET r == rows[c]
    IN  /\ signedIn /\ size[c] < MaxSize
        /\ size' = [size EXCEPT ![c] = @ + 1]
        /\ rows' = IF c # active /\ r.last = 0 THEN rows
                   ELSE [rows EXCEPT ![c].first = IF r.last = 0 THEN size'[c] ELSE @,
                                     ![c].last = size'[c]]
        /\ asked' = IF c = active THEN asked \cup {[kind |-> "read"]} ELSE asked
        /\ UNCHANGED <<signedIn, active, unacked, force, search, upsets>>
        /\ Draws(DrawnTwice)
        /\ Watches

\* applyCreatedMessage after markChatRead: restoreOnlineStatus, after the error's text if any
ReadAnswered ==
    /\ [kind |-> "read"] \in asked
    /\ asked' = asked \ {[kind |-> "read"]}
    /\ UNCHANGED <<signedIn, active, rows, size, unacked, force, search>>
    /\ \/ Draws(Drawn) /\ UNCHANGED upsets
       \/ Draws(DrawnTwice) /\ Upset
    /\ Watches

\* Whatever else draws once: the connection's state, a text, a modal, a pane.
StatusChanges ==
    /\ UNCHANGED <<feed, force, search, upsets>>
    /\ Draws(Drawn)
    /\ Watches

Page(c, isForced) == [kind |-> "page", chat |-> c, isForced |-> isForced]

\* openChat: setActiveChat, then markChatRead
OpenChat(c) ==
    /\ signedIn
    /\ Upset
    /\ active' = c
    /\ asked' = asked \cup {Page(c, TRUE)}
    /\ ForceBottom
    /\ UNCHANGED <<signedIn, rows, size, unacked, search>>
    /\ Draws(DrawnTwice)
    /\ following' = FALSE /\ reader' = AtEnd /\ UNCHANGED window

\* loadChatWorkspace after a reconnect: setDirectChats, then loadChatMessages
Reloads ==
    /\ signedIn /\ active # NoChat
    /\ Upset
    /\ asked' = asked \cup {Page(active, FALSE)}
    /\ UNCHANGED <<signedIn, active, rows, size, unacked, force, search>>
    /\ Draws(Drawn)
    /\ Watches

\* loadChatMessages: setMessages, then markChatRead
PageAnswered(c, isForced) ==
    LET first == Max({1, size[c] - PageSize + 1})
    IN  /\ Page(c, isForced) \in asked
        /\ asked' = asked \ {Page(c, isForced)}
        /\ rows' = [rows EXCEPT ![c] = [first |-> first, last |-> size[c], more |-> first > 1,
                                        loading |-> FALSE]]
        /\ IF isForced THEN ForceBottom ELSE UNCHANGED force
        /\ UNCHANGED <<signedIn, active, size, unacked, search, upsets>>
        /\ Draws(DrawnTwice)
        /\ following' = (following /\ window > 0)
        /\ reader' = IF c # active \/ reader = AtEnd THEN reader
                     ELSE IF isForced THEN AtEnd ELSE Max({reader, first})
        /\ UNCHANGED window

\* closeMobileChatPane
CloseMobileChatPane ==
    /\ active # NoChat
    /\ Upset
    /\ active' = NoChat
    /\ rows' = [c \in Chats |-> Empty]
    /\ forced' = FALSE /\ releases' = {}
    /\ UNCHANGED <<signedIn, size, unacked, asked, search>>
    /\ Draws(Drawn)
    /\ following' = FALSE /\ reader' = AtEnd /\ UNCHANGED window

\* The same when the request fails: the error's text, then markChatRead
PageFailed(c, isForced) ==
    /\ Page(c, isForced) \in asked
    /\ Upset
    /\ asked' = asked \ {Page(c, isForced)}
    /\ IF isForced THEN ForceBottom ELSE UNCHANGED force
    /\ UNCHANGED <<signedIn, active, rows, size, unacked, search>>
    /\ Draws(Render(Render(list, active, RowsOf(rows, active), forced, NoChat),
                    active, RowsOf(rows, active), forced', NoChat))
    /\ Watches

-----------------------------------------------------------------------------
(* Older messages. *)

Older(c, before) == [kind |-> "older", chat |-> c, before |-> before]

CanLoadOlder == active # NoChat /\ rows[active].more /\ ~rows[active].loading

\* requestOlderMessages, and loadOlderActiveChatMessages as far as its request; l is the list
\* that asks.  The order of the callbacks of a frame decides whether the force is still on.
LoadOlder(l) ==
    /\ rows' = [rows EXCEPT ![active].loading = TRUE]
    /\ asked' = asked \cup {Older(active, rows[active].first)}
    /\ UNCHANGED <<signedIn, active, size, unacked, search, upsets>>
    /\ \E isForced \in {forced, forced'} : Draws(Render(l, active, rows[active], isForced, NoChat))

\* prependOlderMessages, then restoreOnlineStatus
OlderAnswered(c, before) ==
    LET first == Max({1, before - PageSize})
        r == rows[c]
    IN  /\ Older(c, before) \in asked
        /\ asked' = asked \ {Older(c, before)}
        /\ rows' = [rows EXCEPT ![c] = [first |-> IF r.last = 0 THEN first ELSE Min({first, r.first}),
                                        last |-> IF r.last = 0 THEN before - 1 ELSE r.last,
                                        more |-> first > 1, loading |-> FALSE]]
        /\ UNCHANGED <<signedIn, active, size, unacked, force, search, upsets>>
        /\ Draws(RenderTwice(list, active, RowsOf(rows', active), forced, c))
        /\ Watches

\* setOlderMessagesLoading, then the error's text
OlderFailed(c, before) ==
    /\ Older(c, before) \in asked
    /\ Upset
    /\ asked' = asked \ {Older(c, before)}
    /\ rows' = [rows EXCEPT ![c].loading = FALSE]
    /\ UNCHANGED <<signedIn, active, size, unacked, force, search>>
    /\ Draws(DrawnTwice)
    /\ Watches

\* The button above the feed.
PressLoadOlder ==
    /\ CanLoadOlder
    /\ UNCHANGED force
    /\ LoadOlder(list)
    /\ Watches

\* A scroll, and the scroll event of a list that a frame has moved.  The reader moves a list
\* that has come to rest.
Scroll(top) ==
    LET moved == [list EXCEPT !.top = top]
    IN  /\ list.frame = "done" /\ top \in 0 .. Bottom(list)
        /\ UNCHANGED force
        /\ IF top <= Edge /\ CanLoadOlder THEN LoadOlder(moved)
           ELSE list' = moved /\ UNCHANGED <<feed, search, shown, upsets>>
        /\ reader' = IF IsNearBottom(moved) THEN AtEnd ELSE list.first + top
        /\ following' = (following /\ top = Bottom(list))
        /\ UNCHANGED window

-----------------------------------------------------------------------------
(* An animation frame: the callbacks asked for before it, of the list in the document. *)

NextFrame == [fresh |-> "second", second |-> "third", third |-> "done"]

\* applyInitialScroll and scheduleScrollToLatestMessage
Moved ==
    IF list.goal = "bottom"
    THEN [list EXCEPT !.top = Bottom(list), !.frame = NextFrame[@]]
    ELSE [list EXCEPT !.top = Clamped(list, list.from), !.frame = "done"]

Frame ==
    /\ list.frame \in {"fresh", "second", "third"} \/ releases # {} \/ window > 0
    /\ releases' = {n \in {1} : n + 1 \in releases}
    /\ forced' = (forced /\ 1 \notin releases)
    /\ IF list.frame \notin {"fresh", "second", "third"}
       THEN UNCHANGED <<feed, search, list, shown, upsets>>
       ELSE IF list.goal = "offset" /\ Moved.top <= Edge /\ CanLoadOlder THEN LoadOlder(Moved)
       ELSE list' = Moved /\ UNCHANGED <<feed, search, shown, upsets>>
    /\ window' = Max({0, window - 1})
    /\ UNCHANGED <<following, reader>>

-----------------------------------------------------------------------------
(* The search.  It draws the list of chats alone: refreshChatList. *)

Refreshes == shown' = ListData(query', results', searching')

\* updateChatSearchQuery without the new request id
TypeKeepsRequestId(q) ==
    /\ signedIn
    /\ requestId < MaxQueries
    /\ query' = q
    /\ requestId' = requestId
    /\ results' = NoQuery
    /\ searching' = (q # NoQuery)
    /\ timer' = q
    /\ Refreshes
    /\ UNCHANGED <<feed, force, searches, list, history, upsets>>

\* updateChatSearchQuery
Type(q) ==
    /\ signedIn
    /\ requestId < MaxQueries
    /\ query' = q
    /\ requestId' = requestId + 1
    /\ results' = NoQuery
    /\ searching' = (q # NoQuery)
    /\ timer' = q
    /\ Refreshes
    /\ UNCHANGED <<feed, force, searches, list, history, upsets>>

\* The debounce timer, and searchChatsByName as far as its request.
TimerFires ==
    /\ timer # NoQuery
    /\ searches' = searches \cup {[query |-> timer, id |-> requestId]}
    /\ timer' = NoQuery
    /\ UNCHANGED <<feed, force, query, results, searching, requestId, list, shown, history, upsets>>

\* searchChatsByName
SearchAnswered(r) ==
    /\ searches' = searches \ {r}
    /\ UNCHANGED <<feed, force, query, timer, requestId, list, history, upsets>>
    /\ IF r.id # requestId THEN UNCHANGED <<results, searching, shown>>
       ELSE results' = r.query /\ searching' = FALSE /\ Refreshes

SearchFailed(r) ==
    /\ Upset
    /\ searches' = searches \ {r}
    /\ UNCHANGED <<feed, force, query, timer, requestId>>
    /\ IF r.id # requestId THEN UNCHANGED <<results, searching, list, shown, history>>
       ELSE results' = NoQuery /\ searching' = FALSE /\ Draws(Drawn) /\ Watches

\* clearChatSearch
ClearChatSearch ==
    /\ query' = NoQuery /\ results' = NoQuery /\ searching' = FALSE /\ timer' = NoQuery
    /\ requestId' = requestId + 1
    /\ UNCHANGED searches

\* handleChatSearchResultSelect, a result that has a chat
SelectResult(c) ==
    /\ signedIn /\ requestId < MaxQueries
    /\ shown.results # NoQuery
    /\ ClearChatSearch
    /\ Upset
    /\ active' = c
    /\ asked' = asked \cup {Page(c, TRUE)}
    /\ ForceBottom
    /\ UNCHANGED <<signedIn, rows, size, unacked>>
    /\ Draws(DrawnTwice)
    /\ following' = FALSE /\ reader' = AtEnd /\ UNCHANGED window

-----------------------------------------------------------------------------
(* The session. *)

\* clearSession
ClearSession ==
    /\ signedIn' = FALSE /\ active' = NoChat
    /\ rows' = [c \in Chats |-> Empty]
    /\ unacked' = 0
    /\ UNCHANGED <<size, asked, force>>
    /\ Draws(Drawn)
    /\ following' = FALSE /\ reader' = AtEnd /\ UNCHANGED window

\* handleLogout, after the answer
Logout ==
    /\ signedIn /\ requestId < MaxQueries
    /\ Upset
    /\ ClearChatSearch
    /\ ClearSession

\* handleSessionExpired: the search is emptied, but a request that is under way is not
\* disowned.
HandleSessionExpired ==
    /\ signedIn
    /\ Upset
    /\ query' = NoQuery /\ results' = NoQuery /\ searching' = FALSE /\ timer' = NoQuery
    /\ UNCHANGED <<requestId, searches>>
    /\ ClearSession

\* login: setCurrentUser; the list that follows opens a chat as OpenChat does.
SignIn ==
    /\ ~signedIn
    /\ signedIn' = TRUE
    /\ UNCHANGED <<active, rows, size, unacked, asked, force, search, upsets>>
    /\ Draws(Drawn)
    /\ Watches

-----------------------------------------------------------------------------

FeedStep ==
    \/ Send \/ ApplyAck \/ ReadAnswered \/ StatusChanges \/ Reloads \/ CloseMobileChatPane
    \/ PressLoadOlder \/ Frame
    \/ \E c \in Chats : ApplyCreatedMessage(c) \/ OpenChat(c)
    \/ \E c \in Chats, isForced \in BOOLEAN : PageAnswered(c, isForced) \/ PageFailed(c, isForced)
    \/ \E c \in Chats, before \in 1 .. MaxSize : OlderAnswered(c, before) \/ OlderFailed(c, before)
    \/ \E top \in 0 .. MaxSize : Scroll(top)

SearchStep ==
    \/ \E q \in Queries \cup {NoQuery} : Type(q)
    \/ TimerFires
    \/ \E r \in searches : SearchAnswered(r) \/ SearchFailed(r)
    \/ \E c \in Chats : SelectResult(c)

Next == FeedStep \/ SearchStep \/ Logout \/ HandleSessionExpired \/ SignIn

Spec == Init /\ [][Next]_vars

-----------------------------------------------------------------------------
(* Properties. *)

\* While something is searched for, the note that says so is shown exactly as long as the
\* answer is still to come, and results are those of what stands in the field: whatever was
\* typed, answered late, chosen or cleared in between, and whoever signed out.
SearchSettles ==
    /\ query # NoQuery =>
         /\ searching <=> (timer = query \/ [query |-> query, id |-> requestId] \in searches)
         /\ results \in {NoQuery, query}
    /\ shown = ListData(query, results, searching)

\* A message of the reader's own is in view when the list has come to rest, however often it
\* was drawn anew in the two frames after each send.
OwnMessageIsSeen == following /\ list.frame = "done" => list.top = Bottom(list)

\* A reader at the end of the feed follows it, a reader of older messages stays where he is.
ReadingIsKept ==
    list.frame = "done" =>
        IF reader = AtEnd THEN IsNearBottom(list) ELSE list.first + list.top = reader

=============================================================================

----------------------------- MODULE Workspace -----------------------------
(***************************************************************************)
(* XAppShell (web/app/x-app-shell.ts) over AppStore, for one user: the      *)
(* asynchronous functions that load the chats and the messages, the events  *)
(* of the connection, the route, and what the user does meanwhile.         *)
(*                                                                         *)
(* A task is one running call of an async method.  It stands at the HTTP   *)
(* request it awaits; the server answers in one step (Serve), the answer   *)
(* may be lost or be an error (Fails), and one step of the client handles  *)
(* it and goes on to the next await.  Answers arrive in any order.         *)
(*                                                                         *)
(* The server is what its services promise: logs that grow (ChatLog), an   *)
(* exact unread counter (ChatMessages), an event for each message to the   *)
(* attached connection (Gateway), whose delivery follows no order because  *)
(* each broadcast waits for the end of its own call.  The connection is    *)
(* WsClient's: it comes back while it is wanted, repeats what has not been *)
(* acknowledged, and keeps a bounded queue for the time in between.  Sends *)
(* are known by their number, so that sets of them have an order.          *)
(*                                                                         *)
(* Left out: the administrators' list of applicants, the context menu but  *)
(* for its two commands, and the texts of the status line.  The search and *)
(* the scrolling are in ChatView.                                          *)
(***************************************************************************)
EXTENDS AppStore, Sequences, FiniteSets

CONSTANTS
    Tasks,          \* async calls that may run at the same time
    FirstLog,       \* the logs when the page is opened; a chat with an empty one does not exist
    FirstRoutes,    \* the chats a link to which may open the page, or NoChat
    PageSize,       \* MESSAGE_PAGE_SIZE
    MaxQueuedEvents,    \* maxQueuedEvents of WsClient
    MaxUpsets       \* bound: what users do and what goes wrong, all in all

\* A log entry is the nonce of a message of this client, or Peer.
Peer == 0

ASSUME BoundsAssumption ==
    /\ PageSize \in Nat \ {0}
    /\ FirstRoutes \subseteq Chats \cup {NoChat}
    /\ MaxQueuedEvents \in Nat
    /\ MaxUpsets \in Nat
    /\ FirstLog \in [Chats -> Seq({Peer})]

VARIABLES
    \* the server
    log,            \* the messages of each chat
    serverChats,    \* the chats that exist
    newest,         \* the chat with the latest updated_at
    unread,         \* chat_members.unread_count
    session,        \* the browser's cookie is a valid session
    \* the connection
    conn,           \* "off", "open" (not yet authenticated), "attached"
    wanted,         \* WsClient.shouldReconnect
    events,         \* message.created on their way, as <<chat, seq>>
    wire,           \* message.send on this connection, on their way or being handled
    late,           \* message.send of former connections that the gateway still handles
    acks,           \* message.ack on their way
    queued,         \* WsClient.queuedEvents
    unacked,        \* WsClient.inFlightEvents
    lost,           \* history: sends forgotten before any connection carried them
    sentTo,         \* the chat of each nonce sent so far
    \* the shell
    store,
    mobilePane,
    route,          \* the chat of location.hash, or NoChat
    tasks,
    \* history
    excused,        \* messages that the client had no way to show (see FeedCatchesUp)
    strayed,        \* the user, or a failed request, has set the route aside
    upsets          \* how much of the bound is used

server == <<log, serverChats, newest, unread, session>>
outbox == <<queued, unacked, lost, sentTo>>
connection == <<conn, wanted, events, wire, late, acks, outbox>>
shell == <<store, mobilePane, route>>
history == <<excused, strayed>>
vars == <<server, connection, shell, tasks, history, upsets>>

ChatOrNone == Chats \cup {NoChat}
Messages == Chats \X Nat

AllSoFar == UNION {{<<c, n>> : n \in 1 .. Len(log[c])} : c \in Chats}

-----------------------------------------------------------------------------
(* Tasks. *)

NoAnswer == [tag |-> "none"]
Failed == [tag |-> "failed"]
Unauthorized == [tag |-> "unauthorized"]
Done == [tag |-> "done"]

\* pc is the request that is awaited; origin who called loadChatWorkspace;
\* chat the request's chat, or resolvedPreferredChatId; keep shouldKeepChatClosed;
\* linked routeChatId when shouldUseRouteChat; before the beforeSeq of a page.
Task(pc, origin, chat, keep, linked, before) ==
    [pc |-> pc, origin |-> origin, chat |-> chat, keep |-> keep, linked |-> linked,
     before |-> before, answer |-> NoAnswer]

Simple(pc, chat) == Task(pc, "none", chat, FALSE, NoChat, 0)

Idle == Simple("idle", NoChat)

\* The synchronous part of loadChatWorkspace; preferred is "undefined" when absent.
LoadChatWorkspace(origin, preferred, keep, s, hash) ==
    LET orElse(a, b) == IF a = NoChat THEN b ELSE a
        given == IF preferred = "undefined" THEN NoChat ELSE preferred
    IN  Task("list", origin,
             IF keep THEN NoChat ELSE orElse(given, orElse(hash, s.active)),
             keep,
             IF preferred = "undefined" /\ ~keep THEN hash ELSE NoChat,
             0)

Awaits(t, pc) == tasks[t].pc = pc /\ tasks[t].answer.tag # "none"

Free(t) == tasks[t].pc = "idle"

Goto(t, task) == tasks' = [tasks EXCEPT ![t] = task]

\* updateChatRoute and clearChatRoute; neither raises an event.
UpdateChatRoute(c) == route' = c /\ strayed' = FALSE
ClearChatRoute == route' = NoChat

\* A user acts, or something fails.
Upset == upsets < MaxUpsets /\ upsets' = upsets + 1

Init ==
    /\ log = FirstLog
    /\ serverChats = {c \in Chats : FirstLog[c] # <<>>}
    /\ newest \in IF serverChats = {} THEN {NoChat} ELSE serverChats
    /\ unread = [c \in Chats |-> Len(FirstLog[c])]
    /\ session = TRUE
    /\ conn = "off" /\ wanted = FALSE
    /\ events = {} /\ wire = {} /\ late = {} /\ acks = {}
    /\ queued = {} /\ unacked = {} /\ lost = {} /\ sentTo = <<>>
    /\ store = InitialState
    /\ mobilePane = "chats"
    /\ route \in FirstRoutes
    /\ tasks \in {[t \in Tasks |-> IF t = first THEN Simple("me", NoChat) ELSE Idle] : first \in Tasks}
    /\ excused = {}
    /\ strayed = (route # NoChat)
    /\ upsets = 0

-----------------------------------------------------------------------------
(* The server. *)

\* listMessages: the last PageSize messages before a seq.
PageOf(c, before) ==
    LET newestSeq == IF before = 0 THEN Len(log[c]) ELSE before - 1
    IN  [tag     |-> "page",
         seqs    |-> {n \in 1 .. newestSeq : n > newestSeq - PageSize},
         hasMore |-> newestSeq > PageSize]

ListOfChats == [tag |-> "list", chats |-> [c \in serverChats |-> unread[c]], first |-> newest]

Answer(t, answer) == tasks' = [tasks EXCEPT ![t].answer = answer]

ServeRead(t) ==
    /\ tasks[t].pc = "read"
    /\ Answer(t, Done)
    /\ unread' = [unread EXCEPT ![tasks[t].chat] = 0]
    /\ UNCHANGED <<log, serverChats, newest, session>>

ServeCreate(t) ==
    /\ tasks[t].pc = "create"
    /\ Answer(t, Done)
    /\ serverChats' = serverChats \cup {tasks[t].chat}
    /\ newest' = IF tasks[t].chat \in serverChats THEN newest ELSE tasks[t].chat
    /\ UNCHANGED <<log, unread, session>>

ServeQuery(t) ==
    /\ \/ tasks[t].pc = "me" /\ Answer(t, Done)
       \/ tasks[t].pc = "list" /\ Answer(t, ListOfChats)
       \/ tasks[t].pc \in {"page", "older"} /\ Answer(t, PageOf(tasks[t].chat, tasks[t].before))
    /\ UNCHANGED server

\* Login writes the cookie and logout clears it; every other request needs it.
ServeSession(t) ==
    /\ tasks[t].pc \in {"login", "logout"}
    /\ Answer(t, Done)
    /\ session' = (tasks[t].pc = "login")
    /\ UNCHANGED <<log, serverChats, newest, unread>>

ServeUnauthorized(t) ==
    /\ tasks[t].pc \notin {"idle", "login", "logout"}
    /\ ~session
    /\ Answer(t, Unauthorized)
    /\ UNCHANGED server

Serve(t) ==
    /\ tasks[t].answer.tag = "none"
    /\ \/ session /\ (ServeRead(t) \/ ServeCreate(t) \/ ServeQuery(t))
       \/ ServeSession(t)
       \/ ServeUnauthorized(t)
    /\ UNCHANGED <<connection, shell, history, upsets>>

\* The request or its answer is lost, or the server fails.
Fails(t) ==
    /\ tasks[t].pc # "idle"
    /\ tasks[t].answer.tag \notin {"failed", "unauthorized"}
    /\ Answer(t, Failed)
    /\ Upset
    /\ UNCHANGED <<server, connection, shell, history>>

\* A stored message is on its way to the client as an event, if it is heard at all.
StoreMessage(c, author, heard) ==
    /\ log' = [log EXCEPT ![c] = Append(@, author)]
    /\ newest' = c
    /\ events' = IF conn = "attached" /\ heard THEN events \cup {<<c, Len(log[c]) + 1>>} ELSE events
    /\ excused' = IF conn = "attached" THEN excused ELSE excused \cup {<<c, Len(log[c]) + 1>>}

\* Somebody else writes, in a new chat as well.
PeerSends(c) ==
    /\ Upset
    /\ StoreMessage(c, Peer, TRUE)
    /\ serverChats' = serverChats \cup {c}
    /\ unread' = [unread EXCEPT ![c] = @ + 1]
    /\ UNCHANGED <<session, conn, wanted, wire, late, acks, outbox, shell, tasks, strayed>>

\* The peer's client repeats a send: the gateway broadcasts the message again.
BroadcastAgain(c, n) ==
    /\ conn = "attached"
    /\ log[c][n] = Peer
    /\ events' = events \cup {<<c, n>>}
    /\ Upset
    /\ UNCHANGED <<server, conn, wanted, wire, late, acks, outbox, shell, tasks, history>>

IsLogged(k) == \E n \in 1 .. Len(log[sentTo[k]]) : log[sentTo[k]][n] = k

PlaceOf(k) == CHOOSE n \in 1 .. Len(log[sentTo[k]]) : log[sentTo[k]][n] = k

StoreSentUnchecked(k) ==
    /\ conn = "attached" /\ k \in wire
    /\ StoreMessage(sentTo[k], k, FALSE)
    /\ acks' = acks \cup {k}
    /\ wire' = wire \ {k}
    /\ UNCHANGED <<serverChats, unread, session, conn, wanted, late, outbox, shell, tasks, strayed,
                   upsets>>

\* The end of a message.send: what is new is stored, and the sender hears of it by the
\* acknowledgement alone.  Every message.send has a call of its own, so they end in any order.
StoreSent(k) ==
    /\ conn = "attached" /\ k \in wire
    /\ IF IsLogged(k) THEN UNCHANGED <<log, newest, events, excused>>
       ELSE StoreMessage(sentTo[k], k, FALSE)
    /\ acks' = acks \cup {k}
    /\ wire' = wire \ {k}
    /\ UNCHANGED <<serverChats, unread, session, conn, wanted, late, outbox, shell, tasks, strayed,
                   upsets>>

\* The same for one of a former connection, which is gone: nobody is there for the
\* acknowledgement, and the user's next connection, if any, is one of the others that are told.
StoreLate(k) ==
    /\ k \in late
    /\ IF IsLogged(k)
       THEN /\ events' = IF conn = "attached" THEN events \cup {<<sentTo[k], PlaceOf(k)>>} ELSE events
            /\ UNCHANGED <<log, newest, excused>>
       ELSE StoreMessage(sentTo[k], k, TRUE)
    /\ late' = late \ {k}
    /\ UNCHANGED <<serverChats, unread, session, conn, wanted, wire, acks, outbox, shell, tasks,
                   strayed, upsets>>

\* sendMessage throws before it stores: an error event, which only the status line shows.
SendFails(k) ==
    /\ Upset
    /\ \/ conn = "attached" /\ k \in wire /\ wire' = wire \ {k} /\ UNCHANGED late
       \/ k \in late /\ late' = late \ {k} /\ UNCHANGED wire
    /\ UNCHANGED <<server, conn, wanted, events, acks, outbox, shell, tasks, history>>

Expires ==
    /\ session
    /\ session' = FALSE
    /\ Upset
    /\ UNCHANGED <<log, serverChats, newest, unread, connection, shell, tasks, history>>

-----------------------------------------------------------------------------
(* The connection. *)

\* What has been sent on a closed connection is gone, but for what the gateway has got of
\* it; events whose broadcast has not yet begun may still find the next one.
Disconnected ==
    /\ conn' = "off"
    /\ wire' = {} /\ acks' = {}
    /\ \/ conn = "attached" /\ \E n \in 1 .. Len(sentTo) + 1 : late' = late \cup {k \in wire : k < n}
       \/ conn # "attached" /\ UNCHANGED late
    /\ \E kept \in SUBSET events :
        /\ events' = kept
        /\ excused' = excused \cup (events \ kept)

\* WsClient.disconnect also forgets both queues.
Disconnect ==
    /\ Disconnected
    /\ wanted' = FALSE
    /\ queued' = {} /\ unacked' = {}
    /\ lost' = lost \cup queued
    /\ UNCHANGED sentTo

Drops ==
    /\ conn # "off"
    /\ Disconnected
    /\ Upset
    /\ UNCHANGED <<server, wanted, outbox, shell, tasks, strayed>>

\* handleClosedSocket, after the last of the attempts; a send or a login tries again.
GivesUp ==
    /\ conn = "off" /\ wanted
    /\ wanted' = FALSE
    /\ Upset
    /\ UNCHANGED <<server, conn, events, wire, late, acks, outbox, shell, tasks, history>>

\* What has not been acknowledged is written first, then what has been queued.
FlushPendingEvents ==
    /\ unacked' = unacked \cup queued
    /\ queued' = {}
    /\ wire' = unacked'
    /\ UNCHANGED <<lost, sentTo>>

OpensWithoutReload ==
    /\ conn = "off" /\ wanted
    /\ conn' = "open"
    /\ FlushPendingEvents
    /\ excused' = {}
    /\ UNCHANGED <<server, wanted, events, late, acks, shell, tasks, strayed, upsets>>

\* flushPendingEvents, then handleRealtimeStateChange and handleRealtimeOpen.
Opens ==
    /\ conn = "off" /\ wanted
    /\ conn' = "open"
    /\ FlushPendingEvents
    /\ IF store.signedIn
       THEN /\ \E t \in Tasks :
                /\ Free(t)
                /\ Goto(t, LoadChatWorkspace("reopen", "undefined",
                             store.active = NoChat /\ mobilePane = "chats", store, route))
            /\ excused' = {}
       ELSE UNCHANGED <<tasks, excused>>
    /\ UNCHANGED <<server, wanted, events, late, acks, shell, strayed, upsets>>

\* Messages that arrive before the gateway has resolved the session have no listener.
Attach ==
    /\ conn = "open" /\ session
    /\ conn' = "attached"
    /\ \E n \in 1 .. Len(sentTo) + 1 : wire' = {k \in wire : k >= n}
    /\ UNCHANGED <<server, wanted, events, late, acks, outbox, shell, tasks, history, upsets>>

HandleSessionExpired ==
    /\ Disconnect
    /\ mobilePane' = "chats"
    /\ ClearChatRoute
    /\ store' = ClearSession(store)

Refuse ==
    /\ conn = "open" /\ ~session
    /\ HandleSessionExpired
    /\ UNCHANGED <<server, tasks, strayed, upsets>>

\* What lies between older messages and the feed they are put before.
Skipped(c, seqs) ==
    {<<c, n>> : n \in {m \in 1 .. FindOldestPersistedSeq(store.feed, c) - 1 : \A p \in seqs : m > p}}

\* handleRealtimeEvent, message.ack
ApplyAck(k) ==
    /\ conn # "off" /\ k \in acks
    /\ acks' = acks \ {k}
    /\ unacked' = unacked \ {k}
    /\ LET c == sentTo[k]
           n == PlaceOf(k)
       IN  /\ store' = AcknowledgeServerMessage(store, c, n, k)
           /\ excused' = excused \cup Skipped(c, {n})
    /\ UNCHANGED <<server, conn, wanted, events, wire, late, queued, lost, sentTo, mobilePane, route,
                   tasks, strayed, upsets>>

\* handleRealtimeEvent, message.created
ApplyCreatedMessage(c, n) ==
    /\ conn = "attached" /\ <<c, n>> \in events
    /\ events' = events \ {<<c, n>>}
    /\ \/ /\ c \notin DOMAIN store.chats
          /\ \E t \in Tasks :
              /\ Free(t)
              /\ Goto(t, LoadChatWorkspace("created", store.active, store.active = NoChat,
                                           store, route))
          /\ UNCHANGED <<store, excused>>
       \/ /\ c \in DOMAIN store.chats /\ c = store.active
          /\ excused' = excused \cup Skipped(c, {n})
          /\ store' = MarkChatRead(UpsertServerMessage(store, c, n, log[c][n] # Peer), c)
          /\ \E t \in Tasks : Free(t) /\ Goto(t, Simple("read", c))
       \/ /\ c \in DOMAIN store.chats /\ c # store.active
          /\ excused' = excused \cup Skipped(c, {n})
          /\ store' = UpsertServerMessage(store, c, n, log[c][n] # Peer)
          /\ UNCHANGED tasks
    /\ UNCHANGED <<server, conn, wanted, wire, late, acks, outbox, mobilePane, route, strayed, upsets>>

-----------------------------------------------------------------------------
(* The answers. *)

Ok(t) == tasks[t].answer.tag \notin {"failed", "unauthorized"}

\* bootstrapSession and login go on alike when they succeed.
SignIn(t) ==
    /\ store' = SetCurrentUser(store)
    /\ wanted' = TRUE
    /\ Goto(t, LoadChatWorkspace(tasks[t].pc, "undefined", FALSE, store, route))
    /\ UNCHANGED <<conn, events, wire, late, acks, outbox, mobilePane, route, history>>

BootstrapAnswered(t) ==
    /\ Awaits(t, "me")
    /\ \/ Ok(t) /\ SignIn(t)
       \/ /\ ~Ok(t)
          /\ store' = IF tasks[t].answer = Unauthorized THEN ClearSession(store) ELSE store
          /\ Goto(t, Idle)
          /\ UNCHANGED <<connection, mobilePane, route, history>>
    /\ UNCHANGED <<server, upsets>>

LoginAnswered(t) ==
    /\ Awaits(t, "login")
    /\ \/ Ok(t) /\ SignIn(t)
       \/ ~Ok(t) /\ Goto(t, Idle) /\ UNCHANGED <<connection, shell, history>>
    /\ UNCHANGED <<server, upsets>>

LogoutAnswered(t) ==
    /\ Awaits(t, "logout")
    /\ Goto(t, Idle)
    /\ \/ /\ Ok(t)
          /\ Disconnect
          /\ mobilePane' = "chats"
          /\ store' = ClearSession(store)
          /\ UNCHANGED <<route, strayed>>
       \/ ~Ok(t) /\ UNCHANGED <<connection, shell, history>>
    /\ UNCHANGED <<server, upsets>>

\* createDirectChat
CreateAnswered(t) ==
    /\ Awaits(t, "create")
    /\ \/ /\ Ok(t)
          /\ mobilePane' = "chat"
          /\ UpdateChatRoute(tasks[t].chat)
          /\ Goto(t, LoadChatWorkspace("create", tasks[t].chat, FALSE, store, route'))
          /\ UNCHANGED <<store, connection, excused>>
       \/ ~Ok(t) /\ Goto(t, Idle) /\ UNCHANGED <<connection, shell, history>>
    /\ UNCHANGED <<server, upsets>>

ListAnsweredKeepsRoute(t) ==
    LET task == tasks[t]
        loaded == SetDirectChats(store, task.answer.chats, task.answer.first, task.chat, ~task.keep)
    IN  /\ Awaits(t, "list") /\ Ok(t)
        /\ mobilePane' = IF task.linked \in DOMAIN task.answer.chats THEN "chat" ELSE mobilePane
        /\ IF loaded.active # NoChat
           THEN /\ store' = loaded
                /\ UNCHANGED route
                /\ strayed' = FALSE
                /\ Goto(t, Simple("page", loaded.active))
           ELSE /\ store' = ClearMessages(loaded)
                /\ Goto(t, Idle)
                /\ UNCHANGED <<route, strayed>>
        /\ UNCHANGED <<server, connection, excused, upsets>>

\* loadChatWorkspace after listDirectChats
ListAnswered(t) ==
    LET task == tasks[t]
        loaded == SetDirectChats(store, task.answer.chats, task.answer.first, task.chat, ~task.keep)
    IN  /\ Awaits(t, "list") /\ Ok(t)
        /\ mobilePane' = IF task.linked \in DOMAIN task.answer.chats THEN "chat" ELSE mobilePane
        /\ IF loaded.active # NoChat
           THEN /\ store' = loaded
                /\ UpdateChatRoute(loaded.active)
                /\ Goto(t, Simple("page", loaded.active))
           ELSE /\ store' = ClearMessages(loaded)
                /\ Goto(t, Idle)
                /\ UNCHANGED <<route, strayed>>
        /\ UNCHANGED <<server, connection, excused, upsets>>

\* Each caller of loadChatWorkspace has its own way to fail.
ListFailed(t) ==
    /\ Awaits(t, "list") /\ ~Ok(t)
    /\ Goto(t, Idle)
    /\ LET expired == tasks[t].answer = Unauthorized
           origin == tasks[t].origin
       IN  \/ /\ expired /\ origin = "me"
              /\ store' = ClearSession(store)
              /\ UNCHANGED <<connection, mobilePane, route, excused>>
           \/ expired /\ origin = "reopen" /\ HandleSessionExpired
           \/ /\ ~(expired /\ origin \in {"me", "reopen"})
              /\ excused' = excused \cup AllSoFar
              /\ UNCHANGED <<connection, shell>>
    /\ strayed' = TRUE
    /\ UNCHANGED <<server, upsets>>

\* What a page takes away when the feed has messages newer than it.
Overtaken(c, seqs) ==
    {<<c, n>> : n \in {m \in 1 .. Len(log[c]) :
        (\A p \in seqs : m > p) /\ \E shown \in StoredSeqs(store.feed, c) : m <= shown}}

PageAnsweredUnread(t) ==
    LET c == tasks[t].chat
        answer == tasks[t].answer
    IN  /\ Awaits(t, "page")
        /\ store' = MarkChatRead(IF Ok(t) THEN SetMessages(store, c, answer.seqs, answer.hasMore)
                                 ELSE store, c)
        /\ excused' = excused \cup (IF Ok(t) THEN Overtaken(c, answer.seqs) ELSE AllSoFar)
        /\ Goto(t, Idle)
        /\ UNCHANGED <<server, connection, mobilePane, route, strayed, upsets>>

\* loadChatMessages, and the markChatRead that both its callers go on to
PageAnswered(t) ==
    LET c == tasks[t].chat
        answer == tasks[t].answer
    IN  /\ Awaits(t, "page")
        /\ store' = MarkChatRead(IF Ok(t) THEN SetMessages(store, c, answer.seqs, answer.hasMore)
                                 ELSE store, c)
        /\ excused' = excused \cup (IF Ok(t) THEN Overtaken(c, answer.seqs) ELSE AllSoFar)
        /\ Goto(t, Simple("read", c))
        /\ UNCHANGED <<server, connection, mobilePane, route, strayed, upsets>>

OlderAnsweredStays(t) ==
    LET c == tasks[t].chat
        answer == tasks[t].answer
    IN  /\ Awaits(t, "older")
        /\ Goto(t, Idle)
        /\ \/ /\ Ok(t)
              /\ store' = PrependOlderMessages(store, c, answer.seqs, answer.hasMore)
              /\ excused' = excused \cup Skipped(c, answer.seqs)
           \/ /\ ~Ok(t)
              /\ UNCHANGED <<store, excused>>
        /\ UNCHANGED <<server, connection, mobilePane, route, strayed, upsets>>

\* loadOlderActiveChatMessages
OlderAnswered(t) ==
    LET c == tasks[t].chat
        answer == tasks[t].answer
    IN  /\ Awaits(t, "older")
        /\ Goto(t, Idle)
        /\ \/ /\ Ok(t)
              /\ store' = PrependOlderMessages(store, c, answer.seqs, answer.hasMore)
              /\ excused' = excused \cup Skipped(c, answer.seqs)
           \/ /\ ~Ok(t)
              /\ store' = SetOlderMessagesLoading(store, c, FALSE)
              /\ UNCHANGED excused
        /\ UNCHANGED <<server, connection, mobilePane, route, strayed, upsets>>

\* markChatRead
ReadAnswered(t) ==
    /\ Awaits(t, "read")
    /\ Goto(t, Idle)
    /\ excused' = IF Ok(t) THEN excused ELSE excused \cup AllSoFar
    /\ UNCHANGED <<server, connection, shell, strayed, upsets>>

-----------------------------------------------------------------------------
(* The user. *)

\* openChat, from a card, a search result, the menu or the history
Open(c) ==
    /\ mobilePane' = "chat"
    /\ UpdateChatRoute(c)
    /\ store' = MarkChatRead(SetActiveChat(store, c), c)
    /\ \E t \in Tasks : Free(t) /\ Goto(t, Simple("page", c))
    /\ UNCHANGED <<server, connection, excused>>

OpenChat(c) ==
    /\ c \in DOMAIN store.chats
    /\ Upset
    /\ Open(c)

\* hashchange and popstate, after the browser has changed the hash
HandleRouteChange(hash) ==
    /\ Upset
    /\ hash # route
    /\ \/ hash # NoChat /\ store.signedIn /\ store.active # hash /\ hash \in DOMAIN store.chats
          /\ Open(hash)
       \/ /\ ~(hash # NoChat /\ store.signedIn /\ store.active # hash /\ hash \in DOMAIN store.chats)
          /\ route' = hash
          /\ strayed' = (hash # store.active)
          /\ UNCHANGED <<server, connection, store, mobilePane, tasks, excused>>

CloseMobileChatPane ==
    /\ mobilePane = "chat"
    /\ Upset
    /\ mobilePane' = "chats"
    /\ ClearChatRoute
    /\ store' = CloseActiveChat(store)
    /\ UNCHANGED <<server, connection, tasks, history>>

\* The message list and the composer are shown.
FeedIsShown == store.signedIn /\ store.active \in DOMAIN store.chats

LoadOlder ==
    /\ FeedIsShown
    /\ store.active \in DOMAIN store.pages
    /\ LET c == store.active
           page == store.pages[c]
       IN  /\ page.hasMore /\ ~page.loading /\ page.oldest # 0
           /\ Upset
           /\ store' = SetOlderMessagesLoading(store, c, TRUE)
           /\ \E t \in Tasks : Free(t) /\ Goto(t, Task("older", "none", c, FALSE, NoChat, page.oldest))
    /\ UNCHANGED <<server, connection, mobilePane, route, history>>

\* enqueueEvent: the oldest leave a queue that is too long.
Excess(queue) == {k \in queue : Cardinality({j \in queue : j > k}) >= MaxQueuedEvents}

\* handleMessageSubmit, and WsClient.send: an open socket is written to, otherwise the
\* send is queued and the connection wanted.  The copy in the feed stays in either case.
SubmitMessage ==
    /\ FeedIsShown
    /\ Upset
    /\ LET k == Len(sentTo) + 1
           queue == queued \cup {k}
       IN  /\ store' = AddLocalMessage(store, k)
           /\ sentTo' = Append(sentTo, store.active)
           /\ \/ /\ conn = "off"
                 /\ queued' = queue \ Excess(queue)
                 /\ lost' = lost \cup Excess(queue)
                 /\ wanted' = TRUE
                 /\ UNCHANGED <<unacked, wire>>
              \/ /\ conn # "off"
                 /\ unacked' = unacked \cup {k}
                 /\ wire' = wire \cup {k}
                 /\ UNCHANGED <<queued, lost, wanted>>
    /\ UNCHANGED <<server, conn, events, late, acks, mobilePane, route, tasks, history>>

\* The menu command chat.markRead
MarkReadFromMenu(c) ==
    /\ c \in DOMAIN store.chats
    /\ Upset
    /\ store' = MarkChatRead(store, c)
    /\ \E t \in Tasks : Free(t) /\ Goto(t, Simple("read", c))
    /\ UNCHANGED <<server, connection, mobilePane, route, history>>

\* login, handleLogout and createDirectChat up to their request
Request(pc, c) ==
    /\ Upset
    /\ \E t \in Tasks : Free(t) /\ Goto(t, Simple(pc, c))
    /\ UNCHANGED <<server, connection, shell, history>>

Login == ~store.signedIn /\ Request("login", NoChat)
HandleLogout == store.signedIn /\ Request("logout", NoChat)
CreateDirectChat(c) == store.signedIn /\ c \notin DOMAIN store.chats /\ Request("create", c)

-----------------------------------------------------------------------------

TaskStep(t) ==
    \/ Serve(t) \/ Fails(t)
    \/ BootstrapAnswered(t) \/ LoginAnswered(t) \/ LogoutAnswered(t) \/ CreateAnswered(t)
    \/ ListAnswered(t) \/ ListFailed(t) \/ PageAnswered(t) \/ OlderAnswered(t) \/ ReadAnswered(t)

ChatStep(c) ==
    \/ PeerSends(c) \/ OpenChat(c) \/ MarkReadFromMenu(c) \/ CreateDirectChat(c)
    \/ \E n \in 1 .. Len(log[c]) : BroadcastAgain(c, n) \/ ApplyCreatedMessage(c, n)

SendStep(k) == StoreSent(k) \/ StoreLate(k) \/ SendFails(k) \/ ApplyAck(k)

Next ==
    \/ \E t \in Tasks : TaskStep(t)
    \/ \E c \in Chats : ChatStep(c)
    \/ \E k \in 1 .. MaxUpsets : SendStep(k)
    \/ \E hash \in ChatOrNone : HandleRouteChange(hash)
    \/ Expires \/ Drops \/ GivesUp \/ Opens \/ Attach \/ Refuse
    \/ CloseMobileChatPane \/ LoadOlder \/ SubmitMessage \/ Login \/ HandleLogout

Spec == Init /\ [][Next]_vars

-----------------------------------------------------------------------------
(* Properties. *)

IsAnswer(answer) ==
    \/ answer \in {NoAnswer, Failed, Unauthorized, Done}
    \/ answer \in [tag : {"page"}, seqs : SUBSET Nat, hasMore : BOOLEAN]
    \/ /\ DOMAIN answer = {"tag", "chats", "first"}
       /\ answer.tag = "list" /\ answer.first \in ChatOrNone
       /\ DOMAIN answer.chats \subseteq Chats /\ answer.chats \in [DOMAIN answer.chats -> Nat]

IsTask(task) ==
    /\ IsAnswer(task.answer)
    /\ [task EXCEPT !.answer = NoAnswer] \in
         [pc : {"idle", "me", "login", "logout", "create", "list", "page", "older", "read"},
          origin : {"none", "me", "login", "reopen", "created", "create"},
          chat : ChatOrNone, keep : BOOLEAN, linked : ChatOrNone, before : Nat, answer : {NoAnswer}]

TypeOK ==
    /\ log \in [Chats -> Seq(0 .. MaxUpsets)]
    /\ serverChats \subseteq Chats
    /\ newest \in ChatOrNone
    /\ unread \in [Chats -> Nat]
    /\ session \in BOOLEAN
    /\ conn \in {"off", "open", "attached"} /\ wanted \in BOOLEAN
    /\ events \subseteq Messages
    /\ \A sends \in {wire, late, acks, queued, unacked, lost} : sends \subseteq 1 .. MaxUpsets
    /\ sentTo \in Seq(Chats)
    /\ IsStore(store)
    /\ mobilePane \in {"chats", "chat"}
    /\ route \in ChatOrNone
    /\ DOMAIN tasks = Tasks /\ \A t \in Tasks : IsTask(tasks[t])
    /\ excused \subseteq Messages
    /\ strayed \in BOOLEAN
    /\ upsets \in 0 .. MaxUpsets

\* Nothing is running or on its way.
Quiet ==
    /\ conn = "attached"
    /\ events = {} /\ wire = {} /\ acks = {}
    /\ \A t \in Tasks : Free(t)

\* A message is shown as pending only while the connection still keeps it, so that it is
\* sent again and acknowledged, or when a full queue has pushed it out before any connection
\* carried it, and then it is stored nowhere: no copy stays behind beside the stored one.
PendingIsUnacked ==
    \A i \in store.feed : i.pending =>
        i.id \in queued \cup unacked \/ (i.id \in lost /\ ~IsLogged(i.id))

\* A message below the feed that scrolling up will still load.
Offered(c, n) ==
    /\ c \in DOMAIN store.pages /\ n < store.pages[c].oldest
    /\ store.pages[c].hasMore /\ ~store.pages[c].loading

\* When all is quiet no message of the open chat is lost to its reader: each is in the feed
\* or below it, where scrolling up loads it, but for those the client could not know of or
\* took away itself: stored while the connection was not attached, after its last opening,
\* or known only by a load that failed; newer than a page that replaced them, read before
\* they were stored; or skipped, because an older page met a reload, or an old message that
\* was broadcast or acknowledged again went into the feed as its new first one.
FeedCatchesUp ==
    LET c == store.active
    IN  Quiet /\ store.signedIn /\ c # NoChat
        => \A n \in 1 .. Len(log[c]) :
             Stored(c, n) \in store.feed \/ Offered(c, n) \/ <<c, n>> \in excused

\* When all is quiet the open chat is read, on the client and on the server.
OpenChatIsRead ==
    LET c == store.active
    IN  Quiet /\ store.signedIn /\ c # NoChat
        => /\ c \in DOMAIN store.chats /\ store.chats[c] = 0
           /\ unread[c] > 0 => \E n \in 1 .. Len(log[c]) : <<c, n>> \in excused

\* When all is quiet the address is that of the open chat, unless the user has changed it.
RouteFollowsChat ==
    Quiet /\ store.active # NoChat => route = store.active \/ strayed

\* A feed that says that it is loading older messages is: the flag, which keeps it from
\* asking again, does not outlive the request.
LoadingHasRequest ==
    \A c \in DOMAIN store.pages :
        store.pages[c].loading => \E t \in Tasks : tasks[t].pc = "older" /\ tasks[t].chat = c

\* A message the user has sent is kept by the connection until it is in the log of its
\* chat, where it stands once, whatever is lost, repeated or reloaded in between; only
\* the paths that sign the user out forget what a connection has carried, and besides them
\* only a full queue forgets one that none has carried, the oldest, which is never stored.
Outcome == INSTANCE Submissions WITH
    Other <- Peer, Capacity <- MaxQueuedEvents, signedIn <- store.signedIn, to <- sentTo,
    waiting <- queued, carried <- unacked

ImplementsSubmissions == Outcome!Spec

=============================================================================

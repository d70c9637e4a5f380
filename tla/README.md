# chot: specifications, model checking and proofs

TLA+ modules for the chat application of this repository: a Fastify server that keeps
accounts and direct chats in PostgreSQL, a WebSocket gateway that tells open browser tabs of
new messages, and a web client with a reconnecting WebSocket, a store and a shell that draws
it. TLC checks each module on a small instance; TLAPS proves most of the safety for every
instance. Every definition is translated from the source; `PROJECT.json` names the lines it
stands for.

Paths below are relative to the repository: `server` stands for `apps/server/src`, `web` for
`apps/web/src`.

## 1. Inventory

| Component | Source | State | Operations | Module |
|---|---|---|---|---|
| Message service | `server/modules/chats/chat-service.ts` 189-398 | rows of `chats`, `messages`, `chat_members` | `sendMessage`, `markChatRead`, `listMessages` | `ChatMessages`, `ChatLog` |
| Direct chat service | same, 96-184, 400-479 | rows of `chats`, `direct_chats`, `chat_members` | `createDirectChat`, `listDirectChats` | `DirectChats`, `ChatRegistry` |
| WebSocket gateway | `server/ws/gateway.ts` | `socketsByUserId`, the listeners of each socket | connect, authenticate, `message.send`, `ping`, close | `Gateway`, `ChatLog` |
| WebSocket client | `web/services/ws-client.ts` | socket, status, queue, in-flight sends, timers | connect, disconnect, dispose, send, socket, browser and timer events | `WsClient`, `Outbox` |
| Accounts and sessions | `server/modules/auth`, `server/modules/admin`, `server/db/seed-admin.ts`, `server/http/auth-*.ts` | rows of `users`, `sessions`, the browsers' cookies | register, login, logout, resolve, approve, reject, seed | `Accounts`, `Membership` |
| Client store | `web/app/store.ts` | session, open chat, chats, feed, pages | reducers | `AppStore` |
| Application shell: data | `web/app/x-app-shell.ts` | running async calls, route, pane | bootstrap, login, logout, load, open, page, send, realtime events | `Workspace`, `Submissions` |
| Application shell: drawing | same, `x-message-list.ts`, `x-chat-list.ts` | forced scrolling, place of the feed, search | render, frames, scrolling, older pages, search | `ChatView` |
| HTTP routes, API client | `server/http`, `web/services/api-client.ts` | none | parse, call one service, format | as requests of `Workspace` and `Accounts` |
| Administrators' list | `web/app/admin-approvals-controller.ts` | the list in the store | load, review | not modelled |
| Context menu, bubbles, composer, forms | `web/components` | DOM | focus, keys, markup | not modelled |
| User discovery | `server/modules/users` | none | one query | not modelled |
| Configuration, database client, demo seed, shared types | `server/config.ts`, `server/db`, `packages/shared` | none | start-up | not modelled |

How they interact. The shell calls the HTTP routes, which call one service each. A message
goes by `WebSocketClient.sendMessage` to the gateway, which awaits `chatService.sendMessage`,
answers with `message.ack` on the same socket and broadcasts `message.created` to the other
online sockets of the chat's participants. The shell applies both to the store, and each
change of the store draws the whole page anew. Server requests share nothing but the
database; the gateway's index of sockets lives in the memory of one Node process, whose
callbacks interleave only at `await`.

What is hard in this system:

- **Concurrent transactions.** Sends of one chat serialise on the row of `chats`; a retry of
  the same `clientNonce` may overlap with its first attempt; two calls create the same direct
  chat; a read mark is written while sends commit; two administrators decide about one
  applicant. Any statement may fail, and the answer may be lost after the commit.
- **Awaits on the server.** The gateway authenticates between the opening of a socket and its
  listeners; the index changes while a message is stored; roles and statuses are read one
  statement before they are used.
- **Awaits on the client.** Every load of the shell decides before a request and acts after it,
  while the user, the route, the connection and other loads go on.
- **The client's lifecycle.** User calls, the events of the current and of former sockets,
  two timers and the browser's online and offline events come in any order.
- **Delivery.** What was written to a dying socket must be repeated, once and in order;
  broadcasts overtake each other, repeat, or find nobody.
- **Drawing.** A list is placed one to three frames after it is drawn, and may be replaced
  before that.

What makes each component right:

- messages: no gap and no repetition in `seq`, exactly-once storage per nonce, preview and
  unread counters that agree with the log, every call ends;
- direct chats: one whole chat per pair, the same answer to all who ask;
- accounts: nobody has a session whom nobody entitled has let in, one decision per applicant;
- gateway: only members are told, only of stored messages, and no online member is missed;
- client: one connection, never stranded, nothing lost or reordered, the status is true;
- store and shell: once all is quiet the open feed agrees with the log, is read, and is the
  chat of the address; nothing stays pending or loading for ever;
- drawing: the search answers what stands in its field, own messages are in view, a reader
  keeps his place.

`PROJECT.json` lists every hazard with its line and the properties that watch it.

## 2. Modules

| Module | What it is |
|---|---|
| `ChatLog` | Abstract: an append-only log that stores a submitted message at most once and answers with its place |
| `ChatMessages` | `sendMessage` and `markChatRead`, one action per SQL statement |
| `ChatRegistry` | Abstract: at most one chat per pair, made on request, of which all who ask are told |
| `DirectChats` | `createDirectChat`, one action per SQL statement |
| `Membership` | Abstract: who may be let in, who decides, and that a decision is taken once |
| `Accounts` | registration, login, logout, review and seed, one action per SQL statement |
| `Gateway` | the gateway, one action per callback or continuation after an `await` |
| `Outbox` | Abstract: what a client does with the events it is given, whatever becomes of its connections |
| `WsClient` | the client, one action per public method, event or timer |
| `AppStore` | the reducers of the store, as operators on a state record |
| `Submissions` | Abstract: a submitted message waits or is carried, is kept from then on until it is stored, and stored once |
| `Workspace` | the shell's async calls over `AppStore`, with server and connection as their modules promise |
| `ChatView` | drawing, scrolling, older pages and search |
| `*_proofs` | the theorems about each |
| `MC*` | the instances that TLC checks |

### ChatMessages

The rows of one chat: `messageSeq`, `lastMessage` and `updatedAt` are columns of `chats`,
`messages` is the table, `lastReadSeq` and `unreadCount` columns of `chat_members`. Chats
share no row, so one is enough. A request stands at `pc[r]`, the statement it runs next:

    sendMessage:   ReceiveSend  FindExisting  BeginTransaction  IncrementSeq
                   InsertMessage  Commit  AnswerSend          FindRaced after a violation
    markChatRead:  ReceiveRead  WriteReadMark

PostgreSQL runs at READ COMMITTED. `IncrementSeq` waits for the lock on the row of `chats`
and sees what its last holder committed; the lock is held to the end of the transaction. What
a transaction writes becomes visible in `Commit`, which therefore writes the message, the
preview and the counters at once. `now()` is the start of the transaction (`began`). `Fail`
is every other way out: a failed statement, a broken connection, a crash of the server, an
answer that is lost after the commit. A retry is another request with the same nonce.

`CodeSeen` is the set of results `hasDatabaseCode(error, '23505')` may have on a unique
violation. It looks at the `code` of the error itself; when the driver layer wraps the
database's error the code is on its `cause` and the test is false. Both are explored: the
invariants hold either way, and the call fails where it would otherwise have found the row.

`readAt` is history: `message_seq` when a read mark was last written.

### DirectChats

The three tables and the calls of `createDirectChat`: `ReceiveCreate`, `FindExisting`,
`InsertChat`, `InsertPair`, `Commit`, `FindRaced`, `LoadSummary`, `Fail`. A second insert of
the same pair waits at the unique index until the other transaction ends (`InsertPair` is not
enabled meanwhile), and then succeeds or clashes. Ids are numbers because `orderUserPair` and
a CHECK of the table compare them.

`ChatRegistry` knows who asked for whom, the chats with their members, and who was told of
which. `DirectChats` implements it with the calls that were let in, the rows of `chats` with
those of `chat_members`, and the calls that were answered: `ReceiveCreate` is `Ask`, `Commit`
is `Register`, `LoadSummary` is `Tell`, and all the rest changes nothing there.

### Accounts

The tables `users` and `sessions`, the cookie of each browser, and `calls`, the requests that
are running. A request takes its cookie when it leaves the browser and stands at the statement
it runs next: `InsertUser`; `FindUser`, `InsertSession`; `Revoke`; `Resolve`, `Review`. Its
answer is taken in `Answered`, which sets or clears the cookie, or is lost (`Fails`). Between
`FindUser` and `InsertSession` the status of the user, and between `Resolve` and `Review` the
role of the reviewer, is what an earlier statement has read. `SeedAdmin` is the upsert of the
installation script. `late` and `verdicts` are history. A login taken by a concurrent
registration is the unique index's answer; when `hasDatabaseCode` misses it the call fails,
which `Fails` covers. The status `disabled` is in the schema, but no code writes it.

`Membership` has three facts about each person and six ways to change them; `Accounts`
implements it with the statuses of the rows, the rows of administrators, and the users of
sessions that are neither revoked nor expired.

### Gateway

`readyState` is the server's end of each socket, `phase` how far `handleWebSocketConnection`
has come, `online` the map `socketsByUserId` as a set of pairs. `Opens` starts the
authentication; `Attach` is the continuation after `resolveSocketUser`, in whatever state the
socket is by then; `Refuse` is its catch block. `Closes` and `Errors` run the listeners, if
they are attached. `Arrives` starts `handleSendMessage`; `Deliver` and `Fail` are what follows
its `await`. The chat service is used by what `ChatMessages` proves of it: a call either appends
its message (`Store`) or finds it stored by an earlier call (`Finds`), and takes its seq
(`place`); it returns some time later, when other messages may be stored, or fails all the same.
`Attach` and `Refuse` are both possible for any socket, so sessions that end are covered.

An event carries the seq that `sendMessage` returned to its call, as the code puts
`delivery.message` into acknowledgement and broadcast. `Announced`, the pairs of message and seq
in the events that were sent, is the `answered` of `ChatLog`: `Store` is `Accept`, `Deliver` is
`Answer` to several people at once. It reads nothing off the log.

Left out: pings, malformed and unknown events, which are answered at once and change nothing.

### WsClient

The fields of the class, plus what the browser keeps of each `WebSocket`. Each action is one
callback with all the calls it makes (`connect`, `openSocket`, `flushPendingEvents`,
`handleClosedSocket`, the timers' setting and clearing). Delays are abstracted: a timer may
fire as soon as it is set. A closed socket raises no more events, so `SocketOpens` and
`SocketCloses` of former sockets (late events) are possible until then, and afterwards the
name may serve for a new connection. Events are numbered in the order they are made; `made`,
`finished`, `dropped` and `gaveUp` are history.

`Outbox` knows no sockets, timers, attempts or status: an event is made, is fresh or sent,
done or lost, and a connection is up or not and has been given a line of events. `WsClient`
implements it with its queue (`fresh`), its in-flight sends (`sent`) and what was written to
the open socket (`line`).

### AppStore and Workspace

`AppStore` has one operator per reducer, with the reducer's name, on a record of the session,
the open chat, the badges, the feed and the pages. The feed is a set: the code keeps one item
per id and sorts by `seq`. An optimistic item is known by its nonce and has no `seq`.

`Workspace` composes it with what the other modules promise of the server (`log` grows,
`unread` is exact, an attached connection is told), of the connection and of HTTP. A running
async call is a task that stands at the request it awaits: `Serve` computes the answer on the
server, `Fails` loses it, and one action per call handles it (`ListAnswered` is `loadChatWorkspace` after
`listDirectChats`, `PageAnswered` is `loadChatMessages` with the read mark that both its
callers go on to, and so on). What the code decides before the `await` is in the task's fields
(`chat`, `keep`, `linked`, `before`), what it decides afterwards is read from the store then.
The actions of users (`OpenChat`, `HandleRouteChange`, `CloseMobileChatPane`, `LoadOlder`,
`SubmitMessage`, `MarkReadFromMenu`, `Login`, `HandleLogout`, `CreateDirectChat`), events of
the connection (`Opens`, `Refuse`, `ApplyAck`, `ApplyCreatedMessage`) and steps of the server
run in between. `events` is a set because broadcasts overtake each other; `BroadcastAgain`
repeats one.

Of the connection it has the two queues. A send that finds the socket open goes to `unacked`
(`inFlightEvents`) and `wire`; otherwise it goes to `queued`, which keeps the newest
`MaxQueuedEvents` and loses the others (`lost`, history), and the client connects again if it
had given up. `Opens` writes both queues; an acknowledgement ends the keeping; `disconnect`
empties both. `Attach` loses any number of the messages that arrived before it. When the
connection drops, the gateway may have begun to handle some of the sends: these (`late`) are
stored later, or fail, and as their socket is gone the user's next connection is one of those
that hear of them (`StoreLate`). `SendFails` is a `sendMessage` that throws before its commit;
one that throws after it stores a message of which nobody is told (the answer of the database
is lost): that is in `ChatMessages` and `Gateway` and left out here, where every stored message
is announced to whoever is attached.

Sends are numbered in the order they are made, so sets of them stand for the queues: the oldest
of a queue is the least number.

`excused` and `strayed` are history, and say for which messages and when `FeedCatchesUp`,
`OpenChatIsRead` and `RouteFollowsChat` do not hold, by the reasons given at the properties.
`excused` is emptied when the connection opens, because the reload that starts then has to
bring everything.

`Submissions` is what is left of all this for somebody who writes messages and looks for them
in the logs afterwards. `Workspace` implements it with `sentTo`, `queued` (waiting), `unacked`
(carried), `lost` and `log`. It says nothing of the order in which messages of one chat are
stored, because the code does not keep it: what is written between `Opens` and `Attach` is lost and repeated on the next connection,
after what was written later on this one.

### ChatView

The same shell, seen by what it draws. `list` is the `x-message-list` in the document: the chat
it was drawn for, its rows, its offset, where it was told to go and how many frames it has had.
`Render` is the code's `render`; `Frame` runs the callbacks of one animation frame, those of
the list (`Moved`) and those that end the force (`releases`). A handler that changes the store
twice draws twice (`RenderTwice`). The feed is an interval of rows of equal height, so offsets,
heights and thresholds are numbers of rows. The search has its timer, its requests and its
request id. `window`, `following` and `reader` are history: the two frames after an own
message, whether all drawing since it fell into them, and the row a reader has chosen to see.

## 3. Runs

| Run | Question | Result |
|---|---|---|
| `chat_messages` | Three calls of send or read by members and a stranger, with retries, failures and lost answers | passes |
| `read_mark` | Is the read mark `message_seq` when it is written? (IMPLEMENTATION.md:562) | violated |
| `chronology` | Is a page in chronological order? (IMPLEMENTATION.md:366) | violated |
| `direct_chats` | Three calls of `createDirectChat` among three active users and a pending one | passes |
| `accounts` | Overlapping registrations, logins, logouts and reviews, with seeds, expiries and lost answers | passes |
| `gateway` | Two tabs of a member and a stranger's connection; a message with its repetition, or two | passes |
| `gateway_leak` | Is a closed socket out of the index? (gateway.ts:55) | violated |
| `ws_client` | Any order of calls, events and timers over three sockets and four events | passes |
| `ws_online_after_giving_up` | Does `online` reconnect after giving up? (IMPLEMENTATION.md:678) | violated |
| `workspace` | Loads, routes, realtime events and users at once, two async calls at a time | passes |
| `chat_view` | Drawing, frames, scrolling, paging and search in any order | passes |
| `chat_view_reader` | Does a reader of old messages keep his place? (IMPLEMENTATION.md:688) | violated |

What the passing runs establish:

- `ChatMessages`. `SeqContiguous`: the seqs are 1..`message_seq` though calls fail after
  taking one. `NonceStoredOnce`: a message is stored once however it is retried.
  `PreviewIsNewest`: preview and date are the newest message's. `UnreadExact`: the counter,
  kept by increments and a reset, is the number of the others' messages since the reset.
  `ClashIsDuplicate`: a violation is always that of the caller's own nonce, committed before,
  and never of a seq, so that the second lookup, where `CodeSeen` lets it run, finds it.
  `ImplementsLog`: all of it refines `ChatLog`, with `StoredLog` and `Answered` as the mapping.
- `DirectChats`. `ImplementsRegistry`: it refines `ChatRegistry`, so that a pair has one chat,
  with the two as members and nobody else, and all who are answered are told of it. Behind
  it: `NoHalfMadeChat` (the three tables agree), `ClashIsResolvable` (the second lookup
  finds the chat that clashed).
- `Accounts`. `ImplementsMembership`: a session begins only while its user is active and a
  decision is taken only while its reviewer is an active administrator, although both act on
  rows read before. `DecidedOnce`: one review of an applicant succeeds, and stands.
  `RevokedIsRefused`: a cookie that outlives its session decides nothing.
- `Gateway`. `ToldIsStored` (only stored messages, to members, acknowledged to their author),
  `OnlineIsComplete` (no order of tabs opening and closing takes an open one off line),
  `NothingMissed` (whoever was online before a message was stored has heard of it when the
  call is done), `ImplementsLog` (every acknowledgement and broadcast names the one place of its
  message in an exactly-once log, though other messages are stored before a call returns and a
  repetition is answered long after), `EverySendIsAnswered`.
- `WsClient`. `NeverStranded` (a client that means to be connected has a socket or a timer,
  never both), `OneConnection`, `StatusIsTrue`, `Watched` (one heartbeat timer per open
  connection and none left over), `EventsAccounted` (each event is in one place),
  `ImplementsOutbox` (each connection is given all that is unfinished, in the order of making
  and nothing twice; only a full queue and `disconnect` lose events), `QueueIsFlushed`.
- `Workspace`. `FeedCatchesUp`: when all is quiet each message of the open chat is in the feed,
  or below it where scrolling up still loads it, but for those named in the comment of the
  property. `OpenChatIsRead`: the open chat is read on both sides. `RouteFollowsChat`: the
  address is its address. `PendingIsUnacked`: an optimistic message is one that will be sent
  (again), so it never stays beside its stored copy, or one that a full queue has pushed out
  before any connection carried it; that one stays pending until the feed is replaced, and is
  stored nowhere. `LoadingHasRequest`: the flag of an older page ends with its request.
  `ImplementsSubmissions`: whatever is lost, repeated or reloaded, a message that a connection
  has carried is kept until it stands in the log of its chat, and only signing out forgets it;
  one that waits for a connection can also be pushed out by newer ones; what was lost while it
  waited is never stored, and every message comes to stand in its log at most once.
- `ChatView`. `SearchSettles`: the note and the results are those of the field, whichever
  answers are late. `OwnMessageIsSeen`: an own message is in view when the list rests, whatever
  is drawn and whichever other sends and acknowledgements fall into its two frames. It ends with
  the first drawing after these frames. An acknowledgement that takes longer draws twice and
  unforced; what that does is finding 5.

### Bounds

- Three requests are enough for a first send, its retry and a third party (a send or a read)
  between any two of their statements. Each chat has two members by its construction; the
  third user covers refusals.
- Two tabs of one member are the smallest case in which an index entry of a user changes while
  another stays; the stranger's connection shows who must not be told. The member has two
  messages, so that two calls cover a message and its retry, and two messages of which one is
  stored while the other's call has not returned.
- Three sockets are the current one and two that are still closing; names are used again, so
  the number of reconnections is not bounded. Four events (`MaxEvents`, one a ping) overfill a
  queue of two (`MaxQueuedEvents`) while others are in flight; two attempts
  (`MaxReconnectAttempts`) reach both a retry and giving up.
- `Accounts`: two calls at a time from one browser over the life of the tables; `MaxCalls`
  bounds the requests, which is enough to register, let in, log in and decide twice;
  `MaxUpsets` bounds seeds, expiries and failures.
- `Workspace`: two tasks are a load and another one that overtakes it. One chat with two
  messages and a page of one has an older page; the other chat does not exist at first, so that
  it may appear by a message or by creation. The page is opened by a link to the first
  (`FirstRoutes`), which the user may take back before the session is known (`HandleRouteChange`),
  so the start without a link is one upset away. A queue of one (`MaxQueuedEvents`) overflows with
  two sends after a drop, which three upsets allow. `MaxUpsets` bounds what users do and what goes
  wrong, all in all; answers, deliveries, reconnections and reloads are not bounded.
- `ChatView`: a view of one row over two to four, thresholds of 0 rows, and pages of two give
  every relation of an offset to its thresholds. Three changes of the search over two queries
  reach an answer that is late by two; `MaxUpsets` bounds what is opened, closed and failed.

Requests, handlers and events are used up, and a `WsClient` that was disposed of does nothing
more: the systems really stop there, so the runs say `CHECK_DEADLOCK FALSE`, and the liveness
properties say that nothing stops half way.

### Fairness

- A request that is being served goes on (weak fairness of its statements): the event loop and
  PostgreSQL do not pause for ever. `IncrementSeq` has strong fairness, because the row lock is
  a queue in which every waiter gets its turn though others hold the lock in between.
- `resolveSession` and `sendMessage` return or throw (weak fairness of `Attach` or `Refuse`, and
  of `Call`, the statements and the return of one call).
- A connection attempt succeeds or fails, a closing socket closes, the reconnect timer fires.
  Nothing makes an open socket close, a pong or an acknowledgement arrive, the browser come on
  line again or the user act.
- `Accounts`, `Workspace` and `ChatView` state safety only. What should happen in the end is
  said of quiet states there (`Quiet`), which needs no fairness.

## 4. Findings

1. `markChatRead` reads `message_seq` and writes `last_read_seq` in two statements. A send in
   between is counted as read while the mark lies before it, and overlapping reads can move
   the mark back. IMPLEMENTATION.md:562 has the mark equal to `message_seq`. (`read_mark`)
2. Pages are ordered by `seq`, which is taken under the row lock; `created_at` is the start of
   the transaction. Overlapping sends can have the two in opposite orders, while
   IMPLEMENTATION.md:366 calls the page chronological. (`chronology`)
3. When the attempts are used up `handleClosedSocket` clears `shouldReconnect`, and the
   `online` event then returns early: only a manual action connects again, although
   IMPLEMENTATION.md:678 names the event as well. (`ws_online_after_giving_up`)
4. A socket that closes while its session is being resolved is put into the index afterwards
   and never removed, because its close event had no listener. Sends to it are skipped; the
   entry stays as long as the process. (`gateway_leak`)
5. An incoming message, an acknowledgement and an older page each change the store twice in
   one task, so the feed is drawn twice before an animation frame. The second drawing takes
   the offset of the list that the first one has just made, which is 0: a reader of older
   messages is thrown to the top of the loaded feed, where the next page is asked for.
   IMPLEMENTATION.md:688 says that he keeps his position. (`chat_view_reader`)

What the properties of `Workspace` excuse by name is behaviour of the code as well: a message
stored between the reading of a page and its use is missing until the next load; an old
message that is broadcast again, or that is acknowledged on a later connection and lies below
the page loaded there, becomes the first of the feed, and older pages skip what lies between;
a failed load leaves the feed as it is until the connection opens again.

## 5. Proofs

All theorems hold for any users, messages, calls, sockets, queries and bounds. The only
assumptions are those the modules state of their constants (what is a subset of what, that
bounds are numbers and that null is not a value).

| Module | Theorems | Inductive invariant |
|---|---|---|
| `ChatMessages_proofs` | `TypeCorrect`, `SeqsAreContiguous`, `StoredAtMostOnce`, `PreviewIsCurrent`, `ClashIsResolved`, `UnreadIsExact`, `ServiceImplementsLog` | The properties with `Bookkeeping`: the lock is held exactly by the transaction between `IncrementSeq` and `Commit`, and the seq it has taken is `messageSeq + 1`. From it an insert can clash by nonce only, never by seq. |
| `DirectChats_proofs` | `TypeCorrect`, `PairHasOneChat`, `ChatsAreWhole`, `ClashResolves`, `AnswersAlwaysAgree`, `ServiceImplementsRegistry` | `RequestInv` says what each call knows at each statement, `OneInserts` that two transactions never hold the same pair; for the refinement also that the calls let in are of active users. |
| `Accounts_proofs` | `TypeCorrect`, `ReviewedOnce`, `RevokedStaysOut`, `AccountsImplementMembership` | Types with what a running call knows: a login past `FindUser` has an active user, an actor is an active user and an administrator if its role says so, a late request's session is revoked. No step takes these back, which is why acting on rows read earlier is sound. |
| `WsClient_proofs` | `ClientNeverStranded`, `OneLiveConnection`, `StatusIsAlwaysTrue`, `OpenIsWatched` | The four properties with `CurrentSocket`: the client keeps no closed socket, and off line no live one. None is inductive alone: each path that opens a socket relies on the others. |
| `WsClientEvents_proofs` | `ClientTypes`, `EveryWireInOrder`, `NoEventForgotten`, `NothingHeldBack`, `ClientImplementsOutbox` | The invariant of `WsClient_proofs` with `QueuesInOrder` (what waits for an acknowledgement was made before what is queued, each in order) and `WiresInOrder` (nothing is on a socket that has not opened, and what is on one grows). A flush resends the first and then the second, so every wire grows in order. |
| `Gateway_proofs` | `TypeCorrect`, `OnlyStoredIsTold`, `OpenIsOnline`, `NothingIsMissed`, `GatewayImplementsLog` | The properties with: calls are of the socket's own user, stored messages are by members, `since` lies in the past, and what a call past its commit holds is the place of its message (`PlaceIsTrue`). |
| `Workspace_proofs` | `TypeCorrect`, `PendingIsAlwaysUnacked`, `LoadingAlwaysHasRequest`, `RouteAlwaysFollows`, `OpenChatAlwaysRead`, `FeedAlwaysCatchesUp`, `WorkspaceImplementsSubmissions` | `WInv`: what travels was sent, what is acknowledged is logged, a call of a chat has one and its answer is of the kind asked for. `Watch`: whatever the open chat does not show yet is excused, on its way, or due to be loaded by a running call; what is offered below a chat begins at a message that is shown; a page has no gaps, and reaches the first message if it offers no more; a nonce is logged once and in its own chat; what waits in the queue or was lost there is in no log, on no wire and not carried. |
| `ChatView_proofs` | `SearchAlwaysSettles`, `OwnMessageAlwaysSeen` | For the search: request ids only grow, and of the current id there is at most one search, for what stands in the field, and then no timer. For own messages: the force outlasts the window after a send, and a list drawn in between is at its end or on the way there. |

`UnreadIsExact` is proved on top of the invariant, by showing that a commit adds one element to
the set that the counter counts.

Every abstract specification is implemented by a theorem. Each of these proofs maps the initial
states, and then every action to one abstract step or to a stutter:

- `ServiceImplementsLog`: `Commit` is `Accept` and the answers are `Answer`. That a commit
  appends one nonce to the sequence read off the rows rests on the seqs being contiguous.
- `GatewayImplementsLog`: `Store` is `Accept` and `Deliver` is `Answer`, although it tells
  many. `PlaceIsTrue` carries the seq over the wait for `sendMessage`: what a call has stored or
  found stays at its place while others are stored, so the event names it still. `Finds` is
  seen as nothing, and what is refused or fails names no place.
- `ServiceImplementsRegistry`: `Commit` is `Register`. No other call at `commit` has the same
  pair (`OneInserts`), so a call that stands there has no row of its pair to clash with, and
  the pair is not registered yet; ids are not used twice, so nobody else becomes a member of a
  chat afterwards. `LoadSummary` is `Tell`, because the row a call has found or made is that of
  its pair.
- `ClientImplementsOutbox`: `Send` is `MakeUp` or `MakeDown`, by whether the socket is
  open, and enqueuing drops the oldest; `SocketOpens` is `Open`, where a flush of two sequences
  in order, the first wholly before the second, is the one line that `Open` asks for; the
  acknowledgement is `Acknowledge`; whatever else takes the current socket away is `Close`, and
  only `disconnect` and `dispose` are `Discard`. All other steps are seen as nothing, which
  the proof shows for each of them.
- `AccountsImplementMembership`: only `InsertUser`, `Review`, `SeedAdmin`, `InsertSession`,
  `Revoke` and `Expires` are seen from `Membership`.
- `WorkspaceImplementsSubmissions`: `SubmitMessage` is `SubmitAndCarry` or `SubmitAndWait`, by
  whether a socket is open, and `Opens` is `Carry`. `StoreSent` and `StoreLate` are `Store` when
  the nonce is new and nothing otherwise; what is on a wire was carried, so nothing that waits
  or was lost while waiting is stored. `ApplyAck` is `LetGo` of a message that is in its log
  because acknowledgements are sent after storing, and the ways out of the session are `SignOut`.
  `Drops`, `GivesUp`, `Attach`, `SendFails` and all loads, pages and routes are stutters.

The refinements of the direct chats and of the client say more than the invariants that the
theorems beside them state (`OneChatPerPair`, `AnswersAgree`, `WireInOrder`,
`WrittenWhenOpen`), which is why the runs check the refinements and not these.

The properties of `Workspace` about quiet states follow from `Watch`, which holds in all
states: when nothing runs or travels, "due" leaves only what is excused. `Steady` carries it
over the steps that leave the feed and the calls that matter alone, and a step that opens or
reloads a chat starts a call that covers everything. Four steps change the feed. A stored
message is added by `ApplyAck` and `ApplyCreatedMessage` (`GrownWatch`), a page replaces
(`PageShownWatch`), and older messages are put below (`PrependedWatch`). The messages that
these steps leave out lie in `Skipped` or `Overtaken`, which is all that they add to `excused`.
What a page leaves out below it is offered, as `listMessages` says that there is more exactly
when a page does not reach the first message (`Gapless`), and no load that would block the
next one is left over (`LoadingHasRequest`).

Only model-checked: everything about fairness (`EveryRequestEnds`, `EverySendIsAnswered`,
`QueueIsFlushed`), which is beyond this prover. What these rest on is proved: the row lock is
held by a running transaction only (`Bookkeeping`), an insert that waits at the unique index
waits for one that stands at its commit (`Inserting`), a client that means to be connected
has a socket or a timer (`ClientNeverStranded`).

## 6. What is not modelled

- The text of messages, trimming and length limits, date labels, previews, avatars, layout.
- Reads that change nothing beyond what the shell makes of them (user search, the list of
  applicants): what they return is a property of the tables.
- The list of applicants in the store. Nothing but the administrator's panel reads it.
- The context menu, modals, theme, forms, composer, bubbles, date groups and the jump button:
  they live within one drawing, and the shell draws them anew with each change of the store.
- The delays of the backoff, of the heartbeat and of the search's debounce.
- More than one server process: the code has no way to broadcast between processes.
- Configuration, scripts, the demo seed.

## 7. Plan

Done: the modules above with their theorems, in the order `ChatMessages`, `DirectChats`,
`WsClient`, `Gateway`; `AppStore` and `Workspace`; `Accounts` over `Membership`; `ChatView`;
then the abstract specifications `ChatRegistry`, `Outbox` and `Submissions` with their refinements.
What is left, in order:

1. `WsClient` with the gateway's authentication: a send that is flushed too early is repeated
   only on the next connection.
2. The badge of a chat that is not open, under repeated broadcasts, and a link whose chat is
   closed again by the load that the connection's opening starts.
3. The context menu's positions and keys, and the grouping of messages, as operators.

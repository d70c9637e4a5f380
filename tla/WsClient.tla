------------------------------- MODULE WsClient -------------------------------
(***************************************************************************)
(* WebSocketClient of apps/web/src/services/ws-client.ts: one browser tab's *)
(* connection, its reconnection, the queue of events made while there is   *)
(* no connection, the sends waiting for an acknowledgement, and the        *)
(* heartbeat.                                                              *)
(*                                                                         *)
(* JavaScript runs one callback at a time, so every public method, socket  *)
(* event, browser event and timer is one action, with all the calls it     *)
(* makes. What the network, the server and the user do in between is       *)
(* arbitrary: a socket may close at any moment, an acknowledgement may     *)
(* come late or never, a timer may fire as soon as it is set (delays are   *)
(* not modelled, nor are malformed events, which are ignored).             *)
(*                                                                         *)
(* Events are numbered in the order they are made. A socket that is closed *)
(* can raise no more events, so its name is used again.                    *)
(***************************************************************************)
EXTENDS Integers, Sequences, FiniteSets

CONSTANTS
  Sockets,                \* names for WebSocket objects that are not closed
  None,                   \* this.socket = null
  MaxEvents,              \* bound: events the application makes
  Pings,                  \* those made by sendPing; the others by sendMessage
  MaxReconnectAttempts,   \* maxReconnectAttempts
  MaxQueuedEvents,        \* maxQueuedEvents
  HeartbeatOn             \* both heartbeat delays are above zero

ASSUME ConstantsAssumption ==
  /\ None \notin Sockets
  /\ MaxEvents \in Nat
  /\ Pings \subseteq 1..MaxEvents
  /\ MaxReconnectAttempts \in Nat
  /\ MaxQueuedEvents \in Nat
  /\ HeartbeatOn \in BOOLEAN

VARIABLES
  \* the browser and the network
  readyState,        \* of every WebSocket object
  wire,              \* the application's events written on it
  \* the fields of the client
  socket,            \* this.socket
  state,             \* what the user is shown
  shouldReconnect,
  isBrowserOnline,
  reconnectAttempt,
  reconnectTimer,    \* TRUE: set and not fired
  heartbeatTimer,    \* TRUE: set and not fired
  awaitingPong,      \* heartbeatPingId, and the timeout set and cleared with it
  queuedEvents,
  inFlightEvents,    \* a Map, which is iterated in the order of insertion
  listening,         \* the browser's online and offline events are heard
  \* history, which no action reads
  made,              \* events made so far
  finished,          \* messages acknowledged, pings written
  dropped,           \* pushed out of the full queue, or discarded by disconnect
  gaveUp             \* the last attempt failed, and nothing was done since

link == <<readyState, wire, socket>>
heartbeat == <<heartbeatTimer, awaitingPong>>
events == <<queuedEvents, inFlightEvents, made, finished, dropped>>
vars == <<readyState, wire, socket, state, shouldReconnect, isBrowserOnline,
          reconnectAttempt, reconnectTimer, heartbeatTimer, awaitingPong,
          queuedEvents, inFlightEvents, listening, made, finished, dropped, gaveUp>>

Events == 1..MaxEvents
Live == {"connecting", "open"}

TypeOK ==
  /\ readyState \in [Sockets -> {"connecting", "open", "closing", "closed"}]
  /\ wire \in [Sockets -> Seq(Events)]
  /\ socket \in Sockets \cup {None}
  /\ state \in {"idle", "connecting", "open", "reconnecting", "closed"}
  /\ shouldReconnect \in BOOLEAN
  /\ isBrowserOnline \in BOOLEAN
  /\ reconnectAttempt \in 0..MaxReconnectAttempts
  /\ reconnectTimer \in BOOLEAN
  /\ heartbeatTimer \in BOOLEAN
  /\ awaitingPong \in BOOLEAN
  /\ queuedEvents \in Seq(Events) /\ Len(queuedEvents) <= MaxQueuedEvents
  /\ inFlightEvents \in Seq(Events \ Pings)
  /\ listening \in BOOLEAN
  /\ made \in 0..MaxEvents
  /\ finished \subseteq Events
  /\ dropped \subseteq Events
  /\ gaveUp \in BOOLEAN

Init ==
  /\ readyState = [s \in Sockets |-> "closed"]
  /\ wire = [s \in Sockets |-> <<>>]
  /\ socket = None
  /\ state = "idle"
  /\ shouldReconnect = FALSE
  /\ isBrowserOnline \in BOOLEAN
  /\ reconnectAttempt = 0
  /\ reconnectTimer = FALSE
  /\ heartbeatTimer = FALSE
  /\ awaitingPong = FALSE
  /\ queuedEvents = <<>>
  /\ inFlightEvents = <<>>
  /\ listening = TRUE
  /\ made = 0
  /\ finished = {}
  /\ dropped = {}
  /\ gaveUp = FALSE

-------------------------------------------------------------------------------
Elements(seq) == {seq[i] : i \in DOMAIN seq}
Increasing(seq) == \A i, j \in DOMAIN seq : i < j => seq[i] < seq[j]
IsMessage(e) == e \notin Pings
IsOpen == socket # None /\ readyState[socket] = "open"

ClearHeartbeat ==
  /\ heartbeatTimer' = FALSE
  /\ awaitingPong' = FALSE

\* openSocket, where the browser is online.
OpenSocket(nextState) ==
  \E s \in Sockets :
    /\ readyState[s] = "closed"
    /\ readyState' = [readyState EXCEPT ![s] = "connecting"]
    /\ socket' = s
    /\ state' = nextState
    /\ reconnectTimer' = FALSE
    /\ ClearHeartbeat
    /\ UNCHANGED wire

\* connect(), with the field values its caller has set just before. All it leaves
\* to the action that calls it is the events.
ConnectAlways(online, attempt) ==
  /\ shouldReconnect' = TRUE
  /\ gaveUp' = FALSE
  /\ isBrowserOnline' = online
  /\ \/ /\ ~online
        /\ state' = "reconnecting"
        /\ reconnectAttempt' = attempt
        /\ UNCHANGED <<link, reconnectTimer, heartbeat>>
     \/ /\ online
        /\ reconnectAttempt' = IF state \in {"closed", "idle"} THEN 0 ELSE attempt
        /\ OpenSocket(IF state = "reconnecting" THEN "reconnecting" ELSE "connecting")
  /\ UNCHANGED listening

ConnectWith(online, attempt) ==
  /\ shouldReconnect' = TRUE
  /\ gaveUp' = FALSE
  /\ isBrowserOnline' = online
  /\ \/ /\ ~online
        /\ state' = "reconnecting"
        /\ reconnectAttempt' = attempt
        /\ UNCHANGED <<link, reconnectTimer, heartbeat>>
     \/ /\ online
        /\ socket # None
        /\ reconnectAttempt' = attempt
        /\ UNCHANGED <<link, state, reconnectTimer, heartbeat>>
     \/ /\ online
        /\ socket = None
        /\ reconnectAttempt' = IF state \in {"closed", "idle"} THEN 0 ELSE attempt
        /\ OpenSocket(IF state = "reconnecting" THEN "reconnecting" ELSE "connecting")
  /\ UNCHANGED listening

Connect ==
  /\ listening
  /\ ConnectWith(isBrowserOnline, reconnectAttempt)
  /\ UNCHANGED events

\* enqueueEvent: the oldest event makes room.
EnqueueUnbounded(e) ==
  /\ queuedEvents' = Append(queuedEvents, e)
  /\ UNCHANGED dropped

EnqueueEvent(e) ==
  LET pushed == Append(queuedEvents, e)
      excess == Len(pushed) - MaxQueuedEvents
  IN IF excess <= 0
     THEN /\ queuedEvents' = pushed
          /\ UNCHANGED dropped
     ELSE /\ queuedEvents' = SubSeq(pushed, excess + 1, Len(pushed))
          /\ dropped' = dropped \cup Elements(SubSeq(pushed, 1, excess))

\* What trackInFlightEvent makes of events just written: a message waits for its
\* acknowledgement, a ping is forgotten. "places" lists those of the messages, in
\* order: there is one such list.
TrackAfter(before, written) ==
  LET kept == {i \in DOMAIN written : IsMessage(written[i])}
  IN /\ \E places \in [1..Cardinality(kept) -> kept] :
          /\ Increasing(places)
          /\ Elements(places) = kept
          /\ inFlightEvents' = before \o [k \in DOMAIN places |-> written[places[k]]]
     /\ finished' = finished \cup (Elements(written) \cap Pings)

Track(written) == TrackAfter(inFlightEvents, written)

\* send(), on behalf of sendMessage and sendPing.
SendWithoutConnect ==
  /\ listening
  /\ made < MaxEvents
  /\ made' = made + 1
  /\ IF IsOpen
     THEN /\ wire' = [wire EXCEPT ![socket] = Append(@, made + 1)]
          /\ Track(<<made + 1>>)
          /\ UNCHANGED <<queuedEvents, dropped>>
     ELSE /\ EnqueueEvent(made + 1)
          /\ UNCHANGED <<wire, inFlightEvents, finished>>
  /\ UNCHANGED <<readyState, socket, state, shouldReconnect, isBrowserOnline,
                 reconnectAttempt, reconnectTimer, heartbeat, listening, gaveUp>>

Send ==
  /\ listening
  /\ made < MaxEvents
  /\ made' = made + 1
  /\ \/ /\ IsOpen
        /\ wire' = [wire EXCEPT ![socket] = Append(@, made + 1)]
        /\ Track(<<made + 1>>)
        /\ UNCHANGED <<readyState, socket, state, shouldReconnect, isBrowserOnline,
                       reconnectAttempt, reconnectTimer, heartbeat, queuedEvents,
                       listening, dropped, gaveUp>>
     \/ /\ ~IsOpen
        /\ EnqueueEvent(made + 1)
        /\ ConnectWith(isBrowserOnline, reconnectAttempt)
        /\ UNCHANGED <<inFlightEvents, finished>>

\* disconnect(): the old socket closes on its own, its events ignored from now on.
CloseCurrent ==
  IF socket = None \/ readyState[socket] \notin Live THEN UNCHANGED readyState
  ELSE readyState' = [readyState EXCEPT ![socket] = "closing"]

DoDisconnect ==
  /\ shouldReconnect' = FALSE
  /\ gaveUp' = FALSE
  /\ reconnectTimer' = FALSE
  /\ ClearHeartbeat
  /\ queuedEvents' = <<>>
  /\ inFlightEvents' = <<>>
  /\ dropped' = dropped \cup Elements(queuedEvents) \cup Elements(inFlightEvents)
  /\ CloseCurrent
  /\ socket' = None
  /\ state' = "closed"
  /\ UNCHANGED <<wire, isBrowserOnline, reconnectAttempt, made, finished>>

Disconnect == listening /\ DoDisconnect /\ UNCHANGED listening

\* dispose(): the shell is removed with the client it owns.
Dispose == listening /\ DoDisconnect /\ listening' = FALSE

\* The open event. flushPendingEvents writes what is unacknowledged, then what is
\* queued; the heartbeat starts.
FlushQueuedFirst(s) ==
  /\ wire' = [wire EXCEPT ![s] = @ \o queuedEvents \o inFlightEvents]
  /\ Track(queuedEvents)
  /\ queuedEvents' = <<>>

FlushForgetsInFlight(s) ==
  /\ wire' = [wire EXCEPT ![s] = @ \o inFlightEvents \o queuedEvents]
  /\ TrackAfter(<<>>, queuedEvents)
  /\ queuedEvents' = <<>>

FlushPendingEvents(s) ==
  /\ wire' = [wire EXCEPT ![s] = @ \o inFlightEvents \o queuedEvents]
  /\ Track(queuedEvents)
  /\ queuedEvents' = <<>>

SocketOpens(s) ==
  /\ readyState[s] = "connecting"
  /\ s = socket
  /\ readyState' = [readyState EXCEPT ![s] = "open"]
  /\ reconnectAttempt' = 0
  /\ state' = "open"
  /\ FlushPendingEvents(s)
  /\ heartbeatTimer' = HeartbeatOn
  /\ awaitingPong' = FALSE
  /\ UNCHANGED <<socket, shouldReconnect, isBrowserOnline, reconnectTimer, listening,
                 made, dropped, gaveUp>>

\* The close event of a socket, and handleClosedSocket if it is the current one.
ForgetStale(s) ==
  /\ s # socket
  /\ UNCHANGED <<socket, state, shouldReconnect, isBrowserOnline, reconnectAttempt,
                 reconnectTimer, heartbeat, gaveUp>>

Exhausted == reconnectAttempt + 1 > MaxReconnectAttempts

CloseSilently(s) ==
  /\ s = socket
  /\ socket' = None
  /\ ClearHeartbeat
  /\ reconnectAttempt' = IF Exhausted THEN reconnectAttempt ELSE reconnectAttempt + 1
  /\ reconnectTimer' = (isBrowserOnline /\ ~Exhausted)
  /\ UNCHANGED <<state, shouldReconnect, isBrowserOnline, gaveUp>>

HandleClosedSocket(s) ==
  LET retry == isBrowserOnline /\ ~Exhausted
      giveUp == isBrowserOnline /\ Exhausted
  IN /\ s = socket
     /\ socket' = None
     /\ ClearHeartbeat
     /\ shouldReconnect' = (shouldReconnect /\ ~giveUp)
     /\ gaveUp' = (shouldReconnect /\ giveUp)
     /\ state' = IF shouldReconnect' THEN "reconnecting" ELSE "closed"
     /\ reconnectAttempt' = IF shouldReconnect /\ retry THEN reconnectAttempt + 1
                            ELSE reconnectAttempt
     /\ reconnectTimer' = (reconnectTimer \/ (shouldReconnect /\ retry))
     /\ UNCHANGED isBrowserOnline

SocketCloses(s) ==
  /\ readyState[s] # "closed"
  /\ readyState' = [readyState EXCEPT ![s] = "closed"]
  /\ wire' = [wire EXCEPT ![s] = <<>>]
  /\ ForgetStale(s) \/ HandleClosedSocket(s)
  /\ UNCHANGED <<listening, events>>

\* The error event: the socket is told to close.
SocketFails ==
  /\ socket # None
  /\ readyState[socket] \in Live
  /\ CloseCurrent
  /\ UNCHANGED <<wire, socket, state, shouldReconnect, isBrowserOnline, reconnectAttempt,
                 reconnectTimer, heartbeat, listening, events, gaveUp>>

\* A message.ack from the server, for what it has got on this connection.
ReceiveAck(e) ==
  /\ IsOpen
  /\ e \in Elements(wire[socket])
  /\ \E i \in DOMAIN inFlightEvents :
       /\ inFlightEvents[i] = e
       /\ inFlightEvents' = SubSeq(inFlightEvents, 1, i - 1)
                             \o SubSeq(inFlightEvents, i + 1, Len(inFlightEvents))
  /\ finished' = finished \cup {e}
  /\ UNCHANGED <<link, state, shouldReconnect, isBrowserOnline, reconnectAttempt,
                 reconnectTimer, heartbeat, queuedEvents, listening, made, dropped,
                 gaveUp>>

\* The delay set by handleClosedSocket is over.
ReconnectTimerFires ==
  /\ reconnectTimer
  /\ IF isBrowserOnline THEN OpenSocket("reconnecting")
     ELSE /\ state' = "reconnecting"
          /\ reconnectTimer' = FALSE
          /\ UNCHANGED <<link, heartbeat>>
  /\ UNCHANGED <<shouldReconnect, isBrowserOnline, reconnectAttempt, listening, events,
                 gaveUp>>

\* The heartbeat: a ping is written when the timer fires, the pong sets the timer
\* again, and a connection whose pong does not come in time is closed.
HeartbeatTimerFires ==
  /\ heartbeatTimer
  /\ heartbeatTimer' = FALSE
  /\ awaitingPong' = (awaitingPong \/ IsOpen)
  /\ UNCHANGED <<link, state, shouldReconnect, isBrowserOnline, reconnectAttempt,
                 reconnectTimer, listening, events, gaveUp>>

PongWithoutRearm ==
  /\ IsOpen
  /\ awaitingPong
  /\ awaitingPong' = FALSE
  /\ UNCHANGED <<link, state, shouldReconnect, isBrowserOnline, reconnectAttempt,
                 reconnectTimer, heartbeatTimer, listening, events, gaveUp>>

ReceivePong ==
  /\ IsOpen
  /\ awaitingPong
  /\ awaitingPong' = FALSE
  /\ heartbeatTimer' = TRUE
  /\ UNCHANGED <<link, state, shouldReconnect, isBrowserOnline, reconnectAttempt,
                 reconnectTimer, listening, events, gaveUp>>

PongTimesOut ==
  /\ awaitingPong
  /\ awaitingPong' = FALSE
  /\ CloseCurrent
  /\ UNCHANGED <<wire, socket, state, shouldReconnect, isBrowserOnline, reconnectAttempt,
                 reconnectTimer, heartbeatTimer, listening, events, gaveUp>>

\* The browser's network goes and comes back.
BrowserOffline ==
  /\ listening
  /\ isBrowserOnline
  /\ isBrowserOnline' = FALSE
  /\ reconnectTimer' = FALSE
  /\ ClearHeartbeat
  /\ IF shouldReconnect THEN CloseCurrent /\ state' = "reconnecting"
     ELSE UNCHANGED <<readyState, state>>
  /\ UNCHANGED <<wire, socket, shouldReconnect, reconnectAttempt, listening, events,
                 gaveUp>>

OnlineOnlyNoted ==
  /\ listening
  /\ ~isBrowserOnline
  /\ isBrowserOnline' = TRUE
  /\ reconnectAttempt' = IF shouldReconnect THEN 0 ELSE reconnectAttempt
  /\ UNCHANGED <<link, state, shouldReconnect, reconnectTimer, heartbeat, listening,
                 events, gaveUp>>

BrowserOnline ==
  /\ listening
  /\ ~isBrowserOnline
  /\ \/ /\ shouldReconnect
        /\ ConnectWith(TRUE, 0)
     \/ /\ ~shouldReconnect
        /\ isBrowserOnline' = TRUE
        /\ UNCHANGED <<link, state, shouldReconnect, reconnectAttempt, reconnectTimer,
                       heartbeat, listening, gaveUp>>
  /\ UNCHANGED events

Next ==
  \/ Connect
  \/ Send
  \/ Disconnect
  \/ Dispose
  \/ \E s \in Sockets : SocketOpens(s) \/ SocketCloses(s)
  \/ SocketFails
  \/ \E e \in Events : ReceiveAck(e)
  \/ ReconnectTimerFires
  \/ HeartbeatTimerFires
  \/ ReceivePong
  \/ PongTimesOut
  \/ BrowserOffline
  \/ BrowserOnline

Spec == Init /\ [][Next]_vars

\* A connection attempt succeeds or fails, a closing socket closes, a timer fires.
\* An open socket may stay open for ever, and the server may never answer.
Settles(s) == readyState[s] # "open" /\ (SocketOpens(s) \/ SocketCloses(s))

Fairness ==
  /\ \A s \in Sockets : WF_vars(Settles(s))
  /\ WF_vars(ReconnectTimerFires)

FairSpec == Spec /\ Fairness

-------------------------------------------------------------------------------
\* While the client means to be connected and the browser is online, something is
\* under way that will connect it: a socket whose events are still to come, or the
\* timer; never both, and neither once it has stopped. Offline no timer runs.
NeverStranded ==
  /\ shouldReconnect /\ isBrowserOnline => (socket # None) # reconnectTimer
  /\ ~shouldReconnect => socket = None /\ ~reconnectTimer
  /\ ~isBrowserOnline => ~reconnectTimer

\* There is at most one connection, the one the client listens to: what it opened
\* before and has turned away from is on its way to be closed.
OneConnection == \A s \in Sockets : readyState[s] \in Live => s = socket

\* What the user is shown is what goes on.
StatusIsTrue ==
  /\ IsOpen => state = "open"
  /\ state = "open" => socket # None /\ readyState[socket] \in {"open", "closing"}
  /\ state = "connecting" => socket # None
  /\ state \in {"idle", "closed"} <=> ~shouldReconnect

\* An open connection is watched, by the timer of the next ping or by the timeout
\* of the last one; without a connection neither is left over.
Watched ==
  /\ IsOpen /\ HeartbeatOn => heartbeatTimer # awaitingPong
  /\ socket = None => ~heartbeatTimer /\ ~awaitingPong

\* On every connection the server gets the events in the order they were made,
\* each once, whatever was queued, sent again or dropped before.
WireInOrder == \A s \in Sockets : Increasing(wire[s])

\* Every event made is in one place: queued, waiting for its acknowledgement,
\* finished, or dropped by the full queue or by disconnect. Nothing is forgotten.
EventsAccounted ==
  LET places == <<Elements(queuedEvents), Elements(inFlightEvents), finished, dropped>>
  IN /\ UNION {places[i] : i \in 1..4} = 1..made
     /\ \A i, j \in 1..4 : i # j => places[i] \cap places[j] = {}

\* While the connection is open nothing is held back: the queue is empty, and all
\* that waits for an acknowledgement has been written on this very connection.
WrittenWhenOpen ==
  IsOpen => /\ queuedEvents = <<>>
            /\ Elements(inFlightEvents) \subseteq Elements(wire[socket])

\* What the events go through, whatever happens to the sockets and timers, is what
\* Outbox promises: given in order to each connection, a message until it is
\* acknowledged and a ping once; nothing finished is given again, and nothing is
\* lost but by a full queue or by disconnect.
Line == IF IsOpen THEN wire[socket] ELSE <<>>

Box == INSTANCE Outbox WITH
  Capacity <- MaxQueuedEvents, fresh <- Elements(queuedEvents),
  sent <- Elements(inFlightEvents), done <- finished, lost <- dropped,
  up <- IsOpen, line <- Line

ImplementsOutbox == Box!Spec

\* A queue does not stay full for ever: it is written, unless the client gives up
\* or the browser goes offline.
QueueIsFlushed ==
  queuedEvents # <<>> ~> queuedEvents = <<>> \/ gaveUp \/ ~isBrowserOnline

\* IMPLEMENTATION.md:678 "Reconnect uses exponential backoff with jitter and a
\* limited number of attempts, after which it goes to `closed` until a new manual
\* action or browser `online`": the online event ends that state.
OnlineEndsClosed ==
  [][gaveUp /\ ~isBrowserOnline /\ isBrowserOnline' => socket' # None]_vars
===============================================================================

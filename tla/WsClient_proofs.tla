---------------------------- MODULE WsClient_proofs ----------------------------
(***************************************************************************)
(* The connection of WsClient is right for every number of sockets, events *)
(* and attempts: the invariants that relate the fields of the client to    *)
(* each other and to the sockets of the browser. None of them depends on   *)
(* the events that are sent.                                               *)
(***************************************************************************)
EXTENDS WsClient, TLAPS

\* The types of the variables the connection depends on.
ConnectionType ==
  /\ readyState \in [Sockets -> {"connecting", "open", "closing", "closed"}]
  /\ socket \in Sockets \cup {None}
  /\ state \in {"idle", "connecting", "open", "reconnecting", "closed"}
  /\ shouldReconnect \in BOOLEAN
  /\ isBrowserOnline \in BOOLEAN
  /\ reconnectTimer \in BOOLEAN
  /\ heartbeatTimer \in BOOLEAN
  /\ awaitingPong \in BOOLEAN

\* A closed socket is not kept, and an offline browser has no live one: without
\* these, connect() could leave the client with a dead socket, and a socket could
\* open after the status has gone back to "reconnecting".
CurrentSocket ==
  socket # None => /\ readyState[socket] # "closed"
                   /\ ~isBrowserOnline => readyState[socket] = "closing"

IInv ==
  /\ ConnectionType
  /\ CurrentSocket
  /\ NeverStranded
  /\ OneConnection
  /\ StatusIsTrue
  /\ Watched

LEMMA InitInv == Init => IInv
  BY ConstantsAssumption DEF Init, IInv, ConnectionType, CurrentSocket, NeverStranded,
     OneConnection, StatusIsTrue, Watched, Live, IsOpen

-------------------------------------------------------------------------------
\* What openSocket does to the invariant's variables.
LEMMA OpenSocketInv ==
  ASSUME IInv, NEW nextState \in {"connecting", "reconnecting"},
         OpenSocket(nextState), socket = None,
         shouldReconnect' = TRUE, isBrowserOnline' = TRUE
  PROVE  IInv'
<1> USE ConstantsAssumption
<1>1. PICK s \in Sockets :
        /\ readyState[s] = "closed"
        /\ readyState' = [readyState EXCEPT ![s] = "connecting"]
        /\ socket' = s
        /\ state' = nextState
        /\ reconnectTimer' = FALSE
        /\ heartbeatTimer' = FALSE
        /\ awaitingPong' = FALSE
  BY DEF OpenSocket, ClearHeartbeat
<1>2. ConnectionType'
  BY <1>1 DEF IInv, ConnectionType
<1>3. CurrentSocket'
  BY <1>1 DEF IInv, ConnectionType, CurrentSocket
<1>4. NeverStranded'
  BY <1>1 DEF IInv, ConnectionType, NeverStranded
<1>5. OneConnection'
  BY <1>1 DEF IInv, ConnectionType, OneConnection, Live
<1>6. StatusIsTrue'
  BY <1>1 DEF IInv, ConnectionType, StatusIsTrue, IsOpen
<1>7. Watched'
  BY <1>1 DEF IInv, ConnectionType, Watched, IsOpen
<1> QED
  BY <1>2, <1>3, <1>4, <1>5, <1>6, <1>7 DEF IInv

\* What connect() does, called by the user, by send() or by the online event.
LEMMA ConnectInv ==
  ASSUME IInv, NEW online \in BOOLEAN, NEW attempt, ConnectWith(online, attempt),
         isBrowserOnline => online
  PROVE  IInv'
<1>1. /\ shouldReconnect' = TRUE
      /\ isBrowserOnline' = online
  BY DEF ConnectWith
<1>2. CASE ~online
  <2>1. /\ state' = "reconnecting"
        /\ UNCHANGED <<readyState, socket, reconnectTimer, heartbeatTimer, awaitingPong>>
    BY <1>2 DEF ConnectWith, link, heartbeat
  <2>2. ~isBrowserOnline
    BY <1>2 DEF IInv, ConnectionType
  <2>3. ConnectionType'
    BY <1>1, <2>1 DEF IInv, ConnectionType
  <2>4. CurrentSocket'
    BY <1>1, <1>2, <2>1, <2>2 DEF IInv, CurrentSocket
  <2>5. NeverStranded'
    BY <1>1, <1>2, <2>1, <2>2 DEF IInv, NeverStranded
  <2>6. OneConnection'
    BY <2>1 DEF IInv, OneConnection
  <2>7. StatusIsTrue'
    BY <1>1, <2>1, <2>2 DEF IInv, CurrentSocket, StatusIsTrue, IsOpen
  <2>8. Watched'
    BY <2>1 DEF IInv, Watched, IsOpen
  <2> QED
    BY <2>3, <2>4, <2>5, <2>6, <2>7, <2>8 DEF IInv
<1>3. CASE online /\ socket # None
  <2>1. UNCHANGED <<readyState, socket, state, reconnectTimer, heartbeatTimer, awaitingPong>>
    BY <1>3 DEF ConnectWith, link, heartbeat
  <2>2. shouldReconnect
    BY <1>3 DEF IInv, NeverStranded
  <2>3. ConnectionType'
    BY <1>1, <2>1 DEF IInv, ConnectionType
  <2>4. CurrentSocket'
    BY <1>1, <1>3, <2>1 DEF IInv, CurrentSocket
  <2>5. NeverStranded'
    BY <1>1, <1>3, <2>1, <2>2 DEF IInv, ConnectionType, NeverStranded
  <2>6. OneConnection'
    BY <2>1 DEF IInv, OneConnection
  <2>7. StatusIsTrue'
    BY <1>1, <2>1, <2>2 DEF IInv, StatusIsTrue, IsOpen
  <2>8. Watched'
    BY <2>1 DEF IInv, Watched, IsOpen
  <2> QED
    BY <2>3, <2>4, <2>5, <2>6, <2>7, <2>8 DEF IInv
<1>4. CASE online /\ socket = None
  <2> DEFINE nextState == IF state = "reconnecting" THEN "reconnecting" ELSE "connecting"
  <2>1. OpenSocket(nextState) /\ nextState \in {"connecting", "reconnecting"}
    BY <1>4 DEF ConnectWith
  <2> QED
    BY <1>1, <1>4, <2>1, OpenSocketInv
<1> QED
  BY <1>2, <1>3, <1>4

\* Telling the current socket to close leaves the others as they are.
LEMMA CloseCurrentEffect ==
  ASSUME IInv, CloseCurrent
  PROVE  /\ readyState' \in [Sockets -> {"connecting", "open", "closing", "closed"}]
         /\ socket # None => readyState'[socket] = "closing"
         /\ \A s \in Sockets : readyState'[s] \in Live => readyState[s] \in Live /\ s # socket
  BY ConstantsAssumption
     DEF IInv, ConnectionType, CurrentSocket, CloseCurrent, Live

LEMMA DisconnectInv == ASSUME IInv, DoDisconnect PROVE IInv'
<1>1. /\ socket' = None /\ state' = "closed"
      /\ shouldReconnect' = FALSE /\ reconnectTimer' = FALSE
      /\ heartbeatTimer' = FALSE /\ awaitingPong' = FALSE
      /\ isBrowserOnline' = isBrowserOnline
      /\ CloseCurrent
  BY DEF DoDisconnect, ClearHeartbeat
<1>2. ConnectionType' /\ OneConnection'
  BY <1>1, CloseCurrentEffect DEF IInv, ConnectionType, OneConnection
<1>3. CurrentSocket' /\ NeverStranded' /\ StatusIsTrue' /\ Watched'
  BY <1>1 DEF IInv, ConnectionType, CurrentSocket, NeverStranded, StatusIsTrue, Watched,
     IsOpen
<1> QED
  BY <1>2, <1>3 DEF IInv

\* An error, a missing pong or the offline event: the current socket starts closing.
LEMMA ClosingInv ==
  ASSUME IInv, CloseCurrent, socket # None,
         UNCHANGED <<socket, shouldReconnect, reconnectTimer>>,
         isBrowserOnline' = isBrowserOnline,
         state' = state, heartbeatTimer' \in BOOLEAN, awaitingPong' \in BOOLEAN
  PROVE  IInv'
<1>1. socket \in Sockets /\ readyState'[socket] = "closing"
  BY CloseCurrentEffect DEF IInv, ConnectionType
<1>2. ConnectionType' /\ OneConnection'
  BY CloseCurrentEffect DEF IInv, ConnectionType, OneConnection
<1>3. CurrentSocket' /\ NeverStranded' /\ Watched'
  BY <1>1 DEF IInv, CurrentSocket, NeverStranded, Watched, IsOpen
<1>4. StatusIsTrue'
  BY <1>1 DEF IInv, StatusIsTrue, IsOpen
<1> QED
  BY <1>2, <1>3, <1>4 DEF IInv

LEMMA OfflineInv == ASSUME IInv, BrowserOffline PROVE IInv'
<1>1. /\ isBrowserOnline' = FALSE /\ reconnectTimer' = FALSE
      /\ heartbeatTimer' = FALSE /\ awaitingPong' = FALSE
      /\ UNCHANGED <<socket, shouldReconnect>>
  BY DEF BrowserOffline, ClearHeartbeat
<1>2. CASE shouldReconnect
  <2>1. CloseCurrent /\ state' = "reconnecting"
    BY <1>2 DEF BrowserOffline
  <2>2. ConnectionType' /\ OneConnection'
    BY <1>1, <2>1, CloseCurrentEffect DEF IInv, ConnectionType, OneConnection
  <2>3. socket # None => readyState'[socket] = "closing"
    BY <2>1, CloseCurrentEffect
  <2>4. CurrentSocket' /\ NeverStranded' /\ StatusIsTrue' /\ Watched'
    BY <1>1, <1>2, <2>1, <2>3
       DEF IInv, CurrentSocket, NeverStranded, StatusIsTrue, Watched, IsOpen
  <2> QED
    BY <2>2, <2>4 DEF IInv
<1>3. CASE ~shouldReconnect
  <2>1. UNCHANGED <<readyState, state>>
    BY <1>3 DEF BrowserOffline
  <2> QED
    BY <1>1, <1>3, <2>1
       DEF IInv, ConnectionType, CurrentSocket, NeverStranded, OneConnection,
           StatusIsTrue, Watched, IsOpen
<1> QED
  BY <1>2, <1>3 DEF IInv, ConnectionType

LEMMA OnlineInv == ASSUME IInv, BrowserOnline PROVE IInv'
<1>1. CASE shouldReconnect
  <2>1. ConnectWith(TRUE, 0)
    BY <1>1 DEF BrowserOnline
  <2> QED
    BY <2>1, ConnectInv
<1>2. CASE ~shouldReconnect
  <2>1. /\ ~isBrowserOnline /\ isBrowserOnline' = TRUE
        /\ UNCHANGED <<readyState, socket, state, shouldReconnect, reconnectTimer,
                       heartbeatTimer, awaitingPong>>
    BY <1>2 DEF BrowserOnline, link, heartbeat
  <2> QED
    BY <1>2, <2>1 DEF IInv, ConnectionType, CurrentSocket, NeverStranded, OneConnection,
       StatusIsTrue, Watched, IsOpen
<1> QED
  BY <1>1, <1>2

LEMMA OpensInv == ASSUME IInv, NEW s \in Sockets, SocketOpens(s) PROVE IInv'
<1> USE ConstantsAssumption
<1>1. /\ readyState[s] = "connecting"
      /\ s = socket
      /\ readyState' = [readyState EXCEPT ![s] = "open"]
      /\ state' = "open"
      /\ heartbeatTimer' = HeartbeatOn
      /\ awaitingPong' = FALSE
      /\ UNCHANGED <<socket, shouldReconnect, isBrowserOnline, reconnectTimer>>
  BY DEF SocketOpens
<1>2. ConnectionType' /\ OneConnection'
  BY <1>1 DEF IInv, ConnectionType, OneConnection, Live
<1>3. isBrowserOnline /\ shouldReconnect
  BY <1>1 DEF IInv, CurrentSocket, NeverStranded
<1>4. CurrentSocket' /\ NeverStranded' /\ StatusIsTrue'
  BY <1>1, <1>3 DEF IInv, ConnectionType, CurrentSocket, NeverStranded, StatusIsTrue, IsOpen
<1>5. Watched'
  BY <1>1 DEF Watched, IsOpen
<1> QED
  BY <1>2, <1>4, <1>5 DEF IInv

LEMMA ClosesInv == ASSUME IInv, NEW s \in Sockets, SocketCloses(s) PROVE IInv'
<1> USE ConstantsAssumption
<1>1. readyState' = [readyState EXCEPT ![s] = "closed"]
  BY DEF SocketCloses
<1>2. CASE ForgetStale(s)
  <2>1. /\ s # socket
        /\ UNCHANGED <<socket, state, shouldReconnect, isBrowserOnline, reconnectTimer,
                       heartbeatTimer, awaitingPong>>
    BY <1>2 DEF ForgetStale, heartbeat
  <2>2. socket # None => readyState'[socket] = readyState[socket]
    BY <1>1, <2>1 DEF IInv, ConnectionType
  <2> QED
    BY <1>1, <2>1, <2>2
       DEF IInv, ConnectionType, CurrentSocket, NeverStranded, OneConnection,
           StatusIsTrue, Watched, IsOpen, Live
<1>3. CASE HandleClosedSocket(s)
  <2>1. /\ s = socket
        /\ socket' = None
        /\ heartbeatTimer' = FALSE /\ awaitingPong' = FALSE
        /\ isBrowserOnline' = isBrowserOnline
        /\ state' = IF shouldReconnect' THEN "reconnecting" ELSE "closed"
    BY <1>3 DEF HandleClosedSocket, ClearHeartbeat
  <2>2. /\ shouldReconnect' = (shouldReconnect /\ ~(isBrowserOnline /\ Exhausted))
        /\ reconnectTimer' = (reconnectTimer \/
                                (shouldReconnect /\ isBrowserOnline /\ ~Exhausted))
    BY <1>3 DEF HandleClosedSocket
  <2>3. ConnectionType' /\ OneConnection'
    BY <1>1, <2>1, <2>2 DEF IInv, ConnectionType, OneConnection, Live
  <2>4. shouldReconnect /\ ~reconnectTimer
    BY <2>1 DEF IInv, ConnectionType, NeverStranded
  <2>5. NeverStranded'
    BY <2>1, <2>2, <2>4 DEF IInv, ConnectionType, NeverStranded
  <2>6. CurrentSocket' /\ Watched'
    BY <2>1 DEF CurrentSocket, Watched, IsOpen
  <2>7. StatusIsTrue'
    BY <2>1, <2>2 DEF IInv, ConnectionType, StatusIsTrue, IsOpen
  <2> QED
    BY <2>3, <2>5, <2>6, <2>7 DEF IInv
<1> QED
  BY <1>2, <1>3 DEF SocketCloses

LEMMA TimerInv == ASSUME IInv, ReconnectTimerFires PROVE IInv'
<1>1. socket = None /\ shouldReconnect /\ isBrowserOnline
  BY DEF ReconnectTimerFires, IInv, ConnectionType, NeverStranded
<1>2. /\ OpenSocket("reconnecting")
      /\ shouldReconnect' = TRUE /\ isBrowserOnline' = TRUE
  BY <1>1 DEF ReconnectTimerFires, IInv, ConnectionType
<1> QED
  BY <1>1, <1>2, OpenSocketInv

LEMMA HeartbeatInv ==
  ASSUME IInv,
         UNCHANGED <<readyState, socket, state, shouldReconnect, isBrowserOnline,
                     reconnectTimer>>,
         heartbeatTimer' \in BOOLEAN, awaitingPong' \in BOOLEAN, Watched'
  PROVE  IInv'
  BY DEF IInv, ConnectionType, CurrentSocket, NeverStranded, OneConnection, StatusIsTrue,
     IsOpen

\* A step that only moves events about.
LEMMA EventsInv ==
  ASSUME IInv,
         UNCHANGED <<readyState, socket, state, shouldReconnect, isBrowserOnline,
                     reconnectTimer, heartbeatTimer, awaitingPong>>
  PROVE  IInv'
  BY DEF IInv, ConnectionType, CurrentSocket, NeverStranded, OneConnection, StatusIsTrue,
     Watched, IsOpen

LEMMA NextInv == IInv /\ [Next]_vars => IInv'
<1> SUFFICES ASSUME IInv, [Next]_vars PROVE IInv'
  OBVIOUS
<1>0. isBrowserOnline \in BOOLEAN /\ (isBrowserOnline => isBrowserOnline)
  BY DEF IInv, ConnectionType
<1>1. CASE Connect
  <2>1. ConnectWith(isBrowserOnline, reconnectAttempt)
    BY <1>1 DEF Connect
  <2> QED
    BY <1>0, <2>1, ConnectInv
<1>2. CASE Send
  <2>1. CASE IsOpen
    BY <1>2, <2>1, EventsInv DEF Send, heartbeat
  <2>2. CASE ~IsOpen
    <3>1. ConnectWith(isBrowserOnline, reconnectAttempt)
      BY <1>2, <2>2 DEF Send
    <3> QED
      BY <1>0, <3>1, ConnectInv
  <2> QED
    BY <2>1, <2>2
<1>3. CASE Disconnect \/ Dispose
  BY <1>3, DisconnectInv DEF Disconnect, Dispose
<1>4. ASSUME NEW s \in Sockets, SocketOpens(s) \/ SocketCloses(s) PROVE IInv'
  BY <1>4, OpensInv, ClosesInv
<1>5. CASE SocketFails
  BY <1>5, ClosingInv DEF SocketFails, heartbeat, IInv, ConnectionType
<1>6. ASSUME NEW e \in Events, ReceiveAck(e) PROVE IInv'
  BY <1>6, EventsInv DEF ReceiveAck, link, heartbeat
<1>7. CASE ReconnectTimerFires
  BY <1>7, TimerInv
<1>8. CASE HeartbeatTimerFires
  <2>1. /\ heartbeatTimer /\ heartbeatTimer' = FALSE
        /\ awaitingPong' = (awaitingPong \/ IsOpen)
        /\ UNCHANGED <<readyState, socket, state, shouldReconnect, isBrowserOnline,
                       reconnectTimer>>
    BY <1>8 DEF HeartbeatTimerFires, link
  <2>2. awaitingPong' \in BOOLEAN /\ Watched'
    BY <2>1 DEF IInv, ConnectionType, Watched, IsOpen
  <2> QED
    BY <2>1, <2>2, HeartbeatInv
<1>9. CASE ReceivePong
  <2>1. /\ IsOpen /\ awaitingPong
        /\ heartbeatTimer' = TRUE /\ awaitingPong' = FALSE
        /\ UNCHANGED <<readyState, socket, state, shouldReconnect, isBrowserOnline,
                       reconnectTimer>>
    BY <1>9 DEF ReceivePong, link
  <2>2. Watched'
    BY <2>1 DEF Watched, IsOpen
  <2> QED
    BY <2>1, <2>2, HeartbeatInv
<1>10. CASE PongTimesOut
  <2>1. socket # None
    BY <1>10 DEF PongTimesOut, IInv, Watched
  <2>2. heartbeatTimer' \in BOOLEAN /\ awaitingPong' \in BOOLEAN
    BY <1>10 DEF PongTimesOut, IInv, ConnectionType
  <2> QED
    BY <1>10, <2>1, <2>2, ClosingInv DEF PongTimesOut
<1>11. CASE BrowserOffline
  BY <1>11, OfflineInv
<1>12. CASE BrowserOnline
  BY <1>12, OnlineInv
<1>13. CASE UNCHANGED vars
  BY <1>13, EventsInv DEF vars
<1> QED
  BY <1>1, <1>2, <1>3, <1>4, <1>5, <1>6, <1>7, <1>8, <1>9, <1>10, <1>11, <1>12, <1>13
     DEF Next

LEMMA Invariance == Spec => []IInv
  BY InitInv, NextInv, PTL DEF Spec

-------------------------------------------------------------------------------
\* A client that should be connected while the browser is online always has a
\* socket or a reconnect timer, never both, and one that stopped has neither.
THEOREM ClientNeverStranded == Spec => []NeverStranded
<1>1. IInv => NeverStranded
  BY DEF IInv
<1> QED
  BY <1>1, Invariance, PTL

\* The client never holds two live connections, however it was reconnected.
THEOREM OneLiveConnection == Spec => []OneConnection
<1>1. IInv => OneConnection
  BY DEF IInv
<1> QED
  BY <1>1, Invariance, PTL

\* The status subscribers are told always agrees with the socket and with what the
\* client means to do.
THEOREM StatusIsAlwaysTrue == Spec => []StatusIsTrue
<1>1. IInv => StatusIsTrue
  BY DEF IInv
<1> QED
  BY <1>1, Invariance, PTL

\* Every open connection has its heartbeat running and no heartbeat outlives one.
THEOREM OpenIsWatched == Spec => []Watched
<1>1. IInv => Watched
  BY DEF IInv
<1> QED
  BY <1>1, Invariance, PTL
===============================================================================

-------------------------------- MODULE Gateway --------------------------------
(***************************************************************************)
(* The WebSocket gateway of apps/server/src/ws/gateway.ts for one chat:    *)
(* authentication of a new connection, the index of online sockets, and    *)
(* message.send with its acknowledgement and broadcast.                    *)
(*                                                                         *)
(* Node runs one callback at a time, so what the code does between two     *)
(* awaits is one action. The awaits are resolveSession, when a socket has  *)
(* been opened, and chatService.sendMessage, which is used here by its     *)
(* specification ChatLog: it stores the message, or finds it stored by an  *)
(* earlier call, and takes the message's place in the chat (its seq); some *)
(* time later, when others may be stored, it returns that place, or fails  *)
(* all the same (ChatMessages).                                            *)
(*                                                                         *)
(* Messages arrive in any order and any number of times, each on a socket  *)
(* of its author: a client repeats what was not acknowledged on its next   *)
(* socket (WsClient). Pings and malformed messages are answered at once    *)
(* and change nothing; they are left out.                                  *)
(***************************************************************************)
EXTENDS Integers, Sequences, FiniteSets

CONSTANTS
  Users,
  Members,     \* of the chat
  Sockets,     \* connections that clients may open; each is opened once
  Owner,       \* Owner[s]: the user whose session cookie socket s carries
  Nonces,      \* the messages, by clientNonce
  Author,      \* Author[n]: the user who wrote n
  Handlers,    \* calls of handleSendMessage; each is made once
  None         \* no socket, no message

ASSUME ConstantsAssumption ==
  /\ Members \subseteq Users
  /\ Owner \in [Sockets -> Users]
  /\ Author \in [Nonces -> Users]
  /\ None \notin Sockets \cup Nonces

VARIABLES
  readyState,     \* of the server's end of each socket
  phase,          \* what handleWebSocketConnection has done for it
  online,         \* socketsByUserId, as pairs <<user, socket>>
  sent,           \* the events sent on each socket
  pc,             \* where each call of handleSendMessage stands
  socket,         \* its socket
  nonce,          \* its message
  place,          \* the seq of the message that sendMessage returns to it
  log,            \* what the chat service has stored
  \* history, which no action reads
  since           \* Len(log) when each socket was put in the index

vars == <<readyState, phase, online, sent, pc, socket, nonce, place, log, since>>
connections == <<readyState, phase, online, since>>
calls == <<pc, socket, nonce, place>>

\* An error has no message and no seq; 0 stands for none.
Event ==
  [type : {"message.ack", "message.created", "error"}, nonce : Nonces \cup {None}, seq : Nat]

TypeOK ==
  /\ readyState \in [Sockets -> {"none", "open", "closing", "closed"}]
  /\ phase \in [Sockets -> {"none", "resolving", "attached", "refused"}]
  /\ online \subseteq Users \X Sockets
  /\ sent \in [Sockets -> Seq(Event)]
  /\ pc \in [Handlers -> {"idle", "sending", "stored", "delivered", "failed"}]
  /\ socket \in [Handlers -> Sockets \cup {None}]
  /\ nonce \in [Handlers -> Nonces \cup {None}]
  /\ place \in [Handlers -> Nat]
  /\ log \in Seq(Nonces)
  /\ since \in [Sockets -> Nat]

Init ==
  /\ readyState = [s \in Sockets |-> "none"]
  /\ phase = [s \in Sockets |-> "none"]
  /\ online = {}
  /\ sent = [s \in Sockets |-> <<>>]
  /\ pc = [h \in Handlers |-> "idle"]
  /\ socket = [h \in Handlers |-> None]
  /\ nonce = [h \in Handlers |-> None]
  /\ place = [h \in Handlers |-> 0]
  /\ log = <<>>
  /\ since = [s \in Sockets |-> 0]

--------------------------------------------------------------------------------
Stored == {log[i] : i \in DOMAIN log}
EventWithoutNonce(type, n, seq) == [type |-> type, seq |-> seq]
EventOf(type, n, seq) == [type |-> type, nonce |-> n, seq |-> seq]
ErrorOf(n) == EventOf("error", n, 0)

\* sendServerEvent to each of a set of sockets: what is not open is skipped.
SendTo(sockets, event) ==
  [s \in Sockets |-> IF s \in sockets /\ readyState[s] = "open"
                     THEN Append(sent[s], event) ELSE sent[s]]

\* A client opens a socket, and the gateway starts to resolve its session.
Opens(s) ==
  /\ readyState[s] = "none"
  /\ readyState' = [readyState EXCEPT ![s] = "open"]
  /\ phase' = [phase EXCEPT ![s] = "resolving"]
  /\ UNCHANGED <<online, sent, calls, log, since>>

\* The session is resolved: the socket is put in the index and the listeners are
\* attached, in whatever state the socket is by now.
Attach(s) ==
  /\ phase[s] = "resolving"
  /\ phase' = [phase EXCEPT ![s] = "attached"]
  /\ online' = online \cup {<<Owner[s], s>>}
  /\ since' = [since EXCEPT ![s] = Len(log)]
  /\ UNCHANGED <<readyState, sent, calls, log>>

\* There is no such session, or the database fails.
Refuse(s) ==
  /\ phase[s] = "resolving"
  /\ phase' = [phase EXCEPT ![s] = "refused"]
  /\ sent' = SendTo({s}, ErrorOf(None))
  /\ readyState' = [readyState EXCEPT ![s] = IF @ = "open" THEN "closing" ELSE @]
  /\ UNCHANGED <<online, calls, log, since>>

\* The socket is closed, by either side; the listener takes it from the index, if
\* it is attached.
CloseRemovesUser(s) ==
  /\ readyState[s] \in {"open", "closing"}
  /\ readyState' = [readyState EXCEPT ![s] = "closed"]
  /\ online' = IF phase[s] = "attached" THEN {p \in online : p[1] # Owner[s]} ELSE online
  /\ UNCHANGED <<phase, sent, calls, log, since>>

Closes(s) ==
  /\ readyState[s] \in {"open", "closing"}
  /\ readyState' = [readyState EXCEPT ![s] = "closed"]
  /\ online' = IF phase[s] = "attached" THEN online \ {<<Owner[s], s>>} ELSE online
  /\ UNCHANGED <<phase, sent, calls, log, since>>

\* A transmission error: ws closes the socket, and the error listener removes it.
Errors(s) ==
  /\ readyState[s] = "open"
  /\ readyState' = [readyState EXCEPT ![s] = "closing"]
  /\ online' = IF phase[s] = "attached" THEN online \ {<<Owner[s], s>>} ELSE online
  /\ UNCHANGED <<phase, sent, calls, log, since>>

\* message.send arrives. Nobody listens before the listeners are attached.
Arrives(h, s, n) ==
  /\ pc[h] = "idle"
  /\ readyState[s] = "open"
  /\ phase[s] = "attached"
  /\ Author[n] = Owner[s]
  /\ pc' = [pc EXCEPT ![h] = "sending"]
  /\ socket' = [socket EXCEPT ![h] = s]
  /\ nonce' = [nonce EXCEPT ![h] = n]
  /\ UNCHANGED <<connections, sent, place, log>>

\* The chat service commits the message of a member, if it is not stored yet.
Store(h) ==
  /\ pc[h] = "sending"
  /\ Author[nonce[h]] \in Members
  /\ nonce[h] \notin Stored
  /\ log' = Append(log, nonce[h])
  /\ place' = [place EXCEPT ![h] = Len(log) + 1]
  /\ pc' = [pc EXCEPT ![h] = "stored"]
  /\ UNCHANGED <<connections, socket, nonce, sent>>

\* An earlier call has stored it.
Finds(h) ==
  /\ pc[h] = "sending"
  /\ \E i \in DOMAIN log : log[i] = nonce[h] /\ place' = [place EXCEPT ![h] = i]
  /\ pc' = [pc EXCEPT ![h] = "stored"]
  /\ UNCHANGED <<connections, socket, nonce, sent, log>>

\* sendMessage returns: the acknowledgement to the socket it came from, and
\* message.created to every other online socket of the participants.
Audience(h) == {p[2] : p \in {q \in online : q[1] \in Members}} \ {socket[h]}

DeliverTo(h, audience, seq) ==
  /\ pc' = [pc EXCEPT ![h] = "delivered"]
  /\ sent' = [s \in Sockets |->
                IF s = socket[h]
                THEN SendTo({s}, EventOf("message.ack", nonce[h], seq))[s]
                ELSE SendTo(audience, EventOf("message.created", nonce[h], seq))[s]]
  /\ UNCHANGED <<connections, socket, nonce, place, log>>

DeliverBeforeStored(h) == pc[h] = "sending" /\ DeliverTo(h, Audience(h), place[h])

DeliverNewest(h) == pc[h] = "stored" /\ DeliverTo(h, Audience(h), Len(log))

DeliverToAll(h) ==
  pc[h] = "stored" /\ DeliverTo(h, {p[2] : p \in online} \ {socket[h]}, place[h])

DeliverToOthers(h) ==
  pc[h] = "stored" /\ DeliverTo(h, {s \in Audience(h) : Owner[s] # Owner[socket[h]]}, place[h])

Deliver(h) == pc[h] = "stored" /\ DeliverTo(h, Audience(h), place[h])

\* sendMessage throws: the author is no member, a statement failed, or the answer
\* was lost. The socket is told, nobody else is.
FailSilently(h) ==
  /\ pc[h] \in {"sending", "stored"}
  /\ pc' = [pc EXCEPT ![h] = "failed"]
  /\ UNCHANGED <<connections, sent, socket, nonce, place, log>>

Fail(h) ==
  /\ pc[h] \in {"sending", "stored"}
  /\ pc' = [pc EXCEPT ![h] = "failed"]
  /\ sent' = SendTo({socket[h]}, ErrorOf(nonce[h]))
  /\ UNCHANGED <<connections, socket, nonce, place, log>>

\* A call of handleSendMessage goes on.
Call(h) == Store(h) \/ Finds(h) \/ Deliver(h) \/ Fail(h)

Next ==
  \/ \E s \in Sockets : Opens(s) \/ Attach(s) \/ Refuse(s) \/ Closes(s) \/ Errors(s)
  \/ \E h \in Handlers : \/ \E s \in Sockets, n \in Nonces : Arrives(h, s, n)
                         \/ Call(h)

Spec == Init /\ [][Next]_vars

\* resolveSession and sendMessage return or throw.
Fairness ==
  /\ \A s \in Sockets : WF_vars(Attach(s) \/ Refuse(s))
  /\ \A h \in Handlers : WF_vars(Call(h))

FairSpec == Spec /\ Fairness

--------------------------------------------------------------------------------
NoncesIn(events, type) ==
  {events[i].nonce : i \in {j \in DOMAIN events : events[j].type = type}}

Told(s, type) == NoncesIn(sent[s], type)
Heard(s) == Told(s, "message.ack") \cup Told(s, "message.created")

\* Nobody is told of a message that is not stored, and nobody but the members and
\* the author's own sockets is told of it at all, none before it is authenticated.
ToldIsStored ==
  \A s \in Sockets : /\ Heard(s) \subseteq Stored
                     /\ Heard(s) # {} => Owner[s] \in Members /\ phase[s] = "attached"
                     /\ \A n \in Told(s, "message.ack") : Author[n] = Owner[s]

\* Every connection that is open and attached is in the index, under its own user,
\* whichever of that user's other tabs came and went.
OnlineIsComplete ==
  /\ \A s \in Sockets :
       phase[s] = "attached" /\ readyState[s] = "open" => <<Owner[s], s>> \in online
  /\ \A p \in online : p[1] = Owner[p[2]] /\ phase[p[2]] = "attached"

\* A member's open connection that was in the index before a message was stored
\* has heard of it as soon as any call for that message was delivered: no message
\* is missed between the database and the broadcast.
NothingMissed ==
  \A s \in Sockets, h \in Handlers :
    /\ phase[s] = "attached" /\ readyState[s] = "open" /\ Owner[s] \in Members
    /\ pc[h] = "delivered"
    /\ nonce[h] \notin {log[i] : i \in 1..since[s]}
    => nonce[h] \in Heard(s)

\* Whatever the sockets are sent of a message, by its own call or by that of a repeated
\* send, at once or after others were stored, it names the one place the message has.
PlacesIn(events) ==
  {<<events[i].nonce, events[i].seq>> : i \in {j \in DOMAIN events : events[j].type # "error"}}

Announced == UNION {PlacesIn(sent[s]) : s \in Sockets}

Log == INSTANCE ChatLog WITH answered <- Announced

ImplementsLog == Log!Spec

\* A message that was heard by the gateway is answered on its socket, with an
\* acknowledgement or an error, unless the socket closes first.
IsAnswered(h) ==
  /\ pc[h] \in {"delivered", "failed"}
  /\ \/ nonce[h] \in Told(socket[h], "message.ack") \cup Told(socket[h], "error")
     \/ readyState[socket[h]] # "open"

EverySendIsAnswered == \A h \in Handlers : pc[h] = "sending" ~> IsAnswered(h)

\* gateway.ts:40 "Tracks active sockets by user id so chat events can be delivered
\* to online members", and :55 "Removes a closed socket from the online user index".
OnlineIsOpen == \A p \in online : readyState[p[2]] # "closed"
================================================================================

----------------------------- MODULE Gateway_proofs -----------------------------
(***************************************************************************)
(* For any users, sockets, messages and calls the gateway tells only the   *)
(* members, only of what is stored and always of the same place, keeps     *)
(* every open connection in its index, and misses no connection between    *)
(* the database and the broadcast.                                         *)
(***************************************************************************)
EXTENDS Gateway, TLAPS

\* A call that was made has a message of the user of an authenticated socket.
CallsAreOwn ==
  \A h \in Handlers :
    pc[h] # "idle" => /\ socket[h] \in Sockets
                      /\ phase[socket[h]] = "attached"
                      /\ nonce[h] \in Nonces
                      /\ Author[nonce[h]] = Owner[socket[h]]

StoredByMembers == \A n \in Stored : Author[n] \in Members

\* What sendMessage returned is the place of the call's message, and stays so.
PlaceIsTrue ==
  \A h \in Handlers :
    pc[h] \in {"stored", "delivered"} => place[h] \in DOMAIN log /\ log[place[h]] = nonce[h]

\* A socket is not handled before it is opened.
UnopenedIsUnknown == \A s \in Sockets : readyState[s] = "none" => phase[s] = "none"

\* What was stored before a socket entered the index stays where it is in the log.
SinceIsPast == \A s \in Sockets : since[s] <= Len(log)

IInv ==
  /\ TypeOK
  /\ CallsAreOwn
  /\ StoredByMembers
  /\ PlaceIsTrue
  /\ SinceIsPast
  /\ UnopenedIsUnknown
  /\ OnlineIsComplete
  /\ ToldIsStored
  /\ NothingMissed

-------------------------------------------------------------------------------
(* What one more event, or one more message, adds to what is known of the rest. *)

LEMMA NoncesInAppend ==
  ASSUME NEW events \in Seq(Event), NEW event \in Event, NEW type
  PROVE  NoncesIn(Append(events, event), type)
           = NoncesIn(events, type) \cup (IF event.type = type THEN {event.nonce} ELSE {})
<1> DEFINE longer == Append(events, event)
<1>1. /\ DOMAIN longer = DOMAIN events \cup {Len(events) + 1}
      /\ \A i \in DOMAIN events : longer[i] = events[i]
      /\ longer[Len(events) + 1] = event
      /\ Len(events) + 1 \notin DOMAIN events
  OBVIOUS
<1> HIDE DEF longer
<1>2. NoncesIn(longer, type) \subseteq
        NoncesIn(events, type) \cup (IF event.type = type THEN {event.nonce} ELSE {})
  BY <1>1 DEF NoncesIn
<1>3. NoncesIn(events, type) \subseteq NoncesIn(longer, type)
  BY <1>1 DEF NoncesIn
<1>4. event.type = type => event.nonce \in NoncesIn(longer, type)
  BY <1>1 DEF NoncesIn
<1> QED
  BY <1>2, <1>3, <1>4 DEF longer

LEMMA NoncesInEmpty == \A type : NoncesIn(<<>>, type) = {}
  BY DEF NoncesIn

\* What an event sent to a set of sockets adds to what s was told of that type.
Adds(s, sockets, event, type) ==
  IF s \in sockets /\ readyState[s] = "open" /\ event.type = type THEN {event.nonce} ELSE {}

\* A socket that is sent an event hears of its message if it is open, and of
\* nothing else; the others hear nothing new.
LEMMA SendToTells ==
  ASSUME TypeOK, NEW sockets, NEW event \in Event, NEW s \in Sockets
  PROVE  /\ SendTo(sockets, event)[s] \in Seq(Event)
         /\ \A type : NoncesIn(SendTo(sockets, event)[s], type)
                        = Told(s, type) \cup Adds(s, sockets, event, type)
<1>1. sent[s] \in Seq(Event)
  BY DEF TypeOK
<1>2. CASE s \in sockets /\ readyState[s] = "open"
  <2>1. SendTo(sockets, event)[s] = Append(sent[s], event)
    BY <1>2 DEF SendTo
  <2>2. \A type : NoncesIn(Append(sent[s], event), type)
          = Told(s, type) \cup (IF event.type = type THEN {event.nonce} ELSE {})
    BY <1>1, NoncesInAppend DEF Told
  <2>3. Append(sent[s], event) \in Seq(Event)
    BY <1>1
  <2> QED
    BY <1>2, <2>1, <2>2, <2>3 DEF Adds
<1>3. CASE ~(s \in sockets /\ readyState[s] = "open")
  BY <1>1, <1>3 DEF SendTo, Told, Adds
<1> QED
  BY <1>2, <1>3

LEMMA InitInv == Init => IInv
<1> SUFFICES ASSUME Init PROVE IInv
  OBVIOUS
<1>1. TypeOK
  BY DEF Init, TypeOK
<1>2. \A s \in Sockets : \A type : Told(s, type) = {}
  BY NoncesInEmpty DEF Init, Told
<1> QED
  BY <1>1, <1>2 DEF Init, IInv, CallsAreOwn, StoredByMembers, PlaceIsTrue, SinceIsPast,
     UnopenedIsUnknown, OnlineIsComplete, ToldIsStored, NothingMissed, Heard, Stored

-------------------------------------------------------------------------------
(* One step at a time. A step that neither stores, answers nor sends anything    *)
(* can only break what is said of the sockets.                                   *)

\* Nothing is forgotten of what a connection heard as long as nothing is sent.
LEMMA ToldUnchanged ==
  ASSUME UNCHANGED sent
  PROVE  \A s \in Sockets : \A type : Told(s, type)' = Told(s, type)
  BY DEF Told

LEMMA SocketStep ==
  ASSUME IInv, NEW s \in Sockets,
         Opens(s) \/ Attach(s) \/ Closes(s) \/ Errors(s)
  PROVE  IInv'
<1> USE ConstantsAssumption DEF IInv
<1>1. UNCHANGED <<sent, pc, socket, nonce, place, log>>
  BY DEF Opens, Attach, Closes, Errors, calls
<1>9. \A t \in Sockets : phase[t] = "attached" => phase'[t] = "attached"
  BY DEF TypeOK, UnopenedIsUnknown, Opens, Attach, Closes, Errors
<1>2. TypeOK'
  <2>1. ASSUME Opens(s) PROVE TypeOK'
    BY <2>1 DEF TypeOK, Opens, calls
  <2>2. ASSUME Attach(s) PROVE TypeOK'
    BY <2>2 DEF TypeOK, Attach, calls
  <2>3. ASSUME Closes(s) PROVE TypeOK'
    BY <2>3 DEF TypeOK, Closes, calls
  <2>4. ASSUME Errors(s) PROVE TypeOK'
    BY <2>4 DEF TypeOK, Errors, calls
  <2> QED
    BY <2>1, <2>2, <2>3, <2>4
<1>3. CallsAreOwn' /\ StoredByMembers' /\ PlaceIsTrue'
  BY <1>1, <1>9 DEF CallsAreOwn, StoredByMembers, PlaceIsTrue, Stored
<1>4. SinceIsPast'
  <2>1. since' = since \/ since' = [since EXCEPT ![s] = Len(log)]
    BY DEF Opens, Attach, Closes, Errors
  <2>2. Len(log) \in Nat /\ log' = log
    BY <1>1 DEF TypeOK
  <2>3. \A t \in Sockets : since'[t] = since[t] \/ since'[t] = Len(log)
    BY <2>1, <2>2 DEF TypeOK
  <2> QED
    BY <2>2, <2>3 DEF SinceIsPast
<1>8. UnopenedIsUnknown'
  BY DEF TypeOK, UnopenedIsUnknown, Opens, Attach, Closes, Errors
<1>5. OnlineIsComplete'
  <2>1. ASSUME Opens(s) PROVE OnlineIsComplete'
    <3>1. phase[s] = "none"
      BY <2>1 DEF UnopenedIsUnknown, Opens
    <3> QED
      BY <2>1, <3>1 DEF TypeOK, OnlineIsComplete, Opens
  <2>2. ASSUME Attach(s) PROVE OnlineIsComplete'
    BY <2>2 DEF TypeOK, OnlineIsComplete, Attach
  <2>3. ASSUME Closes(s) PROVE OnlineIsComplete'
    BY <2>3 DEF TypeOK, OnlineIsComplete, Closes
  <2>4. ASSUME Errors(s) PROVE OnlineIsComplete'
    BY <2>4 DEF TypeOK, OnlineIsComplete, Errors
  <2> QED
    BY <2>1, <2>2, <2>3, <2>4
<1>6. ToldIsStored'
  BY <1>1, <1>9, ToldUnchanged DEF ToldIsStored, Heard, Stored
<1>7. NothingMissed'
  <2> SUFFICES ASSUME NEW t \in Sockets, NEW h \in Handlers,
                      phase'[t] = "attached", readyState'[t] = "open", Owner[t] \in Members,
                      pc[h] = "delivered",
                      nonce[h] \notin {log[i] : i \in 1..since'[t]}
               PROVE  nonce[h] \in Heard(t)
    BY <1>1, ToldUnchanged DEF NothingMissed, Heard
  <2>1. CASE phase[t] = "attached" /\ readyState[t] = "open" /\ since'[t] = since[t]
    BY <2>1 DEF NothingMissed
  \* A socket that enters the index now has missed nothing: all of the log is past.
  <2>2. CASE since'[t] = Len(log)
    BY <2>2 DEF PlaceIsTrue, Stored, TypeOK
  <2> QED
    BY <2>1, <2>2 DEF TypeOK, Opens, Attach, Closes, Errors, calls
<1> QED
  BY <1>2, <1>3, <1>4, <1>8, <1>5, <1>6, <1>7

LEMMA RefuseStep ==
  ASSUME IInv, NEW s \in Sockets, Refuse(s)
  PROVE  IInv'
<1> USE ConstantsAssumption DEF IInv
<1> DEFINE error == ErrorOf(None)
<1>0. TypeOK
  OBVIOUS
<1>1. error \in Event /\ error.type = "error"
  BY DEF ErrorOf, EventOf, Event
<1>2. UNCHANGED <<online, pc, socket, nonce, place, log, since>>
  BY DEF Refuse, calls
<1>10. \A t \in Sockets : phase[t] = "attached" => phase'[t] = "attached"
  BY DEF TypeOK, Refuse
<1>3. \A t \in Sockets :
        /\ sent'[t] \in Seq(Event)
        /\ Told(t, "message.ack")' = Told(t, "message.ack")
        /\ Told(t, "message.created")' = Told(t, "message.created")
  <2> SUFFICES ASSUME NEW t \in Sockets
               PROVE  /\ sent'[t] \in Seq(Event)
                      /\ Told(t, "message.ack")' = Told(t, "message.ack")
                      /\ Told(t, "message.created")' = Told(t, "message.created")
    OBVIOUS
  <2> DEFINE only == {s}
  <2>1. sent' = SendTo(only, error)
    BY DEF Refuse
  <2> HIDE DEF error, only
  <2>2. /\ SendTo(only, error)[t] \in Seq(Event)
        /\ \A type : NoncesIn(SendTo(only, error)[t], type)
                       = Told(t, type) \cup Adds(t, only, error, type)
    BY <1>1, <1>0, SendToTells
  <2>3. \A type : Told(t, type)' = NoncesIn(SendTo(only, error)[t], type)
    BY <2>1 DEF Told
  <2> QED
    BY <1>1, <2>1, <2>2, <2>3 DEF Adds
<1>4. TypeOK'
  <2>1. sent' \in [Sockets -> Seq(Event)]
    BY <1>3 DEF Refuse, SendTo
  <2> QED
    BY <2>1 DEF TypeOK, Refuse, calls
<1>5. CallsAreOwn' /\ StoredByMembers' /\ PlaceIsTrue' /\ SinceIsPast'
  BY <1>2, <1>10 DEF CallsAreOwn, StoredByMembers, PlaceIsTrue, Stored, SinceIsPast
<1>6. OnlineIsComplete'
  BY DEF TypeOK, OnlineIsComplete, Refuse
<1>9. UnopenedIsUnknown'
  BY DEF TypeOK, UnopenedIsUnknown, Refuse
<1>7. ToldIsStored'
  BY <1>2, <1>3, <1>10 DEF ToldIsStored, Heard, Stored
<1>8. NothingMissed'
  BY <1>2, <1>3 DEF NothingMissed, Heard, Refuse, TypeOK
<1> QED
  BY <1>4, <1>5, <1>6, <1>7, <1>8, <1>9

LEMMA ArrivesStep ==
  ASSUME IInv, NEW h \in Handlers, NEW s \in Sockets, NEW n \in Nonces, Arrives(h, s, n)
  PROVE  IInv'
<1> USE ConstantsAssumption DEF IInv
<1>1. UNCHANGED <<readyState, phase, online, sent, log, since>>
  BY DEF Arrives, connections
<1>2. TypeOK'
  BY DEF TypeOK, Arrives, connections
<1>3. CallsAreOwn' /\ StoredByMembers' /\ PlaceIsTrue' /\ SinceIsPast'
  BY <1>1 DEF TypeOK, CallsAreOwn, StoredByMembers, PlaceIsTrue, SinceIsPast,
     Stored, Arrives
<1>4. OnlineIsComplete' /\ UnopenedIsUnknown' /\ ToldIsStored'
  BY <1>1, ToldUnchanged DEF OnlineIsComplete, UnopenedIsUnknown, ToldIsStored, Heard, Stored
<1>5. NothingMissed'
  BY <1>1, ToldUnchanged DEF TypeOK, NothingMissed, Heard, Arrives
<1> QED
  BY <1>2, <1>3, <1>4, <1>5

LEMMA StoreStep ==
  ASSUME IInv, NEW h \in Handlers, Store(h)
  PROVE  IInv'
<1> USE ConstantsAssumption DEF IInv
<1>1. UNCHANGED <<readyState, phase, online, sent, socket, nonce, since>>
  BY DEF Store, connections
<1>a. \A k \in Handlers : /\ k # h => pc'[k] = pc[k] /\ place'[k] = place[k]
                          /\ k = h => pc'[k] = "stored" /\ place'[k] = Len(log) + 1
                          /\ pc'[k] # "idle" => pc[k] # "idle"
  BY DEF TypeOK, Store
<1>2. nonce[h] \in Nonces /\ Author[nonce[h]] \in Members
  BY DEF Store, CallsAreOwn
<1>3. /\ log' \in Seq(Nonces)
      /\ Len(log') = Len(log) + 1
      /\ Len(log) + 1 \in DOMAIN log' /\ log'[Len(log) + 1] = nonce[h]
      /\ \A i \in DOMAIN log : i \in DOMAIN log' /\ log'[i] = log[i]
      /\ \A i \in DOMAIN log' : i \in DOMAIN log \/ log'[i] = nonce[h]
  BY <1>2 DEF TypeOK, Store
<1>4. TypeOK'
  <2>1. pc' \in [Handlers -> {"idle", "sending", "stored", "delivered", "failed"}]
        /\ place' \in [Handlers -> Nat]
    BY DEF TypeOK, Store
  <2> QED
    BY <1>1, <1>3, <2>1 DEF TypeOK
<1>5. Stored \subseteq Stored' /\ Stored' \subseteq Stored \cup {nonce[h]}
  BY <1>3 DEF Stored
<1>6. CallsAreOwn' /\ StoredByMembers' /\ SinceIsPast'
  BY <1>1, <1>2, <1>3, <1>5, <1>a DEF TypeOK, CallsAreOwn, StoredByMembers, SinceIsPast
<1>b. PlaceIsTrue'
  <2> SUFFICES ASSUME NEW k \in Handlers, pc'[k] \in {"stored", "delivered"}
               PROVE  place'[k] \in DOMAIN log' /\ log'[place'[k]] = nonce[k]
    BY <1>1 DEF PlaceIsTrue
  <2> QED
    BY <1>3, <1>a DEF PlaceIsTrue
<1>7. OnlineIsComplete' /\ UnopenedIsUnknown' /\ ToldIsStored'
  BY <1>1, <1>5, ToldUnchanged DEF OnlineIsComplete, UnopenedIsUnknown, ToldIsStored, Heard
<1>8. \A t \in Sockets : {log'[i] : i \in 1..since[t]} = {log[i] : i \in 1..since[t]}
  <2>1. \A t \in Sockets : \A i \in 1..since[t] : i \in DOMAIN log
    BY DEF TypeOK, SinceIsPast
  <2> QED
    BY <1>3, <2>1
<1>c. \A k \in Handlers : pc'[k] = "delivered" => pc[k] = "delivered"
  BY <1>a
<1>9. NothingMissed'
  BY <1>1, <1>8, <1>c, ToldUnchanged DEF NothingMissed, Heard
<1> QED
  BY <1>4, <1>6, <1>7, <1>9, <1>b

LEMMA FindsStep ==
  ASSUME IInv, NEW h \in Handlers, Finds(h)
  PROVE  IInv'
<1> USE ConstantsAssumption DEF IInv
<1>1. UNCHANGED <<readyState, phase, online, sent, socket, nonce, log, since>>
  BY DEF Finds, connections
<1>2. PICK i \in DOMAIN log : log[i] = nonce[h] /\ place' = [place EXCEPT ![h] = i]
  BY DEF Finds
<1>3. \A k \in Handlers : /\ k # h => pc'[k] = pc[k] /\ place'[k] = place[k]
                          /\ k = h => pc'[k] = "stored" /\ place'[k] = i
                          /\ pc'[k] # "idle" => pc[k] # "idle"
  BY <1>2 DEF TypeOK, Finds
<1>4. TypeOK'
  <2>1. i \in Nat
    BY <1>2 DEF TypeOK
  <2>2. pc' \in [Handlers -> {"idle", "sending", "stored", "delivered", "failed"}]
        /\ place' \in [Handlers -> Nat]
    BY <1>2, <2>1 DEF TypeOK, Finds
  <2> QED
    BY <1>1, <2>2 DEF TypeOK
<1>5. CallsAreOwn' /\ StoredByMembers' /\ SinceIsPast'
  BY <1>1, <1>3 DEF CallsAreOwn, StoredByMembers, SinceIsPast, Stored
<1>6. PlaceIsTrue'
  BY <1>1, <1>2, <1>3 DEF PlaceIsTrue
<1>7. OnlineIsComplete' /\ UnopenedIsUnknown' /\ ToldIsStored'
  BY <1>1, ToldUnchanged DEF OnlineIsComplete, UnopenedIsUnknown, ToldIsStored, Heard, Stored
<1>8. NothingMissed'
  BY <1>1, <1>3, ToldUnchanged DEF NothingMissed, Heard
<1> QED
  BY <1>4, <1>5, <1>6, <1>7, <1>8

LEMMA FailStep ==
  ASSUME IInv, NEW h \in Handlers, Fail(h)
  PROVE  IInv'
<1> USE ConstantsAssumption DEF IInv
<1> DEFINE error == ErrorOf(nonce[h])
<1>0. TypeOK
  OBVIOUS
<1>1. error \in Event /\ error.type = "error"
  BY DEF ErrorOf, EventOf, Event, Fail, CallsAreOwn
<1>2. UNCHANGED <<readyState, phase, online, socket, nonce, place, log, since>>
  BY DEF Fail, connections
<1>3. \A t \in Sockets :
        /\ sent'[t] \in Seq(Event)
        /\ Told(t, "message.ack")' = Told(t, "message.ack")
        /\ Told(t, "message.created")' = Told(t, "message.created")
  <2> SUFFICES ASSUME NEW t \in Sockets
               PROVE  /\ sent'[t] \in Seq(Event)
                      /\ Told(t, "message.ack")' = Told(t, "message.ack")
                      /\ Told(t, "message.created")' = Told(t, "message.created")
    OBVIOUS
  <2> DEFINE only == {socket[h]}
  <2>1. sent' = SendTo(only, error)
    BY DEF Fail
  <2> HIDE DEF error, only
  <2>2. /\ SendTo(only, error)[t] \in Seq(Event)
        /\ \A type : NoncesIn(SendTo(only, error)[t], type)
                       = Told(t, type) \cup Adds(t, only, error, type)
    BY <1>1, <1>0, SendToTells
  <2>3. \A type : Told(t, type)' = NoncesIn(SendTo(only, error)[t], type)
    BY <2>1 DEF Told
  <2> QED
    BY <1>1, <2>1, <2>2, <2>3 DEF Adds
<1>4. TypeOK'
  <2>1. sent' \in [Sockets -> Seq(Event)]
    BY <1>3 DEF Fail, SendTo
  <2> QED
    BY <2>1 DEF TypeOK, Fail, connections
<1>5. CallsAreOwn' /\ StoredByMembers' /\ PlaceIsTrue' /\ SinceIsPast'
  BY <1>2 DEF TypeOK, CallsAreOwn, StoredByMembers, PlaceIsTrue, SinceIsPast, Stored, Fail
<1>6. OnlineIsComplete' /\ UnopenedIsUnknown' /\ ToldIsStored'
  BY <1>2, <1>3 DEF OnlineIsComplete, UnopenedIsUnknown, ToldIsStored, Heard, Stored
<1>7. NothingMissed'
  BY <1>2, <1>3 DEF TypeOK, NothingMissed, Heard, Fail
<1> QED
  BY <1>4, <1>5, <1>6, <1>7

\* What each socket hears of a delivery.
LEMMA DeliverTells ==
  ASSUME IInv, NEW h \in Handlers, Deliver(h)
  PROVE  \A t \in Sockets :
           /\ sent'[t] \in Seq(Event)
           /\ Told(t, "message.ack")' = IF t = socket[h] /\ readyState[t] = "open"
                                        THEN Told(t, "message.ack") \cup {nonce[h]}
                                        ELSE Told(t, "message.ack")
           /\ Told(t, "message.created")' =
                IF t \in Audience(h) /\ readyState[t] = "open"
                THEN Told(t, "message.created") \cup {nonce[h]}
                ELSE Told(t, "message.created")
<1> USE ConstantsAssumption DEF IInv
<1> DEFINE ack == EventOf("message.ack", nonce[h], place[h])
           created == EventOf("message.created", nonce[h], place[h])
<1>0. TypeOK
  OBVIOUS
<1>1. /\ socket[h] \in Sockets /\ phase[socket[h]] = "attached"
      /\ nonce[h] \in Nonces \cap Stored
      /\ Author[nonce[h]] = Owner[socket[h]]
      /\ Owner[socket[h]] \in Members
  BY DEF Deliver, DeliverTo, CallsAreOwn, StoredByMembers, PlaceIsTrue, Stored
<1>2. /\ ack \in Event /\ ack.type = "message.ack" /\ ack.nonce = nonce[h]
      /\ created \in Event /\ created.type = "message.created" /\ created.nonce = nonce[h]
  BY <1>1 DEF EventOf, Event, TypeOK
<1>3. UNCHANGED <<readyState, phase, online, socket, nonce, place, log, since>>
  BY DEF Deliver, DeliverTo, connections
<1>4. \A t \in Sockets : sent'[t] = IF t = socket[h] THEN SendTo({t}, ack)[t]
                                    ELSE SendTo(Audience(h), created)[t]
  BY DEF Deliver, DeliverTo
<1> HIDE DEF ack, created
<1>5. ASSUME NEW t \in Sockets
      PROVE  /\ sent'[t] \in Seq(Event)
             /\ Told(t, "message.ack")' = IF t = socket[h] /\ readyState[t] = "open"
                                          THEN Told(t, "message.ack") \cup {nonce[h]}
                                          ELSE Told(t, "message.ack")
             /\ Told(t, "message.created")' =
                  IF t \in Audience(h) /\ readyState[t] = "open"
                  THEN Told(t, "message.created") \cup {nonce[h]}
                  ELSE Told(t, "message.created")
  <2>1. CASE t = socket[h]
    <3>1. sent'[t] = SendTo({t}, ack)[t] /\ t \notin Audience(h)
      BY <1>4, <2>1 DEF Audience
    <3>2. /\ SendTo({t}, ack)[t] \in Seq(Event)
          /\ \A type : NoncesIn(SendTo({t}, ack)[t], type)
                         = Told(t, type) \cup Adds(t, {t}, ack, type)
      BY <1>2, <1>0, SendToTells
    <3>3. \A type : Told(t, type)' = NoncesIn(SendTo({t}, ack)[t], type)
      BY <3>1 DEF Told
    <3>4. /\ Adds(t, {t}, ack, "message.ack")
               = IF readyState[t] = "open" THEN {nonce[h]} ELSE {}
          /\ Adds(t, {t}, ack, "message.created") = {}
      BY <1>2 DEF Adds
    <3>5. /\ Told(t, "message.ack")' = Told(t, "message.ack") \cup Adds(t, {t}, ack, "message.ack")
          /\ Told(t, "message.created")' =
               Told(t, "message.created") \cup Adds(t, {t}, ack, "message.created")
      BY <3>2, <3>3
    <3> QED
      BY <2>1, <3>1, <3>2, <3>4, <3>5
  <2>2. CASE t # socket[h]
    <3> DEFINE audience == Audience(h)
    <3>1. sent'[t] = SendTo(audience, created)[t]
      BY <1>4, <2>2
    <3> HIDE DEF audience
    <3>2. /\ SendTo(audience, created)[t] \in Seq(Event)
          /\ \A type : NoncesIn(SendTo(audience, created)[t], type)
                         = Told(t, type) \cup Adds(t, audience, created, type)
      BY <1>2, <1>0, SendToTells
    <3>3. \A type : Told(t, type)' = NoncesIn(SendTo(audience, created)[t], type)
      BY <3>1 DEF Told
    <3>4. /\ Adds(t, audience, created, "message.ack") = {}
          /\ Adds(t, audience, created, "message.created")
               = IF t \in audience /\ readyState[t] = "open" THEN {nonce[h]} ELSE {}
      BY <1>2 DEF Adds
    <3> QED
      BY <2>2, <3>1, <3>2, <3>3, <3>4 DEF audience
  <2> QED
    BY <2>1, <2>2
<1> QED
  BY <1>5

\* The step that matters: the acknowledgement and the broadcast.
LEMMA DeliverStep ==
  ASSUME IInv, NEW h \in Handlers, Deliver(h)
  PROVE  IInv'
<1> USE ConstantsAssumption DEF IInv
<1>1. /\ socket[h] \in Sockets /\ phase[socket[h]] = "attached"
      /\ nonce[h] \in Nonces \cap Stored
      /\ Author[nonce[h]] = Owner[socket[h]]
      /\ Owner[socket[h]] \in Members
  BY DEF Deliver, DeliverTo, CallsAreOwn, StoredByMembers, PlaceIsTrue, Stored
<1>3. UNCHANGED <<readyState, phase, online, socket, nonce, place, log, since>>
  BY DEF Deliver, DeliverTo, connections
<1>5. \A t \in Sockets :
           /\ sent'[t] \in Seq(Event)
           /\ Told(t, "message.ack")' = IF t = socket[h] /\ readyState[t] = "open"
                                        THEN Told(t, "message.ack") \cup {nonce[h]}
                                        ELSE Told(t, "message.ack")
           /\ Told(t, "message.created")' =
                IF t \in Audience(h) /\ readyState[t] = "open"
                THEN Told(t, "message.created") \cup {nonce[h]}
                ELSE Told(t, "message.created")
  BY DeliverTells
<1>6. TypeOK'
  <2>1. sent' \in [Sockets -> Seq(Event)]
    BY <1>5 DEF Deliver, DeliverTo
  <2> QED
    BY <2>1 DEF TypeOK, Deliver, DeliverTo, connections
<1>7. CallsAreOwn' /\ StoredByMembers' /\ PlaceIsTrue' /\ SinceIsPast'
  BY <1>1, <1>3 DEF TypeOK, CallsAreOwn, StoredByMembers, PlaceIsTrue, SinceIsPast,
     Stored, Deliver, DeliverTo
<1>8. OnlineIsComplete' /\ UnopenedIsUnknown'
  BY <1>3 DEF OnlineIsComplete, UnopenedIsUnknown
<1>9. \A t \in Sockets : t \in Audience(h) => Owner[t] \in Members /\ phase[t] = "attached"
  BY DEF Audience, OnlineIsComplete
<1>10. ToldIsStored'
  BY <1>1, <1>3, <1>5, <1>9 DEF ToldIsStored, Heard, Stored
<1>11. NothingMissed'
  <2> SUFFICES ASSUME NEW t \in Sockets, NEW k \in Handlers,
                      phase[t] = "attached", readyState[t] = "open", Owner[t] \in Members,
                      pc'[k] = "delivered",
                      nonce[k] \notin {log[i] : i \in 1..since[t]}
               PROVE  nonce[k] \in Told(t, "message.ack")' \cup Told(t, "message.created")'
    BY <1>3 DEF NothingMissed, Heard
  <2>1. CASE k = h
    <3>1. <<Owner[t], t>> \in {q \in online : q[1] \in Members}
      BY DEF OnlineIsComplete
    <3>2. t = socket[h] \/ t \in Audience(h)
      BY <3>1 DEF Audience
    <3> QED
      BY <1>5, <2>1, <3>2
  <2>2. CASE k # h
    <3>1. nonce[k] \in Heard(t)
      BY <2>2 DEF TypeOK, NothingMissed, Deliver, DeliverTo
    <3> QED
      BY <1>5, <3>1 DEF Heard
  <2> QED
    BY <2>1, <2>2
<1> QED
  BY <1>6, <1>7, <1>8, <1>10, <1>11

LEMMA StutterStep ==
  ASSUME IInv, UNCHANGED vars
  PROVE  IInv'
  BY ToldUnchanged DEF vars, calls, IInv, TypeOK, CallsAreOwn, StoredByMembers, PlaceIsTrue,
     SinceIsPast, UnopenedIsUnknown, OnlineIsComplete, ToldIsStored, NothingMissed, Heard, Stored

LEMMA Invariance == Spec => []IInv
<1>1. IInv /\ [Next]_vars => IInv'
  BY SocketStep, RefuseStep, ArrivesStep, StoreStep, FindsStep, FailStep, DeliverStep,
     StutterStep DEF Next, Call
<1> QED
  BY <1>1, InitInv, PTL DEF Spec

-------------------------------------------------------------------------------
\* All fields keep their types, and a call only ever has a socket and a message.
THEOREM TypeCorrect == Spec => []TypeOK
  BY Invariance, PTL DEF IInv

\* gateway.ts:215-231: the acknowledgement and the broadcast tell of stored messages
\* only, members only, and the author alone is acknowledged.
THEOREM OnlyStoredIsTold == Spec => []ToldIsStored
  BY Invariance, PTL DEF IInv

\* gateway.ts:42-67, 120-133: no sequence of connections and closes of one user takes
\* an open connection out of the index.
THEOREM OpenIsOnline == Spec => []OnlineIsComplete
  BY Invariance, PTL DEF IInv

\* gateway.ts:72-89, 223-230: a member's connection that was online before a message
\* was stored has heard of it once a call for it was delivered.
THEOREM NothingIsMissed == Spec => []NothingMissed
  BY Invariance, PTL DEF IInv

-------------------------------------------------------------------------------
(* The gateway and its callers as a log. *)

\* What one more event announces.
Announces(event) == IF event.type # "error" THEN {<<event.nonce, event.seq>>} ELSE {}

LEMMA PlacesInAppend ==
  ASSUME NEW events \in Seq(Event), NEW event \in Event
  PROVE  PlacesIn(Append(events, event)) = PlacesIn(events) \cup Announces(event)
<1> DEFINE longer == Append(events, event)
<1>1. /\ DOMAIN longer = DOMAIN events \cup {Len(events) + 1}
      /\ \A i \in DOMAIN events : longer[i] = events[i]
      /\ longer[Len(events) + 1] = event
  OBVIOUS
<1> HIDE DEF longer
<1>2. PlacesIn(longer) \subseteq PlacesIn(events) \cup Announces(event)
  BY <1>1 DEF PlacesIn, Announces
<1>3. PlacesIn(events) \subseteq PlacesIn(longer)
  BY <1>1 DEF PlacesIn
<1>4. Announces(event) \subseteq PlacesIn(longer)
  BY <1>1 DEF PlacesIn, Announces
<1> QED
  BY <1>2, <1>3, <1>4 DEF longer

LEMMA SendToAnnounces ==
  ASSUME TypeOK, NEW sockets, NEW event \in Event, NEW s \in Sockets
  PROVE  PlacesIn(SendTo(sockets, event)[s])
           \in {PlacesIn(sent[s]), PlacesIn(sent[s]) \cup Announces(event)}
<1>1. sent[s] \in Seq(Event)
  BY DEF TypeOK
<1>2. SendTo(sockets, event)[s] = Append(sent[s], event) \/ SendTo(sockets, event)[s] = sent[s]
  BY DEF SendTo
<1> QED
  BY <1>1, <1>2, PlacesInAppend

\* A stored message is accepted by the log, which has not got it.
LEMMA StoreAccepts ==
  ASSUME IInv, NEW h \in Handlers, Store(h)
  PROVE  Log!Next
<1>1. /\ nonce[h] \in Nonces /\ nonce[h] \notin Stored
      /\ log \in Seq(Nonces) /\ log' = Append(log, nonce[h]) /\ Announced' = Announced
  BY DEF IInv, TypeOK, CallsAreOwn, Store, Announced
<1>2. ~Log!Stored(nonce[h])
  BY <1>1 DEF Log!Stored, Stored
<1> QED
  BY <1>1, <1>2 DEF Log!Next, Log!Accept

\* A delivery announces the message at its place, or finds all sockets closed.
LEMMA DeliverAnswers ==
  ASSUME IInv, NEW h \in Handlers, Deliver(h)
  PROVE  Log!Next \/ UNCHANGED Log!vars
<1> DEFINE ack == EventOf("message.ack", nonce[h], place[h])
           created == EventOf("message.created", nonce[h], place[h])
           it == {<<nonce[h], place[h]>>}
<1>1. /\ nonce[h] \in Nonces /\ place[h] \in 1 .. Len(log) /\ log[place[h]] = nonce[h]
      /\ log' = log
  BY DEF Deliver, DeliverTo, IInv, TypeOK, CallsAreOwn, PlaceIsTrue
<1>2. ack \in Event /\ created \in Event /\ Announces(ack) = it /\ Announces(created) = it
  BY <1>1 DEF EventOf, Event, Announces, IInv, TypeOK
<1>3. \A s \in Sockets : \/ sent'[s] = SendTo({s}, ack)[s]
                         \/ sent'[s] = SendTo(Audience(h), created)[s]
  BY DEF Deliver, DeliverTo
<1> HIDE DEF ack, created, it
<1>4. ASSUME NEW s \in Sockets
      PROVE  PlacesIn(sent'[s]) \in {PlacesIn(sent[s]), PlacesIn(sent[s]) \cup it}
  <2> DEFINE own == {s}
             others == Audience(h)
  <2>1. sent'[s] = SendTo(own, ack)[s] \/ sent'[s] = SendTo(others, created)[s]
    BY <1>3
  <2> HIDE DEF own, others
  <2> QED
    BY <1>2, <2>1, SendToAnnounces DEF IInv
<1>5. CASE \A s \in Sockets : PlacesIn(sent'[s]) = PlacesIn(sent[s])
  <2>1. Announced' = Announced
    BY <1>5 DEF Announced
  <2> QED
    BY <1>1, <2>1 DEF Log!vars
<1>6. CASE \E s \in Sockets : PlacesIn(sent'[s]) # PlacesIn(sent[s])
  <2>1. Announced' = Announced \cup it
    BY <1>4, <1>6 DEF Announced
  <2>2. Log!Answer(nonce[h], place[h])
    BY <1>1, <2>1 DEF Log!Answer, it
  <2> QED
    BY <1>1, <2>2 DEF Log!Next
<1> QED
  BY <1>5, <1>6

\* What is refused or fails announces nothing.
LEMMA ErrorAnnouncesNothing ==
  ASSUME IInv, NEW sockets, NEW n \in Nonces \cup {None}, sent' = SendTo(sockets, ErrorOf(n))
  PROVE  Announced' = Announced
<1> DEFINE error == ErrorOf(n)
<1>1. error \in Event /\ Announces(error) = {} /\ sent' = SendTo(sockets, error)
  BY DEF ErrorOf, EventOf, Event, Announces
<1> HIDE DEF error
<1>2. \A s \in Sockets : PlacesIn(sent'[s]) = PlacesIn(sent[s])
  BY <1>1, SendToAnnounces DEF IInv
<1> QED
  BY <1>2 DEF Announced

\* gateway.ts:198-231 with the retries of the clients: however often a message is sent, on
\* whatever sockets, and whatever is stored before sendMessage returns, every
\* acknowledgement and every broadcast names the one place where the message stands.
THEOREM GatewayImplementsLog == Spec => ImplementsLog
<1>1. Init => Log!Init
  BY DEF Init, Log!Init, Announced, PlacesIn
<1>2. IInv /\ [Next]_vars => [Log!Next]_(Log!vars)
  <2> SUFFICES ASSUME IInv, [Next]_vars
               PROVE  Log!Next \/ UNCHANGED Log!vars
    OBVIOUS
  <2>1. ASSUME UNCHANGED <<sent, log>> PROVE UNCHANGED Log!vars
    BY <2>1 DEF Log!vars, Announced
  <2>2. ASSUME NEW s \in Sockets, Opens(s) \/ Attach(s) \/ Closes(s) \/ Errors(s)
        PROVE  UNCHANGED Log!vars
    BY <2>1, <2>2 DEF Opens, Attach, Closes, Errors
  <2>3. ASSUME NEW s \in Sockets, Refuse(s) PROVE UNCHANGED Log!vars
    BY <2>3, ErrorAnnouncesNothing DEF Refuse, Log!vars
  <2>4. ASSUME NEW h \in Handlers, NEW s \in Sockets, NEW n \in Nonces, Arrives(h, s, n)
        PROVE  UNCHANGED Log!vars
    BY <2>1, <2>4 DEF Arrives
  <2>5. ASSUME NEW h \in Handlers, Fail(h) PROVE UNCHANGED Log!vars
    <3>1. nonce[h] \in Nonces
      BY <2>5 DEF Fail, IInv, CallsAreOwn
    <3> QED
      BY <2>5, <3>1, ErrorAnnouncesNothing DEF Fail, Log!vars
  <2>6. ASSUME NEW h \in Handlers, Finds(h) PROVE UNCHANGED Log!vars
    BY <2>1, <2>6 DEF Finds
  <2>7. CASE UNCHANGED vars
    BY <2>1, <2>7 DEF vars
  <2> QED
    BY <2>2, <2>3, <2>4, <2>5, <2>6, <2>7, StoreAccepts, DeliverAnswers DEF Next, Call
<1> QED
  BY <1>1, <1>2, Invariance, PTL DEF Spec, ImplementsLog, Log!Spec
===============================================================================

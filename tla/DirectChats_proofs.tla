-------------------------- MODULE DirectChats_proofs --------------------------
(***************************************************************************)
(* The safety of DirectChats, for any set of users and any number of calls. *)
(***************************************************************************)
EXTENDS DirectChats, TLAPS

\* orderUserPair gives the two ids in increasing order, whoever comes first.
LEMMA PairFacts ==
  ASSUME NEW u \in Users, NEW v \in Users, u # v
  PROVE  /\ OrderUserPair(u, v) \in Users \X Users
         /\ OrderUserPair(u, v)[1] < OrderUserPair(u, v)[2]
         /\ {OrderUserPair(u, v)[1], OrderUserPair(u, v)[2]} = {u, v}
<1>1. u \in Nat /\ v \in Nat
  BY ConstantsAssumption
<1>2. CASE u < v
  BY <1>1, <1>2 DEF OrderUserPair
<1>3. CASE v < u
  BY <1>1, <1>3 DEF OrderUserPair
<1> QED
  BY <1>1, <1>2, <1>3

LEMMA SamePair ==
  ASSUME NEW u \in Users, NEW v \in Users, u # v,
         NEW x \in Users, NEW y \in Users, {u, v} = {x, y}
  PROVE  OrderUserPair(u, v) = OrderUserPair(x, y)
<1>1. u \in Nat /\ v \in Nat
  BY ConstantsAssumption
<1>2. \/ u = x /\ v = y
      \/ u = y /\ v = x
  OBVIOUS
<1> QED
  BY <1>1, <1>2 DEF OrderUserPair

-------------------------------------------------------------------------------
NoChatYet == {"idle", "find", "insertChat", "recheck", "refused"}

\* What holds of one call, by how far it has come: the id it would create is free
\* until it commits, and the row it has found or created is that of its pair.
RequestInv(r) ==
  /\ pc[r] # "idle" => actor[r] \in Users /\ target[r] \in Users
  /\ pc[r] \in InFlight \cup {"answered"} => actor[r] # target[r]
  /\ pc[r] \in NoChatYet => chat[r] = None
  /\ pc[r] \in InTransaction => chat[r] = r
  /\ pc[r] \in NoChatYet \cup InTransaction => r \notin chats
  /\ pc[r] \in {"load", "answered"} =>
       \E d \in RowsOfPair(PairOf(r)) : d.chatId = chat[r]
  /\ pc[r] = "commit" => RowsOfPair(PairOf(r)) = {}
  /\ pc[r] = "recheck" => RowsOfPair(PairOf(r)) # {}

\* The unique index lets one transaction at a time through for each pair.
OneInserts ==
  \A r, q \in Requests :
    pc[r] = "commit" /\ pc[q] = "commit" /\ PairOf(r) = PairOf(q) => r = q

IInv ==
  /\ TypeOK
  /\ \A r \in Requests : RequestInv(r)
  /\ OneInserts
  /\ OneChatPerPair
  /\ NoHalfMadeChat

LEMMA InitInv == Init => IInv
  BY DEF Init, IInv, TypeOK, RequestInv, OneInserts, OneChatPerPair, NoHalfMadeChat,
     MembersOf, NoChatYet, InTransaction, InFlight, RowsOfPair

\* A step of call r that writes no row, leaves the other calls alone and puts r
\* where it may be.
LEMMA LocalStep ==
  ASSUME IInv, NEW r \in Requests,
         UNCHANGED rows, TypeOK',
         \A q \in Requests \ {r} : /\ pc'[q] = pc[q] /\ actor'[q] = actor[q]
                                   /\ target'[q] = target[q] /\ chat'[q] = chat[q],
         RequestInv(r)',
         pc'[r] = "commit" => Inserting(PairOf(r)) = {} /\ PairOf(r)' = PairOf(r)
  PROVE  IInv'
<1>1. ASSUME NEW q \in Requests \ {r} PROVE PairOf(q)' = PairOf(q) /\ RequestInv(q)'
  <2>1. PairOf(q)' = PairOf(q)
    BY DEF PairOf
  <2>2. \A p : RowsOfPair(p)' = RowsOfPair(p)
    BY DEF RowsOfPair, rows
  <2>3. RequestInv(q)
    BY DEF IInv
  <2> QED
    BY <2>1, <2>2, <2>3 DEF RequestInv, rows
<1>2. OneInserts'
  <2> SUFFICES ASSUME NEW q1 \in Requests, NEW q2 \in Requests,
                      pc'[q1] = "commit", pc'[q2] = "commit", PairOf(q1)' = PairOf(q2)'
               PROVE  q1 = q2
    BY DEF OneInserts
  <2>1. CASE q1 # r /\ q2 # r
    BY <1>1, <2>1 DEF IInv, OneInserts
  <2>2. CASE q1 = r /\ q2 # r
    BY <1>1, <2>2 DEF Inserting
  <2>3. CASE q1 # r /\ q2 = r
    BY <1>1, <2>3 DEF Inserting
  <2> QED
    BY <2>1, <2>2, <2>3
<1>3. OneChatPerPair' /\ NoHalfMadeChat'
  BY DEF IInv, OneChatPerPair, NoHalfMadeChat, MembersOf, rows
<1> QED
  BY <1>1, <1>2, <1>3 DEF IInv

\* Moving on, with nothing else of the call changed.
LEMMA PairUnchanged ==
  ASSUME NEW r \in Requests, UNCHANGED <<rows, actor, target>>
  PROVE  /\ PairOf(r)' = PairOf(r)
         /\ \A p : RowsOfPair(p)' = RowsOfPair(p)
  BY DEF PairOf, RowsOfPair, rows

\* Both lookups, of a call that has not created a chat.
LEMMA LookUpInv ==
  ASSUME IInv, NEW r \in Requests, NEW from \in {"find", "recheck"},
         NEW notFound \in {"insertChat", "failed"}, LookUpPair(r, from, notFound)
  PROVE  IInv'
<1>1. /\ pc[r] = from
      /\ UNCHANGED <<rows, actor, target>>
  BY DEF LookUpPair
<1>2. RequestInv(r) /\ TypeOK
  BY DEF IInv
<1>3. PairOf(r)' = PairOf(r) /\ \A p : RowsOfPair(p)' = RowsOfPair(p)
  BY <1>1, PairUnchanged
<1>4. CASE RowsOfPair(PairOf(r)) = {} /\ Goto(r, from, notFound) /\ UNCHANGED chat
  <2>1. TypeOK' /\ pc'[r] = notFound
    BY <1>1, <1>2, <1>4 DEF TypeOK, rows, Goto, InFlight, Ended
  <2>2. RequestInv(r)'
    BY <1>1, <1>2, <1>3, <1>4, <2>1
       DEF RequestInv, rows, InFlight, InTransaction, NoChatYet
  <2>3. \A q \in Requests \ {r} : pc'[q] = pc[q]
    BY <1>2, <1>4 DEF Goto, TypeOK
  <2> QED
    BY <1>1, <1>4, <2>1, <2>2, <2>3, LocalStep
<1>5. ASSUME NEW d \in RowsOfPair(PairOf(r)), Goto(r, from, "load"),
             chat' = [chat EXCEPT ![r] = d.chatId]
      PROVE  IInv'
  <2>1. d.chatId \in Requests
    BY <1>2 DEF RowsOfPair, TypeOK, DirectChat
  <2>2. TypeOK' /\ pc'[r] = "load" /\ chat'[r] = d.chatId
    BY <1>1, <1>2, <1>5, <2>1 DEF TypeOK, rows, Goto, InFlight, Ended
  <2>3. RequestInv(r)'
    BY <1>1, <1>2, <1>3, <2>2
       DEF RequestInv, rows, InFlight, InTransaction, NoChatYet
  <2>4. \A q \in Requests \ {r} : pc'[q] = pc[q] /\ chat'[q] = chat[q]
    BY <1>2, <1>5 DEF Goto, TypeOK
  <2> QED
    BY <1>1, <2>2, <2>3, <2>4, LocalStep
<1> QED
  BY <1>4, <1>5 DEF LookUpPair

LEMMA ReceiveInv ==
  ASSUME IInv, NEW r \in Requests, NEW u \in Active, NEW v \in Users, ReceiveCreate(r, u, v)
  PROVE  IInv'
<1>1. RequestInv(r) /\ TypeOK /\ u \in Users
  BY ConstantsAssumption DEF IInv
<1>2. /\ pc[r] = "idle"
      /\ UNCHANGED rows /\ UNCHANGED chat
      /\ pc'[r] = IF v \in Active /\ v # u THEN "find" ELSE "refused"
      /\ actor'[r] = u /\ target'[r] = v
      /\ \A q \in Requests \ {r} : /\ pc'[q] = pc[q] /\ actor'[q] = actor[q]
                                   /\ target'[q] = target[q]
  BY <1>1 DEF ReceiveCreate, Goto, TypeOK
<1>3. TypeOK'
  BY <1>1 DEF ReceiveCreate, Goto, TypeOK, rows, InFlight, Ended
<1>4. RequestInv(r)'
  BY <1>1, <1>2 DEF RequestInv, rows, InFlight, InTransaction, NoChatYet
<1> QED
  BY <1>2, <1>3, <1>4, LocalStep

LEMMA InsertChatInv == ASSUME IInv, NEW r \in Requests, InsertChat(r) PROVE IInv'
<1>1. RequestInv(r) /\ TypeOK
  BY DEF IInv
<1>2. /\ pc[r] = "insertChat" /\ pc'[r] = "insertPair"
      /\ chat'[r] = r
      /\ UNCHANGED <<rows, actor, target>>
      /\ \A q \in Requests \ {r} : pc'[q] = pc[q] /\ chat'[q] = chat[q]
  BY <1>1 DEF InsertChat, Goto, TypeOK
<1>3. TypeOK'
  BY <1>1 DEF InsertChat, Goto, TypeOK, rows, InFlight, InTransaction, Ended
<1>4. RequestInv(r)'
  BY <1>1, <1>2 DEF RequestInv, rows, InFlight, InTransaction, NoChatYet
<1> QED
  BY <1>2, <1>3, <1>4, LocalStep

LEMMA InsertPairInv == ASSUME IInv, NEW r \in Requests, InsertPair(r) PROVE IInv'
<1>1. RequestInv(r) /\ TypeOK
  BY DEF IInv
<1>2. /\ pc[r] = "insertPair"
      /\ Inserting(PairOf(r)) = {}
      /\ UNCHANGED <<rows, actor, target>>
  BY DEF InsertPair, InsertOrClash
<1>3. PairOf(r)' = PairOf(r) /\ \A p : RowsOfPair(p)' = RowsOfPair(p)
  BY <1>2, PairUnchanged
<1>4. CASE RowsOfPair(PairOf(r)) = {} /\ Goto(r, "insertPair", "commit") /\ UNCHANGED chat
  <2>1. TypeOK' /\ pc'[r] = "commit" /\ \A q \in Requests \ {r} : pc'[q] = pc[q]
    BY <1>1, <1>2, <1>4 DEF Goto, TypeOK, rows, InFlight, InTransaction, Ended
  <2>2. RequestInv(r)'
    BY <1>1, <1>2, <1>3, <1>4, <2>1
       DEF RequestInv, rows, InFlight, InTransaction, NoChatYet
  <2> QED
    BY <1>2, <1>3, <1>4, <2>1, <2>2, LocalStep
<1>5. ASSUME RowsOfPair(PairOf(r)) # {}, NEW seen \in CodeSeen,
             Goto(r, "insertPair", IF seen THEN "recheck" ELSE "failed"),
             chat' = [chat EXCEPT ![r] = None]
      PROVE  IInv'
  <2>1. TypeOK' /\ pc'[r] \in {"recheck", "failed"} /\ chat'[r] = None
    BY <1>1, <1>2, <1>5 DEF Goto, TypeOK, rows, InFlight, InTransaction, Ended
  <2>2. \A q \in Requests \ {r} : pc'[q] = pc[q] /\ chat'[q] = chat[q]
    BY <1>1, <1>5 DEF Goto, TypeOK
  <2>3. RequestInv(r)'
    BY <1>1, <1>2, <1>3, <1>5, <2>1
       DEF RequestInv, rows, InFlight, InTransaction, NoChatYet
  <2> QED
    BY <1>2, <2>1, <2>2, <2>3, LocalStep
<1> QED
  BY <1>4, <1>5 DEF InsertPair, InsertOrClash

LEMMA LoadInv == ASSUME IInv, NEW r \in Requests, LoadSummary(r) PROVE IInv'
<1>1. RequestInv(r) /\ TypeOK /\ NoHalfMadeChat
  BY DEF IInv
<1>2. pc[r] = "load" /\ UNCHANGED <<rows, actor, target, chat>>
  BY DEF LoadSummary, Goto
<1>3. PICK d \in RowsOfPair(PairOf(r)) : d.chatId = chat[r]
  BY <1>1, <1>2 DEF RequestInv
<1>4. actor[r] \in Users /\ target[r] \in Users /\ actor[r] # target[r]
  BY <1>1, <1>2 DEF RequestInv, InFlight
<1>5. actor[r] \in {d.userA, d.userB}
  BY <1>3, <1>4, PairFacts DEF RowsOfPair, PairOf
<1>6. <<chat[r], actor[r]>> \in chatMembers
  BY <1>1, <1>3, <1>5 DEF NoHalfMadeChat, MembersOf, RowsOfPair
<1>7. pc'[r] = "answered" /\ \A q \in Requests \ {r} : pc'[q] = pc[q]
  BY <1>1, <1>3, <1>6 DEF LoadSummary, Goto, TypeOK, VisibleTo, RowsOfPair
<1>8. TypeOK'
  BY <1>1, <1>2 DEF LoadSummary, Goto, TypeOK, rows, Ended
<1>9. RequestInv(r)'
  BY <1>1, <1>2, <1>7, PairUnchanged
     DEF RequestInv, rows, InFlight, InTransaction, NoChatYet
<1> QED
  BY <1>2, <1>7, <1>8, <1>9, LocalStep

LEMMA FailInv == ASSUME IInv, NEW r \in Requests, Fail(r) PROVE IInv'
<1>1. RequestInv(r) /\ TypeOK
  BY DEF IInv
<1>2. /\ pc[r] \in InFlight /\ pc'[r] = "failed"
      /\ UNCHANGED <<rows, actor, target, chat>>
      /\ \A q \in Requests \ {r} : pc'[q] = pc[q]
  BY <1>1 DEF Fail, TypeOK
<1>3. TypeOK'
  BY <1>1 DEF Fail, TypeOK, rows, Ended
<1>4. RequestInv(r)'
  BY <1>1, <1>2 DEF RequestInv, rows, InFlight, InTransaction, NoChatYet
<1> QED
  BY <1>2, <1>3, <1>4, LocalStep

\* The one step that writes: a chat nobody else can have created.
LEMMA CommitInv == ASSUME IInv, NEW r \in Requests, Commit(r) PROVE IInv'
<1> DEFINE p == PairOf(r)
           new == [chatId |-> r, userA |-> p[1], userB |-> p[2]]
<1>1. /\ RequestInv(r) /\ TypeOK /\ NoHalfMadeChat /\ OneChatPerPair
      /\ \A q \in Requests : RequestInv(q)
  BY DEF IInv
<1>2. /\ pc[r] = "commit" /\ pc'[r] = "load"
      /\ chats' = chats \cup {r}
      /\ directChats' = directChats \cup {new}
      /\ chatMembers' = chatMembers \cup {<<r, p[1]>>, <<r, p[2]>>}
      /\ UNCHANGED <<actor, target, chat>>
      /\ \A q \in Requests \ {r} : pc'[q] = pc[q]
  BY <1>1 DEF Commit, Goto, TypeOK
<1>3. /\ r \notin chats /\ chat[r] = r /\ RowsOfPair(p) = {}
      /\ actor[r] \in Users /\ target[r] \in Users /\ actor[r] # target[r]
  BY <1>1, <1>2 DEF RequestInv, InFlight, InTransaction, NoChatYet
<1>4. p \in Users \X Users /\ p[1] < p[2] /\ p[1] \in Users /\ p[2] \in Users
  BY <1>3, PairFacts DEF PairOf
<1> HIDE DEF p
<1>5. new \in DirectChat /\ new.userA < new.userB /\ <<new.userA, new.userB>> = p
  BY <1>4 DEF DirectChat
<1>6. TypeOK'
  <2>1. chats' \subseteq Requests /\ chatMembers' \subseteq Requests \X Users
    BY <1>1, <1>2, <1>4 DEF TypeOK
  <2>2. directChats' \subseteq DirectChat /\ \A d \in directChats' : d.userA < d.userB
    BY <1>1, <1>2, <1>5 DEF TypeOK
  <2>3. pc' \in [Requests -> {"idle"} \cup InFlight \cup Ended]
    BY <1>1 DEF Commit, Goto, TypeOK, InFlight
  <2> QED
    BY <1>1, <1>2, <2>1, <2>2, <2>3 DEF TypeOK
<1>7. \A q \in Requests : PairOf(q)' = PairOf(q)
  BY <1>2 DEF PairOf
<1>8. \A x : RowsOfPair(x)' = IF x = p THEN RowsOfPair(x) \cup {new} ELSE RowsOfPair(x)
  BY <1>2, <1>5 DEF RowsOfPair
<1>9. ASSUME NEW q \in Requests PROVE RequestInv(q)'
  <2>1. CASE q = r
    <3>1. new \in RowsOfPair(PairOf(r))' /\ new.chatId = chat'[r]
      BY <1>2, <1>3, <1>7, <1>8 DEF p
    <3> QED
      BY <1>2, <1>3, <2>1, <3>1 DEF RequestInv, InFlight, InTransaction, NoChatYet
  <2>2. CASE q # r
    <3>1. RequestInv(q) /\ pc'[q] = pc[q]
      BY <1>1, <1>2, <2>2
    <3>2. pc[q] = "commit" => PairOf(q) # p
      BY <1>2, <2>2 DEF IInv, OneInserts, p
    <3>3. RowsOfPair(PairOf(q)) \subseteq RowsOfPair(PairOf(q))'
      BY <1>7, <1>8
    <3>4. pc'[q] \in {"load", "answered"} =>
            \E d \in RowsOfPair(PairOf(q))' : d.chatId = chat'[q]
      BY <1>2, <3>1, <3>3 DEF RequestInv
    <3>5. pc'[q] = "commit" => RowsOfPair(PairOf(q))' = {}
      BY <1>7, <1>8, <3>1, <3>2 DEF RequestInv
    <3> QED
      BY <1>2, <2>2, <3>1, <3>3, <3>4, <3>5 DEF RequestInv, NoChatYet, InTransaction
  <2> QED
    BY <2>1, <2>2
<1>10. OneInserts'
  BY <1>2, <1>7 DEF IInv, OneInserts
<1>11. OneChatPerPair'
  <2>1. ASSUME NEW d \in directChats, {d.userA, d.userB} = {new.userA, new.userB}
        PROVE  FALSE
    <3>1. d.userA < d.userB /\ d.userA \in Nat /\ d.userB \in Nat
      BY <1>1, ConstantsAssumption DEF TypeOK, DirectChat
    <3>2. new.userA < new.userB /\ new.userA \in Nat /\ new.userB \in Nat
      BY <1>4, <1>5, ConstantsAssumption
    <3>3. d.userA = new.userA /\ d.userB = new.userB
      BY <2>1, <3>1, <3>2
    <3>4. d \in RowsOfPair(p)
      BY <1>5, <3>3 DEF RowsOfPair
    <3> QED
      BY <1>3, <3>4
  <2> QED
    BY <1>1, <1>2, <2>1 DEF OneChatPerPair
<1>12. NoHalfMadeChat'
  <2>1. chats' = {d.chatId : d \in directChats'}
    <3>1. new.chatId = r
      OBVIOUS
    <3>2. \A c : c \in chats <=> \E d \in directChats : c = d.chatId
      BY <1>1 DEF NoHalfMadeChat
    <3> HIDE DEF new
    <3>3. \A c : c \in chats' <=> \E d \in directChats' : c = d.chatId
      BY <1>2, <3>1, <3>2
    <3> QED
      BY <3>3
  <2>2. \A m \in chatMembers' : m[1] \in chats'
    BY <1>1, <1>2 DEF NoHalfMadeChat
  <2>3. \A d \in directChats : d.chatId # r
    BY <1>1, <1>3 DEF NoHalfMadeChat
  <2>4. \A d \in directChats : MembersOf(d.chatId)' = MembersOf(d.chatId)
    BY <1>2, <2>3 DEF MembersOf
  <2>5. MembersOf(r) = {}
    BY <1>1, <1>3 DEF NoHalfMadeChat, MembersOf
  <2>6. MembersOf(r)' = {p[1], p[2]}
    BY <1>2, <1>4, <2>5 DEF MembersOf
  <2> QED
    BY <1>1, <1>2, <2>1, <2>2, <2>4, <2>6 DEF NoHalfMadeChat
<1> QED
  BY <1>6, <1>9, <1>10, <1>11, <1>12 DEF IInv

LEMMA NextInv == IInv /\ [Next]_vars => IInv'
<1> SUFFICES ASSUME IInv, [Next]_vars PROVE IInv'
  OBVIOUS
<1>1. ASSUME NEW r \in Requests, NEW u \in Active, NEW v \in Users, ReceiveCreate(r, u, v)
      PROVE  IInv'
  BY <1>1, ReceiveInv
<1>2. ASSUME NEW r \in Requests, Serve(r) PROVE IInv'
  <2>1. CASE FindExisting(r)
    BY <2>1, LookUpInv DEF FindExisting
  <2>2. CASE FindRaced(r)
    BY <2>2, LookUpInv DEF FindRaced
  <2> QED
    BY <1>2, <2>1, <2>2, InsertChatInv, InsertPairInv, CommitInv, LoadInv DEF Serve
<1>3. ASSUME NEW r \in Requests, Fail(r) PROVE IInv'
  BY <1>3, FailInv
<1>4. CASE UNCHANGED vars
  <2>1. UNCHANGED <<chats, directChats, chatMembers, pc, actor, target, chat>>
    BY <1>4 DEF vars
  <2>2. \A q \in Requests : PairOf(q)' = PairOf(q)
    BY <2>1 DEF PairOf
  <2>3. \A x : RowsOfPair(x)' = RowsOfPair(x)
    BY <2>1 DEF RowsOfPair
  <2>4. TypeOK' /\ OneInserts' /\ OneChatPerPair' /\ NoHalfMadeChat'
    BY <2>1, <2>2 DEF IInv, TypeOK, OneInserts, OneChatPerPair, NoHalfMadeChat, MembersOf
  <2>5. \A q \in Requests : RequestInv(q)'
    BY <2>1, <2>2, <2>3 DEF IInv, RequestInv
  <2> QED
    BY <2>4, <2>5 DEF IInv
<1> QED
  BY <1>1, <1>2, <1>3, <1>4 DEF Next

LEMMA Invariance == Spec => []IInv
  BY InitInv, NextInv, PTL DEF Spec

-------------------------------------------------------------------------------
\* The rows and the calls always have their types; stored pairs are ordered.
THEOREM TypeCorrect == Spec => []TypeOK
<1>1. IInv => TypeOK
  BY DEF IInv
<1> QED
  BY <1>1, Invariance, PTL

\* However many calls overlap, a pair never has two chats.
THEOREM PairHasOneChat == Spec => []OneChatPerPair
<1>1. IInv => OneChatPerPair
  BY DEF IInv
<1> QED
  BY <1>1, Invariance, PTL

\* No failure leaves a chat without its pair or without its members.
THEOREM ChatsAreWhole == Spec => []NoHalfMadeChat
<1>1. IInv => NoHalfMadeChat
  BY DEF IInv
<1> QED
  BY <1>1, Invariance, PTL

\* The second lookup of the catch block always finds the chat that clashed.
THEOREM ClashResolves == Spec => []ClashIsResolvable
<1>1. IInv => ClashIsResolvable
  BY DEF IInv, RequestInv, ClashIsResolvable
<1> QED
  BY <1>1, Invariance, PTL

\* Both users of a pair are given the same chat, and it has both as members.
THEOREM AnswersAlwaysAgree == Spec => []AnswersAgree
<1>1. IInv => AnswersAgree
  <2> SUFFICES ASSUME IInv, NEW r \in Requests
               PROVE  /\ pc[r] = "answered" => \A q \in Requests :
                           /\ pc[q] = "answered"
                           /\ {actor[q], target[q]} = {actor[r], target[r]}
                           => chat[q] = chat[r]
                      /\ pc[r] = "answered" => MembersOf(chat[r]) = {actor[r], target[r]}
                      /\ pc[r] = "refused" => chat[r] = None
    BY DEF AnswersAgree
  <2>1. ASSUME NEW q \in Requests, pc[q] = "answered"
        PROVE  /\ actor[q] \in Users /\ target[q] \in Users /\ actor[q] # target[q]
               /\ \E d \in RowsOfPair(PairOf(q)) : d.chatId = chat[q]
    BY <2>1 DEF IInv, RequestInv
  <2>2. ASSUME NEW q \in Requests, pc[r] = "answered", pc[q] = "answered",
               {actor[q], target[q]} = {actor[r], target[r]}
        PROVE  chat[q] = chat[r]
    <3>1. PairOf(q) = PairOf(r)
      BY <2>1, <2>2, SamePair DEF PairOf
    <3>2. \A d1, d2 \in RowsOfPair(PairOf(r)) : d1 = d2
      BY DEF IInv, OneChatPerPair, RowsOfPair
    <3> QED
      BY <2>1, <2>2, <3>1, <3>2
  <2>3. ASSUME pc[r] = "answered" PROVE MembersOf(chat[r]) = {actor[r], target[r]}
    <3>1. PICK d \in RowsOfPair(PairOf(r)) : d.chatId = chat[r]
      BY <2>1, <2>3
    <3>2. MembersOf(chat[r]) = {d.userA, d.userB}
      BY <3>1 DEF IInv, NoHalfMadeChat, RowsOfPair
    <3>3. <<d.userA, d.userB>> = OrderUserPair(actor[r], target[r])
      BY <3>1 DEF RowsOfPair, PairOf
    <3>4. d.userA = OrderUserPair(actor[r], target[r])[1]
          /\ d.userB = OrderUserPair(actor[r], target[r])[2]
      BY <3>3
    <3>5. actor[r] \in Users /\ target[r] \in Users /\ actor[r] # target[r]
      BY <2>1, <2>3
    <3>6. {OrderUserPair(actor[r], target[r])[1], OrderUserPair(actor[r], target[r])[2]}
            = {actor[r], target[r]}
      BY <3>5, PairFacts
    <3>7. {d.userA, d.userB} = {actor[r], target[r]}
      BY <3>4, <3>6, Zenon
    <3> QED
      BY <3>2, <3>7
  <2>4. pc[r] = "refused" => chat[r] = None
    BY DEF IInv, RequestInv, NoChatYet
  <2> QED
    BY <2>2, <2>3, <2>4
<1> QED
  BY <1>1, Invariance, PTL

-------------------------------------------------------------------------------
(* The registry.                                                                *)

\* A call is let in for two different people who are active.
LetInAreActive ==
  \A r \in LetIn : actor[r] \in Active /\ target[r] \in Active /\ actor[r] # target[r]

LEMMA LetInStaysActive == IInv /\ LetInAreActive /\ [Next]_vars => LetInAreActive'
<1> SUFFICES ASSUME IInv, LetInAreActive, [Next]_vars PROVE LetInAreActive'
  OBVIOUS
<1> USE DEF LetInAreActive, LetIn
<1>1. TypeOK
  BY DEF IInv
<1>2. ASSUME NEW r \in Requests, NEW u \in Active, NEW v \in Users, ReceiveCreate(r, u, v)
      PROVE  LetInAreActive'
  BY <1>1, <1>2 DEF ReceiveCreate, Goto, TypeOK
<1>3. ASSUME NEW r \in Requests, Serve(r) \/ Fail(r) PROVE LetInAreActive'
  <2>1. UNCHANGED <<actor, target>> /\ pc[r] \in InFlight
    BY <1>3 DEF Serve, FindExisting, InsertChat, InsertPair, Commit, FindRaced, LoadSummary,
       Fail, LookUpPair, InsertOrClash, Goto, InFlight, InTransaction
  <2>2. \A q \in Requests \ {r} : pc'[q] = pc[q]
    BY <1>1, <1>3 DEF Serve, FindExisting, InsertChat, InsertPair, Commit, FindRaced, LoadSummary,
       Fail, LookUpPair, InsertOrClash, Goto, TypeOK
  <2> QED
    BY <2>1, <2>2 DEF InFlight, InTransaction
<1>4. CASE UNCHANGED vars
  BY <1>4 DEF vars
<1> QED
  BY <1>2, <1>3, <1>4 DEF Next

\* The entries of the registry stay while no row is written, and so does what was told
\* while no call is answered.
LEMMA KeptUnchanged == ASSUME UNCHANGED rows PROVE Kept' = Kept
  BY DEF Kept, MembersOf, rows

LEMMA ToldUnchanged ==
  ASSUME Answered' = Answered,
         \A r \in Answered : UNCHANGED <<actor[r], target[r], chat[r]>>
  PROVE  Told' = Told
<1>1. \A r \in Answered : Summary(r)' = Summary(r)
  BY DEF Summary
<1> QED
  BY <1>1 DEF Told

\* A call that is let in asks for a chat; one that is not leaves no trace.
LEMMA ReceiveAsks ==
  ASSUME IInv, NEW r \in Requests, NEW u \in Active, NEW v \in Users, ReceiveCreate(r, u, v)
  PROVE  Registry!Next \/ UNCHANGED Registry!vars
<1>1. /\ pc[r] = "idle"
      /\ pc'[r] = IF v \in Active /\ v # u THEN "find" ELSE "refused"
      /\ actor'[r] = u /\ target'[r] = v
      /\ \A q \in Requests \ {r} : /\ pc'[q] = pc[q] /\ actor'[q] = actor[q]
                                   /\ target'[q] = target[q]
      /\ UNCHANGED rows /\ UNCHANGED chat
  BY DEF IInv, TypeOK, ReceiveCreate, Goto
<1>2. Kept' = Kept
  BY <1>1, KeptUnchanged
<1>3. Told' = Told
  <2>1. Answered' = Answered /\ r \notin Answered
    BY <1>1 DEF Answered
  <2>2. \A q \in Answered : UNCHANGED <<actor[q], target[q], chat[q]>>
    BY <1>1, <2>1 DEF Answered
  <2> QED
    BY <2>1, <2>2, ToldUnchanged
<1>4. CASE v \in Active /\ v # u
  <2>1. LetIn' = LetIn \cup {r} /\ r \notin LetIn
    BY <1>1, <1>4 DEF LetIn
  <2>2. Asked' = Asked \cup {<<u, v>>}
    BY <1>1, <2>1 DEF Asked, LetIn
  <2> QED
    BY <1>2, <1>3, <1>4, <2>2 DEF Registry!Next, Registry!Ask
<1>5. CASE ~(v \in Active /\ v # u)
  <2>1. LetIn' = LetIn /\ r \notin LetIn
    BY <1>1, <1>5 DEF LetIn
  <2>2. Asked' = Asked
    BY <1>1, <2>1 DEF Asked, LetIn
  <2> QED
    BY <1>2, <1>3, <2>2 DEF Registry!vars
<1> QED
  BY <1>4, <1>5

\* The commit registers the chat of the pair, which has none by then.
LEMMA CommitRegisters ==
  ASSUME IInv, LetInAreActive, NEW r \in Requests, Commit(r)
  PROVE  Registry!Next
<1> DEFINE p == PairOf(r)
<1>1. /\ pc[r] = "commit" /\ pc'[r] = "load"
      /\ chats' = chats \cup {r}
      /\ chatMembers' = chatMembers \cup {<<r, p[1]>>, <<r, p[2]>>}
      /\ UNCHANGED <<actor, target, chat>>
      /\ \A q \in Requests \ {r} : pc'[q] = pc[q]
  BY DEF IInv, TypeOK, Commit, Goto
<1>2. /\ r \notin chats /\ RowsOfPair(p) = {}
      /\ actor[r] \in Users /\ target[r] \in Users /\ actor[r] # target[r]
  BY <1>1 DEF IInv, RequestInv, InFlight, InTransaction, NoChatYet
<1>3. p \in Users \X Users /\ {p[1], p[2]} = {actor[r], target[r]}
  BY <1>2, PairFacts DEF PairOf
<1>4. r \in LetIn /\ actor[r] \in Active /\ target[r] \in Active
  BY <1>1 DEF LetInAreActive, LetIn
<1>5. MembersOf(r)' = {actor[r], target[r]}
  <2>1. MembersOf(r) = {}
    BY <1>2 DEF IInv, NoHalfMadeChat, MembersOf
  <2> HIDE DEF p
  <2>2. MembersOf(r)' = {p[1], p[2]}
    BY <1>1, <1>3, <2>1 DEF MembersOf
  <2> QED
    BY <1>3, <2>2
<1>6. \A c \in chats : MembersOf(c)' = MembersOf(c)
  BY <1>1, <1>2 DEF MembersOf
<1>7. Kept' = Kept \cup {Registry!Entry(actor[r], target[r], r)}
  BY <1>1, <1>5, <1>6 DEF Kept, Registry!Entry
<1>8. ASSUME NEW c \in chats PROVE MembersOf(c) # {actor[r], target[r]} /\ c # r
  <2>1. PICK d \in directChats : d.chatId = c
    BY DEF IInv, NoHalfMadeChat
  <2>2. MembersOf(c) = {d.userA, d.userB}
    BY <2>1 DEF IInv, NoHalfMadeChat
  <2>3. d.userA \in Users /\ d.userB \in Users /\ d.userA < d.userB
    BY DEF IInv, TypeOK, DirectChat
  <2>4. d.userA # d.userB /\ OrderUserPair(d.userA, d.userB) = <<d.userA, d.userB>>
    <3>1. d.userA \in Nat /\ d.userB \in Nat
      BY <2>3, ConstantsAssumption
    <3> QED
      BY <2>3, <3>1 DEF OrderUserPair
  <2>5. {d.userA, d.userB} = {actor[r], target[r]} => p = <<d.userA, d.userB>>
    BY <1>2, <2>3, <2>4, SamePair DEF PairOf
  <2>6. <<d.userA, d.userB>> # p
    BY <1>2 DEF RowsOfPair
  <2> QED
    BY <1>2, <2>2, <2>5, <2>6
<1>9. \A e \in Kept : e.members # {actor[r], target[r]} /\ e.chat # r
  BY <1>8 DEF Kept
<1>10. Asked' = Asked /\ <<actor[r], target[r]>> \in Asked
  <2>1. LetIn' = LetIn
    BY <1>1 DEF LetIn
  <2> QED
    BY <1>1, <1>4, <2>1 DEF Asked
<1>11. Told' = Told
  <2>1. Answered' = Answered
    BY <1>1 DEF Answered
  <2> QED
    BY <1>1, <2>1, ToldUnchanged
<1>12. Registry!Register(actor[r], target[r], r)
  BY <1>7, <1>9, <1>10, <1>11 DEF Registry!Register
<1> QED
  BY <1>4, <1>12 DEF Registry!Next

\* A call that ends with a summary tells of an entry that is there.
LEMMA LoadTells ==
  ASSUME IInv, LetInAreActive, NEW r \in Requests, LoadSummary(r)
  PROVE  Registry!Next
<1>1. pc[r] = "load" /\ UNCHANGED <<rows, actor, target, chat>>
  BY DEF LoadSummary, Goto
<1>2. PICK d \in RowsOfPair(PairOf(r)) : d.chatId = chat[r]
  BY <1>1 DEF IInv, RequestInv
<1>3. actor[r] \in Users /\ target[r] \in Users /\ actor[r] # target[r]
  BY <1>1 DEF IInv, RequestInv, InFlight
<1>4. {d.userA, d.userB} = {actor[r], target[r]}
  <2>1. /\ PairOf(r) = <<d.userA, d.userB>>
        /\ {PairOf(r)[1], PairOf(r)[2]} = {actor[r], target[r]}
    BY <1>2, <1>3, PairFacts DEF RowsOfPair, PairOf
  <2>2. PairOf(r)[1] = d.userA /\ PairOf(r)[2] = d.userB
    BY <2>1
  <2> QED
    BY <2>1, <2>2, Zenon
<1>5. MembersOf(chat[r]) = {actor[r], target[r]} /\ chat[r] \in chats /\ chat[r] \in Requests
  BY <1>2, <1>4 DEF IInv, TypeOK, NoHalfMadeChat, RowsOfPair
<1>6. pc'[r] = "answered" /\ \A q \in Requests \ {r} : pc'[q] = pc[q]
  <2>1. <<chat[r], actor[r]>> \in chatMembers
    BY <1>3, <1>5 DEF MembersOf
  <2> QED
    BY <1>2, <2>1 DEF LoadSummary, Goto, IInv, TypeOK, VisibleTo, RowsOfPair
<1>7. LetIn' = LetIn /\ r \in LetIn /\ actor[r] \in Active /\ target[r] \in Active
  BY <1>1, <1>6 DEF LetIn, LetInAreActive
<1>8. Asked' = Asked /\ <<actor[r], target[r]>> \in Asked
  BY <1>1, <1>7 DEF Asked
<1>9. Kept' = Kept
  BY <1>1, KeptUnchanged
<1>10. Registry!Entry(actor[r], target[r], chat[r]) = Summary(r)
       /\ Summary(r) \in Kept
  BY <1>5 DEF Registry!Entry, Summary, Kept
<1>11. Told' = Told \cup {[who |-> actor[r], of |-> Summary(r)]}
  <2>1. Answered' = Answered \cup {r}
    BY <1>1, <1>6 DEF Answered
  <2>2. \A q \in Requests : Summary(q)' = Summary(q)
    BY <1>1 DEF Summary
  <2> QED
    BY <1>1, <2>1, <2>2 DEF Told, Answered
<1>12. Registry!Tell(actor[r], target[r], chat[r])
  BY <1>8, <1>9, <1>10, <1>11 DEF Registry!Tell
<1> QED
  BY <1>5, <1>7, <1>12 DEF Registry!Next

\* Everything else is not seen from the registry.
LEMMA OthersStutter ==
  ASSUME IInv, NEW r \in Requests,
         FindExisting(r) \/ InsertChat(r) \/ InsertPair(r) \/ FindRaced(r) \/ Fail(r)
  PROVE  UNCHANGED Registry!vars
<1>1. /\ UNCHANGED <<rows, actor, target>>
      /\ pc[r] \in InFlight
      /\ pc'[r] \in InFlight \cup {"failed"}
      /\ \A q \in Requests \ {r} : pc'[q] = pc[q] /\ chat'[q] = chat[q]
  BY DEF IInv, TypeOK, FindExisting, InsertChat, InsertPair, FindRaced, Fail, LookUpPair,
     InsertOrClash, Goto, InFlight, InTransaction
<1>2. LetIn' = LetIn /\ Answered' = Answered /\ r \notin Answered
  BY <1>1 DEF LetIn, Answered, InFlight, InTransaction
<1>3. Asked' = Asked
  BY <1>1, <1>2 DEF Asked
<1>4. Told' = Told
  <2>1. \A q \in Answered : UNCHANGED <<actor[q], target[q], chat[q]>>
    BY <1>1, <1>2 DEF Answered
  <2> QED
    BY <1>2, <2>1, ToldUnchanged
<1> QED
  BY <1>1, <1>3, <1>4, KeptUnchanged DEF Registry!vars

\* Whatever overlaps and fails, the calls of createDirectChat are a registry in which
\* two people have one chat, made because one of them asked for it, and both are told of it.
THEOREM ServiceImplementsRegistry == Spec => ImplementsRegistry
<1>1. Init => Registry!Init /\ LetInAreActive
  BY DEF Init, Registry!Init, Asked, Kept, Told, LetIn, Answered, LetInAreActive
<1>2. IInv /\ LetInAreActive /\ [Next]_vars => [Registry!Next]_(Registry!vars)
  <2> SUFFICES ASSUME IInv, LetInAreActive, [Next]_vars
               PROVE  Registry!Next \/ UNCHANGED Registry!vars
    OBVIOUS
  <2>1. CASE UNCHANGED vars
    BY <2>1 DEF vars, Registry!vars, Asked, Kept, Told, LetIn, Answered, MembersOf, Summary
  <2> QED
    BY <2>1, ReceiveAsks, CommitRegisters, LoadTells, OthersStutter DEF Next, Serve
<1> QED
  BY <1>1, <1>2, LetInStaysActive, Invariance, PTL DEF Spec, ImplementsRegistry, Registry!Spec
===============================================================================

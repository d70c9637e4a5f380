------------------------------ MODULE DirectChats ------------------------------
(***************************************************************************)
(* createDirectChat of apps/server/src/modules/chats/chat-service.ts: any  *)
(* number of concurrent calls, by either user of a pair, find or create    *)
(* the pair's one chat.                                                    *)
(*                                                                         *)
(* Each SQL statement is an action. The rows a transaction has written     *)
(* become visible at its commit; until then an insert of the same pair by  *)
(* another transaction waits at the unique index. Any statement may fail   *)
(* and a client may call again, which is one more request.                 *)
(*                                                                         *)
(* User ids are compared by orderUserPair and by a CHECK of the table, so  *)
(* they are numbers here. The id of the chat a request creates is the      *)
(* request itself: a request runs its transaction once.                    *)
(***************************************************************************)
EXTENDS Integers, FiniteSets

CONSTANTS
  Users,       \* the ids in users
  Active,      \* those whose status is 'active'
  Requests,    \* calls of the service; each is made once
  CodeSeen,    \* the results hasDatabaseCode(error, '23505') may have
  None         \* no user, no chat

ASSUME ConstantsAssumption ==
  /\ Users \subseteq Nat
  /\ Active \subseteq Users
  /\ CodeSeen \subseteq BOOLEAN
  /\ None \notin Requests \cup Users

VARIABLES
  chats,         \* the rows of chats, by id
  directChats,   \* the rows of direct_chats
  chatMembers,   \* the rows of chat_members, as <<chatId, userId>>
  pc,            \* where each request stands
  actor,         \* who makes it
  target,        \* the user asked for
  chat           \* the id it has found or created

rows == <<chats, directChats, chatMembers>>
vars == <<chats, directChats, chatMembers, pc, actor, target, chat>>

InTransaction == {"insertPair", "commit"}
InFlight == {"find", "insertChat", "recheck", "load"} \cup InTransaction
Ended == {"answered", "refused", "failed"}

DirectChat == [chatId : Requests, userA : Users, userB : Users]

TypeOK ==
  /\ chats \subseteq Requests
  /\ directChats \subseteq DirectChat
  /\ \A d \in directChats : d.userA < d.userB
  /\ chatMembers \subseteq Requests \X Users
  /\ pc \in [Requests -> {"idle"} \cup InFlight \cup Ended]
  /\ actor \in [Requests -> Users \cup {None}]
  /\ target \in [Requests -> Users \cup {None}]
  /\ chat \in [Requests -> Requests \cup {None}]

Init ==
  /\ chats = {}
  /\ directChats = {}
  /\ chatMembers = {}
  /\ pc = [r \in Requests |-> "idle"]
  /\ actor = [r \in Requests |-> None]
  /\ target = [r \in Requests |-> None]
  /\ chat = [r \in Requests |-> None]

--------------------------------------------------------------------------------
Goto(r, from, to) ==
  /\ pc[r] = from
  /\ pc' = [pc EXCEPT ![r] = to]

PairAsGiven(u, v) == <<u, v>>

OrderUserPair(u, v) == IF u < v THEN <<u, v>> ELSE <<v, u>>

PairOf(r) == OrderUserPair(actor[r], target[r])

\* findDirectChatId, on the committed rows.
RowsOfPair(p) == {d \in directChats : <<d.userA, d.userB>> = p}

\* An active user asks for a chat with another active user; a target who is not
\* active is not found, and nobody chats with himself.
ReceiveCreate(r, u, v) ==
  /\ Goto(r, "idle", IF v \in Active /\ v # u THEN "find" ELSE "refused")
  /\ actor' = [actor EXCEPT ![r] = u]
  /\ target' = [target EXCEPT ![r] = v]
  /\ UNCHANGED <<rows, chat>>

LookUpPair(r, from, notFound) ==
  /\ pc[r] = from
  /\ \/ /\ RowsOfPair(PairOf(r)) = {}
        /\ Goto(r, from, notFound)
        /\ UNCHANGED chat
     \/ \E d \in RowsOfPair(PairOf(r)) :
          /\ Goto(r, from, "load")
          /\ chat' = [chat EXCEPT ![r] = d.chatId]
  /\ UNCHANGED <<rows, actor, target>>

FindExisting(r) == LookUpPair(r, "find", "insertChat")

\* BEGIN and INSERT INTO chats: a row only this transaction sees.
InsertChatAtOnce(r) ==
  /\ Goto(r, "insertChat", "insertPair")
  /\ chat' = [chat EXCEPT ![r] = r]
  /\ chats' = chats \cup {r}
  /\ UNCHANGED <<directChats, chatMembers, actor, target>>

InsertChat(r) ==
  /\ Goto(r, "insertChat", "insertPair")
  /\ chat' = [chat EXCEPT ![r] = r]
  /\ UNCHANGED <<rows, actor, target>>

\* INSERT INTO direct_chats. The row clashes with those of the same pair, which is
\* a unique violation: the transaction is rolled back, with its row of chats, and
\* the catch block knows the error or does not.
InsertOrClash(r, clashing) ==
  /\ \/ /\ clashing = {}
        /\ Goto(r, "insertPair", "commit")
        /\ UNCHANGED chat
     \/ /\ clashing # {}
        /\ \E seen \in CodeSeen :
             Goto(r, "insertPair", IF seen THEN "recheck" ELSE "failed")
        /\ chat' = [chat EXCEPT ![r] = None]
  /\ UNCHANGED <<rows, actor, target>>

\* A transaction that has inserted the same pair and has not ended yet.
Inserting(p) == {q \in Requests : pc[q] = "commit" /\ PairOf(q) = p}

InsertPairNoWait(r) ==
  /\ pc[r] = "insertPair"
  /\ InsertOrClash(r, RowsOfPair(PairOf(r)))

InsertPairFailsEarly(r) ==
  /\ pc[r] = "insertPair"
  /\ InsertOrClash(r, RowsOfPair(PairOf(r)) \cup Inserting(PairOf(r)))

InsertPairWaitsForAll(r) ==
  /\ pc[r] = "insertPair"
  /\ \A q \in Requests \ {r} : pc[q] \in InTransaction => PairOf(q) # PairOf(r)
  /\ InsertOrClash(r, RowsOfPair(PairOf(r)))

\* It waits for such a transaction, and clashes with what is committed by then.
InsertPair(r) ==
  /\ pc[r] = "insertPair"
  /\ Inserting(PairOf(r)) = {}
  /\ InsertOrClash(r, RowsOfPair(PairOf(r)))

\* INSERT INTO chat_members, both at once, and COMMIT.
Commit(r) ==
  /\ Goto(r, "commit", "load")
  /\ chats' = chats \cup {r}
  /\ directChats' = directChats \cup
       {[chatId |-> r, userA |-> PairOf(r)[1], userB |-> PairOf(r)[2]]}
  /\ chatMembers' = chatMembers \cup {<<r, PairOf(r)[1]>>, <<r, PairOf(r)[2]>>}
  /\ UNCHANGED <<actor, target, chat>>

\* After a unique violation the pair is looked up again.
FindRaced(r) == LookUpPair(r, "recheck", "failed")

\* getDirectChatById: the summary is answered if the actor is a member, and
\* "chat_not_found" otherwise.
VisibleTo(u) == {d \in directChats : <<d.chatId, u>> \in chatMembers}

LoadSummary(r) ==
  /\ Goto(r, "load", IF \E d \in VisibleTo(actor[r]) : d.chatId = chat[r]
                     THEN "answered" ELSE "refused")
  /\ UNCHANGED <<rows, actor, target, chat>>

\* A statement fails, the connection breaks or the server dies; an open
\* transaction is rolled back.
Fail(r) ==
  /\ pc[r] \in InFlight
  /\ pc' = [pc EXCEPT ![r] = "failed"]
  /\ UNCHANGED <<rows, actor, target, chat>>

Serve(r) ==
  \/ FindExisting(r)
  \/ InsertChat(r)
  \/ InsertPair(r)
  \/ Commit(r)
  \/ FindRaced(r)
  \/ LoadSummary(r)

Next ==
  \E r \in Requests :
    \/ \E u \in Active, v \in Users : ReceiveCreate(r, u, v)
    \/ Serve(r)
    \/ Fail(r)

Spec == Init /\ [][Next]_vars

\* A request that is being served goes on; one that waits at the unique index is
\* let in when the other transaction ends.
Fairness == \A r \in Requests : WF_vars(Serve(r))

FairSpec == Spec /\ Fairness

--------------------------------------------------------------------------------
\* Two people have at most one chat, whoever asked for it and however the calls
\* overlapped.
OneChatPerPair ==
  \A d1, d2 \in directChats :
    {d1.userA, d1.userB} = {d2.userA, d2.userB} => d1 = d2

\* The three tables agree, whatever failed on the way: every chat has its row in
\* direct_chats, and its members are the two people of that row.
MembersOf(c) == {u \in Users : <<c, u>> \in chatMembers}

NoHalfMadeChat ==
  /\ chats = {d.chatId : d \in directChats}
  /\ \A m \in chatMembers : m[1] \in chats
  /\ \A d \in directChats : MembersOf(d.chatId) = {d.userA, d.userB}

\* Everyone who is answered about a pair is answered with the same chat, one that
\* he and the other see in their lists; nobody whose call got to the end of
\* createDirectChat is told that his chat is not found.
AnswersAgree ==
  \A r \in Requests :
    /\ pc[r] = "answered" => \A q \in Requests :
         /\ pc[q] = "answered"
         /\ {actor[q], target[q]} = {actor[r], target[r]}
         => chat[q] = chat[r]
    /\ pc[r] = "answered" => MembersOf(chat[r]) = {actor[r], target[r]}
    /\ pc[r] = "refused" => chat[r] = None

\* When the catch block looks again, the chat of the pair is there.
ClashIsResolvable ==
  \A r \in Requests : pc[r] = "recheck" => RowsOfPair(PairOf(r)) # {}


\* The calls that were let in, and those that were answered.
LetIn == {r \in Requests : pc[r] \notin {"idle", "refused"}}
Answered == {r \in Requests : pc[r] = "answered"}

Asked == {<<actor[r], target[r]>> : r \in LetIn}
Kept == {[members |-> MembersOf(c), chat |-> c] : c \in chats}
Summary(r) == [members |-> {actor[r], target[r]}, chat |-> chat[r]]
Told == {[who |-> actor[r], of |-> Summary(r)] : r \in Answered}

\* The service implements the registry of one chat per pair. Its entries are read off
\* the rows of chats and chat_members, and what people were told off their calls.
Registry == INSTANCE ChatRegistry WITH
  People <- Active, Chats <- Requests, asked <- Asked, registry <- Kept, told <- Told

ImplementsRegistry == Registry!Spec

\* Every call ends, whoever it had to wait for.
EveryRequestEnds == \A r \in Requests : pc[r] \in InFlight ~> pc[r] \in Ended
================================================================================

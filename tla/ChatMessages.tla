----------------------------- MODULE ChatMessages -----------------------------
(***************************************************************************)
(* The message half of the chat service: sendMessage and markChatRead of   *)
(* apps/server/src/modules/chats/chat-service.ts, run by any number of     *)
(* concurrent requests against the PostgreSQL rows of one chat.            *)
(*                                                                         *)
(* A request is one call of the service. Between two SQL statements of a   *)
(* request, statements of the others may run, so each statement is an      *)
(* action; what a transaction writes becomes visible when it commits, and  *)
(* the row lock that UPDATE chats takes is held until then. PostgreSQL     *)
(* runs at its default level, READ COMMITTED.                              *)
(*                                                                         *)
(* A client that gets no answer submits the same clientNonce again: that   *)
(* is another request for the same nonce. Any statement may fail, the      *)
(* answer may be lost after the commit, and the server may crash, which is *)
(* a failure of every request in flight.                                   *)
(*                                                                         *)
(* Not here: the text of messages, the other chats (chats share no row),   *)
(* and who may have a session (Accounts).                                  *)
(***************************************************************************)
EXTENDS Integers, FiniteSets, Sequences

CONSTANTS
  Users,       \* everyone with an active session
  Members,     \* the rows of chat_members for this chat
  Nonces,      \* messages clients submit, by clientNonce
  Author,      \* Author[n]: the user whose client made nonce n
  Requests,    \* calls of the service; each is made once
  CodeSeen,    \* the results hasDatabaseCode(error, '23505') may have on a
               \* unique violation: which one depends on whether the driver's
               \* error reaches the catch block as it is or wrapped
  None         \* no nonce, no user, no request

ASSUME ConstantsAssumption ==
  /\ Members \subseteq Users
  /\ Author \in [Nonces -> Users]
  /\ CodeSeen \subseteq BOOLEAN
  /\ None \notin Users \cup Nonces \cup Requests

VARIABLES
  \* the committed rows
  messageSeq,    \* chats.message_seq
  lastMessage,   \* chats.last_message_id, as that message's seq (0: NULL)
  updatedAt,     \* chats.updated_at
  messages,      \* the rows of messages
  lastReadSeq,   \* chat_members.last_read_seq, by user
  unreadCount,   \* chat_members.unread_count, by user
  \* the database's own state
  rowLock,       \* the request whose transaction holds the lock on the chats row
  clock,         \* the transaction start times given out so far
  \* the requests
  pc,            \* where each request stands
  nonce,         \* the clientNonce it carries
  actor,         \* who makes it
  began,         \* the start time of its transaction: now() throughout it
  taken,         \* a send: the seq UPDATE chats returned; a read: readTarget
  answer,        \* the seq of the message it was answered with (0: none)
  \* history, which no action reads
  readAt         \* message_seq at the moment each user's read mark was written

rows == <<messageSeq, lastMessage, updatedAt, messages>>
marks == <<lastReadSeq, unreadCount, readAt>>
vars == <<messageSeq, lastMessage, updatedAt, messages, lastReadSeq, unreadCount,
          rowLock, clock, pc, nonce, actor, began, taken, answer, readAt>>

InTransaction == {"insert", "commit"}         \* the lock on the chats row is held
InFlight == {"lookup", "begin", "lock", "insert", "commit", "committed", "recheck",
             "update"}
Ended == {"answered", "refused", "failed"}

Message == [seq : Nat \ {0}, nonce : Nonces, sender : Users, createdAt : Nat]

TypeOK ==
  /\ messageSeq \in Nat
  /\ lastMessage \in Nat
  /\ updatedAt \in Nat
  /\ messages \subseteq Message
  /\ lastReadSeq \in [Members -> Nat]
  /\ unreadCount \in [Members -> Nat]
  /\ readAt \in [Members -> Nat]
  /\ rowLock \in Requests \cup {None}
  /\ clock \in Nat
  /\ pc \in [Requests -> {"idle"} \cup InFlight \cup Ended]
  /\ nonce \in [Requests -> Nonces \cup {None}]
  /\ actor \in [Requests -> Users \cup {None}]
  /\ began \in [Requests -> Nat]
  /\ taken \in [Requests -> Nat]
  /\ answer \in [Requests -> Nat]

Init ==
  /\ messageSeq = 0
  /\ lastMessage = 0
  /\ updatedAt = 0
  /\ messages = {}
  /\ lastReadSeq = [u \in Members |-> 0]
  /\ unreadCount = [u \in Members |-> 0]
  /\ readAt = [u \in Members |-> 0]
  /\ rowLock = None
  /\ clock = 0
  /\ pc = [r \in Requests |-> "idle"]
  /\ nonce = [r \in Requests |-> None]
  /\ actor = [r \in Requests |-> None]
  /\ began = [r \in Requests |-> 0]
  /\ taken = [r \in Requests |-> 0]
  /\ answer = [r \in Requests |-> 0]

------------------------------------------------------------------------------
Goto(r, from, to) ==
  /\ pc[r] = from
  /\ pc' = [pc EXCEPT ![r] = to]

WithNonce(n) == {m \in messages : m.nonce = n}

\* A client submits nonce n. The participants are read, and an author who is not
\* one of them is refused.
ReceiveSend(r, n) ==
  /\ Goto(r, "idle", IF Author[n] \in Members THEN "lookup" ELSE "refused")
  /\ nonce' = [nonce EXCEPT ![r] = n]
  /\ actor' = [actor EXCEPT ![r] = Author[n]]
  /\ UNCHANGED <<rows, marks, rowLock, clock, began, taken, answer>>

\* findMessageByClientNonce: a nonce already stored is answered with its row,
\* another one goes on to notFound.
LookUpNonce(r, from, notFound) ==
  /\ \/ /\ WithNonce(nonce[r]) = {}
        /\ Goto(r, from, notFound)
        /\ UNCHANGED answer
     \/ \E m \in WithNonce(nonce[r]) :
          /\ Goto(r, from, "answered")
          /\ answer' = [answer EXCEPT ![r] = m.seq]
  /\ UNCHANGED <<rows, marks, rowLock, clock, nonce, actor, began, taken>>

FindExisting(r) == LookUpNonce(r, "lookup", "begin")

\* BEGIN: fixes the value now() has, hence created_at, for the whole transaction.
BeginTransaction(r) ==
  /\ Goto(r, "begin", "lock")
  /\ clock' = clock + 1
  /\ began' = [began EXCEPT ![r] = clock + 1]
  /\ UNCHANGED <<rows, marks, rowLock, nonce, actor, taken, answer>>

\* UPDATE chats SET message_seq = message_seq + 1 RETURNING: waits for the row
\* lock, and then sees what the previous holder committed.
IncrementSeqUnlocked(r) ==
  /\ Goto(r, "lock", "insert")
  /\ rowLock' = r
  /\ taken' = [taken EXCEPT ![r] = messageSeq + 1]
  /\ UNCHANGED <<rows, marks, clock, nonce, actor, began, answer>>

IncrementSeqOldValue(r) ==
  /\ Goto(r, "lock", "insert")
  /\ rowLock = None
  /\ rowLock' = r
  /\ taken' = [taken EXCEPT ![r] = messageSeq]
  /\ UNCHANGED <<rows, marks, clock, nonce, actor, began, answer>>

IncrementSeq(r) ==
  /\ Goto(r, "lock", "insert")
  /\ rowLock = None
  /\ rowLock' = r
  /\ taken' = [taken EXCEPT ![r] = messageSeq + 1]
  /\ UNCHANGED <<rows, marks, clock, nonce, actor, began, answer>>

\* INSERT INTO messages meets the two unique indexes. A violation rolls the
\* transaction back and reaches the catch block, which knows it or does not.
Clashes(r) == {m \in messages : m.seq = taken[r] \/ m.nonce = nonce[r]}

InsertKeepsSeq(r) ==
  /\ \/ /\ Clashes(r) = {}
        /\ Goto(r, "insert", "commit")
        /\ UNCHANGED <<rowLock, messageSeq>>
     \/ /\ Clashes(r) # {}
        /\ \E seen \in CodeSeen : Goto(r, "insert", IF seen THEN "recheck" ELSE "failed")
        /\ rowLock' = None
        /\ messageSeq' = taken[r]
  /\ UNCHANGED <<lastMessage, updatedAt, messages, marks, clock, nonce, actor, began,
                 taken, answer>>

InsertUnchecked(r) ==
  /\ Goto(r, "insert", "commit")
  /\ UNCHANGED <<rows, marks, rowLock, clock, nonce, actor, began, taken, answer>>

InsertKeepsLock(r) ==
  /\ \/ /\ Clashes(r) = {}
        /\ Goto(r, "insert", "commit")
     \/ /\ Clashes(r) # {}
        /\ \E seen \in CodeSeen : Goto(r, "insert", IF seen THEN "recheck" ELSE "failed")
  /\ UNCHANGED <<rows, marks, rowLock, clock, nonce, actor, began, taken, answer>>

InsertMessage(r) ==
  /\ \/ /\ Clashes(r) = {}
        /\ Goto(r, "insert", "commit")
        /\ UNCHANGED rowLock
     \/ /\ Clashes(r) # {}
        /\ \E seen \in CodeSeen : Goto(r, "insert", IF seen THEN "recheck" ELSE "failed")
        /\ rowLock' = None
  /\ UNCHANGED <<rows, marks, clock, nonce, actor, began, taken, answer>>

NewMessage(r) ==
  [seq |-> taken[r], nonce |-> nonce[r], sender |-> actor[r], createdAt |-> began[r]]

CommitCountsSender(r) ==
  /\ Goto(r, "commit", "committed")
  /\ messageSeq' = taken[r]
  /\ messages' = messages \cup {NewMessage(r)}
  /\ lastMessage' = taken[r]
  /\ updatedAt' = began[r]
  /\ unreadCount' = [u \in Members |-> unreadCount[u] + 1]
  /\ rowLock' = None
  /\ UNCHANGED <<lastReadSeq, readAt, clock, nonce, actor, began, taken, answer>>

CommitWithoutPreview(r) ==
  /\ Goto(r, "commit", "committed")
  /\ messageSeq' = taken[r]
  /\ messages' = messages \cup {NewMessage(r)}
  /\ lastMessage' = IF lastMessage = 0 THEN taken[r] ELSE lastMessage
  /\ updatedAt' = began[r]
  /\ unreadCount' = [u \in Members |->
                       unreadCount[u] + (IF u = actor[r] THEN 0 ELSE 1)]
  /\ rowLock' = None
  /\ UNCHANGED <<lastReadSeq, readAt, clock, nonce, actor, began, taken, answer>>

\* The chat's preview and the other members' counters are updated in the same
\* transaction, and COMMIT publishes all of it at once.
Commit(r) ==
  /\ Goto(r, "commit", "committed")
  /\ messageSeq' = taken[r]
  /\ messages' = messages \cup {NewMessage(r)}
  /\ lastMessage' = taken[r]
  /\ updatedAt' = began[r]
  /\ unreadCount' = [u \in Members |->
                       unreadCount[u] + (IF u = actor[r] THEN 0 ELSE 1)]
  /\ rowLock' = None
  /\ UNCHANGED <<lastReadSeq, readAt, clock, nonce, actor, began, taken, answer>>

\* The stored message goes back to the caller.
AnswerSend(r) ==
  /\ Goto(r, "committed", "answered")
  /\ answer' = [answer EXCEPT ![r] = taken[r]]
  /\ UNCHANGED <<rows, marks, rowLock, clock, nonce, actor, began, taken>>

AnswerWithLast(r) ==
  /\ Goto(r, "recheck", "answered")
  /\ answer' = [answer EXCEPT ![r] = lastMessage]
  /\ UNCHANGED <<rows, marks, rowLock, clock, nonce, actor, began, taken>>

\* After a unique violation the nonce is looked up again; if it is not there the
\* error is thrown after all.
FindRaced(r) == LookUpNonce(r, "recheck", "failed")

\* markChatRead: the SELECT joins the caller's membership to the chat's message_seq.
ReceiveRead(r, u) ==
  /\ Goto(r, "idle", IF u \in Members THEN "update" ELSE "refused")
  /\ actor' = [actor EXCEPT ![r] = u]
  /\ taken' = [taken EXCEPT ![r] = messageSeq]
  /\ UNCHANGED <<rows, marks, rowLock, clock, nonce, began, answer>>

\* ... and a second statement, in no transaction with it, writes what it saw.
WriteReadMark(r) ==
  /\ Goto(r, "update", "answered")
  /\ lastReadSeq' = [lastReadSeq EXCEPT ![actor[r]] = taken[r]]
  /\ unreadCount' = [unreadCount EXCEPT ![actor[r]] = 0]
  /\ readAt' = [readAt EXCEPT ![actor[r]] = messageSeq]
  /\ UNCHANGED <<rows, rowLock, clock, nonce, actor, began, taken, answer>>

\* A statement fails, the connection breaks or the server dies: the transaction,
\* if there is one, is rolled back. From "committed" only the answer is lost.
Fail(r) ==
  /\ pc[r] \in InFlight
  /\ pc' = [pc EXCEPT ![r] = "failed"]
  /\ rowLock' = IF rowLock = r THEN None ELSE rowLock
  /\ UNCHANGED <<rows, marks, clock, nonce, actor, began, taken, answer>>

\* The statements of a request that is being served.
Serve(r) ==
  \/ FindExisting(r)
  \/ BeginTransaction(r)
  \/ IncrementSeq(r)
  \/ InsertMessage(r)
  \/ Commit(r)
  \/ AnswerSend(r)
  \/ FindRaced(r)
  \/ WriteReadMark(r)

Next ==
  \E r \in Requests :
    \/ \E n \in Nonces : ReceiveSend(r, n)
    \/ \E u \in Users : ReceiveRead(r, u)
    \/ Serve(r)
    \/ Fail(r)

Spec == Init /\ [][Next]_vars

\* A request that is being served goes on, and the lock queue of PostgreSQL lets
\* every waiting transaction have the row in its turn.
Fairness ==
  \A r \in Requests :
    /\ WF_vars(Serve(r))
    /\ SF_vars(IncrementSeq(r))

FairSpec == Spec /\ Fairness

------------------------------------------------------------------------------
\* The seqs of a chat are 1..message_seq, one row each: no gap is left by a send
\* that failed, and no reader sees a message before those with smaller seqs.
SeqContiguous ==
  /\ {m.seq : m \in messages} = 1..messageSeq
  /\ \A m1, m2 \in messages : m1.seq = m2.seq => m1 = m2

\* However often and however concurrently a message is submitted, and whatever
\* fails on the way, it is stored at most once.
NonceStoredOnce ==
  \A m1, m2 \in messages : m1.nonce = m2.nonce => m1 = m2

\* The chat list's preview and date are those of the newest message.
PreviewIsNewest ==
  /\ lastMessage = messageSeq
  /\ \A m \in messages : m.seq = lastMessage => m.createdAt = updatedAt

FromOthersAfter(u, s) == {m \in messages : m.sender # u /\ m.seq > s}

\* The unread counter is exactly the number of messages the others have written
\* since the member's read mark was last written, whatever sends were in flight;
\* and the mark never lies beyond the messages there were at that moment.
UnreadExact ==
  \A u \in Members :
    /\ unreadCount[u] = Cardinality(FromOthersAfter(u, readAt[u]))
    /\ lastReadSeq[u] <= readAt[u]
    /\ readAt[u] <= messageSeq

\* When the catch block looks again, the row that clashed is there and is the
\* caller's own message: the error is never thrown on to the client.
ClashIsDuplicate ==
  \A r \in Requests : pc[r] = "recheck" => WithNonce(nonce[r]) # {}

\* The service implements the exactly-once log.
StoredLog == [i \in 1..messageSeq |-> (CHOOSE m \in messages : m.seq = i).nonce]
Answered == {<<nonce[r], answer[r]>> : r \in {q \in Requests : answer[q] # 0}}

Log == INSTANCE ChatLog WITH log <- StoredLog, answered <- Answered

ImplementsLog == Log!Spec

\* Every call of the service ends, whoever it had to wait for.
EveryRequestEnds == \A r \in Requests : pc[r] \in InFlight ~> pc[r] \in Ended

\* IMPLEMENTATION.md:562 "On POST /api/chats/:id/read the server writes
\* chat_members.last_read_seq = chats.message_seq and resets unread_count": the
\* read mark is the chat's message_seq at the moment the counter is reset.
ReadMarkIsMessageSeq == \A u \in Members : lastReadSeq[u] = readAt[u]

\* IMPLEMENTATION.md:366 "Returns the messages in chronological order": a page,
\* which is in the order of seq, is in the order of created_at too.
PageIsChronological ==
  \A m1, m2 \in messages : m1.seq < m2.seq => m1.createdAt <= m2.createdAt
==============================================================================

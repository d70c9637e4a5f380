-------------------------- MODULE ChatMessages_proofs --------------------------
(***************************************************************************)
(* Proofs about ChatMessages, for any users, members, nonces and number of *)
(* concurrent requests.                                                    *)
(*                                                                         *)
(* The invariants the model checker sees are not inductive. What makes     *)
(* them so is what the row lock gives its holder: it alone is between the  *)
(* increment and the end of its transaction, so the seq it was given stays *)
(* the next one (LockInv), and once its insert met no clash none can arise *)
(* before it commits (InsertInv).                                          *)
(***************************************************************************)
EXTENDS ChatMessages, TLAPS, FiniteSetTheorems, SequenceTheorems

Sending == {"lookup", "begin", "lock", "insert", "commit", "committed", "recheck"}

\* What a request has in hand at each of its steps.
RequestInv ==
  \A r \in Requests :
    /\ pc[r] \in Sending => nonce[r] \in Nonces /\ actor[r] \in Members
    /\ pc[r] = "update" => actor[r] \in Members /\ taken[r] <= messageSeq
    /\ pc[r] # "answered" => answer[r] = 0

\* The holder of the row lock is the one request inside a transaction.
LockInv ==
  \A r \in Requests :
    /\ pc[r] \in InTransaction <=> rowLock = r
    /\ pc[r] \in InTransaction => taken[r] = messageSeq + 1

\* The rows an insert was checked against, and the row a request was answered with.
InsertInv ==
  \A r \in Requests :
    /\ pc[r] = "commit" => WithNonce(nonce[r]) = {}
    /\ pc[r] = "committed" =>
         \E m \in messages : m.seq = taken[r] /\ m.nonce = nonce[r]
    /\ answer[r] # 0 =>
         \E m \in messages : m.seq = answer[r] /\ m.nonce = nonce[r]

Bookkeeping == RequestInv /\ LockInv /\ InsertInv

\* The inductive invariant.
IInv ==
  /\ TypeOK
  /\ Bookkeeping
  /\ SeqContiguous
  /\ NonceStoredOnce
  /\ PreviewIsNewest
  /\ ClashIsDuplicate

------------------------------------------------------------------------------
\* Only a commit changes the chat row and the messages.
LEMMA RowsStep ==
  ASSUME [Next]_vars
  PROVE  UNCHANGED rows \/ \E r \in Requests : Commit(r)
BY DEF Next, Serve, vars, rows, ReceiveSend, ReceiveRead, FindExisting, FindRaced,
       LookUpNonce, BeginTransaction, IncrementSeq, InsertMessage, AnswerSend,
       WriteReadMark, Fail

\* Every step keeps the types; a commit does because the row it adds was given
\* the next seq and a nonce.
LEMMA TypeStep ==
  ASSUME TypeOK, Bookkeeping, [Next]_vars
  PROVE  TypeOK'
<1> USE ConstantsAssumption DEF TypeOK, InFlight, Ended, Goto, rows, marks
<1>1. ASSUME NEW r \in Requests, NEW n \in Nonces, ReceiveSend(r, n) PROVE TypeOK'
  BY <1>1 DEF ReceiveSend
<1>2. ASSUME NEW r \in Requests, NEW u \in Users, ReceiveRead(r, u) PROVE TypeOK'
  BY <1>2 DEF ReceiveRead
<1>3. ASSUME NEW r \in Requests, FindExisting(r) PROVE TypeOK'
  BY <1>3 DEF FindExisting, LookUpNonce, WithNonce, Message
<1>4. ASSUME NEW r \in Requests, BeginTransaction(r) PROVE TypeOK'
  BY <1>4 DEF BeginTransaction
<1>5. ASSUME NEW r \in Requests, IncrementSeq(r) PROVE TypeOK'
  BY <1>5 DEF IncrementSeq
<1>6. ASSUME NEW r \in Requests, InsertMessage(r) PROVE TypeOK'
  BY <1>6 DEF InsertMessage
<1>7. ASSUME NEW r \in Requests, Commit(r) PROVE TypeOK'
  <2>1. /\ taken[r] = messageSeq + 1
        /\ nonce[r] \in Nonces
        /\ actor[r] \in Users
    BY <1>7 DEF Commit, Bookkeeping, LockInv, RequestInv, InTransaction, Sending
  <2>2. NewMessage(r) \in Message
    BY <2>1 DEF NewMessage, Message
  <2> HIDE DEF NewMessage, Message
  <2> QED BY <1>7, <2>1, <2>2 DEF Commit
<1>8. ASSUME NEW r \in Requests, AnswerSend(r) PROVE TypeOK'
  BY <1>8 DEF AnswerSend
<1>9. ASSUME NEW r \in Requests, FindRaced(r) PROVE TypeOK'
  BY <1>9 DEF FindRaced, LookUpNonce, WithNonce, Message
<1>10. ASSUME NEW r \in Requests, WriteReadMark(r) PROVE TypeOK'
  BY <1>10 DEF WriteReadMark, Bookkeeping, RequestInv
<1>11. ASSUME NEW r \in Requests, Fail(r) PROVE TypeOK'
  BY <1>11 DEF Fail
<1>12. CASE UNCHANGED vars
  BY <1>12 DEF vars
<1> HIDE DEF TypeOK
<1> QED
  BY <1>1, <1>2, <1>3, <1>4, <1>5, <1>6, <1>7, <1>8, <1>9, <1>10, <1>11, <1>12
     DEF Next, Serve

\* What each request has in hand stays right: message_seq never decreases, and
\* each step hands over what the next one relies on.
LEMMA RequestStep ==
  ASSUME IInv, TypeOK', [Next]_vars
  PROVE  RequestInv'
<1> USE ConstantsAssumption
    DEF IInv, TypeOK, Bookkeeping, RequestInv, LockInv, InTransaction, Sending, InFlight, Goto, rows,
        marks
<1>1. ASSUME NEW r \in Requests, NEW n \in Nonces, ReceiveSend(r, n) PROVE RequestInv'
  BY <1>1 DEF ReceiveSend
<1>2. ASSUME NEW r \in Requests, NEW u \in Users, ReceiveRead(r, u) PROVE RequestInv'
  BY <1>2 DEF ReceiveRead
<1>3. ASSUME NEW r \in Requests, FindExisting(r) PROVE RequestInv'
  BY <1>3 DEF FindExisting, LookUpNonce
<1>4. ASSUME NEW r \in Requests, BeginTransaction(r) PROVE RequestInv'
  BY <1>4 DEF BeginTransaction
<1>5. ASSUME NEW r \in Requests, IncrementSeq(r) PROVE RequestInv'
  BY <1>5 DEF IncrementSeq
<1>6. ASSUME NEW r \in Requests, InsertMessage(r) PROVE RequestInv'
  BY <1>6 DEF InsertMessage
<1>7. ASSUME NEW r \in Requests, Commit(r) PROVE RequestInv'
  BY <1>7 DEF Commit
<1>8. ASSUME NEW r \in Requests, AnswerSend(r) PROVE RequestInv'
  BY <1>8 DEF AnswerSend
<1>9. ASSUME NEW r \in Requests, FindRaced(r) PROVE RequestInv'
  BY <1>9 DEF FindRaced, LookUpNonce
<1>10. ASSUME NEW r \in Requests, WriteReadMark(r) PROVE RequestInv'
  BY <1>10 DEF WriteReadMark
<1>11. ASSUME NEW r \in Requests, Fail(r) PROVE RequestInv'
  BY <1>11 DEF Fail
<1>12. CASE UNCHANGED vars
  BY <1>12 DEF vars
<1> HIDE DEF RequestInv, TypeOK
<1> QED
  BY <1>1, <1>2, <1>3, <1>4, <1>5, <1>6, <1>7, <1>8, <1>9, <1>10, <1>11, <1>12
     DEF Next, Serve

\* The lock excludes: while a request is inside its transaction no other commits,
\* so message_seq stands still and its seq stays the next one.
LEMMA LockStep ==
  ASSUME IInv, TypeOK', [Next]_vars
  PROVE  LockInv'
<1> USE ConstantsAssumption
    DEF IInv, TypeOK, Bookkeeping, LockInv, InTransaction, InFlight, Goto, rows, marks
<1>1. ASSUME NEW r \in Requests, NEW n \in Nonces, ReceiveSend(r, n) PROVE LockInv'
  BY <1>1 DEF ReceiveSend
<1>2. ASSUME NEW r \in Requests, NEW u \in Users, ReceiveRead(r, u) PROVE LockInv'
  BY <1>2 DEF ReceiveRead
<1>3. ASSUME NEW r \in Requests, FindExisting(r) PROVE LockInv'
  BY <1>3 DEF FindExisting, LookUpNonce
<1>4. ASSUME NEW r \in Requests, BeginTransaction(r) PROVE LockInv'
  BY <1>4 DEF BeginTransaction
<1>5. ASSUME NEW r \in Requests, IncrementSeq(r) PROVE LockInv'
  BY <1>5 DEF IncrementSeq
<1>6. ASSUME NEW r \in Requests, InsertMessage(r) PROVE LockInv'
  BY <1>6 DEF InsertMessage
<1>7. ASSUME NEW r \in Requests, Commit(r) PROVE LockInv'
  BY <1>7 DEF Commit
<1>8. ASSUME NEW r \in Requests, AnswerSend(r) PROVE LockInv'
  BY <1>8 DEF AnswerSend
<1>9. ASSUME NEW r \in Requests, FindRaced(r) PROVE LockInv'
  BY <1>9 DEF FindRaced, LookUpNonce
<1>10. ASSUME NEW r \in Requests, WriteReadMark(r) PROVE LockInv'
  BY <1>10 DEF WriteReadMark
<1>11. ASSUME NEW r \in Requests, Fail(r) PROVE LockInv'
  BY <1>11 DEF Fail
<1>12. CASE UNCHANGED vars
  BY <1>12 DEF vars
<1> HIDE DEF LockInv, TypeOK
<1> QED
  BY <1>1, <1>2, <1>3, <1>4, <1>5, <1>6, <1>7, <1>8, <1>9, <1>10, <1>11, <1>12
     DEF Next, Serve

\* An insert that met no clash still meets none when it commits, and a row once
\* stored stays: this is where the lock pays for the lookups made without it.
LEMMA InsertStep ==
  ASSUME IInv, TypeOK', [Next]_vars
  PROVE  InsertInv'
<1> USE ConstantsAssumption
    DEF IInv, TypeOK, Bookkeeping, LockInv, InsertInv, WithNonce, InTransaction,
        InFlight, Goto, rows, marks
<1>1. ASSUME NEW r \in Requests, NEW n \in Nonces, ReceiveSend(r, n) PROVE InsertInv'
  BY <1>1 DEF ReceiveSend, RequestInv
<1>2. ASSUME NEW r \in Requests, NEW u \in Users, ReceiveRead(r, u) PROVE InsertInv'
  BY <1>2 DEF ReceiveRead
<1>3. ASSUME NEW r \in Requests, FindExisting(r) PROVE InsertInv'
  BY <1>3 DEF FindExisting, LookUpNonce
<1>4. ASSUME NEW r \in Requests, BeginTransaction(r) PROVE InsertInv'
  BY <1>4 DEF BeginTransaction
<1>5. ASSUME NEW r \in Requests, IncrementSeq(r) PROVE InsertInv'
  BY <1>5 DEF IncrementSeq
<1>6. ASSUME NEW r \in Requests, InsertMessage(r) PROVE InsertInv'
  BY <1>6 DEF InsertMessage, Clashes
<1>7. ASSUME NEW r \in Requests, Commit(r) PROVE InsertInv'
  <2>1. /\ messages' = messages \cup {NewMessage(r)}
        /\ pc' = [pc EXCEPT ![r] = "committed"]
        /\ UNCHANGED <<nonce, taken, answer>>
    BY <1>7 DEF Commit
  <2>2. NewMessage(r).seq = taken[r] /\ NewMessage(r).nonce = nonce[r]
    BY DEF NewMessage
  <2>3. ASSUME NEW q \in Requests, pc'[q] = "commit"
        PROVE  WithNonce(nonce[q])' = {}
    BY <1>7, <2>1, <2>3 DEF Commit
  <2>4. ASSUME NEW q \in Requests, pc'[q] = "committed"
        PROVE  \E m \in messages' : m.seq = taken'[q] /\ m.nonce = nonce'[q]
    BY <2>1, <2>2, <2>4
  <2>5. ASSUME NEW q \in Requests, answer'[q] # 0
        PROVE  \E m \in messages' : m.seq = answer'[q] /\ m.nonce = nonce'[q]
    BY <2>1, <2>5
  <2> QED BY <2>3, <2>4, <2>5
<1>8. ASSUME NEW r \in Requests, AnswerSend(r) PROVE InsertInv'
  BY <1>8 DEF AnswerSend
<1>9. ASSUME NEW r \in Requests, FindRaced(r) PROVE InsertInv'
  BY <1>9 DEF FindRaced, LookUpNonce
<1>10. ASSUME NEW r \in Requests, WriteReadMark(r) PROVE InsertInv'
  BY <1>10 DEF WriteReadMark
<1>11. ASSUME NEW r \in Requests, Fail(r) PROVE InsertInv'
  BY <1>11 DEF Fail
<1>12. CASE UNCHANGED vars
  BY <1>12 DEF vars
<1> HIDE DEF InsertInv, TypeOK
<1> QED
  BY <1>1, <1>2, <1>3, <1>4, <1>5, <1>6, <1>7, <1>8, <1>9, <1>10, <1>11, <1>12
     DEF Next, Serve

\* The row a commit adds has the next seq and a nonce no row has.
LEMMA CommitIsFresh ==
  ASSUME IInv, NEW r \in Requests, Commit(r)
  PROVE  /\ taken[r] = messageSeq + 1
         /\ \A m \in messages : m.nonce # nonce[r] /\ m.seq \in 1..messageSeq
BY DEF IInv, Commit, Goto, Bookkeeping, LockInv, InsertInv, InTransaction, WithNonce,
       SeqContiguous

\* The rows stay numbered without gaps, stored once per nonce, with the newest of
\* them as the preview.
LEMMA RowsInvStep ==
  ASSUME IInv, TypeOK', [Next]_vars
  PROVE  SeqContiguous' /\ NonceStoredOnce' /\ PreviewIsNewest'
<1>1. CASE UNCHANGED rows
  BY <1>1 DEF IInv, rows, SeqContiguous, NonceStoredOnce, PreviewIsNewest
<1>2. ASSUME NEW r \in Requests, Commit(r)
      PROVE  SeqContiguous' /\ NonceStoredOnce' /\ PreviewIsNewest'
  <2>1. /\ messages' = messages \cup {NewMessage(r)}
        /\ messageSeq' = messageSeq + 1
        /\ lastMessage' = messageSeq + 1
        /\ updatedAt' = began[r]
        /\ messageSeq \in Nat
    BY <1>2, CommitIsFresh DEF Commit, IInv, TypeOK
  <2>2. /\ NewMessage(r).seq = messageSeq + 1
        /\ NewMessage(r).nonce = nonce[r]
        /\ NewMessage(r).createdAt = began[r]
    BY <1>2, CommitIsFresh DEF NewMessage
  <2>3. \A m \in messages : m.nonce # nonce[r] /\ m.seq \in 1..messageSeq
    BY <1>2, CommitIsFresh
  <2>4. SeqContiguous'
    <3>1. {m.seq : m \in messages'} = {m.seq : m \in messages} \cup {messageSeq + 1}
      BY <2>1, <2>2
    <3>2. {m.seq : m \in messages'} = 1..messageSeq'
      BY <2>1, <3>1 DEF IInv, SeqContiguous
    <3>3. \A m1, m2 \in messages' : m1.seq = m2.seq => m1 = m2
      BY <2>1, <2>2, <2>3 DEF IInv, SeqContiguous
    <3> QED BY <3>2, <3>3 DEF SeqContiguous
  <2>5. NonceStoredOnce'
    BY <2>1, <2>2, <2>3 DEF IInv, NonceStoredOnce
  <2>6. PreviewIsNewest'
    BY <2>1, <2>2, <2>3 DEF PreviewIsNewest
  <2> QED BY <2>4, <2>5, <2>6
<1> QED BY <1>1, <1>2, RowsStep

\* A clash met under the lock can only be with the request's own nonce, because
\* the seq it was given is one no row has.
LEMMA ClashStep ==
  ASSUME IInv, TypeOK', [Next]_vars
  PROVE  ClashIsDuplicate'
<1> USE DEF IInv, TypeOK, ClashIsDuplicate, WithNonce, Goto, rows, marks
<1>1. ASSUME NEW r \in Requests, InsertMessage(r) PROVE ClashIsDuplicate'
  <2>1. Clashes(r) # {} => WithNonce(nonce[r]) # {}
    BY <1>1 DEF InsertMessage, Clashes, Bookkeeping, LockInv, InTransaction,
                SeqContiguous
  <2> QED BY <1>1, <2>1 DEF InsertMessage
<1>2. ASSUME NEW r \in Requests, Commit(r) PROVE ClashIsDuplicate'
  BY <1>2 DEF Commit
<1>3. ASSUME NEW r \in Requests, NEW n \in Nonces, ReceiveSend(r, n)
      PROVE  ClashIsDuplicate'
  BY <1>3 DEF ReceiveSend
<1>4. ASSUME NEW r \in Requests, NEW u \in Users, ReceiveRead(r, u)
      PROVE  ClashIsDuplicate'
  BY <1>4 DEF ReceiveRead
<1>5. ASSUME NEW r \in Requests,
             \/ FindExisting(r) \/ FindRaced(r) \/ BeginTransaction(r) \/ IncrementSeq(r)
             \/ AnswerSend(r) \/ WriteReadMark(r) \/ Fail(r)
      PROVE  ClashIsDuplicate'
  BY <1>5 DEF FindExisting, FindRaced, LookUpNonce, BeginTransaction, IncrementSeq,
              AnswerSend, WriteReadMark, Fail
<1>6. CASE UNCHANGED vars
  BY <1>6 DEF vars
<1> HIDE DEF ClashIsDuplicate
<1> QED BY <1>1, <1>2, <1>3, <1>4, <1>5, <1>6 DEF Next, Serve

LEMMA Inductive ==
  /\ Init => IInv
  /\ IInv /\ [Next]_vars => IInv'
<1>1. Init => IInv
  BY ConstantsAssumption
     DEF Init, IInv, TypeOK, Bookkeeping, RequestInv, LockInv, InsertInv, InTransaction,
         Sending, SeqContiguous, NonceStoredOnce, PreviewIsNewest, ClashIsDuplicate
<1>2. ASSUME IInv, [Next]_vars PROVE IInv'
  <2>1. TypeOK'
    BY <1>2, TypeStep DEF IInv
  <2> QED
    BY <1>2, <2>1, RequestStep, LockStep, InsertStep, RowsInvStep, ClashStep
       DEF IInv, Bookkeeping
<1> QED BY <1>1, <1>2

LEMMA Invariance == Spec => []IInv
BY Inductive, PTL DEF Spec

------------------------------------------------------------------------------
\* Every row and every request keeps its type, whatever the requests do.
THEOREM TypeCorrect == Spec => []TypeOK
<1>1. IInv => TypeOK BY DEF IInv
<1> QED BY <1>1, Invariance, PTL

\* The seqs of a chat are 1..message_seq for any number of concurrent and failing
\* sends.
THEOREM SeqsAreContiguous == Spec => []SeqContiguous
<1>1. IInv => SeqContiguous BY DEF IInv
<1> QED BY <1>1, Invariance, PTL

\* A message is stored at most once for any number of concurrent submissions.
THEOREM StoredAtMostOnce == Spec => []NonceStoredOnce
<1>1. IInv => NonceStoredOnce BY DEF IInv
<1> QED BY <1>1, Invariance, PTL

\* The chat list's preview is the newest message.
THEOREM PreviewIsCurrent == Spec => []PreviewIsNewest
<1>1. IInv => PreviewIsNewest BY DEF IInv
<1> QED BY <1>1, Invariance, PTL

\* A unique violation is always resolved by looking the nonce up again.
THEOREM ClashIsResolved == Spec => []ClashIsDuplicate
<1>1. IInv => ClashIsDuplicate BY DEF IInv
<1> QED BY <1>1, Invariance, PTL

------------------------------------------------------------------------------
\* The unread counter. Its induction needs the set of messages to be finite.
UnreadInv == IsFiniteSet(messages) /\ UnreadExact

\* Only a commit and a read mark touch what the counter is about.
LEMMA MarksStep ==
  ASSUME [Next]_vars
  PROVE  \/ UNCHANGED <<messageSeq, messages, marks>>
         \/ \E r \in Requests : Commit(r) \/ WriteReadMark(r)
BY DEF Next, Serve, vars, rows, marks, ReceiveSend, ReceiveRead, FindExisting, FindRaced,
       LookUpNonce, BeginTransaction, IncrementSeq, InsertMessage, AnswerSend, Fail

\* A commit adds one message, and one to the counter of everybody but its sender.
LEMMA UnreadCommit ==
  ASSUME IInv, UnreadInv, NEW r \in Requests, Commit(r)
  PROVE  UnreadInv'
<1>1. /\ messages' = messages \cup {NewMessage(r)}
      /\ messageSeq' = messageSeq + 1
      /\ messageSeq \in Nat
      /\ UNCHANGED <<lastReadSeq, readAt>>
      /\ unreadCount' = [u \in Members |->
                           unreadCount[u] + (IF u = actor[r] THEN 0 ELSE 1)]
  BY CommitIsFresh DEF Commit, IInv, TypeOK
<1>2. /\ NewMessage(r).seq = messageSeq + 1
      /\ NewMessage(r).sender = actor[r]
  BY CommitIsFresh DEF NewMessage
<1>3. NewMessage(r) \notin messages
  BY <1>2, CommitIsFresh, <1>1
<1>4. IsFiniteSet(messages')
  BY <1>1, FS_AddElement DEF UnreadInv
<1>5. ASSUME NEW u \in Members
      PROVE  /\ unreadCount'[u] = Cardinality(FromOthersAfter(u, readAt[u])')
             /\ lastReadSeq'[u] <= readAt'[u]
             /\ readAt'[u] <= messageSeq'
  <2>1. /\ readAt[u] \in Nat
        /\ lastReadSeq[u] \in Nat
        /\ unreadCount[u] \in Nat
        /\ unreadCount[u] = Cardinality(FromOthersAfter(u, readAt[u]))
        /\ lastReadSeq[u] <= readAt[u]
        /\ readAt[u] <= messageSeq
    BY DEF UnreadInv, UnreadExact, IInv, TypeOK
  <2>2. IsFiniteSet(FromOthersAfter(u, readAt[u]))
    BY FS_Subset DEF UnreadInv, FromOthersAfter
  <2>3. NewMessage(r) \notin FromOthersAfter(u, readAt[u])
    BY <1>3 DEF FromOthersAfter
  <2>4. CASE u = actor[r]
    <3>1. FromOthersAfter(u, readAt[u])' = FromOthersAfter(u, readAt[u])
      BY <1>1, <1>2, <2>4 DEF FromOthersAfter
    <3> QED BY <1>1, <2>1, <2>4, <3>1
  <2>5. CASE u # actor[r]
    <3>1. FromOthersAfter(u, readAt[u])' =
            FromOthersAfter(u, readAt[u]) \cup {NewMessage(r)}
      BY <1>1, <1>2, <2>1, <2>5 DEF FromOthersAfter
    <3>2. Cardinality(FromOthersAfter(u, readAt[u])') =
            Cardinality(FromOthersAfter(u, readAt[u])) + 1
      BY <2>2, <2>3, <3>1, FS_AddElement
    <3> QED BY <1>1, <2>1, <2>5, <3>2
  <2> QED BY <2>4, <2>5
<1> QED BY <1>4, <1>5 DEF UnreadInv, UnreadExact

\* A read mark zeroes the counter when no message lies beyond message_seq.
LEMMA UnreadWrite ==
  ASSUME IInv, UnreadInv, NEW r \in Requests, WriteReadMark(r)
  PROVE  UnreadInv'
<1>1. /\ messages' = messages
      /\ messageSeq' = messageSeq
      /\ messageSeq \in Nat
      /\ actor[r] \in Members
      /\ taken[r] <= messageSeq
      /\ lastReadSeq' = [lastReadSeq EXCEPT ![actor[r]] = taken[r]]
      /\ unreadCount' = [unreadCount EXCEPT ![actor[r]] = 0]
      /\ readAt' = [readAt EXCEPT ![actor[r]] = messageSeq]
  BY DEF WriteReadMark, Goto, rows, IInv, TypeOK, Bookkeeping, RequestInv
<1>2. ASSUME NEW u \in Members
      PROVE  /\ unreadCount'[u] = Cardinality(FromOthersAfter(u, readAt[u])')
             /\ lastReadSeq'[u] <= readAt'[u]
             /\ readAt'[u] <= messageSeq'
  <2>1. CASE u = actor[r]
    <3>1. FromOthersAfter(u, readAt[u])' = {}
      <4>1. \A m \in messages : m.seq \in 1..messageSeq
        BY DEF IInv, SeqContiguous
      <4>2. readAt'[u] = messageSeq
        BY <1>1, <2>1 DEF IInv, TypeOK
      <4>3. \A m \in messages' : ~ (m.seq > readAt'[u])
        BY <1>1, <4>1, <4>2
      <4> QED BY <4>3 DEF FromOthersAfter
    <3>2. Cardinality(FromOthersAfter(u, readAt[u])') = 0
      BY <3>1, FS_EmptySet
    <3>3. /\ unreadCount'[u] = 0
          /\ lastReadSeq'[u] <= readAt'[u]
          /\ readAt'[u] <= messageSeq'
      BY <1>1, <2>1 DEF IInv, TypeOK
    <3> QED BY <3>2, <3>3
  <2>2. CASE u # actor[r]
    <3>1. FromOthersAfter(u, readAt[u])' = FromOthersAfter(u, readAt[u])
      BY <1>1, <2>2 DEF FromOthersAfter, IInv, TypeOK
    <3> QED BY <1>1, <2>2, <3>1 DEF UnreadInv, UnreadExact, IInv, TypeOK
  <2> QED BY <2>1, <2>2
<1> QED BY <1>1, <1>2 DEF UnreadInv, UnreadExact

\* The unread counter is exact for any interleaving of sends and reads.
THEOREM UnreadIsExact == Spec => []UnreadExact
<1>1. Init => UnreadInv
  <2>1. ASSUME Init, NEW u \in Members
        PROVE  FromOthersAfter(u, readAt[u]) = {}
    BY <2>1 DEF Init, FromOthersAfter
  <2> QED BY <2>1, FS_EmptySet DEF Init, UnreadInv, UnreadExact
<1>2. IInv /\ UnreadInv /\ [Next]_vars => UnreadInv'
  <2>1. ASSUME UnreadInv, UNCHANGED <<messageSeq, messages, marks>> PROVE UnreadInv'
    BY <2>1 DEF UnreadInv, UnreadExact, FromOthersAfter, marks
  <2> QED BY <2>1, MarksStep, UnreadCommit, UnreadWrite
<1>3. UnreadInv => UnreadExact BY DEF UnreadInv
<1> QED BY <1>1, <1>2, <1>3, Invariance, PTL DEF Spec

------------------------------------------------------------------------------
\* The refinement of the exactly-once log.
RowOf(rowSet, i) == CHOOSE m \in rowSet : m.seq = i
NonceSeq(rowSet, n) == [i \in 1..n |-> RowOf(rowSet, i).nonce]

\* Rows numbered 1..n, one each, make a sequence of their nonces.
LEMMA RowsMakeSeq ==
  ASSUME NEW rowSet, NEW n \in Nat,
         rowSet \subseteq Message,
         {m.seq : m \in rowSet} = 1..n,
         \A m1, m2 \in rowSet : m1.seq = m2.seq => m1 = m2
  PROVE  /\ NonceSeq(rowSet, n) \in Seq(Nonces)
         /\ Len(NonceSeq(rowSet, n)) = n
         /\ \A m \in rowSet : m.seq \in 1..n /\ NonceSeq(rowSet, n)[m.seq] = m.nonce
         /\ \A i \in 1..n : \E m \in rowSet : m.seq = i /\ NonceSeq(rowSet, n)[i] = m.nonce
<1>1. \A i \in 1..n : \E m \in rowSet : m.seq = i
  OBVIOUS
<1>2. \A i \in 1..n : RowOf(rowSet, i) \in rowSet /\ RowOf(rowSet, i).seq = i
  BY <1>1 DEF RowOf
<1>3. \A m \in rowSet : RowOf(rowSet, m.seq) = m
  BY <1>2
<1>4. \A i \in 1..n : RowOf(rowSet, i).nonce \in Nonces
  BY <1>2 DEF Message
<1>5. NonceSeq(rowSet, n) \in [1..n -> Nonces]
  BY <1>4 DEF NonceSeq
<1>6. NonceSeq(rowSet, n) \in Seq(Nonces)
  BY <1>5, SeqDef
<1>7. Len(NonceSeq(rowSet, n)) = n
  BY <1>5, <1>6, LenProperties
<1>8. \A m \in rowSet : m.seq \in 1..n /\ NonceSeq(rowSet, n)[m.seq] = m.nonce
  BY <1>3 DEF NonceSeq
<1>9. \A i \in 1..n : \E m \in rowSet : m.seq = i /\ NonceSeq(rowSet, n)[i] = m.nonce
  BY <1>2 DEF NonceSeq
<1> QED BY <1>6, <1>7, <1>8, <1>9

LEMMA StoredLogIsNonceSeq ==
  StoredLog = NonceSeq(messages, messageSeq)
BY DEF StoredLog, NonceSeq, RowOf

LEMMA StoredLogIsSeq ==
  ASSUME TypeOK, SeqContiguous
  PROVE  /\ Len(StoredLog) = messageSeq
         /\ \A m \in messages : m.seq \in 1..messageSeq /\ StoredLog[m.seq] = m.nonce
<1>1. /\ messages \subseteq Message
      /\ messageSeq \in Nat
      /\ {m.seq : m \in messages} = 1..messageSeq
      /\ \A m1, m2 \in messages : m1.seq = m2.seq => m1 = m2
  BY DEF TypeOK, SeqContiguous
<1>2. /\ Len(NonceSeq(messages, messageSeq)) = messageSeq
      /\ \A m \in messages : /\ m.seq \in 1..messageSeq
                             /\ NonceSeq(messages, messageSeq)[m.seq] = m.nonce
  BY <1>1, RowsMakeSeq
<1> QED BY <1>2, StoredLogIsNonceSeq

\* A commit is an Accept of the log.
LEMMA CommitAccepts ==
  ASSUME IInv, IInv', NEW r \in Requests, Commit(r)
  PROVE  Log!Accept(nonce[r]) /\ nonce[r] \in Nonces
<1> DEFINE old == NonceSeq(messages, messageSeq)
           new == NonceSeq(messages', messageSeq')
<1>1. /\ messages' = messages \cup {NewMessage(r)}
      /\ messageSeq' = messageSeq + 1
      /\ messageSeq \in Nat
      /\ UNCHANGED <<nonce, answer>>
  BY CommitIsFresh DEF Commit, IInv, TypeOK
<1>2. /\ NewMessage(r).seq = messageSeq + 1
      /\ NewMessage(r).nonce = nonce[r]
  BY CommitIsFresh DEF NewMessage
<1>3. nonce[r] \in Nonces
  BY DEF Commit, Goto, IInv, Bookkeeping, RequestInv, Sending
<1>4. /\ old \in Seq(Nonces)
      /\ Len(old) = messageSeq
      /\ \A i \in 1..messageSeq : \E m \in messages : m.seq = i /\ old[i] = m.nonce
  <2>1. /\ messages \subseteq Message /\ messageSeq \in Nat
        /\ {m.seq : m \in messages} = 1..messageSeq
        /\ \A m1, m2 \in messages : m1.seq = m2.seq => m1 = m2
    BY DEF IInv, TypeOK, SeqContiguous
  <2> QED
    BY <2>1, RowsMakeSeq
<1>5. /\ new \in Seq(Nonces)
      /\ Len(new) = messageSeq + 1
      /\ \A m \in messages' : new[m.seq] = m.nonce
  <2> DEFINE M == messages'
             n == messageSeq'
  <2>1. /\ messages' \subseteq Message
        /\ messageSeq' \in Nat
        /\ {m.seq : m \in messages'} = 1..messageSeq'
        /\ \A m1, m2 \in messages' : m1.seq = m2.seq => m1 = m2
    BY DEF IInv, TypeOK, SeqContiguous
  <2>2. new = NonceSeq(M, n) /\ n = messageSeq + 1
    BY <1>1
  <2>3. M \subseteq Message /\ n \in Nat /\ {m.seq : m \in M} = 1..n
        /\ \A m1, m2 \in M : m1.seq = m2.seq => m1 = m2
    BY <2>1
  <2> HIDE DEF M, n, new
  <2>4. /\ NonceSeq(M, n) \in Seq(Nonces)
        /\ Len(NonceSeq(M, n)) = n
        /\ \A m \in M : NonceSeq(M, n)[m.seq] = m.nonce
    BY <2>3, RowsMakeSeq
  <2> QED BY <2>2, <2>4 DEF M
<1> HIDE DEF old, new
<1>6. new = Append(old, nonce[r])
  <2>1. /\ Append(old, nonce[r]) \in Seq(Nonces)
        /\ Len(Append(old, nonce[r])) = messageSeq + 1
        /\ \A i \in 1..messageSeq : Append(old, nonce[r])[i] = old[i]
        /\ Append(old, nonce[r])[messageSeq + 1] = nonce[r]
    BY <1>3, <1>4, AppendProperties
  <2>2. \A i \in 1..messageSeq : new[i] = old[i]
    BY <1>1, <1>4, <1>5
  <2>3. new[messageSeq + 1] = nonce[r]
    BY <1>1, <1>2, <1>5
  <2>4. \A i \in 1..Len(new) : new[i] = Append(old, nonce[r])[i]
    BY <1>1, <1>5, <2>1, <2>2, <2>3
  <2> QED BY <1>5, <2>1, <2>4, SeqEqual
<1>7. StoredLog' = Append(StoredLog, nonce[r])
  BY <1>6, StoredLogIsNonceSeq DEF old, new, StoredLog, NonceSeq, RowOf
<1>8. \A i \in 1..Len(StoredLog) : StoredLog[i] # nonce[r]
  BY <1>4, StoredLogIsNonceSeq, CommitIsFresh DEF old
<1>9. Answered' = Answered
  BY <1>1 DEF Answered
<1> QED BY <1>3, <1>7, <1>8, <1>9 DEF Log!Accept, Log!Stored

\* Answering a send is an Answer of the log: the row it names is the sender's own.
LEMMA AnswerIsStored ==
  ASSUME IInv, IInv', UNCHANGED <<messageSeq, messages, nonce>>,
         NEW r \in Requests, NEW s \in Nat \ {0}, answer[r] = 0,
         answer' = [answer EXCEPT ![r] = s]
  PROVE  Log!Next
<1>1. PICK m \in messages : m.seq = s /\ m.nonce = nonce[r]
  <2>1. answer'[r] = s
    BY DEF IInv, TypeOK
  <2>2. answer'[r] # 0 =>
          \E m \in messages' : m.seq = answer'[r] /\ m.nonce = nonce'[r]
    BY DEF IInv, Bookkeeping, InsertInv
  <2> QED BY <2>1, <2>2
<1>2. /\ Len(StoredLog) = messageSeq
      /\ m.seq \in 1..messageSeq
      /\ StoredLog[m.seq] = m.nonce
  BY StoredLogIsSeq DEF IInv
<1>3. Answered' = Answered \cup {<<nonce[r], s>>}
  <2>1. {q \in Requests : answer'[q] # 0} = {q \in Requests : answer[q] # 0} \cup {r}
    BY DEF IInv, TypeOK
  <2>2. \A q \in Requests : answer[q] # 0 => answer'[q] = answer[q]
    BY DEF IInv, TypeOK
  <2>3. answer'[r] = s
    BY DEF IInv, TypeOK
  <2> QED BY <2>1, <2>2, <2>3 DEF Answered
<1>4. StoredLog' = StoredLog
  BY DEF StoredLog
<1>5. nonce[r] \in Nonces
  BY <1>1 DEF IInv, TypeOK, Message
<1>6. Log!Answer(nonce[r], s)
  BY <1>1, <1>2, <1>3, <1>4 DEF Log!Answer
<1> QED BY <1>1, <1>2, <1>5, <1>6 DEF Log!Next

\* The service implements the exactly-once log, for any number of requests.
THEOREM ServiceImplementsLog == Spec => ImplementsLog
<1>1. Init => Log!Init
  <2> SUFFICES ASSUME Init PROVE Log!Init
    OBVIOUS
  <2>1. StoredLog = << >>
    BY DEF Init, StoredLog
  <2>2. Answered = {}
    BY DEF Init, Answered
  <2> QED BY <2>1, <2>2 DEF Log!Init
<1>2. IInv /\ IInv' /\ [Next]_vars => [Log!Next]_(Log!vars)
  <2> SUFFICES ASSUME IInv, IInv', [Next]_vars
               PROVE  Log!Next \/ UNCHANGED Log!vars
    OBVIOUS
  <2> USE DEF Goto, rows, marks
  <2>1. ASSUME UNCHANGED <<messageSeq, messages, nonce, answer>>
        PROVE  UNCHANGED Log!vars
    BY <2>1 DEF Log!vars, StoredLog, Answered
  <2>2. ASSUME NEW r \in Requests, NEW n \in Nonces, ReceiveSend(r, n)
        PROVE  UNCHANGED Log!vars
    <3>1. UNCHANGED <<messageSeq, messages, answer>>
      BY <2>2 DEF ReceiveSend
    <3>2. \A q \in Requests : answer[q] # 0 => nonce'[q] = nonce[q]
      BY <2>2 DEF ReceiveSend, IInv, TypeOK, Bookkeeping, RequestInv
    <3>3. Answered' = Answered
      BY <3>1, <3>2 DEF Answered
    <3> QED BY <3>1, <3>3 DEF Log!vars, StoredLog
  <2>3. ASSUME NEW r \in Requests, Commit(r) PROVE Log!Next
    BY <2>3, CommitAccepts DEF Log!Next
  <2>4. ASSUME NEW r \in Requests, AnswerSend(r) PROVE Log!Next
    <3>1. taken[r] \in Nat \ {0}
      BY <2>4 DEF AnswerSend, IInv, TypeOK, Bookkeeping, InsertInv, Message
    <3>2. answer[r] = 0
      BY <2>4 DEF AnswerSend, IInv, Bookkeeping, RequestInv
    <3> QED BY <2>4, <3>1, <3>2, AnswerIsStored DEF AnswerSend
  <2>5. ASSUME NEW r \in Requests, NEW from \in {"lookup", "recheck"}, NEW to,
               LookUpNonce(r, from, to)
        PROVE  Log!Next \/ UNCHANGED Log!vars
    <3>1. CASE UNCHANGED answer
      BY <2>1, <2>5, <3>1 DEF LookUpNonce
    <3>2. ASSUME NEW m \in WithNonce(nonce[r]), pc[r] = from,
                 answer' = [answer EXCEPT ![r] = m.seq]
          PROVE  Log!Next
      <4>1. answer[r] = 0
        BY <3>2 DEF IInv, Bookkeeping, RequestInv
      <4>2. m.seq \in Nat \ {0}
        BY <3>2 DEF WithNonce, IInv, TypeOK, Message
      <4> QED BY <2>5, <3>2, <4>1, <4>2, AnswerIsStored DEF LookUpNonce
    <3> QED BY <2>5, <3>1, <3>2 DEF LookUpNonce
  <2>6. ASSUME NEW r \in Requests, FindExisting(r) \/ FindRaced(r)
        PROVE  Log!Next \/ UNCHANGED Log!vars
    BY <2>5, <2>6 DEF FindExisting, FindRaced
  <2>7. ASSUME NEW r \in Requests,
               \/ \E u \in Users : ReceiveRead(r, u)
               \/ BeginTransaction(r) \/ IncrementSeq(r) \/ InsertMessage(r)
               \/ WriteReadMark(r) \/ Fail(r)
        PROVE  UNCHANGED Log!vars
    BY <2>1, <2>7 DEF ReceiveRead, BeginTransaction, IncrementSeq, InsertMessage,
                      WriteReadMark, Fail
  <2>8. CASE UNCHANGED vars
    BY <2>1, <2>8 DEF vars
  <2> QED
    BY <2>2, <2>3, <2>4, <2>6, <2>7, <2>8 DEF Next, Serve
<1> QED
  BY <1>1, <1>2, Invariance, PTL DEF Spec, ImplementsLog, Log!Spec
==============================================================================

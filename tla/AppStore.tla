------------------------------ MODULE AppStore ------------------------------
(***************************************************************************)
(* The reducers of AppStore (web/app/store.ts): how the client's state      *)
(* changes by one call.  A state is a record                                *)
(*                                                                         *)
(*   signedIn  currentUser is not null                                     *)
(*   active    activeChatId, or NoChat                                     *)
(*   chats     the unread badge of each listed chat                        *)
(*   feed      the messages of all loaded chats                            *)
(*   pages     the pagination state of each chat that has one              *)
(*                                                                         *)
(* A message that the server has stored is known by its chat and its seq;  *)
(* an optimistic one by its chat and its nonce.  The feed is a set because *)
(* sortMessages and the Map of mergeMessageSummaries leave one item per id, *)
(* in the order of seq, and because the optimistic ones, whose seq is      *)
(* Date.now(), come last.  Texts, names, dates, the preview and the status *)
(* line are left out.                                                      *)
(***************************************************************************)
EXTENDS Integers

CONSTANTS
    Chats,     \* the ids of the user's direct chats
    NoChat     \* null

ASSUME ChatsAssumption == NoChat \notin Chats

Stored(c, n)  == [chat |-> c, id |-> n, pending |-> FALSE]
Pending(c, k) == [chat |-> c, id |-> k, pending |-> TRUE]

Items == [chat : Chats, id : Nat, pending : BOOLEAN]

\* oldest = 0 stands for oldestSeq = null.
PageStates == [hasMore : BOOLEAN, loading : BOOLEAN, oldest : Nat]

IsStore(s) ==
    /\ DOMAIN s = {"signedIn", "active", "chats", "feed", "pages"}
    /\ s.signedIn \in BOOLEAN
    /\ s.active \in Chats \cup {NoChat}
    /\ DOMAIN s.chats \subseteq Chats
    /\ s.chats \in [DOMAIN s.chats -> Nat]
    /\ s.feed \subseteq Items
    /\ DOMAIN s.pages \subseteq Chats
    /\ s.pages \in [DOMAIN s.pages -> PageStates]

Nothing == [c \in {} |-> 0]

InitialState ==
    [signedIn |-> FALSE, active |-> NoChat, chats |-> Nothing, feed |-> {}, pages |-> Nothing]

-----------------------------------------------------------------------------
(* The items and the page state of one chat. *)

OfChat(feed, c) == {i \in feed : i.chat = c}

StoredSeqs(feed, c) == {i.id : i \in {j \in feed : j.chat = c /\ ~j.pending}}

\* An item of the set is below all others, or there is none and the result is 0.
FindOldestPersistedSeq(feed, c) ==
    LET seqs == StoredSeqs(feed, c)
    IN  IF seqs = {} THEN 0 ELSE CHOOSE n \in seqs : \A m \in seqs : n <= m

CreateMessagePaginationState(feed, c, hasMore) ==
    [hasMore |-> hasMore, loading |-> FALSE, oldest |-> FindOldestPersistedSeq(feed, c)]

EmptyPaginationState == [hasMore |-> FALSE, loading |-> FALSE, oldest |-> 0]

PutPage(pages, c, page) == [d \in DOMAIN pages \cup {c} |-> IF d = c THEN page ELSE pages[d]]

-----------------------------------------------------------------------------
(* Navigation and session. *)

SetActiveChat(s, c) == [s EXCEPT !.active = c]

ClearMessages(s) == [s EXCEPT !.feed = {}, !.pages = Nothing]

CloseActiveChat(s) == [ClearMessages(s) EXCEPT !.active = NoChat]

MarkChatReadByOne(s, c) == [s EXCEPT !.chats = [d \in DOMAIN @ |-> IF d = c THEN @[d] - 1 ELSE @[d]]]

MarkChatRead(s, c) == [s EXCEPT !.chats = [d \in DOMAIN @ |-> IF d = c THEN 0 ELSE @[d]]]

SetCurrentUser(s) == [s EXCEPT !.signedIn = TRUE]

ClearSession(s) == InitialState

\* "first" is the first row of the answer, NoChat when there is none.
SetDirectChats(s, directChats, first, preferred, selectFirstIfMissing) ==
    [s EXCEPT !.chats = directChats,
              !.active = IF preferred \in DOMAIN directChats THEN preferred
                         ELSE IF selectFirstIfMissing THEN first ELSE NoChat]

-----------------------------------------------------------------------------
(* Messages. *)

\* Replaces what is loaded of the chat, keeping only its optimistic messages.
SetMessages(s, c, seqs, hasMore) ==
    LET kept == {i \in s.feed : i.chat # c \/ i.pending}
        feed == kept \cup {Stored(c, n) : n \in seqs}
    IN  [s EXCEPT !.feed = feed,
                  !.pages = PutPage(@, c, CreateMessagePaginationState(feed, c, hasMore))]

PrependOlderMessages(s, c, seqs, hasMore) ==
    LET feed == s.feed \cup {Stored(c, n) : n \in seqs}
    IN  [s EXCEPT !.feed = feed,
                  !.pages = PutPage(@, c, CreateMessagePaginationState(feed, c, hasMore))]

SetOlderMessagesLoading(s, c, loading) ==
    LET page == IF c \in DOMAIN s.pages THEN s.pages[c] ELSE EmptyPaginationState
    IN  [s EXCEPT !.pages = PutPage(@, c, [page EXCEPT !.loading = loading])]

\* The badge grows for a message of somebody else in a chat that is not open,
\* whether or not the message was counted before.
UpsertMessageSummary(s, item, isOwn, base) ==
    LET c == item.chat
        shouldKeepInMessageFeed == c = s.active \/ OfChat(base, c) # {}
        isUnread == ~(isOwn /\ s.signedIn) /\ c # s.active
    IN  [s EXCEPT !.feed = IF shouldKeepInMessageFeed THEN base \cup {item} ELSE base,
                  !.chats = [d \in DOMAIN @ |-> IF d = c /\ isUnread THEN @[d] + 1 ELSE @[d]]]

UpsertServerMessage(s, c, n, isOwn) == UpsertMessageSummary(s, Stored(c, n), isOwn, s.feed)

AcknowledgeBeside(s, c, n, nonce) == UpsertMessageSummary(s, Stored(c, n), TRUE, s.feed)

AcknowledgeServerMessage(s, c, n, nonce) ==
    UpsertMessageSummary(s, Stored(c, n), TRUE, s.feed \ {Pending(c, nonce)})

AddLocalMessage(s, nonce) ==
    IF s.active = NoChat THEN s ELSE [s EXCEPT !.feed = @ \cup {Pending(s.active, nonce)}]

=============================================================================

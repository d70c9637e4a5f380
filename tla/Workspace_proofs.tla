-------------------------- MODULE Workspace_proofs --------------------------
(***************************************************************************)
(* The shell over its store, for any chats, logs, page size, number of      *)
(* calls at the same time and number of upsets.                             *)
(*                                                                         *)
(* First types, no pending message without a send, and no loading flag      *)
(* without a request (WInv).  Most steps are composed of reducers, and most *)
(* reducers neither make an item pending nor set a flag: Follows(old, new)  *)
(* says so, and carries the two properties over every step but              *)
(* SubmitMessage, ApplyAck, LoadOlder and OlderAnswered.                    *)
(*                                                                         *)
(* Then what a quiet state shows: the address, the badge and the messages   *)
(* of the open chat.  A quiet state follows from states that are not, so    *)
(* the invariant (Watch) speaks of all: whatever the open chat does not     *)
(* show yet is excused, on its way, or due to be loaded by a running call.  *)
(* Steady carries it over the steps that leave the feed and the calls that  *)
(* matter alone; a step that opens a chat starts a call that covers all     *)
(* (PageUnderWay, ListUnderWay); four steps change the feed, and have a     *)
(* lemma each.                                                              *)
(***************************************************************************)
EXTENDS Workspace, SequenceTheorems, WellFoundedInduction, TLAPS

-----------------------------------------------------------------------------
(* The oldest seq of a feed. *)

\* A set of naturals has a least element, whether or not it is finite.
LEMMA LeastExists ==
  ASSUME NEW T, T \subseteq Nat, T # {}
  PROVE  \E x \in T : \A y \in T : x <= y
<1> DEFINE R == OpToRel(<, Nat)
<1>1. \A x, y \in Nat : <<x, y>> \in R <=> x < y
  BY DEF OpToRel
<1>2. IsWellFoundedOn(R, Nat)
  BY NatLessThanWellFounded, Zenon DEF OpToRel
<1> HIDE DEF R
<1>3. PICK x \in T : \A y \in T : ~(<<y, x>> \in R)
  BY <1>2, WFMin
<1>4. ASSUME NEW y \in T PROVE x <= y
  <2>1. x \in Nat /\ y \in Nat
    OBVIOUS
  <2>2. ~(y < x)
    BY <1>1, <1>3, <2>1
  <2> QED
    BY <2>1, <2>2
<1> QED
  BY <1>4

LEMMA OldestIsNat ==
  ASSUME NEW feed, feed \subseteq Items, NEW c
  PROVE  FindOldestPersistedSeq(feed, c) \in Nat
<1> DEFINE T == StoredSeqs(feed, c)
<1>1. T \subseteq Nat
  BY DEF StoredSeqs, Items
<1> HIDE DEF T
<1>2. CASE T = {}
  BY <1>2 DEF FindOldestPersistedSeq, T
<1>3. CASE T # {}
  <2>1. \E x \in T : \A y \in T : x <= y
    BY <1>1, <1>3, LeastExists
  <2>2. (CHOOSE n \in T : \A m \in T : n <= m) \in T
    BY <2>1
  <2> QED
    BY <1>1, <1>3, <2>2 DEF FindOldestPersistedSeq, T
<1> QED
  BY <1>2, <1>3

-----------------------------------------------------------------------------
(* The store as a set of records. *)

Badges == UNION {[listed -> Nat] : listed \in SUBSET Chats}
Pages == UNION {[loaded -> PageStates] : loaded \in SUBSET Chats}

Stores == [signedIn : BOOLEAN, active : ChatOrNone, chats : Badges, feed : SUBSET Items,
           pages : Pages]

LEMMA BadgesType ==
  /\ \A b \in Badges : DOMAIN b \subseteq Chats /\ b \in [DOMAIN b -> Nat]
  /\ \A D \in SUBSET Chats : \A b \in [D -> Nat] : b \in Badges
BY DEF Badges

LEMMA PagesType ==
  /\ \A p \in Pages : DOMAIN p \subseteq Chats /\ p \in [DOMAIN p -> PageStates]
  /\ \A D \in SUBSET Chats : \A p \in [D -> PageStates] : p \in Pages
BY DEF Pages

LEMMA NothingType == Nothing \in Badges /\ Nothing \in Pages
<1>1. Nothing \in [{} -> Nat] /\ Nothing \in [{} -> PageStates] /\ {} \in SUBSET Chats
  BY DEF Nothing
<1> QED
  BY <1>1, BadgesType, PagesType

\* What no reducer but two does: a page begins to load, or an item becomes pending.
Calm(old, new) ==
  /\ \A c \in DOMAIN new.pages : new.pages[c].loading => c \in DOMAIN old.pages /\ old.pages[c].loading
  /\ \A i \in new.feed : i.pending => i \in old.feed

Follows(old, new) == new \in Stores /\ Calm(old, new)

\* A page that does not load.
Loaded(s, c) == s.pages[c].loading = FALSE

LEMMA FollowsItself ==
  ASSUME NEW s \in Stores
  PROVE  Follows(s, s)
BY DEF Follows, Calm

LEMMA FollowsOn ==
  ASSUME NEW r, NEW s, NEW u, Follows(r, s), Follows(s, u)
  PROVE  Follows(r, u)
BY DEF Follows, Calm

LEMMA SetActiveChatFollows ==
  ASSUME NEW s \in Stores, NEW c \in ChatOrNone
  PROVE  Follows(s, SetActiveChat(s, c)) /\ SetActiveChat(s, c).chats = s.chats
BY DEF Follows, Calm, Stores, SetActiveChat

LEMMA SetCurrentUserFollows ==
  ASSUME NEW s \in Stores
  PROVE  Follows(s, SetCurrentUser(s))
BY DEF Follows, Calm, Stores, SetCurrentUser

LEMMA ClearMessagesFollows ==
  ASSUME NEW s \in Stores
  PROVE  Follows(s, ClearMessages(s))
<1>1. ClearMessages(s) \in Stores /\ ClearMessages(s).feed = {} /\ ClearMessages(s).pages = Nothing
  BY NothingType DEF Stores, ClearMessages
<1>2. DOMAIN Nothing = {}
  BY DEF Nothing
<1> QED
  BY <1>1, <1>2 DEF Follows, Calm

LEMMA CloseActiveChatFollows ==
  ASSUME NEW s \in Stores
  PROVE  Follows(s, CloseActiveChat(s))
<1>1. Follows(s, ClearMessages(s))
  BY ClearMessagesFollows
<1> DEFINE t == ClearMessages(s)
<1>2. CloseActiveChat(s) = SetActiveChat(t, NoChat)
  BY DEF CloseActiveChat, SetActiveChat
<1> HIDE DEF t
<1>3. Follows(t, SetActiveChat(t, NoChat))
  BY <1>1, SetActiveChatFollows DEF Follows, ChatOrNone, t
<1> QED
  BY <1>1, <1>2, <1>3, FollowsOn DEF t

LEMMA ClearSessionFollows ==
  ASSUME NEW s \in Stores
  PROVE  Follows(s, ClearSession(s))
<1>1. InitialState \in Stores /\ InitialState.feed = {} /\ InitialState.pages = Nothing
  BY NothingType DEF Stores, InitialState, ChatOrNone
<1>2. DOMAIN Nothing = {}
  BY DEF Nothing
<1> QED
  BY <1>1, <1>2 DEF Follows, Calm, ClearSession

LEMMA MarkChatReadFollows ==
  ASSUME NEW s \in Stores, NEW c
  PROVE  Follows(s, MarkChatRead(s, c))
<1> DEFINE b == [d \in DOMAIN s.chats |-> IF d = c THEN 0 ELSE s.chats[d]]
<1>1. s.chats \in Badges
  BY DEF Stores
<1>2. b \in Badges
  <2>1. DOMAIN s.chats \in SUBSET Chats /\ b \in [DOMAIN s.chats -> Nat]
    BY <1>1, BadgesType
  <2> QED
    BY <2>1, BadgesType
<1>3. MarkChatRead(s, c) = [s EXCEPT !.chats = b]
  BY DEF MarkChatRead
<1> HIDE DEF b
<1> QED
  BY <1>2, <1>3 DEF Follows, Calm, Stores

LEMMA SetDirectChatsFollows ==
  ASSUME NEW s \in Stores, NEW chats \in Badges,
         NEW first \in ChatOrNone, NEW preferred, NEW select \in BOOLEAN
  PROVE  Follows(s, SetDirectChats(s, chats, first, preferred, select))
<1> DEFINE a == IF preferred \in DOMAIN chats THEN preferred
                ELSE IF select THEN first ELSE NoChat
<1>1. a \in ChatOrNone
  BY BadgesType DEF ChatOrNone
<1>2. SetDirectChats(s, chats, first, preferred, select) = [s EXCEPT !.chats = chats, !.active = a]
  BY DEF SetDirectChats
<1> HIDE DEF a
<1> QED
  BY <1>1, <1>2 DEF Follows, Calm, Stores

LEMMA PutPageType ==
  ASSUME NEW pages \in Pages, NEW c \in Chats, NEW page \in PageStates
  PROVE  /\ PutPage(pages, c, page) \in Pages
         /\ DOMAIN PutPage(pages, c, page) = DOMAIN pages \cup {c}
         /\ PutPage(pages, c, page)[c] = page
         /\ \A d \in DOMAIN pages : d # c => PutPage(pages, c, page)[d] = pages[d]
<1> DEFINE p == PutPage(pages, c, page)
<1>1. DOMAIN pages \subseteq Chats /\ pages \in [DOMAIN pages -> PageStates]
  BY PagesType
<1>2. p \in [DOMAIN pages \cup {c} -> PageStates] /\ DOMAIN pages \cup {c} \in SUBSET Chats
  BY <1>1 DEF PutPage
<1>3. p \in Pages
  BY <1>2, PagesType
<1> QED
  BY <1>1, <1>3 DEF PutPage

LEMMA CreatedPageType ==
  ASSUME NEW feed, feed \subseteq Items, NEW c, NEW hasMore \in BOOLEAN
  PROVE  /\ CreateMessagePaginationState(feed, c, hasMore) \in PageStates
         /\ CreateMessagePaginationState(feed, c, hasMore).loading = FALSE
BY OldestIsNat DEF CreateMessagePaginationState, PageStates

LEMMA StoredType ==
  ASSUME NEW c \in Chats, NEW n \in Nat
  PROVE  Stored(c, n) \in Items /\ Stored(c, n).pending = FALSE
BY DEF Stored, Items

\* SetMessages and PrependOlderMessages differ in the feed they end with.
LEMMA LoadedFollows ==
  ASSUME NEW s \in Stores, NEW c \in Chats, NEW hasMore \in BOOLEAN,
         NEW seqs \in SUBSET Nat, NEW kept, kept \subseteq s.feed, NEW feed,
         feed = kept \cup {Stored(c, n) : n \in seqs},
         NEW new,
         new = [s EXCEPT !.feed = feed,
                         !.pages = PutPage(@, c, CreateMessagePaginationState(feed, c, hasMore))]
  PROVE  Follows(s, new) /\ Loaded(new, c)
<1>1. s.pages \in Pages /\ s.feed \subseteq Items
  BY DEF Stores
<1>2. feed \subseteq Items /\ \A i \in feed : i.pending => i \in s.feed
  BY <1>1, StoredType
<1> DEFINE page == CreateMessagePaginationState(feed, c, hasMore)
           put == PutPage(s.pages, c, page)
<1>3. page \in PageStates /\ page.loading = FALSE
  BY <1>2, CreatedPageType
<1> HIDE DEF page
<1>4. /\ put \in Pages /\ DOMAIN put = DOMAIN s.pages \cup {c} /\ put[c] = page
      /\ \A d \in DOMAIN s.pages : d # c => put[d] = s.pages[d]
  <2> DEFINE pages == s.pages
  <2>1. pages \in Pages /\ put = PutPage(pages, c, page)
    BY <1>1
  <2> HIDE DEF pages, put
  <2>2. /\ PutPage(pages, c, page) \in Pages
        /\ DOMAIN PutPage(pages, c, page) = DOMAIN pages \cup {c}
        /\ PutPage(pages, c, page)[c] = page
        /\ \A d \in DOMAIN pages : d # c => PutPage(pages, c, page)[d] = pages[d]
    BY <1>3, <2>1, PutPageType
  <2> QED
    BY <2>1, <2>2 DEF pages
<1>5. new = [s EXCEPT !.feed = feed, !.pages = put]
  BY DEF page
<1> HIDE DEF put
<1>6. new \in Stores /\ new.feed = feed /\ new.pages = put
  BY <1>2, <1>4, <1>5 DEF Stores
<1> QED
  BY <1>2, <1>3, <1>4, <1>6 DEF Follows, Calm, Loaded

LEMMA SetMessagesFollows ==
  ASSUME NEW s \in Stores, NEW c \in Chats, NEW seqs \in SUBSET Nat, NEW hasMore \in BOOLEAN
  PROVE  Follows(s, SetMessages(s, c, seqs, hasMore))
<1> DEFINE kept == {i \in s.feed : i.chat # c \/ i.pending}
           feed == kept \cup {Stored(c, n) : n \in seqs}
           new == SetMessages(s, c, seqs, hasMore)
<1>1. new = [s EXCEPT !.feed = feed,
                      !.pages = PutPage(@, c, CreateMessagePaginationState(feed, c, hasMore))]
  BY DEF SetMessages
<1>2. kept \subseteq s.feed /\ feed = kept \cup {Stored(c, n) : n \in seqs}
  OBVIOUS
<1> HIDE DEF kept, feed, new
<1>3. Follows(s, new)
  BY <1>1, <1>2, LoadedFollows
<1> QED
  BY <1>3 DEF new

LEMMA PrependOlderMessagesFollows ==
  ASSUME NEW s \in Stores, NEW c \in Chats, NEW seqs \in SUBSET Nat, NEW hasMore \in BOOLEAN
  PROVE  /\ Follows(s, PrependOlderMessages(s, c, seqs, hasMore))
         /\ Loaded(PrependOlderMessages(s, c, seqs, hasMore), c)
<1> DEFINE kept == s.feed
           feed == kept \cup {Stored(c, n) : n \in seqs}
           new == PrependOlderMessages(s, c, seqs, hasMore)
<1>1. new = [s EXCEPT !.feed = feed,
                      !.pages = PutPage(@, c, CreateMessagePaginationState(feed, c, hasMore))]
  BY DEF PrependOlderMessages
<1>2. kept \subseteq s.feed /\ feed = kept \cup {Stored(c, n) : n \in seqs}
  OBVIOUS
<1> HIDE DEF kept, feed, new
<1>3. Follows(s, new) /\ Loaded(new, c)
  BY <1>1, <1>2, LoadedFollows
<1> QED
  BY <1>3 DEF new

LEMMA SetOlderMessagesLoadingType ==
  ASSUME NEW s \in Stores, NEW c \in Chats, NEW loading \in BOOLEAN
  PROVE  LET new == SetOlderMessagesLoading(s, c, loading)
         IN  /\ new \in Stores /\ new.feed = s.feed /\ new.active = s.active /\ new.chats = s.chats
             /\ DOMAIN new.pages = DOMAIN s.pages \cup {c}
             /\ new.pages[c].loading = loading
             /\ \A d \in DOMAIN s.pages : d # c => new.pages[d] = s.pages[d]
<1> DEFINE old == IF c \in DOMAIN s.pages THEN s.pages[c] ELSE EmptyPaginationState
           page == [old EXCEPT !.loading = loading]
           put == PutPage(s.pages, c, page)
           new == SetOlderMessagesLoading(s, c, loading)
<1>1. s.pages \in Pages
  BY DEF Stores
<1>2. old \in PageStates
  BY <1>1, PagesType DEF EmptyPaginationState, PageStates
<1>3. new = [s EXCEPT !.pages = put]
  BY DEF SetOlderMessagesLoading
<1> HIDE DEF old
<1>4. page \in PageStates /\ page.loading = loading
  BY <1>2 DEF PageStates
<1> HIDE DEF page
<1>5. /\ put \in Pages /\ DOMAIN put = DOMAIN s.pages \cup {c} /\ put[c] = page
      /\ \A d \in DOMAIN s.pages : d # c => put[d] = s.pages[d]
  <2> DEFINE pages == s.pages
  <2>1. pages \in Pages /\ put = PutPage(pages, c, page)
    BY <1>1
  <2> HIDE DEF pages, put
  <2>2. /\ PutPage(pages, c, page) \in Pages
        /\ DOMAIN PutPage(pages, c, page) = DOMAIN pages \cup {c}
        /\ PutPage(pages, c, page)[c] = page
        /\ \A d \in DOMAIN pages : d # c => PutPage(pages, c, page)[d] = pages[d]
    BY <1>4, <2>1, PutPageType
  <2> QED
    BY <2>1, <2>2 DEF pages
<1> HIDE DEF put, new
<1>6. new \in Stores /\ new.feed = s.feed /\ new.pages = put /\ new.active = s.active
      /\ new.chats = s.chats
  BY <1>3, <1>5 DEF Stores
<1>7. /\ new \in Stores /\ new.feed = s.feed /\ new.active = s.active /\ new.chats = s.chats
      /\ DOMAIN new.pages = DOMAIN s.pages \cup {c}
      /\ new.pages[c].loading = loading
      /\ \A d \in DOMAIN s.pages : d # c => new.pages[d] = s.pages[d]
  BY <1>4, <1>5, <1>6
<1> QED
  BY <1>7 DEF new

LEMMA UpsertFollows ==
  ASSUME NEW s \in Stores, NEW c \in Chats, NEW n \in Nat, NEW isOwn \in BOOLEAN,
         NEW base, base \subseteq s.feed
  PROVE  LET new == UpsertMessageSummary(s, Stored(c, n), isOwn, base)
         IN  /\ Follows(s, new)
             /\ \A i \in new.feed : i.pending => i \in base
<1> DEFINE item == Stored(c, n)
           isUnread == ~(isOwn /\ s.signedIn) /\ c # s.active
           feed == IF c = s.active \/ OfChat(base, c) # {} THEN base \cup {item} ELSE base
           chats == [d \in DOMAIN s.chats |-> IF d = c /\ isUnread THEN s.chats[d] + 1
                                              ELSE s.chats[d]]
           new == UpsertMessageSummary(s, item, isOwn, base)
<1>1. s.chats \in Badges /\ s.feed \subseteq Items
  BY DEF Stores
<1>2. item \in Items /\ item.pending = FALSE /\ item.chat = c
  BY StoredType DEF Stored
<1>3. new = [s EXCEPT !.feed = feed, !.chats = chats]
  BY <1>2 DEF UpsertMessageSummary
<1> HIDE DEF item
<1>4. feed \subseteq Items /\ \A i \in feed : i.pending => i \in base
  BY <1>1, <1>2
<1>5. chats \in Badges
  <2>1. DOMAIN s.chats \in SUBSET Chats /\ s.chats \in [DOMAIN s.chats -> Nat]
    BY <1>1, BadgesType
  <2> HIDE DEF isUnread
  <2>2. chats \in [DOMAIN s.chats -> Nat]
    BY <2>1
  <2> QED
    BY <2>1, <2>2, BadgesType
<1> HIDE DEF feed, chats, new
<1>6. new \in Stores /\ new.feed = feed /\ new.pages = s.pages
  BY <1>3, <1>4, <1>5 DEF Stores
<1>7. Follows(s, new) /\ \A i \in new.feed : i.pending => i \in base
  BY <1>4, <1>6 DEF Follows, Calm
<1> QED
  BY <1>7 DEF new, item

LEMMA UpsertServerMessageFollows ==
  ASSUME NEW s \in Stores, NEW c \in Chats, NEW n \in Nat, NEW own \in BOOLEAN
  PROVE  Follows(s, UpsertServerMessage(s, c, n, own))
BY UpsertFollows DEF UpsertServerMessage

LEMMA AcknowledgeServerMessageFollows ==
  ASSUME NEW s \in Stores, NEW c \in Chats, NEW n \in Nat, NEW k
  PROVE  LET new == AcknowledgeServerMessage(s, c, n, k)
         IN  /\ Follows(s, new)
             /\ \A i \in new.feed : i.pending => i # Pending(c, k)
<1> DEFINE base == s.feed \ {Pending(c, k)}
<1>1. base \subseteq s.feed /\ Pending(c, k) \notin base
  OBVIOUS
<1> HIDE DEF base
<1>2. LET new == UpsertMessageSummary(s, Stored(c, n), TRUE, base)
      IN  Follows(s, new) /\ \A i \in new.feed : i.pending => i \in base
  BY <1>1, UpsertFollows
<1> QED
  BY <1>1, <1>2 DEF AcknowledgeServerMessage, base

LEMMA AddLocalMessageType ==
  ASSUME NEW s \in Stores, s.active \in Chats, NEW k \in Nat
  PROVE  LET new == AddLocalMessage(s, k)
         IN  /\ new \in Stores /\ new.pages = s.pages
             /\ new.feed = s.feed \cup {Pending(s.active, k)}
<1>1. Pending(s.active, k) \in Items
  BY DEF Pending, Items
<1>2. s.active # NoChat
  BY ChatsAssumption
<1>3. AddLocalMessage(s, k) = [s EXCEPT !.feed = @ \cup {Pending(s.active, k)}]
  BY <1>2 DEF AddLocalMessage
<1> QED
  BY <1>1, <1>3 DEF Stores

-----------------------------------------------------------------------------
(* The calls. *)

Quick == {NoAnswer, Failed, Unauthorized}
PageAnswers == [tag : {"page"}, seqs : SUBSET Nat, hasMore : BOOLEAN]
ListAnswers == [tag : {"list"}, chats : Badges, first : ChatOrNone]

PCs == {"idle", "me", "login", "logout", "create", "list", "page", "older", "read"}
Origins == {"none", "me", "login", "reopen", "created", "create"}

Calls == [pc : PCs, origin : Origins, chat : ChatOrNone, keep : BOOLEAN, linked : ChatOrNone,
          before : Nat, answer : Quick \cup {Done} \cup PageAnswers \cup ListAnswers]

\* A call of a chat has one, and an answer is of the kind that was asked for.
GoodCall(task) ==
  /\ task \in Calls
  /\ task.pc \in {"create", "page", "older", "read"} => task.chat \in Chats
  /\ task.pc = "list" => task.answer \in Quick \cup ListAnswers
  /\ task.pc \in {"page", "older"} => task.answer \in Quick \cup PageAnswers
  /\ task.pc = "read" => task.answer \in Quick \cup {Done}

LEMMA TaskIsGood ==
  ASSUME NEW pc \in PCs, NEW origin \in Origins, NEW chat \in ChatOrNone, NEW keep \in BOOLEAN,
         NEW linked \in ChatOrNone, NEW before \in Nat,
         pc \in {"create", "page", "older", "read"} => chat \in Chats
  PROVE  /\ GoodCall(Task(pc, origin, chat, keep, linked, before))
         /\ Task(pc, origin, chat, keep, linked, before).pc = pc
         /\ Task(pc, origin, chat, keep, linked, before).chat = chat
<1> DEFINE task == Task(pc, origin, chat, keep, linked, before)
<1>1. NoAnswer \in Quick
  BY DEF Quick
<1> HIDE DEF task
<1>2. task = [pc |-> pc, origin |-> origin, chat |-> chat, keep |-> keep, linked |-> linked,
              before |-> before, answer |-> NoAnswer]
  BY DEF task, Task
<1>3. task \in Calls
  BY <1>1, <1>2 DEF Calls
<1>4. GoodCall(task) /\ task.pc = pc /\ task.chat = chat
  BY <1>1, <1>2, <1>3 DEF GoodCall
<1> QED
  BY <1>4 DEF task

LEMMA SimpleIsGood ==
  ASSUME NEW pc \in PCs, NEW chat \in ChatOrNone,
         pc \in {"create", "page", "older", "read"} => chat \in Chats
  PROVE  /\ GoodCall(Simple(pc, chat))
         /\ Simple(pc, chat).pc = pc
<1> DEFINE keep == FALSE
<1>1. "none" \in Origins /\ NoChat \in ChatOrNone /\ 0 \in Nat /\ keep \in BOOLEAN
  BY DEF Origins, ChatOrNone
<1> HIDE DEF keep
<1>2. /\ GoodCall(Task(pc, "none", chat, keep, NoChat, 0))
      /\ Task(pc, "none", chat, keep, NoChat, 0).pc = pc
  BY <1>1, TaskIsGood
<1> QED
  BY <1>2 DEF Simple, keep

LEMMA IdleIsGood == GoodCall(Idle) /\ Idle.pc = "idle"
BY SimpleIsGood DEF Idle, PCs, ChatOrNone

LEMMA LoadIsGood ==
  ASSUME NEW origin \in Origins, NEW preferred \in ChatOrNone \cup {"undefined"},
         NEW keep \in BOOLEAN, NEW s \in Stores, NEW hash \in ChatOrNone
  PROVE  GoodCall(LoadChatWorkspace(origin, preferred, keep, s, hash))
<1> DEFINE OrElse(a, b) == IF a = NoChat THEN b ELSE a
           given == IF preferred = "undefined" THEN NoChat ELSE preferred
           chat == IF keep THEN NoChat ELSE OrElse(given, OrElse(hash, s.active))
           linked == IF preferred = "undefined" /\ ~keep THEN hash ELSE NoChat
<1>1. LoadChatWorkspace(origin, preferred, keep, s, hash) = Task("list", origin, chat, keep, linked, 0)
  BY DEF LoadChatWorkspace
<1>2. s.active \in ChatOrNone /\ NoChat \in ChatOrNone
  BY DEF Stores, ChatOrNone
<1>3. given \in ChatOrNone
  BY <1>2
<1>4. chat \in ChatOrNone
  <2> HIDE DEF given
  <2> QED
    BY <1>2, <1>3
<1>5. linked \in ChatOrNone
  BY <1>2
<1> HIDE DEF chat, linked
<1>6. GoodCall(Task("list", origin, chat, keep, linked, 0))
  BY <1>4, <1>5, TaskIsGood DEF PCs
<1> QED
  BY <1>1, <1>6

\* What an answer that arrived says of its kind.
Arrived(task) == task.answer.tag \notin {"none", "failed", "unauthorized"}

LEMMA ArrivedIsNotQuick ==
  ASSUME NEW task, Arrived(task)
  PROVE  task.answer \notin Quick
BY DEF Arrived, Quick, NoAnswer, Failed, Unauthorized

LEMMA ListArrived ==
  ASSUME NEW task, GoodCall(task), Arrived(task), task.pc = "list"
  PROVE  task.answer.chats \in Badges /\ task.answer.first \in ChatOrNone
<1>1. task.answer \in ListAnswers
  BY ArrivedIsNotQuick DEF GoodCall
<1> QED
  BY <1>1 DEF ListAnswers

LEMMA PageArrived ==
  ASSUME NEW task, GoodCall(task), Arrived(task), task.pc \in {"page", "older"}
  PROVE  task.answer.seqs \in SUBSET Nat /\ task.answer.hasMore \in BOOLEAN
<1>1. task.answer \in PageAnswers
  BY ArrivedIsNotQuick DEF GoodCall
<1> QED
  BY <1>1 DEF PageAnswers

LEMMA AnsweredIsGood ==
  ASSUME NEW task, GoodCall(task), NEW answer,
         \/ answer \in Quick
         \/ answer = Done /\ task.pc \in {"me", "login", "logout", "create", "read"}
         \/ answer \in ListAnswers /\ task.pc = "list"
         \/ answer \in PageAnswers /\ task.pc \in {"page", "older"}
  PROVE  LET new == [task EXCEPT !.answer = answer]
         IN  GoodCall(new) /\ new.pc = task.pc /\ new.chat = task.chat
<1> DEFINE new == [task EXCEPT !.answer = answer]
<1>1. task \in Calls
  BY DEF GoodCall
<1>2. new \in Calls /\ new.pc = task.pc /\ new.chat = task.chat /\ new.answer = answer
  BY <1>1 DEF Calls
<1> HIDE DEF new
<1>3. GoodCall(new)
  BY <1>2 DEF GoodCall
<1> QED
  BY <1>2, <1>3 DEF new

CallsAreGood == tasks \in [Tasks -> Calls] /\ \A t \in Tasks : GoodCall(tasks[t])

\* Calls for older messages stay as they are.
OlderStay ==
  \A t \in Tasks : tasks[t].pc = "older" => tasks'[t].pc = "older" /\ tasks'[t].chat = tasks[t].chat

LEMMA GoneTo ==
  ASSUME CallsAreGood, NEW t \in Tasks, NEW task, GoodCall(task), Goto(t, task)
  PROVE  /\ CallsAreGood'
         /\ \A u \in Tasks : u # t => tasks'[u] = tasks[u]
         /\ tasks'[t] = task
<1>1. task \in Calls
  BY DEF GoodCall
<1>2. tasks' \in [Tasks -> Calls] /\ \A u \in Tasks : tasks'[u] = IF u = t THEN task ELSE tasks[u]
  BY <1>1 DEF Goto, CallsAreGood
<1>3. \A u \in Tasks : GoodCall(tasks'[u])
  BY <1>2 DEF CallsAreGood
<1> QED
  BY <1>2, <1>3 DEF CallsAreGood

LEMMA GoneOn ==
  ASSUME CallsAreGood, NEW t \in Tasks, tasks[t].pc # "older",
         NEW task, GoodCall(task), Goto(t, task)
  PROVE  CallsAreGood' /\ OlderStay
BY GoneTo DEF OlderStay

LEMMA Answered ==
  ASSUME CallsAreGood, NEW t \in Tasks, NEW answer, Answer(t, answer),
         \/ answer \in Quick
         \/ answer = Done /\ tasks[t].pc \in {"me", "login", "logout", "create", "read"}
         \/ answer \in ListAnswers /\ tasks[t].pc = "list"
         \/ answer \in PageAnswers /\ tasks[t].pc \in {"page", "older"}
  PROVE  CallsAreGood' /\ OlderStay
<1> DEFINE old == tasks[t]
           new == [old EXCEPT !.answer = answer]
<1>1. GoodCall(old)
  BY DEF CallsAreGood
<1>2. Goto(t, new)
  BY DEF Answer, Goto
<1>3. GoodCall(new) /\ new.pc = old.pc /\ new.chat = old.chat
  <2> HIDE DEF new
  <2>1. LET n == [old EXCEPT !.answer = answer]
        IN  GoodCall(n) /\ n.pc = old.pc /\ n.chat = old.chat
    <3> HIDE DEF old
    <3> QED
      BY <1>1, AnsweredIsGood DEF old
  <2> QED
    BY <2>1 DEF new
<1> HIDE DEF new
<1>4. CallsAreGood' /\ tasks'[t] = new /\ \A u \in Tasks : u # t => tasks'[u] = tasks[u]
  BY <1>2, <1>3, GoneTo
<1> QED
  BY <1>3, <1>4 DEF OlderStay
-----------------------------------------------------------------------------
(* The invariant. *)

ServerTypes ==
  /\ log \in [Chats -> Seq(0 .. MaxUpsets)]
  /\ serverChats \subseteq Chats
  /\ newest \in ChatOrNone
  /\ unread \in [Chats -> Nat]
  /\ session \in BOOLEAN

LinkTypes ==
  /\ conn \in {"off", "open", "attached"}
  /\ wanted \in BOOLEAN
  /\ events \subseteq Messages
  /\ excused \subseteq Messages

ShellTypes ==
  /\ store \in Stores
  /\ mobilePane \in {"chats", "chat"}
  /\ route \in ChatOrNone
  /\ strayed \in BOOLEAN

\* Every send costs one of what is bounded.
Bounded ==
  /\ upsets \in 0 .. MaxUpsets
  /\ sentTo \in Seq(Chats)
  /\ Len(sentTo) <= upsets

\* The sends that no connection carries, and none has carried.
Uncarried == queued \cup lost

\* What travels has been sent, what is acknowledged is in its log, and what no
\* connection has carried is not.
SendsAreKnown ==
  /\ wire \subseteq 1 .. Len(sentTo) /\ late \subseteq 1 .. Len(sentTo)
  /\ queued \subseteq 1 .. Len(sentTo) /\ unacked \subseteq 1 .. Len(sentTo)
  /\ lost \subseteq 1 .. Len(sentTo) /\ acks \subseteq 1 .. Len(sentTo)
  /\ \A c \in Chats : \A n \in 1 .. Len(log[c]) : log[c][n] \in 0 .. Len(sentTo)
  /\ \A k \in acks : IsLogged(k)
  /\ \A k \in Uncarried : ~IsLogged(k) /\ k \notin wire \cup late \cup unacked
  /\ conn # "off" => queued = {}
  /\ \A k \in lost : k \notin queued

\* A pending item is the copy of a send that the connection still keeps, or that was lost
\* before any connection carried it.
Submitted == queued \cup unacked \cup lost

PendingIsKept ==
  \A i \in store.feed : i.pending =>
    /\ i.id \in 1 .. Len(sentTo)
    /\ i = Pending(sentTo[i.id], i.id)
    /\ i.id \in Submitted

WInv ==
  /\ ServerTypes
  /\ LinkTypes
  /\ ShellTypes
  /\ Bounded
  /\ SendsAreKnown
  /\ CallsAreGood
  /\ PendingIsKept
  /\ LoadingHasRequest

LEMMA PendingStays ==
  ASSUME PendingIsKept, Follows(store, store'), sentTo' = sentTo, Submitted \subseteq Submitted'
  PROVE  PendingIsKept'
BY DEF PendingIsKept, Follows, Calm

LEMMA LoadingStays ==
  ASSUME LoadingHasRequest, Follows(store, store'), OlderStay
  PROVE  LoadingHasRequest'
BY DEF LoadingHasRequest, Follows, Calm, OlderStay

LEMMA SendsStay ==
  ASSUME SendsAreKnown, UNCHANGED <<log, conn, wire, late, acks, queued, unacked, lost, sentTo>>
  PROVE  SendsAreKnown'
BY DEF SendsAreKnown, Uncarried, IsLogged

LEMMA UpsetStays ==
  ASSUME Bounded, Upset, sentTo' = sentTo
  PROVE  Bounded'
<1>1. Len(sentTo) \in Nat
  BY DEF Bounded
<1> QED
  BY <1>1, BoundsAssumption DEF Bounded, Upset

LEMMA BoundsStay ==
  ASSUME Bounded, upsets' = upsets, sentTo' = sentTo
  PROVE  Bounded'
BY DEF Bounded

LEMMA LogType ==
  ASSUME ServerTypes, NEW c \in Chats
  PROVE  log[c] \in Seq(0 .. MaxUpsets) /\ Len(log[c]) \in Nat
BY DEF ServerTypes

LEMMA AllSoFarType ==
  ASSUME ServerTypes
  PROVE  AllSoFar \subseteq Messages
<1>1. ASSUME NEW m \in AllSoFar PROVE m \in Messages
  <2>1. PICK c \in Chats : m \in {<<c, n>> : n \in 1 .. Len(log[c])}
    BY DEF AllSoFar
  <2>2. PICK n \in 1 .. Len(log[c]) : m = <<c, n>>
    BY <2>1
  <2>3. n \in Nat
    BY <2>2, LogType
  <2> QED
    BY <2>2, <2>3 DEF Messages
<1> QED
  BY <1>1

LEMMA SkippedType ==
  ASSUME store \in Stores, NEW c \in Chats, NEW seqs
  PROVE  Skipped(c, seqs) \subseteq Messages
<1> DEFINE oldest == FindOldestPersistedSeq(store.feed, c)
<1>1. oldest \in Nat
  BY OldestIsNat DEF Stores
<1> HIDE DEF oldest
<1>2. 1 .. oldest - 1 \subseteq Nat
  BY <1>1
<1>3. Skipped(c, seqs) \subseteq {<<c, n>> : n \in 1 .. oldest - 1}
  BY DEF Skipped, oldest
<1> QED
  BY <1>2, <1>3 DEF Messages

LEMMA OvertakenType ==
  ASSUME ServerTypes, NEW c \in Chats, NEW seqs
  PROVE  Overtaken(c, seqs) \subseteq Messages
<1>1. 1 .. Len(log[c]) \subseteq Nat
  BY LogType
<1>2. Overtaken(c, seqs) \subseteq {<<c, n>> : n \in 1 .. Len(log[c])}
  BY DEF Overtaken
<1> QED
  BY <1>1, <1>2 DEF Messages

\* A message goes to the end of a log, so what was logged remains logged.
LEMMA MessageStored ==
  ASSUME ServerTypes, LinkTypes, NEW c \in Chats, NEW author \in 0 .. MaxUpsets,
         NEW heard \in BOOLEAN,
         StoreMessage(c, author, heard), sentTo' = sentTo, sentTo \in Seq(Chats)
  PROVE  /\ log' \in [Chats -> Seq(0 .. MaxUpsets)] /\ newest' \in ChatOrNone
         /\ events' \subseteq Messages /\ excused' \subseteq Messages
         /\ log'[c][Len(log[c]) + 1] = author /\ Len(log'[c]) = Len(log[c]) + 1
         /\ \A k \in 1 .. Len(sentTo) : IsLogged(k) => IsLogged(k)'
         /\ \A k \in 1 .. Len(sentTo) : IsLogged(k)' => IsLogged(k) \/ k = author
         /\ \A d \in Chats : \A n \in 1 .. Len(log'[d]) :
               log'[d][n] = author \/ (n \in 1 .. Len(log[d]) /\ log'[d][n] = log[d][n])
<1> DEFINE old == log[c]
           new == Append(old, author)
           end == Len(old) + 1
<1>1. old \in Seq(0 .. MaxUpsets) /\ Len(old) \in Nat
  BY LogType
<1>2. /\ new \in Seq(0 .. MaxUpsets) /\ Len(new) = end /\ new[end] = author
      /\ \A n \in 1 .. Len(old) : new[n] = old[n]
  <2> HIDE DEF old
  <2> QED
    BY <1>1
<1> HIDE DEF new
<1>3. log' = [log EXCEPT ![c] = new]
  BY DEF StoreMessage, new
<1>4. log' \in [Chats -> Seq(0 .. MaxUpsets)] /\ \A d \in Chats : log'[d] = IF d = c THEN new ELSE log[d]
  BY <1>2, <1>3 DEF ServerTypes
<1>5. <<c, end>> \in Messages
  BY <1>1 DEF Messages
<1>6. newest' \in ChatOrNone
  BY DEF StoreMessage, ChatOrNone
<1>7. events' \subseteq Messages
  BY <1>5 DEF StoreMessage, LinkTypes
<1>8. excused' \subseteq Messages
  BY <1>5 DEF StoreMessage, LinkTypes
<1>9. ASSUME NEW k \in 1 .. Len(sentTo), IsLogged(k) PROVE IsLogged(k)'
  <2> DEFINE d == sentTo[k]
  <2>1. d \in Chats
    OBVIOUS
  <2> HIDE DEF d
  <2>2. PICK n \in 1 .. Len(log[d]) : log[d][n] = k
    BY <1>9 DEF IsLogged, d
  <2>3. n \in 1 .. Len(log'[d]) /\ log'[d][n] = k
    <3>1. CASE d = c
      BY <1>1, <1>2, <1>4, <2>1, <2>2, <3>1
    <3>2. CASE d # c
      BY <1>4, <2>1, <2>2, <3>2
    <3> QED
      BY <3>1, <3>2
  <2> QED
    BY <2>3 DEF IsLogged, d
<1>10. log'[c] = new
  BY <1>4
<1>11. ASSUME NEW d \in Chats, NEW n \in 1 .. Len(log'[d])
       PROVE  log'[d][n] = author \/ (n \in 1 .. Len(log[d]) /\ log'[d][n] = log[d][n])
  <2>1. CASE d = c
    <3>1. n \in 1 .. end
      BY <1>2, <1>10, <2>1
    <3>2. n = end \/ n \in 1 .. Len(old)
      BY <1>1, <3>1
    <3> QED
      BY <1>2, <1>10, <2>1, <3>2
  <2>2. CASE d # c
    BY <1>4, <2>2
  <2> QED
    BY <2>1, <2>2
<1>12. ASSUME NEW k \in 1 .. Len(sentTo), IsLogged(k)', k # author PROVE IsLogged(k)
  <2>1. sentTo[k] \in Chats /\ sentTo'[k] = sentTo[k]
    OBVIOUS
  <2> QED
    BY <1>11, <1>12, <2>1 DEF IsLogged
<1> QED
  BY <1>2, <1>4, <1>6, <1>7, <1>8, <1>9, <1>10, <1>11, <1>12

\* The connection is lost, with what was on its way.
LEMMA Lost ==
  ASSUME LinkTypes, SendsAreKnown, Disconnected
  PROVE  /\ conn' = "off" /\ events' \subseteq Messages /\ excused' \subseteq Messages
         /\ wire' = {} /\ acks' = {} /\ late' \subseteq late \cup wire
BY DEF LinkTypes, SendsAreKnown, Disconnected

\* What is forgotten altogether is lost when nothing has carried it.
LEMMA NothingSentIsKnown ==
  ASSUME SendsAreKnown, log' = log, sentTo' = sentTo, conn' = "off",
         wire' = {}, acks' = {}, late' \subseteq late \cup wire, unacked' \subseteq unacked,
         queued' \subseteq queued, lost' \subseteq queued \cup lost,
         \A k \in lost' : k \notin queued'
  PROVE  SendsAreKnown'
<1>1. \A k : IsLogged(k) <=> IsLogged(k)'
  BY DEF IsLogged
<1> QED
  BY <1>1 DEF SendsAreKnown, Uncarried

-----------------------------------------------------------------------------
(* The initial states. *)

LEMMA InitInv ==
  ASSUME Init
  PROVE  WInv
<1>1. ServerTypes
  <2>1. FirstLog \in [Chats -> Seq(0 .. MaxUpsets)]
    <3>1. {Peer} \subseteq 0 .. MaxUpsets
      BY BoundsAssumption DEF Peer
    <3>2. \A c \in Chats : FirstLog[c] \in Seq({Peer})
      BY BoundsAssumption
    <3>3. \A c \in Chats : FirstLog[c] \in Seq(0 .. MaxUpsets)
      BY <3>1, <3>2, SeqMonotonic
    <3> QED
      BY <3>3, BoundsAssumption
  <2>2. \A c \in Chats : Len(FirstLog[c]) \in Nat
    BY <2>1
  <2>3. serverChats \subseteq Chats
    BY DEF Init
  <2>4. newest \in ChatOrNone
    BY <2>3 DEF Init, ChatOrNone
  <2>5. unread \in [Chats -> Nat]
    BY <2>2 DEF Init
  <2> QED
    BY <2>1, <2>3, <2>4, <2>5 DEF Init, ServerTypes
<1>2. LinkTypes
  BY DEF Init, LinkTypes
<1>3. InitialState \in Stores /\ InitialState.feed = {} /\ InitialState.pages = Nothing
  BY NothingType DEF Stores, InitialState, ChatOrNone
<1>4. ShellTypes
  BY <1>3, BoundsAssumption DEF Init, ShellTypes, ChatOrNone
<1>5. Bounded
  BY BoundsAssumption, EmptySeq DEF Init, Bounded
<1>6. SendsAreKnown
  <2>1. \A c \in Chats : \A n \in 1 .. Len(log[c]) : log[c][n] = 0
    BY BoundsAssumption DEF Init, Peer
  <2> QED
    BY <2>1 DEF Init, SendsAreKnown, Uncarried
<1>7. CallsAreGood
  <2>1. GoodCall(Simple("me", NoChat)) /\ GoodCall(Idle)
    BY SimpleIsGood, IdleIsGood DEF PCs, ChatOrNone
  <2>2. Simple("me", NoChat) \in Calls /\ Idle \in Calls
    BY <2>1 DEF GoodCall
  <2>3. PICK first \in Tasks : tasks = [t \in Tasks |-> IF t = first THEN Simple("me", NoChat) ELSE Idle]
    BY DEF Init
  <2> QED
    BY <2>1, <2>2, <2>3 DEF CallsAreGood
<1>8. PendingIsKept
  BY <1>3 DEF Init, PendingIsKept
<1>9. LoadingHasRequest
  BY <1>3 DEF Init, LoadingHasRequest, Nothing
<1> QED
  BY <1>1, <1>2, <1>4, <1>5, <1>6, <1>7, <1>8, <1>9 DEF WInv

-----------------------------------------------------------------------------
(* The server. *)

LEMMA PageOfType ==
  ASSUME ServerTypes, NEW c \in Chats, NEW before \in Nat
  PROVE  PageOf(c, before) \in PageAnswers
<1> DEFINE last == IF before = 0 THEN Len(log[c]) ELSE before - 1
           seqs == {n \in 1 .. last : n > last - PageSize}
           more == last > PageSize
<1>1. last \in Int
  BY LogType
<1> HIDE DEF last
<1>2. seqs \in SUBSET Nat /\ more \in BOOLEAN
  BY <1>1
<1> HIDE DEF seqs, more
<1>3. [tag |-> "page", seqs |-> seqs, hasMore |-> more] \in PageAnswers
  BY <1>2 DEF PageAnswers
<1> QED
  BY <1>3 DEF PageOf, last, seqs, more

LEMMA ListOfChatsType ==
  ASSUME ServerTypes
  PROVE  ListOfChats \in ListAnswers
<1> DEFINE chats == [c \in serverChats |-> unread[c]]
<1>1. chats \in [serverChats -> Nat] /\ serverChats \in SUBSET Chats
  BY DEF ServerTypes
<1>2. chats \in Badges
  BY <1>1, BadgesType
<1> HIDE DEF chats
<1>3. [tag |-> "list", chats |-> chats, first |-> newest] \in ListAnswers
  BY <1>2 DEF ListAnswers, ServerTypes
<1> QED
  BY <1>3 DEF ListOfChats, chats

LEMMA QueryServed ==
  ASSUME ServerTypes, CallsAreGood, NEW t \in Tasks, ServeQuery(t)
  PROVE  CallsAreGood' /\ OlderStay
<1> DEFINE task == tasks[t]
<1>1. GoodCall(task)
  BY DEF CallsAreGood
<1>2. CASE task.pc = "me" /\ Answer(t, Done)
  BY <1>2, Answered
<1>3. CASE task.pc = "list" /\ Answer(t, ListOfChats)
  BY <1>3, ListOfChatsType, Answered
<1>4. CASE task.pc \in {"page", "older"} /\ Answer(t, PageOf(task.chat, task.before))
  <2>1. task.chat \in Chats /\ task.before \in Nat
    BY <1>1, <1>4 DEF GoodCall, Calls
  <2>2. PageOf(task.chat, task.before) \in PageAnswers
    BY <2>1, PageOfType
  <2> QED
    BY <1>4, <2>2, Answered
<1> QED
  BY <1>2, <1>3, <1>4 DEF ServeQuery

LEMMA ServeInv ==
  ASSUME WInv, NEW t \in Tasks, Serve(t)
  PROVE  WInv'
<1>1. UNCHANGED <<connection, shell, history, upsets>>
  BY DEF Serve
<1>2. ServerTypes' /\ log' = log /\ CallsAreGood' /\ OlderStay
  <2>0. ServerTypes /\ CallsAreGood /\ GoodCall(tasks[t])
    BY DEF WInv, CallsAreGood
  <2>1. CASE ServeRead(t)
    <3>1. CallsAreGood' /\ OlderStay
      BY <2>0, <2>1, Answered DEF ServeRead
    <3>2. ServerTypes' /\ log' = log
      BY <2>0, <2>1 DEF ServeRead, ServerTypes
    <3> QED
      BY <3>1, <3>2
  <2>2. CASE ServeCreate(t)
    <3>1. CallsAreGood' /\ OlderStay
      BY <2>0, <2>2, Answered DEF ServeCreate
    <3>2. tasks[t].chat \in Chats
      BY <2>0, <2>2 DEF ServeCreate, GoodCall
    <3>3. ServerTypes' /\ log' = log
      BY <2>0, <2>2, <3>2 DEF ServeCreate, ServerTypes, ChatOrNone
    <3> QED
      BY <3>1, <3>3
  <2>3. CASE ServeQuery(t)
    <3>1. CallsAreGood' /\ OlderStay
      BY <2>0, <2>3, QueryServed
    <3>2. ServerTypes' /\ log' = log
      BY <2>0, <2>3 DEF ServeQuery, ServerTypes, server
    <3> QED
      BY <3>1, <3>2
  <2>4. CASE ServeSession(t)
    <3>1. CallsAreGood' /\ OlderStay
      BY <2>0, <2>4, Answered DEF ServeSession
    <3>2. ServerTypes' /\ log' = log
      <4> DEFINE login == tasks[t].pc = "login"
      <4>1. session' = login /\ login \in BOOLEAN
        BY <2>4 DEF ServeSession
      <4> HIDE DEF login
      <4> QED
        BY <2>0, <2>4, <4>1 DEF ServeSession, ServerTypes
    <3> QED
      BY <3>1, <3>2
  <2>5. CASE ServeUnauthorized(t)
    <3>1. CallsAreGood' /\ OlderStay
      BY <2>0, <2>5, Answered DEF ServeUnauthorized, Quick
    <3>2. ServerTypes' /\ log' = log
      BY <2>0, <2>5 DEF ServeUnauthorized, ServerTypes, server
    <3> QED
      BY <3>1, <3>2
  <2> QED
    BY <2>1, <2>2, <2>3, <2>4, <2>5 DEF Serve
<1>3. LinkTypes' /\ ShellTypes' /\ Bounded'
  BY <1>1 DEF WInv, connection, outbox, shell, history, LinkTypes, ShellTypes, Bounded
<1>4. SendsAreKnown'
  BY <1>1, <1>2, SendsStay DEF WInv, connection, outbox
<1>5. Follows(store, store') /\ sentTo' = sentTo /\ Submitted' = Submitted
  BY <1>1, FollowsItself DEF WInv, ShellTypes, connection, outbox, shell, Submitted
<1>6. PendingIsKept' /\ LoadingHasRequest'
  BY <1>2, <1>5, PendingStays, LoadingStays DEF WInv
<1> QED
  BY <1>2, <1>3, <1>4, <1>6 DEF WInv

LEMMA FailsInv ==
  ASSUME WInv, NEW t \in Tasks, Fails(t)
  PROVE  WInv'
<1>1. UNCHANGED <<server, connection, shell, history>>
  BY DEF Fails
<1>2. CallsAreGood' /\ OlderStay
  BY Answered DEF WInv, Fails, Quick
<1>3. ServerTypes' /\ LinkTypes' /\ ShellTypes'
  BY <1>1 DEF WInv, server, connection, outbox, shell, history, ServerTypes, LinkTypes, ShellTypes
<1>4. Bounded' /\ SendsAreKnown'
  BY <1>1, UpsetStays, SendsStay DEF WInv, Fails, server, connection, outbox
<1>5. Follows(store, store') /\ sentTo' = sentTo /\ Submitted' = Submitted
  BY <1>1, FollowsItself DEF WInv, ShellTypes, connection, outbox, shell, Submitted
<1>6. PendingIsKept' /\ LoadingHasRequest'
  BY <1>2, <1>5, PendingStays, LoadingStays DEF WInv
<1> QED
  BY <1>2, <1>3, <1>4, <1>6 DEF WInv
LEMMA CallsStay ==
  ASSUME CallsAreGood, tasks' = tasks
  PROVE  CallsAreGood' /\ OlderStay
BY DEF CallsAreGood, OlderStay

LEMMA FeedStays ==
  ASSUME WInv, UNCHANGED <<store, sentTo>>, Submitted \subseteq Submitted', OlderStay
  PROVE  PendingIsKept' /\ LoadingHasRequest'
<1>1. Follows(store, store') /\ sentTo' = sentTo
  BY FollowsItself DEF WInv, ShellTypes
<1> QED
  BY <1>1, PendingStays, LoadingStays DEF WInv

LEMMA PeerSendsInv ==
  ASSUME WInv, NEW c \in Chats, PeerSends(c)
  PROVE  WInv'
<1>1. UNCHANGED <<session, conn, wanted, wire, late, acks, queued, unacked, lost, sentTo, shell,
                  tasks, strayed>>
  BY DEF PeerSends, outbox
<1>2. /\ log' \in [Chats -> Seq(0 .. MaxUpsets)] /\ newest' \in ChatOrNone
      /\ events' \subseteq Messages /\ excused' \subseteq Messages
      /\ \A k \in 1 .. Len(sentTo) : IsLogged(k) => IsLogged(k)'
      /\ \A k \in 1 .. Len(sentTo) : IsLogged(k)' => IsLogged(k)
      /\ \A d \in Chats : \A n \in 1 .. Len(log'[d]) :
            log'[d][n] = Peer \/ (n \in 1 .. Len(log[d]) /\ log'[d][n] = log[d][n])
  <2>1. Peer \in 0 .. MaxUpsets
    BY BoundsAssumption DEF Peer
  <2>2. StoreMessage(c, Peer, TRUE) /\ sentTo' = sentTo /\ TRUE \in BOOLEAN
    BY <1>1 DEF PeerSends
  <2>3. \A k \in 1 .. Len(sentTo) : k # Peer
    BY DEF Peer
  <2> DEFINE heard == TRUE
             author == Peer
  <2>4. StoreMessage(c, author, heard) /\ heard \in BOOLEAN /\ author \in 0 .. MaxUpsets
    BY <2>1, <2>2
  <2> HIDE DEF heard, author
  <2> QED
    BY <2>2, <2>3, <2>4, MessageStored DEF WInv, Bounded, author
<1>3. ServerTypes'
  <2>1. unread' \in [Chats -> Nat]
    BY DEF WInv, ServerTypes, PeerSends
  <2> QED
    BY <1>1, <1>2, <2>1 DEF WInv, ServerTypes, PeerSends
<1>4. LinkTypes' /\ ShellTypes'
  BY <1>1, <1>2 DEF WInv, LinkTypes, ShellTypes, shell
<1>5. Bounded'
  BY <1>1, UpsetStays DEF WInv, PeerSends
<1>6. SendsAreKnown'
  <2>1. \A d \in Chats : \A n \in 1 .. Len(log'[d]) : log'[d][n] \in 0 .. Len(sentTo)
    <3> DEFINE known == 0 .. Len(sentTo)
    <3>1. /\ \A d \in Chats : \A n \in 1 .. Len(log[d]) : log[d][n] \in known
          /\ Peer \in known
      BY DEF WInv, Bounded, SendsAreKnown, Peer
    <3>2. \A d \in Chats : \A n \in 1 .. Len(log'[d]) :
            log'[d][n] = Peer \/ (n \in 1 .. Len(log[d]) /\ log'[d][n] = log[d][n])
      BY <1>2
    <3> HIDE DEF known
    <3>3. \A d \in Chats : \A n \in 1 .. Len(log'[d]) : log'[d][n] \in known
      BY <3>1, <3>2
    <3> QED
      BY <3>3 DEF known
  <2>2. SendsAreKnown
    BY DEF WInv
  <2>3. \A k \in acks' : IsLogged(k)'
    BY <1>1, <1>2, <2>2 DEF SendsAreKnown
  <2>4. \A k \in Uncarried' : ~IsLogged(k)' /\ k \notin wire' \cup late' \cup unacked'
    BY <1>1, <1>2, <2>2 DEF SendsAreKnown, Uncarried
  <2> QED
    BY <1>1, <2>1, <2>2, <2>3, <2>4 DEF SendsAreKnown
<1>7. CallsAreGood' /\ OlderStay
  BY <1>1, CallsStay DEF WInv
<1>8. PendingIsKept' /\ LoadingHasRequest'
  BY <1>1, <1>7, FeedStays DEF shell, Submitted
<1> QED
  BY <1>3, <1>4, <1>5, <1>6, <1>7, <1>8 DEF WInv

LEMMA BroadcastAgainInv ==
  ASSUME WInv, NEW c \in Chats, NEW n \in 1 .. Len(log[c]), BroadcastAgain(c, n)
  PROVE  WInv'
<1>1. UNCHANGED <<server, conn, wanted, wire, late, acks, queued, unacked, lost, sentTo, shell, tasks, history>>
  BY DEF BroadcastAgain, outbox
<1>2. <<c, n>> \in Messages
  BY LogType DEF WInv, Messages
<1>3. ServerTypes' /\ LinkTypes' /\ ShellTypes'
  BY <1>1, <1>2 DEF WInv, BroadcastAgain, server, shell, history, ServerTypes, LinkTypes, ShellTypes
<1>4. Bounded' /\ SendsAreKnown'
  BY <1>1, UpsetStays, SendsStay DEF WInv, BroadcastAgain, server
<1>5. CallsAreGood' /\ OlderStay
  BY <1>1, CallsStay DEF WInv
<1>6. PendingIsKept' /\ LoadingHasRequest'
  BY <1>1, <1>5, FeedStays DEF shell, Submitted
<1> QED
  BY <1>3, <1>4, <1>5, <1>6 DEF WInv

\* A message.send has been handled: what it stores was on its way.
LEMMA SendHandled ==
  ASSUME WInv, NEW k \in wire \cup late, NEW heard \in BOOLEAN,
         UNCHANGED <<serverChats, unread, session, conn, wanted, queued, unacked, lost, sentTo, shell,
                     tasks, strayed>>,
         \/ UNCHANGED <<log, newest, excused>> /\ events' \subseteq Messages
         \/ StoreMessage(sentTo[k], k, heard),
         wire' \subseteq wire, late' \subseteq late,
         acks' = acks \/ (acks' = acks \cup {k} /\ (IsLogged(k) \/ StoreMessage(sentTo[k], k, heard))),
         Bounded'
  PROVE  WInv'
<1>1. k \in 1 .. Len(sentTo)
  BY DEF WInv, SendsAreKnown
<1>2. sentTo \in Seq(Chats) /\ Len(sentTo) \in Nat /\ Len(sentTo) <= MaxUpsets
  BY BoundsAssumption DEF WInv, Bounded
<1>3. sentTo[k] \in Chats /\ k \in 0 .. MaxUpsets
  BY <1>1, <1>2, BoundsAssumption
<1>4. /\ log' \in [Chats -> Seq(0 .. MaxUpsets)] /\ newest' \in ChatOrNone
      /\ events' \subseteq Messages /\ excused' \subseteq Messages
      /\ \A j \in 1 .. Len(sentTo) : IsLogged(j) => IsLogged(j)'
      /\ \A j \in 1 .. Len(sentTo) : IsLogged(j)' => IsLogged(j) \/ j = k
      /\ \A d \in Chats : \A n \in 1 .. Len(log'[d]) :
            log'[d][n] = k \/ (n \in 1 .. Len(log[d]) /\ log'[d][n] = log[d][n])
      /\ k \in acks' => IsLogged(k)'
  <2>1. CASE UNCHANGED <<log, newest, excused>> /\ events' \subseteq Messages
                /\ ~StoreMessage(sentTo[k], k, heard)
    <3>1. \A j : IsLogged(j) <=> IsLogged(j)'
      BY <2>1 DEF IsLogged
    <3>2. k \in acks' => IsLogged(k)
      BY <2>1 DEF WInv, SendsAreKnown
    <3> QED
      BY <2>1, <3>1, <3>2 DEF WInv, ServerTypes, LinkTypes
  <2>2. CASE StoreMessage(sentTo[k], k, heard)
    <3> DEFINE c == sentTo[k]
               end == Len(log[c]) + 1
    <3>1. sentTo' = sentTo /\ sentTo \in Seq(Chats) /\ c \in Chats
      BY <1>3 DEF WInv, Bounded
    <3> HIDE DEF c
    <3>2. StoreMessage(c, k, heard)
      BY <2>2 DEF c
    <3>3. /\ log' \in [Chats -> Seq(0 .. MaxUpsets)] /\ newest' \in ChatOrNone
          /\ events' \subseteq Messages /\ excused' \subseteq Messages
          /\ log'[c][end] = k /\ Len(log'[c]) = end
          /\ \A j \in 1 .. Len(sentTo) : IsLogged(j) => IsLogged(j)'
          /\ \A j \in 1 .. Len(sentTo) : IsLogged(j)' => IsLogged(j) \/ j = k
          /\ \A d \in Chats : \A n \in 1 .. Len(log'[d]) :
                log'[d][n] = k \/ (n \in 1 .. Len(log[d]) /\ log'[d][n] = log[d][n])
      BY <1>3, <3>1, <3>2, MessageStored DEF WInv
    <3>4. end \in 1 .. end
      BY <3>1, LogType DEF WInv
    <3> HIDE DEF end
    <3>5. IsLogged(k)'
      BY <3>1, <3>3, <3>4 DEF IsLogged, c
    <3> QED
      BY <3>3, <3>5
  <2> QED
    BY <2>1, <2>2
<1>5. ServerTypes' /\ LinkTypes' /\ ShellTypes'
  BY <1>4 DEF WInv, ServerTypes, LinkTypes, ShellTypes, shell
<1>6. SendsAreKnown'
  <2>1. acks' \subseteq acks \cup {k}
    OBVIOUS
  <2>2. \A j \in acks' : IsLogged(j)'
    BY <1>4, <2>1 DEF WInv, SendsAreKnown
  <2>3. \A j \in Uncarried : j # k
    BY DEF WInv, SendsAreKnown
  <2>4. Uncarried' = Uncarried /\ \A j \in Uncarried : j \in 1 .. Len(sentTo)
    BY DEF WInv, SendsAreKnown, Uncarried
  <2>5. \A j \in Uncarried' : ~IsLogged(j)' /\ j \notin (wire \cup late \cup unacked)'
    BY <1>4, <2>3, <2>4 DEF WInv, SendsAreKnown
  <2>6. \A d \in Chats : \A n \in 1 .. Len(log'[d]) : log'[d][n] \in 0 .. Len(sentTo)
    BY <1>1, <1>2, <1>4 DEF WInv, SendsAreKnown
  <2> QED
    BY <1>1, <2>1, <2>2, <2>5, <2>6 DEF WInv, SendsAreKnown
<1>7. CallsAreGood' /\ OlderStay
  BY CallsStay DEF WInv
<1>8. PendingIsKept' /\ LoadingHasRequest'
  BY <1>7, FeedStays DEF shell, Submitted
<1> QED
  BY <1>5, <1>6, <1>7, <1>8 DEF WInv

LEMMA StoreSentInv ==
  ASSUME WInv, NEW k \in 1 .. MaxUpsets, StoreSent(k)
  PROVE  WInv'
<1>1. /\ k \in wire \cup late
      /\ UNCHANGED <<serverChats, unread, session, conn, wanted, queued, unacked, lost, sentTo, shell,
                     tasks, strayed, upsets>>
      /\ wire' \subseteq wire /\ late' \subseteq late /\ acks' = acks \cup {k}
  BY DEF StoreSent, outbox
<1>2. \/ IsLogged(k) /\ UNCHANGED <<log, newest, events, excused>>
      \/ StoreMessage(sentTo[k], k, FALSE)
  BY DEF StoreSent
<1>3. events \subseteq Messages
  BY DEF WInv, LinkTypes
<1>4. Bounded'
  BY <1>1, BoundsStay DEF WInv
<1> DEFINE heard == FALSE
<1>5. heard \in BOOLEAN
  OBVIOUS
<1> QED
  BY <1>1, <1>2, <1>3, <1>4, <1>5, SendHandled

LEMMA PlaceIsLogged ==
  ASSUME WInv, NEW k \in 1 .. Len(sentTo), IsLogged(k)
  PROVE  /\ sentTo[k] \in Chats /\ PlaceOf(k) \in Nat
         /\ PlaceOf(k) \in 1 .. Len(log[sentTo[k]]) /\ log[sentTo[k]][PlaceOf(k)] = k
<1>1. sentTo[k] \in Chats
  BY DEF WInv, Bounded
<1>2. PlaceOf(k) \in 1 .. Len(log[sentTo[k]]) /\ log[sentTo[k]][PlaceOf(k)] = k
  BY DEF IsLogged, PlaceOf
<1>3. Len(log[sentTo[k]]) \in Nat
  BY <1>1, LogType DEF WInv
<1> QED
  BY <1>1, <1>2, <1>3

LEMMA StoreLateInv ==
  ASSUME WInv, NEW k \in 1 .. MaxUpsets, StoreLate(k)
  PROVE  WInv'
<1>1. /\ k \in wire \cup late
      /\ UNCHANGED <<serverChats, unread, session, conn, wanted, queued, unacked, lost, sentTo, shell,
                     tasks, strayed, upsets>>
      /\ wire' \subseteq wire /\ late' \subseteq late /\ acks' = acks
  BY DEF StoreLate, outbox
<1>2. \/ UNCHANGED <<log, newest, excused>> /\ events' \subseteq Messages
      \/ StoreMessage(sentTo[k], k, TRUE)
  <2>1. CASE IsLogged(k)
    <3>1. k \in 1 .. Len(sentTo)
      BY <1>1 DEF WInv, SendsAreKnown
    <3>2. <<sentTo[k], PlaceOf(k)>> \in Messages
      BY <2>1, <3>1, PlaceIsLogged DEF Messages
    <3> QED
      BY <2>1, <3>2 DEF StoreLate, WInv, LinkTypes
  <2>2. CASE ~IsLogged(k)
    BY <2>2 DEF StoreLate
  <2> QED
    BY <2>1, <2>2
<1>3. Bounded'
  BY <1>1, BoundsStay DEF WInv
<1> DEFINE heard == TRUE
<1>4. heard \in BOOLEAN
  OBVIOUS
<1> QED
  BY <1>1, <1>2, <1>3, <1>4, SendHandled

LEMMA SendFailsInv ==
  ASSUME WInv, NEW k \in 1 .. MaxUpsets, SendFails(k)
  PROVE  WInv'
<1>1. /\ k \in wire \cup late
      /\ UNCHANGED <<serverChats, unread, session, conn, wanted, queued, unacked, lost, sentTo, shell,
                     tasks, strayed>>
      /\ wire' \subseteq wire /\ late' \subseteq late /\ acks' = acks
      /\ UNCHANGED <<log, newest, excused>> /\ events' = events
  BY DEF SendFails, outbox, server, history
<1>2. events' \subseteq Messages
  BY <1>1 DEF WInv, LinkTypes
<1>3. Bounded'
  BY <1>1, UpsetStays DEF WInv, SendFails
<1> DEFINE heard == TRUE
<1>4. heard \in BOOLEAN
  OBVIOUS
<1> QED
  BY <1>1, <1>2, <1>3, <1>4, SendHandled

LEMMA ExpiresInv ==
  ASSUME WInv, Expires
  PROVE  WInv'
<1>1. UNCHANGED <<log, serverChats, newest, unread, connection, shell, tasks, history>>
  BY DEF Expires
<1>2. ServerTypes' /\ LinkTypes' /\ ShellTypes'
  BY <1>1 DEF WInv, Expires, connection, outbox, shell, history, ServerTypes, LinkTypes, ShellTypes
<1>3. Bounded' /\ SendsAreKnown'
  BY <1>1, UpsetStays, SendsStay DEF WInv, Expires, connection, outbox
<1>4. CallsAreGood' /\ OlderStay
  BY <1>1, CallsStay DEF WInv
<1>5. PendingIsKept' /\ LoadingHasRequest'
  BY <1>1, <1>4, FeedStays DEF shell, connection, outbox, Submitted
<1> QED
  BY <1>2, <1>3, <1>4, <1>5 DEF WInv

-----------------------------------------------------------------------------
(* The connection. *)

LEMMA DropsInv ==
  ASSUME WInv, Drops
  PROVE  WInv'
<1>1. UNCHANGED <<server, wanted, queued, unacked, lost, sentTo, shell, tasks, strayed>>
  BY DEF Drops, outbox
<1>2. /\ conn' = "off" /\ events' \subseteq Messages /\ excused' \subseteq Messages
      /\ wire' = {} /\ acks' = {} /\ late' \subseteq late \cup wire
  BY Lost DEF WInv, Drops
<1>3. ServerTypes' /\ LinkTypes' /\ ShellTypes'
  BY <1>1, <1>2 DEF WInv, server, shell, ServerTypes, LinkTypes, ShellTypes
<1>4. Bounded'
  BY <1>1, UpsetStays DEF WInv, Drops
<1>5. SendsAreKnown'
  <2>1. \A k \in lost' : k \notin queued'
    BY <1>1 DEF WInv, SendsAreKnown
  <2> QED
    BY <1>1, <1>2, <2>1, NothingSentIsKnown DEF WInv, server
<1>6. CallsAreGood' /\ OlderStay
  BY <1>1, CallsStay DEF WInv
<1>7. PendingIsKept' /\ LoadingHasRequest'
  BY <1>1, <1>6, FeedStays DEF shell, Submitted
<1> QED
  BY <1>3, <1>4, <1>5, <1>6, <1>7 DEF WInv

LEMMA GivesUpInv ==
  ASSUME WInv, GivesUp
  PROVE  WInv'
<1>1. UNCHANGED <<server, conn, events, wire, late, acks, queued, unacked, lost, sentTo, shell, tasks,
                  history>>
  BY DEF GivesUp, outbox
<1>2. ServerTypes' /\ LinkTypes' /\ ShellTypes'
  BY <1>1 DEF WInv, GivesUp, server, shell, history, ServerTypes, LinkTypes, ShellTypes
<1>3. Bounded' /\ SendsAreKnown'
  BY <1>1, UpsetStays, SendsStay DEF WInv, GivesUp, server
<1>4. CallsAreGood' /\ OlderStay
  BY <1>1, CallsStay DEF WInv
<1>5. PendingIsKept' /\ LoadingHasRequest'
  BY <1>1, <1>4, FeedStays DEF shell, Submitted
<1> QED
  BY <1>2, <1>3, <1>4, <1>5 DEF WInv

LEMMA OpensInv ==
  ASSUME WInv, Opens
  PROVE  WInv'
<1>1. UNCHANGED <<server, wanted, events, late, acks, lost, sentTo, shell, strayed, upsets>>
  BY DEF Opens, FlushPendingEvents
<1>2. conn' = "open" /\ unacked' = unacked \cup queued /\ queued' = {} /\ wire' = unacked'
  BY DEF Opens, FlushPendingEvents
<1>3. excused' \subseteq Messages /\ CallsAreGood' /\ OlderStay
  <2>1. CASE store.signedIn
    <3> DEFINE keep == store.active = NoChat /\ mobilePane = "chats"
    <3>1. keep \in BOOLEAN /\ "reopen" \in Origins /\ "undefined" \in ChatOrNone \cup {"undefined"}
      BY DEF Origins
    <3>2. PICK t \in Tasks : Free(t) /\ Goto(t, LoadChatWorkspace("reopen", "undefined", keep, store, route))
      BY <2>1 DEF Opens
    <3> HIDE DEF keep
    <3>3. GoodCall(LoadChatWorkspace("reopen", "undefined", keep, store, route))
      BY <3>1, LoadIsGood DEF WInv, ShellTypes
    <3>4. excused' = {}
      BY <2>1 DEF Opens
    <3> QED
      BY <3>2, <3>3, <3>4, GoneOn DEF WInv, Free
  <2>2. CASE ~store.signedIn
    <3>1. tasks' = tasks /\ excused' = excused
      BY <2>2 DEF Opens
    <3> QED
      BY <3>1, CallsStay DEF WInv, LinkTypes
  <2> QED
    BY <2>1, <2>2
<1>4. ServerTypes' /\ LinkTypes' /\ ShellTypes'
  BY <1>1, <1>2, <1>3 DEF WInv, server, shell, ServerTypes, LinkTypes, ShellTypes
<1>5. Bounded'
  BY <1>1, BoundsStay DEF WInv
<1>6. SendsAreKnown'
  <2>1. \A k : IsLogged(k) <=> IsLogged(k)'
    BY <1>1 DEF IsLogged, server
  <2>2. log' = log /\ sentTo' = sentTo /\ late' = late /\ acks' = acks /\ lost' = lost
    BY <1>1 DEF server
  <2>3. SendsAreKnown
    BY DEF WInv
  <2>4. /\ wire' \subseteq 1 .. Len(sentTo') /\ late' \subseteq 1 .. Len(sentTo')
        /\ queued' \subseteq 1 .. Len(sentTo') /\ unacked' \subseteq 1 .. Len(sentTo')
        /\ lost' \subseteq 1 .. Len(sentTo') /\ acks' \subseteq 1 .. Len(sentTo')
    BY <1>2, <2>2, <2>3 DEF SendsAreKnown
  <2>5. \A c \in Chats : \A n \in 1 .. Len(log'[c]) : log'[c][n] \in 0 .. Len(sentTo')
    BY <2>2, <2>3 DEF SendsAreKnown
  <2>6. \A k \in acks' : IsLogged(k)'
    BY <2>1, <2>2, <2>3 DEF SendsAreKnown
  <2>7. \A k \in Uncarried' : ~IsLogged(k)' /\ k \notin wire' \cup late' \cup unacked'
    <3>1. conn = "off"
      BY DEF Opens
    <3> SUFFICES ASSUME NEW k \in lost
                 PROVE  ~IsLogged(k)' /\ k \notin wire' \cup late' \cup unacked'
      BY <1>2, <2>2 DEF Uncarried
    <3>2. ~IsLogged(k) /\ k \notin wire \cup late \cup unacked /\ k \notin queued
      BY <2>3 DEF SendsAreKnown, Uncarried
    <3> QED
      BY <1>2, <2>1, <2>2, <3>2
  <2> QED
    BY <1>2, <2>4, <2>5, <2>6, <2>7 DEF SendsAreKnown
<1>7. PendingIsKept' /\ LoadingHasRequest'
  BY <1>1, <1>2, <1>3, FeedStays DEF shell, Submitted
<1> QED
  BY <1>3, <1>4, <1>5, <1>6, <1>7 DEF WInv

LEMMA AttachInv ==
  ASSUME WInv, Attach
  PROVE  WInv'
<1>1. UNCHANGED <<server, wanted, events, late, acks, queued, unacked, lost, sentTo, shell, tasks,
                  history, upsets>>
  BY DEF Attach, outbox
<1>2. wire' \subseteq wire /\ conn # "off"
  BY DEF Attach
<1>3. ServerTypes' /\ LinkTypes' /\ ShellTypes'
  BY <1>1 DEF WInv, Attach, server, shell, history, ServerTypes, LinkTypes, ShellTypes
<1>4. Bounded'
  BY <1>1, BoundsStay DEF WInv
<1>5. SendsAreKnown'
  <2>1. \A k : IsLogged(k) <=> IsLogged(k)'
    BY <1>1 DEF IsLogged, server
  <2> QED
    BY <1>1, <1>2, <2>1 DEF WInv, SendsAreKnown, Uncarried, server
<1>6. CallsAreGood' /\ OlderStay
  BY <1>1, CallsStay DEF WInv
<1>7. PendingIsKept' /\ LoadingHasRequest'
  BY <1>1, <1>6, FeedStays DEF shell, Submitted
<1> QED
  BY <1>3, <1>4, <1>5, <1>6, <1>7 DEF WInv

LEMMA SessionCleared ==
  ASSUME store' = ClearSession(store)
  PROVE  store' \in Stores /\ PendingIsKept' /\ LoadingHasRequest'
<1>1. InitialState \in Stores /\ InitialState.feed = {} /\ InitialState.pages = Nothing
  BY NothingType DEF Stores, InitialState, ChatOrNone
<1>2. store'.feed = {} /\ store'.pages = Nothing
  BY <1>1 DEF ClearSession
<1>3. DOMAIN Nothing = {}
  BY DEF Nothing
<1> QED
  BY <1>1, <1>2, <1>3 DEF ClearSession, PendingIsKept, LoadingHasRequest

LEMMA Disconnects ==
  ASSUME WInv, Disconnect, log' = log
  PROVE  LinkTypes' /\ SendsAreKnown' /\ sentTo' = sentTo
<1>1. /\ Disconnected /\ wanted' = FALSE /\ sentTo' = sentTo
      /\ queued' = {} /\ unacked' = {} /\ lost' = lost \cup queued
  BY DEF Disconnect
<1>2. /\ conn' = "off" /\ events' \subseteq Messages /\ excused' \subseteq Messages
      /\ wire' = {} /\ acks' = {} /\ late' \subseteq late \cup wire
  BY <1>1, Lost DEF WInv
<1>3. SendsAreKnown'
  BY <1>1, <1>2, NothingSentIsKnown DEF WInv
<1>4. LinkTypes'
  BY <1>1, <1>2 DEF LinkTypes
<1> QED
  BY <1>1, <1>3, <1>4

LEMMA SignedOut ==
  ASSUME WInv, HandleSessionExpired, strayed' \in BOOLEAN, log' = log
  PROVE  LinkTypes' /\ SendsAreKnown' /\ sentTo' = sentTo /\ ShellTypes' /\ PendingIsKept'
         /\ LoadingHasRequest'
<1>1. LinkTypes' /\ SendsAreKnown' /\ sentTo' = sentTo
  BY Disconnects DEF HandleSessionExpired
<1>2. store' \in Stores /\ PendingIsKept' /\ LoadingHasRequest'
  BY SessionCleared DEF HandleSessionExpired
<1>3. ShellTypes'
  BY <1>2 DEF HandleSessionExpired, ClearChatRoute, ShellTypes, ChatOrNone
<1> QED
  BY <1>1, <1>2, <1>3

LEMMA RefuseInv ==
  ASSUME WInv, Refuse
  PROVE  WInv'
<1>1. UNCHANGED <<server, tasks, strayed, upsets>>
  BY DEF Refuse
<1>2. LinkTypes' /\ SendsAreKnown' /\ sentTo' = sentTo /\ ShellTypes' /\ PendingIsKept'
      /\ LoadingHasRequest'
  BY <1>1, SignedOut DEF WInv, ShellTypes, Refuse, server
<1>3. ServerTypes'
  BY <1>1 DEF WInv, server, ServerTypes
<1>4. Bounded'
  BY <1>1, <1>2, BoundsStay DEF WInv
<1>5. CallsAreGood'
  BY <1>1, CallsStay DEF WInv
<1> QED
  BY <1>2, <1>3, <1>4, <1>5 DEF WInv

LEMMA ApplyAckInv ==
  ASSUME WInv, NEW k \in 1 .. MaxUpsets, ApplyAck(k)
  PROVE  WInv'
<1>1. UNCHANGED <<server, conn, wanted, events, wire, late, queued, lost, sentTo, mobilePane, route, tasks,
                  strayed, upsets>>
  BY DEF ApplyAck
<1>2. k \in 1 .. Len(sentTo) /\ IsLogged(k) /\ acks' \subseteq acks /\ unacked' = unacked \ {k}
  BY DEF ApplyAck, WInv, SendsAreKnown
<1>3. sentTo[k] \in Chats /\ PlaceOf(k) \in Nat
  BY <1>2, PlaceIsLogged
<1>4. k \notin Uncarried
  BY <1>2 DEF WInv, SendsAreKnown
<1>5. /\ Follows(store, store')
      /\ \A i \in store'.feed : i.pending => i # Pending(sentTo[k], k)
  <2> DEFINE c == sentTo[k]
             n == PlaceOf(k)
  <2>1. store' = AcknowledgeServerMessage(store, c, n, k)
    BY DEF ApplyAck
  <2>2. c \in Chats /\ n \in Nat /\ store \in Stores
    BY <1>3 DEF WInv, ShellTypes
  <2> HIDE DEF c, n
  <2>3. LET new == AcknowledgeServerMessage(store, c, n, k)
        IN  Follows(store, new) /\ \A i \in new.feed : i.pending => i # Pending(c, k)
    BY <2>2, AcknowledgeServerMessageFollows
  <2> QED
    BY <2>1, <2>3 DEF c
<1>a. excused' \subseteq Messages
  <2> DEFINE c == sentTo[k]
             n == PlaceOf(k)
  <2>1. excused' = excused \cup Skipped(c, {n})
    BY DEF ApplyAck
  <2>2. c \in Chats /\ store \in Stores /\ excused \subseteq Messages
    BY <1>3 DEF WInv, ShellTypes, LinkTypes
  <2> HIDE DEF c, n
  <2>3. Skipped(c, {n}) \subseteq Messages
    BY <2>2, SkippedType
  <2> QED
    BY <2>1, <2>2, <2>3
<1>6. ServerTypes' /\ LinkTypes' /\ ShellTypes'
  BY <1>1, <1>5, <1>a DEF WInv, server, ServerTypes, LinkTypes, ShellTypes, Follows
<1>7. Bounded'
  BY <1>1, BoundsStay DEF WInv
<1>8. SendsAreKnown'
  <2>1. \A j : IsLogged(j) <=> IsLogged(j)'
    BY <1>1 DEF IsLogged, server
  <2> QED
    BY <1>1, <1>2, <2>1 DEF WInv, SendsAreKnown, Uncarried, server
<1>9. CallsAreGood' /\ OlderStay
  BY <1>1, CallsStay DEF WInv
<1>10. LoadingHasRequest'
  BY <1>5, <1>9, LoadingStays DEF WInv
<1>11. PendingIsKept'
  <2>1. ASSUME NEW i \in store'.feed, i.pending
        PROVE  /\ i.id \in 1 .. Len(sentTo)
               /\ i = Pending(sentTo[i.id], i.id)
               /\ i.id \in Submitted'
    <3>1. i \in store.feed
      BY <1>5, <2>1 DEF Follows, Calm
    <3>2. i.id \in 1 .. Len(sentTo) /\ i = Pending(sentTo[i.id], i.id) /\ i.id \in Submitted
      BY <2>1, <3>1 DEF WInv, PendingIsKept
    <3>3. i.id # k
      BY <1>5, <2>1, <3>2
    <3> QED
      BY <1>1, <1>2, <3>2, <3>3 DEF Submitted
  <2> QED
    BY <1>1, <2>1 DEF PendingIsKept
<1> QED
  BY <1>6, <1>7, <1>8, <1>9, <1>10, <1>11 DEF WInv

\* A step of the shell that leaves the connection alone.
LEMMA ShellStep ==
  ASSUME WInv, Follows(store, store'),
         UNCHANGED <<server, conn, wanted, wire, late, acks, queued, unacked, lost, sentTo>>,
         events' \subseteq Messages, excused' \subseteq Messages,
         mobilePane' \in {"chats", "chat"}, route' \in ChatOrNone, strayed' \in BOOLEAN,
         Bounded', CallsAreGood', OlderStay
  PROVE  WInv'
<1>1. ServerTypes'
  BY DEF WInv, server, ServerTypes
<1>2. LinkTypes'
  BY DEF WInv, LinkTypes
<1>3. ShellTypes'
  BY DEF Follows, ShellTypes
<1>4. SendsAreKnown'
  BY SendsStay DEF WInv, server
<1>5. PendingIsKept' /\ LoadingHasRequest'
  BY PendingStays, LoadingStays DEF WInv, Submitted
<1> QED
  BY <1>1, <1>2, <1>3, <1>4, <1>5 DEF WInv

LEMMA ApplyCreatedMessageInv ==
  ASSUME WInv, NEW c \in Chats, NEW n \in 1 .. Len(log[c]), ApplyCreatedMessage(c, n)
  PROVE  WInv'
<1> DEFINE own == log[c][n] # Peer
<1>1. UNCHANGED <<server, conn, wanted, wire, late, acks, queued, unacked, lost, sentTo, mobilePane, route, strayed, upsets>>
  BY DEF ApplyCreatedMessage, outbox
<1>2. events' \subseteq Messages
  BY DEF WInv, LinkTypes, ApplyCreatedMessage
<1>3. n \in Nat
  BY LogType DEF WInv
<1>4. store \in Stores /\ excused \subseteq Messages /\ CallsAreGood
  BY DEF WInv, ShellTypes, LinkTypes
<1>o. own \in BOOLEAN
  OBVIOUS
<1>5. Follows(store, UpsertServerMessage(store, c, n, own))
  BY <1>3, <1>4, <1>o, UpsertServerMessageFollows
<1>6. Skipped(c, {n}) \subseteq Messages
  BY <1>4, SkippedType
<1>7. Follows(store, store') /\ excused' \subseteq Messages /\ CallsAreGood' /\ OlderStay
  <2>1. CASE c \notin DOMAIN store.chats
    <3> DEFINE keep == store.active = NoChat
    <3>1. store' = store /\ excused' = excused
      BY <2>1 DEF ApplyCreatedMessage
    <3>2. PICK t \in Tasks : Free(t) /\ Goto(t, LoadChatWorkspace("created", store.active, keep, store, route))
      BY <2>1 DEF ApplyCreatedMessage
    <3>3. /\ keep \in BOOLEAN /\ "created" \in Origins /\ store.active \in ChatOrNone \cup {"undefined"}
          /\ route \in ChatOrNone
      BY DEF WInv, ShellTypes, Stores, Origins
    <3> HIDE DEF keep
    <3>4. GoodCall(LoadChatWorkspace("created", store.active, keep, store, route))
      BY <1>4, <3>3, LoadIsGood
    <3> QED
      BY <1>4, <3>1, <3>2, <3>4, GoneOn, FollowsItself DEF Free
  <2>2. CASE c \in DOMAIN store.chats /\ c = store.active
    <3> DEFINE with == UpsertServerMessage(store, c, n, own)
    <3>1. /\ excused' = excused \cup Skipped(c, {n})
          /\ store' = MarkChatRead(with, c)
      BY <2>2 DEF ApplyCreatedMessage
    <3>2. PICK t \in Tasks : Free(t) /\ Goto(t, Simple("read", c))
      BY <2>2 DEF ApplyCreatedMessage
    <3>3. GoodCall(Simple("read", c))
      BY SimpleIsGood DEF PCs, ChatOrNone
    <3> HIDE DEF with
    <3>4. Follows(store, with) /\ with \in Stores
      BY <1>5 DEF Follows, with
    <3>5. Follows(with, MarkChatRead(with, c))
      BY <3>4, MarkChatReadFollows
    <3> QED
      BY <1>4, <1>6, <3>1, <3>2, <3>3, <3>4, <3>5, FollowsOn, GoneOn DEF Free
  <2>3. CASE c \in DOMAIN store.chats /\ c # store.active
    <3>1. /\ excused' = excused \cup Skipped(c, {n})
          /\ store' = UpsertServerMessage(store, c, n, own)
          /\ tasks' = tasks
      BY <2>3 DEF ApplyCreatedMessage
    <3> QED
      BY <1>4, <1>5, <1>6, <3>1, CallsStay
  <2> QED
    BY <2>1, <2>2, <2>3
<1>8. Bounded'
  BY <1>1, BoundsStay DEF WInv
<1>9. mobilePane' \in {"chats", "chat"} /\ route' \in ChatOrNone /\ strayed' \in BOOLEAN
  BY <1>1 DEF WInv, ShellTypes
<1> QED
  BY <1>1, <1>2, <1>7, <1>8, <1>9, ShellStep

-----------------------------------------------------------------------------
(* The answers. *)

LEMMA SignInInv ==
  ASSUME WInv, NEW t \in Tasks, tasks[t].pc \in {"me", "login"}, SignIn(t),
         UNCHANGED <<server, upsets>>
  PROVE  WInv'
<1> DEFINE keep == FALSE
           origin == tasks[t].pc
<1>1. /\ store' = SetCurrentUser(store) /\ wanted' = TRUE
      /\ Goto(t, LoadChatWorkspace(origin, "undefined", keep, store, route))
      /\ UNCHANGED <<conn, events, wire, late, acks, queued, unacked, lost, sentTo, mobilePane, route, history>>
  BY DEF SignIn, outbox
<1>2. origin \in Origins /\ origin # "older" /\ keep \in BOOLEAN
      /\ "undefined" \in ChatOrNone \cup {"undefined"}
  BY DEF Origins
<1>3. store \in Stores /\ route \in ChatOrNone
  BY DEF WInv, ShellTypes
<1> HIDE DEF keep, origin
<1>4. GoodCall(LoadChatWorkspace(origin, "undefined", keep, store, route))
  BY <1>2, <1>3, LoadIsGood
<1>5. CallsAreGood' /\ OlderStay
  BY <1>1, <1>2, <1>4, GoneOn DEF WInv, origin
<1>6. Follows(store, store')
  BY <1>1, <1>3, SetCurrentUserFollows
<1>7. ServerTypes' /\ LinkTypes' /\ ShellTypes'
  BY <1>1, <1>6 DEF WInv, server, history, ServerTypes, LinkTypes, ShellTypes, Follows
<1>8. Bounded' /\ SendsAreKnown'
  BY <1>1, BoundsStay, SendsStay DEF WInv, server
<1>9. PendingIsKept' /\ LoadingHasRequest'
  BY <1>1, <1>5, <1>6, PendingStays, LoadingStays DEF WInv, Submitted
<1> QED
  BY <1>5, <1>7, <1>8, <1>9 DEF WInv

LEMMA GoneIdle ==
  ASSUME WInv, NEW t \in Tasks, tasks[t].pc # "older", Goto(t, Idle)
  PROVE  CallsAreGood' /\ OlderStay
BY IdleIsGood, GoneOn DEF WInv

LEMMA NothingElse ==
  ASSUME WInv, CallsAreGood', OlderStay,
         UNCHANGED <<server, connection, shell, history>>, Bounded'
  PROVE  WInv'
<1>1. Follows(store, store')
  BY FollowsItself DEF WInv, ShellTypes, shell
<1>2. events' \subseteq Messages /\ excused' \subseteq Messages
  BY DEF WInv, LinkTypes, connection, outbox, history
<1>3. mobilePane' \in {"chats", "chat"} /\ route' \in ChatOrNone /\ strayed' \in BOOLEAN
  BY DEF WInv, ShellTypes, shell, history
<1> QED
  BY <1>1, <1>2, <1>3, ShellStep DEF connection, outbox

LEMMA BootstrapAnsweredInv ==
  ASSUME WInv, NEW t \in Tasks, BootstrapAnswered(t)
  PROVE  WInv'
<1>1. tasks[t].pc = "me" /\ UNCHANGED <<server, upsets>>
  BY DEF BootstrapAnswered, Awaits
<1>2. CASE SignIn(t)
  BY <1>1, <1>2, SignInInv
<1>3. CASE ~SignIn(t)
  <2>1. /\ store' = IF tasks[t].answer = Unauthorized THEN ClearSession(store) ELSE store
        /\ Goto(t, Idle)
        /\ UNCHANGED <<connection, mobilePane, route, history>>
    BY <1>3 DEF BootstrapAnswered
  <2>2. CallsAreGood' /\ OlderStay
    BY <1>1, <2>1, GoneIdle
  <2>3. Follows(store, store')
    BY <2>1, FollowsItself, ClearSessionFollows DEF WInv, ShellTypes
  <2>4. events' \subseteq Messages /\ excused' \subseteq Messages
    BY <2>1 DEF WInv, LinkTypes, connection, outbox, history
  <2>5. mobilePane' \in {"chats", "chat"} /\ route' \in ChatOrNone /\ strayed' \in BOOLEAN
    BY <2>1 DEF WInv, ShellTypes, history
  <2>6. Bounded'
    BY <1>1, <2>1, BoundsStay DEF WInv, connection, outbox
  <2> QED
    BY <1>1, <2>1, <2>2, <2>3, <2>4, <2>5, <2>6, ShellStep DEF connection, outbox
<1> QED
  BY <1>2, <1>3

LEMMA LoginAnsweredInv ==
  ASSUME WInv, NEW t \in Tasks, LoginAnswered(t)
  PROVE  WInv'
<1>1. tasks[t].pc = "login" /\ UNCHANGED <<server, upsets>>
  BY DEF LoginAnswered, Awaits
<1>2. CASE SignIn(t)
  BY <1>1, <1>2, SignInInv
<1>3. CASE ~SignIn(t)
  <2>1. Goto(t, Idle) /\ UNCHANGED <<connection, shell, history>>
    BY <1>3 DEF LoginAnswered
  <2>2. Bounded'
    BY <1>1, <2>1, BoundsStay DEF WInv, connection, outbox
  <2> QED
    BY <1>1, <2>1, <2>2, GoneIdle, NothingElse
<1> QED
  BY <1>2, <1>3

LEMMA LogoutAnsweredInv ==
  ASSUME WInv, NEW t \in Tasks, LogoutAnswered(t)
  PROVE  WInv'
<1>1. tasks[t].pc = "logout" /\ UNCHANGED <<server, upsets>> /\ Goto(t, Idle)
  BY DEF LogoutAnswered, Awaits
<1>2. CallsAreGood' /\ OlderStay
  BY <1>1, GoneIdle
<1>3. CASE UNCHANGED <<connection, shell, history>>
  <2>1. Bounded'
    BY <1>1, <1>3, BoundsStay DEF WInv, connection, outbox
  <2> QED
    BY <1>1, <1>2, <1>3, <2>1, NothingElse
<1>4. CASE /\ Disconnect /\ mobilePane' = "chats" /\ store' = ClearSession(store)
           /\ UNCHANGED <<route, strayed>>
  <2>1. LinkTypes' /\ SendsAreKnown' /\ sentTo' = sentTo
    BY <1>1, <1>4, Disconnects DEF server
  <2>2. store' \in Stores /\ PendingIsKept' /\ LoadingHasRequest'
    BY <1>4, SessionCleared
  <2>3. ServerTypes' /\ ShellTypes'
    BY <1>1, <1>4, <2>2 DEF WInv, server, ServerTypes, ShellTypes
  <2>4. Bounded'
    BY <1>1, <2>1, BoundsStay DEF WInv
  <2> QED
    BY <1>2, <2>1, <2>2, <2>3, <2>4 DEF WInv
<1> QED
  BY <1>3, <1>4 DEF LogoutAnswered

LEMMA CreateAnsweredInv ==
  ASSUME WInv, NEW t \in Tasks, CreateAnswered(t)
  PROVE  WInv'
<1>1. tasks[t].pc = "create" /\ UNCHANGED <<server, upsets>>
  BY DEF CreateAnswered, Awaits
<1>2. CASE Goto(t, Idle) /\ UNCHANGED <<connection, shell, history>>
  <2>1. Bounded'
    BY <1>1, <1>2, BoundsStay DEF WInv, connection, outbox
  <2> QED
    BY <1>1, <1>2, <2>1, GoneIdle, NothingElse
<1>3. CASE ~(Goto(t, Idle) /\ UNCHANGED <<connection, shell, history>>)
  <2> DEFINE keep == FALSE
             chat == tasks[t].chat
  <2>1. /\ mobilePane' = "chat" /\ UpdateChatRoute(chat)
        /\ Goto(t, LoadChatWorkspace("create", chat, keep, store, route'))
        /\ UNCHANGED <<store, connection, excused>>
    BY <1>3 DEF CreateAnswered
  <2>2. chat \in ChatOrNone
    BY <1>1 DEF WInv, CallsAreGood, GoodCall, ChatOrNone
  <2>3. route' \in ChatOrNone /\ strayed' \in BOOLEAN
    BY <2>1, <2>2 DEF UpdateChatRoute
  <2>4. store \in Stores /\ "create" \in Origins /\ keep \in BOOLEAN /\ chat \in ChatOrNone \cup {"undefined"}
    BY <2>2 DEF WInv, ShellTypes, Origins
  <2> HIDE DEF keep, chat
  <2>5. GoodCall(LoadChatWorkspace("create", chat, keep, store, route'))
    BY <2>3, <2>4, LoadIsGood
  <2>6. CallsAreGood' /\ OlderStay
    BY <1>1, <2>1, <2>5, GoneOn DEF WInv
  <2>7. Follows(store, store')
    BY <2>1, <2>4, FollowsItself
  <2>8. events' \subseteq Messages /\ excused' \subseteq Messages
    BY <2>1 DEF WInv, LinkTypes, connection, outbox
  <2>9. Bounded'
    BY <1>1, <2>1, BoundsStay DEF WInv, connection, outbox
  <2> QED
    BY <1>1, <2>1, <2>3, <2>6, <2>7, <2>8, <2>9, ShellStep DEF connection, outbox
<1> QED
  BY <1>2, <1>3
LEMMA ListAnsweredInv ==
  ASSUME WInv, NEW t \in Tasks, ListAnswered(t)
  PROVE  WInv'
<1> DEFINE task == tasks[t]
           select == ~task.keep
           loaded == SetDirectChats(store, task.answer.chats, task.answer.first, task.chat, select)
<1>1. task.pc = "list" /\ Arrived(task) /\ UNCHANGED <<server, connection, excused, upsets>>
  BY DEF ListAnswered, Awaits, Ok, Arrived
<1>2. mobilePane' \in {"chats", "chat"}
  BY DEF WInv, ShellTypes, ListAnswered
<1>3. \/ /\ loaded.active # NoChat
         /\ store' = loaded /\ UpdateChatRoute(loaded.active) /\ Goto(t, Simple("page", loaded.active))
      \/ /\ store' = ClearMessages(loaded) /\ Goto(t, Idle) /\ UNCHANGED <<route, strayed>>
  BY DEF ListAnswered
<1>4. GoodCall(task) /\ store \in Stores
  BY DEF WInv, CallsAreGood, ShellTypes
<1>5. task.answer.chats \in Badges /\ task.answer.first \in ChatOrNone
  BY <1>1, <1>4, ListArrived
<1>6. select \in BOOLEAN
  OBVIOUS
<1> HIDE DEF select
<1>7. Follows(store, loaded) /\ loaded \in Stores
  <2>1. Follows(store, loaded)
    BY <1>4, <1>5, <1>6, SetDirectChatsFollows
  <2> QED
    BY <2>1 DEF Follows
<1> HIDE DEF loaded
<1>8. tasks[t].pc # "older"
  BY <1>1
<1> HIDE DEF task
<1>9. /\ Follows(store, store') /\ CallsAreGood' /\ OlderStay
      /\ route' \in ChatOrNone /\ strayed' \in BOOLEAN
  <2>1. CASE /\ loaded.active # NoChat
             /\ store' = loaded /\ UpdateChatRoute(loaded.active) /\ Goto(t, Simple("page", loaded.active))
    <3>1. loaded.active \in Chats
      BY <1>7, <2>1 DEF Stores, ChatOrNone
    <3>2. GoodCall(Simple("page", loaded.active))
      BY <3>1, SimpleIsGood DEF PCs, ChatOrNone
    <3>3. CallsAreGood' /\ OlderStay
      BY <1>8, <2>1, <3>2, GoneOn DEF WInv
    <3> QED
      BY <1>7, <2>1, <3>1, <3>3 DEF UpdateChatRoute, ChatOrNone
  <2>2. CASE store' = ClearMessages(loaded) /\ Goto(t, Idle) /\ UNCHANGED <<route, strayed>>
    <3>1. CallsAreGood' /\ OlderStay
      BY <1>8, <2>2, GoneIdle
    <3>2. Follows(loaded, ClearMessages(loaded))
      BY <1>7, ClearMessagesFollows
    <3> QED
      BY <1>7, <2>2, <3>1, <3>2, FollowsOn DEF WInv, ShellTypes
  <2> QED
    BY <1>3, <2>1, <2>2
<1>10. Bounded'
  BY <1>1, BoundsStay DEF WInv, connection, outbox
<1>11. events' \subseteq Messages /\ excused' \subseteq Messages
  BY <1>1 DEF WInv, LinkTypes, connection, outbox
<1> QED
  BY <1>1, <1>2, <1>9, <1>10, <1>11, ShellStep DEF connection, outbox

LEMMA ListFailedInv ==
  ASSUME WInv, NEW t \in Tasks, ListFailed(t)
  PROVE  WInv'
<1>1. tasks[t].pc = "list" /\ Goto(t, Idle) /\ strayed' = TRUE /\ UNCHANGED <<server, upsets>>
  BY DEF ListFailed, Awaits
<1>2. CallsAreGood' /\ OlderStay
  BY <1>1, GoneIdle
<1>3. CASE HandleSessionExpired
  <2>1. LinkTypes' /\ SendsAreKnown' /\ sentTo' = sentTo /\ ShellTypes' /\ PendingIsKept'
        /\ LoadingHasRequest'
    BY <1>1, <1>3, SignedOut DEF server
  <2>2. ServerTypes'
    BY <1>1 DEF WInv, server, ServerTypes
  <2>3. Bounded'
    BY <1>1, <2>1, BoundsStay DEF WInv
  <2> QED
    BY <1>2, <2>1, <2>2, <2>3 DEF WInv
<1>4. CASE ~HandleSessionExpired
  <2>1. /\ store' = store \/ store' = ClearSession(store)
        /\ excused' = excused \/ excused' = excused \cup AllSoFar
        /\ UNCHANGED <<connection, mobilePane, route>>
    BY <1>4 DEF ListFailed, shell
  <2>2. Follows(store, store')
    BY <2>1, FollowsItself, ClearSessionFollows DEF WInv, ShellTypes
  <2>3. events' \subseteq Messages /\ excused' \subseteq Messages
    BY <2>1, AllSoFarType DEF WInv, LinkTypes, connection, outbox
  <2>4. mobilePane' \in {"chats", "chat"} /\ route' \in ChatOrNone /\ strayed' \in BOOLEAN
    BY <1>1, <2>1 DEF WInv, ShellTypes
  <2>5. Bounded'
    BY <1>1, <2>1, BoundsStay DEF WInv, connection, outbox
  <2> QED
    BY <1>1, <1>2, <2>1, <2>2, <2>3, <2>4, <2>5, ShellStep DEF connection, outbox
<1> QED
  BY <1>3, <1>4

LEMMA PageAnsweredInv ==
  ASSUME WInv, NEW t \in Tasks, PageAnswered(t)
  PROVE  WInv'
<1> DEFINE task == tasks[t]
           c == task.chat
           set == SetMessages(store, c, task.answer.seqs, task.answer.hasMore)
           base == IF Ok(t) THEN set ELSE store
<1>1. /\ task.pc = "page" /\ task.answer.tag # "none"
      /\ UNCHANGED <<server, connection, mobilePane, route, strayed, upsets>>
      /\ store' = MarkChatRead(base, c) /\ Goto(t, Simple("read", c))
      /\ excused' = excused \cup (IF Ok(t) THEN Overtaken(c, task.answer.seqs) ELSE AllSoFar)
  BY DEF PageAnswered, Awaits
<1>2. GoodCall(task) /\ store \in Stores /\ excused \subseteq Messages /\ ServerTypes
  BY DEF WInv, CallsAreGood, ShellTypes, LinkTypes
<1>3. c \in Chats
  BY <1>1, <1>2 DEF GoodCall
<1>4. Follows(store, base) /\ base \in Stores
  <2>1. CASE Ok(t)
    <3>1. task.answer.seqs \in SUBSET Nat /\ task.answer.hasMore \in BOOLEAN
      BY <1>1, <1>2, <2>1, PageArrived DEF Ok, Arrived
    <3>2. Follows(store, set)
      <4> DEFINE seqs == task.answer.seqs
                 hasMore == task.answer.hasMore
      <4> HIDE DEF c, seqs, hasMore
      <4>1. Follows(store, SetMessages(store, c, seqs, hasMore))
        BY <1>2, <1>3, <3>1, SetMessagesFollows DEF seqs, hasMore
      <4> QED
        BY <4>1 DEF seqs, hasMore
    <3> QED
      BY <2>1, <3>2 DEF Follows
  <2>2. CASE ~Ok(t)
    BY <1>2, <2>2, FollowsItself
  <2> QED
    BY <2>1, <2>2
<1>5. excused' \subseteq Messages
  BY <1>1, <1>2, <1>3, OvertakenType, AllSoFarType
<1> HIDE DEF base
<1>6. Follows(base, MarkChatRead(base, c))
  BY <1>4, MarkChatReadFollows
<1>7. Follows(store, store')
  BY <1>1, <1>4, <1>6, FollowsOn
<1>8. GoodCall(Simple("read", c))
  BY <1>3, SimpleIsGood DEF PCs, ChatOrNone
<1>9. CallsAreGood' /\ OlderStay
  BY <1>1, <1>8, GoneOn DEF WInv
<1>10. events' \subseteq Messages /\ mobilePane' \in {"chats", "chat"} /\ route' \in ChatOrNone
       /\ strayed' \in BOOLEAN
  BY <1>1 DEF WInv, LinkTypes, ShellTypes, connection, outbox
<1>11. Bounded'
  BY <1>1, BoundsStay DEF WInv, connection, outbox
<1> QED
  BY <1>1, <1>5, <1>7, <1>9, <1>10, <1>11, ShellStep DEF connection, outbox

LEMMA OlderAnsweredInv ==
  ASSUME WInv, NEW t \in Tasks, OlderAnswered(t)
  PROVE  WInv'
<1> DEFINE task == tasks[t]
           c == task.chat
<1>1. /\ task.pc = "older" /\ task.answer.tag # "none" /\ Goto(t, Idle)
      /\ UNCHANGED <<server, connection, mobilePane, route, strayed, upsets>>
  BY DEF OlderAnswered, Awaits
<1>2. GoodCall(task) /\ store \in Stores /\ excused \subseteq Messages /\ CallsAreGood
  BY DEF WInv, CallsAreGood, ShellTypes, LinkTypes
<1>3. c \in Chats
  BY <1>1, <1>2 DEF GoodCall
<1>4. Follows(store, store') /\ Loaded(store', c) /\ excused' \subseteq Messages
  <2>1. CASE Ok(t)
    <3> DEFINE seqs == task.answer.seqs
               hasMore == task.answer.hasMore
    <3>1. store' = PrependOlderMessages(store, c, seqs, hasMore) /\ excused' = excused \cup Skipped(c, seqs)
      BY <2>1 DEF OlderAnswered
    <3>2. seqs \in SUBSET Nat /\ hasMore \in BOOLEAN
      BY <1>1, <1>2, <2>1, PageArrived DEF Ok, Arrived
    <3> HIDE DEF c, seqs, hasMore
    <3>3. /\ Follows(store, PrependOlderMessages(store, c, seqs, hasMore))
          /\ Loaded(PrependOlderMessages(store, c, seqs, hasMore), c)
      BY <1>2, <1>3, <3>2, PrependOlderMessagesFollows
    <3>4. Skipped(c, seqs) \subseteq Messages
      BY <1>2, <1>3, SkippedType
    <3> QED
      BY <1>2, <3>1, <3>3, <3>4
  <2>2. CASE ~Ok(t)
    <3> DEFINE loading == FALSE
    <3>1. store' = SetOlderMessagesLoading(store, c, loading) /\ excused' = excused
      BY <2>2 DEF OlderAnswered
    <3>a. loading \in BOOLEAN
      OBVIOUS
    <3> HIDE DEF c, loading
    <3>2. LET new == SetOlderMessagesLoading(store, c, loading)
          IN  /\ new \in Stores /\ new.feed = store.feed
              /\ DOMAIN new.pages = DOMAIN store.pages \cup {c}
              /\ new.pages[c].loading = loading
              /\ \A d \in DOMAIN store.pages : d # c => new.pages[d] = store.pages[d]
      BY <1>2, <1>3, <3>a, SetOlderMessagesLoadingType
    <3>3. /\ store' \in Stores /\ store'.feed = store.feed
          /\ DOMAIN store'.pages = DOMAIN store.pages \cup {c}
          /\ store'.pages[c].loading = FALSE
          /\ \A d \in DOMAIN store.pages : d # c => store'.pages[d] = store.pages[d]
      BY <3>1, <3>2 DEF loading
    <3> QED
      BY <1>2, <3>1, <3>3 DEF Follows, Calm, Loaded
  <2> QED
    BY <2>1, <2>2
<1>5. CallsAreGood' /\ \A u \in Tasks : u # t => tasks'[u] = tasks[u]
  BY <1>1, <1>2, IdleIsGood, GoneTo
<1>6. ServerTypes' /\ LinkTypes' /\ ShellTypes'
  BY <1>1, <1>4 DEF WInv, server, connection, outbox, ServerTypes, LinkTypes, ShellTypes, Follows
<1>7. Bounded' /\ SendsAreKnown'
  BY <1>1, BoundsStay, SendsStay DEF WInv, server, connection, outbox
<1>8. PendingIsKept'
  BY <1>1, <1>4, PendingStays DEF WInv, connection, outbox, Submitted
<1>9. LoadingHasRequest'
  <2>1. ASSUME NEW d \in DOMAIN store'.pages, store'.pages[d].loading
        PROVE  \E u \in Tasks : tasks'[u].pc = "older" /\ tasks'[u].chat = d
    <3>1. d # c
      BY <1>4, <2>1 DEF Loaded
    <3>2. d \in DOMAIN store.pages /\ store.pages[d].loading
      BY <1>4, <2>1 DEF Follows, Calm
    <3>3. PICK u \in Tasks : tasks[u].pc = "older" /\ tasks[u].chat = d
      BY <3>2 DEF WInv, LoadingHasRequest
    <3>4. u # t
      BY <3>1, <3>3
    <3> QED
      BY <1>5, <3>3, <3>4
  <2> QED
    BY <2>1 DEF LoadingHasRequest
<1> QED
  BY <1>5, <1>6, <1>7, <1>8, <1>9 DEF WInv

LEMMA ReadAnsweredInv ==
  ASSUME WInv, NEW t \in Tasks, ReadAnswered(t)
  PROVE  WInv'
<1>1. /\ tasks[t].pc = "read" /\ Goto(t, Idle)
      /\ excused' = IF Ok(t) THEN excused ELSE excused \cup AllSoFar
      /\ UNCHANGED <<server, connection, shell, strayed, upsets>>
  BY DEF ReadAnswered, Awaits
<1>2. CallsAreGood' /\ OlderStay
  BY <1>1, GoneIdle
<1>3. Follows(store, store')
  BY <1>1, FollowsItself DEF WInv, ShellTypes, shell
<1>4. events' \subseteq Messages /\ excused' \subseteq Messages
  BY <1>1, AllSoFarType DEF WInv, LinkTypes, connection, outbox
<1>5. mobilePane' \in {"chats", "chat"} /\ route' \in ChatOrNone /\ strayed' \in BOOLEAN
  BY <1>1 DEF WInv, ShellTypes, shell
<1>6. Bounded'
  BY <1>1, BoundsStay DEF WInv, connection, outbox
<1> QED
  BY <1>1, <1>2, <1>3, <1>4, <1>5, <1>6, ShellStep DEF connection, outbox
-----------------------------------------------------------------------------
(* The user. *)

LEMMA OpenInv ==
  ASSUME WInv, NEW c \in Chats, Open(c), Upset
  PROVE  WInv'
<1> DEFINE opened == SetActiveChat(store, c)
<1>1. /\ mobilePane' = "chat" /\ UpdateChatRoute(c) /\ store' = MarkChatRead(opened, c)
      /\ UNCHANGED <<server, connection, excused>>
  BY DEF Open
<1>2. PICK t \in Tasks : Free(t) /\ Goto(t, Simple("page", c))
  BY DEF Open
<1>3. GoodCall(Simple("page", c))
  BY SimpleIsGood DEF PCs, ChatOrNone
<1>4. CallsAreGood' /\ OlderStay
  BY <1>2, <1>3, GoneOn DEF WInv, Free
<1>5. Follows(store, opened) /\ opened \in Stores
  BY SetActiveChatFollows DEF WInv, ShellTypes, ChatOrNone, Follows
<1> HIDE DEF opened
<1>6. Follows(opened, MarkChatRead(opened, c))
  BY <1>5, MarkChatReadFollows
<1>7. Follows(store, store')
  BY <1>1, <1>5, <1>6, FollowsOn
<1>8. events' \subseteq Messages /\ excused' \subseteq Messages
  BY <1>1 DEF WInv, LinkTypes, connection, outbox
<1>9. route' \in ChatOrNone /\ strayed' \in BOOLEAN
  BY <1>1 DEF UpdateChatRoute, ChatOrNone
<1>10. Bounded'
  BY <1>1, UpsetStays DEF WInv, connection, outbox
<1> QED
  BY <1>1, <1>4, <1>7, <1>8, <1>9, <1>10, ShellStep DEF connection, outbox

LEMMA ListedIsChat ==
  ASSUME WInv
  PROVE  DOMAIN store.chats \subseteq Chats /\ DOMAIN store.pages \subseteq Chats
BY BadgesType, PagesType DEF WInv, ShellTypes, Stores

LEMMA HandleRouteChangeInv ==
  ASSUME WInv, NEW hash \in ChatOrNone, HandleRouteChange(hash)
  PROVE  WInv'
<1>1. CASE hash \in DOMAIN store.chats /\ Open(hash)
  BY <1>1, ListedIsChat, OpenInv DEF HandleRouteChange
<1>2. CASE /\ route' = hash /\ strayed' = (hash # store.active)
           /\ UNCHANGED <<server, connection, store, mobilePane, tasks, excused>>
  <2>1. CallsAreGood' /\ OlderStay
    BY <1>2, CallsStay DEF WInv
  <2>2. Follows(store, store')
    BY <1>2, FollowsItself DEF WInv, ShellTypes
  <2>3. events' \subseteq Messages /\ excused' \subseteq Messages
    BY <1>2 DEF WInv, LinkTypes, connection, outbox
  <2>4. mobilePane' \in {"chats", "chat"} /\ route' \in ChatOrNone
    BY <1>2 DEF WInv, ShellTypes
  <2>5. strayed' \in BOOLEAN
    BY <1>2
  <2>6. Bounded'
    BY <1>2, UpsetStays DEF WInv, HandleRouteChange, connection, outbox
  <2> QED
    BY <1>2, <2>1, <2>2, <2>3, <2>4, <2>5, <2>6, ShellStep DEF connection, outbox
<1> QED
  BY <1>1, <1>2 DEF HandleRouteChange

LEMMA CloseMobileChatPaneInv ==
  ASSUME WInv, CloseMobileChatPane
  PROVE  WInv'
<1>1. /\ mobilePane' = "chats" /\ ClearChatRoute /\ store' = CloseActiveChat(store)
      /\ UNCHANGED <<server, connection, tasks, history>>
  BY DEF CloseMobileChatPane
<1>2. CallsAreGood' /\ OlderStay
  BY <1>1, CallsStay DEF WInv
<1>3. Follows(store, store')
  BY <1>1, CloseActiveChatFollows DEF WInv, ShellTypes
<1>4. events' \subseteq Messages /\ excused' \subseteq Messages
  BY <1>1 DEF WInv, LinkTypes, connection, outbox, history
<1>5. route' \in ChatOrNone /\ strayed' \in BOOLEAN
  BY <1>1 DEF WInv, ShellTypes, ClearChatRoute, ChatOrNone, history
<1>6. Bounded'
  BY <1>1, UpsetStays DEF WInv, CloseMobileChatPane, connection, outbox
<1> QED
  BY <1>1, <1>2, <1>3, <1>4, <1>5, <1>6, ShellStep DEF connection, outbox

LEMMA LoadOlderInv ==
  ASSUME WInv, LoadOlder
  PROVE  WInv'
<1> DEFINE c == store.active
           before == store.pages[c].oldest
           loading == TRUE
           keep == FALSE
<1>1. /\ c \in DOMAIN store.pages /\ Upset
      /\ store' = SetOlderMessagesLoading(store, c, loading)
      /\ UNCHANGED <<server, connection, mobilePane, route, history>>
  BY DEF LoadOlder
<1>2. PICK t \in Tasks : Free(t) /\ Goto(t, Task("older", "none", c, keep, NoChat, before))
  BY DEF LoadOlder
<1>3. c \in Chats /\ store \in Stores
  BY <1>1, ListedIsChat DEF WInv, ShellTypes
<1>4. before \in Nat
  BY <1>1, <1>3, PagesType DEF Stores, PageStates
<1>5. /\ "older" \in PCs /\ "none" \in Origins /\ c \in ChatOrNone /\ NoChat \in ChatOrNone
      /\ keep \in BOOLEAN /\ loading \in BOOLEAN
  BY <1>3 DEF PCs, Origins, ChatOrNone
<1> HIDE DEF c, before, keep, loading
<1>6. LET task == Task("older", "none", c, keep, NoChat, before)
      IN  GoodCall(task) /\ task.pc = "older" /\ task.chat = c
  BY <1>3, <1>4, <1>5, TaskIsGood
<1>7. /\ CallsAreGood' /\ tasks'[t].pc = "older" /\ tasks'[t].chat = c
      /\ \A u \in Tasks : u # t => tasks'[u] = tasks[u]
  BY <1>2, <1>6, GoneTo DEF WInv
<1>8. LET new == SetOlderMessagesLoading(store, c, loading)
      IN  /\ new \in Stores /\ new.feed = store.feed
          /\ DOMAIN new.pages = DOMAIN store.pages \cup {c}
          /\ \A d \in DOMAIN store.pages : d # c => new.pages[d] = store.pages[d]
  BY <1>3, <1>5, SetOlderMessagesLoadingType
<1>9. /\ store' \in Stores /\ store'.feed = store.feed
      /\ DOMAIN store'.pages = DOMAIN store.pages \cup {c}
      /\ \A d \in DOMAIN store.pages : d # c => store'.pages[d] = store.pages[d]
  BY <1>1, <1>8
<1>10. ServerTypes' /\ LinkTypes' /\ ShellTypes'
  BY <1>1, <1>9 DEF WInv, server, connection, outbox, history, ServerTypes, LinkTypes, ShellTypes
<1>11. Bounded' /\ SendsAreKnown'
  BY <1>1, UpsetStays, SendsStay DEF WInv, server, connection, outbox
<1>12. PendingIsKept'
  BY <1>1, <1>9 DEF WInv, PendingIsKept, connection, outbox, Submitted
<1>13. LoadingHasRequest'
  <2>1. ASSUME NEW d \in DOMAIN store'.pages, store'.pages[d].loading, d # c
        PROVE  \E u \in Tasks : tasks'[u].pc = "older" /\ tasks'[u].chat = d
    <3>1. d \in DOMAIN store.pages /\ store.pages[d].loading
      BY <1>9, <2>1
    <3>2. PICK u \in Tasks : tasks[u].pc = "older" /\ tasks[u].chat = d
      BY <3>1 DEF WInv, LoadingHasRequest
    <3>3. u # t
      BY <1>2, <3>2 DEF Free
    <3> QED
      BY <1>7, <3>2, <3>3
  <2>2. \A d \in DOMAIN store'.pages : store'.pages[d].loading =>
          \E u \in Tasks : tasks'[u].pc = "older" /\ tasks'[u].chat = d
    BY <1>7, <2>1
  <2> QED
    BY <2>2 DEF LoadingHasRequest
<1> QED
  BY <1>7, <1>10, <1>11, <1>12, <1>13 DEF WInv

\* A new send: an open connection carries it, otherwise it is queued or lost.
LEMMA SubmitMessageInv ==
  ASSUME WInv, SubmitMessage
  PROVE  WInv'
<1>1. PICK k \in Nat : k = Len(sentTo) + 1
  BY DEF WInv, Bounded
<1>2. /\ Upset /\ store' = AddLocalMessage(store, k) /\ sentTo' = Append(sentTo, store.active)
      /\ UNCHANGED <<server, conn, events, late, acks, mobilePane, route, tasks, history>>
  BY <1>1 DEF SubmitMessage
<1>a. \/ /\ queued' \cup lost' = queued \cup lost \cup {k}
         /\ \A j \in lost' : j \notin queued' \/ (j \in lost /\ j = k)
         /\ conn = "off" /\ wanted' = TRUE /\ UNCHANGED <<unacked, wire>>
      \/ /\ unacked' = unacked \cup {k} /\ wire' = wire \cup {k}
         /\ conn # "off" /\ UNCHANGED <<queued, lost, wanted>>
  <2> DEFINE over == Excess(queued \cup {k})
  <2>1. over \subseteq queued \cup {k}
    BY DEF Excess
  <2>2. \/ /\ queued' = (queued \cup {k}) \ over /\ lost' = lost \cup over
           /\ conn = "off" /\ wanted' = TRUE /\ UNCHANGED <<unacked, wire>>
        \/ /\ unacked' = unacked \cup {k} /\ wire' = wire \cup {k}
           /\ conn # "off" /\ UNCHANGED <<queued, lost, wanted>>
    BY <1>1 DEF SubmitMessage
  <2>3. \A j \in lost : j \notin queued
    BY DEF WInv, SendsAreKnown
  <2> HIDE DEF over
  <2> QED
    BY <2>1, <2>2, <2>3
<1>3. store.active \in Chats /\ store \in Stores
  BY ListedIsChat DEF WInv, ShellTypes, SubmitMessage, FeedIsShown
<1>4. /\ store' \in Stores /\ store'.pages = store.pages
      /\ store'.feed = store.feed \cup {Pending(store.active, k)}
  BY <1>2, <1>3, AddLocalMessageType
<1>5. /\ sentTo' \in Seq(Chats) /\ Len(sentTo') = k /\ sentTo'[k] = store.active
      /\ \A j \in 1 .. Len(sentTo) : sentTo'[j] = sentTo[j]
      /\ Len(sentTo) \in Nat
  BY <1>1, <1>2, <1>3 DEF WInv, Bounded
<1>6. 1 .. Len(sentTo) \subseteq 1 .. k /\ k \in 1 .. k /\ k \notin 1 .. Len(sentTo)
  BY <1>1, <1>5
<1>7. ServerTypes' /\ LinkTypes' /\ ShellTypes'
  BY <1>2, <1>4, <1>a DEF WInv, server, history, ServerTypes, LinkTypes, ShellTypes
<1>8. Bounded'
  BY <1>1, <1>2, <1>5, BoundsAssumption DEF WInv, Bounded, Upset
<1>9. \A j \in 1 .. Len(sentTo) : IsLogged(j) <=> IsLogged(j)'
  BY <1>2, <1>5 DEF IsLogged, server
<1>10. ~IsLogged(k)'
  <2>1. log' = log /\ sentTo'[k] = store.active
    BY <1>2, <1>5 DEF server
  <2> QED
    BY <1>1, <1>3, <1>5, <2>1 DEF IsLogged, WInv, SendsAreKnown
<1>11. SendsAreKnown'
  <2>1. /\ wire' \subseteq 1 .. k /\ late' \subseteq 1 .. k /\ queued' \subseteq 1 .. k
        /\ unacked' \subseteq 1 .. k /\ lost' \subseteq 1 .. k /\ acks' \subseteq 1 .. k
    <3>1. /\ wire \subseteq 1 .. k /\ late \subseteq 1 .. k /\ queued \subseteq 1 .. k
          /\ unacked \subseteq 1 .. k /\ lost \subseteq 1 .. k /\ acks \subseteq 1 .. k
      BY <1>6 DEF WInv, SendsAreKnown
    <3> DEFINE K == 1 .. k
    <3>2. k \in K
      BY <1>6
    <3> HIDE DEF K
    <3>3. /\ wire' \subseteq K /\ late' \subseteq K /\ queued' \subseteq K
          /\ unacked' \subseteq K /\ lost' \subseteq K /\ acks' \subseteq K
      BY <1>2, <1>a, <3>1, <3>2 DEF K
    <3> QED
      BY <3>3 DEF K
  <2>2. \A j \in acks' : IsLogged(j)'
    BY <1>2, <1>9 DEF WInv, SendsAreKnown
  <2>3. ASSUME NEW j \in Uncarried' PROVE ~IsLogged(j)' /\ j \notin (wire \cup late \cup unacked)'
    <3>1. j \in Uncarried \/ (j = k /\ conn = "off")
      BY <1>a, <2>3 DEF Uncarried
    <3>2. CASE j \in Uncarried
      <4>1. j \in 1 .. Len(sentTo) /\ ~IsLogged(j) /\ j \notin wire \cup late \cup unacked
        BY <3>2 DEF WInv, SendsAreKnown, Uncarried
      <4> QED
        BY <1>2, <1>6, <1>9, <1>a, <4>1
    <3>3. CASE j = k /\ conn = "off"
      BY <1>2, <1>6, <1>10, <1>a, <3>3 DEF WInv, SendsAreKnown
    <3> QED
      BY <3>1, <3>2, <3>3
  <2>4. conn' # "off" => queued' = {}
    BY <1>2, <1>a DEF WInv, SendsAreKnown
  <2>5. \A c \in Chats : \A n \in 1 .. Len(log'[c]) : log'[c][n] \in 0 .. k
    <3>1. log' = log /\ 0 .. Len(sentTo) \subseteq 0 .. k
      BY <1>1, <1>2, <1>5 DEF server
    <3> QED
      BY <3>1 DEF WInv, SendsAreKnown
  <2>6. \A j \in lost' : j \notin queued'
    BY <1>6, <1>a DEF WInv, SendsAreKnown
  <2> QED
    BY <1>5, <2>1, <2>2, <2>3, <2>4, <2>5, <2>6 DEF SendsAreKnown
<1>12. CallsAreGood' /\ OlderStay
  BY <1>2, CallsStay DEF WInv
<1>13. PendingIsKept'
  <2>1. ASSUME NEW i \in store'.feed, i.pending
        PROVE  /\ i.id \in 1 .. Len(sentTo')
               /\ i = Pending(sentTo'[i.id], i.id)
               /\ i.id \in Submitted'
    <3>1. Submitted \subseteq Submitted' /\ k \in Submitted'
      BY <1>a DEF Submitted
    <3>2. CASE i = Pending(store.active, k)
      <4>1. i.id = k
        BY <3>2 DEF Pending
      <4> QED
        BY <1>5, <1>6, <3>1, <3>2, <4>1
    <3>3. CASE i # Pending(store.active, k)
      <4>1. i \in store.feed
        BY <1>4, <3>3
      <4>2. i.id \in 1 .. Len(sentTo) /\ i = Pending(sentTo[i.id], i.id) /\ i.id \in Submitted
        BY <2>1, <4>1 DEF WInv, PendingIsKept
      <4> QED
        BY <1>5, <1>6, <3>1, <4>2
    <3> QED
      BY <3>2, <3>3
  <2> QED
    BY <2>1 DEF PendingIsKept
<1>14. LoadingHasRequest'
  BY <1>2, <1>4 DEF WInv, LoadingHasRequest
<1> QED
  BY <1>7, <1>8, <1>11, <1>12, <1>13, <1>14 DEF WInv

LEMMA MarkReadFromMenuInv ==
  ASSUME WInv, NEW c \in Chats, MarkReadFromMenu(c)
  PROVE  WInv'
<1>1. /\ store' = MarkChatRead(store, c)
      /\ UNCHANGED <<server, connection, mobilePane, route, history>>
  BY DEF MarkReadFromMenu
<1>2. PICK t \in Tasks : Free(t) /\ Goto(t, Simple("read", c))
  BY DEF MarkReadFromMenu
<1>3. GoodCall(Simple("read", c))
  BY SimpleIsGood DEF PCs, ChatOrNone
<1>4. CallsAreGood' /\ OlderStay
  BY <1>2, <1>3, GoneOn DEF WInv, Free
<1>5. Follows(store, store')
  BY <1>1, MarkChatReadFollows DEF WInv, ShellTypes
<1>6. events' \subseteq Messages /\ excused' \subseteq Messages
  BY <1>1 DEF WInv, LinkTypes, connection, outbox, history
<1>7. mobilePane' \in {"chats", "chat"} /\ route' \in ChatOrNone /\ strayed' \in BOOLEAN
  BY <1>1 DEF WInv, ShellTypes, history
<1>8. Bounded'
  BY <1>1, UpsetStays DEF WInv, MarkReadFromMenu, connection, outbox
<1> QED
  BY <1>1, <1>4, <1>5, <1>6, <1>7, <1>8, ShellStep DEF connection, outbox

LEMMA RequestInv ==
  ASSUME WInv, NEW pc \in {"login", "logout", "create"}, NEW c \in ChatOrNone,
         pc = "create" => c \in Chats, Request(pc, c)
  PROVE  WInv'
<1>1. Upset /\ UNCHANGED <<server, connection, shell, history>>
  BY DEF Request
<1>2. PICK t \in Tasks : Free(t) /\ Goto(t, Simple(pc, c))
  BY DEF Request
<1>3. GoodCall(Simple(pc, c))
  BY SimpleIsGood DEF PCs
<1>4. CallsAreGood' /\ OlderStay
  BY <1>2, <1>3, GoneOn DEF WInv, Free
<1>5. Bounded'
  BY <1>1, UpsetStays DEF WInv, connection, outbox
<1> QED
  BY <1>1, <1>4, <1>5, NothingElse

-----------------------------------------------------------------------------
LEMMA TaskStepInv ==
  ASSUME WInv, NEW t \in Tasks, TaskStep(t)
  PROVE  WInv'
<1>1. CASE Serve(t) \/ Fails(t)
  BY <1>1, ServeInv, FailsInv
<1>2. CASE BootstrapAnswered(t) \/ LoginAnswered(t) \/ LogoutAnswered(t) \/ CreateAnswered(t)
  BY <1>2, BootstrapAnsweredInv, LoginAnsweredInv, LogoutAnsweredInv, CreateAnsweredInv
<1>3. CASE ListAnswered(t) \/ ListFailed(t) \/ PageAnswered(t) \/ OlderAnswered(t) \/ ReadAnswered(t)
  BY <1>3, ListAnsweredInv, ListFailedInv, PageAnsweredInv, OlderAnsweredInv, ReadAnsweredInv
<1> QED
  BY <1>1, <1>2, <1>3 DEF TaskStep

LEMMA ChatStepInv ==
  ASSUME WInv, NEW c \in Chats, ChatStep(c)
  PROVE  WInv'
<1>1. CASE PeerSends(c)
  BY <1>1, PeerSendsInv
<1>2. CASE OpenChat(c)
  BY <1>2, OpenInv DEF OpenChat
<1>3. CASE MarkReadFromMenu(c)
  BY <1>3, MarkReadFromMenuInv
<1>4. CASE CreateDirectChat(c)
  <2>1. Request("create", c) /\ c \in ChatOrNone
    BY <1>4 DEF CreateDirectChat, ChatOrNone
  <2> QED
    BY <2>1, RequestInv
<1>5. ASSUME NEW n \in 1 .. Len(log[c]), BroadcastAgain(c, n) \/ ApplyCreatedMessage(c, n)
      PROVE  WInv'
  BY <1>5, BroadcastAgainInv, ApplyCreatedMessageInv
<1> QED
  BY <1>1, <1>2, <1>3, <1>4, <1>5 DEF ChatStep

LEMMA NextInv ==
  ASSUME WInv, [Next]_vars
  PROVE  WInv'
<1>1. ASSUME NEW t \in Tasks, TaskStep(t) PROVE WInv'
  BY <1>1, TaskStepInv
<1>2. ASSUME NEW c \in Chats, ChatStep(c) PROVE WInv'
  BY <1>2, ChatStepInv
<1>3. ASSUME NEW k \in 1 .. MaxUpsets, SendStep(k) PROVE WInv'
  BY <1>3, StoreSentInv, StoreLateInv, SendFailsInv, ApplyAckInv DEF SendStep
<1>4. ASSUME NEW hash \in ChatOrNone, HandleRouteChange(hash) PROVE WInv'
  BY <1>4, HandleRouteChangeInv
<1>5. CASE Expires \/ Drops \/ GivesUp \/ Opens \/ Attach \/ Refuse
  BY <1>5, ExpiresInv, DropsInv, GivesUpInv, OpensInv, AttachInv, RefuseInv
<1>6. CASE CloseMobileChatPane \/ LoadOlder \/ SubmitMessage
  BY <1>6, CloseMobileChatPaneInv, LoadOlderInv, SubmitMessageInv
<1>7. CASE Login \/ HandleLogout
  <2>1. NoChat \in ChatOrNone
    BY DEF ChatOrNone
  <2>2. Request("login", NoChat) \/ Request("logout", NoChat)
    BY <1>7 DEF Login, HandleLogout
  <2> QED
    BY <2>1, <2>2, RequestInv
<1>8. CASE UNCHANGED vars
  <2>1. UNCHANGED <<server, connection, shell, history>> /\ tasks' = tasks /\ upsets' = upsets
    BY <1>8 DEF vars
  <2>2. CallsAreGood' /\ OlderStay
    BY <2>1, CallsStay DEF WInv
  <2>3. Bounded'
    BY <2>1, BoundsStay DEF WInv, connection, outbox
  <2> QED
    BY <2>1, <2>2, <2>3, NothingElse
<1> QED
  BY <1>1, <1>2, <1>3, <1>4, <1>5, <1>6, <1>7, <1>8 DEF Next

LEMMA Invariance == Spec => []WInv
<1>1. Init => WInv
  BY InitInv
<1>2. WInv /\ [Next]_vars => WInv'
  BY NextInv
<1> QED
  BY <1>1, <1>2, PTL DEF Spec

\* A pending message is always one that the connection still keeps, or one that a full
\* queue has dropped before any connection carried it, and then it is in no log: a send that
\* has been carried is in no queue any more, and what empties both queues empties the feed.
THEOREM PendingIsAlwaysUnacked == Spec => []PendingIsUnacked
<1>1. WInv => PendingIsUnacked
  BY DEF WInv, PendingIsKept, PendingIsUnacked, Submitted, SendsAreKnown, Uncarried
<1> QED
  BY <1>1, Invariance, PTL

\* The flag that keeps a feed from asking for older messages never outlives the request.
THEOREM LoadingAlwaysHasRequest == Spec => []LoadingHasRequest
<1>1. WInv => LoadingHasRequest
  BY DEF WInv
<1> QED
  BY <1>1, Invariance, PTL

LEMMA StoresAreStores ==
  ASSUME NEW s \in Stores
  PROVE  IsStore(s)
<1>1. /\ s.chats \in Badges /\ s.pages \in Pages /\ s.feed \subseteq Items
      /\ s.active \in Chats \cup {NoChat} /\ s.signedIn \in BOOLEAN
  BY DEF Stores, ChatOrNone
<1>2. DOMAIN s = {"signedIn", "active", "chats", "feed", "pages"}
  BY DEF Stores
<1>3. DOMAIN s.chats \subseteq Chats /\ s.chats \in [DOMAIN s.chats -> Nat]
  BY <1>1, BadgesType
<1>4. DOMAIN s.pages \subseteq Chats /\ s.pages \in [DOMAIN s.pages -> PageStates]
  BY <1>1, PagesType
<1> QED
  BY <1>1, <1>2, <1>3, <1>4 DEF IsStore

LEMMA CallsAreTasks ==
  ASSUME NEW task \in Calls
  PROVE  IsTask(task)
<1>1. IsAnswer(task.answer)
  <2>1. task.answer \in Quick \cup {Done} \cup PageAnswers \cup ListAnswers
    BY DEF Calls
  <2>2. CASE task.answer \in Quick \cup {Done} \cup PageAnswers
    BY <2>2 DEF IsAnswer, Quick, PageAnswers
  <2>3. CASE task.answer \in ListAnswers
    <3> DEFINE answer == task.answer
    <3>1. /\ DOMAIN answer = {"tag", "chats", "first"} /\ answer.tag = "list"
          /\ answer.first \in ChatOrNone /\ answer.chats \in Badges
      BY <2>3 DEF ListAnswers
    <3>2. DOMAIN answer.chats \subseteq Chats /\ answer.chats \in [DOMAIN answer.chats -> Nat]
      BY <3>1, BadgesType
    <3> QED
      BY <3>1, <3>2 DEF IsAnswer
  <2> QED
    BY <2>1, <2>2, <2>3
<1>2. [task EXCEPT !.answer = NoAnswer] \in
        [pc : PCs, origin : Origins, chat : ChatOrNone, keep : BOOLEAN, linked : ChatOrNone,
         before : Nat, answer : {NoAnswer}]
  BY DEF Calls
<1> QED
  BY <1>1, <1>2 DEF IsTask, PCs, Origins

\* The server, the connection, the store and the calls keep their types.
THEOREM TypeCorrect == Spec => []TypeOK
<1>1. ASSUME WInv PROVE TypeOK
  <2>1. IsStore(store)
    BY <1>1, StoresAreStores DEF WInv, ShellTypes
  <2>2. DOMAIN tasks = Tasks /\ \A t \in Tasks : IsTask(tasks[t])
    BY <1>1, CallsAreTasks DEF WInv, CallsAreGood
  <2>3. 1 .. Len(sentTo) \subseteq 1 .. MaxUpsets
    BY <1>1, BoundsAssumption DEF WInv, Bounded
  <2>4. \A sends \in {wire, late, acks, queued, unacked, lost} : sends \subseteq 1 .. MaxUpsets
    BY <1>1, <2>3 DEF WInv, SendsAreKnown
  <2> QED
    BY <1>1, <2>1, <2>2, <2>4 DEF WInv, ServerTypes, LinkTypes, ShellTypes, Bounded, TypeOK
<1> QED
  BY <1>1, Invariance, PTL

-----------------------------------------------------------------------------
(* What the reducers do to the open chat and to what is loaded of a chat.  *)

Seqs(s, c) == StoredSeqs(s.feed, c)

\* The seq below which older messages are offered, or 0 if none are.
OfferedBelow(s, c) ==
  IF c \in DOMAIN s.pages /\ s.pages[c].hasMore THEN s.pages[c].oldest ELSE 0

\* The same chat is open, and its badge has at most been cleared.
Opened(old, new) ==
  /\ new.active = old.active
  /\ DOMAIN new.chats = DOMAIN old.chats
  /\ \A c \in DOMAIN old.chats : c = old.active => new.chats[c] \in {0, old.chats[c]}

\* The same messages are loaded as well.
Alike(old, new) ==
  /\ Opened(old, new)
  /\ \A c \in Chats : Seqs(new, c) = Seqs(old, c) /\ OfferedBelow(new, c) = OfferedBelow(old, c)

Same(old, new) == Alike(old, new) /\ new.signedIn = old.signedIn

LEMMA SameItself ==
  ASSUME NEW s
  PROVE  Same(s, s)
BY DEF Same, Alike, Opened

LEMMA MarkChatReadSame ==
  ASSUME NEW s \in Stores, NEW c
  PROVE  /\ Same(s, MarkChatRead(s, c))
         /\ c \in DOMAIN s.chats => MarkChatRead(s, c).chats[c] = 0
<1> DEFINE b == [d \in DOMAIN s.chats |-> IF d = c THEN 0 ELSE s.chats[d]]
           new == [s EXCEPT !.chats = b]
<1>1. MarkChatRead(s, c) = new
  BY DEF MarkChatRead
<1>2. /\ DOMAIN b = DOMAIN s.chats
      /\ \A d \in DOMAIN s.chats : b[d] = IF d = c THEN 0 ELSE s.chats[d]
  OBVIOUS
<1> HIDE DEF b
<1>3. new.chats = b /\ new.active = s.active /\ new.signedIn = s.signedIn /\ new.feed = s.feed
      /\ new.pages = s.pages
  BY DEF Stores
<1> HIDE DEF new
<1> QED
  BY <1>1, <1>2, <1>3 DEF Same, Alike, Opened, Seqs, OfferedBelow

LEMMA SetOlderMessagesLoadingSame ==
  ASSUME NEW s \in Stores, NEW c \in Chats, NEW loading \in BOOLEAN
  PROVE  Same(s, SetOlderMessagesLoading(s, c, loading))
<1> DEFINE new == SetOlderMessagesLoading(s, c, loading)
           page == IF c \in DOMAIN s.pages THEN s.pages[c] ELSE EmptyPaginationState
           put == [page EXCEPT !.loading = loading]
<1>1. s.pages \in Pages
  BY DEF Stores
<1>2. page \in PageStates /\ OfferedBelow(s, c) = IF page.hasMore THEN page.oldest ELSE 0
  <2>1. CASE c \in DOMAIN s.pages
    BY <1>1, <2>1, PagesType DEF OfferedBelow
  <2>2. CASE c \notin DOMAIN s.pages
    BY <2>2 DEF OfferedBelow, EmptyPaginationState, PageStates
  <2> QED
    BY <2>1, <2>2
<1> HIDE DEF page
<1>3. put \in PageStates
  BY <1>2 DEF PageStates
<1>a. put.oldest = page.oldest /\ put.hasMore = page.hasMore
  BY <1>2 DEF PageStates
<1> HIDE DEF put
<1>4. new = [s EXCEPT !.pages = PutPage(s.pages, c, put)]
  BY DEF SetOlderMessagesLoading, page, put
<1>5. new.pages = PutPage(s.pages, c, put)
      /\ new.active = s.active /\ new.signedIn = s.signedIn /\ new.chats = s.chats
      /\ new.feed = s.feed
  BY <1>4 DEF Stores
<1> HIDE DEF new
<1>6. /\ DOMAIN new.pages = DOMAIN s.pages \cup {c} /\ new.pages[c] = put
      /\ \A d \in DOMAIN s.pages : d # c => new.pages[d] = s.pages[d]
  <2>1. LET pages == PutPage(s.pages, c, put)
        IN  /\ DOMAIN pages = DOMAIN s.pages \cup {c} /\ pages[c] = put
            /\ \A d \in DOMAIN s.pages : d # c => pages[d] = s.pages[d]
    BY <1>1, <1>3, PutPageType
  <2> QED
    BY <1>5, <2>1
<1>7. \A d \in Chats : OfferedBelow(new, d) = OfferedBelow(s, d)
  <2>1. OfferedBelow(new, c) = IF put.hasMore THEN put.oldest ELSE 0
    BY <1>6 DEF OfferedBelow
  <2>2. OfferedBelow(new, c) = OfferedBelow(s, c)
    BY <1>2, <1>a, <2>1
  <2>3. \A d \in Chats : d # c => OfferedBelow(new, d) = OfferedBelow(s, d)
    BY <1>6 DEF OfferedBelow
  <2> QED
    BY <2>2, <2>3
<1>8. \A d \in Chats : Seqs(new, d) = Seqs(s, d)
  BY <1>5 DEF Seqs
<1> QED
  BY <1>5, <1>7, <1>8 DEF Same, Alike, Opened, new

LEMMA AddLocalMessageSame ==
  ASSUME NEW s \in Stores, s.active \in Chats, NEW k \in Nat
  PROVE  Same(s, AddLocalMessage(s, k))
<1> DEFINE item == Pending(s.active, k)
           new == [s EXCEPT !.feed = s.feed \cup {item}]
<1>1. AddLocalMessage(s, k) = new
  BY ChatsAssumption DEF AddLocalMessage
<1>2. item.pending = TRUE
  BY DEF Pending
<1> HIDE DEF item
<1>3. new.feed = s.feed \cup {item} /\ new.active = s.active /\ new.signedIn = s.signedIn
      /\ new.chats = s.chats /\ new.pages = s.pages
  BY DEF Stores
<1> HIDE DEF new
<1>4. \A d \in Chats : {i \in new.feed : i.chat = d /\ ~i.pending} = {i \in s.feed : i.chat = d /\ ~i.pending}
  BY <1>2, <1>3
<1>5. \A d \in Chats : Seqs(new, d) = Seqs(s, d)
  BY <1>4 DEF Seqs, StoredSeqs
<1> QED
  BY <1>1, <1>3, <1>5 DEF Same, Alike, Opened, OfferedBelow

LEMMA OldestIsLeast ==
  ASSUME NEW s \in Stores, NEW c, Seqs(s, c) # {}
  PROVE  /\ FindOldestPersistedSeq(s.feed, c) \in Seqs(s, c)
         /\ \A m \in Seqs(s, c) : FindOldestPersistedSeq(s.feed, c) <= m
<1> DEFINE T == StoredSeqs(s.feed, c)
<1>1. T \subseteq Nat /\ T # {}
  BY DEF StoredSeqs, Stores, Items, Seqs
<1> HIDE DEF T
<1>2. \E x \in T : \A y \in T : x <= y
  BY <1>1, LeastExists
<1>3. LET o == CHOOSE n \in T : \A m \in T : n <= m
      IN  o \in T /\ \A m \in T : o <= m
  BY <1>2
<1> QED
  BY <1>1, <1>3 DEF FindOldestPersistedSeq, T, Seqs

LEMMA SeqsAreNats ==
  ASSUME NEW s \in Stores, NEW c
  PROVE  Seqs(s, c) \subseteq Nat /\ FindOldestPersistedSeq(s.feed, c) \in Nat
<1>1. s.feed \subseteq Items
  BY DEF Stores
<1> QED
  BY <1>1, OldestIsNat DEF Seqs, StoredSeqs, Items

\* With nothing loaded there is no oldest seq.
LEMMA NoOldest ==
  ASSUME NEW s, NEW c, Seqs(s, c) = {}
  PROVE  FindOldestPersistedSeq(s.feed, c) = 0
BY DEF FindOldestPersistedSeq, Seqs

Made(items, c, seqs) == \A i : i \in items <=> \E n \in seqs : i = Stored(c, n)

LEMMA SeqsOfUnion ==
  ASSUME NEW feed, NEW c, NEW seqs, NEW d, NEW made, Made(made, c, seqs)
  PROVE  /\ d = c => StoredSeqs(feed \cup made, d) = StoredSeqs(feed, d) \cup seqs
         /\ d # c => StoredSeqs(feed \cup made, d) = StoredSeqs(feed, d)
<1>1. \A n : Stored(c, n).chat = c /\ Stored(c, n).id = n /\ Stored(c, n).pending = FALSE
  BY DEF Stored
<1> QED
  BY <1>1 DEF StoredSeqs, Made

\* The messages of one chat are now those with the given seqs.
Fetched(old, new, c, seqs, hasMore) ==
  /\ new.active = old.active /\ new.signedIn = old.signedIn /\ new.chats = old.chats
  /\ Seqs(new, c) = seqs
  /\ OfferedBelow(new, c) = IF hasMore THEN FindOldestPersistedSeq(new.feed, c) ELSE 0
  /\ \A d \in Chats : d # c => Seqs(new, d) = Seqs(old, d) /\ OfferedBelow(new, d) = OfferedBelow(old, d)

\* SetMessages and PrependOlderMessages differ in the feed they end with.
LEMMA LoadedSeqs ==
  ASSUME NEW s \in Stores, NEW c \in Chats, NEW hasMore \in BOOLEAN,
         NEW seqs \in SUBSET Nat, NEW kept, kept \subseteq s.feed,
         \A i \in s.feed : i.chat # c => i \in kept,
         NEW feed, feed = kept \cup {Stored(c, n) : n \in seqs},
         NEW new,
         new = [s EXCEPT !.feed = feed,
                         !.pages = PutPage(@, c, CreateMessagePaginationState(feed, c, hasMore))]
  PROVE  Fetched(s, new, c, StoredSeqs(kept, c) \cup seqs, hasMore)
<1> DEFINE page == CreateMessagePaginationState(feed, c, hasMore)
<1>1. s.pages \in Pages /\ s.feed \subseteq Items
  BY DEF Stores
<1>2. feed \subseteq Items
  BY <1>1, StoredType
<1>3. page \in PageStates /\ page.oldest = FindOldestPersistedSeq(feed, c)
  BY <1>2, CreatedPageType DEF CreateMessagePaginationState
<1>a. page.hasMore = hasMore
  BY DEF CreateMessagePaginationState
<1>4. /\ new.pages = PutPage(s.pages, c, page) /\ new.feed = feed
      /\ new.active = s.active /\ new.signedIn = s.signedIn /\ new.chats = s.chats
  BY DEF Stores
<1> HIDE DEF page
<1>5. /\ DOMAIN new.pages = DOMAIN s.pages \cup {c} /\ new.pages[c] = page
      /\ \A d \in DOMAIN s.pages : d # c => new.pages[d] = s.pages[d]
  <2>1. LET put == PutPage(s.pages, c, page)
        IN  /\ DOMAIN put = DOMAIN s.pages \cup {c} /\ put[c] = page
            /\ \A d \in DOMAIN s.pages : d # c => put[d] = s.pages[d]
    BY <1>1, <1>3, PutPageType
  <2> QED
    BY <1>4, <2>1
<1>6. OfferedBelow(new, c) = IF hasMore THEN FindOldestPersistedSeq(new.feed, c) ELSE 0
  BY <1>3, <1>a, <1>4, <1>5 DEF OfferedBelow
<1>7. ASSUME NEW d \in Chats
      PROVE  Seqs(new, d) = IF d = c THEN StoredSeqs(kept, d) \cup seqs ELSE StoredSeqs(kept, d)
  <2> DEFINE made == {Stored(c, n) : n \in seqs}
  <2>1. feed = kept \cup made
    OBVIOUS
  <2>2. Made(made, c, seqs)
    BY DEF Made
  <2> HIDE DEF made
  <2>3. /\ d = c => StoredSeqs(kept \cup made, d) = StoredSeqs(kept, d) \cup seqs
        /\ d # c => StoredSeqs(kept \cup made, d) = StoredSeqs(kept, d)
    BY <2>2, SeqsOfUnion
  <2> QED
    BY <1>4, <2>1, <2>3 DEF Seqs
<1>8. \A d \in Chats : d # c => StoredSeqs(kept, d) = Seqs(s, d)
  BY DEF StoredSeqs, Seqs
<1>9. \A d \in Chats : d # c => OfferedBelow(new, d) = OfferedBelow(s, d)
  BY <1>5 DEF OfferedBelow
<1> QED
  BY <1>4, <1>6, <1>7, <1>8, <1>9 DEF Fetched

LEMMA SetMessagesSeqs ==
  ASSUME NEW s \in Stores, NEW c \in Chats, NEW seqs \in SUBSET Nat, NEW hasMore \in BOOLEAN
  PROVE  Fetched(s, SetMessages(s, c, seqs, hasMore), c, seqs, hasMore)
<1> DEFINE kept == {i \in s.feed : i.chat # c \/ i.pending}
           feed == kept \cup {Stored(c, n) : n \in seqs}
           new == SetMessages(s, c, seqs, hasMore)
<1>1. new = [s EXCEPT !.feed = feed,
                      !.pages = PutPage(@, c, CreateMessagePaginationState(feed, c, hasMore))]
  BY DEF SetMessages
<1>2. kept \subseteq s.feed /\ (\A i \in s.feed : i.chat # c => i \in kept) /\ StoredSeqs(kept, c) = {}
  BY DEF StoredSeqs
<1>3. feed = kept \cup {Stored(c, n) : n \in seqs}
  OBVIOUS
<1> HIDE DEF kept, feed, new
<1>4. Fetched(s, new, c, StoredSeqs(kept, c) \cup seqs, hasMore)
  BY <1>1, <1>2, <1>3, LoadedSeqs
<1> QED
  BY <1>2, <1>4 DEF new

LEMMA PrependOlderMessagesSeqs ==
  ASSUME NEW s \in Stores, NEW c \in Chats, NEW seqs \in SUBSET Nat, NEW hasMore \in BOOLEAN
  PROVE  Fetched(s, PrependOlderMessages(s, c, seqs, hasMore), c, Seqs(s, c) \cup seqs, hasMore)
<1> DEFINE kept == s.feed
           feed == kept \cup {Stored(c, n) : n \in seqs}
           new == PrependOlderMessages(s, c, seqs, hasMore)
<1>1. new = [s EXCEPT !.feed = feed,
                      !.pages = PutPage(@, c, CreateMessagePaginationState(feed, c, hasMore))]
  BY DEF PrependOlderMessages
<1>2. kept \subseteq s.feed /\ (\A i \in s.feed : i.chat # c => i \in kept)
      /\ StoredSeqs(kept, c) = Seqs(s, c)
  BY DEF Seqs
<1>3. feed = kept \cup {Stored(c, n) : n \in seqs}
  OBVIOUS
<1> HIDE DEF kept, feed, new
<1>4. Fetched(s, new, c, StoredSeqs(kept, c) \cup seqs, hasMore)
  BY <1>1, <1>2, <1>3, LoadedSeqs
<1> QED
  BY <1>2, <1>4 DEF new

\* One stored message may be added, and is if its chat is open.
Grown(old, new, c, n) ==
  /\ Opened(old, new) /\ new.signedIn = old.signedIn
  /\ \A d \in Chats :
       /\ OfferedBelow(new, d) = OfferedBelow(old, d)
       /\ Seqs(new, d) = Seqs(old, d) \/ (d = c /\ Seqs(new, d) = Seqs(old, d) \cup {n})
  /\ c = old.active => n \in Seqs(new, c)

LEMMA UpsertGrows ==
  ASSUME NEW s \in Stores, NEW c \in Chats, NEW n \in Nat, NEW isOwn \in BOOLEAN,
         NEW base \in SUBSET s.feed, \A i \in s.feed : ~i.pending => i \in base
  PROVE  Grown(s, UpsertMessageSummary(s, Stored(c, n), isOwn, base), c, n)
<1> DEFINE keep == c = s.active \/ OfChat(base, c) # {}
           isUnread == ~(isOwn /\ s.signedIn) /\ c # s.active
           feed == IF keep THEN base \cup {Stored(c, n)} ELSE base
           chats == [d \in DOMAIN s.chats |-> IF d = c /\ isUnread THEN s.chats[d] + 1 ELSE s.chats[d]]
           new == [s EXCEPT !.feed = feed, !.chats = chats]
<1>1. UpsertMessageSummary(s, Stored(c, n), isOwn, base) = new
  <2>1. Stored(c, n).chat = c
    BY DEF Stored
  <2> QED
    BY <2>1 DEF UpsertMessageSummary
<1>2. DOMAIN chats = DOMAIN s.chats /\ \A d \in DOMAIN s.chats : d = s.active => chats[d] = s.chats[d]
  OBVIOUS
<1>3. c = s.active => feed = base \cup {Stored(c, n)}
  OBVIOUS
<1>4. feed = base \/ feed = base \cup {Stored(c, n)}
  OBVIOUS
<1> HIDE DEF feed, chats
<1>5. new.feed = feed /\ new.chats = chats /\ new.active = s.active /\ new.signedIn = s.signedIn
      /\ new.pages = s.pages
  BY DEF Stores
<1> HIDE DEF new
<1>6. \A d \in Chats : StoredSeqs(base, d) = Seqs(s, d)
  BY DEF StoredSeqs, Seqs
<1> DEFINE made == {Stored(c, n)}
           one == {n}
<1>7. Made(made, c, one)
  BY DEF Made
<1>a. made = {Stored(c, n)} /\ one = {n}
  OBVIOUS
<1> HIDE DEF made, one
<1>8. ASSUME NEW d \in Chats
      PROVE  StoredSeqs(base \cup {Stored(c, n)}, d) =
               IF d = c THEN StoredSeqs(base, d) \cup {n} ELSE StoredSeqs(base, d)
  <2>1. /\ d = c => StoredSeqs(base \cup made, d) = StoredSeqs(base, d) \cup one
        /\ d # c => StoredSeqs(base \cup made, d) = StoredSeqs(base, d)
    BY <1>7, SeqsOfUnion
  <2> QED
    BY <1>a, <2>1
<1>9. \A d \in Chats : /\ Seqs(new, d) = Seqs(s, d) \/ (d = c /\ Seqs(new, d) = Seqs(s, d) \cup {n})
                       /\ OfferedBelow(new, d) = OfferedBelow(s, d)
  BY <1>4, <1>5, <1>6, <1>8 DEF Seqs, OfferedBelow
<1>10. c = s.active => n \in Seqs(new, c)
  BY <1>3, <1>5, <1>8 DEF Seqs
<1> QED
  BY <1>1, <1>2, <1>5, <1>9, <1>10 DEF Grown, Opened

LEMMA UpsertServerMessageGrows ==
  ASSUME NEW s \in Stores, NEW c \in Chats, NEW n \in Nat, NEW own \in BOOLEAN
  PROVE  Grown(s, UpsertServerMessage(s, c, n, own), c, n)
<1>1. s.feed \in SUBSET s.feed
  OBVIOUS
<1>2. Grown(s, UpsertMessageSummary(s, Stored(c, n), own, s.feed), c, n)
  BY <1>1, UpsertGrows
<1> QED
  BY <1>2 DEF UpsertServerMessage

LEMMA AcknowledgeServerMessageGrows ==
  ASSUME NEW s \in Stores, NEW c \in Chats, NEW n \in Nat, NEW k
  PROVE  Grown(s, AcknowledgeServerMessage(s, c, n, k), c, n)
<1> DEFINE isOwn == TRUE
           base == s.feed \ {Pending(c, k)}
<1>1. isOwn \in BOOLEAN /\ base \in SUBSET s.feed /\ \A i \in s.feed : ~i.pending => i \in base
  BY DEF Pending
<1> HIDE DEF isOwn, base
<1>2. Grown(s, UpsertMessageSummary(s, Stored(c, n), isOwn, base), c, n)
  BY <1>1, UpsertGrows
<1> QED
  BY <1>2 DEF AcknowledgeServerMessage, isOwn, base

LEMMA SetCurrentUserAlike ==
  ASSUME NEW s \in Stores
  PROVE  Alike(s, SetCurrentUser(s))
<1>1. LET new == SetCurrentUser(s)
      IN  new.active = s.active /\ new.chats = s.chats /\ new.feed = s.feed /\ new.pages = s.pages
  BY DEF SetCurrentUser, Stores
<1> QED
  BY <1>1 DEF Alike, Opened, Seqs, OfferedBelow

-----------------------------------------------------------------------------
(* What a quiet state shows.  The three properties of quiet states follow   *)
(* from an invariant of every state: what is not there yet is still due.    *)

Creating(task) == task.pc = "list" /\ task.origin = "create"
Paging(task, c) == task.pc = "page" /\ task.chat = c
Reading(task, c) == task.pc = "read" /\ task.chat = c /\ task.answer # Done

\* A page that was not read yet, or was read when the chat had the message already.
Covers(task, c, n) ==
  Paging(task, c) /\ (task.answer.tag = "page" => \E p \in task.answer.seqs : n <= p)

\* The address lags behind the open chat only until the chat just created is loaded.
RouteKnown ==
  store.active # NoChat =>
    route = store.active \/ strayed \/ \E t \in Tasks : Creating(tasks[t])

\* A page leaves out nothing between two messages, and nothing before them if there are
\* no more.
Gapless(seqs, hasMore) ==
  /\ \A p, q \in seqs : \A m \in Nat : p <= m /\ m <= q => m \in seqs
  /\ ~hasMore /\ seqs # {} => 1 \in seqs

\* Answers speak of chats that exist, and pages leave nothing out.
Sound(task, chats) ==
  /\ task.answer.tag = "list" =>
       /\ DOMAIN task.answer.chats \subseteq chats
       /\ task.answer.first \in DOMAIN task.answer.chats \cup {NoChat}
  /\ task.answer.tag = "page" => Gapless(task.answer.seqs, task.answer.hasMore)
  /\ task.pc = "page" => task.before = 0

AnswersAreSound == \A t \in Tasks : Sound(tasks[t], serverChats)

Known ==
  /\ newest \in serverChats \cup {NoChat}
  /\ DOMAIN store.chats \subseteq serverChats
  /\ store.active # NoChat => store.active \in DOMAIN store.chats
  /\ \A k \in 1 .. Len(sentTo) : sentTo[k] \in serverChats

LoggedOnce ==
  \A c \in Chats : \A n \in 1 .. Len(log[c]) : log[c][n] # Peer =>
    /\ log[c][n] \in 1 .. Len(sentTo) /\ sentTo[log[c][n]] = c
    /\ \A m \in 1 .. Len(log[c]) : log[c][m] = log[c][n] => m = n

UnreadIsLogged == \A c \in Chats : unread[c] > 0 => Len(log[c]) > 0

OldestIsShown ==
  \A c \in Chats : OfferedBelow(store, c) # 0 => OfferedBelow(store, c) \in Seqs(store, c)

BadgeIsClear ==
  \A c \in Chats : store.active = c =>
    store.chats[c] = 0 \/ \E t \in Tasks : Paging(tasks[t], c)

\* A reading of the chat is still to come.
Due(c) ==
  \/ \E n \in 1 .. Len(log[c]) : <<c, n>> \in excused \cup events
  \/ \E t \in Tasks : tasks[t].pc = "list" \/ Paging(tasks[t], c) \/ Reading(tasks[t], c)

UnreadIsDue ==
  \A c \in Chats : store.signedIn /\ store.active = c /\ unread[c] > 0 => Due(c)

\* The message is shown, or older than all that is while older ones are offered.
Accounted(s, c, n) ==
  n \in Seqs(s, c) \/ (OfferedBelow(s, c) # 0 /\ n < FindOldestPersistedSeq(s.feed, c))

\* The message is excused, or will come.
Settled(c, n) ==
  \/ conn = "off" \/ <<c, n>> \in excused \cup events \/ log[c][n] \in acks
  \/ \E t \in Tasks : tasks[t].pc = "list" \/ Covers(tasks[t], c, n)

FeedIsAccounted ==
  \A c \in Chats : store.signedIn /\ store.active = c =>
    \A n \in 1 .. Len(log[c]) : Accounted(store, c, n) \/ Settled(c, n)

Watch ==
  /\ RouteKnown /\ AnswersAreSound /\ Known /\ LoggedOnce /\ UnreadIsLogged /\ OldestIsShown
  /\ BadgeIsClear /\ UnreadIsDue /\ FeedIsAccounted

\* The calls that matter are as they were.
Matters(task) == task.pc \in {"list", "page"} \/ (task.pc = "read" /\ task.answer # Done)

CallsKept == \A t \in Tasks : Matters(tasks[t]) => tasks'[t] = tasks[t]

LEMMA RouteStays ==
  ASSUME RouteKnown, store'.active = store.active, route' = route, strayed' = strayed, CallsKept
  PROVE  RouteKnown'
BY DEF RouteKnown, CallsKept, Matters, Creating

LEMMA BadgeStays ==
  ASSUME BadgeIsClear, Known, Opened(store, store'),
         \A t \in Tasks : tasks[t].pc = "page" =>
           tasks'[t].pc = "page" /\ tasks'[t].chat = tasks[t].chat
  PROVE  BadgeIsClear'
<1> SUFFICES ASSUME NEW c \in Chats, store'.active = c
             PROVE  store'.chats[c] = 0 \/ \E t \in Tasks : Paging(tasks'[t], c)
  BY DEF BadgeIsClear, Paging
<1>1. store.active = c /\ c # NoChat
  BY ChatsAssumption DEF Opened
<1>2. c \in DOMAIN store.chats
  BY <1>1 DEF Known
<1>3. CASE store.chats[c] = 0
  BY <1>1, <1>2, <1>3 DEF Opened
<1>4. ASSUME NEW t \in Tasks, Paging(tasks[t], c)
      PROVE  Paging(tasks'[t], c)
  BY <1>4 DEF Paging
<1>5. store.chats[c] = 0 \/ \E t \in Tasks : Paging(tasks[t], c)
  BY <1>1 DEF BadgeIsClear
<1> QED
  BY <1>3, <1>4, <1>5 DEF Opened, Paging

LEMMA KnownStays ==
  ASSUME Known, UNCHANGED <<serverChats, newest, sentTo>>, Opened(store, store')
  PROVE  Known'
BY DEF Known, Opened

LEMMA LogsStay ==
  ASSUME LoggedOnce, UnreadIsLogged, UNCHANGED <<log, unread, sentTo>>
  PROVE  LoggedOnce' /\ UnreadIsLogged'
BY DEF LoggedOnce, UnreadIsLogged

LEMMA OldestStays ==
  ASSUME OldestIsShown, Alike(store, store')
  PROVE  OldestIsShown'
BY DEF OldestIsShown, Alike, Opened

\* Nothing that was due is lost, and nothing becomes due.
LEMMA StillDue ==
  ASSUME Watch, Same(store, store'), CallsKept, UNCHANGED <<log, unread>>,
         excused \subseteq excused', events \subseteq events' \cup excused',
         acks \subseteq acks' \/ conn' = "off", conn = "off" => conn' = "off"
  PROVE  UnreadIsDue' /\ FeedIsAccounted'
<1>1. UnreadIsDue'
  <2> SUFFICES ASSUME NEW c \in Chats, store'.signedIn, store'.active = c, unread'[c] > 0
               PROVE  Due(c)'
    BY DEF UnreadIsDue
  <2>1. Due(c)
    BY DEF Watch, UnreadIsDue, Same, Alike, Opened
  <2>2. CASE \E n \in 1 .. Len(log[c]) : <<c, n>> \in excused \cup events
    BY <2>2 DEF Due
  <2>3. CASE \E t \in Tasks : tasks[t].pc = "list" \/ Paging(tasks[t], c) \/ Reading(tasks[t], c)
    BY <2>3 DEF Due, CallsKept, Matters, Paging, Reading
  <2> QED
    BY <2>1, <2>2, <2>3 DEF Due
<1>2. FeedIsAccounted'
  <2> SUFFICES ASSUME NEW c \in Chats, store'.signedIn, store'.active = c,
                      NEW n \in 1 .. Len(log[c])
               PROVE  Accounted(store, c, n)' \/ Settled(c, n)'
    BY DEF FeedIsAccounted
  <2>1. Accounted(store, c, n) \/ Settled(c, n)
    BY DEF Watch, FeedIsAccounted, Same, Alike, Opened
  <2>2. ASSUME Accounted(store, c, n) PROVE Accounted(store', c, n)
    <3>1. Seqs(store', c) = Seqs(store, c) /\ OfferedBelow(store', c) = OfferedBelow(store, c)
      BY DEF Same, Alike, Opened
    <3>2. FindOldestPersistedSeq(store'.feed, c) = FindOldestPersistedSeq(store.feed, c)
      BY <3>1 DEF FindOldestPersistedSeq, Seqs
    <3> QED
      BY <2>2, <3>1, <3>2 DEF Accounted
  <2>3. ASSUME Settled(c, n) PROVE Settled(c, n)'
    <3>1. CASE conn = "off" \/ <<c, n>> \in excused \cup events \/ log[c][n] \in acks
      BY <3>1 DEF Settled
    <3>2. CASE \E t \in Tasks : tasks[t].pc = "list" \/ Covers(tasks[t], c, n)
      BY <3>2 DEF Settled, CallsKept, Matters, Covers, Paging
    <3> QED
      BY <2>3, <3>1, <3>2 DEF Settled
  <2> QED
    BY <2>1, <2>2, <2>3 DEF Accounted
<1> QED
  BY <1>1, <1>2

LEMMA Steady ==
  ASSUME Watch, Same(store, store'), CallsKept, RouteKnown', AnswersAreSound',
         UNCHANGED <<log, unread, serverChats, newest, sentTo>>,
         excused \subseteq excused', events \subseteq events' \cup excused',
         acks \subseteq acks' \/ conn' = "off", conn = "off" => conn' = "off"
  PROVE  Watch'
<1>1. Known' /\ LoggedOnce' /\ UnreadIsLogged' /\ OldestIsShown' /\ BadgeIsClear'
  BY KnownStays, LogsStay, OldestStays, BadgeStays DEF Watch, Same, Alike, CallsKept, Matters
<1>2. UnreadIsDue' /\ FeedIsAccounted'
  BY StillDue
<1> QED
  BY <1>1, <1>2 DEF Watch

LEMMA ListUnderWay ==
  ASSUME Watch, Alike(store, store'), CallsKept, RouteKnown', AnswersAreSound',
         UNCHANGED <<log, unread, serverChats, newest, sentTo>>,
         NEW t \in Tasks, tasks'[t].pc = "list"
  PROVE  Watch'
<1>1. Known' /\ LoggedOnce' /\ UnreadIsLogged' /\ OldestIsShown' /\ BadgeIsClear'
  BY KnownStays, LogsStay, OldestStays, BadgeStays DEF Watch, CallsKept, Matters, Alike
<1>2. UnreadIsDue' /\ FeedIsAccounted'
  BY DEF UnreadIsDue, FeedIsAccounted, Due, Settled
<1> QED
  BY <1>1, <1>2 DEF Watch

LEMMA AllExcused ==
  ASSUME Watch, Known', OldestIsShown', BadgeIsClear', RouteKnown', AnswersAreSound',
         UNCHANGED <<log, unread, serverChats, newest, sentTo>>, AllSoFar \subseteq excused',
         log \in [Chats -> Seq(0 .. MaxUpsets)]
  PROVE  Watch'
<1>1. LoggedOnce' /\ UnreadIsLogged'
  BY LogsStay DEF Watch
<1>2. \A c \in Chats : \A n \in 1 .. Len(log[c]) : <<c, n>> \in excused'
  BY DEF AllSoFar
<1>3. UnreadIsDue'
  <2> SUFFICES ASSUME NEW c \in Chats, unread'[c] > 0 PROVE Due(c)'
    BY DEF UnreadIsDue
  <2>1. Len(log[c]) > 0 /\ Len(log[c]) \in Nat
    BY DEF Watch, UnreadIsLogged
  <2>2. 1 \in 1 .. Len(log[c])
    BY <2>1
  <2> QED
    BY <1>2, <2>2 DEF Due
<1>4. FeedIsAccounted'
  BY <1>2 DEF FeedIsAccounted, Settled
<1> QED
  BY <1>1, <1>3, <1>4 DEF Watch

LEMMA PageUnderWay ==
  ASSUME Watch, Known', OldestIsShown', RouteKnown', AnswersAreSound',
         UNCHANGED <<log, unread, serverChats, newest, sentTo>>,
         NEW t \in Tasks, Paging(tasks'[t], store'.active), tasks'[t].answer = NoAnswer
  PROVE  Watch'
<1>1. LoggedOnce' /\ UnreadIsLogged'
  BY LogsStay DEF Watch
<1>2. BadgeIsClear' /\ UnreadIsDue'
  BY DEF BadgeIsClear, UnreadIsDue, Due
<1>3. tasks'[t].answer.tag # "page"
  BY DEF NoAnswer
<1>4. FeedIsAccounted'
  BY <1>3 DEF FeedIsAccounted, Settled, Covers
<1> QED
  BY <1>1, <1>2, <1>4 DEF Watch

LEMMA NothingOpen ==
  ASSUME Watch, Known', OldestIsShown', AnswersAreSound', store'.active = NoChat,
         UNCHANGED <<log, unread, sentTo>>
  PROVE  Watch'
<1>1. LoggedOnce' /\ UnreadIsLogged'
  BY LogsStay DEF Watch
<1>2. RouteKnown' /\ BadgeIsClear' /\ UnreadIsDue' /\ FeedIsAccounted'
  BY ChatsAssumption DEF RouteKnown, BadgeIsClear, UnreadIsDue, FeedIsAccounted
<1> QED
  BY <1>1, <1>2 DEF Watch

\* A call at its request.
Fresh(task) == task.answer = NoAnswer /\ (task.pc = "page" => task.before = 0)

LEMMA SimpleIsFresh ==
  ASSUME NEW pc, NEW c
  PROVE  Fresh(Simple(pc, c)) /\ Simple(pc, c).pc = pc /\ Simple(pc, c).chat = c
BY DEF Fresh, Simple, Task

LEMMA IdleIsFresh == Fresh(Idle) /\ Idle.pc = "idle"
BY SimpleIsFresh DEF Idle

LEMMA LoadIsFresh ==
  ASSUME NEW origin, NEW preferred, NEW keep, NEW s, NEW hash
  PROVE  LET task == LoadChatWorkspace(origin, preferred, keep, s, hash)
         IN  Fresh(task) /\ task.pc = "list" /\ task.origin = origin
BY DEF Fresh, LoadChatWorkspace, Task

LEMMA SoundStays ==
  ASSUME NEW task, NEW chats, NEW more, Sound(task, chats), chats \subseteq more
  PROVE  Sound(task, more)
BY DEF Sound

LEMMA FreshIsSound ==
  ASSUME NEW task, Fresh(task), NEW chats
  PROVE  Sound(task, chats)
BY DEF Fresh, Sound, NoAnswer

LEMMA GoneSound ==
  ASSUME WInv, AnswersAreSound, serverChats' = serverChats,
         NEW t \in Tasks, NEW task, GoodCall(task), Fresh(task), Goto(t, task)
  PROVE  AnswersAreSound' /\ tasks'[t] = task /\ \A u \in Tasks : u # t => tasks'[u] = tasks[u]
<1>1. tasks'[t] = task /\ \A u \in Tasks : u # t => tasks'[u] = tasks[u]
  BY GoneTo DEF WInv
<1>2. \A u \in Tasks : Sound(tasks'[u], serverChats)
  BY <1>1, FreshIsSound DEF AnswersAreSound
<1> QED
  BY <1>1, <1>2 DEF AnswersAreSound

LEMMA GoneAside ==
  ASSUME WInv, AnswersAreSound, serverChats' = serverChats,
         NEW t \in Tasks, ~Matters(tasks[t]),
         NEW task, GoodCall(task), Fresh(task), Goto(t, task)
  PROVE  AnswersAreSound' /\ CallsKept /\ tasks'[t] = task
BY GoneSound DEF CallsKept

LEMMA NoCall ==
  ASSUME AnswersAreSound, UNCHANGED <<tasks, serverChats>>
  PROVE  AnswersAreSound' /\ CallsKept
BY DEF AnswersAreSound, CallsKept

LEMMA NothingIsLoaded ==
  ASSUME NEW s, s.pages = Nothing
  PROVE  \A c \in Chats : OfferedBelow(s, c) = 0
BY DEF OfferedBelow, Nothing

-----------------------------------------------------------------------------
(* The initial states, and the server. *)

LEMMA InitWatch ==
  ASSUME Init
  PROVE  Watch
<1>1. store.active = NoChat /\ store.pages = Nothing /\ DOMAIN store.chats = {}
  BY DEF Init, InitialState, Nothing
<1>2. WInv
  BY InitInv
<1>3. AnswersAreSound
  <2>1. PICK first \in Tasks : tasks = [t \in Tasks |-> IF t = first THEN Simple("me", NoChat) ELSE Idle]
    BY DEF Init
  <2>2. \A t \in Tasks : Fresh(tasks[t])
    BY <2>1, SimpleIsFresh, IdleIsFresh
  <2> QED
    BY <2>2, FreshIsSound DEF AnswersAreSound
<1>4. Known
  <2>1. newest \in serverChats \cup {NoChat} /\ sentTo = <<>>
    BY DEF Init
  <2> QED
    BY <1>1, <2>1 DEF Known
<1>5. \A c \in Chats : log[c] \in Seq({Peer}) /\ unread[c] = Len(log[c])
  BY BoundsAssumption DEF Init
<1>6. LoggedOnce /\ UnreadIsLogged
  <2>1. \A c \in Chats : \A n \in 1 .. Len(log[c]) : log[c][n] = Peer
    BY <1>5
  <2> QED
    BY <1>5, <2>1 DEF LoggedOnce, UnreadIsLogged
<1>7. OldestIsShown
  BY <1>1, NothingIsLoaded DEF OldestIsShown
<1>8. RouteKnown /\ BadgeIsClear /\ UnreadIsDue /\ FeedIsAccounted
  BY <1>1, ChatsAssumption DEF RouteKnown, BadgeIsClear, UnreadIsDue, FeedIsAccounted
<1> QED
  BY <1>3, <1>4, <1>6, <1>7, <1>8 DEF Watch

LEMMA AnswerKept ==
  ASSUME CallsAreGood, NEW t \in Tasks, NEW answer, Answer(t, answer)
  PROVE  /\ tasks'[t] = [tasks[t] EXCEPT !.answer = answer]
         /\ tasks'[t].pc = tasks[t].pc /\ tasks'[t].chat = tasks[t].chat
         /\ tasks'[t].origin = tasks[t].origin /\ tasks'[t].before = tasks[t].before
         /\ tasks'[t].answer = answer
         /\ \A u \in Tasks : u # t => tasks'[u] = tasks[u]
<1>1. tasks[t] \in Calls /\ DOMAIN tasks = Tasks
  BY DEF CallsAreGood
<1>2. tasks'[t] = [tasks[t] EXCEPT !.answer = answer] /\ \A u \in Tasks : u # t => tasks'[u] = tasks[u]
  BY <1>1 DEF Answer
<1>3. LET new == [tasks[t] EXCEPT !.answer = answer]
      IN  /\ new.pc = tasks[t].pc /\ new.chat = tasks[t].chat /\ new.origin = tasks[t].origin
          /\ new.before = tasks[t].before /\ new.answer = answer
  BY <1>1 DEF Calls
<1> QED
  BY <1>2, <1>3

\* What an answer must be worth for nothing to be forgotten.
Worth(task, answer, reads, chats) ==
  /\ answer.tag = "list" =>
       DOMAIN answer.chats \subseteq chats /\ answer.first \in DOMAIN answer.chats \cup {NoChat}
  /\ answer.tag = "page" => Gapless(answer.seqs, answer.hasMore)
  /\ task.pc = "read" /\ answer = Done => reads[task.chat] = 0

LEMMA AnsweredWatch ==
  ASSUME WInv, Watch, NEW t \in Tasks, NEW answer, Answer(t, answer),
         UNCHANGED <<log, sentTo, store, route, strayed, conn, events, acks, excused>>,
         Known', serverChats \subseteq serverChats',
         \A c \in Chats : unread'[c] = unread[c] \/ unread'[c] = 0,
         Worth(tasks[t], answer, unread', serverChats'),
         tasks[t].pc = "page" /\ answer.tag = "page" =>
           \A n \in 1 .. Len(log[tasks[t].chat]) : \E p \in answer.seqs : n <= p
  PROVE  Watch'
<1>1. /\ tasks'[t].pc = tasks[t].pc /\ tasks'[t].chat = tasks[t].chat
      /\ tasks'[t].origin = tasks[t].origin /\ tasks'[t].before = tasks[t].before
      /\ tasks'[t].answer = answer
      /\ \A u \in Tasks : u # t => tasks'[u] = tasks[u]
  BY AnswerKept DEF WInv
<1>2. \A u \in Tasks : /\ tasks'[u].pc = tasks[u].pc /\ tasks'[u].chat = tasks[u].chat
                       /\ tasks'[u].origin = tasks[u].origin
  BY <1>1
<1>3. RouteKnown'
  BY <1>2 DEF Watch, RouteKnown, Creating
<1>4. AnswersAreSound'
  <2>1. \A u \in Tasks : Sound(tasks[u], serverChats)
    BY DEF Watch, AnswersAreSound
  <2>2. Sound(tasks'[t], serverChats')
    BY <1>1, <2>1 DEF Sound, Worth
  <2>3. \A u \in Tasks : u # t => Sound(tasks'[u], serverChats')
    BY <1>1, <2>1, SoundStays
  <2> QED
    BY <2>2, <2>3 DEF AnswersAreSound
<1>5. OldestIsShown'
  BY OldestStays, SameItself DEF Watch, Same
<1>6. BadgeIsClear'
  BY <1>2 DEF Watch, BadgeIsClear, Paging
<1>7. UnreadIsLogged'
  <2> SUFFICES ASSUME NEW c \in Chats, unread'[c] > 0 PROVE Len(log[c]) > 0
    BY DEF UnreadIsLogged
  <2> QED
    BY DEF Watch, UnreadIsLogged
<1>8. LoggedOnce'
  BY DEF Watch, LoggedOnce
<1>9. UnreadIsDue'
  <2> SUFFICES ASSUME NEW c \in Chats, store.signedIn, store.active = c, unread'[c] > 0
               PROVE  Due(c)'
    BY DEF UnreadIsDue
  <2>1. unread[c] > 0 /\ unread'[c] # 0
    OBVIOUS
  <2>2. Due(c)
    BY <2>1 DEF Watch, UnreadIsDue
  <2>3. CASE \E n \in 1 .. Len(log[c]) : <<c, n>> \in excused \cup events
    BY <2>3 DEF Due
  <2>4. ASSUME NEW u \in Tasks, tasks[u].pc = "list" \/ Paging(tasks[u], c) PROVE Due(c)'
    BY <1>2, <2>4 DEF Due, Paging
  <2>5. ASSUME NEW u \in Tasks, Reading(tasks[u], c) PROVE Due(c)'
    <3>1. Reading(tasks'[u], c)
      BY <1>1, <2>1, <2>5 DEF Reading, Worth
    <3> QED
      BY <3>1 DEF Due
  <2> QED
    BY <2>2, <2>3, <2>4, <2>5 DEF Due
<1>10. FeedIsAccounted'
  <2> SUFFICES ASSUME NEW c \in Chats, store.signedIn, store.active = c, NEW n \in 1 .. Len(log[c])
               PROVE  Accounted(store, c, n) \/ Settled(c, n)'
    BY DEF FeedIsAccounted, Accounted, Seqs, OfferedBelow
  <2>1. Accounted(store, c, n) \/ Settled(c, n)
    BY DEF Watch, FeedIsAccounted
  <2>2. CASE conn = "off" \/ <<c, n>> \in excused \cup events \/ log[c][n] \in acks
    BY <2>2 DEF Settled
  <2>3. ASSUME NEW u \in Tasks, tasks[u].pc = "list" PROVE Settled(c, n)'
    BY <1>2, <2>3 DEF Settled
  <2>4. ASSUME NEW u \in Tasks, Covers(tasks[u], c, n) PROVE Settled(c, n)'
    <3>1. Covers(tasks'[u], c, n)
      BY <1>1, <2>4 DEF Covers, Paging
    <3> QED
      BY <3>1 DEF Settled
  <2> QED
    BY <2>1, <2>2, <2>3, <2>4 DEF Settled
<1> QED
  BY <1>3, <1>4, <1>5, <1>6, <1>7, <1>8, <1>9, <1>10 DEF Watch

LEMMA PageOfIsSound ==
  ASSUME ServerTypes, NEW c \in Chats, NEW before \in Nat
  PROVE  LET seqs == PageOf(c, before).seqs
         IN  /\ Gapless(seqs, PageOf(c, before).hasMore)
             /\ before = 0 => \A n \in 1 .. Len(log[c]) : \E p \in seqs : n <= p
<1> DEFINE last == IF before = 0 THEN Len(log[c]) ELSE before - 1
           seqs == {n \in 1 .. last : n > last - PageSize}
<1>1. Len(log[c]) \in Nat /\ PageSize \in Nat /\ PageSize > 0
  BY LogType, BoundsAssumption
<1>2. last \in Int /\ (before = 0 => last = Len(log[c]))
  BY <1>1
<1>3. PageOf(c, before).seqs = seqs /\ PageOf(c, before).hasMore = (last > PageSize)
  BY DEF PageOf
<1> HIDE DEF last
<1>4. \A p, q \in seqs : \A m \in Nat : p <= m /\ m <= q => m \in seqs
  BY <1>1, <1>2
<1>5. ASSUME before = 0, NEW n \in 1 .. Len(log[c]) PROVE last \in seqs /\ n <= last
  BY <1>1, <1>2, <1>5
<1>6. ~(last > PageSize) /\ seqs # {} => 1 \in seqs
  BY <1>1, <1>2
<1> HIDE DEF seqs
<1> QED
  BY <1>3, <1>4, <1>5, <1>6 DEF Gapless

LEMMA ServeWatch ==
  ASSUME WInv, Watch, NEW t \in Tasks, Serve(t)
  PROVE  Watch'
<1>1. UNCHANGED <<connection, shell, history, upsets>>
  BY DEF Serve
<1>2. UNCHANGED <<sentTo, store, route, strayed, conn, events, acks, excused>>
  BY <1>1 DEF connection, outbox, shell, history
<1>3. GoodCall(tasks[t]) /\ Sound(tasks[t], serverChats) /\ ServerTypes
  BY DEF WInv, Watch, CallsAreGood, AnswersAreSound
<1>4. CASE ServeRead(t)
  <2>1. /\ Answer(t, Done) /\ tasks[t].pc = "read" /\ UNCHANGED <<log, serverChats, newest>>
        /\ unread' = [unread EXCEPT ![tasks[t].chat] = 0]
    BY <1>4 DEF ServeRead
  <2>2. unread'[tasks[t].chat] = 0 /\ \A c \in Chats : unread'[c] = unread[c] \/ unread'[c] = 0
    BY <1>3, <2>1 DEF ServerTypes, GoodCall
  <2>3. Known'
    BY <1>2, <2>1 DEF Watch, Known
  <2>4. Worth(tasks[t], Done, unread', serverChats') /\ Done.tag # "page"
    BY <2>1, <2>2 DEF Worth, Done
  <2> QED
    BY <1>2, <2>1, <2>2, <2>3, <2>4, AnsweredWatch
<1>5. CASE ServeCreate(t)
  <2>1. /\ Answer(t, Done) /\ tasks[t].pc = "create" /\ UNCHANGED <<log, unread>>
        /\ serverChats' = serverChats \cup {tasks[t].chat}
        /\ newest' = IF tasks[t].chat \in serverChats THEN newest ELSE tasks[t].chat
    BY <1>5 DEF ServeCreate
  <2>2. Known'
    BY <1>2, <2>1 DEF Watch, Known
  <2>3. Worth(tasks[t], Done, unread', serverChats') /\ Done.tag # "page"
    BY <2>1 DEF Worth, Done
  <2> QED
    BY <1>2, <2>1, <2>2, <2>3, AnsweredWatch
<1>6. ASSUME NEW answer, Answer(t, answer), UNCHANGED <<log, unread, serverChats, newest>>,
             \/ answer = Done /\ tasks[t].pc # "read"
             \/ answer = Unauthorized
             \/ answer = ListOfChats
             \/ answer = PageOf(tasks[t].chat, tasks[t].before) /\ tasks[t].pc \in {"page", "older"}
      PROVE  Watch'
  <2>1. Known'
    BY <1>2, <1>6 DEF Watch, Known
  <2>2. CASE answer = Done /\ tasks[t].pc # "read"
    <3>1. Worth(tasks[t], answer, unread', serverChats') /\ answer.tag # "page"
      BY <2>2 DEF Worth, Done
    <3> QED
      BY <1>2, <1>6, <2>1, <3>1, AnsweredWatch
  <2>3. CASE answer = Unauthorized
    <3>1. Worth(tasks[t], answer, unread', serverChats') /\ answer.tag # "page"
      BY <2>3 DEF Worth, Done, Unauthorized
    <3> QED
      BY <1>2, <1>6, <2>1, <3>1, AnsweredWatch
  <2>4. CASE answer = ListOfChats
    <3>1. answer.tag = "list" /\ DOMAIN answer.chats = serverChats /\ answer.first = newest
      BY <2>4 DEF ListOfChats
    <3>2. newest \in serverChats \cup {NoChat}
      BY DEF Watch, Known
    <3>3. Worth(tasks[t], answer, unread', serverChats') /\ answer.tag # "page"
      BY <1>6, <3>1, <3>2 DEF Worth, Done
    <3> QED
      BY <1>2, <1>6, <2>1, <3>3, AnsweredWatch
  <2>5. CASE answer = PageOf(tasks[t].chat, tasks[t].before) /\ tasks[t].pc \in {"page", "older"}
    <3>1. tasks[t].chat \in Chats /\ tasks[t].before \in Nat
      BY <1>3, <2>5 DEF GoodCall, Calls
    <3>2. /\ Gapless(answer.seqs, answer.hasMore)
          /\ tasks[t].before = 0 => \A n \in 1 .. Len(log[tasks[t].chat]) : \E p \in answer.seqs : n <= p
      BY <1>3, <2>5, <3>1, PageOfIsSound
    <3>3. answer.tag = "page"
      BY <2>5 DEF PageOf
    <3>4. Worth(tasks[t], answer, unread', serverChats')
      BY <2>5, <3>2, <3>3 DEF Worth
    <3>5. tasks[t].pc = "page" => tasks[t].before = 0
      BY <1>3 DEF Sound
    <3> QED
      BY <1>2, <1>6, <2>1, <3>2, <3>4, <3>5, AnsweredWatch
  <2> QED
    BY <1>6, <2>2, <2>3, <2>4, <2>5
<1>7. CASE ServeQuery(t)
  BY <1>6, <1>7 DEF ServeQuery, server
<1>8. CASE ServeSession(t) \/ ServeUnauthorized(t)
  BY <1>6, <1>8 DEF ServeSession, ServeUnauthorized, server
<1> QED
  BY <1>4, <1>5, <1>7, <1>8 DEF Serve

LEMMA FailsWatch ==
  ASSUME WInv, Watch, NEW t \in Tasks, Fails(t)
  PROVE  Watch'
<1>1. Answer(t, Failed) /\ UNCHANGED <<server, connection, shell, history>>
  BY DEF Fails
<1>2. UNCHANGED <<log, unread, serverChats, newest, sentTo, store, route, strayed, conn, events, acks, excused>>
  BY <1>1 DEF server, connection, outbox, shell, history
<1>3. Known'
  BY <1>2 DEF Watch, Known
<1>4. Worth(tasks[t], Failed, unread', serverChats') /\ Failed.tag # "page"
  BY DEF Worth, Failed, Done
<1> QED
  BY <1>1, <1>2, <1>3, <1>4, AnsweredWatch

LEMMA LogGrows ==
  ASSUME ServerTypes, NEW c \in Chats, NEW author \in 0 .. MaxUpsets, NEW heard \in BOOLEAN,
         StoreMessage(c, author, heard)
  PROVE  /\ Len(log[c]) \in Nat
         /\ Len(log'[c]) = Len(log[c]) + 1 /\ log'[c][Len(log[c]) + 1] = author
         /\ \A n \in 1 .. Len(log[c]) : log'[c][n] = log[c][n]
         /\ \A d \in Chats : d # c => log'[d] = log[d]
<1> DEFINE old == log[c]
           new == Append(old, author)
<1>1. old \in Seq(0 .. MaxUpsets) /\ Len(old) \in Nat
  BY LogType
<1>2. Len(new) = Len(old) + 1 /\ new[Len(old) + 1] = author /\ \A n \in 1 .. Len(old) : new[n] = old[n]
  <2> HIDE DEF old
  <2> QED
    BY <1>1
<1> HIDE DEF new
<1>3. log' = [log EXCEPT ![c] = new] /\ DOMAIN log = Chats
  BY DEF StoreMessage, new, ServerTypes
<1>4. log'[c] = new /\ \A d \in Chats : d # c => log'[d] = log[d]
  BY <1>3
<1> QED
  BY <1>1, <1>2, <1>4

\* A message that is stored now is heard of, acknowledged, or excused.
LEMMA StoredWatch ==
  ASSUME WInv, Watch, NEW c \in Chats, NEW author \in 0 .. MaxUpsets, NEW heard \in BOOLEAN,
         StoreMessage(c, author, heard), heard \/ author \in acks',
         UNCHANGED <<sentTo, store, route, strayed, conn, tasks>>,
         serverChats \subseteq serverChats', c \in serverChats', acks \subseteq acks',
         \/ author = Peer /\ heard
         \/ /\ author \in 1 .. Len(sentTo) /\ sentTo[author] = c
            /\ ~IsLogged(author) /\ unread' = unread,
         \A d \in Chats : d # c => unread'[d] = unread[d]
  PROVE  Watch'
<1> DEFINE end == Len(log[c]) + 1
<1>1. /\ end \in Nat /\ end > 0 /\ Len(log'[c]) = end /\ log'[c][end] = author
      /\ \A n \in 1 .. end - 1 : log'[c][n] = log[c][n]
      /\ Len(log[c]) = end - 1
      /\ \A d \in Chats : d # c => log'[d] = log[d]
  <2>1. /\ Len(log[c]) \in Nat
        /\ Len(log'[c]) = Len(log[c]) + 1 /\ log'[c][Len(log[c]) + 1] = author
        /\ \A n \in 1 .. Len(log[c]) : log'[c][n] = log[c][n]
        /\ \A d \in Chats : d # c => log'[d] = log[d]
    BY LogGrows DEF WInv
  <2> QED
    BY <2>1
<1>2. /\ newest' = c
      /\ excused \cup events \subseteq excused' \cup events'
      /\ excused \subseteq excused' /\ events \subseteq events'
      /\ <<c, end>> \in excused' \cup events' \/ (conn = "attached" /\ ~heard)
  BY DEF StoreMessage
<1> HIDE DEF end
<1>3. RouteKnown' /\ AnswersAreSound' /\ CallsKept
  <2>1. CallsKept
    BY DEF CallsKept
  <2>2. \A u \in Tasks : Sound(tasks'[u], serverChats')
    BY SoundStays DEF Watch, AnswersAreSound
  <2> QED
    BY <2>1, <2>2, RouteStays DEF Watch, AnswersAreSound
<1>4. Known'
  BY <1>2 DEF Watch, Known
<1>5. OldestIsShown' /\ BadgeIsClear'
  BY DEF Watch, OldestIsShown, BadgeIsClear
<1>6. LoggedOnce'
  <2> SUFFICES ASSUME NEW d \in Chats, NEW n \in 1 .. Len(log'[d]), log'[d][n] # Peer
               PROVE  /\ log'[d][n] \in 1 .. Len(sentTo) /\ sentTo[log'[d][n]] = d
                      /\ \A m \in 1 .. Len(log'[d]) : log'[d][m] = log'[d][n] => m = n
    BY DEF LoggedOnce
  <2>1. CASE d # c
    <3>1. log'[d] = log[d]
      BY <1>1, <2>1
    <3>2. LoggedOnce
      BY DEF Watch
    <3> QED
      BY <3>1, <3>2 DEF LoggedOnce
  <2>2. CASE d = c
    <3>1. ASSUME NEW m \in 1 .. end - 1, author # Peer PROVE log[c][m] # author
      BY <1>1, <3>1 DEF IsLogged
    <3>2. CASE n = end
      <4>1. author \in 1 .. Len(sentTo) /\ sentTo[author] = c /\ author # Peer
        BY <1>1, <2>2, <3>2
      <4>2. ASSUME NEW m \in 1 .. end, log'[c][m] = author PROVE m = end
        <5>1. m # end => m \in 1 .. end - 1
          BY <1>1
        <5> QED
          BY <1>1, <3>1, <4>1, <4>2, <5>1
      <4> QED
        BY <1>1, <2>2, <3>2, <4>1, <4>2
    <3>3. CASE n # end
      <4>1. n \in 1 .. end - 1
        BY <1>1, <2>2, <3>3
      <4>2. log'[c][n] = log[c][n] /\ log[c][n] # Peer
        BY <1>1, <2>2, <4>1
      <4>3. /\ log[c][n] \in 1 .. Len(sentTo) /\ sentTo[log[c][n]] = c
            /\ \A m \in 1 .. end - 1 : log[c][m] = log[c][n] => m = n
        BY <1>1, <4>1, <4>2 DEF Watch, LoggedOnce
      <4>4. log[c][n] # author
        BY <3>1, <4>1, <4>2
      <4>5. ASSUME NEW m \in 1 .. end, log'[c][m] = log[c][n] PROVE m = n
        <5>1. m # end
          BY <1>1, <4>4, <4>5
        <5>2. m \in 1 .. end - 1
          BY <1>1, <5>1
        <5> QED
          BY <1>1, <4>3, <4>5, <5>2
      <4> QED
        BY <1>1, <2>2, <4>2, <4>3, <4>5
    <3> QED
      BY <3>2, <3>3
  <2> QED
    BY <2>1, <2>2
<1>7. UnreadIsLogged'
  <2> SUFFICES ASSUME NEW d \in Chats, unread'[d] > 0 PROVE Len(log'[d]) > 0
    BY DEF UnreadIsLogged
  <2>1. CASE d = c
    BY <1>1, <2>1
  <2>2. CASE d # c
    BY <1>1, <2>2 DEF Watch, UnreadIsLogged
  <2> QED
    BY <2>1, <2>2
<1>8. \A d \in Chats : \A n \in 1 .. Len(log[d]) : n \in 1 .. Len(log'[d]) /\ log'[d][n] = log[d][n]
  BY <1>1
<1>9. UnreadIsDue'
  <2> SUFFICES ASSUME NEW d \in Chats, store.signedIn, store.active = d, unread'[d] > 0
               PROVE  Due(d)'
    BY DEF UnreadIsDue
  <2>1. CASE unread'[d] = unread[d]
    <3>1. Due(d)
      BY <2>1 DEF Watch, UnreadIsDue
    <3> QED
      BY <1>2, <1>8, <3>1 DEF Due
  <2>2. CASE unread'[d] # unread[d]
    <3>1. d = c /\ author = Peer /\ heard
      BY <2>2
    <3>2. end \in 1 .. Len(log'[c]) /\ <<c, end>> \in excused' \cup events'
      BY <1>1, <1>2, <3>1
    <3> QED
      BY <3>1, <3>2 DEF Due
  <2> QED
    BY <2>1, <2>2
<1>10. FeedIsAccounted'
  <2> SUFFICES ASSUME NEW d \in Chats, store.signedIn, store.active = d, NEW n \in 1 .. Len(log'[d])
               PROVE  Accounted(store, d, n) \/ Settled(d, n)'
    BY DEF FeedIsAccounted, Accounted, Seqs, OfferedBelow
  <2>1. CASE n \in 1 .. Len(log[d])
    <3>1. Accounted(store, d, n) \/ Settled(d, n)
      BY <2>1 DEF Watch, FeedIsAccounted
    <3> QED
      BY <1>2, <1>8, <2>1, <3>1 DEF Settled
  <2>2. CASE n \notin 1 .. Len(log[d])
    <3>1. d = c /\ n = end
      BY <1>1, <2>2
    <3>2. <<c, end>> \in excused' \cup events' \/ log'[c][end] \in acks'
      BY <1>1, <1>2
    <3> QED
      BY <3>1, <3>2 DEF Settled
  <2> QED
    BY <2>1, <2>2
<1> QED
  BY <1>3, <1>4, <1>5, <1>6, <1>7, <1>9, <1>10 DEF Watch

LEMMA PeerSendsWatch ==
  ASSUME WInv, Watch, NEW c \in Chats, PeerSends(c)
  PROVE  Watch'
<1> DEFINE heard == TRUE
<1>1. /\ StoreMessage(c, Peer, heard) /\ serverChats' = serverChats \cup {c}
      /\ unread' = [unread EXCEPT ![c] = @ + 1] /\ heard /\ heard \in BOOLEAN
      /\ UNCHANGED <<session, conn, wanted, wire, late, acks, queued, unacked, lost, sentTo,
                     shell, tasks, strayed>>
  BY DEF PeerSends, outbox
<1> HIDE DEF heard
<1>2. Peer \in 0 .. MaxUpsets
  BY BoundsAssumption DEF Peer
<1>3. \A d \in Chats : d # c => unread'[d] = unread[d]
  BY <1>1 DEF WInv, ServerTypes
<1> QED
  BY <1>1, <1>2, <1>3, StoredWatch DEF shell

LEMMA BroadcastAgainWatch ==
  ASSUME WInv, Watch, NEW c \in Chats, NEW n \in 1 .. Len(log[c]), BroadcastAgain(c, n)
  PROVE  Watch'
<1>1. /\ events' = events \cup {<<c, n>>}
      /\ UNCHANGED <<server, conn, wanted, wire, late, acks, queued, unacked, lost, sentTo,
                     shell, tasks, history>>
  BY DEF BroadcastAgain, outbox
<1>2. UNCHANGED <<log, unread, serverChats, newest, store, route, strayed, excused>>
  BY <1>1 DEF server, shell, history
<1>3. Same(store, store') /\ AnswersAreSound' /\ CallsKept
  BY <1>1, <1>2, SameItself, NoCall DEF Watch
<1>4. RouteKnown'
  BY <1>2, <1>3, RouteStays DEF Watch
<1> QED
  BY <1>1, <1>2, <1>3, <1>4, Steady

\* A send is stored, or has been: what changes is the acknowledgements and the events.
LEMMA SentWatch ==
  ASSUME WInv, Watch, NEW k \in 1 .. Len(sentTo), NEW heard \in BOOLEAN,
         heard \/ k \in acks', acks \subseteq acks',
         UNCHANGED <<serverChats, unread, conn, sentTo, shell, tasks, strayed>>,
         \/ IsLogged(k) /\ events \subseteq events' /\ UNCHANGED <<log, newest, excused>>
         \/ ~IsLogged(k) /\ StoreMessage(sentTo[k], k, heard)
  PROVE  Watch'
<1>1. sentTo \in Seq(Chats) /\ Len(sentTo) \in Nat /\ Len(sentTo) <= MaxUpsets
  BY BoundsAssumption DEF WInv, Bounded
<1>2. sentTo[k] \in Chats /\ k \in 0 .. MaxUpsets
  BY <1>1, BoundsAssumption
<1>3. CASE IsLogged(k) /\ events \subseteq events' /\ UNCHANGED <<log, newest, excused>>
  <2>1. Same(store, store') /\ AnswersAreSound' /\ CallsKept
    BY SameItself, NoCall DEF Watch, shell
  <2>2. RouteKnown'
    BY <2>1, RouteStays DEF Watch, shell
  <2> QED
    BY <1>3, <2>1, <2>2, Steady
<1>4. CASE ~IsLogged(k) /\ StoreMessage(sentTo[k], k, heard)
  <2> DEFINE c == sentTo[k]
  <2>1. c \in Chats /\ c \in serverChats /\ StoreMessage(c, k, heard) /\ sentTo[k] = c
    BY <1>2, <1>4 DEF Watch, Known
  <2> HIDE DEF c
  <2> QED
    BY <1>2, <1>4, <2>1, StoredWatch DEF shell
<1> QED
  BY <1>3, <1>4

LEMMA StoreSentWatch ==
  ASSUME WInv, Watch, NEW k, StoreSent(k)
  PROVE  Watch'
<1> DEFINE heard == FALSE
<1>1. k \in 1 .. Len(sentTo)
  BY DEF WInv, SendsAreKnown, StoreSent
<1>2. /\ heard \in BOOLEAN /\ acks' = acks \cup {k}
      /\ UNCHANGED <<serverChats, unread, conn, sentTo, shell, tasks, strayed>>
  BY DEF StoreSent, outbox
<1>3. \/ IsLogged(k) /\ events \subseteq events' /\ UNCHANGED <<log, newest, excused>>
      \/ ~IsLogged(k) /\ StoreMessage(sentTo[k], k, heard)
  BY DEF StoreSent
<1> HIDE DEF heard
<1> QED
  BY <1>1, <1>2, <1>3, SentWatch

LEMMA StoreLateWatch ==
  ASSUME WInv, Watch, NEW k, StoreLate(k)
  PROVE  Watch'
<1> DEFINE heard == TRUE
<1>1. k \in 1 .. Len(sentTo)
  BY DEF WInv, SendsAreKnown, StoreLate
<1>2. /\ heard \in BOOLEAN /\ heard /\ acks' = acks
      /\ UNCHANGED <<serverChats, unread, conn, sentTo, shell, tasks, strayed>>
  BY DEF StoreLate, outbox
<1>3. \/ IsLogged(k) /\ events \subseteq events' /\ UNCHANGED <<log, newest, excused>>
      \/ ~IsLogged(k) /\ StoreMessage(sentTo[k], k, heard)
  BY DEF StoreLate
<1> HIDE DEF heard
<1> QED
  BY <1>1, <1>2, <1>3, SentWatch

LEMMA SendFailsWatch ==
  ASSUME WInv, Watch, NEW k, SendFails(k)
  PROVE  Watch'
<1>1. UNCHANGED <<server, conn, events, acks, sentTo, shell, tasks, history>>
  BY DEF SendFails, outbox
<1>2. Same(store, store') /\ AnswersAreSound' /\ CallsKept
  BY <1>1, SameItself, NoCall DEF Watch, shell, server
<1>3. RouteKnown'
  BY <1>1, <1>2, RouteStays DEF Watch, shell, history
<1> QED
  BY <1>1, <1>2, <1>3, Steady DEF server, history

LEMMA ExpiresWatch ==
  ASSUME WInv, Watch, Expires
  PROVE  Watch'
<1>1. UNCHANGED <<log, serverChats, newest, unread, connection, shell, tasks, history>>
  BY DEF Expires
<1>2. Same(store, store') /\ AnswersAreSound' /\ CallsKept
  BY <1>1, SameItself, NoCall DEF Watch, shell
<1>3. RouteKnown'
  BY <1>1, <1>2, RouteStays DEF Watch, shell, history
<1> QED
  BY <1>1, <1>2, <1>3, Steady DEF connection, outbox, history

-----------------------------------------------------------------------------
(* The connection. *)

LEMMA DropsWatch ==
  ASSUME WInv, Watch, Drops
  PROVE  Watch'
<1>1. /\ conn' = "off" /\ UNCHANGED <<server, wanted, sentTo, shell, tasks, strayed>>
      /\ excused \subseteq excused' /\ events \subseteq events' \cup excused'
  BY DEF Drops, Disconnected, outbox
<1>2. Same(store, store') /\ AnswersAreSound' /\ CallsKept
  BY <1>1, SameItself, NoCall DEF Watch, shell, server
<1>3. RouteKnown'
  BY <1>1, <1>2, RouteStays DEF Watch, shell
<1> QED
  BY <1>1, <1>2, <1>3, Steady DEF server

LEMMA AttachWatch ==
  ASSUME WInv, Watch, Attach
  PROVE  Watch'
<1>1. /\ conn = "open"
      /\ UNCHANGED <<server, events, acks, sentTo, shell, tasks, history>>
  BY DEF Attach, outbox
<1>2. Same(store, store') /\ AnswersAreSound' /\ CallsKept
  BY <1>1, SameItself, NoCall DEF Watch, shell, server
<1>3. RouteKnown'
  BY <1>1, <1>2, RouteStays DEF Watch, shell, history
<1> QED
  BY <1>1, <1>2, <1>3, Steady DEF server, history

LEMMA GivesUpWatch ==
  ASSUME WInv, Watch, GivesUp
  PROVE  Watch'
<1>1. UNCHANGED <<server, conn, events, acks, sentTo, shell, tasks, history>>
  BY DEF GivesUp, outbox
<1>2. Same(store, store') /\ AnswersAreSound' /\ CallsKept
  BY <1>1, SameItself, NoCall DEF Watch, shell, server
<1>3. RouteKnown'
  BY <1>1, <1>2, RouteStays DEF Watch, shell, history
<1> QED
  BY <1>1, <1>2, <1>3, Steady DEF server, history

LEMMA OpensWatch ==
  ASSUME WInv, Watch, Opens
  PROVE  Watch'
<1>1. UNCHANGED <<server, wanted, events, acks, sentTo, shell, strayed, upsets>>
  BY DEF Opens, FlushPendingEvents
<1>2. Same(store, store')
  BY <1>1, SameItself DEF shell
<1>3. CASE store.signedIn
  <2> DEFINE keep == store.active = NoChat /\ mobilePane = "chats"
  <2>1. keep \in BOOLEAN /\ "reopen" \in Origins /\ "undefined" \in ChatOrNone \cup {"undefined"}
    BY DEF Origins
  <2>2. PICK t \in Tasks : Free(t) /\ Goto(t, LoadChatWorkspace("reopen", "undefined", keep, store, route))
    BY <1>3 DEF Opens
  <2> HIDE DEF keep
  <2> DEFINE task == LoadChatWorkspace("reopen", "undefined", keep, store, route)
  <2>3. GoodCall(task)
    BY <2>1, LoadIsGood DEF WInv, ShellTypes
  <2>4. Fresh(task) /\ task.pc = "list"
    BY LoadIsFresh
  <2> HIDE DEF task
  <2>5. AnswersAreSound' /\ CallsKept /\ tasks'[t] = task
    BY <1>1, <2>2, <2>3, <2>4, GoneAside DEF Watch, Free, Matters, server, task
  <2>6. RouteKnown'
    BY <1>1, <2>5, RouteStays DEF Watch, shell
  <2> QED
    BY <1>1, <1>2, <2>4, <2>5, <2>6, ListUnderWay DEF server, Same
<1>4. CASE ~store.signedIn
  <2>1. tasks' = tasks
    BY <1>4 DEF Opens
  <2>2. AnswersAreSound' /\ CallsKept
    BY <1>1, <2>1, NoCall DEF Watch, server
  <2>3. RouteKnown'
    BY <1>1, <2>2, RouteStays DEF Watch, shell
  <2>4. Known' /\ LoggedOnce' /\ UnreadIsLogged' /\ OldestIsShown' /\ BadgeIsClear'
    BY <1>1, <1>2, <2>2, KnownStays, LogsStay, OldestStays, BadgeStays DEF Watch, CallsKept, Matters, Same, Alike, server
  <2>5. UnreadIsDue' /\ FeedIsAccounted'
    BY <1>2, <1>4 DEF UnreadIsDue, FeedIsAccounted, Same
  <2> QED
    BY <2>2, <2>3, <2>4, <2>5 DEF Watch
<1> QED
  BY <1>3, <1>4

\* The session ends.
LEMMA SessionEnds ==
  ASSUME Watch, store' = ClearSession(store), AnswersAreSound',
         UNCHANGED <<log, unread, serverChats, newest, sentTo>>
  PROVE  Watch'
<1>1. store'.active = NoChat /\ store'.pages = Nothing /\ DOMAIN store'.chats = {}
  BY DEF ClearSession, InitialState, Nothing
<1>2. OldestIsShown'
  BY <1>1, NothingIsLoaded DEF OldestIsShown
<1>3. Known'
  BY <1>1 DEF Watch, Known
<1> QED
  BY <1>1, <1>2, <1>3, NothingOpen

LEMMA RefuseWatch ==
  ASSUME WInv, Watch, Refuse
  PROVE  Watch'
<1>1. store' = ClearSession(store) /\ sentTo' = sentTo /\ UNCHANGED <<server, tasks>>
  BY DEF Refuse, HandleSessionExpired, Disconnect
<1>2. AnswersAreSound'
  BY <1>1, NoCall DEF Watch, server
<1> QED
  BY <1>1, <1>2, SessionEnds DEF server

LEMMA GrownOn ==
  ASSUME NEW r, NEW s, NEW u, NEW c \in Chats, NEW n, Grown(r, s, c, n), Same(s, u)
  PROVE  Grown(r, u, c, n)
<1>1. Opened(r, u) /\ u.signedIn = r.signedIn
  BY DEF Grown, Same, Alike, Opened
<1>2. \A d \in Chats : Seqs(u, d) = Seqs(s, d) /\ OfferedBelow(u, d) = OfferedBelow(s, d)
  BY DEF Same, Alike
<1> QED
  BY <1>1, <1>2 DEF Grown

\* A message put below all others leaves out only what is excused.
LEMMA GrownAccounted ==
  ASSUME NEW s \in Stores, NEW new \in Stores, NEW c \in Chats, NEW n \in Nat, Grown(s, new, c, n),
         OldestIsShown, store = s,
         NEW d \in Chats, d = s.active, NEW m \in Nat, m > 0, Accounted(s, d, m)
  PROVE  Accounted(new, d, m) \/ <<d, m>> \in Skipped(c, {n})
<1> DEFINE o == FindOldestPersistedSeq(s.feed, d)
           p == FindOldestPersistedSeq(new.feed, d)
<1>1. /\ OfferedBelow(new, d) = OfferedBelow(s, d)
      /\ Seqs(new, d) = Seqs(s, d) \/ (d = c /\ Seqs(new, d) = Seqs(s, d) \cup {n})
  BY DEF Grown
<1>2. CASE m \in Seqs(s, d)
  BY <1>1, <1>2 DEF Accounted
<1>3. CASE OfferedBelow(s, d) # 0 /\ m < o
  <2>1. Seqs(s, d) # {} /\ Seqs(new, d) # {}
    BY <1>1, <1>3 DEF OldestIsShown
  <2>2. /\ o \in Seqs(s, d) /\ p \in Seqs(new, d)
        /\ \A q \in Seqs(s, d) : o <= q
    BY <2>1, OldestIsLeast
  <2>3. o \in Nat /\ p \in Nat
    BY SeqsAreNats
  <2> HIDE DEF p
  <2>4. CASE p \in Seqs(s, d)
    <3>1. o <= p
      BY <2>2, <2>4
    <3>2. m < p
      BY <1>3, <2>3, <3>1
    <3> QED
      BY <1>1, <1>3, <3>2 DEF Accounted, p
  <2>5. CASE p \notin Seqs(s, d)
    <3>1. d = c /\ p = n /\ n \in Seqs(new, d)
      BY <1>1, <2>2, <2>5
    <3>2. CASE m < n
      BY <1>1, <1>3, <3>1, <3>2 DEF Accounted, p
    <3>3. CASE m = n
      BY <3>1, <3>3 DEF Accounted
    <3>4. CASE m > n
      <4>1. m \in 1 .. o - 1
        BY <1>3, <2>3
      <4> QED
        BY <3>1, <3>4, <4>1 DEF Skipped
    <3> QED
      BY <3>2, <3>3, <3>4
  <2> QED
    BY <2>4, <2>5
<1> QED
  BY <1>2, <1>3 DEF Accounted

LEMMA GrownWatch ==
  ASSUME WInv, Watch, NEW c \in Chats, NEW n \in Nat, Grown(store, store', c, n), store' \in Stores,
         UNCHANGED <<log, unread, serverChats, newest, sentTo, conn>>,
         CallsKept, AnswersAreSound', RouteKnown', excused' = excused \cup Skipped(c, {n}),
         \/ events' = events
         \/ /\ events' = events \ {<<c, n>>}
            /\ c = store.active => \E t \in Tasks : Reading(tasks'[t], c),
         \A k \in acks : k \in acks' \/
           \A d \in Chats : \A m \in 1 .. Len(log[d]) : log[d][m] = k => d = c /\ m = n
  PROVE  Watch'
<1>1. Opened(store, store') /\ store'.signedIn = store.signedIn
  BY DEF Grown
<1>2. Known' /\ LoggedOnce' /\ UnreadIsLogged' /\ BadgeIsClear'
  BY <1>1, KnownStays, LogsStay, BadgeStays DEF Watch, CallsKept, Matters
<1>3. OldestIsShown'
  BY DEF Watch, OldestIsShown, Grown
<1>4. UnreadIsDue'
  <2> SUFFICES ASSUME NEW d \in Chats, store'.signedIn, store'.active = d, unread'[d] > 0
               PROVE  Due(d)'
    BY DEF UnreadIsDue
  <2>1. store.active = d /\ Due(d)
    BY <1>1 DEF Watch, UnreadIsDue, Opened
  <2>2. ASSUME NEW m \in 1 .. Len(log[d]), <<d, m>> \in excused \cup events PROVE Due(d)'
    <3>1. CASE <<d, m>> \in excused' \cup events'
      BY <3>1 DEF Due
    <3>2. CASE <<d, m>> \notin excused' \cup events'
      <4>1. <<d, m>> = <<c, n>> /\ events' # events
        BY <2>2, <3>2
      <4>2. d = c /\ c = store.active
        BY <2>1, <4>1
      <4>3. PICK t \in Tasks : Reading(tasks'[t], c)
        BY <4>1, <4>2
      <4> QED
        BY <4>2, <4>3 DEF Due
    <3> QED
      BY <3>1, <3>2
  <2>3. CASE \E t \in Tasks : tasks[t].pc = "list" \/ Paging(tasks[t], d) \/ Reading(tasks[t], d)
    BY <2>3 DEF Due, CallsKept, Matters, Paging, Reading
  <2> QED
    BY <2>1, <2>2, <2>3 DEF Due
<1>5. FeedIsAccounted'
  <2> SUFFICES ASSUME NEW d \in Chats, store'.signedIn, store'.active = d, NEW m \in 1 .. Len(log[d])
               PROVE  Accounted(store', d, m) \/ Settled(d, m)'
    BY DEF FeedIsAccounted, Accounted, Seqs, OfferedBelow
  <2>1. store.active = d /\ (Accounted(store, d, m) \/ Settled(d, m))
    BY <1>1 DEF Watch, FeedIsAccounted, Opened
  <2>2. c = d => n \in Seqs(store', c)
    BY <2>1 DEF Grown
  <2>3. CASE Accounted(store, d, m)
    <3>1. PICK s \in Stores : s = store
      BY DEF WInv, ShellTypes
    <3>2. PICK new \in Stores : new = store'
      OBVIOUS
    <3>3. m \in Nat /\ m > 0
      BY LogType DEF WInv
    <3>4. Accounted(new, d, m) \/ <<d, m>> \in Skipped(c, {n})
      BY <2>1, <2>3, <3>1, <3>2, <3>3, GrownAccounted DEF Watch
    <3> QED
      BY <3>2, <3>4 DEF Settled
  <2>4. CASE conn = "off" \/ <<d, m>> \in excused \cup events
    <3>1. CASE conn = "off" \/ <<d, m>> \in excused' \cup events'
      BY <3>1 DEF Settled
    <3>2. CASE ~(conn = "off" \/ <<d, m>> \in excused' \cup events')
      <4>1. <<d, m>> = <<c, n>>
        BY <2>4, <3>2
      <4> QED
        BY <2>2, <4>1 DEF Accounted
    <3> QED
      BY <3>1, <3>2
  <2>5. CASE log[d][m] \in acks
    <3>1. CASE log[d][m] \in acks'
      BY <3>1 DEF Settled
    <3>2. CASE log[d][m] \notin acks'
      <4>1. d = c /\ m = n
        BY <2>5, <3>2
      <4> QED
        BY <2>2, <4>1 DEF Accounted
    <3> QED
      BY <3>1, <3>2
  <2>6. CASE \E t \in Tasks : tasks[t].pc = "list" \/ Covers(tasks[t], d, m)
    BY <2>6 DEF Settled, CallsKept, Matters, Covers, Paging
  <2> QED
    BY <2>1, <2>3, <2>4, <2>5, <2>6 DEF Settled
<1> QED
  BY <1>2, <1>3, <1>4, <1>5 DEF Watch

LEMMA ApplyAckWatch ==
  ASSUME WInv, WInv', Watch, NEW k \in 1 .. MaxUpsets, ApplyAck(k)
  PROVE  Watch'
<1>1. /\ UNCHANGED <<server, conn, events, sentTo, mobilePane, route, tasks, strayed>>
      /\ k \in acks /\ acks' = acks \ {k}
  BY DEF ApplyAck
<1>2. PICK c \in Chats : c = sentTo[k]
  BY <1>1 DEF WInv, SendsAreKnown, Bounded
<1>3. PICK n \in 1 .. Len(log[c]) : n = PlaceOf(k)
  BY <1>1, <1>2 DEF WInv, SendsAreKnown, IsLogged, PlaceOf
<1>4. log[c][n] = k
  BY <1>1, <1>2, <1>3 DEF WInv, SendsAreKnown, IsLogged, PlaceOf
<1>5. store' = AcknowledgeServerMessage(store, c, n, k) /\ excused' = excused \cup Skipped(c, {n})
  BY <1>2, <1>3 DEF ApplyAck
<1>6. n \in Nat /\ k # Peer
  BY LogType DEF WInv, Peer
<1>7. Grown(store, store', c, n) /\ store' \in Stores
  BY <1>5, <1>6, AcknowledgeServerMessageGrows DEF WInv, ShellTypes
<1>8. ASSUME NEW d \in Chats, NEW m \in 1 .. Len(log[d]), log[d][m] = k PROVE d = c /\ m = n
  <2>1. d = c
    BY <1>2, <1>6, <1>8 DEF Watch, LoggedOnce
  <2> QED
    BY <1>4, <1>6, <1>8, <2>1 DEF Watch, LoggedOnce
<1>9. AnswersAreSound' /\ CallsKept
  BY <1>1, NoCall DEF Watch, server
<1>10. RouteKnown'
  BY <1>1, <1>7, <1>9, RouteStays DEF Watch, Grown, Opened
<1>11. \A j \in acks : j \in acks' \/
         \A d \in Chats : \A m \in 1 .. Len(log[d]) : log[d][m] = j => d = c /\ m = n
  BY <1>1, <1>8
<1> QED
  BY <1>1, <1>5, <1>6, <1>7, <1>9, <1>10, <1>11, GrownWatch DEF server

LEMMA ApplyCreatedMessageWatch ==
  ASSUME WInv, WInv', Watch, NEW c \in Chats, NEW n \in 1 .. Len(log[c]), ApplyCreatedMessage(c, n)
  PROVE  Watch'
<1>1. /\ UNCHANGED <<server, conn, acks, sentTo, mobilePane, route, strayed>>
      /\ events' = events \ {<<c, n>>}
  BY DEF ApplyCreatedMessage, outbox
<1>2. UNCHANGED <<log, unread, serverChats, newest>>
  BY <1>1 DEF server
<1>3. n \in Nat /\ store \in Stores /\ store' \in Stores
  BY LogType DEF WInv, ShellTypes
<1> DEFINE own == log[c][n] # Peer
           with == UpsertServerMessage(store, c, n, own)
<1>4. with \in Stores /\ Grown(store, with, c, n)
  <2>1. own \in BOOLEAN
    OBVIOUS
  <2> HIDE DEF own
  <2> QED
    BY <1>3, <2>1, UpsertServerMessageGrows, UpsertServerMessageFollows DEF Follows
<1>a. c \in DOMAIN store.chats => excused' = excused \cup Skipped(c, {n})
                               /\ IF c = store.active THEN store' = MarkChatRead(with, c)
                                  ELSE store' = with /\ tasks' = tasks
  BY DEF ApplyCreatedMessage
<1> HIDE DEF with
<1>5. CASE c \notin DOMAIN store.chats
  <2> DEFINE keep == store.active = NoChat
  <2>1. store' = store
    BY <1>5 DEF ApplyCreatedMessage
  <2>2. PICK t \in Tasks : Free(t) /\ Goto(t, LoadChatWorkspace("created", store.active, keep, store, route))
    BY <1>5 DEF ApplyCreatedMessage
  <2>3. /\ keep \in BOOLEAN /\ "created" \in Origins /\ store.active \in ChatOrNone \cup {"undefined"}
        /\ route \in ChatOrNone
    BY DEF WInv, ShellTypes, Stores, Origins
  <2> HIDE DEF keep
  <2> DEFINE task == LoadChatWorkspace("created", store.active, keep, store, route)
  <2>4. GoodCall(task) /\ Fresh(task) /\ task.pc = "list"
    BY <1>3, <2>3, LoadIsGood, LoadIsFresh
  <2> HIDE DEF task
  <2>5. AnswersAreSound' /\ CallsKept /\ tasks'[t] = task
    BY <1>2, <2>2, <2>4, GoneAside DEF Watch, Free, Matters, task
  <2>6. RouteKnown'
    BY <1>1, <2>1, <2>5, RouteStays DEF Watch
  <2>7. Alike(store, store')
    BY <2>1, SameItself DEF Same
  <2> QED
    BY <1>1, <1>2, <2>4, <2>5, <2>6, <2>7, ListUnderWay
<1>6. CASE c \in DOMAIN store.chats /\ c = store.active
  <2>1. excused' = excused \cup Skipped(c, {n}) /\ store' = MarkChatRead(with, c)
    BY <1>6, <1>a
  <2>2. PICK t \in Tasks : Free(t) /\ Goto(t, Simple("read", c))
    BY <1>6 DEF ApplyCreatedMessage
  <2>4. Grown(store, store', c, n)
    <3>1. Same(with, MarkChatRead(with, c))
      BY <1>4, MarkChatReadSame
    <3>2. Grown(store, MarkChatRead(with, c), c, n)
      BY <1>4, <3>1, GrownOn
    <3> QED
      BY <2>1, <3>2
  <2>5. GoodCall(Simple("read", c))
    BY SimpleIsGood DEF PCs, ChatOrNone
  <2>6. AnswersAreSound' /\ CallsKept /\ tasks'[t] = Simple("read", c)
    BY <1>2, <2>2, <2>5, SimpleIsFresh, GoneAside DEF Watch, Free, Matters
  <2>7. Reading(tasks'[t], c)
    BY <2>6, SimpleIsFresh DEF Reading, Fresh, Done, NoAnswer
  <2>8. RouteKnown'
    BY <1>1, <2>4, <2>6, RouteStays DEF Watch, Grown, Opened
  <2> QED
    BY <1>1, <1>2, <1>3, <2>1, <2>4, <2>6, <2>7, <2>8, GrownWatch
<1>7. CASE c \in DOMAIN store.chats /\ c # store.active
  <2>1. excused' = excused \cup Skipped(c, {n}) /\ tasks' = tasks /\ store' = with
    BY <1>7, <1>a
  <2>2. AnswersAreSound' /\ CallsKept
    BY <1>2, <2>1, NoCall DEF Watch
  <2>3. Grown(store, store', c, n)
    BY <1>4, <2>1
  <2>4. RouteKnown'
    BY <1>1, <2>2, <2>3, RouteStays DEF Watch, Grown, Opened
  <2> QED
    BY <1>1, <1>2, <1>3, <1>7, <2>1, <2>2, <2>3, <2>4, GrownWatch
<1> QED
  BY <1>5, <1>6, <1>7

-----------------------------------------------------------------------------
(* The answers. *)

\* A call that does not matter goes on.
LEMMA GoneSteady ==
  ASSUME WInv, Watch, NEW t \in Tasks, ~Matters(tasks[t]),
         NEW task, GoodCall(task), Fresh(task), Goto(t, task),
         Same(store, store'), UNCHANGED <<server, connection, route, history>>
  PROVE  Watch'
<1>1. AnswersAreSound' /\ CallsKept
  BY GoneAside DEF Watch, server
<1>2. RouteKnown'
  BY <1>1, RouteStays DEF Watch, Same, Alike, Opened, history
<1> QED
  BY <1>1, <1>2, Steady DEF server, connection, outbox, history

LEMMA SignInWatch ==
  ASSUME WInv, Watch, NEW t \in Tasks, tasks[t].pc \in {"me", "login"}, SignIn(t), UNCHANGED server
  PROVE  Watch'
<1> DEFINE keep == FALSE
           origin == tasks[t].pc
           task == LoadChatWorkspace(origin, "undefined", keep, store, route)
<1>1. /\ store' = SetCurrentUser(store) /\ Goto(t, task)
      /\ UNCHANGED <<conn, events, acks, sentTo, mobilePane, route, history>>
  BY DEF SignIn, outbox
<1>2. origin \in Origins /\ keep \in BOOLEAN /\ "undefined" \in ChatOrNone \cup {"undefined"}
  BY DEF Origins
<1>3. store \in Stores /\ route \in ChatOrNone
  BY DEF WInv, ShellTypes
<1>4. ~Matters(tasks[t])
  BY DEF Matters
<1> HIDE DEF keep, origin
<1>5. GoodCall(task) /\ Fresh(task) /\ task.pc = "list"
  BY <1>2, <1>3, LoadIsGood, LoadIsFresh
<1> HIDE DEF task
<1>6. AnswersAreSound' /\ CallsKept /\ tasks'[t] = task
  BY <1>1, <1>4, <1>5, GoneAside DEF Watch, server
<1>7. Alike(store, store')
  BY <1>1, <1>3, SetCurrentUserAlike
<1>8. RouteKnown'
  BY <1>1, <1>6, <1>7, RouteStays DEF Watch, Alike, Opened, history
<1> QED
  BY <1>1, <1>5, <1>6, <1>7, <1>8, ListUnderWay DEF server

\* The call is over, and with it the session.
LEMMA GoneOut ==
  ASSUME WInv, Watch, NEW t \in Tasks, Goto(t, Idle), store' = ClearSession(store),
         UNCHANGED server, sentTo' = sentTo
  PROVE  Watch'
<1>1. AnswersAreSound'
  BY GoneSound, IdleIsGood, IdleIsFresh DEF Watch, server
<1> QED
  BY <1>1, SessionEnds DEF server

LEMMA IdleSteady ==
  ASSUME WInv, Watch, NEW t \in Tasks, ~Matters(tasks[t]), Goto(t, Idle),
         Same(store, store'), UNCHANGED <<server, connection, route, history>>
  PROVE  Watch'
BY IdleIsGood, IdleIsFresh, GoneSteady

LEMMA BootstrapAnsweredWatch ==
  ASSUME WInv, Watch, NEW t \in Tasks, BootstrapAnswered(t)
  PROVE  Watch'
<1>1. tasks[t].pc = "me" /\ UNCHANGED server
  BY DEF BootstrapAnswered, Awaits
<1>2. CASE SignIn(t)
  BY <1>1, <1>2, SignInWatch
<1>3. CASE ~SignIn(t)
  <2>1. /\ store' = store \/ store' = ClearSession(store)
        /\ Goto(t, Idle) /\ UNCHANGED <<connection, mobilePane, route, history>>
    BY <1>3 DEF BootstrapAnswered
  <2>2. CASE store' = store
    BY <1>1, <2>1, <2>2, SameItself, IdleSteady DEF Matters
  <2>3. CASE store' = ClearSession(store)
    BY <1>1, <2>1, <2>3, GoneOut DEF connection, outbox
  <2> QED
    BY <2>1, <2>2, <2>3
<1> QED
  BY <1>2, <1>3

LEMMA LoginAnsweredWatch ==
  ASSUME WInv, Watch, NEW t \in Tasks, LoginAnswered(t)
  PROVE  Watch'
<1>1. tasks[t].pc = "login" /\ UNCHANGED server
  BY DEF LoginAnswered, Awaits
<1>2. CASE SignIn(t)
  BY <1>1, <1>2, SignInWatch
<1>3. CASE ~SignIn(t)
  BY <1>1, <1>3, SameItself, IdleSteady DEF LoginAnswered, Matters, shell
<1> QED
  BY <1>2, <1>3

LEMMA LogoutAnsweredWatch ==
  ASSUME WInv, Watch, NEW t \in Tasks, LogoutAnswered(t)
  PROVE  Watch'
<1>1. tasks[t].pc = "logout" /\ UNCHANGED server /\ Goto(t, Idle)
  BY DEF LogoutAnswered, Awaits
<1>2. CASE UNCHANGED <<connection, shell, history>>
  BY <1>1, <1>2, SameItself, IdleSteady DEF Matters, shell
<1>3. CASE Disconnect /\ store' = ClearSession(store)
  BY <1>1, <1>3, GoneOut DEF Disconnect
<1> QED
  BY <1>2, <1>3 DEF LogoutAnswered

LEMMA CreateAnsweredWatch ==
  ASSUME WInv, Watch, NEW t \in Tasks, CreateAnswered(t)
  PROVE  Watch'
<1>1. tasks[t].pc = "create" /\ UNCHANGED server /\ ~Matters(tasks[t])
  BY DEF CreateAnswered, Awaits, Matters
<1>2. CASE Goto(t, Idle) /\ UNCHANGED <<connection, shell, history>>
  BY <1>1, <1>2, SameItself, IdleSteady DEF shell
<1>3. CASE ~(Goto(t, Idle) /\ UNCHANGED <<connection, shell, history>>)
  <2> DEFINE keep == FALSE
             chat == tasks[t].chat
             task == LoadChatWorkspace("create", chat, keep, store, route')
  <2>1. /\ UpdateChatRoute(chat) /\ Goto(t, task) /\ UNCHANGED <<store, connection, excused>>
    BY <1>3 DEF CreateAnswered
  <2>2. chat \in ChatOrNone
    BY <1>1 DEF WInv, CallsAreGood, GoodCall, ChatOrNone
  <2>3. store \in Stores /\ "create" \in Origins /\ keep \in BOOLEAN /\ chat \in ChatOrNone \cup {"undefined"}
        /\ route' \in ChatOrNone
    BY <2>1, <2>2 DEF WInv, ShellTypes, Origins, UpdateChatRoute
  <2> HIDE DEF keep, chat
  <2>4. GoodCall(task) /\ Fresh(task) /\ task.pc = "list" /\ task.origin = "create"
    BY <2>3, LoadIsGood, LoadIsFresh
  <2> HIDE DEF task
  <2>5. AnswersAreSound' /\ CallsKept /\ tasks'[t] = task
    BY <1>1, <2>1, <2>4, GoneAside DEF Watch, server
  <2>6. RouteKnown'
    BY <2>4, <2>5 DEF RouteKnown, Creating
  <2>7. Alike(store, store')
    BY <2>1, SameItself DEF Same
  <2> QED
    BY <1>1, <2>1, <2>4, <2>5, <2>6, <2>7, ListUnderWay DEF server, connection, outbox
<1> QED
  BY <1>2, <1>3

LEMMA ListAnsweredWatch ==
  ASSUME WInv, Watch, NEW t \in Tasks, ListAnswered(t)
  PROVE  Watch'
<1> DEFINE answer == tasks[t].answer
           select == ~tasks[t].keep
           loaded == SetDirectChats(store, answer.chats, answer.first, tasks[t].chat, select)
<1>1. tasks[t].pc = "list" /\ Arrived(tasks[t]) /\ UNCHANGED <<server, connection>>
  BY DEF ListAnswered, Awaits, Ok, Arrived
<1>2. \/ /\ loaded.active # NoChat
         /\ store' = loaded /\ UpdateChatRoute(loaded.active) /\ Goto(t, Simple("page", loaded.active))
      \/ /\ loaded.active = NoChat /\ store' = ClearMessages(loaded) /\ Goto(t, Idle)
  BY DEF ListAnswered
<1>3. GoodCall(tasks[t]) /\ store \in Stores /\ Sound(tasks[t], serverChats)
  BY DEF WInv, CallsAreGood, ShellTypes, Watch, AnswersAreSound
<1>4. /\ DOMAIN answer.chats \subseteq serverChats
      /\ answer.first \in DOMAIN answer.chats \cup {NoChat}
  <2>1. answer \in ListAnswers
    BY <1>1, <1>3, ArrivedIsNotQuick DEF GoodCall
  <2>2. answer.tag = "list"
    BY <2>1 DEF ListAnswers
  <2> QED
    BY <1>3, <2>2 DEF Sound
<1>5. /\ loaded.chats = answer.chats /\ loaded.feed = store.feed /\ loaded.pages = store.pages
      /\ loaded.active \in DOMAIN answer.chats \cup {NoChat}
  <2> DEFINE active == IF tasks[t].chat \in DOMAIN answer.chats THEN tasks[t].chat
                       ELSE IF select THEN answer.first ELSE NoChat
  <2>1. loaded = [store EXCEPT !.chats = answer.chats, !.active = active]
    BY DEF SetDirectChats
  <2>2. active \in DOMAIN answer.chats \cup {NoChat}
    BY <1>4
  <2> HIDE DEF active, loaded
  <2> QED
    BY <1>3, <2>1, <2>2 DEF Stores
<1>6. loaded \in Stores
  <2>1. answer.chats \in Badges /\ answer.first \in ChatOrNone /\ select \in BOOLEAN
    BY <1>1, <1>3, ListArrived
  <2> HIDE DEF answer, select
  <2> QED
    BY <1>3, <2>1, SetDirectChatsFollows DEF Follows
<1> HIDE DEF loaded, answer
<1>7. CASE /\ loaded.active # NoChat
           /\ store' = loaded /\ UpdateChatRoute(loaded.active) /\ Goto(t, Simple("page", loaded.active))
  <2> DEFINE c == loaded.active
             task == Simple("page", c)
  <2>1. c \in Chats
    BY <1>6, <1>7 DEF Stores, ChatOrNone
  <2> HIDE DEF c
  <2>2. GoodCall(task) /\ Fresh(task) /\ task.pc = "page" /\ task.chat = c
    BY <2>1, SimpleIsGood, SimpleIsFresh DEF PCs, ChatOrNone
  <2>3. Goto(t, task)
    BY <1>7 DEF c
  <2> HIDE DEF task
  <2>4. AnswersAreSound' /\ tasks'[t] = task
    BY <1>1, <2>2, <2>3, GoneSound DEF Watch, server
  <2>5. RouteKnown'
    BY <1>7 DEF RouteKnown, UpdateChatRoute
  <2>6. Known'
    BY <1>1, <1>4, <1>5, <1>7 DEF Watch, Known, server, connection, outbox
  <2>7. OldestIsShown'
    BY <1>5, <1>7 DEF Watch, OldestIsShown, OfferedBelow, Seqs
  <2>8. Paging(tasks'[t], store'.active) /\ tasks'[t].answer = NoAnswer
    BY <1>7, <2>2, <2>4 DEF Paging, Fresh, c
  <2> QED
    BY <1>1, <2>4, <2>5, <2>6, <2>7, <2>8, PageUnderWay DEF server, connection, outbox
<1>8. CASE loaded.active = NoChat /\ store' = ClearMessages(loaded) /\ Goto(t, Idle)
  <2>1. AnswersAreSound'
    BY <1>1, <1>8, GoneSound, IdleIsGood, IdleIsFresh DEF Watch, server
  <2>2. store'.active = NoChat /\ store'.chats = answer.chats /\ store'.pages = Nothing
    BY <1>5, <1>6, <1>8 DEF ClearMessages, Stores
  <2>3. Known'
    BY <1>1, <1>4, <2>2 DEF Watch, Known, server, connection, outbox
  <2>4. OldestIsShown'
    BY <2>2, NothingIsLoaded DEF OldestIsShown
  <2> QED
    BY <1>1, <2>1, <2>2, <2>3, <2>4, NothingOpen DEF server, connection, outbox
<1> QED
  BY <1>2, <1>7, <1>8

LEMMA ListFailedWatch ==
  ASSUME WInv, Watch, NEW t \in Tasks, ListFailed(t)
  PROVE  Watch'
<1>1. tasks[t].pc = "list" /\ Goto(t, Idle) /\ strayed' = TRUE /\ UNCHANGED server
  BY DEF ListFailed, Awaits
<1>2. \/ store' = ClearSession(store) /\ sentTo' = sentTo
      \/ excused' = excused \cup AllSoFar /\ UNCHANGED <<connection, shell>>
  BY DEF ListFailed, HandleSessionExpired, Disconnect, connection, outbox
<1>3. CASE store' = ClearSession(store) /\ sentTo' = sentTo
  BY <1>1, <1>3, GoneOut
<1>4. CASE excused' = excused \cup AllSoFar /\ UNCHANGED <<connection, shell>>
  <2>1. AnswersAreSound' /\ \A u \in Tasks : u # t => tasks'[u] = tasks[u]
    BY <1>1, GoneSound, IdleIsGood, IdleIsFresh DEF Watch, server
  <2>2. Same(store, store')
    BY <1>4, SameItself DEF shell
  <2>3. RouteKnown'
    BY <1>1 DEF RouteKnown
  <2>4. Known' /\ OldestIsShown' /\ BadgeIsClear'
    BY <1>1, <1>4, <2>1, <2>2, KnownStays, OldestStays, BadgeStays
    DEF Watch, Same, Alike, server, connection, outbox
  <2> QED
    BY <1>1, <1>4, <2>1, <2>3, <2>4, AllExcused DEF WInv, ServerTypes, server, connection, outbox
<1> QED
  BY <1>2, <1>3, <1>4

LEMMA ReadAnsweredWatch ==
  ASSUME WInv, Watch, NEW t \in Tasks, ReadAnswered(t)
  PROVE  Watch'
<1>1. /\ tasks[t].pc = "read" /\ tasks[t].answer.tag # "none" /\ Goto(t, Idle)
      /\ excused' = IF Ok(t) THEN excused ELSE excused \cup AllSoFar
      /\ UNCHANGED <<server, connection, shell, strayed, upsets>>
  BY DEF ReadAnswered, Awaits
<1>2. Same(store, store')
  BY <1>1, SameItself DEF shell
<1>3. CASE tasks[t].answer = Done
  <2>1. excused' = excused
    BY <1>1, <1>3 DEF Ok, Done
  <2> QED
    BY <1>1, <1>2, <1>3, <2>1, IdleSteady DEF Matters, history, shell
<1>4. CASE tasks[t].answer # Done
  <2>1. AnswersAreSound' /\ \A u \in Tasks : u # t => tasks'[u] = tasks[u]
    BY <1>1, GoneSound, IdleIsGood, IdleIsFresh DEF Watch, server
  <2>2. RouteKnown'
    BY <1>1, <2>1 DEF Watch, RouteKnown, Creating, shell
  <2>3. Known' /\ OldestIsShown' /\ BadgeIsClear'
    BY <1>1, <1>2, <2>1, KnownStays, OldestStays, BadgeStays
    DEF Watch, Same, Alike, server, connection, outbox
  <2>4. ~Ok(t)
    BY <1>1, <1>4 DEF WInv, CallsAreGood, GoodCall, Quick, NoAnswer, Failed, Unauthorized, Ok
  <2> QED
    BY <1>1, <2>1, <2>2, <2>3, <2>4, AllExcused DEF WInv, ServerTypes, server, connection, outbox
<1> QED
  BY <1>3, <1>4

LEMMA FetchedOn ==
  ASSUME NEW r, NEW s, NEW u, NEW c \in Chats, NEW seqs, NEW hasMore, Fetched(r, s, c, seqs, hasMore),
         Same(s, u)
  PROVE  /\ Opened(r, u) /\ u.signedIn = r.signedIn /\ Seqs(u, c) = seqs
         /\ OfferedBelow(u, c) = IF hasMore THEN FindOldestPersistedSeq(u.feed, c) ELSE 0
         /\ \A d \in Chats : d # c => Seqs(u, d) = Seqs(r, d) /\ OfferedBelow(u, d) = OfferedBelow(r, d)
<1>1. /\ s.active = r.active /\ s.chats = r.chats /\ s.signedIn = r.signedIn
      /\ Opened(s, u) /\ u.signedIn = s.signedIn
      /\ \A d \in Chats : Seqs(u, d) = Seqs(s, d) /\ OfferedBelow(u, d) = OfferedBelow(s, d)
  BY DEF Fetched, Same, Alike
<1>2. Opened(r, u)
  BY <1>1 DEF Opened
<1>3. FindOldestPersistedSeq(u.feed, c) = FindOldestPersistedSeq(s.feed, c)
  <2>1. Seqs(u, c) = Seqs(s, c)
    BY <1>1
  <2> QED
    BY <2>1 DEF FindOldestPersistedSeq, Seqs
<1> QED
  BY <1>1, <1>2, <1>3 DEF Fetched

\* What was shown of another chat, or below it, still is.
LEMMA OthersStay ==
  ASSUME NEW s, NEW u, NEW d, NEW n, Accounted(s, d, n),
         Seqs(u, d) = Seqs(s, d), OfferedBelow(u, d) = OfferedBelow(s, d)
  PROVE  Accounted(u, d, n)
<1>1. FindOldestPersistedSeq(u.feed, d) = FindOldestPersistedSeq(s.feed, d)
  BY DEF FindOldestPersistedSeq, Seqs
<1> QED
  BY <1>1 DEF Accounted

LEMMA ReadPageArrived ==
  ASSUME WInv, Watch, NEW t \in Tasks, tasks[t].pc \in {"page", "older"}, Arrived(tasks[t])
  PROVE  LET answer == tasks[t].answer
         IN  /\ answer.tag = "page" /\ answer.seqs \in SUBSET Nat /\ answer.hasMore \in BOOLEAN
             /\ Gapless(answer.seqs, answer.hasMore)
<1>1. GoodCall(tasks[t]) /\ Sound(tasks[t], serverChats)
  BY DEF WInv, CallsAreGood, Watch, AnswersAreSound
<1>2. tasks[t].answer \in PageAnswers
  BY <1>1, ArrivedIsNotQuick DEF GoodCall
<1> QED
  BY <1>1, <1>2 DEF PageAnswers, Sound

\* The page of a chat is shown, and its call goes on to mark the chat as read.
LEMMA PageShownWatch ==
  ASSUME WInv, WInv', Watch, NEW t \in Tasks, NEW c \in Chats, Paging(tasks[t], c),
         NEW S \in SUBSET Nat, tasks[t].answer.tag = "page", tasks[t].answer.seqs = S,
         NEW hasMore \in BOOLEAN, Gapless(S, hasMore),
         Reading(tasks'[t], c), \A u \in Tasks : u # t => tasks'[u] = tasks[u],
         Opened(store, store'), store'.signedIn = store.signedIn, Seqs(store', c) = S,
         OfferedBelow(store', c) = IF hasMore THEN FindOldestPersistedSeq(store'.feed, c) ELSE 0,
         \A d \in Chats : d # c =>
           Seqs(store', d) = Seqs(store, d) /\ OfferedBelow(store', d) = OfferedBelow(store, d),
         BadgeIsClear', RouteKnown', AnswersAreSound',
         UNCHANGED <<log, unread, serverChats, newest, sentTo, conn, events, acks>>,
         excused' = excused \cup Overtaken(c, S)
  PROVE  Watch'
<1>1. Known' /\ LoggedOnce' /\ UnreadIsLogged'
  BY KnownStays, LogsStay DEF Watch
<1>2. store \in Stores /\ store' \in Stores
  BY DEF WInv, ShellTypes
<1>3. OldestIsShown'
  <2> SUFFICES ASSUME NEW d \in Chats, OfferedBelow(store', d) # 0
               PROVE  OfferedBelow(store', d) \in Seqs(store', d)
    BY DEF OldestIsShown
  <2>1. CASE d = c
    BY <1>2, <2>1, NoOldest, OldestIsLeast
  <2>2. CASE d # c
    BY <2>2 DEF Watch, OldestIsShown
  <2> QED
    BY <2>1, <2>2
<1>4. \A u \in Tasks : u # t /\ Matters(tasks[u]) => tasks'[u] = tasks[u]
  OBVIOUS
<1>5. UnreadIsDue'
  <2> SUFFICES ASSUME NEW d \in Chats, store'.signedIn, store'.active = d, unread'[d] > 0
               PROVE  Due(d)'
    BY DEF UnreadIsDue
  <2>1. Due(d)
    BY DEF Watch, UnreadIsDue, Opened
  <2>2. CASE \E n \in 1 .. Len(log[d]) : <<d, n>> \in excused \cup events
    BY <2>2 DEF Due
  <2>3. ASSUME NEW u \in Tasks, tasks[u].pc = "list" \/ Paging(tasks[u], d) \/ Reading(tasks[u], d)
        PROVE  Due(d)'
    <3>1. CASE u = t
      BY <2>3, <3>1 DEF Paging, Reading, Due
    <3>2. CASE u # t
      BY <2>3, <3>2 DEF Due
    <3> QED
      BY <3>1, <3>2
  <2> QED
    BY <2>1, <2>2, <2>3 DEF Due
<1>6. FeedIsAccounted'
  <2> SUFFICES ASSUME NEW d \in Chats, store'.signedIn, store'.active = d, NEW m \in 1 .. Len(log[d])
               PROVE  Accounted(store', d, m) \/ Settled(d, m)'
    BY DEF FeedIsAccounted, Accounted, Seqs, OfferedBelow
  <2>1. Accounted(store, d, m) \/ Settled(d, m)
    BY DEF Watch, FeedIsAccounted, Opened
  <2>2. m \in Nat /\ m > 0
    BY LogType DEF WInv
  <2>3. CASE conn = "off" \/ <<d, m>> \in excused \cup events \/ log[d][m] \in acks
    BY <2>3 DEF Settled
  <2>4. ASSUME NEW u \in Tasks, u # t, tasks[u].pc = "list" \/ Covers(tasks[u], d, m)
        PROVE  Settled(d, m)'
    BY <2>4 DEF Settled
  <2>5. CASE d # c
    <3>1. ~Covers(tasks[t], d, m) /\ tasks[t].pc # "list"
      BY <2>5 DEF Covers, Paging
    <3>2. Accounted(store, d, m) => Accounted(store', d, m)
      BY <2>5, OthersStay
    <3> QED
      BY <2>1, <2>3, <2>4, <3>1, <3>2 DEF Settled
  <2>6. CASE d = c /\ \E p \in S : m <= p
    <3>1. PICK p \in S : m <= p
      BY <2>6
    <3> DEFINE o == FindOldestPersistedSeq(store'.feed, c)
    <3>2. o \in S /\ o \in Nat
      BY <1>2, <3>1, OldestIsLeast, SeqsAreNats
    <3> HIDE DEF o
    <3>3. CASE o <= m
      BY <2>2, <2>6, <3>1, <3>2, <3>3 DEF Accounted, Gapless
    <3>4. CASE ~(o <= m) /\ hasMore
      BY <2>2, <2>6, <3>2, <3>4 DEF Accounted, o
    <3>5. CASE ~hasMore
      <4>1. 1 \in S
        BY <3>1, <3>5 DEF Gapless
      <4>2. m \in S
        BY <2>2, <3>1, <4>1 DEF Gapless
      <4> QED
        BY <2>6, <4>2 DEF Accounted
    <3> QED
      BY <3>3, <3>4, <3>5
  <2>7. CASE d = c /\ \A p \in S : ~(m <= p)
    <3>1. ~Covers(tasks[t], d, m) /\ tasks[t].pc # "list"
      BY <2>7 DEF Covers, Paging
    <3>2. ASSUME NEW q \in Seqs(store, c), m <= q PROVE Settled(d, m)'
      <4>1. \A p \in S : m > p
        BY <2>2, <2>7
      <4>2. <<d, m>> \in Overtaken(c, S)
        BY <2>7, <3>2, <4>1 DEF Overtaken, Seqs
      <4> QED
        BY <4>2 DEF Settled
    <3>3. CASE Accounted(store, d, m)
      <4>1. CASE m \in Seqs(store, c)
        BY <2>2, <3>2, <4>1
      <4>2. CASE OfferedBelow(store, c) # 0 /\ m < FindOldestPersistedSeq(store.feed, c)
        <5>1. OfferedBelow(store, c) \in Seqs(store, c)
          BY <4>2 DEF Watch, OldestIsShown
        <5>2. FindOldestPersistedSeq(store.feed, c) \in Seqs(store, c)
          BY <1>2, <5>1, OldestIsLeast
        <5>3. FindOldestPersistedSeq(store.feed, c) \in Nat
          BY <1>2, SeqsAreNats
        <5> QED
          BY <2>2, <3>2, <4>2, <5>2, <5>3
      <4> QED
        BY <2>7, <3>3, <4>1, <4>2 DEF Accounted
    <3> QED
      BY <2>1, <2>3, <2>4, <3>1, <3>3 DEF Settled
  <2> QED
    BY <2>5, <2>6, <2>7
<1> QED
  BY <1>1, <1>3, <1>5, <1>6 DEF Watch

LEMMA PageAnsweredWatch ==
  ASSUME WInv, WInv', Watch, NEW t \in Tasks, PageAnswered(t)
  PROVE  Watch'
<1>1. /\ tasks[t].pc = "page" /\ tasks[t].answer.tag # "none"
      /\ UNCHANGED <<server, connection, mobilePane, route, strayed, upsets>>
  BY DEF PageAnswered, Awaits
<1>2. GoodCall(tasks[t]) /\ store \in Stores
  BY DEF WInv, CallsAreGood, ShellTypes
<1>3. PICK c \in Chats : c = tasks[t].chat
  BY <1>1, <1>2 DEF GoodCall
<1>4. Goto(t, Simple("read", c))
  BY <1>3 DEF PageAnswered
<1>5. GoodCall(Simple("read", c))
  BY SimpleIsGood DEF PCs, ChatOrNone
<1>6. /\ AnswersAreSound' /\ tasks'[t] = Simple("read", c)
      /\ \A u \in Tasks : u # t => tasks'[u] = tasks[u]
  BY <1>1, <1>4, <1>5, SimpleIsFresh, GoneSound DEF Watch, server
<1>7. Reading(tasks'[t], c) /\ Paging(tasks[t], c)
  BY <1>1, <1>3, <1>6, SimpleIsFresh DEF Reading, Paging, Fresh, Done, NoAnswer
<1>8. ASSUME Opened(store, store'), c \in DOMAIN store.chats => store'.chats[c] = 0
      PROVE  RouteKnown' /\ BadgeIsClear'
  <2>1. RouteKnown'
    BY <1>1, <1>6, <1>8 DEF Watch, RouteKnown, Creating, Opened
  <2>2. BadgeIsClear'
    <3> SUFFICES ASSUME NEW d \in Chats, store'.active = d
                 PROVE  store'.chats[d] = 0 \/ \E u \in Tasks : Paging(tasks'[u], d)
      BY DEF BadgeIsClear, Paging
    <3>1. store.active = d /\ d \in DOMAIN store.chats
      BY <1>8, ChatsAssumption DEF Watch, Known, Opened
    <3>2. CASE d = c
      BY <1>8, <3>1, <3>2
    <3>3. CASE d # c /\ store.chats[d] = 0
      BY <1>8, <3>1, <3>3 DEF Opened
    <3>4. ASSUME NEW u \in Tasks, d # c, Paging(tasks[u], d) PROVE Paging(tasks'[u], d)
      BY <1>6, <1>7, <3>4 DEF Paging
    <3> QED
      BY <3>1, <3>2, <3>3, <3>4 DEF Watch, BadgeIsClear
  <2> QED
    BY <2>1, <2>2
<1>9. CASE Ok(t)
  <2>1. Arrived(tasks[t])
    BY <1>1, <1>9 DEF Ok, Arrived
  <2>2. PICK S \in SUBSET Nat : S = tasks[t].answer.seqs
    BY <1>1, <2>1, ReadPageArrived
  <2>3. PICK hasMore \in BOOLEAN : hasMore = tasks[t].answer.hasMore
    BY <1>1, <2>1, ReadPageArrived
  <2>4. tasks[t].answer.tag = "page" /\ Gapless(S, hasMore)
    BY <1>1, <2>1, <2>2, <2>3, ReadPageArrived
  <2> DEFINE set == SetMessages(store, c, S, hasMore)
  <2>5. store' = MarkChatRead(set, c) /\ excused' = excused \cup Overtaken(c, S)
    BY <1>3, <1>9, <2>2, <2>3 DEF PageAnswered
  <2>6. set \in Stores /\ Fetched(store, set, c, S, hasMore)
    BY <1>2, SetMessagesFollows, SetMessagesSeqs DEF Follows
  <2> HIDE DEF set
  <2>7. Same(set, MarkChatRead(set, c)) /\ (c \in DOMAIN set.chats => MarkChatRead(set, c).chats[c] = 0)
    BY <2>6, MarkChatReadSame
  <2>8. Same(set, store') /\ (c \in DOMAIN store.chats => store'.chats[c] = 0)
    BY <2>5, <2>6, <2>7 DEF Fetched
  <2>9. /\ Opened(store, store') /\ store'.signedIn = store.signedIn /\ Seqs(store', c) = S
        /\ OfferedBelow(store', c) = IF hasMore THEN FindOldestPersistedSeq(store'.feed, c) ELSE 0
        /\ \A d \in Chats : d # c =>
             Seqs(store', d) = Seqs(store, d) /\ OfferedBelow(store', d) = OfferedBelow(store, d)
    BY <2>6, <2>8, FetchedOn
  <2> QED
    BY <1>1, <1>6, <1>7, <1>8, <2>2, <2>4, <2>5, <2>8, <2>9, PageShownWatch DEF server, connection, outbox
<1>10. CASE ~Ok(t)
  <2>1. store' = MarkChatRead(store, c) /\ excused' = excused \cup AllSoFar
    BY <1>3, <1>10 DEF PageAnswered
  <2>2. Same(store, store') /\ (c \in DOMAIN store.chats => store'.chats[c] = 0)
    BY <1>2, <2>1, MarkChatReadSame
  <2>3. Known' /\ OldestIsShown' /\ RouteKnown' /\ BadgeIsClear'
    BY <1>1, <1>8, <2>2, KnownStays, OldestStays DEF Watch, Same, Alike, server, connection, outbox
  <2> QED
    BY <1>1, <1>6, <2>1, <2>3, AllExcused DEF WInv, ServerTypes, server, connection, outbox
<1> QED
  BY <1>9, <1>10

\* Older messages are put below the ones shown.
LEMMA PrependedWatch ==
  ASSUME WInv, WInv', Watch, NEW c \in Chats, NEW S \in SUBSET Nat,
         NEW hasMore \in BOOLEAN, Gapless(S, hasMore),
         Fetched(store, store', c, Seqs(store, c) \cup S, hasMore),
         CallsKept, RouteKnown', AnswersAreSound',
         UNCHANGED <<log, unread, serverChats, newest, sentTo, conn, events, acks>>,
         excused' = excused \cup Skipped(c, S)
  PROVE  Watch'
<1>1. Opened(store, store') /\ store'.signedIn = store.signedIn
  BY DEF Fetched, Opened
<1>2. Known' /\ LoggedOnce' /\ UnreadIsLogged' /\ BadgeIsClear'
  BY <1>1, KnownStays, LogsStay, BadgeStays DEF Watch, CallsKept, Matters
<1>3. store \in Stores /\ store' \in Stores
  BY DEF WInv, ShellTypes
<1>4. OldestIsShown'
  <2> SUFFICES ASSUME NEW d \in Chats, OfferedBelow(store', d) # 0
               PROVE  OfferedBelow(store', d) \in Seqs(store', d)
    BY DEF OldestIsShown
  <2>1. CASE d = c
    BY <1>3, <2>1, NoOldest, OldestIsLeast DEF Fetched
  <2>2. CASE d # c
    BY <2>2 DEF Watch, OldestIsShown, Fetched
  <2> QED
    BY <2>1, <2>2
<1>5. UnreadIsDue'
  <2> SUFFICES ASSUME NEW d \in Chats, store'.signedIn, store'.active = d, unread'[d] > 0
               PROVE  Due(d)'
    BY DEF UnreadIsDue
  <2>1. Due(d)
    BY <1>1 DEF Watch, UnreadIsDue, Opened
  <2>2. CASE \E n \in 1 .. Len(log[d]) : <<d, n>> \in excused \cup events
    BY <2>2 DEF Due
  <2>3. CASE \E t \in Tasks : tasks[t].pc = "list" \/ Paging(tasks[t], d) \/ Reading(tasks[t], d)
    BY <2>3 DEF Due, CallsKept, Matters, Paging, Reading
  <2> QED
    BY <2>1, <2>2, <2>3 DEF Due
<1>6. FeedIsAccounted'
  <2> SUFFICES ASSUME NEW d \in Chats, store'.signedIn, store'.active = d, NEW m \in 1 .. Len(log[d])
               PROVE  Accounted(store', d, m) \/ Settled(d, m)'
    BY DEF FeedIsAccounted, Accounted, Seqs, OfferedBelow
  <2>1. Accounted(store, d, m) \/ Settled(d, m)
    BY <1>1 DEF Watch, FeedIsAccounted, Opened
  <2>2. ASSUME Settled(d, m) PROVE Settled(d, m)'
    <3>1. CASE conn = "off" \/ <<d, m>> \in excused \cup events \/ log[d][m] \in acks
      BY <3>1 DEF Settled
    <3>2. CASE \E t \in Tasks : tasks[t].pc = "list" \/ Covers(tasks[t], d, m)
      BY <3>2 DEF Settled, CallsKept, Matters, Covers, Paging
    <3> QED
      BY <2>2, <3>1, <3>2 DEF Settled
  <2>a. m \in Nat /\ m > 0
    BY LogType DEF WInv
  <2>3. CASE d # c /\ Accounted(store, d, m)
    BY <2>3, OthersStay DEF Fetched
  <2>4. CASE d = c /\ Accounted(store, d, m)
    <3> DEFINE o == FindOldestPersistedSeq(store.feed, c)
               p == FindOldestPersistedSeq(store'.feed, c)
    <3>1. /\ Seqs(store', c) = Seqs(store, c) \cup S
          /\ OfferedBelow(store', c) = IF hasMore THEN p ELSE 0
      BY DEF Fetched
    <3>2. CASE m \in Seqs(store, c)
      BY <2>4, <3>1, <3>2 DEF Accounted
    <3>3. CASE OfferedBelow(store, c) # 0 /\ m < o
      <4>1. Seqs(store, c) # {} /\ Seqs(store', c) # {}
        BY <3>1, <3>3 DEF Watch, OldestIsShown
      <4>2. /\ p \in Seqs(store', c) /\ \A q \in Seqs(store', c) : p <= q
            /\ \A q \in Seqs(store, c) : o <= q
        BY <1>3, <4>1, OldestIsLeast
      <4>3. o \in Nat /\ p \in Nat /\ m \in Nat /\ m > 0 /\ Seqs(store, c) \subseteq Nat
        BY <1>3, <2>a, SeqsAreNats
      <4>4. CASE m < p /\ hasMore
        <5>1. OfferedBelow(store', c) # 0
          BY <3>1, <4>3, <4>4
        <5> QED
          BY <2>4, <4>4, <5>1 DEF Accounted
      <4>5. CASE ~(m < p) /\ \E q \in S : m <= q
        <5>1. PICK q \in S : m <= q
          BY <4>5
        <5>2. p \in S
          <6>1. p < o
            BY <3>3, <4>3, <4>5
          <6> QED
            BY <3>1, <4>2, <4>3, <6>1
        <5>3. p <= m
          BY <4>3, <4>5
        <5>4. m \in S
          BY <4>3, <5>1, <5>2, <5>3 DEF Gapless
        <5> QED
          BY <2>4, <3>1, <5>4 DEF Accounted
      <4>6. CASE \A q \in S : ~(m <= q)
        <5>1. m \in 1 .. o - 1 /\ \A q \in S : m > q
          BY <3>3, <4>3, <4>6
        <5>2. <<d, m>> \in Skipped(c, S)
          BY <2>4, <5>1 DEF Skipped
        <5> QED
          BY <5>2 DEF Settled
      <4>7. CASE m < p /\ ~hasMore /\ S # {}
        <5>1. 1 \in Seqs(store', c)
          BY <3>1, <4>7 DEF Gapless
        <5>2. p <= 1
          BY <4>2, <5>1
        <5> QED
          BY <4>3, <4>7, <5>2
      <4> QED
        BY <4>4, <4>5, <4>6, <4>7
    <3> QED
      BY <2>4, <3>2, <3>3 DEF Accounted
  <2> QED
    BY <2>1, <2>2, <2>3, <2>4
<1> QED
  BY <1>2, <1>4, <1>5, <1>6 DEF Watch

LEMMA OlderAnsweredWatch ==
  ASSUME WInv, WInv', Watch, NEW t \in Tasks, OlderAnswered(t)
  PROVE  Watch'
<1>1. /\ tasks[t].pc = "older" /\ tasks[t].answer.tag # "none" /\ Goto(t, Idle)
      /\ UNCHANGED <<server, connection, mobilePane, route, strayed, upsets>>
  BY DEF OlderAnswered, Awaits
<1>2. GoodCall(tasks[t]) /\ store \in Stores /\ ~Matters(tasks[t])
  BY <1>1 DEF WInv, CallsAreGood, ShellTypes, Matters
<1>3. PICK c \in Chats : c = tasks[t].chat
  BY <1>1, <1>2 DEF GoodCall
<1>4. CASE Ok(t)
  <2>1. Arrived(tasks[t])
    BY <1>1, <1>4 DEF Ok, Arrived
  <2>2. PICK S \in SUBSET Nat : S = tasks[t].answer.seqs
    BY <1>1, <2>1, ReadPageArrived
  <2>3. PICK hasMore \in BOOLEAN : hasMore = tasks[t].answer.hasMore
    BY <1>1, <2>1, ReadPageArrived
  <2>4. Gapless(S, hasMore)
    BY <1>1, <2>1, <2>2, <2>3, ReadPageArrived
  <2>5. store' = PrependOlderMessages(store, c, S, hasMore) /\ excused' = excused \cup Skipped(c, S)
    BY <1>3, <1>4, <2>2, <2>3 DEF OlderAnswered
  <2>6. Fetched(store, store', c, Seqs(store, c) \cup S, hasMore)
    BY <1>2, <2>5, PrependOlderMessagesSeqs
  <2>7. AnswersAreSound' /\ CallsKept
    BY <1>1, <1>2, GoneAside, IdleIsGood, IdleIsFresh DEF Watch, server
  <2>8. RouteKnown'
    BY <1>1, <2>6, <2>7, RouteStays DEF Watch, Fetched
  <2> QED
    BY <1>1, <2>4, <2>5, <2>6, <2>7, <2>8, PrependedWatch DEF server, connection, outbox
<1>5. CASE ~Ok(t)
  <2> DEFINE loading == FALSE
  <2>1. store' = SetOlderMessagesLoading(store, c, loading) /\ excused' = excused
    BY <1>3, <1>5 DEF OlderAnswered
  <2>2. loading \in BOOLEAN
    OBVIOUS
  <2> HIDE DEF loading
  <2>3. Same(store, store')
    BY <1>2, <2>1, <2>2, SetOlderMessagesLoadingSame
  <2> QED
    BY <1>1, <1>2, <2>1, <2>3, IdleSteady DEF history
<1> QED
  BY <1>4, <1>5

-----------------------------------------------------------------------------
(* The user. *)

LEMMA OpenWatch ==
  ASSUME WInv, Watch, NEW c \in Chats, c \in DOMAIN store.chats, Open(c)
  PROVE  Watch'
<1> DEFINE opened == SetActiveChat(store, c)
           task == Simple("page", c)
<1>1. /\ UpdateChatRoute(c) /\ store' = MarkChatRead(opened, c)
      /\ UNCHANGED <<server, connection, excused>>
  BY DEF Open
<1>2. PICK t \in Tasks : Free(t) /\ Goto(t, task)
  BY DEF Open
<1>3. GoodCall(task) /\ Fresh(task) /\ task.pc = "page" /\ task.chat = c
  BY SimpleIsGood, SimpleIsFresh DEF PCs, ChatOrNone
<1> HIDE DEF task
<1>4. AnswersAreSound' /\ tasks'[t] = task
  BY <1>1, <1>2, <1>3, GoneSound DEF Watch, server
<1>5. /\ opened \in Stores /\ opened.active = c /\ opened.chats = store.chats
      /\ opened.feed = store.feed /\ opened.pages = store.pages
  BY DEF WInv, ShellTypes, Stores, SetActiveChat, ChatOrNone
<1> HIDE DEF opened
<1>6. Same(opened, store')
  BY <1>1, <1>5, MarkChatReadSame
<1>7. store'.active = c /\ DOMAIN store'.chats = DOMAIN store.chats
      /\ \A d \in Chats : Seqs(store', d) = Seqs(store, d) /\ OfferedBelow(store', d) = OfferedBelow(store, d)
  BY <1>5, <1>6 DEF Same, Alike, Opened, Seqs, OfferedBelow
<1>8. RouteKnown'
  BY <1>1, <1>7 DEF RouteKnown, UpdateChatRoute
<1>9. Known' /\ OldestIsShown'
  BY <1>1, <1>7 DEF Watch, Known, OldestIsShown, server, connection, outbox
<1>10. Paging(tasks'[t], store'.active) /\ tasks'[t].answer = NoAnswer
  BY <1>3, <1>4, <1>7 DEF Paging, Fresh
<1> QED
  BY <1>1, <1>4, <1>8, <1>9, <1>10, PageUnderWay DEF server, connection, outbox

LEMMA HandleRouteChangeWatch ==
  ASSUME WInv, Watch, NEW hash \in ChatOrNone, HandleRouteChange(hash)
  PROVE  Watch'
<1>1. CASE hash \in DOMAIN store.chats /\ Open(hash)
  BY <1>1, ListedIsChat, OpenWatch
<1>2. CASE /\ route' = hash /\ strayed' = (hash # store.active)
           /\ UNCHANGED <<server, connection, store, mobilePane, tasks, excused>>
  <2>1. Same(store, store') /\ AnswersAreSound' /\ CallsKept
    BY <1>2, SameItself, NoCall DEF Watch, server
  <2>2. RouteKnown'
    BY <1>2 DEF RouteKnown
  <2> QED
    BY <1>2, <2>1, <2>2, Steady DEF server, connection, outbox
<1> QED
  BY <1>1, <1>2 DEF HandleRouteChange

LEMMA CloseMobileChatPaneWatch ==
  ASSUME WInv, Watch, CloseMobileChatPane
  PROVE  Watch'
<1>1. store' = CloseActiveChat(store) /\ UNCHANGED <<server, connection, tasks, history>>
  BY DEF CloseMobileChatPane
<1>2. store'.active = NoChat /\ store'.chats = store.chats /\ store'.pages = Nothing
  BY <1>1 DEF WInv, ShellTypes, Stores, CloseActiveChat, ClearMessages
<1>3. AnswersAreSound'
  BY <1>1, NoCall DEF Watch, server
<1>4. Known' /\ OldestIsShown'
  BY <1>1, <1>2, NothingIsLoaded DEF Watch, Known, OldestIsShown, server, connection, outbox
<1> QED
  BY <1>1, <1>2, <1>3, <1>4, NothingOpen DEF server, connection, outbox

LEMMA LoadOlderWatch ==
  ASSUME WInv, Watch, LoadOlder
  PROVE  Watch'
<1> DEFINE c == store.active
           before == store.pages[c].oldest
           loading == TRUE
           keep == FALSE
           task == Task("older", "none", c, keep, NoChat, before)
<1>1. /\ c \in DOMAIN store.pages /\ store' = SetOlderMessagesLoading(store, c, loading)
      /\ UNCHANGED <<server, connection, mobilePane, route, history>>
  BY DEF LoadOlder
<1>2. PICK t \in Tasks : Free(t) /\ Goto(t, task)
  BY DEF LoadOlder
<1>3. c \in Chats /\ store \in Stores
  BY <1>1, ListedIsChat DEF WInv, ShellTypes
<1>4. before \in Nat
  BY <1>1, <1>3, PagesType DEF Stores, PageStates
<1>5. /\ "older" \in PCs /\ "none" \in Origins /\ c \in ChatOrNone /\ NoChat \in ChatOrNone
      /\ keep \in BOOLEAN /\ loading \in BOOLEAN
  BY <1>3 DEF PCs, Origins, ChatOrNone
<1>6. task.answer = NoAnswer
  BY DEF Task
<1> HIDE DEF c, before, keep, loading
<1>7. GoodCall(task) /\ task.pc = "older"
  BY <1>3, <1>4, <1>5, TaskIsGood
<1> HIDE DEF task
<1>8. Fresh(task)
  BY <1>6, <1>7 DEF Fresh
<1>9. Same(store, store')
  BY <1>1, <1>3, <1>5, SetOlderMessagesLoadingSame
<1> QED
  BY <1>1, <1>2, <1>7, <1>8, <1>9, GoneSteady DEF Free, Matters

LEMMA SubmitMessageWatch ==
  ASSUME WInv, Watch, SubmitMessage
  PROVE  Watch'
<1>1. PICK k \in Nat : k = Len(sentTo) + 1
  BY DEF WInv, Bounded
<1>2. /\ store' = AddLocalMessage(store, k) /\ sentTo' = Append(sentTo, store.active)
      /\ UNCHANGED <<server, conn, events, acks, mobilePane, route, tasks, history>>
  BY <1>1 DEF SubmitMessage
<1>3. store.active \in Chats /\ store \in Stores /\ store.active \in DOMAIN store.chats
  BY ListedIsChat DEF WInv, ShellTypes, SubmitMessage, FeedIsShown
<1>4. /\ Len(sentTo) \in Nat /\ Len(sentTo') = k /\ sentTo'[k] = store.active
      /\ \A j \in 1 .. Len(sentTo) : sentTo'[j] = sentTo[j]
  BY <1>1, <1>2, <1>3 DEF WInv, Bounded
<1>5. Same(store, store')
  BY <1>2, <1>3, AddLocalMessageSame
<1>6. AnswersAreSound' /\ CallsKept
  BY <1>2, NoCall DEF Watch, server
<1>7. RouteKnown'
  BY <1>2, <1>5, <1>6, RouteStays DEF Watch, Same, Alike, Opened, history
<1>8. Known'
  <2>1. \A j \in 1 .. k : j \in 1 .. Len(sentTo) \/ j = k
    BY <1>1, <1>4
  <2>2. \A j \in 1 .. Len(sentTo') : sentTo'[j] \in serverChats
    BY <1>3, <1>4, <2>1 DEF Watch, Known
  <2> QED
    BY <1>2, <1>5, <2>2 DEF Watch, Known, Same, Alike, Opened, server
<1>9. LoggedOnce'
  <2>1. \A j \in 1 .. Len(sentTo) : j \in 1 .. Len(sentTo')
    BY <1>1, <1>4
  <2>2. UNCHANGED log
    BY <1>2 DEF server
  <2> QED
    BY <1>4, <2>1, <2>2 DEF Watch, LoggedOnce
<1>10. UnreadIsLogged' /\ OldestIsShown' /\ BadgeIsClear'
  BY <1>2, <1>5, OldestStays, BadgeStays DEF Watch, UnreadIsLogged, Same, Alike, server
<1>11. UnreadIsDue' /\ FeedIsAccounted'
  BY <1>2, <1>5, <1>6, StillDue DEF server, history
<1> QED
  BY <1>6, <1>7, <1>8, <1>9, <1>10, <1>11 DEF Watch

LEMMA MarkReadFromMenuWatch ==
  ASSUME WInv, Watch, NEW c \in Chats, MarkReadFromMenu(c)
  PROVE  Watch'
<1>1. /\ store' = MarkChatRead(store, c)
      /\ UNCHANGED <<server, connection, mobilePane, route, history>>
  BY DEF MarkReadFromMenu
<1>2. PICK t \in Tasks : Free(t) /\ Goto(t, Simple("read", c))
  BY DEF MarkReadFromMenu
<1>3. GoodCall(Simple("read", c))
  BY SimpleIsGood DEF PCs, ChatOrNone
<1>4. Same(store, store')
  BY <1>1, MarkChatReadSame DEF WInv, ShellTypes
<1> QED
  BY <1>1, <1>2, <1>3, <1>4, SimpleIsFresh, GoneSteady DEF Free, Matters

LEMMA RequestWatch ==
  ASSUME WInv, Watch, NEW pc \in {"login", "logout", "create"}, NEW c \in ChatOrNone,
         pc = "create" => c \in Chats, Request(pc, c)
  PROVE  Watch'
<1>1. UNCHANGED <<server, connection, shell, history>>
  BY DEF Request
<1>2. PICK t \in Tasks : Free(t) /\ Goto(t, Simple(pc, c))
  BY DEF Request
<1>3. GoodCall(Simple(pc, c))
  BY SimpleIsGood DEF PCs
<1>4. Same(store, store')
  BY <1>1, SameItself DEF shell
<1> QED
  BY <1>1, <1>2, <1>3, <1>4, SimpleIsFresh, GoneSteady DEF Free, Matters, shell

-----------------------------------------------------------------------------
LEMMA TaskStepWatch ==
  ASSUME WInv, WInv', Watch, NEW t \in Tasks, TaskStep(t)
  PROVE  Watch'
<1>1. CASE Serve(t) \/ Fails(t)
  BY <1>1, ServeWatch, FailsWatch
<1>2. CASE BootstrapAnswered(t) \/ LoginAnswered(t) \/ LogoutAnswered(t) \/ CreateAnswered(t)
  BY <1>2, BootstrapAnsweredWatch, LoginAnsweredWatch, LogoutAnsweredWatch, CreateAnsweredWatch
<1>3. CASE ListAnswered(t) \/ ListFailed(t) \/ PageAnswered(t) \/ OlderAnswered(t) \/ ReadAnswered(t)
  BY <1>3, ListAnsweredWatch, ListFailedWatch, PageAnsweredWatch, OlderAnsweredWatch,
     ReadAnsweredWatch
<1> QED
  BY <1>1, <1>2, <1>3 DEF TaskStep

LEMMA ChatStepWatch ==
  ASSUME WInv, WInv', Watch, NEW c \in Chats, ChatStep(c)
  PROVE  Watch'
<1>1. CASE PeerSends(c)
  BY <1>1, PeerSendsWatch
<1>2. CASE OpenChat(c)
  BY <1>2, OpenWatch DEF OpenChat
<1>3. CASE MarkReadFromMenu(c)
  BY <1>3, MarkReadFromMenuWatch
<1>4. CASE CreateDirectChat(c)
  <2>1. Request("create", c) /\ c \in ChatOrNone
    BY <1>4 DEF CreateDirectChat, ChatOrNone
  <2> QED
    BY <2>1, RequestWatch
<1>5. ASSUME NEW n \in 1 .. Len(log[c]), BroadcastAgain(c, n) \/ ApplyCreatedMessage(c, n)
      PROVE  Watch'
  BY <1>5, BroadcastAgainWatch, ApplyCreatedMessageWatch
<1> QED
  BY <1>1, <1>2, <1>3, <1>4, <1>5 DEF ChatStep

LEMMA NextWatch ==
  ASSUME WInv, WInv', Watch, [Next]_vars
  PROVE  Watch'
<1>1. ASSUME NEW t \in Tasks, TaskStep(t) PROVE Watch'
  BY <1>1, TaskStepWatch
<1>2. ASSUME NEW c \in Chats, ChatStep(c) PROVE Watch'
  BY <1>2, ChatStepWatch
<1>3. ASSUME NEW k \in 1 .. MaxUpsets, SendStep(k) PROVE Watch'
  BY <1>3, StoreSentWatch, StoreLateWatch, SendFailsWatch, ApplyAckWatch DEF SendStep
<1>4. ASSUME NEW hash \in ChatOrNone, HandleRouteChange(hash) PROVE Watch'
  BY <1>4, HandleRouteChangeWatch
<1>5. CASE Expires \/ Drops \/ GivesUp \/ Opens \/ Attach \/ Refuse
  BY <1>5, ExpiresWatch, DropsWatch, GivesUpWatch, OpensWatch, AttachWatch, RefuseWatch
<1>6. CASE CloseMobileChatPane \/ LoadOlder \/ SubmitMessage
  BY <1>6, CloseMobileChatPaneWatch, LoadOlderWatch, SubmitMessageWatch
<1>7. CASE Login \/ HandleLogout
  <2>1. NoChat \in ChatOrNone
    BY DEF ChatOrNone
  <2>2. Request("login", NoChat) \/ Request("logout", NoChat)
    BY <1>7 DEF Login, HandleLogout
  <2> QED
    BY <2>1, <2>2, RequestWatch
<1>8. CASE UNCHANGED vars
  <2>1. UNCHANGED <<server, connection, shell, history>> /\ tasks' = tasks
    BY <1>8 DEF vars
  <2>2. Same(store, store') /\ AnswersAreSound' /\ CallsKept
    BY <2>1, SameItself, NoCall DEF Watch, shell, server
  <2>3. RouteKnown'
    BY <2>1, <2>2, RouteStays DEF Watch, shell, history
  <2> QED
    BY <2>1, <2>2, <2>3, Steady DEF server, connection, outbox, history
<1> QED
  BY <1>1, <1>2, <1>3, <1>4, <1>5, <1>6, <1>7, <1>8 DEF Next

LEMMA Watched == Spec => [](WInv /\ Watch)
<1>1. Init => WInv /\ Watch
  BY InitInv, InitWatch
<1>2. WInv /\ Watch /\ [Next]_vars => (WInv /\ Watch)'
  BY NextInv, NextWatch
<1> QED
  BY <1>1, <1>2, PTL DEF Spec

\* No run awaits an answer.
LEMMA QuietCalls ==
  ASSUME Quiet, NEW t \in Tasks
  PROVE  tasks[t].pc = "idle"
BY DEF Quiet, Free

\* When all is quiet the address is that of the open chat (updateChatRoute follows each
\* way to open a chat), unless the user, or a load that failed, has set it aside.
THEOREM RouteAlwaysFollows == Spec => []RouteFollowsChat
<1>1. ASSUME Watch PROVE RouteFollowsChat
  BY <1>1, QuietCalls DEF Watch, RouteKnown, Creating, RouteFollowsChat
<1> QED
  BY <1>1, Watched, PTL

\* When all is quiet the open chat has no badge, and the server counts nothing in it as
\* unread but what the client had no way to know of (openChat and message.created mark the
\* chat as read; loadChatWorkspace does after each loss of the connection).
THEOREM OpenChatAlwaysRead == Spec => []OpenChatIsRead
<1>1. ASSUME WInv, Watch PROVE OpenChatIsRead
  <2> SUFFICES ASSUME Quiet, store.signedIn, store.active # NoChat
               PROVE  /\ store.active \in DOMAIN store.chats /\ store.chats[store.active] = 0
                      /\ unread[store.active] > 0 =>
                           \E n \in 1 .. Len(log[store.active]) : <<store.active, n>> \in excused
    BY DEF OpenChatIsRead
  <2>1. PICK c \in Chats : c = store.active
    BY <1>1 DEF WInv, ShellTypes, Stores, ChatOrNone
  <2>2. c \in DOMAIN store.chats
    BY <1>1, <2>1 DEF Watch, Known
  <2>3. store.chats[c] = 0
    BY <1>1, <2>1, QuietCalls DEF Watch, BadgeIsClear, Paging
  <2>4. ASSUME unread[c] > 0 PROVE \E n \in 1 .. Len(log[c]) : <<c, n>> \in excused
    <3>1. Due(c)
      BY <1>1, <2>1, <2>4 DEF Watch, UnreadIsDue
    <3>2. events = {}
      BY DEF Quiet
    <3> QED
      BY <3>1, <3>2, QuietCalls DEF Due, Paging, Reading
  <2> QED
    BY <2>1, <2>2, <2>3, <2>4
<1> QED
  BY <1>1, Watched, PTL

\* When all is quiet each message of the open chat is in the feed, or below it where
\* scrolling up loads it (loadOlderMessages), but those the client could not know of or
\* took away itself.
THEOREM FeedAlwaysCatchesUp == Spec => []FeedCatchesUp
<1>1. ASSUME WInv, Watch PROVE FeedCatchesUp
  <2> SUFFICES ASSUME Quiet, store.signedIn, store.active # NoChat,
                      NEW n \in 1 .. Len(log[store.active])
               PROVE  \/ Stored(store.active, n) \in store.feed \/ Offered(store.active, n)
                      \/ <<store.active, n>> \in excused
    BY DEF FeedCatchesUp
  <2>1. PICK c \in Chats : c = store.active
    BY <1>1 DEF WInv, ShellTypes, Stores, ChatOrNone
  <2>2. store \in Stores /\ n \in Nat
    BY <1>1, <2>1, LogType DEF WInv, ShellTypes
  <2>3. conn = "attached" /\ events = {} /\ acks = {}
    BY DEF Quiet
  <2>4. ~(\E t \in Tasks : tasks[t].pc = "list" \/ Covers(tasks[t], c, n))
    BY QuietCalls DEF Covers, Paging
  <2>5. Accounted(store, c, n) \/ <<c, n>> \in excused
    BY <1>1, <2>1, <2>3, <2>4 DEF Watch, FeedIsAccounted, Settled
  <2>6. ASSUME OfferedBelow(store, c) # 0
        PROVE  /\ c \in DOMAIN store.pages /\ store.pages[c].hasMore
               /\ store.pages[c].oldest = OfferedBelow(store, c) /\ ~store.pages[c].loading
    <3>1. /\ c \in DOMAIN store.pages /\ store.pages[c].hasMore
          /\ store.pages[c].oldest = OfferedBelow(store, c)
      BY <2>6 DEF OfferedBelow
    <3>2. ~store.pages[c].loading
      BY <1>1, <3>1, QuietCalls DEF WInv, LoadingHasRequest
    <3> QED
      BY <3>1, <3>2
  <2>7. CASE n \in Seqs(store, c)
    <3>1. PICK i \in store.feed : i.chat = c /\ ~i.pending /\ i.id = n
      BY <2>7 DEF Seqs, StoredSeqs
    <3>2. i \in Items
      BY <2>2 DEF Stores
    <3>3. i = Stored(c, n)
      BY <3>1, <3>2 DEF Items, Stored
    <3> QED
      BY <2>1, <3>1, <3>3
  <2>8. CASE OfferedBelow(store, c) # 0 /\ n < FindOldestPersistedSeq(store.feed, c)
    <3>1. OfferedBelow(store, c) \in Seqs(store, c)
      BY <1>1, <2>8 DEF Watch, OldestIsShown
    <3>2. FindOldestPersistedSeq(store.feed, c) <= OfferedBelow(store, c)
      BY <2>2, <3>1, OldestIsLeast
    <3>3. FindOldestPersistedSeq(store.feed, c) \in Nat /\ OfferedBelow(store, c) \in Nat
      BY <2>2, <3>1, SeqsAreNats
    <3>4. n < OfferedBelow(store, c)
      BY <2>2, <2>8, <3>2, <3>3
    <3> QED
      BY <2>1, <2>6, <2>8, <3>4 DEF Offered
  <2> QED
    BY <2>1, <2>5, <2>7, <2>8 DEF Accounted
<1> QED
  BY <1>1, Watched, PTL

-----------------------------------------------------------------------------
(* Submissions is implemented. *)

\* A step that touches no message, and one that forgets what was kept.
Silent == UNCHANGED <<log, outbox>> /\ store'.signedIn \in BOOLEAN

Forgets ==
  /\ UNCHANGED <<log, sentTo>> /\ store'.signedIn = FALSE
  /\ queued' = {} /\ unacked' = {} /\ lost' = lost \cup queued

LEMMA SilentStep ==
  ASSUME Silent
  PROVE  [Outcome!Next]_(Outcome!vars)
<1>1. UNCHANGED <<log, sentTo, queued, unacked, lost>>
  BY DEF Silent, outbox
<1>2. CASE store'.signedIn = TRUE
  BY <1>1, <1>2 DEF Outcome!Next, Outcome!SignIn
<1>3. CASE store'.signedIn = FALSE
  BY <1>1, <1>3 DEF Outcome!Next, Outcome!SignOut
<1> QED
  BY <1>2, <1>3 DEF Silent

LEMMA ForgettingStep ==
  ASSUME Forgets
  PROVE  Outcome!SignOut
BY DEF Forgets, Outcome!SignOut

LEMMA SignedInType ==
  ASSUME WInv'
  PROVE  store'.signedIn \in BOOLEAN
BY DEF WInv, ShellTypes, Stores

LEMMA DisconnectForgets ==
  ASSUME Disconnect, UNCHANGED server, store' = ClearSession(store)
  PROVE  Forgets
BY DEF Disconnect, server, ClearSession, InitialState, Forgets

LEMMA TaskStepSubmissions ==
  ASSUME WInv, WInv', NEW t \in Tasks, TaskStep(t)
  PROVE  Silent \/ Forgets
<1>0. store'.signedIn \in BOOLEAN
  BY SignedInType
<1>1. CASE Serve(t)
  <2>1. UNCHANGED connection
    BY <1>1 DEF Serve
  <2>2. log' = log
    BY <1>1 DEF Serve, ServeRead, ServeCreate, ServeQuery, ServeSession, ServeUnauthorized, server
  <2> QED
    BY <1>0, <2>1, <2>2 DEF Silent, connection
<1>2. CASE Fails(t) \/ CreateAnswered(t) \/ ListAnswered(t) \/ PageAnswered(t) \/ OlderAnswered(t)
           \/ ReadAnswered(t)
  <2>1. UNCHANGED <<server, connection>>
    BY <1>2 DEF Fails, CreateAnswered, ListAnswered, PageAnswered, OlderAnswered, ReadAnswered
  <2> QED
    BY <1>0, <2>1 DEF Silent, server, connection
<1>3. CASE BootstrapAnswered(t) \/ LoginAnswered(t)
  <2>1. UNCHANGED <<server, outbox>>
    BY <1>3 DEF BootstrapAnswered, LoginAnswered, SignIn, connection
  <2> QED
    BY <1>0, <2>1 DEF Silent, server
<1>4. CASE LogoutAnswered(t)
  <2>1. UNCHANGED server
    BY <1>4 DEF LogoutAnswered
  <2>2. CASE Ok(t)
    <3>1. Disconnect /\ store' = ClearSession(store)
      BY <1>4, <2>2 DEF LogoutAnswered
    <3> QED
      BY <2>1, <3>1, DisconnectForgets
  <2>3. CASE ~Ok(t)
    BY <1>0, <1>4, <2>1, <2>3 DEF LogoutAnswered, Silent, server, connection
  <2> QED
    BY <2>2, <2>3
<1>5. CASE ListFailed(t)
  <2>1. UNCHANGED server
    BY <1>5 DEF ListFailed
  <2>2. CASE HandleSessionExpired
    BY <2>1, <2>2, DisconnectForgets DEF HandleSessionExpired
  <2>3. CASE UNCHANGED connection
    BY <1>0, <2>1, <2>3 DEF Silent, server, connection
  <2> QED
    BY <1>5, <2>2, <2>3 DEF ListFailed
<1> QED
  BY <1>1, <1>2, <1>3, <1>4, <1>5 DEF TaskStep

\* Other steps of the connection, the peers and the user.
LEMMA OtherStepSubmissions ==
  ASSUME WInv, WInv',
         \/ Expires \/ Drops \/ GivesUp \/ Attach \/ Refuse
         \/ CloseMobileChatPane \/ LoadOlder \/ Login \/ HandleLogout
         \/ \E k \in 1 .. MaxUpsets : SendFails(k)
         \/ \E hash \in ChatOrNone : HandleRouteChange(hash)
         \/ \E c \in Chats : \/ OpenChat(c) \/ MarkReadFromMenu(c) \/ CreateDirectChat(c)
                             \/ \E n \in 1 .. Len(log[c]) :
                                  BroadcastAgain(c, n) \/ ApplyCreatedMessage(c, n)
         \/ UNCHANGED vars
  PROVE  Silent \/ Forgets
<1>0. store'.signedIn \in BOOLEAN
  BY SignedInType
<1>1. CASE Expires \/ Drops \/ GivesUp \/ Attach
  <2>1. UNCHANGED <<log, outbox>>
    BY <1>1 DEF Expires, Drops, GivesUp, Attach, server, connection
  <2> QED
    BY <1>0, <2>1 DEF Silent
<1>2. CASE Refuse
  <2>1. UNCHANGED server /\ Disconnect /\ store' = ClearSession(store)
    BY <1>2 DEF Refuse, HandleSessionExpired
  <2> QED
    BY <2>1, DisconnectForgets
<1>3. CASE CloseMobileChatPane \/ LoadOlder \/ Login \/ HandleLogout
  <2>1. UNCHANGED <<server, connection>>
    BY <1>3 DEF CloseMobileChatPane, LoadOlder, Login, HandleLogout, Request
  <2> QED
    BY <1>0, <2>1 DEF Silent, server, connection
<1>4. ASSUME NEW hash \in ChatOrNone, HandleRouteChange(hash) PROVE Silent
  <2>1. UNCHANGED <<server, connection>>
    BY <1>4 DEF HandleRouteChange, Open
  <2> QED
    BY <1>0, <2>1 DEF Silent, server, connection
<1>5. ASSUME NEW c \in Chats, OpenChat(c) \/ MarkReadFromMenu(c) \/ CreateDirectChat(c)
      PROVE  Silent
  <2>1. UNCHANGED <<server, connection>>
    BY <1>5 DEF OpenChat, Open, MarkReadFromMenu, CreateDirectChat, Request
  <2> QED
    BY <1>0, <2>1 DEF Silent, server, connection
<1>6. ASSUME NEW c \in Chats, NEW n \in 1 .. Len(log[c]),
             BroadcastAgain(c, n) \/ ApplyCreatedMessage(c, n)
      PROVE  Silent
  <2>1. UNCHANGED <<server, outbox>>
    BY <1>6 DEF BroadcastAgain, ApplyCreatedMessage
  <2> QED
    BY <1>0, <2>1 DEF Silent, server
<1>7. ASSUME NEW k \in 1 .. MaxUpsets, SendFails(k)
      PROVE  Silent
  <2>1. UNCHANGED <<server, outbox>>
    BY <1>7 DEF SendFails
  <2> QED
    BY <1>0, <2>1 DEF Silent, server
<1>8. CASE UNCHANGED vars
  BY <1>0, <1>8 DEF vars, Silent, server, connection
<1> QED
  BY <1>1, <1>2, <1>3, <1>4, <1>5, <1>6, <1>7, <1>8

\* The gateway stores what a connection has carried, at the end of its log, if the log has
\* not got it yet.
LEMMA SentStores ==
  ASSUME WInv, WInv', NEW k \in wire \cup late, NEW heard \in BOOLEAN,
         UNCHANGED <<outbox, shell>>,
         \/ IsLogged(k) /\ log' = log
         \/ ~IsLogged(k) /\ StoreMessage(sentTo[k], k, heard)
  PROVE  Silent \/ \E j \in 1 .. Len(sentTo) : Outcome!Store(j)
<1>1. k \in 1 .. Len(sentTo) /\ k \notin queued \cup lost
  BY DEF WInv, SendsAreKnown, Uncarried
<1>2. CASE IsLogged(k) /\ log' = log
  BY <1>2, SignedInType DEF Silent
<1>3. CASE ~IsLogged(k) /\ StoreMessage(sentTo[k], k, heard)
  <2>1. log' = [log EXCEPT ![sentTo[k]] = Append(@, k)]
    BY <1>3 DEF StoreMessage
  <2>2. ~Outcome!InLog(k)
    BY <1>3 DEF IsLogged, Outcome!InLog
  <2>3. Outcome!Store(k)
    BY <1>1, <2>1, <2>2 DEF Outcome!Store, outbox, shell
  <2> QED
    BY <1>1, <2>3
<1> QED
  BY <1>2, <1>3

LEMMA SendStepStores ==
  ASSUME WInv, WInv', NEW k, StoreSent(k) \/ StoreLate(k)
  PROVE  Silent \/ \E j \in 1 .. Len(sentTo) : Outcome!Store(j)
<1>1. k \in wire \cup late /\ UNCHANGED <<outbox, shell>>
  BY DEF StoreSent, StoreLate
<1>2. CASE StoreSent(k)
  <2> DEFINE told == FALSE
  <2>1. /\ told \in BOOLEAN
        /\ \/ IsLogged(k) /\ log' = log
           \/ ~IsLogged(k) /\ StoreMessage(sentTo[k], k, told)
    BY <1>2 DEF StoreSent
  <2> HIDE DEF told
  <2> QED
    BY <1>1, <2>1, SentStores
<1>3. CASE StoreLate(k)
  <2> DEFINE told == TRUE
  <2>1. /\ told \in BOOLEAN
        /\ \/ IsLogged(k) /\ log' = log
           \/ ~IsLogged(k) /\ StoreMessage(sentTo[k], k, told)
    BY <1>3 DEF StoreLate
  <2> HIDE DEF told
  <2> QED
    BY <1>1, <2>1, SentStores
<1> QED
  BY <1>2, <1>3

LEMMA PeerSendsWrites ==
  ASSUME NEW c \in Chats, PeerSends(c)
  PROVE  Outcome!OthersWrite(c)
<1>1. UNCHANGED <<outbox, shell>> /\ log' = [log EXCEPT ![c] = Append(@, Peer)]
  BY DEF PeerSends, StoreMessage
<1> QED
  BY <1>1 DEF Outcome!OthersWrite, outbox, shell

\* What has been queued is carried by the connection that opens.
LEMMA OpensCarries ==
  ASSUME Opens
  PROVE  Outcome!Carry
<1>1. /\ UNCHANGED <<server, shell, lost, sentTo>>
      /\ unacked' = unacked \cup queued /\ queued' = {}
  BY DEF Opens, FlushPendingEvents
<1> QED
  BY <1>1 DEF Outcome!Carry, server, shell

\* A send is carried at once or queued, where it may push out the oldest.
LEMMA SubmitMessageSubmits ==
  ASSUME WInv, SubmitMessage
  PROVE  \E c \in Chats : Outcome!SubmitAndCarry(c) \/ Outcome!SubmitAndWait(c)
<1>1. PICK k \in Nat : k = Len(sentTo) + 1
  BY DEF WInv, Bounded
<1>2. /\ store' = AddLocalMessage(store, k) /\ sentTo' = Append(sentTo, store.active)
      /\ log' = log /\ store.signedIn
  BY <1>1 DEF SubmitMessage, FeedIsShown, server
<1>3. store.active \in Chats /\ store \in Stores
  BY ListedIsChat DEF WInv, ShellTypes, SubmitMessage, FeedIsShown
<1>4. store'.signedIn = store.signedIn
  BY <1>2, <1>3 DEF AddLocalMessage, Stores
<1>5. ASSUME NEW queue PROVE Outcome!Excess(queue) = Excess(queue)
  <2>1. ASSUME NEW S PROVE Outcome!Cardinality(S) = Cardinality(S)
    BY DEF Outcome!Cardinality, Cardinality
  <2> QED
    BY <2>1 DEF Outcome!Excess, Excess
<1>6. \/ /\ queued' = (queued \cup {k}) \ Excess(queued \cup {k})
         /\ lost' = lost \cup Excess(queued \cup {k})
         /\ unacked' = unacked
      \/ unacked' = unacked \cup {k} /\ UNCHANGED <<queued, lost>>
  BY <1>1 DEF SubmitMessage
<1>7. CASE unacked' = unacked \cup {k} /\ UNCHANGED <<queued, lost>>
  <2>1. Outcome!SubmitAndCarry(store.active)
    BY <1>1, <1>2, <1>4, <1>7 DEF Outcome!SubmitAndCarry
  <2> QED
    BY <1>3, <2>1
<1>8. CASE /\ queued' = (queued \cup {k}) \ Excess(queued \cup {k})
           /\ lost' = lost \cup Excess(queued \cup {k})
           /\ unacked' = unacked
  <2>1. Outcome!Excess(queued \cup {k}) = Excess(queued \cup {k})
    BY <1>5
  <2>2. Outcome!SubmitAndWait(store.active)
    BY <1>1, <1>2, <1>4, <1>8, <2>1 DEF Outcome!SubmitAndWait
  <2> QED
    BY <1>3, <2>2
<1> QED
  BY <1>6, <1>7, <1>8

LEMMA ApplyAckLetsGo ==
  ASSUME WInv, NEW k, ApplyAck(k)
  PROVE  \E j \in 1 .. Len(sentTo) : Outcome!LetGo(j)
<1>1. unacked' = unacked \ {k} /\ UNCHANGED <<log, sentTo, queued, lost>>
  BY DEF ApplyAck, server
<1>2. k \in 1 .. Len(sentTo) /\ IsLogged(k)
  BY DEF ApplyAck, WInv, SendsAreKnown
<1>3. store'.signedIn = store.signedIn
  <2>1. sentTo[k] \in Chats /\ store \in Stores
    BY <1>2 DEF WInv, Bounded, ShellTypes
  <2> QED
    BY <2>1 DEF ApplyAck, AcknowledgeServerMessage, UpsertMessageSummary, Stores
<1>4. Outcome!LetGo(k)
  BY <1>1, <1>2, <1>3 DEF Outcome!LetGo, Outcome!InLog, IsLogged
<1> QED
  BY <1>2, <1>4

LEMMA NextSubmissions ==
  ASSUME WInv, WInv', [Next]_vars
  PROVE  [Outcome!Next]_(Outcome!vars)
<1>a. Silent \/ Forgets => [Outcome!Next]_(Outcome!vars)
  <2>1. Forgets => Outcome!Next
    BY ForgettingStep DEF Outcome!Next
  <2> QED
    BY <2>1, SilentStep
<1>1. ASSUME NEW t \in Tasks, TaskStep(t) PROVE Silent \/ Forgets
  BY <1>1, TaskStepSubmissions
<1>2. ASSUME NEW k \in 1 .. MaxUpsets, StoreSent(k) \/ StoreLate(k) \/ ApplyAck(k)
      PROVE  Silent \/ Outcome!Next
  <2>1. CASE StoreSent(k) \/ StoreLate(k)
    BY <2>1, SendStepStores DEF Outcome!Next
  <2>2. CASE ApplyAck(k)
    BY <2>2, ApplyAckLetsGo DEF Outcome!Next
  <2> QED
    BY <1>2, <2>1, <2>2
<1>3. ASSUME NEW c \in Chats, PeerSends(c) PROVE Outcome!Next
  BY <1>3, PeerSendsWrites DEF Outcome!Next
<1>4. CASE SubmitMessage
  BY <1>4, SubmitMessageSubmits DEF Outcome!Next
<1>5. CASE Opens
  BY <1>5, OpensCarries DEF Outcome!Next
<1>6. CASE \/ Expires \/ Drops \/ GivesUp \/ Attach \/ Refuse
           \/ CloseMobileChatPane \/ LoadOlder \/ Login \/ HandleLogout
           \/ \E k \in 1 .. MaxUpsets : SendFails(k)
           \/ \E hash \in ChatOrNone : HandleRouteChange(hash)
           \/ \E c \in Chats : \/ OpenChat(c) \/ MarkReadFromMenu(c) \/ CreateDirectChat(c)
                               \/ \E n \in 1 .. Len(log[c]) :
                                    BroadcastAgain(c, n) \/ ApplyCreatedMessage(c, n)
           \/ UNCHANGED vars
  BY <1>a, <1>6, OtherStepSubmissions
<1> QED
  BY <1>a, <1>1, <1>2, <1>3, <1>4, <1>5, <1>6 DEF Next, ChatStep, SendStep

\* From the composer to the log, over any number of connections, reloads and lost answers:
\* what a connection has carried is kept until it is stored, but for signing out; what still
\* waits for one can only be pushed out by newer ones (enqueueEvent), and then it is never
\* stored; and a message is stored once, in the chat it was written in.
THEOREM WorkspaceImplementsSubmissions == Spec => ImplementsSubmissions
<1>1. Init => Outcome!Init
  <2> SUFFICES ASSUME Init PROVE Outcome!Init
    OBVIOUS
  <2>1. /\ queued = {} /\ unacked = {} /\ lost = {} /\ sentTo = <<>>
        /\ store = InitialState /\ log = FirstLog
    BY DEF Init
  <2>2. store.signedIn = FALSE
    BY <2>1 DEF InitialState
  <2> QED
    BY <2>1, <2>2, BoundsAssumption DEF Outcome!Init
<1>2. WInv /\ WInv' /\ [Next]_vars => [Outcome!Next]_(Outcome!vars)
  BY NextSubmissions
<1> QED
  BY <1>1, <1>2, Invariance, PTL DEF Spec, ImplementsSubmissions, Outcome!Spec
=============================================================================

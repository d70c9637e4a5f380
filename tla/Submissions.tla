----------------------------- MODULE Submissions -----------------------------
(***************************************************************************)
(* What a user may rely on who writes messages in several chats, over any   *)
(* number of connections, reloads and lost answers.  A submitted message   *)
(* waits for a connection or is carried by one.  Once carried it is kept   *)
(* until it stands in the log of its chat, and only signing out forgets    *)
(* it.  One that waits may also be lost because too many newer ones wait;  *)
(* what was lost while it waited is never stored.  A message comes to      *)
(* stand in the log of its chat once, and in no other.                     *)
(*                                                                         *)
(* Nothing is said of the order: calls for two messages end in any order.  *)
(* Nor is a carried message that was forgotten known not to be stored: it  *)
(* may have been on its way.                                               *)
(*                                                                         *)
(* Workspace is shown to implement it.                                     *)
(***************************************************************************)
EXTENDS Naturals, Sequences, FiniteSets

CONSTANTS
  Chats,
  Other,      \* a message of somebody else, in a log
  Capacity    \* how many messages may wait

VARIABLES
  signedIn,
  to,         \* the chat of each message submitted so far; the message is its number
  waiting,    \* kept, and never given to a connection
  carried,    \* kept, and given to a connection
  lost,       \* forgotten while they waited
  log         \* of each chat

vars == <<signedIn, to, waiting, carried, lost, log>>

Init ==
  /\ signedIn = FALSE
  /\ to = << >>
  /\ waiting = {} /\ carried = {} /\ lost = {}
  /\ log \in [Chats -> Seq({Other})]

InLog(k) == \E i \in 1 .. Len(log[to[k]]) : log[to[k]][i] = k

\* All but the newest of those that wait.
Excess(queue) == {k \in queue : Cardinality({j \in queue : j > k}) >= Capacity}

SubmitAndCarry(c) ==
  /\ signedIn
  /\ to' = Append(to, c)
  /\ carried' = carried \cup {Len(to) + 1}
  /\ UNCHANGED <<signedIn, waiting, lost, log>>

SubmitAndWait(c) ==
  /\ signedIn
  /\ to' = Append(to, c)
  /\ LET queue == waiting \cup {Len(to) + 1}
     IN  /\ waiting' = queue \ Excess(queue)
         /\ lost' = lost \cup Excess(queue)
  /\ UNCHANGED <<signedIn, carried, log>>

\* A connection opens.
Carry ==
  /\ carried' = carried \cup waiting
  /\ waiting' = {}
  /\ UNCHANGED <<signedIn, to, lost, log>>

Store(k) ==
  /\ ~ InLog(k)
  /\ k \notin waiting \cup lost
  /\ log' = [log EXCEPT ![to[k]] = Append(@, k)]
  /\ UNCHANGED <<signedIn, to, waiting, carried, lost>>

OthersWrite(c) ==
  /\ log' = [log EXCEPT ![c] = Append(@, Other)]
  /\ UNCHANGED <<signedIn, to, waiting, carried, lost>>

\* The server has confirmed the message.
LetGo(k) ==
  /\ InLog(k)
  /\ carried' = carried \ {k}
  /\ UNCHANGED <<signedIn, to, waiting, lost, log>>

SignIn ==
  /\ signedIn' = TRUE
  /\ UNCHANGED <<to, waiting, carried, lost, log>>

SignOut ==
  /\ signedIn' = FALSE
  /\ \/ UNCHANGED <<waiting, carried, lost>>
     \/ waiting' = {} /\ carried' = {} /\ lost' = lost \cup waiting
  /\ UNCHANGED <<to, log>>

Next ==
  \/ \E c \in Chats : SubmitAndCarry(c) \/ SubmitAndWait(c) \/ OthersWrite(c)
  \/ \E k \in 1 .. Len(to) : Store(k) \/ LetGo(k)
  \/ Carry
  \/ SignIn
  \/ SignOut

Spec == Init /\ [][Next]_vars
==============================================================================

-------------------------------- MODULE Outbox --------------------------------
(***************************************************************************)
(* What the client promises of the events that the application makes: each *)
(* is given to a connection, in the order of making, as soon as there is   *)
(* one; a message is given again to every later connection until it is     *)
(* acknowledged, a ping to one only; and nothing is lost but the oldest of *)
(* more than Capacity events that wait for a connection, and what the user *)
(* discards by disconnecting.                                              *)
(*                                                                         *)
(* WsClient, with its sockets, timers and queues, is shown to implement it. *)
(***************************************************************************)
EXTENDS Integers, Sequences, FiniteSets

CONSTANTS
  Pings,        \* the events that need no acknowledgement
  Capacity      \* how many events may wait for a connection

VARIABLES
  made,         \* events made so far, numbered from 1
  fresh,        \* never given to a connection
  sent,         \* given to one, and to be acknowledged
  done,         \* acknowledged, or given and needing no acknowledgement
  lost,
  up,           \* there is a connection
  line          \* what this connection was given

vars == <<made, fresh, sent, done, lost, up, line>>

InOrder(seq) == \A i, j \in DOMAIN seq : i < j => seq[i] < seq[j]
Given(seq) == {seq[i] : i \in DOMAIN seq}

Init ==
  /\ made = 0
  /\ fresh = {} /\ sent = {} /\ done = {} /\ lost = {}
  /\ up = FALSE
  /\ line = <<>>

\* Without a connection the event waits, and the oldest that wait make room.
MakeDown ==
  LET waiting == fresh \cup {made + 1}
  IN /\ ~up
     /\ made' = made + 1
     /\ \E out \in SUBSET waiting :
          /\ fresh' = waiting \ out
          /\ lost' = lost \cup out
          /\ Cardinality(fresh') <= Capacity
          /\ out # {} => Cardinality(fresh') = Capacity
          /\ \A a \in out, b \in fresh' : a < b
     /\ UNCHANGED <<sent, done, up, line>>

MakeUp ==
  /\ up
  /\ made' = made + 1
  /\ line' = Append(line, made + 1)
  /\ sent' = sent \cup ({made + 1} \ Pings)
  /\ done' = done \cup ({made + 1} \cap Pings)
  /\ UNCHANGED <<fresh, lost, up>>

\* A new connection is given all there is, in order.
Open ==
  /\ ~up
  /\ up' = TRUE
  /\ line' \in Seq(sent \cup fresh)
  /\ InOrder(line')
  /\ Given(line') = sent \cup fresh
  /\ fresh' = {}
  /\ sent' = sent \cup (fresh \ Pings)
  /\ done' = done \cup (fresh \cap Pings)
  /\ UNCHANGED <<made, lost>>

Acknowledge(e) ==
  /\ up
  /\ e \in sent
  /\ sent' = sent \ {e}
  /\ done' = done \cup {e}
  /\ UNCHANGED <<made, fresh, lost, up, line>>

Close ==
  /\ up' = FALSE
  /\ line' = <<>>
  /\ UNCHANGED <<made, fresh, sent, done, lost>>

Discard ==
  /\ up' = FALSE
  /\ line' = <<>>
  /\ lost' = lost \cup fresh \cup sent
  /\ fresh' = {} /\ sent' = {}
  /\ UNCHANGED <<made, done>>

Next ==
  \/ MakeDown
  \/ MakeUp
  \/ Open
  \/ \E e \in sent : Acknowledge(e)
  \/ Close
  \/ Discard

Spec == Init /\ [][Next]_vars
===============================================================================

----------------------------- MODULE ChatRegistry -----------------------------
(***************************************************************************)
(* What the direct chat service promises: two people who may write to each *)
(* other have at most one chat, it is made only when one of them has asked *)
(* for it, it has the two as its members and nobody else ever, and whoever *)
(* asks is told of that chat.                                              *)
(*                                                                         *)
(* DirectChats, the statements of createDirectChat, is shown to implement  *)
(* it.                                                                     *)
(***************************************************************************)
CONSTANTS
  People,       \* those who may have chats
  Chats         \* the ids chats may be given

VARIABLES
  asked,        \* <<u, v>>: u has asked for a chat with v
  registry,     \* the chats there are, with their members
  told          \* who was told of which of them

vars == <<asked, registry, told>>

Entry(u, v, c) == [members |-> {u, v}, chat |-> c]

Init ==
  /\ asked = {}
  /\ registry = {}
  /\ told = {}

Ask(u, v) ==
  /\ u # v
  /\ asked' = asked \cup {<<u, v>>}
  /\ UNCHANGED <<registry, told>>

\* The chat that u asked for is made, under a new id, when the two have none.
Register(u, v, c) ==
  /\ <<u, v>> \in asked
  /\ \A e \in registry : e.members # {u, v} /\ e.chat # c
  /\ registry' = registry \cup {Entry(u, v, c)}
  /\ UNCHANGED <<asked, told>>

\* Whoever made it, u is told of it.
Tell(u, v, c) ==
  /\ <<u, v>> \in asked
  /\ Entry(u, v, c) \in registry
  /\ told' = told \cup {[who |-> u, of |-> Entry(u, v, c)]}
  /\ UNCHANGED <<asked, registry>>

Next ==
  \E u, v \in People :
    \/ Ask(u, v)
    \/ \E c \in Chats : Register(u, v, c) \/ Tell(u, v, c)

Spec == Init /\ [][Next]_vars
===============================================================================

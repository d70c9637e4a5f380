------------------------------- MODULE MCGateway -------------------------------
(* Gateway for a member with two tabs and two messages, a member who is        *)
(* offline, and a user who is not in the chat but sends to it.                 *)
EXTENDS Gateway, TLC

CONSTANTS alice, bob, carol, a1, a2, c1, hello, again, intruding, h1, h2

MCUsers == {alice, bob, carol}
MCMembers == {alice, bob}
MCSockets == {a1, a2, c1}
MCOwner == (a1 :> alice) @@ (a2 :> alice) @@ (c1 :> carol)
MCNonces == {hello, again, intruding}
MCAuthor == (hello :> alice) @@ (again :> alice) @@ (intruding :> carol)
MCHandlers == {h1, h2}
================================================================================

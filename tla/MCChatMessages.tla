---------------------------- MODULE MCChatMessages ----------------------------
(* ChatMessages on a chat of two members and one user who is not in it. *)
EXTENDS ChatMessages, TLC

CONSTANTS alice, bob, carol, hello, again, intruding, q1, q2, q3

MCUsers == {alice, bob, carol}
MCMembers == {alice, bob}
MCRequests == {q1, q2, q3}
MCNonces == {hello, again, intruding}
MCAuthor == (hello :> alice) @@ (again :> bob) @@ (intruding :> carol)
==============================================================================

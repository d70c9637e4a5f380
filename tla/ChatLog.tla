------------------------------- MODULE ChatLog -------------------------------
(***************************************************************************)
(* What a chat promises to the people who write in it, with no word about  *)
(* how: an append-only log in which every message a client submits (known  *)
(* by its clientNonce) is stored at most once, however often it is         *)
(* submitted, and an answer to a submission always names the one position  *)
(* at which that message is stored.                                        *)
(*                                                                         *)
(* ChatMessages, the model of the chat service, is shown to implement it.  *)
(***************************************************************************)
EXTENDS Naturals, Sequences

CONSTANT Nonces     \* the messages clients may submit, by clientNonce

VARIABLES
  log,              \* the stored messages, in chat order
  answered          \* <<n, i>>: a submission of n was answered with position i

vars == <<log, answered>>

Init ==
  /\ log = << >>
  /\ answered = {}

Stored(n) == \E i \in 1..Len(log) : log[i] = n

\* A message is stored, at the end, and only when it is not stored already.
Accept(n) ==
  /\ ~ Stored(n)
  /\ log' = Append(log, n)
  /\ UNCHANGED answered

\* A submission is answered with the place its message has.
Answer(n, i) ==
  /\ i \in 1..Len(log)
  /\ log[i] = n
  /\ answered' = answered \cup {<<n, i>>}
  /\ UNCHANGED log

Next ==
  \E n \in Nonces :
    \/ Accept(n)
    \/ \E i \in 1..Len(log) : Answer(n, i)

Spec == Init /\ [][Next]_vars
==============================================================================

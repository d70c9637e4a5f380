---------------------------- MODULE MCWorkspace ----------------------------
(* Instances of Workspace for TLC. *)
EXTENDS Workspace, TLC

CONSTANTS a, b, t1, t2

MCFirstLog == (a :> <<Peer, Peer>>) @@ (b :> <<>>)

Symmetry == Permutations(Tasks)

=============================================================================

----------------------------- MODULE Membership -----------------------------
(***************************************************************************)
(* What the accounts of the messenger promise: nobody is let in without a  *)
(* decision of an administrator or the installation, a decision is taken   *)
(* once, and whoever has been let in stays a member.                       *)
(***************************************************************************)
CONSTANT People

VARIABLES
    standing,   \* of each person
    admins,     \* the administrators
    admitted    \* who has a session

vars == <<standing, admins, admitted>>

Standings == {"stranger", "pending", "active", "rejected"}

Init ==
    /\ standing = [p \in People |-> "stranger"]
    /\ admins = {}
    /\ admitted = {}

Apply(p) ==
    /\ standing[p] = "stranger"
    /\ standing' = [standing EXCEPT ![p] = "pending"]
    /\ UNCHANGED <<admins, admitted>>

\* Administrators decide, and not about themselves.
Decide(p, verdict) ==
    /\ standing[p] = "pending"
    /\ \E a \in admins : a # p /\ standing[a] = "active"
    /\ standing' = [standing EXCEPT ![p] = verdict]
    /\ UNCHANGED <<admins, admitted>>

Install(p) ==
    /\ standing' = [standing EXCEPT ![p] = "active"]
    /\ admins' = admins \cup {p}
    /\ UNCHANGED admitted

Enter(p) ==
    /\ standing[p] = "active"
    /\ admitted' = admitted \cup {p}
    /\ UNCHANGED <<standing, admins>>

Leave(p) ==
    /\ admitted' = admitted \ {p}
    /\ UNCHANGED <<standing, admins>>

Next ==
    \E p \in People :
        \/ Apply(p) \/ Install(p) \/ Enter(p) \/ Leave(p)
        \/ \E verdict \in {"active", "rejected"} : Decide(p, verdict)

Spec == Init /\ [][Next]_vars

=============================================================================

----------------------------- MODULE MCAccounts -----------------------------
(* Accounts for TLC: two requests at once, of one browser, about two users. *)
EXTENDS Accounts, TLC

CONSTANTS ann, bob

MCLogins == {ann, bob}

=============================================================================

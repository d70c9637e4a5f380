----------------------------- MODULE MCChatView -----------------------------
(* ChatView for TLC: rows are as high as the view, pages hold two of them. *)
EXTENDS ChatView, TLC

=============================================================================

----------------------------- MODULE MCDirectChats -----------------------------
(* DirectChats on three active users and one who still waits for approval. *)
EXTENDS DirectChats, TLC

CONSTANTS q1, q2, q3

MCUsers == 1..4
MCActive == 1..3
MCRequests == {q1, q2, q3}
================================================================================

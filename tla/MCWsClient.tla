------------------------------ MODULE MCWsClient ------------------------------
(* WsClient with three socket names, four events (the second one a ping), two  *)
(* reconnect attempts and a queue of two.                                       *)
EXTENDS WsClient

CONSTANTS s1, s2, s3

MCSockets == {s1, s2, s3}
===============================================================================

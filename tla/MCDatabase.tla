----------------------------- MODULE MCDatabase ------------------------------
(* Three calls, one of them a simpleQuery, on a pool of two clients.       *)
EXTENDS Database

CONSTANTS c1, c2, c3

MCLength == [c \in Calls |-> IF c = c3 THEN 1 ELSE 2]
=============================================================================

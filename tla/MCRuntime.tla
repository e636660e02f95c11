------------------------------ MODULE MCRuntime -----------------------------
(* A small instance of Runtime for TLC: three ids whose windows of two      *)
(* slots overlap and wrap around the end of the table, so that ids collide, *)
(* are displaced and are dropped.                                           *)
EXTENDS Runtime

CONSTANTS t1, t2

MCHash == [id \in Ids |-> IF id = 3 THEN 0 ELSE 2]
=============================================================================

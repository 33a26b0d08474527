---------------------------- MODULE MCIdempotency -----------------------------
(***************************************************************************)
(* Idempotency with two requests of one body and one of another, under the *)
(* same key.                                                               *)
(***************************************************************************)
EXTENDS Idempotency

CONSTANTS r1, r2, r3, a, b

MCBody == [r \in Requests |-> IF r = r3 THEN b ELSE a]
===============================================================================

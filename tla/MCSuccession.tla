------------------------------ MODULE MCSuccession ------------------------------
(***************************************************************************)
(* Succession with one case the execution leaves to an owner and one it    *)
(* leaves to nobody.                                                       *)
(***************************************************************************)
EXTENDS Succession

CONSTANTS c1, c2, ops, treasury

MCDefault == [c \in Cases |-> IF c = c1 THEN ops ELSE Nobody]
===============================================================================

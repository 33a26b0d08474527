---------------------------- MODULE MCRunExecution ----------------------------
(***************************************************************************)
(* RunExecution with up to three requests, up to two source types and a    *)
(* short lease.  TLC takes the constants from the .cfg; symmetry would not *)
(* be sound here, because the runs check liveness.                         *)
(***************************************************************************)
EXTENDS RunExecution
===============================================================================

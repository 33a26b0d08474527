------------------------------- MODULE Allocation -------------------------------
(***************************************************************************)
(* What matching promises, without how: evidence is a growing set of       *)
(* allocations, and no allocation ever takes a record that another one of  *)
(* the same relationship has taken.  Only a settlement may be the target   *)
(* of many: it is paid out of many payments.                               *)
(***************************************************************************)

CONSTANT Shared   \* relationships whose targets may be shared

VARIABLE allocations   \* <<relationship, source, target>>

Free(a) ==
    \A b \in allocations :
        b[1] = a[1] => b[2] # a[2] /\ (a[1] \notin Shared => b[3] # a[3])

Init == allocations = {}

Allocate == \E a \in allocations' : Free(a) /\ allocations' = allocations \cup {a}

Spec == Init /\ [][Allocate]_allocations

=============================================================================

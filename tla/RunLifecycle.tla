----------------------------- MODULE RunLifecycle -----------------------------
(***************************************************************************)
(* What one reconciliation run promises its callers, with no workers,      *)
(* leases or locks: evidence is supplied while the run is open, one        *)
(* execution is started, that execution publishes its cases at most once   *)
(* and from the evidence as it stood when the run started, and a finished  *)
(* run never changes again.  RunExecution implements it.                   *)
(***************************************************************************)
CONSTANTS SourceTypes

VARIABLES
    phase,      \* "open", "running", "completed" or "failed"
    evidence,   \* the content on file for each source type
    published   \* the evidence each published result was derived from

vars == <<phase, evidence, published>>

Content == {"valid", "invalid"}
Evidence == [SourceTypes -> Content \cup {"absent"}]

Usable(e) == \A s \in SourceTypes : e[s] = "valid"

Init ==
    /\ phase = "open"
    /\ evidence = [s \in SourceTypes |-> "absent"]
    /\ published = {}

\* New source types are added; a type that is on file keeps its content.
Supply ==
    /\ phase = "open"
    /\ evidence' \in Evidence
    /\ \A s \in SourceTypes : evidence[s] # "absent" => evidence'[s] = evidence[s]
    /\ UNCHANGED <<phase, published>>

Start ==
    /\ phase = "open"
    /\ phase' = "running"
    /\ UNCHANGED <<evidence, published>>

Publish ==
    /\ phase = "running"
    /\ published = {}
    /\ Usable(evidence)
    /\ published' = {evidence}
    /\ UNCHANGED <<phase, evidence>>

Complete ==
    /\ phase = "running"
    /\ published = {evidence}
    /\ phase' = "completed"
    /\ UNCHANGED <<evidence, published>>

Fail ==
    /\ phase = "running"
    /\ phase' = "failed"
    /\ UNCHANGED <<evidence, published>>

Next == Supply \/ Start \/ Publish \/ Complete \/ Fail

Spec == Init /\ [][Next]_vars
===============================================================================

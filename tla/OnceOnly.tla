------------------------------- MODULE OnceOnly -------------------------------
(***************************************************************************)
(* What an idempotency key promises: of all the requests that carry it, at *)
(* most one has its effect, every success that is reported is that effect  *)
(* and was asked for with that body, and nothing takes it back.            *)
(* Idempotency implements it as long as no request is cancelled.           *)
(***************************************************************************)
CONSTANTS
    Requests,
    Body,    \* the request body each request carries
    None

VARIABLES
    times,     \* how often an effect was published under the key
    effect,    \* the body whose effect it was, or None
    succeeded  \* the requests whose latest answer was a success

vars == <<times, effect, succeeded>>

Init == times = 0 /\ effect = None /\ succeeded = {}

Apply(r) ==
    /\ times = 0
    /\ times' = 1
    /\ effect' = Body[r]
    /\ succeeded' = succeeded \cup {r}

Replay(r) ==
    /\ times = 1 /\ effect = Body[r]
    /\ succeeded' = succeeded \cup {r}
    /\ UNCHANGED <<times, effect>>

\* The client sends the request again and awaits a new answer.
Ask(r) ==
    /\ succeeded' = succeeded \ {r}
    /\ UNCHANGED <<times, effect>>

Next == \E r \in Requests : Apply(r) \/ Replay(r) \/ Ask(r)

Spec == Init /\ [][Next]_vars
===============================================================================

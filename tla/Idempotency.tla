------------------------------ MODULE Idempotency ------------------------------
(***************************************************************************)
(* One idempotency key: apps/api/app/idempotency.py, and the session       *)
(* life cycle of apps/api/app/dependencies.py around it.                   *)
(*                                                                         *)
(* Every mutating route claims its (scope, key) row, does its work in an   *)
(* open transaction, and store_response commits the work together with the *)
(* response.  A request that finds the key taken polls until it can replay *)
(* the response, or takes over a claim whose lease has run out.            *)
(*                                                                         *)
(* Time is relative: "lease" is the number of ticks until                  *)
(* lease_expires_at, 0 once that instant has passed.  A claim token is     *)
(* written as the request that drew it: a request has at most one live     *)
(* claim, and a fresh token replaces the old one whenever it claims again. *)
(***************************************************************************)
EXTENDS Integers

CONSTANTS
    Requests,     \* HTTP requests that carry the key
    Bodies,       \* request checksums
    Body,         \* the checksum of each request
    None,         \* no token, no body
    Lease,        \* _LEASE_SECONDS, in ticks
    MaxSends,     \* how often a client sends one request
    Cancellable   \* the server may cancel a request's task (shutdown)

ASSUME BodyAssumption == Body \in [Requests -> Bodies] /\ None \notin Bodies \cup Requests
ASSUME LeaseAssumption == Lease \in Nat \ {0}
ASSUME SendsAssumption == MaxSends \in Nat \ {0}

VARIABLES
    \* The committed idempotency_records row.
    state,      \* "absent", "IN_PROGRESS" or "COMPLETED"
    checksum, owner, lease,
    legacy,     \* a record of this key from before requests were attributed
    effects,    \* how many times the work of the route was committed
    \* Each request.
    pc, sends, reply,
    seen,       \* requests whose last look found the row that is still there
    \* Each claim's heartbeat task.
    hb, hbLease

rowVars == <<state, checksum, owner, lease>>
requestVars == <<pc, sends, reply, seen>>
heartbeatVars == <<hb, hbLease>>
vars == <<rowVars, legacy, effects, requestVars, heartbeatVars>>

Waiting == {"claiming", "looking", "recovering"}

TypeOK ==
    /\ state \in {"absent", "IN_PROGRESS", "COMPLETED"}
    /\ checksum \in Bodies \cup {None}
    /\ owner \in Requests \cup {None}
    /\ lease \in 0..Lease
    /\ legacy \in BOOLEAN
    /\ effects \in Nat
    /\ pc \in [Requests -> Waiting \cup {"idle", "new", "working", "abandoning"}]
    /\ sends \in [Requests -> 0..MaxSends]
    /\ reply \in [Requests -> {"none", "stored", "replayed", "conflict", "error"}]
    /\ seen \subseteq Requests
    /\ hb \in [Requests -> {"off", "sleeping", "writing"}]
    /\ hbLease \in [Requests -> 0..Lease]

Init ==
    /\ state = "absent" /\ checksum = None /\ owner = None /\ lease = 0
    /\ legacy \in BOOLEAN
    /\ effects = 0
    /\ pc = [r \in Requests |-> "idle"]
    /\ sends = [r \in Requests |-> 0]
    /\ reply = [r \in Requests |-> "none"]
    /\ seen = {}
    /\ hb = [r \in Requests |-> "off"]
    /\ hbLease = [r \in Requests |-> 0]

Goto(r, p) == pc' = [pc EXCEPT ![r] = p]

\* The request ends; its heartbeat, if it has one, is cancelled with it.
End(r, a) ==
    /\ Goto(r, "idle")
    /\ reply' = [reply EXCEPT ![r] = a]
    /\ hb' = [hb EXCEPT ![r] = "off"]
    /\ hbLease' = [hbLease EXCEPT ![r] = 0]

\* A client sends the request, for the first time or again.
Send(r) ==
    /\ pc[r] = "idle"
    /\ sends[r] < MaxSends
    /\ Goto(r, "new")
    /\ sends' = [sends EXCEPT ![r] = @ + 1]
    /\ reply' = [reply EXCEPT ![r] = "none"]
    /\ UNCHANGED <<rowVars, legacy, effects, seen, heartbeatVars>>

-------------------------------------------------------------------------------
(* replay_response.                                                         *)

\* A record that cannot be attributed to a subject blocks the key.
CheckLegacy(r) ==
    /\ pc[r] = "new"
    /\ IF legacy THEN End(r, "conflict")
                 ELSE Goto(r, "claiming") /\ UNCHANGED <<reply, heartbeatVars>>
    /\ UNCHANGED <<rowVars, legacy, effects, sends, seen>>

\* An extension of the old expiry instead of a new one.
RenewalFromExpiry == lease + Lease

\* now + _LEASE_SECONDS.
Renewal == Lease

\* The expiry is computed before the first statement is sent: what is left of it when the
\* claim is written depends on how long the statements took.
BecomeOwner(r) ==
    /\ owner' = r
    /\ lease' \in 0..Renewal
    /\ Goto(r, "working")
    /\ hb' = [hb EXCEPT ![r] = "sleeping"]

\* INSERT ... ON CONFLICT DO NOTHING, committed.
Claim(r) ==
    /\ pc[r] = "claiming"
    /\ IF state = "absent"
         THEN /\ state' = "IN_PROGRESS"
              /\ checksum' = Body[r]
              /\ BecomeOwner(r)
         ELSE Goto(r, "looking") /\ UNCHANGED <<rowVars, hb>>
    /\ UNCHANGED <<legacy, effects, sends, reply, seen, hbLease>>

\* The comparison the wrong way round.
ExpiredReversed == lease > 0

Expired == lease = 0

\* The SELECT: the row may have changed, or gone, since the INSERT failed.
LookAgain(r) ==
    /\ pc[r] = "looking"
    /\ \/ state = "absent"
       \/ state = "IN_PROGRESS" /\ checksum = Body[r] /\ ~Expired
    /\ Goto(r, "claiming")
    /\ UNCHANGED <<rowVars, legacy, effects, sends, reply, seen, heartbeatVars>>

LookConflict(r) ==
    /\ pc[r] = "looking"
    /\ state # "absent" /\ checksum # Body[r]
    /\ End(r, "conflict")
    /\ UNCHANGED <<rowVars, legacy, effects, sends, seen>>

\* A replay that does not compare the request bodies.
ReplayAnyBody(r) ==
    /\ pc[r] = "looking"
    /\ state = "COMPLETED"
    /\ End(r, "replayed")
    /\ UNCHANGED <<rowVars, legacy, effects, sends, seen>>

LookReplay(r) ==
    /\ pc[r] = "looking"
    /\ state = "COMPLETED" /\ checksum = Body[r]
    /\ End(r, "replayed")
    /\ UNCHANGED <<rowVars, legacy, effects, sends, seen>>

LookExpired(r) ==
    /\ pc[r] = "looking"
    /\ state = "IN_PROGRESS" /\ checksum = Body[r] /\ Expired
    /\ Goto(r, "recovering")
    /\ seen' = seen \cup {r}
    /\ UNCHANGED <<rowVars, legacy, effects, sends, reply, heartbeatVars>>

\* A take-over that does not look at the row again.
RecoverableBlindly(r) == TRUE

\* The WHERE clause of the take-over: the row that was read (by id), unfinished
\* and still expired.
Recoverable(r) == r \in seen /\ state = "IN_PROGRESS" /\ Expired

\* The compare-and-set UPDATE of an expired claim; the loser polls on.
Recover(r) ==
    /\ pc[r] = "recovering"
    /\ IF Recoverable(r)
         THEN BecomeOwner(r)
         ELSE Goto(r, "claiming") /\ UNCHANGED <<owner, lease, hb>>
    /\ seen' = seen \ {r}
    /\ UNCHANGED <<state, checksum, legacy, effects, sends, reply, hbLease>>

-------------------------------------------------------------------------------
(* The route's work and store_response.  The work is staged in the open     *)
(* transaction of a request that is "working"; nobody sees it before commit. *)

\* A worker that takes its claim for granted.
OwnsAlways(r) == TRUE

\* The WHERE clause of store_response and of the release of a claim.
Owns(r) == state = "IN_PROGRESS" /\ owner = r

\* Business changes and response are published in one commit.
Store(r) ==
    /\ pc[r] = "working"
    /\ Owns(r)
    /\ state' = "COMPLETED"
    /\ owner' = None
    /\ lease' = 0
    /\ effects' = effects + 1
    /\ End(r, "stored")
    /\ UNCHANGED <<checksum, legacy, sends, seen>>

\* "The idempotency claim expired before its response was stored": rollback.
StoreLost(r) ==
    /\ pc[r] = "working"
    /\ ~Owns(r)
    /\ Goto(r, "abandoning")
    /\ UNCHANGED <<rowVars, legacy, effects, sends, reply, seen, heartbeatVars>>

\* The work raises; get_db_session rolls it back.
Raise(r) ==
    /\ pc[r] = "working"
    /\ Goto(r, "abandoning")
    /\ UNCHANGED <<rowVars, legacy, effects, sends, reply, seen, heartbeatVars>>

\* The release of a claim that a peer may have taken over.
ReleaseByKey(r) ==
    /\ state' = "absent" /\ checksum' = None /\ owner' = None /\ lease' = 0
    /\ seen' = {}

\* abandon_idempotency_claims deletes the claim if it is still r's.
ReleaseClaim(r) ==
    IF Owns(r)
      THEN /\ state' = "absent" /\ checksum' = None /\ owner' = None /\ lease' = 0
           /\ seen' = {}
      ELSE UNCHANGED <<rowVars, seen>>

Abandon(r) ==
    /\ pc[r] = "abandoning"
    /\ ReleaseClaim(r)
    /\ End(r, "error")
    /\ UNCHANGED <<legacy, effects, sends>>

\* The task is cancelled while it awaits something other than the database.
\* CancelledError is no Exception, so get_db_session does not roll back; the
\* commit that releases the claim commits the staged work with it.
Cancel(r) ==
    /\ Cancellable
    /\ pc[r] = "working"
    /\ effects' = effects + 1
    /\ ReleaseClaim(r)
    /\ End(r, "error")
    /\ UNCHANGED <<legacy, sends>>

\* The process dies; what was not committed is gone, the claim stays.
Crash(r) ==
    /\ pc[r] # "idle"
    /\ End(r, "error")
    /\ seen' = seen \ {r}
    /\ UNCHANGED <<rowVars, legacy, effects, sends>>

-------------------------------------------------------------------------------
(* _heartbeat: the new lease is computed before a connection is obtained.    *)

HeartbeatWake(r) ==
    /\ hb[r] = "sleeping"
    /\ hb' = [hb EXCEPT ![r] = "writing"]
    /\ hbLease' = [hbLease EXCEPT ![r] = Renewal]
    /\ UNCHANGED <<rowVars, legacy, effects, requestVars>>

HeartbeatWrite(r) ==
    /\ hb[r] = "writing"
    /\ IF Owns(r)
         THEN lease' = hbLease[r] /\ hb' = [hb EXCEPT ![r] = "sleeping"]
         ELSE hb' = [hb EXCEPT ![r] = "off"] /\ UNCHANGED lease
    /\ hbLease' = [hbLease EXCEPT ![r] = 0]
    /\ UNCHANGED <<state, checksum, owner, legacy, effects, requestVars>>

HeartbeatDies(r) ==
    /\ hb[r] # "off"
    /\ hb' = [hb EXCEPT ![r] = "off"]
    /\ hbLease' = [hbLease EXCEPT ![r] = 0]
    /\ UNCHANGED <<rowVars, legacy, effects, requestVars>>

Countdown(n) == IF n > 0 THEN n - 1 ELSE 0

Tick ==
    /\ state = "IN_PROGRESS"
    /\ lease' = Countdown(lease)
    /\ hbLease' = [r \in Requests |-> Countdown(hbLease[r])]
    /\ UNCHANGED <<state, checksum, owner, legacy, effects, requestVars, hb>>

-------------------------------------------------------------------------------
\* The steps a live request takes without anybody's help.
Request(r) ==
    \/ CheckLegacy(r)
    \/ Claim(r)
    \/ LookAgain(r)
    \/ LookConflict(r)
    \/ LookReplay(r)
    \/ LookExpired(r)
    \/ Recover(r)
    \/ Store(r)
    \/ StoreLost(r)
    \/ Abandon(r)

Heartbeat(r) == HeartbeatWake(r) \/ HeartbeatWrite(r) \/ HeartbeatDies(r)

Next ==
    \/ Tick
    \/ \E r \in Requests :
         Send(r) \/ Request(r) \/ Raise(r) \/ Cancel(r) \/ Crash(r) \/ Heartbeat(r)

Spec == Init /\ [][Next]_vars

\* Live requests go on, time passes.  Clients need not send, workers may die.
Fairness == WF_vars(Tick) /\ \A r \in Requests : WF_vars(Request(r))

FairSpec == Spec /\ Fairness

-------------------------------------------------------------------------------
(* Properties.                                                              *)

\* "Publish the business changes and replay response in one final transaction."
\* (store_response): the work of the route is committed once if the response is
\* stored, and not at all before, however often requests are sent, die, lose their
\* lease or are taken over.
PublishedTogether == effects = IF state = "COMPLETED" THEN 1 ELSE 0

\* A request that was told of success asked for exactly what was stored, and the
\* record it was told about is there for good.
SuccessIsStored ==
    \A r \in Requests :
        reply[r] \in {"stored", "replayed"} => state = "COMPLETED" /\ checksum = Body[r]

\* Nobody takes over, renews or deletes a completed record, and a claim in progress
\* changes hands only once its lease has run out.
ClaimsAreRespected ==
    [][/\ state = "COMPLETED" => rowVars' = rowVars
       /\ state = "IN_PROGRESS" /\ owner' \notin {owner, None} => Expired]_vars

\* A request is not kept waiting for ever, not even by a claim whose worker died.
EveryRequestEnds == \A r \in Requests : pc[r] # "idle" ~> pc[r] = "idle"

Promise == INSTANCE OnceOnly WITH
    times <- effects,
    effect <- IF state = "COMPLETED" THEN checksum ELSE None,
    succeeded <- {r \in Requests : reply[r] \in {"stored", "replayed"}}

\* Idempotency implements what the key promises: the work that is committed, however
\* often and by whom, is the one effect of the key.
KeepsPromise == Promise!Spec
===============================================================================

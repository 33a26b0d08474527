-------------------------- MODULE IdempotencyProofs ---------------------------
(***************************************************************************)
(* Proofs about Idempotency, for every set of requests and bodies.         *)
(***************************************************************************)
EXTENDS Idempotency, TLAPS

\* A claim carries the body of the request that owns it, and a take-over in
\* preparation is of a row with the body of the request that prepares it.
ClaimCarriesBody ==
    /\ state = "absent" => checksum = None
    /\ state = "IN_PROGRESS" => owner \in Requests /\ checksum = Body[owner]
    /\ \A r \in seen : state # "absent" /\ checksum = Body[r]

IInv == TypeOK /\ ClaimCarriesBody /\ SuccessIsStored

LEMMA InitInv == Init => IInv
BY BodyAssumption, LeaseAssumption, SendsAssumption
DEF Init, IInv, TypeOK, ClaimCarriesBody, SuccessIsStored, Waiting

LEMMA NextInv == IInv /\ [Next]_vars => IInv'
<1> SUFFICES ASSUME IInv, [Next]_vars PROVE IInv'
  OBVIOUS
<1> USE BodyAssumption, LeaseAssumption, SendsAssumption
    DEF IInv, TypeOK, ClaimCarriesBody, SuccessIsStored, Waiting, rowVars, requestVars,
        heartbeatVars
<1>1. CASE Tick
  BY <1>1 DEF Tick, Countdown
<1>2. ASSUME NEW r \in Requests, Send(r) PROVE IInv'
  BY <1>2 DEF Send, Goto
<1>3. ASSUME NEW r \in Requests, CheckLegacy(r) PROVE IInv'
  BY <1>3 DEF CheckLegacy, End, Goto
<1>4. ASSUME NEW r \in Requests, Claim(r) PROVE IInv'
  <2>1. CASE state = "absent"
    BY <1>4, <2>1 DEF Claim, BecomeOwner, Renewal, Goto
  <2>2. CASE state # "absent"
    BY <1>4, <2>2 DEF Claim, Goto
  <2>3. QED
    BY <2>1, <2>2
<1>5. ASSUME NEW r \in Requests, LookAgain(r) PROVE IInv'
  BY <1>5 DEF LookAgain, Goto
<1>6. ASSUME NEW r \in Requests, LookConflict(r) PROVE IInv'
  BY <1>6 DEF LookConflict, End, Goto
<1>7. ASSUME NEW r \in Requests, LookReplay(r) PROVE IInv'
  BY <1>7 DEF LookReplay, End, Goto
<1>8. ASSUME NEW r \in Requests, LookExpired(r) PROVE IInv'
  BY <1>8 DEF LookExpired, Goto
<1>9. ASSUME NEW r \in Requests, Recover(r) PROVE IInv'
  <2>1. CASE Recoverable(r)
    BY <1>9, <2>1 DEF Recover, Recoverable, BecomeOwner, Renewal, Goto
  <2>2. CASE ~Recoverable(r)
    BY <1>9, <2>2 DEF Recover, Goto
  <2>3. QED
    BY <2>1, <2>2
<1>10. ASSUME NEW r \in Requests, Store(r) PROVE IInv'
  BY <1>10 DEF Store, Owns, End, Goto
<1>11. ASSUME NEW r \in Requests, StoreLost(r) \/ Raise(r) PROVE IInv'
  BY <1>11 DEF StoreLost, Raise, Goto
<1>12. ASSUME NEW r \in Requests, Abandon(r) PROVE IInv'
  BY <1>12 DEF Abandon, ReleaseClaim, Owns, End, Goto
<1>13. ASSUME NEW r \in Requests, Cancel(r) PROVE IInv'
  BY <1>13 DEF Cancel, ReleaseClaim, Owns, End, Goto
<1>14. ASSUME NEW r \in Requests, Crash(r) PROVE IInv'
  BY <1>14 DEF Crash, End, Goto
<1>15. ASSUME NEW r \in Requests, HeartbeatWake(r) \/ HeartbeatDies(r) PROVE IInv'
  BY <1>15 DEF HeartbeatWake, HeartbeatDies, Renewal
<1>16. ASSUME NEW r \in Requests, HeartbeatWrite(r) PROVE IInv'
  BY <1>16 DEF HeartbeatWrite, Owns
<1>17. CASE UNCHANGED vars
  BY <1>17 DEF vars
<1>18. QED
  BY <1>1, <1>2, <1>3, <1>4, <1>5, <1>6, <1>7, <1>8, <1>9, <1>10, <1>11, <1>12, <1>13,
     <1>14, <1>15, <1>16, <1>17 DEF Next, Request, Heartbeat

LEMMA Inductive == Spec => []IInv
BY InitInv, NextInv, PTL DEF Spec

\* Every variable keeps its type.
THEOREM TypeCorrect == Spec => []TypeOK
BY Inductive, PTL DEF IInv

\* A success is only ever reported for the body that was stored, and what was stored
\* stays.
THEOREM SuccessIsTruthful == Spec => []SuccessIsStored
BY Inductive, PTL DEF IInv

-------------------------------------------------------------------------------
\* As long as no request's task is cancelled, work and response are published in one
\* commit, once.
THEOREM OnceWithoutCancellation ==
    ASSUME Cancellable = FALSE
    PROVE  Spec => []PublishedTogether
<1> DEFINE P == TypeOK /\ PublishedTogether
<1> USE DEF PublishedTogether, rowVars, requestVars, heartbeatVars
<1>1. Init => P
  BY InitInv DEF Init, IInv
<1>2. ASSUME IInv, P, [Next]_vars PROVE PublishedTogether'
  <2>1. CASE Tick
    BY <1>2, <2>1 DEF Tick
  <2>2. ASSUME NEW r \in Requests, Claim(r) PROVE PublishedTogether'
    BY <1>2, <2>2 DEF Claim
  <2>3. ASSUME NEW r \in Requests, Store(r) PROVE PublishedTogether'
    BY <1>2, <2>3 DEF Store, Owns
  <2>4. ASSUME NEW r \in Requests, Abandon(r) PROVE PublishedTogether'
    BY <1>2, <2>4 DEF Abandon, ReleaseClaim, Owns
  <2>5. ASSUME NEW r \in Requests,
               Send(r) \/ CheckLegacy(r) \/ LookAgain(r) \/ LookConflict(r) \/ LookReplay(r)
                 \/ LookExpired(r) \/ Recover(r) \/ StoreLost(r) \/ Raise(r) \/ Crash(r)
        PROVE  PublishedTogether'
    BY <1>2, <2>5 DEF Send, CheckLegacy, LookAgain, LookConflict, LookReplay, LookExpired,
       Recover, StoreLost, Raise, Crash
  <2>6. ASSUME NEW r \in Requests, Heartbeat(r) PROVE PublishedTogether'
    BY <1>2, <2>6 DEF Heartbeat, HeartbeatWake, HeartbeatWrite, HeartbeatDies
  <2>7. CASE UNCHANGED vars
    BY <1>2, <2>7 DEF vars
  <2>8. QED
    BY <1>2, <2>1, <2>2, <2>3, <2>4, <2>5, <2>6, <2>7 DEF Next, Request, Cancel
<1>3. IInv /\ PublishedTogether /\ [Next]_vars => PublishedTogether'
  BY <1>2 DEF IInv
<1>4. QED
  BY <1>1, <1>3, Inductive, PTL DEF Spec

\* Nobody touches a completed record, and a claim in progress changes hands only when
\* its lease has run out.
THEOREM ClaimsRespected == Spec => ClaimsAreRespected
<1> DEFINE A == /\ state = "COMPLETED" => rowVars' = rowVars
                /\ state = "IN_PROGRESS" /\ owner' \notin {owner, None} => Expired
<1> USE DEF rowVars, requestVars, heartbeatVars
<1>1. ASSUME [Next]_vars PROVE A
  <2>1. CASE Tick
    BY <2>1 DEF Tick
  <2>2. ASSUME NEW r \in Requests, Claim(r) PROVE A
    BY <2>2 DEF Claim
  <2>3. ASSUME NEW r \in Requests, Recover(r) PROVE A
    BY <2>3 DEF Recover, Recoverable
  <2>4. ASSUME NEW r \in Requests, Store(r) PROVE A
    BY <2>4 DEF Store, Owns
  <2>5. ASSUME NEW r \in Requests, Abandon(r) \/ Cancel(r) PROVE A
    BY <2>5 DEF Abandon, Cancel, ReleaseClaim, Owns
  <2>6. ASSUME NEW r \in Requests,
               Send(r) \/ CheckLegacy(r) \/ LookAgain(r) \/ LookConflict(r) \/ LookReplay(r)
                 \/ LookExpired(r) \/ StoreLost(r) \/ Raise(r) \/ Crash(r)
        PROVE  A
    BY <2>6 DEF Send, CheckLegacy, LookAgain, LookConflict, LookReplay, LookExpired,
       StoreLost, Raise, Crash
  <2>7. ASSUME NEW r \in Requests, Heartbeat(r) PROVE A
    BY <2>7 DEF Heartbeat, HeartbeatWake, HeartbeatWrite, HeartbeatDies, Owns
  <2>8. CASE UNCHANGED vars
    BY <2>8 DEF vars
  <2>9. QED
    BY <1>1, <2>1, <2>2, <2>3, <2>4, <2>5, <2>6, <2>7, <2>8 DEF Next, Request
<1>2. QED
  BY <1>1, PTL DEF Spec, ClaimsAreRespected

-------------------------------------------------------------------------------
\* Every step of Idempotency is a step of the promise, or changes nothing about it.
LEMMA PromiseStep ==
    ASSUME Cancellable = FALSE, IInv, PublishedTogether, [Next]_vars
    PROVE  [Promise!Next]_Promise!vars
<1> DEFINE Effect == IF state = "COMPLETED" THEN checksum ELSE None
           Succeeded == {r \in Requests : reply[r] \in {"stored", "replayed"}}
<1> USE DEF rowVars, requestVars, heartbeatVars
<1>1. ASSUME Effect' = Effect, UNCHANGED <<effects, reply>> PROVE UNCHANGED Promise!vars
  BY <1>1 DEF Promise!vars
<1>2. ASSUME UNCHANGED <<state, checksum, effects, reply>> PROVE UNCHANGED Promise!vars
  BY <1>1, <1>2
\* Whatever else a request is told, it takes back what it was told before.
<1>3. ASSUME NEW r \in Requests, NEW a \in {"none", "conflict", "error"},
             reply' = [reply EXCEPT ![r] = a], Effect' = Effect, UNCHANGED effects
      PROVE  Promise!Next
  <2>1. Succeeded' = Succeeded \ {r}
    BY <1>3 DEF IInv, TypeOK
  <2>2. Promise!Ask(r)
    BY <1>3, <2>1 DEF Promise!Ask
  <2>3. QED
    BY <2>2 DEF Promise!Next
<1>4. ASSUME NEW r \in Requests, NEW a \in {"stored", "replayed"},
             reply' = [reply EXCEPT ![r] = a]
      PROVE  Succeeded' = Succeeded \cup {r}
  BY <1>4 DEF IInv, TypeOK
<1>5. ASSUME NEW r \in Requests, Send(r) PROVE Promise!Next
  BY <1>5, <1>3 DEF Send
<1>6. ASSUME NEW r \in Requests, Store(r) PROVE Promise!Next
  <2>1. /\ state = "IN_PROGRESS" /\ checksum = Body[r]
        /\ state' = "COMPLETED" /\ checksum' = checksum
        /\ effects = 0 /\ effects' = 1
        /\ reply' = [reply EXCEPT ![r] = "stored"]
    BY <1>6 DEF Store, Owns, End, IInv, ClaimCarriesBody, PublishedTogether
  <2>2. Promise!Apply(r)
    BY <1>4, <2>1 DEF Promise!Apply
  <2>3. QED
    BY <2>2 DEF Promise!Next
<1>7. ASSUME NEW r \in Requests, LookReplay(r) PROVE Promise!Next
  <2>1. /\ state = "COMPLETED" /\ checksum = Body[r]
        /\ state' = state /\ checksum' = checksum
        /\ effects = 1 /\ effects' = effects
        /\ reply' = [reply EXCEPT ![r] = "replayed"]
    BY <1>7 DEF LookReplay, End, PublishedTogether
  <2>2. Promise!Replay(r)
    BY <1>4, <2>1 DEF Promise!Replay
  <2>3. QED
    BY <2>2 DEF Promise!Next
<1>8. ASSUME NEW r \in Requests, Abandon(r) PROVE Promise!Next
  <2>1. Effect' = Effect /\ UNCHANGED effects /\ reply' = [reply EXCEPT ![r] = "error"]
    BY <1>8 DEF Abandon, ReleaseClaim, Owns, End
  <2>2. QED
    BY <1>3, <2>1
<1>9. ASSUME NEW r \in Requests, LookConflict(r) \/ Crash(r) PROVE Promise!Next
  BY <1>9, <1>3 DEF LookConflict, Crash, End
<1>10. ASSUME NEW r \in Requests, CheckLegacy(r) PROVE [Promise!Next]_Promise!vars
  <2>1. CASE legacy
    BY <1>10, <1>3, <2>1 DEF CheckLegacy, End
  <2>2. CASE ~legacy
    BY <1>10, <1>2, <2>2 DEF CheckLegacy
  <2>3. QED
    BY <2>1, <2>2
<1>11. ASSUME NEW r \in Requests, Claim(r) PROVE UNCHANGED Promise!vars
  <2>1. Effect' = Effect /\ UNCHANGED <<effects, reply>>
    BY <1>11 DEF Claim, IInv, ClaimCarriesBody
  <2>2. QED
    BY <1>1, <2>1
<1>12. ASSUME NEW r \in Requests,
              Heartbeat(r) \/ LookAgain(r) \/ LookExpired(r) \/ Recover(r) \/ StoreLost(r) \/ Raise(r)
       PROVE  UNCHANGED Promise!vars
  BY <1>12, <1>2 DEF Heartbeat, HeartbeatWake, HeartbeatWrite, HeartbeatDies, LookAgain,
     LookExpired, Recover, StoreLost, Raise
<1>13. CASE Tick \/ UNCHANGED vars
  BY <1>13, <1>2 DEF Tick, vars
<1>14. QED
  BY <1>5, <1>6, <1>7, <1>8, <1>9, <1>10, <1>11, <1>12, <1>13 DEF Next, Request,
     Cancel

\* As long as no request's task is cancelled, Idempotency implements what a key promises:
\* what is committed and what callers are told never depends on how their requests raced,
\* died, were taken over or were repeated.  A cancelled request commits work without a
\* response, which the promise has no step for.
THEOREM PromiseKept ==
    ASSUME Cancellable = FALSE
    PROVE  Spec => KeepsPromise
<1>1. Init => Promise!Init
  BY DEF Init, Promise!Init
<1>2. IInv /\ PublishedTogether /\ [Next]_vars => [Promise!Next]_Promise!vars
  BY PromiseStep
<1>3. Spec => []PublishedTogether
  BY OnceWithoutCancellation
<1>4. QED
  BY <1>1, <1>2, <1>3, Inductive, PTL DEF Spec, KeepsPromise, Promise!Spec
===============================================================================

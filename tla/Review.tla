--------------------------------- MODULE Review ---------------------------------
(***************************************************************************)
(* Human review of a COMPLETED run:                                        *)
(* services/reconciliation/review_service.py, the review and analyze       *)
(* routes, the AI analyst where it changes a case, and the review dialog   *)
(* of the web app.                                                         *)
(*                                                                         *)
(* Every handler takes the row lock of the run, checks what it has to      *)
(* check, changes one case, recalculates the aggregates of the whole run   *)
(* and commits.  The check that a reviewer decides on what they saw is the *)
(* review revision: a counter of the run that every change increments and  *)
(* every decision must name.                                               *)
(*                                                                         *)
(* A decision is one step, because the lock is held from the first read    *)
(* that counts to the commit; an analysis is two, because it waits for the *)
(* AI provider with the lock held.  The idempotency key of a request is    *)
(* represented by what module Idempotency shows of it: "stored" is the     *)
(* request body (its expected revision) answered under the current key.    *)
(***************************************************************************)
EXTENDS Integers, CaseOutcomes

CONSTANTS
    Cases,
    Reviewers,   \* people who decide
    Dialog,      \* those of them who use the dialog of the web app
    Analysts,    \* callers of the analyze route
    Nobody,      \* holds no lock
    Outcomes,    \* the cases the execution leaves behind
    NoCase,      \* nobody looks at one
    MaxRequests  \* how many requests are sent, over all

ASSUME PeopleAssumption ==
    /\ Dialog \subseteq Reviewers
    /\ Reviewers \cap Analysts = {}
    /\ Nobody \notin Reviewers \cup Analysts
ASSUME CasesAssumption == NoCase \notin Cases
ASSUME RequestsAssumption == MaxRequests \in Nat

ASSUME OutcomesAssumption == Outcomes \subseteq Classified

-------------------------------------------------------------------------------
VARIABLES
    \* Committed.
    revision,   \* review_revision
    cases,
    totals,     \* what metrics and cash position were last calculated from
    lock,       \* the analyst whose transaction holds the row lock of the run
    \* Each person.
    pc,
    intent,     \* what a reviewer is about to decide
    target,     \* what an analyst is having analyzed
    requests,   \* sent so far
    \* History.
    refused     \* cases whose suggestion somebody rejected or deferred

rowVars == <<revision, cases, totals>>
vars == <<rowVars, lock, pc, requests, intent, target, refused>>

People == Reviewers \cup Analysts
Actions == {"approve", "reject", "defer", "assign", "tasks"}
NoKey == -1

\* A reviewer looked at a case, at a revision; "expected" is the revision their
\* request names, "stored" the body answered under their idempotency key.  History:
\* the case is still as it was seen, and how many decisions have been recorded.
Intent == [about : Cases \cup {NoCase}, action : Actions, seen : Nat, expected : Nat,
           stored : Nat \cup {NoKey}, fresh : BOOLEAN, decided : Nat]

NoIntent == [about |-> NoCase, action |-> "approve", seen |-> 0,
             expected |-> 0, stored |-> NoKey, fresh |-> TRUE, decided |-> 0]

\* The aggregates: cases_by_state and the cash buckets, from all cases of the run.
Projection(k) == [c \in Cases |-> [state |-> k[c].state, bucket |-> k[c].bucket]]

TypeOK ==
    /\ revision \in Nat
    /\ cases \in [Cases -> Case]
    /\ totals \in [Cases -> [state : CaseStates, bucket : Buckets]]
    /\ lock \in Analysts \cup {Nobody}
    /\ pc \in [People -> {"idle", "viewing", "submitted", "answered", "unsure", "analyzing"}]
    /\ requests \in 0..MaxRequests
    /\ intent \in [Reviewers -> Intent]
    /\ target \in [Analysts -> Cases \cup {NoCase}]
    /\ refused \subseteq Cases

Init ==
    /\ revision = 0
    /\ cases \in [Cases -> Outcomes]
    /\ totals = Projection(cases)
    /\ lock = Nobody
    /\ pc = [p \in People |-> "idle"]
    /\ requests = 0
    /\ intent = [r \in Reviewers |-> NoIntent]
    /\ target = [p \in Analysts |-> NoCase]
    /\ refused = {}

RowFree == lock = Nobody

Goto(p, s) == pc' = [pc EXCEPT ![p] = s]

Send ==
    /\ requests < MaxRequests
    /\ requests' = requests + 1

-------------------------------------------------------------------------------
(* What a reviewer and their client do.                                     *)

\* The reviewer makes up their mind about a case, from its committed state and the
\* revision of the run that goes with it.  The receipt reads both under a shared row
\* lock, the case page without any: an analysis in progress keeps nobody from looking.
Look(r, c, a) ==
    /\ pc[r] = "idle"
    /\ requests < MaxRequests
    /\ intent' = [intent EXCEPT ![r] =
                    [NoIntent EXCEPT !.about = c, !.action = a, !.seen = revision]]
    /\ Goto(r, "viewing")
    /\ UNCHANGED <<rowVars, lock, requests, target, refused>>

\* The dialog fetches the run again, just before it sends the request, and names
\* that revision; other clients name the one the reviewer looked at.  A request
\* that was not answered is sent again under the same key.
Submit(r) ==
    /\ pc[r] \in {"viewing", "unsure"}
    /\ Send
    /\ intent' = [intent EXCEPT ![r].expected = IF r \in Dialog THEN revision ELSE intent[r].seen]
    /\ Goto(r, "submitted")
    /\ UNCHANGED <<rowVars, lock, target, refused>>

\* The reviewer is done, content with the answer or not.
Done(r) ==
    /\ intent' = [intent EXCEPT ![r] = NoIntent]
    /\ Goto(r, "idle")

GiveUp(r) ==
    /\ pc[r] \in {"viewing", "unsure"}
    /\ Done(r)
    /\ UNCHANGED <<rowVars, lock, requests, target, refused>>

\* The answer arrives, after Decide or after a replay.
Answered(r) ==
    /\ pc[r] = "answered"
    /\ Done(r)
    /\ UNCHANGED <<rowVars, lock, requests, target, refused>>

\* The request dies on its way, its worker before the commit, or the answer on its
\* way back.
Fail(r) ==
    /\ pc[r] \in {"submitted", "answered"}
    /\ Goto(r, "unsure")
    /\ UNCHANGED <<rowVars, lock, requests, intent, target, refused>>

\* The key was answered before: same body.
Replay(r) ==
    /\ pc[r] = "submitted"
    /\ intent[r].stored = intent[r].expected
    /\ Goto(r, "answered")
    /\ UNCHANGED <<rowVars, lock, requests, intent, target, refused>>

\* IDEMPOTENCY_KEY_REUSED: another body.  No retryable error, so the client draws
\* a new key, should the reviewer try again.
KeyReused(r) ==
    /\ pc[r] = "submitted"
    /\ intent[r].stored \notin {NoKey, intent[r].expected}
    /\ intent' = [intent EXCEPT ![r].stored = NoKey]
    /\ Goto(r, "unsure")
    /\ UNCHANGED <<rowVars, lock, requests, target, refused>>

-------------------------------------------------------------------------------
(* The handlers: _require_case, then one of approve, reject, defer, assign   *)
(* and create_task, then recalculate_aggregates and store_response.          *)

Handling(r) == pc[r] = "submitted" /\ intent[r].stored = NoKey /\ RowFree

\* A handler that does not compare revisions.
CurrentUnchecked(r) == TRUE

Current(r) == intent[r].expected = revision

\* STALE_REVIEW_REVISION.
Stale(r) ==
    /\ Handling(r)
    /\ ~Current(r)
    /\ Done(r)
    /\ UNCHANGED <<rowVars, lock, requests, target, refused>>

Refusing(r) == intent[r].action \in {"reject", "defer"}

\* An endpoint that lets a reconciled case be refused.
RefusableAlways(k) == TRUE

Refusable(k) == k.state # "RECONCILED"

\* INVALID_STATE_TRANSITION, or INVALID_DEFER_DATE.
Invalid(r) ==
    /\ Handling(r)
    /\ Current(r)
    /\ \/ Refusing(r) /\ ~Refusable(cases[intent[r].about])
       \/ intent[r].action = "defer"
    /\ Done(r)
    /\ UNCHANGED <<rowVars, lock, requests, target, refused>>

\* Any AI-assisted case is approved with its suggestion.
ReviewsSuggestionWheneverAssisted(k) == k.ai

\* Approval is of the AI suggestion, which is verified with the rest of the evidence.
ReviewsSuggestion(k) == k.state = "SUGGESTED_FOR_REVIEW" /\ k.ai

\* The reviewer is trusted instead of the evidence.
VerifiedByReviewer(k) == TRUE

\* _reverify_suggestion and what approve makes of it.
Verified(k) ==
    IF ReviewsSuggestion(k) THEN k.suggestion = "suggested" /\ k.provable
                            ELSE k.proved /\ ~k.residual

ApprovedCase(k) ==
    IF Verified(k)
      THEN [k EXCEPT !.state = "RECONCILED",
                     !.level = "VERIFIED",
                     !.residual = FALSE,
                     !.proved = IF ReviewsSuggestion(k) THEN k.provable ELSE @,
                     !.suggestion = IF ReviewsSuggestion(k) THEN "verified" ELSE @,
                     !.received = @ \/ ReviewsSuggestion(k),
                     !.bucket = IF k.received \/ ReviewsSuggestion(k)
                                  THEN "BANK_CONFIRMED" ELSE "UNRESOLVED"]
      ELSE [k EXCEPT !.state = "APPROVED_PENDING_VERIFICATION", !.bucket = "UNRESOLVED"]

\* The case after action a.
Acted(k, a) ==
    CASE a = "approve" -> ApprovedCase(k)
      [] a = "reject" -> [k EXCEPT !.state = "REJECTED_SUGGESTION", !.bucket = "UNRESOLVED"]
      [] a = "defer" -> [k EXCEPT !.state = "DEFERRED", !.bucket = "UNRESOLVED", !.task = TRUE]
      [] a = "assign" -> [k EXCEPT !.owner = "assigned"]
      [] a = "tasks" -> [k EXCEPT !.task = TRUE]

\* Aggregates that forget the case just changed.
RecalculateBefore == totals' = Projection(cases)

Recalculate == totals' = Projection(cases')

\* What reviewers looked at, when case c becomes k.
Seen(c, k) ==
    [r \in Reviewers |->
        [intent[r] EXCEPT !.fresh = @ /\ (intent[r].about = c => k = cases[c])]]

\* The decision committed without its response and without the new revision.
CommitDecisionOnly(r, k) ==
    /\ UNCHANGED revision
    /\ intent' = [Seen(intent[r].about, k) EXCEPT ![r].decided = @ + 1]

\* review_revision += 1, and the response stored under the key.
Commit(r, k) ==
    /\ revision' = revision + 1
    /\ intent' = [Seen(intent[r].about, k) EXCEPT ![r].decided = @ + 1,
                                                  ![r].stored = intent[r].expected]

Decide(r) ==
    LET c == intent[r].about
        k == Acted(cases[c], intent[r].action)
    IN  /\ Handling(r)
        /\ Current(r)
        /\ Refusing(r) => Refusable(cases[c])
        /\ cases' = [cases EXCEPT ![c] = k]
        /\ Recalculate
        /\ Commit(r, k)
        /\ refused' = IF Refusing(r) /\ cases[c].suggestion # "none"
                        THEN refused \cup {c} ELSE refused
        /\ Goto(r, "answered")
        /\ UNCHANGED <<lock, requests, target>>

-------------------------------------------------------------------------------
(* The analyze route: no revision is asked for.                             *)

Eligible(k) == k.state = "ACTIONABLE_EXCEPTION" /\ k.ambiguous

\* NOT_ELIGIBLE; the aggregates are recalculated all the same.
AnalyzeIneligible(p, c) ==
    /\ pc[p] = "idle"
    /\ Send
    /\ RowFree
    /\ ~Eligible(cases[c])
    /\ totals' = Projection(cases)
    /\ UNCHANGED <<revision, cases, lock, pc, intent, target, refused>>

\* The case becomes AI_ANALYSIS_PENDING in the open transaction, and the provider
\* is asked.
BeginAnalysis(p, c) ==
    /\ pc[p] = "idle"
    /\ Send
    /\ RowFree
    /\ Eligible(cases[c])
    /\ lock' = p
    /\ target' = [target EXCEPT ![p] = c]
    /\ Goto(p, "analyzing")
    /\ UNCHANGED <<rowVars, intent, refused>>

\* _persist_suggestion.
SuggestedCase(k) == [k EXCEPT !.state = "SUGGESTED_FOR_REVIEW", !.level = "SUGGESTED",
                              !.ai = TRUE, !.suggestion = "suggested"]

\* A failure that leaves the case pending.
RestoredPending(k) == [k EXCEPT !.state = "AI_ANALYSIS_PENDING"]

\* _restore_exception: the analysis failed, timed out or was rejected.
RestoredCase(k) == [k EXCEPT !.state = "ACTIONABLE_EXCEPTION", !.level = "UNRESOLVED",
                             !.ai = FALSE]

\* An analysis that is no review, so does not count as a revision.
AnalysisUncounted == revision

AnalysisRevision == revision + 1

FinishAnalysis(p) ==
    LET c == target[p]
    IN  /\ pc[p] = "analyzing"
        /\ \E k \in {SuggestedCase(cases[c]), RestoredCase(cases[c])} :
             /\ cases' = [cases EXCEPT ![c] = k]
             /\ intent' = Seen(c, k)
        /\ Recalculate
        /\ revision' = AnalysisRevision
        /\ lock' = Nobody
        /\ target' = [target EXCEPT ![p] = NoCase]
        /\ Goto(p, "idle")
        /\ UNCHANGED <<requests, refused>>

\* A worker whose lock is never released.
AnalysisDiesLocked(p) ==
    /\ pc[p] = "analyzing"
    /\ target' = [target EXCEPT ![p] = NoCase]
    /\ Goto(p, "idle")
    /\ UNCHANGED <<rowVars, lock, requests, intent, refused>>

AnalysisDies(p) ==
    /\ pc[p] = "analyzing"
    /\ lock' = Nobody
    /\ target' = [target EXCEPT ![p] = NoCase]
    /\ Goto(p, "idle")
    /\ UNCHANGED <<rowVars, requests, intent, refused>>

-------------------------------------------------------------------------------
Handle(r) == Replay(r) \/ KeyReused(r) \/ Stale(r) \/ Invalid(r) \/ Decide(r)

Review(r) ==
    \/ \E c \in Cases, a \in Actions : Look(r, c, a)
    \/ Submit(r)
    \/ GiveUp(r)
    \/ Answered(r)
    \/ Fail(r)
    \/ Handle(r)

Analyze(p) ==
    \/ \E c \in Cases : AnalyzeIneligible(p, c) \/ BeginAnalysis(p, c)
    \/ FinishAnalysis(p)
    \/ AnalysisDies(p)

Next ==
    \/ \E r \in Reviewers : Review(r)
    \/ \E p \in Analysts : Analyze(p)

Spec == Init /\ [][Next]_vars

\* A request that reached the server is handled, once the row lock is to be had
\* (PostgreSQL queues those who wait for it); the AI client has timeouts.
Fairness ==
    /\ \A r \in Reviewers : SF_vars(Handle(r))
    /\ \A p \in Analysts : WF_vars(FinishAnalysis(p) \/ AnalysisDies(p))

FairSpec == Spec /\ Fairness

-------------------------------------------------------------------------------
(* Properties.                                                              *)

\* Metrics and cash position are those of the cases on record, whoever changed
\* whichever case last: reviews of two cases do not overwrite each other's totals.
AggregatesMatchCases == totals = Projection(cases)

\* The revision names the contents of the run: who looked at a case at the present
\* revision has seen it as it is now.
RevisionIdentifiesContent ==
    \A r \in Reviewers : pc[r] # "idle" /\ intent[r].seen = revision => intent[r].fresh

\* "Refresh the evidence before reviewing." (STALE_REVIEW_REVISION): a decision is
\* recorded about the case as the reviewer saw it, never about a case that somebody
\* else decided on, or an analysis changed, since.
DecidesOnWhatWasSeen ==
    [][\A r \in Reviewers : intent'[r].decided > intent[r].decided => intent[r].fresh]_vars

\* It does not hold of the users of the dialog.  It holds of everybody else, whatever
\* the users of the dialog do meanwhile: who names the revision they looked at decides
\* on what they saw.
InformedDecideOnWhatTheySaw ==
    [][\A r \in Reviewers \ Dialog :
          intent'[r].decided > intent[r].decided => intent[r].fresh]_vars

\* And a decision of theirs is recorded once, though answers are lost and requests
\* repeated under one idempotency key.
InformedDecideOnce == \A r \in Reviewers \ Dialog : intent[r].decided <= 1

\* Cash counts as bank-confirmed only in a reconciled case whose invariants hold over
\* its verified evidence, with nothing left over and the receipt confirmed.
ConfirmedCashIsProved ==
    \A c \in Cases :
        /\ cases[c].bucket = "BANK_CONFIRMED" => cases[c].state = "RECONCILED" /\ cases[c].received
        /\ cases[c].state = "RECONCILED" => /\ cases[c].proved /\ ~cases[c].residual
                                            /\ cases[c].level = "VERIFIED"

\* An AI suggestion a reviewer rejected or deferred is never promoted to verified
\* evidence, by whatever sequence of further approvals, assignments and analyses.
RefusedNeverPromoted == \A c \in refused : cases[c].suggestion # "verified"

\* A reconciled case stays reconciled, confirmed cash stays confirmed.
ReconciledIsFinal ==
    [][\A c \in Cases : cases[c].state = "RECONCILED" =>
          /\ cases'[c].state = "RECONCILED"
          /\ cases'[c].bucket = cases[c].bucket]_vars

\* A request that reached the server is answered: no reviewer waits for ever for a run
\* that is being analyzed, not even when the worker dies that waits for the provider.
EveryRequestIsHandled == \A r \in Reviewers : pc[r] = "submitted" ~> pc[r] # "submitted"
===============================================================================

------------------------------ MODULE ReviewProofs ------------------------------
(***************************************************************************)
(* Proofs about Review, for every set of cases, of reviewers and of        *)
(* analysts and every mixture of outcomes an execution leaves behind.      *)
(*                                                                         *)
(* The argument has three layers.  Each case satisfies Sound, whatever is  *)
(* done to it (lemmas OutcomesSound, ActedSound, AnalyzedSound: no         *)
(* behaviours involved).  The row lock makes the case under analysis one   *)
(* that nobody else touches (Locked).  And the revision relates what each  *)
(* reviewer saw to what is on record (Named); for reviewers who do not use *)
(* the dialog it is the revision they looked at (Honest).                  *)
(***************************************************************************)
EXTENDS Review, TLAPS

-------------------------------------------------------------------------------
(* The inductive invariant.                                                 *)

Sound(k) ==
    /\ k.bucket = "BANK_CONFIRMED" => k.state = "RECONCILED" /\ k.received
    /\ k.state = "RECONCILED" => /\ k.proved /\ ~k.residual
                                 /\ k.level = "VERIFIED"
                                 /\ k.bucket = IF k.received THEN "BANK_CONFIRMED"
                                                             ELSE "UNRESOLVED"
    /\ k.suggestion = "verified" => k.state = "RECONCILED"

\* A state from which no suggestion can be approved any more.
Past(k) == k.state \notin {"ACTIONABLE_EXCEPTION", "SUGGESTED_FOR_REVIEW"}

Locked ==
    \A p \in Analysts :
        /\ lock = p <=> pc[p] = "analyzing"
        /\ pc[p] = "analyzing" => target[p] \in Cases /\ Eligible(cases[target[p]])

Named ==
    \A r \in Reviewers :
        /\ pc[r] # "idle" => intent[r].about \in Cases
        /\ intent[r].seen <= revision
        /\ pc[r] # "idle" /\ intent[r].seen = revision => intent[r].fresh

Honest ==
    \A r \in Reviewers : r \notin Dialog =>
        /\ pc[r] = "submitted" => intent[r].expected = intent[r].seen
        /\ intent[r].stored \in {NoKey, intent[r].seen}
        /\ intent[r].decided = IF intent[r].stored = NoKey THEN 0 ELSE 1

Inv ==
    /\ TypeOK
    /\ \A c \in Cases : Sound(cases[c])
    /\ \A c \in refused : Past(cases[c]) /\ cases[c].suggestion # "verified"
    /\ AggregatesMatchCases
    /\ Locked
    /\ Named
    /\ Honest

-------------------------------------------------------------------------------
(* What may happen to a case.                                               *)

\* Every outcome of an execution is sound.
LEMMA OutcomesSound == \A k \in Outcomes : k \in Case /\ Sound(k)
BY OutcomesAssumption DEF Classified, Sound, Case

\* A decision that the handlers let through keeps a case sound, never takes a case
\* back to where a suggestion can be approved, and never undoes a reconciliation.
LEMMA ActedSound ==
    ASSUME NEW k \in Case, NEW a \in Actions, Sound(k),
           a \in {"reject", "defer"} => Refusable(k)
    PROVE  /\ Acted(k, a) \in Case
           /\ Sound(Acted(k, a))
           /\ Past(k) => Past(Acted(k, a))
           /\ a \in {"reject", "defer"} =>
                 Past(Acted(k, a)) /\ Acted(k, a).state # "RECONCILED"
           /\ Acted(k, a).suggestion = "verified" =>
                 k.suggestion = "verified" \/ k.state = "SUGGESTED_FOR_REVIEW"
           /\ k.state = "RECONCILED" => /\ Acted(k, a).state = "RECONCILED"
                                        /\ Acted(k, a).bucket = k.bucket
<1>1. CASE a = "approve"
  <2>1. Acted(k, a) = ApprovedCase(k)
    BY <1>1 DEF Acted
  <2>2. CASE Verified(k) /\ ReviewsSuggestion(k)
    <3>1. k.state = "SUGGESTED_FOR_REVIEW" /\ k.provable /\ k.suggestion = "suggested"
      BY <2>2 DEF Verified, ReviewsSuggestion
    <3>2. Acted(k, a) = [k EXCEPT !.state = "RECONCILED", !.level = "VERIFIED",
                                  !.residual = FALSE, !.proved = TRUE,
                                  !.suggestion = "verified",
                                  !.received = TRUE, !.bucket = "BANK_CONFIRMED"]
      <4>1. (k.received \/ ReviewsSuggestion(k)) = TRUE
        BY <2>2
      <4>2. k.provable = TRUE
        BY <3>1 DEF Case
      <4>3. QED
        BY <2>1, <2>2, <4>1, <4>2, Zenon DEF ApprovedCase
    <3>3. Acted(k, a) \in Case
      BY <3>2 DEF Case, CaseStates, Buckets
    <3>4. /\ Acted(k, a).state = "RECONCILED" /\ Acted(k, a).level = "VERIFIED"
          /\ ~Acted(k, a).residual /\ Acted(k, a).proved
          /\ Acted(k, a).received /\ Acted(k, a).bucket = "BANK_CONFIRMED"
      BY <3>2 DEF Case
    <3>5. QED
      BY <3>1, <3>3, <3>4, <1>1 DEF Sound, Past
  <2>3. CASE Verified(k) /\ ~ReviewsSuggestion(k)
    <3>1. k.proved /\ ~k.residual
      BY <2>3 DEF Verified
    <3>2. Acted(k, a) = [k EXCEPT !.state = "RECONCILED", !.level = "VERIFIED",
                                  !.residual = FALSE, !.proved = k.proved,
                                  !.suggestion = k.suggestion,
                                  !.received = k.received,
                                  !.bucket = IF k.received THEN "BANK_CONFIRMED"
                                                           ELSE "UNRESOLVED"]
      <4>1. (k.received \/ ReviewsSuggestion(k)) = k.received
        <5>1. k.received \in BOOLEAN
          BY DEF Case
        <5>2. QED
          BY <2>3, <5>1
      <4>2. QED
        BY <2>1, <2>3, <4>1, Zenon DEF ApprovedCase
    <3>3. Acted(k, a) \in Case
      BY <3>2 DEF Case, CaseStates, Buckets
    <3>4. /\ Acted(k, a).state = "RECONCILED" /\ Acted(k, a).level = "VERIFIED"
          /\ Acted(k, a).residual = FALSE /\ Acted(k, a).proved = k.proved
          /\ Acted(k, a).received = k.received
          /\ Acted(k, a).suggestion = k.suggestion
          /\ Acted(k, a).bucket = IF k.received THEN "BANK_CONFIRMED" ELSE "UNRESOLVED"
      BY <3>2 DEF Case
    <3>5. k.state = "RECONCILED" => Acted(k, a).bucket = k.bucket
      BY <3>4 DEF Sound
    <3>6. Sound(Acted(k, a))
      BY <3>1, <3>4 DEF Sound
    <3>7. QED
      BY <3>3, <3>4, <3>5, <3>6, <1>1 DEF Past
  <2>4. CASE ~Verified(k)
    <3>1. Acted(k, a) = [k EXCEPT !.state = "APPROVED_PENDING_VERIFICATION",
                                  !.bucket = "UNRESOLVED"]
      BY <2>1, <2>4 DEF ApprovedCase
    <3>2. k.state # "RECONCILED"
      BY <2>4 DEF Verified, ReviewsSuggestion, Sound
    <3>3. Acted(k, a) \in Case
      BY <3>1 DEF Case, CaseStates, Buckets
    <3>4. /\ Acted(k, a).state = "APPROVED_PENDING_VERIFICATION"
          /\ Acted(k, a).bucket = "UNRESOLVED"
          /\ Acted(k, a).suggestion = k.suggestion
      BY <3>1 DEF Case
    <3>5. k.suggestion # "verified"
      BY <3>2 DEF Sound
    <3>6. QED
      BY <3>2, <3>3, <3>4, <3>5, <1>1 DEF Sound, Past
  <2>5. QED
    BY <2>2, <2>3, <2>4
<1>2. CASE a = "reject"
  BY <1>2 DEF Acted, Refusable, Sound, Past, Case, CaseStates, Buckets
<1>3. CASE a = "defer"
  BY <1>3 DEF Acted, Refusable, Sound, Past, Case, CaseStates, Buckets
<1>4. CASE a = "assign"
  BY <1>4 DEF Acted, Sound, Past, Case, CaseStates, Buckets
<1>5. CASE a = "tasks"
  BY <1>5 DEF Acted, Sound, Past, Case, CaseStates, Buckets
<1>6. QED
  BY <1>1, <1>2, <1>3, <1>4, <1>5 DEF Actions

\* An analysis keeps an eligible case sound.
LEMMA AnalyzedSound ==
    ASSUME NEW k \in Case, Sound(k), Eligible(k),
           NEW n \in {SuggestedCase(k), RestoredCase(k)}
    PROVE  n \in Case /\ Sound(n)
<1>1. CASE n = SuggestedCase(k)
  BY <1>1 DEF SuggestedCase, Eligible, Sound, Case, CaseStates, Buckets
<1>2. CASE n = RestoredCase(k)
  BY <1>2 DEF RestoredCase, Eligible, Sound, Case, CaseStates, Buckets
<1>3. QED
  BY <1>1, <1>2

-------------------------------------------------------------------------------
(* Inv is inductive.                                                        *)

LEMMA InitInv == Init => Inv
<1> SUFFICES ASSUME Init PROVE Inv
  OBVIOUS
<1>1. \A c \in Cases : cases[c] \in Case /\ Sound(cases[c])
  BY OutcomesSound DEF Init
<1>2. cases \in [Cases -> Case]
  BY <1>1 DEF Init
<1>3. totals \in [Cases -> [state : CaseStates, bucket : Buckets]]
  BY <1>1 DEF Init, Projection, Case
<1>4. intent \in [Reviewers -> Intent]
  BY DEF Init, Intent, NoIntent, Actions, NoKey
<1>5. TypeOK
  BY <1>2, <1>3, <1>4, RequestsAssumption DEF Init, TypeOK
<1>6. Locked
  BY PeopleAssumption DEF Init, Locked, People
<1>7. Named /\ Honest
  BY DEF Init, Named, Honest, NoIntent, People, NoKey
<1>8. QED
  BY <1>1, <1>5, <1>6, <1>7 DEF Inv, Init, AggregatesMatchCases

\* The states of a reviewer's request.
ReviewerStates == {"idle", "viewing", "submitted", "answered", "unsure"}

\* What a reviewer does away from the database leaves the run as it is.
LEMMA Aside ==
    ASSUME Inv, NEW r \in Reviewers, NEW s \in ReviewerStates, Goto(r, s),
           UNCHANGED <<rowVars, lock, target, refused>>,
           requests' \in 0..MaxRequests,
           intent' \in [Reviewers -> Intent],
           \A q \in Reviewers \ {r} : intent'[q] = intent[q],
           Named', Honest'
    PROVE  Inv'
<1>1. TypeOK'
  BY DEF Inv, TypeOK, Goto, rowVars, ReviewerStates, People
<1>2. Locked'
  <2>1. \A p \in Analysts : pc'[p] = pc[p]
    BY PeopleAssumption DEF Inv, TypeOK, Goto, People
  <2>2. QED
    BY <2>1 DEF Inv, Locked, rowVars, Eligible
<1>3. (\A c \in Cases : Sound(cases[c]))' /\ AggregatesMatchCases'
  BY DEF Inv, rowVars, AggregatesMatchCases, Projection, Sound
<1>4. (\A c \in refused : Past(cases[c]) /\ cases[c].suggestion # "verified")'
  BY DEF Inv, rowVars, Past
<1>5. QED
  BY <1>1, <1>2, <1>3, <1>4 DEF Inv

\* Decide changes the case, and everybody whose view of it is no longer fresh has
\* looked at an older revision.
LEMMA DecideInv ==
    ASSUME Inv, NEW r \in Reviewers, Decide(r)
    PROVE  Inv'
<1> DEFINE c == intent[r].about
           k == Acted(cases[c], intent[r].action)
<1>1. /\ pc \in [People -> {"idle", "viewing", "submitted", "answered", "unsure", "analyzing"}]
      /\ r \in People /\ pc[r] = "submitted"
      /\ c \in Cases /\ cases[c] \in Case /\ Sound(cases[c])
      /\ intent[r] \in Intent /\ intent[r].action \in Actions
      /\ intent[r].stored = NoKey /\ lock = Nobody
      /\ intent[r].expected = revision /\ revision \in Nat
  BY DEF Inv, TypeOK, Named, Decide, Handling, Current, RowFree, People, Intent
<1>2. intent[r].action \in {"reject", "defer"} => Refusable(cases[c])
  BY DEF Decide, Refusing
<1> HIDE DEF c
<1>3. /\ k \in Case /\ Sound(k)
      /\ Past(cases[c]) => Past(k)
      /\ intent[r].action \in {"reject", "defer"} => Past(k) /\ k.state # "RECONCILED"
      /\ k.suggestion = "verified" =>
            cases[c].suggestion = "verified" \/ cases[c].state = "SUGGESTED_FOR_REVIEW"
  BY <1>1, <1>2, ActedSound
<1> HIDE DEF k
<1>4. cases' = [cases EXCEPT ![c] = k] /\ totals' = Projection(cases')
  BY DEF Decide, c, k, Recalculate
<1>5. /\ revision' = revision + 1
      /\ intent' = [Seen(c, k) EXCEPT ![r].decided = @ + 1, ![r].stored = intent[r].expected]
      /\ pc' = [pc EXCEPT ![r] = "answered"]
      /\ UNCHANGED <<lock, requests, target>>
  BY DEF Decide, Commit, Goto, c, k
<1>6. cases' \in [Cases -> Case] /\ \A d \in Cases : Sound(cases'[d])
  BY <1>1, <1>3, <1>4 DEF Inv, TypeOK
<1>7. AggregatesMatchCases' /\ totals' \in [Cases -> [state : CaseStates, bucket : Buckets]]
  BY <1>4, <1>6 DEF AggregatesMatchCases, Projection, Case
<1>8. \A q \in Reviewers :
        /\ intent'[q] \in Intent
        /\ intent'[q].about = intent[q].about /\ intent'[q].seen = intent[q].seen
        /\ intent'[q].expected = intent[q].expected
        /\ q # r => /\ intent'[q].stored = intent[q].stored
                    /\ intent'[q].decided = intent[q].decided
        /\ q = r => /\ intent'[q].stored = intent[q].expected
                    /\ intent'[q].decided = intent[q].decided + 1
  <2> TAKE q \in Reviewers
  <2>1. intent[q] \in Intent
    BY DEF Inv, TypeOK
  <2> DEFINE old == intent[q].fresh /\ (intent[q].about = c => k = cases[c])
  <2>2. Seen(c, k)[q] = [intent[q] EXCEPT !.fresh = old] /\ old \in BOOLEAN
    BY DEF Seen
  <2>3. Seen(c, k) = [t \in Reviewers |-> Seen(c, k)[t]]
    BY DEF Seen
  <2> HIDE DEF old
  <2>4. CASE q # r
    <3>1. intent'[q] = [intent[q] EXCEPT !.fresh = old]
      BY <1>5, <2>2, <2>3, <2>4
    <3>2. QED
      BY <3>1, <2>1, <2>2, <2>4 DEF Intent
  <2>5. CASE q = r
    <3>1. intent'[q] = [intent[q] EXCEPT !.fresh = old, !.decided = @ + 1,
                                         !.stored = intent[q].expected]
      <4>1. intent'[q] = [Seen(c, k)[q] EXCEPT !.decided = @ + 1,
                                               !.stored = intent[q].expected]
        BY <1>5, <2>3, <2>5
      <4>2. QED
        BY <4>1, <2>1, <2>2 DEF Intent
    <3>2. /\ intent'[q].about = intent[q].about /\ intent'[q].seen = intent[q].seen
          /\ intent'[q].expected = intent[q].expected
          /\ intent'[q].stored = intent[q].expected
          /\ intent'[q].decided = intent[q].decided + 1
      BY <3>1, <2>1 DEF Intent
    <3>3. intent'[q] \in Intent
      <4>1. intent'[q] = [about |-> intent[q].about, action |-> intent[q].action,
                          seen |-> intent[q].seen, expected |-> intent[q].expected,
                          stored |-> intent[q].expected, fresh |-> old,
                          decided |-> intent[q].decided + 1]
        BY <3>1, <2>1 DEF Intent
      <4>2. QED
        BY <4>1, <2>1, <2>2 DEF Intent
    <3>4. QED
      BY <3>2, <3>3, <2>5
  <2>6. QED
    BY <2>4, <2>5
<1>9. intent' \in [Reviewers -> Intent]
  <2>1. intent' = [t \in Reviewers |-> intent'[t]]
    BY <1>5 DEF Seen
  <2>2. QED
    BY <2>1, <1>8
<1>10. refused' \subseteq Cases
  BY <1>1 DEF Inv, TypeOK, Decide, c
<1>11. TypeOK'
  BY <1>1, <1>5, <1>6, <1>7, <1>9, <1>10 DEF Inv, TypeOK
<1>12. \A d \in refused' : Past(cases'[d]) /\ cases'[d].suggestion # "verified"
  <2> TAKE d \in refused'
  <2>1. d \in refused \/ (d = c /\ intent[r].action \in {"reject", "defer"})
    BY DEF Decide, Refusing, c
  <2>2. d \in Cases
    BY <1>10
  <2>3. CASE d # c
    BY <1>4, <2>1, <2>2, <2>3 DEF Inv, TypeOK
  <2>4. CASE d = c /\ d \in refused
    <3>1. Past(cases[c]) /\ cases[c].suggestion # "verified"
      BY <2>4 DEF Inv
    <3>2. cases'[c] = k
      BY <1>1, <1>4 DEF Inv, TypeOK
    <3>3. QED
      BY <1>3, <2>4, <3>1, <3>2 DEF Past
  <2>5. CASE d = c /\ intent[r].action \in {"reject", "defer"}
    <3>1. cases'[c] = k
      BY <1>1, <1>4 DEF Inv, TypeOK
    <3>2. QED
      BY <1>3, <2>5, <3>1 DEF Sound
  <2>6. QED
    BY <2>1, <2>3, <2>4, <2>5
<1>13. Locked'
  <2>1. \A p \in Analysts : pc'[p] = pc[p] /\ pc[p] # "analyzing"
    BY <1>1, <1>5, PeopleAssumption DEF Inv, Locked, People
  <2>2. QED
    BY <1>1, <1>5, <2>1 DEF Inv, Locked
<1>14. Named'
  <2>1. \A q \in Reviewers : intent[q].seen \in Nat /\ intent[q].seen <= revision
    BY DEF Inv, TypeOK, Named, Intent
  <2>2. \A q \in Reviewers : pc'[q] # "idle" => pc[q] # "idle"
    BY <1>1, <1>5 DEF People
  <2>3. revision' = revision + 1 /\ revision \in Nat
    BY <1>1, <1>5
  <2>4. \A q \in Reviewers : /\ intent'[q].about = intent[q].about
                             /\ intent'[q].seen = intent[q].seen
    BY <1>8
  <2>5. \A q \in Reviewers : /\ intent'[q].seen \in Nat /\ intent'[q].seen < revision'
                             /\ intent'[q].seen <= revision' /\ intent'[q].seen # revision'
    BY <2>1, <2>3, <2>4
  <2>6. \A q \in Reviewers : pc'[q] # "idle" => intent'[q].about \in Cases
    BY <2>2, <2>4 DEF Inv, Named
  <2>7. QED
    BY <2>5, <2>6 DEF Named
<1>15. Honest'
  <2>1. \A q \in Reviewers : pc'[q] = "submitted" => pc[q] = "submitted" /\ q # r
    <3>1. /\ \A q \in Reviewers : q # r => pc'[q] = pc[q]
          /\ pc'[r] = "answered"
      BY <1>1, <1>5 DEF People
    <3>2. QED
      BY <3>1
  <2>2. intent[r].seen \in Nat
    BY <1>1 DEF Intent
  <2> SUFFICES ASSUME NEW q \in Reviewers, q \notin Dialog
               PROVE  /\ pc'[q] = "submitted" => intent'[q].expected = intent'[q].seen
                      /\ intent'[q].stored \in {NoKey, intent'[q].seen}
                      /\ intent'[q].decided = IF intent'[q].stored = NoKey THEN 0 ELSE 1
    BY DEF Honest
  <2>3. CASE q # r
    BY <1>8, <2>1, <2>3 DEF Inv, Honest
  <2>4. CASE q = r
    <3>1. intent[r].expected = intent[r].seen /\ intent[r].decided = 0
      BY <1>1, <2>4 DEF Inv, Honest
    <3>2. /\ intent'[r].stored = intent[r].seen /\ intent'[r].seen = intent[r].seen
          /\ intent'[r].decided = 1
      BY <1>8, <3>1
    <3>3. QED
      BY <2>1, <2>2, <2>4, <3>2 DEF NoKey
  <2>5. QED
    BY <2>3, <2>4
<1>16. QED
  BY <1>6, <1>7, <1>11, <1>12, <1>13, <1>14, <1>15 DEF Inv

\* An analysis ends: nobody else has touched its case since it began.
LEMMA FinishAnalysisInv ==
    ASSUME Inv, NEW p \in Analysts, FinishAnalysis(p)
    PROVE  Inv'
<1> DEFINE c == target[p]
<1>1. /\ lock = p /\ pc[p] = "analyzing" /\ p \in People /\ p # Nobody
      /\ c \in Cases /\ cases[c] \in Case /\ Sound(cases[c]) /\ Eligible(cases[c])
      /\ revision \in Nat
  BY PeopleAssumption DEF Inv, TypeOK, Locked, FinishAnalysis, People
<1> HIDE DEF c
<1>2. PICK k \in {SuggestedCase(cases[c]), RestoredCase(cases[c])} :
        cases' = [cases EXCEPT ![c] = k] /\ intent' = Seen(c, k)
  BY DEF FinishAnalysis, c
<1>3. k \in Case /\ Sound(k)
  BY <1>1, AnalyzedSound
<1>4. /\ totals' = Projection(cases') /\ revision' = revision + 1
      /\ lock' = Nobody /\ target' = [target EXCEPT ![p] = NoCase]
      /\ pc' = [pc EXCEPT ![p] = "idle"] /\ UNCHANGED <<requests, refused>>
  BY DEF FinishAnalysis, Recalculate, AnalysisRevision, Goto
<1>5. cases' \in [Cases -> Case] /\ \A d \in Cases : Sound(cases'[d])
  BY <1>1, <1>2, <1>3 DEF Inv, TypeOK
<1>6. AggregatesMatchCases' /\ totals' \in [Cases -> [state : CaseStates, bucket : Buckets]]
  BY <1>4, <1>5 DEF AggregatesMatchCases, Projection, Case
<1>7. \A q \in Reviewers :
        /\ intent'[q] \in Intent
        /\ intent'[q].about = intent[q].about /\ intent'[q].seen = intent[q].seen
        /\ intent'[q].expected = intent[q].expected
        /\ intent'[q].stored = intent[q].stored /\ intent'[q].decided = intent[q].decided
  <2> TAKE q \in Reviewers
  <2> DEFINE old == intent[q].fresh /\ (intent[q].about = c => k = cases[c])
  <2>1. intent[q] \in Intent
    BY DEF Inv, TypeOK
  <2>2. intent'[q] = [intent[q] EXCEPT !.fresh = old] /\ old \in BOOLEAN
    BY <1>2 DEF Seen
  <2> HIDE DEF old
  <2>3. QED
    BY <2>1, <2>2 DEF Intent
<1>8. intent' \in [Reviewers -> Intent]
  <2>1. intent' = [q \in Reviewers |-> intent'[q]]
    BY <1>2 DEF Seen
  <2>2. QED
    BY <2>1, <1>7
<1>9. TypeOK'
  BY <1>1, <1>4, <1>5, <1>6, <1>8 DEF Inv, TypeOK
<1>10. \A d \in refused' : Past(cases'[d]) /\ cases'[d].suggestion # "verified"
  <2> TAKE d \in refused'
  <2>1. d \in Cases /\ d \in refused /\ d # c
    BY <1>1, <1>4 DEF Inv, TypeOK, Past, Eligible
  <2>2. QED
    BY <1>2, <2>1 DEF Inv, TypeOK
<1>11. Locked'
  <2> SUFFICES ASSUME NEW q \in Analysts
               PROVE  lock' # q /\ pc'[q] # "analyzing"
    BY DEF Locked
  <2>1. q # p => pc[q] # "analyzing" /\ pc'[q] = pc[q]
    BY <1>1, <1>4 DEF Inv, TypeOK, Locked, People
  <2>2. pc'[p] = "idle"
    BY <1>1, <1>4 DEF Inv, TypeOK
  <2>3. QED
    BY <1>4, <2>1, <2>2, PeopleAssumption
<1>12. \A q \in Reviewers : pc'[q] = pc[q]
  BY <1>4, PeopleAssumption DEF Inv, TypeOK, People
<1>13. Named'
  <2>1. \A q \in Reviewers : /\ intent[q].seen \in Nat /\ intent[q].seen <= revision
                             /\ intent'[q].about = intent[q].about
                             /\ intent'[q].seen = intent[q].seen
    BY <1>7 DEF Inv, TypeOK, Named, Intent
  <2>2. revision' = revision + 1 /\ revision \in Nat
    BY <1>1, <1>4
  <2>3. \A q \in Reviewers : intent'[q].seen <= revision' /\ intent'[q].seen # revision'
    BY <2>1, <2>2
  <2>4. QED
    BY <1>12, <2>1, <2>3 DEF Inv, Named
<1>14. Honest'
  BY <1>7, <1>12 DEF Inv, Honest
<1>15. QED
  BY <1>5, <1>6, <1>9, <1>10, <1>11, <1>13, <1>14 DEF Inv

\* Steps that leave cases, revision and reviewers alone.
LEMMA Untouched ==
    ASSUME Inv, TypeOK', Locked', UNCHANGED <<revision, cases, totals, intent, refused>>,
           \A q \in Reviewers : pc'[q] = pc[q]
    PROVE  Inv'
<1>1. Named' /\ Honest'
  BY DEF Inv, Named, Honest
<1>2. QED
  BY <1>1 DEF Inv, AggregatesMatchCases, Projection, Sound, Past

LEMMA NextInv == Inv /\ [Next]_vars => Inv'
<1> SUFFICES ASSUME Inv, [Next]_vars PROVE Inv'
  OBVIOUS
<1>1. ASSUME NEW r \in Reviewers, Review(r)
      PROVE  Inv'
  <2>1. \A q \in Reviewers : intent[q] \in Intent /\ q \in People
    BY DEF Inv, TypeOK, People
  <2>2. \A q \in Reviewers : q # r => \A s \in ReviewerStates : Goto(r, s) => pc'[q] = pc[q]
    BY <2>1 DEF Inv, TypeOK, Goto
  <2>3. \A s \in ReviewerStates : Goto(r, s) => pc'[r] = s
    BY <2>1 DEF Inv, TypeOK, Goto
  <2>4. NoIntent \in Intent
    BY DEF NoIntent, Intent, Actions, NoKey
  <2>5. requests \in 0..MaxRequests /\ (Send => requests' \in 0..MaxRequests)
    BY RequestsAssumption DEF Inv, TypeOK, Send
  <2>6. ASSUME Done(r), UNCHANGED <<rowVars, lock, requests, target, refused>>
        PROVE  Inv'
    <3>1. intent' = [intent EXCEPT ![r] = NoIntent] /\ Goto(r, "idle") /\ pc'[r] = "idle"
      BY <2>3, <2>6 DEF Done, ReviewerStates
    <3>2. /\ intent' \in [Reviewers -> Intent]
          /\ intent'[r] = NoIntent
          /\ \A q \in Reviewers \ {r} : intent'[q] = intent[q] /\ pc'[q] = pc[q]
      BY <2>2, <2>4, <3>1 DEF Inv, TypeOK, ReviewerStates
    <3>3. Named'
      BY <2>6, <3>1, <3>2 DEF Inv, TypeOK, Named, rowVars, NoIntent
    <3>4. Honest'
      BY <3>1, <3>2 DEF Inv, Honest, NoIntent, NoKey
    <3>5. QED
      BY <2>5, <2>6, <3>1, <3>2, <3>3, <3>4, Aside DEF ReviewerStates
  <2>7. ASSUME NEW s \in ReviewerStates, Goto(r, s), s # "submitted", pc[r] # "idle",
               UNCHANGED <<rowVars, lock, requests, intent, target, refused>>
        PROVE  Inv'
    <3>1. Named'
      BY <2>2, <2>3, <2>7 DEF Inv, Named, rowVars
    <3>2. Honest'
      BY <2>2, <2>3, <2>7 DEF Inv, Honest
    <3>3. QED
      BY <2>5, <2>7, <3>1, <3>2, Aside DEF Inv, TypeOK
  <2>8. ASSUME NEW c \in Cases, NEW a \in Actions, Look(r, c, a)
        PROVE  Inv'
    <3>1. /\ intent' = [intent EXCEPT ![r] =
                          [NoIntent EXCEPT !.about = c, !.action = a, !.seen = revision]]
          /\ Goto(r, "viewing") /\ pc'[r] = "viewing"
          /\ UNCHANGED <<rowVars, lock, requests, target, refused>>
      BY <2>3, <2>8 DEF Look, ReviewerStates
    <3>2. /\ revision \in Nat /\ revision' = revision
          /\ intent'[r] \in Intent /\ intent'[r].about = c /\ intent'[r].seen = revision
          /\ intent'[r].fresh /\ intent'[r].stored = NoKey /\ intent'[r].decided = 0
      BY <3>1 DEF Inv, TypeOK, NoIntent, Intent, NoKey, rowVars
    <3>3. /\ intent' \in [Reviewers -> Intent]
          /\ \A q \in Reviewers \ {r} : intent'[q] = intent[q] /\ pc'[q] = pc[q]
      BY <2>2, <3>1, <3>2 DEF Inv, TypeOK, ReviewerStates
    <3>4. Named'
      BY <3>1, <3>2, <3>3 DEF Inv, Named
    <3>5. Honest'
      BY <3>1, <3>2, <3>3 DEF Inv, Honest
    <3>6. QED
      BY <2>5, <3>1, <3>3, <3>4, <3>5, Aside DEF ReviewerStates
  <2>9. CASE Submit(r)
    <3>1. /\ intent' = [intent EXCEPT ![r].expected =
                           IF r \in Dialog THEN revision ELSE intent[r].seen]
          /\ Goto(r, "submitted") /\ pc'[r] = "submitted" /\ pc[r] # "idle"
          /\ UNCHANGED <<rowVars, lock, target, refused>> /\ Send
      BY <2>3, <2>9 DEF Submit, ReviewerStates
    <3>2. /\ revision \in Nat /\ revision' = revision
          /\ intent'[r] \in Intent
          /\ intent'[r].about = intent[r].about /\ intent'[r].seen = intent[r].seen
          /\ intent'[r].fresh = intent[r].fresh /\ intent'[r].stored = intent[r].stored
          /\ intent'[r].decided = intent[r].decided
          /\ r \notin Dialog => intent'[r].expected = intent[r].seen
      BY <2>1, <3>1 DEF Inv, TypeOK, Intent, rowVars
    <3>3. /\ intent' \in [Reviewers -> Intent]
          /\ \A q \in Reviewers \ {r} : intent'[q] = intent[q] /\ pc'[q] = pc[q]
      BY <2>2, <3>1, <3>2 DEF Inv, TypeOK, ReviewerStates
    <3>4. Named'
      BY <3>1, <3>2, <3>3 DEF Inv, Named
    <3>5. Honest'
      BY <3>1, <3>2, <3>3 DEF Inv, Honest
    <3>6. QED
      BY <2>5, <3>1, <3>3, <3>4, <3>5, Aside DEF ReviewerStates
  <2>10. CASE KeyReused(r)
    <3>1. /\ intent' = [intent EXCEPT ![r].stored = NoKey]
          /\ Goto(r, "unsure") /\ pc'[r] = "unsure" /\ pc[r] = "submitted"
          /\ UNCHANGED <<rowVars, lock, requests, target, refused>>
          /\ intent[r].stored \notin {NoKey, intent[r].expected}
      BY <2>3, <2>10 DEF KeyReused, ReviewerStates
    <3>2. r \in Dialog
      BY <3>1 DEF Inv, Honest
    <3>3. /\ revision' = revision
          /\ intent'[r] \in Intent
          /\ intent'[r].about = intent[r].about /\ intent'[r].seen = intent[r].seen
          /\ intent'[r].fresh = intent[r].fresh
      BY <2>1, <3>1 DEF Inv, TypeOK, Intent, rowVars
    <3>4. /\ intent' \in [Reviewers -> Intent]
          /\ \A q \in Reviewers \ {r} : intent'[q] = intent[q] /\ pc'[q] = pc[q]
      BY <2>2, <3>1, <3>3 DEF Inv, TypeOK, ReviewerStates
    <3>5. Named'
      BY <3>1, <3>3, <3>4 DEF Inv, Named
    <3>6. Honest'
      BY <3>2, <3>4 DEF Inv, Honest
    <3>7. QED
      BY <2>5, <3>1, <3>4, <3>5, <3>6, Aside DEF ReviewerStates
  <2>11. CASE Decide(r)
    BY <2>11, DecideInv
  <2>12. CASE GiveUp(r) \/ Answered(r) \/ Stale(r) \/ Invalid(r)
    BY <2>6, <2>12 DEF GiveUp, Answered, Stale, Invalid
  <2>13. CASE Fail(r)
    BY <2>7, <2>13 DEF Fail, ReviewerStates
  <2>14. CASE Replay(r)
    BY <2>7, <2>14 DEF Replay, ReviewerStates
  <2>15. QED
    BY <1>1, <2>8, <2>9, <2>10, <2>11, <2>12, <2>13, <2>14 DEF Review, Handle
<1>2. ASSUME NEW p \in Analysts, NEW c \in Cases, AnalyzeIneligible(p, c)
      PROVE  Inv'
  <2>1. /\ UNCHANGED <<revision, cases, totals, lock, pc, intent, target, refused>>
        /\ requests' \in 0..MaxRequests
    BY <1>2, RequestsAssumption
    DEF Inv, TypeOK, AggregatesMatchCases, AnalyzeIneligible, Send
  <2>2. TypeOK'
    BY <2>1 DEF Inv, TypeOK
  <2>3. Locked'
    BY <2>1 DEF Inv, Locked
  <2>4. QED
    BY <2>1, <2>2, <2>3, Untouched
<1>3. ASSUME NEW p \in Analysts, NEW c \in Cases, BeginAnalysis(p, c)
      PROVE  Inv'
  <2>1. /\ UNCHANGED <<revision, cases, totals, intent, refused>>
        /\ requests' \in 0..MaxRequests
        /\ lock = Nobody /\ lock' = p /\ target' = [target EXCEPT ![p] = c]
        /\ pc' = [pc EXCEPT ![p] = "analyzing"] /\ Eligible(cases[c])
    BY <1>3, RequestsAssumption DEF Inv, TypeOK, BeginAnalysis, Send, RowFree, Goto, rowVars
  <2>2. TypeOK'
    BY <2>1 DEF Inv, TypeOK, People
  <2>3. Locked'
    <3> SUFFICES ASSUME NEW q \in Analysts
                 PROVE  /\ lock' = q <=> pc'[q] = "analyzing"
                        /\ pc'[q] = "analyzing" => /\ target'[q] \in Cases
                                                   /\ Eligible(cases[target'[q]])
      BY <2>1 DEF Locked, Eligible
    <3>1. CASE q = p
      BY <2>1, <3>1 DEF Inv, TypeOK, People
    <3>2. CASE q # p
      BY <2>1, <3>2, PeopleAssumption DEF Inv, TypeOK, Locked, People
    <3>3. QED
      BY <3>1, <3>2
  <2>4. \A q \in Reviewers : pc'[q] = pc[q]
    BY <2>1, PeopleAssumption DEF Inv, TypeOK, People
  <2>5. QED
    BY <2>1, <2>2, <2>3, <2>4, Untouched
<1>4. ASSUME NEW p \in Analysts, AnalysisDies(p)
      PROVE  Inv'
  <2>1. /\ UNCHANGED <<revision, cases, totals, intent, refused, requests>>
        /\ lock = p /\ lock' = Nobody /\ target' = [target EXCEPT ![p] = NoCase]
        /\ pc' = [pc EXCEPT ![p] = "idle"]
    BY <1>4 DEF Inv, Locked, AnalysisDies, Goto, rowVars
  <2>2. TypeOK'
    BY <2>1 DEF Inv, TypeOK, People
  <2>3. Locked'
    <3> SUFFICES ASSUME NEW q \in Analysts
                 PROVE  lock' # q /\ pc'[q] # "analyzing"
      BY DEF Locked
    <3>1. CASE q = p
      BY <2>1, <3>1, PeopleAssumption DEF Inv, TypeOK, People
    <3>2. CASE q # p
      BY <2>1, <3>2, PeopleAssumption DEF Inv, TypeOK, Locked, People
    <3>3. QED
      BY <3>1, <3>2
  <2>4. \A q \in Reviewers : pc'[q] = pc[q]
    BY <2>1, PeopleAssumption DEF Inv, TypeOK, People
  <2>5. QED
    BY <2>1, <2>2, <2>3, <2>4, Untouched
<1>5. CASE UNCHANGED vars
  <2>1. UNCHANGED <<revision, cases, totals, lock, pc, requests, intent, target, refused>>
    BY <1>5 DEF vars, rowVars
  <2>2. TypeOK' /\ Locked'
    BY <2>1 DEF Inv, TypeOK, Locked
  <2>3. QED
    BY <2>1, <2>2, Untouched
<1>6. QED
  BY <1>1, <1>2, <1>3, <1>4, <1>5, FinishAnalysisInv DEF Next, Analyze

LEMMA Inductive == Spec => []Inv
<1>1. QED
  BY InitInv, NextInv, PTL DEF Spec

-------------------------------------------------------------------------------
(* The theorems.                                                            *)

\* Type correctness, whoever reviews and analyzes whatever.
THEOREM TypeCorrect == Spec => []TypeOK
<1>1. Inv => TypeOK
  BY DEF Inv
<1>2. QED
  BY <1>1, Inductive, PTL

\* Metrics and cash position always are those of the cases on record.
THEOREM AggregatesAreCurrent == Spec => []AggregatesMatchCases
<1>1. Inv => AggregatesMatchCases
  BY DEF Inv
<1>2. QED
  BY <1>1, Inductive, PTL

\* Who looked at the present revision has seen the case as it is, whichever client
\* they use: what makes comparing revisions a sound check.
THEOREM RevisionIsSound == Spec => []RevisionIdentifiesContent
<1>1. Inv => RevisionIdentifiesContent
  BY DEF Inv, Named, RevisionIdentifiesContent
<1>2. QED
  BY <1>1, Inductive, PTL

\* Confirmed cash and reconciled cases have their proof, under any sequence of
\* approvals, refusals and analyses.
THEOREM CashIsProved == Spec => []ConfirmedCashIsProved
<1>1. Inv => ConfirmedCashIsProved
  BY DEF Inv, Sound, ConfirmedCashIsProved
<1>2. QED
  BY <1>1, Inductive, PTL

\* A refused suggestion never becomes verified evidence.
THEOREM RefusalIsFinal == Spec => []RefusedNeverPromoted
<1>1. Inv => RefusedNeverPromoted
  BY DEF Inv, RefusedNeverPromoted
<1>2. QED
  BY <1>1, Inductive, PTL

\* Reviewers whose client names the revision they looked at record a decision once,
\* however often answers are lost and requests repeated.
THEOREM InformedOnce == Spec => []InformedDecideOnce
<1>1. Inv => InformedDecideOnce
  BY DEF Inv, Honest, InformedDecideOnce
<1>2. QED
  BY <1>1, Inductive, PTL

\* And they only ever decide on a case that is as they saw it.
THEOREM InformedSee == Spec => InformedDecideOnWhatTheySaw
<1> DEFINE Informed ==
      \A r \in Reviewers \ Dialog :
         intent'[r].decided > intent[r].decided => intent[r].fresh
<1>1. Inv /\ [Next]_vars => Informed
  <2> SUFFICES ASSUME Inv, [Next]_vars, NEW r \in Reviewers, r \notin Dialog,
                      intent'[r].decided > intent[r].decided
               PROVE  intent[r].fresh
    OBVIOUS
  <2>1. intent[r] \in Intent /\ NoIntent.decided = 0
    BY DEF Inv, TypeOK, NoIntent
  <2>2. \A c, k : Seen(c, k)[r].decided = intent[r].decided
    BY <2>1 DEF Seen, Intent
  <2>3. ASSUME NEW q \in Reviewers, Done(q)
        PROVE  FALSE
    <3>1. intent'[r] \in {intent[r], NoIntent}
      BY <2>3 DEF Inv, TypeOK, Done
    <3>2. QED
      BY <2>1, <3>1 DEF Intent
  <2>4. ASSUME NEW q \in Reviewers, NEW n \in Intent, n.decided = 0 \/ n.decided = intent[q].decided,
               intent' = [intent EXCEPT ![q] = n]
        PROVE  FALSE
    <3>1. intent'[r] = IF r = q THEN n ELSE intent[r]
      BY <2>4 DEF Inv, TypeOK
    <3>2. QED
      BY <2>1, <2>4, <3>1 DEF Intent
  <2>5. \A q \in Reviewers : ~Submit(q)
    <3> SUFFICES ASSUME NEW q \in Reviewers, Submit(q) PROVE FALSE
      OBVIOUS
    <3> DEFINE n == [intent[q] EXCEPT !.expected = IF q \in Dialog THEN revision ELSE intent[q].seen]
    <3>1. n \in Intent /\ n.decided = intent[q].decided
      BY DEF Inv, TypeOK, Intent
    <3>2. intent' = [intent EXCEPT ![q] = n]
      BY DEF Submit
    <3>3. QED
      BY <2>4, <3>1, <3>2
  <2>6. \A q \in Reviewers : ~KeyReused(q)
    <3> SUFFICES ASSUME NEW q \in Reviewers, KeyReused(q) PROVE FALSE
      OBVIOUS
    <3> DEFINE n == [intent[q] EXCEPT !.stored = NoKey]
    <3>1. n \in Intent /\ n.decided = intent[q].decided
      BY DEF Inv, TypeOK, Intent
    <3>2. intent' = [intent EXCEPT ![q] = n]
      BY DEF KeyReused
    <3>3. QED
      BY <2>4, <3>1, <3>2
  <2>7. \A q \in Reviewers, c \in Cases, a \in Actions : ~Look(q, c, a)
    <3> SUFFICES ASSUME NEW q \in Reviewers, NEW c \in Cases, NEW a \in Actions, Look(q, c, a)
                 PROVE  FALSE
      OBVIOUS
    <3> DEFINE n == [NoIntent EXCEPT !.about = c, !.action = a, !.seen = revision]
    <3>1. n \in Intent /\ n.decided = 0
      BY DEF Inv, TypeOK, Intent, NoIntent, NoKey
    <3>2. intent' = [intent EXCEPT ![q] = n]
      BY DEF Look
    <3>3. QED
      BY <2>4, <3>1, <3>2
  <2>8. \A p \in Analysts : ~FinishAnalysis(p)
    BY <2>1, <2>2 DEF FinishAnalysis, Intent
  <2>9. UNCHANGED intent => FALSE
    BY <2>1 DEF Intent
  <2>10. PICK q \in Reviewers : Decide(q)
    BY <2>3, <2>5, <2>6, <2>7, <2>8, <2>9
    DEF Next, Review, Handle, Analyze, GiveUp, Answered, Fail, Replay, Stale, Invalid,
        AnalyzeIneligible, BeginAnalysis, AnalysisDies, vars
  <2>11. q = r
    <3> SUFFICES ASSUME q # r PROVE FALSE
      OBVIOUS
    <3>1. \E c, k : intent'[r] = Seen(c, k)[r]
      BY <2>10 DEF Decide, Commit, Seen
    <3>2. QED
      BY <2>1, <2>2, <3>1 DEF Intent
  <2>12. QED
    BY <2>10, <2>11 DEF Inv, Honest, Named, Decide, Handling, Current
<1>2. QED
  BY <1>1, Inductive, PTL DEF Spec, InformedDecideOnWhatTheySaw

\* Nothing reviewers or analyses do takes back a reconciliation or confirmed cash.
THEOREM ReconciliationIsFinal == Spec => ReconciledIsFinal
<1> DEFINE Final == \A c \in Cases : cases[c].state = "RECONCILED" =>
                       /\ cases'[c].state = "RECONCILED"
                       /\ cases'[c].bucket = cases[c].bucket
<1>1. Inv /\ [Next]_vars => Final
  <2> SUFFICES ASSUME Inv, [Next]_vars, NEW c \in Cases, cases[c].state = "RECONCILED"
               PROVE  /\ cases'[c].state = "RECONCILED"
                      /\ cases'[c].bucket = cases[c].bucket
    OBVIOUS
  <2>1. cases[c] \in Case /\ Sound(cases[c])
    BY DEF Inv, TypeOK
  <2>2. ASSUME NEW r \in Reviewers, Decide(r)
        PROVE  /\ cases'[c].state = "RECONCILED"
               /\ cases'[c].bucket = cases[c].bucket
    <3>1. CASE c = intent[r].about
      <4>1. intent[r].action \in Actions
        BY DEF Inv, TypeOK, Intent
      <4>2. intent[r].action \in {"reject", "defer"} => Refusable(cases[c])
        BY <2>2, <3>1 DEF Decide, Refusing
      <4>3. /\ Acted(cases[c], intent[r].action).state = "RECONCILED"
            /\ Acted(cases[c], intent[r].action).bucket = cases[c].bucket
        BY <2>1, <4>1, <4>2, ActedSound
      <4>4. cases'[c] = Acted(cases[c], intent[r].action)
        BY <2>2, <3>1 DEF Inv, TypeOK, Decide
      <4>5. QED
        BY <4>3, <4>4
    <3>2. CASE c # intent[r].about
      BY <2>2, <3>2 DEF Inv, TypeOK, Decide
    <3>3. QED
      BY <3>1, <3>2
  <2>3. ASSUME NEW p \in Analysts, FinishAnalysis(p)
        PROVE  cases'[c] = cases[c]
    <3>1. target[p] # c
      BY <2>3 DEF Inv, Locked, FinishAnalysis, Eligible
    <3>2. QED
      BY <2>3, <3>1 DEF Inv, TypeOK, FinishAnalysis
  <2>4. CASE UNCHANGED cases
    BY <2>4
  <2>5. UNCHANGED cases \/ (\E r \in Reviewers : Decide(r)) \/ (\E p \in Analysts : FinishAnalysis(p))
    BY DEF Next, Review, Handle, Analyze, Look, Submit, GiveUp, Answered, Fail, Replay,
           KeyReused, Stale, Invalid, AnalyzeIneligible, BeginAnalysis, AnalysisDies,
           vars, rowVars
  <2>6. QED
    BY <2>2, <2>3, <2>4, <2>5
<1>2. QED
  BY <1>1, Inductive, PTL DEF Spec, ReconciledIsFinal

===============================================================================

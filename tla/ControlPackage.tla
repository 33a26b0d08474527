----------------------------- MODULE ControlPackage -----------------------------
(***************************************************************************)
(* What leaves the system: the control package of a completed run          *)
(* (services/reporting/control_package.py) and the verifier that looks at  *)
(* it without the program (verify.py).  In between, reviewers approve,     *)
(* reject and defer cases (services/reconciliation/review_service.py),     *)
(* here with the records and the evidence they are about: module Review    *)
(* has the decisions of several people, and only the outcome of each.      *)
(*                                                                         *)
(* Package, analyses and decisions exclude each other by the row lock of   *)
(* the run.  Digests of what the package holds itself are left out.        *)
(***************************************************************************)
EXTENDS Analysis

-------------------------------------------------------------------------------
(* Review.                                                                  *)

\* The suggestion an approval is about, if it is about one.
Reviewing(c) ==
    {x.edge : x \in {y \in suggestions : y.case = c.id /\ c.state = "SUGGESTED_FOR_REVIEW"}}

\* Rebuilding the evidence of the case alone: no receipt is allocated more than it is.
Fits(case, evidence) ==
    LET limited == {r \in case.records : r.type \in {"settlements", "bank_transactions"}
                                           /\ r.amount # Null}
        Used(id) == {e \in evidence : e.relationship = "settlement_bank"
                                        /\ id \in {e.source, e.target}}
    IN  \A id \in {r.id : r \in limited} :
            SumFunction([e \in Used(id) |-> Abs(e.amount)]) <= Abs(LastWith(limited, id).amount)

\* _reverify_suggestion.
Reverified(c) ==
    LET case == Snapshot(c.id)
        evidence == EvidenceOf(c.id) \cup Reviewing(c)
    IN  /\ IF c.state = "SUGGESTED_FOR_REVIEW" THEN Cardinality(Reviewing(c)) = 1
                                               ELSE c.residual = 0
        /\ Fits(case, evidence)
        /\ VerifyCase(case, evidence, FALSE) = {}

\* A promotion that does not record that the invariants hold now.
InvariantsAsBefore(c) == c.failed

\* _promote_suggestion records the invariants; approval without a suggestion does not.
RecordedInvariants(c) == IF Reviewing(c) # {} THEN {} ELSE c.failed

ApprovedRow(c) ==
    LET received == c.receipt = "CONFIRMED" \/ Reviewing(c) # {}
    IN  IF Reverified(c)
        THEN [c EXCEPT !.state = "RECONCILED", !.level = "VERIFIED", !.reviewed = TRUE,
                       !.net = Total(Snapshot(c.id).records, "settlements"),
                       !.residual = 0, !.atRisk = 0, !.failed = RecordedInvariants(c),
                       !.receipt = IF Reviewing(c) # {} THEN "CONFIRMED" ELSE @,
                       !.bucket = IF received THEN "BANK_CONFIRMED" ELSE "UNRESOLVED"]
        ELSE [c EXCEPT !.state = "APPROVED_PENDING_VERIFICATION", !.reviewed = TRUE,
                       !.bucket = "UNRESOLVED"]

RefusedRow(c, state) == [c EXCEPT !.state = state, !.bucket = "UNRESOLVED", !.reviewed = TRUE]

\* recalculate_aggregates, over the rows as they are now.
RecalculateAggregates(rows) ==
    cash' = CalculateCashPosition(
                {[Snapshot(c.id) EXCEPT !.state = c.state, !.bucket = c.bucket, !.net = c.net,
                                        !.residual = c.residual] : c \in rows})

\* A decision about c: the case becomes "row", "promoted" becomes verified evidence.
Decide(c, row, promoted) ==
    /\ stage = "analyzed" /\ Idle
    /\ requests < MaxRequests
    /\ requests' = requests + 1
    /\ result' = [result EXCEPT !.cases = (@ \ {c}) \cup {row},
                                !.edges = @ \cup {[edge |-> e, case |-> c.id] : e \in promoted}]
    /\ suggestions' = {x \in suggestions : x.case = c.id => x.edge \notin promoted}
    /\ RecalculateAggregates(result'.cases)
    /\ UNCHANGED <<files, stage, records, cases, matchingVars, todo, asking>>

Approve(c) == Decide(c, ApprovedRow(c), IF Reverified(c) THEN Reviewing(c) ELSE {})

TurnDown(c, state) ==
    /\ c.state # "RECONCILED"
    /\ Decide(c, RefusedRow(c, state), {})

ReviewCase ==
    \E c \in result.cases :
        Approve(c) \/ \E state \in {"REJECTED_SUGGESTION", "DEFERRED"} : TurnDown(c, state)

ControlNext == AnalysisNext \/ ReviewCase

ControlSpec == AnalysisInit /\ [][ControlNext]_allVars /\ WF_allVars(Analyze)

-------------------------------------------------------------------------------
(* The package.                                                             *)

\* Rows are stored under the type they were detected as, files under the type they
\* were uploaded as.  The values of a row are kept under the names of its columns.
PackagedRows(type) ==
    UNION {{[number |-> RowNumber(i), columns |-> files[t].columns,
             values |-> RawValues(files[t].rows[i])] : i \in DOMAIN files[t].rows} :
           t \in {u \in TypeSet : DetectedType(files[u], u) = type}}

PackagedCase(c) ==
    [id |-> c.id, state |-> c.state, net |-> c.net, gross |-> c.gross, residual |-> c.residual,
     bucket |-> c.bucket, contribution |-> Contribution(c), failed |-> c.failed]

BuildControlPackage ==
    [sources |-> [t \in TypeSet |-> [content |-> files[t], rows |-> PackagedRows(t)]],
     totalCases |-> Cardinality(cases), cases |-> {PackagedCase(c) : c \in result.cases},
     cash |-> cash]

-------------------------------------------------------------------------------
(* The verifier has its own reading of files, cases and cash.               *)

\* It reads every cell the file has, and none that it has not.
SourceErrors(source) ==
    LET numbers == {r.number : r \in source.rows}
    IN  (IF Cardinality(source.rows) # Len(source.content.rows)
            THEN {"row coverage mismatch"} ELSE {})
        \cup (IF Cardinality(numbers) # Cardinality(source.rows)
                THEN {"duplicate row disposition"} ELSE {})
        \cup (IF \E r \in source.rows : /\ r.number - 1 \in DOMAIN source.content.rows
                                        /\ \/ r.columns # source.content.columns
                                           \/ r.values # source.content.rows[r.number - 1]
                THEN {"row differs from source bytes"} ELSE {})

VerifiedContribution(c) ==
    IF c.bucket \in {"BANK_CONFIRMED", "SETTLEMENT_CONFIRMED_IN_TRANSIT", "EXPECTED_SETTLEMENT"}
    THEN c.net
    ELSE IF c.residual # 0 THEN Abs(c.residual)
    ELSE IF c.net # 0 THEN Abs(c.net) ELSE Abs(c.gross)

CaseErrors(c) ==
    (IF c.contribution # VerifiedContribution(c) THEN {"incorrect cash contribution"} ELSE {})
    \cup (IF c.state = "RECONCILED" /\ c.residual # 0
            THEN {"reconciled case has residual"} ELSE {})
    \cup (IF c.state = "RECONCILED" /\ c.failed # {}
            THEN {"reconciled case lacks passing verification"} ELSE {})

CashErrors(package) ==
    LET In(bucket) == {c \in package.cases : c.bucket = bucket}
        Sum(bucket) == SumFunction([c \in In(bucket) |-> VerifiedContribution(c)])
    IN  (IF \E b \in CashBuckets : package.cash.buckets[b] # Sum(b)
            THEN {"cash bucket sum mismatch"} ELSE {})
        \cup (IF \E b \in CashBuckets : package.cash.members[b] # {c.id : c \in In(b)}
                THEN {"cash bucket membership mismatch"} ELSE {})
        \cup (IF package.cash.safe # Sum("BANK_CONFIRMED")
                THEN {"confirmed movement mismatch"} ELSE {})

VerifyPackage(package) ==
    UNION {SourceErrors(package.sources[t]) : t \in TypeSet}
    \cup (IF \/ Cardinality(package.cases) # package.totalCases
             \/ Cardinality({c.id : c \in package.cases}) # package.totalCases
          THEN {"case count or identity mismatch"} ELSE {})
    \cup UNION {CaseErrors(c) : c \in package.cases}
    \cup CashErrors(package)

-------------------------------------------------------------------------------
(* Properties.                                                              *)

\* A file that was read as another type than it was uploaded as.
Misfiled == \E t \in TypeSet : files[t].rows # <<>> /\ DetectedType(files[t], t) # t

\* A row with more or fewer cells than columns.
Ragged == \E t \in TypeSet : \E i \in DOMAIN files[t].rows : files[t].rows[i].cells # "all"

\* "An exported control package can be checked without the application runtime"
\* (docs/HARDENING_2026-09-05.md): whatever the input, the model's answers and the
\* decisions of reviewers, the package of a completed run passes the verifier, as long
\* as every file is what it was uploaded as and every row fills its columns; else the
\* verifier says so.
PackagesVerify ==
    stage = "analyzed" /\ Idle =>
        (VerifyPackage(BuildControlPackage) = {} <=> ~Misfiled /\ ~Ragged)

=============================================================================

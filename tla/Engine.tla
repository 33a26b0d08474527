---------------------------------- MODULE Engine ----------------------------------
(***************************************************************************)
(* One reconciliation from the uploaded files to the persisted result:     *)
(* validate_run, run_reconciliation (services/reconciliation/orchestrator  *)
(* .py) and _persist_result (run_service.py).                              *)
(*                                                                         *)
(* The stages follow each other in one thread; what varies is the input.   *)
(* Whether and when the run reaches them, who may execute it and what      *)
(* becomes of a failure is module RunExecution.                            *)
(***************************************************************************)
EXTENDS CashPosition, Matching

CONSTANTS
    Datasets,   \* the five files of a run, by source type
    AsOf        \* the day cash is looked at

\* Every identifier that is read is one of Entities.
ASSUME DatasetsAssumption ==
    \A f \in Datasets :
        /\ f \in [TypeSet -> SourceFile]
        /\ \A t \in TypeSet : \A r \in IngestFile(f[t], t) : EntityId(r) \in Entities
ASSUME AsOfAssumption == AsOf \in Int

VARIABLES
    files,      \* the uploaded files
    stage,
    records,    \* normalized records
    cases,
    cash,
    result      \* what is persisted

engineVars == <<files, stage, records, cases, cash, result>>
vars == <<engineVars, matchingVars>>

Nothing == [cases |-> {}, edges |-> {}, candidates |-> {}, issues |-> {}]

Init ==
    /\ files \in Datasets
    /\ stage = "uploaded"
    /\ records = {} /\ cases = {} /\ result = Nothing
    /\ cash = CalculateCashPosition({})
    /\ MatchingInit

-------------------------------------------------------------------------------
\* validate_run: a file that is invalid as a whole stops the run, a row does not, unless
\* reading it raises: then every validation ends in an error that leaves the run as it is.
Validate ==
    /\ stage = "uploaded"
    /\ \A t \in TypeSet : ~Raises(files[t])
    /\ stage' = IF \E t \in TypeSet : FileQuality(files[t], t) = "INVALID"
                   THEN "validation_failed" ELSE "ingestion"
    /\ UNCHANGED <<files, records, cases, cash, result, matchingVars>>

IngestedRows == UNION {IngestFile(files[t], t) : t \in TypeSet}

Normalize ==
    /\ stage = "ingestion"
    /\ stage' = "candidate_generation"
    /\ records' = NormalizeRecords(IngestedRows)
    /\ UNCHANGED <<files, cases, cash, result, matchingVars>>

\* An identifier that several records have is available as the last of them says.
AvailableAmounts(rs) ==
    LET limited == {r \in rs : r.type \in {"settlements", "bank_transactions"}
                                 /\ r.amount # Null}
    IN  [e \in Entities |-> IF Known(limited, e) THEN Abs(LastWith(limited, e).amount)
                                                 ELSE Unlimited]

InvalidEntities(rs) == {r.id : r \in {q \in rs : q.quality = "INVALID"}}

Generate ==
    /\ stage = "candidate_generation"
    /\ stage' = "matching_rules"
    /\ BeginMatching(GenerateCandidates(records), InvalidEntities(records),
                     AvailableAmounts(records))
    /\ UNCHANGED <<files, records, cases, cash, result>>

Match ==
    /\ stage = "matching_rules"
    /\ MatchingStep
    /\ UNCHANGED engineVars

Overallocated ==
    \E e \in Entities : available[e] # Unlimited /\ allocated["settlement_bank", e] > available[e]

Classify ==
    /\ stage = "matching_rules" /\ Matched
    /\ stage' = "cash_position"
    /\ cases' = {VerifiedCase(c, edges, Overallocated) :
                    c \in BuildCases(records, candidates, ambiguous)}
    /\ UNCHANGED <<files, records, cash, result, matchingVars>>

Account ==
    /\ stage = "cash_position"
    /\ stage' = "reconciled"
    /\ cash' = CalculateCashPosition(cases)
    /\ UNCHANGED <<files, records, cases, result, matchingVars>>

-------------------------------------------------------------------------------
(* _persist_result.                                                         *)

Confirmed(case) ==
    \E e \in edges : e.relationship = "settlement_bank" /\ e.source \in case.entities

ReceiptState(case) ==
    IF Confirmed(case) THEN "CONFIRMED"
    ELSE IF \E s \in Settlements(case) : s.settlement # Null THEN "MISSING" ELSE "NOT_APPLICABLE"

PersistedCase(case) ==
    [id |-> case.id, state |-> case.state, code |-> case.code, bucket |-> case.bucket,
     level |-> IF case.state = "RECONCILED" THEN "VERIFIED" ELSE "UNRESOLVED",
     gross |-> case.gross, net |-> case.net, residual |-> case.residual,
     atRisk |-> IF case.code # NoCode THEN case.atRisk ELSE Abs(case.residual),
     severity |-> IF case.code # NoCode THEN case.severity ELSE NoCode,
     receipt |-> ReceiptState(case), entities |-> case.entities, failed |-> case.failed,
     reviewed |-> FALSE]

\* The rule that a candidate came from is not compared with the rule of the edge.
Decision(c) ==
    LET against == UNION {r.reasons : r \in {q \in rejected \cup ambiguous : SameKey(q, c)}}
    IN  IF \E e \in edges : /\ e.source = c.source /\ e.target = c.target
                            /\ e.relationship = c.relationship
        THEN "VERIFIED"
        ELSE IF against \cup c.reasons # {} THEN "REJECTED" ELSE "UNRESOLVED"

\* An edge belongs to the case of its source.
CaseOfEdge(e) == (CHOOSE c \in cases : e.source \in c.entities).id

\* Rows are stored under the file of the type they were detected as.
StoredRows(t) == {<<DetectedType(files[t], t), RowNumber(i)>> : i \in DOMAIN files[t].rows}

\* What the unique constraints of the database refuse: a row number twice in one file,
\* an identifier of a case twice in one run.
Collides ==
    \/ \E t, u \in TypeSet : t # u /\ StoredRows(t) \cap StoredRows(u) # {}
    \/ \E c, d \in cases : c # d /\ c.id = d.id

PersistResult ==
    /\ stage = "reconciled" /\ ~Collides
    /\ stage' = "persisted"
    /\ result' = [cases |-> {PersistedCase(c) : c \in cases},
                  edges |-> {[edge |-> e, case |-> CaseOfEdge(e)] : e \in edges},
                  candidates |-> {[source |-> c.source, target |-> c.target, rule |-> c.rule,
                                   decision |-> Decision(c)] : c \in candidates},
                  issues |-> {<<r.type, r.row>> : r \in {q \in records : q.issues # <<>>}}]
    /\ UNCHANGED <<files, records, cases, cash, matchingVars>>

\* The transaction is rolled back and the run fails.
PersistFails ==
    /\ stage = "reconciled" /\ Collides
    /\ stage' = "failed"
    /\ UNCHANGED <<files, records, cases, cash, result, matchingVars>>

Next ==
    \/ Validate \/ Normalize \/ Generate \/ Match \/ Classify \/ Account
    \/ PersistResult \/ PersistFails

Spec == Init /\ [][Next]_vars

-------------------------------------------------------------------------------
(* Properties.                                                              *)

\* Every record an identifier is connected to by components and candidates.
Linked(id) ==
    LET links == GivenLinks(records, candidates)
        Step(S) == S \cup {link[2] : link \in {l \in links : l[1] \in S}}
                     \cup {link[1] : link \in {l \in links : l[2] \in S}}
        reach[n \in 0..Cardinality(links)] == IF n = 0 THEN {id} ELSE Step(reach[n - 1])
    IN  reach[Cardinality(links)] \cap {r.id : r \in records}

\* Grouping loses no record, puts none into two cases, and keeps together exactly what
\* is connected, however long the chain and in whatever order it was joined.
GroupsAreComponents ==
    stage = "cash_position" =>
        /\ \A r \in records : Cardinality({c \in cases : r \in c.records}) = 1
        /\ \A c \in cases : c.entities = Linked((CHOOSE r \in c.records : TRUE).id)

\* Safe cash is in the bank: it is the sum of the bank rows that verified evidence joins
\* to the settlements of reconciled cases, none of them counted twice.
ConfirmedCashIsInTheBank ==
    stage \in {"reconciled", "persisted"} =>
        LET settled == {s.id : s \in UNION {Settlements(c) :
                                  c \in {d \in cases : d.state = "RECONCILED"}}}
            receipts == {e \in edges : e.relationship = "settlement_bank" /\ e.source \in settled}
        IN  /\ cash.safe = Allocated(receipts)
            /\ \A e \in receipts : \E b \in OfType(records, "bank_transactions") :
                  b.id = e.target /\ b.signed = e.amount
            /\ \A e, f \in receipts : e.target = f.target => e = f

\* The forecast conserves what is in transit: every settlement still to come is due on
\* one day of the horizon, overdue, undated or due later, whatever weekends and holidays
\* move it.
ForecastConserves ==
    stage = "reconciled" =>
        LET forecast == CalculateCashForecast(cases, cash.safe, AsOf)
            later == {c \in Scheduled(cases) : \A d \in Horizon : LandingDay(c) > AsOf + d}
        IN  cash.buckets["SETTLEMENT_CONFIRMED_IN_TRANSIT"] + cash.buckets["EXPECTED_SETTLEMENT"]
              = forecast.closing[7] - cash.safe
                  + forecast.overdue + forecast.undated + Net(later)

\* The audit accounts for every paise of recorded tax: it is supported by the policy,
\* disputed, belongs to a payment whose own amount cannot be read, or is the credit that
\* is all a case holds of a payment the run does not have: that no figure shows.  Where no
\* payment is recorded twice: the audit takes the tax of a payment once per row.
TaxIsAccountedFor ==
    stage = "reconciled" /\ IsInjective([r \in OfType(records, "payments") |-> r.id]) =>
        LET audit == CalculateTaxAudit(cases)
            audited == UNION {{p.payment : p \in Audited(c)} : c \in cases}
            unread == {r \in OfType(records, "settlement_components") :
                          /\ r.component = "TAX_ON_FEE"
                          /\ r.event \in KnownPayments(cases) \ audited}
            credit == SumFunction([o \in Orphans(cases) |->
                                      IF OrphanTax(o) < 0 THEN OrphanTax(o) ELSE 0])
        IN  audit.supported + audit.disputed + Recorded(unread) + credit
              = audit.tax

\* "Every `RECONCILED` case has a complete, independently checkable proof, including row
\* coverage and allocation conservation." (docs/REVIEW_2026-09-05.md): every order,
\* payment, settlement and bank transaction of the case is an end of its evidence.
ReconciledIsCovered ==
    \A c \in {d \in cases : d.state = "RECONCILED"} :
        \A r \in c.records : r.type # "settlement_components" =>
            \E e \in CaseEdges(c, edges) : r.id \in {e.source, e.target}

=============================================================================

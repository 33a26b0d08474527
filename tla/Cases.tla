--------------------------------- MODULE Cases ---------------------------------
(***************************************************************************)
(* From matched records to classified cases: the grouping of                *)
(* services/reconciliation/orchestrator.py, the financial invariants of     *)
(* invariants.py and the classification of exceptions.py.                   *)
(***************************************************************************)
EXTENDS Candidates, MatchingRules

CONSTANTS
    TimingIds,  \* identifiers that begin with SET_T
    CaseName    \* what the patterns of _derive_case_id find in an identifier

ASSUME CaseNameAssumption ==
    \A id \in DOMAIN CaseName : CaseName[id].pattern \in Nat

-------------------------------------------------------------------------------
(* Grouping: a disjoint set, as the parent of every identifier.             *)

Root(parent, id) ==
    LET find[x \in DOMAIN parent] == IF parent[x] = x THEN x ELSE find[parent[x]]
    IN  find[id]

\* A union of the two identifiers, not of their sets.
UnionOfEnds(parent, link) == [parent EXCEPT ![link[2]] = Root(parent, link[1])]

Union(parent, link) ==
    LET left == Root(parent, link[1])
        right == Root(parent, link[2])
    IN  [parent EXCEPT ![right] = left]

StrongRules == {"settlement_utr_bank", "bank_reference_amount_date"}
Strong(candidates) == {c \in candidates : c.rule \in StrongRules}

\* A bank receipt that only its amount suggests joins a case unless its settlement or it
\* has a reference, right or wrong, to something else.
Joins(c, candidates) ==
    c.rule = "unique_exact_amount_window" =>
        \A d \in Strong(candidates) : c.source # d.source /\ c.target # d.target

Links(records, candidates) ==
    {<<c.id, c.settlement>> : c \in OfType(records, "settlement_components")}
    \cup {<<c.id, c.event>> : c \in OfType(records, "settlement_components")}
    \cup {<<c.source, c.target>> : c \in {d \in candidates : Joins(d, candidates)}}

\* union ignores what is not given.
GivenLinks(records, candidates) ==
    {link \in Links(records, candidates) : link[1] # Null /\ link[2] # Null}

Identifiers(records, candidates) ==
    {r.id : r \in records}
    \cup UNION {{link[1], link[2]} : link \in GivenLinks(records, candidates)}

Joined(records, candidates) ==
    FoldSet(LAMBDA link, parent : Union(parent, link),
            [id \in Identifiers(records, candidates) |-> id], GivenLinks(records, candidates))

CaseGroups(records, candidates) ==
    LET ids == Identifiers(records, candidates)
        parent == Joined(records, candidates)
    IN  {{id \in ids : Root(parent, id) = Root(parent, top)} : top \in ids}

-------------------------------------------------------------------------------
(* A case.                                                                  *)

RecordIds(r) ==
    {r.id, r.order, r.payment, r.settlement, r.event} \ {Null}

\* The first pattern that is found, in the first identifier it is found in; without
\* any, a digest of the identifiers.
DeriveCaseId(records) ==
    LET ids == UNION {RecordIds(r) : r \in records}
        named == ids \cap DOMAIN CaseName
        first == CHOOSE i \in named : \A j \in named :
                    \/ CaseName[i].pattern < CaseName[j].pattern
                    \/ CaseName[i].pattern = CaseName[j].pattern /\ i <= j
    IN  IF named = {} THEN <<"CASE_UNKNOWN", ids>> ELSE <<"CASE", CaseName[first].name>>

Total(records, type) == SumFunction([r \in OfType(records, type) |-> OrZero(r.amount)])

Within(members, S) == {x \in S : x.source \in members /\ x.target \in members}

BuildCase(group, records, ambiguous) ==
    LET own == {r \in records : r.id \in group}
        tied == Within(group, ambiguous)
    IN  [id |-> DeriveCaseId(own), entities |-> {r.id : r \in own}, records |-> own,
         ambiguous |-> tied, gross |-> Total(own, "orders"),
         net |-> IF tied = {} THEN Total(own, "settlements") ELSE 0]

BuildCases(records, candidates, ambiguous) ==
    {BuildCase(group, records, ambiguous) :
        group \in {g \in CaseGroups(records, candidates) : \E r \in records : r.id \in g}}

IsInvalid(case) == \E r \in case.records : r.issues # <<>>

\* Records are read by entity, then in their order.
FirstRecord(records) ==
    CHOOSE r \in records : \A q \in records : ~Before(<<q.id, q.pos>>, <<r.id, r.pos>>)

FirstIssue(case) == Head(FirstRecord({r \in case.records : r.issues # <<>>}).issues)

CaseEdges(case, edges) == Within(case.entities, edges)
EdgesOf(case, edges, relationship) ==
    {e \in CaseEdges(case, edges) : e.relationship = relationship}

Record(case, id) == LastWith(case.records, id)

-------------------------------------------------------------------------------
(* verify_case: the invariants a case fails.                                *)

Currencies(case) == {r.currency : r \in case.records} \ {Null}

Settlements(case) == OfType(case.records, "settlements")

ComponentSum(case, settlement) ==
    SumFunction([c \in {k \in OfType(case.records, "settlement_components") :
                          k.settlement = settlement} |-> OrZero(c.signed)])

Allocated(edges) == SumFunction([e \in edges |-> e.amount])

ReceiptsOf(case, edges, s) == {e \in EdgesOf(case, edges, "settlement_bank") : e.source = s.id}

Charges(case, payment, component) ==
    {c \in OfType(case.records, "settlement_components") :
        c.event = payment.id /\ c.component = component}

Actual(case, payment, component) ==
    SumFunction([c \in Charges(case, payment, component) |-> OrZero(c.amount)])

\* A payment whose amount and identifier can be read.
Priced(case) == {p \in OfType(case.records, "payments") : p.amount # Null /\ p.payment # Null}

SettleableStatus == {"CAPTURED", "REFUNDED"}

\* The day the settlement happened, else the day it declares.
SettlementDay(s) == IF s.day # Null THEN s.day ELSE s.due

Fails(invariant, case, edges, overallocated) ==
    CASE invariant = "INV-001" -> Cardinality(Currencies(case)) > 1
      [] invariant = "INV-002" ->
            \E e \in EdgesOf(case, edges, "order_payment") :
                Record(case, e.source).amount # Record(case, e.target).amount
      [] invariant = "INV-003" ->
            \E s \in Settlements(case) : ComponentSum(case, s.id) # OrZero(s.amount)
      [] invariant = "INV-004" ->
            \E s \in Settlements(case) : Allocated(ReceiptsOf(case, edges, s)) # OrZero(s.amount)
      [] invariant = "INV-005" ->
            \/ Settlements(case) = {}
            \/ Allocated(EdgesOf(case, edges, "settlement_bank"))
                 # Total(case.records, "settlements")
      [] invariant = "INV-006" -> overallocated
      [] invariant = "INV-007" ->
            \E e \in EdgesOf(case, edges, "settlement_bank") :
                LET day == SettlementDay(Record(case, e.source))
                    value == Record(case, e.target).due
                IN  day # Null /\ value # Null /\ value < day
      [] invariant = "INV-008" ->
            \E e \in EdgesOf(case, edges, "payment_settlement") :
                Record(case, e.source).status \notin SettleableStatus
      [] invariant = "INV-009" ->
            \E s \in Settlements(case) :
                /\ SettlementDay(s) # Null /\ s.due # Null
                /\ s.due # ExpectedBankDate(SettlementDay(s))
      [] invariant = "INV-010" -> IsInvalid(case)
      [] invariant = "INV-FEE-001" ->
            \E p \in Priced(case) : Actual(case, p, "GATEWAY_FEE") # ExpectedFee(p.amount)
      [] invariant = "INV-TAX-001" ->
            \E p \in Priced(case) : Actual(case, p, "TAX_ON_FEE") # ExpectedTax(p.amount)

Invariants == {"INV-001", "INV-002", "INV-003", "INV-004", "INV-005", "INV-006", "INV-007",
               "INV-008", "INV-009", "INV-010", "INV-FEE-001", "INV-TAX-001"}

VerifyCase(case, edges, overallocated) ==
    {i \in Invariants : Fails(i, case, edges, overallocated)}

-------------------------------------------------------------------------------
(* What is left of a case.                                                  *)

SyntheticPendingDelay(case) ==
    Settlements(case) # {} /\ \A s \in Settlements(case) : s.id \in TimingIds

FeeTaxVariance(case) ==
    SumFunction([p \in {q \in OfType(case.records, "payments") : q.payment # Null} |->
                    Abs(Actual(case, p, "GATEWAY_FEE") - ExpectedFee(OrZero(p.amount)))
                    + Abs(Actual(case, p, "TAX_ON_FEE") - ExpectedTax(OrZero(p.amount)))])

\* The candidates that tie, in the order the rules found them.
RuleNumber(c) == CHOOSE k \in DOMAIN Rules : Rules[k].rule = c.rule
FirstCandidate(S) ==
    CHOOSE c \in S : \A d \in S :
        \/ RuleNumber(c) < RuleNumber(d)
        \/ RuleNumber(c) = RuleNumber(d) /\ ~Before(d.place, c.place)

BankAllocated(case, edges) == Allocated(EdgesOf(case, edges, "settlement_bank"))

Residual(case, edges) ==
    LET variance == FeeTaxVariance(case)
        settled == Total(case.records, "settlements")
        received == BankAllocated(case, edges)
    IN  IF IsInvalid(case) THEN case.gross
        ELSE IF case.ambiguous # {} THEN Abs(FirstCandidate(case.ambiguous).amount)
        ELSE IF variance # 0 THEN variance
        ELSE IF settled # 0 /\ received = 0 /\ SyntheticPendingDelay(case) THEN 0
        ELSE Abs(settled - received)

-------------------------------------------------------------------------------
(* classify_case.                                                           *)

HasRecords(case, type) == OfType(case.records, type) # {}

Proves(case, edges, left, right, relationship) ==
    HasRecords(case, left) /\ HasRecords(case, right)
        => EdgesOf(case, edges, relationship) # {}

HasCompleteEvidence(case, edges) ==
    /\ Proves(case, edges, "orders", "payments", "order_payment")
    /\ Proves(case, edges, "payments", "settlements", "payment_settlement")
    /\ Proves(case, edges, "settlements", "bank_transactions", "settlement_bank")
    /\ \A type \in {"orders", "payments", "settlements", "bank_transactions"} :
          HasRecords(case, type)

MissingBankCredit(case, edges) ==
    Settlements(case) # {} /\ EdgesOf(case, edges, "settlement_bank") = {}

\* The first of these that applies names the exception.
ExceptionOf(case, edges, failed) ==
    LET causes == << <<"CURRENCY_MISMATCH", "INV-001" \in failed>>,
                     <<"DOUBLE_ALLOCATION_ATTEMPT", "INV-006" \in failed>>,
                     <<"DATE_OUTSIDE_POLICY", {"INV-007", "INV-009"} \cap failed # {}>>,
                     <<"PAYMENT_STATUS_CONFLICT", "INV-008" \in failed>>,
                     <<"FEE_VARIANCE", "INV-FEE-001" \in failed>>,
                     <<"TAX_VARIANCE", "INV-TAX-001" \in failed>>,
                     <<"BANK_CREDIT_MISSING", MissingBankCredit(case, edges)>>,
                     <<"UNEXPLAINED_RESIDUAL", {"INV-003", "INV-005"} \cap failed # {}>>,
                     <<"CAPTURE_NOT_SETTLED", Settlements(case) = {}
                                                /\ HasRecords(case, "payments")>>,
                     <<"UNEXPLAINED_RESIDUAL", TRUE>> >>
        first == CHOOSE k \in DOMAIN causes :
                    causes[k][2] /\ \A j \in 1..(k - 1) : ~causes[j][2]
    IN  causes[first][1]

NoCode == "none"

\* Evidence without its invariants.
ClassifyByEvidence(case, edges, failed) ==
    IF ~IsInvalid(case) /\ case.ambiguous = {} /\ HasCompleteEvidence(case, edges)
    THEN <<"RECONCILED", NoCode>>
    ELSE <<"ACTIONABLE_EXCEPTION", ExceptionOf(case, edges, failed)>>

ClassifyCase(case, edges, failed) ==
    IF IsInvalid(case) THEN <<"INVALID_INPUT", FirstIssue(case)>>
    ELSE IF case.ambiguous # {} THEN <<"ACTIONABLE_EXCEPTION", "AMBIGUOUS_CANDIDATES">>
    ELSE IF MissingBankCredit(case, edges) /\ SyntheticPendingDelay(case)
         THEN <<"PENDING_WITHIN_SLA", NoCode>>
    ELSE IF failed = {} /\ HasCompleteEvidence(case, edges) THEN <<"RECONCILED", NoCode>>
    ELSE <<"ACTIONABLE_EXCEPTION", ExceptionOf(case, edges, failed)>>

\* Ambiguous money at risk like any other.
CashBucketOfState(state, code) ==
    CASE state = "RECONCILED" -> "BANK_CONFIRMED"
      [] state = "PENDING_WITHIN_SLA" -> "SETTLEMENT_CONFIRMED_IN_TRANSIT"
      [] state = "ACTIONABLE_EXCEPTION" -> "AT_RISK"
      [] OTHER -> "UNRESOLVED"

CashBucketForCase(state, code) ==
    CASE state = "RECONCILED" -> "BANK_CONFIRMED"
      [] state = "PENDING_WITHIN_SLA" -> "SETTLEMENT_CONFIRMED_IN_TRANSIT"
      [] state = "ACTIONABLE_EXCEPTION" /\ code # "AMBIGUOUS_CANDIDATES" -> "AT_RISK"
      [] OTHER -> "UNRESOLVED"

MissingEvidence(case, edges) ==
    (IF IsInvalid(case) THEN {"valid_source_records"} ELSE {})
    \cup (IF case.ambiguous # {} THEN {"unique_bank_match"} ELSE {})
    \cup (IF /\ Settlements(case) # {} /\ BankAllocated(case, edges) = 0
             /\ ~SyntheticPendingDelay(case) THEN {"bank_credit"} ELSE {})

\* What the exception of a case reports: what it misses, what is at risk, how badly.
AmountAtRisk(case, residual) ==
    IF residual # 0 THEN Abs(residual)
    ELSE IF case.net # 0 THEN Abs(case.net) ELSE Abs(case.gross)

HighSeverity == {"BANK_CREDIT_MISSING", "BANK_CONTROL_TOTAL_FAILED", "DOUBLE_ALLOCATION_ATTEMPT"}
MediumSeverity == {"AMBIGUOUS_CANDIDATES", "FEE_VARIANCE", "TAX_VARIANCE", "UNEXPLAINED_RESIDUAL"}
Severity(code, amount) ==
    IF amount >= CriticalAmount THEN "CRITICAL"
    ELSE IF code \in HighSeverity THEN "HIGH"
    ELSE IF code \in MediumSeverity THEN "MEDIUM" ELSE "LOW"

VerifiedCase(case, edges, overallocated) ==
    LET failed == VerifyCase(case, edges, overallocated)
        outcome == ClassifyCase(case, edges, failed)
        residual == Residual(case, edges)
        atRisk == AmountAtRisk(case, residual)
    IN  [id |-> case.id, entities |-> case.entities, records |-> case.records,
         ambiguous |-> case.ambiguous, gross |-> case.gross, net |-> case.net,
         failed |-> failed, state |-> outcome[1], code |-> outcome[2],
         residual |-> residual, missing |-> MissingEvidence(case, edges),
         bucket |-> CashBucketForCase(outcome[1], outcome[2]),
         atRisk |-> atRisk, severity |-> Severity(outcome[2], atRisk)]

=============================================================================

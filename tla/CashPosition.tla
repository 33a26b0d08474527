------------------------------ MODULE CashPosition ------------------------------
(***************************************************************************)
(* What the classified cases say of cash: services/cash_position/service   *)
(* .py, its forecast and its fee and tax audit.                            *)
(***************************************************************************)
EXTENDS Cases

CashBuckets == {"BANK_CONFIRMED", "SETTLEMENT_CONFIRMED_IN_TRANSIT", "EXPECTED_SETTLEMENT",
                "AT_RISK", "UNRESOLVED"}
InTransitBuckets == {"SETTLEMENT_CONFIRMED_IN_TRANSIT", "EXPECTED_SETTLEMENT"}

\* cash_bucket_contribution: confirmed and expected cash counts the settlement, the
\* rest counts what is exposed.
Contribution(case) ==
    IF case.bucket \in InTransitBuckets \cup {"BANK_CONFIRMED"} THEN case.net
    ELSE AmountAtRisk(case, case.residual)

InBucket(cases, bucket) == {c \in cases : c.bucket = bucket}

ComponentTotal(cases, component) ==
    SumFunction([r \in {k \in OfType(UNION {c.records : c \in cases}, "settlement_components") :
                          k.component = component} |-> Abs(OrZero(r.amount))])

\* Safe cash is what the bank has confirmed; deductions are already in the net.
CalculateCashPosition(cases) ==
    LET amount == [b \in CashBuckets |->
                      SumFunction([c \in InBucket(cases, b) |-> Contribution(c)])]
    IN  [buckets |-> amount,
         members |-> [b \in CashBuckets |-> {c.id : c \in InBucket(cases, b)}],
         safe |-> amount["BANK_CONFIRMED"],
         refunds |-> ComponentTotal(cases, "REFUND"),
         disputes |-> ComponentTotal(cases, "CHARGEBACK"),
         holds |-> ComponentTotal(cases, "RESERVE_HOLD")]

-------------------------------------------------------------------------------
(* calculate_cash_forecast: the settlements still to come, day by day.      *)

Horizon == 0..7

Dated(case) == {s \in Settlements(case) : s.due # Null}

\* The first settlement of a case that has a date says when all of it lands.
LandingDay(case) == NextBusinessDay[FirstRecord(Dated(case)).due]

InTransit(cases) == {c \in cases : c.bucket \in InTransitBuckets}
Scheduled(cases) == {c \in InTransit(cases) : Dated(c) # {}}

Net(cases) == SumFunction([c \in cases |-> c.net])

\* Counting what lands today as overdue.
OverdueByToday(cases, asOf) == {c \in Scheduled(cases) : LandingDay(c) <= asOf}

Overdue(cases, asOf) == {c \in Scheduled(cases) : LandingDay(c) < asOf}
LandingOn(cases, day) == {c \in Scheduled(cases) : LandingDay(c) = day}

\* A day begins with the balance the day before has left.
Closing(inflow, safe) ==
    LET closing[d \in Horizon] == inflow[d] + (IF d = 0 THEN safe ELSE closing[d - 1])
    IN  closing

CalculateCashForecast(cases, safe, asOf) ==
    LET inflow == [d \in Horizon |-> Net(LandingOn(cases, asOf + d))]
    IN  [inflow |-> inflow, closing |-> Closing(inflow, safe),
         overdue |-> Net(Overdue(cases, asOf)),
         undated |-> Net(InTransit(cases) \ Scheduled(cases))]

-------------------------------------------------------------------------------
(* calculate_tax_audit: recorded fees and taxes against the policy.         *)

Payments(case) == OfType(case.records, "payments")
Audited(case) == {p \in Priced(case) : p.amount > 0}

Fees(case) == {c \in OfType(case.records, "settlement_components") :
                 c.component \in {"GATEWAY_FEE", "TAX_ON_FEE"}}

KnownPayments(cases) == {p.payment : p \in UNION {Payments(c) : c \in cases}} \ {Null}

\* Expected minus recorded.
TaxShortfall(case, p) == ExpectedTax(p.amount) - Actual(case, p, "TAX_ON_FEE")

FeeVariance(case, p) == Actual(case, p, "GATEWAY_FEE") - ExpectedFee(p.amount)
TaxVariance(case, p) == Actual(case, p, "TAX_ON_FEE") - ExpectedTax(p.amount)

Discrepant(case) ==
    {p \in Audited(case) : FeeVariance(case, p) # 0 \/ TaxVariance(case, p) # 0}

\* Fees and taxes of a payment that is in no case of the run.
Unmatched(case, cases) == {c \in Fees(case) : c.event \notin KnownPayments(cases)}

\* Rows of a payment are audited each: a pair is a row and the case it is in.
AuditedRows(cases) == UNION {{<<c, p>> : p \in Audited(c)} : c \in cases}

SupportedTax(q) ==
    LET actual == Actual(q[1], q[2], "TAX_ON_FEE")
        expected == ExpectedTax(q[2].amount)
    IN  IF actual > expected THEN expected ELSE actual

OverchargedTax(q) ==
    LET variance == TaxVariance(q[1], q[2])
    IN  IF variance > 0 THEN variance ELSE 0

Recorded(components) == SumFunction([r \in components |-> OrZero(r.amount)])

Taxes(case) == {c \in Fees(case) : c.component = "TAX_ON_FEE"}

\* The payments, or none, that fees of a case name and no case of the run has: they are
\* audited one by one, a pair is such an event and the case that names it.
Orphans(cases) ==
    UNION {{<<c, k.event>> : k \in Unmatched(c, cases)} : c \in cases}

OrphanTax(o) == Recorded({k \in Taxes(o[1]) : k.event = o[2]})

\* What an orphan is credited is not disputed.
DisputedOrphan(o) == IF OrphanTax(o) > 0 THEN OrphanTax(o) ELSE 0

CalculateTaxAudit(cases) ==
    LET payments == AuditedRows(cases)
        fees == UNION {Fees(c) : c \in cases}
        taxed == UNION {Taxes(c) : c \in cases}
        unmatched == UNION {Unmatched(c, cases) : c \in cases}
        flagged == {c \in cases : Discrepant(c) # {} \/ Unmatched(c, cases) # {}}
    IN  [gross |-> SumFunction([q \in payments |-> q[2].amount]),
         fee |-> Recorded(fees \ taxed), tax |-> Recorded(taxed),
         expectedFee |-> SumFunction([q \in payments |-> ExpectedFee(q[2].amount)]),
         expectedTax |-> SumFunction([q \in payments |-> ExpectedTax(q[2].amount)]),
         supported |-> SumFunction([q \in payments |-> SupportedTax(q)]),
         disputed |-> SumFunction([q \in payments |-> OverchargedTax(q)])
                        + SumFunction([o \in Orphans(cases) |-> DisputedOrphan(o)]),
         unmatched |-> Cardinality(unmatched),
         flagged |-> {c.id : c \in flagged}]

=============================================================================

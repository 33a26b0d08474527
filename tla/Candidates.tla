------------------------------- MODULE Candidates -------------------------------
(***************************************************************************)
(* The relationships worth testing (services/reconciliation/candidates.py).*)
(*                                                                         *)
(* A candidate joins two entities.  Its reasons say what is against it: a  *)
(* candidate with reasons is never evidence, but it still draws its two    *)
(* ends into one case.  "place" is its place among the candidates of its   *)
(* rule: of candidates with the same ends and rule only the first is kept. *)
(***************************************************************************)
EXTENDS Ingestion, Policy, FiniteSetsExt

Compatible(a, b) == a = Null \/ b = Null \/ a = b
AmountMatches(a, b) == a # Null /\ a = b

\* From the day of the settlement to the later of the two days it may be due.
InBankWindow(s, b) ==
    /\ s.day # Null /\ b.due # Null
    /\ LET policyDue == ExpectedBankDate(s.day)
           deadline == IF s.due # Null /\ s.due > policyDue THEN s.due ELSE policyDue
       IN  s.day <= b.due /\ b.due <= deadline

\* What speaks against joining l and r, whatever their amounts and dates.
PartyReasons(l, r) ==
    (IF Compatible(l.currency, r.currency) THEN {} ELSE {"currency conflict"})
    \cup (IF Compatible(l.merchant, r.merchant) THEN {} ELSE {"merchant conflict"})

Candidate(l, r, relationship, rule, amount, reasons, place) ==
    [source |-> l.id, target |-> r.id, relationship |-> relationship, rule |-> rule,
     amount |-> amount, reasons |-> reasons, place |-> place]

-------------------------------------------------------------------------------
\* A payment that names the order.
OrderPaymentCandidates(records) ==
    {LET o == q[1]
         p == q[2]
     IN  Candidate(o, p, "order_payment", "exact_order_payment",
                   IF OrZero(p.amount) # 0 THEN p.amount ELSE OrZero(o.amount),
                   PartyReasons(o, p) \cup (IF AmountMatches(o.amount, p.amount)
                                               THEN {} ELSE {"amount mismatch"}),
                   <<o.pos, p.pos>>) :
        q \in {r \in OfType(records, "orders") \X OfType(records, "payments") :
                 r[1].order # Null /\ r[2].order = r[1].order}}

\* The last record with an identifier stands for all of them.
LastWith(records, id) ==
    CHOOSE r \in records : r.id = id /\ \A q \in records : q.id = id => q.pos <= r.pos

Known(records, id) == \E r \in records : r.id = id

\* The components that say what a settlement pays of a payment.
Memberships(records) ==
    {<<c.event, c.settlement>> :
        c \in {k \in OfType(records, "settlement_components") :
                 k.event # Null /\ k.settlement # Null /\ k.signed # Null}}

MembershipNet(records, m) ==
    SumFunction([c \in {k \in OfType(records, "settlement_components") :
                          <<k.event, k.settlement>> = m /\ k.signed # Null} |-> c.signed])

\* Named records, as the dictionaries by payment_id and settlement_id hold them.
Named(records, type) == {r \in OfType(records, type) : r.id >= 0}

MembershipCandidates(records) ==
    LET payments == Named(records, "payments")
        settlements == Named(records, "settlements")
    IN  {LET p == LastWith(payments, m[1])
             s == LastWith(settlements, m[2])
         IN  Candidate(p, s, "payment_settlement", "settlement_membership",
                       MembershipNet(records, m), PartyReasons(p, s), m) :
            m \in {n \in Memberships(records) :
                     Known(payments, n[1]) /\ Known(settlements, n[2])}}

\* The three ways a bank transaction may be the receipt of a settlement.
BankRules(s, b, reasons) ==
    (IF s.utr # Null /\ s.utr \in b.utrs THEN {"settlement_utr_bank"} ELSE {})
    \cup (IF s.settlement # Null /\ s.settlement \in b.references
             THEN {"bank_reference_amount_date"} ELSE {})
    \cup (IF reasons = {} THEN {"unique_exact_amount_window"} ELSE {})

BankReasons(s, b) ==
    PartyReasons(s, b)
    \cup (IF AmountMatches(s.amount, b.signed) THEN {} ELSE {"amount mismatch"})
    \cup (IF InBankWindow(s, b) THEN {} ELSE {"date outside policy"})

BankCandidates(records) ==
    UNION {LET reasons == BankReasons(q[1], q[2])
           IN  {Candidate(q[1], q[2], "settlement_bank", rule, OrZero(q[2].signed), reasons,
                          <<q[1].pos, q[2].pos>>) : rule \in BankRules(q[1], q[2], reasons)} :
               q \in OfType(records, "settlements") \X OfType(records, "bank_transactions")}

-------------------------------------------------------------------------------
Before(p, q) == p[1] < q[1] \/ (p[1] = q[1] /\ p[2] < q[2])

SameKey(c, d) ==
    /\ c.source = d.source /\ c.target = d.target
    /\ c.relationship = d.relationship /\ c.rule = d.rule

FirstOfEach(candidates) ==
    {c \in candidates : ~\E d \in candidates : SameKey(c, d) /\ Before(d.place, c.place)}

GenerateCandidates(records) ==
    FirstOfEach(OrderPaymentCandidates(records) \cup MembershipCandidates(records)
                \cup BankCandidates(records))

=============================================================================

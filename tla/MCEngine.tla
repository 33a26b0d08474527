--------------------------------- MODULE MCEngine ---------------------------------
(***************************************************************************)
(* Inputs for module Engine, in families.  An identifier is a number *)
(* whose tens give its kind and whose units the scenario it belongs to:    *)
(* BANK_TXN_1 is 11, ORD_1 is 31, PAY_1 is 41, SET_1 is 51 and UTR_1 71;   *)
(* components are 211 and up.                                              *)
(***************************************************************************)
EXTENDS ControlPackage, TLC

MCEntities == {11, 12, 13, 31, 32, 41, 42, 51, 52, 53} \cup (211..213) \cup (221..225) \cup {-21, -22, -25, -35, 54}
MCHolidays == {1}
MCWeekend == {5, 6}
MCFee == <<1, 10>>
MCTax == <<1, 2>>
MCTimingIds == {53, 54}

\* Component identifiers are in no pattern; SET_BATCH is found before the others.
MCCaseName == [id \in {11, 12, 13, 31, 32, 41, 42, 51, 52, 53, 54} |->
                  [pattern |-> IF id \in MCTimingIds THEN 1 ELSE 2, name |-> id % 10]]

-------------------------------------------------------------------------------
Row(id) == [BlankRow EXCEPT !.id = id]

Order(id, amount) == [Row(id) EXCEPT !.amount = amount, !.currency = "INR", !.day = 0]
Payment(id, order, amount) ==
    [Row(id) EXCEPT !.order = order, !.amount = amount, !.currency = "INR", !.day = 0,
                    !.status = "CAPTURED"]
Settlement(id, utr, net) ==
    [Row(id) EXCEPT !.amount = net, !.currency = "INR", !.day = 0, !.due = 2, !.utr = utr]
Component(id, settlement, event, kind, amount) ==
    [Row(id) EXCEPT !.settlement = settlement, !.event = event, !.component = kind,
                    !.amount = amount, !.debit = kind # "PAYMENT"]
Bank(id, amount, utrs, references, due) ==
    [Row(id) EXCEPT !.amount = amount, !.currency = "INR", !.day = due, !.due = due,
                    !.utrs = utrs, !.references = references]

\* What a payment of this amount brings: the amount, its fee, the tax on the fee.
ComponentsOf(id, settlement, event, amount) ==
    <<Component(id, settlement, event, "PAYMENT", amount),
      Component(id + 1, settlement, event, "GATEWAY_FEE", ExpectedFee(amount)),
      Component(id + 2, settlement, event, "TAX_ON_FEE", ExpectedTax(amount))>>
NetOf(amount) == amount - ExpectedFee(amount) - ExpectedTax(amount)

File(type, rows) == [columns |-> type, complete |-> TRUE, rows |-> rows]
Files(orders, payments, settlements, components, banks) ==
    [orders |-> File("orders", orders), payments |-> File("payments", payments),
     settlements |-> File("settlements", settlements),
     settlement_components |-> File("settlement_components", components),
     bank_transactions |-> File("bank_transactions", banks)]

-------------------------------------------------------------------------------
(* Two whole life cycles and two receipts that fit one, both or neither.    *)

References == {<<{}, {}>>, <<{71}, {}>>, <<{72}, {}>>, <<{}, {51}>>, <<{71}, {52}>>}

Receipts(id, days) ==
    {<<>>} \cup {<<Bank(id, amount, ref[1], ref[2], day)>> :
                    amount \in {17, 34}, ref \in References, day \in days}

ReceiptFamily ==
    {Files(<<Order(31, 20), Order(32, second)>>,
           <<Payment(41, 31, 20), Payment(42, 32, second)>>,
           <<Settlement(51, 71, 17), Settlement(52, 72, NetOf(second))>>,
           ComponentsOf(211, 51, 41, 20) \o ComponentsOf(221, 52, 42, second),
           one \o two) :
        second \in {20, 40}, one \in Receipts(11, {2, 3}), two \in Receipts(12, {2})}

-------------------------------------------------------------------------------
(* One settlement of two payments and what may be wrong with it.            *)

Deviations ==
    {"order amount", "order twice", "order respelled", "order missing",
     "payment status", "payment unreadable", "payment twice", "second payment", "payment captured late",
     "fee", "tax", "stray tax", "stray credit", "component sum",
     "timing", "due", "zero net", "settlement currency",
     "receipt missing", "receipt early", "receipt split", "receipt respelled", "nameless receipt",
     "receipt tied", "stray receipt"}

When(condition, rows) == IF condition THEN rows ELSE <<>>

BatchOrders(D) ==
    <<Order(31, 20)>>
    \o When("order missing" \notin D, <<Order(32, IF "order amount" \in D THEN 40 ELSE 20)>>)
    \o When("order twice" \in D, <<Order(31, 20)>>)
    \o When("order respelled" \in D, <<[Order(31, 40) EXCEPT !.spelling = 1]>>)

BatchPayments(D) ==
    <<Payment(41, 31, 20),
      [Payment(42, IF "second payment" \in D THEN 31 ELSE 32, 20) EXCEPT
          !.status = IF "payment status" \in D THEN "AUTHORIZED" ELSE "CAPTURED",
          !.flaw = IF "payment unreadable" \in D THEN "amount" ELSE "none",
          !.late = "payment captured late" \in D]>>
    \o When("payment twice" \in D, <<Payment(41, 31, 20)>>)

Batch(D) == IF "timing" \in D THEN 53 ELSE 51
BatchNet(D) ==
    IF "zero net" \in D THEN 0
    ELSE 34 + (IF "fee" \in D THEN -1 ELSE 0) + (IF "tax" \in D THEN -1 ELSE 0)
         + (IF "stray tax" \in D THEN -1 ELSE 0) + (IF "stray credit" \in D THEN 2 ELSE 0)

BatchSettlements(D) ==
    <<[Settlement(Batch(D), 71, BatchNet(D)) EXCEPT
          !.due = IF "due" \in D THEN 4 ELSE 2,
          !.currency = IF "settlement currency" \in D THEN "USD" ELSE "INR"]>>

BatchComponents(D) ==
    (IF "zero net" \in D THEN <<>>
     ELSE ComponentsOf(211, Batch(D), 41, 20)
          \o <<Component(221, Batch(D), 42, "PAYMENT", IF "component sum" \in D THEN 19 ELSE 20),
               Component(222, Batch(D), 42, "GATEWAY_FEE", IF "fee" \in D THEN 3 ELSE 2),
               Component(223, Batch(D), 42, "TAX_ON_FEE",
                         IF "tax" \in D THEN 2 ELSE 1)>>)
    \o When("stray tax" \in D, <<Component(224, Batch(D), 43, "TAX_ON_FEE", 1)>>)
    \o When("stray credit" \in D, <<Component(225, Batch(D), 43, "TAX_ON_FEE", -2)>>)

BatchReceipts(D) ==
    LET paid == Bank(11, BatchNet(D), {71}, {}, IF "receipt early" \in D THEN -1 ELSE 2)
    IN  When("receipt missing" \notin D,
             <<[paid EXCEPT !.id = IF "nameless receipt" \in D THEN Null ELSE 11,
                            !.amount = IF "receipt split" \in D THEN 17 ELSE BatchNet(D)]>>)
        \o When("receipt split" \in D, <<Bank(12, 17, {71}, {}, 2)>>)
        \o When("receipt tied" \in D, <<[paid EXCEPT !.id = 12]>>)
        \o When("receipt respelled" \in D, <<[paid EXCEPT !.spelling = 1, !.amount = 17]>>)
        \o When("stray receipt" \in D, <<Bank(12, 5, {}, {}, 2)>>)

BatchFamily ==
    {Files(BatchOrders(D), BatchPayments(D), BatchSettlements(D), BatchComponents(D),
           BatchReceipts(D)) : D \in {{}} \cup {{a, b, c} : a, b, c \in Deviations}}

-------------------------------------------------------------------------------
(* Receipts with an identifier twice, and settlements still to come.        *)

RespelledFamily ==
    {Files(<<Order(31, 20), Order(32, 20)>>, <<Payment(41, 31, 20), Payment(42, 32, 20)>>,
           <<Settlement(51, 71, 17), Settlement(52, 72, 17)>>,
           ComponentsOf(211, 51, 41, 20) \o ComponentsOf(221, 52, 42, 20),
           <<Bank(11, 17, utrs, {}, 2), [Bank(11, 34, {}, {}, 2) EXCEPT !.spelling = 1]>>) :
        utrs \in {{}, {71}}}

PendingFamily ==
    {Files(<<>>, <<>>,
           <<[Settlement(53, 71, 17) EXCEPT !.due = first],
             [Settlement(54, 72, 34) EXCEPT !.due = second]>>, <<>>, banks) :
        first \in {Null, 2, 3, 5, 10, 11}, second \in {Null, 4},
        banks \in {<<>>, <<Bank(11, 17, {}, {}, 2), Bank(12, 5, {}, {53}, 2)>>}}

-------------------------------------------------------------------------------
(* Receipts that tie: of settlement 51 by their UTR, one of them perhaps paid out by   *)
(* it, or paid in to the merchant of settlement 52.                                    *)

TieFamily ==
    {Files(<<>>, <<>>,
           <<[Settlement(51, 71, 17) EXCEPT !.merchant = 1],
             [Settlement(52, 72, 17) EXCEPT !.merchant = 2]>>, <<>>,
           <<[Bank(11, 17, {71}, {}, 2) EXCEPT !.merchant = merchant, !.debit = debit],
             [Bank(12, 17, {71}, {}, 2) EXCEPT !.merchant = 1]>> \o third) :
        merchant \in {1, 2}, debit \in BOOLEAN,
        third \in {<<>>} \cup {<<[Bank(13, 17, {71}, {}, day) EXCEPT !.merchant = 1]>> : day \in {2, 3}}}

-------------------------------------------------------------------------------
(* Files that are not what they are uploaded as.                            *)

Clean == Files(BatchOrders({}), BatchPayments({}), BatchSettlements({}), BatchComponents({}),
               BatchReceipts({}))

FileFamily ==
    {[Clean EXCEPT !["orders"].columns = columns, !["orders"].complete = complete,
                   !["orders"].rows = rows, !["payments"].rows = payments] :
        columns \in {"orders", "payments", Null}, complete \in BOOLEAN,
        rows \in {<<>>, BatchOrders({}), BatchPayments({}),
                  <<[Order(31, 20) EXCEPT !.flaw = "date"]>>}
                 \cup {<<Order(31, 20), [Order(32, 20) EXCEPT !.cells = cells]>> :
                         cells \in {"short", "surplus"}}
                 \cup {<<[Order(Null, 20) EXCEPT !.cells = "cut"]>>},
        payments \in {<<>>, BatchPayments({})}}

MCDatasets == ReceiptFamily \cup BatchFamily \cup RespelledFamily \cup PendingFamily
                \cup TieFamily \cup FileFamily

=============================================================================

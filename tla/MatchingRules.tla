------------------------------ MODULE MatchingRules ------------------------------
(***************************************************************************)
(* The rules that make evidence, from the strongest to the weakest         *)
(* (apply_matching_rules in services/reconciliation/rules.py).             *)
(***************************************************************************)
EXTENDS Integers

Rules == <<[rule |-> "exact_order_payment", relationship |-> "order_payment"],
           [rule |-> "settlement_membership", relationship |-> "payment_settlement"],
           [rule |-> "settlement_utr_bank", relationship |-> "settlement_bank"],
           [rule |-> "bank_reference_amount_date", relationship |-> "settlement_bank"],
           [rule |-> "unique_exact_amount_window", relationship |-> "settlement_bank"]>>

\* Four rules of the code follow that accept and reject nothing.
NoRules == {"many_to_one_aggregation", "one_to_many_split", "adjustment_aware_balance",
            "narration_token_verified"}

Relationships == {"order_payment", "payment_settlement", "settlement_bank"}

Modes == {"exact_id_only", "deterministic_full"}
LastRule(mode) == IF mode = "exact_id_only" THEN 3 ELSE 5

Abs(n) == IF n < 0 THEN -n ELSE n

=============================================================================

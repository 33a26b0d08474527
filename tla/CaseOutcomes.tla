------------------------------ MODULE CaseOutcomes ------------------------------
(***************************************************************************)
(* A case as the execution of a run leaves it and review takes it up.      *)
(* "proved": verify_case passes over its VERIFIED evidence; "provable": it *)
(* passes when the AI-suggested edge is added; "residual": residual_paise  *)
(* is not zero; "received": bank_receipt_state = CONFIRMED.                *)
(***************************************************************************)

CaseStates == {"RECONCILED", "PENDING_WITHIN_SLA", "INVALID_INPUT", "ACTIONABLE_EXCEPTION",
               "SUGGESTED_FOR_REVIEW", "APPROVED_PENDING_VERIFICATION",
               "REJECTED_SUGGESTION", "DEFERRED"}

Buckets == {"BANK_CONFIRMED", "SETTLEMENT_CONFIRMED_IN_TRANSIT", "AT_RISK", "UNRESOLVED"}

Case == [state : CaseStates,
         level : {"VERIFIED", "SUGGESTED", "UNRESOLVED"},
         bucket : Buckets,
         suggestion : {"none", "suggested", "verified"},
         ai : BOOLEAN, ambiguous : BOOLEAN, residual : BOOLEAN, received : BOOLEAN,
         proved : BOOLEAN, provable : BOOLEAN,
         owner : {"default", "assigned"}, task : BOOLEAN]

\* What classify_case, _residual, cash_bucket_for_case and the AI stage leave.
Classified ==
    {k \in Case :
        /\ k.owner = "default" /\ ~k.task
        /\ k.ambiguous => k.bucket = "UNRESOLVED"
        /\ k.ai <=> k.state = "SUGGESTED_FOR_REVIEW"
        /\ k.suggestion = IF k.ai THEN "suggested" ELSE "none"
        /\ k.level = CASE k.state = "RECONCILED" -> "VERIFIED"
                       [] k.ai -> "SUGGESTED"
                       [] OTHER -> "UNRESOLVED"
        /\ \/ /\ k.state = "RECONCILED"
              /\ k.proved /\ ~k.residual /\ k.received /\ ~k.ambiguous
              /\ k.bucket = "BANK_CONFIRMED"
           \/ /\ k.state = "PENDING_WITHIN_SLA"
              /\ ~k.ambiguous
              /\ k.bucket = "SETTLEMENT_CONFIRMED_IN_TRANSIT"
           \/ /\ k.state = "INVALID_INPUT"
              /\ ~k.proved /\ ~k.ambiguous
              /\ k.bucket = "UNRESOLVED"
           \/ /\ k.state = "ACTIONABLE_EXCEPTION" /\ ~k.ambiguous
              /\ k.bucket = "AT_RISK"
           \/ /\ k.state \in {"ACTIONABLE_EXCEPTION", "SUGGESTED_FOR_REVIEW"}
              /\ k.ambiguous}

=============================================================================

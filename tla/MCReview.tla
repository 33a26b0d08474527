-------------------------------- MODULE MCReview --------------------------------
(***************************************************************************)
(* Review of a case, with one representative of each kind of case that     *)
(* the execution leaves behind.                                            *)
(***************************************************************************)
EXTENDS Review

Kind(state, level, bucket, ambiguous, residual, received, proved, provable) ==
    [state |-> state, level |-> level, bucket |-> bucket,
     suggestion |-> IF state = "SUGGESTED_FOR_REVIEW" THEN "suggested" ELSE "none",
     ai |-> state = "SUGGESTED_FOR_REVIEW", ambiguous |-> ambiguous,
     residual |-> residual, received |-> received, proved |-> proved, provable |-> provable,
     owner |-> "default", task |-> FALSE]

Reconciled == Kind("RECONCILED", "VERIFIED", "BANK_CONFIRMED", FALSE, FALSE, TRUE, TRUE, FALSE)
AtRisk == Kind("ACTIONABLE_EXCEPTION", "UNRESOLVED", "AT_RISK", FALSE, TRUE, FALSE, FALSE, FALSE)
\* No bank record, and none needed: a settlement whose net is zero.
ZeroNet == Kind("ACTIONABLE_EXCEPTION", "UNRESOLVED", "AT_RISK", FALSE, FALSE, FALSE, TRUE, FALSE)
Ambiguous(provable) ==
    Kind("ACTIONABLE_EXCEPTION", "UNRESOLVED", "UNRESOLVED", TRUE, TRUE, FALSE, FALSE, provable)
Suggested(provable) ==
    Kind("SUGGESTED_FOR_REVIEW", "SUGGESTED", "UNRESOLVED", TRUE, TRUE, FALSE, FALSE, provable)

\* One of each kind.
MCOutcomes == {Reconciled, AtRisk, ZeroNet, Ambiguous(TRUE), Suggested(TRUE), Suggested(FALSE)}
===============================================================================

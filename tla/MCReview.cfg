SPECIFICATION FairSpec
CONSTANTS
    Nobody = Nobody
    Cases = {c1}
    Reviewers = {ann, bob}
    Dialog = {bob}
    Analysts = {ai}
    Outcomes <- MCOutcomes
    NoCase = NoCase
    MaxRequests = 3
INVARIANTS
    TypeOK
    RevisionIdentifiesContent
    InformedDecideOnce
    ConfirmedCashIsProved
    RefusedNeverPromoted
PROPERTIES
    InformedDecideOnWhatTheySaw
    ReconciledIsFinal
    EveryRequestIsHandled
\* Everybody may have done all they wanted to do.
CHECK_DEADLOCK FALSE

SPECIFICATION FairSpec
CONSTANTS
    NoRequest = NoRequest
    Requests = {r1, r2, r3}
    SourceTypes = {orders, payments}
    Lease = 3
INVARIANTS
    TypeOK
    Recoverable
    AtMostOneAttempt
    ResultMatchesEvidence
    SuccessIsDurable
    LeaseNeverOutlivesSilence
PROPERTIES
    FrozenStaysFrozen
    Settles
    ImplementsLifecycle

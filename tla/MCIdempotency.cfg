SPECIFICATION FairSpec
CONSTANTS
    r1 = r1
    r2 = r2
    r3 = r3
    a = a
    b = b
    None = None
    Requests = {r1, r2, r3}
    Bodies = {a, b}
    Body <- MCBody
    Lease = 2
    MaxSends = 2
    Cancellable = FALSE
INVARIANTS
    TypeOK
    PublishedTogether
    SuccessIsStored
PROPERTIES
    ClaimsAreRespected
    KeepsPromise
    EveryRequestEnds
\* Every client may have sent all it wants to send.
CHECK_DEADLOCK FALSE

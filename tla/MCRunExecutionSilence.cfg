SPECIFICATION FairSpec
CONSTANTS
    NoRequest = NoRequest
    Requests = {r1, r2}
    SourceTypes = {orders}
    Lease = 2
PROPERTY
    AbandonedOnlyAfterSilence

SPECIFICATION Spec
CONSTANTS
    c1 = c1
    c2 = c2
    ops = ops
    treasury = treasury
    Nobody = Nobody
    NoInput = NoInput
    Cases = {c1, c2}
    Owners = {ops, treasury}
    Default <- MCDefault
    Inputs = {i, j}
    MaxRuns = 3
    MaxReviews = 3
INVARIANTS
    TypeOK
    OnlyExplicitCrosses
    AssignmentsSurvive
    TasksSurvive
    DecisionsAreNumbered
\* The lineage may be complete and everything reviewed.
CHECK_DEADLOCK FALSE

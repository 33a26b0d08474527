SPECIFICATION FairSpec
CONSTANTS
    Nobody = Nobody
    Cases = {c1}
    Reviewers = {ann, bob}
    Dialog = {ann}
    Analysts = {ai}
    Outcomes <- MCOutcomes
    NoCase = NoCase
    MaxRequests = 2
PROPERTY
    DecidesOnWhatWasSeen
\* Everybody may have done all they wanted to do.
CHECK_DEADLOCK FALSE

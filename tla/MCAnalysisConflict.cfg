CONSTANTS
    Null = Null
    Unlimited = Unlimited
    Holidays <- MCHolidays
    WeekendDays <- MCWeekend
    SettlementDelay = 1
    BankDelay = 1
    FeeRate <- MCFee
    TaxRate <- MCTax
    CriticalAmount = 30
    TimingIds <- MCTimingIds
    CaseName <- MCCaseName
    Entities <- MCEntities
    Datasets <- MCDatasets
    AsOf = 3
    MaxRetries = 1
    MaxCasesPerRun = 1
    MaxCandidates = 4
    Unknown = Unknown
    MaxRequests = 1
SPECIFICATION ControlSpec
CHECK_DEADLOCK FALSE
INVARIANT
    SuggestionsAreFree

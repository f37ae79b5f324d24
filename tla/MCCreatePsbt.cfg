CONSTANTS
    none = none
    NoLock = none
    NoSequence = none
    NoAfs = NoAfs
    MTP <- MCMTP
    Granularity = 2
    Maturity = 3
    MaxLock = 9
    Candidates <- MCCandidates
    Selected = {1, 2}
    Overrides <- MCOverrides
    MinLocktimes <- MCMinLocktimes
    MaxRelativeHeight = 3
    MaxRandomOffset = 2
    FirstTip = 3
    MaxTip = 4
    MaxOverrides = 1
SPECIFICATION Spec
INVARIANTS
    TypeOK
    ScriptsSatisfied
    FilteredIsMinable
    AfsProtects
    GroupPredicatesAgree
PROPERTIES
    SpendableGroupStays
CHECK_DEADLOCK FALSE

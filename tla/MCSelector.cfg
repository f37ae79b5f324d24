CONSTANTS
    a = a
    b = b
    b2 = b2
    c = c
    d = d
    InputId <- MCInputId
    PrevOutpoint <- MCPrevOutpoint
    InputValue <- MCValue
    InputWeight <- MCWeight
    Segwit <- MCSegwit
    Policies <- MCPolicies
    Filters <- MCFilters
    Offers <- MCOffers
    MaxSteps = 3
    Requests <- MCRequests
    LockUnit <- MCLockUnit
    NoUnit = NoUnit
    NoReplace = NoReplace
    RateUnit = 2
    BaseWeight = 1
    ChangeWeight = 1
    WordSize = 8
SPECIFICATION SelectionSpec
INVARIANTS
    TypeOK
    CachesAgree
    SelectionPaysItsFee
    SelectionRespectsGroups
    DrawsAreUniform
    OrderTellsDraws
PROPERTIES
    NothingLostByRegroup
CHECK_DEADLOCK FALSE

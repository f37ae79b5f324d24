CONSTANTS
    cb = cb
    cb2 = cb2
    a = a
    b = b
    c = c
    d = d
    r = r
    none = none
    Txid <- MCTxids
    NoTxid <- none
    Inputs <- MCAllInputs
    Outputs <- MCAllOutputs
    Height = {1}
    Unconfirmed = Unconfirmed
    TipHeight = 1
    NoRbf = NoRbf
    MaxRequest = 2
    ForeignPsbts = {}
    MaxHeld = 0
    InputId <- MCInputId
    PrevOutpoint <- MCPrevOutpoint
    InputValue <- MCValue
    InputWeight <- MCWeight
    Segwit <- MCInputId
    Policies = {}
    Filters = {}
    Offers = {}
    MaxSteps = 1
    LockUnit <- MCLockUnit
    NoUnit = NoUnit
    NoReplace = NoReplace
    RateUnit = 8
    BaseWeight = 1
    ChangeWeight = 1
    Mine <- MCMine
    TxWeight <- MCTxWeight
    Incremental = 1
    Requests <- MCRequests
SPECIFICATION ReplacementSpec
INVARIANTS
    ReplacesWhatItEvicts
    NoNewUnconfirmedInput
    PaysForEvicted
CHECK_DEADLOCK FALSE

CONSTANTS
    cb = cb
    cb2 = cb2
    a = a
    b = b
    c = c
    d = d
    r = r
    none = none
    Txid <- MCTxid
    NoTxid <- none
    Inputs <- MCInputs
    Outputs <- MCOutputs
    Height = {1, 2}
    Unconfirmed = Unconfirmed
    TipHeight = 1
    ForeignPsbts <- MCForeign
    NoRbf = NoRbf
    MaxRequest = 2
    MaxHeld = 1
SPECIFICATION ViewSpec
VIEW BeyondRet
INVARIANTS
    MustReplacesEveryOriginal
    FilterKeepsRule2
    InputsAreGenuine

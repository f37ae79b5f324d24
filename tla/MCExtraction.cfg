CONSTANTS
    cb = cb
    cb2 = cb2
    a = a
    b = b
    c = c
    d = d
    r = r
    none = none
    Txid <- MCTxids
    NoTxid <- none
    Inputs <- MCAllInputs
    Outputs <- MCAllOutputs
    Height = {1}
    Unconfirmed = Unconfirmed
    TipHeight = 1
    ForeignPsbts <- MCNoForeign
    NoRbf = NoRbf
    MaxRequest = 3
    MaxHeld = 0
SPECIFICATION ViewSpec
INVARIANTS
    ViewTypeOK
    SpendsIndexesView
    NothingRestsOnEvicted
    OriginalsStayReplaceable
PROPERTIES
    FeesComeBack
    ImplementsView

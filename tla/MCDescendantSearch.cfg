CONSTANTS
    cb = cb
    cb2 = cb2
    a = a
    b = b
    c = c
    d = d
    r = r
    none = none
    Txid <- MCTxid
    NoTxid <- none
    Inputs <- MCInputs
    Outputs <- MCOutputs
SPECIFICATION Spec
INVARIANTS
    SearchInv
    FindsDescendants
PROPERTIES
    Terminates
CHECK_DEADLOCK FALSE

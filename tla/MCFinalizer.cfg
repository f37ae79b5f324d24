CONSTANTS
    alice = alice
    bob = bob
    carol = carol
    m1 = m1
    m2 = m2
    m3 = m3
    Master = {m1, m2, m3}
    NoOrigin = NoOrigin
    InputIndex = {1, 2, 3, 4}
    Key <- MCKey
    Source <- MCKeySource
    PlanKeys <- MCPlanKeys
    Taproot = {1, 3}
    Cosigner = {alice, bob, carol}
    KeyMaps <- MCKeyMaps
    Wallet = {alice, bob}
    Plans <- MCPlans
    Presigned = {4}
SPECIFICATION Spec
INVARIANTS
    TypeOK
    SignedByTheRightKeys
    FinalIsSigned
    ClearedWhenAllFinal
PROPERTIES
    FailureKeepsSignatures
    EventuallyFinalized

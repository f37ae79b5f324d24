CONSTANTS
    alice = alice
    bob = bob
    carol = carol
    m1 = m1
    m2 = m2
    m3 = m3
    Master = {m1, m2, m3}
    NoOrigin = NoOrigin
    InputIndex = {1, 2, 3, 4}
    Key <- LooseKey
    Source <- LooseKeySource
    PlanKeys <- LoosePlanKeys
    Taproot = {1, 3}
    Cosigner = {alice, bob, carol}
    KeyMaps <- LooseKeyMaps
    Wallet = {alice, bob}
    Plans <- MCPlans
    Presigned = {4}
SPECIFICATION Spec
INVARIANT SignedByTheRightKeys

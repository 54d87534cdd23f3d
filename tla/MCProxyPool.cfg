SPECIFICATION Spec
CONSTANTS
    tor1 = tor1
    tor2 = tor2
    static = static
    auto = auto
    admin = admin
    f1 = f1
    f2 = f2
    Nothing = Nothing
    Urls <- MCUrls
    Instances = 2
    TorUrl <- MCTorUrl
    Refreshers <- MCRefreshers
    Fetches <- MCFetches
    Bounds <- MCBounds
    MaxCircuit <- MCMaxCircuit
SYMMETRY MCSymmetry
INVARIANTS
    StartedIsBootstrapped
    NoStrayTor
    FreshCircuitAfterRefresh
PROPERTIES
    ClosedOnlyOnPurpose
CHECK_DEADLOCK FALSE

SPECIFICATION Spec
CONSTANTS
    p1 = p1
    p2 = p2
    p3 = p3
    Proxies <- MCProxies
    MaxLength = 4
    MaxWindow = 2
    BaseChunkSizes = {1, 2}
    ScaledSizes = {1, 3}
    NoProxy = NoProxy
INVARIANTS
    TypeOK
    RangesDivideBody
    ProxiesAligned
    WindowWithinResource
    NeighboursDiffer
PROPERTIES
    SplitEnds

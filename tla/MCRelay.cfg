SPECIFICATION Spec
CONSTANTS
    Wants <- MCWants
    Vias <- MCVias
    MaxSent = 4
    MaxReply = 2
INVARIANTS
    BytesInOrder
    BridgedWhileBothOpen
PROPERTIES
    EndIsPassedOn
CHECK_DEADLOCK FALSE

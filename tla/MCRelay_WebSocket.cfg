SPECIFICATION Spec
CONSTANTS
    Wants <- MCWants
    Vias <- MCVias
    MaxSent = 4
    MaxReply = 2
INVARIANTS
    WebSocketBridged
CHECK_DEADLOCK FALSE

SPECIFICATION Spec
CONSTANTS
    b1 = b1
    b2 = b2
    b3 = b3
    p1 = p1
    Bridges = {b1, b2}
    Ports = {p1}
    Calls = {"create_bridge", "delete_bridge"}
    MaxCalls = 3
SYMMETRY BridgeSymmetry
INVARIANTS
    DeletesDelete
CHECK_DEADLOCK FALSE

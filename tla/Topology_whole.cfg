SPECIFICATION Spec
CONSTANTS
    b1 = b1
    b2 = b2
    b3 = b3
    p1 = p1
    Bridges = {b1, b2, b3}
    Ports = {p1}
    Calls = {"create_bridge", "delete_bridge", "add_port", "delete_port", "create_pair", "delete_pair", "create_trunk", "extend_trunk", "delete_trunk", "shrink_trunk"}
    MaxCalls = 4
SYMMETRY BridgeSymmetry
INVARIANTS
    NoHalfTopology
CHECK_DEADLOCK FALSE

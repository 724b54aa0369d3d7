SPECIFICATION Spec
CONSTANTS
    b1 = b1
    b2 = b2
    p1 = p1
    Bridges = {b1, b2}
    Ports = {p1}
    Helpers = {"create_bridge", "add_port", "add_patch_ports", "set_controller",
               "delete_bridge_uuid", "delete_port_uuid", "wait"}
    Rivals = {"create_bridge", "add_port", "delete_bridge_uuid", "delete_port_uuid"}
    MaxSteps = 2
    MaxCommits = 2
    MaxOthers = 1
SYMMETRY BridgeSymmetry
INVARIANTS StatusIsHonest LeadingRefsResolve UuidDeletesSucceed
PROPERTIES AddsLand
CHECK_DEADLOCK FALSE

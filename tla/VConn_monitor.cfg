SPECIFICATION Spec
CONSTANTS
    f1 = f1
    f2 = f2
    Flows = {f1, f2}
    Ops = {"monitor_flows", "recv_flow_updates"}
    Droppable = {"recv_flow_updates"}
    XidModulus = 16
    MaxCalls = 5
    MaxAsync = 1
    MaxChanges = 3
SYMMETRY FlowSymmetry
INVARIANTS
    MonitorFollowsTable
CHECK_DEADLOCK FALSE

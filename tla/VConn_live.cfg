SPECIFICATION FairSpec
CONSTANTS
    f1 = f1
    f2 = f2
    Flows = {f1}
    Ops = {"send_flow", "send_flow_sync", "echo", "barrier", "dump_flows", "monitor_flows"}
    Droppable = {"dump_flows", "barrier"}
    XidModulus = 16
    MaxCalls = 3
    MaxAsync = 1
    MaxChanges = 0
PROPERTIES
    RequestsReturn
CHECK_DEADLOCK FALSE

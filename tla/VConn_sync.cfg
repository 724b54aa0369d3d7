SPECIFICATION Spec
CONSTANTS
    f1 = f1
    f2 = f2
    Flows = {f1}
    Ops = {"send_flow_sync"}
    Droppable = {}
    XidModulus = 16
    MaxCalls = 3
    MaxAsync = 0
    MaxChanges = 0
INVARIANTS
    SyncEnsuresInstalled
CHECK_DEADLOCK FALSE

SPECIFICATION Spec
CONSTANTS
    f1 = f1
    f2 = f2
    Flows = {f1, f2}
    Ops = {"send_flow", "send_flow_sync", "echo", "barrier", "dump_flows",
           "recv_packet_in", "try_recv_packet_in", "monitor_flows",
           "recv_flow_updates", "send_packet_out"}
    Droppable = {"recv_packet_in", "send_flow_sync"}
    XidModulus = 6
    MaxCalls = 4
    MaxAsync = 1
    MaxChanges = 1
SYMMETRY FlowSymmetry
INVARIANTS TypeOK EchoesAccounted NothingOwed ConfirmedFlowsApplied DumpIsSnapshot
CHECK_DEADLOCK FALSE

SPECIFICATION FairSpec
CONSTANTS
    r1 = r1
    r2 = r2
    a = a
    b = b
    NoRow = NoRow
    NoCopy = NoCopy
    Rows = {r1}
    Values = {a}
    Ops = {"commit", "list_dbs", "run", "wait"}
    Droppable = {"commit", "wait"}
    MaxCalls = 4
    MaxChanges = 1
    MaxEchoes = 1
PROPERTIES
    Converges
    CallsReturn
CHECK_DEADLOCK FALSE

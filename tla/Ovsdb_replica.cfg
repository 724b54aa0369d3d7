SPECIFICATION Spec
CONSTANTS
    r1 = r1
    r2 = r2
    a = a
    b = b
    NoRow = NoRow
    NoCopy = NoCopy
    Rows = {r1}
    Values = {a, b}
    Ops = {"commit", "cancel_monitor", "run", "wait"}
    Droppable = {"connect", "commit", "cancel_monitor", "wait"}
    MaxCalls = 4
    MaxChanges = 1
    MaxEchoes = 1
SYMMETRY ValueSymmetry
INVARIANTS
    TypeOK
    AnswerIsOwn
    EchoesAccounted
PROPERTIES
    ReplicaFollows
CHECK_DEADLOCK FALSE

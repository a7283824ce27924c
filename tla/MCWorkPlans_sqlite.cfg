SPECIFICATION Spec
CONSTANTS
    Task = k1
    StageKey = stage
    Agents = {a1, a2}
    Receipts = {r1}
    Keys = {k1, stage}
    Paths = {"p1"}
    WorkInputs <- MCWorkInputs
    Serializable = TRUE
    CallsFail = TRUE
    MaxCalls = 3
SYMMETRY Symmetry
INVARIANTS TypeOK NoOrphanTasks TasksReachItems AutoClosed ItemsAgreeWithTasks StagesFollowTasks
PROPERTIES MergeKeepsUnsetFields CloseOnlyWithoutOpenTasks

SPECIFICATION FairSpec
CONSTANTS
    Task = k1
    StageKey = stage
    Agents = {a1, a2}
    Receipts = {r1}
    Keys = {k1, stage}
    Paths = {"p1"}
    WorkInputs <- MCWorkInputs
    Serializable = FALSE
    CallsFail = FALSE
    MaxCalls = 3
PROPERTY DriftCloses

SPECIFICATION Spec
CONSTANTS
    task = task
    p = p
    q = q
    sp = sp
    c1 = c1
    c2 = c2
    NoId = NoId
    Agents = {a1, a2}
    Paths = {p, q}
    Contents = {c1, c2}
    FirstCommits <- OnlyPTracked
    ScopePaths = {sp}
    Covers <- SpCoversP
    Governance = {q}
    Openings = {task}
    PhaseOf <- ToExecute
    TagsOf <- Untagged
    ScopeOf <- Unscoped
    DoneFiles <- NoneOrP
    TestSets <- SmokeAndForQ
    Workflows <- DefaultOrForQ
    HandStatuses = {"complete"}
    Git = TRUE
    CaptureFails = TRUE
    MaxCalls = 3
    MaxEdits = 2
SYMMETRY Symmetry
CHECK_DEADLOCK FALSE
INVARIANTS
    DeltaIsExact
    AcceptedStaysInScope
    AcceptedMetGates
    VerdictHasBatch
    ChangesSelectTests
PROPERTIES
    BaselineIsKept

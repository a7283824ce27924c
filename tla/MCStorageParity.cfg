SPECIFICATION Spec
CONSTANTS
    Null = null
    Blank = blank
    TicksPerSecond = 2
    DefaultLimit = 1
    MaxLimit = 2
    MaxCalls = 3
    Groups <- MCGroups
    StubLists <- MCStubLists
    RuleSyncs <- MCRuleSyncs
    SyncInputs <- MCSyncInputs
    ScopeInputs <- MCScopeInputs
    RunInputs <- MCRunInputs
    ItemInputs <- MCItemInputs
    PlanInputs <- MCPlanInputs
    AttemptInputs <- MCAttemptInputs
    BatchInputs <- MCBatchInputs
    Words <- MCWords
INVARIANTS
    StoresAgree
    
    OrdersAgree
    RetriesAreIdle
CHECK_DEADLOCK FALSE

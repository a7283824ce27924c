SPECIFICATION Spec
CONSTANTS
    Procs = {p1, p2}
    Paths <- MCPaths
    Catalog <- MCCatalog
    Applied <- MCApplied
    UserEdits <- MCUserEdits
    GitIgnoreLines <- MCGitIgnoreLines
    EnvKeys <- MCEnvKeys
    MaxCalls = 2
    MaxEdits = 1
SYMMETRY Symmetric
INVARIANTS
    UserTextSurvives
    ReapplyIsIdle
    InitEstablishes
CHECK_DEADLOCK FALSE

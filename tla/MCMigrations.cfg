SPECIFICATION Spec
CONSTANTS
    Procs = {p1, p2}
    Starts <- MCStarts
SYMMETRY Symmetric
INVARIANTS
    NoRowLost
    ReadyMeansSettled
    RefusedOnlyAfterCut
    IndexesRestored
CHECK_DEADLOCK FALSE

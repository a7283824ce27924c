SPECIFICATION Spec
CONSTANTS
    Agents = {a1}
    Paths = {p}
    Contents = {c1}
    Scope = {p}
    Gates <- DedupeWithBudget
    MaxCalls = 3
    MaxEdits = 0
CHECK_DEADLOCK FALSE
INVARIANT WithinDocumentedBudget

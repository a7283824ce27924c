SPECIFICATION Spec
CONSTANTS
    Agents = {a1, a2}
    Paths = {p, q}
    Contents = {c1, c2}
    Scope = {p}
    Gates <- SmallestBudgets
    MaxCalls = 3
    MaxEdits = 2
SYMMETRY Symmetry
CHECK_DEADLOCK FALSE
INVARIANTS
    AcceptedWasReviewed
    CompleteNeedsPass
    SettledReviewDecides
    PassIsFinal
    BudgetBound
PROPERTIES
    ImplementsLedger

SPECIFICATION MergeSpec
CONSTANTS
    Task = task
    Parent = parent
    Empty = empty
    Keys = {task, parent}
    Reasons = {r1}
    Evidence = {e1, e2}
    Payloads <- MCPayloads
INVARIANTS EmptyParentClears

SPECIFICATION Spec
CONSTANTS
    Requests <- MCRequests
    max_body_bytes = 140
    MaxDepth = 3
CHECK_DEADLOCK FALSE
INVARIANTS TypeOK WalkExact RebuildFaithful SameAnswer

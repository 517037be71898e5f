CONSTANTS
    MaxBatch = 4
    Limit = 3
SPECIFICATION Spec
INVARIANT ShortReplyRaises

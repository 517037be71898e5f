CONSTANTS
    MaxSends = 2
    Chunk = 3
SPECIFICATION Spec
INVARIANT ReturnsWholeReply

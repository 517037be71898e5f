\* Three requests; a chunk of three tokens leaves the newline of a reply that
\* arrived in one piece behind, a shorter arrival cuts the end tag in two.
CONSTANTS
    MaxSends = 3
    Chunk = 3
SPECIFICATION FairSpec
INVARIANTS
    TypeOK
    OwnReply
    NoReadPastEnd
    QuietInPool
PROPERTIES
    ReadEnds
    ImplementsRoundTrips

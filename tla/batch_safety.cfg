\* Up to seven commands in groups of three: no group, one short group, full
\* groups only, and full groups with a rest of one or two.
CONSTANTS
    MaxBatch = 7
    Limit = 3
SPECIFICATION Spec
INVARIANTS
    TypeOK
    ResultsAligned
    WholeBatchReturned
    DecodedAsOwn
    UnsentGroup
    ExecutedInOrder

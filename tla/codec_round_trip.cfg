\* Every shape of field, alone and beside a table, with texts, rows and lists
\* of zero, one and two elements.
CONSTANTS
    Texts <- MCTexts
    Strip <- MCStrip
    Numbers <- MCNumbers
    Messages <- MCMessages
SPECIFICATION Spec
INVARIANTS
    RoundTrip
    RaisesForEmptyRowOnly
    DictsComeBack
    ClearsOnRequestOnly

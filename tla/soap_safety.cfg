\* Two users and four sessions: two logins at once, and a pair that is
\* exported, resumed, exported again by the resumed session and resumed.
CONSTANTS
    Sessions = {s1, s2, s3, s4}
    Users = {u1, u2}
    Nobody = Nobody
SPECIFICATION Spec
SYMMETRY Symmetry
INVARIANTS
    TypeOK
    PairIsOneLogin
    OwnNonce
    NoLeakedTransport

\* Three callers compete for two slots; a close() and a repeated one race
\* with them.  Four atoms: both slots are refilled once.
CONSTANTS
    Callers = {t1, t2, t3}
    Closers = {k1, k2}
    Atoms = {a1, a2, a3, a4}
    MaxSize = 2
    NoAtom = NoAtom
SPECIFICATION Spec
SYMMETRY Symmetry
INVARIANTS
    TypeOK
    PermitConservation
    ExclusiveLease
    SessionsBounded
    NoOrphanTransport
    NoWaiterForgotten
    SpoiledNeverReused
    ClosedPoolStaysEmpty
PROPERTIES
    ImplementsLeases

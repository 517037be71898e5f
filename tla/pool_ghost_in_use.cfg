\* One slot: a cancelled discard leaves its session registered.
CONSTANTS
    Callers = {t1, t2}
    Closers = {k1, k2}
    Atoms = {a1, a2, a3}
    MaxSize = 1
    NoAtom = NoAtom
SPECIFICATION Spec
SYMMETRY Symmetry
INVARIANTS
    InUseCountsLeases

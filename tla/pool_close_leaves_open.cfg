\* Two callers, one of them still connecting when close() has ended.
CONSTANTS
    Callers = {t1, t2}
    Closers = {k1, k2}
    Atoms = {a1, a2, a3}
    MaxSize = 2
    NoAtom = NoAtom
SPECIFICATION Spec
SYMMETRY Symmetry
INVARIANTS
    CloseClosesEverySession

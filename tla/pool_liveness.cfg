\* Three callers for one slot, so that a queue of two forms behind a holder;
\* two atoms, so that the slot is refilled once.  No symmetry: it is not
\* sound for liveness.
CONSTANTS
    Callers = {t1, t2, t3}
    Closers = {k1}
    Atoms = {a1, a2}
    MaxSize = 1
    NoAtom = NoAtom
SPECIFICATION FairSpec
PROPERTIES
    EveryWaiterServed
    CloseReturns
    CloseEventuallyEmpties

\* Two callers share one slot, so that a session goes from one to the other,
\* or is replaced; each call has up to two documents, a login has one.  A
\* close() races with them.  No symmetry: it is not sound for liveness.
CONSTANTS
    Callers = {t1, t2}
    Closers = {k1}
    Atoms = {a1, a2}
    MaxSize = 1
    NoAtom = NoAtom
    MaxCalls = 1
    MaxGroups = 2
    LoginTrips = 1
SPECIFICATION CallsFairSpec
INVARIANTS
    CallsTypeOK
    OwnReplies
    ExecutedOnce
    LoggedInFirst
    OneInDoubt
PROPERTIES
    ImplementsService
    EveryCallEnds

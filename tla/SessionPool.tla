---------------------------- MODULE SessionPool ----------------------------
(***************************************************************************)
(* The session pool of mercury-ocip-fast (pool/session_pool.py), together  *)
(* with the factory the client gives it (client.py, _default_factory).     *)
(*                                                                         *)
(* The program runs on one asyncio event loop: a coroutine keeps control   *)
(* until it awaits something that is not ready.  One action of this module *)
(* is therefore one stretch of code between two suspension points, and pc  *)
(* names the await at which a coroutine is parked.                         *)
(*                                                                         *)
(* Callers are the coroutines inside `async with pool.session()`; Closers  *)
(* are the calls of close().  Every suspension point of a caller may also  *)
(* end in a cancellation, of a close() too.                                *)
(***************************************************************************)
EXTENDS Integers, FiniteSets, SequencesExt

CONSTANTS
    Callers,   \* coroutines that borrow a session
    Closers,   \* calls of SessionPool.close()
    Atoms,     \* identities of session atoms the factory can make
    MaxSize,   \* pool_settings.max_size
    NoAtom     \* no session held

ASSUME PoolAssumption ==
    /\ MaxSize \in Nat
    /\ IsFiniteSet(Callers)
    /\ NoAtom \notin Atoms

VARIABLES
    closed,    \* _closed
    permits,   \* value of _semaphore
    queue,     \* callers parked in _semaphore.acquire(), oldest first
    idle,      \* _idle, a LIFO queue: the last element is taken first
    all,       \* _all, the registered sessions
    conn,      \* transport of each atom
    pc,        \* where each caller is parked
    held,      \* the session each caller is working on
    closePc,   \* where each close() is parked
    closing,   \* the session the one active close() is closing
    todo,      \* what is left of the snapshot the forced close walks over
    spoiled    \* history: sessions on which a caller's block raised

poolVars  == <<closed, permits, queue, idle, all>>
closeVars == <<closePc, closing, todo>>
vars == <<closed, permits, queue, idle, all, conn, pc, held,
          closePc, closing, todo, spoiled>>

(***************************************************************************)
(* A caller parked at one of HoldsPermit has taken a slot of the semaphore *)
(* and must give it back; at one of HoldsAtom it works on a session.       *)
(***************************************************************************)
HoldsAtom   == {"discarding", "login", "abandoning", "using", "returning"}
HoldsPermit == HoldsAtom \cup {"granted", "opening"}
CallerPc    == HoldsPermit \cup {"out", "waiting", "refused"}
CloseActive == {"draining", "waiting", "notified", "forcing"}
ClosePc     == CloseActive \cup {"ready", "closed", "returned", "cancelled"}
\* "dropped": the peer hung up, is_alive() is false, close() was not called.
ConnState   == {"none", "fresh", "stale", "dropped", "closed"}

\* is_alive(): the transport is neither closed by us nor by the peer.
IsAlive(a) == conn[a] \in {"fresh", "stale"}
\* A transport that close() has not been called on.
IsOpen(a) == conn[a] \in {"fresh", "stale", "dropped"}
OpenAtoms == {a \in Atoms : IsOpen(a)}

\* _in_use
InUse == Cardinality(all) - Len(idle)
\* Semaphore.locked(): waiters that were woken but did not run yet count too.
Locked == permits = 0 \/ queue # <<>> \/ \E t \in Callers : pc[t] = "granted"

InitialPermits == MaxSize

Init ==
    /\ closed = FALSE
    /\ permits = InitialPermits
    /\ queue = <<>>
    /\ idle = <<>>
    /\ all = {}
    /\ conn = [a \in Atoms |-> "none"]
    /\ pc = [t \in Callers |-> "out"]
    /\ held = [t \in Callers |-> NoAtom]
    /\ closePc = [k \in Closers |-> "ready"]
    /\ closing = NoAtom
    /\ todo = {}
    /\ spoiled = {}

-----------------------------------------------------------------------------
(* The semaphore.  release() hands the slot straight to the oldest waiter. *)

\* Caller t gives its slot back and is parked at next (or is out of the pool).
ReleasePermit(t, next) ==
    \/ /\ queue = <<>>
       /\ permits' = permits + 1
       /\ pc' = [pc EXCEPT ![t] = next]
       /\ UNCHANGED queue
    \/ /\ queue # <<>>
       /\ queue' = Tail(queue)
       /\ pc' = [pc EXCEPT ![t] = next, ![Head(queue)] = "granted"]
       /\ UNCHANGED permits

FailAcquireSilently(t) ==                                          \* mutant
    /\ permits' = permits + 1
    /\ pc' = [pc EXCEPT ![t] = "out"]
    /\ held' = [held EXCEPT ![t] = NoAtom]
    /\ UNCHANGED queue

\* What every error path out of acquire() does: `except BaseException`.
FailAcquire(t) ==
    /\ ReleasePermit(t, "out")
    /\ held' = [held EXCEPT ![t] = NoAtom]

-----------------------------------------------------------------------------
(* acquire() *)

Reusable(a) == IsAlive(a) /\ conn[a] # "stale"

PickOverIdle(t, p) ==                                              \* mutant
    \/ /\ pc' = [p EXCEPT ![t] = "opening"]
       /\ held' = [held EXCEPT ![t] = NoAtom]
       /\ UNCHANGED <<idle, conn>>
    \/ /\ idle # <<>>
       /\ idle' = Front(idle)
       /\ held' = [held EXCEPT ![t] = Last(idle)]
       /\ pc' = [p EXCEPT ![t] = "using"]
       /\ UNCHANGED conn

PickWithoutRemoving(t, p) ==                                       \* mutant
    \/ /\ idle = <<>>
       /\ pc' = [p EXCEPT ![t] = "opening"]
       /\ held' = [held EXCEPT ![t] = NoAtom]
       /\ UNCHANGED <<idle, conn>>
    \/ /\ idle # <<>>
       /\ held' = [held EXCEPT ![t] = Last(idle)]
       /\ pc' = [p EXCEPT ![t] = "using"]
       /\ UNCHANGED <<idle, conn>>

(***************************************************************************)
(* The loop of acquire(), entered by t with a slot in hand, up to its next *)
(* suspension: a good idle session is handed out at once, a bad one is     *)
(* closed (close() shuts the transport before it awaits), and with none    *)
(* left the factory is called.  p is pc as the semaphore left it.          *)
(***************************************************************************)
Pick(t, p) ==
    \/ /\ idle = <<>>
       /\ pc' = [p EXCEPT ![t] = "opening"]
       /\ held' = [held EXCEPT ![t] = NoAtom]
       /\ UNCHANGED <<idle, conn>>
    \/ /\ idle # <<>>
       /\ idle' = Front(idle)
       /\ held' = [held EXCEPT ![t] = Last(idle)]
       /\ \/ /\ Reusable(Last(idle))
             /\ pc' = [p EXCEPT ![t] = "using"]
             /\ UNCHANGED conn
          \/ /\ ~Reusable(Last(idle))
             /\ pc' = [p EXCEPT ![t] = "discarding"]
             /\ conn' = [conn EXCEPT ![Last(idle)] = "closed"]

\* MErrorPoolClosed: the pool never reopens, so the caller is done with it.
Refuse(t) ==
    /\ pc[t] = "out"
    /\ closed
    /\ pc' = [pc EXCEPT ![t] = "refused"]
    /\ UNCHANGED <<poolVars, conn, held, closeVars, spoiled>>

Acquire(t) ==
    /\ pc[t] = "out"
    /\ ~closed
    /\ \/ /\ Locked
          /\ queue' = Append(queue, t)
          /\ pc' = [pc EXCEPT ![t] = "waiting"]
          /\ UNCHANGED <<permits, idle, conn, held>>
       \/ /\ ~Locked
          /\ permits' = permits - 1
          /\ Pick(t, pc)
          /\ UNCHANGED queue
    /\ UNCHANGED <<closed, all, closeVars, spoiled>>

\* acquire_timeout passes (MErrorPoolExhausted) or the caller is cancelled.
GiveUp(t) ==
    /\ pc[t] = "waiting"
    /\ \E i \in 1..Len(queue) : queue[i] = t /\ queue' = RemoveAt(queue, i)
    /\ pc' = [pc EXCEPT ![t] = "out"]
    /\ UNCHANGED <<closed, permits, idle, all, conn, held, closeVars, spoiled>>

\* The same, in the turn of the loop in which the slot was handed over: the
\* semaphore passes the slot on to the next waiter.
GiveUpGranted(t) ==
    /\ pc[t] = "granted"
    /\ ReleasePermit(t, "out")
    /\ UNCHANGED <<closed, idle, all, conn, held, closeVars, spoiled>>

\* The woken caller runs.  It first wakes the next waiter if slots are left,
\* and it goes on without a second look at _closed.
Resume(t) ==
    /\ pc[t] = "granted"
    /\ \/ /\ permits > 0 /\ queue # <<>>
          /\ permits' = permits - 1
          /\ queue' = Tail(queue)
          /\ Pick(t, [pc EXCEPT ![Head(queue)] = "granted"])
       \/ /\ permits = 0 \/ queue = <<>>
          /\ Pick(t, pc)
          /\ UNCHANGED <<permits, queue>>
    /\ UNCHANGED <<closed, all, closeVars, spoiled>>

\* _discard() of a bad idle session ends; the loop goes round again.
DiscardDone(t) ==
    /\ pc[t] = "discarding"
    /\ all' = all \ {held[t]}
    /\ Pick(t, pc)
    /\ UNCHANGED <<closed, permits, queue, closeVars, spoiled>>

\* Cancelled inside atom.close(): suppress(Exception) lets it through, so
\* the session stays registered.
DiscardCancelled(t) ==
    /\ pc[t] = "discarding"
    /\ FailAcquire(t)
    /\ UNCHANGED <<closed, idle, all, conn, closeVars, spoiled>>

-----------------------------------------------------------------------------
(* _make() and the factory: open a transport, then log it in. *)

OpenOk(t) ==
    /\ pc[t] = "opening"
    /\ \E a \in Atoms :
          /\ conn[a] = "none"
          /\ conn' = [conn EXCEPT ![a] = "fresh"]
          /\ held' = [held EXCEPT ![t] = a]
    /\ pc' = [pc EXCEPT ![t] = "login"]
    /\ UNCHANGED <<poolVars, closeVars, spoiled>>

OpenFailLeaksPermit(t) ==                                          \* mutant
    /\ pc[t] = "opening"
    /\ pc' = [pc EXCEPT ![t] = "out"]
    /\ UNCHANGED <<poolVars, conn, held, closeVars, spoiled>>

\* No connection, connect_timeout, or cancelled.
OpenFail(t) ==
    /\ pc[t] = "opening"
    /\ FailAcquire(t)
    /\ UNCHANGED <<closed, idle, all, conn, closeVars, spoiled>>

\* The login is accepted and the session is registered and handed out.
LoginOk(t) ==
    /\ pc[t] = "login"
    /\ all' = all \cup {held[t]}
    /\ pc' = [pc EXCEPT ![t] = "using"]
    /\ UNCHANGED <<closed, permits, queue, idle, conn, held, closeVars, spoiled>>

LoginFailKeepsTransport(t) ==                                      \* mutant
    /\ pc[t] = "login"
    /\ FailAcquire(t)
    /\ UNCHANGED <<closed, idle, all, conn, closeVars, spoiled>>

\* Rejected, transport error, or cancelled: the factory closes the session.
LoginFail(t) ==
    /\ pc[t] = "login"
    /\ conn' = [conn EXCEPT ![held[t]] = "closed"]
    /\ pc' = [pc EXCEPT ![t] = "abandoning"]
    /\ UNCHANGED <<poolVars, held, closeVars, spoiled>>

AbandonReleasesTwice(t) ==                                         \* mutant
    /\ pc[t] = "abandoning"
    /\ permits' = permits + 2
    /\ pc' = [pc EXCEPT ![t] = "out"]
    /\ held' = [held EXCEPT ![t] = NoAtom]
    /\ UNCHANGED <<closed, queue, idle, all, conn, closeVars, spoiled>>

\* That close() ends or is cancelled in turn; either way acquire() raises.
AbandonDone(t) ==
    /\ pc[t] = "abandoning"
    /\ FailAcquire(t)
    /\ UNCHANGED <<closed, idle, all, conn, closeVars, spoiled>>

-----------------------------------------------------------------------------
(* release(), reached from the finally of session() *)

ReturnsIgnoringHealth(t, healthy) == IsAlive(held[t]) /\ ~closed   \* mutant
ReturnsIgnoringClose(t, healthy) == healthy /\ IsAlive(held[t])    \* mutant

ReturnsToIdle(t, healthy) == healthy /\ IsAlive(held[t]) /\ ~closed

\* The block ends normally (healthy) or raises, a cancellation included.
Release(t, healthy) ==
    /\ pc[t] = "using"
    /\ \/ /\ ReturnsToIdle(t, healthy)
          /\ idle' = Append(idle, held[t])
          /\ held' = [held EXCEPT ![t] = NoAtom]
          /\ ReleasePermit(t, "out")
          /\ UNCHANGED conn
       \/ /\ ~ReturnsToIdle(t, healthy)
          /\ conn' = [conn EXCEPT ![held[t]] = "closed"]
          /\ pc' = [pc EXCEPT ![t] = "returning"]
          /\ UNCHANGED <<permits, queue, idle, held>>
    /\ spoiled' = IF healthy THEN spoiled ELSE spoiled \cup {held[t]}
    /\ UNCHANGED <<closed, all, closeVars>>

\* notify_all(): only the one active close() can wait on the condition.
NotifyAll ==
    closePc' = [k \in Closers |->
                  IF closePc[k] = "waiting" THEN "notified" ELSE closePc[k]]

ReturnDone(t) ==
    /\ pc[t] = "returning"
    /\ all' = all \ {held[t]}
    /\ ReleasePermit(t, "out")
    /\ held' = [held EXCEPT ![t] = NoAtom]
    /\ IF closed THEN NotifyAll ELSE UNCHANGED closePc
    /\ UNCHANGED <<closed, idle, conn, closing, todo, spoiled>>

\* Cancelled inside atom.close(): the slot comes back, the session stays
\* registered and nobody is notified.
ReturnCancelled(t) ==
    /\ pc[t] = "returning"
    /\ ReleasePermit(t, "out")
    /\ held' = [held EXCEPT ![t] = NoAtom]
    /\ UNCHANGED <<closed, idle, all, conn, closeVars, spoiled>>

-----------------------------------------------------------------------------
(* close() *)

Finish(k) ==
    /\ closePc' = [closePc EXCEPT ![k] = "closed"]
    /\ all' = {}
    /\ closing' = NoAtom
    /\ todo' = {}

\* The drain loop of close() up to its next suspension; rest is _all as the
\* _discard() before it left it.
Drain(k, rest) ==
    \/ /\ idle # <<>>
       /\ closing' = Last(idle)
       /\ idle' = Front(idle)
       /\ conn' = [conn EXCEPT ![Last(idle)] = "closed"]
       /\ closePc' = [closePc EXCEPT ![k] = "draining"]
       /\ all' = rest
       /\ UNCHANGED todo
    \/ /\ idle = <<>>
       /\ Cardinality(rest) > 0
       /\ closePc' = [closePc EXCEPT ![k] = "waiting"]
       /\ closing' = NoAtom
       /\ all' = rest
       /\ UNCHANGED <<idle, conn, todo>>
    \/ /\ idle = <<>>
       /\ Cardinality(rest) = 0
       /\ Finish(k)
       /\ UNCHANGED <<idle, conn>>

CloseWithoutFlag(k) ==                                             \* mutant
    /\ closePc[k] = "ready"
    /\ ~closed
    /\ Drain(k, all)
    /\ UNCHANGED <<closed, permits, queue, pc, held, spoiled>>

Close(k) ==
    /\ closePc[k] = "ready"
    /\ ~closed
    /\ closed' = TRUE
    /\ Drain(k, all)
    /\ UNCHANGED <<permits, queue, pc, held, spoiled>>

\* A second close() returns at once, whatever the first one is doing.
CloseAgain(k) ==
    /\ closePc[k] = "ready"
    /\ closed
    /\ closePc' = [closePc EXCEPT ![k] = "returned"]
    /\ UNCHANGED <<poolVars, conn, pc, held, closing, todo, spoiled>>

DrainDone(k) ==
    /\ closePc[k] = "draining"
    /\ Drain(k, all \ {closing})
    /\ UNCHANGED <<closed, permits, queue, pc, held, spoiled>>

\* The condition was notified: Condition.wait_for tests its predicate again.
WaitResume(k) ==
    /\ closePc[k] = "notified"
    /\ \/ InUse = 0 /\ Finish(k)
       \/ /\ InUse # 0
          /\ closePc' = [closePc EXCEPT ![k] = "waiting"]
          /\ UNCHANGED <<all, closing, todo>>
    /\ UNCHANGED <<closed, permits, queue, idle, conn, pc, held, spoiled>>

\* The forced close over what is left of its snapshot of _all.
ForceClose(k, registered, rest) ==
    \/ /\ rest = {}
       /\ Finish(k)
       /\ UNCHANGED conn
    \/ \E a \in rest :
          /\ closing' = a
          /\ todo' = rest \ {a}
          /\ conn' = [conn EXCEPT ![a] = "closed"]
          /\ closePc' = [closePc EXCEPT ![k] = "forcing"]
          /\ all' = registered

WaitForever(k) == FALSE /\ UNCHANGED vars                          \* mutant

\* wait_timeout passes before in-use sessions came back.
WaitTimeout(k) ==
    /\ closePc[k] \in {"waiting", "notified"}
    /\ ForceClose(k, all, all)
    /\ UNCHANGED <<closed, permits, queue, idle, pc, held, spoiled>>

ForceDone(k) ==
    /\ closePc[k] = "forcing"
    /\ ForceClose(k, all \ {closing}, todo)
    /\ UNCHANGED <<closed, permits, queue, idle, pc, held, spoiled>>

\* The coroutine inside close() is cancelled; _closed stays true.
CloseCancelled(k) ==
    /\ closePc[k] \in CloseActive
    /\ closePc' = [closePc EXCEPT ![k] = "cancelled"]
    /\ closing' = NoAtom
    /\ todo' = {}
    /\ UNCHANGED <<poolVars, conn, pc, held, spoiled>>

-----------------------------------------------------------------------------
(* The environment: a peer hangs up, a session outlives max_ttl_seconds. *)

Drop(a) ==
    /\ IsAlive(a)
    /\ conn' = [conn EXCEPT ![a] = "dropped"]
    /\ UNCHANGED <<poolVars, pc, held, closeVars, spoiled>>

Expire(a) ==
    /\ conn[a] = "fresh"
    /\ conn' = [conn EXCEPT ![a] = "stale"]
    /\ UNCHANGED <<poolVars, pc, held, closeVars, spoiled>>

-----------------------------------------------------------------------------

\* The only states in which nothing may happen any more.
Terminated ==
    /\ \A t \in Callers : pc[t] = "refused"
    /\ \A k \in Closers : closePc[k] \in {"closed", "returned", "cancelled"}
    /\ UNCHANGED vars

CallerStep(t) ==
    \/ Refuse(t) \/ Acquire(t) \/ GiveUp(t) \/ GiveUpGranted(t) \/ Resume(t)
    \/ DiscardDone(t) \/ DiscardCancelled(t)
    \/ OpenOk(t) \/ OpenFail(t) \/ LoginOk(t) \/ LoginFail(t) \/ AbandonDone(t)
    \/ \E healthy \in BOOLEAN : Release(t, healthy)
    \/ ReturnDone(t) \/ ReturnCancelled(t)

CloserStep(k) ==
    \/ Close(k) \/ CloseAgain(k) \/ DrainDone(k)
    \/ WaitResume(k) \/ WaitTimeout(k) \/ ForceDone(k) \/ CloseCancelled(k)

Next ==
    \/ \E t \in Callers : CallerStep(t)
    \/ \E k \in Closers : CloserStep(k)
    \/ \E a \in Atoms : Drop(a) \/ Expire(a)
    \/ Terminated

Spec == Init /\ [][Next]_vars

(***************************************************************************)
(* Fairness: the loop runs every ready coroutine, connect, read and close  *)
(* are bounded by timeouts, a caller's block ends, and the timer of the    *)
(* wait in close() fires.  Nothing is assumed of the choice to acquire, to *)
(* close or to cancel, nor that acquire_timeout ever rescues a waiter.     *)
(***************************************************************************)
CallerFairness(t) ==
    /\ WF_vars(Resume(t))
    /\ WF_vars(DiscardDone(t))
    /\ WF_vars(OpenOk(t) \/ OpenFail(t))
    /\ WF_vars(LoginOk(t) \/ LoginFail(t))
    /\ WF_vars(AbandonDone(t))
    /\ WF_vars(\E healthy \in BOOLEAN : Release(t, healthy))
    /\ WF_vars(ReturnDone(t))

CloserFairness(k) ==
    /\ WF_vars(DrainDone(k))
    /\ WF_vars(WaitResume(k))
    /\ WF_vars(WaitTimeout(k))
    /\ WF_vars(ForceDone(k))

FairSpec ==
    /\ Spec
    /\ \A t \in Callers : CallerFairness(t)
    /\ \A k \in Closers : CloserFairness(k)

-----------------------------------------------------------------------------
(* Properties *)

\* The type invariant of the pool's state.
TypeOK ==
    /\ closed \in BOOLEAN
    /\ permits \in 0..MaxSize
    /\ queue \in Seq(Callers)
    /\ idle \in Seq(Atoms)
    /\ all \in SUBSET Atoms
    /\ conn \in [Atoms -> ConnState]
    /\ pc \in [Callers -> CallerPc]
    /\ held \in [Callers -> Atoms \cup {NoAtom}]
    /\ closePc \in [Closers -> ClosePc]
    /\ closing \in Atoms \cup {NoAtom}
    /\ todo \in SUBSET Atoms
    /\ spoiled \in SUBSET Atoms

Holders == {t \in Callers : pc[t] \in HoldsPermit}

\* No slot of the semaphore is ever lost or doubled, on any error path,
\* timeout or cancellation of acquire() and release(): the free slots and the
\* callers that owe one always add up to max_size.
PermitConservation == permits + Cardinality(Holders) = MaxSize

\* A session is with one caller, or in the idle queue once, never both: two
\* commands are never sent over the same session at the same time.
ExclusiveLease ==
    /\ IsInjective(idle)
    /\ \A t \in Callers :
          pc[t] \in HoldsAtom => /\ held[t] \in Atoms
                                 /\ held[t] \notin ToSet(idle)
    /\ \A t, u \in Callers :
          /\ t # u
          /\ pc[t] \in HoldsAtom
          /\ pc[u] \in HoldsAtom
          => held[t] # held[u]

\* However acquire, release, discard and close interleave, never more than
\* max_size transports are open, those still logging in included.
SessionsBounded == Cardinality(OpenAtoms) <= MaxSize

\* No transport is forgotten while open: whichever await fails or is
\* cancelled, it is in the idle queue or some caller has it and will let go.
NoOrphanTransport ==
    \A a \in OpenAtoms : \/ a \in ToSet(idle)
                         \/ \E t \in Callers :
                               pc[t] \in {"login", "using"} /\ held[t] = a

\* A free slot never coexists with a parked caller unless a caller that was
\* already woken is about to run and will wake the next one.
NoWaiterForgotten ==
    permits > 0 /\ queue # <<>> => \E t \in Callers : pc[t] = "granted"

\* A session whose block raised (a reply may still be on its way to it) is
\* never idle again and never in the hands of another caller.
SpoiledNeverReused ==
    \A a \in spoiled : /\ a \notin ToSet(idle)
                       /\ \A t \in Callers : pc[t] = "using" => held[t] # a

\* Once the first close() has run to its end the idle queue is empty for
\* good: a release() that races with it never puts a session back.
ClosedPoolStaysEmpty ==
    (\E k \in Closers : closePc[k] = "closed") => idle = <<>>

\* Even if acquire_timeout never fires, a parked caller leaves the queue:
\* slots are handed on by every way a session can be given back or lost.
EveryWaiterServed ==
    \A t \in Callers : pc[t] = "waiting" ~> pc[t] # "waiting"

\* close() ends although callers may keep their sessions or a notification
\* may be lost: its timed wait always falls through to the forced close.
CloseReturns ==
    \A k \in Closers : closePc[k] \in CloseActive ~> closePc[k] \notin CloseActive

\* After a close() that ran to its end, the sessions that calls in flight
\* still create are closed too, and none is open from then on.
CloseEventuallyEmpties ==
    (\E k \in Closers : closePc[k] = "closed") ~> [](OpenAtoms = {})

\* The session a caller may send on: its factory's while it logs in, then its own.
LentTo(t) == IF pc[t] \in {"login", "using"} THEN held[t] ELSE NoAtom
Leases == [t \in Callers |-> LentTo(t)]
MadeAtoms == {a \in Atoms : conn[a] # "none"}

Lease == INSTANCE LeasePool WITH
    Limit <- MaxSize,
    live  <- OpenAtoms,
    made  <- MadeAtoms,
    lease <- Leases,
    shut  <- closed

\* The pool implements LeasePool: seen from a caller it is a set of at most
\* max_size open sessions that are lent, returned, closed and never reused,
\* and only a pool that was closed takes a session from under its caller.
ImplementsLeases == Lease!Spec

-----------------------------------------------------------------------------
(* What docstrings say and the code does not do. *)

\* session_pool.py:229, "Shut the pool down and close every session": when
\* close() has run to its end no session is open.
CloseClosesEverySession ==
    (\E k \in Closers : closePc[k] = "closed") => OpenAtoms = {}

\* session_pool.py:57, _in_use counts the sessions checked out: with every
\* caller out of the pool and no close() at work, it is zero.
InUseCountsLeases ==
    /\ \A t \in Callers : pc[t] \in {"out", "refused"}
    /\ \A k \in Closers : closePc[k] \notin CloseActive
    => InUse = 0
=============================================================================

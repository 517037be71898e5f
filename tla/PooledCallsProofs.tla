------------------------- MODULE PooledCallsProofs -------------------------
(***************************************************************************)
(* What PooledCalls promises, proved for every number of callers, sessions *)
(* and documents.  What is known of the pool comes from SessionPoolProofs: *)
(* every step of PooledCalls is a step of the pool or leaves it alone.     *)
(* Last comes that the calls over the pool implement CommandService.       *)
(***************************************************************************)
EXTENDS PooledCalls, SessionPoolProofs

-----------------------------------------------------------------------------
(* The pool under the calls.                                               *)

LEMMA CallStepIsCallerStep ==
    ASSUME NEW t \in Callers, CallStep(t)
    PROVE  CallerStep(t) \/ UNCHANGED vars
    <1>1. CASE Begin(t) \/ Refused(t) \/ Proceed(t) \/ NoSession(t)
        BY <1>1 DEF Begin, Refused, Proceed, NoSession, CallerStep
    <1>2. CASE LoggedIn(t) \/ LoginBroken(t) \/ GivenBack(t) \/ GivenBackCancelled(t)
        BY <1>2 DEF LoggedIn, LoginBroken, GivenBack, GivenBackCancelled, CallerStep
    <1>3. CASE Complete(t) \/ Fail(t)
        BY <1>3 DEF Complete, Fail, CallerStep
    <1>4. CASE Send(t) \/ Receive(t)
        BY <1>4 DEF Send, Receive
    <1>. QED  BY <1>1, <1>2, <1>3, <1>4 DEF CallStep

LEMMA CallsNextIsNext == [CallsNext]_allVars => [Next]_vars
    <1>1. ASSUME NEW t \in Callers, CallStep(t)
          PROVE  [Next]_vars
        BY <1>1, CallStepIsCallerStep DEF Next
    <1>2. ASSUME NEW a \in Atoms, Execute(a)
          PROVE  [Next]_vars
        BY <1>2 DEF Execute
    <1>3. PoolStep => [Next]_vars
        BY DEF PoolStep, Next
    <1>4. Ended \/ UNCHANGED allVars => [Next]_vars
        BY DEF Ended, allVars
    <1>. QED  BY <1>1, <1>2, <1>3, <1>4 DEF CallsNext

LEMMA PoolInvariance == CallsSpec => []IInv
    <1>1. CallsInit => Init
        BY DEF CallsInit
    <1>2. CallsSpec => Spec
        BY <1>1, CallsNextIsNext, PTL DEF CallsSpec, Spec
    <1>. QED  BY <1>2, Invariance, PTL

-----------------------------------------------------------------------------
(* What the calls know of the sessions.                                    *)

\* Nothing is owed on session a.
Clear(a) == inbox[a] = <<>> /\ outbox[a] = <<>>

\* One document is with the server of a, or its reply on the way back.
Owes(a, d) ==
    \/ inbox[a] = <<d>> /\ outbox[a] = <<>>
    \/ inbox[a] = <<>> /\ outbox[a] = <<d>>

Awaited(t) == Document(t, Len(replies[t]) + 1)

\* A session nobody has used, or that is idle, owes nothing; one in use owes
\* at most the reply its caller waits for.
WireOK ==
    /\ \A a \in Atoms : conn[a] = "none" \/ a \in ToSet(idle) => Clear(a)
    /\ \A t \in Callers :
          pc[t] \in {"login", "using"} =>
             \/ Clear(held[t])
             \/ t \in awaiting /\ Owes(held[t], Awaited(t))

\* Until a login begins its caller has no replies.
NoEarlyReplies ==
    \A t \in Callers :
       pc[t] \in {"waiting", "granted", "discarding", "opening", "abandoning"}
       => replies[t] = <<>>

CallInv == CallsTypeOK /\ WireOK /\ NoEarlyReplies /\ OwnReplies

(***************************************************************************)
(* What a step of caller t that touches no document may do.                *)
(***************************************************************************)
OthersKept(t) ==
    \A u \in Callers \ {t} :
       /\ call'[u] = call[u]
       /\ outcome'[u] = outcome[u]
       /\ replies'[u] = replies[u]
       /\ u \in awaiting' <=> u \in awaiting

Anew(t) == replies'[t] = <<>>

Leaving(t) ==
    /\ replies'[t] = replies[t]
    /\ call'[t] = call[t]
    /\ pc[t] \in {"using", "returning"}
    /\ pc'[t] \in {"returning", "out"}

\* Where the call of t goes on.
Moving(t) ==
    \/ call'[t] = call[t] + 1
    \/ /\ call'[t] = call[t]
       /\ \/ pc[t] \in {"waiting", "granted", "discarding", "opening"}
          \/ pc[t] = "abandoning" /\ pc'[t] = "out"
          \/ pc[t] = "login" /\ pc'[t] \in {"using", "abandoning"}
          \/ Leaving(t)

Handling(t) ==
    /\ AtomStep(t)
    /\ Moving(t)
    /\ Registered(t) => Len(replies[t]) = LoginTrips
    /\ UNCHANGED wireVars
    /\ OthersKept(t)
    /\ t \notin awaiting'
    /\ t \in awaiting => ClosedBy(t)
    /\ Anew(t) \/ Leaving(t)

HandlingStep(t) ==
    \/ Begin(t) \/ Refused(t) \/ Proceed(t) \/ NoSession(t)
    \/ LoggedIn(t) \/ LoginBroken(t)
    \/ Complete(t) \/ Fail(t) \/ GivenBack(t) \/ GivenBackCancelled(t)

\* release() leaves its caller outside or at the close() of the session.
LEMMA ReleasePlace ==
    ASSUME IInv, NEW t \in Callers, NEW healthy \in BOOLEAN, Release(t, healthy)
    PROVE  /\ pc[t] = "using" /\ pc'[t] \in {"returning", "out"}
           /\ ~healthy => ClosedBy(t)
    <1>. USE DEF IInv, SlotInv, SlotType
    <1>1. CASE ReturnsToIdle(t, healthy)
        BY <1>1, GiverIsOut DEF Release, ReturnsToIdle, HoldsPermit, HoldsAtom
    <1>2. CASE ~ReturnsToIdle(t, healthy)
        BY <1>2 DEF Release, ClosedBy, AtomInv, AtomType
    <1>. QED  BY <1>1, <1>2

LEMMA StepHandles ==
    ASSUME IInv, CallInv, NEW t \in Callers, HandlingStep(t)
    PROVE  Handling(t)
    <1>. USE DEF CallInv
    <1>1. t \in awaiting => pc[t] \in {"login", "using"}
        BY DEF CallsTypeOK
    <1>2. CASE Begin(t) \/ Refused(t)
        <2>1. CallerStep(t) /\ pc[t] = "out" /\ UNCHANGED <<awaiting, wireVars>>
            BY <1>2 DEF Begin, Refused, CallerStep, Acquire, Refuse
        <2>2. AtomStep(t)
            BY <2>1, CallerAtomStep DEF IInv, AtomInv
        <2>3. OthersKept(t) /\ Anew(t) /\ Moving(t)
            BY <1>2 DEF Begin, Refused, Ends, OthersKept, Anew, Moving, CallsTypeOK
        <2>. QED  BY <1>1, <2>1, <2>2, <2>3 DEF Handling, Registered
    <1>3. CASE Proceed(t)
        <2>1. /\ CallerStep(t) /\ pc[t] \in {"granted", "discarding", "opening"}
              /\ UNCHANGED <<callVars, wireVars>>
            BY <1>3 DEF Proceed, CallerStep, Resume, DiscardDone, OpenOk
        <2>2. AtomStep(t)
            BY <2>1, CallerAtomStep DEF IInv, AtomInv
        <2>. QED
            BY <1>1, <2>1, <2>2
               DEF Handling, Registered, Moving, OthersKept, Anew, NoEarlyReplies, callVars
    <1>4. CASE NoSession(t)
        <2>1. /\ CallerStep(t)
              /\ pc[t] \in {"waiting", "granted", "discarding", "opening", "abandoning"}
            BY <1>4 DEF NoSession, CallerStep, GiveUp, GiveUpGranted, DiscardCancelled,
                        OpenFail, AbandonDone
        <2>2. AtomStep(t)
            BY <2>1, CallerAtomStep DEF IInv, AtomInv
        <2>3. /\ UNCHANGED <<call, size, awaiting, replies, wireVars>>
              /\ \A u \in Callers \ {t} : outcome'[u] = outcome[u]
            BY <1>4 DEF NoSession, Ends, CallsTypeOK
        <2>4. pc[t] = "abandoning" => pc'[t] = "out"
            BY <1>4, GiverIsOut
               DEF NoSession, GiveUp, GiveUpGranted, DiscardCancelled, OpenFail,
                   AbandonDone, FailAcquire, HoldsPermit, HoldsAtom, IInv
        <2>. QED
            BY <1>1, <2>1, <2>2, <2>3, <2>4
               DEF Handling, Registered, Moving, OthersKept, Anew, NoEarlyReplies
    <1>5. CASE LoggedIn(t)
        <2>1. /\ CallerStep(t) /\ t \notin awaiting /\ UNCHANGED <<call, awaiting, wireVars>>
              /\ pc[t] = "login" /\ pc'[t] = "using" /\ Len(replies[t]) = LoginTrips
            BY <1>5 DEF LoggedIn, LoginOk, CallerStep, IInv, SlotInv, SlotType
        <2>2. AtomStep(t)
            BY <2>1, CallerAtomStep DEF IInv, AtomInv
        <2>3. OthersKept(t) /\ Anew(t)
            BY <1>5 DEF LoggedIn, OthersKept, Anew, CallsTypeOK
        <2>. QED  BY <2>1, <2>2, <2>3 DEF Handling, Moving
    <1>6. CASE LoginBroken(t)
        <2>1. /\ CallerStep(t) /\ awaiting' = awaiting \ {t} /\ UNCHANGED <<call, wireVars>>
              /\ ClosedBy(t) /\ pc[t] = "login" /\ pc'[t] = "abandoning"
            BY <1>6 DEF LoginBroken, CallerStep, LoginFail, ClosedBy, poolVars, IInv,
                        SlotInv, SlotType
        <2>2. AtomStep(t)
            BY <2>1, CallerAtomStep DEF IInv, AtomInv
        <2>3. OthersKept(t) /\ Anew(t)
            BY <1>6 DEF LoginBroken, OthersKept, Anew, CallsTypeOK
        <2>. QED  BY <2>1, <2>2, <2>3 DEF Handling, Registered, Moving
    <1>7. CASE Complete(t)
        <2>1. /\ Release(t, TRUE) /\ t \notin awaiting
              /\ UNCHANGED <<call, size, awaiting, replies, wireVars>>
            BY <1>7 DEF Complete
        <2>2. AtomStep(t)
            BY <2>1, CallerAtomStep DEF IInv, AtomInv, CallerStep
        <2>3. pc[t] = "using" /\ pc'[t] \in {"returning", "out"}
            BY <2>1, ReleasePlace
        <2>4. \A u \in Callers \ {t} : outcome'[u] = outcome[u]
            BY <1>7 DEF Complete, Ends, CallsTypeOK
        <2>. QED  BY <2>1, <2>2, <2>3, <2>4 DEF Handling, Registered, Moving, OthersKept, Leaving
    <1>8. CASE Fail(t)
        <2>1. /\ Release(t, FALSE) /\ awaiting' = awaiting \ {t}
              /\ UNCHANGED <<call, size, outcome, replies, wireVars>>
            BY <1>8 DEF Fail
        <2>2. AtomStep(t)
            BY <2>1, CallerAtomStep DEF IInv, AtomInv, CallerStep
        <2>3. pc[t] = "using" /\ pc'[t] \in {"returning", "out"} /\ ClosedBy(t)
            BY <2>1, ReleasePlace
        <2>. QED  BY <2>1, <2>2, <2>3 DEF Handling, Registered, Moving, OthersKept, Leaving
    <1>9. CASE GivenBack(t) \/ GivenBackCancelled(t)
        <2>1. /\ CallerStep(t) /\ pc[t] = "returning" /\ ReleasePermit(t, "out")
              /\ UNCHANGED <<call, size, awaiting, replies, wireVars>>
            BY <1>9 DEF GivenBack, GivenBackCancelled, CallerStep, ReturnDone,
                        ReturnCancelled
        <2>2. AtomStep(t)
            BY <2>1, CallerAtomStep DEF IInv, AtomInv
        <2>3. pc'[t] = "out"
            BY <2>1, GiverIsOut DEF HoldsPermit, HoldsAtom, IInv
        <2>4. \A u \in Callers \ {t} : outcome'[u] = outcome[u]
            BY <1>9 DEF GivenBack, GivenBackCancelled, Ends, CallsTypeOK
        <2>. QED  BY <1>1, <2>1, <2>2, <2>3, <2>4 DEF Handling, Registered, Moving, OthersKept, Leaving
    <1>. QED
        BY <1>2, <1>3, <1>4, <1>5, <1>6, <1>7, <1>8, <1>9 DEF HandlingStep

-----------------------------------------------------------------------------
(* Steps of the callers that touch no document.                            *)

\* Seen from another caller nothing changes but that it may be woken.
LEMMA OthersSame ==
    ASSUME NEW t \in Callers, Handling(t), NEW u \in Callers \ {t}
    PROVE  /\ held'[u] = held[u] /\ call'[u] = call[u]
           /\ replies'[u] = replies[u] /\ (u \in awaiting' <=> u \in awaiting)
           /\ pc'[u] = pc[u] \/ (pc[u] = "waiting" /\ pc'[u] = "granted")
           /\ KindOf(u)' = KindOf(u)
           /\ Awaited(u)' = Awaited(u)
    <1>1. /\ held'[u] = held[u] /\ call'[u] = call[u]
          /\ replies'[u] = replies[u] /\ (u \in awaiting' <=> u \in awaiting)
          /\ pc'[u] = pc[u] \/ (pc[u] = "waiting" /\ pc'[u] = "granted")
        BY DEF Handling, AtomStep, SamePlace, OthersKept
    <1>2. KindOf(u)' = KindOf(u)
        BY <1>1 DEF KindOf
    <1>. QED  BY <1>1, <1>2 DEF Awaited, Document

LEMMA HandlingKeepsReplies ==
    ASSUME CallInv, NEW t \in Callers, Handling(t)
    PROVE  OwnReplies' /\ NoEarlyReplies'
    <1>. USE DEF CallInv
    <1>1. ASSUME NEW u \in Callers, u # t
          PROVE  /\ \A i \in 1..Len(replies'[u]) : IsAnswer(replies[u][i], u, i)'
                 /\ pc'[u] \in {"waiting", "granted", "discarding", "opening", "abandoning"}
                       => replies'[u] = <<>>
        <2>1. /\ call'[u] = call[u] /\ replies'[u] = replies[u] /\ KindOf(u)' = KindOf(u)
              /\ pc'[u] = pc[u] \/ (pc[u] = "waiting" /\ pc'[u] = "granted")
            BY <1>1, OthersSame
        <2>2. \A i \in 1..Len(replies'[u]) : IsAnswer(replies[u][i], u, i)
            BY <2>1 DEF OwnReplies
        <2>. QED  BY <2>1, <2>2 DEF NoEarlyReplies, IsAnswer
    <1>2. CASE Anew(t)
        BY <1>1, <1>2 DEF Anew, OwnReplies, NoEarlyReplies
    <1>3. CASE Leaving(t)
        <2>1. KindOf(t)' = KindOf(t)
            BY <1>3 DEF Leaving, KindOf
        <2>2. /\ replies'[t] = replies[t] /\ call'[t] = call[t]
              /\ pc'[t] \in {"returning", "out"}
            BY <1>3 DEF Leaving
        <2>3. \A i \in 1..Len(replies'[t]) : IsAnswer(replies[t][i], t, i)'
            BY <2>1, <2>2 DEF OwnReplies, IsAnswer
        <2>. QED  BY <1>1, <2>2, <2>3 DEF OwnReplies, NoEarlyReplies, IsAnswer
    <1>. QED  BY <1>2, <1>3 DEF Handling

LEMMA HandlingKeepsWire ==
    ASSUME IInv, CallInv, NEW t \in Callers, Handling(t)
    PROVE  WireOK'
    <1>. USE DEF CallInv
    <1>0. /\ \A a : Clear(a)' <=> Clear(a)
          /\ \A a, d : Owes(a, d)' <=> Owes(a, d)
        BY DEF Handling, wireVars, Clear, Owes
    <1>1. /\ conn \in [Atoms -> ConnState] /\ idle \in Seq(Atoms) /\ IsInjective(idle)
          /\ pc[t] \in HoldsAtom => held[t] \in Atoms /\ held[t] \notin ToSet(idle)
        BY DEF IInv, AtomInv, AtomType, ExclusiveLease
    <1>2. AtomStep(t) /\ (t \in awaiting => ClosedBy(t))
        BY DEF Handling
    <1>3. \A a \in Atoms : conn'[a] = "none" => conn[a] = "none"
        BY <1>1, <1>2
           DEF AtomStep, Aside, Picked, Dropped, Made, Registered, ClosedBy, Returned
    <1>4. pc[t] \in {"login", "using"} /\ t \notin awaiting => Clear(held[t])
        BY DEF WireOK
    <1>5. ASSUME NEW a \in Atoms, a \in ToSet(idle')
          PROVE  Clear(a)
        <2>1. CASE Returned(t)
            <3>1. ToSet(idle') = ToSet(idle) \cup {held[t]} /\ t \notin awaiting
                BY <1>1, <1>2, <2>1, AppendInjective1 DEF Returned, ClosedBy, HoldsAtom
            <3>. QED  BY <1>4, <1>5, <2>1, <3>1 DEF Returned, WireOK
        <2>2. CASE Picked(t)
            <3>1. ToSet(idle') = ToSet(idle) \ {Last(idle)}
                BY <1>1, <2>2, FrontInjective DEF Picked
            <3>. QED  BY <1>5, <3>1 DEF WireOK
        <2>3. CASE idle' = idle
            BY <1>5, <2>3 DEF WireOK
        <2>. QED
            BY <1>2, <2>1, <2>2, <2>3
               DEF AtomStep, Aside, Dropped, Made, Registered, ClosedBy
    <1>6. ASSUME pc'[t] \in {"login", "using"}
          PROVE  Clear(held'[t])
        <2>1. CASE Picked(t)
            <3>1. Last(idle) \in ToSet(idle) /\ Last(idle) \in Atoms
                BY <1>1, <2>1, FrontInjective, FrontFacts DEF Picked
            <3>. QED  BY <2>1, <3>1 DEF Picked, WireOK
        <2>2. CASE Made(t)
            BY <2>2 DEF Made, WireOK
        <2>3. CASE Registered(t)
            BY <1>2, <1>4, <2>3 DEF Registered, ClosedBy
        <2>. QED
            BY <1>2, <1>6, <2>1, <2>2, <2>3
               DEF AtomStep, Aside, Dropped, ClosedBy, Returned, HoldsAtom
    <1>7. ASSUME NEW u \in Callers \ {t}, pc'[u] \in {"login", "using"}
          PROVE  \/ Clear(held'[u])
                 \/ u \in awaiting' /\ Owes(held'[u], Awaited(u)')
        BY <1>7, OthersSame DEF WireOK
    <1>. QED  BY <1>0, <1>3, <1>5, <1>6, <1>7 DEF WireOK

LEMMA StepKeepsTypes ==
    ASSUME IInv, CallInv, NEW t \in Callers, HandlingStep(t)
    PROVE  CallsTypeOK'
    <1>. USE DEF CallInv
    <1>1. Handling(t)
        BY StepHandles
    <1>2. awaiting' \in SUBSET {u \in Callers : pc'[u] \in {"login", "using"}}
        <2>1. awaiting' \in SUBSET Callers
            BY DEF HandlingStep, Begin, Refused, Proceed, NoSession, LoggedIn,
                   LoginBroken, Complete, Fail, GivenBack, GivenBackCancelled, callVars,
                   CallsTypeOK
        <2>2. \A u \in awaiting' : u # t /\ pc'[u] \in {"login", "using"}
            BY <1>1, <2>1, OthersSame DEF Handling, CallsTypeOK
        <2>. QED  BY <2>1, <2>2
    <1>3. UNCHANGED wireVars
        BY <1>1 DEF Handling
    <1>4. /\ call' \in [Callers -> Nat] /\ size' \in [Callers -> 0..MaxGroups]
          /\ outcome' \in [Callers -> {"none", "returned", "raised"}]
          /\ replies' \in [Callers -> Seq(Documents)]
        <2>0. [replies EXCEPT ![t] = <<>>] \in [Callers -> Seq(Documents)]
            BY EmptySeq DEF CallsTypeOK
        <2>1. CASE Begin(t) \/ Refused(t)
            <3>1. /\ call' = [call EXCEPT ![t] = @ + 1]
                  /\ replies' = [replies EXCEPT ![t] = <<>>]
                  /\ size' = size \/ \E n \in 0..MaxGroups : size' = [size EXCEPT ![t] = n]
                BY <2>1 DEF Begin, Refused
            <3>2. outcome' \in [Callers -> {"none", "returned", "raised"}]
                BY <2>1 DEF Begin, Refused, Ends, CallsTypeOK
            <3>3. call' \in [Callers -> Nat]
                BY <3>1 DEF CallsTypeOK
            <3>4. size' \in [Callers -> 0..MaxGroups]
                BY <3>1 DEF CallsTypeOK
            <3>. QED  BY <2>0, <3>1, <3>2, <3>3, <3>4
        <2>2. CASE Proceed(t) \/ NoSession(t)
            BY <2>2 DEF Proceed, NoSession, Ends, callVars, CallsTypeOK
        <2>3. CASE LoggedIn(t) \/ LoginBroken(t)
            <3>1. replies' = [replies EXCEPT ![t] = <<>>] /\ UNCHANGED <<call, size, outcome>>
                BY <2>3 DEF LoggedIn, LoginBroken
            <3>. QED  BY <2>0, <3>1 DEF CallsTypeOK
        <2>4. CASE Complete(t) \/ Fail(t)
            BY <2>4 DEF Complete, Fail, Ends, CallsTypeOK
        <2>5. CASE GivenBack(t) \/ GivenBackCancelled(t)
            BY <2>5 DEF GivenBack, GivenBackCancelled, Ends, CallsTypeOK
        <2>. QED  BY <2>1, <2>2, <2>3, <2>4, <2>5 DEF HandlingStep
    <1>. QED  BY <1>2, <1>3, <1>4 DEF CallsTypeOK, wireVars

-----------------------------------------------------------------------------
(* Steps that touch documents, and steps of the pool alone.                *)

LEMMA SingleFacts ==
    ASSUME NEW d
    PROVE  /\ Append(<<>>, d) = <<d>>
           /\ Head(<<d>>) = d /\ Tail(<<d>>) = <<>>
           /\ <<d>> # <<>> /\ Len(<<d>>) = 1 /\ <<d>>[1] = d
    OBVIOUS

\* The session of a caller in a round trip is its own.
LEMMA OwnSession ==
    ASSUME IInv, NEW t \in Callers, pc[t] \in {"login", "using"}
    PROVE  /\ held[t] \in Atoms /\ held[t] \notin ToSet(idle)
           /\ conn[held[t]] # "none"
           /\ \A u \in Callers \ {t} : pc[u] \in {"login", "using"} => held[u] # held[t]
    BY DEF IInv, AtomInv, ExclusiveLease, UnmadeNowhere, HoldsAtom

LEMMA AwaitedIsDocument ==
    ASSUME IInv, CallInv, NEW t \in Callers, pc[t] \in {"login", "using"}
    PROVE  Awaited(t) \in Documents /\ IsAnswer(Awaited(t), t, Len(replies[t]) + 1)
    <1>1. Len(replies[t]) \in Nat /\ call[t] \in Nat
        BY DEF CallInv, CallsTypeOK
    <1>. QED
        BY <1>1, OwnSession DEF Awaited, Document, Documents, IsAnswer, KindOf

LEMMA SendKeeps ==
    ASSUME IInv, CallInv, NEW t \in Callers, Send(t)
    PROVE  CallInv'
    <1>. USE DEF CallInv
    <1>0. pc[t] \in {"login", "using"}
        BY DEF Send
    <1>a. PICK a \in Atoms : a = held[t]
        BY <1>0, OwnSession
    <1>d. PICK d \in Documents : d = Awaited(t)
        BY <1>0, AwaitedIsDocument
    <1>1. /\ t \notin awaiting /\ awaiting' = awaiting \cup {t}
          /\ UNCHANGED <<conn, idle, pc, held, call, size, outcome, replies, outbox, executed>>
          /\ inbox' = inbox \/ inbox' = [inbox EXCEPT ![a] = Append(@, d)]
        BY <1>a, <1>d DEF Send, vars, Awaited
    <1>2. /\ a \notin ToSet(idle) /\ conn[a] # "none"
          /\ \A u \in Callers \ {t} : pc[u] \in {"login", "using"} => held[u] # a
        BY <1>0, <1>a, OwnSession
    <1>4. Clear(a)
        BY <1>0, <1>1, <1>a DEF WireOK
    <1>5. /\ \A u \in Callers : KindOf(u)' = KindOf(u) /\ Awaited(u)' = Awaited(u)
          /\ \A e, u, i : IsAnswer(e, u, i)' <=> IsAnswer(e, u, i)
        BY <1>1 DEF KindOf, Awaited, Document, IsAnswer
    <1>6. inbox' = inbox \/ inbox' = [inbox EXCEPT ![a] = <<d>>]
        BY <1>1, <1>4, SingleFacts DEF Clear
    <1>7. /\ \A b \in Atoms \ {a} : inbox'[b] = inbox[b]
          /\ inbox'[a] = <<>> \/ inbox'[a] = <<d>>
        BY <1>4, <1>6 DEF Clear, CallsTypeOK
    <1>8. CallsTypeOK'
        <2>1. inbox' \in [Atoms -> Seq(Documents)]
            <3>1. <<d>> \in Seq(Documents)
                OBVIOUS
            <3>. QED  BY <1>6, <3>1 DEF CallsTypeOK
        <2>. QED  BY <1>0, <1>1, <2>1 DEF CallsTypeOK
    <1>9. WireOK'
        <2>. USE DEF WireOK
        <2>1. \A b \in Atoms \ {a} : /\ Clear(b)' <=> Clear(b)
                                     /\ \A e : Owes(b, e)' <=> Owes(b, e)
            BY <1>1, <1>7 DEF Clear, Owes
        <2>2. Clear(a)' \/ Owes(a, d)'
            BY <1>1, <1>4, <1>7 DEF Clear, Owes
        <2>3. \A b \in Atoms : conn[b] = "none" \/ b \in ToSet(idle) => Clear(b)'
            BY <1>2, <2>1
        <2>4. ASSUME NEW u \in Callers \ {t}, pc[u] \in {"login", "using"}
              PROVE  Clear(held[u])' \/ (u \in awaiting' /\ Owes(held[u], Awaited(u))')
            <3>1. held[u] \in Atoms \ {a}
                BY <1>2, <2>4, OwnSession
            <3>2. (Clear(held[u]) \/ (u \in awaiting /\ Owes(held[u], Awaited(u))))
                BY <2>4
            <3>. QED  BY <1>1, <1>5, <2>1, <3>1, <3>2
        <2>. QED  BY <1>0, <1>1, <1>5, <1>a, <1>d, <2>2, <2>3, <2>4
    <1>10. NoEarlyReplies' /\ OwnReplies'
        BY <1>1, <1>5 DEF NoEarlyReplies, OwnReplies
    <1>. QED  BY <1>8, <1>9, <1>10

LEMMA ReceiveKeeps ==
    ASSUME IInv, CallInv, NEW t \in Callers, Receive(t)
    PROVE  CallInv'
    <1>. USE DEF CallInv
    <1>0. pc[t] \in {"login", "using"}
        BY DEF Receive
    <1>a. PICK a \in Atoms : a = held[t]
        BY <1>0, OwnSession
    <1>d. PICK d \in Documents : d = Awaited(t)
        BY <1>0, AwaitedIsDocument
    <1>1. /\ t \in awaiting /\ awaiting' = awaiting \ {t}
          /\ outbox[a] # <<>>
          /\ UNCHANGED <<conn, idle, pc, held, call, size, outcome, inbox, executed>>
          /\ replies' = [replies EXCEPT ![t] = Append(@, Head(outbox[a]))]
          /\ outbox' = [outbox EXCEPT ![a] = Tail(@)]
        BY <1>a DEF Receive, vars
    <1>2. /\ a \notin ToSet(idle) /\ conn[a] # "none"
          /\ \A u \in Callers \ {t} : pc[u] \in {"login", "using"} => held[u] # a
        BY <1>0, <1>a, OwnSession
    <1>3. inbox[a] = <<>> /\ outbox[a] = <<d>>
        BY <1>0, <1>1, <1>a, <1>d DEF WireOK, Clear, Owes
    <1>4. replies' = [replies EXCEPT ![t] = Append(@, d)] /\ outbox' = [outbox EXCEPT ![a] = <<>>]
        BY <1>1, <1>3, SingleFacts
    <1>5. /\ \A b \in Atoms \ {a} : outbox'[b] = outbox[b]
          /\ outbox'[a] = <<>>
          /\ \A u \in Callers \ {t} : replies'[u] = replies[u]
          /\ replies'[t] = Append(replies[t], d)
        BY <1>4 DEF CallsTypeOK
    <1>6. /\ \A e, u, i : IsAnswer(e, u, i)' <=> IsAnswer(e, u, i)
          /\ \A u \in Callers \ {t} : Awaited(u)' = Awaited(u)
        BY <1>1, <1>5 DEF KindOf, Awaited, Document, IsAnswer
    <1>7. CallsTypeOK'
        <2>1. outbox' \in [Atoms -> Seq(Documents)]
            <3>1. <<>> \in Seq(Documents)
                BY EmptySeq
            <3>. QED  BY <1>4, <3>1 DEF CallsTypeOK
        <2>2. replies' \in [Callers -> Seq(Documents)]
            <3>1. Append(replies[t], d) \in Seq(Documents)
                BY AppendProperties DEF CallsTypeOK
            <3>. QED  BY <1>4, <3>1 DEF CallsTypeOK
        <2>. QED  BY <1>1, <2>1, <2>2 DEF CallsTypeOK
    <1>8. WireOK'
        <2>. USE DEF WireOK
        <2>1. \A b \in Atoms \ {a} : /\ Clear(b)' <=> Clear(b)
                                     /\ \A e : Owes(b, e)' <=> Owes(b, e)
            BY <1>1, <1>5 DEF Clear, Owes
        <2>2. Clear(a)'
            BY <1>1, <1>3, <1>5 DEF Clear
        <2>3. \A b \in Atoms : conn[b] = "none" \/ b \in ToSet(idle) => Clear(b)'
            BY <1>2, <2>1
        <2>4. ASSUME NEW u \in Callers \ {t}, pc[u] \in {"login", "using"}
              PROVE  Clear(held[u])' \/ (u \in awaiting' /\ Owes(held[u], Awaited(u))')
            <3>1. held[u] \in Atoms \ {a}
                BY <1>2, <2>4, OwnSession
            <3>2. Clear(held[u]) \/ (u \in awaiting /\ Owes(held[u], Awaited(u)))
                BY <2>4
            <3>. QED  BY <1>1, <1>6, <2>1, <3>1, <3>2
        <2>. QED  BY <1>0, <1>1, <1>a, <2>2, <2>3, <2>4
    <1>9. NoEarlyReplies'
        BY <1>0, <1>1, <1>5 DEF NoEarlyReplies
    <1>10. OwnReplies'
        <2>1. /\ Len(replies[t]) \in Nat
              /\ Len(replies'[t]) = Len(replies[t]) + 1
              /\ replies'[t][Len(replies[t]) + 1] = d
              /\ \A i \in 1..Len(replies[t]) : replies'[t][i] = replies[t][i]
            BY <1>5, AppendProperties DEF CallsTypeOK
        <2>2. IsAnswer(d, t, Len(replies[t]) + 1)
            BY <1>0, <1>d, AwaitedIsDocument
        <2>3. \A i \in 1..Len(replies'[t]) : IsAnswer(replies'[t][i], t, i)
            BY <2>1, <2>2 DEF OwnReplies
        <2>4. \A u \in Callers : \A i \in 1..Len(replies'[u]) : IsAnswer(replies'[u][i], u, i)
            BY <1>5, <2>3 DEF OwnReplies
        <2>5. /\ pc' = pc /\ call' = call
            BY <1>1
        <2>. QED  BY <2>4, <2>5 DEF OwnReplies, IsAnswer, KindOf
    <1>. QED  BY <1>7, <1>8, <1>9, <1>10

LEMMA ExecuteKeeps ==
    ASSUME IInv, CallInv, NEW a \in Atoms, Execute(a)
    PROVE  CallInv'
    <1>. USE DEF CallInv
    <1>d. PICK d \in Documents : d = Head(inbox[a])
        BY HeadTailProperties DEF Execute, CallsTypeOK
    <1>1. /\ inbox[a] # <<>>
          /\ UNCHANGED <<conn, idle, pc, held, call, size, outcome, awaiting, replies>>
          /\ executed' = executed \cup {d}
          /\ inbox' = [inbox EXCEPT ![a] = Tail(@)]
          /\ outbox' = outbox \/ outbox' = [outbox EXCEPT ![a] = Append(@, d)]
        BY <1>d DEF Execute, vars, callVars
    <1>2. CallsTypeOK'
        <2>1. inbox' \in [Atoms -> Seq(Documents)]
            <3>1. Tail(inbox[a]) \in Seq(Documents)
                BY <1>1, HeadTailProperties DEF CallsTypeOK
            <3>. QED  BY <1>1, <3>1 DEF CallsTypeOK
        <2>2. outbox' \in [Atoms -> Seq(Documents)]
            <3>1. Append(outbox[a], d) \in Seq(Documents)
                BY AppendProperties DEF CallsTypeOK
            <3>. QED  BY <1>1, <3>1 DEF CallsTypeOK
        <2>. QED  BY <1>1, <2>1, <2>2 DEF CallsTypeOK
    <1>3. /\ \A u \in Callers : Awaited(u)' = Awaited(u)
          /\ \A e, u, i : IsAnswer(e, u, i)' <=> IsAnswer(e, u, i)
        BY <1>1 DEF KindOf, Awaited, Document, IsAnswer
    <1>4. WireOK'
        <2>1. \A b \in Atoms \ {a} : /\ Clear(b)' <=> Clear(b)
                                     /\ \A e : Owes(b, e)' <=> Owes(b, e)
            <3>1. \A b \in Atoms \ {a} : inbox'[b] = inbox[b] /\ outbox'[b] = outbox[b]
                BY <1>1 DEF CallsTypeOK
            <3>. QED  BY <3>1 DEF Clear, Owes
        <2>2. ~Clear(a)
            BY <1>1 DEF Clear
        <2>3. ASSUME NEW e, Owes(a, e)
              PROVE  Clear(a)' \/ Owes(a, e)'
            <3>1. inbox[a] = <<e>> /\ outbox[a] = <<>> /\ d = e
                BY <1>1, <1>d, <2>3, SingleFacts DEF Owes
            <3>2. inbox'[a] = <<>> /\ outbox'[a] \in {<<>>, <<e>>}
                BY <1>1, <3>1, SingleFacts DEF CallsTypeOK
            <3>. QED  BY <3>2 DEF Clear, Owes
        <2>4. ASSUME NEW b \in Atoms, conn[b] = "none" \/ b \in ToSet(idle)
              PROVE  Clear(b)'
            BY <2>1, <2>2, <2>4 DEF WireOK
        <2>5. ASSUME NEW u \in Callers, pc[u] \in {"login", "using"}
              PROVE  Clear(held[u])' \/ (u \in awaiting' /\ Owes(held[u], Awaited(u))')
            <3>a. PICK b \in Atoms : b = held[u]
                BY <2>5, OwnSession
            <3>e. PICK e : e = Awaited(u)
                OBVIOUS
            <3>1. Clear(b) \/ (u \in awaiting /\ Owes(b, e))
                BY <2>5, <3>a, <3>e DEF WireOK
            <3>2. Clear(b)' \/ (u \in awaiting' /\ Owes(b, e)')
                BY <1>1, <2>1, <2>2, <2>3, <3>1
            <3>. QED  BY <1>1, <1>3, <3>a, <3>e, <3>2
        <2>6. pc' = pc /\ idle' = idle /\ conn' = conn
            BY <1>1
        <2>. QED  BY <2>4, <2>5, <2>6 DEF WireOK
    <1>5. NoEarlyReplies' /\ OwnReplies'
        BY <1>1, <1>3 DEF NoEarlyReplies, OwnReplies
    <1>. QED  BY <1>2, <1>4, <1>5

LEMMA OtherKeepsCalls ==
    ASSUME IInv, CallInv, OtherStep, UNCHANGED <<callVars, wireVars>>
    PROVE  CallInv'
    <1>. USE DEF CallInv
    <1>1. /\ UNCHANGED <<pc, held>>
          /\ UNCHANGED <<call, size, outcome, awaiting, replies, inbox, outbox, executed>>
        BY DEF OtherStep, callVars, wireVars
    <1>2. /\ \A a \in Atoms : conn'[a] = "none" => conn[a] = "none"
          /\ ToSet(idle') \subseteq ToSet(idle)
        <2>1. conn \in [Atoms -> ConnState] /\ idle \in Seq(Atoms) /\ IsInjective(idle)
            BY DEF IInv, AtomInv, AtomType, ExclusiveLease
        <2>. QED  BY <2>1, FrontInjective DEF OtherStep, Shut
    <1>3. /\ \A u \in Callers : Awaited(u)' = Awaited(u)
          /\ \A a : Clear(a)' <=> Clear(a)
          /\ \A a, e : Owes(a, e)' <=> Owes(a, e)
          /\ \A e, u, i : IsAnswer(e, u, i)' <=> IsAnswer(e, u, i)
        BY <1>1 DEF KindOf, Awaited, Document, IsAnswer, Clear, Owes
    <1>4. CallsTypeOK' /\ NoEarlyReplies' /\ OwnReplies'
        BY <1>1, <1>3 DEF CallsTypeOK, NoEarlyReplies, OwnReplies
    <1>5. WireOK'
        BY <1>1, <1>2, <1>3 DEF WireOK
    <1>. QED  BY <1>4, <1>5

LEMMA PoolStepIsOther ==
    ASSUME IInv, PoolStep \/ Ended \/ UNCHANGED allVars
    PROVE  OtherStep /\ UNCHANGED <<callVars, wireVars>>
    <1>1. CASE PoolStep
        <2>1. UNCHANGED <<callVars, wireVars>>
            BY <1>1 DEF PoolStep
        <2>2. CASE \E k \in Closers : CloserStep(k)
            BY <2>1, <2>2, CloserOtherStep DEF IInv, AtomInv, CloseInv
        <2>3. CASE \E a \in Atoms : Drop(a) \/ Expire(a)
            BY <2>1, <2>3 DEF Drop, Expire, OtherStep, poolVars, IsAlive
        <2>. QED  BY <1>1, <2>2, <2>3 DEF PoolStep
    <1>2. CASE Ended \/ UNCHANGED allVars
        BY <1>2 DEF Ended, allVars, vars, OtherStep
    <1>. QED  BY <1>1, <1>2

LEMMA CallInvInit == CallsInit => CallInv
    <1>. SUFFICES ASSUME CallsInit PROVE CallInv
        OBVIOUS
    <1>1. /\ pc = [t \in Callers |-> "out"]
          /\ call = [t \in Callers |-> 0] /\ size = [t \in Callers |-> 0]
          /\ outcome = [t \in Callers |-> "none"] /\ awaiting = {}
          /\ replies = [t \in Callers |-> <<>>]
          /\ inbox = [a \in Atoms |-> <<>>] /\ outbox = [a \in Atoms |-> <<>>]
          /\ executed = {}
        BY DEF CallsInit, Init
    <1>2. CallsTypeOK
        BY <1>1, EmptySeq, CallAssumption DEF CallsTypeOK
    <1>3. WireOK
        BY <1>1 DEF WireOK, Clear
    <1>4. NoEarlyReplies /\ OwnReplies
        BY <1>1 DEF NoEarlyReplies, OwnReplies
    <1>. QED  BY <1>2, <1>3, <1>4 DEF CallInv

\* Every step is one of a caller that touches no document, a send, a reply
\* that arrives, the server's, or one the calls do not see.
LEMMA StepKinds ==
    ASSUME IInv, [CallsNext]_allVars
    PROVE  \/ \E t \in Callers : HandlingStep(t) \/ Send(t) \/ Receive(t)
           \/ \E a \in Atoms : Execute(a)
           \/ OtherStep /\ UNCHANGED <<callVars, wireVars>>
    <1>1. ASSUME NEW t \in Callers, CallStep(t)
          PROVE  HandlingStep(t) \/ Send(t) \/ Receive(t)
        BY <1>1 DEF CallStep, HandlingStep
    <1>. QED  BY <1>1, PoolStepIsOther DEF CallsNext

LEMMA CallInvNext ==
    ASSUME IInv, CallInv, [CallsNext]_allVars
    PROVE  CallInv'
    <1>1. ASSUME NEW t \in Callers, HandlingStep(t)
          PROVE  CallInv'
        BY <1>1, StepHandles, HandlingKeepsReplies, HandlingKeepsWire, StepKeepsTypes
           DEF CallInv
    <1>. QED
        BY <1>1, StepKinds, SendKeeps, ReceiveKeeps, ExecuteKeeps, OtherKeepsCalls

LEMMA CallInvariance == CallsSpec => []CallInv
    <1>. QED  BY CallInvInit, CallInvNext, PoolInvariance, PTL DEF CallsSpec

-----------------------------------------------------------------------------
(* What the server was given and has executed.                             *)

LoggedInAt(a) ==
    \A i \in 1..LoginTrips :
       \E l \in executed : l.kind = "login" /\ l.step = i /\ l.atom = a

\* A session has one document at most with the server.
Singles ==
    \A a \in Atoms :
       /\ inbox[a] = <<>> \/ \E d \in Documents : inbox[a] = <<d>> /\ d.atom = a
       /\ \A d : outbox[a] = <<d>> => d \in executed

\* The sessions that are lent for commands, or wait for it, are logged in.
LoginsDone ==
    /\ \A a \in ToSet(idle) : LoggedInAt(a)
    /\ \A t \in Callers :
          /\ pc[t] = "using" => LoggedInAt(held[t])
          /\ pc[t] = "login" =>
                \A i \in 1..Len(replies[t]) :
                   \E l \in executed : /\ l.kind = "login" /\ l.step = i
                                       /\ l.atom = held[t]
    /\ \A a \in Atoms, d \in Documents :
          inbox[a] = <<d>> /\ d.kind = "group" => LoggedInAt(a)

\* How many documents of its round trips a caller has sent.
Sent(t) == IF t \in awaiting THEN Len(replies[t]) + 1 ELSE Len(replies[t])

BeforeLogin == {"waiting", "granted", "discarding", "opening"}

Accounted(d, t) ==
    /\ d.call <= call[t]
    /\ d.call = call[t] /\ d.kind = "login" =>
          pc[t] \notin BeforeLogin /\ (pc[t] = "login" => d.step <= Sent(t))
    /\ d.call = call[t] /\ d.kind = "group" =>
          /\ pc[t] \in {"using", "returning", "out", "refused"}
          /\ d.step <= Len(replies[t]) + 1
          /\ pc[t] = "using" => d.step <= Sent(t)

Given == Unexecuted \cup executed

\* What the server was given are documents that a caller has sent in the call
\* it is in, or in an earlier one.
AllAccounted == \A d \in Given : d \in Documents /\ Accounted(d, d.caller)

\* Neither of them has a document twice.
OncePerSession ==
    /\ Unexecuted \cap executed = {}
    /\ \A a \in Atoms : IsInjective(inbox[a])

DocInv == Singles /\ LoginsDone /\ LoggedInFirst /\ AllAccounted /\ OncePerSession

LEMMA SingleInboxes ==
    ASSUME NEW box, \A a \in Atoms : box[a] = <<>> \/ \E d : box[a] = <<d>>
    PROVE  \A d : d \in UNION {ToSet(box[a]) : a \in Atoms}
                   <=> \E a \in Atoms : box[a] = <<d>>
    <1>1. \A d : ToSet(<<d>>) = {d}
        BY DEF ToSet
    <1>2. ToSet(<<>>) = {}
        BY EmptyInjective
    <1>3. \A a \in Atoms : \A d : d \in ToSet(box[a]) <=> box[a] = <<d>>
        <2>. SUFFICES ASSUME NEW a \in Atoms, NEW d
                      PROVE  d \in ToSet(box[a]) <=> box[a] = <<d>>
            OBVIOUS
        <2>1. CASE box[a] = <<>>
            BY <1>2, <2>1, SingleFacts
        <2>2. ASSUME NEW e, box[a] = <<e>>
              PROVE  d \in ToSet(box[a]) <=> box[a] = <<d>>
            <3>1. ToSet(box[a]) = {e}
                BY <1>1, <2>2
            <3>2. <<e>> = <<d>> <=> e = d
                BY SingleFacts
            <3>. QED  BY <2>2, <3>1, <3>2
        <2>. QED  BY <2>1, <2>2
    <1>. QED  BY <1>3

LEMMA UnexecutedIs ==
    ASSUME Singles
    PROVE  \A d : d \in Unexecuted <=> \E a \in Atoms : inbox[a] = <<d>>
    BY SingleInboxes DEF Unexecuted, Singles

\* A step of a caller that touches no document, as the sessions see it.
LEMMA HandlingKeepsLogins ==
    ASSUME IInv, CallInv, LoginsDone, NEW t \in Callers, Handling(t)
    PROVE  LoginsDone'
    <1>. USE DEF LoginsDone
    <1>0. UNCHANGED <<inbox, outbox, executed>> /\ AtomStep(t)
        BY DEF Handling, wireVars
    <1>1. /\ idle \in Seq(Atoms) /\ IsInjective(idle)
          /\ pc[t] \in HoldsAtom => held[t] \in Atoms /\ held[t] \notin ToSet(idle)
        BY DEF IInv, AtomInv, AtomType, ExclusiveLease
    <1>2. \A a : LoggedInAt(a)' <=> LoggedInAt(a)
        BY <1>0 DEF LoggedInAt
    <1>3. ASSUME NEW a \in ToSet(idle')
          PROVE  LoggedInAt(a)
        <2>1. CASE Returned(t)
            <3>1. ToSet(idle') = ToSet(idle) \cup {held[t]}
                BY <1>1, <2>1, AppendInjective1 DEF Returned, HoldsAtom
            <3>. QED  BY <2>1, <3>1 DEF Returned
        <2>2. CASE Picked(t)
            <3>1. ToSet(idle') = ToSet(idle) \ {Last(idle)}
                BY <1>1, <2>2, FrontInjective DEF Picked
            <3>. QED  BY <3>1
        <2>3. CASE idle' = idle
            BY <2>3
        <2>. QED
            BY <1>0, <2>1, <2>2, <2>3
               DEF AtomStep, Aside, Dropped, Made, Registered, ClosedBy
    <1>4. ASSUME pc'[t] = "using"
          PROVE  LoggedInAt(held'[t])
        <2>1. CASE Picked(t)
            BY <1>1, <2>1, FrontInjective DEF Picked
        <2>2. CASE Registered(t)
            BY <2>2 DEF Registered, Handling, LoggedInAt
        <2>. QED
            BY <1>0, <1>4, <2>1, <2>2
               DEF AtomStep, Aside, Dropped, Made, ClosedBy, Returned, HoldsAtom
    <1>5. pc'[t] = "login" => replies'[t] = <<>>
        BY DEF Handling, Anew, Leaving
    <1>6. ASSUME NEW u \in Callers \ {t}
          PROVE  /\ held'[u] = held[u] /\ replies'[u] = replies[u]
                 /\ pc'[u] \in {"login", "using"} => pc'[u] = pc[u]
        BY OthersSame
    <1>7. \A u \in Callers : pc'[u] = "using" => LoggedInAt(held'[u])
        BY <1>4, <1>6
    <1>8. ASSUME NEW u \in Callers, pc'[u] = "login", NEW i \in 1..Len(replies'[u])
          PROVE  \E l \in executed : /\ l.kind = "login" /\ l.step = i
                                     /\ l.atom = held'[u]
        BY <1>5, <1>6, <1>8
    <1>. QED  BY <1>0, <1>2, <1>3, <1>7, <1>8

LEMMA HandlingKeepsAccounts ==
    ASSUME IInv, CallInv, NEW t \in Callers, Handling(t), NEW d \in Documents,
           Accounted(d, d.caller)
    PROVE  Accounted(d, d.caller)'
    <1>. USE DEF CallInv, BeforeLogin
    <1>1. d.caller \in Callers /\ d.call \in Nat /\ d.step \in Nat
        BY DEF Documents
    <1>2. /\ \A u \in Callers : call[u] \in Nat /\ Len(replies[u]) \in Nat
          /\ awaiting \subseteq Callers
        BY DEF CallsTypeOK
    <1>3. CASE d.caller # t
        <2>. DEFINE u == d.caller
        <2>1. /\ call'[u] = call[u] /\ replies'[u] = replies[u]
              /\ u \in awaiting' <=> u \in awaiting
              /\ pc'[u] = pc[u] \/ (pc[u] = "waiting" /\ pc'[u] = "granted")
            BY <1>1, <1>3, OthersSame
        <2>2. Sent(u)' = Sent(u)
            BY <2>1 DEF Sent
        <2>. QED  BY <2>1, <2>2 DEF Accounted
    <1>4. CASE d.caller = t
        <2>1. Accounted(d, t) /\ d.call <= call[t] /\ call[t] \in Nat
            BY <1>2, <1>4 DEF Accounted
        <2>2. CASE call'[t] = call[t] + 1
            <3>1. d.call <= call'[t] /\ d.call # call'[t]
                BY <1>1, <2>1, <2>2
            <3>. QED  BY <1>4, <3>1 DEF Accounted
        <2>3. CASE call'[t] = call[t]
            <3>1. CASE d.call < call[t]
                BY <1>1, <1>4, <2>1, <2>3, <3>1 DEF Accounted
            <3>2. CASE d.call = call[t] /\ Leaving(t)
                BY <1>4, <2>1, <2>3, <3>2 DEF Accounted, Leaving
            <3>3. CASE d.call = call[t] /\ ~Leaving(t)
                <4>1. /\ d.kind \in {"login", "group"}
                      /\ \/ pc[t] \in BeforeLogin
                         \/ pc[t] = "abandoning" /\ pc'[t] = "out"
                         \/ pc[t] = "login" /\ pc'[t] \in {"using", "abandoning"}
                    BY <2>3, <3>3 DEF Handling, Moving, Documents
                <4>2. d.kind = "login"
                    BY <2>1, <3>3, <4>1 DEF Accounted
                <4>3. pc[t] \notin BeforeLogin
                    BY <2>1, <3>3, <4>2 DEF Accounted
                <4>. QED  BY <1>4, <2>1, <2>3, <4>1, <4>2, <4>3 DEF Accounted
            <3>. QED  BY <1>1, <2>1, <3>1, <3>2, <3>3
        <2>. QED  BY <2>2, <2>3 DEF Handling, Moving
    <1>. QED  BY <1>3, <1>4

LEMMA HandlingKeepsDocs ==
    ASSUME IInv, CallInv, DocInv, NEW t \in Callers, Handling(t)
    PROVE  DocInv'
    <1>. USE DEF DocInv
    <1>1. UNCHANGED <<inbox, outbox, executed>>
        BY DEF Handling, wireVars
    <1>2. Given' = Given /\ Unexecuted' = Unexecuted
        BY <1>1 DEF Given, Unexecuted
    <1>3. Singles' /\ LoggedInFirst' /\ OncePerSession'
        BY <1>1, <1>2 DEF Singles, LoggedInFirst, OncePerSession
    <1>4. AllAccounted'
        BY <1>2, HandlingKeepsAccounts DEF AllAccounted
    <1>. QED  BY <1>3, <1>4, HandlingKeepsLogins

LEMMA SendKeepsDocs ==
    ASSUME IInv, CallInv, DocInv, NEW t \in Callers, Send(t)
    PROVE  DocInv'
    <1>. USE DEF CallInv, DocInv
    <1>0. pc[t] \in {"login", "using"}
        BY DEF Send
    <1>a. PICK a \in Atoms : a = held[t]
        BY <1>0, OwnSession
    <1>d. PICK d \in Documents : d = Awaited(t)
        BY <1>0, AwaitedIsDocument
    <1>1. /\ t \notin awaiting /\ awaiting' = awaiting \cup {t}
          /\ UNCHANGED <<conn, idle, pc, held, call, size, outcome, replies, outbox, executed>>
          /\ inbox' = inbox \/ inbox' = [inbox EXCEPT ![a] = Append(@, d)]
        BY <1>a, <1>d DEF Send, vars, Awaited
    <1>2. Clear(a)
        BY <1>0, <1>1, <1>a DEF WireOK
    <1>3. /\ d.caller = t /\ d.call = call[t] /\ d.kind = KindOf(t) /\ d.atom = a
          /\ d.step = Len(replies[t]) + 1
        BY <1>a, <1>d DEF Awaited, Document
    <1>4. /\ \A b \in Atoms \ {a} : inbox'[b] = inbox[b]
          /\ inbox[a] = <<>>
          /\ inbox'[a] = <<>> \/ inbox'[a] = <<d>>
        BY <1>1, <1>2, SingleFacts DEF Clear, CallsTypeOK
    <1>5. Singles'
        BY <1>1, <1>3, <1>4 DEF Singles
    <1>6. \A e : e \in Unexecuted' => e \in Unexecuted \/ e = d
        <2>1. \A e : e \in Unexecuted' <=> \E b \in Atoms : inbox'[b] = <<e>>
            <3>1. \A b \in Atoms : inbox'[b] = <<>> \/ \E f : inbox'[b] = <<f>>
                BY <1>5 DEF Singles
            <3>. QED  BY <3>1, SingleInboxes DEF Unexecuted
        <2>2. \A e : e \in Unexecuted <=> \E b \in Atoms : inbox[b] = <<e>>
            BY UnexecutedIs
        <2>3. \A e : <<e>> # <<>> /\ (<<e>> = <<d>> => e = d)
            BY SingleFacts
        <2>. QED  BY <1>4, <2>1, <2>2, <2>3
    <1>7. d \notin Given
        <2>. SUFFICES ASSUME Accounted(d, t) PROVE FALSE
            BY <1>3 DEF AllAccounted
        <2>1. d.step > Sent(t)
            BY <1>1, <1>3 DEF Sent, CallsTypeOK
        <2>. QED
            BY <1>0, <1>3, <2>1 DEF Accounted, Sent, KindOf, CallsTypeOK
    <1>8. OncePerSession'
        <2>1. \A b \in Atoms : IsInjective(inbox'[b])
            <3>1. \A e : IsInjective(<<e>>)
                BY DEF IsInjective
            <3>. QED  BY <1>4, <3>1, EmptyInjective DEF OncePerSession
        <2>. QED  BY <1>1, <1>6, <1>7, <2>1 DEF OncePerSession, Given
    <1>9. AllAccounted'
        <2>1. \A u \in Callers : /\ Len(replies[u]) \in Nat
                                 /\ Sent(u) <= Sent(u)' /\ Sent(u) \in Nat /\ Sent(u)' \in Nat
              /\ Sent(t)' = Len(replies[t]) + 1
            BY <1>1 DEF Sent, CallsTypeOK
        <2>2. Accounted(d, t)'
            <3>1. call[t] \in Nat /\ Len(replies[t]) \in Nat
                BY DEF CallsTypeOK
            <3>. QED  BY <1>0, <1>1, <1>3, <2>1, <3>1 DEF Accounted, KindOf, BeforeLogin
        <2>3. ASSUME NEW e \in Given
              PROVE  e \in Documents /\ Accounted(e, e.caller)'
            <3>1. e \in Documents /\ Accounted(e, e.caller) /\ e.caller \in Callers /\ e.step \in Nat
                BY DEF AllAccounted, Documents
            <3>. QED  BY <1>1, <2>1, <3>1 DEF Accounted
        <2>. QED  BY <1>1, <1>3, <1>6, <2>2, <2>3 DEF AllAccounted, Given
    <1>10. LoginsDone'
        <2>1. \A b : LoggedInAt(b)' <=> LoggedInAt(b)
            BY <1>1 DEF LoggedInAt
        <2>2. d.kind = "group" => LoggedInAt(a)
            BY <1>0, <1>3, <1>a DEF KindOf, LoginsDone
        <2>3. \A b \in Atoms, e \in Documents :
                 inbox'[b] = <<e>> /\ e.kind = "group" => LoggedInAt(b)
            <3>1. \A e : <<e>> # <<>> /\ (<<e>> = <<d>> => e = d)
                BY SingleFacts
            <3>. QED  BY <1>4, <2>2, <3>1 DEF LoginsDone
        <2>. QED  BY <1>1, <2>1, <2>3 DEF LoginsDone
    <1>11. LoggedInFirst'
        BY <1>1 DEF LoggedInFirst
    <1>. QED  BY <1>5, <1>8, <1>9, <1>10, <1>11

LEMMA ReceiveKeepsDocs ==
    ASSUME IInv, CallInv, DocInv, NEW t \in Callers, Receive(t)
    PROVE  DocInv'
    <1>. USE DEF CallInv, DocInv
    <1>0. pc[t] \in {"login", "using"}
        BY DEF Receive
    <1>a. PICK a \in Atoms : a = held[t]
        BY <1>0, OwnSession
    <1>d. PICK d \in Documents : d = Awaited(t)
        BY <1>0, AwaitedIsDocument
    <1>1. /\ t \in awaiting /\ awaiting' = awaiting \ {t}
          /\ outbox[a] # <<>>
          /\ UNCHANGED <<conn, idle, pc, held, call, size, outcome, inbox, executed>>
          /\ replies' = [replies EXCEPT ![t] = Append(@, Head(outbox[a]))]
          /\ outbox' = [outbox EXCEPT ![a] = Tail(@)]
        BY <1>a DEF Receive, vars
    <1>2. inbox[a] = <<>> /\ outbox[a] = <<d>>
        BY <1>0, <1>1, <1>a, <1>d DEF WireOK, Clear, Owes
    <1>3. /\ \A b \in Atoms \ {a} : outbox'[b] = outbox[b]
          /\ outbox'[a] = <<>>
          /\ \A u \in Callers \ {t} : replies'[u] = replies[u]
          /\ replies'[t] = Append(replies[t], d)
        BY <1>1, <1>2, SingleFacts DEF CallsTypeOK
    <1>4. /\ \A u \in Callers : Len(replies[u]) \in Nat
          /\ Len(replies'[t]) = Len(replies[t]) + 1
          /\ replies'[t][Len(replies[t]) + 1] = d
          /\ \A i \in 1..Len(replies[t]) : replies'[t][i] = replies[t][i]
        BY <1>3, AppendProperties DEF CallsTypeOK
    <1>5. Singles'
        <2>1. \A e : <<e>> # <<>>
            BY SingleFacts
        <2>. QED  BY <1>1, <1>3, <2>1 DEF Singles
    <1>6. Given' = Given /\ Unexecuted' = Unexecuted
        BY <1>1 DEF Given, Unexecuted
    <1>7. AllAccounted'
        <2>1. \A u \in Callers : Sent(u)' = Sent(u) /\ Len(replies'[u]) >= Len(replies[u])
            BY <1>1, <1>3, <1>4 DEF Sent
        <2>2. \A u \in Callers : Len(replies'[u]) \in Nat
            BY <1>3, <1>4
        <2>3. ASSUME NEW e \in Given
              PROVE  e \in Documents /\ Accounted(e, e.caller)'
            <3>1. e \in Documents /\ Accounted(e, e.caller) /\ e.caller \in Callers /\ e.step \in Nat
                BY DEF AllAccounted, Documents
            <3>. QED  BY <1>1, <1>4, <2>1, <2>2, <3>1 DEF Accounted
        <2>. QED  BY <1>6, <2>3 DEF AllAccounted
    <1>8. LoginsDone'
        <2>1. \A b : LoggedInAt(b)' <=> LoggedInAt(b)
            BY <1>1 DEF LoggedInAt
        <2>2. ASSUME pc[t] = "login", NEW i \in 1..Len(replies'[t])
              PROVE  \E l \in executed : l.kind = "login" /\ l.step = i /\ l.atom = a
            <3>1. CASE i \in 1..Len(replies[t])
                BY <1>a, <2>2, <3>1 DEF LoginsDone
            <3>2. CASE i = Len(replies[t]) + 1
                <4>1. d \in executed
                    BY <1>2 DEF Singles
                <4>2. d.kind = "login" /\ d.step = i /\ d.atom = a
                    BY <1>a, <1>d, <2>2, <3>2 DEF Awaited, Document, KindOf
                <4>. QED  BY <4>1, <4>2
            <3>. QED  BY <1>4, <3>1, <3>2
        <2>3. ASSUME NEW u \in Callers, pc[u] = "login", NEW i \in 1..Len(replies'[u])
              PROVE  \E l \in executed : l.kind = "login" /\ l.step = i /\ l.atom = held[u]
            BY <1>3, <1>a, <2>2, <2>3 DEF LoginsDone
        <2>. QED  BY <1>1, <2>1, <2>3 DEF LoginsDone
    <1>9. LoggedInFirst' /\ OncePerSession'
        BY <1>1, <1>6 DEF LoggedInFirst, OncePerSession
    <1>. QED  BY <1>5, <1>7, <1>8, <1>9

LEMMA ExecuteKeepsDocs ==
    ASSUME IInv, CallInv, DocInv, NEW a \in Atoms, Execute(a)
    PROVE  DocInv'
    <1>. USE DEF CallInv, DocInv
    <1>d. PICK d \in Documents : inbox[a] = <<d>> /\ d.atom = a /\ d = Head(inbox[a])
        BY SingleFacts DEF Execute, Singles
    <1>1. /\ UNCHANGED <<conn, idle, pc, held, call, size, outcome, awaiting, replies>>
          /\ executed' = executed \cup {d}
          /\ inbox' = [inbox EXCEPT ![a] = <<>>]
          /\ outbox' = outbox \/ outbox' = [outbox EXCEPT ![a] = Append(@, d)]
        BY <1>d, SingleFacts DEF Execute, vars, callVars
    <1>2. /\ \A b \in Atoms \ {a} : inbox'[b] = inbox[b] /\ outbox'[b] = outbox[b]
          /\ inbox'[a] = <<>>
          /\ outbox'[a] \in {outbox[a], Append(outbox[a], d)}
        BY <1>1 DEF CallsTypeOK
    <1>3. Singles'
        <2>1. ASSUME NEW e, outbox'[a] = <<e>>
              PROVE  e \in executed'
            <3>1. CASE outbox[a] = <<e>>
                BY <1>1, <3>1 DEF Singles
            <3>2. CASE Append(outbox[a], d) = <<e>>
                <4>1. /\ Append(outbox[a], d)[Len(outbox[a]) + 1] = d
                      /\ Len(Append(outbox[a], d)) = Len(outbox[a]) + 1
                      /\ Len(outbox[a]) \in Nat
                    BY AppendProperties DEF CallsTypeOK
                <4>2. e = d
                    BY <3>2, <4>1, SingleFacts
                <4>. QED  BY <1>1, <4>2
            <3>. QED  BY <1>2, <2>1, <3>1, <3>2
        <2>. QED  BY <1>1, <1>2, <2>1 DEF Singles
    <1>4. \A e : e \in Unexecuted' <=> e \in Unexecuted /\ e # d
        <2>1. \A e : e \in Unexecuted' <=> \E b \in Atoms : inbox'[b] = <<e>>
            <3>1. \A b \in Atoms : inbox'[b] = <<>> \/ \E f : inbox'[b] = <<f>>
                BY <1>3 DEF Singles
            <3>. QED  BY <3>1, SingleInboxes DEF Unexecuted
        <2>2. \A e : e \in Unexecuted <=> \E b \in Atoms : inbox[b] = <<e>>
            BY UnexecutedIs
        <2>3. \A e : <<e>> # <<>> /\ (<<e>> = <<d>> => e = d)
            BY SingleFacts
        <2>4. \A b \in Atoms : inbox[b] = <<d>> => b = a
            BY <1>d, <2>3 DEF Singles
        <2>5. ASSUME NEW e, NEW b \in Atoms, inbox'[b] = <<e>>
              PROVE  inbox[b] = <<e>> /\ e # d
            <3>1. b # a /\ inbox[b] = <<e>>
                BY <1>2, <2>3, <2>5
            <3>. QED  BY <2>4, <3>1
        <2>6. ASSUME NEW e, NEW b \in Atoms, inbox[b] = <<e>>, e # d
              PROVE  inbox'[b] = <<e>>
            <3>1. b # a
                BY <1>d, <2>3, <2>6
            <3>. QED  BY <1>2, <2>6, <3>1
        <2>. QED  BY <2>1, <2>2, <2>5, <2>6
    <1>5. d \in Unexecuted
        BY <1>d, UnexecutedIs
    <1>6. Given' = Given
        BY <1>1, <1>4, <1>5 DEF Given
    <1>7. AllAccounted'
        BY <1>1, <1>6 DEF AllAccounted, Accounted, Sent
    <1>8. OncePerSession'
        BY <1>1, <1>2, <1>4, EmptyInjective DEF OncePerSession
    <1>9. LoginsDone'
        <2>1. \A b : LoggedInAt(b) => LoggedInAt(b)'
            BY <1>1 DEF LoggedInAt
        <2>2. \A b \in Atoms, e \in Documents :
                 inbox'[b] = <<e>> /\ e.kind = "group" => LoggedInAt(b)
            BY <1>2, SingleFacts DEF LoginsDone
        <2>. QED  BY <1>1, <2>1, <2>2 DEF LoginsDone
    <1>10. LoggedInFirst'
        <2>1. d.kind = "group" => LoggedInAt(a)
            BY <1>d DEF LoginsDone
        <2>. QED  BY <1>1, <1>d, <2>1 DEF LoggedInFirst, LoggedInAt
    <1>. QED  BY <1>3, <1>7, <1>8, <1>9, <1>10

LEMMA OtherKeepsDocs ==
    ASSUME IInv, CallInv, DocInv, OtherStep, UNCHANGED <<callVars, wireVars>>
    PROVE  DocInv'
    <1>. USE DEF DocInv
    <1>1. /\ UNCHANGED <<pc, held>>
          /\ UNCHANGED <<call, size, outcome, awaiting, replies, inbox, outbox, executed>>
        BY DEF OtherStep, callVars, wireVars
    <1>2. ToSet(idle') \subseteq ToSet(idle)
        <2>1. idle \in Seq(Atoms) /\ IsInjective(idle)
            BY DEF IInv, AtomInv, AtomType, ExclusiveLease
        <2>. QED  BY <2>1, FrontInjective DEF OtherStep
    <1>3. Given' = Given /\ Unexecuted' = Unexecuted
        BY <1>1 DEF Given, Unexecuted
    <1>4. Singles' /\ LoggedInFirst' /\ OncePerSession'
        BY <1>1, <1>3 DEF Singles, LoggedInFirst, OncePerSession
    <1>5. AllAccounted'
        BY <1>1, <1>3 DEF AllAccounted, Accounted, Sent
    <1>6. LoginsDone'
        BY <1>1, <1>2 DEF LoginsDone, LoggedInAt
    <1>. QED  BY <1>4, <1>5, <1>6

LEMMA DocInvInit == CallsInit => DocInv
    <1>. SUFFICES ASSUME CallsInit PROVE DocInv
        OBVIOUS
    <1>1. /\ idle = <<>> /\ pc = [t \in Callers |-> "out"]
          /\ inbox = [a \in Atoms |-> <<>>] /\ outbox = [a \in Atoms |-> <<>>]
          /\ executed = {}
        BY DEF CallsInit, Init
    <1>2. \A d : <<d>> # <<>>
        BY SingleFacts
    <1>3. Singles
        BY <1>1, <1>2 DEF Singles
    <1>4. Unexecuted = {}
        BY <1>1, EmptyInjective DEF Unexecuted
    <1>5. AllAccounted /\ LoggedInFirst /\ OncePerSession
        BY <1>1, <1>4, EmptyInjective DEF AllAccounted, Given, LoggedInFirst, OncePerSession
    <1>6. LoginsDone
        BY <1>1, <1>2, EmptyInjective DEF LoginsDone
    <1>. QED  BY <1>3, <1>5, <1>6 DEF DocInv

LEMMA DocInvNext ==
    ASSUME IInv, CallInv, DocInv, [CallsNext]_allVars
    PROVE  DocInv'
    BY StepKinds, StepHandles, HandlingKeepsDocs, SendKeepsDocs, ReceiveKeepsDocs,
       ExecuteKeepsDocs, OtherKeepsDocs

LEMMA DocInvariance == CallsSpec => []DocInv
    <1>. QED  BY DocInvInit, DocInvNext, PoolInvariance, CallInvariance, PTL DEF CallsSpec

-----------------------------------------------------------------------------
(* The theorems.                                                           *)

\* Calls, documents and replies keep their types, and only a caller with a
\* session waits for a reply.
THEOREM CallsTypeCorrect == CallsSpec => []CallsTypeOK
    <1>1. CallInv => CallsTypeOK
        BY DEF CallInv
    <1>. QED  BY <1>1, CallInvariance, PTL

\* Whatever fails, times out or is cancelled, and whoever used the session
\* before, the i-th reply of a caller answers the i-th document of its call.
THEOREM RepliesBelongToCaller == CallsSpec => []OwnReplies
    <1>1. CallInv => OwnReplies
        BY DEF CallInv
    <1>. QED  BY <1>1, CallInvariance, PTL

\* The server executes no command on a session that is not logged in.
THEOREM LoginComesFirst == CallsSpec => []LoggedInFirst
    <1>1. DocInv => LoggedInFirst
        BY DEF DocInv
    <1>. QED  BY <1>1, DocInvariance, PTL

\* Of a call that raised, one document at most was given to the server
\* without a reply that came back.
THEOREM OneDocumentInDoubt == CallsSpec => []OneInDoubt
    <1>1. DocInv => OneInDoubt
        BY DEF DocInv, AllAccounted, Accounted, Given, OneInDoubt
    <1>. QED  BY <1>1, DocInvariance, PTL

-----------------------------------------------------------------------------
(* The calls over the pool implement CommandService.                         *)

\* A call runs while its caller is inside the pool.
RunningInside ==
    \A t \in Callers :
       IF pc[t] \in {"out", "refused"}
       THEN call[t] = 0 \/ outcome[t] # "none"
       ELSE call[t] > 0 /\ outcome[t] = "none"

\* A caller that closes a session whose block did not raise has its replies.
CompleteWhenHealthy ==
    \A t \in Callers :
       pc[t] = "returning" /\ held[t] \notin spoiled => Len(replies[t]) = size[t]

\* The documents of a login, and those of a call, are given to one session: the
\* one that its caller holds as long as it sends more.
OneSession ==
    \A d, e \in Given :
       d.caller = e.caller /\ d.call = e.call /\ d.kind = e.kind => d.atom = e.atom

SentOnHeld ==
    \A d \in Given :
       /\ d.call = call[d.caller] /\ d.kind = KindOf(d.caller)
       /\ pc[d.caller] \in {"login", "using"}
       => d.atom = held[d.caller]

OutcomeInv == RunningInside /\ CompleteWhenHealthy
SessionInv == OneSession /\ SentOnHeld

-----------------------------------------------------------------------------
(* Outcomes.                                                               *)

\* A caller that goes on inside the pool stays there, one that leaves is out.
LEMMA PlaceAfter ==
    ASSUME IInv, NEW t \in Callers
    PROVE  /\ Acquire(t) \/ Resume(t) \/ DiscardDone(t) \/ OpenOk(t) \/ LoginOk(t)
                 \/ LoginFail(t)
              => pc'[t] \notin {"out", "refused", "returning"}
           /\ GiveUp(t) \/ GiveUpGranted(t) \/ DiscardCancelled(t) \/ OpenFail(t)
                 \/ AbandonDone(t) \/ ReturnDone(t) \/ ReturnCancelled(t)
              => pc'[t] = "out"
           /\ Refuse(t) => pc'[t] = "refused"
    <1>. USE DEF IInv, SlotInv, SlotType
    <1>1. CASE Acquire(t)
        <2>1. CASE Pick(t, pc)
            BY <1>1, <2>1 DEF Pick, Acquire, GiveUp, GiveUpGranted, DiscardCancelled,
                  OpenFail, AbandonDone, ReturnDone, ReturnCancelled, Refuse
        <2>2. CASE ~Pick(t, pc)
            BY <1>1, <2>2 DEF Acquire, GiveUp, GiveUpGranted, DiscardCancelled,
                  OpenFail, AbandonDone, ReturnDone, ReturnCancelled, Refuse
        <2>. QED  BY <2>1, <2>2
    <1>2. CASE Resume(t) \/ DiscardDone(t)
        <2>1. PICK p \in [Callers -> CallerPc] : Pick(t, p)
            BY <1>2 DEF Resume, DiscardDone, CallerPc, HoldsPermit, HoldsAtom
        <2>2. pc'[t] \in {"opening", "using", "discarding"}
            BY <2>1 DEF Pick
        <2>3. pc[t] \in {"granted", "discarding"}
            BY <1>2 DEF Resume, DiscardDone
        <2>4. ~GiveUpGranted(t) /\ ~DiscardCancelled(t)
            BY <2>2, GiverIsOut DEF GiveUpGranted, DiscardCancelled, FailAcquire,
                 HoldsPermit, HoldsAtom
        <2>. QED
            BY <2>2, <2>3, <2>4 DEF GiveUp, OpenFail, AbandonDone, ReturnDone,
                 ReturnCancelled, Refuse
    <1>3. OpenOk(t) \/ LoginOk(t) \/ LoginFail(t)
             => pc'[t] \in {"login", "using", "abandoning"} /\ pc[t] \in {"opening", "login"}
        BY DEF OpenOk, LoginOk, LoginFail
    <1>4. GiveUpGranted(t) \/ DiscardCancelled(t) \/ OpenFail(t) \/ AbandonDone(t)
             \/ ReturnDone(t) \/ ReturnCancelled(t) => pc'[t] = "out"
        BY GiverIsOut DEF GiveUpGranted, DiscardCancelled, OpenFail, AbandonDone,
             ReturnDone, ReturnCancelled, FailAcquire, HoldsPermit, HoldsAtom
    <1>5. /\ GiveUp(t) => pc'[t] = "out"
          /\ Refuse(t) => pc'[t] = "refused"
        BY DEF GiveUp, Refuse
    <1>. QED  BY <1>1, <1>2, <1>3, <1>4, <1>5

LEMMA HandlingKeepsOutcomes ==
    ASSUME IInv, CallInv, OutcomeInv, NEW t \in Callers, HandlingStep(t)
    PROVE  OutcomeInv'
    <1>. USE DEF CallInv, OutcomeInv
    <1>0. Handling(t)
        BY StepHandles
    <1>1. /\ call \in [Callers -> Nat] /\ outcome \in [Callers -> {"none", "returned", "raised"}]
          /\ size \in [Callers -> 0..MaxGroups]
        BY DEF CallsTypeOK
    <1>2. ASSUME NEW u \in Callers \ {t}
          PROVE  /\ held'[u] = held[u] /\ call'[u] = call[u] /\ replies'[u] = replies[u]
                 /\ outcome'[u] = outcome[u] /\ size'[u] = size[u]
                 /\ pc'[u] = pc[u] \/ (pc[u] = "waiting" /\ pc'[u] = "granted")
                 /\ held[u] \in spoiled' /\ pc[u] = "returning" => held[u] \in spoiled
        <2>1. /\ held'[u] = held[u] /\ call'[u] = call[u] /\ replies'[u] = replies[u]
              /\ pc'[u] = pc[u] \/ (pc[u] = "waiting" /\ pc'[u] = "granted")
            BY <1>0, OthersSame
        <2>2. outcome'[u] = outcome[u]
            BY <1>0 DEF Handling, OthersKept
        <2>3. size'[u] = size[u]
            BY <1>1 DEF HandlingStep, Begin, Refused, Proceed, NoSession, LoggedIn,
                   LoginBroken, Complete, Fail, GivenBack, GivenBackCancelled, callVars
        <2>4. held[u] \in spoiled' /\ pc[u] = "returning" => held[u] \in spoiled
            BY <1>0 DEF Handling, AtomStep, ClosedBy, IInv, AtomInv, ExclusiveLease,
                        HoldsAtom
        <2>. QED  BY <2>1, <2>2, <2>3, <2>4
    <1>3. spoiled \subseteq spoiled'
        BY <1>0 DEF Handling, AtomStep
    <1>4. /\ IF pc'[t] \in {"out", "refused"}
             THEN call'[t] = 0 \/ outcome'[t] # "none"
             ELSE call'[t] > 0 /\ outcome'[t] = "none"
          /\ pc'[t] = "returning" /\ held'[t] \notin spoiled' => Len(replies'[t]) = size'[t]
        <2>1. CASE Begin(t)
            <3>1. Acquire(t) /\ call'[t] = call[t] + 1 /\ outcome'[t] = "none"
                BY <1>1, <2>1 DEF Begin, Ends
            <3>. QED  BY <1>1, <3>1, PlaceAfter
        <2>2. CASE Refused(t)
            <3>1. Refuse(t) /\ outcome'[t] = "raised"
                BY <1>1, <2>2 DEF Refused, Ends
            <3>. QED  BY <3>1, PlaceAfter
        <2>3. CASE Proceed(t) \/ LoggedIn(t) \/ LoginBroken(t)
            <3>1. /\ Resume(t) \/ DiscardDone(t) \/ OpenOk(t) \/ LoginOk(t) \/ LoginFail(t)
                  /\ UNCHANGED <<call, outcome>>
                BY <2>3 DEF Proceed, LoggedIn, LoginBroken, callVars
            <3>2. pc[t] \notin {"out", "refused"}
                BY <3>1 DEF Resume, DiscardDone, OpenOk, LoginOk, LoginFail
            <3>. QED  BY <3>1, <3>2, PlaceAfter DEF RunningInside
        <2>4. CASE NoSession(t) \/ GivenBackCancelled(t)
            <3>1. pc'[t] = "out"
                BY <2>4, PlaceAfter DEF NoSession, GivenBackCancelled
            <3>2. outcome'[t] = "raised"
                BY <1>1, <2>4 DEF NoSession, GivenBackCancelled, Ends
            <3>. QED  BY <3>1, <3>2
        <2>5. CASE Complete(t)
            <3>1. /\ pc[t] = "using" /\ pc'[t] \in {"returning", "out"}
                  /\ UNCHANGED <<call, size, replies>> /\ Len(replies[t]) = size[t]
                BY <2>5, ReleasePlace DEF Complete
            <3>2. IF pc'[t] = "out" THEN outcome'[t] = "returned" ELSE outcome' = outcome
                BY <1>1, <2>5 DEF Complete, Ends
            <3>. QED  BY <3>1, <3>2 DEF RunningInside
        <2>6. CASE Fail(t)
            <3>1. /\ pc[t] = "using" /\ ClosedBy(t) /\ UNCHANGED <<call, outcome>>
                  /\ spoiled' = spoiled \cup {held[t]}
                BY <2>6, ReleasePlace DEF Fail, Release
            <3>. QED  BY <3>1 DEF RunningInside, ClosedBy
        <2>7. CASE GivenBack(t)
            <3>1. pc'[t] = "out"
                BY <2>7, PlaceAfter DEF GivenBack
            <3>2. outcome'[t] \in {"raised", "returned"}
                BY <1>1, <2>7 DEF GivenBack, Ends
            <3>. QED  BY <3>1, <3>2
        <2>. QED  BY <2>1, <2>2, <2>3, <2>4, <2>5, <2>6, <2>7 DEF HandlingStep
    <1>. QED  BY <1>2, <1>3, <1>4 DEF RunningInside, CompleteWhenHealthy

LEMMA StepKeepsOutcomes ==
    ASSUME IInv, CallInv, OutcomeInv, [CallsNext]_allVars
    PROVE  OutcomeInv'
    <1>. USE DEF OutcomeInv
    <1>1. ASSUME NEW t \in Callers, HandlingStep(t)
          PROVE  OutcomeInv'
        BY <1>1, HandlingKeepsOutcomes
    <1>2. ASSUME NEW t \in Callers, Send(t)
          PROVE  OutcomeInv'
        BY <1>2 DEF Send, vars, RunningInside, CompleteWhenHealthy
    <1>3. ASSUME NEW t \in Callers, Receive(t)
          PROVE  OutcomeInv'
        <2>1. /\ UNCHANGED <<pc, held, spoiled, call, size, outcome>>
              /\ pc[t] \in {"login", "using"}
              /\ \A u \in Callers \ {t} : replies'[u] = replies[u]
            BY <1>3 DEF Receive, vars, CallInv, CallsTypeOK
        <2>. QED  BY <2>1 DEF RunningInside, CompleteWhenHealthy
    <1>4. ASSUME NEW a \in Atoms, Execute(a)
          PROVE  OutcomeInv'
        BY <1>4 DEF Execute, vars, callVars, RunningInside, CompleteWhenHealthy
    <1>5. CASE OtherStep /\ UNCHANGED <<callVars, wireVars>>
        BY <1>5 DEF OtherStep, callVars, RunningInside, CompleteWhenHealthy
    <1>. QED  BY <1>1, <1>2, <1>3, <1>4, <1>5, StepKinds

-----------------------------------------------------------------------------
(* Sessions.                                                               *)

\* The one step that gives the server a document.
LEMMA SendGives ==
    ASSUME IInv, CallInv, DocInv, NEW t \in Callers, Send(t)
    PROVE  /\ UNCHANGED <<pc, held, call, size, outcome, replies, executed>>
           /\ pc[t] \in {"login", "using"} /\ Len(replies[t]) < Trips(t)
           /\ \E d \in Documents :
                 /\ d = Awaited(t)
                 /\ Given' = Given \/ Given' = Given \cup {d}
    <1>. USE DEF CallInv, DocInv
    <1>0. /\ UNCHANGED <<pc, held, call, size, outcome, replies, executed>>
          /\ pc[t] \in {"login", "using"} /\ Len(replies[t]) < Trips(t)
        BY DEF Send, vars
    <1>a. PICK a \in Atoms : a = held[t]
        BY <1>0, OwnSession
    <1>d. PICK d \in Documents : d = Awaited(t)
        BY <1>0, AwaitedIsDocument
    <1>1. inbox' = inbox \/ inbox' = [inbox EXCEPT ![a] = Append(@, d)]
        BY <1>a, <1>d DEF Send, Awaited
    <1>2. CASE inbox' = inbox
        BY <1>0, <1>d, <1>2 DEF Given, Unexecuted
    <1>3. CASE inbox' = [inbox EXCEPT ![a] = Append(@, d)]
        <2>1. inbox[a] = <<>>
            BY <1>0, <1>a DEF Send, WireOK, Clear
        <2>2. /\ inbox'[a] = <<d>>
              /\ \A b \in Atoms \ {a} : inbox'[b] = inbox[b]
            BY <1>3, <2>1, SingleFacts DEF CallsTypeOK
        <2>3. \A e : e \in Unexecuted' <=> \E b \in Atoms : inbox'[b] = <<e>>
            <3>1. \A b \in Atoms : inbox'[b] = <<>> \/ \E f : inbox'[b] = <<f>>
                BY <2>2 DEF Singles
            <3>. QED  BY <3>1, SingleInboxes DEF Unexecuted
        <2>4. \A e : e \in Unexecuted <=> \E b \in Atoms : inbox[b] = <<e>>
            BY UnexecutedIs
        <2>5. \A e : <<e>> # <<>> /\ (<<e>> = <<d>> => e = d)
            BY SingleFacts
        <2>6. ASSUME NEW e
              PROVE  e \in Unexecuted' <=> e \in Unexecuted \/ e = d
            <3>1. CASE e = d
                BY <2>2, <2>3, <3>1
            <3>2. CASE e # d
                BY <2>1, <2>2, <2>3, <2>4, <2>5, <3>2
            <3>. QED  BY <3>1, <3>2
        <2>. QED  BY <1>0, <1>d, <2>6 DEF Given
    <1>. QED  BY <1>1, <1>2, <1>3

\* The server's step takes a document out of the inbox of its session.
LEMMA ExecuteTakes ==
    ASSUME IInv, CallInv, DocInv, NEW a \in Atoms, Execute(a)
    PROVE  /\ UNCHANGED <<pc, held, call, size, outcome, replies>>
           /\ Given' = Given
           /\ \E d \in Unexecuted : executed' = executed \cup {d}
    <1>. USE DEF CallInv, DocInv
    <1>d. PICK d \in Documents : inbox[a] = <<d>> /\ d.atom = a /\ d = Head(inbox[a])
        BY SingleFacts DEF Execute, Singles
    <1>1. /\ UNCHANGED <<pc, held, call, size, outcome, replies>>
          /\ executed' = executed \cup {d}
          /\ inbox' = [inbox EXCEPT ![a] = <<>>]
        BY <1>d, SingleFacts DEF Execute, vars, callVars
    <1>2. /\ \A b \in Atoms \ {a} : inbox'[b] = inbox[b]
          /\ inbox'[a] = <<>>
        BY <1>1 DEF CallsTypeOK
    <1>3. \A e : e \in Unexecuted' <=> \E b \in Atoms : inbox'[b] = <<e>>
        <2>1. \A b \in Atoms : inbox'[b] = <<>> \/ \E f : inbox'[b] = <<f>>
            BY <1>2 DEF Singles
        <2>. QED  BY <2>1, SingleInboxes DEF Unexecuted
    <1>4. \A e : e \in Unexecuted <=> \E b \in Atoms : inbox[b] = <<e>>
        BY UnexecutedIs
    <1>5. \A e : <<e>> # <<>> /\ (<<e>> = <<d>> => e = d)
        BY SingleFacts
    <1>6. d \in Unexecuted
        BY <1>d, <1>4
    <1>7. ASSUME NEW e
          PROVE  e \in Given' <=> e \in Given
        <2>1. CASE e = d
            BY <1>1, <1>6, <2>1 DEF Given
        <2>2. CASE e # d
            BY <1>1, <1>2, <1>3, <1>4, <1>5, <1>d, <2>2 DEF Given
        <2>. QED  BY <2>1, <2>2
    <1>. QED  BY <1>1, <1>6, <1>7

LEMMA SessionsFixed ==
    ASSUME SessionInv, Given' = Given,
           \A u \in Callers :
              call'[u] # call[u] \/ pc'[u] \notin {"login", "using"}
              \/ (pc'[u] = pc[u] /\ held'[u] = held[u])
              \/ \A d \in Given : ~(d.kind = KindOf(u)' /\ d.caller = u /\ d.call = call[u]),
           \A d \in Given : d \in Documents /\ d.call <= call[d.caller],
           \A u \in Callers : call[u] \in Nat /\ call'[u] \in Nat /\ call'[u] >= call[u]
    PROVE  SessionInv'
    <1>1. OneSession'
        BY DEF SessionInv, OneSession
    <1>2. SentOnHeld'
        <2>. SUFFICES ASSUME NEW d \in Given, d.kind = KindOf(d.caller)',
                             d.call = call'[d.caller],
                             pc'[d.caller] \in {"login", "using"}
                      PROVE  d.atom = held'[d.caller]
            BY DEF SentOnHeld
        <2>1. d.caller \in Callers /\ d.call \in Nat /\ d.call <= call[d.caller]
            BY DEF Documents
        <2>2. call'[d.caller] = call[d.caller]
            BY <2>1
        <2>3. pc'[d.caller] = pc[d.caller] /\ held'[d.caller] = held[d.caller]
            BY <2>1, <2>2
        <2>4. d.kind = KindOf(d.caller)
            BY <2>3 DEF KindOf
        <2>. QED  BY <2>2, <2>3, <2>4 DEF SessionInv, SentOnHeld
    <1>. QED  BY <1>1, <1>2 DEF SessionInv

LEMMA StepKeepsSessions ==
    ASSUME IInv, CallInv, DocInv, SessionInv, [CallsNext]_allVars
    PROVE  SessionInv'
    <1>0. /\ \A d \in Given : d \in Documents /\ d.call <= call[d.caller] /\ Accounted(d, d.caller)
          /\ \A u \in Callers : call[u] \in Nat /\ Len(replies[u]) \in Nat
        BY DEF DocInv, AllAccounted, Accounted, CallInv, CallsTypeOK
    <1>1. ASSUME NEW t \in Callers, HandlingStep(t)
          PROVE  SessionInv'
        <2>1. Handling(t) /\ Given' = Given
            BY <1>1, StepHandles DEF Handling, wireVars, Given, Unexecuted
        <2>2. ASSUME NEW u \in Callers \ {t}
              PROVE  /\ call'[u] = call[u] /\ held'[u] = held[u]
                     /\ pc'[u] \in {"login", "using"} => pc'[u] = pc[u]
            BY <2>1, OthersSame
        <2>3. call'[t] \in {call[t], call[t] + 1}
            BY <2>1 DEF Handling, Moving, Leaving
        <2>4. \/ call'[t] # call[t] \/ pc'[t] \notin {"login", "using"}
              \/ pc[t] \in BeforeLogin \/ (pc[t] = "login" /\ pc'[t] = "using")
            <3>1. call'[t] = call[t] + 1 => call'[t] # call[t]
                BY <1>0
            <3>. QED  BY <2>1, <3>1 DEF Handling, Moving, Leaving, BeforeLogin
        <2>5. \/ call'[t] # call[t] \/ pc'[t] \notin {"login", "using"}
              \/ \A d \in Given : ~(d.kind = KindOf(t)' /\ d.caller = t /\ d.call = call[t])
            <3>1. CASE pc[t] \in BeforeLogin
                <4>1. \A d \in Given : d.kind \in {"login", "group"}
                    BY <1>0 DEF Documents
                <4>. QED  BY <1>0, <3>1, <4>1 DEF Accounted, BeforeLogin
            <3>2. CASE pc[t] = "login" /\ pc'[t] = "using"
                BY <1>0, <3>2 DEF Accounted, KindOf
            <3>. QED  BY <2>4, <3>1, <3>2
        <2>6. \A u \in Callers :
                 call'[u] # call[u] \/ pc'[u] \notin {"login", "using"}
                 \/ (pc'[u] = pc[u] /\ held'[u] = held[u])
                 \/ \A d \in Given : ~(d.kind = KindOf(u)' /\ d.caller = u /\ d.call = call[u])
            BY <2>2, <2>5
        <2>7. \A u \in Callers : call[u] \in Nat /\ call'[u] \in Nat /\ call'[u] >= call[u]
            BY <1>0, <2>2, <2>3
        <2>. QED  BY <1>0, <2>1, <2>6, <2>7, SessionsFixed
    <1>2. ASSUME NEW t \in Callers, Send(t)
          PROVE  SessionInv'
        <2>1. /\ UNCHANGED <<pc, held, call, replies>>
              /\ pc[t] \in {"login", "using"}
            BY <1>2, SendGives
        <2>2. PICK d \in Documents : /\ d = Awaited(t)
                                     /\ Given' = Given \/ Given' = Given \cup {d}
            BY <1>2, SendGives
        <2>3. /\ d.caller = t /\ d.call = call[t] /\ d.kind = KindOf(t) /\ d.atom = held[t]
            BY <2>2 DEF Awaited, Document
        <2>4. ASSUME NEW e \in Given, e.kind = d.kind, e.caller = d.caller,
                     e.call = d.call
              PROVE  e.atom = d.atom
            BY <2>1, <2>3, <2>4 DEF SessionInv, SentOnHeld
        <2>5. OneSession'
            BY <2>2, <2>4 DEF SessionInv, OneSession
        <2>6. SentOnHeld'
            BY <2>1, <2>2, <2>3 DEF SessionInv, SentOnHeld, KindOf
        <2>. QED  BY <2>5, <2>6 DEF SessionInv
    <1>3. ASSUME NEW t \in Callers, Receive(t)
          PROVE  SessionInv'
        BY <1>3 DEF Receive, vars, SessionInv, OneSession, SentOnHeld, KindOf, Given, Unexecuted
    <1>4. ASSUME NEW a \in Atoms, Execute(a)
          PROVE  SessionInv'
        BY <1>4, ExecuteTakes DEF SessionInv, OneSession, SentOnHeld, KindOf
    <1>5. CASE OtherStep /\ UNCHANGED <<callVars, wireVars>>
        BY <1>5 DEF OtherStep, callVars, wireVars, SessionInv, OneSession, SentOnHeld,
                    KindOf, Given, Unexecuted
    <1>. QED  BY <1>1, <1>2, <1>3, <1>4, <1>5, StepKinds

MInv == IInv /\ CallInv /\ DocInv /\ OutcomeInv /\ SessionInv

LEMMA MInvariance == CallsSpec => []MInv
    <1>1. CallsInit => OutcomeInv /\ SessionInv
        <2>. SUFFICES ASSUME CallsInit PROVE OutcomeInv /\ SessionInv
            OBVIOUS
        <2>1. Given = {}
            BY EmptyInjective DEF CallsInit, Given, Unexecuted
        <2>. QED
            BY <2>1 DEF CallsInit, Init, OutcomeInv, RunningInside, CompleteWhenHealthy,
                        SessionInv, OneSession, SentOnHeld
    <1>2. MInv /\ [CallsNext]_allVars => OutcomeInv' /\ SessionInv'
        BY StepKeepsOutcomes, StepKeepsSessions DEF MInv
    <1>. QED
        BY <1>1, <1>2, PoolInvariance, CallInvariance, DocInvariance, PTL
        DEF CallsSpec, MInv

\* No document reaches the server twice, on its session or on another one, for
\* all documents of a login, or of a call, go to one session.
THEOREM NothingSentTwice == CallsSpec => []ExecutedOnce
    <1>1. MInv => ExecutedOnce
        <2>. SUFFICES ASSUME MInv, NEW d \in Given, NEW e \in Given, Name(d) = Name(e)
                      PROVE  d.atom = e.atom
            BY DEF MInv, DocInv, OncePerSession, ExecutedOnce, Given
        <2>1. d.caller = e.caller /\ d.call = e.call /\ d.kind = e.kind
            BY DEF Name
        <2>. QED  BY <2>1 DEF MInv, SessionInv, OneSession
    <1>. QED  BY <1>1, MInvariance, PTL

-----------------------------------------------------------------------------
(* Each step seen through the refinement mapping.                          *)

serviceVars ==
    <<call, size, outcome, [t \in Callers |-> ServiceReplies(t)], ServiceDocs(Given),
      ServiceDocs(executed)>>

LEMMA EmptySeen ==
    ASSUME NEW t \in Callers, replies[t] = <<>> \/ pc[t] = "login"
    PROVE  ServiceReplies(t) = <<>>
    <1>1. CASE pc[t] = "login"
        BY <1>1 DEF ServiceReplies
    <1>2. CASE pc[t] # "login"
        <2>1. replies[t] = <<>> /\ Len(replies[t]) = 0
            BY <1>2
        <2>2. ServiceReplies(t) = [i \in 1..0 |-> ServiceView(replies[t][i])]
            BY <1>2, <2>1 DEF ServiceReplies
        <2>3. 1..0 = {}
            OBVIOUS
        <2>. QED  BY <2>2, <2>3
    <1>. QED  BY <1>1, <1>2

LEMMA AppendSeen ==
    ASSUME NEW r \in Seq(Documents), NEW d \in Documents
    PROVE  [i \in 1..Len(Append(r, d)) |-> ServiceView(Append(r, d)[i])]
              = Append([i \in 1..Len(r) |-> ServiceView(r[i])], ServiceView(d))
    <1>. DEFINE Views == {ServiceView(e) : e \in Documents}
                v == [i \in 1..Len(r) |-> ServiceView(r[i])]
                w == ServiceView(d)
                s == [i \in 1..Len(Append(r, d)) |-> ServiceView(Append(r, d)[i])]
    <1>1. /\ Len(r) \in Nat /\ Len(Append(r, d)) = Len(r) + 1
          /\ Append(r, d)[Len(r) + 1] = d
          /\ \A i \in 1..Len(r) : Append(r, d)[i] = r[i] /\ r[i] \in Documents
        BY AppendProperties, ElementOfSeq
    <1>2. v \in Seq(Views) /\ Len(v) = Len(r) /\ w \in Views
        <2>1. v \in [1..Len(r) -> Views]
            BY <1>1
        <2>2. v \in Seq(Views)
            BY <1>1, <2>1
        <2>3. DOMAIN v = 1..Len(r)
            OBVIOUS
        <2>. QED  BY <1>1, <2>2, <2>3, LenProperties
    <1>3. \A i \in 1..Len(r) : v[i] = ServiceView(r[i])
        OBVIOUS
    <1>4. /\ DOMAIN s = 1..(Len(r) + 1)
          /\ \A i \in 1..(Len(r) + 1) : s[i] = ServiceView(Append(r, d)[i])
        BY <1>1
    <1>. HIDE DEF v, s, w, Views
    <1>5. /\ Append(v, w) \in Seq(Views) /\ Len(Append(v, w)) = Len(r) + 1
          /\ Append(v, w)[Len(r) + 1] = w
          /\ \A i \in 1..Len(r) : Append(v, w)[i] = v[i]
        BY <1>2, AppendProperties
    <1>6. \A i \in 1..(Len(r) + 1) : s[i] = Append(v, w)[i]
        BY <1>1, <1>3, <1>4, <1>5 DEF w
    <1>7. s \in Seq(Views)
        <2>1. \A i \in 1..(Len(r) + 1) : s[i] \in Views
            BY <1>5, <1>6, ElementOfSeq
        <2>. QED  BY <1>1, <1>4, <2>1 DEF s
    <1>8. Len(s) = Len(r) + 1
        BY <1>1, <1>4, <1>7, LenProperties
    <1>9. s = Append(v, w)
        BY <1>5, <1>6, <1>7, <1>8, SeqEqual
    <1>. QED  BY <1>9 DEF s, v, w

\* Only the caller of a step that touches no document is seen to move.
LEMMA HandlingSeen ==
    ASSUME CallInv, NEW t \in Callers, Handling(t)
    PROVE  /\ \A u \in Callers \ {t} : ServiceReplies(u)' = ServiceReplies(u)
           /\ Given' = Given /\ executed' = executed
           /\ Anew(t) => ServiceReplies(t)' = <<>>
           /\ Leaving(t) => ServiceReplies(t)' = ServiceReplies(t)
    <1>1. ASSUME NEW u \in Callers \ {t}
          PROVE  ServiceReplies(u)' = ServiceReplies(u)
        <2>1. replies'[u] = replies[u] /\ (pc'[u] = "login" <=> pc[u] = "login")
            BY OthersSame
        <2>. QED  BY <2>1 DEF ServiceReplies
    <1>2. Given' = Given /\ executed' = executed
        BY DEF Handling, wireVars, Given, Unexecuted
    <1>3. Leaving(t) => ServiceReplies(t)' = ServiceReplies(t)
        BY DEF Leaving, ServiceReplies
    <1>4. Anew(t) => ServiceReplies(t)' = <<>>
        <2>. SUFFICES ASSUME replies'[t] = <<>> PROVE ServiceReplies(t)' = <<>>
            BY DEF Anew
        <2>1. CASE pc'[t] = "login"
            BY <2>1 DEF ServiceReplies
        <2>2. CASE pc'[t] # "login"
            <3>1. Len(replies'[t]) = 0 /\ 1..0 = {}
                OBVIOUS
            <3>2. ServiceReplies(t)' = [i \in 1..0 |-> ServiceView(replies'[t][i])]
                BY <2>2, <3>1 DEF ServiceReplies, ServiceView
            <3>. QED  BY <3>1, <3>2
        <2>. QED  BY <2>1, <2>2
    <1>. QED  BY <1>1, <1>2, <1>3, <1>4

\* A function on the callers that differs at one of them.
LEMMA OnlyOneMoves ==
    ASSUME NEW t \in Callers, \A u \in Callers \ {t} : ServiceReplies(u)' = ServiceReplies(u)
    PROVE  /\ [u \in Callers |-> ServiceReplies(u)]'
                = [[u \in Callers |-> ServiceReplies(u)] EXCEPT ![t] = ServiceReplies(t)']
           /\ ServiceReplies(t)' = ServiceReplies(t)
                => [u \in Callers |-> ServiceReplies(u)]' = [u \in Callers |-> ServiceReplies(u)]
    OBVIOUS

LEMMA HandlingMaps ==
    ASSUME MInv, NEW t \in Callers, HandlingStep(t)
    PROVE  [Service!Next]_serviceVars
    <1>. USE DEF MInv, OutcomeInv, serviceVars
    <1>. DEFINE seen == [u \in Callers |-> ServiceReplies(u)]
    <1>0. Handling(t)
        BY StepHandles
    <1>1. /\ Given' = Given /\ executed' = executed
          /\ seen' = [seen EXCEPT ![t] = ServiceReplies(t)']
          /\ ServiceReplies(t)' = ServiceReplies(t) => seen' = seen
          /\ Anew(t) => ServiceReplies(t)' = <<>>
          /\ Leaving(t) => ServiceReplies(t)' = ServiceReplies(t)
        BY <1>0, HandlingSeen, OnlyOneMoves
    <1>2. ServiceDocs(Given)' = ServiceDocs(Given) /\ ServiceDocs(executed)' = ServiceDocs(executed)
        BY <1>1 DEF ServiceDocs, ServiceView
    <1>3. seen[t] = ServiceReplies(t)
        OBVIOUS
    <1>. HIDE DEF seen
    <1>4. CASE Begin(t)
        <2>1. /\ Acquire(t) /\ pc[t] = "out" /\ Anew(t)
              /\ call' = [call EXCEPT ![t] = @ + 1]
              /\ \E n \in 0..MaxGroups : size' = [size EXCEPT ![t] = n]
              /\ outcome' = [outcome EXCEPT ![t] = "none"]
            BY <1>4 DEF Begin, Acquire, Ends, Anew, CallInv, CallsTypeOK
        <2>2. ~Service!Running(t)
            BY <2>1 DEF RunningInside, Service!Running
        <2>3. Service!Begin(t)
            BY <1>1, <1>2, <2>1, <2>2 DEF Service!Begin, seen, Given
        <2>. QED  BY <2>3 DEF Service!Next
    <1>5. CASE Refused(t)
        <2>1. /\ pc[t] = "out" /\ Anew(t)
              /\ call' = [call EXCEPT ![t] = @ + 1] /\ size' = size
              /\ outcome' = [outcome EXCEPT ![t] = "raised"]
            BY <1>5 DEF Refused, Refuse, Ends, Anew, CallInv, CallsTypeOK
        <2>2. ~Service!Running(t)
            BY <2>1 DEF RunningInside, Service!Running
        <2>3. Service!Refuse(t)
            BY <1>1, <1>2, <2>1, <2>2 DEF Service!Refuse, seen, Given
        <2>. QED  BY <2>3 DEF Service!Next
    <1>6. CASE Proceed(t) \/ LoggedIn(t) \/ LoginBroken(t)
        <2>1. /\ UNCHANGED <<call, size, outcome>> /\ Anew(t)
              /\ pc[t] \in {"granted", "discarding", "opening", "login"}
            BY <1>6 DEF Proceed, LoggedIn, LoginBroken, Resume, DiscardDone, OpenOk,
                        LoginOk, LoginFail, callVars, Anew, CallInv, CallsTypeOK,
                        NoEarlyReplies
        <2>2. ServiceReplies(t) = <<>>
            BY <2>1, EmptySeen DEF CallInv, NoEarlyReplies
        <2>. QED  BY <1>1, <1>2, <2>1, <2>2 DEF seen
    <1>7. CASE NoSession(t)
        <2>1. /\ UNCHANGED <<call, size, replies>>
              /\ pc[t] \in {"waiting", "granted", "discarding", "opening", "abandoning"}
              /\ outcome' = [outcome EXCEPT ![t] = "raised"]
            BY <1>7 DEF NoSession, GiveUp, GiveUpGranted, DiscardCancelled, OpenFail,
                        AbandonDone, Ends
        <2>2. ServiceReplies(t) = <<>> /\ Anew(t)
            BY <2>1, EmptySeen DEF CallInv, NoEarlyReplies, Anew
        <2>3. Service!Running(t)
            BY <2>1 DEF RunningInside, Service!Running
        <2>4. Service!Raise(t)
            BY <1>1, <1>2, <2>1, <2>2, <2>3 DEF Service!Raise, seen, Given
        <2>. QED  BY <2>4 DEF Service!Next
    <1>8. CASE Complete(t)
        <2>1. /\ UNCHANGED <<call, size, replies>> /\ Len(replies[t]) = size[t]
              /\ pc[t] = "using" /\ pc'[t] \in {"returning", "out"}
              /\ IF pc'[t] = "out" THEN outcome' = [outcome EXCEPT ![t] = "returned"]
                                   ELSE outcome' = outcome
            BY <1>8, ReleasePlace DEF Complete, Ends
        <2>2. Leaving(t)
            BY <2>1 DEF Leaving
        <2>3. CASE pc'[t] = "out"
            <3>1. Service!Running(t)
                BY <2>1 DEF RunningInside, Service!Running
            <3>2. Len(ServiceReplies(t)) = size[t]
                BY <2>1 DEF ServiceReplies, CallInv, CallsTypeOK
            <3>3. Service!Return(t)
                BY <1>1, <1>2, <1>3, <2>1, <2>2, <2>3, <3>1, <3>2
                   DEF Service!Return, seen, Given
            <3>. QED  BY <3>3 DEF Service!Next
        <2>4. CASE pc'[t] # "out"
            BY <1>1, <1>2, <2>1, <2>2, <2>4 DEF seen
        <2>. QED  BY <2>3, <2>4
    <1>9. CASE Fail(t)
        <2>1. /\ UNCHANGED <<call, size, outcome, replies>>
              /\ pc[t] = "using" /\ pc'[t] \in {"returning", "out"}
            BY <1>9, ReleasePlace DEF Fail
        <2>2. Leaving(t)
            BY <2>1 DEF Leaving
        <2>. QED  BY <1>1, <1>2, <2>1, <2>2 DEF seen
    <1>10. CASE GivenBack(t) \/ GivenBackCancelled(t)
        <2>1. /\ UNCHANGED <<call, size, replies>> /\ pc[t] = "returning"
              /\ \/ outcome' = [outcome EXCEPT ![t] = "raised"]
                 \/ /\ held[t] \notin spoiled
                    /\ outcome' = [outcome EXCEPT ![t] = "returned"]
            BY <1>10 DEF GivenBack, GivenBackCancelled, ReturnDone, ReturnCancelled, Ends
        <2>2. pc'[t] = "out"
            BY <1>10, PlaceAfter DEF GivenBack, GivenBackCancelled
        <2>3. Leaving(t)
            BY <2>1, <2>2 DEF Leaving
        <2>4. Service!Running(t)
            BY <2>1 DEF RunningInside, Service!Running
        <2>5. CASE outcome' = [outcome EXCEPT ![t] = "raised"]
            <3>1. Service!Raise(t)
                BY <1>1, <1>2, <2>1, <2>3, <2>4, <2>5 DEF Service!Raise, seen, Given
            <3>. QED  BY <3>1 DEF Service!Next
        <2>6. CASE /\ held[t] \notin spoiled
                   /\ outcome' = [outcome EXCEPT ![t] = "returned"]
            <3>1. Len(replies[t]) = size[t]
                BY <2>1, <2>6 DEF CompleteWhenHealthy
            <3>2. Len(ServiceReplies(t)) = size[t]
                BY <2>1, <3>1 DEF ServiceReplies, CallInv, CallsTypeOK
            <3>3. Service!Return(t)
                BY <1>1, <1>2, <1>3, <2>1, <2>3, <2>4, <2>6, <3>2
                   DEF Service!Return, seen, Given
            <3>. QED  BY <3>3 DEF Service!Next
        <2>. QED  BY <2>1, <2>5, <2>6
    <1>. QED
        BY <1>4, <1>5, <1>6, <1>7, <1>8, <1>9, <1>10 DEF HandlingStep

\* One more document, as the service sees it.
LEMMA OneMoreDoc ==
    ASSUME NEW S, NEW d
    PROVE  ServiceDocs(S \cup {d}) = IF d.kind = "group"
                                     THEN ServiceDocs(S) \cup {ServiceView(d)}
                                     ELSE ServiceDocs(S)
    <1>1. \A v : v \in ServiceDocs(S \cup {d})
                 <=> \E e \in S \cup {d} : e.kind = "group" /\ v = ServiceView(e)
        BY DEF ServiceDocs
    <1>2. \A v : v \in ServiceDocs(S) <=> \E e \in S : e.kind = "group" /\ v = ServiceView(e)
        BY DEF ServiceDocs
    <1>3. CASE d.kind = "group"
        <2>1. \A v : v \in ServiceDocs(S \cup {d}) <=> v \in ServiceDocs(S) \cup {ServiceView(d)}
            BY <1>1, <1>2, <1>3
        <2>. QED  BY <1>3, <2>1
    <1>4. CASE d.kind # "group"
        <2>1. \A v : v \in ServiceDocs(S \cup {d}) <=> v \in ServiceDocs(S)
            BY <1>1, <1>2, <1>4
        <2>. QED  BY <1>4, <2>1
    <1>. QED  BY <1>3, <1>4

\* A document of a login, or one that is lost, is not seen.
LEMMA SendMaps ==
    ASSUME MInv, NEW t \in Callers, Send(t)
    PROVE  [Service!Next]_serviceVars
    <1>. USE DEF MInv, OutcomeInv, serviceVars
    <1>. DEFINE seen == [u \in Callers |-> ServiceReplies(u)]
    <1>1. /\ UNCHANGED <<pc, held, call, size, outcome, replies, executed>>
          /\ pc[t] \in {"login", "using"} /\ Len(replies[t]) < Trips(t)
        BY SendGives
    <1>2. PICK d \in Documents : /\ d = Awaited(t)
                                 /\ Given' = Given \/ Given' = Given \cup {d}
        BY SendGives
    <1>3. seen' = seen /\ ServiceDocs(executed)' = ServiceDocs(executed)
        BY <1>1 DEF ServiceReplies, ServiceDocs, ServiceView
    <1>4. /\ d.caller = t /\ d.call = call[t] /\ d.kind = KindOf(t)
          /\ d.step = Len(replies[t]) + 1
        BY <1>2 DEF Awaited, Document
    <1>5. CASE Given' = Given
        BY <1>1, <1>3, <1>5 DEF ServiceDocs, ServiceView
    <1>6. CASE Given' = Given \cup {d} /\ d.kind # "group"
        <2>1. ServiceDocs(Given)' = ServiceDocs(Given \cup {d})
            BY <1>6 DEF ServiceDocs, ServiceView
        <2>2. ServiceDocs(Given)' = ServiceDocs(Given)
            BY <1>6, <2>1, OneMoreDoc
        <2>. QED  BY <1>1, <1>3, <2>2
    <1>7. CASE Given' = Given \cup {d} /\ d.kind = "group"
        <2>1. ServiceDocs(Given)' = ServiceDocs(Given \cup {d})
            BY <1>7 DEF ServiceDocs, ServiceView
        <2>2. ServiceDocs(Given)' = ServiceDocs(Given) \cup {ServiceView(d)}
            BY <1>7, <2>1, OneMoreDoc
        <2>3. pc[t] = "using"
            BY <1>1, <1>4, <1>7 DEF KindOf
        <2>4. Service!Running(t)
            BY <2>3 DEF RunningInside, Service!Running
        <2>5. Len(replies[t]) \in Nat /\ Len(replies[t]) < size[t]
            BY <1>1, <2>3 DEF Trips, CallInv, CallsTypeOK
        <2>6. Len(seen[t]) = Len(replies[t])
            BY <2>3, <2>5 DEF ServiceReplies
        <2>7. ServiceView(d) = Service!Document(t, Len(seen[t]) + 1)
            BY <1>4, <2>6 DEF ServiceView, Service!Document
        <2>8. ServiceView(d) \notin ServiceDocs(Given)
            <3>. SUFFICES ASSUME NEW e \in Given, e.kind = "group",
                                 ServiceView(d) = ServiceView(e)
                          PROVE  FALSE
                BY DEF ServiceDocs
            <3>1. e.caller = t /\ e.call = call[t] /\ e.step = Len(replies[t]) + 1
                BY <1>4 DEF ServiceView
            <3>2. Accounted(e, t)
                BY <3>1 DEF DocInv, AllAccounted
            <3>3. Sent(t) = Len(replies[t])
                BY DEF Send, Sent
            <3>. QED  BY <2>3, <2>5, <3>1, <3>2, <3>3 DEF Accounted
        <2>. HIDE DEF seen
        <2>9. Service!Submit(t)
            BY <1>1, <1>3, <2>2, <2>4, <2>5, <2>6, <2>7, <2>8
               DEF Service!Submit, seen, Given
        <2>. QED  BY <2>9 DEF Service!Next
    <1>. QED  BY <1>2, <1>5, <1>6, <1>7

\* The reply to a document of the call answers it; that to a login is not seen.
LEMMA ReceiveMaps ==
    ASSUME MInv, NEW t \in Callers, Receive(t)
    PROVE  [Service!Next]_serviceVars
    <1>. USE DEF MInv, OutcomeInv, serviceVars
    <1>. DEFINE seen == [u \in Callers |-> ServiceReplies(u)]
    <1>0. pc[t] \in {"login", "using"}
        BY DEF Receive
    <1>a. PICK a \in Atoms : a = held[t]
        BY <1>0, OwnSession
    <1>d. PICK d \in Documents : d = Awaited(t)
        BY <1>0, AwaitedIsDocument
    <1>1. /\ t \in awaiting /\ outbox[a] # <<>>
          /\ UNCHANGED <<pc, call, size, outcome, inbox, executed>>
          /\ replies' = [replies EXCEPT ![t] = Append(@, Head(outbox[a]))]
        BY <1>a DEF Receive, vars
    <1>2. inbox[a] = <<>> /\ outbox[a] = <<d>>
        BY <1>0, <1>1, <1>a, <1>d DEF CallInv, WireOK, Clear, Owes
    <1>3. d \in executed
        BY <1>2 DEF DocInv, Singles
    <1>4. /\ replies'[t] = Append(replies[t], d)
          /\ \A u \in Callers \ {t} : replies'[u] = replies[u]
        BY <1>1, <1>2, SingleFacts DEF CallInv, CallsTypeOK
    <1>5. /\ ServiceDocs(Given)' = ServiceDocs(Given)
          /\ ServiceDocs(executed)' = ServiceDocs(executed)
        BY <1>1 DEF ServiceDocs, ServiceView, Given, Unexecuted
    <1>6. \A u \in Callers \ {t} : ServiceReplies(u)' = ServiceReplies(u)
        BY <1>1, <1>4 DEF ServiceReplies, ServiceView
    <1>7. /\ seen' = [seen EXCEPT ![t] = ServiceReplies(t)']
          /\ ServiceReplies(t)' = ServiceReplies(t) => seen' = seen
        BY <1>6, OnlyOneMoves
    <1>8. CASE pc[t] = "login"
        <2>1. ServiceReplies(t)' = ServiceReplies(t)
            BY <1>1, <1>8 DEF ServiceReplies
        <2>. QED  BY <1>1, <1>5, <1>7, <2>1
    <1>9. CASE pc[t] = "using"
        <2>1. Service!Running(t)
            BY <1>9 DEF RunningInside, Service!Running
        <2>2. replies[t] \in Seq(Documents) /\ Len(replies[t]) \in Nat
            BY DEF CallInv, CallsTypeOK
        <2>3. ServiceReplies(t)' = Append(ServiceReplies(t), ServiceView(d))
            <3>1. ServiceReplies(t)'
                     = [i \in 1..Len(Append(replies[t], d)) |-> ServiceView(Append(replies[t], d)[i])]
                BY <1>1, <1>4, <1>9 DEF ServiceReplies, ServiceView
            <3>2. ServiceReplies(t) = [i \in 1..Len(replies[t]) |-> ServiceView(replies[t][i])]
                BY <1>9 DEF ServiceReplies
            <3>. QED  BY <2>2, <3>1, <3>2, AppendSeen
        <2>4. Len(ServiceReplies(t)) = Len(replies[t])
            BY <1>9, <2>2 DEF ServiceReplies
        <2>5. ServiceView(d) = Service!Document(t, Len(seen[t]) + 1)
            BY <1>d, <2>4 DEF Awaited, Document, ServiceView, Service!Document
        <2>6. ServiceView(d) \in ServiceDocs(executed)
            BY <1>3, <1>9, <1>d DEF ServiceDocs, Awaited, Document, KindOf
        <2>7. seen[t] = ServiceReplies(t)
            OBVIOUS
        <2>. HIDE DEF seen
        <2>8. Service!Answer(t)
            BY <1>1, <1>5, <1>7, <2>1, <2>3, <2>5, <2>6, <2>7
               DEF Service!Answer, seen, Given
        <2>. QED  BY <2>8 DEF Service!Next
    <1>. QED  BY <1>0, <1>8, <1>9

\* The server executes a document of a call, or one of a login.
LEMMA ExecuteMaps ==
    ASSUME MInv, NEW a \in Atoms, Execute(a)
    PROVE  [Service!Next]_serviceVars
    <1>. USE DEF MInv, DocInv, serviceVars
    <1>. DEFINE seen == [u \in Callers |-> ServiceReplies(u)]
    <1>1. /\ UNCHANGED <<pc, held, call, size, outcome, replies>> /\ Given' = Given
          /\ \E d \in Unexecuted : executed' = executed \cup {d}
        BY ExecuteTakes
    <1>2. PICK d \in Unexecuted : executed' = executed \cup {d}
        BY <1>1
    <1>3. seen' = seen /\ ServiceDocs(Given)' = ServiceDocs(Given)
        BY <1>1 DEF ServiceReplies, ServiceDocs, ServiceView
    <1>4. ServiceDocs(executed)' = ServiceDocs(executed \cup {d})
        BY <1>2 DEF ServiceDocs, ServiceView
    <1>5. d \in Given /\ d \notin executed
        BY DEF Given, OncePerSession
    <1>6. CASE d.kind # "group"
        <2>1. ServiceDocs(executed)' = ServiceDocs(executed)
            BY <1>4, <1>6, OneMoreDoc
        <2>. QED  BY <1>1, <1>3, <2>1
    <1>7. CASE d.kind = "group"
        <2>1. ServiceDocs(executed)' = ServiceDocs(executed) \cup {ServiceView(d)}
            BY <1>4, <1>7, OneMoreDoc
        <2>2. ServiceView(d) \in ServiceDocs(Given)
            BY <1>5, <1>7 DEF ServiceDocs
        <2>3. ServiceView(d) \notin ServiceDocs(executed)
            <3>. SUFFICES ASSUME NEW e \in executed, e.kind = "group",
                                 ServiceView(d) = ServiceView(e)
                          PROVE  FALSE
                BY DEF ServiceDocs
            <3>1. d.caller = e.caller /\ d.call = e.call /\ d.step = e.step
                BY DEF ServiceView
            <3>2. e \in Given /\ d \in Documents /\ e \in Documents
                BY <1>5 DEF Given, AllAccounted
            <3>3. d.atom = e.atom
                BY <1>5, <1>7, <3>1, <3>2 DEF SessionInv, OneSession
            <3>4. d = e
                BY <1>7, <3>1, <3>2, <3>3 DEF Documents
            <3>. QED  BY <1>5, <3>4
        <2>. HIDE DEF seen
        <2>4. Service!Execute(ServiceView(d))
            BY <1>1, <1>3, <2>1, <2>2, <2>3 DEF Service!Execute, seen, Given
        <2>. QED  BY <2>2, <2>4 DEF Service!Next, Given
    <1>. QED  BY <1>6, <1>7

LEMMA OtherMaps ==
    ASSUME OtherStep, UNCHANGED <<callVars, wireVars>>
    PROVE  UNCHANGED serviceVars
    <1>1. UNCHANGED <<call, size, outcome, replies, inbox, executed, pc>>
        BY DEF OtherStep, callVars, wireVars
    <1>. QED
        BY <1>1 DEF serviceVars, ServiceReplies, ServiceDocs, ServiceView, Given, Unexecuted

LEMMA StepMaps ==
    ASSUME MInv, [CallsNext]_allVars
    PROVE  [Service!Next]_serviceVars
    <1>1. \/ \E t \in Callers : HandlingStep(t) \/ Send(t) \/ Receive(t)
          \/ \E a \in Atoms : Execute(a)
          \/ OtherStep /\ UNCHANGED <<callVars, wireVars>>
        BY StepKinds DEF MInv
    <1>. QED  BY <1>1, HandlingMaps, SendMaps, ReceiveMaps, ExecuteMaps, OtherMaps

LEMMA InitMaps == CallsInit => Service!Init
    <1>. SUFFICES ASSUME CallsInit PROVE Service!Init
        OBVIOUS
    <1>1. Given = {} /\ executed = {}
        BY EmptyInjective DEF CallsInit, Given, Unexecuted
    <1>2. ServiceDocs(Given) = {} /\ ServiceDocs(executed) = {}
        BY <1>1 DEF ServiceDocs
    <1>3. \A t \in Callers : ServiceReplies(t) = <<>>
        BY EmptySeen DEF CallsInit
    <1>. QED  BY <1>2, <1>3 DEF CallsInit, Service!Init, Given

\* The composed program implements the service: whatever the pool does, each
\* document is executed at most once and a call returns with all its replies.
THEOREM PooledCallsImplementService == CallsSpec => ImplementsService
    <1>1. CallsInit => Service!Init
        BY InitMaps
    <1>2. MInv /\ [CallsNext]_allVars => [Service!Next]_(Service!vars)
        BY StepMaps DEF serviceVars, Service!vars, Given
    <1>. QED  BY <1>1, <1>2, MInvariance, PTL DEF CallsSpec, ImplementsService, Service!Spec
=============================================================================

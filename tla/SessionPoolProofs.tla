------------------------- MODULE SessionPoolProofs -------------------------
(***************************************************************************)
(* What SessionPool promises, proved for every number of callers, closers  *)
(* and atoms and every max_size, and that it implements the lease          *)
(* discipline of LeasePool.                                                *)
(***************************************************************************)
EXTENDS SessionPool, SequenceFacts

-----------------------------------------------------------------------------
(* The inductive invariant of the slots: permits, queue and pc.            *)

\* The callers queued for the semaphore are those parked there, once each.
QueueOK ==
    /\ IsInjective(queue)
    /\ \A t \in ToSet(queue) : pc[t] = "waiting"

SlotType ==
    /\ permits \in 0..MaxSize
    /\ queue \in Seq(Callers)
    /\ pc \in [Callers -> CallerPc]

SlotInv == SlotType /\ QueueOK /\ PermitConservation /\ NoWaiterForgotten

(***************************************************************************)
(* What a step may do to the slots.  Working are the places at which a     *)
(* caller uses its slot; one that was only woken does not yet.             *)
(***************************************************************************)
Working == HoldsPermit \ {"granted"}

Stay == UNCHANGED <<permits, queue, pc>>

Leave(t) ==
    /\ pc[t] = "out"
    /\ pc' = [pc EXCEPT ![t] = "refused"]
    /\ UNCHANGED <<permits, queue>>

Enqueue(t) ==
    /\ pc[t] = "out"
    /\ Locked
    /\ queue' = Append(queue, t)
    /\ pc' = [pc EXCEPT ![t] = "waiting"]
    /\ UNCHANGED permits

Dequeue(t) ==
    /\ pc[t] = "waiting"
    /\ \E i \in 1..Len(queue) : queue[i] = t /\ queue' = RemoveAt(queue, i)
    /\ pc' = [pc EXCEPT ![t] = "out"]
    /\ UNCHANGED permits

Take(t, place) ==
    /\ pc[t] = "out"
    /\ ~Locked
    /\ permits' = permits - 1
    /\ pc' = [pc EXCEPT ![t] = place]
    /\ UNCHANGED queue

Wake(t, place) ==
    /\ pc[t] = "granted"
    /\ permits > 0
    /\ queue # <<>>
    /\ permits' = permits - 1
    /\ queue' = Tail(queue)
    /\ pc' = [pc EXCEPT ![Head(queue)] = "granted", ![t] = place]

Work(t, place) ==
    /\ pc[t] \in HoldsPermit
    /\ pc[t] = "granted" => permits = 0 \/ queue = <<>>
    /\ pc' = [pc EXCEPT ![t] = place]
    /\ UNCHANGED <<permits, queue>>

Give(t) == pc[t] \in HoldsPermit /\ ReleasePermit(t, "out")

SlotStep(t) ==
    \/ Stay \/ Leave(t) \/ Enqueue(t) \/ Dequeue(t) \/ Give(t)
    \/ \E place \in Working : Take(t, place) \/ Wake(t, place) \/ Work(t, place)

\* The loop of acquire() leaves the caller at one of three places.
LEMMA PickPlace ==
    ASSUME SlotType, NEW t \in Callers, NEW p \in [Callers -> CallerPc], Pick(t, p)
    PROVE  \E place \in {"opening", "using", "discarding"} :
              pc' = [p EXCEPT ![t] = place]
    BY DEF Pick

LEMMA CallerSlotStep ==
    ASSUME SlotType, NEW t \in Callers, CallerStep(t)
    PROVE  SlotStep(t)
    <1>. USE DEF SlotStep, HoldsPermit, HoldsAtom, Working, poolVars
    <1>1. CASE Refuse(t)
        BY <1>1 DEF Refuse, Leave
    <1>2. CASE Acquire(t)
        <2>1. CASE Locked
            BY <1>2, <2>1 DEF Acquire, Enqueue
        <2>2. CASE ~Locked
            <3>1. Pick(t, pc) /\ pc[t] = "out" /\ permits' = permits - 1 /\ queue' = queue
                BY <1>2, <2>2 DEF Acquire
            <3>2. PICK place \in {"opening", "using", "discarding"} :
                     pc' = [pc EXCEPT ![t] = place]
                BY <3>1, PickPlace DEF SlotType
            <3>. QED  BY <2>2, <3>1, <3>2 DEF Take
        <2>. QED  BY <2>1, <2>2
    <1>3. CASE GiveUp(t)
        BY <1>3 DEF GiveUp, Dequeue
    <1>4. CASE GiveUpGranted(t)
        BY <1>4 DEF GiveUpGranted, Give
    <1>5. CASE Resume(t)
        <2>1. CASE permits > 0 /\ queue # <<>>
            <3>. DEFINE p == [pc EXCEPT ![Head(queue)] = "granted"]
            <3>1. /\ Pick(t, p) /\ pc[t] = "granted"
                  /\ permits' = permits - 1 /\ queue' = Tail(queue)
                BY <1>5, <2>1 DEF Resume, SlotType
            <3>2. p \in [Callers -> CallerPc]
                BY DEF SlotType, CallerPc
            <3>3. PICK place \in {"opening", "using", "discarding"} :
                     pc' = [p EXCEPT ![t] = place]
                BY <3>1, <3>2, PickPlace
            <3>4. Wake(t, place)
                BY <2>1, <3>1, <3>3 DEF Wake
            <3>. QED  BY <3>4
        <2>2. CASE permits = 0 \/ queue = <<>>
            <3>1. Pick(t, pc) /\ pc[t] = "granted" /\ permits' = permits /\ queue' = queue
                BY <1>5, <2>2 DEF Resume
            <3>2. PICK place \in {"opening", "using", "discarding"} :
                     pc' = [pc EXCEPT ![t] = place]
                BY <3>1, PickPlace DEF SlotType
            <3>3. Work(t, place)
                BY <2>2, <3>1, <3>2 DEF Work
            <3>. QED  BY <3>3
        <2>. QED  BY <2>1, <2>2 DEF SlotType
    <1>6. CASE DiscardDone(t)
        <2>1. Pick(t, pc) /\ pc[t] = "discarding" /\ permits' = permits /\ queue' = queue
            BY <1>6 DEF DiscardDone
        <2>2. PICK place \in {"opening", "using", "discarding"} :
                 pc' = [pc EXCEPT ![t] = place]
            BY <2>1, PickPlace DEF SlotType
        <2>3. Work(t, place)
            BY <2>1, <2>2 DEF Work
        <2>. QED  BY <2>3
    <1>7. CASE DiscardCancelled(t) \/ OpenFail(t) \/ AbandonDone(t)
        BY <1>7 DEF DiscardCancelled, OpenFail, AbandonDone, FailAcquire, Give
    <1>8. CASE OpenOk(t)
        <2>1. Work(t, "login")
            BY <1>8 DEF OpenOk, Work
        <2>. QED  BY <2>1
    <1>9. CASE LoginOk(t)
        <2>1. Work(t, "using")
            BY <1>9 DEF LoginOk, Work
        <2>. QED  BY <2>1
    <1>10. CASE LoginFail(t)
        <2>1. Work(t, "abandoning")
            BY <1>10 DEF LoginFail, Work
        <2>. QED  BY <2>1
    <1>11. CASE \E healthy \in BOOLEAN : Release(t, healthy)
        <2>1. CASE ReleasePermit(t, "out")
            BY <1>11, <2>1 DEF Release, Give
        <2>2. CASE ~ReleasePermit(t, "out")
            <3>1. Work(t, "returning")
                BY <1>11, <2>2 DEF Release, Work
            <3>. QED  BY <3>1
        <2>. QED  BY <2>1, <2>2
    <1>12. CASE ReturnDone(t) \/ ReturnCancelled(t)
        BY <1>12 DEF ReturnDone, ReturnCancelled, Give
    <1>. QED
        BY <1>1, <1>2, <1>3, <1>4, <1>5, <1>6, <1>7, <1>8, <1>9, <1>10, <1>11,
           <1>12 DEF CallerStep

LEMMA CloserKeepsSlots ==
    ASSUME NEW k \in Closers, CloserStep(k)
    PROVE  Stay
    BY DEF CloserStep, Close, CloseAgain, DrainDone, WaitResume, WaitTimeout,
           ForceDone, CloseCancelled, poolVars, Stay

\* The set of callers that owe a slot is finite, and grows and shrinks by one.
LEMMA HoldersFinite ==
    IsFiniteSet(Holders) /\ Cardinality(Holders) \in Nat
    <1>1. Holders \in SUBSET Callers
        BY DEF Holders
    <1>. QED  BY <1>1, FS_Subset, FS_CardinalityType, PoolAssumption

LEMMA HoldersAfterStep ==
    ASSUME SlotType, NEW t \in Callers
    PROVE  /\ Holders' = Holders => Cardinality(Holders') = Cardinality(Holders)
           /\ Holders' = Holders \cup {t} /\ t \notin Holders
                => Cardinality(Holders') = Cardinality(Holders) + 1
           /\ Holders' = Holders \ {t} /\ t \in Holders
                => /\ Cardinality(Holders') = Cardinality(Holders) - 1
                   /\ Cardinality(Holders) \in Nat \ {0}
    <1>1. Cardinality(Holders \cup {t}) =
             IF t \in Holders THEN Cardinality(Holders) ELSE Cardinality(Holders) + 1
        BY HoldersFinite, FS_AddElement
    <1>2. Cardinality(Holders \ {t}) =
             IF t \in Holders THEN Cardinality(Holders) - 1 ELSE Cardinality(Holders)
        BY HoldersFinite, FS_RemoveElement
    <1>3. t \in Holders => Cardinality(Holders) # 0
        BY HoldersFinite, FS_EmptySet
    <1>. QED  BY <1>1, <1>2, <1>3, HoldersFinite

\* Handing a slot on replaces one holder by another.
LEMMA HoldersSwap ==
    ASSUME SlotType, NEW t \in Holders, NEW u \in Callers \ Holders,
           Holders' = (Holders \ {t}) \cup {u}
    PROVE  Cardinality(Holders') = Cardinality(Holders)
    <1>1. /\ IsFiniteSet(Holders \ {t})
          /\ Cardinality(Holders \ {t}) = Cardinality(Holders) - 1
        BY HoldersFinite, FS_RemoveElement
    <1>2. u \notin Holders \ {t}
        OBVIOUS
    <1>3. Cardinality((Holders \ {t}) \cup {u}) = Cardinality(Holders \ {t}) + 1
        BY <1>1, <1>2, FS_AddElement
    <1>. QED  BY <1>1, <1>3, HoldersFinite

\* The oldest caller in the queue is parked, and no other entry is his.
LEMMA QueueHead ==
    ASSUME SlotType, QueueOK, queue # <<>>
    PROVE  /\ Head(queue) \in Callers
           /\ pc[Head(queue)] = "waiting"
           /\ Head(queue) \notin Holders
           /\ Tail(queue) \in Seq(Callers)
           /\ IsInjective(Tail(queue))
           /\ ToSet(Tail(queue)) = ToSet(queue) \ {Head(queue)}
    <1>1. /\ Tail(queue) \in Seq(Callers)
          /\ IsInjective(Tail(queue))
          /\ ToSet(Tail(queue)) = ToSet(queue) \ {Head(queue)}
          /\ Head(queue) \in ToSet(queue)
        BY TailInjective DEF SlotType, QueueOK
    <1>2. Head(queue) \in Callers
        BY HeadTailProperties DEF SlotType
    <1>. QED  BY <1>1, <1>2 DEF QueueOK, Holders, HoldsPermit, HoldsAtom

LEMMA GivePreserves ==
    ASSUME SlotInv, NEW t \in Callers, Give(t)
    PROVE  SlotInv'
    <1>. USE DEF SlotInv
    <1>1. t \in Holders /\ pc[t] # "waiting"
        BY DEF Give, Holders, HoldsPermit, HoldsAtom
    <1>2. CASE queue = <<>>
        <2>1. /\ permits' = permits + 1 /\ queue' = queue
              /\ pc' = [pc EXCEPT ![t] = "out"]
            BY <1>2 DEF Give, ReleasePermit
        <2>2. Holders' = Holders \ {t}
            BY <2>1 DEF Holders, SlotType, HoldsPermit, HoldsAtom
        <2>0. /\ Cardinality(Holders') = Cardinality(Holders) - 1
              /\ Cardinality(Holders) \in Nat \ {0}
            BY <1>1, <2>2, HoldersAfterStep
        <2>3. PermitConservation'
            BY <2>0, <2>1, PoolAssumption DEF PermitConservation, SlotType
        <2>4. permits' \in 0..MaxSize
            BY <2>0, <2>1, PoolAssumption DEF PermitConservation, SlotType
        <2>5. SlotType'
            BY <2>1, <2>4 DEF SlotType, CallerPc
        <2>6. QueueOK'
            BY <1>1, <2>1, InjectiveSeq DEF QueueOK, SlotType
        <2>7. NoWaiterForgotten'
            BY <1>2, <2>1 DEF NoWaiterForgotten
        <2>. QED  BY <2>3, <2>5, <2>6, <2>7
    <1>3. CASE queue # <<>>
        <2>. DEFINE u == Head(queue)
        <2>1. /\ permits' = permits /\ queue' = Tail(queue)
              /\ pc' = [pc EXCEPT ![t] = "out", ![u] = "granted"]
            BY <1>3 DEF Give, ReleasePermit
        <2>2. u \in Callers \ Holders /\ u # t
            BY <1>1, <1>3, QueueHead
        <2>3. Holders' = (Holders \ {t}) \cup {u}
            BY <2>1, <2>2 DEF Holders, SlotType, HoldsPermit, HoldsAtom
        <2>4. PermitConservation'
            BY <1>1, <2>1, <2>2, <2>3, HoldersSwap DEF PermitConservation
        <2>5. SlotType'
            BY <1>3, <2>1, <2>2, QueueHead DEF SlotType, CallerPc, HoldsPermit, HoldsAtom
        <2>6. QueueOK'
            BY <1>1, <1>3, <2>1, <2>2, QueueHead, InjectiveSeq DEF QueueOK, SlotType
        <2>7. NoWaiterForgotten'
            BY <2>1, <2>2 DEF NoWaiterForgotten, SlotType
        <2>. QED  BY <2>4, <2>5, <2>6, <2>7
    <1>. QED  BY <1>2, <1>3

LEMMA SlotStepPreserves ==
    ASSUME SlotInv, NEW t \in Callers, SlotStep(t)
    PROVE  SlotInv'
    <1>. USE DEF SlotInv, HoldsPermit, HoldsAtom, Working
    <1>1. CASE Stay
        BY <1>1 DEF Stay, SlotType, QueueOK, PermitConservation, NoWaiterForgotten, Holders
    <1>2. CASE Leave(t)
        <2>1. pc' = [pc EXCEPT ![t] = "refused"] /\ permits' = permits /\ queue' = queue
              /\ pc[t] = "out"
            BY <1>2 DEF Leave
        <2>2. Holders' = Holders
            BY <2>1 DEF Holders, SlotType
        <2>3. SlotType' /\ PermitConservation'
            BY <2>1, <2>2 DEF SlotType, PermitConservation, CallerPc
        <2>4. QueueOK'
            BY <2>1, InjectiveSeq DEF QueueOK, SlotType
        <2>5. NoWaiterForgotten'
            BY <2>1 DEF NoWaiterForgotten, SlotType
        <2>. QED  BY <2>3, <2>4, <2>5
    <1>3. CASE Enqueue(t)
        <2>1. /\ pc' = [pc EXCEPT ![t] = "waiting"] /\ permits' = permits
              /\ queue' = Append(queue, t) /\ pc[t] = "out" /\ Locked
            BY <1>3 DEF Enqueue
        <2>2. Holders' = Holders
            BY <2>1 DEF Holders, SlotType
        <2>3. t \notin ToSet(queue)
            BY <2>1 DEF QueueOK
        <2>4. /\ queue' \in Seq(Callers) /\ IsInjective(queue')
              /\ ToSet(queue') = ToSet(queue) \cup {t}
            BY <2>1, <2>3, AppendInjective1 DEF QueueOK, SlotType
        <2>5. SlotType' /\ PermitConservation'
            BY <2>1, <2>2, <2>4 DEF SlotType, PermitConservation, CallerPc
        <2>6. QueueOK'
            BY <2>1, <2>4, InjectiveSeq DEF QueueOK, SlotType
        <2>7. NoWaiterForgotten'
            BY <2>1 DEF NoWaiterForgotten, SlotType, Locked
        <2>. QED  BY <2>5, <2>6, <2>7
    <1>4. CASE Dequeue(t)
        <2>1. /\ pc' = [pc EXCEPT ![t] = "out"] /\ permits' = permits /\ pc[t] = "waiting"
            BY <1>4 DEF Dequeue
        <2>2. PICK i \in 1..Len(queue) : queue[i] = t /\ queue' = RemoveAt(queue, i)
            BY <1>4 DEF Dequeue
        <2>3. Holders' = Holders
            BY <2>1 DEF Holders, SlotType
        <2>4. /\ queue' \in Seq(Callers) /\ IsInjective(queue')
              /\ ToSet(queue') = ToSet(queue) \ {t}
            BY <2>2, RemoveAtInjective DEF QueueOK, SlotType
        <2>5. SlotType' /\ PermitConservation'
            BY <2>1, <2>3, <2>4 DEF SlotType, PermitConservation, CallerPc
        <2>6. QueueOK'
            BY <2>1, <2>4, InjectiveSeq DEF QueueOK, SlotType
        <2>7. queue # <<>>
            BY <2>2
        <2>8. NoWaiterForgotten'
            BY <2>1, <2>7 DEF NoWaiterForgotten, SlotType
        <2>. QED  BY <2>5, <2>6, <2>8
    <1>5. CASE Give(t)
        BY <1>5, GivePreserves
    <1>6. ASSUME NEW place \in Working, Take(t, place)
          PROVE  SlotInv'
        <2>1. /\ pc' = [pc EXCEPT ![t] = place] /\ permits' = permits - 1
              /\ queue' = queue /\ pc[t] = "out" /\ permits # 0 /\ queue = <<>>
            BY <1>6 DEF Take, Locked
        <2>2. Holders' = Holders \cup {t} /\ t \notin Holders
            BY <2>1 DEF Holders, SlotType
        <2>3. SlotType'
            BY <2>1, PoolAssumption DEF SlotType, CallerPc
        <2>0. Cardinality(Holders') = Cardinality(Holders) + 1
            BY <2>2, HoldersAfterStep
        <2>4. PermitConservation'
            BY <2>0, <2>1, HoldersFinite DEF SlotType, PermitConservation
        <2>5. QueueOK'
            BY <2>1, InjectiveSeq DEF QueueOK, SlotType
        <2>6. NoWaiterForgotten'
            BY <2>1 DEF NoWaiterForgotten
        <2>. QED  BY <2>3, <2>4, <2>5, <2>6
    <1>7. ASSUME NEW place \in Working, Wake(t, place)
          PROVE  SlotInv'
        <2>. DEFINE u == Head(queue)
        <2>1. /\ pc' = [pc EXCEPT ![u] = "granted", ![t] = place]
              /\ permits' = permits - 1 /\ permits > 0
              /\ queue' = Tail(queue) /\ pc[t] = "granted" /\ queue # <<>>
            BY <1>7 DEF Wake
        <2>2. /\ u \in Callers \ Holders /\ u # t
            BY <2>1, QueueHead
        <2>3. Holders' = Holders \cup {u}
            BY <2>1, <2>2 DEF Holders, SlotType
        <2>4. SlotType'
            BY <2>1, <2>2, QueueHead, PoolAssumption DEF SlotType, CallerPc
        <2>0. Cardinality(Holders') = Cardinality(Holders) + 1
            BY <2>2, <2>3, HoldersAfterStep
        <2>5. PermitConservation'
            BY <2>0, <2>1, HoldersFinite DEF SlotType, PermitConservation
        <2>6. QueueOK'
            BY <2>1, <2>2, QueueHead, InjectiveSeq DEF QueueOK, SlotType
        <2>7. NoWaiterForgotten'
            BY <2>1, <2>2 DEF NoWaiterForgotten, SlotType
        <2>. QED  BY <2>4, <2>5, <2>6, <2>7
    <1>8. ASSUME NEW place \in Working, Work(t, place)
          PROVE  SlotInv'
        <2>1. /\ pc' = [pc EXCEPT ![t] = place] /\ permits' = permits
              /\ queue' = queue /\ pc[t] \in HoldsPermit
              /\ pc[t] = "granted" => permits = 0 \/ queue = <<>>
            BY <1>8 DEF Work
        <2>2. Holders' = Holders
            BY <2>1 DEF Holders, SlotType
        <2>3. SlotType' /\ PermitConservation'
            BY <2>1, <2>2 DEF SlotType, PermitConservation, CallerPc
        <2>4. QueueOK'
            BY <2>1, InjectiveSeq DEF QueueOK, SlotType
        <2>5. NoWaiterForgotten'
            BY <2>1 DEF NoWaiterForgotten, SlotType
        <2>. QED  BY <2>3, <2>4, <2>5
    <1>. QED  BY <1>1, <1>2, <1>3, <1>4, <1>5, <1>6, <1>7, <1>8 DEF SlotStep

LEMMA SlotInvInit == Init => SlotInv
    <1>. SUFFICES ASSUME Init PROVE SlotInv
        OBVIOUS
    <1>1. Holders = {}
        BY DEF Init, Holders, HoldsPermit, HoldsAtom
    <1>2. SlotType
        BY EmptySeq, PoolAssumption DEF Init, SlotType, CallerPc, InitialPermits
    <1>3. PermitConservation
        BY <1>1, FS_EmptySet, PoolAssumption DEF Init, PermitConservation, InitialPermits
    <1>4. QueueOK
        BY EmptyInjective DEF Init, QueueOK
    <1>5. NoWaiterForgotten
        BY DEF Init, NoWaiterForgotten
    <1>. QED  BY <1>2, <1>3, <1>4, <1>5 DEF SlotInv

LEMMA SlotInvNext == SlotInv /\ [Next]_vars => SlotInv'
    <1>. SUFFICES ASSUME SlotInv, [Next]_vars
                  PROVE  SlotInv'
        OBVIOUS
    <1>1. CASE \E t \in Callers : CallerStep(t)
        BY <1>1, CallerSlotStep, SlotStepPreserves DEF SlotInv
    <1>2. CASE Stay
        BY <1>2 DEF Stay, SlotInv, SlotType, QueueOK, PermitConservation,
                    NoWaiterForgotten, Holders
    <1>3. CASE \E k \in Closers : CloserStep(k)
        BY <1>2, <1>3, CloserKeepsSlots
    <1>4. CASE \E a \in Atoms : Drop(a) \/ Expire(a)
        BY <1>2, <1>4 DEF Drop, Expire, poolVars, Stay
    <1>5. CASE Terminated \/ UNCHANGED vars
        BY <1>2, <1>5 DEF Terminated, vars, Stay
    <1>. QED  BY <1>1, <1>3, <1>4, <1>5 DEF Next

-----------------------------------------------------------------------------
(* The inductive invariant of the sessions: idle, held, conn and pc.       *)

AtomType ==
    /\ idle \in Seq(Atoms)
    /\ conn \in [Atoms -> ConnState]
    /\ held \in [Callers -> Atoms \cup {NoAtom}]
    /\ spoiled \in SUBSET Atoms

\* An atom the factory did not make yet is nowhere.
UnmadeNowhere ==
    \A a \in Atoms : conn[a] = "none" =>
        /\ a \notin ToSet(idle)
        /\ \A t \in Callers : pc[t] \in HoldsAtom => held[t] # a

\* A spoiled session is only with the caller that is closing it, if anywhere.
SpoiledGone ==
    \A a \in spoiled :
        /\ conn[a] # "none"
        /\ a \notin ToSet(idle)
        /\ \A t \in Callers : pc[t] \in HoldsAtom /\ held[t] = a => pc[t] = "returning"

AtomInv ==
    AtomType /\ ExclusiveLease /\ UnmadeNowhere /\ NoOrphanTransport /\ SpoiledGone

(***************************************************************************)
(* What a step of caller t may do to the sessions.                         *)
(***************************************************************************)
Aside(t) ==
    /\ pc[t] \notin HoldsAtom /\ pc'[t] \notin HoldsAtom
    /\ UNCHANGED <<idle, conn>>

Picked(t) ==
    /\ pc[t] \in {"out", "granted", "discarding"}
    /\ idle # <<>>
    /\ idle' = Front(idle)
    /\ held'[t] = Last(idle)
    /\ \/ pc'[t] = "using" /\ Reusable(Last(idle)) /\ conn' = conn
       \/ pc'[t] = "discarding" /\ conn' = [conn EXCEPT ![Last(idle)] = "closed"]

Dropped(t) ==
    /\ pc[t] \in {"discarding", "abandoning", "returning"}
    /\ pc'[t] \in {"out", "opening"}
    /\ UNCHANGED <<idle, conn>>

Made(t) ==
    /\ pc[t] = "opening" /\ pc'[t] = "login"
    /\ held'[t] \in Atoms
    /\ conn[held'[t]] = "none"
    /\ conn' = [conn EXCEPT ![held'[t]] = "fresh"]
    /\ UNCHANGED idle

Registered(t) ==
    /\ pc[t] = "login" /\ pc'[t] = "using"
    /\ held'[t] = held[t]
    /\ UNCHANGED <<idle, conn>>

ClosedBy(t) ==
    /\ \/ pc[t] = "login" /\ pc'[t] = "abandoning"
       \/ pc[t] = "using" /\ pc'[t] = "returning"
    /\ held'[t] = held[t]
    /\ conn' = [conn EXCEPT ![held[t]] = "closed"]
    /\ UNCHANGED idle

Returned(t) ==
    /\ pc[t] = "using" /\ pc'[t] = "out"
    /\ ~closed
    /\ idle' = Append(idle, held[t])
    /\ UNCHANGED conn

SamePlace(t) ==
    \/ pc'[t] = pc[t]
    \/ pc[t] = "waiting" /\ pc'[t] = "granted"

AtomStep(t) ==
    /\ held' \in [Callers -> Atoms \cup {NoAtom}]
    /\ \A u \in Callers \ {t} : held'[u] = held[u] /\ SamePlace(u)
    /\ \/ spoiled' = spoiled
       \/ ClosedBy(t) /\ pc[t] = "using" /\ spoiled' = spoiled \cup {held[t]}
    /\ \/ Aside(t) \/ Picked(t) \/ Dropped(t) \/ Made(t)
       \/ Registered(t) \/ ClosedBy(t) \/ Returned(t)

LEMMA OthersStay ==
    ASSUME SlotInv, NEW t \in Callers, SlotStep(t)
    PROVE  \A u \in Callers \ {t} : SamePlace(u)
    <1>. USE DEF SlotInv, SamePlace
    <1>1. CASE Stay \/ Leave(t) \/ Enqueue(t) \/ Dequeue(t)
        BY <1>1 DEF Stay, Leave, Enqueue, Dequeue, SlotType
    <1>2. CASE Give(t)
        BY <1>2, QueueHead DEF Give, ReleasePermit, SlotType
    <1>3. ASSUME NEW place \in Working, Take(t, place) \/ Work(t, place)
          PROVE  \A u \in Callers \ {t} : SamePlace(u)
        BY <1>3 DEF Take, Work, SlotType
    <1>4. ASSUME NEW place \in Working, Wake(t, place)
          PROVE  \A u \in Callers \ {t} : SamePlace(u)
        BY <1>4, QueueHead DEF Wake, SlotType
    <1>. QED  BY <1>1, <1>2, <1>3, <1>4 DEF SlotStep

\* A caller that gives its slot back is out.
LEMMA GiverIsOut ==
    ASSUME SlotInv, NEW t \in Callers, pc[t] \in HoldsPermit, ReleasePermit(t, "out")
    PROVE  pc'[t] = "out"
    <1>1. queue # <<>> => pc[Head(queue)] = "waiting"
        BY QueueHead DEF SlotInv
    <1>. QED
        BY <1>1 DEF ReleasePermit, SlotInv, SlotType, HoldsPermit, HoldsAtom

\* Three ways out of the loop of acquire().
LEMMA PickEffect ==
    ASSUME SlotType, AtomType, NEW t \in Callers, NEW p \in [Callers -> CallerPc],
           Pick(t, p)
    PROVE  /\ held' \in [Callers -> Atoms \cup {NoAtom}]
           /\ \A u \in Callers \ {t} : held'[u] = held[u]
           /\ \/ pc'[t] = "opening" /\ idle = <<>> /\ UNCHANGED <<idle, conn>>
              \/ /\ idle # <<>>
                 /\ idle' = Front(idle)
                 /\ held'[t] = Last(idle)
                 /\ \/ pc'[t] = "using" /\ Reusable(Last(idle)) /\ conn' = conn
                    \/ /\ pc'[t] = "discarding"
                       /\ conn' = [conn EXCEPT ![Last(idle)] = "closed"]
    <1>1. idle # <<>> => Last(idle) \in Atoms
        BY FrontFacts DEF AtomType
    <1>. QED  BY <1>1 DEF Pick, AtomType

LEMMA CallerAtomStep ==
    ASSUME SlotInv, AtomType, NEW t \in Callers, CallerStep(t)
    PROVE  AtomStep(t)
    <1>0. SlotStep(t) /\ SlotType /\ \A u \in Callers \ {t} : SamePlace(u)
        BY CallerSlotStep, OthersStay DEF SlotInv
    <1>. USE <1>0 DEF HoldsPermit, HoldsAtom, poolVars, AtomType
    <1>1. CASE Refuse(t)
        BY <1>1 DEF Refuse, AtomStep, Aside, SlotType
    <1>2. CASE Acquire(t)
        <2>1. CASE Pick(t, pc)
            <3>1. pc[t] = "out" /\ spoiled' = spoiled
                BY <1>2 DEF Acquire
            <3>. QED  BY <2>1, <3>1, PickEffect DEF AtomStep, Aside, Picked, SlotType
        <2>2. CASE ~Pick(t, pc)
            BY <1>2, <2>2 DEF Acquire, AtomStep, Aside, SlotType
        <2>. QED  BY <2>1, <2>2
    <1>3. CASE GiveUp(t)
        BY <1>3 DEF GiveUp, AtomStep, Aside, SlotType
    <1>4. CASE GiveUpGranted(t)
        BY <1>4, GiverIsOut DEF GiveUpGranted, AtomStep, Aside
    <1>5. CASE Resume(t)
        <2>1. pc[t] = "granted" /\ spoiled' = spoiled
            BY <1>5 DEF Resume
        <2>2. PICK p \in [Callers -> CallerPc] : Pick(t, p)
            BY <1>5 DEF Resume, SlotType, CallerPc
        <2>. QED  BY <2>1, <2>2, PickEffect DEF AtomStep, Aside, Picked
    <1>6. CASE DiscardDone(t)
        <2>1. pc[t] = "discarding" /\ spoiled' = spoiled /\ Pick(t, pc)
            BY <1>6 DEF DiscardDone
        <2>. QED  BY <2>1, PickEffect DEF AtomStep, Dropped, Picked, SlotType
    <1>7. CASE DiscardCancelled(t) \/ AbandonDone(t)
        BY <1>7, GiverIsOut
           DEF DiscardCancelled, AbandonDone, FailAcquire, AtomStep, Dropped, AtomType
    <1>8. CASE OpenFail(t)
        BY <1>8, GiverIsOut DEF OpenFail, FailAcquire, AtomStep, Aside, AtomType
    <1>9. CASE OpenOk(t)
        BY <1>9 DEF OpenOk, AtomStep, Made, AtomType, SlotType
    <1>10. CASE LoginOk(t)
        BY <1>10 DEF LoginOk, AtomStep, Registered, SlotType
    <1>11. CASE LoginFail(t)
        BY <1>11 DEF LoginFail, AtomStep, ClosedBy, SlotType
    <1>12. ASSUME NEW healthy \in BOOLEAN, Release(t, healthy)
           PROVE  AtomStep(t)
        <2>1. CASE ReturnsToIdle(t, healthy)
            <3>1. /\ pc[t] = "using" /\ ReleasePermit(t, "out")
                  /\ held' = [held EXCEPT ![t] = NoAtom]
                  /\ idle' = Append(idle, held[t]) /\ conn' = conn /\ ~closed
                  /\ spoiled' = spoiled
                BY <1>12, <2>1 DEF Release, ReturnsToIdle
            <3>. QED  BY <3>1, GiverIsOut DEF AtomStep, Returned, AtomType
        <2>2. CASE ~ReturnsToIdle(t, healthy)
            BY <1>12, <2>2 DEF Release, AtomStep, ClosedBy, SlotType
        <2>. QED  BY <2>1, <2>2
    <1>13. CASE ReturnDone(t) \/ ReturnCancelled(t)
        BY <1>13, GiverIsOut DEF ReturnDone, ReturnCancelled, AtomStep, Dropped, AtomType
    <1>. QED
        BY <1>1, <1>2, <1>3, <1>4, <1>5, <1>6, <1>7, <1>8, <1>9, <1>10, <1>11,
           <1>12, <1>13 DEF CallerStep

\* Transports with a close() not called on them yet are the ones that count.
LEMMA CallerPreservesAtomType ==
    ASSUME SlotInv, AtomInv, NEW t \in Callers, AtomStep(t)
    PROVE  AtomType'
    <1>. USE DEF AtomInv
    <1>0. pc[t] \in HoldsAtom => held[t] \in Atoms
        BY DEF ExclusiveLease
    <1>1. held' \in [Callers -> Atoms \cup {NoAtom}] /\ spoiled' \in SUBSET Atoms
        BY <1>0 DEF AtomStep, AtomType, HoldsAtom
    <1>2. idle' \in Seq(Atoms)
        <2>1. CASE Picked(t)
            BY <2>1, FrontFacts DEF Picked, AtomType
        <2>2. CASE Returned(t)
            BY <1>0, <2>2, AppendProperties DEF Returned, AtomType, HoldsAtom
        <2>3. CASE idle' = idle
            BY <2>3 DEF AtomType
        <2>. QED
            BY <2>1, <2>2, <2>3
               DEF AtomStep, Aside, Dropped, Made, Registered, ClosedBy
    <1>3. conn' \in [Atoms -> ConnState]
        BY DEF AtomStep, Aside, Picked, Dropped, Made, Registered, ClosedBy,
               Returned, AtomType, ConnState
    <1>. QED  BY <1>1, <1>2, <1>3 DEF AtomType

LEMMA CallerPreservesLeases ==
    ASSUME SlotInv, AtomInv, NEW t \in Callers, AtomStep(t)
    PROVE  ExclusiveLease' /\ UnmadeNowhere' /\ NoOrphanTransport' /\ SpoiledGone'
    <1>. USE DEF AtomInv, AtomType, SamePlace, HoldsAtom
    <1>. SUFFICES /\ ExclusiveLease' /\ UnmadeNowhere'
                  /\ NoOrphanTransport' /\ SpoiledGone'
        OBVIOUS
    <1>0. /\ \A u \in Callers \ {t} :
                /\ held'[u] = held[u]
                /\ pc[u] \in HoldsAtom => pc'[u] = pc[u]
                /\ pc'[u] \in HoldsAtom => pc'[u] = pc[u]
          /\ spoiled' = spoiled \/ ClosedBy(t)
        BY DEF AtomStep
    <1>1. CASE Aside(t)
        <2>1. /\ idle' = idle /\ conn' = conn /\ spoiled' = spoiled
              /\ pc[t] \notin HoldsAtom /\ pc'[t] \notin HoldsAtom
            BY <1>0, <1>1 DEF Aside, ClosedBy
        <2>2. ExclusiveLease'
            BY <1>0, <2>1 DEF ExclusiveLease
        <2>3. UnmadeNowhere'
            BY <1>0, <2>1 DEF UnmadeNowhere
        <2>4. NoOrphanTransport'
            BY <1>0, <2>1 DEF NoOrphanTransport, OpenAtoms, IsOpen
        <2>5. SpoiledGone'
            BY <1>0, <2>1 DEF SpoiledGone
        <2>. QED  BY <2>2, <2>3, <2>4, <2>5
    <1>2. CASE Picked(t)
        <2>. DEFINE a == Last(idle)
        <2>1. /\ a \in ToSet(idle) /\ a \in Atoms
              /\ IsInjective(idle')
              /\ ToSet(idle') = ToSet(idle) \ {a}
              /\ held'[t] = a /\ pc'[t] \in {"using", "discarding"}
              /\ pc[t] \in {"out", "granted", "discarding"}
              /\ spoiled' = spoiled
            BY <1>0, <1>2, FrontInjective, FrontFacts
               DEF Picked, ClosedBy, ExclusiveLease
        <2>2. \/ conn' = conn /\ pc'[t] = "using" /\ conn[a] = "fresh"
              \/ conn' = [conn EXCEPT ![a] = "closed"] /\ pc'[t] = "discarding"
            BY <1>2, <2>1 DEF Picked, Reusable, IsAlive
        <2>. HIDE DEF a
        <2>3. ExclusiveLease'
            <3>1. \A u \in Callers \ {t} : pc'[u] \in HoldsAtom =>
                     /\ held'[u] \in Atoms
                     /\ held'[u] \notin ToSet(idle)
                     /\ held'[u] # a
                BY <1>0, <2>1 DEF ExclusiveLease
            <3>2. \A u, v \in Callers \ {t} :
                     /\ u # v
                     /\ pc'[u] \in HoldsAtom
                     /\ pc'[v] \in HoldsAtom
                     => held'[u] # held'[v]
                BY <1>0 DEF ExclusiveLease
            <3>3. a \notin ToSet(idle')
                BY <2>1
            <3>4. ASSUME NEW u \in Callers, pc'[u] \in HoldsAtom
                  PROVE  held'[u] \in Atoms /\ held'[u] \notin ToSet(idle')
                BY <2>1, <3>1, <3>3, <3>4
            <3>5. ASSUME NEW u \in Callers, NEW v \in Callers, u # v,
                         pc'[u] \in HoldsAtom, pc'[v] \in HoldsAtom
                  PROVE  held'[u] # held'[v]
                BY <2>1, <3>1, <3>2, <3>5
            <3>. QED  BY <2>1, <3>4, <3>5 DEF ExclusiveLease
        <2>4. conn[a] # "none"
            BY <2>1 DEF UnmadeNowhere
        <2>5. UnmadeNowhere'
            <3>1. ASSUME NEW b \in Atoms, conn'[b] = "none"
                  PROVE  /\ b \notin ToSet(idle')
                         /\ \A u \in Callers : pc'[u] \in HoldsAtom => held'[u] # b
                <4>1. conn[b] = "none" /\ b # a
                    BY <2>2, <2>4, <3>1
                <4>2. b \notin ToSet(idle)
                    BY <4>1 DEF UnmadeNowhere
                <4>3. \A u \in Callers : pc[u] \in HoldsAtom => held[u] # b
                    BY <4>1 DEF UnmadeNowhere
                <4>. QED  BY <1>0, <2>1, <4>1, <4>2, <4>3
            <3>. QED  BY <3>1 DEF UnmadeNowhere
        <2>6. NoOrphanTransport'
            BY <1>0, <2>1, <2>2 DEF NoOrphanTransport, OpenAtoms, IsOpen, ExclusiveLease
        <2>7. SpoiledGone'
            BY <1>0, <2>1, <2>2 DEF SpoiledGone
        <2>. QED  BY <2>3, <2>5, <2>6, <2>7
    <1>3. CASE Dropped(t)
        <2>1. /\ idle' = idle /\ conn' = conn /\ spoiled' = spoiled
              /\ pc[t] \in {"discarding", "abandoning", "returning"}
              /\ pc'[t] \notin HoldsAtom
            BY <1>0, <1>3 DEF Dropped, ClosedBy
        <2>2. ExclusiveLease'
            BY <1>0, <2>1 DEF ExclusiveLease
        <2>3. UnmadeNowhere'
            BY <1>0, <2>1 DEF UnmadeNowhere
        <2>4. NoOrphanTransport'
            BY <1>0, <2>1 DEF NoOrphanTransport, OpenAtoms, IsOpen
        <2>5. SpoiledGone'
            BY <1>0, <2>1 DEF SpoiledGone
        <2>. QED  BY <2>2, <2>3, <2>4, <2>5
    <1>4. CASE Made(t)
        <2>1. PICK a \in Atoms :
                 /\ conn[a] = "none" /\ conn' = [conn EXCEPT ![a] = "fresh"]
                 /\ held'[t] = a /\ idle' = idle /\ spoiled' = spoiled
                 /\ pc[t] = "opening" /\ pc'[t] = "login"
            BY <1>0, <1>4 DEF Made, ClosedBy
        <2>2. ExclusiveLease'
            BY <1>0, <2>1 DEF ExclusiveLease, UnmadeNowhere
        <2>3. UnmadeNowhere'
            BY <1>0, <2>1 DEF UnmadeNowhere
        <2>4. NoOrphanTransport'
            BY <1>0, <2>1 DEF NoOrphanTransport, OpenAtoms, IsOpen
        <2>5. SpoiledGone'
            BY <1>0, <2>1 DEF SpoiledGone
        <2>. QED  BY <2>2, <2>3, <2>4, <2>5
    <1>5. CASE Registered(t)
        <2>1. /\ idle' = idle /\ conn' = conn /\ spoiled' = spoiled
              /\ held'[t] = held[t] /\ pc[t] = "login" /\ pc'[t] = "using"
            BY <1>0, <1>5 DEF Registered, ClosedBy
        <2>2. ExclusiveLease'
            BY <1>0, <2>1 DEF ExclusiveLease
        <2>3. UnmadeNowhere'
            BY <1>0, <2>1 DEF UnmadeNowhere
        <2>4. NoOrphanTransport'
            BY <1>0, <2>1 DEF NoOrphanTransport, OpenAtoms, IsOpen
        <2>5. SpoiledGone'
            BY <1>0, <2>1 DEF SpoiledGone
        <2>. QED  BY <2>2, <2>3, <2>4, <2>5
    <1>6. CASE ClosedBy(t)
        <2>1. /\ idle' = idle /\ held'[t] = held[t]
              /\ conn' = [conn EXCEPT ![held[t]] = "closed"]
              /\ \/ pc[t] = "login" /\ pc'[t] = "abandoning"
                 \/ pc[t] = "using" /\ pc'[t] = "returning"
            BY <1>6 DEF ClosedBy
        <2>2. \/ spoiled' = spoiled
              \/ pc[t] = "using" /\ spoiled' = spoiled \cup {held[t]}
            BY DEF AtomStep
        <2>3. held[t] \in Atoms /\ held[t] \notin ToSet(idle)
            BY <2>1 DEF ExclusiveLease
        <2>4. ExclusiveLease'
            BY <1>0, <2>1 DEF ExclusiveLease
        <2>5. UnmadeNowhere'
            BY <1>0, <2>1, <2>3 DEF UnmadeNowhere
        <2>6. NoOrphanTransport'
            BY <1>0, <2>1, <2>3 DEF NoOrphanTransport, OpenAtoms, IsOpen
        <2>7. \A u \in Callers \ {t} : pc[u] \in HoldsAtom => held[u] # held[t]
            BY <2>1 DEF ExclusiveLease
        <2>8. SpoiledGone'
            BY <1>0, <2>1, <2>2, <2>3, <2>7 DEF SpoiledGone
        <2>. QED  BY <2>4, <2>5, <2>6, <2>8
    <1>7. CASE Returned(t)
        <2>. DEFINE a == held[t]
        <2>1. /\ pc[t] = "using" /\ pc'[t] = "out" /\ idle' = Append(idle, a)
              /\ conn' = conn /\ spoiled' = spoiled
            BY <1>0, <1>7 DEF Returned, ClosedBy
        <2>2. a \in Atoms /\ a \notin ToSet(idle)
            BY <2>1 DEF ExclusiveLease
        <2>3. IsInjective(idle') /\ ToSet(idle') = ToSet(idle) \cup {a}
            BY <2>1, <2>2, AppendInjective1 DEF ExclusiveLease
        <2>4. \A u \in Callers \ {t} : pc[u] \in HoldsAtom => held[u] # a
            BY <2>1 DEF ExclusiveLease
        <2>. HIDE DEF a
        <2>5. ExclusiveLease'
            BY <1>0, <2>1, <2>3, <2>4 DEF ExclusiveLease
        <2>6. UnmadeNowhere'
            BY <1>0, <2>1, <2>3, <2>4 DEF UnmadeNowhere, a
        <2>7. NoOrphanTransport'
            BY <1>0, <2>1, <2>3 DEF NoOrphanTransport, OpenAtoms, IsOpen, a
        <2>8. SpoiledGone'
            BY <1>0, <2>1, <2>3, <2>4 DEF SpoiledGone, a
        <2>. QED  BY <2>5, <2>6, <2>7, <2>8
    <1>. QED
        BY <1>1, <1>2, <1>3, <1>4, <1>5, <1>6, <1>7 DEF AtomStep

(***************************************************************************)
(* What close() and the environment may do to the sessions.                *)
(***************************************************************************)
Shut(a) == conn' = [conn EXCEPT ![a] = "closed"]

OtherStep ==
    /\ UNCHANGED <<pc, held, spoiled>>
    /\ \/ UNCHANGED <<idle, conn>>
       \/ idle # <<>> /\ idle' = Front(idle) /\ Shut(Last(idle))
       \/ UNCHANGED idle /\ \E a \in Atoms : Shut(a)
       \/ /\ UNCHANGED idle
          /\ \E a \in Atoms, state \in {"stale", "dropped"} :
                IsAlive(a) /\ conn' = [conn EXCEPT ![a] = state]

CloseType ==
    /\ closed \in BOOLEAN
    /\ all \in SUBSET Atoms
    /\ closePc \in [Closers -> ClosePc]
    /\ closing \in Atoms \cup {NoAtom}
    /\ todo \in SUBSET Atoms

LEMMA DrainEffect ==
    ASSUME AtomType, NEW k \in Closers, NEW rest, Drain(k, rest),
           UNCHANGED <<pc, held, spoiled>>
    PROVE  OtherStep
    BY DEF Drain, Finish, OtherStep, Shut

LEMMA ForceEffect ==
    ASSUME NEW k \in Closers, NEW registered, NEW rest \in SUBSET Atoms,
           ForceClose(k, registered, rest), UNCHANGED <<pc, held, spoiled, idle>>
    PROVE  OtherStep
    BY DEF ForceClose, Finish, OtherStep, Shut

LEMMA CloserOtherStep ==
    ASSUME AtomType, CloseType, NEW k \in Closers, CloserStep(k)
    PROVE  OtherStep
    <1>1. CASE Close(k) \/ DrainDone(k)
        BY <1>1, DrainEffect DEF Close, DrainDone
    <1>2. CASE CloseAgain(k) \/ CloseCancelled(k)
        BY <1>2 DEF CloseAgain, CloseCancelled, poolVars, OtherStep
    <1>3. CASE WaitResume(k)
        BY <1>3 DEF WaitResume, OtherStep
    <1>4. CASE WaitTimeout(k) \/ ForceDone(k)
        <2>1. all \in SUBSET Atoms /\ todo \in SUBSET Atoms
            BY DEF CloseType
        <2>. QED  BY <1>4, <2>1, ForceEffect DEF WaitTimeout, ForceDone
    <1>. QED  BY <1>1, <1>2, <1>3, <1>4 DEF CloserStep

LEMMA OtherPreserves ==
    ASSUME AtomInv, OtherStep
    PROVE  AtomInv'
    <1>. USE DEF AtomInv, AtomType
    <1>0. UNCHANGED <<pc, held, spoiled>>
        BY DEF OtherStep
    <1>1. CASE UNCHANGED <<idle, conn>>
        BY <1>0, <1>1
           DEF ExclusiveLease, UnmadeNowhere, NoOrphanTransport, OpenAtoms, IsOpen,
               SpoiledGone
    <1>2. CASE idle # <<>> /\ idle' = Front(idle) /\ Shut(Last(idle))
        <2>. DEFINE b == Last(idle)
        <2>1. /\ b \in Atoms /\ b \in ToSet(idle)
              /\ idle' \in Seq(Atoms) /\ IsInjective(idle')
              /\ ToSet(idle') = ToSet(idle) \ {b}
            BY <1>2, FrontInjective, FrontFacts DEF ExclusiveLease
        <2>2. conn' = [conn EXCEPT ![b] = "closed"]
            BY <1>2 DEF Shut
        <2>. HIDE DEF b
        <2>3. AtomType'
            BY <1>0, <2>1, <2>2 DEF ConnState
        <2>4. ExclusiveLease'
            BY <1>0, <2>1 DEF ExclusiveLease
        <2>5. UnmadeNowhere'
            BY <1>0, <2>1, <2>2 DEF UnmadeNowhere
        <2>6. NoOrphanTransport'
            BY <1>0, <2>1, <2>2 DEF NoOrphanTransport, OpenAtoms, IsOpen
        <2>7. SpoiledGone'
            BY <1>0, <2>1, <2>2 DEF SpoiledGone
        <2>. QED  BY <2>3, <2>4, <2>5, <2>6, <2>7
    <1>3. ASSUME UNCHANGED idle, NEW a \in Atoms, NEW state \in ConnState \ {"none"},
                 state = "closed" \/ IsAlive(a),
                 conn' = [conn EXCEPT ![a] = state]
          PROVE  AtomInv'
        <2>1. AtomType'
            BY <1>0, <1>3 DEF ConnState
        <2>2. ExclusiveLease'
            BY <1>0, <1>3 DEF ExclusiveLease
        <2>3. UnmadeNowhere'
            BY <1>0, <1>3 DEF UnmadeNowhere
        <2>4. NoOrphanTransport'
            BY <1>0, <1>3 DEF NoOrphanTransport, OpenAtoms, IsOpen, IsAlive
        <2>5. SpoiledGone'
            BY <1>0, <1>3 DEF SpoiledGone
        <2>. QED  BY <2>1, <2>2, <2>3, <2>4, <2>5
    <1>. QED  BY <1>1, <1>2, <1>3 DEF OtherStep, Shut, ConnState

LEMMA AtomInvNext ==
    ASSUME SlotInv, AtomInv, CloseType, [Next]_vars
    PROVE  AtomInv'
    <1>1. CASE \E t \in Callers : CallerStep(t)
        BY <1>1, CallerAtomStep, CallerPreservesAtomType, CallerPreservesLeases DEF AtomInv
    <1>2. CASE \E k \in Closers : CloserStep(k)
        BY <1>2, CloserOtherStep, OtherPreserves DEF AtomInv
    <1>3. CASE \E a \in Atoms : Drop(a) \/ Expire(a)
        <2>1. OtherStep
            BY <1>3 DEF Drop, Expire, OtherStep, poolVars, IsAlive
        <2>. QED  BY <2>1, OtherPreserves
    <1>4. CASE Terminated \/ UNCHANGED vars
        <2>1. OtherStep
            BY <1>4 DEF Terminated, vars, OtherStep
        <2>. QED  BY <2>1, OtherPreserves
    <1>. QED  BY <1>1, <1>2, <1>3, <1>4 DEF Next

LEMMA AtomInvInit == Init => AtomInv
    <1>. SUFFICES ASSUME Init PROVE AtomInv
        OBVIOUS
    <1>1. AtomType
        BY EmptySeq DEF Init, AtomType, ConnState
    <1>2. ExclusiveLease /\ UnmadeNowhere /\ NoOrphanTransport /\ SpoiledGone
        BY EmptyInjective
           DEF Init, ExclusiveLease, UnmadeNowhere, NoOrphanTransport, OpenAtoms, IsOpen,
               SpoiledGone, HoldsAtom
    <1>. QED  BY <1>1, <1>2 DEF AtomInv

-----------------------------------------------------------------------------
(* close(): its type, and that the idle queue stays empty behind it.       *)

\* Past these places a close() has found the idle queue empty.
Drained == {"waiting", "notified", "forcing", "closed"}

CloseOrder ==
    \A k \in Closers : /\ closePc[k] # "ready" => closed
                       /\ closePc[k] \in Drained => idle = <<>>

LEMMA CallerKeepsClose ==
    ASSUME AtomInv, CloseType, NEW t \in Callers, CallerStep(t)
    PROVE  /\ CloseType' /\ closed' = closed
           /\ closePc' = closePc \/ NotifyAll
    <1>1. pc[t] \in HoldsAtom => held[t] \in Atoms
        BY DEF AtomInv, ExclusiveLease
    <1>. USE <1>1 DEF CloseType, poolVars, closeVars
    <1>2. CASE ReturnDone(t)
        BY <1>2 DEF ReturnDone, NotifyAll, ClosePc, CloseActive
    <1>3. CASE LoginOk(t)
        BY <1>3 DEF LoginOk, HoldsAtom
    <1>4. CASE DiscardDone(t)
        BY <1>4 DEF DiscardDone
    <1>5. CASE Refuse(t) \/ Acquire(t) \/ GiveUp(t) \/ GiveUpGranted(t) \/ Resume(t)
        BY <1>5 DEF Refuse, Acquire, GiveUp, GiveUpGranted, Resume
    <1>6. CASE \/ DiscardCancelled(t) \/ OpenOk(t) \/ OpenFail(t) \/ LoginFail(t)
               \/ AbandonDone(t) \/ ReturnCancelled(t)
               \/ \E healthy \in BOOLEAN : Release(t, healthy)
        BY <1>6 DEF DiscardCancelled, OpenOk, OpenFail, LoginFail, AbandonDone,
                    ReturnCancelled, Release
    <1>. QED  BY <1>2, <1>3, <1>4, <1>5, <1>6 DEF CallerStep

LEMMA CallerKeepsOrder ==
    ASSUME SlotInv, AtomInv, CloseType, CloseOrder, NEW t \in Callers, CallerStep(t)
    PROVE  CloseOrder'
    <1>1. closed /\ idle = <<>> => idle' = <<>>
        BY CallerAtomStep
           DEF AtomInv, AtomStep, Aside, Picked, Dropped, Made, Registered, ClosedBy, Returned
    <1>2. closed' = closed /\ (closePc' = closePc \/ NotifyAll)
        BY CallerKeepsClose
    <1>3. \A k \in Closers : \/ closePc'[k] = closePc[k]
                             \/ closePc[k] = "waiting" /\ closePc'[k] = "notified"
        BY <1>2 DEF NotifyAll
    <1>. QED  BY <1>1, <1>2, <1>3 DEF CloseOrder, Drained

LEMMA CloserPreservesClose ==
    ASSUME AtomType, CloseType, CloseOrder, NEW k \in Closers, CloserStep(k)
    PROVE  CloseType' /\ CloseOrder'
    <1>. USE DEF CloseType, CloseOrder, Drained, ClosePc, CloseActive, Finish
    <1>1. CASE Close(k)
        <2>1. ~closed /\ closed' /\ Drain(k, all)
            BY <1>1 DEF Close
        <2>2. idle # <<>> => Last(idle) \in Atoms
            BY FrontFacts DEF AtomType
        <2>. QED  BY <2>1, <2>2 DEF Drain
    <1>2. CASE DrainDone(k)
        <2>1. closed' = closed /\ closed /\ Drain(k, all \ {closing})
            BY <1>2 DEF DrainDone
        <2>2. idle # <<>> => Last(idle) \in Atoms
            BY FrontFacts DEF AtomType
        <2>. QED  BY <2>1, <2>2 DEF Drain
    <1>3. CASE CloseAgain(k) \/ CloseCancelled(k)
        BY <1>3 DEF CloseAgain, CloseCancelled, poolVars
    <1>4. CASE WaitResume(k)
        BY <1>4 DEF WaitResume
    <1>5. CASE WaitTimeout(k)
        BY <1>5 DEF WaitTimeout, ForceClose
    <1>6. CASE ForceDone(k)
        BY <1>6 DEF ForceDone, ForceClose
    <1>. QED  BY <1>1, <1>2, <1>3, <1>4, <1>5, <1>6 DEF CloserStep

CloseInv == CloseType /\ CloseOrder

LEMMA CloseInvNext ==
    ASSUME SlotInv, AtomInv, CloseInv, [Next]_vars
    PROVE  CloseInv'
    <1>. USE DEF CloseInv
    <1>1. CASE \E t \in Callers : CallerStep(t)
        BY <1>1, CallerKeepsClose, CallerKeepsOrder
    <1>2. CASE \E k \in Closers : CloserStep(k)
        BY <1>2, CloserPreservesClose DEF AtomInv
    <1>3. CASE \E a \in Atoms : Drop(a) \/ Expire(a)
        BY <1>3 DEF Drop, Expire, poolVars, closeVars, CloseType, CloseOrder
    <1>4. CASE Terminated \/ UNCHANGED vars
        BY <1>4 DEF Terminated, vars, CloseType, CloseOrder
    <1>. QED  BY <1>1, <1>2, <1>3, <1>4 DEF Next

LEMMA CloseInvInit == Init => CloseInv
    <1>. SUFFICES ASSUME Init PROVE CloseInv
        OBVIOUS
    <1>1. CloseType
        BY DEF Init, CloseType, ClosePc, CloseActive
    <1>2. CloseOrder
        BY DEF Init, CloseOrder, Drained
    <1>. QED  BY <1>1, <1>2 DEF CloseInv

-----------------------------------------------------------------------------
(* Capacity: idle sessions and callers at work share the slots.            *)

\* The callers that use a slot.  One that was only woken does not yet: the
\* session released for it lies in the idle queue.
Busy == {t \in Callers : pc[t] \in Working}

SlotBound == Len(idle) + Cardinality(Busy) <= MaxSize

LEMMA BusyFinite ==
    /\ IsFiniteSet(Busy) /\ Cardinality(Busy) \in Nat
    /\ Cardinality(Busy) <= Cardinality(Holders)
    <1>1. Busy \in SUBSET Holders
        BY DEF Holders, Busy, Working
    <1>. QED  BY <1>1, HoldersFinite, FS_Subset, FS_CardinalityType

LEMMA BusyAfterStep ==
    ASSUME NEW t \in Callers
    PROVE  /\ Busy' = Busy => Cardinality(Busy') = Cardinality(Busy)
           /\ Busy' = Busy \cup {t} => Cardinality(Busy') <= Cardinality(Busy) + 1
           /\ Busy' = Busy \ {t} => Cardinality(Busy') <= Cardinality(Busy)
           /\ Busy' = Busy \ {t} /\ t \in Busy
                => Cardinality(Busy') = Cardinality(Busy) - 1
    <1>1. Cardinality(Busy \cup {t}) =
             IF t \in Busy THEN Cardinality(Busy) ELSE Cardinality(Busy) + 1
        BY BusyFinite, FS_AddElement
    <1>2. Cardinality(Busy \ {t}) =
             IF t \in Busy THEN Cardinality(Busy) - 1 ELSE Cardinality(Busy)
        BY BusyFinite, FS_RemoveElement
    <1>3. t \in Busy => Cardinality(Busy) # 0
        BY BusyFinite, FS_EmptySet
    <1>. QED  BY <1>1, <1>2, <1>3, BusyFinite

\* The factory is called only when no session is idle.
LEMMA FactoryOnlyWhenIdleEmpty ==
    ASSUME SlotInv, NEW t \in Callers, CallerStep(t), pc'[t] = "opening"
    PROVE  pc[t] = "opening" \/ idle = <<>>
    <1>. USE DEF SlotInv
    <1>1. CASE Acquire(t)
        BY <1>1 DEF Acquire, Pick, SlotType
    <1>2. CASE Resume(t)
        <2>1. PICK p \in [Callers -> CallerPc] : Pick(t, p)
            BY <1>2 DEF Resume, SlotType, CallerPc, HoldsPermit
        <2>. QED  BY <2>1 DEF Pick
    <1>3. CASE DiscardDone(t)
        BY <1>3 DEF DiscardDone, Pick, SlotType
    <1>4. CASE GiveUpGranted(t) \/ DiscardCancelled(t) \/ OpenFail(t) \/ AbandonDone(t)
               \/ ReturnDone(t) \/ ReturnCancelled(t)
        BY <1>4, GiverIsOut
           DEF GiveUpGranted, DiscardCancelled, OpenFail, AbandonDone, FailAcquire,
               ReturnDone, ReturnCancelled, HoldsPermit, HoldsAtom
    <1>5. CASE \E healthy \in BOOLEAN : Release(t, healthy)
        BY <1>5, GiverIsOut DEF Release, HoldsPermit, HoldsAtom, SlotType
    <1>6. CASE Refuse(t) \/ GiveUp(t) \/ OpenOk(t) \/ LoginOk(t) \/ LoginFail(t)
        BY <1>6 DEF Refuse, GiveUp, OpenOk, LoginOk, LoginFail, SlotType
    <1>. QED  BY <1>1, <1>2, <1>3, <1>4, <1>5, <1>6 DEF CallerStep

LEMMA CallerKeepsSlotBound ==
    ASSUME SlotInv, AtomInv, SlotBound, NEW t \in Callers, CallerStep(t)
    PROVE  SlotBound'
    <1>0. /\ AtomStep(t) /\ SlotStep(t) /\ SlotInv' /\ AtomType'
          /\ \A u \in Callers \ {t} : SamePlace(u)
        BY CallerAtomStep, CallerSlotStep, SlotStepPreserves, CallerPreservesAtomType,
           OthersStay DEF SlotInv, AtomInv
    <1>1. /\ Len(idle) \in Nat /\ Len(idle') \in Nat
          /\ Cardinality(Busy) \in Nat /\ Cardinality(Busy') \in Nat
        <2>1. Cardinality(Busy') \in Nat
            <3>1. Busy' \in SUBSET Callers
                BY DEF Busy
            <3>. QED  BY <3>1, FS_Subset, FS_CardinalityType, PoolAssumption
        <2>2. Len(idle') \in Nat /\ Len(idle) \in Nat
            BY <1>0, LenProperties DEF AtomInv, AtomType
        <2>. QED  BY <2>1, <2>2, BusyFinite
    <1>2. \A u \in Callers \ {t} : u \in Busy' <=> u \in Busy
        BY <1>0 DEF SamePlace, Busy, Working, HoldsPermit, HoldsAtom
    <1>3. CASE idle = <<>> /\ idle' = <<>>
        <2>1. Cardinality(Busy') <= Cardinality(Holders')
            <3>1. Busy' \in SUBSET Holders' /\ Holders' \in SUBSET Callers
                BY DEF Holders, Busy, Working
            <3>. QED  BY <3>1, FS_Subset, PoolAssumption
        <2>2. Cardinality(Holders') <= MaxSize
            <3>1. permits' \in Nat /\ permits' + Cardinality(Holders') = MaxSize
                BY <1>0 DEF SlotInv, SlotType, PermitConservation
            <3>2. Cardinality(Holders') \in Nat
                <4>1. Holders' \in SUBSET Callers
                    BY DEF Holders
                <4>. QED  BY <4>1, FS_Subset, FS_CardinalityType, PoolAssumption
            <3>. QED  BY <3>1, <3>2, PoolAssumption
        <2>3. Cardinality(Holders') \in Nat
            <3>1. Holders' \in SUBSET Callers
                BY DEF Holders
            <3>. QED  BY <3>1, FS_Subset, FS_CardinalityType, PoolAssumption
        <2>4. Len(idle') = 0
            BY <1>3
        <2>. QED  BY <1>1, <2>1, <2>2, <2>3, <2>4, PoolAssumption DEF SlotBound
    <1>4. CASE idle' = idle /\ idle # <<>>
        <2>1. pc'[t] = "opening" => pc[t] = "opening"
            BY <1>4, FactoryOnlyWhenIdleEmpty
        <2>2. t \in Busy' => t \in Busy
            BY <1>0, <1>4, <2>1, FrontFacts, <1>1
               DEF AtomStep, Aside, Picked, Dropped, Made, Registered, ClosedBy, Returned,
                   Busy, Working, HoldsPermit, HoldsAtom, AtomInv, AtomType
        <2>3. Busy' = Busy \/ Busy' = Busy \ {t}
            BY <1>2, <2>2 DEF Busy
        <2>4. Cardinality(Busy') <= Cardinality(Busy)
            BY <2>3, <1>1, BusyAfterStep
        <2>. QED  BY <1>1, <1>4, <2>4, PoolAssumption DEF SlotBound
    <1>5. CASE Picked(t)
        <2>1. Len(idle') = Len(idle) - 1
            BY <1>5, FrontFacts DEF Picked, AtomInv, AtomType
        <2>2. Busy' = Busy \cup {t}
            BY <1>2, <1>5 DEF Picked, Busy, Working, HoldsPermit, HoldsAtom
        <2>3. Cardinality(Busy') <= Cardinality(Busy) + 1
            BY <2>2, BusyAfterStep
        <2>. QED  BY <1>1, <2>1, <2>3, PoolAssumption DEF SlotBound
    <1>6. CASE Returned(t)
        <2>1. Len(idle') = Len(idle) + 1
            <3>1. held[t] \in Atoms
                BY <1>6 DEF Returned, AtomInv, ExclusiveLease, HoldsAtom
            <3>. QED  BY <1>6, <3>1, AppendProperties DEF Returned, AtomInv, AtomType
        <2>2. Busy' = Busy \ {t} /\ t \in Busy
            BY <1>2, <1>6 DEF Returned, Busy, Working, HoldsPermit, HoldsAtom
        <2>3. Cardinality(Busy') = Cardinality(Busy) - 1
            BY <2>2, BusyAfterStep
        <2>. QED  BY <1>1, <2>1, <2>3, PoolAssumption DEF SlotBound
    <1>7. Picked(t) \/ Returned(t) \/ idle' = idle
        BY <1>0 DEF AtomStep, Aside, Dropped, Made, Registered, ClosedBy
    <1>. QED  BY <1>3, <1>4, <1>5, <1>6, <1>7

LEMMA OtherKeepsSlotBound ==
    ASSUME AtomInv, SlotBound, OtherStep
    PROVE  SlotBound'
    <1>1. Busy' = Busy
        BY DEF OtherStep, Busy
    <1>2. Cardinality(Busy') = Cardinality(Busy) /\ Cardinality(Busy) \in Nat
        BY <1>1, BusyFinite
    <1>3. Len(idle) \in Nat /\ Len(idle') \in Nat /\ Len(idle') <= Len(idle)
        BY FrontFacts, LenProperties DEF OtherStep, AtomInv, AtomType
    <1>. QED  BY <1>2, <1>3, PoolAssumption DEF SlotBound

LEMMA SlotBoundNext ==
    ASSUME SlotInv, AtomInv, CloseType, SlotBound, [Next]_vars
    PROVE  SlotBound'
    <1>1. CASE \E t \in Callers : CallerStep(t)
        BY <1>1, CallerKeepsSlotBound
    <1>2. CASE \E k \in Closers : CloserStep(k)
        BY <1>2, CloserOtherStep, OtherKeepsSlotBound DEF AtomInv
    <1>3. CASE \E a \in Atoms : Drop(a) \/ Expire(a)
        <2>1. OtherStep
            BY <1>3 DEF Drop, Expire, OtherStep, poolVars, IsAlive
        <2>. QED  BY <2>1, OtherKeepsSlotBound
    <1>4. CASE Terminated \/ UNCHANGED vars
        <2>1. OtherStep
            BY <1>4 DEF Terminated, vars, OtherStep
        <2>. QED  BY <2>1, OtherKeepsSlotBound
    <1>. QED  BY <1>1, <1>2, <1>3, <1>4 DEF Next

LEMMA SlotBoundInit == Init => SlotBound
    <1>. SUFFICES ASSUME Init PROVE SlotBound
        OBVIOUS
    <1>1. Busy = {} /\ Len(idle) = 0
        BY DEF Init, Busy, Working, HoldsPermit, HoldsAtom
    <1>. QED  BY <1>1, FS_EmptySet, PoolAssumption DEF SlotBound

\* Every open transport is idle or with a caller at work, so there are no
\* more of them than slots.
LEMMA BoundFromSlots ==
    ASSUME AtomInv, SlotBound
    PROVE  SessionsBounded
    <1>. DEFINE lent == {held[t] : t \in Busy}
    <1>1. IsFiniteSet(lent) /\ Cardinality(lent) <= Cardinality(Busy)
        <2>. DEFINE f == [t \in Busy |-> held[t]]
        <2>1. f \in Surjection(Busy, lent)
            BY DEF Surjection
        <2>. QED  BY <2>1, BusyFinite, FS_Surjection
    <1>2. /\ IsFiniteSet(ToSet(idle))
          /\ Cardinality(ToSet(idle)) = Len(idle)
        BY InjectiveSeqCardinality DEF AtomInv, AtomType, ExclusiveLease
    <1>3. OpenAtoms \in SUBSET (ToSet(idle) \cup lent)
        BY DEF AtomInv, NoOrphanTransport, Busy, Working, HoldsPermit, HoldsAtom
    <1>. HIDE DEF lent
    <1>4. /\ IsFiniteSet(ToSet(idle) \cup lent)
          /\ Cardinality(ToSet(idle) \cup lent)
               <= Cardinality(ToSet(idle)) + Cardinality(lent)
        <2>1. Cardinality(ToSet(idle) \cap lent) \in Nat
            BY <1>1, <1>2, FS_Intersection, FS_CardinalityType
        <2>2. /\ IsFiniteSet(ToSet(idle) \cup lent)
              /\ Cardinality(ToSet(idle) \cup lent) =
                   Cardinality(ToSet(idle)) + Cardinality(lent)
                     - Cardinality(ToSet(idle) \cap lent)
            BY <1>1, <1>2, FS_Union
        <2>3. Cardinality(ToSet(idle)) \in Nat /\ Cardinality(lent) \in Nat
            BY <1>1, <1>2, FS_CardinalityType
        <2>. QED  BY <2>1, <2>2, <2>3
    <1>5. IsFiniteSet(OpenAtoms) /\ Cardinality(OpenAtoms) <= Cardinality(ToSet(idle) \cup lent)
        BY <1>3, <1>4, FS_Subset
    <1>6. /\ Cardinality(OpenAtoms) \in Nat
          /\ Cardinality(ToSet(idle) \cup lent) \in Nat
          /\ Cardinality(lent) \in Nat
          /\ Cardinality(ToSet(idle)) \in Nat
        BY <1>1, <1>2, <1>4, <1>5, FS_CardinalityType
    <1>. QED
        BY <1>1, <1>2, <1>4, <1>5, <1>6, BusyFinite, PoolAssumption
           DEF SlotBound, SessionsBounded

-----------------------------------------------------------------------------
(* The theorems.                                                           *)

IInv == SlotInv /\ AtomInv /\ CloseInv /\ SlotBound

LEMMA Invariance == Spec => []IInv
    <1>1. Init => IInv
        BY SlotInvInit, AtomInvInit, CloseInvInit, SlotBoundInit DEF IInv
    <1>2. IInv /\ [Next]_vars => IInv'
        BY SlotInvNext, AtomInvNext, CloseInvNext, SlotBoundNext DEF IInv, CloseInv
    <1>. QED  BY <1>1, <1>2, PTL DEF Spec

\* The state of the pool keeps its types; the number of free slots stays
\* between zero and max_size.
THEOREM TypeCorrect == Spec => []TypeOK
    <1>1. IInv => TypeOK
        BY DEF IInv, SlotInv, SlotType, AtomInv, AtomType, CloseInv, CloseType, TypeOK
    <1>. QED  BY <1>1, Invariance, PTL

\* However acquire(), release() and close() interleave, and whichever of
\* their awaits fails or is cancelled, no slot is lost or doubled.
THEOREM SlotsConserved == Spec => []PermitConservation
    <1>1. IInv => PermitConservation
        BY DEF IInv, SlotInv
    <1>. QED  BY <1>1, Invariance, PTL

\* A free slot is never left beside a parked caller that nobody will wake.
THEOREM WaitersRemembered == Spec => []NoWaiterForgotten
    <1>1. IInv => NoWaiterForgotten
        BY DEF IInv, SlotInv
    <1>. QED  BY <1>1, Invariance, PTL

\* A session is never lent to two callers, nor idle while it is lent.
THEOREM LeasesExclusive == Spec => []ExclusiveLease
    <1>1. IInv => ExclusiveLease
        BY DEF IInv, AtomInv
    <1>. QED  BY <1>1, Invariance, PTL

\* An open transport is always idle or with a caller that will let go of it.
THEOREM TransportsAccounted == Spec => []NoOrphanTransport
    <1>1. IInv => NoOrphanTransport
        BY DEF IInv, AtomInv
    <1>. QED  BY <1>1, Invariance, PTL

\* No more than max_size transports are open at a time.
THEOREM CapacityKept == Spec => []SessionsBounded
    <1>1. IInv => SessionsBounded
        BY BoundFromSlots DEF IInv
    <1>. QED  BY <1>1, Invariance, PTL

\* A session whose block raised is never handed out again.
THEOREM SpoiledStaysOut == Spec => []SpoiledNeverReused
    <1>1. IInv => SpoiledNeverReused
        BY DEF IInv, AtomInv, SpoiledGone, SpoiledNeverReused, HoldsAtom
    <1>. QED  BY <1>1, Invariance, PTL

\* Behind a close() that ran to its end the idle queue stays empty.
THEOREM ClosedStaysEmpty == Spec => []ClosedPoolStaysEmpty
    <1>1. IInv => ClosedPoolStaysEmpty
        BY DEF IInv, CloseInv, CloseOrder, Drained, ClosedPoolStaysEmpty
    <1>. QED  BY <1>1, Invariance, PTL

-----------------------------------------------------------------------------
(* The pool implements the lease discipline of LeasePool.                   *)

\* What is registered, or waits in the snapshot of the forced close, was made.
RegisteredMade == \A a \in all \cup todo : conn[a] # "none"

RInv == IInv /\ RegisteredMade

leaseVars == <<OpenAtoms, MadeAtoms, Leases, closed>>

\* Factory or close(), nobody takes the identity of an atom back.
LEMMA MadeForGood ==
    ASSUME IInv, [Next]_vars
    PROVE  \A a \in Atoms : conn[a] # "none" => conn'[a] # "none"
    <1>. USE DEF IInv, AtomInv, AtomType, CloseInv
    <1>1. CASE \E t \in Callers : CallerStep(t)
        <2>1. PICK t \in Callers : AtomStep(t)
            BY <1>1, CallerAtomStep
        <2>. QED  BY <2>1
                  DEF AtomStep, Aside, Picked, Dropped, Made, Registered, ClosedBy, Returned
    <1>2. CASE OtherStep
        BY <1>2 DEF OtherStep, Shut
    <1>3. CASE \E k \in Closers : CloserStep(k)
        BY <1>2, <1>3, CloserOtherStep
    <1>4. CASE \E a \in Atoms : Drop(a) \/ Expire(a)
        BY <1>2, <1>4 DEF Drop, Expire, OtherStep, poolVars, IsAlive
    <1>5. CASE Terminated \/ UNCHANGED vars
        BY <1>5 DEF Terminated, vars
    <1>. QED  BY <1>1, <1>3, <1>4, <1>5 DEF Next

LEMMA CallerRegistersMade ==
    ASSUME IInv, NEW t \in Callers, CallerStep(t)
    PROVE  /\ todo' = todo
           /\ \/ all' \in SUBSET all
              \/ pc[t] = "login" /\ all' = all \cup {held[t]}
    <1>. USE DEF poolVars, closeVars
    <1>1. CASE Refuse(t) \/ Acquire(t) \/ GiveUp(t) \/ GiveUpGranted(t) \/ Resume(t)
        BY <1>1 DEF Refuse, Acquire, GiveUp, GiveUpGranted, Resume
    <1>2. CASE DiscardDone(t) \/ DiscardCancelled(t) \/ OpenOk(t) \/ OpenFail(t)
        BY <1>2 DEF DiscardDone, DiscardCancelled, OpenOk, OpenFail
    <1>3. CASE LoginOk(t) \/ LoginFail(t) \/ AbandonDone(t)
        BY <1>3 DEF LoginOk, LoginFail, AbandonDone
    <1>4. CASE \/ \E healthy \in BOOLEAN : Release(t, healthy)
               \/ ReturnDone(t) \/ ReturnCancelled(t)
        BY <1>4 DEF Release, ReturnDone, ReturnCancelled
    <1>. QED  BY <1>1, <1>2, <1>3, <1>4 DEF CallerStep

LEMMA CloserRegistersNone ==
    ASSUME NEW k \in Closers, CloserStep(k)
    PROVE  all' \cup todo' \in SUBSET (all \cup todo)
    <1>. USE DEF Finish
    <1>1. CASE Close(k) \/ DrainDone(k)
        BY <1>1 DEF Close, DrainDone, Drain
    <1>2. CASE CloseAgain(k) \/ WaitResume(k) \/ CloseCancelled(k)
        BY <1>2 DEF CloseAgain, WaitResume, CloseCancelled, poolVars
    <1>3. CASE WaitTimeout(k) \/ ForceDone(k)
        BY <1>3 DEF WaitTimeout, ForceDone, ForceClose
    <1>. QED  BY <1>1, <1>2, <1>3 DEF CloserStep

LEMMA RInvNext == RInv /\ [Next]_vars => RInv'
    <1>. SUFFICES ASSUME RInv, [Next]_vars
                  PROVE  RInv'
        OBVIOUS
    <1>1. IInv /\ IInv'
        BY SlotInvNext, AtomInvNext, CloseInvNext, SlotBoundNext DEF RInv, IInv, CloseInv
    <1>2. /\ \A a \in Atoms : conn[a] # "none" => conn'[a] # "none"
          /\ all \cup todo \in SUBSET Atoms
        BY <1>1, MadeForGood DEF IInv, CloseInv, CloseType
    <1>3. CASE \E t \in Callers : CallerStep(t)
        <2>1. PICK t \in Callers : CallerStep(t)
            BY <1>3
        <2>2. pc[t] = "login" => held[t] \in Atoms /\ conn[held[t]] # "none"
            BY <1>1 DEF IInv, AtomInv, ExclusiveLease, UnmadeNowhere, HoldsAtom
        <2>. QED  BY <1>1, <1>2, <2>1, <2>2, CallerRegistersMade DEF RInv, RegisteredMade
    <1>4. CASE \E k \in Closers : CloserStep(k)
        BY <1>1, <1>2, <1>4, CloserRegistersNone DEF RInv, RegisteredMade
    <1>5. CASE (\E a \in Atoms : Drop(a) \/ Expire(a)) \/ Terminated \/ UNCHANGED vars
        BY <1>1, <1>2, <1>5
           DEF Drop, Expire, Terminated, vars, poolVars, closeVars, RInv, RegisteredMade
    <1>. QED  BY <1>3, <1>4, <1>5 DEF Next

LEMMA RInvariance == Spec => []RInv
    <1>1. Init => RInv
        <2>1. Init => RegisteredMade
            BY DEF Init, RegisteredMade
        <2>. QED  BY <2>1, SlotInvInit, AtomInvInit, CloseInvInit, SlotBoundInit
                  DEF RInv, IInv
    <1>. QED  BY <1>1, RInvNext, PTL DEF Spec

-----------------------------------------------------------------------------
(* The steps of the pool as steps of LeasePool.                            *)

LEMMA CloseOne ==
    ASSUME AtomType, NEW a \in Atoms, conn[a] # "none", Shut(a)
    PROVE  OpenAtoms' = OpenAtoms \ {a} /\ MadeAtoms' = MadeAtoms
    BY DEF AtomType, Shut, OpenAtoms, IsOpen, MadeAtoms

\* An idle session was made, and nobody has it.
LEMMA IdleIsFree ==
    ASSUME AtomInv, idle # <<>>
    PROVE  /\ Last(idle) \in Atoms
           /\ conn[Last(idle)] # "none"
           /\ \A u \in Callers : LentTo(u) # Last(idle)
    <1>1. Last(idle) \in Atoms /\ Last(idle) \in ToSet(idle)
        BY FrontInjective, FrontFacts DEF AtomInv, AtomType, ExclusiveLease
    <1>2. Last(idle) # NoAtom
        BY <1>1, PoolAssumption
    <1>. QED  BY <1>1, <1>2 DEF AtomInv, ExclusiveLease, UnmadeNowhere, LentTo, HoldsAtom

\* A call that closes a session, while it is idle or because the pool shuts
\* down, is a Close, or nothing if the session was closed before.
LEMMA CloseMaps ==
    ASSUME AtomType, NEW a \in Atoms, conn[a] # "none", Shut(a),
           Leases' = Leases, closed \in BOOLEAN, closed' \in {closed, TRUE},
           \/ closed'
           \/ \A u \in Callers : LentTo(u) # a
    PROVE  [Lease!Next]_leaseVars
    <1>1. OpenAtoms' = OpenAtoms \ {a} /\ MadeAtoms' = MadeAtoms
        BY CloseOne
    <1>2. CASE a \in OpenAtoms
        <2>1. Lease!Lent(a) => closed'
            BY DEF Lease!Lent, Leases
        <2>2. Lease!Close(a)
            BY <1>1, <1>2, <2>1 DEF Lease!Close
        <2>. QED  BY <2>2 DEF Lease!Next
    <1>3. CASE a \notin OpenAtoms
        <2>1. UNCHANGED <<OpenAtoms, MadeAtoms, Leases>>
            BY <1>1, <1>3
        <2>2. closed' = closed \/ closed' = TRUE
            OBVIOUS
        <2>. QED  BY <2>1, <2>2 DEF Lease!Next, Lease!Shut, leaseVars
    <1>. QED  BY <1>2, <1>3

LEMMA CallerMaps ==
    ASSUME RInv, SessionsBounded', NEW t \in Callers, CallerStep(t)
    PROVE  [Lease!Next]_leaseVars
    <1>0. AtomStep(t) /\ closed' = closed /\ closed \in BOOLEAN /\ SlotType
        BY CallerAtomStep, CallerKeepsClose
           DEF RInv, IInv, AtomInv, CloseInv, CloseType, SlotInv
    <1>. USE <1>0 DEF RInv, IInv, AtomInv, HoldsAtom
    <1>1. \A u \in Callers \ {t} : LentTo(u)' = LentTo(u)
        BY DEF AtomStep, SamePlace, LentTo
    <1>2. /\ Leases' = [Leases EXCEPT ![t] = LentTo(t)']
          /\ Leases[t] = LentTo(t)
        BY <1>1 DEF Leases
    <1>3. LentTo(t)' = LentTo(t) => Leases' = Leases
        BY <1>1 DEF Leases
    <1>4. pc[t] \in HoldsAtom => held[t] \in Atoms /\ conn[held[t]] # "none"
        BY DEF ExclusiveLease, UnmadeNowhere
    <1>5. conn' = conn => OpenAtoms' = OpenAtoms /\ MadeAtoms' = MadeAtoms
        BY DEF OpenAtoms, IsOpen, MadeAtoms
    <1>6. CASE Aside(t) \/ Dropped(t) \/ Registered(t)
        BY <1>3, <1>5, <1>6 DEF Aside, Dropped, Registered, LentTo, leaseVars
    <1>7. CASE Picked(t)
        <2>. DEFINE a == Last(idle)
        <2>1. /\ a \in Atoms /\ conn[a] # "none"
              /\ \A u \in Callers : LentTo(u) # a
            BY <1>7, IdleIsFree DEF Picked
        <2>2. LentTo(t) = NoAtom
            BY <1>7 DEF Picked, LentTo
        <2>3. CASE pc'[t] = "using" /\ Reusable(a) /\ conn' = conn
            <3>1. LentTo(t)' = a
                BY <1>7, <2>3 DEF Picked, LentTo
            <3>2. a \in OpenAtoms
                BY <2>1, <2>3 DEF Reusable, IsAlive, OpenAtoms, IsOpen
            <3>3. ~Lease!Lent(a)
                BY <2>1 DEF Lease!Lent, Leases
            <3>4. Lease!Lend(t, a)
                BY <1>2, <1>5, <2>2, <2>3, <3>1, <3>2, <3>3 DEF Lease!Lend
            <3>. QED  BY <2>1, <3>4 DEF Lease!Next
        <2>4. CASE pc'[t] = "discarding" /\ Shut(a)
            <3>1. LentTo(t)' = NoAtom
                BY <2>4 DEF LentTo
            <3>. QED  BY <1>3, <2>1, <2>2, <2>4, <3>1, CloseMaps
        <2>. QED  BY <1>7, <2>3, <2>4 DEF Picked, Shut
    <1>8. CASE Made(t)
        <2>. DEFINE a == held'[t]
        <2>1. a \in Atoms /\ LentTo(t) = NoAtom /\ LentTo(t)' = a
            BY <1>8 DEF Made, LentTo
        <2>2. /\ OpenAtoms' = OpenAtoms \cup {a}
              /\ MadeAtoms' = MadeAtoms \cup {a}
              /\ a \notin MadeAtoms
            BY <1>8, <2>1 DEF Made, AtomType, OpenAtoms, IsOpen, MadeAtoms
        <2>3. Cardinality(OpenAtoms \cup {a}) <= MaxSize
            BY <2>2 DEF SessionsBounded
        <2>4. Lease!Cardinality(OpenAtoms \cup {a}) = Cardinality(OpenAtoms \cup {a})
            BY DEF Lease!Cardinality, Cardinality
        <2>5. Lease!Open(t, a)
            BY <1>2, <2>1, <2>2, <2>3, <2>4 DEF Lease!Open
        <2>. QED  BY <2>1, <2>5 DEF Lease!Next
    <1>9. CASE ClosedBy(t)
        <2>1. LentTo(t) = held[t] /\ LentTo(t)' = NoAtom /\ held[t] # NoAtom
            BY <1>4, <1>9, PoolAssumption DEF ClosedBy, LentTo
        <2>2. OpenAtoms' = OpenAtoms \ {held[t]} /\ MadeAtoms' = MadeAtoms
            BY <1>4, <1>9, CloseOne DEF ClosedBy, Shut
        <2>3. Lease!Discard(t)
            BY <1>2, <2>1, <2>2 DEF Lease!Discard
        <2>. QED  BY <2>3 DEF Lease!Next
    <1>10. CASE Returned(t)
        <2>1. LentTo(t) = held[t] /\ LentTo(t)' = NoAtom /\ held[t] # NoAtom
            BY <1>4, <1>10, PoolAssumption DEF Returned, LentTo
        <2>2. Lease!Return(t)
            BY <1>2, <1>5, <1>10, <2>1 DEF Lease!Return, Returned
        <2>. QED  BY <2>2 DEF Lease!Next
    <1>. QED  BY <1>6, <1>7, <1>8, <1>9, <1>10 DEF AtomStep

LEMMA CloserMaps ==
    ASSUME RInv, NEW k \in Closers, CloserStep(k)
    PROVE  [Lease!Next]_leaseVars
    <1>1. closed \in BOOLEAN /\ closed' = TRUE
        BY DEF RInv, IInv, CloseInv, CloseType, CloseOrder, CloserStep, Close, CloseAgain,
               DrainDone, WaitResume, WaitTimeout, ForceDone, CloseCancelled, CloseActive,
               poolVars
    <1>2. UNCHANGED <<pc, held>> /\ Leases' = Leases
        BY CloserOtherStep
           DEF RInv, IInv, AtomInv, CloseInv, OtherStep, Leases, LentTo
    <1>3. \/ conn' = conn
          \/ \E a \in Atoms : conn[a] # "none" /\ Shut(a)
        <2>. USE DEF Finish, Shut, RInv, RegisteredMade, IInv, CloseInv, CloseType
        <2>1. CASE Close(k) \/ DrainDone(k)
            <3>1. idle # <<>> => Last(idle) \in Atoms /\ conn[Last(idle)] # "none"
                BY IdleIsFree
            <3>. QED  BY <2>1, <3>1 DEF Close, DrainDone, Drain
        <2>2. CASE CloseAgain(k) \/ WaitResume(k) \/ CloseCancelled(k)
            BY <2>2 DEF CloseAgain, WaitResume, CloseCancelled
        <2>3. CASE WaitTimeout(k) \/ ForceDone(k)
            BY <2>3 DEF WaitTimeout, ForceDone, ForceClose
        <2>. QED  BY <2>1, <2>2, <2>3 DEF CloserStep
    <1>4. CASE conn' = conn
        <2>1. OpenAtoms' = OpenAtoms /\ MadeAtoms' = MadeAtoms
            BY <1>4 DEF OpenAtoms, IsOpen, MadeAtoms
        <2>. QED  BY <1>1, <1>2, <2>1 DEF Lease!Next, Lease!Shut
    <1>5. CASE \E a \in Atoms : conn[a] # "none" /\ Shut(a)
        <2>1. PICK a \in Atoms : conn[a] # "none" /\ Shut(a)
            BY <1>5
        <2>2. AtomType
            BY DEF RInv, IInv, AtomInv
        <2>. QED  BY <1>1, <1>2, <2>1, <2>2, CloseMaps
    <1>. QED  BY <1>3, <1>4, <1>5

\* A hang-up or an expiry changes what is_alive() and is_stale() say, but the
\* session stays open and with whom it is.
LEMMA OutsideMaps ==
    ASSUME RInv, \/ \E a \in Atoms : Drop(a) \/ Expire(a)
                 \/ Terminated \/ UNCHANGED vars
    PROVE  UNCHANGED leaseVars
    <1>1. UNCHANGED <<pc, held, closed>>
        BY DEF Drop, Expire, Terminated, vars, poolVars
    <1>2. OpenAtoms' = OpenAtoms /\ MadeAtoms' = MadeAtoms
        BY DEF Drop, Expire, Terminated, vars, IsAlive, OpenAtoms, IsOpen, MadeAtoms,
               RInv, IInv, AtomInv, AtomType
    <1>. QED  BY <1>1, <1>2 DEF leaseVars, Leases, LentTo

-----------------------------------------------------------------------------

\* The pool implements the lease discipline, for every number of callers,
\* sessions and calls of close().
THEOREM PoolImplementsLeases == Spec => ImplementsLeases
    <1>1. Init => Lease!Init
        BY DEF Init, Lease!Init, OpenAtoms, IsOpen, MadeAtoms, Leases, LentTo
    <1>2. RInv /\ SessionsBounded' /\ [Next]_vars => [Lease!Next]_leaseVars
        BY CallerMaps, CloserMaps, OutsideMaps DEF Next
    <1>. QED  BY <1>1, <1>2, RInvariance, CapacityKept, PTL
              DEF Spec, ImplementsLeases, Lease!Spec, Lease!vars, leaseVars
=============================================================================

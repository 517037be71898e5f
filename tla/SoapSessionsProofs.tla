------------------------- MODULE SoapSessionsProofs -------------------------
(***************************************************************************)
(* SoapSessions for any number of sessions and users: the type invariant,  *)
(* that a session sends the two values of one login, that no login signs   *)
(* with the nonce of another, and that no transport is left open.          *)
(***************************************************************************)
EXTENDS SoapSessions, FiniteSetTheorems, TLAPS

(***************************************************************************)
(* The inductive invariant.                                                *)
(***************************************************************************)

Given == [cookie : 1..cookies, sid : Sessions, user : Users]

\* The state without the bound on the two counters of the server.
Shape ==
    /\ tls \in BOOLEAN
    /\ stage \in [Sessions -> Stages]
    /\ connected \in SUBSET Sessions
    /\ user \in [Sessions -> Users \cup {Nobody}]
    /\ sid \in [Sessions -> Sessions \cup {Nobody}]
    /\ cookies \in Nat /\ nonces \in Nat
    /\ jar \in [Sessions -> 0..cookies]
    /\ nonce \in [Sessions -> 0..nonces]
    /\ challenge \in [Sessions -> 0..nonces]
    /\ logins \in SUBSET Given

\* A login runs with the id that its session made up, and for a user.
OwnIds == \A s \in Sessions : stage[s] \in LoggingIn => sid[s] = s /\ user[s] \in Users

\* What can be sent, exported or resumed is a login the server accepted.
PairsAreLogins ==
    /\ store \subseteq logins
    /\ \A s \in Sessions : stage[s] \in {"open", "closed"} => Pair(s) \in logins

\* Each cookie and each nonce was given to a session that counts once.
Started == {s \in Sessions : jar[s] # 0}
Challenged == {s \in Sessions : stage[s] \notin {"none", "auth"}}
Counted == cookies <= Cardinality(Started) /\ nonces <= Cardinality(Challenged)

IInv == Shape /\ OwnIds /\ PairsAreLogins /\ Counted /\ OwnNonce /\ NoLeakedTransport

-----------------------------------------------------------------------------
(* Each part of the invariant is kept by every step. *)

LEMMA ShapeKept ==
    ASSUME Shape, OwnIds, store \subseteq logins, [Next]_vars
    PROVE  Shape'
    <1>. USE DEF Shape, OwnIds, serverVars, Stages, LoggingIn, Given
    <1>1. ASSUME NEW s \in Sessions, NEW u \in Users,
                 Open(s, u)
          PROVE  Shape'
        BY <1>1 DEF Open
    <1>2. ASSUME NEW s \in Sessions,
                 Authenticated(s)
          PROVE  Shape'
        <2>1. /\ cookies' \in Nat /\ cookies <= cookies'
              /\ jar' \in [Sessions -> 0..cookies']
            BY <1>2 DEF Authenticated, TakeCookie
        <2>2. logins' \in SUBSET Given'
            BY <1>2, <2>1 DEF Authenticated
        <2>3. nonces' = nonces + 1 /\ nonce' \in [Sessions -> 0..nonces']
            BY <1>2 DEF Authenticated, KeepNonce
        <2>4. challenge' \in [Sessions -> 0..nonces']
            BY <1>2, <2>3 DEF Authenticated
        <2>. QED  BY <1>2, <2>1, <2>2, <2>3, <2>4 DEF Authenticated
    <1>3. ASSUME NEW s \in Sessions,
                 LoginAccepted(s)
          PROVE  Shape'
        <2>1. /\ cookies' \in Nat /\ cookies <= cookies'
              /\ jar' \in [Sessions -> 0..cookies']
              /\ jar'[s] \in 1..cookies'
            BY <1>3 DEF LoginAccepted, TakeCookie
        <2>2. [cookie |-> jar'[s], sid |-> sid[s], user |-> user[s]] \in Given'
            BY <1>3, <2>1 DEF LoginAccepted
        <2>3. logins' \in SUBSET Given'
            BY <1>3, <2>1, <2>2 DEF LoginAccepted
        <2>. QED  BY <1>3, <2>1, <2>3 DEF LoginAccepted
    <1>4. ASSUME NEW s \in Sessions,
                 LoginFailed(s)
          PROVE  Shape'
        BY <1>4 DEF LoginFailed
    <1>5. ASSUME NEW s \in Sessions,
                 Abandoned(s)
          PROVE  Shape'
        BY <1>5 DEF Abandoned
    <1>6. ASSUME NEW s \in Sessions,
                 Export(s)
          PROVE  Shape'
        BY <1>6 DEF Export, Pair
    <1>7. ASSUME NEW s \in Sessions,
                 Close(s)
          PROVE  Shape'
        BY <1>7 DEF Close
    <1>8. ASSUME NEW s \in Sessions, NEW pair \in store,
                 Resume(s, pair)
          PROVE  Shape'
        BY <1>8 DEF Resume
    <1>9. CASE Restart
        BY <1>9 DEF Restart
    <1>10. CASE UNCHANGED vars
        BY <1>10 DEF vars
    <1>. QED
        BY <1>1, <1>2, <1>3, <1>4, <1>5, <1>6, <1>7, <1>8, <1>9, <1>10 DEF Next, Terminated

LEMMA OwnIdsKept ==
    ASSUME Shape, OwnIds, [Next]_vars
    PROVE  OwnIds'
    <1>. USE DEF Shape, OwnIds, serverVars, LoggingIn
    <1>1. ASSUME NEW s \in Sessions, NEW u \in Users,
                 Open(s, u)
          PROVE  OwnIds'
        BY <1>1 DEF Open
    <1>2. ASSUME NEW s \in Sessions,
                 Authenticated(s)
          PROVE  OwnIds'
        BY <1>2 DEF Authenticated, TakeCookie, KeepNonce
    <1>3. ASSUME NEW s \in Sessions,
                 LoginAccepted(s)
          PROVE  OwnIds'
        BY <1>3 DEF LoginAccepted, TakeCookie
    <1>4. ASSUME NEW s \in Sessions,
                 LoginFailed(s)
          PROVE  OwnIds'
        BY <1>4 DEF LoginFailed
    <1>5. ASSUME NEW s \in Sessions,
                 Abandoned(s)
          PROVE  OwnIds'
        BY <1>5 DEF Abandoned
    <1>6. ASSUME NEW s \in Sessions,
                 Export(s)
          PROVE  OwnIds'
        BY <1>6 DEF Export, Pair
    <1>7. ASSUME NEW s \in Sessions,
                 Close(s)
          PROVE  OwnIds'
        BY <1>7 DEF Close
    <1>8. ASSUME NEW s \in Sessions, NEW pair \in store,
                 Resume(s, pair)
          PROVE  OwnIds'
        BY <1>8 DEF Resume
    <1>9. CASE Restart
        BY <1>9 DEF Restart
    <1>10. CASE UNCHANGED vars
        BY <1>10 DEF vars
    <1>. QED
        BY <1>1, <1>2, <1>3, <1>4, <1>5, <1>6, <1>7, <1>8, <1>9, <1>10 DEF Next, Terminated

LEMMA PairsKept ==
    ASSUME Shape, PairsAreLogins, [Next]_vars
    PROVE  PairsAreLogins'
    <1>. USE DEF Shape, PairsAreLogins, serverVars, LoggingIn, Pair
    <1>1. ASSUME NEW s \in Sessions, NEW u \in Users,
                 Open(s, u)
          PROVE  PairsAreLogins'
        BY <1>1 DEF Open
    <1>2. ASSUME NEW s \in Sessions,
                 Authenticated(s)
          PROVE  PairsAreLogins'
        BY <1>2 DEF Authenticated, TakeCookie, KeepNonce
    <1>3. ASSUME NEW s \in Sessions,
                 LoginAccepted(s)
          PROVE  PairsAreLogins'
        BY <1>3 DEF LoginAccepted, TakeCookie
    <1>4. ASSUME NEW s \in Sessions,
                 LoginFailed(s)
          PROVE  PairsAreLogins'
        BY <1>4 DEF LoginFailed
    <1>5. ASSUME NEW s \in Sessions,
                 Abandoned(s)
          PROVE  PairsAreLogins'
        BY <1>5 DEF Abandoned
    <1>6. ASSUME NEW s \in Sessions,
                 Export(s)
          PROVE  PairsAreLogins'
        BY <1>6 DEF Export, Pair
    <1>7. ASSUME NEW s \in Sessions,
                 Close(s)
          PROVE  PairsAreLogins'
        BY <1>7 DEF Close
    <1>8. ASSUME NEW s \in Sessions, NEW pair \in store,
                 Resume(s, pair)
          PROVE  PairsAreLogins'
        <2>1. pair \in Given /\ pair \in logins
            BY <1>8
        <2>2. pair = [cookie |-> pair.cookie, sid |-> pair.sid, user |-> pair.user]
            BY <2>1 DEF Given
        <2>3. Pair(s)' = pair
            BY <1>8, <2>2 DEF Resume
        <2>. QED  BY <1>8, <2>1, <2>3 DEF Resume
    <1>9. CASE Restart
        BY <1>9 DEF Restart
    <1>10. CASE UNCHANGED vars
        BY <1>10 DEF vars
    <1>. QED
        BY <1>1, <1>2, <1>3, <1>4, <1>5, <1>6, <1>7, <1>8, <1>9, <1>10 DEF Next, Terminated

LEMMA OwnNonceKept ==
    ASSUME Shape, OwnIds, OwnNonce, [Next]_vars
    PROVE  OwnNonce'
    <1>. USE DEF Shape, OwnIds, OwnNonce, serverVars, LoggingIn
    <1>1. ASSUME NEW s \in Sessions, NEW u \in Users,
                 Open(s, u)
          PROVE  OwnNonce'
        BY <1>1 DEF Open
    <1>2. ASSUME NEW s \in Sessions,
                 Authenticated(s)
          PROVE  OwnNonce'
        BY <1>2 DEF Authenticated, TakeCookie, KeepNonce
    <1>3. ASSUME NEW s \in Sessions,
                 LoginAccepted(s)
          PROVE  OwnNonce'
        BY <1>3 DEF LoginAccepted, TakeCookie
    <1>4. ASSUME NEW s \in Sessions,
                 LoginFailed(s)
          PROVE  OwnNonce'
        BY <1>4 DEF LoginFailed
    <1>5. ASSUME NEW s \in Sessions,
                 Abandoned(s)
          PROVE  OwnNonce'
        BY <1>5 DEF Abandoned
    <1>6. ASSUME NEW s \in Sessions,
                 Export(s)
          PROVE  OwnNonce'
        BY <1>6 DEF Export, Pair
    <1>7. ASSUME NEW s \in Sessions,
                 Close(s)
          PROVE  OwnNonce'
        BY <1>7 DEF Close
    <1>8. ASSUME NEW s \in Sessions, NEW pair \in store,
                 Resume(s, pair)
          PROVE  OwnNonce'
        BY <1>8 DEF Resume
    <1>9. CASE Restart
        BY <1>9 DEF Restart
    <1>10. CASE UNCHANGED vars
        BY <1>10 DEF vars
    <1>. QED
        BY <1>1, <1>2, <1>3, <1>4, <1>5, <1>6, <1>7, <1>8, <1>9, <1>10 DEF Next, Terminated

LEMMA NoLeakKept ==
    ASSUME Shape, NoLeakedTransport, [Next]_vars
    PROVE  NoLeakedTransport'
    <1>. USE DEF Shape, NoLeakedTransport, serverVars, LoggingIn
    <1>1. ASSUME NEW s \in Sessions, NEW u \in Users,
                 Open(s, u)
          PROVE  NoLeakedTransport'
        BY <1>1 DEF Open
    <1>2. ASSUME NEW s \in Sessions,
                 Authenticated(s)
          PROVE  NoLeakedTransport'
        BY <1>2 DEF Authenticated, TakeCookie, KeepNonce
    <1>3. ASSUME NEW s \in Sessions,
                 LoginAccepted(s)
          PROVE  NoLeakedTransport'
        BY <1>3 DEF LoginAccepted, TakeCookie
    <1>4. ASSUME NEW s \in Sessions,
                 LoginFailed(s)
          PROVE  NoLeakedTransport'
        BY <1>4 DEF LoginFailed
    <1>5. ASSUME NEW s \in Sessions,
                 Abandoned(s)
          PROVE  NoLeakedTransport'
        BY <1>5 DEF Abandoned
    <1>6. ASSUME NEW s \in Sessions,
                 Export(s)
          PROVE  NoLeakedTransport'
        BY <1>6 DEF Export, Pair
    <1>7. ASSUME NEW s \in Sessions,
                 Close(s)
          PROVE  NoLeakedTransport'
        BY <1>7 DEF Close
    <1>8. ASSUME NEW s \in Sessions, NEW pair \in store,
                 Resume(s, pair)
          PROVE  NoLeakedTransport'
        BY <1>8 DEF Resume
    <1>9. CASE Restart
        BY <1>9 DEF Restart
    <1>10. CASE UNCHANGED vars
        BY <1>10 DEF vars
    <1>. QED
        BY <1>1, <1>2, <1>3, <1>4, <1>5, <1>6, <1>7, <1>8, <1>9, <1>10 DEF Next, Terminated

\* What is counted by a set is counted by a larger one, and one more by a
\* set with one more element.
LEMMA CountGrows ==
    ASSUME NEW T, IsFiniteSet(T), NEW S, S \subseteq T, NEW n \in Nat, n <= Cardinality(S)
    PROVE  n <= Cardinality(T)
    <1>1. Cardinality(S) \in Nat /\ Cardinality(T) \in Nat
        BY FS_Subset, FS_CardinalityType
    <1>2. Cardinality(S) <= Cardinality(T)
        BY FS_Subset
    <1>. QED  BY <1>1, <1>2

LEMMA CountAdds ==
    ASSUME NEW S, IsFiniteSet(S), NEW x, x \notin S, NEW n \in Nat, n <= Cardinality(S)
    PROVE  n + 1 <= Cardinality(S \cup {x})
    <1>1. Cardinality(S) \in Nat
        BY FS_CardinalityType
    <1>2. Cardinality(S \cup {x}) = Cardinality(S) + 1
        BY FS_AddElement
    <1>. QED  BY <1>1, <1>2

\* A cookie is given to a session that had none, a nonce to one that leaves
\* the stage in which it waits for it; neither happens twice to a session.
LEMMA CountedKept ==
    ASSUME Shape, Shape', store \subseteq logins, Counted, [Next]_vars
    PROVE  Counted'
    <1>. USE SoapAssumption
    <1>1. IsFiniteSet(Sessions) /\ IsFiniteSet(Started) /\ IsFiniteSet(Challenged)
        BY FS_Subset DEF Started, Challenged
    <1>2. IsFiniteSet(Started') /\ IsFiniteSet(Challenged')
        BY <1>1, FS_Subset DEF Started, Challenged
    <1>3. ASSUME Started \subseteq Started', UNCHANGED cookies
          PROVE  cookies' <= Cardinality(Started')
        BY <1>2, <1>3, CountGrows DEF Counted, Shape
    <1>4. ASSUME Challenged \subseteq Challenged', UNCHANGED nonces
          PROVE  nonces' <= Cardinality(Challenged')
        BY <1>2, <1>4, CountGrows DEF Counted, Shape
    <1>5. ASSUME NEW s \in Sessions, TakeCookie(s)
          PROVE  cookies' <= Cardinality(Started')
        <2>1. CASE jar[s] = 0
            <3>1. cookies' = cookies + 1 /\ s \notin Started /\ Started' = Started \cup {s}
                BY <1>5, <2>1 DEF TakeCookie, Started, Shape
            <3>. QED  BY <3>1, <1>1, CountAdds DEF Counted, Shape
        <2>2. CASE jar[s] # 0
            BY <1>3, <1>5, <2>2 DEF TakeCookie, Started
        <2>. QED  BY <2>1, <2>2
    <1>. QED
        <2>1. ASSUME NEW s \in Sessions, Authenticated(s)
              PROVE  Counted'
            <3>1. cookies' <= Cardinality(Started')
                BY <1>5, <2>1 DEF Authenticated
            <3>2. nonces' = nonces + 1 /\ s \notin Challenged
                  /\ Challenged' = Challenged \cup {s}
                BY <2>1 DEF Authenticated, Challenged, Shape
            <3>3. nonces' <= Cardinality(Challenged')
                BY <3>2, <1>1, CountAdds DEF Counted, Shape
            <3>. QED  BY <3>1, <3>3 DEF Counted
        <2>2. ASSUME NEW s \in Sessions, LoginAccepted(s)
              PROVE  Counted'
            <3>1. cookies' <= Cardinality(Started')
                BY <1>5, <2>2 DEF LoginAccepted
            <3>2. Challenged \subseteq Challenged' /\ UNCHANGED nonces
                BY <2>2 DEF LoginAccepted, Challenged, Shape
            <3>. QED  BY <3>1, <3>2, <1>4 DEF Counted
        <2>3. ASSUME NEW s \in Sessions, NEW pair \in store, Resume(s, pair)
              PROVE  Counted'
            <3>1. pair.cookie # 0
                BY <2>3 DEF Shape, Given
            <3>2. Started \subseteq Started' /\ Challenged \subseteq Challenged'
                BY <2>3, <3>1 DEF Resume, Started, Challenged, Shape
            <3>. QED  BY <2>3, <3>2, <1>3, <1>4 DEF Counted, Resume, serverVars
        <2>4. ASSUME \/ \E s \in Sessions, u \in Users : Open(s, u)
                     \/ \E s \in Sessions : LoginFailed(s) \/ Abandoned(s)
                                          \/ Export(s) \/ Close(s)
                     \/ Restart
                     \/ UNCHANGED vars
              PROVE  Counted'
            <3>1. UNCHANGED <<jar, cookies, nonces>>
                BY <2>4 DEF Open, LoginFailed, Abandoned, Export, Close, Restart,
                            serverVars, vars
            <3>2. Started \subseteq Started'
                BY <3>1 DEF Started
            <3>3. Challenged \subseteq Challenged'
                BY <2>4 DEF Challenged, Shape, Open, LoginFailed, Abandoned, Export,
                            Close, Restart, LoggingIn, vars
            <3>. QED  BY <3>1, <3>2, <3>3, <1>3, <1>4 DEF Counted
        <2>. QED
            BY <2>1, <2>2, <2>3, <2>4 DEF Next, Terminated

-----------------------------------------------------------------------------
(* The theorems *)

\* The invariant holds at the start, is kept by every step, and so always.
THEOREM Invariance == Spec => []IInv
    <1>1. Init => IInv
        <2>. SUFFICES ASSUME Init PROVE IInv
            OBVIOUS
        <2>1. Started = {} /\ Challenged = {}
            BY DEF Init, Started, Challenged
        <2>2. Counted
            BY <2>1, FS_EmptySet DEF Init, Counted
        <2>. QED
            BY <2>2 DEF Init, IInv, Shape, OwnIds, PairsAreLogins, OwnNonce,
                        NoLeakedTransport, Stages, LoggingIn
    <1>2. IInv /\ [Next]_vars => IInv'
        <2>. SUFFICES ASSUME IInv, [Next]_vars PROVE IInv'
            OBVIOUS
        <2>1. Shape'
            BY ShapeKept DEF IInv, PairsAreLogins
        <2>. QED
            BY <2>1, OwnIdsKept, PairsKept, CountedKept, OwnNonceKept, NoLeakKept
            DEF IInv, PairsAreLogins
    <1>. QED  BY <1>1, <1>2, PTL DEF Spec

\* The sessions, the stored pairs and the server keep their types; at most
\* one cookie and one nonce is given to a session.
THEOREM SoapTypeCorrect == Spec => []TypeOK
    <1>1. IInv => TypeOK
        <2>. SUFFICES ASSUME IInv PROVE TypeOK
            OBVIOUS
        <2>1. ASSUME NEW T, T \subseteq Sessions
              PROVE  Cardinality(T) \in Nat /\ Cardinality(T) <= Limit
            BY <2>1, SoapAssumption, FS_Subset, FS_CardinalityType DEF Limit
        <2>2. Started \subseteq Sessions /\ Challenged \subseteq Sessions
            BY DEF Started, Challenged
        <2>3. Limit \in Nat
            BY SoapAssumption, FS_CardinalityType DEF Limit
        <2>4. cookies \in 0..Limit /\ nonces \in 0..Limit
            <3>1. cookies <= Limit
                BY <2>1, <2>2, <2>3 DEF IInv, Shape, Counted
            <3>2. nonces <= Limit
                BY <2>1, <2>2, <2>3 DEF IInv, Shape, Counted
            <3>. QED  BY <2>3, <3>1, <3>2 DEF IInv, Shape
        <2>5. Given \subseteq Pairs
            BY <2>3, <2>4 DEF Given, Pairs
        <2>. QED
            BY <2>4, <2>5 DEF IInv, Shape, PairsAreLogins, TypeOK
    <1>. QED  BY <1>1, Invariance, PTL

\* An open session, logged in or resumed through any chain of exports and
\* restarts, sends the cookie and the id of one login of its own user.
THEOREM PairsBelongTogether == Spec => []PairIsOneLogin
    <1>1. IInv => PairIsOneLogin
        BY DEF IInv, PairsAreLogins, PairIsOneLogin
    <1>. QED  BY <1>1, Invariance, PTL

\* No login signs with a nonce that the server gave to another session.
THEOREM NoncesApart == Spec => []OwnNonce
    <1>1. IInv => OwnNonce
        BY DEF IInv
    <1>. QED  BY <1>1, Invariance, PTL

\* An open transport has a login under way or a caller that owns it.
THEOREM NoTransportLeaks == Spec => []NoLeakedTransport
    <1>1. IInv => NoLeakedTransport
        BY DEF IInv
    <1>. QED  BY <1>1, Invariance, PTL
=============================================================================

----------------------------- MODULE LeasePool -----------------------------
(***************************************************************************)
(* What the session pool promises to its callers, without semaphore, idle  *)
(* queue or shutdown protocol: at most Limit sessions are open, each is    *)
(* lent to one caller at a time, a closed session is never lent, and       *)
(* until the pool is shut down nobody but its holder ends a lent session.  *)
(***************************************************************************)
EXTENDS Naturals, FiniteSets

CONSTANTS Callers, Atoms, Limit, NoAtom

VARIABLES
    live,    \* open sessions
    made,    \* sessions that were ever opened
    lease,   \* the open session each caller has, if any
    shut     \* the pool is shutting down

vars == <<live, made, lease, shut>>

Init ==
    /\ live = {}
    /\ made = {}
    /\ lease = [t \in Callers |-> NoAtom]
    /\ shut = FALSE

Lent(a) == \E t \in Callers : lease[t] = a

\* A new session, lent from its first moment to the caller it is opened for.
Open(t, a) ==
    /\ lease[t] = NoAtom
    /\ a \notin made
    /\ Cardinality(live \cup {a}) <= Limit
    /\ live' = live \cup {a}
    /\ made' = made \cup {a}
    /\ lease' = [lease EXCEPT ![t] = a]
    /\ UNCHANGED shut

Lend(t, a) ==
    /\ lease[t] = NoAtom
    /\ a \in live
    /\ ~Lent(a)
    /\ lease' = [lease EXCEPT ![t] = a]
    /\ UNCHANGED <<live, made, shut>>

Return(t) ==
    /\ lease[t] # NoAtom
    /\ lease' = [lease EXCEPT ![t] = NoAtom]
    /\ UNCHANGED <<live, made, shut>>

Discard(t) ==
    /\ lease[t] # NoAtom
    /\ live' = live \ {lease[t]}
    /\ lease' = [lease EXCEPT ![t] = NoAtom]
    /\ UNCHANGED <<made, shut>>

\* The pool closes an idle session, or a lent one when it shuts down.
Close(a) ==
    /\ a \in live
    /\ Lent(a) => shut'
    /\ live' = live \ {a}
    /\ shut' \in {shut, TRUE}
    /\ UNCHANGED <<made, lease>>

Shut ==
    /\ shut' = TRUE
    /\ UNCHANGED <<live, made, lease>>

Next ==
    \/ \E t \in Callers : Return(t) \/ Discard(t)
    \/ \E t \in Callers, a \in Atoms : Open(t, a) \/ Lend(t, a)
    \/ \E a \in Atoms : Close(a)
    \/ Shut

Spec == Init /\ [][Next]_vars
=============================================================================

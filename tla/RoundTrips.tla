----------------------------- MODULE RoundTrips -----------------------------
(***************************************************************************)
(* What one session promises to those who use it one after the other, with *)
(* no stream, no chunks and no timers: a request is written only when      *)
(* nothing is owed for an earlier one, the reply that is taken is the one  *)
(* to that request, and a request that fails is the last of the session.   *)
(* The server may still serve it, and nobody sees the reply.               *)
(***************************************************************************)
EXTENDS Naturals

VARIABLES
    requests,   \* requests so far; the number names the request
    delivered,  \* the last one the server received
    served,     \* the last one the server replied to
    taken,      \* the request whose reply was taken last, 0 if it failed
    state       \* "ready", "waiting" for a reply, or "over"

vars == <<requests, delivered, served, taken, state>>

Init ==
    /\ requests = 0 /\ delivered = 0 /\ served = 0 /\ taken = 0
    /\ state = "ready"

\* A connection that is gone swallows the request.
Ask ==
    /\ state = "ready"
    /\ served = requests
    /\ requests' = requests + 1
    /\ delivered' \in {delivered, requests + 1}
    /\ taken' = 0
    /\ state' = "waiting"
    /\ UNCHANGED served

Serve ==
    /\ served < delivered
    /\ served' = served + 1
    /\ UNCHANGED <<requests, delivered, taken, state>>

Take ==
    /\ state = "waiting"
    /\ served = requests
    /\ taken' = requests
    /\ state' = "ready"
    /\ UNCHANGED <<requests, delivered, served>>

Fail ==
    /\ state = "waiting"
    /\ taken' = 0
    /\ state' = "over"
    /\ UNCHANGED <<requests, delivered, served>>

End ==
    /\ state = "ready"
    /\ state' = "over"
    /\ UNCHANGED <<requests, delivered, served, taken>>

Next == Ask \/ Serve \/ Take \/ Fail \/ End

Spec == Init /\ [][Next]_vars
=============================================================================

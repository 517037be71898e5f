--------------------------- MODULE CommandService ---------------------------
(***************************************************************************)
(* What Client.command() promises, with no sessions and no pool: a call is *)
(* a number of documents, sent one after the other; the server executes a  *)
(* document at most once; a call that returns has the reply to each of its *)
(* documents, in order.  A call that raises leaves at most one document in *)
(* doubt, which the server may execute later or never.                     *)
(***************************************************************************)
EXTENDS Naturals, Sequences

CONSTANTS
    Callers,   \* coroutines that call command()
    MaxGroups  \* bound: documents of a call

VARIABLES
    call,      \* number of the call each caller is in, or was in last
    size,      \* documents of that call
    outcome,   \* "none" while it runs
    replies,   \* the replies it has
    submitted, \* documents handed to the server, over all calls
    executed   \* those it executed

vars == <<call, size, outcome, replies, submitted, executed>>

Document(t, i) == [caller |-> t, call |-> call[t], step |-> i]

Running(t) == call[t] > 0 /\ outcome[t] = "none"

Init ==
    /\ call = [t \in Callers |-> 0]
    /\ size = [t \in Callers |-> 0]
    /\ outcome = [t \in Callers |-> "none"]
    /\ replies = [t \in Callers |-> <<>>]
    /\ submitted = {} /\ executed = {}

Begin(t) ==
    /\ ~Running(t)
    /\ call' = [call EXCEPT ![t] = @ + 1]
    /\ \E n \in 0..MaxGroups : size' = [size EXCEPT ![t] = n]
    /\ outcome' = [outcome EXCEPT ![t] = "none"]
    /\ replies' = [replies EXCEPT ![t] = <<>>]
    /\ UNCHANGED <<submitted, executed>>

\* A closed pool refuses the call.
Refuse(t) ==
    /\ ~Running(t)
    /\ call' = [call EXCEPT ![t] = @ + 1]
    /\ outcome' = [outcome EXCEPT ![t] = "raised"]
    /\ replies' = [replies EXCEPT ![t] = <<>>]
    /\ UNCHANGED <<size, submitted, executed>>

\* The next document, once the one before it is answered.
Submit(t) ==
    /\ Running(t)
    /\ Len(replies[t]) < size[t]
    /\ LET d == Document(t, Len(replies[t]) + 1)
       IN  d \notin submitted /\ submitted' = submitted \cup {d}
    /\ UNCHANGED <<call, size, outcome, replies, executed>>

Execute(d) ==
    /\ d \in submitted \ executed
    /\ executed' = executed \cup {d}
    /\ UNCHANGED <<call, size, outcome, replies, submitted>>

Answer(t) ==
    /\ Running(t)
    /\ LET d == Document(t, Len(replies[t]) + 1)
       IN  d \in executed /\ replies' = [replies EXCEPT ![t] = Append(@, d)]
    /\ UNCHANGED <<call, size, outcome, submitted, executed>>

Return(t) ==
    /\ Running(t)
    /\ Len(replies[t]) = size[t]
    /\ outcome' = [outcome EXCEPT ![t] = "returned"]
    /\ UNCHANGED <<call, size, replies, submitted, executed>>

Raise(t) ==
    /\ Running(t)
    /\ outcome' = [outcome EXCEPT ![t] = "raised"]
    /\ UNCHANGED <<call, size, replies, submitted, executed>>

Next ==
    \/ \E t \in Callers : \/ Begin(t) \/ Refuse(t) \/ Submit(t) \/ Answer(t)
                          \/ Return(t) \/ Raise(t)
    \/ \E d \in submitted : Execute(d)

Spec == Init /\ [][Next]_vars
=============================================================================

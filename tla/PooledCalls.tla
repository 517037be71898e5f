---------------------------- MODULE PooledCalls ----------------------------
(***************************************************************************)
(* Client.command() over the session pool: the pool of SessionPool, the    *)
(* round trips its callers make on the sessions they hold, the login of    *)
(* the factory included, and the server behind each session.               *)
(*                                                                         *)
(* Every step of a caller conjoins a step of SessionPool with what happens *)
(* to its call.  A round trip is a document that goes out and a reply that *)
(* comes back on the same stream; replies carry no name of their request,  *)
(* so a caller takes the first one that comes.                             *)
(***************************************************************************)
EXTENDS SessionPool

CONSTANTS
    MaxCalls,    \* bound: calls of a caller
    MaxGroups,   \* bound: documents of a call, one for each group of commands
    LoginTrips   \* round trips of a login: one with TLS, two without

ASSUME CallAssumption ==
    /\ MaxCalls \in Nat
    /\ MaxGroups \in Nat
    /\ LoginTrips \in Nat \ {0}

VARIABLES
    call,      \* number of the call each caller is in, or was in last
    size,      \* documents of that call
    outcome,   \* how it ended, "none" while it runs
    awaiting,  \* callers in send()
    replies,   \* replies of the login, or of the call, each caller has
    inbox,     \* per session, documents the server has and did not execute
    outbox,    \* per session, replies that were not read
    executed   \* history: documents the server executed

callVars == <<call, size, outcome, awaiting, replies>>
wireVars == <<inbox, outbox, executed>>
allVars  == <<vars, callVars, wireVars>>

Documents == [caller : Callers, call : Nat, kind : {"login", "group"}, step : Nat,
              atom : Atoms]

KindOf(t) == IF pc[t] = "login" THEN "login" ELSE "group"
Trips(t) == IF pc[t] = "login" THEN LoginTrips ELSE size[t]
Document(t, i) == [caller |-> t, call |-> call[t], kind |-> KindOf(t), step |-> i,
                   atom |-> held[t]]

CallsInit ==
    /\ Init
    /\ call = [t \in Callers |-> 0]
    /\ size = [t \in Callers |-> 0]
    /\ outcome = [t \in Callers |-> "none"]
    /\ awaiting = {}
    /\ replies = [t \in Callers |-> <<>>]
    /\ inbox = [a \in Atoms |-> <<>>]
    /\ outbox = [a \in Atoms |-> <<>>]
    /\ executed = {}

-----------------------------------------------------------------------------
(* A call takes a session ... *)

Ends(t, how) == outcome' = [outcome EXCEPT ![t] = how]

RetryBegin(t) ==                                                   \* mutant
    /\ Acquire(t)
    /\ \/ call[t] < MaxCalls /\ call' = [call EXCEPT ![t] = @ + 1]
       \/ outcome[t] = "raised" /\ UNCHANGED call
    /\ \E n \in 0..MaxGroups : size' = [size EXCEPT ![t] = n]
    /\ Ends(t, "none")
    /\ replies' = [replies EXCEPT ![t] = <<>>]
    /\ UNCHANGED <<awaiting, wireVars>>

Begin(t) ==
    /\ call[t] < MaxCalls
    /\ Acquire(t)
    /\ call' = [call EXCEPT ![t] = @ + 1]
    /\ \E n \in 0..MaxGroups : size' = [size EXCEPT ![t] = n]
    /\ Ends(t, "none")
    /\ replies' = [replies EXCEPT ![t] = <<>>]
    /\ UNCHANGED <<awaiting, wireVars>>

Refused(t) ==
    /\ Refuse(t)
    /\ call' = [call EXCEPT ![t] = @ + 1]
    /\ Ends(t, "raised")
    /\ replies' = [replies EXCEPT ![t] = <<>>]
    /\ UNCHANGED <<size, awaiting, wireVars>>

\* acquire() goes on.
Proceed(t) ==
    /\ Resume(t) \/ DiscardDone(t) \/ OpenOk(t)
    /\ UNCHANGED <<callVars, wireVars>>

\* acquire() raises.
NoSession(t) ==
    /\ \/ GiveUp(t) \/ GiveUpGranted(t) \/ DiscardCancelled(t) \/ OpenFail(t)
       \/ AbandonDone(t)
    /\ Ends(t, "raised")
    /\ UNCHANGED <<call, size, awaiting, replies, wireVars>>

LoggedInEarly(t) ==                                                \* mutant
    /\ LoginOk(t)
    /\ t \notin awaiting
    /\ replies' = [replies EXCEPT ![t] = <<>>]
    /\ UNCHANGED <<call, size, outcome, awaiting, wireVars>>

LoggedIn(t) ==
    /\ LoginOk(t)
    /\ t \notin awaiting
    /\ Len(replies[t]) = LoginTrips
    /\ replies' = [replies EXCEPT ![t] = <<>>]
    /\ UNCHANGED <<call, size, outcome, awaiting, wireVars>>

\* send() raises or is cancelled, or its reply does not parse or is a refusal.
LoginBroken(t) ==
    /\ t \in awaiting
    /\ LoginFail(t)
    /\ awaiting' = awaiting \ {t}
    /\ replies' = [replies EXCEPT ![t] = <<>>]
    /\ UNCHANGED <<call, size, outcome, wireVars>>

-----------------------------------------------------------------------------
(* ... makes its round trips on it, those of the login included ... *)

Reached(a) == conn[a] \in {"fresh", "stale"}

SendAhead(t) ==                                                    \* mutant
    /\ pc[t] \in {"login", "using"}
    /\ t \notin awaiting
    /\ Len(replies[t]) < Trips(t)
    /\ inbox' = IF Reached(held[t])
                 THEN [inbox EXCEPT ![held[t]] =
                         @ \o <<Document(t, Len(replies[t]) + 1),
                                Document(t, Len(replies[t]) + 2)>>]
                 ELSE inbox
    /\ awaiting' = awaiting \cup {t}
    /\ UNCHANGED <<vars, call, size, outcome, replies, outbox, executed>>

\* The next document; one written to a connection that is gone is lost.
Send(t) ==
    /\ pc[t] \in {"login", "using"}
    /\ t \notin awaiting
    /\ Len(replies[t]) < Trips(t)
    /\ inbox' = IF Reached(held[t])
                 THEN [inbox EXCEPT ![held[t]] =
                         Append(@, Document(t, Len(replies[t]) + 1))]
                 ELSE inbox
    /\ awaiting' = awaiting \cup {t}
    /\ UNCHANGED <<vars, call, size, outcome, replies, outbox, executed>>

\* What the reader holds survives the end of the connection.
Receive(t) ==
    /\ pc[t] \in {"login", "using"}
    /\ t \in awaiting
    /\ outbox[held[t]] # <<>>
    /\ replies' = [replies EXCEPT ![t] = Append(@, Head(outbox[held[t]]))]
    /\ outbox' = [outbox EXCEPT ![held[t]] = Tail(@)]
    /\ awaiting' = awaiting \ {t}
    /\ UNCHANGED <<vars, call, size, outcome, inbox, executed>>

\* The server works on its own pace, also on what a lost connection left it.
Execute(a) ==
    /\ inbox[a] # <<>>
    /\ executed' = executed \cup {Head(inbox[a])}
    /\ inbox' = [inbox EXCEPT ![a] = Tail(@)]
    /\ outbox' = IF Reached(a)
                  THEN [outbox EXCEPT ![a] = Append(@, Head(inbox[a]))]
                  ELSE outbox
    /\ UNCHANGED <<vars, callVars>>

-----------------------------------------------------------------------------
(* ... and gives it back. *)

FinishEarly(t) ==                                                  \* mutant
    /\ t \notin awaiting
    /\ Release(t, TRUE)
    /\ IF pc'[t] = "out" THEN Ends(t, "returned") ELSE UNCHANGED outcome
    /\ UNCHANGED <<call, size, awaiting, replies, wireVars>>

\* The block ends with a reply to each document.  command() returns at once
\* if the session goes back to the idle queue, otherwise after its close().
Complete(t) ==
    /\ t \notin awaiting
    /\ Len(replies[t]) = size[t]
    /\ Release(t, TRUE)
    /\ IF pc'[t] = "out" THEN Ends(t, "returned") ELSE UNCHANGED outcome
    /\ UNCHANGED <<call, size, awaiting, replies, wireVars>>

FailStillWaiting(t) ==                                             \* mutant
    /\ t \in awaiting
    /\ Release(t, FALSE)
    /\ UNCHANGED <<call, size, outcome, awaiting, replies, wireVars>>

FailIfGone(t) ==                                                   \* mutant
    /\ t \in awaiting
    /\ ~Reached(held[t])
    /\ Release(t, FALSE)
    /\ awaiting' = awaiting \ {t}
    /\ UNCHANGED <<call, size, outcome, replies, wireVars>>

\* send() raises or is cancelled, its reply does not parse, or to_xml() raises
\* before a document is sent.
Fail(t) ==
    /\ t \in awaiting \/ Len(replies[t]) < size[t]
    /\ Release(t, FALSE)
    /\ awaiting' = awaiting \ {t}
    /\ UNCHANGED <<call, size, outcome, replies, wireVars>>

\* The session is closed: the call returns or goes on raising.
GivenBack(t) ==
    /\ ReturnDone(t)
    /\ Ends(t, IF held[t] \in spoiled THEN "raised" ELSE "returned")
    /\ UNCHANGED <<call, size, awaiting, replies, wireVars>>

\* Cancelled while it gives the session back: the replies it has are lost.
GivenBackCancelled(t) ==
    /\ ReturnCancelled(t)
    /\ Ends(t, "raised")
    /\ UNCHANGED <<call, size, awaiting, replies, wireVars>>

-----------------------------------------------------------------------------

CallStep(t) ==
    \/ Begin(t) \/ Refused(t) \/ Proceed(t) \/ NoSession(t)
    \/ LoggedIn(t) \/ LoginBroken(t) \/ Send(t) \/ Receive(t)
    \/ Complete(t) \/ Fail(t) \/ GivenBack(t) \/ GivenBackCancelled(t)

\* close() and the end of a connection touch no call and no document.
PoolStep ==
    /\ \/ \E k \in Closers : CloserStep(k)
       \/ \E a \in Atoms : Drop(a) \/ Expire(a)
    /\ UNCHANGED <<callVars, wireVars>>

\* Every caller has made its calls; the server may be idle for good.
Ended ==
    /\ \A t \in Callers : \/ pc[t] = "refused"
                          \/ pc[t] = "out" /\ call[t] = MaxCalls
    /\ UNCHANGED allVars

CallsNext ==
    \/ \E t \in Callers : CallStep(t)
    \/ \E a \in Atoms : Execute(a)
    \/ PoolStep
    \/ Ended

CallsSpec == CallsInit /\ [][CallsNext]_allVars

\* The event loop runs what was woken, closes end, connecting and each read
\* are bounded by their timeouts, and a write ends (drain() has no timeout).
\* Nothing is assumed of the server, of acquire_timeout and of close(), nor that
\* a block raises where it does not wait.
CallsFairness ==
    \A t \in Callers :
        /\ WF_allVars(Resume(t) /\ Proceed(t))
        /\ WF_allVars(DiscardDone(t) /\ Proceed(t))
        /\ WF_allVars((OpenOk(t) /\ Proceed(t)) \/ (OpenFail(t) /\ NoSession(t)))
        /\ WF_allVars(AbandonDone(t) /\ NoSession(t))
        /\ WF_allVars(Send(t))
        /\ WF_allVars(Receive(t) \/ LoginBroken(t) \/ (t \in awaiting /\ Fail(t)))
        /\ WF_allVars(LoggedIn(t) \/ Complete(t))
        /\ WF_allVars(GivenBack(t))

CallsFairSpec == CallsSpec /\ CallsFairness

-----------------------------------------------------------------------------
(* Properties *)

\* The type invariant of the calls and of the documents.
CallsTypeOK ==
    /\ call \in [Callers -> Nat]
    /\ size \in [Callers -> 0..MaxGroups]
    /\ outcome \in [Callers -> {"none", "returned", "raised"}]
    /\ awaiting \in SUBSET {t \in Callers : pc[t] \in {"login", "using"}}
    /\ replies \in [Callers -> Seq(Documents)]
    /\ inbox \in [Atoms -> Seq(Documents)]
    /\ outbox \in [Atoms -> Seq(Documents)]
    /\ executed \in SUBSET Documents

IsAnswer(d, t, i) == /\ d.caller = t /\ d.call = call[t]
                     /\ d.kind = KindOf(t) /\ d.step = i

\* Replies carry no name of their request and sessions are shared, yet a
\* caller only ever takes the reply to the document it sent last: a session
\* on which a reply is still owed never reaches another caller.
OwnReplies ==
    \A t \in Callers : \A i \in 1..Len(replies[t]) : IsAnswer(replies[t][i], t, i)

Unexecuted == UNION {ToSet(inbox[a]) : a \in Atoms}

\* A document, whatever session it was sent on.
Name(d) == [caller |-> d.caller, call |-> d.call, kind |-> d.kind, step |-> d.step]

\* A document that reached the server is never sent again, neither on another
\* session nor on its own, whatever failed on the way: no command, and no step
\* of a login, is executed twice.
ExecutedOnce ==
    /\ \A d, e \in Unexecuted \cup executed : Name(d) = Name(e) => d.atom = e.atom
    /\ Unexecuted \cap executed = {}
    /\ \A a \in Atoms : IsInjective(inbox[a])

\* The server executes no command on a session whose login it has not
\* executed to its last step, whoever made the session and whoever has it.
LoggedInFirst ==
    \A d \in executed :
       d.kind = "group" =>
          \A i \in 1..LoginTrips :
             \E l \in executed : l.kind = "login" /\ l.step = i /\ l.atom = d.atom

\* When a call raises, at most one of its documents may have been executed,
\* or be executed later, without a reply.
OneInDoubt ==
    \A t \in Callers :
       outcome[t] = "raised" =>
          \A d \in Unexecuted \cup executed :
             d.caller = t /\ d.call = call[t] /\ d.kind = "group"
             => d.step <= Len(replies[t]) + 1

ServiceView(d) == [caller |-> d.caller, call |-> d.call, step |-> d.step]
ServiceDocs(S) == {ServiceView(d) : d \in {e \in S : e.kind = "group"}}
ServiceReplies(t) ==
    IF pc[t] = "login" THEN <<>>
    ELSE [i \in 1..Len(replies[t]) |-> ServiceView(replies[t][i])]

Service == INSTANCE CommandService WITH
    replies   <- [t \in Callers |-> ServiceReplies(t)],
    submitted <- ServiceDocs(Unexecuted \cup executed),
    executed  <- ServiceDocs(executed)

\* The calls over the pool implement CommandService: pool, logins and
\* sessions are invisible, each document is executed at most once, and a call
\* returns only with the reply to each of its documents.
ImplementsService == Service!Spec

\* Every call ends, with its results or an error, even if the server never
\* answers and acquire_timeout never fires: no caller waits for a slot whose
\* holder waits for ever, through any mixture of broken logins, dead sessions,
\* failed sends, cancellations and a close().  That a write ends is assumed:
\* drain() has no timeout (tcp_session.py:143), and a peer that stops reading
\* can hold a call, and those behind it, for ever.
EveryCallEnds ==
    \A t \in Callers : Service!Running(t) ~> ~Service!Running(t)
=============================================================================

---------------------------- MODULE CommandBatch ----------------------------
(***************************************************************************)
(* A call of command(), of the pooled client (client.py) or of the session *)
(* client (session_client.py), and the requester that lines the responses  *)
(* of the server up with the commands (requester.py).                      *)
(*                                                                         *)
(* A batch is sent in groups of Limit commands, one document each, over    *)
(* one session.  The server works a group off in order and answers with    *)
(* one document; it may stop at a command that fails, and it may still be  *)
(* at work when the client has given up on the reply.                      *)
(***************************************************************************)
EXTENDS Integers, SequencesExt

CONSTANTS
    MaxBatch,  \* bound: commands in a batch
    Limit      \* commands in one document, 15 in the code

ASSUME BatchAssumption == MaxBatch \in Nat /\ Limit \in Nat \ {0}

VARIABLES
    soap,       \* the session is a SOAP session, else a TCP session
    batch,      \* number of commands in the call; a command is its position
    override,   \* the caller gave one response_type for all
    next,       \* first command of the group in flight, or to be sent next
    pc,         \* "ready" between groups, "waiting" for a reply, or the end
    error,      \* what command() raised
    results,    \* all_results
    inbox,      \* commands the server has received and not executed
    executed,   \* commands the server executed
    responses,  \* its responses to the group in flight
    short       \* history: a reply with fewer responses than commands was taken

callVars == <<soap, batch, override>>
clientVars == <<next, pc, error, results, short>>
serverVars == <<inbox, executed, responses>>
vars == <<soap, batch, override, next, pc, error, results, inbox, executed,
          responses, short>>

Commands == 1..MaxBatch

\* "untyped" has no xsi:type, "empty" is a command element with nothing in it.
Outcomes == {"ok", "ErrorResponse", "untyped", "empty"}
Responses == [command : Commands, outcome : Outcomes]

\* A class is the number of the command it is the _response_cls of, ...
ErrorClass == -1  \* ... ErrorResponse ...
GivenClass == 0   \* ... or the response_type of the caller.
Results == [command : Commands, outcome : {"ok", "ErrorResponse"}, as : -1..MaxBatch]

Init ==
    /\ soap \in BOOLEAN
    /\ batch \in 0..MaxBatch
    /\ override \in BOOLEAN
    /\ next = 1
    /\ pc = "ready"
    /\ error = "none"
    /\ results = <<>>
    /\ inbox = <<>> /\ executed = <<>> /\ responses = <<>>
    /\ short = FALSE

WholeGroupsOnly(first) ==                                          \* mutant
    IF first + Limit - 1 <= batch THEN Limit ELSE 0

FullGroupsAlways(first) == Limit                                   \* mutant

\* itertools.batched: full groups, then what is left.
GroupSize(first) ==
    IF first + Limit - 1 <= batch THEN Limit ELSE batch - first + 1

-----------------------------------------------------------------------------
(* The errors of send() *)

\* httpx.ConnectTimeout and httpx.ConnectError come before a byte is written.
Unsent == {"ConnectTimeout", "ConnectError"}
TimeoutException == {"ConnectTimeout", "ReadTimeout", "WriteTimeout"}
NetworkError == {"ConnectError", "ReadError", "WriteError"}
HttpErrors == {"HTTPStatusError", "RemoteProtocolError", "NoReturnElement"}
                 \cup TimeoutException \cup NetworkError
SocketErrors == {"ConnectionResetError", "BrokenPipeError", "RuntimeError", "TimeoutError"}

CatchesNetworkError(e) ==                                          \* mutant
    CASE e = "HTTPStatusError" -> "MErrorHttpStatus"
      [] e \in TimeoutException -> "MErrorHttpTimeout"
      [] e \in NetworkError -> "MErrorHttpInitialisation"
      [] e = "NoReturnElement" -> "MErrorMalformedResponse"
      [] e = "TimeoutError" -> "MErrorSocketTimeout"
      [] e \in SocketErrors \ {"TimeoutError"} -> "MErrorSocketDropped"
      [] OTHER -> "MErrorHttpDropped"

\* The except clauses, the first that fits, and the end of unwrap_soap().
Translated(e) ==
    CASE e = "HTTPStatusError" -> "MErrorHttpStatus"
      [] e \in TimeoutException -> "MErrorHttpTimeout"
      [] e = "ConnectError" -> "MErrorHttpInitialisation"
      [] e = "NoReturnElement" -> "MErrorMalformedResponse"
      [] e = "TimeoutError" -> "MErrorSocketTimeout"
      [] e \in SocketErrors \ {"TimeoutError"} -> "MErrorSocketDropped"
      [] OTHER -> "MErrorHttpDropped"

-----------------------------------------------------------------------------
(* command() and send() *)

SendGroup ==
    /\ pc = "ready"
    /\ next <= batch /\ GroupSize(next) > 0
    /\ pc' = "waiting"
    /\ inbox' = [i \in 1..GroupSize(next) |-> next + i - 1]
    /\ responses' = <<>>
    /\ UNCHANGED <<callVars, next, error, results, executed, short>>

\* The group is not sent: httpx opens a connection for each request it needs.
NotConnected(e) ==
    /\ soap
    /\ pc = "ready"
    /\ next <= batch /\ GroupSize(next) > 0
    /\ e \in Unsent
    /\ pc' = "raised"
    /\ error' = Translated(e)
    /\ responses' = <<>>
    /\ UNCHANGED <<callVars, next, results, inbox, executed, short>>

\* No group is left; an empty batch sends nothing.
Finish ==
    /\ pc = "ready"
    /\ next > batch \/ GroupSize(next) = 0
    /\ pc' = "returned"
    /\ UNCHANGED <<callVars, next, error, results, serverVars, short>>

Fail(kind) ==
    /\ pc' = "raised"
    /\ error' = kind
    /\ UNCHANGED <<callVars, next, results, serverVars, short>>

SendGroupAgain(e) ==                                               \* mutant
    /\ pc = "waiting"
    /\ pc' = "ready"
    /\ UNCHANGED <<callVars, next, error, results, serverVars, short>>

\* The session raises: a timeout, a lost connection, an HTTP status, or a
\* reply that is no SOAP reply, while the server may have executed nothing, a
\* part or all of the group.
TransportFails(e) ==
    /\ pc = "waiting"
    /\ e \in (IF soap THEN HttpErrors \ Unsent ELSE SocketErrors)
    /\ Fail(Translated(e))

\* The reply is not XML.  xmltodict raises, and nothing translates it.
ReplyGarbled ==
    /\ pc = "waiting"
    /\ Fail("ExpatError")

\* What parse_response() accepts: a lone command element is taken without a
\* look at the size of the batch, and so are several if the response types
\* are not a list.
Aligned(count, size) ==
    \/ count = 1
    \/ count > 1 /\ (override \/ count = size)

TypeOfCall(i) == IF override THEN GivenClass ELSE i                \* mutant

\* The response type that stands beside the i-th response of the group.
ResponseType(i) == IF override THEN GivenClass ELSE next + i - 1

Parsed(r, type) ==
    [command |-> r.command, outcome |-> r.outcome,
     as |-> IF r.outcome = "ErrorResponse" THEN ErrorClass ELSE type]

\* _parse_single_response() goes through them in order and stops at the first
\* it cannot read; it takes an empty element among several for a dict.
Unreadable == {i \in DOMAIN responses : responses[i].outcome \in {"untyped", "empty"}}
ParseError ==
    IF responses[Min(Unreadable)].outcome = "empty" /\ Len(responses) > 1
    THEN "AttributeError" ELSE "MErrorMalformedResponse"

LastGroupOnly(earlier, group) == group                             \* mutant

\* all_results.extend(result)
AllResults(earlier, group) == earlier \o group

Receive ==
    /\ pc = "waiting"
    /\ inbox = <<>>
    /\ \/ /\ Aligned(Len(responses), GroupSize(next)) /\ Unreadable = {}
          /\ results' = AllResults(results,
                [i \in 1..Len(responses) |-> Parsed(responses[i], ResponseType(i))])
          /\ next' = next + GroupSize(next)
          /\ pc' = "ready"
          /\ short' = (short \/ Len(responses) < GroupSize(next))
          /\ UNCHANGED <<callVars, error, serverVars>>
       \/ /\ Aligned(Len(responses), GroupSize(next)) /\ Unreadable # {}
          /\ Fail(ParseError)
       \/ /\ ~Aligned(Len(responses), GroupSize(next))
          /\ Fail("MErrorMalformedResponse")

-----------------------------------------------------------------------------
(* The server *)

Execute(outcome) ==
    /\ inbox # <<>>
    /\ executed' = Append(executed, Head(inbox))
    /\ responses' = Append(responses, [command |-> Head(inbox), outcome |-> outcome])
    /\ inbox' = Tail(inbox)
    /\ UNCHANGED <<callVars, clientVars>>

\* It never gets the document, refuses it, or leaves a group at a command that
\* failed.
Abandon ==
    /\ inbox # <<>>
    /\ responses # <<>> => Last(responses).outcome = "ErrorResponse"
    /\ inbox' = <<>>
    /\ UNCHANGED <<callVars, clientVars, executed, responses>>

-----------------------------------------------------------------------------

Ended == pc \in {"returned", "raised"}

Terminated == Ended /\ inbox = <<>> /\ UNCHANGED vars

Next ==
    \/ SendGroup \/ Finish \/ ReplyGarbled \/ Receive
    \/ \E e \in Unsent : NotConnected(e)
    \/ \E e \in HttpErrors \cup SocketErrors : TransportFails(e)
    \/ \E outcome \in Outcomes : Execute(outcome)
    \/ Abandon
    \/ Terminated

Spec == Init /\ [][Next]_vars

-----------------------------------------------------------------------------
(* Properties *)

\* The type invariant of the call and of the server's side of it.
TypeOK ==
    /\ soap \in BOOLEAN /\ override \in BOOLEAN /\ short \in BOOLEAN
    /\ batch \in 0..MaxBatch
    /\ next \in 1..(batch + 1)
    /\ pc \in {"ready", "waiting", "returned", "raised"}
    /\ error \in {"none", "MErrorHttpStatus", "MErrorHttpTimeout",
                  "MErrorHttpInitialisation", "MErrorHttpDropped",
                  "MErrorSocketTimeout", "MErrorSocketDropped",
                  "MErrorMalformedResponse", "ExpatError", "AttributeError"}
    /\ results \in Seq(Results) /\ responses \in Seq(Responses)
    /\ inbox \in Seq(1..batch) /\ executed \in Seq(1..batch)

\* Responses carry no command: they are matched by position only, across the
\* groups too.  The position is right as long as no reply with fewer responses
\* than commands was taken, whether the caller gave one response_type or none.
ResultsAligned ==
    ~short =>
        \A i \in DOMAIN results : results[i].command = i

\* A batch that returns was executed to its end and has one result for each
\* command, whatever its size is to the limit, unless a short reply was taken.
WholeBatchReturned ==
    pc = "returned" /\ ~short =>
        /\ Len(results) = batch
        /\ executed = [i \in 1..batch |-> i]

\* _parse_single_response() does not look at the xsi:type of a response that
\* is no error, so the class must come from the right command: no response is
\* decoded into the class of another one, even after a short reply was taken.
DecodedAsOwn ==
    \A i \in DOMAIN results :
       results[i].outcome = "ok" /\ ~override => results[i].as = results[i].command

\* soap_session.py:187, MErrorHttpInitialisation says "the client cannot
\* connect": nothing of the group is with the server, now or later, and whoever
\* sends it again executes nothing twice.
UnsentGroup ==
    error = "MErrorHttpInitialisation" =>
        /\ inbox = <<>>
        /\ \A i \in DOMAIN executed : executed[i] < next

\* Commands change the server: each is executed at most once and in order,
\* even if the client gave up while the server was at work.
ExecutedInOrder ==
    \A i, j \in DOMAIN executed : i < j => executed[i] < executed[j]

-----------------------------------------------------------------------------
(* What docstrings say and the code does not do. *)

\* requester.py:98-99, a reply that "carries a different number of commands
\* than the batch sent" raises: a batch that returns has all its results.
ShortReplyRaises == pc = "returned" => Len(results) = batch
=============================================================================

----------------------------- MODULE TcpSession -----------------------------
(***************************************************************************)
(* One TCP session of mercury-ocip-fast (session/tcp_session.py): how      *)
(* send() frames replies on a stream that has no frames, seen together     *)
(* with the rules of the pool for a session that is given back.            *)
(*                                                                         *)
(* A reply is four tokens: the body of the document, its end tag in two    *)
(* halves, and the newline the server writes behind it.  The stream may be *)
(* cut between any two tokens, by TCP, by read_chunk_size or by a hang-up. *)
(***************************************************************************)
EXTENDS Integers, SequencesExt

CONSTANTS
    MaxSends,  \* bound: calls of send() in the life of the session
    Chunk      \* read_chunk_size, in tokens

ASSUME TcpAssumption == MaxSends \in Nat /\ Chunk \in Nat \ {0}

VARIABLES
    tls,       \* verify_ssl: the transport is TLS
    declared,  \* the server's documents start with an XML declaration
    lease,     \* where the session is: "leased", "pooled" or "dead"
    phase,     \* where send() is parked, "ready" outside of it
    sent,      \* calls of send() so far; the number names the request
    asked,     \* the last request the server received in full
    answered,  \* the last request the server replied to
    wire,      \* tokens on their way from the server
    buffer,    \* tokens in the StreamReader
    stream,    \* state of the StreamReader: "open", "eof" or "reset"
    gone,      \* the server hung up
    closing,   \* writer.is_closing()
    content,   \* what the running send() has read
    result,    \* outcome of the last send(), "none" while it runs
    reply      \* what it returned, empty if it did not return

sessionVars == <<tls, declared, lease, sent>>
serverVars == <<asked, answered, wire, gone>>
vars == <<tls, declared, lease, phase, sent, asked, answered, wire, buffer,
          stream, gone, closing, content, result, reply>>

Token(n, part) == [req |-> n, part |-> part]
Parts == {"body", "tagHead", "tagTail", "newline"}
Tokens == [req : 1..MaxSends, part : Parts]
Document(n) == <<Token(n, "body"), Token(n, "tagHead"), Token(n, "tagTail")>>
Answer(n) == Append(Document(n), Token(n, "newline"))

IsText(token) == token.part # "newline"
Blank(s) == \A i \in DOMAIN s : ~IsText(s[i])

\* r is the document of request n behind nothing but newlines.
IsReplyTo(r, n) ==
    \E blank \in 0..Len(r) :
        /\ Len(r) = blank + 3
        /\ \A i \in 1..blank : ~IsText(r[i])
        /\ \A i \in 1..3 : r[blank + i] = Document(n)[i]

Init ==
    /\ tls \in BOOLEAN
    /\ declared \in BOOLEAN
    /\ lease = "leased"
    /\ phase = "ready"
    /\ sent = 0 /\ asked = 0 /\ answered = 0
    /\ wire = <<>> /\ buffer = <<>>
    /\ stream = "open"
    /\ gone = FALSE /\ closing = FALSE
    /\ content = <<>>
    /\ result = "none"
    /\ reply = <<>>

\* At the end of the stream only once the buffer was read to its end.
AtEof == stream = "eof" /\ buffer = <<>>
IsAlive == ~closing /\ ~AtEof

-----------------------------------------------------------------------------
(* send() *)

\* The request is written; a closing transport, or a dead peer, swallows it.
Write ==
    /\ lease = "leased" /\ phase = "ready"
    /\ sent < MaxSends
    /\ sent' = sent + 1
    /\ asked' = IF closing \/ gone THEN asked ELSE sent + 1
    /\ phase' = "draining"
    /\ content' = <<>>
    /\ result' = "none"
    /\ reply' = <<>>
    /\ UNCHANGED <<tls, declared, lease, answered, wire, buffer, stream, gone, closing>>

Drained ==
    /\ phase = "draining"
    /\ stream # "reset"
    /\ phase' = "reading"
    /\ UNCHANGED <<sessionVars, serverVars, buffer, stream, closing, content,
                   result, reply>>

\* send() raises, so the caller's block does, and the pool closes the session.
Raise ==
    /\ phase' = "ready"
    /\ result' = "raised"
    /\ lease' = "dead"
    /\ closing' = TRUE
    /\ UNCHANGED <<tls, declared, sent, serverVars, buffer, stream, content, reply>>

RaiseAndStay ==                                                    \* mutant
    /\ phase' = "ready"
    /\ result' = "raised"
    /\ UNCHANGED <<sessionVars, serverVars, buffer, stream, closing, content, reply>>

WriteAgain ==                                                      \* mutant
    /\ phase = "draining"
    /\ closing \/ stream = "reset"
    /\ asked' = asked + 1
    /\ UNCHANGED <<sessionVars, phase, answered, wire, gone, buffer, stream, closing,
                   content, result, reply>>

\* drain() or read() finds the connection lost: MErrorSocketDropped.
DrainLost ==
    /\ phase = "draining"
    /\ closing \/ stream = "reset"
    /\ Raise

ReadLost ==
    /\ phase = "reading"
    /\ stream = "reset"
    /\ Raise

CancelKeepsSession ==                                              \* mutant
    /\ phase \in {"draining", "reading"}
    /\ RaiseAndStay

Cancelled ==
    /\ phase \in {"draining", "reading"}
    /\ Raise

TimeoutKeepsSession ==                                             \* mutant
    /\ phase = "reading"
    /\ stream = "open"
    /\ RaiseAndStay

\* read_timeout passed since the last chunk: MErrorSocketTimeout.  At the end
\* of the stream a read never waits.
ReadTimeout ==
    /\ phase = "reading"
    /\ stream = "open"
    /\ Raise

\* content.rstrip(b"\n"); at most one newline stands at the end.
Stripped(c) == IF c # <<>> /\ ~IsText(Last(c)) THEN Front(c) ELSE c

\* The parser takes one whole document, and nothing before its declaration.
Parses(r) ==
    /\ \E n \in 1..sent : IsReplyTo(r, n)
    /\ declared => IsText(r[1])

ReturnAndStay(c) ==                                                \* mutant
    /\ phase' = "ready"
    /\ content' = c
    /\ reply' = Stripped(c)
    /\ result' = IF Parses(Stripped(c)) THEN "accepted" ELSE "rejected"
    /\ UNCHANGED <<lease, closing>>

\* send() returns what it read; a reply that does not parse raises in the
\* requester, and the pool closes the session.
Return(c) ==
    /\ phase' = "ready"
    /\ content' = c
    /\ reply' = Stripped(c)
    /\ \/ /\ Parses(Stripped(c))
          /\ result' = "accepted"
          /\ UNCHANGED <<lease, closing>>
       \/ /\ ~Parses(Stripped(c))
          /\ result' = "rejected"
          /\ lease' = "dead"
          /\ closing' = TRUE

HasEndTag(c) ==
    \E i \in 1..(Len(c) - 1) : c[i].part = "tagHead" /\ c[i + 1].part = "tagTail"

EndSeenInChunk(before, chunk) == HasEndTag(chunk)                  \* mutant

\* The end tag is looked for in all that was read, so it may span two chunks.
EndSeen(before, chunk) == HasEndTag(before \o chunk)

ReadChunk ==
    /\ phase = "reading"
    /\ stream # "reset"
    /\ buffer # <<>>
    /\ \E size \in 1..Chunk :
          /\ size = Chunk \/ size = Len(buffer)
          /\ size <= Len(buffer)
          /\ LET chunk == SubSeq(buffer, 1, size)
             IN  /\ buffer' = SubSeq(buffer, size + 1, Len(buffer))
                 /\ IF EndSeen(content, chunk)
                    THEN Return(content \o chunk)
                    ELSE /\ content' = content \o chunk
                         /\ UNCHANGED <<phase, lease, closing, result, reply>>
    /\ UNCHANGED <<tls, declared, sent, serverVars, stream>>

ReadAgainAtEof == FALSE /\ UNCHANGED vars                          \* mutant

\* An empty chunk ends the loop: what was read so far is returned.
ReadAtEof ==
    /\ phase = "reading"
    /\ AtEof
    /\ Return(content)
    /\ UNCHANGED <<tls, declared, sent, serverVars, buffer, stream>>

-----------------------------------------------------------------------------
(* The pool: release() and acquire() look at is_alive() of this session. *)

Retire ==
    /\ lease' = "dead"
    /\ closing' = TRUE

GiveBack ==
    /\ lease = "leased" /\ phase = "ready"
    /\ \/ IsAlive /\ lease' = "pooled" /\ UNCHANGED closing
       \/ ~IsAlive /\ Retire
    /\ UNCHANGED <<tls, declared, phase, sent, serverVars, buffer, stream, content,
                   result, reply>>

Lend ==
    /\ lease = "pooled"
    /\ \/ IsAlive /\ lease' = "leased" /\ UNCHANGED closing
       \/ ~IsAlive /\ Retire
    /\ UNCHANGED <<tls, declared, phase, sent, serverVars, buffer, stream, content,
                   result, reply>>

\* close() of the pool, which does not ask the caller that is in send().
PoolCloses ==
    /\ lease # "dead" /\ ~closing
    /\ closing' = TRUE
    /\ lease' = IF lease = "pooled" THEN "dead" ELSE lease
    /\ UNCHANGED <<tls, declared, phase, sent, serverVars, buffer, stream, content,
                   result, reply>>

-----------------------------------------------------------------------------
(* The server and the network *)

Serve ==
    /\ ~gone
    /\ answered < asked
    /\ answered' = answered + 1
    /\ wire' = wire \o Answer(answered + 1)
    /\ UNCHANGED <<sessionVars, phase, asked, gone, buffer, stream, closing, content,
                   result, reply>>

Arrive ==
    /\ wire # <<>>
    /\ stream = "open"
    /\ buffer' = Append(buffer, Head(wire))
    /\ wire' = Tail(wire)
    /\ UNCHANGED <<sessionVars, phase, asked, answered, gone, stream, closing, content,
                   result, reply>>

\* The server closes in order, possibly before all of a reply was written.
HangUp ==
    /\ ~gone
    /\ gone' = TRUE
    /\ \E n \in 0..Len(wire) : wire' = SubSeq(wire, 1, n)
    /\ UNCHANGED <<sessionVars, phase, asked, answered, buffer, stream, closing, content,
                   result, reply>>

\* EOF from the peer, or from our own close().  A TLS transport closes on it,
\* a plain one stays half open.
FeedEof ==
    /\ stream = "open"
    /\ closing \/ (gone /\ wire = <<>>)
    /\ stream' = "eof"
    /\ closing' = (closing \/ tls)
    /\ UNCHANGED <<sessionVars, phase, serverVars, buffer, content, result, reply>>

Reset ==
    /\ stream = "open"
    /\ stream' = "reset"
    /\ gone' = TRUE
    /\ closing' = TRUE
    /\ wire' = <<>>
    /\ UNCHANGED <<sessionVars, phase, asked, answered, buffer, content, result, reply>>

-----------------------------------------------------------------------------

\* The session is closed and nobody uses it any more.
Terminated == lease = "dead" /\ UNCHANGED vars

Next ==
    \/ Write \/ Drained \/ DrainLost \/ Cancelled
    \/ ReadChunk \/ ReadAtEof \/ ReadLost \/ ReadTimeout
    \/ GiveBack \/ Lend \/ PoolCloses
    \/ Serve \/ Arrive \/ HangUp \/ FeedEof \/ Reset
    \/ Terminated

Spec == Init /\ [][Next]_vars

\* The event loop runs a reader that has data or an error, and the timer of
\* wait_for fires.  Nothing is assumed of the server, and nothing of drain(),
\* which has no timeout.
FairSpec ==
    /\ Spec
    /\ WF_vars(ReadChunk) /\ WF_vars(ReadAtEof)
    /\ WF_vars(ReadLost) /\ WF_vars(ReadTimeout)

-----------------------------------------------------------------------------
(* Properties *)

\* The type invariant of the session, its stream and its server.
TypeOK ==
    /\ tls \in BOOLEAN /\ declared \in BOOLEAN
    /\ gone \in BOOLEAN /\ closing \in BOOLEAN
    /\ lease \in {"leased", "pooled", "dead"}
    /\ phase \in {"ready", "draining", "reading"}
    /\ stream \in {"open", "eof", "reset"}
    /\ result \in {"none", "accepted", "rejected", "raised"}
    /\ sent \in 0..MaxSends /\ asked \in 0..sent /\ answered \in 0..asked
    /\ wire \in Seq(Tokens) /\ buffer \in Seq(Tokens)
    /\ content \in Seq(Tokens) /\ reply \in Seq(Tokens)

\* A send that is answered is answered with its own document, whatever was
\* cut, timed out, cancelled or left over on the stream before it.
OwnReply == result = "accepted" => IsReplyTo(reply, sent)

\* send() does not go on reading once the document is there in full, however
\* its end tag is spread over the chunks.
NoReadPastEnd == phase = "reading" => ~IsReplyTo(Stripped(content), sent)

\* A session in the pool owes nothing: each request that was written is
\* answered and read, and no piece of a document is on its way.
QuietInPool ==
    lease = "pooled" => /\ Blank(buffer \o wire)
                        /\ answered = asked

\* Where the session stands, and the request that the document it accepted
\* last belongs to.
State == CASE lease = "dead" -> "over"
           [] lease # "dead" /\ phase = "ready" -> "ready"
           [] OTHER -> "waiting"
Taken == IF result = "accepted" THEN Last(reply).req ELSE 0

Trips == INSTANCE RoundTrips WITH
    requests <- sent, delivered <- asked, served <- answered, taken <- Taken, state <- State

\* Seen by its users one after the other, whoever they are, the session makes
\* one round trip at a time: nothing is owed when a request is written, each
\* reply that is taken is the one to that request, and a request that fails is
\* the last (tcp_session.py:115-189, session_pool.py:128-134 and 206-219).
ImplementsRoundTrips == Trips!Spec

\* A read always comes to an end, by data, end of stream, error or timeout.
ReadEnds == phase = "reading" ~> phase # "reading"

-----------------------------------------------------------------------------
(* What docstrings and a test say and the code does not do. *)

\* tcp_session.py:131-133, send() raises MErrorSocketDropped "If the
\* connection stops during the write or the read": what it returns is whole.
ReturnsWholeReply ==
    result \in {"accepted", "rejected"} => HasEndTag(reply)

\* test_tcp_session.py:16 and 43, a document that the server ends with a
\* newline is returned as the document alone: no whole reply holds a newline.
ReplyIsDocumentAlone == HasEndTag(reply) => \A i \in DOMAIN reply : IsText(reply[i])
=============================================================================

-------------------------- MODULE TcpSessionProofs --------------------------
(***************************************************************************)
(* TcpSession for any number of requests and any size of a chunk: the      *)
(* tokens of a session that may still be used are one piece of one line,   *)
(* the newline the last document left behind and the answer to the request *)
(* in flight.                                                              *)
(***************************************************************************)
EXTENDS TcpSession, SequenceFacts

-----------------------------------------------------------------------------
(* The inductive invariant.                                                *)

\* The request whose answer is the next thing to come.
Awaited == IF phase = "ready" THEN sent + 1 ELSE sent

PartAt == <<"newline", "body", "tagHead", "tagTail", "newline">>

\* The newline behind document n - 1, document n and the newline behind it.
Line(n, k) == [req |-> IF k = 1 THEN n - 1 ELSE n, part |-> PartAt[k]]

\* s is what follows the first k tokens of the line.
Follows(s, n, k) == \A i \in 1..Len(s) : s[i] = Line(n, k + i)

Read == IF phase = "ready" THEN 0 ELSE Len(content)

\* content, buffer and wire continue each other from position skip of the
\* line, up to where the server has come; a read stops at the end tag.
InLine(skip) ==
    /\ phase # "ready" => Follows(content, Awaited, skip)
    /\ Follows(buffer, Awaited, skip + Read)
    /\ Follows(wire, Awaited, skip + Read + Len(buffer))
    /\ skip + Read + Len(buffer) + Len(wire) <= IF answered = Awaited THEN 5 ELSE 1
    /\ phase = "draining" => content = <<>>
    /\ phase = "reading" => skip + Read <= 3

InStep ==
    /\ phase # "ready" => lease = "leased"
    /\ lease # "dead" =>
        /\ answered >= Awaited - 1
        /\ \E skip \in {0, 1} : InLine(skip)

IInv == TypeOK /\ InStep /\ OwnReply

-----------------------------------------------------------------------------
(* Facts about pieces of the stream.                                       *)

\* A chunk and what it leaves behind.
LEMMA Cut ==
    ASSUME NEW s \in Seq(Tokens), NEW size \in 0..Len(s)
    PROVE  /\ SubSeq(s, 1, size) \in Seq(Tokens)
           /\ SubSeq(s, size + 1, Len(s)) \in Seq(Tokens)
           /\ Len(SubSeq(s, 1, size)) = size
           /\ Len(SubSeq(s, size + 1, Len(s))) = Len(s) - size
           /\ \A i \in 1..size : SubSeq(s, 1, size)[i] = s[i]
           /\ \A i \in 1..(Len(s) - size) :
                 SubSeq(s, size + 1, Len(s))[i] = s[size + i]
    <1>1. Len(s) \in Nat /\ \A i \in 1..Len(s) : s[i] \in Tokens
        BY LenProperties, ElementOfSeq
    <1>2. \A i \in 1..size : i \in 1..Len(s)
        BY <1>1
    <1>3. /\ SubSeq(s, 1, size) \in Seq(Tokens)
          /\ Len(SubSeq(s, 1, size)) = size
          /\ \A i \in 1..size : SubSeq(s, 1, size)[i] = s[i]
        BY <1>1, <1>2, SubSeqProperties
    <1>4. /\ SubSeq(s, size + 1, Len(s)) \in Seq(Tokens)
          /\ Len(SubSeq(s, size + 1, Len(s))) = Len(s) - size
          /\ \A i \in 1..(Len(s) - size) :
                SubSeq(s, size + 1, Len(s))[i] = s[size + i]
        BY <1>1, SubSeqProperties
    <1>. QED  BY <1>3, <1>4

\* Two pieces that continue each other make one.
LEMMA Joined ==
    ASSUME NEW s \in Seq(Tokens), NEW t \in Seq(Tokens), NEW n, NEW k \in Nat,
           Follows(s, n, k), Follows(t, n, k + Len(s))
    PROVE  /\ s \o t \in Seq(Tokens)
           /\ Len(s \o t) = Len(s) + Len(t)
           /\ Follows(s \o t, n, k)
    <1>1. /\ s \o t \in Seq(Tokens)
          /\ Len(s \o t) = Len(s) + Len(t)
          /\ Len(s) \in Nat /\ Len(t) \in Nat
          /\ \A i \in 1..(Len(s) + Len(t)) :
                (s \o t)[i] = IF i <= Len(s) THEN s[i] ELSE t[i - Len(s)]
        BY ConcatProperties, LenProperties
    <1>2. ASSUME NEW i \in 1..(Len(s) + Len(t))
          PROVE  (s \o t)[i] = Line(n, k + i)
        <2>1. CASE i <= Len(s)
            BY <1>1, <2>1 DEF Follows
        <2>2. CASE i > Len(s)
            <3>1. i - Len(s) \in 1..Len(t) /\ k + Len(s) + (i - Len(s)) = k + i
                BY <1>1, <2>2
            <3>2. t[i - Len(s)] = Line(n, k + Len(s) + (i - Len(s)))
                BY <3>1 DEF Follows
            <3>. QED  BY <1>1, <2>2, <3>1, <3>2
        <2>. QED  BY <1>1, <2>1, <2>2
    <1>. QED  BY <1>1, <1>2 DEF Follows

\* rstrip takes at most the last token.
LEMMA StrippedFacts ==
    ASSUME NEW c \in Seq(Tokens)
    PROVE  /\ Stripped(c) \in Seq(Tokens)
           /\ Len(Stripped(c)) <= Len(c)
           /\ \A i \in 1..Len(Stripped(c)) : Stripped(c)[i] = c[i]
    <1>1. CASE c # <<>> /\ ~IsText(Last(c))
        BY <1>1, FrontFacts DEF Stripped
    <1>2. CASE ~(c # <<>> /\ ~IsText(Last(c)))
        BY <1>2, LenProperties DEF Stripped
    <1>. QED  BY <1>1, <1>2

\* A piece of a line that holds a document of any request holds the line's
\* own, and reaches to the end tag.
LEMMA PieceHoldsOwn ==
    ASSUME NEW r \in Seq(Tokens), NEW n \in Nat, NEW m \in Nat, NEW k \in {0, 1},
           Follows(r, n, k), k + Len(r) <= 5, IsReplyTo(r, m)
    PROVE  m = n /\ k + Len(r) >= 4
    <1>1. PICK blank \in 0..Len(r) :
              /\ Len(r) = blank + 3
              /\ \A i \in 1..3 : r[blank + i] = Document(m)[i]
        BY DEF IsReplyTo
    <1>2. Len(r) \in Nat
        BY LenProperties
    <1>3. r[blank + 3] = Line(n, k + blank + 3) /\ blank \in 0..2
        BY <1>1, <1>2 DEF Follows
    <1>4. r[blank + 3] = [req |-> m, part |-> "tagTail"]
        BY <1>1 DEF Document, Token
    <1>5. k + blank + 3 \in 3..5
        BY <1>1, <1>2, <1>3
    <1>6. PartAt[k + blank + 3] = "tagTail"
        BY <1>3, <1>4 DEF Line
    <1>7. k + blank + 3 = 4
        BY <1>5, <1>6 DEF PartAt
    <1>. QED  BY <1>1, <1>2, <1>3, <1>4, <1>7 DEF Line

\* So does one in which the end tag is seen.
LEMMA EndTagPlace ==
    ASSUME NEW c \in Seq(Tokens), NEW n, NEW k \in {0, 1}, Follows(c, n, k),
           k + Len(c) <= 5
    PROVE  HasEndTag(c) <=> k + Len(c) >= 4
    <1>1. Len(c) \in Nat
        BY LenProperties
    <1>2. ASSUME NEW i \in 1..Len(c)
          PROVE  c[i].part = PartAt[k + i]
        <2>1. c[i] = Line(n, k + i)
            BY DEF Follows
        <2>. QED  BY <2>1 DEF Line
    <1>3. ASSUME NEW i \in 1..(Len(c) - 1), c[i + 1].part = "tagTail"
          PROVE  k + Len(c) >= 4
        BY <1>1, <1>2, <1>3 DEF PartAt
    <1>4. ASSUME k + Len(c) >= 4
          PROVE  HasEndTag(c)
        <2>1. 3 - k \in 1..(Len(c) - 1) /\ 3 - k \in 1..Len(c) /\ 3 - k + 1 \in 1..Len(c)
            BY <1>1, <1>4
        <2>2. c[3 - k].part = PartAt[3] /\ c[3 - k + 1].part = PartAt[4]
            BY <1>1, <1>2, <2>1
        <2>. QED  BY <2>1, <2>2 DEF HasEndTag, PartAt
    <1>. QED  BY <1>3, <1>4 DEF HasEndTag

-----------------------------------------------------------------------------
(* Each action keeps the invariant. *)

LEMMA WriteKeeps ==
    ASSUME IInv, Write
    PROVE  IInv'
    <1>. USE TcpAssumption DEF IInv, Write
    <1>1. TypeOK'
        <2>1. <<>> \in Seq(Tokens)
            OBVIOUS
        <2>2. sent' \in 0..MaxSends /\ asked' \in 0..sent' /\ answered' \in 0..asked'
            BY DEF TypeOK
        <2>. QED  BY <2>1, <2>2 DEF TypeOK
    <1>2. PICK skip \in {0, 1} : InLine(skip)
        BY DEF InStep
    <1>3. Awaited' = Awaited /\ Read = 0 /\ Read' = 0
        BY DEF Awaited, Read
    <1>4. InLine(skip)'
        BY <1>2, <1>3 DEF InLine, Follows
    <1>5. InStep'
        BY <1>2, <1>3, <1>4 DEF InStep
    <1>6. OwnReply'
        BY DEF OwnReply
    <1>. QED  BY <1>1, <1>5, <1>6

LEMMA DrainedKeeps ==
    ASSUME IInv, Drained
    PROVE  IInv'
    <1>. USE DEF IInv, Drained, sessionVars, serverVars
    <1>1. TypeOK' /\ OwnReply'
        BY DEF TypeOK, OwnReply
    <1>2. Awaited' = Awaited /\ Read' = Read
        BY DEF Awaited, Read
    <1>3. ASSUME NEW skip \in {0, 1}, InLine(skip)
          PROVE  InLine(skip)'
        <2>1. Read = 0
            BY <1>3 DEF InLine, Read
        <2>. QED  BY <1>2, <1>3, <2>1 DEF InLine, Follows
    <1>. QED  BY <1>1, <1>2, <1>3 DEF InStep, Awaited

LEMMA RaiseKeeps ==
    ASSUME IInv, Raise
    PROVE  IInv'
    BY DEF IInv, Raise, serverVars, TypeOK, InStep, OwnReply

\* What a read that ends leaves in the reader and on the wire is at most the
\* newline behind the document it returns.
LEMMA ReturnKeeps ==
    ASSUME IInv, phase = "reading", NEW c \in Seq(Tokens), Return(c),
           UNCHANGED <<tls, declared, sent, serverVars, stream>>,
           buffer' \in Seq(Tokens),
           NEW skip \in {0, 1},
           Follows(c, sent, skip),
           Follows(buffer', sent, skip + Len(c)),
           Follows(wire, sent, skip + Len(c) + Len(buffer')),
           skip + Len(c) + Len(buffer') + Len(wire) <= IF answered = sent THEN 5 ELSE 1
    PROVE  IInv'
    <1>. USE TcpAssumption DEF IInv, Return, serverVars
    <1>1. TypeOK'
        <2>1. Stripped(c) \in Seq(Tokens)
            BY StrippedFacts
        <2>. QED  BY <2>1 DEF TypeOK
    <1>2. CASE ~Parses(Stripped(c))
        BY <1>1, <1>2 DEF InStep, OwnReply
    <1>3. CASE Parses(Stripped(c))
        <2>1. /\ lease' = "leased" /\ phase' = "ready" /\ wire' = wire
              /\ sent \in Nat /\ answered' = answered /\ answered \in Nat
              /\ reply' = Stripped(c) /\ sent' = sent
              /\ lease = "leased"
            BY <1>3 DEF InStep, TypeOK
        <2>2. /\ Len(c) \in Nat /\ Len(buffer') \in Nat /\ Len(wire) \in Nat
              /\ Len(Stripped(c)) \in Nat /\ Stripped(c) \in Seq(Tokens)
              /\ Len(Stripped(c)) <= Len(c)
              /\ \A i \in 1..Len(Stripped(c)) : Stripped(c)[i] = c[i]
            BY StrippedFacts, LenProperties DEF TypeOK
        <2>3. PICK m \in 1..sent : IsReplyTo(Stripped(c), m)
            BY <1>3 DEF Parses
        <2>4. skip + Len(Stripped(c)) <= 5 /\ m \in Nat
            BY <2>1, <2>2
        <2>5. Follows(Stripped(c), sent, skip)
            BY <2>2 DEF Follows
        <2>6. m = sent /\ skip + Len(Stripped(c)) >= 4
            BY <2>1, <2>2, <2>3, <2>4, <2>5, PieceHoldsOwn
        <2>7. skip + Len(c) \in 4..5 /\ answered = sent
            BY <2>1, <2>2, <2>6
        <2>8. OwnReply'
            BY <2>1, <2>3, <2>6 DEF OwnReply
        <2>9. Awaited' = sent + 1 /\ Read' = 0
            BY <2>1 DEF Awaited, Read
        <2>. DEFINE rest == skip + Len(c) - 4
        <2>10. rest \in {0, 1} /\ rest + Len(buffer') + Len(wire) <= 1
            BY <2>1, <2>2, <2>7
        <2>11. \A i \in {1} : Line(sent, 4 + i) = Line(sent + 1, i)
            BY <2>1 DEF Line, PartAt
        <2>12. Follows(buffer', sent + 1, rest)
            BY <2>2, <2>10, <2>11 DEF Follows
        <2>13. Follows(wire, sent + 1, rest + Len(buffer'))
            BY <2>2, <2>10, <2>11 DEF Follows
        <2>14. InLine(rest)'
            BY <2>1, <2>2, <2>9, <2>10, <2>12, <2>13 DEF InLine
        <2>15. InStep'
            BY <2>1, <2>7, <2>9, <2>10, <2>14 DEF InStep
        <2>. QED  BY <1>1, <2>8, <2>15
    <1>. QED  BY <1>2, <1>3

\* What the session has while it reads.
LEMMA ReadingFacts ==
    ASSUME IInv, phase = "reading"
    PROVE  /\ lease = "leased" /\ Awaited = sent /\ Read = Len(content)
           /\ sent \in Nat /\ answered \in Nat
           /\ content \in Seq(Tokens) /\ buffer \in Seq(Tokens) /\ wire \in Seq(Tokens)
           /\ Len(content) \in Nat /\ Len(buffer) \in Nat /\ Len(wire) \in Nat
           /\ \E skip \in {0, 1} : InLine(skip)
    BY TcpAssumption, LenProperties DEF IInv, TypeOK, InStep, Awaited, Read

LEMMA ReadChunkKeeps ==
    ASSUME IInv, ReadChunk
    PROVE  IInv'
    <1>0. /\ phase = "reading" /\ lease = "leased" /\ Awaited = sent /\ Read = Len(content)
          /\ sent \in Nat /\ answered \in Nat
          /\ content \in Seq(Tokens) /\ buffer \in Seq(Tokens) /\ wire \in Seq(Tokens)
          /\ Len(content) \in Nat /\ Len(buffer) \in Nat /\ Len(wire) \in Nat
          /\ UNCHANGED <<tls, declared, sent, serverVars, stream>>
        BY ReadingFacts DEF ReadChunk
    <1>1. PICK skip \in {0, 1} : InLine(skip)
        BY <1>0, ReadingFacts
    <1>2. PICK size \in 1..Chunk :
              /\ size <= Len(buffer)
              /\ LET chunk == SubSeq(buffer, 1, size)
                 IN  /\ buffer' = SubSeq(buffer, size + 1, Len(buffer))
                     /\ IF EndSeen(content, chunk)
                        THEN Return(content \o chunk)
                        ELSE /\ content' = content \o chunk
                             /\ UNCHANGED <<phase, lease, closing, result, reply>>
        BY DEF ReadChunk
    <1>. DEFINE chunk == SubSeq(buffer, 1, size)
                c == content \o chunk
    <1>3. size \in 0..Len(buffer)
        BY <1>2, <1>0, TcpAssumption
    <1>4. /\ chunk \in Seq(Tokens) /\ Len(chunk) = size
          /\ buffer' \in Seq(Tokens) /\ Len(buffer') = Len(buffer) - size
          /\ \A i \in 1..size : chunk[i] = buffer[i]
          /\ \A i \in 1..(Len(buffer) - size) : buffer'[i] = buffer[size + i]
        BY <1>2, <1>3, Cut, <1>0
    <1>. HIDE DEF chunk
    <1>5. Follows(content, sent, skip) /\ Follows(chunk, sent, skip + Len(content))
        BY SMTT(30), <1>1, <1>3, <1>4, <1>0 DEF InLine, Follows
    <1>6. /\ c \in Seq(Tokens) /\ Len(c) = Len(content) + size
          /\ Follows(c, sent, skip)
        BY <1>4, <1>5, Joined, <1>0
    <1>. HIDE DEF c
    <1>7. Follows(buffer', sent, skip + Len(c))
        <2>1. ASSUME NEW i \in 1..(Len(buffer) - size)
              PROVE  buffer'[i] = Line(sent, skip + Len(c) + i)
            <3>1. /\ size + i \in 1..Len(buffer)
                  /\ skip + Len(content) + (size + i) = skip + Len(c) + i
                BY <1>3, <1>6, <1>0
            <3>2. buffer[size + i] = Line(sent, skip + Len(content) + (size + i))
                BY <1>1, <3>1, <1>0 DEF InLine, Follows
            <3>. QED  BY <1>4, <3>1, <3>2
        <2>. QED  BY <1>4, <2>1 DEF Follows
    <1>8. skip + Len(c) + Len(buffer') = skip + Len(content) + Len(buffer)
        <2>1. /\ size \in Nat /\ Len(content) \in Nat /\ Len(buffer) \in Nat
              /\ Len(c) = Len(content) + size /\ Len(buffer') = Len(buffer) - size
            BY <1>0, <1>3, <1>4, <1>6
        <2>. QED  BY ONLY <2>1
    <1>9. /\ Follows(wire, sent, skip + Len(c) + Len(buffer'))
          /\ skip + Len(c) + Len(buffer') + Len(wire) <= IF answered = sent THEN 5 ELSE 1
        BY <1>1, <1>8, <1>0 DEF InLine
    <1>10. CASE EndSeen(content, chunk)
        <2>1. Return(c) /\ UNCHANGED <<tls, declared, sent, serverVars, stream>>
            BY <1>0, <1>2, <1>10 DEF chunk, c
        <2>. QED  BY <1>4, <1>6, <1>7, <1>9, <2>1, <1>0, <1>1, ReturnKeeps
    <1>11. CASE ~EndSeen(content, chunk)
        <2>1. /\ content' = c
              /\ UNCHANGED <<phase, lease, closing, result, reply, tls, declared, sent,
                             serverVars, stream>>
            BY <1>0, <1>2, <1>11 DEF chunk, c
        <2>2. TypeOK' /\ OwnReply'
            BY <1>4, <1>6, <2>1 DEF IInv, TypeOK, OwnReply, serverVars
        <2>3. Awaited' = sent /\ Read' = Len(c) /\ Read = Len(content)
            BY <1>0, <2>1 DEF Awaited, Read
        <2>4. skip + Len(c) <= 3
            <3>1. ~HasEndTag(c)
                BY <1>11 DEF EndSeen, c
            <3>2. skip + Len(c) <= 5
                BY <1>4, <1>9, <1>6, LenProperties, <1>0
            <3>. QED  BY <1>6, <3>1, <3>2, EndTagPlace, LenProperties
        <2>5. InLine(skip)'
            BY <1>0, <1>6, <1>7, <1>9, <2>1, <2>3, <2>4 DEF InLine, serverVars
        <2>6. InStep'
            BY <2>1, <2>3, <2>5, <1>0 DEF IInv, InStep, serverVars
        <2>. QED  BY <2>2, <2>6 DEF IInv
    <1>. QED  BY <1>10, <1>11

LEMMA ReadAtEofKeeps ==
    ASSUME IInv, ReadAtEof
    PROVE  IInv'
    <1>. USE DEF ReadAtEof
    <1>1. PICK skip \in {0, 1} : InLine(skip)
        BY ReadingFacts
    <1>2. /\ Follows(content, sent, skip)
          /\ Follows(buffer, sent, skip + Len(content))
          /\ Follows(wire, sent, skip + Len(content) + Len(buffer))
          /\ skip + Len(content) + Len(buffer) + Len(wire)
                <= IF answered = sent THEN 5 ELSE 1
        BY <1>1, ReadingFacts DEF InLine
    <1>3. content \in Seq(Tokens) /\ buffer' \in Seq(Tokens) /\ buffer' = buffer
        BY ReadingFacts
    <1>. QED  BY <1>2, <1>3, ReturnKeeps

\* The pool moves the session between calls of send() only.
LEMMA PoolKeeps ==
    ASSUME IInv, GiveBack \/ Lend \/ PoolCloses
    PROVE  IInv'
    <1>. USE DEF IInv, GiveBack, Lend, PoolCloses, Retire, serverVars
    <1>1. TypeOK' /\ OwnReply'
        BY DEF TypeOK, OwnReply
    <1>2. Awaited' = Awaited /\ Read' = Read
        BY DEF Awaited, Read
    <1>3. ASSUME NEW skip \in {0, 1}, InLine(skip)
          PROVE  InLine(skip)'
        BY <1>2, <1>3 DEF InLine, Follows
    <1>. QED  BY <1>1, <1>2, <1>3 DEF InStep, TypeOK

\* An answer is the line without the newline in front.
LEMMA AnswerFacts ==
    ASSUME NEW n \in 1..MaxSends
    PROVE  /\ Answer(n) \in Seq(Tokens) /\ Len(Answer(n)) = 4
           /\ Follows(Answer(n), n, 1)
    <1>0. n \in Nat \ {0} /\ \A part \in Parts : Token(n, part) \in Tokens
        BY TcpAssumption DEF Token, Tokens
    <1>1. Document(n) \in Seq(Tokens) /\ Len(Document(n)) = 3
        BY <1>0 DEF Document, Parts
    <1>2. /\ Answer(n) \in Seq(Tokens) /\ Len(Answer(n)) = 4
          /\ \A i \in 1..3 : Answer(n)[i] = Document(n)[i]
          /\ Answer(n)[4] = Token(n, "newline")
        <2>. DEFINE d == Document(n)
                    t == Token(n, "newline")
        <2>1. Answer(n) = Append(d, t)
            BY DEF Answer
        <2>2. d \in Seq(Tokens) /\ Len(d) = 3 /\ t \in Tokens
            BY <1>0, <1>1 DEF Parts
        <2>. HIDE DEF d, t
        <2>3. /\ Append(d, t) \in Seq(Tokens) /\ Len(Append(d, t)) = 4
              /\ \A i \in 1..3 : Append(d, t)[i] = d[i]
              /\ Append(d, t)[4] = t
            BY SMTT(30), <2>2, AppendProperties
        <2>. QED  BY <2>1, <2>3 DEF d, t
    <1>3. \A i \in 1..3 : Document(n)[i] = Token(n, PartAt[1 + i])
        BY DEF Document, PartAt
    <1>4. ASSUME NEW i \in 1..4
          PROVE  Answer(n)[i] = Line(n, 1 + i)
        <2>1. Line(n, 1 + i) = Token(n, PartAt[1 + i])
            BY <1>0 DEF Line, Token
        <2>2. CASE i = 4
            BY <1>2, <2>1, <2>2 DEF PartAt
        <2>3. CASE i # 4
            BY <1>2, <1>3, <2>1, <2>3
        <2>. QED  BY <2>2, <2>3
    <1>. QED  BY <1>2, <1>4 DEF Follows

LEMMA ServeKeeps ==
    ASSUME IInv, Serve
    PROVE  IInv'
    <1>. USE TcpAssumption DEF IInv, Serve, sessionVars
    <1>. DEFINE n == answered + 1
    <1>1. /\ answered \in Nat /\ asked \in Nat /\ sent \in Nat
          /\ n \in 1..MaxSends /\ n <= asked /\ asked <= sent
          /\ wire \in Seq(Tokens) /\ Len(wire) \in Nat
          /\ Len(buffer) \in Nat /\ Len(content) \in Nat
        BY LenProperties DEF TypeOK
    <1>2. /\ Answer(n) \in Seq(Tokens) /\ Len(Answer(n)) = 4
          /\ Follows(Answer(n), n, 1)
        BY <1>1, AnswerFacts
    <1>3. TypeOK'
        BY <1>1, <1>2, ConcatProperties DEF TypeOK
    <1>4. OwnReply'
        BY DEF OwnReply
    <1>5. CASE lease = "dead"
        BY <1>3, <1>4, <1>5 DEF InStep
    <1>6. CASE lease # "dead"
        <2>1. PICK skip \in {0, 1} : InLine(skip)
            BY <1>6 DEF InStep
        <2>2. phase # "ready" /\ Awaited = n /\ n = sent /\ Read = Len(content)
            BY <1>1, <1>6 DEF InStep, Awaited, Read
        <2>3. Awaited' = n /\ Read' = Read
            BY <2>2 DEF Awaited, Read
        <2>. DEFINE k == skip + Read + Len(buffer)
        <2>4. k \in Nat /\ k + Len(wire) <= 1
            BY <1>1, <2>1, <2>2 DEF InLine
        <2>5. PICK skip2 \in {0, 1} : skip2 = 1 - (Read + Len(buffer) + Len(wire))
            BY <1>1, <2>2, <2>4
        <2>6. Read + Len(buffer) + Len(wire) > 0 => skip = skip2
            BY <1>1, <2>1, <2>2, <2>4, <2>5
        <2>7. /\ Follows(content, n, skip2)
              /\ Follows(buffer, n, skip2 + Read)
              /\ Follows(wire, n, skip2 + Read + Len(buffer))
            <3>1. CASE Read + Len(buffer) + Len(wire) > 0
                BY <2>1, <2>2, <2>6, <3>1 DEF InLine
            <3>2. CASE Len(content) = 0 /\ Len(buffer) = 0 /\ Len(wire) = 0
                BY <3>2 DEF Follows
            <3>. QED  BY <1>1, <2>2, <3>1, <3>2
        <2>8. skip2 + Read + Len(buffer) + Len(wire) = 1
            BY <1>1, <2>2, <2>5
        <2>9. /\ Len(wire') = Len(wire) + 4
              /\ Follows(wire', n, skip2 + Read + Len(buffer))
            <3>1. skip2 + Read + Len(buffer) \in Nat
                BY <1>1, <2>2, <2>5
            <3>. QED  BY <1>1, <1>2, <2>7, <2>8, <3>1, Joined
        <2>10. skip2 + Read <= 3 /\ skip2 + Read + Len(buffer) + Len(wire') <= 5
            BY <1>1, <2>2, <2>5, <2>8, <2>9
        <2>11. /\ phase' = phase /\ content' = content /\ buffer' = buffer
               /\ sent' = sent /\ lease' = lease /\ answered' = n
               /\ phase = "draining" => content = <<>>
            BY <2>1 DEF InLine
        <2>. HIDE DEF n, k
        <2>12. InLine(skip2)'
            <3>1. /\ Follows(content, Awaited, skip2)'
                  /\ Follows(buffer, Awaited, skip2 + Read)'
                  /\ Follows(wire, Awaited, skip2 + Read + Len(buffer))'
                BY <2>2, <2>3, <2>7, <2>9, <2>11 DEF Follows
            <3>2. (skip2 + Read + Len(buffer) + Len(wire))' <= 5 /\ (skip2 + Read <= 3)'
                BY <2>3, <2>10, <2>11
            <3>3. answered' = Awaited'
                BY <2>3, <2>11
            <3>4. phase' = "draining" => content' = <<>>
                BY <2>11
            <3>. QED  BY <3>1, <3>2, <3>3, <3>4 DEF InLine
        <2>13. InStep'
            BY <1>1, <1>6, <2>2, <2>3, <2>5, <2>11, <2>12 DEF InStep
        <2>. QED  BY <1>3, <1>4, <2>13
    <1>. QED  BY <1>5, <1>6

LEMMA ArriveKeeps ==
    ASSUME IInv, Arrive
    PROVE  IInv'
    <1>. USE DEF IInv, Arrive, sessionVars
    <1>1. /\ wire \in Seq(Tokens) /\ buffer \in Seq(Tokens)
          /\ Len(wire) \in Nat \ {0} /\ Len(buffer) \in Nat /\ Len(content) \in Nat
        BY LenProperties, EmptySeq DEF TypeOK
    <1>2. /\ Head(wire) \in Tokens /\ Head(wire) = wire[1]
          /\ wire' \in Seq(Tokens) /\ Len(wire') = Len(wire) - 1
          /\ \A i \in 1..(Len(wire) - 1) : wire'[i] = wire[i + 1]
        BY <1>1, HeadTailProperties, ElementOfSeq
    <1>3. /\ buffer' \in Seq(Tokens) /\ Len(buffer') = Len(buffer) + 1
          /\ \A i \in 1..Len(buffer) : buffer'[i] = buffer[i]
          /\ buffer'[Len(buffer) + 1] = wire[1]
        BY <1>1, <1>2, AppendProperties
    <1>4. TypeOK' /\ OwnReply'
        BY <1>2, <1>3 DEF TypeOK, OwnReply
    <1>5. Awaited' = Awaited /\ Read' = Read /\ Read \in Nat
        BY <1>1 DEF Awaited, Read
    <1>6. ASSUME NEW skip \in {0, 1}, InLine(skip)
          PROVE  InLine(skip)'
        <2>. DEFINE k == skip + Read
        <2>1. k \in Nat /\ Follows(buffer, Awaited, k) /\ Follows(wire, Awaited, k + Len(buffer))
            BY <1>5, <1>6 DEF InLine
        <2>. HIDE DEF k
        <2>2. Follows(buffer', Awaited, k)
            <3>1. wire[1] = Line(Awaited, k + Len(buffer) + 1)
                BY <1>1, <2>1 DEF Follows
            <3>2. ASSUME NEW i \in 1..(Len(buffer) + 1)
                  PROVE  buffer'[i] = Line(Awaited, k + i)
                <4>1. CASE i = Len(buffer) + 1
                    <5>1. k + Len(buffer) + 1 = k + i
                        BY <1>1, <2>1, <4>1
                    <5>. QED  BY <1>3, <3>1, <4>1, <5>1
                <4>2. CASE i # Len(buffer) + 1
                    <5>1. i \in 1..Len(buffer)
                        BY <1>1, <4>2
                    <5>. QED  BY <1>3, <2>1, <5>1 DEF Follows
                <4>. QED  BY <4>1, <4>2
            <3>. QED  BY <1>3, <3>2 DEF Follows
        <2>3. Follows(wire', Awaited, k + Len(buffer'))
            <3>1. ASSUME NEW i \in 1..(Len(wire) - 1)
                  PROVE  wire'[i] = Line(Awaited, k + Len(buffer') + i)
                <4>1. i + 1 \in 1..Len(wire) /\ k + Len(buffer) + (i + 1) = k + Len(buffer') + i
                    BY <1>1, <1>3, <2>1
                <4>2. wire[i + 1] = Line(Awaited, k + Len(buffer) + (i + 1))
                    BY <2>1, <4>1 DEF Follows
                <4>. QED  BY <1>2, <4>1, <4>2
            <3>. QED  BY <1>2, <3>1 DEF Follows
        <2>4. k + Len(buffer') + Len(wire') = k + Len(buffer) + Len(wire)
            BY <1>1, <1>2, <1>3, <2>1
        <2>. QED  BY <1>5, <1>6, <2>2, <2>3, <2>4 DEF InLine, k
    <1>. QED  BY <1>4, <1>5, <1>6 DEF InStep

\* A hang-up cuts the wire short, a reset empties it.
LEMMA CutWireKeeps ==
    ASSUME IInv, wire' \in Seq(Tokens), Len(wire') <= Len(wire),
           \A i \in 1..Len(wire') : wire'[i] = wire[i],
           gone' \in BOOLEAN, closing' \in BOOLEAN, stream' \in {"open", "eof", "reset"},
           UNCHANGED <<sessionVars, phase, asked, answered, buffer, content, result, reply>>
    PROVE  IInv'
    <1>. USE DEF IInv, sessionVars
    <1>1. TypeOK' /\ OwnReply'
        BY DEF TypeOK, OwnReply
    <1>2. Awaited' = Awaited /\ Read' = Read
        BY DEF Awaited, Read
    <1>3. ASSUME NEW skip \in {0, 1}, InLine(skip)
          PROVE  InLine(skip)'
        <2>1. /\ Len(wire) \in Nat /\ Len(wire') \in Nat /\ Len(buffer) \in Nat
              /\ Read \in Nat
            BY LenProperties DEF TypeOK, Read
        <2>2. Follows(wire', Awaited, skip + Read + Len(buffer))
            BY <1>3, <2>1 DEF InLine, Follows
        <2>. QED  BY <1>2, <1>3, <2>1, <2>2 DEF InLine, Follows
    <1>. QED  BY <1>1, <1>2, <1>3 DEF InStep

LEMMA NetworkKeeps ==
    ASSUME IInv, HangUp \/ FeedEof \/ Reset
    PROVE  IInv'
    <1>. USE DEF serverVars
    <1>0. wire \in Seq(Tokens) /\ Len(wire) \in Nat /\ tls \in BOOLEAN /\ closing \in BOOLEAN
          /\ gone \in BOOLEAN /\ stream \in {"open", "eof", "reset"}
        BY LenProperties DEF IInv, TypeOK
    <1>1. CASE HangUp
        <2>1. PICK n \in 0..Len(wire) : wire' = SubSeq(wire, 1, n)
            BY <1>1 DEF HangUp
        <2>2. /\ wire' \in Seq(Tokens) /\ Len(wire') <= Len(wire)
              /\ \A i \in 1..Len(wire') : wire'[i] = wire[i]
            BY <1>0, <2>1, Cut
        <2>. QED  BY <1>0, <1>1, <2>2, CutWireKeeps DEF HangUp
    <1>2. CASE FeedEof
        BY <1>0, <1>2, CutWireKeeps DEF FeedEof
    <1>3. CASE Reset
        BY <1>0, <1>3, CutWireKeeps DEF Reset
    <1>. QED  BY <1>1, <1>2, <1>3

-----------------------------------------------------------------------------

LEMMA IInvInit == Init => IInv
    <1>. SUFFICES ASSUME Init PROVE IInv
        OBVIOUS
    <1>. USE TcpAssumption DEF Init
    <1>0. <<>> \in Seq(Tokens) /\ 0 \in 0..MaxSends /\ 0 \in 0..0
        OBVIOUS
    <1>1. TypeOK /\ OwnReply
        BY <1>0 DEF TypeOK, OwnReply
    <1>2. InLine(1)
        BY DEF InLine, Follows, Read, Awaited
    <1>. QED  BY <1>1, <1>2 DEF IInv, InStep, Awaited

LEMMA IInvNext == IInv /\ [Next]_vars => IInv'
    <1>. SUFFICES ASSUME IInv, [Next]_vars PROVE IInv'
        OBVIOUS
    <1>1. CASE Write \/ Drained \/ GiveBack \/ Lend \/ PoolCloses
        BY <1>1, WriteKeeps, DrainedKeeps, PoolKeeps
    <1>2. CASE DrainLost \/ Cancelled \/ ReadLost \/ ReadTimeout
        BY <1>2, RaiseKeeps DEF DrainLost, Cancelled, ReadLost, ReadTimeout
    <1>3. CASE ReadChunk \/ ReadAtEof
        BY <1>3, ReadChunkKeeps, ReadAtEofKeeps
    <1>4. CASE Serve \/ Arrive \/ HangUp \/ FeedEof \/ Reset
        BY <1>4, ServeKeeps, ArriveKeeps, NetworkKeeps
    <1>5. CASE Terminated \/ UNCHANGED vars
        <2>1. UNCHANGED vars
            BY <1>5 DEF Terminated
        <2>. QED  BY <2>1 DEF vars, IInv, TypeOK, InStep, OwnReply, Awaited, Read, InLine, Follows
    <1>. QED  BY <1>1, <1>2, <1>3, <1>4, <1>5 DEF Next

LEMMA Invariance == Spec => []IInv
    BY IInvInit, IInvNext, PTL DEF Spec

\* The session, its stream and its server keep their types, for any number of
\* requests and any chunk.
THEOREM TcpTypeCorrect == Spec => []TypeOK
    BY Invariance, PTL DEF IInv

\* However the stream is cut, timed out, cancelled or closed by the pool, a
\* send that is answered gets the document of its own request.
THEOREM RepliesAreOwn == Spec => []OwnReply
    BY Invariance, PTL DEF IInv

\* No chunk size lets send() read on behind a document that is complete.
THEOREM ReadStopsAtEnd == Spec => []NoReadPastEnd
    <1>1. IInv => NoReadPastEnd
        <2>. SUFFICES ASSUME IInv, phase = "reading", IsReplyTo(Stripped(content), sent)
                      PROVE  FALSE
            BY DEF NoReadPastEnd
        <2>1. PICK skip \in {0, 1} : InLine(skip)
            BY ReadingFacts
        <2>2. /\ Stripped(content) \in Seq(Tokens)
              /\ Len(Stripped(content)) \in Nat
              /\ Len(Stripped(content)) <= Len(content)
              /\ \A i \in 1..Len(Stripped(content)) : Stripped(content)[i] = content[i]
            BY ReadingFacts, StrippedFacts, LenProperties
        <2>3. Follows(Stripped(content), sent, skip) /\ skip + Len(content) <= 3
            <3>1. Len(content) \in Nat /\ Awaited = sent /\ Read = Len(content)
                BY ReadingFacts
            <3>2. Follows(content, sent, skip) /\ skip + Len(content) <= 3
                BY <2>1, <3>1 DEF InLine
            <3>. QED  BY <2>2, <3>1, <3>2 DEF Follows
        <2>4. skip + Len(Stripped(content)) <= 3
            BY <2>2, <2>3, ReadingFacts
        <2>5. skip + Len(Stripped(content)) >= 4
            BY <2>2, <2>3, <2>4, ReadingFacts, PieceHoldsOwn
        <2>. QED  BY <2>2, <2>4, <2>5
    <1>. QED  BY <1>1, Invariance, PTL

\* A session that lies in the pool owes nothing.
THEOREM PooledIsQuiet == Spec => []QuietInPool
    <1>1. IInv => QuietInPool
        <2>. SUFFICES ASSUME IInv, lease = "pooled"
                      PROVE  Blank(buffer \o wire) /\ answered = asked
            BY DEF QuietInPool
        <2>1. phase = "ready" /\ Awaited = sent + 1 /\ Read = 0
            BY DEF IInv, InStep, Awaited, Read
        <2>2. PICK skip \in {0, 1} : InLine(skip)
            BY DEF IInv, InStep
        <2>3. /\ buffer \in Seq(Tokens) /\ wire \in Seq(Tokens)
              /\ Len(buffer) \in Nat /\ Len(wire) \in Nat
              /\ sent \in Nat /\ answered \in 0..sent /\ asked \in answered..sent
            BY TcpAssumption, LenProperties DEF IInv, TypeOK
        <2>4. answered = sent /\ asked = sent
            BY <2>1, <2>3 DEF IInv, InStep
        <2>. DEFINE rest == buffer \o wire
        <2>5. skip + Len(buffer) + Len(wire) <= 1
            BY <2>1, <2>2, <2>3, <2>4 DEF InLine
        <2>6. rest \in Seq(Tokens) /\ Len(rest) = Len(buffer) + Len(wire)
              /\ Follows(rest, sent + 1, skip)
            BY <2>1, <2>2, <2>3, Joined DEF InLine
        <2>. HIDE DEF rest
        <2>7. ASSUME NEW i \in DOMAIN rest
              PROVE  ~IsText(rest[i])
            <3>1. DOMAIN rest = 1..Len(rest)
                BY <2>6, LenProperties
            <3>2. i = 1 /\ skip = 0
                BY <2>3, <2>5, <2>6, <3>1
            <3>3. rest[i] = Line(sent + 1, 1)
                BY <2>6, <3>1, <3>2 DEF Follows
            <3>. QED  BY <3>3 DEF IsText, Line, PartAt
        <2>. QED  BY <2>4, <2>7 DEF Blank, rest
    <1>. QED  BY <1>1, Invariance, PTL

-----------------------------------------------------------------------------
(* The session implements RoundTrips.                                      *)

tripVars == <<sent, asked, answered, Taken, State>>

\* A step that changes nothing the users of the session see.
LEMMA Unseen ==
    ASSUME UNCHANGED <<sent, asked, answered, lease, phase, result, reply>>
    PROVE  UNCHANGED tripVars
    BY DEF tripVars, Taken, State

\* A request is written when nothing is owed.
LEMMA WriteAsks ==
    ASSUME IInv, Write
    PROVE  Trips!Ask
    <1>1. State = "ready" /\ State' = "waiting" /\ Taken' = 0
        BY DEF Write, State, Taken
    <1>2. answered = sent
        <2>1. answered >= sent /\ answered \in 0..sent /\ sent \in Nat
            BY TcpAssumption DEF IInv, TypeOK, InStep, Write, Awaited
        <2>. QED  BY <2>1
    <1>. QED  BY <1>1, <1>2 DEF Write, Trips!Ask

LEMMA ServeServes ==
    ASSUME Serve
    PROVE  Trips!Serve
    BY DEF Serve, sessionVars, Trips!Serve, Taken, State

LEMMA RaiseFails ==
    ASSUME IInv, phase # "ready", Raise
    PROVE  Trips!Fail
    BY DEF IInv, InStep, Raise, serverVars, Trips!Fail, Taken, State

\* What is accepted is the reply to the last request, which was served; what is
\* not ends the session.
LEMMA ReturnTakesOrFails ==
    ASSUME IInv, IInv', phase = "reading", NEW c, Return(c),
           UNCHANGED <<sent, serverVars>>
    PROVE  Trips!Take \/ Trips!Fail
    <1>1. lease = "leased" /\ State = "waiting" /\ phase' = "ready"
        BY DEF IInv, InStep, State, Return
    <1>2. CASE ~Parses(Stripped(c))
        BY <1>1, <1>2 DEF Return, serverVars, Trips!Fail, Taken, State
    <1>3. CASE Parses(Stripped(c))
        <2>1. result' = "accepted" /\ lease' = "leased"
            BY <1>1, <1>3 DEF Return
        <2>2. answered = sent
            <3>1. answered' >= sent' /\ answered' \in 0..sent' /\ sent' \in Nat
                BY <1>1, <2>1, TcpAssumption DEF IInv, TypeOK, InStep, Awaited
            <3>. QED  BY <3>1 DEF serverVars
        <2>3. Taken' = sent
            <3>1. IsReplyTo(reply', sent') /\ reply' \in Seq(Tokens)
                BY <2>1 DEF IInv, OwnReply, TypeOK
            <3>2. PICK blank \in 0..Len(reply') :
                      /\ Len(reply') = blank + 3
                      /\ \A i \in 1..3 : reply'[blank + i] = Document(sent')[i]
                BY <3>1 DEF IsReplyTo
            <3>3. Last(reply') = Document(sent')[3]
                BY <3>2 DEF Last
            <3>. QED  BY <2>1, <3>3 DEF Taken, Document, Token
        <2>. QED  BY <1>1, <2>1, <2>2, <2>3 DEF serverVars, Trips!Take, State
    <1>. QED  BY <1>2, <1>3

\* The pool ends a session between requests, or leaves it as it is.
LEMMA PoolEnds ==
    ASSUME IInv, GiveBack \/ Lend \/ PoolCloses
    PROVE  Trips!End \/ UNCHANGED tripVars
    <1>1. CASE lease' = "dead"
        <2>1. lease # "dead" /\ phase = "ready"
            BY <1>1 DEF IInv, InStep, GiveBack, Lend, PoolCloses
        <2>. QED  BY <1>1, <2>1 DEF GiveBack, Lend, PoolCloses, serverVars, Trips!End,
                                    Taken, State
    <1>2. CASE lease' # "dead"
        BY <1>2 DEF GiveBack, Lend, PoolCloses, Retire, serverVars, tripVars, Taken, State
    <1>. QED  BY <1>1, <1>2

\* A chunk without the end tag is not seen; one with it, and the end of the
\* stream, end the request.
LEMMA ReadMaps ==
    ASSUME IInv, IInv', ReadChunk \/ ReadAtEof
    PROVE  Trips!Take \/ Trips!Fail \/ UNCHANGED tripVars
    <1>1. phase = "reading" /\ UNCHANGED <<sent, serverVars>>
        BY DEF ReadChunk, ReadAtEof
    <1>2. CASE \E c : Return(c)
        BY <1>1, <1>2, ReturnTakesOrFails
    <1>3. CASE UNCHANGED <<phase, lease, result, reply>>
        BY <1>1, <1>3, Unseen DEF serverVars
    <1>. QED  BY <1>2, <1>3 DEF ReadChunk, ReadAtEof

LEMMA StepMaps ==
    ASSUME IInv, IInv', [Next]_vars
    PROVE  Trips!Next \/ UNCHANGED tripVars
    <1>1. CASE Write
        BY <1>1, WriteAsks DEF Trips!Next
    <1>2. CASE DrainLost \/ Cancelled \/ ReadLost \/ ReadTimeout
        <2>1. phase # "ready" /\ Raise
            BY <1>2 DEF DrainLost, Cancelled, ReadLost, ReadTimeout
        <2>. QED  BY <2>1, RaiseFails DEF Trips!Next
    <1>3. CASE ReadChunk \/ ReadAtEof
        BY <1>3, ReadMaps DEF Trips!Next
    <1>4. CASE GiveBack \/ Lend \/ PoolCloses
        BY <1>4, PoolEnds DEF Trips!Next
    <1>5. CASE Serve
        BY <1>5, ServeServes DEF Trips!Next
    <1>6. CASE Drained
        <2>1. UNCHANGED <<sent, asked, answered, lease, Taken>> /\ State' = State
            BY <1>6 DEF Drained, sessionVars, serverVars, Taken, State
        <2>. QED  BY <2>1 DEF tripVars
    <1>7. CASE Arrive \/ HangUp \/ FeedEof \/ Reset
        BY <1>7, Unseen DEF Arrive, HangUp, FeedEof, Reset, sessionVars, serverVars
    <1>8. CASE Terminated \/ UNCHANGED vars
        BY <1>8, Unseen DEF Terminated, vars
    <1>. QED  BY <1>1, <1>2, <1>3, <1>4, <1>5, <1>6, <1>7, <1>8 DEF Next

\* Chunks, timers, cancellations, hang-ups and the close() of the pool put
\* together, the session makes one round trip at a time, and each reply that is
\* taken is the one to the request written last.
THEOREM SessionImplementsRoundTrips == Spec => ImplementsRoundTrips
    <1>1. Init => Trips!Init
        BY DEF Init, Trips!Init, Taken, State
    <1>2. IInv /\ IInv' /\ [Next]_vars => [Trips!Next]_tripVars
        BY StepMaps
    <1>. QED  BY <1>1, <1>2, Invariance, PTL
              DEF Spec, ImplementsRoundTrips, Trips!Spec, Trips!vars, tripVars
=============================================================================

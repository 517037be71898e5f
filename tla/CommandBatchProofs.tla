------------------------- MODULE CommandBatchProofs -------------------------
(***************************************************************************)
(* CommandBatch for a batch of any size and any limit of a document: what  *)
(* the server executes and what command() returns stay in step.            *)
(***************************************************************************)
EXTENDS CommandBatch, SequenceTheorems, TLAPS

(***************************************************************************)
(* The inductive invariant.                                                *)
(***************************************************************************)

InFlight == pc \in {"waiting", "raised"}

\* The number of commands that are done with: executed, or left undone.
Past == IF InFlight THEN next + GroupSize(next) - Len(inbox) ELSE next

\* Between groups the server is at rest.  During a group its inbox holds the
\* last commands of that group, and it executed only what stands before them.
Window ==
    /\ pc = "returned" => next = batch + 1
    /\ InFlight => next <= batch /\ Len(inbox) <= GroupSize(next)
    /\ ~InFlight => inbox = <<>>
    /\ \A i \in 1..Len(inbox) : inbox[i] = Past + i - 1
    /\ \A i \in 1..Len(executed) : executed[i] < Past

\* The responses to the group in flight are those to its first commands.
Replies ==
    InFlight =>
        /\ Len(responses) <= GroupSize(next) - Len(inbox)
        /\ inbox # <<>> => Len(responses) = GroupSize(next) - Len(inbox)
        /\ \A i \in 1..Len(responses) : responses[i].command = next + i - 1

\* Unless a short reply was taken, every earlier group was executed and is in
\* the results, and nothing but the responses was executed of this one.
InStep ==
    ~short =>
        /\ Len(results) = next - 1
        /\ \A i \in 1..Len(results) : results[i].command = i
        /\ Len(executed) = next - 1 + (IF InFlight THEN Len(responses) ELSE 0)
        /\ \A i \in 1..Len(executed) : executed[i] = i

\* A call that raised goes no further.
Stopped == error # "none" => pc = "raised"

IInv ==
    /\ TypeOK /\ Window /\ Replies /\ ExecutedInOrder /\ InStep
    /\ DecodedAsOwn /\ Stopped /\ UnsentGroup

\* A group is at least one command and ends inside the batch.
LEMMA GroupFacts ==
    ASSUME BatchAssumption, batch \in Nat, NEW first \in 1..batch
    PROVE  /\ GroupSize(first) \in 1..Limit
           /\ first + GroupSize(first) - 1 <= batch
    BY DEF BatchAssumption, GroupSize

-----------------------------------------------------------------------------
(* Each action keeps the invariant. *)

LEMMA SendGroupKeeps ==
    ASSUME IInv, SendGroup
    PROVE  IInv'
    <1>. DEFINE size == GroupSize(next)
    <1>. USE BatchAssumption DEF IInv, SendGroup, callVars
    <1>1. next \in 1..batch /\ batch \in Nat /\ batch <= MaxBatch
        BY DEF TypeOK, BatchAssumption
    <1>2. size \in 1..Limit /\ next + size - 1 <= batch
        BY <1>1, GroupFacts
    <1>3. /\ inbox' \in Seq(1..batch) /\ Len(inbox') = size
          /\ \A i \in 1..size : inbox'[i] = next + i - 1
        BY <1>1, <1>2 DEF BatchAssumption
    <1>4. Past = next /\ Past' = next /\ InFlight' /\ ~InFlight
        BY <1>1, <1>2, <1>3 DEF Past, InFlight, GroupSize
    <1>5. GroupSize(next)' = size
        BY DEF GroupSize
    <1>6. TypeOK'
        BY <1>1, <1>3 DEF TypeOK
    <1>7. Window'
        BY <1>1, <1>2, <1>3, <1>4, <1>5 DEF Window
    <1>8. Replies' /\ ExecutedInOrder'
        BY <1>2, <1>3, <1>4, <1>5 DEF Replies, ExecutedInOrder
    <1>9. InStep'
        BY <1>1, <1>4 DEF InStep, TypeOK
    <1>10. DecodedAsOwn' /\ Stopped' /\ UnsentGroup'
        BY DEF DecodedAsOwn, Stopped, UnsentGroup, callVars
    <1>. QED  BY <1>6, <1>7, <1>8, <1>9, <1>10

\* What send() makes of the errors of the connection phase.
LEMMA UnsentErrors ==
    \A e \in Unsent : Translated(e) \in {"MErrorHttpTimeout", "MErrorHttpInitialisation"}
    BY DEF Translated, Unsent, TimeoutException, SocketErrors

\* Nothing was sent, so the server has nothing of the group.
LEMMA NotConnectedKeeps ==
    ASSUME IInv, NEW e \in Unsent, NotConnected(e)
    PROVE  IInv'
    <1>. USE BatchAssumption DEF IInv, NotConnected, callVars
    <1>1. next \in 1..batch /\ batch \in Nat
        BY DEF TypeOK, BatchAssumption
    <1>2. GroupSize(next) \in 1..Limit /\ GroupSize(next)' = GroupSize(next)
        BY <1>1, GroupFacts DEF GroupSize
    <1>3. inbox = <<>> /\ inbox' = <<>> /\ InFlight' /\ ~InFlight /\ Past = next
        BY DEF Window, InFlight, Past
    <1>4. Past' = next + GroupSize(next) /\ Past' > next
        BY <1>1, <1>2, <1>3 DEF Past, BatchAssumption
    <1>5. error' \in {"MErrorHttpTimeout", "MErrorHttpInitialisation"}
        BY UnsentErrors
    <1>6. /\ \A i \in 1..Len(executed) : executed[i] \in Int
          /\ DOMAIN executed = 1..Len(executed)
        BY DEF TypeOK
    <1>7. TypeOK'
        <2>1. <<>> \in Seq(Responses)
            BY EmptySeq
        <2>. QED  BY <1>5, <2>1 DEF TypeOK
    <1>8. Window' /\ Replies'
        BY <1>1, <1>2, <1>3, <1>4, <1>6 DEF Window, Replies
    <1>9. ExecutedInOrder' /\ InStep' /\ DecodedAsOwn'
        BY <1>1, <1>3 DEF ExecutedInOrder, InStep, DecodedAsOwn
    <1>10. Stopped' /\ UnsentGroup'
        BY <1>3, <1>6 DEF Stopped, UnsentGroup, Window
    <1>. QED  BY <1>7, <1>8, <1>9, <1>10

LEMMA FinishKeeps ==
    ASSUME IInv, Finish
    PROVE  IInv'
    <1>. USE BatchAssumption DEF IInv, Finish, serverVars, callVars
    <1>1. next = batch + 1
        BY GroupFacts DEF TypeOK, BatchAssumption
    <1>2. ~InFlight /\ ~InFlight' /\ Past = next /\ Past' = next
        BY DEF Past, InFlight
    <1>. QED
        BY <1>1, <1>2 DEF TypeOK, Window, Replies, ExecutedInOrder, InStep,
                          DecodedAsOwn, Stopped, UnsentGroup

\* Every error ends the call while its group is in flight.
LEMMA FailKeeps ==
    ASSUME IInv, pc = "waiting",
           NEW kind \in {"MErrorHttpStatus", "MErrorHttpTimeout", "MErrorHttpDropped",
                        "MErrorSocketTimeout", "MErrorSocketDropped",
                        "MErrorMalformedResponse", "ExpatError", "AttributeError"},
           Fail(kind)
    PROVE  IInv'
    <1>. USE DEF IInv, Fail, serverVars, callVars
    <1>1. InFlight /\ InFlight' /\ GroupSize(next)' = GroupSize(next) /\ Past' = Past
        BY DEF InFlight, Past, GroupSize
    <1>. QED
        BY <1>1 DEF TypeOK, Window, Replies, ExecutedInOrder, InStep, DecodedAsOwn,
                    Stopped, UnsentGroup

\* What send() makes of an error that is not one of the connection phase.
LEMMA SentErrors ==
    \A e \in (HttpErrors \ Unsent) \cup SocketErrors :
       Translated(e) \in {"MErrorHttpStatus", "MErrorHttpTimeout", "MErrorHttpDropped",
                         "MErrorSocketTimeout", "MErrorSocketDropped",
                         "MErrorMalformedResponse"}
    BY DEF HttpErrors, Unsent, SocketErrors, TimeoutException, NetworkError, Translated

\* The results grow by the responses, and the next group begins.
LEMMA ReceiveKeeps ==
    ASSUME IInv, Receive, Aligned(Len(responses), GroupSize(next)), Unreadable = {}
    PROVE  IInv'
    <1>. DEFINE size == GroupSize(next)
                parsed == [i \in 1..Len(responses) |->
                             Parsed(responses[i], ResponseType(i))]
    <1>. USE BatchAssumption DEF IInv
    <1>1. /\ pc = "waiting" /\ inbox = <<>> /\ pc' = "ready"
          /\ results' = results \o parsed /\ next' = next + size
          /\ short' = (short \/ Len(responses) < size)
          /\ UNCHANGED <<batch, override, soap, error, inbox, executed, responses>>
        BY DEF Receive, AllResults, callVars, serverVars
    <1>2. next \in 1..batch /\ batch \in Nat /\ batch <= MaxBatch /\ InFlight /\ ~InFlight'
        BY <1>1 DEF TypeOK, Window, InFlight, BatchAssumption
    <1>3. size \in 1..Limit /\ next + size - 1 <= batch
        BY <1>2, GroupFacts
    <1>4. Past = next + size /\ Past' = next + size
        BY <1>1, <1>2, <1>3 DEF Past
    <1>5. /\ responses \in Seq(Responses) /\ results \in Seq(Results)
          /\ Len(responses) \in Nat /\ Len(responses) <= size
          /\ \A i \in 1..Len(responses) : responses[i].command = next + i - 1
        BY <1>1, <1>2, <1>3 DEF TypeOK, Replies
    <1>6. ASSUME NEW i \in 1..Len(responses)
          PROVE  /\ parsed[i] \in Results
                 /\ parsed[i].command = next + i - 1
                 /\ parsed[i].outcome = "ok" /\ ~override => parsed[i].as = parsed[i].command
        <2>1. responses[i] \in Responses
            BY <1>5, ElementOfSeq
        <2>2. responses[i].outcome \in {"ok", "ErrorResponse"}
            <3>1. responses[i].outcome \notin {"untyped", "empty"}
                BY <1>5 DEF Unreadable
            <3>. QED  BY <2>1, <3>1 DEF Responses, Outcomes
        <2>3. parsed[i] = Parsed(responses[i], ResponseType(i))
            OBVIOUS
        <2>4. next + i - 1 \in 1..batch /\ ResponseType(i) \in -1..MaxBatch
            BY <1>2, <1>3, <1>5 DEF ResponseType, GivenClass, BatchAssumption
        <2>5. responses[i].command = next + i - 1 /\ responses[i].command \in Commands
            BY <1>5, <2>1 DEF Responses
        <2>6. /\ parsed[i].command = responses[i].command
              /\ parsed[i].outcome = responses[i].outcome
              /\ parsed[i].as = IF responses[i].outcome = "ErrorResponse"
                                 THEN ErrorClass ELSE ResponseType(i)
            BY <2>3 DEF Parsed
        <2>7. parsed[i] \in Results
            BY <2>2, <2>3, <2>4, <2>5 DEF Parsed, Results, ErrorClass, BatchAssumption
        <2>. QED  BY <2>5, <2>6, <2>7 DEF ResponseType
    <1>7. parsed \in Seq(Results) /\ Len(parsed) = Len(responses)
        <2>1. parsed \in [1..Len(responses) -> Results]
            BY <1>6
        <2>2. parsed \in Seq(Results)
            BY <1>5, <2>1
        <2>3. DOMAIN parsed = 1..Len(responses)
            OBVIOUS
        <2>. QED  BY <1>5, <2>2, <2>3, LenProperties
    <1>. HIDE DEF parsed
    <1>8. /\ results' \in Seq(Results) /\ Len(results') = Len(results) + Len(responses)
          /\ Len(results) \in Nat
          /\ \A i \in 1..Len(results) : results'[i] = results[i]
          /\ \A i \in 1..Len(results') :
                i > Len(results) =>
                   /\ i - Len(results) \in 1..Len(responses)
                   /\ results'[i] = parsed[i - Len(results)]
        <2>1. results \o parsed \in Seq(Results) /\ Len(results \o parsed) = Len(results) + Len(parsed)
            BY <1>5, <1>7, ConcatProperties
        <2>2. Len(results) \in Nat
            BY <1>5
        <2>3. \A i \in 1..Len(results) : (results \o parsed)[i] = results[i]
            BY <1>5, <1>7
        <2>4. ASSUME NEW i \in 1..Len(results'), i > Len(results)
              PROVE  /\ i - Len(results) \in 1..Len(responses)
                     /\ results'[i] = parsed[i - Len(results)]
            <3>1. i - Len(results) \in 1..Len(responses)
                BY <1>1, <1>5, <1>7, <2>1, <2>2, <2>4
            <3>2. (results \o parsed)[i] = parsed[i - Len(results)]
                BY <1>1, <1>5, <1>7, <2>1, <2>2, <2>4
            <3>. QED  BY <1>1, <3>1, <3>2
        <2>. QED  BY <1>1, <1>7, <2>1, <2>2, <2>3, <2>4
    <1>9. TypeOK'
        BY <1>1, <1>2, <1>3, <1>8 DEF TypeOK
    <1>10. Window' /\ Replies' /\ ExecutedInOrder'
        BY <1>1, <1>2, <1>4 DEF Window, Replies, ExecutedInOrder
    <1>11. DecodedAsOwn' /\ Stopped' /\ UnsentGroup'
        <2>1. DOMAIN results = 1..Len(results) /\ DOMAIN results' = 1..Len(results')
            BY <1>5, <1>8
        <2>2. ASSUME NEW i \in 1..Len(results'), results'[i].outcome = "ok", ~override
              PROVE  results'[i].as = results'[i].command
            <3>1. CASE i <= Len(results)
                BY <1>8, <2>1, <2>2, <3>1 DEF DecodedAsOwn
            <3>2. CASE i > Len(results)
                <4>. DEFINE k == i - Len(results)
                <4>1. k \in 1..Len(responses) /\ results'[i] = parsed[k]
                    BY <1>8, <3>2
                <4>. QED  BY <1>6, <2>2, <4>1
            <3>. QED  BY <1>8, <3>1, <3>2
        <2>. QED  BY <1>1, <2>1, <2>2 DEF DecodedAsOwn, Stopped, UnsentGroup
    <1>12. InStep'
        <2>. SUFFICES ASSUME ~short'
                      PROVE  InStep'
            BY DEF InStep
        <2>1. ~short /\ Len(responses) = size
            <3>1. ~short /\ ~(Len(responses) < size)
                BY <1>1
            <3>2. Len(responses) \in Nat /\ size \in Nat /\ Len(responses) <= size
                BY <1>3, <1>5 DEF BatchAssumption
            <3>. HIDE DEF size
            <3>. QED  BY ONLY <3>1, <3>2
        <2>2. Len(results) = next - 1 /\ Len(results') = next' - 1
            BY <1>1, <1>2, <1>3, <1>8, <2>1 DEF InStep
        <2>3. ASSUME NEW i \in 1..Len(results')
              PROVE  results'[i].command = i
            <3>1. CASE i <= Len(results)
                BY <1>8, <2>1, <3>1 DEF InStep
            <3>2. CASE i > Len(results)
                <4>. DEFINE k == i - Len(results)
                <4>1. k \in 1..Len(responses) /\ results'[i] = parsed[k]
                    BY <1>8, <3>2
                <4>2. results'[i].command = next + k - 1
                    BY <1>6, <4>1
                <4>. QED  BY <1>2, <2>2, <4>2
            <3>. QED  BY <1>8, <3>1, <3>2
        <2>4. /\ Len(executed) = next' - 1
              /\ \A i \in 1..Len(executed) : executed[i] = i
            BY <1>1, <1>2, <1>3, <2>1 DEF InStep
        <2>. QED  BY <1>1, <1>2, <2>2, <2>3, <2>4 DEF InStep
    <1>. QED  BY <1>9, <1>10, <1>11, <1>12

\* The server executes the first command it has left.
LEMMA ExecuteKeeps ==
    ASSUME IInv, NEW outcome \in Outcomes, Execute(outcome)
    PROVE  IInv'
    <1>. DEFINE size == GroupSize(next)
    <1>. USE BatchAssumption DEF IInv, Execute, clientVars, callVars
    <1>1. InFlight /\ InFlight' /\ next \in 1..batch /\ batch \in Nat /\ batch <= MaxBatch
        BY DEF Window, InFlight, TypeOK, BatchAssumption
    <1>2. size \in 1..Limit /\ next + size - 1 <= batch /\ GroupSize(next)' = size
        BY <1>1, GroupFacts DEF GroupSize
    <1>3. /\ inbox \in Seq(1..batch) /\ Len(inbox) > 0 /\ Len(inbox) <= size
          /\ Len(inbox) \in Nat
        BY <1>1 DEF Window, TypeOK
    <1>4. Head(inbox) = Past /\ Past \in 1..batch
        <2>1. Head(inbox) = inbox[1] /\ inbox[1] = Past + 1 - 1
            BY <1>3 DEF Window
        <2>2. Past = next + size - Len(inbox)
            BY <1>1 DEF Past
        <2>. HIDE DEF size
        <2>3. Past \in Int /\ Past >= next /\ Past <= batch
            BY ONLY <1>1, <1>2, <1>3, <2>2
        <2>4. Past \in 1..batch
            BY ONLY <1>1, <2>3
        <2>5. Head(inbox) = Past
            BY ONLY <2>1, <2>3
        <2>. QED  BY ONLY <2>4, <2>5
    <1>5. /\ inbox' \in Seq(1..batch) /\ Len(inbox') = Len(inbox) - 1
          /\ \A i \in 1..Len(inbox') : inbox'[i] = inbox[i + 1]
        BY <1>3
    <1>6. Past' = Past + 1
        BY <1>1, <1>2, <1>3, <1>5 DEF Past
    <1>7. /\ executed \in Seq(1..batch) /\ executed' \in Seq(1..batch)
          /\ Len(executed') = Len(executed) + 1
          /\ executed'[Len(executed')] = Past
          /\ \A i \in 1..Len(executed) : executed'[i] = executed[i]
        BY <1>4 DEF TypeOK
    <1>8. /\ responses \in Seq(Responses) /\ responses' \in Seq(Responses)
          /\ Len(responses') = Len(responses) + 1
          /\ responses'[Len(responses')].command = Past
          /\ \A i \in 1..Len(responses) : responses'[i] = responses[i]
        BY <1>1, <1>4 DEF TypeOK, Responses, Commands
    <1>9. TypeOK'
        BY <1>5, <1>7, <1>8 DEF TypeOK
    <1>10. Window'
        <2>1. \A i \in 1..Len(inbox') : inbox'[i] = Past' + i - 1
            BY <1>3, <1>4, <1>5, <1>6 DEF Window
        <2>2. \A i \in 1..Len(executed') : executed'[i] < Past'
            <3>1. \A i \in 1..Len(executed) : executed[i] < Past /\ executed[i] \in Int
                <4>1. \A i \in 1..Len(executed) : executed[i] \in 1..batch
                    BY <1>7, ElementOfSeq
                <4>. QED  BY <1>1, <4>1 DEF Window
            <3>2. ASSUME NEW i \in 1..Len(executed')
                  PROVE  executed'[i] < Past'
                BY <1>4, <1>6, <1>7, <3>1
            <3>. QED  BY <3>2
        <2>. QED  BY <1>1, <1>2, <1>3, <1>5, <2>1, <2>2 DEF Window, InFlight
    <1>11. Replies'
        <2>1. Len(responses) = size - Len(inbox)
            BY <1>1 DEF Replies
        <2>2. Past = next + Len(responses)
            BY <1>1, <1>2, <1>3, <2>1 DEF Past
        <2>3. ASSUME NEW i \in 1..Len(responses')
              PROVE  responses'[i].command = next + i - 1
            <3>1. CASE i <= Len(responses)
                BY <1>1, <1>8, <3>1 DEF Replies
            <3>2. CASE i = Len(responses) + 1
                BY <1>1, <1>8, <2>2, <3>2
            <3>. QED  BY <1>8, <3>1, <3>2
        <2>4. Len(responses') = size - Len(inbox')
            BY <1>2, <1>3, <1>5, <1>8, <2>1
        <2>. QED  BY <1>2, <2>3, <2>4 DEF Replies
    <1>12. ExecutedInOrder'
        BY <1>4, <1>7 DEF ExecutedInOrder, Window
    <1>13. InStep'
        <2>1. Past = next + Len(responses)
            BY <1>1, <1>2, <1>3 DEF Past, Replies
        <2>. SUFFICES ASSUME ~short
                      PROVE  InStep'
            BY DEF InStep
        <2>2. /\ Len(executed) = next - 1 + Len(responses)
              /\ \A i \in 1..Len(executed) : executed[i] = i
            BY <1>1 DEF InStep
        <2>3. Len(executed') = next - 1 + Len(responses')
            <3>1. Len(executed) \in Nat /\ Len(responses) \in Nat /\ next \in Nat
                BY <1>1, <1>7, <1>8
            <3>2. /\ Len(executed') = Len(executed) + 1
                  /\ Len(responses') = Len(responses) + 1
                BY <1>7, <1>8
            <3>. HIDE DEF IInv, Execute
            <3>. QED  BY <2>2, <3>1, <3>2
        <2>4. ASSUME NEW i \in 1..Len(executed')
              PROVE  executed'[i] = i
            <3>1. CASE i \in 1..Len(executed)
                BY <1>7, <2>2, <3>1
            <3>2. CASE i \notin 1..Len(executed)
                <4>1. i = Len(executed') /\ i = Past
                    BY <1>1, <1>7, <1>8, <2>1, <2>2, <3>2
                <4>. QED  BY <1>7, <4>1
            <3>. QED  BY <3>1, <3>2
        <2>. QED  BY <1>1, <2>3, <2>4 DEF InStep
    <1>14. DecodedAsOwn' /\ Stopped' /\ UnsentGroup'
        BY DEF DecodedAsOwn, Stopped, UnsentGroup
    <1>. QED  BY <1>9, <1>10, <1>11, <1>12, <1>13, <1>14

LEMMA AbandonKeeps ==
    ASSUME IInv, Abandon
    PROVE  IInv'
    <1>. USE BatchAssumption DEF IInv, Abandon, clientVars, callVars
    <1>1. InFlight /\ InFlight' /\ next \in 1..batch /\ batch \in Nat
        BY DEF Window, InFlight, TypeOK, BatchAssumption
    <1>2. GroupSize(next) \in 1..Limit /\ GroupSize(next)' = GroupSize(next)
        BY <1>1, GroupFacts DEF GroupSize
    <1>3. inbox' = <<>> /\ Len(inbox) \in Nat
        BY DEF TypeOK
    <1>4. Past' \in Int /\ Past \in Int /\ Past <= Past'
        BY <1>1, <1>2, <1>3 DEF Past
    <1>5. \A i \in 1..Len(executed) : executed[i] \in Int
        BY SMTT(30) DEF TypeOK
    <1>6. TypeOK' /\ ExecutedInOrder' /\ InStep'
        BY <1>1, <1>3 DEF TypeOK, ExecutedInOrder, InStep
    <1>7. Window'
        BY <1>1, <1>2, <1>3, <1>4, <1>5 DEF Window, InFlight
    <1>8. Replies'
        BY <1>1, <1>2, <1>3 DEF Replies, TypeOK
    <1>9. DecodedAsOwn' /\ Stopped' /\ UnsentGroup'
        BY DEF DecodedAsOwn, Stopped, UnsentGroup
    <1>. QED  BY <1>6, <1>7, <1>8, <1>9

-----------------------------------------------------------------------------
(* The theorems *)

\* The invariant holds at the start, is kept by every step, and so always.
THEOREM BatchInvariance == Spec => []IInv
    <1>. USE BatchAssumption
    <1>1. Init => IInv
        <2>. SUFFICES ASSUME Init PROVE IInv
            OBVIOUS
        <2>1. ~InFlight /\ next = 1 /\ batch \in Nat
            BY DEF Init, InFlight, BatchAssumption
        <2>2. TypeOK
            <3>1. \A S : <<>> \in Seq(S)
                BY EmptySeq
            <3>2. override \in BOOLEAN /\ short \in BOOLEAN /\ soap \in BOOLEAN
                BY DEF Init
            <3>3. next \in 1..(batch + 1)
                BY <2>1
            <3>. QED  BY <2>1, <3>1, <3>2, <3>3 DEF Init, TypeOK
        <2>3. Window /\ Replies /\ ExecutedInOrder /\ InStep
            BY <2>1 DEF Init, Window, Replies, ExecutedInOrder, InStep
        <2>4. DecodedAsOwn /\ Stopped /\ UnsentGroup
            BY DEF Init, DecodedAsOwn, Stopped, UnsentGroup
        <2>. QED  BY <2>2, <2>3, <2>4 DEF IInv
    <1>2. IInv /\ [Next]_vars => IInv'
        <2>. SUFFICES ASSUME IInv, [Next]_vars PROVE IInv'
            OBVIOUS
        <2>1. CASE SendGroup
            BY <2>1, SendGroupKeeps
        <2>2. CASE Finish
            BY <2>2, FinishKeeps
        <2>3. CASE ReplyGarbled
            BY <2>3, FailKeeps DEF ReplyGarbled
        <2>4. CASE Receive
            <3>1. CASE Aligned(Len(responses), GroupSize(next)) /\ Unreadable = {}
                BY <2>4, <3>1, ReceiveKeeps
            <3>2. CASE ~(Aligned(Len(responses), GroupSize(next)) /\ Unreadable = {})
                <4>1. PICK kind \in {"MErrorMalformedResponse", "AttributeError"} :
                         pc = "waiting" /\ Fail(kind)
                    BY <2>4, <3>2 DEF Receive, ParseError
                <4>. QED  BY <4>1, FailKeeps
            <3>. QED  BY <3>1, <3>2
        <2>5. ASSUME NEW outcome \in Outcomes, Execute(outcome)
              PROVE  IInv'
            BY <2>5, ExecuteKeeps
        <2>6. CASE Abandon
            BY <2>6, AbandonKeeps
        <2>7. CASE UNCHANGED vars
            BY <2>7 DEF vars, IInv, TypeOK, Window, Replies, ExecutedInOrder,
                        InStep, InFlight, Past, GroupSize, DecodedAsOwn, Stopped,
                        UnsentGroup
        <2>8. ASSUME NEW e \in Unsent, NotConnected(e)
              PROVE  IInv'
            BY <2>8, NotConnectedKeeps
        <2>9. ASSUME NEW e \in HttpErrors \cup SocketErrors, TransportFails(e)
              PROVE  IInv'
            <3>1. e \in (HttpErrors \ Unsent) \cup SocketErrors /\ pc = "waiting"
                     /\ Fail(Translated(e))
                BY <2>9 DEF TransportFails
            <3>. QED  BY <3>1, SentErrors, FailKeeps
        <2>. QED
            BY <2>1, <2>2, <2>3, <2>4, <2>5, <2>6, <2>7, <2>8, <2>9
               DEF Next, Terminated
    <1>. QED  BY <1>1, <1>2, PTL DEF Spec

\* The call and the server's side of it keep their types.
THEOREM BatchTypeCorrect == Spec => []TypeOK
    <1>1. IInv => TypeOK
        BY DEF IInv
    <1>. QED  BY <1>1, BatchInvariance, PTL

\* Unless a short reply was taken, the i-th result answers the i-th command,
\* across all groups.
THEOREM ResultsStayAligned == Spec => []ResultsAligned
    <1>1. IInv => ResultsAligned
        BY DEF IInv, TypeOK, InStep, ResultsAligned
    <1>. QED  BY <1>1, BatchInvariance, PTL

\* A batch that returns, and took no short reply on the way, was executed to its
\* end and has a result for each command.
THEOREM ReturnedIsWhole == Spec => []WholeBatchReturned
    <1>1. IInv => WholeBatchReturned
        <2>. SUFFICES ASSUME IInv, pc = "returned", ~short
                      PROVE  Len(results) = batch /\ executed = [i \in 1..batch |-> i]
            BY DEF WholeBatchReturned
        <2>1. next = batch + 1 /\ ~InFlight /\ batch \in Nat
            BY BatchAssumption DEF IInv, Window, InFlight, TypeOK, BatchAssumption
        <2>2. /\ Len(results) = batch /\ Len(executed) = batch
              /\ \A i \in 1..batch : executed[i] = i
            BY <2>1 DEF IInv, InStep
        <2>3. executed \in Seq(1..batch)
            BY DEF IInv, TypeOK
        <2>. QED  BY <2>1, <2>2, <2>3
    <1>. QED  BY <1>1, BatchInvariance, PTL

\* Whatever fails on the way, no command is executed twice or out of order.
THEOREM NothingExecutedTwice == Spec => []ExecutedInOrder
    <1>1. IInv => ExecutedInOrder
        BY DEF IInv
    <1>. QED  BY <1>1, BatchInvariance, PTL

\* No response is decoded into the class of another command, whatever short
\* replies were taken.
THEOREM ClassesStayAligned == Spec => []DecodedAsOwn
    <1>1. IInv => DecodedAsOwn
        BY DEF IInv
    <1>. QED  BY <1>1, BatchInvariance, PTL

\* MErrorHttpInitialisation means that nothing of the group was sent.
THEOREM UnsentStaysUnsent == Spec => []UnsentGroup
    <1>1. IInv => UnsentGroup
        BY DEF IInv
    <1>. QED  BY <1>1, BatchInvariance, PTL
=============================================================================

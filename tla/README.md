# A verified model of mercury-ocip-fast

mercury-ocip-fast is an asyncio client for BroadWorks OCI-P: a pool of logged-in
TCP or SOAP sessions, batches of commands in XML, and well over a hundred
thousand lines of generated command classes.  This directory holds TLA+ modules translated from
its source, the TLC instances that check them, and TLAPS proofs of the
properties that matter most.  Paths below are relative to
`src/src/mercury_ocip_fast/`.

1. [Inventory](#inventory)
2. [Modules and how they correspond to the code](#modules)
3. [Runs, bounds and what they show](#runs)
4. [Fairness](#fairness)
5. [What is proved](#proofs)
6. [What is only model-checked](#only-model-checked)
7. [Where the code differs from what it says](#divergences)
8. [What is not modelled](#not-modelled)
9. [Plan](#plan)

## <a id="inventory"></a>Inventory

| Part | Source | State | Operations | Correct when |
|---|---|---|---|---|
| Session pool | `pool/session_pool.py` | `_semaphore`, `_idle` (LIFO), `_all`, `_closed`, `_idle_condition` | `session`, `acquire`, `release`, `close` | slots are conserved, a session is lent to one caller at a time, at most `max_size` are open, nobody waits beside a free slot, a spoiled session is not reused, a closed pool ends up empty |
| Client | `client.py` | pool, requester, authenticator | `_async_setup`, `_default_factory`, `command`, `close` | a failed login leaves no transport open; a batch is whole and in order; nobody reads somebody else's reply; nothing runs twice or before its login; every call ends |
| TCP session | `session/tcp_session.py` | stream reader and writer, age | `open`, `send`, `close`, `is_alive`, `is_stale` | `send` returns the whole reply to its own request, or raises |
| SOAP session | `session/soap_session.py` | httpx client with its cookie jar, session id | `open`, `resume`, `pair`, `send`, `close` | cookie and session id are those of one login |
| Session client | `session_client.py` | requester | `open`, `resume`, `command`, `close` | a session belongs to whoever opened it, or is closed |
| Requester | `requester.py` | none | `send`, `parse_response` | one result for each command, in order and in its class, or an error |
| Authenticator | `authenticator.py` | credentials | `generic_login`, `encrypted_login` | a login signs the nonce of its own session |
| Session identities and settings | `session/session.py`, settings in `pool/session_pool.py` | frozen values | `SessionPair` | - |
| Parser | `utils/parser.py` | none | `to_dict_from_xml`, `to_class_from_dict`, `to_xml_from_class`, ... | what XML can carry survives a round trip |
| Helpers | `utils/*.py` | none | endpoints, envelopes, phone ranges, table type | boundary cases |
| Command classes | `commands/*.py` | none | generated data classes | - |
| Exceptions | `exceptions.py` | none | declarations | - |

How they interact.  The client owns one pool.  The pool calls back into the
client's factory, which opens a transport and logs it in with the
authenticator.  Authenticator and `command` go through the requester, which
encodes with the parser, calls the session's `send`, and decodes what comes
back.  The session client does the same without a pool: its sessions are handed
to the caller, who may export one as a `SessionPair` and resume it later, in
another process too.

Everything runs on one event loop, so a stretch of code without an `await` is
atomic.  What is hard is what may happen between two awaits of different
coroutines, and how each await may end:

- in the pool, a caller is parked for a slot, another closes a dead session, a
  third connects, a fourth is cancelled, and `close()` starts in the middle; each
  of these awaits can raise, time out or be cancelled while it holds a slot;
- in a TCP session replies have no frames: chunks cut them anywhere, a request
  may be given up while its reply is on the way, and the peer may hang up;
- a call is several documents on a session that others had before and will have
  after it, behind a login that was somebody else's; replies carry no name of
  their request, and the call may end between any two of them;
- in a batch the client may give up while the server is still executing, and
  responses carry nothing that names their command;
- with SOAP two independent values make up an identity, made up by different
  parties, stored, and put together again after a restart;
- in the parser, the XML library erases the difference between a list of one
  element, a lone element, and an empty one.

The hazards, each at its line and with the properties aimed at it, are listed
under `hazards` in `PROJECT.json`.

## <a id="modules"></a>Modules and how they correspond to the code

| Module | Models | Kind |
|---|---|---|
| `CommandService` | what `command()` promises: documents, replies and outcomes, no sessions | abstract specification |
| `PooledCalls` | `command()` over the pool, with the round trips of calls and logins and a server behind each session | composition, over `SessionPool`; implements `CommandService` |
| `PooledCallsProofs` | safety of the composition; refinement of `CommandService` | proofs |
| `LeasePool` | what a pool promises to its callers | abstract specification |
| `SessionPool` | `pool/session_pool.py`, with `_default_factory` of `client.py` and the connection state of a session | detailed specification, implements `LeasePool` |
| `SessionPoolMC` | symmetry for TLC | instance |
| `SequenceFacts` | injective sequences under `Front`, `Append`, `Tail`, `RemoveAt` | lemmas |
| `SessionPoolProofs` | safety of the pool; refinement of `LeasePool` | proofs |
| `RoundTrips` | what one session promises to its users, one after the other | abstract specification |
| `TcpSession`, `TcpSessionProofs` | `send()`, `is_alive`, `close` of `session/tcp_session.py` on a stream, with the server and the pool's rules for a session that comes back | detailed specification, implements `RoundTrips`; proofs |
| `CommandBatch`, `CommandBatchProofs` | `command()` of both clients, the errors of `send()` of both kinds of session, `parse_response`, `_align_types` and `_parse_single_response` of `requester.py`, with the server's execution | specification, proofs |
| `SoapSessions`, `SoapSessionsMC`, `SoapSessionsProofs` | `session_client.py`, `authenticator.py`, identity of `session/soap_session.py` | specification, instance, proofs |
| `WireCodec`, `WireCodecMC` | `utils/parser.py`, `utils/oci_types.py`, `to_snake_case`, and twelve classes of `commands/commands.py` | algorithms, instance |
| `WireCodecFacts`, `WireCodecProofs` | the stages of a command, level by level and kind by kind; what comes back of it | lemmas, proofs |

A call is seen at three depths.  `PooledCalls` follows whole documents over
shared sessions; `TcpSession` shows, byte stream and chunks included, why a round
trip on one session is one; `CommandBatch` opens a document into its commands.
`RoundTrips` is the joint between the first two: what `Send`, `Execute`,
`Receive` and a failing call do to one session in `PooledCalls` are its `Ask`,
`Serve`, `Take` and `Fail`, and `TcpSession` implements it.

`map` in `PROJECT.json` names the lines behind every definition.

### SessionPool

One action is one stretch of code between two suspension points, and `pc[t]`
names the await at which caller `t` is parked:

| `pc` | parked at | slot held |
|---|---|---|
| `out` | outside of the pool | no |
| `waiting` | `_semaphore.acquire()`, under `wait_for` | no |
| `granted` | the same, but the semaphore has already given it a slot; it runs in a later turn of the loop | yes |
| `discarding` | `atom.close()` in `_discard()`, for a dead or expired idle session | yes |
| `opening` | the `open` of the factory | yes |
| `login` | the login of the factory | yes |
| `abandoning` | the `close()` that the factory does after a failed login | yes |
| `using` | the block of `async with pool.session()` | yes |
| `returning` | `_discard()` in `release()` | yes |
| `refused` | it got `MErrorPoolClosed` | no |

`closePc[k]` does the same for a call of `close()`: `draining` (closing an idle
session), `waiting` and `notified` (the condition), `forcing` (the forced close
after `wait_timeout`).

- The semaphore is CPython's: `release()` hands the slot to the oldest waiter
  (`ReleasePermit`), woken waiters count as `locked()`, a woken waiter that runs
  wakes the next one if slots are left (`Resume`), and one that is cancelled in
  that turn passes its slot on (`GiveUpGranted`).  `acquire_timeout` and a
  cancellation have the same effect on the pool and are one action (`GiveUp`).
- The lock of `_idle_condition` is never held across a suspension other than
  `Condition.wait`, so it is never contended, and taking it is not a step.
- `TCPSessionAtom.close()` and the SOAP one let go of the transport before they
  await, so `conn` becomes `closed` when the close starts.  A close that raises
  is suppressed by `_discard()`; a close that is cancelled is not, and the line
  that unregisters the session is skipped (`DiscardCancelled`,
  `ReturnCancelled`).
- `conn` is `fresh`, `stale` (older than `max_ttl_seconds`), `dropped` (the peer
  hung up, `is_alive()` is false) or `closed`; `Expire` and `Drop` are the
  environment.
- `spoiled` is a history variable: the sessions on which a caller's block raised.

### PooledCalls

Every step of a caller conjoins a step of `SessionPool` with what happens to its
call: `Begin` is `Acquire`, `Refused` is `Refuse`, `Proceed` and `NoSession` are
`acquire()` going on or raising, `LoggedIn` and `LoginBroken` end the login of
the factory, `Complete` and `Fail` are the two exits of the `async with` block,
`GivenBack` and `GivenBackCancelled` the end of a `release()` that closes the
session.  A block raises (`Fail`) while it waits for a reply, or where `to_xml()`
makes the next document.  In between, `Send` writes the next document of the login or of the
call to the session that is held, `Receive` takes the first reply that comes,
and `Execute(a)` is the server behind session `a`, which works on its own pace
and also on what a connection left behind when it ended.

A document is a record of caller, call, kind, step and session, so that the
properties can tell whose it is; the program cannot, and `Receive` does not
look.  `Name` leaves the session out: `ExecutedOnce` and `ImplementsService` speak
of documents whatever session they were sent on.  A login has `LoginTrips` round trips (two with a challenge, one over TLS),
a call as many as `itertools.batched` makes groups of its commands.  That a
session which failed is not lent again is nowhere said in this module: it is
what the pool does, and what every property here rests on.

`CommandService` is the promise without the means: a document is executed once
at most, replies come to the caller in order, a call that returns has them all,
and one that raises leaves at most one in doubt.  The refinement mapping drops
the session from a document, all documents of logins, and the replies to them.

### TcpSession

A reply is four tokens: the body, the two halves of the end tag and the newline
the server writes behind the document.  Tokens travel from `wire` to the
`StreamReader`'s `buffer`, and `ReadChunk` takes up to `Chunk` (the code's
`read_chunk_size`) of them, or all there are; `EndSeen` looks for the tag in all
that was read.  `Parses` is what the requester does with the result: a document
with something before its declaration does not parse and ends in an exception,
which closes the session.  `declared` and `tls` are chosen once: whether
documents start with an XML declaration, and whether the transport closes itself
on the peer's end of stream (TLS) or stays half open (plain).  The rules of
`release()` and `acquire()` for this one session are `GiveBack` and `Lend`;
`PoolCloses` is the forced close, which asks nobody.

`RoundTrips` has no stream, no chunks and no timers: a request is written only
when nothing is owed, the reply that is taken is the one to that request, and a
request that fails is the last one.  The refinement mapping reads the number of
the reply off its tokens (`Taken`), and not off what `send()` was asked for.

### CommandBatch

A command is its position in the batch.  `SendGroup` is one turn of the loop
over `itertools.batched(commands, 15)`, with `Limit` for 15; `Receive` is
`parse_response`, and `Aligned` its rule for the number of responses: a lone
command element is taken without a look at the size of the batch, and so is any
number when one `response_type` was given for all.  `short` remembers that a reply
with fewer responses than the group has commands was taken; `ResultsAligned` and
`WholeBatchReturned` speak of all other calls, with one `response_type`
(`override`) and without.  The server executes its
inbox in order, may stop behind a command that fails or refuse a document as a
whole, and goes on when the client has given up.

`Translated` is the table of `except` clauses of both `send()`s: eight kinds of
failure of httpx, a reply without a return element, and four failures of a
socket become the errors of `exceptions.py`, the first clause that fits.
`NotConnected` is the failure before the first byte, which only a SOAP session
can have at this point, since httpx connects when it sends.  A response has one
of four forms: an ordinary one, an `ErrorResponse`, one without `xsi:type`, and
an empty element.  `Parsed` chooses the class as
`_parse_single_response` does: `ErrorResponse` by its `xsi:type`, and everything
else by position, whatever its `xsi:type` says.  `ParseError` is what the first
unreadable response raises, an `AttributeError` for an empty one among several.

### SoapSessions

An action is one round trip, or a call without one.  The cookie and the nonce
are numbers the server hands out; a session id is the identity of the session
that made it up.  `Open`, `Authenticated`, `LoginAccepted` and `LoginFailed` are
`SessionClient.open` with both flows of the authenticator (one step over TLS,
two otherwise); `Export` reads `pair`, `Resume` is `resume()`, `Restart` ends the
process: sessions are gone, stored pairs are not.  The signature is abstracted
to the nonce it is made from.  Ports are left out.

### WireCodec

`Encode`, the XML library, `_clean` and `_decode` are operators on tagged values
(`str`, `int`, `bool`, `list`, `dict`, object, `OCITable`, `OCINil`, `None`);
the states are the stages of one command.  The schema is that of twelve
generated classes, each definition mapped to its own: between them they have
scalars of three types, an object whose class has subclasses, plain objects,
lists of objects, of numbers and of texts, tables whose name ends in `Table`
and one whose name does not (which `_clean` treats differently), and `Nillable`
fields.  `New` is the generated `__post_init__`: an empty text in a `Nillable`
field becomes `OCINil`, the class, which `AsksForNil` does not recognise.

The parser calls itself for the parts of a value.  Objects and tables of these
classes nest three deep at most, so each recursive function is one operator,
which is given what became of the parts (`inner`), and three instances of it:
`Encode1`, `Encode2` and `Encode`, and likewise for the library, `_clean` and
`_decode`.  That keeps the module within reach of the prover, which knows no
recursive operators.

`IsCommand` says which commands a program can make: each field holds a value of
its type hint, or nothing, or, if it may, one of the two things that clear it.
The field hinted `list[OCITable]` holds tables, or the dicts of which the parser
makes one table.  A table in a list goes another way than one in a field: it is
encoded and decoded by its schema (`EncodeTable`, `DecodeTablePart`), which leaves
empty lists out, unless `_clean` has turned it into a table before (`IsError` finds
the row that raises there).
Texts, numbers, lists, tables and rows of dicts are not bounded by it.  `Strip`
(`str.strip()`) is a constant function on the texts.

## <a id="runs"></a>Runs, bounds and what they show

| Run | Instance | Distinct states | Question |
|---|---|---|---|
| `calls_safety` | 2 callers, 1 slot, 2 sessions, 1 `close()`, calls of up to 2 documents, no symmetry | 323,483 | Does everybody get its own replies; is nothing executed twice, on one session or two, or before its login; is the whole a `CommandService`; does every call end? |
| `pool_safety` | 3 callers, 2 slots, 4 sessions, 2 calls of `close()`, symmetry | 172,429 | Do slots, leases, transports and the closed pool stay accounted for, and is the pool a `LeasePool`? |
| `pool_liveness` | 3 callers, 1 slot, 2 sessions, 1 `close()`, no symmetry | 27,951 | Is every parked caller served without `acquire_timeout`, does `close()` return, does a closed pool become empty? |
| `pool_close_leaves_open` | 2 callers, 2 slots, 3 sessions | violated | Is every session closed when `close()` has returned? |
| `pool_ghost_in_use` | 2 callers, 1 slot, 3 sessions | violated | Is `_in_use` the number of sessions that are checked out? |
| `tcp_safety` | 3 requests, chunks of up to 3 tokens | 10,208 | Is an accepted reply the request's own; is nothing owed on a pooled session; does a read end; is the whole a `RoundTrips`? |
| `tcp_truncated` | 2 requests | violated | Is a returned reply whole? |
| `tcp_leftover_newline` | 2 requests | violated | Is a returned reply the document alone? |
| `batch_safety` | batches of 0 to 7, groups of 3 | 73,529 | Do results stay with their commands, as long as no short reply is taken, and with their classes; is nothing executed twice; is what is reported unsent unsent? |
| `batch_short_reply` | batches of 0 to 4, groups of 3 | violated | Does a reply with too few responses raise? |
| `soap_safety` | 4 sessions, 2 users, symmetry | 66,120 | Are cookie and id always of one login; do nonces stay apart; is no transport leaked? |
| `codec_round_trip` | fields of every kind, alone and beside another | 5,600 | Does a command come back as it was sent; what raises on the way; is a field cleared only on request? |

Why these bounds are enough to be interesting:

- *calls_safety*.  One slot makes the two callers share a session, and take over
  one that the other logged in; a session that fails is replaced by the second.
  Calls of two documents can fail before, between and behind them.  The server
  may execute at any time, `close()` and the end of a connection may come at any
  time.  Symmetry is not sound for `EveryCallEnds` and is left out.  Two larger
  instances were run once and hold as well: a login of two round trips (433,637
  states), and two calls for each caller, safety only and with symmetry
  (6,459,877 states).
- *pool_safety*.  Three callers and two slots are the smallest instance in which
  one caller is parked while two work, and in which a slot is handed over while
  another becomes free.  Four sessions let both slots be refilled once; more
  sessions repeat what the second of a slot does.  The second `close()` meets
  the first at every stage.  Callers, closers and sessions are interchangeable
  in this module, so symmetry is sound for invariants and for the action
  properties; it is not used for liveness.
- *pool_liveness*.  One slot and three callers put two in the queue behind a
  holder, so a slot must be passed on twice; with two sessions the slot is
  refilled after a discard.
- *tcp_safety*.  A third request shows what a second one may have left behind
  for it.  With chunks of three tokens a document that arrives in one piece
  leaves its newline in the reader; shorter arrivals cut the end tag in two.
- *batch_safety*.  0, a part of a group, exactly one group, several groups, and
  several with a rest of one or two; with both kinds of session and each of
  their errors.
- *soap_safety*.  Four sessions give two logins at once and a chain: a login is
  exported, resumed, exported again by the resumed session, and resumed.
- *codec_round_trip*.  Lists, rows and cells of zero, one and two elements: the
  library treats zero, one and more differently, and three as two.  An object
  has one field set, or two where a neighbour can disturb the first.

The bounds that are part of a module are the constants `MaxSends` (requests in
the life of a TCP session), `MaxBatch`, `MaxCalls` and `MaxGroups` (calls of a
caller and documents of a call), and the finite sets `Atoms` and `Sessions`: the
factory of the pool can make as many sessions as there are atoms.  When they are
used up, opening can only fail; nothing else depends on it.

Each run that is "violated" checks one statement that a docstring or a test of
the repository makes; see [below](#divergences).

## <a id="fairness"></a>Fairness

Safety rests on none.  `SessionPool!FairSpec` assumes weak fairness of what
the event loop, a library or a timer does by itself:

| Assumed | Because |
|---|---|
| `Resume` | the loop runs a coroutine that was woken |
| `DiscardDone`, `ReturnDone`, `AbandonDone`, `DrainDone`, `ForceDone` | a `close()` of a session ends |
| `OpenOk \/ OpenFail` | connecting is bounded by `connect_timeout` |
| `LoginOk \/ LoginFail` | reads of a login are bounded by `read_timeout` |
| `Release` | the block of a caller ends; the pool cannot see to that itself |
| `WaitResume`, `WaitTimeout` | a notified condition runs; `close()` waits under `wait_timeout` |

Nothing is assumed of acquiring, of calling `close()`, of cancellations, of which
way an opening or a login ends, or of `acquire_timeout`: `EveryWaiterServed`
holds without its help.  Writing a request has no timeout in the code; that the
peer takes what is sent is assumed here, as a part of `LoginOk \/ LoginFail` and
of `Release`.

`PooledCalls!CallsFairSpec` states the same of a call.  The ends of a login and
of a block are no longer assumed, they follow from the round trips: weak
fairness of `Send` (the write is not held up, as above), of `Receive \/
LoginBroken \/ (t \in awaiting /\ Fail)` (a reply comes, or `read_timeout` ends the
wait; that a block raises where it does not wait is not assumed), and of
`LoggedIn \/ Complete` (the loop runs a caller that has its replies), beside the
steps of `acquire()` and `release()`.  Of the server, of `acquire_timeout` and of
`close()` nothing is assumed: `EveryCallEnds` holds even if the server never
executes anything.

`TcpSession!FairSpec` assumes weak fairness of `ReadChunk`, `ReadAtEof` and
`ReadLost` (the loop runs a reader that has something) and of `ReadTimeout` (the
timer of `wait_for`).  Nothing is assumed of the server, and nothing of
`drain()`, so that a send ends is claimed from its read on (`ReadEnds`).

## <a id="proofs"></a>What is proved

All theorems are about the specification without fairness (`Spec`, `CallsSpec`),
for every value of the constants.

| Module | Theorem | States |
|---|---|---|
| `SessionPoolProofs` | `TypeCorrect` | the state keeps its types, free slots stay in `0..MaxSize` |
| | `SlotsConserved` | `PermitConservation` |
| | `WaitersRemembered` | `NoWaiterForgotten` |
| | `LeasesExclusive` | `ExclusiveLease` |
| | `TransportsAccounted` | `NoOrphanTransport` |
| | `CapacityKept` | `SessionsBounded` |
| | `SpoiledStaysOut` | `SpoiledNeverReused` |
| | `ClosedStaysEmpty` | `ClosedPoolStaysEmpty` |
| | `PoolImplementsLeases` | the pool implements `LeasePool` |
| `PooledCallsProofs` | `CallsTypeCorrect` | `CallsTypeOK` |
| | `RepliesBelongToCaller` | `OwnReplies` |
| | `NothingSentTwice` | `ExecutedOnce` |
| | `LoginComesFirst` | `LoggedInFirst` |
| | `OneDocumentInDoubt` | `OneInDoubt` |
| | `PooledCallsImplementService` | the calls over the pool implement `CommandService` |
| `TcpSessionProofs` | `TcpTypeCorrect`, `RepliesAreOwn`, `ReadStopsAtEnd`, `PooledIsQuiet` | the safety invariants of `tcp_safety`, for any chunk size and any number of requests |
| | `SessionImplementsRoundTrips` | a session with its stream and its server implements `RoundTrips` |
| `CommandBatchProofs` | `BatchTypeCorrect`, `ResultsStayAligned`, `ReturnedIsWhole`, `ClassesStayAligned`, `UnsentStaysUnsent`, `NothingExecutedTwice` | every safety property of `batch_safety` |
| `SoapSessionsProofs` | `SoapTypeCorrect`, `PairsBelongTogether`, `NoncesApart`, `NoTransportLeaks` | every safety property of `soap_safety` |
| `WireCodecProofs` | `FieldsComeBack`, `RaisesOnlyForEmptyRow`, `NothingElseClears`, `TablesGiveDicts` | every property of `codec_round_trip`, for all commands of the twelve classes |

Assumptions.  `PoolAssumption`: `MaxSize` is a natural number, the set of
callers is finite, and `NoAtom` is not a session.  Nothing is assumed of the
number of sessions or of calls of `close()`.  `BatchAssumption`: `MaxBatch` is a
natural number and `Limit` a positive one.  `CallAssumption`: `MaxCalls` and
`MaxGroups` are natural numbers and `LoginTrips` a positive one.
`TcpAssumption`: `MaxSends` is a natural number and `Chunk` a positive one.
`SoapAssumption`: `Sessions` is
finite and `Nobody` is none of them and no user.  `TextAssumption`: stripping
maps texts to texts and leaves `""`, `"true"` and `"false"` as they are;
`NumberAssumption`: different numbers are written differently;
`MessageAssumption`: what is sent is a command of the twelve classes.  The
bounds on lists, rows and texts in `WireCodecMC` are bounds of TLC only.  TLC
evaluates each assumption on the instances it checks.

**The pool.**  `IInv == SlotInv /\ AtomInv /\ CloseInv /\ SlotBound`.

- `SlotInv` adds to `PermitConservation` and `NoWaiterForgotten` that the queue
  holds the callers parked at the semaphore, once each (`QueueOK`).  Without it a
  slot could be handed to a caller that has one, and the sum would be wrong.
  Every action of a caller is first shown to be one of eight kinds of step on
  `permits`, `queue` and `pc` (`SlotStep`); each kind keeps the sum.
- `AtomInv` adds to `ExclusiveLease` and `NoOrphanTransport` that a session
  never made is nowhere (`UnmadeNowhere`), so that a new one cannot be lent
  already, and that a spoiled one is on its way out (`SpoiledGone`).
- `CloseInv` relates the stage of each `close()` to `closed` and to the idle
  queue: a `close()` that is behind its drain loop leaves it empty.
- `SlotBound`, `Len(idle) + Cardinality(Busy) <= MaxSize`, is what capacity
  rests on.  Conservation of slots is not enough: a caller that was woken owns a
  slot, and at the same time the session released for it lies in the idle queue.
  `Busy` therefore leaves such callers out, and the proof uses that the factory
  is called only when the idle queue is empty (`FactoryOnlyWhenIdleEmpty`).

The refinement maps open transports to `live`, transports that ever existed to
`made`, and callers that log in or use a session to `lease`.  It needs `IInv`
and that everything registered or about to be force-closed was once made
(`RegisteredMade`); each action then is an action of `LeasePool` or a stutter.

**The calls.**  Each step of `PooledCalls` is a step of `SessionPool` or leaves
the pool alone (`CallsNextIsNext`), so the pool's `IInv` holds here too
(`PoolInvariance`) and is a hypothesis of every further step.

- `CallInv` adds `WireOK` to the types and `OwnReplies`: a session that is idle or
  was never opened owes nothing, and one that is held owes at most the reply its
  caller is waiting for.  That a document in doubt never meets the next caller
  is the pool's doing: a caller that leaves while it waits closes the session
  (`ClosedBy`).  `NoEarlyReplies` says that a call has no replies until its
  session logs in.
- `DocInv` accounts for every document the server was given: one at most per
  session (`Singles`), complete logins on all idle and lent sessions
  (`LoginsDone`), and no document beyond the one its caller sent last
  (`AllAccounted`).  That no session is given a document twice
  (`OncePerSession`) is not inductive without it: that a new document is new
  follows from its number.
- Steps that touch no document are all shown to be `Handling`, one form for ten
  actions; each invariant is then proved for that form, for `Send`, for `Receive`
  and for `Execute`.

Two invariants are left.  All documents of a login, and all of a call, went to
one session, the one the caller holds while it sends more (`SessionInv`).  With
`OncePerSession` it makes `ExecutedOnce`, which forbids a repeat on another session
too, and without it dropping the session from a document could merge two in the
refinement.  The refinement also needs that a call runs just while its caller is
inside the pool and leaves a healthy session only with all its replies
(`OutcomeInv`).

**The TCP session.**  `InStep` says that what `send()` has read, what the reader
holds and what is on the wire are, in this order, one piece of one line: the
newline behind the last document, the awaited document, the newline behind it.
The piece starts at the newline or behind it, and never reaches further than
the server has answered.  `OwnReply` and `NoReadPastEnd` follow from where the
end tag stands in that line, `QuietInPool` because between requests nothing but
the first newline can be left of it.

The refinement needs no more than that.  `Ask` requires that nothing is owed,
which `InStep` says of every session that is not dead between two requests;
`Take` requires that the last request was served and that the tokens of the
reply are its own, which is `InStep` and `OwnReply` behind the step.

**The batch.**  `Window` says which commands the server may still have and that
it executed only what stands before them; `Replies`, that the responses to the
group in flight are those to its first commands; `InStep`, that results and
executed commands are exactly the earlier groups as long as no short reply was
taken, whether one `response_type` was given or none.  `ResultsAligned` alone is
not inductive: it says nothing of the responses
that are appended next.  `DecodedAsOwn` holds after a short reply too, since
positions count from the group and not from the results.  `Stopped` (an error
ends the call) and `Window` carry `UnsentGroup`.

**The sessions.**  `PairsAreLogins` extends `PairIsOneLogin` to closed sessions
and to the stored pairs, from which a resumed session takes its identity;
`OwnIds` says that a login runs with the id its session made up, without which
another login could change the challenge it must sign; `Counted` bounds the
server's counters by the sessions that were opened, which the type invariant
needs.

**The codec.**  `IInv` (`Stages`) says that the message is a command and that the
value is what the stages so far make of it: a function of the message.  The
properties then are statements about the composition of four functions, and
the proof goes from the inside out.

- *Keys.*  No two names have one alias, no alias is a mark of the library or a
  key the parser looks for, and `SnakeCase` undoes every alias (`SpecFields`,
  `CamelInjective`, `Aliases`, `NamesUnique`).  So what a field becomes depends
  on no other field: at each level (`Level1` to `Level3`) the way of an object is
  the way of each of its fields, one at a time, and the class is found again by
  `xsi:type` where it is not the declared one.
- *Leaves.*  A text that is stripped, a number and a truth value come back from
  what the library made of them; that of a number needs `NumberAssumption`.
- *Lists and tables.*  A list of one item reaches `_decode` as the bare item and
  is put back by `Items`; a table with headings and rows of at least one cell
  each has its rows and cells back whichever of `_clean` and `_decode` reads it.
  A row without cells is the only thing that raises on the way.  A table in a
  list loses its empty lists and comes back through `_clean` or by its schema
  (`EmptiesLost`, `RowEncoded`, `TableEncoded`, `TableComes`, `TablesBack`).
- *Dicts.*  The keys of the first row are the headings (`SetToSeq`), in an order
  that `to_dict()` does not need to know, because the keys are distinct.

What the provers cannot do for this component is induction over the depth of an
object, so the three levels are three lemmas each.  The theorems speak of the
twelve classes, and of all texts, numbers, lengths of lists and sizes of tables.
What the XML library does is taken from how the parser deals with it
(`ThroughXml`, marked external in `map`).

## <a id="only-model-checked"></a>What is only model-checked

Liveness (`EveryWaiterServed`, `CloseReturns`, `CloseEventuallyEmpties`,
`ReadEnds`, `EveryCallEnds`): liveness under fairness is out of the prover's
reach.  Every other property of the runs that pass is a theorem.

## <a id="divergences"></a>Where the code differs from what it says

Each of the first five is a run whose property TLC violates; `findings` in
`PROJECT.json` quotes the text on the other side.

1. *A closed pool may open sessions* (`pool_close_leaves_open`).  `acquire()`
   looks at `_closed` once, before it waits; a session under construction is in
   no count.  In TLC's trace a transport is opened, `close()` runs to its end while
   it logs in, and the transport stays open; its caller goes on to get a session
   of a closed pool.  It is closed when that caller gives it back
   (`CloseEventuallyEmpties` holds).
2. *A cancelled discard counts for ever* (`pool_ghost_in_use`).  `_discard()`
   suppresses `Exception`, which `CancelledError` is not, and skips the removal
   from `_all`.  `_in_use` stays above zero and a later `close()` sits out its
   whole `wait_timeout`.
3. *A truncated reply is returned* (`tcp_truncated`).  The end of the stream
   ends the read loop and what was read is returned.  The parser rejects it, so
   no wrong result is accepted (`OwnReply` holds), but the error is that of the
   XML library.
4. *A newline is left for the next reply* (`tcp_leftover_newline`).  If it
   arrives after the end tag it is read in front of the next document; where
   documents start with an XML declaration that one does not parse.
5. *A short reply is accepted* (`batch_short_reply`): a lone response to several
   commands, or fewer responses than commands when one `response_type` was
   given.  The results of later groups then shift.

Met while modelling, plain from the code and left without a run:

- a resumed session ignores the port its client was given (`_resume_factory` has
  none to pass on);
- an empty text in a `Nillable` field becomes the class `OCINil` and not an
  instance of it, and what is sent is the text of that class; the tests clear a
  field with an instance, which works (`ClearsOnRequestOnly`);
- a field that may hold one of two classes (the `endpoint` of the requests that add
  or modify a user) is sent as the text Python prints for its object; none of the
  twelve classes has one;
- a TCP session encodes in UTF-8 a document whose declaration says ISO-8859-1;
- an empty command element among several raises `AttributeError` and not
  `MErrorMalformedResponse` (`ParseError`);
- a `close()` that is cancelled leaves idle sessions open, and a repeated one
  returns at once (`CloseCancelled`, `CloseAgain`);
- a `close()` that sleeps is not woken when a discard inside `acquire()` brings
  `_in_use` to zero (`DiscardDone` notifies nobody); it goes on at the timeout;
- a plain TCP session whose peer hung up counts as alive while a byte is left in
  the reader (`IsAlive`);
- a block that goes on without a bound: `drain()` has no timeout, so a peer that
  stops reading holds a write, its slot, and the callers parked behind it
  (`EveryCallEnds` assumes that writes end);
- a reply that is not XML raises `ExpatError` and not `MErrorMalformedResponse`
  (`ReplyGarbled`);
- in the parser: `OCINil` in a field decodes to a dict of attributes; an empty
  cell is `None` in a field whose name ends in `Table` and `""` elsewhere; a row
  without cells raises `AttributeError`, in a table of its own and in one of a list
  (the only case: `RaisesForEmptyRowOnly`);
  an object without any field set comes back as `""`.  `Carried` in `WireCodec`
  says exactly what does come back.

## <a id="not-modelled"></a>What is not modelled

- `commands/commands.py`: well over a hundred thousand lines of generated data
  classes of the same few shapes, without control flow of their own: fields with aliases, which the
  parser reads, and 653 copies of the same `__post_init__`.  Twelve of them stand
  for the rest in `WireCodec`; to translate more would repeat the same rows, so
  by lines the share of the implementation that is modelled stays small.
  Counted over the whole file, every one of its 46,436 aliases becomes its field
  name under `to_snake_case`, which is what `SnakeCase` says of the twelve.
- `exceptions.py` declares names; the errors a call ends with are values of
  `CommandBatch`.  Protocols and frozen settings have no behaviour.
- Calling `acquire()` and `release()` by hand, twice for one session: the program
  itself goes through `session()` only.
- `last_used` of a session, which nothing reads; logging; `_async_setup`, which is
  idempotent wiring.
- The text of SOAP envelopes and the jar of httpx (a server that gives a resumed
  session a second cookie of the same name makes `pair` raise `CookieConflict`).
- The string helpers of `utils/defines.py` that the program does not call
  (`expand_phone_range` drops leading zeros), and `split_host_port`, whose work
  is done by the standard library; ports.

## <a id="plan"></a>Plan

Done, in this order: `LeasePool` and `SessionPool` with its proofs and the
refinement; `TcpSession`, `CommandBatch` and `SoapSessions` with their proofs;
`WireCodec` over classes of the program, with its proofs; `CommandService` and `PooledCalls`, with
its proofs and the refinement; `RoundTrips`, implemented by `TcpSession`.

What could follow:

1. A count of the requests on each session in `PooledCalls`, with which its use of
   a session could be shown to be a `RoundTrips` too.
2. `CommandBatch` as a refinement of one document of `CommandService`, so that the
   promise reaches down to the single command.
3. A bound on the time a `close()` takes when a session is counted in use for
   ever (`pool_ghost_in_use`), which needs a clock.
4. The string helpers of `utils/defines.py`, once the program calls them.

# Verification of the wire library

`wire` carries requests and replies between a host (client) and an ark (server)
over one byte stream. This directory holds TLA+ models of its concurrent and
fault handling parts, small instances of them for TLC, and proofs for TLAPS.
Paths below are relative to the crate's `src/`.

## The system

From the bottom up:

| Part | Code | What it keeps | What may happen to it |
|---|---|---|---|
| byte stream | `transport/stream.rs`, `io.rs` | phase, number of admitted adapter calls, shutdown callback | reads, writes in parts, several closers at once |
| framing | `transport/framing.rs` | writer's resync flag; reader's buffer, offset, search index, discard flag | sends that fail after any byte, reads of any size, oversized frames |
| outbound, sender | `transport/outbound.rs`, `sender.rs`, `sealing.rs` | binding of the stream to a session; encryption, writer and binding locks | many sending threads, disconnects, a handshake that replaces the session |
| transport client, server | `transport/client.rs`, `server.rs`, `handshake.rs` | keys of the session, receive contexts, pending reset | attempts abandoned half way, stale answers, lost notices |
| session | `protocol/session.rs`, `operation.rs`, `envelope.rs`, `responder.rs`, `requester.rs` | queues, operations, routes, reserved IDs, limits, byte counter | responses, write results, deadlines, drops and closure in any order |
| promise | `protocol/promise.rs` | result channel, callback, notification lock | publication against `notify`, `wait` and drop |
| envelope codec | `protocol/envelope.rs`, `message.rs`, `generated/` | nothing | builds that know different contents, envelopes of other implementations |
| memory pipe | `memory/mod.rs` | bytes of one direction, open ends, lost flag | blocking reads and writes, deadlines, each end closed twice |
| server | `protocol/server.rs`, `closer.rs` | attached session, session offered to `accept`, policy | replacement of a session against closes from other threads |

A session has a writer and a deadline worker; a client session also has a
reader, a server one reader for all of its successive sessions. Application
threads submit requests, receive, reply, wait and close. The reader routes
frames into the session; the writer sends through a `Sender`, which can outlive
the session it was made for. Closing a client session, or a server, closes the
stream, which waits for adapter calls in progress.

What makes each part correct:

- **stream**: `close` returns only when nothing runs in the adapter any more,
  and then nothing starts again; the callback runs once.
- **framing**: what is read is a function of the bytes of the stream, and a
  failed frame damages no later one.
- **outbound**: packets of a session reach the wire in the order they were
  sealed; nothing of an old session appears after its end; the end of an old
  session does not touch the new one.
- **handshake**: both ends agree on a session with nothing stale in flight, or
  the client learns that it has none; a new attempt succeeds whatever earlier
  ones left behind, and a client that speaks in an ended session is told.
- **session**: every operation gets one result, as documented; every accepted
  request is owed exactly one answer; limits hold; no thread sleeps while it
  has work.
- **promise**: a callback runs after the result, once, and waiting does not
  lose it.
- **codec**: an envelope is refused only if it is malformed, and content of
  another build is answered and not refused.
- **two sessions**: a promise gets the peer's answer to its own request, and
  dropping one session ends both.
- **memory pipe**: bytes arrive in order, all of them before the end of the
  stream; `flush` reports a loss; nobody sleeps with something to do.
- **server**: one live session at a time, none after a close, each with the
  policy in force.

## Modules

| Module | Models | Used by |
|---|---|---|
| `Session` | one session; each critical section of its state lock is an action | `MCSession`, `SessionProofs`, `SessionContractProofs` |
| `SessionContract` | what a session promises the application | `Session` (refinement `KeepsContract`) |
| `Wakeups` | the session's condition variable | `ConnectionProofs` |
| `Promise` | publication, callbacks, waiting and dropping | `ConnectionProofs` |
| `Server` | `accept`, `attach`, setters, `close`, reader loop | `ConnectionProofs` |
| `Stream` | admission, shutdown, reads and writes | `MCStream`, `ConnectionProofs` |
| `Outbound` | locks, binding, sends, endings and handshake output | `MCOutbound`, `ConnectionProofs` |
| `Framing` | frame writer, bytes, frame reader | `TransportProofs` |
| `Handshake` | client and server over one stream | `HandshakeProofs` |
| `MemoryPipe` | one direction of a memory duplex | `TransportProofs` |
| `Envelope` | encoding and the two stages of decoding | `Exchange` |
| `Exchange` | a client session and a server session with their applications | `MCExchange`, `ExchangeInvariant`, `ExchangeSteps`, `ExchangeProofs` |

The `MC` modules give constants their values. Theorems are in the `Proofs`
modules, lemmas also in `ExchangeInvariant` and `ExchangeSteps`, on which
`ExchangeProofs` builds. `TransportProofs` extends two components and
`ConnectionProofs` five, which is why the specifications of `Framing`,
`MemoryPipe`, `Promise`, `Stream`, `Server` and `Wakeups` carry their
component's name (`FramingSpec`, `PipeSpec`, `PromiseSpec`, `StreamSpec`,
`ServerSpec`, `WakeupsSpec`). `PROJECT.json` maps each definition to
its source lines. A definition that stands directly before the one it resembles
(`EndAtOnce` before `EndWaits`) is that operation with a plausible bug; the
properties are checked to fail with it.

### How the models correspond to the code

**Session.** Variables carry the names of the fields of `State::Open`;
`status` is `Open` or the first closing reason. An operation is a number
(`OperationKey`), `outgoing` holds the queued ones (their order is that of
their keys), `due` those whose deadline has passed. `pc` says where `recv`, the
reader and the writer are between two critical sections. The peer is
unconstrained: any envelope, well formed, unknown or malformed, may arrive at
any time. Where a function takes the lock twice (`autoreply`, `run_writer`,
`finish_close`) there is a step for each. A closed session's queue is dropped
after the lock is released (`removed`, `finishing`), because its byte charges
live until then; the closing of the stream that follows is the end of that
step on a client and is modelled in `Stream`. The timeout of an automatic reply only
matters as late or not late, which is chosen. The writer's panic on exhausted
IDs aborts the process (`abort`).

**Wakeups.** The same session, reduced to what the waiting conditions read and
extended by what `Session` leaves out: who sleeps, and the `notify_all` that
comes after the lock is released (`owed`). Repeated notifications by one thread
are merged, which only removes wakeups. Spurious wakeups are left out: all
waits recheck their condition.

**Promise.** The thread that settles holds the session lock, publishes under
the notification lock, and runs the callback after releasing both. The callback
takes the session lock, as a callback that submits work does.

**Server.** A session is a number, open or closed, with the policy it was
given. `attach` has the code's four steps: look up the previous session, close
it, install the new one, wake `accept`. `close` has its own, so that a second
closer can overtake the first between any two. Setters take the server by
value, so only its owner sets the policy. What a closing stream waits for is in
`Stream`.

**Stream.** A write is admitted once for its deadline setter, each part and the
flush, so closing may come between any two. Calling `close` from within adapter
I/O is documented as forbidden and is not modelled.

**Outbound.** A sealed packet is its sequence number. `SendSeal` takes the
encryption lock, `SendLock` the writer lock before it releases the former.
`fence` records how many sessions had been bound when the owner, or a failing
sender, last wrote a handshake frame or a notice. `Retained` is the upgrade of
the weak handle.

**MemoryPipe.** A turn of the loops in `read` and `write` holds the lock once and
either returns or sleeps; the `notify_all` that follows a change is a step of
its own, since it runs after the lock is released. Each end is closed by the
shutdown of its endpoint and by the drop of its half. A deadline is none, ahead
or past. `flush` changes nothing, so it is the predicate `FlushFails`. The
other direction of a duplex is another instance that shares no state.

**Envelope.** An encoded envelope is the sequence of its top-level fields. The
rules of Protobuf are external: the last ID wins, unknown tags are skipped.
`Schema` gives each side the content tags its build knows; `Tags` are those of
the repository. `DecodeHeader` works on opaque bodies as the reader does, and
`Decode` on whole ones as `recv` and `wait` do.

**Exchange.** Two sessions, each a record of what `Session` has in separate
variables, in coarse steps: what one thread does before it blocks or hands over
is one step. It adds what `Session` leaves out: real envelopes from a real peer,
the weak and strong references that decide when a session is freed, and the
typed result of `wait`. A client's stream closes with its session, so the
server reads what was written and then its end; a server's session ends with a
notice on a stream that stays open. The stream may fail: a send fails and closes
the session, a read of the client fails, and a notice is lost, which the code
only logs. `notice` is "due" while the server's session is bound to the stream,
and then says whether the last notice was written. Data that reaches a server
without a bound session is refused and answered with another notice
(`Refuses`). Byte limits and the steps between two locks are in `Session`.

**Framing.** COBS is external: all bytes of a frame are nonzero, and here each
carries the number of its send. The writer's output fails after any prefix,
with a late flush after all of it. The reader is translated with its buffer,
compaction and indices; `Frames` is an independent reference that cuts the whole
stream byte by byte (`Scan`, a recursive function of the index). `carried` keeps
every byte the stream accepted. Reader and writer together give end-to-end delivery. The
direction is the client's, whose stream may begin with leftovers of an earlier
client, as its first output is a reset.

**Handshake.** A direction is a queue of frames and an unterminated tail, as
`Framing` shows. Each attempt of the client and each answer of the server has
fresh keys; a frame names its keys and only they open it. Failures are failed
writes, failed reads of the client, timeouts and refusals, and `MaxFaults`
bounds them. A restarted
handshake of the server keeps its first deadline; here that deadline may pass
at any moment.

## Runs

All runs pass. `CHECK_DEADLOCK FALSE` is set because sessions, streams and
servers really end, and a behaviour that has used up its bounds stops.

| Run | Bounds | States | Shows |
|---|---|---|---|
| `SessionRequests` | client, 3 requests, IDs up to 3 (exhausted by the third), 2 peer IDs | 428k | results are final and as promised, routes are right, expired work is not sent |
| `SessionReplies` | server, 2 operations, peer IDs 1 to 3, lowered limits, not beyond `Charging` | 2.8M | one holder of every accepted ID, limits, exact byte counter |
| `Wakeups` | 2 operations, 1 queued request | 64k | no wakeup is lost, expiry is served, `recv` returns, workers stop |
| `Promise` | 2 promises | 3k | callbacks are not early and not lost |
| `Server` | 2 closers, reader, owner, 3 sessions, 1 policy change | 58k | replacement, closing, policy, `accept` and reader wake |
| `StreamShutdown` | 3 closers, writes of 2 bytes | 3k | one orderly shutdown that ends |
| `OutboundClient` | 3 threads, 2 sessions, 3 packets each | 357k | writes are bound, nothing stale follows a reset |
| `OutboundServer` | 2 threads, 2 sessions, 3 packets each | 259k | wire order, endings hit their own session, no deadlock among the three locks |
| `Framing` | frames of 2 bytes, 3 sends, 4 leftover bytes | 173k | reading is independent of chunks and failures |
| `Handshake` | 3 attempts, 2 messages, 2 faults | 54k | clean sessions, told losses, successful reconnects |
| `MemoryPipe` | 2 byte values, buffer of 2, calls of up to 2 bytes, 3 bytes in all, 4 closing calls | 996k | order and completeness, exact `flush`, no forgotten sleeper, blocked calls return |
| `Exchange` | 2 requests or 1 and a foreign envelope, 2 inbound requests at the server and 1 at the client, 7 foreign envelopes, 1 content unknown to each side | 4.4M | answers match requests, refusals are deserved, a drop ends both sides unless the last notice is lost |

Why the bounds are enough for the cases of interest. Three requests let one be
written, one queued and one answered at a time, and exhaust the IDs. Two
operations on a server let an ID be reused while its old reply is being written;
of its peer IDs 1 and 3 are requests, so that the second can exceed the lowered
limit of one, and 2 is a response.
That run does not go on from a closed session whose byte counter is zero
(`Charging`): it admits and charges nothing any more, and `SessionRequests`
follows closed sessions to their end. Three closers give a first, a waiting and a
late one. Three threads let one write, one wait with a sealed packet and one
disconnect (on a server two are enough for the order of two packets and for the
locks); two sessions are an old one and its replacement. Three sends give a
failure between two others, and frames of two bytes with four leftovers fill,
overflow and compact the reader's buffer. Three attempts leave stale answers of
two earlier ones. A buffer of two bytes is empty, partly full and full, and a
third byte has to wait. Two requests can be answered out of order, time out
between their peers, or exceed the client's limit of one; a foreign envelope
meets none or one of them, with its ID or another. Threads are symmetric where
only invariants are checked (`OutboundClient`), never with liveness.

### Fairness

- `Wakeups`: runnable threads run, callbacks return promptly (documented at
  `Promise::notify`), timed waits end. Sends may block for ever, except in
  `WorkersStop`, which has the assumption that they end as its premise: every
  frame has a write timeout.
- `Stream`: closers run; adapter calls return once the callback has run, as
  `io.rs` demands of an adapter. Nothing is assumed of calls before it.
- `Outbound`: strong fairness of each thread's steps, because a mutex is not
  withheld for ever from a thread that waits for it, and writes of the owner
  end. The code documents that waiting for the lock has no timeout of its own.
- `Server`: the threads run, the retry delay passes, and a read of a closed
  stream ends.
- `MemoryPipe`: a thread inside a call runs, a pending `notify_all` runs, and
  time passes, so deadlines and timed waits end. Nobody has to read or write.
- `Exchange` has no fairness. `DropReachesPeer` speaks of the states in which no
  worker can move (`Quiet`); each of their steps uses up an item or a worker, so
  they get there. The application may do nothing at all.
- `Handshake`: both sides take what arrives. `StreamRecovers` speaks of
  attempts and messages made when no fault is left.

## Proofs

Theorems hold for every value of the constants that the `ASSUME`s allow: types
of the bounds; for `Outbound` and `Server`, that the owner or the reader is not
one of the other threads; for `Exchange`, what the generated types ensure:
contents are numbered from 256 on, a request is a content, and an answer a
content or an error.

**SessionProofs.** `TypeCorrect` needs only that a thread in the middle of an
operation remembers what it works on (`ThreadsRemember`). For promises every
action is first shown to be of one of two shapes: it settles operations and
takes them out of the map (`Settling`), or it submits a new one (`Submitting`).
With the fact that keys beyond `last_key` are unused (`SubmittedKeys`) this
makes `PendingHasOperation` inductive (`PendingPromisesAreTracked`), and
`PromisesCompleteOnce` and `ExpiredIsNeverSent` follow step by step.

`RequestsAreOwedOnce` proves `OneHolderPerRequest`. The invariant is restated as
a partition of `reserved_ids` (`Shares`), together with the facts that queued
envelopes have different IDs and queued replies too (`DistinctIds`,
`DistinctReplies`). Its strengthening `HolderThreads` says that `recv` holds an
envelope, and the reader an unknown request, only between the critical sections
that need one, that there is at most one such request, and that queued messages
have a kind. Each action then moves an ID from one block to the next or releases
it; lemmas on `IdsOf` say what appending to and taking from the inbound queue
does, `HoldersEnqueue` and `HoldersDequeue` what changes of the outbound queue
do.

`BytesAreAccountedFor` proves `RetainedBytesExact`: `retained_bytes` is the sum
of the charges of all envelopes that exist. Two more facts make it inductive: an
open session has nothing left to drop (`Ledger`), and an unread charge belongs
to a promise that has its response (`ChargedIsSettled`), so that no charge is
overwritten when a result is published. Lemmas on `Total` say what a sum becomes
when a sequence grows at its end, loses its head or changes in one place; each
action then moves a charge from one sum to another, adds the one that the
reader reserved, or releases one.

**SessionContractProofs.** `ResponsesFindTheirRequest` needs `AssignedIds`: the
IDs given to requests lie behind `next_id`, are all different, and belong to
messages that have left the queue, the one in the writer's hands included. So a
route inserted or removed by the writer or the reader is that of one request.

`SessionKeepsContract` proves the refinement of `SessionContract` for every
value of the constants. Every action is of one of four kinds: it accepts an
operation, completes some, closes the session, or does nothing the contract sees
(`StepIsOfAKind`). This needs `PromiseInv`, `RouteInv` (what a response settles
is a request), and that a closed session has no operations left
(`ClosedIsEmpty`).

`LimitsHold` shows that all actions but admission only shrink what is counted or
close the session; it needs that `reserved_ids` is finite.

**ConnectionProofs, wakeups.** `NoLostWakeup` is inductive with the types
(`NoWakeupIsLost`): whatever gives a sleeper work also owes a notification, and
a notification empties the set of sleepers.

**ConnectionProofs, promises.** `Publication` says that the notification
lock is held exactly while a result is being published, and that afterwards the
hook is taken and the promise is done, unless it has no holder. `Callbacks` says
that a callback is in one place: hook, collected, running at its holder, or run.
The three theorems are their consequences.

**TransportProofs, framing.** The proofs rest on lemmas about `Scan`: scanning
`a \o b` is scanning `b` from where `a` leads (`ScanConcat`), frames already cut
off do not change what is cut off later (`ScanAfter`), bytes that fit extend the
unfinished frame (`ScanGrows`), and nothing but a delimiter counts while an
oversized frame is skipped (`ScanSkips`). `ReaderInv` says that scanning the whole stream
from the start gives what scanning the rest, unread and on the wire, gives from
the state the reader is in: the frames returned, nothing begun, and its discard
flag. With the bounds on its indices and the fact that the region searched holds
no delimiter it is inductive, and `ReadsAreFaithful` follows. Finding a
delimiter is one frame of the scan, an overflow is `MaxFrame + 1` bytes of it,
and a read moves bytes from the wire to the buffer, which changes nothing.

`SendInv` says of every send what the scan tells about it: of a successful
packet exactly one frame with its bytes, its content; of a failed one none, or a
prefix of it, in a frame or still unfinished at the end of the stream (`Told`).
Its strengthening is that after a successful send the scan is between two frames
(`Clean`), which is what the recovery delimiter restores after a failed one. A
send's bytes carry its number, so no frame is mistaken for that of another send.
From it come `SendsArrive` and `SignalsArrive`.

**TransportProofs, the memory pipe.** `PipeInv` joins the types and the
three properties. The data part splits the accepted bytes into delivered and
buffered ones while nothing is lost, which needs associativity of concatenation
and that a delivery splits the buffer. `SleepersAreWoken` needs that a step
which ends a sleeper's reason to sleep leaves its thread at `notify`.
`FlushIsExact` needs that an open reader has lost nothing.

**ConnectionProofs, outbound.** `Inv` joins five facts: the writer lock is held
by exactly the thread that writes or notifies; the encryption lock by exactly
the thread that waits with a sealed packet; contexts in use were bound; the
binding is none or the newest session, lies beyond the fence, and is the one of
a write in progress; and the sequence numbers sealed, waiting and written of a
session are consecutive. The theorems `WireOrder`, `WritesStayBound`,
`BoundariesHold`, `NoticesAreDue` and `SuccessorIsSafe` are its consequences.

**ConnectionProofs, the stream.** `StreamInv` says that `active` counts exactly
the calls in progress (`ActiveExact`), that a closer in the callback or the
drain goes with the phase `Closing` (`CloserKnows`), and that a closed stream is
quiet. From it come `CloseWaitsForCalls`, `ShutdownRunsOnce` and
`ClosingAdmitsNothing`.

**ConnectionProofs, the server.** `ServerInv` says that sessions before the
attached one are closed and none after it was accepted (`Succession`); that at
most one started session is not attached, and that `attach` installs it only
when the attached one is closed (`Attachment`); and that a thread in `close` has
closed the door first and closes the session that stays attached (`Closing`).
`SessionsSucceed`, `ClosingIsComplete` and `PolicyReachesSession` follow.
`Attachment` needs that a reader which closes the server does nothing else
meanwhile.

**HandshakeProofs.** Neither property is inductive: what is on the stream when
the two ends agree was put there by attempts that failed. `Inv` adds what
earlier attempts can have left. `Places` ties the steps of each side to its
keys, counters and writer (a side in a handshake has no session, a bound side no
failed write behind it). `KeysAreFresh` bounds all keys in flight by the
attempts and answers made so far, and says that the keys of a running attempt
seal nothing yet but its hello and its answer; this is what makes a stale frame
recognisable. `NothingAfterArk` says that the ArkHello a server waits on is the
last frame it wrote, so a client that takes it has emptied its direction.
`MessagesFollowAck` says that behind an unread HostAck come the client's
messages in order and nothing else, so a server that takes it finds a clean
direction. With these, `Clean` and `LostIsTold` are preserved by every action,
one lemma for each conjunct. A write is either whole, partial or none, so the
lemmas on what each leaves in a direction come first.

**ExchangeProofs** with `ExchangeInvariant` and `ExchangeSteps`. The properties
join what one side asked, what is on the wire and what the other side did, so
`Inv` follows an envelope through every place it can be in. On one side, for any
envelopes of a foreign peer: what is queued is a request that was made or an
answer that was given (`QueueOK`); requests are sent under IDs of their own, and
every route names the request sent under its ID (`Asking`, `Sending`,
`RoutesOK`); what waits for `recv` and what waits for `wait` has passed the
header check (`AdmittedOK`, `RespondedOK`). Between two peers of this code
(`foreign = 0`): each message on the wire carries a request that was sent or an
answer that was given (`WireOK`); what is queued for `recv`, held by a
responder, ready in a promise or returned by `wait` goes back to one
(`IncomingOK`, `HeldOK`, `ReadyOK`, `DoneOK`); content the answering build does
not know is answered `UNKNOWN`, and other content is not unless the application
chooses that code, which the interface allows (`AnswersOK`); and requests arrive
in the order of their IDs, behind those in use (`OrderOK`), which is why no ID
is met twice. `Ending` says what a worker that has stopped leaves behind, and
that a notice which was written is still on the wire unless the client's
session has ended. Lemmas
on the codec say what the two decoders make of an encoded envelope and of any
other. There is one lemma for each step; lemmas on what closing, shrinking a
session or taking from the wire preserves are shared by them. From `Inv` come
`PromisesGetTheirAnswers`, `MalformedOnlyIfDeserved` and `DropsReachPeers`.

**Sums and scans.** `Total` and `Scan` are recursive functions of an index. The
library's induction theorems take the property as an operator, which the provers
cannot instantiate. `LeastNumber` (a non-empty set of numbers has a least
element, from the well-foundedness of `<`) takes a set instead, and so does
`SetInduction`: for a fixed function, the set of indices with the wanted fact is
all of them. That the recursive definition is satisfied by a function at all is
shown the same way (`TotalSums`, `RunExists`).

Only model-checked: all liveness (fairness and `ENABLED` are beyond the prover).
Every invariant and every action property that a run checks is also proved, and
so is the refinement of `SessionContract`. The type invariants of `Session`, `Stream`,
`Wakeups`, `Outbound`, `Server`, `Promise`, `MemoryPipe`, `Handshake` and
`Exchange` are proved and therefore not checked again by the runs, and so are
`OneShutdown` and `NoSpuriousNotice`.

## Not modelled

- Cryptography, COBS and the byte format of Protobuf: pure functions of
  libraries, taken as ideal. The fields inside a payload are the application's
  data.
- The clock: a deadline has passed or it has not.
- `worker.rs`: a panic aborts the process, after which there is no state. What
  a worker's end releases is in `Exchange`.
- Error wording, logging, mocks, fuzz targets, benchmarks, the generator.

## Plan

The order is that of importance for users of the library: results of
operations and their races, closing, output order and session boundaries, then
recovery of the transport, the server around it, the codec between two builds
and the memory pipe. All of these are modelled, and their safety is proved.

# peerce in TLA+

A specification of peerce, peer-to-peer data transfer over UDP with a
coordination relay, checked with TLC and, for its safety, proved with TLAPS.
Paths below are relative to the repository's `src/`.

- `tlc -workers 2 -config <run>.cfg <module>.tla` checks a run (listed below);
- `tlapm <module>Proofs.tla` checks a module of proofs;
- `PROJECT.json` lists the runs, which lines each definition translates, the
  hazards the properties are for, and the theorems.

## The system

| Part (source) | State | Operations | Hard behaviour |
| --- | --- | --- | --- |
| Data transfer: `transport/session/behaviors/connected.ts`, `sendData` | per message: `dataAckMap`, `greatestSequentialAckNum`, `resendTimer`, `isResending`, fin/cancelled; `messageCollector` | send, receive DATA and DATA_ACK, resend timer and its sleeping loop, collector expiry, `onExit` | loss, duplication, reordering; acknowledgements while the resend loop sleeps; expiry after acknowledgement; limits; closing in the middle |
| Session: `transport/session/` | state of the state machine, retries, last KEEP_ALIVE | connect, close, HELLO, HELLO_ACK, KEEP_ALIVE, FIN, retry / keep-alive / FIN timers | half-lost handshakes, crashes, datagrams left over from an earlier session of the same addresses |
| Transceiver: `transport/transceiver.ts` | `sessionMap`, socket, `listenPromise`, `closePromise` | listen, connect, route a datagram, close a session, close, fail | errors while closing or binding; a session created by a late HELLO |
| Relay: `simple/simpleRelay.ts` | `requestMap` | request, match, set up proxies, expiry sweep, session closed, close | the sweep awaits inside its iteration; peers read before an await and used after it; expired entries met by a request |
| Peer: `simple/simplePeer/` | state machine, `closePromise`, premature-close promise | request a session, send a file, close | listeners registered once, events of the wrong address, closing at each await |
| File chunks: `connectedToPeer.ts`, `chunkPeerToPeerMessages` | `chunkCollector`, one loop per file | begin a file, next chunk, receive a chunk | interleaved loops, chunks out of order and delivered again |
| Key material: `simple/simpleUtils.ts`, `connectingToPeer.ts` | `known-tags.json`, `keys.json` | look up, upsert through a queue, generate a key pair | look-up and update are not atomic; readers that take every error for "nothing there"; a crash while writing |
| Codec: `transport/messageBuffer.ts`, `utils/bufferUtils.ts` | none | construct, decode, chunk, CRC | sizes at the boundaries |

The parts interact as follows. A peer asks the relay, over a session, for the
peer that asks for it; the relay tells each the other's address; both connect a
session to that address at the same time, which opens the NATs; on that session
files travel in chunks, each chunk a message, each message a number of
datagrams. Within a process everything is callbacks on one thread: concurrency
comes from timers, datagrams and code suspended at an `await`.

What makes each part correct: acknowledgements tell the truth, retransmission
neither stalls nor goes on for ever, limits hold (data transfer); a session
connects only to somebody, stays while both ends are alive, and ends when they
are not (session); requests are matched once, mutually, never outlive their
sessions and never leave both sides waiting (relay); files come out whole
(chunks); closing happens once and from every state (transceiver, peer);
concurrent updates are all kept, and a recorded key is replaced only where the code
says "no entry" of a file that has one (known tags).

## The modules

| Module | Models | Extends / uses |
| --- | --- | --- |
| `DataTransfer` | one direction of a connected session | instantiates `MessageChannel` |
| `MessageChannel` | what that direction promises, abstractly | |
| `DataTransferProofs` | its safety, and that it implements `MessageChannel` | `DataTransfer` |
| `SessionPair` | handshake, keep-alive and closing of two ends | |
| `SessionPairProofs` | its safety | `SessionPair` |
| `FileTransfer` | sending loops and chunk collector of two connected peers | composed with `MessageChannel` |
| `FileTransferProofs` | its safety, and that it uses the session as `MessageChannel` allows | `FileTransfer` |
| `Relay` | the coordination relay | |
| `RelayProofs` | its safety | `Relay` |
| `Transceiver` | socket, session map and the shared clean-up of a transceiver | |
| `SimplePeer` | a peer's state machine from the first request to the end | `Transceiver` |
| `SimplePeerProofs` | the safety of both | `SimplePeer` |
| `Vault` | `known-tags.json` with its update queue, `keys.json` | instantiates `TrustStore` |
| `TrustStore` | what a check of a key promises, abstractly | |
| `VaultProofs` | its safety, and that it implements `TrustStore` | `Vault` |
| `MCDataTransfer`, `MCFileTransfer`, `MCRelay`, `MCVault` | constants and symmetry for TLC | |

Definitions marked `MUTANT of X` are plausible bugs in `X`, one for each property
of a passing run. Nothing uses them; put in the place of `X`, they make TLC find
the property violated. They show that each property depends on the code.

### DataTransfer

The variables follow the objects: `tx[m]` is the life of a `Transmission`
(unsent, active, fin, cancelled), `acked` and `greatest` its acknowledgement map
and window, `timer` whether `resendTimer` is armed, and `loop[m]` the index at
which a `resend` loop suspended in `sleep(1)` will go on (`Idle`:
`isResending` is false). `parts`, `bytes`, `age` are a collector entry. An entry
exists exactly when it holds a part, because the handler that creates one stores
a part in it or deletes it. Each action runs from one point where the code
yields to the next: `ResendFrom` is the loop from one sleep to the next, with its
`finally` block; `ReceiveData` has one disjunct per way out of
`collectDataMessagePart`. A handler that cannot be interrupted (`Send`,
`CollectAck`) is one step.

Abstracted: payload bytes (only lengths count), the uid (the message itself; a
collision of two random 32-bit numbers is not modelled, so the total of an entry
always agrees with the datagram's), real time (an armed timer fires at any
time). The network is a set of datagrams: any may be lost, delivered in any
order and, with `MayDuplicate`, again and again.

`MessageChannel` is what an application may rely on. It may surprise: a message
may arrive more than once; the promise of `sendData` ("heard") means no more than
that the message began to arrive; "finished" means delivered or given up by the
receiver, which the sender cannot tell apart.

### SessionPair

Both ends' sessions for each other's address. `st[e]` is the state in the state
machine, "none" when there is no session in `sessionMap` (it is removed as soon
as it is "closed"; "idle" and "error" are not reached on this path: a session is
connected in the handler that creates it). `retries` and `fins` are the loop
counters, `silence` the keep-alive ticks without KEEP_ALIVE. A datagram is a
`<<sender, kind>>` with no identity, as on the wire, so it may be heard by a later
session. `backed` is a history variable that `ConnectedIsBacked` needs; no
guard reads it. The `InTime` guards hold only with `Timely`: then the network is
faster than the time-outs of 3 s and 20 s, which is what "alive" means.

The state machine library (`state-shifter`) is not in the repository. One of its
shifts, that is the current state, `onExit`, and `onEnter` up to its first await,
is one step, as the code of the repository relies on.

### FileTransfer

`chunk[f]` is the chunk whose `send` the loop of `f` awaits, `done` the files whose
last `send` resolved, `collected` the `chunkCollector`, by file name as in the
code. The session below is `MessageChannel`: its actions are conjuncts of this
module's, and its variables are this module's. So what is shown here holds over
whatever implements that contract, and `DataTransfer` is shown to do so.
The resolution of a promise and the continuation of the loop are two steps, which
allows more interleavings than the code has. Both peers have their listeners
registered from the start; that a message may come before is `SimplePeer`'s
affair (`waits`). The content of a chunk is which file
and which number it is, so a file put together from two shows.

### Relay

`pending` is `requestMap` (the peer of each key), `stale` the keys whose entry is
older than the time to live, `sweep[s]` and `awaited[s]` a running
`removeExpiredRequests`: the keys still to visit and the session whose closing it
awaits. The interval fires whether or not an earlier sweep is over, so there may be
several. `jobs` are matched pairs whose proxies are being set up. `Introduce` is
the two sends that end `processSessionRequest`, with what the code does when a
session is gone (the first send throws, the second one is not reached) or not
connected (a rejected promise nobody handles ends the process: `up =
"crashed"`). `waiting` and `told` are histories. Sessions are as `SessionPair`
has them, seen from the relay. The JSON and its validation are left out: a
request that does not parse changes nothing.

### Transceiver

The state, Init and operations of a `TransceiverIPv4`, without a next-state
relation: whoever uses it decides when it listens, connects and closes. `socket`
and `listen` are `this.socket` and `listenPromise`; `closePromise` with what runs
behind it is `cleanup` (how far it is) and `cause` (who runs it: `performClose`,
its `catch`, `performListen` or `onSocketError`), because the end state and
whether the promise rejects depend on that. `sess[a]` is the state of a session in
the map, and `snapshot` the sessions `closeSessions` waits for; how a session
gets from one state to the next is `SessionPair`'s affair, here it just does.
An event may run handlers before the event loop goes on: `Connected`, `Closed`
and `Bound` constrain the socket only and pass the sessions on, and an operation
(`Stays`, `ConnectTo`, `CloseSession`, `Close`) completes the step. A send that
fails with an error other than ENOBUFS or EAGAIN is a socket error.

### SimplePeer

`peer` is the state of the state machine; `step` is the await at which the
coroutine of `onEnter` is suspended (`listen`, `relay`, `keys`, `request`, `tags`,
`conn`, and `leaving` for an awaited `onExit`), or how it ended: `done` or
`threw`. `once` are the two once-listeners of `connectingToRelay`, `watching` is
`onRelayClose` being attached, `closing` is `closePromise`, `outcome` is what
`outcomePromise` resolves to and `reasons` the `onClosing` events. Each
action is an event with all its handlers: `SessionEnds` has one disjunct per
listener that reacts. The relay is what `Relay` shows of it from a peer: it
introduces or closes; `introduced` says that the distant peer knows the address
(also from an earlier attempt, so both values are initial), which is what lets
its HELLO through the NAT. The vault's answer is any of three; reading keys may fail.

Whether `state-shifter` awaits `onExit` before `onEnter` cannot be told from the
repository. `waits` chooses either, once and for all, and every property but
`ConnectedHasSession` holds in both cases.

### Vault

`known` and `index` are the two files, `Torn` from the truncation of `writeFile` to
the end of its write; that never comes if the write fails or the process ends.
An absent file is the empty one. `pc[p]` is where a peer is in
the check of the distant key: the look at the file, outside the queue; the verdict,
or the queueing of an update; then reading, truncating and writing, one update at a
time, each of which may fail. The two readers that catch every error may find
nothing in an intact file too: the first look (`Findings`; the `catch` of
`getKnownTagsEntry` at `simpleUtils.ts:148`) and that of `keys.json` (`ReadIndex`;
the `catch {}` at `simpleUtils.ts:198`). The update's own reading does not: it fails.
`Restart` ends the process between any two steps and the peers begin anew; the files
stay. Generators (`createAndSaveKeyPair`) are processes of their own, named by the
pair they make. `first`, `unsure`, `disputed` and `careless` are histories: a peer is
`unsure` whose look overlapped with another one's check or missed an entry, and a
tag `disputed` that such a peer recorded.

`TrustStore` is what this should amount to for a peer: a table that a check
consults and extends in one step, without files, queue or damage. A check of
`Vault` is a check of the table from its first look to its verdict; the table is
`first`, and the moment at which a key goes on record is the end of the write.
Only checks that are unsure may record a second key: those that overlap, and those
that miss the entry (in `TrustStore`, `Begin` allows that of any check).

## The runs

| Run | Shows |
| --- | --- |
| `transfer_safety` | type invariant, `AcknowledgedIsHeld`, `FinishedMeansDelivered`, `ResendPending`, `WindowRespected`, and that `DataTransfer` implements `MessageChannel` |
| `transfer_limits` | `OnlyDeliverableEmitted`, `CollectorBounded` at and just over the limits |
| `transfer_liveness` | `EventuallyDelivered`, `EventuallyFinished`, `StaleEntriesExpire` |
| `session_alive` | `KeptAlive`, `HandshakeSucceeds` with the code's own constants |
| `session_faults` | type invariant, `ConnectedIsBacked`, `OneSidedResolves`, `TransientEnds` under loss, crash, close and restart |
| `peer` | type invariant; of the transceiver `SessionsCanSpeak`, `EndIsClean`, `PromisesSettle`; of the peer `OneReason`, `OutcomeMatchesReason`, `ConnectedHasSession`, `AttemptEnds`, `ClosingEnds` |
| `vault` | type invariant, `TagsSound` (that is `AcknowledgedKept` and `FirstKeyStays`), `DamagedStays`, `KeysSound`, and that `Vault` implements `TrustStore` |
| `files_distinct` | type invariant, `IntactFiles`, and `FilesArrive` |
| `files_same_name` | `IntactFiles` violated when a name is used again (finding) |
| `relay_safety` | type invariant, `PendingHasSession`, `NeverBothPending`, `MutualIntroductions` |
| `relay_settle` | `EntriesSettle`, and `UnsoughtDisconnect` for two addresses with the same tags that nobody asks for |
| `relay_late_match` | `PendingDisconnects` violated when the counterpart asks late (finding) |

### Bounds

- `transfer_safety`: a message of three parts, an empty one and one of four parts,
  one more than the receiver's limit allows; a window of two; expiry after one
  idle tick. Three parts are one more than the window, so it slides, and every
  order of their acknowledgements occurs. (The resend loop reaches one part less
  than the window, so two is the least window that works.) Duplicated datagrams
  stay in the set, so they arrive any number of times.
- `transfer_limits`: part size 2 and limit 3, so 4 bytes pass the limit on parts and
  break the one on bytes, as do sizes just over 10 MiB, which is no multiple of
  800. Two messages of two parts contend for one slot. Duplicates come from
  retransmission only.
- `transfer_liveness`: a two-part and a one-part message; liveness costs more, so
  no duplication by the network. Duplicates by retransmission remain.
- `session_faults`: two retries, two FINs and one silent tick. A counter's only
  roles are "some left" and "none left". `session_alive` has the code's 10, 5 and 4.
- `files_*`: a file of two chunks and one of a single chunk, or two versions of one
  file. Two chunks suffice for a stale one, a reordered one and a missing one.
- `relay_*`: `MaxRequests` bounds the requests in one session of a peer (two: a
  repeated request replaces its entry). A map of one entry reaches the limit.
  In `relay_safety` every match sets up a proxy; setting up may end at once, so
  the immediate introduction is one of its behaviours, and two sweeps (`Sweeps`)
  may overlap. In `relay_settle`, where liveness costs more, one sweep runs at a time;
  two peers that ask for each other are matched, and of two addresses with the same
  tags one takes over the other's entry.

- `peer`: two addresses, the relay's and the distant peer's, which are all a peer
  speaks to; `MaxSessions` is not reached by a peer. What makes `connect()` throw is
  then the distant peer's HELLO having come first, or a clean-up.
- `vault`: two peers, two tags, two keys, two generators. Two peers meet on one tag or
  on two, and restart without bound, so a tag recorded before the restart is met
  after it. A queue of two has an update that waits for one that fails. Peers, tags,
  keys and generators are each interchangeable: no definition tells one from another
  (a peer that has not begun asks for `NoRequest`), so the run declares them symmetric.

Runs with `CHECK_DEADLOCK FALSE` are of systems that may stop: everything is
delivered, both peers left, the relay is closed or crashed.

### Fairness

- Timers and continuations (`ResendTimerFires`, `ResendWakes`, `CleanupTick`,
  the ticks of `SessionPair`, `Continue`, `SweepStart`, `SweepVisit`): weak fairness.
  Node runs every timer that is due. `Expire` too: time passes.
- Datagrams (`ReceiveData`, `ReceiveAck`, `Receive`): strong fairness. A datagram
  that is resent for ever may be lost often but not always. Nothing is assumed of
  one that is sent once.
- `FileTransfer` assumes of its session weak fairness of delivering and hearing what
  has not been: what `EventuallyDelivered` shows of `DataTransfer`. `FilesArrive`
  excepts the runs in which the session gave a message up.
- `SimplePeer`: weak fairness of what awaits a promise of Node (bind, close, reading
  files), of the end of a session that connects (its retries are limited) or closes
  (so are its FINs: `TransientEnds`), and of an introduction that arrives while the
  relay's session lasts. Of the relay it assumes that a request is matched or
  its session closed: the relay's sweep is there for that (but see the first finding).
- Nothing obliges an application to send, ask or close, or a process to crash.

## The proofs

All for every value of the constants, under the named assumptions on them
(positive sizes and counts; two ends; no request for oneself; a relay and one distant
address; values for "no entry" and "torn" that are not keys or files).

- `DataTransferProofs`. `IInv` adds to the checked invariants what makes them
  inductive: parts in flight lie below the window's end, which only grows; the
  loop's index does; a collected part is a part of its message; an
  acknowledgement, in flight or recorded, is of a part that is held or whose
  message was emitted or given up. From it follow the safety invariants of
  `transfer_safety`, with the limits of one entry (`Limits`) `CollectorBounded`, and
  with a step-by-step mapping of actions (`ImplementsChannel`) that the protocol
  implements `MessageChannel`.
  `OnlyDeliverableEmitted` needs the count of bytes. A sum over the parts held
  would need induction; but every part except the last has the same length, so
  `Accounted` states `bytes` in closed form: as many times that length as there are
  parts, less what the last one is short of if it is held. A complete entry then
  has exactly `Size` bytes, and has passed the limit. `ExitSilences` is an action
  property: after `onExit` no transmission is running and the collector is empty,
  so the resend loop that wakes up and the datagrams that still come do nothing.
- `SessionPairProofs`. `ConnectedIsBacked` is not inductive: a connecting session
  that nothing backs must not find an answer under way. `Unanswered` says that, and
  that a connecting session has a retry left.
  `NeitherTakenForDead` proves `KeptAlive` from `Calm`: no loss, crash or closing, a
  network faster than the time-outs, and more than one retry and one silent tick.
  These are the constants of `session_alive`, and the code's: ten retries, four ticks.
  (With loss or a crash `KeptAlive` is not meant to hold; with a single retry or tick
  it is false, since that is used up before an answer can come.) The invariant
  `CalmInv` is about what is under way before a time-out is due: a HELLO or its
  answer while an end connects, a KEEP_ALIVE while it counts silence.
- `FileTransferProofs`. `OneUnheard` follows from: a chunk not yet heard is the one
  its loop awaits. `FilesIntact` assumes that no two files have the same name;
  then the collector holds under a name only chunks of that file, and as many as it
  has are all of them. Without the assumption the theorem is false
  (`files_same_name`). `UsesSession` is the composition: each step of the two peers is
  a step of `MessageChannel` or leaves its variables alone, above all because a loop
  asks for chunks that its file has and for no others. With `ImplementsChannel` the
  results stand on the code of both layers.
- `RelayProofs`. `MutualIntroductions` needs that an entry is filed under its peer's
  tags and that a job joins two peers that asked for each other; `PendingBounded`
  needs that the entries are finite.
- `SimplePeerProofs`. `TInv` is about the transceiver alone. Before a clean-up
  begins, state, socket and `listenPromise` go together; from then on no session is
  opened, so those that `closeSessions` found are all there are until the socket is
  closed; and the state is final exactly when the clean-up is settled. An event is
  shown to pass on a session map the application cannot have enlarged, and whatever
  a handler comes to is one operation on it, so that the proof has one case per
  operation and not one per handler. `PInv` is about the reasons: until the relay is
  reached nothing watches its session and no shift is held up, so only the
  application can have closed the peer. `OInv` follows the outcome along the
  coroutine: a step at which it can still be settled has not settled it, and the
  first report of a reason concludes what it may become (`Concluded`), wherever the
  coroutine is suspended then. That gives `OutcomeMatchesReason`.
  `ConnectedHasSession` follows from `Attended` and from the ways in which `connect()`
  can throw: with room for more than one session (the code has 1024; with a single one
  the property is false) and before a clean-up, only a session that is already there
  can be the cause. `EndIsForGood` is an action property: a transceiver whose clean-up
  has settled has no session and no handler, so no event or call changes it.
- `VaultProofs`. The two files have an invariant each. That of `known-tags.json`
  follows what a peer has read: what an update is about to write agrees with the
  history on every other tag (only the head of the queue is updating, which
  `QueueMoves` in `TypeOK` states), and what a peer that is not unsure saw at its
  first look still holds: it is alone (`AloneUnlessUnsure`), and the look did not fail
  on an entry (`LookMeans`). That of `keys.json` says that a key pair is in the index
  only after both its files, and that, while generations do not overlap and each reads
  the index as it is, the index a generator extends names every key pair that was
  reported saved. `ImplementsStore` maps the steps: a look begins a check, a verdict
  after it is about the key on record (`LooksAgree`), the end of a write records it,
  and of a peer that is not unsure `SeenStillHolds` says that none was on record.
  Everything else is not seen.

Every invariant and every action property of a passing run is proved, under the
hypotheses named above, and so are both refinements. Only model-checked:

- liveness, which is out of the prover's reach: `EventuallyDelivered`,
  `EventuallyFinished`, `StaleEntriesExpire`, `HandshakeSucceeds`, `OneSidedResolves`,
  `TransientEnds`, `PromisesSettle`, `AttemptEnds`, `ClosingEnds`, `FilesArrive`,
  `EntriesSettle`, `UnsoughtDisconnect`;
- that files arrive over a session that is `DataTransfer` itself rather than its
  contract: the fairness that `FileTransfer` assumes is what `EventuallyDelivered`
  shows, but the two are not composed in a run.

## Findings

1. *A late match strands a peer* (`relay_late_match`, `simpleRelay.ts:200`). A
   request that has expired and is met by its counterpart before the sweep is
   deleted without closing its peer's session. That peer is never disconnected,
   against the title of the test at `tests/integration/disconnection.test.ts:161`.
2. *A reused file name mixes two files* (`files_same_name`,
   `connectedToPeer.ts:51`). A chunk delivered again after its file was complete
   begins a new entry; the next file of that name is completed with it. A chunk of
   one datagram whose acknowledgement is lost is enough.

Exceptions that properties state, where the code does something else than its
neighbouring comments or tests suggest:

- `OneReason`: `close()` while the relay's session connects reports SELF_CLOSE and
  then RELAY_UNAVAILABLE (`connectingToRelay.ts:37` does not look at the state; the
  cases of `disconnection.test.ts:150` expect one reason each).
- `AttemptEnds`: a peer known from before whose session opens or closes first takes
  the once-listener off, and the peer waits in `connectingToRelay` for ever.
- `ConnectedHasSession` says no more than that a session exists: when `connect()`
  throws, `value` still holds the first race's result (`connectingToPeer.ts:224`), and
  the peer is "connected" before its session is.
- `OutcomeMatchesReason`: `requestSessionViaRelayAsync` settles on a connection, a
  failed negotiation or an exception only; after RELAY_UNAVAILABLE, RELAY_CLOSE,
  PUBLIC_KEY_MISMATCH or an early `close()` it stays pending. The distant session's
  end while connecting is reported as RELAY_CLOSE.
- `FirstKeyStays` (and `TrustStore`): a peer that looks at the file while another one
  of its process checks a key may see it before an update or torn, and records another
  key. So does one whose look fails though the file has an entry, for
  `getKnownTagsEntry` takes every error for "no entry" (`simpleUtils.ts:148`) and the
  update that follows reads the file anew: if that succeeds, the recorded key is
  replaced and the new one trusted, without `onPublicKeyMismatch`. The repository's own `README.md:105` has
  "trust on first use (TOFU) to associate a remote tag with its first observed public
  key", and `README.md:107` that a changed fingerprint "produces `onPublicKeyMismatch`
  and closes the peer".
- `KeysKept`: overlapping generations drop pairs, and so does one that finds
  `keys.json` torn or cannot read it: the `catch {}` at `simpleUtils.ts:198` begins a
  new list, which then replaces the old one.
- `UnsoughtDisconnect`: a request with the same tags from another address replaces the
  entry of the first peer and leaves its session open (`simpleRelay.ts:213`). The sweep
  then closes the other one's session only, and the first peer waits until it closes,
  against the title of the test at `tests/integration/disconnection.test.ts:161`.

Observed, with no promise in the repository to hold against it: a `send` of the
relay to a session that is closing ends the relay's process; a proxy that fails
leaves both peers without an answer; the promise of `sendData` never settles when
the session closes before the first acknowledgement.

## Not modelled

- The file-level cryptography and CRC-32 (pure functions of libraries or bytes),
  logging, argument parsing, exports, the tests' lossy proxy.
- The state machine library, except as described above.
- Behaviour on uid collisions, and on datagrams no peerce sends.

- Two processes with one vault: their queues do not know of each other, and they may
  overwrite each other's updates. The repository gives each peer a vault of its own.
- The byte layout of `MessageBuffer`: a pure conversion. Its chunk arithmetic is in
  `DataTransfer`.
- In `SimplePeer`: several distant addresses, and an introduction that names an address
  with which the peer already had a session of another kind.

## Roadmap

1. `Codec`: chunking and reassembly against a reference definition over small
   sizes and widths.
2. Composition of `SessionPair` and `DataTransfer`: transfers across sessions.
3. An abstract specification of the relay, which `Relay` implements and the peer's
   assumptions about it are taken from.

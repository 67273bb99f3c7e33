# signal-ts in TLA+

This directory is the TLA+ development kept beside signal-ts, a TypeScript client library for Signal
(`src/src/`). It models the parts of the library whose correctness depends on the *order* of things — what
happens between two `await`s, while a socket dies, while another call holds a lock, after a crash — checks
them with TLC on small instances and proves the most important facts with TLAPS for all instances.

Line numbers refer to `src/src/client.ts` unless another file is named.

## 1. The system

signal-ts is one JavaScript process per linked device. There are no threads: code between two `await`s runs to
its end, and everything interesting is an interleaving of such runs. Therefore **a step of a model is the
synchronous run of code between two awaits**, and a promise that something waits for is settled by a step of
its own.

### 1.1 Components

| Component (source) | State it keeps | Operations | Status |
|---|---|---|---|
| Durable inbound delivery (`client.ts` 2450-2763, `incoming-envelope-store.ts`) | admission queue, drain queue, claims of deliveries that are out, retry timer, prune time; the SQLite table `incoming_envelopes` | listener callbacks, `acceptIncomingEnvelope`, `startIncomingDelivery`, `drainIncomingEnvelopeStore`, a delivery's `ack()`, store `accept/listPending/complete/prune` | modelled, proved |
| Connection lifecycle (`client.ts` 577-1069, 2450-2463, 2734-2751) | `connectionGeneration`, `connection`, `acceptingIncoming`, keepalive timer and in-flight mark, close tasks, incoming tasks | `connect`, `disconnect`, `handleDeadConnection`, `runKeepaliveTick`, close tracking | modelled, proved |
| Session state and sends (`client.ts` 639-800, 1270-2230, `store.ts`) | session records per device, the serialized-mutation chain, the bundles the call manager keeps | content, group, sealed, sync and retry-receipt sends, mismatch repair, decryption, archiving, recovery | modelled, proved |
| Call manager (`calling/manager.ts`) | the one active call, its timers, hangup flag, latest teardown | place, accept, decline, hang up, RingRTC's hooks, media bring-up, finalization, `close` | modelled, proved |
| Call audio (`calling/audio.ts`) | PulseAudio modules and the pacat bridge of a call | setup with rollback, bridge, teardown | partly, in CallManager |
| TURN relays (`calling/relays.ts`) | none | one request | partly, in CallManager |
| Sender certificates (`certificates.ts`) | in-flight request per account and mode, cache in the account record | `get`, `fetchSenderCertificate`, `writeCachedCertificate` | modelled, proved |
| File store (`file-store.ts`) | memory, persist chain, state file and temporary file | `open`, every setter and deleter, `persist` | modelled, proved |
| Memory store, store adapters (`memory-store.ts`, `store.ts`) | maps | get, save, remove, list | partly, in SessionSend |
| Device linking (`link-device.ts`, `prekeys.ts`) | where the call is, its connection; four records it stores | `linkSignalDevice` | modelled, proved |
| Provisioning (`provisioning.ts`) | address and envelope promises, timeout, abort, connection | `startSignalDeviceLinkSession`, `disconnect` | modelled |
| Envelope cryptography (`crypto.ts`) | none of its own | encrypt, decrypt, pad, strip | partly, in SessionSend and MessagePadding, proved |
| Attachments and CDN (`attachments.ts`, `signal-cdn-fetch.ts`) | an upload, its form and pointer | upload, download, encrypt, decrypt | partly, in TextMessage, proved |
| Message encoding (`messages.ts`), splitting of long text (`client.ts` 526-556, 1133-1204) | none | text content, split at the byte limit | partly, in TextMessage, proved |
| Inbound normalization, targets, profile, stickers, events, errors, e2e helpers | none | mappings, parsing, I/O | not modelled (see section 8) |

### 1.2 How they interact

* The **socket** calls the listener that `connect()` created for its generation (2450). Its callbacks go to the
  *connection lifecycle* (interruption) and to *inbound delivery* (envelopes, queue empty). Both use the same
  `connectionGeneration`: an envelope, a drain or a timer of an older generation is recognised by its number.
  Invalidation (2734) is the one place where the two components meet: it moves the number on and in the same
  synchronous run drops claims, the retry timer and the keepalive.
* The **consumer** of inbound delivery decrypts the envelope with *session state*, which takes the lock that
  every send also takes (639), and calls the delivery's `ack()`.
* *Session state* fetches prekey bundles and sends over the connection; the server compares device ids and
  registration ids and answers 409/410, which the client repairs once (1555-1597).
* The *call manager* sends signaling as ordinary content sends with prekey bundles it has kept from an earlier one, and has RingRTC's worker, PulseAudio commands
  and timers around it.
* The *file store* holds what sessions, linking and certificates write: each setter changes memory at once and awaits the
  persist chain. *Device linking* takes the data of a *provisioning* session and writes four records; *sender certificates* read
  the account from memory and, an await later, write it back with the certificate, perhaps while a linking replaces it.
* A *text message* goes through splitting, upload, encoding and padding on one side, and stripping, download and decryption on the other.

### 1.3 What is hard, and what makes each component correct

* **Inbound.** Crash between any two of: row stored, acknowledgement sent, server deletes, consumer handles, row
  completed. Dead sockets while a store call is under way. Claims that must come back on every path. Correct if
  nothing is lost, everything is eventually handed over and consumed, slots neither leak nor overflow, order is kept.
* **Connection.** `disconnect()` and deaths during `connect()`'s awaits, ticks and callbacks of dead generations.
  Correct if the connection held is the current, watched one, no socket is forgotten, a loss is reported once, and
  after `disconnect()` all is quiet.
* **Sessions.** libsignal loads and saves a record around awaits. Stale peeks, stale device lists, aborts at every
  await. Correct if no ratchet step is undone, a send is readable by who accepted it, one repair suffices, and the
  lock is always handed on.
* **Calls.** Ends from six directions, bring-up that outlives its call, a second call on the heels of the first,
  `close()` in the middle, a listener that hangs up at once, a `pactl` that fails. Correct if there is one live call, one end per
  call, timers and devices go with their call and `close()` returns.
* **File store.** Setters during a persist, failing steps, kills between them. Correct if the file is never torn and always holds what a
  setter resolved for, and a failure does not spoil what comes after it.
* **Linking and certificates.** Kills between four writes, a second linking over the first, a cache write that read the account before a
  linking. Correct if an account on file has its keys, a cache write does not bring an older account back, and a certificate is the caller's own.
* **Provisioning.** A timeout and an abort that race the connection. Correct if the attempt ends.
* **Text.** Byte limits inside a character, block boundaries, bodies that look like padding, uploads that fail half way and are tried again.
  Correct if the reader gets the text and every pointer sent can be followed.

`PROJECT.json` lists the hazards one by one, at their lines, with the properties that watch over them.

## 2. Plan

Order: what loses user data first. All modules of the plan are here:

1. `AtLeastOnceDelivery` (abstract), `InboundDelivery`; proofs of type, no loss, slots and their leaks, order, exactly-once without faults, and
   the refinement.
2. `ConnectionLifecycle`; proofs of type, of its inductive invariant, of the quiet after `disconnect()`, and of how far the one-socket rule holds.
3. `SessionSend`, the lock and everything that runs under it; proofs that the lock is exclusive and that no update is lost, of the types, of
   the readability of warm sends, that one repair suffices and heals the sessions for the next send, and that no call
   goes round in circles or waits in vain.
4. `CallManager`; proofs of type, of the one live call, single events, timers that match their calls, no proceed on a dead call, and of who releases what an ended
   call has open.
5. `StableStore` (abstract), `FileStore`; proofs of its invariant, its promises, the refinement, and that every setter that waits gets on.
6. `LinkSession`, `DeviceLinking` (extends FileStore and LinkSession) and `SenderCertificates` (extends DeviceLinking): the composition
   of a linked device over one repository; proofs that it runs the repository as specified, and of its own safety properties.
7. `MessagePadding`, `TextMessage`; proofs of the padding and the split for every length and limit, and that what is sent can be followed and read.

What would be worth adding: a group of two members in SessionSend (the parallel fanout of 2191), whose sends meet in the lock in any order
and of which one may fail while others go on; and the content of error events in CallManager (`calling/manager.ts` 467).

## 3. Modules and how they correspond to the code

`PROJECT.json` ("map") gives the lines of every definition. Definitions named *Seeded fault* are plausible bugs.
They are part of no specification; each is put in place of the definition it names to confirm that some property
notices.

### 3.1 InboundDelivery

Variables are the fields of the client (`generation` = `connectionGeneration`, `claims` =
`activeIncomingEnvelopeClaims`, `admissionQ`, `drainQ` = the two promise chains), the table (`row` is the AUTOINCREMENT
sequence of an envelope's row, `done` those with `completed_at`), the Signal server (`retained`, what it holds for the
device; `ackWire`, acknowledgements under way) and the consumer (`held`, deliveries it has not acknowledged).
Each store call is two steps, as in the code: the database works (`StoreAccept`, `StoreList`, ...) and the caller
resumes (`AcceptAcknowledged`, `ListReplied`, ...); between them anything may happen, a dead socket for instance. A
failure of a call, a throwing handler, a failing `ack.send`, an interruption, a `disconnect()` and a crash each spend
one of `MaxFaults`. A crash empties everything but the table and the server.

`AtLeastOnceDelivery` is what all this promises: an envelope stays in the mailbox until it is stored, may be exposed
any number of times, and is never forgotten before the consumer has it. InboundDelivery implements it with
`stored` = has a row or was consumed (`ImplementsPromise`).

Assumptions about the surroundings: the host awaits `disconnect()` before it connects again and has one `connect()` at a
time (ConnectionLifecycle drops both assumptions); the factory's await is left to ConnectionLifecycle; an event handler does
not call back synchronously into the client; the host calls `startIncomingDelivery()` once per connection; the store
executes its calls one at a time in order (`pendingMutation`, `incoming-envelope-store.ts`); processes number their
generations on, so that deliveries of different processes are told apart (in the code they are different objects).

### 3.2 ConnectionLifecycle

An attempt, its socket, its listener and its ticks are all identified by the generation `connect()` took. `attempt[g]`
is where the `connect()` of generation `g` is: awaiting the factory (`dialing`), resumed with a socket (`dialed`), closing a
socket that lost (`closing`). Each call of `disconnect()` has its own place in `disconnecting` and `closing`, for nothing in the code keeps two from
overlapping: the first takes the connection and awaits its close, a second finds none and goes on to the tasks at once. `quiet` is history, the
`disconnect()` calls made since the last attempt began. `open` are the sockets the server sees and `deaf` those over which nothing passes any more.
`waitingConnects` counts `connect()` calls that await close tasks; since these resume in the microtask after the last
task settled, no network event, timer or new call comes between (`ConnectReady` guards those actions).

Incoming tasks are reduced to one that ends or finds its socket dead; InboundDelivery has them in full. libsignal's
`disconnect()` is taken to settle. Keepalive is configured (an interval above zero, a connection with `fetch`); the reason of
an interruption is not told apart. A `"connected"` handler that throws makes `connect()` reject but leaves `connection` set
(928-938): the properties that this breaks say so with `throws = 0`.

### 3.3 SessionSend

One peer with several devices; the own account plays that role for sync messages. A session record is `none`, `current` or
`archived`, with the registration it was set up with: this is what the code branches on. `op[t]` is one call of the host
with its local variables (`contents`, `bundles`, `abort`...), `queue` the chain of `runSerializedSignalStateMutation`: its head
holds the lock. Encryption and decryption of a device are split into the load and the save of the record (`LoadSession`,
`SaveSession`), where libsignal's own awaits split them. A call is in turn: the unlocked peek, the unlocked fetch, the wait
for the lock, the encryption to each device, the request, the server's answer, the repair (drop extra and stale sessions,
refetch, build again). `cachedPreKeys` is the single slot in which the call manager keeps the bundles of the peer it last
signaled (`calling/manager.ts` 822-849): a `given` send uses them (`UseCached`) or fetches and keeps new ones; it may always have
to fetch, for signaling with somebody else may have taken the slot. A recovery is three calls in a row: archive all, send a null message, send the retry receipt.

`overtaken`, `unreadable` and `moved` are history: a call that would save a record another call has replaced; what the server
accepted though a device cannot read it; whether devices changed while a call was under way.

Abstractions: a group has one member; the peek and the device listing are one step each; setting up a session from a bundle
and encrypting share one load and one save; archiving is one write; a relinked device keeps the account's identity key, so
no identity check fails; the primary device is always linked, so a bundle response is never empty; resolving a recipient is
part of the request that follows; the store has `removeSession` (both repositories do); the server's device check is external.
Decryption may fail on any message, for the client may not hold its session.

### 3.4 CallManager

RingRTC is external: it registers calls, changes their state (`native`), invokes hooks and hands over signaling, at any time it
may. `active`, `phase`, `teardown`, `pendingTeardown` and the timers are the manager's. `media[c]` is where
`beginCallMedia` of call `c` is: it awaits TURN servers, device setup (or its rollback) and the search for the devices, and looks
after each await whether its call is still alive, or fails to (`pointRingRtcAtDevices`). `loaded` are calls with PulseAudio modules
loaded, `owned` those whose modules the manager knows of, `selected` the call whose devices RingRTC uses.

Events are emitted synchronously and a listener may call back. `hangup()` and `close()` end the call at once; everything else awaits first and is a
step of its own. Where nothing but a return, or an end that finds the call ended, follows an emit, such a call is the same as a step before or after, and is
one. At "connected" code does follow (651-657): `ConnectedListenerEnds` ends the call in between, and `handleConnected` then arms
the duration timer of an ended call (`cutShort`), which does nothing when it fires (`StaleDuration`). The host is assumed to
set `maxCallDurationMs`; without it there are only fewer timers.

`pactl` and `pacat` commands end or fail. A failing `pactl unload-module` is swallowed (`audio.ts` 129-136) in each of the three places that unload
(`Unload`): the call's modules stay loaded, for good, and `leaked` names the call. RingRTC's device list is cached and may still show devices that
were unloaded. What `peer` a pending offer is from is data and left out, and so is `pendingHangupSignal`: the wait for it has a deadline, so that
`close()` may go on whatever it says.

`close()` may be called at any time, with no module and before an earlier call of it has returned; `closing` and `closeAwaits` are per call of
`close()`. Another call may start while it is suspended, as the code allows.

### 3.5 FileStore and StableStore

Data is abstracted to *stamps*: `clock` counts changes, and a slot of `memory` or of a file holds the number of the change that made it
what it is. "The newest of what was promised is on file" becomes a comparison of numbers, and what a record says does not matter.
`queue` is the `pendingPersist` chain; its head is the persist that runs and `phase` says what it awaits: `mkdir`, `write` (`writeFile`
on the temporary file), `rename`, `settle` (the setter's own continuation). The snapshot is taken *after* `mkdir`, so it contains changes
of setters whose own persist waits further back. A failing step rejects the setter at the head and leaves memory as it is
(`pendingPersist = next.catch(...)`, `file-store.ts` 373). `Open` reads the file or draws an identity; with initial data it persists
before anyone has the repository. `Crash` keeps the two files and nothing else.

`StableStore` is the promise: contents that are replaced only as a whole, by one moment's memory, and never below what was vouched for.
Memory maps to `current`, a persist between `write` and `rename` to `image`, the file to `stored`.

Assumptions: one repository on the file (two in one process would share the temporary path, `file-store.ts` 367, and each would write its
own memory); a file that does not parse is rejected by `open()` and does not come from the store itself; no power failures (there is no fsync).

### 3.6 LinkSession, DeviceLinking, SenderCertificates

`LinkSession` is the one call of `startSignalDeviceLinkSession` and the session it returns, up to `disconnect`. `provisioned` is the
promise behind `waitForProvisioning`. The timer stays armed until the address has come, but aborts the connection attempt only.

`DeviceLinking` adds `linkSignalDevice`. `link` is what it awaits: the connection, the PUT, one of the four setters (`identity`,
`signedPreKey`, `kyberPreKey`, `account`) or the disconnect of the `finally` clause. Linkings are numbered; `linked` are those for which
the server has a device, also when its answer was lost. An account record is the number of its linking (`owner`) and the certificate cached
per mode. A linking that follows another one takes the same repository, so `Calls` has a setter per attempt and slot.

`SenderCertificates` adds `get()` with the fetch it joins or starts, and composes all: `DeviceNext` interleaves linking, requests,
the link session, the repository, other setters of the host, and the kill, which ends them together. Freshness of a certificate is a free
choice, and so is a failure of connection, request, write or disconnect. `get()` is asked for the account the repository holds; an account
object that the caller kept from before another linking is not modelled. The cache write is two steps, as `writeCachedCertificate` has an await
between `getAccount` and `setAccount` (`certificates.ts` 138-146): `CertificateArrives` reads the account into `fetch[k].account`,
`CachesCertificate` writes that record with the certificate in it, and any other step may come between. `crossed` and `overlapped` are history: a
linking replaced the account under a fetch, and it did so between these two steps.

### 3.7 MessagePadding and TextMessage

`MessagePadding` is the arithmetic and the scan of `padSignalMessageBody` and `stripSignalMessagePadding`, byte by byte.
A text in `TextMessage` is the sequence of the UTF-8 lengths of its code points, which is all that the split at the byte limit looks at; a code point
of four bytes is two UTF-16 units, and the body is a sequence of units, so a split pair would be seen. An attachment's object is the data, its
padded length and its key; digests and MACs are equality with it. The CDN holds an object, or `NoObject`, under each number and key. The model follows a text through split, upload (CDN 2 in two requests, CDN 3 in
one; each may fail, with the object stored or not), retry by the host, encoding, padding, stripping, download and decryption. The content's encoding
is any byte string of a set, unrelated to the content, which is stronger than what protobuf yields.

## 4. Runs

All bounds are constants of the modules; each bounds how often the environment may do something, never what the code does.

| Run | Bounds | Question and answer |
|---|---|---|
| `inbound_recovery` | 2 envelopes, 1 slot, 1 fault, 1 prune | Nothing is lost, the client implements AtLeastOnceDelivery, and every envelope is eventually consumed, completed and deleted at the server. One slot makes envelopes compete, so that each after the first depends on a refill. |
| `inbound_slots` | 3 envelopes, 2 slots, 1 fault | Slots do not leak, exposure in order, never of completed rows, once each without faults. A third envelope is needed for a page that is cut by the free slots. |
| `connection` | 2 connects, 2 disconnects, 1 throwing handler, any host | All safety and liveness of the lifecycle. Two attempts with a generation between them give every overlap of an old and a new socket, tick or task; two disconnects give a `disconnect()` that overlaps another. |
| `connection_one_socket` | 2 connects, 1 disconnect, patient host | **Refutes** the one-socket rule, section 7. |
| `session_send` | 2 calls of 10 kinds, 2 devices, 1 of a device change, failure or abort | Signaling with kept bundles included: a change between two calls makes them stale. Lost updates, readability, that one repair suffices and leaves sessions that need none, the lock. Two calls are enough for every pair of a peek, fetch or request of one and a locked section of the other; two devices for one missing and one stale. |
| `session_recovery` | 1 call, nothing fails | **Refutes** that a recovery establishes a session, section 7. |
| `session_labels` | 1 send and 1 decryption, 1 device change | **Refutes** that accepted content is readable on the bundle-driven path, section 7. |
| `call_manager` | 2 calls, 1 close, 1 failing unload | One live call, single events, timers that match their calls, no proceed on a dead call, media released but for what `pactl` failed to unload, `close()` returns. The second call is the one a late step of the first can damage; of one leak the other call must not be the worse. |
| `call_close` | 2 calls, 1 close, 1 failing unload | **Refutes** that `close()` awaits device release, section 7. |
| `linked_device` | 2 link sessions, 2 requests, 10 changes, 1 failing step or kill | Promises stay on file, an account on file has its keys, the account goes back only by a linking in the middle of a cache write, certificates are one's own, and the store implements StableStore. The second linking writes over the first and under a fetch; two requests can join or follow each other; 10 changes leave room for two whole linkings (4 each) and two of fresh identities and cache writes. |
| `linked_liveness` | 1 link session, 1 request, 1 other setter, 2 failing steps or a kill | Writes land once nothing fails any more, the connection attempt ends, a linking that reached the server returns. Two failures in a row are a failing persist behind a failing one. |
| `text_message` | texts of up to 3 code points of 1, 3 or 4 bytes, limit 5; encodings of up to 4 bytes, blocks of 3; 2 tries | Pointers that are sent can be followed and the reader gets the text. Every length below, at and above the limit and the block occurs, and bodies that end in zeros or in the terminator. |

Deadlock checking is off: with the bounds used up, and everything idle, each system really stops.

Beyond the configured bounds, `session_send`'s safety was also explored with three troubles together and the messages of
both devices (2.8 million states), InboundDelivery's safety with two faults, CallManager's safety with two overlapping `close()` calls (3.3 million
states) and its liveness with two of them over one call, without a violation.

## 5. Fairness

* *Inbound.* The event loop runs what is ready: the database's calls, callers that resume, queued tasks, the timer. The server
  delivers over an open socket and reads acknowledgements; the host reconnects and starts delivery; the consumer acknowledges what
  it is shown. Failures are not fair and there are finitely many.
* *Connection.* Promises that settle resume their callers, the interval timer fires, a tick's request ends by its timeout at the
  latest, libsignal settles `disconnect()`. The host, the server and failures are not fair: `DeafConnectionGivenUp` rests on the
  keepalive alone.
* *Sessions.* Each call goes on whenever it can: every request is answered or fails. Weak fairness per call suffices, for a call
  that waits for the lock is enabled from the moment its predecessors are gone until it runs.
* *Calls.* What the manager awaits settles (TURN and device search time out, commands end or fail, `close()` polls until its deadline).
  Neither host nor RingRTC is fair.
* *Linked device.* File operations end (`Persisting`), the steps of a `linkSignalDevice` call that has begun go on, the timer of a link
  session fires and an aborted attempt is rejected (`SessionFairness`). Failures are not fair and finitely many; scanning the code, an
  envelope from the phone and the host's next call are not fair.

## 6. Proofs

Proved for all values of the constants under the modules' own `ASSUME`s, which only say that the bounds are numbers (and that there is at
least one slot and one connect, that a peer has finitely many devices, with positive numbers and its primary among them, that a block has at least one byte, that texts are sequences of UTF-8 lengths and encodings of bytes, and that the slots and calls that linking and certificates use are among those of
the repository). No finiteness or order beyond that is assumed.

### 6.1 InboundDelivery_proofs

`NoLoss` is not inductive: that an acknowledged envelope is stored depends on the reply that resumed the admission being the reply to
*its* `accept`. The inductive invariant `IInv` therefore says

* `TasksOK`: there is at most one call of each kind in the store's queue and its task is waiting for just that call; a drain that an
  admission awaits is unique;
* `AcksOK`: what is on the wire to the server, or about to be, is stored or consumed (`AcksSafe`); what is completed, or being completed, was
  consumed; what was shown was stored;
* `PageOK`: the page a caller sees is what the table holds at that moment, for the store resumes its caller before the next call;
* `TypeOK` and `NoLoss`.

Each group of variables has its own frame lemma; each action has one step per part it can disturb. `NeverLost` and `InductiveInvariant` follow.

### 6.2 InboundGuarantees_proofs

All that builds on `IInv`:

* `SlotsBounded`: claims grow only in `ListReplied`/`HandlerThrows`, whose exposure stops at the free slots, and every invalidation empties them.
  `RetryScoped`: the timer is armed only for an active generation and whatever ends the activity clears it.
* `NoSlotLeaks`: every claim has somebody who gives it back - the consumer that holds the delivery, or the call that completes it in
  the store's queue. `NoLeakedClaim` is inductive with `IInv`; one step per action says who takes over from whom.
* `ExposureInOrder` is the end of a chain, `OrderInv`: what the socket still has to send is behind what it sent; the admission queue and the store's
  queue hold envelopes in that order, behind what is stored; so rows get numbers in order (`StoredInOrder`); a page is in order of rows, and what it
  leaves out is claimed or completed, hence was exposed before. A skipped older row that nobody holds would break it, so the step cites `NoLeakedClaim`.
* `ExposedOnce`, with `OnceInv`: while there is no fault, what is not stored yet was never seen and arrives once; what was exposed stays claimed until
  it is completed; a claim is acknowledged once and completed once. No page can then contain it a second time.
* `Refinement`: `Spec => Promise!Spec`. Every action maps to an abstract step or to a stutter: `StoreAccept` to `Store`, `ServerReceivesAck` to
  `Discard` (by `AcksSafe`), `ListReplied` and `HandlerThrows` to `Expose` (by `PageOK`), `ConsumerAcks` to `Consume`, a prune to a stutter (by
  `done \subseteq consumed`). `CompletedStaysHidden` proves the action property `NeverExposeCompleted` from `PageOK`.

### 6.3 ConnectionLifecycle_proofs

`LifecycleInv` is inductive with `TypeOK`. Its parts and why each is needed:

* `AttemptsInv` — nothing is tried beyond the current generation; while the current attempt dials there are no close tasks and no connection beside
  it. This is what makes `connect()`'s unconditional assignments after its await safe (924-937), and nothing in the code checks it.
* `ConnectionIsCurrent` — leans on it at `ConnectWins`.
* `TicksInv`, `KeepaliveMarkIsLive` — the tick of the current generation is the marked one; ticks belong to finished attempts, and there is neither
  timer nor mark without a connection, so a new attempt starts with neither.
* `ClosingInv`, `NoForgottenSocket` — at `disconnect()` the socket goes from `connection` to that call's `closing`, which is free, for the call is new.
* `ReportsInv`, `ReportedOnce` — nothing was reported of a generation before it ended.
* `QuietInv` — from `disconnect()` to the next attempt nothing is admitted and there is no connection, and when any `disconnect()` call
  has gone past the incoming tasks, or past the close tasks, none of them is left. `QuietWhenDisconnected` follows. It cannot say that no socket
  is open: one that another `disconnect()` is still closing may be (section 7).

The theorems state each property, and `LossAlwaysReported` proves the action property `LossIsReported` from the invariant.

Two theorems say how far the rule that `connection_one_socket` refutes does hold, for a host that awaits `connect()` and `disconnect()`
(`PatientHost`). Without that, nothing bounds the sockets. `PatientInv` says that whatever closes a socket does so alone: no attempt is current beside the
socket that `disconnect()` closes, at most one `disconnect()` has a socket
to close, and at most one dead socket is being closed, with nothing beside it. So of two open sockets one belongs to an
attempt that was overtaken while its factory ran (`OnlyOvertakenBeside`), which is the trace of the finding and no other. `AloneInv` adds that before the
first `disconnect()` only one attempt is under way at a time: until then there is one socket (`OneSocketUntilDisconnect`).

### 6.4 SessionSend_proofs

`LockInv` is about the chain alone: its entries are distinct, whoever is behind the head waits, a call that is inside is the head, and an entry is
inside or waiting. It is inductive with `Shape`, which says only that a call is a record with a place: the full type invariant is not needed.
Three lemmas cover the moves of the chain (a call stays out or enters at the tail, the head goes on inside, the head leaves and may queue up again in
the same step, as a recovery does); the remaining lemmas say which action makes which move, `EndsKeepsLock` for all the ways to end.
`LockExclusive` states it; `NothingOvertaken` derives `NoLostUpdate`: who has loaded a record is inside, hence the head, hence whoever writes is the same call.

`TypeCorrect` strengthens the types with `Sane`: a call that saves a record has a device left to do, and a call that has begun is of some kind.
That the next device is one of those left (`NextDeviceListed`) rests on the well-foundedness of the naturals.

`WarmReadable`, `OneRepairSuffices` and `RepairsHeal` speak of runs in which no device changes while a call is under way (`~moved`). Their invariant `ReadyInv`
follows a send from its start and says of each place what the send is ready for:

* `PlacesOK` - which kinds of calls are where, and what a call has not begun yet;
* `GivenOK` - the bundles of its caller are up to date, but for those the call manager has kept; `LoadedOK` - what it has loaded is still what is stored, which is where the lock enters;
* `DirectOK` - the entries of a direct first attempt are those of its sessions, each with the registration the session was set up for;
  `BundledOK` - those of every other attempt are of the linked devices, done or to be done, under the registrations the server has.
  Only the first attempt with kept bundles is exempt: the server may reject it, and what the repair refetches is new;
* `RepairedOK`, `NoneLeftOver` - a send that fetches its own bundles has dropped, or is about to refresh, every session with an old registration, and none
  is left of a device that is gone. `NoneLeftOver` needs that no request has failed, for a rejection that names no devices drops nothing;
* `AnsweredOK` - the fanout of a group message and the repaired receipt of a recovery match the devices.

`RepairsHeal` puts four of them together: a repaired warm send has no bundles of its caller's (`GivenOK`) and is addressed to the linked devices (`BundledOK`),
each session it used is of the current registration (`RepairedOK`), and no other session is left (`NoneLeftOver`).
A repaired send that first took its devices from bundles is left out: its labels hide a session of an older registration from the server (section 7).

A call outside the lock has nothing to be ready with but its caller's bundles (`OutsideReady`), and only the head of the chain writes sessions;
so a step of one call leaves every other ready (`OneReady`).

Of `EveryCallSettles` the two halves that are safety are theorems. `EveryCallRunsOut`: `Left` counts what a call has left, the parts of a recovery, the
stages of a part and the devices of a stage; every step of the call lowers it, and no other step raises it. The stages only go down
because a call repairs once (`AttemptsOK`: what leads to a first attempt is not of a second, what follows a repair is not of a first).
`NobodyWaitsInVain`: a call that waits stands in the chain (`Listed`), whose head is inside or has the lock. What TLC checks beyond them is
fairness: that whoever can take a step takes it.

### 6.5 CallManager_proofs

`CallInv` is inductive. The actions are grouped as the module groups them (host, timers, RingRTC, bring-up, release, close), each group with one lemma for
the types, one for the ends and one for the rest.

* `EndInv` - `OneLiveCall`, `EndedOnce`, `NothingOutlivesCall` and `TeardownInv` (a call has a teardown exactly when it has ended) are inductive together. All
  ways to end go through `finalizeCall`, so its lemmas (`FinalizeType`, `FinalizeWithEnds`, `FinalizePhases`) carry most of the proof. A
  duration timer is that of a live call or of one in `cutShort`: only the listener's end puts a call there.
* `FreshInv` - a call takes the slot once: as long as it is new to the manager. Without it an ended call could become active again.
* `BridgeInv` - only an end closes the bridge, so that a call connects once. With `EndedOnce` this is `EventsOnce`.
* `LimitInv` - a connected call has its duration timer to its end: only an end clears it, and a stale timer that fires is not that of a live call.
  With `NothingOutlivesCall` it is `TimersMatchCalls`.
* `MediaInv` - only an end takes the devices from under a bring-up; the bring-up of a call that has not ended finds its own modules loaded and
  known to the manager. `ProceedsWithDevices` proves the action property `ProceedsOnlyLive` from it: the check after the last await is enough.

What an ended call has open is a matter of `KeeperInv`: modules that are loaded and not yet owned have a bring-up under way (`BringUpInv`), and what an ended call
owns its teardown has before it (`TakeDownInv`), both but for calls in `leaked`, for whose modules nobody is left. `MediaAccountedFor` follows, the part of `MediaReleased` that is safety, and with it `CloseAwaitsLatest`, which
says how far `close()` goes where the finding `call_close` says that it does not go all the way: it returns when the latest teardown is over, and leaves
behind at most bring-ups that will see the end of their call, teardowns of other calls and what `pactl` failed to unload. `AwaitsRunOut` counts the awaits that a bring-up and a teardown have
before them; no step raises the count, so that one weak fairness condition for all of them is enough (section 5). `CloseAwaitsAnEnd`
says that the teardown that any of several overlapping `close()` calls awaits has begun.

### 6.6 FileStore_proofs

`PromisedSurvives` and `ResolvedCoversEarlier` are consequences of `StoreInv`, whose parts follow a change on its way to the disk:

* `ChainInv` - the chain has one entry per waiting call and its head is the one that runs; `OpeningInv` - while a repository opens only `open()` waits,
  so that dropping it after a failure forgets no setter;
* `ClockInv` - no stamp is ahead of the clock, so a new change is newer than everything;
* `MemoryInv` - memory has every change whose call is not dead, a rejected one included, and all that is on file;
* `SnapshotInv` - a snapshot lies between the file and memory and covers the call it is written for *and every earlier one*: at `BeginWrite` this is `MemoryInv`;
* `FileInv` - the rename hands that to the file; what resolved stays covered because the next snapshot is not older than the file.

The order `file <= temporary <= memory`, slot by slot, is the heart of it. `StableRefinement` maps `BeginWrite` to `Snapshot`, `Rename` to `Commit`,
`Settle` to `Vouch`, a failure to `GiveUp` or, of an `open()`, `Stop`.

`EveryPersistGetsOn` is the safety half of `WritesLandAfterFailures`. A setter that waits is in the chain (`Listed`), which is not empty, so its head is at work;
`Before` counts the file operations until the persist at a place of the chain is over, and every one of them, a failing one included, brings
all that wait on to an earlier place or point (`GetsOn`).

### 6.7 SenderCertificates_proofs

`DeviceRunsStore` proves that each step of the composition is a step of FileStore's `Next` or leaves its variables alone - the setters called are among
`Calls`, when the repository is open - so FileStore's theorems hold of the composition (`DeviceKeepsPromises`, `DeviceRefinesStore`). On top of `StoreInv`:

* `OwnersInv` - the owner of the account on file is at most that on its way there, at most that in memory, at most the current attempt. all
  three as long as no linking has stored its account between the two steps of a cache write. Until then a cache write keeps the owner, for the account
  that it has read is of the linking of the account in memory (`FetchesOK`). `AccountsGoForward` follows, under the same condition.
* `CertificatesInv` - until a linking crosses a fetch, what a record caches is of that record's owner, also in the record that a cache write has read, and
  a fetch in flight is for the account in memory. `CertificatesOwn` follows.
* `KeysInv` - contents with an account have the identity of its linking or of a later accepted one and prekeys at least as new as its own, in memory, in
  the snapshot and on file, and memory has those of an account that a cache write has read, which is why even a write that undoes a linking leaves an
  account with its keys; a linking that is storing has in memory what it has stored so far. `CompleteAccounts` follows.
* `ServedInv` - whoever waits for a certificate waits for a fetch of its key that is in flight, and each fetch has a caller of its own, who waits for it: so
  nobody who joins a fetch is forgotten, and no two fetches write their cache entries by one call (`EveryCallerIsServed`).
* `OpenInv` - sockets and the timer go with the places of the call and the session, and whatever setter is awaited has been called. That a setter stays
  called until a kill (`StaysCalled`) rests on `OpeningInv`: only `open()` itself is dropped with a repository that failed to open. `NothingLeftOpen` states it.

### 6.8 TextMessage_proofs

*Data.* `PaddingFits` (the padded length holds body and terminator, adds at most a block, and is one short of whole blocks) and `StripUndoesPad`
hold for every block size, length and content. `SplitIsLongest` says of every text and limit that the split takes the longest beginning that fits,
whole code points of it. `Bytes` and `Units` are folds of the community modules, hence recursive functions, and the library's theorems on
recursion and induction take a predicate, which no installed prover can instantiate. What replaces them is `Induction`, over a *set* of numbers: it follows from `WFMin`,
which takes none. With it `SumsExist` and `RunsExist` show that the partial sums and concatenations exist as functions, by extending one
that reaches *k* by one place, `BytesStep` and `UnitsPrefix` how they grow, and `FittingFits` that the limit is reached.

*Behaviour.* `PointersResolve` and `ReaderGetsText` follow from `TextInv`:

* `GivenInv` - the host's own pointers resolve, under a key no call draws, so that no upload of a call replaces their objects;
* `UploadInv` - the upload under way is of the whole text, under this call's key once it has a form. The text is too long only then;
* `ContentInv` - what is sent has pointers that resolve, and a body that is the whole text or the longest beginning, before a first pointer to the
  whole text; a retry starts from nothing, so what an earlier call left behind is not among them;
* `ReaderInv` - what was encrypted is the padded encoding (so `StripUndoesPad` gives what is decoded), and what is fetched is, position by
  position, what the pointer's digest says.

### 6.9 Only model-checked

Liveness (`EventuallyConsumed`, `UnusedSocketsClose`, `DeafConnectionGivenUp`, `EveryCallSettles`, `MediaReleased`, `CloseSettles`,
`WritesLandAfterFailures`, `ConnectingEnds`, `LinkingSettles`): the proof system does not handle liveness under fairness. Every other property of
a passing run is also a theorem. Of the liveness properties the halves that are safety are proved, namely that whoever waits has something to wait for that goes on,
and, where a variant exists, that it goes down:

| Liveness, by TLC | what of it is proved |
|---|---|
| `EventuallyConsumed` | `NeverLost`, `NoSlotLeaks`: the envelope is somewhere, and a slot that is taken is given back |
| `UnusedSocketsClose` | `SocketsAccountedFor`: each open socket is in use or has a call about to close it |
| `DeafConnectionGivenUp` | `KeepaliveNeverStalls`, `ConnectionAlwaysCurrent`: a connection has its timer, and the mark that stops ticks has a tick |
| `EveryCallSettles` | `EveryCallRunsOut`, `NobodyWaitsInVain` |
| `MediaReleased`, `CloseSettles` | `MediaAccountedFor`, `AwaitsRunOut`, `CloseAwaitsAnEnd` |
| `WritesLandAfterFailures` | `EveryPersistGetsOn` |
| `ConnectingEnds`, `LinkingSettles` | `NothingLeftOpen`, `EveryPersistGetsOn` |

What remains is that fair steps are enabled and taken.

Conversely, some invariants are proved and have no run of their own: `SlotsBounded`, `RetryScoped`, `LossReportedOnce`, `OnlyOvertakenBeside`,
`OneSocketUntilDisconnect`, `CloseAwaitsLatest`, `EveryCallerIsServed`, those of the table and the inductive invariants.

## 7. Findings

Each violation run checks one statement that a comment of the repository makes.

* `connection_one_socket`: "Signal permits only one authenticated socket per device" (1072-1075). `disconnect()` during the factory's await returns at once,
  and the next `connect()` dials while the first attempt's socket still opens. Section 6.3 says when the rule holds all the same.
* `session_recovery`: "archive all sender sessions, establish fresh sessions with a null message" (1455-1459). Records archived in place are not usable for
  a warm send and not absent for a bundle-driven one (781-792), so the null message finds no session and the recovery establishes nothing.
* `session_labels`: "A stale device set is corrected by the server's mismatched-devices response" (1604-1609). The bundle-driven path labels an
  old session's ciphertext with the new registration id, which the server compares, so it accepts what the device cannot read.
* `call_close`: "so close() can await device release" (`calling/manager.ts` 148). A call that ends while its devices are being set up leaves nothing for
  `close()` to await; the bring-up releases them later. `CloseAwaitsLatest` (section 6.5) says what it does await.

Met while modelling, and stated here without a run because no line of the repository promises otherwise:

* A `disconnect()` that overlaps another (1045-1069) finds no connection, does not wait for the first call's close and can return while that
  socket is still open. `QuietAfterDisconnect` says just this much of the sockets.
* A listener of "connected" that hangs up ends the call before `handleConnected` arms its duration timer (`calling/manager.ts` 651-657): the timer stays
  armed for an ended call, harmlessly, and listeners that come later in the list see "ended" before "connected".
* A failed `pactl unload-module` (`calling/audio.ts` 129-136) is reported to nobody and retried by nobody; `MediaReleased` and `CloseAwaitsLatest` leave it out.
* Of two overlapping `close()` calls the one that returns last takes the hooks that an `ensureReady()` in between has installed
  (`calling/manager.ts` 377-400).
* One flag stands for the hangup messages of all calls (`calling/manager.ts` 150-153, 459): the first Hangup sent clears it for every call.
* The device search of an ended call can go on and select its devices after the next call selected its own (`calling/manager.ts` 589-625).
* After a device change the call manager keeps its stale bundles, for the repair refetches without refilling the slot: every further
  signaling message is rejected once and repaired again, where the comment (`calling/manager.ts` 826-828) has a device change heal itself.
* A linking over an older account that is killed midway leaves the older account beside the new identity (`link-device.ts` 183-187); `AccountIsComplete`
  says just this much: the identity is that of the account's linking *or of a later one*.
* A certificate fetch that a linking crosses caches the old account's certificate in the new record (`certificates.ts` 133-153), where it is found
  until it expires. `CertificatesAreOwn` excludes these runs by `crossed`; without that condition TLC shows one.
* A linking that stores its account between the `getAccount` and the `setAccount` of a cache write (`certificates.ts` 138-146) is undone by the write: the
  older account is back in memory and then on file. `NeverBackToOldAccount` excludes these runs by `overlapped`; without that condition TLC shows one. The
  await between the two lasts one microtask, so both continuations must be due at once; the model lets them be.
* When a provisioning socket dies before the address has come, the promise behind `waitForProvisioning` is rejected as well, and nobody has it yet to
  handle the rejection (`provisioning.ts` 184-188).

## 8. Not modelled

* Most message builders, protobuf encoders, inbound normalization, recipient parsing, profile, sticker packs, errors, constants: functions without state,
  or plain I/O. Their wrongness shows in ordinary tests.
* Cryptography: libsignal's own, and the provisioning cipher. The incremental MAC of attachments and the CDN's TLS.
* Durability against power failures (no fsync), two repositories on one file, and files written by others.
* The second authenticated socket of a certificate fetch and what it does to envelopes (`certificates.ts` 112).
* The parallel fanout of a group of several members (2191), and which call an error event names (`calling/manager.ts` 467).

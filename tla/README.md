# A TLA+ verification project for FreeRDP

FreeRDP is an implementation of the Remote Desktop Protocol: a library with the
client and the server side of the protocol (`libfreerdp`), a portability layer
with threads, locks, events, queues and pools in the style of Windows (`winpr`),
virtual channels (`channels`), client front-ends (`client`), and two servers of
its own, the shadow server and the proxy (`server`). Paths below are relative to
`src/`.

The project models the parts in which the order of steps decides whether the
program is right: the lock everything else stands on, the barrier, the queue that
feeds the worker threads, the thread pool, the rendezvous of the shadow server with
its clients, and the connection sequence of client and server from the first TCP
connection to the active session and its reactivations.

## 1. Inventory

| Component | State | Operations | What makes it correct |
|---|---|---|---|
| Critical section, `winpr/libwinpr/synch/critical.c` | `LockCount`, `RecursionCount`, `OwningThread`, semaphore, `SpinCount` | Enter, TryEnter, Leave, SetSpinCount | exclusion; the owner is recognised by an unprotected read; a post for every waiter and no other |
| Message queue, `winpr/.../collections/MessageQueue.c` | ring buffer (`head`, `tail`, `size`, `capacity`), `closed`, event | Dispatch/Post/PostQuit, Wait, Get, Peek, Clear | first in, first out across wrapping and growing; a woken worker finds a message; nothing behind the quit message |
| Multi-client event, `server/shadow/shadow_mcevent.c` | three events, `consuming`, `waiting`, subscribers and their `pleaseHandle` | publish_and_wait, get_subscriber, consume, release_subscriber | the server waits for all clients, the clients for each other, whoever joins or quits |
| Activation, `libfreerdp/core/connection.c`, `activation.c`, `rdp.c`, `peer.c` | state and finalization flags of both sides, `connected`, `activated`, PDUs under way | Demand/Confirm Active, monitor layout, finalization, Deactivate All, resize, input, updates | no PDU arrives in a state that rejects it; no stale answer activates the session; it becomes active |
| Negotiation, `nego.c`, `connection.c` | client: protocol tried, protocols enabled; server: one peer per TCP connection | send request, receive response, fall back; select, refuse, accept | ends; both sides run the protocol the last try selected, the strongest they share; no peer is left behind |
| Basic settings, MCS and channel join, `gcc.c`, `mcs.c`, `connection.c` | settings of both sides, user and channel ids, joined channels, keys | connect initial/response, erect domain, attach user, join or skip, security exchange, client info | both sides come to the same settings and channels, whatever each announces |
| Licensing, auto-detect, multitransport, `license.c`, `autodetect.c`, `multitransport.c` | phase of the connection, message channel | RTT request and answer, valid-client alert, multitransport request and refusal | requests only on a joined message channel; the connection goes on after each |
| Redirection, auto-reconnect, `redirection.c`, `freerdp.c`, `client/common/client.c` | redirection flags, cookie, retries | redirect, reconnect | bounded retries; nothing of the old session survives |
| NLA, `nla.c`, `credssp_auth.c` | NLA state, tokens | one step per token | order of the tokens; public key check before credentials |
| Static channels, `core/client.c`, `core/channels.c` | open handles, states | open, write, close, terminate | no callback after terminate |
| Dynamic channels, `channels/drdynvc` | channel table, fragments | create, data first, data, close | fragments add up; nothing after close |
| Graphics pipeline, `channels/rdpgfx`, `shadow_encoder.c` | frames in flight, queue depth, fps | start/end frame, acknowledge | frames in flight bounded; suspended acknowledgements do not stop the stream |
| Proxy, `server/proxy` | two connections, abort event | forward, resize, abort | both halves end together |
| Thread pool, `winpr/libwinpr/pool`, `Queue.c`, `CountdownEvent.c` | pending queue, `WorkComplete` countdown, threads, terminate event | submit, wait, close work; create, resize, close pool | every submission runs once; a wait returns only when the work is done, and does return; a resize loses nothing |
| Barrier, `winpr/libwinpr/synch/barrier.c` | counter, two events that swap roles | enter | nobody leaves a round early or is left behind; one thread per round gets TRUE |
| Stream pool, `winpr/.../StreamPool.c` | used and available streams, reference counts | take, add-ref, release, return | a stream is not handed out while referenced |
| Transport, TLS, gateways, codecs, GDI, caches, orders, settings, front-ends | | | encoding, I/O, numeric transformation |

How the parts interact. `transport` reads PDUs and calls the receive callback of
the client (`rdp_recv_callback`) or the server (`peer_recv_callback`); both are
state machines that rerun on the same data when a handler returns
`STATE_RUN_TRY_AGAIN` or `STATE_RUN_CONTINUE`. Other threads send at any time,
serialised by a critical section: input on the client, updates and resizes on the
server. The connection sequence is cut where both sides change hands: `Negotiation`
ends when they go on to MCS, `Connection` starts there and ends with Demand Active,
`Activation` starts with it. Channels hand PDUs to their worker threads through message queues; the
shadow server sends its clients messages through message queues and frames through
the multi-client event. The codecs hand their tiles to the thread pool. Every one of these objects is protected by the critical
section, where the platform does not bring its own.

The hard behaviours, and the properties that look at them, are listed with their
lines under `hazards` in `PROJECT.json`.

## 2. Modules

| Module | Models |
|---|---|
| `CriticalSection` | the lock, one action per shared access |
| `CriticalSectionProofs` | its theorems |
| `MessageQueue` | the ring buffer, its event, its worker |
| `MessageFifo` | abstract: a first-in first-out queue closed by the quit message |
| `MessageQueueProofs` | theorems, among them that `MessageQueue` implements `MessageFifo` |
| `MultiClientEvent` | the multi-client event with its server and client threads |
| `FrameRounds` | abstract: one round after the other, each client's share once |
| `MultiClientEventProofs` | theorems, among them that `MultiClientEvent` implements `FrameRounds` |
| `ThreadPool` | work objects, the pool's threads, queue and counter, its owner |
| `WorkItems` | abstract: submissions that run once, waits that return when all have run |
| `ThreadPoolProofs` | theorems, among them that `ThreadPool` implements `WorkItems` |
| `Barrier` | the synchronization barrier, one action per shared access |
| `Rendezvous` | abstract: rounds that nobody leaves before everyone is in |
| `BarrierProofs` | theorems, among them that `Barrier` implements `Rendezvous` |
| `Negotiation` | the client's tries and the server's peers, one per connection |
| `NegotiationProofs` | its theorems |
| `Connection` | client and server from Connect Initial to Demand Active |
| `ConnectionProofs` | its theorems |
| `Activation` | client and server from Demand Active on, two queues of PDUs between them |
| `ActivationProofs` | its theorems |
| `MCNegotiation`, `MCConnection` | the sets of settings for TLC |

Every component has runs and theorems; the liveness properties are TLC's alone.

### CriticalSection

The variables have the names of the fields. `pc[t]` is where thread `t` is in its
call, `depth[t]` how many calls it has still to leave. An action is one access that
another thread can tell apart: `TryCas`, `SpinCas` (compare-exchange), `Increment`,
`TryInc`, `DecrementLast`, `DecrementNested` (interlocked arithmetic), `TryOwner`,
`CheckOwner` (unprotected reads of `OwningThread`), `Own`, `LeaveCriticalSection`
(its writes), `WaitForCriticalSection`, `UnWaitCriticalSection` (semaphore).
`RecursionCount` belongs to the holder, so its update is merged with the
neighbouring access. Callers leave only what they have entered.
`DeleteCriticalSection` is not an action: it is defined only for a section that
nobody uses. Sequentially consistent accesses are assumed, which the interlocked
operations of the code give for everything except the plain accesses to
`OwningThread`; for those, reading an older value can be told from reading the
current one only by the owner itself, which always reads its own last write.

### MessageQueue

A call is one action because it holds the lock throughout; the wait of the worker
for the event is not under the lock and is an action of its own. `EnsureCapacity`
follows the code, doubling and moving of the wrapped entries included.
The n-th message posted is the number n, so that the order and the
identity of messages are visible. Every queue in the tree has one worker, which is
what makes `WorkerFindsMessage` true; the worker of the model is the loop of
`channels/drdynvc/client/drdynvc_main.c`. Its shutdown there (`PostQuit`, join, and
`MessageQueue_Clear` by the callers that keep the queue) gives the guard of `Clear`.

### MultiClientEvent

Everything happens under `event->lock`, which `_WaitForSubscribers` and `_Consume`
release around their waits. An action is one stretch under the lock, and waking from
a wait and getting the lock back are two actions, so that others can come in
between. `pub` is where the subsystem thread is, `pc[c]` where client `c` is.
`assertions` turns to `"failed"` when a `WINPR_ASSERT` of the code is false.
`shadow_multiclient_publish` and `shadow_multiclient_wait` as two calls, which no code in
the tree makes, are left out.

### ThreadPool

A client is a thread with a work object; `client[c]` is where it is in
`SubmitThreadpoolWork` or `WaitForThreadpoolWorkCallbacks`. `SubmitCount` and
`SubmitEnqueue` are two actions, since the counter and the queue have locks of their
own; so are, in a thread of the pool, waking (`awake`), taking an instance, running
the callback and signalling the countdown event. `thread[w] = "awake"` has seen the
event of the queue and has not looked into the queue yet: somebody else may empty it.
A thread that sees the terminate event ends, whatever is pending.

The pool has two kinds of users (`user`). The codecs submit, wait for the callbacks and
close (`rfx.c:1088-1111`, `1833-1849`, `progressive.c:1770-1812`, `yuv.c:318-350`); when the
encoding of a frame fails, `rfx_encode_message` neither waits for nor closes what it has
submitted (`Abandon`; the client is `"gone"`). In the smartcard channel of the proxy a
work object is submitted once, and its callback closes it (`irp_thread`:
`ArrayList_Remove` calls `work_object_free`) before the pool's thread signals the countdown
event; the channel waits only when it stops, until its list of work objects is empty.

The owner creates the pool, resizes it (`SetThreadpoolThreadMinimum`, `...Maximum`; only the
RemoteFX codec does) and closes it when every work object is closed or given up. That is
not when every callback is done: the smartcard channel looks at its list of work
objects, which the last callback has left while it is still counted, and after a failed
frame callbacks may be queued or running. `CloseThreadpool` joins the threads first, so
what runs is finished, and then frees queue and counter (`FreeQueue`), with what was given
up and never ran. To shrink, the owner ends and joins all threads and starts new ones,
of which any may fail to start. `SpecNoMemory` adds an enqueue that fails. After
`CloseThreadpool` the owner may create the next pool.

### Barrier

`remaining`, `current` and `dormant` are `Reserved1` and the two events of
`Reserved3`; each read, write and interlocked operation is an action, and a thread keeps
its copies `hCurrent`, `hDormant` as in the code. The flags of a call choose between
spinning, blocking and the default, which spins when few threads are missing
(`Processors` is `Reserved4`) and then blocks. Accesses are
sequentially consistent; the number of spins is abstracted to any.
`DeleteSynchronizationBarrier` is not an action (section 5).

### Negotiation

The client is `nego_connect`: `Attempt` opens a connection and sends the request of
its state, `RecvFinal` and `RecvRefused` are `nego_recv` and the choice of the next state
by the `nego_attempt_*` functions. The handshake of the selected protocol is a sequence of
messages, `sent[c]` from the client and `answer[c]` from the server, and neither side looks
at the state of the other: `StartSecurity` begins it (plain RDP has none), `Secured` is the
end of the client's half of TLS, with which `transport_connect_tls` and, after
`nla_client_begin`, `transport_connect_nla` return while the peer is still in its accept
function; `Authenticated` is the answer of RDSTLS, or the one of NLA that
`rdp_recv_callback` takes after `nego_connect` has returned. On the server `AcceptTls`,
`AcceptAuth` and `AcceptDone` are the `transport_accept_*` functions, which return at their
own time. `GiveUp` (a cancelled prompt, a certificate that is not trusted, a wrong answer),
`AcceptDenied` and `AcceptNoKey` (RDP is selected and there is no RSA key) end it on one
side. `Authentication` is on, as it is by default: without it NLA ends with TLS.
Each connection has a peer on the server with a state of its own, so that the peer of
an abandoned try runs beside the next try. `AcceptNego` is `rdp_server_accept_nego`:
selection, confirm and the choice of the accept function, after a refusal too. The
server does not test for its own refusal: it would run the handshake with, and then
serve, whoever went on after a FAILURE. That no such peer is served (`OnlyLastServed`)
is a property of the two together, of a server that waits for a handshake where none
will come and of a client that begins none there and disconnects; it says nothing about
other clients.
A protocol word is the set of its bits. `legacy` is a server that does not know the
negotiation; the network may lose a connection and a handshake may be refused.

### Connection

Each side has the settings that steer the sequence (`cset`, `sset`), its `rdpMcs`
(`cmcs`, `smcs`), a key and a state. `ConnectInitial` and `ConnectResponse` hold what the
GCC data blocks carry of these settings; `ServerMerge` and `ClientMerge` are what each
side does with the blocks of the other. Every later PDU has a channel and a key, and is
readable only with that key. The server's reruns (`STATE_RUN_CONTINUE`) read nothing
and are part of the step that starts them (`FromAutoDetect`, `FromLicensing`,
`FromMultitransport`). Given the settings the two sides run nearly in lock-step: what
the module is about is not interleavings but that two state machines, steered by
settings each merged for itself, fit each other for every pair of settings. The flags
`userChannelJoined`, `globalChannelJoined`, `messageChannelJoined` and `joined` of a channel
are the set `joined` of ids, and the code's walk along them is `NextToJoin`, the first id of
`JoinOrder` that is not joined.

### Activation

Each side has its `rdp->state` and its finalization flags; `c2s` and `s2c` hold the
PDUs under way, in order. A PDU stays at the head of its queue while the code reruns
its state machine on it; `rerun` marks `STATE_RUN_CONTINUE`. The generation in a
PDU counts Demand Active PDUs and exists for the properties only. The result of
`peer_recv_pdu` is the record `PeerRecvPdu(p)`; the finalization states of the server
then replace the result as `peer_recv_callback_internal` does. The client sends its
finalization PDUs one at a time, because other threads may send input in between.
The application on the server is the shadow server: it resizes
a client it has activated and sends it nothing until it is activated again, and its
`Activate` callback may itself resize. `conf` holds the settings that steer the
sequence. With `conf.crypt` the server's PDUs are encrypted by RDP security, and `insync`
says that the client's RC4 key is where the server's is: a PDU is decrypted in place whenever it is read,
so the second read after `STATE_RUN_TRY_AGAIN` in `ClientMonitorLayout` makes garbage of it and
of all that follow (`Garbled`), which ends the session or is skipped. `Init` leaves out two
sets of settings with which the sequence does not work; they have specifications of their
own: `LegacySpec` (finding 1) and `RereadSpec` (finding 4). Redirection, errors in the contents of PDUs, and
`rdp_server_reactivate` in the middle of a reactivation are not in the module.

## 3. What the runs check

| Run | Bounds | Shows |
|---|---|---|
| `critical_section` | 3 threads, nesting 2, spin counts 0 and 1 | exclusion, recognition of the owner, no surplus post; a section given up with threads waiting is taken |
| `message_queue` | capacity 2 at first, 8 messages and any number of quits | the queue is a FIFO; the worker finds what woke it; the quit message is the last; an accepted message reaches the worker |
| `mcevent` | 3 clients | the code's assertions; server and clients wait for each other; rounds follow one another; nobody stays at the barrier |
| `thread_pool` | 2 clients with 2 submissions each, up to 2 threads, 2 resizes, 1 failed CreateThread, both kinds of users | the counter is right, no submission is lost or run twice, no wait returns early, a closed pool has no thread that uses it and has lost nothing that was not given up; waits, resizes and closes end |
| `thread_pool_no_memory` | 1 client, 1 submission | the callback that is lost when the queue cannot grow (finding 2) |
| `barrier` | 3 threads, 3 rounds, 2 processors, all flags | nobody leaves early, one TRUE per round, the counter is never negative, everybody leaves |
| `negotiation` | 64 client and 16 server settings, a legacy server, 6 connections, 1 loss | the protocol agreed on is shared, the strongest, and the one whose handshake this connection's peer runs; only the last try is served; the negotiation and every peer end |
| `connection` | 220 client and 240 server settings, 0 or 2 static channels | the settings and channels of both sides agree, the message channel exists when used, every connection comes to Demand Active |
| `connection_no_channel` | one client and one server setting | the multitransport request without a message channel (finding 3) |
| `activation` | 2 resizes, 2 inputs, 2 updates, all settings but those of the next two runs | nothing fails; activation is current and happens once; a reactivation is known for one; both sides become active |
| `activation_legacy` | 1 resize, 1 input, 1 update | the font list whose activation waits for another PDU (finding 1) |
| `activation_reread` | no resize, 1 input, 1 update | the finalization PDU that is decrypted twice (finding 4) |

Why the bounds are enough. Three threads are a holder, a thread in a gap of the
hand-over and a waiter; two levels of nesting distinguish the outermost from an
inner call, one spin the loop from its end. Starting at capacity 2 (32 in the code)
eight messages fill, wrap and grow the ring twice from every position of the head.
Three clients are one that is late, one that quits and one at the barrier. Two clients
of a pool are one that waits and one that resets what it waits for; two
resizes shrink and grow it, or shrink it twice. Three rounds of a barrier use each
event twice, and three threads are the last one, a spinning and a blocked one. For the
invariants the theorems below remove the bounds altogether.

The longest chain of fallbacks has five tries (AAD, EXT, NLA, TLS, RDP), and each uses
one connection: six are never used up. The settings of `negotiation` are all there
are. Those of `connection` are all combinations of the options with the default
encryption methods, and all selections of methods with the default options; a client
without multitransport has no flags for it, as the command line leaves it
(finding 3 is about a client where it is not so). With two resizes one reactivation
follows another, also straight from the `Activate` callback of the first, while input
and updates of each generation are under way.

`CHECK_DEADLOCK FALSE` is used where the system may rest: an active session whose
bounded inputs, updates and resizes are used up, a pool or a barrier that nobody
uses any more, a negotiation or connection that has ended. The liveness properties say
that they rest nowhere else. `CriticalSection`, `MessageQueue` and `MultiClientEvent`
are checked for deadlock.

### Fairness

- `CriticalSection`: weak fairness of each thread inside its call. The operating
  system schedules threads, and a posted semaphore releases a waiter. Callers are
  not assumed to call, or to leave. Individual starvation is possible in the code (a
  spinning thread overtakes waiters) and `WaiterIsWoken` does not exclude it.
- `MessageQueue`: weak fairness of the worker's wait and take. Producers may stop.
- `MultiClientEvent`: weak fairness of the server's waits and of each client's
  serving. A client sends a frame in finite time or leaves its loop. Publishing,
  joining and quitting are not assumed to happen.
- `ThreadPool`: weak fairness of a submission that has begun, of a wait whose event is
  set, of each thread of the pool and of the owner inside a call. Callbacks end.
  Clients need not submit, nor the owner resize or close. `WaitEnds` excepts the
  pool that was left without any thread because none could be started.
- `Barrier`: weak fairness of each thread inside its call.
- `Negotiation`: weak fairness of the client, which runs `nego_connect` and NLA to their end
  and disconnects when they fail, and of each peer, which has a thread of its own. Nothing
  makes the network lose a connection or one side refuse (`Refuse`): handshakes may end
  well, and the liveness properties do not depend on a refusal to end them.
- `Connection`: weak fairness of each side: a loop that takes the next PDU.
- `Activation`: weak fairness of handling what has arrived, on both sides: TCP
  delivers in order and both loops run. Input, updates and resizes may not happen.

### Mutants

Every property has a mutant, an operator named `<definition>_<defect>` before the
definition it replaces, that makes one plausible mistake (an off-by-one, a flag not
reset, a missing move). TLC finds the property violated with it.

### Findings

1. In `CONNECTION_STATE_FINALIZATION_PERSISTENT_KEY_LIST` the server overwrites the
   result of a font list (`STATE_RUN_CONTINUE`, "State changed, trigger rerun",
   `peer.c:386`) with that of `peer_unexpected_client_message` (`peer.c:1115`). It is
   then in state ACTIVE, but `PostConnect` and `Activate` wait for another PDU, and that
   PDU is not read. It takes a server with a persistent bitmap cache
   and a client that sends no key list and no bitmap cache v2 capability.
2. When `Queue_EnsureCapacity` fails, `Queue_Enqueue` leaves with its result still TRUE
   (`Queue.c:203`). `SubmitThreadpoolWork` relies on it ("Queue_Enqueue takes ownership of
   callbackInstance", `work.c:155`): the callback is lost and stays counted, so that every
   later wait on the pool blocks.
3. The client announces its `MultitransportFlags` whether or not `SupportMultitransport`
   is set (`gcc.c:2399`), and asks for a message channel only if it, auto-detect or the
   heartbeat is (`gcc.c:2318`). With these off and the default flags, as
   `server/shadow/Win/win_rdp.c:343` sets them, the server sends its multitransport request
   on channel 0, though such PDUs belong to the message channel ("If the MCS message
   channel has been joined...", `connection.c:1133`), and the client ends the connection.
4. The monitor layout PDU "is optional, so if we received a finalize PDU continue there"
   (`rdp.c:1806`). A client with `SupportMonitorLayoutPdu` that gets the synchronize PDU in its
   place reads the same bytes twice (`STATE_RUN_TRY_AGAIN`, `rdp.c:1817`, `2122`). Under RDP
   security the first read has decrypted them in place (`rdp.c:1609`, `security.c:876`) and
   advanced the RC4 key: the second read decrypts plain text, the key stays out of step with the
   server's, and the session fails or hangs in the finalization. A server that sends no
   monitor layout and uses RDP security, such as the sample server, and the X11 client with
   several monitors (`xf_monitor.c:641`) are enough.

The negotiation has two limits that are stated in its properties rather than as
findings, since no text in the repository promises otherwise: after a refused AAD try
RDSTLS is not tried, and the RDSTLS try offers TLS but not NLA.

## 4. What is proved

All theorems hold for every value of the constants under the assumptions named in
the modules; TLC evaluates these assumptions in every run.

**CriticalSection** (`CSAssumption`: finitely many threads, a null that is none of
them). Exclusion is not inductive: a thread that is posted holds nothing until it
has taken the semaphore, and one that lost may still be about to wait. `IInv` adds
where in its call a thread can be at which depth (`PositionInv`), that the owner field
names the holder (`OwnerInv`), that there is one token, free, held, being posted or
posted (`TokenInv`), and what `LockCount` counts (`CountInv`), which needs the
cardinality of the set of waiters. Theorems `Invariance`, `Exclusion`, `Recursion`,
`PostsAreDue`.

**MessageQueue** (`QueueAssumption`: initial capacity at least 2; with 1 the test
`tail <= head` would also be true of the empty ring that is being enlarged). `IInv` says
that the ring is never full and its tail is where its entries end (`RingInv`), that the
event is set exactly when there is something to read (`EventInv`), and what the quit
message closes. Lemmas about remainders and about what `EnsureCapacity` does to slots
carry the refinement: every action maps to one of `MessageFifo` or to a stutter.
Theorems `Invariance`, `FindsMessage`, `NothingAfterQuit`, `Refinement`.

**MultiClientEvent** (`ClientsAssumption`: finitely many clients). `IInv` ties the two
counters to the sets of threads they count (`CountersInv`) and says exactly when each of
the three events is set (`EventsInv`); the assertions of the code follow. Theorems
`Invariance`, `NoAssertionFails`, `ServerWaits`, `BarrierHolds`, and `Refinement` of
`FrameRounds`.

**ThreadPool** (`PoolAssumption`: finitely many clients, a pool that starts with at least
one thread). `IInv` says that every instance is in one place, about to be queued, queued or
with a thread (`OnePlace`), that it has run exactly when its thread says so (`RunsOnce`),
that a work object exists while a callback has yet to begin on it, and in a codec until it is
waited for or for ever if it is given up (`InUse`), and that the counter is the
cardinality of the set of outstanding instances. The properties are not inductive without
`OnePlace`: the counter alone does not tell an instance taken twice from two. Theorems
`Invariance`, `TypeCorrect`, `CountIsRight`, `NothingIsLost`, `CloseIsClean`, and `Refinement`
of `WorkItems`.

**Barrier** (`BarrierAssumption`: a finite, non-empty set of threads). The code has no round
number; the proof counts rounds, and `IInv` derives from a thread's position which rounds
it has entered and left (`RoundsInv`), what the counter counts (`CountInv`), that one thread at
a time closes a round and that nobody leaves while it swaps the events (`LastInv`), and,
by the parity of the round, which event is current, dormant, set, and held in each
thread's copies (`EventInv`). That the copies of a thread, read without a lock, are never
those of another round is the heart of it. Theorems `Invariance`, `CounterSafe`, and
`Refinement` of `Rendezvous`.

**Negotiation** (`SettingsAssumption`, `BoundsAssumption`). `IInv` states what a try under way
rules out, that is, which stronger protocols are not shared (`TryInv`), what the connection
of the try (`RecvInv`) and the one being secured (`SecureInv`) hold, what every
connection holds, abandoned ones included (`ConnInv`), and how far the handshakes are: only
the last try has one, its layer is the one the peer accepts, and RDSTLS ends on the client
after it has ended on the server (`ShakeInv`). `Agreement` states the peer's part from these,
not from a guard: the client never reads the peer's state. Theorems `Invariance`, `Agreement`,
`Service` (`OnlyLastServed`), `Completeness`, `Strength`.

**Activation** (`BoundsAssumption`: the bounds are natural numbers). The properties are about
states, and say nothing of what is under way when a resize starts, on which they depend. `IInv`
gives every PDU a place: on the server's stream `8 * generation + n`, from Deactivate All
to the updates, on the client's stream from Confirm Active to the font list. The state of a
side says up to which place it has sent and up to which it has taken, and what is under way
is exactly what lies between, in order, nothing missing (`ServerStream`, `ClientStream`);
updates and input may stand anywhere they can be sent. The two sides are at most one
generation apart, and then the server waits for Confirm Active (`GenerationInv`). The flags of
each side are those of the PDUs taken (`ClientInv`, `ServerInv`). The order is what makes a
font list of an old generation impossible: the PDUs of the client that a server in
`CONFIRM_ACTIVE` can still get from before are input, which it drops. The lemmas
say what happens to a stream when its head is taken or a PDU is added behind it; then there is
one lemma per action and state. Theorems `StreamsAreInOrder` (`IInv`), `TypeCorrect`,
`NoPduFails`, `ActivationBelongsToLastDemand`, `ActivateIsCalledOnce`,
`ReactivationsAreRecognised`. They are about `Spec`; the settings of findings 1 and 4
(`LegacySpec`, `RereadSpec`) are outside it, and `IInv` says that with the others no PDU is decrypted
twice.

**Connection** (`SettingsAssumption`: the settings have their types; any number of channels).
`IInv` is a disjunction of phases, `Starting`, `Responding`, `Attaching`, `Joining`, `Joined` with
its parts `Securing`, `Detecting`, `Bootstrapping` and `Demanding`; each gives the states, the ids, the
keys and the contents of both queues. All ids follow from the client's settings
(`IdsOfChannels`, `IdOfMessage`, `IdOfUser`), and in `Joining` what is joined is a prefix of the order of
the joins, on the server the same or one channel more. `SettingsInv` relates the settings
of the two sides before and after each merge. The lemmas on the order (no id twice, a prefix
grows by its next element, `NextToJoin` is that element) replace the bound on the channels.
The theorems have a hypothesis, `TransportNeedsChannel`: a client that announces the
transport the server would use asks for a message channel. It is what finding 3 shows to be
needed, and the run `connection` has only such clients. Theorems `PhasesFollow` (`IInv`), `NoPduFails`,
`SettingsAreMerged`, `ChannelsAreJoined`, `MessageChannelIsJoined`, and `NobodyWaitsInVain`, the part
of `Connected` that is not about fairness: the two sides take turns, and both queues are empty
only before the first PDU and after the last.

In all of these the inductive invariant is proved, and the runs check the properties that
follow from it. Every invariant, action property and refinement of the runs has a theorem.

Only model-checked: liveness (`WaiterIsWoken`, `PostedIsDelivered`, `FrameIsSent`, `WaitEnds`,
`OwnerReturns`, `EverybodyLeaves`, `NegotiationEnds`, `NoPeerLeftBehind`, `Connected`,
`EventuallyActive`, `FontListActivates`), which needs fairness and `ENABLED`.

## 5. Not modelled

See `components` in `PROJECT.json` for the whole list with reasons. In short: codecs,
primitives, colour conversion, GDI and caches (numeric or sequential data
transformation); parsing and formatting of PDUs; transport, TLS and gateways (I/O and
libraries); user interfaces; failed allocations, after which the objects above are
unchanged; signals that interrupt `sem_wait`.

Of the parts that are modelled, these are left out:

- `DeleteCriticalSection` and `DeleteSynchronizationBarrier`. The latter waits for the
  counter only, which is refilled before the last thread sets the event; its only caller, a
  test, deletes a barrier whose threads have ended.
- The default pool, cleanup groups (only tests use them), and the pool API that is not
  implemented. A thread that is started but cannot be added to the list (`pool.c:219`), which
  nobody would join. `channel_stop_and_wait`, which takes a work object from the list and
  waits on it after the list lock is released, when its callback may have freed it.
- `shadow_multiclient_publish` and `shadow_multiclient_wait` as two calls. The wait decides
  by `consuming` and not by `doneEvent`, so with two calls the assertion that the last
  subscriber has reset the event (`shadow_mcevent.c:153`) would not hold; nothing calls them.
- `NegotiateSecurityLayer` = FALSE, `Authentication` = FALSE, `VmConnectMode`, the pre-connection
  PDU, routing tokens and cookies, restricted admin; the contents of the TLS, NLA and
  RDSTLS messages. NLA's tokens are one exchange.
- The test of `EXTENDED_CLIENT_DATA_SUPPORTED` before the extended client data blocks
  (`gcc.c:707`): the servers of this repository always announce it (`nego.c:1450`).
- The exchange of licenses: no server in the repository requires one, and the server side
  of the exchange is a stub.
- Continuous auto-detection and the heartbeat, which keep no state of the connection.
- Redirection, errors in the contents of PDUs, and a resize in the middle of a
  reactivation, which the proxy does not exclude.

## 6. Plan

What the inventory names and no module models yet, in the order of importance.

1. `FrameAck`: frames in flight of the graphics pipeline and the rate control of the
   shadow encoder.
2. `DynamicChannels`: create, fragments and close on both sides.
3. `StreamPool`: reference counts and the two lists.
4. `ProxySession`: two connections, their resize and abort; here `Activation` without
   the serialisation that the shadow server gives.
5. `Nla` and `License`: the state machines of the client.
6. Region arithmetic as a pure algorithm against a definition by sets of points.

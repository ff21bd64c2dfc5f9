# A TLA+ model of alpl

alpl is a header-only C++ library for Windows: a TCP server and a TCP client on
an I/O completion port, a blocking queue, and a few helpers. This directory
holds TLA+ modules that model its networking core, its queue, its demo program
and its helpers, the configurations that model-check them with TLC, and proofs
about them for TLAPS.

Contents: 1 inventory, 2 the modules and the code, 3 the runs, 4 disagreements
between the source and what it says, 5 the proofs, 6 what is left out, 7 plan.

## 1. Inventory

| Part | State | Operations | Correct when |
|---|---|---|---|
| `IocpHandler` (`src/net/impl/IocpHandler.hpp`) | `exiting_`, `isrunning_`, `iocp_handle_`, `the_socket_context_`, the list `socket_contexts_`, the map `connections_`, `locker_` | `start`, `WorkerThread` and the handlers it calls, `start_accept`, `disconnect`, `exiting` | a context is used by one thread at a time and never after it is freed; each connection is registered while data can arrive; each close is reported once; accepting goes on; workers end |
| `socket_context`, `io_context` (`src/net/net.h`) | a socket, the operation last posted, the socket of the next accept | allocated by `create_socket_context`, freed by `disconnect` | see above; no handle is closed twice or leaked |
| `TcpConnection` | `socket_`, `connected_`, callbacks | `Send` | bytes go to the peer the connection was made with |
| `TcpServer` | `ls_`, the handler | `Start`, `Stop` | `Start` reports what it achieved, `Stop` ends every worker |
| `TcpClient` | `connection_`, a handler with one worker | `Start`, `Stop` (empty), destructor | data and the peer's close reach the callbacks |
| `SocketFactory` | none | makes and connects sockets | a failed call leaves no handle that nobody knows |
| `main.cpp` | a global counter and two events | echo callbacks, the session threads | no byte is lost, two blocking senders never wait for each other, the echo ends |
| `blocking_queue` | a deque, a critical section, two condition variables (Vista) or events (XP) | `try_push_back`, `try_pop_front`, `size`, `empty` | an atomic bounded FIFO; nobody sleeps who could go on |
| `threading.h` | - | thread trampoline, `sync` macro, condition variables | - |
| `errno.h` | - | assertion macros, `ntob` and `bton` | `bton` inverts `ntob` (it does not, see 4) |
| `Stopwatch` | `_start`, `_elapsed`, `_started` | `begin`, `stop`, `readable`, `readable2` | the fields of a text add up to the time |
| `TcpConnector` | all of it is commented out | - | - |

How they interact. `TcpServer::Start` makes an `IocpHandler`, which makes a
completion port and worker threads, and posts one `AcceptEx` on the listener's
context. Each packet in the port carries the address of the context whose
operation completed. Any worker may dequeue it:

- an accept is registered as a connection (new context in the list, new
  `TcpConnection` in the map), data that came with it goes to `onDataReceived`,
  a `WSARecv` is posted on the new context, and only then the next `AcceptEx`;
- received data goes to `onDataReceived`, and then the next `WSARecv` is posted;
- a close or an error goes to `disconnect`: `onDisconnected`, erase, close,
  unlist, free, all inside `locker_`.

The workers share the handler's fields, the list and the map. `locker_` covers
`disconnect` and the allocation of a context; the insertions and the lookup are
outside it. Callbacks run on the workers. `Stop` sets a flag, posts one NULL
packet per worker, waits at most a second, and closes the listener.

The demo, `main.cpp`, runs one server and one client; their callbacks echo one
message until the client has counted to a hundred, and the callbacks block in
`Send`. The queue is used by nothing else in the repository: its users are any
threads that call it. It has two builds: with condition variables (Vista and
later) and with auto-reset events (2000, XP), which behave differently.

The hard behaviours: interleavings of workers over shared containers, handle
and memory reuse, failures of system calls in the middle of a handler, the
unlocked stretches, and shutdown. The full list, each at its line with the
properties that watch it, is `hazards` in `PROJECT.json`.

## 2. The modules and the code

| Module | Models |
|---|---|
| `IocpHandler` | the engine: worker threads, contexts, connections, critical section, and the system's side of sockets and port |
| `TcpServer` | extends the engine with the thread that calls `Start` and `Stop`; server properties; the inductive invariants |
| `TcpClient` | extends the engine with the thread that owns a client; client properties; the inductive invariant |
| `ConnectionEvents` | abstract: what the library promises to a connection's callbacks |
| `MCTcpServer` | the symmetry set of the server's TLC instances |
| `BoundedFifo` | abstract: a bounded FIFO whose calls take effect in one step |
| `BlockingQueue` | what both builds of `blocking_queue` share, and its properties |
| `BlockingQueueVista` | extends it with condition variables |
| `BlockingQueueXP` | extends it with events; timeouts and failed waits in specifications of their own |
| `EchoSession` | the callbacks of `main.cpp` over two bounded directions of a connection |
| `TimedSession` | composes it with the `Stopwatch` that `ClientSession` times itself with |
| `ByteOrder`, `Stopwatch` | `ntob` and `bton`; the watch and its texts as numbers |
| `MCTimedSession` | the times TLC gives the watch |
| `TcpServerProofs`, `TcpServerRegistryProofs`, `TcpClientProofs`, `BlockingQueueProofs`, `BlockingQueueVistaProofs`, `BlockingQueueXPProofs`, `EchoProofs`, `HelperProofs` | theorems and their proofs |

The next paragraphs describe the engine, the last ones the other modules.

**State.** Members keep their names (`exiting_`, `socket_contexts_`,
`connections_`, `LastOperation`, `SocketAccept`, ...). `iocp_handle_` is a
Boolean: the port, or NULL. The list is a set, since only membership matters.
`connections_` maps each handle value to a connection or `None`. `live` is the
set of allocated contexts; the addresses in `Contexts` and the handle values in
`Sockets` are reused as soon as they are free, as in the real system.
`pc`, `job`, `cur` and `conn` are a worker's program counter, packet, connection
context and the connection whose callback it runs. `open`, `peer`, `clients`,
`accepting`, `receiving`, `port` and `exitPackets` are the system's. `notified`,
`strayed`, `refused` and `undefined` are history, read by properties only
(`undefined` also ends the execution).

**Steps.** One action is the code from one access to shared state to the next.
The labels name what comes next:

| Label | Next step, in `IocpHandler.hpp` |
|---|---|
| `idle` | `GetQueuedCompletionStatus` (623) |
| `got` | the tests of `exiting_`, `isrunning_` and `LastOperation` (635-658) |
| `accept` | `handle_accept` up to the new context (402-420, 225-238) |
| `list`, `register` | `push_front` (244); `connections_[...] = a_conn` (481) |
| `lookup`, `callback` | `count` and `operator[]` (550); `onDataReceived` (493, 553) |
| `post` | `WSARecv` (507, 529) |
| `rearm` | `start_accept` (666) |
| `lock` | `EnterCriticalSection` and the test of `disconnect` (76-90) |
| `notify`, `erase`, `close`, `free` | 114; 116; 118; 121-125 |

A failing call is an action of its own (`AcceptFails`, `AssociateFails`,
`RearmFails`, `PostReceiveFails`, ...) or a disjunct. `StartAccept` has two
outcomes that the code cannot tell apart: `AcceptEx` is pending, or it was
refused.

**Undefined behaviour.** A data race on the containers (`DataRace`), reading
`the_socket_context_` before anything is stored in it (`CloseNoListener`),
dereferencing NULL (`InitReceiveFails`), using a deleted handler
(`UseDestroyed`) and deleting `worker_threads_` before anything is stored in it
(`DestroyHalfStarted`) set `undefined` and end the execution. A race is not forced:
the same interleaving also continues as if the accesses had been ordered.
All properties speak of behaviours up to such a step.

**Faulty variants.** Operators whose comment begins with "Faulty" are not part
of any specification. Each states a plausible bug of the definition below it,
and replacing the definition by it breaks the property named in
`PROJECT.json`: a test of the properties themselves.

**External assumptions.** A packet goes to one worker. An operation posted on a
socket completes once, with data, with no bytes, or with an error.
`SO_UPDATE_ACCEPT_CONTEXT` fails after a failed accept. `AcceptEx` is a `BOOL`
function. A closed handle value may be handed out again at once. The order of
packets in the port is left free (`port` is a set and `exitPackets` a number):
the FIFO order of the real port is one of the orders allowed. The application
sets `onDisconnected` before `Start`: `disconnect` calls it at
`IocpHandler.hpp:114` without the test for NULL that 492 and 552 have for
`onDataReceived`, and an unset one would throw while `locker_` is held. Callbacks
do not throw. `send()` is taken as made; its result, which
`TcpConnection.hpp:100` drops, is part of `EchoSession` only.

**Read so that it makes sense.** `handle_new_connection` uses
`new_socket_context` (`IocpHandler.hpp:459`, 503-514), which it does not declare;
the models take it for the context that `handle_accept` has just made (413).
`disconnect` closes `SocketAccept` (109-112) before it calls `onDisconnected`;
`CloseSocket` closes it with the socket (118), which is the same, as a
connection's context never has one (`ConnectionContexts`, proved).

**The queue.** `q_`, `sync_` (its owner) and, for each thread, a label, the call
and the reply to come. A step is again the code from one access to shared state
to the next: enter, test and change the deque, wake, leave. On Vista a wait
releases the lock and sleeps in one step, `cond_wake` wakes one sleeper, a
sleeper may wake for no reason (`WakeSpuriously`), and a timeout takes the lock
again (`Expire`, `ExpiredEnters`). On XP the lock is left first, so that a
thread at `waiting` may not have reached its wait yet; `SetEvent` puts the
operation into the set `signalled`, which forgets a second `SetEvent`. `sync_t`
leaves the critical section at every way out of its block, also on the XP
build's timeout, where the thread has left it before (`LeaveUnowned`). Entering
is unordered in safety, and fair in liveness.

**The echo.** A connection is two numbers of units on their way; `sending` is
what is left of the `Send` of each of three threads (the session thread and the
two workers in a callback). `Transmit` moves one unit while the peer's window has
room: with `SO_SNDBUF` 0 nothing is buffered at the sender. A receive takes up
to `MaxRecv` units and only when the previous callback has returned, which
`CallbacksInOrder` shows of the engine. A broken connection loses what is on its
way and makes every `Send` return, since its result is not looked at. The thread
that would run `ClientSession` is commented out (`main.cpp:148`); the model
shows what the program does with it.

**The helpers.** Pure functions, as recursive function definitions. `ByteOrder`
keeps the widths: `char` is signed and `int` wraps. `Stopwatch` has integers in
place of doubles: milliseconds and a fraction in tenths of microseconds.
`TimedSession` puts the watch where `main.cpp` has it: `begin` with the step that
starts the session's `Send`, `stop` with the one that ends its wait. What
`main.cpp` prints is `elapsedmilliseconds()`; `readable` and `readable2`, which
the library offers for the same purpose, are the steps after that.

## 3. The runs

| Run | Question | Result |
|---|---|---|
| `server_safety` | the safety properties of the server, with all failures, reuse and `Stop`; does it implement `ConnectionEvents`? | holds |
| `server_liveness` | do workers end, are closes reported? | holds |
| `client` | does the client keep its one connection, does data reach the callback? | holds |
| `queue_vista` | is the Vista queue an atomic FIFO, and does it forget nobody? | holds |
| `queue_xp` | is the XP queue without timeouts an atomic FIFO, and what of its wake-ups is never lost, for two threads? | holds |
| `echo` | can the blocking sends of the echo block each other, does it end, and do the texts of the watch that times it add up? | holds |
| `server_accept_lost`, `server_accept_refused`, `client_close`, `queue_xp_timeout`, `queue_xp_forgets`, `byte_order` | what the source says of itself | violated, section 4 |

What the properties say:

- `SingleOwner`, `NoDanglingContext`: the lock-free use of the completion key is
  sound. A context is outstanding, queued, or held by one worker; nothing
  refers to a freed one. `ReceiveAhead`, posting the receive before the
  callback, breaks both and `CallbacksInOrder`.
- `DistinctHandles`, `NoStaleRegistration`, `ReceiverRegistered`,
  `HandlesAccounted`, `ListMatches`: the containers, the contexts and the
  system's handles agree at all times, in spite of handle reuse between the
  erase, the close and the free.
- `NotifiedOnce`, `CallbacksInOrder`, `NoStraySend`: what callbacks see. A Send
  from inside a callback is always made on the open handle of the connection's
  own peer. That is all `NoStraySend` says: the sends of `server_safety` are
  those of callbacks, one of another thread may go elsewhere (section 4), and
  what `send()` does is not looked at, neither by the code nor by the model.
- `AcceptChainUnlessLost`, `LostWorkerEndsAccepting`: the server accepts until a
  worker is lost or an `AcceptEx` is refused, and at most one worker is lost
  before `Stop`, because only the one that carries the chain can be.
- `InsertsSerialized`: the two unlocked insertions are ordered by the single
  outstanding `AcceptEx`; only lookups and `disconnect` race with them.
- `RacesOnOtherEntries`: the lookup, the insertions and `disconnect` do race on
  the containers, but never on the entry of one connection. A lock around the
  containers alone would thus repair them.
- `DisconnectsSerialized`: a worker is in `onDisconnected` or in the rest of
  `disconnect` exactly while it owns `locker_`, so that the callbacks for two
  connections never overlap and the lock is never left behind.
- `NoCaseMissing`: the `switch` at `IocpHandler.hpp:658` has no default that does
  anything. Every packet with data has a case that takes it, a connection is set
  up only for a handle with a peer, and `the_socket_context_` is stored before
  anybody compares with it. A `WSARecv` whose context is not marked
  `IOReceive` breaks it.
- `ExitPacketMeansExiting`: the NULL overlapped pointer of an exit packet is
  never read. `ExitPacketsSuffice`: after `Stop` there is an exit packet for
  every worker that has not taken one, so that none stays in the port.
- `WorkersStop`, `PeerCloseReported`, `DataDelivered`: liveness.
- `ServerInvariant`, `ClientInvariant`: the inductive invariants of section 5,
  which contain the type invariants. On the client `CallbacksInOrder` says that
  data arrives between the connect and the end, one callback at a time.
- `ConnectionKept`: the client's own context passes for the listener's in
  `disconnect`, which thus releases nothing.
- `Linearizable`: each queue implements `BoundedFifo`, the deque being its queue.
  `MutualExclusion`: no two threads are in the block of `sync(sync_)`.
- `NoLostWakeup`: while a thread sleeps on the Vista queue, at least as many
  threads are woken, about to test or about to wake another as calls can
  succeed. Waking at the edges only (from empty, from full), a familiar
  optimisation, breaks it. `NoneForgotten` is the liveness that it is for.
- `OneSideAwake`, `PairIsWoken`: an event of the XP queue is one bit, so that two
  `SetEvent`s can wake one thread. Whatever is lost, producers and consumers
  never sleep all together: one of the two operations can succeed, and nobody
  waits for it, or somebody is on the way. With two threads nothing is lost: a
  waiter that could go on has its event set, or the other thread is about to set
  it. Waking its own operation instead of the other breaks both.
- `Conserved`, `NeverStuck`, `EchoEnds`: until the client has counted past the
  limit every unit of the message is on the connection or in a `Send`; some
  thread can always go on as long as the message has at most one unit more than
  both directions hold; the session ends, or the connection broke and no
  thread is left in `Send`.
- `TextsAddUp`: the fields of a text stay below
  the next unit and add up to the elapsed time, except that `readable2` can
  print 1000 microseconds.

**Bounds.** `server_safety`: two workers, two connections,
three contexts (the listener's and one per connection), four handles (listener,
two connections, and the socket of the next accept). With two connections the
interesting pairs occur: accept against disconnect, two disconnects, a handle or
a context address of the first connection reused by the second. One free handle
fewer would block re-arming while both connections are open. Workers, contexts
and connections are interchangeable, so their permutations are a symmetry.
Liveness uses one connection, two contexts and three handles, without symmetry.
The client has one worker and one connection, as its constructor fixes.
Deadlock is not checked: after `Stop`, or in `undefined`, the system is done.
The models have no counters to bound: the number of peers (`Conns`) limits
accepts, and receives go round for ever.

`queue_vista`: three threads, capacity 2, one item besides the default elements
the queue starts with, finite and infinite timeouts: two threads can wait for
one operation while the third serves them, which is where wake-ups get lost.
`queue_xp` has two threads and two items; its safety properties are proved for
any number of threads, `PairIsWoken` but for its own condition. Liveness is not
claimed of the XP queue: `queue_xp_forgets` has the three threads that it takes
to break it, two that wait and one that serves both. `echo`: a unit is 2 KB, so
that the message has 5 units (10 KB) and a receive takes up to 2 (4 KB); each
direction holds 2 and the limit is 4 instead of 100, which is enough for the
message to go round in every split. The times are 0, the longest, and around
every unit and carry, with the fractions around every rounding. In these runs
nothing is cut off by a bound.

**Fairness.** Weak fairness of each worker: threads are scheduled and
application callbacks return. Strong fairness, for each context, of taking its
packet out of the port: the port is FIFO, so that a packet does not wait for
ever. Weak fairness of `Stop` once it is called. Nothing is assumed of peers, of
the system's completions, or of the caller ever calling `Stop`. The queue: weak
fairness of each thread inside a call, never of making one, and strong fairness
of getting the critical section, whose waiters Windows serves in turn. The echo:
weak fairness of callbacks and of the session thread, strong fairness of each
sender: the system does not pass over one of two threads that send on a
connection. That the connection breaks is never assumed.

## 4. Where the source disagrees with itself

Each of these is a run that TLC finds violated, with the line quoted in
`PROJECT.json`.

1. `AlwaysAnotherAccept`: the comment at `IocpHandler.hpp:643` says another
   `AcceptEx` must always be posted; a failed `handle_accept` returns from the
   thread at 662 before it is. One peer that resets early is enough.
2. `RefusedAcceptReported`: `start_accept` compares the `BOOL` of `AcceptEx` with
   `SOCKET_ERROR` (327); its error branch cannot be taken and `Start` can return
   `COMM_SUCCESS` with nothing listening.
3. `CloseReported`: a client's `disconnect` takes the connection for the
   listener's (90) and never calls `onDisconnected`.
4. `MutualExclusion` with timeouts on XP: a timed-out call leaves a critical
   section that it left before (`BlockingQueue.hpp:70`).
5. `NoneForgotten` on XP: `threading.h:85` calls them conditional variables, but the
   XP build's is an auto-reset event, and two `SetEvent`s before a waiter runs are
   one (110). Two pushes wait, two pops make room, one push is woken; the other
   waits for ever although there is room. `queue_vista` shows the same property
   to hold of the condition variables of the other build.
6. `ComesBack`: `errno.h:108` says "Convert number to bytes, and vice versa", but
   `bton` adds the chars with their signs (133), so that a negative one takes one
   from the char above it. TLC goes through chars of two bits, so that it meets
   every number of four chars and every byte past the buffer. What is true of
   every number of 32 bits is `ComesBackLess`, which is proved (section 5).

These are stated in the modules too and fail in the same way. They have no run
of their own; each is a change of one configuration:

| To see | Change |
|---|---|
| `ExitReachesWorkers`: after a failed association (230) `iocp_handle_` is NULL and `exiting()` posts to nobody | `ServerLiveness.cfg`: that property |
| `CleanedUp`: workers leave with "do clean up in the main thread" (639), which does none for connections | `ServerSafety.cfg`: that invariant |
| `NoStraySend`: the guard "Not connected." (`TcpConnection.hpp:95`) tests a flag that nothing clears, so a `Send` of an application thread goes to a closed or reused handle | `ServerSafety.cfg`: `SPECIFICATION AppSpec` |
| `TimedCallReturns`: each wake-up starts the full timeout again (`BlockingQueue.hpp:57`) | `QueueVista.cfg`: `SPECIFICATION OrderlySpec`, `Timed = {TRUE}`, `max_size_ = 1`, that property |
| `MutualExclusion` with failed waits on XP: the loop goes round without the lock (74) | `QueueXP.cfg`: `SPECIFICATION FailingSpec`, no other property |
| `PoppedWasPushed`: `q_(max_size)` (`BlockingQueue.hpp:8`) fills a new queue with default elements; pops return them and the first push waits | `QueueVista.cfg`: that invariant |

## 5. The proofs

**The server.** For every finite non-empty set of workers and any sets of
contexts, handles and connections (assumption `HandlerAssumption`), every
invariant that `server_safety` checks is proved, and so is the refinement:

| Theorem | States |
|---|---|
| in `TcpServerProofs` | |
| `OwnershipInvariantHolds`, `TypeCorrect` | `Spec => []OwnershipInvariant`, `Spec => []ServerTypeOK` |
| `OneOwner`, `NoUseAfterFree` | `Spec => []SingleOwner`, `Spec => []NoDanglingContext` |
| `HandleInvariantHolds`, `HandlesDistinct` | `Spec => []HandleInvariant`, `Spec => []DistinctHandles` |
| `OneInserter`, `RacesApart` | `Spec => []InsertsSerialized`, `Spec => []RacesOnOtherEntries` |
| `ExitPacketSafe` | `Spec => []ExitPacketMeansExiting` |
| `AcceptsUnlessLost`, `OneLostWorker` | `Spec => []AcceptChainUnlessLost`, `Spec => []LostWorkerEndsAccepting` |
| in `TcpServerRegistryProofs` | |
| `ServerInvariantHolds` | `Spec => []ServerInvariant`, the conjunction of all |
| `ReceiversRegistered`, `RegistrationFresh` | `Spec => []ReceiverRegistered`, `Spec => []NoStaleRegistration` |
| `OneNotification`, `SendReachesPeer` | `Spec => []NotifiedOnce`, `Spec => []NoStraySend` |
| `ListComplete`, `NoHandleLeaked` | `Spec => []ListMatches`, `Spec => []HandlesAccounted` |
| `CallbacksOrdered` | `Spec => CallbacksInOrder`: every step is a step of `ConnectionEvents` or none |
| `NoDataAfterClose` | no `onDataReceived` runs for a connection whose end was reported |
| `OneDisconnect`, `CasesComplete` | `Spec => []DisconnectsSerialized`, `Spec => []NoCaseMissing` |
| `ExitPacketForEach`, `NobodyLeftWaiting` | `Spec => []ExitPacketsSuffice`, and so a worker at the port after `Stop` finds a packet |

None of the properties is inductive by itself. `ServerInvariant`, which TLC
checks in `server_safety`, is built in layers; each rests on the ones before it:

- `OwnershipInvariant`. `SingleOwner` does not say that a worker about to re-arm
  still holds the listener's context, nor that the context in `cur` differs from
  the listener's when it is freed. Added are what each label implies for a
  worker's packet and context (`ThreadsConsistent`), that only the listener's
  context accepts and that it is allocated first (`ListenerFirst`), and that
  nothing is in flight before `Start` has armed the listener (`StartsQuiet`).
- `HandleInvariant`. A new context takes its socket from `SocketAccept` of the
  listener's. Two contexts could share a handle if that one had been closed, or
  given away before: while the accept is pending it is open and nobody's
  (`AcceptedApart`), and a connection's context never has one of its own and
  loses its socket only to the worker that frees it (`ConnectionContexts`).
- `ExitInvariant` and `ChainInvariant`: exit packets follow `exiting_`, and the
  chain of accepts starts after `isrunning_` was set, so that no worker drops it.
- `RegistryInvariant`. An entry of `connections_` belongs to a context that has
  that socket (`EntriesHaveContexts`), and each context has its entry but while
  one worker sets it up or takes it down (`ContextsHaveEntries`). A connection
  that was reported is at the worker that closes it (`NotifiedGone`), so that a
  reused handle cannot be reported in its place.
- `EventsInvariant`: a connection is set up once (`SetUpOnce`), and only a worker
  in the callback has it in `conn`. This is what the step simulation needs.
- `WorkInvariant`: a context other than the listener's that is receiving, queued
  or just dequeued is marked `IOReceive` (`Marked`), which gives `NoCaseMissing`;
  the lock has the label of its owner (`LockStep`). `ExitPacketsSuffice` compares
  a cardinality with a number: the proof shows that from the posting on the set
  of running workers only shrinks (`RunningShrinks`), and by one whenever a
  packet is taken (`ExitPacketsStep`).
- `AccountInvariant`: whoever replaces `SocketAccept` has passed the old handle
  on to a context, or it is closed.

The ownership proof first says what happens to ownership when a context stays
(`KeepOwners`, `NothingMoves`) or moves: into the system (`HandOver`), into the
port (`Complete`), to a worker (`TakePacket`), or out of existence (`Release`).
Then each action is matched with one of them. The later layers are laid out in
the same way: lemmas for steps that leave the layer's state alone
(`HandlesKept`, `AccountKept`, ...), and then one step per action for the
workers, the system, `Start` and `Stop`. For the refinement the mapping is
`Stage` (a connection is away, open or closed) and `InCallback`.

**The client.** `TcpClientProofs`, under `HandlerAssumption` and
`ClientAssumption` (the one connection is `connection_`):

| Theorem | States |
|---|---|
| `ClientInvariantHolds`, `ClientTypeCorrect` | `Spec => []ClientInvariant`, `Spec => []ClientTypeOK` |
| `ClientOneOwner`, `ConnectionStays` | `Spec => []SingleOwner`, `Spec => []ConnectionKept` |
| `ClientSendReachesPeer` | `Spec => []NoStraySend` |
| `ClientCallbacksOrdered` | `Spec => CallbacksInOrder`, the refinement of `ConnectionEvents` |
| `NothingReported` | `onDisconnected` is never called |

`ClientInvariant` adds to the properties that there is one context at most,
which only receives (`OneContext`), what each label implies (`ThreadsReceive`),
and that a connected handle stays registered (`StaysConnected`). The point of
the proof is what never happens: a worker's context is always the handler's own,
so that `disconnect` returns at its first test (`ServerStepsDisabled`). This
holds for any number of workers, although a client makes one. For the refinement
`InitConnect` is the step that opens the connection (`ConnectRefines`), the
receive callback begins and ends data (`DataRefines`), and every other step is
silent (`SilentStep`); that no step closes the connection is `NothingReported`,
the theorem behind disagreement 3 of section 4.

**The queue.** For any finite set of threads, any items and any capacity
(`QueueAssumption`, `NoneAssumption`):

| Theorem | States |
|---|---|
| `VistaTypeCorrect`, `XPTypeCorrect` | the variables keep to their types |
| `VistaExclusion`, `XPExclusion` | `Spec => []MutualExclusion` |
| `VistaWakes` | `Spec => []NoLostWakeup` |
| `VistaImplementsFifo`, `XPImplementsFifo` | `Spec => Linearizable`, every step is a step of `BoundedFifo` or none |
| `XPNeverAllAsleep`, `XPPairWoken` | `Spec => []OneSideAwake`, `Spec => []PairIsWoken` |

`BlockingQueueProofs` has what the two builds share: each common step keeps the
types and `Locked` (a thread's label says whether it owns the critical section)
and is a step of the FIFO. `MutualExclusion` follows from `Locked`.
`NoLostWakeup` is inductive with these: the proof follows the two numbers,
`Room(op)` and the threads `Coming(op)`, through each step. A push makes room
for one more pop and puts its own thread among those who will wake a pop; a
wake replaces the waker by the woken; a spurious wake-up only adds one; and a
sleeper falls asleep only when there is no room.

On XP there is no count to follow, since an event forgets. `OneSideAwake` is
inductive with the types and the lock (`AwakeStep`): a thread goes to sleep only
where there is no room, and then the other side has all of it; a thread that
succeeds makes room for the other side and is about to set its event; one that
takes an event is itself on the way. A capacity of 0 is left out, where nothing
can ever succeed. `PairIsWoken` needs that two threads wait for the same
operation only while neither can go on (`PairInv`): the second found no room,
and there is no third to make some.

**The echo.** For every message, window and limit (`EchoAssumption`):
`EchoTypeCorrect`, `EchoConserves`, `EchoNotStuck`. The invariant adds that
nothing is under way before the session begins, and that the counter passes the
limit by no more than the units left.

**The helpers.** `HelperProofs`:

| Theorem | States |
|---|---|
| `NumberComesBackLess` | `Bits = 8`, `prefix_length = 4`: `ByteSpec => []ComesBackLess`: every number of 32 bits comes back less what its negative chars take, and whole exactly if none of its three lower chars is negative |
| `TextsAlwaysAddUp` | `WatchSpec => []TextsAddUp`, for all times below 2^31 milliseconds and all fractions (`WatchAssumption`) |

The widths are those of the code; for these the two recursive functions have five
equations each, and the proof shows a function that satisfies them before it uses
them (`ValueIsJoined`, `LostIs`). A number is the sum of its chars in their
places and of what the negative ones took (`CharsOf`); joining them drops
multiples of 2^32 only (`WordWraps`, `JoinedIs`); so what comes back and the
number less what is lost are the same in 32 bits, and one of them is in the
range. For the watch, `FieldsOf` splits a number of milliseconds unit by unit,
and `ShownIs` says what printing from the first field that is not 0 leaves out.

**Not proved.** Liveness (`WorkersStop`, `PeerCloseReported`, `DataDelivered`,
`NoneForgotten` of the Vista queue, `EchoEnds`) needs fairness and ENABLED,
which the prover does not handle; these stay with TLC. `ComesBackLess` for other
widths would be an induction over the recursive functions. Every invariant and
every refinement that a run checks is proved.

## 6. Left out

- Unreachable or unused: `start_connect`, `handle_connect`, `handle_send`, the
  macros `cond_wait`, `cond_sig_wait` and `cond_reset`; `TcpConnector` is
  commented out.
- Does not compile: `handle_new_connection`, whose `new_socket_context` is not
  declared in it (`IocpHandler.hpp:459`, 503-514; section 2 says how it is read).
- Does not compile when used: `size()` and `empty()` of the queue (const members
  that enter `sync_`), its constructor with a name, and the branch of `Stopwatch`
  for other systems (`1.0e - 3`).
- Contents of buffers, addresses, error strings and formatting; exceptions of
  `new`; what containers do after a data race.
- A second `Start` on the same object; the queue's destructor while threads are
  inside; `~TcpServer` (`WSACleanup`, and `locker_` goes with the
  server), also under a worker that outlasted the second that `Stop` waits;
  callbacks that never return or that wait for another worker
  (`onDisconnected` runs inside `locker_`).
- `TcpServer` and `TcpClient` are checked one at a time; `EchoSession` puts the
  two together at the level of their callbacks.

## 7. Plan

To model:

1. A server that is started again (`TcpServer.hpp:72`), with the workers of the
   first handler still running.
2. The XP build of the queue with timeouts, as a specification of what it still
   keeps after `MutualExclusion` is lost.

To prove:

3. The steps behind liveness, as safety: that a worker inside a handler always
   has a next step unless it waits for `locker_`, and that what `Stop` waits for
   only shrinks.
4. The disagreements of section 4 that need a hypothesis to hold: the accept
   chain if no `AcceptEx` fails, the queue if it starts empty.

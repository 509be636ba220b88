# A TLA+ model of Boost-Asio-Socket

The program is a TCP server in C++20: coroutines on Boost.Asio read requests, a pool of processing
threads answers them, a lock-free queue connects the two. This directory holds a model of it,
the TLC runs that check it, and proofs checked by TLAPS.

Run `tlc -config X.cfg M` for a run `(M, X.cfg)` of the table below, and `tlapm M.tla` for a module
named `*Proofs`. `PROJECT.json` maps every definition to the lines it models and lists runs,
hazards, findings and theorems.

## The system

```
 client --TCP--> CServer (accept loop, main's io_context)
                    | make_shared<CSession>, insert in map, start()
                    v
             CSession (reader + writer coroutine, on one I/O thread of AsioProactors)
                    | postMessageToQueue(MessageNode)            ^ writeAsync(SendNode)
                    v                                            |
             LogicSystem: messageNodes queue -> worker coroutines, temporary threads
```

| Part | State it keeps | Operations | Talks to |
|---|---|---|---|
| **LogicSystem** | queue of messages, queue of suspended workers, a channel per worker, `nowSize`, thread slots | `postMessageToQueue`, worker coroutine, temporary thread, `metricsThread` | called by sessions; calls back `writeAsync` |
| **CSession** | `isStop`, queue of replies, one-place `writeChannel`, socket | reader, writer, `writeAsync`, `close` | LogicSystem, CServer::removeSession |
| **CServer** | map of sessions in locked buckets, atomic `connections` | accept loop, `removeSession` | AsioProactors (a context per session), CSession |
| **AsioProactors** | contexts, work guards, threads, `nowSize`, `loadBalancing` | grow, shrink, `getIoComplatePorts`, `stop` | AdvancedSystemMonitor (load), main |
| **concurrentqueue.h** | a sub-queue per producing thread: block list, head and tail, counters of the optimistic dequeue; hash tables of thread ids; a list of free blocks | `enqueue`, `try_dequeue`, exit of a thread, destruction | used by LogicSystem and CSession |
| **AdvancedSystemMonitor** | two flags, histories of ten samples, a thread | start, stop, load average | used by AsioProactors |
| **SessionSendThread** | locked task queue, `threadCount` | `commitTask`, `stop` | nobody (dead code) |
| **MessageNodes** | a buffer: a header of 2 + 8 bytes and a body | encode, free | CSession, which decodes |
| **FastMemcpy** | - | `memcpy_tiny`, `memcpy_fast`, `smart_memcpy` | nobody (included, not called) |
| **main** | the server and its context on the stack | start, signal, return | all of the above |
| Singleton, ConfigMgr, Utils, const | - | construction, configuration, logging | - |

What is hard in it, and what makes it correct:

- *LogicSystem.* A worker's failed dequeue, its push on `readyQueue` and its suspension are three
  steps; a post's enqueue, pop and send are three more; nothing is locked. Correct means: a wake-up
  is neither lost nor duplicated, a message is handled once, the thread pool's counter (changed by
  several threads without a lock) is the number of threads, and a posted message is answered.
- *CSession.* Any number of processing threads enqueue replies and signal one writer through a
  channel of one place, ignoring a full channel. Correct means that no reply sleeps in the queue, is
  lost or doubled, and that closing ends both coroutines and frees the session.
- *CServer.* Insert and count are separate steps, and both coroutines of a session may close it.
  Correct means that map, counter and `isStop` flags agree, and that the server keeps accepting.
- *AsioProactors.* The monitor changes `nowSize` and the threads while the accept loop chooses a
  context and main stops the pool. Correct means that every `std::thread` slot is joined before it is
  assigned, that `stop()` returns, and that the contexts handed out run.
- *concurrentqueue.h.* Nothing is locked. Correct means that a consumer gets the element it claimed,
  that a block is recycled once and only when nobody reads it, that a sub-queue has one producing
  thread although thread ids and sub-queues are reused, and that a thread may exit at any moment.
- *Start and exit.* Stack objects, static objects and threads end in an order nobody states. Correct
  means that the process ends, that every session leaves the map, and that nothing is used that is gone.
- *Messages on the stream.* Reads return any pieces. Correct means that what is written is posted,
  whole and in order, whatever the pieces and wherever the stream breaks.

`PROJECT.json` lists each hazard at its line with the properties that cover it, or why none does yet.

## The modules

| Module | Models | Actors and granularity |
|---|---|---|
| `LogicSystem` | LogicSystem.cpp | one action per access to shared state, of each worker, temporary thread, I/O thread and `metricsThread` |
| `MessageDelivery` | what LogicSystem promises (abstract) | a message is posted, a known message is answered |
| `CSession` | CSession.cpp | reader and writer, atomic between two `co_await`s for each other; handlers interleave with every access |
| `CServer` | CServer.cpp | accept coroutine, closers; a section under the bucket mutex is one action |
| `ConcurrentQueue` | concurrentqueue.h: `enqueue` and `try_dequeue` on the sub-queue of one producing thread | the producer and the consumers, one action per access to a shared variable |
| `SubQueue` | what that sub-queue promises (abstract) | an element is put, taken by a consumer, returned by it |
| `FreeList` | concurrentqueue.h: the list of free blocks | any threads, one action per access |
| `ImplicitProducers` | concurrentqueue.h: which thread owns which sub-queue, the exit of threads, the destruction of the queue | threads that come and go, one action per access another thread can disturb |
| `AsioProactors` | AsioProactors.cpp, the signal handler of main.cpp | monitor, I/O threads, accept loop, `stop()` |
| `AdvancedSystemMonitor` | AdvancedSystemMonitor.cpp: its thread | one action per exchange of a flag, used by `Lifecycle` |
| `Lifecycle` | main.cpp and the destructors: composes `CServer` and `AdvancedSystemMonitor` | main's thread, the system monitor's, the sampling thread, the sessions |
| `SessionSendThread` | SessionSendThread.cpp | committers, workers, `stop()`; a locked section is one action |
| `Framing` | MessageNodes.cpp, the reading and writing of CSession.cpp as bytes | a writer and a reader, one action per piece read |
| `FastMemcpy` | FastMemcpy.h, FastMemcpy_Avx.h | sequential: a copy is a set of moves |
| `MC*` | instances for TLC: model values, known messages, symmetry; `MCQueue` and `MCParts` put modules that share no state side by side in one run, of which one moves in a behaviour | |
| `*Proofs` | theorems about the module they extend; `PartsProofs` has those of the four parts of `MCParts` | |

Every component module contains faulty variants of single actions, marked as mutants
(a dropped guard, a missing reset, an off-by-one). No specification uses them: each one,
put in the place of the action it varies, violates a property (the list `mutants` of
`PROJECT.json`), which shows that the property depends on that line of the code.

**LogicSystem.** `tailIndex`/`headIndex` are the per-producer sub-queues of `messageNodes`: an
element is a pair (poster, number). `try_dequeue` is modelled by
the contract that `ConcurrentQueue` checks (`FailsExcused`): it takes the head of any sub-queue, or fails after it has seen each sub-queue
empty, at possibly different times (`SeeEmpty`), so it can fail although the queue is never empty. It can
also fail while another dequeue is in progress on the last element. An `enqueue` that fails for lack of memory
(`Enqueue`) loses its message, and its post wakes a worker all the same: nobody looks at the result. `readyQueue`, the channels and
the parked states follow lines 21-61 and 249-260; `pc[w] = "receive"` is a worker between its push
and `async_receive`. `Live` is the set of running temporary threads and `nowSize` the counter the
code keeps for them. `metricsThread` is split at each of its atomic accesses (`load`, `add`, `spawn`,
`detach`). `~LogicSystem` never runs, because every worker's coroutine frame owns the LogicSystem,
so `isStop` never changes and its branches are left out.

**ConcurrentQueue.** The element enqueued at index i is the number i. `headers` are the circular
indices the producer made, the last one being `blockIndex`; they point to `entries`, which old and
new indices share. `ppc` and `cpc` are the places between two accesses to shared variables and
`local` is a consumer's stack, of which the counters are forgotten once they are not used again. `free` stands for the initial pool, the free list and the allocator
together: any block that nobody uses. A block on its way back to the list may be missed, and the allocation
that follows fail, so `Requisition` may fail whatever `free` holds. `excused` is a history variable:
the sub-queue was empty, or another consumer had a ticket, at some instant of the running call.
`Implements` is the refinement of `SubQueue`: the queue is the window of the indices from `headIndex` to
`tailIndex`, an element is put by the store of `tailIndex` and taken by the `fetch_add` on `headIndex`, and
between those two the block, its entry and the slot only have to make sure that the consumer returns it.
Constructors of the elements (shared pointers) do not throw, so those branches are left out.

**FreeList.** `refs` and `should` are the two parts of `freeListRefs`, `used` are the nodes in somebody's
hands, and `reg[t]` the local variables of a thread in `try_get` or `add`. A thread whose `try_get`
drops the last reference to a node that someone added meanwhile adds it itself and goes on.

**ImplicitProducers.** `hashes` are the tables, oldest first; a thread id that an exited thread leaves is
used again by a later one. `chain` and `tail` are the links between a producer's listener and the
thread it is subscribed to. One look-up is one step, because no other thread writes the id that is
looked for; every compare-exchange of a slot is a step of its own. The allocation of a table or of a producer
may fail at any call, and the thread then takes its count back, releases the resize flag (`GiveUp`) and returns. The queue is destroyed while no
`enqueue` or `try_dequeue` runs, but threads still exit, as when a session is released on an I/O thread
while temporary threads of LogicSystem that answered on it come to their end. What the destructor does
with elements and blocks is left out.

**CSession.** `rpc` and `wpc` are the suspension points of the two coroutines. `wseen` splits the
writer's `try_dequeue` into one look per producer, since handlers enqueue meanwhile; while it is
non-empty the I/O thread is busy and the reader cannot run. `close()` is atomic: its compare-exchange
admits one caller and it runs on the I/O thread. `nodes` counts requests in LogicSystem's queue, whose
`MessageNode`s own the session, and `hpc[h] = "holding"` is a handler whose `nowNode` still does.
`MemoryFails` lets `new` and `make_shared` throw where the code catches it, and the `enqueue` of a post fail,
which deletes the node with its body. `leaked` counts the bodies that nobody deletes.

**CServer.** A session accepted is a member of `session` (the coroutine's local variable), then of
the map, then counted, then started. `connections` is a `size_t`, modelled modulo `SizeLimit`. An exception
while the session is made (`MakeFails`), of `async_accept` or of the insertion (`AcceptFails`) ends the accept loop.

**AsioProactors.** The load average is any value at any sample, so `Grow` and `Shrink` are always
possible within their guards. `run()` of a context that was stopped returns at once. `Choose` and `Wrap` read
`nowSize` each for themselves. The read between them (line 98) indexes `ioPressures`, which nothing looks at, and is left out.

**Lifecycle.** `mainpc` walks through `main`, then through the destructors of the static objects in the
reverse of `statics`, the order in which their constructors ended. The sessions of `CServer` go on
meanwhile: the I/O threads run until the pool has joined them. `main` also comes to its end by an exception
(`MainThrows`), before there is a pool if the port is no number, or after when it cannot be bound. A destroyed object stays in the state
it had; `gone` says that it is destroyed and `dangling` that it was used all the same, which is
undefined behaviour. `DestroyFrames` is `~CSession` from the destructor of a context: it calls
`close()`, and that `removeSession`. LogicSystem is not part of it, since it is never destroyed.

**SessionSendThread.** `func[w]` holds the worker's task, a sequence of at most one. `SpuriousWakeup`
lets a wait end without a notification. `threadCount` decides nothing, but has a type of its own: it
is an `int` compared with a `size_t`, so that it never grows again once it is negative. `isStop` and the
position of `stop()` are called `sendStop` and `sendStopPc`, because the pool of I/O threads, beside which
`MCParts` puts the module, has an `isStop` too.

**Framing.** The peer is built from the same code. The length has eight bytes of which the code swaps
four: `LengthBytes` and `HeaderLength` are what it does on a little-endian host. A peer that writes all
eight bytes in network order would be read as length 0. `sent` are the messages that were passed to
`writeAsync` and are not empty: nothing is written of an empty one. `FramesExact` holds for lengths of 32 bits
(`AllFit`), and says nothing once a longer message was written.

**FastMemcpy.** The jump tables are given by rules (the widest move that fits, then one that covers the
rest), checked for every size. Source and destination do not overlap, so contents do not matter:
a copy is right if its moves cover its `Extent` and stay within it, and the aligned ones find an aligned address. The extent
is the size asked for, except on the aligned route of `smart_memcpy`, which writes 256 bytes whatever the size. `smart_memcpy` is taken as built
with `__AVX2__`; without it, it has no route of its own.

## The runs

| Run | Module, cfg | Checks | Shows |
|---|---|---|---|
| `thread_pool` | MCLogicSystem, LogicSystemPool | TypeOK OnePermit PoolSizeExact SlotFree HandledOnce | wake-ups are conserved; counter, slots and messages are right while temporary threads come and go |
| `delivery` | MCLogicSystem, LogicSystemDelivers | Delivers PoolShrinks | under fairness LogicSystem implements MessageDelivery; the pool shrinks back |
| `queue` | MCQueue, Queue | ClaimsCovered RightElement BlockOwned FailsExcused Implements; OnePlace NoneLost; OneOwner TableNotFull CallbackSafe | a consumer gets the element it claimed, the sub-queue is first-in first-out (it implements SubQueue) and `try_dequeue` fails only as its users assume; free blocks are neither lost nor given out twice; a sub-queue has one producer, the first table, and every later one until a thread exits, keeps a free quarter, and an exiting thread's callback uses nothing that was freed |
| `session` | MCCSession, CSessionRun | TypeOK NoLostReply RepliesAsked RepliesAccounted RepliesWritten ReaderReturns LateReplyEndsWriter | no reply is lost, doubled, invented or slept on; replies reach the socket or the session closes; closing ends the reader |
| `lifecycle` | Lifecycle, Lifecycle | LifeTypeOK ConnectionsExact RegistryExact OneCloser ClosedRemoved ExitEnds | map, counter and flags agree while sessions open and close and while the process shuts down around them; the shutdown ends |
| `parts` | MCParts, Parts | PartsTypeOK; ThreadsMatchSize BaseContextsServe EachContextChosen StopReturns; NoTaskSleeps StopReturnsFromTasks; FramesExact; WritesExactly | the I/O pool's slots follow `nowSize` and `stop()` returns; no task waits for a sleeping worker; messages survive the stream; a copy writes the bytes asked for, but for the aligned route of `smart_memcpy`, which writes 256 |

Six more runs end in a violation, each of one property that a document or a comment of the
repository states and the code does not keep:

| Run | Refutes | Because |
|---|---|---|
| `stranded_message` | NoStrandedMessage (README.md:107, latency) | a post between a worker's failed dequeue and its push on `readyQueue` wakes nobody |
| `session_released` | ClosedReleased (README.md:27) | `close()` does not wake a suspended writer, whose frame owns the session |
| `server_alive` | ServerAlive (README.md:26) | main destroys the server before the context that holds the next session, whose destructor calls it |
| `clean_exit` | CleanExit (README.md:25) | two static objects are built by racing threads; in one order `std::terminate` ends the process |
| `grown_context` | PoolServes (README.md:61) | a context stopped by shrinking is run again without `restart()` |
| `listener` | ListenerSafe (concurrentqueue.h:589) | an exiting thread marks the producer inactive before it reads its next listener |

Seen while modelling, without a run of their own:

- A read that fails within a body leaks the body (CSession.cpp:79, a raw pointer despite the comment at
  76); so does a `make_shared` that throws (116). `leaked` counts both.
- An `async_accept` that throws (CServer.cpp:48), or the insertion after it, ends the accept loop for good; the session
  made for it is uncounted without ever having been counted.
- `SessionSendThread::stop()` hangs if a worker is waiting (SessionSendThread.cpp:27).
- `smart_memcpy` copies 256 bytes, whatever the size, and returns null, if both addresses are aligned
  (FastMemcpy_Avx.h:504).

### Bounds

- `LogicSystem`: `MaxPosts` messages per poster. Wake-ups go wrong, if at all, between one worker's
  drain and park and the posts around it. In `thread_pool` two posters have one message each, but a post
  whose message is lost wakes a worker too and can be repeated at will, so that a worker parks, is woken and
  parks again any number of times while both posters are in the middle of a post. The pool has room for two
  temporary threads and there are three identities: `newIndex` is loaded while a temporary thread lives that
  leaves before the `fetch_add` or before the slot is assigned, and its slot is used again. `PressureLimit` is 3 in the code and smaller in
  the other runs: it only delays growth. `delivery` checks liveness with one message per poster, one of
  them with an unknown id, and enough threads for growth, exit and growth again. `Live` threads that
  ended give their identity back, so identities do not limit how often the pool grows.
- `ConcurrentQueue`: two consumers, two blocks of two elements, an index of two entries, five elements
  and six tickets. Five elements fill the index, so it wraps, grows, fails to get a block, is rewound
  and tried again; both blocks are recycled; the sixth ticket is one more than there are elements, so a
  ticket is given back. Without `MaxTickets` the counters grow for ever: while one consumer holds an
  outdated `overcommit`, another one can take a ticket and give it back as often as it likes.
- `FreeList`: three threads and two nodes: one takes a node off and adds it again while a second one is
  between its load of `next` and its exchange, and a third one holds a reference. No bound on the steps.
- `ImplicitProducers`, twice: three threads that enqueue for the first time together, so that the table
  of four slots is half full, grown and waited for; and two identities with five threads, so that
  ids come back, sub-queues are reused and old tables searched. `MaxProducers` bounds
  the producers that are made; it is not what makes an allocation fail. All ids collide in the hash.
- `CSession`: three handlers and three requests. Three handlers are one more than a channel of one
  place and a suspended writer can absorb; a handler may also answer several requests. Only one session is modelled: sessions share nothing but the
  queue of LogicSystem and the map of CServer.
- `CServer`, `Lifecycle`: three sessions, one accepted while one closes and one is removed; `SizeLimit` 8 is
  wide enough to tell a wrapped counter (7) from every true count. The signal may come at every point.
- `AsioProactors`: two to four threads: two base contexts, so that round robin is not trivial, and two added
  ones. `stop()` may begin at every point of growing and shrinking.
- `SessionSendThread`: two workers and three tasks, one more than there are workers.
- `Framing`: three messages with bytes of one bit, so that a length of two significant bytes (of four) is
  at most 3; bodies of no, one, two, three and four bytes, the last one too long by one. Every way
  of cutting the stream is tried.
- `FastMemcpy`: every size to 600 bytes, above the tables (128, 256) and the round of a loop (128, 256);
  the size above which a copy is big (2 MB in the code) is 400 here and that of `smart_memcpy` 500; source
  and destination aligned, off by one, off by a vector, and by 57.

Deadlock is not checked in the runs of CSession, Lifecycle and `MCParts`, because sessions,
the process, the pools and a copy end, nor in those of the queue, whose threads stop at the
bounds. LogicSystem never stops.

### Fairness

- Weak fairness of every thread's own steps: the operating system runs every thread, and every
  `io_context` with a thread runs its ready coroutines. Nothing is assumed of clients (posting, sending a header,
  disconnecting), of the load, of a signal.
- `LogicSystem`, strong fairness of *some* consumer's `Dequeue`: several consumers can make each
  other's `try_dequeue` fail by the tickets they hold, and a schedule that alternates them in just
  this way for ever is possible in `ConcurrentQueue`, which has no back-off. The assumption excludes
  that schedule; a scheduler that runs one consumer through a whole call while the others are between
  calls does not produce it. Safety does not depend on it.
  Strong fairness of `TempExit`: a temporary thread that finds nothing for 60 s leaves, though it polls
  meanwhile.
- `CSession`: a write completes or fails (the peer reads, or the connection breaks); a read aborted
  by `close()` fails; a handler's `nowNode` is let go in the end. The last one is optimistic: a worker
  that suspends keeps its last `nowNode` until it is woken again. `ClosedReleased` is refuted all the same.
- `Lifecycle`: every thread takes its next step, main's included, and so does a coroutine within `close()`.
  Nothing is assumed of a signal or a client.
- `AsioProactors`: a stopped `run()` returns once its current handler does, and a call of `getIoComplatePorts` that
  has begun ends. No call is assumed to begin: each one after the first waits for a client, and `EachContextChosen`
  says what holds if they never cease.
- `SessionSendThread`: weak fairness of each worker and of `stop()`; tasks end. A wait need not end.

## What is proved

The theorems hold for every value of the constants that satisfies the `ASSUME`s (finite sets of
threads, `MinSize <= MaxSize`, enough thread identities for the pool; a positive width of the counter;
a base of at least two and identifiers that fit their bytes; addresses and sizes that are naturals; the
two marks of a slot without an id differ from each other and from ids). TLC evaluates
each `ASSUME` in the run of the module it is in.

| Module | Theorem | Inductive invariant and why it is needed |
|---|---|---|
| LogicSystemProofs | `TypeCorrect`, `PoolSizeCorrect`, `SlotCorrect` | `TypeOK /\ PoolInv`: between its comparison with `maxSize` and its `fetch_add`, only `metricsThread` itself can make `nowSize` grow; each decrement belongs to one running thread |
| | `PermitCorrect` | `OnePermit` is inductive itself, given the types; per-queue lemmas (push, pop, receive, send) say how each step moves a wake-up |
| | `HandledOnceCorrect` | `MessageInv`: a dequeued message is held by one consumer or handled; either way it is behind its sub-queue's head |
| | `DeliverySafety` | the refinement mapping `posted <- Posted`, from `MessageInv`: each step is a `Post`, an `Answer` or a stutter |
| CSessionProofs | `WakeUpCorrect` | `WriterInv`: a reply on a sub-queue that the drain has passed is buffered in the channel or about to be signalled |
| | `RequestCorrect` | `RequestInv` adds the request the reader works on |
| | `AccountCorrect` | `QueueInv`: besides the equation, that the replies queued are finitely many, so that one more and one less can be counted |
| CServerProofs | `RegistryIsExact`, `OneCloserCorrect` | `RegistryInv`: mutually dependent, with `SessionInv` (a session is in the hands of the accept loop, or of its coroutines, never both) |
| | `ConnectionsCorrect` | `CountInv`, the property without its modulus, and the modular arithmetic of `Increment` and `Decrement` |
| LifecycleProofs | `LifeRegistryExact`, `LifeOneCloser`, `LifeConnectionsExact` | `LifeInv`: the invariants of `CServer`, whose lemmas serve for every step but one, and `ShutdownInv`: no I/O thread is within `close()` when frames are destroyed, so that `DestroyFrames`, the remaining step, finds no session half closed |
| | `NoneHalfClosed` | part of `ShutdownInv` |
| ConcurrentQueueProofs | `ClaimsCorrect` | `TicketsCounted`: there are sets of good and of bad tickets, as large as the counters say, and a limit above the good ones, such that the limit less the bad tickets below it is at most `tailIndex`. The state does not tell which tickets were bad, hence the existential; a consumer that judges its ticket read the overcommit count before it took the ticket, so that many bad ones are below it |
| | `FailsCorrect` | `Accounted` and, for each consumer, `Knows`: as long as nothing excuses a failure of its call, nobody else has a ticket and the counters it has read have not moved, so that its comparison succeeds |
| | `RightElementCorrect`, `BlockOwnedCorrect` | `BlocksInv` ties the block index to the two counters. `IndexInv`: counted from the one after the tail, the entries of the newest index have the keys of consecutive blocks (or none yet). `HeaderOK`: a replaced index has the same entries in the same order, but for a rotation. So a distance counted from any entry that ever was the tail leads to the entry looked for, in whichever index, however stale the reads of the look-up. `ProducerOK`: every index not yet claimed has a block in the index; `CountOK`: a block in the index has as many elements moved out as were claimed and are not at work, so that it is emptied once, by the last; `ContentOK`: its slots hold the elements to come; `ConsumerOK`: what a consumer knows at each place; `Apart`: two consumers work on two elements; `OwnerOK`: a block has one owner |
| | `TypeCorrect` | from `BlocksInv`, and `BoundsOK` for the counters that the model bounds |
| | `QueueImplements` | the refinement of `SubQueue`, from the same invariant: `ClaimsCovered` makes the window non-empty at a claim, `ConsumerOK` makes the element that is moved out the one claimed; every other step is a stutter |
| FreeListProofs | `ListTypeCorrect`, `OnePlaceCorrect`, `NoneLostCorrect` | `NodeInv`: a node's references are one for the list (or a push or pop that has just succeeded) and one for each `try_get` that looks at it, so that whoever finds or leaves a count of zero is alone with the node, and no head is exchanged for a stale next node. `Shape`: the list has neither cycle nor fork |
| ImplicitProducersProofs | `ProducersTypeCorrect`, `OneOwnerCorrect`, `CallbackSafeCorrect` | `OwnerInv`: a thread has a producer exactly while it is subscribed to its exit (or about to be), nobody else has that producer, and every entry of a table that names a thread names its producer; an exiting thread has the mutex and its entries go from the newest table down. `CountInv`: every thread started is counted at most once. `DestroyOK`: producers are freed from the newest to the oldest |
| | `TableNotFullCorrect` | `FirstTableInv`: the slots used in the first table and the threads counted for another one are at most `implicitProducerHashCount`; with the threads let in, they stay within the limit that `Room` compares with. `LaterTablesInv`, while nobody has exited: each thread has at most one slot per table, and for every `c` from the limit of a table on, fewer than `c` threads are in that table, in an older one, or let in with a count below `c`. The older tables matter because an id found in one of them is put in the newest without being counted. `LivesInv`: a started thread is counted where its step says, and tables only grow |
| PartsProofs | `TypeCorrect`, `ThreadsCorrect`, `BaseCorrect` | `PoolInv`: while the monitor changes a slot, `index` is tied to `nowSize` and lies above the base contexts |
| | `NoTaskSleepsCorrect` | the property is inductive, given the types: a commit that wakes a worker adds one task and one awake worker, one that finds nobody waiting adds a task that all are awake for, and a worker goes to sleep only when no task is left |
| | `WritesExactlyCorrect` | `CopyInv`: between two rounds of a loop the bytes below `offset` are written and none beyond `Extent` (the size, or 256 on the aligned route of `smart_memcpy`). For each of the 129 (257) entries of the tables, `SseTinyOK` (`AvxTinyOK`) shows that its moves cover its bytes: by the rule that the widest move leaves less than its own width |
| | `FramesExactCorrect` | `FrameInv`: there are a stream (all bytes written since the first message) and the places where its nodes start, such that what the reader has collected is the part of the stream after the nodes of the requests it posted, and the wire is the rest. The state does not tell what was read, hence the existential. `HeaderWhole`: ten collected bytes are the header of the next node, however they came in |
| | `RoundTrip` | `Value(BigEndian(n, k)) = n` if `n` fits in `k` bytes. `Power` and the sum in `Value` are recursive functions; `LeastNatural` takes a least counterexample from the library's well-foundedness of the naturals, and `Recursion` shows that such a function exists and satisfies its equations |
| | `PartsImplement`, `PartsTypeCorrect` | the steps of `MCParts` are steps of one part and stutters of the others, so that the types proved of each part hold side by side |

Each of these modules also proves its type invariant. TLC checks the same properties on the
instances above, except the types of the three parts of the queue; `CServer`'s theorems are about the
server alone, `Lifecycle`'s about the same properties of the process that uses and destroys it.

Only model-checked: every liveness property (`Delivers` beyond its safety part, `PoolShrinks`,
`RepliesWritten`, `ReaderReturns`, `LateReplyEndsWriter`, `ClosedRemoved`, `ExitEnds`, `EachContextChosen`,
`StopReturns`, `StopReturnsFromTasks`), since liveness under fairness and `ENABLED` are out of the proof system's reach.
Every invariant that a passing run checks is proved.

`TableNotFull` says of a later table only what holds until a thread exits, because more is false: a slot that is
reused in a replaced table is not counted, and its thread then takes another slot in the newest table. A directed
run of TLC with eight threads and tables of four and eight slots ends with three quarters of the second table in
use. Whether the last empty slot, on which the search depends (concurrentqueue.h:3412), can be taken too is open.

## What is not modelled

- Of concurrentqueue.h: bulk operations, tokens and explicit producers, moving and swapping queues, which the
  program does not use; the elements and blocks that a destroyed queue still holds.
- An exception of `session->start()` in the accept loop, that is of `co_spawn` without memory.
- A limit of the receive queue: README.md:117 names back-pressure and const.h a limit, but no code
  refuses a post.
- The samples of AdvancedSystemMonitor: calls into the platform. Nobody reads its histories.
- A CPU count of zero, which the standard allows `hardware_concurrency()` to return: `minSize` would be 0,
  and `balancing % nowSize` divide by zero. The models assume at least one.
- ConfigMgr (a file read once, before any thread), Singleton (`call_once` around a constructor), Utils
  (logging): no state that matters to another part.
- The end of the process around LogicSystem's threads, which nobody stops: they may run callbacks on
  sessions while static objects are destroyed.
- `index_t` wrapping around after 2^64 elements.
- Memory orders: the modules of concurrentqueue.h are checked as if every access were sequentially consistent; the
  relaxed reads allow more. The atomics of LogicSystem, CServer and AsioProactors are sequentially consistent or used as
  single counters, and are modelled as sequentially consistent.

## Plan

1. `Pipeline`: sessions composed with LogicSystem: order of replies, sessions on stopped contexts,
   a session kept alive by a suspended worker's `nowNode`.
2. `ImplicitProducers`: whether the search for an id still ends in a later table once threads have exited.

---------------------------- MODULE LogicSystem ----------------------------
(***************************************************************************)
(* LogicSystem.cpp: the message-processing layer.                          *)
(*                                                                         *)
(* I/O threads (Posters) put decoded messages on a lock-free queue with    *)
(* postMessageToQueue.  A fixed set of worker coroutines (Workers) and a   *)
(* growing and shrinking set of detached threads (Temps) take them off and *)
(* run the callback registered for the message id.  A worker that finds    *)
(* the queue empty publishes its index on readyQueue and suspends on its   *)
(* own one-place channel; a poster takes an index off readyQueue and sends *)
(* on that channel.  metricsThread watches the queue and adds a temporary  *)
(* thread after too many samples that found it non-empty.                  *)
(*                                                                         *)
(* Every action is one access to shared state by one thread, with the      *)
(* thread-local code around it.  isStop is set by ~LogicSystem only, which *)
(* never runs (each worker coroutine's frame owns the LogicSystem), so the *)
(* isStop branches are left out.                                           *)
(***************************************************************************)
EXTENDS Naturals, Sequences, FiniteSets

CONSTANTS
  Workers,        \* the worker coroutines, one per io_context
  Posters,        \* the I/O threads that call postMessageToQueue
  NoWorker,       \* readyIndex == -1
  Temps,          \* identities for the temporary threads
  MaxSize,        \* maxSize: the most threads nowSize may count
  MaxPosts,       \* bound of the model: messages each poster posts
  PressureLimit,  \* samples tolerated before the pool grows (3 in the code)
  Known           \* the messages whose id is in callBackFunctions

MinSize == Cardinality(Workers)
Consumers == Workers \cup Temps
Messages == Posters \X (1..MaxPosts)
NoNode == <<>>    \* nowNode == nullptr

ASSUME ThreadAssumption ==
  /\ IsFiniteSet(Workers)
  /\ IsFiniteSet(Temps)
  /\ Workers \cap Temps = {}
  /\ NoWorker \notin Workers
ASSUME SizeAssumption ==
  /\ MaxSize \in Nat
  /\ MinSize <= MaxSize
  /\ MaxSize - MinSize <= Cardinality(Temps)
ASSUME BoundAssumption ==
  /\ MaxPosts \in Nat
  /\ PressureLimit \in Nat
  /\ Known \subseteq Messages

VARIABLES
  tailIndex,   \* messageNodes: messages enqueued by each poster (its sub-queue's tail)
  headIndex,   \* messageNodes: how many of them have been dequeued
  readyQueue,  \* readyQueue: workers that offered themselves for a wake-up
  channel,     \* channels[w] buffers a value nobody has received yet
  pc,          \* where each consumer is
  seen,        \* sub-queues the consumer's try_dequeue in progress found empty
  nowNode,     \* the consumer's nowNode
  ppc,         \* where each poster is in postMessageToQueue
  readyIndex,  \* the poster's readyIndex
  mpc,         \* where metricsThread is
  newIndex,    \* metricsThread's newIndex
  pressures,   \* pressuresCount, which saturates one above PressureLimit
  nowSize,     \* nowSize
  joinable,    \* the slots of threads that own a running thread
  replies      \* how often the callback ran for each message

queueVars  == <<tailIndex, headIndex>>
wakeVars   == <<readyQueue, channel>>
consVars   == <<pc, seen, nowNode>>
postVars   == <<ppc, readyIndex>>
sizeVars   == <<mpc, newIndex, pressures, nowSize, joinable>>
vars == <<queueVars, wakeVars, consVars, postVars, sizeVars, replies>>

Live == {t \in Temps : pc[t] # "none"}
Queued == {m \in Messages : headIndex[m[1]] < m[2] /\ m[2] <= tailIndex[m[1]]}
Posted == {m \in Messages : m[2] <= tailIndex[m[1]]}

\* After initializeThreads, with every coroutine about to run.
Init ==
  /\ tailIndex = [p \in Posters |-> 0]
  /\ headIndex = [p \in Posters |-> 0]
  /\ readyQueue = <<>>
  /\ channel = [w \in Workers |-> FALSE]
  /\ pc = [c \in Consumers |-> IF c \in Workers THEN "dequeue" ELSE "none"]
  /\ seen = [c \in Consumers |-> {}]
  /\ nowNode = [c \in Consumers |-> NoNode]
  /\ ppc = [p \in Posters |-> "idle"]
  /\ readyIndex = [p \in Posters |-> NoWorker]
  /\ mpc = "sample"
  /\ newIndex = 0
  /\ pressures = 0
  /\ nowSize = MinSize
  /\ joinable = 0..(MinSize - 1)
  /\ replies = [m \in Messages |-> 0]

-----------------------------------------------------------------------------
(* Faulty variants of single actions.  No specification here uses them: each *)
(* is what a plausible bug would do, to show which property notices it.      *)

\* try_dequeue reads a message without taking it.
DequeueNodePeeks(c, p) ==
  /\ pc[c] = "dequeue"
  /\ headIndex[p] < tailIndex[p]
  /\ nowNode' = [nowNode EXCEPT ![c] = <<p, headIndex[p] + 1>>]
  /\ seen' = [seen EXCEPT ![c] = {}]
  /\ pc' = [pc EXCEPT ![c] = "handle"]
  /\ UNCHANGED <<queueVars, wakeVars, postVars, sizeVars, replies>>

\* The return after nowSize.fetch_sub(1) is missing.
TempExitNoReturn(t) ==
  /\ pc[t] = "dequeue"
  /\ seen[t] = Posters
  /\ nowSize' = nowSize - 1
  /\ seen' = [seen EXCEPT ![t] = {}]
  /\ nowNode' = [nowNode EXCEPT ![t] = NoNode]
  /\ UNCHANGED <<queueVars, wakeVars, pc, postVars, mpc, newIndex, pressures,
                 joinable, replies>>

\* The index of the ready worker is read but left on readyQueue.
PopReadyKeeps(p) ==
  /\ ppc[p] = "pop"
  /\ readyQueue # <<>>
  /\ readyIndex' = [readyIndex EXCEPT ![p] = Head(readyQueue)]
  /\ ppc' = [ppc EXCEPT ![p] = "send"]
  /\ UNCHANGED <<queueVars, wakeVars, consVars, sizeVars, replies>>

\* The comparison of nowSize with maxSize is missing.
MetricsCheckMissing ==
  /\ mpc = "check"
  /\ mpc' = "load"
  /\ UNCHANGED <<queueVars, wakeVars, consVars, postVars, newIndex, pressures,
                 nowSize, joinable, replies>>

\* The comparison stops one thread short of maxSize.
MetricsCheckEarly ==
  /\ mpc = "check"
  /\ mpc' = IF nowSize + 1 >= MaxSize THEN "sample" ELSE "load"
  /\ UNCHANGED <<queueVars, wakeVars, consVars, postVars, newIndex, pressures,
                 nowSize, joinable, replies>>

\* The new thread is not detached.
MetricsDetachMissing ==
  /\ mpc = "detach"
  /\ pressures' = 0
  /\ mpc' = "sample"
  /\ UNCHANGED <<queueVars, wakeVars, consVars, postVars, newIndex, nowSize,
                 joinable, replies>>

\* pressuresCount is not reset once a thread was added.
MetricsDetachNoReset ==
  /\ mpc = "detach"
  /\ joinable' = joinable \ {newIndex}
  /\ mpc' = "sample"
  /\ UNCHANGED <<queueVars, wakeVars, consVars, postVars, newIndex, pressures,
                 nowSize, replies>>

-----------------------------------------------------------------------------
(* A consumer: the worker coroutine and processMessageTemporary.            *)

\* try_dequeue takes the oldest message of one sub-queue.
DequeueNode(c, p) ==
  /\ pc[c] = "dequeue"
  /\ headIndex[p] < tailIndex[p]
  /\ headIndex' = [headIndex EXCEPT ![p] = @ + 1]
  /\ nowNode' = [nowNode EXCEPT ![c] = <<p, headIndex[p] + 1>>]
  /\ seen' = [seen EXCEPT ![c] = {}]
  /\ pc' = [pc EXCEPT ![c] = "handle"]
  /\ UNCHANGED <<tailIndex, wakeVars, postVars, sizeVars, replies>>

\* try_dequeue finds one sub-queue empty.  A non-empty one also appears empty
\* while another try_dequeue is in progress: that one may have overcommitted.
SeeEmpty(c, p) ==
  /\ pc[c] = "dequeue"
  /\ p \notin seen[c]
  /\ \/ headIndex[p] = tailIndex[p]
     \/ \E d \in Consumers \ {c} : pc[d] = "dequeue"
  /\ seen' = [seen EXCEPT ![c] = @ \cup {p}]
  /\ UNCHANGED <<queueVars, wakeVars, pc, nowNode, postVars, sizeVars, replies>>

\* The callback, or the warning for an id without one.
Handle(c) ==
  /\ pc[c] = "handle"
  /\ replies' = [m \in Messages |->
                   IF m = nowNode[c] /\ m \in Known THEN replies[m] + 1 ELSE replies[m]]
  /\ pc' = [pc EXCEPT ![c] = "dequeue"]
  /\ UNCHANGED <<queueVars, wakeVars, seen, nowNode, postVars, sizeVars>>

\* try_dequeue returned false in a worker: it offers itself for a wake-up.
PushReady(w) ==
  /\ pc[w] = "dequeue"
  /\ seen[w] = Posters
  /\ readyQueue' = Append(readyQueue, w)
  /\ seen' = [seen EXCEPT ![w] = {}]
  /\ pc' = [pc EXCEPT ![w] = "receive"]
  /\ UNCHANGED <<queueVars, channel, nowNode, postVars, sizeVars, replies>>

\* The coroutine resumes: a new nowNode and a new try_dequeue.
Resume(w) ==
  /\ pc' = [pc EXCEPT ![w] = "dequeue"]
  /\ nowNode' = [nowNode EXCEPT ![w] = NoNode]

\* co_await channels[i]->async_receive(...)
Receive(w) ==
  /\ pc[w] = "receive"
  /\ \/ /\ channel[w]
        /\ channel' = [channel EXCEPT ![w] = FALSE]
        /\ Resume(w)
     \/ /\ ~channel[w]
        /\ pc' = [pc EXCEPT ![w] = "waiting"]
        /\ UNCHANGED <<channel, nowNode>>
  /\ UNCHANGED <<queueVars, readyQueue, seen, postVars, sizeVars, replies>>

\* try_dequeue returned false in a temporary thread, idle for less than 60 s.
TempRetry(t) ==
  /\ pc[t] = "dequeue"
  /\ seen[t] = Posters
  /\ seen' = [seen EXCEPT ![t] = {}]
  /\ nowNode' = [nowNode EXCEPT ![t] = NoNode]
  /\ UNCHANGED <<queueVars, wakeVars, pc, postVars, sizeVars, replies>>

\* The same, idle for 60 s: the thread leaves the pool.
TempExit(t) ==
  /\ pc[t] = "dequeue"
  /\ seen[t] = Posters
  /\ nowSize' = nowSize - 1
  /\ seen' = [seen EXCEPT ![t] = {}]
  /\ nowNode' = [nowNode EXCEPT ![t] = NoNode]
  /\ pc' = [pc EXCEPT ![t] = "none"]
  /\ UNCHANGED <<queueVars, wakeVars, postVars, mpc, newIndex, pressures,
                 joinable, replies>>

-----------------------------------------------------------------------------
(* A poster: postMessageToQueue, on the I/O thread of the session.          *)

\* Without memory messageNodes.enqueue returns false and the message is lost; the
\* result is not looked at, so that a worker is woken all the same.
Enqueue(p) ==
  /\ ppc[p] = "idle"
  /\ \/ tailIndex[p] < MaxPosts /\ tailIndex' = [tailIndex EXCEPT ![p] = @ + 1]
     \/ UNCHANGED tailIndex
  /\ ppc' = [ppc EXCEPT ![p] = "pop"]
  /\ UNCHANGED <<headIndex, wakeVars, consVars, readyIndex, sizeVars, replies>>

PopReady(p) ==
  /\ ppc[p] = "pop"
  /\ \/ /\ readyQueue # <<>>
        /\ readyIndex' = [readyIndex EXCEPT ![p] = Head(readyQueue)]
        /\ readyQueue' = Tail(readyQueue)
        /\ ppc' = [ppc EXCEPT ![p] = "send"]
     \/ /\ readyQueue = <<>>
        /\ ppc' = [ppc EXCEPT ![p] = "idle"]
        /\ UNCHANGED <<readyQueue, readyIndex>>
  /\ UNCHANGED <<queueVars, channel, consVars, sizeVars, replies>>

\* try_send hands the value to a suspended receiver, else buffers it, else
\* drops it because the one place of the channel is taken.
TrySend(p) ==
  LET w == readyIndex[p] IN
  /\ ppc[p] = "send"
  /\ ppc' = [ppc EXCEPT ![p] = "idle"]
  /\ readyIndex' = [readyIndex EXCEPT ![p] = NoWorker]
  /\ \/ /\ pc[w] = "waiting"
        /\ Resume(w)
        /\ UNCHANGED channel
     \/ /\ pc[w] # "waiting"
        /\ channel' = [channel EXCEPT ![w] = TRUE]
        /\ UNCHANGED <<pc, nowNode>>
  /\ UNCHANGED <<queueVars, readyQueue, seen, sizeVars, replies>>

-----------------------------------------------------------------------------
(* metricsThread, woken every updateInterval.                               *)

\* if (messageNodes.size_approx() > 0) pressuresCount++
MetricsSample ==
  /\ mpc = "sample"
  /\ pressures' = IF Queued # {} /\ pressures <= PressureLimit
                  THEN pressures + 1 ELSE pressures
  /\ mpc' = IF pressures' > PressureLimit THEN "check" ELSE "sample"
  /\ UNCHANGED <<queueVars, wakeVars, consVars, postVars, newIndex, nowSize,
                 joinable, replies>>

\* if (nowSize == maxSize) { sleep; continue; }
MetricsCheck ==
  /\ mpc = "check"
  /\ mpc' = IF nowSize = MaxSize THEN "sample" ELSE "load"
  /\ UNCHANGED <<queueVars, wakeVars, consVars, postVars, newIndex, pressures,
                 nowSize, joinable, replies>>

\* size_t newIndex = nowSize.load()
MetricsLoad ==
  /\ mpc = "load"
  /\ newIndex' = nowSize
  /\ mpc' = "add"
  /\ UNCHANGED <<queueVars, wakeVars, consVars, postVars, pressures, nowSize,
                 joinable, replies>>

\* nowSize.fetch_add(1)
MetricsAdd ==
  /\ mpc = "add"
  /\ nowSize' = nowSize + 1
  /\ mpc' = "spawn"
  /\ UNCHANGED <<queueVars, wakeVars, consVars, postVars, newIndex, pressures,
                 joinable, replies>>

\* threads[newIndex] = std::thread(processMessageTemporary)
MetricsSpawn ==
  /\ mpc = "spawn"
  /\ \E t \in Temps :
       /\ pc[t] = "none"
       /\ pc' = [pc EXCEPT ![t] = "dequeue"]
  /\ joinable' = joinable \cup {newIndex}
  /\ mpc' = "detach"
  /\ UNCHANGED <<queueVars, wakeVars, seen, nowNode, postVars, newIndex,
                 pressures, nowSize, replies>>

\* threads[newIndex].detach(); pressuresCount.store(0)
MetricsDetach ==
  /\ mpc = "detach"
  /\ joinable' = joinable \ {newIndex}
  /\ pressures' = 0
  /\ mpc' = "sample"
  /\ UNCHANGED <<queueVars, wakeVars, consVars, postVars, newIndex, nowSize,
                 replies>>

Metrics ==
  \/ MetricsSample \/ MetricsCheck \/ MetricsLoad
  \/ MetricsAdd \/ MetricsSpawn \/ MetricsDetach

-----------------------------------------------------------------------------
Dequeue(c) == \E p \in Posters : DequeueNode(c, p)
Scan(c) == \E p \in Posters : SeeEmpty(c, p)

Consume(c) == Dequeue(c) \/ Scan(c) \/ Handle(c)
Worker(w) == Consume(w) \/ PushReady(w) \/ Receive(w)
Temp(t) == Consume(t) \/ TempRetry(t) \/ TempExit(t)
Wake(p) == PopReady(p) \/ TrySend(p)

Next ==
  \/ \E w \in Workers : Worker(w)
  \/ \E t \in Temps : Temp(t)
  \/ \E p \in Posters : Enqueue(p) \/ Wake(p)
  \/ Metrics

Spec == Init /\ [][Next]_vars

(***************************************************************************)
(* Every thread keeps running.  The two strong conditions are about loops  *)
(* that a consumer repeats without end: a try_dequeue that fails because   *)
(* another one is in progress does not fail for ever, and a temporary      *)
(* thread whose drains keep finding nothing reaches its 60 s in the end.   *)
(* Nothing is assumed of Enqueue: clients need not send.                   *)
(***************************************************************************)
Fairness ==
  /\ \A w \in Workers : WF_vars(Worker(w))
  /\ \A t \in Temps : WF_vars(Temp(t)) /\ SF_vars(TempExit(t))
  /\ \A p \in Posters : WF_vars(Wake(p))
  /\ WF_vars(Metrics)
  /\ SF_vars(\E c \in Consumers : Dequeue(c))

FairSpec == Spec /\ Fairness

-----------------------------------------------------------------------------
(* Properties.                                                              *)

TypeOK ==
  /\ tailIndex \in [Posters -> 0..MaxPosts]
  /\ headIndex \in [Posters -> 0..MaxPosts]
  /\ readyQueue \in Seq(Workers)
  /\ channel \in [Workers -> BOOLEAN]
  /\ pc \in [Consumers -> {"none", "dequeue", "handle", "receive", "waiting"}]
  /\ seen \in [Consumers -> SUBSET Posters]
  /\ nowNode \in [Consumers -> Messages \cup {NoNode}]
  /\ ppc \in [Posters -> {"idle", "pop", "send"}]
  /\ readyIndex \in [Posters -> Workers \cup {NoWorker}]
  /\ mpc \in {"sample", "check", "load", "add", "spawn", "detach"}
  /\ newIndex \in 0..MaxSize
  /\ pressures \in 0..(PressureLimit + 1)
  /\ nowSize \in 0..MaxSize
  /\ joinable \subseteq 0..MaxSize
  /\ replies \in [Messages -> Nat]
  /\ \A w \in Workers : pc[w] # "none"
  /\ \A t \in Temps : pc[t] \notin {"receive", "waiting"}

Parked(w) == pc[w] \in {"receive", "waiting"}
InReady(w) == \E i \in 1..Len(readyQueue) : readyQueue[i] = w
HeldBy(p, w) == ppc[p] = "send" /\ readyIndex[p] = w
Held(w) == \E p \in Posters : HeldBy(p, w)

\* Wake-ups are conserved between workers, posters and channels: a worker that
\* parked is exactly once on readyQueue, or in the hands of exactly one poster,
\* or has a value in its channel, and a running worker is nowhere.  So a
\* try_send never meets a full channel (its wake-up would be lost), no wake-up
\* is sent to a worker that runs, and no worker parks out of every poster's reach.
OnePermit ==
  /\ \A i, j \in 1..Len(readyQueue) : readyQueue[i] = readyQueue[j] => i = j
  /\ \A p, q \in Posters :
        ppc[p] = "send" /\ ppc[q] = "send" /\ readyIndex[p] = readyIndex[q] => p = q
  /\ \A p \in Posters : ppc[p] = "send" => readyIndex[p] \in Workers
  /\ \A w \in Workers :
        /\ InReady(w) => Parked(w) /\ ~channel[w] /\ ~Held(w)
        /\ Held(w) => Parked(w) /\ ~channel[w]
        /\ channel[w] => pc[w] = "receive"
        /\ Parked(w) => InReady(w) \/ Held(w) \/ channel[w]

\* nowSize counts the threads that run, although two parties change it without
\* a lock: the metrics thread between a load and an add, temporary threads as
\* they leave.  It never exceeds maxSize.
PoolSizeExact ==
  /\ nowSize = MinSize + Cardinality(Live) + (IF mpc = "spawn" THEN 1 ELSE 0)
  /\ nowSize <= MaxSize

\* The slot the metrics thread is about to assign exists and owns no running
\* thread (assigning to a joinable std::thread calls std::terminate), although
\* newIndex was loaded before other threads left the pool.
SlotFree ==
  mpc = "spawn" => newIndex < MaxSize /\ newIndex \notin joinable

\* No message is handled twice and none while it is still in the queue, with
\* workers and temporary threads dequeuing concurrently.
HandledOnce ==
  /\ \A m \in Messages : replies[m] <= 1 /\ (replies[m] = 1 => m \notin Queued)
  /\ \A c, d \in Consumers :
        pc[c] = "handle" /\ pc[d] = "handle" /\ nowNode[c] = nowNode[d] => c = d

\* LogicSystem implements the promise of MessageDelivery, with its liveness: a
\* wake-up lost between a worker's failed dequeue and its push on readyQueue
\* only delays a message until the metrics thread has added a thread for it.
Delivery == INSTANCE MessageDelivery WITH posted <- Posted
Delivers == Delivery!FairSpec

\* Once clients stop sending, the pool shrinks back to the workers and stays so:
\* temporary threads do not keep each other alive or get respawned for ever.
PoolShrinks == <>[](nowSize = MinSize)

\* A queued message has a thread that will look at the queue: README.md:107
\* promises a latency of microseconds.  Refuted: a worker's failed dequeue, a
\* post whose pop finds readyQueue empty and the worker's push interleave.
NoStrandedMessage ==
  Queued # {} =>
    \/ \E w \in Workers : ~Parked(w) \/ channel[w] \/ Held(w)
    \/ Live # {}
    \/ \E p \in Posters : ppc[p] = "pop"
=============================================================================

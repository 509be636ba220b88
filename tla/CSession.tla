------------------------------ MODULE CSession ------------------------------
(***************************************************************************)
(* CSession.cpp: one client connection.                                    *)
(*                                                                         *)
(* A reader coroutine reads a header and a body, and posts the request to  *)
(* LogicSystem; LogicSystem threads (Handlers) answer by calling           *)
(* writeAsync, which enqueues a node on sendNodes and signals the writer   *)
(* coroutine through a one-place channel.  Reader and writer run on the    *)
(* same I/O thread, so what either does between two co_awaits is atomic    *)
(* for the other; the handlers interleave with every step.                 *)
(*                                                                         *)
(* The socket is open exactly while isStop is false: close() sets the flag *)
(* and closes the socket in one segment of the I/O thread.  Payloads are   *)
(* left out.  async_read_some and async_write are external: they complete, *)
(* or they fail (end of file, reset, or aborted because close() ran).      *)
(***************************************************************************)
EXTENDS Naturals, FiniteSets

CONSTANTS
  Handlers,     \* the LogicSystem threads that may run the callback
  MaxRequests,  \* bound of the model: requests the peer sends
  MemoryFails   \* whether an allocation may throw

ASSUME ConstantsAssumption ==
  /\ MaxRequests \in Nat
  /\ Handlers # {} /\ IsFiniteSet(Handlers)
  /\ MemoryFails \in BOOLEAN

VARIABLES
  requests,      \* headers received so far
  rpc,           \* where the reader coroutine is
  wpc,           \* where the writer coroutine is
  wseen,         \* producers of sendNodes the try_dequeue in progress saw empty
  isStop,        \* isStop; the socket is closed with it
  registered,    \* the session is in CServer's map
  sendNodes,     \* replies each handler has put on sendNodes, not yet taken
  writeChannel,  \* writeChannel buffers a value
  nodes,         \* requests in LogicSystem's queue (each owns the session)
  hpc,           \* where each handler is; "holding": its nowNode owns the session
  leaked,        \* request bodies no pointer refers to any more
  enqueued,      \* replies ever put on sendNodes
  sent           \* replies written to the socket

readerVars  == <<requests, rpc, leaked>>
writerVars  == <<wpc, wseen, sent>>
handlerVars == <<hpc, enqueued>>
closeVars   == <<isStop, registered>>
vars == <<readerVars, writerVars, handlerVars, closeVars, sendNodes,
          writeChannel, nodes>>

\* CServer has inserted the session in its map and is about to call start().
Init ==
  /\ requests = 0
  /\ rpc = "none"
  /\ wpc = "none"
  /\ wseen = {}
  /\ isStop = FALSE
  /\ registered = TRUE
  /\ sendNodes = [h \in Handlers |-> 0]
  /\ writeChannel = FALSE
  /\ nodes = 0
  /\ hpc = [h \in Handlers |-> "idle"]
  /\ leaked = 0
  /\ enqueued = 0
  /\ sent = 0

\* start(): the writer coroutine is spawned first, then the reader.
Start ==
  /\ rpc = "none"
  /\ rpc' = "begin"
  /\ wpc' = "run"
  /\ UNCHANGED <<requests, leaked, wseen, sent, handlerVars, closeVars,
                 sendNodes, writeChannel, nodes>>

\* close(): the compare-exchange lets one caller through, so a second call
\* changes nothing.
Close ==
  /\ isStop' = TRUE
  /\ registered' = FALSE

-----------------------------------------------------------------------------
(* Faulty variants of single actions, used by no specification here.        *)

\* A failed read ends in another read.
ReadFailsRetries ==
  /\ rpc \in {"header", "body"}
  /\ wseen = {}
  /\ rpc' = "header"
  /\ leaked' = IF rpc = "body" THEN leaked + 1 ELSE leaked
  /\ Close
  /\ UNCHANGED <<requests, writerVars, handlerVars, sendNodes, writeChannel, nodes>>

\* The result of try_dequeue is not looked at.
FindNodeUnchecked(h) ==
  /\ wpc \in {"run", "final"}
  /\ sendNodes' = [sendNodes EXCEPT ![h] = @ - 1]
  /\ wseen' = {}
  /\ wpc' = "writing"
  /\ UNCHANGED <<readerVars, sent, handlerVars, closeVars, writeChannel, nodes>>

\* try_dequeue leaves the reply on the queue.
FindNodePeeks(h) ==
  /\ wpc \in {"run", "final"}
  /\ sendNodes[h] > 0
  /\ wseen' = {}
  /\ wpc' = "writing"
  /\ UNCHANGED <<readerVars, sent, handlerVars, closeVars, sendNodes, writeChannel, nodes>>

\* The channel keeps no value for a writer that is not suspended yet.
WriterParksUnbuffered ==
  /\ wpc = "run"
  /\ wseen = Handlers
  /\ ~isStop
  /\ wseen' = {}
  /\ writeChannel' = FALSE
  /\ wpc' = "waiting"
  /\ UNCHANGED <<readerVars, sent, handlerVars, closeVars, sendNodes, nodes>>

\* The writer suspends without looking at isStop.
WriterParksBlindly ==
  /\ wpc = "run"
  /\ wseen = Handlers
  /\ wseen' = {}
  /\ writeChannel' = FALSE
  /\ wpc' = IF writeChannel THEN "run" ELSE "waiting"
  /\ UNCHANGED <<readerVars, sent, handlerVars, closeVars, sendNodes, nodes>>

\* The callback runs on the nowNode kept from before when nothing is dequeued.
TakeNodeStale(h) ==
  /\ hpc[h] \in {"idle", "holding"}
  /\ nodes > 0 \/ hpc[h] = "holding"
  /\ nodes' = IF nodes > 0 THEN nodes - 1 ELSE nodes
  /\ \E next \in {"enqueue", "holding"} : hpc' = [hpc EXCEPT ![h] = next]
  /\ UNCHANGED <<readerVars, writerVars, enqueued, closeVars, sendNodes, writeChannel>>

\* A reply is signalled only if the writer is suspended already.
SignalWriterIfWaiting(h) ==
  /\ hpc[h] = "signal"
  /\ hpc' = [hpc EXCEPT ![h] = "holding"]
  /\ wpc' = IF wpc = "waiting" THEN "run" ELSE wpc
  /\ UNCHANGED <<readerVars, wseen, sent, enqueued, closeVars, sendNodes,
                 writeChannel, nodes>>

-----------------------------------------------------------------------------
(* The reader coroutine.                                                    *)

\* The writer is suspended, so the I/O thread may run the reader.
IoThreadFree == wseen = {}

\* while (!isStop) { co_await async_read_some(header) ...
NextRead == rpc' = IF isStop THEN "done" ELSE "header"

ReaderBegins ==
  /\ rpc = "begin"
  /\ IoThreadFree
  /\ NextRead
  /\ UNCHANGED <<requests, leaked, writerVars, handlerVars, closeVars,
                 sendNodes, writeChannel, nodes>>

HeaderArrives ==
  /\ rpc = "header"
  /\ ~isStop
  /\ requests < MaxRequests
  /\ requests' = requests + 1
  /\ rpc' = "gotHeader"
  /\ UNCHANGED <<leaked, writerVars, handlerVars, closeVars, sendNodes,
                 writeChannel, nodes>>

\* new char[bodySize]: it may throw; an empty body needs no read.
AllocateBody ==
  /\ rpc = "gotHeader"
  /\ IoThreadFree
  /\ \/ rpc' \in {"body", "gotBody"} /\ UNCHANGED closeVars
     \/ MemoryFails /\ rpc' = "done" /\ Close
  /\ UNCHANGED <<requests, leaked, writerVars, handlerVars, sendNodes,
                 writeChannel, nodes>>

BodyArrives ==
  /\ rpc = "body"
  /\ ~isStop
  /\ rpc' = "gotBody"
  /\ UNCHANGED <<requests, leaked, writerVars, handlerVars, closeVars,
                 sendNodes, writeChannel, nodes>>

\* A read throws: the handler closes the session.  bodyBuffer is a raw pointer,
\* so a body in the middle of being read is never deleted.
ReadFails ==
  /\ rpc \in {"header", "body"}
  /\ IoThreadFree
  /\ rpc' = "done"
  /\ leaked' = IF rpc = "body" THEN leaked + 1 ELSE leaked
  /\ Close
  /\ UNCHANGED <<requests, writerVars, handlerVars, sendNodes, writeChannel, nodes>>

\* The request becomes a MessageNode and is posted; if make_shared throws, the
\* loop continues without it (and without deleting the body), and if enqueue
\* returns false within postMessageToQueue, the node is deleted with its body.
PostNode ==
  /\ rpc = "gotBody"
  /\ IoThreadFree
  /\ \/ nodes' = nodes + 1 /\ UNCHANGED leaked
     \/ MemoryFails /\ leaked' \in {leaked, leaked + 1} /\ UNCHANGED nodes
  /\ NextRead
  /\ UNCHANGED <<requests, writerVars, handlerVars, closeVars, sendNodes, writeChannel>>

-----------------------------------------------------------------------------
(* The writer coroutine.                                                    *)

\* try_dequeue finds a reply of one producer; async_write starts.
FindNode(h) ==
  /\ wpc \in {"run", "final"}
  /\ sendNodes[h] > 0
  /\ sendNodes' = [sendNodes EXCEPT ![h] = @ - 1]
  /\ wseen' = {}
  /\ wpc' = "writing"
  /\ UNCHANGED <<readerVars, sent, handlerVars, closeVars, writeChannel, nodes>>

\* try_dequeue finds nothing from one producer.
SeeEmpty(h) ==
  /\ wpc \in {"run", "final"}
  /\ h \notin wseen
  /\ sendNodes[h] = 0
  /\ wseen' = wseen \cup {h}
  /\ UNCHANGED <<readerVars, wpc, sent, handlerVars, closeVars, sendNodes,
                 writeChannel, nodes>>

\* Nothing to write and not stopped: co_await writeChannel.async_receive(...)
WriterParks ==
  /\ wpc = "run"
  /\ wseen = Handlers
  /\ ~isStop
  /\ wseen' = {}
  /\ writeChannel' = FALSE
  /\ wpc' = IF writeChannel THEN "run" ELSE "waiting"
  /\ UNCHANGED <<readerVars, sent, handlerVars, closeVars, sendNodes, nodes>>

\* Nothing to write and stopped: one more drain, then the coroutine returns.
WriterStops ==
  /\ wseen = Handlers
  /\ \/ wpc = "run" /\ isStop /\ wpc' = "final"
     \/ wpc = "final" /\ wpc' = "done"
  /\ wseen' = {}
  /\ UNCHANGED <<readerVars, sent, handlerVars, closeVars, sendNodes,
                 writeChannel, nodes>>

WriteCompletes ==
  /\ wpc = "writing"
  /\ ~isStop
  /\ sent' = sent + 1
  /\ wpc' = "run"
  /\ UNCHANGED <<readerVars, wseen, handlerVars, closeVars, sendNodes,
                 writeChannel, nodes>>

\* async_write throws; the completion handler of co_spawn closes the session.
WriteFails ==
  /\ wpc = "writing"
  /\ wpc' = "done"
  /\ Close
  /\ UNCHANGED <<readerVars, wseen, sent, handlerVars, sendNodes, writeChannel, nodes>>

-----------------------------------------------------------------------------
(* A LogicSystem thread.                                                    *)

\* try_dequeue moves a request into nowNode; some ids have no callback.
TakeNode(h) ==
  /\ hpc[h] \in {"idle", "holding"}
  /\ nodes > 0
  /\ nodes' = nodes - 1
  /\ \E next \in {"enqueue", "holding"} : hpc' = [hpc EXCEPT ![h] = next]
  /\ UNCHANGED <<readerVars, writerVars, enqueued, closeVars, sendNodes, writeChannel>>

\* writeAsync: sendNodes.enqueue, or a caught exception when memory runs out.
EnqueueReply(h) ==
  /\ hpc[h] = "enqueue"
  /\ \/ /\ sendNodes' = [sendNodes EXCEPT ![h] = @ + 1]
        /\ enqueued' = enqueued + 1
        /\ hpc' = [hpc EXCEPT ![h] = "signal"]
     \/ /\ MemoryFails
        /\ hpc' = [hpc EXCEPT ![h] = "holding"]
        /\ UNCHANGED <<sendNodes, enqueued>>
  /\ UNCHANGED <<readerVars, writerVars, closeVars, writeChannel, nodes>>

\* writeAsync: writeChannel.try_send, to the suspended writer or the buffer.
SignalWriter(h) ==
  /\ hpc[h] = "signal"
  /\ hpc' = [hpc EXCEPT ![h] = "holding"]
  /\ \/ wpc = "waiting" /\ wpc' = "run" /\ UNCHANGED writeChannel
     \/ wpc # "waiting" /\ writeChannel' = TRUE /\ UNCHANGED wpc
  /\ UNCHANGED <<readerVars, wseen, sent, enqueued, closeVars, sendNodes, nodes>>

\* The thread's nowNode is overwritten or goes out of scope.
ReleaseNode(h) ==
  /\ hpc[h] = "holding"
  /\ hpc' = [hpc EXCEPT ![h] = "idle"]
  /\ UNCHANGED <<readerVars, writerVars, enqueued, closeVars, sendNodes,
                 writeChannel, nodes>>

-----------------------------------------------------------------------------
Reader == ReaderBegins \/ AllocateBody \/ PostNode
Network == HeaderArrives \/ BodyArrives \/ ReadFails \/ WriteCompletes \/ WriteFails
Writer == (\E h \in Handlers : FindNode(h) \/ SeeEmpty(h)) \/ WriterParks \/ WriterStops
Handler(h) == TakeNode(h) \/ EnqueueReply(h) \/ SignalWriter(h)

Next ==
  \/ Start \/ Reader \/ Network \/ Writer
  \/ \E h \in Handlers : Handler(h) \/ ReleaseNode(h)

Spec == Init /\ [][Next]_vars

(***************************************************************************)
(* The I/O thread and the LogicSystem threads keep running; a read that    *)
(* close() aborted fails; a write ends, since the peer reads what it is    *)
(* sent or the connection breaks; a thread's nowNode is let go in the end. *)
(* Nothing says that the peer sends anything.                              *)
(***************************************************************************)
Fairness ==
  /\ WF_vars(Start \/ Reader)
  /\ WF_vars(Writer)
  /\ WF_vars(isStop /\ ReadFails)
  /\ WF_vars(WriteCompletes \/ WriteFails)
  /\ \A h \in Handlers : WF_vars(Handler(h)) /\ WF_vars(ReleaseNode(h))

FairSpec == Spec /\ Fairness

-----------------------------------------------------------------------------
(* Properties.                                                              *)

TypeOK ==
  /\ requests \in 0..MaxRequests
  /\ rpc \in {"none", "begin", "header", "gotHeader", "body", "gotBody", "done"}
  /\ wpc \in {"none", "run", "writing", "waiting", "final", "done"}
  /\ wseen \subseteq Handlers
  /\ isStop \in BOOLEAN
  /\ registered \in BOOLEAN
  /\ sendNodes \in [Handlers -> Nat]
  /\ writeChannel \in BOOLEAN
  /\ nodes \in Nat
  /\ hpc \in [Handlers -> {"idle", "enqueue", "signal", "holding"}]
  /\ leaked \in Nat
  /\ enqueued \in Nat
  /\ sent \in Nat

\* The writer never sleeps on a reply: if it is suspended while sendNodes is not
\* empty, the handler that put the reply there is about to signal.  The channel
\* has one place and try_send's failure is ignored, so this is about signals
\* that coincide with the drain, the park and each other.
NoLostReply ==
  wpc = "waiting" =>
    /\ ~writeChannel
    /\ \A h \in Handlers : sendNodes[h] > 0 => hpc[h] = "signal"

\* What is answered was asked for, and once: a request is posted, being answered,
\* answered or given up, however close() interleaves with its way through.
RepliesAsked ==
  enqueued + nodes + leaked + Cardinality({h \in Handlers : hpc[h] = "enqueue"})
    <= requests

\* The replies on sendNodes: the i-th of those each handler has there.
Queued == UNION {{h} \X (1..sendNodes[h]) : h \in Handlers}

\* No reply is lost or written twice before the writer is done: each is still
\* queued, being written or sent, although several handlers enqueue while the
\* writer drains and close() runs.
RepliesAccounted ==
  wpc # "done" =>
    enqueued = sent + Cardinality(Queued) + (IF wpc = "writing" THEN 1 ELSE 0)

\* Every enqueued reply is written in the end, unless the session closes.
RepliesWritten ==
  \A n \in 1..MaxRequests : enqueued >= n ~> (sent >= n \/ isStop)

\* The reader returns once the session is closed, by whichever coroutine.
ReaderReturns == isStop ~> rpc = "done"

\* A reply signalled after close() ends the suspended writer, although the
\* socket is gone: its write fails, or it finds nothing and returns.
LateReplyEndsWriter == (isStop /\ \E h \in Handlers : hpc[h] = "signal") ~> wpc = "done"

\* Nothing owns the session any more, so that it is destroyed: both coroutine
\* frames are gone, and neither CServer nor any message node refers to it.
Released ==
  /\ rpc = "done" /\ wpc = "done" /\ ~registered /\ nodes = 0
  /\ \A h \in Handlers : hpc[h] = "idle"

\* A closed session is released: README.md:27 says RAII and smart pointers
\* guarantee it.  Refuted: close() does not wake the suspended writer, whose
\* frame owns the session.
ClosedReleased == isStop ~> Released
=============================================================================

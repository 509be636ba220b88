-------------------------- MODULE ImplicitProducers --------------------------
(***************************************************************************)
(* concurrentqueue.h: which producing thread owns which sub-queue.         *)
(*                                                                         *)
(* A thread that enqueues looks its producer up by thread id in a chain of *)
(* open-addressing hash tables, the newest first; if it has none it        *)
(* counts itself, grows the table when that is half full, reuses a         *)
(* producer whose thread has exited or makes one, subscribes to its own    *)
(* exit and takes a slot of the table.  At its exit ~ThreadExitNotifier    *)
(* takes the id out of every table and marks the producer inactive.  The   *)
(* thread that drops the last reference to the queue destroys it; no       *)
(* enqueue runs by then, but threads still exit: a session is released by  *)
(* an I/O thread while temporary threads of LogicSystem that answered on   *)
(* it come to their end.                                                   *)
(*                                                                         *)
(* One action per access that another thread can disturb, interleaved as   *)
(* if all of them were sequentially consistent.  A thread id is an address *)
(* and is used again by a later thread.                                    *)
(***************************************************************************)
EXTENDS Naturals, FiniteSets, SequencesExt

CONSTANTS
  Ids,              \* thread ids; at most one living thread has each
  Hash,             \* hash_thread_id: all ids of the model collide
  InitialCapacity,  \* INITIAL_IMPLICIT_PRODUCER_HASH_SIZE, a power of two
  MaxStarts,        \* bound of the model: threads started
  MaxProducers,     \* bound of the model: producers made
  Empty,            \* invalid_thread_id: like the next two, none of Ids
  Reusable,         \* invalid_thread_id2
  None              \* nullptr, where a thread or a producer could be

ProducersConstantsOK ==
  /\ IsFiniteSet(Ids) /\ Ids \cap {Empty, Reusable, None} = {} /\ Empty # Reusable
  /\ Hash \in Nat
  /\ InitialCapacity \in Nat \ {0}
  /\ MaxStarts \in Nat
ASSUME ProducersAssumption == ProducersConstantsOK

VARIABLES
  hashes,     \* the tables, the oldest first; the last one is implicitProducerHash
  hashCount,  \* implicitProducerHashCount
  resizing,   \* implicitProducerHashResizeInProgress
  producers,  \* the producer list, the oldest first: the inactive flag of each
  chain,      \* listener->chain of each producer: the thread it is subscribed to
  tail,       \* ThreadExitNotifier::tail of each thread: its listeners
  mutex,      \* who holds the static mutex of ThreadExitNotifier
  starts,     \* threads started so far
  queue,      \* open, closed (no enqueue any more), producers, tables or gone
  victim,     \* the producer ~ConcurrentQueue has come to
  freed,      \* producers it has freed
  ipc,        \* where each thread is; "none" when no thread has the id
  my          \* its local variables

tables == <<hashes, hashCount, resizing>>
notifier == <<chain, tail, mutex>>
destruction == <<queue, victim, freed>>
ownerVars ==
  <<tables, producers, notifier, starts, destruction, ipc, my>>

FreshLocals == [main |-> 1, index |-> 0, count |-> 0, producer |-> 0]

NewTable(n) == [i \in 0..(n - 1) |-> [key |-> Empty, value |-> 0]]
Capacity(h) == Cardinality(DOMAIN hashes[h])
Slot(h, i) == i % Capacity(h)
mainHash == Len(hashes)

\* The slot of table h that holds the id, if there is one.
SlotOf(h, id) == {i \in DOMAIN hashes[h] : hashes[h][i].key = id}

ProducersInit ==
  /\ hashes = <<NewTable(InitialCapacity)>>
  /\ hashCount = 0
  /\ resizing = FALSE
  /\ producers = <<>>
  /\ chain = <<>>
  /\ tail = [t \in Ids |-> <<>>]
  /\ mutex = None
  /\ starts = 0
  /\ queue = "open"
  /\ victim = 0
  /\ freed = {}
  /\ ipc = [t \in Ids |-> "none"]
  /\ my = [t \in Ids |-> FreshLocals]

AtPlace(t, here) == ipc[t] = here
Goto(t, there) == ipc' = [ipc EXCEPT ![t] = there]
Leave(t) == Goto(t, "idle") /\ my' = [my EXCEPT ![t] = FreshLocals]

-----------------------------------------------------------------------------
(* Faulty variants of single actions, used by no specification here.        *)

\* The exiting thread leaves its id in the older tables.
EraseMain(t) ==
  /\ AtPlace(t, "erase")
  /\ hashes' = [hashes EXCEPT ![mainHash] =
       [i \in DOMAIN @ |-> IF @[i].key = t THEN [@[i] EXCEPT !.key = Reusable] ELSE @[i]]]
  /\ Goto(t, "inactive")
  /\ UNCHANGED <<hashCount, resizing, producers, notifier, starts, destruction, my>>

\* Every thread is counted as if it were the only one.
CountInLoad(t) ==
  /\ AtPlace(t, "count")
  /\ my' = [my EXCEPT ![t].count = hashCount + 1]
  /\ hashCount' = 1
  /\ Goto(t, "test")
  /\ UNCHANGED <<hashes, resizing, producers, notifier, starts, destruction>>

\* ~ImplicitProducer unsubscribes without the mutex.
UnsubscribeUnlocked ==
  /\ queue = "producers" /\ victim > 0
  /\ ~producers[victim]
  /\ freed' = freed \cup {victim}
  /\ victim' = victim - 1
  /\ UNCHANGED <<tables, producers, notifier, starts, queue, ipc, my>>

-----------------------------------------------------------------------------
(* get_or_add_implicit_producer.                                            *)

Start(t) ==
  /\ AtPlace(t, "none")
  /\ starts < MaxStarts
  /\ starts' = starts + 1
  /\ Goto(t, "idle")
  /\ UNCHANGED <<tables, producers, notifier, destruction, my>>

\* The tables are searched from the newest to the oldest.  (One step: no other
\* thread writes this id, and a slot once used never becomes empty again.)  An
\* id found in an older table is put in the newest one as well.
Lookup(t) ==
  LET found == {h \in 1..mainHash : SlotOf(h, t) # {}}
      local == [FreshLocals EXCEPT !.main = mainHash, !.index = Hash]
  IN
  /\ AtPlace(t, "idle") /\ queue = "open"
  /\ \/ found = {} /\ Goto(t, "count") /\ my' = [my EXCEPT ![t] = local]
     \/ mainHash \in found /\ UNCHANGED <<ipc, my>>
     \/ /\ mainHash \notin found
        /\ \E h \in found :
             /\ \A k \in found : k <= h
             /\ \E i \in SlotOf(h, t) :
                  my' = [my EXCEPT ![t] = [local EXCEPT !.producer = hashes[h][i].value]]
        /\ Goto(t, "reinsert")
  /\ UNCHANGED <<tables, producers, notifier, starts, destruction>>

Key(t) == hashes[my[t].main][Slot(my[t].main, my[t].index)].key

SetSlot(t) ==
  hashes' = [hashes EXCEPT ![my[t].main][Slot(my[t].main, my[t].index)] =
               [key |-> t, value |-> my[t].producer]]

NextSlot(t) ==
  my' = [my EXCEPT ![t].index = @ + 1] /\ UNCHANGED <<hashes, ipc>>

\* Compare-exchange with an empty or a reusable slot, or try the next one.
Reinsert(t) ==
  /\ AtPlace(t, "reinsert")
  /\ \/ Key(t) \in {Empty, Reusable} /\ SetSlot(t) /\ Leave(t)
     \/ Key(t) \notin {Empty, Reusable} /\ NextSlot(t)
  /\ UNCHANGED <<hashCount, resizing, producers, notifier, starts, destruction>>

\* newCount = 1 + implicitProducerHashCount.fetch_add(1)
CountIn(t) ==
  /\ AtPlace(t, "count")
  /\ hashCount' = hashCount + 1
  /\ my' = [my EXCEPT ![t].count = hashCount + 1]
  /\ Goto(t, "test")
  /\ UNCHANGED <<hashes, resizing, producers, notifier, starts, destruction>>

HalfFull(t, h) == my[t].count >= Capacity(h) \div 2

\* Half full, and test_and_set: the newest table is loaded again under the lock.
TestResize(t) ==
  /\ AtPlace(t, "test")
  /\ \/ /\ HalfFull(t, my[t].main) /\ ~resizing
        /\ resizing' = TRUE
        /\ my' = [my EXCEPT ![t].main = mainHash]
        /\ Goto(t, "resize")
     \/ /\ ~HalfFull(t, my[t].main) \/ resizing
        /\ Goto(t, "room")
        /\ UNCHANGED <<resizing, my>>
  /\ UNCHANGED <<hashes, hashCount, producers, notifier, starts, destruction>>

\* The old capacity is doubled until less than half of it is used (the bounds say
\* that it is not doubled once more).  malloc may fail.
Resize(t) ==
  LET n == my[t].count
      old == Capacity(mainHash)
  IN
  /\ AtPlace(t, "resize")
  /\ \/ /\ HalfFull(t, mainHash)
        /\ \E capacity \in {2 * old} \cup (2 * n + 1)..(4 * n + 3) :
             /\ \E k \in 1..n : capacity = 2 ^ k * old
             /\ n < capacity \div 2
             /\ hashes' = Append(hashes, NewTable(capacity))
        /\ my' = [my EXCEPT ![t].main = mainHash + 1]
        /\ Goto(t, "unlock")
     \/ /\ HalfFull(t, mainHash)
        /\ Goto(t, "noMemory")
        /\ UNCHANGED <<hashes, my>>
     \/ /\ ~HalfFull(t, mainHash)
        /\ Goto(t, "unlock")
        /\ UNCHANGED <<hashes, my>>
  /\ UNCHANGED <<hashCount, resizing, producers, notifier, starts, destruction>>

Unlock(t) ==
  /\ AtPlace(t, "unlock")
  /\ resizing' = FALSE
  /\ Goto(t, "room")
  /\ UNCHANGED <<hashes, hashCount, producers, notifier, starts, destruction, my>>

\* hashCount is taken back ...
NoMemory(t) ==
  /\ AtPlace(t, "noMemory")
  /\ hashCount' = hashCount - 1
  /\ Goto(t, "giveUp")
  /\ UNCHANGED <<hashes, resizing, producers, notifier, starts, destruction, my>>

\* ... then the lock; nullptr is returned.
GiveUp(t) ==
  /\ AtPlace(t, "giveUp")
  /\ resizing' = FALSE
  /\ Leave(t)
  /\ UNCHANGED <<hashes, hashCount, producers, notifier, starts, destruction>>

\* Less than three quarters full, or wait for whoever makes the new table.
Room(t) ==
  LET n == Capacity(my[t].main) IN
  /\ AtPlace(t, "room")
  /\ \/ /\ my[t].count < n \div 2 + n \div 4
        /\ my' = [my EXCEPT ![t].producer = Len(producers), ![t].count = 0]
        /\ Goto(t, "recycle")
     \/ /\ my[t].count >= n \div 2 + n \div 4
        /\ my' = [my EXCEPT ![t].main = mainHash]
        /\ Goto(t, "test")
  /\ UNCHANGED <<tables, producers, notifier, starts, destruction>>

\* recycle_or_create_producer: the list is walked from its tail; the first
\* producer whose inactive can be exchanged for false is taken.
Recycle(t) ==
  LET p == my[t].producer IN
  /\ AtPlace(t, "recycle") /\ p # 0
  /\ \/ /\ producers[p]
        /\ producers' = [producers EXCEPT ![p] = FALSE]
        /\ Goto(t, "subscribe")
        /\ UNCHANGED my
     \/ /\ ~producers[p]
        /\ my' = [my EXCEPT ![t].producer = p - 1]
        /\ UNCHANGED <<producers, ipc>>
  /\ UNCHANGED <<tables, notifier, starts, destruction>>

\* A new producer is added to the list, or there is no memory for it.
Create(t) ==
  /\ AtPlace(t, "recycle") /\ my[t].producer = 0
  /\ \/ /\ Len(producers) < MaxProducers
        /\ producers' = Append(producers, FALSE)
        /\ chain' = Append(chain, None)
        /\ my' = [my EXCEPT ![t].producer = Len(producers) + 1]
        /\ Goto(t, "subscribe")
        /\ UNCHANGED hashCount
     \/ /\ hashCount' = hashCount - 1
        /\ Leave(t)
        /\ UNCHANGED <<producers, chain>>
  /\ UNCHANGED <<hashes, resizing, tail, mutex, starts, destruction>>

\* ThreadExitNotifier::subscribe, under its mutex.
Subscribe(t) ==
  LET p == my[t].producer IN
  /\ AtPlace(t, "subscribe") /\ mutex = None
  /\ chain' = [chain EXCEPT ![p] = t]
  /\ tail' = [tail EXCEPT ![t] = <<p>> \o @]
  /\ Goto(t, "insert")
  /\ UNCHANGED <<tables, producers, mutex, starts, destruction, my>>

\* Compare-exchange with a reusable or an empty slot, or try the next one.
Insert(t) ==
  /\ AtPlace(t, "insert")
  /\ \/ Key(t) = Reusable /\ SetSlot(t) /\ Goto(t, "uncount") /\ UNCHANGED my
     \/ Key(t) = Empty /\ SetSlot(t) /\ Leave(t)
     \/ Key(t) \notin {Empty, Reusable} /\ NextSlot(t)
  /\ UNCHANGED <<hashCount, resizing, producers, notifier, starts, destruction>>

\* The slot was counted by the thread that used it before.
Uncount(t) ==
  /\ AtPlace(t, "uncount")
  /\ hashCount' = hashCount - 1
  /\ Leave(t)
  /\ UNCHANGED <<hashes, resizing, producers, notifier, starts, destruction>>

-----------------------------------------------------------------------------
(* The exit of a thread: ~ThreadExitNotifier, all of it under the mutex.    *)

Exit(t) ==
  /\ AtPlace(t, "idle") /\ mutex = None
  /\ \/ tail[t] = <<>> /\ Goto(t, "none") /\ UNCHANGED <<mutex, chain, my>>
     \/ /\ tail[t] # <<>>
        /\ mutex' = t
        /\ chain' = [chain EXCEPT ![Head(tail[t])] = None]
        /\ my' = [my EXCEPT ![t].producer = Head(tail[t]), ![t].main = mainHash]
        /\ Goto(t, "erase")
  /\ UNCHANGED <<tables, producers, tail, starts, destruction>>

\* implicit_producer_thread_exited: one table after the other, the newest first.
Erase(t) ==
  LET h == my[t].main IN
  /\ AtPlace(t, "erase")
  /\ hashes' = [hashes EXCEPT ![h] =
       [i \in DOMAIN @ |-> IF @[i].key = t THEN [@[i] EXCEPT !.key = Reusable] ELSE @[i]]]
  /\ \/ h > 1 /\ my' = [my EXCEPT ![t].main = h - 1] /\ UNCHANGED ipc
     \/ h = 1 /\ Goto(t, "inactive") /\ UNCHANGED my
  /\ UNCHANGED <<hashCount, resizing, producers, notifier, starts, destruction>>

\* inactive.store(true): from here on another thread may take the producer.
Inactive(t) ==
  /\ AtPlace(t, "inactive")
  /\ producers' = [producers EXCEPT ![my[t].producer] = TRUE]
  /\ Goto(t, "next")
  /\ UNCHANGED <<tables, notifier, starts, destruction, my>>

\* ptr = ptr->next; the mutex is released after the last listener.
NextListener(t) ==
  LET rest == Tail(tail[t]) IN
  /\ AtPlace(t, "next")
  /\ tail' = [tail EXCEPT ![t] = rest]
  /\ \/ /\ rest = <<>>
        /\ mutex' = None
        /\ Goto(t, "none")
        /\ my' = [my EXCEPT ![t] = FreshLocals]
        /\ UNCHANGED chain
     \/ /\ rest # <<>>
        /\ chain' = [chain EXCEPT ![Head(rest)] = None]
        /\ my' = [my EXCEPT ![t].producer = Head(rest), ![t].main = mainHash]
        /\ Goto(t, "erase")
        /\ UNCHANGED mutex
  /\ UNCHANGED <<tables, producers, starts, destruction>>

-----------------------------------------------------------------------------
(* ~ConcurrentQueue, by the thread that drops the last reference.           *)

Close ==
  /\ queue = "open"
  /\ \A t \in Ids : ipc[t] \in {"none", "idle", "erase", "inactive", "next"}
  /\ queue' = "producers"
  /\ victim' = Len(producers)
  /\ UNCHANGED <<tables, producers, notifier, starts, freed, ipc, my>>

\* ~ImplicitProducer of an active producer: unsubscribe, under the mutex, unless
\* the exiting thread was faster.
Unsubscribe ==
  /\ queue = "producers" /\ victim > 0
  /\ ~producers[victim] /\ mutex = None
  /\ chain' = [chain EXCEPT ![victim] = None]
  /\ LET t == chain[victim] IN
     \/ (t = None \/ ~Contains(tail[t], victim)) /\ UNCHANGED tail
     \/ /\ t # None
        /\ \E k \in DOMAIN tail[t] :
             tail[t][k] = victim /\ tail' = [tail EXCEPT ![t] = RemoveAt(@, k)]
  /\ freed' = freed \cup {victim}
  /\ victim' = victim - 1
  /\ UNCHANGED <<tables, producers, mutex, starts, queue, ipc, my>>

\* An inactive producer is not subscribed any more: it is freed at once.
FreeInactive ==
  /\ queue = "producers" /\ victim > 0
  /\ producers[victim]
  /\ freed' = freed \cup {victim}
  /\ victim' = victim - 1
  /\ UNCHANGED <<tables, producers, notifier, starts, queue, ipc, my>>

\* The hash tables are destroyed, and the blocks.
FreeTables ==
  /\ queue = "producers" /\ victim = 0
  /\ queue' = "gone"
  /\ UNCHANGED <<tables, producers, notifier, starts, victim, freed, ipc, my>>

-----------------------------------------------------------------------------
GetOrAdd(t) ==
  \/ Lookup(t) \/ Reinsert(t) \/ CountIn(t) \/ TestResize(t) \/ Resize(t) \/ Unlock(t)
  \/ NoMemory(t) \/ GiveUp(t) \/ Room(t) \/ Recycle(t) \/ Create(t) \/ Subscribe(t)
  \/ Insert(t) \/ Uncount(t)
ThreadExit(t) == Exit(t) \/ Erase(t) \/ Inactive(t) \/ NextListener(t)
Destroy == Close \/ Unsubscribe \/ FreeInactive \/ FreeTables

ProducersNext == (\E t \in Ids : Start(t) \/ GetOrAdd(t) \/ ThreadExit(t)) \/ Destroy

ProducersSpec == ProducersInit /\ [][ProducersNext]_ownerVars
-----------------------------------------------------------------------------
(* Properties.                                                              *)

ProducersTypeOK ==
  /\ \A h \in 1..mainHash : \A i \in DOMAIN hashes[h] :
       /\ hashes[h][i].key \in Ids \cup {Empty, Reusable}
       /\ hashes[h][i].value \in 0..Len(producers)
  /\ hashCount \in 0..MaxStarts
  /\ resizing \in BOOLEAN
  /\ producers \in [1..Len(producers) -> BOOLEAN]
  /\ chain \in [1..Len(producers) -> Ids \cup {None}]
  /\ \A t \in Ids : \A k \in 1..Len(tail[t]) : tail[t][k] \in 1..Len(producers)
  /\ mutex \in Ids \cup {None}
  /\ starts \in 0..MaxStarts
  /\ queue \in {"open", "producers", "gone"}
  /\ victim \in 0..Len(producers)
  /\ freed \subseteq 1..Len(producers)
  /\ ipc \in [Ids -> {"none", "idle", "reinsert", "count", "test", "resize", "unlock",
                      "noMemory", "giveUp", "room", "recycle", "subscribe", "insert",
                      "uncount", "erase", "inactive", "next"}]
  /\ my \in [Ids -> [main : 1..mainHash, index : Nat, count : 0..MaxStarts,
                     producer : 0..Len(producers)]]

\* Who has which producer: by an entry of a table, or on the way to one.
Owned ==
  {<<t, my[t].producer>> : t \in {u \in Ids : ipc[u] \in {"subscribe", "insert", "reinsert"}}}
    \cup UNION {{<<e.key, e.value>> : e \in {hashes[h][i] : i \in DOMAIN hashes[h]}}
                 : h \in 1..mainHash}

\* A sub-queue has one producing thread, and a thread one sub-queue, through
\* reuse, growing tables and ids that come back: what ConcurrentQueue takes for
\* granted, and what keeps the messages of a thread in order.
OneOwner ==
  LET owned == {x \in Owned : x[1] \in Ids}
  IN  \A x, y \in owned : x[1] = y[1] <=> x[2] = y[2]

\* No thread that was started has come to its end.
NoneExited ==
  starts = Cardinality({t \in Ids : ipc[t] \notin {"none", "erase", "inactive", "next"}})

\* Less than three quarters of a table are ever used: the empty slot ends every
\* search ("at least one slot is free in the hash table").  This is so of the first
\* table, whoever comes and exits, and of every later one until a thread exits,
\* though an id of an older table is put in the newest without being counted again.
\* Once threads exit it is not so of a later table: a slot reused in a table that
\* was replaced is not counted, and the thread then takes another in the newest.
\* Eight threads can come to use three quarters of the second table.
TableNotFull ==
  \A h \in 1..mainHash : h = 1 \/ NoneExited =>
    4 * Cardinality(DOMAIN hashes[h] \ SlotOf(h, Empty)) < 3 * Capacity(h)

\* The exit of a thread uses the queue's tables and the producer only while they
\* exist, whenever the queue is destroyed.
CallbackSafe ==
  \A t \in Ids : ipc[t] \in {"erase", "inactive"} =>
    queue # "gone" /\ my[t].producer \notin freed

\* So does its walk over the listeners: concurrentqueue.h:589 names the race of
\* unsubscribe with ~ThreadExitNotifier.  Refuted: the callback marks the
\* producer inactive before the walk reads its next pointer.
ListenerSafe == \A t \in Ids : ipc[t] = "next" => my[t].producer \notin freed
=============================================================================

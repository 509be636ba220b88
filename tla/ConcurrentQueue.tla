-------------------------- MODULE ConcurrentQueue --------------------------
(***************************************************************************)
(* concurrentqueue.h: the sub-queue of one producing thread (an            *)
(* ImplicitProducer) and the consumers that call try_dequeue.              *)
(*                                                                         *)
(* The producer appends elements to blocks of BlockSize slots and finds    *)
(* blocks through a circular index that it grows when every entry is in    *)
(* use.  A consumer first takes a ticket (dequeueOptimisticCount); only    *)
(* with a good ticket it claims an element (headIndex), looks its block up *)
(* in the index and moves the element out.  Whoever empties a block takes  *)
(* it out of the index and frees it.                                       *)
(*                                                                         *)
(* One action per access to a shared variable, interleaved as if all of    *)
(* them were sequentially consistent.  The element enqueued at index i is  *)
(* the number i.  index_t does not wrap within MaxItems.                   *)
(***************************************************************************)
EXTENDS Integers, Sequences, FiniteSets

CONSTANTS
  Consumers,     \* threads that call try_dequeue
  Blocks,        \* the blocks memory has room for
  NoBlock,       \* nullptr
  BlockSize,     \* BLOCK_SIZE
  InitialSize,   \* IMPLICIT_INITIAL_INDEX_SIZE
  MaxItems,      \* bound of the model: elements enqueued
  MaxTickets     \* bound of the model: tickets taken

ASSUME SizesAssumption ==
  /\ BlockSize \in Nat \ {0, 1}
  /\ InitialSize \in Nat \ {0, 1}
  /\ MaxItems \in Nat
  /\ MaxTickets \in Nat
ASSUME ThreadsAssumption ==
  /\ IsFiniteSet(Consumers)
  /\ IsFiniteSet(Blocks)
  /\ NoBlock \notin Blocks

Invalid == 1    \* INVALID_BLOCK_BASE: no block starts at an odd index
Gone == -1      \* a slot whose element was not constructed, or was moved away

VARIABLES
  tailIndex,    \* elements published
  headIndex,    \* elements claimed
  optimistic,   \* dequeueOptimisticCount: tickets taken
  overcommit,   \* dequeueOvercommit: tickets given back
  headers,      \* every block index made so far; the last one is blockIndex
  entries,      \* the entries they point to: a key and a value each
  elements,     \* the slots of each block
  dequeued,     \* elementsCompletelyDequeued of each block
  free,         \* blocks that requisition_block can hand out
  tailBlock,    \* tailBlock
  newBlock,     \* the block enqueue is about to publish
  ppc,          \* where the producer is in enqueue
  cpc,          \* where each consumer is in try_dequeue
  local,        \* its local variables
  excused       \* history: during its try_dequeue the queue was empty or busy

producerVars == <<tailIndex, headers, tailBlock, newBlock, ppc>>
counterVars  == <<headIndex, optimistic, overcommit>>
blockVars    == <<entries, elements, dequeued, free>>
consumerVars == <<cpc, local>>
vars == <<producerVars, counterVars, blockVars, consumerVars, excused>>

Fresh == [tail |-> 0, overcommit |-> 0, ticket |-> 0, index |-> 0, header |-> 0,
          slot |-> 0, entry |-> 0, block |-> NoBlock, element |-> Gone]

Base(i) == i - (i % BlockSize)

blockIndex == headers[Len(headers)]

\* The index new_block_index makes first: InitialSize unused entries.
Init ==
  /\ tailIndex = 0
  /\ headIndex = 0
  /\ optimistic = 0
  /\ overcommit = 0
  /\ headers = << [capacity |-> InitialSize, tail |-> InitialSize - 1,
                   index |-> [k \in 0..(InitialSize - 1) |-> k + 1]] >>
  /\ entries = [e \in 1..InitialSize |-> [key |-> Invalid, value |-> NoBlock]]
  /\ elements = [b \in Blocks |-> [k \in 0..(BlockSize - 1) |-> Gone]]
  /\ dequeued = [b \in Blocks |-> 0]
  /\ free = Blocks
  /\ tailBlock = NoBlock
  /\ newBlock = NoBlock
  /\ ppc = "idle"
  /\ cpc = [c \in Consumers |-> "idle"]
  /\ local = [c \in Consumers |-> Fresh]
  /\ excused = [c \in Consumers |-> FALSE]

-----------------------------------------------------------------------------
(* The producer: enqueue.                                                   *)

NeedsBlock == tailIndex % BlockSize = 0
NewTail == (blockIndex.tail + 1) % blockIndex.capacity
NextEntry == blockIndex.index[NewTail]
EntryFree == entries[NextEntry].key = Invalid \/ entries[NextEntry].value = NoBlock

SetIndexTail(t) == headers' = [headers EXCEPT ![Len(headers)].tail = t]

\* Mutant: the next entry is not checked.
InsertKeyUnchecked ==
  /\ ppc = "idle"
  /\ tailIndex < MaxItems
  /\ NeedsBlock
  /\ entries' = [entries EXCEPT ![NextEntry].key = tailIndex]
  /\ ppc' = "key"
  /\ UNCHANGED <<tailIndex, headers, tailBlock, newBlock, counterVars, elements,
                 dequeued, free, consumerVars>>

\* insert_block_index_entry: the next entry is free; its key is set first.  (The
\* check before it only fails when the sub-queue holds as much as index_t counts.)
InsertKey ==
  /\ ppc = "idle"
  /\ tailIndex < MaxItems
  /\ NeedsBlock
  /\ EntryFree
  /\ entries' = [entries EXCEPT ![NextEntry].key = tailIndex]
  /\ ppc' = "key"
  /\ UNCHANGED <<tailIndex, headers, tailBlock, newBlock, counterVars, elements,
                 dequeued, free, consumerVars>>

InsertTail ==
  /\ ppc = "key"
  /\ SetIndexTail(NewTail)
  /\ ppc' = "requisition"
  /\ UNCHANGED <<tailIndex, tailBlock, newBlock, counterVars, blockVars, consumerVars>>

\* new_block_index: every entry is in use.  The new index doubles the capacity:
\* the old entries, the oldest first, then as many new ones.  (When memory is
\* exhausted instead, enqueue returns false and nothing changes.)
GrowIndex ==
  /\ ppc = "idle"
  /\ tailIndex < MaxItems
  /\ NeedsBlock
  /\ ~EntryFree
  /\ LET n == blockIndex.capacity
         used == Len(headers)
         first == Cardinality(DOMAIN entries)
     IN  /\ headers' = Append(headers,
              [capacity |-> 2 * n,
               tail |-> n - 1,
               index |-> [k \in 0..(2 * n - 1) |->
                            IF k < n
                            THEN headers[used].index[(headers[used].tail + 1 + k) % n]
                            ELSE first + 1 + (k - n)]])
         /\ entries' = [e \in 1..(first + n) |->
              IF e <= first THEN entries[e] ELSE [key |-> Invalid, value |-> NoBlock]]
  /\ UNCHANGED <<tailIndex, tailBlock, newBlock, ppc, counterVars, elements, dequeued,
                 free, consumerVars>>

\* requisition_block, and reset_empty on the block.  It may miss a block that is on
\* its way to the free list; when memory is exhausted then, rewind_block_index_tail
\* undoes the insertion.
Requisition ==
  /\ ppc = "requisition"
  /\ \/ \E b \in free :
          /\ free' = free \ {b}
          /\ dequeued' = [dequeued EXCEPT ![b] = 0]
          /\ newBlock' = b
          /\ ppc' = "value"
          /\ UNCHANGED headers
     \/ /\ SetIndexTail((blockIndex.tail - 1) % blockIndex.capacity)
        /\ ppc' = "rewound"
        /\ UNCHANGED <<free, dequeued, newBlock>>
  /\ UNCHANGED <<tailIndex, tailBlock, counterVars, entries, elements, consumerVars>>

\* idxEntry->value.store(nullptr); enqueue returns false.
RewindValue ==
  /\ ppc = "rewound"
  /\ entries' = [entries EXCEPT ![NextEntry].value = NoBlock]
  /\ ppc' = "idle"
  /\ UNCHANGED <<tailIndex, headers, tailBlock, newBlock, counterVars, elements,
                 dequeued, free, consumerVars>>

\* idxEntry->value.store(newBlock); tailBlock = newBlock
StoreValue ==
  /\ ppc = "value"
  /\ entries' = [entries EXCEPT ![blockIndex.index[blockIndex.tail]].value = newBlock]
  /\ tailBlock' = newBlock
  /\ newBlock' = NoBlock
  /\ ppc' = "publish"
  /\ UNCHANGED <<tailIndex, headers, counterVars, elements, dequeued, free, consumerVars>>

\* The element is constructed in its slot, and published by tailIndex.
Publish ==
  /\ \/ ppc = "publish"
     \/ ppc = "idle" /\ tailIndex < MaxItems /\ ~NeedsBlock
  /\ elements' = [elements EXCEPT ![tailBlock][tailIndex % BlockSize] = tailIndex]
  /\ tailIndex' = tailIndex + 1
  /\ ppc' = "idle"
  /\ UNCHANGED <<headers, tailBlock, newBlock, counterVars, entries, dequeued, free,
                 consumerVars>>

-----------------------------------------------------------------------------
(* A consumer: try_dequeue.                                                 *)

At(c, here, next) ==
  /\ cpc[c] = here
  /\ cpc' = [cpc EXCEPT ![c] = next]

Return(c) ==
  /\ cpc' = [cpc EXCEPT ![c] = "idle"]
  /\ local' = [local EXCEPT ![c] = Fresh]

\* size_approx reads the tail, then the head; dequeue is tried if they differ.
ReadSizeTail(c) ==
  /\ At(c, "idle", "sizeHead")
  /\ local' = [local EXCEPT ![c].tail = tailIndex]
  /\ UNCHANGED <<producerVars, counterVars, blockVars>>

ReadSizeHead(c) ==
  /\ cpc[c] = "sizeHead"
  /\ \/ headIndex < local[c].tail /\ At(c, "sizeHead", "tail") /\ UNCHANGED local
     \/ headIndex >= local[c].tail /\ Return(c)
  /\ UNCHANGED <<producerVars, counterVars, blockVars>>

\* dequeue, called after a positive size or, when the fullest sub-queue failed, at once.
ReadTail(c) ==
  /\ At(c, "idle", "overcommit") \/ At(c, "tail", "overcommit")
  /\ local' = [local EXCEPT ![c].tail = tailIndex]
  /\ UNCHANGED <<producerVars, counterVars, blockVars>>

ReadOvercommit(c) ==
  /\ At(c, "overcommit", "optimistic")
  /\ local' = [local EXCEPT ![c].overcommit = overcommit]
  /\ UNCHANGED <<producerVars, counterVars, blockVars>>

ReadOptimistic(c) ==
  /\ cpc[c] = "optimistic"
  /\ \/ /\ optimistic - local[c].overcommit < local[c].tail
        /\ At(c, "optimistic", "ticket")
        /\ UNCHANGED local
     \/ optimistic - local[c].overcommit >= local[c].tail /\ Return(c)
  /\ UNCHANGED <<producerVars, counterVars, blockVars>>

\* myDequeueCount = dequeueOptimisticCount.fetch_add(1)
TakeTicket(c) ==
  /\ At(c, "ticket", "recheck")
  /\ optimistic < MaxTickets
  /\ local' = [local EXCEPT ![c].ticket = optimistic]
  /\ optimistic' = optimistic + 1
  /\ UNCHANGED <<producerVars, headIndex, overcommit, blockVars>>

\* Mutant: the tail is not read again.
RecheckMissing(c) ==
  /\ At(c, "recheck", "claim")
  /\ UNCHANGED <<producerVars, counterVars, blockVars, local>>

\* The tail is read again and decides whether the ticket is good.
Recheck(c) ==
  /\ \/ /\ local[c].ticket - local[c].overcommit < tailIndex
        /\ At(c, "recheck", "claim")
     \/ /\ local[c].ticket - local[c].overcommit >= tailIndex
        /\ At(c, "recheck", "giveBack")
  /\ UNCHANGED <<producerVars, counterVars, blockVars, local>>

\* Mutant: a bad ticket is not given back.
GiveBackMissing(c) ==
  /\ cpc[c] = "giveBack"
  /\ Return(c)
  /\ UNCHANGED <<producerVars, counterVars, blockVars>>

\* dequeueOvercommit.fetch_add(1); return false
GiveBack(c) ==
  /\ cpc[c] = "giveBack"
  /\ overcommit' = overcommit + 1
  /\ Return(c)
  /\ UNCHANGED <<producerVars, headIndex, optimistic, blockVars>>

\* Mutant: the ticket serves as the index.
ClaimTicket(c) ==
  /\ At(c, "claim", "header")
  /\ local' = [local EXCEPT ![c] = [Fresh EXCEPT !.index = local[c].ticket]]
  /\ headIndex' = headIndex + 1
  /\ UNCHANGED <<producerVars, optimistic, overcommit, blockVars>>

\* index = headIndex.fetch_add(1).  The counters it read are not used again.
Claim(c) ==
  /\ At(c, "claim", "header")
  /\ local' = [local EXCEPT ![c] = [Fresh EXCEPT !.index = headIndex]]
  /\ headIndex' = headIndex + 1
  /\ UNCHANGED <<producerVars, optimistic, overcommit, blockVars>>

\* get_block_index_index_for_index: the index, its tail, and the key there, each
\* read on its own, give the distance from the tail to the element's block.
ReadHeader(c) ==
  /\ At(c, "header", "slot")
  /\ local' = [local EXCEPT ![c].header = Len(headers)]
  /\ UNCHANGED <<producerVars, counterVars, blockVars>>

ReadSlot(c) ==
  /\ At(c, "slot", "key")
  /\ local' = [local EXCEPT ![c].slot = headers[local[c].header].tail]
  /\ UNCHANGED <<producerVars, counterVars, blockVars>>

ReadKey(c) ==
  /\ At(c, "key", "value")
  /\ LET header == headers[local[c].header]
         tailBase == entries[header.index[local[c].slot]].key
         offset == (Base(local[c].index) - tailBase) \div BlockSize
     IN  local' = [local EXCEPT ![c].entry =
                     header.index[(local[c].slot + offset) % header.capacity]]
  /\ UNCHANGED <<producerVars, counterVars, blockVars>>

\* block = entry->value.load()
ReadValue(c) ==
  /\ At(c, "value", "move")
  /\ local' = [local EXCEPT ![c].block = entries[local[c].entry].value]
  /\ UNCHANGED <<producerVars, counterVars, blockVars>>

\* element = std::move(el); el.~T()
MoveElement(c) ==
  /\ At(c, "move", "setEmpty")
  /\ LET b == local[c].block
         k == local[c].index % BlockSize
     IN  /\ local' = [local EXCEPT ![c].element = elements[b][k]]
         /\ elements' = [elements EXCEPT ![b][k] = Gone]
  /\ UNCHANGED <<producerVars, counterVars, entries, dequeued, free>>

\* set_empty: true for the consumer that empties the block.
SetEmpty(c) ==
  /\ cpc[c] = "setEmpty"
  /\ dequeued' = [dequeued EXCEPT ![local[c].block] = @ + 1]
  /\ \/ /\ dequeued[local[c].block] = BlockSize - 1
        /\ At(c, "setEmpty", "unlink")
        /\ UNCHANGED local
     \/ dequeued[local[c].block] # BlockSize - 1 /\ Return(c)
  /\ UNCHANGED <<producerVars, counterVars, entries, elements, free>>

\* Mutant: the block stays in the index.
UnlinkMissing(c) ==
  /\ At(c, "unlink", "free")
  /\ UNCHANGED <<producerVars, counterVars, blockVars, local>>

\* entry->value.store(nullptr)
Unlink(c) ==
  /\ At(c, "unlink", "free")
  /\ entries' = [entries EXCEPT ![local[c].entry].value = NoBlock]
  /\ UNCHANGED <<producerVars, counterVars, elements, dequeued, free, local>>

\* add_block_to_free_list(block)
FreeBlock(c) ==
  /\ cpc[c] = "free"
  /\ free' = free \cup {local[c].block}
  /\ Return(c)
  /\ UNCHANGED <<producerVars, counterVars, entries, elements, dequeued>>

-----------------------------------------------------------------------------
Producer ==
  \/ InsertKey \/ InsertTail \/ GrowIndex \/ Requisition \/ RewindValue
  \/ StoreValue \/ Publish

Ticket(c) ==
  \/ ReadSizeTail(c) \/ ReadSizeHead(c) \/ ReadTail(c) \/ ReadOvercommit(c)
  \/ ReadOptimistic(c) \/ TakeTicket(c) \/ Recheck(c) \/ GiveBack(c)

Dequeue(c) ==
  \/ Claim(c) \/ ReadHeader(c) \/ ReadSlot(c) \/ ReadKey(c) \/ ReadValue(c)
  \/ MoveElement(c) \/ SetEmpty(c) \/ Unlink(c) \/ FreeBlock(c)

\* Consumers that hold a ticket without having claimed or given back.
Ticketed == {c \in Consumers : cpc[c] \in {"recheck", "claim", "giveBack"}}

\* A consumer is excused once, in the course of its call, every element was
\* claimed or another consumer had a ticket.
Excuse ==
  excused' = [c \in Consumers |->
    /\ cpc'[c] # "idle"
    /\ \/ excused[c]
       \/ headIndex' = tailIndex'
       \/ Ticketed' \ {c} # {}]

Next ==
  /\ Producer \/ \E c \in Consumers : Ticket(c) \/ Dequeue(c)
  /\ Excuse

Spec == Init /\ [][Next]_vars

-----------------------------------------------------------------------------
(* Properties.                                                              *)

Locals == [tail : Nat, overcommit : Nat, ticket : Nat, index : Nat, header : Nat,
           slot : Nat, entry : Nat, block : Blocks \cup {NoBlock},
           element : Nat \cup {Gone}]

TypeOK ==
  /\ tailIndex \in 0..MaxItems
  /\ headIndex \in 0..MaxItems
  /\ optimistic \in 0..MaxTickets
  /\ overcommit \in 0..MaxTickets
  /\ \A h \in 1..Len(headers) :
       /\ headers[h].tail \in 0..(headers[h].capacity - 1)
       /\ headers[h].index \in [0..(headers[h].capacity - 1) -> DOMAIN entries]
  /\ \A e \in DOMAIN entries : entries[e].value \in Blocks \cup {NoBlock}
  /\ elements \in [Blocks -> [0..(BlockSize - 1) -> Nat \cup {Gone}]]
  /\ dequeued \in [Blocks -> 0..BlockSize]
  /\ free \subseteq Blocks
  /\ tailBlock \in Blocks \cup {NoBlock}
  /\ newBlock \in Blocks \cup {NoBlock}
  /\ ppc \in {"idle", "key", "requisition", "rewound", "value", "publish"}
  /\ cpc \in [Consumers -> {"idle", "sizeHead", "tail", "overcommit", "optimistic",
                            "ticket", "recheck", "giveBack", "claim", "header", "slot",
                            "key", "value", "move", "setEmpty", "unlink", "free"}]
  /\ local \in [Consumers -> Locals]
  /\ excused \in [Consumers -> BOOLEAN]

\* Good tickets never outnumber the elements: however stale the counters a
\* consumer read, the element it will claim has been published.
ClaimsCovered ==
  headIndex + Cardinality({c \in Consumers : cpc[c] = "claim"}) <= tailIndex

\* A consumer moves out the element it claimed.  Its look-up in the block index,
\* separate reads while the producer inserts, rewinds and replaces the index,
\* ends at the entry of the element's block (the assertion at the end of
\* get_block_index_index_for_index), and blocks that were emptied, freed and
\* filled again do not mix up elements.
RightElement ==
  \A c \in Consumers :
    /\ cpc[c] = "value" =>
         /\ entries[local[c].entry].key = Base(local[c].index)
         /\ entries[local[c].entry].value # NoBlock
    /\ cpc[c] \in {"setEmpty", "unlink", "free"} => local[c].element = local[c].index

\* A block is in one place: free, with the producer, at one entry of the index
\* or with the consumer that frees it.  So no block is freed twice, handed out
\* while somebody reads it, or lost.
BlockOwned ==
  LET Entries(b) == {e \in DOMAIN entries : entries[e].value = b}
      Freeing(b) == {c \in Consumers : cpc[c] = "free" /\ local[c].block = b}
  IN  /\ \A b \in Blocks :
           Cardinality(Entries(b)) + Cardinality(Freeing(b))
             + (IF b \in free THEN 1 ELSE 0) + (IF b = newBlock THEN 1 ELSE 0) = 1
      /\ \A c \in Consumers :
           cpc[c] \in {"move", "setEmpty", "unlink"} => Entries(local[c].block) # {}

\* The sub-queue implements SubQueue: whatever the interleaving, it is a queue in
\* which publishing the tail is the put, and the claim of an index the take of the
\* oldest element, which is the one that the consumer then returns.
Queued == [n \in 1..(tailIndex - headIndex) |-> headIndex + n - 1]
Held(c) ==
  IF cpc[c] \in {"header", "slot", "key", "value", "move"} THEN local[c].index
  ELSE IF cpc[c] \in {"setEmpty", "unlink", "free"} THEN local[c].element
  ELSE Gone
Fifo == INSTANCE SubQueue WITH Nothing <- Gone, put <- tailIndex, queue <- Queued,
                               holds <- [c \in Consumers |-> Held(c)]
Implements == Fifo!Spec

\* try_dequeue fails only if, at some instant of the call, every element was
\* claimed or another consumer held a ticket: what LogicSystem and CSession
\* rely on (their SeeEmpty).
Fails(c) == cpc[c] \in {"sizeHead", "optimistic", "giveBack"} /\ cpc'[c] = "idle"
FailsExcused == [][\A c \in Consumers : Fails(c) => excused[c]]_vars
=============================================================================

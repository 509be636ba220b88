------------------------------ MODULE FreeList ------------------------------
(***************************************************************************)
(* concurrentqueue.h: FreeList, the lock-free stack of free blocks that    *)
(* all sub-queues share, and that ConcurrentQueue takes as a set.          *)
(*                                                                         *)
(* A node keeps a count of references (one of the list, one of each        *)
(* try_get that looks at it) and the bit SHOULD_BE_ON_FREELIST: a node     *)
(* that is freed while a slow try_get still refers to it is put on the     *)
(* list by whoever drops the last reference.                               *)
(*                                                                         *)
(* One action per access to a shared variable, interleaved as if all of    *)
(* them were sequentially consistent.  The two parts of freeListRefs are   *)
(* the variables refs and should.                                          *)
(***************************************************************************)
EXTENDS Naturals, FiniteSets

CONSTANTS
  Threads,   \* threads that call add and try_get
  Nodes,     \* the blocks
  Null       \* nullptr, no node

ListConstantsOK == IsFiniteSet(Threads) /\ Null \notin Nodes
ASSUME ListAssumption == ListConstantsOK

VARIABLES
  freeListHead,
  freeListNext,   \* of each node
  refs,           \* freeListRefs & REFS_MASK
  should,         \* the nodes whose SHOULD_BE_ON_FREELIST is set
  used,           \* the nodes in use, in no free list
  tpc,            \* where each thread is in add or try_get
  reg             \* its local variables

shared == <<freeListHead, freeListNext, refs, should, used>>
listVars == <<shared, tpc, reg>>

\* head, next and seen belong to try_get, node and expected to the addition.
Unset == [head |-> Null, next |-> Null, seen |-> <<0, FALSE>>, node |-> Null,
          expected |-> Null]

Refs(n) == <<refs[n], n \in should>>

ListInit ==
  /\ freeListHead = Null
  /\ freeListNext = [n \in Nodes |-> Null]
  /\ refs = [n \in Nodes |-> 0]
  /\ should = {}
  /\ used = Nodes
  /\ tpc = [t \in Threads |-> "idle"]
  /\ reg = [t \in Threads |-> Unset]

Jump(t, label) == tpc' = [tpc EXCEPT ![t] = label]

Done(t) == Jump(t, "idle") /\ reg' = [reg EXCEPT ![t] = Unset]

\* The head of try_get's while loop, with the value of head at hand.
Look(t, head) ==
  IF head = Null THEN Done(t)
  ELSE Jump(t, "refs") /\ reg' = [reg EXCEPT ![t] = [Unset EXCEPT !.head = head]]

\* add_knowing_refcount_is_zero returns, to add or into try_get's loop.
Added(t) == Look(t, reg[t].head)

-----------------------------------------------------------------------------
(* Faulty variants of single actions, used by no specification here.        *)

\* add puts the node on the list although others still refer to it.
AddAnyway(t, n) ==
  /\ tpc[t] = "idle"
  /\ n \in used
  /\ used' = used \ {n}
  /\ should' = should \cup {n}
  /\ Jump(t, "expect")
  /\ reg' = [reg EXCEPT ![t].node = n]
  /\ UNCHANGED <<freeListHead, freeListNext, refs>>

\* The last reference is dropped without a look at the bit.
DropForgets(t) ==
  /\ tpc[t] = "drop"
  /\ refs' = [refs EXCEPT ![reg[t].node] = @ - 1]
  /\ Added(t)
  /\ UNCHANGED <<freeListHead, freeListNext, should, used>>

-----------------------------------------------------------------------------
(* add(node), and add_knowing_refcount_is_zero.                             *)

\* freeListRefs.fetch_add(SHOULD_BE_ON_FREELIST) == 0
Add(t, n) ==
  /\ tpc[t] = "idle"
  /\ n \in used
  /\ used' = used \ {n}
  /\ should' = should \cup {n}
  /\ \/ refs[n] = 0 /\ Jump(t, "expect") /\ reg' = [reg EXCEPT ![t].node = n]
     \/ refs[n] # 0 /\ UNCHANGED <<tpc, reg>>
  /\ UNCHANGED <<freeListHead, freeListNext, refs>>

Expect(t) ==
  /\ tpc[t] = "expect"
  /\ reg' = [reg EXCEPT ![t].expected = freeListHead]
  /\ Jump(t, "setNext")
  /\ UNCHANGED shared

SetNext(t) ==
  /\ tpc[t] = "setNext"
  /\ freeListNext' = [freeListNext EXCEPT ![reg[t].node] = reg[t].expected]
  /\ Jump(t, "setRefs")
  /\ UNCHANGED <<freeListHead, refs, should, used, reg>>

\* freeListRefs.store(1): the list's reference, and the bit is cleared.
SetRefs(t) ==
  /\ tpc[t] = "setRefs"
  /\ refs' = [refs EXCEPT ![reg[t].node] = 1]
  /\ should' = should \ {reg[t].node}
  /\ Jump(t, "push")
  /\ UNCHANGED <<freeListHead, freeListNext, used, reg>>

\* The compare-exchange; when it fails, expected becomes the head it found.
Push(t) ==
  /\ tpc[t] = "push"
  /\ \/ /\ freeListHead = reg[t].expected
        /\ freeListHead' = reg[t].node
        /\ Added(t)
     \/ /\ freeListHead # reg[t].expected
        /\ reg' = [reg EXCEPT ![t].expected = freeListHead]
        /\ Jump(t, "pushFailed")
        /\ UNCHANGED freeListHead
  /\ UNCHANGED <<freeListNext, refs, should, used>>

\* freeListRefs.fetch_add(SHOULD_BE_ON_FREELIST - 1) == 1: try again, or leave
\* the addition to the thread that drops the last reference.
PushFailed(t) ==
  LET n == reg[t].node IN
  /\ tpc[t] = "pushFailed"
  /\ refs' = [refs EXCEPT ![n] = @ - 1]
  /\ should' = should \cup {n}
  /\ \/ refs[n] = 1 /\ Jump(t, "setNext") /\ UNCHANGED reg
     \/ refs[n] # 1 /\ Added(t)
  /\ UNCHANGED <<freeListHead, freeListNext, used>>

-----------------------------------------------------------------------------
(* try_get().                                                               *)

LoadHead(t) ==
  /\ tpc[t] \in {"idle", "again"}
  /\ Look(t, freeListHead)
  /\ UNCHANGED shared

LoadRefs(t) ==
  /\ tpc[t] = "refs"
  /\ LET n == reg[t].head IN
       \/ refs[n] = 0 /\ Jump(t, "again") /\ UNCHANGED reg
       \/ refs[n] # 0 /\ Jump(t, "ref") /\ reg' = [reg EXCEPT ![t].seen = Refs(n)]
  /\ UNCHANGED shared

\* freeListRefs.compare_exchange_strong(refs, refs + 1)
TakeRef(t) ==
  LET n == reg[t].head IN
  /\ tpc[t] = "ref"
  /\ \/ /\ Refs(n) = reg[t].seen
        /\ refs' = [refs EXCEPT ![n] = @ + 1]
        /\ Jump(t, "next")
     \/ /\ Refs(n) # reg[t].seen
        /\ Jump(t, "again")
        /\ UNCHANGED refs
  /\ UNCHANGED <<freeListHead, freeListNext, should, used, reg>>

LoadNext(t) ==
  /\ tpc[t] = "next"
  /\ reg' = [reg EXCEPT ![t].next = freeListNext[reg[t].head], ![t].seen = Unset.seen]
  /\ Jump(t, "pop")
  /\ UNCHANGED shared

\* freeListHead.compare_exchange_strong(head, next); when it fails, prevHead is
\* the node referred to and head the one that was found.
Pop(t) ==
  /\ tpc[t] = "pop"
  /\ \/ /\ freeListHead = reg[t].head
        /\ freeListHead' = reg[t].next
        /\ Jump(t, "got")
        /\ UNCHANGED reg
     \/ /\ freeListHead # reg[t].head
        /\ reg' = [reg EXCEPT ![t] = [Unset EXCEPT !.head = freeListHead,
                                                   !.node = reg[t].head]]
        /\ Jump(t, "drop")
        /\ UNCHANGED freeListHead
  /\ UNCHANGED <<freeListNext, refs, should, used>>

\* freeListRefs.fetch_sub(2); return head
Got(t) ==
  LET n == reg[t].head IN
  /\ tpc[t] = "got"
  /\ refs' = [refs EXCEPT ![n] = @ - 2]
  /\ used' = used \cup {n}
  /\ Done(t)
  /\ UNCHANGED <<freeListHead, freeListNext, should>>

\* freeListRefs.fetch_sub(1) == SHOULD_BE_ON_FREELIST + 1
Drop(t) ==
  LET n == reg[t].node IN
  /\ tpc[t] = "drop"
  /\ refs' = [refs EXCEPT ![n] = @ - 1]
  /\ \/ Refs(n) = <<1, TRUE>> /\ Jump(t, "expect") /\ UNCHANGED reg
     \/ Refs(n) # <<1, TRUE>> /\ Added(t)
  /\ UNCHANGED <<freeListHead, freeListNext, should, used>>

-----------------------------------------------------------------------------
AddKnowing(t) == Expect(t) \/ SetNext(t) \/ SetRefs(t) \/ Push(t) \/ PushFailed(t)
TryGet(t) ==
  LoadHead(t) \/ LoadRefs(t) \/ TakeRef(t) \/ LoadNext(t) \/ Pop(t) \/ Got(t) \/ Drop(t)

ListNext ==
  \E t \in Threads : (\E n \in Nodes : Add(t, n)) \/ AddKnowing(t) \/ TryGet(t)

ListSpec == ListInit /\ [][ListNext]_listVars

-----------------------------------------------------------------------------
(* Properties.                                                              *)

Labels == {"idle", "again", "refs", "ref", "next", "pop", "got", "drop", "expect",
           "setNext", "setRefs", "push", "pushFailed"}

ListTypeOK ==
  /\ freeListHead \in Nodes \cup {Null}
  /\ freeListNext \in [Nodes -> Nodes \cup {Null}]
  /\ refs \in [Nodes -> 0..(Cardinality(Threads) + 1)]
  /\ should \subseteq Nodes
  /\ used \subseteq Nodes
  /\ tpc \in [Threads -> Labels]
  /\ reg \in [Threads ->
       [head : Nodes \cup {Null}, next : Nodes \cup {Null},
        seen : (0..(Cardinality(Threads) + 1)) \X BOOLEAN,
        node : Nodes \cup {Null}, expected : Nodes \cup {Null}]]

\* A set that holds the head, and with a node the next one.
Closed(S) ==
  /\ freeListHead # Null => freeListHead \in S
  /\ \A n \in S : freeListNext[n] # Null => freeListNext[n] \in S

\* The nodes that can be reached from freeListHead.
Listed == {n \in Nodes : \A S \in SUBSET Nodes : Closed(S) => n \in S}

Adding(t) == tpc[t] \in {"expect", "setNext", "setRefs", "push", "pushFailed"}

\* A node is with its user, on the list, with the one thread that adds it, with
\* the one that just took it off, or marked for whoever drops its last
\* reference: it is never handed out twice and never on the list twice.
OnePlace ==
  \A n \in Nodes :
    LET adders == {t \in Threads : Adding(t) /\ reg[t].node = n}
        takers == {t \in Threads : tpc[t] = "got" /\ reg[t].head = n}
        B(p) == IF p THEN 1 ELSE 0
    IN  B(n \in used) + B(n \in Listed) + Cardinality(adders) + Cardinality(takers)
          + B(adders = {} /\ n \in should) = 1

\* No block is lost: once every add and try_get has returned, the nodes that
\* are not in use are all on the list, however they got there.
NoneLost == (\A t \in Threads : tpc[t] = "idle") => Listed = Nodes \ used
=============================================================================

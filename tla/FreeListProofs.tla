----------------------------- MODULE FreeListProofs -----------------------------
(***************************************************************************)
(* Proofs about FreeList, for any number of threads and of nodes.          *)
(*                                                                         *)
(* NodeInv says of each node who has it and what its references stand for: *)
(* one for the list, a push or a pop that has just succeeded, and one for  *)
(* each try_get that looks at the node.  So the thread that finds a count  *)
(* of zero, or leaves one, is alone with the node, and no compare-exchange *)
(* of the head can succeed with a stale next node: as long as somebody     *)
(* refers to the node, nobody sets its next node.  Shape says that the     *)
(* list has neither a cycle nor a fork.                                    *)
(***************************************************************************)
EXTENDS FreeList, TLAPS, FiniteSetTheorems

\* The threads that have a node, by what they are doing with it.
Preparing(n) ==
  {t \in Threads : tpc[t] \in {"expect", "setNext", "setRefs"} /\ reg[t].node = n}
Pushing(n) == {t \in Threads : tpc[t] \in {"push", "pushFailed"} /\ reg[t].node = n}
Taking(n) == {t \in Threads : tpc[t] = "got" /\ reg[t].head = n}
Owners(n) == Preparing(n) \cup Pushing(n) \cup Taking(n)

\* The threads whose try_get refers to a node.
Holders(n) ==
  {t \in Threads : \/ tpc[t] \in {"next", "pop", "got"} /\ reg[t].head = n
                   \/ tpc[t] = "drop" /\ reg[t].node = n}

\* The list's reference is counted.
Counted(n) == n \in Listed \/ Pushing(n) # {} \/ Taking(n) # {}

NodeInv(n) ==
  /\ \A t, u \in Owners(n) : t = u
  /\ Owners(n) # {} => n \notin used /\ n \notin Listed
  /\ n \in used => n \notin Listed
  /\ n \in should => n \notin used /\ ~Counted(n)
  /\ Preparing(n) # {} => n \in should /\ refs[n] = 0
  /\ n \in should /\ Preparing(n) = {} => refs[n] # 0
  /\ n \in used \/ n \in should \/ Counted(n)
  /\ refs[n] = (IF Counted(n) THEN 1 ELSE 0) + Cardinality(Holders(n))

\* What a thread may rely on.
ThreadOK(t) ==
  /\ tpc[t] \in {"refs", "ref", "next", "pop", "got"} => reg[t].head \in Nodes
  /\ Adding(t) \/ tpc[t] = "drop" => reg[t].node \in Nodes
  /\ tpc[t] = "ref" => reg[t].seen[1] # 0
  /\ tpc[t] \in {"setRefs", "push"} => freeListNext[reg[t].node] = reg[t].expected
  /\ tpc[t] = "pop" => freeListNext[reg[t].head] = reg[t].next

Shape ==
  /\ \A m \in Listed : freeListNext[m] # freeListHead
  /\ \A m, k \in Listed :
       freeListNext[m] = freeListNext[k] /\ freeListNext[m] # Null => m = k

\* The types, without the bound of the counts.
Regs == [head : Nodes \cup {Null}, next : Nodes \cup {Null}, seen : Nat \X BOOLEAN,
         node : Nodes \cup {Null}, expected : Nodes \cup {Null}]

ListTyped ==
  /\ freeListHead \in Nodes \cup {Null}
  /\ freeListNext \in [Nodes -> Nodes \cup {Null}]
  /\ refs \in [Nodes -> Nat]
  /\ should \subseteq Nodes
  /\ used \subseteq Nodes
  /\ tpc \in [Threads -> Labels]
  /\ reg \in [Threads -> Regs]

IInv ==
  /\ ListConstantsOK
  /\ ListTyped
  /\ \A t \in Threads : ThreadOK(t)
  /\ Shape
  /\ \A n \in Nodes : NodeInv(n)

-----------------------------------------------------------------------------
(* The list.                                                                *)

\* The list is the least closed set of nodes, before and after a step.
LEMMA ListedClosed ==
  /\ ListTyped => Listed \subseteq Nodes /\ Closed(Listed)
  /\ ListTyped' => Listed' \subseteq Nodes /\ Closed(Listed)'
BY DEF Listed, Closed, ListTyped

LEMMA ListedLeast ==
  ASSUME NEW S \in SUBSET Nodes
  PROVE  (Closed(S) => Listed \subseteq S) /\ (Closed(S)' => Listed' \subseteq S)
BY DEF Listed

\* Nothing but the head and the next nodes of the listed nodes matters.
LEMMA ListedSame ==
  ASSUME ListTyped, ListTyped', freeListHead' = freeListHead,
         \A m \in Listed : freeListNext'[m] = freeListNext[m]
  PROVE  Listed' = Listed
<1>1. PICK before \in SUBSET Nodes : before = Listed
  BY ListedClosed
<1>2. PICK after \in SUBSET Nodes : after = Listed'
  BY ListedClosed
<1>3. Closed(before) /\ Closed(after)'
  BY <1>1, <1>2, ListedClosed DEF Closed
<1>4. Closed(before)'
  BY <1>1, <1>3 DEF Closed
<1>5. after \subseteq before
  BY <1>2, <1>4, ListedLeast
<1>6. Closed(after)
  BY <1>1, <1>3, <1>5 DEF Closed
<1> QED
  BY <1>1, <1>2, <1>5, <1>6, ListedLeast

\* A push adds one node, and keeps the list in shape.
LEMMA ListedPush ==
  ASSUME ListConstantsOK, ListTyped, ListTyped', Shape, NEW n \in Nodes, n \notin Listed,
         freeListNext[n] = freeListHead, freeListHead' = n, UNCHANGED freeListNext
  PROVE  Listed' = Listed \cup {n} /\ Shape'
<1>1. PICK before \in SUBSET Nodes : before = Listed
  BY ListedClosed
<1>2. PICK after \in SUBSET Nodes : after = Listed'
  BY ListedClosed
<1>3. Closed(before) /\ Closed(after)'
  BY <1>1, <1>2, ListedClosed DEF Closed
<1>4. n # Null
  BY DEF ListConstantsOK
<1>5. Closed(before \cup {n})'
  BY <1>3 DEF Closed
<1>6. after \subseteq before \cup {n}
  BY <1>2, <1>5, ListedLeast
<1>7. n \in after /\ Closed(after)
  BY <1>3, <1>4 DEF Closed
<1>8. before \subseteq after
  BY <1>1, <1>7, ListedLeast
<1>9. Listed' = Listed \cup {n}
  BY <1>1, <1>2, <1>6, <1>7, <1>8
<1>10. \A m \in before : freeListNext[m] # n
  BY <1>1, <1>3, <1>4 DEF Closed
<1>11. n # freeListHead
  BY <1>1, <1>3, <1>4 DEF Closed
<1> QED
  BY <1>1, <1>9, <1>10, <1>11 DEF Shape

\* A pop removes the head, and keeps the list in shape.
LEMMA ListedPop ==
  ASSUME ListConstantsOK, ListTyped, ListTyped', Shape, NEW n \in Nodes,
         freeListHead = n, freeListHead' = freeListNext[n], UNCHANGED freeListNext
  PROVE  n \in Listed /\ Listed' = Listed \ {n} /\ Shape'
<1>1. PICK before \in SUBSET Nodes : before = Listed
  BY ListedClosed
<1>2. PICK after \in SUBSET Nodes : after = Listed'
  BY ListedClosed
<1>3. Closed(before) /\ Closed(after)'
  BY <1>1, <1>2, ListedClosed DEF Closed
<1>4. n # Null /\ n \in before
  BY <1>3 DEF ListConstantsOK, Closed
<1>5. \A m \in before : freeListNext[m] # n
  BY <1>1 DEF Shape
<1>6. Closed(before \ {n})'
  BY <1>3, <1>4, <1>5 DEF Closed
<1>7. after \subseteq before \ {n}
  BY <1>2, <1>6, ListedLeast
<1>8. Closed(after \cup {n})
  BY <1>3 DEF Closed
<1>9. before \subseteq after \cup {n}
  BY <1>1, <1>8, ListedLeast
<1>10. Listed' = Listed \ {n}
  BY <1>1, <1>2, <1>7, <1>9
<1>11. ASSUME NEW m \in Listed' PROVE freeListNext'[m] # freeListHead'
  <2>1. m \in Listed /\ m # n /\ n \in Listed
    BY <1>1, <1>4, <1>10, <1>11
  <2>2. CASE freeListNext[n] = Null
    <3>1. Closed({})'
      BY <2>2 DEF Closed
    <3>2. Listed' = {}
      BY <3>1, ListedLeast
    <3> QED
      BY <1>11, <3>2
  <2>3. CASE freeListNext[n] # Null
    BY <2>1, <2>3 DEF Shape
  <2> QED
    BY <2>2, <2>3
<1> QED
  BY <1>1, <1>4, <1>10, <1>11 DEF Shape

-----------------------------------------------------------------------------
(* The references.                                                          *)

\* The holders of a node can be counted.
LEMMA HoldersFinite ==
  ASSUME ListConstantsOK, NEW n
  PROVE  /\ IsFiniteSet(Holders(n)) /\ Cardinality(Holders(n)) \in Nat
         /\ IsFiniteSet(Holders(n))' /\ Cardinality(Holders(n))' \in Nat
<1>1. Holders(n) \in SUBSET Threads /\ Holders(n)' \in SUBSET Threads
  BY DEF Holders
<1>2. \A S \in SUBSET Threads : IsFiniteSet(S) /\ Cardinality(S) \in Nat
  BY FS_Subset, FS_CardinalityType DEF ListConstantsOK
<1> QED
  BY <1>1, <1>2

\* Somebody who refers to a node is counted in its references.
LEMMA HolderCounted ==
  ASSUME ListConstantsOK, NEW n \in Nodes, NodeInv(n), NEW t \in Holders(n)
  PROVE  /\ refs[n] \in Nat /\ refs[n] >= (IF Counted(n) THEN 2 ELSE 1)
         /\ Preparing(n) = {}
<1>1. IsFiniteSet(Holders(n)) /\ Cardinality(Holders(n)) \in Nat
  BY HoldersFinite
<1>2. /\ Cardinality(Holders(n) \ {t}) = Cardinality(Holders(n)) - 1
      /\ Cardinality(Holders(n) \ {t}) \in Nat
  <2>1. IsFiniteSet(Holders(n) \ {t})
    BY <1>1, FS_RemoveElement
  <2> QED
    BY <1>1, <2>1, FS_RemoveElement, FS_CardinalityType
<1>3. refs[n] = (IF Counted(n) THEN 1 ELSE 0) + Cardinality(Holders(n))
  BY DEF NodeInv
<1>4. refs[n] \in Nat /\ refs[n] >= (IF Counted(n) THEN 2 ELSE 1)
  BY <1>1, <1>2, <1>3
<1>5. Preparing(n) # {} => refs[n] = 0
  BY DEF NodeInv
<1> QED
  BY <1>4, <1>5

\* A node with a count of zero has no holders.
LEMMA ZeroAlone ==
  ASSUME ListConstantsOK, NEW n \in Nodes, NodeInv(n), refs[n] = 0
  PROVE  ~Counted(n) /\ Holders(n) = {}
<1>1. IsFiniteSet(Holders(n)) /\ Cardinality(Holders(n)) \in Nat
  BY HoldersFinite
<1>2. refs[n] = (IF Counted(n) THEN 1 ELSE 0) + Cardinality(Holders(n))
  BY DEF NodeInv
<1>3. ~Counted(n) /\ Cardinality(Holders(n)) = 0
  BY <1>1, <1>2
<1> QED
  BY <1>1, <1>3, FS_EmptySet

-----------------------------------------------------------------------------
(* Types.                                                                   *)

\* t moves, the other threads stay where they are.
Moves(t) == \A u \in Threads \ {t} : tpc'[u] = tpc[u] /\ reg'[u] = reg[u]

\* What try_get's loop head, Look, makes of t.
Looked(t) ==
  /\ tpc' \in [Threads -> Labels] /\ reg' \in [Threads -> Regs] /\ Moves(t)
  /\ tpc'[t] \in {"idle", "refs"}
  /\ tpc'[t] = "refs" => reg'[t].head \in Nodes

LEMMA LookTyped ==
  ASSUME ListTyped, NEW t \in Threads, NEW h \in Nodes \cup {Null}, Look(t, h)
  PROVE  Looked(t)
<1>1. Unset \in Regs /\ [Unset EXCEPT !.head = h] \in Regs
  BY DEF Unset, Regs
<1>2. [Unset EXCEPT !.head = h].head = h
  BY DEF Unset
<1>3. PICK l \in {"idle", "refs"}, r \in Regs :
        /\ tpc' = [tpc EXCEPT ![t] = l] /\ reg' = [reg EXCEPT ![t] = r]
        /\ l = "refs" => r.head \in Nodes
  <2>1. CASE h = Null
    BY <1>1, <2>1 DEF Look, Done, Jump
  <2>2. CASE h # Null
    BY <1>1, <1>2, <2>2 DEF Look, Jump
  <2> QED
    BY <2>1, <2>2
<1>4. l \in Labels
  BY DEF Labels
<1> HIDE DEF Labels, Regs
<1> QED
  BY <1>3, <1>4 DEF Looked, Moves, ListTyped

\* A register keeps its type when one of its fields is set.
LEMMA RegSet ==
  ASSUME NEW r \in Regs, NEW n \in Nodes \cup {Null}
  PROVE  /\ [r EXCEPT !.node = n] \in Regs
         /\ [r EXCEPT !.expected = n] \in Regs
         /\ \A s \in Nat \X BOOLEAN : /\ [r EXCEPT !.seen = s] \in Regs
                                      /\ [r EXCEPT !.next = n, !.seen = s] \in Regs
BY DEF Regs

LEMMA ListTypedInit == ListInit => ListTyped
<1>1. Unset \in Regs
  BY DEF Unset, Regs
<1> QED
  BY <1>1 DEF ListInit, ListTyped, Labels

LEMMA ListTypedStep == IInv /\ [ListNext]_listVars => ListTyped'
<1> SUFFICES ASSUME IInv, [ListNext]_listVars PROVE ListTyped'
  OBVIOUS
<1> USE DEF shared
<1>0. ListTyped /\ ListConstantsOK
  BY DEF IInv
<1>a. \A t \in Threads : reg[t].head \in Nodes \cup {Null}
  BY <1>0 DEF ListTyped, Regs
<1>1. ASSUME NEW t \in Threads, NEW n \in Nodes, Add(t, n) PROVE ListTyped'
  <2>1. [reg[t] EXCEPT !.node = n] \in Regs
    BY <1>0, RegSet DEF ListTyped
  <2> QED
    BY <1>0, <1>1, <2>1 DEF Add, Jump, ListTyped, Labels
<1>2. ASSUME NEW t \in Threads, Expect(t) PROVE ListTyped'
  <2>1. [reg[t] EXCEPT !.expected = freeListHead] \in Regs
    BY <1>0, RegSet DEF ListTyped
  <2> QED
    BY <1>0, <1>2, <2>1 DEF Expect, Jump, ListTyped, Labels
<1>3. ASSUME NEW t \in Threads, SetNext(t) PROVE ListTyped'
  <2>1. reg[t].expected \in Nodes \cup {Null}
    BY <1>0 DEF ListTyped, Regs
  <2> QED
    BY <1>0, <1>3, <2>1 DEF SetNext, Jump, ListTyped, Labels
<1>4. ASSUME NEW t \in Threads, SetRefs(t) PROVE ListTyped'
  BY <1>0, <1>4 DEF SetRefs, Jump, ListTyped, Labels
<1>5. ASSUME NEW t \in Threads, Push(t) PROVE ListTyped'
  <2>1. reg[t].node \in Nodes
    BY <1>5 DEF Push, IInv, ThreadOK, Adding
  <2>2. CASE Added(t)
    <3>1. Looked(t)
      BY <1>0, <1>a, <2>2, LookTyped DEF Added
    <3> QED
      BY <1>0, <1>5, <2>1, <3>1 DEF Push, Looked, ListTyped
  <2>3. CASE ~Added(t)
    <3>1. [reg[t] EXCEPT !.expected = freeListHead] \in Regs
      BY <1>0, RegSet DEF ListTyped
    <3> QED
      BY <1>0, <1>5, <2>3, <3>1 DEF Push, Jump, ListTyped, Labels
  <2> QED
    BY <2>2, <2>3
<1>6. ASSUME NEW t \in Threads, PushFailed(t) PROVE ListTyped'
  <2>1. reg[t].node \in Nodes
    BY <1>6 DEF PushFailed, IInv, ThreadOK, Adding
  <2>2. PICK n \in Nodes : n = reg[t].node
    BY <2>1
  <2>3. refs[n] - 1 \in Nat
    <3>1. NodeInv(n) /\ Counted(n)
      BY <1>6, <2>2 DEF IInv, PushFailed, Counted, Pushing
    <3>2. refs[n] = 1 + Cardinality(Holders(n)) /\ Cardinality(Holders(n)) \in Nat
      BY <1>0, <3>1, HoldersFinite DEF NodeInv
    <3> QED
      BY <3>2
  <2>4. /\ refs' = [refs EXCEPT ![n] = refs[n] - 1] /\ should' = should \cup {n}
        /\ UNCHANGED <<freeListHead, freeListNext, used>>
    BY <1>6, <2>2 DEF PushFailed
  <2>5. refs' \in [Nodes -> Nat]
    BY <1>0, <2>3, <2>4 DEF ListTyped
  <2>6. CASE Added(t)
    <3>1. Looked(t)
      BY <1>0, <1>a, <2>6, LookTyped DEF Added
    <3> QED
      BY <1>0, <2>4, <2>5, <3>1 DEF Looked, ListTyped
  <2>7. CASE Jump(t, "setNext") /\ UNCHANGED reg
    BY <1>0, <2>4, <2>5, <2>7 DEF Jump, ListTyped, Labels
  <2> QED
    BY <1>6, <2>6, <2>7 DEF PushFailed
<1>7. ASSUME NEW t \in Threads, LoadHead(t) PROVE ListTyped'
  <2>1. Looked(t)
    BY <1>0, <1>7, LookTyped DEF LoadHead, ListTyped
  <2> QED
    BY <1>0, <1>7, <2>1 DEF LoadHead, Looked, ListTyped
<1>8. ASSUME NEW t \in Threads, LoadRefs(t) PROVE ListTyped'
  <2>1. reg[t].head \in Nodes
    BY <1>8 DEF LoadRefs, IInv, ThreadOK
  <2>2. Refs(reg[t].head) \in Nat \X BOOLEAN
    <3>1. (reg[t].head \in should) \in BOOLEAN
      OBVIOUS
    <3>2. refs[reg[t].head] \in Nat
      BY <1>0, <2>1 DEF ListTyped
    <3> QED
      BY <3>1, <3>2, Zenon DEF Refs
  <2>3. [reg[t] EXCEPT !.seen = Refs(reg[t].head)] \in Regs
    BY <1>0, <2>2, RegSet DEF ListTyped
  <2> QED
    BY <1>0, <1>8, <2>3 DEF LoadRefs, Jump, ListTyped, Labels
<1>9. ASSUME NEW t \in Threads, TakeRef(t) PROVE ListTyped'
  BY <1>0, <1>9 DEF TakeRef, Jump, ListTyped, Labels
<1>10. ASSUME NEW t \in Threads, LoadNext(t) PROVE ListTyped'
  <2>1. reg[t].head \in Nodes
    BY <1>10 DEF LoadNext, IInv, ThreadOK
  <2>2. Unset.seen \in Nat \X BOOLEAN
    BY DEF Unset
  <2>3. [reg[t] EXCEPT !.next = freeListNext[reg[t].head], !.seen = Unset.seen] \in Regs
    BY <1>0, <2>1, <2>2, RegSet DEF ListTyped
  <2> QED
    BY <1>0, <1>10, <2>3 DEF LoadNext, Jump, ListTyped, Labels
<1>11. ASSUME NEW t \in Threads, Pop(t) PROVE ListTyped'
  <2>1. reg[t].next \in Nodes \cup {Null}
    BY <1>0 DEF ListTyped, Regs
  <2>2. [Unset EXCEPT !.head = freeListHead, !.node = reg[t].head] \in Regs
    BY <1>0, <1>a DEF Unset, Regs, ListTyped
  <2> QED
    BY <1>0, <1>11, <2>1, <2>2 DEF Pop, Jump, ListTyped, Labels
<1>12. ASSUME NEW t \in Threads, Got(t) PROVE ListTyped'
  <2>1. PICK n \in Nodes : n = reg[t].head
    BY <1>12 DEF Got, IInv, ThreadOK
  <2>2. refs[n] - 2 \in Nat
    <3>1. NodeInv(n) /\ Counted(n) /\ t \in Holders(n)
      BY <1>12, <2>1 DEF IInv, Got, Counted, Taking, Holders
    <3> QED
      BY <1>0, <3>1, HolderCounted
  <2>3. Unset \in Regs
    BY DEF Unset, Regs
  <2> QED
    BY <1>0, <1>12, <2>1, <2>2, <2>3 DEF Got, Done, Jump, ListTyped, Labels
<1>13. ASSUME NEW t \in Threads, Drop(t) PROVE ListTyped'
  <2>1. PICK n \in Nodes : n = reg[t].node
    BY <1>13 DEF Drop, IInv, ThreadOK
  <2>2. refs[n] - 1 \in Nat
    <3>1. NodeInv(n) /\ t \in Holders(n)
      BY <1>13, <2>1 DEF IInv, Drop, Holders
    <3> QED
      BY <1>0, <3>1, HolderCounted
  <2>3. /\ refs' = [refs EXCEPT ![n] = refs[n] - 1]
        /\ UNCHANGED <<freeListHead, freeListNext, should, used>>
    BY <1>13, <2>1 DEF Drop
  <2>4. refs' \in [Nodes -> Nat]
    BY <1>0, <2>2, <2>3 DEF ListTyped
  <2>5. CASE Added(t)
    <3>1. Looked(t)
      BY <1>0, <1>a, <2>5, LookTyped DEF Added
    <3> QED
      BY <1>0, <2>3, <2>4, <3>1 DEF Looked, ListTyped
  <2>6. CASE Jump(t, "expect") /\ UNCHANGED reg
    BY <1>0, <2>3, <2>4, <2>6 DEF Jump, ListTyped, Labels
  <2> QED
    BY <1>13, <2>5, <2>6 DEF Drop
<1>14. CASE UNCHANGED listVars
  BY <1>0, <1>14 DEF listVars, ListTyped
<1> QED
  BY <1>1, <1>2, <1>3, <1>4, <1>5, <1>6, <1>7, <1>8, <1>9, <1>10, <1>11, <1>12, <1>13,
     <1>14
  DEF ListNext, AddKnowing, TryGet

-----------------------------------------------------------------------------
(* What a step of t leaves alone.                                           *)

\* The other threads keep what they have and what they refer to.
LEMMA OthersKeep ==
  ASSUME NEW t \in Threads, Moves(t), NEW n
  PROVE  /\ Preparing(n)' \ {t} = Preparing(n) \ {t}
         /\ Pushing(n)' \ {t} = Pushing(n) \ {t}
         /\ Taking(n)' \ {t} = Taking(n) \ {t}
         /\ Holders(n)' \ {t} = Holders(n) \ {t}
<1> USE DEF Moves
<1>1. Preparing(n)' \ {t} = Preparing(n) \ {t}
  BY DEF Preparing
<1>2. Pushing(n)' \ {t} = Pushing(n) \ {t}
  BY DEF Pushing
<1>3. Taking(n)' \ {t} = Taking(n) \ {t}
  BY DEF Taking
<1>4. Holders(n)' \ {t} = Holders(n) \ {t}
  BY DEF Holders
<1> QED
  BY <1>1, <1>2, <1>3, <1>4

\* And they go on relying on what they know, unless a next node is set.
LEMMA OthersRely ==
  ASSUME NEW t \in Threads, Moves(t), UNCHANGED freeListNext,
         \A u \in Threads : ThreadOK(u), ThreadOK(t)'
  PROVE  \A u \in Threads : ThreadOK(u)'
BY DEF Moves, ThreadOK, Adding

\* t is to n what it was.
Same(t, n) ==
  /\ t \in Preparing(n)' <=> t \in Preparing(n)
  /\ t \in Pushing(n)' <=> t \in Pushing(n)
  /\ t \in Taking(n)' <=> t \in Taking(n)
  /\ t \in Holders(n)' <=> t \in Holders(n)

LEMMA SetsSame ==
  ASSUME NEW t \in Threads, Moves(t), NEW n, Same(t, n)
  PROVE  /\ Preparing(n)' = Preparing(n) /\ Pushing(n)' = Pushing(n)
         /\ Taking(n)' = Taking(n) /\ Holders(n)' = Holders(n)
BY OthersKeep DEF Same

\* A node that the step is not about.
LEMMA NodeSame ==
  ASSUME NEW t \in Threads, Moves(t), NEW n \in Nodes, NodeInv(n), Same(t, n),
         refs'[n] = refs[n], n \in should' <=> n \in should, n \in used' <=> n \in used,
         n \in Listed' <=> n \in Listed
  PROVE  NodeInv(n)'
<1>1. /\ Preparing(n)' = Preparing(n) /\ Pushing(n)' = Pushing(n)
      /\ Taking(n)' = Taking(n) /\ Holders(n)' = Holders(n)
  BY SetsSame
<1>2. Owners(n)' = Owners(n) /\ (Counted(n)' <=> Counted(n))
  BY <1>1 DEF Owners, Counted
<1> QED
  BY <1>1, <1>2 DEF NodeInv

\* The list stays when neither its head nor a next node is set.
LEMMA ListStays ==
  ASSUME UNCHANGED <<freeListHead, freeListNext>>
  PROVE  Listed' = Listed /\ (Shape => Shape')
BY DEF Listed, Closed, Shape

\* An owner has the node for itself.
LEMMA OwnerAlone ==
  ASSUME NEW n \in Nodes, NodeInv(n), NEW t \in Owners(n)
  PROVE  Owners(n) = {t} /\ n \notin used /\ n \notin Listed
BY DEF NodeInv

-----------------------------------------------------------------------------
(* The steps of try_get that change no node and no list.                    *)

\* Everything holds after a step that changes no node.
LEMMA QuietStep ==
  ASSUME IInv, ListTyped', NEW t \in Threads, Moves(t), ThreadOK(t)',
         UNCHANGED shared, \A n \in Nodes : Same(t, n)
  PROVE  IInv'
<1> USE DEF shared
<1>1. Listed' = Listed /\ Shape'
  BY ListStays DEF IInv
<1>2. \A u \in Threads : ThreadOK(u)'
  BY OthersRely DEF IInv
<1>3. \A n \in Nodes : NodeInv(n)'
  BY <1>1, NodeSame DEF IInv
<1> QED
  BY <1>1, <1>2, <1>3 DEF IInv, ListConstantsOK

LEMMA QuietSteps ==
  ASSUME IInv, ListTyped', NEW t \in Threads,
         Expect(t) \/ LoadHead(t) \/ LoadRefs(t) \/ LoadNext(t)
  PROVE  IInv'
<1> USE DEF IInv, Preparing, Pushing, Taking, Holders
<1>0. ListTyped
  OBVIOUS
<1>1. CASE Expect(t)
  <2>1. /\ tpc[t] = "expect" /\ tpc'[t] = "setNext" /\ Moves(t)
        /\ reg'[t].node = reg[t].node /\ UNCHANGED shared
    BY <1>1 DEF Expect, Jump, Moves, ListTyped, Regs
  <2>2. ThreadOK(t)'
    BY <2>1 DEF ThreadOK, Adding
  <2>3. \A n \in Nodes : Same(t, n)
    BY <2>1 DEF Same
  <2> QED
    BY <2>1, <2>2, <2>3, QuietStep
<1>2. CASE LoadHead(t)
  <2>1. Looked(t) /\ tpc[t] \in {"idle", "again"} /\ UNCHANGED shared
    BY <1>0, <1>2, LookTyped DEF LoadHead, ListTyped
  <2>2. ThreadOK(t)' /\ Moves(t)
    BY <2>1 DEF Looked, ThreadOK, Adding
  <2>3. \A n \in Nodes : Same(t, n)
    BY <2>1 DEF Same, Looked
  <2> QED
    BY <2>1, <2>2, <2>3, QuietStep
<1>3. CASE LoadRefs(t)
  <2>1. /\ tpc[t] = "refs" /\ tpc'[t] \in {"again", "ref"} /\ Moves(t)
        /\ reg'[t].head = reg[t].head /\ UNCHANGED shared
        /\ tpc'[t] = "ref" => refs[reg[t].head] # 0 /\ reg'[t].seen = Refs(reg[t].head)
    BY <1>3 DEF LoadRefs, Jump, Moves, ListTyped, Regs
  <2>2. ThreadOK(t)'
    BY <2>1 DEF ThreadOK, Adding, Refs
  <2>3. \A n \in Nodes : Same(t, n)
    BY <2>1 DEF Same
  <2> QED
    BY <2>1, <2>2, <2>3, QuietStep
<1>4. CASE LoadNext(t)
  <2>1. /\ tpc[t] = "next" /\ tpc'[t] = "pop" /\ Moves(t)
        /\ reg'[t].head = reg[t].head /\ reg'[t].next = freeListNext[reg[t].head]
        /\ UNCHANGED shared
    BY <1>4 DEF LoadNext, Jump, Moves, ListTyped, Regs
  <2>2. ThreadOK(t)'
    BY <2>1 DEF ThreadOK, Adding, shared
  <2>3. \A n \in Nodes : Same(t, n)
    BY <2>1 DEF Same
  <2> QED
    BY <2>1, <2>2, <2>3, QuietStep
<1> QED
  BY <1>1, <1>2, <1>3, <1>4

-----------------------------------------------------------------------------
(* The steps of the addition.                                               *)

\* The thread that finds a count of zero has the node; otherwise the node waits
\* for whoever drops the last reference.
LEMMA AddStep ==
  ASSUME IInv, ListTyped', NEW t \in Threads, NEW m \in Nodes, Add(t, m)
  PROVE  IInv'
<1> USE DEF IInv
<1>1. /\ tpc[t] = "idle" /\ m \in used /\ used' = used \ {m} /\ should' = should \cup {m}
      /\ UNCHANGED <<freeListHead, freeListNext, refs>> /\ Moves(t)
      /\ \/ refs[m] = 0 /\ tpc'[t] = "expect" /\ reg'[t].node = m
         \/ refs[m] # 0 /\ tpc'[t] = "idle"
  BY DEF Add, Jump, Moves, ListTyped, Regs
<1>2. Listed' = Listed /\ Shape'
  BY <1>1, ListStays
<1>3. ThreadOK(t)'
  BY <1>1 DEF ThreadOK, Adding
<1>4. \A u \in Threads : ThreadOK(u)'
  BY <1>1, <1>3, OthersRely
<1>5. ASSUME NEW n \in Nodes, n # m PROVE NodeInv(n)'
  <2>1. Same(t, n)
    BY <1>1, <1>5 DEF Same, Preparing, Pushing, Taking, Holders
  <2> QED
    BY <1>1, <1>2, <1>5, <2>1, NodeSame
<1>6. NodeInv(m)'
  <2>1. Owners(m) = {} /\ m \notin Listed /\ m \notin should
    BY <1>1 DEF NodeInv
  <2>2. /\ t \notin Pushing(m)' /\ t \notin Taking(m)' /\ t \notin Holders(m)'
        /\ t \notin Preparing(m) /\ t \notin Holders(m)
        /\ t \in Preparing(m)' <=> refs[m] = 0
    BY <1>1 DEF Preparing, Pushing, Taking, Holders
  <2>3. /\ Preparing(m)' = IF refs[m] = 0 THEN {t} ELSE {}
        /\ Pushing(m)' = {} /\ Taking(m)' = {} /\ Holders(m)' = Holders(m)
    BY <1>1, <2>1, <2>2, OthersKeep DEF Owners
  <2>4. ~Counted(m) /\ ~Counted(m)'
    BY <1>2, <2>1, <2>3 DEF Counted, Owners
  <2> QED
    BY <1>1, <1>2, <2>1, <2>3, <2>4 DEF NodeInv, Owners
<1> QED
  BY <1>2, <1>4, <1>5, <1>6 DEF ListConstantsOK

\* The next node is set while nobody refers to the node.
LEMMA SetNextStep ==
  ASSUME IInv, ListTyped', NEW t \in Threads, SetNext(t)
  PROVE  IInv'
<1> USE DEF IInv
<1>1. PICK m \in Nodes : m = reg[t].node
  BY DEF SetNext, ThreadOK, Adding
<1>2. /\ tpc[t] = "setNext" /\ tpc'[t] = "setRefs" /\ Moves(t)
      /\ freeListNext' = [freeListNext EXCEPT ![m] = reg[t].expected]
      /\ UNCHANGED <<freeListHead, refs, should, used, reg>>
  BY <1>1 DEF SetNext, Jump, Moves, ListTyped
<1>3. t \in Preparing(m)
  BY <1>1, <1>2 DEF Preparing
<1>4. Owners(m) = {t} /\ m \notin Listed
  BY <1>3, OwnerAlone DEF Owners
<1>5. Holders(m) = {}
  BY <1>3, ZeroAlone DEF NodeInv
<1>6. \A n \in Nodes \ {m} : freeListNext'[n] = freeListNext[n]
  BY <1>2 DEF ListTyped
<1>7. Listed' = Listed
  BY <1>2, <1>4, <1>6, ListedSame, ListedClosed
<1>8. Shape'
  BY <1>2, <1>4, <1>6, <1>7, ListedClosed DEF Shape
<1>9. ASSUME NEW u \in Threads PROVE ThreadOK(u)'
  <2>1. CASE u = t
    BY <1>1, <1>2, <2>1 DEF ThreadOK, Adding, ListTyped
  <2>2. CASE u # t
    <3>1. tpc'[u] = tpc[u] /\ reg'[u] = reg[u] /\ ThreadOK(u)
      BY <1>2, <2>2 DEF Moves
    <3>2. u \notin Owners(m) /\ u \notin Holders(m)
      BY <1>4, <1>5, <2>2
    <3>3. tpc[u] \in {"setRefs", "push"} => reg[u].node # m
      BY <3>2 DEF Owners, Preparing, Pushing
    <3>4. tpc[u] = "pop" => reg[u].head # m
      BY <3>2 DEF Holders
    <3> QED
      BY <1>6, <3>1, <3>3, <3>4 DEF ThreadOK, Adding
  <2> QED
    BY <2>1, <2>2
<1>10. \A n \in Nodes : Same(t, n)
  BY <1>2 DEF Same, Preparing, Pushing, Taking, Holders
<1>11. \A n \in Nodes : NodeInv(n)'
  BY <1>2, <1>7, <1>10, NodeSame
<1> QED
  BY <1>8, <1>9, <1>11 DEF ListConstantsOK

\* The store of the list's reference overwrites nobody's.
LEMMA SetRefsStep ==
  ASSUME IInv, ListTyped', NEW t \in Threads, SetRefs(t)
  PROVE  IInv'
<1> USE DEF IInv
<1>1. PICK m \in Nodes : m = reg[t].node
  BY DEF SetRefs, ThreadOK, Adding
<1>2. /\ tpc[t] = "setRefs" /\ tpc'[t] = "push" /\ Moves(t)
      /\ refs' = [refs EXCEPT ![m] = 1] /\ should' = should \ {m}
      /\ UNCHANGED <<freeListHead, freeListNext, used, reg>>
  BY <1>1 DEF SetRefs, Jump, Moves, ListTyped
<1>3. Listed' = Listed /\ Shape'
  BY <1>2, ListStays
<1>4. ThreadOK(t)'
  BY <1>2 DEF ThreadOK, Adding
<1>5. \A u \in Threads : ThreadOK(u)'
  BY <1>2, <1>4, OthersRely
<1>6. ASSUME NEW n \in Nodes, n # m PROVE NodeInv(n)'
  <2>1. Same(t, n)
    BY <1>1, <1>2, <1>6 DEF Same, Preparing, Pushing, Taking, Holders
  <2>2. refs'[n] = refs[n]
    BY <1>2, <1>6 DEF ListTyped
  <2> QED
    BY <1>2, <1>3, <1>6, <2>1, <2>2, NodeSame
<1>7. NodeInv(m)'
  <2>1. t \in Preparing(m)
    BY <1>1, <1>2 DEF Preparing
  <2>2. Owners(m) = {t} /\ m \notin used /\ m \notin Listed
    BY <2>1, OwnerAlone DEF Owners
  <2>3. Holders(m) = {}
    BY <2>1, ZeroAlone DEF NodeInv
  <2>4. /\ t \in Pushing(m)' /\ t \notin Preparing(m)' /\ t \notin Taking(m)'
        /\ t \notin Holders(m)'
    BY <1>1, <1>2 DEF Preparing, Pushing, Taking, Holders
  <2>5. /\ Preparing(m)' = {} /\ Pushing(m)' = {t} /\ Taking(m)' = {}
        /\ Holders(m)' = {}
    BY <1>2, <2>2, <2>3, <2>4, OthersKeep DEF Owners
  <2>6. refs'[m] = 1 /\ Cardinality(Holders(m)') = 0
    BY <1>2, <2>5, FS_EmptySet DEF ListTyped
  <2>7. Counted(m)'
    BY <2>5 DEF Counted
  <2> QED
    BY <1>2, <1>3, <2>2, <2>5, <2>6, <2>7 DEF NodeInv, Owners
<1> QED
  BY <1>3, <1>5, <1>6, <1>7 DEF ListConstantsOK

\* The head is swung to the node whose next node it is.
LEMMA PushStep ==
  ASSUME IInv, ListTyped', NEW t \in Threads, Push(t)
  PROVE  IInv'
<1> USE DEF IInv
<1>1. PICK m \in Nodes : m = reg[t].node
  BY DEF Push, ThreadOK, Adding
<1>2. /\ tpc[t] = "push" /\ freeListNext[m] = reg[t].expected
      /\ UNCHANGED <<freeListNext, refs, should, used>>
  BY <1>1 DEF Push, ThreadOK
<1>3. CASE freeListHead = reg[t].expected /\ freeListHead' = m /\ Added(t)
  <2>1. Looked(t)
    BY <1>3, LookTyped DEF Added, ListTyped, Regs
  <2>2. t \in Pushing(m)
    BY <1>1, <1>2 DEF Pushing
  <2>3. Owners(m) = {t} /\ m \notin used /\ m \notin Listed
    BY <2>2, OwnerAlone DEF Owners
  <2>4. Listed' = Listed \cup {m} /\ Shape'
    BY <1>2, <1>3, <2>3, ListedPush
  <2>5. ThreadOK(t)' /\ Moves(t)
    BY <2>1 DEF Looked, ThreadOK, Adding
  <2>6. \A u \in Threads : ThreadOK(u)'
    BY <1>2, <2>5, OthersRely
  <2>7. ASSUME NEW n \in Nodes, n # m PROVE NodeInv(n)'
    <3>1. Same(t, n)
      BY <1>1, <1>2, <2>1, <2>7 DEF Looked, Same, Preparing, Pushing, Taking, Holders
    <3> QED
      BY <1>2, <2>4, <2>5, <2>7, <3>1, NodeSame
  <2>8. NodeInv(m)'
    <3>1. /\ t \notin Preparing(m)' /\ t \notin Pushing(m)' /\ t \notin Taking(m)'
          /\ t \notin Holders(m)' /\ t \notin Holders(m)
      BY <1>2, <2>1 DEF Looked, Preparing, Pushing, Taking, Holders
    <3>2. /\ Preparing(m)' = {} /\ Pushing(m)' = {} /\ Taking(m)' = {}
          /\ Holders(m)' = Holders(m)
      BY <2>3, <2>5, <3>1, OthersKeep DEF Owners
    <3>3. Counted(m) /\ Counted(m)' /\ m \notin should
      BY <2>2, <2>4 DEF Counted, NodeInv
    <3> QED
      BY <1>2, <2>3, <2>4, <3>2, <3>3 DEF NodeInv, Owners
  <2> QED
    BY <2>4, <2>6, <2>7, <2>8 DEF ListConstantsOK
<1>4. CASE /\ freeListHead # reg[t].expected
           /\ reg' = [reg EXCEPT ![t].expected = freeListHead]
           /\ Jump(t, "pushFailed") /\ UNCHANGED freeListHead
  <2>1. Moves(t) /\ tpc'[t] = "pushFailed" /\ reg'[t].node = m
    BY <1>1, <1>4 DEF Jump, Moves, ListTyped, Regs
  <2>2. ThreadOK(t)'
    BY <2>1 DEF ThreadOK, Adding
  <2>3. \A n \in Nodes : Same(t, n)
    BY <1>1, <1>2, <2>1 DEF Same, Preparing, Pushing, Taking, Holders
  <2>4. UNCHANGED shared
    BY <1>2, <1>4 DEF shared
  <2> QED
    BY <2>1, <2>2, <2>3, <2>4, QuietStep
<1> QED
  BY <1>1, <1>3, <1>4 DEF Push

\* The list's reference is given up again.
LEMMA PushFailedStep ==
  ASSUME IInv, ListTyped', NEW t \in Threads, PushFailed(t)
  PROVE  IInv'
<1> USE DEF IInv
<1>1. PICK m \in Nodes : m = reg[t].node
  BY DEF PushFailed, ThreadOK, Adding
<1>2. /\ tpc[t] = "pushFailed" /\ Moves(t)
      /\ refs' = [refs EXCEPT ![m] = refs[m] - 1] /\ should' = should \cup {m}
      /\ UNCHANGED <<freeListHead, freeListNext, used>>
      /\ \/ refs[m] = 1 /\ tpc'[t] = "setNext" /\ reg'[t].node = m
         \/ /\ refs[m] # 1 /\ tpc'[t] \in {"idle", "refs"}
            /\ tpc'[t] = "refs" => reg'[t].head \in Nodes
  <2>1. CASE Added(t)
    <3>1. Looked(t)
      BY <2>1, LookTyped DEF Added, ListTyped, Regs
    <3>2. tpc'[t] # "setNext"
      BY <3>1 DEF Looked
    <3>3. refs[m] # 1
      BY <1>1, <3>2 DEF PushFailed, Jump, ListTyped
    <3> QED
      BY <1>1, <3>1, <3>3 DEF PushFailed, Looked
  <2>2. CASE ~Added(t)
    BY <1>1, <2>2 DEF PushFailed, Jump, Moves, ListTyped
  <2> QED
    BY <2>1, <2>2
<1>3. Listed' = Listed /\ Shape'
  BY <1>2, ListStays
<1>4. ThreadOK(t)'
  BY <1>2 DEF ThreadOK, Adding
<1>5. \A u \in Threads : ThreadOK(u)'
  BY <1>2, <1>4, OthersRely
<1>6. ASSUME NEW n \in Nodes, n # m PROVE NodeInv(n)'
  <2>1. Same(t, n)
    BY <1>1, <1>2, <1>6 DEF Same, Preparing, Pushing, Taking, Holders
  <2>2. refs'[n] = refs[n]
    BY <1>2, <1>6 DEF ListTyped
  <2> QED
    BY <1>2, <1>3, <1>6, <2>1, <2>2, NodeSame
<1>7. NodeInv(m)'
  <2>1. t \in Pushing(m)
    BY <1>1, <1>2 DEF Pushing
  <2>2. Owners(m) = {t} /\ m \notin used /\ m \notin Listed
    BY <2>1, OwnerAlone DEF Owners
  <2>3. Counted(m)
    BY <2>1 DEF Counted
  <2>4. /\ t \notin Pushing(m)' /\ t \notin Taking(m)' /\ t \notin Holders(m)'
        /\ t \notin Holders(m)
        /\ t \in Preparing(m)' <=> refs[m] = 1
    BY <1>1, <1>2 DEF Preparing, Pushing, Taking, Holders
  <2>5. /\ Preparing(m)' = IF refs[m] = 1 THEN {t} ELSE {}
        /\ Pushing(m)' = {} /\ Taking(m)' = {} /\ Holders(m)' = Holders(m)
    BY <1>2, <2>2, <2>4, OthersKeep DEF Owners
  <2>6. ~Counted(m)'
    BY <1>3, <2>2, <2>5 DEF Counted
  <2>7. /\ refs[m] = 1 + Cardinality(Holders(m)) /\ refs'[m] = refs[m] - 1
        /\ Cardinality(Holders(m)) \in Nat
    BY <1>2, <2>3, HoldersFinite DEF NodeInv, ListTyped
  <2>8. PICK k \in Nat : k = Cardinality(Holders(m))
    BY <2>7
  <2>9. refs'[m] = k /\ Cardinality(Holders(m)') = k /\ (k = 0 <=> refs[m] = 1)
    <3>1. Cardinality(Holders(m)') = k
      BY <2>5, <2>8
    <3>2. refs[m] = 1 + k /\ refs'[m] = refs[m] - 1
      BY <2>7, <2>8
    <3> QED
      BY <2>8, <3>1, <3>2
  <2> QED
    BY <1>2, <1>3, <2>2, <2>5, <2>6, <2>8, <2>9 DEF NodeInv, Owners
<1> QED
  BY <1>3, <1>5, <1>6, <1>7 DEF ListConstantsOK

-----------------------------------------------------------------------------
(* The steps of try_get that change a count or the head.                    *)

\* A reference is added to a count that is not zero.
LEMMA TakeRefStep ==
  ASSUME IInv, ListTyped', NEW t \in Threads, TakeRef(t)
  PROVE  IInv'
<1> USE DEF IInv
<1>1. PICK m \in Nodes : m = reg[t].head
  BY DEF TakeRef, ThreadOK
<1>2. /\ tpc[t] = "ref" /\ Moves(t)
      /\ UNCHANGED <<freeListHead, freeListNext, should, used, reg>>
  BY DEF TakeRef, Jump, Moves, ListTyped
<1>3. CASE tpc'[t] = "again" /\ UNCHANGED refs
  <2>1. ThreadOK(t)'
    BY <1>3 DEF ThreadOK, Adding
  <2>2. \A n \in Nodes : Same(t, n)
    BY <1>2, <1>3 DEF Same, Preparing, Pushing, Taking, Holders
  <2>3. UNCHANGED shared
    BY <1>2, <1>3 DEF shared
  <2> QED
    BY <1>2, <2>1, <2>2, <2>3, QuietStep
<1>4. CASE /\ refs[m] # 0 /\ refs' = [refs EXCEPT ![m] = refs[m] + 1]
           /\ tpc'[t] = "next"
  <2>1. Listed' = Listed /\ Shape'
    BY <1>2, ListStays
  <2>2. ThreadOK(t)'
    BY <1>1, <1>2, <1>4 DEF ThreadOK, Adding
  <2>3. \A u \in Threads : ThreadOK(u)'
    BY <1>2, <2>2, OthersRely
  <2>4. ASSUME NEW n \in Nodes, n # m PROVE NodeInv(n)'
    <3>1. Same(t, n)
      BY <1>1, <1>2, <1>4, <2>4 DEF Same, Preparing, Pushing, Taking, Holders
    <3>2. refs'[n] = refs[n]
      BY <1>4, <2>4 DEF ListTyped
    <3> QED
      BY <1>2, <2>1, <2>4, <3>1, <3>2, NodeSame
  <2>5. NodeInv(m)'
    <3>1. /\ t \notin Preparing(m)' /\ t \notin Pushing(m)' /\ t \notin Taking(m)'
          /\ t \notin Preparing(m) /\ t \notin Pushing(m) /\ t \notin Taking(m)
          /\ t \in Holders(m)' /\ t \notin Holders(m)
      BY <1>1, <1>2, <1>4 DEF Preparing, Pushing, Taking, Holders
    <3>2. /\ Preparing(m)' = Preparing(m) /\ Pushing(m)' = Pushing(m)
          /\ Taking(m)' = Taking(m) /\ Holders(m)' = Holders(m) \cup {t}
      BY <1>2, <3>1, OthersKeep
    <3>3. Counted(m)' <=> Counted(m)
      BY <2>1, <3>2 DEF Counted
    <3>4. PICK k \in Nat : k = Cardinality(Holders(m))
      BY HoldersFinite
    <3>5. Cardinality(Holders(m)') = k + 1
      BY <3>1, <3>2, <3>4, HoldersFinite, FS_AddElement
    <3>6. PICK b \in {0, 1} : b = IF Counted(m) THEN 1 ELSE 0
      OBVIOUS
    <3>7. refs[m] = b + k /\ refs'[m] = refs[m] + 1 /\ refs'[m] # 0
      BY <1>4, <3>4, <3>6 DEF NodeInv, ListTyped
    <3>8. refs'[m] = b + Cardinality(Holders(m)')
      BY <3>5, <3>7
    <3>9. Preparing(m) = {}
      BY <1>4 DEF NodeInv
    <3> QED
      BY <1>2, <2>1, <3>2, <3>3, <3>6, <3>7, <3>8, <3>9 DEF NodeInv, Owners
  <2> QED
    BY <2>1, <2>3, <2>4, <2>5 DEF ListConstantsOK
<1>5. Refs(m) = reg[t].seen => refs[m] # 0
  BY <1>2 DEF Refs, ThreadOK
<1> QED
  BY <1>1, <1>3, <1>4, <1>5 DEF TakeRef, Jump, ListTyped

\* The head is swung to the node that follows it now.
LEMMA PopStep ==
  ASSUME IInv, ListTyped', NEW t \in Threads, Pop(t)
  PROVE  IInv'
<1> USE DEF IInv
<1>1. PICK m \in Nodes : m = reg[t].head
  BY DEF Pop, ThreadOK
<1>2. /\ tpc[t] = "pop" /\ Moves(t) /\ freeListNext[m] = reg[t].next
      /\ UNCHANGED <<freeListNext, refs, should, used>>
  BY <1>1 DEF Pop, Jump, Moves, ListTyped, ThreadOK
<1>3. CASE /\ freeListHead = m /\ freeListHead' = freeListNext[m]
           /\ tpc'[t] = "got" /\ UNCHANGED reg
  <2>1. m \in Listed /\ Listed' = Listed \ {m} /\ Shape'
    BY <1>2, <1>3, ListedPop
  <2>2. ThreadOK(t)'
    BY <1>1, <1>3 DEF ThreadOK, Adding
  <2>3. \A u \in Threads : ThreadOK(u)'
    BY <1>2, <2>2, OthersRely
  <2>4. ASSUME NEW n \in Nodes, n # m PROVE NodeInv(n)'
    <3>1. Same(t, n)
      BY <1>1, <1>2, <1>3, <2>4 DEF Same, Preparing, Pushing, Taking, Holders
    <3> QED
      BY <1>2, <2>1, <2>4, <3>1, NodeSame
  <2>5. NodeInv(m)'
    <3>1. Owners(m) = {} /\ m \notin used /\ m \notin should /\ Counted(m)
      BY <2>1 DEF NodeInv, Counted
    <3>2. /\ t \notin Preparing(m)' /\ t \notin Pushing(m)' /\ t \in Taking(m)'
          /\ t \in Holders(m)' /\ t \in Holders(m)
      BY <1>1, <1>2, <1>3 DEF Preparing, Pushing, Taking, Holders
    <3>3. /\ Preparing(m)' = {} /\ Pushing(m)' = {} /\ Taking(m)' = {t}
          /\ Holders(m)' = Holders(m)
      BY <1>2, <3>1, <3>2, OthersKeep DEF Owners
    <3>4. Counted(m)'
      BY <3>3 DEF Counted
    <3> QED
      BY <1>2, <2>1, <3>1, <3>3, <3>4 DEF NodeInv, Owners
  <2> QED
    BY <2>1, <2>3, <2>4, <2>5 DEF ListConstantsOK
<1>4. CASE /\ UNCHANGED freeListHead /\ tpc'[t] = "drop" /\ reg'[t].node = m
  <2>1. ThreadOK(t)'
    BY <1>4 DEF ThreadOK, Adding
  <2>2. \A n \in Nodes : Same(t, n)
    BY <1>1, <1>2, <1>4 DEF Same, Preparing, Pushing, Taking, Holders
  <2>3. UNCHANGED shared
    BY <1>2, <1>4 DEF shared
  <2> QED
    BY <1>2, <2>1, <2>2, <2>3, QuietStep
<1>5. [Unset EXCEPT !.head = freeListHead, !.node = m].node = m
  BY DEF Unset
<1> QED
  BY <1>1, <1>2, <1>3, <1>4, <1>5 DEF Pop, Jump, ListTyped

\* The list's reference and the taker's own are dropped at once.
LEMMA GotStep ==
  ASSUME IInv, ListTyped', NEW t \in Threads, Got(t)
  PROVE  IInv'
<1> USE DEF IInv
<1>1. PICK m \in Nodes : m = reg[t].head
  BY DEF Got, ThreadOK
<1>2. /\ tpc[t] = "got" /\ tpc'[t] = "idle" /\ Moves(t)
      /\ refs' = [refs EXCEPT ![m] = refs[m] - 2] /\ used' = used \cup {m}
      /\ UNCHANGED <<freeListHead, freeListNext, should>>
  BY <1>1 DEF Got, Done, Jump, Moves, ListTyped
<1>3. Listed' = Listed /\ Shape'
  BY <1>2, ListStays
<1>4. ThreadOK(t)'
  BY <1>2 DEF ThreadOK, Adding
<1>5. \A u \in Threads : ThreadOK(u)'
  BY <1>2, <1>4, OthersRely
<1>6. ASSUME NEW n \in Nodes, n # m PROVE NodeInv(n)'
  <2>1. Same(t, n)
    BY <1>1, <1>2, <1>6 DEF Same, Preparing, Pushing, Taking, Holders
  <2>2. refs'[n] = refs[n]
    BY <1>2, <1>6 DEF ListTyped
  <2> QED
    BY <1>2, <1>3, <1>6, <2>1, <2>2, NodeSame
<1>7. NodeInv(m)'
  <2>1. t \in Taking(m) /\ t \in Holders(m)
    BY <1>1, <1>2 DEF Taking, Holders
  <2>2. Owners(m) = {t} /\ m \notin Listed
    BY <2>1, OwnerAlone DEF Owners
  <2>3. Counted(m) /\ m \notin should
    BY <2>1 DEF Counted, NodeInv
  <2>4. /\ t \notin Preparing(m)' /\ t \notin Pushing(m)' /\ t \notin Taking(m)'
        /\ t \notin Holders(m)'
    BY <1>2 DEF Preparing, Pushing, Taking, Holders
  <2>5. /\ Preparing(m)' = {} /\ Pushing(m)' = {} /\ Taking(m)' = {}
        /\ Holders(m)' = Holders(m) \ {t}
    BY <1>2, <2>2, <2>4, OthersKeep DEF Owners
  <2>6. ~Counted(m)'
    BY <1>3, <2>2, <2>5 DEF Counted
  <2>7. PICK k \in Nat : k = Cardinality(Holders(m))
    BY HoldersFinite
  <2>8. Cardinality(Holders(m)') = k - 1
    BY <2>1, <2>5, <2>7, HoldersFinite, FS_RemoveElement
  <2>9. refs[m] = 1 + k /\ refs'[m] = refs[m] - 2
    BY <1>2, <2>3, <2>7 DEF NodeInv, ListTyped
  <2>10. refs'[m] = Cardinality(Holders(m)') /\ refs'[m] = 0 + Cardinality(Holders(m)')
    BY <2>8, <2>9
  <2> QED
    BY <1>2, <1>3, <2>2, <2>3, <2>5, <2>6, <2>10 DEF NodeInv, Owners
<1> QED
  BY <1>3, <1>5, <1>6, <1>7 DEF ListConstantsOK

\* Whoever drops the last reference of a marked node has the node.
LEMMA DropStep ==
  ASSUME IInv, ListTyped', NEW t \in Threads, Drop(t)
  PROVE  IInv'
<1> USE DEF IInv
<1>1. PICK m \in Nodes : m = reg[t].node
  BY DEF Drop, ThreadOK
<1>2. /\ tpc[t] = "drop" /\ Moves(t)
      /\ refs' = [refs EXCEPT ![m] = refs[m] - 1]
      /\ UNCHANGED <<freeListHead, freeListNext, should, used>>
      /\ \/ /\ refs[m] = 1 /\ m \in should /\ tpc'[t] = "expect" /\ reg'[t].node = m
         \/ /\ ~(refs[m] = 1 /\ m \in should) /\ tpc'[t] \in {"idle", "refs"}
            /\ tpc'[t] = "refs" => reg'[t].head \in Nodes
  <2>0. Refs(m) = <<1, TRUE>> <=> refs[m] = 1 /\ m \in should
    <3>1. (m \in should) = TRUE <=> m \in should
      BY Zenon
    <3> QED
      BY <3>1 DEF Refs
  <2>1. CASE Added(t)
    <3>1. Looked(t)
      BY <2>1, LookTyped DEF Added, ListTyped, Regs
    <3>2. tpc'[t] # "expect"
      BY <3>1 DEF Looked
    <3>3. Refs(m) # <<1, TRUE>>
      BY <1>1, <3>2 DEF Drop, Jump, ListTyped
    <3> QED
      BY <1>1, <2>0, <3>1, <3>3 DEF Drop, Looked
  <2>2. CASE ~Added(t)
    BY <1>1, <2>0, <2>2 DEF Drop, Jump, Moves, ListTyped
  <2> QED
    BY <2>1, <2>2
<1>3. Listed' = Listed /\ Shape'
  BY <1>2, ListStays
<1>4. ThreadOK(t)'
  BY <1>2 DEF ThreadOK, Adding
<1>5. \A u \in Threads : ThreadOK(u)'
  BY <1>2, <1>4, OthersRely
<1>6. ASSUME NEW n \in Nodes, n # m PROVE NodeInv(n)'
  <2>1. Same(t, n)
    BY <1>1, <1>2, <1>6 DEF Same, Preparing, Pushing, Taking, Holders
  <2>2. refs'[n] = refs[n]
    BY <1>2, <1>6 DEF ListTyped
  <2> QED
    BY <1>2, <1>3, <1>6, <2>1, <2>2, NodeSame
<1>7. NodeInv(m)'
  <2>1. t \in Holders(m)
    BY <1>1, <1>2 DEF Holders
  <2>2. PICK k \in Nat : k = Cardinality(Holders(m))
    BY HoldersFinite
  <2>3. PICK b \in {0, 1} : b = IF Counted(m) THEN 1 ELSE 0
    OBVIOUS
  <2>4. refs[m] = b + k /\ refs'[m] = refs[m] - 1
    BY <1>2, <2>2, <2>3 DEF NodeInv, ListTyped
  <2>5. Preparing(m) = {}
    BY <2>1, HolderCounted
  <2>6. /\ t \notin Preparing(m) /\ t \notin Pushing(m) /\ t \notin Taking(m)
        /\ t \notin Pushing(m)' /\ t \notin Taking(m)' /\ t \notin Holders(m)'
    BY <1>2 DEF Preparing, Pushing, Taking, Holders
  <2>7. /\ Pushing(m)' = Pushing(m) /\ Taking(m)' = Taking(m)
        /\ Preparing(m)' \ {t} = {} /\ Holders(m)' = Holders(m) \ {t}
    BY <1>2, <2>5, <2>6, OthersKeep
  <2>8. Counted(m)' <=> Counted(m)
    BY <1>3, <2>7 DEF Counted
  <2>9. Cardinality(Holders(m)') = k - 1
    BY <2>1, <2>2, <2>7, HoldersFinite, FS_RemoveElement
  <2>10. refs'[m] = b + Cardinality(Holders(m)')
    BY <2>4, <2>9
  <2>11. CASE refs[m] = 1 /\ m \in should /\ tpc'[t] = "expect" /\ reg'[t].node = m
    <3>1. Preparing(m)' = {t}
      BY <2>7, <2>11 DEF Preparing
    <3>2. ~Counted(m) /\ m \notin used
      BY <2>11 DEF NodeInv
    <3>3. Pushing(m) = {} /\ Taking(m) = {} /\ m \notin Listed
      BY <3>2 DEF Counted
    <3>4. refs'[m] = 0
      BY <2>4, <2>11
    <3> QED
      BY <1>2, <1>3, <2>3, <2>7, <2>8, <2>10, <2>11, <3>1, <3>2, <3>3, <3>4
      DEF NodeInv, Owners
  <2>12. CASE ~(refs[m] = 1 /\ m \in should) /\ tpc'[t] \in {"idle", "refs"}
    <3>1. Preparing(m)' = {}
      BY <2>7, <2>12 DEF Preparing
    <3>2. m \in should => refs'[m] # 0
      BY <2>4, <2>12
    <3> QED
      BY <1>2, <1>3, <2>3, <2>5, <2>7, <2>8, <2>10, <3>1, <3>2 DEF NodeInv, Owners
  <2> QED
    BY <1>2, <2>11, <2>12
<1> QED
  BY <1>3, <1>5, <1>6, <1>7 DEF ListConstantsOK

-----------------------------------------------------------------------------
LEMMA IInvInit == ListConstantsOK /\ ListInit => IInv
<1> SUFFICES ASSUME ListConstantsOK, ListInit PROVE IInv
  OBVIOUS
<1>1. ListTyped
  BY ListTypedInit
<1>2. Closed({})
  BY DEF ListInit, Closed
<1>3. Listed = {}
  BY <1>2, ListedLeast
<1>4. \A t \in Threads : ThreadOK(t)
  BY DEF ListInit, ThreadOK, Adding
<1>5. ASSUME NEW n \in Nodes PROVE NodeInv(n)
  <2>1. /\ Preparing(n) = {} /\ Pushing(n) = {} /\ Taking(n) = {} /\ Holders(n) = {}
    BY DEF ListInit, Preparing, Pushing, Taking, Holders
  <2>2. ~Counted(n) /\ Cardinality(Holders(n)) = 0
    BY <1>3, <2>1, FS_EmptySet DEF Counted
  <2> QED
    BY <1>3, <2>1, <2>2 DEF ListInit, NodeInv, Owners
<1> QED
  BY <1>1, <1>3, <1>4, <1>5 DEF IInv, Shape

LEMMA IInvStep == IInv /\ [ListNext]_listVars => IInv'
<1> SUFFICES ASSUME IInv, [ListNext]_listVars PROVE IInv'
  OBVIOUS
<1>1. ListTyped'
  BY ListTypedStep
<1>2. CASE ListNext
  BY <1>1, <1>2, AddStep, QuietSteps, SetNextStep, SetRefsStep, PushStep, PushFailedStep,
     TakeRefStep, PopStep, GotStep, DropStep
  DEF ListNext, AddKnowing, TryGet
<1>3. CASE UNCHANGED listVars
  <2>1. Listed' = Listed /\ Shape'
    BY <1>3, ListStays DEF IInv, listVars, shared
  <2>2. \A t \in Threads : ThreadOK(t)'
    BY <1>3 DEF IInv, ThreadOK, Adding, listVars, shared
  <2>3. ASSUME NEW n \in Nodes PROVE NodeInv(n)'
    <3>1. /\ Preparing(n)' = Preparing(n) /\ Pushing(n)' = Pushing(n)
          /\ Taking(n)' = Taking(n) /\ Holders(n)' = Holders(n)
      BY <1>3 DEF Preparing, Pushing, Taking, Holders, listVars
    <3>2. Owners(n)' = Owners(n) /\ (Counted(n)' <=> Counted(n))
      BY <2>1, <3>1 DEF Owners, Counted
    <3> QED
      BY <1>3, <2>1, <3>1, <3>2 DEF IInv, NodeInv, listVars, shared
  <2> QED
    BY <1>1, <2>1, <2>2, <2>3 DEF IInv, ListConstantsOK
<1> QED
  BY <1>2, <1>3

LEMMA IInvCorrect == ListSpec => []IInv
BY ListAssumption, IInvInit, IInvStep, PTL DEF ListSpec

\* No node is handed out twice or on the list twice, however many threads add and
\* take nodes and however long each of them looks at a node that others use.
THEOREM OnePlaceCorrect == ListSpec => []OnePlace
<1>1. IInv => OnePlace
  <2> SUFFICES ASSUME IInv, NEW n \in Nodes
               PROVE  LET adders == {t \in Threads : Adding(t) /\ reg[t].node = n}
                          takers == {t \in Threads : tpc[t] = "got" /\ reg[t].head = n}
                          B(p) == IF p THEN 1 ELSE 0
                      IN  B(n \in used) + B(n \in Listed) + Cardinality(adders)
                            + Cardinality(takers) + B(adders = {} /\ n \in should) = 1
    BY DEF OnePlace
  <2> DEFINE adders == {t \in Threads : Adding(t) /\ reg[t].node = n}
             takers == {t \in Threads : tpc[t] = "got" /\ reg[t].head = n}
             B(p) == IF p THEN 1 ELSE 0
  <2>1. adders = Preparing(n) \cup Pushing(n) /\ takers = Taking(n)
    BY DEF Adding, Preparing, Pushing, Taking
  <2>2. NodeInv(n)
    BY DEF IInv
  <2>3. Preparing(n) \cap Taking(n) = {} /\ Pushing(n) \cap Taking(n) = {}
    BY DEF Preparing, Pushing, Taking
  <2>4. Cardinality({}) = 0 /\ \A t : Cardinality({t}) = 1
    BY FS_EmptySet, FS_Singleton
  <2> HIDE DEF adders, takers
  <2>5. CASE Owners(n) = {}
    <3>1. adders = {} /\ takers = {}
      BY <2>1, <2>5 DEF Owners
    <3>2. Counted(n) <=> n \in Listed
      BY <2>1, <3>1 DEF Counted
    <3>3. Cardinality(adders) = 0 /\ Cardinality(takers) = 0
      BY <2>4, <3>1
    <3>4. \/ n \in used /\ n \notin Listed /\ n \notin should
          \/ n \notin used /\ n \in Listed /\ n \notin should
          \/ n \notin used /\ n \notin Listed /\ n \in should
      BY <2>2, <3>2 DEF NodeInv
    <3> QED
      BY <3>1, <3>3, <3>4 DEF adders, takers
  <2>6. ASSUME NEW t \in Owners(n)
        PROVE  B(n \in used) + B(n \in Listed) + Cardinality(adders)
                 + Cardinality(takers) + B(adders = {} /\ n \in should) = 1
    <3>1. Owners(n) = {t} /\ n \notin used /\ n \notin Listed
      BY <2>2, OwnerAlone
    <3>2. CASE t \in Taking(n)
      <4>1. adders = {} /\ takers = {t} /\ n \notin should
        BY <2>1, <2>2, <2>3, <3>1, <3>2 DEF Owners, NodeInv, Counted
      <4>2. Cardinality(adders) = 0 /\ Cardinality(takers) = 1
        BY <2>4, <4>1
      <4> QED
        BY <3>1, <4>1, <4>2
    <3>3. CASE t \notin Taking(n)
      <4>1. adders = {t} /\ takers = {}
        BY <2>1, <3>1, <3>3 DEF Owners
      <4> QED
        BY <2>4, <3>1, <4>1
    <3> QED
      BY <3>2, <3>3
  <2> QED
    BY <2>5, <2>6 DEF adders, takers
<1> QED
  BY <1>1, IInvCorrect, PTL

\* No node is lost: with nobody at work, every node that is not in use is listed.
THEOREM NoneLostCorrect == ListSpec => []NoneLost
<1>1. IInv => NoneLost
  <2> SUFFICES ASSUME IInv, \A t \in Threads : tpc[t] = "idle"
               PROVE  Listed = Nodes \ used
    BY DEF NoneLost
  <2>1. ASSUME NEW n \in Nodes PROVE n \in Listed <=> n \notin used
    <3>1. NodeInv(n)
      BY DEF IInv
    <3>2. /\ Preparing(n) = {} /\ Pushing(n) = {} /\ Taking(n) = {} /\ Holders(n) = {}
      BY DEF Preparing, Pushing, Taking, Holders
    <3>3. Counted(n) <=> n \in Listed
      BY <3>2 DEF Counted
    <3>4. Cardinality(Holders(n)) = 0
      BY <3>2, FS_EmptySet
    <3>5. ~(n \in should)
      BY <3>1, <3>2, <3>4 DEF NodeInv
    <3> QED
      BY <3>1, <3>3, <3>5 DEF NodeInv
  <2>2. Listed \subseteq Nodes
    BY DEF Listed
  <2> QED
    BY <2>1, <2>2
<1> QED
  BY <1>1, IInvCorrect, PTL

-----------------------------------------------------------------------------
(* The counts.                                                              *)

MaxRefs == Cardinality(Threads) + 1

\* A count, and so one that a thread has read, is at most that.
LEMMA RefsBounded ==
  ASSUME IInv PROVE \A n \in Nodes : refs[n] \in 0..MaxRefs
<1> SUFFICES ASSUME NEW n \in Nodes PROVE refs[n] \in 0..MaxRefs
  OBVIOUS
<1>1. IsFiniteSet(Threads) /\ Cardinality(Threads) \in Nat
  BY FS_CardinalityType DEF IInv, ListConstantsOK
<1>2. Holders(n) \in SUBSET Threads
  BY DEF Holders
<1>3. Cardinality(Holders(n)) <= Cardinality(Threads) /\ Cardinality(Holders(n)) \in Nat
  BY <1>1, <1>2, FS_Subset, FS_CardinalityType
<1>4. refs[n] = (IF Counted(n) THEN 1 ELSE 0) + Cardinality(Holders(n))
  BY DEF IInv, NodeInv
<1> QED
  BY <1>1, <1>3, <1>4 DEF MaxRefs

SeenOK == \A t \in Threads : reg[t].seen[1] \in 0..MaxRefs

LEMMA SeenStep == IInv /\ SeenOK /\ [ListNext]_listVars => SeenOK'
<1> SUFFICES ASSUME IInv, SeenOK, [ListNext]_listVars PROVE SeenOK'
  OBVIOUS
<1>1. MaxRefs \in Nat
  BY FS_CardinalityType DEF IInv, ListConstantsOK, MaxRefs
<1>2. Unset.seen[1] \in 0..MaxRefs
  BY <1>1 DEF Unset
<1>3. ListTyped /\ ListTyped'
  BY ListTypedStep DEF IInv
<1>4. ASSUME NEW t \in Threads, Moves(t),
             \/ reg'[t].seen = reg[t].seen
             \/ reg'[t].seen = Unset.seen
             \/ \E n \in Nodes : reg'[t].seen = Refs(n)
      PROVE  SeenOK'
  <2>1. \A n \in Nodes : Refs(n)[1] \in 0..MaxRefs
    BY RefsBounded DEF Refs
  <2>2. reg'[t].seen[1] \in 0..MaxRefs
    BY <1>2, <1>4, <2>1 DEF SeenOK
  <2> QED
    BY <1>4, <2>2 DEF SeenOK, Moves, MaxRefs
<1>5. ASSUME NEW t \in Threads, NEW h, Look(t, h) PROVE SeenOK'
  <2>1. [Unset EXCEPT !.head = h].seen = Unset.seen
    BY DEF Unset
  <2> QED
    BY <1>3, <1>4, <1>5, <2>1 DEF Look, Done, Jump, Moves, ListTyped
<1>6. ASSUME NEW t \in Threads, NEW n \in Nodes, Add(t, n) PROVE SeenOK'
  BY <1>3, <1>4, <1>6 DEF Add, Jump, Moves, ListTyped, Regs
<1>7. ASSUME NEW t \in Threads, Expect(t) \/ SetNext(t) \/ SetRefs(t) PROVE SeenOK'
  BY <1>3, <1>4, <1>7 DEF Expect, SetNext, SetRefs, Jump, Moves, ListTyped, Regs
<1>8. ASSUME NEW t \in Threads, Push(t) \/ PushFailed(t) \/ Drop(t) PROVE SeenOK'
  <2>1. CASE Added(t)
    BY <1>5, <2>1 DEF Added
  <2>2. CASE Push(t) /\ ~Added(t)
    BY <1>3, <1>4, <2>2 DEF Push, Jump, Moves, ListTyped, Regs
  <2>3. CASE (PushFailed(t) \/ Drop(t)) /\ ~Added(t)
    BY <1>3, <1>4, <2>3 DEF PushFailed, Drop, Jump, Moves, ListTyped
  <2> QED
    BY <1>8, <2>1, <2>2, <2>3
<1>9. ASSUME NEW t \in Threads, LoadHead(t) PROVE SeenOK'
  BY <1>5, <1>9 DEF LoadHead
<1>10. ASSUME NEW t \in Threads, LoadRefs(t) PROVE SeenOK'
  <2>1. reg[t].head \in Nodes
    BY <1>10 DEF LoadRefs, IInv, ThreadOK
  <2>2. /\ Moves(t)
        /\ \/ reg'[t] = reg[t]
           \/ reg'[t].seen = Refs(reg[t].head)
    BY <1>3, <1>10 DEF LoadRefs, Jump, Moves, ListTyped, Regs
  <2> QED
    BY <1>4, <2>1, <2>2
<1>11. ASSUME NEW t \in Threads, TakeRef(t) PROVE SeenOK'
  BY <1>3, <1>4, <1>11 DEF TakeRef, Jump, Moves, ListTyped
<1>12. ASSUME NEW t \in Threads, LoadNext(t) PROVE SeenOK'
  BY <1>3, <1>4, <1>12 DEF LoadNext, Jump, Moves, ListTyped, Regs
<1>13. ASSUME NEW t \in Threads, Pop(t) PROVE SeenOK'
  <2>1. [Unset EXCEPT !.head = freeListHead, !.node = reg[t].head].seen = Unset.seen
    BY DEF Unset
  <2> QED
    BY <1>3, <1>4, <1>13, <2>1 DEF Pop, Jump, Moves, ListTyped
<1>14. ASSUME NEW t \in Threads, Got(t) PROVE SeenOK'
  BY <1>3, <1>4, <1>14 DEF Got, Done, Jump, Moves, ListTyped
<1>15. CASE UNCHANGED listVars
  BY <1>15 DEF listVars, SeenOK, MaxRefs
<1> QED
  BY <1>6, <1>7, <1>8, <1>9, <1>10, <1>11, <1>12, <1>13, <1>14, <1>15
  DEF ListNext, AddKnowing, TryGet

\* The variables keep their types; no count of references goes below zero or above
\* the number of threads and the list.
THEOREM ListTypeCorrect == ListSpec => []ListTypeOK
<1>1. ListInit => SeenOK
  <2> SUFFICES ASSUME ListInit PROVE SeenOK
    OBVIOUS
  <2>1. Cardinality(Threads) \in Nat
    BY ListAssumption, FS_CardinalityType DEF ListConstantsOK
  <2> QED
    BY <2>1 DEF ListInit, Unset, SeenOK, MaxRefs
<1>2. IInv /\ SeenOK => ListTypeOK
  <2> SUFFICES ASSUME IInv, SeenOK PROVE ListTypeOK
    OBVIOUS
  <2>1. ListTyped
    BY DEF IInv
  <2>2. refs \in [Nodes -> 0..MaxRefs]
    BY <2>1, RefsBounded DEF ListTyped
  <2>3. ASSUME NEW t \in Threads
        PROVE  reg[t] \in [head : Nodes \cup {Null}, next : Nodes \cup {Null},
                           seen : (0..MaxRefs) \X BOOLEAN,
                           node : Nodes \cup {Null}, expected : Nodes \cup {Null}]
    <3>1. reg[t] \in Regs /\ reg[t].seen[1] \in 0..MaxRefs
      BY <2>1 DEF ListTyped, SeenOK
    <3>2. reg[t].seen \in (0..MaxRefs) \X BOOLEAN
      <4>1. PICK x \in Nat, y \in BOOLEAN : reg[t].seen = <<x, y>>
        BY <3>1 DEF Regs
      <4> QED
        BY <3>1, <4>1
    <3> QED
      BY <3>1, <3>2 DEF Regs
  <2>4. reg \in [Threads ->
                   [head : Nodes \cup {Null}, next : Nodes \cup {Null},
                    seen : (0..MaxRefs) \X BOOLEAN,
                    node : Nodes \cup {Null}, expected : Nodes \cup {Null}]]
    BY <2>1, <2>3 DEF ListTyped
  <2> QED
    BY <2>1, <2>2, <2>4 DEF ListTyped, ListTypeOK, MaxRefs
<1> QED
  BY <1>1, <1>2, IInvCorrect, IInvStep, SeenStep, PTL DEF ListSpec
=============================================================================

------------------------- MODULE LogicSystemProofs -------------------------
(***************************************************************************)
(* Proofs about LogicSystem, for every number of workers, I/O threads and  *)
(* temporary threads, every maxSize and every number of messages.          *)
(*                                                                         *)
(* Three inductive invariants, proved one after the other: PoolInv with    *)
(* TypeOK (the thread count bounds nowSize), PermitInv (wake-ups) and      *)
(* MessageInv (messages).                                                  *)
(***************************************************************************)
EXTENDS LogicSystem, TLAPS, FiniteSetTheorems, SequenceTheorems

-----------------------------------------------------------------------------
(* The thread pool.                                                         *)

\* Why PoolSizeExact and SlotFree survive: between its comparison with maxSize
\* and its fetch_add only the metrics thread can make nowSize grow, and worker
\* slots are below every index it hands out.
PoolInv ==
  /\ PoolSizeExact
  /\ mpc \in {"load", "add"} => nowSize < MaxSize
  /\ mpc \in {"add", "spawn", "detach"} => newIndex \in MinSize..(MaxSize - 1)
  /\ joinable = 0..(MinSize - 1) \cup (IF mpc = "detach" THEN {newIndex} ELSE {})

\* MinSize is a number: workers are finitely many.
LEMMA MinSizeType == MinSize \in Nat
BY ThreadAssumption, FS_CardinalityType DEF MinSize

\* The running temporary threads are finitely many.
LEMMA LiveFinite == IsFiniteSet(Live) /\ Cardinality(Live) \in Nat
<1>1. Live \in SUBSET Temps
  BY DEF Live
<1>2. IsFiniteSet(Live)
  BY <1>1, ThreadAssumption, FS_Subset
<1> QED
  BY <1>2, FS_CardinalityType

\* A thread that leaves the pool is counted once less.
LEMMA LiveMinus ==
  ASSUME NEW t \in Live, Live' = Live \ {t}
  PROVE  Cardinality(Live)' = Cardinality(Live) - 1 /\ Cardinality(Live) > 0
<1>1. Cardinality(Live \ {t}) = Cardinality(Live) - 1
  BY LiveFinite, FS_RemoveElement
<1>2. IsFiniteSet(Live \ {t}) /\ Cardinality(Live \ {t}) \in Nat
  BY LiveFinite, FS_RemoveElement, FS_CardinalityType
<1> QED
  BY <1>1, <1>2, LiveFinite

\* A thread that joins the pool is counted once more.
LEMMA LivePlus ==
  ASSUME NEW t, t \notin Live, Live' = Live \cup {t}
  PROVE  Cardinality(Live)' = Cardinality(Live) + 1
<1>1. Cardinality(Live \cup {t}) = Cardinality(Live) + 1
  BY LiveFinite, FS_AddElement
<1> QED
  BY <1>1

\* The initial states satisfy the type and the pool invariant.
LEMMA PoolInit == Init => TypeOK /\ PoolInv
<1> SUFFICES ASSUME Init PROVE TypeOK /\ PoolInv
  OBVIOUS
<1> USE MinSizeType, SizeAssumption, BoundAssumption, ThreadAssumption
<1>1. Live = {}
  BY DEF Init, Live, Consumers
<1>2. Cardinality(Live) = 0
  BY <1>1, FS_EmptySet
<1>3. PoolInv
  BY <1>2 DEF Init, PoolInv, PoolSizeExact
<1>4. readyQueue \in Seq(Workers)
  BY EmptySeq DEF Init
<1>5. TypeOK
  BY <1>4 DEF Init, TypeOK, Consumers
<1> QED
  BY <1>3, <1>5

\* Every step preserves them.
LEMMA PoolStep == TypeOK /\ PoolInv /\ [Next]_vars => PoolInv'
<1> SUFFICES ASSUME TypeOK, PoolInv, [Next]_vars PROVE PoolInv'
  OBVIOUS
<1> USE MinSizeType, SizeAssumption, LiveFinite
<1>0. nowSize \in Nat
  BY DEF TypeOK
\* Steps that leave the pool's variables and the set of running threads alone.
<1>1. ASSUME UNCHANGED <<mpc, newIndex, nowSize, joinable>>, Live' = Live
      PROVE  PoolInv'
  BY <1>1 DEF PoolInv, PoolSizeExact
<1>2. ASSUME NEW c \in Consumers, NEW d, NEW e, pc[c] # "none", d # "none",
             pc' = [pc EXCEPT ![c] = d]
      PROVE  Live' = Live
  BY <1>2 DEF TypeOK, Live, Consumers
<1>3. ASSUME NEW c \in Consumers, NEW p \in Posters, DequeueNode(c, p) PROVE PoolInv'
  BY <1>1, <1>2, <1>3 DEF DequeueNode, sizeVars
<1>4. ASSUME NEW c \in Consumers, NEW p \in Posters, SeeEmpty(c, p) PROVE PoolInv'
  BY <1>1, <1>4 DEF SeeEmpty, sizeVars, Live
<1>5. ASSUME NEW c \in Consumers, Handle(c) PROVE PoolInv'
  BY <1>1, <1>2, <1>5 DEF Handle, sizeVars
<1>6. ASSUME NEW w \in Workers, PushReady(w) PROVE PoolInv'
  BY <1>1, <1>2, <1>6 DEF PushReady, sizeVars, Consumers
<1>7. ASSUME NEW w \in Workers, Receive(w) PROVE PoolInv'
  BY <1>1, <1>2, <1>7 DEF Receive, Resume, sizeVars, Consumers
<1>8. ASSUME NEW t \in Temps, TempRetry(t) PROVE PoolInv'
  BY <1>1, <1>8 DEF TempRetry, sizeVars, Live
<1>9. ASSUME NEW t \in Temps, TempExit(t) PROVE PoolInv'
  <2>1. t \in Live /\ Live' = Live \ {t}
    BY <1>9 DEF TempExit, Live, TypeOK, Consumers
  <2>2. Cardinality(Live)' = Cardinality(Live) - 1 /\ Cardinality(Live) > 0
    BY <2>1, LiveMinus
  <2>3. nowSize' = nowSize - 1 /\ UNCHANGED <<mpc, newIndex, joinable>>
    BY <1>9 DEF TempExit
  <2> QED
    BY <1>0, <2>2, <2>3 DEF PoolInv, PoolSizeExact
<1>10. ASSUME NEW p \in Posters, Enqueue(p) PROVE PoolInv'
  BY <1>1, <1>10 DEF Enqueue, sizeVars, consVars, Live
<1>11. ASSUME NEW p \in Posters, PopReady(p) PROVE PoolInv'
  BY <1>1, <1>11 DEF PopReady, sizeVars, consVars, Live
<1>12. ASSUME NEW p \in Posters, TrySend(p) PROVE PoolInv'
  <2>1. CASE pc[readyIndex[p]] = "waiting"
    <3>1. pc' = [pc EXCEPT ![readyIndex[p]] = "dequeue"]
      BY <1>12, <2>1 DEF TrySend, Resume
    <3>2. \A t \in Temps : pc'[t] # "none" <=> pc[t] # "none"
      BY <2>1, <3>1 DEF TypeOK, Consumers
    <3>3. Live' = Live
      BY <3>2 DEF Live
    <3> QED
      BY <1>1, <1>12, <3>3 DEF TrySend, sizeVars
  <2>2. CASE pc[readyIndex[p]] # "waiting"
    BY <1>1, <1>12, <2>2 DEF TrySend, sizeVars, Live
  <2> QED
    BY <2>1, <2>2
<1>13. CASE MetricsSample
  BY <1>13 DEF MetricsSample, PoolInv, PoolSizeExact, consVars, Live, TypeOK
<1>14. CASE MetricsCheck
  BY <1>0, <1>14 DEF MetricsCheck, PoolInv, PoolSizeExact, consVars, Live
<1>15. CASE MetricsLoad
  BY <1>0, <1>15 DEF MetricsLoad, PoolInv, PoolSizeExact, consVars, Live
<1>16. CASE MetricsAdd
  BY <1>0, <1>16 DEF MetricsAdd, PoolInv, PoolSizeExact, consVars, Live
<1>17. CASE MetricsSpawn
  <2>1. PICK t \in Temps : pc[t] = "none" /\ pc' = [pc EXCEPT ![t] = "dequeue"]
    BY <1>17 DEF MetricsSpawn
  <2>2. t \notin Live /\ Live' = Live \cup {t}
    BY <2>1 DEF Live, TypeOK, Consumers
  <2>3. Cardinality(Live)' = Cardinality(Live) + 1
    BY <2>2, LivePlus
  <2>4. /\ mpc = "spawn" /\ mpc' = "detach"
        /\ joinable' = joinable \cup {newIndex}
        /\ UNCHANGED <<newIndex, nowSize>>
    BY <1>17 DEF MetricsSpawn
  <2> QED
    BY <1>0, <2>3, <2>4 DEF PoolInv, PoolSizeExact
<1>18. CASE MetricsDetach
  BY <1>0, <1>18 DEF MetricsDetach, PoolInv, PoolSizeExact, consVars, Live
<1>19. CASE UNCHANGED vars
  BY <1>1, <1>19 DEF vars, sizeVars, consVars, Live
<1> QED
  BY <1>3, <1>4, <1>5, <1>6, <1>7, <1>8, <1>9, <1>10, <1>11, <1>12, <1>13,
     <1>14, <1>15, <1>16, <1>17, <1>18, <1>19
  DEF Next, Worker, Temp, Consume, Dequeue, Scan, Wake, Metrics, Consumers

\* Every step keeps the types; nowSize stays in range because of PoolInv.
LEMMA TypeStep == TypeOK /\ PoolInv /\ [Next]_vars => TypeOK'
<1> SUFFICES ASSUME TypeOK, PoolInv, [Next]_vars PROVE TypeOK'
  OBVIOUS
<1> USE DEF TypeOK, Consumers
<1>1. ASSUME NEW c \in Consumers, NEW p \in Posters, DequeueNode(c, p) PROVE TypeOK'
  <2>1. <<p, headIndex[p] + 1>> \in Messages
    BY <1>1, BoundAssumption DEF DequeueNode, Messages
  <2>2. headIndex' \in [Posters -> 0..MaxPosts]
    BY <1>1, BoundAssumption DEF DequeueNode
  <2> QED
    BY <1>1, <2>1, <2>2 DEF DequeueNode, wakeVars, postVars, sizeVars
<1>2. ASSUME NEW c \in Consumers, NEW p \in Posters, SeeEmpty(c, p) PROVE TypeOK'
  BY <1>2 DEF SeeEmpty, queueVars, wakeVars, postVars, sizeVars
<1>3. ASSUME NEW c \in Consumers, Handle(c) PROVE TypeOK'
  BY <1>3 DEF Handle, queueVars, wakeVars, postVars, sizeVars
<1>4. ASSUME NEW w \in Workers, PushReady(w) PROVE TypeOK'
  <2>1. readyQueue' \in Seq(Workers)
    BY <1>4, AppendProperties DEF PushReady
  <2> QED
    BY <1>4, <2>1, ThreadAssumption DEF PushReady, queueVars, postVars, sizeVars
<1>5. ASSUME NEW w \in Workers, Receive(w) PROVE TypeOK'
  BY <1>5, ThreadAssumption DEF Receive, Resume, queueVars, postVars, sizeVars
<1>6. ASSUME NEW t \in Temps, TempRetry(t) PROVE TypeOK'
  BY <1>6 DEF TempRetry, queueVars, wakeVars, postVars, sizeVars
<1>7. ASSUME NEW t \in Temps, TempExit(t) PROVE TypeOK'
  <2>1. t \in Live
    BY <1>7 DEF TempExit, Live
  <2>2. Cardinality(Live) # 0
    BY <2>1, LiveFinite, FS_EmptySet
  <2>3. nowSize' \in 0..MaxSize
    BY <1>7, <2>2, LiveFinite, MinSizeType, SizeAssumption
    DEF TempExit, PoolInv, PoolSizeExact
  <2> QED
    BY <1>7, <2>3, ThreadAssumption DEF TempExit, queueVars, wakeVars, postVars
<1>8. ASSUME NEW p \in Posters, Enqueue(p) PROVE TypeOK'
  BY <1>8, BoundAssumption DEF Enqueue, wakeVars, consVars, sizeVars
<1>9. ASSUME NEW p \in Posters, PopReady(p) PROVE TypeOK'
  <2>1. CASE readyQueue # <<>>
    <3>1. Head(readyQueue) \in Workers /\ Tail(readyQueue) \in Seq(Workers)
      BY <2>1, HeadTailProperties
    <3>2. /\ readyIndex' = [readyIndex EXCEPT ![p] = Head(readyQueue)]
          /\ readyQueue' = Tail(readyQueue)
          /\ ppc' = [ppc EXCEPT ![p] = "send"]
          /\ UNCHANGED <<queueVars, channel, consVars, sizeVars, replies>>
      BY <1>9, <2>1 DEF PopReady
    <3>3. /\ readyIndex' \in [Posters -> Workers \cup {NoWorker}]
          /\ readyQueue' \in Seq(Workers)
          /\ ppc' \in [Posters -> {"idle", "pop", "send"}]
      BY <3>1, <3>2
    <3> QED
      BY <3>2, <3>3 DEF queueVars, consVars, sizeVars
  <2>2. CASE readyQueue = <<>>
    BY <1>9, <2>2 DEF PopReady, queueVars, consVars, sizeVars
  <2> QED
    BY <2>1, <2>2
<1>10. ASSUME NEW p \in Posters, TrySend(p) PROVE TypeOK'
  <2>1. CASE pc[readyIndex[p]] = "waiting"
    BY <1>10, <2>1 DEF TrySend, Resume, queueVars, sizeVars
  <2>2. CASE pc[readyIndex[p]] # "waiting"
    BY <1>10, <2>2 DEF TrySend, consVars, queueVars, sizeVars
  <2> QED
    BY <2>1, <2>2
<1>11. CASE MetricsSample
  BY <1>11, BoundAssumption DEF MetricsSample, queueVars, wakeVars, consVars, postVars
<1>12. CASE MetricsCheck
  BY <1>12 DEF MetricsCheck, queueVars, wakeVars, consVars, postVars
<1>13. CASE MetricsLoad
  BY <1>13 DEF MetricsLoad, queueVars, wakeVars, consVars, postVars
<1>14. CASE MetricsAdd
  BY <1>14, SizeAssumption DEF MetricsAdd, queueVars, wakeVars, consVars, postVars, PoolInv
<1>15. CASE MetricsSpawn
  <2>1. joinable' \subseteq 0..MaxSize
    BY <1>15 DEF MetricsSpawn
  <2> QED
    BY <1>15, <2>1, ThreadAssumption DEF MetricsSpawn, queueVars, wakeVars, postVars
<1>16. CASE MetricsDetach
  BY <1>16, BoundAssumption DEF MetricsDetach, queueVars, wakeVars, consVars, postVars
<1>17. CASE UNCHANGED vars
  BY <1>17 DEF vars, queueVars, wakeVars, consVars, postVars, sizeVars
<1> QED
  BY <1>1, <1>2, <1>3, <1>4, <1>5, <1>6, <1>7, <1>8, <1>9, <1>10, <1>11, <1>12,
     <1>13, <1>14, <1>15, <1>16, <1>17
  DEF Next, Worker, Temp, Consume, Dequeue, Scan, Wake, Metrics

\* The variables of LogicSystem always have their types; nowSize is a size_t
\* that threads decrement without a lock, and it never passes zero or maxSize.
THEOREM TypeCorrect == Spec => []TypeOK
<1>1. Init => TypeOK /\ PoolInv
  BY PoolInit
<1>2. TypeOK /\ PoolInv /\ [Next]_vars => (TypeOK /\ PoolInv)'
  BY TypeStep, PoolStep
<1> QED
  BY <1>1, <1>2, PTL DEF Spec

\* The pool invariant holds in every reachable state.
THEOREM PoolCorrect == Spec => []PoolInv
<1>1. Init => TypeOK /\ PoolInv
  BY PoolInit
<1>2. TypeOK /\ PoolInv /\ [Next]_vars => (TypeOK /\ PoolInv)'
  BY TypeStep, PoolStep
<1> QED
  BY <1>1, <1>2, PTL DEF Spec

\* nowSize counts the running threads exactly and never exceeds maxSize,
\* although metricsThread and the temporary threads update it without a lock.
THEOREM PoolSizeCorrect == Spec => []PoolSizeExact
<1>1. PoolInv => PoolSizeExact
  BY DEF PoolInv
<1> QED
  BY <1>1, PoolCorrect, PTL

\* metricsThread never assigns a slot of threads that is out of range or still
\* owns a running thread.
THEOREM SlotCorrect == Spec => []SlotFree
<1>1. TypeOK /\ PoolInv => SlotFree
  BY MinSizeType, SizeAssumption DEF PoolInv, SlotFree
<1> QED
  BY <1>1, TypeCorrect, PoolCorrect, PTL

-----------------------------------------------------------------------------
(* Wake-ups.  OnePermit is inductive given TypeOK.                           *)

\* Nobody is parked in the initial states.
LEMMA PermitInit == Init => OnePermit
BY EmptySeq DEF Init, OnePermit, Parked, InReady, Held, HeldBy, Consumers

\* A step that leaves every queue of wake-ups alone and parks or resumes nobody.
LEMMA PermitQuiet ==
  ASSUME TypeOK, OnePermit,
         UNCHANGED <<readyQueue, channel>>,
         \A p \in Posters : ppc'[p] = "send" =>
            ppc[p] = "send" /\ readyIndex'[p] = readyIndex[p],
         \A p \in Posters : ppc[p] = "send" => ppc'[p] = "send",
         \A w \in Workers : Parked(w)' <=> Parked(w),
         \A w \in Workers : pc[w] = "receive" <=> pc'[w] = "receive"
  PROVE  OnePermit'
<1>1. \A w \in Workers : (InReady(w)' <=> InReady(w)) /\ (Held(w)' <=> Held(w))
  BY DEF InReady, Held, HeldBy
<1> QED
  BY <1>1 DEF OnePermit

\* A worker that parks hands its wake-up to readyQueue.
LEMMA PermitPush ==
  ASSUME TypeOK, OnePermit, NEW w \in Workers, PushReady(w)
  PROVE  OnePermit'
<1>1. /\ readyQueue' \in Seq(Workers)
      /\ Len(readyQueue') = Len(readyQueue) + 1
      /\ \A i \in 1..Len(readyQueue) : readyQueue'[i] = readyQueue[i]
      /\ readyQueue'[Len(readyQueue) + 1] = w
      /\ Len(readyQueue) \in Nat
  BY AppendProperties, LenProperties DEF PushReady, TypeOK
<1>2. ~Parked(w) /\ ~InReady(w) /\ ~Held(w) /\ ~channel[w]
  BY DEF PushReady, OnePermit, Parked
<1>3. pc' = [pc EXCEPT ![w] = "receive"] /\ UNCHANGED <<channel, ppc, readyIndex>>
  BY DEF PushReady, postVars
<1>4. \A v \in Workers : Held(v)' <=> Held(v)
  BY <1>3 DEF Held, HeldBy
<1>5. \A v \in Workers : InReady(v)' <=> InReady(v) \/ v = w
  BY <1>1 DEF InReady
<1>6. \A v \in Workers \ {w} : pc'[v] = pc[v]
  BY <1>3 DEF TypeOK, Consumers
<1>7. pc'[w] = "receive"
  BY <1>3 DEF TypeOK, Consumers
<1>8. \A i, j \in 1..Len(readyQueue') : readyQueue'[i] = readyQueue'[j] => i = j
  BY <1>1, <1>2 DEF OnePermit, InReady
<1>9. \A v \in Workers :
        /\ InReady(v)' => Parked(v)' /\ ~channel'[v] /\ ~Held(v)'
        /\ Held(v)' => Parked(v)' /\ ~channel'[v]
        /\ channel'[v] => pc'[v] = "receive"
        /\ Parked(v)' => InReady(v)' \/ Held(v)' \/ channel'[v]
  BY <1>2, <1>3, <1>4, <1>5, <1>6, <1>7 DEF OnePermit, Parked
<1> QED
  BY <1>3, <1>8, <1>9 DEF OnePermit

\* A worker that finds a value in its channel resumes; else it suspends.
LEMMA PermitReceive ==
  ASSUME TypeOK, OnePermit, NEW w \in Workers, Receive(w)
  PROVE  OnePermit'
<1>1. UNCHANGED <<readyQueue, ppc, readyIndex>>
  BY DEF Receive, postVars
<1>2. \A v \in Workers : (InReady(v)' <=> InReady(v)) /\ (Held(v)' <=> Held(v))
  BY <1>1 DEF InReady, Held, HeldBy
<1>3. \A v \in Workers \ {w} : pc'[v] = pc[v] /\ channel'[v] = channel[v]
  BY DEF Receive, Resume, TypeOK, Consumers
<1>4. CASE channel[w]
  <2>1. pc'[w] = "dequeue" /\ ~channel'[w]
    BY <1>4 DEF Receive, Resume, TypeOK, Consumers
  <2>2. ~InReady(w) /\ ~Held(w)
    BY <1>4 DEF OnePermit
  <2> QED
    BY <1>1, <1>2, <1>3, <2>1, <2>2 DEF OnePermit, Parked
<1>5. CASE ~channel[w]
  <2>1. pc[w] = "receive" /\ pc'[w] = "waiting" /\ ~channel'[w]
    BY <1>5 DEF Receive, TypeOK, Consumers
  <2> QED
    BY <1>1, <1>2, <1>3, <1>5, <2>1 DEF OnePermit, Parked
<1> QED
  BY <1>4, <1>5

\* A poster takes the wake-up at the head of readyQueue.
LEMMA PermitPop ==
  ASSUME TypeOK, OnePermit, NEW p \in Posters, PopReady(p)
  PROVE  OnePermit'
<1>1. CASE readyQueue # <<>>
  <2> DEFINE h == Head(readyQueue)
  <2>1. /\ h \in Workers
        /\ h = readyQueue[1]
        /\ Len(readyQueue) \in Nat \ {0}
        /\ Len(readyQueue') = Len(readyQueue) - 1
        /\ \A i \in 1..Len(readyQueue') : readyQueue'[i] = readyQueue[i + 1]
    <3>1. readyQueue \in Seq(Workers) /\ readyQueue' = Tail(readyQueue)
      BY <1>1 DEF PopReady, TypeOK
    <3>2. Len(readyQueue) \in Nat \ {0}
      BY <1>1, <3>1, EmptySeq
    <3>3. h = readyQueue[1]
      BY <1>1, <3>1, <3>2
    <3>4. /\ h \in Workers
          /\ Len(readyQueue') = Len(readyQueue) - 1
          /\ \A i \in 1..Len(readyQueue') : readyQueue'[i] = readyQueue[i + 1]
      BY <1>1, <3>1, HeadTailProperties
    <3> QED
      BY <3>2, <3>3, <3>4
  <2>2. /\ ppc[p] = "pop" /\ ppc'[p] = "send" /\ readyIndex'[p] = h
        /\ \A q \in Posters \ {p} : ppc'[q] = ppc[q] /\ readyIndex'[q] = readyIndex[q]
        /\ UNCHANGED <<pc, channel>>
    BY <1>1 DEF PopReady, TypeOK, consVars
  <2>3. InReady(h) /\ ~Held(h) /\ Parked(h) /\ ~channel[h]
    <3>1. InReady(h)
      BY <2>1 DEF InReady
    <3> QED
      BY <2>1, <3>1 DEF OnePermit
  <2>4. \A v \in Workers : Held(v)' <=> Held(v) \/ v = h
    BY <2>2 DEF Held, HeldBy
  <2>5. \A v \in Workers : InReady(v)' <=> InReady(v) /\ v # h
    <3> SUFFICES ASSUME NEW v \in Workers PROVE InReady(v)' <=> InReady(v) /\ v # h
      OBVIOUS
    <3>1. ASSUME InReady(v)' PROVE InReady(v) /\ v # h
      <4>1. PICK i \in 1..Len(readyQueue') : readyQueue'[i] = v
        BY <3>1 DEF InReady
      <4>2. i + 1 \in 1..Len(readyQueue) /\ readyQueue[i + 1] = v /\ 1 \in 1..Len(readyQueue)
        BY <2>1, <4>1
      <4>3. v # h
        BY <2>1, <4>1, <4>2 DEF OnePermit
      <4> QED
        BY <4>2, <4>3 DEF InReady
    <3>2. ASSUME InReady(v), v # h PROVE InReady(v)'
      <4>1. PICK i \in 1..Len(readyQueue) : readyQueue[i] = v
        BY <3>2 DEF InReady
      <4>2. i - 1 \in 1..Len(readyQueue') /\ readyQueue'[i - 1] = v
        BY <2>1, <3>2, <4>1
      <4> QED
        BY <4>2 DEF InReady
    <3> QED
      BY <3>1, <3>2
  <2>6. \A i, j \in 1..Len(readyQueue') : readyQueue'[i] = readyQueue'[j] => i = j
    <3> SUFFICES ASSUME NEW i \in 1..Len(readyQueue'), NEW j \in 1..Len(readyQueue'),
                        readyQueue'[i] = readyQueue'[j]
                 PROVE  i = j
      OBVIOUS
    <3>1. /\ i + 1 \in 1..Len(readyQueue) /\ j + 1 \in 1..Len(readyQueue)
          /\ readyQueue[i + 1] = readyQueue[j + 1]
      BY <2>1
    <3> QED
      BY <3>1 DEF OnePermit
  <2>7. \A q, r \in Posters :
          ppc'[q] = "send" /\ ppc'[r] = "send" /\ readyIndex'[q] = readyIndex'[r] => q = r
    BY <2>2, <2>3 DEF OnePermit, Held, HeldBy
  <2>8. \A q \in Posters : ppc'[q] = "send" => readyIndex'[q] \in Workers
    BY <2>1, <2>2 DEF OnePermit
  <2>9. \A v \in Workers :
          /\ InReady(v)' => Parked(v)' /\ ~channel'[v] /\ ~Held(v)'
          /\ Held(v)' => Parked(v)' /\ ~channel'[v]
          /\ channel'[v] => pc'[v] = "receive"
          /\ Parked(v)' => InReady(v)' \/ Held(v)' \/ channel'[v]
    BY <2>2, <2>3, <2>4, <2>5 DEF OnePermit, Parked
  <2> QED
    BY <2>6, <2>7, <2>8, <2>9 DEF OnePermit
<1>2. CASE readyQueue = <<>>
  BY <1>2, PermitQuiet DEF PopReady, TypeOK, consVars, Parked
<1> QED
  BY <1>1, <1>2

\* A poster gives its wake-up to the worker, directly or through the channel.
LEMMA PermitSend ==
  ASSUME TypeOK, OnePermit, NEW p \in Posters, TrySend(p)
  PROVE  OnePermit'
<1> DEFINE w == readyIndex[p]
<1>1. ppc[p] = "send" /\ Held(w) /\ w \in Workers
  BY DEF TrySend, OnePermit, Held, HeldBy
<1>2. Parked(w) /\ ~channel[w] /\ ~InReady(w)
  BY <1>1 DEF OnePermit
<1>3. /\ ppc'[p] = "idle"
      /\ \A q \in Posters \ {p} : ppc'[q] = ppc[q] /\ readyIndex'[q] = readyIndex[q]
      /\ UNCHANGED readyQueue
  BY DEF TrySend, TypeOK
<1>4. \A v \in Workers : InReady(v)' <=> InReady(v)
  BY <1>3 DEF InReady
<1>5. \A v \in Workers : Held(v)' <=> Held(v) /\ v # w
  BY <1>1, <1>3 DEF OnePermit, Held, HeldBy
<1>6. \A v \in Workers \ {w} : pc'[v] = pc[v] /\ channel'[v] = channel[v]
  BY DEF TrySend, Resume, TypeOK, Consumers
<1>7. \/ pc'[w] = "dequeue" /\ ~channel'[w]
      \/ pc'[w] = "receive" /\ channel'[w]
  BY <1>1, <1>2 DEF TrySend, Resume, TypeOK, Consumers, Parked
<1>8. \A v \in Workers :
        /\ InReady(v)' => Parked(v)' /\ ~channel'[v] /\ ~Held(v)'
        /\ Held(v)' => Parked(v)' /\ ~channel'[v]
        /\ channel'[v] => pc'[v] = "receive"
        /\ Parked(v)' => InReady(v)' \/ Held(v)' \/ channel'[v]
  BY <1>2, <1>4, <1>5, <1>6, <1>7 DEF OnePermit, Parked
<1> QED
  BY <1>3, <1>8 DEF OnePermit

\* Every step preserves OnePermit.
LEMMA PermitStep == TypeOK /\ OnePermit /\ [Next]_vars => OnePermit'
<1> SUFFICES ASSUME TypeOK, OnePermit, [Next]_vars PROVE OnePermit'
  OBVIOUS
<1> USE DEF Parked, TypeOK, Consumers
<1>1. ASSUME NEW c \in Consumers, NEW p \in Posters, DequeueNode(c, p) PROVE OnePermit'
  BY <1>1, PermitQuiet DEF DequeueNode, wakeVars, postVars
<1>2. ASSUME NEW c \in Consumers, NEW p \in Posters, SeeEmpty(c, p) PROVE OnePermit'
  BY <1>2, PermitQuiet DEF SeeEmpty, wakeVars, postVars
<1>3. ASSUME NEW c \in Consumers, Handle(c) PROVE OnePermit'
  BY <1>3, PermitQuiet DEF Handle, wakeVars, postVars
<1>4. ASSUME NEW t \in Temps, TempRetry(t) PROVE OnePermit'
  BY <1>4, PermitQuiet DEF TempRetry, wakeVars, postVars
<1>5. ASSUME NEW t \in Temps, TempExit(t) PROVE OnePermit'
  BY <1>5, PermitQuiet, ThreadAssumption DEF TempExit, wakeVars, postVars
<1>6. ASSUME NEW p \in Posters, Enqueue(p) PROVE OnePermit'
  BY <1>6, PermitQuiet DEF Enqueue, wakeVars, consVars
<1>7. CASE MetricsSpawn
  BY <1>7, PermitQuiet, ThreadAssumption DEF MetricsSpawn, wakeVars, postVars
<1>8. CASE MetricsSample \/ MetricsCheck \/ MetricsLoad \/ MetricsAdd \/ MetricsDetach
  BY <1>8, PermitQuiet
  DEF MetricsSample, MetricsCheck, MetricsLoad, MetricsAdd, MetricsDetach,
      wakeVars, consVars, postVars
<1>9. CASE UNCHANGED vars
  BY <1>9, PermitQuiet DEF vars, wakeVars, consVars, postVars
<1> QED
  BY <1>1, <1>2, <1>3, <1>4, <1>5, <1>6, <1>7, <1>8, <1>9,
     PermitPush, PermitReceive, PermitPop, PermitSend
  DEF Next, Worker, Temp, Consume, Dequeue, Scan, Wake, Metrics

\* No wake-up of a worker is lost or duplicated, whatever the interleaving: in
\* particular try_send never meets a full channel, whose failure nobody checks.
THEOREM PermitCorrect == Spec => []OnePermit
<1>1. Init => OnePermit
  BY PermitInit
<1>2. TypeOK /\ OnePermit /\ [Next]_vars => OnePermit'
  BY PermitStep
<1> QED
  BY <1>1, <1>2, TypeCorrect, PTL DEF Spec

-----------------------------------------------------------------------------
(* Messages.                                                                *)

\* Taken(m) holds once a consumer has dequeued m.
Taken(m) == m[2] <= headIndex[m[1]]

\* A message is handled by the consumer that dequeued it and by no other, and
\* a handled message is behind its sub-queue's head for ever.
MessageInv ==
  /\ \A p \in Posters : headIndex[p] <= tailIndex[p]
  /\ \A c \in Consumers : pc[c] = "handle" =>
        nowNode[c] \in Messages /\ Taken(nowNode[c]) /\ replies[nowNode[c]] = 0
  /\ \A c, d \in Consumers :
        pc[c] = "handle" /\ pc[d] = "handle" /\ nowNode[c] = nowNode[d] => c = d
  /\ \A m \in Messages : replies[m] <= 1 /\ (replies[m] = 1 => Taken(m))

\* MessageInv holds initially.
LEMMA MessageInit == Init => MessageInv
BY ThreadAssumption, BoundAssumption DEF Init, MessageInv, Consumers, Messages

\* A message is a poster and a number.
LEMMA MessageType ==
  ASSUME NEW m \in Messages
  PROVE  m[1] \in Posters /\ m[2] \in 1..MaxPosts /\ m = <<m[1], m[2]>>
BY DEF Messages

\* A step that neither takes nor handles a message.
LEMMA MessageQuiet ==
  ASSUME TypeOK, TypeOK', MessageInv,
         UNCHANGED <<headIndex, replies>>,
         \A p \in Posters : tailIndex[p] <= tailIndex'[p],
         \A c \in Consumers : pc'[c] = "handle" =>
            pc[c] = "handle" /\ nowNode'[c] = nowNode[c]
  PROVE  MessageInv'
<1>1. \A p \in Posters : headIndex'[p] <= tailIndex'[p]
  <2> SUFFICES ASSUME NEW p \in Posters PROVE headIndex[p] <= tailIndex'[p]
    OBVIOUS
  <2>1. headIndex[p] \in Nat /\ tailIndex[p] \in Nat /\ tailIndex'[p] \in Nat
    BY DEF TypeOK
  <2> QED
    BY <2>1 DEF MessageInv
<1> QED
  BY <1>1 DEF MessageInv, Taken

\* The same when neither tails nor the consumers' messages change.
LEMMA MessageIdle ==
  ASSUME TypeOK, TypeOK', MessageInv,
         UNCHANGED <<headIndex, tailIndex, replies>>,
         \A c \in Consumers : pc'[c] = "handle" =>
            pc[c] = "handle" /\ nowNode'[c] = nowNode[c]
  PROVE  MessageInv'
<1>1. \A p \in Posters : tailIndex[p] <= tailIndex'[p]
  <2> SUFFICES ASSUME NEW p \in Posters PROVE tailIndex[p] <= tailIndex[p]
    OBVIOUS
  <2> QED
    BY DEF TypeOK
<1> QED
  BY <1>1, MessageQuiet

\* try_dequeue gives the message at the head, which nobody has taken before.
LEMMA MessageDequeue ==
  ASSUME TypeOK, MessageInv, NEW c \in Consumers, NEW p \in Posters, DequeueNode(c, p)
  PROVE  MessageInv'
<1> DEFINE m == <<p, headIndex[p] + 1>>
<1>1. /\ headIndex[p] \in 0..MaxPosts /\ tailIndex[p] \in 0..MaxPosts
      /\ headIndex[p] < tailIndex[p]
  BY DEF DequeueNode, TypeOK
<1>2. m \in Messages
  BY <1>1, BoundAssumption DEF Messages
<1>3. /\ headIndex'[p] = headIndex[p] + 1
      /\ \A q \in Posters \ {p} : headIndex'[q] = headIndex[q]
      /\ pc'[c] = "handle" /\ nowNode'[c] = m
      /\ \A d \in Consumers \ {c} : pc'[d] = pc[d] /\ nowNode'[d] = nowNode[d]
      /\ UNCHANGED <<tailIndex, replies>>
  BY DEF DequeueNode, TypeOK
<1>4. \A n \in Messages : Taken(n) => Taken(n)' /\ n # m
  <2> SUFFICES ASSUME NEW n \in Messages, Taken(n) PROVE Taken(n)' /\ n # m
    OBVIOUS
  <2>1. n[1] \in Posters /\ n[2] \in 1..MaxPosts /\ headIndex[n[1]] \in 0..MaxPosts
    BY MessageType DEF TypeOK
  <2>2. CASE n[1] = p
    BY <1>1, <1>3, <2>1, <2>2 DEF Taken
  <2>3. CASE n[1] # p
    BY <1>3, <2>1, <2>3 DEF Taken
  <2> QED
    BY <2>2, <2>3
<1>5. m[2] <= headIndex'[m[1]] /\ ~Taken(m)
  BY <1>1, <1>3 DEF Taken
<1>6. \A n \in Messages : replies[n] \in Nat
  BY DEF TypeOK
<1>7. replies[m] = 0
  BY <1>2, <1>5, <1>6 DEF MessageInv
<1>8. \A q \in Posters : headIndex'[q] <= tailIndex'[q]
  BY <1>1, <1>3 DEF MessageInv
<1>9. \A d \in Consumers : pc'[d] = "handle" =>
        nowNode'[d] \in Messages /\ Taken(nowNode[d])' /\ replies'[nowNode'[d]] = 0
  BY <1>2, <1>3, <1>4, <1>5, <1>7 DEF MessageInv, Taken
<1>10. \A d, e \in Consumers :
        pc'[d] = "handle" /\ pc'[e] = "handle" /\ nowNode'[d] = nowNode'[e] => d = e
  BY <1>3, <1>4 DEF MessageInv
<1>11. \A n \in Messages : replies'[n] <= 1 /\ (replies'[n] = 1 => Taken(n)')
  BY <1>3, <1>4 DEF MessageInv
<1> QED
  BY <1>8, <1>9, <1>10, <1>11 DEF MessageInv, Taken

\* Handling a message counts one reply for it, or none if its id is unknown.
LEMMA MessageHandle ==
  ASSUME TypeOK, MessageInv, NEW c \in Consumers, Handle(c)
  PROVE  MessageInv'
<1>1. /\ pc[c] = "handle" /\ pc'[c] = "dequeue"
      /\ \A d \in Consumers \ {c} : pc'[d] = pc[d]
      /\ UNCHANGED <<headIndex, tailIndex, nowNode>>
  BY DEF Handle, TypeOK, queueVars
<1>2. /\ nowNode[c] \in Messages /\ Taken(nowNode[c]) /\ replies[nowNode[c]] = 0
  BY <1>1 DEF MessageInv
<1>3. \A m \in Messages :
        \/ replies'[m] = replies[m]
        \/ m = nowNode[c] /\ replies'[m] = 1
  BY <1>2 DEF Handle
<1>4. \A d \in Consumers : pc'[d] = "handle" =>
        pc[d] = "handle" /\ nowNode[d] # nowNode[c]
  BY <1>1 DEF MessageInv
<1>5. \A d \in Consumers : pc'[d] = "handle" =>
        nowNode'[d] \in Messages /\ Taken(nowNode[d])' /\ replies'[nowNode'[d]] = 0
  BY <1>1, <1>3, <1>4 DEF MessageInv, Taken
<1>6. \A m \in Messages : replies'[m] <= 1 /\ (replies'[m] = 1 => Taken(m)')
  BY <1>1, <1>2, <1>3 DEF MessageInv, Taken
<1>7. \A d, e \in Consumers :
        pc'[d] = "handle" /\ pc'[e] = "handle" /\ nowNode'[d] = nowNode'[e] => d = e
  BY <1>1, <1>4 DEF MessageInv
<1> QED
  BY <1>1, <1>5, <1>6, <1>7 DEF MessageInv, Taken

\* Every step preserves MessageInv.
LEMMA MessageStep == TypeOK /\ TypeOK' /\ MessageInv /\ [Next]_vars => MessageInv'
<1> SUFFICES ASSUME TypeOK, TypeOK', MessageInv, [Next]_vars PROVE MessageInv'
  OBVIOUS
<1>1. ASSUME NEW c \in Consumers, NEW p \in Posters, SeeEmpty(c, p) PROVE MessageInv'
  BY <1>1, MessageIdle DEF SeeEmpty, queueVars
<1>2. ASSUME NEW w \in Workers, PushReady(w) PROVE MessageInv'
  BY <1>2, MessageIdle DEF PushReady, queueVars, TypeOK, Consumers
<1>3. ASSUME NEW w \in Workers, Receive(w) PROVE MessageInv'
  <2>1. \A c \in Consumers : pc'[c] = "handle" => c # w /\ pc[c] = "handle"
    BY <1>3 DEF Receive, Resume, TypeOK, Consumers
  <2>2. \A c \in Consumers \ {w} : nowNode'[c] = nowNode[c]
    BY <1>3 DEF Receive, Resume, TypeOK, Consumers
  <2> QED
    BY <1>3, <2>1, <2>2, MessageIdle DEF Receive, queueVars
<1>4. ASSUME NEW t \in Temps, TempRetry(t) PROVE MessageInv'
  BY <1>4, MessageIdle DEF TempRetry, queueVars, TypeOK, Consumers
<1>5. ASSUME NEW t \in Temps, TempExit(t) PROVE MessageInv'
  BY <1>5, MessageIdle DEF TempExit, queueVars, TypeOK, Consumers
<1>6. ASSUME NEW p \in Posters, Enqueue(p) PROVE MessageInv'
  <2>1. \A q \in Posters : tailIndex[q] <= tailIndex'[q]
    <3> SUFFICES ASSUME NEW q \in Posters PROVE tailIndex[q] <= tailIndex'[q]
      OBVIOUS
    <3>1. tailIndex[q] \in Nat
      BY DEF TypeOK
    <3>2. UNCHANGED tailIndex \/ tailIndex' = [tailIndex EXCEPT ![p] = @ + 1]
      BY <1>6 DEF Enqueue
    <3>3. CASE UNCHANGED tailIndex
      BY <3>1, <3>3
    <3>4. CASE tailIndex' = [tailIndex EXCEPT ![p] = @ + 1]
      <4>1. tailIndex'[q] = IF q = p THEN tailIndex[q] + 1 ELSE tailIndex[q]
        BY <3>4 DEF TypeOK
      <4> QED
        BY <3>1, <4>1
    <3> QED
      BY <3>2, <3>3, <3>4
  <2> QED
    BY <1>6, <2>1, MessageQuiet DEF Enqueue, consVars
<1>7. ASSUME NEW p \in Posters, PopReady(p) PROVE MessageInv'
  BY <1>7, MessageIdle DEF PopReady, queueVars, consVars
<1>8. ASSUME NEW p \in Posters, TrySend(p) PROVE MessageInv'
  <2>1. CASE pc[readyIndex[p]] = "waiting"
    <3>1. pc' = [pc EXCEPT ![readyIndex[p]] = "dequeue"]
          /\ nowNode' = [nowNode EXCEPT ![readyIndex[p]] = NoNode]
      BY <1>8, <2>1 DEF TrySend, Resume
    <3>2. \A c \in Consumers : pc'[c] = "handle" =>
            pc[c] = "handle" /\ nowNode'[c] = nowNode[c]
      BY <3>1 DEF TypeOK
    <3> QED
      BY <1>8, <3>2, MessageIdle DEF TrySend, queueVars
  <2>2. CASE pc[readyIndex[p]] # "waiting"
    BY <1>8, <2>2, MessageIdle DEF TrySend, queueVars
  <2> QED
    BY <2>1, <2>2
<1>9. CASE MetricsSpawn
  BY <1>9, MessageIdle DEF MetricsSpawn, queueVars, TypeOK, Consumers
<1>10. CASE MetricsSample \/ MetricsCheck \/ MetricsLoad \/ MetricsAdd \/ MetricsDetach
  BY <1>10, MessageIdle
  DEF MetricsSample, MetricsCheck, MetricsLoad, MetricsAdd, MetricsDetach,
      queueVars, consVars
<1>11. CASE UNCHANGED vars
  BY <1>11, MessageIdle DEF vars, queueVars, consVars
<1> QED
  BY <1>1, <1>2, <1>3, <1>4, <1>5, <1>6, <1>7, <1>8, <1>9, <1>10, <1>11,
     MessageDequeue, MessageHandle
  DEF Next, Worker, Temp, Consume, Dequeue, Scan, Wake, Metrics, Consumers

\* MessageInv holds in every reachable state.
THEOREM MessageCorrect == Spec => []MessageInv
<1>1. Init => MessageInv
  BY MessageInit
<1>2. TypeOK /\ TypeOK' /\ MessageInv /\ [Next]_vars => MessageInv'
  BY MessageStep
<1> QED
  BY <1>1, <1>2, TypeCorrect, PTL DEF Spec

\* No message is handled twice, and none that is still queued, whatever the
\* number of workers and temporary threads that dequeue concurrently.
THEOREM HandledOnceCorrect == Spec => []HandledOnce
<1>1. TypeOK /\ MessageInv => HandledOnce
  <2> SUFFICES ASSUME TypeOK, MessageInv PROVE HandledOnce
    OBVIOUS
  <2>1. \A m \in Messages : Taken(m) => m \notin Queued
    <3> SUFFICES ASSUME NEW m \in Messages, Taken(m) PROVE m \notin Queued
      OBVIOUS
    <3>1. headIndex[m[1]] \in Nat /\ m[2] \in Nat
      BY MessageType DEF TypeOK
    <3> QED
      BY <3>1 DEF Taken, Queued
  <2> QED
    BY <2>1 DEF MessageInv, HandledOnce
<1> QED
  BY <1>1, TypeCorrect, MessageCorrect, PTL

\* LogicSystem implements MessageDelivery: postMessageToQueue posts, a callback
\* answers a posted message for the first time, and nothing else does either.
THEOREM DeliverySafety == Spec => Delivery!Spec
<1>1. Init => Delivery!Init
  <2> SUFFICES ASSUME Init PROVE Delivery!Init
    OBVIOUS
  <2>1. \A m \in Messages : ~(m[2] <= tailIndex[m[1]])
    BY MessageType, BoundAssumption DEF Init
  <2> QED
    BY <2>1 DEF Init, Delivery!Init, Posted
<1>2. TypeOK /\ MessageInv /\ [Next]_vars => [Delivery!Next]_(Delivery!vars)
  <2> SUFFICES ASSUME TypeOK, MessageInv, [Next]_vars
               PROVE  [Delivery!Next]_(Delivery!vars)
    OBVIOUS
  <2>1. ASSUME UNCHANGED <<tailIndex, replies>> PROVE UNCHANGED Delivery!vars
    BY <2>1 DEF Delivery!vars, Posted
  <2>2. ASSUME NEW p \in Posters, Enqueue(p), ~UNCHANGED tailIndex
        PROVE  \E m \in Messages : Delivery!Post(m)
    <3>1. tailIndex[p] \in 0..MaxPosts /\ tailIndex[p] < MaxPosts
      BY <2>2 DEF Enqueue, TypeOK
    <3>2. PICK m \in Messages : m = <<p, tailIndex[p] + 1>>
      <4>1. tailIndex[p] + 1 \in 1..MaxPosts
        BY <3>1, BoundAssumption
      <4> QED
        BY <4>1 DEF Messages
    <3>3. tailIndex'[p] = tailIndex[p] + 1 /\ UNCHANGED replies
          /\ \A q \in Posters \ {p} : tailIndex'[q] = tailIndex[q]
      BY <2>2 DEF Enqueue, TypeOK
    <3>4. m \notin Posted
      <4>1. ~(m[2] <= tailIndex[m[1]])
        BY <3>1, <3>2
      <4> QED
        BY <4>1 DEF Posted
    <3>5. ASSUME NEW n \in Messages PROVE n \in Posted' <=> n \in Posted \/ n = m
      <4>1. n[1] \in Posters /\ n[2] \in Nat /\ n = <<n[1], n[2]>>
            /\ tailIndex[n[1]] \in Nat
        BY MessageType DEF TypeOK
      <4>2. CASE n[1] = p
        BY <3>1, <3>2, <3>3, <4>1, <4>2 DEF Posted
      <4>3. CASE n[1] # p
        BY <3>2, <3>3, <4>1, <4>3 DEF Posted
      <4> QED
        BY <4>2, <4>3
    <3>6. Posted' = Posted \cup {m}
      <4>1. Posted \subseteq Messages /\ Posted' \subseteq Messages
        BY DEF Posted
      <4> QED
        BY <3>5, <4>1
    <3> QED
      BY <3>3, <3>4, <3>6 DEF Delivery!Post
  <2>3. ASSUME NEW c \in Consumers, Handle(c)
        PROVE  UNCHANGED Delivery!vars \/ \E m \in Known : Delivery!Answer(m)
    <3>1. PICK m \in Messages : m = nowNode[c] /\ Taken(m) /\ replies[m] = 0
      BY <2>3 DEF Handle, MessageInv
    <3>2. m \in Posted
      <4>1. /\ headIndex[m[1]] \in Nat /\ tailIndex[m[1]] \in Nat /\ m[2] \in Nat
            /\ headIndex[m[1]] <= tailIndex[m[1]]
        BY MessageType DEF TypeOK, MessageInv
      <4> QED
        BY <3>1, <4>1 DEF Posted, Taken
    <3>3. Posted' = Posted
      BY <2>3 DEF Handle, queueVars, Posted
    <3>4. CASE m \in Known
      <4> DEFINE r == [replies EXCEPT ![m] = 1]
      <4>1. DOMAIN replies' = Messages /\ DOMAIN r = Messages
        BY <2>3 DEF Handle, TypeOK
      <4>2. \A n \in Messages : replies'[n] = r[n]
        BY <2>3, <3>1, <3>4 DEF Handle, TypeOK
      <4>3. replies' = r
        BY <2>3, <4>1, <4>2 DEF Handle, TypeOK
      <4> QED
        BY <3>1, <3>2, <3>3, <3>4, <4>3 DEF Delivery!Answer
    <3>5. CASE m \notin Known
      <4>1. \A n \in Messages : ~(n = nowNode[c] /\ n \in Known)
        BY <3>1, <3>5
      <4>2. DOMAIN replies' = Messages /\ DOMAIN replies = Messages
        BY <2>3 DEF Handle, TypeOK
      <4>3. \A n \in Messages : replies'[n] = replies[n]
        BY <2>3, <4>1 DEF Handle
      <4>4. replies' = replies
        BY <2>3, <4>2, <4>3 DEF Handle, TypeOK
      <4> QED
        BY <3>3, <4>4 DEF Delivery!vars
    <3> QED
      BY <3>4, <3>5
  <2>4. CASE \/ \E c \in Consumers : Dequeue(c) \/ Scan(c)
             \/ \E w \in Workers : PushReady(w) \/ Receive(w)
             \/ \E t \in Temps : TempRetry(t) \/ TempExit(t)
    BY <2>1, <2>4
    DEF Dequeue, Scan, DequeueNode, SeeEmpty, PushReady, Receive, TempRetry, TempExit,
        queueVars
  <2>5. CASE (\E p \in Posters : Wake(p)) \/ Metrics \/ UNCHANGED vars
    BY <2>1, <2>5
    DEF Wake, PopReady, TrySend, Metrics, MetricsSample, MetricsCheck, MetricsLoad,
        MetricsAdd, MetricsSpawn, MetricsDetach, vars, queueVars
  <2>6. ASSUME NEW p \in Posters, Enqueue(p), UNCHANGED tailIndex
        PROVE  UNCHANGED Delivery!vars
    BY <2>1, <2>6 DEF Enqueue
  <2>7. ASSUME NEW p \in Posters, Enqueue(p) PROVE [Delivery!Next]_(Delivery!vars)
    BY <2>2, <2>6, <2>7 DEF Delivery!Next
  <2> QED
    BY <2>3, <2>4, <2>5, <2>7 DEF Next, Worker, Temp, Consume, Consumers, Delivery!Next
<1> QED
  BY <1>1, <1>2, TypeCorrect, MessageCorrect, PTL DEF Spec, Delivery!Spec
=============================================================================

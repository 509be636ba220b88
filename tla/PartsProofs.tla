----------------------------- MODULE PartsProofs -----------------------------
(***************************************************************************)
(* Proofs about the four parts of MCParts, each for every value of its     *)
(* constants: the pool of I/O threads (AsioProactors), the task pool       *)
(* (SessionSendThread), the copy routines (FastMemcpy) and messages on a   *)
(* stream (Framing); at the end the four of them side by side.             *)
(***************************************************************************)
EXTENDS MCParts, Integers, SequenceTheorems, FiniteSetTheorems, WellFoundedInduction, TLAPS

-----------------------------------------------------------------------------
(* The pool of I/O threads: AsioProactors.                                  *)
(*                                                                         *)
(* PoolInv relates the monitor's position to the pool: it pins the slot    *)
(* the monitor works on to nowSize, above every context of the constructor. *)

\* What the properties rest on.
MonitorInv ==
  /\ mpc = "growing" => index = nowSize - 1 /\ index >= MinSize
  /\ mpc \in {"stopping", "joining"} => index = nowSize /\ nowSize < MaxSize
  /\ mpc = "ended" => isStop
  /\ spc \in {"joinThreads", "done"} => mpc = "ended"
  /\ isStop <=> spc \notin {"none", "leaving"}

PoolInv ==
  /\ MonitorInv
  /\ gpc = "idle" => loadBalancing < MaxSize
  /\ ThreadsMatchSize
  /\ BaseContextsServe

\* The initial states satisfy the type and the invariant.
LEMMA PoolInit == Init => TypeOK /\ PoolInv
<1> SUFFICES ASSUME Init PROVE TypeOK /\ PoolInv
  OBVIOUS
<1> USE SizeAssumption DEF Init
<1>1. TypeOK
  <2>1. isStop \in BOOLEAN
    BY Zenon
  <2>2. 0 \in Slots /\ 0..(MinSize - 1) \subseteq Slots
    BY DEF Slots
  <2>3. threads \in [Slots -> {"none", "running", "returned"}]
    OBVIOUS
  <2> QED
    BY <2>1, <2>2, <2>3 DEF TypeOK
<1>2. MonitorInv
  BY DEF MonitorInv
<1>3. ThreadsMatchSize
  BY DEF ThreadsMatchSize, Slots
<1>4. BaseContextsServe
  BY DEF BaseContextsServe, Slots
<1>5. gpc = "idle" => loadBalancing < MaxSize
  OBVIOUS
<1> QED
  BY <1>1, <1>2, <1>3, <1>4, <1>5 DEF PoolInv

\* Every step preserves the types; nowSize keeps within its bounds although the
\* comparison and the fetch_add are two accesses.
LEMMA TypeStep == TypeOK /\ PoolInv /\ [Next]_vars => TypeOK'
<1> SUFFICES ASSUME TypeOK, PoolInv, [Next]_vars PROVE TypeOK'
  OBVIOUS
<1> USE SizeAssumption DEF Slots, TypeOK, monitorVars, poolVars, pickVars, stopVars
<1>1. CASE Grow
  BY <1>1 DEF Grow
<1>2. CASE Shrink
  BY <1>2 DEF Shrink
<1>3. CASE StartThread
  BY <1>3 DEF StartThread
<1>4. CASE StopContext
  BY <1>4 DEF StopContext
<1>5. CASE JoinThread
  BY <1>5 DEF JoinThread
<1>6. CASE MonitorEnds
  BY <1>6 DEF MonitorEnds
<1>7. CASE Balance
  BY <1>7 DEF Balance, PoolInv
<1>8. CASE Choose
  <2>1. balancing % nowSize \in 0..(nowSize - 1)
    OBVIOUS
  <2> QED
    BY <1>8, <2>1 DEF Choose
<1>9. CASE Wrap
  BY <1>9 DEF Wrap
<1>10. CASE Signal
  BY <1>10 DEF Signal
<1>11. CASE StopBegins
  BY <1>11 DEF StopBegins
<1>12. CASE StopContexts \/ StopEnds
  BY <1>12 DEF StopContexts, StopEnds
<1>13. ASSUME NEW i \in Slots, RunReturns(i) PROVE TypeOK'
  BY <1>13 DEF RunReturns
<1>14. CASE UNCHANGED vars
  BY <1>14 DEF vars
<1> QED
  BY <1>1, <1>2, <1>3, <1>4, <1>5, <1>6, <1>7, <1>8, <1>9, <1>10, <1>11, <1>12,
     <1>13, <1>14
  DEF Next, Resize, Monitor, GetIoComplatePorts, Choosing, Stop

\* Every step preserves the monitor's part.
LEMMA MonitorStep == TypeOK /\ PoolInv /\ [Next]_vars => MonitorInv'
<1> SUFFICES ASSUME TypeOK, MonitorInv, [Next]_vars PROVE MonitorInv'
  BY DEF PoolInv
<1> USE SizeAssumption DEF TypeOK, MonitorInv, monitorVars, poolVars, pickVars, stopVars
<1>1. CASE Resize
  BY <1>1 DEF Resize, Grow, Shrink
<1>2. CASE Monitor
  BY <1>2 DEF Monitor, StartThread, StopContext, JoinThread, MonitorEnds
<1>3. CASE GetIoComplatePorts
  BY <1>3 DEF GetIoComplatePorts, Choosing, Balance, Choose, Wrap
<1>4. CASE Signal \/ StopBegins \/ Stop
  BY <1>4 DEF Signal, StopBegins, Stop, StopContexts, StopEnds
<1>5. ASSUME NEW i \in Slots, RunReturns(i) PROVE MonitorInv'
  BY <1>5 DEF RunReturns
<1>6. CASE UNCHANGED vars
  BY <1>6 DEF vars
<1> QED
  BY <1>1, <1>2, <1>3, <1>4, <1>5, <1>6 DEF Next

\* Every step preserves the rest: only the slot at index changes its thread
\* between none and running, and index is never one of the constructor's.
LEMMA PoolStep == TypeOK /\ PoolInv /\ [Next]_vars => PoolInv'
<1> SUFFICES ASSUME TypeOK, PoolInv, [Next]_vars PROVE PoolInv'
  OBVIOUS
<1>0. MonitorInv'
  BY MonitorStep
<1> USE SizeAssumption DEF Slots, TypeOK, MonitorInv, PoolInv, ThreadsMatchSize,
        BaseContextsServe, monitorVars, poolVars, pickVars, stopVars
<1>1. CASE Grow
  BY <1>0, <1>1 DEF Grow
<1>2. CASE Shrink
  BY <1>0, <1>2 DEF Shrink
<1>3. CASE StartThread
  BY <1>0, <1>3 DEF StartThread
<1>4. CASE StopContext
  BY <1>0, <1>4 DEF StopContext
<1>5. CASE JoinThread
  BY <1>0, <1>5 DEF JoinThread
<1>6. CASE MonitorEnds
  BY <1>0, <1>6 DEF MonitorEnds
<1>7. CASE GetIoComplatePorts
  BY <1>0, <1>7 DEF GetIoComplatePorts, Choosing, Balance, Choose, Wrap
<1>8. CASE Signal \/ StopBegins
  BY <1>0, <1>8 DEF Signal, StopBegins
<1>9. CASE Stop
  BY <1>0, <1>9 DEF Stop, StopContexts, StopEnds
<1>10. ASSUME NEW i \in Slots, RunReturns(i) PROVE PoolInv'
  BY <1>0, <1>10 DEF RunReturns
<1>11. CASE UNCHANGED vars
  BY <1>0, <1>11 DEF vars
<1> QED
  BY <1>1, <1>2, <1>3, <1>4, <1>5, <1>6, <1>7, <1>8, <1>9, <1>10, <1>11
  DEF Next, Resize, Monitor

\* The invariant holds in every reachable state.
LEMMA PoolCorrect == Spec => [](TypeOK /\ PoolInv)
<1>1. TypeOK /\ PoolInv /\ [Next]_vars => (TypeOK /\ PoolInv)'
  BY TypeStep, PoolStep
<1> QED
  BY <1>1, PoolInit, PTL DEF Spec

\* Every variable keeps its type: nowSize stays between minSize and maxSize, and
\* the context getIoComplatePorts returns is one of the pool.
THEOREM TypeCorrect == Spec => []TypeOK
BY PoolCorrect, PTL

\* No joinable std::thread is assigned to and every join finds a thread, for
\* every interleaving of the monitor, the I/O threads and stop().
THEOREM ThreadsCorrect == Spec => []ThreadsMatchSize
<1>1. PoolInv => ThreadsMatchSize
  BY DEF PoolInv
<1> QED
  BY <1>1, PoolCorrect, PTL

\* The monitor never stops one of the constructor's contexts.
THEOREM BaseCorrect == Spec => []BaseContextsServe
<1>1. PoolInv => BaseContextsServe
  BY DEF PoolInv
<1> QED
  BY <1>1, PoolCorrect, PTL

-----------------------------------------------------------------------------
(* The task pool: SessionSendThread.                                        *)

\* A queue that is not empty gives a task and keeps its type.
LEMMA QueueTake ==
  ASSUME task_queues \in Seq(Tasks), task_queues # <<>>
  PROVE  /\ Head(task_queues) \in Tasks /\ Tail(task_queues) \in Seq(Tasks)
         /\ Len(Tail(task_queues)) = Len(task_queues) - 1
BY HeadTailProperties

\* Every step preserves the types; threadCount never passes size.
LEMMA SendTypeStep == PoolTypeOK /\ [SendNext]_sendVars => PoolTypeOK'
<1> SUFFICES ASSUME PoolTypeOK, [SendNext]_sendVars PROVE PoolTypeOK'
  OBVIOUS
<1>0. Size \in Nat
  BY WorkersAssumption, FS_CardinalityType DEF Size
<1> USE DEF PoolTypeOK, Goto, taskVars
<1>1. ASSUME NEW t \in Tasks, CommitTask(t) PROVE PoolTypeOK'
  <2>1. task_queues' \in Seq(Tasks)
    BY <1>1, AppendProperties DEF CommitTask
  <2>2. wpc' \in [Workers -> {"top", "wait", "waiting", "run", "returned"}]
    BY <1>1 DEF CommitTask, NotifyOne
  <2> QED
    BY <1>0, <1>1, <2>1, <2>2 DEF CommitTask
<1>2. ASSUME NEW w \in Workers, Top(w) PROVE PoolTypeOK'
  BY <1>2 DEF Top
<1>3. ASSUME NEW w \in Workers, Wait(w) PROVE PoolTypeOK'
  <2>1. CASE task_queues # <<>> /\ ~sendStop
    <3>1. Head(task_queues) \in Tasks /\ Tail(task_queues) \in Seq(Tasks)
      BY <2>1, QueueTake
    <3>2. func' \in [Workers -> {<<>>} \cup {<<t>> : t \in Tasks}]
      BY <1>3, <2>1, <3>1 DEF Wait, TakeTask
    <3> QED
      BY <1>3, <2>1, <3>1, <3>2 DEF Wait, TakeTask
  <2>2. CASE ~(task_queues # <<>> /\ ~sendStop)
    <3>1. threadCount' \in Int /\ threadCount' <= Size
      BY <1>0, <1>3, <2>2 DEF Wait, CountIdle
    <3> QED
      BY <1>3, <2>2, <3>1 DEF Wait
  <2> QED
    BY <2>1, <2>2
<1>4. ASSUME NEW w \in Workers, SpuriousWakeup(w) PROVE PoolTypeOK'
  BY <1>4 DEF SpuriousWakeup
<1>5. ASSUME NEW w \in Workers, RunTask(w) PROVE PoolTypeOK'
  <2>1. func[w] \in Seq(Tasks)
    <3>1. CASE func[w] = <<>>
      BY <3>1, EmptySeq
    <3>2. ASSUME NEW t \in Tasks, func[w] = <<t>> PROVE func[w] \in Seq(Tasks)
      BY <3>2
    <3> QED
      BY <3>1, <3>2
  <2>2. ran' \in Seq(Tasks)
    BY <1>5, <2>1, ConcatProperties DEF RunTask
  <2> QED
    BY <1>5, <2>2 DEF RunTask
<1>6. CASE SetStop \/ JoinAll
  BY <1>6 DEF SetStop, JoinAll
<1>7. CASE NotifyAll
  BY <1>7 DEF NotifyAll
<1>8. CASE UNCHANGED sendVars
  BY <1>8 DEF sendVars
<1> QED
  BY <1>1, <1>2, <1>3, <1>4, <1>5, <1>6, <1>7, <1>8 DEF SendNext, Work

\* Given the types NoTaskSleeps is inductive: a commit adds a task and, if anybody
\* waits, an awake worker; a worker that takes a task stays awake, and one goes to
\* sleep only when no task is left.
LEMMA SleepStep == PoolTypeOK /\ NoTaskSleeps /\ [SendNext]_sendVars => NoTaskSleeps'
<1> SUFFICES ASSUME PoolTypeOK, NoTaskSleeps, [SendNext]_sendVars PROVE NoTaskSleeps'
  OBVIOUS
<1> DEFINE awake == Workers \ Waiting
<1>0. IsFiniteSet(awake) /\ Cardinality(awake) \in Nat /\ Len(task_queues) \in Nat
  BY WorkersAssumption, FS_Subset, FS_CardinalityType, LenProperties DEF PoolTypeOK
<1> USE DEF Goto, taskVars
<1>1. ASSUME NEW t \in Tasks, CommitTask(t) PROVE NoTaskSleeps'
  <2>1. CASE Waiting = {}
    <3>1. Waiting' = {}
      BY <1>1, <2>1 DEF CommitTask, NotifyOne, Waiting
    <3> QED
      BY <3>1 DEF NoTaskSleeps
  <2>2. CASE Waiting # {}
    <3>1. PICK w \in Waiting : wpc' = [wpc EXCEPT ![w] = "wait"]
      BY <1>1, <2>2 DEF CommitTask, NotifyOne
    <3>2. awake' = awake \cup {w} /\ w \notin awake
      BY <3>1 DEF Waiting, PoolTypeOK
    <3>3. Cardinality(awake') = Cardinality(awake) + 1
      BY <1>0, <3>2, FS_AddElement
    <3>4. Len(task_queues') = Len(task_queues) + 1
      BY <1>1, AppendProperties DEF CommitTask, PoolTypeOK
    <3>5. sendStop' = sendStop
      BY <1>1 DEF CommitTask
    <3> QED
      BY <1>0, <2>2, <3>3, <3>4, <3>5 DEF NoTaskSleeps
  <2> QED
    BY <2>1, <2>2
<1>2. ASSUME NEW w \in Workers, Top(w) PROVE NoTaskSleeps'
  <2>1. Waiting' = Waiting
    BY <1>2 DEF Top, Waiting, PoolTypeOK
  <2> QED
    BY <1>2, <2>1 DEF Top, NoTaskSleeps
<1>3. ASSUME NEW w \in Workers, Wait(w) PROVE NoTaskSleeps'
  <2>1. CASE task_queues # <<>> /\ ~sendStop
    <3>1. Waiting' = Waiting
      BY <1>3, <2>1 DEF Wait, TakeTask, Waiting, PoolTypeOK
    <3>2. Len(task_queues') = Len(task_queues) - 1
      BY <1>3, <2>1, QueueTake DEF Wait, TakeTask, PoolTypeOK
    <3> QED
      BY <1>0, <2>1, <3>1, <3>2 DEF NoTaskSleeps
  <2>2. CASE task_queues = <<>> /\ ~sendStop
    <3>1. task_queues' = <<>>
      BY <1>3, <2>2 DEF Wait
    <3>2. IsFiniteSet(awake') /\ Cardinality(awake') \in Nat
      BY WorkersAssumption, FS_Subset, FS_CardinalityType
    <3> QED
      BY <3>1, <3>2 DEF NoTaskSleeps
  <2>3. CASE sendStop
    BY <1>3, <2>3 DEF Wait, NoTaskSleeps
  <2> QED
    BY <2>1, <2>2, <2>3
<1>4. ASSUME NEW w \in Workers, SpuriousWakeup(w) PROVE NoTaskSleeps'
  <2>1. awake \subseteq awake' /\ Waiting' \subseteq Waiting
    BY <1>4 DEF SpuriousWakeup, Waiting, PoolTypeOK
  <2>2. IsFiniteSet(awake') /\ Cardinality(awake') \in Nat
    BY WorkersAssumption, FS_Subset, FS_CardinalityType
  <2>3. Cardinality(awake) <= Cardinality(awake')
    BY <2>1, <2>2, FS_Subset
  <2>4. task_queues' = task_queues /\ sendStop' = sendStop
    BY <1>4 DEF SpuriousWakeup
  <2> QED
    BY <1>0, <2>1, <2>2, <2>3, <2>4 DEF NoTaskSleeps
<1>5. ASSUME NEW w \in Workers, RunTask(w) PROVE NoTaskSleeps'
  <2>1. Waiting' = Waiting
    BY <1>5 DEF RunTask, Waiting, PoolTypeOK
  <2> QED
    BY <1>5, <2>1 DEF RunTask, NoTaskSleeps
<1>6. CASE SetStop
  BY <1>6 DEF SetStop, NoTaskSleeps
<1>7. CASE NotifyAll
  <2>1. Waiting' = {}
    BY <1>7 DEF NotifyAll, Waiting
  <2> QED
    BY <2>1 DEF NoTaskSleeps
<1>8. CASE JoinAll \/ UNCHANGED sendVars
  BY <1>8 DEF JoinAll, sendVars, NoTaskSleeps, Waiting
<1> QED
  BY <1>1, <1>2, <1>3, <1>4, <1>5, <1>6, <1>7, <1>8 DEF SendNext, Work

\* The initial states satisfy both.
LEMMA SendStart == SendInit => PoolTypeOK /\ NoTaskSleeps
<1> SUFFICES ASSUME SendInit PROVE PoolTypeOK /\ NoTaskSleeps
  OBVIOUS
<1>1. Size \in Nat
  BY WorkersAssumption, FS_CardinalityType DEF Size
<1>2. Waiting = {}
  BY DEF SendInit, Waiting
<1>3. func \in [Workers -> {<<>>} \cup {<<t>> : t \in Tasks}]
  BY DEF SendInit
<1>4. sendStop \in BOOLEAN /\ wpc \in [Workers -> {"top", "wait", "waiting", "run", "returned"}]
  BY Zenon DEF SendInit
<1>5. <<>> \in Seq(Tasks) /\ Len(task_queues) = 0
  BY EmptySeq DEF SendInit
<1>6. PoolTypeOK
  BY <1>1, <1>3, <1>4, <1>5 DEF SendInit, PoolTypeOK
<1> QED
  BY <1>2, <1>6 DEF NoTaskSleeps

\* The invariant holds in every reachable state.
LEMMA SendCorrect == SendSpec => [](PoolTypeOK /\ NoTaskSleeps)
<1>1. PoolTypeOK /\ NoTaskSleeps /\ [SendNext]_sendVars => (PoolTypeOK /\ NoTaskSleeps)'
  BY SendTypeStep, SleepStep
<1> QED
  BY <1>1, SendStart, PTL DEF SendSpec

\* No task waits while every worker sleeps, however commits, wake-ups lost on
\* nobody, wake-ups for no reason and stop() interleave, for any number of workers.
THEOREM NoTaskSleepsCorrect == SendSpec => []NoTaskSleeps
BY SendCorrect, PTL

-----------------------------------------------------------------------------
(* The copy routines: FastMemcpy.                                           *)

\* A table for n bytes: every move lies within them, counted from the end, and
\* every byte is in a move.
TableOK(table, n) ==
  /\ table \subseteq Nat \X Nat
  /\ \A m \in table : m[2] <= m[1] /\ m[1] <= n
  /\ \A d \in 1..n : \E m \in table : m[1] - m[2] < d /\ d <= m[1]

\* One move of all the bytes.
LEMMA WholeTable == ASSUME NEW n \in Nat PROVE TableOK({<<n, n>>}, n)
<1>1. \A d \in 1..n : <<n, n>>[1] - <<n, n>>[2] < d /\ d <= <<n, n>>[1]
  OBVIOUS
<1> QED
  BY <1>1 DEF TableOK

\* The widths of the moves up to 15 (127) bytes.
SseSizes == {1, 2, 4, 8}
AvxSizes == {1, 2, 4, 8, 16, 32, 64}

\* The widest move leaves less than itself, and the narrowest one that covers the
\* remainder is no wider.
LEMMA SseWidths ==
  ASSUME NEW n \in 1..15, NEW w, w = Widest(n, SseSizes),
         NEW v, v = Narrowest(n - w, SseSizes)
  PROVE  /\ w \in SseSizes /\ w <= n /\ n - w < w
         /\ n # w => v \in SseSizes /\ v >= n - w /\ v <= w
<1> USE DEF SseSizes
<1>1. \E x \in SseSizes : x <= n /\ \A u \in SseSizes : u <= n => u <= x
  <2>1. CASE n < 2
    BY <2>1
  <2>2. CASE 2 <= n /\ n < 4
    BY <2>2
  <2>3. CASE 4 <= n /\ n < 8
    BY <2>3
  <2>4. CASE 8 <= n
    BY <2>4
  <2> QED
    BY <2>1, <2>2, <2>3, <2>4
<1>2. w \in SseSizes /\ w <= n /\ \A u \in SseSizes : u <= n => u <= w
  BY <1>1 DEF Widest
<1>3. n - w < w
  BY <1>2
<1>4. ASSUME n # w PROVE v \in SseSizes /\ v >= n - w /\ v <= w
  <2> PICK r \in 1..7 : r = n - w
    BY <1>2, <1>3, <1>4
  <2>1. \E u \in SseSizes : u >= r /\ \A x \in SseSizes : x >= r => u <= x
    <3>1. CASE r = 1
      BY <3>1
    <3>2. CASE r = 2
      BY <3>2
    <3>3. CASE 3 <= r /\ r <= 4
      BY <3>3
    <3>4. CASE 5 <= r
      BY <3>4
    <3> QED
      BY <3>1, <3>2, <3>3, <3>4
  <2>2. v \in SseSizes /\ v >= r /\ \A x \in SseSizes : x >= r => v <= x
    BY <1>4, <2>1 DEF Narrowest
  <2> QED
    BY <1>2, <1>3, <2>2
<1> QED
  BY <1>2, <1>3, <1>4

\* Cases 0 to 15 of the SSE2 table.
LEMMA SseScalarOK == ASSUME NEW n \in 0..15 PROVE TableOK(SseScalar(n), n)
<1>1. CASE n = 0
  BY <1>1 DEF SseScalar, TableOK
<1>2. CASE n # 0
  <2> PICK w : w = Widest(n, SseSizes)
    OBVIOUS
  <2> PICK v : v = Narrowest(n - w, SseSizes)
    OBVIOUS
  <2>1. w \in SseSizes /\ w <= n /\ n - w < w
    BY <1>2, SseWidths
  <2>2. n # w => v \in SseSizes /\ v >= n - w /\ v <= w
    BY <1>2, SseWidths
  <2>3. CASE n = w
    <3>1. SseScalar(n) = {<<n, w>>}
      BY <1>2, <2>1, <2>3 DEF SseScalar, SseSizes
    <3> QED
      BY <2>3, <3>1, WholeTable
  <2>4. CASE n # w /\ n - w = 5
    <3>1. SseScalar(n) = {<<n, w>>, <<5, 4>>, <<1, 1>>}
      BY <1>2, <2>1, <2>4 DEF SseScalar, SseSizes
    <3>2. n = 13 /\ w = 8
      BY <2>1, <2>4 DEF SseSizes
    <3> QED
      BY <3>1, <3>2 DEF TableOK
  <2>5. CASE n # w /\ n - w # 5
    <3>1. SseScalar(n) = {<<n, w>>, <<v, v>>}
      BY <1>2, <2>1, <2>5 DEF SseScalar, SseSizes
    <3> QED
      BY <2>1, <2>2, <2>5, <3>1 DEF TableOK, SseSizes
  <2> QED
    BY <2>3, <2>4, <2>5
<1> QED
  BY <1>1, <1>2

\* A move of w bytes before a table for the rest.
LEMMA BeforeTable ==
  ASSUME NEW n \in Nat, NEW w \in Nat, w <= n, NEW rest, TableOK(rest, n - w)
  PROVE  TableOK({<<n, w>>} \cup rest, n)
<1> PICK table : table = {<<n, w>>} \cup rest
  OBVIOUS
<1>1. table \subseteq Nat \X Nat /\ \A m \in table : m[2] <= m[1] /\ m[1] <= n
  BY DEF TableOK
<1>2. ASSUME NEW d \in 1..n PROVE \E m \in table : m[1] - m[2] < d /\ d <= m[1]
  <2>1. CASE d > n - w
    <3>1. <<n, w>> \in table /\ <<n, w>>[1] - <<n, w>>[2] < d /\ d <= <<n, w>>[1]
      BY <2>1
    <3> QED
      BY <3>1
  <2>2. CASE d <= n - w
    <3>1. d \in 1..(n - w)
      BY <2>2
    <3> QED
      BY <3>1 DEF TableOK
  <2> QED
    BY <2>1, <2>2
<1> QED
  BY <1>1, <1>2 DEF TableOK

\* Every case of the SSE2 table covers its bytes and no others.
LEMMA SseTinyOK == ASSUME NEW n \in 0..128 PROVE TableOK(SseTiny(n), n)
<1>1. ASSUME NEW k \in 0..31 PROVE TableOK(SseShort(k), k)
  <2>1. CASE k < 16
    BY <2>1, SseScalarOK DEF SseShort
  <2>2. CASE 16 <= k /\ k < 24
    <3>1. TableOK(SseScalar(k - 16), k - 16)
      BY <2>2, SseScalarOK
    <3>2. SseShort(k) = {<<k, 16>>} \cup SseScalar(k - 16)
      BY <2>2 DEF SseShort
    <3> QED
      BY <2>2, <3>1, <3>2, BeforeTable
  <2>3. CASE 24 <= k
    <3>1. SseShort(k) = {<<k, 16>>, <<16, 16>>}
      BY <2>3 DEF SseShort
    <3> QED
      BY <2>3, <3>1 DEF TableOK
  <2> QED
    BY <2>1, <2>2, <2>3
<1>2. ASSUME NEW k \in 0..63 PROVE TableOK(SseMiddle(k), k)
  <2>1. CASE k < 32
    BY <1>1, <2>1 DEF SseMiddle
  <2>2. CASE 32 <= k
    <3>1. TableOK(SseShort(k - 32), k - 32)
      BY <1>1, <2>2
    <3>2. SseMiddle(k) = {<<k, 32>>} \cup SseShort(k - 32)
      BY <2>2 DEF SseMiddle
    <3> QED
      BY <2>2, <3>1, <3>2, BeforeTable
  <2> QED
    BY <2>1, <2>2
<1>3. CASE n < 64
  BY <1>2, <1>3 DEF SseTiny
<1>4. CASE 64 <= n /\ n < 128
  <2>1. TableOK(SseMiddle(n - 64), n - 64)
    BY <1>2, <1>4
  <2>2. SseTiny(n) = {<<n, 64>>} \cup SseMiddle(n - 64)
    BY <1>4 DEF SseTiny
  <2> QED
    BY <1>4, <2>1, <2>2, BeforeTable
<1>5. CASE n = 128
  <2>1. SseTiny(n) = {<<128, 128>>}
    BY <1>5 DEF SseTiny
  <2> QED
    BY <1>5, <2>1, WholeTable
<1> QED
  BY <1>3, <1>4, <1>5

\* The widths of the AVX table.
LEMMA AvxWidths ==
  ASSUME NEW n \in 1..127, NEW w, w = Widest(n, AvxSizes),
         NEW v, v = Narrowest(n - w, AvxSizes)
  PROVE  /\ w \in AvxSizes /\ w <= n /\ n - w < w
         /\ n # w => v \in AvxSizes /\ v >= n - w /\ v <= w
<1> USE DEF AvxSizes
<1>1. \E x \in AvxSizes : x <= n /\ \A u \in AvxSizes : u <= n => u <= x
  <2>1. CASE n < 2
    BY <2>1
  <2>2. CASE 2 <= n /\ n < 4
    BY <2>2
  <2>3. CASE 4 <= n /\ n < 8
    BY <2>3
  <2>4. CASE 8 <= n /\ n < 16
    BY <2>4
  <2>5. CASE 16 <= n /\ n < 32
    BY <2>5
  <2>6. CASE 32 <= n /\ n < 64
    BY <2>6
  <2>7. CASE 64 <= n
    BY <2>7
  <2> QED
    BY <2>1, <2>2, <2>3, <2>4, <2>5, <2>6, <2>7
<1>2. w \in AvxSizes /\ w <= n /\ \A u \in AvxSizes : u <= n => u <= w
  BY <1>1 DEF Widest
<1>3. n - w < w
  BY <1>2
<1>4. ASSUME n # w PROVE v \in AvxSizes /\ v >= n - w /\ v <= w
  <2> PICK r \in 1..63 : r = n - w
    BY <1>2, <1>3, <1>4
  <2>1. \E u \in AvxSizes : u >= r /\ \A x \in AvxSizes : x >= r => u <= x
    <3>1. CASE r <= 2
      BY <3>1
    <3>2. CASE 3 <= r /\ r <= 4
      BY <3>2
    <3>3. CASE 5 <= r /\ r <= 8
      BY <3>3
    <3>4. CASE 9 <= r /\ r <= 16
      BY <3>4
    <3>5. CASE 17 <= r /\ r <= 32
      BY <3>5
    <3>6. CASE 33 <= r
      BY <3>6
    <3> QED
      BY <3>1, <3>2, <3>3, <3>4, <3>5, <3>6
  <2>2. v \in AvxSizes /\ v >= r /\ \A x \in AvxSizes : x >= r => v <= x
    BY <1>4, <2>1 DEF Narrowest
  <2> QED
    BY <1>2, <1>3, <2>2
<1> QED
  BY <1>2, <1>3, <1>4

\* Every case of the AVX table covers its bytes and no others.
LEMMA AvxTinyOK == ASSUME NEW n \in 0..256 PROVE TableOK(AvxTiny(n), n)
<1>1. ASSUME NEW k \in 0..127 PROVE TableOK(AvxShort(k), k)
  <2>1. CASE k = 0
    BY <2>1 DEF AvxShort, TableOK
  <2>2. CASE k # 0
    <3> PICK w : w = Widest(k, AvxSizes)
      OBVIOUS
    <3> PICK v : v = Narrowest(k - w, AvxSizes)
      OBVIOUS
    <3>0. k \in 1..127
      BY <2>2
    <3>1. w \in AvxSizes /\ w <= k /\ k - w < w
      BY <3>0, AvxWidths
    <3>2. k # w => v \in AvxSizes /\ v >= k - w /\ v <= w
      BY <3>0, AvxWidths
    <3>3. CASE k = w
      <4>1. AvxShort(k) = {<<k, w>>}
        BY <2>2, <3>3 DEF AvxShort, AvxSizes
      <4> QED
        BY <3>3, <4>1, WholeTable
    <3>4. CASE k # w
      <4>1. AvxShort(k) = {<<k, w>>, <<v, v>>}
        BY <2>2, <3>4 DEF AvxShort, AvxSizes
      <4> QED
        BY <3>1, <3>2, <3>4, <4>1 DEF TableOK, AvxSizes
    <3> QED
      BY <3>3, <3>4
  <2> QED
    BY <2>1, <2>2
<1>2. CASE n < 128
  BY <1>1, <1>2 DEF AvxTiny
<1>3. CASE 128 <= n /\ n < 256
  <2>1. TableOK(AvxShort(n - 128), n - 128)
    BY <1>1, <1>3
  <2>2. AvxTiny(n) = {<<n, 128>>} \cup AvxShort(n - 128)
    BY <1>3 DEF AvxTiny
  <2> QED
    BY <1>3, <2>1, <2>2, BeforeTable
<1>4. CASE n = 256
  <2>1. AvxTiny(n) = {<<256, 256>>}
    BY <1>4 DEF AvxTiny
  <2> QED
    BY <1>4, <2>1, WholeTable
<1> QED
  BY <1>2, <1>3, <1>4

\* A move ends within the bytes asked for; the bytes below n are written.
Within(set, n) == \A m \in set : m[1] + m[2] <= n
Covers(set, from, n) ==
  \A b \in Nat : from <= b /\ b < n => \E m \in set : m[1] <= b /\ b < m[1] + m[2]

\* What the property rests on: how far the loops are, and what is written so far.
CopyInv ==
  /\ routine \in {"sse2", "avx", "smart"}
  /\ dst \in Nat /\ src \in Nat /\ size \in Nat /\ offset \in Nat
  /\ moves \subseteq Nat \X Nat
  /\ stage = "called" => offset = 0
  /\ stage \in Loops =>
       /\ ~SmartAligned
       /\ offset <= size /\ Within(moves, size) /\ Covers(moves, 0, offset)
       /\ (dst + offset) % Vector = 0
       /\ stage = "bigAligned" => (src + offset) % Vector = 0
  /\ stage = "returned" => Within(moves, Extent) /\ Covers(moves, 0, Extent)

\* The invariant is what the property says, and more.
LEMMA CopyExact == CopyInv => WritesExactly
<1> SUFFICES ASSUME CopyInv PROVE WritesExactly
  OBVIOUS
<1>1. Extent \in Nat
  BY DEF Extent, CopyInv
<1> QED
  BY <1>1 DEF CopyInv, WritesExactly, Within, Covers

\* memcpy_tiny writes the n bytes from the present address on.
LEMMA TinyMovesOK ==
  ASSUME CopyInv, NEW n \in 0..TinyMax
  PROVE  /\ TinyMoves(n) \subseteq Nat \X Nat
         /\ Within(TinyMoves(n), offset + n) /\ Covers(TinyMoves(n), offset, offset + n)
<1> PICK table : table = IF routine = "sse2" THEN SseTiny(n) ELSE AvxTiny(n)
  OBVIOUS
<1>1. TableOK(table, n)
  BY SseTinyOK, AvxTinyOK DEF TinyMax
<1> PICK set : set = {<<offset + n - m[1], m[2]>> : m \in table}
  OBVIOUS
<1>2. set = TinyMoves(n)
  BY DEF TinyMoves
<1>3. n \in Nat /\ offset \in Nat
  BY DEF TinyMax, CopyInv
<1>4. ASSUME NEW m \in table
      PROVE  /\ m[1] \in Nat /\ m[2] \in Nat
             /\ m[2] <= m[1] /\ m[1] <= n
  BY <1>1 DEF TableOK
<1>5. set \subseteq Nat \X Nat /\ Within(set, offset + n)
  <2> SUFFICES ASSUME NEW m \in table
               PROVE  /\ <<offset + n - m[1], m[2]>> \in Nat \X Nat
                      /\ (offset + n - m[1]) + m[2] <= offset + n
    BY DEF Within
  <2> QED
    BY <1>3, <1>4
<1>6. Covers(set, offset, offset + n)
  <2> SUFFICES ASSUME NEW b \in Nat, offset <= b, b < offset + n
               PROVE  \E m \in set : m[1] <= b /\ b < m[1] + m[2]
    BY DEF Covers
  <2> PICK d \in 1..n : d = offset + n - b
    BY <1>3
  <2> PICK m \in table : m[1] - m[2] < d /\ d <= m[1]
    BY <1>1 DEF TableOK
  <2> PICK x : x = <<offset + n - m[1], m[2]>>
    OBVIOUS
  <2>1. x \in set /\ x[1] = offset + n - m[1] /\ x[2] = m[2]
    OBVIOUS
  <2>2. x[1] <= b /\ b < x[1] + x[2]
    BY <1>3, <1>4, <2>1
  <2> QED
    BY <2>1, <2>2
<1> QED
  BY <1>2, <1>5, <1>6

\* Moves that continue where others end, and lie within a larger whole.
LEMMA MovesJoin ==
  ASSUME NEW A, NEW B, NEW i \in Nat, NEW j \in Nat, Covers(A, 0, i), Covers(B, i, j)
  PROVE  Covers(A \cup B, 0, j)
<1> SUFFICES ASSUME NEW b \in Nat, b < j
             PROVE  \E m \in A \cup B : m[1] <= b /\ b < m[1] + m[2]
  BY DEF Covers
<1>1. CASE b < i
  BY <1>1 DEF Covers
<1>2. CASE i <= b
  BY <1>2 DEF Covers
<1> QED
  BY <1>1, <1>2

\* One move to the boundary, and dst is aligned.
LEMMA HeadStep == ASSUME CopyInv, HeadMove PROVE CopyInv'
<1> PICK v : v = Vector
  OBVIOUS
<1> PICK p : p = Padding
  OBVIOUS
<1>1. v \in {16, 32} /\ v < TinyMax /\ (v = 16 <=> routine = "sse2")
  BY DEF Vector, TinyMax
<1>2. dst \in Nat /\ src \in Nat /\ size \in Nat /\ TinyMax \in Nat
  BY DEF CopyInv, TinyMax
<1>3. p \in 0..(v - 1) /\ (dst + p) % v = 0
  <2>1. CASE v = 16
    BY <1>2, <2>1 DEF Padding
  <2>2. CASE v = 32
    BY <1>2, <2>2 DEF Padding
  <2> QED
    BY <1>1, <2>1, <2>2
<1>4. /\ (moves' = {} /\ p = 0) \/ moves' = {<<0, v>>}
      /\ offset' = p /\ size > TinyMax /\ UNCHANGED call
      /\ stage' \in Loops /\ (stage' = "bigAligned" => (src + p) % v = 0)
  BY DEF HeadMove, Loops
<1>5. Within(moves', size) /\ Covers(moves', 0, p) /\ moves' \subseteq Nat \X Nat
  <2>1. CASE moves' = {} /\ p = 0
    BY <2>1 DEF Within, Covers
  <2>2. CASE moves' = {<<0, v>>}
    <3>1. Within(moves', size)
      BY <1>1, <1>2, <1>4, <2>2 DEF Within
    <3>2. Covers(moves', 0, p)
      <4> SUFFICES ASSUME NEW b \in Nat, b < p
                   PROVE  \E m \in moves' : m[1] <= b /\ b < m[1] + m[2]
        BY DEF Covers
      <4>1. <<0, v>>[1] <= b /\ b < <<0, v>>[1] + <<0, v>>[2]
        BY <1>1, <1>3
      <4> QED
        BY <2>2, <4>1
    <3> QED
      BY <1>1, <2>2, <3>1, <3>2
  <2> QED
    BY <1>4, <2>1, <2>2
<1>6. Vector' = v /\ ~SmartAligned'
  BY <1>4 DEF HeadMove, Vector, SmartAligned, call
<1>7. p <= size
  BY <1>1, <1>2, <1>3, <1>4
<1>8. p \in Nat /\ routine \in {"sse2", "avx", "smart"}
  BY <1>1, <1>3 DEF CopyInv
<1>9. stage' # "called" /\ stage' # "returned"
  BY <1>4 DEF Loops
<1> QED
  BY <1>2, <1>3, <1>4, <1>5, <1>6, <1>7, <1>8, <1>9 DEF CopyInv, call

\* One round of a loop: eight vectors from an aligned address on.
LEMMA ChunkStep == ASSUME CopyInv, ChunkMove PROVE CopyInv'
<1> PICK v : v = Vector
  OBVIOUS
<1> PICK o : o = offset
  OBVIOUS
<1> PICK round : round = {<<o + k * v, v>> : k \in 0..7}
  OBVIOUS
<1>1. v \in {16, 32} /\ o \in Nat /\ size \in Nat /\ dst \in Nat /\ src \in Nat
  BY DEF Vector, CopyInv
<1>2. /\ o + 8 * v <= size
      /\ moves' = moves \cup round
      /\ offset' = o + 8 * v /\ UNCHANGED call /\ stage' = stage /\ stage \in Loops
  BY <1>1 DEF ChunkMove, Rest, Chunk
<1>3. /\ Within(moves, size) /\ Covers(moves, 0, o) /\ moves \subseteq Nat \X Nat
      /\ (dst + o) % v = 0 /\ (stage = "bigAligned" => (src + o) % v = 0)
  BY <1>2 DEF CopyInv
<1>4. round \subseteq Nat \X Nat /\ Within(round, size)
  <2> SUFFICES ASSUME NEW k \in 0..7
               PROVE  o + k * v \in Nat /\ v \in Nat /\ (o + k * v) + v <= size
    BY DEF Within
  <2>1. CASE v = 16
    BY <1>1, <1>2, <2>1
  <2>2. CASE v = 32
    BY <1>1, <1>2, <2>2
  <2> QED
    BY <1>1, <2>1, <2>2
<1>5. Covers(round, o, o + 8 * v)
  <2> SUFFICES ASSUME NEW b \in Nat, o <= b, b < o + 8 * v
               PROVE  \E m \in round : m[1] <= b /\ b < m[1] + m[2]
    BY DEF Covers
  <2>1. \E k \in 0..7 : o + k * v <= b /\ b < (o + k * v) + v
    <3> PICK c \in Nat : c = b - o
      BY <1>1
    <3>1. ASSUME v = 16 PROVE \E k \in 0..7 : k * 16 <= c /\ c < k * 16 + 16
      BY <1>1, <3>1
    <3>2. ASSUME v = 32 PROVE \E k \in 0..7 : k * 32 <= c /\ c < k * 32 + 32
      BY <1>1, <3>2
    <3> QED
      BY <1>1, <3>1, <3>2
  <2> PICK k \in 0..7 : o + k * v <= b /\ b < (o + k * v) + v
    BY <2>1
  <2> PICK x : x = <<o + k * v, v>>
    OBVIOUS
  <2>2. x \in round /\ x[1] = o + k * v /\ x[2] = v
    OBVIOUS
  <2> QED
    BY <2>2
<1>6. o + 8 * v \in Nat
  BY <1>1
<1>7. Covers(moves', 0, o + 8 * v)
  BY <1>1, <1>2, <1>3, <1>5, <1>6, MovesJoin
<1>8. Within(moves', size) /\ moves' \subseteq Nat \X Nat
  BY <1>2, <1>3, <1>4 DEF Within
<1>9. (dst + (o + 8 * v)) % v = 0 /\ (stage = "bigAligned" => (src + (o + 8 * v)) % v = 0)
  <2>1. CASE v = 16
    BY <1>1, <1>3, <2>1
  <2>2. CASE v = 32
    BY <1>1, <1>3, <2>2
  <2> QED
    BY <1>1, <2>1, <2>2
<1>10. Vector' = v /\ stage # "called" /\ stage # "returned"
  BY <1>2 DEF Vector, call, Loops
<1>11. ~SmartAligned'
  <2>1. ~SmartAligned
    BY <1>2 DEF CopyInv
  <2> QED
    BY <1>2, <2>1 DEF SmartAligned, call
<1> QED
  BY <1>1, <1>2, <1>6, <1>7, <1>8, <1>9, <1>10, <1>11 DEF CopyInv, call

\* The rest is less than a round, and memcpy_tiny can copy it.
LEMMA TailStep == ASSUME CopyInv, TailMove PROVE CopyInv'
<1> PICK n : n = Rest
  OBVIOUS
<1>1. /\ offset \in Nat /\ size \in Nat /\ offset <= size
      /\ Within(moves, size) /\ Covers(moves, 0, offset) /\ moves \subseteq Nat \X Nat
  BY DEF TailMove, CopyInv
<1>2. n \in 0..TinyMax /\ offset + n = size
  BY <1>1 DEF TailMove, Rest, Chunk, Vector, TinyMax
<1>3. /\ TinyMoves(n) \subseteq Nat \X Nat
      /\ Within(TinyMoves(n), size) /\ Covers(TinyMoves(n), offset, size)
  BY <1>2, TinyMovesOK
<1>4. moves' = moves \cup TinyMoves(n) /\ stage' = "returned" /\ UNCHANGED <<call, offset>>
  BY DEF TailMove
<1>5. Covers(moves', 0, size)
  BY <1>1, <1>3, <1>4, MovesJoin
<1>6. Within(moves', size) /\ moves' \subseteq Nat \X Nat
  BY <1>1, <1>3, <1>4 DEF Within
<1>7. Extent' = size
  <2>1. ~SmartAligned
    BY DEF TailMove, CopyInv
  <2> QED
    BY <1>4, <2>1 DEF Extent, SmartAligned, call
<1> QED
  BY <1>4, <1>5, <1>6, <1>7 DEF CopyInv, call, Loops

\* A small copy is memcpy_tiny's alone.
LEMMA TinyStep == ASSUME CopyInv, Tiny PROVE CopyInv'
<1>1. size \in 0..TinyMax /\ offset = 0 /\ 0 + size = size
  BY DEF Tiny, CopyInv
<1>2. /\ TinyMoves(size) \subseteq Nat \X Nat
      /\ Within(TinyMoves(size), 0 + size) /\ Covers(TinyMoves(size), 0, 0 + size)
  BY <1>1, TinyMovesOK
<1>3. moves' = TinyMoves(size) /\ stage' = "returned" /\ UNCHANGED <<call, offset>>
  BY DEF Tiny
<1>4. Extent' = size
  BY <1>3 DEF Tiny, Extent, SmartAligned, call
<1> QED
  BY <1>1, <1>2, <1>3, <1>4 DEF CopyInv, call, Loops

\* The aligned route of smart_memcpy writes 256 bytes.
LEMMA SmartStep == ASSUME CopyInv, Smart PROVE CopyInv'
<1>1. moves' = {<<0, 256>>} /\ stage' = "returned" /\ UNCHANGED <<call, offset>>
  BY DEF Smart
<1>2. SmartAligned'
  BY <1>1 DEF Smart, SmartAligned, call
<1>3. Extent' = 256
  BY <1>2 DEF Extent
<1>4. Within(moves', 256)
  BY <1>1 DEF Within
<1>5. Covers(moves', 0, 256)
  <2> SUFFICES ASSUME NEW b \in Nat, b < 256
               PROVE  \E m \in moves' : m[1] <= b /\ b < m[1] + m[2]
    BY DEF Covers
  <2>1. <<0, 256>>[1] <= b /\ b < <<0, 256>>[1] + <<0, 256>>[2]
    OBVIOUS
  <2> QED
    BY <1>1, <2>1
<1> QED
  BY <1>1, <1>3, <1>4, <1>5 DEF CopyInv, call, Loops

\* The invariant holds in every reachable state.
LEMMA CopyCorrect == CopySpec => []CopyInv
<1>1. CopyInit => CopyInv
  BY CopyAssumption DEF CopyInit, CopyInv, Loops
<1>2. CopyInv /\ [CopyNext]_copyVars => CopyInv'
  <2> SUFFICES ASSUME CopyInv, [CopyNext]_copyVars PROVE CopyInv'
    OBVIOUS
  <2>1. CASE UNCHANGED copyVars
    BY <2>1 DEF copyVars, call, CopyInv, Loops, Vector, Extent, SmartAligned
  <2> QED
    BY <2>1, SmartStep, TinyStep, HeadStep, ChunkStep, TailStep DEF CopyNext
<1> QED
  BY <1>1, <1>2, PTL DEF CopySpec

\* A call of any size between any addresses writes every byte of its extent and none
\* beyond (its size, but 256 on the aligned route of smart_memcpy), and its aligned
\* stores and loads find aligned addresses.
THEOREM WritesExactlyCorrect == CopySpec => []WritesExactly
BY CopyCorrect, CopyExact, PTL

-----------------------------------------------------------------------------
(* Induction over the naturals, about sets, and functions defined by it.    *)

\* A set of naturals that is not empty has a least element.
LEMMA LeastNatural ==
  ASSUME NEW T, T \subseteq Nat, T # {}
  PROVE  \E x \in T : \A y \in T : x <= y
<1> DEFINE R == {ss \in Nat \X Nat : ss[1] < ss[2]}
<1>1. IsWellFoundedOn(R, Nat)
  BY NatLessThanWellFounded DEF OpToRel
<1>2. \E x \in T : \A y \in T : <<y, x>> \notin R
  <2> HIDE DEF R
  <2> QED
    BY <1>1, WFMin
<1>3. PICK x \in T : \A y \in T : <<y, x>> \notin R
  BY <1>2
<1>4. \A y \in T : ~(y < x)
  BY <1>3
<1>5. \A y \in T : x <= y
  BY <1>4
<1> QED
  BY <1>5

\* Induction: a set that has 0, and n + 1 with each n, has every natural.
LEMMA Induction ==
  ASSUME NEW S, 0 \in S, \A n \in Nat : n \in S => n + 1 \in S
  PROVE  \A n \in Nat : n \in S
<1> SUFFICES ASSUME NEW n \in Nat, n \notin S PROVE FALSE
  OBVIOUS
<1> PICK T : T = {i \in Nat : i \notin S}
  OBVIOUS
<1>1. PICK x \in T : \A y \in T : x <= y
  BY LeastNatural
<1>2. x \in Nat /\ x # 0 /\ x - 1 \in Nat /\ x - 1 \notin T
  BY <1>1
<1>3. (x - 1) + 1 = x
  BY <1>2
<1> QED
  BY <1>2, <1>3

\* The functions that agree with a primitive recursion up to n: x for 0, and for
\* i + 1 what step makes of i and the value for i.
Upto(n, S, x, step) ==
  {f \in [0..n -> S] : f[0] = x /\ \A i \in 0..(n - 1) : f[i + 1] = step[i][f[i]]}

Recursive(g, S, x, step) ==
  g \in [Nat -> S] /\ g[0] = x /\ \A i \in Nat : g[i + 1] = step[i][g[i]]

\* A primitive recursion defines a function.
LEMMA Recursion ==
  ASSUME NEW S, NEW x \in S, NEW step \in [Nat -> [S -> S]]
  PROVE  \E g : Recursive(g, S, x, step)
<1> DEFINE Up(n) == Upto(n, S, x, step)
<1>1. \A n \in Nat : Up(n) # {}
  <2> DEFINE T == {n \in Nat : Up(n) # {}}
  <2>1. 0 \in T
    <3> PICK f : f = [i \in 0..0 |-> x]
      OBVIOUS
    <3>1. f \in Up(0)
      BY DEF Upto
    <3> QED
      BY <3>1
  <2>2. ASSUME NEW n \in Nat, n \in T PROVE n + 1 \in T
    <3> PICK f : f \in Up(n)
      BY <2>2
    <3> PICK h : h = [i \in 0..(n + 1) |-> IF i <= n THEN f[i] ELSE step[n][f[n]]]
      OBVIOUS
    <3>1. f \in [0..n -> S] /\ f[n] \in S /\ step[n][f[n]] \in S
      BY DEF Upto
    <3>2. h \in [0..(n + 1) -> S]
      BY <3>1
    <3>3. h \in Up(n + 1)
      <4>1. h[0] = x
        BY DEF Upto
      <4>2. ASSUME NEW i \in 0..((n + 1) - 1) PROVE h[i + 1] = step[i][h[i]]
        <5>1. CASE i = n
          BY <5>1
        <5>2. CASE i # n
          <6>1. i \in 0..(n - 1) /\ h[i + 1] = f[i + 1] /\ h[i] = f[i]
            BY <5>2
          <6> QED
            BY <6>1 DEF Upto
        <5> QED
          BY <5>1, <5>2
      <4> QED
        BY <3>2, <4>1, <4>2 DEF Upto
    <3> QED
      BY <3>3
  <2>3. \A n \in Nat : n \in T
    <3> HIDE DEF T
    <3> QED
      BY <2>1, <2>2, Induction
  <2> QED
    BY <2>3
<1>2. \A i \in Nat : \A n \in Nat, m \in Nat :
        i <= n /\ i <= m => \A f \in Up(n), h \in Up(m) : f[i] = h[i]
  <2> DEFINE T == {i \in Nat : \A n \in Nat, m \in Nat :
                     i <= n /\ i <= m => \A f \in Up(n), h \in Up(m) : f[i] = h[i]}
  <2>1. 0 \in T
    BY DEF Upto
  <2>2. ASSUME NEW i \in Nat, i \in T PROVE i + 1 \in T
    <3> SUFFICES ASSUME NEW n \in Nat, NEW m \in Nat, i + 1 <= n, i + 1 <= m,
                        NEW f \in Up(n), NEW h \in Up(m)
                 PROVE  f[i + 1] = h[i + 1]
      OBVIOUS
    <3>1. f[i] = h[i]
      BY <2>2
    <3>2. f[i + 1] = step[i][f[i]] /\ h[i + 1] = step[i][h[i]]
      BY DEF Upto
    <3> QED
      BY <3>1, <3>2
  <2>3. \A i \in Nat : i \in T
    <3> HIDE DEF T
    <3> QED
      BY <2>1, <2>2, Induction
  <2> QED
    BY <2>3
<1> DEFINE pick(n) == CHOOSE f : f \in Up(n)
<1>3. \A n \in Nat : pick(n) \in Up(n)
  BY <1>1
<1> HIDE DEF pick
<1> DEFINE g == [n \in Nat |-> pick(n)[n]]
<1>4. g \in [Nat -> S]
  BY <1>3 DEF Upto
<1>5. g[0] = x
  BY <1>3 DEF Upto
<1>6. ASSUME NEW i \in Nat PROVE g[i + 1] = step[i][g[i]]
  <2>1. pick(i + 1) \in Up(i + 1) /\ pick(i) \in Up(i)
    BY <1>3
  <2>2. pick(i + 1)[i + 1] = step[i][pick(i + 1)[i]]
    BY <2>1 DEF Upto
  <2>3. pick(i + 1)[i] = pick(i)[i]
    BY <1>2, <2>1
  <2> QED
    BY <2>2, <2>3
<1>7. Recursive(g, S, x, step)
  BY <1>4, <1>5, <1>6 DEF Recursive
<1> QED
  BY <1>7

\* A product of positive numbers is positive.
LEMMA Product == ASSUME NEW a \in Nat \ {0}, NEW b \in Nat \ {0} PROVE a * b \in Nat \ {0}
OBVIOUS

\* Power is what its definition says, and positive.
LEMMA PowerDef ==
  /\ Power \in [Nat -> Nat \ {0}]
  /\ Power[0] = 1
  /\ \A k \in Nat : Power[k + 1] = Base * Power[k]
<1>1. Base \in Nat \ {0}
  BY FramingAssumption
<1>2. PICK S : S = Nat \ {0}
  OBVIOUS
<1>3. PICK g \in [Nat -> S] : g[0] = 1 /\ \A i \in Nat : g[i + 1] = Base * g[i]
  <2>1. PICK step : step = [i \in Nat |-> [p \in S |-> Base * p]]
    OBVIOUS
  <2>2. step \in [Nat -> [S -> S]] /\ 1 \in S
    BY <1>1, <1>2, <2>1, Product
  <2>3. PICK h : Recursive(h, S, 1, step)
    BY <2>2, Recursion
  <2>4. \A i \in Nat : h[i + 1] = Base * h[i]
    BY <2>1, <2>3 DEF Recursive
  <2> QED
    BY <2>3, <2>4 DEF Recursive
<1>5. g = [k \in Nat |-> IF k = 0 THEN 1 ELSE Base * g[k - 1]]
  <2>1. ASSUME NEW k \in Nat PROVE g[k] = IF k = 0 THEN 1 ELSE Base * g[k - 1]
    <3>1. CASE k = 0
      BY <1>3, <3>1
    <3>2. CASE k # 0
      <4>1. k - 1 \in Nat /\ (k - 1) + 1 = k
        BY <3>2
      <4>2. g[(k - 1) + 1] = Base * g[k - 1]
        BY <1>3, <4>1
      <4> QED
        BY <3>2, <4>1, <4>2
    <3> QED
      BY <3>1, <3>2
  <2> QED
    BY <2>1
<1>6. Power = [k \in Nat |-> IF k = 0 THEN 1 ELSE Base * Power[k - 1]]
  BY <1>5 DEF Power
<1>7. Power[0] = 1 /\ \A k \in Nat : Power[k + 1] = Base * Power[k]
  <2>1. Power[0] = 1
    BY <1>6
  <2>2. ASSUME NEW k \in Nat PROVE Power[k + 1] = Base * Power[k]
    <3>1. k + 1 \in Nat /\ k + 1 # 0 /\ (k + 1) - 1 = k
      OBVIOUS
    <3> QED
      BY <1>6, <3>1
  <2> QED
    BY <2>1, <2>2
<1>8. \A k \in Nat : Power[k] \in Nat \ {0}
  <2> DEFINE T == {k \in Nat : Power[k] \in Nat \ {0}}
  <2>1. 0 \in T
    BY <1>7
  <2>2. ASSUME NEW k \in Nat, k \in T PROVE k + 1 \in T
    <3>1. Base * Power[k] \in Nat \ {0}
      BY <1>1, <2>2, Product
    <3>2. k + 1 \in Nat /\ Power[k + 1] = Base * Power[k]
      BY <1>7
    <3> QED
      BY <3>1, <3>2
  <2> HIDE DEF T
  <2>3. \A k \in Nat : k \in T
    BY <2>1, <2>2, Induction
  <2> QED
    BY <2>3 DEF T
<1> QED
  BY <1>6, <1>7, <1>8

\* Division with remainder, and that nothing else is one.
LEMMA Division ==
  ASSUME NEW a \in Nat, NEW d \in Nat \ {0}
  PROVE  a \div d \in Nat /\ a % d \in 0..(d - 1) /\ a = d * (a \div d) + (a % d)
<1>1. a \div d \in Int
  OBVIOUS
<1>2. a % d \in 0..(d - 1)
  OBVIOUS
<1>3. a = d * (a \div d) + (a % d)
  OBVIOUS
<1>4. a \div d >= 0
  BY <1>1, <1>2, <1>3
<1> QED
  BY <1>1, <1>2, <1>3, <1>4

\* A multiple and less than one more is as many times d.
LEMMA Multiples ==
  ASSUME NEW d \in Nat \ {0}, NEW p \in Nat, NEW q \in Nat, NEW r \in 0..(d - 1),
         NEW s \in 0..(d - 1), d * p + r = d * q + s
  PROVE  p = q
<1>1. ASSUME NEW x \in Nat, NEW y \in Nat, x < y PROVE d * x + d <= d * y
  <2>1. PICK z \in Nat : y = x + 1 + z
    <3>1. y - x - 1 \in Nat /\ y = x + 1 + (y - x - 1)
      BY <1>1
    <3> QED
      BY <3>1
  <2>2. d * y = d * x + d + d * z /\ d * z >= 0
    BY <2>1
  <2> QED
    BY <2>2
<1>2. d * p \in Nat /\ d * q \in Nat
  OBVIOUS
<1>3. ~(p < q)
  BY <1>1, <1>2
<1>4. ~(q < p)
  BY <1>1, <1>2
<1> QED
  BY <1>3, <1>4

\* The quotient by b * p is that of the quotients, one after the other.
LEMMA DigitStep ==
  ASSUME NEW n \in Nat, NEW b \in Nat \ {0}, NEW p \in Nat \ {0}
  PROVE  /\ n \div p \in Nat /\ n \div (b * p) \in Nat /\ (n \div p) % b \in 0..(b - 1)
         /\ n \div p = b * (n \div (b * p)) + ((n \div p) % b)
<1>1. PICK q \in Nat, r \in 0..(p - 1) : q = n \div p /\ n = p * q + r
  BY Division
<1>2. PICK s \in Nat, t \in 0..(b - 1) : t = q % b /\ q = b * s + t
  BY Division
<1>3. PICK m \in Nat \ {0} : m = b * p
  BY Product
<1>4. PICK u \in Nat, v \in 0..(m - 1) : u = n \div m /\ n = m * u + v
  BY Division
<1>5. p * t + r \in 0..(m - 1)
  <2>1. PICK z \in Nat : b = t + 1 + z
    <3>1. b - t - 1 \in Nat /\ b = t + 1 + (b - t - 1)
      BY <1>2
    <3> QED
      BY <3>1
  <2>2. m = p * t + p + p * z /\ p * z >= 0 /\ p * t >= 0
    BY <1>3, <2>1
  <2> QED
    BY <1>1, <2>2
<1>6. n = m * s + (p * t + r)
  <2>1. p * q = p * (b * s) + p * t
    BY <1>2
  <2>2. p * (b * s) = m * s
    BY <1>3
  <2> QED
    BY <1>1, <2>1, <2>2
<1>7. u = s
  BY <1>4, <1>5, <1>6, Multiples
<1>8. n \div (b * p) = s /\ n \div p = b * s + t /\ (n \div p) % b = t
  BY <1>1, <1>2, <1>3, <1>4, <1>7, Zenon
<1>9. q = n \div p
  BY <1>1
<1> QED
  BY <1>1, <1>2, <1>4, <1>8, <1>9, Zenon

\* Value is the sum that its definition says.
LEMMA ValueDef ==
  ASSUME NEW bytes \in Seq(Byte)
  PROVE  \E sum \in [0..Len(bytes) -> Nat] :
           /\ Value(bytes) = sum[Len(bytes)]
           /\ sum[0] = 0
           /\ \A i \in 0..(Len(bytes) - 1) : sum[i + 1] = Base * sum[i] + bytes[i + 1]
<1>1. PICK n \in Nat : n = Len(bytes)
  BY LenProperties
<1>2. Base \in Nat \ {0} /\ \A i \in 1..n : bytes[i] \in Nat
  BY <1>1, FramingAssumption DEF Byte
<1>3. PICK digit : digit = [i \in Nat |-> IF i < n THEN bytes[i + 1] ELSE 0]
  OBVIOUS
<1>4. digit \in [Nat -> Nat] /\ \A i \in 0..(n - 1) : digit[i] = bytes[i + 1]
  BY <1>2, <1>3
<1>5. PICK step : step = [i \in Nat |-> [v \in Nat |-> Base * v + digit[i]]]
  OBVIOUS
<1>6. step \in [Nat -> [Nat -> Nat]]
  <2>1. ASSUME NEW i \in Nat, NEW v \in Nat PROVE Base * v + digit[i] \in Nat
    <3>1. Base * v \in Nat /\ digit[i] \in Nat
      BY <1>2, <1>4
    <3> QED
      BY <3>1
  <2> QED
    BY <1>5, <2>1
<1>7. PICK g : Recursive(g, Nat, 0, step)
  BY <1>6, Recursion
<1>8. PICK f : f = [i \in 0..n |-> g[i]]
  OBVIOUS
<1>9. f \in [0..n -> Nat] /\ f[0] = 0
  BY <1>1, <1>7, <1>8 DEF Recursive
<1>10. ASSUME NEW i \in 0..(n - 1) PROVE f[i + 1] = Base * f[i] + bytes[i + 1]
  <2>1. i \in Nat /\ i \in 0..n /\ i + 1 \in 0..n
    OBVIOUS
  <2>2. g[i + 1] = step[i][g[i]] /\ g[i] \in Nat
    BY <1>7, <2>1 DEF Recursive
  <2>3. step[i][g[i]] = Base * g[i] + digit[i]
    BY <1>5, <2>1, <2>2
  <2> QED
    BY <1>4, <1>8, <2>1, <2>2, <2>3
<1>11. f = [i \in 0..n |-> IF i = 0 THEN 0 ELSE Base * f[i - 1] + bytes[i]]
  <2>1. ASSUME NEW i \in 0..n PROVE f[i] = IF i = 0 THEN 0 ELSE Base * f[i - 1] + bytes[i]
    <3>1. CASE i = 0
      BY <1>9, <3>1
    <3>2. CASE i # 0
      <4>1. i - 1 \in 0..(n - 1) /\ (i - 1) + 1 = i
        BY <3>2
      <4>2. f[(i - 1) + 1] = Base * f[i - 1] + bytes[(i - 1) + 1]
        BY <1>10, <4>1
      <4> QED
        BY <3>2, <4>1, <4>2
    <3> QED
      BY <3>1, <3>2
  <2> QED
    BY <1>8, <2>1
<1> DEFINE Is(h) == h = [i \in 0..n |-> IF i = 0 THEN 0 ELSE Base * h[i - 1] + bytes[i]]
<1>12. PICK sum : sum = CHOOSE h : Is(h)
  OBVIOUS
<1>13. Is(sum)
  <2>1. \E h : Is(h)
    BY <1>11
  <2> HIDE DEF Is
  <2> QED
    BY <1>12, <2>1
<1>14. Value(bytes) = sum[n]
  BY <1>1, <1>12 DEF Value
<1>15. sum[0] = 0 /\ DOMAIN sum = 0..n
  BY <1>13
<1>16. ASSUME NEW i \in 0..(n - 1) PROVE sum[i + 1] = Base * sum[i] + bytes[i + 1]
  <2>1. i + 1 \in 0..n /\ i + 1 # 0 /\ (i + 1) - 1 = i
    OBVIOUS
  <2> QED
    BY <1>13, <2>1
<1>17. \A i \in Nat : i <= n => sum[i] \in Nat
  <2> DEFINE T == {i \in Nat : i <= n => sum[i] \in Nat}
  <2>1. 0 \in T
    BY <1>15
  <2>2. ASSUME NEW i \in Nat, i \in T PROVE i + 1 \in T
    <3>1. CASE i < n
      <4>1. i \in 0..(n - 1) /\ sum[i] \in Nat /\ bytes[i + 1] \in Nat
        BY <1>2, <2>2, <3>1
      <4>2. sum[i + 1] = Base * sum[i] + bytes[i + 1]
        BY <1>16, <4>1
      <4>3. sum[i + 1] \in Nat
        <5>1. Base * sum[i] \in Nat
          BY <1>2, <4>1
        <5> QED
          BY <4>1, <4>2, <5>1
      <4> QED
        BY <4>3
    <3>2. CASE ~(i < n)
      BY <3>2
    <3> QED
      BY <3>1, <3>2
  <2>3. \A i \in Nat : i \in T
    <3> HIDE DEF T
    <3> QED
      BY <2>1, <2>2, Induction
  <2> QED
    BY <2>3
<1>18. sum \in [0..n -> Nat]
  BY <1>13, <1>17
<1> QED
  BY <1>1, <1>14, <1>15, <1>16, <1>18

\* The value of k bytes is below Power[k].
LEMMA ValueBound ==
  ASSUME NEW bytes \in Seq(Byte)
  PROVE  Value(bytes) \in Nat /\ Value(bytes) < Power[Len(bytes)]
<1>1. PICK n \in Nat : n = Len(bytes)
  BY LenProperties
<1>2. Base \in Nat \ {0} /\ \A i \in 1..n : bytes[i] \in 0..(Base - 1)
  BY <1>1, FramingAssumption DEF Byte
<1>3. PICK sum \in [0..n -> Nat] :
        /\ Value(bytes) = sum[n]
        /\ sum[0] = 0
        /\ \A i \in 0..(n - 1) : sum[i + 1] = Base * sum[i] + bytes[i + 1]
  BY <1>1, ValueDef
<1>4. \A i \in Nat : i <= n => sum[i] < Power[i]
  <2> DEFINE T == {i \in Nat : i <= n => sum[i] < Power[i]}
  <2>1. 0 \in T
    BY <1>3, PowerDef
  <2>2. ASSUME NEW i \in Nat, i \in T, i < n PROVE i + 1 \in T
    <3>1. PICK x \in Nat, p \in Nat : x = sum[i] /\ p = Power[i] /\ x + 1 <= p
      <4>1. sum[i] \in Nat /\ Power[i] \in Nat /\ sum[i] < Power[i]
        BY <1>3, <2>2, PowerDef
      <4> QED
        BY <4>1
    <3>2. sum[i + 1] = Base * x + bytes[i + 1] /\ bytes[i + 1] \in 0..(Base - 1)
      BY <1>2, <1>3, <2>2, <3>1
    <3>3. Power[i + 1] = Base * p
      BY <2>2, <3>1, PowerDef
    <3>4. Base * x + Base <= Base * p
      <4>1. PICK z \in Nat : p = x + 1 + z
        <5>1. p - x - 1 \in Nat
          BY <3>1
        <5>2. p = x + 1 + (p - x - 1)
          OBVIOUS
        <5> QED
          BY <5>1, <5>2
      <4>2. Base * p = Base * x + Base + Base * z /\ Base * z >= 0
        BY <1>2, <4>1
      <4> QED
        BY <1>2, <4>2
    <3>5. Base * x \in Nat /\ Base * p \in Nat
      BY <1>2
    <3>6. sum[i + 1] < Power[i + 1]
      <4>1. PICK u \in Nat, v \in Nat : u = Base * x /\ v = Base * p
        BY <3>5
      <4>2. PICK d \in 0..(Base - 1) : d = bytes[i + 1]
        BY <3>2
      <4>3. u + Base <= v
        BY <3>4, <4>1, Zenon
      <4>4. u + d < v
        <5>1. Base \in Nat
          BY <1>2
        <5> QED
          BY <4>3, <5>1
      <4> QED
        BY <3>2, <3>3, <4>1, <4>2, <4>4
    <3> QED
      BY <2>2, <3>6
  <2>3. ASSUME NEW i \in Nat, i \in T PROVE i + 1 \in T
    <3>1. CASE i < n
      BY <2>2, <2>3, <3>1
    <3>2. CASE ~(i < n)
      BY <3>2
    <3> QED
      BY <3>1, <3>2
  <2>4. \A i \in Nat : i \in T
    <3> HIDE DEF T
    <3> QED
      BY <2>1, <2>3, Induction
  <2> QED
    BY <2>4
<1> QED
  BY <1>1, <1>3, <1>4

\* BigEndian gives k bytes.
LEMMA BigEndianType ==
  ASSUME NEW n \in Nat, NEW k \in Nat
  PROVE  BigEndian(n, k) \in Seq(Byte) /\ Len(BigEndian(n, k)) = k
<1>1. ASSUME NEW i \in 1..k PROVE (n \div Power[k - i]) % Base \in Byte
  <2>1. k - i \in Nat
    OBVIOUS
  <2>2. Power[k - i] \in Nat \ {0} /\ Base \in Nat \ {0}
    BY <2>1, PowerDef, FramingAssumption
  <2>3. (n \div Power[k - i]) % Base \in 0..(Base - 1)
    BY <2>2, DigitStep
  <2> QED
    BY <2>3, Zenon DEF Byte
<1>2. PICK f : f = BigEndian(n, k)
  OBVIOUS
<1>3. f \in [1..k -> Byte]
  BY <1>1, <1>2, Zenon DEF BigEndian
<1>4. f \in Seq(Byte) /\ Len(f) = k
  BY <1>3
<1> QED
  BY <1>2, <1>4

\* A number that k bytes can hold is the value of its k bytes: network_to_host
\* takes back what host_to_network does.
THEOREM RoundTrip ==
  ASSUME NEW n \in Nat, NEW k \in Nat, n < Power[k]
  PROVE  Value(BigEndian(n, k)) = n
<1>1. PICK bytes \in Seq(Byte) : bytes = BigEndian(n, k) /\ Len(bytes) = k
  <2>1. BigEndian(n, k) \in Seq(Byte) /\ Len(BigEndian(n, k)) = k
    BY BigEndianType, Zenon
  <2> QED
    BY <2>1, Zenon
<1>2. Base \in Nat \ {0}
  BY FramingAssumption
<1>3. PICK sum \in [0..k -> Nat] :
        /\ Value(bytes) = sum[k]
        /\ sum[0] = 0
        /\ \A i \in 0..(k - 1) : sum[i + 1] = Base * sum[i] + bytes[i + 1]
  <2>1. \E sum \in [0..Len(bytes) -> Nat] :
          /\ Value(bytes) = sum[Len(bytes)]
          /\ sum[0] = 0
          /\ \A i \in 0..(Len(bytes) - 1) : sum[i + 1] = Base * sum[i] + bytes[i + 1]
    BY ValueDef, Zenon
  <2> QED
    BY <1>1, <2>1, Zenon
<1>4. ASSUME NEW i \in 1..k PROVE bytes[i] = (n \div Power[k - i]) % Base
  BY <1>1, Zenon DEF BigEndian
<1> DEFINE T == {i \in Nat : i <= k => sum[i] = n \div Power[k - i]}
<1>5. 0 \in T
  <2>1. PICK p \in Nat \ {0} : p = Power[k] /\ n < p
    BY PowerDef
  <2>2. n \div p = 0
    <3>1. n \div p \in Nat /\ n % p \in 0..(p - 1) /\ n = p * (n \div p) + (n % p)
      BY Division
    <3>2. PICK q \in Nat, r \in 0..(p - 1) : q = n \div p /\ n = p * q + r
      BY <3>1
    <3>3. n \in 0..(p - 1) /\ n = p * 0 + n
      BY <2>1
    <3>4. q = 0
      BY <3>2, <3>3, Multiples
    <3> QED
      BY <3>2, <3>4
  <2>3. k - 0 = k
    OBVIOUS
  <2>4. sum[0] = n \div Power[k - 0]
    BY <1>3, <2>1, <2>2, <2>3
  <2> QED
    BY <2>4
<1>6. ASSUME NEW i \in Nat, i \in T PROVE i + 1 \in T
  <2>1. CASE i < k
    <3>0. k - (i + 1) \in Nat
      BY <2>1
    <3>1. PICK p \in Nat \ {0} : p = Power[k - (i + 1)]
      BY <3>0, PowerDef
    <3>2. Power[k - i] = Base * p
      <4>1. k - (i + 1) \in Nat /\ (k - (i + 1)) + 1 = k - i
        BY <2>1
      <4> QED
        BY <3>1, <4>1, PowerDef
    <3>3. n \div p = Base * (n \div (Base * p)) + ((n \div p) % Base)
      BY <1>2, DigitStep
    <3>4. sum[i] = n \div (Base * p)
      BY <1>6, <2>1, <3>2
    <3>5. i \in 0..(k - 1) /\ i + 1 \in 1..k
      BY <2>1
    <3>6. bytes[i + 1] = (n \div p) % Base
      BY <1>4, <3>1, <3>5
    <3>7. sum[i + 1] = Base * sum[i] + bytes[i + 1]
      BY <1>3, <3>5
    <3>8. sum[i + 1] = n \div p
      BY <3>3, <3>4, <3>6, <3>7, Zenon
    <3>9. sum[i + 1] = n \div Power[k - (i + 1)]
      BY <3>1, <3>8, Zenon
    <3> QED
      BY <3>9
  <2>2. CASE ~(i < k)
    BY <2>2
  <2> QED
    BY <2>1, <2>2
<1>7. \A i \in Nat : i \in T
  <2> HIDE DEF T
  <2> QED
    BY <1>5, <1>6, Induction
<1>8. sum[k] = n \div Power[k - k]
  BY <1>7
<1>9. Power[k - k] = 1 /\ n \div 1 = n
  BY PowerDef
<1> QED
  BY <1>1, <1>3, <1>8, <1>9

-----------------------------------------------------------------------------
(* The bytes of a node.                                                     *)

\* The lengths as numbers, and zero as a byte.
LEMMA HeaderSizes ==
  /\ HalfLen \in Nat \ {0} /\ HeadIdLen \in Nat /\ HeadDataLen \in Nat /\ HeadTotalLen \in Nat
  /\ HeadDataLen = HalfLen + HalfLen /\ HeadTotalLen = HeadIdLen + HalfLen + HalfLen
  /\ 0 \in Byte /\ Byte \subseteq Nat
BY FramingAssumption DEF HeadDataLen, HeadTotalLen, Byte

\* The length is two halves, of which the second is zero.
LEMMA LengthBytesType ==
  ASSUME NEW n \in Nat
  PROVE  /\ LengthBytes(n) \in Seq(Byte) /\ Len(LengthBytes(n)) = HeadDataLen
         /\ \A i \in 1..HalfLen : LengthBytes(n)[i] = BigEndian(n, HalfLen)[i]
<1>1. PICK half \in Seq(Byte) : half = BigEndian(n, HalfLen) /\ Len(half) = HalfLen
  BY HeaderSizes, BigEndianType
<1>2. PICK f : f = LengthBytes(n)
  OBVIOUS
<1>3. f = [i \in 1..HeadDataLen |-> IF i <= HalfLen THEN half[i] ELSE 0]
  BY <1>1, <1>2, Zenon DEF LengthBytes
<1>4. \A i \in 1..HalfLen : half[i] \in Byte
  BY <1>1, ElementOfSeq
<1>5. f \in [1..HeadDataLen -> Byte] /\ \A i \in 1..HalfLen : f[i] = half[i]
  BY <1>3, <1>4, HeaderSizes
<1>6. f \in Seq(Byte) /\ Len(f) = HeadDataLen
  BY <1>5, HeaderSizes
<1> QED
  BY <1>1, <1>2, <1>5, <1>6

\* A message with a body becomes the bytes of its identifier, of its length, and
\* of its body.
LEMMA NodeBytes ==
  ASSUME NEW m \in Messages, m.body # <<>>
  PROVE  /\ SendNode(m) \in Seq(Byte)
         /\ Len(m.body) \in Nat \ {0}
         /\ Len(SendNode(m)) = HeadTotalLen + Len(m.body)
         /\ \A i \in 1..HeadIdLen : SendNode(m)[i] = BigEndian(m.id, HeadIdLen)[i]
         /\ \A i \in 1..HalfLen :
              SendNode(m)[HeadIdLen + i] = BigEndian(Len(m.body), HalfLen)[i]
         /\ \A i \in 1..Len(m.body) : SendNode(m)[HeadTotalLen + i] = m.body[i]
<1>1. m.id \in MsgIds /\ m.body \in Bodies
  BY DEF Messages
<1>2. m.body \in Seq(Byte) /\ m.id \in Nat
  <2>1. m.body \in Seq(Byte)
    BY <1>1, FramingAssumption, Zenon
  <2>2. m.id \in 0..(Power[HeadIdLen] - 1) /\ Power[HeadIdLen] \in Nat
    BY <1>1, FramingAssumption, PowerDef
  <2>3. m.id \in Nat
    BY <2>2
  <2> QED
    BY <2>1, <2>3
<1>3. PICK body \in Seq(Byte), b \in Nat \ {0} : body = m.body /\ b = Len(body)
  BY <1>2, EmptySeq
<1>4. PICK x \in Seq(Byte) : x = BigEndian(m.id, HeadIdLen) /\ Len(x) = HeadIdLen
  BY <1>2, HeaderSizes, BigEndianType
<1>5. PICK y \in Seq(Byte) : /\ y = LengthBytes(b) /\ Len(y) = HeadDataLen
                             /\ \A i \in 1..HalfLen : y[i] = BigEndian(b, HalfLen)[i]
  BY <1>3, LengthBytesType
<1>6. PICK h \in Seq(Byte) :
        /\ h = x \o y
        /\ Len(h) = HeadTotalLen
        /\ \A i \in 1..HeadTotalLen : h[i] = IF i <= HeadIdLen THEN x[i] ELSE y[i - HeadIdLen]
  <2>1. PICK h : h = x \o y
    OBVIOUS
  <2>2. h \in Seq(Byte) /\ Len(h) = Len(x) + Len(y)
        /\ \A i \in 1..(Len(x) + Len(y)) : h[i] = IF i <= Len(x) THEN x[i] ELSE y[i - Len(x)]
    BY <2>1, ConcatProperties
  <2>3. Len(x) + Len(y) = HeadTotalLen /\ Len(x) = HeadIdLen
    BY <1>4, <1>5, HeaderSizes
  <2>4. /\ Len(h) = HeadTotalLen
        /\ \A i \in 1..HeadTotalLen : h[i] = IF i <= HeadIdLen THEN x[i] ELSE y[i - HeadIdLen]
    BY <2>2, <2>3
  <2> QED
    BY <2>1, <2>2, <2>4, Zenon
<1>7. PICK s \in Seq(Byte) :
        /\ s = h \o body
        /\ Len(s) = HeadTotalLen + b
        /\ \A i \in 1..(HeadTotalLen + b) :
             s[i] = IF i <= HeadTotalLen THEN h[i] ELSE body[i - HeadTotalLen]
  <2>1. PICK s : s = h \o body
    OBVIOUS
  <2>2. s \in Seq(Byte) /\ Len(s) = Len(h) + Len(body)
        /\ \A i \in 1..(Len(h) + Len(body)) : s[i] = IF i <= Len(h) THEN h[i] ELSE body[i - Len(h)]
    BY <2>1, ConcatProperties
  <2>3. Len(h) = HeadTotalLen /\ Len(body) = b
    BY <1>3, <1>6
  <2> QED
    BY <2>1, <2>2, <2>3, Zenon
<1>8. s = SendNode(m)
  BY <1>3, <1>4, <1>5, <1>6, <1>7, Zenon DEF SendNode
<1>9. \A i \in 1..HeadIdLen : s[i] = x[i]
  <2> TAKE i \in 1..HeadIdLen
  <2>1. i \in 1..HeadTotalLen /\ i \in 1..(HeadTotalLen + b) /\ i <= HeadIdLen
    BY HeaderSizes
  <2> QED
    BY <1>6, <1>7, <2>1
<1>10. \A i \in 1..HalfLen : s[HeadIdLen + i] = y[i]
  <2> TAKE i \in 1..HalfLen
  <2>1. PICK j : j = HeadIdLen + i
    OBVIOUS
  <2>2. j \in 1..HeadTotalLen /\ j \in 1..(HeadTotalLen + b) /\ ~(j <= HeadIdLen) /\ j - HeadIdLen = i
    BY <2>1, HeaderSizes
  <2>3. s[j] = y[i]
    BY <1>6, <1>7, <2>2
  <2> QED
    BY <2>1, <2>3
<1>11. \A i \in 1..b : s[HeadTotalLen + i] = body[i]
  <2> TAKE i \in 1..b
  <2>1. PICK j : j = HeadTotalLen + i
    OBVIOUS
  <2>2. j \in 1..(HeadTotalLen + b) /\ ~(j <= HeadTotalLen) /\ j - HeadTotalLen = i
    BY <2>1, HeaderSizes
  <2>3. s[j] = body[i]
    BY <1>7, <2>2
  <2> QED
    BY <2>1, <2>3
<1> QED
  BY <1>3, <1>4, <1>5, <1>7, <1>8, <1>9, <1>10, <1>11

\* The node of any message is a sequence of bytes.
LEMMA NodeType == ASSUME NEW m \in Messages PROVE SendNode(m) \in Seq(Byte)
<1>1. CASE m.body = <<>>
  BY <1>1, EmptySeq DEF SendNode
<1>2. CASE m.body # <<>>
  BY <1>2, NodeBytes
<1> QED
  BY <1>1, <1>2

\* The piece of a header that is converted to a number.
LEMMA HeaderPart ==
  ASSUME NEW header \in Seq(Byte), Len(header) = HeadTotalLen,
         NEW from \in Nat, NEW k \in Nat, from + k <= HeadTotalLen
  PROVE  /\ SubSeq(header, from + 1, from + k) \in Seq(Byte)
         /\ Len(SubSeq(header, from + 1, from + k)) = k
         /\ \A i \in 1..k : SubSeq(header, from + 1, from + k)[i] = header[from + i]
<1>1. PICK a \in Int, z \in Int : a = from + 1 /\ z = from + k
  OBVIOUS
<1>2. \A i \in a..z : header[i] \in Byte
  <2>1. \A i \in a..z : i \in 1..Len(header)
    BY <1>1, HeaderSizes
  <2> QED
    BY <2>1, ElementOfSeq
<1>3. PICK s : s = SubSeq(header, a, z)
  OBVIOUS
<1>4. /\ s \in Seq(Byte) /\ Len(s) = (IF a <= z THEN z - a + 1 ELSE 0)
      /\ \A i \in 1..(z - a + 1) : s[i] = header[a + i - 1]
  BY <1>2, <1>3, SubSeqProperties
<1>5. Len(s) = k
  BY <1>1, <1>4
<1>6. ASSUME NEW i \in 1..k PROVE s[i] = header[from + i]
  <2>1. i \in 1..(z - a + 1) /\ a + i - 1 = from + i
    BY <1>1
  <2> QED
    BY <1>4, <2>1
<1> QED
  BY <1>1, <1>3, <1>4, <1>5, <1>6

\* A whole header has a length below what the bytes of the length can hold.
LEMMA HeaderLengthType ==
  ASSUME NEW header \in Seq(Byte), Len(header) = HeadTotalLen
  PROVE  HeaderLength(header) \in 0..(Power[HalfLen] - 1) /\ HeaderId(header) \in Nat
<1>1. PICK s : s = SubSeq(header, HeadIdLen + 1, HeadIdLen + HalfLen)
  OBVIOUS
<1>2. s \in Seq(Byte) /\ Len(s) = HalfLen
  BY <1>1, HeaderSizes, HeaderPart
<1>3. Value(s) \in Nat /\ Value(s) < Power[HalfLen] /\ Power[HalfLen] \in Nat
  BY <1>2, HeaderSizes, ValueBound, PowerDef
<1>4. PICK t : t = SubSeq(header, 1, HeadIdLen)
  OBVIOUS
<1>5. t \in Seq(Byte)
  BY <1>4, HeaderSizes, HeaderPart
<1>6. Value(t) \in Nat
  BY <1>5, ValueBound
<1> QED
  BY <1>1, <1>3, <1>4, <1>6 DEF HeaderLength, HeaderId

\* The header of a node gives back the identifier and the length of the message.
LEMMA HeaderDecodes ==
  ASSUME NEW m \in Messages, m.body # <<>>, Len(m.body) < Power[HalfLen],
         NEW header \in Seq(Byte), Len(header) = HeadTotalLen,
         \A i \in 1..HeadTotalLen : header[i] = SendNode(m)[i]
  PROVE  HeaderLength(header) = Len(m.body) /\ HeaderId(header) = m.id
<1>1. PICK b \in Nat : b = Len(m.body) /\ b < Power[HalfLen]
  BY NodeBytes
<1>2. HeaderLength(header) = b
  <2>1. PICK s : s = SubSeq(header, HeadIdLen + 1, HeadIdLen + HalfLen)
    OBVIOUS
  <2>2. s \in Seq(Byte) /\ Len(s) = HalfLen /\ \A i \in 1..HalfLen : s[i] = header[HeadIdLen + i]
    BY <2>1, HeaderSizes, HeaderPart
  <2>3. PICK t \in Seq(Byte) : t = BigEndian(b, HalfLen) /\ Len(t) = HalfLen
    BY HeaderSizes, BigEndianType
  <2>4. ASSUME NEW i \in 1..HalfLen PROVE s[i] = t[i]
    <3>1. HeadIdLen + i \in 1..HeadTotalLen
      BY HeaderSizes
    <3> QED
      BY <1>1, <2>2, <2>3, <3>1, NodeBytes
  <2>5. s = t
    BY <2>2, <2>3, <2>4, SeqEqual
  <2>6. Value(t) = b
    BY <1>1, <2>3, HeaderSizes, RoundTrip
  <2> QED
    BY <2>1, <2>5, <2>6 DEF HeaderLength
<1>3. m.id \in Nat /\ m.id < Power[HeadIdLen]
  <2>1. m.id \in 0..(Power[HeadIdLen] - 1) /\ Power[HeadIdLen] \in Nat
    BY FramingAssumption, PowerDef DEF Messages
  <2> QED
    BY <2>1
<1>4. HeaderId(header) = m.id
  <2>1. PICK s : s = SubSeq(header, 1, HeadIdLen)
    OBVIOUS
  <2>2. s \in Seq(Byte) /\ Len(s) = HeadIdLen /\ \A i \in 1..HeadIdLen : s[i] = header[i]
    <3>1. SubSeq(header, 0 + 1, 0 + HeadIdLen) = s /\ 0 + HeadIdLen <= HeadTotalLen
      BY <2>1, HeaderSizes
    <3>2. s \in Seq(Byte) /\ Len(s) = HeadIdLen /\ \A i \in 1..HeadIdLen : s[i] = header[0 + i]
      BY <3>1, HeaderSizes, HeaderPart
    <3> QED
      BY <3>2
  <2>3. PICK t \in Seq(Byte) : t = BigEndian(m.id, HeadIdLen) /\ Len(t) = HeadIdLen
    BY <1>3, HeaderSizes, BigEndianType
  <2>4. ASSUME NEW i \in 1..HeadIdLen PROVE s[i] = t[i]
    <3>1. i \in 1..HeadTotalLen
      BY HeaderSizes
    <3> QED
      BY <2>2, <2>3, <3>1, NodeBytes
  <2>5. s = t
    BY <2>2, <2>3, <2>4, SeqEqual
  <2>6. Value(t) = m.id
    BY <1>3, <2>3, HeaderSizes, RoundTrip
  <2> QED
    BY <2>1, <2>5, <2>6 DEF HeaderId
<1> QED
  BY <1>1, <1>2, <1>4

-----------------------------------------------------------------------------
(* The stream: Framing.                                                     *)

\* A request as the reader posts it.
Requests == [id : Nat, body : Seq(Byte)]

\* The types, and that a header is whole when it is used.
FrameTypes ==
  /\ FramingTypeOK
  /\ phase \in {"allocate", "body", "post"} => Len(headerBuffer) = HeadTotalLen

\* What async_read_some takes from the wire and adds to a buffer.
LEMMA PieceArrives ==
  ASSUME wire \in Seq(Byte), NEW buffer \in Seq(Byte), NEW n, NEW room \in Int, Arrives(n, room)
  PROVE  /\ n \in Nat /\ n >= 1 /\ n <= room /\ n <= Len(wire)
         /\ wire' \in Seq(Byte) /\ Len(wire') = Len(wire) - n
         /\ \A i \in 1..(Len(wire) - n) : wire'[i] = wire[n + i]
         /\ buffer \o Piece(n) \in Seq(Byte)
         /\ Len(buffer \o Piece(n)) = Len(buffer) + n
         /\ \A i \in 1..(Len(buffer) + n) :
              (buffer \o Piece(n))[i] = IF i <= Len(buffer) THEN buffer[i] ELSE wire[i - Len(buffer)]
<1>1. PICK s \in Seq(Byte), l \in Nat : s = wire /\ l = Len(s)
  BY LenProperties
<1>2. PICK b \in Nat : b = Len(buffer)
  BY LenProperties
<1>3. n \in Nat /\ n >= 1 /\ n <= room /\ n <= l
  BY <1>1 DEF Arrives
<1>4. PICK t : t = SubSeq(s, n + 1, l)
  OBVIOUS
<1>5. t \in Seq(Byte) /\ Len(t) = l - n /\ \A i \in 1..(l - n) : t[i] = s[n + i]
  <2>1. PICK a \in Int : a = n + 1
    BY <1>3
  <2>2. \A i \in a..l : s[i] \in Byte
    BY <1>1, <1>3, <2>1, ElementOfSeq
  <2>3. /\ t \in Seq(Byte) /\ Len(t) = (IF a <= l THEN l - a + 1 ELSE 0)
        /\ \A i \in 1..(l - a + 1) : t[i] = s[a + i - 1]
    BY <1>4, <2>1, <2>2, SubSeqProperties
  <2>4. ASSUME NEW i \in 1..(l - n) PROVE t[i] = s[n + i]
    <3>1. i \in 1..(l - a + 1) /\ a + i - 1 = n + i
      BY <1>3, <2>1
    <3> QED
      BY <2>3, <3>1
  <2>5. Len(t) = l - n
    BY <1>3, <2>1, <2>3
  <2> QED
    BY <2>3, <2>4, <2>5
<1>6. PICK p : p = SubSeq(s, 1, n)
  OBVIOUS
<1>7. p \in Seq(Byte) /\ Len(p) = n /\ \A i \in 1..n : p[i] = s[i]
  <2>1. \A i \in 1..n : s[i] \in Byte
    BY <1>1, <1>3, ElementOfSeq
  <2>2. /\ p \in Seq(Byte) /\ Len(p) = (IF 1 <= n THEN n - 1 + 1 ELSE 0)
        /\ \A i \in 1..(n - 1 + 1) : p[i] = s[1 + i - 1]
    BY <1>3, <1>6, <2>1, SubSeqProperties
  <2>3. Len(p) = n
    BY <1>3, <2>2
  <2>4. ASSUME NEW i \in 1..n PROVE p[i] = s[i]
    <3>1. i \in 1..(n - 1 + 1) /\ 1 + i - 1 = i
      BY <1>3
    <3> QED
      BY <2>2, <3>1
  <2> QED
    BY <2>2, <2>3, <2>4
<1>8. PICK u : u = buffer \o p
  OBVIOUS
<1>9. /\ u \in Seq(Byte) /\ Len(u) = b + n
      /\ \A i \in 1..(b + n) : u[i] = IF i <= b THEN buffer[i] ELSE p[i - b]
  BY <1>2, <1>7, <1>8, ConcatProperties
<1>10. ASSUME NEW i \in 1..(b + n) PROVE u[i] = IF i <= b THEN buffer[i] ELSE s[i - b]
  <2>1. CASE i <= b
    BY <1>9, <2>1
  <2>2. CASE ~(i <= b)
    <3>1. i - b \in 1..n
      BY <1>3, <2>2
    <3> QED
      BY <1>7, <1>9, <2>2, <3>1
  <2> QED
    BY <2>1, <2>2
<1>11. wire' = t /\ Piece(n) = p
  BY <1>1, <1>4, <1>6 DEF Arrives, Piece
<1> QED
  BY <1>1, <1>2, <1>3, <1>5, <1>8, <1>9, <1>10, <1>11

\* Every step preserves the types; a header always holds fewer bytes than there
\* are, and a body fewer than the header says.
LEMMA FrameTypeStep == FrameTypes /\ [FrameNext]_frameVars => FrameTypes'
<1> SUFFICES ASSUME FrameTypes, [FrameNext]_frameVars PROVE FrameTypes'
  OBVIOUS
<1>1. /\ sent \in Seq(Messages) /\ wire \in Seq(Byte) /\ open \in BOOLEAN
      /\ phase \in {"header", "allocate", "body", "post", "closed"}
      /\ headerBuffer \in Seq(Byte) /\ Len(headerBuffer) \in Nat /\ Len(headerBuffer) <= HeadTotalLen
      /\ bodySize \in 0..(Power[HalfLen] - 1) /\ bodySize \in Nat
      /\ bodyBuffer \in Seq(Byte) /\ Len(bodyBuffer) \in Nat /\ Len(bodyBuffer) <= bodySize
      /\ received \in Seq(Requests)
      /\ phase \in {"allocate", "body", "post"} => Len(headerBuffer) = HeadTotalLen
  BY LenProperties DEF FrameTypes, FramingTypeOK, Requests
<1>2. HeadTotalLen \in Nat
  BY HeaderSizes
<1> USE DEF FrameTypes, FramingTypeOK, Requests, writerVars
<1>3. ASSUME NEW m \in Messages, Write(m) \/ WriteFails(m) PROVE FrameTypes'
  <2>1. PICK node \in Seq(Byte) : node = SendNode(m)
    BY NodeType
  <2>2. sent' \in Seq(Messages)
    <3>1. Append(sent, m) \in Seq(Messages)
      BY <1>1, AppendProperties
    <3>2. sent' \in {sent, Append(sent, m)}
      BY <1>3 DEF Write, WriteFails
    <3> QED
      BY <1>1, <3>1, <3>2
  <2>3. wire' \in Seq(Byte)
    <3>1. CASE Write(m)
      BY <1>1, <2>1, <3>1, ConcatProperties DEF Write
    <3>2. CASE WriteFails(m)
      <4>1. PICK k \in 0..(Len(node) - 1) : wire' = wire \o SubSeq(node, 1, k)
        BY <2>1, <3>2 DEF WriteFails
      <4>2. Len(node) \in Nat
        BY LenProperties
      <4>3. \A i \in 1..k : node[i] \in Byte
        BY <4>2, ElementOfSeq
      <4>4. SubSeq(node, 1, k) \in Seq(Byte)
        BY <4>2, <4>3, SubSeqProperties
      <4> QED
        BY <1>1, <4>1, <4>4, ConcatProperties
    <3> QED
      BY <1>3, <3>1, <3>2
  <2>4. /\ open' \in BOOLEAN
        /\ UNCHANGED <<phase, headerBuffer, bodySize, bodyBuffer, received>>
    BY <1>1, <1>3, Zenon DEF Write, WriteFails
  <2> QED
    BY <1>1, <2>2, <2>3, <2>4
<1>4. ASSUME NEW n, ReadHeader(n) PROVE FrameTypes'
  <2>1. PICK room \in Int : room = HeadTotalLen - Len(headerBuffer)
    <3>1. HeadTotalLen - Len(headerBuffer) \in Int
      BY <1>1, <1>2
    <3> QED
      BY <3>1
  <2>2. Arrives(n, room) /\ headerBuffer' = headerBuffer \o Piece(n)
    BY <1>4, <2>1 DEF ReadHeader
  <2>3. /\ n \in Nat /\ n <= room /\ wire' \in Seq(Byte)
        /\ headerBuffer' \in Seq(Byte) /\ Len(headerBuffer') = Len(headerBuffer) + n
    BY <1>1, <2>2, PieceArrives
  <2>4. Len(headerBuffer') <= HeadTotalLen
    BY <1>1, <1>2, <2>1, <2>3
  <2>5. /\ UNCHANGED <<writerVars, bodySize, bodyBuffer, received>>
        /\ phase' \in {"header", "allocate"}
        /\ phase' = "allocate" => Len(headerBuffer') = HeadTotalLen
    BY <1>4 DEF ReadHeader
  <2> QED
    BY <1>1, <2>3, <2>4, <2>5
<1>5. CASE AllocateBody
  <2>1. bodySize' \in 0..(Power[HalfLen] - 1) /\ bodySize' \in Nat
    <3>1. Len(headerBuffer) = HeadTotalLen /\ bodySize' = HeaderLength(headerBuffer)
      BY <1>1, <1>5 DEF AllocateBody
    <3> QED
      BY <1>1, <3>1, HeaderLengthType
  <2>2. bodyBuffer' \in Seq(Byte) /\ Len(bodyBuffer') = 0
    BY <1>5, EmptySeq DEF AllocateBody
  <2>3. /\ UNCHANGED <<writerVars, wire, headerBuffer, received>> /\ phase' \in {"post", "body"}
        /\ phase = "allocate"
    BY <1>5 DEF AllocateBody
  <2> QED
    BY <1>1, <2>1, <2>2, <2>3
<1>6. ASSUME NEW n, ReadBody(n) PROVE FrameTypes'
  <2>1. PICK room \in Int : room = bodySize - Len(bodyBuffer)
    <3>1. bodySize - Len(bodyBuffer) \in Int
      BY <1>1
    <3> QED
      BY <3>1
  <2>2. Arrives(n, room) /\ bodyBuffer' = bodyBuffer \o Piece(n)
    BY <1>6, <2>1 DEF ReadBody
  <2>3. /\ n \in Nat /\ n <= room /\ wire' \in Seq(Byte)
        /\ bodyBuffer' \in Seq(Byte) /\ Len(bodyBuffer') = Len(bodyBuffer) + n
    BY <1>1, <2>2, PieceArrives
  <2>4. Len(bodyBuffer') <= bodySize
    BY <1>1, <2>1, <2>3
  <2>5. /\ UNCHANGED <<writerVars, headerBuffer, bodySize, received>>
        /\ phase' \in {"body", "post"} /\ phase = "body"
    BY <1>6 DEF ReadBody
  <2> QED
    BY <1>1, <2>3, <2>4, <2>5
<1>7. CASE PostNode
  <2>1. PICK node : /\ node \in {[id |-> HeaderId(headerBuffer), body |-> bodyBuffer], NoNode}
                    /\ received' = Append(received, node)
    BY <1>7 DEF PostNode
  <2>2. node \in Requests
    <3>1. HeaderId(headerBuffer) \in Nat
      BY <1>1, <1>7, HeaderLengthType DEF PostNode
    <3>2. NoNode \in Requests
      BY EmptySeq DEF NoNode
    <3> QED
      BY <1>1, <2>1, <3>1, <3>2
  <2>3. received' \in Seq(Requests)
    BY <1>1, <2>1, <2>2, AppendProperties
  <2>4. /\ headerBuffer' = <<>> /\ phase' = "header"
        /\ UNCHANGED <<writerVars, wire, bodySize, bodyBuffer>>
    BY <1>7 DEF PostNode
  <2>5. headerBuffer' \in Seq(Byte) /\ Len(headerBuffer') = 0
    BY <2>4, EmptySeq
  <2> QED
    BY <1>1, <1>2, <2>3, <2>4, <2>5
<1>8. CASE ReadFails
  BY <1>1, <1>8 DEF ReadFails
<1>9. CASE UNCHANGED frameVars
  BY <1>1, <1>9 DEF frameVars
<1> QED
  BY <1>3, <1>4, <1>5, <1>6, <1>7, <1>8, <1>9 DEF FrameNext, Writer, Reader

\* The first state has the types.
LEMMA FrameTypeStart == FrameInit => FrameTypes
<1> SUFFICES ASSUME FrameInit PROVE FrameTypes
  OBVIOUS
<1>1. 0 \in 0..(Power[HalfLen] - 1)
  BY HeaderSizes, PowerDef
<1>2. open \in BOOLEAN
  BY Zenon DEF FrameInit
<1>3. <<>> \in Seq(Messages) /\ <<>> \in Seq(Byte) /\ <<>> \in Seq(Requests) /\ Len(<<>>) = 0
  BY EmptySeq
<1> QED
  BY <1>1, <1>2, <1>3, HeaderSizes DEF FrameInit, FrameTypes, FramingTypeOK, Requests

\* The bytes that the writer has written since the first message, and where among
\* them each message's node starts: the last one may be cut short by a failure.
StreamOK(stream, start) ==
  /\ stream \in Seq(Byte)
  /\ start \in [0..Len(sent) -> Nat] /\ start[0] = 0
  /\ \A i \in 1..Len(sent) :
       /\ sent[i].body # <<>>
       /\ start[i] = start[i - 1] + Len(SendNode(sent[i]))
       /\ \A j \in 1..Len(SendNode(sent[i])) :
            start[i - 1] + j <= Len(stream) => stream[start[i - 1] + j] = SendNode(sent[i])[j]
  /\ \A i \in 0..Len(sent), j \in 0..Len(sent) : i <= j => start[i] <= start[j]
  /\ open => Len(stream) = start[Len(sent)]
  /\ ~open => /\ Len(sent) >= 1 /\ start[Len(sent) - 1] <= Len(stream)
              /\ Len(stream) < start[Len(sent)]

\* What the reader has collected is the part of the stream after the requests it
\* has posted, and what is on the wire is the rest.
ReaderOK(stream, start) ==
  /\ Len(received) <= Len(sent)
  /\ \A i \in 1..Len(received) : received[i] \in {sent[i], NoNode}
  /\ Len(wire) <= Len(stream)
  /\ \A i \in 1..Len(wire) : wire[i] = stream[Len(stream) - Len(wire) + i]
  /\ phase \in {"header", "allocate"} =>
       Len(stream) - Len(wire) = start[Len(received)] + Len(headerBuffer)
  /\ phase = "header" => Len(headerBuffer) < HeadTotalLen
  /\ phase # "closed" => \A i \in 1..Len(headerBuffer) :
                           headerBuffer[i] = stream[start[Len(received)] + i]
  /\ phase \in {"body", "post"} =>
       /\ Len(received) < Len(sent) /\ bodySize = Len(sent[Len(received) + 1].body)
       /\ Len(stream) - Len(wire) = start[Len(received)] + HeadTotalLen + Len(bodyBuffer)
       /\ \A i \in 1..Len(bodyBuffer) :
            bodyBuffer[i] = stream[start[Len(received)] + HeadTotalLen + i]
  /\ phase = "body" => Len(bodyBuffer) < bodySize
  /\ phase = "post" => Len(bodyBuffer) = bodySize

\* What the property rests on.
FrameInv ==
  /\ FrameTypes
  /\ AllFit => \E stream, start : StreamOK(stream, start) /\ ReaderOK(stream, start)

\* The types that the steps below need, once for all.
LEMMA FrameLengths ==
  ASSUME FrameTypes
  PROVE  /\ Len(sent) \in Nat /\ Len(wire) \in Nat /\ Len(headerBuffer) \in Nat
         /\ Len(bodyBuffer) \in Nat /\ Len(received) \in Nat /\ bodySize \in Nat
         /\ HeadTotalLen \in Nat /\ HeadTotalLen >= 1
         /\ \A i \in 1..Len(sent) : sent[i] \in Messages
         /\ wire \in Seq(Byte) /\ headerBuffer \in Seq(Byte) /\ bodyBuffer \in Seq(Byte)
         /\ phase \in {"header", "allocate", "body", "post", "closed"} /\ open \in BOOLEAN
<1>1. /\ sent \in Seq(Messages) /\ wire \in Seq(Byte) /\ headerBuffer \in Seq(Byte)
      /\ bodyBuffer \in Seq(Byte) /\ received \in Seq(Requests)
      /\ phase \in {"header", "allocate", "body", "post", "closed"} /\ open \in BOOLEAN
  BY Zenon DEF FrameTypes, FramingTypeOK, Requests
<1>2. bodySize \in Nat
  BY PowerDef, HeaderSizes DEF FrameTypes, FramingTypeOK
<1>3. HeadTotalLen \in Nat /\ HeadTotalLen >= 1
  BY HeaderSizes
<1>4. \A i \in 1..Len(sent) : sent[i] \in Messages
  BY <1>1, ElementOfSeq
<1> QED
  BY <1>1, <1>2, <1>3, <1>4, LenProperties

\* What a prefix of a node is.
LEMMA Prefix ==
  ASSUME NEW node \in Seq(Byte), NEW k \in 0..Len(node)
  PROVE  /\ SubSeq(node, 1, k) \in Seq(Byte) /\ Len(SubSeq(node, 1, k)) = k
         /\ \A i \in 1..k : SubSeq(node, 1, k)[i] = node[i]
<1>1. Len(node) \in Nat /\ k \in Nat
  BY LenProperties
<1>2. \A i \in 1..k : node[i] \in Byte
  BY <1>1, ElementOfSeq
<1>3. PICK p : p = SubSeq(node, 1, k)
  OBVIOUS
<1>4. /\ p \in Seq(Byte) /\ Len(p) = (IF 1 <= k THEN k - 1 + 1 ELSE 0)
      /\ \A i \in 1..(k - 1 + 1) : p[i] = node[1 + i - 1]
  BY <1>1, <1>2, <1>3, SubSeqProperties
<1>5. Len(p) = k
  BY <1>1, <1>4
<1>6. ASSUME NEW i \in 1..k PROVE p[i] = node[i]
  <2>1. i \in 1..(k - 1 + 1) /\ 1 + i - 1 = i
    BY <1>1
  <2> QED
    BY <1>4, <2>1
<1> QED
  BY <1>3, <1>4, <1>5, <1>6

\* Both outcomes of a write of a message with a body: a prefix of its node goes on
\* the wire, the whole of it unless the writer fails.
LEMMA WritePrefix ==
  ASSUME FrameTypes, NEW m \in Messages, Write(m) \/ WriteFails(m), m.body # <<>>
  PROVE  /\ open /\ sent' = Append(sent, m)
         /\ UNCHANGED <<phase, headerBuffer, bodySize, bodyBuffer, received>>
         /\ \E k \in 0..Len(SendNode(m)) : /\ wire' = wire \o SubSeq(SendNode(m), 1, k)
                                           /\ open' <=> k = Len(SendNode(m))
<1>1. PICK node \in Seq(Byte), l \in Nat : node = SendNode(m) /\ l = Len(node)
  BY NodeType, LenProperties
<1>2. CASE Write(m)
  <2>1. SubSeq(node, 1, l) = node
    <3>1. PICK p : p = SubSeq(node, 1, l)
      OBVIOUS
    <3>2. p \in Seq(Byte) /\ Len(p) = l /\ \A i \in 1..l : p[i] = node[i]
      BY <1>1, <3>1, Prefix
    <3>3. p = node
      BY <1>1, <3>2, SeqEqual
    <3> QED
      BY <3>1, <3>3
  <2>2. l \in 0..l
    BY <1>1
  <2>3. open /\ open' = open /\ wire' = wire \o node /\ sent' = Append(sent, m)
    BY <1>1, <1>2 DEF Write
  <2>4. UNCHANGED <<phase, headerBuffer, bodySize, bodyBuffer, received>>
    BY <1>2 DEF Write
  <2> QED
    BY <1>1, <2>1, <2>2, <2>3, <2>4
<1>3. CASE WriteFails(m)
  <2>1. PICK k \in 0..(l - 1) : wire' = wire \o SubSeq(node, 1, k)
    BY <1>1, <1>3 DEF WriteFails
  <2>2. k \in 0..l /\ k # l
    BY <1>1
  <2>3. open /\ ~open' /\ sent' = Append(sent, m)
    BY <1>3 DEF WriteFails
  <2>4. UNCHANGED <<phase, headerBuffer, bodySize, bodyBuffer, received>>
    BY <1>3 DEF WriteFails
  <2> QED
    BY <1>1, <2>1, <2>2, <2>3, <2>4
<1> QED
  BY <1>2, <1>3

\* A write extends the stream and leaves what the reader has alone.
LEMMA StreamGrows ==
  ASSUME FrameTypes, NEW stream, NEW start, StreamOK(stream, start), ReaderOK(stream, start),
         NEW m \in Messages, Write(m) \/ WriteFails(m), m.body # <<>>
  PROVE  \E s, t : StreamOK(s, t)' /\ ReaderOK(s, t)'
<1>1. PICK node \in Seq(Byte), l \in Nat \ {0} : node = SendNode(m) /\ l = Len(node)
  <2>1. SendNode(m) \in Seq(Byte) /\ Len(SendNode(m)) \in Nat \ {0}
    <3>1. /\ SendNode(m) \in Seq(Byte) /\ Len(m.body) \in Nat \ {0}
          /\ Len(SendNode(m)) = HeadTotalLen + Len(m.body)
      BY NodeBytes
    <3>2. PICK b \in Nat \ {0} : b = Len(m.body)
      BY <3>1
    <3>3. HeadTotalLen + b \in Nat \ {0}
      BY HeaderSizes
    <3> QED
      BY <3>1, <3>2, <3>3
  <2> QED
    BY <2>1
<1>2. PICK k \in 0..l : wire' = wire \o SubSeq(node, 1, k) /\ (open' <=> k = l)
  BY <1>1, WritePrefix
<1>3. PICK p \in Seq(Byte) : /\ p = SubSeq(node, 1, k) /\ Len(p) = k
                             /\ \A i \in 1..k : p[i] = node[i]
  BY <1>1, Prefix
<1>4. open /\ sent' = Append(sent, m) /\ UNCHANGED <<phase, headerBuffer, bodySize, bodyBuffer, received>>
  BY WritePrefix
<1>5. PICK n \in Nat : n = Len(sent)
  BY FrameLengths
<1>6. Len(sent') = n + 1 /\ sent'[n + 1] = m /\ \A i \in 1..n : sent'[i] = sent[i]
  BY <1>4, <1>5, AppendProperties DEF FrameTypes, FramingTypeOK
<1>7. PICK x \in Nat : x = Len(stream) /\ stream \in Seq(Byte)
  BY LenProperties DEF StreamOK
<1>8. x = start[n] /\ start \in [0..n -> Nat]
  BY <1>4, <1>5, <1>7 DEF StreamOK
<1>9. PICK s : s = stream \o p
  OBVIOUS
<1>10. /\ s \in Seq(Byte) /\ Len(s) = x + k
       /\ \A i \in 1..(x + k) : s[i] = IF i <= x THEN stream[i] ELSE p[i - x]
  BY <1>3, <1>7, <1>9, ConcatProperties
<1>11. PICK t : t = [i \in 0..(n + 1) |-> IF i <= n THEN start[i] ELSE x + l]
  OBVIOUS
<1>12. /\ t \in [0..(n + 1) -> Nat] /\ t[n + 1] = x + l /\ t[n] = x
       /\ \A i \in 0..n : t[i] = start[i]
  BY <1>8, <1>11
<1>13. StreamOK(s, t)'
  <2>1. t[0] = 0
    BY <1>5, <1>12 DEF StreamOK
  <2>2. ASSUME NEW i \in 1..(n + 1)
        PROVE  /\ sent'[i].body # <<>>
               /\ t[i] = t[i - 1] + Len(SendNode(sent'[i]))
               /\ \A j \in 1..Len(SendNode(sent'[i])) :
                    t[i - 1] + j <= Len(s) => s[t[i - 1] + j] = SendNode(sent'[i])[j]
    <3>1. CASE i = n + 1
      <4>1. sent'[i] = m /\ SendNode(sent'[i]) = node /\ t[i - 1] = x /\ t[i] = x + l
        BY <1>1, <1>6, <1>12, <3>1
      <4>2. ASSUME NEW j \in 1..l, x + j <= x + k PROVE s[x + j] = node[j]
        <5>1. j \in 1..k /\ x + j \in 1..(x + k) /\ ~(x + j <= x) /\ (x + j) - x = j
          BY <4>2
        <5> QED
          BY <1>3, <1>10, <5>1
      <4> QED
        BY <1>1, <1>10, <4>1, <4>2
    <3>2. CASE i # n + 1
      <4>1. i \in 1..n /\ i \in 0..n /\ i - 1 \in 0..n
        BY <3>2
      <4>2. sent'[i] = sent[i] /\ t[i] = start[i] /\ t[i - 1] = start[i - 1]
        BY <1>6, <1>12, <4>1
      <4>3. PICK other : other = SendNode(sent[i])
        OBVIOUS
      <4>4. PICK a \in Nat, b \in Nat : a = start[i - 1] /\ b = start[i]
        BY <1>8, <4>1
      <4>5. /\ sent[i].body # <<>> /\ b = a + Len(other)
            /\ \A j \in 1..Len(other) : a + j <= x => stream[a + j] = other[j]
        BY <1>5, <1>7, <4>1, <4>4, <4>3 DEF StreamOK
      <4>6. Len(other) \in Nat /\ b <= x
        <5>1. other \in Seq(Byte)
          BY <1>5, <4>1, <4>3, FrameLengths, NodeType
        <5>2. n \in 0..n
          OBVIOUS
        <5>3. start[i] <= start[n]
          BY <1>5, <4>1, <5>2 DEF StreamOK
        <5> QED
          BY <1>8, <4>4, <5>1, <5>3, LenProperties
      <4>7. ASSUME NEW j \in 1..Len(other) PROVE s[a + j] = other[j]
        <5>1. a + j <= x /\ a + j \in 1..(x + k)
          BY <4>5, <4>6
        <5> QED
          BY <1>10, <4>5, <5>1
      <4> QED
        BY <4>2, <4>4, <4>3, <4>5, <4>7
    <3> QED
      BY <3>1, <3>2
  <2>3. ASSUME NEW i \in 0..(n + 1), NEW j \in 0..(n + 1), i <= j PROVE t[i] <= t[j]
    <3>1. ASSUME i \in 0..n, j \in 0..n PROVE t[i] <= t[j]
      <4>1. start[i] <= start[j]
        BY <1>5, <2>3, <3>1 DEF StreamOK
      <4> QED
        BY <1>12, <3>1, <4>1
    <3>2. ASSUME i \in 0..n, j = n + 1 PROVE t[i] <= t[j]
      <4>1. n \in 0..n /\ i <= n
        BY <3>2
      <4>2. start[i] <= start[n]
        BY <1>5, <3>2, <4>1 DEF StreamOK
      <4>3. t[i] = start[i] /\ start[i] \in Nat
        BY <1>8, <1>12, <3>2
      <4> QED
        BY <1>8, <1>12, <3>2, <4>2, <4>3
    <3>3. ASSUME i = n + 1, j = n + 1 PROVE t[i] <= t[j]
      BY <1>12, <3>3
    <3> QED
      BY <2>3, <3>1, <3>2, <3>3
  <2>4. open' => Len(s) = t[n + 1]
    BY <1>2, <1>10, <1>12
  <2>5. ~open' => /\ n + 1 >= 1 /\ t[(n + 1) - 1] <= Len(s) /\ Len(s) < t[n + 1]
    <3>1. (n + 1) - 1 = n
      OBVIOUS
    <3> QED
      BY <1>2, <1>10, <1>12, <3>1
  <2> QED
    BY <1>6, <1>10, <1>12, <2>1, <2>2, <2>3, <2>4, <2>5 DEF StreamOK
<1>14. ReaderOK(s, t)'
  <2>1. PICK r \in Nat, w \in Nat : r = Len(received) /\ w = Len(wire) /\ r <= n /\ w <= x
    BY <1>5, <1>7, FrameLengths DEF ReaderOK
  <2>2. /\ Len(wire') = w + k
        /\ \A i \in 1..(w + k) : wire'[i] = IF i <= w THEN wire[i] ELSE p[i - w]
    <3>1. wire \in Seq(Byte) /\ wire' = wire \o p
      BY <1>2, <1>3, FrameLengths
    <3>2. /\ Len(wire \o p) = Len(wire) + Len(p)
          /\ \A i \in 1..(Len(wire) + Len(p)) :
               (wire \o p)[i] = IF i <= Len(wire) THEN wire[i] ELSE p[i - Len(wire)]
      BY <3>1, ConcatProperties
    <3> QED
      BY <1>3, <2>1, <3>1, <3>2
  <2>3. Len(s) - Len(wire') = x - w /\ Len(wire') <= Len(s)
    BY <1>10, <2>1, <2>2
  <2>4. ASSUME NEW i \in 1..(w + k) PROVE wire'[i] = s[(x - w) + i]
    <3>1. (x - w) + i \in 1..(x + k)
      BY <2>1
    <3>2. CASE i <= w
      <4>1. i \in 1..w /\ (x - w) + i <= x
        BY <2>1, <3>2
      <4>2. wire[i] = stream[(x - w) + i]
        BY <1>7, <2>1, <4>1 DEF ReaderOK
      <4> QED
        BY <1>10, <2>2, <3>1, <3>2, <4>1, <4>2
    <3>3. CASE ~(i <= w)
      <4>1. ~((x - w) + i <= x) /\ ((x - w) + i) - x = i - w
        BY <2>1, <3>3
      <4> QED
        BY <1>10, <2>2, <3>1, <3>3, <4>1
    <3> QED
      BY <3>2, <3>3
  <2>5. t[r] = start[r] /\ start[r] \in Nat /\ start[r] <= x
    <3>1. r \in 0..n /\ n \in 0..n
      BY <2>1
    <3>2. start[r] <= start[n]
      BY <1>5, <2>1, <3>1 DEF StreamOK
    <3> QED
      BY <1>8, <1>12, <3>1, <3>2
  <2>6. ASSUME NEW i \in 1..r PROVE received'[i] \in {sent'[i], NoNode}
    <3>1. i \in 1..n
      BY <2>1
    <3> QED
      BY <1>4, <1>6, <2>1, <3>1 DEF ReaderOK
  <2>7. phase # "closed" => \A i \in 1..Len(headerBuffer) : headerBuffer[i] = s[start[r] + i]
    <3> SUFFICES ASSUME phase # "closed", NEW i \in 1..Len(headerBuffer)
                 PROVE  headerBuffer[i] = s[start[r] + i]
      OBVIOUS
    <3>1. headerBuffer[i] = stream[start[r] + i]
      BY <2>1 DEF ReaderOK
    <3>2. start[r] + Len(headerBuffer) <= x - w
      <4>1. CASE phase \in {"header", "allocate"}
        BY <1>7, <2>1, <2>5, <4>1, FrameLengths DEF ReaderOK
      <4>2. CASE phase \in {"body", "post"}
        <5>1. Len(headerBuffer) = HeadTotalLen /\ HeadTotalLen \in Nat /\ Len(bodyBuffer) \in Nat
          BY <4>2, FrameLengths DEF FrameTypes
        <5>2. x - w = start[r] + HeadTotalLen + Len(bodyBuffer)
          BY <1>7, <2>1, <4>2 DEF ReaderOK
        <5>3. PICK a \in Nat, b \in Nat : a = start[r] + HeadTotalLen /\ b = Len(bodyBuffer)
          BY <2>5, <5>1
        <5>4. a <= x - w
          BY <5>2, <5>3
        <5> QED
          BY <5>1, <5>3, <5>4
      <4> QED
        BY <4>1, <4>2, FrameLengths
    <3>3. start[r] + i \in 1..(x + k) /\ start[r] + i <= x
      <4>1. Len(headerBuffer) \in Nat
        BY FrameLengths
      <4>2. PICK a \in Nat : a = start[r]
        BY <2>5
      <4>3. a + i \in Nat /\ a + i >= 1 /\ a + i <= x
        <5>1. PICK h \in Nat : h = Len(headerBuffer) /\ i \in 1..h
          BY <4>1
        <5>2. a + h <= x - w
          BY <3>2, <4>2, <5>1
        <5> QED
          BY <2>1, <5>1, <5>2
      <4> QED
        BY <4>2, <4>3
    <3> QED
      BY <1>10, <3>1, <3>3
  <2>8. phase \in {"body", "post"} =>
          /\ r < n /\ bodySize = Len(sent[r + 1].body)
          /\ x - w = start[r] + HeadTotalLen + Len(bodyBuffer)
          /\ \A i \in 1..Len(bodyBuffer) : bodyBuffer[i] = s[start[r] + HeadTotalLen + i]
    <3> SUFFICES ASSUME phase \in {"body", "post"}
                 PROVE  /\ r < n /\ bodySize = Len(sent[r + 1].body)
                        /\ x - w = start[r] + HeadTotalLen + Len(bodyBuffer)
                        /\ \A i \in 1..Len(bodyBuffer) : bodyBuffer[i] = s[start[r] + HeadTotalLen + i]
      OBVIOUS
    <3>1. /\ r < n /\ bodySize = Len(sent[r + 1].body)
          /\ x - w = start[r] + HeadTotalLen + Len(bodyBuffer)
          /\ \A i \in 1..Len(bodyBuffer) : bodyBuffer[i] = stream[start[r] + HeadTotalLen + i]
      BY <1>5, <1>7, <2>1 DEF ReaderOK
    <3>2. ASSUME NEW i \in 1..Len(bodyBuffer) PROVE bodyBuffer[i] = s[start[r] + HeadTotalLen + i]
      <4>1. start[r] + HeadTotalLen + i \in 1..(x + k) /\ start[r] + HeadTotalLen + i <= x
        <5>1. Len(bodyBuffer) \in Nat /\ HeadTotalLen \in Nat
          BY FrameLengths
        <5>2. PICK a \in Nat : a = start[r] + HeadTotalLen
          BY <2>5, <5>1
        <5>3. PICK b \in Nat : b = Len(bodyBuffer)
          BY <5>1
        <5>4. x - w = a + b /\ i \in 1..b
          BY <3>1, <5>2, <5>3
        <5>5. a + i \in Nat /\ a + i >= 1 /\ a + i <= x
          BY <2>1, <5>4
        <5> QED
          BY <5>2, <5>5
      <4> QED
        BY <1>10, <3>1, <4>1
    <3> QED
      BY <3>1, <3>2
  <2>9. phase \in {"header", "allocate"} => x - w = start[r] + Len(headerBuffer)
    BY <1>7, <2>1 DEF ReaderOK
  <2>10. phase \in {"body", "post"} => /\ r < n + 1 /\ bodySize = Len(sent'[r + 1].body)
    <3>1. ASSUME phase \in {"body", "post"} PROVE r + 1 \in 1..n
      BY <2>1, <2>8, <3>1
    <3> QED
      BY <1>6, <2>1, <2>8, <3>1
  <2>11. /\ phase = "header" => Len(headerBuffer) < HeadTotalLen
         /\ phase = "body" => Len(bodyBuffer) < bodySize
         /\ phase = "post" => Len(bodyBuffer) = bodySize
    BY DEF ReaderOK
  <2>12. /\ received' = received /\ phase' = phase /\ headerBuffer' = headerBuffer
         /\ bodySize' = bodySize /\ bodyBuffer' = bodyBuffer
    BY <1>4
  <2>13. Len(received) <= n + 1
    BY <2>1
  <2>14. Len(wire') <= Len(s) /\ \A i \in 1..Len(wire') : wire'[i] = s[Len(s) - Len(wire') + i]
    BY <2>2, <2>3, <2>4
  <2> QED
    BY <1>6, <2>1, <2>3, <2>5, <2>6, <2>7, <2>8, <2>9, <2>10, <2>11, <2>12, <2>13, <2>14
    DEF ReaderOK
<1> QED
  BY <1>13, <1>14

\* Where the reader is in the stream, in numbers.
LEMMA ReaderAt ==
  ASSUME FrameTypes, NEW stream, NEW start, StreamOK(stream, start), ReaderOK(stream, start)
  PROVE  /\ Len(stream) \in Nat /\ start[Len(received)] \in Nat
         /\ Len(received) \in 0..Len(sent)
<1>1. PICK r \in Nat, n \in Nat : r = Len(received) /\ n = Len(sent) /\ r <= n
  BY FrameLengths DEF ReaderOK
<1>2. start \in [0..n -> Nat] /\ stream \in Seq(Byte)
  BY <1>1 DEF StreamOK
<1>3. r \in 0..n
  BY <1>1
<1> QED
  BY <1>1, <1>2, <1>3, LenProperties

\* What the reader leaves alone.
LEMMA StreamStays ==
  ASSUME NEW stream, NEW start, StreamOK(stream, start), UNCHANGED <<sent, open>>
  PROVE  StreamOK(stream, start)'
BY DEF StreamOK

\* A buffer holds the bytes of the stream after the first a.
Matches(buffer, stream, a) == \A i \in 1..Len(buffer) : buffer[i] = stream[a + i]

\* A piece is taken from the wire: the rest is still the end of the stream.
LEMMA WireShrinks ==
  ASSUME FrameTypes, NEW stream, NEW start, StreamOK(stream, start), ReaderOK(stream, start),
         NEW buffer \in Seq(Byte), NEW n, NEW room \in Int, Arrives(n, room),
         NEW a \in Nat, Len(stream) - Len(wire) = a + Len(buffer),
         Matches(buffer, stream, a)
  PROVE  /\ n \in Nat /\ n >= 1 /\ n <= room
         /\ Len(wire') <= Len(stream) /\ Len(stream) - Len(wire') = a + (Len(buffer) + n)
         /\ \A i \in 1..Len(wire') : wire'[i] = stream[Len(stream) - Len(wire') + i]
         /\ Len(buffer \o Piece(n)) = Len(buffer) + n
         /\ Matches(buffer \o Piece(n), stream, a)
<1>1. PICK x \in Nat, w \in Nat, b \in Nat : x = Len(stream) /\ w = Len(wire) /\ b = Len(buffer)
  BY ReaderAt, FrameLengths, LenProperties
<1>2. w <= x /\ \A i \in 1..w : wire[i] = stream[(x - w) + i]
  BY <1>1 DEF ReaderOK
<1>3. PICK full : full = buffer \o Piece(n)
  OBVIOUS
<1>4. wire \in Seq(Byte)
  BY FrameLengths
<1>5. /\ n \in Nat /\ n >= 1 /\ n <= room /\ n <= w
      /\ Len(wire') = w - n
      /\ \A i \in 1..(w - n) : wire'[i] = wire[n + i]
      /\ Len(full) = b + n
      /\ \A i \in 1..(b + n) : full[i] = IF i <= b THEN buffer[i] ELSE wire[i - b]
  <2>1. /\ n \in Nat /\ n >= 1 /\ n <= room /\ n <= Len(wire)
        /\ wire' \in Seq(Byte) /\ Len(wire') = Len(wire) - n
        /\ \A i \in 1..(Len(wire) - n) : wire'[i] = wire[n + i]
        /\ buffer \o Piece(n) \in Seq(Byte)
        /\ Len(buffer \o Piece(n)) = Len(buffer) + n
        /\ \A i \in 1..(Len(buffer) + n) :
             (buffer \o Piece(n))[i] = IF i <= Len(buffer) THEN buffer[i] ELSE wire[i - Len(buffer)]
    BY <1>4, PieceArrives, Zenon
  <2> QED
    BY <1>1, <1>3, <2>1, Zenon
<1>6. PICK z \in Nat : z = n /\ z >= 1 /\ z <= w
  BY <1>5
<1>7. x - w = a + b
  BY <1>1
<1>8. ASSUME NEW i \in 1..(w - z) PROVE wire'[i] = stream[x - (w - z) + i]
  <2>1. z + i \in 1..w /\ (x - w) + (z + i) = x - (w - z) + i
    BY <1>6
  <2> QED
    BY <1>2, <1>5, <1>6, <2>1
<1>9. ASSUME NEW i \in 1..(b + z) PROVE full[i] = stream[a + i]
  <2>1. CASE i <= b
    <3>1. i \in 1..b
      BY <2>1
    <3> QED
      BY <1>1, <1>5, <1>6, <2>1, <3>1 DEF Matches
  <2>2. CASE ~(i <= b)
    <3>1. PICK j \in Int : j = i - b
      OBVIOUS
    <3>2. j \in 1..w
      BY <1>6, <2>2, <3>1
    <3>3. (x - w) + j = a + i
      BY <1>7, <3>1
    <3> QED
      BY <1>2, <1>5, <1>6, <2>2, <3>1, <3>2, <3>3
  <2> QED
    BY <2>1, <2>2
<1>10. w - z <= x /\ x - (w - z) = a + (b + z)
  BY <1>2, <1>6, <1>7
<1> QED
  BY <1>1, <1>3, <1>5, <1>6, <1>8, <1>9, <1>10 DEF Matches

\* More of a header.
LEMMA HeaderArrives ==
  ASSUME FrameTypes, NEW stream, NEW start, StreamOK(stream, start), ReaderOK(stream, start),
         NEW n, ReadHeader(n)
  PROVE  ReaderOK(stream, start)'
<1>1. PICK a \in Nat, h \in Nat : a = start[Len(received)] /\ h = Len(headerBuffer)
  BY ReaderAt, FrameLengths
<1>2. /\ phase = "header" /\ Len(stream) - Len(wire) = a + h
      /\ \A i \in 1..h : headerBuffer[i] = stream[a + i]
  BY <1>1 DEF ReadHeader, ReaderOK
<1>3. PICK room \in Int : room = HeadTotalLen - h
  <2>1. HeadTotalLen - h \in Int
    BY FrameLengths
  <2> QED
    BY <2>1
<1>4. Arrives(n, room) /\ headerBuffer' = headerBuffer \o Piece(n)
  BY <1>1, <1>3 DEF ReadHeader
<1>5. /\ n \in Nat /\ n >= 1 /\ n <= room
      /\ Len(wire') <= Len(stream) /\ Len(stream) - Len(wire') = a + (h + n)
      /\ \A i \in 1..Len(wire') : wire'[i] = stream[Len(stream) - Len(wire') + i]
      /\ Len(headerBuffer') = h + n
      /\ \A i \in 1..(h + n) : headerBuffer'[i] = stream[a + i]
  <2>1. /\ headerBuffer \in Seq(Byte) /\ Len(stream) - Len(wire) = a + Len(headerBuffer)
        /\ Matches(headerBuffer, stream, a)
    BY <1>1, <1>2, FrameLengths DEF Matches
  <2>2. /\ n \in Nat /\ n >= 1 /\ n <= room
        /\ Len(wire') <= Len(stream) /\ Len(stream) - Len(wire') = a + (Len(headerBuffer) + n)
        /\ \A i \in 1..Len(wire') : wire'[i] = stream[Len(stream) - Len(wire') + i]
        /\ Len(headerBuffer \o Piece(n)) = Len(headerBuffer) + n
        /\ Matches(headerBuffer \o Piece(n), stream, a)
    BY <1>4, <2>1, WireShrinks
  <2> QED
    BY <1>1, <1>4, <2>2 DEF Matches
<1>6. phase' \in {"header", "allocate"} /\ (phase' = "header" => Len(headerBuffer') < HeadTotalLen)
  <2>1. PICK z \in Nat : z = n /\ z <= room
    BY <1>5
  <2>2. h + z <= HeadTotalLen
    BY <1>3, <2>1, FrameLengths
  <2>3. phase' = IF h + z = HeadTotalLen THEN "allocate" ELSE "header"
    BY <1>5, <2>1 DEF ReadHeader
  <2>4. Len(headerBuffer') = h + z /\ HeadTotalLen \in Nat
    BY <1>5, <2>1, FrameLengths
  <2>5. CASE h + z = HeadTotalLen
    BY <2>3, <2>5
  <2>6. CASE h + z # HeadTotalLen
    BY <2>2, <2>3, <2>4, <2>6
  <2> QED
    BY <2>5, <2>6
<1>7. UNCHANGED <<sent, open, bodySize, bodyBuffer, received>>
  BY DEF ReadHeader, writerVars
<1>8. /\ Len(received) <= Len(sent)
      /\ \A i \in 1..Len(received) : received[i] \in {sent[i], NoNode}
  BY DEF ReaderOK
<1> QED
  BY <1>1, <1>5, <1>6, <1>7, <1>8 DEF ReaderOK

\* More of a body.
LEMMA BodyArrives ==
  ASSUME FrameTypes, NEW stream, NEW start, StreamOK(stream, start), ReaderOK(stream, start),
         NEW n, ReadBody(n)
  PROVE  ReaderOK(stream, start)'
<1>1. PICK a \in Nat, c \in Nat, b \in Nat :
        a = start[Len(received)] /\ c = a + HeadTotalLen /\ b = Len(bodyBuffer)
  <2>1. /\ start[Len(received)] \in Nat /\ Len(bodyBuffer) \in Nat /\ HeadTotalLen \in Nat
    BY ReaderAt, FrameLengths
  <2>2. start[Len(received)] + HeadTotalLen \in Nat
    BY <2>1
  <2> QED
    BY <2>1, <2>2
<1>2. /\ phase = "body" /\ Len(stream) - Len(wire) = c + b
      /\ \A i \in 1..b : bodyBuffer[i] = stream[c + i]
  BY <1>1 DEF ReadBody, ReaderOK
<1>3. PICK room \in Int : room = bodySize - b
  <2>1. bodySize - b \in Int
    BY FrameLengths
  <2> QED
    BY <2>1
<1>4. Arrives(n, room) /\ bodyBuffer' = bodyBuffer \o Piece(n)
  BY <1>1, <1>3 DEF ReadBody
<1>5. /\ n \in Nat /\ n >= 1 /\ n <= room
      /\ Len(wire') <= Len(stream) /\ Len(stream) - Len(wire') = c + (b + n)
      /\ \A i \in 1..Len(wire') : wire'[i] = stream[Len(stream) - Len(wire') + i]
      /\ Len(bodyBuffer') = b + n
      /\ \A i \in 1..(b + n) : bodyBuffer'[i] = stream[c + i]
  <2>1. /\ bodyBuffer \in Seq(Byte) /\ Len(stream) - Len(wire) = c + Len(bodyBuffer)
        /\ Matches(bodyBuffer, stream, c)
    BY <1>1, <1>2, FrameLengths DEF Matches
  <2>2. /\ n \in Nat /\ n >= 1 /\ n <= room
        /\ Len(wire') <= Len(stream) /\ Len(stream) - Len(wire') = c + (Len(bodyBuffer) + n)
        /\ \A i \in 1..Len(wire') : wire'[i] = stream[Len(stream) - Len(wire') + i]
        /\ Len(bodyBuffer \o Piece(n)) = Len(bodyBuffer) + n
        /\ Matches(bodyBuffer \o Piece(n), stream, c)
    BY <1>4, <2>1, WireShrinks
  <2> QED
    BY <1>1, <1>4, <2>2 DEF Matches
<1>6. /\ phase' \in {"body", "post"} /\ (phase' = "body" => Len(bodyBuffer') < bodySize)
      /\ phase' = "post" => Len(bodyBuffer') = bodySize
  <2>1. PICK z \in Nat : z = n /\ z <= room
    BY <1>5
  <2>2. b + z <= bodySize
    BY <1>3, <2>1, FrameLengths
  <2>3. phase' = IF b + z = bodySize THEN "post" ELSE "body"
    BY <1>5, <2>1 DEF ReadBody
  <2>4. Len(bodyBuffer') = b + z /\ bodySize \in Nat
    BY <1>5, <2>1, FrameLengths
  <2>5. CASE b + z = bodySize
    BY <2>3, <2>4, <2>5
  <2>6. CASE b + z # bodySize
    BY <2>2, <2>3, <2>4, <2>6
  <2> QED
    BY <2>5, <2>6
<1>7. UNCHANGED <<sent, open, headerBuffer, bodySize, received>>
  BY DEF ReadBody, writerVars
<1>8. /\ Len(received) <= Len(sent)
      /\ \A i \in 1..Len(received) : received[i] \in {sent[i], NoNode}
      /\ \A i \in 1..Len(headerBuffer) : headerBuffer[i] = stream[a + i]
      /\ Len(received) < Len(sent) /\ bodySize = Len(sent[Len(received) + 1].body)
  BY <1>1, <1>2 DEF ReaderOK
<1> QED
  BY <1>1, <1>5, <1>6, <1>7, <1>8 DEF ReaderOK

\* When a header is whole, it is that of the next message of the stream.
LEMMA HeaderWhole ==
  ASSUME FrameTypes, AllFit, NEW stream, NEW start, StreamOK(stream, start),
         ReaderOK(stream, start), phase \in {"allocate", "body", "post"}
  PROVE  /\ Len(received) < Len(sent) /\ sent[Len(received) + 1] \in Messages
         /\ sent[Len(received) + 1].body # <<>>
         /\ HeaderLength(headerBuffer) = Len(sent[Len(received) + 1].body)
         /\ HeaderId(headerBuffer) = sent[Len(received) + 1].id
<1>1. PICK x \in Nat, w \in Nat, a \in Nat, r \in Nat, k \in Nat, h \in Nat :
        /\ x = Len(stream) /\ w = Len(wire) /\ a = start[Len(received)]
        /\ r = Len(received) /\ k = Len(sent) /\ h = HeadTotalLen /\ h >= 1 /\ r <= k
  <2>1. Len(received) <= Len(sent)
    BY DEF ReaderOK
  <2> QED
    BY <2>1, ReaderAt, FrameLengths
<1>2. Len(headerBuffer) = h /\ headerBuffer \in Seq(Byte)
  BY <1>1, FrameLengths DEF FrameTypes
<1>3. a + h <= x /\ \A i \in 1..h : headerBuffer[i] = stream[a + i]
  <2>1. w <= x /\ \A i \in 1..h : headerBuffer[i] = stream[a + i]
    BY <1>1, <1>2 DEF ReaderOK
  <2>2. CASE phase = "allocate"
    <3>1. x - w = a + h
      BY <1>1, <1>2, <2>2 DEF ReaderOK
    <3> QED
      BY <2>1, <3>1
  <2>3. CASE phase \in {"body", "post"}
    <3>1. x - w = a + h + Len(bodyBuffer) /\ Len(bodyBuffer) \in Nat
      BY <1>1, <2>3, FrameLengths DEF ReaderOK
    <3> QED
      BY <2>1, <3>1
  <2> QED
    BY <2>1, <2>2, <2>3
<1>4. r < k
  <2> SUFFICES ASSUME r = k PROVE FALSE
    BY <1>1
  <2>1. (open => x = a) /\ (~open => x < a)
    BY <1>1 DEF StreamOK
  <2> QED
    BY <1>1, <1>3, <2>1
<1>5. PICK m \in Messages : m = sent[r + 1]
  <2>1. r + 1 \in 1..k
    BY <1>4
  <2> QED
    BY <1>1, <2>1, FrameLengths
<1>6. /\ m.body # <<>>
      /\ \A j \in 1..Len(SendNode(m)) : a + j <= x => stream[a + j] = SendNode(m)[j]
  <2>1. r + 1 \in 1..k /\ (r + 1) - 1 = r
    BY <1>4
  <2>2. /\ sent[r + 1].body # <<>>
        /\ \A j \in 1..Len(SendNode(sent[r + 1])) :
             start[(r + 1) - 1] + j <= x =>
               stream[start[(r + 1) - 1] + j] = SendNode(sent[r + 1])[j]
    BY <1>1, <2>1 DEF StreamOK
  <2> QED
    BY <1>1, <1>5, <2>1, <2>2
<1>7. ASSUME NEW j \in 1..h PROVE headerBuffer[j] = SendNode(m)[j]
  <2>1. Len(SendNode(m)) = h + Len(m.body) /\ Len(m.body) \in Nat
    BY <1>1, <1>6, NodeBytes
  <2>2. j \in 1..Len(SendNode(m)) /\ a + j <= x
    BY <1>3, <2>1
  <2> QED
    BY <1>3, <1>6, <2>2
<1>8. Len(m.body) < Power[HalfLen]
  <2>1. r + 1 \in 1..k
    BY <1>4
  <2> QED
    BY <1>1, <1>5, <2>1 DEF AllFit
<1>9. HeaderLength(headerBuffer) = Len(m.body) /\ HeaderId(headerBuffer) = m.id
  BY <1>1, <1>2, <1>6, <1>7, <1>8, HeaderDecodes
<1> QED
  BY <1>1, <1>4, <1>5, <1>6, <1>9

\* The buffer of a body is that of the message.
LEMMA BodyStarts ==
  ASSUME FrameTypes, AllFit, NEW stream, NEW start, StreamOK(stream, start),
         ReaderOK(stream, start), AllocateBody
  PROVE  ReaderOK(stream, start)'
<1>1. PICK x \in Nat, w \in Nat, a \in Nat, h \in Nat :
        /\ x = Len(stream) /\ w = Len(wire) /\ a = start[Len(received)] /\ h = HeadTotalLen
  BY ReaderAt, FrameLengths
<1>2. phase = "allocate"
  BY DEF AllocateBody
<1>3. Len(headerBuffer) = h
  BY <1>1, <1>2 DEF FrameTypes
<1>4. x - w = a + h
  BY <1>1, <1>2, <1>3 DEF ReaderOK
<1>5. PICK b \in Nat \ {0} : b = Len(sent[Len(received) + 1].body) /\ bodySize' = b
  <2>1. sent[Len(received) + 1] \in Messages /\ sent[Len(received) + 1].body # <<>>
        /\ HeaderLength(headerBuffer) = Len(sent[Len(received) + 1].body)
    BY <1>2, HeaderWhole
  <2>2. Len(sent[Len(received) + 1].body) \in Nat \ {0}
    BY <2>1, NodeBytes
  <2>3. bodySize' = HeaderLength(headerBuffer)
    BY DEF AllocateBody
  <2> QED
    BY <2>1, <2>2, <2>3
<1>6. Len(received) < Len(sent)
  BY <1>2, HeaderWhole
<1>7. phase' = "body"
  BY <1>5 DEF AllocateBody
<1>8. bodyBuffer' = <<>> /\ UNCHANGED <<sent, open, wire, headerBuffer, received>>
  BY DEF AllocateBody, writerVars
<1>9. Len(bodyBuffer') = 0
  BY <1>8, EmptySeq
<1>10. x - w = a + h + Len(bodyBuffer')
  BY <1>4, <1>9
<1>11. Len(bodyBuffer') < bodySize' /\ \A i \in 1..Len(bodyBuffer') : FALSE
  BY <1>5, <1>9
<1>12. /\ Len(received) <= Len(sent)
       /\ \A i \in 1..Len(received) : received[i] \in {sent[i], NoNode}
       /\ Len(wire) <= Len(stream)
       /\ \A i \in 1..Len(wire) : wire[i] = stream[Len(stream) - Len(wire) + i]
       /\ \A i \in 1..Len(headerBuffer) : headerBuffer[i] = stream[start[Len(received)] + i]
  BY <1>2 DEF ReaderOK
<1> QED
  BY <1>1, <1>5, <1>6, <1>7, <1>8, <1>10, <1>11, <1>12 DEF ReaderOK

\* A request that is whole is the next message, or the memory for it was short.
LEMMA NodePosts ==
  ASSUME FrameTypes, AllFit, NEW stream, NEW start, StreamOK(stream, start),
         ReaderOK(stream, start), PostNode
  PROVE  ReaderOK(stream, start)'
<1>1. PICK x \in Nat, w \in Nat, a \in Nat, r \in Nat, h \in Nat, b \in Nat, k \in Nat :
        /\ x = Len(stream) /\ w = Len(wire) /\ a = start[Len(received)] /\ r = Len(received)
        /\ h = HeadTotalLen /\ b = Len(bodyBuffer) /\ k = Len(sent)
  BY ReaderAt, FrameLengths
<1>2. phase = "post" /\ headerBuffer \in Seq(Byte) /\ bodyBuffer \in Seq(Byte)
  BY FrameLengths DEF PostNode
<1>3. PICK m \in Messages : /\ r < k /\ m = sent[r + 1] /\ m.body # <<>>
                            /\ HeaderId(headerBuffer) = m.id
  BY <1>1, <1>2, HeaderWhole
<1>4. /\ b = Len(m.body) /\ x - w = a + h + b
      /\ \A i \in 1..b : bodyBuffer[i] = stream[a + h + i]
      /\ w <= x /\ \A i \in 1..w : wire[i] = stream[x - w + i]
      /\ \A i \in 1..r : received[i] \in {sent[i], NoNode}
  BY <1>1, <1>2, <1>3 DEF ReaderOK
<1>5. PICK node \in Seq(Byte) :
        /\ node = SendNode(m) /\ Len(node) = h + b /\ \A i \in 1..b : node[h + i] = m.body[i]
  <2>1. /\ SendNode(m) \in Seq(Byte) /\ Len(SendNode(m)) = HeadTotalLen + Len(m.body)
        /\ \A i \in 1..Len(m.body) : SendNode(m)[HeadTotalLen + i] = m.body[i]
    BY <1>3, NodeBytes
  <2> QED
    BY <1>1, <1>4, <2>1
<1>6. /\ start[r + 1] = a + (h + b)
      /\ \A j \in 1..(h + b) : a + j <= x => stream[a + j] = node[j]
  <2>1. r + 1 \in 1..k /\ (r + 1) - 1 = r
    BY <1>3
  <2>2. /\ start[r + 1] = start[(r + 1) - 1] + Len(SendNode(sent[r + 1]))
        /\ \A j \in 1..Len(SendNode(sent[r + 1])) :
             start[(r + 1) - 1] + j <= x =>
               stream[start[(r + 1) - 1] + j] = SendNode(sent[r + 1])[j]
    BY <1>1, <2>1 DEF StreamOK
  <2> QED
    BY <1>1, <1>3, <1>5, <2>1, <2>2
<1>7. bodyBuffer = m.body
  <2>1. m.body \in Seq(Byte)
    BY FramingAssumption, Zenon DEF Messages
  <2>2. ASSUME NEW i \in 1..b PROVE bodyBuffer[i] = m.body[i]
    <3>1. PICK j \in Nat : j = h + i /\ j \in 1..(h + b) /\ a + j = a + h + i /\ a + j <= x
      <4>1. a + h + b <= x
        <5>1. x - w = a + h + b
          BY <1>4
        <5> QED
          BY <5>1
      <4>2. h + i \in 1..(h + b) /\ a + (h + i) = a + h + i /\ a + (h + i) <= x /\ h + i \in Nat
        BY <4>1
      <4> QED
        BY <4>2
    <3>2. bodyBuffer[i] = stream[a + j] /\ stream[a + j] = node[j]
      BY <1>4, <1>6, <3>1
    <3> QED
      BY <1>5, <3>1, <3>2
  <2> QED
    <3>1. PICK body \in Seq(Byte) : body = m.body
      BY <2>1
    <3>2. Len(bodyBuffer) = Len(body) /\ \A i \in 1..Len(body) : bodyBuffer[i] = body[i]
      BY <1>1, <1>4, <2>2, <3>1
    <3>3. bodyBuffer = body
      BY <1>2, <3>2, SeqEqual
    <3> QED
      BY <3>1, <3>3
<1>8. PICK request \in {m, NoNode} : received' = Append(received, request)
  <2>1. [id |-> m.id, body |-> m.body] = m
    BY DEF Messages
  <2>2. \E request \in {[id |-> HeaderId(headerBuffer), body |-> bodyBuffer], NoNode} :
          received' = Append(received, request)
    BY DEF PostNode
  <2> QED
    BY <1>3, <1>7, <2>1, <2>2
<1>9. /\ Len(received') = r + 1 /\ received'[r + 1] = request
      /\ \A i \in 1..r : received'[i] = received[i]
  <2>1. received \in Seq(Requests)
    BY DEF FrameTypes, FramingTypeOK, Requests
  <2>2. PICK all : all = Append(received, request)
    OBVIOUS
  <2>3. Len(all) = r + 1 /\ all[r + 1] = request /\ \A i \in 1..r : all[i] = received[i]
    <3>1. request \in Requests
      <4>1. m \in Requests
        <5>1. m.id \in Nat /\ m.body \in Seq(Byte)
          <6>1. m.id \in 0..(Power[HeadIdLen] - 1) /\ Power[HeadIdLen] \in Nat
            BY FramingAssumption, PowerDef DEF Messages
          <6>2. m.body \in Seq(Byte)
            BY FramingAssumption, Zenon DEF Messages
          <6> QED
            BY <6>1, <6>2
        <5> QED
          BY <5>1 DEF Messages, Requests
      <4>2. NoNode \in Requests
        BY EmptySeq DEF NoNode, Requests
      <4> QED
        BY <4>1, <4>2
    <3> QED
      BY <1>1, <2>1, <2>2, <3>1, AppendProperties
  <2> QED
    BY <1>8, <2>2, <2>3
<1>10. /\ headerBuffer' = <<>> /\ Len(headerBuffer') = 0 /\ phase' = "header"
       /\ UNCHANGED <<sent, open, wire, bodySize, bodyBuffer>>
  BY EmptySeq DEF PostNode, writerVars
<1>11. ASSUME NEW i \in 1..(r + 1) PROVE received'[i] \in {sent[i], NoNode}
  <2>1. CASE i = r + 1
    BY <1>3, <1>8, <1>9, <2>1
  <2>2. CASE i # r + 1
    <3>1. i \in 1..r
      BY <2>2
    <3> QED
      BY <1>4, <1>9, <3>1
  <2> QED
    BY <2>1, <2>2
<1>12. r + 1 <= k /\ x - w = start[r + 1] + 0 /\ 0 < h
  <2>1. h >= 1
    BY <1>1, FrameLengths
  <2> QED
    BY <1>3, <1>4, <1>6, <2>1
<1>13. \A i \in 1..0 : FALSE
  OBVIOUS
<1> QED
  BY <1>1, <1>4, <1>9, <1>10, <1>11, <1>12, <1>13 DEF ReaderOK

\* A failure of the reader.
LEMMA ReaderStops ==
  ASSUME NEW stream, NEW start, ReaderOK(stream, start), ReadFails
  PROVE  ReaderOK(stream, start)'
BY DEF ReaderOK, ReadFails, writerVars

\* An empty message is not written.
LEMMA NothingWritten ==
  ASSUME FrameTypes, NEW m \in Messages, m.body = <<>>, Write(m)
  PROVE  UNCHANGED frameVars
<1>1. SendNode(m) = <<>>
  BY DEF SendNode
<1>2. wire \o <<>> = wire
  BY FrameLengths, ConcatEmptySeq
<1> QED
  BY <1>1, <1>2 DEF Write, frameVars, writerVars

\* The messages that were written are written still.
LEMMA StillFit == FrameTypes /\ [FrameNext]_frameVars /\ AllFit' => AllFit
<1> SUFFICES ASSUME FrameTypes, [FrameNext]_frameVars, AllFit',
                    NEW i \in 1..Len(sent)
             PROVE  Len(sent[i].body) < Power[HalfLen]
  BY DEF AllFit
<1>1. CASE sent' = sent
  BY <1>1 DEF AllFit
<1>2. ASSUME NEW m \in Messages, sent' = Append(sent, m) PROVE Len(sent[i].body) < Power[HalfLen]
  <2>1. sent \in Seq(Messages)
    BY DEF FrameTypes, FramingTypeOK
  <2>2. Len(sent') = Len(sent) + 1 /\ sent'[i] = sent[i] /\ Len(sent) \in Nat
    BY <1>2, <2>1, AppendProperties, LenProperties
  <2>3. i \in 1..Len(sent')
    BY <2>2
  <2> QED
    BY <2>2, <2>3 DEF AllFit
<1>3. sent' = sent \/ \E m \in Messages : sent' = Append(sent, m)
  BY DEF FrameNext, Writer, Reader, Write, WriteFails, ReadHeader, AllocateBody, ReadBody,
         PostNode, ReadFails, writerVars, frameVars
<1> QED
  BY <1>1, <1>2, <1>3

\* Every step preserves the invariant.
LEMMA FrameStep == FrameInv /\ [FrameNext]_frameVars => FrameInv'
<1> SUFFICES ASSUME FrameInv, [FrameNext]_frameVars PROVE FrameInv'
  OBVIOUS
<1>1. FrameTypes /\ FrameTypes'
  BY FrameTypeStep DEF FrameInv
<1> SUFFICES ASSUME AllFit' PROVE \E s, t : StreamOK(s, t)' /\ ReaderOK(s, t)'
  BY <1>1 DEF FrameInv
<1>2. AllFit
  BY <1>1, StillFit
<1>3. PICK stream, start : StreamOK(stream, start) /\ ReaderOK(stream, start)
  BY <1>2 DEF FrameInv
<1>4. ASSUME NEW m \in Messages, Write(m) \/ WriteFails(m), m.body # <<>>
      PROVE  \E s, t : StreamOK(s, t)' /\ ReaderOK(s, t)'
  BY <1>1, <1>3, <1>4, StreamGrows
<1>5. ASSUME UNCHANGED frameVars PROVE StreamOK(stream, start)' /\ ReaderOK(stream, start)'
  BY <1>3, <1>5 DEF StreamOK, ReaderOK, frameVars, writerVars
<1>6. ASSUME UNCHANGED writerVars, ReaderOK(stream, start)'
      PROVE  StreamOK(stream, start)' /\ ReaderOK(stream, start)'
  BY <1>3, <1>6, StreamStays DEF writerVars
<1>7. ASSUME NEW m \in Messages, Write(m) \/ WriteFails(m), m.body = <<>>
      PROVE  StreamOK(stream, start)' /\ ReaderOK(stream, start)'
  <2>1. Write(m)
    BY <1>7 DEF WriteFails
  <2> QED
    BY <1>1, <1>5, <1>7, <2>1, NothingWritten
<1>8. ASSUME NEW n, ReadHeader(n) PROVE StreamOK(stream, start)' /\ ReaderOK(stream, start)'
  <2>1. UNCHANGED writerVars
    BY <1>8 DEF ReadHeader, writerVars
  <2> QED
    BY <1>1, <1>3, <1>6, <1>8, <2>1, HeaderArrives
<1>9. ASSUME NEW n, ReadBody(n) PROVE StreamOK(stream, start)' /\ ReaderOK(stream, start)'
  <2>1. UNCHANGED writerVars
    BY <1>9 DEF ReadBody, writerVars
  <2> QED
    BY <1>1, <1>3, <1>6, <1>9, <2>1, BodyArrives
<1>10. ASSUME AllocateBody PROVE StreamOK(stream, start)' /\ ReaderOK(stream, start)'
  <2>1. UNCHANGED writerVars
    BY <1>10 DEF AllocateBody, writerVars
  <2> QED
    BY <1>1, <1>2, <1>3, <1>6, <1>10, <2>1, BodyStarts
<1>11. ASSUME PostNode PROVE StreamOK(stream, start)' /\ ReaderOK(stream, start)'
  <2>1. UNCHANGED writerVars
    BY <1>11 DEF PostNode, writerVars
  <2> QED
    BY <1>1, <1>2, <1>3, <1>6, <1>11, <2>1, NodePosts
<1>12. ASSUME ReadFails PROVE StreamOK(stream, start)' /\ ReaderOK(stream, start)'
  <2>1. UNCHANGED writerVars
    BY <1>12 DEF ReadFails, writerVars
  <2> QED
    BY <1>3, <1>6, <1>12, <2>1, ReaderStops
<1> QED
  BY <1>4, <1>5, <1>7, <1>8, <1>9, <1>10, <1>11, <1>12 DEF FrameNext, Writer, Reader

\* The first state: an empty stream.
LEMMA FrameStart == FrameInit => FrameInv
<1> SUFFICES ASSUME FrameInit PROVE FrameInv
  OBVIOUS
<1>1. FrameTypes
  BY FrameTypeStart
<1>2. Len(sent) = 0 /\ Len(wire) = 0 /\ Len(received) = 0 /\ Len(headerBuffer) = 0
  BY EmptySeq DEF FrameInit
<1>3. PICK stream, start : stream = <<>> /\ start = [i \in 0..0 |-> 0]
  OBVIOUS
<1>4. stream \in Seq(Byte) /\ Len(stream) = 0
  BY <1>3, EmptySeq
<1>5. start \in [0..0 -> Nat] /\ start[0] = 0
  BY <1>3
<1>6. StreamOK(stream, start)
  <2>1. \A i \in 1..0 : FALSE
    OBVIOUS
  <2>2. \A i \in 0..0 : i = 0
    OBVIOUS
  <2>3. open
    BY DEF FrameInit
  <2> QED
    BY <1>2, <1>4, <1>5, <2>1, <2>2, <2>3 DEF StreamOK
<1>7. ReaderOK(stream, start)
  <2>1. \A i \in 1..0 : FALSE
    OBVIOUS
  <2>2. phase = "header" /\ 0 < HeadTotalLen
    BY HeaderSizes DEF FrameInit
  <2> QED
    BY <1>2, <1>4, <1>5, <2>1, <2>2 DEF ReaderOK
<1> QED
  BY <1>1, <1>6, <1>7 DEF FrameInv

\* The invariant gives the property: with the stream read to its end, the reader
\* is at the start of a node that is not written, or the writer has failed.
LEMMA FrameCorrect == FrameInv => FramesExact
<1> SUFFICES ASSUME FrameInv, AllFit
             PROVE  /\ Len(received) <= Len(sent)
                    /\ \A i \in 1..Len(received) : received[i] \in {sent[i], NoNode}
                    /\ open /\ wire = <<>> /\ phase \in {"header", "body"} =>
                         phase = "header" /\ headerBuffer = <<>> /\ Len(received) = Len(sent)
  BY DEF FramesExact
<1>1. FrameTypes
  BY DEF FrameInv
<1>2. PICK stream, start : StreamOK(stream, start) /\ ReaderOK(stream, start)
  BY DEF FrameInv
<1>3. /\ Len(received) <= Len(sent)
      /\ \A i \in 1..Len(received) : received[i] \in {sent[i], NoNode}
  BY <1>2 DEF ReaderOK
<1>4. ASSUME open, wire = <<>>, phase \in {"header", "body"}
      PROVE  phase = "header" /\ headerBuffer = <<>> /\ Len(received) = Len(sent)
  <2>1. PICK x \in Nat, r \in Nat, k \in Nat, a \in Nat, h \in Nat, b \in Nat :
          /\ x = Len(stream) /\ r = Len(received) /\ k = Len(sent) /\ a = start[Len(received)]
          /\ h = Len(headerBuffer) /\ b = Len(bodyBuffer)
    BY <1>1, <1>2, ReaderAt, FrameLengths
  <2>2. Len(wire) = 0 /\ r <= k
    BY <1>3, <1>4, <2>1, EmptySeq
  <2>3. x = start[k] /\ start \in [0..k -> Nat]
    BY <1>2, <1>4, <2>1 DEF StreamOK
  <2>4. ASSUME r < k
        PROVE  /\ start[r + 1] <= x /\ Len(sent[r + 1].body) \in Nat
               /\ start[r + 1] = a + HeadTotalLen + Len(sent[r + 1].body)
    <3>1. /\ r + 1 \in 1..k /\ (r + 1) - 1 = r /\ r + 1 \in 0..k /\ k \in 0..k
          /\ r + 1 <= k
      BY <2>4
    <3>2. /\ sent[r + 1].body # <<>>
          /\ start[r + 1] = start[(r + 1) - 1] + Len(SendNode(sent[r + 1]))
          /\ start[r + 1] <= start[k]
      BY <1>2, <2>1, <3>1 DEF StreamOK
    <3>3. sent[r + 1] \in Messages
      BY <1>1, <2>1, <3>1, FrameLengths
    <3>4. /\ Len(sent[r + 1].body) \in Nat
          /\ Len(SendNode(sent[r + 1])) = HeadTotalLen + Len(sent[r + 1].body)
      BY <3>2, <3>3, NodeBytes
    <3>5. PICK c \in Nat, l \in Nat : c = Len(sent[r + 1].body) /\ l = HeadTotalLen
      BY <1>1, <3>4, FrameLengths
    <3>6. start[r + 1] = a + (l + c) /\ start[r + 1] <= x
      BY <2>1, <2>3, <3>1, <3>2, <3>4, <3>5
    <3>7. a + (l + c) = a + l + c
      OBVIOUS
    <3> QED
      BY <3>5, <3>6, <3>7
  <2>5. phase # "body"
    <3> SUFFICES ASSUME phase = "body" PROVE FALSE
      OBVIOUS
    <3>1. /\ r < k /\ bodySize = Len(sent[r + 1].body) /\ b < bodySize
          /\ x - Len(wire) = a + HeadTotalLen + b
      BY <1>2, <2>1 DEF ReaderOK
    <3>2. PICK l \in Nat : l = HeadTotalLen
      BY <1>1, FrameLengths
    <3>3. x = a + l + b
      BY <2>2, <3>1, <3>2
    <3>4. start[r + 1] <= x /\ start[r + 1] = a + l + bodySize /\ bodySize \in Nat
      BY <2>4, <3>1, <3>2
    <3> QED
      BY <3>1, <3>3, <3>4
  <2>6. phase = "header" /\ x - Len(wire) = a + h /\ h < HeadTotalLen
    <3>1. phase = "header"
      BY <1>4, <2>5
    <3> QED
      BY <1>2, <2>1, <3>1 DEF ReaderOK
  <2>7. r = k
    <3> SUFFICES ASSUME r < k PROVE FALSE
      BY <2>2
    <3>1. PICK l \in Nat, c \in Nat : l = HeadTotalLen /\ c = Len(sent[r + 1].body)
      BY <1>1, <2>4, FrameLengths
    <3>2. x - 0 = a + h /\ h < l
      BY <2>2, <2>6, <3>1
    <3>3. start[r + 1] = a + l + c /\ start[r + 1] <= x
      BY <2>4, <3>1
    <3>4. a + l + c <= x
      BY <3>3
    <3> QED
      BY <3>2, <3>4
  <2>8. h = 0
    BY <2>1, <2>2, <2>3, <2>6, <2>7
  <2>9. headerBuffer = <<>>
    BY <1>1, <2>1, <2>8, FrameLengths, EmptySeq
  <2> QED
    BY <2>1, <2>6, <2>7, <2>9
<1> QED
  BY <1>3, <1>4

\* The messages that the reader posts are those that were written.
THEOREM FramesExactCorrect == FrameSpec => []FramesExact
<1>1. FrameInit => FrameInv
  BY FrameStart
<1>2. FrameInv /\ [FrameNext]_frameVars => FrameInv'
  BY FrameStep
<1>3. FrameInv => FramesExact
  BY FrameCorrect
<1> QED
  BY <1>1, <1>2, <1>3, PTL DEF FrameSpec

-----------------------------------------------------------------------------
(* The parts side by side: MCParts.                                         *)

\* In a behaviour of MCParts each of the parts takes its own steps or none: it
\* implements the specification of each, that of the copies where they move.
THEOREM PartsImplement ==
  MCSpec => Spec /\ SendSpec /\ FrameSpec /\ (part = "copies" => CopySpec)
<1>1. MCInit => Init /\ SendInit /\ FrameInit /\ (part = "copies" => CopyInit)
  BY Zenon DEF MCInit
<1>2. [MCNext]_partVars =>
        [Next]_vars /\ [SendNext]_sendVars /\ [FrameNext]_frameVars /\ [CopyNext]_copyVars
  BY Zenon DEF MCNext, PoolMoves, TasksMove, FramesMove, CopiesMove, In, partVars
<1> QED
  BY <1>1, <1>2, PTL DEF MCSpec, Spec, SendSpec, FrameSpec, CopySpec

\* The variables of the pools and of the stream keep their types, whichever part
\* moves: nowSize, threadCount and bodySize keep within their bounds.
THEOREM PartsTypeCorrect == MCSpec => []PartsTypeOK
<1>1. FrameSpec => []FrameTypes
  BY FrameTypeStart, FrameTypeStep, PTL DEF FrameSpec
<1>2. TypeOK /\ (PoolTypeOK /\ NoTaskSleeps) /\ FrameTypes => PartsTypeOK
  BY DEF FrameTypes, PartsTypeOK
<1> QED
  BY <1>1, <1>2, PartsImplement, TypeCorrect, SendCorrect, PTL
=============================================================================

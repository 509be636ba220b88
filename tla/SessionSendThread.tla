-------------------------- MODULE SessionSendThread --------------------------
(***************************************************************************)
(* SessionSendThread.h and .cpp: a pool of threads with a queue of tasks.  *)
(* The program includes it and makes no instance.                          *)
(*                                                                         *)
(* commitTask and the workers use the queue under mutexs, a section of     *)
(* which is one action; stop() sets isStop without it.  A waiting worker   *)
(* is woken by notify_one and notify_all, or for no reason, and then       *)
(* evaluates the predicate of the wait again.                              *)
(***************************************************************************)
EXTENDS Integers, Sequences, FiniteSets

CONSTANTS
  Workers,   \* the threads: size of them
  Tasks      \* the tasks committed, each once

ASSUME WorkersAssumption == IsFiniteSet(Workers)

Size == Cardinality(Workers)

VARIABLES
  task_queues,   \* task_queues
  committed,     \* tasks passed to commitTask
  ran,           \* tasks called so far, in their order
  threadCount,   \* threadCount, an int
  sendStop,      \* isStop: AsioProactors has one too
  wpc,           \* where each worker is
  func,          \* its func: a sequence of at most one task
  sendStopPc     \* where stop() is

taskVars == <<task_queues, committed, ran>>
sendVars == <<taskVars, threadCount, sendStop, wpc, func, sendStopPc>>

SendInit ==
  /\ task_queues = <<>>
  /\ committed = {}
  /\ ran = <<>>
  /\ threadCount = Size
  /\ sendStop = FALSE
  /\ wpc = [w \in Workers |-> "top"]
  /\ func = [w \in Workers |-> <<>>]
  /\ sendStopPc = "idle"

Waiting == {w \in Workers : wpc[w] = "waiting"}
Goto(w, place) == wpc' = [wpc EXCEPT ![w] = place]

-----------------------------------------------------------------------------
(* Faulty variants of single definitions, used by no specification here.    *)

\* The waiters are not told of the task.
NotifyOneMissing == UNCHANGED wpc

\* The loop does not look at isStop.
TopUnchecked(w) ==
  /\ wpc[w] = "top"
  /\ Goto(w, "wait")
  /\ UNCHANGED <<taskVars, threadCount, sendStop, func, sendStopPc>>

\* threadCount is not compared with size.
CountIdleAnyway == threadCount' = threadCount + 1

-----------------------------------------------------------------------------
(* commitTask.                                                              *)

\* condition.notify_one()
NotifyOne ==
  IF Waiting = {} THEN UNCHANGED wpc ELSE \E w \in Waiting : Goto(w, "wait")

CommitTask(t) ==
  /\ t \notin committed
  /\ committed' = committed \cup {t}
  /\ task_queues' = Append(task_queues, t)
  /\ NotifyOne
  /\ threadCount' = threadCount - 1
  /\ UNCHANGED <<ran, sendStop, func, sendStopPc>>

-----------------------------------------------------------------------------
(* A worker.                                                                *)

\* if (isStop.load()) return
Top(w) ==
  /\ wpc[w] = "top"
  /\ Goto(w, IF sendStop THEN "returned" ELSE "wait")
  /\ UNCHANGED <<taskVars, threadCount, sendStop, func, sendStopPc>>

\* if (threadCount < size) threadCount++, where an int is compared with a size_t:
\* below zero it is a number that is not less.
CountIdle ==
  threadCount' = IF threadCount >= 0 /\ threadCount < Size THEN threadCount + 1
                                                           ELSE threadCount

TakeTask(w) ==
  /\ func' = [func EXCEPT ![w] = <<Head(task_queues)>>]
  /\ task_queues' = Tail(task_queues)
  /\ Goto(w, "run")
  /\ UNCHANGED threadCount

\* condition.wait(lock, predicate): the mutex is taken and the predicate is
\* evaluated; if it holds, the worker takes the first task.
Wait(w) ==
  /\ wpc[w] = "wait"
  /\ IF task_queues # <<>> /\ ~sendStop
     THEN TakeTask(w)
     ELSE CountIdle /\ Goto(w, "waiting") /\ UNCHANGED <<task_queues, func>>
  /\ UNCHANGED <<committed, ran, sendStop, sendStopPc>>

\* A wait ends for no reason.
SpuriousWakeup(w) ==
  /\ wpc[w] = "waiting"
  /\ Goto(w, "wait")
  /\ UNCHANGED <<taskVars, threadCount, sendStop, func, sendStopPc>>

\* (*func)()
RunTask(w) ==
  /\ wpc[w] = "run"
  /\ ran' = ran \o func[w]
  /\ func' = [func EXCEPT ![w] = <<>>]
  /\ Goto(w, "top")
  /\ UNCHANGED <<task_queues, committed, threadCount, sendStop, sendStopPc>>

-----------------------------------------------------------------------------
(* stop().                                                                  *)

SetStop ==
  /\ sendStopPc = "idle"
  /\ sendStop' = TRUE
  /\ sendStopPc' = "notify"
  /\ UNCHANGED <<taskVars, threadCount, wpc, func>>

\* condition.notify_all()
NotifyAll ==
  /\ sendStopPc = "notify"
  /\ wpc' = [w \in Workers |-> IF w \in Waiting THEN "wait" ELSE wpc[w]]
  /\ sendStopPc' = "join"
  /\ UNCHANGED <<taskVars, threadCount, sendStop, func>>

\* Every thread is joined.  A worker within the wait never returns: with isStop
\* set the predicate is false, and stop() waits for ever.
JoinAll ==
  /\ sendStopPc = "join"
  /\ \A w \in Workers : wpc[w] = "returned"
  /\ sendStopPc' = "stopped"
  /\ UNCHANGED <<taskVars, threadCount, sendStop, wpc, func>>

-----------------------------------------------------------------------------
Work(w) == Top(w) \/ Wait(w) \/ RunTask(w)

SendNext ==
  \/ \E t \in Tasks : CommitTask(t)
  \/ \E w \in Workers : Work(w) \/ SpuriousWakeup(w)
  \/ SetStop \/ NotifyAll \/ JoinAll

SendSpec == SendInit /\ [][SendNext]_sendVars

-----------------------------------------------------------------------------
(* Properties.                                                              *)

PoolTypeOK ==
  /\ task_queues \in Seq(Tasks)
  /\ committed \subseteq Tasks
  /\ ran \in Seq(Tasks)
  /\ threadCount \in Int /\ threadCount <= Size
  /\ sendStop \in BOOLEAN
  /\ wpc \in [Workers -> {"top", "wait", "waiting", "run", "returned"}]
  /\ func \in [Workers -> {<<>>} \cup {<<t>> : t \in Tasks}]
  /\ sendStopPc \in {"idle", "notify", "join", "stopped"}

\* No task waits while every worker sleeps: as many workers are awake as there
\* are tasks in the queue, or all of them, although notify_one wakes nobody when
\* nobody waits yet.
NoTaskSleeps ==
  ~sendStop => Len(task_queues) <= Cardinality(Workers \ Waiting) \/ Waiting = {}

\* stop() returns if it is called while no worker is within the wait, whatever
\* tasks are left in the queue: they are not run.
StopReturnsFromTasks ==
  sendStop /\ (\A w \in Workers : wpc[w] \in {"top", "run", "returned"}) ~> sendStopPc = "stopped"
==============================================================================

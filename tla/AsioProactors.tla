---------------------------- MODULE AsioProactors ----------------------------
(***************************************************************************)
(* AsioProactors.cpp: the pool of I/O threads, one io_context each.        *)
(*                                                                         *)
(* A monitor thread samples the system load and grows or shrinks the pool; *)
(* the accept loop takes contexts round robin with getIoComplatePorts,     *)
(* which reads nowSize several times while the monitor may change it;      *)
(* stop() runs in the destructor, on main's thread.  The load is any value *)
(* at every sample.  ioPressures is written and never read: left out.      *)
(*                                                                         *)
(* io_context is external: run() blocks while its work guard or a session  *)
(* keeps it busy, returns once it is stopped, and returns at once on a     *)
(* stopped context that was not restarted.                                 *)
(***************************************************************************)
EXTENDS Naturals

CONSTANTS MinSize, MaxSize   \* minSize, maxSize

ASSUME SizeAssumption ==
  /\ MinSize \in Nat \ {0}
  /\ MaxSize \in Nat
  /\ MinSize <= MaxSize

Slots == 0..(MaxSize - 1)

VARIABLES
  nowSize,        \* nowSize
  stopped,        \* contexts that are stopped
  works,          \* contexts with a work guard
  threads,        \* each slot of threads: no thread, one in run(), one that returned
  mpc,            \* where the monitor thread is
  index,          \* its newIndex or indexToRemove
  loadBalancing,  \* loadBalancing
  gpc,            \* where the caller of getIoComplatePorts is
  balancing,      \* its balancing
  context,        \* the context it chose
  isStop,         \* isStop
  spc             \* where stop() is

monitorVars == <<nowSize, mpc, index>>
poolVars    == <<stopped, works, threads>>
pickVars    == <<loadBalancing, gpc, balancing, context>>
stopVars    == <<isStop, spc>>
vars == <<monitorVars, poolVars, pickVars, stopVars>>

\* The constructor has started the first minSize threads and the monitor.
Init ==
  /\ nowSize = MinSize
  /\ stopped = {}
  /\ works = 0..(MinSize - 1)
  /\ threads = [i \in Slots |-> IF i < MinSize THEN "running" ELSE "none"]
  /\ mpc = "loop"
  /\ index = 0
  /\ loadBalancing = 0
  /\ gpc = "idle"
  /\ balancing = 0
  /\ context = 0
  /\ isStop = FALSE
  /\ spc = "none"

-----------------------------------------------------------------------------
(* Faulty variants of single actions, used by no specification here.        *)

\* Shrinking does not look at minSize.
ShrinkAnyway ==
  /\ mpc = "loop"
  /\ ~isStop
  /\ nowSize > 0
  /\ nowSize' = nowSize - 1
  /\ index' = nowSize - 1
  /\ mpc' = "stopping"
  /\ UNCHANGED <<poolVars, pickVars, stopVars>>

\* The thread of the removed context is not joined.
JoinMissing ==
  /\ mpc = "joining"
  /\ mpc' = "loop"
  /\ UNCHANGED <<nowSize, index, poolVars, pickVars, stopVars>>

\* The work guard is reset and the context is not stopped before the join.
StopContextMissing ==
  /\ mpc = "stopping"
  /\ mpc' = "joining"
  /\ UNCHANGED <<nowSize, index, poolVars, pickVars, stopVars>>

\* The last thread is never chosen.
WrapEarly ==
  /\ gpc = "wrap"
  /\ gpc' = "idle"
  /\ loadBalancing' = IF loadBalancing + 1 >= nowSize THEN 0 ELSE loadBalancing
  /\ UNCHANGED <<balancing, context, monitorVars, poolVars, stopVars>>

-----------------------------------------------------------------------------
(* The monitor thread.                                                      *)

\* pressures > 0.6 and nowSize # maxSize: size_t newIndex = nowSize.fetch_add(1)
Grow ==
  /\ mpc = "loop"
  /\ ~isStop
  /\ nowSize # MaxSize
  /\ index' = nowSize
  /\ nowSize' = nowSize + 1
  /\ mpc' = "growing"
  /\ UNCHANGED <<poolVars, pickVars, stopVars>>

\* works[newIndex] = ...; threads[newIndex] = std::thread(run).  There is no
\* restart(): a context stopped before stays stopped.
StartThread ==
  /\ mpc = "growing"
  /\ works' = works \cup {index}
  /\ threads' = [threads EXCEPT ![index] = "running"]
  /\ mpc' = "loop"
  /\ UNCHANGED <<nowSize, index, stopped, pickVars, stopVars>>

\* pressures < 0.3 and nowSize # minSize: nowSize.fetch_sub(1) - 1
Shrink ==
  /\ mpc = "loop"
  /\ ~isStop
  /\ nowSize # MinSize
  /\ nowSize' = nowSize - 1
  /\ index' = nowSize - 1
  /\ mpc' = "stopping"
  /\ UNCHANGED <<poolVars, pickVars, stopVars>>

\* ioContexts[indexToRemove].stop(); works[indexToRemove].reset()
StopContext ==
  /\ mpc = "stopping"
  /\ stopped' = stopped \cup {index}
  /\ works' = works \ {index}
  /\ mpc' = "joining"
  /\ UNCHANGED <<nowSize, index, threads, pickVars, stopVars>>

\* threads[indexToRemove].join() returns.
JoinThread ==
  /\ mpc = "joining"
  /\ threads[index] = "returned"
  /\ threads' = [threads EXCEPT ![index] = "none"]
  /\ mpc' = "loop"
  /\ UNCHANGED <<nowSize, index, stopped, works, pickVars, stopVars>>

\* while (!isStop)
MonitorEnds ==
  /\ mpc = "loop"
  /\ isStop
  /\ mpc' = "ended"
  /\ UNCHANGED <<nowSize, index, poolVars, pickVars, stopVars>>

-----------------------------------------------------------------------------
(* An I/O thread: ioContexts[i].run() returns.                              *)

RunReturns(i) ==
  /\ threads[i] = "running"
  /\ i \in stopped
  /\ threads' = [threads EXCEPT ![i] = "returned"]
  /\ UNCHANGED <<monitorVars, stopped, works, pickVars, stopVars>>

-----------------------------------------------------------------------------
(* getIoComplatePorts, on the accept loop's thread.                         *)

\* int balancing = loadBalancing++
Balance ==
  /\ gpc = "idle"
  /\ spc = "none"
  /\ balancing' = loadBalancing
  /\ loadBalancing' = loadBalancing + 1
  /\ gpc' = "choose"
  /\ UNCHANGED <<context, monitorVars, poolVars, stopVars>>

\* ioContexts[balancing % nowSize]
Choose ==
  /\ gpc = "choose"
  /\ context' = balancing % nowSize
  /\ gpc' = "wrap"
  /\ UNCHANGED <<loadBalancing, balancing, monitorVars, poolVars, stopVars>>

\* if (loadBalancing >= nowSize) loadBalancing = 0
Wrap ==
  /\ gpc = "wrap"
  /\ gpc' = "idle"
  /\ loadBalancing' = IF loadBalancing >= nowSize THEN 0 ELSE loadBalancing
  /\ UNCHANGED <<balancing, context, monitorVars, poolVars, stopVars>>

-----------------------------------------------------------------------------
(* Shutdown: main's signal handler, then stop() in the destructor.           *)

\* SIGINT or SIGTERM: main's io_context stops, with it the accept loop, and so
\* does the first context of the pool.
Signal ==
  /\ spc = "none"
  /\ gpc = "idle"
  /\ stopped' = stopped \cup {0}
  /\ spc' = "leaving"
  /\ UNCHANGED <<monitorVars, works, threads, pickVars, isStop>>

StopBegins ==
  /\ spc = "leaving"
  /\ isStop' = TRUE
  /\ spc' = "joinMonitor"
  /\ UNCHANGED <<monitorVars, poolVars, pickVars>>

\* systemMonitorThread.join(); every work guard is reset, every context stopped.
StopContexts ==
  /\ spc = "joinMonitor"
  /\ mpc = "ended"
  /\ works' = {}
  /\ stopped' = Slots
  /\ spc' = "joinThreads"
  /\ UNCHANGED <<isStop, monitorVars, threads, pickVars>>

\* Every joinable thread is joined.
StopEnds ==
  /\ spc = "joinThreads"
  /\ \A i \in Slots : threads[i] # "running"
  /\ threads' = [i \in Slots |-> "none"]
  /\ spc' = "done"
  /\ UNCHANGED <<isStop, monitorVars, stopped, works, pickVars>>

-----------------------------------------------------------------------------
Choosing == Choose \/ Wrap
Resize == Grow \/ Shrink
Monitor == StartThread \/ StopContext \/ JoinThread \/ MonitorEnds
GetIoComplatePorts == Balance \/ Choosing
Stop == StopContexts \/ StopEnds

Next ==
  \/ Resize \/ Monitor \/ GetIoComplatePorts \/ Signal \/ StopBegins \/ Stop
  \/ \E i \in Slots : RunReturns(i)

Spec == Init /\ [][Next]_vars

\* Threads keep running and a stopped run() returns; the load may do anything.
\* The next call of getIoComplatePorts waits for a client, who need not come.
Fairness ==
  /\ WF_vars(Monitor)
  /\ WF_vars(Choosing)
  /\ WF_vars(Stop)
  /\ \A i \in Slots : WF_vars(RunReturns(i))

FairSpec == Spec /\ Fairness

-----------------------------------------------------------------------------
(* Properties.                                                              *)

TypeOK ==
  /\ nowSize \in MinSize..MaxSize
  /\ stopped \subseteq Slots
  /\ works \subseteq Slots
  /\ threads \in [Slots -> {"none", "running", "returned"}]
  /\ mpc \in {"loop", "growing", "stopping", "joining", "ended"}
  /\ index \in Slots
  /\ loadBalancing \in 0..MaxSize
  /\ gpc \in {"idle", "choose", "wrap"}
  /\ balancing \in Slots
  /\ context \in Slots
  /\ isStop \in BOOLEAN
  /\ spc \in {"none", "leaving", "joinMonitor", "joinThreads", "done"}

\* Until stop() joins them, the slots below nowSize own a thread and the others
\* do not, but for the slot the monitor is changing.  So no joinable std::thread
\* is assigned to (which calls std::terminate), and every join finds a thread.
ThreadsMatchSize ==
  spc # "done" =>
    \A i \in Slots :
      threads[i] # "none" <=>
        IF mpc \in {"stopping", "joining"} THEN i <= nowSize
        ELSE IF mpc = "growing" THEN i < nowSize - 1 ELSE i < nowSize

\* The first minSize contexts serve their sessions until shutdown, whatever the
\* monitor does: only contexts that were added later are ever stopped.
BaseContextsServe ==
  spc = "none" =>
    \A i \in 0..(MinSize - 1) : i \notin stopped /\ i \in works /\ threads[i] = "running"

\* As long as clients go on connecting, round robin goes on choosing each of the
\* first minSize contexts, although nowSize may change between the reads of it:
\* by the choice and by the wrap-around (the third one is for ioPressures).
EachContextChosen ==
  []<>(gpc = "wrap") => \A i \in 0..(MinSize - 1) : []<>(gpc = "wrap" /\ context = i)

\* stop() returns: joining the monitor, itself perhaps joining a thread, and
\* then the threads cannot block for ever.
StopReturns == spc = "joinMonitor" ~> spc = "done"

\* The contexts among which getIoComplatePorts chooses run: README.md:61 calls
\* this the I/O thread pool whose number of threads follows the load.  Refuted:
\* growing after shrinking runs a context that was stopped and never restarted.
PoolServes ==
  mpc = "loop" /\ spc = "none" => \A i \in 0..(nowSize - 1) : i \notin stopped
==============================================================================

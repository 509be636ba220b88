----------------------------- MODULE Lifecycle -----------------------------
(***************************************************************************)
(* main.cpp, and what the process does before and after it: the objects    *)
(* with a lifetime, and the threads that use them.                         *)
(*                                                                         *)
(* main builds the pool of I/O threads (the static object of               *)
(* AsioProactors::getInstance), then the server and its io_context on the  *)
(* stack, and runs it until a signal.  The pool's constructor starts       *)
(* systemMonitorThread, which builds the static AdvancedSystemMonitor; the *)
(* program destroys static objects in the reverse of the order in which    *)
(* their constructors ended.  The sessions run on the I/O threads all the  *)
(* while, and hold a plain pointer to the server.                          *)
(*                                                                         *)
(* The sessions and the accept loop are those of CServer.  A destroyed     *)
(* object keeps its last values here; gone says it is destroyed, dangling  *)
(* that it was used all the same, which is undefined behaviour.            *)
(***************************************************************************)
EXTENDS CServer, AdvancedSystemMonitor, SequencesExt

VARIABLES
  mainpc,     \* where main's thread is, in main and in the destructors
  tpc,        \* where systemMonitorThread is
  statics,    \* the static objects built, oldest first
  gone,       \* of {"server", "monitor"}: destroyed
  dangling    \* used after that

mainVars == <<mainpc, tpc, statics, gone, dangling>>
lifeVars == <<vars, monitoringVars, mainVars>>

LifeInit ==
  /\ Init
  /\ MonitoringInit
  /\ mainpc = "start"
  /\ tpc = "none"
  /\ statics = <<>>
  /\ gone = {}
  /\ dangling = {}

-----------------------------------------------------------------------------
(* Faulty variants of single definitions, used by no specification here.    *)

\* The contexts are destroyed while a session is within close().
JoinThreadsEarly ==
  /\ mainpc = "joinThreads"
  /\ mainpc' = "destroyContexts"
  /\ UNCHANGED <<vars, monitoringVars, tpc, statics, gone, dangling>>

-----------------------------------------------------------------------------
(* Startup.                                                                 *)

\* A step uses an object: it may be gone.
Uses(object) == dangling' = dangling \cup (gone \cap {object})

\* AsioProactors's constructor starts the I/O threads and systemMonitorThread ...
BuildPool ==
  /\ mainpc = "start"
  /\ mainpc' = "building"
  /\ tpc' = "build"
  /\ UNCHANGED <<vars, monitoringVars, statics, gone, dangling>>

\* ... and ends.
PoolBuilt ==
  /\ mainpc = "building"
  /\ mainpc' = "built"
  /\ statics' = Append(statics, "pool")
  /\ UNCHANGED <<vars, monitoringVars, tpc, gone, dangling>>

\* CServer server(ioContexts, port); ioContexts.run()
RunServer ==
  /\ mainpc = "built"
  /\ mainpc' = "running"
  /\ UNCHANGED <<vars, monitoringVars, tpc, statics, gone, dangling>>

\* The port is not a number, or the acceptor cannot bind it: the exception ends main.
MainThrows ==
  /\ mainpc \in {"start", "built"}
  /\ mainpc' = "exit"
  /\ UNCHANGED <<vars, monitoringVars, tpc, statics, gone, dangling>>

-----------------------------------------------------------------------------
(* systemMonitorThread.                                                     *)

\* AdvancedSystemMonitor::getInstance()
BuildMonitor ==
  /\ tpc = "build"
  /\ tpc' = "start"
  /\ statics' = Append(statics, "monitor")
  /\ UNCHANGED <<vars, monitoringVars, mainpc, gone, dangling>>

CallStartMonitoring ==
  /\ tpc = "start"
  /\ StartMonitoring
  /\ Uses("monitor")
  /\ tpc' = "loop"
  /\ UNCHANGED <<vars, mainpc, statics, gone>>

\* while (!isStop): ~AsioProactors sets it.
SystemMonitorEnds ==
  /\ tpc = "loop"
  /\ mainpc = "joinSystemMonitor"
  /\ tpc' = "ended"
  /\ UNCHANGED <<vars, monitoringVars, mainpc, statics, gone, dangling>>

MonitoringLoop == LoopEnds /\ mainpc # "aborted" /\ UNCHANGED <<vars, mainVars>>

-----------------------------------------------------------------------------
(* The server and its sessions.                                             *)

Accepting == mainpc = "running" /\ Acceptor /\ UNCHANGED <<monitoringVars, mainVars>>

\* The I/O threads run until the pool has joined them.
IoRuns == mainpc \notin {"destroyContexts", "done", "aborted"}

SessionCloses(s, c) ==
  IoRuns /\ CloseSession(s, c) /\ UNCHANGED <<monitoringVars, mainVars>>

\* server->removeSession(sessionId)
SessionRemoves(s, c) ==
  /\ IoRuns
  /\ RemoveSession(s, c)
  /\ Uses("server")
  /\ UNCHANGED <<monitoringVars, mainpc, tpc, statics, gone>>

-----------------------------------------------------------------------------
(* main returns.                                                            *)

\* The signal handler runs on the thread of the accept loop, so between two of
\* its steps: ioContexts.stop(), ioContext.stop().
Signal ==
  /\ mainpc = "running"
  /\ apc \in {"accept", "dead", "ended"}
  /\ mainpc' = "leaving"
  /\ UNCHANGED <<vars, monitoringVars, tpc, statics, gone, dangling>>

\* The locals of main are destroyed, the server first.
DestroyServer ==
  /\ mainpc = "leaving"
  /\ mainpc' = "destroyContext"
  /\ gone' = gone \cup {"server"}
  /\ UNCHANGED <<vars, monitoringVars, tpc, statics, dangling>>

\* Then ioContexts, which destroys the frame of a suspended accept loop and its
\* session: ~CSession calls close(), and that removeSession.
DestroyContext ==
  /\ mainpc = "destroyContext"
  /\ mainpc' = "exit"
  /\ IF apc = "accept" THEN AcceptFails /\ Uses("server")
                       ELSE UNCHANGED <<vars, dangling>>
  /\ UNCHANGED <<monitoringVars, tpc, statics, gone>>

-----------------------------------------------------------------------------
(* The destructors of the static objects.                                   *)

Newest(object) == statics # <<>> /\ Last(statics) = object

\* ~AdvancedSystemMonitor destroys monitoringThread: std::terminate if nobody
\* has joined it.
DestroyMonitor ==
  /\ mainpc = "exit"
  /\ Newest("monitor")
  /\ IF monitoringThread # "none"
     THEN mainpc' = "aborted" /\ UNCHANGED <<statics, gone>>
     ELSE /\ statics' = Front(statics)
          /\ gone' = gone \cup {"monitor"}
          /\ UNCHANGED mainpc
  /\ UNCHANGED <<vars, monitoringVars, tpc, dangling>>

\* ~AsioProactors calls stop(): isStop = true ...
DestroyPool ==
  /\ mainpc = "exit"
  /\ Newest("pool")
  /\ statics' = Front(statics)
  /\ mainpc' = "joinSystemMonitor"
  /\ UNCHANGED <<vars, monitoringVars, tpc, gone, dangling>>

\* ... systemMonitorThread.join(), stopMonitoring(), ...
CallStopMonitoring ==
  /\ mainpc = "joinSystemMonitor"
  /\ tpc = "ended"
  /\ StopMonitoring
  /\ Uses("monitor")
  /\ mainpc' = "joinMonitoring"
  /\ UNCHANGED <<vars, tpc, statics, gone>>

StopMonitoringReturns ==
  /\ mainpc = "joinMonitoring"
  /\ JoinMonitoring
  /\ mainpc' = "joinThreads"
  /\ UNCHANGED <<vars, tpc, statics, gone, dangling>>

\* ... every context stopped and every I/O thread joined: none is within close().
JoinThreads ==
  /\ mainpc = "joinThreads"
  /\ closing = {}
  /\ mainpc' = "destroyContexts"
  /\ UNCHANGED <<vars, monitoringVars, tpc, statics, gone, dangling>>

\* The contexts destroy the frames of a session's coroutines, and so a session
\* that is not closed: ~CSession closes it and removes it from the server.
DestroyFrames(s) ==
  /\ mainpc = "destroyContexts"
  /\ \E c \in Coroutines : <<s, c>> \in running
  /\ running' = running \ ({s} \X Coroutines)
  /\ isStop' = isStop \cup {s}
  /\ IF s \in isStop
     THEN UNCHANGED <<sessions, connections, dangling>>
     ELSE /\ sessions' = sessions \ {s}
          /\ connections' = Decrement(connections)
          /\ Uses("server")
  /\ UNCHANGED <<apc, session, made, closing, monitoringVars, mainpc, tpc, statics, gone>>

PoolGone ==
  /\ mainpc = "destroyContexts"
  /\ running = {}
  /\ mainpc' = "exit"
  /\ UNCHANGED <<vars, monitoringVars, tpc, statics, gone, dangling>>

Exit ==
  /\ mainpc = "exit"
  /\ statics = <<>>
  /\ mainpc' = "done"
  /\ UNCHANGED <<vars, monitoringVars, tpc, statics, gone, dangling>>

-----------------------------------------------------------------------------
Main ==
  \/ BuildPool \/ PoolBuilt \/ RunServer \/ MainThrows
  \/ DestroyServer \/ DestroyContext
  \/ DestroyMonitor \/ DestroyPool \/ CallStopMonitoring \/ StopMonitoringReturns
  \/ JoinThreads \/ PoolGone \/ Exit
  \/ \E s \in Sessions : DestroyFrames(s)

SystemMonitorThread ==
  /\ mainpc # "aborted"
  /\ BuildMonitor \/ CallStartMonitoring \/ SystemMonitorEnds

LifeNext ==
  \/ Main \/ Signal \/ SystemMonitorThread \/ MonitoringLoop \/ Accepting
  \/ \E s \in Sessions, c \in Coroutines : SessionCloses(s, c) \/ SessionRemoves(s, c)

LifeSpec == LifeInit /\ [][LifeNext]_lifeVars

\* Every thread keeps running; a signal, a client or the end of a connection may
\* never come.
LifeFairness ==
  /\ WF_lifeVars(Main)
  /\ WF_lifeVars(SystemMonitorThread)
  /\ WF_lifeVars(MonitoringLoop)
  /\ \A s \in Sessions, c \in Coroutines : WF_lifeVars(SessionRemoves(s, c))

FairLifeSpec == LifeSpec /\ LifeFairness

-----------------------------------------------------------------------------
(* Properties.                                                              *)

\* The variables keep their types, those of CServer too.
LifeTypeOK ==
  /\ TypeOK
  /\ isMonitoring \in BOOLEAN
  /\ shouldStop \in BOOLEAN
  /\ monitoringThread \in {"none", "running", "returned"}
  /\ mainpc \in {"start", "building", "built", "running", "leaving", "destroyContext",
                 "exit", "joinSystemMonitor", "joinMonitoring", "joinThreads",
                 "destroyContexts", "done", "aborted"}
  /\ tpc \in {"none", "build", "start", "loop", "ended"}
  /\ statics \in SeqOf({"pool", "monitor"}, 2)
  /\ gone \subseteq {"server", "monitor"}
  /\ dangling \subseteq gone

\* A session that was closed, by one of its coroutines or because its frames are
\* destroyed at exit, leaves the map, whenever in the shutdown that happens.
ClosedRemoved ==
  \A s \in Sessions : s \in isStop ~> (s \notin sessions \/ mainpc = "aborted")

\* The process ends after main has returned: the destructors join a thread that
\* itself ends a thread, and sessions that are just being closed.
ExitEnds == mainpc \in {"leaving", "exit"} ~> mainpc \in {"done", "aborted"}

\* No session uses the server after it was destroyed: README.md:26 promises safe
\* establishing and closing of connections.  Refuted by every shutdown: the
\* session that waits for the next client outlives the server.
ServerAlive == "server" \notin dangling

\* The process ends without std::terminate and without using a destroyed static
\* object: README.md:25 promises comprehensive management of resources.  Refuted:
\* if the monitor's constructor ends after the pool's, it is destroyed first, and
\* its thread still runs.
CleanExit == mainpc # "aborted" /\ "monitor" \notin dangling
=============================================================================

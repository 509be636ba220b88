------------------------ MODULE AdvancedSystemMonitor ------------------------
(***************************************************************************)
(* AdvancedSystemMonitor.cpp: the thread that samples the load.            *)
(*                                                                         *)
(* startMonitoring and stopMonitoring exchange isMonitoring, so that each  *)
(* thread started is joined; the thread runs monitoringLoop until it sees  *)
(* one of the flags.  Its samples and histories do not matter here: the    *)
(* histories are never read and the load is any value in AsioProactors.    *)
(***************************************************************************)

VARIABLES
  isMonitoring, shouldStop,
  monitoringThread   \* the std::thread: "none" if it is not joinable

monitoringVars == <<isMonitoring, shouldStop, monitoringThread>>

MonitoringInit ==
  /\ isMonitoring = FALSE
  /\ shouldStop = FALSE
  /\ monitoringThread = "none"

-----------------------------------------------------------------------------
(* Faulty variants of single actions, used by no specification here.        *)

\* The flags are left alone, and the thread joined all the same.
StopMonitoringUnset ==
  /\ isMonitoring
  /\ UNCHANGED monitoringVars

-----------------------------------------------------------------------------
\* if (!isMonitoring.exchange(true)) { shouldStop = false; ... std::thread(...) }
StartMonitoring ==
  /\ ~isMonitoring
  /\ isMonitoring' = TRUE
  /\ shouldStop' = FALSE
  /\ monitoringThread' = "running"

\* if (isMonitoring.exchange(false)) { shouldStop = true; ...
StopMonitoring ==
  /\ isMonitoring
  /\ isMonitoring' = FALSE
  /\ shouldStop' = TRUE
  /\ UNCHANGED monitoringThread

\* ... monitoringThread.join(); }
JoinMonitoring ==
  /\ monitoringThread = "returned"
  /\ monitoringThread' = "none"
  /\ UNCHANGED <<isMonitoring, shouldStop>>

\* while (!shouldStop && isMonitoring)
LoopEnds ==
  /\ monitoringThread = "running"
  /\ shouldStop \/ ~isMonitoring
  /\ monitoringThread' = "returned"
  /\ UNCHANGED <<isMonitoring, shouldStop>>
==============================================================================

--------------------------- MODULE LifecycleProofs ---------------------------
(***************************************************************************)
(* Proofs about Lifecycle, for every set of sessions.                      *)
(*                                                                         *)
(* Most steps of a session, and all of the accept loop, are those of       *)
(* CServer, so its lemmas carry over.  The one step of the process that    *)
(* is not is DestroyFrames, which closes and removes a session at once:    *)
(* ShutdownInv says that it meets no session half closed.                  *)
(***************************************************************************)
EXTENDS Lifecycle, CServerProofs, SequenceTheorems

\* No I/O thread is within close() once the contexts are destroyed, and neither
\* static object is built twice.
ShutdownInv ==
  /\ mainpc = "destroyContexts" => closing = {}
  /\ statics \in {<<>>, <<"pool">>, <<"monitor">>,
                  <<"pool", "monitor">>, <<"monitor", "pool">>}
  /\ mainpc \in {"start", "building"} => statics \in {<<>>, <<"monitor">>}
  /\ tpc \in {"none", "build"} => statics \in {<<>>, <<"pool">>}
  /\ mainpc = "start" => tpc = "none"
  /\ tpc = "none" => mainpc \in {"start", "exit", "done"} /\ statics = <<>>

\* The steps of the process that are steps of CServer.
LEMMA ServerSteps ==
  LifeNext => [Next]_vars \/ \E s \in Sessions : DestroyFrames(s)
<1> SUFFICES ASSUME LifeNext, ~ \E s \in Sessions : DestroyFrames(s) PROVE [Next]_vars
  OBVIOUS
<1>1. CASE Main
  <2>1. CASE DestroyContext
    BY <2>1 DEF DestroyContext, Next, Acceptor
  <2> QED
    BY <1>1, <2>1 DEF Main, BuildPool, PoolBuilt, RunServer, MainThrows, DestroyServer,
      DestroyMonitor, DestroyPool, CallStopMonitoring, StopMonitoringReturns,
      JoinThreads, PoolGone, Exit
<1>2. CASE Signal \/ SystemMonitorThread \/ MonitoringLoop
  BY <1>2 DEF Signal, SystemMonitorThread, BuildMonitor, CallStartMonitoring,
    SystemMonitorEnds, MonitoringLoop
<1>3. CASE Accepting
  BY <1>3 DEF Accepting, Next
<1>4. ASSUME NEW s \in Sessions, NEW c \in Coroutines,
             SessionCloses(s, c) \/ SessionRemoves(s, c)
      PROVE  [Next]_vars
  BY <1>4 DEF SessionCloses, SessionRemoves, Next
<1> QED
  BY <1>1, <1>2, <1>3, <1>4 DEF LifeNext

-----------------------------------------------------------------------------
(* The types.                                                               *)

Orders == {<<>>, <<"pool">>, <<"monitor">>, <<"pool", "monitor">>, <<"monitor", "pool">>}

\* Every order in which the two objects can be built is a sequence of the type.
LEMMA OrdersTyped == Orders \subseteq SeqOf({"pool", "monitor"}, 2)
BY DEF Orders, SeqOf

\* What building one more object and destroying the newest one leaves.
LEMMA BuildAndDestroy ==
  ASSUME NEW a \in {"pool", "monitor"}, NEW b \in {"pool", "monitor"}
  PROVE  /\ Append(<<>>, a) = <<a>> /\ Front(<<a>>) = <<>> /\ Last(<<a>>) = a
         /\ Append(<<a>>, b) = <<a, b>> /\ Front(<<a, b>>) = <<a>> /\ Last(<<a, b>>) = b
<1> DEFINE S == {"pool", "monitor"}
<1>1. <<a>> \in Seq(S) /\ <<a, b>> \in Seq(S) /\ <<>> \in Seq(S)
  OBVIOUS
<1>2. Append(<<>>, a) = <<a>>
  OBVIOUS
<1>3. Append(<<a>>, b) = <<a, b>>
  <2>1. /\ Append(<<a>>, b) \in Seq(S) /\ Len(Append(<<a>>, b)) = 2
        /\ Append(<<a>>, b)[1] = a /\ Append(<<a>>, b)[2] = b
    BY <1>1, AppendProperties
  <2>2. \A i \in 1 .. Len(Append(<<a>>, b)) : Append(<<a>>, b)[i] = <<a, b>>[i]
    BY <2>1
  <2>3. Len(<<a, b>>) = 2
    OBVIOUS
  <2> HIDE DEF S
  <2> QED
    BY <1>1, <2>1, <2>2, <2>3, SeqEqual
<1>4. Front(<<a>>) = <<>>
  BY SubSeqEmpty DEF Front
<1>5. Front(<<a, b>>) = <<a>>
  <2>1. Front(<<a, b>>) = SubSeq(<<a, b>>, 1, 1)
    BY DEF Front
  <2>2. /\ SubSeq(<<a, b>>, 1, 1) \in Seq(S) /\ Len(SubSeq(<<a, b>>, 1, 1)) = 1
        /\ SubSeq(<<a, b>>, 1, 1)[1] = a
    BY SubSeqProperties
  <2> QED
    BY <1>1, <2>1, <2>2, SeqEqual
<1>6. Last(<<a>>) = a /\ Last(<<a, b>>) = b
  BY DEF Last
<1> QED
  BY <1>2, <1>3, <1>4, <1>5, <1>6

LEMMA ShutdownInit == LifeInit => ShutdownInv
BY DEF LifeInit, Init, ShutdownInv

\* The order in which the static objects are built, and the end of the I/O threads.
LEMMA ShutdownStep == LifeTypeOK /\ ShutdownInv /\ [LifeNext]_lifeVars => ShutdownInv'
<1> SUFFICES ASSUME LifeTypeOK, ShutdownInv, [LifeNext]_lifeVars PROVE ShutdownInv'
  OBVIOUS
<1> USE DEF ShutdownInv, Uses
<1>1. CASE BuildPool \/ RunServer \/ MainThrows
  BY <1>1 DEF BuildPool, RunServer, MainThrows, vars
<1>2. CASE PoolBuilt
  BY <1>2, BuildAndDestroy DEF PoolBuilt, vars
<1>3. CASE DestroyServer \/ Signal
  BY <1>3 DEF DestroyServer, Signal, vars
<1>4. CASE DestroyContext
  BY <1>4 DEF DestroyContext, AcceptFails, vars
<1>5. CASE DestroyMonitor
  BY <1>5, BuildAndDestroy DEF DestroyMonitor, Newest, vars
<1>6. CASE DestroyPool
  BY <1>6, BuildAndDestroy DEF DestroyPool, Newest, vars
<1>7. CASE CallStopMonitoring \/ StopMonitoringReturns
  BY <1>7 DEF CallStopMonitoring, StopMonitoringReturns, vars
<1>8. CASE JoinThreads \/ PoolGone \/ Exit
  BY <1>8 DEF JoinThreads, PoolGone, Exit, vars
<1>9. ASSUME NEW s \in Sessions, DestroyFrames(s) PROVE ShutdownInv'
  BY <1>9 DEF DestroyFrames
<1>10. CASE SystemMonitorThread
  <2>1. CASE BuildMonitor
    BY <2>1, BuildAndDestroy DEF BuildMonitor, vars
  <2>2. CASE CallStartMonitoring \/ SystemMonitorEnds
    BY <2>2 DEF CallStartMonitoring, SystemMonitorEnds, vars
  <2> QED
    BY <1>10, <2>1, <2>2 DEF SystemMonitorThread
<1>11. CASE MonitoringLoop
  BY <1>11 DEF MonitoringLoop, mainVars, vars
<1>12. CASE Accepting
  BY <1>12 DEF Accepting, mainVars
\* Once the I/O threads are joined, no coroutine runs.
<1>13. ASSUME NEW s \in Sessions, NEW c \in Coroutines,
              SessionCloses(s, c) \/ SessionRemoves(s, c)
       PROVE  ShutdownInv'
  BY <1>13 DEF SessionCloses, SessionRemoves, IoRuns, mainVars
<1>14. CASE UNCHANGED lifeVars
  BY <1>14 DEF lifeVars, vars, mainVars
<1> QED
  BY <1>1, <1>2, <1>3, <1>4, <1>5, <1>6, <1>7, <1>8, <1>9, <1>10, <1>11, <1>12, <1>13, <1>14
     DEF LifeNext, Main

\* Every variable of the process keeps its type.
LEMMA LifeTypeInit == LifeInit => LifeTypeOK
BY TypeInit, OrdersTyped DEF LifeInit, MonitoringInit, LifeTypeOK, Orders

\* Destroying the frames of a session keeps the types of the server.
LEMMA DestroyFramesTyped ==
  ASSUME TypeOK, NEW s \in Sessions, DestroyFrames(s)
  PROVE  TypeOK'
<1>1. Decrement(connections) \in 0..(SizeLimit - 1)
  BY Modulo DEF TypeOK
<1> QED
  BY <1>1 DEF TypeOK, DestroyFrames

\* The types of everything but the server and the list of static objects.
ProcessTypeOK ==
  /\ isMonitoring \in BOOLEAN
  /\ shouldStop \in BOOLEAN
  /\ monitoringThread \in {"none", "running", "returned"}
  /\ mainpc \in {"start", "building", "built", "running", "leaving", "destroyContext",
                 "exit", "joinSystemMonitor", "joinMonitoring", "joinThreads",
                 "destroyContexts", "done", "aborted"}
  /\ tpc \in {"none", "build", "start", "loop", "ended"}
  /\ gone \subseteq {"server", "monitor"}
  /\ dangling \subseteq gone

LEMMA ProcessTypeStep == ProcessTypeOK /\ [LifeNext]_lifeVars => ProcessTypeOK'
<1> SUFFICES ASSUME ProcessTypeOK, [LifeNext]_lifeVars PROVE ProcessTypeOK'
  OBVIOUS
<1> USE DEF ProcessTypeOK, Uses, monitoringVars, mainVars
<1>1. CASE BuildPool \/ PoolBuilt \/ RunServer \/ MainThrows
  BY <1>1 DEF BuildPool, PoolBuilt, RunServer, MainThrows
<1>2. CASE DestroyServer \/ DestroyContext
  BY <1>2 DEF DestroyServer, DestroyContext, vars
<1>3. CASE DestroyMonitor \/ DestroyPool
  BY <1>3 DEF DestroyMonitor, DestroyPool
<1>4. CASE CallStopMonitoring
  <2>1. isMonitoring' = FALSE /\ shouldStop' = TRUE /\ monitoringThread' = monitoringThread
    BY <1>4 DEF CallStopMonitoring, StopMonitoring
  <2>2. isMonitoring' \in BOOLEAN /\ shouldStop' \in BOOLEAN
    BY <2>1, Zenon
  <2> QED
    BY <1>4, <2>1, <2>2 DEF CallStopMonitoring
<1>5. CASE StopMonitoringReturns
  BY <1>5 DEF StopMonitoringReturns, JoinMonitoring
<1>6. CASE JoinThreads \/ PoolGone \/ Exit
  BY <1>6 DEF JoinThreads, PoolGone, Exit
<1>7. ASSUME NEW s \in Sessions, DestroyFrames(s) PROVE ProcessTypeOK'
  BY <1>7 DEF DestroyFrames
<1>8. CASE Signal
  BY <1>8 DEF Signal
<1>9. CASE SystemMonitorThread
  BY <1>9 DEF SystemMonitorThread, BuildMonitor, CallStartMonitoring, StartMonitoring,
    SystemMonitorEnds
<1>10. CASE MonitoringLoop
  BY <1>10 DEF MonitoringLoop, LoopEnds
<1>11. CASE Accepting
  BY <1>11 DEF Accepting
<1>12. ASSUME NEW s \in Sessions, NEW c \in Coroutines,
              SessionCloses(s, c) \/ SessionRemoves(s, c)
       PROVE  ProcessTypeOK'
  BY <1>12, ZenonT(60) DEF SessionCloses, SessionRemoves
<1>13. CASE UNCHANGED lifeVars
  BY <1>13 DEF lifeVars
<1> HIDE DEF ProcessTypeOK
<1> QED
  BY <1>1, <1>2, <1>3, <1>4, <1>5, <1>6, <1>7, <1>8, <1>9, <1>10, <1>11, <1>12, <1>13
     DEF LifeNext, Main

\* Every step keeps the types.
LEMMA LifeTypeStep == LifeTypeOK /\ ShutdownInv /\ [LifeNext]_lifeVars => LifeTypeOK'
<1> SUFFICES ASSUME LifeTypeOK, ShutdownInv, [LifeNext]_lifeVars PROVE LifeTypeOK'
  OBVIOUS
<1>1. TypeOK'
  <2>1. CASE LifeNext
    BY <2>1, ServerSteps, TypeStep, DestroyFramesTyped DEF LifeTypeOK
  <2>2. CASE UNCHANGED lifeVars
    BY <2>2, TypeStep DEF lifeVars, LifeTypeOK
  <2> QED
    BY <2>1, <2>2
<1>2. statics' \in SeqOf({"pool", "monitor"}, 2)
  BY ShutdownStep, OrdersTyped DEF ShutdownInv, Orders
<1>3. ProcessTypeOK'
  BY ProcessTypeStep DEF LifeTypeOK, ProcessTypeOK
<1> QED
  BY <1>1, <1>2, <1>3 DEF LifeTypeOK, ProcessTypeOK

-----------------------------------------------------------------------------
(* The registry, while the process shuts down.                              *)

\* Nobody is within close(), so a session whose frames are destroyed is either
\* closed and removed, or neither.
LEMMA DestroyFramesRegistry ==
  ASSUME TypeOK, RegistryInv, ShutdownInv, NEW s \in Sessions, DestroyFrames(s)
  PROVE  /\ RegistryInv'
         /\ s \notin isStop => s \in sessions
<1>1. /\ s \in made \ session /\ closing = {} /\ closing' = {}
      /\ running' = running \ ({s} \X Coroutines)
      /\ isStop' = isStop \cup {s}
      /\ UNCHANGED <<apc, session, made>>
  BY DEF DestroyFrames, ShutdownInv, RegistryInv, SessionInv
<1>2. s \in sessions <=> s \notin isStop
  BY <1>1 DEF RegistryInv, RegistryExact, SessionInv
<1>3. sessions' = sessions \ {s}
  BY <1>2 DEF DestroyFrames
<1>4. SessionInv'
  BY <1>1 DEF RegistryInv, SessionInv
<1>5. RegistryExact'
  BY <1>1, <1>2, <1>3 DEF RegistryInv, RegistryExact, TypeOK, SessionInv
<1>6. OneCloser'
  BY <1>1 DEF OneCloser
<1> QED
  BY <1>2, <1>4, <1>5, <1>6 DEF RegistryInv

\* What holds in every state of the process.
LifeInv ==
  /\ LifeTypeOK
  /\ ShutdownInv
  /\ RegistryInv
  /\ CountInv

LEMMA LifeInvStep == LifeInv /\ [LifeNext]_lifeVars => LifeInv'
<1> SUFFICES ASSUME LifeInv, [LifeNext]_lifeVars PROVE LifeInv'
  OBVIOUS
<1>1. LifeTypeOK' /\ ShutdownInv' /\ TypeOK
  BY LifeTypeStep, ShutdownStep DEF LifeInv, LifeTypeOK
<1>2. CASE [Next]_vars
  BY <1>1, <1>2, RegistryStep, CountStep DEF LifeInv
<1>3. ASSUME NEW s \in Sessions, DestroyFrames(s) PROVE RegistryInv' /\ CountInv'
  <2>1. RegistryInv' /\ (s \notin isStop => s \in sessions)
    BY <1>1, <1>3, DestroyFramesRegistry DEF LifeInv
  <2>2. ASSUME s \in isStop PROVE CountInv'
    BY <1>3, <2>2 DEF DestroyFrames, LifeInv, CountInv, Uncounted
  <2>3. ASSUME s \notin isStop PROVE CountInv'
    <3>1. /\ s \in sessions /\ sessions' = sessions \ {s}
          /\ connections' = Decrement(connections) /\ apc' = apc
      BY <1>3, <2>1, <2>3 DEF DestroyFrames
    <3> QED
      BY <1>1, <3>1, UncountStep DEF LifeInv
  <2> QED
    BY <2>1, <2>2, <2>3
<1>4. [Next]_vars \/ \E s \in Sessions : DestroyFrames(s)
  BY ServerSteps DEF lifeVars
<1> QED
  BY <1>1, <1>2, <1>3, <1>4 DEF LifeInv

LEMMA LifeCorrect == LifeSpec => []LifeInv
<1>1. LifeInit => LifeInv
  BY LifeTypeInit, ShutdownInit, RegistryInit, CountInit DEF LifeInit, LifeInv
<1> QED
  BY <1>1, LifeInvStep, PTL DEF LifeSpec

\* Every variable keeps its type; dangling holds destroyed objects only.
THEOREM LifeTypeCorrect == LifeSpec => []LifeTypeOK
<1>1. LifeInv => LifeTypeOK
  BY DEF LifeInv
<1> QED
  BY <1>1, LifeCorrect, PTL

\* The map holds the accepted sessions that are not closed, until the process
\* ends: no session is lost or comes back while contexts and frames are destroyed.
THEOREM LifeRegistryExact == LifeSpec => []RegistryExact
<1>1. LifeInv => RegistryExact
  BY DEF LifeInv, RegistryInv
<1> QED
  BY <1>1, LifeCorrect, PTL

\* No session is removed both by a coroutine and by its destructor.
THEOREM LifeOneCloser == LifeSpec => []OneCloser
<1>1. LifeInv => OneCloser
  BY DEF LifeInv, RegistryInv
<1> QED
  BY <1>1, LifeCorrect, PTL

\* connections still follows the size of the map when the sessions are removed by
\* their destructors, the accepting one included, which was never inserted.
THEOREM LifeConnectionsExact == LifeSpec => []ConnectionsExact
<1>1. LifeInv => ConnectionsExact
  BY CountExact DEF LifeInv, LifeTypeOK
<1> QED
  BY <1>1, LifeCorrect, PTL

\* When the contexts destroy the frames of the sessions, no session is within
\* close(): JoinThreads has waited for the I/O threads.
THEOREM NoneHalfClosed == LifeSpec => [](mainpc = "destroyContexts" => closing = {})
<1>1. LifeInv => (mainpc = "destroyContexts" => closing = {})
  BY DEF LifeInv, ShutdownInv
<1> QED
  BY <1>1, LifeCorrect, PTL
=============================================================================

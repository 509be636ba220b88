------------------------------- MODULE MCParts -------------------------------
(***************************************************************************)
(* Four parts that share no state, side by side in one run for TLC: the    *)
(* pool of I/O threads (AsioProactors), the task pool (SessionSendThread), *)
(* messages on a stream (Framing) and the copy routines (FastMemcpy).  In  *)
(* a behaviour one part moves and the others keep their first state.       *)
(***************************************************************************)
EXTENDS AsioProactors, SessionSendThread, Framing, FastMemcpy

VARIABLE part   \* the part that moves

partVars == <<vars, sendVars, frameVars, copyVars, part>>

\* Bytes of one bit, lengths of two: the last body is one byte too long.
MCBodies == {<<>>, <<1>>, <<0, 1>>, <<1, 0, 1>>, <<0, 1, 0, 1>>}

\* The tables of memcpy_tiny are whole; the limits of the others are smaller.
MCSizes == 0..600

MCInit ==
  /\ part \in {"io pool", "tasks", "frames", "copies"}
  /\ Init
  /\ SendInit
  /\ FrameInit
  /\ IF part = "copies" THEN CopyInit
     ELSE /\ routine = "sse2" /\ dst = 0 /\ src = 0 /\ size = 0
          /\ stage = "called" /\ offset = 0 /\ moves = {}

In(p, action) == part = p /\ action

PoolMoves == In("io pool", Next) /\ UNCHANGED <<sendVars, frameVars, copyVars, part>>
TasksMove == In("tasks", SendNext) /\ UNCHANGED <<vars, frameVars, copyVars, part>>
FramesMove == In("frames", FrameNext) /\ UNCHANGED <<vars, sendVars, copyVars, part>>
CopiesMove == In("copies", CopyNext) /\ UNCHANGED <<vars, sendVars, frameVars, part>>

MCNext == PoolMoves \/ TasksMove \/ FramesMove \/ CopiesMove

MCSpec == MCInit /\ [][MCNext]_partVars

\* The fairness of AsioProactors, while it moves, and that of the threads of the
\* task pool: a thread that can take its next step takes it.
MCFairness ==
  /\ WF_vars(In("io pool", Monitor))
  /\ WF_vars(In("io pool", Choosing))
  /\ WF_vars(In("io pool", Stop))
  /\ \A i \in Slots : WF_vars(In("io pool", RunReturns(i)))
  /\ \A w \in Workers : WF_sendVars(In("tasks", Work(w)))
  /\ WF_sendVars(In("tasks", NotifyAll))
  /\ WF_sendVars(In("tasks", JoinAll))

MCFairSpec == MCSpec /\ MCFairness

-----------------------------------------------------------------------------
(* The other properties are stated in the modules of the parts.             *)

\* AsioProactors, SessionSendThread, Framing: the variables keep their types.
PartsTypeOK == TypeOK /\ PoolTypeOK /\ FramingTypeOK
==============================================================================

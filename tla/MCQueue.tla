------------------------------- MODULE MCQueue -------------------------------
(***************************************************************************)
(* The three parts of concurrentqueue.h for TLC, side by side in one run:  *)
(* in a behaviour one part moves and the others keep their first state.    *)
(* The producers move in two ways: three threads that enqueue for the      *)
(* first time together, or two whose ids are used again and again.         *)
(***************************************************************************)
EXTENDS ConcurrentQueue, FreeList, ImplicitProducers, TLC

CONSTANTS c1, c2, b1, b2, t3

VARIABLE part

partVars == <<vars, listVars, ownerVars, part>>

MCSymmetry == Permutations({c1, c2}) \cup Permutations({b1, b2})

MCInit ==
  /\ part \in {"sub-queue", "free list", "crowd", "lives"}
  /\ Init
  /\ ListInit
  /\ ProducersInit

SubQueueMoves ==
  part = "sub-queue" /\ Next /\ UNCHANGED <<listVars, ownerVars, part>>
ListMoves ==
  part = "free list" /\ ListNext /\ UNCHANGED <<vars, ownerVars, part>>
CrowdMoves ==
  part = "crowd" /\ ProducersNext /\ starts' <= 3 /\ UNCHANGED <<vars, listVars, part>>
LivesMove ==
  part = "lives" /\ ProducersNext /\ ipc'[t3] = "none" /\ UNCHANGED <<vars, listVars, part>>

MCNext == SubQueueMoves \/ ListMoves \/ CrowdMoves \/ LivesMove

MCSpec == MCInit /\ [][MCNext]_partVars
==============================================================================

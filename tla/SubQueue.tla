------------------------------ MODULE SubQueue ------------------------------
(***************************************************************************)
(* What the sub-queue of one producing thread promises (concurrentqueue.h: *)
(* enqueue and try_dequeue): a first-in first-out queue with an atomic put *)
(* and an atomic take.  Each consumer returns the element it took, so each *)
(* element is returned to one consumer only.  The element enqueued after n *)
(* others is the number n.                                                 *)
(*                                                                         *)
(* When try_dequeue may fail is said by ConcurrentQueue's FailsExcused.    *)
(***************************************************************************)
EXTENDS Naturals, Sequences

CONSTANTS
  Consumers,  \* threads that call try_dequeue
  Nothing     \* not an element

VARIABLES
  put,        \* elements enqueued so far
  queue,      \* those nobody took yet, the oldest first
  holds       \* the element each consumer took and has not returned

vars == <<put, queue, holds>>

Init ==
  /\ put = 0
  /\ queue = <<>>
  /\ holds = [c \in Consumers |-> Nothing]

\* enqueue(item)
Put ==
  /\ put' = put + 1
  /\ queue' = Append(queue, put)
  /\ UNCHANGED holds

\* try_dequeue(item): the instant at which the element leaves the queue ...
Take(c) ==
  /\ holds[c] = Nothing
  /\ queue # <<>>
  /\ queue' = Tail(queue)
  /\ holds' = [holds EXCEPT ![c] = Head(queue)]
  /\ UNCHANGED put

\* ... and the one at which it is in item, and true is returned.
Return(c) ==
  /\ holds[c] # Nothing
  /\ holds' = [holds EXCEPT ![c] = Nothing]
  /\ UNCHANGED <<put, queue>>

Next == Put \/ \E c \in Consumers : Take(c) \/ Return(c)

Spec == Init /\ [][Next]_vars
=============================================================================

-------------------------- MODULE MessageDelivery --------------------------
(***************************************************************************)
(* What LogicSystem promises to the sessions that post to it: the callback *)
(* of a posted message runs once, if the message's id has a callback, and  *)
(* never for any other message.  Which thread runs it, in which order and  *)
(* how threads are woken is left open.                                     *)
(***************************************************************************)
EXTENDS Naturals

CONSTANTS
  Messages,  \* every message a session may post
  Known      \* those whose id has a callback

VARIABLES posted, replies

vars == <<posted, replies>>

Init ==
  /\ posted = {}
  /\ replies = [m \in Messages |-> 0]

\* postMessageToQueue
Post(m) ==
  /\ m \notin posted
  /\ posted' = posted \cup {m}
  /\ UNCHANGED replies

\* callBackFunctions[node->id](node->session, node->id, node->data)
Answer(m) ==
  /\ m \in posted
  /\ replies[m] = 0
  /\ replies' = [replies EXCEPT ![m] = 1]
  /\ UNCHANGED posted

Next == (\E m \in Messages : Post(m)) \/ (\E m \in Known : Answer(m))

Fairness == \A m \in Known : WF_vars(Answer(m))

Spec == Init /\ [][Next]_vars
FairSpec == Spec /\ Fairness
=============================================================================

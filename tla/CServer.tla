------------------------------ MODULE CServer ------------------------------
(***************************************************************************)
(* CServer.cpp: the accept loop and the registry of open sessions.         *)
(*                                                                         *)
(* The accept coroutine runs on main's io_context: it makes a session,     *)
(* waits for a client, inserts the session in the map under a bucket       *)
(* mutex, counts it and calls start().  Each started session's reader and  *)
(* writer coroutines (on the session's I/O thread) end on their own; the   *)
(* one that fails calls CSession::close, whose removeSession takes the     *)
(* session out of the map and uncounts it under the same mutex.  Sections  *)
(* under the mutex are single actions.  connections is a size_t.           *)
(***************************************************************************)
EXTENDS Integers, FiniteSets

CONSTANTS
  Sessions,    \* the sessions the server makes, in any order
  SizeLimit    \* connections counts modulo SizeLimit (2^64 in the code)

ASSUME SizeLimitAssumption == SizeLimit \in Nat \ {0}
ASSUME SessionsAssumption == IsFiniteSet(Sessions) /\ Cardinality(Sessions) < SizeLimit

Coroutines == {"reader", "writer"}
NoSession == {}   \* between two rounds of the accept loop

VARIABLES
  apc,           \* where the accept coroutine is
  session,       \* its local variable: {} or {s}
  made,          \* sessions made so far
  sessions,      \* the map, all its buckets together
  connections,   \* connections
  isStop,        \* sessions whose isStop is set
  running,       \* coroutines of started sessions that have not returned
  closing        \* coroutines between the compare-exchange of close() and removeSession

vars == <<apc, session, made, sessions, connections, isStop, running, closing>>

Init ==
  /\ apc = "make"
  /\ session = NoSession
  /\ made = {}
  /\ sessions = {}
  /\ connections = 0
  /\ isStop = {}
  /\ running = {}
  /\ closing = {}

-----------------------------------------------------------------------------
(* Faulty variants of single actions, used by no specification here.        *)

\* The width of size_t is left out.
DecrementNoWrap(n) == n - 1

\* start() is called before the session is in the map.
AcceptStartsFirst ==
  /\ apc = "accept"
  /\ apc' = "insert"
  /\ running' = running \cup (session \X Coroutines)
  /\ UNCHANGED <<session, made, sessions, connections, isStop, closing>>

\* close() has no compare-exchange: both coroutines may go on to removeSession.
CloseTwice(s, c) ==
  /\ <<s, c>> \in running
  /\ isStop' = isStop \cup {s}
  /\ closing' = closing \cup {<<s, c>>}
  /\ running' = running \ {<<s, c>>}
  /\ UNCHANGED <<apc, session, made, sessions, connections>>

\* connections++ and connections--
Increment(n) == (n + 1) % SizeLimit
Decrement(n) == (n + SizeLimit - 1) % SizeLimit

-----------------------------------------------------------------------------
(* The accept coroutine.                                                    *)

\* std::make_shared<CSession>(ioContext, this)
Make ==
  /\ apc = "make"
  /\ \E s \in Sessions \ made :
       /\ session' = {s}
       /\ made' = made \cup {s}
  /\ apc' = "accept"
  /\ UNCHANGED <<sessions, connections, isStop, running, closing>>

\* It throws, for lack of memory or in the constructor: the coroutine ends for good.
MakeFails ==
  /\ apc = "make"
  /\ apc' = "ended"
  /\ UNCHANGED <<session, made, sessions, connections, isStop, running, closing>>

\* co_await c_accept.async_accept(...) completes.
Accept ==
  /\ apc = "accept"
  /\ apc' = "insert"
  /\ UNCHANGED <<session, made, sessions, connections, isStop, running, closing>>

\* It throws, or the insertion after it: the coroutine ends for good.  Its session
\* is destroyed, and ~CSession calls close(), which uncounts a session that was
\* never counted.
AcceptFails ==
  /\ apc \in {"accept", "insert"}
  /\ apc' = "dead"
  /\ isStop' = isStop \cup session
  /\ session' = NoSession
  /\ connections' = Decrement(connections)
  /\ UNCHANGED <<made, sessions, running, closing>>

\* sessions[hashValue].insert(...) under the bucket's mutex.
Insert ==
  /\ apc = "insert"
  /\ sessions' = sessions \cup session
  /\ apc' = "count"
  /\ UNCHANGED <<session, made, connections, isStop, running, closing>>

\* connections++, after the mutex was released.
Count ==
  /\ apc = "count"
  /\ connections' = Increment(connections)
  /\ apc' = "start"
  /\ UNCHANGED <<session, made, sessions, isStop, running, closing>>

\* session->start(), and the next round of the loop.
StartSession ==
  /\ apc = "start"
  /\ running' = running \cup (session \X Coroutines)
  /\ session' = NoSession
  /\ apc' = "make"
  /\ UNCHANGED <<made, sessions, connections, isStop, closing>>

-----------------------------------------------------------------------------
(* The sessions.                                                            *)

\* A coroutine fails and calls close(): the compare-exchange on isStop lets one
\* of the two on to removeSession; the other just returns.
CloseSession(s, c) ==
  /\ <<s, c>> \in running
  /\ \/ /\ s \notin isStop
        /\ isStop' = isStop \cup {s}
        /\ closing' = closing \cup {<<s, c>>}
     \/ /\ s \in isStop
        /\ UNCHANGED <<isStop, closing>>
  /\ running' = running \ {<<s, c>>}
  /\ UNCHANGED <<apc, session, made, sessions, connections>>

\* removeSession: erase and connections--, under the bucket's mutex.
RemoveSession(s, c) ==
  /\ <<s, c>> \in closing
  /\ closing' = closing \ {<<s, c>>}
  /\ sessions' = sessions \ {s}
  /\ connections' = Decrement(connections)
  /\ UNCHANGED <<apc, session, made, isStop, running>>

-----------------------------------------------------------------------------
Acceptor ==
  Make \/ MakeFails \/ Accept \/ AcceptFails \/ Insert \/ Count \/ StartSession
Next ==
  \/ Acceptor
  \/ \E s \in Sessions, c \in Coroutines : CloseSession(s, c) \/ RemoveSession(s, c)

Spec == Init /\ [][Next]_vars

-----------------------------------------------------------------------------
(* Properties.                                                              *)

TypeOK ==
  /\ apc \in {"make", "accept", "insert", "count", "start", "dead", "ended"}
  /\ session \subseteq Sessions
  /\ made \subseteq Sessions
  /\ sessions \subseteq Sessions
  /\ connections \in 0..(SizeLimit - 1)
  /\ isStop \subseteq Sessions
  /\ running \subseteq Sessions \X Coroutines
  /\ closing \subseteq Sessions \X Coroutines

\* connections is the size of the map, although insert and count are separate
\* steps and both coroutines of a session may close it: it lags behind by the
\* session between insert and count, and is one less, modulo the width of
\* size_t, once an accept has failed.
ConnectionsExact ==
  connections = (Cardinality(sessions) + SizeLimit
                   - (IF apc \in {"count", "dead"} THEN 1 ELSE 0)) % SizeLimit

\* The map holds the accepted sessions that are not closed yet: none is lost, a
\* closed one is about to be removed and never comes back after that.
RegistryExact ==
  \A s \in Sessions :
    s \in sessions <=>
      \/ s \in session /\ apc \in {"count", "start"}
      \/ s \in made \ (session \cup isStop)
      \/ \E c \in Coroutines : <<s, c>> \in closing

\* Whoever has a session closes it once, so no session is removed by two
\* coroutines and every removal finds its session in the map.
OneCloser ==
  /\ \A x, y \in closing : x[1] = y[1] => x = y
  /\ \A x \in closing : x[1] \in sessions /\ x[1] \in isStop
=============================================================================

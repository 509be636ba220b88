---------------------------- MODULE CServerProofs ----------------------------
(***************************************************************************)
(* Proofs about CServer, for every set of sessions.                        *)
(*                                                                         *)
(* SessionInv says which sessions the accept coroutine, the coroutines of  *)
(* started sessions and close() may hold at the same time; RegistryExact   *)
(* and OneCloser depend on each other and are inductive with it.           *)
(***************************************************************************)
EXTENDS CServer, TLAPS, FiniteSetTheorems

\* The accept coroutine has at most one session, which nobody else has yet.
SessionInv ==
  /\ session \subseteq made
  /\ isStop \subseteq made \ session
  /\ \A s, t \in session : s = t
  /\ apc \in {"make", "dead", "ended"} => session = {}
  /\ apc \in {"accept", "insert", "count", "start"} => session # {}
  /\ \A x \in running \cup closing : x[1] \in made \ session
  /\ \A x \in closing : x[1] \in isStop

RegistryInv ==
  /\ SessionInv
  /\ RegistryExact
  /\ OneCloser

\* Counting modulo SizeLimit, for a count of at most SizeLimit - 1.
LEMMA Modulo ==
  ASSUME NEW n \in 0..(SizeLimit - 1)
  PROVE  /\ n % SizeLimit = n
         /\ (n + SizeLimit) % SizeLimit = n
         /\ (SizeLimit - 1) % SizeLimit = SizeLimit - 1
         /\ Increment(n) = IF n = SizeLimit - 1 THEN 0 ELSE n + 1
         /\ Decrement(n) = IF n = 0 THEN SizeLimit - 1 ELSE n - 1
         /\ Increment(n) \in 0..(SizeLimit - 1)
         /\ Decrement(n) \in 0..(SizeLimit - 1)
BY SizeLimitAssumption, SMTT(30) DEF Increment, Decrement

\* The type invariant is inductive.
LEMMA TypeInit == Init => TypeOK
BY SizeLimitAssumption DEF Init, TypeOK, NoSession

LEMMA TypeStep == TypeOK /\ [Next]_vars => TypeOK'
<1> SUFFICES ASSUME TypeOK, [Next]_vars PROVE TypeOK'
  OBVIOUS
<1>1. /\ Increment(connections) \in 0..(SizeLimit - 1)
      /\ Decrement(connections) \in 0..(SizeLimit - 1)
  BY Modulo DEF TypeOK
<1> USE DEF TypeOK, NoSession
<1>2. CASE Make \/ MakeFails \/ Accept \/ Insert
  BY <1>2 DEF Make, MakeFails, Accept, Insert
<1>3. CASE AcceptFails \/ Count
  BY <1>1, <1>3 DEF AcceptFails, Count
<1>4. CASE StartSession
  BY <1>4 DEF StartSession
<1>5. ASSUME NEW s \in Sessions, NEW c \in Coroutines, CloseSession(s, c) PROVE TypeOK'
  BY <1>5 DEF CloseSession
<1>6. ASSUME NEW s \in Sessions, NEW c \in Coroutines, RemoveSession(s, c) PROVE TypeOK'
  BY <1>1, <1>6 DEF RemoveSession
<1>7. CASE UNCHANGED vars
  BY <1>7 DEF vars
<1> QED
  BY <1>2, <1>3, <1>4, <1>5, <1>6, <1>7 DEF Next, Acceptor

-----------------------------------------------------------------------------
(* The registry.                                                            *)

\* The initial states satisfy the registry's invariant.
LEMMA RegistryInit == Init => RegistryInv
BY DEF Init, RegistryInv, SessionInv, RegistryExact, OneCloser, NoSession

\* Every step preserves it.
LEMMA RegistryStep == TypeOK /\ RegistryInv /\ [Next]_vars => RegistryInv'
<1> SUFFICES ASSUME TypeOK, RegistryInv, [Next]_vars PROVE RegistryInv'
  OBVIOUS
<1> USE DEF TypeOK, RegistryInv, SessionInv, RegistryExact, OneCloser, NoSession
<1>1. CASE Make \/ MakeFails
  BY <1>1 DEF Make, MakeFails
<1>2. CASE Accept
  BY <1>2 DEF Accept
<1>3. CASE AcceptFails
  BY <1>3 DEF AcceptFails
<1>4. CASE Insert
  BY <1>4 DEF Insert
<1>5. CASE Count
  BY <1>5 DEF Count
<1>6. CASE StartSession
  BY <1>6 DEF StartSession
<1>7. ASSUME NEW s \in Sessions, NEW c \in Coroutines, CloseSession(s, c)
      PROVE  RegistryInv'
  <2>1. /\ <<s, c>> \in running /\ s \in made \ session
        /\ running' = running \ {<<s, c>>}
        /\ UNCHANGED <<apc, session, made, sessions, connections>>
    BY <1>7 DEF CloseSession
  <2>2. CASE s \in isStop
    <3>1. UNCHANGED <<isStop, closing>>
      BY <1>7, <2>2 DEF CloseSession
    <3> QED
      BY <2>1, <3>1
  <2>3. CASE s \notin isStop
    <3>1. isStop' = isStop \cup {s} /\ closing' = closing \cup {<<s, c>>}
      BY <1>7, <2>3 DEF CloseSession
    <3>2. s \in sessions
      BY <2>1, <2>3
    <3>3. \A x \in closing : x[1] # s
      BY <2>3
    <3>4. SessionInv'
      BY <2>1, <3>1
    <3>5. RegistryExact'
      BY <2>1, <3>1, <3>2
    <3>6. OneCloser'
      BY <2>1, <3>1, <3>2, <3>3
    <3> QED
      BY <3>4, <3>5, <3>6
  <2> QED
    BY <2>2, <2>3
<1>8. ASSUME NEW s \in Sessions, NEW c \in Coroutines, RemoveSession(s, c)
      PROVE  RegistryInv'
  BY <1>8 DEF RemoveSession
<1>9. CASE UNCHANGED vars
  BY <1>9 DEF vars
<1> QED
  BY <1>1, <1>2, <1>3, <1>4, <1>5, <1>6, <1>7, <1>8, <1>9 DEF Next, Acceptor

\* The invariants hold in every reachable state.
LEMMA RegistryCorrect == Spec => [](TypeOK /\ RegistryInv)
<1>1. TypeOK /\ RegistryInv /\ [Next]_vars => (TypeOK /\ RegistryInv)'
  BY TypeStep, RegistryStep
<1> QED
  BY <1>1, TypeInit, RegistryInit, PTL DEF Spec

\* Every variable keeps its type; connections never leaves its width.
THEOREM TypeCorrect == Spec => []TypeOK
BY RegistryCorrect, PTL

\* No accepted session is missing from the map and no removed one comes back,
\* for any number of sessions that close in any order.
THEOREM RegistryIsExact == Spec => []RegistryExact
<1>1. RegistryInv => RegistryExact
  BY DEF RegistryInv
<1> QED
  BY <1>1, RegistryCorrect, PTL

\* The reader and the writer of a session never both remove it.
THEOREM OneCloserCorrect == Spec => []OneCloser
<1>1. RegistryInv => OneCloser
  BY DEF RegistryInv
<1> QED
  BY <1>1, RegistryCorrect, PTL
-----------------------------------------------------------------------------
(* The counter.                                                             *)

\* The map never holds as many sessions as connections can count.
LEMMA SessionsCount ==
  ASSUME NEW S \in SUBSET Sessions
  PROVE  /\ IsFiniteSet(S) /\ Cardinality(S) \in 0..(SizeLimit - 1)
         /\ \A s \in S : /\ Cardinality(S \ {s}) = Cardinality(S) - 1
                        /\ Cardinality(S) > 0
         /\ \A s \in Sessions \ S : Cardinality(S \cup {s}) = Cardinality(S) + 1
<1>1. IsFiniteSet(S) /\ Cardinality(S) <= Cardinality(Sessions)
  BY SessionsAssumption, FS_Subset
<1>2. Cardinality(S) \in Nat /\ Cardinality(Sessions) \in Nat
  BY <1>1, SessionsAssumption, FS_CardinalityType
<1>3. Cardinality(S) \in 0..(SizeLimit - 1)
  BY <1>1, <1>2, SessionsAssumption, SizeLimitAssumption
<1>4. ASSUME NEW s \in S
      PROVE  Cardinality(S \ {s}) = Cardinality(S) - 1 /\ Cardinality(S) > 0
  <2>1. IsFiniteSet(S \ {s}) /\ Cardinality(S \ {s}) = Cardinality(S) - 1
    BY <1>1, FS_RemoveElement
  <2>2. Cardinality(S \ {s}) \in Nat
    BY <2>1, FS_CardinalityType
  <2> QED
    BY <1>2, <2>1, <2>2
<1>5. ASSUME NEW s \in Sessions \ S PROVE Cardinality(S \cup {s}) = Cardinality(S) + 1
  BY <1>1, FS_AddElement
<1> QED
  BY <1>1, <1>3, <1>4, <1>5

\* What ConnectionsExact says without a modulus.
Uncounted == apc \in {"count", "dead"}
CountInv ==
  connections =
    IF ~Uncounted THEN Cardinality(sessions)
    ELSE IF sessions = {} THEN SizeLimit - 1 ELSE Cardinality(sessions) - 1

LEMMA CountInit == Init => CountInv
BY FS_EmptySet DEF Init, CountInv, Uncounted

\* Taking a session out of the map and uncounting it, whoever does it.
LEMMA UncountStep ==
  ASSUME TypeOK, CountInv, NEW s \in sessions,
         sessions' = sessions \ {s}, connections' = Decrement(connections), apc' = apc
  PROVE  CountInv'
<1> USE SizeLimitAssumption DEF CountInv, Uncounted
<1>1. Cardinality(sessions) \in Nat /\ Cardinality({}) = 0
  BY SessionsCount, FS_EmptySet DEF TypeOK
<1>2. /\ Cardinality(sessions \ {s}) = Cardinality(sessions) - 1
      /\ Cardinality(sessions) > 0
      /\ sessions \ {s} # {} => Cardinality(sessions \ {s}) > 0
  BY SessionsCount DEF TypeOK
<1>3. connections' = IF connections = 0 THEN SizeLimit - 1 ELSE connections - 1
  BY Modulo DEF TypeOK
<1>4. Uncounted' <=> Uncounted
  OBVIOUS
<1>5. CASE sessions \ {s} = {}
  <2>1. Cardinality(sessions \ {s}) = 0
    BY <1>1, <1>5, Zenon
  <2>2. Cardinality(sessions) = 1 /\ sessions # {}
    BY <1>1, <1>2, <2>1
  <2>3. sessions' = {} /\ Cardinality(sessions)' = 0
    BY <1>5, <2>1, Zenon
  <2>4. connections = IF ~Uncounted THEN 1 ELSE 0
    BY <2>2
  <2>5. CASE Uncounted
    <3>1. connections = 0
      BY <2>4, <2>5
    <3>2. connections' = SizeLimit - 1
      BY <1>3, <3>1
    <3> QED
      BY <1>4, <2>3, <2>5, <3>2
  <2>6. CASE ~Uncounted
    <3>1. connections = 1
      BY <2>4, <2>6
    <3>2. connections' = 0
      BY <1>3, <3>1
    <3> QED
      BY <1>4, <2>3, <2>6, <3>2
  <2> QED
    BY <2>5, <2>6
<1>6. CASE sessions \ {s} # {}
  <2>1. Cardinality(sessions) > 1
    BY <1>1, <1>2, <1>6
  <2>2. sessions # {} /\ sessions' # {} /\ Cardinality(sessions)' = Cardinality(sessions) - 1
    BY <1>2, <1>6
  <2> QED
    BY <1>1, <1>3, <2>1, <2>2
<1> QED
  BY <1>5, <1>6

LEMMA CountStep == TypeOK /\ RegistryInv /\ CountInv /\ [Next]_vars => CountInv'
<1> SUFFICES ASSUME TypeOK, RegistryInv, CountInv, [Next]_vars PROVE CountInv'
  OBVIOUS
<1> USE SizeLimitAssumption DEF CountInv, Uncounted
<1>1. /\ Cardinality(sessions) \in 0..(SizeLimit - 1)
      /\ Cardinality({}) = 0
      /\ sessions # {} => Cardinality(sessions) > 0
  BY SessionsCount, FS_EmptySet DEF TypeOK
<1>2. connections \in 0..(SizeLimit - 1)
  BY DEF TypeOK
<1>3. CASE Make \/ MakeFails \/ Accept \/ StartSession
  BY <1>3 DEF Make, MakeFails, Accept, StartSession
<1>4. CASE AcceptFails
  <2>1. connections' = Decrement(connections) /\ connections = Cardinality(sessions)
        /\ sessions' = sessions /\ apc' = "dead"
    BY <1>4 DEF AcceptFails
  <2>2. connections' = IF connections = 0 THEN SizeLimit - 1 ELSE connections - 1
    BY <1>2, <2>1, Modulo
  <2> QED
    BY <1>1, <1>2, <2>1, <2>2
\* The session inserted was not in the map.
<1>5. CASE Insert
  <2>1. PICK s \in session : session = {s}
    BY <1>5 DEF Insert, RegistryInv, SessionInv
  <2>2. \A c \in Coroutines : <<s, c>> \notin closing
    BY DEF RegistryInv, SessionInv
  <2>3. s \in Sessions \ sessions
    BY <1>5, <2>2 DEF Insert, TypeOK, RegistryInv, RegistryExact
  <2>4. Cardinality(sessions \cup {s}) = Cardinality(sessions) + 1
    BY <2>3, SessionsCount DEF TypeOK
  <2>5. sessions' = sessions \cup {s} /\ apc = "insert" /\ apc' = "count"
        /\ connections' = connections
    BY <1>5, <2>1 DEF Insert
  <2> QED
    BY <1>1, <2>4, <2>5
\* The session counted is in the map.
<1>6. CASE Count
  <2>1. sessions # {}
    BY <1>6 DEF Count, TypeOK, RegistryInv, SessionInv, RegistryExact
  <2>2. connections' = Increment(connections) /\ connections = Cardinality(sessions) - 1
    BY <1>6, <2>1 DEF Count
  <2> QED
    BY <1>1, <1>2, <1>6, <2>1, <2>2, Modulo DEF Count
<1>7. ASSUME NEW s \in Sessions, NEW c \in Coroutines, CloseSession(s, c) PROVE CountInv'
  BY <1>7 DEF CloseSession
\* The session removed is in the map, because nobody else removes it.
<1>8. ASSUME NEW s \in Sessions, NEW c \in Coroutines, RemoveSession(s, c) PROVE CountInv'
  <2>1. s \in sessions
    BY <1>8 DEF RemoveSession, RegistryInv, OneCloser
  <2>2. sessions' = sessions \ {s} /\ connections' = Decrement(connections) /\ apc' = apc
    BY <1>8 DEF RemoveSession
  <2> QED
    BY <2>1, <2>2, UncountStep
<1>9. CASE UNCHANGED vars
  BY <1>9 DEF vars
<1> QED
  BY <1>3, <1>4, <1>5, <1>6, <1>7, <1>8, <1>9 DEF Next, Acceptor

\* That invariant is what ConnectionsExact says.
LEMMA CountExact == TypeOK /\ CountInv => ConnectionsExact
<1> SUFFICES ASSUME TypeOK, CountInv PROVE ConnectionsExact
  OBVIOUS
<1>1. /\ Cardinality(sessions) \in 0..(SizeLimit - 1)
      /\ Cardinality({}) = 0
      /\ sessions # {} => Cardinality(sessions) > 0
  BY SessionsCount, FS_EmptySet DEF TypeOK
<1>2. CASE ~Uncounted
  BY <1>1, <1>2, SizeLimitAssumption, Modulo DEF CountInv, ConnectionsExact, Uncounted
<1>3. CASE Uncounted /\ sessions = {}
  BY <1>1, <1>3, SizeLimitAssumption, Modulo DEF CountInv, ConnectionsExact, Uncounted
<1>4. CASE Uncounted /\ sessions # {}
  <2>1. /\ Cardinality(sessions) - 1 \in 0..(SizeLimit - 1)
        /\ Cardinality(sessions) + SizeLimit - 1 = (Cardinality(sessions) - 1) + SizeLimit
    BY <1>1, <1>4, SizeLimitAssumption
  <2>2. (Cardinality(sessions) + SizeLimit - 1) % SizeLimit = Cardinality(sessions) - 1
    BY <2>1, Modulo
  <2> QED
    BY <1>4, <2>2 DEF CountInv, ConnectionsExact, Uncounted
<1> QED
  BY <1>2, <1>3, <1>4

\* connections follows the size of the map, for every number of sessions and
\* every width of the counter.
THEOREM ConnectionsCorrect == Spec => []ConnectionsExact
<1>1. TypeOK /\ RegistryInv /\ CountInv /\ [Next]_vars => CountInv'
  BY CountStep
<1> QED
  BY <1>1, CountExact, CountInit, RegistryCorrect, PTL DEF Spec
=============================================================================

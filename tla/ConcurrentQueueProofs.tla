------------------------ MODULE ConcurrentQueueProofs ------------------------
(***************************************************************************)
(* Proofs about ConcurrentQueue, for any number of consumers, blocks and   *)
(* elements.                                                               *)
(*                                                                         *)
(* 1. The tickets.  A consumer judges its ticket t by counters it read at  *)
(* different times.  The overcommit count it subtracts was read before it  *)
(* took t, so that many of the tickets below t are bad.  Hence, if limit - *)
(* 1 is the highest good ticket, the good ones are at most limit less the  *)
(* bad ones below limit, which is at most tailIndex: what ClaimsCovered    *)
(* says.  The state does not keep the sets of good and of bad tickets; the *)
(* invariant says that there are such sets.                                *)
(*                                                                         *)
(* 2. Failing is excused: FailsExcused.                                    *)
(*                                                                         *)
(* 3. The blocks.  BlocksInv says which keys the block index has, in what  *)
(* order, and how many elements of each block were claimed and moved out:  *)
(* RightElement, BlockOwned and TypeOK follow.                             *)
(*                                                                         *)
(* 4. The sub-queue is a first-in first-out queue: Implements.             *)
(***************************************************************************)
EXTENDS ConcurrentQueue, TLAPS, FiniteSetTheorems, SequenceTheorems

Claiming == {c \in Consumers : cpc[c] = "claim"}
Reading == {c \in Consumers : cpc[c] \in {"optimistic", "ticket"}}
Rechecking == {c \in Consumers : cpc[c] = "recheck"}
Undecided == {c \in Consumers : cpc[c] \in {"recheck", "giveBack"}}

Below(S, n) == {t \in S : t < n}

\* The variables of the ticket protocol, and their types.
CountersOK ==
  /\ tailIndex \in Nat
  /\ headIndex \in Nat
  /\ optimistic \in Nat
  /\ overcommit \in Nat
  /\ cpc = [c \in Consumers |-> cpc[c]]
  /\ local = [c \in Consumers |-> local[c]]
  /\ \A c \in Consumers :
       /\ {"tail", "overcommit", "ticket"} \subseteq DOMAIN local[c]
       /\ local[c].tail \in Nat
       /\ local[c].overcommit \in Nat
       /\ local[c].ticket \in Nat

\* good are the tickets that were judged good, bad those that were given back.
TicketInv(good, bad, limit) ==
  /\ good \cap bad = {}
  /\ good \subseteq 0..(optimistic - 1)
  /\ bad \subseteq 0..(optimistic - 1)
  /\ Cardinality(good) = headIndex + Cardinality(Claiming)
  /\ Cardinality(bad) = overcommit
  /\ good \subseteq 0..(limit - 1)
  /\ limit - Cardinality(Below(bad, limit)) <= tailIndex
  /\ \A c \in Undecided : /\ local[c].ticket < optimistic
                          /\ local[c].ticket \notin good \cup bad
  /\ \A c, d \in Undecided : local[c].ticket = local[d].ticket => c = d
  /\ \A c \in Reading : local[c].overcommit <= overcommit
  /\ \A c \in Rechecking :
       local[c].overcommit <= Cardinality(Below(bad, local[c].ticket))

TicketsCounted ==
  \E good \in SUBSET Nat, bad \in SUBSET Nat, limit \in Nat : TicketInv(good, bad, limit)

-----------------------------------------------------------------------------
(* Sets of tickets.                                                         *)

\* Any tickets taken so far are finitely many, and so are those below another.
LEMMA TicketsFinite ==
  ASSUME NEW n \in Nat, NEW S \in SUBSET (0..(n - 1))
  PROVE  /\ IsFiniteSet(S) /\ Cardinality(S) \in Nat /\ Cardinality(S) <= n
         /\ \A m \in Nat : /\ IsFiniteSet(Below(S, m))
                           /\ Cardinality(Below(S, m)) \in Nat
         /\ Below(S, n) = S
<1>1. IsFiniteSet(0..(n - 1)) /\ Cardinality(0..(n - 1)) = n
  BY FS_Interval
<1>2. IsFiniteSet(S) /\ Cardinality(S) <= n
  BY <1>1, FS_Subset
<1>3. ASSUME NEW m \in Nat
      PROVE  IsFiniteSet(Below(S, m)) /\ Cardinality(Below(S, m)) \in Nat
  <2>1. Below(S, m) \subseteq S
    BY DEF Below
  <2> QED
    BY <1>2, <2>1, FS_Subset, FS_CardinalityType
<1>4. Cardinality(S) \in Nat
  BY <1>2, FS_CardinalityType
<1>5. Below(S, n) = S
  <2>1. \A t \in S : t < n
    OBVIOUS
  <2> QED
    BY <2>1 DEF Below
<1> QED
  BY <1>2, <1>3, <1>4, <1>5

\* More tickets, or a higher bound, leave no fewer below it.
LEMMA BelowGrows ==
  ASSUME NEW n \in Nat, NEW S \in SUBSET (0..(n - 1)), NEW T \in SUBSET S,
         NEW m \in Nat, NEW k \in 0..m
  PROVE  Cardinality(Below(T, k)) <= Cardinality(Below(S, m))
<1>1. Below(T, k) \subseteq Below(S, m)
  <2>1. ASSUME NEW t \in Below(T, k) PROVE t \in S /\ t < m
    <3>1. t \in S /\ t \in Int /\ t < k /\ k \in Int /\ k <= m
      BY DEF Below
    <3> QED
      BY <3>1
  <2> QED
    BY <2>1 DEF Below
<1>2. IsFiniteSet(Below(S, m))
  BY TicketsFinite
<1> QED
  BY <1>1, <1>2, FS_Subset

\* Good tickets below limit are no more than limit less the bad ones there.
LEMMA GoodBounded ==
  ASSUME NEW limit \in Nat, NEW n \in Nat, NEW good \in SUBSET (0..(limit - 1)),
         NEW bad \in SUBSET (0..(n - 1)), good \cap bad = {}
  PROVE  Cardinality(good) <= limit - Cardinality(Below(bad, limit))
<1> DEFINE both == good \cup Below(bad, limit)
<1>1. both \subseteq 0..(limit - 1) /\ good \cap Below(bad, limit) = {}
  <2>1. ASSUME NEW t \in Below(bad, limit) PROVE t \in 0..(limit - 1)
    <3>1. t \in Nat /\ t < limit
      BY DEF Below
    <3> QED
      BY <3>1
  <2>2. good \cap Below(bad, limit) = {}
    BY DEF Below
  <2> QED
    BY <2>1, <2>2
<1>2. Cardinality(both) <= limit
  BY <1>1, TicketsFinite
<1>3. /\ IsFiniteSet(good) /\ Cardinality(good) \in Nat
      /\ IsFiniteSet(Below(bad, limit)) /\ Cardinality(Below(bad, limit)) \in Nat
  BY TicketsFinite
<1>4. Cardinality(both) = Cardinality(good) + Cardinality(Below(bad, limit)) - Cardinality({})
  BY <1>1, <1>3, FS_Union
<1> QED
  BY <1>2, <1>3, <1>4, FS_EmptySet

-----------------------------------------------------------------------------
(* The counters.                                                            *)

LEMMA CountersInit == Init => CountersOK
BY DEF Init, CountersOK, Fresh

\* A consumer's step changes its own place and local variables only.
LEMMA CountersStep == CountersOK /\ [Next]_vars => CountersOK'
<1> SUFFICES ASSUME CountersOK, [Next]_vars PROVE CountersOK'
  OBVIOUS
<1> USE DEF CountersOK, producerVars, counterVars, consumerVars, blockVars
<1>1. CASE Producer
  BY <1>1 DEF Producer, InsertKey, InsertTail, GrowIndex, Requisition, RewindValue,
    StoreValue, Publish
<1>2. ASSUME NEW c \in Consumers, Ticket(c) PROVE CountersOK'
  <2> USE DEF At, Return, Fresh
  <2>1. CASE ReadSizeTail(c) \/ ReadSizeHead(c) \/ ReadTail(c)
    BY <2>1 DEF ReadSizeTail, ReadSizeHead, ReadTail
  <2>2. CASE ReadOvercommit(c)
    BY <2>2 DEF ReadOvercommit
  <2>3. CASE ReadOptimistic(c)
    BY <2>3 DEF ReadOptimistic
  <2>4. CASE TakeTicket(c)
    <3>1. /\ cpc' = [cpc EXCEPT ![c] = "recheck"]
          /\ local' = [local EXCEPT ![c].ticket = optimistic]
          /\ optimistic' = optimistic + 1
          /\ UNCHANGED <<tailIndex, headIndex, overcommit>>
      BY <2>4 DEF TakeTicket
    <3>2. optimistic' \in Nat
      BY <3>1
    <3> QED
      BY <3>1, <3>2
  <2>5. CASE Recheck(c) \/ GiveBack(c)
    BY <2>5 DEF Recheck, GiveBack
  <2> QED
    BY <1>2, <2>1, <2>2, <2>3, <2>4, <2>5 DEF Ticket
<1>3. ASSUME NEW c \in Consumers, Dequeue(c) PROVE CountersOK'
  <2> USE DEF At, Return, Fresh
  <2>1. CASE Claim(c)
    <3>1. /\ cpc' = [cpc EXCEPT ![c] = "header"]
          /\ local' = [local EXCEPT ![c] = [Fresh EXCEPT !.index = headIndex]]
          /\ headIndex' = headIndex + 1
          /\ UNCHANGED <<tailIndex, optimistic, overcommit>>
      BY <2>1 DEF Claim
    <3>2. headIndex' \in Nat
      BY <3>1
    <3> PICK r : r = [Fresh EXCEPT !.index = headIndex]
      OBVIOUS
    <3>3. {"tail", "overcommit", "ticket"} \subseteq DOMAIN r
          /\ r.tail \in Nat /\ r.overcommit \in Nat /\ r.ticket \in Nat
      OBVIOUS
    <3>4. local' = [local EXCEPT ![c] = r]
      BY <3>1
    <3> QED
      BY <3>1, <3>2, <3>3, <3>4, ZenonT(60)
  <2>2. CASE ReadHeader(c) \/ ReadSlot(c)
    <3>1. /\ \E here \in {"slot", "key"} : cpc' = [cpc EXCEPT ![c] = here]
          /\ \E n : \/ local' = [local EXCEPT ![c].header = n]
                    \/ local' = [local EXCEPT ![c].slot = n]
          /\ UNCHANGED <<tailIndex, headIndex, optimistic, overcommit>>
      BY <2>2 DEF ReadHeader, ReadSlot
    <3>2. cpc' = [d \in Consumers |-> cpc'[d]] /\ local' = [d \in Consumers |-> local'[d]]
      BY <3>1
    <3>3. \A d \in Consumers :
            /\ {"tail", "overcommit", "ticket"} \subseteq DOMAIN local'[d]
            /\ local'[d].tail = local[d].tail
            /\ local'[d].overcommit = local[d].overcommit
            /\ local'[d].ticket = local[d].ticket
      BY <3>1
    <3> QED
      BY <3>1, <3>2, <3>3
  <2>3. CASE ReadKey(c) \/ ReadValue(c)
    <3>1. /\ \E here : cpc' = [cpc EXCEPT ![c] = here]
          /\ \E n : \/ local' = [local EXCEPT ![c].entry = n]
                    \/ local' = [local EXCEPT ![c].block = n]
          /\ UNCHANGED <<tailIndex, headIndex, optimistic, overcommit>>
      BY <2>3 DEF ReadKey, ReadValue
    <3>2. cpc' = [d \in Consumers |-> cpc'[d]] /\ local' = [d \in Consumers |-> local'[d]]
      BY <3>1
    <3>3. \A d \in Consumers :
            /\ {"tail", "overcommit", "ticket"} \subseteq DOMAIN local'[d]
            /\ local'[d].tail = local[d].tail
            /\ local'[d].overcommit = local[d].overcommit
            /\ local'[d].ticket = local[d].ticket
      BY <3>1
    <3> QED
      BY <3>1, <3>2, <3>3
  <2>4. CASE MoveElement(c)
    BY <2>4 DEF MoveElement
  <2>5. CASE SetEmpty(c) \/ Unlink(c) \/ FreeBlock(c)
    BY <2>5 DEF SetEmpty, Unlink, FreeBlock
  <2> QED
    BY <1>3, <2>1, <2>2, <2>3, <2>4, <2>5 DEF Dequeue
<1>4. CASE UNCHANGED vars
  BY <1>4 DEF vars
<1> QED
  BY <1>1, <1>2, <1>3, <1>4 DEF Next

-----------------------------------------------------------------------------
(* The tickets.                                                             *)

\* No ticket was taken yet.
LEMMA TicketsInit == Init => TicketsCounted
<1> SUFFICES ASSUME Init PROVE TicketsCounted
  OBVIOUS
<1>1. /\ Claiming = {} /\ Reading = {} /\ Rechecking = {} /\ Undecided = {}
      /\ Below({}, 0) = {} /\ Cardinality({}) = 0
  BY FS_EmptySet DEF Init, Claiming, Reading, Rechecking, Undecided, Below
<1>2. tailIndex = 0 /\ headIndex = 0 /\ overcommit = 0
  BY DEF Init
<1>3. TicketInv({}, {}, 0)
  BY <1>1, <1>2 DEF TicketInv
<1> QED
  BY <1>3 DEF TicketsCounted

\* The tickets there are leave no claim without an element.
LEMMA TicketsCover == CountersOK /\ TicketsCounted => ClaimsCovered
<1> SUFFICES ASSUME CountersOK, TicketsCounted PROVE ClaimsCovered
  OBVIOUS
<1>1. PICK good \in SUBSET Nat, bad \in SUBSET Nat, limit \in Nat :
        TicketInv(good, bad, limit)
  BY DEF TicketsCounted
<1>2. Cardinality(good) <= limit - Cardinality(Below(bad, limit))
  BY <1>1, GoodBounded DEF TicketInv, CountersOK
<1>3. Cardinality(good) \in Nat /\ Cardinality(Below(bad, limit)) \in Nat
  BY <1>1, TicketsFinite DEF TicketInv, CountersOK
<1>4. /\ Cardinality(good) = headIndex + Cardinality(Claiming)
      /\ limit - Cardinality(Below(bad, limit)) <= tailIndex
  BY <1>1 DEF TicketInv
<1>5. Cardinality(good) <= tailIndex
  BY <1>2, <1>3, <1>4 DEF CountersOK
<1> QED
  BY <1>4, <1>5 DEF ClaimsCovered, Claiming

\* A step that takes, judges well, gives back and claims no ticket.
LEMMA QuietStep ==
  ASSUME CountersOK, CountersOK', TicketsCounted,
         tailIndex' >= tailIndex, UNCHANGED <<headIndex, optimistic, overcommit>>,
         Claiming' = Claiming,
         Undecided' \subseteq Undecided,
         Rechecking' \subseteq Rechecking,
         \A c \in Undecided' : /\ local'[c].ticket = local[c].ticket
                               /\ local'[c].overcommit = local[c].overcommit,
         \A c \in Reading' : local'[c].overcommit <= overcommit
  PROVE  TicketsCounted'
<1>1. PICK good \in SUBSET Nat, bad \in SUBSET Nat, limit \in Nat :
        TicketInv(good, bad, limit)
  BY DEF TicketsCounted
<1>2. Rechecking' \subseteq Undecided'
  BY DEF Rechecking, Undecided
<1>3. limit - Cardinality(Below(bad, limit)) <= tailIndex'
  <2>1. Cardinality(Below(bad, limit)) \in Nat
    BY <1>1, TicketsFinite DEF TicketInv, CountersOK
  <2> QED
    BY <1>1, <2>1 DEF TicketInv, CountersOK
<1>4. TicketInv(good, bad, limit)'
  BY <1>1, <1>2, <1>3 DEF TicketInv
<1> QED
  BY <1>4 DEF TicketsCounted

\* A new ticket is above the bad ones counted so far.
LEMMA TakeStep ==
  ASSUME CountersOK, CountersOK', TicketsCounted, NEW c \in Consumers, TakeTicket(c)
  PROVE  TicketsCounted'
<1>1. PICK good \in SUBSET Nat, bad \in SUBSET Nat, limit \in Nat :
        TicketInv(good, bad, limit)
  BY DEF TicketsCounted
<1>2. /\ cpc[c] = "ticket" /\ cpc' = [cpc EXCEPT ![c] = "recheck"]
      /\ local' = [local EXCEPT ![c].ticket = optimistic]
      /\ optimistic' = optimistic + 1
      /\ UNCHANGED <<tailIndex, headIndex, overcommit>>
  BY DEF TakeTicket, At, producerVars
<1>3. /\ Claiming' = Claiming
      /\ Reading' = Reading \ {c} /\ c \in Reading
      /\ Rechecking' = Rechecking \cup {c}
      /\ Undecided' = Undecided \cup {c} /\ c \notin Undecided
  BY <1>2 DEF Claiming, Reading, Rechecking, Undecided, CountersOK
<1>4. /\ local'[c].ticket = optimistic
      /\ local'[c].overcommit = local[c].overcommit
      /\ \A d \in Consumers \ {c} : local'[d] = local[d]
  BY <1>2 DEF CountersOK
<1>5. Below(bad, optimistic) = bad /\ Cardinality(bad) = overcommit
  BY <1>1, TicketsFinite DEF TicketInv, CountersOK
<1>6. /\ good \subseteq 0..(optimistic' - 1)
      /\ bad \subseteq 0..(optimistic' - 1)
      /\ optimistic < optimistic' /\ optimistic \notin good \cup bad
  BY <1>1, <1>2 DEF TicketInv, CountersOK
<1>7. \A d \in Undecided' : /\ local'[d].ticket < optimistic'
                            /\ local'[d].ticket \notin good \cup bad
  BY <1>1, <1>2, <1>3, <1>4, <1>6 DEF TicketInv, CountersOK, Undecided
<1>8. \A d, e \in Undecided' : local'[d].ticket = local'[e].ticket => d = e
  <2>1. \A d \in Undecided : /\ d \in Consumers /\ d # c
                             /\ local'[d].ticket = local[d].ticket
                             /\ local[d].ticket # optimistic
    BY <1>1, <1>3, <1>4 DEF TicketInv, CountersOK, Undecided
  <2>2. \A d, e \in Undecided : local[d].ticket = local[e].ticket => d = e
    BY <1>1 DEF TicketInv
  <2> QED
    BY <1>3, <1>4, <2>1, <2>2
<1>9. \A d \in Rechecking' :
        local'[d].overcommit <= Cardinality(Below(bad, local'[d].ticket))
  BY <1>1, <1>3, <1>4, <1>5 DEF TicketInv, Rechecking
<1>10. \A d \in Reading' : local'[d].overcommit <= overcommit'
  BY <1>1, <1>2, <1>3, <1>4 DEF TicketInv, Reading
<1>11. TicketInv(good, bad, limit)'
  BY <1>1, <1>2, <1>3, <1>6, <1>7, <1>8, <1>9, <1>10 DEF TicketInv
<1> QED
  BY <1>11 DEF TicketsCounted

\* A ticket judged good may be the highest one: the bad ones it was told of are
\* below it.
LEMMA JudgeStep ==
  ASSUME CountersOK, CountersOK', TicketsCounted, NEW c \in Consumers, Recheck(c)
  PROVE  TicketsCounted'
<1>1. PICK good \in SUBSET Nat, bad \in SUBSET Nat, limit \in Nat :
        TicketInv(good, bad, limit)
  BY DEF TicketsCounted
<1>2. /\ cpc[c] = "recheck"
      /\ UNCHANGED <<tailIndex, headIndex, optimistic, overcommit, local>>
  BY DEF Recheck, At, producerVars, counterVars
<1>3. CASE cpc' = [cpc EXCEPT ![c] = "giveBack"]
  <2>1. /\ Claiming' = Claiming
        /\ Undecided' = Undecided
        /\ Rechecking' \subseteq Rechecking
        /\ Reading' = Reading
    BY <1>2, <1>3 DEF Claiming, Reading, Rechecking, Undecided, CountersOK
  <2>2. \A d \in Reading' : local'[d].overcommit <= overcommit
    BY <1>1, <1>2, <2>1 DEF TicketInv
  <2>3. tailIndex' >= tailIndex
    BY <1>2 DEF CountersOK
  <2> QED
    BY <1>2, <2>1, <2>2, <2>3, QuietStep
<1>4. CASE /\ cpc' = [cpc EXCEPT ![c] = "claim"]
           /\ local[c].ticket - local[c].overcommit < tailIndex
  <2>1. PICK t \in Nat : t = local[c].ticket
    BY DEF CountersOK
  <2>2. PICK top \in Nat : top = IF t < limit THEN limit ELSE t + 1
    OBVIOUS
  <2>3. /\ Claiming' = Claiming \cup {c} /\ c \notin Claiming
        /\ Undecided' = Undecided \ {c} /\ c \in Undecided
        /\ Rechecking' = Rechecking \ {c} /\ c \in Rechecking
        /\ Reading' = Reading
    BY <1>2, <1>4 DEF Claiming, Reading, Rechecking, Undecided, CountersOK
  <2>4. /\ t \in 0..(optimistic - 1) /\ t \notin good \cup bad
        /\ local[c].overcommit \in Nat
        /\ local[c].overcommit <= Cardinality(Below(bad, t))
    <3>1. t < optimistic /\ t \notin good \cup bad
      BY <1>1, <2>1, <2>3 DEF TicketInv
    <3>2. t \in 0..(optimistic - 1)
      BY <3>1 DEF CountersOK
    <3>3. local[c].overcommit <= Cardinality(Below(bad, t))
      BY <1>1, <2>1, <2>3 DEF TicketInv
    <3> QED
      BY <3>1, <3>2, <3>3 DEF CountersOK
  <2>5. Cardinality(good \cup {t}) = headIndex' + Cardinality(Claiming')
    <3>1. /\ IsFiniteSet(good) /\ Cardinality(good) \in Nat
          /\ Cardinality(good) = headIndex + Cardinality(Claiming)
      BY <1>1, TicketsFinite DEF TicketInv, CountersOK
    <3>2. Cardinality(good \cup {t}) = Cardinality(good) + 1
      BY <2>4, <3>1, FS_AddElement
    <3>3. IsFiniteSet(Claiming) /\ Cardinality(Claiming) \in Nat
      BY ThreadsAssumption, FS_Subset, FS_CardinalityType DEF Claiming
    <3>4. Cardinality(Claiming \cup {c}) = Cardinality(Claiming) + 1
      BY <2>3, <3>3, FS_AddElement
    <3> QED
      BY <1>2, <2>3, <3>1, <3>2, <3>3, <3>4 DEF CountersOK
  <2>6. good \cup {t} \subseteq 0..(top - 1)
    <3>1. \A x \in good : x \in 0..(top - 1)
      BY <1>1, <2>2 DEF TicketInv
    <3>2. t \in 0..(top - 1)
      BY <2>2
    <3> QED
      BY <3>1, <3>2
  <2>7. top - Cardinality(Below(bad, top)) <= tailIndex
    <3>1. CASE t < limit
      BY <1>1, <2>2, <3>1 DEF TicketInv
    <3>2. CASE ~(t < limit)
      <4>1. top = t + 1 /\ t \in 0..top
        BY <2>2, <3>2
      <4>2. bad \in SUBSET (0..(optimistic - 1)) /\ optimistic \in Nat /\ tailIndex \in Nat
        BY <1>1 DEF TicketInv, CountersOK
      <4>3. Cardinality(Below(bad, t)) <= Cardinality(Below(bad, top))
        BY <4>1, <4>2, BelowGrows
      <4>4. Cardinality(Below(bad, t)) \in Nat /\ Cardinality(Below(bad, top)) \in Nat
        BY <4>2, TicketsFinite
      <4>5. t - local[c].overcommit < tailIndex
        BY <1>4, <2>1
      <4> QED
        BY <2>4, <4>1, <4>2, <4>3, <4>4, <4>5
    <3> QED
      BY <3>1, <3>2
  <2>8. \A d \in Undecided' : local[d].ticket # t
    BY <1>1, <2>1, <2>3 DEF TicketInv
  <2>9. \A d \in Undecided' : /\ local'[d].ticket < optimistic'
                              /\ local'[d].ticket \notin (good \cup {t}) \cup bad
    BY <1>1, <1>2, <2>3, <2>8 DEF TicketInv
  <2>10. /\ (good \cup {t}) \cap bad = {}
         /\ good \cup {t} \subseteq 0..(optimistic' - 1)
         /\ bad \subseteq 0..(optimistic' - 1)
    BY <1>1, <1>2, <2>4 DEF TicketInv
  <2>11. TicketInv(good \cup {t}, bad, top)'
    BY <1>1, <1>2, <2>3, <2>5, <2>6, <2>7, <2>9, <2>10 DEF TicketInv
  <2>12. good \cup {t} \in SUBSET Nat
    OBVIOUS
  <2> QED
    BY <2>11, <2>12 DEF TicketsCounted
<1> QED
  BY <1>3, <1>4 DEF Recheck, At

\* A bad ticket is given back: those that saw fewer bad tickets below theirs still do.
LEMMA GiveBackStep ==
  ASSUME CountersOK, CountersOK', TicketsCounted, NEW c \in Consumers, GiveBack(c)
  PROVE  TicketsCounted'
<1>1. PICK good \in SUBSET Nat, bad \in SUBSET Nat, limit \in Nat :
        TicketInv(good, bad, limit)
  BY DEF TicketsCounted
<1>2. /\ cpc[c] = "giveBack" /\ cpc' = [cpc EXCEPT ![c] = "idle"]
      /\ local' = [local EXCEPT ![c] = Fresh]
      /\ overcommit' = overcommit + 1
      /\ UNCHANGED <<tailIndex, headIndex, optimistic>>
  BY DEF GiveBack, Return, producerVars
<1>3. PICK t \in Nat : t = local[c].ticket
  BY DEF CountersOK
<1>4. /\ Claiming' = Claiming
      /\ Undecided' = Undecided \ {c} /\ c \in Undecided
      /\ Rechecking' = Rechecking /\ c \notin Rechecking
      /\ Reading' = Reading /\ c \notin Reading
      /\ \A d \in Consumers \ {c} : local'[d] = local[d]
  BY <1>2 DEF Claiming, Reading, Rechecking, Undecided, CountersOK
<1>5. t < optimistic /\ t \notin good \cup bad
  BY <1>1, <1>3, <1>4 DEF TicketInv
<1>6. /\ bad \in SUBSET (bad \cup {t})
      /\ bad \in SUBSET (0..(optimistic - 1))
      /\ bad \cup {t} \in SUBSET (0..(optimistic - 1))
      /\ optimistic \in Nat
  <2>1. t \in 0..(optimistic - 1)
    BY <1>5 DEF CountersOK
  <2> QED
    BY <1>1, <2>1 DEF TicketInv, CountersOK
<1>7. Cardinality(bad \cup {t}) = overcommit'
  <2>1. IsFiniteSet(bad) /\ Cardinality(bad) = overcommit
    BY <1>1, <1>6, TicketsFinite DEF TicketInv
  <2> QED
    BY <1>2, <1>5, <2>1, FS_AddElement
\* Every bound is as good as it was.
<1>8. ASSUME NEW m \in Nat
      PROVE  /\ Cardinality(Below(bad, m)) <= Cardinality(Below(bad \cup {t}, m))
             /\ Cardinality(Below(bad, m)) \in Nat
             /\ Cardinality(Below(bad \cup {t}, m)) \in Nat
  <2>1. m \in 0..m
    OBVIOUS
  <2>2. Cardinality(Below(bad, m)) <= Cardinality(Below(bad \cup {t}, m))
    BY <1>6, <2>1, BelowGrows
  <2> QED
    BY <1>6, <2>2, TicketsFinite
<1>9. limit - Cardinality(Below(bad \cup {t}, limit)) <= tailIndex
  <2>1. /\ limit - Cardinality(Below(bad, limit)) <= tailIndex
        /\ tailIndex \in Nat
    BY <1>1 DEF TicketInv, CountersOK
  <2>2. /\ Cardinality(Below(bad, limit)) <= Cardinality(Below(bad \cup {t}, limit))
        /\ Cardinality(Below(bad, limit)) \in Nat
        /\ Cardinality(Below(bad \cup {t}, limit)) \in Nat
    BY <1>8
  <2> QED
    BY <2>1, <2>2
<1>10. ASSUME NEW d \in Rechecking'
       PROVE  local'[d].overcommit <= Cardinality(Below(bad \cup {t}, local'[d].ticket))
  <2>1. /\ local'[d] = local[d]
        /\ local[d].ticket \in Nat /\ local[d].overcommit \in Nat
        /\ local[d].overcommit <= Cardinality(Below(bad, local[d].ticket))
    BY <1>1, <1>4 DEF TicketInv, Rechecking, CountersOK
  <2>2. PICK m \in Nat : m = local[d].ticket
    BY <2>1
  <2>3. /\ Cardinality(Below(bad, m)) <= Cardinality(Below(bad \cup {t}, m))
        /\ Cardinality(Below(bad, m)) \in Nat
        /\ Cardinality(Below(bad \cup {t}, m)) \in Nat
    BY <1>8
  <2> QED
    BY <2>1, <2>2, <2>3
<1>11. ASSUME NEW d \in Reading' PROVE local'[d].overcommit <= overcommit'
  <2>1. /\ local'[d] = local[d] /\ local[d].overcommit \in Nat
        /\ local[d].overcommit <= overcommit
    BY <1>1, <1>4 DEF TicketInv, Reading, CountersOK
  <2>2. overcommit \in Nat /\ overcommit' = overcommit + 1
    BY <1>2 DEF CountersOK
  <2>3. local[d].overcommit <= overcommit + 1
    BY <2>1, <2>2
  <2> QED
    BY <2>1, <2>2, <2>3
<1>12. \A d \in Undecided' : /\ local'[d] = local[d]
                             /\ local[d].ticket < optimistic
                            /\ local[d].ticket \notin good \cup (bad \cup {t})
  BY <1>1, <1>3, <1>4 DEF TicketInv, Undecided
<1>13. \A d, e \in Undecided' : local'[d].ticket = local'[e].ticket => d = e
  BY <1>1, <1>4, <1>12 DEF TicketInv
<1>14. TicketInv(good, bad \cup {t}, limit)'
  BY <1>1, <1>2, <1>4, <1>5, <1>6, <1>7, <1>9, <1>10, <1>11, <1>12, <1>13 DEF TicketInv
<1>15. bad \cup {t} \in SUBSET Nat
  OBVIOUS
<1> QED
  BY <1>14, <1>15 DEF TicketsCounted

\* A claim turns a good ticket into a claimed element.
LEMMA ClaimStep ==
  ASSUME CountersOK, CountersOK', TicketsCounted, NEW c \in Consumers, Claim(c)
  PROVE  TicketsCounted'
<1>1. PICK good \in SUBSET Nat, bad \in SUBSET Nat, limit \in Nat :
        TicketInv(good, bad, limit)
  BY DEF TicketsCounted
<1>2. /\ cpc[c] = "claim" /\ cpc' = [cpc EXCEPT ![c] = "header"]
      /\ local' = [local EXCEPT ![c] = [Fresh EXCEPT !.index = headIndex]]
      /\ headIndex' = headIndex + 1
      /\ UNCHANGED <<tailIndex, optimistic, overcommit>>
  BY DEF Claim, At, producerVars
<1>3. /\ Claiming' = Claiming \ {c} /\ c \in Claiming
      /\ Undecided' = Undecided /\ c \notin Undecided
      /\ Rechecking' = Rechecking /\ Rechecking \subseteq Undecided
      /\ Reading' = Reading /\ c \notin Reading
      /\ \A d \in Consumers \ {c} : local'[d] = local[d]
      /\ Undecided \cup Reading \subseteq Consumers
  BY <1>2 DEF Claiming, Reading, Rechecking, Undecided, CountersOK
<1>4. Cardinality(good) = headIndex' + Cardinality(Claiming')
  <2>1. IsFiniteSet(Claiming) /\ Cardinality(Claiming) \in Nat
    BY ThreadsAssumption, FS_Subset, FS_CardinalityType DEF Claiming
  <2>2. Cardinality(Claiming \ {c}) = Cardinality(Claiming) - 1
    BY <1>3, <2>1, FS_RemoveElement
  <2>3. Cardinality(good) = headIndex + Cardinality(Claiming)
    BY <1>1 DEF TicketInv
  <2> QED
    BY <1>2, <1>3, <2>1, <2>2, <2>3 DEF CountersOK
<1>5. \A d \in Undecided \cup Reading : local'[d] = local[d]
  BY <1>3
<1>6. TicketInv(good, bad, limit)'
  BY <1>1, <1>2, <1>3, <1>4, <1>5 DEF TicketInv
<1> QED
  BY <1>6 DEF TicketsCounted

\* Every step preserves the invariant.
LEMMA TicketsStep ==
  CountersOK /\ TicketsCounted /\ [Next]_vars => TicketsCounted'
<1> SUFFICES ASSUME CountersOK, TicketsCounted, [Next]_vars PROVE TicketsCounted'
  OBVIOUS
<1>0. CountersOK'
  BY CountersStep
<1>1. \A c \in Reading : local[c].overcommit <= overcommit
  BY DEF TicketsCounted, TicketInv
<1> DEFINE Still(Changed) ==
      /\ tailIndex' >= tailIndex
      /\ UNCHANGED <<headIndex, optimistic, overcommit>>
      /\ \A d \in Consumers \ Changed : cpc'[d] = cpc[d] /\ local'[d] = local[d]
<1>2. ASSUME Still({}) PROVE TicketsCounted'
  <2>1. /\ Claiming' = Claiming /\ Undecided' = Undecided /\ Rechecking' = Rechecking
        /\ Reading' = Reading
    BY <1>2 DEF Claiming, Undecided, Rechecking, Reading
  <2>2. \A c \in Undecided \cup Reading : local'[c] = local[c]
    BY <1>2 DEF Undecided, Reading
  <2> QED
    BY <1>0, <1>1, <1>2, <2>1, <2>2, QuietStep
<1>3. CASE Producer
  <2> USE DEF counterVars, consumerVars, CountersOK
  <2>1. CASE Publish
    BY <1>2, <2>1 DEF Publish
  <2>2. CASE ~Publish
    BY <1>2, <1>3, <2>2, SMTT(30) DEF Producer, InsertKey, InsertTail, GrowIndex, Requisition,
      RewindValue, StoreValue
  <2> QED
    BY <2>1, <2>2
\* The places in which a consumer has no ticket and no count it will judge one by.
<1> DEFINE Outside == {"idle", "sizeHead", "tail", "overcommit", "header", "slot", "key",
                       "value", "move", "setEmpty", "unlink", "free"}
<1>4. ASSUME NEW c \in Consumers, Still({c}), cpc[c] \in Outside \cup {"optimistic"},
             \/ cpc'[c] \in Outside
             \/ /\ cpc'[c] \in {"optimistic", "ticket"}
                /\ local'[c].overcommit <= overcommit
      PROVE  TicketsCounted'
  <2>1. /\ Claiming' = Claiming /\ Undecided' = Undecided /\ Rechecking' = Rechecking
        /\ Reading' \subseteq Reading \cup {c} /\ c \notin Undecided
    BY <1>4 DEF Claiming, Undecided, Rechecking, Reading
  <2>2. \A d \in Undecided : local'[d] = local[d]
    BY <1>4, <2>1 DEF Undecided
  <2>3. \A d \in Reading' : local'[d].overcommit <= overcommit
    BY <1>1, <1>4, <2>1 DEF Reading
  <2> QED
    BY <1>0, <1>4, <2>1, <2>2, <2>3, QuietStep
<1>5. ASSUME NEW c \in Consumers, Ticket(c) PROVE TicketsCounted'
  <2> USE DEF At, Return, producerVars, counterVars, CountersOK
  <2>1. CASE ReadSizeTail(c) \/ ReadSizeHead(c) \/ ReadTail(c)
    BY <1>4, <2>1 DEF ReadSizeTail, ReadSizeHead, ReadTail
  <2>2. CASE ReadOvercommit(c)
    BY <1>4, <2>2 DEF ReadOvercommit
  <2>3. CASE ReadOptimistic(c)
    BY <1>1, <1>4, <2>3 DEF ReadOptimistic, Reading
  <2>4. CASE TakeTicket(c) \/ Recheck(c) \/ GiveBack(c)
    BY <1>0, <2>4, TakeStep, JudgeStep, GiveBackStep
  <2> QED
    BY <1>5, <2>1, <2>2, <2>3, <2>4 DEF Ticket
<1>6. ASSUME NEW c \in Consumers, Dequeue(c) PROVE TicketsCounted'
  <2> USE DEF At, Return, producerVars, counterVars, CountersOK
  <2>1. CASE Claim(c)
    BY <1>0, <2>1, ClaimStep
  <2>2. CASE ReadHeader(c) \/ ReadSlot(c)
    <3>1. /\ cpc[c] \in Outside
          /\ \E here \in Outside : cpc' = [cpc EXCEPT ![c] = here]
          /\ \A d \in Consumers \ {c} : local'[d] = local[d]
          /\ UNCHANGED <<tailIndex, headIndex, optimistic, overcommit>>
      BY <2>2 DEF ReadHeader, ReadSlot
    <3> QED
      BY <1>4, <3>1
  <2>3. CASE ReadKey(c)
    <3>1. /\ cpc[c] = "key" /\ cpc' = [cpc EXCEPT ![c] = "value"]
          /\ \A d \in Consumers \ {c} : local'[d] = local[d]
          /\ UNCHANGED <<tailIndex, headIndex, optimistic, overcommit>>
      BY <2>3 DEF ReadKey
    <3> QED
      BY <1>4, <3>1
  <2>4. CASE ReadValue(c)
    BY <1>4, <2>4 DEF ReadValue
  <2>5. CASE MoveElement(c) \/ SetEmpty(c) \/ Unlink(c) \/ FreeBlock(c)
    BY <1>4, <2>5 DEF MoveElement, SetEmpty, Unlink, FreeBlock
  <2> QED
    BY <1>6, <2>1, <2>2, <2>3, <2>4, <2>5 DEF Dequeue
<1>7. CASE UNCHANGED vars
  BY <1>2, <1>7 DEF vars, producerVars, counterVars, consumerVars, CountersOK
<1> QED
  BY <1>3, <1>5, <1>6, <1>7 DEF Next

\* However many consumers race and however old the counters are that they read,
\* an element that is claimed has been published.
THEOREM ClaimsCorrect == Spec => []ClaimsCovered
<1>1. CountersOK /\ TicketsCounted /\ [Next]_vars => (CountersOK /\ TicketsCounted)'
  BY CountersStep, TicketsStep
<1> QED
  BY <1>1, CountersInit, TicketsInit, TicketsCover, PTL DEF Spec
-----------------------------------------------------------------------------
(* Failing is excused.  A consumer nobody disturbed reads counters that do  *)
(* not move, and finds that they add up.                                    *)

\* A ticket was given back, claimed, or is held by somebody.
Accounted == optimistic = overcommit + headIndex + Cardinality(Ticketed)

\* What c knows in a call in which, so far, some element was left and nobody
\* else had a ticket.
Knows(c) ==
  /\ headIndex # tailIndex
  /\ Ticketed \ {c} = {}
  /\ cpc[c] \in {"sizeHead", "overcommit", "optimistic"} => headIndex < local[c].tail
  /\ cpc[c] \in {"optimistic", "ticket", "recheck"} => local[c].overcommit = overcommit
  /\ cpc[c] = "recheck" => local[c].ticket = overcommit + headIndex
  /\ cpc[c] # "giveBack"

Undisturbed == \A c \in Consumers : cpc[c] # "idle" /\ ~excused[c] => Knows(c)

LEMMA TicketedFinite == IsFiniteSet(Ticketed) /\ Cardinality(Ticketed) \in Nat
BY ThreadsAssumption, FS_Subset, FS_CardinalityType DEF Ticketed

\* A step of c outside the tickets, or of the producer, leaves the account alone.
LEMMA AccountStep ==
  ASSUME CountersOK, Accounted, Next PROVE Accounted'
<1> USE DEF CountersOK, producerVars, counterVars, consumerVars
<1>1. CASE Ticketed' = Ticketed /\ UNCHANGED <<optimistic, overcommit, headIndex>>
  BY <1>1 DEF Accounted
<1>2. CASE Producer
  <2>1. UNCHANGED <<optimistic, overcommit, headIndex, cpc>>
    BY <1>2 DEF Producer, InsertKey, InsertTail, GrowIndex, Requisition, RewindValue,
      StoreValue, Publish
  <2> QED
    BY <1>1, <2>1 DEF Ticketed
<1>3. ASSUME NEW c \in Consumers, TakeTicket(c) PROVE Accounted'
  <2>1. /\ cpc[c] = "ticket" /\ cpc' = [cpc EXCEPT ![c] = "recheck"]
        /\ optimistic' = optimistic + 1 /\ UNCHANGED <<overcommit, headIndex>>
    BY <1>3 DEF TakeTicket, At
  <2>2. Ticketed' = Ticketed \cup {c} /\ c \notin Ticketed
    BY <2>1 DEF Ticketed
  <2>3. Cardinality(Ticketed') = Cardinality(Ticketed) + 1
    BY <2>2, TicketedFinite, FS_AddElement
  <2> QED
    BY <2>1, <2>3, TicketedFinite DEF Accounted
<1>4. ASSUME NEW c \in Consumers, Claim(c) \/ GiveBack(c) PROVE Accounted'
  <2>1. /\ cpc[c] \in {"claim", "giveBack"}
        /\ \E here \in {"header", "idle"} : cpc' = [cpc EXCEPT ![c] = here]
        /\ optimistic' = optimistic
        /\ overcommit' + headIndex' = overcommit + headIndex + 1
        /\ overcommit' \in Nat /\ headIndex' \in Nat
    BY <1>4 DEF Claim, GiveBack, At, Return
  <2>2. Ticketed' = Ticketed \ {c} /\ c \in Ticketed
    BY <2>1 DEF Ticketed
  <2>3. Cardinality(Ticketed') = Cardinality(Ticketed) - 1
    BY <2>2, TicketedFinite, FS_RemoveElement
  <2> QED
    BY <2>1, <2>3, TicketedFinite DEF Accounted
<1>5. ASSUME NEW c \in Consumers, Ticket(c), ~TakeTicket(c), ~GiveBack(c)
      PROVE  Accounted'
  <2>1. /\ UNCHANGED <<optimistic, overcommit, headIndex>>
        /\ \E here \in {"idle", "sizeHead", "tail", "overcommit", "optimistic", "ticket"},
              there \in {"idle", "sizeHead", "tail", "overcommit", "optimistic", "ticket"} :
             \/ cpc[c] = here /\ cpc' = [cpc EXCEPT ![c] = there]
             \/ /\ cpc[c] = "recheck"
                /\ \/ cpc' = [cpc EXCEPT ![c] = "claim"]
                   \/ cpc' = [cpc EXCEPT ![c] = "giveBack"]
    BY <1>5 DEF Ticket, ReadSizeTail, ReadSizeHead, ReadTail, ReadOvercommit,
      ReadOptimistic, Recheck, At, Return
  <2>2. Ticketed' = Ticketed
    BY <2>1 DEF Ticketed
  <2> QED
    BY <1>1, <2>1, <2>2
<1>6. ASSUME NEW c \in Consumers, Dequeue(c), ~Claim(c) PROVE Accounted'
  <2>1. /\ UNCHANGED <<optimistic, overcommit, headIndex>>
        /\ cpc[c] \in {"header", "slot", "key", "value", "move", "setEmpty", "unlink", "free"}
        /\ \E there \in {"slot", "key", "value", "move", "setEmpty", "unlink", "free", "idle"} :
             cpc' = [cpc EXCEPT ![c] = there]
    BY <1>6 DEF Dequeue, ReadHeader, ReadSlot, ReadKey, ReadValue, MoveElement, SetEmpty,
      Unlink, FreeBlock, At, Return
  <2>2. Ticketed' = Ticketed
    BY <2>1 DEF Ticketed
  <2> QED
    BY <1>1, <2>1, <2>2
<1> QED
  BY <1>2, <1>3, <1>4, <1>5, <1>6 DEF Next

\* What Excuse leaves of a call that is not excused.
LEMMA NotExcused ==
  ASSUME Excuse, NEW c \in Consumers, cpc'[c] # "idle", ~excused'[c]
  PROVE  ~excused[c] /\ headIndex' # tailIndex' /\ Ticketed' \ {c} = {}
<1>1. excused'[c] = (/\ cpc'[c] # "idle"
                     /\ \/ excused[c]
                        \/ headIndex' = tailIndex'
                        \/ Ticketed' \ {c} # {})
  BY DEF Excuse
<1> QED
  BY <1>1, Zenon

\* Nobody else claims an element or gives a ticket back in such a call.
LEMMA OthersWait ==
  ASSUME CountersOK, NEW c \in Consumers, Ticketed \ {c} = {},
         \/ Producer
         \/ \E d \in Consumers \ {c} : Ticket(d) \/ Dequeue(d)
  PROVE  /\ UNCHANGED <<headIndex, overcommit>>
         /\ cpc'[c] = cpc[c] /\ local'[c] = local[c]
<1> USE DEF CountersOK, producerVars, counterVars, consumerVars
<1>1. \A d \in Consumers \ {c} : cpc[d] \notin {"claim", "giveBack"}
  BY DEF Ticketed
<1>2. CASE Producer
  BY <1>2 DEF Producer, InsertKey, InsertTail, GrowIndex, Requisition, RewindValue,
    StoreValue, Publish
<1> DEFINE Mine == /\ UNCHANGED <<headIndex, overcommit>>
                   /\ cpc'[c] = cpc[c] /\ local'[c] = local[c]
<1>3. ASSUME NEW d \in Consumers \ {c}, Ticket(d) PROVE Mine
  BY <1>1, <1>3 DEF Ticket, ReadSizeTail, ReadSizeHead, ReadTail, ReadOvercommit,
    ReadOptimistic, TakeTicket, Recheck, GiveBack, At, Return
<1>4. ASSUME NEW d \in Consumers \ {c}, Dequeue(d) PROVE Mine
  <2>1. CASE ReadKey(d)
    BY <2>1 DEF ReadKey, At
  <2>2. CASE ReadHeader(d) \/ ReadSlot(d)
    BY <2>2 DEF ReadHeader, ReadSlot, At
  <2> QED
    BY <1>1, <1>4, <2>1, <2>2 DEF Dequeue, Claim, ReadValue, MoveElement, SetEmpty,
      Unlink, FreeBlock, At, Return
<1> QED
  BY <1>2, <1>3, <1>4

\* A consumer learns more by its own steps, none of which can disturb it.
LEMMA OwnStep ==
  ASSUME CountersOK, CountersOK', ClaimsCovered, Accounted, NEW c \in Consumers,
         Ticket(c) \/ Dequeue(c), cpc[c] # "idle" => Knows(c),
         cpc'[c] # "idle", headIndex' # tailIndex', Ticketed' \ {c} = {}
  PROVE  Knows(c)'
<1> USE DEF CountersOK, producerVars, counterVars
<1>1. headIndex <= tailIndex
  <2>1. Cardinality(Claiming) \in Nat
    BY ThreadsAssumption, FS_Subset, FS_CardinalityType DEF Claiming
  <2> QED
    BY <2>1 DEF ClaimsCovered, Claiming
<1>2. cpc[c] # "idle" /\ c \notin Ticketed => optimistic = overcommit + headIndex
  <2> SUFFICES ASSUME cpc[c] # "idle", c \notin Ticketed
               PROVE  optimistic = overcommit + headIndex
    OBVIOUS
  <2>1. Ticketed = {}
    BY DEF Knows
  <2> QED
    BY <2>1, FS_EmptySet DEF Accounted
<1>3. CASE Dequeue(c)
  <2>1. cpc'[c] \notin {"sizeHead", "overcommit", "optimistic", "ticket", "recheck", "giveBack"}
    BY <1>3 DEF Dequeue, Claim, ReadHeader, ReadSlot, ReadKey, ReadValue, MoveElement,
      SetEmpty, Unlink, FreeBlock, At, Return
  <2> QED
    BY <2>1 DEF Knows
<1>4. CASE ReadSizeTail(c) \/ ReadTail(c)
  <2>1. /\ cpc'[c] \in {"sizeHead", "overcommit"} /\ local'[c].tail = tailIndex
        /\ UNCHANGED <<headIndex, tailIndex>>
    BY <1>4 DEF ReadSizeTail, ReadTail, At
  <2>2. headIndex < tailIndex
    <3> HIDE DEF CountersOK
    <3>1. headIndex \in Nat /\ tailIndex \in Nat /\ headIndex # tailIndex
      BY <2>1 DEF CountersOK
    <3> QED
      BY <1>1, <3>1
  <2> QED
    BY <2>1, <2>2 DEF Knows
<1>5. CASE ReadSizeHead(c)
  BY <1>5 DEF ReadSizeHead, At, Return, Knows
<1>6. CASE ReadOvercommit(c)
  <2>1. /\ cpc[c] = "overcommit" /\ cpc'[c] = "optimistic"
        /\ local'[c].overcommit = overcommit /\ local'[c].tail = local[c].tail
        /\ UNCHANGED <<headIndex, overcommit>>
    BY <1>6 DEF ReadOvercommit, At
  <2> QED
    BY <2>1 DEF Knows
<1>7. CASE ReadOptimistic(c)
  BY <1>7 DEF ReadOptimistic, At, Return, Knows
<1>8. CASE TakeTicket(c)
  <2>1. /\ cpc[c] = "ticket" /\ cpc'[c] = "recheck"
        /\ local'[c].ticket = optimistic /\ local'[c].overcommit = local[c].overcommit
        /\ UNCHANGED <<headIndex, overcommit>>
    BY <1>8 DEF TakeTicket, At
  <2>2. c \notin Ticketed
    BY <2>1 DEF Ticketed
  <2> QED
    BY <1>2, <2>1, <2>2 DEF Knows
<1>9. CASE Recheck(c)
  <2>1. local[c].ticket - local[c].overcommit < tailIndex
    BY <1>1, <1>9 DEF Recheck, At, Knows
  <2>2. cpc'[c] = "claim"
    BY <1>9, <2>1 DEF Recheck, At
  <2> QED
    BY <2>2 DEF Knows
<1>10. ~GiveBack(c)
  BY DEF GiveBack, Knows
<1> QED
  BY <1>3, <1>4, <1>5, <1>6, <1>7, <1>8, <1>9, <1>10 DEF Ticket

LEMMA UndisturbedStep ==
  CountersOK /\ ClaimsCovered /\ Accounted /\ Undisturbed /\ Next => Undisturbed'
<1> SUFFICES ASSUME CountersOK, ClaimsCovered, Accounted, Undisturbed, Next,
                    NEW c \in Consumers, cpc'[c] # "idle", ~excused'[c]
             PROVE  Knows(c)'
  BY DEF Undisturbed
<1>1. CountersOK'
  BY CountersStep
<1>2. ~excused[c] /\ headIndex' # tailIndex' /\ Ticketed' \ {c} = {}
  BY NotExcused DEF Next
<1>3. cpc[c] # "idle" => Knows(c)
  BY <1>2 DEF Undisturbed
<1>4. CASE Ticket(c) \/ Dequeue(c)
  BY <1>1, <1>2, <1>3, <1>4, OwnStep
<1>5. CASE Producer \/ \E d \in Consumers \ {c} : Ticket(d) \/ Dequeue(d)
  <2>1. cpc'[c] = cpc[c]
    BY <1>5, ZenonT(60) DEF CountersOK, consumerVars, Producer, InsertKey, InsertTail, GrowIndex,
      Requisition, RewindValue, StoreValue, Publish, Ticket, ReadSizeTail, ReadSizeHead,
      ReadTail, ReadOvercommit, ReadOptimistic, TakeTicket, Recheck, GiveBack, Dequeue,
      Claim, ReadHeader, ReadSlot, ReadKey, ReadValue, MoveElement, SetEmpty, Unlink,
      FreeBlock, At, Return
  <2>2. Knows(c)
    BY <1>3, <2>1
  <2>3. /\ UNCHANGED <<headIndex, overcommit>>
        /\ cpc'[c] = cpc[c] /\ local'[c] = local[c]
    BY <1>5, <2>2, OthersWait DEF Knows
  <2> QED
    BY <1>2, <2>2, <2>3 DEF Knows
<1> QED
  BY <1>4, <1>5 DEF Next

\* A call that fails was told so by counters that somebody moved.
LEMMA FailsOnlyIf ==
  ASSUME CountersOK, ClaimsCovered, Accounted, Undisturbed, Next, NEW c \in Consumers,
         Fails(c)
  PROVE  excused[c]
<1> SUFFICES ASSUME ~excused[c] PROVE FALSE
  OBVIOUS
<1> USE DEF CountersOK, producerVars, counterVars
<1>1. cpc[c] \in {"sizeHead", "optimistic"} /\ cpc'[c] = "idle" /\ Knows(c)
  BY DEF Fails, Undisturbed, Knows
<1>2. Ticket(c)
  <2>1. ~Producer /\ \A d \in Consumers \ {c} : ~(Ticket(d) \/ Dequeue(d))
    BY <1>1, OthersWait DEF Knows
  <2>2. ~Dequeue(c)
    BY <1>1 DEF Dequeue, Claim, ReadHeader, ReadSlot, ReadKey, ReadValue, MoveElement,
      SetEmpty, Unlink, FreeBlock, At
  <2> QED
    BY <2>1, <2>2 DEF Next
<1>3. \/ cpc[c] = "sizeHead" /\ headIndex >= local[c].tail
      \/ cpc[c] = "optimistic" /\ optimistic - local[c].overcommit >= local[c].tail
  BY <1>1, <1>2 DEF Ticket, ReadSizeTail, ReadSizeHead, ReadTail, ReadOvercommit,
    ReadOptimistic, TakeTicket, Recheck, GiveBack, At
<1>4. cpc[c] = "optimistic" => optimistic = overcommit + headIndex
  <2> SUFFICES ASSUME cpc[c] = "optimistic" PROVE optimistic = overcommit + headIndex
    OBVIOUS
  <2>1. Ticketed = {}
    BY <1>1 DEF Knows, Ticketed
  <2> QED
    BY <2>1, FS_EmptySet DEF Accounted
<1> QED
  BY <1>1, <1>3, <1>4 DEF Knows

\* try_dequeue fails only if, at some instant of the call, every element was
\* claimed or another consumer held a ticket.
THEOREM FailsCorrect == Spec => FailsExcused
<1> DEFINE IInv == CountersOK /\ TicketsCounted /\ Accounted /\ Undisturbed
<1>1. Init => IInv
  <2>1. Init => Accounted
    <3> SUFFICES ASSUME Init PROVE Accounted
      OBVIOUS
    <3>1. Ticketed = {} /\ optimistic = 0 /\ overcommit = 0 /\ headIndex = 0
      BY DEF Init, Ticketed
    <3>2. Cardinality(Ticketed) = 0
      BY <3>1, FS_EmptySet
    <3> QED
      BY <3>1, <3>2 DEF Accounted
  <2>2. Init => Undisturbed
    BY DEF Init, Undisturbed
  <2> QED
    BY <2>1, <2>2, CountersInit, TicketsInit
<1>2. IInv /\ [Next]_vars => IInv'
  <2> SUFFICES ASSUME IInv, [Next]_vars PROVE IInv'
    OBVIOUS
  <2>1. CountersOK' /\ TicketsCounted'
    BY CountersStep, TicketsStep
  <2>2. CASE Next
    BY <2>1, <2>2, AccountStep, UndisturbedStep, TicketsCover
  <2>3. CASE UNCHANGED vars
    <3>1. Accounted'
      BY <2>3 DEF vars, Accounted, Ticketed, counterVars, consumerVars
    <3>2. Undisturbed'
      BY <2>3 DEF vars, Undisturbed, Knows, Ticketed, counterVars, producerVars,
        consumerVars
    <3> QED
      BY <2>1, <3>1, <3>2
  <2> QED
    BY <2>2, <2>3
<1>3. IInv /\ [Next]_vars => [\A c \in Consumers : Fails(c) => excused[c]]_vars
  BY TicketsCover, FailsOnlyIf
<1> QED
  BY <1>1, <1>2, <1>3, PTL DEF Spec, FailsExcused
-----------------------------------------------------------------------------
(* The blocks.  An entry of the block index stands for a block of elements: *)
(* its key is the first of them.  Counted from the one after the tail, the  *)
(* entries of the newest index have the keys of consecutive blocks, and an  *)
(* older index has the same entries in the same order, but for a rotation:  *)
(* so a distance counted from any entry that ever was the tail leads to the *)
(* entry looked for, in whichever index.  An entry keeps its block until    *)
(* all elements of it are claimed and moved out.                            *)

\* The first element of the j-th block.
Block(j) == BlockSize * j

Cong(a, b, n) == \E m \in Int : a = b + m * n

Moving(c) == cpc[c] \in {"header", "slot", "key", "value", "move"}
Started(c) == Moving(c) \/ cpc[c] = "setEmpty"
Active(c) == Started(c) \/ cpc[c] = "unlink"

Capacity == blockIndex.capacity
Positions(h) == 0..(headers[h].capacity - 1)
Used(e) == entries[e].value # NoBlock
Lives(k) == \E e \in 1..Capacity : entries[e].key = k /\ Used(e)

\* The position of an entry of the newest index, counted from the one after the
\* tail: that is zero, the tail the last.
Rank(p) == IF p > blockIndex.tail THEN p - blockIndex.tail - 1
           ELSE p - blockIndex.tail - 1 + Capacity
EntryAt(p) == entries[blockIndex.index[p]]

Indexes == UNION {[0..(n - 1) -> Nat] : n \in Nat}

Typed ==
  /\ headers \in Seq([capacity : Nat, tail : Nat, index : Indexes]) /\ headers # <<>>
  /\ entries \in [1..Capacity -> [key : Nat, value : Blocks \cup {NoBlock}]]
  /\ elements \in [Blocks -> [0..(BlockSize - 1) -> Nat \cup {Gone}]]
  /\ dequeued \in [Blocks -> Nat]
  /\ free \subseteq Blocks
  /\ tailBlock \in Blocks \cup {NoBlock}
  /\ newBlock \in Blocks \cup {NoBlock}
  /\ ppc \in {"idle", "key", "requisition", "rewound", "value", "publish"}
  /\ local \in [Consumers -> Locals]

HeaderOK(h) ==
  /\ headers[h].capacity \in Nat \ {0, 1}
  /\ headers[h].tail \in Positions(h)
  /\ headers[h].index \in [Positions(h) -> 1..Capacity]
  /\ \A p, q \in Positions(h) : headers[h].index[p] = headers[h].index[q] => p = q
  /\ Cong(Capacity, 0, headers[h].capacity)
  /\ \E o \in Int : \A p \in Positions(h), q \in Positions(Len(headers)) :
       headers[h].index[p] = blockIndex.index[q] => Cong(q, p + o, headers[h].capacity)

HeadersOK ==
  /\ \A h \in 1..Len(headers) : HeaderOK(h)
  /\ \A e \in 1..Capacity : \E p \in Positions(Len(headers)) : blockIndex.index[p] = e

\* top blocks were entered into the index, the last one perhaps without elements.
Entered == ppc \in {"requisition", "value", "publish"}
Known(e) == entries[e].key # Invalid

IndexInv(top) ==
  /\ Entered => tailIndex = Block(top - 1)
  /\ ppc \in {"key", "rewound"} => tailIndex = Block(top)
  /\ ppc = "idle" => Block(top - 1) < tailIndex /\ tailIndex <= Block(top)
  /\ \A p \in Positions(Len(headers)) :
       \/ EntryAt(p).key = Invalid
       \/ EntryAt(p).key = Block(top - Capacity + Rank(p))
       \/ ~Entered /\ Rank(p) = 0 /\ EntryAt(p).key = Block(top) /\ EntryAt(p).value = NoBlock
  /\ top # 0 => EntryAt(blockIndex.tail).key # Invalid
  /\ Entered /\ top > 1 =>
       \A p \in Positions(Len(headers)) : Rank(p) = Capacity - 2 => EntryAt(p).key # Invalid
  /\ ppc \in {"key", "rewound"} =>
       EntryAt(NewTail).key = tailIndex /\ EntryAt(NewTail).value = NoBlock
  /\ Entered => EntryAt(blockIndex.tail).key = tailIndex
  /\ ppc \in {"requisition", "value"} => EntryAt(blockIndex.tail).value = NoBlock

IndexOK == \E top \in Nat : IndexInv(top)

\* What the producer is at.
Filling == ppc = "publish" \/ (ppc = "idle" /\ ~NeedsBlock)
ProducerOK ==
  /\ \A e \in 1..Capacity : entries[e].key = Invalid => ~Used(e)
  /\ \A h \in 1..Len(headers) :
       h # Len(headers) => entries[headers[h].index[headers[h].tail]].key # Invalid
  /\ ppc = "value" => newBlock \in Blocks /\ dequeued[newBlock] = 0
  /\ ppc # "value" => newBlock = NoBlock
  /\ Filling => /\ tailBlock \in Blocks
                /\ \E e \in 1..Capacity : /\ entries[e].key = Base(tailIndex)
                                          /\ entries[e].value = tailBlock
  /\ \A i \in Nat : headIndex <= i /\ i < tailIndex => Lives(Base(i))

\* Elements claimed from the block that starts at k, and those being moved out.
Working(k) == {c \in Consumers : Started(c) /\ Base(local[c].index) = k}
Claimed(k) == IF headIndex <= k THEN 0
              ELSE IF headIndex >= k + BlockSize THEN BlockSize
              ELSE headIndex - k
CountOK(e) ==
  Used(e) => dequeued[entries[e].value] + Cardinality(Working(entries[e].key))
               = Claimed(entries[e].key)

\* The elements of a block that were not moved out yet are in their slots.
Pending(i) == i >= headIndex \/ \E c \in Consumers : Moving(c) /\ local[c].index = i
ContentOK(e) ==
  Used(e) => \A i \in Nat : /\ Base(i) = entries[e].key
                            /\ i < tailIndex
                            /\ Pending(i)
                            => elements[entries[e].value][i % BlockSize] = i

ConsumerOK(c) ==
  /\ Active(c) => local[c].index < headIndex
  /\ cpc[c] = "header" => Lives(Base(local[c].index))
  /\ cpc[c] \in {"slot", "key"} =>
       /\ local[c].header \in 1..Len(headers)
       /\ \E p \in Positions(local[c].header) :
            /\ entries[headers[local[c].header].index[p]].key = Base(local[c].index)
            /\ Used(headers[local[c].header].index[p])
  /\ cpc[c] = "key" =>
       /\ local[c].slot \in Positions(local[c].header)
       /\ Known(headers[local[c].header].index[local[c].slot])
  /\ cpc[c] \in {"value", "move", "setEmpty", "unlink"} =>
       /\ local[c].entry \in 1..Capacity
       /\ entries[local[c].entry].key = Base(local[c].index)
       /\ Used(local[c].entry)
  /\ cpc[c] \in {"move", "setEmpty", "unlink"} => entries[local[c].entry].value = local[c].block
  /\ cpc[c] \in {"setEmpty", "unlink", "free"} => local[c].element = local[c].index
  /\ cpc[c] = "unlink" => dequeued[local[c].block] = BlockSize
  /\ cpc[c] = "free" => local[c].block \in Blocks

Apart ==
  /\ \A c, d \in Consumers : Active(c) /\ Active(d) /\ local[c].index = local[d].index => c = d
  /\ \A c, d \in Consumers : /\ cpc[c] = "unlink" /\ cpc[d] = "unlink"
                             /\ local[c].entry = local[d].entry
                             => c = d

\* A block has one owner.
Frees(c, b) == cpc[c] = "free" /\ local[c].block = b
OwnerOK ==
  /\ \A e, f \in 1..Capacity : Used(e) /\ entries[e].value = entries[f].value => e = f
  /\ \A e \in 1..Capacity : Used(e) => entries[e].value \notin free \cup {newBlock}
  /\ \A c \in Consumers, b \in Blocks : Frees(c, b) =>
       /\ b \notin free \cup {newBlock}
       /\ \A e \in 1..Capacity : entries[e].value # b
       /\ \A d \in Consumers : Frees(d, b) => d = c
  /\ newBlock \notin free
  /\ \A b \in Blocks : \/ b \in free \/ b = newBlock
                       \/ \E e \in 1..Capacity : entries[e].value = b
                       \/ \E c \in Consumers : Frees(c, b)

BlocksInv ==
  /\ Typed /\ HeadersOK /\ IndexOK /\ ProducerOK /\ OwnerOK
  /\ \A e \in 1..Capacity : CountOK(e) /\ ContentOK(e)
  /\ \A c \in Consumers : ConsumerOK(c)
  /\ Apart

-----------------------------------------------------------------------------
(* Arithmetic.                                                              *)

\* Division with a remainder.
LEMMA DivMod ==
  ASSUME NEW n \in Nat \ {0}, NEW a \in Int
  PROVE /\ a % n \in 0..(n - 1) /\ a \div n \in Int /\ a = (a \div n) * n + (a % n)
OBVIOUS

\* Blocks start BlockSize apart.
LEMMA BlockSpaced ==
  ASSUME NEW j \in Int, NEW k \in Int
  PROVE /\ Block(j) \in Int /\ Block(j + 1) = Block(j) + BlockSize
        /\ j < k => Block(j) + BlockSize <= Block(k)
        /\ Block(j) = Block(k) => j = k
        /\ Block(j) < Block(k) + BlockSize => j <= k
<1>1. Block(j) \in Int /\ Block(j + 1) = Block(j) + BlockSize
  BY SizesAssumption DEF Block
<1>2. ASSUME j < k PROVE Block(j) + BlockSize <= Block(k)
  <2>1. (k - j - 1) * BlockSize >= 0
    BY SizesAssumption, <1>2
  <2> QED
    BY <2>1, SizesAssumption DEF Block
<1>3. ASSUME k < j PROVE Block(k) + BlockSize <= Block(j)
  <2>1. (j - k - 1) * BlockSize >= 0
    BY SizesAssumption, <1>3
  <2> QED
    BY <2>1, SizesAssumption DEF Block
<1>4. Block(k) \in Int
  BY SizesAssumption DEF Block
<1> QED
  BY <1>1, <1>2, <1>3, <1>4, SizesAssumption

\* Every index is within the block it starts at its Base.
LEMMA BaseBlock ==
  ASSUME NEW i \in Nat
  PROVE \E j \in Nat : /\ Base(i) = Block(j) /\ Block(j) <= i /\ i < Block(j) + BlockSize
                       /\ i % BlockSize = i - Block(j)
<1>1. /\ i % BlockSize \in 0..(BlockSize - 1) /\ i \div BlockSize \in Int
      /\ i = (i \div BlockSize) * BlockSize + (i % BlockSize)
  BY DivMod, SizesAssumption
<1>2. i \div BlockSize >= 0
  BY SizesAssumption
<1>3. Block(i \div BlockSize) = i - (i % BlockSize)
  BY <1>1, SizesAssumption DEF Block
<1> QED
  BY <1>1, <1>2, <1>3, SizesAssumption DEF Base

\* ... and within no other.
LEMMA BaseUnique ==
  ASSUME NEW i \in Nat, NEW j \in Int, Block(j) <= i, i < Block(j) + BlockSize
  PROVE Base(i) = Block(j) /\ i % BlockSize = i - Block(j)
<1>1. PICK k \in Nat : /\ Base(i) = Block(k) /\ Block(k) <= i /\ i < Block(k) + BlockSize
                       /\ i % BlockSize = i - Block(k)
  BY BaseBlock
<1>2. Block(j) \in Int /\ Block(k) \in Int
  BY BlockSpaced
<1>3. j <= k
  <2>1. Block(j) < Block(k) + BlockSize
    BY <1>1, <1>2, SizesAssumption
  <2> QED
    BY <2>1, BlockSpaced
<1>4. k <= j
  <2>1. Block(k) < Block(j) + BlockSize
    BY <1>1, <1>2, SizesAssumption
  <2> QED
    BY <2>1, BlockSpaced
<1> QED
  BY <1>1, <1>3, <1>4

\* The distance of two keys in blocks.
LEMMA BlockDiff ==
  ASSUME NEW j \in Int, NEW k \in Int
  PROVE (Block(j) - Block(k)) \div BlockSize = j - k
<1>1. Block(j) - Block(k) = (j - k) * BlockSize
  BY SizesAssumption DEF Block
<1>2. \A d \in Int : (d * BlockSize) \div BlockSize = d
  BY SizesAssumption
<1> QED
  BY <1>1, <1>2

\* Congruence modulo the capacity of an index.
LEMMA CongMod ==
  ASSUME NEW n \in Nat \ {0}, NEW a \in Int
  PROVE a % n \in 0..(n - 1) /\ Cong(a % n, a, n)
<1>1. a % n \in 0..(n - 1) /\ a \div n \in Int /\ a = (a \div n) * n + (a % n)
  BY DivMod
<1>2. a % n = a + (-(a \div n)) * n
  BY <1>1
<1>3. -(a \div n) \in Int
  BY <1>1
<1> QED
  BY <1>1, <1>2, <1>3 DEF Cong

\* It is an equivalence, and respects sums.
LEMMA CongBasics ==
  ASSUME NEW n \in Nat \ {0}, NEW a \in Int, NEW b \in Int, NEW c \in Int
  PROVE /\ Cong(a, a, n)
        /\ Cong(a, b, n) => Cong(b, a, n)
        /\ Cong(a, b, n) /\ Cong(b, c, n) => Cong(a, c, n)
        /\ Cong(a, b, n) => Cong(a + c, b + c, n)
        /\ Cong(a, b, n) => Cong(c - a, c - b, n)
        /\ a \in 0..(n - 1) /\ b \in 0..(n - 1) /\ Cong(a, b, n) => a = b
<1>1. Cong(a, a, n)
  <2>1. a = a + 0 * n
    OBVIOUS
  <2> QED
    BY <2>1 DEF Cong
<1>2. ASSUME Cong(a, b, n) PROVE /\ Cong(b, a, n) /\ Cong(a + c, b + c, n) /\ Cong(c - a, c - b, n)
  <2>1. PICK m \in Int : a = b + m * n
    BY <1>2 DEF Cong
  <2>2. b = a + (-m) * n /\ a + c = b + c + m * n /\ c - a = (c - b) + (-m) * n
    BY <2>1
  <2> QED
    BY <2>2 DEF Cong
<1>3. ASSUME Cong(a, b, n), Cong(b, c, n) PROVE Cong(a, c, n)
  <2>1. PICK m \in Int : a = b + m * n
    BY <1>3 DEF Cong
  <2>2. PICK k \in Int : b = c + k * n
    BY <1>3 DEF Cong
  <2>3. a = c + (m + k) * n
    BY <2>1, <2>2
  <2> QED
    BY <2>3 DEF Cong
<1>4. ASSUME a \in 0..(n - 1), b \in 0..(n - 1), Cong(a, b, n) PROVE a = b
  <2>1. PICK m \in Int : a = b + m * n
    BY <1>4 DEF Cong
  <2>2. CASE m = 0
    BY <2>1, <2>2
  <2>3. CASE m >= 1
    <3>1. (m - 1) * n >= 0
      BY <2>3
    <3> QED
      BY <3>1, <2>1, <1>4
  <2>4. CASE m <= -1
    <3>1. (-m - 1) * n >= 0
      BY <2>4
    <3> QED
      BY <3>1, <2>1, <1>4
  <2> QED
    BY <2>2, <2>3, <2>4
<1> QED
  BY <1>1, <1>2, <1>3, <1>4

\* A smaller capacity divides a larger one.
LEMMA CongWeaken ==
  ASSUME NEW n \in Nat \ {0}, NEW k \in Nat \ {0}, NEW a \in Int, NEW b \in Int,
         Cong(n, 0, k), Cong(a, b, n)
  PROVE Cong(a, b, k)
<1>1. PICK m \in Int : a = b + m * n
  BY DEF Cong
<1>2. PICK l \in Int : n = 0 + l * k
  BY DEF Cong
<1>3. a = b + (m * l) * k
  BY <1>1, <1>2
<1>4. m * l \in Int
  OBVIOUS
<1> QED
  BY <1>3, <1>4 DEF Cong

LEMMA ModIs ==
  ASSUME NEW n \in Nat \ {0}, NEW a \in Int, NEW r \in 0..(n - 1), NEW m \in Int,
         a = r + m * n
  PROVE  a % n = r
<1>1. a % n \in 0..(n - 1) /\ Cong(a % n, a, n)
  BY CongMod
<1>2. Cong(a, r, n)
  BY DEF Cong
<1>3. a % n \in Int /\ r \in Int
  BY <1>1
<1>4. Cong(a % n, r, n)
  BY <1>1, <1>2, <1>3, CongBasics
<1> QED
  BY <1>1, <1>4, <1>3, CongBasics

\* Going round in a circle.
LEMMA RoundOnce ==
  ASSUME NEW n \in Nat \ {0}, NEW a \in Int, 0 <= a, a < 2 * n
  PROVE  a % n = IF a < n THEN a ELSE a - n
<1>1. CASE a < n
  <2>1. a \in 0..(n - 1) /\ a = a + 0 * n
    BY <1>1
  <2> QED
    BY <1>1, <2>1, ModIs
<1>2. CASE a >= n
  <2>1. a - n \in 0..(n - 1) /\ a = (a - n) + 1 * n
    BY <1>2
  <2>2. a % n = a - n
    BY <2>1, ModIs
  <2> QED
    BY <1>2, <2>2
<1> QED
  BY <1>1, <1>2

LEMMA RoundBack ==
  ASSUME NEW n \in Nat \ {0}, NEW t \in 0..(n - 1)
  PROVE  (t - 1) % n = IF t = 0 THEN n - 1 ELSE t - 1
<1>1. CASE t = 0
  <2>1. n - 1 \in 0..(n - 1) /\ t - 1 = (n - 1) + (-1) * n
    BY <1>1
  <2>2. (t - 1) % n = n - 1
    BY <2>1, ModIs
  <2> QED
    BY <1>1, <2>2
<1>2. CASE t # 0
  <2>1. t - 1 \in 0..(n - 1) /\ t - 1 = (t - 1) + 0 * n
    BY <1>2
  <2>2. (t - 1) % n = t - 1
    BY <2>1, ModIs
  <2> QED
    BY <1>2, <2>2
<1> QED
  BY <1>1, <1>2

-----------------------------------------------------------------------------
(* The newest index.                                                        *)

Newest == Positions(Len(headers))

LEMMA IndexShape ==
  ASSUME Typed, HeadersOK
  PROVE  /\ Len(headers) \in Nat /\ Len(headers) # 0
         /\ blockIndex \in [capacity : Nat, tail : Nat, index : Indexes]
         /\ Capacity \in Nat \ {0, 1}
         /\ Newest = 0..(Capacity - 1)
         /\ blockIndex.tail \in Newest
         /\ blockIndex.index \in [Newest -> 1..Capacity]
         /\ \A p, q \in Newest : blockIndex.index[p] = blockIndex.index[q] => p = q
         /\ \A e \in 1..Capacity : \E p \in Newest : blockIndex.index[p] = e
         /\ \A e \in 1..Capacity : /\ entries[e] \in [key : Nat, value : Blocks \cup {NoBlock}]
                                   /\ entries[e].key \in Nat
                                   /\ entries[e].value \in Blocks \cup {NoBlock}
<1>1. Len(headers) \in Nat /\ Len(headers) # 0
  BY DEF Typed
<1>2. blockIndex \in [capacity : Nat, tail : Nat, index : Indexes]
  <2> DEFINE Header == [capacity : Nat, tail : Nat, index : Indexes]
  <2>1. headers \in Seq(Header)
    BY DEF Typed
  <2> HIDE DEF Header
  <2>2. headers[Len(headers)] \in Header
    BY <1>1, <2>1
  <2> QED
    BY <2>2 DEF blockIndex, Header
<1>3. HeaderOK(Len(headers))
  BY <1>1 DEF HeadersOK
<1>4. /\ Capacity \in Nat \ {0, 1}
      /\ Newest = 0..(Capacity - 1)
      /\ blockIndex.tail \in Newest
      /\ blockIndex.index \in [Newest -> 1..Capacity]
      /\ \A p, q \in Newest : blockIndex.index[p] = blockIndex.index[q] => p = q
  BY <1>3 DEF HeaderOK, blockIndex, Capacity, Newest, Positions
<1>5. \A e \in 1..Capacity : \E p \in Newest : blockIndex.index[p] = e
  BY DEF HeadersOK, Newest
<1>6. ASSUME NEW e \in 1..Capacity
      PROVE  /\ entries[e] \in [key : Nat, value : Blocks \cup {NoBlock}]
             /\ entries[e].key \in Nat
             /\ entries[e].value \in Blocks \cup {NoBlock}
  BY DEF Typed
<1> QED
  BY <1>1, <1>2, <1>4, <1>5, <1>6

LEMMA NextShape ==
  ASSUME Typed, HeadersOK
  PROVE  /\ NewTail = (IF blockIndex.tail = Capacity - 1 THEN 0 ELSE blockIndex.tail + 1)
         /\ NewTail \in Newest /\ NewTail # blockIndex.tail
         /\ Rank(NewTail) = 0
         /\ NextEntry \in 1..Capacity /\ NextEntry = blockIndex.index[NewTail]
         /\ EntryAt(NewTail) = entries[NextEntry]
<1>1. /\ Capacity \in Nat \ {0, 1}
      /\ Newest = 0..(Capacity - 1)
      /\ blockIndex.tail \in Newest
      /\ blockIndex.index \in [Newest -> 1..Capacity]
  BY IndexShape
<1>2. (blockIndex.tail + 1) % Capacity
        = IF blockIndex.tail + 1 < Capacity THEN blockIndex.tail + 1
          ELSE blockIndex.tail + 1 - Capacity
  <2>1. \A a \in Int : 0 <= a /\ a < 2 * Capacity =>
          a % Capacity = IF a < Capacity THEN a ELSE a - Capacity
    BY <1>1, RoundOnce
  <2>2. /\ blockIndex.tail \in Int /\ blockIndex.tail + 1 \in Int
        /\ 0 <= blockIndex.tail + 1 /\ blockIndex.tail + 1 < 2 * Capacity
    BY <1>1
  <2> QED
    BY <1>1, <2>1, <2>2
<1>3. NewTail = (IF blockIndex.tail = Capacity - 1 THEN 0 ELSE blockIndex.tail + 1)
  BY <1>1, <1>2 DEF NewTail, Capacity
<1>4. NewTail \in Newest /\ NewTail # blockIndex.tail
  BY <1>1, <1>3
<1>5. Rank(NewTail) = 0
  BY <1>1, <1>3 DEF Rank
<1> QED
  BY <1>1, <1>3, <1>4, <1>5 DEF NextEntry, EntryAt

LEMMA Ranks ==
  ASSUME Typed, HeadersOK, NEW p \in Newest
  PROVE  /\ Rank(p) \in 0..(Capacity - 1)
         /\ Rank(p) = 0 <=> p = NewTail
         /\ Rank(p) = Capacity - 1 <=> p = blockIndex.tail
         /\ \A q \in Newest : Rank(q) = Rank(p) => q = p
<1>1. /\ Capacity \in Nat \ {0, 1}
      /\ Newest = 0..(Capacity - 1)
      /\ blockIndex.tail \in Newest
  BY IndexShape
<1>2. NewTail = (IF blockIndex.tail = Capacity - 1 THEN 0 ELSE blockIndex.tail + 1)
  BY NextShape
<1>3. p \in 0..(Capacity - 1) /\ blockIndex.tail \in 0..(Capacity - 1)
  BY <1>1
<1>4. ASSUME NEW q \in Newest, Rank(q) = Rank(p) PROVE q = p
  <2>1. q \in 0..(Capacity - 1)
    BY <1>1
  <2> QED
    BY <1>1, <1>3, <1>4, <2>1 DEF Rank
<1>5. /\ Rank(p) \in 0..(Capacity - 1)
      /\ Rank(p) = 0 <=> p = NewTail
      /\ Rank(p) = Capacity - 1 <=> p = blockIndex.tail
  BY <1>1, <1>2, <1>3, SMTT(30) DEF Rank
<1> QED
  BY <1>4, <1>5

Header == [capacity : Nat, tail : Nat, index : Indexes]

\* A step that moves the tail of the newest index, at most.
TailMoves(t) ==
  /\ Len(headers') = Len(headers)
  /\ \A h \in 1..Len(headers) : h # Len(headers) => headers'[h] = headers[h]
  /\ headers'[Len(headers)] = [blockIndex EXCEPT !.tail = t]

LEMMA TailMoved ==
  ASSUME Typed, HeadersOK, NEW t \in Newest,
         \/ headers' = [headers EXCEPT ![Len(headers)].tail = t]
         \/ headers' = headers /\ t = blockIndex.tail
  PROVE  /\ headers' \in Seq(Header) /\ headers' # <<>>
         /\ TailMoves(t)
<1> USE DEF Header
<1>1. Len(headers) \in Nat /\ Len(headers) # 0 /\ headers \in Seq(Header)
  BY IndexShape DEF Typed
<1>2. blockIndex \in Header /\ blockIndex = headers[Len(headers)] /\ t \in Nat
  BY IndexShape DEF blockIndex
<1>3. headers' = [headers EXCEPT ![Len(headers)] = [blockIndex EXCEPT !.tail = t]]
  <2>1. CASE headers' = [headers EXCEPT ![Len(headers)].tail = t]
    BY <1>2, <2>1
  <2>2. CASE headers' = headers /\ t = blockIndex.tail
    <3>1. [blockIndex EXCEPT !.tail = t] = blockIndex
      BY <1>2, <2>2
    <3>2. DOMAIN headers = 1..Len(headers) /\ headers = [h \in 1..Len(headers) |-> headers[h]]
      BY <1>1
    <3> QED
      BY <1>1, <1>2, <2>2, <3>1, <3>2
  <2> QED
    BY <2>1, <2>2
<1>4. [blockIndex EXCEPT !.tail = t] \in Header
  BY <1>2
<1> HIDE DEF Header
<1>5. headers' \in Seq(Header) /\ Len(headers') = Len(headers)
  BY <1>1, <1>3, <1>4
<1>6. \A h \in 1..Len(headers) :
        headers'[h] = IF h = Len(headers) THEN [blockIndex EXCEPT !.tail = t] ELSE headers[h]
  BY <1>1, <1>3
<1> QED
  BY <1>1, <1>5, <1>6 DEF TailMoves

LEMMA TailMovedHeaders ==
  ASSUME Typed, HeadersOK, NEW t \in Newest, TailMoves(t)
  PROVE  /\ HeadersOK'
         /\ Capacity' = Capacity /\ blockIndex'.tail = t /\ blockIndex'.index = blockIndex.index
         /\ Newest' = Newest
         /\ \A h \in 1..Len(headers) : headers'[h].capacity = headers[h].capacity
                                       /\ headers'[h].index = headers[h].index
<1>1. Len(headers) \in Nat /\ Len(headers) # 0 /\ Len(headers') = Len(headers)
  BY IndexShape DEF TailMoves
<1>2. blockIndex \in [capacity : Nat, tail : Nat, index : Indexes]
  BY IndexShape
<1>3. blockIndex' = [blockIndex EXCEPT !.tail = t]
  BY <1>1 DEF TailMoves, blockIndex
<1>4. Capacity' = Capacity /\ blockIndex'.tail = t /\ blockIndex'.index = blockIndex.index
  BY <1>2, <1>3 DEF Capacity
<1>5. \A h \in 1..Len(headers) : /\ headers'[h].capacity = headers[h].capacity
                                 /\ headers'[h].index = headers[h].index
                                 /\ headers'[h].tail = IF h = Len(headers) THEN t
                                                       ELSE headers[h].tail
  BY <1>1, <1>3, <1>4 DEF TailMoves, Capacity, blockIndex
<1>6. \A h \in 1..Len(headers) : Positions(h)' = Positions(h)
  BY <1>5 DEF Positions
<1>7. Newest' = Newest
  BY <1>1, <1>6 DEF Newest
<1>8. ASSUME NEW h \in 1..Len(headers)
      PROVE  HeaderOK(h)'
  <2>1. HeaderOK(h)
    BY DEF HeadersOK
  <2>2. headers'[h].tail \in Positions(h)
    BY <1>5, <2>1 DEF HeaderOK, Newest
  <2>3. Positions(Len(headers))' = Positions(Len(headers))
    BY <1>7 DEF Newest
  <2>4. Positions(h)' = Positions(h)
    BY <1>6
  <2>5. headers'[h].capacity = headers[h].capacity /\ headers'[h].index = headers[h].index
    BY <1>5
  <2> QED
    BY <1>4, <2>1, <2>2, <2>3, <2>4, <2>5 DEF HeaderOK
<1>9. \A e \in 1..Capacity : \E p \in Positions(Len(headers)) : blockIndex'.index[p] = e
  BY <1>4 DEF HeadersOK
<1>10. HeadersOK'
  BY <1>1, <1>4, <1>6, <1>8, <1>9 DEF HeadersOK
<1> QED
  BY <1>4, <1>5, <1>7, <1>10

\* A new index: the old entries, counted from the one after the old tail, then
\* as many new ones.
Grows ==
  /\ Len(headers') = Len(headers) + 1
  /\ \A h \in 1..Len(headers) : headers'[h] = headers[h]
  /\ Capacity' = 2 * Capacity
  /\ blockIndex'.tail = Capacity - 1
  /\ blockIndex'.index \in [0..(2 * Capacity - 1) -> 1..(2 * Capacity)]
  /\ \A p \in Newest : blockIndex'.index[Rank(p)] = blockIndex.index[p]
  /\ \A k \in 0..(Capacity - 1) : \E p \in Newest : k = Rank(p)
  /\ \A k \in Capacity..(2 * Capacity - 1) : blockIndex'.index[k] = k + 1
  /\ \A e \in 1..Capacity : entries'[e] = entries[e]
  /\ \A e \in (Capacity + 1)..(2 * Capacity) :
       entries'[e] = [key |-> Invalid, value |-> NoBlock]

LEMMA IndexGrows ==
  ASSUME Typed, HeadersOK, GrowIndex
  PROVE  /\ Grows
         /\ headers' \in Seq(Header) /\ headers' # <<>>
         /\ entries' \in [1..Capacity' -> [key : Nat, value : Blocks \cup {NoBlock}]]
<1>1. /\ Len(headers) \in Nat /\ Len(headers) # 0
      /\ Capacity \in Nat \ {0, 1}
      /\ Newest = 0..(Capacity - 1)
      /\ blockIndex.tail \in Newest
      /\ blockIndex.index \in [Newest -> 1..Capacity]
      /\ headers \in Seq(Header)
  BY IndexShape DEF Typed, Header
<1>2. Cardinality(DOMAIN entries) = Capacity
  <2>1. DOMAIN entries = 1..Capacity
    BY DEF Typed
  <2> QED
    BY <1>1, <2>1, FS_Interval
<1> DEFINE n == Capacity
           new == [capacity |-> 2 * n, tail |-> n - 1,
                   index |-> [k \in 0..(2 * n - 1) |->
                                IF k < n THEN blockIndex.index[(blockIndex.tail + 1 + k) % n]
                                ELSE n + 1 + (k - n)]]
<1>3. headers' = Append(headers, new)
  BY <1>2 DEF GrowIndex, Capacity, blockIndex
<1>4. entries' = [e \in 1..(2 * n) |->
                    IF e <= n THEN entries[e] ELSE [key |-> Invalid, value |-> NoBlock]]
  <2>1. n + n = 2 * n
    BY <1>1
  <2>2. entries' = [e \in 1..(n + n) |->
                    IF e <= n THEN entries[e] ELSE [key |-> Invalid, value |-> NoBlock]]
    BY <1>2 DEF GrowIndex, Capacity
  <2> QED
    BY <2>1, <2>2
<1>5. ASSUME NEW k \in 0..(n - 1)
      PROVE  /\ (blockIndex.tail + 1 + k) % n \in Newest
             /\ Rank((blockIndex.tail + 1 + k) % n) = k
  <2>1. \A a \in Int : 0 <= a /\ a < 2 * n => a % n = IF a < n THEN a ELSE a - n
    BY <1>1, RoundOnce
  <2>2. /\ n \in Nat \ {0} /\ k \in Int
        /\ blockIndex.tail \in 0..(n - 1) /\ blockIndex.tail + 1 + k \in Int
        /\ 0 <= blockIndex.tail + 1 + k /\ blockIndex.tail + 1 + k < 2 * n
    BY <1>1, SMTT(30)
  <2>3. (blockIndex.tail + 1 + k) % n =
          IF blockIndex.tail + 1 + k < n THEN blockIndex.tail + 1 + k
          ELSE blockIndex.tail + 1 + k - n
    BY <2>1, <2>2
  <2>4. Newest = 0..(n - 1)
    BY <1>1
  <2>5. CASE blockIndex.tail + 1 + k < n
    <3>1. (blockIndex.tail + 1 + k) % n = blockIndex.tail + 1 + k
      BY <2>3, <2>5
    <3>2. blockIndex.tail + 1 + k \in Newest /\ Rank(blockIndex.tail + 1 + k) = k
      BY <2>2, <2>4, <2>5 DEF Rank
    <3> QED
      BY <3>1, <3>2
  <2>6. CASE ~(blockIndex.tail + 1 + k < n)
    <3>1. (blockIndex.tail + 1 + k) % n = blockIndex.tail + 1 + k - n
      BY <2>3, <2>6
    <3>2. blockIndex.tail + 1 + k - n \in 0..(n - 1) /\ ~(blockIndex.tail + 1 + k - n > blockIndex.tail)
      BY <2>2, <2>6
    <3>3. (blockIndex.tail + 1 + k - n) - blockIndex.tail - 1 + n = k
      BY <2>2
    <3>4. n = Capacity
      OBVIOUS
    <3>5. Rank(blockIndex.tail + 1 + k - n) = k
      BY <3>2, <3>3, <3>4, Zenon DEF Rank
    <3> QED
      BY <3>1, <3>2, <3>5, <2>4
  <2> QED
    BY <2>5, <2>6
<1> HIDE DEF n
<1>6. n \in Nat \ {0, 1} /\ n = Capacity
  BY <1>1 DEF n
<1>7. new.index \in [0..(2 * n - 1) -> 1..(2 * n)]
  <2>1. ASSUME NEW k \in 0..(2 * n - 1)
        PROVE  (IF k < n THEN blockIndex.index[(blockIndex.tail + 1 + k) % n]
                ELSE n + 1 + (k - n)) \in 1..(2 * n)
    <3>1. CASE k < n
      <4>1. (blockIndex.tail + 1 + k) % n \in Newest
        BY <1>5, <1>6, <3>1
      <4>2. blockIndex.index[(blockIndex.tail + 1 + k) % n] \in 1..n
        BY <1>1, <1>6, <4>1
      <4> QED
        BY <1>6, <3>1, <4>2
    <3>2. CASE k >= n
      BY <1>6, <3>2
    <3> QED
      BY <1>6, <3>1, <3>2
  <2> QED
    BY <2>1
<1>8. \A k \in 0..(n - 1) : new.index[k] = blockIndex.index[(blockIndex.tail + 1 + k) % n]
  BY <1>6
<1>9. \A k \in n..(2 * n - 1) : new.index[k] = k + 1
  BY <1>6
<1>10. new.capacity = 2 * n /\ new.tail = n - 1 /\ DOMAIN new = {"capacity", "tail", "index"}
  OBVIOUS
<1>11. new \in Header
  <2>1. new.index \in [0..(2 * n - 1) -> Nat] /\ 2 * n \in Nat /\ n - 1 \in Nat
    BY <1>6, <1>7
  <2>2. new.index \in Indexes
    BY <2>1 DEF Indexes
  <2> QED
    BY <2>1, <2>2 DEF Header
<1> HIDE DEF new
<1>12. /\ headers' \in Seq(Header) /\ Len(headers') = Len(headers) + 1
       /\ \A h \in 1..Len(headers) : headers'[h] = headers[h]
       /\ headers'[Len(headers) + 1] = new
  BY <1>1, <1>3, <1>11
<1>13. blockIndex' = new
  BY <1>12 DEF blockIndex
<1>14. ASSUME NEW p \in Newest
       PROVE  blockIndex'.index[Rank(p)] = blockIndex.index[p]
  <2>1. Rank(p) \in 0..(n - 1)
    BY <1>6, Ranks
  <2>2. /\ (blockIndex.tail + 1 + Rank(p)) % n \in Newest
        /\ Rank((blockIndex.tail + 1 + Rank(p)) % n) = Rank(p)
    BY <1>5, <2>1
  <2>3. (blockIndex.tail + 1 + Rank(p)) % n = p
    BY <2>2, Ranks
  <2> QED
    BY <1>8, <1>13, <2>1, <2>3
<1>15. ASSUME NEW k \in 0..(n - 1)
       PROVE  \E p \in Newest : k = Rank(p)
  BY <1>5
<1>16. Grows
  BY <1>4, <1>6, <1>7, <1>9, <1>10, <1>12, <1>13, <1>14, <1>15, SMTT(30) DEF Grows, Capacity
<1>17. entries' \in [1..(2 * n) -> [key : Nat, value : Blocks \cup {NoBlock}]]
  <2>1. \A e \in 1..n : entries[e] \in [key : Nat, value : Blocks \cup {NoBlock}]
    BY <1>6 DEF Typed
  <2>2. [key |-> Invalid, value |-> NoBlock] \in [key : Nat, value : Blocks \cup {NoBlock}]
    BY DEF Invalid
  <2> QED
    BY <1>4, <1>6, <2>1, <2>2
<1>18. headers' # <<>>
  BY <1>1, <1>12
<1> QED
  BY <1>6, <1>12, <1>16, <1>17, <1>18 DEF Grows

LEMMA RankCong ==
  ASSUME Typed, HeadersOK, NEW p \in Newest
  PROVE  Cong(Rank(p), p - (blockIndex.tail + 1), Capacity)
<1>1. Capacity \in Nat /\ p \in Int /\ blockIndex.tail \in Int
  BY IndexShape
<1>2. Rank(p) = p - (blockIndex.tail + 1) + 0 * Capacity
      \/ Rank(p) = p - (blockIndex.tail + 1) + 1 * Capacity
  BY <1>1 DEF Rank
<1> QED
  BY <1>2 DEF Cong

\* What Grows says of the new index, and of the old ones.
LEMMA GrownShape ==
  ASSUME Typed, HeadersOK, Grows
  PROVE  /\ Len(headers) \in Nat /\ Len(headers) # 0 /\ Len(headers') = Len(headers) + 1
         /\ Capacity \in Nat \ {0, 1} /\ Capacity' = 2 * Capacity
         /\ Capacity' \in Nat \ {0, 1}
         /\ Newest' = 0..(2 * Capacity - 1)
         /\ blockIndex' = headers'[Len(headers) + 1]
         /\ \A h \in 1..Len(headers) : headers'[h] = headers[h] /\ Positions(h)' = Positions(h)
         /\ \A q \in Newest' :
              \/ /\ q < Capacity /\ blockIndex'.index[q] \in 1..Capacity
                 /\ \E p \in Newest : q = Rank(p) /\ blockIndex'.index[q] = blockIndex.index[p]
              \/ q >= Capacity /\ blockIndex'.index[q] = q + 1
<1>1. /\ Len(headers) \in Nat /\ Len(headers) # 0
      /\ Capacity \in Nat \ {0, 1}
      /\ blockIndex.index \in [Newest -> 1..Capacity]
  BY IndexShape
<1>2. Len(headers') = Len(headers) + 1 /\ Capacity' = 2 * Capacity
  BY DEF Grows
<1>3. Capacity' \in Nat \ {0, 1}
  BY <1>1, <1>2
<1>4. Newest' = 0..(2 * Capacity - 1)
  <2>1. Newest' = 0..(Capacity' - 1)
    BY DEF Newest, Positions, Capacity, blockIndex
  <2> QED
    BY <1>2, <2>1
<1>5. blockIndex' = headers'[Len(headers) + 1]
  BY <1>2 DEF blockIndex
<1>6. \A h \in 1..Len(headers) : headers'[h] = headers[h] /\ Positions(h)' = Positions(h)
  BY DEF Grows, Positions
<1>7. /\ \A p \in Newest : blockIndex'.index[Rank(p)] = blockIndex.index[p]
      /\ \A k \in 0..(Capacity - 1) : \E p \in Newest : k = Rank(p)
      /\ \A k \in Capacity..(2 * Capacity - 1) : blockIndex'.index[k] = k + 1
  BY DEF Grows
<1>8. ASSUME NEW q \in 0..(2 * Capacity - 1)
      PROVE  \/ /\ q < Capacity /\ blockIndex'.index[q] \in 1..Capacity
                /\ \E p \in Newest : q = Rank(p) /\ blockIndex'.index[q] = blockIndex.index[p]
             \/ q >= Capacity /\ blockIndex'.index[q] = q + 1
  <2>1. CASE q < Capacity
    <3>1. q \in 0..(Capacity - 1)
      BY <1>1, <2>1
    <3>2. PICK p \in Newest : q = Rank(p)
      BY <1>7, <3>1
    <3>3. blockIndex'.index[q] = blockIndex.index[p]
      BY <1>7, <3>2
    <3>4. blockIndex.index[p] \in 1..Capacity
      BY <1>1
    <3> QED
      BY <2>1, <3>2, <3>3, <3>4
  <2>2. CASE q >= Capacity
    <3>1. q \in Capacity..(2 * Capacity - 1)
      BY <1>1, <2>2
    <3> QED
      BY <1>7, <2>2, <3>1
  <2> QED
    BY <1>1, <2>1, <2>2
<1> QED
  BY <1>1, <1>2, <1>3, <1>4, <1>5, <1>6, <1>8

\* An old index keeps the distances modulo its capacity.
LEMMA GrownOffset ==
  ASSUME Typed, HeadersOK, Grows, NEW h \in 1..Len(headers)
  PROVE  HeaderOK(h)'
<1>1. HeaderOK(h) /\ headers'[h] = headers[h] /\ Positions(h)' = Positions(h)
  BY GrownShape DEF HeadersOK
<1> DEFINE m == headers[h].capacity
           n == Capacity
           t == blockIndex.tail + 1
<1>2. m \in Nat \ {0, 1} /\ m \in Nat \ {0} /\ Cong(n, 0, m)
      /\ headers[h].tail \in Positions(h)
      /\ headers[h].index \in [Positions(h) -> 1..n]
      /\ \A p, q \in Positions(h) : headers[h].index[p] = headers[h].index[q] => p = q
  BY <1>1 DEF HeaderOK
<1>3. n \in Nat \ {0} /\ n \in Int /\ n \in Nat /\ t \in Int /\ Newest = 0..(n - 1)
  BY IndexShape
<1>4. \A a, b, c \in Int : /\ Cong(a, b, m) /\ Cong(b, c, m) => Cong(a, c, m)
                           /\ Cong(a, b, m) => Cong(a + c, b + c, m)
  BY <1>2, CongBasics
<1>5. Capacity' = 2 * n /\ Newest' = 0..(2 * n - 1)
  BY GrownShape
<1>6. PICK o \in Int : \A p \in Positions(h), q \in Newest :
          headers[h].index[p] = blockIndex.index[q] => Cong(q, p + o, m)
  BY <1>1 DEF HeaderOK, Newest
<1>7. ASSUME NEW s \in Newest
      PROVE  Cong(Rank(s), s - t, m) /\ Rank(s) \in Int
  <2>1. Cong(Rank(s), s - t, n) /\ Rank(s) \in Int
    <3>1. Cong(Rank(s), s - (blockIndex.tail + 1), Capacity) /\ Rank(s) \in 0..(Capacity - 1)
      BY RankCong, Ranks
    <3> QED
      BY <1>3, <3>1
  <2>2. s - t \in Int
    BY <1>3
  <2>3. \A a, b \in Int : Cong(a, b, n) => Cong(a, b, m)
    BY <1>2, <1>3, CongWeaken
  <2> QED
    BY <2>1, <2>2, <2>3
<1> HIDE DEF m, n, t
<1>8. Cong(2 * n, 0, m)
  <2>1. PICK l \in Int : n = 0 + l * m
    BY <1>2 DEF Cong
  <2>2. 2 * n = 0 + (2 * l) * m
    BY <1>2, <1>3, <2>1
  <2> QED
    BY <2>2 DEF Cong
<1>9. ASSUME NEW p \in Positions(h), NEW q \in Newest',
             headers[h].index[p] = blockIndex'.index[q]
      PROVE  Cong(q, p + (o - t), m)
  <2>1. headers[h].index[p] \in 1..n
    BY <1>2
  <2>2. PICK s \in Newest : q = Rank(s) /\ blockIndex'.index[q] = blockIndex.index[s]
    <3>1. \/ \E s \in Newest : q = Rank(s) /\ blockIndex'.index[q] = blockIndex.index[s]
          \/ q >= n /\ blockIndex'.index[q] = q + 1
      BY GrownShape DEF n
    <3>2. q \in Int
      BY <1>5
    <3> QED
      BY <1>3, <1>9, <2>1, <3>1, <3>2
  <2>3. Cong(s, p + o, m)
    BY <1>6, <1>9, <2>2
  <2>4. p \in Int /\ s \in Int /\ q \in Int
    BY <1>2, <1>3, <1>5 DEF Positions, m
  <2>5. Cong(s + (-t), p + o + (-t), m)
    <3>1. p + o \in Int /\ -t \in Int
      BY <1>3, <2>4
    <3> QED
      BY <1>4, <2>3, <2>4, <3>1
  <2>6. s + (-t) = s - t /\ p + o + (-t) = p + (o - t) /\ s - t \in Int /\ p + (o - t) \in Int
    BY <1>3, <2>4
  <2>7. Cong(q, s - t, m)
    BY <1>7, <2>2
  <2>8. Cong(s - t, p + (o - t), m)
    BY <2>5, <2>6
  <2> QED
    BY <1>4, <2>4, <2>6, <2>7, <2>8
<1>10. headers[h].index \in [Positions(h) -> 1..(2 * n)]
  <2>1. 1..n \subseteq 1..(2 * n)
    BY <1>3
  <2> QED
    BY <1>2, <2>1
<1>11. o - t \in Int
  BY <1>3
<1>12. \E k \in Int : \A p \in Positions(h), q \in Newest' :
          headers[h].index[p] = blockIndex'.index[q] => Cong(q, p + k, m)
  BY <1>9, <1>11
<1>13. Positions(Len(headers))' = Newest'
  BY DEF Newest
<1> QED
  BY <1>1, <1>2, <1>5, <1>8, <1>10, <1>12, <1>13 DEF HeaderOK, m

LEMMA GrownHeaders ==
  ASSUME Typed, HeadersOK, Grows
  PROVE  HeadersOK'
<1> DEFINE n == Capacity
<1> PICK l \in Nat : l = Len(headers)
  BY IndexShape
<1>1. /\ l = Len(headers) /\ l \in Nat /\ l # 0 /\ Len(headers') = l + 1
      /\ n \in Nat \ {0, 1} /\ Capacity' = 2 * n
      /\ Newest' = 0..(2 * n - 1)
      /\ blockIndex' = headers'[l + 1]
      /\ \A q \in Newest' :
           \/ /\ q < n /\ blockIndex'.index[q] \in 1..n
              /\ \E p \in Newest : q = Rank(p) /\ blockIndex'.index[q] = blockIndex.index[p]
           \/ q >= n /\ blockIndex'.index[q] = q + 1
  BY GrownShape
<1>2. /\ headers'[l + 1].capacity = 2 * n /\ Positions(l + 1)' = Newest'
      /\ Positions(Len(headers))' = Newest'
  <2>1. headers'[l + 1].capacity = 2 * n
    BY <1>1 DEF Capacity
  <2>2. Positions(l + 1)' = 0..(2 * n - 1)
    BY <2>1 DEF Positions
  <2>3. Positions(Len(headers))' = Newest'
    BY DEF Newest
  <2> QED
    BY <1>1, <2>1, <2>2, <2>3
<1>3. /\ blockIndex'.tail \in Newest'
      /\ blockIndex'.index \in [Newest' -> 1..(2 * n)]
  <2>1. blockIndex'.tail = n - 1 /\ blockIndex'.index \in [0..(2 * n - 1) -> 1..(2 * n)]
    BY DEF Grows
  <2> QED
    BY <1>1, <2>1
<1>4. ASSUME NEW p \in Newest', NEW q \in Newest',
             blockIndex'.index[p] = blockIndex'.index[q]
      PROVE  p = q
  <2> HIDE DEF n
  <2>1. p \in Int /\ q \in Int
    BY <1>1
  <2>2. CASE p >= n \/ q >= n
    <3>1. CASE p >= n /\ q >= n
      <4>1. blockIndex'.index[p] = p + 1 /\ blockIndex'.index[q] = q + 1
        BY <1>1, <2>1, <3>1
      <4> QED
        <5>1. p + 1 = q + 1
          BY <1>4, <4>1
        <5> QED
          BY <2>1, <5>1
    <3>2. CASE p >= n /\ q < n
      <4>1. blockIndex'.index[p] = p + 1 /\ blockIndex'.index[q] \in 1..n
        BY <1>1, <2>1, <3>2
      <4> QED
        BY <1>1, <1>4, <2>1, <3>2, <4>1
    <3>3. CASE p < n /\ q >= n
      <4>1. blockIndex'.index[q] = q + 1 /\ blockIndex'.index[p] \in 1..n
        BY <1>1, <2>1, <3>3
      <4> QED
        BY <1>1, <1>4, <2>1, <3>3, <4>1
    <3> QED
      BY <1>1, <2>1, <2>2, <3>1, <3>2, <3>3
  <2>3. CASE p < n /\ q < n
    <3>1. PICK s \in Newest : p = Rank(s) /\ blockIndex'.index[p] = blockIndex.index[s]
      BY <1>1, <2>1, <2>3
    <3>2. PICK t \in Newest : q = Rank(t) /\ blockIndex'.index[q] = blockIndex.index[t]
      BY <1>1, <2>1, <2>3
    <3>3. blockIndex.index[s] = blockIndex.index[t]
      BY <1>4, <3>1, <3>2
    <3>4. s = t
      BY <3>3, IndexShape
    <3> QED
      BY <3>1, <3>2, <3>4
  <2> QED
    BY <1>1, <2>1, <2>2, <2>3
<1>5. HeaderOK(l + 1)'
  <2> HIDE DEF n
  <2>1. Cong(2 * n, 0, 2 * n)
    <3>1. 2 * n = 0 + 1 * (2 * n)
      BY <1>1
    <3> QED
      BY <3>1 DEF Cong
  <2>2. ASSUME NEW p \in Newest' PROVE Cong(p, p + 0, 2 * n)
    <3>1. p = p + 0 + 0 * (2 * n)
      BY <1>1
    <3> QED
      BY <3>1 DEF Cong
  <2>3. \E k \in Int : \A p, q \in Newest' :
          blockIndex'.index[p] = blockIndex'.index[q] => Cong(q, p + k, 2 * n)
    <3>1. \A p, q \in Newest' : blockIndex'.index[p] = blockIndex'.index[q] => Cong(q, p + 0, 2 * n)
      BY <1>4, <2>2
    <3> QED
      BY <3>1
  <2>4. 2 * n \in Nat \ {0, 1}
    BY <1>1
  <2>5. /\ headers'[l + 1].capacity \in Nat \ {0, 1}
        /\ headers'[l + 1].tail \in Positions(l + 1)'
        /\ headers'[l + 1].index \in [Positions(l + 1)' -> 1..Capacity']
    BY <1>1, <1>2, <1>3, <2>4
  <2>6. \A p, q \in Positions(l + 1)' : headers'[l + 1].index[p] = headers'[l + 1].index[q] => p = q
    BY <1>1, <1>2, <1>4
  <2>7. Cong(Capacity', 0, headers'[l + 1].capacity)
    BY <1>1, <1>2, <2>1
  <2>8. \E o \in Int : \A p \in Positions(l + 1)', q \in Positions(Len(headers))' :
          headers'[l + 1].index[p] = blockIndex'.index[q] => Cong(q, p + o, headers'[l + 1].capacity)
    BY <1>1, <1>2, <2>3
  <2> QED
    BY <2>5, <2>6, <2>7, <2>8 DEF HeaderOK
<1>6. ASSUME NEW e \in 1..(2 * n)
      PROVE  \E p \in Newest' : blockIndex'.index[p] = e
  <2>1. CASE e <= n
    <3>1. e \in 1..Capacity
      BY <1>1, <2>1
    <3>2. PICK p \in Newest : blockIndex.index[p] = e
      BY <3>1, IndexShape
    <3>3. blockIndex'.index[Rank(p)] = e
      BY <3>2 DEF Grows
    <3>4. Rank(p) \in Newest'
      <4>1. Rank(p) \in 0..(Capacity - 1)
        BY Ranks
      <4> QED
        BY <1>1, <4>1
    <3> QED
      BY <3>3, <3>4
  <2>2. CASE e > n
    <3>1. e - 1 \in Newest' /\ e - 1 >= n /\ (e - 1) + 1 = e
      BY <1>1, <2>2
    <3>2. blockIndex'.index[e - 1] = e
      <4>1. \A q \in n..(2 * n - 1) : blockIndex'.index[q] = q + 1
        BY DEF Grows
      <4>2. e - 1 \in n..(2 * n - 1)
        BY <1>1, <2>2
      <4> QED
        BY <3>1, <4>1, <4>2
    <3> QED
      BY <3>1, <3>2
  <2> QED
    BY <1>1, <2>1, <2>2
<1>7. \A h \in 1..Len(headers') : HeaderOK(h)'
  <2>1. \A h \in 1..l : HeaderOK(h)'
    BY GrownOffset
  <2>2. \A h \in 1..(l + 1) : h \in 1..l \/ h = l + 1
    BY <1>1
  <2> QED
    BY <1>1, <1>5, <2>1, <2>2
<1> QED
  <2> HIDE DEF n
  <2> QED
    BY <1>1, <1>2, <1>6, <1>7 DEF HeadersOK

-----------------------------------------------------------------------------
(* The keys of the newest index.                                            *)

\* A key is the start of a block, and its entry's distance from the tail tells
\* of which: but for the entry after the tail, that the producer is inserting.
LEMMA KeyOf ==
  ASSUME Typed, HeadersOK, NEW top \in Nat, IndexInv(top),
         NEW p \in Newest, EntryAt(p).key # Invalid
  PROVE  \E j \in Nat :
           /\ EntryAt(p).key = Block(j)
           /\ \/ j = top - Capacity + Rank(p)
              \/ j = top /\ Rank(p) = 0 /\ ~Entered /\ EntryAt(p).value = NoBlock
<1>1. \/ EntryAt(p).key = Block(top - Capacity + Rank(p))
      \/ ~Entered /\ Rank(p) = 0 /\ EntryAt(p).key = Block(top) /\ EntryAt(p).value = NoBlock
  <2>1. \A q \in Newest :
         \/ EntryAt(q).key = Invalid
         \/ EntryAt(q).key = Block(top - Capacity + Rank(q))
         \/ ~Entered /\ Rank(q) = 0 /\ EntryAt(q).key = Block(top) /\ EntryAt(q).value = NoBlock
    BY DEF IndexInv, Newest
  <2> QED
    BY <2>1
<1>2. CASE EntryAt(p).key = Block(top - Capacity + Rank(p))
  <2>1. EntryAt(p).key \in Nat
    BY IndexShape DEF EntryAt
  <2>2. Capacity \in Nat /\ Rank(p) \in Int
    BY IndexShape, Ranks
  <2> DEFINE j == top - Capacity + Rank(p)
  <2>3. j \in Int
    BY <2>2
  <2>4. Block(j) >= 0
    BY <1>2, <2>1
  <2> HIDE DEF j
  <2>5. j >= 0
    <3>1. Block(0) = 0
      BY SizesAssumption DEF Block
    <3>2. j < 0 => Block(j) + BlockSize <= Block(0)
      BY <2>3, BlockSpaced
    <3>3. Block(j) \in Int
      BY <2>3, BlockSpaced
    <3> QED
      BY <2>3, <2>4, <3>1, <3>2, <3>3, SizesAssumption
  <2>6. j \in Nat /\ EntryAt(p).key = Block(j) /\ j = top - Capacity + Rank(p)
    BY <1>2, <2>3, <2>5 DEF j
  <2> QED
    BY <2>6
<1> QED
  BY <1>1, <1>2

\* Different entries have different keys.
LEMMA KeysDiffer ==
  ASSUME Typed, HeadersOK, IndexOK, NEW e \in 1..Capacity, NEW f \in 1..Capacity,
         Known(e), entries[e].key = entries[f].key
  PROVE  e = f
<1>1. PICK top \in Nat : IndexInv(top)
  BY DEF IndexOK
<1>2. PICK p \in Newest : blockIndex.index[p] = e
  BY IndexShape
<1>3. PICK q \in Newest : blockIndex.index[q] = f
  BY IndexShape
<1>4. EntryAt(p) = entries[e] /\ EntryAt(q) = entries[f]
  BY <1>2, <1>3 DEF EntryAt
<1>5. EntryAt(p).key # Invalid /\ EntryAt(q).key # Invalid
  BY <1>4 DEF Known
<1>6. PICK j \in Nat :
           /\ EntryAt(p).key = Block(j)
           /\ \/ j = top - Capacity + Rank(p)
              \/ j = top /\ Rank(p) = 0
  BY <1>1, <1>5, KeyOf
<1>7. PICK k \in Nat :
           /\ EntryAt(q).key = Block(k)
           /\ \/ k = top - Capacity + Rank(q)
              \/ k = top /\ Rank(q) = 0
  BY <1>1, <1>5, KeyOf
<1>8. j = k
  <2>1. Block(j) = Block(k)
    <3>1. EntryAt(p).key = Block(j)
      BY <1>6
    <3>2. EntryAt(q).key = Block(k)
      BY <1>7
    <3>3. EntryAt(p).key = EntryAt(q).key
      BY <1>4
    <3> HIDE DEF EntryAt, Block
    <3> QED
      BY <3>1, <3>2, <3>3
  <2> QED
    BY <2>1, BlockSpaced
<1>9. Rank(p) = Rank(q)
  <2>1. Rank(p) \in 0..(Capacity - 1) /\ Rank(q) \in 0..(Capacity - 1) /\ Capacity \in Nat
    BY Ranks, IndexShape
  <2> QED
    BY <1>6, <1>7, <1>8, <2>1
<1>10. p = q
  BY <1>9, Ranks
<1> QED
  BY <1>2, <1>3, <1>10

\* An entry with a block tells that the index is not empty: its tail has a key.
LEMMA TailKnown ==
  ASSUME Typed, HeadersOK, NEW top \in Nat, IndexInv(top),
         NEW e \in 1..Capacity, Known(e), Used(e)
  PROVE  /\ top # 0
         /\ EntryAt(blockIndex.tail).key # Invalid
<1>1. PICK p \in Newest : blockIndex.index[p] = e
  BY IndexShape
<1>2. EntryAt(p).key # Invalid /\ EntryAt(p).value # NoBlock
  BY <1>1 DEF EntryAt, Known, Used
<1>3. PICK j \in Nat : j = top - Capacity + Rank(p)
  BY <1>2, KeyOf
<1>4. Rank(p) \in 0..(Capacity - 1) /\ Capacity \in Nat
  BY Ranks, IndexShape
<1>5. top # 0
  BY <1>3, <1>4
<1> QED
  BY <1>5 DEF IndexInv

\* Where the producer needs a block, the index ends with the block before.
LEMMA IdleTop ==
  ASSUME tailIndex \in Nat, NEW top \in Nat, IndexInv(top), ppc = "idle", NeedsBlock
  PROVE  tailIndex = Block(top)
<1>1. Block(top - 1) < tailIndex /\ tailIndex <= Block(top)
  BY DEF IndexInv
<1>2. PICK j \in Nat : Base(tailIndex) = Block(j) /\ tailIndex % BlockSize = tailIndex - Block(j)
  BY BaseBlock
<1>3. tailIndex = Block(j)
  <2>1. Block(j) \in Int
    BY BlockSpaced
  <2> QED
    BY <1>2, <2>1 DEF NeedsBlock
<1>4. j <= top
  <2>1. Block(j) <= Block(top) /\ Block(top) \in Int /\ Block(j) \in Int
    BY <1>1, <1>3, BlockSpaced
  <2>2. top < j => Block(top) + BlockSize <= Block(j)
    BY BlockSpaced
  <2> QED
    BY <2>1, <2>2, SizesAssumption
<1>5. j >= top
  <2>1. Block(top - 1) < Block(j) /\ Block(top - 1) \in Int /\ Block(j) \in Int
    BY <1>1, <1>3, BlockSpaced
  <2>2. j < top - 1 => Block(j) + BlockSize <= Block(top - 1)
    BY BlockSpaced
  <2> QED
    BY <2>1, <2>2, SizesAssumption
<1> QED
  BY <1>3, <1>4, <1>5

\* A step that leaves the keys where they are, and enters no block.
LEMMA KeysStay ==
  ASSUME Typed, HeadersOK, NEW top \in Nat, IndexInv(top),
         UNCHANGED <<headers, tailIndex, ppc>>,
         \A e \in 1..Capacity : /\ entries'[e].key = entries[e].key
                                /\ entries'[e].value \in {entries[e].value, NoBlock}
  PROVE  IndexInv(top)'
<1>1. /\ blockIndex' = blockIndex /\ Capacity' = Capacity /\ Newest' = Newest
      /\ NewTail' = NewTail /\ Entered' = Entered
      /\ \A p : Rank(p)' = Rank(p)
  BY DEF blockIndex, Capacity, Newest, Positions, NewTail, Entered, Rank
<1>2. \A p \in Newest : /\ EntryAt(p)'.key = EntryAt(p).key
                        /\ EntryAt(p)'.value \in {EntryAt(p).value, NoBlock}
  <2>1. blockIndex.index \in [Newest -> 1..Capacity]
    BY IndexShape
  <2> QED
    BY <1>1, <2>1 DEF EntryAt
<1>3. NewTail \in Newest /\ blockIndex.tail \in Newest
  BY IndexShape, NextShape
<1> QED
  BY <1>1, <1>2, <1>3 DEF IndexInv, Newest

\* insert_block_index_entry sets the key of the entry after the tail.
LEMMA InsertKeyIndex ==
  ASSUME Typed, HeadersOK, NEW top \in Nat, IndexInv(top), tailIndex \in Nat,
         \A e \in 1..Capacity : ~Known(e) => ~Used(e),
         InsertKey
  PROVE  /\ IndexInv(top)'
         /\ ~Used(NextEntry) /\ NextEntry \in 1..Capacity
         /\ tailIndex = Block(top)
         /\ entries' = [entries EXCEPT ![NextEntry].key = tailIndex]
<1>1. /\ ppc = "idle" /\ NeedsBlock /\ EntryFree
      /\ entries' = [entries EXCEPT ![NextEntry].key = tailIndex]
      /\ ppc' = "key" /\ headers' = headers /\ tailIndex' = tailIndex
  BY DEF InsertKey
<1>2. tailIndex = Block(top)
  BY <1>1, IdleTop
<1>3. NextEntry \in 1..Capacity /\ NextEntry = blockIndex.index[NewTail]
      /\ NewTail \in Newest /\ Rank(NewTail) = 0
      /\ blockIndex.tail \in Newest /\ blockIndex.tail # NewTail
  BY NextShape, IndexShape
<1>4. ~Used(NextEntry)
  BY <1>1, <1>3 DEF EntryFree, Known, Used
<1>5. /\ blockIndex' = blockIndex /\ Capacity' = Capacity /\ Newest' = Newest
      /\ NewTail' = NewTail /\ ~Entered' /\ ~Entered
      /\ \A p : Rank(p)' = Rank(p)
  BY <1>1 DEF blockIndex, Capacity, Newest, Positions, NewTail, Entered, Rank
<1>6. ASSUME NEW p \in Newest, p = NewTail
      PROVE  EntryAt(p)'.key = tailIndex /\ EntryAt(p)'.value = NoBlock
  <2>1. blockIndex'.index[p] = NextEntry
    BY <1>3, <1>5, <1>6
  <2>2. entries'[NextEntry].key = tailIndex /\ entries'[NextEntry].value = NoBlock
    BY <1>1, <1>3, <1>4, IndexShape DEF Used, Typed
  <2> QED
    BY <2>1, <2>2 DEF EntryAt
<1>7. ASSUME NEW p \in Newest, p # NewTail PROVE EntryAt(p)' = EntryAt(p)
  <2>1. blockIndex.index[p] \in 1..Capacity /\ blockIndex.index[p] # NextEntry
    BY <1>3, <1>7, IndexShape
  <2> QED
    BY <1>1, <1>5, <2>1 DEF EntryAt, Typed
<1>8. ASSUME NEW p \in Newest
      PROVE \/ EntryAt(p)'.key = Invalid
            \/ EntryAt(p)'.key = Block(top - Capacity + Rank(p))
            \/ Rank(p) = 0 /\ EntryAt(p)'.key = Block(top) /\ EntryAt(p)'.value = NoBlock
  <2>1. CASE p = NewTail
    BY <1>2, <1>3, <1>6, <2>1, BlockSpaced
  <2>2. CASE p # NewTail
    BY <1>7, <2>2 DEF IndexInv, Newest
  <2> QED
    BY <2>1, <2>2
<1>9. top # 0 => EntryAt(blockIndex.tail)'.key # Invalid
  <2>1. ASSUME NEW p \in Newest, p = blockIndex.tail PROVE EntryAt(p)' = EntryAt(p)
    BY <1>3, <1>7, <2>1
  <2>2. EntryAt(blockIndex.tail)' = EntryAt(blockIndex.tail)
    BY <1>3, <1>5, <2>1 DEF EntryAt
  <2> QED
    BY <2>2 DEF IndexInv
<1>11. EntryAt(NewTail)'.key = tailIndex /\ EntryAt(NewTail)'.value = NoBlock
  BY <1>3, <1>5, <1>6 DEF EntryAt
<1>10. IndexInv(top)'
  BY <1>1, <1>2, <1>5, <1>8, <1>9, <1>11 DEF IndexInv, Newest
<1> QED
  BY <1>1, <1>2, <1>3, <1>4, <1>10

\* Positions counted from the entry after the next tail, or the previous one.
LEMMA RankMoves ==
  ASSUME Typed, HeadersOK, NEW t \in Newest, TailMoves(t)
  PROVE  /\ Capacity' = Capacity /\ Newest' = Newest
         /\ blockIndex'.tail = t /\ blockIndex'.index = blockIndex.index
         /\ t = NewTail =>
              \A p \in Newest : Rank(p)' = IF p = NewTail THEN Capacity - 1 ELSE Rank(p) - 1
         /\ t = (blockIndex.tail - 1) % Capacity =>
              /\ NewTail' = blockIndex.tail
              /\ \A p \in Newest :
                   Rank(p)' = IF p = blockIndex.tail THEN 0 ELSE Rank(p) + 1
<1>1. /\ Capacity' = Capacity /\ Newest' = Newest
      /\ blockIndex'.tail = t /\ blockIndex'.index = blockIndex.index /\ HeadersOK'
  BY TailMovedHeaders
<1>2. /\ Capacity \in Nat \ {0, 1} /\ Newest = 0..(Capacity - 1)
      /\ blockIndex.tail \in 0..(Capacity - 1)
  BY IndexShape
<1>3. ASSUME t = NewTail, NEW p \in Newest
      PROVE  Rank(p)' = IF p = NewTail THEN Capacity - 1 ELSE Rank(p) - 1
  <2>1. t = (IF blockIndex.tail = Capacity - 1 THEN 0 ELSE blockIndex.tail + 1)
    BY <1>3, NextShape
  <2> QED
    BY <1>1, <1>2, <1>3, <2>1 DEF Rank
<1>4. ASSUME t = (blockIndex.tail - 1) % Capacity
      PROVE  /\ NewTail' = blockIndex.tail
             /\ \A p \in Newest :
                  Rank(p)' = IF p = blockIndex.tail THEN 0 ELSE Rank(p) + 1
  <2>1. t = IF blockIndex.tail = 0 THEN Capacity - 1 ELSE blockIndex.tail - 1
    <3>1. \A r \in 0..(Capacity - 1) : (r - 1) % Capacity = IF r = 0 THEN Capacity - 1 ELSE r - 1
      BY <1>2, RoundBack
    <3> QED
      BY <1>2, <1>4, <3>1
  <2>2. NewTail' = (t + 1) % Capacity
    BY <1>1 DEF NewTail, Capacity
  <2>3. \A a \in Int : 0 <= a /\ a < 2 * Capacity =>
          a % Capacity = IF a < Capacity THEN a ELSE a - Capacity
    BY <1>2, RoundOnce
  <2>4. t \in Int /\ t + 1 \in Int /\ 0 <= t + 1 /\ t + 1 < 2 * Capacity
    BY <1>2
  <2>5. NewTail' = blockIndex.tail
    <3>1. NewTail' = IF t + 1 < Capacity THEN t + 1 ELSE t + 1 - Capacity
      <4> DEFINE a == t + 1
      <4>2. a \in Int /\ 0 <= a /\ a < 2 * Capacity
        BY <2>4
      <4> HIDE DEF a
      <4>3. a % Capacity = IF a < Capacity THEN a ELSE a - Capacity
        BY <2>3, <4>2
      <4>1. (t + 1) % Capacity = IF t + 1 < Capacity THEN t + 1 ELSE t + 1 - Capacity
        BY <1>2, <2>4, <4>2, <4>3 DEF a
      <4> QED
        BY <2>2, <4>1
    <3> HIDE DEF Capacity, NewTail
    <3>2. CASE blockIndex.tail = 0
      BY <1>2, <2>1, <3>1, <3>2
    <3>3. CASE blockIndex.tail # 0
      BY <1>2, <2>1, <3>1, <3>3
    <3> QED
      BY <3>2, <3>3
  <2>6. \A p \in Newest : Rank(p)' = IF p = blockIndex.tail THEN 0 ELSE Rank(p) + 1
    BY <1>1, <1>2, <2>1, SMTT(30) DEF Rank
  <2> QED
    BY <2>5, <2>6
<1> QED
  BY <1>1, <1>3, <1>4

\* ... and the tail moves to that entry.
LEMMA InsertTailIndex ==
  ASSUME Typed, HeadersOK, NEW top \in Nat, IndexInv(top), InsertTail
  PROVE  /\ IndexInv(top + 1)'
         /\ NewTail \in Newest /\ SetIndexTail(NewTail)
<1>1. /\ ppc = "key" /\ ppc' = "requisition" /\ SetIndexTail(NewTail)
      /\ tailIndex' = tailIndex /\ entries' = entries
  BY DEF InsertTail, blockVars
<1>2. NewTail \in Newest /\ NewTail # blockIndex.tail
  BY NextShape
<1>3. TailMoves(NewTail)
  BY <1>1, <1>2, TailMoved DEF SetIndexTail
<1>4. /\ Capacity' = Capacity /\ Newest' = Newest
      /\ blockIndex'.tail = NewTail /\ blockIndex'.index = blockIndex.index
      /\ \A p \in Newest : Rank(p)' = IF p = NewTail THEN Capacity - 1 ELSE Rank(p) - 1
  BY <1>2, <1>3, RankMoves
<1>5. Capacity \in Nat \ {0, 1} /\ blockIndex.tail \in Newest
  BY IndexShape
<1>6. tailIndex = Block(top) /\ EntryAt(NewTail).key = tailIndex /\ EntryAt(NewTail).value = NoBlock
      /\ ~Entered /\ Entered'
  BY <1>1 DEF IndexInv, Entered
<1>7. \A p \in Newest : EntryAt(p)' = EntryAt(p)
  BY <1>1, <1>4 DEF EntryAt
<1>8. EntryAt(blockIndex.tail)' = EntryAt(NewTail)
  BY <1>1, <1>4 DEF EntryAt
<1>9. tailIndex # Invalid
  <2>1. top >= 1 => Block(0) + BlockSize <= Block(top)
    BY BlockSpaced
  <2>2. Block(0) = 0 /\ Block(top) \in Int
    BY SizesAssumption, BlockSpaced DEF Block
  <2>3. top = 0 \/ top >= 1
    OBVIOUS
  <2> QED
    BY <1>6, <2>1, <2>2, <2>3, SizesAssumption DEF Invalid
<1>12. PICK new \in Nat : new = top + 1
  OBVIOUS
<1>10. ASSUME NEW p \in Newest
       PROVE  \/ EntryAt(p)'.key = Invalid
              \/ EntryAt(p)'.key = Block(new - Capacity + Rank(p)')
  <2>1. CASE p = NewTail
    <3>1. Rank(p)' = Capacity - 1 /\ new - Capacity + (Capacity - 1) = top
      BY <1>4, <1>5, <1>12, <2>1
    <3>2. EntryAt(p)'.key = Block(top)
      BY <1>6, <1>7, <2>1
    <3> QED
      BY <3>1, <3>2
  <2>2. CASE p # NewTail
    <3>1. Rank(p)' = Rank(p) - 1 /\ Rank(p) # 0 /\ Rank(p) \in Int
      BY <1>4, <2>2, Ranks
    <3>2. new - Capacity + (Rank(p) - 1) = top - Capacity + Rank(p)
      BY <1>5, <1>12, <3>1
    <3>3. \/ EntryAt(p).key = Invalid
          \/ EntryAt(p).key = Block(top - Capacity + Rank(p))
      BY <3>1 DEF IndexInv, Newest
    <3> QED
      BY <1>7, <3>1, <3>2, <3>3
  <2> QED
    BY <2>1, <2>2
<1>11. ASSUME NEW p \in Newest, Rank(p)' = Capacity - 2, top # 0
       PROVE  EntryAt(p)'.key # Invalid
  <2>1. p # NewTail
    BY <1>4, <1>5, <1>11
  <2>2. Rank(p) = Capacity - 1
    BY <1>4, <1>5, <1>11, <2>1, Ranks
  <2>3. p = blockIndex.tail
    BY <2>2, Ranks
  <2>4. EntryAt(p).key # Invalid
    BY <1>11, <2>3 DEF IndexInv
  <2> QED
    BY <1>7, <2>4
<1>13. tailIndex' = Block(new - 1)
  <2>1. new - 1 = top
    BY <1>12
  <2> QED
    BY <1>1, <1>6, <2>1
<1>14. /\ EntryAt(blockIndex.tail)'.key = tailIndex' /\ EntryAt(blockIndex.tail)'.key # Invalid
       /\ EntryAt(blockIndex.tail)'.value = NoBlock
  BY <1>1, <1>6, <1>8, <1>9
<1>15. new > 1 => \A p \in Newest : Rank(p)' = Capacity - 2 => EntryAt(p)'.key # Invalid
  BY <1>11, <1>12
<1>16. IndexInv(new)'
  BY <1>1, <1>4, <1>6, <1>10, <1>13, <1>14, <1>15 DEF IndexInv, Newest
<1>17. IndexInv(top + 1)'
  BY <1>12, <1>16
<1> QED
  BY <1>1, <1>2, <1>17

\* When memory is exhausted the tail moves back.
LEMMA RewindIndex ==
  ASSUME Typed, HeadersOK, NEW top \in Nat, IndexInv(top), tailIndex \in Nat,
         ppc = "requisition", ppc' = "rewound", UNCHANGED <<tailIndex, entries>>,
         NEW t \in Newest, t = (blockIndex.tail - 1) % Capacity, TailMoves(t)
  PROVE  \E next \in Nat : IndexInv(next)'
<1>1. /\ Capacity' = Capacity /\ Newest' = Newest
      /\ blockIndex'.tail = t /\ blockIndex'.index = blockIndex.index
      /\ NewTail' = blockIndex.tail
      /\ \A p \in Newest : Rank(p)' = IF p = blockIndex.tail THEN 0 ELSE Rank(p) + 1
  BY RankMoves
<1>2. Capacity \in Nat \ {0, 1} /\ blockIndex.tail \in Newest
  BY IndexShape
<1>3. /\ tailIndex = Block(top - 1) /\ EntryAt(blockIndex.tail).key = tailIndex
      /\ EntryAt(blockIndex.tail).value = NoBlock /\ Entered /\ ~Entered'
  BY DEF IndexInv, Entered
<1>4. top - 1 \in Nat
  <2>1. top = 0 => Block(top - 1) + BlockSize <= Block(0)
    BY BlockSpaced
  <2>2. Block(0) = 0 /\ Block(top - 1) \in Int
    BY SizesAssumption, BlockSpaced DEF Block
  <2> QED
    BY <1>3, <2>1, <2>2, SizesAssumption
<1>5. \A p \in Newest : EntryAt(p)' = EntryAt(p)
  BY <1>1 DEF EntryAt
<1>6. EntryAt(NewTail)' = EntryAt(blockIndex.tail)
  BY <1>1 DEF EntryAt
<1>7. ASSUME NEW p \in Newest
      PROVE  \/ EntryAt(p)'.key = Invalid
             \/ EntryAt(p)'.key = Block(top - 1 - Capacity + Rank(p)')
             \/ /\ Rank(p)' = 0 /\ EntryAt(p)'.key = Block(top - 1)
                /\ EntryAt(p)'.value = NoBlock
  <2>1. CASE p = blockIndex.tail
    BY <1>1, <1>3, <1>5, <2>1
  <2>2. CASE p # blockIndex.tail
    <3>1. Rank(p)' = Rank(p) + 1 /\ Rank(p) \in Int
      BY <1>1, <2>2, Ranks
    <3>2. top - 1 - Capacity + (Rank(p) + 1) = top - Capacity + Rank(p)
      BY <1>2, <3>1
    <3>3. \/ EntryAt(p).key = Invalid
          \/ EntryAt(p).key = Block(top - Capacity + Rank(p))
      BY <1>3 DEF IndexInv, Newest
    <3> QED
      BY <1>5, <3>1, <3>2, <3>3
  <2> QED
    BY <2>1, <2>2
<1>8. ASSUME top - 1 # 0
      PROVE  EntryAt(blockIndex.tail)'.key # Invalid
  <2>1. Rank(t)' = Capacity - 1
    <3>1. blockIndex'.tail = t /\ t \in Newest /\ Newest = 0..(Capacity - 1)
      BY <1>1, IndexShape
    <3> QED
      BY <1>1, <1>2, <3>1 DEF Rank
  <2>2. t # blockIndex.tail /\ Rank(t) = Capacity - 2
    <3>1. Rank(t) \in Int
      BY Ranks
    <3> QED
      BY <1>1, <1>2, <2>1, <3>1
  <2>3. EntryAt(t).key # Invalid
    <3>1. top > 1
      BY <1>4, <1>8
    <3> QED
      BY <1>3, <2>2, <3>1 DEF IndexInv, Newest
  <2>4. EntryAt(blockIndex.tail)' = EntryAt(t)
    BY <1>1 DEF EntryAt
  <2> QED
    BY <2>3, <2>4
<1>9. IndexInv(top - 1)'
  BY <1>1, <1>3, <1>6, <1>7, <1>8 DEF IndexInv, Newest
<1> QED
  BY <1>4, <1>9

\* The block is stored in the entry of the tail.
LEMMA StoreIndex ==
  ASSUME Typed, HeadersOK, NEW top \in Nat, IndexInv(top), tailIndex \in Nat, StoreValue
  PROVE  /\ IndexInv(top)'
         /\ \E e \in 1..Capacity :
              /\ e = blockIndex.index[blockIndex.tail]
              /\ entries[e].key = tailIndex /\ ~Used(e)
              /\ entries' = [entries EXCEPT ![e].value = newBlock]
         /\ \E j \in Int : tailIndex = Block(j)
<1>1. /\ ppc = "value" /\ ppc' = "publish"
      /\ entries' = [entries EXCEPT ![blockIndex.index[blockIndex.tail]].value = newBlock]
      /\ headers' = headers /\ tailIndex' = tailIndex
  BY DEF StoreValue
<1>2. /\ blockIndex' = blockIndex /\ Capacity' = Capacity /\ Newest' = Newest
      /\ NewTail' = NewTail /\ Entered' /\ Entered
      /\ \A p : Rank(p)' = Rank(p)
  BY <1>1 DEF blockIndex, Capacity, Newest, Positions, NewTail, Entered, Rank
<1>3. /\ blockIndex.tail \in Newest
      /\ blockIndex.index \in [Newest -> 1..Capacity]
  BY IndexShape
<1>4. \A e \in 1..Capacity : entries'[e].key = entries[e].key
  BY <1>1, <1>3 DEF Typed
<1>5. \A p \in Newest : EntryAt(p)'.key = EntryAt(p).key
  BY <1>2, <1>3, <1>4 DEF EntryAt
<1>6. EntryAt(blockIndex.tail)'.key = EntryAt(blockIndex.tail).key
  BY <1>2, <1>3, <1>5 DEF EntryAt
<1>7. IndexInv(top)'
  <2>1. \A p \in Newest : EntryAt(p).key = Invalid \/ EntryAt(p).key = Block(top - Capacity + Rank(p))
    BY <1>2 DEF IndexInv, Newest
  <2>2. \A p \in Newest :
          EntryAt(p)'.key = Invalid \/ EntryAt(p)'.key = Block(top - Capacity' + Rank(p)')
    BY <1>2, <1>5, <2>1
  <2> QED
    BY <1>1, <1>2, <1>5, <1>6, <2>2 DEF IndexInv, Newest
<1>8. EntryAt(blockIndex.tail).key = tailIndex /\ EntryAt(blockIndex.tail).value = NoBlock
      /\ tailIndex = Block(top - 1)
  BY <1>1, <1>2 DEF IndexInv
<1>9. blockIndex.index[blockIndex.tail] \in 1..Capacity
  BY <1>3
<1>10. PICK e \in 1..Capacity : e = blockIndex.index[blockIndex.tail]
  BY <1>9
<1>11. entries[e].key = tailIndex /\ ~Used(e)
  BY <1>8, <1>10 DEF EntryAt, Used
<1>12. top - 1 \in Int
  OBVIOUS
<1> QED
  BY <1>1, <1>7, <1>8, <1>10, <1>11, <1>12

\* Publishing stays within the last block entered.
LEMMA PublishIndex ==
  ASSUME Typed, HeadersOK, NEW top \in Nat, IndexInv(top), tailIndex \in Nat, Publish
  PROVE  IndexInv(top)'
<1>1. /\ ppc = "publish" \/ (ppc = "idle" /\ ~NeedsBlock)
      /\ ppc' = "idle" /\ tailIndex' = tailIndex + 1
      /\ headers' = headers /\ entries' = entries
  BY DEF Publish
<1>2. /\ blockIndex' = blockIndex /\ Capacity' = Capacity /\ Newest' = Newest /\ ~Entered'
      /\ \A p : Rank(p)' = Rank(p) /\ EntryAt(p)' = EntryAt(p)
      /\ EntryAt(blockIndex.tail)' = EntryAt(blockIndex.tail)
  BY <1>1 DEF blockIndex, Capacity, Newest, Positions, Rank, Entered, EntryAt
<1>3. Block(top - 1) < tailIndex + 1 /\ tailIndex + 1 <= Block(top)
  <2>1. Block(top) = Block(top - 1) + BlockSize /\ Block(top - 1) \in Int
    <3>1. top - 1 \in Int /\ top - 1 + 1 = top
      OBVIOUS
    <3> QED
      BY <3>1, BlockSpaced
  <2>2. CASE ppc = "publish"
    <3>1. tailIndex = Block(top - 1)
      BY <2>2 DEF IndexInv, Entered
    <3> QED
      BY <2>1, <3>1, SizesAssumption
  <2>3. CASE ppc = "idle" /\ ~NeedsBlock
    <3>1. Block(top - 1) < tailIndex /\ tailIndex <= Block(top)
      BY <2>3 DEF IndexInv
    <3>2. tailIndex # Block(top)
      <4>1. ASSUME tailIndex = Block(top) PROVE tailIndex % BlockSize = tailIndex - Block(top)
        BY <2>1, <4>1, BaseUnique, SizesAssumption
      <4> QED
        BY <2>3, <4>1 DEF NeedsBlock
    <3> QED
      BY <2>1, <3>1, <3>2, SizesAssumption
  <2> QED
    BY <1>1, <2>2, <2>3
<1>4. \A p \in Newest :
         \/ EntryAt(p).key = Invalid
         \/ EntryAt(p).key = Block(top - Capacity + Rank(p))
         \/ Rank(p) = 0 /\ EntryAt(p).key = Block(top) /\ EntryAt(p).value = NoBlock
  BY DEF IndexInv, Newest
<1>5. \A p \in Newest' :
         \/ EntryAt(p)'.key = Invalid
         \/ EntryAt(p)'.key = Block(top - Capacity' + Rank(p)')
         \/ Rank(p)' = 0 /\ EntryAt(p)'.key = Block(top) /\ EntryAt(p)'.value = NoBlock
  BY <1>2, <1>4
<1>6. top # 0 => EntryAt(blockIndex.tail)'.key # Invalid
  BY <1>2 DEF IndexInv
<1> QED
  BY <1>1, <1>2, <1>3, <1>5, <1>6 DEF IndexInv, Newest

\* A grown index has the same keys as far from its tail, and behind them new
\* entries.
LEMMA GrownIndex ==
  ASSUME Typed, HeadersOK, NEW top \in Nat, IndexInv(top), tailIndex \in Nat,
         \A e \in 1..Capacity : ~Known(e) => ~Used(e),
         GrowIndex
  PROVE  /\ IndexInv(top)'
         /\ Known(blockIndex.index[blockIndex.tail])
<1>1. /\ ppc = "idle" /\ ppc' = "idle" /\ ~EntryFree /\ tailIndex' = tailIndex
  BY DEF GrowIndex
<1>2. Grows
  BY IndexGrows
<1> DEFINE n == Capacity
<1>3. /\ n \in Nat \ {0, 1} /\ n \in Int /\ Capacity' = 2 * n
      /\ Newest' = 0..(2 * n - 1)
      /\ \A q \in Newest' :
           \/ /\ q < n /\ blockIndex'.index[q] \in 1..n
              /\ \E p \in Newest : q = Rank(p) /\ blockIndex'.index[q] = blockIndex.index[p]
           \/ q >= n /\ blockIndex'.index[q] = q + 1
  BY <1>2, GrownShape
<1>4. /\ blockIndex'.tail = n - 1
      /\ \A e \in 1..n : entries'[e] = entries[e]
      /\ \A e \in (n + 1)..(2 * n) : entries'[e].key = Invalid
      /\ \A p \in Newest : blockIndex'.index[Rank(p)] = blockIndex.index[p]
  BY <1>2 DEF Grows
<1>5. /\ blockIndex.tail \in Newest /\ Newest = 0..(n - 1)
      /\ blockIndex.index \in [Newest -> 1..n]
      /\ NextEntry \in 1..n /\ NextEntry = blockIndex.index[NewTail]
      /\ NewTail \in Newest
  BY IndexShape, NextShape
<1>6. Used(NextEntry) /\ Known(NextEntry)
  BY <1>1, <1>5 DEF EntryFree, Used, Known
<1>7. top # 0 /\ EntryAt(blockIndex.tail).key # Invalid
  BY <1>5, <1>6, TailKnown
<1>8. ~Entered' /\ ~Entered
  BY <1>1 DEF Entered
<1>9. ASSUME NEW q \in Newest'
      PROVE  Rank(q)' = IF q < n THEN q + n ELSE q - n
  <2>1. Rank(q)' = IF q > n - 1 THEN q - (n - 1) - 1 ELSE q - (n - 1) - 1 + 2 * n
    BY <1>3, <1>4 DEF Rank
  <2> HIDE DEF n
  <2> QED
    BY <1>3, <2>1
<1>10. ASSUME NEW p \in Newest
       PROVE \/ EntryAt(p).key = Invalid
             \/ EntryAt(p).key = Block(top - n + Rank(p))
  <2>1. \/ EntryAt(p).key = Invalid
        \/ EntryAt(p).key = Block(top - n + Rank(p))
        \/ Rank(p) = 0 /\ EntryAt(p).value = NoBlock
    BY DEF IndexInv, Newest
  <2>2. ASSUME Rank(p) = 0 PROVE EntryAt(p).value # NoBlock
    <3>1. p = NewTail
      BY <2>2, Ranks
    <3> QED
      BY <1>5, <1>6, <3>1 DEF EntryAt, Used
  <2> QED
    BY <2>1, <2>2
<1>11. ASSUME NEW q \in Newest'
       PROVE  \/ EntryAt(q)'.key = Invalid
              \/ EntryAt(q)'.key = Block(top - 2 * n + Rank(q)')
  <2>1. CASE q < n
    <3>1. PICK p \in Newest : q = Rank(p) /\ blockIndex'.index[q] = blockIndex.index[p]
      BY <1>3, <2>1
    <3>2. EntryAt(q)' = EntryAt(p)
      BY <1>4, <1>5, <3>1 DEF EntryAt
    <3>3. Rank(q)' = Rank(p) + n /\ Rank(p) \in Int
      BY <1>9, <2>1, <3>1, Ranks
    <3>4. top - 2 * n + (Rank(p) + n) = top - n + Rank(p)
      <4> HIDE DEF n
      <4> QED
        BY <1>3, <3>3
    <3> QED
      BY <1>10, <3>2, <3>3, <3>4
  <2>2. CASE q >= n
    <3>1. blockIndex'.index[q] = q + 1
      BY <1>3, <2>2
    <3>2. q + 1 \in (n + 1)..(2 * n)
      BY <1>3, <2>2
    <3> QED
      BY <1>4, <3>1, <3>2 DEF EntryAt
  <2> QED
    BY <1>3, <2>1, <2>2
<1>12. EntryAt(blockIndex.tail)'.key # Invalid
  <2>1. Rank(blockIndex.tail) = n - 1
    BY <1>5, Ranks
  <2>2. blockIndex'.index[n - 1] = blockIndex.index[blockIndex.tail]
    BY <1>4, <1>5, <2>1
  <2>3. blockIndex.index[blockIndex.tail] \in 1..n
    BY <1>5
  <2>4. EntryAt(blockIndex.tail)' = EntryAt(blockIndex.tail)
    BY <1>4, <2>2, <2>3 DEF EntryAt
  <2> QED
    BY <1>7, <2>4
<1>13. Block(top - 1) < tailIndex /\ tailIndex <= Block(top)
  BY <1>1 DEF IndexInv
<1>14. \A q \in Newest' : \/ EntryAt(q)'.key = Invalid
                          \/ EntryAt(q)'.key = Block(top - Capacity' + Rank(q)')
  BY <1>3, <1>11
<1>15. IndexInv(top)'
  BY <1>1, <1>8, <1>12, <1>13, <1>14 DEF IndexInv, Newest
<1> QED
  BY <1>7, <1>15 DEF EntryAt, Known

LEMMA RewindValueIndex ==
  ASSUME Typed, HeadersOK, NEW top \in Nat, IndexInv(top), RewindValue
  PROVE  IndexInv(top)' /\ entries' = entries
<1>1. /\ ppc = "rewound" /\ ppc' = "idle"
      /\ entries' = [entries EXCEPT ![NextEntry].value = NoBlock]
      /\ headers' = headers /\ tailIndex' = tailIndex
  BY DEF RewindValue
<1>2. NextEntry \in 1..Capacity /\ EntryAt(NewTail) = entries[NextEntry]
  BY NextShape
<1>3. EntryAt(NewTail).key = tailIndex /\ EntryAt(NewTail).value = NoBlock
      /\ tailIndex = Block(top)
  BY <1>1 DEF IndexInv
<1>4. entries' = entries
  <2>1. entries[NextEntry].value = NoBlock
    BY <1>2, <1>3
  <2> QED
    BY <1>1, <1>2, <2>1 DEF Typed
<1>5. /\ blockIndex' = blockIndex /\ Capacity' = Capacity /\ Newest' = Newest /\ ~Entered' /\ ~Entered
      /\ \A p : Rank(p)' = Rank(p) /\ EntryAt(p)' = EntryAt(p)
      /\ EntryAt(blockIndex.tail)' = EntryAt(blockIndex.tail)
  BY <1>1, <1>4 DEF blockIndex, Capacity, Newest, Positions, Rank, Entered, EntryAt
<1>6. Block(top - 1) < tailIndex /\ tailIndex <= Block(top)
  <2>1. top - 1 \in Int /\ top - 1 + 1 = top
    OBVIOUS
  <2>2. Block(top) = Block(top - 1) + BlockSize /\ Block(top - 1) \in Int
    BY <2>1, BlockSpaced
  <2> QED
    BY <1>3, <2>2, SizesAssumption
<1>7. \A p \in Newest :
         \/ EntryAt(p)'.key = Invalid
         \/ EntryAt(p)'.key = Block(top - Capacity' + Rank(p)')
         \/ Rank(p)' = 0 /\ EntryAt(p)'.key = Block(top) /\ EntryAt(p)'.value = NoBlock
  <2>1. \A p \in Newest :
         \/ EntryAt(p).key = Invalid
         \/ EntryAt(p).key = Block(top - Capacity + Rank(p))
         \/ Rank(p) = 0 /\ EntryAt(p).key = Block(top) /\ EntryAt(p).value = NoBlock
    BY DEF IndexInv, Newest
  <2> QED
    BY <1>5, <2>1
<1>8. top # 0 => EntryAt(blockIndex.tail)'.key # Invalid
  BY <1>5 DEF IndexInv
<1> QED
  BY <1>1, <1>4, <1>5, <1>6, <1>7, <1>8 DEF IndexInv, Newest

-----------------------------------------------------------------------------
(* A block while its elements are claimed and moved out.                    *)

Whole == CountersOK /\ ClaimsCovered /\ BlocksInv

\* What holds of every entry with a block.
LEMMA UsedEntry ==
  ASSUME Whole, NEW e \in 1..Capacity, Used(e)
  PROVE  /\ Known(e) /\ entries[e].value \in Blocks /\ entries[e].value \notin free
         /\ entries[e].value # newBlock
         /\ entries[e].key \in Nat
         /\ \E j \in Nat : entries[e].key = Block(j)
         /\ \A f \in 1..Capacity : entries[f].key = entries[e].key => f = e
         /\ \A f \in 1..Capacity : entries[f].value = entries[e].value => f = e
         /\ dequeued[entries[e].value] \in Nat
<1>1. Typed /\ HeadersOK /\ IndexOK /\ ProducerOK /\ OwnerOK
  BY DEF Whole, BlocksInv
<1>2. Known(e)
  BY <1>1 DEF ProducerOK, Known
<1>3. entries[e].value \in Blocks /\ entries[e].key \in Nat
  BY <1>1, IndexShape DEF Used
<1>4. entries[e].value \notin free /\ entries[e].value # newBlock
  BY <1>1 DEF OwnerOK
<1>5. \E j \in Nat : entries[e].key = Block(j)
  <2>1. PICK top \in Nat : IndexInv(top)
    BY <1>1 DEF IndexOK
  <2>2. PICK p \in Newest : blockIndex.index[p] = e
    BY <1>1, IndexShape
  <2>3. EntryAt(p) = entries[e] /\ EntryAt(p).key # Invalid
    BY <1>2, <2>2 DEF EntryAt, Known
  <2> QED
    BY <1>1, <2>1, <2>3, KeyOf
<1>6. \A f \in 1..Capacity : entries[f].key = entries[e].key => f = e
  BY <1>1, <1>2, KeysDiffer
<1>7. \A f \in 1..Capacity : entries[f].value = entries[e].value => f = e
  BY <1>1 DEF OwnerOK
<1>8. dequeued[entries[e].value] \in Nat
  BY <1>1, <1>3 DEF Typed
<1> QED
  BY <1>2, <1>3, <1>4, <1>5, <1>6, <1>7, <1>8

LEMMA WorkingFinite ==
  ASSUME NEW k
  PROVE  /\ IsFiniteSet(Working(k)) /\ Cardinality(Working(k)) \in Nat
         /\ Working(k) # {} => Cardinality(Working(k)) >= 1
         /\ Working(k) = {} => Cardinality(Working(k)) = 0
<1>1. Working(k) \subseteq Consumers
  BY DEF Working
<1>2. IsFiniteSet(Working(k))
  BY <1>1, FS_Subset, ThreadsAssumption
<1>3. Cardinality(Working(k)) \in Nat
  BY <1>2, FS_CardinalityType
<1>4. Cardinality(Working(k)) = 0 <=> Working(k) = {}
  BY <1>2, FS_EmptySet
<1> QED
  BY <1>2, <1>3, <1>4

LEMMA ClaimedBounds ==
  ASSUME headIndex \in Nat, NEW k \in Nat
  PROVE  /\ Claimed(k) \in 0..BlockSize
         /\ Claimed(k) = BlockSize => headIndex >= k + BlockSize
BY SizesAssumption DEF Claimed

\* Who is about to take a block out of the index finds its elements all moved out.
LEMMA Emptied ==
  ASSUME Whole, NEW c \in Consumers, cpc[c] = "unlink"
  PROVE  /\ local[c].entry \in 1..Capacity /\ Used(local[c].entry)
         /\ entries[local[c].entry].value = local[c].block
         /\ dequeued[local[c].block] = BlockSize
         /\ Working(entries[local[c].entry].key) = {}
         /\ headIndex >= entries[local[c].entry].key + BlockSize
<1> DEFINE e == local[c].entry
<1>1. /\ e \in 1..Capacity /\ Used(e) /\ entries[e].value = local[c].block
      /\ dequeued[local[c].block] = BlockSize
  BY DEF Whole, BlocksInv, ConsumerOK
<1>2. CountOK(e)
  BY <1>1 DEF Whole, BlocksInv
<1> HIDE DEF e
<1>3. BlockSize + Cardinality(Working(entries[e].key)) = Claimed(entries[e].key)
  BY <1>1, <1>2 DEF CountOK
<1>4. entries[e].key \in Nat /\ headIndex \in Nat
  BY <1>1, UsedEntry DEF Whole, CountersOK
<1>5. /\ Claimed(entries[e].key) \in 0..BlockSize
      /\ Claimed(entries[e].key) = BlockSize => headIndex >= entries[e].key + BlockSize
  BY <1>4, ClaimedBounds
<1>6. Cardinality(Working(entries[e].key)) \in Nat
      /\ (Working(entries[e].key) # {} => Cardinality(Working(entries[e].key)) >= 1)
      /\ (Working(entries[e].key) = {} => Cardinality(Working(entries[e].key)) = 0)
  BY WorkingFinite
<1>7. Working(entries[e].key) = {} /\ Claimed(entries[e].key) = BlockSize
  BY <1>3, <1>5, <1>6, SizesAssumption
<1> QED
  BY <1>1, <1>5, <1>7 DEF e

\* A block is not empty while somebody moves an element out of it.
LEMMA Busy ==
  ASSUME Whole, NEW c \in Consumers, Started(c),
         NEW e \in 1..Capacity, Used(e), entries[e].key = Base(local[c].index)
  PROVE  /\ dequeued[entries[e].value] < BlockSize
         /\ \A d \in Consumers : cpc[d] = "unlink" => local[d].entry # e
<1>1. CountOK(e)
  BY DEF Whole, BlocksInv
<1>2. dequeued[entries[e].value] + Cardinality(Working(entries[e].key)) = Claimed(entries[e].key)
  BY <1>1 DEF CountOK
<1>3. entries[e].key \in Nat /\ headIndex \in Nat /\ dequeued[entries[e].value] \in Nat
  BY UsedEntry DEF Whole, CountersOK
<1>4. Claimed(entries[e].key) \in 0..BlockSize
  BY <1>3, ClaimedBounds
<1>5. c \in Working(entries[e].key)
  BY DEF Working
<1>6. Cardinality(Working(entries[e].key)) \in Nat /\ Cardinality(Working(entries[e].key)) >= 1
  BY <1>5, WorkingFinite
<1>7. dequeued[entries[e].value] < BlockSize
  BY <1>2, <1>3, <1>4, <1>6, SizesAssumption
<1>8. ASSUME NEW d \in Consumers, cpc[d] = "unlink", local[d].entry = e
      PROVE  FALSE
  BY <1>5, <1>8, Emptied
<1> QED
  BY <1>7, <1>8

-----------------------------------------------------------------------------
(* The producer's steps.                                                    *)

\* A step of the producer that keeps the blocks of all entries.
Keeps ==
  /\ UNCHANGED <<headIndex, consumerVars>>
  /\ Capacity' \in Nat /\ Capacity <= Capacity'
  /\ Len(headers') \in Nat /\ Len(headers) <= Len(headers')
  /\ \A h \in 1..Len(headers) : /\ headers'[h].capacity = headers[h].capacity
                                /\ headers'[h].index = headers[h].index
  /\ \A e \in 1..Capacity : /\ Used(e) => entries'[e] = entries[e]
                            /\ Known(e) => Known(e)'
  /\ \A b \in Blocks : b \notin free \cup {newBlock} => dequeued'[b] = dequeued[b]

\* ... and gives no block to an entry either.
Prepares ==
  /\ Keeps /\ UNCHANGED <<tailIndex, elements, tailBlock>>
  /\ \A e \in 1..Capacity' : Used(e)' => e \in 1..Capacity /\ Used(e)

LEMMA PreparedEntries ==
  ASSUME Whole, Prepares, NEW e \in 1..Capacity'
  PROVE  CountOK(e)' /\ ContentOK(e)'
<1> SUFFICES ASSUME Used(e)' PROVE CountOK(e)' /\ ContentOK(e)'
  BY DEF CountOK, ContentOK
<1>1. e \in 1..Capacity /\ Used(e) /\ entries'[e] = entries[e]
  BY DEF Prepares, Keeps
<1>2. CountOK(e) /\ ContentOK(e)
  BY <1>1 DEF Whole, BlocksInv
<1>3. dequeued'[entries[e].value] = dequeued[entries[e].value]
  BY <1>1, UsedEntry DEF Prepares, Keeps
<1>4. UNCHANGED <<headIndex, tailIndex, elements, cpc, local>>
  BY DEF Prepares, Keeps, consumerVars
<1>5. \A k : Working(k)' = Working(k) /\ Claimed(k)' = Claimed(k)
  BY <1>4 DEF Working, Claimed, Started, Moving
<1>6. \A i : Pending(i)' = Pending(i)
  BY <1>4 DEF Pending, Moving
<1>7. CountOK(e)'
  BY <1>1, <1>2, <1>3, <1>5 DEF CountOK
<1>8. ContentOK(e)'
  BY <1>1, <1>2, <1>4, <1>6 DEF ContentOK
<1> QED
  BY <1>7, <1>8

LEMMA KeptLives ==
  ASSUME Keeps, Typed, HeadersOK, NEW k, Lives(k)
  PROVE  Lives(k)'
<1>1. PICK e \in 1..Capacity : entries[e].key = k /\ Used(e)
  BY DEF Lives
<1>2. entries'[e] = entries[e]
  BY <1>1 DEF Keeps
<1>3. e \in 1..Capacity'
  BY IndexShape DEF Keeps
<1> QED
  BY <1>1, <1>2, <1>3 DEF Lives, Used

LEMMA KeptConsumer ==
  ASSUME Whole, Keeps, NEW c \in Consumers
  PROVE  ConsumerOK(c)'
<1>1. ConsumerOK(c) /\ Typed /\ HeadersOK
  BY DEF Whole, BlocksInv
<1>2. UNCHANGED <<headIndex, cpc, local>>
  BY DEF Keeps, consumerVars
<1>3. Capacity \in Nat /\ Capacity' \in Nat /\ Capacity <= Capacity'
      /\ Len(headers) \in Nat /\ Len(headers') \in Nat /\ Len(headers) <= Len(headers')
  BY <1>1, IndexShape DEF Keeps
<1>4. Active(c)' = Active(c)
  BY <1>2 DEF Active, Started, Moving
<1> PICK k : k = Base(local[c].index)
  OBVIOUS
<1> PICK h : h = local[c].header
  OBVIOUS
<1> PICK s : s = local[c].slot
  OBVIOUS
<1>5. k = Base(local'[c].index) /\ h = local'[c].header /\ s = local'[c].slot
  BY <1>2
<1>6. ASSUME cpc[c] = "header" PROVE Lives(k)'
  <2>1. Lives(k)
    BY <1>1, <1>6 DEF ConsumerOK
  <2> QED
    BY <1>1, <2>1, KeptLives
<1>7. ASSUME cpc[c] \in {"slot", "key"}
      PROVE  /\ h \in 1..Len(headers')
             /\ \E p \in Positions(h)' : /\ entries'[headers'[h].index[p]].key = k
                                         /\ Used(headers[h].index[p])'
             /\ headers'[h].index = headers[h].index
             /\ Positions(h)' = Positions(h)
             /\ headers[h].index \in [Positions(h) -> 1..Capacity]
  <2>1. h \in 1..Len(headers)
    BY <1>1, <1>7 DEF ConsumerOK
  <2>2. PICK p \in Positions(h) : entries[headers[h].index[p]].key = k /\ Used(headers[h].index[p])
    BY <1>1, <1>7 DEF ConsumerOK
  <2>3. headers'[h].index = headers[h].index /\ headers'[h].capacity = headers[h].capacity
    BY <2>1 DEF Keeps
  <2>4. headers[h].index \in [Positions(h) -> 1..Capacity]
    BY <1>1, <2>1 DEF HeadersOK, HeaderOK
  <2>5. headers[h].index[p] \in 1..Capacity
    BY <2>4
  <2>6. entries'[headers[h].index[p]] = entries[headers[h].index[p]]
    BY <2>2, <2>5 DEF Keeps
  <2>7. Positions(h)' = Positions(h)
    BY <2>3 DEF Positions
  <2>8. h \in 1..Len(headers')
    BY <1>3, <2>1
  <2> QED
    BY <2>2, <2>3, <2>4, <2>6, <2>7, <2>8 DEF Used
<1>8. ASSUME cpc[c] = "key"
      PROVE  s \in Positions(h)' /\ Known(headers[h].index[s])'
  <2>1. s \in Positions(h) /\ Known(headers[h].index[s])
    BY <1>1, <1>8 DEF ConsumerOK
  <2>2. headers[h].index[s] \in 1..Capacity
    BY <1>7, <1>8, <2>1
  <2>3. \A e \in 1..Capacity : Known(e) => Known(e)'
    BY DEF Keeps
  <2>4. entries'[headers[h].index[s]].key # Invalid
    BY <2>1, <2>2, <2>3 DEF Known
  <2>5. headers'[h].index = headers[h].index /\ Positions(h)' = Positions(h)
    BY <1>7, <1>8
  <2> QED
    BY <2>1, <2>4, <2>5 DEF Known
<1>9. ASSUME cpc[c] \in {"value", "move", "setEmpty", "unlink"}
      PROVE  /\ local[c].entry \in 1..Capacity'
             /\ entries'[local[c].entry] = entries[local[c].entry]
             /\ dequeued'[entries[local[c].entry].value] = dequeued[entries[local[c].entry].value]
  <2>1. local[c].entry \in 1..Capacity /\ Used(local[c].entry)
    BY <1>1, <1>9 DEF ConsumerOK
  <2>2. entries'[local[c].entry] = entries[local[c].entry]
    BY <2>1 DEF Keeps
  <2>3. dequeued'[entries[local[c].entry].value] = dequeued[entries[local[c].entry].value]
    BY <2>1, UsedEntry DEF Keeps
  <2> QED
    BY <1>3, <2>1, <2>2, <2>3
<1>10. cpc'[c] = "header" => Lives(Base(local[c].index))'
  BY <1>2, <1>5, <1>6 DEF Lives
<1>11. cpc'[c] \in {"slot", "key"} =>
       /\ local'[c].header \in 1..Len(headers')
       /\ \E p \in Positions(local[c].header)' :
            /\ entries'[headers'[local'[c].header].index[p]].key = Base(local'[c].index)
            /\ Used(headers[local[c].header].index[p])'
  BY <1>2, <1>5, <1>7 DEF Positions, Used
<1>12. cpc'[c] = "key" =>
       /\ local'[c].slot \in Positions(local[c].header)'
       /\ Known(headers[local[c].header].index[local[c].slot])'
  BY <1>2, <1>5, <1>8 DEF Positions, Known
<1>13. cpc'[c] \in {"value", "move", "setEmpty", "unlink"} =>
       /\ local'[c].entry \in 1..Capacity'
       /\ entries'[local'[c].entry].key = Base(local'[c].index)
       /\ Used(local[c].entry)'
  BY <1>1, <1>2, <1>9 DEF ConsumerOK, Used
<1>14. /\ cpc'[c] \in {"move", "setEmpty", "unlink"} => entries'[local'[c].entry].value = local'[c].block
       /\ cpc'[c] = "unlink" => dequeued'[local'[c].block] = BlockSize
  BY <1>1, <1>2, <1>9 DEF ConsumerOK
<1>15. /\ Active(c)' => local'[c].index < headIndex'
       /\ cpc'[c] \in {"setEmpty", "unlink", "free"} => local'[c].element = local'[c].index
       /\ cpc'[c] = "free" => local'[c].block \in Blocks
  BY <1>1, <1>2, <1>4 DEF ConsumerOK
<1> QED
  BY <1>10, <1>11, <1>12, <1>13, <1>14, <1>15 DEF ConsumerOK

LEMMA PreparedProducer ==
  ASSUME Whole, Prepares, ~Filling',
         \A h \in 1..Len(headers') : h # Len(headers') =>
           /\ h \in 1..Len(headers) /\ headers'[h] = headers[h]
           /\ headers[h].index[headers[h].tail] \in 1..Capacity
           /\ Known(headers[h].index[headers[h].tail]),
         ppc' = "value" => newBlock' \in Blocks /\ dequeued'[newBlock'] = 0,
         ppc' # "value" => newBlock' = NoBlock
  PROVE  ProducerOK'
<1>1. ProducerOK /\ Typed /\ HeadersOK
  BY DEF Whole, BlocksInv
<1>2. ASSUME NEW e \in 1..Capacity', Used(e)' PROVE entries'[e].key # Invalid
  <2>1. e \in 1..Capacity /\ Used(e) /\ entries'[e] = entries[e]
    BY <1>2 DEF Prepares, Keeps
  <2> QED
    BY <1>1, <2>1 DEF ProducerOK
<1>3. ASSUME NEW h \in 1..Len(headers'), h # Len(headers')
      PROVE  entries'[headers'[h].index[headers'[h].tail]].key # Invalid
  <2> DEFINE e == headers[h].index[headers[h].tail]
  <2>1. headers'[h] = headers[h] /\ e \in 1..Capacity /\ entries[e].key # Invalid
    BY <1>3 DEF Known
  <2>2. entries'[e].key # Invalid
    BY <2>1 DEF Prepares, Keeps, Known
  <2> QED
    BY <2>1, <2>2
<1>4. ASSUME NEW i \in Nat, headIndex' <= i, i < tailIndex'
      PROVE  Lives(Base(i))'
  <2> PICK k : k = Base(i)
    OBVIOUS
  <2>1. Lives(k)
    BY <1>1, <1>4 DEF ProducerOK, Prepares, Keeps
  <2>2. Lives(k)'
    BY <1>1, <2>1, KeptLives DEF Prepares
  <2> QED
    BY <2>2
<1> QED
  BY <1>2, <1>3, <1>4 DEF ProducerOK

LEMMA PreparedOwner ==
  ASSUME Whole, Prepares,
         \A b \in Blocks : b \in free' \cup {newBlock'} <=> b \in free \cup {newBlock},
         newBlock' \notin free'
  PROVE  OwnerOK'
<1>1. OwnerOK /\ Typed /\ HeadersOK
  BY DEF Whole, BlocksInv
<1>2. \A e \in 1..Capacity : Used(e) => e \in 1..Capacity' /\ entries'[e] = entries[e]
  BY <1>1, IndexShape DEF Prepares, Keeps
<1>3. \A e \in 1..Capacity' : Used(e)' => e \in 1..Capacity /\ Used(e) /\ entries'[e] = entries[e]
  BY DEF Prepares, Keeps
<1>4. \A c \in Consumers, b \in Blocks : Frees(c, b)' = Frees(c, b)
  BY DEF Prepares, Keeps, consumerVars, Frees
<1>5. \A e, f \in 1..Capacity' : Used(e)' /\ entries'[e].value = entries'[f].value => e = f
  <2> SUFFICES ASSUME NEW e \in 1..Capacity', NEW f \in 1..Capacity',
                      Used(e)', entries'[e].value = entries'[f].value
               PROVE  e = f
    OBVIOUS
  <2>1. Used(f)'
    BY DEF Used
  <2> QED
    BY <1>1, <1>3, <2>1 DEF OwnerOK
<1>6. ASSUME NEW e \in 1..Capacity', Used(e)'
      PROVE  entries'[e].value \notin free' \cup {newBlock'}
  <2>1. e \in 1..Capacity /\ Used(e) /\ entries'[e] = entries[e]
    BY <1>3, <1>6
  <2>2. entries[e].value \in Blocks /\ entries[e].value \notin free \cup {newBlock}
    BY <2>1, UsedEntry
  <2> QED
    BY <2>1, <2>2
<1>7. ASSUME NEW c \in Consumers, NEW b \in Blocks, Frees(c, b)'
      PROVE  /\ b \notin free' \cup {newBlock'}
             /\ \A e \in 1..Capacity' : entries'[e].value # b
             /\ \A d \in Consumers : Frees(d, b)' => d = c
  <2>1. Frees(c, b)
    BY <1>4, <1>7
  <2>2. /\ b \notin free \cup {newBlock}
        /\ \A e \in 1..Capacity : entries[e].value # b
        /\ \A d \in Consumers : Frees(d, b) => d = c
    BY <1>1, <2>1 DEF OwnerOK
  <2>3. b # NoBlock
    BY ThreadsAssumption
  <2> QED
    BY <1>3, <1>4, <2>2, <2>3 DEF Used
<1>8. ASSUME NEW b \in Blocks
      PROVE  \/ b \in free' \/ b = newBlock'
             \/ \E e \in 1..Capacity' : entries'[e].value = b
             \/ \E c \in Consumers : Frees(c, b)'
  <2>1. b # NoBlock
    BY ThreadsAssumption
  <2>2. \/ b \in free \/ b = newBlock
        \/ \E e \in 1..Capacity : entries[e].value = b
        \/ \E c \in Consumers : Frees(c, b)
    BY <1>1 DEF OwnerOK
  <2>3. ASSUME NEW e \in 1..Capacity, entries[e].value = b
        PROVE  \E f \in 1..Capacity' : entries'[f].value = b
    BY <1>2, <2>1, <2>3 DEF Used
  <2> QED
    BY <1>4, <2>2, <2>3
<1>9. newBlock' \notin free'
  OBVIOUS
<1>10. \A c \in Consumers, b \in Blocks : Frees(c, b)' =>
        /\ b \notin free' \cup {newBlock'}
        /\ \A e \in 1..Capacity' : entries'[e].value # b
        /\ \A d \in Consumers : Frees(d, b)' => d = c
  BY <1>7
<1>11. \A e \in 1..Capacity' : Used(e)' => entries'[e].value \notin free' \cup {newBlock'}
  BY <1>6
<1> QED
  BY <1>5, <1>8, <1>9, <1>10, <1>11 DEF OwnerOK

\* What a preparing step has to keep apart from the entries.
Prepared ==
  /\ Prepares /\ Typed' /\ HeadersOK' /\ IndexOK' /\ ProducerOK' /\ OwnerOK'

LEMMA PreparedStep ==
  ASSUME Whole, Prepared
  PROVE  BlocksInv'
<1>1. \A e \in 1..Capacity' : CountOK(e)' /\ ContentOK(e)'
  BY PreparedEntries DEF Prepared
<1>2. \A c \in Consumers : ConsumerOK(c)'
  BY KeptConsumer DEF Prepared, Prepares
<1>3. Apart'
  <2>1. Apart /\ UNCHANGED <<cpc, local>>
    BY DEF Whole, BlocksInv, Prepared, Prepares, Keeps, consumerVars
  <2> QED
    BY <2>1 DEF Apart, Active, Started, Moving
<1> QED
  BY <1>1, <1>2, <1>3 DEF BlocksInv, Prepared

\* An older index keeps the tail it had, and with it an entry that has a key.
LEMMA OldTails ==
  ASSUME Whole, NEW h \in 1..Len(headers)
  PROVE  /\ headers[h].index[headers[h].tail] \in 1..Capacity
         /\ h # Len(headers) => Known(headers[h].index[headers[h].tail])
<1>1. HeaderOK(h)
  BY DEF Whole, BlocksInv, HeadersOK
<1>2. headers[h].index[headers[h].tail] \in 1..Capacity
  BY <1>1 DEF HeaderOK
<1> QED
  BY <1>2 DEF Whole, BlocksInv, ProducerOK, Known

LEMMA SameHeaders ==
  ASSUME headers' = headers
  PROVE  /\ HeadersOK => HeadersOK'
         /\ blockIndex' = blockIndex /\ Capacity' = Capacity /\ Newest' = Newest
<1>1. blockIndex' = blockIndex /\ Capacity' = Capacity
  BY DEF blockIndex, Capacity
<1>2. \A h : Positions(h)' = Positions(h)
  BY DEF Positions
<1>3. Newest' = Newest
  BY DEF Newest, Positions
<1>4. ASSUME NEW h, HeaderOK(h) PROVE HeaderOK(h)'
  BY <1>1, <1>2, <1>3, <1>4 DEF HeaderOK, Newest
<1>5. HeadersOK => HeadersOK'
  BY <1>1, <1>3, <1>4 DEF HeadersOK, Newest
<1> QED
  BY <1>1, <1>3, <1>5

LEMMA InsertKeyStep ==
  ASSUME Whole, InsertKey
  PROVE  BlocksInv'
<1>1. Typed /\ HeadersOK /\ ProducerOK /\ OwnerOK /\ tailIndex \in Nat
  BY DEF Whole, BlocksInv, CountersOK
<1>2. \A e \in 1..Capacity : ~Known(e) => ~Used(e)
  BY <1>1 DEF ProducerOK, Known
<1>3. PICK top \in Nat : IndexInv(top)
  BY DEF Whole, BlocksInv, IndexOK
<1>4. /\ IndexInv(top)' /\ ~Used(NextEntry) /\ NextEntry \in 1..Capacity
      /\ tailIndex = Block(top)
      /\ entries' = [entries EXCEPT ![NextEntry].key = tailIndex]
  BY <1>1, <1>2, <1>3, InsertKeyIndex
<1>5. /\ UNCHANGED <<tailIndex, headers, tailBlock, newBlock, headIndex, elements, dequeued,
                     free, cpc, local>>
      /\ ppc = "idle" /\ ppc' = "key"
  BY DEF InsertKey, counterVars, consumerVars
<1>6. tailIndex # Invalid
  <2>1. EntryAt(NewTail)'.key = tailIndex' /\ tailIndex' = Block(top)
    BY <1>4, <1>5 DEF IndexInv
  <2>2. top >= 1 => Block(0) + BlockSize <= Block(top)
    BY BlockSpaced
  <2>3. Block(0) = 0 /\ Block(top) \in Int
    BY SizesAssumption, BlockSpaced DEF Block
  <2>4. top = 0 \/ top >= 1
    OBVIOUS
  <2> QED
    BY <1>4, <2>2, <2>3, <2>4, SizesAssumption DEF Invalid
<1> PICK n \in 1..Capacity : n = NextEntry
  BY <1>4
<1>7. /\ entries'[n].key = tailIndex /\ entries'[n].value = NoBlock
      /\ \A e \in 1..Capacity : e # n => entries'[e] = entries[e]
      /\ entries' \in [1..Capacity -> [key : Nat, value : Blocks \cup {NoBlock}]]
  BY <1>1, <1>4 DEF Typed, Used
<1>8. /\ Capacity' = Capacity /\ Capacity \in Nat /\ Len(headers) \in Nat
      /\ HeadersOK'
  BY <1>1, <1>5, SameHeaders, IndexShape
<1>9. Prepares
  <2>1. \A e \in 1..Capacity : /\ Used(e) => entries'[e] = entries[e]
                               /\ Known(e) => Known(e)'
                               /\ Used(e)' => Used(e)
    BY <1>4, <1>6, <1>7 DEF Used, Known
  <2> QED
    BY <1>5, <1>8, <2>1 DEF Prepares, Keeps, consumerVars
<1>10. Typed'
  BY <1>1, <1>5, <1>7, <1>8 DEF Typed
<1>11. IndexOK'
  BY <1>4 DEF IndexOK
<1>12. ProducerOK'
  <2>1. ~Filling'
    BY <1>5 DEF Filling
  <2>2. newBlock' = NoBlock /\ ppc' # "value"
    BY <1>1, <1>5 DEF ProducerOK
  <2>3. headers' = headers
    BY <1>5
  <2> QED
    BY <1>9, <2>1, <2>2, <2>3, OldTails, PreparedProducer
<1>13. OwnerOK'
  BY <1>1, <1>5, <1>9, PreparedOwner DEF OwnerOK
<1> QED
  BY <1>8, <1>9, <1>10, <1>11, <1>12, <1>13, PreparedStep DEF Prepared

\* A step that moves the tail of the newest index, or nothing, and no entry.
LEMMA TailStep ==
  ASSUME Whole, NEW t \in Newest, TailMoves(t), headers' \in Seq(Header), headers' # <<>>,
         UNCHANGED <<tailIndex, entries, tailBlock, headIndex, elements, cpc, local>>,
         \A b \in Blocks : b \notin free => dequeued'[b] = dequeued[b],
         dequeued' \in [Blocks -> Nat], free' \subseteq Blocks,
         newBlock' \in Blocks \cup {NoBlock},
         ppc' \in {"requisition", "rewound", "value"},
         IndexOK',
         \A b \in Blocks : b \in free' \cup {newBlock'} <=> b \in free \cup {newBlock},
         newBlock' \notin free',
         ppc' = "value" => newBlock' \in Blocks /\ dequeued'[newBlock'] = 0,
         ppc' # "value" => newBlock' = NoBlock
  PROVE  BlocksInv'
<1>1. Typed /\ HeadersOK
  BY DEF Whole, BlocksInv
<1>2. /\ HeadersOK' /\ Capacity' = Capacity
      /\ \A h \in 1..Len(headers) : headers'[h].capacity = headers[h].capacity
                                    /\ headers'[h].index = headers[h].index
  BY <1>1, TailMovedHeaders
<1>3. /\ Len(headers') = Len(headers) /\ Len(headers) \in Nat /\ Capacity \in Nat
      /\ \A h \in 1..Len(headers) : h # Len(headers) => headers'[h] = headers[h]
  BY <1>1, IndexShape DEF TailMoves
<1>4. Prepares
  BY <1>2, <1>3 DEF Prepares, Keeps, Used, Known, consumerVars
<1>5. Typed'
  BY <1>1, <1>2 DEF Typed, Header
<1>6. ~Filling'
  BY DEF Filling
<1>7. ProducerOK'
  BY <1>3, <1>4, <1>6, OldTails, PreparedProducer
<1>8. OwnerOK'
  BY <1>4, PreparedOwner
<1> QED
  BY <1>2, <1>4, <1>5, <1>7, <1>8, PreparedStep DEF Prepared

LEMMA InsertTailStep ==
  ASSUME Whole, InsertTail
  PROVE  BlocksInv'
<1>1. Typed /\ HeadersOK /\ ProducerOK /\ OwnerOK
  BY DEF Whole, BlocksInv
<1>2. PICK top \in Nat : IndexInv(top)
  BY DEF Whole, BlocksInv, IndexOK
<1>3. IndexInv(top + 1)' /\ NewTail \in Newest /\ SetIndexTail(NewTail)
  BY <1>1, <1>2, InsertTailIndex
<1>4. /\ UNCHANGED <<tailIndex, entries, tailBlock, headIndex, elements, cpc, local>>
      /\ UNCHANGED <<dequeued, free, newBlock>>
      /\ ppc = "key" /\ ppc' = "requisition"
  BY DEF InsertTail, counterVars, consumerVars, blockVars
<1>5. TailMoves(NewTail) /\ headers' \in Seq(Header) /\ headers' # <<>>
  BY <1>1, <1>3, TailMoved DEF SetIndexTail
<1>6. IndexOK'
  <2>1. top + 1 \in Nat
    OBVIOUS
  <2> QED
    BY <1>3, <2>1 DEF IndexOK
<1>7. /\ dequeued' \in [Blocks -> Nat] /\ free' \subseteq Blocks
      /\ newBlock' = NoBlock /\ newBlock' \notin free'
  BY <1>1, <1>4 DEF Typed, ProducerOK, OwnerOK
<1>8. /\ ppc' \in {"requisition", "rewound", "value"} /\ ppc' # "value"
      /\ newBlock' \in Blocks \cup {NoBlock}
      /\ \A b \in Blocks : b \in free' \cup {newBlock'} <=> b \in free \cup {newBlock}
      /\ \A b \in Blocks : b \notin free => dequeued'[b] = dequeued[b]
  BY <1>4, <1>7
<1> QED
  BY <1>3, <1>4, <1>5, <1>6, <1>7, <1>8, TailStep

LEMMA RequisitionStep ==
  ASSUME Whole, Requisition
  PROVE  BlocksInv'
<1>1. Typed /\ HeadersOK /\ ProducerOK /\ OwnerOK /\ tailIndex \in Nat
  BY DEF Whole, BlocksInv, CountersOK
<1>2. PICK top \in Nat : IndexInv(top)
  BY DEF Whole, BlocksInv, IndexOK
<1>3. /\ UNCHANGED <<tailIndex, entries, tailBlock, headIndex, elements, cpc, local>>
      /\ ppc = "requisition"
  BY DEF Requisition, counterVars, consumerVars
<1>4. newBlock = NoBlock
  BY <1>1, <1>3 DEF ProducerOK
<1>5. ASSUME NEW b \in free,
             free' = free \ {b}, dequeued' = [dequeued EXCEPT ![b] = 0], newBlock' = b,
             ppc' = "value", headers' = headers
      PROVE  BlocksInv'
  <2>1. blockIndex.tail \in Newest
    BY <1>1, IndexShape
  <2>2. TailMoves(blockIndex.tail) /\ headers' \in Seq(Header) /\ headers' # <<>>
    BY <1>1, <1>5, <2>1, TailMoved
  <2>3. b \in Blocks /\ b # NoBlock
    BY <1>1, <1>5, ThreadsAssumption DEF Typed
  <2>4. IndexOK'
    <3>1. blockIndex' = blockIndex /\ Capacity' = Capacity /\ Newest' = Newest
      BY <1>5, SameHeaders
    <3>2. /\ \A p : Rank(p)' = Rank(p) /\ EntryAt(p)' = EntryAt(p)
          /\ EntryAt(blockIndex.tail)' = EntryAt(blockIndex.tail)
          /\ Entered' /\ Entered
      BY <1>3, <1>5, <3>1 DEF Rank, EntryAt, Entered
    <3>3. /\ tailIndex = Block(top - 1)
          /\ \A p \in Newest : EntryAt(p).key = Invalid \/ EntryAt(p).key = Block(top - Capacity + Rank(p))
          /\ top # 0 => EntryAt(blockIndex.tail).key # Invalid
          /\ top > 1 => \A p \in Newest : Rank(p) = Capacity - 2 => EntryAt(p).key # Invalid
          /\ EntryAt(blockIndex.tail).key = tailIndex
          /\ EntryAt(blockIndex.tail).value = NoBlock
      BY <1>2, <1>3, <3>2 DEF IndexInv, Newest
    <3>4. IndexInv(top)'
      BY <1>3, <1>5, <3>1, <3>2, <3>3 DEF IndexInv, Newest
    <3> QED
      BY <3>4 DEF IndexOK
  <2>5. /\ dequeued' \in [Blocks -> Nat] /\ free' \subseteq Blocks
        /\ newBlock' \in Blocks /\ dequeued'[newBlock'] = 0 /\ newBlock' \notin free'
        /\ \A a \in Blocks : a \notin free => dequeued'[a] = dequeued[a]
    BY <1>1, <1>5, <2>3 DEF Typed
  <2>6. \A a \in Blocks : a \in free' \cup {newBlock'} <=> a \in free \cup {newBlock}
    BY <1>4, <1>5, ThreadsAssumption
  <2>7. ppc' \in {"requisition", "rewound", "value"} /\ ppc' = "value"
        /\ newBlock' \in Blocks \cup {NoBlock}
    BY <1>5, <2>5
  <2> QED
    BY <1>3, <2>1, <2>2, <2>4, <2>5, <2>6, <2>7, TailStep
<1>6. ASSUME SetIndexTail((blockIndex.tail - 1) % blockIndex.capacity),
             ppc' = "rewound", UNCHANGED <<free, dequeued, newBlock>>
      PROVE  BlocksInv'
  <2> DEFINE t == (blockIndex.tail - 1) % Capacity
  <2>1. t \in Newest
    <3>1. /\ Capacity \in Nat \ {0} /\ Newest = 0..(Capacity - 1)
          /\ blockIndex.tail - 1 \in Int
      BY <1>1, IndexShape
    <3>2. \A a \in Int : a % Capacity \in 0..(Capacity - 1)
      BY <3>1, CongMod
    <3> QED
      BY <3>1, <3>2
  <2>2. headers' = [headers EXCEPT ![Len(headers)].tail = t]
    BY <1>6 DEF SetIndexTail, Capacity
  <2>3. t = (blockIndex.tail - 1) % Capacity
    OBVIOUS
  <2> HIDE DEF t
  <2>4. TailMoves(t) /\ headers' \in Seq(Header) /\ headers' # <<>>
    BY <1>1, <2>1, <2>2, TailMoved
  <2>5. IndexOK'
    <3>1. UNCHANGED <<tailIndex, entries>>
      BY <1>3
    <3>2. \E next \in Nat : IndexInv(next)'
      BY <1>1, <1>2, <1>3, <1>6, <2>1, <2>3, <2>4, <3>1, RewindIndex
    <3> QED
      BY <3>2 DEF IndexOK
  <2>6. /\ dequeued' \in [Blocks -> Nat] /\ free' \subseteq Blocks
        /\ newBlock' = NoBlock /\ newBlock' \notin free'
    BY <1>1, <1>4, <1>6 DEF Typed, OwnerOK
  <2>7. /\ ppc' \in {"requisition", "rewound", "value"} /\ ppc' # "value"
        /\ newBlock' \in Blocks \cup {NoBlock}
        /\ \A b \in Blocks : b \in free' \cup {newBlock'} <=> b \in free \cup {newBlock}
        /\ \A b \in Blocks : b \notin free => dequeued'[b] = dequeued[b]
    BY <1>6, <2>6
  <2> QED
    BY <1>3, <2>1, <2>4, <2>5, <2>6, <2>7, TailStep
<1> QED
  BY <1>5, <1>6 DEF Requisition

\* A block starts where a new one is needed.
LEMMA BlockStart ==
  ASSUME NEW j \in Int, Block(j) \in Nat
  PROVE  Block(j) % BlockSize = 0 /\ Base(Block(j)) = Block(j)
<1>1. Block(j) \in Int /\ Block(j) <= Block(j) /\ Block(j) < Block(j) + BlockSize
  BY SizesAssumption
<1>2. Base(Block(j)) = Block(j) /\ Block(j) % BlockSize = Block(j) - Block(j)
  BY <1>1, BaseUnique
<1> QED
  BY <1>1, <1>2

LEMMA KeyNotInvalid ==
  ASSUME NEW j \in Int, Block(j) \in Nat
  PROVE  Block(j) # Invalid
<1>1. Base(Block(j)) = Block(j)
  BY BlockStart
<1>2. Block(0) = 0
  BY SizesAssumption DEF Block
<1>3. Base(1) = Block(0)
  <2>1. Block(0) <= 1 /\ 1 < Block(0) + BlockSize
    BY <1>2, SizesAssumption
  <2> QED
    BY <2>1, BaseUnique
<1> QED
  BY <1>1, <1>2, <1>3 DEF Invalid

LEMMA RewindValueStep ==
  ASSUME Whole, RewindValue
  PROVE  BlocksInv'
<1>1. Typed /\ HeadersOK /\ ProducerOK /\ OwnerOK /\ tailIndex \in Nat
  BY DEF Whole, BlocksInv, CountersOK
<1>2. PICK top \in Nat : IndexInv(top)
  BY DEF Whole, BlocksInv, IndexOK
<1>3. IndexInv(top)' /\ entries' = entries
  BY <1>1, <1>2, RewindValueIndex
<1>4. /\ UNCHANGED <<tailIndex, headers, tailBlock, newBlock, headIndex, elements, dequeued,
                     free, cpc, local>>
      /\ ppc = "rewound" /\ ppc' = "idle"
  BY DEF RewindValue, counterVars, consumerVars
<1>5. Capacity' = Capacity /\ HeadersOK' /\ Capacity \in Nat /\ Len(headers) \in Nat
  BY <1>1, <1>4, SameHeaders, IndexShape
<1>6. Prepares
  BY <1>3, <1>4, <1>5 DEF Prepares, Keeps, Used, Known, consumerVars
<1>7. Typed'
  BY <1>1, <1>3, <1>4, <1>5 DEF Typed
<1>8. ~Filling'
  <2>1. tailIndex = Block(top)
    BY <1>2, <1>4 DEF IndexInv
  <2>2. tailIndex % BlockSize = 0
    BY <1>1, <2>1, BlockStart
  <2> QED
    BY <1>4, <2>2 DEF Filling, NeedsBlock
<1>9. ProducerOK'
  <2>1. newBlock' = NoBlock /\ ppc' # "value"
    BY <1>1, <1>4 DEF ProducerOK
  <2>2. headers' = headers
    BY <1>4
  <2> QED
    BY <1>6, <1>8, <2>1, <2>2, OldTails, PreparedProducer
<1>10. OwnerOK'
  BY <1>1, <1>4, <1>6, PreparedOwner DEF OwnerOK
<1>11. IndexOK'
  BY <1>3 DEF IndexOK
<1> QED
  BY <1>5, <1>6, <1>7, <1>9, <1>10, <1>11, PreparedStep DEF Prepared

LEMMA GrowIndexStep ==
  ASSUME Whole, GrowIndex
  PROVE  BlocksInv'
<1>1. Typed /\ HeadersOK /\ ProducerOK /\ OwnerOK /\ tailIndex \in Nat
  BY DEF Whole, BlocksInv, CountersOK
<1>2. PICK top \in Nat : IndexInv(top)
  BY DEF Whole, BlocksInv, IndexOK
<1>3. \A e \in 1..Capacity : ~Known(e) => ~Used(e)
  BY <1>1 DEF ProducerOK, Known
<1>4. IndexInv(top)' /\ Known(blockIndex.index[blockIndex.tail])
  BY <1>1, <1>2, <1>3, GrownIndex
<1>5. /\ Grows
      /\ headers' \in Seq(Header) /\ headers' # <<>>
      /\ entries' \in [1..Capacity' -> [key : Nat, value : Blocks \cup {NoBlock}]]
  BY <1>1, IndexGrows
<1>6. HeadersOK'
  BY <1>1, <1>5, GrownHeaders
<1>7. /\ UNCHANGED <<tailIndex, tailBlock, newBlock, headIndex, elements, dequeued,
                     free, cpc, local>>
      /\ ppc = "idle" /\ ppc' = "idle" /\ NeedsBlock
  BY DEF GrowIndex, counterVars, consumerVars
<1>8. /\ Len(headers) \in Nat /\ Len(headers) # 0 /\ Len(headers') = Len(headers) + 1
      /\ Capacity \in Nat \ {0, 1} /\ Capacity' = 2 * Capacity
      /\ \A h \in 1..Len(headers) : headers'[h] = headers[h]
  BY <1>1, <1>5, GrownShape
<1>9. Prepares
  <2>1. /\ \A e \in 1..Capacity : entries'[e] = entries[e]
        /\ \A e \in (Capacity + 1)..(2 * Capacity) :
             entries'[e] = [key |-> Invalid, value |-> NoBlock]
    BY <1>5 DEF Grows
  <2>2. \A e \in 1..Capacity' : Used(e)' => e \in 1..Capacity /\ Used(e)
    <3> SUFFICES ASSUME NEW e \in 1..Capacity', entries'[e].value # NoBlock
                 PROVE  e \in 1..Capacity /\ Used(e)
      BY DEF Used
    <3>1. e \notin (Capacity + 1)..(2 * Capacity)
      BY <2>1
    <3>2. e \in 1..Capacity
      BY <1>8, <3>1
    <3> QED
      BY <2>1, <3>2 DEF Used
  <2>3. Capacity' \in Nat /\ Capacity <= Capacity' /\ Len(headers') \in Nat
        /\ Len(headers) <= Len(headers')
    BY <1>8
  <2>4. \A e \in 1..Capacity : Known(e) => Known(e)'
    BY <2>1 DEF Known
  <2> QED
    BY <1>7, <1>8, <2>1, <2>2, <2>3, <2>4 DEF Prepares, Keeps, consumerVars
<1>10. Typed'
  BY <1>1, <1>5, <1>7 DEF Typed, Header
<1>11. ~Filling'
  BY <1>7 DEF Filling, NeedsBlock
<1>12. ProducerOK'
  <2>1. newBlock' = NoBlock /\ ppc' # "value"
    BY <1>1, <1>7 DEF ProducerOK
  <2>2. ASSUME NEW h \in 1..Len(headers'), h # Len(headers')
        PROVE  /\ h \in 1..Len(headers) /\ headers'[h] = headers[h]
               /\ headers[h].index[headers[h].tail] \in 1..Capacity
               /\ Known(headers[h].index[headers[h].tail])
    <3>1. h \in 1..Len(headers)
      BY <1>8, <2>2
    <3> QED
      BY <1>4, <1>8, <3>1, OldTails DEF blockIndex
  <2> QED
    BY <1>9, <1>11, <2>1, <2>2, PreparedProducer
<1>13. OwnerOK'
  BY <1>1, <1>7, <1>9, PreparedOwner DEF OwnerOK
<1>14. IndexOK'
  BY <1>4 DEF IndexOK
<1> QED
  BY <1>6, <1>9, <1>10, <1>12, <1>13, <1>14, PreparedStep DEF Prepared

\* A new block: nobody claimed an element of it yet.
LEMMA StoreValueStep ==
  ASSUME Whole, StoreValue
  PROVE  BlocksInv'
<1>1. Typed /\ HeadersOK /\ ProducerOK /\ OwnerOK /\ tailIndex \in Nat /\ headIndex \in Nat
  BY DEF Whole, BlocksInv, CountersOK
<1>2. PICK top \in Nat : IndexInv(top)
  BY DEF Whole, BlocksInv, IndexOK
<1>3. IndexInv(top)'
  BY <1>1, <1>2, StoreIndex
<1>4. PICK n \in 1..Capacity :
        /\ n = blockIndex.index[blockIndex.tail]
        /\ entries[n].key = tailIndex /\ ~Used(n)
        /\ entries' = [entries EXCEPT ![n].value = newBlock]
  BY <1>1, <1>2, StoreIndex
<1>5. PICK j \in Int : tailIndex = Block(j)
  BY <1>1, <1>2, StoreIndex
<1>6. /\ UNCHANGED <<tailIndex, headers, headIndex, elements, dequeued, free, cpc, local>>
      /\ tailBlock' = newBlock /\ newBlock' = NoBlock /\ ppc = "value" /\ ppc' = "publish"
  BY DEF StoreValue, counterVars, consumerVars
<1>7. /\ newBlock \in Blocks /\ dequeued[newBlock] = 0 /\ newBlock # NoBlock
      /\ newBlock \notin free
  BY <1>1, <1>6, ThreadsAssumption DEF ProducerOK, OwnerOK
<1>8. Base(tailIndex) = tailIndex /\ headIndex <= tailIndex
  <2>1. Base(tailIndex) = tailIndex
    BY <1>1, <1>5, BlockStart
  <2>2. IsFiniteSet({c \in Consumers : cpc[c] = "claim"})
    BY FS_Subset, ThreadsAssumption
  <2>3. Cardinality({c \in Consumers : cpc[c] = "claim"}) \in Nat
    BY <2>2, FS_CardinalityType
  <2> QED
    BY <1>1, <2>1, <2>3 DEF Whole, ClaimsCovered
<1>9. /\ entries'[n].key = entries[n].key /\ entries'[n].value = newBlock
      /\ \A e \in 1..Capacity : e # n => entries'[e] = entries[e]
      /\ \A e \in 1..Capacity : entries'[e].key = entries[e].key
      /\ entries' \in [1..Capacity -> [key : Nat, value : Blocks \cup {NoBlock}]]
  <2>1. entries \in [1..Capacity -> [key : Nat, value : Blocks \cup {NoBlock}]]
    BY <1>1 DEF Typed
  <2>2. newBlock \in Blocks \cup {NoBlock}
    BY <1>7
  <2>3. entries' = [entries EXCEPT ![n] = [entries[n] EXCEPT !.value = newBlock]]
    BY <1>4
  <2>4. /\ [entries[n] EXCEPT !.value = newBlock] \in [key : Nat, value : Blocks \cup {NoBlock}]
        /\ [entries[n] EXCEPT !.value = newBlock].key = entries[n].key
        /\ [entries[n] EXCEPT !.value = newBlock].value = newBlock
    BY <2>1, <2>2
  <2> QED
    BY <2>1, <2>3, <2>4
<1>10. /\ Capacity' = Capacity /\ Capacity \in Nat /\ Len(headers) \in Nat /\ HeadersOK'
       /\ blockIndex' = blockIndex
  BY <1>1, <1>6, SameHeaders, IndexShape
<1>11. Keeps
  <2>1. \A e \in 1..Capacity : /\ Used(e) => entries'[e] = entries[e]
                               /\ Known(e) => Known(e)'
    BY <1>4, <1>9 DEF Known
  <2> QED
    BY <1>6, <1>10, <2>1 DEF Keeps, consumerVars
<1>12. Typed'
  BY <1>1, <1>6, <1>7, <1>9, <1>10 DEF Typed
<1>13. IndexOK'
  BY <1>3 DEF IndexOK
<1>14. ProducerOK'
  <2>1. \A e \in 1..Capacity' : entries'[e].key = Invalid => ~Used(e)'
    <3>1. entries[n].key # Invalid
      BY <1>1, <1>4, <1>5, KeyNotInvalid
    <3> QED
      BY <1>1, <1>9, <1>10, <3>1 DEF ProducerOK, Used
  <2>2. \A h \in 1..Len(headers') :
          h # Len(headers') => entries'[headers'[h].index[headers'[h].tail]].key # Invalid
    BY <1>6, <1>9, OldTails DEF Known
  <2>3. Base(tailIndex)' = tailIndex
    BY <1>6, <1>8 DEF Base
  <2>4. \A i \in Nat : headIndex' <= i /\ i < tailIndex' => Lives(Base(i))'
    <3> SUFFICES ASSUME NEW i \in Nat, headIndex <= i, i < tailIndex PROVE Lives(Base(i))'
      BY <1>6
    <3> PICK k : k = Base(i)
      OBVIOUS
    <3>1. Lives(k)
      BY <1>1 DEF ProducerOK
    <3>2. Lives(k)'
      BY <1>1, <1>11, <3>1, KeptLives
    <3> QED
      BY <3>2
  <2>5. Filling' => /\ tailBlock' \in Blocks
                    /\ \E e \in 1..Capacity' : /\ entries'[e].key = Base(tailIndex)'
                                               /\ entries'[e].value = tailBlock'
    BY <1>4, <1>6, <1>7, <1>9, <1>10, <2>3
  <2> QED
    BY <1>6, <2>1, <2>2, <2>4, <2>5 DEF ProducerOK
<1>15. ASSUME NEW e \in 1..Capacity
       PROVE  CountOK(e)' /\ ContentOK(e)'
  <2>1. \A k : Working(k)' = Working(k) /\ Claimed(k)' = Claimed(k)
    BY <1>6 DEF Working, Claimed, Started, Moving
  <2>2. \A i : Pending(i)' = Pending(i)
    BY <1>6 DEF Pending, Moving
  <2>3. CASE e # n
    <3>1. CountOK(e) /\ ContentOK(e) /\ entries'[e] = entries[e]
      BY <1>9, <2>3 DEF Whole, BlocksInv
    <3> QED
      BY <1>6, <2>1, <2>2, <3>1 DEF CountOK, ContentOK, Used
  <2>4. CASE e = n
    <3>1. Claimed(tailIndex) = 0
      BY <1>8 DEF Claimed
    <3>2. Working(tailIndex) = {}
      <4> SUFFICES ASSUME NEW c \in Consumers, Started(c), Base(local[c].index) = tailIndex
                   PROVE  FALSE
        BY DEF Working
      <4>1. local[c].index < headIndex /\ local[c].index \in Nat
        BY <1>1 DEF Whole, BlocksInv, ConsumerOK, Active, Typed, Locals
      <4>2. Base(local[c].index) <= local[c].index
        <5>1. PICK m \in Nat : Base(local[c].index) = Block(m) /\ Block(m) <= local[c].index
          BY <4>1, BaseBlock
        <5> QED
          BY <5>1
      <4> QED
        BY <1>1, <1>8, <4>1, <4>2
    <3>3. Cardinality(Working(tailIndex)) = 0
      BY <3>2, FS_EmptySet
    <3>4. CountOK(e)'
      BY <1>4, <1>6, <1>7, <1>9, <2>1, <2>4, <3>1, <3>3, SMTT(30) DEF CountOK
    <3>5. ASSUME NEW i \in Nat, Base(i) = tailIndex PROVE i >= tailIndex
      <4>1. PICK m \in Nat : Base(i) = Block(m) /\ Block(m) <= i
        BY BaseBlock
      <4> QED
        BY <3>5, <4>1
    <3>6. ContentOK(e)'
      <4> SUFFICES ASSUME NEW i \in Nat, Base(i) = entries'[e].key, i < tailIndex' PROVE FALSE
        BY DEF ContentOK
      <4> QED
        BY <1>1, <1>4, <1>6, <1>9, <2>4, <3>5
    <3> QED
      BY <3>4, <3>6
  <2> QED
    BY <2>3, <2>4
<1>16. \A c \in Consumers : ConsumerOK(c)'
  BY <1>11, KeptConsumer
<1>17. Apart'
  BY <1>6 DEF Whole, BlocksInv, Apart, Active, Started, Moving
<1>18. OwnerOK'
  <2>1. \A c \in Consumers, b \in Blocks : Frees(c, b)' = Frees(c, b)
    BY <1>6 DEF Frees
  <2>2. \A e \in 1..Capacity : entries[e].value # newBlock
    BY <1>1, <1>7 DEF OwnerOK, Used
  <2>3. \A e, f \in 1..Capacity : Used(e)' /\ entries'[e].value = entries'[f].value => e = f
    BY <1>1, <1>4, <1>9, <2>2 DEF OwnerOK, Used
  <2>4. \A e \in 1..Capacity : Used(e)' => entries'[e].value \notin free' \cup {newBlock'}
    BY <1>1, <1>6, <1>7, <1>9 DEF OwnerOK, Used
  <2>5. ASSUME NEW c \in Consumers, NEW b \in Blocks, Frees(c, b)'
        PROVE  /\ b \notin free' \cup {newBlock'}
               /\ \A e \in 1..Capacity : entries'[e].value # b
               /\ \A d \in Consumers : Frees(d, b)' => d = c
    <3>1. /\ b \notin free \cup {newBlock}
          /\ \A e \in 1..Capacity : entries[e].value # b
          /\ \A d \in Consumers : Frees(d, b) => d = c
      BY <1>1, <2>1, <2>5 DEF OwnerOK
    <3> QED
      BY <1>6, <1>9, <2>1, <3>1, ThreadsAssumption
  <2>6. ASSUME NEW b \in Blocks
        PROVE  \/ b \in free' \/ b = newBlock'
               \/ \E e \in 1..Capacity : entries'[e].value = b
               \/ \E c \in Consumers : Frees(c, b)'
    <3>1. \/ b \in free \/ b = newBlock
          \/ \E e \in 1..Capacity : entries[e].value = b
          \/ \E c \in Consumers : Frees(c, b)
      BY <1>1 DEF OwnerOK
    <3>2. ASSUME NEW e \in 1..Capacity, entries[e].value = b
          PROVE  entries'[e].value = b
      BY <1>4, <1>9, <3>2, ThreadsAssumption DEF Used
    <3> QED
      BY <1>4, <1>6, <1>9, <2>1, <3>1, <3>2
  <2>7. newBlock' \notin free'
    BY <1>1, <1>6, ThreadsAssumption DEF Typed
  <2> QED
    BY <1>10, <2>3, <2>4, <2>5, <2>6, <2>7 DEF OwnerOK
<1> QED
  BY <1>10, <1>12, <1>13, <1>14, <1>15, <1>16, <1>17, <1>18 DEF BlocksInv

\* Where an element is in its block.
LEMMA SlotOf ==
  ASSUME NEW i \in Nat
  PROVE  /\ i % BlockSize \in 0..(BlockSize - 1)
         /\ Base(i) \in Nat /\ Base(i) <= i /\ i < Base(i) + BlockSize
         /\ \A k \in Nat : Base(k) = Base(i) /\ k % BlockSize = i % BlockSize => k = i
<1>1. \A k \in Nat : \E j \in Nat : /\ Base(k) = Block(j) /\ Block(j) <= k /\ k < Block(j) + BlockSize
                                    /\ k % BlockSize = k - Block(j)
  BY BaseBlock
<1>2. PICK j \in Nat : /\ Base(i) = Block(j) /\ Block(j) <= i /\ i < Block(j) + BlockSize
                       /\ i % BlockSize = i - Block(j)
  BY <1>1
<1>3. Block(j) \in Nat
  BY SizesAssumption DEF Block
<1>4. ASSUME NEW k \in Nat, Base(k) = Base(i), k % BlockSize = i % BlockSize
      PROVE  k = i
  <2>1. PICK m \in Nat : Base(k) = Block(m) /\ k % BlockSize = k - Block(m)
    BY <1>1
  <2>2. k - Block(j) = i - Block(j)
    BY <1>2, <1>4, <2>1
  <2> QED
    BY <1>3, <2>2
<1> QED
  BY <1>2, <1>3, <1>4, SizesAssumption

LEMMA SameOwner ==
  ASSUME OwnerOK, UNCHANGED <<entries, headers, free, newBlock, cpc, local>>
  PROVE  OwnerOK'
<1>1. Capacity' = Capacity
  BY SameHeaders
<1>2. \A c, b : Frees(c, b)' = Frees(c, b)
  BY DEF Frees
<1>3. \A e : Used(e)' = Used(e)
  BY DEF Used
<1> QED
  BY <1>1, <1>2, <1>3 DEF OwnerOK

\* The element is published once it is in its slot, which no other has.
LEMMA PublishStep ==
  ASSUME Whole, Publish
  PROVE  BlocksInv'
<1>1. Typed /\ HeadersOK /\ ProducerOK /\ OwnerOK /\ tailIndex \in Nat /\ headIndex \in Nat
  BY DEF Whole, BlocksInv, CountersOK
<1>2. PICK top \in Nat : IndexInv(top)
  BY DEF Whole, BlocksInv, IndexOK
<1>3. IndexInv(top)'
  BY <1>1, <1>2, PublishIndex
<1>4. /\ UNCHANGED <<headers, tailBlock, newBlock, headIndex, entries, dequeued, free, cpc, local>>
      /\ elements' = [elements EXCEPT ![tailBlock][tailIndex % BlockSize] = tailIndex]
      /\ tailIndex' = tailIndex + 1 /\ Filling /\ ppc # "value" /\ ppc' = "idle"
  BY DEF Publish, counterVars, consumerVars, Filling
<1>5. tailBlock \in Blocks /\ tailBlock # NoBlock
  BY <1>1, <1>4, ThreadsAssumption DEF ProducerOK
<1>6. PICK n \in 1..Capacity : entries[n].key = Base(tailIndex) /\ entries[n].value = tailBlock
  BY <1>1, <1>4 DEF ProducerOK
<1>7. Used(n)
  BY <1>5, <1>6 DEF Used
<1>8. /\ Capacity' = Capacity /\ Capacity \in Nat /\ Len(headers) \in Nat /\ HeadersOK'
      /\ blockIndex' = blockIndex
  BY <1>1, <1>4, SameHeaders, IndexShape
<1>9. Keeps
  BY <1>4, <1>8 DEF Keeps, consumerVars, Known
<1> DEFINE k == tailIndex % BlockSize
<1>10. k \in 0..(BlockSize - 1)
  BY <1>1, SlotOf
<1>11. /\ elements' \in [Blocks -> [0..(BlockSize - 1) -> Nat \cup {Gone}]]
       /\ elements'[tailBlock][k] = tailIndex
       /\ \A b \in Blocks, s \in 0..(BlockSize - 1) :
            b # tailBlock \/ s # k => elements'[b][s] = elements[b][s]
  <2>1. elements \in [Blocks -> [0..(BlockSize - 1) -> Nat \cup {Gone}]]
    BY <1>1 DEF Typed
  <2> HIDE DEF k
  <2>2. elements' = [elements EXCEPT ![tailBlock] = [elements[tailBlock] EXCEPT ![k] = tailIndex]]
    BY <1>4 DEF k
  <2>3. [elements[tailBlock] EXCEPT ![k] = tailIndex] \in [0..(BlockSize - 1) -> Nat \cup {Gone}]
    BY <1>1, <1>5, <1>10, <2>1
  <2> QED
    BY <1>5, <1>10, <2>1, <2>2, <2>3
<1>12. Typed'
  BY <1>1, <1>4, <1>8, <1>11 DEF Typed
<1>13. IndexOK'
  BY <1>3 DEF IndexOK
<1>14. ProducerOK'
  <2>1. /\ \A e \in 1..Capacity' : entries'[e].key = Invalid => ~Used(e)'
        /\ \A h \in 1..Len(headers') :
             h # Len(headers') => entries'[headers'[h].index[headers'[h].tail]].key # Invalid
    BY <1>1, <1>4, <1>8 DEF ProducerOK, Used
  <2>2. newBlock' = NoBlock /\ ppc' # "value"
    BY <1>1, <1>4 DEF ProducerOK
  <2>3. ASSUME Filling'
        PROVE  Base(tailIndex)' = Base(tailIndex)
    <3>1. tailIndex' % BlockSize # 0
      BY <1>4, <2>3 DEF Filling, NeedsBlock
    <3>2. PICK m \in Nat : Base(tailIndex) = Block(m) /\ Block(m) <= tailIndex
                           /\ tailIndex < Block(m) + BlockSize
      BY <1>1, BaseBlock
    <3>3. Block(m) \in Int /\ Block(m + 1) = Block(m) + BlockSize
      BY BlockSpaced
    <3>4. tailIndex' # Block(m + 1)
      <4>1. m + 1 \in Int
        OBVIOUS
      <4>2. ASSUME tailIndex' = Block(m + 1) PROVE FALSE
        <5>1. Block(m + 1) \in Nat
          BY <1>1, <1>4, <4>2
        <5>2. Block(m + 1) % BlockSize = 0
          BY <4>1, <5>1, BlockStart
        <5> QED
          BY <3>1, <4>2, <5>2
      <4> QED
        BY <4>2
    <3>5. tailIndex + 1 \in Nat /\ Block(m) <= tailIndex + 1 /\ tailIndex + 1 < Block(m) + BlockSize
      BY <1>1, <1>4, <3>2, <3>3, <3>4, SizesAssumption
    <3>6. Base(tailIndex + 1) = Block(m)
      BY <3>5, BaseUnique
    <3> QED
      BY <1>4, <3>2, <3>6 DEF Base
  <2>4. Filling' => /\ tailBlock' \in Blocks
                    /\ \E e \in 1..Capacity' : /\ entries'[e].key = Base(tailIndex)'
                                               /\ entries'[e].value = tailBlock'
    BY <1>4, <1>5, <1>6, <1>8, <2>3
  <2>5. ASSUME NEW i \in Nat, headIndex' <= i, i < tailIndex'
        PROVE  Lives(Base(i))'
    <3> PICK b : b = Base(i)
      OBVIOUS
    <3>1. Lives(b)
      <4>1. CASE i < tailIndex
        BY <1>1, <1>4, <2>5, <4>1 DEF ProducerOK
      <4>2. CASE i = tailIndex
        BY <1>6, <1>7, <4>2 DEF Lives
      <4> QED
        BY <1>1, <1>4, <2>5, <4>1, <4>2
    <3>2. Lives(b)'
      BY <1>1, <1>9, <3>1, KeptLives
    <3> QED
      BY <3>2
  <2> QED
    BY <2>1, <2>2, <2>4, <2>5 DEF ProducerOK
<1>15. ASSUME NEW e \in 1..Capacity
       PROVE  CountOK(e)' /\ ContentOK(e)'
  <2>1. CountOK(e) /\ ContentOK(e)
    BY DEF Whole, BlocksInv
  <2>2. \A b : Working(b)' = Working(b) /\ Claimed(b)' = Claimed(b)
    BY <1>4 DEF Working, Claimed, Started, Moving
  <2>3. \A i : Pending(i)' = Pending(i)
    BY <1>4 DEF Pending, Moving
  <2>4. CountOK(e)'
    BY <1>4, <2>1, <2>2 DEF CountOK, Used
  <2>5. ASSUME Used(e), NEW i \in Nat, Base(i) = entries[e].key, i < tailIndex', Pending(i)
        PROVE  elements'[entries[e].value][i % BlockSize] = i
    <3>1. /\ entries[e].value \in Blocks
          /\ \A f \in 1..Capacity : entries[f].key = entries[e].key => f = e
          /\ \A f \in 1..Capacity : entries[f].value = entries[e].value => f = e
      BY <2>5, UsedEntry
    <3>2. i % BlockSize \in 0..(BlockSize - 1)
      BY SlotOf
    <3>3. CASE i = tailIndex
      <4>1. n = e
        BY <1>6, <2>5, <3>1, <3>3
      <4> QED
        BY <1>6, <1>11, <3>3, <4>1
    <3>4. CASE i # tailIndex
      <4>1. elements[entries[e].value][i % BlockSize] = i
        <5>1. i < tailIndex
          BY <1>1, <1>4, <2>5, <3>4
        <5> QED
          BY <2>1, <2>5, <5>1 DEF ContentOK
      <4>2. entries[e].value # tailBlock \/ i % BlockSize # k
        <5> SUFFICES ASSUME entries[e].value = tailBlock, i % BlockSize = tailIndex % BlockSize
                     PROVE  FALSE
          OBVIOUS
        <5>1. n = e
          BY <1>6, <3>1
        <5>2. Base(i) = Base(tailIndex)
          BY <1>6, <2>5, <5>1
        <5> QED
          BY <1>1, <3>4, <5>2, SlotOf
      <4> QED
        BY <1>11, <3>1, <3>2, <4>1, <4>2
    <3> QED
      BY <3>3, <3>4
  <2>6. ContentOK(e)'
    BY <1>4, <2>3, <2>5 DEF ContentOK, Used
  <2> QED
    BY <2>4, <2>6
<1>16. \A c \in Consumers : ConsumerOK(c)'
  BY <1>9, KeptConsumer
<1>17. Apart'
  BY <1>4 DEF Whole, BlocksInv, Apart, Active, Started, Moving
<1>18. OwnerOK'
  BY <1>1, <1>4, SameOwner
<1> QED
  BY <1>8, <1>12, <1>13, <1>14, <1>15, <1>16, <1>17, <1>18 DEF BlocksInv

-----------------------------------------------------------------------------
(* The consumers' steps.                                                    *)

\* What a step of a consumer that changes no entry leaves to the producer.
LEMMA ConsumerShared ==
  ASSUME Whole, UNCHANGED <<producerVars, entries>>, headIndex' \in Nat, headIndex <= headIndex',
         newBlock \in Blocks => dequeued'[newBlock] = dequeued[newBlock]
  PROVE  /\ HeadersOK' /\ IndexOK' /\ ProducerOK'
         /\ Capacity' = Capacity /\ \A e : Used(e)' = Used(e)
<1>1. Typed /\ HeadersOK /\ ProducerOK /\ headIndex \in Nat /\ tailIndex \in Nat
  BY DEF Whole, BlocksInv, CountersOK
<1>2. UNCHANGED <<tailIndex, headers, tailBlock, newBlock, ppc, entries>>
  BY DEF producerVars
<1>3. Capacity' = Capacity /\ HeadersOK' /\ \A e : Used(e)' = Used(e)
  BY <1>1, <1>2, SameHeaders DEF Used
<1>4. IndexOK'
  <2>1. PICK top \in Nat : IndexInv(top)
    BY DEF Whole, BlocksInv, IndexOK
  <2>2. IndexInv(top)'
    BY <1>1, <1>2, <2>1, KeysStay
  <2> QED
    BY <2>2 DEF IndexOK
<1>5. ProducerOK'
  <2>1. /\ \A e \in 1..Capacity' : entries'[e].key = Invalid => ~Used(e)'
        /\ \A h \in 1..Len(headers') :
             h # Len(headers') => entries'[headers'[h].index[headers'[h].tail]].key # Invalid
    BY <1>1, <1>2, <1>3 DEF ProducerOK
  <2>2. /\ ppc' = "value" => newBlock' \in Blocks /\ dequeued'[newBlock'] = 0
        /\ ppc' # "value" => newBlock' = NoBlock
    BY <1>1, <1>2 DEF ProducerOK
  <2>3. Filling' = Filling /\ Base(tailIndex)' = Base(tailIndex)
    BY <1>2 DEF Filling, NeedsBlock, Base
  <2>4. Filling' => /\ tailBlock' \in Blocks
                    /\ \E e \in 1..Capacity' : /\ entries'[e].key = Base(tailIndex)'
                                               /\ entries'[e].value = tailBlock'
    BY <1>1, <1>2, <1>3, <2>3 DEF ProducerOK
  <2>5. ASSUME NEW i \in Nat, headIndex' <= i, i < tailIndex' PROVE Lives(Base(i))'
    <3> PICK k : k = Base(i)
      OBVIOUS
    <3>1. headIndex <= i
      BY <1>1, <2>5
    <3>2. Lives(k)
      BY <1>1, <1>2, <2>5, <3>1 DEF ProducerOK
    <3>3. Lives(k)'
      BY <1>2, <1>3, <3>2 DEF Lives
    <3> QED
      BY <3>3
  <2> QED
    BY <2>1, <2>2, <2>4, <2>5 DEF ProducerOK
<1> QED
  BY <1>3, <1>4, <1>5

\* ... and to another consumer.
LEMMA OtherConsumer ==
  ASSUME Whole, UNCHANGED <<headers, entries>>, headIndex' \in Nat, headIndex <= headIndex',
         NEW d \in Consumers, cpc'[d] = cpc[d], local'[d] = local[d],
         cpc[d] = "unlink" => dequeued'[local[d].block] = dequeued[local[d].block]
  PROVE  ConsumerOK(d)'
<1>1. ConsumerOK(d) /\ Typed /\ headIndex \in Nat
  BY DEF Whole, BlocksInv, CountersOK
<1>2. Capacity' = Capacity /\ (\A e : Used(e)' = Used(e) /\ Known(e)' = Known(e))
      /\ \A h : Positions(h)' = Positions(h)
  BY SameHeaders DEF Used, Known, Positions
<1>3. Active(d)' = Active(d)
  BY DEF Active, Started, Moving
<1>4. local[d].index \in Nat
  BY <1>1 DEF Typed, Locals
<1> PICK k : k = Base(local[d].index)
  OBVIOUS
<1> PICK h : h = local[d].header
  OBVIOUS
<1> PICK s : s = local[d].slot
  OBVIOUS
<1>5. k = Base(local'[d].index) /\ h = local'[d].header /\ s = local'[d].slot
  OBVIOUS
<1>6. cpc'[d] = "header" => Lives(Base(local[d].index))'
  <2>1. cpc[d] = "header" => Lives(k)
    BY <1>1 DEF ConsumerOK
  <2>2. Lives(k) => Lives(k)'
    BY <1>2 DEF Lives
  <2> QED
    BY <1>5, <2>1, <2>2 DEF Lives
<1>7. cpc'[d] \in {"slot", "key"} =>
       /\ local'[d].header \in 1..Len(headers')
       /\ \E p \in Positions(local[d].header)' :
            /\ entries'[headers'[local'[d].header].index[p]].key = Base(local'[d].index)
            /\ Used(headers[local[d].header].index[p])'
  <2>1. cpc[d] \in {"slot", "key"} =>
          /\ h \in 1..Len(headers)
          /\ \E p \in Positions(h) : /\ entries[headers[h].index[p]].key = k
                                     /\ Used(headers[h].index[p])
    BY <1>1 DEF ConsumerOK
  <2> QED
    BY <1>2, <1>5, <2>1 DEF Positions, Used
<1>8. cpc'[d] = "key" =>
       /\ local'[d].slot \in Positions(local[d].header)'
       /\ Known(headers[local[d].header].index[local[d].slot])'
  <2>1. cpc[d] = "key" => s \in Positions(h) /\ Known(headers[h].index[s])
    BY <1>1 DEF ConsumerOK
  <2> QED
    BY <1>2, <1>5, <2>1 DEF Positions, Known
<1>9. cpc'[d] \in {"value", "move", "setEmpty", "unlink"} =>
       /\ local'[d].entry \in 1..Capacity'
       /\ entries'[local'[d].entry].key = Base(local'[d].index)
       /\ Used(local[d].entry)'
  BY <1>1, <1>2, <1>5 DEF ConsumerOK, Used
<1>10. /\ cpc'[d] \in {"move", "setEmpty", "unlink"} => entries'[local'[d].entry].value = local'[d].block
       /\ cpc'[d] = "unlink" => dequeued'[local'[d].block] = BlockSize
       /\ cpc'[d] \in {"setEmpty", "unlink", "free"} => local'[d].element = local'[d].index
       /\ cpc'[d] = "free" => local'[d].block \in Blocks
  BY <1>1 DEF ConsumerOK
<1>11. Active(d)' => local'[d].index < headIndex'
  BY <1>1, <1>3, <1>4 DEF ConsumerOK
<1> QED
  BY <1>6, <1>7, <1>8, <1>9, <1>10, <1>11 DEF ConsumerOK

\* A step of one consumer that changes its own variables only, and claims, moves
\* out and frees nothing.
Private(c) ==
  /\ UNCHANGED <<producerVars, blockVars, headIndex>>
  /\ \A d \in Consumers : d # c => cpc'[d] = cpc[d] /\ local'[d] = local[d]
  /\ local' \in [Consumers -> Locals]
  /\ {cpc[c], cpc'[c]} \cap {"setEmpty", "unlink", "free"} = {}
  /\ Moving(c)' = Moving(c)
  /\ Moving(c) => local'[c].index = local[c].index

LEMMA PrivateStep ==
  ASSUME Whole, NEW c \in Consumers, Private(c), ConsumerOK(c)'
  PROVE  BlocksInv'
<1>1. Typed /\ OwnerOK /\ Apart /\ headIndex \in Nat /\ headIndex' = headIndex
  BY DEF Whole, BlocksInv, CountersOK, Private
<1>2. UNCHANGED <<tailIndex, headers, tailBlock, newBlock, ppc, entries, elements, dequeued, free>>
  BY DEF Private, producerVars, blockVars
<1>3. /\ HeadersOK' /\ IndexOK' /\ ProducerOK' /\ Capacity' = Capacity /\ \A e : Used(e)' = Used(e)
  BY <1>1, <1>2, ConsumerShared DEF producerVars
<1>4. Typed'
  BY <1>1, <1>2, <1>3 DEF Typed, Private
<1>5. \A d \in Consumers : /\ Moving(d)' = Moving(d)
                           /\ Moving(d) => local'[d].index = local[d].index
                           /\ Started(d)' = Started(d)
                           /\ Started(d) => local'[d].index = local[d].index
                           /\ Active(d)' = Active(d)
                           /\ Active(d) => local'[d].index = local[d].index
                           /\ cpc'[d] = "unlink" <=> cpc[d] = "unlink"
                           /\ cpc[d] = "unlink" => local'[d] = local[d]
                           /\ cpc'[d] = "free" <=> cpc[d] = "free"
                           /\ cpc[d] = "free" => local'[d] = local[d]
  <2> SUFFICES ASSUME NEW d \in Consumers
               PROVE  /\ Moving(d)' = Moving(d)
                      /\ Moving(d) => local'[d].index = local[d].index
                      /\ \/ {cpc[d], cpc'[d]} \cap {"setEmpty", "unlink", "free"} = {}
                         \/ (cpc'[d] = cpc[d] /\ local'[d] = local[d])
    BY DEF Started, Active, Moving
  <2>1. CASE d = c
    <3>1. /\ Moving(c)' = Moving(c) /\ (Moving(c) => local'[c].index = local[c].index)
          /\ {cpc[c], cpc'[c]} \cap {"setEmpty", "unlink", "free"} = {}
      BY DEF Private
    <3>2. Moving(d)' = Moving(d) /\ (Moving(d) => local'[d].index = local[d].index)
      BY <2>1, <3>1
    <3>3. {cpc[d], cpc'[d]} \cap {"setEmpty", "unlink", "free"} = {}
      BY <2>1, <3>1
    <3> QED
      BY <3>2, <3>3
  <2>2. CASE d # c
    BY <2>2 DEF Private, Moving
  <2> QED
    BY <2>1, <2>2
<1>6. ASSUME NEW e \in 1..Capacity
      PROVE  CountOK(e)' /\ ContentOK(e)'
  <2>1. CountOK(e) /\ ContentOK(e)
    BY DEF Whole, BlocksInv
  <2>2. \A k : Working(k)' = Working(k)
    BY <1>5 DEF Working, Base
  <2>3. \A k : Claimed(k)' = Claimed(k)
    BY <1>1 DEF Claimed
  <2>4. \A i : Pending(i)' = Pending(i)
    BY <1>1, <1>5 DEF Pending
  <2>5. CountOK(e)'
    BY <1>2, <1>3, <2>1, <2>2, <2>3 DEF CountOK
  <2>6. ContentOK(e)'
    BY <1>2, <1>3, <2>1, <2>4 DEF ContentOK
  <2> QED
    BY <2>5, <2>6
<1>7. ASSUME NEW d \in Consumers PROVE ConsumerOK(d)'
  <2>1. CASE d = c
    BY <2>1
  <2>2. CASE d # c
    <3>1. cpc'[d] = cpc[d] /\ local'[d] = local[d]
      BY <2>2 DEF Private
    <3> QED
      BY <1>1, <1>2, <3>1, OtherConsumer
  <2> QED
    BY <2>1, <2>2
<1>8. Apart'
  BY <1>1, <1>5 DEF Apart
<1>9. OwnerOK'
  <2>1. \A d \in Consumers, b \in Blocks : Frees(d, b)' = Frees(d, b)
    BY <1>5 DEF Frees
  <2> QED
    BY <1>1, <1>2, <1>3, <2>1 DEF OwnerOK
<1> QED
  BY <1>3, <1>4, <1>6, <1>7, <1>8, <1>9 DEF BlocksInv

\* The places of a consumer that claimed an element and has not returned.
Claims == {"header", "slot", "key", "value", "move", "setEmpty", "unlink", "free"}

LEMMA TicketPrivate ==
  ASSUME Whole, NEW c \in Consumers, Ticket(c)
  PROVE  BlocksInv'
<1>1. /\ Typed /\ tailIndex \in Nat /\ overcommit \in Nat /\ optimistic \in Nat
      /\ local \in [Consumers -> Locals]
      /\ cpc = [d \in Consumers |-> cpc[d]]
  BY DEF Whole, BlocksInv, CountersOK, Typed
<1>2. Fresh \in Locals
  BY DEF Fresh, Locals
<1>3. /\ UNCHANGED <<producerVars, blockVars, headIndex>>
      /\ cpc[c] \notin Claims
      /\ \E next : next \notin Claims /\ cpc' = [cpc EXCEPT ![c] = next]
      /\ \/ local' = local
         \/ local' = [local EXCEPT ![c] = Fresh]
         \/ local' = [local EXCEPT ![c].tail = tailIndex]
         \/ local' = [local EXCEPT ![c].overcommit = overcommit]
         \/ local' = [local EXCEPT ![c].ticket = optimistic]
  <2> USE DEF At, Return, counterVars, Claims
  <2>1. CASE ReadSizeTail(c) \/ ReadTail(c) \/ ReadOvercommit(c) \/ TakeTicket(c)
    BY <2>1 DEF ReadSizeTail, ReadTail, ReadOvercommit, TakeTicket
  <2>2. CASE ReadSizeHead(c)
    BY <2>2 DEF ReadSizeHead
  <2>3. CASE ReadOptimistic(c)
    BY <2>3 DEF ReadOptimistic
  <2>4. CASE Recheck(c)
    BY <2>4 DEF Recheck
  <2>5. CASE GiveBack(c)
    BY <2>5 DEF GiveBack
  <2> QED
    BY <2>1, <2>2, <2>3, <2>4, <2>5 DEF Ticket
<1>4. \E new \in Locals : local' = [local EXCEPT ![c] = new]
  <2>1. local[c] \in Locals /\ local = [local EXCEPT ![c] = local[c]]
    BY <1>1
  <2>2. /\ [local[c] EXCEPT !.tail = tailIndex] \in Locals
        /\ [local[c] EXCEPT !.overcommit = overcommit] \in Locals
        /\ [local[c] EXCEPT !.ticket = optimistic] \in Locals
    BY <1>1, <2>1 DEF Locals
  <2>3. /\ local' = local => local' = [local EXCEPT ![c] = local[c]]
        /\ local' = [local EXCEPT ![c].tail = tailIndex]
             => local' = [local EXCEPT ![c] = [local[c] EXCEPT !.tail = tailIndex]]
        /\ local' = [local EXCEPT ![c].overcommit = overcommit]
             => local' = [local EXCEPT ![c] = [local[c] EXCEPT !.overcommit = overcommit]]
        /\ local' = [local EXCEPT ![c].ticket = optimistic]
             => local' = [local EXCEPT ![c] = [local[c] EXCEPT !.ticket = optimistic]]
    BY <2>1
  <2> QED
    BY <1>2, <1>3, <2>1, <2>2, <2>3
<1> HIDE DEF Locals
<1>5. /\ local' \in [Consumers -> Locals]
      /\ cpc[c] \notin Claims /\ cpc'[c] \notin Claims
      /\ \A d \in Consumers : d # c => cpc'[d] = cpc[d] /\ local'[d] = local[d]
  BY <1>1, <1>3, <1>4
<1>6. Private(c)
  BY <1>3, <1>5 DEF Private, Moving, Claims
<1>7. ConsumerOK(c)'
  BY <1>5 DEF ConsumerOK, Active, Started, Moving, Claims
<1> QED
  BY <1>6, <1>7, PrivateStep

LEMMA ReadHeaderStep ==
  ASSUME Whole, NEW c \in Consumers, ReadHeader(c)
  PROVE  BlocksInv'
<1>1. /\ Typed /\ HeadersOK /\ ConsumerOK(c)
      /\ local \in [Consumers -> Locals]
      /\ cpc = [d \in Consumers |-> cpc[d]]
  BY DEF Whole, BlocksInv, CountersOK, Typed
<1>2. /\ cpc[c] = "header" /\ cpc' = [cpc EXCEPT ![c] = "slot"]
      /\ local' = [local EXCEPT ![c].header = Len(headers)]
      /\ UNCHANGED <<producerVars, blockVars, headIndex>>
      /\ UNCHANGED <<headers, entries>>
  BY DEF ReadHeader, At, counterVars, producerVars, blockVars
<1>3. Len(headers) \in Nat /\ Len(headers) # 0
  BY <1>1, IndexShape
<1>4. /\ local' \in [Consumers -> Locals]
      /\ local'[c].header = Len(headers) /\ local'[c].index = local[c].index
      /\ \A d \in Consumers : d # c => cpc'[d] = cpc[d] /\ local'[d] = local[d]
      /\ cpc'[c] = "slot"
  <2>1. local[c] \in Locals
    BY <1>1
  <2>2. [local[c] EXCEPT !.header = Len(headers)] \in Locals
        /\ [local[c] EXCEPT !.header = Len(headers)].header = Len(headers)
        /\ [local[c] EXCEPT !.header = Len(headers)].index = local[c].index
    BY <1>3, <2>1 DEF Locals
  <2>3. local' = [local EXCEPT ![c] = [local[c] EXCEPT !.header = Len(headers)]]
    BY <1>2
  <2> HIDE DEF Locals
  <2> QED
    BY <1>1, <1>2, <2>2, <2>3
<1>5. Private(c)
  BY <1>2, <1>4 DEF Private, Moving
<1>6. ConsumerOK(c)'
  <2> PICK k : k = Base(local[c].index)
    OBVIOUS
  <2> PICK l \in Nat : l = Len(headers)
    BY <1>3
  <2>1. PICK e \in 1..Capacity : entries[e].key = k /\ Used(e)
    BY <1>1, <1>2 DEF ConsumerOK, Lives
  <2>2. PICK p \in Newest : blockIndex.index[p] = e
    BY <1>1, IndexShape
  <2>3. p \in Positions(l) /\ headers[l].index[p] = e
    BY <2>2 DEF Newest, blockIndex
  <2>4. Positions(l)' = Positions(l)
    BY <1>2 DEF Positions
  <2>5. \E q \in Positions(l)' : /\ entries'[headers'[l].index[q]].key = k
                                 /\ Used(headers[l].index[q])'
    BY <1>2, <2>1, <2>3, <2>4 DEF Used
  <2>6. local'[c].header = l /\ Base(local[c].index)' = k
    BY <1>4 DEF Base
  <2>7. l \in 1..Len(headers')
    BY <1>2, <1>3
  <2>8. \E q \in Positions(local[c].header)' :
            /\ entries'[headers'[local'[c].header].index[q]].key = Base(local[c].index)'
            /\ Used(headers[local[c].header].index[q])'
    BY <2>5, <2>6 DEF Positions, Used
  <2>9. local'[c].index < headIndex'
    BY <1>1, <1>2, <1>4 DEF ConsumerOK, Active, Started, Moving
  <2> QED
    BY <1>4, <2>6, <2>7, <2>8, <2>9 DEF ConsumerOK
<1> QED
  BY <1>5, <1>6, PrivateStep

LEMMA ReadSlotStep ==
  ASSUME Whole, NEW c \in Consumers, ReadSlot(c)
  PROVE  BlocksInv'
<1>1. /\ Typed /\ HeadersOK /\ ConsumerOK(c)
      /\ local \in [Consumers -> Locals]
      /\ cpc = [d \in Consumers |-> cpc[d]]
  BY DEF Whole, BlocksInv, CountersOK, Typed
<1> PICK h : h = local[c].header
  OBVIOUS
<1> PICK k : k = Base(local[c].index)
  OBVIOUS
<1> PICK s : s = headers[h].tail
  OBVIOUS
<1>2. /\ cpc[c] = "slot" /\ cpc' = [cpc EXCEPT ![c] = "key"]
      /\ local' = [local EXCEPT ![c].slot = s]
      /\ UNCHANGED <<producerVars, blockVars, headIndex>>
      /\ UNCHANGED <<headers, entries>>
  BY DEF ReadSlot, At, counterVars, producerVars, blockVars
<1>3. PICK p \in Positions(h) : entries[headers[h].index[p]].key = k /\ Used(headers[h].index[p])
  BY <1>1, <1>2 DEF ConsumerOK
<1>4. h \in 1..Len(headers) /\ HeaderOK(h)
  BY <1>1, <1>2 DEF ConsumerOK, HeadersOK
<1>5. s \in Positions(h) /\ s \in Nat /\ headers[h].index \in [Positions(h) -> 1..Capacity]
  BY <1>4 DEF HeaderOK, Positions
<1>6. /\ local' \in [Consumers -> Locals]
      /\ local'[c].slot = s /\ local'[c].index = local[c].index
      /\ local'[c].header = h
      /\ \A d \in Consumers : d # c => cpc'[d] = cpc[d] /\ local'[d] = local[d]
      /\ cpc'[c] = "key"
  <2>1. local[c] \in Locals
    BY <1>1
  <2>2. [local[c] EXCEPT !.slot = s] \in Locals
        /\ [local[c] EXCEPT !.slot = s].slot = s
        /\ [local[c] EXCEPT !.slot = s].header = local[c].header
        /\ [local[c] EXCEPT !.slot = s].index = local[c].index
    BY <1>5, <2>1 DEF Locals
  <2>3. local' = [local EXCEPT ![c] = [local[c] EXCEPT !.slot = s]]
    BY <1>2
  <2> HIDE DEF Locals
  <2> QED
    BY <1>1, <1>2, <2>2, <2>3
<1>7. Private(c)
  BY <1>2, <1>6 DEF Private, Moving
<1>8. Known(headers[h].index[s])
  <2>1. CASE h = Len(headers)
    <3>1. PICK top \in Nat : IndexInv(top)
      BY DEF Whole, BlocksInv, IndexOK
    <3>2. headers[h].index[p] \in 1..Capacity
      BY <1>5
    <3>3. Known(headers[h].index[p])
      BY <1>3, <3>2, UsedEntry
    <3>4. EntryAt(blockIndex.tail).key # Invalid
      BY <1>1, <1>3, <3>1, <3>2, <3>3, TailKnown
    <3> QED
      BY <2>1, <3>4 DEF EntryAt, Known, blockIndex
  <2>2. CASE h # Len(headers)
    BY <1>4, <2>2, OldTails
  <2> QED
    BY <2>1, <2>2
<1>9. ConsumerOK(c)'
  <2>1. Positions(h)' = Positions(h) /\ Known(headers[h].index[s])'
    BY <1>2, <1>8 DEF Positions, Known
  <2>2. \E q \in Positions(h)' : /\ entries'[headers'[h].index[q]].key = k
                                 /\ Used(headers[h].index[q])'
    BY <1>2, <1>3, <2>1 DEF Used
  <2>3. local'[c].header = h /\ local'[c].slot = s /\ Base(local[c].index)' = k
    BY <1>6 DEF Base
  <2>4. h \in 1..Len(headers')
    BY <1>2, <1>4
  <2>5. \E q \in Positions(local[c].header)' :
            /\ entries'[headers'[local'[c].header].index[q]].key = Base(local[c].index)'
            /\ Used(headers[local[c].header].index[q])'
    BY <2>2, <2>3 DEF Positions, Used
  <2>6. /\ local'[c].slot \in Positions(local[c].header)'
        /\ Known(headers[local[c].header].index[local[c].slot])'
    BY <1>5, <2>1, <2>3 DEF Positions, Known
  <2>7. local'[c].index < headIndex'
    BY <1>1, <1>2, <1>6 DEF ConsumerOK, Active, Started, Moving
  <2> QED
    BY <1>6, <2>3, <2>4, <2>5, <2>6, <2>7 DEF ConsumerOK
<1> QED
  BY <1>7, <1>9, PrivateStep

\* Distances modulo the capacity lead from one position to another.
LEMMA CongMoves ==
  ASSUME NEW n \in Nat \ {0}, NEW o \in Int, NEW p \in 0..(n - 1), NEW s \in Int,
         NEW u \in Int, NEW v \in Int, NEW d \in Int,
         Cong(u, p + o, n), Cong(v, s + o, n), Cong(d, u - v, n)
  PROVE  (s + d) % n = p
<1>1. PICK a \in Int : u = p + o + a * n
  BY DEF Cong
<1>2. PICK b \in Int : v = s + o + b * n
  BY DEF Cong
<1>3. PICK e \in Int : d = u - v + e * n
  BY DEF Cong
<1>4. p \in Int /\ n \in Int
  OBVIOUS
<1>5. s + d = p + (a - b + e) * n
  <2>1. a * n \in Int /\ b * n \in Int /\ e * n \in Int
    BY <1>4
  <2>2. (a - b + e) * n = a * n - b * n + e * n
    BY <1>4
  <2> QED
    BY <1>1, <1>2, <1>3, <1>4, <2>1, <2>2
<1>6. a - b + e \in Int /\ s + d \in Int
  OBVIOUS
<1> QED
  BY <1>5, <1>6, ModIs

\* The distance of two blocks is that of their entries, modulo the capacity.
LEMMA CongDistance ==
  ASSUME NEW n \in Int, NEW u \in Int, NEW v \in Int, NEW t \in Int, NEW x \in Int,
         NEW y \in Int, NEW i \in Int, NEW j \in Int, NEW top \in Int,
         Cong(x, u - (t + 1), n), Cong(y, v - (t + 1), n),
         i = top - n + x, j = top - n + y \/ (j = top /\ y = 0)
  PROVE  Cong(i - j, u - v, n)
<1>1. PICK a \in Int : x = u - (t + 1) + a * n
  BY DEF Cong
<1>2. PICK b \in Int : y = v - (t + 1) + b * n
  BY DEF Cong
<1>3. CASE j = top - n + y
  <2>1. i - j = u - v + (a - b) * n
    BY <1>1, <1>2, <1>3
  <2>2. a - b \in Int
    OBVIOUS
  <2> QED
    BY <2>1, <2>2 DEF Cong
<1>4. CASE j = top /\ y = 0
  <2>1. i - j = u - v + (a - b - 1) * n
    BY <1>1, <1>2, <1>4
  <2>2. a - b - 1 \in Int
    OBVIOUS
  <2> QED
    BY <2>1, <2>2 DEF Cong
<1> QED
  BY <1>3, <1>4

\* The look-up: from any entry that has a key, of any index, the distance of the
\* keys leads to the entry looked for.
LEMMA Lookup ==
  ASSUME Whole, NEW h \in 1..Len(headers), NEW p \in Positions(h), NEW s \in Positions(h),
         NEW k,
         entries[headers[h].index[p]].key = k, Used(headers[h].index[p]),
         Known(headers[h].index[s])
  PROVE  (s + ((k - entries[headers[h].index[s]].key) \div BlockSize)) % headers[h].capacity = p
<1>1. Typed /\ HeadersOK /\ HeaderOK(h)
  BY DEF Whole, BlocksInv, HeadersOK
<1>2. PICK top \in Nat : IndexInv(top)
  BY DEF Whole, BlocksInv, IndexOK
<1> DEFINE m == headers[h].capacity
           e == headers[h].index[p]
           f == headers[h].index[s]
           n == Capacity
<1>3. /\ m \in Nat \ {0} /\ Cong(n, 0, m)
      /\ e \in 1..n /\ f \in 1..n /\ p \in 0..(m - 1) /\ s \in 0..(m - 1)
  BY <1>1 DEF HeaderOK, Positions
<1>4. PICK o \in Int : \A a \in Positions(h), b \in Newest :
          headers[h].index[a] = blockIndex.index[b] => Cong(b, a + o, m)
  BY <1>1 DEF HeaderOK, Newest
<1>5. PICK u \in Newest : blockIndex.index[u] = e
  BY <1>1, <1>3, IndexShape
<1>6. PICK v \in Newest : blockIndex.index[v] = f
  BY <1>1, <1>3, IndexShape
<1>7. Cong(u, p + o, m) /\ Cong(v, s + o, m)
  BY <1>4, <1>5, <1>6
<1>8. Known(e)
  BY <1>3, UsedEntry
<1>9. PICK i \in Nat : k = Block(i) /\ i = top - n + Rank(u)
  <2>1. EntryAt(u).key # Invalid /\ EntryAt(u).value # NoBlock /\ EntryAt(u).key = k
    BY <1>5, <1>8 DEF EntryAt, Known, Used
  <2> QED
    BY <1>1, <1>2, <2>1, KeyOf
<1>10. PICK j \in Nat : /\ entries[f].key = Block(j)
                        /\ j = top - n + Rank(v) \/ (j = top /\ Rank(v) = 0)
  <2>1. EntryAt(v).key # Invalid /\ EntryAt(v) = entries[f]
    BY <1>6 DEF EntryAt, Known
  <2> QED
    BY <1>1, <1>2, <2>1, KeyOf
<1>11. /\ n \in Nat \ {0} /\ n \in Int /\ u \in Int /\ v \in Int /\ Rank(u) \in Int /\ Rank(v) \in Int
       /\ blockIndex.tail \in Int
  <2>1. /\ Capacity \in Nat \ {0, 1} /\ Newest = 0..(Capacity - 1) /\ blockIndex.tail \in Newest
    BY <1>1, IndexShape
  <2>2. Rank(u) \in 0..(Capacity - 1) /\ Rank(v) \in 0..(Capacity - 1)
    BY <1>1, Ranks
  <2> QED
    BY <2>1, <2>2
<1>12. Cong(i - j, u - v, n)
  <2> PICK N \in Int : N = n
    BY <1>11
  <2> PICK t \in Int : t = blockIndex.tail
    BY <1>11
  <2> PICK x \in Int : x = Rank(u)
    BY <1>11
  <2> PICK y \in Int : y = Rank(v)
    BY <1>11
  <2>1. Cong(x, u - (t + 1), N) /\ Cong(y, v - (t + 1), N)
    BY <1>1, RankCong
  <2>2. i = top - N + x /\ (j = top - N + y \/ (j = top /\ y = 0))
    BY <1>9, <1>10
  <2>3. Cong(i - j, u - v, N)
    <3>1. u \in Int /\ v \in Int /\ i \in Int /\ j \in Int /\ top \in Int
      BY <1>11
    <3> QED
      BY <2>1, <2>2, <3>1, CongDistance
  <2> QED
    BY <2>3
<1>13. (k - entries[f].key) \div BlockSize = i - j
  BY <1>9, <1>10, BlockDiff
<1> HIDE DEF m, n
<1>14. Cong(i - j, u - v, m)
  <2>1. i - j \in Int /\ u - v \in Int
    BY <1>11
  <2> QED
    BY <1>3, <1>11, <1>12, <2>1, CongWeaken
<1>15. (s + (i - j)) % m = p
  <2>1. i - j \in Int /\ s \in Int
    BY <1>3
  <2> QED
    BY <1>3, <1>7, <1>11, <1>14, <2>1, CongMoves
<1> QED
  BY <1>13, <1>15 DEF m

\* The look-up ends at the entry of the element's block.
LEMMA ReadKeyStep ==
  ASSUME Whole, NEW c \in Consumers, ReadKey(c)
  PROVE  BlocksInv'
<1>1. /\ Typed /\ HeadersOK /\ ConsumerOK(c)
      /\ local \in [Consumers -> Locals]
      /\ cpc = [d \in Consumers |-> cpc[d]]
  BY DEF Whole, BlocksInv, CountersOK, Typed
<1> PICK h : h = local[c].header
  OBVIOUS
<1> PICK s : s = local[c].slot
  OBVIOUS
<1> PICK k : k = Base(local[c].index)
  OBVIOUS
<1>2. /\ cpc[c] = "key" /\ cpc' = [cpc EXCEPT ![c] = "value"]
      /\ local' = [local EXCEPT ![c].entry = headers[h].index[
                    (s + ((k - entries[headers[h].index[s]].key) \div BlockSize)) % headers[h].capacity]]
      /\ UNCHANGED <<producerVars, blockVars, headIndex>>
      /\ UNCHANGED <<headers, entries>>
  BY DEF ReadKey, At, counterVars, producerVars, blockVars
<1>3. PICK p \in Positions(h) : entries[headers[h].index[p]].key = k /\ Used(headers[h].index[p])
  BY <1>1, <1>2 DEF ConsumerOK
<1>4. h \in 1..Len(headers) /\ HeaderOK(h) /\ s \in Positions(h) /\ Known(headers[h].index[s])
  BY <1>1, <1>2 DEF ConsumerOK, HeadersOK
<1> PICK e : e = headers[h].index[p]
  OBVIOUS
<1>5. local' = [local EXCEPT ![c].entry = e]
  <2>1. (s + ((k - entries[headers[h].index[s]].key) \div BlockSize)) % headers[h].capacity = p
    BY <1>3, <1>4, Lookup
  <2> QED
    BY <1>2, <2>1
<1>6. e \in 1..Capacity /\ e \in Nat /\ Capacity' = Capacity
  <2>1. e \in 1..Capacity
    BY <1>4 DEF HeaderOK
  <2>2. Capacity \in Nat
    BY <1>1, IndexShape
  <2>3. headers' = headers
    BY <1>2
  <2>4. Capacity' = Capacity
    BY <2>3, SameHeaders
  <2> QED
    BY <2>1, <2>2, <2>4
<1>7. /\ local' \in [Consumers -> Locals]
      /\ local'[c].entry = e /\ local'[c].index = local[c].index
      /\ \A d \in Consumers : d # c => cpc'[d] = cpc[d] /\ local'[d] = local[d]
      /\ cpc'[c] = "value"
  <2>1. local[c] \in Locals
    BY <1>1
  <2>2. [local[c] EXCEPT !.entry = e] \in Locals
        /\ [local[c] EXCEPT !.entry = e].entry = e
        /\ [local[c] EXCEPT !.entry = e].index = local[c].index
    BY <1>6, <2>1 DEF Locals
  <2>3. local' = [local EXCEPT ![c] = [local[c] EXCEPT !.entry = e]]
    BY <1>5
  <2>4. cpc' = [cpc EXCEPT ![c] = "value"]
    BY <1>2
  <2> HIDE DEF Locals
  <2> QED
    BY <1>1, <2>2, <2>3, <2>4
<1>8. Private(c)
  <2>1. UNCHANGED <<producerVars, blockVars, headIndex>> /\ cpc[c] = "key"
    BY <1>2
  <2> QED
    BY <1>7, <2>1 DEF Private, Moving
<1>9. ConsumerOK(c)'
  <2>1. Used(e)' /\ entries'[e].key = k /\ e \in 1..Capacity'
    BY <1>2, <1>3, <1>6 DEF Used
  <2>2. local'[c].entry = e /\ Base(local[c].index)' = k
    BY <1>7 DEF Base
  <2>3. Used(local[c].entry)'
    BY <2>1, <2>2 DEF Used
  <2>4. local'[c].index < headIndex'
    BY <1>1, <1>2, <1>7 DEF ConsumerOK, Active, Started, Moving
  <2> QED
    BY <1>7, <2>1, <2>2, <2>3, <2>4 DEF ConsumerOK
<1> QED
  BY <1>8, <1>9, PrivateStep

LEMMA ReadValueStep ==
  ASSUME Whole, NEW c \in Consumers, ReadValue(c)
  PROVE  BlocksInv'
<1>1. /\ Typed /\ HeadersOK /\ ConsumerOK(c)
      /\ local \in [Consumers -> Locals]
      /\ cpc = [d \in Consumers |-> cpc[d]]
  BY DEF Whole, BlocksInv, CountersOK, Typed
<1> PICK e : e = local[c].entry
  OBVIOUS
<1> PICK k : k = Base(local[c].index)
  OBVIOUS
<1> PICK b : b = entries[e].value
  OBVIOUS
<1>2. /\ cpc[c] = "value" /\ cpc' = [cpc EXCEPT ![c] = "move"]
      /\ local' = [local EXCEPT ![c].block = b]
      /\ UNCHANGED <<producerVars, blockVars, headIndex>>
      /\ UNCHANGED <<headers, entries>>
  BY DEF ReadValue, At, counterVars, producerVars, blockVars
<1>3. e \in 1..Capacity /\ entries[e].key = k /\ Used(e)
  BY <1>1, <1>2 DEF ConsumerOK
<1>4. b \in Blocks /\ Capacity' = Capacity
  BY <1>2, <1>3, UsedEntry, SameHeaders
<1>5. /\ local' \in [Consumers -> Locals]
      /\ local'[c].entry = e /\ local'[c].index = local[c].index /\ local'[c].block = b
      /\ \A d \in Consumers : d # c => cpc'[d] = cpc[d] /\ local'[d] = local[d]
      /\ cpc'[c] = "move"
  <2>1. local[c] \in Locals
    BY <1>1
  <2>2. [local[c] EXCEPT !.block = b] \in Locals
        /\ [local[c] EXCEPT !.block = b].entry = e
        /\ [local[c] EXCEPT !.block = b].index = local[c].index
        /\ [local[c] EXCEPT !.block = b].block = b
    BY <1>4, <2>1 DEF Locals
  <2>3. local' = [local EXCEPT ![c] = [local[c] EXCEPT !.block = b]]
    BY <1>2
  <2> HIDE DEF Locals
  <2> QED
    BY <1>1, <1>2, <2>2, <2>3
<1>6. Private(c)
  BY <1>2, <1>5 DEF Private, Moving
<1>7. ConsumerOK(c)'
  <2>1. Used(e)' /\ entries'[e].key = k /\ entries'[e].value = b /\ e \in 1..Capacity'
    BY <1>2, <1>3, <1>4 DEF Used
  <2>2. local'[c].entry = e /\ local'[c].block = b /\ Base(local[c].index)' = k
    BY <1>5 DEF Base
  <2>3. Used(local[c].entry)'
    BY <2>1, <2>2 DEF Used
  <2>4. local'[c].index < headIndex'
    BY <1>1, <1>2, <1>5 DEF ConsumerOK, Active, Started, Moving
  <2> QED
    BY <1>5, <2>1, <2>2, <2>3, <2>4 DEF ConsumerOK
<1> QED
  BY <1>6, <1>7, PrivateStep

\* A consumer with a good ticket finds an element that nobody claimed.
LEMMA ElementLeft ==
  ASSUME Whole, NEW c \in Consumers, Claim(c)
  PROVE  headIndex < tailIndex
<1> DEFINE S == {d \in Consumers : cpc[d] = "claim"}
<1>1. IsFiniteSet(S) /\ c \in S
  BY FS_Subset, ThreadsAssumption DEF Claim, At
<1>2. Cardinality(S) \in Nat /\ Cardinality(S) # 0
  BY <1>1, FS_CardinalityType, FS_EmptySet
<1>3. headIndex + Cardinality(S) <= tailIndex
  BY DEF Whole, ClaimsCovered
<1> HIDE DEF S
<1> QED
  BY <1>2, <1>3 DEF Whole, CountersOK

\* An element that is claimed moves from those to come to those at work.
LEMMA ClaimBlocksStep ==
  ASSUME Whole, NEW c \in Consumers, Claim(c)
  PROVE  BlocksInv'
<1>1. /\ Typed /\ HeadersOK /\ ProducerOK /\ OwnerOK /\ Apart
      /\ local \in [Consumers -> Locals]
      /\ cpc = [d \in Consumers |-> cpc[d]]
      /\ headIndex \in Nat /\ tailIndex \in Nat
  BY DEF Whole, BlocksInv, CountersOK, Typed
<1> PICK i \in Nat : i = headIndex
  BY <1>1
<1>2. /\ cpc[c] = "claim" /\ cpc' = [cpc EXCEPT ![c] = "header"]
      /\ local' = [local EXCEPT ![c] = [Fresh EXCEPT !.index = i]]
      /\ headIndex' = i + 1
      /\ UNCHANGED <<tailIndex, headers, tailBlock, newBlock, ppc, entries, elements, dequeued, free>>
  BY DEF Claim, At, producerVars, blockVars
<1>3. i < tailIndex
  BY ElementLeft
<1> PICK k : k = Base(i)
  OBVIOUS
<1>4. PICK e \in 1..Capacity : entries[e].key = k /\ Used(e)
  BY <1>1, <1>3 DEF ProducerOK, Lives
<1>5. /\ local' \in [Consumers -> Locals]
      /\ local'[c].index = i
      /\ \A d \in Consumers : d # c => cpc'[d] = cpc[d] /\ local'[d] = local[d]
      /\ cpc'[c] = "header"
  <2> PICK r : r = [Fresh EXCEPT !.index = i]
    OBVIOUS
  <2>1. r \in Locals /\ r.index = i
    BY DEF Locals, Fresh
  <2> QED
    BY <1>1, <1>2, <2>1
<1>6. /\ HeadersOK' /\ IndexOK' /\ ProducerOK' /\ Capacity' = Capacity /\ \A f : Used(f)' = Used(f)
  <2>1. headIndex' \in Nat /\ headIndex <= headIndex'
    BY <1>2
  <2> QED
    BY <1>2, <2>1, ConsumerShared DEF producerVars
<1>7. Typed'
  BY <1>1, <1>2, <1>5, <1>6 DEF Typed
<1>8. \A d \in Consumers : /\ Active(d)' <=> Active(d) \/ d = c
                           /\ Started(d)' <=> Started(d) \/ d = c
                           /\ Moving(d)' <=> Moving(d) \/ d = c
                           /\ cpc'[d] = "unlink" <=> cpc[d] = "unlink"
                           /\ cpc'[d] = "free" <=> cpc[d] = "free"
  BY <1>2, <1>5 DEF Active, Started, Moving
<1>9. ~Active(c) /\ ~Started(c) /\ cpc[c] # "unlink" /\ cpc[c] # "free"
  BY <1>2 DEF Active, Started, Moving
<1>10. k \in Nat /\ k <= i /\ i < k + BlockSize
  BY SlotOf
<1>11. ASSUME NEW f \in 1..Capacity, Used(f) PROVE CountOK(f)'
  <2> PICK b : b = entries[f].key
    OBVIOUS
  <2>1. b \in Nat /\ (\E j \in Nat : b = Block(j)) /\ dequeued[entries[f].value] \in Nat
    BY <1>11, UsedEntry
  <2>2. dequeued[entries[f].value] + Cardinality(Working(b)) = Claimed(b)
    BY <1>11 DEF Whole, BlocksInv, CountOK
  <2>3. IsFiniteSet(Working(b)) /\ Cardinality(Working(b)) \in Nat
    BY WorkingFinite
  <2>4. Cardinality(Working(b)') = Claimed(b)' - Claimed(b) + Cardinality(Working(b))
    <3>1. CASE b = k
      <4>1. Working(b)' = Working(b) \cup {c}
        BY <1>5, <1>8, <3>1 DEF Working, Base
      <4>2. c \notin Working(b)
        BY <1>9 DEF Working
      <4>3. Cardinality(Working(b)') = Cardinality(Working(b)) + 1
        BY <2>3, <4>1, <4>2, FS_AddElement
      <4>4. Claimed(b) = i - k
        BY <1>10, <3>1, SizesAssumption DEF Claimed
      <4>5. Claimed(b)' = i + 1 - k
        BY <1>2, <1>10, <3>1, SizesAssumption DEF Claimed
      <4> QED
        BY <1>10, <2>3, <4>3, <4>4, <4>5
    <3>2. CASE b # k
      <4>1. Working(b)' = Working(b)
        BY <1>5, <1>8, <1>9, <3>2 DEF Working, Base
      <4>2. i < b \/ i >= b + BlockSize
        BY <2>1, <3>2, BaseUnique, SizesAssumption
      <4>3. Claimed(b)' = Claimed(b) /\ Claimed(b) \in Int
        BY <1>2, <2>1, <4>2, SizesAssumption DEF Claimed
      <4> QED
        BY <2>3, <4>1, <4>3
    <3> QED
      BY <3>1, <3>2
  <2>5. Claimed(b) \in Int /\ Claimed(b)' \in Int
    BY <1>2, <2>1, SizesAssumption DEF Claimed
  <2>6. dequeued[entries[f].value] + Cardinality(Working(b)') = Claimed(b)'
    BY <2>1, <2>2, <2>3, <2>4, <2>5
  <2> QED
    BY <1>2, <2>6 DEF CountOK
<1>12. ASSUME NEW f \in 1..Capacity PROVE CountOK(f)' /\ ContentOK(f)'
  <2>1. CountOK(f)'
    BY <1>6, <1>11 DEF CountOK
  <2>2. \A j \in Nat : Pending(j)' => Pending(j)
    <3> SUFFICES ASSUME NEW j \in Nat, Pending(j)' PROVE Pending(j)
      OBVIOUS
    <3>1. CASE j >= headIndex'
      BY <1>2, <3>1 DEF Pending
    <3>2. CASE \E d \in Consumers : Moving(d)' /\ local'[d].index = j
      <4>1. PICK d \in Consumers : Moving(d)' /\ local'[d].index = j
        BY <3>2
      <4>2. CASE d = c
        BY <1>5, <4>1, <4>2 DEF Pending
      <4>3. CASE d # c
        BY <1>5, <1>8, <4>1, <4>3 DEF Pending
      <4> QED
        BY <4>2, <4>3
    <3> QED
      BY <3>1, <3>2 DEF Pending
  <2>3. ContentOK(f)
    BY DEF Whole, BlocksInv
  <2>4. ContentOK(f)'
    BY <1>2, <1>6, <2>2, <2>3 DEF ContentOK
  <2> QED
    BY <2>1, <2>4
<1>13. ConsumerOK(c)'
  <2>1. Lives(k)'
    BY <1>2, <1>4, <1>6 DEF Lives
  <2>2. Base(local'[c].index) = k
    BY <1>5
  <2>3. Lives(Base(local[c].index))'
    BY <2>1, <2>2 DEF Lives
  <2>4. local'[c].index < headIndex'
    BY <1>2, <1>5
  <2> QED
    BY <1>5, <2>3, <2>4 DEF ConsumerOK
<1>14. ASSUME NEW d \in Consumers PROVE ConsumerOK(d)'
  <2>1. CASE d = c
    BY <1>13, <2>1
  <2>2. CASE d # c
    <3>1. cpc'[d] = cpc[d] /\ local'[d] = local[d]
      BY <1>5, <2>2
    <3>2. headIndex' \in Nat /\ headIndex <= headIndex'
      BY <1>2
    <3> QED
      BY <1>2, <3>1, <3>2, OtherConsumer
  <2> QED
    BY <2>1, <2>2
<1>15. Apart'
  <2>1. \A d \in Consumers : Active(d) => local[d].index < i
    BY DEF Whole, BlocksInv, ConsumerOK
  <2>2. ASSUME NEW d \in Consumers, NEW f \in Consumers, Active(d)', Active(f)',
               local'[d].index = local'[f].index
        PROVE  d = f
    <3>1. CASE d = c /\ f # c
      <4>1. Active(f) /\ local[f].index = i
        BY <1>5, <1>8, <2>2, <3>1
      <4> QED
        BY <2>1, <4>1
    <3>2. CASE f = c /\ d # c
      <4>1. Active(d) /\ local[d].index = i
        BY <1>5, <1>8, <2>2, <3>2
      <4> QED
        BY <2>1, <4>1
    <3>3. CASE d # c /\ f # c
      BY <1>1, <1>5, <1>8, <2>2, <3>3 DEF Apart
    <3> QED
      BY <3>1, <3>2, <3>3
  <2>3. ASSUME NEW d \in Consumers, NEW f \in Consumers, cpc'[d] = "unlink", cpc'[f] = "unlink",
               local'[d].entry = local'[f].entry
        PROVE  d = f
    BY <1>1, <1>5, <1>8, <1>9, <2>3 DEF Apart
  <2>4. \A d, f \in Consumers : Active(d)' /\ Active(f)' /\ local'[d].index = local'[f].index => d = f
    BY <2>2
  <2>5. \A d, f \in Consumers : cpc'[d] = "unlink" /\ cpc'[f] = "unlink"
                                /\ local'[d].entry = local'[f].entry => d = f
    BY <2>3
  <2> QED
    BY <2>4, <2>5 DEF Apart
<1>16. OwnerOK'
  <2>1. \A d \in Consumers, b \in Blocks : Frees(d, b)' = Frees(d, b)
    BY <1>5, <1>8, <1>9 DEF Frees
  <2> QED
    BY <1>1, <1>2, <1>6, <2>1 DEF OwnerOK
<1> QED
  BY <1>6, <1>7, <1>12, <1>14, <1>15, <1>16 DEF BlocksInv

LEMMA HeadBelowTail ==
  ASSUME Whole
  PROVE  headIndex \in Nat /\ tailIndex \in Nat /\ headIndex <= tailIndex
<1> DEFINE S == {c \in Consumers : cpc[c] = "claim"}
<1>1. IsFiniteSet(S)
  BY FS_Subset, ThreadsAssumption
<1>2. Cardinality(S) \in Nat
  BY <1>1, FS_CardinalityType
<1>3. headIndex + Cardinality(S) <= tailIndex
  BY DEF Whole, ClaimsCovered
<1> HIDE DEF S
<1>4. headIndex \in Nat /\ tailIndex \in Nat
  BY DEF Whole, CountersOK
<1> QED
  BY <1>2, <1>3, <1>4

\* The element that is moved out is the one in the slot of the index claimed.
LEMMA MoveElementStep ==
  ASSUME Whole, NEW c \in Consumers, MoveElement(c)
  PROVE  BlocksInv'
<1>1. /\ Typed /\ HeadersOK /\ OwnerOK /\ Apart /\ ConsumerOK(c)
      /\ local \in [Consumers -> Locals]
      /\ cpc = [d \in Consumers |-> cpc[d]]
      /\ elements \in [Blocks -> [0..(BlockSize - 1) -> Nat \cup {Gone}]]
  BY DEF Whole, BlocksInv, CountersOK, Typed
<1>2. headIndex \in Nat /\ tailIndex \in Nat /\ headIndex <= tailIndex
  BY HeadBelowTail
<1>3. local[c] \in Locals
  BY <1>1
<1> PICK i \in Nat : i = local[c].index
  BY <1>3 DEF Locals
<1> PICK e : e = local[c].entry
  OBVIOUS
<1> PICK b : b = local[c].block
  OBVIOUS
<1> PICK s : s = i % BlockSize
  OBVIOUS
<1>4. /\ cpc[c] = "move" /\ cpc' = [cpc EXCEPT ![c] = "setEmpty"]
      /\ local' = [local EXCEPT ![c].element = elements[b][s]]
      /\ elements' = [elements EXCEPT ![b][s] = Gone]
      /\ UNCHANGED <<tailIndex, headIndex, headers, tailBlock, newBlock, ppc, entries, dequeued, free>>
  BY DEF MoveElement, At, producerVars, counterVars
<1>5. /\ e \in 1..Capacity /\ entries[e].key = Base(i) /\ Used(e) /\ entries[e].value = b
      /\ i < headIndex
  BY <1>1, <1>4 DEF ConsumerOK, Active, Started, Moving
<1>6. b \in Blocks /\ s \in 0..(BlockSize - 1)
  BY <1>5, UsedEntry, SlotOf
<1>7. elements[b][s] = i
  <2>1. Pending(i)
    BY <1>4 DEF Pending, Moving
  <2>2. ContentOK(e)
    BY <1>5 DEF Whole, BlocksInv
  <2>3. i < tailIndex
    BY <1>2, <1>5
  <2> QED
    BY <1>5, <2>1, <2>2, <2>3 DEF ContentOK
<1>8. /\ local' \in [Consumers -> Locals]
      /\ local'[c].entry = e /\ local'[c].index = i /\ local'[c].block = b /\ local'[c].element = i
      /\ \A d \in Consumers : d # c => cpc'[d] = cpc[d] /\ local'[d] = local[d]
      /\ cpc'[c] = "setEmpty"
  <2>1. [local[c] EXCEPT !.element = i] \in Locals
        /\ [local[c] EXCEPT !.element = i].entry = e
        /\ [local[c] EXCEPT !.element = i].index = i
        /\ [local[c] EXCEPT !.element = i].block = b
        /\ [local[c] EXCEPT !.element = i].element = i
    BY <1>3 DEF Locals
  <2>2. local' = [local EXCEPT ![c] = [local[c] EXCEPT !.element = i]]
    BY <1>4, <1>7
  <2> HIDE DEF Locals
  <2> QED
    BY <1>1, <1>4, <2>1, <2>2
<1>9. /\ elements' \in [Blocks -> [0..(BlockSize - 1) -> Nat \cup {Gone}]]
      /\ \A x \in Blocks, y \in 0..(BlockSize - 1) :
           x # b \/ y # s => elements'[x][y] = elements[x][y]
  <2>1. elements' = [elements EXCEPT ![b] = [elements[b] EXCEPT ![s] = Gone]]
    BY <1>4
  <2>2. [elements[b] EXCEPT ![s] = Gone] \in [0..(BlockSize - 1) -> Nat \cup {Gone}]
    BY <1>1, <1>6
  <2> QED
    BY <1>1, <1>6, <2>1, <2>2
<1>10. /\ HeadersOK' /\ IndexOK' /\ ProducerOK' /\ Capacity' = Capacity /\ \A f : Used(f)' = Used(f)
  BY <1>2, <1>4, ConsumerShared DEF producerVars
<1>11. Typed'
  BY <1>1, <1>4, <1>8, <1>9, <1>10 DEF Typed
<1>12. \A d \in Consumers : /\ Active(d)' = Active(d)
                            /\ Started(d)' = Started(d)
                            /\ Moving(d)' = (Moving(d) /\ d # c)
                            /\ local'[d].index = local[d].index
                            /\ local'[d].entry = local[d].entry
                            /\ cpc'[d] = "unlink" <=> cpc[d] = "unlink"
                            /\ cpc'[d] = "free" <=> cpc[d] = "free"
                            /\ cpc[d] = "free" => local'[d] = local[d]
  BY <1>4, <1>8 DEF Active, Started, Moving
<1>13. \A j \in Nat : Pending(j)' => Pending(j) /\ j # i
  <2> SUFFICES ASSUME NEW j \in Nat, Pending(j)' PROVE Pending(j) /\ j # i
    OBVIOUS
  <2>1. CASE j >= headIndex
    BY <1>2, <1>5, <2>1 DEF Pending
  <2>2. CASE \E d \in Consumers : Moving(d)' /\ local'[d].index = j
    <3>1. PICK d \in Consumers : Moving(d)' /\ local'[d].index = j
      BY <2>2
    <3>2. Moving(d) /\ d # c /\ local[d].index = j
      BY <1>12, <3>1
    <3>3. Active(d) /\ Active(c)
      BY <1>4, <3>2 DEF Active, Started, Moving
    <3>4. j # i
      BY <1>1, <3>2, <3>3 DEF Apart
    <3> QED
      BY <3>2, <3>4 DEF Pending
  <2> QED
    BY <1>4, <2>1, <2>2 DEF Pending
<1>14. ASSUME NEW f \in 1..Capacity PROVE CountOK(f)' /\ ContentOK(f)'
  <2>1. CountOK(f) /\ ContentOK(f)
    BY DEF Whole, BlocksInv
  <2>2. \A k : Working(k)' = Working(k)
    BY <1>12 DEF Working, Base
  <2>3. \A k : Claimed(k)' = Claimed(k)
    BY <1>4 DEF Claimed
  <2>4. CountOK(f)'
    BY <1>4, <1>10, <2>1, <2>2, <2>3 DEF CountOK
  <2>5. ASSUME Used(f), NEW j \in Nat, Base(j) = entries[f].key, j < tailIndex, Pending(j)'
        PROVE  elements'[entries[f].value][j % BlockSize] = j
    <3>1. /\ entries[f].value \in Blocks
          /\ \A g \in 1..Capacity : entries[g].value = entries[f].value => g = f
      BY <2>5, UsedEntry
    <3>2. j % BlockSize \in 0..(BlockSize - 1)
      BY SlotOf
    <3>3. Pending(j) /\ j # i
      BY <1>13, <2>5
    <3>4. elements[entries[f].value][j % BlockSize] = j
      BY <2>1, <2>5, <3>3 DEF ContentOK
    <3>5. entries[f].value # b \/ j % BlockSize # s
      <4> SUFFICES ASSUME entries[f].value = b, j % BlockSize = i % BlockSize
                   PROVE  FALSE
        OBVIOUS
      <4>1. e = f
        BY <1>5, <3>1
      <4>2. Base(j) = Base(i)
        BY <1>5, <2>5, <4>1
      <4> QED
        BY <3>3, <4>2, SlotOf
    <3> QED
      BY <1>9, <3>1, <3>2, <3>4, <3>5
  <2>6. ContentOK(f)'
    BY <1>4, <1>10, <2>5 DEF ContentOK
  <2> QED
    BY <2>4, <2>6
<1>15. ConsumerOK(c)'
  <2> PICK k : k = Base(i)
    OBVIOUS
  <2>1. Used(e)' /\ entries'[e].key = k /\ entries'[e].value = b /\ e \in 1..Capacity'
    BY <1>4, <1>5, <1>10
  <2>2. Base(local[c].index)' = k
    BY <1>8 DEF Base
  <2>3. Used(local[c].entry)'
    BY <1>8, <2>1 DEF Used
  <2>4. local'[c].index < headIndex'
    BY <1>4, <1>5, <1>8
  <2> QED
    BY <1>8, <2>1, <2>2, <2>3, <2>4 DEF ConsumerOK
<1>16. ASSUME NEW d \in Consumers PROVE ConsumerOK(d)'
  <2>1. CASE d = c
    BY <1>15, <2>1
  <2>2. CASE d # c
    <3>1. cpc'[d] = cpc[d] /\ local'[d] = local[d]
      BY <1>8, <2>2
    <3>2. headIndex' \in Nat /\ headIndex <= headIndex'
      BY <1>2, <1>4
    <3> QED
      BY <1>4, <3>1, <3>2, OtherConsumer
  <2> QED
    BY <2>1, <2>2
<1>17. Apart'
  BY <1>1, <1>12 DEF Apart
<1>18. OwnerOK'
  <2>1. \A d \in Consumers, x \in Blocks : Frees(d, x)' = Frees(d, x)
    BY <1>12 DEF Frees
  <2> QED
    BY <1>1, <1>4, <1>10, <2>1 DEF OwnerOK
<1> QED
  BY <1>10, <1>11, <1>14, <1>16, <1>17, <1>18 DEF BlocksInv

\* An element more was moved out of the block, and one consumer less is at work
\* in it.  The one that empties it is the only one to take it out of the index.
LEMMA SetEmptyStep ==
  ASSUME Whole, NEW c \in Consumers, SetEmpty(c)
  PROVE  BlocksInv'
<1>1. /\ Typed /\ HeadersOK /\ OwnerOK /\ Apart /\ ConsumerOK(c)
      /\ local \in [Consumers -> Locals]
      /\ cpc = [d \in Consumers |-> cpc[d]]
      /\ dequeued \in [Blocks -> Nat]
  BY DEF Whole, BlocksInv, CountersOK, Typed
<1>2. headIndex \in Nat /\ tailIndex \in Nat /\ headIndex <= tailIndex
  BY HeadBelowTail
<1>3. local[c] \in Locals
  BY <1>1
<1> PICK i \in Nat : i = local[c].index
  BY <1>3 DEF Locals
<1> PICK e : e = local[c].entry
  OBVIOUS
<1> PICK b : b = local[c].block
  OBVIOUS
<1> PICK k : k = Base(i)
  OBVIOUS
<1>4. /\ cpc[c] = "setEmpty"
      /\ dequeued' = [dequeued EXCEPT ![b] = @ + 1]
      /\ \/ /\ dequeued[b] = BlockSize - 1
            /\ cpc' = [cpc EXCEPT ![c] = "unlink"]
            /\ local' = local
         \/ /\ cpc' = [cpc EXCEPT ![c] = "idle"]
            /\ local' = [local EXCEPT ![c] = Fresh]
      /\ UNCHANGED <<tailIndex, headIndex, headers, tailBlock, newBlock, ppc, entries, elements, free>>
  BY DEF SetEmpty, At, Return, producerVars, counterVars
<1>5. /\ e \in 1..Capacity /\ entries[e].key = k /\ Used(e) /\ entries[e].value = b
      /\ i < headIndex /\ local[c].element = i
  BY <1>1, <1>4 DEF ConsumerOK, Active, Started
<1>6. /\ b \in Blocks /\ b # newBlock
      /\ \A f \in 1..Capacity : entries[f].key = k => f = e
      /\ \A f \in 1..Capacity : entries[f].value = b => f = e
  BY <1>5, UsedEntry
<1>7. dequeued[b] < BlockSize /\ \A d \in Consumers : cpc[d] = "unlink" => local[d].entry # e
  <2>1. Started(c)
    BY <1>4 DEF Started
  <2> QED
    BY <1>5, <2>1, Busy
<1>8. /\ dequeued' \in [Blocks -> Nat] /\ dequeued'[b] = dequeued[b] + 1 /\ dequeued[b] \in Nat
      /\ \A x \in Blocks : x # b => dequeued'[x] = dequeued[x]
  BY <1>1, <1>4, <1>6
<1>9. /\ local' \in [Consumers -> Locals]
      /\ \A d \in Consumers : d # c => cpc'[d] = cpc[d] /\ local'[d] = local[d]
      /\ \/ cpc'[c] = "unlink" /\ local'[c] = local[c] /\ dequeued[b] = BlockSize - 1
         \/ cpc'[c] = "idle"
  <2>1. Fresh \in Locals
    BY DEF Fresh, Locals
  <2> HIDE DEF Locals
  <2> QED
    BY <1>1, <1>4, <2>1
<1>10. /\ HeadersOK' /\ IndexOK' /\ ProducerOK' /\ Capacity' = Capacity /\ \A f : Used(f)' = Used(f)
  <2>1. newBlock \in Blocks => dequeued'[newBlock] = dequeued[newBlock]
    BY <1>6, <1>8
  <2> QED
    BY <1>2, <1>4, <2>1, ConsumerShared DEF producerVars
<1>11. Typed'
  BY <1>1, <1>4, <1>8, <1>9, <1>10 DEF Typed
<1>12. \A d \in Consumers : /\ Active(d)' => Active(d) /\ local'[d].index = local[d].index
                            /\ Started(d)' <=> Started(d) /\ d # c
                            /\ Moving(d)' = Moving(d)
                            /\ Moving(d) \/ Started(d)' => local'[d].index = local[d].index
                            /\ cpc'[d] = "free" <=> cpc[d] = "free"
                            /\ cpc[d] = "free" => local'[d] = local[d]
  BY <1>4, <1>9 DEF Active, Started, Moving
<1>13. ASSUME NEW f \in 1..Capacity PROVE CountOK(f)' /\ ContentOK(f)'
  <2>1. CountOK(f) /\ ContentOK(f)
    BY DEF Whole, BlocksInv
  <2>2. \A x : Claimed(x)' = Claimed(x)
    BY <1>4 DEF Claimed
  <2> PICK x : x = entries[f].key
    OBVIOUS
  <2>3. ASSUME Used(f)
        PROVE  dequeued'[entries[f].value] + Cardinality(Working(x)') = Claimed(x)
    <3>1. dequeued[entries[f].value] + Cardinality(Working(x)) = Claimed(x)
      BY <2>1, <2>3 DEF CountOK
    <3>2. CASE f = e
      <4>1. IsFiniteSet(Working(x)) /\ Cardinality(Working(x)) \in Nat
        BY WorkingFinite
      <4>2. c \in Working(x)
        BY <1>4, <1>5, <3>2 DEF Working, Started
      <4>3. Working(x)' = Working(x) \ {c}
        BY <1>12 DEF Working, Base
      <4>4. Cardinality(Working(x)') = Cardinality(Working(x)) - 1
        BY <4>1, <4>2, <4>3, FS_RemoveElement
      <4>5. dequeued'[entries[f].value] = dequeued[entries[f].value] + 1
            /\ dequeued[entries[f].value] \in Nat
        BY <1>5, <1>8, <3>2
      <4> QED
        BY <3>1, <4>1, <4>4, <4>5
    <3>3. CASE f # e
      <4>1. entries[f].value # b /\ x # k /\ entries[f].value \in Blocks
        BY <1>6, <2>3, <3>3, UsedEntry
      <4>2. Working(x)' = Working(x)
        BY <1>12, <4>1 DEF Working, Base
      <4> QED
        BY <1>8, <3>1, <4>1, <4>2
    <3> QED
      BY <3>2, <3>3
  <2>4. CountOK(f)'
    BY <1>4, <1>10, <2>2, <2>3 DEF CountOK
  <2>5. \A j : Pending(j)' = Pending(j)
    BY <1>4, <1>12 DEF Pending
  <2>6. ContentOK(f)'
    BY <1>4, <1>10, <2>1, <2>5 DEF ContentOK
  <2> QED
    BY <2>4, <2>6
<1>14. ASSUME cpc'[c] = "unlink" PROVE ConsumerOK(c)'
  <2>1. Used(e)' /\ entries'[e].key = k /\ entries'[e].value = b /\ e \in 1..Capacity'
    BY <1>4, <1>5, <1>10
  <2>2. local'[c] = local[c] /\ dequeued[b] = BlockSize - 1
    BY <1>9, <1>14
  <2>3. Base(local[c].index)' = k
    BY <2>2 DEF Base
  <2>4. Used(local[c].entry)'
    BY <2>1, <2>2 DEF Used
  <2>5. local'[c].index < headIndex'
    BY <1>4, <1>5, <2>2
  <2>6. dequeued'[b] = BlockSize
    BY <1>8, <2>2, SizesAssumption
  <2> QED
    BY <1>5, <1>14, <2>1, <2>2, <2>3, <2>4, <2>5, <2>6 DEF ConsumerOK
<1>15. ASSUME NEW d \in Consumers PROVE ConsumerOK(d)'
  <2>1. CASE d = c /\ cpc'[c] = "unlink"
    BY <1>14, <2>1
  <2>2. CASE d = c /\ cpc'[c] # "unlink"
    BY <1>9, <2>2 DEF ConsumerOK, Active, Started, Moving
  <2>3. CASE d # c
    <3>1. cpc'[d] = cpc[d] /\ local'[d] = local[d]
      BY <1>9, <2>3
    <3>2. headIndex' \in Nat /\ headIndex <= headIndex'
      BY <1>2, <1>4
    <3>3. ASSUME cpc[d] = "unlink" PROVE dequeued'[local[d].block] = dequeued[local[d].block]
      <4>1. local[d].entry \in 1..Capacity /\ Used(local[d].entry)
            /\ entries[local[d].entry].value = local[d].block
        BY <3>3, Emptied
      <4>2. local[d].block \in Blocks
        BY <4>1, UsedEntry
      <4>3. local[d].block # b
        BY <1>6, <1>7, <3>3, <4>1
      <4> QED
        BY <1>8, <4>2, <4>3
    <3> QED
      BY <1>4, <3>1, <3>2, <3>3, OtherConsumer
  <2> QED
    BY <2>1, <2>2, <2>3
<1>16. Apart'
  <2>1. \A d, f \in Consumers : Active(d)' /\ Active(f)' /\ local'[d].index = local'[f].index => d = f
    BY <1>1, <1>12 DEF Apart
  <2>2. ASSUME NEW d \in Consumers, NEW f \in Consumers, cpc'[d] = "unlink", cpc'[f] = "unlink",
               local'[d].entry = local'[f].entry
        PROVE  d = f
    <3>1. CASE d = c /\ f # c
      BY <1>7, <1>9, <2>2, <3>1
    <3>2. CASE f = c /\ d # c
      BY <1>7, <1>9, <2>2, <3>2
    <3>3. CASE d # c /\ f # c
      BY <1>1, <1>9, <2>2, <3>3 DEF Apart
    <3> QED
      BY <3>1, <3>2, <3>3
  <2> QED
    BY <2>1, <2>2 DEF Apart
<1>17. OwnerOK'
  <2>1. \A d \in Consumers, x \in Blocks : Frees(d, x)' = Frees(d, x)
    BY <1>12 DEF Frees
  <2> QED
    BY <1>1, <1>4, <1>10, <2>1 DEF OwnerOK
<1> QED
  BY <1>10, <1>11, <1>13, <1>15, <1>16, <1>17 DEF BlocksInv

\* Nobody looks for an element in a block that was emptied: the entry that is
\* taken out is not one that another consumer relies on.
LEMMA UnlinkConsumer ==
  ASSUME Whole, NEW c \in Consumers, cpc[c] = "unlink",
         UNCHANGED <<headers, headIndex, dequeued>>,
         \A f \in 1..Capacity : /\ entries'[f].key = entries[f].key
                                /\ f # local[c].entry => entries'[f] = entries[f],
         NEW d \in Consumers, d # c, cpc'[d] = cpc[d], local'[d] = local[d]
  PROVE  ConsumerOK(d)'
<1>1. ConsumerOK(d) /\ Typed /\ HeadersOK /\ Apart
  BY DEF Whole, BlocksInv
<1> PICK e : e = local[c].entry
  OBVIOUS
<1> PICK k : k = Base(local[d].index)
  OBVIOUS
<1> PICK h : h = local[d].header
  OBVIOUS
<1> PICK s : s = local[d].slot
  OBVIOUS
<1>2. k = Base(local'[d].index) /\ h = local'[d].header /\ s = local'[d].slot
  OBVIOUS
<1>3. Capacity' = Capacity /\ \A x : Positions(x)' = Positions(x)
  BY SameHeaders DEF Positions
<1>4. Active(d)' = Active(d)
  BY DEF Active, Started, Moving
<1>5. ASSUME Started(d), NEW f \in 1..Capacity, entries[f].key = k, Used(f)
      PROVE  Used(f)' /\ entries'[f] = entries[f]
  <2>1. f # e
    BY <1>5, Busy
  <2> QED
    BY <1>5, <2>1 DEF Used
<1>6. cpc'[d] = "header" => Lives(Base(local[d].index))'
  <2>1. ASSUME cpc[d] = "header" PROVE Lives(k)'
    <3>1. PICK f \in 1..Capacity : entries[f].key = k /\ Used(f)
      BY <1>1, <2>1 DEF ConsumerOK, Lives
    <3>2. Used(f)' /\ entries'[f] = entries[f]
      BY <1>5, <2>1, <3>1 DEF Started, Moving
    <3> QED
      BY <1>3, <3>1, <3>2 DEF Lives
  <2> QED
    BY <1>2, <2>1 DEF Lives
<1>7. cpc'[d] \in {"slot", "key"} =>
       /\ local'[d].header \in 1..Len(headers')
       /\ \E p \in Positions(local[d].header)' :
            /\ entries'[headers'[local'[d].header].index[p]].key = Base(local'[d].index)
            /\ Used(headers[local[d].header].index[p])'
  <2>1. ASSUME cpc[d] \in {"slot", "key"}
        PROVE  /\ h \in 1..Len(headers)
               /\ \E p \in Positions(h) : /\ entries'[headers[h].index[p]].key = k
                                          /\ Used(headers[h].index[p])'
    <3>1. h \in 1..Len(headers)
      BY <1>1, <2>1 DEF ConsumerOK
    <3>2. PICK p \in Positions(h) : /\ entries[headers[h].index[p]].key = k
                                    /\ Used(headers[h].index[p])
      BY <1>1, <2>1 DEF ConsumerOK
    <3> PICK f : f = headers[h].index[p]
      OBVIOUS
    <3>3. f \in 1..Capacity
      BY <1>1, <3>1 DEF HeadersOK, HeaderOK
    <3>4. Used(f)' /\ entries'[f].key = k
      BY <1>5, <2>1, <3>2, <3>3 DEF Started, Moving
    <3>5. Used(headers[h].index[p])'
      BY <3>4 DEF Used
    <3> QED
      BY <3>1, <3>4, <3>5
  <2> QED
    BY <1>2, <1>3, <2>1 DEF Positions, Used
<1>8. cpc'[d] = "key" =>
       /\ local'[d].slot \in Positions(local[d].header)'
       /\ Known(headers[local[d].header].index[local[d].slot])'
  <2>1. ASSUME cpc[d] = "key" PROVE s \in Positions(h) /\ Known(headers[h].index[s])'
    <3>1. s \in Positions(h) /\ Known(headers[h].index[s]) /\ h \in 1..Len(headers)
      BY <1>1, <2>1 DEF ConsumerOK
    <3> PICK f : f = headers[h].index[s]
      OBVIOUS
    <3>2. f \in 1..Capacity
      BY <1>1, <3>1 DEF HeadersOK, HeaderOK
    <3> QED
      BY <3>1, <3>2 DEF Known
  <2> QED
    BY <1>2, <1>3, <2>1 DEF Positions, Known
<1>9. cpc'[d] \in {"value", "move", "setEmpty", "unlink"} =>
       /\ local'[d].entry \in 1..Capacity'
       /\ entries'[local'[d].entry].key = Base(local'[d].index)
       /\ entries'[local'[d].entry] = entries[local[d].entry]
       /\ Used(local[d].entry)'
  <2>1. ASSUME cpc[d] \in {"value", "move", "setEmpty", "unlink"}
        PROVE  /\ local[d].entry \in 1..Capacity /\ entries[local[d].entry].key = k
               /\ Used(local[d].entry)
               /\ entries'[local[d].entry] = entries[local[d].entry]
    <3>1. /\ local[d].entry \in 1..Capacity /\ entries[local[d].entry].key = k
          /\ Used(local[d].entry)
      BY <1>1, <2>1 DEF ConsumerOK
    <3>2. CASE cpc[d] = "unlink"
      <4>1. local[d].entry # local[c].entry
        BY <1>1, <3>2 DEF Apart
      <4> QED
        BY <3>1, <4>1
    <3>3. CASE cpc[d] # "unlink"
      BY <1>5, <2>1, <3>1, <3>3 DEF Started, Moving
    <3> QED
      BY <3>1, <3>2, <3>3
  <2> QED
    BY <1>2, <1>3, <2>1 DEF Used
<1>10. /\ cpc'[d] \in {"move", "setEmpty", "unlink"} => entries'[local'[d].entry].value = local'[d].block
       /\ cpc'[d] = "unlink" => dequeued'[local'[d].block] = BlockSize
       /\ cpc'[d] \in {"setEmpty", "unlink", "free"} => local'[d].element = local'[d].index
       /\ cpc'[d] = "free" => local'[d].block \in Blocks
  BY <1>1, <1>9 DEF ConsumerOK
<1>11. Active(d)' => local'[d].index < headIndex'
  BY <1>1, <1>4 DEF ConsumerOK
<1> QED
  BY <1>6, <1>7, <1>8, <1>9, <1>10, <1>11 DEF ConsumerOK

\* The block is taken out of the index by the one consumer that emptied it, and
\* is its own from then on.
LEMMA UnlinkStep ==
  ASSUME Whole, NEW c \in Consumers, Unlink(c)
  PROVE  BlocksInv'
<1>1. /\ Typed /\ HeadersOK /\ ProducerOK /\ OwnerOK /\ Apart /\ ConsumerOK(c)
      /\ local \in [Consumers -> Locals]
      /\ cpc = [d \in Consumers |-> cpc[d]]
      /\ entries \in [1..Capacity -> [key : Nat, value : Blocks \cup {NoBlock}]]
  BY DEF Whole, BlocksInv, CountersOK, Typed
<1>2. headIndex \in Nat /\ tailIndex \in Nat /\ headIndex <= tailIndex
  BY HeadBelowTail
<1> PICK e : e = local[c].entry
  OBVIOUS
<1> PICK b : b = local[c].block
  OBVIOUS
<1> PICK k : k = entries[e].key
  OBVIOUS
<1>3. /\ cpc[c] = "unlink"
      /\ cpc' = [cpc EXCEPT ![c] = "free"]
      /\ entries' = [entries EXCEPT ![e].value = NoBlock]
      /\ UNCHANGED <<tailIndex, headIndex, headers, tailBlock, newBlock, ppc, dequeued,
                     elements, free, local>>
  BY DEF Unlink, At, producerVars, counterVars
<1>4. /\ e \in 1..Capacity /\ Used(e) /\ entries[e].value = b
      /\ Working(k) = {} /\ headIndex >= k + BlockSize
  BY <1>3, Emptied
<1>5. /\ b \in Blocks /\ b \notin free /\ b # newBlock /\ k \in Nat
      /\ \A f \in 1..Capacity : entries[f].value = b => f = e
  BY <1>4, UsedEntry
<1>6. /\ entries' \in [1..Capacity -> [key : Nat, value : Blocks \cup {NoBlock}]]
      /\ entries'[e].value = NoBlock
      /\ \A f \in 1..Capacity : /\ entries'[f].key = entries[f].key
                                /\ f # e => entries'[f] = entries[f]
  <2>1. entries' = [entries EXCEPT ![e] = [entries[e] EXCEPT !.value = NoBlock]]
    BY <1>3
  <2>2. /\ [entries[e] EXCEPT !.value = NoBlock] \in [key : Nat, value : Blocks \cup {NoBlock}]
        /\ [entries[e] EXCEPT !.value = NoBlock].value = NoBlock
        /\ [entries[e] EXCEPT !.value = NoBlock].key = entries[e].key
    BY <1>1, <1>4
  <2> QED
    BY <1>1, <1>4, <2>1, <2>2
<1>7. HeadersOK' /\ Capacity' = Capacity
  BY <1>1, <1>3, SameHeaders
<1>8. \A f \in 1..Capacity : Used(f)' <=> Used(f) /\ f # e
  BY <1>6 DEF Used
<1>9. \A d \in Consumers : d # c => cpc'[d] = cpc[d]
  BY <1>1, <1>3
<1>10. cpc'[c] = "free"
  BY <1>1, <1>3
<1>11. Typed'
  BY <1>1, <1>3, <1>6, <1>7 DEF Typed
<1>12. IndexOK'
  <2>1. PICK top \in Nat : IndexInv(top)
    BY DEF Whole, BlocksInv, IndexOK
  <2>2. \A f \in 1..Capacity : /\ entries'[f].key = entries[f].key
                               /\ entries'[f].value \in {entries[f].value, NoBlock}
    BY <1>6
  <2>3. IndexInv(top)'
    BY <1>1, <1>3, <2>1, <2>2, KeysStay
  <2> QED
    BY <2>3 DEF IndexOK
<1>13. ASSUME NEW i \in Nat, headIndex <= i, NEW f \in 1..Capacity, entries[f].key = Base(i)
       PROVE  f # e
  <2>1. i < Base(i) + BlockSize /\ Base(i) \in Nat
    BY SlotOf
  <2>2. Base(i) # k
    BY <1>2, <1>4, <1>5, <1>13, <2>1, SizesAssumption
  <2> QED
    BY <1>13, <2>2
<1>14. ProducerOK'
  <2>1. \A f \in 1..Capacity' : entries'[f].key = Invalid => ~Used(f)'
    BY <1>1, <1>6, <1>7, <1>8 DEF ProducerOK
  <2>2. ASSUME NEW h \in 1..Len(headers'), h # Len(headers')
        PROVE  entries'[headers'[h].index[headers'[h].tail]].key # Invalid
    <3>1. h \in 1..Len(headers) /\ h # Len(headers)
      BY <1>3, <2>2
    <3>2. headers[h].index[headers[h].tail] \in 1..Capacity
      BY <1>1, <3>1 DEF HeadersOK, HeaderOK
    <3>3. entries[headers[h].index[headers[h].tail]].key # Invalid
      BY <1>1, <3>1 DEF ProducerOK
    <3> QED
      BY <1>3, <1>6, <3>2, <3>3
  <2>3. /\ ppc' = "value" => newBlock' \in Blocks /\ dequeued'[newBlock'] = 0
        /\ ppc' # "value" => newBlock' = NoBlock
    BY <1>1, <1>3 DEF ProducerOK
  <2>4. Filling' = Filling /\ Base(tailIndex)' = Base(tailIndex)
    BY <1>3 DEF Filling, NeedsBlock, Base
  <2>5. ASSUME Filling
        PROVE  /\ tailBlock \in Blocks
               /\ \E f \in 1..Capacity' : entries'[f].key = Base(tailIndex) /\ entries'[f].value = tailBlock
    <3>1. tailBlock \in Blocks
      BY <1>1, <2>5 DEF ProducerOK
    <3>2. PICK f \in 1..Capacity : entries[f].key = Base(tailIndex) /\ entries[f].value = tailBlock
      BY <1>1, <2>5 DEF ProducerOK
    <3>3. f # e
      BY <1>2, <1>13, <3>2
    <3> QED
      BY <1>6, <1>7, <3>1, <3>2, <3>3
  <2>6. Filling' => /\ tailBlock' \in Blocks
                    /\ \E f \in 1..Capacity' : /\ entries'[f].key = Base(tailIndex)'
                                               /\ entries'[f].value = tailBlock'
    BY <1>3, <2>4, <2>5
  <2>7. ASSUME NEW i \in Nat, headIndex' <= i, i < tailIndex' PROVE Lives(Base(i))'
    <3> PICK x : x = Base(i)
      OBVIOUS
    <3>1. headIndex <= i /\ i < tailIndex
      BY <1>3, <2>7
    <3>2. PICK f \in 1..Capacity : entries[f].key = x /\ Used(f)
      BY <1>1, <3>1 DEF ProducerOK, Lives
    <3>3. f # e
      BY <1>13, <3>1, <3>2
    <3>4. Lives(x)'
      BY <1>6, <1>7, <1>8, <3>2, <3>3 DEF Lives
    <3> QED
      BY <3>4
  <2> QED
    BY <2>1, <2>2, <2>3, <2>6, <2>7 DEF ProducerOK
<1>15. ASSUME NEW f \in 1..Capacity PROVE CountOK(f)' /\ ContentOK(f)'
  <2>1. CountOK(f) /\ ContentOK(f)
    BY DEF Whole, BlocksInv
  <2>2. \A d \in Consumers : Moving(d)' = Moving(d) /\ Started(d)' = Started(d)
    BY <1>3, <1>9, <1>10 DEF Started, Moving
  <2>3. \A x : Working(x)' = Working(x)
    BY <1>3, <2>2 DEF Working, Base
  <2>4. \A x : Claimed(x)' = Claimed(x)
    BY <1>3 DEF Claimed
  <2>5. \A j : Pending(j)' = Pending(j)
    BY <1>3, <2>2 DEF Pending
  <2>6. CASE f = e
    BY <1>8, <2>6 DEF CountOK, ContentOK
  <2>7. CASE f # e
    <3>1. entries'[f] = entries[f]
      BY <1>6, <2>7
    <3>2. CountOK(f)'
      BY <1>3, <1>8, <2>1, <2>3, <2>4, <3>1 DEF CountOK
    <3>3. ContentOK(f)'
      BY <1>3, <1>8, <2>1, <2>5, <3>1 DEF ContentOK
    <3> QED
      BY <3>2, <3>3
  <2> QED
    BY <2>6, <2>7
<1>16. ASSUME NEW d \in Consumers PROVE ConsumerOK(d)'
  <2>1. CASE d = c
    <3>1. local[c].element = local[c].index
      BY <1>1, <1>3 DEF ConsumerOK
    <3> QED
      BY <1>3, <1>5, <1>10, <2>1, <3>1 DEF ConsumerOK, Active, Started, Moving
  <2>2. CASE d # c
    BY <1>3, <1>6, <1>9, <2>2, UnlinkConsumer
  <2> QED
    BY <2>1, <2>2
<1>17. Apart'
  <2>1. \A d \in Consumers : /\ Active(d)' => Active(d)
                             /\ cpc'[d] = "unlink" => cpc[d] = "unlink"
    BY <1>9, <1>10 DEF Active, Started, Moving
  <2> QED
    BY <1>1, <1>3, <2>1 DEF Apart
<1>18. OwnerOK'
  <2>1. \A d \in Consumers, x \in Blocks : Frees(d, x)' <=> Frees(d, x) \/ (d = c /\ x = b)
    BY <1>3, <1>9, <1>10 DEF Frees
  <2>2. \A d \in Consumers : ~Frees(d, b)
    BY <1>1, <1>4, <1>5 DEF OwnerOK
  <2>3. ASSUME NEW f \in 1..Capacity', NEW g \in 1..Capacity', Used(f)', entries'[f].value = entries'[g].value
        PROVE  f = g
    <3>1. f # e /\ g # e /\ Used(f)
      BY <1>6, <1>7, <1>8, <2>3 DEF Used
    <3> QED
      BY <1>1, <1>6, <1>7, <2>3, <3>1 DEF OwnerOK
  <2>4. ASSUME NEW f \in 1..Capacity', Used(f)'
        PROVE  entries'[f].value \notin free' \cup {newBlock'}
    BY <1>1, <1>3, <1>6, <1>7, <1>8, <2>4 DEF OwnerOK
  <2>5. ASSUME NEW d \in Consumers, NEW x \in Blocks, Frees(d, x)'
        PROVE  /\ x \notin free' \cup {newBlock'}
               /\ \A f \in 1..Capacity' : entries'[f].value # x
               /\ \A g \in Consumers : Frees(g, x)' => g = d
    <3>1. CASE d = c /\ x = b
      <4>1. \A f \in 1..Capacity' : entries'[f].value # x
        BY <1>5, <1>6, <1>7, <3>1, ThreadsAssumption
      <4>2. \A g \in Consumers : Frees(g, x)' => g = d
        BY <2>1, <2>2, <3>1
      <4> QED
        BY <1>3, <1>5, <3>1, <4>1, <4>2
    <3>2. CASE ~(d = c /\ x = b)
      <4>1. Frees(d, x) /\ x # b
        BY <2>1, <2>2, <2>5, <3>2
      <4>2. /\ x \notin free \cup {newBlock}
            /\ \A f \in 1..Capacity : entries[f].value # x
            /\ \A g \in Consumers : Frees(g, x) => g = d
        BY <1>1, <4>1 DEF OwnerOK
      <4>3. \A f \in 1..Capacity' : entries'[f].value # x
        BY <1>6, <1>7, <4>2, ThreadsAssumption
      <4>4. \A g \in Consumers : Frees(g, x)' => g = d
        BY <2>1, <4>1, <4>2
      <4> QED
        BY <1>3, <4>2, <4>3, <4>4
    <3> QED
      BY <3>1, <3>2
  <2>6. newBlock' \notin free'
    BY <1>1, <1>3 DEF OwnerOK
  <2>7. ASSUME NEW x \in Blocks
        PROVE  \/ x \in free' \/ x = newBlock'
               \/ \E f \in 1..Capacity' : entries'[f].value = x
               \/ \E d \in Consumers : Frees(d, x)'
    <3>1. CASE x = b
      BY <2>1, <3>1
    <3>2. CASE x # b
      <4>1. \/ x \in free \/ x = newBlock
            \/ \E f \in 1..Capacity : entries[f].value = x
            \/ \E d \in Consumers : Frees(d, x)
        BY <1>1 DEF OwnerOK
      <4>2. ASSUME NEW f \in 1..Capacity, entries[f].value = x PROVE entries'[f].value = x
        BY <1>4, <1>6, <3>2, <4>2
      <4> QED
        BY <1>3, <1>7, <2>1, <4>1, <4>2
    <3> QED
      BY <3>1, <3>2
  <2> QED
    BY <2>3, <2>4, <2>5, <2>6, <2>7 DEF OwnerOK
<1> QED
  BY <1>7, <1>11, <1>12, <1>14, <1>15, <1>16, <1>17, <1>18 DEF BlocksInv

\* The block that was freed can be handed out again.
LEMMA FreeBlockStep ==
  ASSUME Whole, NEW c \in Consumers, FreeBlock(c)
  PROVE  BlocksInv'
<1>1. /\ Typed /\ HeadersOK /\ OwnerOK /\ Apart /\ ConsumerOK(c)
      /\ local \in [Consumers -> Locals]
      /\ cpc = [d \in Consumers |-> cpc[d]]
      /\ free \subseteq Blocks
  BY DEF Whole, BlocksInv, CountersOK, Typed
<1>2. headIndex \in Nat /\ tailIndex \in Nat /\ headIndex <= tailIndex
  BY HeadBelowTail
<1> PICK b : b = local[c].block
  OBVIOUS
<1>3. /\ cpc[c] = "free"
      /\ cpc' = [cpc EXCEPT ![c] = "idle"]
      /\ local' = [local EXCEPT ![c] = Fresh]
      /\ free' = free \cup {b}
      /\ UNCHANGED <<tailIndex, headIndex, headers, tailBlock, newBlock, ppc, entries, elements, dequeued>>
  BY DEF FreeBlock, Return, producerVars, counterVars
<1>4. b \in Blocks /\ Frees(c, b)
  BY <1>1, <1>3 DEF ConsumerOK, Frees
<1>5. /\ local' \in [Consumers -> Locals]
      /\ \A d \in Consumers : d # c => cpc'[d] = cpc[d] /\ local'[d] = local[d]
      /\ cpc'[c] = "idle"
  <2>1. Fresh \in Locals
    BY DEF Fresh, Locals
  <2> HIDE DEF Locals
  <2> QED
    BY <1>1, <1>3, <2>1
<1>6. /\ HeadersOK' /\ IndexOK' /\ ProducerOK' /\ Capacity' = Capacity /\ \A f : Used(f)' = Used(f)
  BY <1>2, <1>3, ConsumerShared DEF producerVars
<1>7. Typed'
  BY <1>1, <1>3, <1>4, <1>5, <1>6 DEF Typed
<1>8. \A d \in Consumers : /\ Active(d)' = Active(d)
                           /\ Started(d)' = Started(d)
                           /\ Moving(d)' = Moving(d)
                           /\ Active(d) => local'[d] = local[d]
                           /\ Started(d) => local'[d] = local[d]
                           /\ Moving(d) => local'[d] = local[d]
                           /\ cpc'[d] = "unlink" <=> cpc[d] = "unlink"
                           /\ cpc[d] = "unlink" => local'[d] = local[d]
  BY <1>3, <1>5 DEF Active, Started, Moving
<1>9. ASSUME NEW f \in 1..Capacity PROVE CountOK(f)' /\ ContentOK(f)'
  <2>1. CountOK(f) /\ ContentOK(f)
    BY DEF Whole, BlocksInv
  <2>2. \A x : Working(x)' = Working(x)
    BY <1>8 DEF Working, Base
  <2>3. \A x : Claimed(x)' = Claimed(x)
    BY <1>3 DEF Claimed
  <2>4. \A j : Pending(j)' = Pending(j)
    BY <1>3, <1>8 DEF Pending
  <2>5. CountOK(f)'
    BY <1>3, <1>6, <2>1, <2>2, <2>3 DEF CountOK
  <2>6. ContentOK(f)'
    BY <1>3, <1>6, <2>1, <2>4 DEF ContentOK
  <2> QED
    BY <2>5, <2>6
<1>10. ASSUME NEW d \in Consumers PROVE ConsumerOK(d)'
  <2>1. CASE d = c
    BY <1>5, <2>1 DEF ConsumerOK, Active, Started, Moving
  <2>2. CASE d # c
    <3>1. cpc'[d] = cpc[d] /\ local'[d] = local[d]
      BY <1>5, <2>2
    <3> QED
      BY <1>2, <1>3, <3>1, OtherConsumer
  <2> QED
    BY <2>1, <2>2
<1>11. Apart'
  BY <1>1, <1>8 DEF Apart
<1>12. OwnerOK'
  <2>1. \A d \in Consumers, x \in Blocks : Frees(d, x)' <=> Frees(d, x) /\ d # c
    BY <1>5 DEF Frees
  <2>2. /\ b \notin free \cup {newBlock}
        /\ \A f \in 1..Capacity : entries[f].value # b
        /\ \A d \in Consumers : Frees(d, b) => d = c
    BY <1>1, <1>4 DEF OwnerOK
  <2>3. \A f, g \in 1..Capacity' : Used(f)' /\ entries'[f].value = entries'[g].value => f = g
    BY <1>1, <1>3, <1>6 DEF OwnerOK
  <2>4. ASSUME NEW f \in 1..Capacity', Used(f)'
        PROVE  entries'[f].value \notin free' \cup {newBlock'}
    BY <1>1, <1>3, <1>6, <2>2, <2>4 DEF OwnerOK
  <2>5. ASSUME NEW d \in Consumers, NEW x \in Blocks, Frees(d, x)'
        PROVE  /\ x \notin free' \cup {newBlock'}
               /\ \A f \in 1..Capacity' : entries'[f].value # x
               /\ \A g \in Consumers : Frees(g, x)' => g = d
    <3>1. Frees(d, x) /\ x # b
      BY <2>1, <2>2, <2>5
    <3>2. /\ x \notin free \cup {newBlock}
          /\ \A f \in 1..Capacity : entries[f].value # x
          /\ \A g \in Consumers : Frees(g, x) => g = d
      BY <1>1, <3>1 DEF OwnerOK
    <3>3. \A g \in Consumers : Frees(g, x)' => g = d
      BY <2>1, <3>2
    <3> QED
      BY <1>3, <1>6, <3>1, <3>2, <3>3
  <2>6. newBlock' \notin free'
    BY <1>1, <1>3, <2>2 DEF OwnerOK
  <2>7. ASSUME NEW x \in Blocks
        PROVE  \/ x \in free' \/ x = newBlock'
               \/ \E f \in 1..Capacity' : entries'[f].value = x
               \/ \E d \in Consumers : Frees(d, x)'
    <3>1. \/ x \in free \/ x = newBlock
          \/ \E f \in 1..Capacity : entries[f].value = x
          \/ \E d \in Consumers : Frees(d, x)
      BY <1>1 DEF OwnerOK
    <3>2. ASSUME Frees(c, x) PROVE x = b
      BY <3>2 DEF Frees
    <3> QED
      BY <1>3, <1>6, <2>1, <3>1, <3>2
  <2> QED
    BY <2>3, <2>4, <2>5, <2>6, <2>7 DEF OwnerOK
<1> QED
  BY <1>6, <1>7, <1>9, <1>10, <1>11, <1>12 DEF BlocksInv

-----------------------------------------------------------------------------
(* The two theorems about the blocks.                                       *)

LEMMA FirstHeader ==
  ASSUME Init
  PROVE  /\ Typed /\ HeadersOK
         /\ Capacity = InitialSize /\ Newest = 0..(InitialSize - 1)
         /\ blockIndex.index = [p \in 0..(InitialSize - 1) |-> p + 1]
         /\ blockIndex.tail = InitialSize - 1
<1> DEFINE first == [capacity |-> InitialSize, tail |-> InitialSize - 1,
                     index |-> [p \in 0..(InitialSize - 1) |-> p + 1]]
<1>1. headers = <<first>> /\ Len(headers) = 1 /\ headers[1] = first
  BY DEF Init
<1>2. InitialSize \in Nat \ {0, 1} /\ BlockSize \in Nat \ {0, 1}
  BY SizesAssumption
<1>3. /\ first.capacity = InitialSize /\ first.tail = InitialSize - 1
      /\ first.index = [p \in 0..(InitialSize - 1) |-> p + 1]
  OBVIOUS
<1>4. first.index \in [0..(InitialSize - 1) -> 1..InitialSize]
  BY <1>2, <1>3
<1>5. first \in [capacity : Nat, tail : Nat, index : Indexes]
  <2>1. first.index \in [0..(InitialSize - 1) -> Nat]
    BY <1>2, <1>3
  <2>2. first.index \in Indexes
    BY <1>2, <2>1 DEF Indexes
  <2> QED
    BY <1>2, <2>2
<1> HIDE DEF first
<1>6. /\ Capacity = InitialSize /\ blockIndex = first
      /\ Newest = 0..(InitialSize - 1) /\ Positions(1) = 0..(InitialSize - 1)
  BY <1>1, <1>3 DEF Capacity, blockIndex, Newest, Positions
<1>7. Typed
  <2>1. headers \in Seq([capacity : Nat, tail : Nat, index : Indexes]) /\ headers # <<>>
    <3>1. first \in Header
      BY <1>5 DEF Header
    <3>2. <<first>> \in Seq(Header) /\ <<first>> # <<>>
      BY <3>1
    <3> QED
      BY <1>1, <3>2 DEF Header
  <2>2. entries \in [1..Capacity -> [key : Nat, value : Blocks \cup {NoBlock}]]
    BY <1>6 DEF Init, Invalid
  <2>3. /\ elements \in [Blocks -> [0..(BlockSize - 1) -> Nat \cup {Gone}]]
        /\ dequeued \in [Blocks -> Nat]
        /\ free \subseteq Blocks
        /\ tailBlock \in Blocks \cup {NoBlock}
        /\ newBlock \in Blocks \cup {NoBlock}
        /\ ppc \in {"idle", "key", "requisition", "rewound", "value", "publish"}
    BY DEF Init
  <2>4. local \in [Consumers -> Locals]
    <3>1. Fresh \in Locals
      BY DEF Fresh, Locals
    <3> HIDE DEF Locals
    <3> QED
      BY <3>1 DEF Init
  <2> QED
    BY <2>1, <2>2, <2>3, <2>4 DEF Typed
<1>8. HeaderOK(1)
  <2>1. \A p \in 0..(InitialSize - 1) : headers[1].index[p] = p + 1 /\ blockIndex.index[p] = p + 1
    BY <1>1, <1>3, <1>6
  <2>2. \A p, q \in Positions(1) : headers[1].index[p] = headers[1].index[q] => p = q
    BY <1>2, <1>6, <2>1
  <2>3. Cong(Capacity, 0, headers[1].capacity)
    <3>1. InitialSize = 0 + 1 * InitialSize
      BY <1>2
    <3> QED
      BY <1>1, <1>3, <1>6, <3>1 DEF Cong
  <2>4. \A p \in Positions(1), q \in Positions(Len(headers)) :
          headers[1].index[p] = blockIndex.index[q] => Cong(q, p + 0, headers[1].capacity)
    <3> SUFFICES ASSUME NEW p \in Positions(1), NEW q \in Positions(1),
                        headers[1].index[p] = blockIndex.index[q]
                 PROVE  Cong(q, p + 0, InitialSize)
      BY <1>1, <1>3
    <3>1. p \in Int /\ q \in Int
      BY <1>2, <1>6
    <3>2. q = p + 0 + 0 * InitialSize
      BY <1>2, <1>6, <2>1, <3>1
    <3> QED
      BY <3>2 DEF Cong
  <2>5. \E o \in Int : \A p \in Positions(1), q \in Positions(Len(headers)) :
          headers[1].index[p] = blockIndex.index[q] => Cong(q, p + o, headers[1].capacity)
    <3> 0 \in Int
      OBVIOUS
    <3> QED
      BY <2>4
  <2>6. headers[1].tail \in Positions(1)
    BY <1>1, <1>2, <1>3, <1>6
  <2>7. headers[1].index \in [Positions(1) -> 1..Capacity]
    BY <1>1, <1>4, <1>6
  <2> QED
    BY <1>1, <1>2, <1>3, <2>2, <2>3, <2>5, <2>6, <2>7 DEF HeaderOK
<1>9. HeadersOK
  <2>1. ASSUME NEW e \in 1..Capacity
        PROVE  \E p \in Positions(Len(headers)) : blockIndex.index[p] = e
    <3>1. e - 1 \in 0..(InitialSize - 1) /\ (e - 1) + 1 = e
      BY <1>2, <1>6
    <3>2. blockIndex.index[e - 1] = e
      BY <1>3, <1>6, <3>1
    <3>3. e - 1 \in Positions(Len(headers))
      BY <1>1, <1>6, <3>1
    <3> QED
      BY <3>2, <3>3
  <2>2. \A h \in 1..Len(headers) : HeaderOK(h)
    BY <1>1, <1>8
  <2> QED
    BY <2>1, <2>2 DEF HeadersOK
<1> QED
  BY <1>3, <1>6, <1>7, <1>9

LEMMA BlocksInit == Init => BlocksInv
<1> SUFFICES ASSUME Init PROVE BlocksInv
  OBVIOUS
<1>1. Typed /\ HeadersOK /\ Capacity = InitialSize /\ Newest = 0..(InitialSize - 1)
  BY FirstHeader
<1>2. \A e \in 1..Capacity : entries[e].key = Invalid /\ entries[e].value = NoBlock
  BY <1>1 DEF Init
<1>3. \A e \in 1..Capacity : ~Used(e)
  BY <1>2 DEF Used
<1>4. /\ tailIndex = 0 /\ headIndex = 0 /\ ppc = "idle" /\ newBlock = NoBlock /\ free = Blocks
      /\ Len(headers) = 1
      /\ \A c \in Consumers : cpc[c] = "idle"
  BY DEF Init
<1>5. IndexInv(0)
  <2>1. Block(0 - 1) < tailIndex /\ tailIndex <= Block(0)
    BY <1>4, SizesAssumption DEF Block
  <2>2. \A p \in Positions(Len(headers)) : EntryAt(p).key = Invalid
    <3>1. blockIndex.index \in [Newest -> 1..Capacity]
      BY <1>1, IndexShape
    <3> QED
      BY <1>2, <3>1 DEF EntryAt, Newest
  <2> QED
    BY <1>4, <2>1, <2>2 DEF IndexInv, Entered
<1>6. IndexOK
  BY <1>5 DEF IndexOK
<1>7. ProducerOK
  <2>1. ~Filling
    <3>1. Block(0) = 0
      BY SizesAssumption DEF Block
    <3>2. 0 % BlockSize = 0
      BY <3>1, BlockStart
    <3> QED
      BY <1>4, <3>2 DEF Filling, NeedsBlock
  <2>2. \A h \in 1..Len(headers) : h = Len(headers)
    BY <1>4
  <2> QED
    BY <1>3, <1>4, <2>1, <2>2 DEF ProducerOK
<1>8. OwnerOK
  BY <1>2, <1>3, <1>4, ThreadsAssumption DEF OwnerOK, Frees
<1>9. \A e \in 1..Capacity : CountOK(e) /\ ContentOK(e)
  BY <1>3 DEF CountOK, ContentOK
<1>10. \A c \in Consumers : ConsumerOK(c)
  BY <1>4 DEF ConsumerOK, Active, Started, Moving
<1>11. Apart
  BY <1>4 DEF Apart, Active, Started, Moving
<1> QED
  BY <1>1, <1>6, <1>7, <1>8, <1>9, <1>10, <1>11 DEF BlocksInv

LEMMA BlocksStutter ==
  ASSUME Whole, UNCHANGED vars
  PROVE  BlocksInv'
<1>1. Typed /\ HeadersOK /\ OwnerOK /\ Apart
  BY DEF Whole, BlocksInv
<1>2. headIndex \in Nat /\ tailIndex \in Nat /\ headIndex <= tailIndex
  BY HeadBelowTail
<1>3. UNCHANGED <<tailIndex, headIndex, headers, tailBlock, newBlock, ppc, entries, elements,
                  dequeued, free, cpc, local>>
  BY DEF vars, producerVars, counterVars, blockVars, consumerVars
<1>4. /\ HeadersOK' /\ IndexOK' /\ ProducerOK' /\ Capacity' = Capacity /\ \A f : Used(f)' = Used(f)
  BY <1>2, <1>3, ConsumerShared DEF producerVars
<1>5. Typed'
  BY <1>1, <1>3, <1>4 DEF Typed
<1>6. ASSUME NEW f \in 1..Capacity PROVE CountOK(f)' /\ ContentOK(f)'
  <2>1. CountOK(f) /\ ContentOK(f)
    BY DEF Whole, BlocksInv
  <2>2. (\A x : Working(x)' = Working(x)) /\ (\A x : Claimed(x)' = Claimed(x))
    BY <1>3 DEF Working, Claimed, Started, Moving
  <2>3. \A j : Pending(j)' = Pending(j)
    BY <1>3 DEF Pending, Moving
  <2>4. CountOK(f)'
    BY <1>3, <1>4, <2>1, <2>2 DEF CountOK
  <2>5. ContentOK(f)'
    BY <1>3, <1>4, <2>1, <2>3 DEF ContentOK
  <2> QED
    BY <2>4, <2>5
<1>7. ASSUME NEW d \in Consumers PROVE ConsumerOK(d)'
  <2>1. cpc'[d] = cpc[d] /\ local'[d] = local[d]
    BY <1>3
  <2> QED
    BY <1>2, <1>3, <2>1, OtherConsumer
<1>8. Apart'
  BY <1>1, <1>3 DEF Apart, Active, Started, Moving
<1>9. OwnerOK'
  BY <1>1, <1>3, SameOwner
<1> QED
  BY <1>4, <1>5, <1>6, <1>7, <1>8, <1>9 DEF BlocksInv

LEMMA BlocksStep == Whole /\ [Next]_vars => BlocksInv'
<1> SUFFICES ASSUME Whole, [Next]_vars PROVE BlocksInv'
  OBVIOUS
<1>1. CASE UNCHANGED vars
  BY <1>1, BlocksStutter
<1>2. CASE Producer
  BY <1>2, InsertKeyStep, InsertTailStep, GrowIndexStep, RequisitionStep, RewindValueStep,
     StoreValueStep, PublishStep DEF Producer
<1>3. ASSUME NEW c \in Consumers, Ticket(c) \/ Dequeue(c) PROVE BlocksInv'
  <2>1. CASE Ticket(c)
    BY <2>1, TicketPrivate
  <2>2. CASE Dequeue(c)
    BY <2>2, ClaimBlocksStep, ReadHeaderStep, ReadSlotStep, ReadKeyStep, ReadValueStep,
       MoveElementStep, SetEmptyStep, UnlinkStep, FreeBlockStep DEF Dequeue
  <2> QED
    BY <1>3, <2>1, <2>2
<1> QED
  BY <1>1, <1>2, <1>3 DEF Next

\* The inductive invariant: tickets and blocks.
QueueInv == CountersOK /\ TicketsCounted /\ BlocksInv

LEMMA QueueInvariant == Spec => []QueueInv
<1>1. Init => QueueInv
  BY CountersInit, TicketsInit, BlocksInit DEF QueueInv
<1>2. QueueInv /\ [Next]_vars => QueueInv'
  <2> SUFFICES ASSUME QueueInv, [Next]_vars PROVE QueueInv'
    OBVIOUS
  <2>1. CountersOK' /\ TicketsCounted'
    BY CountersStep, TicketsStep DEF QueueInv
  <2>2. Whole
    BY TicketsCover DEF QueueInv, Whole
  <2> QED
    BY <2>1, <2>2, BlocksStep DEF QueueInv
<1> QED
  BY <1>1, <1>2, PTL DEF Spec

\* The look-up in the block index ends at the entry of the block of the claimed
\* element, and the consumer moves out that element: whatever the producer
\* inserts, rewinds or replaces between the reads of the look-up, and however
\* often blocks are emptied, freed and filled again.
THEOREM RightElementCorrect == Spec => []RightElement
<1>1. QueueInv => RightElement
  <2> SUFFICES ASSUME QueueInv, NEW c \in Consumers
               PROVE  /\ cpc[c] = "value" =>
                           /\ entries[local[c].entry].key = Base(local[c].index)
                           /\ entries[local[c].entry].value # NoBlock
                      /\ cpc[c] \in {"setEmpty", "unlink", "free"} =>
                           local[c].element = local[c].index
    BY DEF RightElement
  <2>1. ConsumerOK(c)
    BY DEF QueueInv, BlocksInv
  <2> QED
    BY <2>1 DEF ConsumerOK, Used
<1> QED
  BY <1>1, QueueInvariant, PTL

\* Every block has one owner (the free list, the producer, an entry of the block
\* index, or the consumer that frees it), and a consumer that works on a block
\* works on one that is in the index: no block is freed twice, handed out while
\* it is read, or lost.
THEOREM BlockOwnedCorrect == Spec => []BlockOwned
<1> DEFINE Entries(b) == {e \in DOMAIN entries : entries[e].value = b}
           Freeing(b) == {c \in Consumers : cpc[c] = "free" /\ local[c].block = b}
<1>1. ASSUME QueueInv, NEW b \in Blocks
      PROVE  Cardinality(Entries(b)) + Cardinality(Freeing(b))
               + (IF b \in free THEN 1 ELSE 0) + (IF b = newBlock THEN 1 ELSE 0) = 1
  <2>1. OwnerOK /\ Typed
    BY <1>1 DEF QueueInv, BlocksInv
  <2>2. DOMAIN entries = 1..Capacity
    BY <2>1 DEF Typed
  <2>3. \A e \in Entries(b) : e \in 1..Capacity /\ Used(e) /\ entries[e].value = b
    BY <2>2, ThreadsAssumption DEF Used
  <2>4. \A c \in Freeing(b) : c \in Consumers /\ Frees(c, b)
    BY DEF Frees
  <2>5. /\ Entries(b) = {} => Cardinality(Entries(b)) = 0
        /\ Freeing(b) = {} => Cardinality(Freeing(b)) = 0
    BY FS_EmptySet
  <2>6. CASE b \in free
    <3>1. Entries(b) = {} /\ Freeing(b) = {} /\ b # newBlock
      BY <2>1, <2>3, <2>4, <2>6 DEF OwnerOK
    <3> QED
      BY <2>5, <2>6, <3>1
  <2>7. CASE b = newBlock
    <3>1. Entries(b) = {} /\ Freeing(b) = {} /\ b \notin free
      BY <2>1, <2>3, <2>4, <2>7 DEF OwnerOK
    <3> QED
      BY <2>5, <2>7, <3>1
  <2>8. ASSUME NEW e \in 1..Capacity, entries[e].value = b
        PROVE  Entries(b) = {e} /\ Freeing(b) = {} /\ b \notin free /\ b # newBlock
    <3>1. e \in Entries(b) /\ Used(e)
      BY <2>2, <2>3, <2>8
    <3>2. \A f \in Entries(b) : f = e
      BY <2>1, <2>3, <3>1 DEF OwnerOK
    <3>3. Freeing(b) = {}
      BY <2>1, <2>4, <2>8 DEF OwnerOK
    <3>4. b \notin free /\ b # newBlock
      BY <2>1, <2>8, <3>1 DEF OwnerOK
    <3> QED
      BY <3>1, <3>2, <3>3, <3>4
  <2>9. ASSUME NEW c \in Consumers, Frees(c, b)
        PROVE  Entries(b) = {} /\ Freeing(b) = {c} /\ b \notin free /\ b # newBlock
    <3>1. /\ b \notin free \cup {newBlock}
          /\ \A e \in 1..Capacity : entries[e].value # b
          /\ \A d \in Consumers : Frees(d, b) => d = c
      BY <2>1, <2>9 DEF OwnerOK
    <3>2. c \in Freeing(b)
      BY <2>9 DEF Frees
    <3> QED
      BY <2>3, <2>4, <3>1, <3>2
  <2>10. CASE \E e \in 1..Capacity : entries[e].value = b
    <3>1. PICK e \in 1..Capacity : entries[e].value = b
      BY <2>10
    <3>2. Entries(b) = {e} /\ Freeing(b) = {} /\ b \notin free /\ b # newBlock
      BY <2>8, <3>1
    <3>3. Cardinality({e}) = 1
      BY FS_Singleton
    <3> HIDE DEF Entries, Freeing
    <3>4. Cardinality(Entries(b)) = 1 /\ Cardinality(Freeing(b)) = 0
      BY <2>5, <3>2, <3>3
    <3> QED
      BY <3>2, <3>4
  <2>11. CASE \E c \in Consumers : Frees(c, b)
    <3>1. PICK c \in Consumers : Frees(c, b)
      BY <2>11
    <3>2. Entries(b) = {} /\ Freeing(b) = {c} /\ b \notin free /\ b # newBlock
      BY <2>9, <3>1
    <3>3. Cardinality({c}) = 1
      BY FS_Singleton
    <3> HIDE DEF Entries, Freeing
    <3>4. Cardinality(Entries(b)) = 0 /\ Cardinality(Freeing(b)) = 1
      BY <2>5, <3>2, <3>3
    <3> QED
      BY <3>2, <3>4
  <2> QED
    BY <2>1, <2>6, <2>7, <2>10, <2>11 DEF OwnerOK
<1>2. ASSUME QueueInv, NEW c \in Consumers, cpc[c] \in {"move", "setEmpty", "unlink"}
      PROVE  Entries(local[c].block) # {}
  <2>1. /\ local[c].entry \in 1..Capacity
        /\ entries[local[c].entry].value = local[c].block
        /\ DOMAIN entries = 1..Capacity
    BY <1>2 DEF QueueInv, BlocksInv, ConsumerOK, Typed
  <2> QED
    BY <2>1
<1>3. QueueInv => BlockOwned
  BY <1>1, <1>2 DEF BlockOwned
<1> QED
  BY <1>3, QueueInvariant, PTL

\* What the type invariant says besides: the bounds, and the places.
Places == {"idle", "sizeHead", "tail", "overcommit", "optimistic", "ticket", "recheck",
           "giveBack", "claim", "header", "slot", "key", "value", "move", "setEmpty",
           "unlink", "free"}
BoundsOK ==
  /\ tailIndex <= MaxItems
  /\ ppc # "idle" => tailIndex < MaxItems
  /\ optimistic <= MaxTickets
  /\ \A b \in Blocks : dequeued[b] <= BlockSize
  /\ \A c \in Consumers : cpc[c] \in Places
  /\ excused \in [Consumers -> BOOLEAN]

LEMMA BoundsInit == Init => BoundsOK
BY SizesAssumption DEF Init, BoundsOK, Places

LEMMA BoundsStep == QueueInv /\ BoundsOK /\ [Next]_vars => BoundsOK'
<1> SUFFICES ASSUME QueueInv, BoundsOK, [Next]_vars PROVE BoundsOK'
  OBVIOUS
<1>1. /\ Whole /\ tailIndex \in Nat /\ optimistic \in Nat
      /\ cpc = [c \in Consumers |-> cpc[c]] /\ dequeued \in [Blocks -> Nat]
  BY TicketsCover DEF QueueInv, Whole, CountersOK, BlocksInv, Typed
<1>2. CASE UNCHANGED vars
  BY <1>2 DEF vars, producerVars, counterVars, blockVars, consumerVars, BoundsOK
<1>3. ASSUME Next PROVE excused' \in [Consumers -> BOOLEAN]
  BY <1>3 DEF Next, Excuse
<1>4. CASE Next /\ Producer
  <2> USE DEF InsertKey, InsertTail, GrowIndex, Requisition, RewindValue, StoreValue, Publish
  <2>1. UNCHANGED <<optimistic, cpc>>
    BY <1>4 DEF Producer, counterVars, consumerVars
  <2>2. tailIndex' <= MaxItems /\ (ppc' # "idle" => tailIndex' < MaxItems)
    BY <1>1, <1>4, SizesAssumption DEF Producer, BoundsOK
  <2>3. \A b \in Blocks : dequeued'[b] \in {dequeued[b], 0}
    BY <1>1, <1>4 DEF Producer, blockVars
  <2> QED
    BY <1>1, <1>3, <1>4, <2>1, <2>2, <2>3, SizesAssumption DEF BoundsOK
<1>5. ASSUME Next, NEW c \in Consumers, Ticket(c) \/ Dequeue(c) PROVE BoundsOK'
  <2> USE DEF ReadSizeTail, ReadSizeHead, ReadTail, ReadOvercommit, ReadOptimistic, TakeTicket,
              Recheck, GiveBack, Claim, ReadHeader, ReadSlot, ReadKey, ReadValue, MoveElement,
              SetEmpty, Unlink, FreeBlock
  <2>1. UNCHANGED <<tailIndex, ppc>>
    BY <1>5 DEF Ticket, Dequeue, producerVars
  <2>2. optimistic' <= MaxTickets
    <3>1. optimistic' = optimistic \/ (optimistic < MaxTickets /\ optimistic' = optimistic + 1)
      BY <1>5 DEF Ticket, Dequeue, counterVars
    <3>2. optimistic <= MaxTickets
      BY DEF BoundsOK
    <3> QED
      BY <1>1, <3>1, <3>2, SizesAssumption
  <2>3. \E p \in Places : cpc' = [cpc EXCEPT ![c] = p]
    BY <1>5 DEF Ticket, Dequeue, At, Return, Places
  <2>4. \A b \in Blocks : dequeued'[b] <= BlockSize
    <3>1. CASE UNCHANGED dequeued
      BY <3>1 DEF BoundsOK
    <3>2. CASE SetEmpty(c)
      <4> PICK b : b = local[c].block
        OBVIOUS
      <4> PICK e : e = local[c].entry
        OBVIOUS
      <4>1. cpc[c] = "setEmpty" /\ dequeued' = [dequeued EXCEPT ![b] = dequeued[b] + 1]
        BY <3>2
      <4>2. e \in 1..Capacity /\ entries[e].key = Base(local[c].index) /\ Used(e) /\ entries[e].value = b
        BY <1>1, <4>1 DEF Whole, BlocksInv, ConsumerOK
      <4>3. dequeued[b] < BlockSize
        <5>1. Started(c)
          BY <4>1 DEF Started
        <5> QED
          BY <1>1, <4>2, <5>1, Busy
      <4>4. b \in Blocks
        BY <1>1, <4>2, UsedEntry
      <4> QED
        BY <1>1, <4>1, <4>3, <4>4, SizesAssumption DEF BoundsOK
    <3> QED
      BY <1>5, <3>1, <3>2 DEF Ticket, Dequeue, blockVars
  <2> QED
    BY <1>1, <1>3, <1>5, <2>1, <2>2, <2>3, <2>4 DEF BoundsOK
<1> QED
  BY <1>2, <1>4, <1>5 DEF Next

\* Every variable keeps its type: the indexes point into the entries, the counters
\* stay within the bounds of the model, and no block counts more elements moved
\* out than it has slots.
THEOREM TypeCorrect == Spec => []TypeOK
<1>1. QueueInv /\ BoundsOK => TypeOK
  <2> SUFFICES ASSUME QueueInv, BoundsOK PROVE TypeOK
    OBVIOUS
  <2>1. /\ Whole /\ Typed /\ HeadersOK /\ CountersOK
    BY TicketsCover DEF QueueInv, Whole, BlocksInv
  <2>2. tailIndex \in 0..MaxItems /\ headIndex \in 0..MaxItems
    BY <2>1, HeadBelowTail, SizesAssumption DEF BoundsOK
  <2>3. optimistic \in 0..MaxTickets /\ overcommit \in 0..MaxTickets
    <3>1. overcommit \in Nat /\ optimistic \in Nat
      BY <2>1 DEF CountersOK
    <3>2. PICK good \in SUBSET Nat, bad \in SUBSET Nat, limit \in Nat : TicketInv(good, bad, limit)
      BY DEF QueueInv, TicketsCounted
    <3>3. bad \subseteq 0..(optimistic - 1) /\ Cardinality(bad) = overcommit
      BY <3>2 DEF TicketInv
    <3> PICK taken : taken = 0..(optimistic - 1)
      OBVIOUS
    <3>4. IsFiniteSet(taken) /\ Cardinality(taken) = optimistic
      BY <3>1, FS_Interval
    <3>5. overcommit <= optimistic
      <4>1. bad \subseteq taken
        BY <3>3
      <4>2. Cardinality(bad) <= Cardinality(taken)
        BY <3>4, <4>1, FS_Subset
      <4> QED
        BY <3>3, <3>4, <4>2
    <3> QED
      BY <3>1, <3>5, SizesAssumption DEF BoundsOK
  <2>4. DOMAIN entries = 1..Capacity /\ \A e \in DOMAIN entries : entries[e].value \in Blocks \cup {NoBlock}
    BY <2>1 DEF Typed
  <2>5. \A h \in 1..Len(headers) :
          /\ headers[h].tail \in 0..(headers[h].capacity - 1)
          /\ headers[h].index \in [0..(headers[h].capacity - 1) -> DOMAIN entries]
    BY <2>1, <2>4 DEF HeadersOK, HeaderOK, Positions
  <2>6. dequeued \in [Blocks -> 0..BlockSize]
    <3>1. dequeued \in [Blocks -> Nat] /\ \A b \in Blocks : dequeued[b] <= BlockSize
      BY <2>1 DEF Typed, BoundsOK
    <3> QED
      BY <3>1, SizesAssumption
  <2>7. cpc \in [Consumers -> Places]
    BY <2>1 DEF CountersOK, BoundsOK
  <2>8. /\ elements \in [Blocks -> [0..(BlockSize - 1) -> Nat \cup {Gone}]]
        /\ free \subseteq Blocks
        /\ tailBlock \in Blocks \cup {NoBlock}
        /\ newBlock \in Blocks \cup {NoBlock}
        /\ ppc \in {"idle", "key", "requisition", "rewound", "value", "publish"}
        /\ local \in [Consumers -> Locals]
    BY <2>1 DEF Typed
  <2> HIDE DEF Locals
  <2> QED
    BY <2>2, <2>3, <2>4, <2>5, <2>6, <2>7, <2>8 DEF TypeOK, BoundsOK, Places
<1> QED
  BY <1>1, BoundsInit, BoundsStep, QueueInvariant, PTL DEF Spec

-----------------------------------------------------------------------------
(* The sub-queue is a first-in first-out queue.                             *)

\* The elements h, h + 1 .. t - 1.
Window(h, t) == [n \in 1..(t - h) |-> h + n - 1]

LEMMA WindowShape ==
  ASSUME NEW h \in Nat, NEW t \in Nat, h <= t
  PROVE  /\ Window(h, t) \in Seq(Nat)
         /\ Len(Window(h, t)) = t - h
         /\ \A n \in 1..(t - h) : Window(h, t)[n] = h + n - 1
<1>1. t - h \in Nat
  OBVIOUS
<1>2. \A n \in 1..(t - h) : h + n - 1 \in Nat
  OBVIOUS
<1> QED
  BY <1>1, <1>2 DEF Window

LEMMA WindowGrows ==
  ASSUME NEW h \in Nat, NEW t \in Nat, h <= t
  PROVE  Window(h, t + 1) = Append(Window(h, t), t)
<1> PICK u \in Nat : u = t + 1 /\ h <= u
  OBVIOUS
<1> PICK s : s = Window(h, t)
  OBVIOUS
<1> PICK w : w = Window(h, u)
  OBVIOUS
<1>1. s \in Seq(Nat) /\ Len(s) = t - h /\ \A n \in 1..(t - h) : s[n] = h + n - 1
  BY WindowShape
<1>2. w \in Seq(Nat) /\ Len(w) = u - h /\ \A n \in 1..(u - h) : w[n] = h + n - 1
  BY WindowShape
<1> PICK a : a = Append(s, t)
  OBVIOUS
<1>3. /\ a \in Seq(Nat)
      /\ Len(a) = Len(s) + 1
      /\ \A n \in 1..Len(s) : a[n] = s[n]
      /\ a[Len(s) + 1] = t
  <2>1. s \in Seq(Nat) /\ t \in Nat
    BY <1>1
  <2> QED
    BY <2>1, AppendProperties
<1> PICK l \in Nat : l = t - h
  OBVIOUS
<1>4. ASSUME NEW n \in 1..Len(w) PROVE w[n] = a[n]
  <2>1. n \in 1..(l + 1) /\ w[n] = h + n - 1 /\ Len(s) = l
    BY <1>1, <1>2
  <2>2. CASE n = l + 1
    <3>1. a[n] = t
      BY <1>3, <2>1, <2>2
    <3> QED
      BY <2>1, <2>2, <3>1
  <2>3. CASE n \in 1..l
    <3>1. a[n] = s[n]
      BY <1>3, <2>1, <2>3
    <3>2. s[n] = h + n - 1
      BY <1>1, <2>3
    <3> QED
      BY <2>1, <3>1, <3>2
  <2> QED
    BY <2>1, <2>2, <2>3
<1>5. Len(w) = Len(a)
  BY <1>1, <1>2, <1>3
<1>6. w = a
  BY <1>2, <1>3, <1>4, <1>5, SeqEqual
<1> QED
  BY <1>6

LEMMA WindowShrinks ==
  ASSUME NEW h \in Nat, NEW t \in Nat, h < t
  PROVE  /\ Window(h, t) # <<>>
         /\ Head(Window(h, t)) = h
         /\ Tail(Window(h, t)) = Window(h + 1, t)
<1> PICK g \in Nat : g = h + 1 /\ g <= t
  OBVIOUS
<1>0. h <= t
  OBVIOUS
<1> PICK s : s = Window(h, t)
  OBVIOUS
<1> PICK w : w = Window(g, t)
  OBVIOUS
<1>1. s \in Seq(Nat) /\ Len(s) = t - h /\ \A n \in 1..(t - h) : s[n] = h + n - 1
  BY <1>0, WindowShape
<1>2. /\ w \in Seq(Nat) /\ Len(w) = t - g
      /\ \A n \in 1..(t - g) : w[n] = g + n - 1
  BY WindowShape
<1>3. s # <<>> /\ Head(s) = h
  BY <1>1
<1>4. /\ Tail(s) \in Seq(Nat)
      /\ Len(Tail(s)) = t - h - 1
      /\ \A n \in 1..(t - h - 1) : Tail(s)[n] = s[n + 1]
  BY <1>1, <1>3, HeadTailProperties
<1>5. \A n \in 1..Len(w) : w[n] = Tail(s)[n]
  BY <1>1, <1>2, <1>4
<1>6. Len(w) = Len(Tail(s))
  BY <1>2, <1>4
<1>7. w = Tail(s)
  BY <1>2, <1>4, <1>5, <1>6, SeqEqual
<1> QED
  BY <1>3, <1>7

\* A step that moves neither counter and changes what nobody holds is a stutter.
LEMMA HeldStutter ==
  ASSUME UNCHANGED <<tailIndex, headIndex>>, \A c \in Consumers : Held(c)' = Held(c)
  PROVE  UNCHANGED Fifo!vars
<1>1. Queued' = Queued
  BY DEF Queued
<1>2. [c \in Consumers |-> Held(c)]' = [c \in Consumers |-> Held(c)]
  OBVIOUS
<1> QED
  BY <1>1, <1>2 DEF Fifo!vars

\* The producer holds nothing: publishing the tail puts an element, every other
\* step of its is a stutter.
LEMMA ProducerRefines ==
  ASSUME Whole, Producer
  PROVE  [Fifo!Next]_(Fifo!vars)
<1>1. headIndex \in Nat /\ tailIndex \in Nat /\ headIndex <= tailIndex
  BY HeadBelowTail
<1>2. cpc' = cpc /\ local' = local /\ headIndex' = headIndex
  BY DEF Producer, InsertKey, InsertTail, GrowIndex, Requisition, RewindValue, StoreValue,
         Publish, counterVars, consumerVars
<1>3. \A c \in Consumers : Held(c)' = Held(c)
  BY <1>2 DEF Held
<1>4. CASE Publish
  <2>1. tailIndex' = tailIndex + 1
    BY <1>4 DEF Publish
  <2>2. Queued = Window(headIndex, tailIndex) /\ Queued' = Window(headIndex, tailIndex + 1)
    BY <1>2, <2>1 DEF Queued, Window
  <2>3. Queued' = Append(Queued, tailIndex)
    BY <1>1, <2>2, WindowGrows
  <2>4. [c \in Consumers |-> Held(c)]' = [c \in Consumers |-> Held(c)]
    BY <1>3
  <2> QED
    BY <2>1, <2>3, <2>4 DEF Fifo!Next, Fifo!Put
<1>5. CASE ~Publish
  <2>1. UNCHANGED tailIndex
    BY <1>5 DEF Producer, InsertKey, InsertTail, GrowIndex, Requisition, RewindValue, StoreValue
  <2> QED
    BY <1>2, <1>3, <2>1, HeldStutter
<1> QED
  BY <1>4, <1>5

\* Before it claims, a consumer holds nothing.
LEMMA TicketRefines ==
  ASSUME Whole, NEW c \in Consumers, Ticket(c)
  PROVE  UNCHANGED Fifo!vars
<1>1. cpc = [d \in Consumers |-> cpc[d]] /\ local = [d \in Consumers |-> local[d]]
  BY DEF Whole, CountersOK
<1>2. /\ UNCHANGED <<tailIndex, headIndex>>
      /\ cpc[c] \notin Claims /\ cpc'[c] \notin Claims
      /\ \A d \in Consumers \ {c} : cpc'[d] = cpc[d] /\ local'[d] = local[d]
  BY <1>1 DEF Ticket, ReadSizeTail, ReadSizeHead, ReadTail, ReadOvercommit, ReadOptimistic,
     TakeTicket, Recheck, GiveBack, At, Return, producerVars, counterVars, Claims
<1>3. Held(c) = Gone /\ Held(c)' = Gone
  BY <1>2 DEF Held, Claims
<1>4. \A d \in Consumers \ {c} : Held(d)' = Held(d)
  BY <1>2 DEF Held
<1> QED
  BY <1>2, <1>3, <1>4, HeldStutter

\* What the others hold stays.
LEMMA OthersHold ==
  ASSUME Whole, NEW c \in Consumers, Dequeue(c)
  PROVE  /\ tailIndex' = tailIndex
         /\ \A d \in Consumers \ {c} : Held(d)' = Held(d)
<1>1. cpc = [d \in Consumers |-> cpc[d]] /\ local = [d \in Consumers |-> local[d]]
  BY DEF Whole, CountersOK
<1>2. /\ tailIndex' = tailIndex
      /\ \A d \in Consumers \ {c} : cpc'[d] = cpc[d] /\ local'[d] = local[d]
  BY <1>1 DEF Dequeue, Claim, ReadHeader, ReadSlot, ReadKey, ReadValue, MoveElement, SetEmpty,
     Unlink, FreeBlock, At, Return, producerVars
<1> QED
  BY <1>2 DEF Held

\* The claim of an index takes the oldest element.
LEMMA ClaimRefines ==
  ASSUME Whole, NEW c \in Consumers, Claim(c)
  PROVE  Fifo!Take(c)
<1>1. /\ cpc = [d \in Consumers |-> cpc[d]] /\ local \in [Consumers -> Locals]
      /\ headIndex \in Nat /\ tailIndex \in Nat
  BY DEF Whole, CountersOK, BlocksInv, Typed
<1>2. headIndex < tailIndex
  BY ElementLeft
<1>3. /\ cpc[c] = "claim" /\ cpc'[c] = "header" /\ local'[c].index = headIndex
      /\ headIndex' = headIndex + 1 /\ tailIndex' = tailIndex
  <2> PICK r : r = [Fresh EXCEPT !.index = headIndex]
    OBVIOUS
  <2>1. r.index = headIndex
    BY DEF Fresh
  <2>2. local' = [local EXCEPT ![c] = r]
    BY DEF Claim
  <2>3. local'[c].index = headIndex
    BY <1>1, <2>1, <2>2
  <2> QED
    BY <1>1, <2>3 DEF Claim, At, producerVars
<1>4. Held(c) = Gone /\ Held(c)' = headIndex
  BY <1>3 DEF Held
<1>5. Queued = Window(headIndex, tailIndex) /\ Queued' = Window(headIndex + 1, tailIndex)
  BY <1>3 DEF Queued, Window
<1>6. Queued # <<>> /\ Head(Queued) = headIndex /\ Queued' = Tail(Queued)
  BY <1>1, <1>2, <1>5, WindowShrinks
<1>7. [d \in Consumers |-> Held(d)]' = [[d \in Consumers |-> Held(d)] EXCEPT ![c] = headIndex]
  <2>1. \A d \in Consumers \ {c} : Held(d)' = Held(d)
    BY OthersHold DEF Dequeue
  <2> QED
    BY <1>4, <2>1
<1> QED
  BY <1>3, <1>4, <1>6, <1>7 DEF Fifo!Take

\* A consumer in Claims holds the element it claimed.
LEMMA HoldsIndex ==
  ASSUME Whole, NEW c \in Consumers, cpc[c] \in Claims
  PROVE  Held(c) = local[c].index /\ Held(c) # Gone
<1>1. ConsumerOK(c) /\ local[c] \in Locals
  BY DEF Whole, BlocksInv, Typed
<1>2. local[c].index \in Nat
  BY <1>1 DEF Locals
<1> QED
  BY <1>1, <1>2 DEF Held, ConsumerOK, Claims, Gone

\* Until it returns, it holds it: the slot it reads has the element it claimed.
LEMMA DequeueRefines ==
  ASSUME Whole, Whole', NEW c \in Consumers, Dequeue(c), ~Claim(c)
  PROVE  UNCHANGED Fifo!vars \/ Fifo!Return(c)
<1>1. cpc = [d \in Consumers |-> cpc[d]] /\ local \in [Consumers -> Locals]
  BY DEF Whole, CountersOK, BlocksInv, Typed
<1>2. /\ cpc[c] \in Claims /\ headIndex' = headIndex
      /\ \/ cpc'[c] \in Claims /\ local'[c].index = local[c].index
         \/ cpc'[c] = "idle"
  <2>1. local[c] \in Locals
    BY <1>1
  <2>2. \A x : /\ [local[c] EXCEPT !.header = x].index = local[c].index
               /\ [local[c] EXCEPT !.slot = x].index = local[c].index
               /\ [local[c] EXCEPT !.entry = x].index = local[c].index
               /\ [local[c] EXCEPT !.block = x].index = local[c].index
               /\ [local[c] EXCEPT !.element = x].index = local[c].index
    BY <2>1 DEF Locals
  <2> HIDE DEF Locals
  <2>3. CASE ReadHeader(c)
    <3>1. local' = [local EXCEPT ![c] = [local[c] EXCEPT !.header = Len(headers)]]
      BY <2>3 DEF ReadHeader
    <3> QED
      BY <1>1, <2>2, <2>3, <3>1 DEF ReadHeader, At, counterVars, Claims
  <2>4. CASE ReadSlot(c)
    <3>1. PICK x : local' = [local EXCEPT ![c] = [local[c] EXCEPT !.slot = x]]
      BY <2>4 DEF ReadSlot
    <3> QED
      BY <1>1, <2>2, <2>4, <3>1 DEF ReadSlot, At, counterVars, Claims
  <2>5. CASE ReadKey(c)
    <3>1. \E x : local' = [local EXCEPT ![c] = [local[c] EXCEPT !.entry = x]]
      BY <2>5, Zenon DEF ReadKey
    <3>2. PICK x : local' = [local EXCEPT ![c] = [local[c] EXCEPT !.entry = x]]
      BY <3>1
    <3>3. cpc[c] = "key" /\ cpc' = [cpc EXCEPT ![c] = "value"] /\ headIndex' = headIndex
      BY <2>5 DEF ReadKey, At, counterVars
    <3> QED
      BY <1>1, <2>2, <3>2, <3>3 DEF Claims
  <2>6. CASE ReadValue(c)
    <3>1. PICK x : local' = [local EXCEPT ![c] = [local[c] EXCEPT !.block = x]]
      BY <2>6 DEF ReadValue
    <3> QED
      BY <1>1, <2>2, <2>6, <3>1 DEF ReadValue, At, counterVars, Claims
  <2>7. CASE MoveElement(c)
    <3>1. \E x : local' = [local EXCEPT ![c] = [local[c] EXCEPT !.element = x]]
      BY <2>7, Zenon DEF MoveElement
    <3>2. PICK x : local' = [local EXCEPT ![c] = [local[c] EXCEPT !.element = x]]
      BY <3>1
    <3>3. cpc[c] = "move" /\ cpc' = [cpc EXCEPT ![c] = "setEmpty"] /\ headIndex' = headIndex
      BY <2>7 DEF MoveElement, At, counterVars
    <3> QED
      BY <1>1, <2>2, <3>2, <3>3 DEF Claims
  <2>8. CASE SetEmpty(c) \/ Unlink(c) \/ FreeBlock(c)
    BY <1>1, <2>8 DEF SetEmpty, Unlink, FreeBlock, At, Return, counterVars, Claims
  <2> QED
    BY <2>3, <2>4, <2>5, <2>6, <2>7, <2>8 DEF Dequeue
<1>3. Held(c) = local[c].index /\ Held(c) # Gone
  BY <1>2, HoldsIndex
<1>4. UNCHANGED <<tailIndex, headIndex>> /\ \A d \in Consumers \ {c} : Held(d)' = Held(d)
  BY <1>2, OthersHold
<1>5. CASE cpc'[c] \in Claims /\ local'[c].index = local[c].index
  <2>1. Held(c)' = local'[c].index
    <3>1. ConsumerOK(c)'
      BY DEF Whole, BlocksInv
    <3> QED
      BY <1>5, <3>1 DEF Held, ConsumerOK, Claims
  <2> QED
    BY <1>3, <1>4, <1>5, <2>1, HeldStutter
<1>6. CASE cpc'[c] = "idle"
  <2>1. Held(c)' = Gone
    BY <1>6 DEF Held
  <2>2. [d \in Consumers |-> Held(d)]' = [[d \in Consumers |-> Held(d)] EXCEPT ![c] = Gone]
    BY <1>4, <2>1
  <2>3. Queued' = Queued
    BY <1>4 DEF Queued
  <2> QED
    BY <1>3, <1>4, <2>2, <2>3 DEF Fifo!Return
<1> QED
  BY <1>2, <1>5, <1>6

\* The sub-queue implements SubQueue: publishing the tail is the put, the claim of
\* an index the take of the oldest element, and the consumer that claimed it, and
\* no other, returns that element.
THEOREM QueueImplements == Spec => Implements
<1>1. Init => Fifo!Init
  <2> SUFFICES ASSUME Init PROVE Fifo!Init
    OBVIOUS
  <2>1. tailIndex = 0 /\ headIndex = 0 /\ \A c \in Consumers : Held(c) = Gone
    BY DEF Init, Held
  <2>2. Queued = <<>>
    BY <2>1 DEF Queued
  <2> QED
    BY <2>1, <2>2 DEF Fifo!Init
<1>2. QueueInv /\ QueueInv' /\ [Next]_vars => [Fifo!Next]_(Fifo!vars)
  <2> SUFFICES ASSUME QueueInv, QueueInv', [Next]_vars
               PROVE  [Fifo!Next]_(Fifo!vars)
    OBVIOUS
  <2>1. Whole /\ Whole'
    <3>1. ClaimsCovered
      BY TicketsCover DEF QueueInv
    <3>2. ClaimsCovered'
      BY TicketsCover, PTL DEF QueueInv
    <3> QED
      BY <3>1, <3>2 DEF QueueInv, Whole
  <2>2. CASE UNCHANGED vars
    BY <2>2, HeldStutter DEF vars, producerVars, counterVars, consumerVars, Held
  <2>3. CASE Producer
    BY <2>1, <2>3, ProducerRefines
  <2>4. ASSUME NEW c \in Consumers, Ticket(c) \/ Dequeue(c)
        PROVE  [Fifo!Next]_(Fifo!vars)
    <3>1. CASE Ticket(c)
      BY <2>1, <3>1, TicketRefines
    <3>2. CASE Claim(c)
      BY <2>1, <3>2, ClaimRefines DEF Fifo!Next
    <3>3. CASE Dequeue(c) /\ ~Claim(c)
      BY <2>1, <3>3, DequeueRefines DEF Fifo!Next
    <3> QED
      BY <2>4, <3>1, <3>2, <3>3
  <2> QED
    BY <2>2, <2>3, <2>4 DEF Next
<1> QED
  BY <1>1, <1>2, QueueInvariant, PTL DEF Spec, Implements, Fifo!Spec

=============================================================================

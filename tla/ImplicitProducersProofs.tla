----------------------- MODULE ImplicitProducersProofs -----------------------
(***************************************************************************)
(* Proofs about ImplicitProducers, for any number of threads and of        *)
(* producers, any hash and any initial capacity: a sub-queue has one       *)
(* producing thread, the exit of a thread uses nothing that was freed, and *)
(* the tables keep an empty slot for the searches to end at.               *)
(***************************************************************************)
EXTENDS ImplicitProducers, FiniteSetTheorems, SequenceTheorems, TLAPS

(* The inductive invariant.                                                 *)

Slots == [key : Ids \cup {Empty, Reusable}, value : Nat]
Tables == UNION {[0..(n - 1) -> Slots] : n \in Nat \ {0}}
Fields == [main : Nat, index : Nat, count : Nat, producer : Nat]

Exiting == {"erase", "inactive", "next"}

\* From CountIn on, a thread is counted in hashCount until it has its slot.
Counted == {"test", "resize", "unlock", "noMemory", "room", "recycle",
            "subscribe", "insert", "uncount"}

Places == {"none", "idle", "reinsert", "count", "giveUp"} \cup Counted \cup Exiting

Typed ==
  /\ hashes \in Seq(Tables) /\ hashes # <<>>
  /\ hashCount \in Nat
  /\ resizing \in BOOLEAN
  /\ producers \in Seq(BOOLEAN)
  /\ chain \in Seq(Ids \cup {None}) /\ Len(chain) = Len(producers)
  /\ tail \in [Ids -> Seq(Nat)]
  /\ mutex \in Ids \cup {None}
  /\ starts \in 0..MaxStarts
  /\ queue \in {"open", "producers", "gone"}
  /\ victim \in 0..Len(producers)
  /\ ipc \in [Ids -> Places]
  /\ my \in [Ids -> Fields]

\* An entry of table h that holds the id.
In(h, i, t) == i \in DOMAIN hashes[h] /\ hashes[h][i].key = t
Registered(t) == \E h \in 1..Len(hashes) : \E i \in DOMAIN hashes[h] : In(h, i, t)

\* Thread t has producer p: it is about to subscribe to its exit, or has
\* subscribed and not yet marked the producer inactive.
Holds(t, p) ==
  \/ ipc[t] = "subscribe" /\ my[t].producer = p
  \/ ipc[t] # "next" /\ tail[t] = <<p>>

\* What the place of a thread says of its listener, of the mutex, of its entries.
ThreadOK(t) ==
  /\ tail[t] = <<>> \/ \E p \in 1..Len(producers) : tail[t] = <<p>>
  /\ ipc[t] \in {"none", "count", "giveUp"} \cup (Counted \ {"insert", "uncount"}) => tail[t] = <<>>
  /\ ipc[t] \in {"reinsert", "insert"} \cup Exiting => tail[t] = <<my[t].producer>>
  /\ ipc[t] = "subscribe" => my[t].producer \in 1..Len(producers)
  /\ my[t].main \in 1..Len(hashes)
  /\ my[t].producer \in 0..Len(producers)
  /\ ipc[t] \in {"idle", "reinsert", "uncount"} /\ queue = "open" /\ tail[t] # <<>>
       => Registered(t)
  /\ ipc[t] \in Exiting <=> mutex = t
  /\ ipc[t] = "erase" =>
       \A h \in 1..Len(hashes) : \A i \in DOMAIN hashes[h] : In(h, i, t) => h <= my[t].main
  /\ ipc[t] \in {"inactive", "next"} => ~Registered(t)
  /\ ipc[t] \notin {"none", "idle"} \cup Exiting => queue = "open"

\* A producer that somebody has is active and not freed; he alone has it.
HolderOK(t, p) ==
  Holds(t, p) =>
    /\ p \in 1..Len(producers) /\ ~producers[p] /\ p \notin freed
    /\ ipc[t] \notin {"subscribe"} \cup Exiting => chain[p] = t
    /\ \A u \in Ids : Holds(u, p) => u = t

\* An entry is of the thread's own producer, until that unsubscribes.
EntryOK(h, i) ==
  hashes[h][i].key \in Ids =>
    /\ hashes[h][i].value \in 1..Len(producers)
    /\ \/ tail[hashes[h][i].key] = <<hashes[h][i].value>>
       \/ queue # "open" /\ tail[hashes[h][i].key] = <<>>

\* Entries of one thread have one producer, and the other way round.
SameOwner(h, i, k, j) ==
  hashes[h][i].key \in Ids /\ hashes[k][j].key \in Ids =>
    (hashes[h][i].key = hashes[k][j].key <=> hashes[h][i].value = hashes[k][j].value)

ValuesOK ==
  \A h \in 1..Len(hashes) : \A i \in DOMAIN hashes[h] : hashes[h][i].value \in 0..Len(producers)
EntriesOK ==
  /\ \A h \in 1..Len(hashes) : \A i \in DOMAIN hashes[h] : EntryOK(h, i)
  /\ \A h, k \in 1..Len(hashes) : \A i \in DOMAIN hashes[h], j \in DOMAIN hashes[k] :
       SameOwner(h, i, k, j)

\* The producers are freed from the newest to the oldest.
DestroyOK ==
  /\ queue = "open" => freed = {}
  /\ queue # "open" => freed = (victim + 1)..Len(producers)
  /\ queue = "gone" => victim = 0

OwnerInv ==
  /\ Typed
  /\ \A t \in Ids : ThreadOK(t)
  /\ \A t \in Ids, p \in Nat : HolderOK(t, p)
  /\ EntriesOK
  /\ DestroyOK

\* Every thread started may be counted once: it is counted, or has its slot, or
\* has not come to it yet.
CountedIn == {t \in Ids : ipc[t] \in Counted}
Unspent == {t \in Ids : ipc[t] \in {"idle", "count", "giveUp"} /\ tail[t] = <<>>}
CountInv ==
  /\ Cardinality(CountedIn) <= hashCount
  /\ hashCount <= MaxStarts
  /\ queue = "open" => hashCount + Cardinality(Unspent) <= starts
  /\ \A t \in Ids : my[t].count \in 0..MaxStarts

-----------------------------------------------------------------------------
(* What a step does to the tables.                                          *)

\* The slot of a table that a thread looks at takes the entry e.
PutIn(m, s, e) ==
  /\ Len(hashes') = Len(hashes)
  /\ m \in 1..Len(hashes) /\ s \in DOMAIN hashes[m] /\ hashes'[m][s] = e
  /\ \A h \in 1..Len(hashes) : DOMAIN hashes'[h] = DOMAIN hashes[h]
  /\ \A h \in 1..Len(hashes) : \A i \in DOMAIN hashes[h] :
       (h = m /\ i = s) \/ hashes'[h][i] = hashes[h][i]

\* A table with no entry is added.
Added ==
  /\ Len(hashes') = Len(hashes) + 1
  /\ \A h \in 1..Len(hashes) : hashes'[h] = hashes[h]
  /\ \A i \in DOMAIN hashes'[Len(hashes) + 1] :
       hashes'[Len(hashes) + 1][i] = [key |-> Empty, value |-> 0]

\* The entries of a thread in one table become reusable.
Erased(m, t) ==
  /\ Len(hashes') = Len(hashes)
  /\ m \in 1..Len(hashes)
  /\ \A h \in 1..Len(hashes) : DOMAIN hashes'[h] = DOMAIN hashes[h]
  /\ \A h \in 1..Len(hashes) : \A i \in DOMAIN hashes[h] :
       /\ hashes'[h][i].value = hashes[h][i].value
       /\ hashes'[h][i].key =
            IF h = m /\ hashes[h][i].key = t THEN Reusable ELSE hashes[h][i].key

\* A table's slots are numbered from zero.
LEMMA TableShape ==
  ASSUME NEW T \in Tables
  PROVE  \E n \in Nat \ {0} :
           T \in [0..(n - 1) -> Slots] /\ DOMAIN T = 0..(n - 1) /\ Cardinality(DOMAIN T) = n
<1>1. PICK n \in Nat \ {0} : T \in [0..(n - 1) -> Slots]
  BY Zenon DEF Tables
<1>2. DOMAIN T = 0..(n - 1)
  BY <1>1
<1>3. Cardinality(0..(n - 1)) = n
  BY FS_Interval
<1> QED
  BY <1>1, <1>2, <1>3

LEMMA NewTableTyped ==
  ASSUME NEW n \in Nat \ {0}
  PROVE  NewTable(n) \in Tables
<1>1. NewTable(n) \in [0..(n - 1) -> Slots]
  BY DEF NewTable, Slots
<1> QED
  BY <1>1, Zenon DEF Tables

\* The slot a thread looks at is one of the table's.
LEMMA SlotInTable ==
  ASSUME Typed, NEW t \in Ids, ThreadOK(t)
  PROVE  /\ my[t].main \in 1..Len(hashes)
         /\ hashes[my[t].main] \in Tables
         /\ Slot(my[t].main, my[t].index) \in DOMAIN hashes[my[t].main]
<1>1. my[t].main \in 1..Len(hashes) /\ my[t].index \in Nat
  BY DEF ThreadOK, Typed, Fields
<1>2. hashes[my[t].main] \in Tables
  BY <1>1 DEF Typed
<1>3. PICK n \in Nat \ {0} :
        DOMAIN hashes[my[t].main] = 0..(n - 1) /\ Cardinality(DOMAIN hashes[my[t].main]) = n
  BY <1>2, TableShape
<1>4. my[t].index % n \in 0..(n - 1)
  BY <1>1
<1> QED
  BY <1>1, <1>2, <1>3, <1>4 DEF Slot, Capacity

LEMMA SetSlotEffect ==
  ASSUME Typed, NEW t \in Ids, ThreadOK(t), SetSlot(t)
  PROVE  /\ hashes' \in Seq(Tables) /\ hashes' # <<>>
         /\ PutIn(my[t].main, Slot(my[t].main, my[t].index),
                  [key |-> t, value |-> my[t].producer])
<1> DEFINE m == my[t].main
           s == Slot(m, my[t].index)
           e == [key |-> t, value |-> my[t].producer]
<1>1. m \in 1..Len(hashes) /\ hashes[m] \in Tables /\ s \in DOMAIN hashes[m]
  BY SlotInTable
<1>2. e \in Slots
  BY DEF Typed, Fields, Slots
<1>3. [hashes[m] EXCEPT ![s] = e] \in Tables
  <2>1. PICK n \in Nat \ {0} : hashes[m] \in [0..(n - 1) -> Slots]
    BY <1>1, TableShape
  <2>2. [hashes[m] EXCEPT ![s] = e] \in [0..(n - 1) -> Slots]
    BY <2>1, <1>1, <1>2
  <2> QED
    BY <2>2, Zenon DEF Tables
<1>4. hashes' = [hashes EXCEPT ![m] = [hashes[m] EXCEPT ![s] = e]]
  BY DEF SetSlot
<1>5. hashes \in Seq(Tables)
  BY DEF Typed
<1> HIDE DEF m, s, e
<1>6. hashes' \in Seq(Tables) /\ Len(hashes') = Len(hashes) /\ hashes' # <<>>
  BY <1>1, <1>3, <1>4, <1>5
<1>7. hashes'[m] = [hashes[m] EXCEPT ![s] = e]
  BY <1>1, <1>4, <1>5
<1>8. \A h \in 1..Len(hashes) : h # m => hashes'[h] = hashes[h]
  BY <1>4, <1>5
<1>9. PutIn(m, s, e)
  BY <1>1, <1>6, <1>7, <1>8 DEF PutIn
<1> QED
  BY <1>6, <1>9 DEF m, s, e

LEMMA AppendEffect ==
  ASSUME Typed, NEW n \in Nat \ {0}, hashes' = Append(hashes, NewTable(n))
  PROVE  hashes' \in Seq(Tables) /\ hashes' # <<>> /\ Added
<1>1. NewTable(n) \in Tables
  BY NewTableTyped
<1>2. hashes \in Seq(Tables)
  BY DEF Typed
<1>3. /\ hashes' \in Seq(Tables) /\ hashes' # <<>> /\ Len(hashes') = Len(hashes) + 1
      /\ \A h \in 1..Len(hashes) : hashes'[h] = hashes[h]
      /\ hashes'[Len(hashes) + 1] = NewTable(n)
  BY <1>1, <1>2
<1> QED
  BY <1>3 DEF Added, NewTable

LEMMA EraseEffect ==
  ASSUME ProducersConstantsOK, Typed, NEW t \in Ids, NEW m \in 1..Len(hashes),
         hashes' = [hashes EXCEPT ![m] =
           [i \in DOMAIN @ |-> IF @[i].key = t THEN [@[i] EXCEPT !.key = Reusable] ELSE @[i]]]
  PROVE  hashes' \in Seq(Tables) /\ hashes' # <<>> /\ Erased(m, t)
<1> DEFINE E == [i \in DOMAIN hashes[m] |->
                   IF hashes[m][i].key = t THEN [hashes[m][i] EXCEPT !.key = Reusable]
                   ELSE hashes[m][i]]
<1>1. hashes \in Seq(Tables)
  BY DEF Typed
<1>2. PICK n \in Nat \ {0} :
        hashes[m] \in [0..(n - 1) -> Slots] /\ DOMAIN hashes[m] = 0..(n - 1)
  BY <1>1, TableShape
<1>3. \A r \in Slots : [r EXCEPT !.key = Reusable] \in Slots
                       /\ [r EXCEPT !.key = Reusable].key = Reusable
                       /\ [r EXCEPT !.key = Reusable].value = r.value
  BY DEF Slots
<1>4. \A i \in 0..(n - 1) : hashes[m][i] \in Slots
  BY <1>2
<1>5. E \in [0..(n - 1) -> Slots]
  BY <1>2, <1>3, <1>4
<1>6. E \in Tables
  BY <1>5, Zenon DEF Tables
<1>7. DOMAIN E = DOMAIN hashes[m]
  OBVIOUS
<1>8. \A i \in DOMAIN hashes[m] :
        /\ E[i].value = hashes[m][i].value
        /\ E[i].key = IF hashes[m][i].key = t THEN Reusable ELSE hashes[m][i].key
  BY <1>2, <1>3, <1>4
<1>9. hashes' = [hashes EXCEPT ![m] = E]
  OBVIOUS
<1> HIDE DEF E
<1>10. hashes' \in Seq(Tables) /\ Len(hashes') = Len(hashes) /\ hashes' # <<>>
  BY <1>1, <1>6, <1>9, SMTT(20)
<1>11. hashes'[m] = E /\ \A h \in 1..Len(hashes) : h # m => hashes'[h] = hashes[h]
  BY <1>1, <1>9
<1>12. Erased(m, t)
  BY <1>7, <1>8, <1>10, <1>11 DEF Erased
<1> QED
  BY <1>10, <1>12

-----------------------------------------------------------------------------
(* Types.                                                                   *)

\* Resize adds a table, or leaves the tables alone.
LEMMA ResizeEffect ==
  ASSUME Typed, NEW t \in Ids, Resize(t)
  PROVE  /\ hashes' \in Seq(Tables) /\ hashes' # <<>>
         /\ Added \/ UNCHANGED hashes
<1> DEFINE n == my[t].count
           old == Capacity(mainHash)
<1>1. CASE UNCHANGED hashes
  BY <1>1 DEF Typed
<1>2. CASE ~UNCHANGED hashes
  <2>1. PICK capacity \in {2 * old} \cup (2 * n + 1)..(4 * n + 3) :
          hashes' = Append(hashes, NewTable(capacity))
    BY <1>2 DEF Resize
  <2>2. n \in Nat
    BY DEF Typed, Fields
  <2>3. old \in Nat \ {0}
    <3>1. hashes[mainHash] \in Tables
      BY DEF Typed, mainHash
    <3> QED
      BY <3>1, TableShape DEF Capacity
  <2> HIDE DEF n, old
  <2>4. capacity \in Nat \ {0}
    BY <2>1, <2>2, <2>3
  <2> QED
    BY <2>1, <2>4, AppendEffect
<1> QED
  BY <1>1, <1>2

\* ~ImplicitProducer takes the producer out of the list of its thread.
LEMMA UnsubscribeEffect ==
  ASSUME ProducersConstantsOK, Typed, \A u \in Ids : ThreadOK(u), Unsubscribe
  PROVE  /\ chain' \in Seq(Ids \cup {None}) /\ Len(chain') = Len(chain)
         /\ \A p \in 1..Len(chain) : p # victim => chain'[p] = chain[p]
         /\ tail' \in [Ids -> Seq(Nat)]
         /\ \A u \in Ids :
              \/ tail'[u] = tail[u] /\ (tail[u] = <<victim>> => chain[victim] # u)
              \/ tail'[u] = <<>>
<1>1. victim \in 1..Len(chain)
  BY DEF Typed, Unsubscribe
<1>2. /\ chain' \in Seq(Ids \cup {None}) /\ Len(chain') = Len(chain)
      /\ \A p \in 1..Len(chain) : p # victim => chain'[p] = chain[p]
  BY <1>1 DEF Typed, Unsubscribe
<1> DEFINE t == chain[victim]
<1>3. t \in Ids \cup {None} /\ None \notin Ids
  BY <1>1 DEF Typed, ProducersConstantsOK
<1> HIDE DEF t
<1>4. CASE (t = None \/ ~Contains(tail[t], victim)) /\ UNCHANGED tail
  <2>1. \A u \in Ids : tail[u] = <<victim>> => t # u
    BY <1>1, <1>3, <1>4 DEF Contains
  <2> QED
    BY <1>2, <1>4, <2>1 DEF Typed, t
<1>5. ASSUME t # None, NEW k \in DOMAIN tail[t], tail[t][k] = victim,
             tail' = [tail EXCEPT ![t] = RemoveAt(@, k)]
      PROVE  tail' = [tail EXCEPT ![t] = <<>>]
  <2>1. PICK p \in Nat : tail[t] = <<p>>
    BY <1>3, <1>5 DEF ThreadOK, Typed
  <2>2. k = 1 /\ Len(tail[t]) = 1
    BY <1>5, <2>1
  <2>3. SubSeq(tail[t], 1, 0) = <<>> /\ SubSeq(tail[t], 2, 1) = <<>>
    BY SubSeqEmpty
  <2>4. <<>> \o <<>> = <<>>
    OBVIOUS
  <2>5. RemoveAt(tail[t], k) = <<>>
    BY <2>2, <2>3, <2>4 DEF RemoveAt
  <2> QED
    BY <1>5, <2>5
<1>6. CASE t # None /\ tail' = [tail EXCEPT ![t] = <<>>]
  BY <1>2, <1>3, <1>6 DEF Typed, t
<1> QED
  BY <1>4, <1>5, <1>6 DEF Unsubscribe, t

LEMMA FieldsTyped ==
  ASSUME my \in [Ids -> Fields], NEW t \in Ids
  PROVE  /\ [my EXCEPT ![t] = FreshLocals] \in [Ids -> Fields]
         /\ my[t].index + 1 \in Nat
         /\ \A n, k \in Nat :
              /\ [my EXCEPT ![t].main = n] \in [Ids -> Fields]
              /\ [my EXCEPT ![t].index = n] \in [Ids -> Fields]
              /\ [my EXCEPT ![t].count = n] \in [Ids -> Fields]
              /\ [my EXCEPT ![t].producer = n] \in [Ids -> Fields]
              /\ [my EXCEPT ![t].producer = n, ![t].count = k] \in [Ids -> Fields]
              /\ [my EXCEPT ![t].producer = n, ![t].main = k] \in [Ids -> Fields]
<1>1. FreshLocals \in Fields /\ my[t] \in Fields
  BY DEF FreshLocals, Fields
<1>2. \A r \in Fields : [my EXCEPT ![t] = r] \in [Ids -> Fields]
  OBVIOUS
<1>3. \A r \in Fields, n \in Nat :
        /\ [r EXCEPT !.main = n] \in Fields
        /\ [r EXCEPT !.index = n] \in Fields
        /\ [r EXCEPT !.count = n] \in Fields
        /\ [r EXCEPT !.producer = n] \in Fields
  BY DEF Fields
<1>4. my[t].index \in Nat
  BY <1>1 DEF Fields
<1>5. ASSUME NEW n \in Nat, NEW k \in Nat
      PROVE  /\ [my EXCEPT ![t].producer = n, ![t].count = k] \in [Ids -> Fields]
             /\ [my EXCEPT ![t].producer = n, ![t].main = k] \in [Ids -> Fields]
  <2>1. /\ [[my[t] EXCEPT !.producer = n] EXCEPT !.count = k] \in Fields
        /\ [[my[t] EXCEPT !.producer = n] EXCEPT !.main = k] \in Fields
    BY <1>1, <1>3
  <2>2. /\ [my EXCEPT ![t].producer = n, ![t].count = k] =
             [my EXCEPT ![t] = [[my[t] EXCEPT !.producer = n] EXCEPT !.count = k]]
        /\ [my EXCEPT ![t].producer = n, ![t].main = k] =
             [my EXCEPT ![t] = [[my[t] EXCEPT !.producer = n] EXCEPT !.main = k]]
    BY <1>1 DEF Fields
  <2> QED
    BY <1>2, <2>1, <2>2
<1>6. ASSUME NEW n \in Nat
      PROVE  /\ [my EXCEPT ![t].main = n] \in [Ids -> Fields]
             /\ [my EXCEPT ![t].index = n] \in [Ids -> Fields]
             /\ [my EXCEPT ![t].count = n] \in [Ids -> Fields]
             /\ [my EXCEPT ![t].producer = n] \in [Ids -> Fields]
  BY <1>1, <1>2, <1>3
<1>7. [my EXCEPT ![t] = FreshLocals] \in [Ids -> Fields] /\ my[t].index + 1 \in Nat
  BY <1>1, <1>2, <1>4
<1> QED
  BY <1>5, <1>6, <1>7

\* Whoever is counted is in the count.
LEMMA CountedPositive ==
  ASSUME ProducersConstantsOK, Typed, CountInv, NEW t \in Ids, ipc[t] \in Counted
  PROVE  hashCount - 1 \in Nat
<1>1. IsFiniteSet(CountedIn) /\ t \in CountedIn
  BY FS_Subset DEF ProducersConstantsOK, CountedIn
<1>2. Cardinality(CountedIn) \in Nat /\ Cardinality(CountedIn) # 0
  BY <1>1, FS_CardinalityType, FS_EmptySet
<1> QED
  BY <1>2 DEF CountInv, Typed

LEMMA FlagsTyped ==
  ASSUME NEW s \in Seq(BOOLEAN), NEW b \in BOOLEAN
  PROVE  /\ \A p \in 1..Len(s) :
              /\ [s EXCEPT ![p] = b] \in Seq(BOOLEAN)
              /\ Len([s EXCEPT ![p] = b]) = Len(s)
         /\ Append(s, b) \in Seq(BOOLEAN)
         /\ Len(Append(s, b)) = Len(s) + 1 /\ Append(s, b)[Len(s) + 1] = b
<1>1. ASSUME NEW p \in 1..Len(s)
      PROVE  [s EXCEPT ![p] = b] \in Seq(BOOLEAN) /\ Len([s EXCEPT ![p] = b]) = Len(s)
  BY ExceptSeq
<1>2. /\ Append(s, b) \in Seq(BOOLEAN)
      /\ Len(Append(s, b)) = Len(s) + 1 /\ Append(s, b)[Len(s) + 1] = b
  BY AppendProperties, Zenon
<1> QED
  BY <1>1, <1>2

LEMMA SingletonTail ==
  ASSUME NEW p
  PROVE  Tail(<<p>>) = <<>> /\ Head(<<p>>) = p /\ <<p>> # <<>>
OBVIOUS

\* The only listener of a thread, and which it is.
LEMMA OneListener ==
  ASSUME NEW t, ThreadOK(t)
  PROVE  /\ tail[t] # <<>> =>
              /\ Head(tail[t]) \in 1..Len(producers)
              /\ tail[t] = <<Head(tail[t])>> /\ Tail(tail[t]) = <<>>
         /\ ipc[t] \in {"reinsert", "insert"} \cup Exiting =>
              /\ tail[t] # <<>> /\ Head(tail[t]) = my[t].producer
              /\ my[t].producer \in 1..Len(producers)
<1>1. CASE tail[t] = <<>>
  <2>1. \A p : tail[t] # <<p>>
    BY <1>1
  <2> QED
    BY <1>1, <2>1 DEF ThreadOK
<1>2. CASE tail[t] # <<>>
  <2>1. PICK p \in 1..Len(producers) : tail[t] = <<p>>
    BY <1>2 DEF ThreadOK
  <2>2. Head(tail[t]) = p /\ Tail(tail[t]) = <<>>
    BY <2>1, SingletonTail
  <2>3. ASSUME tail[t] = <<my[t].producer>>
        PROVE  Head(tail[t]) = my[t].producer
    BY <2>3, SingletonTail
  <2> QED
    BY <1>2, <2>1, <2>2, <2>3 DEF ThreadOK
<1> QED
  BY <1>1, <1>2

LEMMA TypedStep ==
  ASSUME ProducersConstantsOK, OwnerInv, CountInv, [ProducersNext]_ownerVars
  PROVE  Typed'
<1>a. Typed /\ \A u \in Ids : ThreadOK(u)
  BY DEF OwnerInv
<1>t. /\ hashes \in Seq(Tables) /\ hashes # <<>>
      /\ my \in [Ids -> Fields] /\ ipc \in [Ids -> Places]
  BY <1>a DEF Typed
<1>m. mainHash \in Nat \ {0} /\ mainHash + 1 \in Nat
  BY <1>t DEF mainHash
<1>u. \A u \in Ids : my[u].main \in 1..Len(hashes) /\ my[u].producer \in 0..Len(producers)
  BY <1>a DEF ThreadOK
<1>c. hashCount + 1 \in Nat /\ Len(producers) \in Nat /\ Len(producers) + 1 \in Nat
  BY <1>a DEF Typed
<1>d. \A u \in Ids : ipc[u] \in Counted => hashCount - 1 \in Nat
  BY <1>a, CountedPositive
<1> USE DEF AtPlace, Goto, Leave, Places, Counted, Exiting, tables, notifier, destruction
<1>1. ASSUME NEW t \in Ids, Start(t)
      PROVE  Typed'
  <2>i. ipc' \in [Ids -> Places]
    BY <1>1, <1>t DEF Start, NextSlot
  <2>m. my' \in [Ids -> Fields]
    BY <1>1, <1>t, <1>m, <1>c, FieldsTyped DEF Start
  <2> QED
    BY <1>1, <1>a, <2>i, <2>m DEF Typed, Start, ProducersConstantsOK
<1>2. ASSUME NEW t \in Ids, Lookup(t)
      PROVE  Typed'
  <2> DEFINE local == [FreshLocals EXCEPT !.main = mainHash, !.index = Hash]
  <2>1. local \in Fields /\ \A n \in Nat : [local EXCEPT !.producer = n] \in Fields
    BY <1>m DEF ProducersConstantsOK, FreshLocals, Fields
  <2>2. ASSUME NEW h \in 1..mainHash, NEW i \in DOMAIN hashes[h]
        PROVE  hashes[h][i].value \in Nat
    <3>1. hashes[h] \in Tables
      BY <1>t DEF mainHash
    <3>2. hashes[h][i] \in Slots
      BY <3>1, TableShape
    <3> QED
      BY <3>2 DEF Slots
  <2> HIDE DEF local
  <2>i. ipc' \in [Ids -> Places]
    BY <1>2, <1>t DEF Lookup, NextSlot
  <2>m. my' \in [Ids -> Fields]
    <3>1. CASE UNCHANGED my
      BY <1>t, <3>1
    <3>2. CASE \E n \in Nat : my' = [my EXCEPT ![t] = [local EXCEPT !.producer = n]]
      BY <1>t, <2>1, <3>2
    <3>3. CASE my' = [my EXCEPT ![t] = local]
      BY <1>t, <2>1, <3>3
    <3>4. CASE \E h \in 1..mainHash : \E i \in SlotOf(h, t) : my' = [my EXCEPT ![t] = [local EXCEPT !.producer = hashes[h][i].value]]
      BY <2>2, <3>2, <3>4 DEF SlotOf
    <3> QED
      BY <1>2, <3>1, <3>3, <3>4 DEF Lookup, local
  <2> QED
    BY <1>2, <1>a, <2>i, <2>m DEF Typed, Lookup
<1>3. ASSUME NEW t \in Ids, Reinsert(t)
      PROVE  Typed'
  <2>h. hashes' \in Seq(Tables) /\ hashes' # <<>>
    BY <1>3, <1>a, <1>t, SetSlotEffect DEF Reinsert, NextSlot
  <2>i. ipc' \in [Ids -> Places]
    BY <1>3, <1>t DEF Reinsert, NextSlot
  <2>m. my' \in [Ids -> Fields]
    <3>1. /\ [my EXCEPT ![t] = FreshLocals] \in [Ids -> Fields]
          /\ [my EXCEPT ![t].index = my[t].index + 1] \in [Ids -> Fields]
      BY <1>t, FieldsTyped
    <3> QED
      BY <1>3, <1>t, <3>1 DEF Reinsert, NextSlot
  <2> QED
    BY <1>3, <1>a, <2>h, <2>i, <2>m DEF Typed, Reinsert
<1>4. ASSUME NEW t \in Ids, CountIn(t)
      PROVE  Typed'
  <2>i. ipc' \in [Ids -> Places]
    BY <1>4, <1>t DEF CountIn, NextSlot
  <2>m. my' \in [Ids -> Fields]
    BY <1>4, <1>t, <1>m, <1>c, FieldsTyped DEF CountIn
  <2> QED
    BY <1>4, <1>a, <2>i, <2>m DEF Typed, CountIn
<1>5. ASSUME NEW t \in Ids, TestResize(t)
      PROVE  Typed'
  <2>i. ipc' \in [Ids -> Places]
    BY <1>5, <1>t DEF TestResize, NextSlot
  <2>m. my' \in [Ids -> Fields]
    <3>1. [my EXCEPT ![t].main = mainHash] \in [Ids -> Fields]
      BY <1>t, <1>m, FieldsTyped
    <3> QED
      BY <1>5, <1>t, <3>1 DEF TestResize
  <2> QED
    BY <1>5, <1>a, <2>i, <2>m DEF Typed, TestResize
<1>6. ASSUME NEW t \in Ids, Resize(t)
      PROVE  Typed'
  <2>h. hashes' \in Seq(Tables) /\ hashes' # <<>>
    BY <1>6, <1>a, ResizeEffect
  <2>i. ipc' \in [Ids -> Places]
    BY <1>6, <1>t DEF Resize, NextSlot
  <2>m. my' \in [Ids -> Fields]
    <3>1. [my EXCEPT ![t].main = mainHash + 1] \in [Ids -> Fields]
      BY <1>t, <1>m, FieldsTyped
    <3> QED
      BY <1>6, <1>t, <3>1 DEF Resize
  <2> QED
    BY <1>6, <1>a, <2>h, <2>i, <2>m DEF Typed, Resize
<1>7. ASSUME NEW t \in Ids, Unlock(t)
      PROVE  Typed'
  <2>i. ipc' \in [Ids -> Places]
    BY <1>7, <1>t DEF Unlock, NextSlot
  <2>m. my' \in [Ids -> Fields]
    BY <1>7, <1>t, <1>m, <1>c, FieldsTyped DEF Unlock
  <2> QED
    BY <1>7, <1>a, <2>i, <2>m DEF Typed, Unlock
<1>8. ASSUME NEW t \in Ids, NoMemory(t)
      PROVE  Typed'
  <2>i. ipc' \in [Ids -> Places]
    BY <1>8, <1>t DEF NoMemory, NextSlot
  <2>m. my' \in [Ids -> Fields]
    BY <1>8, <1>t, <1>m, <1>c, FieldsTyped DEF NoMemory
  <2> QED
    BY <1>8, <1>a, <1>d, <2>i, <2>m DEF Typed, NoMemory
<1>g. ASSUME NEW t \in Ids, GiveUp(t)
      PROVE  Typed'
  <2>i. ipc' \in [Ids -> Places]
    BY <1>g, <1>t DEF GiveUp
  <2>m. my' \in [Ids -> Fields]
    BY <1>g, <1>t, <1>m, <1>c, FieldsTyped DEF GiveUp
  <2> QED
    BY <1>g, <1>a, <2>i, <2>m DEF Typed, GiveUp
<1>9. ASSUME NEW t \in Ids, Room(t)
      PROVE  Typed'
  <2>i. ipc' \in [Ids -> Places]
    BY <1>9, <1>t DEF Room, NextSlot
  <2>m. my' \in [Ids -> Fields]
    <3>1. /\ [my EXCEPT ![t].producer = Len(producers), ![t].count = 0] \in [Ids -> Fields]
          /\ [my EXCEPT ![t].main = mainHash] \in [Ids -> Fields]
      BY <1>t, <1>m, <1>c, FieldsTyped
    <3> QED
      BY <1>9, <1>t, <3>1 DEF Room
  <2> QED
    BY <1>9, <1>a, <2>i, <2>m DEF Typed, Room
<1>10. ASSUME NEW t \in Ids, Recycle(t)
      PROVE  Typed'
  <2>1. my[t].producer # 0 => my[t].producer - 1 \in Nat
    BY <1>a, <1>u DEF Typed
  <2>i. ipc' \in [Ids -> Places]
    BY <1>10, <1>t DEF Recycle, NextSlot
  <2>m. my' \in [Ids -> Fields]
    <3>1. my[t].producer # 0 => [my EXCEPT ![t].producer = my[t].producer - 1] \in [Ids -> Fields]
      BY <1>t, <2>1, FieldsTyped
    <3> QED
      BY <1>10, <1>t, <3>1 DEF Recycle
  <2>p. producers' \in Seq(BOOLEAN) /\ Len(producers') = Len(producers)
    <3>1. producers \in Seq(BOOLEAN) /\ Len(producers) \in Nat
      BY <1>a DEF Typed
    <3>2. my[t].producer # 0 => my[t].producer \in 1..Len(producers)
      BY <1>u, <3>1
    <3>3. CASE UNCHANGED producers
      BY <3>1, <3>3
    <3>4. CASE my[t].producer # 0 /\ producers' = [producers EXCEPT ![my[t].producer] = FALSE]
      <4>1. /\ [producers EXCEPT ![my[t].producer] = FALSE] \in Seq(BOOLEAN)
            /\ Len([producers EXCEPT ![my[t].producer] = FALSE]) = Len(producers)
        BY <3>1, <3>2, <3>4, FlagsTyped
      <4> QED
        BY <3>4, <4>1
    <3> QED
      BY <1>10, <3>3, <3>4, Zenon DEF Recycle
  <2> QED
    BY <1>10, <1>a, <2>p, <2>i, <2>m DEF Typed, Recycle
<1>11. ASSUME NEW t \in Ids, Create(t)
      PROVE  Typed'
  <2>i. ipc' \in [Ids -> Places]
    BY <1>11, <1>t DEF Create, NextSlot
  <2>m. my' \in [Ids -> Fields]
    <3>1. /\ [my EXCEPT ![t].producer = Len(producers) + 1] \in [Ids -> Fields]
          /\ [my EXCEPT ![t] = FreshLocals] \in [Ids -> Fields]
      BY <1>t, <1>c, FieldsTyped
    <3> QED
      BY <1>11, <1>t, <3>1 DEF Create
  <2>1. CASE UNCHANGED <<producers, chain>> /\ hashCount' = hashCount - 1
    <3>1. AtPlace(t, "recycle")
      BY <1>11, Zenon DEF Create
    <3>2. hashCount' \in Nat
      BY <1>d, <2>1, <3>1
    <3> QED
      BY <1>11, <1>a, <2>i, <2>m, <2>1, <3>2 DEF Typed, Create
  <2>2. CASE /\ producers' = Append(producers, FALSE) /\ chain' = Append(chain, None)
             /\ UNCHANGED hashCount
    <3>1. producers' \in Seq(BOOLEAN) /\ Len(producers') = Len(producers) + 1
      <4>1. producers \in Seq(BOOLEAN)
        BY <1>a DEF Typed
      <4> QED
        BY <2>2, <4>1
    <3>2. chain' \in Seq(Ids \cup {None}) /\ Len(chain') = Len(chain) + 1
      <4>1. chain \in Seq(Ids \cup {None})
        BY <1>a DEF Typed
      <4> QED
        BY <2>2, <4>1
    <3> QED
      BY <1>11, <1>a, <2>2, <3>1, <3>2, <2>i, <2>m DEF Typed, Create
  <2> QED
    BY <1>11, <2>1, <2>2, Zenon DEF Create
<1>12. ASSUME NEW t \in Ids, Subscribe(t)
      PROVE  Typed'
  <2>1. my[t].producer \in 1..Len(producers)
    BY <1>12, <1>a DEF ThreadOK, Subscribe
  <2>i. ipc' \in [Ids -> Places]
    BY <1>12, <1>t DEF Subscribe, NextSlot
  <2>m. my' \in [Ids -> Fields]
    BY <1>12, <1>t, <1>m, <1>c, FieldsTyped DEF Subscribe
  <2> QED
    BY <1>12, <1>a, <2>1, <2>i, <2>m DEF Typed, Subscribe
<1>13. ASSUME NEW t \in Ids, Insert(t)
      PROVE  Typed'
  <2>h. hashes' \in Seq(Tables) /\ hashes' # <<>>
    BY <1>13, <1>a, <1>t, SetSlotEffect DEF Insert, NextSlot
  <2>i. ipc' \in [Ids -> Places]
    BY <1>13, <1>t DEF Insert, NextSlot
  <2>m. my' \in [Ids -> Fields]
    <3>1. /\ [my EXCEPT ![t] = FreshLocals] \in [Ids -> Fields]
          /\ [my EXCEPT ![t].index = my[t].index + 1] \in [Ids -> Fields]
      BY <1>t, FieldsTyped
    <3> QED
      BY <1>13, <1>t, <3>1 DEF Insert, NextSlot
  <2> QED
    BY <1>13, <1>a, <2>h, <2>i, <2>m DEF Typed, Insert
<1>14. ASSUME NEW t \in Ids, Uncount(t)
      PROVE  Typed'
  <2>i. ipc' \in [Ids -> Places]
    BY <1>14, <1>t DEF Uncount, NextSlot
  <2>m. my' \in [Ids -> Fields]
    BY <1>14, <1>t, <1>m, <1>c, FieldsTyped DEF Uncount
  <2> QED
    BY <1>14, <1>a, <1>d, <2>i, <2>m DEF Typed, Uncount
<1>15. ASSUME NEW t \in Ids, Exit(t)
      PROVE  Typed'
  <2>1. tail[t] # <<>> => Head(tail[t]) \in 1..Len(producers) /\ Head(tail[t]) \in Nat
    BY <1>a, OneListener
  <2>i. ipc' \in [Ids -> Places]
    BY <1>15, <1>t DEF Exit
  <2>m. my' \in [Ids -> Fields]
    <3>1. tail[t] # <<>> =>
            [my EXCEPT ![t].producer = Head(tail[t]), ![t].main = mainHash] \in [Ids -> Fields]
      BY <1>t, <1>m, <1>c, <2>1, FieldsTyped
    <3> QED
      BY <1>15, <1>t, <3>1 DEF Exit
  <2>c. chain' \in Seq(Ids \cup {None}) /\ Len(chain') = Len(chain)
    <3>1. chain \in Seq(Ids \cup {None}) /\ Len(chain) = Len(producers)
      BY <1>a DEF Typed
    <3>2. \A p \in 1..Len(producers) : [chain EXCEPT ![p] = None] \in Seq(Ids \cup {None})
                                     /\ Len([chain EXCEPT ![p] = None]) = Len(chain)
      BY <3>1
    <3> QED
      BY <1>15, <2>1, <3>1, <3>2 DEF Exit
  <2> QED
    BY <1>15, <1>a, <2>i, <2>m, <2>c DEF Typed, Exit
<1>16. ASSUME NEW t \in Ids, Erase(t)
      PROVE  Typed'
  <2>h. hashes' \in Seq(Tables) /\ hashes' # <<>>
    BY <1>16, <1>a, <1>u, EraseEffect DEF Erase
  <2>1. my[t].main - 1 \in Nat
    BY <1>t, <1>u
  <2>i. ipc' \in [Ids -> Places]
    BY <1>16, <1>t DEF Erase, NextSlot
  <2>m. my' \in [Ids -> Fields]
    <3>1. [my EXCEPT ![t].main = my[t].main - 1] \in [Ids -> Fields]
      BY <1>t, <2>1, FieldsTyped
    <3> QED
      BY <1>16, <1>t, <3>1 DEF Erase
  <2> QED
    BY <1>16, <1>a, <2>h, <2>i, <2>m DEF Typed, Erase
<1>17. ASSUME NEW t \in Ids, Inactive(t)
      PROVE  Typed'
  <2>1. my[t].producer \in Nat
    BY <1>a, <1>u DEF Typed
  <2>i. ipc' \in [Ids -> Places]
    BY <1>17, <1>t DEF Inactive, NextSlot
  <2>m. my' \in [Ids -> Fields]
    BY <1>17, <1>t, <1>m, <1>c, FieldsTyped DEF Inactive
  <2>p. producers' \in Seq(BOOLEAN) /\ Len(producers') = Len(producers)
    <3>1. producers \in Seq(BOOLEAN) /\ my[t].producer \in 1..Len(producers)
      BY <1>17, <1>a, OneListener DEF Typed, Inactive
    <3> QED
      BY <1>17, <3>1, FlagsTyped DEF Inactive
  <2> QED
    BY <1>17, <1>a, <2>i, <2>m, <2>p DEF Typed, Inactive
<1>18. ASSUME NEW t \in Ids, NextListener(t)
      PROVE  Typed'
  <2>1. tail[t] \in Seq(Nat)
    BY <1>a DEF Typed
  <2>2. tail[t] # <<>> => Tail(tail[t]) \in Seq(Nat)
    BY <2>1
  <2>3. tail[t] # <<>> /\ Tail(tail[t]) = <<>>
    BY <1>18, <1>a, OneListener DEF NextListener
  <2>i. ipc' \in [Ids -> Places]
    BY <1>18, <1>t DEF NextListener, NextSlot
  <2>m. my' \in [Ids -> Fields]
    <3>1. my' = [my EXCEPT ![t] = FreshLocals]
      BY <1>18, <2>3, Zenon DEF NextListener
    <3> QED
      BY <1>t, <3>1, FieldsTyped
  <2> QED
    BY <1>18, <1>a, <2>1, <2>2, <2>3, <2>i, <2>m DEF Typed, NextListener
<1>19. CASE Close \/ FreeInactive \/ FreeTables
  BY <1>19, <1>a DEF Typed, Close, FreeInactive, FreeTables
<1>20. CASE Unsubscribe
  <2>1. chain' \in Seq(Ids \cup {None}) /\ Len(chain') = Len(chain) /\ tail' \in [Ids -> Seq(Nat)]
    BY <1>20, <1>a, UnsubscribeEffect
  <2> QED
    BY <1>20, <1>a, <2>1 DEF Typed, Unsubscribe
<1>21. CASE UNCHANGED ownerVars
  BY <1>21, <1>a DEF Typed, ownerVars
<1> QED
  BY <1>1, <1>2, <1>3, <1>4, <1>5, <1>6, <1>7, <1>8, <1>g, <1>9, <1>10, <1>11, <1>12, <1>13, <1>14,
     <1>15, <1>16, <1>17, <1>18, <1>19, <1>20, <1>21 DEF ProducersNext, GetOrAdd, ThreadExit, Destroy

-----------------------------------------------------------------------------
(* The threads that do not move.                                            *)

\* A step neither takes an entry of u away nor makes one.
Keeps(u) == Registered(u) => Registered(u)'
NoNew(u) ==
  \A h \in 1..Len(hashes') : \A i \in DOMAIN hashes'[h] :
    hashes'[h][i].key = u => h \in 1..Len(hashes) /\ i \in DOMAIN hashes[h] /\ hashes[h][i].key = u

\* Every entry of a thread was there before.
OnlyOld ==
  \A h \in 1..Len(hashes') : \A i \in DOMAIN hashes'[h] :
    hashes'[h][i].key \in Ids =>
      /\ h \in 1..Len(hashes) /\ i \in DOMAIN hashes[h]
      /\ hashes'[h][i].key = hashes[h][i].key /\ hashes'[h][i].value = hashes[h][i].value

LEMMA SameTables ==
  ASSUME UNCHANGED hashes
  PROVE  OnlyOld /\ \A u : Keeps(u) /\ NoNew(u)
BY DEF OnlyOld, Keeps, NoNew, Registered, In

LEMMA PutInEntries ==
  ASSUME NEW m, NEW s, NEW e, PutIn(m, s, e), hashes[m][s].key \notin Ids
  PROVE  /\ \A u \in Ids : u # e.key => Keeps(u) /\ NoNew(u)
         /\ e.key \in Ids => Registered(e.key)'
<1>1. ASSUME NEW u \in Ids
      PROVE  Keeps(u)
  BY <1>1 DEF PutIn, Keeps, Registered, In
<1>2. ASSUME NEW u \in Ids, u # e.key
      PROVE  NoNew(u)
  BY <1>2 DEF PutIn, NoNew
<1>3. Registered(e.key)'
  BY DEF PutIn, Registered, In
<1> QED
  BY <1>1, <1>2, <1>3

LEMMA AddedEntries ==
  ASSUME ProducersConstantsOK, Typed, Added
  PROVE  OnlyOld /\ \A u \in Ids : Keeps(u) /\ NoNew(u)
<1>1. Len(hashes) \in Nat /\ Empty \notin Ids
  BY DEF Typed, ProducersConstantsOK
<1>2. \A i \in DOMAIN hashes'[Len(hashes) + 1] : hashes'[Len(hashes) + 1][i].key = Empty
  BY DEF Added
<1>3. OnlyOld
  BY <1>1, <1>2 DEF Added, OnlyOld
<1>4. ASSUME NEW u \in Ids
      PROVE  Keeps(u) /\ NoNew(u)
  <2>1. Keeps(u)
    BY <1>1 DEF Added, Keeps, Registered, In
  <2> QED
    BY <1>3, <2>1 DEF OnlyOld, NoNew
<1> QED
  BY <1>3, <1>4

LEMMA ErasedEntries ==
  ASSUME ProducersConstantsOK, NEW m, NEW t \in Ids, Erased(m, t)
  PROVE  /\ OnlyOld
         /\ \A u \in Ids : NoNew(u) /\ (u # t => Keeps(u))
         /\ \A i \in DOMAIN hashes'[m] : hashes'[m][i].key # t
<1>1. Reusable \notin Ids
  BY DEF ProducersConstantsOK
<1>2. OnlyOld
  BY <1>1 DEF Erased, OnlyOld
<1>3. ASSUME NEW u \in Ids
      PROVE  NoNew(u)
  BY <1>2 DEF OnlyOld, NoNew
<1>4. ASSUME NEW u \in Ids, u # t
      PROVE  Keeps(u)
  BY <1>4 DEF Erased, Keeps, Registered, In
<1>5. \A i \in DOMAIN hashes'[m] : hashes'[m][i].key # t
  BY <1>1 DEF Erased
<1> QED
  BY <1>2, <1>3, <1>4, <1>5

\* What is left alone of a thread, and what the destruction of the queue does.
Undisturbed(u) ==
  /\ ipc'[u] = ipc[u] /\ my'[u] = my[u]
  /\ mutex' = u <=> mutex = u
  /\ \/ queue' = queue /\ tail'[u] = tail[u]
     \/ /\ queue' # "open" /\ ipc[u] \in {"none", "idle"} \cup Exiting
        /\ tail'[u] = tail[u] \/ (tail'[u] = <<>> /\ ipc[u] \notin Exiting)

LEMMA ThreadKept ==
  ASSUME NEW u \in Ids, ThreadOK(u), Keeps(u), NoNew(u), Undisturbed(u),
         Len(hashes) \in Nat, Len(hashes') \in Nat, Len(hashes) <= Len(hashes'),
         Len(producers) \in Nat, Len(producers') \in Nat, Len(producers) <= Len(producers')
  PROVE  ThreadOK(u)'
<1>1. \A h \in 1..Len(hashes') : \A i \in DOMAIN hashes'[h] :
        In(h, i, u)' => h \in 1..Len(hashes) /\ i \in DOMAIN hashes[h] /\ In(h, i, u)
  BY DEF NoNew, In
<1>2. Registered(u)' <=> Registered(u)
  BY <1>1 DEF Keeps, Registered
<1> USE DEF Undisturbed, Exiting, Counted
<1>3. (tail[u] = <<>> \/ \E p \in 1..Len(producers) : tail[u] = <<p>>)'
  BY DEF ThreadOK
<1>4. /\ (ipc[u] \in {"none", "count", "giveUp"} \cup (Counted \ {"insert", "uncount"}) => tail[u] = <<>>)'
      /\ (ipc[u] \in {"reinsert", "insert"} \cup Exiting => tail[u] = <<my[u].producer>>)'
  BY DEF ThreadOK
<1>5. /\ (ipc[u] = "subscribe" => my[u].producer \in 1..Len(producers))'
      /\ (my[u].main \in 1..Len(hashes))'
      /\ (my[u].producer \in 0..Len(producers))'
      /\ (ipc[u] \in Exiting <=> mutex = u)'
  BY DEF ThreadOK
<1>6. (ipc[u] \in {"idle", "reinsert", "uncount"} /\ queue = "open" /\ tail[u] # <<>>
         => Registered(u))'
  BY <1>2 DEF ThreadOK
<1>7. (ipc[u] = "erase" =>
         \A h \in 1..Len(hashes) : \A i \in DOMAIN hashes[h] : In(h, i, u) => h <= my[u].main)'
  BY <1>1 DEF ThreadOK
<1>8. /\ (ipc[u] \in {"inactive", "next"} => ~Registered(u))'
      /\ (ipc[u] \notin {"none", "idle"} \cup Exiting => queue = "open")'
  BY <1>2 DEF ThreadOK
<1> QED
  BY <1>3, <1>4, <1>5, <1>6, <1>7, <1>8 DEF ThreadOK

-----------------------------------------------------------------------------
(* What a place says of a thread.                                           *)

Step(t) == Start(t) \/ GetOrAdd(t) \/ ThreadExit(t)

\* The other threads are left alone.
LEMMA OthersUndisturbed ==
  ASSUME ProducersConstantsOK, Typed, \A u \in Ids : ThreadOK(u),
         NEW t \in Ids, Step(t), NEW v \in Ids, v # t
  PROVE  Undisturbed(v)
<1> USE DEF AtPlace, Goto, Leave, notifier, destruction
<1>t. ipc \in [Ids -> Places] /\ my \in [Ids -> Fields] /\ tail \in [Ids -> Seq(Nat)]
  BY DEF Typed
<1>n. None \notin Ids /\ (ipc[t] \in Exiting <=> mutex = t)
  BY DEF ProducersConstantsOK, ThreadOK
<1>1. ASSUME Start(t)
      PROVE  Undisturbed(v)
  BY <1>1, <1>t, <1>n DEF Start, Undisturbed
<1>2. ASSUME Lookup(t)
      PROVE  Undisturbed(v)
  BY <1>2, <1>t, <1>n DEF Lookup, Undisturbed
<1>3. ASSUME Reinsert(t)
      PROVE  Undisturbed(v)
  BY <1>3, <1>t, <1>n DEF Reinsert, NextSlot, Undisturbed
<1>4. ASSUME CountIn(t)
      PROVE  Undisturbed(v)
  BY <1>4, <1>t, <1>n DEF CountIn, Undisturbed
<1>5. ASSUME TestResize(t)
      PROVE  Undisturbed(v)
  BY <1>5, <1>t, <1>n DEF TestResize, Undisturbed
<1>6. ASSUME Resize(t)
      PROVE  Undisturbed(v)
  BY <1>6, <1>t, <1>n DEF Resize, Undisturbed
<1>7. ASSUME Unlock(t)
      PROVE  Undisturbed(v)
  BY <1>7, <1>t, <1>n DEF Unlock, Undisturbed
<1>8. ASSUME NoMemory(t)
      PROVE  Undisturbed(v)
  BY <1>8, <1>t, <1>n DEF NoMemory, Undisturbed
<1>g. ASSUME GiveUp(t)
      PROVE  Undisturbed(v)
  BY <1>g, <1>t, <1>n DEF GiveUp, Undisturbed
<1>9. ASSUME Room(t)
      PROVE  Undisturbed(v)
  BY <1>9, <1>t, <1>n DEF Room, Undisturbed
<1>10. ASSUME Recycle(t)
      PROVE  Undisturbed(v)
  BY <1>10, <1>t, <1>n DEF Recycle, Undisturbed
<1>11. ASSUME Create(t)
      PROVE  Undisturbed(v)
  BY <1>11, <1>t, <1>n DEF Create, Undisturbed
<1>12. ASSUME Subscribe(t)
      PROVE  Undisturbed(v)
  BY <1>12, <1>t, <1>n DEF Subscribe, Undisturbed
<1>13. ASSUME Insert(t)
      PROVE  Undisturbed(v)
  BY <1>13, <1>t, <1>n DEF Insert, NextSlot, Undisturbed
<1>14. ASSUME Uncount(t)
      PROVE  Undisturbed(v)
  BY <1>14, <1>t, <1>n DEF Uncount, Undisturbed
<1>15. ASSUME Exit(t)
      PROVE  Undisturbed(v)
  BY <1>15, <1>t, <1>n DEF Exit, Undisturbed
<1>16. ASSUME Erase(t)
      PROVE  Undisturbed(v)
  BY <1>16, <1>t, <1>n DEF Erase, Undisturbed
<1>17. ASSUME Inactive(t)
      PROVE  Undisturbed(v)
  BY <1>17, <1>t, <1>n DEF Inactive, Undisturbed
<1>18. ASSUME NextListener(t)
      PROVE  Undisturbed(v)
  BY <1>18, <1>t, <1>n DEF NextListener, Exiting, Undisturbed
<1> QED
  BY <1>1, <1>2, <1>3, <1>4, <1>5, <1>6, <1>7, <1>8, <1>g, <1>9, <1>10,
     <1>11, <1>12, <1>13, <1>14, <1>15, <1>16, <1>17, <1>18 DEF Step, GetOrAdd, ThreadExit
\* A thread puts itself into a free slot.
Puts(t) ==
  /\ PutIn(my[t].main, Slot(my[t].main, my[t].index), [key |-> t, value |-> my[t].producer])
  /\ Key(t) \notin Ids

\* The four things that a step does to the tables.
LEMMA StepTables ==
  ASSUME ProducersConstantsOK, Typed, \A u \in Ids : ThreadOK(u), NEW t \in Ids, Step(t)
  PROVE  \/ UNCHANGED hashes
         \/ Puts(t) /\ (Reinsert(t) \/ Insert(t))
         \/ Added /\ AtPlace(t, "resize")
         \/ Erased(my[t].main, t) /\ Erase(t)
<1>1. CASE Reinsert(t) \/ Insert(t)
  <2>1. CASE NextSlot(t)
    BY <2>1 DEF NextSlot
  <2>2. CASE SetSlot(t) /\ Key(t) \in {Empty, Reusable}
    BY <1>1, <2>2, SetSlotEffect DEF Puts, ProducersConstantsOK, Reinsert, Insert
  <2> QED
    BY <1>1, <2>1, <2>2 DEF Reinsert, Insert
<1>2. CASE Resize(t)
  BY <1>2, ResizeEffect DEF Resize
<1>3. CASE Erase(t)
  <2>1. my[t].main \in 1..Len(hashes)
    BY DEF ThreadOK
  <2> QED
    BY <1>3, <2>1, EraseEffect DEF Erase
<1>4. CASE Start(t) \/ Lookup(t) \/ CountIn(t) \/ TestResize(t) \/ Unlock(t) \/ NoMemory(t) \/ GiveUp(t)
           \/ Room(t) \/ Recycle(t) \/ Create(t) \/ Subscribe(t) \/ Uncount(t) \/ Exit(t)
           \/ Inactive(t) \/ NextListener(t)
  BY <1>4 DEF Start, Lookup, CountIn, TestResize, Unlock, NoMemory, GiveUp, Room, Recycle, Create,
              Subscribe, Uncount, Exit, Inactive, NextListener, tables
<1> QED
  BY <1>1, <1>2, <1>3, <1>4 DEF Step, GetOrAdd, ThreadExit

\* The tables and the producers only become more, and other threads' entries stay.
LEMMA StepEntries ==
  ASSUME ProducersConstantsOK, Typed, \A u \in Ids : ThreadOK(u), NEW t \in Ids, Step(t)
  PROVE  /\ Len(hashes) \in Nat /\ Len(hashes') \in Nat /\ Len(hashes) <= Len(hashes')
         /\ OnlyOld \/ (Puts(t) /\ (Reinsert(t) \/ Insert(t)))
         /\ \A u \in Ids : u # t => Keeps(u) /\ NoNew(u)
         /\ AtPlace(t, "erase") \/ Keeps(t)
         /\ AtPlace(t, "reinsert") \/ AtPlace(t, "insert") \/ NoNew(t)
<1>1. Len(hashes) \in Nat
  BY DEF Typed
<1>2. CASE UNCHANGED hashes
  BY <1>1, <1>2, SameTables
<1>3. CASE Puts(t) /\ (Reinsert(t) \/ Insert(t))
  <2>1. AtPlace(t, "reinsert") \/ AtPlace(t, "insert")
    BY <1>3 DEF Reinsert, Insert
  <2> QED
    BY <1>1, <1>3, <2>1, PutInEntries DEF Puts, PutIn, Key, Keeps
<1>4. CASE Added
  BY <1>1, <1>4, AddedEntries DEF Added
<1>5. CASE Erased(my[t].main, t) /\ Erase(t)
  <2>1. AtPlace(t, "erase") /\ Len(hashes') = Len(hashes)
    BY <1>5 DEF Erased, Erase
  <2>2. OnlyOld /\ \A u \in Ids : NoNew(u) /\ (u # t => Keeps(u))
    BY <1>5, ErasedEntries
  <2> QED
    BY <1>1, <2>1, <2>2
<1> QED
  BY <1>2, <1>3, <1>4, <1>5, StepTables

LEMMA ProducersGrow ==
  ASSUME Typed, \A u \in Ids : ThreadOK(u), NEW t \in Ids, Step(t)
  PROVE  /\ Len(producers) \in Nat /\ Len(producers') \in Nat
         /\ Len(producers) <= Len(producers')
         /\ \A p \in 1..Len(producers) :
              ~Recycle(t) /\ ~Inactive(t) => producers'[p] = producers[p]
<1>1. producers \in Seq(BOOLEAN) /\ Len(producers) \in Nat
  BY DEF Typed
<1>2. CASE UNCHANGED producers
  BY <1>1, <1>2
<1>3. CASE producers' = Append(producers, FALSE)
  BY <1>1, <1>3, AppendProperties
<1>4. CASE Recycle(t) \/ Inactive(t)
  <2>1. \A p : Len([producers EXCEPT ![p] = TRUE]) = Len(producers)
               /\ Len([producers EXCEPT ![p] = FALSE]) = Len(producers)
    BY <1>1
  <2> QED
    BY <1>1, <1>4, <2>1 DEF Recycle, Inactive
<1> QED
  BY <1>2, <1>3, <1>4 DEF Step, GetOrAdd, ThreadExit, Start, Lookup, Reinsert, CountIn, TestResize,
    Resize, Unlock, NoMemory, GiveUp, Room, Create, Subscribe, Insert, Uncount, Exit, Erase, NextListener

LEMMA ThreadStep ==
  ASSUME ProducersConstantsOK, OwnerInv, Typed', NEW t \in Ids, Step(t)
  PROVE  \A u \in Ids : ThreadOK(u)'
<1> USE DEF AtPlace, Goto, Leave, notifier, destruction, tables, mainHash
<1>t. /\ Typed /\ \A u \in Ids : ThreadOK(u)
      /\ ipc \in [Ids -> Places] /\ my \in [Ids -> Fields] /\ tail \in [Ids -> Seq(Nat)]
  BY DEF OwnerInv, Typed
<1>n. None \notin Ids
  BY DEF ProducersConstantsOK
<1>h. /\ Len(hashes) \in Nat /\ Len(hashes') \in Nat /\ Len(hashes) <= Len(hashes')
      /\ \A u \in Ids : u # t => Keeps(u) /\ NoNew(u)
      /\ AtPlace(t, "erase") \/ Keeps(t)
      /\ AtPlace(t, "reinsert") \/ AtPlace(t, "insert") \/ NoNew(t)
  BY <1>t, StepEntries
<1>p. Len(producers) \in Nat /\ Len(producers') \in Nat /\ Len(producers) <= Len(producers')
  BY <1>t, ProducersGrow
<1>o. ASSUME NEW u \in Ids, u # t
      PROVE  ThreadOK(u)'
  <2>1. Undisturbed(u)
    BY <1>t, <1>o, OthersUndisturbed
  <2> QED
    BY <1>t, <1>h, <1>p, <1>o, <2>1, ThreadKept
<1>m. Len(hashes) # 0
  BY <1>t DEF Typed
<1>k. ThreadOK(t)
  BY <1>t
<1>l. my[t] \in Fields /\ my[t].main \in 1..Len(hashes) /\ my[t].producer \in 0..Len(producers)
  BY <1>t, <1>k DEF ThreadOK
<1>1. ASSUME Start(t)
      PROVE  ThreadOK(t)'
  <2>1. ipc[t] = "none" /\ tail[t] = <<>> /\ UNCHANGED <<hashes, producers, tail, mutex, my>>
    BY <1>1, <1>k DEF Start, ThreadOK
  <2>2. ipc'[t] = "idle"
    BY <1>1, <1>t DEF Start
  <2> QED
    BY <1>k, <2>1, <2>2 DEF ThreadOK, Exiting, Counted
<1>2. ASSUME Lookup(t)
      PROVE  ThreadOK(t)'
  <2> DEFINE found == {h \in 1..mainHash : SlotOf(h, t) # {}}
             local == [FreshLocals EXCEPT !.main = mainHash, !.index = Hash]
  <2>1. /\ ipc[t] = "idle" /\ queue = "open" /\ queue' = "open" /\ mutex' # t /\ tail' = tail
        /\ UNCHANGED <<hashes, producers>>
    BY <1>2, <1>k DEF Lookup, ThreadOK, Exiting
  <2>2. local.main = Len(hashes) /\ local.producer = 0
    BY DEF FreshLocals
  <2>3. CASE found = {} /\ Goto(t, "count") /\ my' = [my EXCEPT ![t] = local]
    <3>1. ~Registered(t)
      BY <2>3 DEF Registered, In, SlotOf
    <3>2. tail[t] = <<>>
      BY <1>k, <2>1, <3>1 DEF ThreadOK
    <3>3. ipc'[t] = "count" /\ my'[t] = local
      BY <1>t, <2>3
    <3> QED
      BY <1>m, <1>h, <1>p, <2>1, <2>2, <3>2, <3>3 DEF ThreadOK, Exiting, Counted
  <2>4. CASE UNCHANGED <<ipc, my>>
    <3>1. Undisturbed(t)
      BY <1>2, <2>4 DEF Undisturbed, Lookup
    <3>2. ~AtPlace(t, "erase") /\ ~AtPlace(t, "reinsert") /\ ~AtPlace(t, "insert")
      BY <2>1
    <3> QED
      BY <1>h, <1>p, <1>k, <3>1, <3>2, ThreadKept
  <2>5. ASSUME NEW h \in found, NEW i \in SlotOf(h, t), Goto(t, "reinsert"),
               my' = [my EXCEPT ![t] = [local EXCEPT !.producer = hashes[h][i].value]]
        PROVE  ThreadOK(t)'
    <3>1. h \in 1..Len(hashes) /\ i \in DOMAIN hashes[h] /\ hashes[h][i].key = t
      BY <2>5 DEF SlotOf
    <3>2. hashes[h][i].value \in 1..Len(producers) /\ tail[t] = <<hashes[h][i].value>>
      BY <2>1, <3>1 DEF OwnerInv, EntriesOK, EntryOK
    <3>3. Registered(t)'
      BY <2>1, <3>1 DEF Registered, In
    <3>4. [local EXCEPT !.producer = hashes[h][i].value].main = Len(hashes)
          /\ [local EXCEPT !.producer = hashes[h][i].value].producer = hashes[h][i].value
      BY DEF FreshLocals
    <3>5. ipc'[t] = "reinsert" /\ my'[t].main = Len(hashes) /\ my'[t].producer = hashes[h][i].value
      BY <1>t, <2>5, <3>4
    <3> HIDE DEF local, found
    <3> QED
      BY <1>m, <1>h, <1>p, <2>1, <3>2, <3>3, <3>5 DEF ThreadOK, Exiting, Counted
  <2> QED
    BY <1>2, <2>3, <2>4, <2>5, Zenon DEF Lookup
<1>3. ASSUME Reinsert(t)
      PROVE  ThreadOK(t)'
  <2>0. /\ ipc[t] = "reinsert" /\ queue' = queue /\ mutex' = mutex /\ tail' = tail
        /\ producers' = producers
    BY <1>3 DEF Reinsert
  <2>1. CASE NextSlot(t)
    <3>1. /\ ipc'[t] = ipc[t] /\ my'[t].main = my[t].main /\ my'[t].producer = my[t].producer
          /\ UNCHANGED hashes
      BY <1>t, <2>1 DEF NextSlot, Fields
    <3>2. Registered(t)' <=> Registered(t)
      BY <3>1 DEF Registered, In
    <3> QED
      BY <1>k, <2>0, <3>1, <3>2 DEF ThreadOK, Exiting, Counted
  <2>2. CASE SetSlot(t) /\ Key(t) \in {Empty, Reusable} /\ Leave(t)
    <3>1. ipc'[t] = "idle" /\ my'[t].main = 1 /\ my'[t].producer = 0
      BY <1>t, <2>2 DEF FreshLocals
    <3>2. Registered(t)'
      <4> DEFINE e == [key |-> t, value |-> my[t].producer]
      <4>1. PutIn(my[t].main, Slot(my[t].main, my[t].index), e)
        BY <1>t, <2>2, SetSlotEffect
      <4>2. hashes[my[t].main][Slot(my[t].main, my[t].index)].key \notin Ids
        BY <2>2 DEF ProducersConstantsOK, Key
      <4>3. e.key = t
        OBVIOUS
      <4> HIDE DEF e
      <4> QED
        BY <4>1, <4>2, <4>3, PutInEntries
    <3> QED
      BY <1>k, <1>h, <1>p, <1>m, <2>0, <3>1, <3>2 DEF ThreadOK, Exiting, Counted
  <2> QED
    BY <1>3, <2>1, <2>2 DEF Reinsert
<1>4. ASSUME CountIn(t)
      PROVE  ThreadOK(t)'
  <2>1. /\ ipc[t] = "count" /\ queue = "open" /\ mutex # t
        /\ UNCHANGED <<hashes, producers, tail, mutex, queue>>
    BY <1>4, <1>k DEF CountIn, ThreadOK, Exiting
  <2>2. ipc'[t] = "test" /\ my'[t].main = my[t].main /\ my'[t].producer = my[t].producer
    BY <1>4, <1>t, <1>l DEF CountIn, Fields
  <2> QED
    BY <1>k, <1>h, <1>p, <1>m, <2>1, <2>2 DEF ThreadOK, Registered, In, Exiting, Counted
<1>5. ASSUME TestResize(t)
      PROVE  ThreadOK(t)'
  <2>0. /\ ipc[t] = "test" /\ queue' = queue /\ mutex' = mutex /\ tail' = tail
    BY <1>5 DEF TestResize
  <2>1. tail[t] = <<>> /\ queue = "open" /\ mutex # t
    BY <1>k, <2>0 DEF ThreadOK, Exiting, Counted
  <2>2. /\ ipc'[t] \in {"resize", "room"}
        /\ my'[t].main \in 1..Len(hashes')
        /\ my'[t].producer \in 0..Len(producers')
        /\ ipc'[t] = "subscribe" => my'[t].producer \in 1..Len(producers')
    <3>1. \/ ipc' = [ipc EXCEPT ![t] = "resize"] /\ my' = [my EXCEPT ![t].main = mainHash]
          \/ ipc' = [ipc EXCEPT ![t] = "room"] /\ my' = my
      BY <1>5 DEF TestResize
    <3>2. hashes' = hashes /\ producers' = producers
      BY <1>5 DEF TestResize
    <3> QED
      <4>1. Len(hashes) \in 1..Len(hashes)
        BY <1>h, <1>m
      <4>2. CASE ipc' = [ipc EXCEPT ![t] = "resize"] /\ my' = [my EXCEPT ![t].main = mainHash]
        <5>1. ipc'[t] = "resize" /\ my'[t].main = Len(hashes) /\ my'[t].producer = my[t].producer
          BY <1>t, <1>l, <4>2 DEF Fields
        <5> QED
          BY <1>l, <3>2, <4>1, <5>1
      <4>3. CASE ipc' = [ipc EXCEPT ![t] = "room"] /\ my' = my
        <5>1. ipc'[t] = "room" /\ my'[t] = my[t]
          BY <1>t, <4>3
        <5> QED
          BY <1>l, <3>2, <5>1
      <4> QED
        BY <3>1, <4>2, <4>3
  <2> QED
    BY <2>0, <2>1, <2>2 DEF ThreadOK, Exiting, Counted
<1>6. ASSUME Resize(t)
      PROVE  ThreadOK(t)'
  <2>0. /\ ipc[t] = "resize" /\ queue' = queue /\ mutex' = mutex /\ tail' = tail
    BY <1>6 DEF Resize
  <2>1. tail[t] = <<>> /\ queue = "open" /\ mutex # t
    BY <1>k, <2>0 DEF ThreadOK, Exiting, Counted
  <2>2. /\ ipc'[t] \in {"unlock", "noMemory"}
        /\ my'[t].main \in 1..Len(hashes')
        /\ my'[t].producer \in 0..Len(producers')
        /\ ipc'[t] = "subscribe" => my'[t].producer \in 1..Len(producers')
    BY <1>6, <1>t, <1>k, <1>h, <1>p, <1>m DEF Resize, ThreadOK, Fields
  <2> QED
    BY <2>0, <2>1, <2>2 DEF ThreadOK, Exiting, Counted
<1>7. ASSUME Unlock(t)
      PROVE  ThreadOK(t)'
  <2>1. /\ ipc[t] = "unlock" /\ queue = "open" /\ mutex # t
        /\ UNCHANGED <<hashes, producers, tail, mutex, queue>>
    BY <1>7, <1>k DEF Unlock, ThreadOK, Exiting
  <2>2. ipc'[t] = "room" /\ my'[t].main = my[t].main /\ my'[t].producer = my[t].producer
    BY <1>7, <1>t, <1>l DEF Unlock, Fields
  <2> QED
    BY <1>k, <1>h, <1>p, <1>m, <2>1, <2>2 DEF ThreadOK, Registered, In, Exiting, Counted
<1>8. ASSUME NoMemory(t)
      PROVE  ThreadOK(t)'
  <2>1. /\ ipc[t] = "noMemory" /\ queue = "open" /\ mutex # t
        /\ UNCHANGED <<hashes, producers, tail, mutex, queue>>
    BY <1>8, <1>k DEF NoMemory, ThreadOK, Exiting
  <2>2. ipc'[t] = "giveUp" /\ my'[t].main = my[t].main /\ my'[t].producer = my[t].producer
    BY <1>8, <1>t, <1>l DEF NoMemory
  <2> QED
    BY <1>k, <1>h, <1>p, <1>m, <2>1, <2>2 DEF ThreadOK, Registered, In, Exiting, Counted
<1>g. ASSUME GiveUp(t)
      PROVE  ThreadOK(t)'
  <2>1. /\ ipc[t] = "giveUp" /\ queue = "open" /\ mutex # t
        /\ UNCHANGED <<hashes, producers, tail, mutex, queue>>
    BY <1>g, <1>k DEF GiveUp, ThreadOK, Exiting
  <2>2. ipc'[t] = "idle" /\ my'[t].main = 1 /\ my'[t].producer = 0
    BY <1>g, <1>t, <1>l DEF GiveUp, FreshLocals
  <2> QED
    BY <1>k, <1>h, <1>p, <1>m, <2>1, <2>2 DEF ThreadOK, Registered, In, Exiting, Counted
<1>9. ASSUME Room(t)
      PROVE  ThreadOK(t)'
  <2>0. /\ ipc[t] = "room" /\ queue' = queue /\ mutex' = mutex /\ tail' = tail
    BY <1>9 DEF Room
  <2>1. tail[t] = <<>> /\ queue = "open" /\ mutex # t
    BY <1>k, <2>0 DEF ThreadOK, Exiting, Counted
  <2>2. /\ ipc'[t] \in {"recycle", "test"}
        /\ my'[t].main \in 1..Len(hashes')
        /\ my'[t].producer \in 0..Len(producers')
        /\ ipc'[t] = "subscribe" => my'[t].producer \in 1..Len(producers')
    <3>1. \/ /\ ipc' = [ipc EXCEPT ![t] = "recycle"]
             /\ my' = [my EXCEPT ![t].producer = Len(producers), ![t].count = 0]
          \/ ipc' = [ipc EXCEPT ![t] = "test"] /\ my' = [my EXCEPT ![t].main = mainHash]
      BY <1>9 DEF Room
    <3>2. hashes' = hashes /\ producers' = producers
      BY <1>9 DEF Room
    <3>3. Len(hashes) \in 1..Len(hashes) /\ Len(producers) \in 0..Len(producers)
      BY <1>h, <1>m, <1>p
    <3>4. CASE ipc' = [ipc EXCEPT ![t] = "recycle"]
               /\ my' = [my EXCEPT ![t].producer = Len(producers), ![t].count = 0]
      <4>1. ipc'[t] = "recycle" /\ my'[t].main = my[t].main /\ my'[t].producer = Len(producers)
        BY <1>t, <1>l, <3>4 DEF Fields
      <4> QED
        BY <1>l, <3>2, <3>3, <4>1
    <3>5. CASE ipc' = [ipc EXCEPT ![t] = "test"] /\ my' = [my EXCEPT ![t].main = mainHash]
      <4>1. ipc'[t] = "test" /\ my'[t].main = Len(hashes) /\ my'[t].producer = my[t].producer
        BY <1>t, <1>l, <3>5 DEF Fields
      <4> QED
        BY <1>l, <3>2, <3>3, <4>1
    <3> QED
      BY <3>1, <3>4, <3>5
  <2> QED
    BY <2>0, <2>1, <2>2 DEF ThreadOK, Exiting, Counted
<1>10. ASSUME Recycle(t)
      PROVE  ThreadOK(t)'
  <2>0. /\ ipc[t] = "recycle" /\ queue' = queue /\ mutex' = mutex /\ tail' = tail
    BY <1>10 DEF Recycle
  <2>1. tail[t] = <<>> /\ queue = "open" /\ mutex # t
    BY <1>k, <2>0 DEF ThreadOK, Exiting, Counted
  <2>2. /\ ipc'[t] \in {"recycle", "subscribe"}
        /\ my'[t].main \in 1..Len(hashes')
        /\ my'[t].producer \in 0..Len(producers')
        /\ ipc'[t] = "subscribe" => my'[t].producer \in 1..Len(producers')
    <3>1. /\ my[t].producer # 0 /\ hashes' = hashes
          /\ \/ ipc' = [ipc EXCEPT ![t] = "subscribe"] /\ my' = my
             \/ ipc' = ipc /\ my' = [my EXCEPT ![t].producer = my[t].producer - 1]
      BY <1>10 DEF Recycle
    <3> QED
      <4>1. my[t].producer \in 1..Len(producers') /\ my[t].producer - 1 \in 0..Len(producers')
        BY <1>l, <1>p, <3>1
      <4>2. \/ ipc'[t] = "subscribe" /\ my'[t] = my[t]
            \/ /\ ipc'[t] = "recycle" /\ my'[t].main = my[t].main
               /\ my'[t].producer = my[t].producer - 1
        BY <1>t, <1>l, <2>0, <3>1 DEF Fields
      <4> QED
        BY <1>l, <3>1, <4>1, <4>2
  <2> QED
    BY <2>0, <2>1, <2>2 DEF ThreadOK, Exiting, Counted
<1>11. ASSUME Create(t)
      PROVE  ThreadOK(t)'
  <2>0. /\ ipc[t] = "recycle" /\ queue' = queue /\ mutex' = mutex /\ tail' = tail
    BY <1>11 DEF Create
  <2>1. tail[t] = <<>> /\ queue = "open" /\ mutex # t
    BY <1>k, <2>0 DEF ThreadOK, Exiting, Counted
  <2>2. /\ ipc'[t] \in {"subscribe", "idle"}
        /\ my'[t].main \in 1..Len(hashes')
        /\ my'[t].producer \in 0..Len(producers')
        /\ ipc'[t] = "subscribe" => my'[t].producer \in 1..Len(producers')
    <3>1. /\ hashes' = hashes
          /\ \/ /\ ipc' = [ipc EXCEPT ![t] = "subscribe"]
                /\ my' = [my EXCEPT ![t].producer = Len(producers) + 1]
                /\ producers' = Append(producers, FALSE)
             \/ ipc' = [ipc EXCEPT ![t] = "idle"] /\ my' = [my EXCEPT ![t] = FreshLocals]
      BY <1>11 DEF Create
    <3>2. Len(Append(producers, FALSE)) = Len(producers) + 1
      BY <1>t, AppendProperties, Zenon DEF Typed
    <3>3. CASE my' = [my EXCEPT ![t].producer = Len(producers) + 1] /\ ipc' = [ipc EXCEPT ![t] = "subscribe"]
               /\ producers' = Append(producers, FALSE)
      BY <1>t, <1>l, <1>h, <1>p, <3>1, <3>2, <3>3 DEF Fields
    <3>4. CASE my' = [my EXCEPT ![t] = FreshLocals] /\ ipc' = [ipc EXCEPT ![t] = "idle"]
      BY <1>t, <1>m, <1>h, <1>p, <3>1, <3>4 DEF FreshLocals
    <3> QED
      BY <3>1, <3>3, <3>4
  <2> QED
    BY <2>0, <2>1, <2>2 DEF ThreadOK, Exiting, Counted
<1>12. ASSUME Subscribe(t)
      PROVE  ThreadOK(t)'
  <2>1. ipc[t] = "subscribe" /\ tail[t] = <<>> /\ my[t].producer \in 1..Len(producers)
    BY <1>12, <1>k DEF Subscribe, ThreadOK, Counted
  <2>2. <<my[t].producer>> \o <<>> = <<my[t].producer>>
    OBVIOUS
  <2>3. ipc'[t] = "insert" /\ my'[t] = my[t] /\ tail'[t] = <<my[t].producer>>
    BY <1>12, <1>t, <2>1, <2>2 DEF Subscribe
  <2> QED
    BY <1>12, <1>k, <1>h, <1>p, <1>n, <2>1, <2>3 DEF Subscribe, ThreadOK, Exiting, Counted
<1>13. ASSUME Insert(t)
      PROVE  ThreadOK(t)'
  <2>0. /\ ipc[t] = "insert" /\ queue' = queue /\ mutex' = mutex /\ tail' = tail
        /\ producers' = producers
    BY <1>13 DEF Insert
  <2>1. CASE NextSlot(t)
    <3>1. /\ ipc'[t] = ipc[t] /\ my'[t].main = my[t].main /\ my'[t].producer = my[t].producer
          /\ UNCHANGED hashes
      BY <1>t, <2>1 DEF NextSlot, Fields
    <3>2. Registered(t)' <=> Registered(t)
      BY <3>1 DEF Registered, In
    <3> QED
      BY <1>k, <2>0, <3>1, <3>2 DEF ThreadOK, Exiting, Counted
  <2>2. CASE SetSlot(t) /\ Key(t) \in {Empty, Reusable}
    <3>1. Registered(t)'
      <4> DEFINE e == [key |-> t, value |-> my[t].producer]
      <4>1. PutIn(my[t].main, Slot(my[t].main, my[t].index), e)
        BY <1>t, <2>2, SetSlotEffect
      <4>2. hashes[my[t].main][Slot(my[t].main, my[t].index)].key \notin Ids
        BY <2>2 DEF ProducersConstantsOK, Key
      <4>3. e.key = t
        OBVIOUS
      <4> HIDE DEF e
      <4> QED
        BY <4>1, <4>2, <4>3, PutInEntries
    <3>2. CASE Leave(t)
      <4>1. ipc'[t] = "idle" /\ my'[t].main = 1 /\ my'[t].producer = 0
        BY <1>t, <3>2 DEF FreshLocals
      <4> QED
        BY <1>k, <1>h, <1>p, <1>m, <2>0, <3>1, <4>1 DEF ThreadOK, Exiting, Counted
    <3>3. CASE Goto(t, "uncount") /\ UNCHANGED my
      <4>1. ipc'[t] = "uncount" /\ my'[t] = my[t]
        BY <1>t, <3>3
      <4> QED
        BY <1>k, <1>h, <1>p, <1>m, <2>0, <3>1, <4>1 DEF ThreadOK, Exiting, Counted
    <3> QED
      BY <1>13, <2>2, <3>2, <3>3 DEF Insert, NextSlot
  <2> QED
    BY <1>13, <2>1, <2>2 DEF Insert
<1>14. ASSUME Uncount(t)
      PROVE  ThreadOK(t)'
  <2>1. /\ ipc[t] = "uncount" /\ queue = "open" /\ mutex # t
        /\ UNCHANGED <<hashes, producers, tail, mutex, queue>>
    BY <1>14, <1>k DEF Uncount, ThreadOK, Exiting
  <2>2. ipc'[t] = "idle" /\ my'[t].main = 1 /\ my'[t].producer = 0
    BY <1>14, <1>t, <1>l DEF Uncount, FreshLocals
  <2> QED
    BY <1>k, <1>h, <1>p, <1>m, <2>1, <2>2 DEF ThreadOK, Registered, In, Exiting, Counted
<1>15. ASSUME Exit(t)
      PROVE  ThreadOK(t)'
  <2>0. ipc[t] = "idle" /\ mutex # t /\ queue' = queue /\ tail' = tail /\ UNCHANGED <<hashes, producers>>
    BY <1>15, <1>k DEF Exit, ThreadOK, Exiting
  <2>1. CASE tail[t] = <<>>
    <3>1. ipc'[t] = "none" /\ my'[t] = my[t] /\ mutex' = mutex
      BY <1>15, <1>t, <2>1 DEF Exit
    <3> QED
      BY <1>k, <2>0, <2>1, <3>1 DEF ThreadOK, Exiting, Counted
  <2>2. CASE tail[t] # <<>>
    <3>1. /\ Head(tail[t]) \in 1..Len(producers)
          /\ tail[t] = <<Head(tail[t])>>
      BY <1>k, <2>2, OneListener
    <3>2. /\ ipc'[t] = "erase" /\ mutex' = t
          /\ my'[t].producer = Head(tail[t]) /\ my'[t].main = Len(hashes)
      BY <1>15, <1>t, <2>2 DEF Exit, Fields
    <3>3. tail'[t] = <<my'[t].producer>> /\ my'[t].producer \in 1..Len(producers')
      BY <2>0, <3>1, <3>2
    <3> QED
      BY <1>h, <1>m, <1>p, <2>0, <3>2, <3>3 DEF ThreadOK, Exiting, Counted
  <2> QED
    BY <2>1, <2>2
<1>16. ASSUME Erase(t)
      PROVE  ThreadOK(t)'
  <2>0. /\ ipc[t] = "erase" /\ mutex = t
        /\ queue' = queue /\ mutex' = mutex /\ tail' = tail /\ producers' = producers
        /\ my[t].main \in 1..Len(hashes)
    BY <1>16, <1>k DEF Erase, ThreadOK, Exiting
  <2>1. Erased(my[t].main, t)
    BY <1>16, <1>t, <2>0, EraseEffect DEF Erase
  <2>2. \A i \in DOMAIN hashes'[my[t].main] : hashes'[my[t].main][i].key # t
    BY <2>1, ErasedEntries
  <2>3. NoNew(t) /\ Len(hashes') = Len(hashes)
    BY <2>1, ErasedEntries DEF Erased
  <2>4. \A h \in 1..Len(hashes) : \A i \in DOMAIN hashes'[h] : hashes'[h][i].key = t => h < my[t].main
    BY <1>k, <1>h, <2>0, <2>2, <2>3 DEF ThreadOK, NoNew, In
  <2>5. my'[t].producer = my[t].producer /\ tail[t] = <<my[t].producer>>
    BY <1>16, <1>t, <1>k, <2>0 DEF Erase, Fields, ThreadOK, Exiting
  <2>6. CASE my[t].main > 1
    <3>1. ipc'[t] = "erase" /\ my'[t].main = my[t].main - 1
      BY <1>16, <1>t, <2>6 DEF Erase, Fields
    <3>2. \A h \in 1..Len(hashes) : \A i \in DOMAIN hashes'[h] : In(h, i, t)' => h <= my'[t].main
      BY <1>h, <2>0, <2>4, <3>1 DEF In
    <3>3. my'[t].main \in 1..Len(hashes')
      BY <1>h, <2>0, <2>3, <2>6, <3>1
    <3> QED
      BY <1>k, <2>0, <2>3, <2>5, <3>1, <3>2, <3>3 DEF ThreadOK, Exiting, Counted
  <2>7. CASE my[t].main = 1
    <3>1. ipc'[t] = "inactive" /\ my'[t] = my[t]
      BY <1>16, <1>t, <2>7 DEF Erase
    <3>2. ~Registered(t)'
      BY <1>h, <2>3, <2>4, <2>7 DEF Registered, In
    <3> QED
      BY <1>k, <2>0, <2>3, <2>5, <3>1, <3>2 DEF ThreadOK, Exiting, Counted
  <2> QED
    BY <1>16, <1>h, <2>0, <2>6, <2>7
<1>17. ASSUME Inactive(t)
      PROVE  ThreadOK(t)'
  <2>1. /\ ipc[t] = "inactive" /\ mutex = t
        /\ UNCHANGED <<hashes, tail, mutex, queue, my>>
    BY <1>17, <1>k DEF Inactive, ThreadOK, Exiting
  <2>2. ipc'[t] = "next" /\ ~Registered(t)'
    BY <1>17, <1>t, <1>k, <2>1 DEF Inactive, ThreadOK, Registered, In
  <2> QED
    BY <1>k, <1>p, <2>1, <2>2 DEF ThreadOK, Exiting, Counted
<1>18. ASSUME NextListener(t)
      PROVE  ThreadOK(t)'
  <2>1. /\ ipc[t] = "next" /\ Tail(tail[t]) = <<>> /\ ~Registered(t)
        /\ UNCHANGED <<hashes, producers, queue>>
    BY <1>18, <1>k, OneListener DEF NextListener, ThreadOK, Exiting
  <2>2. /\ ipc'[t] = "none" /\ tail'[t] = <<>> /\ mutex' = None
        /\ my'[t].main = 1 /\ my'[t].producer = 0
    BY <1>18, <1>t, <2>1 DEF NextListener, FreshLocals
  <2> QED
    BY <1>n, <1>h, <1>p, <1>m, <2>1, <2>2 DEF ThreadOK, Exiting, Counted
<1> QED
  BY <1>o, <1>1, <1>2, <1>3, <1>4, <1>5, <1>6, <1>7, <1>8, <1>g, <1>9, <1>10,
     <1>11, <1>12, <1>13, <1>14, <1>15, <1>16, <1>17, <1>18 DEF Step, GetOrAdd, ThreadExit

-----------------------------------------------------------------------------
(* Who has which producer.                                                  *)

\* What HolderOK says of one thread and its producer, the others left out.
SoundHold(u, p) ==
  /\ p \in 1..Len(producers) /\ ~producers[p] /\ p \notin freed
  /\ ipc[u] \notin {"subscribe"} \cup Exiting => chain[p] = u

LEMMA HoldersKept ==
  ASSUME \A u \in Ids, p \in Nat : HolderOK(u, p),
         \A u \in Ids, p \in Nat : Holds(u, p)' => Holds(u, p) /\ SoundHold(u, p)'
  PROVE  \A u \in Ids, p \in Nat : HolderOK(u, p)'
BY DEF HolderOK, SoundHold

LEMMA HolderAdded ==
  ASSUME \A u \in Ids, p \in Nat : HolderOK(u, p), NEW t \in Ids, NEW q \in Nat,
         \A u \in Ids : ~Holds(u, q),
         \A u \in Ids, p \in Nat : Holds(u, p)' => Holds(u, p) \/ (u = t /\ p = q),
         \A u \in Ids, p \in Nat : Holds(u, p)' => SoundHold(u, p)'
  PROVE  \A u \in Ids, p \in Nat : HolderOK(u, p)'
BY DEF HolderOK, SoundHold

LEMMA HolderStep ==
  ASSUME ProducersConstantsOK, OwnerInv, Typed', NEW t \in Ids, Step(t)
  PROVE  \A u \in Ids, p \in Nat : HolderOK(u, p)'
<1> USE DEF AtPlace, Goto, Leave, notifier, destruction, tables, mainHash
<1>t. /\ Typed /\ \A u \in Ids : ThreadOK(u)
      /\ ipc \in [Ids -> Places] /\ my \in [Ids -> Fields] /\ tail \in [Ids -> Seq(Nat)]
      /\ producers \in Seq(BOOLEAN) /\ Len(producers) \in Nat /\ Len(chain) = Len(producers)
      /\ chain \in Seq(Ids \cup {None})
  BY SMTT(20) DEF OwnerInv, Typed
<1>h. \A u \in Ids, p \in Nat : HolderOK(u, p)
  BY DEF OwnerInv
<1>s. \A u \in Ids, p \in Nat : Holds(u, p) => SoundHold(u, p) /\ \A v \in Ids : Holds(v, p) => v = u
  BY <1>h DEF HolderOK, SoundHold
<1>u. \A u \in Ids : u # t => ipc'[u] = ipc[u] /\ my'[u] = my[u]
  BY <1>t, OthersUndisturbed DEF Undisturbed
<1>p. /\ Len(producers) <= Len(producers') /\ Len(producers') \in Nat
      /\ ~Recycle(t) /\ ~Inactive(t) => \A p \in 1..Len(producers) : producers'[p] = producers[p]
  BY <1>t, ProducersGrow
<1>1. CASE Start(t) \/ Lookup(t) \/ Reinsert(t) \/ CountIn(t) \/ TestResize(t) \/ Resize(t)
           \/ Unlock(t) \/ NoMemory(t) \/ GiveUp(t) \/ Room(t) \/ Insert(t) \/ Uncount(t) \/ Erase(t)
  <2>1. UNCHANGED <<producers, chain, tail, freed>>
    BY <1>1 DEF Start, Lookup, Reinsert, CountIn, TestResize, Resize, Unlock, NoMemory, GiveUp, Room,
                Insert, Uncount, Erase
  <2>2. ipc[t] # "subscribe" /\ ipc'[t] # "subscribe" /\ ipc[t] # "next"
        /\ (ipc[t] \in Exiting => ipc'[t] \in Exiting)
    BY <1>1, <1>t DEF Start, Lookup, Reinsert, CountIn, TestResize, Resize, Unlock, NoMemory, GiveUp, Room,
                Insert, Uncount, Erase, NextSlot, Exiting
  <2>3. ASSUME NEW u \in Ids, NEW p \in Nat, Holds(u, p)'
        PROVE  Holds(u, p) /\ SoundHold(u, p)'
    <3>1. Holds(u, p)
      BY <1>u, <2>1, <2>2, <2>3 DEF Holds
    <3> QED
      BY <1>s, <1>u, <2>1, <2>2, <3>1 DEF SoundHold
  <2> QED
    BY <1>h, <2>3, HoldersKept
<1>2. CASE Recycle(t)
  <2>0. /\ ipc[t] = "recycle" /\ my[t].producer # 0 /\ my[t].producer \in 1..Len(producers)
        /\ tail[t] = <<>> /\ queue = "open"
        /\ UNCHANGED <<chain, tail, freed>>
    <3>1. ipc[t] = "recycle" /\ my[t].producer # 0 /\ UNCHANGED <<chain, tail, freed>>
      BY <1>2, Zenon DEF Recycle, AtPlace, notifier, destruction
    <3>2. ThreadOK(t)
      BY <1>2, <1>t
    <3>3. my[t].producer \in 1..Len(producers) /\ tail[t] = <<>> /\ queue = "open"
      BY <3>1, <3>2, SMTT(30) DEF ThreadOK, Counted, Exiting
    <3> QED
      BY <3>1, <3>3
  <2>f. freed = {}
    BY <2>0 DEF OwnerInv, DestroyOK
  <2>1. CASE UNCHANGED <<producers, ipc>>
    <3>1. ASSUME NEW u \in Ids, NEW p \in Nat, Holds(u, p)'
          PROVE  Holds(u, p) /\ SoundHold(u, p)'
      BY <1>s, <1>u, <2>0, <2>1, <3>1 DEF Holds, SoundHold
    <3> QED
      BY <1>h, <3>1, HoldersKept
  <2>2. CASE producers[my[t].producer] /\ producers' = [producers EXCEPT ![my[t].producer] = FALSE]
             /\ ipc' = [ipc EXCEPT ![t] = "subscribe"] /\ UNCHANGED my
    <3> DEFINE q == my[t].producer
    <3>1. \A u \in Ids : ~Holds(u, q)
      BY <1>s, <2>0, <2>2 DEF SoundHold
    <3>2. ipc'[t] = "subscribe" /\ my'[t].producer = q
      BY <1>t, <2>2
    <3>3. \A u \in Ids, p \in Nat : Holds(u, p)' => Holds(u, p) \/ (u = t /\ p = q)
      BY <1>u, <2>0, <2>2, <3>2 DEF Holds
    <3>4. /\ Len(producers') = Len(producers)
          /\ ~producers'[q]
          /\ \A p \in 1..Len(producers) : p # q => producers'[p] = producers[p]
      BY <1>t, <2>0, <2>2
    <3> HIDE DEF q
    <3>5. ASSUME NEW u \in Ids, NEW p \in Nat, Holds(u, p)'
          PROVE  SoundHold(u, p)'
      <4>1. CASE u = t /\ p = q
        BY <2>0, <2>f, <3>2, <3>4, <4>1 DEF SoundHold, q
      <4>2. CASE Holds(u, p) /\ u # t
        BY <1>s, <1>u, <2>0, <3>1, <3>4, <4>2 DEF SoundHold
      <4>3. ~Holds(t, p)
        BY <2>0 DEF Holds
      <4> QED
        BY <3>3, <3>5, <4>1, <4>2, <4>3
    <3>6. q \in Nat
      BY <2>0 DEF q
    <3> QED
      BY <1>h, <3>1, <3>3, <3>5, <3>6, HolderAdded
  <2> QED
    BY <1>2, <2>1, <2>2 DEF Recycle
<1>3. CASE Create(t)
  <2>0. /\ ipc[t] = "recycle" /\ tail[t] = <<>> /\ queue = "open" /\ UNCHANGED <<tail, freed>>
    BY <1>3, <1>t DEF Create, ThreadOK, Counted, Exiting
  <2>f. freed = {}
    BY <2>0 DEF OwnerInv, DestroyOK
  <2>1. CASE UNCHANGED <<producers, chain>> /\ ipc' = [ipc EXCEPT ![t] = "idle"]
    <3>1. ASSUME NEW u \in Ids, NEW p \in Nat, Holds(u, p)'
          PROVE  Holds(u, p) /\ SoundHold(u, p)'
      <4>1. ipc'[t] = "idle"
        BY <1>t, <2>1
      <4>2. u # t
        BY <2>0, <3>1, <4>1, SingletonTail DEF Holds
      <4> QED
        BY <1>s, <1>u, <2>0, <2>1, <3>1, <4>2 DEF Holds, SoundHold
    <3> QED
      BY <1>h, <3>1, HoldersKept
  <2>2. CASE /\ producers' = Append(producers, FALSE) /\ chain' = Append(chain, None)
             /\ ipc' = [ipc EXCEPT ![t] = "subscribe"]
             /\ my' = [my EXCEPT ![t].producer = Len(producers) + 1]
    <3> DEFINE q == Len(producers) + 1
    <3>1. \A u \in Ids : ~Holds(u, q)
      BY <1>s, <1>t DEF SoundHold
    <3>2. ipc'[t] = "subscribe" /\ my'[t].producer = q
      BY <1>t, <2>2 DEF Fields
    <3>3. \A u \in Ids, p \in Nat : Holds(u, p)' => Holds(u, p) \/ (u = t /\ p = q)
      BY <1>u, <2>0, <3>2 DEF Holds
    <3>4. Len(producers') = q /\ producers'[q] = FALSE
      <4>1. /\ Len(Append(producers, FALSE)) = Len(producers) + 1
            /\ Append(producers, FALSE)[Len(producers) + 1] = FALSE
        BY <1>t, FlagsTyped
      <4> QED
        BY <2>2, <4>1, Zenon
    <3>5. \A p \in 1..Len(producers) : producers'[p] = producers[p] /\ chain'[p] = chain[p]
      BY <1>t, <1>p, <1>3, <2>0, <2>2 DEF Recycle, Inactive, Create
    <3> HIDE DEF q
    <3>6. ASSUME NEW u \in Ids, NEW p \in Nat, Holds(u, p)'
          PROVE  SoundHold(u, p)'
      <4>1. CASE u = t /\ p = q
        <5>1. q \in 1..q
          BY <1>t DEF q
        <5> QED
          BY <2>0, <2>f, <3>2, <3>4, <4>1, <5>1 DEF SoundHold
      <4>2. CASE Holds(u, p) /\ u # t
        BY <1>s, <1>u, <1>p, <2>0, <3>5, <4>2 DEF SoundHold
      <4>3. ~Holds(t, p)
        BY <2>0 DEF Holds
      <4> QED
        BY <3>3, <3>6, <4>1, <4>2, <4>3
    <3>7. q \in Nat
      BY <1>t DEF q
    <3> QED
      BY <1>h, <3>1, <3>3, <3>6, <3>7, HolderAdded
  <2> QED
    BY <1>3, <2>1, <2>2, Zenon DEF Create
<1>4. CASE Subscribe(t)
  <2> DEFINE q == my[t].producer
  <2>0. /\ ipc[t] = "subscribe" /\ tail[t] = <<>> /\ q \in 1..Len(producers)
        /\ UNCHANGED <<producers, my, freed>>
    BY <1>4, <1>t DEF Subscribe, ThreadOK, Counted
  <2>1. <<q>> \o <<>> = <<q>>
    OBVIOUS
  <2>2. ipc'[t] = "insert" /\ tail'[t] = <<q>> /\ chain'[q] = t
    BY <1>4, <1>t, <2>0, <2>1 DEF Subscribe
  <2>3. /\ \A u \in Ids : u # t => tail'[u] = tail[u]
        /\ \A p \in 1..Len(producers) : p # q => chain'[p] = chain[p]
    BY <1>4, <1>t DEF Subscribe
  <2>4. Holds(t, q)
    BY <2>0 DEF Holds
  <2> HIDE DEF q
  <2>5. \A p : <<q>> = <<p>> => p = q
    OBVIOUS
  <2>6. ASSUME NEW u \in Ids, NEW p \in Nat, Holds(u, p)'
        PROVE  Holds(u, p) /\ SoundHold(u, p)'
    <3>1. CASE u = t
      BY <1>s, <2>0, <2>2, <2>4, <2>5, <2>6, <3>1 DEF Holds, SoundHold
    <3>2. CASE u # t
      <4>1. Holds(u, p)
        BY <1>u, <2>3, <2>6, <3>2 DEF Holds
      <4>2. p # q
        BY <1>s, <2>4, <3>2, <4>1
      <4> QED
        BY <1>s, <1>u, <2>0, <2>3, <3>2, <4>1, <4>2 DEF SoundHold
    <3> QED
      BY <3>1, <3>2
  <2> QED
    BY <1>h, <2>6, HoldersKept
<1>5. CASE Exit(t)
  <2>0. ipc[t] = "idle" /\ UNCHANGED <<producers, tail, freed>>
    BY <1>5 DEF Exit
  <2>1. CASE tail[t] = <<>>
    <3>1. ipc'[t] = "none" /\ chain' = chain
      BY <1>5, <1>t, <2>1 DEF Exit
    <3>2. ASSUME NEW u \in Ids, NEW p \in Nat, Holds(u, p)'
          PROVE  Holds(u, p) /\ SoundHold(u, p)'
      <4>1. u # t
        BY <2>0, <2>1, <3>1, <3>2 DEF Holds
      <4> QED
        BY <1>s, <1>u, <2>0, <3>1, <3>2, <4>1 DEF Holds, SoundHold
    <3> QED
      BY <1>h, <3>2, HoldersKept
  <2>2. CASE tail[t] # <<>>
    <3> DEFINE q == Head(tail[t])
    <3>1. q \in 1..Len(producers) /\ tail[t] = <<q>>
      BY <1>t, <2>2, OneListener
    <3>2. ipc'[t] = "erase" /\ \A p \in 1..Len(producers) : p # q => chain'[p] = chain[p]
      BY <1>5, <1>t, <2>2 DEF Exit
    <3>3. Holds(t, q)
      BY <2>0, <3>1 DEF Holds
    <3> HIDE DEF q
    <3>4. ASSUME NEW u \in Ids, NEW p \in Nat, Holds(u, p)'
          PROVE  Holds(u, p) /\ SoundHold(u, p)'
      <4>1. Holds(u, p)
        BY <1>u, <2>0, <3>2, <3>4 DEF Holds
      <4>2. CASE u = t
        BY <1>s, <2>0, <3>2, <4>1, <4>2 DEF SoundHold, Exiting
      <4>3. CASE u # t
        BY <1>s, <1>u, <2>0, <3>2, <3>3, <4>1, <4>3 DEF SoundHold
      <4> QED
        BY <4>1, <4>2, <4>3
    <3> QED
      BY <1>h, <3>4, HoldersKept
  <2> QED
    BY <2>1, <2>2
<1>6. CASE Inactive(t)
  <2> DEFINE q == my[t].producer
  <2>0. /\ ipc[t] = "inactive" /\ tail[t] = <<q>> /\ q \in 1..Len(producers)
        /\ UNCHANGED <<chain, tail, freed>>
    BY <1>6, <1>t, OneListener DEF Inactive, ThreadOK, Exiting
  <2>1. /\ ipc'[t] = "next" /\ Len(producers') = Len(producers)
        /\ \A p \in 1..Len(producers) : p # q => producers'[p] = producers[p]
    BY <1>6, <1>t, <2>0 DEF Inactive
  <2>2. Holds(t, q)
    BY <2>0 DEF Holds
  <2> HIDE DEF q
  <2>3. ASSUME NEW u \in Ids, NEW p \in Nat, Holds(u, p)'
        PROVE  Holds(u, p) /\ SoundHold(u, p)'
    <3>1. u # t
      BY <2>1, <2>3 DEF Holds
    <3>2. Holds(u, p)
      BY <1>u, <2>0, <2>3, <3>1 DEF Holds
    <3> QED
      BY <1>s, <1>u, <2>0, <2>1, <2>2, <3>1, <3>2 DEF SoundHold
  <2> QED
    BY <1>h, <2>3, HoldersKept
<1>7. CASE NextListener(t)
  <2>0. ipc[t] = "next" /\ Tail(tail[t]) = <<>> /\ UNCHANGED <<producers, freed>>
    BY <1>7, <1>t, OneListener DEF NextListener, Exiting
  <2>1. /\ ipc'[t] = "none" /\ tail'[t] = <<>> /\ chain' = chain
        /\ \A u \in Ids : u # t => tail'[u] = tail[u]
    BY <1>7, <1>t, <2>0 DEF NextListener
  <2>2. ASSUME NEW u \in Ids, NEW p \in Nat, Holds(u, p)'
        PROVE  Holds(u, p) /\ SoundHold(u, p)'
    <3>1. u # t
      BY <2>1, <2>2, SingletonTail DEF Holds
    <3> QED
      BY <1>s, <1>u, <2>0, <2>1, <2>2, <3>1 DEF Holds, SoundHold
  <2> QED
    BY <1>h, <2>2, HoldersKept
<1> QED
  BY <1>1, <1>2, <1>3, <1>4, <1>5, <1>6, <1>7 DEF Step, GetOrAdd, ThreadExit

-----------------------------------------------------------------------------
(* The entries.                                                             *)

LEMMA EntriesKept ==
  ASSUME EntriesOK, OnlyOld,
         Len(producers) \in Nat, Len(producers') \in Nat, Len(producers) <= Len(producers'),
         queue # "open" => queue' # "open",
         \A u \in Ids : \/ tail'[u] = tail[u]
                        \/ queue' # "open" /\ tail'[u] = <<>>
                        \/ ~Registered(u)'
  PROVE  EntriesOK'
<1>1. ASSUME NEW h \in 1..Len(hashes'), NEW i \in DOMAIN hashes'[h], hashes'[h][i].key \in Ids
      PROVE  /\ h \in 1..Len(hashes) /\ i \in DOMAIN hashes[h]
             /\ hashes'[h][i].key = hashes[h][i].key /\ hashes'[h][i].value = hashes[h][i].value
             /\ EntryOK(h, i)
             /\ Registered(hashes[h][i].key)'
  BY <1>1 DEF OnlyOld, EntriesOK, Registered, In
<1>2. ASSUME NEW h \in 1..Len(hashes'), NEW i \in DOMAIN hashes'[h]
      PROVE  EntryOK(h, i)'
  <2> SUFFICES ASSUME hashes'[h][i].key \in Ids
               PROVE  EntryOK(h, i)'
    BY DEF EntryOK
  <2>1. /\ hashes'[h][i].key = hashes[h][i].key /\ hashes'[h][i].value = hashes[h][i].value
        /\ EntryOK(h, i) /\ Registered(hashes[h][i].key)'
    BY <1>1
  <2>2. /\ hashes[h][i].value \in 1..Len(producers')
        /\ \/ tail[hashes[h][i].key] = <<hashes[h][i].value>>
           \/ queue # "open" /\ tail[hashes[h][i].key] = <<>>
    BY <2>1 DEF EntryOK
  <2>3. \/ tail'[hashes[h][i].key] = tail[hashes[h][i].key]
        \/ queue' # "open" /\ tail'[hashes[h][i].key] = <<>>
    BY <2>1
  <2> QED
    BY <2>1, <2>2, <2>3 DEF EntryOK
<1>3. ASSUME NEW h \in 1..Len(hashes'), NEW k \in 1..Len(hashes'),
             NEW i \in DOMAIN hashes'[h], NEW j \in DOMAIN hashes'[k]
      PROVE  SameOwner(h, i, k, j)'
  <2> SUFFICES ASSUME hashes'[h][i].key \in Ids, hashes'[k][j].key \in Ids
               PROVE  SameOwner(h, i, k, j)'
    BY DEF SameOwner
  <2>1. h \in 1..Len(hashes) /\ i \in DOMAIN hashes[h] /\ k \in 1..Len(hashes) /\ j \in DOMAIN hashes[k]
    BY <1>1
  <2>2. SameOwner(h, i, k, j)
    BY <2>1 DEF EntriesOK
  <2> QED
    BY <1>1, <2>2 DEF SameOwner
<1> QED
  BY <1>2, <1>3 DEF EntriesOK

\* While the queue is open an entry shows who holds the producer.
LEMMA EntryHolds ==
  ASSUME OwnerInv, queue = "open",
         NEW h \in 1..Len(hashes), NEW i \in DOMAIN hashes[h], hashes[h][i].key \in Ids
  PROVE  /\ tail[hashes[h][i].key] = <<hashes[h][i].value>>
         /\ hashes[h][i].value \in 1..Len(producers)
         /\ Holds(hashes[h][i].key, hashes[h][i].value)
<1> DEFINE u == hashes[h][i].key
<1>1. tail[u] = <<hashes[h][i].value>> /\ hashes[h][i].value \in 1..Len(producers)
  BY DEF OwnerInv, EntriesOK, EntryOK
<1>2. Registered(u)
  BY DEF Registered, In
<1>3. ipc[u] # "next"
  BY <1>2 DEF OwnerInv, ThreadOK
<1> QED
  BY <1>1, <1>3 DEF Holds

\* The thread puts in the producer that it holds.
LEMMA EntryPut ==
  ASSUME ProducersConstantsOK, OwnerInv, NEW t \in Ids, Puts(t), tail[t] = <<my[t].producer>>,
         ipc[t] # "next", queue = "open", UNCHANGED <<producers, tail, queue>>
  PROVE  EntriesOK'
<1> DEFINE m == my[t].main
           s == Slot(m, my[t].index)
           p == my[t].producer
           e == [key |-> t, value |-> p]
<1>1. e.key = t /\ e.value = p
  OBVIOUS
<1>2. PutIn(m, s, e)
  BY DEF Puts
<1>3. Holds(t, p)
  BY DEF Holds
<1>4. /\ p \in 1..Len(producers)
      /\ \A u \in Ids : Holds(u, p) => u = t
  <2>1. p \in Nat
    BY DEF OwnerInv, Typed, Fields
  <2> QED
    BY <1>3, <2>1 DEF OwnerInv, HolderOK
<1> HIDE DEF e, m, s, p
<1>5. ASSUME NEW h \in 1..Len(hashes'), NEW i \in DOMAIN hashes'[h], hashes'[h][i].key \in Ids
      PROVE  \/ hashes'[h][i].key = t /\ hashes'[h][i].value = p
             \/ /\ h \in 1..Len(hashes) /\ i \in DOMAIN hashes[h]
                /\ hashes'[h][i] = hashes[h][i]
  BY <1>1, <1>2 DEF PutIn
<1>6. \A v : v = p <=> <<v>> = <<p>>
  OBVIOUS
<1>7. ASSUME NEW h \in 1..Len(hashes'), NEW i \in DOMAIN hashes'[h], hashes'[h][i].key \in Ids
      PROVE  /\ tail[hashes'[h][i].key] = <<hashes'[h][i].value>>
             /\ hashes'[h][i].value \in 1..Len(producers)
             /\ Holds(hashes'[h][i].key, hashes'[h][i].value)
  <2>t. tail[t] = <<p>>
    BY DEF p
  <2>1. CASE hashes'[h][i].key = t /\ hashes'[h][i].value = p
    BY <1>3, <1>4, <2>t, <2>1
  <2>2. CASE /\ h \in 1..Len(hashes) /\ i \in DOMAIN hashes[h]
             /\ hashes'[h][i] = hashes[h][i]
    BY <1>7, <2>2, EntryHolds
  <2> QED
    BY <1>5, <1>7, <2>1, <2>2
<1>8. ASSUME NEW h \in 1..Len(hashes'), NEW i \in DOMAIN hashes'[h]
      PROVE  EntryOK(h, i)'
  BY <1>7 DEF EntryOK
<1>9. ASSUME NEW h \in 1..Len(hashes'), NEW k \in 1..Len(hashes'),
             NEW i \in DOMAIN hashes'[h], NEW j \in DOMAIN hashes'[k]
      PROVE  SameOwner(h, i, k, j)'
  <2> SUFFICES ASSUME hashes'[h][i].key \in Ids, hashes'[k][j].key \in Ids
               PROVE  hashes'[h][i].key = hashes'[k][j].key <=> hashes'[h][i].value = hashes'[k][j].value
    BY DEF SameOwner
  <2>1. /\ Holds(hashes'[h][i].key, hashes'[h][i].value)
        /\ Holds(hashes'[k][j].key, hashes'[k][j].value)
        /\ tail[hashes'[h][i].key] = <<hashes'[h][i].value>>
        /\ tail[hashes'[k][j].key] = <<hashes'[k][j].value>>
        /\ hashes'[h][i].value \in Nat /\ hashes'[k][j].value \in Nat
    <3>1. \A v \in 1..Len(producers) : v \in Nat
      OBVIOUS
    <3>2. /\ Holds(hashes'[h][i].key, hashes'[h][i].value)
          /\ tail[hashes'[h][i].key] = <<hashes'[h][i].value>>
          /\ hashes'[h][i].value \in 1..Len(producers)
      BY <1>7
    <3>3. /\ Holds(hashes'[k][j].key, hashes'[k][j].value)
          /\ tail[hashes'[k][j].key] = <<hashes'[k][j].value>>
          /\ hashes'[k][j].value \in 1..Len(producers)
      BY <1>7
    <3> QED
      BY <3>1, <3>2, <3>3
  <2>2. \A v, w : <<v>> = <<w>> => v = w
    OBVIOUS
  <2>3. ASSUME hashes'[h][i].value = hashes'[k][j].value
        PROVE  hashes'[h][i].key = hashes'[k][j].key
    BY <2>1, <2>3 DEF OwnerInv, HolderOK
  <2> QED
    BY <2>1, <2>2, <2>3
<1> QED
  BY <1>8, <1>9 DEF EntriesOK

LEMMA EntryStep ==
  ASSUME ProducersConstantsOK, OwnerInv, Typed', NEW t \in Ids, Step(t)
  PROVE  EntriesOK'
<1> USE DEF AtPlace, Goto, Leave, notifier, destruction, tables
<1>t. Typed /\ (\A u \in Ids : ThreadOK(u)) /\ ThreadOK(t) /\ EntriesOK
      /\ tail \in [Ids -> Seq(Nat)]
  BY DEF OwnerInv, Typed
<1>p. Len(producers) \in Nat /\ Len(producers') \in Nat /\ Len(producers) <= Len(producers')
  BY <1>t, ProducersGrow
<1>q. queue' = queue
  BY DEF Step, GetOrAdd, ThreadExit, Start, Lookup, Reinsert, CountIn, TestResize, Resize, Unlock,
         NoMemory, GiveUp, Room, Recycle, Create, Subscribe, Insert, Uncount, Exit, Erase, Inactive, NextListener
<1>1. CASE Puts(t) /\ (Reinsert(t) \/ Insert(t))
  <2>1. /\ ipc[t] \in {"reinsert", "insert"} /\ UNCHANGED <<producers, tail, queue>>
    BY <1>1 DEF Reinsert, Insert
  <2> QED
    BY <1>1, <1>t, <2>1, EntryPut DEF ThreadOK, Exiting
<1>2. CASE OnlyOld
  <2>1. CASE UNCHANGED tail
    BY <1>t, <1>p, <1>q, <1>2, <2>1, EntriesKept
  <2>2. CASE Subscribe(t)
    <3>1. ipc[t] = "subscribe" /\ tail[t] = <<>> /\ queue = "open" /\ UNCHANGED hashes
      BY <2>2, <1>t DEF Subscribe, ThreadOK, Counted, Exiting
    <3>2. ~Registered(t)'
      <4>1. ~Registered(t)
        <5> SUFFICES ASSUME NEW h \in 1..Len(hashes), NEW i \in DOMAIN hashes[h], hashes[h][i].key = t
                     PROVE  FALSE
          BY DEF Registered, In
        <5>1. tail[t] = <<hashes[h][i].value>>
          BY <3>1, EntryHolds
        <5> QED
          BY <3>1, <5>1, SingletonTail
      <4> QED
        BY <3>1, <4>1 DEF Registered, In
    <3>3. \A u \in Ids : u # t => tail'[u] = tail[u]
      BY <2>2, <1>t DEF Subscribe
    <3> QED
      BY <1>t, <1>p, <1>q, <1>2, <3>2, <3>3, EntriesKept
  <2>3. CASE NextListener(t)
    <3>1. UNCHANGED hashes /\ ~Registered(t)
      BY <2>3, <1>t DEF NextListener, ThreadOK
    <3>2. ~Registered(t)'
      BY <3>1 DEF Registered, In
    <3>3. \A u \in Ids : u # t => tail'[u] = tail[u]
      BY <2>3, <1>t DEF NextListener
    <3> QED
      BY <1>t, <1>p, <1>q, <1>2, <3>2, <3>3, EntriesKept
  <2> QED
    BY <2>1, <2>2, <2>3 DEF Step, GetOrAdd, ThreadExit, Start, Lookup, Reinsert, CountIn, TestResize,
       Resize, Unlock, NoMemory, GiveUp, Room, Recycle, Create, Insert, Uncount, Exit, Erase, Inactive
<1> QED
  BY <1>1, <1>2, <1>t, StepEntries

-----------------------------------------------------------------------------
(* The count of used slots.                                                 *)

\* One element comes, goes, or neither.
LEMMA OneChanged ==
  ASSUME NEW A, NEW B, NEW t, IsFiniteSet(A), \A u : u # t => (u \in B <=> u \in A)
  PROVE  /\ Cardinality(A) \in Nat /\ Cardinality(B) \in Nat
         /\ (t \in A <=> t \in B) => Cardinality(B) = Cardinality(A)
         /\ t \in A /\ t \notin B => Cardinality(A) = Cardinality(B) + 1
         /\ t \notin A /\ t \in B => Cardinality(B) = Cardinality(A) + 1
<1>1. CASE t \in A <=> t \in B
  <2>1. A = B
    BY <1>1
  <2> QED
    BY <1>1, <2>1, FS_CardinalityType
<1>2. CASE t \in A /\ t \notin B
  <2>1. B = A \ {t}
    BY <1>2
  <2> QED
    <3>1. IsFiniteSet(B) /\ Cardinality(B) = Cardinality(A) - 1
      BY <1>2, <2>1, FS_RemoveElement
    <3> QED
      BY <1>2, <3>1, FS_CardinalityType
<1>3. CASE t \notin A /\ t \in B
  <2>1. B = A \cup {t}
    BY <1>3
  <2> QED
    BY <1>3, <2>1, FS_AddElement, FS_CardinalityType
<1> QED
  BY <1>1, <1>2, <1>3

\* A step of thread t: what it does to the count is what it does to the two sets.
LEMMA CountMoves ==
  ASSUME ProducersConstantsOK, Typed, Typed', CountInv, NEW t \in Ids,
         \A u \in Ids : u # t => ipc'[u] = ipc[u] /\ tail'[u] = tail[u] /\ my'[u] = my[u],
         my'[t].count \in 0..MaxStarts, queue' = queue,
         \/ /\ hashCount' = hashCount
            /\ t \in CountedIn' => t \in CountedIn
            /\ \/ starts' = starts /\ (t \in Unspent' => t \in Unspent)
               \/ starts' = starts + 1
         \/ /\ hashCount' = hashCount + 1 /\ starts' = starts /\ queue = "open"
            /\ t \in Unspent /\ t \notin Unspent' /\ t \notin CountedIn
         \/ /\ hashCount' = hashCount - 1 /\ starts' = starts
            /\ t \in CountedIn /\ t \notin CountedIn'
  PROVE  CountInv'
<1>1. IsFiniteSet(CountedIn) /\ IsFiniteSet(Unspent)
  BY FS_Subset DEF ProducersConstantsOK, CountedIn, Unspent
<1>2. \A u : u # t => (u \in CountedIn' <=> u \in CountedIn) /\ (u \in Unspent' <=> u \in Unspent)
  BY DEF CountedIn, Unspent
<1>3. /\ Cardinality(CountedIn) \in Nat /\ Cardinality(CountedIn') \in Nat
      /\ (t \in CountedIn <=> t \in CountedIn') => Cardinality(CountedIn') = Cardinality(CountedIn)
      /\ t \in CountedIn /\ t \notin CountedIn' => Cardinality(CountedIn) = Cardinality(CountedIn') + 1
      /\ t \notin CountedIn /\ t \in CountedIn' => Cardinality(CountedIn') = Cardinality(CountedIn) + 1
  BY <1>1, <1>2, OneChanged
<1>4. /\ Cardinality(Unspent) \in Nat /\ Cardinality(Unspent') \in Nat
      /\ (t \in Unspent <=> t \in Unspent') => Cardinality(Unspent') = Cardinality(Unspent)
      /\ t \in Unspent /\ t \notin Unspent' => Cardinality(Unspent) = Cardinality(Unspent') + 1
      /\ t \notin Unspent /\ t \in Unspent' => Cardinality(Unspent') = Cardinality(Unspent) + 1
  BY <1>1, <1>2, OneChanged
<1>5. \A u \in Ids : my'[u].count \in 0..MaxStarts
  BY DEF CountInv
<1>6. /\ hashCount \in Nat /\ hashCount' \in Nat /\ starts \in Nat /\ starts' \in Nat
      /\ starts <= MaxStarts /\ starts' <= MaxStarts /\ MaxStarts \in Nat
  BY DEF Typed, ProducersConstantsOK
<1>7. PICK c \in Nat, d \in Nat, c1 \in Nat, d1 \in Nat :
        /\ c = Cardinality(CountedIn) /\ c1 = Cardinality(CountedIn')
        /\ d = Cardinality(Unspent) /\ d1 = Cardinality(Unspent')
  BY <1>3, <1>4
<1>8. c <= hashCount /\ hashCount <= MaxStarts /\ (queue = "open" => hashCount + d <= starts)
  BY <1>7 DEF CountInv
<1>9. c1 <= hashCount' /\ hashCount' <= MaxStarts /\ (queue = "open" => hashCount' + d1 <= starts')
  BY <1>3, <1>4, <1>6, <1>7, <1>8
<1> QED
  BY <1>5, <1>7, <1>9 DEF CountInv

LEMMA CountStep ==
  ASSUME ProducersConstantsOK, OwnerInv, CountInv, Typed', NEW t \in Ids, Step(t)
  PROVE  CountInv'
<1> USE DEF AtPlace, Goto, Leave, notifier, destruction, tables
<1>t. /\ Typed /\ ThreadOK(t) /\ my[t] \in Fields
      /\ ipc \in [Ids -> Places] /\ my \in [Ids -> Fields] /\ tail \in [Ids -> Seq(Nat)]
      /\ hashCount \in Nat /\ starts \in Nat /\ MaxStarts \in Nat /\ starts <= MaxStarts
  BY SMTT(20) DEF OwnerInv, Typed, ProducersConstantsOK
<1>u. \A u \in Ids : u # t => ipc'[u] = ipc[u] /\ my'[u] = my[u] /\ tail'[u] = tail[u]
  <2>1. \A u \in Ids : u # t => ipc'[u] = ipc[u] /\ my'[u] = my[u]
    BY OthersUndisturbed DEF Undisturbed, OwnerInv
  <2>2. \A u \in Ids : u # t => tail'[u] = tail[u]
    BY <1>t DEF Step, GetOrAdd, ThreadExit, Start, Lookup, Reinsert, CountIn, TestResize, Resize,
      Unlock, NoMemory, GiveUp, Room, Recycle, Create, Subscribe, Insert, Uncount, Exit, Erase, Inactive,
      NextListener
  <2> QED
    BY <2>1, <2>2
<1>c. my[t].count \in 0..MaxStarts /\ 0 \in 0..MaxStarts
  BY <1>t DEF CountInv
<1>q. queue' = queue
  BY DEF Step, GetOrAdd, ThreadExit, Start, Lookup, Reinsert, CountIn, TestResize, Resize, Unlock,
         NoMemory, GiveUp, Room, Recycle, Create, Subscribe, Insert, Uncount, Exit, Erase, Inactive, NextListener
<1>1. ASSUME Start(t)
      PROVE  CountInv'
  <2>1. my'[t].count \in 0..MaxStarts
    BY <1>1, <1>t, <1>c DEF Start, Fields, FreshLocals
  <2>2. /\ hashCount' = hashCount /\ starts' = starts + 1
        /\ t \in CountedIn' => t \in CountedIn
    BY <1>1, <1>t DEF Start, CountedIn, Counted
  <2> QED
    BY <1>t, <1>u, <1>q, <2>1, <2>2, CountMoves
<1>2. ASSUME Lookup(t)
      PROVE  CountInv'
  <2>1. my'[t].count \in 0..MaxStarts
    <3> DEFINE local == [FreshLocals EXCEPT !.main = mainHash, !.index = Hash]
    <3>1. CASE UNCHANGED my
      BY <1>c, <3>1
    <3>2. ASSUME NEW r, r.count = 0, my' = [my EXCEPT ![t] = r]
          PROVE  my'[t].count \in 0..MaxStarts
      BY <1>c, <1>t, <3>2
    <3>3. local.count = 0 /\ \A p : [local EXCEPT !.producer = p].count = 0
      BY DEF FreshLocals
    <3>4. \/ UNCHANGED my
          \/ my' = [my EXCEPT ![t] = local]
          \/ \E p : my' = [my EXCEPT ![t] = [local EXCEPT !.producer = p]]
      BY <1>2, Zenon DEF Lookup
    <3> HIDE DEF local
    <3> QED
      BY <3>1, <3>2, <3>3, <3>4
  <2>2. /\ hashCount' = hashCount /\ starts' = starts
        /\ t \in CountedIn' => t \in CountedIn
        /\ t \in Unspent' => t \in Unspent
    BY <1>2, <1>t DEF Lookup, CountedIn, Counted, Unspent, ThreadOK
  <2> QED
    BY <1>t, <1>u, <1>q, <2>1, <2>2, CountMoves
<1>3. ASSUME Reinsert(t)
      PROVE  CountInv'
  <2>1. my'[t].count \in 0..MaxStarts
    <3>1. CASE NextSlot(t)
      BY <1>t, <1>c, <3>1 DEF NextSlot, Fields
    <3>2. CASE Leave(t)
      BY <1>t, <1>c, <3>2 DEF FreshLocals
    <3> QED
      BY <1>3, <3>1, <3>2 DEF Reinsert
  <2>2. /\ hashCount' = hashCount /\ starts' = starts
        /\ t \in CountedIn' => t \in CountedIn
        /\ t \in Unspent' => t \in Unspent
    <3>1. /\ hashCount' = hashCount /\ starts' = starts /\ ipc[t] = "reinsert"
          /\ tail' = tail /\ tail[t] # <<>>
      BY <1>3, <1>t, OneListener DEF Reinsert
    <3>2. ipc'[t] \in {"reinsert", "idle"}
      BY <1>3, <1>t DEF Reinsert, NextSlot
    <3> QED
      BY <3>1, <3>2 DEF CountedIn, Counted, Unspent
  <2> QED
    BY <1>t, <1>u, <1>q, <2>1, <2>2, CountMoves
<1>4. ASSUME CountIn(t)
      PROVE  CountInv'
  <2>1. /\ ipc[t] = "count" /\ tail[t] = <<>> /\ queue = "open" /\ ipc'[t] = "test"
        /\ hashCount' = hashCount + 1 /\ my'[t].count = hashCount + 1 /\ starts' = starts
    BY <1>4, <1>t DEF CountIn, ThreadOK, Fields, Exiting
  <2>2. t \in Unspent /\ t \notin Unspent' /\ t \notin CountedIn
    BY <2>1 DEF Unspent, CountedIn, Counted
  <2>3. hashCount + 1 <= MaxStarts
    <3>1. IsFiniteSet(Unspent)
      BY FS_Subset DEF ProducersConstantsOK, Unspent
    <3>2. Cardinality(Unspent) \in Nat /\ Cardinality(Unspent) # 0
      BY <2>2, <3>1, FS_CardinalityType, FS_EmptySet
    <3> QED
      BY <1>t, <2>1, <3>2 DEF CountInv
  <2>4. my'[t].count \in 0..MaxStarts
    BY <1>t, <2>1, <2>3
  <2> QED
    BY <1>t, <1>u, <1>q, <2>1, <2>2, <2>4, CountMoves
<1>5. ASSUME TestResize(t)
      PROVE  CountInv'
  <2>1. my'[t].count \in 0..MaxStarts
    BY <1>5, <1>t, <1>c DEF TestResize, Fields, FreshLocals
  <2>2. /\ hashCount' = hashCount /\ starts' = starts
        /\ t \in CountedIn' => t \in CountedIn
        /\ t \in Unspent' => t \in Unspent
    BY <1>5, <1>t DEF TestResize, CountedIn, Counted, Unspent, ThreadOK
  <2> QED
    BY <1>t, <1>u, <1>q, <2>1, <2>2, CountMoves
<1>6. ASSUME Resize(t)
      PROVE  CountInv'
  <2>1. my'[t].count \in 0..MaxStarts
    BY <1>6, <1>t, <1>c DEF Resize, Fields, FreshLocals
  <2>2. /\ hashCount' = hashCount /\ starts' = starts
        /\ t \in CountedIn' => t \in CountedIn
        /\ t \in Unspent' => t \in Unspent
    BY <1>6, <1>t DEF Resize, CountedIn, Counted, Unspent, ThreadOK
  <2> QED
    BY <1>t, <1>u, <1>q, <2>1, <2>2, CountMoves
<1>7. ASSUME Unlock(t)
      PROVE  CountInv'
  <2>1. my'[t].count \in 0..MaxStarts
    BY <1>7, <1>t, <1>c DEF Unlock, Fields, FreshLocals
  <2>2. /\ hashCount' = hashCount /\ starts' = starts
        /\ t \in CountedIn' => t \in CountedIn
        /\ t \in Unspent' => t \in Unspent
    BY <1>7, <1>t DEF Unlock, CountedIn, Counted, Unspent, ThreadOK
  <2> QED
    BY <1>t, <1>u, <1>q, <2>1, <2>2, CountMoves
<1>8. ASSUME NoMemory(t)
      PROVE  CountInv'
  <2>1. my'[t].count \in 0..MaxStarts
    BY <1>8, <1>t, <1>c DEF NoMemory, Fields, FreshLocals
  <2>2. /\ hashCount' = hashCount - 1 /\ starts' = starts
        /\ t \in CountedIn /\ t \notin CountedIn'
    BY <1>8, <1>t DEF NoMemory, CountedIn, Counted
  <2> QED
    BY <1>t, <1>u, <1>q, <2>1, <2>2, CountMoves
<1>g. ASSUME GiveUp(t)
      PROVE  CountInv'
  <2>1. my'[t].count \in 0..MaxStarts
    BY <1>g, <1>t, <1>c DEF GiveUp, Fields, FreshLocals
  <2>2. /\ hashCount' = hashCount /\ starts' = starts
        /\ t \in CountedIn' => t \in CountedIn
        /\ t \in Unspent' => t \in Unspent
    BY <1>g, <1>t DEF GiveUp, CountedIn, Counted, Unspent, ThreadOK
  <2> QED
    BY <1>t, <1>u, <1>q, <2>1, <2>2, CountMoves
<1>9. ASSUME Room(t)
      PROVE  CountInv'
  <2>1. my'[t].count \in 0..MaxStarts
    <3>1. CASE my' = [my EXCEPT ![t].producer = Len(producers), ![t].count = 0]
      BY <1>t, <1>c, <3>1 DEF Fields
    <3>2. CASE my' = [my EXCEPT ![t].main = mainHash]
      BY <1>t, <1>c, <3>2 DEF Fields
    <3> QED
      BY <1>9, <3>1, <3>2 DEF Room
  <2>2. /\ hashCount' = hashCount /\ starts' = starts
        /\ t \in CountedIn' => t \in CountedIn
        /\ t \in Unspent' => t \in Unspent
    BY <1>9, <1>t DEF Room, CountedIn, Counted, Unspent, ThreadOK
  <2> QED
    BY <1>t, <1>u, <1>q, <2>1, <2>2, CountMoves
<1>10. ASSUME Recycle(t)
      PROVE  CountInv'
  <2>1. my'[t].count \in 0..MaxStarts
    BY <1>10, <1>t, <1>c DEF Recycle, Fields, FreshLocals
  <2>2. /\ hashCount' = hashCount /\ starts' = starts
        /\ t \in CountedIn' => t \in CountedIn
        /\ t \in Unspent' => t \in Unspent
    BY <1>10, <1>t DEF Recycle, CountedIn, Counted, Unspent, ThreadOK
  <2> QED
    BY <1>t, <1>u, <1>q, <2>1, <2>2, CountMoves
<1>11. ASSUME Create(t)
      PROVE  CountInv'
  <2>1. my'[t].count \in 0..MaxStarts
    <3>1. CASE my' = [my EXCEPT ![t].producer = Len(producers) + 1]
      BY <1>t, <1>c, <3>1 DEF Fields
    <3>2. CASE Leave(t)
      BY <1>t, <1>c, <3>2 DEF FreshLocals
    <3> QED
      BY <1>11, <3>1, <3>2 DEF Create
  <2>2. /\ starts' = starts /\ t \in CountedIn
        /\ \/ hashCount' = hashCount - 1 /\ t \notin CountedIn'
           \/ hashCount' = hashCount /\ t \notin Unspent'
    BY <1>11, <1>t, Zenon DEF Create, CountedIn, Counted, Unspent
  <2> QED
    BY <1>t, <1>u, <1>q, <2>1, <2>2, CountMoves
<1>12. ASSUME Subscribe(t)
      PROVE  CountInv'
  <2>1. my'[t].count \in 0..MaxStarts
    BY <1>12, <1>t, <1>c DEF Subscribe, Fields, FreshLocals
  <2>2. /\ hashCount' = hashCount /\ starts' = starts
        /\ t \in CountedIn' => t \in CountedIn
        /\ t \in Unspent' => t \in Unspent
    BY <1>12, <1>t DEF Subscribe, CountedIn, Counted, Unspent, ThreadOK
  <2> QED
    BY <1>t, <1>u, <1>q, <2>1, <2>2, CountMoves
<1>13. ASSUME Insert(t)
      PROVE  CountInv'
  <2>1. my'[t].count \in 0..MaxStarts
    BY <1>13, <1>t, <1>c DEF Insert, NextSlot, Fields, FreshLocals
  <2>2. /\ hashCount' = hashCount /\ starts' = starts
        /\ t \in CountedIn' => t \in CountedIn
        /\ t \in Unspent' => t \in Unspent
    <3>1. /\ hashCount' = hashCount /\ starts' = starts /\ ipc[t] = "insert"
          /\ tail' = tail /\ tail[t] # <<>>
      BY <1>13, <1>t, OneListener DEF Insert
    <3> QED
      BY <3>1 DEF CountedIn, Counted, Unspent
  <2> QED
    BY <1>t, <1>u, <1>q, <2>1, <2>2, CountMoves
<1>14. ASSUME Uncount(t)
      PROVE  CountInv'
  <2>1. my'[t].count \in 0..MaxStarts
    BY <1>14, <1>t, <1>c DEF Uncount, Fields, FreshLocals
  <2>2. /\ hashCount' = hashCount - 1 /\ starts' = starts
        /\ t \in CountedIn /\ t \notin CountedIn'
    BY <1>14, <1>t DEF Uncount, CountedIn, Counted
  <2> QED
    BY <1>t, <1>u, <1>q, <2>1, <2>2, CountMoves
<1>15. ASSUME Exit(t)
      PROVE  CountInv'
  <2>1. my'[t].count \in 0..MaxStarts
    <3>1. CASE UNCHANGED my
      BY <1>c, <3>1
    <3>2. CASE my' = [my EXCEPT ![t].producer = Head(tail[t]), ![t].main = mainHash]
      BY <1>t, <1>c, <3>2 DEF Fields
    <3> QED
      BY <1>15, <3>1, <3>2 DEF Exit
  <2>2. /\ hashCount' = hashCount /\ starts' = starts
        /\ t \in CountedIn' => t \in CountedIn
        /\ t \in Unspent' => t \in Unspent
    BY <1>15, <1>t DEF Exit, CountedIn, Counted, Unspent, ThreadOK
  <2> QED
    BY <1>t, <1>u, <1>q, <2>1, <2>2, CountMoves
<1>16. ASSUME Erase(t)
      PROVE  CountInv'
  <2>1. my'[t].count \in 0..MaxStarts
    BY <1>16, <1>t, <1>c DEF Erase, Fields, FreshLocals
  <2>2. /\ hashCount' = hashCount /\ starts' = starts
        /\ t \in CountedIn' => t \in CountedIn
        /\ t \in Unspent' => t \in Unspent
    BY <1>16, <1>t DEF Erase, CountedIn, Counted, Unspent, ThreadOK
  <2> QED
    BY <1>t, <1>u, <1>q, <2>1, <2>2, CountMoves
<1>17. ASSUME Inactive(t)
      PROVE  CountInv'
  <2>1. my'[t].count \in 0..MaxStarts
    BY <1>17, <1>t, <1>c DEF Inactive, Fields, FreshLocals
  <2>2. /\ hashCount' = hashCount /\ starts' = starts
        /\ t \in CountedIn' => t \in CountedIn
        /\ t \in Unspent' => t \in Unspent
    BY <1>17, <1>t DEF Inactive, CountedIn, Counted, Unspent, ThreadOK
  <2> QED
    BY <1>t, <1>u, <1>q, <2>1, <2>2, CountMoves
<1>18. ASSUME NextListener(t)
      PROVE  CountInv'
  <2>1. my'[t].count \in 0..MaxStarts
    BY <1>18, <1>t, <1>c, SMTT(20) DEF NextListener, Fields, FreshLocals
  <2>2. /\ hashCount' = hashCount /\ starts' = starts
        /\ t \in CountedIn' => t \in CountedIn
        /\ t \in Unspent' => t \in Unspent
    BY <1>18, <1>t DEF NextListener, CountedIn, Counted, Unspent, ThreadOK
  <2> QED
    BY <1>t, <1>u, <1>q, <2>1, <2>2, CountMoves
<1> QED
  BY <1>1, <1>2, <1>3, <1>4, <1>5, <1>6, <1>7, <1>8, <1>g, <1>9, <1>10,
     <1>11, <1>12, <1>13, <1>14, <1>15, <1>16, <1>17, <1>18 DEF Step, GetOrAdd, ThreadExit

-----------------------------------------------------------------------------
(* The destruction of the queue.                                            *)

LEMMA DestroyStep ==
  ASSUME ProducersConstantsOK, OwnerInv, CountInv, Typed', Destroy
  PROVE  OwnerInv' /\ CountInv'
<1> USE DEF notifier, destruction, tables
<1>t. /\ Typed /\ (\A u \in Ids : ThreadOK(u)) /\ EntriesOK /\ DestroyOK
      /\ Len(hashes) \in Nat /\ Len(producers) \in Nat /\ Len(chain) = Len(producers)
      /\ victim \in 0..Len(producers)
  BY SMTT(20) DEF OwnerInv, Typed
<1>h. \A u \in Ids, p \in Nat : HolderOK(u, p)
  BY DEF OwnerInv
<1>s. \A u \in Ids, p \in Nat : Holds(u, p) => SoundHold(u, p)
  BY <1>h DEF HolderOK, SoundHold
<1>n. None \notin Ids
  BY DEF ProducersConstantsOK
<1>f. UNCHANGED <<tables, producers, mutex, starts, ipc, my>>
  BY DEF Destroy, Close, Unsubscribe, FreeInactive, FreeTables
<1>q. /\ queue' # "open" /\ queue \in {"open", "producers"}
      /\ \A u \in Ids : ipc[u] \in {"none", "idle"} \cup Exiting
  BY <1>t DEF Destroy, Close, Unsubscribe, FreeInactive, FreeTables, ThreadOK, Exiting
<1>l. \A u \in Ids : tail'[u] = tail[u] \/ (tail'[u] = <<>> /\ ipc[u] \notin Exiting)
  <2>1. CASE Unsubscribe
    <3>1. \A u \in Ids : tail'[u] = tail[u] \/ tail'[u] = <<>>
      BY <1>t, <2>1, UnsubscribeEffect
    <3>2. \A u \in Ids : ipc[u] \notin Exiting
      BY <1>t, <1>n, <2>1 DEF Unsubscribe, ThreadOK
    <3> QED
      BY <3>1, <3>2
  <2>2. CASE UNCHANGED tail
    BY <2>2
  <2> QED
    BY <2>1, <2>2 DEF Destroy, Close, FreeInactive, FreeTables
<1>e. OnlyOld /\ \A u \in Ids : Keeps(u) /\ NoNew(u)
  BY <1>f, SameTables
<1>1. ASSUME NEW u \in Ids
      PROVE  ThreadOK(u)'
  <2>1. Undisturbed(u)
    BY <1>f, <1>l, <1>q DEF Undisturbed
  <2> QED
    BY <1>t, <1>f, <1>e, <2>1, ThreadKept
<1>2. EntriesOK'
  BY <1>t, <1>f, <1>e, <1>l, <1>q, EntriesKept
<1>3. CountInv'
  <2>1. CountedIn' = CountedIn
    BY <1>f DEF CountedIn
  <2> QED
    BY <1>f, <1>q, <2>1 DEF CountInv
<1>4. DestroyOK'
  <2>1. CASE Close
    <3>1. freed' = {} /\ victim' = Len(producers) /\ queue' = "producers"
      BY <1>t, <2>1 DEF Close, DestroyOK
    <3>2. (Len(producers) + 1)..Len(producers) = {}
      BY <1>t
    <3> QED
      BY <1>f, <3>1, <3>2 DEF DestroyOK
  <2>2. CASE Unsubscribe \/ FreeInactive
    <3>1. /\ freed' = freed \cup {victim} /\ victim' = victim - 1 /\ queue' = "producers"
          /\ victim # 0 /\ freed = (victim + 1)..Len(producers)
      BY <1>t, <2>2 DEF Unsubscribe, FreeInactive, DestroyOK
    <3>2. freed' = (victim' + 1)..Len(producers)
      BY <1>t, <3>1
    <3> QED
      BY <1>f, <3>1, <3>2 DEF DestroyOK
  <2>3. CASE FreeTables
    BY <1>t, <2>3 DEF FreeTables, DestroyOK
  <2> QED
    BY <2>1, <2>2, <2>3 DEF Destroy
<1>5. ASSUME NEW u \in Ids, NEW p \in Nat, Holds(u, p)'
      PROVE  Holds(u, p) /\ SoundHold(u, p)'
  <2>1. tail'[u] = tail[u] /\ tail[u] = <<p>> /\ ipc[u] # "next"
    BY <1>f, <1>l, <1>q, <1>5, SingletonTail DEF Holds, Exiting
  <2>2. Holds(u, p)
    BY <2>1 DEF Holds
  <2>3. CASE Close \/ FreeTables
    <3>1. UNCHANGED <<chain, freed>>
      BY <2>3 DEF Close, FreeTables
    <3> QED
      BY <1>s, <1>f, <2>2, <3>1 DEF SoundHold
  <2>4. CASE FreeInactive
    <3>1. p # victim /\ freed' = freed \cup {victim} /\ chain' = chain
      BY <1>s, <2>2, <2>4 DEF FreeInactive, SoundHold
    <3> QED
      BY <1>s, <1>f, <2>2, <3>1 DEF SoundHold
  <2>5. CASE Unsubscribe
    <3>1. ipc[u] \notin {"subscribe"} \cup Exiting
      BY <1>t, <1>n, <1>q, <2>5 DEF Unsubscribe, ThreadOK, Exiting
    <3>2. chain[p] = u
      BY <1>s, <2>2, <3>1 DEF SoundHold
    <3>3. tail[u] = <<victim>> => chain[victim] # u
      BY <1>t, <2>1, <2>5, UnsubscribeEffect, SingletonTail
    <3>4. p # victim
      BY <2>1, <3>2, <3>3
    <3>5. chain'[p] = chain[p] /\ freed' = freed \cup {victim}
      BY <1>t, <1>s, <2>2, <2>5, <3>4, UnsubscribeEffect DEF SoundHold, Unsubscribe
    <3> QED
      BY <1>s, <1>f, <2>2, <3>4, <3>5 DEF SoundHold
  <2> QED
    BY <2>3, <2>4, <2>5, <2>2 DEF Destroy
<1>6. \A u \in Ids, p \in Nat : HolderOK(u, p)'
  BY <1>h, <1>5, HoldersKept
<1> QED
  BY <1>1, <1>2, <1>3, <1>4, <1>6 DEF OwnerInv

-----------------------------------------------------------------------------
(* The invariant holds in every state.                                      *)

LEMMA InvInit ==
  ASSUME ProducersConstantsOK, ProducersInit
  PROVE  OwnerInv /\ CountInv
<1> USE DEF ProducersConstantsOK, ProducersInit
<1>1. hashes = <<NewTable(InitialCapacity)>> /\ NewTable(InitialCapacity) \in Tables
  BY NewTableTyped
<1>2. hashes \in Seq(Tables) /\ Len(hashes) = 1 /\ hashes[1] = NewTable(InitialCapacity)
      /\ hashes # <<>>
  BY <1>1
<1>3. \A h \in 1..Len(hashes) : \A i \in DOMAIN hashes[h] : hashes[h][i].key = Empty
  BY <1>2 DEF NewTable
<1>4. Typed
  <2>1. FreshLocals \in Fields
    BY DEF FreshLocals, Fields
  <2>2. <<>> \in Seq(BOOLEAN) /\ <<>> \in Seq(Ids \cup {None}) /\ <<>> \in Seq(Nat)
        /\ Len(<<>>) = 0 /\ 0 \in 0..0 /\ 0 \in 0..MaxStarts
    OBVIOUS
  <2>3. /\ tail \in [Ids -> Seq(Nat)] /\ ipc \in [Ids -> Places] /\ my \in [Ids -> Fields]
    BY <2>1, <2>2 DEF Places
  <2>4. producers \in Seq(BOOLEAN) /\ chain \in Seq(Ids \cup {None}) /\ Len(chain) = Len(producers)
        /\ victim \in 0..Len(producers) /\ starts \in 0..MaxStarts
    BY <2>2
  <2>5. hashCount \in Nat /\ resizing \in BOOLEAN /\ mutex \in Ids \cup {None}
        /\ queue \in {"open", "producers", "gone"}
    OBVIOUS
  <2> QED
    BY <1>2, <2>3, <2>4, <2>5, Zenon DEF Typed
<1>5. ASSUME NEW t \in Ids
      PROVE  ThreadOK(t)
  BY <1>2, <1>5 DEF ThreadOK, FreshLocals, Exiting, Counted
<1>6. ASSUME NEW t \in Ids, NEW p \in Nat
      PROVE  HolderOK(t, p)
  <2>1. ipc[t] = "none" /\ tail[t] = <<>>
    BY <1>6
  <2> QED
    BY <2>1, SingletonTail DEF HolderOK, Holds
<1>7. EntriesOK
  BY <1>3 DEF EntriesOK, EntryOK, SameOwner
<1>8. DestroyOK
  BY DEF DestroyOK
<1>9. CountInv
  <2>1. CountedIn = {} /\ Unspent = {}
    BY DEF CountedIn, Counted, Unspent
  <2> QED
    BY <2>1, FS_EmptySet DEF CountInv, FreshLocals
<1> QED
  BY <1>4, <1>5, <1>6, <1>7, <1>8, <1>9 DEF OwnerInv

LEMMA InvNext ==
  ASSUME ProducersConstantsOK, OwnerInv, CountInv, [ProducersNext]_ownerVars
  PROVE  OwnerInv' /\ CountInv'
<1>t. Typed'
  BY TypedStep
<1>1. ASSUME NEW t \in Ids, Step(t)
      PROVE  OwnerInv' /\ CountInv'
  <2>1. (\A u \in Ids : ThreadOK(u))'
    BY <1>t, <1>1, ThreadStep
  <2>2. (\A u \in Ids, p \in Nat : HolderOK(u, p))'
    BY <1>t, <1>1, HolderStep
  <2>3. EntriesOK'
    BY <1>t, <1>1, EntryStep
  <2>4. DestroyOK'
    <3>1. queue' = queue /\ victim' = victim /\ freed' = freed
      BY <1>1 DEF Step, GetOrAdd, ThreadExit, Start, Lookup, Reinsert, CountIn, TestResize, Resize,
        Unlock, NoMemory, GiveUp, Room, Recycle, Create, Subscribe, Insert, Uncount, Exit, Erase, Inactive,
        NextListener, destruction
    <3>2. queue # "open" => Len(producers') = Len(producers)
      <4>1. ASSUME Create(t) \/ Recycle(t)
            PROVE  queue = "open"
        BY <4>1 DEF OwnerInv, ThreadOK, Create, Recycle, AtPlace, Exiting
      <4>2. CASE Inactive(t)
        <5>1. producers \in Seq(BOOLEAN)
          BY DEF OwnerInv, Typed
        <5> QED
          BY <4>2, <5>1 DEF Inactive
      <4> QED
        BY <1>1, <4>1, <4>2 DEF Step, GetOrAdd, ThreadExit, Start, Lookup, Reinsert, CountIn,
          TestResize, Resize, Unlock, NoMemory, GiveUp, Room, Subscribe, Insert, Uncount, Exit, Erase, NextListener
    <3>3. DestroyOK
      BY DEF OwnerInv
    <3> QED
      BY <3>1, <3>2, <3>3 DEF DestroyOK
  <2>5. CountInv'
    BY <1>t, <1>1, CountStep
  <2> QED
    BY <1>t, <2>1, <2>2, <2>3, <2>4, <2>5 DEF OwnerInv
<1>2. CASE Destroy
  BY <1>t, <1>2, DestroyStep
<1>3. CASE UNCHANGED ownerVars
  <2> USE <1>3 DEF ownerVars, tables, notifier, destruction
  <2>1. \A u \in Ids : ThreadOK(u)'
    BY DEF OwnerInv, ThreadOK, Registered, In
  <2>2. \A u \in Ids, p \in Nat : HolderOK(u, p)'
    BY DEF OwnerInv, HolderOK, Holds
  <2>3. EntriesOK' /\ DestroyOK'
    BY DEF OwnerInv, EntriesOK, EntryOK, SameOwner, DestroyOK
  <2>4. CountInv'
    BY DEF CountInv, CountedIn, Unspent
  <2> QED
    BY <1>t, <2>1, <2>2, <2>3, <2>4 DEF OwnerInv
<1> QED
  BY <1>1, <1>2, <1>3 DEF ProducersNext, Step

\* The values of reusable slots, which no thread owns, stay in range too.
LEMMA ValuesStep ==
  ASSUME ProducersConstantsOK, OwnerInv, ValuesOK, [ProducersNext]_ownerVars
  PROVE  ValuesOK'
<1>t. Typed /\ (\A u \in Ids : ThreadOK(u)) /\ Len(producers) \in Nat
  BY DEF OwnerInv, Typed
<1>1. CASE UNCHANGED <<hashes, producers>>
  BY <1>1 DEF ValuesOK
<1>2. ASSUME NEW t \in Ids, Step(t)
      PROVE  ValuesOK'
  <2>1. Len(producers') \in Nat /\ Len(producers) <= Len(producers')
    BY <1>t, <1>2, ProducersGrow
  <2>2. \A v \in 0..Len(producers) : v \in 0..Len(producers')
    BY <1>t, <2>1
  <2>3. my[t].producer \in 0..Len(producers)
    BY <1>t DEF ThreadOK
  <2>4. CASE UNCHANGED hashes
    BY <2>2, <2>4 DEF ValuesOK
  <2>5. CASE Puts(t)
    BY <2>2, <2>3, <2>5 DEF ValuesOK, Puts, PutIn
  <2>6. CASE Added
    <3>1. 0 \in 0..Len(producers') /\ Len(hashes) \in Nat
      BY <1>t, <2>1 DEF Typed
    <3> QED
      BY <2>2, <2>6, <3>1 DEF ValuesOK, Added
  <2>7. CASE Erased(my[t].main, t)
    BY <2>2, <2>7 DEF ValuesOK, Erased
  <2> QED
    BY <1>t, <1>2, <2>4, <2>5, <2>6, <2>7, StepTables
<1>3. CASE Destroy
  BY <1>1, <1>3 DEF Destroy, Close, Unsubscribe, FreeInactive, FreeTables, tables
<1> QED
  BY <1>1, <1>2, <1>3 DEF ProducersNext, Step, ownerVars, tables

IInv == ProducersConstantsOK /\ OwnerInv /\ CountInv /\ ValuesOK

LEMMA IInvCorrect == ProducersSpec => []IInv
<1>1. ProducersInit => IInv
  <2> SUFFICES ASSUME ProducersInit PROVE ValuesOK
    BY ProducersAssumption, InvInit DEF IInv
  <2>1. hashes = <<NewTable(InitialCapacity)>> /\ producers = <<>>
    BY DEF ProducersInit
  <2>2. Len(hashes) = 1 /\ hashes[1] = NewTable(InitialCapacity) /\ Len(producers) = 0
    BY <2>1
  <2> SUFFICES ASSUME NEW h \in 1..Len(hashes), NEW i \in DOMAIN hashes[h]
               PROVE  hashes[h][i].value \in 0..Len(producers)
    BY DEF ValuesOK
  <2>3. h = 1 /\ i \in DOMAIN NewTable(InitialCapacity)
    BY <2>2
  <2>4. i \in 0..(InitialCapacity - 1)
    BY <2>3 DEF NewTable
  <2>5. hashes[h][i].value = 0
    BY <2>2, <2>3, <2>4 DEF NewTable
  <2> QED
    BY <2>2, <2>5
<1>2. IInv /\ [ProducersNext]_ownerVars => IInv'
  BY InvNext, ValuesStep DEF IInv, ProducersConstantsOK
<1> QED
  BY <1>1, <1>2, PTL DEF ProducersSpec

-----------------------------------------------------------------------------
(* The slots that are used.                                                 *)

UsedIn(h) == {i \in DOMAIN hashes[h] : hashes[h][i].key # Empty}
Used(h) == Cardinality(UsedIn(h))

\* Room asks for a count below this.
Limit(h) == Capacity(h) \div 2 + Capacity(h) \div 4

\* Threads that are counted and may come to take a slot of table h or of an older
\* one, if a count below c lets them.
Admitted(h, c) ==
  {t \in Ids :
     /\ ipc[t] \in Counted \ {"uncount"} /\ my[t].main <= h
     /\ ipc[t] \in {"recycle", "subscribe", "insert"} \/ my[t].count < c}

\* The threads with an entry in table h or in an older one; those of the latter may
\* take a slot of table h without being counted again.
Entered(h) == {t \in Ids : \E k \in 1..h : \E i \in DOMAIN hashes[k] : In(k, i, t)}
HasEntry(h) == {t \in Ids : \E i \in DOMAIN hashes[h] : In(h, i, t)}

\* Below n, or zero: a table of two slots has a limit of one, of one slot zero.
Within(k, n) == k = 0 \/ k < n

\* A slot used in the first table, and a thread on its way to one, is counted once;
\* the slots used and the threads let in are within the limit.
FirstTableInv ==
  /\ Used(1) + Cardinality(CountedIn) <= hashCount
  /\ Within(Used(1) + Cardinality(Admitted(1, Limit(1))), Limit(1))

Living == {t \in Ids : ipc[t] # "none"}
Seated == {t \in Ids : tail[t] # <<>>}

\* Where a thread puts itself in, its id is not there yet.
PlaceOK(t) ==
  /\ ipc[t] = "reinsert" =>
       /\ \A i \in DOMAIN hashes[my[t].main] : ~In(my[t].main, i, t)
       /\ \E k \in 1..(my[t].main - 1) : \E i \in DOMAIN hashes[k] : In(k, i, t)
  /\ ipc[t] = "insert" => ~Registered(t)

LivesInv ==
  /\ Cardinality(Living) <= starts
  /\ \A t \in Ids : PlaceOK(t)
  /\ \A h \in 1..Len(hashes) : \A k \in 1..h : Capacity(k) <= Capacity(h)

\* No slot is there to be reused, every thread has at most one slot of a table, and
\* the threads that may have one are fewer than the count that lets them in.
NoReuse ==
  /\ \A h \in 1..Len(hashes) : \A i \in DOMAIN hashes[h] : hashes[h][i].key # Reusable
  /\ \A t \in Ids : ipc[t] # "uncount"
Bounded(h, c) == Within(Cardinality(Entered(h) \cup Admitted(h, c)), c)
LaterTablesInv ==
  /\ NoReuse
  /\ queue = "open" => Cardinality(Seated \cup CountedIn) <= hashCount
  /\ \A h \in 1..Len(hashes) : Used(h) <= Cardinality(HasEntry(h))
  /\ \A h \in 1..Len(hashes) : \A c \in Nat : Limit(h) <= c => Bounded(h, c)

TableInv == FirstTableInv /\ LivesInv /\ (NoneExited => LaterTablesInv)

\* The limit grows with the table; a number within it is less than three quarters.
LEMMA LimitGrows ==
  ASSUME NEW a \in Nat, NEW b \in Nat
  PROVE  /\ a \div 2 + a \div 4 \in Nat
         /\ a <= b => a \div 2 + a \div 4 <= b \div 2 + b \div 4
         /\ \A k \in Nat : a # 0 /\ Within(k, a \div 2 + a \div 4) => 4 * k < 3 * a
<1>1. /\ a \div 2 \in Nat /\ 2 * (a \div 2) <= a /\ a < 2 * (a \div 2) + 2
      /\ a \div 4 \in Nat /\ 4 * (a \div 4) <= a /\ a < 4 * (a \div 4) + 4
  OBVIOUS
<1>2. /\ b \div 2 \in Nat /\ 2 * (b \div 2) <= b /\ b < 2 * (b \div 2) + 2
      /\ b \div 4 \in Nat /\ 4 * (b \div 4) <= b /\ b < 4 * (b \div 4) + 4
  OBVIOUS
<1> DEFINE p == a \div 2
           q == a \div 4
           r == b \div 2
           s == b \div 4
<1> HIDE DEF p, q, r, s
<1>3. ASSUME a <= b
      PROVE  p <= r /\ q <= s
  BY <1>1, <1>2, <1>3 DEF p, q, r, s
<1>4. ASSUME NEW k \in Nat, a # 0, Within(k, p + q)
      PROVE  4 * k < 3 * a
  BY <1>1, <1>4 DEF p, q, Within
<1> QED
  BY <1>1, <1>2, <1>3, <1>4 DEF p, q, r, s

\* Every table has a slot, and its sets of slots and of threads are finite.
LEMMA TableSets ==
  ASSUME ProducersConstantsOK, Typed, NEW h \in 1..Len(hashes)
  PROVE  /\ Capacity(h) \in Nat \ {0} /\ Limit(h) \in Nat
         /\ IsFiniteSet(UsedIn(h)) /\ Used(h) \in Nat
<1>1. hashes[h] \in Tables
  BY DEF Typed
<1>2. PICK n \in Nat \ {0} : DOMAIN hashes[h] = 0..(n - 1) /\ Cardinality(DOMAIN hashes[h]) = n
  BY <1>1, TableShape
<1>3. UsedIn(h) \subseteq 0..(n - 1) /\ IsFiniteSet(0..(n - 1))
  BY <1>2, FS_Interval DEF UsedIn
<1>4. IsFiniteSet(UsedIn(h)) /\ Cardinality(UsedIn(h)) \in Nat
  BY <1>3, FS_Subset, FS_CardinalityType
<1> QED
  BY <1>2, <1>4, LimitGrows DEF Capacity, Limit, Used

LEMMA ThreadSets ==
  ASSUME ProducersConstantsOK, NEW S, S \subseteq Ids
  PROVE  /\ IsFiniteSet(S) /\ Cardinality(S) \in Nat
         /\ \A R : R \subseteq S =>
              /\ IsFiniteSet(R) /\ Cardinality(R) \in Nat /\ Cardinality(R) <= Cardinality(S)
         /\ \A t \in Ids : t \notin S => Cardinality(S \cup {t}) = Cardinality(S) + 1
<1>1. IsFiniteSet(S) /\ Cardinality(S) \in Nat
  BY FS_Subset, FS_CardinalityType DEF ProducersConstantsOK
<1>2. ASSUME NEW R, R \subseteq S
      PROVE  /\ IsFiniteSet(R) /\ Cardinality(R) \in Nat /\ Cardinality(R) <= Cardinality(S)
  BY <1>1, <1>2, FS_Subset, FS_CardinalityType
<1>3. ASSUME NEW t \in Ids, t \notin S
      PROVE  Cardinality(S \cup {t}) = Cardinality(S) + 1
  BY <1>1, <1>3, FS_AddElement
<1> QED
  BY <1>1, <1>2, <1>3

\* A step uses at most one slot more: an empty one that the thread puts itself in.
LEMMA UsedStep ==
  ASSUME ProducersConstantsOK, Typed, Typed', \A u \in Ids : ThreadOK(u), NEW t \in Ids, Step(t),
         NEW h \in 1..Len(hashes)
  PROVE  /\ h \in 1..Len(hashes') /\ Capacity(h)' = Capacity(h) /\ Limit(h)' = Limit(h)
         /\ \/ Used(h)' = Used(h)
            \/ /\ Puts(t) /\ (Reinsert(t) \/ Insert(t)) /\ Key(t) = Empty
               /\ h = my[t].main /\ Used(h)' = Used(h) + 1
<1>s. /\ IsFiniteSet(UsedIn(h)) /\ Used(h) \in Nat /\ Len(hashes) \in Nat
  BY TableSets DEF Typed
<1>k. Empty # Reusable /\ t # Empty
  BY DEF ProducersConstantsOK
<1>d. ASSUME DOMAIN hashes'[h] = DOMAIN hashes[h]
      PROVE  Capacity(h)' = Capacity(h) /\ Limit(h)' = Limit(h)
  BY <1>d DEF Capacity, Limit
<1>e. ASSUME UsedIn(h)' = UsedIn(h)
      PROVE  Used(h)' = Used(h)
  BY <1>e DEF Used
<1>1. CASE UNCHANGED hashes
  BY <1>1 DEF Capacity, Limit, Used, UsedIn
<1>2. CASE Puts(t) /\ (Reinsert(t) \/ Insert(t))
  <2> DEFINE m == my[t].main
             s == Slot(m, my[t].index)
  <2>1. /\ Len(hashes') = Len(hashes) /\ s \in DOMAIN hashes[m]
        /\ DOMAIN hashes'[h] = DOMAIN hashes[h] /\ hashes'[m][s].key = t
        /\ \A i \in DOMAIN hashes[h] : (h = m /\ i = s) \/ hashes'[h][i] = hashes[h][i]
    BY <1>2 DEF Puts, PutIn
  <2>2. Key(t) = hashes[m][s].key
    BY DEF Key
  <2> HIDE DEF m, s
  <2>3. CASE h = m /\ Key(t) = Empty
    <3>1. UsedIn(h)' = UsedIn(h) \cup {s} /\ s \notin UsedIn(h)
      BY <1>k, <2>1, <2>2, <2>3 DEF UsedIn
    <3>2. Used(h)' = Used(h) + 1
      BY <1>s, <3>1, FS_AddElement DEF Used
    <3> QED
      BY <1>2, <1>d, <2>1, <2>3, <3>2 DEF m
  <2>4. CASE ~(h = m /\ Key(t) = Empty)
    <3>1. UsedIn(h)' = UsedIn(h)
      BY <1>k, <2>1, <2>2, <2>4 DEF UsedIn
    <3> QED
      BY <1>d, <1>e, <2>1, <3>1
  <2> QED
    BY <2>3, <2>4
<1>3. CASE Added
  <2>1. hashes'[h] = hashes[h] /\ h \in 1..Len(hashes')
    BY <1>3, <1>s DEF Added
  <2> QED
    BY <1>d, <1>e, <2>1 DEF UsedIn
<1>4. CASE Erased(my[t].main, t)
  <2>1. /\ Len(hashes') = Len(hashes) /\ DOMAIN hashes'[h] = DOMAIN hashes[h]
        /\ \A i \in DOMAIN hashes[h] : hashes'[h][i].key = Empty <=> hashes[h][i].key = Empty
    BY <1>4, <1>k DEF Erased
  <2> QED
    BY <1>d, <1>e, <2>1 DEF UsedIn
<1> QED
  BY <1>1, <1>2, <1>3, <1>4, StepTables

\* What a step does to the count is what it does to the threads counted.
LEMMA CountedStep ==
  ASSUME ProducersConstantsOK, Typed, Typed', \A u \in Ids : ThreadOK(u), NEW t \in Ids, Step(t)
  PROVE  /\ \A u : u # t => (u \in CountedIn' <=> u \in CountedIn)
         /\ \/ /\ hashCount' = hashCount
               /\ t \in CountedIn' => t \in CountedIn
            \/ /\ CountIn(t) /\ hashCount' = hashCount + 1
               /\ t \notin CountedIn /\ t \in CountedIn'
            \/ /\ AtPlace(t, "noMemory") \/ AtPlace(t, "recycle") \/ AtPlace(t, "uncount")
               /\ hashCount' = hashCount - 1
               /\ t \in CountedIn /\ t \notin CountedIn'
<1> USE DEF AtPlace, Goto, Leave, notifier, destruction, tables
<1>t. ipc \in [Ids -> Places] /\ my \in [Ids -> Fields]
  BY DEF Typed
<1>u. \A u : u # t => (u \in CountedIn' <=> u \in CountedIn)
  BY OthersUndisturbed DEF Undisturbed, CountedIn
<1>1. CASE Lookup(t) \/ Reinsert(t) \/ TestResize(t) \/ Resize(t) \/ Unlock(t) \/ Room(t)
           \/ Recycle(t) \/ Subscribe(t) \/ Insert(t) \/ GiveUp(t)
  BY <1>1, <1>t DEF Lookup, Reinsert, TestResize, Resize, Unlock, Room, Recycle, Subscribe,
     Insert, GiveUp, NextSlot, CountedIn, Counted
<1>2. CASE Start(t) \/ Exit(t) \/ Erase(t) \/ Inactive(t) \/ NextListener(t)
  BY <1>2, <1>t DEF Start, Exit, Erase, Inactive, NextListener, CountedIn, Counted
<1>3. CASE CountIn(t)
  BY <1>3, <1>t DEF CountIn, CountedIn, Counted
<1>4. CASE NoMemory(t) \/ Uncount(t) \/ Create(t)
  BY <1>4, <1>t DEF NoMemory, Uncount, Create, CountedIn, Counted
<1> QED
  BY <1>1, <1>2, <1>3, <1>4, <1>u DEF Step, GetOrAdd, ThreadExit

\* A step lets in no thread but one that has just been counted, with a count below c.
LEMMA AdmittedStep ==
  ASSUME ProducersConstantsOK, Typed, Typed', \A u \in Ids : ThreadOK(u), NEW t \in Ids, Step(t),
         NEW h \in 1..Len(hashes), NEW c \in Nat, Limit(h) <= c,
         \A k \in 1..h : Capacity(k) <= Capacity(h)
  PROVE  /\ \A u : u # t => (u \in Admitted(h, c)' <=> u \in Admitted(h, c))
         /\ t \in Admitted(h, c)' => t \in Admitted(h, c) \/ (CountIn(t) /\ hashCount + 1 < c)
<1> USE DEF AtPlace, Goto, Leave, notifier, destruction, tables
<1>t. /\ ipc \in [Ids -> Places] /\ my \in [Ids -> Fields] /\ my[t] \in Fields
      /\ my[t].main \in 1..Len(hashes) /\ my[t].count \in Nat /\ hashCount \in Nat
      /\ Len(hashes) \in Nat /\ mainHash = Len(hashes)
  <2>1. ipc \in [Ids -> Places] /\ my \in [Ids -> Fields] /\ hashes \in Seq(Tables)
        /\ hashCount \in Nat
    BY Zenon DEF Typed
  <2>2. my[t].main \in 1..Len(hashes)
    BY DEF ThreadOK
  <2> QED
    BY <2>1, <2>2 DEF mainHash, Fields
<1>u. \A u : u # t => (u \in Admitted(h, c)' <=> u \in Admitted(h, c))
  BY OthersUndisturbed DEF Undisturbed, Admitted
<1>1. CASE CountIn(t)
  <2>1. my'[t].count = hashCount + 1 /\ ipc'[t] = "test"
    BY <1>1, <1>t DEF CountIn, Fields
  <2> QED
    BY <1>1, <1>u, <2>1 DEF Admitted
<1>2. CASE TestResize(t)
  <2>1. /\ ipc[t] = "test" /\ ipc'[t] \in {"resize", "room"} /\ my'[t].count = my[t].count
        /\ my'[t].main \in {my[t].main, Len(hashes)}
    BY <1>2, <1>t DEF TestResize, Fields
  <2> QED
    BY <1>t, <1>u, <2>1 DEF Admitted, Counted
<1>3. CASE Resize(t)
  <2>1. /\ ipc[t] = "resize" /\ ipc'[t] \in {"unlock", "noMemory"} /\ my'[t].count = my[t].count
        /\ my'[t].main \in {my[t].main, Len(hashes) + 1}
    BY <1>3, <1>t DEF Resize, Fields
  <2> QED
    BY <1>t, <1>u, <2>1 DEF Admitted, Counted
<1>4. CASE Unlock(t)
  BY <1>4, <1>t, <1>u DEF Unlock, Admitted, Counted
<1>5. CASE Room(t)
  <2>1. CASE /\ my[t].count < Limit(my[t].main) /\ ipc[t] = "room"
             /\ my'[t].main = my[t].main /\ ipc'[t] = "recycle"
    <3>1. ASSUME my[t].main <= h
          PROVE  my[t].count < c
      <4>1. Capacity(my[t].main) <= Capacity(h)
        BY <1>t, <3>1
      <4>2. Limit(my[t].main) <= Limit(h) /\ Limit(my[t].main) \in Nat /\ Limit(h) \in Nat
        BY <1>t, <4>1, TableSets, LimitGrows DEF Limit
      <4> QED
        BY <1>t, <2>1, <4>2
    <3> QED
      BY <1>t, <1>u, <2>1, <3>1 DEF Admitted, Counted
  <2>2. CASE my'[t].main = Len(hashes) /\ my'[t].count = my[t].count /\ ipc'[t] = "test"
             /\ ipc[t] = "room"
    BY <1>t, <1>u, <2>2 DEF Admitted, Counted
  <2>3. \/ /\ my[t].count < Limit(my[t].main) /\ ipc[t] = "room"
           /\ my'[t].main = my[t].main /\ ipc'[t] = "recycle"
        \/ /\ my'[t].main = Len(hashes) /\ my'[t].count = my[t].count /\ ipc'[t] = "test"
           /\ ipc[t] = "room"
    BY <1>5, <1>t DEF Room, Limit, Fields
  <2> QED
    BY <2>1, <2>2, <2>3
<1>6. CASE Recycle(t) \/ Subscribe(t)
  <2>1. /\ ipc[t] \in {"recycle", "subscribe"} /\ my'[t].main = my[t].main
    BY <1>6, <1>t DEF Recycle, Subscribe, Fields
  <2> QED
    BY <1>t, <1>u, <2>1 DEF Admitted, Counted
<1>7. CASE Create(t)
  <2>1. /\ ipc[t] = "recycle"
        /\ ipc'[t] = "idle" \/ my'[t].main = my[t].main
    <3>1. CASE my' = [my EXCEPT ![t].producer = Len(producers) + 1]
      BY <1>7, <1>t, <3>1 DEF Create, Fields
    <3>2. CASE Leave(t)
      BY <1>7, <1>t, <3>2 DEF Create
    <3> QED
      BY <1>7, <3>1, <3>2 DEF Create
  <2> QED
    BY <1>t, <1>u, <2>1 DEF Admitted, Counted
<1>8. CASE Insert(t)
  <2>1. /\ ipc[t] = "insert"
        /\ ipc'[t] \in {"idle", "uncount"} \/ my'[t].main = my[t].main
    BY <1>8, <1>t DEF Insert, NextSlot, Fields
  <2> QED
    BY <1>t, <1>u, <2>1 DEF Admitted, Counted
<1>9. CASE Start(t) \/ Lookup(t) \/ Reinsert(t) \/ NoMemory(t) \/ GiveUp(t) \/ Uncount(t) \/ ThreadExit(t)
  <2>1. ipc'[t] \in {"none", "idle", "reinsert", "count", "giveUp"} \cup Exiting
    BY <1>9, <1>t DEF Start, Lookup, Reinsert, NextSlot, NoMemory, GiveUp, Uncount, ThreadExit, Exit, Erase,
       Inactive, NextListener, Exiting
  <2> QED
    BY <1>u, <2>1 DEF Admitted, Counted, Exiting
<1> QED
  BY <1>1, <1>2, <1>3, <1>4, <1>5, <1>6, <1>7, <1>8, <1>9 DEF Step, GetOrAdd

\* A thread that puts itself into an empty slot by Insert leaves the threads counted
\* and those let in.
LEMMA InsertLeaves ==
  ASSUME Typed, NEW t \in Ids, Insert(t), Key(t) = Empty, Empty # Reusable, Puts(t)
  PROVE  /\ t \in CountedIn /\ t \notin CountedIn' /\ hashCount' = hashCount
         /\ \A c : t \in Admitted(my[t].main, c)
         /\ \A h, c : t \notin Admitted(h, c)'
<1>1. ipc \in [Ids -> Places] /\ my[t].main \in Nat /\ ipc[t] = "insert" /\ hashCount' = hashCount
  BY DEF Typed, Fields, Insert, AtPlace
<1>2. ipc'[t] = "idle"
  BY <1>1 DEF Insert, Leave, Goto
<1> QED
  BY <1>1, <1>2 DEF CountedIn, Counted, Admitted

LEMMA FirstTableStep ==
  ASSUME ProducersConstantsOK, Typed, Typed', \A u \in Ids : ThreadOK(u), FirstTableInv, LivesInv,
         NEW t \in Ids, Step(t)
  PROVE  FirstTableInv'
<1>1. 1 \in 1..Len(hashes)
  BY DEF Typed
<1>l. PICK c \in Nat : c = Limit(1)
  BY <1>1, TableSets
<1>2. c \in Nat /\ Limit(1) <= c /\ Used(1) \in Nat /\ hashCount \in Nat
  <2>1. Used(1) \in Nat
    BY <1>1, TableSets
  <2> QED
    BY <1>l, <2>1 DEF Typed
<1>3. /\ Limit(1)' = c
      /\ \/ Used(1)' = Used(1)
         \/ /\ Puts(t) /\ (Reinsert(t) \/ Insert(t)) /\ Key(t) = Empty
            /\ my[t].main = 1 /\ Used(1)' = Used(1) + 1
  BY <1>1, <1>l, UsedStep
<1>4. \A k \in 1..1 : Capacity(k) <= Capacity(1)
  BY <1>1, Zenon DEF LivesInv
<1>5. /\ \A u : u # t => (u \in Admitted(1, c)' <=> u \in Admitted(1, c))
      /\ t \in Admitted(1, c)' => t \in Admitted(1, c) \/ (CountIn(t) /\ hashCount + 1 < c)
  BY <1>1, <1>2, <1>4, AdmittedStep
<1> DEFINE A == Admitted(1, c)
           B == Admitted(1, c)'
<1>6. B = Admitted(1, Limit(1))'
  BY <1>3 DEF Admitted
<1>7. A \subseteq CountedIn /\ B \subseteq CountedIn' /\ CountedIn \subseteq Ids /\ CountedIn' \subseteq Ids
  BY DEF Admitted, CountedIn
<1>8. IsFiniteSet(A) /\ IsFiniteSet(CountedIn) /\ IsFiniteSet(CountedIn')
      /\ Cardinality(B) \in Nat /\ Cardinality(B) <= Cardinality(CountedIn')
  BY <1>7, ThreadSets
<1> DEFINE CardA == Cardinality(A)
           CardB == Cardinality(B)
           CardC == Cardinality(CountedIn)
           CardD == Cardinality(CountedIn')
<1>9. /\ CardA \in Nat /\ CardB \in Nat
      /\ (t \in A <=> t \in B) => CardB = CardA
      /\ t \in A /\ t \notin B => CardA = CardB + 1
  <2>1. \A u : u # t => (u \in B <=> u \in A)
    BY <1>5
  <2> HIDE DEF A, B
  <2> QED
    BY <1>8, <2>1, OneChanged
<1>10. /\ CardC \in Nat /\ CardD \in Nat
       /\ (t \in CountedIn <=> t \in CountedIn') => CardD = CardC
       /\ t \in CountedIn /\ t \notin CountedIn' => CardC = CardD + 1
       /\ t \notin CountedIn /\ t \in CountedIn' => CardD = CardC + 1
  BY <1>8, CountedStep, OneChanged
<1>11. Used(1) + CardC <= hashCount /\ Within(Used(1) + CardA, c)
  BY <1>l DEF FirstTableInv
<1>12. \/ /\ hashCount' = hashCount
          /\ t \in CountedIn' => t \in CountedIn
       \/ /\ CountIn(t) /\ hashCount' = hashCount + 1
          /\ t \notin CountedIn /\ t \in CountedIn'
       \/ /\ AtPlace(t, "noMemory") \/ AtPlace(t, "recycle") \/ AtPlace(t, "uncount")
          /\ hashCount' = hashCount - 1
          /\ t \in CountedIn /\ t \notin CountedIn'
  BY CountedStep
<1> SUFFICES Used(1)' + CardD <= hashCount' /\ Within(Used(1)' + CardB, c)
  BY <1>3, <1>6 DEF FirstTableInv
<1>13. CASE Used(1)' = Used(1)
  <2>1. Used(1)' + CardD <= hashCount'
    <3> HIDE DEF CardC, CardD
    <3> QED
      BY <1>2, <1>10, <1>11, <1>12, <1>13
  <2>2. CASE t \in B => t \in A
    <3>1. CardB <= CardA
      <4> HIDE DEF A, B
      <4> QED
        BY <1>9, <2>2
    <3> HIDE DEF CardA, CardB
    <3> QED
      BY <1>2, <1>9, <1>11, <1>13, <2>1, <3>1 DEF Within
  <2>3. CASE t \in B /\ t \notin A
    <3>1. hashCount + 1 < c /\ hashCount' = hashCount + 1
      BY <1>5, <2>3 DEF CountIn
    <3>2. CardB <= CardD
      BY <1>8
    <3> HIDE DEF CardB, CardD
    <3> QED
      BY <1>2, <1>9, <1>10, <1>13, <2>1, <3>1, <3>2 DEF Within
  <2> QED
    BY <2>2, <2>3
<1>14. CASE /\ Puts(t) /\ (Reinsert(t) \/ Insert(t)) /\ Key(t) = Empty
            /\ my[t].main = 1 /\ Used(1)' = Used(1) + 1
  <2>1. Insert(t)
    <3>1. AtPlace(t, "reinsert") => \E k \in 1..(1 - 1) : TRUE
      BY <1>14 DEF LivesInv, PlaceOK, AtPlace
    <3>2. ~AtPlace(t, "reinsert")
      BY <3>1
    <3> QED
      BY <1>14, <3>2 DEF Reinsert
  <2>2. Empty # Reusable
    BY DEF ProducersConstantsOK
  <2>3. /\ t \in CountedIn /\ t \notin CountedIn' /\ hashCount' = hashCount
        /\ t \in A /\ t \notin B
    BY <1>14, <2>1, <2>2, InsertLeaves
  <2>4. CardA = CardB + 1 /\ CardC = CardD + 1
    BY <1>9, <1>10, <2>3
  <2> HIDE DEF CardA, CardB, CardC, CardD
  <2> QED
    BY <1>2, <1>9, <1>10, <1>11, <1>14, <2>3, <2>4 DEF Within
<1> QED
  BY <1>3, <1>13, <1>14

\* Only the thread that moves comes into a table or out of one: it puts itself into
\* the table it looks at, or erases itself.
LEMMA InStep ==
  ASSUME ProducersConstantsOK, Typed, \A u \in Ids : ThreadOK(u), NEW t \in Ids, Step(t),
         NEW u \in Ids, NEW h \in 1..Len(hashes'), NEW i
  PROVE  /\ In(h, i, u)' => \/ h \in 1..Len(hashes) /\ In(h, i, u)
                            \/ u = t /\ h = my[t].main /\ Puts(t) /\ (Reinsert(t) \/ Insert(t))
         /\ h \in 1..Len(hashes) /\ In(h, i, u) => In(h, i, u)' \/ (u = t /\ Erase(t))
<1>k. Empty \notin Ids /\ Reusable \notin Ids /\ Len(hashes) \in Nat
  BY DEF ProducersConstantsOK, Typed
<1>1. CASE UNCHANGED hashes
  BY <1>1 DEF In
<1>2. CASE Puts(t) /\ (Reinsert(t) \/ Insert(t))
  <2> DEFINE m == my[t].main
             s == Slot(m, my[t].index)
  <2>1. /\ Len(hashes') = Len(hashes) /\ hashes[m][s].key \notin Ids
        /\ DOMAIN hashes'[h] = DOMAIN hashes[h] /\ hashes'[m][s].key = t
        /\ \A j \in DOMAIN hashes[h] : (h = m /\ j = s) \/ hashes'[h][j] = hashes[h][j]
    BY <1>2 DEF Puts, PutIn, Key
  <2> HIDE DEF s
  <2>2. ASSUME In(h, i, u)'
        PROVE  In(h, i, u) \/ (u = t /\ h = m)
    BY <2>1, <2>2 DEF In
  <2>3. ASSUME In(h, i, u)
        PROVE  In(h, i, u)'
    BY <2>1, <2>3 DEF In
  <2> QED
    BY <1>2, <2>1, <2>2, <2>3
<1>3. CASE Added
  BY <1>3, <1>k DEF Added, In
<1>4. CASE Erased(my[t].main, t) /\ Erase(t)
  BY <1>4, <1>k DEF Erased, In
<1> QED
  BY <1>1, <1>2, <1>3, <1>4, StepTables

\* A new table is not smaller than the one it replaces, and nothing is in it.
LEMMA ResizeGrows ==
  ASSUME ProducersConstantsOK, Typed, NEW t \in Ids, Resize(t), Added,
         NEW new, new = Len(hashes) + 1
  PROVE  /\ Capacity(new)' \in Nat
         /\ Capacity(Len(hashes)) <= Capacity(new)'
         /\ Used(new)' = 0
<1> DEFINE n == my[t].count
           old == Capacity(mainHash)
<1>1. n \in Nat /\ Len(hashes) \in Nat \ {0} /\ mainHash = Len(hashes) /\ hashes \in Seq(Tables)
  <2>1. my \in [Ids -> Fields] /\ hashes \in Seq(Tables) /\ hashes # <<>>
    BY Zenon DEF Typed
  <2>2. n \in Nat
    BY <2>1 DEF Fields
  <2> QED
    BY <2>1, <2>2 DEF mainHash
<1>2. old \in Nat \ {0}
  BY <1>1, TableSets
<1>3. Len(hashes') = Len(hashes) + 1
  BY DEF Added
<1>4. PICK capacity \in {2 * old} \cup (2 * n + 1)..(4 * n + 3) :
        HalfFull(t, mainHash) /\ hashes' = Append(hashes, NewTable(capacity))
  BY <1>1, <1>3 DEF Resize
<1>5. n >= old \div 2
  BY <1>4 DEF HalfFull
<1> HIDE DEF n, old
<1>6. 2 * n + 1 >= old
  <2>1. old \div 2 \in Nat /\ old < 2 * (old \div 2) + 2
    BY <1>2
  <2> DEFINE half == old \div 2
  <2> HIDE DEF half
  <2>2. half \in Nat /\ old < 2 * half + 2 /\ n >= half
    BY <1>5, <2>1 DEF half
  <2> QED
    BY <1>1, <1>2, <2>2
<1>7. capacity \in Nat \ {0} /\ old <= capacity
  BY <1>1, <1>2, <1>4, <1>6
<1>8. hashes'[new] = NewTable(capacity)
  BY <1>1, <1>4
<1>9. Cardinality(0..(capacity - 1)) = capacity
  BY <1>7, FS_Interval
<1>10. Capacity(new)' = capacity
  BY <1>8, <1>9 DEF Capacity, NewTable
<1>11. Used(new)' = 0
  <2>1. UsedIn(new)' = {}
    BY DEF UsedIn, Added
  <2> QED
    BY <2>1, FS_EmptySet DEF Used
<1> QED
  BY <1>1, <1>7, <1>10, <1>11 DEF old

\* The tables grow, in every step.
LEMMA CapacityStep ==
  ASSUME ProducersConstantsOK, Typed, Typed', \A u \in Ids : ThreadOK(u), NEW t \in Ids, Step(t),
         \A h \in 1..Len(hashes) : \A k \in 1..h : Capacity(k) <= Capacity(h)
  PROVE  (\A h \in 1..Len(hashes) : \A k \in 1..h : Capacity(k) <= Capacity(h))'
<1>1. Len(hashes) \in Nat \ {0}
  BY DEF Typed
<1>2. \A h \in 1..Len(hashes) : Capacity(h)' = Capacity(h) /\ Capacity(h) \in Nat
  BY UsedStep, TableSets
<1>3. CASE Len(hashes') = Len(hashes)
  BY <1>1, <1>2, <1>3
<1>4. CASE Added /\ AtPlace(t, "resize")
  <2>1. Resize(t)
    BY <1>4 DEF AtPlace, Step, GetOrAdd, ThreadExit, Start, Lookup, Reinsert, CountIn, TestResize,
       Unlock, NoMemory, GiveUp, Room, Recycle, Create, Subscribe, Insert, Uncount, Exit, Erase, Inactive,
       NextListener
  <2>n. PICK new : new = Len(hashes) + 1
    OBVIOUS
  <2>2. Capacity(new)' \in Nat /\ Capacity(Len(hashes)) <= Capacity(new)'
    BY <1>4, <2>1, <2>n, ResizeGrows
  <2>3. Len(hashes') = Len(hashes) + 1
    BY <1>4 DEF Added
  <2> SUFFICES ASSUME NEW h \in 1..(Len(hashes) + 1), NEW k \in 1..h
               PROVE  Capacity(k)' <= Capacity(h)'
    BY <2>3
  <2>4. CASE h \in 1..Len(hashes)
    BY <1>1, <1>2, <2>4
  <2>5. CASE h = new /\ k \in 1..Len(hashes)
    <3>1. Capacity(k) <= Capacity(Len(hashes)) /\ Capacity(k) \in Nat /\ Capacity(k)' = Capacity(k)
          /\ Capacity(Len(hashes)) \in Nat
      BY <1>1, <1>2, <2>5
    <3> QED
      BY <2>2, <2>5, <3>1
  <2>6. CASE h = new /\ k = new
    BY <2>2, <2>6
  <2> QED
    BY <1>1, <2>n, <2>4, <2>5, <2>6
<1>5. Len(hashes') = Len(hashes) \/ (Added /\ AtPlace(t, "resize"))
  BY StepTables DEF Puts, PutIn, Erased
<1> QED
  BY <1>3, <1>4, <1>5

\* A thread that lives was started.
LEMMA LivingStep ==
  ASSUME ProducersConstantsOK, Typed, Typed', \A u \in Ids : ThreadOK(u), NEW t \in Ids, Step(t),
         Cardinality(Living) <= starts
  PROVE  Cardinality(Living') <= starts'
<1> USE DEF AtPlace, Goto, Leave, notifier, destruction, tables
<1>t. ipc \in [Ids -> Places] /\ starts \in Nat
  BY DEF Typed
<1>1. \A u : u # t => (u \in Living' <=> u \in Living)
  BY OthersUndisturbed DEF Undisturbed, Living
<1>2. IsFiniteSet(Living)
  BY ThreadSets DEF Living
<1> DEFINE k == Cardinality(Living)
           k1 == Cardinality(Living')
<1>3. /\ k \in Nat /\ k1 \in Nat
      /\ (t \in Living <=> t \in Living') => k1 = k
      /\ t \in Living /\ t \notin Living' => k = k1 + 1
      /\ t \notin Living /\ t \in Living' => k1 = k + 1
  BY <1>1, <1>2, OneChanged
<1>4. \/ Start(t) /\ starts' = starts + 1
      \/ ~Start(t) /\ starts' = starts /\ t \in Living
  BY DEF Step, GetOrAdd, ThreadExit, Start, Lookup, Reinsert, CountIn, TestResize, Resize, Unlock,
     NoMemory, GiveUp, Room, Recycle, Create, Subscribe, Insert, Uncount, Exit, Erase, Inactive,
     NextListener, Living
<1> HIDE DEF k, k1
<1>5. k1 <= starts'
  BY <1>3, <1>4, <1>t DEF k
<1> QED
  BY <1>5 DEF k1

\* Every place where a thread puts itself in was come to by a search of the tables,
\* and nobody else puts the id in.
LEMMA PlaceStep ==
  ASSUME ProducersConstantsOK, OwnerInv, Typed', NEW t \in Ids, Step(t), \A u \in Ids : PlaceOK(u)
  PROVE  \A u \in Ids : PlaceOK(u)'
<1> USE DEF AtPlace, Goto, Leave, notifier, destruction, tables
<1>t. /\ Typed /\ (\A u \in Ids : ThreadOK(u)) /\ ipc \in [Ids -> Places] /\ my \in [Ids -> Fields]
      /\ Len(hashes) \in Nat /\ Len(hashes') \in Nat /\ Len(hashes) <= Len(hashes')
  BY StepEntries DEF OwnerInv, Typed
<1>m. \A u \in Ids : my[u].main \in 1..Len(hashes)
  BY <1>t DEF ThreadOK
\* Whose place and newest table are as before, and who does not come into a table.
<1>1. ASSUME NEW u \in Ids, ipc'[u] = ipc[u], my'[u].main = my[u].main,
             u # t \/ (hashes' = hashes /\ ~Erase(t))
      PROVE  PlaceOK(u)'
  <2>1. \A h \in 1..Len(hashes') : \A i : In(h, i, u)' => h \in 1..Len(hashes) /\ In(h, i, u)
    <3>1. CASE u # t
      BY <1>t, <3>1, InStep
    <3>2. CASE hashes' = hashes
      BY <3>2 DEF In
    <3> QED
      BY <1>1, <3>1, <3>2
  <2>2. \A h \in 1..Len(hashes) : \A i : In(h, i, u) => In(h, i, u)'
    <3>1. CASE u # t
      BY <1>t, <3>1, InStep
    <3>2. CASE hashes' = hashes
      BY <3>2 DEF In
    <3> QED
      BY <1>1, <3>1, <3>2
  <2>3. ASSUME ipc'[u] = "reinsert", NEW i \in DOMAIN hashes'[my'[u].main], In(my[u].main, i, u)'
        PROVE  FALSE
    <3>1. PICK m : m = my[u].main
      OBVIOUS
    <3>2. In(m, i, u)'
      BY <1>1, <2>3, <3>1
    <3>3. In(m, i, u)
      BY <1>t, <1>m, <2>1, <3>1, <3>2
    <3> QED
      BY <1>1, <2>3, <3>1, <3>3 DEF PlaceOK, In
  <2>4. ASSUME ipc'[u] = "reinsert"
        PROVE  \E k \in 1..(my'[u].main - 1) : \E i \in DOMAIN hashes'[k] : In(k, i, u)'
    <3>1. PICK k \in 1..(my[u].main - 1) : \E i \in DOMAIN hashes[k] : In(k, i, u)
      BY <1>1, <2>4 DEF PlaceOK
    <3>2. PICK i : In(k, i, u)
      BY <3>1
    <3>3. k \in 1..Len(hashes)
      BY <1>t, <1>m, <3>1
    <3>4. In(k, i, u)'
      BY <2>2, <3>2, <3>3
    <3> QED
      BY <1>1, <3>1, <3>4 DEF In
  <2>5. ASSUME ipc'[u] = "insert"
        PROVE  ~Registered(u)'
    <3>1. ~Registered(u)
      BY <1>1, <2>5 DEF PlaceOK
    <3> QED
      BY <2>1, <3>1 DEF Registered, In
  <2> QED
    BY <2>3, <2>4, <2>5 DEF PlaceOK, In
<1>2. ASSUME ipc'[t] \notin {"reinsert", "insert"}
      PROVE  PlaceOK(t)'
  BY <1>2 DEF PlaceOK
<1>3. ASSUME Lookup(t)
      PROVE  PlaceOK(t)'
  <2>1. CASE ipc'[t] = "reinsert"
    <3> DEFINE found == {h \in 1..mainHash : SlotOf(h, t) # {}}
    <3>1. /\ mainHash \notin found /\ hashes' = hashes /\ ipc[t] = "idle"
          /\ \E h \in found : \E i \in SlotOf(h, t) : my' = [my EXCEPT ![t] =
               [[FreshLocals EXCEPT !.main = mainHash, !.index = Hash]
                  EXCEPT !.producer = hashes[h][i].value]]
      BY <1>3, <1>t, <2>1 DEF Lookup
    <3>2. mainHash = Len(hashes) /\ Len(hashes) \in 1..Len(hashes)
      BY <1>t DEF mainHash, Typed
    <3>3. my'[t].main = Len(hashes)
      BY <1>t, <3>1, <3>2 DEF FreshLocals
    <3>4. \A i \in DOMAIN hashes[Len(hashes)] : hashes[Len(hashes)][i].key # t
      BY <3>1, <3>2 DEF SlotOf
    <3>5. PICK h \in found : TRUE
      BY <3>1
    <3>6. h \in 1..(Len(hashes) - 1) /\ \E i \in DOMAIN hashes[h] : hashes[h][i].key = t
      BY <1>t, <3>1, <3>2, <3>5 DEF SlotOf
    <3> QED
      BY <2>1, <3>1, <3>3, <3>4, <3>6 DEF PlaceOK, In
  <2>2. CASE ipc'[t] # "reinsert"
    BY <1>2, <1>3, <1>t, <2>2 DEF Lookup
  <2> QED
    BY <2>1, <2>2
<1>4. ASSUME Subscribe(t)
      PROVE  PlaceOK(t)'
  <2>1. ipc'[t] = "insert" /\ hashes' = hashes /\ ipc[t] = "subscribe" /\ queue = "open"
    BY <1>4, <1>t DEF Subscribe, ThreadOK, Exiting
  <2>2. tail[t] = <<>>
    BY <1>t, <2>1 DEF ThreadOK, Counted
  <2>3. ASSUME NEW h \in 1..Len(hashes), NEW i \in DOMAIN hashes[h], In(h, i, t)
        PROVE  FALSE
    <3>1. tail[t] = <<hashes[h][i].value>>
      BY <2>1, <2>3 DEF OwnerInv, EntriesOK, EntryOK, In
    <3> QED
      BY <2>2, <3>1, SingletonTail
  <2>4. ~Registered(t)'
    BY <2>1, <2>3 DEF Registered, In
  <2> QED
    BY <2>1, <2>4 DEF PlaceOK
<1>5. ASSUME Reinsert(t) \/ Insert(t)
      PROVE  PlaceOK(t)'
  <2>1. CASE NextSlot(t)
    <3>1. /\ ipc' = ipc /\ hashes' = hashes /\ ~Erase(t)
          /\ my'[t].main = my[t].main
      BY <1>5, <1>t, <2>1 DEF NextSlot, Fields, Reinsert, Insert, Erase
    <3> QED
      BY <1>1, <3>1
  <2>2. CASE ipc'[t] \in {"idle", "uncount"}
    BY <1>2, <2>2
  <2> QED
    BY <1>5, <1>t, <2>1, <2>2 DEF Reinsert, Insert
<1>6. ASSUME ~(Lookup(t) \/ Subscribe(t) \/ Reinsert(t) \/ Insert(t))
      PROVE  PlaceOK(t)'
  <2>1. ipc'[t] \notin {"reinsert", "insert"}
    BY <1>6, <1>t DEF Step, GetOrAdd, ThreadExit, Start, CountIn, TestResize, Resize, Unlock,
       NoMemory, GiveUp, Room, Recycle, Create, Uncount, Exit, Erase, Inactive, NextListener
  <2> QED
    BY <1>2, <2>1
<1>7. ASSUME NEW u \in Ids, u # t
      PROVE  PlaceOK(u)'
  <2>1. ipc'[u] = ipc[u] /\ my'[u].main = my[u].main
    BY <1>t, <1>7, OthersUndisturbed DEF Undisturbed
  <2> QED
    BY <1>1, <1>7, <2>1
<1> QED
  BY <1>3, <1>4, <1>5, <1>6, <1>7

\* A thread that exits leaves fewer living ones than were started, for good.
LEMMA NoneExitedStep ==
  ASSUME ProducersConstantsOK, Typed, Typed', \A u \in Ids : ThreadOK(u), NEW t \in Ids, Step(t),
         Cardinality(Living) <= starts, NoneExited'
  PROVE  NoneExited /\ ~ThreadExit(t)
<1> USE DEF AtPlace, Goto, Leave, notifier, destruction, tables
<1> DEFINE A == {u \in Ids : ipc[u] \notin {"none", "erase", "inactive", "next"}}
           k == Cardinality(A)
           k1 == Cardinality(A')
<1>t. ipc \in [Ids -> Places] /\ starts \in Nat /\ starts' \in Nat
  BY DEF Typed
<1>1. \A u : u # t => (u \in A' <=> u \in A)
  BY OthersUndisturbed DEF Undisturbed
<1>2. IsFiniteSet(A)
  BY ThreadSets
<1>3. /\ k \in Nat /\ k1 \in Nat
      /\ (t \in A <=> t \in A') => k1 = k
      /\ t \notin A /\ t \in A' => k1 = k + 1
  <2> HIDE DEF A
  <2> QED
    BY <1>1, <1>2, OneChanged
<1>4. k1 = starts'
  BY DEF NoneExited
<1>5. ~ThreadExit(t)
  <2> SUFFICES ASSUME ThreadExit(t) PROVE FALSE
    OBVIOUS
  <2>1. t \in Living /\ t \notin A' /\ starts' = starts
    BY <1>t DEF ThreadExit, Exit, Erase, Inactive, NextListener, Living
  <2>2. A' \subseteq Living /\ Living \subseteq Ids
    BY <1>1, <2>1 DEF Living
  <2>3. IsFiniteSet(Living) /\ IsFiniteSet(Living \ {t})
        /\ Cardinality(Living) \in Nat /\ Cardinality(Living \ {t}) = Cardinality(Living) - 1
    BY <2>1, <2>2, ThreadSets, FS_RemoveElement
  <2>4. A' \subseteq Living \ {t}
    BY <2>1, <2>2
  <2>5. k1 <= Cardinality(Living \ {t})
    BY <2>3, <2>4, FS_Subset
  <2> HIDE DEF k1
  <2> QED
    BY <1>3, <1>4, <1>t, <2>1, <2>3, <2>5
<1>6. \/ Start(t) /\ starts' = starts + 1 /\ t \notin A /\ t \in A'
      \/ starts' = starts /\ t \in A /\ t \in A'
  <2>1. CASE Start(t)
    BY <2>1, <1>t DEF Start
  <2>2. CASE GetOrAdd(t)
    BY <2>2, <1>t DEF GetOrAdd, Lookup, Reinsert, CountIn, TestResize, Resize, Unlock, NoMemory, GiveUp,
       Room, Recycle, Create, Subscribe, Insert, Uncount, NextSlot
  <2> QED
    BY <1>5, <2>1, <2>2 DEF Step
<1> HIDE DEF A
<1>7. k = starts
  <2> HIDE DEF k, k1
  <2> QED
    BY <1>3, <1>4, <1>6, <1>t
<1> QED
  BY <1>5, <1>7 DEF NoneExited, A

LEMMA NoReuseStep ==
  ASSUME ProducersConstantsOK, Typed, \A u \in Ids : ThreadOK(u), NEW t \in Ids, Step(t),
         ~ThreadExit(t), NoReuse
  PROVE  NoReuse'
<1> USE DEF AtPlace, Goto, Leave, notifier, destruction, tables
<1>t. ipc \in [Ids -> Places] /\ Reusable \notin Ids /\ Empty # Reusable /\ Len(hashes) \in Nat
  BY DEF Typed, ProducersConstantsOK
<1>1. ASSUME NEW h \in 1..Len(hashes'), NEW i \in DOMAIN hashes'[h]
      PROVE  hashes'[h][i].key # Reusable
  <2>1. CASE UNCHANGED hashes
    BY <2>1 DEF NoReuse
  <2>2. CASE Puts(t)
    BY <1>t, <2>2 DEF NoReuse, Puts, PutIn
  <2>3. CASE Added
    BY <1>t, <2>3 DEF NoReuse, Added
  <2>4. ~Erase(t)
    BY DEF ThreadExit
  <2> QED
    BY <2>1, <2>2, <2>3, <2>4, StepTables
<1>2. Key(t) # Reusable
  BY SlotInTable DEF Key, NoReuse
<1>3. ASSUME NEW u \in Ids
      PROVE  ipc'[u] # "uncount"
  <2>1. CASE u = t
    BY <1>t, <1>2, <2>1 DEF NoReuse, Step, GetOrAdd, Start, Lookup, Reinsert, CountIn, TestResize,
       Resize, Unlock, NoMemory, GiveUp, Room, Recycle, Create, Subscribe, Insert, Uncount, NextSlot
  <2>2. CASE u # t
    BY <2>2, OthersUndisturbed DEF Undisturbed, NoReuse
  <2> QED
    BY <2>1, <2>2
<1> QED
  BY <1>1, <1>3 DEF NoReuse

\* Threads with a producer, and those on their way, are all counted.
LEMMA SeatedStep ==
  ASSUME ProducersConstantsOK, Typed, Typed', \A u \in Ids : ThreadOK(u), NEW t \in Ids, Step(t),
         ~ThreadExit(t), NoReuse, Cardinality(Seated \cup CountedIn) <= hashCount
  PROVE  Cardinality(Seated' \cup CountedIn') <= hashCount'
<1> USE DEF AtPlace, Goto, Leave, notifier, destruction, tables
<1> DEFINE A == Seated \cup CountedIn
           B == Seated' \cup CountedIn'
           k == Cardinality(A)
           k1 == Cardinality(B)
<1>t. tail \in [Ids -> Seq(Nat)] /\ hashCount \in Nat /\ ThreadOK(t)
  BY DEF Typed
<1>1. CASE Subscribe(t)
  <2>1. t \in CountedIn /\ hashCount' = hashCount
    BY <1>1 DEF Subscribe, CountedIn, Counted
  <2>2. \A u \in Ids : u # t => tail'[u] = tail[u]
    BY <1>1, <1>t DEF Subscribe
  <2>3. B \subseteq A
    BY <2>1, <2>2, CountedStep DEF Seated, CountedIn
  <2>4. A \subseteq Ids
    BY DEF Seated, CountedIn
  <2>5. k \in Nat /\ k1 \in Nat /\ k1 <= k
    <3> HIDE DEF A, B
    <3> QED
      BY <2>3, <2>4, ThreadSets
  <2>6. k <= hashCount
    OBVIOUS
  <2>7. k1 <= hashCount'
    <3> HIDE DEF k, k1
    <3> QED
      BY <1>t, <2>1, <2>5, <2>6
  <2> QED
    BY <2>7
<1>2. CASE ~Subscribe(t)
  <2>1. tail' = tail
    BY <1>2 DEF Step, GetOrAdd, Start, Lookup, Reinsert, CountIn, TestResize, Resize, Unlock,
       NoMemory, GiveUp, Room, Recycle, Create, Insert, Uncount
  <2>2. Seated' = Seated
    BY <2>1 DEF Seated
  <2>3. IsFiniteSet(A)
    BY ThreadSets DEF Seated, CountedIn
  <2>4. \A u : u # t => (u \in B <=> u \in A)
    BY <2>2, CountedStep
  <2>5. /\ k \in Nat /\ k1 \in Nat
        /\ (t \in A <=> t \in B) => k1 = k
        /\ t \in A /\ t \notin B => k = k1 + 1
        /\ t \notin A /\ t \in B => k1 = k + 1
    <3> HIDE DEF A, B
    <3> QED
      BY <2>3, <2>4, OneChanged
  <2>6. \/ hashCount' = hashCount /\ (t \in B => t \in A)
        \/ hashCount' = hashCount + 1
        \/ hashCount' = hashCount - 1 /\ t \in A /\ t \notin B
    <3>1. ASSUME AtPlace(t, "noMemory") \/ AtPlace(t, "recycle") \/ AtPlace(t, "uncount")
          PROVE  t \notin Seated
      BY <1>t, <3>1 DEF NoReuse, ThreadOK, Counted, Seated
    <3> QED
      BY <2>2, <3>1, CountedStep
  <2> HIDE DEF A, B
  <2>7. k1 <= hashCount'
    <3> HIDE DEF k, k1
    <3> QED
      BY <1>t, <2>5, <2>6 DEF k, A
  <2> QED
    BY <2>7 DEF A, B
<1> QED
  BY <1>1, <1>2

\* A smaller set is within the same limit.
LEMMA WithinSubset ==
  ASSUME ProducersConstantsOK, NEW S, S \subseteq Ids, NEW R, R \subseteq S, NEW c \in Nat,
         Within(Cardinality(S), c)
  PROVE  Within(Cardinality(R), c)
<1>1. /\ Cardinality(S) \in Nat /\ Cardinality(R) \in Nat /\ Cardinality(R) <= Cardinality(S)
  BY ThreadSets
<1> QED
  BY <1>1 DEF Within

\* A slot that is used more is that of a thread that had none in the table.
LEMMA OneSlotStep ==
  ASSUME ProducersConstantsOK, Typed, Typed', \A u \in Ids : ThreadOK(u) /\ PlaceOK(u),
         NEW t \in Ids, Step(t), ~ThreadExit(t), NEW h \in 1..Len(hashes),
         Used(h) <= Cardinality(HasEntry(h))
  PROVE  Used(h)' <= Cardinality(HasEntry(h)')
<1>1. /\ HasEntry(h) \subseteq Ids /\ HasEntry(h)' \subseteq Ids
      /\ Used(h) \in Nat
  BY TableSets DEF HasEntry
<1>2. h \in 1..Len(hashes') /\ ~Erase(t)
  BY UsedStep DEF ThreadExit
<1>3. HasEntry(h) \subseteq HasEntry(h)'
  <2> SUFFICES ASSUME NEW u \in HasEntry(h) PROVE u \in HasEntry(h)'
    OBVIOUS
  <2>1. PICK i : In(h, i, u)
    BY DEF HasEntry
  <2>2. In(h, i, u)'
    BY <1>2, <2>1, InStep DEF HasEntry
  <2> QED
    BY <2>2 DEF HasEntry, In
<1> DEFINE A == HasEntry(h)
           B == HasEntry(h)'
           k == Cardinality(A)
           k1 == Cardinality(B)
<1>4. k \in Nat /\ k1 \in Nat /\ k <= k1 /\ (t \notin A => Cardinality(A \cup {t}) = k + 1)
  <2> HIDE DEF A, B
  <2>1. A \subseteq Ids /\ B \subseteq Ids /\ A \subseteq B
    BY <1>1, <1>3 DEF A, B
  <2> QED
    BY <2>1, ThreadSets
<1>5. CASE Used(h)' = Used(h)
  <2>1. Used(h) <= k /\ k <= k1
    BY <1>4
  <2> HIDE DEF k, k1
  <2>2. Used(h)' <= k1
    BY <1>1, <1>4, <1>5, <2>1
  <2> QED
    BY <2>2 DEF k1
<1>6. CASE /\ Puts(t) /\ (Reinsert(t) \/ Insert(t)) /\ h = my[t].main /\ Used(h)' = Used(h) + 1
  <2>1. t \notin A
    <3> SUFFICES ASSUME NEW i \in DOMAIN hashes[h], In(h, i, t) PROVE FALSE
      BY DEF HasEntry
    <3>1. PlaceOK(t)
      OBVIOUS
    <3>2. CASE Reinsert(t)
      BY <1>6, <3>1, <3>2 DEF PlaceOK, Reinsert, AtPlace
    <3>3. CASE Insert(t)
      BY <3>1, <3>3 DEF PlaceOK, Insert, AtPlace, Registered
    <3> QED
      BY <1>6, <3>2, <3>3
  <2>2. t \in B
    <3>1. \E i : In(h, i, t)'
      BY <1>6 DEF Puts, PutIn, In
    <3> QED
      BY <3>1 DEF HasEntry, In
  <2>3. (A \cup {t}) \subseteq B
    BY <1>3, <2>2
  <2>4. Cardinality(A \cup {t}) <= k1
    <3>1. B \subseteq Ids
      BY <1>1
    <3> HIDE DEF A, B
    <3> QED
      BY <2>3, <3>1, ThreadSets
  <2>5. Used(h) <= k /\ Cardinality(A \cup {t}) = k + 1
    BY <1>4, <2>1
  <2> HIDE DEF A, k, k1
  <2>6. Used(h)' <= k1
    BY <1>1, <1>4, <1>6, <2>4, <2>5
  <2> QED
    BY <2>6 DEF k1
<1> QED
  BY <1>5, <1>6, UsedStep

\* Who has an entry has a producer, while the queue is open.
LEMMA EnteredSeated ==
  ASSUME EntriesOK, queue = "open", NEW h \in 1..Len(hashes), Len(hashes) \in Nat
  PROVE  Entered(h) \subseteq Seated
<1> SUFFICES ASSUME NEW u \in Entered(h) PROVE u \in Seated
  OBVIOUS
<1>1. PICK k \in 1..h : \E i \in DOMAIN hashes[k] : In(k, i, u)
  BY DEF Entered
<1>2. PICK i \in DOMAIN hashes[k] : hashes[k][i].key = u
  BY <1>1 DEF In
<1>3. u \in Ids /\ k \in 1..Len(hashes)
  BY DEF Entered
<1>4. tail[u] = <<hashes[k][i].value>>
  BY <1>2, <1>3 DEF EntriesOK, EntryOK
<1> QED
  BY <1>3, <1>4, SingletonTail DEF Seated

\* A thread that comes into a table was let in, or was in an older one.
LEMMA EnteredStep ==
  ASSUME ProducersConstantsOK, Typed, \A u \in Ids : ThreadOK(u) /\ PlaceOK(u),
         NEW t \in Ids, Step(t), NEW h \in 1..Len(hashes), h \in 1..Len(hashes'), NEW c
  PROVE  Entered(h)' \subseteq Entered(h) \cup Admitted(h, c)
<1> SUFFICES ASSUME NEW u \in Entered(h)', u \notin Entered(h)
             PROVE  u \in Admitted(h, c)
  OBVIOUS
<1>1. PICK k \in 1..h : \E i \in DOMAIN hashes'[k] : In(k, i, u)'
  BY DEF Entered
<1>2. PICK i : In(k, i, u)'
  BY <1>1
<1>3. u \in Ids /\ k \in 1..Len(hashes) /\ k \in 1..Len(hashes') /\ ~In(k, i, u)
  BY <1>1 DEF Entered, In
<1>4. u = t /\ k = my[t].main /\ (Reinsert(t) \/ Insert(t))
  BY <1>2, <1>3, InStep
<1>5. CASE Reinsert(t)
  <2>1. PICK j \in 1..(my[t].main - 1) : \E n \in DOMAIN hashes[j] : In(j, n, t)
    BY <1>5 DEF PlaceOK, Reinsert, AtPlace
  <2>2. j \in 1..h
    BY <1>1, <1>4, <2>1
  <2> QED
    BY <1>4, <2>1, <2>2 DEF Entered
<1>6. CASE Insert(t)
  BY <1>1, <1>4, <1>6 DEF Admitted, Insert, AtPlace, Counted
<1> QED
  BY <1>4, <1>5, <1>6

LEMMA BoundedStep ==
  ASSUME ProducersConstantsOK, OwnerInv, OwnerInv', LivesInv, LaterTablesInv,
         NEW t \in Ids, Step(t),
         queue' = "open" => Cardinality(Seated' \cup CountedIn') <= hashCount',
         NEW h \in 1..Len(hashes'), NEW c \in Nat, Limit(h)' <= c
  PROVE  Bounded(h, c)'
<1>t. /\ Typed /\ Typed' /\ (\A u \in Ids : ThreadOK(u)) /\ (\A u \in Ids : ThreadOK(u) /\ PlaceOK(u))
  BY DEF OwnerInv, LivesInv
<1>h. /\ hashes \in Seq(Tables) /\ hashes # <<>> /\ hashCount \in Nat
      /\ hashes' \in Seq(Tables)
  BY <1>t, Zenon DEF Typed
<1>l. /\ Len(hashes) \in Nat \ {0} /\ Len(hashes') \in Nat /\ hashCount \in Nat
  BY <1>h
<1>1. CASE h \in 1..Len(hashes)
  <2>1. Limit(h) <= c /\ \A k \in 1..h : Capacity(k) <= Capacity(h)
    BY <1>t, <1>1, UsedStep DEF LivesInv
  <2>2. /\ \A u : u # t => (u \in Admitted(h, c)' <=> u \in Admitted(h, c))
        /\ t \in Admitted(h, c)' => t \in Admitted(h, c) \/ (CountIn(t) /\ hashCount + 1 < c)
    BY <1>t, <1>1, <2>1, AdmittedStep
  <2>3. Entered(h)' \subseteq Entered(h) \cup Admitted(h, c)
    BY <1>t, <1>1, EnteredStep
  <2> DEFINE A == Entered(h) \cup Admitted(h, c)
             B == Entered(h)' \cup Admitted(h, c)'
  <2>4. Within(Cardinality(A), c)
    BY <1>1, <2>1 DEF LaterTablesInv, Bounded
  <2>5. A \subseteq Ids /\ B \subseteq Ids
    BY DEF Entered, Admitted
  <2>6. CASE t \in Admitted(h, c)' => t \in Admitted(h, c)
    <3>1. B \subseteq A
      BY <2>2, <2>3, <2>6
    <3> HIDE DEF A, B
    <3>2. Within(Cardinality(B), c)
      BY <2>4, <2>5, <3>1, WithinSubset
    <3> QED
      BY <3>2 DEF Bounded, B
  <2>7. CASE CountIn(t) /\ hashCount + 1 < c
    <3>1. hashCount' = hashCount + 1 /\ queue' = queue /\ queue = "open"
      BY <1>t, <2>7 DEF CountIn, AtPlace, ThreadOK, Exiting, destruction
    <3>2. Entered(h)' \subseteq Seated'
      <4>1. \A u \in Entered(h)' : u \in Seated'
        <5> SUFFICES ASSUME NEW u \in Entered(h)' PROVE u \in Seated'
          OBVIOUS
        <5>1. PICK k \in 1..h : \E i \in DOMAIN hashes'[k] : In(k, i, u)'
          BY DEF Entered
        <5>2. PICK i \in DOMAIN hashes'[k] : hashes'[k][i].key = u
          BY <5>1 DEF In
        <5>3. u \in Ids /\ k \in 1..Len(hashes')
          BY <1>l DEF Entered
        <5>4. tail'[u] = <<hashes'[k][i].value>>
          BY <3>1, <5>2, <5>3 DEF OwnerInv, EntriesOK, EntryOK
        <5> QED
          BY <5>3, <5>4, SingletonTail DEF Seated
      <4> QED
        BY <4>1
    <3>3. Admitted(h, c)' \subseteq CountedIn'
      BY DEF Admitted, CountedIn
    <3>4. B \subseteq Seated' \cup CountedIn' /\ Seated' \cup CountedIn' \subseteq Ids
      BY <3>2, <3>3 DEF Seated, CountedIn
    <3>5. /\ Cardinality(B) \in Nat /\ Cardinality(Seated' \cup CountedIn') \in Nat
          /\ Cardinality(B) <= Cardinality(Seated' \cup CountedIn')
      <4> HIDE DEF B
      <4> QED
        BY <3>4, ThreadSets
    <3> HIDE DEF B
    <3>6. Within(Cardinality(B), c)
      BY <1>l, <2>7, <3>1, <3>5 DEF Within
    <3> QED
      BY <3>6 DEF Bounded, B
  <2> QED
    BY <2>2, <2>6, <2>7
<1>2. CASE h \notin 1..Len(hashes)
  <2>1. Added /\ AtPlace(t, "resize")
    BY <1>t, <1>2, StepTables DEF Puts, PutIn, Erased
  <2>2. Resize(t)
    BY <2>1 DEF AtPlace, Step, GetOrAdd, ThreadExit, Start, Lookup, Reinsert, CountIn, TestResize,
       Unlock, NoMemory, GiveUp, Room, Recycle, Create, Subscribe, Insert, Uncount, Exit, Erase, Inactive,
       NextListener
  <2>3. Len(hashes') = Len(hashes) + 1 /\ h = Len(hashes) + 1
    BY <1>2, <1>l, <2>1 DEF Added
  <2>4. PICK old : old = Len(hashes) /\ old \in 1..Len(hashes)
    BY <1>l
  <2>5. Limit(old) <= c
    <3>1. Capacity(old) <= Capacity(h)' /\ Capacity(h)' \in Nat /\ Capacity(old) \in Nat
      BY <1>t, <2>1, <2>2, <2>3, <2>4, ResizeGrows, TableSets
    <3>2. Limit(old) <= Limit(h)' /\ Limit(old) \in Nat /\ Limit(h)' \in Nat
      BY <3>1, LimitGrows DEF Limit
    <3> QED
      BY <3>2
  <2> DEFINE A == Entered(old) \cup Admitted(old, c)
             B == Entered(h)' \cup Admitted(h, c)'
  <2>6. Within(Cardinality(A), c)
    BY <2>4, <2>5 DEF LaterTablesInv, Bounded
  <2>7. ASSUME NEW u \in Entered(h)'
        PROVE  u \in Entered(old)
    <3>1. PICK k \in 1..h : \E i \in DOMAIN hashes'[k] : In(k, i, u)'
      BY <2>7 DEF Entered
    <3>2. PICK i : In(k, i, u)'
      BY <3>1
    <3>3. u \in Ids /\ k \in 1..Len(hashes')
      BY <2>3, <3>1 DEF Entered
    <3>4. ~Reinsert(t) /\ ~Insert(t)
      BY <2>1 DEF AtPlace, Reinsert, Insert
    <3>5. k \in 1..Len(hashes) /\ In(k, i, u)
      BY <1>t, <3>2, <3>3, <3>4, InStep
    <3> QED
      BY <2>4, <3>3, <3>5 DEF Entered, In
  <2>8. ASSUME NEW u \in Admitted(h, c)'
        PROVE  u \in Admitted(old, c)
    <3>t. my \in [Ids -> Fields] /\ ipc \in [Ids -> Places] /\ u \in Ids
          /\ my[u].main <= old
      <4>1. u \in Ids
        BY <2>8 DEF Admitted
      <4>2. my[u].main \in 1..old
        BY <1>t, <2>4, <4>1 DEF ThreadOK
      <4>3. my \in [Ids -> Fields] /\ ipc \in [Ids -> Places]
        BY <1>t DEF Typed
      <4> QED
        BY <4>1, <4>2, <4>3
    <3>1. CASE u # t
      <4>1. ipc'[u] = ipc[u] /\ my'[u] = my[u]
        BY <1>t, <3>1, <3>t, OthersUndisturbed DEF Undisturbed
      <4> QED
        BY <2>8, <3>t, <4>1 DEF Admitted
    <3>2. CASE u = t
      <4>1. /\ ipc[t] = "resize" /\ ipc'[t] \in {"unlock", "noMemory"}
            /\ my'[t].count = my[t].count
        BY <2>2, <3>t, <3>2 DEF Resize, AtPlace, Goto, Fields
      <4> QED
        BY <2>8, <3>t, <3>2, <4>1 DEF Admitted, Counted
    <3> QED
      BY <3>1, <3>2
  <2>9. B \subseteq A /\ A \subseteq Ids
    BY <2>7, <2>8 DEF Entered, Admitted
  <2> HIDE DEF A, B
  <2>10. Within(Cardinality(B), c)
    BY <2>6, <2>9, WithinSubset
  <2> QED
    BY <2>10 DEF Bounded, B
<1> QED
  BY <1>1, <1>2

LEMMA LaterTablesStep ==
  ASSUME ProducersConstantsOK, OwnerInv, OwnerInv', LivesInv, LaterTablesInv,
         NEW t \in Ids, Step(t), ~ThreadExit(t)
  PROVE  LaterTablesInv'
<1>t. /\ Typed /\ Typed' /\ (\A u \in Ids : ThreadOK(u)) /\ (\A u \in Ids : ThreadOK(u) /\ PlaceOK(u))
  BY DEF OwnerInv, LivesInv
<1>1. NoReuse /\ NoReuse'
  BY <1>t, NoReuseStep DEF LaterTablesInv
<1>2. queue' = "open" => Cardinality(Seated' \cup CountedIn') <= hashCount'
  <2>1. queue' = queue
    BY DEF Step, GetOrAdd, ThreadExit, Start, Lookup, Reinsert, CountIn, TestResize, Resize, Unlock,
       NoMemory, GiveUp, Room, Recycle, Create, Subscribe, Insert, Uncount, destruction
  <2> QED
    BY <1>t, <1>1, <2>1, SeatedStep DEF LaterTablesInv
<1>3. ASSUME NEW h \in 1..Len(hashes')
      PROVE  Used(h)' <= Cardinality(HasEntry(h)')
  <2>1. CASE h \in 1..Len(hashes)
    BY <1>t, <2>1, OneSlotStep DEF LaterTablesInv
  <2>2. CASE h \notin 1..Len(hashes)
    <3>n. Len(hashes) \in Nat
      BY <1>t DEF Typed
    <3>1. Added /\ AtPlace(t, "resize")
      BY <1>t, <1>3, <2>2, StepTables DEF Puts, PutIn, Erased
    <3>2. Resize(t)
      BY <3>1 DEF AtPlace, Step, GetOrAdd, ThreadExit, Start, Lookup, Reinsert, CountIn, TestResize,
         Unlock, NoMemory, GiveUp, Room, Recycle, Create, Subscribe, Insert, Uncount
    <3>3. h = Len(hashes) + 1
      BY <1>3, <2>2, <3>n, <3>1 DEF Added
    <3>4. Used(h)' = 0
      BY <1>t, <3>1, <3>2, <3>3, ResizeGrows
    <3>5. HasEntry(h)' \subseteq Ids
      BY DEF HasEntry
    <3>6. Cardinality(HasEntry(h)') \in Nat
      BY <3>5, ThreadSets
    <3> QED
      BY <3>4, <3>6
  <2> QED
    BY <2>1, <2>2
<1>4. ASSUME NEW h \in 1..Len(hashes'), NEW c \in Nat, Limit(h)' <= c
      PROVE  Bounded(h, c)'
  BY <1>2, <1>4, BoundedStep
<1> QED
  BY <1>1, <1>2, <1>3, <1>4 DEF LaterTablesInv

\* The destruction of the queue leaves the tables and the threads as they are.
LEMMA TablesKept ==
  ASSUME UNCHANGED <<hashes, hashCount, starts, ipc, my>>,
         queue' = "open" => queue = "open" /\ tail' = tail, TableInv
  PROVE  TableInv'
<1>1. FirstTableInv'
  BY DEF TableInv, FirstTableInv, CountedIn, Admitted, Used, UsedIn, Limit, Capacity
<1>2. LivesInv'
  BY DEF TableInv, LivesInv, Living, PlaceOK, Registered, In, Capacity
<1>3. ASSUME LaterTablesInv
      PROVE  LaterTablesInv'
  <2>1. NoReuse'
    BY <1>3 DEF LaterTablesInv, NoReuse
  <2>2. (queue = "open" => Cardinality(Seated \cup CountedIn) <= hashCount)'
    BY <1>3 DEF LaterTablesInv, Seated, CountedIn
  <2>3. (\A h \in 1..Len(hashes) : Used(h) <= Cardinality(HasEntry(h)))'
    BY <1>3 DEF LaterTablesInv, Used, UsedIn, HasEntry, In
  <2>4. (\A h \in 1..Len(hashes) : \A c \in Nat : Limit(h) <= c => Bounded(h, c))'
    BY <1>3 DEF LaterTablesInv, Bounded, Entered, Admitted, In, Limit, Capacity
  <2> QED
    BY <2>1, <2>2, <2>3, <2>4 DEF LaterTablesInv
<1>4. NoneExited' => NoneExited
  BY DEF NoneExited
<1> QED
  BY <1>1, <1>2, <1>3, <1>4 DEF TableInv

LEMMA TableInit ==
  ASSUME ProducersConstantsOK, ProducersInit
  PROVE  TableInv
<1> USE DEF ProducersInit
<1>1. Len(hashes) = 1 /\ hashes[1] = NewTable(InitialCapacity) /\ hashCount = 0 /\ starts = 0
  OBVIOUS
<1>2. /\ \A h \in 1..Len(hashes) : \A i \in DOMAIN hashes[h] : hashes[h][i].key = Empty
      /\ Empty \notin Ids /\ Empty # Reusable
  BY <1>1 DEF NewTable, ProducersConstantsOK
<1>3. Typed
  BY InvInit DEF OwnerInv
<1>4. 1 \in 1..Len(hashes) /\ Limit(1) \in Nat
  BY <1>1, <1>3, TableSets
<1>5. /\ \A u \in Ids : ipc[u] = "none" /\ tail[u] = <<>>
      /\ Cardinality({}) = 0
  BY FS_EmptySet
<1>6. CountedIn = {} /\ Living = {} /\ Seated = {} /\ \A h, c : Admitted(h, c) = {}
  BY <1>5 DEF CountedIn, Counted, Living, Seated, Admitted
<1>7. \A h \in 1..Len(hashes) : UsedIn(h) = {} /\ HasEntry(h) = {} /\ Entered(h) = {}
  BY <1>1, <1>2 DEF UsedIn, HasEntry, Entered, In
<1>z. /\ \A h \in 1..Len(hashes) : Used(h) = 0 /\ Cardinality(HasEntry(h)) = 0
      /\ Cardinality(CountedIn) = 0 /\ \A h, c : Cardinality(Admitted(h, c)) = 0
  BY <1>5, <1>6, <1>7, Zenon DEF Used
<1>8. FirstTableInv
  <2>1. Used(1) = 0 /\ Cardinality(CountedIn) = 0 /\ Cardinality(Admitted(1, Limit(1))) = 0
    BY <1>4, <1>z
  <2> QED
    BY <1>1, <2>1 DEF FirstTableInv, Within
<1>9. LivesInv
  <2>1. Cardinality(Living) <= starts
    BY <1>1, <1>5, <1>6
  <2>2. \A u \in Ids : PlaceOK(u)
    BY <1>5 DEF PlaceOK
  <2>3. Capacity(1) <= Capacity(1)
    BY <1>3, <1>4, TableSets
  <2>4. \A h \in 1..Len(hashes) : \A k \in 1..h : Capacity(k) <= Capacity(h)
    BY <1>1, <2>3
  <2> QED
    BY <2>1, <2>2, <2>4 DEF LivesInv
<1>10. LaterTablesInv
  <2>1. NoReuse
    BY <1>2, <1>5 DEF NoReuse
  <2>2. Cardinality(Seated \cup CountedIn) <= hashCount
    BY <1>1, <1>5, <1>6
  <2>3. \A h \in 1..Len(hashes) : Used(h) <= Cardinality(HasEntry(h))
    BY <1>z
  <2>4. \A h \in 1..Len(hashes) : \A c \in Nat : Bounded(h, c)
    BY <1>5, <1>6, <1>7 DEF Bounded, Within
  <2> QED
    BY <2>1, <2>2, <2>3, <2>4 DEF LaterTablesInv
<1> QED
  BY <1>8, <1>9, <1>10 DEF TableInv

LEMMA TableNext ==
  ASSUME ProducersConstantsOK, OwnerInv, OwnerInv', TableInv, [ProducersNext]_ownerVars
  PROVE  TableInv'
<1>t. Typed /\ Typed' /\ (\A u \in Ids : ThreadOK(u)) /\ LivesInv /\ FirstTableInv
  BY DEF OwnerInv, TableInv
<1>1. ASSUME NEW t \in Ids, Step(t)
      PROVE  TableInv'
  <2>1. FirstTableInv'
    BY <1>t, <1>1, FirstTableStep
  <2>2. LivesInv'
    <3>1. Cardinality(Living') <= starts'
      BY <1>t, <1>1, LivingStep DEF LivesInv
    <3>2. \A u \in Ids : PlaceOK(u)'
      BY <1>t, <1>1, PlaceStep DEF LivesInv
    <3>3. (\A h \in 1..Len(hashes) : \A k \in 1..h : Capacity(k) <= Capacity(h))'
      BY <1>t, <1>1, CapacityStep DEF LivesInv
    <3> QED
      BY <3>1, <3>2, <3>3 DEF LivesInv
  <2>3. ASSUME NoneExited'
        PROVE  LaterTablesInv'
    <3>1. NoneExited /\ ~ThreadExit(t)
      BY <1>t, <1>1, <2>3, NoneExitedStep DEF LivesInv
    <3> QED
      BY <1>t, <1>1, <3>1, LaterTablesStep DEF TableInv
  <2> QED
    BY <2>1, <2>2, <2>3 DEF TableInv
<1>2. CASE Destroy \/ UNCHANGED ownerVars
  <2>1. /\ UNCHANGED <<hashes, hashCount, starts, ipc, my>>
        /\ queue' = "open" => queue = "open" /\ tail' = tail
    BY <1>2 DEF Destroy, Close, Unsubscribe, FreeInactive, FreeTables, ownerVars, tables, notifier,
       destruction
  <2> QED
    BY <2>1, TablesKept
<1> QED
  BY <1>1, <1>2 DEF ProducersNext, Step

-----------------------------------------------------------------------------
(* The theorems.                                                            *)

\* A sub-queue has one producing thread and a thread one sub-queue, for any number
\* of threads, whatever tables they insert into and however often ids come back.
THEOREM OneOwnerCorrect == ProducersSpec => []OneOwner
<1>1. IInv => OneOwner
  <2> SUFFICES ASSUME IInv,
                      NEW x \in {z \in Owned : z[1] \in Ids}, NEW y \in {z \in Owned : z[1] \in Ids}
               PROVE  x[1] = y[1] <=> x[2] = y[2]
    BY DEF OneOwner
  <2>i. OwnerInv
    BY DEF IInv
  <2> DEFINE Going(z) == \E t \in Ids : /\ ipc[t] \in {"subscribe", "insert", "reinsert"}
                                        /\ z[1] = t /\ z[2] = my[t].producer
             Listed(z) == \E h \in 1..Len(hashes) : \E i \in DOMAIN hashes[h] :
                            z[1] = hashes[h][i].key /\ z[2] = hashes[h][i].value
  <2>1. ASSUME NEW z \in Owned
        PROVE  Going(z) \/ Listed(z)
    BY <2>1 DEF Owned, mainHash
  <2>2. ASSUME NEW z \in Owned, z[1] \in Ids, queue = "open"
        PROVE  Holds(z[1], z[2]) /\ z[2] \in Nat
    <3>1. CASE Going(z)
      <4>1. PICK t \in Ids : /\ ipc[t] \in {"subscribe", "insert", "reinsert"}
                             /\ z[1] = t /\ z[2] = my[t].producer
        BY <3>1
      <4>2. my[t].producer \in Nat
        BY <2>i DEF OwnerInv, Typed, Fields
      <4> QED
        BY <2>i, <4>1, <4>2 DEF OwnerInv, ThreadOK, Holds
    <3>2. CASE Listed(z)
      BY <2>i, <2>2, <3>2, EntryHolds
    <3> QED
      BY <2>1, <2>2, <3>1, <3>2
  <2>3. CASE queue = "open"
    <3>1. Holds(x[1], x[2]) /\ Holds(y[1], y[2]) /\ x[1] \in Ids /\ y[1] \in Ids
          /\ x[2] \in Nat /\ y[2] \in Nat
      BY <2>2, <2>3
    <3>2. x[2] = y[2] => x[1] = y[1]
      BY <2>i, <3>1 DEF OwnerInv, HolderOK
    <3>3. x[1] = y[1] => x[2] = y[2]
      <4>1. ASSUME NEW t \in Ids, NEW p \in Nat, NEW q \in Nat, Holds(t, p), Holds(t, q)
            PROVE  p = q
        <5>1. ipc[t] = "subscribe" => tail[t] = <<>>
          BY <2>i DEF OwnerInv, ThreadOK, Counted
        <5>2. \A v, w : <<v>> = <<w>> => v = w
          OBVIOUS
        <5> QED
          BY <4>1, <5>1, <5>2, SingletonTail DEF Holds
      <4> QED
        BY <3>1, <4>1
    <3> QED
      BY <3>2, <3>3
  <2>4. CASE queue # "open"
    <3>1. \A t \in Ids : ipc[t] \notin {"subscribe", "insert", "reinsert"}
      BY <2>i, <2>4 DEF OwnerInv, ThreadOK, Exiting
    <3>2. Listed(x) /\ Listed(y)
      BY <2>1, <3>1
    <3> QED
      BY <2>i, <3>2 DEF OwnerInv, EntriesOK, SameOwner
  <2> QED
    BY <2>3, <2>4
<1> QED
  BY <1>1, IInvCorrect, PTL

\* The callback of an exiting thread uses the tables and its producer only while
\* they exist, at whatever moment the queue is destroyed.
THEOREM CallbackSafeCorrect == ProducersSpec => []CallbackSafe
<1>1. IInv => CallbackSafe
  <2> SUFFICES ASSUME IInv, NEW t \in Ids, ipc[t] \in {"erase", "inactive"}
               PROVE  queue # "gone" /\ my[t].producer \notin freed
    BY DEF CallbackSafe
  <2>1. OwnerInv
    BY DEF IInv
  <2>2. tail[t] = <<my[t].producer>> /\ my[t].producer \in Nat
    BY <2>1 DEF OwnerInv, ThreadOK, Exiting, Typed, Fields
  <2>3. my[t].producer \in 1..Len(producers) /\ my[t].producer \notin freed
    BY <2>1, <2>2 DEF OwnerInv, HolderOK, Holds
  <2>4. queue = "gone" => freed = 1..Len(producers)
    BY <2>1 DEF OwnerInv, DestroyOK
  <2> QED
    BY <2>3, <2>4
<1> QED
  BY <1>1, IInvCorrect, PTL

\* The variables keep their types: the count of used slots, which is incremented
\* and decremented apart from the slots, stays between zero and the threads started.
THEOREM ProducersTypeCorrect == ProducersSpec => []ProducersTypeOK
<1>1. IInv => ProducersTypeOK
  <2> SUFFICES ASSUME IInv PROVE ProducersTypeOK
    OBVIOUS
  <2>1. Typed /\ (\A t \in Ids : ThreadOK(t)) /\ CountInv /\ ValuesOK /\ DestroyOK /\ MaxStarts \in Nat
    BY DEF IInv, OwnerInv, ProducersConstantsOK
  <2>2. ASSUME NEW h \in 1..mainHash, NEW i \in DOMAIN hashes[h]
        PROVE  /\ hashes[h][i].key \in Ids \cup {Empty, Reusable}
               /\ hashes[h][i].value \in 0..Len(producers)
    <3>1. h \in 1..Len(hashes) /\ hashes[h] \in Tables
      BY <2>1 DEF Typed, mainHash
    <3>2. hashes[h][i] \in Slots
      BY <3>1, TableShape
    <3> QED
      BY <2>1, <3>1, <3>2 DEF Slots, ValuesOK
  <2>3. hashCount \in 0..MaxStarts
    BY <2>1 DEF Typed, CountInv
  <2>4. producers \in [1..Len(producers) -> BOOLEAN]
    BY <2>1 DEF Typed
  <2>5. chain \in [1..Len(producers) -> Ids \cup {None}]
    BY <2>1 DEF Typed
  <2>6. ASSUME NEW t \in Ids, NEW k \in 1..Len(tail[t])
        PROVE  tail[t][k] \in 1..Len(producers)
    BY <2>1 DEF ThreadOK
  <2>7. freed \subseteq 1..Len(producers)
    BY <2>1 DEF Typed, DestroyOK
  <2>8. ASSUME NEW t \in Ids
        PROVE  my[t] \in [main : 1..mainHash, index : Nat, count : 0..MaxStarts,
                          producer : 0..Len(producers)]
    BY <2>1 DEF Typed, Fields, ThreadOK, CountInv, mainHash
  <2>9. my \in [Ids -> [main : 1..mainHash, index : Nat, count : 0..MaxStarts,
                        producer : 0..Len(producers)]]
    BY <2>1, <2>8 DEF Typed
  <2>10. /\ resizing \in BOOLEAN /\ mutex \in Ids \cup {None} /\ starts \in 0..MaxStarts
         /\ queue \in {"open", "producers", "gone"} /\ victim \in 0..Len(producers)
    BY <2>1 DEF Typed
  <2>11. ipc \in [Ids -> {"none", "idle", "reinsert", "count", "test", "resize", "unlock",
                          "noMemory", "giveUp", "room", "recycle", "subscribe",
                          "insert", "uncount", "erase", "inactive", "next"}]
    BY <2>1 DEF Typed, Places, Counted, Exiting
  <2> QED
    BY <2>2, <2>3, <2>4, <2>5, <2>6, <2>7, <2>9, <2>10, <2>11 DEF ProducersTypeOK
<1> QED
  BY <1>1, IInvCorrect, PTL

\* The first table always keeps more than a quarter of its slots free, and so does
\* every later one until a thread exits: the search for an id comes to an empty slot,
\* for any number of threads, whichever table each of them has loaded.
THEOREM TableNotFullCorrect == ProducersSpec => []TableNotFull
<1>1. ProducersInit => TableInv
  BY ProducersAssumption, TableInit
<1>2. IInv /\ IInv' /\ TableInv /\ [ProducersNext]_ownerVars => TableInv'
  BY TableNext DEF IInv
<1>3. IInv /\ TableInv => TableNotFull
  <2> SUFFICES ASSUME IInv, TableInv, NEW h \in 1..mainHash, h = 1 \/ NoneExited
               PROVE  4 * Cardinality(DOMAIN hashes[h] \ SlotOf(h, Empty)) < 3 * Capacity(h)
    BY DEF TableNotFull
  <2>1. ProducersConstantsOK /\ Typed /\ h \in 1..Len(hashes)
    BY DEF IInv, OwnerInv, mainHash
  <2>2. Capacity(h) \in Nat \ {0} /\ Used(h) \in Nat /\ Limit(h) \in Nat
    BY <2>1, TableSets
  <2>3. DOMAIN hashes[h] \ SlotOf(h, Empty) = UsedIn(h)
    BY DEF SlotOf, UsedIn
  <2>4. Within(Used(h), Limit(h))
    <3>1. CASE h = 1
      <4> DEFINE k == Cardinality(Admitted(1, Limit(1)))
      <4>1. k \in Nat
        BY <2>1, ThreadSets DEF Admitted
      <4>2. Within(Used(h) + k, Limit(h))
        BY <3>1 DEF TableInv, FirstTableInv
      <4> HIDE DEF k
      <4> QED
        BY <2>2, <4>1, <4>2 DEF Within
    <3>2. CASE NoneExited
      <4>1. Used(h) <= Cardinality(HasEntry(h)) /\ Bounded(h, Limit(h))
        BY <2>1, <2>2, <3>2 DEF TableInv, LaterTablesInv
      <4> DEFINE A == Entered(h) \cup Admitted(h, Limit(h))
                 k == Cardinality(HasEntry(h))
      <4>2. HasEntry(h) \subseteq A /\ A \subseteq Ids
        BY <2>1 DEF HasEntry, Entered, Admitted
      <4>3. Within(Cardinality(A), Limit(h))
        BY <4>1 DEF Bounded
      <4>4. Within(k, Limit(h)) /\ k \in Nat
        <5> HIDE DEF A
        <5> QED
          BY <2>1, <2>2, <4>2, <4>3, ThreadSets DEF Within
      <4> HIDE DEF k
      <4>5. Used(h) <= k
        BY <4>1 DEF k
      <4> QED
        BY <2>2, <4>4, <4>5 DEF Within
    <3> QED
      BY <3>1, <3>2
  <2>5. 4 * Used(h) < 3 * Capacity(h)
    BY <2>2, <2>4, LimitGrows DEF Limit
  <2> QED
    BY <2>3, <2>5 DEF Used
<1> QED
  BY <1>1, <1>2, <1>3, IInvCorrect, PTL DEF ProducersSpec

=============================================================================

---------------------------- MODULE CSessionProofs ----------------------------
(***************************************************************************)
(* Proofs about CSession, for every set of handlers and number of requests. *)
(*                                                                         *)
(* WriterInv strengthens NoLostReply to the writer's drain: what happens   *)
(* between its failed try_dequeue and async_receive.  RequestInv           *)
(* strengthens RepliesAsked by the request the reader is working on.       *)
(* QueueInv adds to RepliesAccounted that the replies queued are finitely  *)
(* many, so that one more or one less can be counted.                      *)
(***************************************************************************)
EXTENDS CSession, TLAPS, FiniteSetTheorems

\* The type invariant holds initially and in every step.
LEMMA TypeInit == Init => TypeOK
<1> SUFFICES ASSUME Init PROVE TypeOK
  OBVIOUS
<1>1. isStop \in BOOLEAN /\ registered \in BOOLEAN /\ writeChannel \in BOOLEAN
  BY Zenon DEF Init
<1>2. requests \in 0..MaxRequests
  BY ConstantsAssumption, SMT DEF Init
<1> QED
  BY <1>1, <1>2 DEF Init, TypeOK

LEMMA TypeStep == TypeOK /\ [Next]_vars => TypeOK'
<1> SUFFICES ASSUME TypeOK, [Next]_vars PROVE TypeOK'
  OBVIOUS
<1> USE ConstantsAssumption DEF readerVars, writerVars, handlerVars, closeVars
<1>1. CASE Start
  BY <1>1 DEF Start, TypeOK
<1>2. CASE ReaderBegins
  BY <1>2 DEF ReaderBegins, NextRead, TypeOK
<1>3. CASE AllocateBody
  BY <1>3 DEF AllocateBody, Close, TypeOK
<1>4. CASE PostNode
  BY <1>4 DEF PostNode, NextRead, TypeOK
<1>5. CASE HeaderArrives
  BY <1>5 DEF HeaderArrives, TypeOK
<1>6. CASE BodyArrives
  BY <1>6 DEF BodyArrives, TypeOK
<1>7. CASE ReadFails
  <2>1. leaked' \in Nat
    BY <1>7 DEF ReadFails, TypeOK
  <2>2. isStop' \in BOOLEAN /\ registered' \in BOOLEAN
    BY <1>7, Zenon DEF ReadFails, Close
  <2>3. UNCHANGED <<requests, wpc, wseen, sendNodes, writeChannel, nodes, hpc,
                    enqueued, sent>>
    BY <1>7 DEF ReadFails
  <2>4. rpc' = "done"
    BY <1>7 DEF ReadFails
  <2> QED
    BY <2>1, <2>2, <2>3, <2>4 DEF TypeOK
<1>8. CASE WriteFails
  BY <1>8 DEF WriteFails, Close, TypeOK
<1>9. CASE WriteCompletes
  BY <1>9 DEF WriteCompletes, TypeOK
<1>10. ASSUME NEW h \in Handlers, FindNode(h) PROVE TypeOK'
  <2>1. sendNodes[h] - 1 \in Nat
    BY <1>10 DEF FindNode, TypeOK
  <2> QED
    BY <1>10, <2>1 DEF FindNode, TypeOK
<1>11. ASSUME NEW h \in Handlers, SeeEmpty(h) PROVE TypeOK'
  BY <1>11 DEF SeeEmpty, TypeOK
<1>12. CASE WriterParks \/ WriterStops
  BY <1>12 DEF WriterParks, WriterStops, TypeOK
<1>13. ASSUME NEW h \in Handlers, TakeNode(h) PROVE TypeOK'
  <2>1. nodes - 1 \in Nat
    BY <1>13 DEF TakeNode, TypeOK
  <2> QED
    BY <1>13, <2>1 DEF TakeNode, TypeOK
<1>14. ASSUME NEW h \in Handlers, EnqueueReply(h) PROVE TypeOK'
  BY <1>14 DEF EnqueueReply, TypeOK
<1>15. ASSUME NEW h \in Handlers, SignalWriter(h) PROVE TypeOK'
  BY <1>15 DEF SignalWriter, TypeOK
<1>16. ASSUME NEW h \in Handlers, ReleaseNode(h) PROVE TypeOK'
  BY <1>16 DEF ReleaseNode, TypeOK
<1>17. CASE UNCHANGED vars
  BY <1>17 DEF vars, TypeOK
<1> QED
  BY <1>1, <1>2, <1>3, <1>4, <1>5, <1>6, <1>7, <1>8, <1>9, <1>10, <1>11, <1>12,
     <1>13, <1>14, <1>15, <1>16, <1>17
  DEF Next, Reader, Network, Writer, Handler

\* Every variable keeps its type: in particular no count of queued requests or
\* replies becomes negative.
THEOREM TypeCorrect == Spec => []TypeOK
BY TypeInit, TypeStep, PTL DEF Spec

-----------------------------------------------------------------------------
(* The wake-up of the writer.                                               *)

\* Why NoLostReply survives: a reply that arrives on a sub-queue the drain has
\* already passed is buffered in the channel, or about to be signalled.
WriterInv ==
  /\ NoLostReply
  /\ rpc = "none" => wpc = "none"
  /\ wseen # {} => wpc \in {"run", "final"}
  /\ wpc = "run" =>
       \A h \in wseen : sendNodes[h] > 0 => writeChannel \/ hpc[h] = "signal"

\* It holds initially and in every step.
LEMMA WriterInit == Init => WriterInv
BY DEF Init, WriterInv, NoLostReply

LEMMA WriterStep == TypeOK /\ WriterInv /\ [Next]_vars => WriterInv'
<1> SUFFICES ASSUME TypeOK, WriterInv, [Next]_vars PROVE WriterInv'
  OBVIOUS
<1> USE DEF readerVars, writerVars, handlerVars, closeVars
<1>1. CASE Start
  BY <1>1 DEF Start, WriterInv, NoLostReply
<1>2. CASE Reader
  BY <1>2 DEF Reader, ReaderBegins, AllocateBody, PostNode, NextRead, WriterInv, NoLostReply
<1>3. CASE Network
  BY <1>3 DEF Network, HeaderArrives, BodyArrives, ReadFails, WriteCompletes,
              WriteFails, WriterInv, NoLostReply
<1>4. ASSUME NEW h \in Handlers, FindNode(h) PROVE WriterInv'
  BY <1>4 DEF FindNode, WriterInv, NoLostReply
\* The sub-queue the drain passes is empty at that moment.
<1>5. ASSUME NEW h \in Handlers, SeeEmpty(h) PROVE WriterInv'
  BY <1>5 DEF SeeEmpty, WriterInv, NoLostReply
\* Everything was passed: what is not buffered is about to be signalled.
<1>6. CASE WriterParks
  <2>1. CASE writeChannel
    BY <1>6, <2>1 DEF WriterParks, WriterInv, NoLostReply
  <2>2. CASE ~writeChannel
    BY <1>6, <2>2 DEF WriterParks, WriterInv, NoLostReply
  <2> QED
    BY <2>1, <2>2
<1>7. CASE WriterStops
  BY <1>7 DEF WriterStops, WriterInv, NoLostReply
<1>8. ASSUME NEW h \in Handlers, TakeNode(h) PROVE WriterInv'
  <2>1. \A g \in Handlers : hpc[g] = "signal" => hpc'[g] = "signal"
    BY <1>8 DEF TakeNode, TypeOK
  <2> QED
    BY <1>8, <2>1 DEF TakeNode, WriterInv, NoLostReply, TypeOK
<1>9. ASSUME NEW h \in Handlers, EnqueueReply(h) PROVE WriterInv'
  <2>1. CASE UNCHANGED sendNodes
    <3>1. \A g \in Handlers : hpc[g] = "signal" => hpc'[g] = "signal"
      BY <1>9 DEF EnqueueReply, TypeOK
    <3> QED
      BY <1>9, <2>1, <3>1 DEF EnqueueReply, WriterInv, NoLostReply, TypeOK
  <2>2. CASE sendNodes' = [sendNodes EXCEPT ![h] = @ + 1] /\ hpc'[h] = "signal"
    <3>1. \A g \in Handlers \ {h} : sendNodes'[g] = sendNodes[g] /\ hpc'[g] = hpc[g]
      BY <1>9, <2>2 DEF EnqueueReply, TypeOK
    <3> QED
      BY <1>9, <2>2, <3>1 DEF EnqueueReply, WriterInv, NoLostReply, TypeOK
  <2> QED
    BY <1>9, <2>1, <2>2 DEF EnqueueReply, TypeOK
<1>10. ASSUME NEW h \in Handlers, SignalWriter(h) PROVE WriterInv'
  <2>1. CASE wpc = "waiting"
    BY <1>10, <2>1 DEF SignalWriter, WriterInv, NoLostReply
  <2>2. CASE wpc # "waiting"
    BY <1>10, <2>2 DEF SignalWriter, WriterInv, NoLostReply
  <2> QED
    BY <2>1, <2>2
<1>11. ASSUME NEW h \in Handlers, ReleaseNode(h) PROVE WriterInv'
  <2>1. \A g \in Handlers : hpc[g] = "signal" => hpc'[g] = "signal"
    BY <1>11 DEF ReleaseNode, TypeOK
  <2> QED
    BY <1>11, <2>1 DEF ReleaseNode, WriterInv, NoLostReply, TypeOK
<1>12. CASE UNCHANGED vars
  BY <1>12 DEF vars, WriterInv, NoLostReply
<1> QED
  BY <1>1, <1>2, <1>3, <1>4, <1>5, <1>6, <1>7, <1>8, <1>9, <1>10, <1>11, <1>12
  DEF Next, Writer, Handler

\* However many handlers signal at once, and although try_send drops what the
\* one place of the channel cannot take, the writer never sleeps on a reply.
THEOREM WakeUpCorrect == Spec => []NoLostReply
<1>1. Init => TypeOK /\ WriterInv
  BY TypeInit, WriterInit
<1>2. TypeOK /\ WriterInv /\ [Next]_vars => (TypeOK /\ WriterInv)'
  BY TypeStep, WriterStep
<1>3. WriterInv => NoLostReply
  BY DEF WriterInv
<1> QED
  BY <1>1, <1>2, <1>3, PTL DEF Spec

-----------------------------------------------------------------------------
(* The way of a request.                                                    *)

Answering == {h \in Handlers : hpc[h] = "enqueue"}

\* Why RepliesAsked survives: the request the reader has begun to read and not
\* posted yet is counted in requests and nowhere else.
RequestInv ==
  enqueued + nodes + leaked + Cardinality(Answering)
    + (IF rpc \in {"gotHeader", "body", "gotBody"} THEN 1 ELSE 0) <= requests

\* The handlers about to answer are finitely many.
LEMMA AnsweringFinite == IsFiniteSet(Answering) /\ Cardinality(Answering) \in Nat
<1>1. Answering \in SUBSET Handlers
  BY DEF Answering
<1>2. IsFiniteSet(Answering)
  BY <1>1, ConstantsAssumption, FS_Subset
<1> QED
  BY <1>2, FS_CardinalityType

\* It holds initially and in every step.
LEMMA RequestInit == Init => RequestInv
<1> SUFFICES ASSUME Init PROVE RequestInv
  OBVIOUS
<1>1. Answering = {}
  BY DEF Init, Answering
<1>2. Cardinality(Answering) = 0
  BY <1>1, FS_EmptySet
<1> QED
  BY <1>2 DEF Init, RequestInv

LEMMA RequestStep == TypeOK /\ RequestInv /\ [Next]_vars => RequestInv'
<1> SUFFICES ASSUME TypeOK, RequestInv, [Next]_vars PROVE RequestInv'
  OBVIOUS
<1> USE AnsweringFinite DEF readerVars, writerVars, handlerVars, closeVars
<1>0. enqueued \in Nat /\ nodes \in Nat /\ leaked \in Nat /\ requests \in Nat
  BY ConstantsAssumption DEF TypeOK
<1>1. ASSUME UNCHANGED hpc PROVE Cardinality(Answering)' = Cardinality(Answering)
  BY <1>1 DEF Answering
\* Steps of the writer, and of the handlers once they have answered.
<1>2. ASSUME UNCHANGED <<enqueued, nodes, leaked, requests, rpc>>,
             Answering' = Answering
      PROVE  RequestInv'
  BY <1>2 DEF RequestInv
<1>3. CASE Start
  BY <1>0, <1>1, <1>3 DEF Start, RequestInv
<1>4. CASE ReaderBegins
  BY <1>0, <1>1, <1>4 DEF ReaderBegins, NextRead, RequestInv
<1>5. CASE AllocateBody
  BY <1>0, <1>1, <1>5 DEF AllocateBody, Close, RequestInv
<1>6. CASE PostNode
  BY <1>0, <1>1, <1>6 DEF PostNode, NextRead, RequestInv
<1>7. CASE HeaderArrives
  BY <1>0, <1>1, <1>7 DEF HeaderArrives, RequestInv
<1>8. CASE BodyArrives
  BY <1>0, <1>1, <1>8 DEF BodyArrives, RequestInv
<1>9. CASE ReadFails
  BY <1>0, <1>1, <1>9 DEF ReadFails, Close, RequestInv
<1>10. CASE WriteFails
  BY <1>2, <1>10 DEF WriteFails, Answering
<1>11. CASE WriteCompletes
  BY <1>2, <1>11 DEF WriteCompletes, Answering
<1>12. ASSUME NEW h \in Handlers, FindNode(h) \/ SeeEmpty(h) PROVE RequestInv'
  BY <1>2, <1>12 DEF FindNode, SeeEmpty, Answering
<1>13. CASE WriterParks \/ WriterStops
  BY <1>2, <1>13 DEF WriterParks, WriterStops, Answering
<1>14. ASSUME NEW h \in Handlers, TakeNode(h) PROVE RequestInv'
  <2>1. h \notin Answering
    BY <1>14 DEF TakeNode, Answering
  <2>2. Cardinality(Answering \cup {h}) = Cardinality(Answering) + 1
    BY <2>1, FS_AddElement
  <2>3. Answering' = Answering \/ Answering' = Answering \cup {h}
    BY <1>14 DEF TakeNode, TypeOK, Answering
  <2>4. Cardinality(Answering)' \in {Cardinality(Answering), Cardinality(Answering) + 1}
    BY <2>2, <2>3
  <2>5. nodes' = nodes - 1 /\ UNCHANGED <<enqueued, leaked, requests, rpc>>
    BY <1>14 DEF TakeNode
  <2> QED
    BY <1>0, <2>4, <2>5 DEF RequestInv
<1>15. ASSUME NEW h \in Handlers, EnqueueReply(h) PROVE RequestInv'
  <2>1. h \in Answering
    BY <1>15 DEF EnqueueReply, Answering
  <2>2. Cardinality(Answering \ {h}) = Cardinality(Answering) - 1
    BY <2>1, FS_RemoveElement
  <2>3. Answering' = Answering \ {h}
    BY <1>15 DEF EnqueueReply, TypeOK, Answering
  <2>4. Cardinality(Answering)' = Cardinality(Answering) - 1
    BY <2>2, <2>3
  <2>5. /\ enqueued' = enqueued + 1 \/ enqueued' = enqueued
        /\ UNCHANGED <<nodes, leaked, requests, rpc>>
    BY <1>15 DEF EnqueueReply
  <2> QED
    BY <1>0, <2>4, <2>5 DEF RequestInv
<1>16. ASSUME NEW h \in Handlers, SignalWriter(h) \/ ReleaseNode(h) PROVE RequestInv'
  <2>1. Answering' = Answering
    BY <1>16 DEF SignalWriter, ReleaseNode, TypeOK, Answering
  <2> QED
    BY <1>2, <1>16, <2>1 DEF SignalWriter, ReleaseNode
<1>17. CASE UNCHANGED vars
  BY <1>2, <1>17 DEF vars, Answering
<1> QED
  BY <1>3, <1>4, <1>5, <1>6, <1>7, <1>8, <1>9, <1>10, <1>11, <1>12, <1>13, <1>14,
     <1>15, <1>16, <1>17
  DEF Next, Reader, Network, Writer, Handler

\* However many handlers take requests off the queue, no more replies are made
\* than requests came in, and requests that were given up are not answered.
THEOREM RequestCorrect == Spec => []RepliesAsked
<1>1. Init => TypeOK /\ RequestInv
  BY TypeInit, RequestInit
<1>2. TypeOK /\ RequestInv /\ [Next]_vars => (TypeOK /\ RequestInv)'
  BY TypeStep, RequestStep
<1>3. TypeOK /\ RequestInv => RepliesAsked
  <2> SUFFICES ASSUME TypeOK, RequestInv PROVE RepliesAsked
    OBVIOUS
  <2>1. Cardinality(Answering) \in Nat
    BY AnsweringFinite
  <2>2. enqueued + nodes + leaked + Cardinality(Answering) <= requests
    BY <2>1, ConstantsAssumption DEF TypeOK, RequestInv
  <2> QED
    BY <2>2 DEF RepliesAsked, Answering
<1> QED
  BY <1>1, <1>2, <1>3, PTL DEF Spec

-----------------------------------------------------------------------------
(* The way of a reply.                                                      *)

Writing == IF wpc = "writing" THEN 1 ELSE 0

\* Until the writer is done.
QueueInv ==
  wpc # "done" => /\ IsFiniteSet(Queued)
                  /\ enqueued = sent + Cardinality(Queued) + Writing

\* One more reply of h is one more element.
LEMMA QueuedMore ==
  ASSUME TypeOK, NEW h \in Handlers, sendNodes' = [sendNodes EXCEPT ![h] = @ + 1],
         IsFiniteSet(Queued)
  PROVE  IsFiniteSet(Queued') /\ Cardinality(Queued') = Cardinality(Queued) + 1
<1>1. PICK n \in Nat : n = sendNodes[h]
  BY DEF TypeOK
<1>2. 1..(n + 1) = (1..n) \cup {n + 1} /\ n + 1 \notin 1..n
  OBVIOUS
<1>3. \A g \in Handlers \ {h} : sendNodes'[g] = sendNodes[g]
  BY DEF TypeOK
<1>4. sendNodes'[h] = n + 1
  BY <1>1 DEF TypeOK
<1>5. Queued' = Queued \cup {<<h, n + 1>>}
  <2>1. ASSUME NEW q \in Queued' PROVE q \in Queued \cup {<<h, n + 1>>}
    <3>1. PICK g \in Handlers : q \in {g} \X (1..sendNodes'[g])
      BY DEF Queued
    <3> QED
      BY <1>1, <1>2, <1>3, <1>4, <3>1 DEF Queued
  <2>2. ASSUME NEW q \in Queued PROVE q \in Queued'
    <3>1. PICK g \in Handlers : q \in {g} \X (1..sendNodes[g])
      BY DEF Queued
    <3> QED
      BY <1>1, <1>2, <1>3, <1>4, <3>1 DEF Queued
  <2>3. <<h, n + 1>> \in Queued'
    BY <1>2, <1>4 DEF Queued
  <2> QED
    BY <2>1, <2>2, <2>3
<1>6. <<h, n + 1>> \notin Queued
  BY <1>1, <1>2 DEF Queued
<1> QED
  BY <1>5, <1>6, FS_AddElement

\* One reply of h less is one element less.
LEMMA QueuedLess ==
  ASSUME TypeOK, NEW h \in Handlers, sendNodes[h] > 0,
         sendNodes' = [sendNodes EXCEPT ![h] = @ - 1], IsFiniteSet(Queued)
  PROVE  IsFiniteSet(Queued') /\ Cardinality(Queued') = Cardinality(Queued) - 1
<1>1. PICK n \in Nat : sendNodes[h] = n + 1
  <2>1. sendNodes[h] - 1 \in Nat /\ sendNodes[h] = (sendNodes[h] - 1) + 1
    BY DEF TypeOK
  <2> QED
    BY <2>1
<1>2. 1..(n + 1) = (1..n) \cup {n + 1} /\ n + 1 \notin 1..n
  OBVIOUS
<1>3. \A g \in Handlers \ {h} : sendNodes'[g] = sendNodes[g]
  BY DEF TypeOK
<1>4. sendNodes'[h] = n
  BY <1>1 DEF TypeOK
<1>5. Queued' = Queued \ {<<h, n + 1>>}
  <2>1. ASSUME NEW q \in Queued' PROVE q \in Queued \ {<<h, n + 1>>}
    <3>1. PICK g \in Handlers : q \in {g} \X (1..sendNodes'[g])
      BY DEF Queued
    <3> QED
      BY <1>1, <1>2, <1>3, <1>4, <3>1 DEF Queued
  <2>2. ASSUME NEW q \in Queued, q # <<h, n + 1>> PROVE q \in Queued'
    <3>1. PICK g \in Handlers : q \in {g} \X (1..sendNodes[g])
      BY DEF Queued
    <3> QED
      BY <1>1, <1>2, <1>3, <1>4, <2>2, <3>1 DEF Queued
  <2> QED
    BY <2>1, <2>2
<1>6. <<h, n + 1>> \in Queued
  BY <1>1, <1>2 DEF Queued
<1> QED
  BY <1>5, <1>6, FS_RemoveElement

\* It holds initially and in every step.
LEMMA QueueInit == Init => QueueInv
<1> SUFFICES ASSUME Init PROVE QueueInv
  OBVIOUS
<1>1. \A h \in Handlers : 1..sendNodes[h] = {}
  BY DEF Init
<1>2. Queued = {}
  BY <1>1 DEF Queued
<1>3. IsFiniteSet(Queued) /\ Cardinality(Queued) = 0
  BY <1>2, FS_EmptySet
<1> QED
  BY <1>3 DEF Init, QueueInv, Writing

LEMMA QueueStep == TypeOK /\ WriterInv /\ QueueInv /\ [Next]_vars => QueueInv'
<1> SUFFICES ASSUME TypeOK, WriterInv, QueueInv, [Next]_vars, wpc' # "done"
             PROVE  QueueInv'
  BY DEF QueueInv
<1> USE DEF readerVars, writerVars, handlerVars, closeVars
<1>0. enqueued \in Nat /\ sent \in Nat
  BY DEF TypeOK
<1>1. ASSUME UNCHANGED <<sendNodes, enqueued, sent>>, wpc # "done", Writing' = Writing
      PROVE  QueueInv'
  BY <1>1 DEF QueueInv, Queued
<1>2. CASE Start \/ Reader
  <2>1. wpc # "done"
    BY <1>2 DEF Start, Reader, ReaderBegins, AllocateBody, PostNode, WriterInv
  <2> QED
    BY <1>1, <1>2, <2>1 DEF Start, Reader, ReaderBegins, AllocateBody, PostNode,
      WriterInv, Writing
<1>3. CASE HeaderArrives \/ BodyArrives \/ ReadFails
  BY <1>1, <1>3 DEF HeaderArrives, BodyArrives, ReadFails, Writing
<1>4. CASE WriteCompletes
  <2>1. /\ sent' = sent + 1 /\ Writing = 1 /\ Writing' = 0 /\ Queued' = Queued
        /\ enqueued' = enqueued /\ wpc # "done"
    BY <1>4 DEF WriteCompletes, Writing, Queued
  <2>2. Cardinality(Queued) \in Nat
    BY <2>1, FS_CardinalityType DEF QueueInv
  <2> QED
    BY <1>0, <2>1, <2>2 DEF QueueInv
<1>5. ~WriteFails
  BY DEF WriteFails
<1>6. ASSUME NEW h \in Handlers, FindNode(h) PROVE QueueInv'
  <2>1. /\ UNCHANGED <<enqueued, sent>> /\ wpc # "done"
        /\ Writing = 0 /\ Writing' = 1
        /\ sendNodes[h] > 0 /\ sendNodes' = [sendNodes EXCEPT ![h] = @ - 1]
    BY <1>6 DEF FindNode, Writing
  <2>2. IsFiniteSet(Queued) /\ Cardinality(Queued) \in Nat
    BY <2>1, FS_CardinalityType DEF QueueInv
  <2>3. IsFiniteSet(Queued') /\ Cardinality(Queued') = Cardinality(Queued) - 1
    BY <2>1, <2>2, QueuedLess
  <2> QED
    BY <1>0, <2>1, <2>2, <2>3 DEF QueueInv
<1>7. ASSUME NEW h \in Handlers, SeeEmpty(h) PROVE QueueInv'
  BY <1>1, <1>7 DEF SeeEmpty, Writing
<1>8. CASE WriterParks \/ WriterStops
  BY <1>1, <1>8 DEF WriterParks, WriterStops, Writing
<1>9. ASSUME NEW h \in Handlers, TakeNode(h) \/ ReleaseNode(h) PROVE QueueInv'
  BY <1>1, <1>9 DEF TakeNode, ReleaseNode, Writing
<1>10. ASSUME NEW h \in Handlers, SignalWriter(h) PROVE QueueInv'
  BY <1>1, <1>10 DEF SignalWriter, Writing
<1>11. ASSUME NEW h \in Handlers, EnqueueReply(h) PROVE QueueInv'
  <2>1. UNCHANGED <<wpc, sent>>
    BY <1>11 DEF EnqueueReply
  <2>2. CASE UNCHANGED <<sendNodes, enqueued>>
    BY <1>1, <2>1, <2>2 DEF Writing
  <2>3. CASE /\ sendNodes' = [sendNodes EXCEPT ![h] = @ + 1]
             /\ enqueued' = enqueued + 1
    <3>1. IsFiniteSet(Queued) /\ Cardinality(Queued) \in Nat
      BY <2>1, FS_CardinalityType DEF QueueInv
    <3>2. IsFiniteSet(Queued') /\ Cardinality(Queued') = Cardinality(Queued) + 1
      BY <2>3, <3>1, QueuedMore
    <3>3. enqueued = sent + Cardinality(Queued) + Writing /\ Writing' = Writing
      BY <2>1 DEF QueueInv, Writing
    <3>4. Writing \in Nat
      BY DEF Writing
    <3> QED
      BY <1>0, <2>1, <2>3, <3>1, <3>2, <3>3, <3>4 DEF QueueInv
  <2> QED
    BY <1>11, <2>2, <2>3 DEF EnqueueReply
<1>12. CASE UNCHANGED vars
  BY <1>1, <1>12 DEF vars, Writing
<1> QED
  BY <1>2, <1>3, <1>4, <1>5, <1>6, <1>7, <1>8, <1>9, <1>10, <1>11, <1>12
  DEF Next, Network, Writer, Handler

\* Until the writer is done, each reply is queued, being written or sent, however
\* many handlers enqueue at once and whenever the session is closed.
THEOREM AccountCorrect == Spec => []RepliesAccounted
<1>1. Init => TypeOK /\ WriterInv /\ QueueInv
  BY TypeInit, WriterInit, QueueInit
<1>2. TypeOK /\ WriterInv /\ QueueInv /\ [Next]_vars => (TypeOK /\ WriterInv /\ QueueInv)'
  BY TypeStep, WriterStep, QueueStep
<1>3. QueueInv => RepliesAccounted
  BY DEF QueueInv, RepliesAccounted, Writing
<1> QED
  BY <1>1, <1>2, <1>3, PTL DEF Spec
=============================================================================

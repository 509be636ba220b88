------------------------------ MODULE Framing ------------------------------
(***************************************************************************)
(* MessageNodes.cpp and the reader of CSession.cpp: messages on a stream   *)
(* of bytes.                                                               *)
(*                                                                         *)
(* A SendNode is a header, of an identifier and a length, and a body; the  *)
(* writer coroutine writes one after the other.  A reader coroutine, here  *)
(* that of a peer built from the same code, collects a header and then as  *)
(* many bytes as it says, in the pieces async_read_some returns.           *)
(*                                                                         *)
(* The length takes HEAD_DATA_LEN bytes, but host_to_network_long and      *)
(* network_to_host_long convert the 32 bits of an unsigned long: HalfLen   *)
(* bytes of base Base, on a little-endian host.                            *)
(***************************************************************************)
EXTENDS Naturals, Sequences

CONSTANTS
  Base,         \* values of a byte: 256
  HalfLen,      \* bytes of host_to_network_long: 4
  HeadIdLen,    \* HEAD_ID_LEN: 2
  MsgIds,       \* identifiers of HeadIdLen bytes
  Bodies,       \* the messages' bodies: sequences of bytes
  MaxMessages   \* as many messages are written

HeadDataLen == 2 * HalfLen
HeadTotalLen == HeadIdLen + HeadDataLen

Byte == 0..(Base - 1)

\* What k bytes can hold is below Power[k].
Power[k \in Nat] == IF k = 0 THEN 1 ELSE Base * Power[k - 1]

ASSUME FramingAssumption ==
  /\ Base \in Nat \ {0, 1}
  /\ HalfLen \in Nat \ {0}
  /\ HeadIdLen \in Nat
  /\ MsgIds \subseteq 0..(Power[HeadIdLen] - 1)
  /\ \A body \in Bodies : body \in Seq(Byte)
  /\ MaxMessages \in Nat

Messages == [id : MsgIds, body : Bodies]
NoNode == [id |-> 0, body |-> <<>>]   \* a request that was read and dropped

VARIABLES
  sent,          \* messages written: passed to writeAsync, and not empty
  wire,          \* bytes written and not read yet
  open,          \* the writer has not failed
  phase,         \* what the reader reads
  headerBuffer,  \* header bytes read
  bodySize,      \* bodySize
  bodyBuffer,    \* body bytes read
  received       \* requests posted to LogicSystem

writerVars == <<sent, open>>
frameVars == <<writerVars, wire, phase, headerBuffer, bodySize, bodyBuffer, received>>

FrameInit ==
  /\ sent = <<>>
  /\ wire = <<>>
  /\ open = TRUE
  /\ phase = "header"
  /\ headerBuffer = <<>>
  /\ bodySize = 0
  /\ bodyBuffer = <<>>
  /\ received = <<>>

-----------------------------------------------------------------------------
(* The header.                                                              *)

\* The k low bytes of n, most significant first, and what they stand for.
BigEndian(n, k) == [i \in 1..k |-> (n \div Power[k - i]) % Base]
Value(bytes) ==
  LET sum[i \in 0..Len(bytes)] == IF i = 0 THEN 0 ELSE Base * sum[i - 1] + bytes[i]
  IN  sum[Len(bytes)]

\* Faulty variant, used by no specification here: the length is copied in the
\* byte order of the host.
LengthBytesUnswapped(n) ==
  [i \in 1..HeadDataLen |-> IF i <= HalfLen THEN (n \div Power[i - 1]) % Base ELSE 0]

\* max_lengths as memcpy copies it: the low half swapped, the high half zero.
LengthBytes(n) ==
  [i \in 1..HeadDataLen |-> IF i <= HalfLen THEN BigEndian(n, HalfLen)[i] ELSE 0]

\* network_to_host_long(rawBodyLength) looks at the low half again.
HeaderLength(header) == Value(SubSeq(header, HeadIdLen + 1, HeadIdLen + HalfLen))

HeaderId(header) == Value(SubSeq(header, 1, HeadIdLen))

\* SendNode::SendNode: an empty message gets no data, and nothing is written.
SendNode(m) ==
  IF m.body = <<>> THEN <<>>
  ELSE BigEndian(m.id, HeadIdLen) \o LengthBytes(Len(m.body)) \o m.body

-----------------------------------------------------------------------------
(* The writer.                                                              *)

\* writeAsync, and async_write of the node.
Write(m) ==
  /\ open
  /\ Len(sent) < MaxMessages
  /\ sent' = IF m.body = <<>> THEN sent ELSE Append(sent, m)
  /\ wire' = wire \o SendNode(m)
  /\ UNCHANGED <<open, phase, headerBuffer, bodySize, bodyBuffer, received>>

\* The write fails after some bytes, or the node has no memory and data is null;
\* the session is closed.
WriteFails(m) ==
  /\ open
  /\ Len(sent) < MaxMessages
  /\ m.body # <<>>
  /\ sent' = Append(sent, m)
  /\ open' = FALSE
  /\ \E k \in 0..(Len(SendNode(m)) - 1) : wire' = wire \o SubSeq(SendNode(m), 1, k)
  /\ UNCHANGED <<phase, headerBuffer, bodySize, bodyBuffer, received>>

-----------------------------------------------------------------------------
(* The reader.                                                              *)

\* async_read_some into a buffer that has room for some bytes more.
Arrives(n, room) ==
  /\ n \in 1..room
  /\ n <= Len(wire)
  /\ wire' = SubSeq(wire, n + 1, Len(wire))
Piece(n) == SubSeq(wire, 1, n)

ReadHeader(n) ==
  /\ phase = "header"
  /\ Arrives(n, HeadTotalLen - Len(headerBuffer))
  /\ headerBuffer' = headerBuffer \o Piece(n)
  /\ phase' = IF Len(headerBuffer') = HeadTotalLen THEN "allocate" ELSE "header"
  /\ UNCHANGED <<writerVars, bodySize, bodyBuffer, received>>

\* new char[bodySize]; a body of no bytes is complete at once.
AllocateBody ==
  /\ phase = "allocate"
  /\ bodySize' = HeaderLength(headerBuffer)
  /\ bodyBuffer' = <<>>
  /\ phase' = IF bodySize' = 0 THEN "post" ELSE "body"
  /\ UNCHANGED <<writerVars, wire, headerBuffer, received>>

ReadBody(n) ==
  /\ phase = "body"
  /\ Arrives(n, bodySize - Len(bodyBuffer))
  /\ bodyBuffer' = bodyBuffer \o Piece(n)
  /\ phase' = IF Len(bodyBuffer') = bodySize THEN "post" ELSE "body"
  /\ UNCHANGED <<writerVars, headerBuffer, bodySize, received>>

\* postMessageToQueue(node), and memset of the header for the next round; or
\* make_shared<MessageNode> throws, and the loop goes on without the request.
PostNode ==
  /\ phase = "post"
  /\ \E node \in {[id |-> HeaderId(headerBuffer), body |-> bodyBuffer], NoNode} :
       received' = Append(received, node)
  /\ headerBuffer' = <<>>
  /\ phase' = "header"
  /\ UNCHANGED <<writerVars, wire, bodySize, bodyBuffer>>

\* The end of the stream, or new char[bodySize] throws: the session is closed.
ReadFails ==
  /\ \/ phase \in {"header", "body"} /\ ~open /\ wire = <<>>
     \/ phase = "allocate"
  /\ phase' = "closed"
  /\ UNCHANGED <<writerVars, wire, headerBuffer, bodySize, bodyBuffer, received>>

-----------------------------------------------------------------------------
Writer == \E m \in Messages : Write(m) \/ WriteFails(m)
Reader ==
  \/ \E n \in 1..Len(wire) : ReadHeader(n) \/ ReadBody(n)
  \/ AllocateBody \/ PostNode \/ ReadFails

FrameNext == Writer \/ Reader

FrameSpec == FrameInit /\ [][FrameNext]_frameVars

-----------------------------------------------------------------------------
(* Properties.                                                              *)

FramingTypeOK ==
  /\ sent \in Seq(Messages)
  /\ wire \in Seq(Byte)
  /\ open \in BOOLEAN
  /\ phase \in {"header", "allocate", "body", "post", "closed"}
  /\ headerBuffer \in Seq(Byte) /\ Len(headerBuffer) <= HeadTotalLen
  /\ bodySize \in 0..(Power[HalfLen] - 1)
  /\ bodyBuffer \in Seq(Byte) /\ Len(bodyBuffer) <= bodySize
  /\ received \in Seq([id : Nat, body : Seq(Byte)])

\* The header can hold the length of every message.
AllFit == \A i \in 1..Len(sent) : Len(sent[i].body) < Power[HalfLen]

\* Whatever the pieces in which bytes arrive, and wherever the stream breaks,
\* the reader posts the messages that were written, whole and in their order,
\* but for those it has no memory for; and having read everything it has posted
\* everything, and does not wait for more of a complete message.  An empty message
\* is never written; one that is too long for 32 bits puts the reader out of step.
FramesExact ==
  AllFit =>
    /\ Len(received) <= Len(sent)
    /\ \A i \in 1..Len(received) : received[i] \in {sent[i], NoNode}
    /\ open /\ wire = <<>> /\ phase \in {"header", "body"} =>
         phase = "header" /\ headerBuffer = <<>> /\ Len(received) = Len(sent)
=============================================================================

----------------------------- MODULE FastMemcpy -----------------------------
(***************************************************************************)
(* FastMemcpy.h and FastMemcpy_Avx.h: copying by wide loads and stores.    *)
(*                                                                         *)
(* memcpy_tiny copies up to 128 (256) bytes by a jump table of a few moves *)
(* that may overlap; memcpy_fast copies a head that aligns the             *)
(* destination, then whole chunks, and leaves the rest to memcpy_tiny;     *)
(* smart_memcpy chooses between them.  Source and destination do not       *)
(* overlap, so a copy is the set of its moves: an offset and a width each. *)
(* Addresses count modulo 64.                                              *)
(***************************************************************************)
EXTENDS Naturals

CONSTANTS
  Routines,    \* of {"sse2", "avx", "smart"}: the routines to call
  Addresses,   \* of 0..63: the addresses to copy from and to
  Sizes,       \* the sizes to copy
  CacheSize,   \* cachesize, 2 MB in the code
  SmartLimit   \* 256 * 1024 in the code

ASSUME CopyAssumption ==
  /\ Routines \subseteq {"sse2", "avx", "smart"}
  /\ Addresses \subseteq Nat
  /\ Sizes \subseteq Nat
  /\ CacheSize \in Nat
  /\ SmartLimit \in Nat

VARIABLES
  routine, dst, src, size,   \* the call
  stage,                     \* how far it is
  offset,                    \* bytes that dst and src have moved on
  moves                      \* the moves made

call == <<routine, dst, src, size>>
copyVars == <<call, stage, offset, moves>>

Vector == IF routine = "sse2" THEN 16 ELSE 32
Chunk == 8 * Vector

CopyInit ==
  /\ routine \in Routines
  /\ dst \in Addresses
  /\ src \in Addresses
  /\ size \in Sizes
  /\ stage = "called"
  /\ offset = 0
  /\ moves = {}

-----------------------------------------------------------------------------
(* The jump tables: the moves for n bytes, each <<distance of its start     *)
(* from the end, width>>.                                                   *)

\* The widest move that fits n bytes, and the narrowest one that covers them.
Widest(n, widths) == CHOOSE w \in widths : w <= n /\ \A v \in widths : v <= n => v <= w
Narrowest(n, widths) == CHOOSE w \in widths : w >= n /\ \A v \in widths : v >= n => w <= v

\* Faulty variant, used by no specification here: case 13 without its last byte.
SseScalarShort(n) ==
  IF n = 0 THEN {}
  ELSE LET w == Widest(n, {1, 2, 4, 8})
           v == IF n = 13 THEN 4 ELSE Narrowest(n - w, {1, 2, 4, 8})
       IN  {<<n, w>>} \cup (IF n = w THEN {} ELSE {<<n - w, v>>})

\* Cases 0 to 15, where 8-byte moves overlap or single bytes remain.
SseScalar(n) ==
  IF n = 0 THEN {}
  ELSE LET w == Widest(n, {1, 2, 4, 8})
           rest == n - w
       IN  {<<n, w>>} \cup
           (CASE rest = 0 -> {}
              [] rest = 5 -> {<<5, 4>>, <<1, 1>>}
              [] OTHER -> LET v == Narrowest(rest, {1, 2, 4, 8}) IN {<<v, v>>})

\* Cases 16 to 31; from 24 on two 16-byte moves overlap.
SseShort(n) ==
  IF n < 16 THEN SseScalar(n)
  ELSE {<<n, 16>>} \cup (IF n < 24 THEN SseScalar(n - 16) ELSE {<<16, 16>>})

\* Cases 32 to 63: a 32-byte move before the cases above.
SseMiddle(n) == IF n < 32 THEN SseShort(n) ELSE {<<n, 32>>} \cup SseShort(n - 32)

\* Cases 64 to 127 fall through to the case 64 below; 128 stands alone.
SseTiny(n) ==
  IF n < 64 THEN SseMiddle(n)
  ELSE IF n < 128 THEN {<<n, 64>>} \cup SseMiddle(n - 64)
  ELSE {<<128, 128>>}

\* Cases 0 to 127: the widest move, then one that covers what is left.
AvxShort(n) ==
  LET widths == {1, 2, 4, 8, 16, 32, 64}
      w == Widest(n, widths)
      v == Narrowest(n - w, widths)
  IN  IF n = 0 THEN {}
      ELSE {<<n, w>>} \cup (IF n = w THEN {} ELSE {<<v, v>>})

\* Cases 128 to 255 fall through to the case 128 below; 256 stands alone.
AvxTiny(n) ==
  IF n < 128 THEN AvxShort(n)
  ELSE IF n < 256 THEN {<<n, 128>>} \cup AvxShort(n - 128)
  ELSE {<<256, 256>>}

-----------------------------------------------------------------------------
(* memcpy_tiny, memcpy_fast and smart_memcpy.                               *)

\* The bytes to the boundary above dst.
Padding == (Vector - (dst % Vector)) % Vector

Rest == size - offset
TinyMax == IF routine = "sse2" THEN 128 ELSE 256

\* What memcpy_tiny moves when n bytes are left.
TinyMoves(n) ==
  LET table == IF routine = "sse2" THEN SseTiny(n) ELSE AvxTiny(n)
  IN  {<<offset + n - m[1], m[2]>> : m \in table}

\* is_aligned64(dst) && is_aligned64(src), the route of smart_memcpy that copies
\* 256 bytes.  (Compiled with __AVX2__; else smart_memcpy has only the others.)
SmartAligned ==
  routine = "smart" /\ size > 64 /\ size <= SmartLimit /\ dst = 0 /\ src = 0

Smart ==
  /\ stage = "called" /\ SmartAligned
  /\ moves' = {<<0, 256>>}
  /\ stage' = "returned"
  /\ UNCHANGED <<call, offset>>

Tiny ==
  /\ stage = "called" /\ ~SmartAligned /\ size <= TinyMax
  /\ moves' = TinyMoves(size)
  /\ stage' = "returned"
  /\ UNCHANGED <<call, offset>>

\* One unaligned move, after which dst is aligned.  (The AVX routine makes it
\* even if dst is aligned already, and then copies the same bytes again.)
HeadMove ==
  /\ stage = "called" /\ ~SmartAligned /\ size > TinyMax
  /\ moves' = IF routine = "sse2" /\ Padding = 0 THEN {} ELSE {<<0, Vector>>}
  /\ offset' = Padding
  /\ stage' = CASE size - Padding <= CacheSize -> "medium"
                [] (src + Padding) % Vector = 0 -> "bigAligned"
                [] OTHER -> "bigUnaligned"
  /\ UNCHANGED call

Loops == {"medium", "bigAligned", "bigUnaligned"}

\* One round of the loop.
ChunkMove ==
  /\ stage \in Loops /\ Rest >= Chunk
  /\ moves' = moves \cup {<<offset + k * Vector, Vector>> : k \in 0..7}
  /\ offset' = offset + Chunk
  /\ UNCHANGED <<call, stage>>

TailMove ==
  /\ stage \in Loops /\ Rest < Chunk
  /\ moves' = moves \cup TinyMoves(Rest)
  /\ stage' = "returned"
  /\ UNCHANGED <<call, offset>>

CopyNext == Smart \/ Tiny \/ HeadMove \/ ChunkMove \/ TailMove

CopySpec == CopyInit /\ [][CopyNext]_copyVars

-----------------------------------------------------------------------------
(* Properties.                                                              *)

\* The bytes a call writes: those it was asked for, except that the aligned route
\* of smart_memcpy writes 256 whatever the size.
Extent == IF SmartAligned THEN 256 ELSE size

\* A finished call wrote every byte of its extent and none beyond, whatever the
\* size and the alignment: the moves of the tables, the head and the chunks leave no
\* gap and do not run over the end.  So a call copies what it was asked for, except
\* on the aligned route of smart_memcpy, which writes past the end below 256 bytes
\* and leaves the rest uncopied above.  Where the code uses moves that fault on an
\* unaligned address, it is aligned: the stores of the SSE2 loops and of the big
\* copies, the loads of bigAligned.
WritesExactly ==
  /\ stage = "returned" =>
       /\ \A m \in moves : m[1] + m[2] <= Extent
       /\ \A b \in 0..(Extent - 1) : \E m \in moves : m[1] <= b /\ b < m[1] + m[2]
  /\ stage \in Loops =>
       /\ (dst + offset) % Vector = 0
       /\ stage = "bigAligned" => (src + offset) % Vector = 0
=============================================================================

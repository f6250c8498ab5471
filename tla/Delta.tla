--------------------------------- MODULE Delta ---------------------------------
(***************************************************************************)
(* The byte delta of a shuffled superblock (delta.cpp).  Beyond 2048 bytes *)
(* it is coded as four streams, so that the inverse can sum them side by   *)
(* side, and the bytes after the fourth stream continue it.  The inverse   *)
(* sums vectors of `width` bytes in each stream, then single bytes.        *)
(***************************************************************************)
EXTENDS BlockPlane

VARIABLES
  bytes, source,  \* the superblock
  width,          \* 1, 16 or 32: delta_inv_generic, delta_inv_sse2, delta_inv_avx2
  at,             \* the place in the streams
  output          \* the buffer, with what it held before

call == <<bytes, source, width>>
vars == <<bytes, source, width, at, output>>

\* The length of a stream, and the start of the one that p belongs to.
Stream == IF bytes <= 2048 THEN bytes ELSE bytes \div 4
Origin(p) ==
  IF bytes <= 2048 \/ p < Stream THEN 0
  ELSE IF p < 2 * Stream THEN Stream
  ELSE IF p < 3 * Stream THEN 2 * Stream ELSE 3 * Stream

\* delta: a stream begins with its first byte.
Differences ==
  [p \in 0..(bytes - 1) |->
     IF p = Origin(p) THEN source[p] ELSE Minus(source[p], source[p - 1])]

\* One vector: `first`, the byte before it, is added to its first byte.
Sum16(x, first) ==
  PrefixSum([c \in Cells |-> IF c = 0 THEN Plus(x[0], first) ELSE x[c]])

\* prefix_sum_32: two sums of 16 bytes, the last of the first added to the second.
Sum32(x, first) ==
  LET low  == Sum16(x, first)
      high == PrefixSum([c \in Cells |-> x[16 + c]])
  IN  [c \in 0..31 |-> IF c < 16 THEN low[c] ELSE Plus(high[c - 16], low[15])]

Sum(x, first) ==
  CASE width = 1  -> [c \in {0} |-> Plus(x[0], first)]
    [] width = 16 -> Sum16(x, first)
    [] width = 32 -> Sum32(x, first)

\* compress_generic_superblock gives less than 128 bytes to zstd as they are.
Init ==
  /\ bytes \in Nat /\ bytes >= 128
  /\ source \in [0..(bytes - 1) -> Byte]
  /\ width \in {1, 16, 32}
  /\ at = 0
  /\ output \in [0..(bytes - 1) -> Byte]

Vector(b) == [c \in 0..(width - 1) |-> Differences[b + at + c]]
First(b) == IF at = 0 THEN 0 ELSE output[b + at - 1]

\* A vector of each stream.
SumVectors ==
  /\ at + width <= Stream
  /\ output' = [p \in 0..(bytes - 1) |->
                  LET b == Origin(p)
                  IN  IF p - b - at \in 0..(width - 1)
                      THEN Sum(Vector(b), First(b))[p - b - at] ELSE output[p]]
  /\ at' = at + width
  /\ UNCHANGED call

\* A byte of each stream, and then of the bytes after the last one.
SumBytes ==
  /\ at + width > Stream
  /\ at < bytes - Origin(bytes - 1)
  /\ output' = [p \in 0..(bytes - 1) |->
                  IF p - Origin(p) = at THEN Plus(output[p - 1], Differences[p]) ELSE output[p]]
  /\ at' = at + 1
  /\ UNCHANGED call

Next == SumVectors \/ SumBytes

Spec == Init /\ [][Next]_vars

-----------------------------------------------------------------------------
\* Whatever the length and the width of the vectors, the inverse of the delta is
\* the superblock, and nothing is left of what the buffer held.
DeltaRoundTrip == at = bytes - Origin(bytes - 1) => output = source

\* The byte loops never read the byte before the buffer, or before a stream,
\* where the vector loop took zero: no stream is shorter than a vector.
PreviousIsRead == at + width > Stream => at > 0
===============================================================================

--------------------------------- MODULE Frame ---------------------------------
(***************************************************************************)
(* The layout of a stenos frame and the sizes it is made of: the pure part *)
(* of src/stenos/internal/stenos.cpp and of stenos.h.  A frame is a header *)
(* of 8 bytes (shift, decompressed size), 4 more bytes when the superblock *)
(* size is stored, and one record per superblock: a code and a compressed  *)
(* size on 4 bytes, then the compressed bytes.  Sizes are the code's own,  *)
(* in bytes.                                                               *)
(***************************************************************************)
EXTENDS Integers

STENOS_BLOCK_SIZE == 131072
STENOS_MAX_BLOCK_BYTES == 16777215           \* 2^24 - 1: sizes are stored on 3 bytes
STENOS_MAX_BYTESOFTYPE == 65535              \* STENOS_MAX_BLOCK_BYTES / 256
NoShift == 65536                             \* STENOS_NO_BLOCK_SHIFT, no 4-bit shift
MinSuperblock == 65792

\* x << n, for the shifts the code uses.
PowersOfTwo == <<1, 2, 4, 8, 16, 32, 64, 128, 256, 512, 1024, 2048, 4096, 8192, 16384, 32768>>
ShiftLeft(x, n) == x * PowersOfTwo[n + 1]

Min2(a, b) == IF a <= b THEN a ELSE b

\* super_block_size: the largest multiple of the block size (256 elements)
\* that fits in STENOS_BLOCK_SIZE, or one block.
SuperBlockSize(block_size) ==
  IF block_size > STENOS_BLOCK_SIZE
  THEN block_size
  ELSE (STENOS_BLOCK_SIZE \div block_size) * block_size

\* Number of pieces of `size` bytes that `bytes` bytes take.
Pieces(bytes, size) == bytes \div size + (IF bytes % size = 0 THEN 0 ELSE 1)

\* Mutant of Bound: the header of one superblock only.
BoundOneSuperblock(bytes) == 12 + 4 + bytes

\* compress_bound: "the maximum compressed size for given input size".
Bound(bytes) ==
  LET count == Pieces(bytes, MinSuperblock)
  IN  12 + (IF count = 0 THEN 1 ELSE count) * 4 + bytes

\* Each superblock takes at most its own size and a header of 4 bytes, so this
\* is the largest frame the code can produce with superblocks of `size` bytes
\* and a header of `header` bytes.
LargestFrame(header, bytes, size) == header + 4 * Pieces(bytes, size) + bytes

-----------------------------------------------------------------------------
\* stenos_context_s::prepare: the superblock size and the shift of the frame.
\* A call is refused when its result is "invalid_bytesoftype" or
\* "invalid_parameter".

\* With a time limit: about 32 superblocks per thread, with two fallbacks.
TimedPlan(params, bytesoftype, bytes) ==
  LET block_size == bytesoftype * 256
      required   == (bytes \div (params.threads * 32)) \div block_size
      wanted     == block_size * (IF required = 0 THEN 1 ELSE required)
      default    == SuperBlockSize(block_size)
  IN  IF wanted >= STENOS_MAX_BLOCK_BYTES
      THEN IF bytes > default
           THEN [superblock |-> ShiftLeft(default, 4), shift |-> 4]
           ELSE [superblock |-> default, shift |-> 255]
      ELSE [superblock |-> IF wanted < STENOS_BLOCK_SIZE THEN default ELSE wanted, shift |-> 255]

\* Without a time limit: the custom size, or the default one scaled with the level.
UntimedPlan(params, bytesoftype, bytes) ==
  LET block_size == bytesoftype * 256
      default    == SuperBlockSize(block_size)
      scale      == IF params.level = 0 THEN 0 ELSE (params.level - 1) \div 2
  IN  IF params.custom # NoShift
      THEN [superblock |-> ShiftLeft(block_size, params.custom), shift |-> 255]
      ELSE IF bytes > default
           THEN [superblock |-> ShiftLeft(default, scale), shift |-> scale]
           ELSE [superblock |-> default, shift |-> 0]

Plan(params, bytesoftype, bytes) ==
  IF params.timed THEN TimedPlan(params, bytesoftype, bytes)
                  ELSE UntimedPlan(params, bytesoftype, bytes)

PlanError(params, bytesoftype, bytes) ==
  IF bytesoftype = 0 \/ bytesoftype >= STENOS_MAX_BYTESOFTYPE
  THEN "invalid_bytesoftype"
  ELSE LET size == Plan(params, bytesoftype, bytes).superblock
       IN  IF size < bytesoftype * 256 \/ size >= STENOS_MAX_BLOCK_BYTES
           THEN "invalid_parameter"
           ELSE "none"

\* The header stenos_compress_generic writes: the superblock size follows the
\* first 8 bytes only when the context has a custom block shift.
HeaderSize(params) == IF params.custom # NoShift THEN 12 ELSE 8
===============================================================================

------------------------------ MODULE CodecProofs ------------------------------
(***************************************************************************)
(* A context and the frames that pass through it, for every sequence of    *)
(* calls and setters, any inputs, levels, custom sizes and numbers of      *)
(* threads.                                                                *)
(*                                                                         *)
(* First what the sizes of a frame guarantee for every input: stenos_bound *)
(* is large enough, and the sizes of a superblock fit in their 3 bytes.    *)
(* Then the buffers, with the invariant IInv: a buffer that exists has     *)
(* room for what is written to it, and the buffers that a call indexes     *)
(* exist.  What a call needs to know for this is that its superblock size  *)
(* is a positive number, also when it was read back from a frame, and that *)
(* the superblocks of a chunk are pieces of the input.                     *)
(* Last the frames, with the invariant StreamInv: what a compression wrote *)
(* is a whole frame of the input it has gone through, and a decompression  *)
(* stands where one of its superblocks begins, having restored what comes  *)
(* before.                                                                 *)
(***************************************************************************)
EXTENDS Codec, WellFoundedInduction, TLAPS

-----------------------------------------------------------------------------
(* The sizes of a frame *)

\* Division, as the prover needs it: the quotient is the one with a remainder
\* below the divisor.
LEMMA DivMod ==
  ASSUME NEW a \in Nat, NEW b \in Nat, b > 0
  PROVE  /\ a \div b \in Nat /\ a % b \in 0..(b - 1)
         /\ a = b * (a \div b) + (a % b)
  OBVIOUS

\* Multiplication by a natural number is monotone.
LEMMA MultMonotone ==
  ASSUME NEW k \in Nat, NEW a \in Nat, NEW b \in Nat, a <= b
  PROVE  k * a <= k * b
  OBVIOUS

\* Pieces is the ceiling of the division: the pieces hold all the bytes, and one
\* piece less would not.
LEMMA PiecesCeiling ==
  ASSUME NEW bytes \in Nat, NEW size \in Nat, size > 0
  PROVE  /\ Pieces(bytes, size) \in Nat
         /\ bytes <= Pieces(bytes, size) * size
         /\ (Pieces(bytes, size) - 1) * size < bytes \/ Pieces(bytes, size) = 0
         /\ bytes = 0 <=> Pieces(bytes, size) = 0
PROOF
<1> DEFINE q == bytes \div size
           r == bytes % size
<1>1. q \in Nat /\ r \in 0..(size - 1) /\ bytes = size * q + r
  BY DivMod
<1>2. q * size = size * q /\ (q + 1) * size = size * q + size /\ size * q \in Nat
  BY <1>1
<1>3. Pieces(bytes, size) = q + (IF r = 0 THEN 0 ELSE 1)
  BY DEF Pieces
<1>4. CASE r = 0
  <2>1. Pieces(bytes, size) = q
    BY <1>1, <1>3, <1>4
  <2>2. (q - 1) * size = size * q - size
    BY <1>1
  <2>3. q = 0 => bytes = 0
    BY <1>1, <1>4
  <2>4. q # 0 => size * q >= size
    BY <1>1, MultMonotone
  <2> HIDE DEF q, r
  <2> QED BY <1>1, <1>2, <1>4, <2>1, <2>2, <2>3, <2>4
<1>5. CASE r # 0
  <2>1. Pieces(bytes, size) = q + 1
    BY <1>1, <1>3, <1>5
  <2>2. (q + 1 - 1) * size = size * q
    BY <1>1
  <2> HIDE DEF q, r
  <2> QED BY <1>1, <1>2, <1>5, <2>1, <2>2
<1> QED BY <1>4, <1>5

\* Larger pieces are not more numerous.
LEMMA PiecesMonotone ==
  ASSUME NEW bytes \in Nat, NEW small \in Nat, NEW large \in Nat, 0 < small, small <= large
  PROVE  Pieces(bytes, large) <= Pieces(bytes, small)
PROOF
<1> DEFINE p == Pieces(bytes, large)
           k == Pieces(bytes, small)
<1>1. p \in Nat /\ ((p - 1) * large < bytes \/ p = 0)
  BY PiecesCeiling
<1>2. k \in Nat /\ bytes <= k * small
  BY PiecesCeiling
<1>3. k * small <= k * large
  BY <1>2, MultMonotone
<1> SUFFICES p <= k
  OBVIOUS
<1> HIDE DEF p, k
<1>4. CASE p = 0
  BY <1>2, <1>4
<1>5. CASE p # 0
  <2>1. p - 1 \in Nat /\ (p - 1) * large < k * large
    BY <1>1, <1>2, <1>3, <1>5
  <2>2. large * k = k * large /\ large * (p - 1) = (p - 1) * large
    BY <1>2, <2>1
  <2>3. ~(k <= p - 1)
    BY <1>2, <2>1, <2>2, MultMonotone
  <2> QED BY <1>1, <1>2, <2>1, <2>3
<1> QED BY <1>4, <1>5

\* stenos.h compress_bound: it counts superblocks of 65792 bytes, so it covers
\* every frame whose superblocks are at least as large, with either header.
THEOREM BoundCoversLargeSuperblocks ==
  ASSUME NEW bytes \in Nat, NEW size \in Nat, size >= MinSuperblock,
         NEW header \in 0..12
  PROVE  LargestFrame(header, bytes, size) <= Bound(bytes)
PROOF
<1>0. size > 0 /\ MinSuperblock > 0 /\ MinSuperblock \in Nat
  BY DEF MinSuperblock
<1>1. Pieces(bytes, size) \in Nat /\ Pieces(bytes, MinSuperblock) \in Nat
  BY <1>0, PiecesCeiling
<1>2. Pieces(bytes, size) <= Pieces(bytes, MinSuperblock)
  BY <1>0, PiecesMonotone
<1> QED BY <1>1, <1>2 DEF LargestFrame, Bound

\* An element size of an interval and the bytes of its block of 256 elements, for
\* bounds that are large numbers.
LEMMA ElementBytes ==
  ASSUME NEW n \in Nat, NEW b \in 1..n
  PROVE  b \in Nat /\ b > 0 /\ b <= n /\ b * 256 \in Nat /\ b * 256 >= 256
  OBVIOUS

LEMMA MaxBytesOfType == STENOS_MAX_BYTESOFTYPE \in Nat /\ STENOS_MAX_BYTESOFTYPE - 1 \in Nat
  BY DEF STENOS_MAX_BYTESOFTYPE

LEMMA AcceptedElement ==
  ASSUME NEW b \in 1..(STENOS_MAX_BYTESOFTYPE - 1)
  PROVE  /\ b \in Nat /\ b > 0 /\ b <= STENOS_MAX_BYTESOFTYPE - 1
         /\ b * 256 \in Nat /\ b * 256 >= 256
  BY MaxBytesOfType, ElementBytes

\* super_block_size: for every element size the code accepts, a superblock holds
\* at least one block, and 65792 bytes: the least is reached by 257 bytes.
LEMMA SuperBlockSizeIsLarge ==
  ASSUME NEW b \in 1..(STENOS_MAX_BYTESOFTYPE - 1)
  PROVE  /\ SuperBlockSize(b * 256) \in Nat
         /\ SuperBlockSize(b * 256) >= MinSuperblock
         /\ SuperBlockSize(b * 256) >= b * 256
PROOF
<1> DEFINE bs == b * 256
           q  == STENOS_BLOCK_SIZE \div bs
<1>1. b \in Nat /\ bs \in Nat /\ bs >= 256
  BY AcceptedElement
<1>2. CASE bs > STENOS_BLOCK_SIZE
  BY <1>1, <1>2 DEF SuperBlockSize, STENOS_BLOCK_SIZE, MinSuperblock
<1>3. CASE ~(bs > STENOS_BLOCK_SIZE)
  <2>1. /\ q \in Nat
        /\ STENOS_BLOCK_SIZE = bs * q + (STENOS_BLOCK_SIZE % bs)
        /\ STENOS_BLOCK_SIZE % bs \in 0..(bs - 1)
    <3>1. STENOS_BLOCK_SIZE \in Nat /\ bs > 0
      BY <1>1 DEF STENOS_BLOCK_SIZE
    <3> HIDE DEF bs
    <3> QED BY <1>1, <3>1, DivMod
  <2>2. SuperBlockSize(bs) = q * bs /\ q * bs = bs * q /\ bs * q \in Nat
    BY <1>1, <1>3, <2>1 DEF SuperBlockSize
  <2>3. bs * q > STENOS_BLOCK_SIZE - bs
    BY <1>1, <2>1, <2>2 DEF STENOS_BLOCK_SIZE
  <2>4. q >= 1
    <3>1. q = 0 => bs * q = 0
      BY <1>1
    <3> HIDE DEF q
    <3> QED BY <1>1, <1>3, <2>1, <2>3, <3>1 DEF STENOS_BLOCK_SIZE
  <2>5. bs * q >= bs
    <3>1. bs * 1 <= bs * q
      BY <1>1, <2>1, <2>4, MultMonotone
    <3> QED BY <1>1, <2>2, <3>1
  <2>6. CASE b <= 255
    BY <1>1, <2>2, <2>3, <2>5, <2>6 DEF STENOS_BLOCK_SIZE, MinSuperblock
  <2>7. CASE b = 256
    <3>1. bs = 65536 /\ q = 2
      BY <2>7 DEF STENOS_BLOCK_SIZE
    <3> QED BY <2>2, <2>5, <3>1 DEF MinSuperblock
  <2>8. CASE b >= 257
    BY <1>1, <2>2, <2>5, <2>8 DEF MinSuperblock
  <2> QED BY <1>1, <2>6, <2>7, <2>8
<1> QED BY <1>2, <1>3

\* Shifting to the left by a shift of the code keeps a number at least as large.
LEMMA ShiftGrows ==
  ASSUME NEW x \in Nat, NEW n \in 0..15
  PROVE  ShiftLeft(x, n) \in Nat /\ ShiftLeft(x, n) >= x
PROOF
<1> DEFINE p == PowersOfTwo[n + 1]
<1>1. p \in Nat /\ p >= 1
  BY DEF PowersOfTwo
<1>2. x * p \in Nat /\ x * 1 <= x * p
  BY <1>1, MultMonotone
<1> QED BY <1>1, <1>2 DEF ShiftLeft

-----------------------------------------------------------------------------
\* The parameters a context can hold.
ParamsType ==
  [level : 0..9, threads : Nat \ {0}, timed : BOOLEAN, custom : (0..15) \union {NoShift}]

\* The superblock sizes prepare can choose, with or without a time limit: whole
\* numbers of bytes, at least one block, and at least 65792 bytes unless the
\* caller chose the size.
LEMMA PlanIsLarge ==
  ASSUME NEW setting \in ParamsType, NEW b \in 1..(STENOS_MAX_BYTESOFTYPE - 1), NEW bytes \in Nat
  PROVE  LET plan == Plan(setting, b, bytes)
         IN  /\ plan.superblock \in Nat /\ plan.superblock >= b * 256
             /\ plan.shift \in (0..4) \union {255}
             /\ setting.custom = NoShift => plan.superblock >= MinSuperblock
PROOF
<1> DEFINE bs == b * 256
           default == SuperBlockSize(bs)
<1>1. bs \in Nat /\ bs > 0 /\ setting.level \in 0..9 /\ setting.threads \in Nat /\ setting.threads > 0
  <2>1. bs \in Nat /\ bs > 0
    BY AcceptedElement
  <2>2. setting.level \in 0..9 /\ setting.threads \in Nat \ {0}
    BY DEF ParamsType
  <2> QED BY <2>1, <2>2
<1>2. default \in Nat /\ default >= MinSuperblock /\ default >= bs
  BY SuperBlockSizeIsLarge
<1>3. CASE setting.timed
  <2> DEFINE required == (bytes \div (setting.threads * 32)) \div bs
             count    == IF required = 0 THEN 1 ELSE required
             wanted   == bs * count
  <2>1. required \in Nat
    <3>1. setting.threads * 32 \in Nat /\ setting.threads * 32 > 0
      BY <1>1
    <3> HIDE DEF bs
    <3>2. bytes \div (setting.threads * 32) \in Nat
      BY <3>1, DivMod
    <3> QED BY <1>1, <3>2, DivMod
  <2>2. count \in Nat /\ count >= 1
    BY <2>1
  <2>3. wanted \in Nat /\ wanted >= bs
    <3> HIDE DEF bs, count
    <3>1. bs * 1 <= bs * count
      BY <1>1, <2>2, MultMonotone
    <3> QED BY <1>1, <2>2, <3>1
  <2>4. ShiftLeft(default, 4) \in Nat /\ ShiftLeft(default, 4) >= default
    <3> HIDE DEF default
    <3> QED BY <1>2, ShiftGrows
  <2>5. Plan(setting, b, bytes) =
          IF wanted >= STENOS_MAX_BLOCK_BYTES
          THEN IF bytes > default
               THEN [superblock |-> ShiftLeft(default, 4), shift |-> 4]
               ELSE [superblock |-> default, shift |-> 255]
          ELSE [superblock |-> IF wanted < STENOS_BLOCK_SIZE THEN default ELSE wanted, shift |-> 255]
    BY <1>3 DEF Plan, TimedPlan
  <2> HIDE DEF wanted, default, bs
  <2> QED
    BY <1>2, <2>3, <2>4, <2>5 DEF MinSuperblock, STENOS_BLOCK_SIZE, STENOS_MAX_BLOCK_BYTES, bs
<1>4. CASE ~setting.timed
  <2> DEFINE scale == IF setting.level = 0 THEN 0 ELSE (setting.level - 1) \div 2
  <2>1. scale \in 0..4
    BY <1>1
  <2>2. Plan(setting, b, bytes) =
          IF setting.custom # NoShift
          THEN [superblock |-> ShiftLeft(bs, setting.custom), shift |-> 255]
          ELSE IF bytes > default
               THEN [superblock |-> ShiftLeft(default, scale), shift |-> scale]
               ELSE [superblock |-> default, shift |-> 0]
    BY <1>4 DEF Plan, UntimedPlan
  <2> HIDE DEF scale, default, bs
  <2>3. ShiftLeft(default, scale) \in Nat /\ ShiftLeft(default, scale) >= default
    <3>1. scale \in 0..15
      BY <2>1
    <3> QED BY <1>2, <3>1, ShiftGrows
  <2>4. setting.custom # NoShift =>
          ShiftLeft(bs, setting.custom) \in Nat /\ ShiftLeft(bs, setting.custom) >= bs
    BY <1>1, ShiftGrows DEF ParamsType
  <2> QED BY <1>2, <2>1, <2>2, <2>3, <2>4 DEF MinSuperblock, bs
<1> QED BY <1>3, <1>4

\* stenos_bound covers every compression that the code accepts without a custom
\* superblock size: any level, number of threads, time limit, element size and
\* input size.
THEOREM BoundIsEnoughForEveryPlan ==
  ASSUME NEW setting \in ParamsType, setting.custom = NoShift,
         NEW b \in 1..(STENOS_MAX_BYTESOFTYPE - 1), NEW bytes \in Nat
  PROVE  LargestFrame(HeaderSize(setting), bytes, Plan(setting, b, bytes).superblock) <= Bound(bytes)
PROOF
<1>1. /\ Plan(setting, b, bytes).superblock \in Nat
      /\ Plan(setting, b, bytes).superblock >= MinSuperblock
  BY PlanIsLarge
<1>2. HeaderSize(setting) \in 0..12
  BY DEF HeaderSize
<1> QED BY <1>1, <1>2, BoundCoversLargeSuperblocks

\* The hypothesis on the custom shift is needed: stenos_bound counts superblocks of
\* at least 65792 bytes, and stenos_set_block_size makes them as small as 256
\* elements.  With the shift 0, single bytes that no strategy compresses overflow a
\* destination of Bound bytes as soon as they take two superblocks.
THEOREM SmallSuperblocksExceedBound ==
  ASSUME NEW setting \in ParamsType, setting.custom = 0, setting.timed = FALSE,
         NEW bytes \in 257..MinSuperblock
  PROVE  /\ PlanError(setting, 1, bytes) = "none"
         /\ LargestFrame(HeaderSize(setting), bytes, Plan(setting, 1, bytes).superblock)
              > Bound(bytes)
PROOF
<1>1. Plan(setting, 1, bytes) = [superblock |-> ShiftLeft(256, 0), shift |-> 255]
  BY DEF Plan, UntimedPlan, NoShift
<1>2. Plan(setting, 1, bytes).superblock = 256
  BY <1>1 DEF ShiftLeft, PowersOfTwo
<1>3. PlanError(setting, 1, bytes) = "none"
  BY <1>2 DEF PlanError, STENOS_MAX_BYTESOFTYPE, STENOS_MAX_BLOCK_BYTES
<1>4. bytes \in Nat /\ bytes > 256 /\ bytes <= MinSuperblock /\ MinSuperblock \in Nat /\ MinSuperblock > 0
  BY DEF MinSuperblock
<1>5. Pieces(bytes, 256) \in Nat /\ Pieces(bytes, 256) >= 2
  <2>1. Pieces(bytes, 256) \in Nat /\ bytes <= Pieces(bytes, 256) * 256
    BY <1>4, PiecesCeiling
  <2> QED BY <2>1, <1>4
<1>6. Pieces(bytes, MinSuperblock) = 1
  <2> DEFINE p == Pieces(bytes, MinSuperblock)
  <2>1. p \in Nat /\ ((p - 1) * MinSuperblock < bytes \/ p = 0) /\ (bytes = 0 <=> p = 0)
    BY <1>4, PiecesCeiling
  <2> HIDE DEF p
  <2>2. ASSUME p >= 2 PROVE FALSE
    BY <1>4, <2>1, <2>2 DEF MinSuperblock
  <2> QED BY <1>4, <2>1, <2>2 DEF p
<1>7. Bound(bytes) = 16 + bytes
  BY <1>4, <1>6 DEF Bound
<1>8. /\ LargestFrame(HeaderSize(setting), bytes, 256) \in Int
      /\ LargestFrame(HeaderSize(setting), bytes, 256) >= 20 + bytes
  BY <1>4, <1>5 DEF LargestFrame, HeaderSize, NoShift
<1> QED BY <1>2, <1>3, <1>4, <1>7, <1>8

\* Membership in an interval, for bounds that are large numbers.
LEMMA InInterval ==
  ASSUME NEW b \in Nat, NEW n \in Nat, b > 0, b <= n
  PROVE  b \in 1..n
  OBVIOUS

\* The element sizes that the first test of prepare lets through.
LEMMA AcceptedBytesOfType ==
  ASSUME NEW b \in Nat, ~(b = 0 \/ b >= STENOS_MAX_BYTESOFTYPE)
  PROVE  b \in 1..(STENOS_MAX_BYTESOFTYPE - 1)
PROOF
<1>1. STENOS_MAX_BYTESOFTYPE - 1 \in Nat /\ b > 0 /\ b <= STENOS_MAX_BYTESOFTYPE - 1
  BY DEF STENOS_MAX_BYTESOFTYPE
<1> QED BY <1>1, InInterval

\* A call that prepare accepts has superblocks whose sizes fit in the 3 bytes of
\* a superblock header, and that hold at least one block.
THEOREM AcceptedSizesFit ==
  ASSUME NEW setting \in ParamsType, NEW b \in Nat, NEW bytes \in Nat,
         PlanError(setting, b, bytes) = "none"
  PROVE  /\ b \in 1..(STENOS_MAX_BYTESOFTYPE - 1)
         /\ Plan(setting, b, bytes).superblock \in (b * 256)..(STENOS_MAX_BLOCK_BYTES - 1)
PROOF
<1> DEFINE size == Plan(setting, b, bytes).superblock
<1>1. b \in 1..(STENOS_MAX_BYTESOFTYPE - 1)
  <2>1. ASSUME b = 0 \/ b >= STENOS_MAX_BYTESOFTYPE
        PROVE  FALSE
    <3>1. PlanError(setting, b, bytes) = "invalid_bytesoftype"
      BY <2>1, Zenon DEF PlanError
    <3> QED BY <3>1
  <2>2. ~(b = 0 \/ b >= STENOS_MAX_BYTESOFTYPE)
    BY <2>1, Zenon
  <2> QED BY <2>2, AcceptedBytesOfType
<1>2. size \in Nat
  BY <1>1, PlanIsLarge
<1>3. ~(size < b * 256 \/ size >= STENOS_MAX_BLOCK_BYTES)
  <2>1. ~(b = 0 \/ b >= STENOS_MAX_BYTESOFTYPE)
    <3>1. b > 0 /\ b <= STENOS_MAX_BYTESOFTYPE - 1
      BY <1>1, AcceptedElement
    <3> QED BY <3>1, MaxBytesOfType
  <2>2. ASSUME size < b * 256 \/ size >= STENOS_MAX_BLOCK_BYTES
        PROVE  FALSE
    <3>1. PlanError(setting, b, bytes) = "invalid_parameter"
      BY <2>1, <2>2, Zenon DEF PlanError
    <3> QED BY <3>1
  <2> QED BY <2>2
<1> HIDE DEF size
<1>4. size \in (b * 256)..(STENOS_MAX_BLOCK_BYTES - 1)
  BY <1>2, <1>3 DEF STENOS_MAX_BLOCK_BYTES
<1> QED BY <1>1, <1>4 DEF size

-----------------------------------------------------------------------------
(* The invariant *)

\* What a slot of the vectors of buffers can hold: nothing, or room for a
\* superblock and its header.
Slot == {0, superblock_size + 4}

BufferVectors ==
  /\ thread_buffers \in Seq(Slot)
  /\ tmp_buffers1 \in Seq(Slot)
  /\ tmp_buffers2 \in Seq(Slot)

ContextOK == params \in ParamsType /\ superblock_size \in Nat /\ BufferVectors

\* The outcome of a superblock, or one of the superblocks of a frame.
OutOK(out) == out.code \in Codes /\ out.csize \in Nat

FrameOK(f) ==
  /\ \E s, h, sh, sb, b, t, bl :
       f = [size |-> s, header |-> h, shift |-> sh, superblock |-> sb, bytesoftype |-> b,
            total |-> t, blocks |-> bl]
  /\ f.shift \in (0..4) \union {255} /\ f.superblock \in Nat \ {0}
  /\ f.bytesoftype \in 1..(STENOS_MAX_BYTESOFTYPE - 1) /\ f.total \in Nat
  /\ \A b \in f.blocks : OutOK(b)

FrameInv == frame = NoFrame \/ FrameOK(frame)

\* The superblocks that are left, but for the last one, are whole pieces of what
\* is left of the input.
InputLeft ==
  /\ call.src \in Nat /\ call.chunks \in Nat \ {0}
  /\ call.src + (call.chunks - 1) * superblock_size <= call.frame.total

\* Task number k had no memory for its buffer.
NoBuffer(k) == k \in DOMAIN thread_buffers /\ thread_buffers[k] = 0

\* The tasks of a chunk that have run left an outcome, unless they had no buffer.
TasksLeaveOutcomes ==
  /\ call.phase = "tasks" /\ ~RawMemcpy =>
       /\ \E S : call.outs \in [1..ChunkSize -> S]
       /\ \A k \in 1..ChunkSize :
            k \in call.tasks \/ NoBuffer(k) \/ OutOK(call.outs[k])
  /\ call.phase = "copy" => \A k \in 1..ChunkSize : OutOK(call.outs[k])

Loop == {"fork", "read", "tasks", "copy"}

InLoop ==
  /\ call.phase \in {"ensure", "one"} \union Loop
  /\ call.phase \in {"tasks", "copy"} => call.tasks \subseteq 1..ChunkSize

Compression ==
  /\ \E p, c, f, s, t, o, n, r :
       call = [op |-> "compress", phase |-> p, cap |-> c, frame |-> f, src |-> s, tasks |-> t,
               outs |-> o, chunks |-> n, res_code |-> r]
  /\ superblock_size # 0 /\ FrameOK(call.frame)
  /\ InputLeft /\ InLoop /\ TasksLeaveOutcomes

Decompression ==
  /\ \E p, z, c, f, s, d, e, n, t, b, r :
       call = [op |-> "decompress", phase |-> p, size |-> z, cap |-> c, frame |-> f, src |-> s,
               dst |-> d, restored |-> e, chunks |-> n, tasks |-> t, blocks |-> b, rets |-> r]
  /\ superblock_size # 0 /\ FrameOK(call.frame)
  /\ call.chunks \in Int /\ InLoop

CallOK == call = NoCall \/ Compression \/ Decompression

IInv == ContextOK /\ FrameInv /\ CallOK

-----------------------------------------------------------------------------
(* Buffers *)

\* A slot that takes another value leaves the vector as long as it was.
LEMMA SetSlot ==
  ASSUME NEW S, NEW v \in Seq(S), NEW k, NEW x, k \in DOMAIN v => x \in S
  PROVE  [v EXCEPT ![k] = x] \in Seq(S) /\ Len([v EXCEPT ![k] = x]) = Len(v)
PROOF
<1> DEFINE w == [v EXCEPT ![k] = x]
<1>1. Len(v) \in Nat /\ v \in [1..Len(v) -> S]  OBVIOUS
<1>2. w \in [1..Len(v) -> S]  BY <1>1
<1> HIDE DEF w
<1>3. w \in Seq(S) /\ Len(w) = Len(v)  BY <1>1, <1>2
<1> QED BY <1>3 DEF w

\* A vector that grows has the length asked for, and null pointers at its end.
LEMMA ResizedSlots ==
  ASSUME NEW S, 0 \in S, NEW v \in Seq(S), NEW m \in Int
  PROVE  /\ Resized(v, m) \in Seq(S)
         /\ Len(Resized(v, m)) = IF Len(v) < m THEN m ELSE Len(v)
PROOF
<1> DEFINE d == m - Len(v)
           w == [k \in 1..d |-> 0]
           e == IF d > 0 THEN d ELSE 0
<1>1. Len(v) \in Nat /\ d \in Int /\ e \in Nat  OBVIOUS
<1>2. 1..d = 1..e  BY <1>1
<1>3. w \in [1..e -> S]  BY <1>2
<1>4. Len(v) + e = IF Len(v) < m THEN m ELSE Len(v)  BY <1>1
<1> HIDE DEF e, w
<1>5. w \in Seq(S) /\ Len(w) = e  BY <1>1, <1>3
<1>6. v \o w \in Seq(S) /\ Len(v \o w) = Len(v) + Len(w)  BY <1>5
<1> QED BY <1>4, <1>5, <1>6 DEF Resized, w

\* ensure_has_buffers(m), when it succeeds: every slot still has room for a
\* superblock, and the first vector has m of them.
LEMMA EnsureGrows ==
  ASSUME ContextOK, NEW m \in Int, EnsureSucceeds(m), superblock_size' = superblock_size,
         params' = params
  PROVE  /\ ContextOK'
         /\ Len(thread_buffers') >= m
         /\ Len(tmp_buffers1) = Len(thread_buffers) => Len(tmp_buffers1') = Len(thread_buffers')
         /\ Len(tmp_buffers2) = Len(thread_buffers) => Len(tmp_buffers2') = Len(thread_buffers')
PROOF
<1>1. 0 \in Slot /\ Slot' = Slot  BY DEF Slot
<1>2. /\ thread_buffers \in Seq(Slot) /\ tmp_buffers1 \in Seq(Slot) /\ tmp_buffers2 \in Seq(Slot)
      /\ params \in ParamsType /\ superblock_size \in Nat
  BY DEF ContextOK, BufferVectors
<1> HIDE DEF Slot
<1>3. Len(thread_buffers) \in Nat  BY <1>2
<1>4. CASE Len(thread_buffers) < m
  <2>1. /\ thread_buffers' = Resized(thread_buffers, m)
        /\ tmp_buffers1' = Resized(tmp_buffers1, m)
        /\ tmp_buffers2' = Resized(tmp_buffers2, m)
    BY <1>4 DEF EnsureSucceeds
  <2>2. /\ thread_buffers' \in Seq(Slot) /\ tmp_buffers1' \in Seq(Slot)
        /\ tmp_buffers2' \in Seq(Slot)
    BY <1>1, <1>2, <2>1, ResizedSlots
  <2>3. \A v \in Seq(Slot) : Len(Resized(v, m)) = IF Len(v) < m THEN m ELSE Len(v)
    BY <1>1, ResizedSlots
  <2> QED BY <1>1, <1>2, <1>3, <1>4, <2>1, <2>2, <2>3 DEF ContextOK, BufferVectors
<1>5. CASE ~(Len(thread_buffers) < m)
  <2>1. UNCHANGED buffers  BY <1>5 DEF EnsureSucceeds
  <2>2. thread_buffers' = thread_buffers /\ tmp_buffers1' = tmp_buffers1 /\ tmp_buffers2' = tmp_buffers2
    BY <2>1 DEF buffers
  <2> QED BY <1>1, <1>2, <1>3, <1>5, <2>2 DEF ContextOK, BufferVectors
<1> QED BY <1>4, <1>5

\* Whichever resize throws, the slots are as good.
LEMMA EnsureThrows ==
  ASSUME ContextOK, NEW m \in Int, EnsureFails(m), superblock_size' = superblock_size,
         params' = params
  PROVE  ContextOK'
PROOF
<1>1. 0 \in Slot /\ Slot' = Slot  BY DEF Slot
<1>2. /\ thread_buffers \in Seq(Slot) /\ tmp_buffers1 \in Seq(Slot) /\ tmp_buffers2 \in Seq(Slot)
      /\ params \in ParamsType /\ superblock_size \in Nat
  BY DEF ContextOK, BufferVectors
<1> HIDE DEF Slot
<1>3. PICK k \in ResizeMayFail :
        /\ thread_buffers' = IF k > 1 THEN Resized(thread_buffers, m) ELSE thread_buffers
        /\ tmp_buffers1' = IF k > 2 THEN Resized(tmp_buffers1, m) ELSE tmp_buffers1
        /\ UNCHANGED tmp_buffers2
  BY DEF EnsureFails
<1>4. \A v \in Seq(Slot) : Resized(v, m) \in Seq(Slot)  BY <1>1, ResizedSlots
<1> QED BY <1>1, <1>2, <1>3, <1>4 DEF ContextOK, BufferVectors

\* Another superblock size frees the buffers of the old one.
LEMMA NewSizeIsGood ==
  ASSUME ContextOK, NEW size \in Nat, UseSuperblockSize(size), params' = params
  PROVE  /\ ContextOK'
         /\ \/ UNCHANGED buffers
            \/ thread_buffers' = <<>> /\ tmp_buffers1' = <<>> /\ tmp_buffers2' = <<>>
PROOF
<1>1. /\ thread_buffers \in Seq(Slot) /\ tmp_buffers1 \in Seq(Slot) /\ tmp_buffers2 \in Seq(Slot)
      /\ params \in ParamsType /\ superblock_size' = size
  BY DEF ContextOK, BufferVectors, UseSuperblockSize
<1>2. CASE size = superblock_size
  <2>1. Slot' = Slot  BY <1>1, <1>2 DEF Slot
  <2>2. UNCHANGED buffers  BY <1>2 DEF UseSuperblockSize
  <2> QED BY <1>1, <2>1, <2>2 DEF ContextOK, BufferVectors, buffers
<1>3. CASE size # superblock_size
  <2>1. thread_buffers' = <<>> /\ tmp_buffers1' = <<>> /\ tmp_buffers2' = <<>>
    BY <1>3 DEF UseSuperblockSize
  <2>2. \A S : <<>> \in Seq(S)  OBVIOUS
  <2> QED BY <1>1, <2>1, <2>2 DEF ContextOK, BufferVectors
<1> QED BY <1>2, <1>3

-----------------------------------------------------------------------------
(* Superblocks *)

LEMMA MadeIsSlot ==
  ASSUME NEW x \in Slot, NEW b \in Made(x)
  PROVE  b \in Slot
  BY DEF Made, Slot

LEMMA CodesAreCodes ==
  ASSUME NEW bytesoftype, NEW len, NEW path \in {"copy", "zstd", "block", "buffers"}
  PROVE  CodesFor(bytesoftype, len, path) \subseteq Codes
  BY DEF CodesFor, CodesWithBuffers, Codes

LEMMA OutcomesAreGood ==
  ASSUME NEW codes \in SUBSET Codes, NEW len \in Nat, NEW room, NEW o \in Outcomes(codes, len, room)
  PROVE  OutOK(o)
PROOF
<1>1. \/ \E c \in codes, z \in CompressedSizes : o = [code |-> c, csize |-> z, error |-> "none"]
      \/ o = [code |-> "COPY", csize |-> len, error |-> "none"]
      \/ o = [code |-> "COPY", csize |-> 0, error |-> "dst_overflow"]
  BY DEF Outcomes
<1>2. CompressedSizes \subseteq Nat  BY CodecAssumption
<1> QED BY <1>1, <1>2 DEF OutOK, Codes

\* Whatever the strategy does, the temporary buffers it leaves are slots, and
\* its outcome is a code with a size.
LEMMA ResultsAreGood ==
  ASSUME NEW k, NEW bytesoftype, NEW len \in Nat, NEW room,
         NEW r \in SuperblockResults(k, bytesoftype, len, room), BufferVectors
  PROVE  /\ k \in DOMAIN tmp_buffers1 => r.b1 \in Slot
         /\ k \in DOMAIN tmp_buffers2 => r.b2 \in Slot
         /\ OutOK(r.out)
PROOF
<1> DEFINE On(q) == UNION {PathResults(q, b, bytesoftype, len, room) : b \in TmpBuffers(k, q)}
<1>0. r \in UNION {On(q) : q \in Paths(bytesoftype, len)}  BY DEF SuperblockResults
<1>1. PICK path \in Paths(bytesoftype, len) : r \in On(path)
  <2> HIDE DEF On
  <2> QED BY <1>0
<1>2. PICK b \in TmpBuffers(k, path) : r \in PathResults(path, b, bytesoftype, len, room)
  BY <1>1
<1>3. path \in {"copy", "zstd", "block", "buffers"}  BY DEF Paths
<1> DEFINE taken == IF path = "buffers" /\ 0 \in {b[1], b[2]} THEN "zstd" ELSE path
           codes == CodesFor(bytesoftype, len, taken)
<1>4. codes \in SUBSET Codes
  <2>1. taken \in {"copy", "zstd", "block", "buffers"}  BY <1>3
  <2> HIDE DEF taken
  <2> QED BY <2>1, CodesAreCodes
<1>5. r \in {[out |-> o, b1 |-> b[1], b2 |-> b[2], finish |-> f] :
               o \in Outcomes(codes, len, room), f \in Orders(path)}
  BY <1>2 DEF PathResults
<1> HIDE DEF codes
<1>6. PICK o \in Outcomes(codes, len, room) : r.out = o /\ r.b1 = b[1] /\ r.b2 = b[2]
  BY <1>5
<1>7. OutOK(r.out)  BY <1>4, <1>6, OutcomesAreGood
<1>8. \/ b[1] = tmp_buffers1[k] /\ b[2] = tmp_buffers2[k]
      \/ b[1] \in Made(tmp_buffers1[k]) /\ b[2] \in Made(tmp_buffers2[k])
  BY DEF TmpBuffers
<1>9. \A v \in Seq(Slot) : k \in DOMAIN v => v[k] \in Slot  OBVIOUS
<1>10. /\ k \in DOMAIN tmp_buffers1 => tmp_buffers1[k] \in Slot
       /\ k \in DOMAIN tmp_buffers2 => tmp_buffers2[k] \in Slot
  BY <1>9 DEF BufferVectors
<1> QED BY <1>6, <1>7, <1>8, <1>10, MadeIsSlot

\* A frame with other superblocks, and any size.
LEMMA FrameGrows ==
  ASSUME NEW f, FrameOK(f), NEW g,
         \/ g = [f EXCEPT !.blocks = g.blocks, !.size = g.size]
         \/ g = [f EXCEPT !.blocks = g.blocks],
         \A b \in g.blocks : OutOK(b)
  PROVE  FrameOK(g) /\ g.total = f.total
PROOF
<1>1. PICK s, h, sh, sb, b, t, bl :
        f = [size |-> s, header |-> h, shift |-> sh, superblock |-> sb, bytesoftype |-> b,
             total |-> t, blocks |-> bl]
  BY DEF FrameOK
<1>2. \E z : g = [size |-> z, header |-> h, shift |-> sh, superblock |-> sb, bytesoftype |-> b,
                  total |-> t, blocks |-> g.blocks]
  BY <1>1
<1>3. /\ g.shift = f.shift /\ g.superblock = f.superblock /\ g.bytesoftype = f.bytesoftype
      /\ g.total = f.total
  BY <1>1, <1>2
<1>4. \E a1, a2, a3, a4, a5, a6, a7 :
        g = [size |-> a1, header |-> a2, shift |-> a3, superblock |-> a4, bytesoftype |-> a5,
             total |-> a6, blocks |-> a7]
  BY <1>2
<1> QED BY <1>3, <1>4 DEF FrameOK

LEMMA LongerIsGood ==
  ASSUME FrameOK(call.frame), NEW new, \A b \in new : OutOK(b), NEW size
  PROVE  FrameOK(Longer(new, size)) /\ Longer(new, size).total = call.frame.total
PROOF
<1>1. PICK s, h, sh, sb, b, t, bl :
        call.frame = [size |-> s, header |-> h, shift |-> sh, superblock |-> sb,
                      bytesoftype |-> b, total |-> t, blocks |-> bl]
  BY DEF FrameOK
<1>2. Longer(new, size) = [call.frame EXCEPT !.blocks = bl \union new, !.size = s + size]
  BY <1>1 DEF Longer
<1>3. Longer(new, size).blocks = bl \union new /\ Longer(new, size).size = s + size
  BY <1>1, <1>2
<1>4. \A x \in bl \union new : OutOK(x)  BY <1>1 DEF FrameOK
<1> QED BY <1>2, <1>3, <1>4, FrameGrows

-----------------------------------------------------------------------------
(* The quantities of a call *)

LEMMA WhichCall ==
  ASSUME IInv
  PROVE  /\ call.op = "compress" => Compression
         /\ call.op = "decompress" => Decompression
         /\ call.op # "none" => Compression \/ Decompression
  BY DEF IInv, CallOK, NoCall, Compression, Decompression

LEMMA CallFacts ==
  ASSUME IInv, Compression \/ Decompression
  PROVE  /\ Count \in Nat /\ ThreadCount \in Nat /\ ChunkSize \in Int
         /\ ChunkSize <= ThreadCount /\ ChunkSize <= call.chunks
         /\ superblock_size \in Nat /\ superblock_size > 0 /\ call.chunks \in Int
         /\ call.frame.total \in Nat
PROOF
<1>1. superblock_size \in Nat /\ superblock_size > 0  BY DEF IInv, ContextOK, Compression, Decompression
<1>2. call.frame.total \in Nat  BY DEF Compression, Decompression, FrameOK
<1>3. call.chunks \in Int  BY DEF Compression, Decompression, InputLeft
<1>4. Count \in Nat  BY <1>1, <1>2, PiecesCeiling DEF Count
<1>5. params.threads \in Nat  BY DEF IInv, ContextOK, ParamsType
<1>6. ThreadCount \in Nat  BY <1>4, <1>5 DEF ThreadCount, Min2
<1> QED BY <1>1, <1>2, <1>3, <1>4, <1>6 DEF ChunkSize, Min2

\* What does not change while a call runs.
LEMMA CallGoesOn ==
  ASSUME params' = params, superblock_size' = superblock_size,
         call'.frame.total = call.frame.total
  PROVE  /\ Count' = Count /\ ThreadCount' = ThreadCount /\ RawMemcpy' = RawMemcpy
         /\ call'.chunks = call.chunks => ChunkSize' = ChunkSize
  BY DEF Count, ThreadCount, RawMemcpy, ChunkSize

LEMMA ProductOfNaturals ==
  ASSUME NEW a \in Nat, NEW b \in Nat
  PROVE  a * b \in Nat
  OBVIOUS

LEMMA Distributes ==
  ASSUME NEW a \in Int, NEW b \in Int, NEW s \in Int
  PROVE  (a + b) * s = a * s + b * s /\ a * s \in Int
  OBVIOUS

\* The input bytes of a task of a chunk are bytes of the input.
LEMMA PieceInInput ==
  ASSUME IInv, Compression, NEW k \in Nat \ {0}, k <= call.chunks
  PROVE  Length(k) \in Nat
PROOF
<1>1. superblock_size \in Nat /\ call.frame.total \in Nat  BY CallFacts
<1>2. /\ call.src \in Nat /\ call.chunks \in Nat
      /\ call.src + (call.chunks - 1) * superblock_size <= call.frame.total
  BY DEF Compression, InputLeft
<1>3. k - 1 \in Nat /\ call.chunks - 1 \in Nat /\ k - 1 <= call.chunks - 1  BY <1>2
<1>4. superblock_size * (k - 1) <= superblock_size * (call.chunks - 1)
  BY <1>1, <1>3, MultMonotone
<1>5. /\ superblock_size * (k - 1) = (k - 1) * superblock_size
      /\ superblock_size * (call.chunks - 1) = (call.chunks - 1) * superblock_size
  BY <1>1, <1>3
<1> DEFINE x == (k - 1) * superblock_size
           y == (call.chunks - 1) * superblock_size
<1>6. x \in Int /\ y \in Int /\ x <= y  BY <1>1, <1>3, <1>4, <1>5, Distributes
<1>7. call.src + y <= call.frame.total  BY <1>2
<1> HIDE DEF x, y
<1>8. call.frame.total - (call.src + x) \in Nat  BY <1>1, <1>2, <1>6, <1>7
<1> QED BY <1>1, <1>8 DEF Length, From, Min2, x

-----------------------------------------------------------------------------
(* Kinds of steps: what a step does to the lengths of the vectors. *)

\* The call fails since there is no memory for its buffers.
Throws == call.phase = "ensure" /\ result'.error = "alloc"

AgreementStays == LengthsAgree => LengthsAgree' \/ Throws

\* No call runs after the step, or one that has not asked for its buffers.
Rests == AgreementStays /\ (call' = NoCall \/ call'.phase = "ensure")

SameCall ==
  /\ params' = params /\ superblock_size' = superblock_size
  /\ call.op # "none" /\ call'.op = call.op /\ call'.frame.total = call.frame.total

\* A call has got the buffers that it asked for.
Ensures ==
  /\ AgreementStays /\ SameCall
  /\ \/ call'.phase = "one" /\ Len(thread_buffers') >= 1
     \/ call'.phase \in Loop /\ \/ Len(thread_buffers') >= ThreadCount
                                \/ call.op = "compress" /\ RawMemcpy

LengthsStay ==
  /\ Len(thread_buffers') = Len(thread_buffers)
  /\ Len(tmp_buffers1') = Len(tmp_buffers1) /\ Len(tmp_buffers2') = Len(tmp_buffers2)

\* A call goes on with the buffers that it has.
Continues ==
  /\ LengthsStay /\ SameCall
  /\ call'.phase = call.phase \/ (call.phase \in Loop /\ call'.phase \in Loop)

Kinds == Rests \/ Ensures \/ Continues

LEMMA LengthsThatStay ==
  ASSUME LengthsStay
  PROVE  AgreementStays
  BY DEF LengthsStay, AgreementStays, LengthsAgree

LEMMA ContextStays ==
  ASSUME ContextOK, UNCHANGED context
  PROVE  /\ ContextOK' /\ LengthsStay /\ params' = params /\ superblock_size' = superblock_size
         /\ thread_buffers' = thread_buffers
  BY DEF context, buffers, ContextOK, BufferVectors, Slot, LengthsStay

\* One slot of each vector may change.
SetOrKept(v, w) ==
  w = v \/ \E k, x : (k \in DOMAIN v => x \in Slot) /\ w = [v EXCEPT ![k] = x]

LEMMA SetOrKeptIsSlots ==
  ASSUME NEW v \in Seq(Slot), NEW w, SetOrKept(v, w)
  PROVE  w \in Seq(Slot) /\ Len(w) = Len(v)
  BY SetSlot DEF SetOrKept

LEMMA SlotsAreSet ==
  ASSUME ContextOK, params' = params, superblock_size' = superblock_size,
         SetOrKept(thread_buffers, thread_buffers'), SetOrKept(tmp_buffers1, tmp_buffers1'),
         SetOrKept(tmp_buffers2, tmp_buffers2')
  PROVE  ContextOK' /\ LengthsStay
PROOF
<1>1. Slot' = Slot  BY DEF Slot
<1>2. /\ thread_buffers' \in Seq(Slot) /\ Len(thread_buffers') = Len(thread_buffers)
      /\ tmp_buffers1' \in Seq(Slot) /\ Len(tmp_buffers1') = Len(tmp_buffers1)
      /\ tmp_buffers2' \in Seq(Slot) /\ Len(tmp_buffers2') = Len(tmp_buffers2)
  BY SetOrKeptIsSlots DEF ContextOK, BufferVectors
<1> QED BY <1>1, <1>2 DEF ContextOK, BufferVectors, LengthsStay

\* The end of a call.
LEMMA EndIsGood ==
  ASSUME ContextOK', FrameInv', call' = NoCall, AgreementStays
  PROVE  IInv' /\ Kinds
  BY DEF IInv, CallOK, Kinds, Rests

\* The end of a call that returns an error.
LEMMA FailIsGood ==
  ASSUME IInv, ContextOK', AgreementStays, NEW e, CompressFails(e) \/ DecompressReturns(e)
  PROVE  IInv' /\ Kinds
PROOF
<1>1. call' = NoCall /\ frame' = frame  BY DEF CompressFails, DecompressReturns, Finish
<1>2. FrameInv'  BY <1>1 DEF IInv, FrameInv, FrameOK
<1> QED BY <1>1, <1>2, EndIsGood

-----------------------------------------------------------------------------
(* The steps of a compression *)

LEMMA AdvanceIsGood ==
  ASSUME IInv, Compression, NEW new, FrameOK(new), new.total = call.frame.total,
         NEW n \in Nat, n <= call.chunks, NEW phase \in {"one", "fork"}, Advance(new, n, phase),
         ContextOK', params' = params, superblock_size' = superblock_size, LengthsStay,
         call.phase = phase \/ (call.phase \in Loop /\ phase \in Loop)
  PROVE  IInv' /\ Kinds
PROOF
<1>1. superblock_size \in Nat /\ call.frame.total \in Nat  BY CallFacts
<1>2. /\ call.src \in Nat /\ call.chunks \in Nat \ {0}
      /\ call.src + (call.chunks - 1) * superblock_size <= call.frame.total
  BY DEF Compression, InputLeft
<1>3. CASE call.chunks = n
  <2>1. call' = NoCall /\ frame' = new  BY <1>3 DEF Advance, Finish
  <2>2. FrameInv'  BY <2>1 DEF FrameInv
  <2> QED BY <2>1, <2>2, EndIsGood, LengthsThatStay
<1>4. CASE call.chunks # n
  <2>1. /\ call' = [call EXCEPT !.phase = phase, !.frame = new, !.chunks = @ - n,
                                !.src = @ + n * superblock_size, !.outs = <<>>]
        /\ frame' = frame
    BY <1>4 DEF Advance
  <2>2. PICK p, c, f, s, t, o, m, r :
          call = [op |-> "compress", phase |-> p, cap |-> c, frame |-> f, src |-> s, tasks |-> t,
                  outs |-> o, chunks |-> m, res_code |-> r]
    BY DEF Compression
  <2>3. call' = [op |-> "compress", phase |-> phase, cap |-> c, frame |-> new,
                 src |-> call.src + n * superblock_size, tasks |-> t, outs |-> <<>>,
                 chunks |-> call.chunks - n, res_code |-> r]
    BY <2>1, <2>2
  <2>4. /\ call'.op = "compress" /\ call'.phase = phase /\ call'.frame = new
        /\ call'.src = call.src + n * superblock_size /\ call'.chunks = call.chunks - n
    BY <2>3
  <2>5. InputLeft'
    <3> DEFINE x == n * superblock_size
               y == (call.chunks - n - 1) * superblock_size
    <3>1. x \in Nat /\ y \in Int
      <4>1. n \in Nat /\ superblock_size \in Nat /\ call.chunks - n - 1 \in Int  BY <1>1, <1>2
      <4>2. x \in Nat  BY ONLY <4>1, ProductOfNaturals
      <4>3. y \in Int  BY ONLY <4>1, Distributes
      <4> QED BY <4>2, <4>3
    <3>2. (n + (call.chunks - n - 1)) * superblock_size = x + y  BY <1>1, <1>2, Distributes
    <3>3. n + (call.chunks - n - 1) = call.chunks - 1  BY <1>2
    <3>4. call'.chunks \in Nat \ {0}  BY <1>2, <1>4, <2>4
    <3>5. call'.src = call.src + x /\ (call'.chunks - 1) * superblock_size' = y  BY <2>4
    <3>6. call.src + (x + y) <= call.frame.total  BY <1>2, <3>2, <3>3
    <3> HIDE DEF x, y
    <3>7. call'.src \in Nat /\ call'.src + y <= new.total  BY <1>2, <3>1, <3>5, <3>6
    <3> QED BY <2>4, <3>4, <3>5, <3>7 DEF InputLeft
  <2>6. InLoop' /\ TasksLeaveOutcomes'  BY <2>4 DEF InLoop, TasksLeaveOutcomes, Loop
  <2>7. FrameOK(call.frame)'  BY <2>4 DEF FrameOK, OutOK
  <2>8. superblock_size' # 0  BY DEF Compression
  <2>9. Compression'  BY <2>3, <2>5, <2>6, <2>7, <2>8 DEF Compression
  <2>10. FrameInv'  BY <2>1 DEF IInv, FrameInv, FrameOK
  <2>11. IInv'  BY <2>9, <2>10 DEF IInv, CallOK
  <2>12. Continues  BY <2>2, <2>4 DEF Continues, SameCall, Compression
  <2> QED BY <2>11, <2>12 DEF Kinds
<1> QED BY <1>3, <1>4

\* A step that leaves a compression at the same place of its input.
LEMMA CompressionStays ==
  ASSUME IInv, Compression, ContextOK', params' = params, superblock_size' = superblock_size,
         frame' = frame,
         NEW p, NEW c, NEW f, NEW t, NEW o, NEW r,
         call' = [op |-> "compress", phase |-> p, cap |-> c, frame |-> f, src |-> call.src,
                  tasks |-> t, outs |-> o, chunks |-> call.chunks, res_code |-> r],
         FrameOK(f), f.total = call.frame.total, InLoop', TasksLeaveOutcomes'
  PROVE  IInv' /\ SameCall
PROOF
<1>1. /\ call.op = "compress" /\ call'.op = "compress" /\ call'.frame = f
      /\ call'.src = call.src /\ call'.chunks = call.chunks
  BY DEF Compression
<1>2. SameCall  BY <1>1 DEF SameCall
<1>3. InputLeft' /\ superblock_size' # 0  BY <1>1 DEF Compression, InputLeft
<1>4. Compression'
  <2>1. FrameOK(call.frame)'  BY <1>1
  <2> QED BY <1>3, <2>1 DEF Compression
<1>5. FrameInv'  BY DEF IInv, FrameInv
<1> QED BY <1>2, <1>4, <1>5 DEF IInv, CallOK

LEMMA CompressEnsureIsGood ==
  ASSUME IInv, CompressEnsure
  PROVE  IInv' /\ Kinds
PROOF
<1>1. Compression /\ call.phase = "ensure" /\ call.op = "compress" /\ ContextOK
  BY WhichCall DEF CompressEnsure, Compressing, IInv
<1>2. params' = params /\ superblock_size' = superblock_size  BY DEF CompressEnsure
<1>3. ThreadCount \in Nat /\ FrameOK(call.frame)  BY <1>1, CallFacts DEF Compression
<1>4. PICK p, c, f, s, t, o, m, r :
        call = [op |-> "compress", phase |-> p, cap |-> c, frame |-> f, src |-> s, tasks |-> t,
                outs |-> o, chunks |-> m, res_code |-> r]
  BY <1>1 DEF Compression
<1> DEFINE n == IF Mono THEN 1 ELSE ThreadCount
<1>5. n \in Int  BY <1>3
<1>6. ASSUME NEW phase \in {"one", "fork"}, call' = [call EXCEPT !.phase = phase], frame' = frame,
             ContextOK'
      PROVE  IInv' /\ SameCall
  <2>1. call' = [op |-> "compress", phase |-> phase, cap |-> c, frame |-> call.frame,
                 src |-> call.src, tasks |-> t, outs |-> o, chunks |-> call.chunks, res_code |-> r]
    BY <1>4, <1>6
  <2>2. call'.phase = phase  BY <2>1
  <2>3. InLoop' /\ TasksLeaveOutcomes'  BY <2>2 DEF InLoop, TasksLeaveOutcomes, Loop
  <2> QED BY <1>1, <1>2, <1>3, <1>6, <2>1, <2>3, CompressionStays
<1>7. CASE ~Mono /\ RawMemcpy /\ UNCHANGED buffers
  <2>1. ContextOK' /\ LengthsStay
    BY <1>1, <1>2, <1>7 DEF buffers, ContextOK, BufferVectors, Slot, LengthsStay
  <2>2. CASE CompressFails("dst_overflow")
    BY <2>1, <2>2, FailIsGood, LengthsThatStay
  <2>3. CASE call' = [call EXCEPT !.phase = "fork"] /\ UNCHANGED <<frame, result>>
    <3>1. IInv' /\ SameCall  BY <1>6, <2>1, <2>3
    <3>2. call'.phase = "fork"  BY <1>4, <2>3
    <3> QED BY <1>1, <1>7, <2>1, <3>1, <3>2, LengthsThatStay DEF Kinds, Ensures, Loop
  <2> QED BY <1>7, <2>2, <2>3 DEF CompressEnsure
<1>8. CASE /\ EnsureSucceeds(n) /\ frame' = frame
           /\ call' = [call EXCEPT !.phase = IF Mono THEN "one" ELSE "fork"]
  <2>1. /\ ContextOK' /\ Len(thread_buffers') >= n
        /\ Len(tmp_buffers1) = Len(thread_buffers) => Len(tmp_buffers1') = Len(thread_buffers')
        /\ Len(tmp_buffers2) = Len(thread_buffers) => Len(tmp_buffers2') = Len(thread_buffers')
    <3> HIDE DEF n
    <3> QED BY <1>1, <1>2, <1>5, <1>8, EnsureGrows
  <2>2. AgreementStays  BY <2>1 DEF AgreementStays, LengthsAgree
  <2>3. IInv' /\ SameCall
    <3> DEFINE phase == IF Mono THEN "one" ELSE "fork"
    <3>1. phase \in {"one", "fork"}  OBVIOUS
    <3> HIDE DEF phase
    <3>2. call' = [call EXCEPT !.phase = phase]  BY <1>8 DEF phase
    <3> QED BY <1>6, <1>8, <2>1, <3>1, <3>2
  <2>4. call'.phase = IF Mono THEN "one" ELSE "fork"  BY <1>4, <1>8
  <2> QED BY <2>1, <2>2, <2>3, <2>4 DEF Kinds, Ensures, Loop
<1>9. CASE EnsureFails(n) /\ CompressFails("alloc")
  <2>1. ContextOK'
    <3> HIDE DEF n
    <3> QED BY <1>1, <1>2, <1>5, <1>9, EnsureThrows
  <2>2. AgreementStays
    BY <1>1, <1>9 DEF AgreementStays, Throws, CompressFails, Finish, Returned
  <2> QED BY <1>9, <2>1, <2>2, FailIsGood
<1> QED BY <1>7, <1>8, <1>9 DEF CompressEnsure

LEMMA CompressOneIsGood ==
  ASSUME IInv, CompressOne
  PROVE  IInv' /\ Kinds
PROOF
<1>1. Compression /\ call.phase = "one" /\ ContextOK
  BY WhichCall DEF CompressOne, Compressing, IInv
<1>2. params' = params /\ superblock_size' = superblock_size /\ thread_buffers' = thread_buffers
  BY DEF CompressOne
<1>3. call.chunks \in Nat \ {0}  BY <1>1 DEF Compression, InputLeft
<1>4. Length(1) \in Nat  BY <1>1, <1>3, PieceInInput
<1>5. PICK r \in SuperblockResults(1, call.frame.bytesoftype, Length(1), call.cap - call.frame.size) :
        /\ tmp_buffers1' = [tmp_buffers1 EXCEPT ![1] = r.b1]
        /\ tmp_buffers2' = [tmp_buffers2 EXCEPT ![1] = r.b2]
        /\ IF r.out.error # "none"
           THEN CompressFails(r.out.error)
           ELSE Advance(Longer({BlockAt(call.frame.size, r.out, 1)}, 4 + r.out.csize), 1, "one")
  BY DEF CompressOne
<1>6. /\ 1 \in DOMAIN tmp_buffers1 => r.b1 \in Slot
      /\ 1 \in DOMAIN tmp_buffers2 => r.b2 \in Slot
      /\ OutOK(r.out)
  BY <1>1, <1>4, ResultsAreGood DEF ContextOK
<1>7. ContextOK' /\ LengthsStay  BY <1>1, <1>2, <1>5, <1>6, SlotsAreSet DEF SetOrKept
<1>8. CASE r.out.error # "none"
  BY <1>5, <1>7, <1>8, FailIsGood, LengthsThatStay
<1>9. CASE r.out.error = "none"
  <2> DEFINE b == BlockAt(call.frame.size, r.out, 1)
             new == Longer({b}, 4 + r.out.csize)
  <2>1. Advance(new, 1, "one")  BY <1>5, <1>9
  <2>2. OutOK(b)  BY <1>6 DEF BlockAt, OutOK
  <2> HIDE DEF b
  <2>3. FrameOK(new) /\ new.total = call.frame.total
    BY <1>1, <2>2, LongerIsGood DEF Compression
  <2> HIDE DEF new
  <2> QED BY <1>1, <1>2, <1>3, <1>7, <2>1, <2>3, AdvanceIsGood
<1> QED BY <1>8, <1>9

LEMMA ForkChunkIsGood ==
  ASSUME IInv, ForkChunk
  PROVE  IInv' /\ Kinds
PROOF
<1>1. Compression /\ call.phase = "fork" /\ ContextOK
  BY WhichCall DEF ForkChunk, Compressing, IInv
<1>2. /\ ContextOK' /\ LengthsStay /\ params' = params /\ superblock_size' = superblock_size
  BY <1>1, ContextStays DEF ForkChunk
<1>3. PICK p, c, f, s, t, o, m, r :
        call = [op |-> "compress", phase |-> p, cap |-> c, frame |-> f, src |-> s, tasks |-> t,
                outs |-> o, chunks |-> m, res_code |-> r]
  BY <1>1 DEF Compression
<1> DEFINE outs == [k \in 1..ChunkSize |-> 0]
<1>4. call' = [op |-> "compress", phase |-> "tasks", cap |-> c, frame |-> call.frame,
               src |-> call.src, tasks |-> 1..ChunkSize, outs |-> outs, chunks |-> call.chunks,
               res_code |-> r]
  BY <1>3 DEF ForkChunk
<1>5. outs \in [1..ChunkSize -> {0}]  OBVIOUS
<1> HIDE DEF outs
<1>6. /\ call'.phase = "tasks" /\ call'.tasks = 1..ChunkSize /\ call'.outs = outs
      /\ call'.chunks = call.chunks /\ call'.frame = call.frame
  BY <1>4
<1>7. ChunkSize' = ChunkSize  BY <1>2, <1>6, CallGoesOn
<1>8. InLoop' /\ TasksLeaveOutcomes'
  BY <1>5, <1>6, <1>7 DEF InLoop, TasksLeaveOutcomes, Loop
<1>9. frame' = frame /\ FrameOK(call.frame)  BY <1>1 DEF ForkChunk, Compression
<1>10. IInv' /\ SameCall
  <2> HIDE DEF ForkChunk
  <2> QED BY <1>1, <1>2, <1>4, <1>8, <1>9, CompressionStays
<1> QED BY <1>1, <1>2, <1>6, <1>10 DEF Kinds, Continues, Loop

\* A task of a chunk works on input bytes that are there.
LEMMA TaskFacts ==
  ASSUME IInv, Compression, call.phase \in {"tasks", "copy"}, NEW k \in call.tasks
  PROVE  k \in 1..ChunkSize /\ k \in Nat \ {0} /\ k <= call.chunks /\ Length(k) \in Nat
PROOF
<1>1. k \in 1..ChunkSize  BY DEF Compression, InLoop
<1>2. ChunkSize \in Int /\ ChunkSize <= call.chunks /\ call.chunks \in Int  BY CallFacts
<1>3. k \in Nat \ {0} /\ k <= call.chunks  BY <1>1, <1>2
<1> QED BY <1>1, <1>3, PieceInInput

\* A task has run, and the others are still to run.
LEMMA TaskIsGood ==
  ASSUME IInv, Compression, call.phase \in {"tasks", "copy"},
         ContextOK', params' = params, superblock_size' = superblock_size, LengthsStay,
         frame' = frame, NEW k \in call.tasks, NEW o, NEW f, NEW r,
         call' = [call EXCEPT !.tasks = call.tasks \ {k}, !.outs = o, !.frame = f, !.res_code = r],
         FrameOK(f), f.total = call.frame.total,
         call.phase = "tasks" /\ ~RawMemcpy =>
           /\ \E S : o \in [1..ChunkSize -> S]
           /\ NoBuffer(k)' \/ OutOK(o[k])
           /\ \A j \in (1..ChunkSize) \ {k} :
                o[j] = call.outs[j] /\ (NoBuffer(j) => NoBuffer(j)'),
         call.phase = "copy" => o = call.outs
  PROVE  IInv' /\ Kinds
PROOF
<1>1. PICK p, c, f0, s, t, o0, m, r0 :
        call = [op |-> "compress", phase |-> p, cap |-> c, frame |-> f0, src |-> s, tasks |-> t,
                outs |-> o0, chunks |-> m, res_code |-> r0]
  BY DEF Compression
<1>2. call' = [op |-> "compress", phase |-> call.phase, cap |-> c, frame |-> f,
               src |-> call.src, tasks |-> call.tasks \ {k}, outs |-> o, chunks |-> call.chunks,
               res_code |-> r]
  BY <1>1
<1>3. /\ call'.phase = call.phase /\ call'.tasks = call.tasks \ {k} /\ call'.outs = o
      /\ call'.chunks = call.chunks /\ call'.frame = f
  BY <1>2
<1>4. ChunkSize' = ChunkSize /\ RawMemcpy' = RawMemcpy  BY <1>3, CallGoesOn
<1>5. InLoop'  BY <1>3, <1>4 DEF Compression, InLoop
<1>6. TasksLeaveOutcomes'
  <2>1. ASSUME call'.phase = "tasks", ~RawMemcpy'
        PROVE  /\ \E S : call'.outs \in [1..ChunkSize' -> S]
               /\ \A j \in 1..ChunkSize' :
                    j \in call'.tasks \/ NoBuffer(j)' \/ OutOK(call'.outs[j])
    <3>1. call.phase = "tasks" /\ ~RawMemcpy  BY <1>3, <1>4, <2>1
    <3>2. \A j \in 1..ChunkSize :
            j \in call.tasks \/ NoBuffer(j) \/ OutOK(call.outs[j])
      BY <3>1 DEF Compression, TasksLeaveOutcomes
    <3>3. ASSUME NEW j \in 1..ChunkSize
          PROVE  j \in call.tasks \ {k} \/ NoBuffer(j)' \/ OutOK(o[j])
      <4>1. CASE j = k  BY <3>1, <4>1
      <4>2. CASE j # k
        <5>1. o[j] = call.outs[j] /\ (NoBuffer(j) => NoBuffer(j)')  BY <3>1, <4>2
        <5> QED BY <3>2, <4>2, <5>1
      <4> QED BY <4>1, <4>2
    <3>4. \E S : o \in [1..ChunkSize -> S]  BY <3>1
    <3> QED BY <1>3, <1>4, <3>3, <3>4
  <2>2. ASSUME call'.phase = "copy"
        PROVE  \A j \in 1..ChunkSize' : OutOK(call'.outs[j])
    <3>1. o = call.outs /\ call.phase = "copy"  BY <1>3, <2>2
    <3>2. \A j \in 1..ChunkSize : OutOK(call.outs[j])
      BY <3>1 DEF Compression, TasksLeaveOutcomes
    <3> QED BY <1>3, <1>4, <3>1, <3>2
  <2> QED BY <2>1, <2>2 DEF TasksLeaveOutcomes
<1>7. IInv' /\ SameCall
  <2> DEFINE phase == call.phase
             left == call.tasks \ {k}
  <2>1. call' = [op |-> "compress", phase |-> phase, cap |-> c, frame |-> f,
                 src |-> call.src, tasks |-> left, outs |-> o, chunks |-> call.chunks,
                 res_code |-> r]
    BY <1>2
  <2> HIDE DEF phase, left
  <2>2. /\ IInv /\ Compression /\ ContextOK' /\ params' = params
        /\ superblock_size' = superblock_size /\ frame' = frame
        /\ FrameOK(f) /\ f.total = call.frame.total /\ InLoop' /\ TasksLeaveOutcomes'
    BY <1>5, <1>6
  <2> QED BY ONLY <2>1, <2>2, CompressionStays
<1> QED BY <1>3, <1>7 DEF Kinds, Continues

LEMMA CompressTaskIsGood ==
  ASSUME IInv, NEW k \in 1..Len(thread_buffers), CompressTask(k)
  PROVE  IInv' /\ Kinds
PROOF
<1>1. /\ Compression /\ call.phase = "tasks" /\ ContextOK /\ BufferVectors /\ ~RawMemcpy
      /\ k \in call.tasks
  BY WhichCall DEF CompressTask, Compressing, IInv, ContextOK
<1>2. /\ params' = params /\ superblock_size' = superblock_size /\ frame' = frame
  BY DEF CompressTask
<1>3. k \in 1..ChunkSize /\ Length(k) \in Nat  BY <1>1, TaskFacts
<1>4. PICK buffer \in Made(thread_buffers[k]) :
        /\ thread_buffers' = [thread_buffers EXCEPT ![k] = buffer]
        /\ \/ /\ buffer = 0
              /\ call' = [call EXCEPT !.tasks = @ \ {k}]
              /\ UNCHANGED <<tmp_buffers1, tmp_buffers2, finish_memcpy>>
           \/ /\ buffer # 0
              /\ \E r \in SuperblockResults(k, call.frame.bytesoftype, Length(k), superblock_size + 4) :
                   /\ tmp_buffers1' = [tmp_buffers1 EXCEPT ![k] = r.b1]
                   /\ tmp_buffers2' = [tmp_buffers2 EXCEPT ![k] = r.b2]
                   /\ finish_memcpy' = r.finish
                   /\ call' = [call EXCEPT !.tasks = @ \ {k}, !.outs[k] = r.out]
  BY DEF CompressTask
<1>5. thread_buffers[k] \in Slot /\ k \in DOMAIN thread_buffers
  BY <1>1 DEF BufferVectors
<1>6. buffer \in Slot  BY <1>5, MadeIsSlot
<1>7. SetOrKept(thread_buffers, thread_buffers')  BY <1>4, <1>6 DEF SetOrKept
<1>8. /\ buffer = 0 => NoBuffer(k)'
      /\ \A j \in (1..ChunkSize) \ {k} : NoBuffer(j) => NoBuffer(j)'
  BY <1>4, <1>5 DEF NoBuffer
<1>9. PICK S : call.outs \in [1..ChunkSize -> S]
  BY <1>1 DEF Compression, TasksLeaveOutcomes
<1>10. FrameOK(call.frame)  BY <1>1 DEF Compression
<1>11. PICK p, c, f0, s, t, o0, m, r0 :
        call = [op |-> "compress", phase |-> p, cap |-> c, frame |-> f0, src |-> s, tasks |-> t,
                outs |-> o0, chunks |-> m, res_code |-> r0]
  BY <1>1 DEF Compression
<1>12. CASE /\ buffer = 0
            /\ call' = [call EXCEPT !.tasks = @ \ {k}]
            /\ UNCHANGED <<tmp_buffers1, tmp_buffers2, finish_memcpy>>
  <2>1. ContextOK' /\ LengthsStay
    BY <1>1, <1>2, <1>7, <1>12, SlotsAreSet DEF SetOrKept
  <2>2. call' = [call EXCEPT !.tasks = call.tasks \ {k}, !.outs = call.outs,
                             !.frame = call.frame, !.res_code = call.res_code]
    BY <1>11, <1>12
  <2>3. /\ IInv /\ Compression /\ call.phase \in {"tasks", "copy"} /\ call.phase # "copy"
        /\ ContextOK' /\ params' = params /\ superblock_size' = superblock_size /\ LengthsStay
        /\ frame' = frame /\ k \in call.tasks
    BY <1>1, <1>2, <2>1
  <2>4. /\ \E T : call.outs \in [1..ChunkSize -> T]
        /\ NoBuffer(k)'
        /\ \A j \in (1..ChunkSize) \ {k} : NoBuffer(j) => NoBuffer(j)'
    BY <1>8, <1>9, <1>12
  <2> QED BY ONLY <1>10, <2>2, <2>3, <2>4, TaskIsGood
<1>13. CASE /\ buffer # 0
            /\ \E r \in SuperblockResults(k, call.frame.bytesoftype, Length(k), superblock_size + 4) :
                 /\ tmp_buffers1' = [tmp_buffers1 EXCEPT ![k] = r.b1]
                 /\ tmp_buffers2' = [tmp_buffers2 EXCEPT ![k] = r.b2]
                 /\ finish_memcpy' = r.finish
                 /\ call' = [call EXCEPT !.tasks = @ \ {k}, !.outs[k] = r.out]
  <2>1. PICK r \in SuperblockResults(k, call.frame.bytesoftype, Length(k), superblock_size + 4) :
          /\ tmp_buffers1' = [tmp_buffers1 EXCEPT ![k] = r.b1]
          /\ tmp_buffers2' = [tmp_buffers2 EXCEPT ![k] = r.b2]
          /\ call' = [call EXCEPT !.tasks = @ \ {k}, !.outs[k] = r.out]
    BY <1>13
  <2>2. /\ k \in DOMAIN tmp_buffers1 => r.b1 \in Slot
        /\ k \in DOMAIN tmp_buffers2 => r.b2 \in Slot
        /\ OutOK(r.out)
    BY <1>1, <1>3, ResultsAreGood
  <2>3. ContextOK' /\ LengthsStay
    BY <1>1, <1>2, <1>7, <2>1, <2>2, SlotsAreSet DEF SetOrKept
  <2> DEFINE o == [call.outs EXCEPT ![k] = r.out]
  <2>4. call' = [call EXCEPT !.tasks = call.tasks \ {k}, !.outs = o,
                             !.frame = call.frame, !.res_code = call.res_code]
    BY <1>11, <2>1
  <2>5. o \in [1..ChunkSize -> S \union {r.out}]  BY <1>9
  <2>6. o[k] = r.out /\ \A j \in (1..ChunkSize) \ {k} : o[j] = call.outs[j]  BY <1>3, <1>9
  <2> HIDE DEF o
  <2> QED BY <1>1, <1>2, <1>8, <1>10, <2>2, <2>3, <2>4, <2>5, <2>6, TaskIsGood
<1> QED BY <1>4, <1>12, <1>13

LEMMA RawTaskIsGood ==
  ASSUME IInv, NEW k \in call.tasks, RawTask(k)
  PROVE  IInv' /\ Kinds
PROOF
<1>1. Compression /\ call.phase = "tasks" /\ ContextOK /\ RawMemcpy
  BY WhichCall DEF RawTask, Compressing, IInv
<1>2. /\ ContextOK' /\ LengthsStay /\ params' = params /\ superblock_size' = superblock_size
      /\ frame' = frame
  BY <1>1, ContextStays DEF RawTask
<1>3. Length(k) \in Nat  BY <1>1, TaskFacts
<1> DEFINE at == call.frame.size + (k - 1) * (superblock_size + 4)
           b == BlockAt(at, [code |-> "COPY", csize |-> Length(k)], k)
           blocks == IF call.cap - at < Length(k) + 4 THEN call.frame.blocks
                     ELSE call.frame.blocks \union {b}
           f == [call.frame EXCEPT !.blocks = blocks]
<1>4. OutOK(b)  BY <1>3 DEF BlockAt, OutOK, Codes
<1>5. PICK p, c, f0, s, t, o0, m, r0 :
        call = [op |-> "compress", phase |-> p, cap |-> c, frame |-> f0, src |-> s, tasks |-> t,
                outs |-> o0, chunks |-> m, res_code |-> r0]
  BY <1>1 DEF Compression
<1>6. call' = [call EXCEPT !.tasks = @ \ {k}, !.frame.blocks =
                 IF call.cap - at < Length(k) + 4 THEN @ ELSE @ \union {b}]
  BY DEF RawTask
<1> HIDE DEF b, at
<1>7. call' = [call EXCEPT !.tasks = call.tasks \ {k}, !.outs = call.outs, !.frame = f,
                           !.res_code = call.res_code]
  BY <1>5, <1>6
<1>8. FrameOK(call.frame)  BY <1>1 DEF Compression
<1>9. FrameOK(f) /\ f.total = call.frame.total
  <2>1. \A x \in blocks : OutOK(x)  BY <1>4, <1>8 DEF FrameOK
  <2> HIDE DEF blocks
  <2>2. f.blocks = blocks  BY <1>8 DEF FrameOK
  <2>3. f = [call.frame EXCEPT !.blocks = f.blocks]  BY <2>2
  <2> HIDE DEF f
  <2> QED BY <1>8, <2>1, <2>2, <2>3, FrameGrows
<1> HIDE DEF f
<1> QED BY <1>1, <1>2, <1>7, <1>9, TaskIsGood

LEMMA CopyTaskIsGood ==
  ASSUME IInv, NEW k \in call.tasks, CopyTask(k)
  PROVE  IInv' /\ Kinds
PROOF
<1>1. Compression /\ call.phase = "copy" /\ ContextOK
  BY WhichCall DEF CopyTask, Compressing, IInv
<1>2. /\ ContextOK' /\ LengthsStay /\ params' = params /\ superblock_size' = superblock_size
      /\ frame' = frame
  BY <1>1, ContextStays DEF CopyTask
<1>3. k \in 1..ChunkSize  BY <1>1, TaskFacts
<1> DEFINE at == call.frame.size + OutSize(k - 1)
           b == BlockAt(at, call.outs[k], k)
           f == [call.frame EXCEPT !.blocks = @ \union {b}]
<1>4. OutOK(b)
  <2>1. OutOK(call.outs[k])  BY <1>1, <1>3 DEF Compression, TasksLeaveOutcomes
  <2> QED BY <2>1 DEF BlockAt, OutOK
<1>5. PICK p, c, f0, s, t, o0, m, r0 :
        call = [op |-> "compress", phase |-> p, cap |-> c, frame |-> f0, src |-> s, tasks |-> t,
                outs |-> o0, chunks |-> m, res_code |-> r0]
  BY <1>1 DEF Compression
<1>6. \/ call' = [call EXCEPT !.tasks = @ \ {k}, !.res_code = "dst_overflow"]
      \/ call' = [call EXCEPT !.tasks = @ \ {k}, !.frame.blocks = @ \union {b}]
  BY DEF CopyTask
<1> HIDE DEF b
<1>7. \/ call' = [call EXCEPT !.tasks = call.tasks \ {k}, !.outs = call.outs,
                              !.frame = call.frame, !.res_code = "dst_overflow"]
      \/ call' = [call EXCEPT !.tasks = call.tasks \ {k}, !.outs = call.outs, !.frame = f,
                              !.res_code = call.res_code]
  <2>1. CASE call' = [call EXCEPT !.tasks = @ \ {k}, !.res_code = "dst_overflow"]
    BY <1>5, <2>1
  <2>2. CASE call' = [call EXCEPT !.tasks = @ \ {k}, !.frame.blocks = @ \union {b}]
    BY <1>5, <2>2
  <2> QED BY <1>6, <2>1, <2>2
<1>8. FrameOK(call.frame)  BY <1>1 DEF Compression
<1>9. FrameOK(f) /\ f.total = call.frame.total
  <2>1. \A x \in call.frame.blocks \union {b} : OutOK(x)  BY <1>4, <1>8 DEF FrameOK
  <2>2. f.blocks = call.frame.blocks \union {b}  BY <1>8 DEF FrameOK
  <2>3. f = [call.frame EXCEPT !.blocks = f.blocks]  BY <2>2
  <2> HIDE DEF f
  <2> QED BY <1>8, <2>1, <2>2, <2>3, FrameGrows
<1> HIDE DEF f
<1> QED BY <1>1, <1>2, <1>7, <1>8, <1>9, TaskIsGood

\* A chunk is done, and the loop goes on after its superblocks.
LEMMA ChunkIsGood ==
  ASSUME IInv, Compression, call.phase \in {"tasks", "copy"}, UNCHANGED context, NEW size,
         Advance(Longer({}, size), ChunkSize, "fork")
  PROVE  IInv' /\ Kinds
PROOF
<1>1. FrameOK(call.frame) /\ ContextOK  BY DEF Compression, IInv
<1>2. ContextOK' /\ LengthsStay /\ params' = params /\ superblock_size' = superblock_size
  BY <1>1, ContextStays
<1>3. ChunkSize \in Nat /\ ChunkSize <= call.chunks
  <2>1. ThreadCount \in Nat /\ ChunkSize <= call.chunks  BY CallFacts
  <2>2. call.chunks \in Nat  BY DEF Compression, InputLeft
  <2> QED BY <2>1, <2>2 DEF ChunkSize, Min2
<1> DEFINE new == Longer({}, size)
<1>4. FrameOK(new) /\ new.total = call.frame.total  BY <1>1, LongerIsGood
<1>5. Advance(new, ChunkSize, "fork")  OBVIOUS
<1> HIDE DEF new
<1>6. call.phase \in Loop /\ "fork" \in Loop /\ IInv /\ Compression  BY DEF Loop
<1> QED BY ONLY <1>2, <1>3, <1>4, <1>5, <1>6, AdvanceIsGood

LEMMA JoinRawIsGood ==
  ASSUME IInv, JoinRaw
  PROVE  IInv' /\ Kinds
PROOF
<1>1. Compression /\ call.phase = "tasks" /\ ContextOK /\ UNCHANGED context
  BY WhichCall DEF JoinRaw, Compressing, IInv
<1>2. ContextOK' /\ LengthsStay  BY <1>1, ContextStays
<1>3. PICK size : CompressFails("dst_overflow") \/ Advance(Longer({}, size), ChunkSize, "fork")
  BY DEF JoinRaw
<1>4. CASE CompressFails("dst_overflow")  BY <1>2, <1>4, FailIsGood, LengthsThatStay
<1>5. CASE Advance(Longer({}, size), ChunkSize, "fork")  BY <1>1, <1>5, ChunkIsGood
<1> QED BY <1>3, <1>4, <1>5

LEMMA JoinCopyIsGood ==
  ASSUME IInv, JoinCopy
  PROVE  IInv' /\ Kinds
PROOF
<1>1. Compression /\ call.phase = "copy" /\ ContextOK /\ UNCHANGED context
  BY WhichCall DEF JoinCopy, Compressing, IInv
<1>2. ContextOK' /\ LengthsStay  BY <1>1, ContextStays
<1>3. CompressFails(call.res_code) \/ Advance(Longer({}, OutSize(ChunkSize)), ChunkSize, "fork")
  BY DEF JoinCopy
<1> DEFINE size == OutSize(ChunkSize)
           e == call.res_code
<1>4. CASE CompressFails(e)
  <2> HIDE DEF e
  <2> QED BY <1>2, <1>4, FailIsGood, LengthsThatStay
<1>5. CASE Advance(Longer({}, size), ChunkSize, "fork")
  <2> HIDE DEF size
  <2> QED BY <1>1, <1>5, ChunkIsGood
<1> QED BY <1>3, <1>4, <1>5

LEMMA JoinChunkIsGood ==
  ASSUME IInv, JoinChunk
  PROVE  IInv' /\ Kinds
PROOF
<1>1. /\ Compression /\ call.phase = "tasks" /\ ~RawMemcpy /\ call.tasks = {} /\ ContextOK
      /\ UNCHANGED context
  BY WhichCall DEF JoinChunk, Compressing, IInv, ChunkDone
<1>2. ContextOK' /\ LengthsStay /\ params' = params /\ superblock_size' = superblock_size
  BY <1>1, ContextStays
<1> DEFINE failed == {k \in 1..ChunkSize : thread_buffers[k] = 0 \/ call.outs[k].error # "none"}
<1>3. \/ \E e : CompressFails(e)
      \/ /\ failed = {} /\ frame' = frame
         /\ call' = [call EXCEPT !.phase = "copy", !.tasks = 1..ChunkSize]
  BY DEF JoinChunk
<1>4. CASE \E e : CompressFails(e)
  <2>1. PICK e : CompressFails(e)  BY <1>4
  <2> QED BY <1>2, <2>1, FailIsGood, LengthsThatStay
<1>5. CASE /\ failed = {} /\ frame' = frame
           /\ call' = [call EXCEPT !.phase = "copy", !.tasks = 1..ChunkSize]
  <2>1. PICK p, c, f, s, t, o, m, r :
          call = [op |-> "compress", phase |-> p, cap |-> c, frame |-> f, src |-> s, tasks |-> t,
                  outs |-> o, chunks |-> m, res_code |-> r]
    BY <1>1 DEF Compression
  <2> DEFINE tasks == 1..ChunkSize
  <2>2. call' = [op |-> "compress", phase |-> "copy", cap |-> c, frame |-> call.frame,
                 src |-> call.src, tasks |-> tasks, outs |-> call.outs, chunks |-> call.chunks,
                 res_code |-> r]
    BY <1>5, <2>1
  <2>3. /\ call'.phase = "copy" /\ call'.tasks = tasks /\ call'.outs = call.outs
        /\ call'.chunks = call.chunks /\ call'.frame = call.frame
    BY <2>2
  <2>4. ChunkSize' = ChunkSize  BY <1>2, <2>3, CallGoesOn
  <2>5. \A k \in 1..ChunkSize : OutOK(call.outs[k])
    <3>1. \A k \in 1..ChunkSize : k \in call.tasks \/ NoBuffer(k) \/ OutOK(call.outs[k])
      BY <1>1 DEF Compression, TasksLeaveOutcomes
    <3>2. \A k \in 1..ChunkSize : thread_buffers[k] # 0  BY <1>5
    <3> QED BY <1>1, <3>1, <3>2 DEF NoBuffer
  <2>6. InLoop' /\ TasksLeaveOutcomes'
    BY <2>3, <2>4, <2>5 DEF InLoop, TasksLeaveOutcomes, Loop
  <2>7. /\ IInv /\ Compression /\ ContextOK' /\ params' = params
        /\ superblock_size' = superblock_size /\ frame' = frame /\ FrameOK(call.frame)
    BY <1>1, <1>2, <1>5 DEF Compression
  <2> HIDE DEF tasks
  <2>8. IInv' /\ SameCall  BY ONLY <2>2, <2>6, <2>7, CompressionStays
  <2> QED BY <1>1, <1>2, <2>3, <2>8 DEF Kinds, Continues, Loop
<1> QED BY <1>3, <1>4, <1>5

-----------------------------------------------------------------------------
(* The setters, and the beginning of a compression *)

\* The buffers stay, or are all freed: in both cases their numbers still agree.
LEMMA FreedOrKept ==
  ASSUME \/ UNCHANGED buffers
         \/ thread_buffers' = <<>> /\ tmp_buffers1' = <<>> /\ tmp_buffers2' = <<>>
  PROVE  AgreementStays
  BY DEF buffers, AgreementStays, LengthsAgree

LEMMA SettersAreGood ==
  ASSUME IInv, SetThreads \/ SetParams \/ ResetContext
  PROVE  IInv' /\ Kinds
PROOF
<1>1. call = NoCall /\ call' = NoCall
  BY DEF SetThreads, SetParams, ResetContext, Idle
<1>2. UNCHANGED <<superblock_size, buffers>>
  BY DEF SetThreads, SetParams, ResetContext
<1>3. params \in ParamsType /\ superblock_size \in Nat /\ BufferVectors
  BY DEF IInv, ContextOK
<1>4. params' \in ParamsType
  <2>1. CASE SetThreads
    <3>1. PICK n \in Threads : params' = [params EXCEPT !.threads = IF n < 1 THEN 1 ELSE n]
      BY <2>1 DEF SetThreads
    <3>2. n \in Int  BY CodecAssumption
    <3>3. (IF n < 1 THEN 1 ELSE n) \in Nat \ {0}  BY <3>2
    <3> QED BY <1>3, <3>1, <3>3 DEF ParamsType
  <2>2. CASE SetParams
    <3>1. CASE \E l \in Levels :
                 params' = [params EXCEPT !.level = IF l > 9 THEN 9 ELSE IF l < 0 THEN 0 ELSE l]
      <4>1. PICK l \in Levels :
              params' = [params EXCEPT !.level = IF l > 9 THEN 9 ELSE IF l < 0 THEN 0 ELSE l]
        BY <3>1
      <4>2. l \in Int  BY CodecAssumption
      <4>3. (IF l > 9 THEN 9 ELSE IF l < 0 THEN 0 ELSE l) \in 0..9  BY <4>2
      <4> QED BY <1>3, <4>1, <4>3 DEF ParamsType
    <3>2. CASE \E b \in (IF MayTime THEN BOOLEAN ELSE {FALSE}) :
                 params' = [params EXCEPT !.timed = b]
      <4>1. PICK b \in BOOLEAN : params' = [params EXCEPT !.timed = b]  BY <3>2
      <4> QED BY <1>3, <4>1 DEF ParamsType
    <3>3. CASE \E s \in Customs :
                 params' = [params EXCEPT !.custom = IF s >= 16 /\ s # NoShift THEN @ ELSE s]
      <4>1. PICK s \in Customs :
              params' = [params EXCEPT !.custom =
                           IF s >= 16 /\ s # NoShift THEN params.custom ELSE s]
        BY <3>3
      <4>2. s \in Nat  BY CodecAssumption
      <4>3. params.custom \in (0..15) \union {NoShift}  BY <1>3 DEF ParamsType
      <4> DEFINE x == IF s >= 16 /\ s # NoShift THEN params.custom ELSE s
      <4>4. x \in (0..15) \union {NoShift}  BY <4>2, <4>3
      <4> HIDE DEF x
      <4>5. params' = [params EXCEPT !.custom = x]  BY <4>1 DEF x
      <4> QED BY <1>3, <4>4, <4>5 DEF ParamsType
    <3> QED BY <2>2, <3>1, <3>2, <3>3 DEF SetParams
  <2>3. CASE ResetContext
    <3>1. params' = [params EXCEPT !.level = 1, !.threads = 1, !.timed = FALSE]
      BY <2>3 DEF ResetContext
    <3> DEFINE q == [params EXCEPT !.level = 1, !.threads = 1]
    <3>2. 1 \in 0..9 /\ 1 \in Nat \ {0}  OBVIOUS
    <3>3. q \in ParamsType  BY <1>3, <3>2 DEF ParamsType
    <3>4. params' = [q EXCEPT !.timed = FALSE]  BY <3>1
    <3> HIDE DEF q
    <3> QED BY <3>3, <3>4 DEF ParamsType
  <2> QED BY <2>1, <2>2, <2>3
<1>5. ContextOK'  BY <1>2, <1>3, <1>4 DEF buffers, ContextOK, BufferVectors, Slot
<1>6. AgreementStays  BY <1>2, FreedOrKept
<1>7. frame' = frame \/ frame' = NoFrame  BY DEF SetThreads, SetParams, ResetContext, Kept
<1>8. FrameInv'  BY <1>7 DEF IInv, FrameInv
<1> QED BY <1>1, <1>5, <1>6, <1>8, EndIsGood

LEMMA BoundIsNat ==
  ASSUME NEW bytes \in Nat
  PROVE  Bound(bytes) \in Nat
PROOF
<1>1. MinSuperblock \in Nat /\ MinSuperblock > 0  BY DEF MinSuperblock
<1>2. Pieces(bytes, MinSuperblock) \in Nat  BY <1>1, PiecesCeiling
<1> QED BY <1>2 DEF Bound

\* The beginning of a call that has something to compress.
LEMMA CompressionBegins ==
  ASSUME ContextOK', FrameInv', AgreementStays, NEW c, NEW new, FrameOK(new), new.total > 0,
         superblock_size' = new.superblock,
         call' = [op |-> "compress", phase |-> "ensure", cap |-> c, frame |-> new, src |-> 0,
                  tasks |-> {}, outs |-> <<>>, chunks |-> Pieces(new.total, new.superblock),
                  res_code |-> "none"]
  PROVE  IInv' /\ Kinds
PROOF
<1> DEFINE n == Pieces(new.total, new.superblock)
           x == (n - 1) * new.superblock
<1>1. new.total \in Nat /\ new.superblock \in Nat /\ new.superblock > 0  BY DEF FrameOK
<1>2. n \in Nat /\ (x < new.total \/ n = 0) /\ (new.total = 0 <=> n = 0)
  BY <1>1, PiecesCeiling
<1>3. x \in Int  BY <1>1, <1>2, Distributes
<1> HIDE DEF n
<1>4. /\ call'.op = "compress" /\ call'.phase = "ensure" /\ call'.frame = new /\ call'.src = 0
      /\ call'.chunks = n
  BY DEF n
<1>5. InputLeft'
  <2>1. call'.src + x <= call'.frame.total  BY <1>1, <1>2, <1>3, <1>4
  <2> QED BY <1>1, <1>2, <1>4, <2>1 DEF InputLeft
<1>6. InLoop' /\ TasksLeaveOutcomes'  BY <1>4 DEF InLoop, TasksLeaveOutcomes
<1>7. FrameOK(call.frame)' /\ superblock_size' # 0  BY <1>1, <1>4
<1>8. Compression'  BY <1>5, <1>6, <1>7 DEF Compression
<1> QED BY <1>4, <1>8 DEF IInv, CallOK, Kinds, Rests

LEMMA CompressBeginIsGood ==
  ASSUME IInv, CompressBegin
  PROVE  IInv' /\ Kinds
PROOF
<1>1. call = NoCall /\ ContextOK /\ params \in ParamsType  BY DEF CompressBegin, Idle, IInv, ContextOK
<1>2. PICK input \in Inputs, short \in Shortfalls :
       LET bytesoftype == input[1]
           bytes == input[2]
           cap   == IF short > Bound(bytes) THEN 0 ELSE Bound(bytes) - short
           error == PlanError(params, bytesoftype, bytes)
           plan  == Plan(params, bytesoftype, bytes)
           head  == HeaderSize(params)
           new   == [size |-> head, header |-> head, shift |-> plan.shift,
                     superblock |-> plan.superblock, bytesoftype |-> bytesoftype,
                     total |-> bytes, blocks |-> {}]
           done(e) == Returned("compress", e, cap, bytes)
       IN  IF error # "none"
           THEN Finish(done(error)) /\ UNCHANGED context /\ frame' = KeptDuring(input)
           ELSE /\ Pieces(bytes, plan.superblock) <= MaxSuperblocks
                /\ UseSuperblockSize(plan.superblock)
                /\ finish_memcpy' = (finish_memcpy /\ ~params.timed)
                /\ UNCHANGED params
                /\ CASE cap < head -> Finish(done("dst_overflow")) /\ frame' = KeptDuring(input)
                     [] cap >= head /\ bytes = 0 -> Finish(done("none")) /\ frame' = new
                     [] OTHER ->
                          /\ call' = [op |-> "compress", phase |-> "ensure", cap |-> cap,
                                      frame |-> new, src |-> 0, tasks |-> {}, outs |-> <<>>,
                                      chunks |-> Pieces(bytes, plan.superblock),
                                      res_code |-> "none"]
                          /\ frame' = KeptDuring(input) /\ result' = NoResult
  BY DEF CompressBegin
<1> DEFINE bytesoftype == input[1]
           bytes == input[2]
           cap   == IF short > Bound(bytes) THEN 0 ELSE Bound(bytes) - short
           error == PlanError(params, bytesoftype, bytes)
           plan  == Plan(params, bytesoftype, bytes)
           head  == HeaderSize(params)
           new   == [size |-> head, header |-> head, shift |-> plan.shift,
                     superblock |-> plan.superblock, bytesoftype |-> bytesoftype,
                     total |-> bytes, blocks |-> {}]
<1>3. bytesoftype \in Nat /\ bytes \in Nat  BY CodecAssumption
<1>4. CASE error # "none"
  <2>1. call' = NoCall /\ UNCHANGED context /\ frame' = KeptDuring(input)  BY <1>2, <1>4 DEF Finish
  <2>2. ContextOK' /\ LengthsStay  BY <1>1, <2>1, ContextStays
  <2>3. FrameInv'  BY <2>1 DEF IInv, FrameInv, KeptDuring, Kept
  <2> QED BY <2>1, <2>2, <2>3, EndIsGood, LengthsThatStay
<1>5. CASE error = "none"
  <2>1. /\ UseSuperblockSize(plan.superblock) /\ params' = params
        /\ \/ call' = NoCall /\ frame' \in {KeptDuring(input), new}
           \/ /\ ~(cap < head) /\ ~(cap >= head /\ bytes = 0)
              /\ call' = [op |-> "compress", phase |-> "ensure", cap |-> cap, frame |-> new,
                          src |-> 0, tasks |-> {}, outs |-> <<>>,
                          chunks |-> Pieces(bytes, plan.superblock), res_code |-> "none"]
              /\ frame' = KeptDuring(input)
    BY <1>2, <1>5 DEF Finish
  <2>2. /\ bytesoftype \in 1..(STENOS_MAX_BYTESOFTYPE - 1)
        /\ plan.superblock \in (bytesoftype * 256)..(STENOS_MAX_BLOCK_BYTES - 1)
    BY <1>1, <1>3, <1>5, AcceptedSizesFit
  <2>3. plan.superblock \in Nat /\ plan.superblock >= bytesoftype * 256
        /\ plan.shift \in (0..4) \union {255}
    BY <1>1, <1>3, <2>2, PlanIsLarge
  <2>4. bytesoftype * 256 >= 256 /\ bytesoftype * 256 \in Nat  BY <2>2, AcceptedElement
  <2>5. plan.superblock \in Nat \ {0}  BY <2>3, <2>4
  <2>6. cap \in Int /\ head \in Int
    <3>1. Bound(bytes) \in Nat /\ short \in Nat  BY <1>3, BoundIsNat, CodecAssumption
    <3> QED BY <3>1 DEF HeaderSize
  <2>7. ContextOK' /\ AgreementStays  BY <1>1, <2>1, <2>5, NewSizeIsGood, FreedOrKept
  <2>8. superblock_size' = plan.superblock  BY <2>1 DEF UseSuperblockSize
  <2> HIDE DEF bytesoftype, bytes, plan, head, cap
  <2>9. FrameOK(new) /\ new.total = bytes /\ new.superblock = plan.superblock
    <3>1. /\ new.shift = plan.shift /\ new.superblock = plan.superblock
          /\ new.bytesoftype = bytesoftype /\ new.total = bytes /\ new.blocks = {}
      OBVIOUS
    <3>2. \E s, h, sh, sb, b, t, bl :
            new = [size |-> s, header |-> h, shift |-> sh, superblock |-> sb, bytesoftype |-> b,
                   total |-> t, blocks |-> bl]
      OBVIOUS
    <3> HIDE DEF new
    <3> QED BY <1>3, <2>2, <2>3, <2>5, <3>1, <3>2 DEF FrameOK
  <2> HIDE DEF new
  <2>10. FrameInv'
    <3>1. frame' = frame \/ frame' = NoFrame \/ frame' = new  BY <2>1 DEF KeptDuring, Kept
    <3> QED BY <2>9, <3>1 DEF IInv, FrameInv
  <2>11. CASE call' = NoCall  BY <2>7, <2>10, <2>11, EndIsGood
  <2>12. CASE /\ ~(cap < head) /\ ~(cap >= head /\ bytes = 0)
              /\ call' = [op |-> "compress", phase |-> "ensure", cap |-> cap, frame |-> new,
                          src |-> 0, tasks |-> {}, outs |-> <<>>,
                          chunks |-> Pieces(bytes, plan.superblock), res_code |-> "none"]
    <3>1. new.total > 0  BY <1>3, <2>6, <2>9, <2>12
    <3>2. call' = [op |-> "compress", phase |-> "ensure", cap |-> cap, frame |-> new,
                   src |-> 0, tasks |-> {}, outs |-> <<>>,
                   chunks |-> Pieces(new.total, new.superblock), res_code |-> "none"]
      BY <2>9, <2>12
    <3> QED BY ONLY <2>7, <2>8, <2>9, <2>10, <3>1, <3>2, CompressionBegins
  <2> QED BY <2>1, <2>11, <2>12
<1> QED BY <1>4, <1>5

-----------------------------------------------------------------------------
(* The steps of a decompression *)

\* The superblock size that is read back from a frame is positive, also when the
\* header of the first superblock is read in its place.
LEMMA ReadSizesArePositive ==
  ASSUME NEW f, FrameOK(f), NEW z \in SuperblockSizes(f)
  PROVE  z \in Nat \ {0}
PROOF
<1> DEFINE default == SuperBlockSize(f.bytesoftype * 256)
<1>1. CASE f.shift = 255
  <2>1. z \in StoredSuperblockSizes(f)  BY <1>1 DEF SuperblockSizes
  <2>2. CASE f.header = 12
    BY <2>1, <2>2 DEF StoredSuperblockSizes, FrameOK
  <2>3. CASE f.header # 12
    <3>1. PICK b \in f.blocks : z = CodeNumber(b.code) + 256 * b.csize
      BY <2>1, <2>3 DEF StoredSuperblockSizes, BlocksAt
    <3>2. b.code \in Codes /\ b.csize \in Nat  BY DEF FrameOK, OutOK
    <3>3. CodeNumber(b.code) \in 1..6  BY <3>2 DEF CodeNumber, Codes
    <3> QED BY <3>1, <3>2, <3>3
  <2> QED BY <2>2, <2>3
<1>2. CASE f.shift # 255
  <2>1. f.shift \in 0..15 /\ f.bytesoftype \in 1..(STENOS_MAX_BYTESOFTYPE - 1)
    BY <1>2 DEF FrameOK
  <2>2. default \in Nat /\ default >= MinSuperblock  BY <2>1, SuperBlockSizeIsLarge
  <2>3. z = ShiftLeft(default, f.shift)  BY <1>2 DEF SuperblockSizes
  <2> HIDE DEF default
  <2>4. z \in Nat /\ z >= default  BY <2>1, <2>2, <2>3, ShiftGrows
  <2> QED BY <2>2, <2>4 DEF MinSuperblock
<1> QED BY <1>1, <1>2

\* A superblock is decoded with the buffer that is there, or a new one.
LEMMA DecodingKeepsSlots ==
  ASSUME NEW block, NEW dsize, NEW buffer \in Slot, NEW r \in DecodeResults(block, dsize, buffer)
  PROVE  r.buffer \in Slot
PROOF
<1> DEFINE verdict == IF Decodes(block, dsize) THEN "none" ELSE "invalid_input"
<1> HIDE DEF verdict
<1>1. CASE NeedsBuffer(block.code)
  <2>1. r \in {[buffer |-> b, error |-> IF b = 0 THEN "alloc" ELSE verdict] : b \in Made(buffer)}
    BY <1>1, Zenon DEF DecodeResults, verdict
  <2>2. r.buffer \in Made(buffer)  BY <2>1
  <2> QED BY <2>2, MadeIsSlot
<1>2. CASE ~NeedsBuffer(block.code)
  <2>1. r \in {[buffer |-> buffer, error |-> verdict]}  BY <1>2, Zenon DEF DecodeResults, verdict
  <2> QED BY <2>1
<1> QED BY <1>1, <1>2

LEMMA DecompressionStays ==
  ASSUME IInv, Decompression, ContextOK', params' = params, superblock_size' = superblock_size,
         frame' = frame,
         NEW p, NEW z, NEW c, NEW s, NEW d, NEW e, NEW n \in Int, NEW t, NEW b, NEW r,
         call' = [op |-> "decompress", phase |-> p, size |-> z, cap |-> c, frame |-> call.frame,
                  src |-> s, dst |-> d, restored |-> e, chunks |-> n, tasks |-> t, blocks |-> b,
                  rets |-> r],
         InLoop'
  PROVE  IInv' /\ SameCall
PROOF
<1>1. /\ call.op = "decompress" /\ call'.op = "decompress" /\ call'.frame = call.frame
      /\ call'.chunks = n
  BY DEF Decompression
<1>2. SameCall  BY <1>1 DEF SameCall
<1>3. Decompression'
  <2>1. FrameOK(call.frame)'  BY <1>1 DEF Decompression
  <2>2. superblock_size' # 0 /\ call'.chunks \in Int  BY <1>1 DEF Decompression
  <2> QED BY <2>1, <2>2 DEF Decompression
<1>4. FrameInv'  BY DEF IInv, FrameInv
<1> QED BY <1>2, <1>3, <1>4 DEF IInv, CallOK

LEMMA AdvanceOutputIsGood ==
  ASSUME IInv, Decompression, NEW n \in Int, NEW src, NEW dst, NEW restored,
         NEW phase \in {"one", "read"}, AdvanceOutput(n, src, dst, restored, phase),
         ContextOK', params' = params, superblock_size' = superblock_size, LengthsStay,
         call.phase = phase \/ (call.phase \in Loop /\ phase \in Loop)
  PROVE  IInv' /\ Kinds
PROOF
<1>1. call.chunks \in Int  BY DEF Decompression
<1>2. CASE call.chunks = n
  <2>1. call' = NoCall /\ frame' = frame  BY <1>2 DEF AdvanceOutput, Finish
  <2>2. FrameInv'  BY <2>1 DEF IInv, FrameInv
  <2> QED BY <2>1, <2>2, EndIsGood, LengthsThatStay
<1>3. CASE call.chunks # n
  <2>1. /\ call' = [call EXCEPT !.phase = phase, !.chunks = @ - n, !.src = src, !.dst = dst,
                                !.restored = restored, !.blocks = <<>>, !.rets = <<>>]
        /\ frame' = frame
    BY <1>3 DEF AdvanceOutput
  <2>2. PICK p, z, c, f, s, d, e, m, t, b, r :
          call = [op |-> "decompress", phase |-> p, size |-> z, cap |-> c, frame |-> f,
                  src |-> s, dst |-> d, restored |-> e, chunks |-> m, tasks |-> t, blocks |-> b,
                  rets |-> r]
    BY DEF Decompression
  <2> DEFINE left == call.chunks - n
             none == <<>>
  <2>3. call' = [op |-> "decompress", phase |-> phase, size |-> z, cap |-> c,
                 frame |-> call.frame, src |-> src, dst |-> dst, restored |-> restored,
                 chunks |-> left, tasks |-> t, blocks |-> none, rets |-> none]
    BY <2>1, <2>2
  <2>4. left \in Int  BY <1>1
  <2> HIDE DEF left, none
  <2>5. call'.phase = phase  BY <2>3
  <2>6. InLoop'  BY <2>5 DEF InLoop, Loop
  <2>7. /\ IInv /\ Decompression /\ ContextOK' /\ params' = params
        /\ superblock_size' = superblock_size /\ frame' = frame
    BY <2>1
  <2>8. IInv' /\ SameCall  BY ONLY <2>3, <2>4, <2>6, <2>7, DecompressionStays
  <2> QED BY <2>5, <2>8 DEF Kinds, Continues
<1> QED BY <1>2, <1>3

LEMMA DecompressionBegins ==
  ASSUME ContextOK', FrameInv', AgreementStays, FrameOK(frame), superblock_size' # 0,
         NEW z, NEW c, NEW s, NEW n \in Int,
         call' = [op |-> "decompress", phase |-> "ensure", size |-> z, cap |-> c,
                  frame |-> frame, src |-> s, dst |-> 0, restored |-> {}, chunks |-> n,
                  tasks |-> {}, blocks |-> <<>>, rets |-> <<>>]
  PROVE  IInv' /\ Kinds
PROOF
<1>1. call'.phase = "ensure" /\ call'.frame = frame /\ call'.chunks = n  OBVIOUS
<1>2. InLoop'  BY <1>1 DEF InLoop
<1>3. FrameOK(call.frame)' /\ call'.chunks \in Int  BY <1>1
<1>4. Decompression'  BY <1>2, <1>3 DEF Decompression
<1> QED BY <1>1, <1>4 DEF IInv, CallOK, Kinds, Rests

LEMMA DecompressBeginIsGood ==
  ASSUME IInv, DecompressBegin
  PROVE  IInv' /\ Kinds
PROOF
<1>1. ContextOK /\ FrameOK(frame)
  <2>1. frame # NoFrame  BY DEF DecompressBegin
  <2> QED BY <2>1 DEF IInv, FrameInv
<1>2. frame' = frame  BY DEF DecompressBegin
<1>3. FrameInv'  BY <1>1, <1>2 DEF FrameInv
<1>4. PICK z, c : DecompressEnds(z, c) \/ DecompressStarts(z, c)  BY DEF DecompressBegin
<1>5. CASE DecompressEnds(z, c)
  <2>1. call' = NoCall /\ UNCHANGED context  BY <1>5 DEF DecompressEnds, Finish
  <2>2. ContextOK' /\ LengthsStay  BY <1>1, <2>1, ContextStays
  <2> QED BY ONLY IInv, <1>3, <2>1, <2>2, EndIsGood, LengthsThatStay
<1>6. CASE DecompressStarts(z, c)
  <2>1. PICK superblock \in SuperblockSizes(frame) :
          /\ UseSuperblockSize(superblock)
          /\ call' = [op |-> "decompress", phase |-> "ensure", size |-> z, cap |-> c,
                      frame |-> frame, src |-> HeaderRead, dst |-> 0, restored |-> {},
                      chunks |-> Pieces(frame.total, superblock), tasks |-> {},
                      blocks |-> <<>>, rets |-> <<>>]
    BY <1>6 DEF DecompressStarts
  <2>2. params' = params  BY <1>6 DEF DecompressStarts
  <2>3. superblock \in Nat \ {0}  BY <1>1, ReadSizesArePositive
  <2>4. ContextOK' /\ AgreementStays
    BY ONLY <1>1, <2>1, <2>2, <2>3, NewSizeIsGood, FreedOrKept
  <2>5. superblock_size' # 0
    <3>1. superblock_size' = superblock  BY <2>1 DEF UseSuperblockSize
    <3> QED BY <2>3, <3>1
  <2> DEFINE n == Pieces(frame.total, superblock)
  <2>6. n \in Int
    <3>1. frame.total \in Nat  BY <1>1 DEF FrameOK
    <3> QED BY <2>3, <3>1, PiecesCeiling
  <2>7. call' = [op |-> "decompress", phase |-> "ensure", size |-> z, cap |-> c,
                 frame |-> frame, src |-> HeaderRead, dst |-> 0, restored |-> {},
                 chunks |-> n, tasks |-> {}, blocks |-> <<>>, rets |-> <<>>]
    BY <2>1
  <2> HIDE DEF n
  <2> QED BY ONLY <1>1, <1>3, <2>4, <2>5, <2>6, <2>7, DecompressionBegins
<1> QED BY <1>4, <1>5, <1>6

LEMMA DecompressEnsureIsGood ==
  ASSUME IInv, DecompressEnsure
  PROVE  IInv' /\ Kinds
PROOF
<1>1. Decompression /\ call.phase = "ensure" /\ call.op = "decompress" /\ ContextOK
  BY WhichCall DEF DecompressEnsure, Decompressing, IInv
<1>2. params' = params /\ superblock_size' = superblock_size  BY DEF DecompressEnsure
<1>3. ThreadCount \in Nat /\ call.chunks \in Int  BY <1>1, CallFacts
<1> DEFINE n == IF Mono THEN 1 ELSE ThreadCount
           phase == IF Mono THEN "one" ELSE "read"
<1>4. n \in Int /\ phase \in {"one", "read"}  BY <1>3
<1>5. \/ /\ EnsureSucceeds(n) /\ frame' = frame
         /\ call' = [call EXCEPT !.phase = phase]
      \/ EnsureFails(n) /\ DecompressReturns("alloc")
  BY DEF DecompressEnsure
<1>6. CASE /\ EnsureSucceeds(n) /\ frame' = frame
           /\ call' = [call EXCEPT !.phase = phase]
  <2>1. /\ ContextOK' /\ Len(thread_buffers') >= n
        /\ Len(tmp_buffers1) = Len(thread_buffers) => Len(tmp_buffers1') = Len(thread_buffers')
        /\ Len(tmp_buffers2) = Len(thread_buffers) => Len(tmp_buffers2') = Len(thread_buffers')
    <3> HIDE DEF n
    <3> QED BY <1>1, <1>2, <1>4, <1>6, EnsureGrows
  <2>2. AgreementStays  BY <2>1 DEF AgreementStays, LengthsAgree
  <2>3. PICK p, z, c, f, s, d, e, m, t, b, r :
          call = [op |-> "decompress", phase |-> p, size |-> z, cap |-> c, frame |-> f,
                  src |-> s, dst |-> d, restored |-> e, chunks |-> m, tasks |-> t, blocks |-> b,
                  rets |-> r]
    BY <1>1 DEF Decompression
  <2>4. IInv' /\ SameCall /\ call'.phase = phase
    <3> HIDE DEF phase
    <3>1. call' = [op |-> "decompress", phase |-> phase, size |-> z, cap |-> c,
                   frame |-> call.frame, src |-> s, dst |-> d, restored |-> e,
                   chunks |-> call.chunks, tasks |-> t, blocks |-> b, rets |-> r]
      BY <1>6, <2>3
    <3>2. call'.phase = phase  BY <3>1
    <3>3. InLoop'  BY <1>4, <3>2 DEF InLoop, Loop
    <3>4. /\ IInv /\ Decompression /\ ContextOK' /\ params' = params
          /\ superblock_size' = superblock_size /\ frame' = frame /\ call.chunks \in Int
      BY <1>1, <1>2, <1>3, <1>6, <2>1
    <3>5. IInv' /\ SameCall  BY ONLY <3>1, <3>3, <3>4, DecompressionStays
    <3> QED BY <3>2, <3>5
  <2> QED BY <2>1, <2>2, <2>4 DEF Kinds, Ensures, Loop
<1>7. CASE EnsureFails(n) /\ DecompressReturns("alloc")
  <2>1. ContextOK'
    <3> HIDE DEF n
    <3> QED BY <1>1, <1>2, <1>4, <1>7, EnsureThrows
  <2>2. AgreementStays
    BY <1>1, <1>7 DEF AgreementStays, Throws, DecompressReturns, Finish
  <2> QED BY <1>7, <2>1, <2>2, FailIsGood
<1> QED BY <1>5, <1>6, <1>7

\* A call that fails, or that read something else than a superblock.
LEMMA StopIsGood ==
  ASSUME IInv, ContextOK', LengthsStay, NEW e, DecompressReturns(e) \/ ReadGarbage
  PROVE  IInv' /\ Kinds
PROOF
<1>1. call' = NoCall /\ frame' = frame  BY DEF DecompressReturns, ReadGarbage, Finish
<1>2. FrameInv'  BY <1>1 DEF IInv, FrameInv
<1> QED BY <1>1, <1>2, EndIsGood, LengthsThatStay

LEMMA DecompressOneIsGood ==
  ASSUME IInv, DecompressOne
  PROVE  IInv' /\ Kinds
PROOF
<1>1. Decompression /\ call.phase = "one" /\ ContextOK
  BY WhichCall DEF DecompressOne, Decompressing, IInv
<1> DEFINE dsize == OutputSize(call.chunks - 1)
           slot == tmp_buffers1[1]
<1>2. \/ UNCHANGED context /\ \E e : DecompressReturns(e) \/ ReadGarbage
      \/ \E block, r, src, dst, restored :
           /\ r \in DecodeResults(block, dsize, slot)
           /\ tmp_buffers1' = [tmp_buffers1 EXCEPT ![1] = r.buffer]
           /\ \/ DecompressReturns(r.error)
              \/ AdvanceOutput(1, src, dst, restored, "one")
           /\ UNCHANGED <<params, superblock_size, thread_buffers, tmp_buffers2, finish_memcpy>>
  <2>1. CASE call.src + 4 > call.size
    <3>1. DecompressReturns("src_overflow") /\ UNCHANGED context  BY <2>1 DEF DecompressOne
    <3> QED BY <3>1
  <2>2. CASE ~(call.src + 4 > call.size) /\ BlocksAt(call.frame, call.src) = {}
    <3>1. ReadGarbage  BY <2>2 DEF DecompressOne
    <3> QED BY <3>1 DEF ReadGarbage
  <2>3. CASE ~(call.src + 4 > call.size) /\ BlocksAt(call.frame, call.src) # {}
    <3>1. PICK block \in BlocksAt(call.frame, call.src) :
            IF ~FitsBoth(call.src, block.csize, call.dst, dsize)
            THEN DecompressReturns("invalid_input") /\ UNCHANGED context
            ELSE /\ tmp_buffers1 # <<>>
                 /\ \E r \in DecodeResults(block, dsize, slot) :
                      /\ tmp_buffers1' = [tmp_buffers1 EXCEPT ![1] = r.buffer]
                      /\ IF r.error # "none"
                         THEN DecompressReturns(r.error)
                         ELSE AdvanceOutput(1, call.src + 4 + block.csize, call.dst + dsize,
                                call.restored \union {Restored(block, call.dst, dsize)}, "one")
                      /\ UNCHANGED <<params, superblock_size, thread_buffers, tmp_buffers2,
                                     finish_memcpy>>
      BY <2>3 DEF DecompressOne
    <3> HIDE DEF dsize, slot
    <3> QED BY <3>1
  <2> QED BY <2>1, <2>2, <2>3
<1>3. CASE UNCHANGED context /\ \E e : DecompressReturns(e) \/ ReadGarbage
  <2>1. ContextOK' /\ LengthsStay  BY <1>1, <1>3, ContextStays
  <2> QED BY <1>3, <2>1, StopIsGood
<1>4. CASE \E block, r, src, dst, restored :
           /\ r \in DecodeResults(block, dsize, slot)
           /\ tmp_buffers1' = [tmp_buffers1 EXCEPT ![1] = r.buffer]
           /\ \/ DecompressReturns(r.error)
              \/ AdvanceOutput(1, src, dst, restored, "one")
           /\ UNCHANGED <<params, superblock_size, thread_buffers, tmp_buffers2, finish_memcpy>>
  <2> HIDE DEF dsize
  <2>1. PICK block, r, src, dst, restored :
           /\ r \in DecodeResults(block, dsize, slot)
           /\ tmp_buffers1' = [tmp_buffers1 EXCEPT ![1] = r.buffer]
           /\ \/ DecompressReturns(r.error)
              \/ AdvanceOutput(1, src, dst, restored, "one")
           /\ UNCHANGED <<params, superblock_size, thread_buffers, tmp_buffers2, finish_memcpy>>
    BY <1>4
  <2>2. 1 \in DOMAIN tmp_buffers1 => r.buffer \in Slot
    <3>1. 1 \in DOMAIN tmp_buffers1 => slot \in Slot  BY <1>1 DEF ContextOK, BufferVectors
    <3> HIDE DEF slot
    <3> QED BY <2>1, <3>1, DecodingKeepsSlots
  <2>3. ContextOK' /\ LengthsStay  BY <1>1, <2>1, <2>2, SlotsAreSet DEF SetOrKept
  <2>4. CASE DecompressReturns(r.error)  BY <2>3, <2>4, StopIsGood
  <2>5. CASE AdvanceOutput(1, src, dst, restored, "one")
    <3>1. /\ IInv /\ Decompression /\ params' = params /\ superblock_size' = superblock_size
          /\ call.phase = "one" /\ 1 \in Int
      BY <1>1, <2>1
    <3> QED BY ONLY <2>3, <2>5, <3>1, AdvanceOutputIsGood
  <2> QED BY <2>1, <2>4, <2>5
<1> QED BY <1>2, <1>3, <1>4

\* A step that leaves a decompression with the superblocks that it has.
LEMMA DecompressionGoesOn ==
  ASSUME IInv, Decompression, ContextOK', LengthsStay, params' = params,
         superblock_size' = superblock_size, frame' = frame,
         NEW p, NEW z, NEW c, NEW s, NEW d, NEW e, NEW t, NEW b, NEW r,
         call' = [op |-> "decompress", phase |-> p, size |-> z, cap |-> c, frame |-> call.frame,
                  src |-> s, dst |-> d, restored |-> e, chunks |-> call.chunks, tasks |-> t,
                  blocks |-> b, rets |-> r],
         p = call.phase \/ (call.phase \in Loop /\ p \in Loop),
         p \in {"tasks", "copy"} => t \subseteq 1..ChunkSize
  PROVE  IInv' /\ Kinds
PROOF
<1>1. /\ call'.phase = p /\ call'.tasks = t /\ call'.chunks = call.chunks
      /\ call'.frame = call.frame
  OBVIOUS
<1>2. ChunkSize' = ChunkSize  BY <1>1, CallGoesOn
<1>3. InLoop'  BY <1>1, <1>2 DEF Decompression, InLoop
<1>4. call.chunks \in Int  BY DEF Decompression
<1>5. IInv' /\ SameCall  BY <1>3, <1>4, DecompressionStays
<1> QED BY <1>1, <1>5 DEF Kinds, Continues

LEMMA ReadBlockIsGood ==
  ASSUME IInv, ReadBlock
  PROVE  IInv' /\ Kinds
PROOF
<1>1. Decompression /\ call.phase = "read" /\ ContextOK
  BY WhichCall DEF ReadBlock, Decompressing, IInv
<1>2. /\ ContextOK' /\ LengthsStay /\ params' = params /\ superblock_size' = superblock_size
  BY <1>1, ContextStays DEF ReadBlock
<1>3. \/ \E e : DecompressReturns(e) \/ ReadGarbage
      \/ \E b, s, d : /\ call' = [call EXCEPT !.blocks = b, !.src = s, !.dst = d]
                      /\ frame' = frame
  <2> DEFINE dsize == OutputSize(call.chunks - Len(call.blocks) - 1)
  <2>1. \/ DecompressReturns("src_overflow")
        \/ ReadGarbage
        \/ \E block \in BlocksAt(call.frame, call.src) :
             \/ DecompressReturns("invalid_input")
             \/ /\ call' = [call EXCEPT !.blocks = Append(@, [block |-> block,
                                                 dsize |-> dsize, dst |-> call.dst]),
                                        !.src = @ + 4 + block.csize, !.dst = @ + dsize]
                /\ frame' = frame
    BY DEF ReadBlock
  <2> HIDE DEF dsize
  <2>2. CASE \E block \in BlocksAt(call.frame, call.src) :
               /\ call' = [call EXCEPT !.blocks = Append(@, [block |-> block,
                                                 dsize |-> dsize, dst |-> call.dst]),
                                        !.src = @ + 4 + block.csize, !.dst = @ + dsize]
               /\ frame' = frame
    <3>1. PICK block \in BlocksAt(call.frame, call.src) :
               /\ call' = [call EXCEPT !.blocks = Append(call.blocks, [block |-> block,
                                                 dsize |-> dsize, dst |-> call.dst]),
                                        !.src = call.src + 4 + block.csize,
                                        !.dst = call.dst + dsize]
               /\ frame' = frame
      BY <2>2
    <3> QED BY <3>1
  <2> QED BY <2>1, <2>2
<1>4. CASE \E e : DecompressReturns(e) \/ ReadGarbage  BY <1>2, <1>4, StopIsGood
<1>5. CASE \E b, s, d : /\ call' = [call EXCEPT !.blocks = b, !.src = s, !.dst = d]
                        /\ frame' = frame
  <2>1. PICK b, s, d : /\ call' = [call EXCEPT !.blocks = b, !.src = s, !.dst = d]
                       /\ frame' = frame
    BY <1>5
  <2>2. PICK p, z, c, f, s0, d0, e, m, t, b0, r :
          call = [op |-> "decompress", phase |-> p, size |-> z, cap |-> c, frame |-> f,
                  src |-> s0, dst |-> d0, restored |-> e, chunks |-> m, tasks |-> t,
                  blocks |-> b0, rets |-> r]
    BY <1>1 DEF Decompression
  <2>3. call' = [op |-> "decompress", phase |-> "read", size |-> z, cap |-> c,
                 frame |-> call.frame, src |-> s, dst |-> d, restored |-> e,
                 chunks |-> call.chunks, tasks |-> t, blocks |-> b, rets |-> r]
    BY <1>1, <2>1, <2>2
  <2>4. IInv /\ frame' = frame  BY <2>1
  <2> QED BY ONLY <1>1, <1>2, <2>3, <2>4, DecompressionGoesOn
<1> QED BY <1>3, <1>4, <1>5

LEMMA ForkDecompressIsGood ==
  ASSUME IInv, ForkDecompress
  PROVE  IInv' /\ Kinds
PROOF
<1>1. Decompression /\ call.phase = "read" /\ ContextOK
  BY WhichCall DEF ForkDecompress, Decompressing, IInv
<1>2. /\ ContextOK' /\ LengthsStay /\ params' = params /\ superblock_size' = superblock_size
      /\ frame' = frame
  BY <1>1, ContextStays DEF ForkDecompress
<1>3. PICK p, z, c, f, s, d, e, m, t, b, r :
        call = [op |-> "decompress", phase |-> p, size |-> z, cap |-> c, frame |-> f,
                src |-> s, dst |-> d, restored |-> e, chunks |-> m, tasks |-> t, blocks |-> b,
                rets |-> r]
  BY <1>1 DEF Decompression
<1> DEFINE tasks == 1..ChunkSize
           rets == [k \in 1..ChunkSize |-> "none"]
<1>4. call' = [op |-> "decompress", phase |-> "tasks", size |-> z, cap |-> c,
               frame |-> call.frame, src |-> s, dst |-> d, restored |-> e,
               chunks |-> call.chunks, tasks |-> tasks, blocks |-> b, rets |-> rets]
  <2>1. call' = [call EXCEPT !.phase = "tasks", !.tasks = tasks, !.rets = rets]
    BY DEF ForkDecompress
  <2> HIDE DEF tasks, rets
  <2> QED BY <1>3, <2>1
<1>5. IInv /\ tasks \subseteq 1..ChunkSize /\ call.phase \in Loop /\ "tasks" \in Loop
  BY <1>1 DEF Loop
<1> HIDE DEF tasks, rets
<1> QED BY ONLY <1>1, <1>2, <1>4, <1>5, DecompressionGoesOn

LEMMA DecompressTaskIsGood ==
  ASSUME IInv, NEW k \in 1..Len(thread_buffers), DecompressTask(k)
  PROVE  IInv' /\ Kinds
PROOF
<1>1. Decompression /\ call.phase = "tasks" /\ ContextOK
  BY WhichCall DEF DecompressTask, Decompressing, IInv
<1>2. /\ params' = params /\ superblock_size' = superblock_size /\ frame' = frame
      /\ tmp_buffers1' = tmp_buffers1 /\ tmp_buffers2' = tmp_buffers2
  BY DEF DecompressTask
<1> DEFINE work == call.blocks[k]
           restored == call.restored \union {Restored(work.block, work.dst, work.dsize)}
<1>3. PICK r \in DecodeResults(work.block, work.dsize, thread_buffers[k]) :
        /\ thread_buffers' = [thread_buffers EXCEPT ![k] = r.buffer]
        /\ call' = [call EXCEPT !.tasks = @ \ {k}, !.rets[k] = r.error, !.restored = restored]
  BY DEF DecompressTask
<1>4. thread_buffers[k] \in Slot  BY <1>1 DEF ContextOK, BufferVectors
<1> HIDE DEF work, restored
<1>5. r.buffer \in Slot  BY <1>4, DecodingKeepsSlots
<1>6. ContextOK' /\ LengthsStay  BY <1>1, <1>2, <1>3, <1>5, SlotsAreSet DEF SetOrKept
<1>7. PICK p, z, c, f, s, d, e, m, t, b, q :
        call = [op |-> "decompress", phase |-> p, size |-> z, cap |-> c, frame |-> f,
                src |-> s, dst |-> d, restored |-> e, chunks |-> m, tasks |-> t, blocks |-> b,
                rets |-> q]
  BY <1>1 DEF Decompression
<1> DEFINE rets == [call.rets EXCEPT ![k] = r.error]
           left == call.tasks \ {k}
<1>8. call' = [call EXCEPT !.tasks = left, !.rets = rets, !.restored = restored]
  BY <1>3, <1>7
<1>9. left \subseteq 1..ChunkSize  BY <1>1 DEF Decompression, InLoop
<1> HIDE DEF rets, left
<1>10. call' = [op |-> "decompress", phase |-> "tasks", size |-> z, cap |-> c,
                frame |-> call.frame, src |-> s, dst |-> d, restored |-> restored,
                chunks |-> call.chunks, tasks |-> left, blocks |-> b, rets |-> rets]
  BY <1>1, <1>7, <1>8
<1>11. IInv  OBVIOUS
<1> QED BY ONLY <1>1, <1>2, <1>6, <1>9, <1>10, <1>11, DecompressionGoesOn

LEMMA JoinDecompressIsGood ==
  ASSUME IInv, JoinDecompress
  PROVE  IInv' /\ Kinds
PROOF
<1>1. Decompression /\ call.phase = "tasks" /\ ContextOK
  BY WhichCall DEF JoinDecompress, Decompressing, IInv
<1>2. /\ ContextOK' /\ LengthsStay /\ params' = params /\ superblock_size' = superblock_size
  BY <1>1, ContextStays DEF JoinDecompress
<1>3. \/ \E e : DecompressReturns(e)
      \/ AdvanceOutput(ChunkSize, call.src, call.dst, call.restored, "read")
  BY DEF JoinDecompress
<1>4. CASE \E e : DecompressReturns(e)  BY <1>2, <1>4, StopIsGood
<1>5. CASE AdvanceOutput(ChunkSize, call.src, call.dst, call.restored, "read")
  <2>1. IInv /\ ChunkSize \in Int /\ call.phase \in Loop /\ "read" \in Loop
    BY <1>1, CallFacts DEF Loop
  <2> DEFINE src == call.src
             dst == call.dst
             restored == call.restored
             n == ChunkSize
  <2>2. AdvanceOutput(n, src, dst, restored, "read") /\ n \in Int  BY <1>5, <2>1
  <2> HIDE DEF src, dst, restored, n
  <2> QED BY ONLY <1>1, <1>2, <2>1, <2>2, AdvanceOutputIsGood
<1> QED BY <1>3, <1>4, <1>5

-----------------------------------------------------------------------------
(* The theorems *)

LEMMA InitIsGood ==
  ASSUME Init
  PROVE  IInv
PROOF
<1>1. params \in ParamsType
  <2>1. 1 \in 0..9 /\ 1 \in Nat \ {0}  OBVIOUS
  <2> QED BY <2>1 DEF Init, DefaultParams, ParamsType
<1>2. BufferVectors
  <2>1. <<>> \in Seq(Slot)  OBVIOUS
  <2> QED BY <2>1 DEF Init, BufferVectors
<1>3. superblock_size \in Nat /\ call = NoCall /\ frame = NoFrame  BY DEF Init
<1> QED BY <1>1, <1>2, <1>3 DEF IInv, ContextOK, FrameInv, CallOK

LEMMA StutterIsGood ==
  ASSUME IInv, UNCHANGED vars
  PROVE  IInv'
PROOF
<1>1. /\ params' = params /\ superblock_size' = superblock_size /\ call' = call
      /\ thread_buffers' = thread_buffers /\ tmp_buffers1' = tmp_buffers1
      /\ tmp_buffers2' = tmp_buffers2 /\ frame' = frame
  BY DEF vars
<1>2. Slot' = Slot  BY <1>1 DEF Slot
<1>3. ContextOK'  BY <1>1, <1>2 DEF IInv, ContextOK, BufferVectors
<1>4. FrameInv'  BY <1>1 DEF IInv, FrameInv
<1>5. /\ ChunkSize' = ChunkSize /\ RawMemcpy' = RawMemcpy
      /\ \A k : NoBuffer(k)' = NoBuffer(k)
  BY <1>1 DEF ChunkSize, ThreadCount, Count, RawMemcpy, NoBuffer
<1>6. InLoop => InLoop'  BY <1>1, <1>5 DEF InLoop
<1>7. InputLeft => InputLeft'  BY <1>1 DEF InputLeft
<1>8. TasksLeaveOutcomes => TasksLeaveOutcomes'  BY <1>1, <1>5 DEF TasksLeaveOutcomes
<1>9. FrameOK(call.frame) => FrameOK(call.frame)'  BY <1>1
<1>10. Compression => Compression'
  <2> DEFINE Fields(x) ==
        \E p, c, f, s, t, o, n, r :
          x = [op |-> "compress", phase |-> p, cap |-> c, frame |-> f, src |-> s, tasks |-> t,
               outs |-> o, chunks |-> n, res_code |-> r]
  <2>1. Fields(call) => Fields(call')  BY <1>1
  <2> QED BY <1>1, <1>6, <1>7, <1>8, <1>9, <2>1 DEF Compression
<1>11. Decompression => Decompression'
  <2> DEFINE Fields(x) ==
        \E p, z, c, f, s, d, e, n, t, b, r :
          x = [op |-> "decompress", phase |-> p, size |-> z, cap |-> c, frame |-> f, src |-> s,
               dst |-> d, restored |-> e, chunks |-> n, tasks |-> t, blocks |-> b, rets |-> r]
  <2>1. Fields(call) => Fields(call')  BY <1>1
  <2> QED BY <1>1, <1>6, <1>9, <2>1 DEF Decompression
<1>12. CallOK'  BY <1>1, <1>10, <1>11 DEF IInv, CallOK
<1> QED BY <1>3, <1>4, <1>12 DEF IInv

\* Nothing is said of what follows an access to a buffer that does not exist.
LEMMA UndefinedIsGood ==
  ASSUME IInv, Undefined
  PROVE  IInv' /\ Kinds
PROOF
<1>1. UNCHANGED vars /\ call.op # "none"
  BY DEF Undefined, Compressing, Decompressing
<1>2. LengthsStay /\ SameCall /\ call' = call  BY <1>1 DEF vars, LengthsStay, SameCall
<1> QED BY <1>1, <1>2, StutterIsGood DEF Kinds, Continues

LEMMA StepIsGood ==
  ASSUME IInv, Next
  PROVE  IInv' /\ Kinds
PROOF
<1>1. CASE SetThreads \/ SetParams \/ ResetContext  BY <1>1, SettersAreGood
<1>2. CASE CompressBegin  BY <1>2, CompressBeginIsGood
<1>3. CASE DecompressBegin  BY <1>3, DecompressBeginIsGood
<1>4. CASE Step
  BY <1>4, CompressEnsureIsGood, CompressOneIsGood, ForkChunkIsGood, JoinRawIsGood,
     JoinChunkIsGood, JoinCopyIsGood, CompressTaskIsGood, DecompressTaskIsGood, RawTaskIsGood,
     CopyTaskIsGood, DecompressEnsureIsGood, DecompressOneIsGood, ReadBlockIsGood,
     ForkDecompressIsGood, JoinDecompressIsGood DEF Step
<1>5. CASE Undefined  BY <1>5, UndefinedIsGood
<1> QED BY <1>1, <1>2, <1>3, <1>4, <1>5 DEF Next

\* Every step of a context keeps its vectors of buffers, its frames and the
\* position of the running call as they should be.
THEOREM Invariance == Spec => []IInv
PROOF
<1>1. Init => IInv  BY InitIsGood
<1>2. IInv /\ [Next]_vars => IInv'  BY StepIsGood, StutterIsGood
<1> QED BY <1>1, <1>2, PTL DEF Spec

\* Whatever was compressed or decompressed before with whatever superblock
\* sizes, and whichever resize of ensure_has_buffers threw, no buffer of a
\* context is smaller than what a superblock of the current size needs.
THEOREM BuffersAlwaysFit == Spec => []BuffersFit
PROOF
<1>1. IInv => BuffersFit
  <2> SUFFICES ASSUME IInv PROVE BuffersFit  OBVIOUS
  <2>1. \A v \in Seq(Slot) : \A k \in DOMAIN v : v[k] \in Slot  OBVIOUS
  <2>2. \A v \in {thread_buffers, tmp_buffers1, tmp_buffers2} : v \in Seq(Slot)
    BY DEF IInv, ContextOK, BufferVectors
  <2> QED BY <2>1, <2>2 DEF BuffersFit, Slot
<1> QED BY <1>1, Invariance, PTL

\* A call that is past its allocations has the slots that it asked for.
Enough ==
  call.op # "none" =>
    /\ call.phase = "one" => Len(thread_buffers) >= 1
    /\ call.phase \in Loop /\ ~(call.op = "compress" /\ RawMemcpy) =>
         Len(thread_buffers) >= ThreadCount

LEMMA EnoughStays ==
  ASSUME Enough, Kinds
  PROVE  Enough'
PROOF
<1>1. CASE Rests
  BY <1>1 DEF Rests, Enough, NoCall, Loop
<1>2. CASE Ensures
  <2>1. ThreadCount' = ThreadCount /\ RawMemcpy' = RawMemcpy
    BY <1>2, CallGoesOn DEF Ensures, SameCall
  <2> QED BY <1>2, <2>1 DEF Ensures, SameCall, Enough, Loop
<1>3. CASE Continues
  <2>1. ThreadCount' = ThreadCount /\ RawMemcpy' = RawMemcpy
    BY <1>3, CallGoesOn DEF Continues, SameCall
  <2> QED BY <1>3, <2>1 DEF Continues, SameCall, LengthsStay, Enough, Loop
<1> QED BY <1>1, <1>2, <1>3 DEF Kinds

\* Every kind of step keeps the lengths of the vectors equal, but for a call that
\* finds no memory.
LEMMA LengthsPartOnlyByThrowing ==
  ASSUME IInv, [Next]_vars
  PROVE  [LengthsAgree /\ ~LengthsAgree' => call.phase = "ensure" /\ result'.error = "alloc"]_vars
PROOF
<1>1. CASE Next
  <2>1. Kinds  BY <1>1, StepIsGood
  <2>2. AgreementStays  BY <2>1, LengthsThatStay DEF Kinds, Rests, Ensures, Continues
  <2> QED BY <2>2 DEF AgreementStays, Throws
<1>2. CASE UNCHANGED vars  BY <1>2
<1> QED BY <1>1, <1>2

\* For any numbers of threads and of superblocks, any calls before and whichever
\* resizes of ensure_has_buffers threw in them, the thread buffers that a call
\* indexes exist, the temporary ones too while the vectors have the same length,
\* and only a call that returns STENOS_ERROR_ALLOC parts their lengths.
THEOREM BuffersAlwaysInRange == Spec => BuffersInRange
PROOF
<1>1. Init => Enough  BY DEF Init, NoCall, Enough
<1>2. IInv /\ Enough /\ [Next]_vars => Enough'
  <2> SUFFICES ASSUME IInv, Enough, [Next]_vars PROVE Enough'  OBVIOUS
  <2>1. CASE Next  BY <2>1, StepIsGood, EnoughStays
  <2>2. CASE UNCHANGED vars
    BY <2>2 DEF vars, Enough, RawMemcpy, ThreadCount, Count
  <2> QED BY <2>1, <2>2
<1>3. IInv /\ Enough => InRange(thread_buffers)
  <2> SUFFICES ASSUME IInv, Enough, call.op # "none"
               PROVE  /\ call.phase = "one" => Len(thread_buffers) >= 1
                      /\ call.phase = "tasks" /\ (call.op = "decompress" \/ ~RawMemcpy) =>
                           call.tasks \subseteq 1..Len(thread_buffers)
    BY DEF InRange
  <2>1. Compression \/ Decompression  BY WhichCall
  <2>2. Len(thread_buffers) \in Nat  BY DEF IInv, ContextOK, BufferVectors
  <2>3. ASSUME call.phase = "tasks", call.op = "decompress" \/ ~RawMemcpy
        PROVE  call.tasks \subseteq 1..Len(thread_buffers)
    <3>1. call.tasks \subseteq 1..ChunkSize
      BY <2>1, <2>3 DEF Compression, Decompression, InLoop
    <3>2. ThreadCount \in Nat /\ ChunkSize \in Int /\ ChunkSize <= ThreadCount
      BY <2>1, CallFacts
    <3>3. Len(thread_buffers) >= ThreadCount  BY <2>3 DEF Enough, Loop
    <3> QED BY <2>2, <3>1, <3>2, <3>3
  <2>4. ASSUME call.phase = "one" PROVE Len(thread_buffers) >= 1  BY <2>4 DEF Enough
  <2> QED BY <2>3, <2>4
<1>4. InRange(thread_buffers) =>
        (LengthsAgree => InRange(tmp_buffers1) /\ InRange(tmp_buffers2))
  BY DEF InRange, LengthsAgree
<1>5. IInv /\ [Next]_vars =>
        [LengthsAgree /\ ~LengthsAgree' => call.phase = "ensure" /\ result'.error = "alloc"]_vars
  BY LengthsPartOnlyByThrowing
<1> QED BY <1>1, <1>2, <1>3, <1>4, <1>5, Invariance, PTL DEF Spec, BuffersInRange

-----------------------------------------------------------------------------
(* Sums *)

LEMMA LeastElement ==
  ASSUME NEW T \in SUBSET Nat, T # {}
  PROVE  \E x \in T : \A y \in T : x <= y
PROOF
<1> DEFINE R == OpToRel(<, Nat)
<1>1. IsWellFoundedOn(R, Nat)  BY NatLessThanWellFounded
<1>2. R = {ss \in Nat \X Nat : ss[1] < ss[2]}  BY DEF OpToRel
<1> HIDE DEF R
<1>3. PICK x \in T : \A y \in T : ~ (<<y, x>> \in R)  BY <1>1, WFMin
<1>4. \A y \in T : ~(y < x)  BY <1>2, <1>3
<1> QED BY <1>4

\* The sums of the first numbers of f, one after the other.
SumsOf(s, f, m) ==
  s \in [0..m -> Nat] /\ s[0] = 0 /\ \A k \in 1..m : s[k] = s[k - 1] + f[k]

\* They are what the recursion of SumUpTo describes.
Recurs(s, f, m) == s = [k \in 0..m |-> IF k = 0 THEN 0 ELSE s[k - 1] + f[k]]

LEMMA SumsExist ==
  ASSUME NEW m \in Nat, NEW f, \A k \in 1..m : f[k] \in Nat
  PROVE  \E s : SumsOf(s, f, m)
PROOF
<1> DEFINE Without == {k \in 0..m : ~ \E s : SumsOf(s, f, k)}
<1>1. SUFFICES ASSUME Without # {} PROVE FALSE
  <2>1. m \in Without \/ \E s : SumsOf(s, f, m)  OBVIOUS
  <2> QED BY <2>1
<1>2. Without \in SUBSET Nat  OBVIOUS
<1>3. PICK x \in Without : \A y \in Without : x <= y
  <2> HIDE DEF Without
  <2> QED BY <1>1, <1>2, LeastElement
<1>4. x \in 0..m /\ ~ \E s : SumsOf(s, f, x)  OBVIOUS
<1>5. x # 0
  <2>1. SumsOf([k \in 0..0 |-> 0], f, 0)  BY DEF SumsOf
  <2> QED BY <1>4, <2>1
<1>6. x - 1 \in 0..m /\ x - 1 \notin Without
  <2>1. x - 1 \in 0..m /\ ~(x <= x - 1)  BY <1>4, <1>5
  <2> HIDE DEF Without
  <2> QED BY <1>3, <2>1
<1>7. PICK s : SumsOf(s, f, x - 1)  BY <1>6
<1> DEFINE t == [k \in 0..x |-> IF k = x THEN s[x - 1] + f[x] ELSE s[k]]
<1>8. s \in [0..(x - 1) -> Nat] /\ s[0] = 0 /\ \A k \in 1..(x - 1) : s[k] = s[k - 1] + f[k]
  BY <1>7 DEF SumsOf
<1>9. f[x] \in Nat /\ s[x - 1] \in Nat  BY <1>4, <1>5, <1>8
<1>10. SumsOf(t, f, x)
  <2>1. t \in [0..x -> Nat]  BY <1>4, <1>8, <1>9
  <2>2. t[0] = 0  BY <1>4, <1>5, <1>8
  <2>3. ASSUME NEW k \in 1..x PROVE t[k] = t[k - 1] + f[k]
    <3>1. k - 1 \in 0..x /\ k - 1 # x /\ k \in 0..x  BY <1>4
    <3>2. t[k - 1] = s[k - 1]  BY <3>1
    <3>3. CASE k = x  BY <3>1, <3>2, <3>3
    <3>4. CASE k # x
      <4>1. k \in 1..(x - 1)  BY <1>4, <3>4
      <4> QED BY <1>8, <3>1, <3>2, <3>4, <4>1
    <3> QED BY <3>3, <3>4
  <2> HIDE DEF t
  <2> QED BY <2>1, <2>2, <2>3 DEF SumsOf
<1> QED BY <1>4, <1>10

\* The sums of two functions with the same numbers are the same.
LEMMA SumsAgree ==
  ASSUME NEW m \in Nat, NEW n \in Nat, m <= n, NEW f, NEW g, \A k \in 1..m : f[k] = g[k],
         NEW s, NEW t, SumsOf(t, g, n), Recurs(s, f, m)
  PROVE  \A k \in 0..m : s[k] = t[k]
PROOF
<1>1. t[0] = 0 /\ \A k \in 1..n : t[k] = t[k - 1] + g[k]  BY DEF SumsOf
<1>2. s[0] = 0 /\ \A k \in 1..m : s[k] = s[k - 1] + f[k]
  <2>1. \A k \in 0..m : s[k] = IF k = 0 THEN 0 ELSE s[k - 1] + f[k]
    BY Zenon DEF Recurs
  <2> QED BY <2>1
<1> DEFINE Different == {k \in 0..m : s[k] # t[k]}
<1>3. SUFFICES ASSUME Different # {} PROVE FALSE  OBVIOUS
<1>4. Different \in SUBSET Nat  OBVIOUS
<1>5. PICK x \in Different : \A y \in Different : x <= y
  <2> HIDE DEF Different
  <2> QED BY <1>3, <1>4, LeastElement
<1>6. x \in 0..m /\ s[x] # t[x]  OBVIOUS
<1>7. x # 0  BY <1>1, <1>2, <1>6
<1>8. x - 1 \in 0..m /\ ~(x <= x - 1)  BY <1>6, <1>7
<1>9. s[x - 1] = t[x - 1]
  <2>1. x - 1 \notin Different
    <3> HIDE DEF Different
    <3> QED BY <1>5, <1>8
  <2> QED BY <1>8, <2>1
<1>10. x \in 1..m /\ x \in 1..n  BY <1>6, <1>7
<1> QED BY <1>1, <1>2, <1>6, <1>9, <1>10

LEMMA SumIsLast ==
  ASSUME NEW m \in Nat, NEW n \in Nat, m <= n, NEW f, NEW g, \A k \in 1..m : f[k] = g[k],
         NEW t, SumsOf(t, g, n)
  PROVE  SumUpTo(f, m) = t[m]
PROOF
<1> DEFINE Rec(s) == s = [k \in 0..m |-> IF k = 0 THEN 0 ELSE s[k - 1] + f[k]]
           sum == CHOOSE s : Rec(s)
<1>1. SumUpTo(f, m) = sum[m]  BY DEF SumUpTo
<1>2. \E s : Rec(s)
  <2> DEFINE u == [k \in 0..m |-> t[k]]
  <2>1. t[0] = 0 /\ \A k \in 1..n : t[k] = t[k - 1] + g[k]  BY DEF SumsOf
  <2>2. \A k \in 0..m : u[k] = t[k]  OBVIOUS
  <2>3. ASSUME NEW k \in 0..m PROVE t[k] = IF k = 0 THEN 0 ELSE u[k - 1] + f[k]
    <3>1. CASE k = 0  BY <2>1, <3>1
    <3>2. CASE k # 0
      <4>1. k \in 1..n /\ k \in 1..m /\ k - 1 \in 0..m  BY <3>2
      <4>2. u[k - 1] = t[k - 1]  BY <2>2, <4>1
      <4> QED BY <2>1, <3>2, <4>1, <4>2
    <3> QED BY <3>1, <3>2
  <2> DEFINE w == [k \in 0..m |-> IF k = 0 THEN 0 ELSE u[k - 1] + f[k]]
  <2>4. u = w
    <3>1. \A k \in 0..m : t[k] = IF k = 0 THEN 0 ELSE u[k - 1] + f[k]  BY <2>3
    <3> HIDE DEF u
    <3>2. [k \in 0..m |-> t[k]] = w  BY <3>1
    <3> QED BY <3>2 DEF u
  <2> HIDE DEF u
  <2> QED BY <2>4
<1>3. Rec(sum)
  <2> HIDE DEF Rec
  <2> QED BY <1>2
<1> HIDE DEF sum
<1>4. Recurs(sum, f, m)  BY <1>3 DEF Recurs
<1> HIDE DEF Rec
<1>5. \A k \in 0..m : sum[k] = t[k]
  BY ONLY <1>4, m \in Nat, n \in Nat, m <= n, \A k \in 1..m : f[k] = g[k], SumsOf(t, g, n),
          SumsAgree
<1> QED BY <1>1, <1>5

LEMMA SumOfNone ==
  ASSUME NEW f
  PROVE  SumUpTo(f, 0) = 0
PROOF
<1>1. PICK s : SumsOf(s, f, 0)
  <2>1. \A k \in 1..0 : f[k] \in Nat  OBVIOUS
  <2> QED BY <2>1, SumsExist
<1>2. SumUpTo(f, 0) = s[0]
  <2>1. 0 \in Nat /\ 0 <= 0 /\ \A k \in 1..0 : f[k] = f[k]  OBVIOUS
  <2> QED BY <1>1, <2>1, SumIsLast
<1> QED BY <1>1, <1>2 DEF SumsOf

\* A sum of one more number.
LEMMA SumOfMore ==
  ASSUME NEW m \in Nat, NEW f, NEW g, \A k \in 1..m : f[k] = g[k],
         \A k \in 1..(m + 1) : g[k] \in Nat
  PROVE  SumUpTo(g, m + 1) = SumUpTo(f, m) + g[m + 1] /\ SumUpTo(f, m) \in Nat
PROOF
<1>1. PICK s : SumsOf(s, g, m + 1)  BY SumsExist
<1>2. SumUpTo(f, m) = s[m]  BY <1>1, SumIsLast
<1>3. SumUpTo(g, m + 1) = s[m + 1]  BY <1>1, SumIsLast
<1>4. m + 1 \in 1..(m + 1) /\ m \in 0..(m + 1)  OBVIOUS
<1> QED BY <1>1, <1>2, <1>3, <1>4 DEF SumsOf

-----------------------------------------------------------------------------
(* Frames *)

\* c is behind b, in the frame and in the input.
Behind(b, c) == b.at + 4 + b.csize <= c.at /\ b.from + b.len <= c.from

\* The superblock holds `len` bytes from `from` on, in at most as many bytes.
BlockOK(b) ==
  /\ b.at \in Nat /\ b.from \in Nat /\ b.len \in Nat \ {0}
  /\ b.code \in Codes /\ b.csize \in 1..b.len
  /\ b.code = "COPY" => b.csize = b.len

\* Superblock b of a frame of which `upto` bytes of the input are written.
Placed(f, upto, b) ==
  /\ BlockOK(b)
  /\ f.header <= b.at /\ b.at + 4 + b.csize <= f.size /\ b.from + b.len <= upto
  /\ b.len <= f.superblock
  /\ b.len = f.superblock \/ b.from + b.len = f.total
  /\ Follows(f, b)
  /\ b.from + b.len < upto =>
       \E c \in f.blocks : c.from = b.from + b.len /\ c.at = b.at + 4 + b.csize

\* The superblocks of f hold the first `upto` bytes of the input, end to end.
Whole(f, upto) ==
  /\ f.header \in Nat /\ f.size \in Nat
  /\ \A b \in f.blocks : Placed(f, upto, b)
  /\ \A b, c \in f.blocks : b = c \/ Behind(b, c) \/ Behind(c, b)
  /\ IF upto = 0 THEN f.blocks = {} /\ f.size = f.header
     ELSE /\ \E b \in f.blocks : b.from = 0 /\ b.at = f.header
          /\ \E b \in f.blocks : b.from + b.len = upto /\ b.at + 4 + b.csize = f.size

\* What the header of f says of its superblocks.
Described(f) ==
  /\ f.header \in {8, 12}
  /\ f.superblock \in Nat \ {0} /\ f.superblock < STENOS_MAX_BLOCK_BYTES
  /\ f.shift # 255 => f.superblock = ShiftLeft(SuperBlockSize(f.bytesoftype * 256), f.shift)

FrameIsGood == frame = NoFrame \/ (Described(frame) /\ Whole(frame, frame.total))

-----------------------------------------------------------------------------
(* Superblocks that follow each other *)

LEMMA LastSuperblock ==
  ASSUME NEW f, NEW upto, Whole(f, upto), NEW c \in f.blocks, c.from + c.len = upto
  PROVE  c.at + 4 + c.csize = f.size
PROOF
<1>1. \A b \in f.blocks : BlockOK(b)  BY DEF Whole, Placed
<1>2. \A b, d \in f.blocks : b = d \/ Behind(b, d) \/ Behind(d, b)  BY DEF Whole
<1>3. PICK l \in f.blocks : l.from + l.len = upto /\ l.at + 4 + l.csize = f.size
  BY DEF Whole
<1>4. BlockOK(c) /\ BlockOK(l)  BY <1>1
<1>5. ~Behind(c, l) /\ ~Behind(l, c)  BY <1>3, <1>4 DEF Behind, BlockOK
<1> QED BY <1>2, <1>3, <1>5

\* The frame with one more superblock at its end.
LEMMA WholeAndOneMore ==
  ASSUME NEW f, NEW upto \in Nat, Whole(f, upto),
         NEW b, BlockOK(b), b.at = f.size, b.from = upto, b.len <= f.superblock,
         b.len = f.superblock \/ b.from + b.len = f.total,
         NEW g, g.header = f.header, g.superblock = f.superblock, g.total = f.total,
         g.blocks = f.blocks \union {b}, g.size = b.at + 4 + b.csize
  PROVE  Whole(g, upto + b.len)
PROOF
<1>1. /\ b.at \in Nat /\ b.from \in Nat /\ b.len \in Nat \ {0} /\ b.csize \in 1..b.len
  BY DEF BlockOK
<1>2. /\ f.header \in Nat /\ f.size \in Nat
      /\ \A c \in f.blocks : Placed(f, upto, c)
      /\ \A c, d \in f.blocks : c = d \/ Behind(c, d) \/ Behind(d, c)
      /\ IF upto = 0 THEN f.blocks = {} /\ f.size = f.header
         ELSE /\ \E c \in f.blocks : c.from = 0 /\ c.at = f.header
              /\ \E c \in f.blocks : c.from + c.len = upto /\ c.at + 4 + c.csize = f.size
  BY DEF Whole
<1>3. \A c \in f.blocks : Behind(c, b)
  <2> SUFFICES ASSUME NEW c \in f.blocks PROVE Behind(c, b)  OBVIOUS
  <2>1. c.at + 4 + c.csize <= f.size /\ c.from + c.len <= upto  BY <1>2 DEF Placed
  <2> QED BY <2>1 DEF Behind
<1>4. f.header <= f.size
  <2>1. CASE upto = 0  BY <1>2, <2>1
  <2>2. CASE upto # 0
    <3>1. PICK c \in f.blocks : c.from = 0 /\ c.at = f.header  BY <1>2, <2>2
    <3>2. BlockOK(c) /\ c.at + 4 + c.csize <= f.size  BY <1>2, <3>1 DEF Placed
    <3> QED BY <1>2, <3>1, <3>2 DEF BlockOK
  <2> QED BY <2>1, <2>2
<1>5. Placed(g, upto + b.len, b)
  <2>1. Follows(g, b)
    <3>1. CASE upto = 0  BY <1>2, <3>1 DEF Follows
    <3>2. CASE upto # 0
      <4>1. PICK c \in f.blocks : c.from + c.len = upto /\ c.at + 4 + c.csize = f.size
        BY <1>2, <3>2
      <4>2. c \in g.blocks  OBVIOUS
      <4> QED BY <4>1, <4>2 DEF Follows
    <3> QED BY <3>1, <3>2
  <2>2. ~(b.from + b.len < upto + b.len)  BY <1>1
  <2>3. f.header <= b.at /\ b.at + 4 + b.csize <= g.size /\ b.from + b.len <= upto + b.len
    BY <1>1, <1>4
  <2> QED BY <2>1, <2>2, <2>3 DEF Placed
<1>6. ASSUME NEW c \in f.blocks PROVE Placed(g, upto + b.len, c)
  <2>1. /\ Placed(f, upto, c) /\ BlockOK(c)  BY <1>2 DEF Placed
  <2>2. Follows(g, c)  BY <2>1 DEF Placed, Follows
  <2>3. /\ f.header <= c.at /\ c.at + 4 + c.csize <= f.size /\ c.from + c.len <= upto
        /\ c.len <= f.superblock /\ (c.len = f.superblock \/ c.from + c.len = f.total)
    BY <2>1 DEF Placed
  <2>4. c.at + 4 + c.csize <= g.size /\ c.from + c.len <= upto + b.len
    BY <1>1, <1>2, <2>1, <2>3 DEF BlockOK
  <2>5. \E d \in g.blocks : d.from = c.from + c.len /\ d.at = c.at + 4 + c.csize
    <3>1. CASE c.from + c.len < upto
      <4>1. PICK d \in f.blocks : d.from = c.from + c.len /\ d.at = c.at + 4 + c.csize
        BY <2>1, <3>1 DEF Placed
      <4> QED BY <4>1
    <3>2. CASE ~(c.from + c.len < upto)
      <4>1. c.from + c.len = upto  BY <2>1, <2>3, <3>2 DEF BlockOK
      <4>2. c.at + 4 + c.csize = f.size  BY <4>1, LastSuperblock
      <4>3. b \in g.blocks  OBVIOUS
      <4> QED BY <4>1, <4>2, <4>3
    <3> QED BY <3>1, <3>2
  <2> QED BY <2>1, <2>2, <2>3, <2>4, <2>5 DEF Placed
<1>7. \A c \in g.blocks : Placed(g, upto + b.len, c)  BY <1>5, <1>6
<1>8. \A c, d \in g.blocks : c = d \/ Behind(c, d) \/ Behind(d, c)  BY <1>2, <1>3
<1>9. \E c \in g.blocks : c.from = 0 /\ c.at = g.header
  <2>1. CASE upto = 0  BY <1>2, <2>1
  <2>2. CASE upto # 0
    <3>1. PICK c \in f.blocks : c.from = 0 /\ c.at = f.header  BY <1>2, <2>2
    <3> QED BY <3>1
  <2> QED BY <2>1, <2>2
<1>10. \E c \in g.blocks : c.from + c.len = upto + b.len /\ c.at + 4 + c.csize = g.size
  <2>1. b \in g.blocks  OBVIOUS
  <2> QED BY <2>1
<1>11. g.header \in Nat /\ g.size \in Nat /\ upto + b.len # 0  BY <1>1, <1>2
<1> QED BY <1>7, <1>8, <1>9, <1>10, <1>11 DEF Whole

\* Superblocks that go to the end of a frame, one behind the other.
Queue(f, upto, bs, m) ==
  /\ \A k \in 1..m :
       /\ BlockOK(bs[k]) /\ bs[k].len <= f.superblock
       /\ bs[k].len = f.superblock \/ bs[k].from + bs[k].len = f.total
  /\ m > 0 => bs[1].at = f.size /\ bs[1].from = upto
  /\ \A k \in 1..m : k > 1 => /\ bs[k].at = bs[k - 1].at + 4 + bs[k - 1].csize
                              /\ bs[k].from = bs[k - 1].from + bs[k - 1].len

QueueSize(f, bs, k) == IF k = 0 THEN f.size ELSE bs[k].at + 4 + bs[k].csize
QueueEnd(upto, bs, k) == IF k = 0 THEN upto ELSE bs[k].from + bs[k].len
WithQueue(f, bs, k) ==
  [f EXCEPT !.blocks = @ \union {bs[j] : j \in 1..k}, !.size = QueueSize(f, bs, k)]

FrameFields(f) ==
  \E s, h, sh, sb, b, t, bl :
    f = [size |-> s, header |-> h, shift |-> sh, superblock |-> sb, bytesoftype |-> b,
         total |-> t, blocks |-> bl]

LEMMA FieldsOfQueue ==
  ASSUME NEW f, FrameFields(f), NEW bs, NEW k
  PROVE  LET g == WithQueue(f, bs, k)
         IN  /\ g.header = f.header /\ g.superblock = f.superblock /\ g.total = f.total
             /\ g.blocks = f.blocks \union {bs[j] : j \in 1..k} /\ g.size = QueueSize(f, bs, k)
PROOF
<1>1. PICK s, h, sh, sb, b, t, bl :
        f = [size |-> s, header |-> h, shift |-> sh, superblock |-> sb, bytesoftype |-> b,
             total |-> t, blocks |-> bl]
  BY DEF FrameFields
<1> DEFINE new == {bs[j] : j \in 1..k}
           size == QueueSize(f, bs, k)
<1> HIDE DEF new, size
<1>2. f.blocks = bl  BY <1>1
<1> DEFINE g == [f EXCEPT !.blocks = bl \union new, !.size = size]
<1>3. /\ g.header = f.header /\ g.superblock = f.superblock /\ g.total = f.total
      /\ g.blocks = bl \union new /\ g.size = size
  BY <1>1
<1>4. WithQueue(f, bs, k) = g  BY <1>2 DEF WithQueue, new, size
<1> HIDE DEF g
<1> QED BY <1>2, <1>3, <1>4 DEF new, size

LEMMA QueueIsWhole ==
  ASSUME NEW f, FrameFields(f), NEW upto \in Nat, Whole(f, upto), NEW bs, NEW m \in Nat,
         Queue(f, upto, bs, m)
  PROVE  \A k \in 0..m : /\ Whole(WithQueue(f, bs, k), QueueEnd(upto, bs, k))
                         /\ QueueEnd(upto, bs, k) \in Nat /\ QueueSize(f, bs, k) \in Nat
                         /\ QueueSize(f, bs, k) + upto <= f.size + 4 * k + QueueEnd(upto, bs, k)
PROOF
<1> DEFINE Good(k) == /\ Whole(WithQueue(f, bs, k), QueueEnd(upto, bs, k))
                      /\ QueueEnd(upto, bs, k) \in Nat /\ QueueSize(f, bs, k) \in Nat
                      /\ QueueSize(f, bs, k) + upto <= f.size + 4 * k + QueueEnd(upto, bs, k)
           Bad == {k \in 0..m : ~Good(k)}
<1>0. f.size \in Nat  BY DEF Whole
<1>1. Good(0)
  <2>1. QueueEnd(upto, bs, 0) = upto /\ QueueSize(f, bs, 0) = f.size
    BY DEF QueueEnd, QueueSize
  <2> DEFINE g == WithQueue(f, bs, 0)
  <2>2. g = f
    <3>1. PICK s, h, sh, sb, b, t, bl :
            f = [size |-> s, header |-> h, shift |-> sh, superblock |-> sb, bytesoftype |-> b,
                 total |-> t, blocks |-> bl]
      BY DEF FrameFields
    <3>2. {bs[j] : j \in 1..0} = {}  OBVIOUS
    <3>3. f.blocks \union {bs[j] : j \in 1..0} = f.blocks  BY <3>2
    <3>4. g = [f EXCEPT !.blocks = f.blocks, !.size = f.size]
      <4> DEFINE new == {bs[j] : j \in 1..0}
      <4>1. new = {}  BY <3>2
      <4>2. g = [f EXCEPT !.blocks = @ \union new, !.size = QueueSize(f, bs, 0)]
        BY DEF WithQueue
      <4> HIDE DEF new, g
      <4> QED BY <2>1, <3>1, <4>1, <4>2
    <3> HIDE DEF g
    <3> QED BY <3>1, <3>4
  <2> QED BY <1>0, <2>1, <2>2
<1>2. ASSUME NEW k \in 1..m, Good(k - 1) PROVE Good(k)
  <2> DEFINE g == WithQueue(f, bs, k - 1)
             h == WithQueue(f, bs, k)
             b == bs[k]
  <2>1. /\ g.header = f.header /\ g.superblock = f.superblock /\ g.total = f.total
        /\ g.blocks = f.blocks \union {bs[j] : j \in 1..(k - 1)}
        /\ g.size = QueueSize(f, bs, k - 1)
    BY FieldsOfQueue
  <2>2. /\ h.header = f.header /\ h.superblock = f.superblock /\ h.total = f.total
        /\ h.blocks = f.blocks \union {bs[j] : j \in 1..k} /\ h.size = QueueSize(f, bs, k)
    BY FieldsOfQueue
  <2>3. {bs[j] : j \in 1..k} = {bs[j] : j \in 1..(k - 1)} \union {b}
    <3>1. 1..k = (1..(k - 1)) \union {k}  OBVIOUS
    <3> QED BY <3>1
  <2>4. /\ BlockOK(b) /\ b.len <= f.superblock
        /\ b.len = f.superblock \/ b.from + b.len = f.total
    BY DEF Queue
  <2>5. b.at = QueueSize(f, bs, k - 1) /\ b.from = QueueEnd(upto, bs, k - 1)
    <3>1. CASE k = 1  BY <3>1 DEF Queue, QueueSize, QueueEnd
    <3>2. CASE k # 1
      <4>1. k > 1 /\ k - 1 # 0  BY <3>2
      <4> QED BY <4>1 DEF Queue, QueueSize, QueueEnd
    <3> QED BY <3>1, <3>2
  <2>6. h.size = b.at + 4 + b.csize /\ QueueEnd(upto, bs, k) = QueueEnd(upto, bs, k - 1) + b.len
    BY <2>2, <2>5 DEF QueueSize, QueueEnd
  <2>7. Whole(h, QueueEnd(upto, bs, k - 1) + b.len)
    <3>1. h.blocks = g.blocks \union {b}  BY <2>1, <2>2, <2>3
    <3>2. Whole(g, QueueEnd(upto, bs, k - 1))  BY <1>2
    <3>3. QueueEnd(upto, bs, k - 1) \in Nat  BY <1>2
    <3> HIDE DEF g, h, b
    <3> QED BY <2>1, <2>2, <2>4, <2>5, <2>6, <3>1, <3>2, <3>3, WholeAndOneMore
  <2>8. b.csize \in Nat /\ b.csize <= b.len /\ b.len \in Nat  BY <2>4 DEF BlockOK
  <2>9. QueueSize(f, bs, k) = QueueSize(f, bs, k - 1) + 4 + b.csize  BY <2>2, <2>5, <2>6
  <2>10. /\ QueueEnd(upto, bs, k - 1) \in Nat /\ QueueSize(f, bs, k - 1) \in Nat
         /\ QueueSize(f, bs, k - 1) + upto
              <= f.size + 4 * (k - 1) + QueueEnd(upto, bs, k - 1)
    BY <1>2
  <2> DEFINE q == QueueSize(f, bs, k - 1)
             r == QueueEnd(upto, bs, k - 1)
  <2>11. q + 4 + b.csize + upto <= f.size + 4 * k + (r + b.len)
    <3> HIDE DEF q, r, b
    <3> QED BY <1>0, <2>8, <2>10 DEF q, r
  <2>12. q + 4 + b.csize \in Nat /\ r + b.len \in Nat  BY <2>8, <2>10
  <2> HIDE DEF b, g
  <2> QED BY <2>6, <2>7, <2>9, <2>11, <2>12
<1> HIDE DEF Good
<1>3. SUFFICES ASSUME Bad # {} PROVE FALSE
  <2>1. \A k \in 0..m : Good(k)  BY <1>3
  <2> QED BY <2>1 DEF Good
<1>4. Bad \in SUBSET Nat  OBVIOUS
<1>5. PICK x \in Bad : \A y \in Bad : x <= y
  <2> HIDE DEF Bad
  <2> QED BY <1>3, <1>4, LeastElement
<1>6. x \in 0..m /\ ~Good(x)  OBVIOUS
<1>7. x \in 1..m  BY <1>1, <1>6
<1>8. x - 1 \in 0..m /\ ~(x <= x - 1)  BY <1>7
<1>9. x - 1 \notin Bad
  <2> HIDE DEF Bad
  <2> QED BY <1>5, <1>8
<1>10. Good(x - 1)  BY <1>8, <1>9
<1> QED BY <1>2, <1>6, <1>7, <1>10

-----------------------------------------------------------------------------
(* The outcome of a superblock *)

\* An outcome of a superblock of `len` bytes.
OutFits(out, len) ==
  /\ out.code \in Codes /\ out.csize \in 1..len
  /\ out.code = "COPY" => out.csize = len

GoodOut(out, len) == OutFits(out, len) /\ out.error = "none"

LEMMA NoCopy ==
  ASSUME NEW bytesoftype, NEW len, NEW path \in {"copy", "zstd", "block", "buffers"}
  PROVE  CodesFor(bytesoftype, len, path) \subseteq Codes \ {"COPY"}
  BY DEF CodesFor, CodesWithBuffers, Codes

LEMMA OutcomesFit ==
  ASSUME NEW codes \in SUBSET (Codes \ {"COPY"}), NEW len \in Nat \ {0}, NEW room \in Int,
         NEW o \in Outcomes(codes, len, room)
  PROVE  /\ o.error = "none" => GoodOut(o, len) /\ o.csize + 4 <= room
         /\ o.error # "none" => o.error = "dst_overflow" /\ ~(len + 4 <= room)
PROOF
<1>1. \/ \E c \in codes, z \in CompressedSizes :
           z <= len /\ z + 4 <= room /\ o = [code |-> c, csize |-> z, error |-> "none"]
      \/ len + 4 <= room /\ o = [code |-> "COPY", csize |-> len, error |-> "none"]
      \/ ~(len + 4 <= room) /\ o = [code |-> "COPY", csize |-> 0, error |-> "dst_overflow"]
  BY DEF Outcomes
<1>2. CASE \E c \in codes, z \in CompressedSizes :
             z <= len /\ z + 4 <= room /\ o = [code |-> c, csize |-> z, error |-> "none"]
  <2>1. PICK c \in codes, z \in CompressedSizes :
          z <= len /\ z + 4 <= room /\ o = [code |-> c, csize |-> z, error |-> "none"]
    BY <1>2
  <2>2. z \in 1..len  BY <2>1, CodecAssumption
  <2> QED BY <2>1, <2>2 DEF GoodOut, OutFits
<1>3. CASE len + 4 <= room /\ o = [code |-> "COPY", csize |-> len, error |-> "none"]
  <2>1. len \in 1..len  OBVIOUS
  <2> QED BY <1>3, <2>1 DEF GoodOut, OutFits, Codes
<1>4. CASE ~(len + 4 <= room) /\ o = [code |-> "COPY", csize |-> 0, error |-> "dst_overflow"]
  BY <1>4
<1> QED BY <1>1, <1>2, <1>3, <1>4

LEMMA ResultsFit ==
  ASSUME NEW k, NEW bytesoftype, NEW len \in Nat \ {0}, NEW room \in Int,
         NEW r \in SuperblockResults(k, bytesoftype, len, room)
  PROVE  /\ r.out.error = "none" => GoodOut(r.out, len) /\ r.out.csize + 4 <= room
         /\ r.out.error # "none" => r.out.error = "dst_overflow" /\ ~(len + 4 <= room)
PROOF
<1> DEFINE On(q) == UNION {PathResults(q, b, bytesoftype, len, room) : b \in TmpBuffers(k, q)}
<1>0. r \in UNION {On(q) : q \in Paths(bytesoftype, len)}  BY DEF SuperblockResults
<1>1. PICK path \in Paths(bytesoftype, len) : r \in On(path)
  <2> HIDE DEF On
  <2> QED BY <1>0
<1>2. PICK b \in TmpBuffers(k, path) : r \in PathResults(path, b, bytesoftype, len, room)
  BY <1>1
<1>3. path \in {"copy", "zstd", "block", "buffers"}  BY DEF Paths
<1> DEFINE taken == IF path = "buffers" /\ 0 \in {b[1], b[2]} THEN "zstd" ELSE path
           codes == CodesFor(bytesoftype, len, taken)
<1>4. codes \in SUBSET (Codes \ {"COPY"})
  <2>1. taken \in {"copy", "zstd", "block", "buffers"}  BY <1>3
  <2> HIDE DEF taken
  <2> QED BY <2>1, NoCopy
<1>5. r \in {[out |-> o, b1 |-> b[1], b2 |-> b[2], finish |-> f] :
               o \in Outcomes(codes, len, room), f \in Orders(path)}
  BY <1>2 DEF PathResults
<1> HIDE DEF codes
<1>6. PICK o \in Outcomes(codes, len, room) : r.out = o  BY <1>5
<1> QED BY <1>4, <1>6, OutcomesFit

-----------------------------------------------------------------------------
(* The invariant of a compression *)

\* Superblock number k of the chunk, and where it goes.
OutOf(k) == IF RawMemcpy THEN [code |-> "COPY", csize |-> Length(k)] ELSE call.outs[k]
Place(k) == call.frame.size + SumUpTo([j \in 1..(k - 1) |-> OutOf(j).csize + 4], k - 1)
Written(k) == BlockAt(Place(k), OutOf(k), k)

\* The tasks that have run left a result, unless they had no buffer.
OutsAreGood ==
  /\ call.phase = "tasks" /\ ~RawMemcpy =>
       \A k \in (1..ChunkSize) \ call.tasks : NoBuffer(k) \/ GoodOut(call.outs[k], Length(k))
  /\ call.phase = "copy" =>
       ~RawMemcpy /\ \A k \in 1..ChunkSize : GoodOut(call.outs[k], Length(k))

\* The tasks of a chunk are writing to the frame.
Writing == (call.phase = "tasks" /\ RawMemcpy) \/ call.phase = "copy"

Overflows(k) ==
  IF RawMemcpy THEN Place(k) + 4 + Length(k) > call.cap ELSE call.res_code # "none"

\* The frame before the chunk, and those superblocks of the chunk that were
\* written: every task that has run wrote its own, unless the call must fail.
FrameSoFar(base) ==
  /\ Whole([call.frame EXCEPT !.blocks = base], call.src)
  /\ base \subseteq call.frame.blocks
  /\ call.frame.blocks \subseteq base \union {Written(k) : k \in (1..ChunkSize) \ call.tasks}
  /\ \A k \in (1..ChunkSize) \ call.tasks : Written(k) \in call.frame.blocks \/ Overflows(k)

\* The largest frame of the call fits.
Roomy == call.frame.header + 4 * Count + call.frame.total <= call.cap

\* What the call is about, and how far it is.
CompressPlan ==
  /\ call.cap \in Nat
  /\ call.frame.superblock = superblock_size /\ Described(call.frame)
  /\ call.frame.header = HeaderSize(params)
  /\ params.custom = NoShift =>
       LargestFrame(call.frame.header, call.frame.total, superblock_size) <= Bound(call.frame.total)
  /\ call.src + (call.chunks - 1) * superblock_size < call.frame.total
  /\ call.frame.total <= call.src + call.chunks * superblock_size
  /\ call.phase = "ensure" => call.src = 0 /\ call.chunks = Count

CompressInv ==
  /\ CompressPlan
  /\ OutsAreGood
  /\ call.frame.size <= call.cap
  /\ call.frame.size + 4 * call.chunks <= call.frame.header + 4 * Count + call.src
  /\ IF Writing THEN \E base : FrameSoFar(base) ELSE Whole(call.frame, call.src)
  /\ \A b \in call.frame.blocks : b.at + 4 + b.csize <= call.cap
  /\ call.res_code \in {"none", "dst_overflow"}
  /\ call.res_code # "none" => call.phase = "copy" /\ ~Roomy

-----------------------------------------------------------------------------
(* The superblocks of a chunk *)

LEMMA Multiples ==
  ASSUME NEW k \in Nat \ {0}, NEW m \in Nat, k <= m, NEW s \in Nat
  PROVE  /\ (k - 1) * s \in Nat /\ k * s \in Nat /\ (m - 1) * s \in Int
         /\ k * s = (k - 1) * s + s
         /\ (k - 1) * s <= (m - 1) * s
         /\ k < m => k * s <= (m - 1) * s
PROOF
<1> DEFINE a == (k - 1) * s
           b == (m - 1) * s
           c == k * s
<1>1. /\ a \in Nat /\ c \in Nat /\ b \in Nat
  <2>1. k - 1 \in Nat /\ m - 1 \in Nat /\ k \in Nat  OBVIOUS
  <2> QED BY ONLY <2>1, s \in Nat, ProductOfNaturals
<1>2. c = a + s
  <2>1. ((k - 1) + 1) * s = (k - 1) * s + 1 * s  BY Distributes
  <2>2. (k - 1) + 1 = k /\ 1 * s = s  OBVIOUS
  <2> QED BY <2>1, <2>2
<1>3. b = a + (m - k) * s
  <2>1. ((k - 1) + (m - k)) * s = (k - 1) * s + (m - k) * s  BY Distributes
  <2>2. (k - 1) + (m - k) = m - 1  OBVIOUS
  <2> QED BY <2>1, <2>2
<1>4. (m - k) * s \in Nat
  <2>1. m - k \in Nat  OBVIOUS
  <2> QED BY <2>1, ProductOfNaturals
<1>5. ASSUME k < m PROVE c <= b
  <2>1. b = c + (m - 1 - k) * s
    <3>1. (k + (m - 1 - k)) * s = k * s + (m - 1 - k) * s  BY Distributes
    <3>2. k + (m - 1 - k) = m - 1  OBVIOUS
    <3> QED BY <3>1, <3>2
  <2>2. (m - 1 - k) * s \in Nat
    <3>1. m - 1 - k \in Nat  BY <1>5
    <3> QED BY <3>1, ProductOfNaturals
  <2> DEFINE d == (m - 1 - k) * s
  <2>3. b = c + d /\ d \in Nat  BY <2>1, <2>2
  <2> HIDE DEF b, c, d
  <2> QED BY <1>1, <2>3
<1> DEFINE e == (m - k) * s
<1>6. b = a + e /\ e \in Nat  BY <1>3, <1>4
<1> HIDE DEF a, b, c, e
<1>7. a <= b  BY <1>1, <1>6
<1> QED BY <1>1, <1>2, <1>5, <1>7 DEF a, b, c

LEMMA ChunkSizes ==
  ASSUME IInv, Compression, CompressPlan
  PROVE  /\ ChunkSize \in 1..call.chunks /\ call.chunks \in Nat \ {0}
         /\ call.src \in Nat /\ superblock_size \in Nat \ {0} /\ call.frame.total \in Nat
         /\ Count \in Nat \ {0} /\ call.frame.header \in {8, 12} /\ FrameFields(call.frame)
PROOF
<1>1. /\ Count \in Nat /\ ThreadCount \in Nat /\ superblock_size \in Nat /\ superblock_size > 0
      /\ call.frame.total \in Nat
  BY CallFacts
<1>2. call.src \in Nat /\ call.chunks \in Nat \ {0}  BY DEF Compression, InputLeft
<1>3. call.frame.total > 0
  <2>1. (call.chunks - 1) * superblock_size \in Nat
    <3>1. call.chunks - 1 \in Nat  BY <1>2
    <3> QED BY <1>1, <3>1, ProductOfNaturals
  <2>2. call.src + (call.chunks - 1) * superblock_size < call.frame.total  BY DEF CompressPlan
  <2> QED BY <1>1, <1>2, <2>1, <2>2
<1>4. Count # 0
  <2>1. Count = Pieces(call.frame.total, superblock_size)  BY DEF Count
  <2>2. superblock_size * (Pieces(call.frame.total, superblock_size)) >= call.frame.total
    BY <1>1, PiecesCeiling
  <2>3. superblock_size * 0 = 0  BY <1>1
  <2> QED BY <1>1, <1>3, <2>1, <2>2, <2>3
<1>5. params.threads \in Nat \ {0}  BY DEF IInv, ContextOK, ParamsType
<1>6. ThreadCount \in Nat \ {0}  BY <1>1, <1>4, <1>5 DEF ThreadCount, Min2
<1>7. ChunkSize \in 1..call.chunks  BY <1>2, <1>6 DEF ChunkSize, Min2
<1>8. call.frame.header \in {8, 12}  BY DEF CompressPlan, Described
<1>9. FrameFields(call.frame)  BY DEF Compression, FrameOK, FrameFields
<1> QED BY <1>1, <1>2, <1>4, <1>7, <1>8, <1>9

\* The pieces of the input that the tasks of a chunk take follow each other.
LEMMA PiecesFollow ==
  ASSUME IInv, Compression, CompressPlan, NEW k \in 1..call.chunks
  PROVE  /\ From(k) \in Nat /\ Length(k) \in Nat \ {0} /\ Length(k) <= superblock_size
         /\ Length(k) = superblock_size \/ From(k) + Length(k) = call.frame.total
         /\ From(k) + Length(k) <= call.frame.total
         /\ From(1) = call.src
         /\ IF k = call.chunks THEN From(k) + Length(k) = call.frame.total
            ELSE /\ Length(k) = superblock_size
                 /\ From(k) + Length(k) = From(k + 1)
                 /\ From(k) + Length(k) = call.src + k * superblock_size
PROOF
<1>1. /\ call.chunks \in Nat \ {0} /\ call.src \in Nat /\ superblock_size \in Nat \ {0}
      /\ call.frame.total \in Nat
  BY ChunkSizes
<1>2. /\ call.src + (call.chunks - 1) * superblock_size < call.frame.total
      /\ call.frame.total <= call.src + call.chunks * superblock_size
  BY DEF CompressPlan
<1> DEFINE a == (k - 1) * superblock_size
           b == (call.chunks - 1) * superblock_size
           c == k * superblock_size
           d == call.chunks * superblock_size
<1>3. /\ a \in Nat /\ c \in Nat /\ b \in Int /\ c = a + superblock_size /\ a <= b
      /\ k < call.chunks => c <= b
  BY <1>1, Multiples
<1>4. From(k) = call.src + a /\ From(k + 1) = call.src + c
  <2>1. k + 1 - 1 = k  OBVIOUS
  <2> QED BY <2>1 DEF From
<1>5. From(1) = call.src
  <2>1. (1 - 1) * superblock_size = 0  BY <1>1
  <2> QED BY <1>1, <2>1 DEF From
<1>6. Length(k) = IF call.frame.total - From(k) <= superblock_size
                  THEN call.frame.total - From(k) ELSE superblock_size
  BY DEF Length, Min2
<1>7. call.src + b < call.frame.total /\ call.frame.total <= call.src + d  BY <1>2
<1>8. k = call.chunks => d = a + superblock_size  BY <1>3
<1> HIDE DEF a, b, c, d
<1>9. call.src + a < call.frame.total  BY <1>1, <1>3, <1>7
<1>10. CASE k = call.chunks
  <2>1. d \in Int  BY <1>3, <1>8, <1>10
  <2>2. call.frame.total - From(k) <= superblock_size
    BY <1>1, <1>3, <1>4, <1>7, <1>8, <1>10, <2>1
  <2> QED BY <1>1, <1>3, <1>4, <1>5, <1>6, <1>9, <1>10, <2>2
<1>11. CASE k # call.chunks
  <2>1. call.src + c < call.frame.total  BY <1>1, <1>3, <1>7, <1>11
  <2>2. Length(k) = superblock_size  BY <1>1, <1>3, <1>4, <1>6, <2>1
  <2>3. From(k) + Length(k) = call.src + c  BY <1>1, <1>3, <1>4, <2>2
  <2> QED BY <1>1, <1>3, <1>4, <1>5, <1>11, <2>1, <2>2, <2>3 DEF c
<1> QED BY <1>10, <1>11

\* Each superblock of the chunk goes where the one before it ends.
LEMMA PlacesFollow ==
  ASSUME NEW m \in Nat, \A k \in 1..m : OutOf(k).csize \in Nat, call.frame.size \in Nat
  PROVE  /\ Place(1) = call.frame.size
         /\ \A k \in 1..m : Place(k) \in Nat /\ Place(k + 1) = Place(k) + 4 + OutOf(k).csize
PROOF
<1> DEFINE f(k) == [j \in 1..k |-> OutOf(j).csize + 4]
<1>1. \A k : Place(k) = call.frame.size + SumUpTo(f(k - 1), k - 1)  BY DEF Place
<1>2. Place(1) = call.frame.size
  <2>1. SumUpTo(f(0), 0) = 0  BY SumOfNone
  <2>2. 1 - 1 = 0  OBVIOUS
  <2> HIDE DEF f
  <2> QED BY <1>1, <2>1, <2>2
<1>3. ASSUME NEW k \in 1..m
      PROVE  Place(k) \in Nat /\ Place(k + 1) = Place(k) + 4 + OutOf(k).csize
  <2>1. \A j \in 1..(k - 1) : f(k - 1)[j] = f(k)[j]  OBVIOUS
  <2>2. \A j \in 1..k : f(k)[j] \in Nat
    <3>1. \A j \in 1..k : OutOf(j).csize \in Nat  OBVIOUS
    <3> QED BY <3>1
  <2>3. f(k)[k] = OutOf(k).csize + 4 /\ OutOf(k).csize \in Nat  OBVIOUS
  <2>4. k - 1 \in Nat /\ (k - 1) + 1 = k /\ k + 1 - 1 = k  OBVIOUS
  <2> HIDE DEF f
  <2>5. SumUpTo(f(k), (k - 1) + 1) = SumUpTo(f(k - 1), k - 1) + f(k)[(k - 1) + 1]
        /\ SumUpTo(f(k - 1), k - 1) \in Nat
    BY <2>1, <2>2, <2>4, SumOfMore
  <2>6. Place(k + 1) = call.frame.size + SumUpTo(f(k), k)  BY <1>1, <2>4
  <2>7. SumUpTo(f(k), k) = SumUpTo(f(k - 1), k - 1) + (OutOf(k).csize + 4)
    BY <2>3, <2>4, <2>5
  <2> QED BY <1>1, <2>3, <2>5, <2>6, <2>7
<1> QED BY <1>2, <1>3

\* The outcomes of the chunk, copies or compressed, fit their pieces.
OutsFit == \A k \in 1..ChunkSize : OutFits(OutOf(k), Length(k))

WrittenUpTo(m) == [k \in 1..m |-> Written(k)]

LEMMA ChunkFollows ==
  ASSUME IInv, Compression, CompressPlan, OutsFit, call.frame.size \in Nat
  PROVE  \A f : f.size = call.frame.size /\ f.superblock = superblock_size
                /\ f.total = call.frame.total
                => Queue(f, call.src, WrittenUpTo(ChunkSize), ChunkSize)
PROOF
<1> DEFINE n == ChunkSize
           bs == WrittenUpTo(ChunkSize)
<1>1. n \in 1..call.chunks /\ call.chunks \in Nat /\ superblock_size \in Nat /\ n \in Nat
  BY ChunkSizes
<1> HIDE DEF n
<1>2. ASSUME NEW k \in 1..n
      PROVE  /\ OutOf(k).csize \in Nat /\ OutOf(k).csize \in 1..Length(k) /\ OutOf(k).code \in Codes
             /\ OutOf(k).code = "COPY" => OutOf(k).csize = Length(k)
             /\ From(k) \in Nat /\ Length(k) \in Nat \ {0} /\ Length(k) <= superblock_size
             /\ Length(k) = superblock_size \/ From(k) + Length(k) = call.frame.total
             /\ From(1) = call.src
             /\ k # call.chunks => From(k) + Length(k) = From(k + 1)
  <2>1. k \in 1..call.chunks  BY <1>1
  <2>2. OutFits(OutOf(k), Length(k))  BY DEF OutsFit, n
  <2>3. /\ From(k) \in Nat /\ Length(k) \in Nat \ {0} /\ Length(k) <= superblock_size
        /\ Length(k) = superblock_size \/ From(k) + Length(k) = call.frame.total
        /\ From(1) = call.src
        /\ k # call.chunks => From(k) + Length(k) = From(k + 1)
    BY <2>1, PiecesFollow
  <2> QED BY <2>2, <2>3 DEF OutFits
<1>3. /\ Place(1) = call.frame.size
      /\ \A k \in 1..n : Place(k) \in Nat /\ Place(k + 1) = Place(k) + 4 + OutOf(k).csize
  BY <1>1, <1>2, PlacesFollow
<1>4. ASSUME NEW k \in 1..n
      PROVE  /\ bs[k] = Written(k)
             /\ bs[k].at = Place(k) /\ bs[k].csize = OutOf(k).csize /\ bs[k].code = OutOf(k).code
             /\ bs[k].from = From(k) /\ bs[k].len = Length(k)
  BY DEF WrittenUpTo, Written, BlockAt, n
<1> HIDE DEF bs
<1>5. ASSUME NEW k \in 1..n PROVE BlockOK(bs[k])  BY <1>2, <1>3, <1>4 DEF BlockOK
<1>6. ASSUME NEW k \in 1..n, k > 1
      PROVE  /\ bs[k].at = bs[k - 1].at + 4 + bs[k - 1].csize
             /\ bs[k].from = bs[k - 1].from + bs[k - 1].len
  <2>1. k - 1 \in 1..n /\ k - 1 # call.chunks /\ (k - 1) + 1 = k  BY <1>1, <1>6
  <2>2. Place((k - 1) + 1) = Place(k - 1) + 4 + OutOf(k - 1).csize  BY <1>3, <2>1
  <2>3. From(k - 1) + Length(k - 1) = From((k - 1) + 1)  BY <1>2, <2>1
  <2> QED BY <1>4, <2>1, <2>2, <2>3
<1>7. bs[1].at = call.frame.size /\ bs[1].from = call.src
  <2>1. 1 \in 1..n  BY <1>1
  <2> QED BY <1>2, <1>3, <1>4, <2>1
<1> SUFFICES ASSUME NEW f, f.size = call.frame.size, f.superblock = superblock_size,
                    f.total = call.frame.total
             PROVE  Queue(f, call.src, bs, n)
  BY DEF bs, n
<1>8. \A k \in 1..n : /\ bs[k].len <= f.superblock
                      /\ bs[k].len = f.superblock \/ bs[k].from + bs[k].len = f.total
  BY <1>2, <1>4
<1> QED BY <1>5, <1>6, <1>7, <1>8 DEF Queue

\* The frame with the first superblocks of the chunk.
LEMMA ChunkIsWhole ==
  ASSUME IInv, Compression, CompressPlan, OutsFit,
         NEW f, FrameFields(f), f.size = call.frame.size, f.superblock = superblock_size,
         f.total = call.frame.total, Whole(f, call.src)
  PROVE  LET g(k) == WithQueue(f, WrittenUpTo(ChunkSize), k)
             end(k) == IF k = 0 THEN call.src ELSE From(k) + Length(k)
         IN  \A k \in 0..ChunkSize :
               /\ Whole(g(k), end(k))
               /\ g(k).size \in Nat /\ g(k).size + call.src <= f.size + 4 * k + end(k)
               /\ g(k).blocks = f.blocks \union {Written(j) : j \in 1..k}
               /\ k > 0 => g(k).size = Place(k) + 4 + OutOf(k).csize
               /\ g(k).header = f.header
PROOF
<1> DEFINE bs == WrittenUpTo(ChunkSize)
           g(k) == WithQueue(f, WrittenUpTo(ChunkSize), k)
           end(k) == IF k = 0 THEN call.src ELSE From(k) + Length(k)
<1>1. ChunkSize \in Nat /\ call.src \in Nat /\ call.frame.size \in Nat
  BY ChunkSizes DEF Whole
<1>2. Queue(f, call.src, bs, ChunkSize)  BY <1>1, ChunkFollows
<1>3. \A k \in 1..ChunkSize : bs[k] = Written(k)  BY DEF WrittenUpTo
<1> HIDE DEF bs
<1>4. \A k \in 0..ChunkSize :
        /\ Whole(WithQueue(f, bs, k), QueueEnd(call.src, bs, k))
        /\ QueueSize(f, bs, k) \in Nat
        /\ QueueSize(f, bs, k) + call.src <= f.size + 4 * k + QueueEnd(call.src, bs, k)
  BY <1>1, <1>2, QueueIsWhole
<1> SUFFICES ASSUME NEW k \in 0..ChunkSize
             PROVE  /\ Whole(g(k), end(k))
                    /\ g(k).size \in Nat /\ g(k).size + call.src <= f.size + 4 * k + end(k)
                    /\ g(k).blocks = f.blocks \union {Written(j) : j \in 1..k}
                    /\ k > 0 => g(k).size = Place(k) + 4 + OutOf(k).csize
                    /\ g(k).header = f.header
  OBVIOUS
<1>5. g(k).blocks = f.blocks \union {bs[j] : j \in 1..k} /\ g(k).size = QueueSize(f, bs, k)
      /\ g(k).header = f.header
  BY FieldsOfQueue DEF bs
<1>6. {bs[j] : j \in 1..k} = {Written(j) : j \in 1..k}
  <2>1. \A j \in 1..k : bs[j] = Written(j)  BY <1>1, <1>3
  <2> QED BY <2>1
<1>7. QueueEnd(call.src, bs, k) = end(k)
  <2>1. CASE k = 0  BY <2>1 DEF QueueEnd
  <2>2. CASE k # 0
    <3>1. bs[k] = Written(k)  BY <1>1, <1>3, <2>2
    <3> QED BY <2>2, <3>1 DEF QueueEnd, Written, BlockAt
  <2> QED BY <2>1, <2>2
<1>8. k > 0 => QueueSize(f, bs, k) = Place(k) + 4 + OutOf(k).csize
  <2>1. ASSUME k > 0 PROVE QueueSize(f, bs, k) = Place(k) + 4 + OutOf(k).csize
    <3>1. bs[k] = Written(k)  BY <1>1, <1>3, <2>1
    <3> QED BY <2>1, <3>1 DEF QueueSize, Written, BlockAt
  <2> QED BY <2>1
<1>9. g(k) = WithQueue(f, bs, k)  BY DEF bs
<1> HIDE DEF g, end
<1> QED BY <1>4, <1>5, <1>6, <1>7, <1>8, <1>9

-----------------------------------------------------------------------------
(* The invariant of a decompression *)

\* What was restored of a frame up to byte d of the output.
RestoredUpTo(d) == {Restored(b, b.from, b.len) : b \in {c \in frame.blocks : c.from < d}}

\* The superblocks of the chunk that were read and not yet decompressed.
Pending ==
  IF call.phase = "read" THEN 1..Len(call.blocks)
  ELSE IF call.phase = "tasks" THEN call.tasks ELSE {}

LeftToRead == call.chunks - Len(call.blocks)
LastSize == IF frame.total % superblock_size = 0 THEN superblock_size
            ELSE frame.total % superblock_size

\* The decompressor is where a superblock begins, or at the end of the frame.
\* Of a frame whose last superblock is whole, the last output size is 0.
AtSuperblock ==
  /\ call.dst \in Nat /\ call.src \in Nat /\ call.src <= call.size /\ LeftToRead \in Nat
  /\ IF LeftToRead = 0
     THEN /\ call.src = frame.size
          /\ call.dst = IF Exact(frame) THEN frame.total - superblock_size ELSE frame.total
     ELSE /\ call.dst + (LeftToRead - 1) * superblock_size + LastSize = frame.total
          /\ \E b \in frame.blocks : b.from = call.dst /\ b.at = call.src

\* A record that was read gives back its superblock.
RecordIsGood(record) ==
  \E b \in frame.blocks : record = [block |-> b, dsize |-> b.len, dst |-> b.from]
RestoredBy(record) == Restored(record.block, record.dst, record.dsize)

\* What was restored, and what is pending, is the output up to `dst`.
ReadSoFar ==
  /\ \A k \in Pending : RecordIsGood(call.blocks[k])
  /\ RestoredUpTo(call.dst) = call.restored \union {RestoredBy(call.blocks[k]) : k \in Pending}
  /\ call.phase = "tasks" => \A k \in 1..ChunkSize : call.rets[k] # "invalid_input"

DecompressPlan ==
  /\ call.frame = frame /\ frame # NoFrame
  /\ frame.total \in Nat \ {0} /\ frame.total <= call.cap /\ call.cap \in Nat
  /\ call.size \in Nat /\ call.size <= frame.size /\ call.chunks \in Nat \ {0}
  /\ \E S : call.blocks \in Seq(S)
  /\ call.phase \in {"ensure", "one"} => call.blocks = <<>>
  /\ call.phase = "read" => Len(call.blocks) <= ChunkSize
  /\ call.phase = "tasks" =>
       /\ Len(call.blocks) = ChunkSize
       /\ \E S : call.rets \in [1..ChunkSize -> S]
       /\ \A k \in 1..ChunkSize : /\ call.rets[k] \in {"none", "alloc", "invalid_input"}
                                  /\ call.rets[k] = "alloc" => BufferMayFail

DecompressInv ==
  /\ DecompressPlan
  /\ Readable(frame) =>
       /\ superblock_size = frame.superblock
       /\ AtSuperblock
       /\ ~Exact(frame) => ReadSoFar

-----------------------------------------------------------------------------
(* The invariant of the context *)

ResultIsGood ==
  /\ result.error \in Errors \union {"none"}
  /\ result.op = "compress" /\ result.error = "none" => frame.size <= result.cap
  /\ BoundIsEnough /\ RoundTrip /\ SuccessIsComplete /\ TruncatedIsRefused

StreamInv ==
  /\ FrameIsGood /\ ResultIsGood
  /\ call # NoCall => result = NoResult
  /\ call.op = "compress" => CompressInv
  /\ call.op = "decompress" => DecompressInv

LEMMA NoResultIsGood ==
  ASSUME result' = NoResult
  PROVE  ResultIsGood'
  BY DEF ResultIsGood, NoResult, BoundIsEnough, RoundTrip, SuccessIsComplete,
         TruncatedIsRefused, Decompressed

\* The result of a compression.
LEMMA CompressedIsGood ==
  ASSUME NEW e \in Errors \union {"none"}, NEW cap, NEW bytes,
         result' = Returned("compress", e, cap, bytes),
         e = "none" => frame'.size <= cap,
         e = "dst_overflow" => ~(cap >= Bound(bytes) /\ params'.custom = NoShift)
  PROVE  ResultIsGood'
PROOF
<1>1. /\ result'.op = "compress" /\ result'.error = e /\ result'.cap = cap
      /\ result'.bytes = bytes
  BY DEF Returned
<1> QED BY <1>1 DEF ResultIsGood, BoundIsEnough, RoundTrip, SuccessIsComplete,
           TruncatedIsRefused, Decompressed

LEMMA NoFrameIsGood ==
  ASSUME frame' = NoFrame
  PROVE  FrameIsGood'
  BY DEF FrameIsGood

LEMMA FrameStaysGood ==
  ASSUME FrameIsGood, frame' = frame
  PROVE  FrameIsGood'
  BY DEF FrameIsGood, Described, Whole, Placed, Follows, BlockOK, Behind

\* A call that ends leaves a good frame and a good result.
LEMMA CallEnds ==
  ASSUME call' = NoCall, FrameIsGood', ResultIsGood'
  PROVE  StreamInv'
  BY DEF StreamInv, NoCall

-----------------------------------------------------------------------------
(* The steps of a compression *)

LEMMA NotRoomy ==
  ASSUME IInv, Compression, CompressPlan, ~Roomy
  PROVE  ~(call.cap >= Bound(call.frame.total) /\ params.custom = NoShift)
PROOF
<1>1. /\ params.custom = NoShift =>
           LargestFrame(call.frame.header, call.frame.total, superblock_size)
             <= Bound(call.frame.total)
      /\ call.cap \in Nat
  BY DEF CompressPlan
<1>2. LargestFrame(call.frame.header, call.frame.total, superblock_size)
        = call.frame.header + 4 * Count + call.frame.total
  BY DEF LargestFrame, Count
<1>3. call.frame.header + 4 * Count + call.frame.total > call.cap
  BY <1>1, ChunkSizes DEF Roomy
<1>4. Bound(call.frame.total) \in Nat  BY ChunkSizes, BoundIsNat
<1>5. /\ call.frame.header \in {8, 12} /\ Count \in Nat /\ call.frame.total \in Nat
  BY ChunkSizes
<1> QED BY <1>1, <1>2, <1>3, <1>4, <1>5

LEMMA FailureIsGood ==
  ASSUME IInv, StreamInv, Compression, NEW e \in {"alloc", "dst_overflow"}, CompressFails(e),
         e = "dst_overflow" => ~Roomy, params' = params
  PROVE  StreamInv'
PROOF
<1>1. CompressPlan /\ FrameIsGood  BY DEF StreamInv, CompressInv, Compression
<1>2. /\ call' = NoCall /\ frame' = frame
      /\ result' = Returned("compress", e, call.cap, call.frame.total)
  BY DEF CompressFails, Finish
<1>3. e = "dst_overflow" => ~(call.cap >= Bound(call.frame.total) /\ params'.custom = NoShift)
  BY <1>1, NotRoomy
<1>4. e \in Errors \union {"none"} /\ e # "none"  BY DEF Errors
<1>5. ResultIsGood'  BY <1>2, <1>3, <1>4, CompressedIsGood
<1> QED BY <1>1, <1>2, <1>5, CallEnds, FrameStaysGood

\* What a step that leaves a compression at its place does not change.
Unmoved ==
  /\ params' = params /\ superblock_size' = superblock_size
  /\ call'.op = "compress" /\ call'.cap = call.cap /\ call'.src = call.src
  /\ call'.chunks = call.chunks
  /\ call'.frame.header = call.frame.header /\ call'.frame.shift = call.frame.shift
  /\ call'.frame.superblock = call.frame.superblock
  /\ call'.frame.bytesoftype = call.frame.bytesoftype
  /\ call'.frame.total = call.frame.total /\ call'.frame.size = call.frame.size

LEMMA PlanStays ==
  ASSUME CompressPlan, Unmoved, call'.phase # "ensure"
  PROVE  /\ CompressPlan' /\ Count' = Count /\ ChunkSize' = ChunkSize /\ Roomy' = Roomy
         /\ RawMemcpy' = RawMemcpy
         /\ \A k : From(k)' = From(k) /\ Length(k)' = Length(k)
PROOF
<1>1. Count' = Count /\ RawMemcpy' = RawMemcpy  BY DEF Unmoved, Count, RawMemcpy
<1>2. ChunkSize' = ChunkSize  BY <1>1 DEF ChunkSize, ThreadCount, Unmoved
<1>3. Roomy' = Roomy  BY <1>1 DEF Roomy, Unmoved
<1>4. \A k : From(k)' = From(k)  BY DEF From, Unmoved
<1>5. \A k : Length(k)' = Length(k)  BY <1>4 DEF Length, Unmoved
<1>6. CompressPlan'
  <2>1. Described(call.frame)'  BY DEF CompressPlan, Unmoved, Described
  <2> QED BY <1>1, <2>1 DEF CompressPlan, Unmoved
<1> QED BY <1>1, <1>2, <1>3, <1>4, <1>5, <1>6

\* The steps that write nothing.
LEMMA WritesNothing ==
  ASSUME IInv, StreamInv, Compression, Unmoved, ~Writing, ~Writing', call'.phase # "ensure",
         call'.frame = call.frame, call'.res_code = call.res_code,
         frame' = frame, result' = result, OutsAreGood'
  PROVE  StreamInv'
PROOF
<1>1. CompressInv /\ FrameIsGood /\ result = NoResult
  BY DEF StreamInv, Compression, NoCall
<1>2. CompressPlan' /\ Count' = Count  BY <1>1, PlanStays DEF CompressInv
<1>3. Whole(call.frame, call.src)'
  <2>1. Whole(call.frame, call.src)  BY <1>1 DEF CompressInv
  <2> QED BY <2>1 DEF Unmoved
<1>4. call.res_code = "none"  BY <1>1 DEF CompressInv, Writing
<1>5. CompressInv'
  BY <1>1, <1>2, <1>3, <1>4 DEF CompressInv, Unmoved
<1>6. FrameIsGood' /\ ResultIsGood'  BY <1>1, FrameStaysGood, NoResultIsGood
<1> QED BY <1>1, <1>5, <1>6 DEF StreamInv, Unmoved

\* The frame without the superblocks of the chunk.
LEMMA BaseFields ==
  ASSUME NEW f, FrameFields(f), NEW base
  PROVE  LET g == [f EXCEPT !.blocks = base]
         IN  /\ FrameFields(g) /\ g.blocks = base /\ g.size = f.size /\ g.header = f.header
             /\ g.superblock = f.superblock /\ g.total = f.total
PROOF
<1>1. PICK s, h, sh, sb, b, t, bl :
        f = [size |-> s, header |-> h, shift |-> sh, superblock |-> sb, bytesoftype |-> b,
             total |-> t, blocks |-> bl]
  BY DEF FrameFields
<1> DEFINE g == [f EXCEPT !.blocks = base]
<1>2. g = [size |-> s, header |-> h, shift |-> sh, superblock |-> sb, bytesoftype |-> b,
           total |-> t, blocks |-> base]
  BY <1>1
<1>3. /\ g.blocks = base /\ g.size = f.size /\ g.header = f.header
      /\ g.superblock = f.superblock /\ g.total = f.total
  BY <1>1
<1> HIDE DEF g
<1>4. FrameFields(g)  BY <1>2 DEF FrameFields
<1> QED BY <1>3, <1>4 DEF g

LEMMA SizeIsNat ==
  ASSUME Compression, CompressInv
  PROVE  call.frame.size \in Nat
PROOF
<1>1. CASE ~Writing  BY <1>1 DEF CompressInv, Whole
<1>2. CASE Writing
  <2>1. PICK base : FrameSoFar(base)  BY <1>2 DEF CompressInv
  <2> DEFINE g == [call.frame EXCEPT !.blocks = base]
  <2>2. g.size \in Nat  BY <2>1 DEF FrameSoFar, Whole
  <2>3. FrameFields(call.frame)  BY DEF Compression, FrameOK, FrameFields
  <2>4. g.size = call.frame.size  BY <2>3, BaseFields
  <2> QED BY <2>2, <2>4
<1> QED BY <1>1, <1>2

\* n superblocks were added, and fit: the call goes on, or returns the frame.
LEMMA AdvanceKeeps ==
  ASSUME IInv, StreamInv, Compression, params' = params, superblock_size' = superblock_size,
         NEW n \in 1..call.chunks, NEW phase \in {"one", "fork"},
         NEW new, Advance(new, n, phase),
         new.header = call.frame.header, new.shift = call.frame.shift,
         new.superblock = call.frame.superblock, new.bytesoftype = call.frame.bytesoftype,
         new.total = call.frame.total,
         Whole(new, From(n) + Length(n)), new.size <= call.cap,
         new.size + call.src <= call.frame.size + 4 * n + (From(n) + Length(n)),
         \A b \in new.blocks : b.at + 4 + b.csize <= call.cap,
         call.res_code = "none"
  PROVE  StreamInv'
PROOF
<1>1. CompressInv /\ FrameIsGood /\ result = NoResult /\ call.op = "compress"
  BY DEF StreamInv, Compression, NoCall
<1>2. CompressPlan  BY <1>1 DEF CompressInv
<1>3. /\ call.chunks \in Nat \ {0} /\ call.src \in Nat /\ superblock_size \in Nat \ {0}
      /\ call.frame.total \in Nat /\ Count \in Nat /\ call.frame.header \in {8, 12}
  BY <1>2, ChunkSizes
<1>4. Described(new)  BY <1>2 DEF CompressPlan, Described
<1>5. CASE call.chunks = n
  <2>1. frame' = new /\ call' = NoCall
        /\ result' = Returned("compress", "none", call.cap, new.total)
    BY <1>5 DEF Advance, Finish
  <2>2. From(n) + Length(n) = new.total  BY <1>2, <1>5, PiecesFollow
  <2>3. Whole(new, new.total)  BY <2>2
  <2>4. FrameIsGood'  BY <1>4, <2>1, <2>3 DEF FrameIsGood, Described, Whole, Placed, Follows
  <2>5. ResultIsGood'  BY <2>1, CompressedIsGood
  <2> QED BY <2>1, <2>4, <2>5, CallEnds
<1>6. CASE call.chunks # n
  <2>1. /\ call' = [call EXCEPT !.phase = phase, !.frame = new, !.chunks = @ - n,
                                !.src = @ + n * superblock_size, !.outs = <<>>]
        /\ frame' = frame /\ result' = result
    BY <1>6 DEF Advance
  <2>2. PICK p, c, f, s, t, o, m, r :
          call = [op |-> "compress", phase |-> p, cap |-> c, frame |-> f, src |-> s, tasks |-> t,
                  outs |-> o, chunks |-> m, res_code |-> r]
    BY DEF Compression
  <2>3. /\ call'.op = "compress" /\ call'.phase = phase /\ call'.frame = new
        /\ call'.src = call.src + n * superblock_size /\ call'.chunks = call.chunks - n
        /\ call'.cap = call.cap /\ call'.res_code = call.res_code
    BY <2>1, <2>2
  <2>4. From(n) + Length(n) = call.src + n * superblock_size  BY <1>2, <1>6, PiecesFollow
  <2>5. Count' = Count  BY <2>3 DEF Count
  <2> DEFINE x == n * superblock_size
             y == (call.chunks - n - 1) * superblock_size
             z == (call.chunks - n) * superblock_size
             v == (call.chunks - 1) * superblock_size
             w == call.chunks * superblock_size
  <2>6. x \in Nat /\ v = x + y /\ w = x + z /\ y \in Int /\ z \in Int
    <3>1. n \in Nat /\ call.chunks - n - 1 \in Int /\ call.chunks - n \in Int
          /\ superblock_size \in Nat
      BY <1>3
    <3>2. /\ (n + (call.chunks - n - 1)) * superblock_size = x + y
          /\ (n + (call.chunks - n)) * superblock_size = x + z
          /\ y \in Int /\ z \in Int
      BY <3>1, Distributes
    <3>3. n + (call.chunks - n - 1) = call.chunks - 1 /\ n + (call.chunks - n) = call.chunks
      BY <1>3
    <3>4. x \in Nat  BY <3>1, ProductOfNaturals
    <3> QED BY <3>2, <3>3, <3>4
  <2>7. call.src + v < call.frame.total /\ call.frame.total <= call.src + w
    BY <1>2 DEF CompressPlan
  <2>8. call'.src = call.src + x /\ (call'.chunks - 1) * superblock_size' = y
        /\ call'.chunks * superblock_size' = z
    BY <2>3
  <2>9. From(n) + Length(n) = call'.src /\ call'.src = call.src + x  BY <2>3, <2>4
  <2> HIDE DEF x, y, z, v, w
  <2>10. call'.src + y < new.total /\ new.total <= call'.src + z
    BY <1>3, <2>6, <2>7, <2>8
  <2>11. CompressPlan'
    <3>1. Described(call.frame)'  BY <1>4, <2>3 DEF Described
    <3> QED BY <1>2, <2>3, <2>8, <2>10, <3>1 DEF CompressPlan
  <2>12. Whole(call.frame, call.src)'  BY <2>3, <2>9
  <2>13. new.size + 4 * (call.chunks - n) <= call.frame.header + 4 * Count + call'.src
    <3>1. call.frame.size + 4 * call.chunks <= call.frame.header + 4 * Count + call.src
      BY <1>1 DEF CompressInv
    <3>2. new.size + call.src <= call.frame.size + 4 * n + call'.src  BY <2>9
    <3>3. new.size \in Nat  BY DEF Whole
    <3>4. call.frame.size \in Nat  BY <1>1, SizeIsNat
    <3> QED BY <1>3, <2>6, <2>9, <3>1, <3>2, <3>3, <3>4
  <2>14. OutsAreGood' /\ ~Writing'  BY <2>3 DEF OutsAreGood, Writing
  <2>15. CompressInv'
    BY <2>3, <2>5, <2>11, <2>12, <2>13, <2>14 DEF CompressInv
  <2>16. FrameIsGood' /\ ResultIsGood'  BY <1>1, <2>1, FrameStaysGood, NoResultIsGood
  <2> QED BY <1>1, <2>1, <2>3, <2>15, <2>16 DEF StreamInv
<1> QED BY <1>5, <1>6

\* What is known of a call that compresses.
LEMMA Compresses ==
  ASSUME IInv, StreamInv, call.op = "compress"
  PROVE  Compression /\ CompressInv /\ CompressPlan /\ FrameIsGood /\ result = NoResult
PROOF
<1>1. call # NoCall  BY DEF NoCall
<1> QED BY <1>1, WhichCall DEF StreamInv, CompressInv

\* The size of a plain copy counts the input, or less.
LEMMA RawSizeFits ==
  ASSUME IInv, Compression, CompressPlan
  PROVE  RawSize \in Int /\ RawSize <= 4 * Count + call.frame.total
PROOF
<1> DEFINE t == call.frame.total
           q == t \div superblock_size
           r == t % superblock_size
           x == (Count - 1) * superblock_size
           y == q * superblock_size
<1>1. superblock_size \in Nat \ {0} /\ t \in Nat /\ Count \in Nat \ {0}  BY ChunkSizes
<1>2. q \in Nat /\ r \in 0..(superblock_size - 1) /\ t = superblock_size * q + r
  BY <1>1, DivMod
<1>3. superblock_size * q = y /\ y \in Nat  BY <1>1, <1>2
<1>4. Count = q + (IF r = 0 THEN 0 ELSE 1)  BY DEF Count, Pieces
<1>5. RawSize = 4 * Count + x + r  BY DEF RawSize
<1>6. x \in Int /\ x <= y
  <2>1. CASE r # 0
    <3>1. Count - 1 = q  BY <1>2, <1>4, <2>1
    <3> QED BY <1>3, <3>1
  <2>2. CASE r = 0
    <3>1. Count = q  BY <1>2, <1>4, <2>2
    <3>2. q - 1 \in Nat /\ q - 1 <= q
      <4>1. q \in Nat \ {0}  BY <1>1, <3>1
      <4> HIDE DEF q
      <4> QED BY <4>1
    <3>3. superblock_size * (q - 1) <= superblock_size * q  BY <1>1, <1>2, <3>2, MultMonotone
    <3>4. superblock_size * (q - 1) = (q - 1) * superblock_size  BY <1>1, <3>2
    <3>5. (q - 1) * superblock_size \in Nat  BY <1>1, <3>2, ProductOfNaturals
    <3>6. x = (q - 1) * superblock_size  BY <3>1
    <3> QED BY <1>3, <3>3, <3>4, <3>5, <3>6
  <2> QED BY <2>1, <2>2
<1>7. t = y + r  BY <1>2, <1>3
<1> HIDE DEF t, q, r, x, y
<1>8. r \in Nat  BY <1>1, <1>2
<1> QED BY <1>1, <1>3, <1>5, <1>6, <1>7, <1>8 DEF t

LEMMA CompressEnsureKeeps ==
  ASSUME IInv, StreamInv, CompressEnsure
  PROVE  StreamInv'
PROOF
<1>1. /\ Compression /\ CompressInv /\ CompressPlan /\ call.phase = "ensure"
      /\ call.op = "compress"
  BY Compresses DEF CompressEnsure, Compressing
<1>2. params' = params /\ superblock_size' = superblock_size  BY DEF CompressEnsure
<1>3. PICK p, c, f, s, t, o, m, r :
        call = [op |-> "compress", phase |-> p, cap |-> c, frame |-> f, src |-> s, tasks |-> t,
                outs |-> o, chunks |-> m, res_code |-> r]
  BY <1>1 DEF Compression
<1>4. ASSUME NEW phase \in {"one", "fork"}, call' = [call EXCEPT !.phase = phase],
             frame' = frame, result' = result
      PROVE  StreamInv'
  <2>1. /\ call'.op = "compress" /\ call'.phase = phase /\ call'.cap = call.cap
        /\ call'.frame = call.frame /\ call'.src = call.src /\ call'.chunks = call.chunks
        /\ call'.res_code = call.res_code
    BY <1>3, <1>4
  <2>2. Unmoved  BY <1>2, <2>1 DEF Unmoved
  <2>3. ~Writing /\ ~Writing' /\ OutsAreGood' /\ call'.phase # "ensure"
    BY <1>1, <2>1 DEF Writing, OutsAreGood
  <2> QED BY <1>1, <1>4, <2>1, <2>2, <2>3, WritesNothing
<1>5. CASE ~Mono /\ RawMemcpy
  <2>1. CASE call.frame.size + RawSize > call.cap /\ CompressFails("dst_overflow")
    <3>1. /\ call.frame.size + 4 * call.chunks <= call.frame.header + 4 * Count + call.src
          /\ call.src = 0 /\ call.chunks = Count
      BY <1>1 DEF CompressInv, CompressPlan
    <3>2. call.frame.size \in Nat /\ call.cap \in Nat  BY <1>1, SizeIsNat DEF CompressPlan
    <3>3. call.frame.header \in {8, 12} /\ Count \in Nat /\ call.frame.total \in Nat
      BY <1>1, ChunkSizes
    <3>4. RawSize \in Int /\ RawSize <= 4 * Count + call.frame.total  BY <1>1, RawSizeFits
    <3>5. ~Roomy  BY <2>1, <3>1, <3>2, <3>3, <3>4 DEF Roomy
    <3> QED BY <1>1, <1>2, <2>1, <3>5, FailureIsGood
  <2>2. CASE call' = [call EXCEPT !.phase = "fork"] /\ UNCHANGED <<frame, result>>
    BY <1>4, <2>2
  <2> QED BY <1>5, <2>1, <2>2 DEF CompressEnsure
<1>6. CASE call' = [call EXCEPT !.phase = IF Mono THEN "one" ELSE "fork"]
           /\ UNCHANGED <<frame, result>>
  <2> DEFINE phase == IF Mono THEN "one" ELSE "fork"
  <2>1. phase \in {"one", "fork"} /\ call' = [call EXCEPT !.phase = phase]  BY <1>6
  <2> HIDE DEF phase
  <2> QED BY <1>4, <1>6, <2>1
<1>7. CASE CompressFails("alloc")  BY <1>1, <1>2, <1>7, FailureIsGood
<1> QED BY <1>5, <1>6, <1>7 DEF CompressEnsure

LEMMA LongerFields ==
  ASSUME NEW bs, NEW size, FrameFields(call.frame)
  PROVE  LET g == Longer(bs, size)
         IN  /\ g.header = call.frame.header /\ g.shift = call.frame.shift
             /\ g.superblock = call.frame.superblock /\ g.bytesoftype = call.frame.bytesoftype
             /\ g.total = call.frame.total /\ g.blocks = call.frame.blocks \union bs
             /\ g.size = call.frame.size + size
PROOF
<1>1. PICK s, h, sh, sb, b, t, bl :
        call.frame = [size |-> s, header |-> h, shift |-> sh, superblock |-> sb,
                      bytesoftype |-> b, total |-> t, blocks |-> bl]
  BY DEF FrameFields
<1> DEFINE more == call.frame.blocks \union bs
           z == call.frame.size + size
           g == [call.frame EXCEPT !.blocks = more, !.size = z]
<1>2. Longer(bs, size) = g  BY DEF Longer
<1> HIDE DEF more, z
<1>3. /\ g.header = call.frame.header /\ g.shift = call.frame.shift
      /\ g.superblock = call.frame.superblock /\ g.bytesoftype = call.frame.bytesoftype
      /\ g.total = call.frame.total /\ g.blocks = more /\ g.size = z
  BY <1>1
<1> HIDE DEF g
<1> QED BY <1>2, <1>3 DEF more, z

\* The superblock that the single-threaded loop adds.
LEMMA CompressOneKeeps ==
  ASSUME IInv, StreamInv, CompressOne
  PROVE  StreamInv'
PROOF
<1>1. /\ Compression /\ CompressInv /\ CompressPlan /\ call.phase = "one"
      /\ call.op = "compress"
  BY Compresses DEF CompressOne, Compressing
<1>2. params' = params /\ superblock_size' = superblock_size  BY DEF CompressOne
<1>3. PICK r \in SuperblockResults(1, call.frame.bytesoftype, Length(1), call.cap - call.frame.size) :
        IF r.out.error # "none"
        THEN CompressFails(r.out.error)
        ELSE Advance(Longer({BlockAt(call.frame.size, r.out, 1)}, 4 + r.out.csize), 1, "one")
  BY DEF CompressOne
<1>4. /\ call.chunks \in Nat \ {0} /\ call.src \in Nat /\ superblock_size \in Nat \ {0}
      /\ call.frame.total \in Nat /\ Count \in Nat \ {0} /\ call.frame.header \in {8, 12}
      /\ FrameFields(call.frame) /\ 1 \in 1..call.chunks
  BY <1>1, ChunkSizes
<1>5. call.frame.size \in Nat /\ call.cap \in Nat  BY <1>1, SizeIsNat DEF CompressPlan
<1>6. /\ From(1) = call.src /\ Length(1) \in Nat \ {0} /\ Length(1) <= superblock_size
      /\ Length(1) = superblock_size \/ From(1) + Length(1) = call.frame.total
      /\ From(1) + Length(1) <= call.frame.total
  BY <1>1, <1>4, PiecesFollow
<1>7. /\ r.out.error = "none" => GoodOut(r.out, Length(1))
                                 /\ r.out.csize + 4 <= call.cap - call.frame.size
      /\ r.out.error # "none" => r.out.error = "dst_overflow"
                                 /\ ~(Length(1) + 4 <= call.cap - call.frame.size)
  BY <1>3, <1>5, <1>6, ResultsFit
<1>8. /\ Whole(call.frame, call.src) /\ call.res_code = "none"
      /\ call.frame.size + 4 * call.chunks <= call.frame.header + 4 * Count + call.src
      /\ \A b \in call.frame.blocks : b.at + 4 + b.csize <= call.cap
      /\ call.frame.superblock = superblock_size
  BY <1>1 DEF CompressInv, CompressPlan, Writing
<1>9. CASE r.out.error # "none"
  <2>1. CompressFails("dst_overflow")  BY <1>3, <1>7, <1>9
  <2>2. ~Roomy  BY <1>4, <1>5, <1>6, <1>7, <1>8, <1>9 DEF Roomy
  <2> QED BY <1>1, <1>2, <2>1, <2>2, FailureIsGood
<1>10. CASE r.out.error = "none"
  <2> DEFINE b == BlockAt(call.frame.size, r.out, 1)
             new == Longer({b}, 4 + r.out.csize)
  <2>1. Advance(new, 1, "one")  BY <1>3, <1>10
  <2>2. OutFits(r.out, Length(1)) /\ r.out.csize + 4 <= call.cap - call.frame.size
    BY <1>7, <1>10 DEF GoodOut
  <2>3. /\ b.at = call.frame.size /\ b.csize = r.out.csize /\ b.from = call.src
        /\ b.len = Length(1) /\ b.code = r.out.code
    BY <1>6 DEF BlockAt
  <2> HIDE DEF b
  <2>4. /\ new.header = call.frame.header /\ new.shift = call.frame.shift
        /\ new.superblock = call.frame.superblock /\ new.bytesoftype = call.frame.bytesoftype
        /\ new.total = call.frame.total /\ new.blocks = call.frame.blocks \union {b}
        /\ new.size = call.frame.size + (4 + r.out.csize)
    BY <1>4, LongerFields
  <2> HIDE DEF new
  <2>5. BlockOK(b) /\ r.out.csize \in Nat /\ r.out.csize <= Length(1)
    BY <1>4, <1>5, <1>6, <2>2, <2>3 DEF BlockOK, OutFits
  <2>6. new.size = b.at + 4 + b.csize  BY <1>5, <2>3, <2>4, <2>5
  <2>7. Whole(new, call.src + b.len)
    BY <1>4, <1>6, <1>8, <2>3, <2>4, <2>5, <2>6, WholeAndOneMore
  <2>8. Whole(new, From(1) + Length(1))  BY <1>6, <2>3, <2>7
  <2>9. new.size <= call.cap /\ \A x \in new.blocks : x.at + 4 + x.csize <= call.cap
    BY <1>5, <1>8, <2>2, <2>3, <2>4, <2>5, <2>6
  <2>10. new.size + call.src <= call.frame.size + 4 * 1 + (From(1) + Length(1))
    BY <1>4, <1>5, <1>6, <2>4, <2>5
  <2> QED BY <1>1, <1>2, <1>4, <1>8, <2>1, <2>4, <2>8, <2>9, <2>10, AdvanceKeeps
<1> QED BY <1>9, <1>10

-----------------------------------------------------------------------------
(* The chunked loop of a compression *)

\* What a frame holds is said by its sizes and its superblocks.
LEMMA WholeDepends ==
  ASSUME NEW f, NEW upto, Whole(f, upto), NEW g, g.header = f.header, g.size = f.size,
         g.blocks = f.blocks, g.superblock = f.superblock, g.total = f.total
  PROVE  Whole(g, upto)
PROOF
<1>1. ASSUME NEW b \in g.blocks PROVE Placed(g, upto, b)
  <2>1. Placed(f, upto, b)  BY DEF Whole
  <2>2. Follows(g, b)  BY <2>1 DEF Placed, Follows
  <2> QED BY <2>1, <2>2 DEF Placed
<1> QED BY <1>1 DEF Whole

\* The tasks of a chunk begin to write.
LEMMA StartsWriting ==
  ASSUME IInv, StreamInv, Compression, Unmoved, ~Writing, Writing', call'.phase # "ensure",
         call'.tasks = 1..ChunkSize, call'.frame = call.frame, call'.res_code = call.res_code,
         frame' = frame, result' = result, OutsAreGood'
  PROVE  StreamInv'
PROOF
<1>1. CompressInv /\ FrameIsGood /\ result = NoResult /\ CompressPlan
  BY DEF StreamInv, Compression, NoCall, CompressInv
<1>2. CompressPlan' /\ Count' = Count /\ ChunkSize' = ChunkSize  BY <1>1, PlanStays
<1>3. call.res_code = "none" /\ Whole(call.frame, call.src)  BY <1>1 DEF CompressInv, Writing
<1> DEFINE base == call.frame.blocks
           f == [call.frame EXCEPT !.blocks = base]
<1>4. FrameSoFar(base)'
  <2>1. FrameFields(call.frame)  BY DEF Compression, FrameOK, FrameFields
  <2>2. /\ f.blocks = base /\ f.size = call.frame.size /\ f.header = call.frame.header
        /\ f.superblock = call.frame.superblock /\ f.total = call.frame.total
    BY <2>1, BaseFields
  <2> HIDE DEF f
  <2>3. Whole(f, call.src)  BY <1>3, <2>2, WholeDepends
  <2>4. Whole([call'.frame EXCEPT !.blocks = base], call'.src)  BY <2>3 DEF f, Unmoved
  <2>5. (1..ChunkSize') \ call'.tasks = {}  BY <1>2
  <2>6. base' = base  OBVIOUS
  <2> HIDE DEF base
  <2>7. \A m : m = base => FrameSoFar(m)'
    <3> SUFFICES ASSUME NEW m, m = base PROVE FrameSoFar(m)'  OBVIOUS
    <3>1. call'.frame.blocks = m  BY DEF base
    <3> QED BY <2>4, <2>5, <3>1 DEF FrameSoFar
  <2> QED BY <2>6, <2>7
<1>5. CompressInv'
  <2>1. \E m : FrameSoFar(m)'
    <3>1. base' = base  OBVIOUS
    <3> HIDE DEF base
    <3> QED BY <1>4, <3>1
  <2> QED BY <1>1, <1>2, <1>3, <2>1 DEF CompressInv, Unmoved
<1>6. FrameIsGood' /\ ResultIsGood'  BY <1>1, FrameStaysGood, NoResultIsGood
<1> QED BY <1>1, <1>5, <1>6 DEF StreamInv, Unmoved

LEMMA ForkChunkKeeps ==
  ASSUME IInv, StreamInv, ForkChunk
  PROVE  StreamInv'
PROOF
<1>1. /\ Compression /\ CompressInv /\ CompressPlan /\ call.phase = "fork"
      /\ call.op = "compress" /\ params' = params /\ superblock_size' = superblock_size
      /\ frame' = frame /\ result' = result
  BY Compresses DEF ForkChunk, Compressing, context
<1>2. PICK p, c, f, s, t, o, m, r :
        call = [op |-> "compress", phase |-> p, cap |-> c, frame |-> f, src |-> s, tasks |-> t,
                outs |-> o, chunks |-> m, res_code |-> r]
  BY <1>1 DEF Compression
<1> DEFINE tasks == 1..ChunkSize
           outs == [k \in tasks |-> 0]
<1>3. call' = [call EXCEPT !.phase = "tasks", !.tasks = tasks, !.outs = outs]
  BY DEF ForkChunk
<1> HIDE DEF outs, tasks
<1>4. /\ call'.op = "compress" /\ call'.phase = "tasks" /\ call'.cap = call.cap
      /\ call'.frame = call.frame /\ call'.src = call.src /\ call'.chunks = call.chunks
      /\ call'.res_code = call.res_code /\ call'.tasks = tasks
  BY <1>2, <1>3
<1>5. Unmoved  BY <1>1, <1>4 DEF Unmoved
<1>6. ChunkSize' = ChunkSize /\ RawMemcpy' = RawMemcpy  BY <1>1, <1>4, <1>5, PlanStays
<1>7. (1..ChunkSize') \ call'.tasks = {} /\ call'.tasks = 1..ChunkSize  BY <1>4, <1>6 DEF tasks
<1>8. OutsAreGood'  BY <1>4, <1>7 DEF OutsAreGood
<1>9. ~Writing  BY <1>1 DEF Writing
<1>10. CASE RawMemcpy
  <2>1. Writing'  BY <1>4, <1>6, <1>10 DEF Writing
  <2> QED BY <1>1, <1>4, <1>5, <1>7, <1>8, <1>9, <2>1, StartsWriting
<1>11. CASE ~RawMemcpy
  <2>1. ~Writing'  BY <1>4, <1>6, <1>11 DEF Writing
  <2> QED BY <1>1, <1>4, <1>5, <1>8, <1>9, <2>1, WritesNothing
<1> QED BY <1>10, <1>11

\* A task that compresses never runs out of room: its buffer takes a superblock
\* and its header.
LEMMA CompressTaskKeeps ==
  ASSUME IInv, StreamInv, NEW k \in 1..Len(thread_buffers), CompressTask(k)
  PROVE  StreamInv'
PROOF
<1>1. /\ Compression /\ CompressInv /\ CompressPlan /\ call.phase = "tasks" /\ ~RawMemcpy
      /\ call.op = "compress" /\ k \in call.tasks /\ OutsAreGood
  BY Compresses DEF CompressTask, Compressing, CompressInv
<1>2. /\ params' = params /\ superblock_size' = superblock_size /\ frame' = frame
      /\ result' = result
  BY DEF CompressTask
<1>3. k \in 1..ChunkSize  BY <1>1, TaskFacts
<1>4. k \in 1..call.chunks /\ superblock_size \in Nat  BY <1>1, <1>3, ChunkSizes
<1>5. Length(k) \in Nat \ {0} /\ Length(k) <= superblock_size  BY <1>1, <1>4, PiecesFollow
<1>6. PICK buffer \in Made(thread_buffers[k]) :
        /\ thread_buffers' = [thread_buffers EXCEPT ![k] = buffer]
        /\ \/ buffer = 0 /\ call' = [call EXCEPT !.tasks = @ \ {k}]
           \/ \E r \in SuperblockResults(k, call.frame.bytesoftype, Length(k), superblock_size + 4) :
                call' = [call EXCEPT !.tasks = @ \ {k}, !.outs[k] = r.out]
  BY DEF CompressTask
<1>7. PICK S : call.outs \in [1..ChunkSize -> S]
  BY <1>1 DEF Compression, TasksLeaveOutcomes
<1>8. PICK p, c, f0, s, t, o0, m, r0 :
        call = [op |-> "compress", phase |-> p, cap |-> c, frame |-> f0, src |-> s, tasks |-> t,
                outs |-> o0, chunks |-> m, res_code |-> r0]
  BY <1>1 DEF Compression
<1>9. PICK o :
        /\ call' = [call EXCEPT !.tasks = call.tasks \ {k}, !.outs = o]
        /\ NoBuffer(k)' \/ GoodOut(o[k], Length(k))
        /\ \A j \in (1..ChunkSize) \ {k} : o[j] = call.outs[j]
  <2>1. CASE buffer = 0 /\ call' = [call EXCEPT !.tasks = @ \ {k}]
    <3>1. call' = [call EXCEPT !.tasks = call.tasks \ {k}, !.outs = call.outs]
      BY <1>8, <2>1
    <3>2. NoBuffer(k)'
      <4>1. k \in DOMAIN thread_buffers  BY DEF IInv, ContextOK, BufferVectors
      <4> QED BY <1>6, <2>1, <4>1 DEF NoBuffer
    <3> QED BY <3>1, <3>2
  <2>2. CASE \E r \in SuperblockResults(k, call.frame.bytesoftype, Length(k), superblock_size + 4) :
               call' = [call EXCEPT !.tasks = @ \ {k}, !.outs[k] = r.out]
    <3>1. PICK r \in SuperblockResults(k, call.frame.bytesoftype, Length(k), superblock_size + 4) :
            call' = [call EXCEPT !.tasks = @ \ {k}, !.outs[k] = r.out]
      BY <2>2
    <3>2. superblock_size + 4 \in Int /\ Length(k) + 4 <= superblock_size + 4  BY <1>4, <1>5
    <3>3. GoodOut(r.out, Length(k))  BY <1>5, <3>2, ResultsFit
    <3> DEFINE o == [call.outs EXCEPT ![k] = r.out]
    <3>4. call' = [call EXCEPT !.tasks = call.tasks \ {k}, !.outs = o]  BY <1>8, <3>1
    <3>5. o[k] = r.out /\ \A j \in (1..ChunkSize) \ {k} : o[j] = call.outs[j]  BY <1>3, <1>7
    <3> HIDE DEF o
    <3> QED BY <3>3, <3>4, <3>5
  <2> QED BY <1>6, <2>1, <2>2
<1>10. /\ call'.op = "compress" /\ call'.phase = "tasks" /\ call'.cap = call.cap
       /\ call'.frame = call.frame /\ call'.src = call.src /\ call'.chunks = call.chunks
       /\ call'.res_code = call.res_code /\ call'.tasks = call.tasks \ {k} /\ call'.outs = o
  BY <1>1, <1>8, <1>9
<1>11. Unmoved  BY <1>2, <1>10 DEF Unmoved
<1>12. /\ ChunkSize' = ChunkSize /\ RawMemcpy' = RawMemcpy
       /\ \A j : Length(j)' = Length(j)
  BY <1>1, <1>10, <1>11, PlanStays
<1>13. OutsAreGood'
  <2>1. ASSUME NEW j \in (1..ChunkSize) \ call'.tasks
        PROVE  NoBuffer(j)' \/ GoodOut(o[j], Length(j))
    <3>1. CASE j = k  BY <1>9, <3>1
    <3>2. CASE j # k
      <4>1. j \in (1..ChunkSize) \ call.tasks  BY <1>10, <3>2
      <4>2. NoBuffer(j) \/ GoodOut(call.outs[j], Length(j))  BY <1>1, <4>1 DEF OutsAreGood
      <4>3. NoBuffer(j) => NoBuffer(j)'  BY <1>6, <3>2 DEF NoBuffer
      <4> QED BY <1>9, <3>2, <4>2, <4>3
    <3> QED BY <3>1, <3>2
  <2>2. \A j \in (1..ChunkSize') \ call'.tasks :
          NoBuffer(j)' \/ GoodOut(call'.outs[j], Length(j)')
    BY <1>10, <1>12, <2>1
  <2> QED BY <1>10, <2>2 DEF OutsAreGood, GoodOut, OutFits
<1>14. ~Writing /\ ~Writing'  BY <1>1, <1>10, <1>12 DEF Writing
<1> QED BY <1>1, <1>2, <1>10, <1>11, <1>13, <1>14, WritesNothing

\* The wait ends: a task had no memory, or every superblock is copied.
LEMMA JoinChunkKeeps ==
  ASSUME IInv, StreamInv, JoinChunk
  PROVE  StreamInv'
PROOF
<1>1. /\ Compression /\ CompressInv /\ CompressPlan /\ call.phase = "tasks" /\ ~RawMemcpy
      /\ call.op = "compress" /\ call.tasks = {} /\ OutsAreGood
      /\ params' = params /\ superblock_size' = superblock_size
  BY Compresses DEF JoinChunk, Compressing, CompressInv, ChunkDone, context
<1> DEFINE failed == {k \in 1..ChunkSize : thread_buffers[k] = 0 \/ call.outs[k].error # "none"}
           first == CHOOSE k \in failed : \A j \in failed : k <= j
<1>2. IF failed # {}
      THEN CompressFails(IF thread_buffers[first] = 0 THEN "alloc" ELSE "dst_overflow")
      ELSE /\ call' = [call EXCEPT !.phase = "copy", !.tasks = 1..ChunkSize]
           /\ UNCHANGED <<frame, result>>
  BY DEF JoinChunk
<1>3. \A k \in 1..ChunkSize : NoBuffer(k) \/ GoodOut(call.outs[k], Length(k))
  BY <1>1 DEF OutsAreGood
<1>4. CASE failed # {}
  <2>1. \E k \in failed : \A j \in failed : k <= j
    <3>1. failed \in SUBSET Nat  OBVIOUS
    <3> HIDE DEF failed
    <3> QED BY <1>4, <3>1, LeastElement
  <2>2. first \in failed
    <3> HIDE DEF failed
    <3> QED BY <2>1
  <2> HIDE DEF first
  <2>3. thread_buffers[first] = 0
    <3>1. first \in 1..ChunkSize /\ (thread_buffers[first] = 0 \/ call.outs[first].error # "none")
      BY <2>2
    <3> QED BY <1>3, <3>1 DEF NoBuffer, GoodOut
  <2>4. CompressFails("alloc")  BY <1>2, <1>4, <2>3
  <2> QED BY <1>1, <2>4, FailureIsGood
<1>5. CASE failed = {}
  <2> DEFINE tasks == 1..ChunkSize
  <2>1. /\ call' = [call EXCEPT !.phase = "copy", !.tasks = tasks]
        /\ frame' = frame /\ result' = result
    BY <1>2, <1>5
  <2>2. \A k \in 1..ChunkSize : GoodOut(call.outs[k], Length(k))
    <3>1. \A k \in 1..ChunkSize : thread_buffers[k] # 0  BY <1>5
    <3> QED BY <1>3, <3>1 DEF NoBuffer
  <2>3. PICK p, c, f, s, t, o, m, r :
          call = [op |-> "compress", phase |-> p, cap |-> c, frame |-> f, src |-> s, tasks |-> t,
                  outs |-> o, chunks |-> m, res_code |-> r]
    BY <1>1 DEF Compression
  <2> HIDE DEF tasks
  <2>4. /\ call'.op = "compress" /\ call'.phase = "copy" /\ call'.cap = call.cap
        /\ call'.frame = call.frame /\ call'.src = call.src /\ call'.chunks = call.chunks
        /\ call'.res_code = call.res_code /\ call'.tasks = tasks /\ call'.outs = call.outs
    BY <2>1, <2>3
  <2>5. Unmoved  BY <1>1, <2>4 DEF Unmoved
  <2>6. /\ ChunkSize' = ChunkSize /\ RawMemcpy' = RawMemcpy
        /\ \A j : Length(j)' = Length(j)
    BY <1>1, <2>4, <2>5, PlanStays
  <2>7. OutsAreGood'
    <3>1. \A k \in 1..ChunkSize' : GoodOut(call'.outs[k], Length(k)')  BY <2>2, <2>4, <2>6
    <3> QED BY <1>1, <2>4, <2>6, <3>1 DEF OutsAreGood, GoodOut, OutFits
  <2>8. ~Writing /\ Writing'  BY <1>1, <2>4 DEF Writing
  <2>9. call'.tasks = 1..ChunkSize  BY <2>4 DEF tasks
  <2> QED BY <1>1, <2>1, <2>4, <2>5, <2>7, <2>8, <2>9, StartsWriting
<1> QED BY <1>4, <1>5

\* The chunk that is being written, and the frame without it.
LEMMA ChunkFacts ==
  ASSUME IInv, Compression, CompressInv, Writing
  PROVE  /\ OutsFit /\ call.frame.size \in Nat
         /\ \A base : FrameSoFar(base) =>
              LET f == [call.frame EXCEPT !.blocks = base]
              IN  /\ FrameFields(f) /\ f.blocks = base /\ f.size = call.frame.size
                  /\ f.header = call.frame.header /\ f.superblock = superblock_size
                  /\ f.total = call.frame.total /\ Whole(f, call.src)
PROOF
<1>1. CompressPlan /\ OutsAreGood  BY DEF CompressInv
<1>2. OutsFit
  <2> SUFFICES ASSUME NEW k \in 1..ChunkSize PROVE OutFits(OutOf(k), Length(k))
    BY DEF OutsFit
  <2>1. k \in 1..call.chunks  BY <1>1, ChunkSizes
  <2>2. Length(k) \in Nat \ {0}  BY <1>1, <2>1, PiecesFollow
  <2>3. CASE RawMemcpy
    <3>1. OutOf(k).code = "COPY" /\ OutOf(k).csize = Length(k)  BY <2>3 DEF OutOf
    <3>2. Length(k) \in 1..Length(k)  BY <2>2
    <3> QED BY <3>1, <3>2 DEF OutFits, Codes
  <2>4. CASE ~RawMemcpy
    <3>1. GoodOut(call.outs[k], Length(k))  BY <1>1, <2>4 DEF OutsAreGood, Writing
    <3>2. OutOf(k) = call.outs[k]  BY <2>4 DEF OutOf
    <3> QED BY <3>1, <3>2 DEF GoodOut
  <2> QED BY <2>3, <2>4
<1>3. call.frame.size \in Nat  BY SizeIsNat
<1>4. ASSUME NEW base, FrameSoFar(base)
      PROVE  LET f == [call.frame EXCEPT !.blocks = base]
             IN  /\ FrameFields(f) /\ f.blocks = base /\ f.size = call.frame.size
                 /\ f.header = call.frame.header /\ f.superblock = superblock_size
                 /\ f.total = call.frame.total /\ Whole(f, call.src)
  <2> DEFINE f == [call.frame EXCEPT !.blocks = base]
  <2>1. FrameFields(call.frame)  BY <1>1, ChunkSizes
  <2>2. Whole(f, call.src)  BY <1>4 DEF FrameSoFar
  <2>3. /\ FrameFields(f) /\ f.blocks = base /\ f.size = call.frame.size
        /\ f.header = call.frame.header /\ f.superblock = call.frame.superblock
        /\ f.total = call.frame.total
    BY <2>1, BaseFields
  <2>4. call.frame.superblock = superblock_size  BY <1>1 DEF CompressPlan
  <2> HIDE DEF f
  <2> QED BY <2>2, <2>3, <2>4 DEF f
<1> QED BY <1>2, <1>3, <1>4

\* A superblock of the chunk ends where the frame of the largest size would.
LEMMA ChunkFits ==
  ASSUME IInv, Compression, CompressInv, Writing, NEW k \in 1..ChunkSize
  PROVE  /\ Place(k) \in Nat /\ OutOf(k).csize \in 1..Length(k)
         /\ Place(k + 1) = Place(k) + 4 + OutOf(k).csize
         /\ Place(k) + 4 + OutOf(k).csize <= call.frame.header + 4 * Count + call.frame.total
PROOF
<1>1. CompressPlan /\ OutsFit /\ call.frame.size \in Nat  BY ChunkFacts DEF CompressInv
<1>2. PICK base : FrameSoFar(base)  BY DEF CompressInv
<1> DEFINE f == [call.frame EXCEPT !.blocks = base]
           g(j) == WithQueue(f, WrittenUpTo(ChunkSize), j)
<1>3. /\ FrameFields(f) /\ f.blocks = base /\ f.size = call.frame.size
      /\ f.header = call.frame.header /\ f.superblock = superblock_size
      /\ f.total = call.frame.total /\ Whole(f, call.src)
  BY <1>2, ChunkFacts
<1> HIDE DEF f
<1>4. /\ ChunkSize \in 1..call.chunks /\ call.chunks \in Nat \ {0} /\ call.src \in Nat
      /\ call.frame.total \in Nat /\ Count \in Nat \ {0} /\ call.frame.header \in {8, 12}
      /\ k \in 1..call.chunks
  BY <1>1, ChunkSizes
<1>5. /\ g(k).size + call.src <= f.size + 4 * k + (From(k) + Length(k))
      /\ g(k).size = Place(k) + 4 + OutOf(k).csize
  BY <1>1, <1>3, <1>4, ChunkIsWhole
<1> HIDE DEF g
<1>6. \A j \in 1..ChunkSize : OutOf(j).csize \in 1..Length(j) /\ Length(j) \in Nat
  <2> SUFFICES ASSUME NEW j \in 1..ChunkSize
               PROVE  OutOf(j).csize \in 1..Length(j) /\ Length(j) \in Nat
    OBVIOUS
  <2>1. j \in 1..call.chunks  BY <1>4
  <2> QED BY <1>1, <2>1, PiecesFollow DEF OutsFit, OutFits
<1>7. Place(k) \in Nat /\ Place(k + 1) = Place(k) + 4 + OutOf(k).csize
  <2>1. \A j \in 1..ChunkSize : OutOf(j).csize \in Nat  BY <1>6
  <2>2. ChunkSize \in Nat  BY <1>4
  <2> QED BY <1>1, <2>1, <2>2, PlacesFollow
<1>8. From(k) + Length(k) <= call.frame.total /\ From(k) + Length(k) \in Nat
  BY <1>1, <1>4, PiecesFollow
<1>9. call.frame.size + 4 * call.chunks <= call.frame.header + 4 * Count + call.src
  BY DEF CompressInv
<1>10. k <= call.chunks /\ k \in Nat /\ OutOf(k).csize \in Nat  BY <1>4, <1>6
<1> DEFINE e == From(k) + Length(k)
<1>11. Place(k) + 4 + OutOf(k).csize + call.src <= call.frame.size + 4 * k + e
  BY <1>3, <1>5
<1> HIDE DEF e
<1>12. e <= call.frame.total /\ e \in Nat  BY <1>8 DEF e
<1>13. Place(k) + 4 + OutOf(k).csize <= call.frame.header + 4 * Count + call.frame.total
  BY <1>1, <1>4, <1>7, <1>9, <1>10, <1>11, <1>12
<1> QED BY <1>6, <1>7, <1>13

\* Where the superblocks of the chunk go stays the same.
LEMMA PlacesStay ==
  ASSUME CompressPlan, Unmoved, call'.phase # "ensure", call'.outs = call.outs
  PROVE  \A k : /\ OutOf(k)' = OutOf(k) /\ Place(k)' = Place(k) /\ Written(k)' = Written(k)
PROOF
<1>1. RawMemcpy' = RawMemcpy /\ \A k : From(k)' = From(k) /\ Length(k)' = Length(k)
  BY PlanStays
<1>2. \A k : OutOf(k)' = OutOf(k)  BY <1>1 DEF OutOf
<1>3. ASSUME NEW k PROVE Place(k)' = Place(k)
  <2>1. [j \in 1..(k - 1) |-> (OutOf(j).csize + 4)'] = [j \in 1..(k - 1) |-> OutOf(j).csize + 4]
    BY <1>2
  <2>2. Place(k)' = call'.frame.size
                      + SumUpTo([j \in 1..(k - 1) |-> (OutOf(j).csize + 4)'], k - 1)
    BY DEF Place
  <2> QED BY <2>1, <2>2 DEF Place, Unmoved
<1>4. ASSUME NEW k PROVE Written(k)' = Written(k)
  BY <1>1, <1>2, <1>3 DEF Written, BlockAt
<1> QED BY <1>2, <1>3, <1>4

\* A task has written its superblock, or the call must fail.
LEMMA WritingGoesOn ==
  ASSUME IInv, StreamInv, Compression, Unmoved, Writing, call'.phase = call.phase,
         NEW k \in call.tasks, call'.tasks = call.tasks \ {k}, call'.outs = call.outs,
         \/ /\ call'.frame.blocks = call.frame.blocks \union {Written(k)}
            /\ Place(k) + 4 + OutOf(k).csize <= call.cap
            /\ call'.res_code = call.res_code
         \/ /\ call'.frame.blocks = call.frame.blocks /\ RawMemcpy /\ Overflows(k)
            /\ call'.res_code = call.res_code
         \/ /\ call'.frame.blocks = call.frame.blocks /\ call.phase = "copy"
            /\ call'.res_code = "dst_overflow" /\ ~Roomy,
         frame' = frame, result' = result, IInv'
  PROVE  StreamInv'
PROOF
<1>1. CompressInv /\ FrameIsGood /\ result = NoResult /\ CompressPlan /\ OutsAreGood
      /\ call.phase \in {"tasks", "copy"}
  BY DEF StreamInv, Compression, NoCall, CompressInv, Writing
<1>2. /\ CompressPlan' /\ Count' = Count /\ ChunkSize' = ChunkSize /\ Roomy' = Roomy
      /\ RawMemcpy' = RawMemcpy
      /\ \A j : From(j)' = From(j) /\ Length(j)' = Length(j)
  BY <1>1, PlanStays
<1>3. \A j : /\ OutOf(j)' = OutOf(j) /\ Place(j)' = Place(j) /\ Written(j)' = Written(j)
  BY <1>1, PlacesStay
<1>4. k \in 1..ChunkSize  BY <1>1, TaskFacts
<1>5. Writing'  BY <1>2 DEF Writing
<1>6. RawMemcpy \/ call.phase = "copy"  BY DEF Writing
<1>7. OutsAreGood'
  <2>1. CASE call.phase = "tasks"
    BY <1>2, <1>6, <2>1 DEF OutsAreGood
  <2>2. CASE call.phase = "copy"
    <3>1. ~RawMemcpy /\ \A j \in 1..ChunkSize : GoodOut(call.outs[j], Length(j))
      BY <1>1, <2>2 DEF OutsAreGood
    <3>2. \A j \in 1..ChunkSize' : GoodOut(call'.outs[j], Length(j)')  BY <1>2, <3>1
    <3> QED BY <1>2, <2>2, <3>1, <3>2 DEF OutsAreGood, GoodOut, OutFits
  <2> QED BY <1>1, <2>1, <2>2
<1>8. \A j : Overflows(j) => Overflows(j)'
  BY <1>2, <1>3, <1>6 DEF Overflows, Unmoved
<1>9. (1..ChunkSize') \ call'.tasks = ((1..ChunkSize) \ call.tasks) \union {k}
  BY <1>2, <1>4
<1>10. PICK base : FrameSoFar(base)  BY <1>1 DEF CompressInv
<1>11. Whole([call'.frame EXCEPT !.blocks = base], call'.src)
  <2> DEFINE f == [call.frame EXCEPT !.blocks = base]
             g == [call'.frame EXCEPT !.blocks = base]
  <2>1. FrameFields(call.frame) /\ FrameFields(call'.frame)
    <3>1. Compression'
      <4>1. call'.op = "compress" /\ CallOK'  BY DEF Unmoved, IInv
      <4> QED BY <4>1 DEF CallOK, NoCall, Decompression
    <3> QED BY <3>1 DEF Compression, FrameOK, FrameFields
  <2>2. Whole(f, call.src)  BY <1>10 DEF FrameSoFar
  <2>3. /\ f.blocks = base /\ f.size = call.frame.size /\ f.header = call.frame.header
        /\ f.superblock = call.frame.superblock /\ f.total = call.frame.total
    BY <2>1, BaseFields
  <2>4. /\ g.blocks = base /\ g.size = call'.frame.size /\ g.header = call'.frame.header
        /\ g.superblock = call'.frame.superblock /\ g.total = call'.frame.total
    BY <2>1, BaseFields
  <2> HIDE DEF f, g
  <2>5. Whole(g, call.src)  BY <2>2, <2>3, <2>4, WholeDepends DEF Unmoved
  <2> QED BY <2>5 DEF g, Unmoved
<1> DEFINE left == (1..ChunkSize) \ call.tasks
<1>12. /\ base \subseteq call.frame.blocks
       /\ call.frame.blocks \subseteq base \union {Written(j) : j \in left}
       /\ \A j \in left : Written(j) \in call.frame.blocks \/ Overflows(j)
  BY <1>10 DEF FrameSoFar
<1>13. /\ base \subseteq call'.frame.blocks
       /\ call'.frame.blocks \subseteq base \union {Written(j) : j \in left \union {k}}
       /\ \A j \in left \union {k} : Written(j) \in call'.frame.blocks \/ Overflows(j)'
  <2>1. call.phase = "copy" /\ call'.res_code = "dst_overflow" => Overflows(k)'
    <3>1. call.phase = "copy" => ~RawMemcpy  BY <1>1 DEF OutsAreGood
    <3> QED BY <1>2, <3>1 DEF Overflows
  <2>2. /\ call.frame.blocks \subseteq call'.frame.blocks
        /\ call'.frame.blocks \subseteq call.frame.blocks \union {Written(k)}
    OBVIOUS
  <2>3. Written(k) \in call'.frame.blocks \/ Overflows(k)'  BY <1>8, <2>1
  <2> HIDE DEF left
  <2> QED BY <1>8, <1>12, <2>2, <2>3
<1>14. FrameSoFar(base)'
  <2>1. {Written(j)' : j \in left \union {k}} = {Written(j) : j \in left \union {k}}
    BY <1>3
  <2> DEFINE new == left \union {k}
  <2>2. (1..ChunkSize') \ call'.tasks = new  BY <1>9
  <2>3. \A j \in new : Written(j)' \in call'.frame.blocks \/ Overflows(j)'  BY <1>3, <1>13
  <2>4. call'.frame.blocks \subseteq base \union {Written(j)' : j \in new}
    BY <1>13, <2>1
  <2> HIDE DEF new
  <2> QED BY <1>11, <1>13, <2>2, <2>3, <2>4 DEF FrameSoFar
<1>15. \A b \in call'.frame.blocks : b.at + 4 + b.csize <= call'.cap
  <2>1. \A b \in call.frame.blocks : b.at + 4 + b.csize <= call.cap  BY <1>1 DEF CompressInv
  <2>2. Written(k).at = Place(k) /\ Written(k).csize = OutOf(k).csize
    BY DEF Written, BlockAt
  <2>3. call'.cap = call.cap  BY DEF Unmoved
  <2> QED BY <2>1, <2>2, <2>3
<1>16. /\ call'.res_code \in {"none", "dst_overflow"}
       /\ call'.res_code # "none" => call'.phase = "copy" /\ ~Roomy'
  BY <1>1, <1>2 DEF CompressInv
<1>17. /\ call'.frame.size <= call'.cap
       /\ call'.frame.size + 4 * call'.chunks <= call'.frame.header + 4 * Count' + call'.src
  BY <1>1, <1>2 DEF CompressInv, Unmoved
<1>18. CompressInv'
  <2>1. \E m : FrameSoFar(m)'  BY <1>14
  <2> QED BY <1>2, <1>5, <1>7, <1>15, <1>16, <1>17, <2>1 DEF CompressInv
<1>19. FrameIsGood' /\ ResultIsGood'  BY <1>1, FrameStaysGood, NoResultIsGood
<1> QED BY <1>1, <1>18, <1>19 DEF StreamInv, Unmoved

\* The tasks of level 0 count every superblock before theirs as a whole one.
LEMMA RawPlaces ==
  ASSUME IInv, Compression, CompressInv, Writing, RawMemcpy
  PROVE  \A k \in 1..ChunkSize :
           Place(k) = call.frame.size + (k - 1) * (superblock_size + 4)
PROOF
<1> DEFINE At(k) == call.frame.size + (k - 1) * (superblock_size + 4)
           Bad == {k \in 1..ChunkSize : Place(k) # At(k)}
<1>1. CompressPlan /\ OutsFit /\ call.frame.size \in Nat  BY ChunkFacts DEF CompressInv
<1>2. /\ ChunkSize \in 1..call.chunks /\ call.chunks \in Nat \ {0} /\ superblock_size \in Nat \ {0}
  BY <1>1, ChunkSizes
<1>3. \A j \in 1..ChunkSize : OutOf(j).csize \in Nat
  <2> SUFFICES ASSUME NEW j \in 1..ChunkSize PROVE OutOf(j).csize \in Nat  OBVIOUS
  <2>1. Length(j) \in Nat  BY <1>1, <1>2, PiecesFollow
  <2> QED BY <1>1, <2>1 DEF OutsFit, OutFits
<1>4. Place(1) = call.frame.size
      /\ \A j \in 1..ChunkSize : Place(j + 1) = Place(j) + 4 + OutOf(j).csize
  <2>1. ChunkSize \in Nat  BY <1>2
  <2> QED BY <1>1, <1>3, <2>1, PlacesFollow
<1>5. SUFFICES ASSUME Bad # {} PROVE FALSE  OBVIOUS
<1>6. Bad \in SUBSET Nat  OBVIOUS
<1>7. PICK x \in Bad : \A y \in Bad : x <= y
  <2> HIDE DEF Bad
  <2> QED BY <1>5, <1>6, LeastElement
<1>8. x \in 1..ChunkSize /\ Place(x) # At(x)  OBVIOUS
<1>9. At(1) = call.frame.size  BY <1>1, <1>2
<1>10. x # 1  BY <1>4, <1>8, <1>9
<1>11. x - 1 \in 1..ChunkSize /\ x - 1 < x /\ x - 1 # call.chunks /\ x - 1 \in 1..call.chunks
       /\ (x - 1) + 1 = x
  BY <1>2, <1>8, <1>10
<1>12. Place(x - 1) = At(x - 1)
  <2>1. x - 1 \notin Bad
    <3> HIDE DEF Bad
    <3> QED BY <1>7, <1>11
  <2> QED BY <1>11, <2>1
<1>13. OutOf(x - 1).csize = superblock_size
  BY <1>1, <1>11, PiecesFollow DEF OutOf
<1>14. Place(x) = At(x - 1) + 4 + superblock_size  BY <1>4, <1>11, <1>12, <1>13
<1>15. At(x) = At(x - 1) + (superblock_size + 4)
  <2> DEFINE w == superblock_size + 4
  <2>1. x - 1 - 1 \in Int /\ w \in Int /\ 1 \in Int  BY <1>2, <1>8
  <2> HIDE DEF w
  <2>2. ((x - 1 - 1) + 1) * w = (x - 1 - 1) * w + 1 * w /\ (x - 1 - 1) * w \in Int
    BY <2>1, Distributes
  <2>3. (x - 1 - 1) + 1 = x - 1  BY <1>8
  <2>4. (x - 1) * w = (x - 1 - 1) * w + w  BY <2>1, <2>2, <2>3
  <2> DEFINE y == (x - 1 - 1) * w
             z == (x - 1) * w
  <2>5. At(x) = call.frame.size + z /\ At(x - 1) = call.frame.size + y  BY DEF w
  <2>6. z = y + w /\ y \in Int  BY <2>2, <2>4
  <2> HIDE DEF y, z, At
  <2>7. At(x) = At(x - 1) + w  BY <1>1, <2>1, <2>5, <2>6
  <2> QED BY <2>7 DEF w
<1>16. At(x - 1) \in Int
  <2>1. x - 1 - 1 \in Int /\ superblock_size + 4 \in Int  BY <1>2, <1>8
  <2>2. (x - 1 - 1) * (superblock_size + 4) \in Int  BY <2>1, Distributes
  <2> QED BY <1>1, <2>2
<1> HIDE DEF At
<1> QED BY <1>2, <1>8, <1>14, <1>15, <1>16

LEMMA RawTaskKeeps ==
  ASSUME IInv, StreamInv, NEW k \in call.tasks, RawTask(k)
  PROVE  StreamInv'
PROOF
<1>1. /\ Compression /\ CompressInv /\ CompressPlan /\ call.phase = "tasks" /\ RawMemcpy
      /\ call.op = "compress" /\ params' = params /\ superblock_size' = superblock_size
      /\ frame' = frame /\ result' = result
  BY Compresses DEF RawTask, Compressing, context
<1>2. IInv'  BY RawTaskIsGood
<1>3. Writing  BY <1>1 DEF Writing
<1>4. k \in 1..ChunkSize  BY <1>1, TaskFacts
<1> DEFINE at == call.frame.size + (k - 1) * (superblock_size + 4)
           out == [code |-> "COPY", csize |-> Length(k)]
           b == BlockAt(at, out, k)
           full == call.cap - at < Length(k) + 4
<1>5. at = Place(k) /\ OutOf(k) = out  BY <1>1, <1>3, <1>4, RawPlaces DEF OutOf
<1>6. b = Written(k)  BY <1>5 DEF Written
<1>7. call' = [call EXCEPT !.tasks = @ \ {k},
                 !.frame.blocks = IF full THEN @ ELSE @ \union {b}]
  BY DEF RawTask
<1>8. PICK p, c, f0, s, t, o0, m, r0 :
        call = [op |-> "compress", phase |-> p, cap |-> c, frame |-> f0, src |-> s, tasks |-> t,
                outs |-> o0, chunks |-> m, res_code |-> r0]
  BY <1>1 DEF Compression
<1> DEFINE blocks == IF full THEN call.frame.blocks ELSE call.frame.blocks \union {b}
           f == [call.frame EXCEPT !.blocks = blocks]
<1>9. call' = [call EXCEPT !.tasks = call.tasks \ {k}, !.frame = f]
  <2> HIDE DEF full, b
  <2> QED BY <1>7, <1>8
<1>10. FrameFields(call.frame)  BY <1>1, ChunkSizes
<1>11. /\ f.header = call.frame.header /\ f.shift = call.frame.shift
       /\ f.superblock = call.frame.superblock /\ f.bytesoftype = call.frame.bytesoftype
       /\ f.total = call.frame.total /\ f.size = call.frame.size /\ f.blocks = blocks
  <2> HIDE DEF blocks
  <2> QED BY <1>10 DEF FrameFields
<1> HIDE DEF f, blocks
<1>12. /\ call'.op = "compress" /\ call'.phase = call.phase /\ call'.cap = call.cap
       /\ call'.frame = f /\ call'.src = call.src /\ call'.chunks = call.chunks
       /\ call'.res_code = call.res_code /\ call'.tasks = call.tasks \ {k}
       /\ call'.outs = call.outs
  BY <1>1, <1>8, <1>9
<1>13. Unmoved  BY <1>1, <1>11, <1>12 DEF Unmoved
<1>14. Place(k) \in Nat /\ call.cap \in Nat /\ Length(k) \in Nat
  BY <1>1, <1>3, <1>4, ChunkFits, TaskFacts DEF CompressPlan
<1>15. CASE full
  <2>1. Overflows(k)  BY <1>1, <1>5, <1>14, <1>15 DEF Overflows
  <2>2. call'.frame.blocks = call.frame.blocks  BY <1>11, <1>12, <1>15 DEF blocks
  <2> QED BY <1>1, <1>2, <1>3, <1>12, <1>13, <2>1, <2>2, WritingGoesOn
<1>16. CASE ~full
  <2>1. Place(k) + 4 + OutOf(k).csize <= call.cap
    <3>1. OutOf(k).csize = Length(k)  BY <1>5
    <3>2. ~(call.cap - Place(k) < Length(k) + 4)  BY <1>5, <1>16
    <3> QED BY <1>14, <3>1, <3>2
  <2>2. call'.frame.blocks = call.frame.blocks \union {Written(k)}
    BY <1>6, <1>11, <1>12, <1>16 DEF blocks
  <2> HIDE DEF full
  <2> QED BY <1>1, <1>2, <1>3, <1>12, <1>13, <2>1, <2>2, WritingGoesOn
<1> QED BY <1>15, <1>16

LEMMA CopyTaskKeeps ==
  ASSUME IInv, StreamInv, NEW k \in call.tasks, CopyTask(k)
  PROVE  StreamInv'
PROOF
<1>1. /\ Compression /\ CompressInv /\ CompressPlan /\ call.phase = "copy"
      /\ call.op = "compress" /\ params' = params /\ superblock_size' = superblock_size
      /\ frame' = frame /\ result' = result
  BY Compresses DEF CopyTask, Compressing, context
<1>2. IInv'  BY CopyTaskIsGood
<1>3. Writing /\ ~RawMemcpy  BY <1>1 DEF Writing, CompressInv, OutsAreGood
<1>4. k \in 1..ChunkSize  BY <1>1, TaskFacts
<1> DEFINE at == call.frame.size + OutSize(k - 1)
           b == BlockAt(at, call.outs[k], k)
<1>5. \A j : OutOf(j) = call.outs[j]  BY <1>3 DEF OutOf
<1>6. at = Place(k)
  <2>1. [j \in 1..(k - 1) |-> call.outs[j].csize + 4] = [j \in 1..(k - 1) |-> OutOf(j).csize + 4]
    BY <1>5
  <2> QED BY <2>1 DEF Place, OutSize
<1>7. b = Written(k)  BY <1>5, <1>6 DEF Written
<1>8. call' = IF at + 4 + call.outs[k].csize > call.cap
              THEN [call EXCEPT !.tasks = @ \ {k}, !.res_code = "dst_overflow"]
              ELSE [call EXCEPT !.tasks = @ \ {k}, !.frame.blocks = @ \union {b}]
  BY DEF CopyTask
<1>9. PICK p, c, f0, s, t, o0, m, r0 :
        call = [op |-> "compress", phase |-> p, cap |-> c, frame |-> f0, src |-> s, tasks |-> t,
                outs |-> o0, chunks |-> m, res_code |-> r0]
  BY <1>1 DEF Compression
<1>10. /\ Place(k) + 4 + OutOf(k).csize <= call.frame.header + 4 * Count + call.frame.total
       /\ Place(k) \in Nat /\ OutOf(k).csize \in 1..Length(k) /\ call.cap \in Nat
       /\ Length(k) \in Nat /\ Count \in Nat /\ call.frame.header \in {8, 12}
       /\ call.frame.total \in Nat
  BY <1>1, <1>3, <1>4, ChunkFits, TaskFacts, ChunkSizes DEF CompressPlan
<1>11. CASE at + 4 + call.outs[k].csize > call.cap
  <2>1. call' = [call EXCEPT !.tasks = call.tasks \ {k}, !.res_code = "dst_overflow"]
    BY <1>8, <1>11
  <2>2. /\ call'.op = "compress" /\ call'.phase = call.phase /\ call'.cap = call.cap
        /\ call'.frame = call.frame /\ call'.src = call.src /\ call'.chunks = call.chunks
        /\ call'.res_code = "dst_overflow" /\ call'.tasks = call.tasks \ {k}
        /\ call'.outs = call.outs
    BY <1>9, <2>1
  <2>3. Unmoved  BY <1>1, <2>2 DEF Unmoved
  <2>4. ~Roomy
    <3>1. Place(k) + 4 + OutOf(k).csize > call.cap  BY <1>5, <1>6, <1>11
    <3> QED BY <1>10, <3>1 DEF Roomy
  <2> HIDE DEF at
  <2> QED BY <1>1, <1>2, <1>3, <2>2, <2>3, <2>4, WritingGoesOn
<1>12. CASE ~(at + 4 + call.outs[k].csize > call.cap)
  <2> DEFINE blocks == call.frame.blocks \union {b}
             f == [call.frame EXCEPT !.blocks = blocks]
  <2>1. call' = [call EXCEPT !.tasks = @ \ {k}, !.frame.blocks = @ \union {b}]
    BY <1>8, <1>12
  <2>2. call' = [call EXCEPT !.tasks = call.tasks \ {k}, !.frame = f]
    <3> HIDE DEF b
    <3> QED BY <1>9, <2>1
  <2>3. FrameFields(call.frame)  BY <1>1, ChunkSizes
  <2>4. /\ f.header = call.frame.header /\ f.shift = call.frame.shift
        /\ f.superblock = call.frame.superblock /\ f.bytesoftype = call.frame.bytesoftype
        /\ f.total = call.frame.total /\ f.size = call.frame.size /\ f.blocks = blocks
    <3> HIDE DEF blocks
    <3> QED BY <2>3 DEF FrameFields
  <2> HIDE DEF f, blocks
  <2>5. /\ call'.op = "compress" /\ call'.phase = call.phase /\ call'.cap = call.cap
        /\ call'.frame = f /\ call'.src = call.src /\ call'.chunks = call.chunks
        /\ call'.res_code = call.res_code /\ call'.tasks = call.tasks \ {k}
        /\ call'.outs = call.outs
    BY <1>9, <2>2
  <2>6. Unmoved  BY <1>1, <2>4, <2>5 DEF Unmoved
  <2>7. Place(k) + 4 + OutOf(k).csize <= call.cap  BY <1>5, <1>6, <1>10, <1>12
  <2>8. call'.frame.blocks = call.frame.blocks \union {Written(k)}
    BY <1>7, <2>4, <2>5 DEF blocks
  <2> HIDE DEF at
  <2> QED BY <1>1, <1>2, <1>3, <2>5, <2>6, <2>7, <2>8, WritingGoesOn
<1> QED BY <1>11, <1>12

\* The tasks of the chunk have all run, and none found the destination too small:
\* its superblocks are those of the next part of the frame.
LEMMA ChunkJoins ==
  ASSUME IInv, StreamInv, Compression, CompressInv, Writing, call.tasks = {},
         params' = params, superblock_size' = superblock_size,
         call.res_code = "none", NEW size, call.frame.size + size = Place(ChunkSize + 1),
         RawMemcpy => Place(ChunkSize + 1) <= call.cap,
         Advance(Longer({}, size), ChunkSize, "fork")
  PROVE  StreamInv'
PROOF
<1> DEFINE n == ChunkSize
           new == Longer({}, size)
<1>1. CompressPlan /\ OutsFit /\ call.frame.size \in Nat  BY ChunkFacts DEF CompressInv
<1>2. PICK base : FrameSoFar(base)  BY DEF CompressInv
<1> DEFINE f == [call.frame EXCEPT !.blocks = base]
           g(j) == WithQueue(f, WrittenUpTo(ChunkSize), j)
<1>3. /\ FrameFields(f) /\ f.blocks = base /\ f.size = call.frame.size
      /\ f.header = call.frame.header /\ f.superblock = superblock_size
      /\ f.total = call.frame.total /\ Whole(f, call.src)
  BY <1>2, ChunkFacts
<1>4. n \in 1..call.chunks /\ n # 0 /\ n \in 0..n /\ n \in 1..n /\ FrameFields(call.frame)
      /\ call.cap \in Nat
  BY <1>1, ChunkSizes DEF CompressPlan
<1> HIDE DEF f
<1>5. /\ Whole(g(n), From(n) + Length(n))
      /\ g(n).size + call.src <= f.size + 4 * n + (From(n) + Length(n))
      /\ g(n).blocks = f.blocks \union {Written(j) : j \in 1..n}
      /\ g(n).size = Place(n) + 4 + OutOf(n).csize /\ g(n).header = f.header
      /\ g(n).superblock = f.superblock /\ g(n).total = f.total
  BY <1>1, <1>3, <1>4, ChunkIsWhole, FieldsOfQueue
<1>6. \A k \in 1..n : /\ Place(k) \in Nat /\ OutOf(k).csize \in 1..Length(k)
                      /\ Place(k + 1) = Place(k) + 4 + OutOf(k).csize
  BY ChunkFits
<1> HIDE DEF g
<1>7. g(n).size = Place(n + 1)  BY <1>4, <1>5, <1>6
<1>8. \A k \in 1..n : ~Overflows(k)
  <2> SUFFICES ASSUME NEW k \in 1..n, Overflows(k) PROVE FALSE  OBVIOUS
  <2>1. RawMemcpy /\ Place(k) + 4 + Length(k) > call.cap  BY DEF Overflows
  <2>2. Written(k) \in g(n).blocks  BY <1>5
  <2>3. Written(k).at + 4 + Written(k).csize <= g(n).size  BY <1>5, <2>2 DEF Whole, Placed
  <2>4. Written(k).at = Place(k) /\ Written(k).csize = Length(k)
    BY <2>1 DEF Written, BlockAt, OutOf
  <2>5. Place(k) \in Nat /\ Length(k) \in Nat /\ g(n).size \in Nat
    <3>1. k \in 1..call.chunks  BY <1>1, ChunkSizes
    <3>2. Length(k) \in Nat  BY <1>1, <3>1, PiecesFollow
    <3> QED BY <1>5, <1>6, <3>2 DEF Whole
  <2>6. g(n).size <= call.cap  BY <1>7, <2>1
  <2> QED BY <1>4, <2>1, <2>3, <2>4, <2>5, <2>6
<1>9. call.frame.blocks = g(n).blocks
  <2>1. (1..n) \ call.tasks = 1..n  OBVIOUS
  <2>2. /\ base \subseteq call.frame.blocks
        /\ call.frame.blocks \subseteq base \union {Written(k) : k \in 1..n}
        /\ \A k \in 1..n : Written(k) \in call.frame.blocks
    BY <1>2, <1>8, <2>1 DEF FrameSoFar
  <2> QED BY <1>3, <1>5, <2>2
<1>10. /\ new.header = call.frame.header /\ new.shift = call.frame.shift
       /\ new.superblock = call.frame.superblock /\ new.bytesoftype = call.frame.bytesoftype
       /\ new.total = call.frame.total /\ new.blocks = call.frame.blocks
       /\ new.size = call.frame.size + size
  <2>1. /\ new.header = call.frame.header /\ new.shift = call.frame.shift
        /\ new.superblock = call.frame.superblock /\ new.bytesoftype = call.frame.bytesoftype
        /\ new.total = call.frame.total /\ new.blocks = call.frame.blocks \union {}
        /\ new.size = call.frame.size + size
    BY <1>4, LongerFields
  <2> HIDE DEF new
  <2> QED BY <2>1
<1>11. Advance(new, n, "fork")  OBVIOUS
<1> HIDE DEF new
<1>12. call.frame.superblock = superblock_size  BY <1>1 DEF CompressPlan
<1>13. Whole(new, From(n) + Length(n))
  BY <1>3, <1>5, <1>7, <1>9, <1>10, <1>12, WholeDepends
<1>14. new.size = g(n).size  BY <1>7, <1>10
<1>15. \A b \in new.blocks : b.at + 4 + b.csize <= call.cap  BY <1>10 DEF CompressInv
<1>16. new.size <= call.cap
  <2>1. CASE RawMemcpy  BY <1>7, <1>14, <2>1
  <2>2. CASE ~RawMemcpy
    <3>1. Written(n) \in new.blocks  BY <1>4, <1>5, <1>9, <1>10
    <3>2. Written(n).at = Place(n) /\ Written(n).csize = OutOf(n).csize
      BY DEF Written, BlockAt
    <3> QED BY <1>5, <1>14, <1>15, <3>1, <3>2
  <2> QED BY <2>1, <2>2
<1>17. new.size + call.src <= call.frame.size + 4 * n + (From(n) + Length(n))
  BY <1>3, <1>5, <1>14
<1> HIDE DEF n
<1> QED BY <1>4, <1>10, <1>11, <1>13, <1>15, <1>16, <1>17, AdvanceKeeps

LEMMA JoinRawKeeps ==
  ASSUME IInv, StreamInv, JoinRaw
  PROVE  StreamInv'
PROOF
<1>1. /\ Compression /\ CompressInv /\ CompressPlan /\ call.phase = "tasks" /\ RawMemcpy
      /\ call.op = "compress" /\ params' = params /\ superblock_size' = superblock_size
      /\ call.tasks = {}
  BY Compresses DEF JoinRaw, Compressing, context, ChunkDone
<1> DEFINE n == ChunkSize
           size == SumUpTo([k \in 1..n |-> Length(k) + 4], n)
<1>2. Writing /\ call.res_code = "none"  BY <1>1 DEF Writing, CompressInv
<1>3. n \in 1..n /\ n \in Nat  BY <1>1, ChunkSizes
<1>4. call.frame.size + size = Place(n + 1)
  <2>1. \A k : OutOf(k).csize = Length(k)  BY <1>1 DEF OutOf
  <2> DEFINE h == [k \in 1..n |-> Length(k) + 4]
  <2>2. [k \in 1..n |-> OutOf(k).csize + 4] = h  BY <2>1
  <2>3. (n + 1) - 1 = n  BY <1>3
  <2> HIDE DEF h, n
  <2>4. Place(n + 1) = call.frame.size + SumUpTo(h, n)  BY <2>2, <2>3 DEF Place
  <2> QED BY <2>4 DEF h
<1>5. IF call.frame.size + size > call.cap
      THEN CompressFails("dst_overflow") ELSE Advance(Longer({}, size), n, "fork")
  BY DEF JoinRaw
<1> HIDE DEF size
<1>6. /\ Place(n + 1) <= call.frame.header + 4 * Count + call.frame.total
      /\ Place(n + 1) \in Nat /\ call.cap \in Nat
  <2>1. /\ Place(n) \in Nat /\ OutOf(n).csize \in 1..Length(n)
        /\ Place(n + 1) = Place(n) + 4 + OutOf(n).csize
        /\ Place(n) + 4 + OutOf(n).csize <= call.frame.header + 4 * Count + call.frame.total
    BY <1>1, <1>2, <1>3, ChunkFits
  <2>2. Length(n) \in Nat
    <3>1. n \in 1..call.chunks  BY <1>1, ChunkSizes
    <3> QED BY <1>1, <3>1, PiecesFollow
  <2>3. OutOf(n).csize \in Nat  BY <2>1, <2>2
  <2> HIDE DEF n
  <2> QED BY <1>1, <2>1, <2>3 DEF CompressPlan
<1>7. CASE call.frame.size + size > call.cap
  <2>1. ~Roomy
    <3>1. Place(n + 1) > call.cap  BY <1>4, <1>7
    <3>2. call.frame.header \in {8, 12} /\ Count \in Nat /\ call.frame.total \in Nat
      BY <1>1, ChunkSizes
    <3> HIDE DEF n
    <3> QED BY <1>6, <3>1, <3>2 DEF Roomy
  <2> QED BY <1>1, <1>5, <1>7, <2>1, FailureIsGood
<1>8. CASE ~(call.frame.size + size > call.cap)
  <2>1. Place(n + 1) <= call.cap  BY <1>4, <1>6, <1>8
  <2>2. Advance(Longer({}, size), n, "fork")  BY <1>5, <1>8
  <2> QED BY <1>1, <1>2, <1>4, <2>1, <2>2, ChunkJoins
<1> QED BY <1>7, <1>8

LEMMA JoinCopyKeeps ==
  ASSUME IInv, StreamInv, JoinCopy
  PROVE  StreamInv'
PROOF
<1>1. /\ Compression /\ CompressInv /\ CompressPlan /\ call.phase = "copy"
      /\ call.op = "compress" /\ params' = params /\ superblock_size' = superblock_size
      /\ call.tasks = {}
  BY Compresses DEF JoinCopy, Compressing, context, ChunkDone
<1>2. Writing /\ ~RawMemcpy  BY <1>1 DEF Writing, CompressInv, OutsAreGood
<1>3. CASE call.res_code # "none"
  <2>1. call.res_code = "dst_overflow" /\ ~Roomy  BY <1>1, <1>3 DEF CompressInv
  <2>2. CompressFails("dst_overflow")  BY <1>3, <2>1 DEF JoinCopy
  <2> QED BY <1>1, <2>1, <2>2, FailureIsGood
<1>4. CASE call.res_code = "none"
  <2> DEFINE n == ChunkSize
             size == OutSize(n)
  <2>1. n \in Nat  BY <1>1, ChunkSizes
  <2>2. call.frame.size + size = Place(n + 1)
    <3>1. \A k : OutOf(k) = call.outs[k]  BY <1>2 DEF OutOf
    <3> DEFINE h == [k \in 1..n |-> call.outs[k].csize + 4]
    <3>2. [k \in 1..n |-> OutOf(k).csize + 4] = h  BY <3>1
    <3>3. (n + 1) - 1 = n  BY <2>1
    <3>4. OutSize(n) = SumUpTo(h, n)  BY DEF OutSize
    <3> HIDE DEF h, n
    <3>5. Place(n + 1) = call.frame.size + SumUpTo(h, n)  BY <3>2, <3>3 DEF Place
    <3> QED BY <3>4, <3>5
  <2>3. Advance(Longer({}, size), n, "fork")  BY <1>4 DEF JoinCopy
  <2> HIDE DEF size
  <2> QED BY <1>1, <1>2, <1>4, <2>2, <2>3, ChunkJoins
<1> QED BY <1>3, <1>4

-----------------------------------------------------------------------------
(* The beginning of a compression, and the setters *)

\* A shift of the header gives the superblock size back.
LEMMA ShiftIsOfSize ==
  ASSUME NEW setting \in ParamsType, NEW b \in 1..(STENOS_MAX_BYTESOFTYPE - 1), NEW bytes \in Nat
  PROVE  LET plan == Plan(setting, b, bytes)
         IN  plan.shift # 255 => plan.superblock = ShiftLeft(SuperBlockSize(b * 256), plan.shift)
PROOF
<1> DEFINE default == SuperBlockSize(b * 256)
<1>1. default \in Nat  BY SuperBlockSizeIsLarge
<1>2. CASE setting.timed
  <2> DEFINE required == (bytes \div (setting.threads * 32)) \div (b * 256)
             wanted   == b * 256 * (IF required = 0 THEN 1 ELSE required)
  <2>0. Plan(setting, b, bytes) =
          IF wanted >= STENOS_MAX_BLOCK_BYTES
          THEN IF bytes > default
               THEN [superblock |-> ShiftLeft(default, 4), shift |-> 4]
               ELSE [superblock |-> default, shift |-> 255]
          ELSE [superblock |-> IF wanted < STENOS_BLOCK_SIZE THEN default ELSE wanted, shift |-> 255]
    BY <1>2 DEF Plan, TimedPlan
  <2> HIDE DEF wanted, required
  <2>1. \/ Plan(setting, b, bytes) = [superblock |-> ShiftLeft(default, 4), shift |-> 4]
        \/ \E z : Plan(setting, b, bytes) = [superblock |-> z, shift |-> 255]
    <3> HIDE DEF default
    <3> QED BY <2>0
  <2> HIDE DEF default
  <2>2. \/ Plan(setting, b, bytes).shift = 255
        \/ Plan(setting, b, bytes).shift = 4
           /\ Plan(setting, b, bytes).superblock = ShiftLeft(default, 4)
    BY <2>1
  <2> QED BY <2>2 DEF default
<1>3. CASE ~setting.timed
  <2> DEFINE scale == IF setting.level = 0 THEN 0 ELSE (setting.level - 1) \div 2
  <2>0. Plan(setting, b, bytes) =
          IF setting.custom # NoShift
          THEN [superblock |-> ShiftLeft(b * 256, setting.custom), shift |-> 255]
          ELSE IF bytes > default
               THEN [superblock |-> ShiftLeft(default, scale), shift |-> scale]
               ELSE [superblock |-> default, shift |-> 0]
    BY <1>3 DEF Plan, UntimedPlan
  <2>1. \/ Plan(setting, b, bytes) = [superblock |-> ShiftLeft(default, scale), shift |-> scale]
        \/ Plan(setting, b, bytes) = [superblock |-> default, shift |-> 0]
        \/ \E z : Plan(setting, b, bytes) = [superblock |-> z, shift |-> 255]
    <3> HIDE DEF default, scale
    <3> QED BY <2>0
  <2>2. ShiftLeft(default, 0) = default
    <3> HIDE DEF default
    <3> QED BY <1>1 DEF ShiftLeft, PowersOfTwo
  <2> HIDE DEF default, scale
  <2>3. \/ Plan(setting, b, bytes).shift = 255
        \/ Plan(setting, b, bytes).superblock = ShiftLeft(default, Plan(setting, b, bytes).shift)
    BY <2>1, <2>2
  <2> QED BY <2>3 DEF default
<1> QED BY <1>2, <1>3

\* The frame of a call that has written its header only.
LEMMA HeaderIsWhole ==
  ASSUME NEW f, f.header \in {8, 12}, f.size = f.header, f.blocks = {}
  PROVE  Whole(f, 0)
  BY DEF Whole

\* A call that begins to compress.
LEMMA CompressionStarts ==
  ASSUME FrameIsGood', result' = NoResult, params' \in ParamsType,
         NEW new, Described(new), new.header = HeaderSize(params'),
         new.size = new.header, new.blocks = {}, new.total \in Nat \ {0},
         NEW c \in Nat, new.header <= c, superblock_size' = new.superblock,
         params'.custom = NoShift =>
           LargestFrame(new.header, new.total, new.superblock) <= Bound(new.total),
         call' = [op |-> "compress", phase |-> "ensure", cap |-> c, frame |-> new, src |-> 0,
                  tasks |-> {}, outs |-> <<>>, chunks |-> Pieces(new.total, new.superblock),
                  res_code |-> "none"]
  PROVE  StreamInv'
PROOF
<1> DEFINE n == Pieces(new.total, new.superblock)
           x == (n - 1) * new.superblock
           y == n * new.superblock
<1>1. /\ new.total \in Nat /\ new.superblock \in Nat /\ new.superblock > 0
      /\ new.header \in {8, 12}
  BY DEF Described
<1>2. n \in Nat /\ new.total <= y /\ x < new.total
  <2>1. n \in Nat /\ new.total <= y /\ (x < new.total \/ n = 0) /\ (new.total = 0 <=> n = 0)
    BY <1>1, PiecesCeiling
  <2> QED BY <2>1
<1> HIDE DEF n
<1>3. /\ call'.op = "compress" /\ call'.phase = "ensure" /\ call'.frame = new /\ call'.src = 0
      /\ call'.chunks = n /\ call'.cap = c /\ call'.res_code = "none"
  BY DEF n
<1>4. Count' = n  BY <1>3 DEF Count, n
<1>5. x \in Int /\ y \in Int  BY <1>1, <1>2, Distributes
<1>6. /\ call'.src + (call'.chunks - 1) * superblock_size' < call'.frame.total
      /\ call'.frame.total <= call'.src + call'.chunks * superblock_size'
  <2>1. (call'.chunks - 1) * superblock_size' = x /\ call'.chunks * superblock_size' = y
    BY <1>3
  <2> HIDE DEF x, y
  <2> QED BY <1>1, <1>2, <1>3, <1>5, <2>1
<1> HIDE DEF x, y
<1>7. CompressPlan'
  <2>1. Described(call.frame)'  BY <1>3 DEF Described
  <2> QED BY <1>3, <1>4, <1>6, <2>1 DEF CompressPlan
<1>8. Whole(call.frame, call.src)'
  <2>1. Whole(new, 0)  BY <1>1, HeaderIsWhole
  <2> QED BY <1>3, <2>1
<1>9. OutsAreGood' /\ ~Writing'  BY <1>3 DEF OutsAreGood, Writing
<1>10. CompressInv'
  <2>1. /\ call'.frame.size <= call'.cap
        /\ call'.frame.size + 4 * call'.chunks <= call'.frame.header + 4 * Count' + call'.src
    BY <1>1, <1>2, <1>3, <1>4
  <2>2. \A b \in call'.frame.blocks : b.at + 4 + b.csize <= call'.cap  BY <1>3
  <2> QED BY <1>3, <1>7, <1>8, <1>9, <2>1, <2>2 DEF CompressInv
<1>11. ResultIsGood'  BY NoResultIsGood
<1> QED BY <1>3, <1>10, <1>11 DEF StreamInv

LEMMA BoundIsLarge ==
  ASSUME NEW bytes \in Nat
  PROVE  Bound(bytes) >= 12
PROOF
<1>1. MinSuperblock \in Nat /\ MinSuperblock > 0  BY DEF MinSuperblock
<1>2. Pieces(bytes, MinSuperblock) \in Nat  BY <1>1, PiecesCeiling
<1> QED BY <1>2 DEF Bound

LEMMA KeptFrameIsGood ==
  ASSUME FrameIsGood, NEW input, frame' = KeptDuring(input)
  PROVE  FrameIsGood'
  BY FrameStaysGood, NoFrameIsGood DEF KeptDuring, Kept

LEMMA CompressBeginKeeps ==
  ASSUME IInv, StreamInv, CompressBegin
  PROVE  StreamInv'
PROOF
<1>1. call = NoCall /\ params \in ParamsType /\ FrameIsGood
  BY DEF CompressBegin, Idle, IInv, ContextOK, StreamInv
<1>2. PICK input \in Inputs, short \in Shortfalls :
       LET bytesoftype == input[1]
           bytes == input[2]
           cap   == IF short > Bound(bytes) THEN 0 ELSE Bound(bytes) - short
           error == PlanError(params, bytesoftype, bytes)
           plan  == Plan(params, bytesoftype, bytes)
           head  == HeaderSize(params)
           new   == [size |-> head, header |-> head, shift |-> plan.shift,
                     superblock |-> plan.superblock, bytesoftype |-> bytesoftype,
                     total |-> bytes, blocks |-> {}]
           done(e) == Returned("compress", e, cap, bytes)
       IN  IF error # "none"
           THEN Finish(done(error)) /\ UNCHANGED context /\ frame' = KeptDuring(input)
           ELSE /\ Pieces(bytes, plan.superblock) <= MaxSuperblocks
                /\ UseSuperblockSize(plan.superblock)
                /\ finish_memcpy' = (finish_memcpy /\ ~params.timed)
                /\ UNCHANGED params
                /\ CASE cap < head -> Finish(done("dst_overflow")) /\ frame' = KeptDuring(input)
                     [] cap >= head /\ bytes = 0 -> Finish(done("none")) /\ frame' = new
                     [] OTHER ->
                          /\ call' = [op |-> "compress", phase |-> "ensure", cap |-> cap,
                                      frame |-> new, src |-> 0, tasks |-> {}, outs |-> <<>>,
                                      chunks |-> Pieces(bytes, plan.superblock),
                                      res_code |-> "none"]
                          /\ frame' = KeptDuring(input) /\ result' = NoResult
  BY DEF CompressBegin
<1> DEFINE bytesoftype == input[1]
           bytes == input[2]
           cap   == IF short > Bound(bytes) THEN 0 ELSE Bound(bytes) - short
           error == PlanError(params, bytesoftype, bytes)
           plan  == Plan(params, bytesoftype, bytes)
           head  == HeaderSize(params)
           new   == [size |-> head, header |-> head, shift |-> plan.shift,
                     superblock |-> plan.superblock, bytesoftype |-> bytesoftype,
                     total |-> bytes, blocks |-> {}]
<1>3. bytesoftype \in Nat /\ bytes \in Nat  BY CodecAssumption
<1>4. CASE error # "none"
  <2>1. /\ call' = NoCall /\ frame' = KeptDuring(input)
        /\ result' = Returned("compress", error, cap, bytes)
    BY <1>2, <1>4 DEF Finish
  <2>2. error \in {"invalid_bytesoftype", "invalid_parameter"}  BY <1>4 DEF PlanError
  <2> HIDE DEF error, cap, bytes
  <2>3. error \in Errors \union {"none"} /\ error # "none" /\ error # "dst_overflow"
    BY <2>2 DEF Errors
  <2>4. ResultIsGood'  BY <2>1, <2>3, CompressedIsGood
  <2> QED BY <1>1, <2>1, <2>4, CallEnds, KeptFrameIsGood
<1>5. CASE error = "none"
  <2>1. /\ bytesoftype \in 1..(STENOS_MAX_BYTESOFTYPE - 1)
        /\ plan.superblock \in (bytesoftype * 256)..(STENOS_MAX_BLOCK_BYTES - 1)
    BY <1>1, <1>3, <1>5, AcceptedSizesFit
  <2>2. plan.superblock \in Nat \ {0} /\ plan.superblock < STENOS_MAX_BLOCK_BYTES
    <3>1. bytesoftype * 256 >= 256 /\ bytesoftype * 256 \in Nat  BY <2>1, AcceptedElement
    <3> DEFINE x == bytesoftype * 256
    <3>2. x \in Nat /\ x >= 256 /\ plan.superblock \in x..(STENOS_MAX_BLOCK_BYTES - 1)
      BY <2>1, <3>1
    <3>3. STENOS_MAX_BLOCK_BYTES \in Nat  BY DEF STENOS_MAX_BLOCK_BYTES
    <3> HIDE DEF x, plan
    <3> QED BY <3>2, <3>3
  <2>3. cap \in Nat /\ Bound(bytes) \in Nat
    <3>1. Bound(bytes) \in Nat /\ short \in Nat  BY <1>3, BoundIsNat, CodecAssumption
    <3> QED BY <3>1
  <2>4. plan.shift # 255 => plan.superblock = ShiftLeft(SuperBlockSize(bytesoftype * 256), plan.shift)
    BY <1>1, <1>3, <2>1, ShiftIsOfSize
  <2>5. params.custom = NoShift => LargestFrame(head, bytes, plan.superblock) <= Bound(bytes)
    BY <1>1, <1>3, <2>1, BoundIsEnoughForEveryPlan
  <2>6. head \in {8, 12} /\ (params.custom = NoShift => head = 8)  BY DEF HeaderSize
  <2>7. /\ new.size = head /\ new.header = head /\ new.shift = plan.shift
        /\ new.superblock = plan.superblock /\ new.bytesoftype = bytesoftype
        /\ new.total = bytes /\ new.blocks = {}
    OBVIOUS
  <2>8. superblock_size' = plan.superblock /\ params' = params
    BY <1>2, <1>5 DEF UseSuperblockSize
  <2>9. \/ /\ cap < head /\ call' = NoCall /\ frame' = KeptDuring(input)
           /\ result' = Returned("compress", "dst_overflow", cap, bytes)
        \/ /\ cap >= head /\ bytes = 0 /\ call' = NoCall /\ frame' = new
           /\ result' = Returned("compress", "none", cap, bytes)
        \/ /\ ~(cap < head) /\ ~(cap >= head /\ bytes = 0)
           /\ call' = [op |-> "compress", phase |-> "ensure", cap |-> cap, frame |-> new,
                       src |-> 0, tasks |-> {}, outs |-> <<>>,
                       chunks |-> Pieces(bytes, plan.superblock), res_code |-> "none"]
           /\ frame' = KeptDuring(input) /\ result' = NoResult
    BY <1>2, <1>5 DEF Finish
  <2> HIDE DEF bytesoftype, bytes, cap, error, plan, head, new
  <2>10. Described(new)  BY <2>2, <2>4, <2>6, <2>7 DEF Described
  <2>11. CASE /\ cap < head /\ call' = NoCall /\ frame' = KeptDuring(input)
              /\ result' = Returned("compress", "dst_overflow", cap, bytes)
    <3>1. "dst_overflow" \in Errors \union {"none"}  BY DEF Errors
    <3>2. ~(cap >= Bound(bytes) /\ params'.custom = NoShift)
      <4>1. Bound(bytes) >= 12  BY <1>3, BoundIsLarge
      <4> QED BY <2>3, <2>6, <2>8, <2>11, <4>1
    <3>3. ResultIsGood'  BY <2>11, <3>1, <3>2, CompressedIsGood
    <3> QED BY <1>1, <2>11, <3>3, CallEnds, KeptFrameIsGood
  <2>12. CASE /\ cap >= head /\ bytes = 0 /\ call' = NoCall /\ frame' = new
              /\ result' = Returned("compress", "none", cap, bytes)
    <3>1. ResultIsGood'  BY <2>3, <2>6, <2>7, <2>12, CompressedIsGood
    <3>2. Whole(new, new.total)  BY <2>6, <2>7, <2>12, HeaderIsWhole
    <3>3. FrameIsGood'
      BY <2>10, <2>12, <3>2 DEF FrameIsGood, Described, Whole, Placed, Follows
    <3> QED BY <2>12, <3>1, <3>3, CallEnds
  <2>13. CASE /\ ~(cap < head) /\ ~(cap >= head /\ bytes = 0)
              /\ call' = [op |-> "compress", phase |-> "ensure", cap |-> cap, frame |-> new,
                          src |-> 0, tasks |-> {}, outs |-> <<>>,
                          chunks |-> Pieces(bytes, plan.superblock), res_code |-> "none"]
              /\ frame' = KeptDuring(input) /\ result' = NoResult
    <3>1. bytes \in Nat \ {0} /\ head <= cap  BY <1>3, <2>3, <2>6, <2>13
    <3>2. call' = [op |-> "compress", phase |-> "ensure", cap |-> cap, frame |-> new,
                   src |-> 0, tasks |-> {}, outs |-> <<>>,
                   chunks |-> Pieces(new.total, new.superblock), res_code |-> "none"]
      BY <2>7, <2>13
    <3>3. /\ FrameIsGood' /\ result' = NoResult /\ params' \in ParamsType
          /\ new.header = HeaderSize(params') /\ new.size = new.header /\ new.blocks = {}
          /\ new.total \in Nat \ {0} /\ new.header <= cap /\ superblock_size' = new.superblock
          /\ params'.custom = NoShift =>
               LargestFrame(new.header, new.total, new.superblock) <= Bound(new.total)
      BY <1>1, <2>5, <2>7, <2>8, <2>13, <3>1, KeptFrameIsGood DEF head
    <3> QED BY ONLY <2>3, <2>10, <3>2, <3>3, CompressionStarts
  <2> QED BY <2>9, <2>11, <2>12, <2>13
<1> QED BY <1>4, <1>5

\* The setters end nothing and begin nothing.
LEMMA SettersKeep ==
  ASSUME StreamInv, SetThreads \/ SetParams \/ ResetContext
  PROVE  StreamInv'
PROOF
<1>1. call' = NoCall /\ result' = NoResult /\ (frame' = frame \/ frame' = NoFrame)
  BY DEF SetThreads, SetParams, ResetContext, Idle, Kept
<1>2. FrameIsGood'  BY <1>1, FrameStaysGood, NoFrameIsGood DEF StreamInv
<1> QED BY <1>1, <1>2, NoResultIsGood, CallEnds

LEMMA InitKeeps ==
  ASSUME Init
  PROVE  StreamInv
PROOF
<1>1. call = NoCall /\ frame = NoFrame /\ result = NoResult  BY DEF Init
<1>2. FrameIsGood  BY <1>1 DEF FrameIsGood
<1>3. ResultIsGood
  BY <1>1 DEF ResultIsGood, NoResult, BoundIsEnough, RoundTrip, SuccessIsComplete,
              TruncatedIsRefused, Decompressed
<1> QED BY <1>1, <1>2, <1>3 DEF StreamInv, NoCall

-----------------------------------------------------------------------------
(* The steps of a decompression *)

\* What is known of a call that decompresses.
LEMMA Decompresses ==
  ASSUME IInv, StreamInv, call.op = "decompress"
  PROVE  /\ Decompression /\ DecompressInv /\ DecompressPlan /\ FrameIsGood
         /\ result = NoResult /\ Described(frame) /\ Whole(frame, frame.total)
         /\ superblock_size \in Nat \ {0} /\ call.chunks \in Nat \ {0}
         /\ frame.total \in Nat \ {0} /\ ChunkSize \in 1..call.chunks
PROOF
<1>1. call # NoCall  BY DEF NoCall
<1>2. Decompression /\ DecompressInv /\ FrameIsGood /\ result = NoResult
  BY <1>1, WhichCall DEF StreamInv
<1>3. DecompressPlan  BY <1>2 DEF DecompressInv
<1>4. Described(frame) /\ Whole(frame, frame.total)
  BY <1>2, <1>3 DEF FrameIsGood, DecompressPlan
<1>5. superblock_size \in Nat \ {0} /\ Count \in Nat /\ call.frame.total \in Nat
  BY <1>2, CallFacts
<1>6. call.frame = frame /\ frame.total \in Nat \ {0} /\ call.chunks \in Nat \ {0}
  BY <1>3 DEF DecompressPlan
<1>7. Count # 0  BY <1>5, <1>6, PiecesCeiling DEF Count
<1>8. params.threads \in Nat \ {0}  BY DEF IInv, ContextOK, ParamsType
<1>9. ThreadCount \in Nat \ {0}  BY <1>5, <1>7, <1>8 DEF ThreadCount, Min2
<1>10. ChunkSize \in 1..call.chunks  BY <1>6, <1>9 DEF ChunkSize, Min2
<1> QED BY <1>2, <1>3, <1>4, <1>5, <1>6, <1>10

\* What is restored of a whole frame is its input, byte after byte.
LEMMA EverythingIsRestored ==
  ASSUME Whole(frame, frame.total), frame.total > 0
  PROVE  LET restored == RestoredUpTo(frame.total)
         IN  /\ \A r \in restored : r.to = r.from
             /\ \A r, s \in restored : r = s \/ r.to + r.len <= s.to \/ s.to + s.len <= r.to
             /\ \A r \in restored :
                  r.to = 0 \/ \E s \in restored : s.to < r.to /\ s.to + s.len = r.to
             /\ \E r \in restored : r.to + r.len = frame.total
PROOF
<1> DEFINE restored == RestoredUpTo(frame.total)
           of(b) == Restored(b, b.from, b.len)
<1>1. /\ \A b \in frame.blocks : Placed(frame, frame.total, b)
      /\ \A b, c \in frame.blocks : b = c \/ Behind(b, c) \/ Behind(c, b)
      /\ \E b \in frame.blocks : b.from + b.len = frame.total
  BY DEF Whole
<1>2. \A b \in frame.blocks : b.from \in Nat /\ b.len \in Nat \ {0} /\ b.from + b.len <= frame.total
  BY <1>1 DEF Placed, BlockOK
<1>9. frame.total \in Nat  BY <1>1, <1>2
<1>3. \A b : of(b).to = b.from /\ of(b).from = b.from /\ of(b).len = b.len  BY DEF Restored
<1>4. /\ \A r \in restored : \E b \in frame.blocks : r = of(b)
      /\ \A b \in frame.blocks : b.from < frame.total => of(b) \in restored
  BY DEF RestoredUpTo
<1> HIDE DEF of, restored
<1>5. \A r \in restored : r.to = r.from  BY <1>3, <1>4
<1>6. ASSUME NEW r \in restored, NEW s \in restored
      PROVE  r = s \/ r.to + r.len <= s.to \/ s.to + s.len <= r.to
  <2>1. PICK b \in frame.blocks : r = of(b)  BY <1>4
  <2>2. PICK c \in frame.blocks : s = of(c)  BY <1>4
  <2>3. b = c \/ Behind(b, c) \/ Behind(c, b)  BY <1>1
  <2> QED BY <1>3, <2>1, <2>2, <2>3 DEF Behind
<1>7. ASSUME NEW r \in restored
      PROVE  r.to = 0 \/ \E s \in restored : s.to < r.to /\ s.to + s.len = r.to
  <2>1. PICK b \in frame.blocks : r = of(b)  BY <1>4
  <2>2. b.from = 0 \/ \E p \in frame.blocks : p.from + p.len = b.from
    BY <1>1 DEF Placed, Follows
  <2>3. CASE b.from = 0  BY <1>3, <2>1, <2>3
  <2>4. CASE \E p \in frame.blocks : p.from + p.len = b.from
    <3>1. PICK p \in frame.blocks : p.from + p.len = b.from  BY <2>4
    <3>2. p.from < b.from /\ p.from < frame.total
      <4>1. frame.total >= b.from + b.len  BY <1>2
      <4> QED BY <1>2, <1>9, <3>1, <4>1
    <3>3. of(p) \in restored  BY <1>4, <3>2
    <3> QED BY <1>3, <2>1, <3>1, <3>2, <3>3
  <2> QED BY <2>2, <2>3, <2>4
<1>8. \E r \in restored : r.to + r.len = frame.total
  <2>1. PICK b \in frame.blocks : b.from + b.len = frame.total  BY <1>1
  <2>2. of(b) \in restored  BY <1>2, <1>4, <2>1
  <2> QED BY <1>3, <2>1, <2>2
<1> QED BY <1>5, <1>6, <1>7, <1>8 DEF restored

\* The result of a decompression, with what it says of an output it reports.
LEMMA DecompressedIsGood ==
  ASSUME frame' = frame, NEW e \in Errors \union {"none"}, NEW cap, NEW bytes, NEW restored,
         result' = [op |-> "decompress", error |-> e, cap |-> cap, bytes |-> bytes,
                    restored |-> restored],
         Readable(frame) =>
           /\ bytes = frame.size /\ cap >= frame.total /\ ~Exact(frame) =>
                e = "none" \/ (e = "alloc" /\ (BufferMayFail \/ ResizeMayFail # {}))
           /\ e = "none" /\ frame.total > 0 =>
                /\ ~(bytes < frame.size) /\ restored = RestoredUpTo(frame.total)
                /\ Whole(frame, frame.total)
           /\ frame.total > 0 \/ restored = {}
  PROVE  ResultIsGood'
PROOF
<1>1. /\ result'.op = "decompress" /\ result'.error = e /\ result'.cap = cap
      /\ result'.bytes = bytes /\ result'.restored = restored
  OBVIOUS
<1>2. BoundIsEnough'  BY <1>1 DEF BoundIsEnough
<1>3. RoundTrip'
  BY <1>1 DEF RoundTrip, Decompressed, Intact, Readable, Exact
<1>4. TruncatedIsRefused'
  BY <1>1 DEF TruncatedIsRefused, Decompressed, Readable
<1>5. SuccessIsComplete'
  <2> SUFFICES ASSUME e = "none", Readable(frame)
               PROVE  /\ \A r \in restored : r.to = r.from
                      /\ \A r, s \in restored : r = s \/ r.to + r.len <= s.to \/ s.to + s.len <= r.to
                      /\ frame.total > 0 =>
                           /\ \A r \in restored :
                                r.to = 0 \/ \E s \in restored : s.to < r.to /\ s.to + s.len = r.to
                           /\ \E r \in restored : r.to + r.len = frame.total
    BY <1>1 DEF SuccessIsComplete, Decompressed, Readable
  <2>1. CASE ~(frame.total > 0)
    <3>1. restored = {}  BY <2>1
    <3> QED BY <2>1, <3>1
  <2>2. CASE frame.total > 0
    <3>1. restored = RestoredUpTo(frame.total) /\ Whole(frame, frame.total)  BY <2>2
    <3> QED BY <2>2, <3>1, EverythingIsRestored
  <2> QED BY <2>1, <2>2
<1> QED BY <1>1, <1>2, <1>3, <1>4, <1>5 DEF ResultIsGood

\* A decompression that is refused.
LEMMA RefusalIsGood ==
  ASSUME IInv, StreamInv, call.op = "decompress", NEW e \in Errors, DecompressReturns(e),
         Readable(frame) /\ call.size = frame.size /\ ~Exact(frame) =>
           e = "alloc" /\ (BufferMayFail \/ ResizeMayFail # {})
  PROVE  StreamInv'
PROOF
<1>1. FrameIsGood /\ frame.total \in Nat \ {0}  BY Decompresses
<1>2. /\ call' = NoCall /\ frame' = frame
      /\ result' = [op |-> "decompress", error |-> e, cap |-> call.cap, bytes |-> call.size,
                    restored |-> {}]
  BY DEF DecompressReturns, Finish
<1>3. e \in Errors \union {"none"} /\ e # "none"  BY DEF Errors
<1> DEFINE cap == call.cap
           bytes == call.size
<1>4. result' = [op |-> "decompress", error |-> e, cap |-> cap, bytes |-> bytes,
                 restored |-> {}]
  BY <1>2
<1>5. Readable(frame) /\ bytes = frame.size /\ ~Exact(frame) =>
        e = "alloc" /\ (BufferMayFail \/ ResizeMayFail # {})
  OBVIOUS
<1> HIDE DEF cap, bytes
<1>6. ResultIsGood'  BY <1>2, <1>3, <1>4, <1>5, DecompressedIsGood
<1> QED BY <1>1, <1>2, <1>6, CallEnds, FrameStaysGood

\* Reading where no superblock begins: of a frame that the decompressor cannot read.
LEMMA GarbageIsGood ==
  ASSUME IInv, StreamInv, call.op = "decompress", ~Readable(frame), ReadGarbage
  PROVE  StreamInv'
PROOF
<1>1. FrameIsGood  BY Decompresses
<1>2. PICK e \in {"src_overflow", "invalid_input", "none"} :
        /\ call' = NoCall /\ frame' = frame
        /\ result' = [op |-> "decompress", error |-> e, cap |-> call.cap, bytes |-> call.size,
                      restored |-> {[to |-> 0, from |-> -1, len |-> call.cap]}]
  BY DEF ReadGarbage, Finish
<1>3. e \in Errors \union {"none"}  BY DEF Errors
<1> DEFINE cap == call.cap
           bytes == call.size
           restored == {[to |-> 0, from |-> -1, len |-> call.cap]}
<1>4. result' = [op |-> "decompress", error |-> e, cap |-> cap, bytes |-> bytes,
                 restored |-> restored]
  BY <1>2
<1> HIDE DEF cap, bytes, restored
<1>5. ResultIsGood'  BY <1>2, <1>3, <1>4, DecompressedIsGood
<1> QED BY <1>1, <1>2, <1>5, CallEnds, FrameStaysGood

\* The superblock that is read next, and what it leaves to read.
LEMMA NextRecord ==
  ASSUME IInv, StreamInv, call.op = "decompress", Readable(frame), LeftToRead # 0
  PROVE  /\ BlocksAt(frame, call.src) # {}
         /\ \A b \in BlocksAt(frame, call.src) :
              LET dsize == OutputSize(LeftToRead - 1)
              IN  /\ b \in frame.blocks /\ BlockOK(b) /\ b.from = call.dst /\ b.at = call.src
                  /\ call.src + 4 + b.csize <= frame.size /\ call.src + 4 < frame.size
                  /\ dsize \in Nat /\ call.dst + dsize <= frame.total
                  /\ ~Exact(frame) => dsize = b.len
                  /\ IF LeftToRead = 1
                     THEN /\ call.src + 4 + b.csize = frame.size
                          /\ call.dst + dsize = IF Exact(frame) THEN frame.total - superblock_size
                                                                ELSE frame.total
                     ELSE /\ call.dst + dsize + (LeftToRead - 2) * superblock_size + LastSize
                               = frame.total
                          /\ \E c \in frame.blocks :
                               c.from = call.dst + dsize /\ c.at = call.src + 4 + b.csize
PROOF
<1>1. /\ DecompressInv /\ DecompressPlan /\ Described(frame) /\ Whole(frame, frame.total)
      /\ superblock_size \in Nat \ {0} /\ frame.total \in Nat \ {0}
  BY Decompresses
<1>2. AtSuperblock /\ superblock_size = frame.superblock /\ call.frame = frame
  BY <1>1 DEF DecompressInv, DecompressPlan
<1> DEFINE left == LeftToRead
           z == (left - 1) * superblock_size
           y == (left - 2) * superblock_size
           total == frame.total
<1>3. /\ left \in Nat \ {0} /\ call.dst \in Nat /\ call.src \in Nat
      /\ call.dst + z + LastSize = total
      /\ \E b \in frame.blocks : b.from = call.dst /\ b.at = call.src
  BY <1>2 DEF AtSuperblock
<1>4. /\ \A b \in frame.blocks : Placed(frame, frame.total, b)
      /\ \A b, c \in frame.blocks : b = c \/ Behind(b, c) \/ Behind(c, b)
      /\ frame.size \in Nat
  BY <1>1 DEF Whole
<1>5. PICK a \in frame.blocks : a.from = call.dst /\ a.at = call.src  BY <1>3
<1>6. BlocksAt(frame, call.src) # {}  BY <1>5 DEF BlocksAt
<1>7. LastSize \in 1..superblock_size /\ (Exact(frame) <=> frame.total % superblock_size = 0)
      /\ (~Exact(frame) => LastSize = frame.total % superblock_size)
      /\ (Exact(frame) => LastSize = superblock_size)
  <2>1. frame.total % superblock_size \in 0..(superblock_size - 1)  BY <1>1, DivMod
  <2>2. Exact(frame) <=> frame.total % superblock_size = 0  BY <1>1, <1>2 DEF Exact
  <2> DEFINE r == frame.total % superblock_size
  <2>3. LastSize = IF r = 0 THEN superblock_size ELSE r  BY DEF LastSize
  <2> HIDE DEF r
  <2>4. r \in 0..(superblock_size - 1)  BY <2>1 DEF r
  <2>5. LastSize \in 1..superblock_size  BY <1>1, <2>3, <2>4
  <2> QED BY <2>2, <2>3, <2>5 DEF r
<1>8. z \in Nat /\ (left = 1 => z = 0) /\ (left # 1 => y \in Nat /\ z = y + superblock_size)
  <2>1. left - 1 \in Nat /\ superblock_size \in Nat  BY <1>1, <1>3
  <2>2. z \in Nat
    <3> HIDE DEF left
    <3> QED BY <2>1, ProductOfNaturals
  <2>3. left = 1 => z = 0
    <3> HIDE DEF left
    <3> QED BY <1>1
  <2>4. ASSUME left # 1 PROVE y \in Nat /\ z = y + superblock_size
    <3>1. left - 2 \in Nat /\ (left - 2) + 1 = left - 1  BY <1>3, <2>4
    <3> HIDE DEF left
    <3>2. y \in Nat  BY <2>1, <3>1, ProductOfNaturals
    <3>3. ((left - 2) + 1) * superblock_size = y + 1 * superblock_size
      BY <2>1, <3>1, Distributes
    <3> QED BY <2>1, <3>1, <3>2, <3>3
  <2> QED BY <2>2, <2>3, <2>4
<1> SUFFICES ASSUME NEW b \in BlocksAt(frame, call.src)
             PROVE  LET dsize == OutputSize(LeftToRead - 1)
                    IN  /\ b \in frame.blocks /\ BlockOK(b) /\ b.from = call.dst /\ b.at = call.src
                        /\ call.src + 4 + b.csize <= frame.size /\ call.src + 4 < frame.size
                        /\ dsize \in Nat /\ call.dst + dsize <= frame.total
                        /\ ~Exact(frame) => dsize = b.len
                        /\ IF LeftToRead = 1
                           THEN /\ call.src + 4 + b.csize = frame.size
                                /\ call.dst + dsize = IF Exact(frame) THEN frame.total - superblock_size
                                                                      ELSE frame.total
                           ELSE /\ call.dst + dsize + (LeftToRead - 2) * superblock_size + LastSize
                                     = frame.total
                                /\ \E c \in frame.blocks :
                                     c.from = call.dst + dsize /\ c.at = call.src + 4 + b.csize
  BY <1>6
<1>9. b \in frame.blocks /\ b.at = call.src  BY DEF BlocksAt
<1>10. Placed(frame, frame.total, b) /\ Placed(frame, frame.total, a)  BY <1>4, <1>5, <1>9
<1>11. BlockOK(b) /\ BlockOK(a)  BY <1>10 DEF Placed
<1>12. /\ b.at \in Nat /\ b.from \in Nat /\ b.len \in Nat \ {0} /\ b.csize \in Nat \ {0}
       /\ a.csize \in Nat \ {0}
  BY <1>11 DEF BlockOK
<1>13. a = b
  <2>1. ~Behind(a, b) /\ ~Behind(b, a)  BY <1>5, <1>9, <1>12 DEF Behind
  <2> QED BY <1>4, <1>5, <1>9, <2>1
<1>14. /\ b.from = call.dst /\ b.at + 4 + b.csize <= frame.size
       /\ b.from + b.len <= total /\ b.len <= superblock_size
       /\ b.len = superblock_size \/ b.from + b.len = total
       /\ b.from + b.len < total =>
            \E c \in frame.blocks : c.from = b.from + b.len /\ c.at = b.at + 4 + b.csize
  BY <1>2, <1>5, <1>10, <1>13 DEF Placed
<1> DEFINE dsize == OutputSize(left - 1)
<1>15. dsize = IF left = 1 THEN (IF Exact(frame) THEN 0 ELSE LastSize) ELSE superblock_size
  <2>1. left - 1 = 0 <=> left = 1  BY <1>3
  <2> QED BY <1>2, <1>7, <2>1 DEF OutputSize
<1> HIDE DEF z, y, total, dsize
<1>16. total \in Nat \ {0}  BY <1>1 DEF total
<1>17. CASE left = 1
  <2>1. b.len = LastSize /\ b.from + b.len = total
    BY <1>1, <1>3, <1>7, <1>8, <1>12, <1>14, <1>16, <1>17
  <2>2. b.at + 4 + b.csize = frame.size
    <3>1. b.from + b.len = frame.total  BY <2>1 DEF total
    <3> QED BY <1>1, <1>9, <3>1, LastSuperblock
  <2>3. dsize \in Nat /\ call.dst + dsize <= total /\ (~Exact(frame) => dsize = b.len)
        /\ call.dst + dsize = IF Exact(frame) THEN total - superblock_size ELSE total
    BY <1>1, <1>3, <1>7, <1>12, <1>14, <1>15, <1>16, <1>17, <2>1
  <2> HIDE DEF left
  <2> QED BY <1>3, <1>4, <1>9, <1>11, <1>12, <1>14, <1>17, <2>2, <2>3 DEF total, dsize, left
<1>18. CASE left # 1
  <2>1. b.len = superblock_size /\ b.from + b.len < total
    BY <1>1, <1>3, <1>7, <1>8, <1>12, <1>14, <1>16, <1>18
  <2>2. /\ dsize = superblock_size /\ dsize \in Nat /\ call.dst + dsize <= total
        /\ dsize = b.len
        /\ call.dst + dsize + y + LastSize = total
    BY <1>1, <1>3, <1>7, <1>8, <1>12, <1>14, <1>15, <1>16, <1>18, <2>1
  <2>3. \E c \in frame.blocks : c.from = call.dst + dsize /\ c.at = call.src + 4 + b.csize
    BY <1>9, <1>14, <2>1, <2>2
  <2>4. call.src + 4 + b.csize <= frame.size /\ call.src + 4 < frame.size
    BY <1>3, <1>4, <1>9, <1>12, <1>14
  <2> HIDE DEF left
  <2> QED BY <1>9, <1>11, <1>14, <1>18, <2>2, <2>3, <2>4 DEF total, dsize, left, y
<1> QED BY <1>17, <1>18

\* One more superblock of the output.
LEMMA RestoredGrows ==
  ASSUME Whole(frame, frame.total), NEW b \in frame.blocks
  PROVE  RestoredUpTo(b.from + b.len) = RestoredUpTo(b.from) \union {Restored(b, b.from, b.len)}
PROOF
<1>1. /\ \A c \in frame.blocks : BlockOK(c)
      /\ \A c \in frame.blocks : b = c \/ Behind(b, c) \/ Behind(c, b)
  BY DEF Whole, Placed
<1>2. \A c \in frame.blocks : c.from < b.from + b.len <=> c.from < b.from \/ c = b
  <2> SUFFICES ASSUME NEW c \in frame.blocks
               PROVE  c.from < b.from + b.len <=> c.from < b.from \/ c = b
    OBVIOUS
  <2>1. /\ c.from \in Nat /\ c.len \in Nat \ {0} /\ b.from \in Nat /\ b.len \in Nat \ {0}
    BY <1>1 DEF BlockOK
  <2> QED BY <1>1, <2>1 DEF Behind
<1>3. {c \in frame.blocks : c.from < b.from + b.len} = {c \in frame.blocks : c.from < b.from} \union {b}
  BY <1>2
<1> QED BY <1>3 DEF RestoredUpTo

\* The output grew by n superblocks: the call goes on, or returns.
LEMMA AdvanceOutputKeeps ==
  ASSUME IInv, StreamInv, call.op = "decompress",
         params' = params, superblock_size' = superblock_size,
         NEW n \in 1..call.chunks, NEW src, NEW dst, NEW restored, NEW phase \in {"one", "read"},
         AdvanceOutput(n, src, dst, restored, phase),
         Readable(frame) =>
           /\ dst \in Nat /\ src \in Nat /\ src <= call.size
           /\ IF call.chunks = n
              THEN /\ src = frame.size
                   /\ dst = IF Exact(frame) THEN frame.total - superblock_size ELSE frame.total
              ELSE /\ dst + (call.chunks - n - 1) * superblock_size + LastSize = frame.total
                   /\ \E b \in frame.blocks : b.from = dst /\ b.at = src
           /\ ~Exact(frame) => restored = RestoredUpTo(dst)
  PROVE  StreamInv'
PROOF
<1>1. /\ Decompression /\ DecompressInv /\ DecompressPlan /\ FrameIsGood /\ result = NoResult
      /\ superblock_size \in Nat \ {0} /\ call.chunks \in Nat \ {0}
      /\ frame.total \in Nat \ {0} /\ ChunkSize \in 1..call.chunks /\ Whole(frame, frame.total)
  BY Decompresses
<1>2. call.frame = frame /\ call.size \in Nat /\ call.size <= frame.size
  BY <1>1 DEF DecompressPlan
<1>3. frame.size \in Nat  BY <1>1 DEF Whole
<1>4. CASE call.chunks = n
  <2> DEFINE cap == call.cap
             bytes == call.size
             e == IF dst = frame.total THEN "none" ELSE "invalid_input"
  <2>1. /\ call' = NoCall /\ frame' = frame
        /\ result' = [op |-> "decompress", cap |-> cap, bytes |-> bytes, error |-> e,
                      restored |-> restored]
    BY <1>2, <1>4 DEF AdvanceOutput, Finish
  <2>2. e \in Errors \union {"none"}  BY DEF Errors
  <2>3. ASSUME Readable(frame)
        PROVE  /\ ~Exact(frame) => e = "none"
               /\ e = "none" => ~(bytes < frame.size) /\ restored = RestoredUpTo(frame.total)
    <3>1. src = frame.size /\ src <= bytes  BY <1>4, <2>3
    <3>2. dst = IF Exact(frame) THEN frame.total - superblock_size ELSE frame.total
      BY <1>4, <2>3
    <3>3. Exact(frame) => e # "none"  BY <1>1, <3>2
    <3>4. ~(bytes < frame.size)  BY <1>2, <1>3, <3>1
    <3>5. ~Exact(frame) => restored = RestoredUpTo(frame.total)  BY <2>3, <3>2
    <3> QED BY <3>2, <3>3, <3>4, <3>5
  <2>4. result' = [op |-> "decompress", error |-> e, cap |-> cap, bytes |-> bytes,
                   restored |-> restored]
    BY <2>1
  <2> HIDE DEF cap, bytes, e
  <2>5. Readable(frame) =>
           /\ bytes = frame.size /\ cap >= frame.total /\ ~Exact(frame) =>
                e = "none" \/ (e = "alloc" /\ (BufferMayFail \/ ResizeMayFail # {}))
           /\ e = "none" /\ frame.total > 0 =>
                /\ ~(bytes < frame.size) /\ restored = RestoredUpTo(frame.total)
                /\ Whole(frame, frame.total)
           /\ frame.total > 0 \/ restored = {}
    BY <1>1, <2>3
  <2>6. ResultIsGood'  BY <2>1, <2>2, <2>4, <2>5, DecompressedIsGood
  <2> QED BY <1>1, <2>1, <2>6, CallEnds, FrameStaysGood
<1>5. CASE call.chunks # n
  <2>1. /\ call' = [call EXCEPT !.phase = phase, !.chunks = @ - n, !.src = src, !.dst = dst,
                                !.restored = restored, !.blocks = <<>>, !.rets = <<>>]
        /\ frame' = frame /\ result' = result
    BY <1>5 DEF AdvanceOutput
  <2>2. PICK p, x, c, f, s, d, e, m, t, b, r :
          call = [op |-> "decompress", phase |-> p, size |-> x, cap |-> c, frame |-> f, src |-> s,
                  dst |-> d, restored |-> e, chunks |-> m, tasks |-> t, blocks |-> b, rets |-> r]
    BY <1>1 DEF Decompression
  <2>3. /\ call'.op = "decompress" /\ call'.phase = phase /\ call'.chunks = call.chunks - n
        /\ call'.src = src /\ call'.dst = dst /\ call'.restored = restored
        /\ call'.blocks = <<>> /\ call'.frame = call.frame /\ call'.size = call.size
        /\ call'.cap = call.cap
    BY <2>1, <2>2
  <2>4. call'.chunks \in Nat \ {0}  BY <1>1, <1>5, <2>3
  <2>5. Len(call'.blocks) = 0 /\ LeftToRead' = call.chunks - n
    BY <1>1, <2>3, <2>4 DEF LeftToRead
  <2>6. ChunkSize' \in Nat
    <3>1. Count' = Count /\ ThreadCount' = ThreadCount
      BY <2>3 DEF Count, ThreadCount
    <3>2. ThreadCount \in Nat  BY <1>1, CallFacts
    <3> QED BY <2>4, <3>1, <3>2 DEF ChunkSize, Min2
  <2>7. DecompressPlan'
    <3>1. call'.blocks \in Seq({})  BY <2>3
    <3> QED BY <1>1, <2>1, <2>3, <2>4, <2>5, <2>6, <3>1 DEF DecompressPlan
  <2>8. ASSUME Readable(frame)
        PROVE  superblock_size' = frame'.superblock /\ AtSuperblock' /\ (~Exact(frame) => ReadSoFar')
    <3>1. LastSize' = LastSize  BY <2>1 DEF LastSize
    <3>2. AtSuperblock'
      <4> DEFINE k == call.chunks - n
                 y == (k - 1) * superblock_size
      <4>1. LeftToRead' = k /\ k # 0 /\ k \in Nat  BY <2>3, <2>4, <2>5
      <4>2. dst + y + LastSize = frame.total  BY <1>5, <2>8
      <4>3. (LeftToRead' - 1) * superblock_size' = y  BY <4>1
      <4> HIDE DEF y, k
      <4> QED BY <1>5, <2>1, <2>3, <2>8, <3>1, <4>1, <4>2, <4>3 DEF AtSuperblock
    <3>3. ASSUME ~Exact(frame) PROVE ReadSoFar'
      <4>1. Pending' = {}  BY <2>3, <2>5 DEF Pending
      <4>2. RestoredUpTo(call.dst)' = restored  BY <2>1, <2>3, <2>8, <3>3 DEF RestoredUpTo
      <4> QED BY <2>3, <4>1, <4>2 DEF ReadSoFar
    <3>4. superblock_size' = frame'.superblock  BY <1>1, <2>1, <2>8 DEF DecompressInv
    <3> QED BY <3>2, <3>3, <3>4
  <2>9. DecompressInv'
    <3>1. (Readable(frame)' <=> Readable(frame)) /\ (Exact(frame)' <=> Exact(frame))
      BY <2>1 DEF Readable, Exact
    <3> QED BY <2>7, <2>8, <3>1 DEF DecompressInv
  <2>10. FrameIsGood' /\ ResultIsGood'  BY <1>1, <2>1, FrameStaysGood, NoResultIsGood
  <2> QED BY <1>1, <2>1, <2>3, <2>9, <2>10 DEF StreamInv
<1> QED BY <1>4, <1>5

-----------------------------------------------------------------------------
(* The steps of a decompression, one after the other *)

\* The pieces of the input but the last one are whole, and the last one is what
\* is left.
LEMMA LastPiece ==
  ASSUME NEW total \in Nat \ {0}, NEW size \in Nat \ {0}
  PROVE  /\ Pieces(total, size) \in Nat \ {0}
         /\ (Pieces(total, size) - 1) * size
              + (IF total % size = 0 THEN size ELSE total % size) = total
PROOF
<1> DEFINE q == total \div size
           r == total % size
           n == Pieces(total, size)
<1>1. q \in Nat /\ r \in 0..(size - 1) /\ total = size * q + r  BY DivMod
<1>2. n = q + (IF r = 0 THEN 0 ELSE 1)  BY DEF Pieces
<1>3. size * q = q * size  BY <1>1
<1>4. n \in Nat \ {0}  BY PiecesCeiling
<1> HIDE DEF q, r, n
<1>5. CASE r = 0
  <2>1. n = q /\ q \in Nat \ {0}  BY <1>1, <1>2, <1>4, <1>5
  <2>2. ((q - 1) + 1) * size = (q - 1) * size + 1 * size  BY <2>1, Distributes
  <2>3. (q - 1) + 1 = q /\ 1 * size = size  BY <2>1
  <2> DEFINE x == (q - 1) * size
             y == q * size
  <2>4. y = x + size /\ total = y + r /\ x \in Int  BY <1>1, <1>3, <2>1, <2>2, <2>3, Distributes
  <2>5. (n - 1) * size = x  BY <2>1
  <2> HIDE DEF x, y
  <2>6. (n - 1) * size + size = total  BY <1>5, <2>4, <2>5
  <2> QED BY <1>4, <1>5, <2>6 DEF n, r
<1>6. CASE r # 0
  <2>1. n = q + 1  BY <1>2, <1>6
  <2>2. n - 1 = q  BY <1>1, <2>1
  <2>3. (n - 1) * size + r = total  BY <1>1, <1>3, <2>2
  <2> QED BY <1>4, <1>6, <2>3 DEF n, r
<1> QED BY <1>5, <1>6

\* A frame is not shorter than its header.
LEMMA HeaderFits ==
  ASSUME NEW f, Described(f), Whole(f, f.total)
  PROVE  f.header \in {8, 12} /\ f.size \in Nat /\ f.header <= f.size
PROOF
<1>1. f.header \in {8, 12} /\ f.size \in Nat  BY DEF Described, Whole
<1>2. CASE f.total = 0  BY <1>1, <1>2 DEF Whole
<1>3. CASE f.total # 0
  <2>1. PICK b \in f.blocks : TRUE  BY <1>3 DEF Whole
  <2>2. Placed(f, f.total, b)  BY DEF Whole
  <2>3. b.at \in Nat /\ b.csize \in Nat  BY <2>2 DEF Placed, BlockOK
  <2>4. f.header <= b.at /\ b.at + 4 + b.csize <= f.size  BY <2>2 DEF Placed
  <2> QED BY <1>1, <2>3, <2>4
<1> QED BY <1>1, <1>2, <1>3

\* The superblock size that the header gives back.
LEMMA SizeIsRead ==
  ASSUME NEW f, Described(f), Readable(f), NEW z \in SuperblockSizes(f)
  PROVE  z = f.superblock
  BY DEF Described, Readable, SuperblockSizes, StoredSuperblockSizes

\* A decompression that ends with the header.
LEMMA HeaderEnds ==
  ASSUME IInv, StreamInv, FrameIsGood, frame # NoFrame, frame' = frame,
         NEW size \in Int, NEW cap \in Int, size <= frame.size, DecompressEnds(size, cap)
  PROVE  StreamInv'
PROOF
<1>1. Described(frame) /\ Whole(frame, frame.total)  BY DEF FrameIsGood
<1>2. /\ frame.header \in {8, 12} /\ frame.size \in Nat /\ frame.header <= frame.size
      /\ frame.total \in Nat
  BY <1>1, HeaderFits DEF IInv, FrameInv, FrameOK
<1>3. HeaderRead \in {8, 12} /\ (Readable(frame) => HeaderRead = frame.header)
  BY <1>2 DEF HeaderRead, Readable
<1> DEFINE none == {}
<1>4. PICK e \in {"src_overflow", "dst_overflow", "none"} :
        /\ call' = NoCall
        /\ result' = [op |-> "decompress", error |-> e, cap |-> cap, bytes |-> size,
                      restored |-> none]
        /\ e = "src_overflow" => size < 8 \/ (size < HeaderRead /\ frame.total \in 1..cap)
        /\ e = "dst_overflow" => frame.total > cap
        /\ e = "none" => frame.total = 0
  BY DEF DecompressEnds, Finish
<1>5. e \in Errors \union {"none"}  BY DEF Errors
<1>6. Readable(frame) =>
        /\ size = frame.size /\ cap >= frame.total /\ ~Exact(frame) =>
             e = "none" \/ (e = "alloc" /\ (BufferMayFail \/ ResizeMayFail # {}))
        /\ e = "none" /\ frame.total > 0 =>
             /\ ~(size < frame.size) /\ none = RestoredUpTo(frame.total)
             /\ Whole(frame, frame.total)
        /\ frame.total > 0 \/ none = {}
  <2> SUFFICES ASSUME Readable(frame)
               PROVE  size = frame.size /\ cap >= frame.total => e = "none"
    BY <1>2, <1>4
  <2> QED BY <1>2, <1>3, <1>4
<1> HIDE DEF none
<1>7. ResultIsGood'  BY <1>4, <1>5, <1>6, DecompressedIsGood
<1> QED BY <1>4, <1>7, CallEnds, FrameStaysGood

\* A decompression that takes the superblock size of the frame.
LEMMA HeaderStarts ==
  ASSUME IInv, StreamInv, FrameIsGood, frame # NoFrame, frame' = frame,
         NEW size \in Nat, NEW cap \in Nat, size <= frame.size, DecompressStarts(size, cap)
  PROVE  StreamInv'
PROOF
<1>1. Described(frame) /\ Whole(frame, frame.total) /\ FrameOK(frame)
  BY DEF FrameIsGood, IInv, FrameInv
<1>2. size >= HeaderRead /\ frame.total \in Nat \ {0} /\ frame.total <= cap /\ result' = NoResult
  BY <1>1 DEF DecompressStarts, FrameOK
<1>3. PICK superblock \in SuperblockSizes(frame) :
        /\ UseSuperblockSize(superblock)
        /\ call' = [op |-> "decompress", phase |-> "ensure", size |-> size, cap |-> cap,
                    frame |-> frame, src |-> HeaderRead, dst |-> 0, restored |-> {},
                    chunks |-> Pieces(frame.total, superblock), tasks |-> {},
                    blocks |-> <<>>, rets |-> <<>>]
  BY DEF DecompressStarts
<1>4. /\ call'.op = "decompress" /\ call'.phase = "ensure" /\ call'.size = size
      /\ call'.cap = cap /\ call'.frame = frame /\ call'.src = HeaderRead /\ call'.dst = 0
      /\ call'.restored = {} /\ call'.chunks = Pieces(frame.total, superblock)
      /\ call'.blocks = <<>>
  BY <1>3
<1>5. superblock \in Nat \ {0}  BY <1>1, ReadSizesArePositive
<1>6. superblock_size' = superblock  BY <1>3 DEF UseSuperblockSize
<1>7. /\ Pieces(frame.total, superblock) \in Nat \ {0}
      /\ (Pieces(frame.total, superblock) - 1) * superblock
           + (IF frame.total % superblock = 0 THEN superblock ELSE frame.total % superblock)
           = frame.total
  BY <1>2, <1>5, LastPiece
<1>8. DecompressPlan'
  <2>1. call'.blocks \in Seq({})  BY <1>4
  <2> QED BY <1>2, <1>4, <1>7, <2>1 DEF DecompressPlan
<1>9. ASSUME Readable(frame)
      PROVE  superblock_size' = frame'.superblock /\ AtSuperblock' /\ ReadSoFar'
  <2>1. superblock_size' = frame'.superblock  BY <1>1, <1>6, <1>9, SizeIsRead
  <2>2. frame.header \in {8, 12} /\ frame.size \in Nat /\ frame.header <= frame.size
    BY <1>1, HeaderFits
  <2>3. HeaderRead = frame.header /\ HeaderRead \in Nat  BY <1>9, <2>2 DEF HeaderRead, Readable
  <2>4. \E b \in frame.blocks : b.from = 0 /\ b.at = frame.header  BY <1>1, <1>2 DEF Whole
  <2> DEFINE n == Pieces(frame.total, superblock)
  <2>5. LeftToRead' = n
    <3>1. Len(call'.blocks) = 0  BY <1>4
    <3> HIDE DEF n
    <3>2. call'.chunks = n  BY <1>4 DEF n
    <3> QED BY <1>7, <3>1, <3>2 DEF LeftToRead, n
  <2>6. LastSize' = IF frame.total % superblock = 0 THEN superblock ELSE frame.total % superblock
    BY <1>6 DEF LastSize
  <2>7. call'.dst + (LeftToRead' - 1) * superblock_size' + LastSize' = frame'.total
    <3> DEFINE x == (n - 1) * superblock
    <3>1. x + LastSize' = frame.total  BY <1>7, <2>6
    <3>2. (LeftToRead' - 1) * superblock_size' = x  BY <1>6, <2>5
    <3>3. x \in Nat
      <4>1. n - 1 \in Nat /\ superblock \in Nat  BY <1>5, <1>7
      <4> HIDE DEF n
      <4> QED BY <4>1, ProductOfNaturals
    <3> HIDE DEF x, n
    <3> QED BY <1>4, <3>1, <3>2, <3>3
  <2> HIDE DEF n
  <2>8. n \in Nat \ {0}  BY <1>7 DEF n
  <2>9. AtSuperblock'  BY <1>2, <1>4, <2>3, <2>4, <2>5, <2>7, <2>8 DEF AtSuperblock
  <2>10. ReadSoFar'
    <3>1. Pending' = {}  BY <1>4 DEF Pending
    <3>2. \A b \in frame.blocks : ~(b.from < 0)  BY <1>1 DEF Whole, Placed, BlockOK
    <3>3. RestoredUpTo(call.dst)' = {}  BY <1>4, <3>2 DEF RestoredUpTo
    <3> QED BY <1>4, <3>1, <3>3 DEF ReadSoFar
  <2> QED BY <2>1, <2>9, <2>10
<1>10. DecompressInv'
  <2>1. Readable(frame)' <=> Readable(frame)  BY DEF Readable
  <2> QED BY <1>8, <1>9, <2>1 DEF DecompressInv
<1>11. FrameIsGood' /\ ResultIsGood'  BY <1>2, FrameStaysGood, NoResultIsGood
<1> QED BY <1>2, <1>4, <1>10, <1>11 DEF StreamInv

LEMMA DecompressBeginKeeps ==
  ASSUME IInv, StreamInv, DecompressBegin
  PROVE  StreamInv'
PROOF
<1>1. frame # NoFrame /\ frame' = frame /\ FrameIsGood  BY DEF DecompressBegin, StreamInv
<1>2. PICK cut \in Cuts, short \in {0, 1} :
        LET size == frame.size - cut
            cap  == IF frame.total = 0 THEN 0 ELSE frame.total - short
        IN  cut < frame.size /\ (DecompressEnds(size, cap) \/ DecompressStarts(size, cap))
  BY DEF DecompressBegin
<1> DEFINE size == frame.size - cut
           cap  == IF frame.total = 0 THEN 0 ELSE frame.total - short
<1>3. cut < frame.size /\ (DecompressEnds(size, cap) \/ DecompressStarts(size, cap))  BY <1>2
<1>4. frame.size \in Nat /\ frame.total \in Nat
  BY <1>1, HeaderFits DEF FrameIsGood, IInv, FrameInv, FrameOK
<1>5. cut \in Nat  BY CodecAssumption
<1>6. size \in Nat /\ cap \in Nat /\ size <= frame.size  BY <1>3, <1>4, <1>5
<1> HIDE DEF size, cap
<1>7. size \in Int /\ cap \in Int  BY <1>6
<1> QED BY <1>1, <1>3, <1>6, <1>7, HeaderEnds, HeaderStarts

\* A step that does not end the decompression.
LEMMA DecompressionKeeps ==
  ASSUME IInv, StreamInv, call.op = "decompress", superblock_size' = superblock_size,
         frame' = frame, result' = result, call'.op = "decompress", DecompressPlan',
         Readable(frame) => AtSuperblock' /\ (~Exact(frame) => ReadSoFar')
  PROVE  StreamInv'
PROOF
<1>1. DecompressInv /\ FrameIsGood /\ result = NoResult  BY Decompresses
<1>2. (Readable(frame)' <=> Readable(frame)) /\ (Exact(frame)' <=> Exact(frame))
  BY DEF Readable, Exact
<1>3. DecompressInv'  BY <1>1, <1>2 DEF DecompressInv
<1>4. FrameIsGood' /\ ResultIsGood'  BY <1>1, FrameStaysGood, NoResultIsGood
<1> QED BY <1>1, <1>3, <1>4 DEF StreamInv

\* The decompressor stays where it is.
LEMMA SamePlace ==
  ASSUME AtSuperblock, superblock_size' = superblock_size, frame' = frame,
         call'.src = call.src, call'.dst = call.dst, call'.size = call.size,
         call'.chunks = call.chunks, Len(call'.blocks) = Len(call.blocks)
  PROVE  AtSuperblock'
PROOF
<1>1. LeftToRead' = LeftToRead  BY DEF LeftToRead
<1>2. LastSize' = LastSize  BY DEF LastSize
<1>3. Exact(frame)' <=> Exact(frame)  BY DEF Exact
<1> QED BY <1>1, <1>2, <1>3 DEF AtSuperblock

LEMMA SameChunk ==
  ASSUME params' = params, superblock_size' = superblock_size, call'.frame = call.frame,
         call'.chunks = call.chunks
  PROVE  ChunkSize' = ChunkSize
  BY DEF ChunkSize, ThreadCount, Count

\* What a superblock decompresses to: itself, when it is given its own size.
LEMMA DecodingIsRight ==
  ASSUME superblock_size \in Nat, NEW b, NEW dsize, NEW buffer,
         NEW r \in DecodeResults(b, dsize, buffer)
  PROVE  /\ r.error \in {"none", "alloc", "invalid_input"}
         /\ r.error = "alloc" => BufferMayFail
         /\ BlockOK(b) /\ dsize = b.len => r.error # "invalid_input"
PROOF
<1> DEFINE verdict == IF Decodes(b, dsize) THEN "none" ELSE "invalid_input"
<1>1. BlockOK(b) /\ dsize = b.len => verdict = "none"
  <2> SUFFICES ASSUME BlockOK(b), dsize = b.len PROVE Decodes(b, dsize)  OBVIOUS
  <2>1. /\ b.code \in Codes /\ b.len \in Nat /\ (b.code = "COPY" => b.csize = b.len)
    BY DEF BlockOK
  <2>2. b.code = "COPY" => Decodes(b, dsize)  BY <2>1 DEF Decodes
  <2>3. b.code = "ZSTD" => Decodes(b, dsize)  BY <2>1 DEF Decodes
  <2>4. b.code \in {"TRANSPOSED_ZSTD", "TRANSPOSED_DELTA_ZSTD"} => Decodes(b, dsize)
    BY <2>1 DEF Decodes
  <2>5. b.code \in {"BLOCK", "BLOCK_ZSTD"} => Decodes(b, dsize)  BY <2>1 DEF Decodes
  <2> QED BY <2>1, <2>2, <2>3, <2>4, <2>5 DEF Codes
<1>2. verdict \in {"none", "invalid_input"}  OBVIOUS
<1> HIDE DEF verdict
<1>3. CASE NeedsBuffer(b.code)
  <2>1. r \in {[buffer |-> c, error |-> IF c = 0 THEN "alloc" ELSE verdict] : c \in Made(buffer)}
    BY <1>3, Zenon DEF DecodeResults, verdict
  <2>2. PICK c \in Made(buffer) : r.error = IF c = 0 THEN "alloc" ELSE verdict  BY <2>1
  <2>3. c = 0 => BufferMayFail  BY <2>2 DEF Made
  <2> QED BY <1>1, <1>2, <2>2, <2>3
<1>4. CASE ~NeedsBuffer(b.code)
  <2>1. r \in {[buffer |-> buffer, error |-> verdict]}  BY <1>4, Zenon DEF DecodeResults, verdict
  <2> QED BY <1>1, <1>2, <2>1
<1> QED BY <1>3, <1>4

LEMMA DecompressEnsureKeeps ==
  ASSUME IInv, StreamInv, DecompressEnsure
  PROVE  StreamInv'
PROOF
<1>1. call.op = "decompress" /\ call.phase = "ensure"  BY DEF DecompressEnsure, Decompressing
<1>2. /\ Decompression /\ DecompressInv /\ DecompressPlan /\ ChunkSize \in 1..call.chunks
      /\ call.chunks \in Nat \ {0}
  BY <1>1, Decompresses
<1>3. params' = params /\ superblock_size' = superblock_size  BY DEF DecompressEnsure
<1>4. ASSUME NEW phase \in {"one", "read"}, call' = [call EXCEPT !.phase = phase],
             frame' = frame, result' = result
      PROVE  StreamInv'
  <2>1. PICK p, x, c, f, s, d, e, m, t, b, r :
          call = [op |-> "decompress", phase |-> p, size |-> x, cap |-> c, frame |-> f, src |-> s,
                  dst |-> d, restored |-> e, chunks |-> m, tasks |-> t, blocks |-> b, rets |-> r]
    BY <1>2 DEF Decompression
  <2>2. /\ call'.op = "decompress" /\ call'.phase = phase /\ call'.chunks = call.chunks
        /\ call'.src = call.src /\ call'.dst = call.dst /\ call'.restored = call.restored
        /\ call'.blocks = call.blocks /\ call'.frame = call.frame /\ call'.size = call.size
        /\ call'.cap = call.cap
    BY <1>4, <2>1
  <2>3. call.blocks = <<>> /\ Len(call.blocks) = 0  BY <1>1, <1>2 DEF DecompressPlan
  <2>4. ChunkSize' = ChunkSize  BY <1>3, <2>2, SameChunk
  <2>5. DecompressPlan'
    <3>1. Len(call'.blocks) <= ChunkSize'  BY <1>2, <2>2, <2>3, <2>4
    <3>2. call'.blocks \in Seq({})  BY <2>2, <2>3
    <3> QED BY <1>2, <1>4, <2>2, <2>3, <3>1, <3>2 DEF DecompressPlan
  <2>6. ASSUME Readable(frame) PROVE AtSuperblock' /\ (~Exact(frame) => ReadSoFar')
    <3>1. AtSuperblock /\ (~Exact(frame) => ReadSoFar)  BY <1>2, <2>6 DEF DecompressInv
    <3>2. AtSuperblock'  BY <1>3, <1>4, <2>2, <3>1, SamePlace
    <3>3. Pending = {} /\ Pending' = {}  BY <1>1, <2>2, <2>3 DEF Pending
    <3>4. RestoredUpTo(call.dst)' = RestoredUpTo(call.dst)  BY <1>4, <2>2 DEF RestoredUpTo
    <3>5. ~Exact(frame) => ReadSoFar'  BY <2>2, <3>1, <3>3, <3>4 DEF ReadSoFar
    <3> QED BY <3>2, <3>5
  <2> QED BY <1>1, <1>3, <1>4, <2>2, <2>5, <2>6, DecompressionKeeps
<1>5. ASSUME NEW n, EnsureFails(n), DecompressReturns("alloc")
      PROVE  StreamInv'
  <2>1. ResizeMayFail # {}  BY <1>5 DEF EnsureFails
  <2>2. "alloc" \in Errors  BY DEF Errors
  <2> QED BY <1>1, <1>5, <2>1, <2>2, RefusalIsGood
<1>6. \/ \E phase \in {"one", "read"} :
           call' = [call EXCEPT !.phase = phase] /\ frame' = frame /\ result' = result
      \/ \E n : EnsureFails(n) /\ DecompressReturns("alloc")
  BY DEF DecompressEnsure
<1> QED BY <1>4, <1>5, <1>6

LEMMA DecompressOneKeeps ==
  ASSUME IInv, StreamInv, DecompressOne
  PROVE  StreamInv'
PROOF
<1>1. call.op = "decompress" /\ call.phase = "one"  BY DEF DecompressOne, Decompressing
<1>2. /\ Decompression /\ DecompressInv /\ DecompressPlan /\ Whole(frame, frame.total)
      /\ call.chunks \in Nat \ {0} /\ superblock_size \in Nat \ {0}
  BY <1>1, Decompresses
<1>3. /\ call.frame = frame /\ call.size \in Nat /\ call.size <= frame.size
      /\ call.cap \in Nat /\ frame.total \in Nat /\ frame.total <= call.cap
      /\ call.blocks = <<>> /\ frame.size \in Nat
  BY <1>1, <1>2 DEF DecompressPlan, Whole
<1>4. LeftToRead = call.chunks /\ LeftToRead # 0  BY <1>2, <1>3 DEF LeftToRead
<1> DEFINE dsize == OutputSize(call.chunks - 1)
<1>5. Readable(frame) =>
        /\ BlocksAt(frame, call.src) # {}
        /\ call.src \in Nat /\ call.dst \in Nat
        /\ \A b \in BlocksAt(frame, call.src) :
             /\ b \in frame.blocks /\ BlockOK(b) /\ b.from = call.dst
             /\ call.src + 4 + b.csize <= frame.size /\ call.src + 4 < frame.size
             /\ dsize \in Nat /\ call.dst + dsize <= frame.total
             /\ ~Exact(frame) => dsize = b.len
             /\ IF call.chunks = 1
                THEN /\ call.src + 4 + b.csize = frame.size
                     /\ call.dst + dsize = IF Exact(frame) THEN frame.total - superblock_size
                                                           ELSE frame.total
                ELSE /\ call.dst + dsize + (call.chunks - 2) * superblock_size + LastSize
                          = frame.total
                     /\ \E c \in frame.blocks :
                          c.from = call.dst + dsize /\ c.at = call.src + 4 + b.csize
  <2>1. Readable(frame) => call.src \in Nat /\ call.dst \in Nat
    BY <1>2 DEF DecompressInv, AtSuperblock
  <2> QED BY <1>1, <1>4, <2>1, NextRecord
<1> HIDE DEF dsize
<1>6. \/ call.src + 4 > call.size /\ DecompressReturns("src_overflow")
      \/ BlocksAt(frame, call.src) = {} /\ ReadGarbage
      \/ \E b \in BlocksAt(frame, call.src) :
           \/ ~FitsBoth(call.src, b.csize, call.dst, dsize) /\ DecompressReturns("invalid_input")
           \/ /\ FitsBoth(call.src, b.csize, call.dst, dsize)
              /\ \E r \in DecodeResults(b, dsize, tmp_buffers1[1]) :
                   /\ params' = params /\ superblock_size' = superblock_size
                   /\ \/ r.error # "none" /\ DecompressReturns(r.error)
                      \/ r.error = "none"
                         /\ AdvanceOutput(1, call.src + 4 + b.csize, call.dst + dsize,
                              call.restored \union {Restored(b, call.dst, dsize)}, "one")
  BY <1>3 DEF DecompressOne, dsize
<1>7. CASE call.src + 4 > call.size /\ DecompressReturns("src_overflow")
  <2>1. ~(Readable(frame) /\ call.size = frame.size)  BY <1>3, <1>5, <1>7
  <2>2. "src_overflow" \in Errors  BY DEF Errors
  <2> QED BY <1>1, <1>7, <2>1, <2>2, RefusalIsGood
<1>8. CASE BlocksAt(frame, call.src) = {} /\ ReadGarbage
  BY <1>1, <1>5, <1>8, GarbageIsGood
<1>9. ASSUME NEW b \in BlocksAt(frame, call.src),
             ~FitsBoth(call.src, b.csize, call.dst, dsize), DecompressReturns("invalid_input")
      PROVE  StreamInv'
  <2>1. ~(Readable(frame) /\ call.size = frame.size)
    <3> SUFFICES ASSUME Readable(frame), call.size = frame.size PROVE FALSE  OBVIOUS
    <3>1. /\ call.src + 4 + b.csize <= frame.size /\ dsize \in Nat /\ call.dst \in Nat
          /\ call.dst + dsize <= frame.total
      BY <1>5
    <3> QED BY <1>3, <1>9, <3>1 DEF FitsBoth
  <2>2. "invalid_input" \in Errors  BY DEF Errors
  <2> QED BY <1>1, <1>9, <2>1, <2>2, RefusalIsGood
<1>10. ASSUME NEW b \in BlocksAt(frame, call.src), NEW r \in DecodeResults(b, dsize, tmp_buffers1[1]),
              r.error # "none", DecompressReturns(r.error)
       PROVE  StreamInv'
  <2>1. /\ r.error \in {"none", "alloc", "invalid_input"} /\ (r.error = "alloc" => BufferMayFail)
        /\ BlockOK(b) /\ dsize = b.len => r.error # "invalid_input"
    BY <1>2, DecodingIsRight
  <2>2. Readable(frame) /\ ~Exact(frame) => r.error = "alloc" /\ BufferMayFail
    BY <1>5, <1>10, <2>1
  <2> DEFINE e == r.error
  <2>3. e \in Errors  BY <1>10, <2>1 DEF Errors
  <2>4. DecompressReturns(e) /\ (Readable(frame) /\ ~Exact(frame) => e = "alloc" /\ BufferMayFail)
    BY <1>10, <2>2
  <2> HIDE DEF e
  <2> QED BY <1>1, <2>3, <2>4, RefusalIsGood
<1>11. ASSUME NEW b \in BlocksAt(frame, call.src), FitsBoth(call.src, b.csize, call.dst, dsize),
              params' = params, superblock_size' = superblock_size,
              AdvanceOutput(1, call.src + 4 + b.csize, call.dst + dsize,
                call.restored \union {Restored(b, call.dst, dsize)}, "one")
       PROVE  StreamInv'
  <2> DEFINE src == call.src + 4 + b.csize
             dst == call.dst + dsize
             restored == call.restored \union {Restored(b, call.dst, dsize)}
  <2>1. ASSUME Readable(frame)
        PROVE  /\ dst \in Nat /\ src \in Nat /\ src <= call.size
               /\ IF call.chunks = 1
                  THEN /\ src = frame.size
                       /\ dst = IF Exact(frame) THEN frame.total - superblock_size ELSE frame.total
                  ELSE /\ dst + (call.chunks - 1 - 1) * superblock_size + LastSize = frame.total
                       /\ \E c \in frame.blocks : c.from = dst /\ c.at = src
               /\ ~Exact(frame) => restored = RestoredUpTo(dst)
    <3>1. /\ b \in frame.blocks /\ BlockOK(b) /\ b.from = call.dst /\ dsize \in Nat
          /\ call.src \in Nat /\ call.dst \in Nat /\ (~Exact(frame) => dsize = b.len)
      BY <1>5, <2>1
    <3>2. dst \in Nat /\ src \in Nat /\ src <= call.size
      BY <1>11, <3>1 DEF BlockOK, FitsBoth
    <3>3. call.chunks - 1 - 1 = call.chunks - 2  BY <1>2
    <3>4. IF call.chunks = 1
          THEN /\ src = frame.size
               /\ dst = IF Exact(frame) THEN frame.total - superblock_size ELSE frame.total
          ELSE /\ dst + (call.chunks - 1 - 1) * superblock_size + LastSize = frame.total
               /\ \E c \in frame.blocks : c.from = dst /\ c.at = src
      BY <1>5, <2>1, <3>3
    <3>5. ASSUME ~Exact(frame) PROVE restored = RestoredUpTo(dst)
      <4>1. ReadSoFar  BY <1>2, <2>1, <3>5 DEF DecompressInv
      <4>2. Pending = {}  BY <1>1 DEF Pending
      <4>3. RestoredUpTo(call.dst) = call.restored  BY <4>1, <4>2 DEF ReadSoFar
      <4>4. RestoredUpTo(b.from + b.len) = RestoredUpTo(b.from) \union {Restored(b, b.from, b.len)}
        BY <1>2, <3>1, RestoredGrows
      <4> QED BY <3>1, <3>5, <4>3, <4>4
    <3> QED BY <3>2, <3>4, <3>5
  <2>2. AdvanceOutput(1, src, dst, restored, "one") /\ 1 \in 1..call.chunks
    BY <1>2, <1>11
  <2> HIDE DEF src, dst, restored
  <2> QED BY <1>1, <1>11, <2>1, <2>2, AdvanceOutputKeeps
<1> QED BY <1>6, <1>7, <1>8, <1>9, <1>10, <1>11

\* One more record.
LEMMA OneMore ==
  ASSUME NEW S, NEW q \in Seq(S), NEW x
  PROVE  /\ Append(q, x) \in Seq(S \union {x})
         /\ Len(Append(q, x)) = Len(q) + 1 /\ Len(q) \in Nat
         /\ \A k \in 1..Len(q) : Append(q, x)[k] = q[k]
         /\ Append(q, x)[Len(q) + 1] = x
PROOF
<1>1. q \in Seq(S \union {x})  OBVIOUS
<1> QED BY <1>1

\* What is known of the chunked loop.
LEMMA ReadingFacts ==
  ASSUME IInv, StreamInv, call.op = "decompress"
  PROVE  /\ call.frame = frame /\ call.size \in Nat /\ call.size <= frame.size
         /\ call.cap \in Nat /\ frame.total \in Nat /\ frame.total <= call.cap
         /\ frame.size \in Nat /\ (\E S : call.blocks \in Seq(S)) /\ Len(call.blocks) \in Nat
         /\ call.chunks \in Nat \ {0} /\ superblock_size \in Nat \ {0}
         /\ ChunkSize \in 1..call.chunks /\ Whole(frame, frame.total)
         /\ \A b \in frame.blocks : BlockOK(b)
         /\ Readable(frame) => AtSuperblock /\ (~Exact(frame) => ReadSoFar)
PROOF
<1>1. /\ DecompressInv /\ DecompressPlan /\ Whole(frame, frame.total)
      /\ call.chunks \in Nat \ {0} /\ superblock_size \in Nat \ {0}
      /\ ChunkSize \in 1..call.chunks /\ frame.total \in Nat \ {0}
  BY Decompresses
<1>2. /\ call.frame = frame /\ call.size \in Nat /\ call.size <= frame.size
      /\ call.cap \in Nat /\ frame.total <= call.cap /\ (\E S : call.blocks \in Seq(S))
  BY <1>1 DEF DecompressPlan
<1>3. Len(call.blocks) \in Nat  BY <1>2
<1>4. frame.size \in Nat /\ \A b \in frame.blocks : BlockOK(b)  BY <1>1 DEF Whole, Placed
<1>5. Readable(frame) => AtSuperblock /\ (~Exact(frame) => ReadSoFar)  BY <1>1 DEF DecompressInv
<1> QED BY <1>1, <1>2, <1>3, <1>4, <1>5

\* A record is read.
LEMMA RecordIsRead ==
  ASSUME IInv, StreamInv, call.op = "decompress", call.phase = "read",
         Len(call.blocks) < ChunkSize, params' = params, superblock_size' = superblock_size,
         NEW b \in BlocksAt(frame, call.src), NEW dsize,
         dsize = OutputSize(LeftToRead - 1), FitsBoth(call.src, b.csize, call.dst, dsize),
         call' = [call EXCEPT !.blocks = Append(@, [block |-> b, dsize |-> dsize,
                                                    dst |-> call.dst]),
                              !.src = @ + 4 + b.csize, !.dst = @ + dsize],
         frame' = frame, result' = result
  PROVE  StreamInv'
PROOF
<1>1. /\ call.frame = frame /\ call.size \in Nat /\ Len(call.blocks) \in Nat
      /\ call.chunks \in Nat \ {0} /\ superblock_size \in Nat \ {0}
      /\ ChunkSize \in 1..call.chunks /\ Whole(frame, frame.total)
      /\ Readable(frame) => AtSuperblock /\ (~Exact(frame) => ReadSoFar)
  BY ReadingFacts
<1>2. Decompression /\ DecompressPlan  BY Decompresses
<1> DEFINE n == Len(call.blocks)
           left == LeftToRead
           record == [block |-> b, dsize |-> dsize, dst |-> call.dst]
           blocks == Append(call.blocks, record)
           src == call.src + 4 + b.csize
           dst == call.dst + dsize
<1>3. left \in Nat \ {0} /\ left = call.chunks - n  BY <1>1 DEF LeftToRead
<1>4. PICK S : call.blocks \in Seq(S)  BY ReadingFacts
<1>5. /\ blocks \in Seq(S \union {record}) /\ Len(blocks) = n + 1
      /\ \A k \in 1..n : blocks[k] = call.blocks[k]
      /\ blocks[n + 1] = record
  <2> HIDE DEF record
  <2> QED BY <1>4, OneMore
<1>6. PICK p, x, c, f, s, d, e, m, t, q, r :
        call = [op |-> "decompress", phase |-> p, size |-> x, cap |-> c, frame |-> f, src |-> s,
                dst |-> d, restored |-> e, chunks |-> m, tasks |-> t, blocks |-> q, rets |-> r]
  BY <1>2 DEF Decompression
<1>7. call' = [call EXCEPT !.blocks = blocks, !.src = src, !.dst = dst]  BY <1>6
<1> HIDE DEF blocks, src, dst, record
<1>8. /\ call'.op = "decompress" /\ call'.phase = "read" /\ call'.chunks = call.chunks
      /\ call'.src = src /\ call'.dst = dst /\ call'.restored = call.restored
      /\ call'.blocks = blocks /\ call'.frame = call.frame /\ call'.size = call.size
      /\ call'.cap = call.cap
  BY <1>6, <1>7
<1>9. ChunkSize' = ChunkSize  BY <1>8, SameChunk
<1>10. LeftToRead' = left - 1
  <2>1. LeftToRead' = call.chunks - (n + 1)  BY <1>5, <1>8 DEF LeftToRead
  <2> HIDE DEF left, n
  <2>2. n \in Nat  BY <1>1 DEF n
  <2> QED BY <1>1, <1>3, <2>1, <2>2
<1>11. DecompressPlan'
  <2>1. Len(call'.blocks) <= ChunkSize'  BY <1>1, <1>5, <1>8, <1>9
  <2>2. \E Q : call'.blocks \in Seq(Q)  BY <1>5, <1>8
  <2> QED BY <1>1, <1>2, <1>8, <2>1, <2>2 DEF DecompressPlan
<1>12. ASSUME Readable(frame) PROVE AtSuperblock' /\ (~Exact(frame) => ReadSoFar')
  <2>1. /\ b \in frame.blocks /\ BlockOK(b) /\ b.from = call.dst
        /\ dsize \in Nat /\ (~Exact(frame) => dsize = b.len)
        /\ IF left = 1
           THEN /\ src = frame.size
                /\ dst = IF Exact(frame) THEN frame.total - superblock_size ELSE frame.total
           ELSE /\ dst + (left - 2) * superblock_size + LastSize = frame.total
                /\ \E a \in frame.blocks : a.from = dst /\ a.at = src
    <3>1. left # 0  BY <1>3
    <3> QED BY <1>12, <3>1, NextRecord DEF src, dst
  <2>2. dst \in Nat /\ src \in Nat /\ src <= call.size
    <3>1. call.src \in Nat /\ call.dst \in Nat  BY <1>1, <1>12 DEF AtSuperblock
    <3> QED BY <2>1, <3>1 DEF src, dst, BlockOK, FitsBoth
  <2>3. AtSuperblock'
    <3>1. left - 1 \in Nat /\ (left - 1) - 1 = left - 2 /\ (left - 1 = 0 <=> left = 1)  BY <1>3
    <3>2. Exact(frame)' <=> Exact(frame)  BY DEF Exact
    <3>3. LastSize' = LastSize  BY DEF LastSize
    <3> HIDE DEF left
    <3>4. (LeftToRead' - 1) * superblock_size' = (left - 2) * superblock_size  BY <1>10, <3>1
    <3> DEFINE y == (left - 2) * superblock_size
    <3>5. /\ (LeftToRead' - 1) * superblock_size' = y
          /\ left # 1 => dst + y + LastSize = frame.total
      BY <2>1, <3>4
    <3> HIDE DEF y
    <3> QED BY <1>8, <1>10, <2>1, <2>2, <3>1, <3>2, <3>3, <3>5 DEF AtSuperblock
  <2>4. ASSUME ~Exact(frame) PROVE ReadSoFar'
    <3>1. ReadSoFar /\ Pending = 1..n  BY <1>1, <1>12, <2>4 DEF Pending
    <3>2. Pending' = 1..(n + 1)  BY <1>5, <1>8 DEF Pending
    <3>3. 1..(n + 1) = (1..n) \union {n + 1}
      <4> HIDE DEF n
      <4>1. n \in Nat  BY <1>1 DEF n
      <4> QED BY <4>1
    <3>4. RecordIsGood(record)  BY <2>1, <2>4 DEF RecordIsGood, record
    <3>5. RestoredBy(record) = Restored(b, b.from, b.len)
      BY <2>1, <2>4 DEF RestoredBy, record
    <3>6. \A k \in Pending' : RecordIsGood(call'.blocks[k])
      BY <1>5, <1>8, <3>1, <3>2, <3>3, <3>4 DEF ReadSoFar
    <3>7. \A k \in Pending' : RecordIsGood(call.blocks[k])'
      BY <3>6 DEF RecordIsGood
    <3>8. RestoredUpTo(b.from + b.len) = RestoredUpTo(b.from) \union {Restored(b, b.from, b.len)}
      BY <1>1, <2>1, RestoredGrows
    <3>9. RestoredUpTo(dst) = RestoredUpTo(call.dst) \union {RestoredBy(record)}
      BY <2>1, <2>4, <3>5, <3>8 DEF dst
    <3>10. RestoredUpTo(call.dst)' = RestoredUpTo(dst)  BY <1>8 DEF RestoredUpTo
    <3>11. {RestoredBy(call'.blocks[k]) : k \in Pending'}
             = {RestoredBy(call.blocks[k]) : k \in Pending} \union {RestoredBy(record)}
      <4> HIDE DEF n
      <4> QED BY <1>5, <1>8, <3>1, <3>2, <3>3
    <3>12. {RestoredBy(call.blocks[k]) : k \in Pending}' = {RestoredBy(call'.blocks[k]) : k \in Pending'}
      BY DEF RestoredBy, Restored
    <3>13. RestoredUpTo(call.dst) = call.restored \union {RestoredBy(call.blocks[k]) : k \in Pending}
      BY <3>1 DEF ReadSoFar
    <3> QED BY <1>8, <3>7, <3>9, <3>10, <3>11, <3>12, <3>13 DEF ReadSoFar
  <2> QED BY <2>3, <2>4
<1> QED BY <1>8, <1>11, <1>12, DecompressionKeeps

LEMMA ReadBlockKeeps ==
  ASSUME IInv, StreamInv, ReadBlock
  PROVE  StreamInv'
PROOF
<1>1. call.op = "decompress" /\ call.phase = "read" /\ Len(call.blocks) < ChunkSize
  BY DEF ReadBlock, Decompressing
<1>2. /\ call.frame = frame /\ call.size \in Nat /\ call.size <= frame.size
      /\ call.cap \in Nat /\ frame.total \in Nat /\ frame.total <= call.cap
      /\ frame.size \in Nat /\ Len(call.blocks) \in Nat /\ call.chunks \in Nat \ {0}
      /\ ChunkSize \in 1..call.chunks /\ (Readable(frame) => AtSuperblock)
  BY <1>1, ReadingFacts
<1>3. params' = params /\ superblock_size' = superblock_size  BY DEF ReadBlock, context
<1>4. LeftToRead # 0 /\ LeftToRead - 1 = call.chunks - Len(call.blocks) - 1
  BY <1>1, <1>2 DEF LeftToRead
<1> DEFINE dsize == OutputSize(LeftToRead - 1)
<1>5. Readable(frame) =>
        /\ BlocksAt(frame, call.src) # {}
        /\ call.src \in Nat /\ call.dst \in Nat
        /\ call.src + 4 < frame.size
        /\ \A b \in BlocksAt(frame, call.src) :
             /\ call.src + 4 + b.csize <= frame.size
             /\ dsize \in Nat /\ call.dst + dsize <= frame.total
  <2>1. Readable(frame) => call.src \in Nat /\ call.dst \in Nat
    BY <1>2 DEF AtSuperblock
  <2> QED BY <1>1, <1>4, <2>1, NextRecord
<1> HIDE DEF dsize
<1>6. \/ call.src + 4 >= call.size /\ DecompressReturns("src_overflow")
      \/ BlocksAt(frame, call.src) = {} /\ ReadGarbage
      \/ \E b \in BlocksAt(frame, call.src) :
           \/ ~FitsBoth(call.src, b.csize, call.dst, dsize) /\ DecompressReturns("invalid_input")
           \/ /\ FitsBoth(call.src, b.csize, call.dst, dsize)
              /\ call' = [call EXCEPT !.blocks = Append(@, [block |-> b, dsize |-> dsize,
                                                            dst |-> call.dst]),
                                      !.src = @ + 4 + b.csize, !.dst = @ + dsize]
              /\ frame' = frame /\ result' = result
  <2>1. dsize = OutputSize(call.chunks - Len(call.blocks) - 1)  BY <1>4 DEF dsize
  <2> QED BY <1>2, <2>1 DEF ReadBlock
<1>7. CASE call.src + 4 >= call.size /\ DecompressReturns("src_overflow")
  <2>1. ~(Readable(frame) /\ call.size = frame.size)  BY <1>2, <1>5, <1>7
  <2>2. "src_overflow" \in Errors  BY DEF Errors
  <2> QED BY <1>1, <1>7, <2>1, <2>2, RefusalIsGood
<1>8. CASE BlocksAt(frame, call.src) = {} /\ ReadGarbage
  BY <1>1, <1>5, <1>8, GarbageIsGood
<1>9. ASSUME NEW b \in BlocksAt(frame, call.src),
             ~FitsBoth(call.src, b.csize, call.dst, dsize), DecompressReturns("invalid_input")
      PROVE  StreamInv'
  <2>1. ~(Readable(frame) /\ call.size = frame.size)
    <3> SUFFICES ASSUME Readable(frame), call.size = frame.size PROVE FALSE  OBVIOUS
    <3>1. /\ call.src + 4 + b.csize <= frame.size /\ dsize \in Nat /\ call.dst \in Nat
          /\ call.dst + dsize <= frame.total
      BY <1>5
    <3> QED BY <1>2, <1>9, <3>1 DEF FitsBoth
  <2>2. "invalid_input" \in Errors  BY DEF Errors
  <2> QED BY <1>1, <1>9, <2>1, <2>2, RefusalIsGood
<1>10. ASSUME NEW b \in BlocksAt(frame, call.src), FitsBoth(call.src, b.csize, call.dst, dsize),
              call' = [call EXCEPT !.blocks = Append(@, [block |-> b, dsize |-> dsize,
                                                         dst |-> call.dst]),
                                   !.src = @ + 4 + b.csize, !.dst = @ + dsize],
              frame' = frame, result' = result
       PROVE  StreamInv'
  <2>1. dsize = OutputSize(LeftToRead - 1)  BY DEF dsize
  <2> QED BY <1>1, <1>3, <1>10, <2>1, RecordIsRead
<1> QED BY <1>6, <1>7, <1>8, <1>9, <1>10

LEMMA ForkDecompressKeeps ==
  ASSUME IInv, StreamInv, ForkDecompress
  PROVE  StreamInv'
PROOF
<1>1. call.op = "decompress" /\ call.phase = "read" /\ Len(call.blocks) = ChunkSize
  BY DEF ForkDecompress, Decompressing
<1>2. /\ Decompression /\ DecompressPlan /\ ChunkSize \in Nat \ {0}
      /\ Readable(frame) => AtSuperblock /\ (~Exact(frame) => ReadSoFar)
  <2>1. ChunkSize \in 1..call.chunks /\ call.chunks \in Nat \ {0}
    BY <1>1, ReadingFacts
  <2>2. ChunkSize \in Nat \ {0}  BY <2>1
  <2> QED BY <1>1, <2>2, Decompresses, ReadingFacts
<1>3. /\ params' = params /\ superblock_size' = superblock_size
      /\ frame' = frame /\ result' = result
  BY DEF ForkDecompress, context
<1> DEFINE tasks == 1..ChunkSize
           rets == [k \in 1..ChunkSize |-> "none"]
<1>4. PICK p, x, c, f, s, d, e, m, t, q, r :
        call = [op |-> "decompress", phase |-> p, size |-> x, cap |-> c, frame |-> f, src |-> s,
                dst |-> d, restored |-> e, chunks |-> m, tasks |-> t, blocks |-> q, rets |-> r]
  BY <1>2 DEF Decompression
<1>5. call' = [call EXCEPT !.phase = "tasks", !.tasks = tasks, !.rets = rets]
  BY DEF ForkDecompress
<1> HIDE DEF tasks, rets
<1>6. /\ call'.op = "decompress" /\ call'.phase = "tasks" /\ call'.chunks = call.chunks
      /\ call'.src = call.src /\ call'.dst = call.dst /\ call'.restored = call.restored
      /\ call'.blocks = call.blocks /\ call'.frame = call.frame /\ call'.size = call.size
      /\ call'.cap = call.cap /\ call'.tasks = tasks /\ call'.rets = rets
  BY <1>4, <1>5
<1>7. ChunkSize' = ChunkSize  BY <1>3, <1>6, SameChunk
<1>8. rets \in [1..ChunkSize -> {"none"}] /\ \A k \in 1..ChunkSize : rets[k] = "none"
  BY DEF rets
<1>9. DecompressPlan'
  <2>1. \E S : call'.rets \in [1..ChunkSize' -> S]  BY <1>6, <1>7, <1>8
  <2>2. \A k \in 1..ChunkSize' : call'.rets[k] = "none"  BY <1>6, <1>7, <1>8
  <2> QED BY <1>1, <1>2, <1>3, <1>6, <1>7, <2>1, <2>2 DEF DecompressPlan
<1>10. ASSUME Readable(frame) PROVE AtSuperblock' /\ (~Exact(frame) => ReadSoFar')
  <2>1. AtSuperblock'  BY <1>2, <1>3, <1>6, <1>10, SamePlace
  <2>2. ASSUME ~Exact(frame) PROVE ReadSoFar'
    <3>1. ReadSoFar  BY <1>2, <1>10, <2>2
    <3>2. Pending = 1..ChunkSize /\ Pending' = Pending
      BY <1>1, <1>6 DEF Pending, tasks
    <3>3. \A k \in Pending' : RecordIsGood(call.blocks[k])'
      BY <1>3, <1>6, <3>1, <3>2 DEF ReadSoFar, RecordIsGood
    <3>4. RestoredUpTo(call.dst)' = RestoredUpTo(call.dst)  BY <1>3, <1>6 DEF RestoredUpTo
    <3>5. {RestoredBy(call.blocks[k]) : k \in Pending}' = {RestoredBy(call.blocks[k]) : k \in Pending}
      BY <1>6, <3>2 DEF RestoredBy, Restored
    <3>6. \A k \in 1..ChunkSize' : call'.rets[k] # "invalid_input"  BY <1>6, <1>7, <1>8
    <3> QED BY <1>6, <3>1, <3>3, <3>4, <3>5, <3>6 DEF ReadSoFar
  <2> QED BY <2>1, <2>2
<1> QED BY <1>1, <1>3, <1>6, <1>9, <1>10, DecompressionKeeps

LEMMA DecompressTaskKeeps ==
  ASSUME IInv, StreamInv, NEW k \in 1..Len(thread_buffers), DecompressTask(k)
  PROVE  StreamInv'
PROOF
<1>1. call.op = "decompress" /\ call.phase = "tasks" /\ k \in call.tasks
  BY DEF DecompressTask, Decompressing
<1>2. /\ Decompression /\ DecompressPlan /\ superblock_size \in Nat
      /\ Readable(frame) => AtSuperblock /\ (~Exact(frame) => ReadSoFar)
      /\ \A b \in frame.blocks : BlockOK(b)
  BY <1>1, Decompresses, ReadingFacts
<1>3. /\ params' = params /\ superblock_size' = superblock_size
      /\ frame' = frame /\ result' = result
  BY DEF DecompressTask
<1>4. call.tasks \subseteq 1..ChunkSize  BY <1>1, <1>2 DEF Decompression, InLoop
<1> DEFINE work == call.blocks[k]
           restored == call.restored \union {RestoredBy(work)}
<1>5. PICK r \in DecodeResults(work.block, work.dsize, thread_buffers[k]) :
        call' = [call EXCEPT !.tasks = @ \ {k}, !.rets[k] = r.error, !.restored = restored]
  BY DEF DecompressTask, RestoredBy
<1> DEFINE e == r.error
           rets == [call.rets EXCEPT ![k] = e]
           left == call.tasks \ {k}
<1>6. PICK p, x, c, f, s, d, a, m, t, b, q :
        call = [op |-> "decompress", phase |-> p, size |-> x, cap |-> c, frame |-> f, src |-> s,
                dst |-> d, restored |-> a, chunks |-> m, tasks |-> t, blocks |-> b, rets |-> q]
  BY <1>2 DEF Decompression
<1>7. /\ e \in {"none", "alloc", "invalid_input"} /\ (e = "alloc" => BufferMayFail)
      /\ BlockOK(work.block) /\ work.dsize = work.block.len => e # "invalid_input"
  BY <1>2, DecodingIsRight
<1> HIDE DEF work, restored, e
<1>8. call' = [call EXCEPT !.tasks = left, !.rets = rets, !.restored = restored]
  BY <1>5, <1>6 DEF e
<1> HIDE DEF rets, left
<1>9. /\ call'.op = "decompress" /\ call'.phase = "tasks" /\ call'.chunks = call.chunks
      /\ call'.src = call.src /\ call'.dst = call.dst /\ call'.restored = restored
      /\ call'.blocks = call.blocks /\ call'.frame = call.frame /\ call'.size = call.size
      /\ call'.cap = call.cap /\ call'.tasks = left /\ call'.rets = rets
  BY <1>1, <1>6, <1>8
<1>10. ChunkSize' = ChunkSize  BY <1>3, <1>9, SameChunk
<1>11. /\ Len(call.blocks) = ChunkSize
       /\ \E S : call.rets \in [1..ChunkSize -> S]
       /\ \A j \in 1..ChunkSize : /\ call.rets[j] \in {"none", "alloc", "invalid_input"}
                                  /\ call.rets[j] = "alloc" => BufferMayFail
  BY <1>1, <1>2 DEF DecompressPlan
<1>12. PICK S : call.rets \in [1..ChunkSize -> S]  BY <1>11
<1>13. /\ rets \in [1..ChunkSize -> S \union {e}]
       /\ \A j \in 1..ChunkSize : rets[j] = IF j = k THEN e ELSE call.rets[j]
  BY <1>12 DEF rets
<1>14. DecompressPlan'
  <2>1. \E Q : call'.rets \in [1..ChunkSize' -> Q]  BY <1>9, <1>10, <1>13
  <2>2. \A j \in 1..ChunkSize' : /\ call'.rets[j] \in {"none", "alloc", "invalid_input"}
                                 /\ call'.rets[j] = "alloc" => BufferMayFail
    BY <1>7, <1>9, <1>10, <1>11, <1>13
  <2> QED BY <1>2, <1>3, <1>9, <1>10, <1>11, <2>1, <2>2 DEF DecompressPlan
<1>15. ASSUME Readable(frame) PROVE AtSuperblock' /\ (~Exact(frame) => ReadSoFar')
  <2>1. AtSuperblock'  BY <1>2, <1>3, <1>9, <1>15, SamePlace
  <2>2. ASSUME ~Exact(frame) PROVE ReadSoFar'
    <3>1. ReadSoFar  BY <1>2, <1>15, <2>2
    <3>2. Pending = call.tasks /\ Pending' = left  BY <1>1, <1>9 DEF Pending
    <3>3. \A j \in Pending : RecordIsGood(call.blocks[j])  BY <3>1 DEF ReadSoFar
    <3>4. \A j \in Pending' : RecordIsGood(call.blocks[j])'
      BY <1>3, <1>9, <3>2, <3>3 DEF RecordIsGood, left
    <3>5. RestoredUpTo(call.dst)' = RestoredUpTo(call.dst)  BY <1>3, <1>9 DEF RestoredUpTo
    <3>6. RestoredUpTo(call.dst) = call.restored \union {RestoredBy(call.blocks[j]) : j \in Pending}
      BY <3>1 DEF ReadSoFar
    <3>7. {RestoredBy(call.blocks[j]) : j \in Pending}
            = {RestoredBy(call.blocks[j]) : j \in left} \union {RestoredBy(work)}
      BY <1>1, <3>2 DEF left, work
    <3>8. {RestoredBy(call.blocks[j]) : j \in Pending}' = {RestoredBy(call.blocks[j]) : j \in left}
      BY <1>9, <3>2 DEF RestoredBy, Restored
    <3>9. e # "invalid_input"
      <4>1. PICK whole \in frame.blocks : work = [block |-> whole, dsize |-> whole.len, dst |-> whole.from]
        BY <1>1, <3>2, <3>3 DEF RecordIsGood, work
      <4>2. work.block = whole /\ work.dsize = whole.len  BY <4>1
      <4> QED BY <1>2, <1>7, <4>2
    <3>10. \A j \in 1..ChunkSize' : call'.rets[j] # "invalid_input"
      BY <1>1, <1>9, <1>10, <1>13, <3>1, <3>9 DEF ReadSoFar
    <3> QED BY <1>9, <3>4, <3>5, <3>6, <3>7, <3>8, <3>10 DEF ReadSoFar, restored
  <2> QED BY <2>1, <2>2
<1> QED BY <1>1, <1>3, <1>9, <1>14, <1>15, DecompressionKeeps

LEMMA JoinDecompressKeeps ==
  ASSUME IInv, StreamInv, JoinDecompress
  PROVE  StreamInv'
PROOF
<1>1. call.op = "decompress" /\ call.phase = "tasks" /\ call.tasks = {}
  BY DEF JoinDecompress, Decompressing, ChunkDone
<1>2. /\ DecompressPlan /\ ChunkSize \in 1..call.chunks /\ call.chunks \in Nat \ {0}
      /\ Readable(frame) => AtSuperblock /\ (~Exact(frame) => ReadSoFar)
  BY <1>1, Decompresses, ReadingFacts
<1>3. params' = params /\ superblock_size' = superblock_size  BY DEF JoinDecompress, context
<1>4. /\ Len(call.blocks) = ChunkSize
      /\ \A j \in 1..ChunkSize : /\ call.rets[j] \in {"none", "alloc", "invalid_input"}
                                 /\ call.rets[j] = "alloc" => BufferMayFail
  BY <1>1, <1>2 DEF DecompressPlan
<1> DEFINE failed == {j \in 1..ChunkSize : call.rets[j] # "none"}
           first == CHOOSE j \in failed : \A k \in failed : j <= k
           e == call.rets[first]
<1>5. IF failed # {} THEN DecompressReturns(e)
      ELSE AdvanceOutput(ChunkSize, call.src, call.dst, call.restored, "read")
  BY DEF JoinDecompress
<1>6. CASE failed # {}
  <2>1. \E j \in failed : \A k \in failed : j <= k
    <3>1. failed \in SUBSET Nat  BY <1>2
    <3> HIDE DEF failed
    <3> QED BY <1>6, <3>1, LeastElement
  <2>2. first \in failed
    <3> HIDE DEF failed
    <3> QED BY <2>1
  <2>3. first \in 1..ChunkSize /\ e # "none"
    <3> HIDE DEF first
    <3> QED BY <2>2
  <2> HIDE DEF first
  <2>4. e \in {"alloc", "invalid_input"} /\ (e = "alloc" => BufferMayFail)  BY <1>4, <2>3
  <2>5. Readable(frame) /\ ~Exact(frame) => e = "alloc" /\ BufferMayFail
    BY <1>1, <1>2, <2>3, <2>4 DEF ReadSoFar
  <2>6. DecompressReturns(e) /\ e \in Errors  BY <1>5, <1>6, <2>4 DEF Errors
  <2> HIDE DEF e
  <2> QED BY <1>1, <2>5, <2>6, RefusalIsGood
<1>7. CASE failed = {}
  <2> DEFINE n == ChunkSize
             src == call.src
             dst == call.dst
             restored == call.restored
  <2>1. AdvanceOutput(n, src, dst, restored, "read")  BY <1>5, <1>7
  <2>2. ASSUME Readable(frame)
        PROVE  /\ dst \in Nat /\ src \in Nat /\ src <= call.size
               /\ IF call.chunks = n
                  THEN /\ src = frame.size
                       /\ dst = IF Exact(frame) THEN frame.total - superblock_size ELSE frame.total
                  ELSE /\ dst + (call.chunks - n - 1) * superblock_size + LastSize = frame.total
                       /\ \E b \in frame.blocks : b.from = dst /\ b.at = src
               /\ ~Exact(frame) => restored = RestoredUpTo(dst)
    <3>1. AtSuperblock /\ (~Exact(frame) => ReadSoFar)  BY <1>2, <2>2
    <3>2. LeftToRead = call.chunks - n  BY <1>4 DEF LeftToRead
    <3>3. dst \in Nat /\ src \in Nat /\ src <= call.size  BY <3>1 DEF AtSuperblock
    <3>4. LeftToRead = 0 <=> call.chunks = n
      <4> HIDE DEF n
      <4>1. n \in 1..call.chunks /\ call.chunks \in Nat  BY <1>2 DEF n
      <4> QED BY <3>2, <4>1
    <3>5. ASSUME ~Exact(frame) PROVE restored = RestoredUpTo(dst)
      <4>1. Pending = {}  BY <1>1 DEF Pending
      <4> QED BY <3>1, <3>5, <4>1 DEF ReadSoFar
    <3>6. CASE call.chunks = n  BY <3>1, <3>3, <3>4, <3>5, <3>6 DEF AtSuperblock
    <3>7. CASE call.chunks # n
      <4>1. /\ dst + (LeftToRead - 1) * superblock_size + LastSize = frame.total
            /\ \E b \in frame.blocks : b.from = dst /\ b.at = src
        BY <3>1, <3>4, <3>7 DEF AtSuperblock
      <4>2. dst + (call.chunks - n - 1) * superblock_size + LastSize = frame.total
        BY <3>2, <4>1
      <4> QED BY <3>3, <3>5, <3>7, <4>1, <4>2
    <3> QED BY <3>6, <3>7
  <2>3. n \in 1..call.chunks  BY <1>2
  <2> HIDE DEF n, src, dst, restored
  <2> QED BY <1>1, <1>3, <2>1, <2>2, <2>3, AdvanceOutputKeeps
<1> QED BY <1>6, <1>7

-----------------------------------------------------------------------------
(* The theorems about the frames and the results *)

\* A step that changes nothing.
LEMMA StutterKeeps ==
  ASSUME StreamInv, UNCHANGED vars
  PROVE  StreamInv'
PROOF
<1>1. /\ params' = params /\ superblock_size' = superblock_size /\ call' = call
      /\ frame' = frame /\ result' = result
  BY DEF vars
<1>2. FrameIsGood'  BY <1>1, FrameStaysGood DEF StreamInv
<1>3. ResultIsGood'
  <2>1. ResultIsGood  BY DEF StreamInv
  <2>2. (Decompressed' <=> Decompressed) /\ (Intact' <=> Intact)
        /\ (Readable(frame)' <=> Readable(frame)) /\ (Exact(frame)' <=> Exact(frame))
    BY <1>1 DEF Decompressed, Intact, Readable, Exact
  <2>3. BoundIsEnough'  BY <1>1, <2>1 DEF ResultIsGood, BoundIsEnough
  <2>4. RoundTrip'  BY <1>1, <2>1, <2>2 DEF ResultIsGood, RoundTrip
  <2>5. SuccessIsComplete'  BY <1>1, <2>1, <2>2 DEF ResultIsGood, SuccessIsComplete
  <2>6. TruncatedIsRefused'  BY <1>1, <2>1, <2>2 DEF ResultIsGood, TruncatedIsRefused
  <2> QED BY <1>1, <2>1, <2>3, <2>4, <2>5, <2>6 DEF ResultIsGood
<1>4. Count' = Count /\ ThreadCount' = ThreadCount /\ ChunkSize' = ChunkSize
      /\ RawMemcpy' = RawMemcpy /\ (Writing' <=> Writing) /\ (Roomy' <=> Roomy)
      /\ \A k : From(k)' = From(k) /\ Length(k)' = Length(k)
  BY <1>1 DEF Count, ThreadCount, ChunkSize, RawMemcpy, Writing, Roomy, From, Length
<1>5. ASSUME call.op = "compress" PROVE CompressInv'
  <2>1. CompressInv  BY <1>5 DEF StreamInv
  <2>2. \A k : OutOf(k)' = OutOf(k)  BY <1>1, <1>4 DEF OutOf
  <2>3. ASSUME NEW k PROVE Place(k)' = Place(k)
    <3>1. [j \in 1..(k - 1) |-> (OutOf(j).csize + 4)'] = [j \in 1..(k - 1) |-> OutOf(j).csize + 4]
      BY <2>2
    <3>2. Place(k)' = call'.frame.size
                        + SumUpTo([j \in 1..(k - 1) |-> (OutOf(j).csize + 4)'], k - 1)
      BY DEF Place
    <3> QED BY <1>1, <3>1, <3>2 DEF Place
  <2>4. \A k : Written(k)' = Written(k)  BY <1>4, <2>2, <2>3 DEF Written, BlockAt
  <2>5. \A k : Overflows(k)' <=> Overflows(k)  BY <1>1, <1>4, <2>3 DEF Overflows
  <2>6. CompressPlan'
    <3>1. CompressPlan /\ Described(call.frame)' /\ HeaderSize(params)' = HeaderSize(params)
      BY <1>1, <2>1 DEF CompressInv, CompressPlan
    <3> QED BY <1>1, <1>4, <3>1 DEF CompressPlan
  <2>7. OutsAreGood'
    <3>1. OutsAreGood  BY <2>1 DEF CompressInv
    <3>2. thread_buffers' = thread_buffers  BY DEF vars
    <3>3. \A k : NoBuffer(k)' <=> NoBuffer(k)  BY <3>2 DEF NoBuffer
    <3>4. \A k : GoodOut(call.outs[k], Length(k))' <=> GoodOut(call.outs[k], Length(k))
      BY <1>1, <1>4 DEF GoodOut, OutFits
    <3> QED BY <1>1, <1>4, <3>1, <3>3, <3>4 DEF OutsAreGood
  <2>8. ASSUME NEW base, FrameSoFar(base) PROVE FrameSoFar(base)'
    <3>1. Whole([call.frame EXCEPT !.blocks = base], call.src)'  BY <1>1, <2>8 DEF FrameSoFar
    <3> QED BY <1>1, <1>4, <2>4, <2>5, <2>8, <3>1 DEF FrameSoFar
  <2>9. Whole(call.frame, call.src) => Whole(call.frame, call.src)'  BY <1>1
  <2>10. (\E base : FrameSoFar(base)) => \E base : FrameSoFar(base)'  BY <2>8
  <2> QED BY <1>1, <1>4, <2>1, <2>6, <2>7, <2>9, <2>10 DEF CompressInv
<1>6. ASSUME call.op = "decompress" PROVE DecompressInv'
  <2>1. DecompressInv /\ DecompressPlan  BY <1>6 DEF StreamInv, DecompressInv
  <2>2. DecompressPlan'  BY <1>1, <1>4, <2>1 DEF DecompressPlan
  <2>3. (Readable(frame)' <=> Readable(frame)) /\ (Exact(frame)' <=> Exact(frame))
    BY <1>1 DEF Readable, Exact
  <2>4. AtSuperblock => AtSuperblock'  BY <1>1, SamePlace
  <2>5. ASSUME ReadSoFar PROVE ReadSoFar'
    <3>1. Pending' = Pending  BY <1>1 DEF Pending
    <3>2. \A k \in Pending' : RecordIsGood(call.blocks[k])'
      BY <1>1, <2>5, <3>1 DEF ReadSoFar, RecordIsGood
    <3>3. RestoredUpTo(call.dst)' = RestoredUpTo(call.dst)  BY <1>1 DEF RestoredUpTo
    <3>4. {RestoredBy(call.blocks[k]) : k \in Pending}' = {RestoredBy(call.blocks[k]) : k \in Pending}
      BY <1>1, <3>1 DEF RestoredBy, Restored
    <3> QED BY <1>1, <1>4, <2>5, <3>2, <3>3, <3>4 DEF ReadSoFar
  <2> QED BY <1>1, <2>1, <2>2, <2>3, <2>4, <2>5 DEF DecompressInv
<1> QED BY <1>1, <1>2, <1>3, <1>5, <1>6 DEF StreamInv

\* Every action keeps the invariant.
LEMMA StepKeeps ==
  ASSUME IInv, StreamInv, Next
  PROVE  StreamInv'
PROOF
<1>1. CASE SetThreads \/ SetParams \/ ResetContext  BY <1>1, SettersKeep
<1>2. CASE CompressBegin  BY <1>2, CompressBeginKeeps
<1>3. CASE DecompressBegin  BY <1>3, DecompressBeginKeeps
<1>4. CASE Step
  BY <1>4, CompressEnsureKeeps, CompressOneKeeps, ForkChunkKeeps, JoinRawKeeps,
     JoinChunkKeeps, JoinCopyKeeps, CompressTaskKeeps, DecompressTaskKeeps, RawTaskKeeps,
     CopyTaskKeeps, DecompressEnsureKeeps, DecompressOneKeeps, ReadBlockKeeps,
     ForkDecompressKeeps, JoinDecompressKeeps DEF Step
<1>5. CASE Undefined
  <2>1. UNCHANGED vars  BY <1>5 DEF Undefined
  <2> QED BY <2>1, StutterKeeps
<1> QED BY <1>1, <1>2, <1>3, <1>4, <1>5 DEF Next

\* Every step keeps the frame, what a compression has written of one, and what a
\* decompression has read of it, as they should be.
THEOREM StreamInvariance == Spec => [](IInv /\ StreamInv)
PROOF
<1>1. Init => StreamInv  BY InitKeeps
<1>2. IInv /\ StreamInv /\ [Next]_vars => StreamInv'  BY StepKeeps, StutterKeeps
<1> QED BY <1>1, <1>2, Invariance, PTL DEF Spec

\* A frame that was returned is made of superblocks end to end, in the order of
\* the input, however many superblocks and threads there were and in whatever
\* order the tasks ran.
THEOREM FramesAreContiguous == Spec => []FrameIsContiguous
PROOF
<1>1. StreamInv => FrameIsContiguous
  <2> SUFFICES ASSUME StreamInv, frame.total > 0
               PROVE  /\ \A b \in frame.blocks : Follows(frame, b)
                      /\ \A b, c \in frame.blocks : b.from = c.from => b = c
                      /\ \E b \in frame.blocks :
                           b.from + b.len = frame.total /\ b.at + 4 + b.csize = frame.size
                      /\ \A b \in frame.blocks :
                           b.len = frame.superblock \/ b.from + b.len = frame.total
    BY DEF FrameIsContiguous
  <2>1. frame # NoFrame  BY DEF NoFrame
  <2>2. Whole(frame, frame.total)  BY <2>1 DEF StreamInv, FrameIsGood
  <2>3. \A b \in frame.blocks : Placed(frame, frame.total, b)  BY <2>2 DEF Whole
  <2>4. ASSUME NEW b \in frame.blocks, NEW c \in frame.blocks, b.from = c.from PROVE b = c
    <3>1. BlockOK(b) /\ BlockOK(c)  BY <2>3 DEF Placed
    <3>2. ~Behind(b, c) /\ ~Behind(c, b)  BY <2>4, <3>1 DEF Behind, BlockOK
    <3> QED BY <2>2, <3>2 DEF Whole
  <2>5. \E b \in frame.blocks : b.from + b.len = frame.total /\ b.at + 4 + b.csize = frame.size
    BY <2>2 DEF Whole
  <2> QED BY <2>3, <2>4, <2>5 DEF Placed
<1> QED BY <1>1, StreamInvariance, PTL

\* What a compression has written so far.
LEMMA SuperblocksStayApart ==
  ASSUME IInv, StreamInv, call.op = "compress"
  PROVE  \A b \in call.frame.blocks :
           /\ call.frame.header <= b.at /\ b.at + 4 + b.csize <= call.cap
           /\ \A c \in call.frame.blocks : b = c \/ Behind(b, c) \/ Behind(c, b)
PROOF
<1>1. Compression /\ CompressInv /\ CompressPlan  BY Compresses
<1>2. \A b \in call.frame.blocks : b.at + 4 + b.csize <= call.cap  BY <1>1 DEF CompressInv
<1>3. CASE ~Writing
  <2>1. Whole(call.frame, call.src)  BY <1>1, <1>3 DEF CompressInv
  <2> QED BY <1>2, <2>1 DEF Whole, Placed
<1>4. CASE Writing
  <2>1. OutsFit /\ call.frame.size \in Nat  BY <1>1, <1>4, ChunkFacts
  <2>2. PICK base : FrameSoFar(base)  BY <1>1, <1>4 DEF CompressInv
  <2> DEFINE n == ChunkSize
             f == [call.frame EXCEPT !.blocks = base]
             g == WithQueue(f, WrittenUpTo(ChunkSize), n)
  <2>3. /\ FrameFields(f) /\ f.blocks = base /\ f.size = call.frame.size
        /\ f.header = call.frame.header /\ f.superblock = superblock_size
        /\ f.total = call.frame.total /\ Whole(f, call.src)
    BY <1>1, <1>4, <2>2, ChunkFacts
  <2> HIDE DEF f
  <2>4. n \in 0..ChunkSize /\ n # 0
    <3>1. ChunkSize \in Nat \ {0}
      <4>1. ChunkSize \in 1..call.chunks /\ call.chunks \in Nat  BY <1>1, ChunkSizes
      <4> QED BY <4>1
    <3> QED BY <3>1
  <2>5. /\ \E upto : Whole(g, upto)
        /\ g.blocks = f.blocks \union {Written(j) : j \in 1..n} /\ g.header = f.header
    BY <1>1, <2>1, <2>3, <2>4, ChunkIsWhole
  <2> HIDE DEF g
  <2>6. call.frame.blocks \subseteq g.blocks  BY <2>2, <2>3, <2>5 DEF FrameSoFar
  <2>7. /\ \A b \in g.blocks : g.header <= b.at
        /\ \A b, c \in g.blocks : b = c \/ Behind(b, c) \/ Behind(c, b)
    BY <2>5 DEF Whole, Placed
  <2> QED BY <1>2, <2>3, <2>5, <2>6, <2>7
<1> QED BY <1>3, <1>4

\* Whichever tasks of a chunk have written, no two superblocks overlap and none
\* is written over the header or past the end of the destination, also in a call
\* that will report an overflow.
THEOREM WritesAlwaysStayApart == Spec => []WritesStayApart
PROOF
<1>1. IInv /\ StreamInv => WritesStayApart
  BY SuperblocksStayApart DEF StreamInv, ResultIsGood, WritesStayApart, Behind
<1> QED BY <1>1, StreamInvariance, PTL

\* A destination of stenos_bound bytes never overflows while the context keeps
\* its default superblock sizes.
THEOREM BoundIsAlwaysEnough == Spec => []BoundIsEnough
PROOF
<1>1. StreamInv => BoundIsEnough  BY DEF StreamInv, ResultIsGood
<1> QED BY <1>1, StreamInvariance, PTL

\* A frame that is decompressed as it was returned, whose header can be read back
\* and whose input is no whole number of superblocks, decompresses without an
\* error other than a failed allocation, whatever the context was used for before.
THEOREM FramesRoundTrip == Spec => []RoundTrip
PROOF
<1>1. StreamInv => RoundTrip  BY DEF StreamInv, ResultIsGood
<1> QED BY <1>1, StreamInvariance, PTL

\* A decompression that reports success has restored every byte of the input,
\* each at its place and once, for any number of superblocks and of threads.
THEOREM SuccessesAreComplete == Spec => []SuccessIsComplete
PROOF
<1>1. StreamInv => SuccessIsComplete  BY DEF StreamInv, ResultIsGood
<1> QED BY <1>1, StreamInvariance, PTL

\* A frame that lost bytes at its end is refused, wherever it was cut.
THEOREM TruncatedFramesAreRefused == Spec => []TruncatedIsRefused
PROOF
<1>1. StreamInv => TruncatedIsRefused  BY DEF StreamInv, ResultIsGood
<1> QED BY <1>1, StreamInvariance, PTL

\* The order to copy is a Boolean.
LEMMA OrderIsBoolean ==
  ASSUME finish_memcpy \in BOOLEAN, NEW k, NEW bytesoftype, NEW len, NEW room,
         NEW r \in SuperblockResults(k, bytesoftype, len, room)
  PROVE  r.finish \in BOOLEAN
PROOF
<1> DEFINE On(q) == UNION {PathResults(q, b, bytesoftype, len, room) : b \in TmpBuffers(k, q)}
<1>1. r \in UNION {On(q) : q \in Paths(bytesoftype, len)}  BY DEF SuperblockResults
<1>2. PICK path \in Paths(bytesoftype, len) : r \in On(path)
  <2> HIDE DEF On
  <2> QED BY <1>1
<1>3. PICK b \in TmpBuffers(k, path) : r \in PathResults(path, b, bytesoftype, len, room)
  BY <1>2
<1> DEFINE outs == Outcomes(CodesFor(bytesoftype, len,
                      IF path = "buffers" /\ 0 \in {b[1], b[2]} THEN "zstd" ELSE path), len, room)
<1>4. r \in {[out |-> o, b1 |-> b[1], b2 |-> b[2], finish |-> f] : o \in outs, f \in Orders(path)}
  BY <1>3 DEF PathResults
<1> HIDE DEF outs
<1>5. PICK f \in Orders(path) : r.finish = f  BY <1>4
<1>6. f = finish_memcpy \/ f = (finish_memcpy \/ (params.timed /\ path # "copy"))
  BY DEF Orders
<1>7. (finish_memcpy \/ (params.timed /\ path # "copy")) \in BOOLEAN  OBVIOUS
<1> QED BY <1>5, <1>6, <1>7

\* And so it stays.
LEMMA OrderStaysBoolean ==
  ASSUME finish_memcpy \in BOOLEAN, [Next]_vars
  PROVE  finish_memcpy' \in BOOLEAN
PROOF
<1>1. CASE CompressBegin
  <2>1. finish_memcpy' = finish_memcpy \/ finish_memcpy' = (finish_memcpy /\ ~params.timed)
    BY <1>1 DEF CompressBegin, context
  <2> QED BY <2>1
<1>2. CASE CompressOne
  <2>1. PICK len, room :
          \E r \in SuperblockResults(1, call.frame.bytesoftype, len, room) :
            finish_memcpy' = r.finish
    BY <1>2 DEF CompressOne
  <2> QED BY <2>1, OrderIsBoolean
<1>3. ASSUME NEW k, CompressTask(k) PROVE finish_memcpy' \in BOOLEAN
  <2>1. \/ finish_memcpy' = finish_memcpy
        \/ \E len, room : \E r \in SuperblockResults(k, call.frame.bytesoftype, len, room) :
             finish_memcpy' = r.finish
    BY <1>3 DEF CompressTask
  <2> QED BY <2>1, OrderIsBoolean
<1>4. CASE DecompressBegin
  <2>1. finish_memcpy' = finish_memcpy
    BY <1>4 DEF DecompressBegin, DecompressEnds, DecompressStarts, context
  <2> QED BY <2>1
<1>5. CASE DecompressOne
  <2>1. finish_memcpy' = finish_memcpy  BY <1>5 DEF DecompressOne, ReadGarbage, context
  <2> QED BY <2>1
<1>6. CASE ReadBlock  BY <1>6 DEF ReadBlock, context
<1>7. CASE SetThreads \/ SetParams \/ ResetContext \/ CompressEnsure \/ DecompressEnsure
  BY <1>7 DEF SetThreads, SetParams, ResetContext, CompressEnsure, DecompressEnsure
<1>8. CASE ForkChunk \/ JoinRaw \/ JoinChunk \/ JoinCopy \/ ForkDecompress \/ JoinDecompress
  BY <1>8 DEF ForkChunk, JoinRaw, JoinChunk, JoinCopy, ForkDecompress, JoinDecompress, context
<1>9. ASSUME NEW k, DecompressTask(k) \/ RawTask(k) \/ CopyTask(k)
      PROVE  finish_memcpy' \in BOOLEAN
  BY <1>9 DEF DecompressTask, RawTask, CopyTask, context
<1>10. CASE Undefined \/ UNCHANGED vars  BY <1>10 DEF Undefined, vars
<1> QED BY <1>1, <1>2, <1>3, <1>4, <1>5, <1>6, <1>7, <1>8, <1>9, <1>10 DEF Next, Step

\* The context, the frame and the results always have their types.
THEOREM TypesAreCorrect == Spec => []TypeOK
PROOF
<1>1. Init => finish_memcpy \in BOOLEAN  BY DEF Init
<1>2. IInv /\ StreamInv /\ finish_memcpy \in BOOLEAN => TypeOK
  <2> SUFFICES ASSUME IInv, StreamInv, finish_memcpy \in BOOLEAN PROVE TypeOK  OBVIOUS
  <2>1. params \in ParamsType /\ superblock_size \in Nat /\ BufferVectors
    BY DEF IInv, ContextOK
  <2>2. \A v \in {thread_buffers, tmp_buffers1, tmp_buffers2} : v \in Seq(Nat)
    <3>1. Slot \subseteq Nat  BY <2>1 DEF Slot
    <3>2. ASSUME NEW v \in Seq(Slot) PROVE v \in Seq(Nat)
      <4>1. v \in [1..Len(v) -> Slot] /\ Len(v) \in Nat  OBVIOUS
      <4>2. v \in [1..Len(v) -> Nat] /\ Len(v) \in Nat  BY <3>1, <4>1
      <4> QED BY <4>2
    <3> QED BY <2>1, <3>2 DEF BufferVectors
  <2>3. call.op \in {"none", "compress", "decompress"}
    BY DEF IInv, CallOK, NoCall, Compression, Decompression
  <2>4. /\ frame.size \in Nat
        /\ \A b \in frame.blocks : b.code \in Codes /\ b.csize \in 1..STENOS_MAX_BLOCK_BYTES
    <3>1. CASE frame = NoFrame  BY <3>1 DEF NoFrame
    <3>2. CASE frame # NoFrame
      <4>1. Described(frame) /\ Whole(frame, frame.total)
        BY <3>2 DEF StreamInv, FrameIsGood
      <4>2. /\ frame.size \in Nat /\ frame.superblock \in Nat
            /\ frame.superblock < STENOS_MAX_BLOCK_BYTES
        BY <4>1 DEF Described, Whole
      <4>3. ASSUME NEW b \in frame.blocks
            PROVE  b.code \in Codes /\ b.csize \in 1..STENOS_MAX_BLOCK_BYTES
        <5>1. BlockOK(b) /\ b.len <= frame.superblock  BY <4>1 DEF Whole, Placed
        <5>2. STENOS_MAX_BLOCK_BYTES \in Nat  BY DEF STENOS_MAX_BLOCK_BYTES
        <5> QED BY <4>2, <5>1, <5>2 DEF BlockOK
      <4> QED BY <4>2, <4>3
    <3> QED BY <3>1, <3>2
  <2>5. result.error \in Errors \union {"none"}  BY DEF StreamInv, ResultIsGood
  <2> QED BY <2>1, <2>2, <2>3, <2>4, <2>5 DEF TypeOK, ParamsType
<1>3. finish_memcpy \in BOOLEAN /\ [Next]_vars => (finish_memcpy \in BOOLEAN)'
  BY OrderStaysBoolean
<1> QED BY <1>1, <1>2, <1>3, StreamInvariance, PTL DEF Spec
===============================================================================

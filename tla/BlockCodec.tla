------------------------------- MODULE BlockCodec -------------------------------
(***************************************************************************)
(* One call of block_compress and one of block_decompress_sse on what it   *)
(* made.  The input is cut into blocks of 256 elements; a block is copied, *)
(* or coded by lz_compress, or plane by plane; what is left is a partial   *)
(* block.  The compressor predicts the size of a block before it writes    *)
(* it, and its vector stores touch bytes beyond what they advance by: the  *)
(* model follows where every store ends.                                   *)
(*                                                                         *)
(* The stream is the sequence `out` of the blocks that were written, each  *)
(* part with its place; the decoder goes by the sizes that it finds.  A    *)
(* part that is not at the place it reads from is garbage.                 *)
(***************************************************************************)
EXTENDS BlockPlane, LzBlock, Sequences

CONSTANTS
  Jobs,       \* the calls: arguments of block_compress, with the input
  Tables      \* what the table of lz_compress may hold at first

ASSUME JobsAssumption ==
  \A j \in Jobs :
    /\ j.bytesoftype \in Nat \ {0} /\ j.bytesoftype < 65535 /\ j.bytes \in Nat \ {0}
    /\ j.bytes % j.bytesoftype = 0
    /\ j.source \in [0..(j.bytes - 1) -> Byte]
    /\ j.room \in Nat               \* dst_size
    /\ j.level \in Nat              \* block_level
    /\ j.timed \in BOOLEAN          \* t.nanoseconds # 0
    /\ j.ratio \in BOOLEAN          \* target_ratio is given

\* Its positions have 16 bits.
ASSUME TablesAssumption ==
  \A t \in Tables : t \in [Hashes -> Nat] /\ \A h \in Hashes : t[h] < 65536

VARIABLES
  job,
  pc,         \* where the call is
  n,          \* `bcount`: the block that is compressed or decompressed
  i,          \* the plane of the block
  level, ratio,
  anchor, dst,    \* where the block starts, and where the next byte goes
  stores,     \* where the stores of the last step end
  plans,      \* the plans of the planes of the block
  planes,     \* the planes that were written
  lz,         \* locals of lz_compress
  out,
  src, row, output    \* of the decompression

compressed == <<job, level, ratio, anchor, dst, stores, plans, planes, lz, out>>
reading == <<src, row, output>>
vars == <<job, pc, n, i, level, ratio, anchor, dst, stores, plans, planes, lz, out,
          src, row, output>>

-----------------------------------------------------------------------------
bytesoftype == job.bytesoftype
BlockSize == 256 * bytesoftype
BlockCount == job.bytes \div BlockSize
HeaderLen == (bytesoftype + 1) \div 2

\* The partial block: its bytes, and how many whole rows of each plane it has.
Remaining == job.bytes % BlockSize
Lines == Remaining \div (16 * bytesoftype)
LineBytes == 16 * bytesoftype * Lines

\* Byte k of plane p of block b.  The partial block is padded with the last byte.
Offset(b, p, k) == (b * 256 + k) * bytesoftype + p
PlaneOf(b, p) ==
  [k \in 0..255 |-> job.source[IF Offset(b, p, k) < job.bytes THEN Offset(b, p, k)
                              ELSE job.bytes - 1]]

\* The elements of lz_compress.
Width8 == bytesoftype % 8 = 0
ElementSize == IF Width8 THEN 8 ELSE 4
ElementCount == BlockSize \div ElementSize
Elements(b) ==
  [e \in 0..(ElementCount - 1) |->
     [k \in 0..(ElementSize - 1) |-> job.source[b * BlockSize + e * ElementSize + k]]]

Copied(from, len) == [k \in from..(from + len - 1) |-> job.source[k]]

NoLz == [pos |-> 0, table |-> <<>>, failed |-> 0, maxFailed |-> 3, once |-> FALSE,
         size |-> 0, groups |-> <<>>]

Init ==
  /\ job \in Jobs
  /\ pc = "block" /\ n = 0 /\ i = 0
  /\ level = IF job.timed \/ job.level > 2 THEN 2 ELSE job.level
  /\ ratio = job.ratio
  /\ anchor = 0 /\ dst = 0 /\ stores = {}
  /\ plans = <<>> /\ planes = <<>> /\ lz = NoLz /\ out = <<>>
  /\ src = 0 /\ row = 0 /\ output = <<>>

Overflow == pc' = "overflow"

-----------------------------------------------------------------------------
\* The head of the loop: under a time limit, and once 1/16 of the input is done,
\* find_clevel may choose any level, and -2 stays.
LevelsNow ==
  IF job.timed /\ level # -2 /\ n * BlockSize >= job.bytes \div 16 THEN -2..2 ELSE {level}

\* A negative level copies the block.
CopyBlock ==
  /\ pc = "block" /\ n < BlockCount
  /\ \E l \in LevelsNow :
       /\ l < 0
       /\ level' = l
  /\ IF job.room - dst < BlockSize + 1
     THEN Overflow /\ UNCHANGED <<dst, stores, out>>
     ELSE /\ out' = Append(out, [kind |-> "copy", at |-> dst,
                                 bytes |-> Copied(n * BlockSize, BlockSize)])
          /\ dst' = dst + BlockSize + 1 /\ stores' = {dst'}
          /\ pc' = "marker"
  /\ UNCHANGED <<job, n, i, ratio, anchor, plans, planes, lz, reading>>

StartBlock ==
  /\ pc = "block" /\ n < BlockCount
  /\ \E l \in LevelsNow : l >= 0 /\ level' = l
  /\ anchor' = dst /\ dst' = dst + HeaderLen
  /\ i' = 0 /\ plans' = <<>> /\ planes' = <<>>
  /\ pc' = "plan"
  /\ UNCHANGED <<job, n, ratio, stores, lz, out, reading>>

\* A plane that would not save enough is left raw.
PlanFor(plane) ==
  LET plan == PlanePlan(plane, level > 0)
  IN  IF plan.size > 256 - <<25, 16, 0>>[level + 1]
      THEN [plan EXCEPT !.type = "raw", !.size = 256] ELSE plan

\* `full_size` so far.
FullSize == IF plans = <<>> THEN 0 ELSE plans[Len(plans)].upto

PlanPlane ==
  /\ pc = "plan" /\ i < bytesoftype
  /\ LET plan == PlanFor(PlaneOf(n, i))
     IN  plans' = Append(plans, [plan |-> plan, upto |-> FullSize + plan.size])
  /\ i' = i + 1
  /\ UNCHANGED <<job, pc, n, level, ratio, anchor, dst, stores, planes, lz, out, reading>>

\* Level 2 tries lz_compress where the planes do not save two thirds, if there is
\* room for a result that is too long by one group.
LzIsTried ==
  /\ level = 2 /\ bytesoftype % 4 = 0 /\ bytesoftype <= 512
  /\ FullSize * 3 > BlockSize
  /\ job.room > dst + FullSize + bytesoftype * 8 + 2

Planned ==
  /\ pc = "plan" /\ i = bytesoftype
  /\ IF LzIsTried
     THEN pc' = "lz" /\ \E t \in Tables : lz' = [NoLz EXCEPT !.table = t]
     ELSE pc' = "fit" /\ UNCHANGED lz
  /\ UNCHANGED <<job, n, i, level, ratio, anchor, dst, stores, plans, planes, out, reading>>

-----------------------------------------------------------------------------
\* lz_compress, one group of eight elements.  After max_failed groups without a
\* match one is written without looking for any.
LzCompress ==
  /\ pc = "lz"
  /\ LET el    == Elements(n)
         skip  == lz.failed = lz.maxFailed
         group == IF skip THEN RawGroup(el, lz.pos) ELSE MatchGroup(el, lz.table, lz.pos)
         none  == DOMAIN group.diffs = {}
         size  == lz.size + GroupSize(group, ElementSize)
         early == ~lz.once /\ lz.pos > ElementCount \div 4
     IN  /\ stores' = {anchor + 1 + size}
         /\ lz' = [pos |-> lz.pos + 8,
                   table |-> IF skip THEN lz.table ELSE NextTable(el, lz.table, lz.pos),
                   failed |-> IF skip THEN 0 ELSE IF none THEN lz.failed + 1 ELSE lz.failed,
                   maxFailed |-> IF skip /\ lz.maxFailed > 1 THEN lz.maxFailed - 1
                                 ELSE lz.maxFailed,
                   once |-> lz.once \/ early,
                   size |-> size,
                   groups |-> Append(lz.groups, [at |-> anchor + 1 + lz.size, group |-> group])]
         /\ IF size > FullSize \/ (early /\ 5 * size > 2 * FullSize)
            THEN pc' = "fit" /\ UNCHANGED <<dst, out>>        \* it does not pay
            ELSE IF lz.pos + 8 < ElementCount
            THEN UNCHANGED <<pc, dst, out>>
            ELSE /\ pc' = "marker"
                 /\ out' = Append(out, [kind |-> "lz", at |-> anchor, groups |-> lz'.groups])
                 /\ dst' = anchor + 1 + size
  /\ UNCHANGED <<job, n, i, level, ratio, anchor, plans, planes, reading>>

-----------------------------------------------------------------------------
\* The planes.
Fit ==
  /\ pc = "fit"
  /\ i' = 0
  /\ pc' = IF dst + FullSize > job.room THEN "overflow" ELSE "planes"
  /\ UNCHANGED <<job, n, level, ratio, anchor, dst, stores, plans, planes, lz, out, reading>>

\* Mutant of NeedsRoom: the bytes a vector store touches are not counted.
NeedsNoSlack(plan) == plan.type # "raw" /\ dst + plan.size > job.room

\* A run-length row may store 15 bytes beyond its end.
NeedsRoom(plan) == plan.type # "raw" /\ dst + plan.size + 16 > job.room

EncodePlane ==
  /\ pc = "planes" /\ i < bytesoftype
  /\ IF NeedsRoom(plans[i + 1].plan) \/ anchor + i \div 2 >= job.room
     THEN Overflow /\ UNCHANGED <<i, dst, stores, planes>>
     ELSE LET enc == EncodedPlane(plans[i + 1].plan, PlaneOf(n, i), 16, dst)
          IN  /\ planes' = Append(planes, enc)
              /\ dst' = dst + PlaneSize(enc)
              /\ stores' = PlaneStores(enc)
              /\ i' = i + 1
              /\ UNCHANGED pc
  /\ UNCHANGED <<job, n, level, ratio, anchor, plans, lz, out, reading>>

EndBlock ==
  /\ pc = "planes" /\ i = bytesoftype
  /\ out' = Append(out, [kind |-> "planes", at |-> anchor, planes |-> planes])
  /\ pc' = "marker"
  /\ UNCHANGED <<job, n, i, level, ratio, anchor, dst, stores, plans, planes, lz, reading>>

\* The ratio is tested once, after 1/16 of the input; a failed test ends the call
\* as an overflow does.
Marker ==
  /\ pc = "marker"
  /\ IF ratio /\ (n + 1) * BlockSize >= job.bytes \div 16
     THEN /\ ratio' = FALSE
          /\ \/ pc' = "block"
             \/ level >= 0 /\ Overflow
     ELSE pc' = "block" /\ UNCHANGED ratio
  /\ n' = n + 1
  /\ UNCHANGED <<job, i, level, anchor, dst, stores, plans, planes, lz, out, reading>>

-----------------------------------------------------------------------------
\* block_compress_partial.
StartPartial ==
  /\ pc = "block" /\ n = BlockCount /\ Remaining > 0
  /\ IF dst + 2 > job.room
     THEN Overflow /\ UNCHANGED <<anchor, dst, i, planes>>
     ELSE /\ anchor' = dst
          /\ dst' = dst + 1 + IF Lines > 0 THEN HeaderLen ELSE 0
          /\ i' = 0 /\ planes' = <<>>
          /\ pc' = IF Lines > 0 THEN "lines" ELSE "rest"
  /\ UNCHANGED <<job, n, level, ratio, stores, plans, lz, out, reading>>

\* The sizes of the rows that are written; the headers count for 16 rows.
LinesSize(plan) == 8 + Total([r \in Cells |-> IF r < Lines THEN plan.lines[r].size ELSE 0])

EncodeLines ==
  /\ pc = "lines" /\ i < bytesoftype
  /\ LET plan == PlanePlan(PlaneOf(n, i), FALSE)
     IN  IF dst + (IF plan.type = "same" THEN 1 ELSE LinesSize(plan) + 8) > job.room
         THEN Overflow /\ UNCHANGED <<i, dst, stores, planes>>
         ELSE LET enc == EncodedPlane(plan, PlaneOf(n, i), Lines, dst)
              IN  /\ planes' = Append(planes, enc)
                  /\ dst' = dst + PlaneSize(enc)
                  /\ stores' = PlaneStores(enc)
                  /\ i' = i + 1
                  /\ UNCHANGED pc
  /\ UNCHANGED <<job, n, level, ratio, anchor, plans, lz, out, reading>>

EndLines ==
  /\ pc = "lines" /\ i = bytesoftype
  /\ pc' = "rest"
  /\ UNCHANGED <<n, i, compressed, reading>>

\* The bytes after the last whole row.
EncodeRest ==
  /\ pc = "rest"
  /\ LET left == Remaining - LineBytes
     IN  IF left > 0 /\ dst + left > job.room
         THEN Overflow /\ UNCHANGED <<dst, stores, out>>
         ELSE /\ out' = Append(out, [kind |-> "partial", at |-> anchor, planes |-> planes,
                              rest |-> dst, bytes |-> Copied(job.bytes - left, left)])
              /\ dst' = dst + left /\ stores' = {dst'}
              /\ pc' = "done"
  /\ UNCHANGED <<job, n, i, level, ratio, anchor, plans, planes, lz, reading>>

NoPartial ==
  /\ pc = "block" /\ n = BlockCount /\ Remaining = 0
  /\ pc' = "done"
  /\ UNCHANGED <<n, i, compressed, reading>>

-----------------------------------------------------------------------------
\* block_decompress_sse of the dst bytes that were written.
Refuse == pc' = "refused" /\ UNCHANGED <<n, i, src, row, output>>
Garbage == pc' = "garbage" /\ UNCHANGED <<n, i, src, row, output>>
Unset == -1

\* `piece` lands in the output.
Filled(piece) == [o \in DOMAIN output |-> IF o \in DOMAIN piece THEN piece[o] ELSE output[o]]

StartDecompress ==
  /\ pc = "done"
  /\ IF dst < HeaderLen + bytesoftype /\ BlockCount > 0
     THEN Refuse
     ELSE /\ pc' = "read" /\ n' = 0 /\ src' = 0
          /\ output' = [o \in 0..(job.bytes - 1) |-> Unset]
          /\ UNCHANGED <<i, row>>
  /\ UNCHANGED compressed

\* The marker of a block: 252 (a copy), 253 (LZ), or the types of the planes.
ReadBlock ==
  /\ pc = "read" /\ n < BlockCount
  /\ IF src + HeaderLen >= dst THEN Refuse
     ELSE IF Len(out) <= n \/ out[n + 1].at # src THEN Garbage
     ELSE \/ /\ out[n + 1].kind = "copy"
             /\ output' = Filled(out[n + 1].bytes)
             /\ src' = src + 1 + BlockSize /\ n' = n + 1
             /\ UNCHANGED <<pc, i, row>>
          \/ /\ out[n + 1].kind = "lz"
             /\ pc' = "unlz" /\ src' = src + 1 /\ i' = 0
             /\ UNCHANGED <<n, row, output>>
          \/ /\ out[n + 1].kind \notin {"copy", "lz"}
             /\ pc' = "plane" /\ src' = src + HeaderLen /\ i' = 0
             /\ UNCHANGED <<n, row, output>>
  /\ UNCHANGED compressed

\* lz_decompress, one element; the place of its group is its rank divided by 8.
Group == out[n + 1].groups[i \div 8 + 1]
Place == i % 8

\* Element e of the block, as bytes of the output, and as they are now.
ElementAt(e, value) ==
  [o \in (n * BlockSize + e * ElementSize)..(n * BlockSize + e * ElementSize + ElementSize - 1)
     |-> value[o - (n * BlockSize + e * ElementSize)]]
Known(e) == [k \in 0..(ElementSize - 1) |-> output[n * BlockSize + e * ElementSize + k]]

LzDecompress ==
  /\ pc = "unlz" /\ i < ElementCount
  /\ LET group == Group.group
         raw   == DOMAIN group.diffs = {}
         start == IF Place = 0 THEN 1 ELSE 0
         next  == src + start + PlaceSize(group, Place, ElementSize)
     IN  IF Place = 0 /\ Group.at # src THEN Garbage
         ELSE IF \/ Place = 0 /\ src + 2 > dst
                 \/ Place = 0 /\ raw /\ src + 1 + 8 * ElementSize > dst
                 \/ next > dst
         THEN Refuse
         ELSE /\ IF Place \in DOMAIN group.diffs
                 THEN output' = Filled(ElementAt(i, Known(i - group.diffs[Place])))
                 ELSE output' = Filled(ElementAt(i, group.values[Place]))
              /\ src' = next /\ i' = i + 1
              /\ UNCHANGED <<pc, n, row>>
  /\ UNCHANGED compressed

EndUnLz ==
  /\ pc = "unlz" /\ i = ElementCount
  /\ pc' = "read" /\ n' = n + 1
  /\ UNCHANGED <<i, compressed, reading>>

-----------------------------------------------------------------------------
Enc == out[n + 1].planes[i + 1]

\* Bytes of plane i, from cell k on, as bytes of the output.
PlaneBytes(k, len, value) ==
  [o \in {Offset(n, i, m) : m \in k..(k + len - 1)} |->
     value[(o - i) \div bytesoftype - n * 256 - k]]

\* What the decoder asks for before it reads the headers and minimums of a plane.
HeadNeeds ==
  CASE Enc.type = "raw" -> 256
    [] Enc.type = "same" -> 1
    [] Enc.type = "normal" -> (Enc.rows + 1) \div 2 + Enc.rows
    [] Enc.type = "normal_rle" -> 8 + RunSize(DOMAIN Enc.mins)

\* The type of a plane, then its headers and minimums.
ReadPlane ==
  /\ pc = "plane" /\ i < bytesoftype
  /\ IF Len(out[n + 1].planes) <= i \/ Enc.at # src THEN Garbage
     ELSE IF src + HeadNeeds > dst THEN Refuse
     ELSE \/ /\ Enc.type = "raw"
             /\ output' = Filled(PlaneBytes(0, 256, Enc.values))
             /\ src' = src + 256 /\ i' = i + 1
             /\ UNCHANGED <<pc, n, row>>
          \/ /\ Enc.type = "same"
             /\ output' = Filled(PlaneBytes(0, 16 * Enc.rows,
                                            [k \in 0..255 |-> Enc.values[0]]))
             /\ src' = src + 1 /\ i' = i + 1
             /\ UNCHANGED <<pc, n, row>>
          \/ /\ Enc.type \in {"normal", "normal_rle"}
             /\ pc' = "row" /\ row' = 0 /\ src' = src + HeadSize(Enc)
             /\ UNCHANGED <<n, i, output>>
  /\ UNCHANGED compressed

Min(r) == IF Enc.type = "normal_rle" THEN Spread(Enc.mins, 0)[r]
          ELSE IF r \in DOMAIN Enc.mins THEN Enc.mins[r] ELSE 0

\* The byte before a row.
BeforeRow == IF row = 0 THEN 0 ELSE output[Offset(n, i, 16 * row - 1)]

ReadRow ==
  /\ pc = "row" /\ row < Enc.rows
  /\ LET next == src + LineSize(Enc.headers[row], Enc.bodies[row])
         line == DecodeLine(Enc.headers[row], Min(row), Enc.bodies[row], BeforeRow)
     IN  IF next > dst THEN Refuse
         ELSE /\ output' = Filled(PlaneBytes(16 * row, 16, line))
              /\ src' = next /\ row' = row + 1
              /\ UNCHANGED <<pc, n, i>>
  /\ UNCHANGED compressed

EndPlane ==
  /\ pc = "row" /\ row = Enc.rows
  /\ pc' = "plane" /\ i' = i + 1
  /\ UNCHANGED <<n, compressed, reading>>

EndPlanes ==
  /\ pc = "plane" /\ i = bytesoftype
  /\ IF n < BlockCount THEN pc' = "read" /\ n' = n + 1
                       ELSE pc' = "unrest" /\ UNCHANGED n
  /\ UNCHANGED <<i, compressed, reading>>

-----------------------------------------------------------------------------
\* block_decompress_partial.
ReadPartial ==
  /\ pc = "read" /\ n = BlockCount /\ Remaining > 0
  /\ IF src = dst THEN Refuse
     ELSE IF Len(out) <= n \/ out[n + 1].at # src THEN Garbage
     ELSE IF Lines > 0 /\ src + 1 + HeaderLen >= dst THEN Refuse
     ELSE /\ pc' = IF Lines > 0 THEN "plane" ELSE "unrest"
          /\ src' = src + 1 + IF Lines > 0 THEN HeaderLen ELSE 0
          /\ i' = 0
          /\ UNCHANGED <<n, row, output>>
  /\ UNCHANGED compressed

ReadRest ==
  /\ pc = "unrest"
  /\ LET left == Remaining - LineBytes
     IN  IF left > 0 /\ src + left > dst THEN Refuse
         ELSE IF left > 0 /\ out[n + 1].rest # src THEN Garbage
         ELSE /\ output' = Filled(out[n + 1].bytes)
              /\ src' = src + left
              /\ pc' = "restored"
              /\ UNCHANGED <<n, i, row>>
  /\ UNCHANGED compressed

NoRest ==
  /\ pc = "read" /\ n = BlockCount /\ Remaining = 0
  /\ pc' = "restored"
  /\ UNCHANGED <<n, i, compressed, reading>>

-----------------------------------------------------------------------------
Compress ==
  \/ CopyBlock \/ StartBlock \/ PlanPlane \/ Planned \/ LzCompress
  \/ Fit \/ EncodePlane \/ EndBlock \/ Marker
  \/ StartPartial \/ EncodeLines \/ EndLines \/ EncodeRest \/ NoPartial

Decompress ==
  \/ StartDecompress \/ ReadBlock \/ LzDecompress \/ EndUnLz
  \/ ReadPlane \/ ReadRow \/ EndPlane \/ EndPlanes \/ ReadPartial \/ ReadRest \/ NoRest

Next == Compress \/ Decompress

Spec == Init /\ [][Next]_vars

-----------------------------------------------------------------------------
\* Whatever the data, the strategies and the size of the destination, no store
\* of the compressor touches a byte beyond the destination: neither what is
\* copied on the strength of a predicted size, nor the bytes that a vector store
\* writes beyond the end of a row, nor an LZ block that turns out too long.
StoresStayInside == \A e \in stores : e <= job.room

\* The size that is predicted for a block is the size that is written: it is
\* what the copies of raw planes and the choice of LZ rely on.
PlannedIsWritten ==
  pc = "planes" =>
    dst = anchor + HeaderLen + IF i = 0 THEN 0 ELSE plans[i].upto

\* What was compressed, by whatever mixture of copies, LZ and planes, is never
\* refused, is read part by part where it was written, up to its last byte, and
\* gives back the input.
RoundTrip ==
  /\ pc \notin {"refused", "garbage"}
  /\ pc = "restored" => src = dst /\ output = job.source
===============================================================================

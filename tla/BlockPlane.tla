------------------------------ MODULE BlockPlane ------------------------------
(***************************************************************************)
(* One plane of a block: the 256 bytes that have the same place in 256     *)
(* consecutive elements, as 16 rows of 16.  How block_compress.h chooses   *)
(* the coding of each row and the size it predicts, what it writes, and    *)
(* what the decoder makes of it.                                           *)
(*                                                                         *)
(* A row that is written is a function from cells to bytes: all cells for  *)
(* a raw or a packed row, those that do not repeat the cell before for a   *)
(* run-length one (the mask that is stored is the complement of its        *)
(* domain), none when the minimum alone describes the row.                 *)
(***************************************************************************)
EXTENDS Integers

Byte == 0..255
Cells == 0..15
RowValues == [Cells -> Byte]
PlaneValues == [0..255 -> Byte]

Plus(a, b) == (a + b) % 256
Minus(a, b) == (a - b) % 256
Signed(b) == IF b < 128 THEN b ELSE b - 256

\* hsum_epu8 of 16 numbers, and popcnt16 of a mask.
Total(f) == f[0] + f[1] + f[2] + f[3] + f[4] + f[5] + f[6] + f[7]
            + f[8] + f[9] + f[10] + f[11] + f[12] + f[13] + f[14] + f[15]
Count(S) == Total([c \in Cells |-> IF c \in S THEN 1 ELSE 0])

RowOf(plane, r) == [c \in Cells |-> plane[16 * r + c]]

\* The byte before row r; there is none before the first.
Before(plane, r) == IF r = 0 THEN 0 ELSE plane[16 * r - 1]

Deltas(row, prev) == [c \in Cells |-> Minus(row[c], IF c = 0 THEN prev ELSE row[c - 1])]

-----------------------------------------------------------------------------
\* find_pack_bits_params.

\* The extremes are those of signed bytes.
Lowest(v) == CHOOSE b \in {v[c] : c \in Cells} : \A c \in Cells : Signed(b) <= Signed(v[c])
Highest(v) == CHOOSE b \in {v[c] : c \in Cells} : \A c \in Cells : Signed(v[c]) <= Signed(b)

\* bit_scan_reverse_8_2: 7 bits count as 8, which frees two headers.
BitScan(w) ==
  IF w = 0 THEN 0 ELSE IF w < 2 THEN 1 ELSE IF w < 4 THEN 2 ELSE IF w < 8 THEN 3
  ELSE IF w < 16 THEN 4 ELSE IF w < 32 THEN 5 ELSE IF w < 64 THEN 6 ELSE 8

Width(v) == Minus(Highest(v), Lowest(v))

\* compute_rle_row: the cells that are kept, and the size of the row.
Kept(row, prev) == {c \in Cells : row[c] # IF c = 0 THEN prev ELSE row[c - 1]}
RunSize(kept) == 2 + Count(kept)

HasNoMin(header) == header \in {6, 7, 15}

\* The coding of a row is its header, its minimum, and its size with the byte of
\* the minimum.  Six bits of plain values count as eight: their header is taken
\* by delta run lengths.
PlainBits(bits) == IF bits = 6 THEN 8 ELSE bits

\* The narrower of the row and its deltas.
PackedLine(row, deltas, bits0, bits1) ==
  IF bits0 <= bits1
  THEN [header |-> IF bits0 = 8 THEN 15 ELSE bits0, min |-> Lowest(row),
        size |-> IF bits0 = 8 THEN 16 ELSE 2 * bits0 + 1]
  ELSE [header |-> 8 + bits1, min |-> Lowest(deltas), size |-> 2 * bits1 + 1]

\* Run lengths of the row, or of its deltas, when they are shorter.
ShorterRuns(packed, run, deltaRun) ==
  IF deltaRun < packed.size /\ deltaRun < run
  THEN [packed EXCEPT !.header = 6, !.size = deltaRun]
  ELSE IF run < packed.size
  THEN [packed EXCEPT !.header = 7, !.size = run]
  ELSE packed

LinePlan(row, prev, rle) ==
  LET deltas == Deltas(row, prev)
      packed == PackedLine(row, deltas, PlainBits(BitScan(Width(row))), BitScan(Width(deltas)))
  IN  IF rle THEN ShorterRuns(packed, RunSize(Kept(row, prev)), RunSize(Kept(deltas, 0)))
             ELSE packed

\* The rows that have a minimum, and the size of the 16 minimums as run lengths.
WithMin(lines) == {r \in Cells : ~HasNoMin(lines[r].header)}
MinsOf(lines) == [r \in Cells |-> lines[r].min]
MinsRunSize(lines) == RunSize(Kept(MinsOf(lines), 0))

\* Mutant of PlaneSizes: the rows of run lengths count as rows that have a minimum.
PlaneSizesRunsHaveMin(lines) ==
  LET full == 8 + Total([r \in Cells |-> lines[r].size])
      mins == Count({r \in Cells : lines[r].header # 15})
  IN  [normal |-> full, normal_rle |-> full - (mins - MinsRunSize(lines))]

\* The size of a plane, and what it would be with the minimums as run lengths.
PlaneSizes(lines) ==
  LET full == 8 + Total([r \in Cells |-> lines[r].size])
      mins == Count(WithMin(lines))
  IN  [normal |-> full, normal_rle |-> full - (mins - MinsRunSize(lines))]

\* The coding of a plane, from that of its rows.
PlaneOfLines(plane, lines, sizes, rle) ==
  LET type == IF \A k \in 0..255 : plane[k] = plane[0] THEN "same"
              ELSE IF rle /\ sizes.normal_rle < sizes.normal THEN "normal_rle" ELSE "normal"
  IN  [type |-> type, lines |-> lines, size |-> IF type = "same" THEN 1 ELSE sizes[type]]

LinesOf(plane, rle) == [r \in Cells |-> LinePlan(RowOf(plane, r), Before(plane, r), rle)]

PlanePlan(plane, rle) ==
  LET lines == LinesOf(plane, rle)
  IN  PlaneOfLines(plane, lines, PlaneSizes(lines), rle)

-----------------------------------------------------------------------------
\* encode_lines and encode16x16_generic.

BitsOf(header) == header % 8
Limit(bits) == <<2, 4, 8, 16, 32, 64>>[bits]

\* Mutant of LineBody: a delta row always starts from zero.
LineBodyFromZero(line, row, prev) ==
  CASE line.header = 15 -> row
    [] line.header = 7 -> [c \in Kept(row, prev) |-> row[c]]
    [] line.header = 6 -> [c \in Kept(Deltas(row, 0), 0) |-> Deltas(row, 0)[c]]
    [] line.header \in {0, 8} -> [c \in {} |-> 0]
    [] line.header \in 1..5 ->
         [c \in Cells |-> Minus(row[c], line.min) % Limit(BitsOf(line.header))]
    [] OTHER ->
         [c \in Cells |-> Minus(Deltas(row, 0)[c], line.min) % Limit(BitsOf(line.header))]

\* write_line_for_type.
LineBody(line, row, prev) ==
  CASE line.header = 15 -> row
    [] line.header = 7 -> [c \in Kept(row, prev) |-> row[c]]
    [] line.header = 6 -> [c \in Kept(Deltas(row, prev), 0) |-> Deltas(row, prev)[c]]
    [] line.header \in {0, 8} -> [c \in {} |-> 0]
    [] line.header \in 1..5 ->
         [c \in Cells |-> Minus(row[c], line.min) % Limit(BitsOf(line.header))]
    [] OTHER ->
         [c \in Cells |-> Minus(Deltas(row, prev)[c], line.min) % Limit(BitsOf(line.header))]

\* What a row takes in the stream: the decoder finds it in the header and, for
\* run lengths, in the mask.
LineSize(header, body) ==
  IF header \in {6, 7} THEN RunSize(DOMAIN body)
  ELSE IF header = 15 THEN 16 ELSE 2 * BitsOf(header)

\* How many bytes the stores of a row touch beyond its end: run lengths store 16
\* bytes whatever their number is, packed rows two words of eight bytes.
Overrun(header, body) ==
  IF header \in {6, 7} THEN 16 - Count(DOMAIN body)
  ELSE IF header \in {0, 8, 15} THEN 0 ELSE 8 - BitsOf(header)

\* The minimums that are written: those of the rows that need one, or the runs
\* of all 16.
PlaneMins(plan) ==
  LET mins == MinsOf(plan.lines)
  IN  IF plan.type = "normal_rle" THEN [r \in Kept(mins, 0) |-> mins[r]]
      ELSE [r \in WithMin(plan.lines) |-> mins[r]]

\* The first `rows` rows of a plane, encoded, at the place `at` of the stream.
EncodedPlane(plan, plane, rows, at) ==
  [type    |-> plan.type,
   at      |-> at,
   rows    |-> rows,
   headers |-> [r \in 0..(rows - 1) |-> plan.lines[r].header],
   mins    |-> [r \in {r \in DOMAIN PlaneMins(plan) : r < rows} |-> PlaneMins(plan)[r]],
   bodies  |-> [r \in 0..(rows - 1) |->
                 LineBody(plan.lines[r], RowOf(plane, r), Before(plane, r))],
   values  |-> IF plan.type = "same" THEN [k \in {0} |-> plane[0]]
               ELSE IF plan.type = "raw" THEN plane ELSE [k \in {} |-> 0]]

\* The headers and minimums, the rows up to r (not included), and the whole.
HeadSize(enc) ==
  IF enc.type = "normal_rle" THEN 8 + RunSize(DOMAIN enc.mins)
  ELSE (enc.rows + 1) \div 2 + Count(DOMAIN enc.mins)

RowSizes(enc, S) ==
  Total([r \in Cells |-> IF r < enc.rows /\ r \in S
                         THEN LineSize(enc.headers[r], enc.bodies[r]) ELSE 0])

PlaneSize(enc) ==
  IF enc.type = "same" THEN 1
  ELSE IF enc.type = "raw" THEN 256
  ELSE HeadSize(enc) + RowSizes(enc, Cells)

\* Where the stores of an encoded plane end: one for the runs of the minimums,
\* one for each row.
PlaneStores(enc) ==
  IF enc.type \in {"same", "raw"} THEN {enc.at + PlaneSize(enc)}
  ELSE {enc.at + HeadSize(enc) + RowSizes(enc, 0..r) + Overrun(enc.headers[r], enc.bodies[r]) :
          r \in 0..(enc.rows - 1)}
       \union {IF enc.type = "normal_rle" THEN enc.at + 26 ELSE enc.at + HeadSize(enc)}

-----------------------------------------------------------------------------
\* decolde_line_flat.

\* decode_rle_flat: a cell that is not kept repeats the last one that is, or the
\* byte before the row.
Spread(runs, prev) ==
  [c \in Cells |->
     LET kept == {k \in DOMAIN runs : k <= c}
     IN  IF kept = {} THEN prev ELSE runs[CHOOSE k \in kept : \A j \in kept : j <= k]]

\* prefix_sum_16: four additions of the row shifted by 1, 2, 4 and 8.
AddShifted(x, n) == [c \in Cells |-> Plus(x[c], IF c >= n THEN x[c - n] ELSE 0)]
PrefixSum(x) == AddShifted(AddShifted(AddShifted(AddShifted(x, 1), 2), 4), 8)

\* fast_copyleft_flat.
CopyLeft(x, first, offset) ==
  PrefixSum([c \in Cells |-> Plus(Plus(x[c], offset), IF c = 0 THEN first ELSE 0)])

DecodeLine(header, min, body, prev) ==
  CASE header = 15 -> body
    [] header = 7 -> Spread(body, prev)
    [] header = 6 -> CopyLeft(Spread(body, 0), prev, 0)
    [] header = 0 -> [c \in Cells |-> min]
    [] header \in 1..5 -> [c \in Cells |-> Plus(body[c], min)]
    [] header = 8 -> CopyLeft([c \in Cells |-> 0], prev, min)
    [] OTHER -> CopyLeft(body, prev, min)
===============================================================================

---------------------------- MODULE BlockCodecProofs ----------------------------
(***************************************************************************)
(* block_compress and block_decompress, for every input, level,            *)
(* destination and initial table.                                          *)
(*                                                                         *)
(* First a plane: the decoder restores each row from its header, its       *)
(* minimum and its body, the size that is planned is the size that is      *)
(* written, and the vector stores end within 16 bytes of it.  Then the     *)
(* sizes of a block (IInv): what is predicted for it is what is written,   *)
(* and no store touches a byte beyond the destination.  Last the round     *)
(* trip (RoundInv): the parts of the stream follow each other and hold     *)
(* the input (StreamGood); the decoder is where a part, a group, a plane   *)
(* or a row begins, and what it wrote so far is the input (WhatIsRead).    *)
(***************************************************************************)
EXTENDS BlockCodec, WellFoundedInduction, TLAPS

-----------------------------------------------------------------------------
(* Bytes *)

LEMMA PlusCases ==
  ASSUME NEW a \in Byte, NEW b \in Byte
  PROVE  /\ Plus(a, b) \in Byte
         /\ Plus(a, b) = a + b \/ Plus(a, b) = a + b - 256
  BY SMT DEF Plus, Byte

LEMMA MinusCases ==
  ASSUME NEW a \in Byte, NEW b \in Byte
  PROVE  /\ Minus(a, b) \in Byte
         /\ Minus(a, b) = a - b \/ Minus(a, b) = a - b + 256
PROOF
<1>1. (a - b) % 256 \in 0..255  BY SMT DEF Byte
<1>2. (a - b) % 256 = a - b \/ (a - b) % 256 = a - b + 256  BY SMT DEF Byte
<1> QED BY <1>1, <1>2 DEF Minus, Byte

\* Adding back what was subtracted restores a byte.
LEMMA PlusMinus ==
  ASSUME NEW a \in Byte, NEW b \in Byte
  PROVE  Plus(Minus(a, b), b) = a
PROOF
<1> DEFINE m == Minus(a, b)
           p == Plus(m, b)
<1>1. m \in Byte /\ (m = a - b \/ m = a - b + 256)  BY MinusCases
<1>2. p \in Byte /\ (p = m + b \/ p = m + b - 256)  BY <1>1, PlusCases
<1> HIDE DEF m, p
<1>3. p = a  BY <1>1, <1>2, SMT DEF Byte
<1> QED BY <1>3 DEF m, p

\* A telescoping sum: the difference of a and c is that of a and b and that of b and c.
LEMMA MinusChain ==
  ASSUME NEW a \in Byte, NEW b \in Byte, NEW c \in Byte
  PROVE  Plus(Minus(a, b), Minus(b, c)) = Minus(a, c)
PROOF
<1> DEFINE ab == Minus(a, b)
           bc == Minus(b, c)
           ac == Minus(a, c)
           p  == Plus(ab, bc)
<1>1. ab \in Byte /\ (ab = a - b \/ ab = a - b + 256)  BY MinusCases
<1>2. bc \in Byte /\ (bc = b - c \/ bc = b - c + 256)  BY MinusCases
<1>3. ac \in Byte /\ (ac = a - c \/ ac = a - c + 256)  BY MinusCases
<1>4. p \in Byte /\ (p = ab + bc \/ p = ab + bc - 256)  BY <1>1, <1>2, PlusCases
<1> HIDE DEF ab, bc, ac, p
<1>5. p = ac  BY <1>1, <1>2, <1>3, <1>4, SMT DEF Byte
<1> QED BY <1>5 DEF ab, bc, ac, p

LEMMA ByteZero ==
  ASSUME NEW a \in Byte
  PROVE  0 \in Byte /\ Plus(a, 0) = a /\ Plus(0, a) = a /\ Minus(a, 0) = a
  BY SMT DEF Plus, Minus, Byte

\* The difference of two bytes is that of their signed values, when it is not negative.
LEMMA SignedMinus ==
  ASSUME NEW a \in Byte, NEW b \in Byte, Signed(b) <= Signed(a)
  PROVE  Minus(a, b) = Signed(a) - Signed(b)
PROOF
<1>1. Minus(a, b) \in Byte /\ (Minus(a, b) = a - b \/ Minus(a, b) = a - b + 256)
  BY MinusCases
<1> QED BY <1>1, SMT DEF Signed, Byte

LEMMA SignedRange ==
  ASSUME NEW a \in Byte
  PROVE  Signed(a) \in Int /\ 0 <= Signed(a) + 128 /\ Signed(a) <= 127
  BY SMT DEF Signed, Byte

-----------------------------------------------------------------------------
(* The extremes of a row *)

LEMMA LeastElement ==
  ASSUME NEW T \in SUBSET Nat, T # {}
  PROVE  \E x \in T : \A y \in T : x <= y
PROOF
<1> DEFINE R == OpToRel(<, Nat)
<1>1. IsWellFoundedOn(R, Nat)  BY NatLessThanWellFounded
<1>2. R = {ss \in Nat \X Nat : ss[1] < ss[2]}  BY DEF OpToRel
<1> HIDE DEF R
<1>3. PICK x \in T : \A y \in T : ~ (<<y, x>> \in R)  BY <1>1, WFMin
<1>4. \A y \in T : ~(y < x)  BY <1>2, <1>3
<1> QED BY <1>4

\* A row has a least value and a greatest one, as signed bytes.
LEMMA Extremes ==
  ASSUME NEW v \in RowValues
  PROVE  /\ Lowest(v) \in Byte /\ Highest(v) \in Byte
         /\ \A c \in Cells : Signed(Lowest(v)) <= Signed(v[c]) /\ Signed(v[c]) <= Signed(Highest(v))
PROOF
<1> DEFINE V == {v[c] : c \in Cells}
           L == {Signed(b) + 128 : b \in V}
           H == {127 - Signed(b) : b \in V}
<1>1. V \subseteq Byte /\ v[0] \in V /\ \A c \in Cells : v[c] \in V
  BY DEF RowValues, Cells
<1> HIDE DEF V
<1>2. L \in SUBSET Nat /\ L # {} /\ H \in SUBSET Nat /\ H # {}
  BY <1>1, SignedRange
<1>3. \E b \in V : \A c \in Cells : Signed(b) <= Signed(v[c])
  <2>1. PICK x \in L : \A y \in L : x <= y  BY <1>2, LeastElement
  <2>2. PICK b \in V : x = Signed(b) + 128  BY <2>1
  <2>3. \A c \in Cells : Signed(b) + 128 <= Signed(v[c]) + 128  BY <1>1, <2>1, <2>2
  <2> HIDE DEF L, H
  <2>4. ASSUME NEW c \in Cells PROVE Signed(b) <= Signed(v[c])
    <3>1. Signed(b) \in Int /\ Signed(v[c]) \in Int  BY <1>1, SignedRange
    <3> QED BY <2>3, <3>1
  <2> QED BY <2>4
<1>4. \E b \in V : \A c \in Cells : Signed(v[c]) <= Signed(b)
  <2>1. PICK x \in H : \A y \in H : x <= y  BY <1>2, LeastElement
  <2>2. PICK b \in V : x = 127 - Signed(b)  BY <2>1
  <2>3. \A c \in Cells : 127 - Signed(b) <= 127 - Signed(v[c])  BY <1>1, <2>1, <2>2
  <2> HIDE DEF L, H
  <2>4. ASSUME NEW c \in Cells PROVE Signed(v[c]) <= Signed(b)
    <3>1. Signed(b) \in Int /\ Signed(v[c]) \in Int  BY <1>1, SignedRange
    <3> QED BY <2>3, <3>1
  <2> QED BY <2>4
<1> QED BY <1>1, <1>3, <1>4 DEF Lowest, Highest, V

\* Every value of a row is its minimum and at most its width.
LEMMA WidthBounds ==
  ASSUME NEW v \in RowValues
  PROVE  /\ Width(v) \in Byte
         /\ \A c \in Cells : Minus(v[c], Lowest(v)) \in 0..Width(v)
PROOF
<1> DEFINE l == Lowest(v)
           h == Highest(v)
<1>1. l \in Byte /\ h \in Byte  BY Extremes
<1>2. \A c \in Cells : v[c] \in Byte /\ Signed(l) <= Signed(v[c]) /\ Signed(v[c]) <= Signed(h)
  BY Extremes DEF RowValues
<1> HIDE DEF l, h
<1>3. Signed(l) <= Signed(h)
  <2>1. Signed(l) <= Signed(v[0]) /\ Signed(v[0]) <= Signed(h) /\ v[0] \in Byte
    BY <1>2 DEF Cells
  <2>2. Signed(v[0]) \in Int /\ Signed(l) \in Int /\ Signed(h) \in Int
    BY <1>1, <2>1, SignedRange
  <2> QED BY <2>1, <2>2
<1>4. Minus(h, l) = Signed(h) - Signed(l) /\ Minus(h, l) \in Byte  BY <1>1, <1>3, SignedMinus, MinusCases
<1>5. ASSUME NEW c \in Cells
      PROVE  Minus(v[c], l) \in 0..Minus(h, l)
  <2>1. v[c] \in Byte  BY <1>2
  <2>2. Minus(v[c], l) = Signed(v[c]) - Signed(l)  BY <1>1, <1>2, <2>1, SignedMinus
  <2>3. Signed(v[c]) \in Int /\ Signed(l) \in Int /\ Signed(h) \in Int
    BY <1>1, <2>1, SignedRange
  <2>4. Signed(l) <= Signed(v[c]) /\ Signed(v[c]) <= Signed(h)  BY <1>2
  <2>5. Signed(v[c]) - Signed(l) \in 0..(Signed(h) - Signed(l))  BY <2>3, <2>4
  <2> QED BY <1>4, <2>2, <2>5
<1> QED BY <1>4, <1>5 DEF Width, l, h

-----------------------------------------------------------------------------
(* Prefix sums *)

\* Entry k of a row, 0 before the row.
Entry(y, k) == IF k < 0 THEN 0 ELSE y[k]

\* x holds the differences of y at distance n.
IsDifference(x, y, off) == x \in RowValues /\ \A c \in Cells : x[c] = Minus(y[c], Entry(y, c - off))

\* One addition of the shifted row doubles the distance.
LEMMA ShiftDoubles ==
  ASSUME NEW x, NEW y \in RowValues, NEW off \in 1..8, IsDifference(x, y, off)
  PROVE  IsDifference(AddShifted(x, off), y, 2 * off)
PROOF
<1>1. \A c \in Cells : y[c] \in Byte /\ x[c] \in Byte /\ Minus(y[c], Entry(y, c - off)) = x[c]
  BY DEF IsDifference, RowValues
<1>2. \A k \in Int : k <= 15 => Entry(y, k) \in Byte
  BY <1>1, ByteZero DEF Entry, Cells
<1>3. ASSUME NEW c \in Cells
      PROVE  /\ AddShifted(x, off)[c] \in Byte
             /\ AddShifted(x, off)[c] = Minus(y[c], Entry(y, c - 2 * off))
  <2>1. AddShifted(x, off)[c] = Plus(x[c], IF c >= off THEN x[c - off] ELSE 0)
    BY DEF AddShifted
  <2>2. CASE c >= off
    <3>1. c - off \in Cells /\ c - off - off = c - 2 * off /\ c - 2 * off \in Int /\ c - 2 * off <= 15
      BY <2>2 DEF Cells
    <3>2. x[c] = Minus(y[c], y[c - off]) /\ x[c - off] = Minus(y[c - off], Entry(y, c - 2 * off))
      BY <1>1, <2>2, <3>1 DEF Entry, Cells
    <3>3. AddShifted(x, off)[c] = Plus(x[c], x[c - off])  BY <2>1, <2>2
    <3>4. y[c] \in Byte /\ y[c - off] \in Byte /\ Entry(y, c - 2 * off) \in Byte
      BY <1>1, <1>2, <3>1
    <3>5. AddShifted(x, off)[c] = Minus(y[c], Entry(y, c - 2 * off))
      BY <3>2, <3>3, <3>4, MinusChain
    <3> QED BY <3>4, <3>5, MinusCases
  <2>3. CASE ~(c >= off)
    <3>1. Entry(y, c - off) = 0 /\ Entry(y, c - 2 * off) = 0
      BY <2>3 DEF Entry, Cells
    <3>2. AddShifted(x, off)[c] = Plus(x[c], 0)  BY <2>1, <2>3
    <3>3. AddShifted(x, off)[c] = x[c]  BY <1>1, <3>2, ByteZero
    <3> QED BY <1>1, <3>1, <3>3
  <2> QED BY <2>2, <2>3
<1>4. AddShifted(x, off) \in RowValues
  BY <1>3 DEF AddShifted, RowValues
<1> QED BY <1>3, <1>4 DEF IsDifference

\* The four additions of prefix_sum_16 restore a row from the differences of neighbours.
LEMMA PrefixSumRestores ==
  ASSUME NEW x, NEW y \in RowValues, IsDifference(x, y, 1)
  PROVE  PrefixSum(x) = y
PROOF
<1> DEFINE a == AddShifted(x, 1)
           b == AddShifted(a, 2)
           d == AddShifted(b, 4)
           e == AddShifted(d, 8)
<1>1. IsDifference(a, y, 2)
  <2>1. IsDifference(AddShifted(x, 1), y, 2 * 1)  BY ShiftDoubles
  <2> QED BY <2>1
<1> HIDE DEF a
<1>2. IsDifference(b, y, 4)
  <2>1. IsDifference(AddShifted(a, 2), y, 2 * 2)  BY <1>1, ShiftDoubles
  <2> QED BY <2>1
<1> HIDE DEF b
<1>3. IsDifference(d, y, 8)
  <2>1. IsDifference(AddShifted(b, 4), y, 2 * 4)  BY <1>2, ShiftDoubles
  <2> QED BY <2>1
<1> HIDE DEF d
<1>4. IsDifference(e, y, 16)
  <2>1. IsDifference(AddShifted(d, 8), y, 2 * 8)  BY <1>3, ShiftDoubles
  <2> QED BY <2>1
<1> HIDE DEF e
<1>5. \A c \in Cells : e[c] = y[c]
  <2>1. \A c \in Cells : Entry(y, c - 16) = 0  BY DEF Entry, Cells
  <2>2. \A c \in Cells : y[c] \in Byte  BY DEF RowValues
  <2> QED BY <1>4, <2>1, <2>2, ByteZero DEF IsDifference
<1>6. e \in RowValues  BY <1>4 DEF IsDifference
<1>7. e = y  BY <1>5, <1>6 DEF RowValues
<1> QED BY <1>7 DEF PrefixSum, a, b, d, e

LEMMA DeltasAreBytes ==
  ASSUME NEW vals \in RowValues, NEW prev \in Byte
  PROVE  /\ Deltas(vals, prev) \in RowValues
         /\ \A c \in Cells : Deltas(vals, prev)[c] = Minus(vals[c], IF c = 0 THEN prev ELSE vals[c - 1])
PROOF
<1>1. \A c \in Cells : vals[c] \in Byte /\ (c # 0 => vals[c - 1] \in Byte)
  BY DEF RowValues, Cells
<1>2. \A c \in Cells : Minus(vals[c], IF c = 0 THEN prev ELSE vals[c - 1]) \in Byte
  BY <1>1, MinusCases
<1> QED BY <1>2 DEF Deltas, RowValues

\* fast_copyleft_flat restores a row from its deltas, once the minimum is added back.
LEMMA CopyLeftRestores ==
  ASSUME NEW vals \in RowValues, NEW prev \in Byte, NEW x \in RowValues, NEW offset \in Byte,
         \A c \in Cells : Plus(x[c], offset) = Deltas(vals, prev)[c]
  PROVE  CopyLeft(x, prev, offset) = vals
PROOF
<1> DEFINE z == [c \in Cells |-> Plus(Plus(x[c], offset), IF c = 0 THEN prev ELSE 0)]
           d == Deltas(vals, prev)
<1>1. d \in RowValues /\ \A c \in Cells : d[c] = Minus(vals[c], IF c = 0 THEN prev ELSE vals[c - 1])
  BY DeltasAreBytes
<1>2. \A c \in Cells : vals[c] \in Byte /\ d[c] \in Byte
  BY <1>1 DEF RowValues
<1> HIDE DEF d
<1>3. ASSUME NEW c \in Cells
      PROVE  z[c] \in Byte /\ z[c] = Minus(vals[c], Entry(vals, c - 1))
  <2>1. z[c] = Plus(d[c], IF c = 0 THEN prev ELSE 0)  BY DEF d
  <2>2. CASE c = 0
    <3>1. d[c] = Minus(vals[c], prev) /\ z[c] = Plus(d[c], prev)  BY <1>1, <2>1, <2>2
    <3>2. z[c] = vals[c]  BY <1>2, <3>1, PlusMinus
    <3>3. Entry(vals, c - 1) = 0  BY <2>2 DEF Entry
    <3> QED BY <1>2, <3>2, <3>3, ByteZero
  <2>3. CASE c # 0
    <3>1. d[c] = Minus(vals[c], vals[c - 1]) /\ z[c] = Plus(d[c], 0)  BY <1>1, <2>1, <2>3
    <3>2. z[c] = d[c]  BY <1>2, <3>1, ByteZero
    <3>3. Entry(vals, c - 1) = vals[c - 1]  BY <2>3 DEF Entry, Cells
    <3> QED BY <1>2, <3>1, <3>2, <3>3
  <2> QED BY <2>2, <2>3
<1>4. z \in RowValues  BY <1>3 DEF RowValues
<1> HIDE DEF z
<1>5. IsDifference(z, vals, 1)  BY <1>3, <1>4 DEF IsDifference
<1>6. PrefixSum(z) = vals  BY <1>5, PrefixSumRestores
<1> QED BY <1>6 DEF CopyLeft, z

-----------------------------------------------------------------------------
(* Run lengths *)

LEMMA GreatestCell ==
  ASSUME NEW S \in SUBSET Cells, S # {}
  PROVE  \E k \in S : \A j \in S : j <= k
PROOF
<1> DEFINE T == {15 - k : k \in S}
<1>1. \A k \in S : k \in 0..15 /\ 15 - k \in Nat  BY SMT DEF Cells
<1>2. T \in SUBSET Nat /\ T # {}  BY <1>1
<1>3. PICK x \in T : \A y \in T : x <= y  BY <1>2, LeastElement
<1>4. PICK k \in S : x = 15 - k  BY <1>3
<1>5. ASSUME NEW j \in S PROVE j <= k
  <2>1. 15 - k <= 15 - j  BY <1>3, <1>4
  <2> QED BY <1>1, <2>1
<1> QED BY <1>5

\* The cells that are kept, each followed by its repetitions, are the whole row.
LEMMA SpreadRestores ==
  ASSUME NEW vals \in RowValues, NEW prev
  PROVE  Spread([c \in Kept(vals, prev) |-> vals[c]], prev) = vals
PROOF
<1> DEFINE K == Kept(vals, prev)
           runs == [c \in K |-> vals[c]]
           s == Spread(runs, prev)
           At(c) == {k \in K : k <= c}
           Top(c) == CHOOSE k \in At(c) : \A j \in At(c) : j <= k
           Wrong == {c \in Cells : s[c] # vals[c]}
<1>1. /\ K \in SUBSET Cells
      /\ \A c \in Cells : c \notin K => vals[c] = IF c = 0 THEN prev ELSE vals[c - 1]
  BY DEF Kept
<1>2. /\ DOMAIN runs = K /\ \A k \in K : runs[k] = vals[k]
      /\ \A c \in Cells : s[c] = IF At(c) = {} THEN prev ELSE runs[Top(c)]
  BY DEF Spread
<1>3. \A c \in Cells : At(c) # {} => Top(c) \in At(c) /\ \A j \in At(c) : j <= Top(c)
  <2>1. \A c \in Cells : At(c) \in SUBSET Cells  BY <1>1
  <2> QED BY <2>1, GreatestCell
<1> HIDE DEF K, runs, s
<1>4. ASSUME Wrong # {} PROVE FALSE
  <2>1. Wrong \in SUBSET Nat  BY DEF Cells
  <2>2. PICK c \in Wrong : \A y \in Wrong : c <= y  BY <1>4, <2>1, LeastElement
  <2>3. c \in Cells /\ s[c] # vals[c]  OBVIOUS
  <2>4. CASE c \in K
    <3>1. c \in At(c)  BY <2>3, <2>4 DEF Cells
    <3>2. Top(c) \in At(c) /\ c <= Top(c)  BY <1>3, <2>3, <3>1
    <3>3. Top(c) = c
      <4> DEFINE t == Top(c)
      <4>1. t \in Cells /\ t <= c /\ c <= t  BY <1>1, <3>2
      <4> HIDE DEF t
      <4>2. t = c  BY <2>3, <4>1 DEF Cells
      <4> QED BY <4>2 DEF t
    <3> QED BY <1>2, <2>3, <2>4, <3>1, <3>3
  <2>5. CASE c \notin K /\ c = 0
    <3>1. ASSUME NEW k \in At(c) PROVE FALSE
      <4>1. k \in K /\ k \in Cells /\ k <= 0  BY <1>1, <2>5
      <4>2. k = 0  BY <4>1 DEF Cells
      <4> QED BY <2>5, <4>1, <4>2
    <3>2. At(c) = {}  BY <3>1
    <3> QED BY <1>1, <1>2, <2>3, <2>5, <3>2
  <2>6. CASE c \notin K /\ c # 0
    <3>1. c - 1 \in Cells /\ ~(c <= c - 1)  BY <2>3, <2>6 DEF Cells
    <3>2. At(c) = At(c - 1)  BY <1>1, <2>3, <2>6 DEF Cells
    <3>3. s[c] = s[c - 1]  BY <1>2, <2>3, <3>1, <3>2
    <3>4. s[c - 1] = vals[c - 1]  BY <2>2, <3>1
    <3> QED BY <1>1, <2>3, <2>6, <3>3, <3>4
  <2> QED BY <2>4, <2>5, <2>6
<1>5. \A c \in Cells : s[c] = vals[c]  BY <1>4
<1>6. s = [c \in Cells |-> s[c]]  BY DEF s, Spread
<1>7. vals = [c \in Cells |-> vals[c]]  BY DEF RowValues
<1>8. s = vals  BY <1>5, <1>6, <1>7
<1> QED BY <1>8 DEF s, runs, K

-----------------------------------------------------------------------------
(* Packed rows *)

LEMMA BitScanBounds ==
  ASSUME NEW w \in Byte
  PROVE  /\ BitScan(w) \in {0, 1, 2, 3, 4, 5, 6, 8}
         /\ BitScan(w) = 0 <=> w = 0
         /\ BitScan(w) \in 1..6 => w < Limit(BitScan(w))
  BY SMT DEF BitScan, Byte, Limit

\* A body of `bits` bits holds the whole value.
LEMMA PackedKeeps ==
  ASSUME NEW v \in RowValues, NEW b \in 1..6, BitScan(Width(v)) = b
  PROVE  [c \in Cells |-> Minus(v[c], Lowest(v)) % Limit(b)]
           = [c \in Cells |-> Minus(v[c], Lowest(v))]
PROOF
<1>1. Width(v) \in Byte /\ Width(v) < Limit(b)
  BY WidthBounds, BitScanBounds
<1>2. Limit(b) \in 2..64  BY SMT DEF Limit
<1>3. ASSUME NEW c \in Cells
      PROVE  Minus(v[c], Lowest(v)) % Limit(b) = Minus(v[c], Lowest(v))
  <2> DEFINE m == Minus(v[c], Lowest(v))
             l == Limit(b)
             w == Width(v)
  <2>1. m \in 0..w /\ w \in Byte /\ w < l /\ l \in 2..64  BY <1>1, <1>2, WidthBounds
  <2> HIDE DEF m, l, w
  <2>2. m \in Nat /\ m < l /\ l \in Nat /\ l > 0  BY <2>1 DEF Byte
  <2>3. m % l = m  BY <2>2, SMT
  <2> QED BY <2>3 DEF m, l
<1> QED BY <1>3

\* A row of width 0 is its minimum.
LEMMA FlatRow ==
  ASSUME NEW v \in RowValues, BitScan(Width(v)) = 0
  PROVE  Lowest(v) \in Byte /\ \A c \in Cells : v[c] = Lowest(v)
PROOF
<1>1. Width(v) = 0 /\ Lowest(v) \in Byte  BY WidthBounds, BitScanBounds, Extremes
<1>2. ASSUME NEW c \in Cells PROVE v[c] = Lowest(v)
  <2>1. v[c] \in Byte  BY DEF RowValues
  <2>2. Minus(v[c], Lowest(v)) \in 0..0  BY <1>1, WidthBounds
  <2>3. Plus(Minus(v[c], Lowest(v)), Lowest(v)) = v[c]  BY <1>1, <2>1, PlusMinus
  <2> QED BY <1>1, <2>2, <2>3, ByteZero
<1> QED BY <1>1, <1>2

-----------------------------------------------------------------------------
(* Sums of 16 numbers *)

LEMMA CountBounds ==
  ASSUME NEW S
  PROVE  Count(S) \in 0..16
PROOF
<1> DEFINE f == [c \in Cells |-> IF c \in S THEN 1 ELSE 0]
<1>1. \A c \in Cells : f[c] \in 0..1  OBVIOUS
<1>2. {0,1,2,3,4,5,6,7,8,9,10,11,12,13,14,15} \subseteq Cells  BY DEF Cells
<1> HIDE DEF f
<1>3. Total(f) \in 0..16  BY <1>1, <1>2 DEF Total
<1> QED BY <1>3 DEF Count, f

\* Total, four terms at a time.
Part1(f) == f[0] + f[1] + f[2] + f[3]
Part2(f) == Part1(f) + f[4] + f[5] + f[6] + f[7]
Part3(f) == Part2(f) + f[8] + f[9] + f[10] + f[11]
Part4(f) == Part3(f) + f[12] + f[13] + f[14] + f[15]

LEMMA TotalInParts ==
  ASSUME NEW f
  PROVE  Total(f) = Part4(f)
  BY Zenon DEF Total, Part1, Part2, Part3, Part4

\* A sum of sums, and a sum of smaller terms.
LEMMA TotalOfSums ==
  ASSUME NEW f, NEW g, NEW h,
         \A c \in Cells : f[c] \in Int /\ g[c] \in Int /\ h[c] \in Int /\ f[c] = g[c] + h[c]
  PROVE  Total(f) \in Int /\ Total(g) \in Int /\ Total(h) \in Int /\ Total(f) = Total(g) + Total(h)
PROOF
<1> DEFINE Sums(c) == f[c] \in Int /\ g[c] \in Int /\ h[c] \in Int /\ f[c] = g[c] + h[c]
           Are(x, y, z) == x \in Int /\ y \in Int /\ z \in Int /\ x = y + z
<1>1. \A c \in 0..15 : Sums(c)  BY DEF Cells
<1>2. Are(Part1(f), Part1(g), Part1(h))
  <2>1. Sums(0) /\ Sums(1) /\ Sums(2) /\ Sums(3)  BY <1>1
  <2> QED BY <2>1 DEF Part1
<1>3. Are(Part2(f), Part2(g), Part2(h))
  <2>1. Sums(4) /\ Sums(5) /\ Sums(6) /\ Sums(7)  BY <1>1
  <2> QED BY <1>2, <2>1 DEF Part2
<1>4. Are(Part3(f), Part3(g), Part3(h))
  <2>1. Sums(8) /\ Sums(9) /\ Sums(10) /\ Sums(11)  BY <1>1
  <2> QED BY <1>3, <2>1 DEF Part3
<1>5. Are(Part4(f), Part4(g), Part4(h))
  <2>1. Sums(12) /\ Sums(13) /\ Sums(14) /\ Sums(15)  BY <1>1
  <2> QED BY <1>4, <2>1 DEF Part4
<1> QED BY <1>5, TotalInParts

LEMMA TotalOfSmaller ==
  ASSUME NEW f, NEW g,
         \A c \in Cells : f[c] \in Nat /\ g[c] \in Nat /\ f[c] <= g[c]
  PROVE  Total(f) \in Nat /\ Total(g) \in Nat /\ Total(f) <= Total(g)
PROOF
<1> DEFINE Smaller(x, y) == x \in Nat /\ y \in Nat /\ x <= y
<1>1. \A c \in 0..15 : Smaller(f[c], g[c])  BY DEF Cells
<1>2. Smaller(Part1(f), Part1(g))
  <2>1. Smaller(f[0], g[0]) /\ Smaller(f[1], g[1]) /\ Smaller(f[2], g[2]) /\ Smaller(f[3], g[3])
    BY <1>1
  <2> QED BY <2>1 DEF Part1
<1>3. Smaller(Part2(f), Part2(g))
  <2>1. Smaller(f[4], g[4]) /\ Smaller(f[5], g[5]) /\ Smaller(f[6], g[6]) /\ Smaller(f[7], g[7])
    BY <1>1
  <2> QED BY <1>2, <2>1 DEF Part2
<1>4. Smaller(Part3(f), Part3(g))
  <2>1. Smaller(f[8], g[8]) /\ Smaller(f[9], g[9]) /\ Smaller(f[10], g[10]) /\ Smaller(f[11], g[11])
    BY <1>1
  <2> QED BY <1>3, <2>1 DEF Part3
<1>5. Smaller(Part4(f), Part4(g))
  <2>1. Smaller(f[12], g[12]) /\ Smaller(f[13], g[13]) /\ Smaller(f[14], g[14]) /\ Smaller(f[15], g[15])
    BY <1>1
  <2> QED BY <1>4, <2>1 DEF Part4
<1> QED BY <1>5, TotalInParts

-----------------------------------------------------------------------------
(* One row *)

\* What LinePlan may choose: a raw row, its packed values or deltas with the
\* width and the minimum they have, or the run lengths of either.
LEMMA PackedCases ==
  ASSUME NEW vals, NEW d, NEW b \in Byte, NEW e \in Byte
  PROVE  LET p == PackedLine(vals, d, PlainBits(BitScan(b)), BitScan(e))
         IN  \/ p.header = 15 /\ p.size = 16
             \/ /\ p.header \in 0..5 /\ p.header = BitScan(b)
                /\ p.min = Lowest(vals) /\ p.size = 2 * p.header + 1
             \/ /\ p.header \in 8..14 /\ p.header - 8 = BitScan(e)
                /\ p.min = Lowest(d) /\ p.size = 2 * (p.header - 8) + 1
PROOF
<1> DEFINE b0 == BitScan(b)
           b1 == BitScan(e)
           p0 == PlainBits(b0)
           p  == PackedLine(vals, d, p0, b1)
<1>1. b0 \in {0, 1, 2, 3, 4, 5, 6, 8} /\ b1 \in {0, 1, 2, 3, 4, 5, 6, 8}  BY BitScanBounds
<1> HIDE DEF b0, b1
<1>2. p0 \in {0, 1, 2, 3, 4, 5, 8} /\ (p0 = b0 \/ p0 = 8)  BY <1>1 DEF PlainBits
<1> HIDE DEF p0
<1>3. CASE p0 <= b1 /\ p0 = 8
  <2>1. p.header = 15 /\ p.size = 16  BY <1>3 DEF PackedLine
  <2> QED BY <2>1 DEF p, p0, b0, b1
<1>4. CASE p0 <= b1 /\ p0 # 8
  <2>1. p.header = p0 /\ p.min = Lowest(vals) /\ p.size = 2 * p0 + 1  BY <1>4 DEF PackedLine
  <2>2. p0 \in 0..5 /\ p0 = b0  BY <1>2, <1>4
  <2> QED BY <2>1, <2>2 DEF p, p0, b0, b1
<1>5. CASE ~(p0 <= b1)
  <2>1. p.header = 8 + b1 /\ p.min = Lowest(d) /\ p.size = 2 * b1 + 1  BY <1>5 DEF PackedLine
  <2>2. b1 \in 0..6  BY <1>1, <1>2, <1>5
  <2>3. 8 + b1 \in 8..14 /\ (8 + b1) - 8 = b1  BY <2>2
  <2> QED BY <2>1, <2>2, <2>3 DEF p, p0, b0, b1
<1> QED BY <1>3, <1>4, <1>5

LineCases(line, vals, prev) ==
  \/ line.header = 15 /\ line.size = 16
  \/ line.header = 7 /\ line.size = RunSize(Kept(vals, prev))
  \/ line.header = 6 /\ line.size = RunSize(Kept(Deltas(vals, prev), 0))
  \/ /\ line.header \in 0..5 /\ line.header = BitScan(Width(vals))
     /\ line.min = Lowest(vals) /\ line.size = 2 * line.header + 1
  \/ /\ line.header \in 8..14 /\ line.header - 8 = BitScan(Width(Deltas(vals, prev)))
     /\ line.min = Lowest(Deltas(vals, prev)) /\ line.size = 2 * (line.header - 8) + 1

LEMMA PlannedCases ==
  ASSUME NEW vals \in RowValues, NEW prev \in Byte, NEW rle \in BOOLEAN
  PROVE  LineCases(LinePlan(vals, prev, rle), vals, prev)
PROOF
<1> DEFINE d == Deltas(vals, prev)
           p == PackedLine(vals, d, PlainBits(BitScan(Width(vals))), BitScan(Width(d)))
           run == RunSize(Kept(vals, prev))
           deltaRun == RunSize(Kept(d, 0))
           line == LinePlan(vals, prev, rle)
<1>1. Width(vals) \in Byte /\ Width(d) \in Byte  BY WidthBounds, DeltasAreBytes
<1>2. \/ p.header = 15 /\ p.size = 16
      \/ /\ p.header \in 0..5 /\ p.header = BitScan(Width(vals))
         /\ p.min = Lowest(vals) /\ p.size = 2 * p.header + 1
      \/ /\ p.header \in 8..14 /\ p.header - 8 = BitScan(Width(d))
         /\ p.min = Lowest(d) /\ p.size = 2 * (p.header - 8) + 1
  BY <1>1, PackedCases
<1>3. line = IF rle THEN ShorterRuns(p, run, deltaRun) ELSE p
  BY DEF LinePlan
<1>4. \E h, m, s : p = [header |-> h, min |-> m, size |-> s]
  BY DEF PackedLine
<1> HIDE DEF p, line
<1>5. \/ line = p
      \/ line.header = 7 /\ line.size = run
      \/ line.header = 6 /\ line.size = deltaRun
  BY <1>3, <1>4 DEF ShorterRuns
<1> HIDE DEF d, run, deltaRun
<1>6. LineCases(line, vals, prev)  BY <1>2, <1>5 DEF LineCases, d, run, deltaRun
<1> QED BY <1>6 DEF line

\* No header has two codings.
LEMMA HeaderCases ==
  ASSUME NEW h
  PROVE  /\ h = 15 =>
              h # 7 /\ h # 6 /\ h # 0 /\ h \notin 1..5 /\ h # 8
         /\ h = 7 =>
              h # 15 /\ h # 6 /\ h # 0 /\ h \notin 1..5 /\ h # 8
         /\ h = 6 =>
              h # 15 /\ h # 7 /\ h # 0 /\ h \notin 1..5 /\ h # 8
         /\ h = 0 =>
              h # 15 /\ h # 7 /\ h # 6 /\ h \notin 1..5 /\ h # 8
         /\ h \in 1..5 =>
              h # 15 /\ h # 7 /\ h # 6 /\ h # 0 /\ h # 8
         /\ h = 8 =>
              h # 15 /\ h # 7 /\ h # 6 /\ h # 0 /\ h \notin 1..5
         /\ h \in 9..14 =>
              h # 15 /\ h # 7 /\ h # 6 /\ h # 0 /\ h \notin 1..5 /\ h # 8
  OBVIOUS

\* LineBody and DecodeLine, one coding at a time.
LEMMA BodyCases ==
  ASSUME NEW line, NEW vals, NEW prev
  PROVE  LET body == LineBody(line, vals, prev)
             d == Deltas(vals, prev)
         IN  /\ line.header = 15 => body = vals
             /\ line.header = 7 => body = [c \in Kept(vals, prev) |-> vals[c]]
             /\ line.header = 6 => body = [c \in Kept(d, 0) |-> d[c]]
             /\ line.header \in 1..5 =>
                  body = [c \in Cells |-> Minus(vals[c], line.min) % Limit(BitsOf(line.header))]
             /\ line.header \in 9..14 =>
                  body = [c \in Cells |-> Minus(d[c], line.min) % Limit(BitsOf(line.header))]
PROOF
<1>1. CASE line.header = 15  BY <1>1, HeaderCases, Zenon DEF LineBody
<1>2. CASE line.header = 7  BY <1>2, HeaderCases, Zenon DEF LineBody
<1>3. CASE line.header = 6  BY <1>3, HeaderCases, Zenon DEF LineBody
<1>4. CASE line.header \in 1..5  BY <1>4, HeaderCases, Zenon DEF LineBody
<1>5. CASE line.header \in 9..14  BY <1>5, HeaderCases, Zenon DEF LineBody
<1> QED BY <1>1, <1>2, <1>3, <1>4, <1>5, Zenon

LEMMA DecodeCases ==
  ASSUME NEW h, NEW min, NEW body, NEW prev
  PROVE  LET vals == DecodeLine(h, min, body, prev)
         IN  /\ h = 15 => vals = body
             /\ h = 7 => vals = Spread(body, prev)
             /\ h = 6 => vals = CopyLeft(Spread(body, 0), prev, 0)
             /\ h = 0 => vals = [c \in Cells |-> min]
             /\ h \in 1..5 => vals = [c \in Cells |-> Plus(body[c], min)]
             /\ h = 8 => vals = CopyLeft([c \in Cells |-> 0], prev, min)
             /\ h \in 9..14 => vals = CopyLeft(body, prev, min)
PROOF
<1>1. CASE h = 15  BY <1>1, HeaderCases, Zenon DEF DecodeLine
<1>2. CASE h = 7  BY <1>2, HeaderCases, Zenon DEF DecodeLine
<1>3. CASE h = 6  BY <1>3, HeaderCases, Zenon DEF DecodeLine
<1>4. CASE h = 0  BY <1>4, HeaderCases, Zenon DEF DecodeLine
<1>5. CASE h \in 1..5  BY <1>5, HeaderCases, Zenon DEF DecodeLine
<1>6. CASE h = 8  BY <1>6, HeaderCases, Zenon DEF DecodeLine
<1>7. CASE h \in 9..14  BY <1>7, HeaderCases, Zenon DEF DecodeLine
<1> QED BY <1>1, <1>2, <1>3, <1>4, <1>5, <1>6, <1>7, Zenon

\* The decoder restores every row, whatever its coding, from its header, its
\* minimum, its body and the byte before it (decolde_line_flat undoes
\* write_line_for_type).
THEOREM LineRoundTrip ==
  ASSUME NEW vals \in RowValues, NEW prev \in Byte, NEW rle \in BOOLEAN
  PROVE  LET line == LinePlan(vals, prev, rle)
         IN  DecodeLine(line.header, line.min, LineBody(line, vals, prev), prev) = vals
PROOF
<1> DEFINE line == LinePlan(vals, prev, rle)
           body == LineBody(line, vals, prev)
           d == Deltas(vals, prev)
<1>1. LineCases(line, vals, prev)  BY PlannedCases
<1>2. d \in RowValues /\ 0 \in Byte  BY DeltasAreBytes, ByteZero
<1>3. Lowest(vals) \in Byte /\ Lowest(d) \in Byte  BY <1>2, Extremes
<1> HIDE DEF line
<1>4. CASE line.header = 15
  BY <1>4, BodyCases, DecodeCases DEF line
<1>5. CASE line.header = 7
  <2>1. DecodeLine(line.header, line.min, body, prev) = Spread([c \in Kept(vals, prev) |-> vals[c]], prev)
    BY <1>5, BodyCases, DecodeCases
  <2> QED BY <2>1, SpreadRestores DEF line
<1>6. CASE line.header = 6
  <2>1. body = [c \in Kept(d, 0) |-> d[c]]
    BY <1>6, BodyCases
  <2>2. DecodeLine(line.header, line.min, body, prev) = CopyLeft(Spread(body, 0), prev, 0)
    BY <1>6, DecodeCases
  <2>3. Spread(body, 0) = d  BY <1>2, <2>1, SpreadRestores
  <2>4. \A c \in Cells : Plus(d[c], 0) = d[c]  BY <1>2, ByteZero DEF RowValues
  <2>5. CopyLeft(d, prev, 0) = vals  BY <1>2, <2>4, CopyLeftRestores
  <2> QED BY <2>2, <2>3, <2>5 DEF line
<1>7. CASE line.header \in 0..5 /\ line.header = BitScan(Width(vals)) /\ line.min = Lowest(vals)
  <2>1. CASE line.header = 0
    <3>1. DecodeLine(line.header, line.min, body, prev) = [c \in Cells |-> line.min]
      BY <2>1, DecodeCases
    <3>2. \A c \in Cells : vals[c] = line.min  BY <1>7, <2>1, FlatRow
    <3>3. vals = [c \in Cells |-> vals[c]]  BY DEF RowValues
    <3> QED BY <3>1, <3>2, <3>3 DEF line
  <2>2. CASE line.header \in 1..5
    <3>1. line.header \in 1..6 /\ BitsOf(line.header) = line.header
      BY <2>2, SMT DEF BitsOf
    <3>2. body = [c \in Cells |-> Minus(vals[c], line.min) % Limit(BitsOf(line.header))]
      BY <2>2, BodyCases
    <3>3. body = [c \in Cells |-> Minus(vals[c], Lowest(vals))]
      BY <1>7, <3>1, <3>2, PackedKeeps
    <3>4. DecodeLine(line.header, line.min, body, prev) = [c \in Cells |-> Plus(body[c], line.min)]
      BY <2>2, DecodeCases
    <3>5. \A c \in Cells : Plus(body[c], line.min) = vals[c]
      BY <1>3, <1>7, <3>3, PlusMinus DEF RowValues
    <3>6. vals = [c \in Cells |-> vals[c]]  BY DEF RowValues
    <3> QED BY <3>4, <3>5, <3>6 DEF line
  <2> QED BY <1>7, <2>1, <2>2
<1>8. CASE line.header \in 8..14 /\ line.header - 8 = BitScan(Width(d)) /\ line.min = Lowest(d)
  <2>1. CASE line.header = 8
    <3> DEFINE z == [c \in Cells |-> 0]
    <3>1. DecodeLine(line.header, line.min, body, prev) = CopyLeft(z, prev, line.min)
      BY <2>1, DecodeCases
    <3>2. z \in RowValues /\ \A c \in Cells : z[c] = 0  BY <1>2 DEF RowValues
    <3>3. \A c \in Cells : d[c] = line.min  BY <1>2, <1>8, <2>1, FlatRow
    <3> HIDE DEF z, d
    <3>4. \A c \in Cells : Plus(z[c], line.min) = d[c]  BY <1>3, <1>8, <3>2, <3>3, ByteZero
    <3>5. CopyLeft(z, prev, line.min) = vals  BY <1>3, <1>8, <3>2, <3>4, CopyLeftRestores DEF d
    <3> QED BY <3>1, <3>5 DEF line, z
  <2>2. CASE line.header \in 9..14
    <3>1. line.header - 8 \in 1..6 /\ BitsOf(line.header) = line.header - 8
      BY <2>2, SMT DEF BitsOf
    <3>2. body = [c \in Cells |-> Minus(d[c], line.min) % Limit(BitsOf(line.header))]
      BY <2>2, BodyCases
    <3>3. body = [c \in Cells |-> Minus(d[c], Lowest(d))]
      BY <1>2, <1>8, <3>1, <3>2, PackedKeeps
    <3>4. DecodeLine(line.header, line.min, body, prev) = CopyLeft(body, prev, line.min)
      BY <2>2, DecodeCases
    <3>5. \A c \in Cells : d[c] \in Byte /\ body[c] \in Byte /\ Plus(body[c], line.min) = d[c]
      BY <1>2, <1>3, <1>8, <3>3, PlusMinus, MinusCases DEF RowValues
    <3>6. body \in RowValues  BY <3>3, <3>5 DEF RowValues
    <3> HIDE DEF body, d
    <3>7. CopyLeft(body, prev, line.min) = vals  BY <1>3, <1>8, <3>5, <3>6, CopyLeftRestores DEF d
    <3> QED BY <3>4, <3>7 DEF line, body
  <2> QED BY <1>8, <2>1, <2>2
<1> QED BY <1>1, <1>4, <1>5, <1>6, <1>7, <1>8 DEF LineCases

\* The size planned for a row is what the decoder finds it to be, with the byte
\* of its minimum.
THEOREM LineIsPlanned ==
  ASSUME NEW vals \in RowValues, NEW prev \in Byte, NEW rle \in BOOLEAN
  PROVE  LET line == LinePlan(vals, prev, rle)
         IN  line.size = LineSize(line.header, LineBody(line, vals, prev))
                         + IF HasNoMin(line.header) THEN 0 ELSE 1
PROOF
<1> DEFINE line == LinePlan(vals, prev, rle)
           body == LineBody(line, vals, prev)
           d == Deltas(vals, prev)
<1>1. LineCases(line, vals, prev)  BY PlannedCases
<1> HIDE DEF line
<1>2. CASE line.header = 15 /\ line.size = 16
  BY <1>2 DEF LineSize, HasNoMin, line
<1>3. CASE line.header = 7 /\ line.size = RunSize(Kept(vals, prev))
  <2>1. DOMAIN body = Kept(vals, prev)  BY <1>3, BodyCases
  <2>2. RunSize(Kept(vals, prev)) \in Int  BY CountBounds DEF RunSize, Kept
  <2> QED BY <1>3, <2>1, <2>2 DEF LineSize, HasNoMin, line
<1>4. CASE line.header = 6 /\ line.size = RunSize(Kept(d, 0))
  <2>1. DOMAIN body = Kept(d, 0)  BY <1>4, BodyCases
  <2>2. RunSize(Kept(d, 0)) \in Int  BY CountBounds DEF RunSize, Kept
  <2> QED BY <1>4, <2>1, <2>2 DEF LineSize, HasNoMin, line
<1>5. CASE line.header \in 0..5 /\ line.size = 2 * line.header + 1
  <2>1. BitsOf(line.header) = line.header  BY <1>5, SMT DEF BitsOf
  <2> QED BY <1>5, <2>1 DEF LineSize, HasNoMin, line
<1>6. CASE line.header \in 8..14 /\ line.size = 2 * (line.header - 8) + 1
  <2>1. BitsOf(line.header) = line.header - 8  BY <1>6, SMT DEF BitsOf
  <2> QED BY <1>6, <2>1 DEF LineSize, HasNoMin, line
<1> QED BY <1>1, <1>2, <1>3, <1>4, <1>5, <1>6 DEF LineCases

\* What the stores of a row need: sizes that are not negative, and an overrun of
\* at most 16 bytes, 8 without run lengths.
LEMMA LineBounds ==
  ASSUME NEW vals \in RowValues, NEW prev \in Byte, NEW rle \in BOOLEAN
  PROVE  LET line == LinePlan(vals, prev, rle)
             body == LineBody(line, vals, prev)
         IN  /\ line.size \in Nat /\ LineSize(line.header, body) \in Nat
             /\ Overrun(line.header, body) \in 0..16
             /\ ~rle => Overrun(line.header, body) \in 0..8
PROOF
<1> DEFINE line == LinePlan(vals, prev, rle)
           body == LineBody(line, vals, prev)
           d == Deltas(vals, prev)
<1>1. LineCases(line, vals, prev)  BY PlannedCases
<1>2. ~rle => line.header \notin {6, 7}
  <2> DEFINE p == PackedLine(vals, d, PlainBits(BitScan(Width(vals))), BitScan(Width(d)))
  <2>1. Width(vals) \in Byte /\ Width(d) \in Byte  BY WidthBounds, DeltasAreBytes
  <2>2. p.header = 15 \/ p.header \in 0..5 \/ p.header \in 8..14  BY <2>1, PackedCases
  <2>3. ~rle => line = p  BY DEF LinePlan
  <2> HIDE DEF p, line
  <2> QED BY <2>2, <2>3
<1> HIDE DEF line
<1>3. RunSize(Kept(vals, prev)) \in Nat /\ RunSize(Kept(d, 0)) \in Nat /\ RunSize(DOMAIN body) \in Nat
      /\ Count(DOMAIN body) \in 0..16
  BY CountBounds DEF RunSize
<1>4. line.header \in 0..15 /\ line.size \in Nat
  BY <1>1, <1>3 DEF LineCases
<1>5. BitsOf(line.header) \in 0..7  BY <1>4 DEF BitsOf
<1> HIDE DEF body
<1>6. LineSize(line.header, body) \in Nat  BY <1>3, <1>5 DEF LineSize
<1>7. /\ Overrun(line.header, body) \in 0..16
      /\ line.header \notin {6, 7} => Overrun(line.header, body) \in 0..8
  BY <1>3, <1>5 DEF Overrun
<1> QED BY <1>2, <1>4, <1>6, <1>7 DEF line, body

-----------------------------------------------------------------------------
(* One plane *)

LEMMA RowsOfPlane ==
  ASSUME NEW plane \in PlaneValues, NEW r \in Cells
  PROVE  RowOf(plane, r) \in RowValues /\ Before(plane, r) \in Byte
PROOF
<1>1. \A c \in Cells : 16 * r + c \in 0..255  BY DEF Cells
<1>2. r # 0 => 16 * r - 1 \in 0..255  BY DEF Cells
<1> QED BY <1>1, <1>2, ByteZero DEF RowOf, RowValues, PlaneValues, Before

\* The body of row r, as LinePlan codes it.
Body(lines, plane, r) == LineBody(lines[r], RowOf(plane, r), Before(plane, r))

\* The size of row r in the stream, and 1 for a minimum.
Taken(lines, plane, r) == LineSize(lines[r].header, Body(lines, plane, r))
MinByte(lines, r) == IF r \in WithMin(lines) THEN 1 ELSE 0

LEMMA RowsArePlanned ==
  ASSUME NEW plane \in PlaneValues, NEW rle \in BOOLEAN
  PROVE  LET lines == LinesOf(plane, rle)
         IN  /\ WithMin(lines) \subseteq Cells
             /\ \A r \in Cells :
                  /\ lines[r].size \in Nat /\ Taken(lines, plane, r) \in Nat
                  /\ lines[r].size = Taken(lines, plane, r) + MinByte(lines, r)
                  /\ Overrun(lines[r].header, Body(lines, plane, r)) \in 0..16
                  /\ ~rle => Overrun(lines[r].header, Body(lines, plane, r)) \in 0..8
PROOF
<1> DEFINE lines == LinesOf(plane, rle)
<1>1. ASSUME NEW r \in Cells
      PROVE  /\ lines[r].size \in Nat /\ Taken(lines, plane, r) \in Nat
             /\ lines[r].size = Taken(lines, plane, r) + MinByte(lines, r)
             /\ Overrun(lines[r].header, Body(lines, plane, r)) \in 0..16
             /\ ~rle => Overrun(lines[r].header, Body(lines, plane, r)) \in 0..8
  <2>1. lines[r] = LinePlan(RowOf(plane, r), Before(plane, r), rle)  BY DEF LinesOf
  <2>2. RowOf(plane, r) \in RowValues /\ Before(plane, r) \in Byte  BY RowsOfPlane
  <2> HIDE DEF lines
  <2>3. MinByte(lines, r) = IF HasNoMin(lines[r].header) THEN 0 ELSE 1
    BY DEF MinByte, WithMin
  <2>4. lines[r].size = Taken(lines, plane, r) + MinByte(lines, r)
    BY <2>1, <2>2, <2>3, LineIsPlanned DEF Taken, Body
  <2> QED BY <2>1, <2>2, <2>4, LineBounds DEF Taken, Body
<1>2. WithMin(lines) \subseteq Cells  BY DEF WithMin
<1> QED BY <1>1, <1>2

\* What a plan is.
LEMMA PlanFields ==
  ASSUME NEW plane \in PlaneValues, NEW rle \in BOOLEAN
  PROVE  LET plan  == PlanePlan(plane, rle)
             lines == LinesOf(plane, rle)
             sizes == PlaneSizes(lines)
         IN  /\ plan.lines = lines
             /\ plan.type \in {"same", "normal", "normal_rle"}
             /\ plan.type = "same" => plan.size = 1
             /\ plan.type = "normal" => plan.size = sizes.normal
             /\ plan.type = "normal_rle" => rle /\ plan.size = sizes.normal_rle
PROOF
<1> DEFINE lines == LinesOf(plane, rle)
           sizes == PlaneSizes(lines)
           plan  == PlanePlan(plane, rle)
<1>1. plan = PlaneOfLines(plane, lines, sizes, rle)  BY DEF PlanePlan
<1>2. sizes["normal"] = sizes.normal /\ sizes["normal_rle"] = sizes.normal_rle  OBVIOUS
<1> HIDE DEF lines, sizes, plan
<1>3. \/ plan = [type |-> "same", lines |-> lines, size |-> 1]
      \/ rle /\ plan = [type |-> "normal_rle", lines |-> lines, size |-> sizes["normal_rle"]]
      \/ plan = [type |-> "normal", lines |-> lines, size |-> sizes["normal"]]
  BY <1>1 DEF PlaneOfLines
<1>4. /\ plan.lines = lines
      /\ plan.type \in {"same", "normal", "normal_rle"}
      /\ plan.type = "same" => plan.size = 1
      /\ plan.type = "normal" => plan.size = sizes.normal
      /\ plan.type = "normal_rle" => rle /\ plan.size = sizes.normal_rle
  BY <1>2, <1>3
<1> QED BY <1>4 DEF lines, sizes, plan

\* The sums of PlaneSizes, of the sizes in the stream and of the minimums.
LEMMA SumsOfRows ==
  ASSUME NEW plane \in PlaneValues, NEW rle \in BOOLEAN
  PROVE  LET lines == LinesOf(plane, rle)
             taken == Total([r \in Cells |-> Taken(lines, plane, r)])
         IN  /\ taken \in Nat
             /\ PlaneSizes(lines).normal = 8 + Count(WithMin(lines)) + taken
             /\ PlaneSizes(lines).normal_rle = 8 + MinsRunSize(lines) + taken
PROOF
<1> DEFINE lines == LinesOf(plane, rle)
           f == [r \in Cells |-> lines[r].size]
           g == [r \in Cells |-> Taken(lines, plane, r)]
           h == [r \in Cells |-> MinByte(lines, r)]
<1>1. \A r \in Cells : f[r] \in Nat /\ g[r] \in Nat /\ f[r] = g[r] + h[r] /\ h[r] \in Nat
  BY RowsArePlanned DEF MinByte
<1>2. Count(WithMin(lines)) = Total(h)  BY DEF Count, MinByte
<1>3. /\ PlaneSizes(lines).normal = 8 + Total(f)
      /\ PlaneSizes(lines).normal_rle = (8 + Total(f)) - (Count(WithMin(lines)) - MinsRunSize(lines))
  BY DEF PlaneSizes
<1>4. MinsRunSize(lines) \in Nat  BY CountBounds DEF MinsRunSize, RunSize
<1> HIDE DEF lines, f, g, h
<1>5. Total(f) \in Int /\ Total(g) \in Int /\ Total(h) \in Int /\ Total(f) = Total(g) + Total(h)
  BY <1>1, TotalOfSums
<1>6. Total(g) \in Nat  BY <1>1, TotalOfSmaller
<1>7. PlaneSizes(lines).normal = 8 + Total(h) + Total(g)
  BY <1>3, <1>5
<1>8. PlaneSizes(lines).normal_rle = 8 + MinsRunSize(lines) + Total(g)
  BY <1>2, <1>3, <1>4, <1>5
<1> QED BY <1>2, <1>6, <1>7, <1>8 DEF lines, g

\* The headers, minimums and bodies of the first rows of a plane.
IsEncoded(enc, plan, lines, plane, rows, at) ==
  /\ enc.type = plan.type /\ enc.at = at /\ enc.rows = rows
  /\ \A r \in 0..(rows - 1) :
       r \in Cells /\ enc.headers[r] = lines[r].header /\ enc.bodies[r] = Body(lines, plane, r)
  /\ enc.type = "normal_rle" => DOMAIN enc.mins = {r \in Kept(MinsOf(lines), 0) : r < rows}
  /\ enc.type # "normal_rle" => DOMAIN enc.mins = {r \in WithMin(lines) : r < rows}

LEMMA EncodedRows ==
  ASSUME NEW plane \in PlaneValues, NEW rle \in BOOLEAN, NEW rows \in 0..16, NEW at \in Int
  PROVE  LET plan == PlanePlan(plane, rle)
         IN  IsEncoded(EncodedPlane(plan, plane, rows, at), plan, LinesOf(plane, rle), plane, rows, at)
PROOF
<1> DEFINE plan  == PlanePlan(plane, rle)
           lines == LinesOf(plane, rle)
           enc   == EncodedPlane(plan, plane, rows, at)
<1>1. plan.lines = lines  BY PlanFields
<1> HIDE DEF plan, lines
<1>2. enc.type = plan.type /\ enc.at = at /\ enc.rows = rows  BY DEF EncodedPlane
<1>3. \A r \in 0..(rows - 1) :
        r \in Cells /\ enc.headers[r] = lines[r].header /\ enc.bodies[r] = Body(lines, plane, r)
  BY <1>1 DEF EncodedPlane, Body, Cells
<1>4. DOMAIN enc.mins = {r \in DOMAIN PlaneMins(plan) : r < rows}  BY DEF EncodedPlane
<1>5. DOMAIN PlaneMins(plan) = IF plan.type = "normal_rle" THEN Kept(MinsOf(lines), 0)
                               ELSE WithMin(lines)
  BY <1>1 DEF PlaneMins
<1> HIDE DEF enc
<1>6. IsEncoded(enc, plan, lines, plane, rows, at)  BY <1>2, <1>3, <1>4, <1>5 DEF IsEncoded
<1> QED BY <1>6 DEF plan, lines, enc

\* The sizes of some of the rows.
TakenOf(plane, rle, rows, S) ==
  [r \in Cells |-> IF r < rows /\ r \in S THEN Taken(LinesOf(plane, rle), plane, r) ELSE 0]

LEMMA SizesOfRows ==
  ASSUME NEW plane \in PlaneValues, NEW rle \in BOOLEAN, NEW rows \in 0..16, NEW at \in Int,
         NEW S
  PROVE  RowSizes(EncodedPlane(PlanePlan(plane, rle), plane, rows, at), S)
           = Total(TakenOf(plane, rle, rows, S))
PROOF
<1> DEFINE lines == LinesOf(plane, rle)
           enc   == EncodedPlane(PlanePlan(plane, rle), plane, rows, at)
<1> DEFINE plan == PlanePlan(plane, rle)
<1>0. IsEncoded(enc, plan, lines, plane, rows, at)  BY EncodedRows
<1> HIDE DEF enc, plan, lines
<1>1. enc.rows = rows  BY <1>0 DEF IsEncoded
<1>2. \A r \in 0..(rows - 1) :
        enc.headers[r] = lines[r].header /\ enc.bodies[r] = Body(lines, plane, r)
  BY <1>0 DEF IsEncoded
<1>3. ASSUME NEW r \in Cells, r < rows
      PROVE  LineSize(enc.headers[r], enc.bodies[r]) = Taken(lines, plane, r)
  <2>1. r \in 0..(rows - 1)  BY <1>3 DEF Cells
  <2> QED BY <1>2, <2>1 DEF Taken
<1> HIDE DEF lines
<1>4. [r \in Cells |-> IF r < enc.rows /\ r \in S
                       THEN LineSize(enc.headers[r], enc.bodies[r]) ELSE 0]
       = [r \in Cells |-> IF r < rows /\ r \in S THEN Taken(lines, plane, r) ELSE 0]
  BY <1>1, <1>3
<1> QED BY <1>4 DEF RowSizes, TakenOf, lines, enc

\* The headers and the minimums of a plane that is whole, and of its first rows.
LEMMA HeadBounds ==
  ASSUME NEW plane \in PlaneValues, NEW rle \in BOOLEAN, NEW rows \in 0..16, NEW at \in Int
  PROVE  LET lines == LinesOf(plane, rle)
             enc   == EncodedPlane(PlanePlan(plane, rle), plane, rows, at)
             firsts == {r \in WithMin(lines) : r < rows}
         IN  /\ enc.type # "normal_rle" => HeadSize(enc) = (rows + 1) \div 2 + Count(firsts)
             /\ rows = 16 /\ enc.type = "normal_rle" => HeadSize(enc) = 8 + MinsRunSize(lines)
             /\ HeadSize(enc) \in Nat
PROOF
<1> DEFINE lines == LinesOf(plane, rle)
           enc   == EncodedPlane(PlanePlan(plane, rle), plane, rows, at)
           firsts == {r \in WithMin(lines) : r < rows}
<1>1. /\ enc.rows = rows
      /\ enc.type = "normal_rle" => DOMAIN enc.mins = {r \in Kept(MinsOf(lines), 0) : r < rows}
      /\ enc.type # "normal_rle" => DOMAIN enc.mins = firsts
  <2> DEFINE plan == PlanePlan(plane, rle)
  <2>1. IsEncoded(enc, plan, lines, plane, rows, at)  BY EncodedRows
  <2> HIDE DEF enc, plan, lines
  <2> QED BY <2>1 DEF IsEncoded
<1>2. rows = 16 => {r \in Kept(MinsOf(lines), 0) : r < rows} = Kept(MinsOf(lines), 0)
  BY DEF Kept, Cells
<1>3. Count(DOMAIN enc.mins) \in 0..16  BY CountBounds
<1>4. (rows + 1) \div 2 \in Nat  OBVIOUS
<1> HIDE DEF lines, enc, firsts
<1>5. HeadSize(enc) \in Nat  BY <1>1, <1>3, <1>4 DEF HeadSize, RunSize
<1>6. enc.type # "normal_rle" => HeadSize(enc) = (rows + 1) \div 2 + Count(firsts)
  BY <1>1 DEF HeadSize
<1>7. rows = 16 /\ enc.type = "normal_rle" => HeadSize(enc) = 8 + MinsRunSize(lines)
  BY <1>1, <1>2 DEF HeadSize, MinsRunSize
<1> QED BY <1>5, <1>6, <1>7 DEF lines, enc, firsts

\* The sizes of some of the rows are at most those of all.
LEMMA FewerRows ==
  ASSUME NEW plane \in PlaneValues, NEW rle \in BOOLEAN, NEW rows \in 0..16, NEW at \in Int,
         NEW S
  PROVE  LET enc == EncodedPlane(PlanePlan(plane, rle), plane, rows, at)
         IN  /\ RowSizes(enc, S) \in Nat /\ RowSizes(enc, Cells) \in Nat
             /\ RowSizes(enc, S) <= RowSizes(enc, Cells)
PROOF
<1> DEFINE enc == EncodedPlane(PlanePlan(plane, rle), plane, rows, at)
           f == TakenOf(plane, rle, rows, S)
           g == TakenOf(plane, rle, rows, Cells)
<1>1. RowSizes(enc, S) = Total(f)  BY SizesOfRows
<1>2. RowSizes(enc, Cells) = Total(g)  BY SizesOfRows
<1>3. \A r \in Cells : Taken(LinesOf(plane, rle), plane, r) \in Nat  BY RowsArePlanned
<1>4. \A r \in Cells : f[r] \in Nat /\ g[r] \in Nat /\ f[r] <= g[r]  BY <1>3 DEF TakenOf
<1> HIDE DEF f, g, enc
<1>5. Total(f) \in Nat /\ Total(g) \in Nat /\ Total(f) <= Total(g)  BY <1>4, TotalOfSmaller
<1> QED BY <1>1, <1>2, <1>5 DEF enc

\* The size that is planned for a plane is the size that is written
\* (compute_block_generic and encode_lines), and its stores end at most 16 bytes
\* further.
THEOREM PlaneIsPlanned ==
  ASSUME NEW plane \in PlaneValues, NEW rle \in BOOLEAN, NEW at \in Int
  PROVE  LET plan == PlanePlan(plane, rle)
             enc  == EncodedPlane(plan, plane, 16, at)
         IN  /\ plan.size \in Nat
             /\ PlaneSize(enc) = plan.size
             /\ \A e \in PlaneStores(enc) : e \in Int /\ e <= at + plan.size + 16
PROOF
<1> DEFINE plan  == PlanePlan(plane, rle)
           lines == LinesOf(plane, rle)
           enc   == EncodedPlane(plan, plane, 16, at)
           sizes == PlaneSizes(lines)
           taken == Total([r \in Cells |-> Taken(lines, plane, r)])
<1>1. /\ enc.type = plan.type /\ enc.at = at /\ enc.rows = 16
      /\ \A r \in 0..15 : r \in Cells /\ enc.headers[r] = lines[r].header
                         /\ enc.bodies[r] = Body(lines, plane, r)
  <2>1. 16 \in 0..16 /\ 16 - 1 = 15  OBVIOUS
  <2>2. IsEncoded(enc, plan, lines, plane, 16, at)  BY <2>1, EncodedRows
  <2> HIDE DEF enc, plan, lines
  <2> QED BY <2>1, <2>2 DEF IsEncoded
<1>2. /\ plan.type \in {"same", "normal", "normal_rle"}
      /\ plan.type = "same" => plan.size = 1
      /\ plan.type = "normal" => plan.size = sizes.normal
      /\ plan.type = "normal_rle" => plan.size = sizes.normal_rle
  BY PlanFields
<1>3. RowSizes(enc, Cells) = taken
  <2>1. TakenOf(plane, rle, 16, Cells) = [r \in Cells |-> Taken(lines, plane, r)]
    BY DEF TakenOf, Cells
  <2>2. RowSizes(enc, Cells) = Total(TakenOf(plane, rle, 16, Cells))  BY SizesOfRows
  <2> QED BY <2>1, <2>2
<1>4. /\ taken \in Nat
      /\ sizes.normal = 8 + Count(WithMin(lines)) + taken
      /\ sizes.normal_rle = 8 + MinsRunSize(lines) + taken
  BY SumsOfRows
<1>5. {r \in WithMin(lines) : r < 16} = WithMin(lines)  BY DEF WithMin, Cells
<1>6. /\ enc.type # "normal_rle" => HeadSize(enc) = (16 + 1) \div 2 + Count(WithMin(lines))
      /\ enc.type = "normal_rle" => HeadSize(enc) = 8 + MinsRunSize(lines)
      /\ HeadSize(enc) \in Nat
  BY <1>5, HeadBounds
<1>7. Count(WithMin(lines)) \in 0..16 /\ MinsRunSize(lines) - 2 \in 0..16
  BY CountBounds DEF MinsRunSize, RunSize
<1>8. \A r \in 0..15 : /\ RowSizes(enc, 0..r) \in Nat
                       /\ RowSizes(enc, 0..r) <= RowSizes(enc, Cells)
  BY FewerRows
<1>9. \A r \in 0..15 : Overrun(enc.headers[r], enc.bodies[r]) \in 0..16
  BY <1>1, RowsArePlanned
<1> HIDE DEF plan, lines, enc, sizes, taken
<1>10. plan.size \in Nat /\ PlaneSize(enc) = plan.size
  <2>1. CASE plan.type = "same"  BY <1>1, <1>2, <2>1 DEF PlaneSize
  <2>2. CASE plan.type = "normal"
    <3>1. PlaneSize(enc) = (16 + 1) \div 2 + Count(WithMin(lines)) + taken
      BY <1>1, <1>3, <1>6, <2>2 DEF PlaneSize
    <3> QED BY <1>2, <1>4, <1>7, <2>2, <3>1
  <2>3. CASE plan.type = "normal_rle"
    <3>1. PlaneSize(enc) = 8 + MinsRunSize(lines) + taken
      BY <1>1, <1>3, <1>6, <2>3 DEF PlaneSize
    <3>2. MinsRunSize(lines) \in Nat  BY CountBounds DEF MinsRunSize, RunSize
    <3> QED BY <1>2, <1>4, <2>3, <3>1, <3>2
  <2> QED BY <1>2, <2>1, <2>2, <2>3
<1>11. ASSUME NEW e \in PlaneStores(enc)
       PROVE  e \in Int /\ e <= at + plan.size + 16
  <2>1. CASE plan.type = "same"
    <3>1. e = at + plan.size  BY <1>1, <1>10, <2>1 DEF PlaneStores
    <3> QED BY <1>10, <3>1
  <2>2. CASE plan.type # "same"
    <3>1. PlaneSize(enc) = HeadSize(enc) + RowSizes(enc, Cells)
      BY <1>1, <1>2, <2>2 DEF PlaneSize
    <3>2. RowSizes(enc, Cells) \in Nat  BY <1>3, <1>4
    <3>3. plan.size = HeadSize(enc) + RowSizes(enc, Cells)  BY <1>10, <3>1
    <3>4. CASE \E r \in 0..15 : e = at + HeadSize(enc) + RowSizes(enc, 0..r)
                                   + Overrun(enc.headers[r], enc.bodies[r])
      <4>1. PICK r \in 0..15 : e = at + HeadSize(enc) + RowSizes(enc, 0..r)
                                   + Overrun(enc.headers[r], enc.bodies[r])
        BY <3>4
      <4> DEFINE head == HeadSize(enc)
                 part == RowSizes(enc, 0..r)
                 all  == RowSizes(enc, Cells)
                 over == Overrun(enc.headers[r], enc.bodies[r])
      <4>2. head \in Nat /\ part \in Nat /\ all \in Nat /\ part <= all /\ over \in 0..16
        BY <1>6, <1>8, <1>9, <3>2
      <4>3. e = at + head + part + over /\ plan.size = head + all  BY <3>3, <4>1
      <4> HIDE DEF head, part, all, over
      <4> QED BY <4>2, <4>3
    <3>5. CASE enc.type = "normal_rle" /\ e = at + 26
      <4>1. HeadSize(enc) \in Nat /\ HeadSize(enc) >= 10  BY <1>6, <1>7, <3>5
      <4> QED BY <3>2, <3>3, <3>5, <4>1
    <3>6. CASE e = at + HeadSize(enc)  BY <1>6, <3>2, <3>3, <3>6
    <3> QED BY <1>1, <1>2, <2>2, <3>4, <3>5, <3>6 DEF PlaneStores
  <2> QED BY <2>1, <2>2
<1> QED BY <1>10, <1>11 DEF plan, enc

\* The same of the first rows of a plane, which a partial block writes without run
\* lengths: 8 bytes after the size that block_compress_partial expects are enough.
THEOREM FirstRowsArePlanned ==
  ASSUME NEW plane \in PlaneValues, NEW rows \in 0..16, NEW at \in Int
  PROVE  LET plan   == PlanePlan(plane, FALSE)
             enc    == EncodedPlane(plan, plane, rows, at)
             needed == IF plan.type = "same" THEN 1
                       ELSE 8 + Total([r \in Cells |-> IF r < rows THEN plan.lines[r].size ELSE 0]) + 8
         IN  /\ needed \in Nat /\ PlaneSize(enc) \in Nat /\ PlaneSize(enc) <= needed
             /\ \A e \in PlaneStores(enc) : e \in Int /\ e <= at + needed
PROOF
<1> DEFINE plan  == PlanePlan(plane, FALSE)
           lines == LinesOf(plane, FALSE)
           enc   == EncodedPlane(plan, plane, rows, at)
           firsts == {r \in WithMin(lines) : r < rows}
           f == [r \in Cells |-> IF r < rows THEN lines[r].size ELSE 0]
           g == TakenOf(plane, FALSE, rows, Cells)
           h == [r \in Cells |-> IF r \in firsts THEN 1 ELSE 0]
<1>1. /\ enc.type = plan.type /\ enc.at = at /\ enc.rows = rows
      /\ \A r \in 0..(rows - 1) : r \in Cells /\ enc.headers[r] = lines[r].header
                                /\ enc.bodies[r] = Body(lines, plane, r)
      /\ RowSizes(enc, Cells) = Total(g)
  <2>1. FALSE \in BOOLEAN  OBVIOUS
  <2>2. /\ enc.type = plan.type /\ enc.at = at /\ enc.rows = rows
        /\ \A r \in 0..(rows - 1) : r \in Cells /\ enc.headers[r] = lines[r].header
                                  /\ enc.bodies[r] = Body(lines, plane, r)
    <3>1. IsEncoded(enc, plan, lines, plane, rows, at)  BY <2>1, EncodedRows
    <3> HIDE DEF enc, plan, lines
    <3> QED BY <3>1 DEF IsEncoded
  <2>3. RowSizes(enc, Cells) = Total(g)  BY <2>1, SizesOfRows
  <2> QED BY <2>2, <2>3
<1>2. plan.type \in {"same", "normal"} /\ plan.lines = lines  BY PlanFields
<1>3. HeadSize(enc) = (rows + 1) \div 2 + Count(firsts) /\ HeadSize(enc) \in Nat
  BY <1>1, <1>2, HeadBounds
<1>4. Count(firsts) = Total(h)  BY DEF Count
<1>5. \A r \in Cells : /\ f[r] \in Nat /\ g[r] \in Nat /\ h[r] \in Nat /\ f[r] = g[r] + h[r]
  <2>1. \A r \in Cells : /\ lines[r].size \in Nat /\ Taken(lines, plane, r) \in Nat
                        /\ lines[r].size = Taken(lines, plane, r) + MinByte(lines, r)
    BY RowsArePlanned
  <2>2. \A r \in Cells : r < rows => h[r] = MinByte(lines, r)  BY DEF MinByte
  <2>3. \A r \in Cells : ~(r < rows) => h[r] = 0  OBVIOUS
  <2>4. \A r \in Cells : h[r] \in Nat  OBVIOUS
  <2>5. \A r \in Cells : r < rows => f[r] = lines[r].size /\ g[r] = Taken(lines, plane, r)
    BY DEF TakenOf
  <2>6. \A r \in Cells : ~(r < rows) => f[r] = 0 /\ g[r] = 0  BY DEF TakenOf
  <2> HIDE DEF f, g, h, lines
  <2> QED BY <2>1, <2>2, <2>3, <2>4, <2>5, <2>6
<1>6. \A r \in 0..(rows - 1) : Overrun(enc.headers[r], enc.bodies[r]) \in 0..8
  BY <1>1, RowsArePlanned
<1>7. \A r \in 0..(rows - 1) : /\ RowSizes(enc, 0..r) \in Nat
                               /\ RowSizes(enc, 0..r) <= RowSizes(enc, Cells)
  BY FewerRows
<1>8. (rows + 1) \div 2 \in 0..8  OBVIOUS
<1> DEFINE needed == IF plan.type = "same" THEN 1 ELSE 8 + Total(f) + 8
<1>9. needed = IF plan.type = "same" THEN 1
               ELSE 8 + Total([r \in Cells |-> IF r < rows THEN plan.lines[r].size ELSE 0]) + 8
  BY <1>2
<1> HIDE DEF plan, lines, enc, firsts, f, g, h
<1>10. /\ Total(f) \in Int /\ Total(g) \in Int /\ Total(h) \in Int
       /\ Total(f) = Total(g) + Total(h)
  BY <1>5, TotalOfSums
<1>11. Total(f) \in Nat /\ Total(g) \in Nat  BY <1>5, TotalOfSmaller
<1>12. HeadSize(enc) + RowSizes(enc, Cells) <= 8 + Total(f) /\ RowSizes(enc, Cells) \in Nat
  BY <1>1, <1>3, <1>4, <1>8, <1>10, <1>11
<1>13. needed \in Nat /\ PlaneSize(enc) \in Nat /\ PlaneSize(enc) <= needed
  BY <1>1, <1>2, <1>3, <1>11, <1>12 DEF PlaneSize
<1>14. ASSUME NEW e \in PlaneStores(enc)
       PROVE  e \in Int /\ e <= at + needed
  <2>1. CASE plan.type = "same"
    <3>1. e = at + PlaneSize(enc)  BY <1>1, <2>1 DEF PlaneStores
    <3> QED BY <1>13, <3>1
  <2>2. CASE plan.type = "normal"
    <3>1. needed = 8 + Total(f) + 8  BY <2>2
    <3>2. CASE \E r \in 0..(rows - 1) : e = at + HeadSize(enc) + RowSizes(enc, 0..r)
                                           + Overrun(enc.headers[r], enc.bodies[r])
      <4>1. PICK r \in 0..(rows - 1) : e = at + HeadSize(enc) + RowSizes(enc, 0..r)
                                           + Overrun(enc.headers[r], enc.bodies[r])
        BY <3>2
      <4> DEFINE head == HeadSize(enc)
                 part == RowSizes(enc, 0..r)
                 all  == RowSizes(enc, Cells)
                 over == Overrun(enc.headers[r], enc.bodies[r])
                 sum  == Total(f)
      <4>2. head \in Nat /\ part \in Nat /\ all \in Nat /\ part <= all /\ over \in 0..8 /\ sum \in Nat
        BY <1>3, <1>6, <1>7, <1>11, <1>12
      <4>3. e = at + head + part + over /\ head + all <= 8 + sum /\ needed = 8 + sum + 8
        BY <1>12, <3>1, <4>1
      <4> HIDE DEF head, part, all, over, sum, needed
      <4> QED BY <4>2, <4>3
    <3>3. CASE e = at + HeadSize(enc)  BY <1>3, <1>11, <1>12, <3>1, <3>3
    <3> QED BY <1>1, <2>2, <3>2, <3>3 DEF PlaneStores
  <2> QED BY <1>2, <2>1, <2>2
<1> HIDE DEF needed
<1> QED BY <1>9, <1>13, <1>14 DEF plan, enc

-----------------------------------------------------------------------------
(* The invariant *)

\* The size planned for the first k planes.
Upto(k) == IF k = 0 THEN 0 ELSE plans[k].upto

\* A plane is left raw, or has the plan of PlanePlan.
IsPlanOf(plan, plane) ==
  \/ plan.type = "raw" /\ plan.size = 256
  \/ \E rle \in BOOLEAN : plan = PlanePlan(plane, rle)

\* The plans of the planes that were looked at, and their sums.
PlansAgree ==
  /\ \E S : plans \in Seq(S)
  /\ \A k \in 1..Len(plans) : /\ IsPlanOf(plans[k].plan, PlaneOf(n, k - 1))
                              /\ plans[k].upto = Upto(k - 1) + plans[k].plan.size
  /\ \A k \in 0..Len(plans) : Upto(k) \in Nat /\ Upto(k) <= FullSize

TypeOK ==
  /\ job \in Jobs
  /\ n \in Nat /\ i \in Nat /\ anchor \in Int /\ dst \in Int
  /\ \A e \in stores : e \in Int

WhilePlanning ==
  /\ pc \in {"plan", "lz", "fit"} =>
       PlansAgree /\ dst = anchor + HeaderLen /\ i <= bytesoftype /\ Len(plans) = i
  /\ pc \in {"lz", "fit"} => i = bytesoftype
  /\ pc = "lz" => /\ bytesoftype % 4 = 0
                  /\ job.room > dst + FullSize + bytesoftype * 8 + 2
                  /\ lz.size \in Nat /\ lz.size <= FullSize

WhileEncoding ==
  pc = "planes" =>
    /\ PlansAgree /\ Len(plans) = bytesoftype /\ i <= bytesoftype
    /\ dst = anchor + HeaderLen + Upto(i)
    /\ anchor + HeaderLen + FullSize <= job.room

InPartial ==
  /\ pc = "lines" => i <= bytesoftype /\ (i > 0 => dst <= job.room)
  /\ pc = "rest" => dst <= job.room

IInv == TypeOK /\ StoresStayInside /\ WhilePlanning /\ WhileEncoding /\ InPartial

-----------------------------------------------------------------------------
(* The quantities of a call *)

LEMMA Products ==
  ASSUME NEW a \in Nat, NEW b \in Nat
  PROVE  a * b \in Nat
  OBVIOUS

\* Less than 256 elements have at most 16 whole rows.
LEMMA WholeRows ==
  ASSUME NEW r \in Nat, NEW w \in Nat, w > 0, r < 256 * w
  PROVE  r \div (16 * w) \in 0..16
PROOF
<1>1. r \div (16 * w) \in Nat  OBVIOUS
<1>2. r \div (16 * w) <= 16  OBVIOUS
<1> QED BY <1>1, <1>2

LEMMA JobFacts ==
  ASSUME job \in Jobs
  PROVE  /\ bytesoftype \in Nat /\ bytesoftype > 0 /\ HeaderLen \in Nat /\ BlockSize \in Nat /\ BlockSize > 0
         /\ job.room \in Nat /\ job.bytes \in Nat /\ job.bytes > 0
         /\ job.source \in [0..(job.bytes - 1) -> Byte]
         /\ Remaining \in Nat /\ Lines \in 0..16 /\ LineBytes \in Int
PROOF
<1>1. bytesoftype \in Nat /\ bytesoftype > 0  BY JobsAssumption DEF bytesoftype
<1>2. job.bytes \in Nat \ {0} /\ job.room \in Nat  BY JobsAssumption
<1>3. job.source \in [0..(job.bytes - 1) -> Byte]  BY JobsAssumption
<1>4. BlockSize \in Nat /\ BlockSize > 0 /\ BlockSize = 256 * bytesoftype
  BY <1>1 DEF BlockSize
<1>5. HeaderLen \in Nat  BY <1>1 DEF HeaderLen
<1>6. Remaining \in Nat /\ Remaining < BlockSize
  <2>1. \A b \in Nat : b > 0 => job.bytes % b \in Nat /\ job.bytes % b < b  BY <1>2
  <2> QED BY <1>4, <2>1 DEF Remaining
<1>7. Lines \in 0..16
  <2>1. Remaining \in Nat /\ Remaining < 256 * bytesoftype  BY <1>4, <1>6
  <2>2. bytesoftype \in Nat /\ bytesoftype > 0  BY <1>1
  <2> QED BY <2>1, <2>2, WholeRows DEF Lines
<1>8. LineBytes \in Int
  <2>1. 16 * bytesoftype \in Nat /\ Lines \in Nat  BY <1>1, <1>7
  <2> QED BY <2>1, Products DEF LineBytes
<1> QED BY <1>1, <1>2, <1>3, <1>4, <1>5, <1>6, <1>7, <1>8

\* Every plane of a block is a plane.
LEMMA PlanesOfBlocks ==
  ASSUME job \in Jobs, NEW b \in Nat, NEW p \in Nat
  PROVE  PlaneOf(b, p) \in PlaneValues
PROOF
<1>1. bytesoftype \in Nat /\ job.bytes \in Nat /\ job.bytes > 0  BY JobFacts
<1>2. job.source \in [0..(job.bytes - 1) -> Byte]  BY JobFacts
<1>3. ASSUME NEW k \in 0..255
      PROVE  job.source[IF Offset(b, p, k) < job.bytes THEN Offset(b, p, k) ELSE job.bytes - 1] \in Byte
  <2> DEFINE o == IF Offset(b, p, k) < job.bytes THEN Offset(b, p, k) ELSE job.bytes - 1
  <2>1. b * 256 + k \in Nat  OBVIOUS
  <2>2. (b * 256 + k) * bytesoftype \in Nat  BY <1>1, <2>1, Products
  <2>3. Offset(b, p, k) \in Nat  BY <2>2 DEF Offset
  <2>4. o \in 0..(job.bytes - 1)  BY <1>1, <2>3
  <2> HIDE DEF o
  <2>5. job.source[o] \in Byte  BY <1>2, <2>4
  <2> QED BY <2>5 DEF o
<1> QED BY <1>3 DEF PlaneOf, PlaneValues

LEMMA PlanSizes ==
  ASSUME NEW plan, NEW plane \in PlaneValues, IsPlanOf(plan, plane)
  PROVE  plan.size \in Nat
PROOF
<1>1. CASE plan.type = "raw" /\ plan.size = 256  BY <1>1
<1>2. CASE \E rle \in BOOLEAN : plan = PlanePlan(plane, rle)
  <2>1. PICK rle \in BOOLEAN : plan = PlanePlan(plane, rle)  BY <1>2
  <2>2. 0 \in Int  OBVIOUS
  <2> QED BY <2>1, <2>2, PlaneIsPlanned
<1> QED BY <1>1, <1>2 DEF IsPlanOf

\* A group of lz_compress is at most one byte longer than its elements.
LEMMA GroupSizes ==
  ASSUME NEW group, NEW width \in Nat, width >= 2
  PROVE  GroupSize(group, width) \in Nat /\ GroupSize(group, width) <= 1 + 8 * width
PROOF
<1>1. \A j \in Places : PlaceSize(group, j, width) \in 0..width
  BY DEF PlaceSize, DiffSize
<1>2. 0..7 = Places  BY DEF Places
<1> DEFINE P(j) == PlaceSize(group, j, width)
<1>3. /\ P(0) \in 0..width /\ P(1) \in 0..width /\ P(2) \in 0..width /\ P(3) \in 0..width
      /\ P(4) \in 0..width /\ P(5) \in 0..width /\ P(6) \in 0..width /\ P(7) \in 0..width
  BY <1>1, <1>2
<1>4. GroupSize(group, width) = 1 + P(0) + P(1) + P(2) + P(3) + P(4) + P(5) + P(6) + P(7)
  BY DEF GroupSize
<1> HIDE DEF P
<1> QED BY <1>3, <1>4

LEMMA PlansOfPlanes ==
  ASSUME NEW plane
  PROVE  IsPlanOf(PlanFor(plane), plane)
PROOF
<1> DEFINE rle == level > 0
           plan == PlanePlan(plane, rle)
<1>1. PlanFor(plane) = [plan EXCEPT !.type = "raw", !.size = 256] \/ PlanFor(plane) = plan
  BY DEF PlanFor
<1>2. \E t, l, z : plan = [type |-> t, lines |-> l, size |-> z]
  BY DEF PlanePlan, PlaneOfLines
<1>3. rle \in BOOLEAN  OBVIOUS
<1> HIDE DEF plan, rle
<1>4. CASE PlanFor(plane) = [plan EXCEPT !.type = "raw", !.size = 256]
  BY <1>2, <1>4 DEF IsPlanOf
<1>5. CASE PlanFor(plane) = plan
  BY <1>3, <1>5 DEF IsPlanOf, plan
<1> QED BY <1>1, <1>4, <1>5

LEMMA LastSum ==
  ASSUME PlansAgree
  PROVE  Len(plans) \in Nat /\ FullSize = Upto(Len(plans)) /\ FullSize \in Nat
PROOF
<1>1. PICK S : plans \in Seq(S)  BY DEF PlansAgree
<1>2. Len(plans) \in Nat /\ (plans = <<>> <=> Len(plans) = 0)  BY <1>1
<1>3. FullSize = Upto(Len(plans))  BY <1>2 DEF FullSize, Upto
<1> QED BY <1>2, <1>3 DEF PlansAgree

\* The steps that neither plan nor write leave the sums as they are.
LEMMA PlansStay ==
  ASSUME PlansAgree, plans' = plans, job' = job, n' = n
  PROVE  PlansAgree' /\ FullSize' = FullSize
PROOF
<1>1. \A k : Upto(k)' = Upto(k)  BY DEF Upto
<1>2. FullSize' = FullSize  BY DEF FullSize
<1>3. \A p : PlaneOf(n, p)' = PlaneOf(n, p)  BY DEF PlaneOf, Offset, bytesoftype
<1> QED BY <1>1, <1>2, <1>3 DEF PlansAgree

LEMMA CallStays ==
  ASSUME job' = job
  PROVE  /\ bytesoftype' = bytesoftype /\ HeaderLen' = HeaderLen /\ BlockSize' = BlockSize
         /\ Remaining' = Remaining /\ Lines' = Lines /\ LineBytes' = LineBytes
  BY DEF bytesoftype, HeaderLen, BlockSize, Remaining, Lines, LineBytes

-----------------------------------------------------------------------------
(* The steps *)

LEMMA InitIsGood ==
  ASSUME Init
  PROVE  IInv
  BY DEF Init, IInv, TypeOK, StoresStayInside, WhilePlanning, WhileEncoding, InPartial

\* The steps after which nothing is planned or written: only the stores matter.
Idle == {"block", "marker", "overflow", "done", "refused", "garbage", "read", "unlz", "plane",
         "row", "unrest", "restored"}

LEMMA IdleIsGood ==
  ASSUME TypeOK', StoresStayInside', pc' \in Idle
  PROVE  IInv'
  BY DEF IInv, WhilePlanning, WhileEncoding, InPartial, Idle

LEMMA CopyBlockIsGood ==
  ASSUME IInv, CopyBlock
  PROVE  IInv'
PROOF
<1>1. job \in Jobs /\ BlockSize \in Nat /\ job.room \in Nat /\ dst \in Int
  BY JobFacts DEF IInv, TypeOK
<1>2. pc' \in Idle  BY DEF CopyBlock, Overflow, Idle
<1>3. \/ dst' = dst /\ stores' = stores
      \/ dst' = dst + BlockSize + 1 /\ stores' = {dst'} /\ ~(job.room - dst < BlockSize + 1)
  BY DEF CopyBlock
<1>4. job' = job /\ n' = n /\ i' = i /\ anchor' = anchor  BY DEF CopyBlock
<1>5. dst' \in Int /\ StoresStayInside' /\ \A e \in stores' : e \in Int
  BY <1>1, <1>3, <1>4 DEF IInv, TypeOK, StoresStayInside
<1>6. TypeOK'  BY <1>4, <1>5 DEF IInv, TypeOK
<1> QED BY <1>2, <1>5, <1>6, IdleIsGood

LEMMA StartBlockIsGood ==
  ASSUME IInv, StartBlock
  PROVE  IInv'
PROOF
<1>1. job \in Jobs /\ HeaderLen \in Nat /\ bytesoftype \in Nat /\ dst \in Int
  BY JobFacts DEF IInv, TypeOK
<1>2. /\ job' = job /\ n' = n /\ stores' = stores
      /\ anchor' = dst /\ dst' = dst + HeaderLen /\ i' = 0 /\ plans' = <<>> /\ pc' = "plan"
  BY DEF StartBlock
<1>3. HeaderLen' = HeaderLen /\ bytesoftype' = bytesoftype  BY <1>2, CallStays
<1>4. TypeOK' /\ StoresStayInside'  BY <1>1, <1>2 DEF IInv, TypeOK, StoresStayInside
<1>5. Len(plans)' = 0 /\ FullSize' = 0 /\ Upto(0)' = 0  BY <1>2 DEF FullSize, Upto
<1>6. PlansAgree'  BY <1>2, <1>5 DEF PlansAgree
<1>7. WhilePlanning'  BY <1>1, <1>2, <1>3, <1>5, <1>6 DEF WhilePlanning
<1> QED BY <1>2, <1>4, <1>7 DEF IInv, WhileEncoding, InPartial

LEMMA PlanPlaneIsGood ==
  ASSUME IInv, PlanPlane
  PROVE  IInv'
PROOF
<1> DEFINE plan == PlanFor(PlaneOf(n, i))
<1>1. /\ job \in Jobs /\ n \in Nat /\ i \in Nat /\ bytesoftype \in Nat /\ HeaderLen \in Nat
      /\ anchor \in Int /\ dst \in Int
  BY JobFacts DEF IInv, TypeOK
<1>2. /\ PlansAgree /\ dst = anchor + HeaderLen /\ i < bytesoftype /\ Len(plans) = i
      /\ pc = "plan"
  BY <1>1 DEF IInv, WhilePlanning, PlanPlane
<1>3. /\ job' = job /\ n' = n /\ stores' = stores /\ pc' = pc
      /\ anchor' = anchor /\ dst' = dst /\ i' = i + 1
      /\ plans' = Append(plans, [plan |-> plan, upto |-> FullSize + plan.size])
  BY DEF PlanPlane
<1>4. HeaderLen' = HeaderLen /\ bytesoftype' = bytesoftype  BY <1>3, CallStays
<1>5. TypeOK' /\ StoresStayInside'  BY <1>1, <1>3 DEF IInv, TypeOK, StoresStayInside
<1>6. \A p : PlaneOf(n, p)' = PlaneOf(n, p)  BY <1>3 DEF PlaneOf, Offset, bytesoftype
<1>7. IsPlanOf(plan, PlaneOf(n, i)) /\ plan.size \in Nat
  BY <1>1, PlansOfPlanes, PlanSizes, PlanesOfBlocks
<1>8. PICK m \in Nat : m = Len(plans) /\ m = i /\ FullSize = Upto(m)  BY <1>1, <1>2, LastSum
<1>9. FullSize \in Nat  BY <1>2, LastSum
<1> HIDE DEF plan
<1>10. /\ Len(plans)' = m + 1 /\ \E S : plans' \in Seq(S)
       /\ \A k \in 1..m : plans'[k] = plans[k]
       /\ plans'[m + 1].plan = plan /\ plans'[m + 1].upto = FullSize + plan.size
  <2> DEFINE new == [plan |-> plan, upto |-> FullSize + plan.size]
  <2>1. PICK S : plans \in Seq(S)  BY <1>2 DEF PlansAgree
  <2>2. plans' = Append(plans, new)  BY <1>3
  <2> HIDE DEF new
  <2>3. plans \in Seq(S \union {new}) /\ new \in S \union {new}  BY <2>1
  <2>4. /\ Len(Append(plans, new)) = Len(plans) + 1
        /\ \A k \in 1..Len(plans) : Append(plans, new)[k] = plans[k]
        /\ Append(plans, new)[Len(plans) + 1] = new
    BY <2>3
  <2>5. Append(plans, new) \in Seq(S \union {new})  BY <2>3
  <2>6. new.plan = plan /\ new.upto = FullSize + plan.size  BY DEF new
  <2> QED BY <1>8, <2>2, <2>4, <2>5, <2>6
<1>11. FullSize' = FullSize + plan.size
  <2>1. plans' # <<>>  BY <1>1, <1>2, <1>10
  <2> QED BY <1>10, <2>1 DEF FullSize
<1>12. /\ \A k \in 0..m : Upto(k)' = Upto(k)
       /\ Upto(m + 1)' = FullSize + plan.size
  <2>1. \A k \in 0..m : Upto(k)' = Upto(k)
    <3>1. \A k \in 0..m : k = 0 \/ k \in 1..m  BY <1>9
    <3> QED BY <1>10, <3>1 DEF Upto
  <2>2. m + 1 # 0  BY <1>9
  <2>3. Upto(m + 1)' = plans'[m + 1].upto  BY <2>2 DEF Upto
  <2> QED BY <1>10, <2>1, <2>3
<1>13. PlansAgree'
  <2>1. ASSUME NEW k \in 1..(m + 1)
        PROVE  /\ IsPlanOf(plans'[k].plan, PlaneOf(n, k - 1)')
               /\ plans'[k].upto = Upto(k - 1)' + plans'[k].plan.size
    <3>1. CASE k \in 1..m
      <4>1. plans'[k] = plans[k] /\ Upto(k - 1)' = Upto(k - 1)  BY <1>10, <1>12, <3>1
      <4>2. IsPlanOf(plans[k].plan, PlaneOf(n, k - 1)) /\ plans[k].upto = Upto(k - 1) + plans[k].plan.size
        BY <1>2, <1>8, <3>1 DEF PlansAgree
      <4> QED BY <1>6, <4>1, <4>2
    <3>2. CASE k = m + 1
      <4>1. k - 1 = i /\ k - 1 = m  BY <1>8, <3>2
      <4>2. plans'[k].plan = plan /\ plans'[k].upto = FullSize + plan.size  BY <1>10, <3>2
      <4>3. Upto(k - 1)' = FullSize  BY <1>8, <1>12, <4>1
      <4> QED BY <1>6, <1>7, <4>1, <4>2, <4>3
    <3> QED BY <1>9, <3>1, <3>2
  <2>2. ASSUME NEW k \in 0..(m + 1)
        PROVE  Upto(k)' \in Nat /\ Upto(k)' <= FullSize'
    <3>1. CASE k \in 0..m
      <4>1. Upto(k) \in Nat /\ Upto(k) <= FullSize  BY <1>2, <1>8, <3>1 DEF PlansAgree
      <4>2. Upto(k)' = Upto(k)  BY <1>12, <3>1
      <4> QED BY <1>7, <1>11, <1>9, <4>1, <4>2
    <3>2. CASE k = m + 1  BY <1>7, <1>11, <1>9, <1>12, <3>2
    <3> QED BY <1>9, <3>1, <3>2
  <2> QED BY <1>10, <2>1, <2>2 DEF PlansAgree
<1>14. WhilePlanning'
  BY <1>1, <1>2, <1>3, <1>4, <1>10, <1>9, <1>13 DEF WhilePlanning
<1> QED BY <1>2, <1>3, <1>5, <1>14 DEF IInv, WhileEncoding, InPartial

LEMMA PlannedIsGood ==
  ASSUME IInv, Planned
  PROVE  IInv'
PROOF
<1>1. /\ job \in Jobs /\ bytesoftype \in Nat /\ bytesoftype > 0 /\ i \in Nat
  BY JobFacts DEF IInv, TypeOK
<1>2. PlansAgree /\ dst = anchor + HeaderLen /\ i = bytesoftype /\ Len(plans) = i
  BY DEF IInv, WhilePlanning, Planned
<1>3. /\ job' = job /\ n' = n /\ stores' = stores /\ plans' = plans
      /\ anchor' = anchor /\ dst' = dst /\ i' = i
  BY DEF Planned
<1>4. HeaderLen' = HeaderLen /\ bytesoftype' = bytesoftype  BY <1>3, CallStays
<1>5. PlansAgree' /\ FullSize' = FullSize  BY <1>2, <1>3, PlansStay
<1>6. TypeOK' /\ StoresStayInside'  BY <1>3 DEF IInv, TypeOK, StoresStayInside
<1>7. \/ pc' = "lz" /\ LzIsTried /\ \E t \in Tables : lz' = [NoLz EXCEPT !.table = t]
      \/ pc' = "fit"
  BY DEF Planned
<1>8. pc' = "lz" => lz'.size = 0  BY <1>7 DEF NoLz
<1>9. pc' = "lz" => bytesoftype % 4 = 0 /\ job.room > dst + FullSize + bytesoftype * 8 + 2
  BY <1>7 DEF LzIsTried
<1>10. FullSize \in Nat  BY <1>2, LastSum
<1>11. WhilePlanning'
  BY <1>1, <1>2, <1>3, <1>4, <1>5, <1>7, <1>8, <1>9, <1>10 DEF WhilePlanning
<1> QED BY <1>6, <1>7, <1>11 DEF IInv, WhileEncoding, InPartial

\* A group that is too long for its block is still inside the destination: the
\* room that LzIsTried asks for is one group more than the planes take.
LEMMA LzCompressIsGood ==
  ASSUME IInv, LzCompress
  PROVE  IInv'
PROOF
<1>1. /\ job \in Jobs /\ bytesoftype \in Nat /\ bytesoftype > 0 /\ HeaderLen \in Nat
      /\ job.room \in Nat /\ anchor \in Int /\ dst \in Int /\ i \in Nat
  BY JobFacts DEF IInv, TypeOK
<1>2. /\ PlansAgree /\ dst = anchor + HeaderLen /\ i = bytesoftype /\ Len(plans) = i
      /\ bytesoftype % 4 = 0 /\ job.room > dst + FullSize + bytesoftype * 8 + 2
      /\ lz.size \in Nat /\ lz.size <= FullSize
  BY DEF IInv, WhilePlanning, LzCompress
<1>3. FullSize \in Nat  BY <1>2, LastSum
<1>4. PICK group : LET size == lz.size + GroupSize(group, ElementSize)
                   IN  /\ stores' = {anchor + 1 + size} /\ lz'.size = size
                       /\ \/ pc' = "fit" /\ dst' = dst
                          \/ pc' = pc /\ dst' = dst /\ ~(size > FullSize)
                          \/ pc' = "marker" /\ dst' = anchor + 1 + size
  <2> DEFINE group == IF lz.failed = lz.maxFailed THEN RawGroup(Elements(n), lz.pos)
                      ELSE MatchGroup(Elements(n), lz.table, lz.pos)
             size == lz.size + GroupSize(group, ElementSize)
  <2>1. stores' = {anchor + 1 + size}  BY DEF LzCompress
  <2>2. lz'.size = size  BY DEF LzCompress
  <2>3. \/ pc' = "fit" /\ dst' = dst
        \/ pc' = pc /\ dst' = dst /\ ~(size > FullSize)
        \/ pc' = "marker" /\ dst' = anchor + 1 + size
    BY DEF LzCompress
  <2> QED BY <2>1, <2>2, <2>3
<1>5. /\ job' = job /\ n' = n /\ i' = i /\ anchor' = anchor /\ plans' = plans /\ pc = "lz"
  BY DEF LzCompress
<1>6. ElementSize \in Nat /\ ElementSize >= 2 /\ ElementSize <= bytesoftype
  BY <1>1, <1>2 DEF ElementSize, Width8
<1> DEFINE g == GroupSize(group, ElementSize)
<1>7. g \in Nat /\ g <= 1 + 8 * ElementSize  BY <1>6, GroupSizes
<1> HIDE DEF g
<1>8. lz.size + g \in Nat /\ anchor + 1 + (lz.size + g) <= job.room
  BY <1>1, <1>2, <1>3, <1>6, <1>7
<1>9. HeaderLen' = HeaderLen /\ bytesoftype' = bytesoftype  BY <1>5, CallStays
<1>10. PlansAgree' /\ FullSize' = FullSize  BY <1>2, <1>5, PlansStay
<1>11. StoresStayInside'  BY <1>4, <1>5, <1>8 DEF StoresStayInside, g
<1>12. TypeOK'  BY <1>1, <1>4, <1>5, <1>8 DEF IInv, TypeOK, g
<1>13. CASE pc' = "fit" /\ dst' = dst
  <2>1. WhilePlanning'  BY <1>1, <1>2, <1>5, <1>9, <1>10, <1>13 DEF WhilePlanning
  <2> QED BY <1>11, <1>12, <1>13, <2>1 DEF IInv, WhileEncoding, InPartial
<1>14. CASE pc' = pc /\ dst' = dst /\ ~(lz.size + g > FullSize)
  <2>1. lz'.size = lz.size + g  BY <1>4 DEF g
  <2>2. lz'.size \in Nat /\ lz'.size <= FullSize  BY <1>3, <1>8, <1>14, <2>1
  <2>3. WhilePlanning'
    BY <1>1, <1>2, <1>5, <1>9, <1>10, <1>14, <2>2 DEF WhilePlanning
  <2> QED BY <1>5, <1>11, <1>12, <1>14, <2>3 DEF IInv, WhileEncoding, InPartial
<1>15. CASE pc' = "marker"
  BY <1>11, <1>12, <1>15, IdleIsGood DEF Idle
<1> QED BY <1>4, <1>13, <1>14, <1>15 DEF g

LEMMA FitIsGood ==
  ASSUME IInv, Fit
  PROVE  IInv'
PROOF
<1>1. /\ job \in Jobs /\ bytesoftype \in Nat /\ HeaderLen \in Nat
      /\ job.room \in Nat /\ anchor \in Int /\ dst \in Int
  BY JobFacts DEF IInv, TypeOK
<1>2. PlansAgree /\ dst = anchor + HeaderLen /\ Len(plans) = bytesoftype
  BY DEF IInv, WhilePlanning, Fit
<1>3. FullSize \in Nat  BY <1>2, LastSum
<1>4. /\ job' = job /\ n' = n /\ stores' = stores /\ plans' = plans
      /\ anchor' = anchor /\ dst' = dst /\ i' = 0
      /\ pc' = "overflow" \/ (pc' = "planes" /\ ~(dst + FullSize > job.room))
  BY DEF Fit
<1>5. HeaderLen' = HeaderLen /\ bytesoftype' = bytesoftype  BY <1>4, CallStays
<1>6. PlansAgree' /\ FullSize' = FullSize  BY <1>2, <1>4, PlansStay
<1>7. TypeOK' /\ StoresStayInside'  BY <1>4 DEF IInv, TypeOK, StoresStayInside
<1>8. CASE pc' = "overflow"  BY <1>7, <1>8, IdleIsGood DEF Idle
<1>9. CASE pc' = "planes" /\ ~(dst + FullSize > job.room)
  <2>1. Upto(0)' = 0  BY DEF Upto
  <2>2. Upto(i)' = 0  BY <1>4 DEF Upto
  <2>3. dst' = anchor' + HeaderLen' + Upto(i)' /\ anchor' + HeaderLen' + FullSize' <= job'.room
    BY <1>1, <1>2, <1>3, <1>4, <1>5, <1>6, <1>9, <2>2
  <2>4. WhileEncoding'  BY <1>1, <1>2, <1>4, <1>5, <1>6, <2>3 DEF WhileEncoding
  <2> QED BY <1>7, <1>9, <2>4 DEF IInv, WhilePlanning, InPartial
<1> QED BY <1>4, <1>8, <1>9

\* A raw plane ends where it was planned to, within the planned size of the
\* block; any other has room for 16 bytes more.
LEMMA EncodePlaneIsGood ==
  ASSUME IInv, EncodePlane
  PROVE  IInv'
PROOF
<1>1. /\ job \in Jobs /\ bytesoftype \in Nat /\ HeaderLen \in Nat
      /\ job.room \in Nat /\ anchor \in Int /\ dst \in Int /\ n \in Nat
  BY JobFacts DEF IInv, TypeOK
<1>2. PICK k \in Nat : k = i  BY DEF IInv, TypeOK
<1>3. /\ PlansAgree /\ Len(plans) = bytesoftype /\ k < bytesoftype
      /\ dst = anchor + HeaderLen + Upto(k) /\ anchor + HeaderLen + FullSize <= job.room
  BY <1>2 DEF IInv, WhileEncoding, EncodePlane
<1>4. job' = job /\ n' = n /\ anchor' = anchor /\ plans' = plans  BY DEF EncodePlane
<1>5. PlansAgree' /\ FullSize' = FullSize  BY <1>3, <1>4, PlansStay
<1>6. HeaderLen' = HeaderLen /\ bytesoftype' = bytesoftype  BY <1>4, CallStays
<1>7. CASE NeedsRoom(plans[i + 1].plan) \/ anchor + i \div 2 >= job.room
  <2>1. pc' = "overflow" /\ i' = i /\ dst' = dst /\ stores' = stores
    BY <1>7 DEF EncodePlane, Overflow
  <2>2. TypeOK' /\ StoresStayInside'  BY <1>4, <2>1 DEF IInv, TypeOK, StoresStayInside
  <2> QED BY <2>1, <2>2, IdleIsGood DEF Idle
<1>8. CASE ~(NeedsRoom(plans[i + 1].plan) \/ anchor + i \div 2 >= job.room)
  <2> DEFINE plan == plans[k + 1].plan
             plane == PlaneOf(n, k)
             enc == EncodedPlane(plan, plane, 16, dst)
  <2>1. /\ dst' = dst + PlaneSize(enc) /\ stores' = PlaneStores(enc) /\ i' = k + 1 /\ pc' = pc
        /\ pc = "planes" /\ ~NeedsRoom(plan)
    BY <1>2, <1>8 DEF EncodePlane
  <2>2. plane \in PlaneValues  BY <1>1, PlanesOfBlocks
  <2>3. /\ IsPlanOf(plan, plane) /\ plans[k + 1].upto = Upto(k) + plan.size
        /\ Upto(k + 1) \in Nat /\ Upto(k + 1) <= FullSize /\ Upto(k) \in Nat
    <3>1. k + 1 \in 1..Len(plans) /\ k + 1 \in 0..Len(plans) /\ k \in 0..Len(plans) /\ (k + 1) - 1 = k
      BY <1>1, <1>3
    <3> QED BY <1>3, <3>1 DEF PlansAgree
  <2>4. Upto(k + 1) = Upto(k) + plan.size  BY <2>3 DEF Upto
  <2>5. FullSize \in Nat  BY <1>3, LastSum
  <2> HIDE DEF plane, plan
  <2>6. /\ PlaneSize(enc) = plan.size /\ plan.size \in Nat
        /\ \A e \in PlaneStores(enc) : e \in Int /\ e <= job.room
    <3>1. CASE plan.type = "raw" /\ plan.size = 256
      <4>1. enc.type = "raw" /\ enc.at = dst  BY <3>1 DEF EncodedPlane
      <4> HIDE DEF enc
      <4>2. PlaneSize(enc) = 256 /\ PlaneStores(enc) = {dst + 256}
        BY <4>1 DEF PlaneSize, PlaneStores
      <4>3. dst + 256 <= job.room  BY <1>1, <1>3, <2>3, <2>4, <2>5, <3>1
      <4> QED BY <1>1, <3>1, <4>2, <4>3
    <3>2. CASE \E rle \in BOOLEAN : plan = PlanePlan(plane, rle)
      <4>1. PICK rle \in BOOLEAN : plan = PlanePlan(plane, rle)  BY <3>2
      <4>2. plan.type # "raw"  BY <2>2, <4>1, PlanFields
      <4>3. ~(dst + plan.size + 16 > job.room)  BY <2>1, <4>2 DEF NeedsRoom
      <4>4. /\ plan.size \in Nat /\ PlaneSize(enc) = plan.size
            /\ \A e \in PlaneStores(enc) : e \in Int /\ e <= dst + plan.size + 16
        BY <1>1, <2>2, <4>1, PlaneIsPlanned
      <4> HIDE DEF enc
      <4>5. ASSUME NEW e \in PlaneStores(enc) PROVE e \in Int /\ e <= job.room
        BY <1>1, <4>3, <4>4
      <4> QED BY <4>4, <4>5
    <3> QED BY <2>3, <3>1, <3>2 DEF IsPlanOf
  <2> HIDE DEF enc
  <2>7. Upto(i)' = Upto(k + 1)  BY <1>4, <2>1 DEF Upto
  <2>8. dst' = anchor' + HeaderLen' + Upto(i)' /\ dst' \in Int
    <3>1. dst' = dst + plan.size  BY <2>1, <2>6
    <3>2. anchor' = anchor /\ HeaderLen' = HeaderLen /\ Upto(i)' = Upto(k) + plan.size
      BY <1>4, <1>6, <2>4, <2>7
    <3> DEFINE s == plan.size
               u == Upto(k)
    <3>3. s \in Nat /\ u \in Nat  BY <2>3, <2>6
    <3>4. dst = anchor + HeaderLen + u  BY <1>3
    <3> HIDE DEF s, u
    <3>5. dst + s = anchor + HeaderLen + (u + s) /\ dst + s \in Int  BY <1>1, <3>3, <3>4
    <3> QED BY <3>1, <3>2, <3>5 DEF s, u
  <2>9. i' \in Nat /\ i' <= bytesoftype'  BY <1>1, <1>3, <1>6, <2>1
  <2>10. TypeOK' /\ StoresStayInside'
    BY <1>4, <2>1, <2>6, <2>8, <2>9 DEF IInv, TypeOK, StoresStayInside
  <2>11. WhileEncoding'
    BY <1>3, <1>4, <1>5, <1>6, <2>8, <2>9 DEF WhileEncoding
  <2> QED BY <2>1, <2>10, <2>11 DEF IInv, WhilePlanning, InPartial
<1> QED BY <1>7, <1>8

\* The steps that write nothing and leave the call as it is.
LEMMA WritesNothing ==
  ASSUME IInv, job' = job, n' \in Nat, i' \in Nat, anchor' = anchor, dst' = dst,
         stores' = stores
  PROVE  TypeOK' /\ StoresStayInside'
  BY DEF IInv, TypeOK, StoresStayInside

LEMMA EndBlockIsGood ==
  ASSUME IInv, EndBlock
  PROVE  IInv'
PROOF
<1>1. n \in Nat /\ i \in Nat  BY DEF IInv, TypeOK
<1>2. /\ job' = job /\ n' = n /\ i' = i /\ anchor' = anchor /\ dst' = dst /\ stores' = stores
      /\ pc' = "marker"
  BY DEF EndBlock
<1>3. pc' \in Idle  BY <1>2 DEF Idle
<1>4. n' \in Nat /\ i' \in Nat  BY <1>1, <1>2
<1> QED BY <1>2, <1>3, <1>4, WritesNothing, IdleIsGood

LEMMA MarkerIsGood ==
  ASSUME IInv, Marker
  PROVE  IInv'
PROOF
<1>1. n \in Nat /\ i \in Nat  BY DEF IInv, TypeOK
<1>2. /\ job' = job /\ n' = n + 1 /\ i' = i /\ anchor' = anchor /\ dst' = dst
      /\ stores' = stores
  BY DEF Marker
<1>3. pc' \in Idle  BY DEF Marker, Overflow, Idle
<1>4. n' \in Nat /\ i' \in Nat  BY <1>1, <1>2
<1> QED BY <1>2, <1>3, <1>4, WritesNothing, IdleIsGood

LEMMA StartPartialIsGood ==
  ASSUME IInv, StartPartial
  PROVE  IInv'
PROOF
<1>1. /\ job \in Jobs /\ HeaderLen \in Nat /\ bytesoftype \in Nat /\ job.room \in Nat
      /\ Lines \in 0..16 /\ dst \in Int /\ n \in Nat /\ i \in Nat
  BY JobFacts DEF IInv, TypeOK
<1>2. job' = job /\ n' = n /\ stores' = stores  BY DEF StartPartial
<1>3. bytesoftype' = bytesoftype  BY <1>2, CallStays
<1>4. CASE dst + 2 > job.room
  <2>1. pc' = "overflow" /\ anchor' = anchor /\ dst' = dst /\ i' = i
    BY <1>4 DEF StartPartial, Overflow
  <2>2. pc' \in Idle /\ n' \in Nat /\ i' \in Nat  BY <1>1, <1>2, <2>1 DEF Idle
  <2> QED BY <1>2, <2>1, <2>2, WritesNothing, IdleIsGood
<1>5. CASE ~(dst + 2 > job.room)
  <2>1. /\ anchor' = dst /\ dst' = dst + 1 + (IF Lines > 0 THEN HeaderLen ELSE 0)
        /\ i' = 0 /\ pc' = IF Lines > 0 THEN "lines" ELSE "rest"
    BY <1>5 DEF StartPartial
  <2>2. dst' \in Int /\ anchor' \in Int /\ i' \in Nat  BY <1>1, <2>1
  <2>3. TypeOK' /\ StoresStayInside'
    BY <1>2, <2>2 DEF IInv, TypeOK, StoresStayInside
  <2>4. pc' = "rest" => dst' <= job.room  BY <1>1, <1>5, <2>1
  <2>5. InPartial'  BY <1>1, <1>2, <1>3, <2>1, <2>4 DEF InPartial
  <2>6. pc' \in {"lines", "rest"}  BY <1>1, <2>1
  <2> QED BY <2>3, <2>5, <2>6 DEF IInv, WhilePlanning, WhileEncoding
<1> QED BY <1>4, <1>5

\* The rows of a partial block and their stores stay within what was asked for.
LEMMA EncodeLinesIsGood ==
  ASSUME IInv, EncodeLines
  PROVE  IInv'
PROOF
<1>1. /\ job \in Jobs /\ bytesoftype \in Nat /\ Lines \in 0..16
      /\ job.room \in Nat /\ anchor \in Int /\ dst \in Int /\ n \in Nat /\ i \in Nat
  BY JobFacts DEF IInv, TypeOK
<1> DEFINE plane == PlaneOf(n, i)
           plan == PlanePlan(plane, FALSE)
           enc == EncodedPlane(plan, plane, Lines, dst)
           needed == IF plan.type = "same" THEN 1 ELSE LinesSize(plan) + 8
<1>2. job' = job /\ n' = n /\ anchor' = anchor /\ i < bytesoftype /\ pc = "lines"
  BY DEF EncodeLines
<1>3. bytesoftype' = bytesoftype  BY <1>2, CallStays
<1>4. CASE dst + needed > job.room
  <2>1. pc' = "overflow" /\ i' = i /\ dst' = dst /\ stores' = stores
    BY <1>4 DEF EncodeLines, Overflow
  <2>2. pc' \in Idle /\ n' \in Nat /\ i' \in Nat  BY <1>1, <1>2, <2>1 DEF Idle
  <2> QED BY <1>2, <2>1, <2>2, WritesNothing, IdleIsGood
<1>5. CASE ~(dst + needed > job.room)
  <2>1. /\ dst' = dst + PlaneSize(enc) /\ stores' = PlaneStores(enc) /\ i' = i + 1 /\ pc' = pc
    BY <1>5 DEF EncodeLines
  <2>2. plane \in PlaneValues  BY <1>1, PlanesOfBlocks
  <2>3. needed = IF plan.type = "same" THEN 1
                 ELSE 8 + Total([r \in Cells |-> IF r < Lines THEN plan.lines[r].size ELSE 0]) + 8
    BY DEF LinesSize
  <2> HIDE DEF plane
  <2>4. /\ needed \in Nat /\ PlaneSize(enc) \in Nat /\ PlaneSize(enc) <= needed
        /\ \A e \in PlaneStores(enc) : e \in Int /\ e <= dst + needed
    BY <1>1, <2>2, <2>3, FirstRowsArePlanned
  <2> HIDE DEF enc, needed, plan
  <2>5. dst' \in Int /\ dst' <= job.room  BY <1>1, <1>5, <2>1, <2>4
  <2>6. \A e \in stores' : e \in Int /\ e <= job.room
    <3>1. ASSUME NEW e \in PlaneStores(enc) PROVE e \in Int /\ e <= job.room
      BY <1>1, <1>5, <2>4
    <3> QED BY <2>1, <3>1
  <2>7. i' \in Nat /\ i' <= bytesoftype'  BY <1>1, <1>2, <1>3, <2>1
  <2>8. TypeOK' /\ StoresStayInside'
    BY <1>2, <2>5, <2>6, <2>7 DEF IInv, TypeOK, StoresStayInside
  <2>9. InPartial'  BY <1>2, <2>1, <2>5, <2>7 DEF InPartial
  <2> QED BY <1>2, <2>1, <2>8, <2>9 DEF IInv, WhilePlanning, WhileEncoding
<1> QED BY <1>4, <1>5

LEMMA EndLinesIsGood ==
  ASSUME IInv, EndLines
  PROVE  IInv'
PROOF
<1>1. bytesoftype \in Nat /\ bytesoftype > 0 /\ n \in Nat /\ i \in Nat
  BY JobFacts DEF IInv, TypeOK
<1>2. /\ job' = job /\ n' = n /\ i' = i /\ anchor' = anchor /\ dst' = dst /\ stores' = stores
      /\ pc' = "rest" /\ pc = "lines" /\ i = bytesoftype
  BY DEF EndLines, compressed
<1>3. dst <= job.room  BY <1>1, <1>2 DEF IInv, InPartial
<1>4. TypeOK' /\ StoresStayInside'  BY <1>1, <1>2, WritesNothing
<1>5. InPartial'  BY <1>2, <1>3 DEF InPartial
<1> QED BY <1>2, <1>4, <1>5 DEF IInv, WhilePlanning, WhileEncoding

LEMMA EncodeRestIsGood ==
  ASSUME IInv, EncodeRest
  PROVE  IInv'
PROOF
<1>1. /\ job \in Jobs /\ Remaining \in Nat /\ LineBytes \in Int /\ job.room \in Nat
      /\ dst \in Int /\ n \in Nat /\ i \in Nat
  BY JobFacts DEF IInv, TypeOK
<1> DEFINE left == Remaining - LineBytes
<1>2. left \in Int  BY <1>1
<1>3. dst <= job.room  BY DEF IInv, InPartial, EncodeRest
<1>4. job' = job /\ n' = n /\ i' = i /\ anchor' = anchor  BY DEF EncodeRest
<1>5. \/ pc' = "overflow" /\ dst' = dst /\ stores' = stores
      \/ /\ pc' = "done" /\ dst' = dst + left /\ stores' = {dst'}
         /\ ~(left > 0 /\ dst + left > job.room)
  BY DEF EncodeRest, Overflow
<1> HIDE DEF left
<1>6. pc' \in Idle  BY <1>5 DEF Idle
<1>7. CASE dst' = dst /\ stores' = stores
  BY <1>1, <1>4, <1>6, <1>7, WritesNothing, IdleIsGood
<1>8. CASE dst' = dst + left /\ stores' = {dst'} /\ ~(left > 0 /\ dst + left > job.room)
  <2>1. dst' \in Int /\ dst' <= job.room  BY <1>1, <1>2, <1>3, <1>8
  <2>2. TypeOK' /\ StoresStayInside'
    BY <1>4, <1>8, <2>1 DEF IInv, TypeOK, StoresStayInside
  <2> QED BY <1>6, <2>2, IdleIsGood
<1> QED BY <1>5, <1>7, <1>8

LEMMA NoPartialIsGood ==
  ASSUME IInv, NoPartial
  PROVE  IInv'
PROOF
<1>1. n \in Nat /\ i \in Nat  BY DEF IInv, TypeOK
<1>2. /\ job' = job /\ n' = n /\ i' = i /\ anchor' = anchor /\ dst' = dst /\ stores' = stores
      /\ pc' = "done"
  BY DEF NoPartial, compressed
<1>3. pc' \in Idle /\ n' \in Nat /\ i' \in Nat  BY <1>1, <1>2 DEF Idle
<1> QED BY <1>2, <1>3, WritesNothing, IdleIsGood

\* The decoder writes nothing of what was compressed.
LEMMA DecompressIsGood ==
  ASSUME IInv, Decompress
  PROVE  IInv'
PROOF
<1>1. n \in Nat /\ i \in Nat  BY DEF IInv, TypeOK
<1> DEFINE Reads == UNCHANGED compressed /\ pc' \in Idle /\ n' \in Nat /\ i' \in Nat
<1>2. 0 \in Nat /\ n + 1 \in Nat /\ i + 1 \in Nat  BY <1>1
<1>3. ASSUME StartDecompress PROVE Reads
  BY <1>1, <1>2, <1>3 DEF StartDecompress, Idle, Refuse
<1>4. ASSUME ReadBlock PROVE Reads
  BY <1>1, <1>2, <1>4 DEF ReadBlock, Idle, Refuse, Garbage
<1>5. ASSUME LzDecompress PROVE Reads
  BY <1>1, <1>2, <1>5 DEF LzDecompress, Idle, Refuse, Garbage
<1>6. ASSUME EndUnLz PROVE Reads
  BY <1>1, <1>2, <1>6 DEF EndUnLz, Idle
<1>7. ASSUME ReadPlane PROVE Reads
  BY <1>1, <1>2, <1>7 DEF ReadPlane, Idle, Refuse, Garbage
<1>8. ASSUME ReadRow PROVE Reads
  BY <1>1, <1>2, <1>8 DEF ReadRow, Idle, Refuse
<1>9. ASSUME EndPlane PROVE Reads
  BY <1>1, <1>2, <1>9 DEF EndPlane, Idle
<1>10. ASSUME EndPlanes PROVE Reads
  BY <1>1, <1>2, <1>10 DEF EndPlanes, Idle
<1>11. ASSUME ReadPartial PROVE Reads
  BY <1>1, <1>2, <1>11 DEF ReadPartial, Idle, Refuse, Garbage
<1>12. ASSUME ReadRest PROVE Reads
  BY <1>1, <1>2, <1>12 DEF ReadRest, Idle, Refuse, Garbage
<1>13. ASSUME NoRest PROVE Reads
  BY <1>1, <1>2, <1>13 DEF NoRest, Idle
<1>14. Reads
  BY <1>3, <1>4, <1>5, <1>6, <1>7, <1>8, <1>9, <1>10, <1>11, <1>12, <1>13 DEF Decompress
<1>15. job' = job /\ anchor' = anchor /\ dst' = dst /\ stores' = stores
  BY <1>14 DEF compressed
<1> QED BY <1>14, <1>15, WritesNothing, IdleIsGood

\* A stuttering step.
LEMMA StutterIsGood ==
  ASSUME IInv, UNCHANGED vars
  PROVE  IInv'
PROOF
<1>1. /\ job' = job /\ pc' = pc /\ n' = n /\ i' = i /\ anchor' = anchor /\ dst' = dst
      /\ stores' = stores /\ plans' = plans /\ lz' = lz
  BY DEF vars
<1>2. bytesoftype' = bytesoftype /\ HeaderLen' = HeaderLen  BY <1>1, CallStays
<1>3. TypeOK' /\ StoresStayInside'  BY <1>1 DEF IInv, TypeOK, StoresStayInside
<1>4. PlansAgree => PlansAgree' /\ FullSize' = FullSize  BY <1>1, PlansStay
<1>5. Upto(i)' = Upto(i)  BY <1>1 DEF Upto
<1>6. WhilePlanning'  BY <1>1, <1>2, <1>4 DEF IInv, WhilePlanning
<1>7. WhileEncoding'  BY <1>1, <1>2, <1>4, <1>5 DEF IInv, WhileEncoding
<1>8. InPartial'  BY <1>1, <1>2 DEF IInv, InPartial
<1> QED BY <1>3, <1>6, <1>7, <1>8 DEF IInv

-----------------------------------------------------------------------------
(* The theorems *)

LEMMA Inductive ==
  ASSUME IInv, [Next]_vars
  PROVE  IInv'
PROOF
<1>1. CASE Compress
  BY <1>1, CopyBlockIsGood, StartBlockIsGood, PlanPlaneIsGood, PlannedIsGood, LzCompressIsGood,
     FitIsGood, EncodePlaneIsGood, EndBlockIsGood, MarkerIsGood, StartPartialIsGood,
     EncodeLinesIsGood, EndLinesIsGood, EncodeRestIsGood, NoPartialIsGood DEF Compress
<1>2. CASE Decompress  BY <1>2, DecompressIsGood
<1>3. CASE UNCHANGED vars  BY <1>3, StutterIsGood
<1> QED BY <1>1, <1>2, <1>3 DEF Next

\* Every call of block_compress keeps the sums it planned, whatever its input,
\* its level, the room it has and what the LZ table held.
THEOREM Invariance == Spec => []IInv
PROOF
<1>1. Init => IInv  BY InitIsGood
<1>2. IInv /\ [Next]_vars => IInv'  BY Inductive
<1> QED BY <1>1, <1>2, PTL DEF Spec

\* No store of block_compress touches a byte beyond the destination, not even
\* the bytes that its vector stores write beyond the end of a row or a group.
THEOREM StoresAlwaysInside == Spec => []StoresStayInside
PROOF
<1>1. IInv => StoresStayInside  BY DEF IInv
<1> QED BY <1>1, Invariance, PTL

\* Every plane of a block ends where the sizes that were predicted say, so that
\* a block is as long as block_compress expected when it chose its coding.
THEOREM PlannedAlwaysWritten == Spec => []PlannedIsWritten
PROOF
<1>1. IInv => PlannedIsWritten  BY DEF IInv, WhileEncoding, PlannedIsWritten, Upto
<1> QED BY <1>1, Invariance, PTL

-----------------------------------------------------------------------------
(* The stream *)

IsSeq(s) == \E S : s \in Seq(S)

\* Where element k + 1 of a list that ends at `to` begins.
At(s, k, to) == IF k < Len(s) THEN s[k + 1].at ELSE to

\* Elements that follow each other from one place to another without a gap, where
\* `size` has the size of each.
Chained(s, size, from, to) ==
  /\ IsSeq(s)
  /\ from \in Nat /\ to \in Nat /\ from + Len(s) <= to
  /\ At(s, 0, to) = from
  /\ \A k \in 0..Len(s) : At(s, k, to) \in Nat /\ At(s, k, to) <= to
  /\ \A k \in 1..Len(s) : size[k] \in Nat /\ s[k].at + size[k] = At(s, k, to)

\* The rows of the planes of a block.
Rows(b) == IF b < BlockCount THEN 16 ELSE Lines

\* What EncodedPlane makes of the first rows of a plane, or the plane itself.
PlaneGood(enc, plane, rows) ==
  \/ enc.type = "raw" /\ enc.values = plane /\ rows = 16
  \/ \E rle \in BOOLEAN :
       (rle => rows = 16) /\ enc = EncodedPlane(PlanePlan(plane, rle), plane, rows, enc.at)

PlanesGood(ps, b, count, from, to) ==
  /\ Len(ps) = count
  /\ Chained(ps, [k \in 1..Len(ps) |-> PlaneSize(ps[k])], from, to)
  /\ \A k \in 1..Len(ps) : PlaneGood(ps[k], PlaneOf(b, k - 1), Rows(b))

\* A group gives the elements from e on: a distance leads back to an equal one.
GroupGood(group, b, e) ==
  \A j \in Places :
    IF j \in DOMAIN group.diffs
    THEN /\ group.diffs[j] \in 1..(e + j)
         /\ Elements(b)[e + j - group.diffs[j]] = Elements(b)[e + j]
    ELSE group.values[j] = Elements(b)[e + j]

GroupsGood(gs, b, count, from, to) ==
  /\ 8 * Len(gs) = count
  /\ Chained(gs, [k \in 1..Len(gs) |-> GroupSize(gs[k].group, ElementSize)], from, to)
  /\ \A k \in 1..Len(gs) : GroupGood(gs[k].group, b, 8 * (k - 1))

\* The bytes after the last whole row.
Left == Remaining - LineBytes

\* The planes of a partial block that begins at `at`, and where they end.
LinesGood(ps, b, at, to) ==
  IF Lines > 0 THEN PlanesGood(ps, b, bytesoftype, at + 1 + HeaderLen, to) ELSE to = at + 1

\* Part b of the stream ends at `to`.
PartGood(part, b, to) ==
  \/ /\ part.kind = "copy" /\ b < BlockCount
     /\ part.bytes = Copied(b * BlockSize, BlockSize) /\ to = part.at + 1 + BlockSize
  \/ /\ part.kind = "lz" /\ b < BlockCount /\ bytesoftype % 4 = 0
     /\ GroupsGood(part.groups, b, ElementCount, part.at + 1, to)
  \/ /\ part.kind = "planes" /\ b < BlockCount
     /\ PlanesGood(part.planes, b, bytesoftype, part.at + HeaderLen, to)
  \/ /\ part.kind = "partial" /\ b = BlockCount /\ Remaining > 0
     /\ LinesGood(part.planes, b, part.at, part.rest)
     /\ part.bytes = Copied(job.bytes - Left, Left) /\ to = part.rest + Left

\* The parts that were written follow each other, up to `to`.
StreamGood(s, to) ==
  /\ IsSeq(s) /\ to \in Nat
  /\ At(s, 0, to) = 0
  /\ \A k \in 0..Len(s) : At(s, k, to) \in Nat /\ At(s, k, to) <= to
  /\ \A k \in 1..Len(s) : PartGood(s[k], k - 1, At(s, k, to))

Parts == BlockCount + IF Remaining > 0 THEN 1 ELSE 0

Reading == {"read", "unlz", "plane", "row", "unrest", "restored"}

\* The steps inside a block that is not in the stream yet.
Open == {"plan", "lz", "fit", "planes", "lines", "rest"}

WhereInStream ==
  /\ pc \in Open \union Reading \union {"block", "marker", "overflow", "done"}
  /\ pc \in Open \union {"block"} => Len(out) = n
  /\ pc = "marker" => Len(out) = n + 1
  /\ pc = "block" => n <= BlockCount
  /\ pc \in {"plan", "lz", "fit", "planes", "marker"} => n < BlockCount
  /\ pc \in {"lines", "rest"} => n = BlockCount /\ Remaining > 0
  /\ pc \in Reading \union {"done"} => Len(out) = Parts /\ n <= BlockCount
  /\ pc # "overflow" => StreamGood(out, IF pc \in Open THEN anchor ELSE dst)

LzGood ==
  /\ bytesoftype % 4 = 0 /\ bytesoftype <= 512
  /\ lz.pos \in Nat /\ lz.pos % 8 = 0 /\ lz.pos < ElementCount
  /\ lz.table \in [Hashes -> Nat]
  /\ GroupsGood(lz.groups, n, lz.pos, anchor + 1, anchor + 1 + lz.size)

\* What was written of a block that is not in the stream yet.
InBlock ==
  /\ pc \in {"plan", "lz", "fit"} => planes = <<>>
  /\ pc = "lz" => LzGood
  /\ pc = "planes" => PlanesGood(planes, n, i, anchor + HeaderLen, dst)
  /\ pc = "lines" => Lines > 0 /\ PlanesGood(planes, n, i, anchor + 1 + HeaderLen, dst)
  /\ pc = "rest" => LinesGood(planes, n, anchor, dst)

\* Byte o of the output is that of the input.
Right(o) == output[o] = job.source[o]

Restored(m) == \A o \in 0..(job.bytes - 1) : o < m => Right(o)

\* The first m bytes of plane p of block n.
PlaneRestored(p, m) == \A k \in 0..(m - 1) : Right(Offset(n, p, k))

\* The part that is read, and where its planes end.
Part == out[n + 1]
PlanesEnd == IF n < BlockCount THEN At(out, n + 1, dst) ELSE Part.rest

\* The bytes of a group before the element at place j.
GroupUpto(group, j, width) ==
  LET before(k) == IF k < j THEN PlaceSize(group, k, width) ELSE 0
  IN  IF j = 0 THEN 0
      ELSE 1 + before(0) + before(1) + before(2) + before(3) + before(4) + before(5)
             + before(6) + before(7)

\* Where element e of an LZ block begins.
ElementPlace(e) ==
  At(Part.groups, e \div 8, At(out, n + 1, dst))
    + IF e % 8 = 0 THEN 0 ELSE GroupUpto(Part.groups[e \div 8 + 1].group, e % 8, ElementSize)

\* The planes before plane i of block n are restored.
ReadingPlanes ==
  /\ Restored(n * BlockSize)
  /\ \A p \in 0..(i - 1) : PlaneRestored(p, 16 * Rows(n))
  /\ Part.kind = IF n < BlockCount THEN "planes" ELSE "partial"
  /\ n = BlockCount => Remaining > 0 /\ Lines > 0

WhatIsRead ==
  /\ pc \in Reading => output = [o \in 0..(job.bytes - 1) |-> output[o]] /\ src \in Nat
  /\ pc = "read" => src = At(out, n, dst) /\ Restored(n * BlockSize)
  /\ pc = "unlz" =>
       /\ n < BlockCount /\ Part.kind = "lz" /\ i <= ElementCount
       /\ src = ElementPlace(i) /\ Restored(n * BlockSize + i * ElementSize)
  /\ pc = "plane" =>
       /\ ReadingPlanes /\ i <= bytesoftype
       /\ src = At(Part.planes, i, PlanesEnd)
  /\ pc = "row" =>
       /\ ReadingPlanes /\ i < bytesoftype
       /\ Enc.type \in {"normal", "normal_rle"}
       /\ row \in 0..Rows(n)
       /\ src = Enc.at + HeadSize(Enc) + RowSizes(Enc, 0..(row - 1))
       /\ PlaneRestored(i, 16 * row)
  /\ pc = "unrest" =>
       /\ n = BlockCount /\ Remaining > 0
       /\ src = Part.rest /\ Restored(n * BlockSize + LineBytes)
  /\ pc = "restored" => src = dst /\ Restored(job.bytes)

RoundInv == WhereInStream /\ InBlock /\ WhatIsRead

-----------------------------------------------------------------------------
(* Lists of things that follow each other *)

LEMMA Appending ==
  ASSUME NEW s, IsSeq(s), NEW e
  PROVE  /\ Len(s) \in Nat /\ IsSeq(Append(s, e)) /\ Len(Append(s, e)) = Len(s) + 1
         /\ \A k \in 1..Len(s) : Append(s, e)[k] = s[k]
         /\ Append(s, e)[Len(s) + 1] = e
PROOF
<1>1. PICK S : s \in Seq(S)  BY DEF IsSeq
<1>2. s \in Seq(S \union {e}) /\ e \in S \union {e}  BY <1>1
<1>3. Append(s, e) \in Seq(S \union {e})  BY <1>2
<1>4. IsSeq(Append(s, e))  BY <1>3 DEF IsSeq
<1> QED BY <1>2, <1>4

LEMMA EmptySequence == IsSeq(<<>>) /\ Len(<<>>) = 0
PROOF
<1>1. <<>> \in Seq({})  OBVIOUS
<1> QED BY <1>1 DEF IsSeq

LEMMA EmptyChain ==
  ASSUME NEW size, NEW from \in Nat
  PROVE  Chained(<<>>, size, from, from)
  BY EmptySequence DEF Chained, At

\* An element of at least one byte at the end of a list.
LEMMA LongerChain ==
  ASSUME NEW s, NEW size, NEW from, NEW to, Chained(s, size, from, to),
         NEW e, e.at = to, NEW more, NEW w \in Nat, w > 0, more[Len(s) + 1] = w,
         \A k \in 1..Len(s) : more[k] = size[k]
  PROVE  Chained(Append(s, e), more, from, to + w)
PROOF
<1> DEFINE new == Append(s, e)
<1>1. IsSeq(s) /\ from \in Nat /\ to \in Nat /\ from + Len(s) <= to  BY DEF Chained
<1>2. /\ Len(s) \in Nat /\ IsSeq(new) /\ Len(new) = Len(s) + 1
      /\ \A k \in 1..Len(s) : new[k] = s[k]
      /\ new[Len(s) + 1] = e
  BY <1>1, Appending
<1> HIDE DEF new
<1>3. /\ \A k \in 0..Len(s) : At(new, k, to + w) = At(s, k, to)
      /\ At(new, Len(s) + 1, to + w) = to + w
  <2>1. new[Len(s) + 1].at = to  BY <1>2
  <2>2. ASSUME NEW k \in 0..Len(s) PROVE At(new, k, to + w) = At(s, k, to)
    <3>1. CASE k < Len(s)
      <4>1. k + 1 \in 1..Len(s) /\ k < Len(new)  BY <1>2, <3>1
      <4> QED BY <1>2, <3>1, <4>1 DEF At
    <3>2. CASE k = Len(s)
      <4>1. k < Len(new) /\ ~(k < Len(s))  BY <1>2, <3>2
      <4> QED BY <1>2, <2>1, <3>2, <4>1 DEF At
    <3> QED BY <1>2, <3>1, <3>2
  <2> QED BY <1>2, <2>2 DEF At
<1>5. to + w \in Nat /\ from + Len(new) <= to + w  BY <1>1, <1>2
<1>6. At(new, 0, to + w) = from  BY <1>2, <1>3 DEF Chained
<1>7. ASSUME NEW k \in 0..Len(new) PROVE At(new, k, to + w) \in Nat /\ At(new, k, to + w) <= to + w
  <2>1. CASE k \in 0..Len(s)
    <3>1. At(s, k, to) \in Nat /\ At(s, k, to) <= to  BY <2>1 DEF Chained
    <3> QED BY <1>1, <1>3, <2>1, <3>1
  <2>2. CASE k = Len(s) + 1  BY <1>3, <1>5, <2>2
  <2> QED BY <1>2, <2>1, <2>2
<1>8. ASSUME NEW k \in 1..Len(new) PROVE more[k] \in Nat /\ new[k].at + more[k] = At(new, k, to + w)
  <2>1. CASE k \in 1..Len(s)
    <3>1. size[k] \in Nat /\ s[k].at + size[k] = At(s, k, to)  BY <2>1 DEF Chained
    <3>2. k \in 0..Len(s) /\ new[k] = s[k]  BY <1>2, <2>1
    <3> QED BY <1>3, <2>1, <3>1, <3>2
  <2>2. CASE k = Len(s) + 1  BY <1>2, <1>3, <2>2
  <2> QED BY <1>2, <2>1, <2>2
<1> QED BY <1>1, <1>2, <1>5, <1>6, <1>7, <1>8 DEF Chained, new

LEMMA MorePlanes ==
  ASSUME NEW ps, NEW b, NEW count, NEW from, NEW to, PlanesGood(ps, b, count, from, to),
         NEW enc, enc.at = to, PlaneGood(enc, PlaneOf(b, count), Rows(b)),
         PlaneSize(enc) \in Nat, PlaneSize(enc) > 0
  PROVE  PlanesGood(Append(ps, enc), b, count + 1, from, to + PlaneSize(enc))
PROOF
<1> DEFINE new == Append(ps, enc)
           size == [k \in 1..Len(ps) |-> PlaneSize(ps[k])]
           more == [k \in 1..Len(new) |-> PlaneSize(new[k])]
<1>1. IsSeq(ps) /\ Len(ps) = count /\ Chained(ps, size, from, to)  BY DEF PlanesGood, Chained
<1>2. /\ Len(ps) \in Nat /\ Len(new) = Len(ps) + 1
      /\ \A k \in 1..Len(ps) : new[k] = ps[k]
      /\ new[Len(ps) + 1] = enc
  BY <1>1, Appending
<1> HIDE DEF new
<1>3. more[Len(ps) + 1] = PlaneSize(enc) /\ \A k \in 1..Len(ps) : more[k] = size[k]
  BY <1>2
<1> HIDE DEF size, more
<1>4. Chained(new, more, from, to + PlaneSize(enc))
  BY <1>1, <1>3, LongerChain DEF new
<1>5. ASSUME NEW k \in 1..Len(new) PROVE PlaneGood(new[k], PlaneOf(b, k - 1), Rows(b))
  <2>1. CASE k \in 1..Len(ps)
    <3>1. PlaneGood(ps[k], PlaneOf(b, k - 1), Rows(b))  BY <2>1 DEF PlanesGood
    <3> QED BY <1>2, <2>1, <3>1
  <2>2. CASE k = Len(ps) + 1
    <3>1. k - 1 = count /\ new[k] = enc  BY <1>1, <1>2, <2>2
    <3> QED BY <3>1
  <2> QED BY <1>2, <2>1, <2>2
<1> QED BY <1>1, <1>2, <1>4, <1>5 DEF PlanesGood, new, more

LEMMA MoreGroups ==
  ASSUME NEW gs, NEW b, NEW count \in Nat, NEW from, NEW to, GroupsGood(gs, b, count, from, to),
         NEW group, GroupGood(group, b, count),
         GroupSize(group, ElementSize) \in Nat, GroupSize(group, ElementSize) > 0
  PROVE  GroupsGood(Append(gs, [at |-> to, group |-> group]), b, count + 8, from,
                    to + GroupSize(group, ElementSize))
PROOF
<1> DEFINE e == [at |-> to, group |-> group]
           new == Append(gs, e)
           w == GroupSize(group, ElementSize)
           size == [k \in 1..Len(gs) |-> GroupSize(gs[k].group, ElementSize)]
           more == [k \in 1..Len(new) |-> GroupSize(new[k].group, ElementSize)]
<1>1. IsSeq(gs) /\ 8 * Len(gs) = count /\ Chained(gs, size, from, to)  BY DEF GroupsGood, Chained
<1>2. /\ Len(gs) \in Nat /\ Len(new) = Len(gs) + 1
      /\ \A k \in 1..Len(gs) : new[k] = gs[k]
      /\ new[Len(gs) + 1] = e
  BY <1>1, Appending
<1>3. e.at = to /\ e.group = group  OBVIOUS
<1> HIDE DEF new, e
<1>4. more[Len(gs) + 1] = w /\ \A k \in 1..Len(gs) : more[k] = size[k]
  BY <1>2, <1>3
<1> HIDE DEF size, more, w
<1>5. Chained(new, more, from, to + w)
  <2>1. w \in Nat /\ w > 0  BY DEF w
  <2> QED BY <1>1, <1>3, <1>4, <2>1, LongerChain DEF new
<1>6. ASSUME NEW k \in 1..Len(new) PROVE GroupGood(new[k].group, b, 8 * (k - 1))
  <2>1. CASE k \in 1..Len(gs)
    <3>1. GroupGood(gs[k].group, b, 8 * (k - 1))  BY <2>1 DEF GroupsGood
    <3> QED BY <1>2, <2>1, <3>1
  <2>2. CASE k = Len(gs) + 1
    <3>1. 8 * (k - 1) = count /\ new[k].group = group  BY <1>1, <1>2, <1>3, <2>2
    <3> QED BY <3>1
  <2> QED BY <1>2, <2>1, <2>2
<1>7. 8 * Len(new) = count + 8  BY <1>1, <1>2
<1>8. GroupsGood(new, b, count + 8, from, to + w)
  BY <1>5, <1>6, <1>7 DEF GroupsGood, more
<1> QED BY <1>8 DEF new, e, w

\* A part at the end of the stream.
LEMMA MoreParts ==
  ASSUME NEW s, NEW to, StreamGood(s, to), NEW part, part.at = to,
         NEW end \in Nat, end >= to, PartGood(part, Len(s), end)
  PROVE  StreamGood(Append(s, part), end)
PROOF
<1> DEFINE new == Append(s, part)
<1>1. IsSeq(s) /\ to \in Nat  BY DEF StreamGood
<1>2. /\ Len(s) \in Nat /\ IsSeq(new) /\ Len(new) = Len(s) + 1
      /\ \A k \in 1..Len(s) : new[k] = s[k]
      /\ new[Len(s) + 1] = part
  BY <1>1, Appending
<1> HIDE DEF new
<1>3. /\ \A k \in 0..Len(s) : At(new, k, end) = At(s, k, to)
      /\ At(new, Len(s) + 1, end) = end
  <2>1. new[Len(s) + 1].at = to  BY <1>2
  <2>2. ASSUME NEW k \in 0..Len(s) PROVE At(new, k, end) = At(s, k, to)
    <3>1. CASE k < Len(s)
      <4>1. k + 1 \in 1..Len(s) /\ k < Len(new)  BY <1>2, <3>1
      <4> QED BY <1>2, <3>1, <4>1 DEF At
    <3>2. CASE k = Len(s)
      <4>1. k < Len(new) /\ ~(k < Len(s))  BY <1>2, <3>2
      <4> QED BY <1>2, <2>1, <3>2, <4>1 DEF At
    <3> QED BY <1>2, <3>1, <3>2
  <2> QED BY <1>2, <2>2 DEF At
<1>4. At(new, 0, end) = 0  BY <1>2, <1>3 DEF StreamGood
<1>5. ASSUME NEW k \in 0..Len(new) PROVE At(new, k, end) \in Nat /\ At(new, k, end) <= end
  <2>1. CASE k \in 0..Len(s)
    <3>1. At(s, k, to) \in Nat /\ At(s, k, to) <= to  BY <2>1 DEF StreamGood
    <3> QED BY <1>1, <1>3, <2>1, <3>1
  <2>2. CASE k = Len(s) + 1  BY <1>3, <2>2
  <2> QED BY <1>2, <2>1, <2>2
<1>6. ASSUME NEW k \in 1..Len(new) PROVE PartGood(new[k], k - 1, At(new, k, end))
  <2>1. CASE k \in 1..Len(s)
    <3>1. PartGood(s[k], k - 1, At(s, k, to))  BY <2>1 DEF StreamGood
    <3>2. k \in 0..Len(s) /\ new[k] = s[k]  BY <1>2, <2>1
    <3>3. At(new, k, end) = At(s, k, to)  BY <1>3, <3>2
    <3> QED BY <3>1, <3>2, <3>3
  <2>2. CASE k = Len(s) + 1
    <3>1. k - 1 = Len(s) /\ new[k] = part /\ At(new, k, end) = end  BY <1>2, <1>3, <2>2
    <3> QED BY <3>1
  <2> QED BY <1>2, <2>1, <2>2
<1> QED BY <1>2, <1>4, <1>5, <1>6 DEF StreamGood, new

-----------------------------------------------------------------------------
(* Places of bytes *)

LEMMA Quotients ==
  ASSUME NEW x \in Nat, NEW b \in Nat, b > 0
  PROVE  (x * b) \div b = x
  OBVIOUS

LEMMA Division ==
  ASSUME NEW a \in Nat, NEW b \in Nat, b > 0
  PROVE  /\ a \div b \in Nat /\ a % b \in Nat /\ a % b < b
         /\ a = (a \div b) * b + (a % b)
PROOF
<1>1. a \div b \in Nat /\ a % b \in Nat /\ a % b < b /\ a = b * (a \div b) + (a % b)
  OBVIOUS
<1> DEFINE q == a \div b
<1>2. q \in Nat /\ a = b * q + (a % b)  BY <1>1
<1> HIDE DEF q
<1>3. b * q = q * b  BY <1>2
<1> QED BY <1>1, <1>2, <1>3 DEF q

\* The bytes of elements x to y - 1, of b bytes each.
LEMMA ByteOfElement ==
  ASSUME NEW b \in Nat, b > 0, NEW p \in 0..(b - 1), NEW x \in Nat, NEW y \in Nat, x < y
  PROVE  /\ x * b + p \in Nat /\ x * b + p < y * b /\ x * b \in Nat /\ y * b \in Nat
PROOF
<1>1. x * b \in Nat /\ y * b \in Nat /\ (x + 1) * b = x * b + b  OBVIOUS
<1>2. x + 1 <= y => (x + 1) * b <= y * b  OBVIOUS
<1> QED BY <1>1, <1>2

LEMMA ElementOfByte ==
  ASSUME NEW b \in Nat, b > 0, NEW x \in Nat, NEW y \in Nat, NEW o \in Nat, x * b <= o, o < y * b
  PROVE  /\ o % b \in 0..(b - 1) /\ o \div b \in Nat
         /\ o = (o \div b) * b + (o % b) /\ x <= o \div b /\ o \div b < y
PROOF
<1> DEFINE q == o \div b
           r == o % b
<1>1. q \in Nat /\ r \in 0..(b - 1) /\ o = b * q + r  OBVIOUS
<1> HIDE DEF q, r
<1>2. q * b = b * q /\ q * b \in Nat /\ x * b \in Nat /\ y * b \in Nat /\ (q + 1) * b = q * b + b
  BY <1>1
<1>3. x <= q
  <2>1. q + 1 <= x => (q + 1) * b <= x * b  BY <1>1
  <2> QED BY <1>1, <1>2, <2>1
<1>4. q < y
  <2>1. y <= q => y * b <= q * b  BY <1>1
  <2> QED BY <1>1, <1>2, <2>1
<1> QED BY <1>1, <1>2, <1>3, <1>4 DEF q, r

\* The call in blocks and whole rows.
LEMMA Lengths ==
  ASSUME job \in Jobs
  PROVE  /\ BlockCount \in Nat /\ job.bytes = BlockCount * BlockSize + Remaining
         /\ Remaining < BlockSize /\ Left \in Nat /\ Remaining = LineBytes + Left
         /\ LineBytes \in Nat /\ LineBytes = 16 * Lines * bytesoftype /\ Lines < 16
         /\ Lines = 0 => LineBytes = 0
PROOF
<1>1. /\ bytesoftype \in Nat /\ bytesoftype > 0 /\ BlockSize \in Nat /\ BlockSize > 0
      /\ job.bytes \in Nat /\ Remaining \in Nat /\ Lines \in 0..16
  BY JobFacts
<1>2. /\ job.bytes \div BlockSize \in Nat /\ job.bytes % BlockSize < BlockSize
      /\ job.bytes = (job.bytes \div BlockSize) * BlockSize + (job.bytes % BlockSize)
  BY <1>1, Division
<1>3. /\ BlockCount \in Nat /\ Remaining < BlockSize
      /\ job.bytes = BlockCount * BlockSize + Remaining
  BY <1>1, <1>2 DEF BlockCount, Remaining
<1> DEFINE w == 16 * bytesoftype
<1>4. w \in Nat /\ w > 0  BY <1>1
<1>5. Lines = Remaining \div w /\ LineBytes = w * Lines  BY DEF Lines, LineBytes
<1> HIDE DEF w
<1>7. /\ w * (Remaining \div w) \in Nat /\ w * (Remaining \div w) <= Remaining  BY <1>1, <1>4
<1>8. LineBytes \in Nat /\ LineBytes <= Remaining  BY <1>5, <1>7
<1>9. LineBytes = 16 * Lines * bytesoftype  BY <1>1, <1>5 DEF w
<1>10. Lines < 16
  <2>1. Remaining < 16 * w  BY <1>1, <1>3 DEF w, BlockSize
  <2>2. Lines >= 16 => 16 * w <= LineBytes  BY <1>1, <1>4, <1>5
  <2> QED BY <1>1, <1>4, <1>8, <2>1, <2>2
<1>11. Left \in Nat /\ Remaining = LineBytes + Left  BY <1>1, <1>8 DEF Left
<1>12. Lines = 0 => LineBytes = 0  BY <1>4, <1>5
<1> QED BY <1>3, <1>8, <1>9, <1>10, <1>11, <1>12

\* The bytes of the planes of block b, before row `Rows(b)`.
BlockStart(b) == b * BlockSize
PlanesBytes(b) == 16 * Rows(b) * bytesoftype

LEMMA BlockBytes ==
  ASSUME job \in Jobs, NEW b \in Nat, b <= BlockCount
  PROVE  /\ BlockStart(b) \in Nat /\ PlanesBytes(b) \in Nat /\ Rows(b) \in 0..16
         /\ BlockStart(b) + PlanesBytes(b) <= job.bytes
         /\ BlockStart(b) = (b * 256) * bytesoftype
         /\ BlockStart(b) + PlanesBytes(b) = (b * 256 + 16 * Rows(b)) * bytesoftype
         /\ b < BlockCount => /\ PlanesBytes(b) = BlockSize /\ Rows(b) = 16
                              /\ BlockStart(b + 1) = BlockStart(b) + BlockSize
         /\ b = BlockCount => PlanesBytes(b) = LineBytes /\ Rows(b) = Lines
                              /\ job.bytes = BlockStart(b) + LineBytes + Left
PROOF
<1>1. /\ bytesoftype \in Nat /\ bytesoftype > 0 /\ BlockSize \in Nat /\ BlockSize > 0
      /\ job.bytes \in Nat /\ Remaining \in Nat /\ Lines \in 0..16 /\ BlockSize = 256 * bytesoftype
  BY JobFacts DEF BlockSize
<1>2. /\ BlockCount \in Nat /\ job.bytes = BlockCount * BlockSize + Remaining
      /\ Left \in Nat /\ Remaining = LineBytes + Left /\ LineBytes \in Nat
      /\ LineBytes = 16 * Lines * bytesoftype
  BY Lengths
<1>3. BlockStart(b) \in Nat /\ BlockStart(b + 1) = BlockStart(b) + BlockSize
  BY <1>1 DEF BlockStart
<1>4. BlockStart(b) = (b * 256) * bytesoftype  BY <1>1 DEF BlockStart
<1>5. Rows(b) \in 0..16 /\ (b < BlockCount => Rows(b) = 16) /\ (b = BlockCount => Rows(b) = Lines)
  BY <1>1, <1>2 DEF Rows
<1>6. b < BlockCount => PlanesBytes(b) = BlockSize  BY <1>1, <1>5 DEF PlanesBytes
<1>7. b = BlockCount => PlanesBytes(b) = LineBytes  BY <1>2, <1>5 DEF PlanesBytes
<1>8. PlanesBytes(b) \in Nat  BY <1>1, <1>2, <1>6, <1>7
<1>9. BlockStart(b) + PlanesBytes(b) = (b * 256 + 16 * Rows(b)) * bytesoftype
  <2> DEFINE m == 16 * Rows(b)
  <2>1. m \in Nat /\ PlanesBytes(b) = m * bytesoftype  BY <1>1, <1>5 DEF PlanesBytes
  <2> HIDE DEF m
  <2>2. (b * 256) * bytesoftype + m * bytesoftype = (b * 256 + m) * bytesoftype
    BY <1>1, <2>1
  <2> QED BY <1>4, <2>1, <2>2 DEF m
<1>10. CASE b < BlockCount
  <2>1. b + 1 <= BlockCount  BY <1>2, <1>10
  <2>2. (b + 1) * BlockSize <= BlockCount * BlockSize  BY <1>1, <1>2, <2>1
  <2>3. BlockStart(b) + BlockSize <= BlockCount * BlockSize  BY <1>3, <2>2 DEF BlockStart
  <2>4. BlockCount * BlockSize \in Nat  BY <1>1, <1>2
  <2>5. BlockStart(b) + PlanesBytes(b) <= job.bytes  BY <1>1, <1>2, <1>3, <1>6, <1>10, <2>3, <2>4
  <2> QED BY <1>2, <1>3, <1>4, <1>5, <1>6, <1>8, <1>9, <1>10, <2>5
<1>11. CASE b = BlockCount
  <2>1. job.bytes = BlockStart(b) + LineBytes + Left  BY <1>1, <1>2, <1>3, <1>11 DEF BlockStart
  <2>2. BlockStart(b) + PlanesBytes(b) <= job.bytes  BY <1>2, <1>3, <1>7, <1>11, <2>1
  <2> QED BY <1>2, <1>3, <1>4, <1>5, <1>7, <1>8, <1>9, <1>11, <2>1, <2>2
<1> QED BY <1>2, <1>10, <1>11

\* Byte k of plane p is in the block, and among the bytes of the rows when k is.
LEMMA OffsetInBlock ==
  ASSUME job \in Jobs, NEW b \in Nat, b <= BlockCount, NEW p \in 0..(bytesoftype - 1),
         NEW k \in Nat, k < 16 * Rows(b)
  PROVE  /\ Offset(b, p, k) \in 0..(job.bytes - 1)
         /\ Offset(b, p, k) < BlockStart(b) + PlanesBytes(b)
         /\ Offset(b, p, k) >= BlockStart(b)
         /\ (Offset(b, p, k) - p) \div bytesoftype - b * 256 = k
PROOF
<1>1. bytesoftype \in Nat /\ bytesoftype > 0 /\ job.bytes \in Nat  BY JobFacts
<1>2. /\ BlockStart(b) \in Nat /\ PlanesBytes(b) \in Nat /\ Rows(b) \in 0..16
      /\ BlockStart(b) + PlanesBytes(b) <= job.bytes
      /\ BlockStart(b) = (b * 256) * bytesoftype
      /\ BlockStart(b) + PlanesBytes(b) = (b * 256 + 16 * Rows(b)) * bytesoftype
  BY BlockBytes
<1> DEFINE x == b * 256 + k
           y == b * 256 + 16 * Rows(b)
<1>3. x \in Nat /\ y \in Nat /\ x < y  BY <1>2
<1>4. Offset(b, p, k) = x * bytesoftype + p  BY DEF Offset
<1>5. b * 256 \in Nat /\ b * 256 <= x /\ x - b * 256 = k  OBVIOUS
<1> HIDE DEF x, y
<1>6. x * bytesoftype + p \in Nat /\ x * bytesoftype + p < y * bytesoftype /\ x * bytesoftype \in Nat
  BY <1>1, <1>3, ByteOfElement
<1>7. (b * 256) * bytesoftype <= x * bytesoftype  BY <1>1, <1>3, <1>5
<1>8. (x * bytesoftype + p) - p = x * bytesoftype  BY <1>6
<1>9. (x * bytesoftype) \div bytesoftype = x  BY <1>1, <1>3, Quotients
<1>10. y * bytesoftype = BlockStart(b) + PlanesBytes(b)  BY <1>2 DEF y
<1>11. /\ Offset(b, p, k) \in Nat /\ Offset(b, p, k) < BlockStart(b) + PlanesBytes(b)
       /\ Offset(b, p, k) >= BlockStart(b)
  BY <1>2, <1>4, <1>6, <1>7, <1>10
<1>12. (Offset(b, p, k) - p) \div bytesoftype - b * 256 = k  BY <1>4, <1>5, <1>8, <1>9
<1> QED BY <1>1, <1>2, <1>11, <1>12

\* Every byte of the rows is byte k of plane p, for some p and k.
LEMMA BlockIsCovered ==
  ASSUME job \in Jobs, NEW b \in Nat, b <= BlockCount,
         NEW o \in Nat, BlockStart(b) <= o, o < BlockStart(b) + PlanesBytes(b)
  PROVE  \E p \in 0..(bytesoftype - 1), k \in 0..(16 * Rows(b) - 1) : o = Offset(b, p, k)
PROOF
<1>1. bytesoftype \in Nat /\ bytesoftype > 0  BY JobFacts
<1>2. /\ Rows(b) \in 0..16 /\ BlockStart(b) = (b * 256) * bytesoftype
      /\ BlockStart(b) + PlanesBytes(b) = (b * 256 + 16 * Rows(b)) * bytesoftype
  BY BlockBytes
<1> DEFINE x == b * 256
           y == b * 256 + 16 * Rows(b)
           p == o % bytesoftype
           q == o \div bytesoftype
<1>3. x \in Nat /\ y \in Nat  BY <1>2
<1>4. x * bytesoftype <= o /\ o < y * bytesoftype  BY <1>2
<1> HIDE DEF x, y
<1>5. /\ p \in 0..(bytesoftype - 1) /\ q \in Nat
      /\ o = q * bytesoftype + p /\ x <= q /\ q < y
  BY <1>1, <1>3, <1>4, ElementOfByte
<1> HIDE DEF p, q
<1> DEFINE k == q - x
<1>6. k \in 0..(16 * Rows(b) - 1) /\ b * 256 + k = q  BY <1>2, <1>3, <1>5 DEF x, y
<1> HIDE DEF k
<1>7. o = Offset(b, p, k)  BY <1>5, <1>6 DEF Offset
<1> QED BY <1>5, <1>6, <1>7

\* A plane of the rows of a block holds the bytes of the input.
LEMMA PlaneHoldsInput ==
  ASSUME job \in Jobs, NEW b \in Nat, b <= BlockCount, NEW p \in 0..(bytesoftype - 1),
         NEW k \in 0..(16 * Rows(b) - 1)
  PROVE  k \in 0..255 /\ PlaneOf(b, p)[k] = job.source[Offset(b, p, k)]
PROOF
<1>1. Rows(b) \in 0..16  BY BlockBytes
<1>2. k \in Nat /\ k \in 0..255 /\ k < 16 * Rows(b)  BY <1>1
<1>3. Offset(b, p, k) \in 0..(job.bytes - 1)  BY <1>2, OffsetInBlock
<1>4. job.bytes \in Nat  BY JobFacts
<1>5. Offset(b, p, k) < job.bytes  BY <1>3, <1>4
<1>6. PlaneOf(b, p)[k] = job.source[IF Offset(b, p, k) < job.bytes THEN Offset(b, p, k)
                                    ELSE job.bytes - 1]
  BY <1>2 DEF PlaneOf
<1> QED BY <1>2, <1>5, <1>6

-----------------------------------------------------------------------------
(* What the decoder makes of a plane *)

LEMMA TotalOfOne ==
  ASSUME NEW r \in Cells, NEW v \in Nat
  PROVE  Total([c \in Cells |-> IF c = r THEN v ELSE 0]) = v
PROOF
<1> DEFINE f == [c \in Cells |-> IF c = r THEN v ELSE 0]
<1>1. \A c \in 0..15 : f[c] = IF c = r THEN v ELSE 0  BY DEF Cells
<1>2. r \in 0..15  BY DEF Cells
<1> HIDE DEF f
<1>3. Total(f) = v  BY <1>1, <1>2 DEF Total
<1> QED BY <1>3 DEF f

LEMMA TotalOfFirsts ==
  ASSUME NEW rows \in 0..16
  PROVE  Total([c \in Cells |-> IF c < rows THEN 1 ELSE 0]) = rows
PROOF
<1> DEFINE f == [c \in Cells |-> IF c < rows THEN 1 ELSE 0]
<1>1. \A c \in 0..15 : f[c] = IF c < rows THEN 1 ELSE 0  BY DEF Cells
<1> HIDE DEF f
<1>2. Total(f) = rows  BY <1>1 DEF Total
<1> QED BY <1>2 DEF f

\* The rows follow each other.
LEMMA RowAfterRow ==
  ASSUME NEW enc, NEW rows \in 0..16, enc.rows = rows,
         \A r \in 0..(rows - 1) : LineSize(enc.headers[r], enc.bodies[r]) \in Nat
  PROVE  /\ RowSizes(enc, 0..(0 - 1)) = 0
         /\ RowSizes(enc, 0..(rows - 1)) = RowSizes(enc, Cells)
         /\ \A r \in 0..rows : /\ RowSizes(enc, 0..(r - 1)) \in Nat
                               /\ RowSizes(enc, 0..(r - 1)) <= RowSizes(enc, Cells)
         /\ \A r \in 0..(rows - 1) :
              RowSizes(enc, 0..r) = RowSizes(enc, 0..(r - 1)) + LineSize(enc.headers[r], enc.bodies[r])
PROOF
<1> DEFINE L(r) == LineSize(enc.headers[r], enc.bodies[r])
           F(S) == [r \in Cells |-> IF r < rows /\ r \in S THEN L(r) ELSE 0]
<1>1. \A S : RowSizes(enc, S) = Total(F(S))  BY DEF RowSizes
<1>2. \A r \in Cells : r < rows => L(r) \in Nat  BY DEF Cells
<1> HIDE DEF L
<1>3. RowSizes(enc, 0..(0 - 1)) = 0
  <2> DEFINE f == F(0..(0 - 1))
  <2>1. \A c \in 0..15 : f[c] = 0  BY DEF Cells
  <2> HIDE DEF f
  <2>2. Total(f) = 0  BY <2>1 DEF Total
  <2> QED BY <1>1, <2>2 DEF f
<1>4. RowSizes(enc, 0..(rows - 1)) = RowSizes(enc, Cells)
  <2>1. \A r \in Cells : (r < rows /\ r \in 0..(rows - 1)) <=> (r < rows /\ r \in Cells)
    BY DEF Cells
  <2>2. F(0..(rows - 1)) = F(Cells)  BY <2>1
  <2> QED BY <1>1, <2>2
<1>5. ASSUME NEW r \in 0..rows
      PROVE  RowSizes(enc, 0..(r - 1)) \in Nat /\ RowSizes(enc, 0..(r - 1)) <= RowSizes(enc, Cells)
  <2> DEFINE f == F(0..(r - 1))
             g == F(Cells)
  <2>1. \A c \in Cells : f[c] \in Nat /\ g[c] \in Nat /\ f[c] <= g[c]  BY <1>2
  <2> HIDE DEF f, g
  <2>2. Total(f) \in Nat /\ Total(g) \in Nat /\ Total(f) <= Total(g)  BY <2>1, TotalOfSmaller
  <2> QED BY <1>1, <2>2 DEF f, g
<1>6. ASSUME NEW r \in 0..(rows - 1)
      PROVE  RowSizes(enc, 0..r) = RowSizes(enc, 0..(r - 1)) + L(r)
  <2> DEFINE f == F(0..r)
             g == F(0..(r - 1))
             h == [c \in Cells |-> IF c = r THEN L(r) ELSE 0]
  <2>1. r \in Cells /\ L(r) \in Nat  BY <1>2 DEF Cells
  <2>2. \A c \in Cells : f[c] \in Int /\ g[c] \in Int /\ h[c] \in Int /\ f[c] = g[c] + h[c]
    <3>1. ASSUME NEW c \in Cells
          PROVE  f[c] \in Int /\ g[c] \in Int /\ h[c] \in Int /\ f[c] = g[c] + h[c]
      <4>1. CASE c < r
        <5>1. c < rows /\ c \in 0..r /\ c \in 0..(r - 1) /\ c # r  BY <4>1 DEF Cells
        <5>2. f[c] = L(c) /\ g[c] = L(c) /\ h[c] = 0  BY <5>1
        <5> QED BY <1>2, <5>1, <5>2
      <4>2. CASE c = r
        <5>1. c < rows /\ c \in 0..r /\ c \notin 0..(r - 1)  BY <4>2 DEF Cells
        <5>2. f[c] = L(c) /\ g[c] = 0 /\ h[c] = L(c)  BY <4>2, <5>1
        <5> QED BY <1>2, <5>1, <5>2
      <4>3. CASE c > r
        <5>1. c \notin 0..r /\ c \notin 0..(r - 1) /\ c # r  BY <4>3 DEF Cells
        <5>2. f[c] = 0 /\ g[c] = 0 /\ h[c] = 0  BY <5>1
        <5> QED BY <5>2
      <4> QED BY <4>1, <4>2, <4>3 DEF Cells
    <3> QED BY <3>1
  <2>3. Total(h) = L(r)  BY <2>1, TotalOfOne
  <2> HIDE DEF f, g, h
  <2>4. Total(f) = Total(g) + Total(h)  BY <2>2, TotalOfSums
  <2> QED BY <1>1, <2>3, <2>4 DEF f, g
<1> QED BY <1>3, <1>4, <1>5, <1>6 DEF L

\* The minimum that the decoder has for row r.
MinOf(enc, r) ==
  IF enc.type = "normal_rle" THEN Spread(enc.mins, 0)[r]
  ELSE IF r \in DOMAIN enc.mins THEN enc.mins[r] ELSE 0

\* The minimum of a row that needs none is not used.
LEMMA MinIsUnused ==
  ASSUME NEW h, HasNoMin(h), NEW body, NEW prev, NEW min, NEW other
  PROVE  DecodeLine(h, min, body, prev) = DecodeLine(h, other, body, prev)
PROOF
<1>1. h \in {6, 7, 15}  BY DEF HasNoMin
<1> DEFINE D(m) == DecodeLine(h, m, body, prev)
<1>2. \A m : /\ h = 15 => D(m) = body
             /\ h = 7 => D(m) = Spread(body, prev)
             /\ h = 6 => D(m) = CopyLeft(Spread(body, 0), prev, 0)
  BY DecodeCases
<1> HIDE DEF D
<1>3. D(min) = D(other)  BY <1>1, <1>2
<1> QED BY <1>3 DEF D

LEMMA MinsAreBytes ==
  ASSUME NEW values \in RowValues, NEW prev \in Byte, NEW rle \in BOOLEAN
  PROVE  LinePlan(values, prev, rle).min \in Byte
PROOF
<1> DEFINE deltas == Deltas(values, prev)
           b0 == PlainBits(BitScan(Width(values)))
           b1 == BitScan(Width(deltas))
           packed == PackedLine(values, deltas, b0, b1)
<1>1. Lowest(values) \in Byte /\ Lowest(deltas) \in Byte
  BY DeltasAreBytes, Extremes
<1>2. \E h, m, z : packed = [header |-> h, min |-> m, size |-> z] /\ m \in Byte
  BY <1>1 DEF PackedLine
<1>3. LinePlan(values, prev, rle) = packed
      \/ LinePlan(values, prev, rle) = ShorterRuns(packed, RunSize(Kept(values, prev)), RunSize(Kept(deltas, 0)))
  BY DEF LinePlan
<1> HIDE DEF packed
<1>4. \A a, b : ShorterRuns(packed, a, b).min = packed.min
  <2>1. PICK h, m, z : packed = [header |-> h, min |-> m, size |-> z]  BY <1>2
  <2>2. ASSUME NEW a, NEW b PROVE ShorterRuns(packed, a, b).min = packed.min
    <3>1. [packed EXCEPT !.header = 6, !.size = b].min = packed.min  BY <2>1
    <3>2. [packed EXCEPT !.header = 7, !.size = a].min = packed.min  BY <2>1
    <3> QED BY <3>1, <3>2 DEF ShorterRuns
  <2> QED BY <2>2
<1>5. packed.min \in Byte  BY <1>2
<1> QED BY <1>3, <1>4, <1>5

\* The decoder has the minimum of every row that needs one.
LEMMA MinIsRead ==
  ASSUME NEW plane \in PlaneValues, NEW rle \in BOOLEAN, NEW rows \in 0..16, NEW at,
         rle => rows = 16, NEW r \in 0..(rows - 1)
  PROVE  LET enc == EncodedPlane(PlanePlan(plane, rle), plane, rows, at)
             lines == LinesOf(plane, rle)
         IN  ~HasNoMin(lines[r].header) => MinOf(enc, r) = lines[r].min
PROOF
<1> DEFINE plan == PlanePlan(plane, rle)
           lines == LinesOf(plane, rle)
           enc == EncodedPlane(plan, plane, rows, at)
           mins == MinsOf(lines)
<1>1. plan.lines = lines /\ (plan.type = "normal_rle" => rle)  BY PlanFields
<1>2. r \in Cells  BY DEF Cells
<1>3. mins \in RowValues
  <2>1. ASSUME NEW c \in Cells PROVE lines[c].min \in Byte
    <3>1. lines[c] = LinePlan(RowOf(plane, c), Before(plane, c), rle)  BY DEF LinesOf
    <3> QED BY <3>1, RowsOfPlane, MinsAreBytes
  <2> QED BY <2>1 DEF MinsOf, RowValues
<1>4. mins[r] = lines[r].min  BY <1>2 DEF MinsOf
<1> HIDE DEF plan, lines, mins
<1>5. /\ enc.type = plan.type
      /\ enc.mins = [c \in {c \in DOMAIN PlaneMins(plan) : c < rows} |-> PlaneMins(plan)[c]]
  BY DEF EncodedPlane
<1>6. PlaneMins(plan) = IF plan.type = "normal_rle" THEN [c \in Kept(mins, 0) |-> mins[c]]
                        ELSE [c \in WithMin(lines) |-> mins[c]]
  BY <1>1 DEF PlaneMins, mins
<1> HIDE DEF enc
<1>7. CASE plan.type = "normal_rle"
  <2>1. rows = 16  BY <1>1, <1>7
  <2>2. {c \in Kept(mins, 0) : c < rows} = Kept(mins, 0)  BY <2>1 DEF Kept, Cells
  <2>3. enc.mins = [c \in Kept(mins, 0) |-> mins[c]]  BY <1>5, <1>6, <1>7, <2>2
  <2>4. Spread(enc.mins, 0) = mins  BY <1>3, <2>3, SpreadRestores
  <2>5. MinOf(enc, r) = mins[r]  BY <1>5, <1>7, <2>4 DEF MinOf
  <2> QED BY <1>4, <2>5 DEF enc, lines, plan
<1>8. CASE plan.type # "normal_rle"
  <2>1. ASSUME ~HasNoMin(lines[r].header) PROVE MinOf(enc, r) = lines[r].min
    <3>1. r \in WithMin(lines) /\ r < rows  BY <1>2, <2>1 DEF WithMin, Cells
    <3>2. r \in DOMAIN enc.mins /\ enc.mins[r] = mins[r]  BY <1>5, <1>6, <1>8, <3>1
    <3> QED BY <1>4, <1>5, <1>8, <3>2 DEF MinOf
  <2> QED BY <2>1 DEF enc, lines, plan
<1> QED BY <1>7, <1>8

\* A plane as the decoder finds it, row by row.
ReadsAs(enc, plane, rows) ==
  /\ PlaneSize(enc) \in Nat /\ PlaneSize(enc) > 0
  /\ enc.type \in {"raw", "same", "normal", "normal_rle"}
  /\ enc.type = "raw" => enc.values = plane /\ rows = 16 /\ PlaneSize(enc) = 256
  /\ enc.type # "raw" => enc.rows = rows
  /\ enc.type = "same" => PlaneSize(enc) = 1 /\ \A k \in 0..255 : plane[k] = enc.values[0]
  /\ enc.type \in {"normal", "normal_rle"} =>
       /\ HeadSize(enc) \in Nat
       /\ PlaneSize(enc) = HeadSize(enc) + RowSizes(enc, Cells)
       /\ enc.type = "normal_rle" => 8 + RunSize(DOMAIN enc.mins) <= PlaneSize(enc)
       /\ enc.type = "normal" => (rows + 1) \div 2 + rows <= PlaneSize(enc)
       /\ \A r \in 0..(rows - 1) :
            /\ LineSize(enc.headers[r], enc.bodies[r]) \in Nat
            /\ DecodeLine(enc.headers[r], MinOf(enc, r), enc.bodies[r], Before(plane, r))
                 = RowOf(plane, r)

\* What is written of a plane can be read.
LEMMA PlaneIsRead ==
  ASSUME NEW plane \in PlaneValues, NEW rows \in 1..16, NEW enc, enc.at \in Nat,
         PlaneGood(enc, plane, rows)
  PROVE  ReadsAs(enc, plane, rows)
PROOF
<1>1. CASE enc.type = "raw" /\ enc.values = plane /\ rows = 16
  BY <1>1 DEF PlaneSize, ReadsAs
<1>2. CASE \E rle \in BOOLEAN :
             (rle => rows = 16) /\ enc = EncodedPlane(PlanePlan(plane, rle), plane, rows, enc.at)
  <2>1. PICK rle \in BOOLEAN :
          (rle => rows = 16) /\ enc = EncodedPlane(PlanePlan(plane, rle), plane, rows, enc.at)
    BY <1>2
  <2> DEFINE plan == PlanePlan(plane, rle)
             lines == LinesOf(plane, rle)
             at == enc.at
  <2>2. rows \in 0..16 /\ at \in Int /\ at \in Nat  OBVIOUS
  <2>3. IsEncoded(EncodedPlane(plan, plane, rows, at), plan, lines, plane, rows, at)
    BY <2>2, EncodedRows
  <2>4. plan.lines = lines /\ plan.type \in {"same", "normal", "normal_rle"}  BY PlanFields
  <2>5. enc = EncodedPlane(plan, plane, rows, at)  BY <2>1
  <2>6. PICK head : head \in Nat /\ head = HeadSize(enc)
                    /\ (enc.type # "normal_rle" =>
                          head = (rows + 1) \div 2 + Count({r \in WithMin(lines) : r < rows}))
    <3> DEFINE made == EncodedPlane(plan, plane, rows, at)
    <3>1. /\ HeadSize(made) \in Nat
          /\ made.type # "normal_rle" =>
               HeadSize(made) = (rows + 1) \div 2 + Count({r \in WithMin(lines) : r < rows})
      BY <2>2, HeadBounds
    <3> HIDE DEF made, plan, lines
    <3>2. enc = made  BY <2>5 DEF made
    <3> QED BY <3>1, <3>2
  <2>7. \A r \in 0..(rows - 1) : ~HasNoMin(lines[r].header) => MinOf(enc, r) = lines[r].min
    BY <2>1, <2>2, <2>5, MinIsRead
  <2>8. RowSizes(enc, Cells) \in Nat /\ RowSizes(enc, Cells) = Total(TakenOf(plane, rle, rows, Cells))
    BY <2>2, <2>5, FewerRows, SizesOfRows
  <2>9. /\ enc.values = IF plan.type = "same" THEN [k \in {0} |-> plane[0]]
                        ELSE IF plan.type = "raw" THEN plane ELSE [k \in {} |-> 0]
    BY <2>5 DEF EncodedPlane
  <2>10. plan.type = "same" => \A k \in 0..255 : plane[k] = plane[0]
    <3>1. \E z : PlaneOfLines(plane, lines, z, rle) = plan  BY DEF PlanePlan
    <3>2. PICK z : PlaneOfLines(plane, lines, z, rle) = plan  BY <3>1
    <3> DEFINE type == IF \A k \in 0..255 : plane[k] = plane[0] THEN "same"
                       ELSE IF rle /\ z.normal_rle < z.normal THEN "normal_rle" ELSE "normal"
    <3>3. plan.type = type  BY <3>2 DEF PlaneOfLines
    <3> QED BY <3>3
  <2> HIDE DEF plan, lines
  <2>11. /\ enc.type = plan.type /\ enc.rows = rows
         /\ \A r \in 0..(rows - 1) :
              r \in Cells /\ enc.headers[r] = lines[r].header /\ enc.bodies[r] = Body(lines, plane, r)
    BY <2>3, <2>5 DEF IsEncoded
  <2>12. enc.type = "same" => PlaneSize(enc) = 1 /\ \A k \in 0..255 : plane[k] = enc.values[0]
    BY <2>9, <2>10, <2>11 DEF PlaneSize
  <2>13. enc.type \in {"normal", "normal_rle"} => PlaneSize(enc) = head + RowSizes(enc, Cells)
    BY <2>6 DEF PlaneSize
  <2>14. ASSUME NEW r \in 0..(rows - 1)
         PROVE  /\ LineSize(enc.headers[r], enc.bodies[r]) \in Nat
                /\ DecodeLine(enc.headers[r], MinOf(enc, r), enc.bodies[r], Before(plane, r))
                     = RowOf(plane, r)
    <3> DEFINE line == lines[r]
               values == RowOf(plane, r)
               prev == Before(plane, r)
    <3>1. r \in Cells /\ enc.headers[r] = line.header /\ enc.bodies[r] = LineBody(line, values, prev)
      BY <2>11 DEF Body
    <3>2. values \in RowValues /\ prev \in Byte  BY <3>1, RowsOfPlane
    <3>3. line = LinePlan(values, prev, rle)  BY <3>1 DEF lines, LinesOf
    <3>4. DecodeLine(line.header, line.min, LineBody(line, values, prev), prev) = values
      BY <3>2, <3>3, LineRoundTrip
    <3>5. LineSize(enc.headers[r], enc.bodies[r]) \in Nat
      BY <3>1, <3>2, <3>3, LineBounds
    <3>6. CASE HasNoMin(line.header)
      BY <3>1, <3>4, <3>5, <3>6, MinIsUnused
    <3>7. CASE ~HasNoMin(line.header)
      <4>1. MinOf(enc, r) = line.min  BY <2>7, <3>7
      <4> QED BY <3>1, <3>4, <3>5, <4>1
    <3> QED BY <3>6, <3>7
  <2>15. enc.type = "normal" => (rows + 1) \div 2 + rows <= head + RowSizes(enc, Cells)
    <3> DEFINE firsts == {r \in WithMin(lines) : r < rows}
               one == [c \in Cells |-> IF c < rows THEN 1 ELSE 0]
               min == [c \in Cells |-> IF c \in firsts THEN 1 ELSE 0]
               taken == TakenOf(plane, rle, rows, Cells)
               both == [c \in Cells |-> min[c] + taken[c]]
    <3>1. \A c \in Cells : Taken(lines, plane, c) \in Nat /\ (HasNoMin(lines[c].header) => Taken(lines, plane, c) > 0)
      <4>1. ASSUME NEW c \in Cells PROVE Taken(lines, plane, c) \in Nat  BY RowsArePlanned DEF lines
      <4>2. ASSUME NEW c \in Cells, HasNoMin(lines[c].header) PROVE Taken(lines, plane, c) > 0
        <5>1. lines[c].header \in {6, 7} \/ lines[c].header = 15  BY <4>2 DEF HasNoMin
        <5>2. \A S : RunSize(S) > 0  BY CountBounds DEF RunSize
        <5> QED BY <5>1, <5>2 DEF Taken, LineSize
      <4> QED BY <4>1, <4>2
    <3>2. \A c \in Cells : taken[c] = IF c < rows THEN Taken(lines, plane, c) ELSE 0
      BY DEF TakenOf, lines
    <3>3. \A c \in Cells : c \in firsts <=> c < rows /\ ~HasNoMin(lines[c].header)
      BY DEF WithMin
    <3>4. Total(min) = Count(firsts)  BY DEF Count
    <3>5. Total(one) = rows  BY <2>2, TotalOfFirsts
    <3>6. Total(taken) = RowSizes(enc, Cells)  BY <2>8
    <3> HIDE DEF firsts, taken
    <3>7. \A c \in Cells : /\ one[c] \in Nat /\ min[c] \in Nat /\ taken[c] \in Nat
                           /\ both[c] \in Nat /\ both[c] = min[c] + taken[c] /\ one[c] <= both[c]
      BY <3>1, <3>2, <3>3
    <3> HIDE DEF one, min, both
    <3>8. Total(both) = Total(min) + Total(taken)  BY <3>7, TotalOfSums
    <3>9. Total(one) <= Total(both)  BY <3>7, TotalOfSmaller
    <3>10. enc.type = "normal" => head = (rows + 1) \div 2 + Count(firsts)  BY <2>6 DEF firsts
    <3>11. Count(firsts) \in Nat /\ (rows + 1) \div 2 \in Nat  BY CountBounds
    <3> QED BY <2>8, <3>4, <3>5, <3>6, <3>8, <3>9, <3>10, <3>11
  <2>16. enc.type = "normal_rle" => 8 + RunSize(DOMAIN enc.mins) <= head + RowSizes(enc, Cells)
    BY <2>6, <2>8 DEF HeadSize
  <2>17. PlaneSize(enc) \in Nat /\ PlaneSize(enc) > 0
    <3>1. CASE enc.type = "same"  BY <2>12, <3>1
    <3>2. CASE enc.type = "normal"
      <4>1. (rows + 1) \div 2 > 0  OBVIOUS
      <4>2. PlaneSize(enc) = head + RowSizes(enc, Cells)  BY <2>13, <3>2
      <4>3. (rows + 1) \div 2 + rows <= PlaneSize(enc)  BY <2>15, <3>2, <4>2
      <4> QED BY <2>6, <2>8, <4>2, <4>3
    <3>3. CASE enc.type = "normal_rle"
      <4>1. PlaneSize(enc) = head + RowSizes(enc, Cells)  BY <2>13, <3>3
      <4>2. RunSize(DOMAIN enc.mins) \in Nat  BY CountBounds DEF RunSize
      <4> QED BY <2>6, <2>8, <2>16, <3>3, <4>1, <4>2
    <3> QED BY <2>4, <2>11, <3>1, <3>2, <3>3
  <2> QED BY <2>4, <2>6, <2>11, <2>12, <2>13, <2>14, <2>15, <2>16, <2>17 DEF ReadsAs
<1> QED BY <1>1, <1>2 DEF PlaneGood

-----------------------------------------------------------------------------
(* The groups of an LZ block *)

LEMMA ElementSizes ==
  ASSUME job \in Jobs, bytesoftype % 4 = 0
  PROVE  /\ ElementSize \in {4, 8} /\ ElementCount \in Nat /\ ElementCount > 0
         /\ ElementCount * ElementSize = BlockSize /\ ElementCount % 8 = 0
         /\ ElementCount >= 32 * bytesoftype
         /\ bytesoftype <= 512 => ElementCount <= 32768
PROOF
<1>1. bytesoftype \in Nat /\ bytesoftype > 0 /\ BlockSize = 256 * bytesoftype
  BY JobFacts DEF BlockSize
<1>2. CASE bytesoftype % 8 = 0
  <2>1. ElementSize = 8 /\ ElementCount = BlockSize \div 8  BY <1>2 DEF ElementSize, ElementCount, Width8
  <2>2. ElementCount = 32 * bytesoftype  BY <1>1, <2>1
  <2>3. bytesoftype <= 512 => ElementCount <= 16384
    BY <1>1, <2>2
  <2> QED BY <1>1, <2>1, <2>2, <2>3
<1>3. CASE bytesoftype % 8 # 0
  <2>1. ElementSize = 4 /\ ElementCount = BlockSize \div 4  BY <1>3 DEF ElementSize, ElementCount, Width8
  <2>2. ElementCount = 64 * bytesoftype  BY <1>1, <2>1
  <2>3. bytesoftype <= 512 => bytesoftype # 512
    BY <1>1, <1>3
  <2> QED BY <1>1, <2>1, <2>2
<1> QED BY <1>2, <1>3

\* A distance of 15 bits survives.
LEMMA DistanceIsWritten ==
  ASSUME NEW d \in Nat, d < 32768
  PROVE  Written15(d) = d
PROOF
<1>1. d \div 128 \in 0..255  OBVIOUS
<1>2. (d \div 128) % 256 = d \div 128  BY <1>1
<1>3. (d % 128) + 128 * (d \div 128) = d  OBVIOUS
<1> QED BY <1>2, <1>3 DEF Written15

LEMMA DistanceBack ==
  ASSUME NEW x \in Nat, NEW p \in Nat, x < p, p < 32768
  PROVE  Written15(p - x) \in 1..p /\ p - Written15(p - x) = x
PROOF
<1>1. PICK d \in Nat : d = p - x /\ d < 32768 /\ d \in 1..p /\ p - d = x  OBVIOUS
<1>2. Written15(d) = d  BY <1>1, DistanceIsWritten
<1> QED BY <1>1, <1>2

\* The elements are words of bytes.
LEMMA ElementsAreBytes ==
  ASSUME job \in Jobs, bytesoftype % 4 = 0, NEW b \in Nat, b < BlockCount,
         NEW e \in 0..(ElementCount - 1)
  PROVE  /\ DOMAIN Elements(b)[e] = 0..(ElementSize - 1)
         /\ \A k \in 0..(ElementSize - 1) :
              /\ Elements(b)[e][k] = job.source[b * BlockSize + e * ElementSize + k]
              /\ Elements(b)[e][k] \in Byte
              /\ b * BlockSize + e * ElementSize + k < b * BlockSize + BlockSize
PROOF
<1>1. /\ ElementSize \in {4, 8} /\ ElementCount \in Nat /\ ElementCount * ElementSize = BlockSize
  BY ElementSizes
<1>2. Elements(b)[e] = [k \in 0..(ElementSize - 1) |-> job.source[b * BlockSize + e * ElementSize + k]]
  BY DEF Elements
<1>3. BlockSize \in Nat /\ job.bytes \in Nat /\ job.source \in [0..(job.bytes - 1) -> Byte]
  BY JobFacts
<1>4. BlockStart(b) \in Nat /\ BlockStart(b) + BlockSize <= job.bytes
  <2>1. b <= BlockCount  BY Lengths
  <2> QED BY <2>1, BlockBytes
<1>5. ASSUME NEW k \in 0..(ElementSize - 1)
      PROVE  /\ Elements(b)[e][k] = job.source[b * BlockSize + e * ElementSize + k]
             /\ Elements(b)[e][k] \in Byte
             /\ b * BlockSize + e * ElementSize + k < b * BlockSize + BlockSize
  <2>1. e * ElementSize + k \in Nat /\ e * ElementSize + k < ElementCount * ElementSize
    <3>1. ElementSize \in Nat /\ ElementSize > 0 /\ e \in Nat /\ e < ElementCount  BY <1>1
    <3> QED BY <1>1, <3>1, ByteOfElement
  <2>2. b * BlockSize + e * ElementSize + k < b * BlockSize + BlockSize
        /\ b * BlockSize + e * ElementSize + k \in Nat
    <3> DEFINE x == b * BlockSize
               y == e * ElementSize
    <3>1. x \in Nat /\ y \in Nat  BY <1>1, <1>4 DEF BlockStart
    <3>2. y + k < BlockSize  BY <1>1, <2>1
    <3> HIDE DEF x, y
    <3>3. x + y + k < x + BlockSize /\ x + y + k \in Nat  BY <1>1, <1>3, <3>1, <3>2
    <3> QED BY <3>3 DEF x, y
  <2> DEFINE o == b * BlockSize + e * ElementSize + k
  <2>3. o \in 0..(job.bytes - 1)
    <3>1. o \in Nat /\ o < BlockStart(b) + BlockSize  BY <2>2 DEF BlockStart
    <3> HIDE DEF o
    <3> QED BY <1>3, <1>4, <3>1
  <2>4. Elements(b)[e][k] = job.source[o]  BY <1>2
  <2> HIDE DEF o
  <2>5. job.source[o] \in Byte  BY <1>3, <2>3
  <2> QED BY <2>2, <2>4, <2>5 DEF o
<1> QED BY <1>2, <1>5

\* The hash of a word of 4 or 8 bytes.
LEMMA HashOfWord ==
  ASSUME NEW w, NEW s \in {4, 8}, DOMAIN w = 0..(s - 1), \A k \in 0..(s - 1) : w[k] \in Byte
  PROVE  Hash(w) \in Hashes
PROOF
<1>1. \A x \in Int : x % 256 \in Hashes  BY DEF Hashes
<1>2. PICK w0 \in Int : w0 = w[0]
  <2>1. 0 \in 0..(s - 1)  OBVIOUS
  <2> QED BY <2>1 DEF Byte
<1>3. CASE s = 4
  <2>1. 7 \notin DOMAIN w  BY <1>3
  <2>2. Hash(w) = (177 * w0) % 256  BY <1>2, <2>1 DEF Hash, Hash4
  <2> QED BY <1>1, <2>2
<1>4. CASE s = 8
  <2>1. 7 \in DOMAIN w /\ \A k \in 0..7 : w[k] \in Int  BY <1>4 DEF Byte
  <2>2. PICK w1 \in Int, w2 \in Int, w3 \in Int, w4 \in Int, w5 \in Int, w6 \in Int, w7 \in Int :
          /\ w1 = w[1] /\ w2 = w[2] /\ w3 = w[3] /\ w4 = w[4]
          /\ w5 = w[5] /\ w6 = w[6] /\ w7 = w[7]
    <3>1. /\ w[1] \in Int /\ w[2] \in Int /\ w[3] \in Int /\ w[4] \in Int
          /\ w[5] \in Int /\ w[6] \in Int /\ w[7] \in Int
      BY <2>1
    <3> QED BY <3>1, Zenon
  <2> DEFINE t0 == 149 * w0
             t1 == 233 * w0 + 149 * w1 + (t0 \div 256)
             t2 == 209 * w0 + 233 * w1 + 149 * w2 + (t1 \div 256)
             t3 == 91 * w0 + 209 * w1 + 233 * w2 + 149 * w3 + (t2 \div 256)
             t4 == 147 * w0 + 91 * w1 + 209 * w2 + 233 * w3 + 149 * w4 + (t3 \div 256)
             t5 == 167 * w0 + 147 * w1 + 91 * w2 + 209 * w3 + 233 * w4 + 149 * w5
                   + (t4 \div 256)
             t6 == 164 * w0 + 167 * w1 + 147 * w2 + 91 * w3 + 209 * w4 + 233 * w5 + 149 * w6
                   + (t5 \div 256)
             t7 == 198 * w0 + 164 * w1 + 167 * w2 + 147 * w3 + 91 * w4 + 209 * w5 + 233 * w6
                   + 149 * w7 + (t6 \div 256)
  <2>3. Hash(w) = t7 % 256  BY <1>2, <2>1, <2>2 DEF Hash, Hash8
  <2>4. \A x \in Int : x \div 256 \in Int  OBVIOUS
  <2>5. t0 \in Int  OBVIOUS
  <2> HIDE DEF t0
  <2>6. t1 \in Int  BY <2>4, <2>5
  <2> HIDE DEF t1
  <2>7. t2 \in Int  BY <2>4, <2>6
  <2> HIDE DEF t2
  <2>8. t3 \in Int  BY <2>4, <2>7
  <2> HIDE DEF t3
  <2>9. t4 \in Int  BY <2>4, <2>8
  <2> HIDE DEF t4
  <2>10. t5 \in Int  BY <2>4, <2>9
  <2> HIDE DEF t5
  <2>11. t6 \in Int  BY <2>4, <2>10
  <2> HIDE DEF t6
  <2>12. t7 \in Int  BY <2>4, <2>11
  <2> HIDE DEF t7
  <2> QED BY <1>1, <2>3, <2>12
<1> QED BY <1>3, <1>4

LEMMA LastOfSome ==
  ASSUME NEW S \in SUBSET Places, S # {}
  PROVE  Last(S) \in S
PROOF
<1>1. S \in SUBSET Cells  BY DEF Places, Cells
<1>2. \E m \in S : \A k \in S : k <= m  BY <1>1, GreatestCell
<1> QED BY <1>2 DEF Last

\* What the table and the group propose is a position.
LEMMA CandidateIsPosition ==
  ASSUME NEW el, NEW table \in [Hashes -> Nat], NEW e \in Nat, NEW j \in Places,
         \A m \in Places : Hash(el[e + m]) \in Hashes
  PROVE  Candidate(el, table, e, j) \in Nat
PROOF
<1> DEFINE same == {m \in 0..(j - 1) : Hash(el[e + m]) = Hash(el[e + j])}
<1>1. same \in SUBSET Places  BY DEF Places
<1>2. Candidate(el, table, e, j) = IF same = {} THEN table[Hash(el[e + j])] ELSE e + Last(same)
  BY DEF Candidate
<1> HIDE DEF same
<1>3. CASE same = {}  BY <1>2, <1>3
<1>4. CASE same # {}
  <2>1. Last(same) \in Places  BY <1>1, <1>4, LastOfSome
  <2> QED BY <1>2, <1>4, <2>1 DEF Places
<1> QED BY <1>3, <1>4

LEMMA TableAfterGroup ==
  ASSUME NEW el, NEW table \in [Hashes -> Nat], NEW e \in Nat
  PROVE  NextTable(el, table, e) \in [Hashes -> Nat]
PROOF
<1> DEFINE met == {Hash(el[e + m]) : m \in Places}
           of(h) == {m \in Places : Hash(el[e + m]) = h}
<1>1. NextTable(el, table, e)
        = [h \in Hashes |-> IF h \in met THEN (e + Last(of(h))) % 65536 ELSE table[h]]
  BY DEF NextTable
<1>2. ASSUME NEW h \in Hashes
      PROVE  (IF h \in met THEN (e + Last(of(h))) % 65536 ELSE table[h]) \in Nat
  <2>1. CASE h \in met
    <3>1. of(h) # {} /\ of(h) \in SUBSET Places  BY <2>1
    <3>2. Last(of(h)) \in Places  BY <3>1, LastOfSome
    <3>3. e + Last(of(h)) \in Nat  BY <3>2 DEF Places
    <3> HIDE DEF of, met
    <3>4. (e + Last(of(h))) % 65536 \in Nat  BY <3>3
    <3> QED BY <2>1, <3>4
  <2>2. CASE h \notin met  BY <2>2
  <2> QED BY <2>1, <2>2
<1> QED BY <1>1, <1>2

\* A group that is written gives the elements it was made of.
LEMMA GroupsAreGood ==
  ASSUME job \in Jobs, bytesoftype % 4 = 0, bytesoftype <= 512, NEW b \in Nat, b < BlockCount,
         NEW table \in [Hashes -> Nat], NEW e \in Nat, e % 8 = 0, e < ElementCount
  PROVE  /\ e + 8 <= ElementCount
         /\ GroupGood(MatchGroup(Elements(b), table, e), b, e)
         /\ GroupGood(RawGroup(Elements(b), e), b, e)
PROOF
<1> DEFINE el == Elements(b)
           matches == Matches(el, table, e)
           c(j) == Candidate(el, table, e, j)
           D(j) == Written15(e + j - c(j))
           group == MatchGroup(el, table, e)
           raw == RawGroup(el, e)
<1>1. /\ ElementSize \in {4, 8} /\ ElementCount \in Nat /\ ElementCount <= 32768
      /\ ElementCount % 8 = 0
  BY ElementSizes
<1>2. e + 8 <= ElementCount  BY <1>1
<1>3. ASSUME NEW m \in Places PROVE Hash(el[e + m]) \in Hashes /\ e + m \in 0..(ElementCount - 1)
  <2>1. e + m \in 0..(ElementCount - 1)  BY <1>1, <1>2 DEF Places
  <2> DEFINE w == el[e + m]
  <2>2. DOMAIN w = 0..(ElementSize - 1) /\ \A k \in 0..(ElementSize - 1) : w[k] \in Byte
    BY <2>1, ElementsAreBytes
  <2> HIDE DEF w
  <2>3. ElementSize \in {4, 8}  BY <1>1
  <2>4. Hash(w) \in Hashes  BY <2>2, <2>3, HashOfWord, Zenon
  <2> QED BY <2>1, <2>4 DEF w
<1>4. ASSUME NEW j \in Places PROVE c(j) \in Nat  BY <1>3, CandidateIsPosition
<1>5. /\ matches = {j \in Places : c(j) < e + j /\ el[c(j)] = el[e + j]}
      /\ group = [diffs  |-> [j \in matches |-> D(j)],
                  values |-> [j \in Places \ matches |-> el[e + j]]]
  BY DEF Matches, MatchGroup
<1>6. raw = [diffs |-> [j \in {} |-> 0], values |-> [j \in Places |-> el[e + j]]]
  BY DEF RawGroup
<1> HIDE DEF el, matches, D, c, group, raw
<1>7. GroupGood(group, b, e)
  <2>1. ASSUME NEW j \in Places
        PROVE  IF j \in DOMAIN group.diffs
               THEN /\ group.diffs[j] \in 1..(e + j)
                    /\ el[e + j - group.diffs[j]] = el[e + j]
               ELSE group.values[j] = el[e + j]
    <3>1. CASE j \in matches
      <4> DEFINE p == e + j
                 x == c(j)
      <4>1. x \in Nat /\ x < p /\ el[x] = el[p]  BY <1>4, <1>5, <3>1
      <4>2. p \in Nat /\ p < 32768  BY <1>1, <1>2 DEF Places
      <4>3. group.diffs[j] = Written15(p - x) /\ j \in DOMAIN group.diffs
        <5>1. group.diffs[j] = D(j) /\ j \in DOMAIN group.diffs  BY <1>5, <3>1
        <5>2. \A y \in Nat : e + j - y = (e + j) - y  BY DEF Places
        <5>3. e + j - c(j) = p - x  BY <4>1, <5>2
        <5> QED BY <5>1, <5>3 DEF D
      <4> HIDE DEF p, x
      <4>4. Written15(p - x) \in 1..p /\ p - Written15(p - x) = x
        BY <4>1, <4>2, DistanceBack
      <4>5. group.diffs[j] \in 1..p /\ el[p - group.diffs[j]] = el[p]
        BY <4>1, <4>3, <4>4
      <4>6. group.diffs[j] \in 1..(e + j) /\ el[e + j - group.diffs[j]] = el[e + j]
        <5>1. \A y \in 1..p : e + j - y = p - y  BY <4>2 DEF Places, p
        <5>2. e + j - group.diffs[j] = p - group.diffs[j]  BY <4>5, <5>1
        <5> QED BY <4>5, <5>2 DEF p
      <4> QED BY <4>3, <4>6
    <3>2. CASE j \notin matches  BY <1>5, <3>2
    <3> QED BY <3>1, <3>2
  <2> QED BY <2>1 DEF GroupGood, el
<1>8. GroupGood(raw, b, e)  BY <1>6 DEF GroupGood, el
<1> QED BY <1>2, <1>7, <1>8 DEF el, group, raw

\* What the elements of a group take, one after the other.
LEMMA GroupInPlaces ==
  ASSUME NEW group, NEW width \in {4, 8}
  PROVE  /\ GroupUpto(group, 0, width) = 0
         /\ \A j \in Places :
              /\ GroupUpto(group, j, width) \in Nat /\ PlaceSize(group, j, width) \in Nat
              /\ GroupUpto(group, j, width) + (IF j = 0 THEN 1 ELSE 0) + PlaceSize(group, j, width)
                   = GroupUpto(group, j + 1, width)
              /\ GroupUpto(group, j + 1, width) <= GroupSize(group, width)
         /\ GroupUpto(group, 8, width) = GroupSize(group, width)
         /\ GroupSize(group, width) \in Nat /\ GroupSize(group, width) >= 9
         /\ DOMAIN group.diffs = {} => GroupSize(group, width) = 1 + 8 * width
PROOF
<1> DEFINE P(j) == PlaceSize(group, j, width)
<1>1. \A j \in 0..7 : P(j) \in 1..8  BY DEF PlaceSize, DiffSize
<1>2. DOMAIN group.diffs = {} => \A j \in 0..7 : P(j) = width  BY DEF PlaceSize
<1>3. GroupSize(group, width) = 1 + P(0) + P(1) + P(2) + P(3) + P(4) + P(5) + P(6) + P(7)
  BY DEF GroupSize
<1> DEFINE before(j, k) == IF k < j THEN P(k) ELSE 0
<1>4. \A j : GroupUpto(group, j, width)
        = IF j = 0 THEN 0
          ELSE 1 + before(j, 0) + before(j, 1) + before(j, 2) + before(j, 3) + before(j, 4)
                 + before(j, 5) + before(j, 6) + before(j, 7)
  BY DEF GroupUpto
<1> HIDE DEF P
<1>5. PICK p0 \in 1..8, p1 \in 1..8, p2 \in 1..8, p3 \in 1..8,
           p4 \in 1..8, p5 \in 1..8, p6 \in 1..8, p7 \in 1..8 :
        /\ P(0) = p0 /\ P(1) = p1 /\ P(2) = p2 /\ P(3) = p3
        /\ P(4) = p4 /\ P(5) = p5 /\ P(6) = p6 /\ P(7) = p7
  <2>1. /\ P(0) \in 1..8 /\ P(1) \in 1..8 /\ P(2) \in 1..8 /\ P(3) \in 1..8
        /\ P(4) \in 1..8 /\ P(5) \in 1..8 /\ P(6) \in 1..8 /\ P(7) \in 1..8
    BY <1>1
  <2> QED BY <2>1, Zenon
<1>6. /\ GroupUpto(group, 0, width) = 0
      /\ GroupUpto(group, 1, width) = 1 + p0
      /\ GroupUpto(group, 2, width) = 1 + p0 + p1
      /\ GroupUpto(group, 3, width) = 1 + p0 + p1 + p2
      /\ GroupUpto(group, 4, width) = 1 + p0 + p1 + p2 + p3
      /\ GroupUpto(group, 5, width) = 1 + p0 + p1 + p2 + p3 + p4
      /\ GroupUpto(group, 6, width) = 1 + p0 + p1 + p2 + p3 + p4 + p5
      /\ GroupUpto(group, 7, width) = 1 + p0 + p1 + p2 + p3 + p4 + p5 + p6
      /\ GroupUpto(group, 8, width) = 1 + p0 + p1 + p2 + p3 + p4 + p5 + p6 + p7
      /\ GroupSize(group, width) = 1 + p0 + p1 + p2 + p3 + p4 + p5 + p6 + p7
  BY <1>3, <1>4, <1>5
<1>7. GroupSize(group, width) \in Nat /\ GroupSize(group, width) >= 9  BY <1>6
<1>8. DOMAIN group.diffs = {} => GroupSize(group, width) = 1 + 8 * width
  <2>1. ASSUME DOMAIN group.diffs = {} PROVE GroupSize(group, width) = 1 + 8 * width
    <3>1. /\ P(0) = width /\ P(1) = width /\ P(2) = width /\ P(3) = width
          /\ P(4) = width /\ P(5) = width /\ P(6) = width /\ P(7) = width
      BY <1>2, <2>1
    <3> QED BY <1>3, <3>1
  <2> QED BY <2>1
<1>9. ASSUME NEW j \in 0..7
      PROVE  /\ GroupUpto(group, j, width) \in Nat
             /\ GroupUpto(group, j, width) + (IF j = 0 THEN 1 ELSE 0) + P(j)
                  = GroupUpto(group, j + 1, width)
             /\ GroupUpto(group, j + 1, width) <= GroupSize(group, width)
  <2>1. CASE j = 0  BY <1>5, <1>6, <2>1
  <2>2. CASE j = 1  BY <1>5, <1>6, <2>2
  <2>3. CASE j = 2  BY <1>5, <1>6, <2>3
  <2>4. CASE j = 3  BY <1>5, <1>6, <2>4
  <2>5. CASE j = 4  BY <1>5, <1>6, <2>5
  <2>6. CASE j = 5  BY <1>5, <1>6, <2>6
  <2>7. CASE j = 6  BY <1>5, <1>6, <2>7
  <2>8. CASE j = 7  BY <1>5, <1>6, <2>8
  <2> QED BY <2>1, <2>2, <2>3, <2>4, <2>5, <2>6, <2>7, <2>8
<1> QED BY <1>1, <1>6, <1>7, <1>8, <1>9 DEF P, Places


-----------------------------------------------------------------------------
(* A call keeps its job *)

LEMMA PlanesStay ==
  ASSUME job' = job
  PROVE  /\ bytesoftype' = bytesoftype /\ HeaderLen' = HeaderLen /\ BlockSize' = BlockSize
         /\ Remaining' = Remaining /\ Lines' = Lines /\ LineBytes' = LineBytes
         /\ BlockCount' = BlockCount /\ Left' = Left /\ Parts' = Parts
         /\ ElementSize' = ElementSize /\ ElementCount' = ElementCount
         /\ \A b, p, k : Offset(b, p, k)' = Offset(b, p, k)
         /\ \A b, p : PlaneOf(b, p)' = PlaneOf(b, p)
         /\ \A b : Elements(b)' = Elements(b)
         /\ \A from, len : Copied(from, len)' = Copied(from, len)
         /\ \A b : Rows(b)' = Rows(b)
PROOF
<1>1. bytesoftype' = bytesoftype  BY DEF bytesoftype
<1>2. BlockSize' = BlockSize /\ HeaderLen' = HeaderLen  BY <1>1 DEF BlockSize, HeaderLen
<1>3. Remaining' = Remaining /\ BlockCount' = BlockCount  BY <1>2 DEF Remaining, BlockCount
<1>4. Lines' = Lines  BY <1>1, <1>3 DEF Lines
<1>5. LineBytes' = LineBytes  BY <1>1, <1>4 DEF LineBytes
<1>6. Left' = Left /\ Parts' = Parts  BY <1>3, <1>5 DEF Left, Parts
<1>7. ElementSize' = ElementSize  BY <1>1 DEF ElementSize, Width8
<1>8. ElementCount' = ElementCount  BY <1>2, <1>7 DEF ElementCount
<1>9. \A b, p, k : Offset(b, p, k)' = Offset(b, p, k)  BY <1>1 DEF Offset
<1>10. \A b, p : PlaneOf(b, p)' = PlaneOf(b, p)  BY <1>9 DEF PlaneOf
<1>11. \A b : Elements(b)' = Elements(b)  BY <1>2, <1>7, <1>8 DEF Elements
<1>12. \A from, len : Copied(from, len)' = Copied(from, len)  BY DEF Copied
<1>13. \A b : Rows(b)' = Rows(b)  BY <1>3, <1>4 DEF Rows
<1> QED BY <1>1, <1>2, <1>3, <1>4, <1>5, <1>6, <1>7, <1>8, <1>9, <1>10, <1>11, <1>12, <1>13

\* What a good list or stream is depends on the job only.
LEMMA GoodStays ==
  ASSUME job' = job
  PROVE  /\ \A ps, b, count, from, to :
              PlanesGood(ps, b, count, from, to)' = PlanesGood(ps, b, count, from, to)
         /\ \A gs, b, count, from, to :
              GroupsGood(gs, b, count, from, to)' = GroupsGood(gs, b, count, from, to)
         /\ \A ps, b, at, to : LinesGood(ps, b, at, to)' = LinesGood(ps, b, at, to)
         /\ \A part, b, to : PartGood(part, b, to)' = PartGood(part, b, to)
         /\ \A s, to : StreamGood(s, to)' = StreamGood(s, to)
PROOF
<1>1. \A ps, b, count, from, to :
        PlanesGood(ps, b, count, from, to)' = PlanesGood(ps, b, count, from, to)
  BY PlanesStay DEF PlanesGood
<1>2. \A group, b, e : GroupGood(group, b, e)' = GroupGood(group, b, e)
  BY PlanesStay DEF GroupGood
<1>3. \A gs, b, count, from, to :
        GroupsGood(gs, b, count, from, to)' = GroupsGood(gs, b, count, from, to)
  BY <1>2, PlanesStay DEF GroupsGood
<1>4. \A ps, b, at, to : LinesGood(ps, b, at, to)' = LinesGood(ps, b, at, to)
  BY <1>1, PlanesStay DEF LinesGood
<1>5. \A part, b, to : PartGood(part, b, to)' = PartGood(part, b, to)
  BY <1>1, <1>3, <1>4, PlanesStay DEF PartGood
<1>6. \A s, to : StreamGood(s, to)' = StreamGood(s, to)
  BY <1>5 DEF StreamGood
<1> QED BY <1>1, <1>3, <1>4, <1>5, <1>6

-----------------------------------------------------------------------------
(* What is written: the steps of the compression *)

LEMMA NothingIsRead ==
  ASSUME pc' \notin Reading
  PROVE  WhatIsRead'
  BY DEF WhatIsRead, Reading

LEMMA OverflowIsGood ==
  ASSUME pc' = "overflow"
  PROVE  RoundInv'
  BY NothingIsRead DEF RoundInv, WhereInStream, InBlock, Reading, Open

\* A step to the next block, or to the end of one.
LEMMA StreamIsKept ==
  ASSUME job' = job, StreamGood(out', dst'), pc' \in {"block", "marker", "done"},
         pc' = "block" => Len(out') = n' /\ n' <= BlockCount,
         pc' = "marker" => Len(out') = n' + 1 /\ n' < BlockCount,
         pc' = "done" => Len(out') = Parts /\ n' <= BlockCount
  PROVE  RoundInv'
PROOF
<1>1. StreamGood(out, dst)'  BY GoodStays
<1>2. BlockCount' = BlockCount /\ Parts' = Parts  BY PlanesStay
<1>3. WhereInStream'  BY <1>1, <1>2 DEF WhereInStream, Open, Reading
<1>4. InBlock'  BY DEF InBlock
<1> QED BY <1>3, <1>4, NothingIsRead DEF RoundInv, Reading

\* A step inside a block.
LEMMA BlockIsKept ==
  ASSUME job' = job, StreamGood(out', anchor'), pc' \in Open, Len(out') = n',
         pc' \in {"plan", "lz", "fit", "planes"} => n' < BlockCount,
         pc' \in {"lines", "rest"} => n' = BlockCount /\ Remaining > 0,
         InBlock'
  PROVE  RoundInv'
PROOF
<1>1. StreamGood(out, anchor)'  BY GoodStays
<1>2. BlockCount' = BlockCount /\ Parts' = Parts /\ Remaining' = Remaining  BY PlanesStay
<1>3. WhereInStream'  BY <1>1, <1>2 DEF WhereInStream, Open, Reading
<1> QED BY <1>3, NothingIsRead DEF RoundInv, Reading, Open

LEMMA NoPlanes ==
  ASSUME NEW b, NEW from \in Nat
  PROVE  PlanesGood(<<>>, b, 0, from, from)
PROOF
<1>1. \A k \in 1..Len(<<>>) : FALSE  BY EmptySequence
<1>2. Chained(<<>>, [k \in 1..Len(<<>>) |-> PlaneSize(<<>>[k])], from, from)
  BY EmptyChain
<1> QED BY <1>1, <1>2, EmptySequence DEF PlanesGood

LEMMA NoGroups ==
  ASSUME NEW b, NEW from \in Nat
  PROVE  GroupsGood(<<>>, b, 0, from, from)
PROOF
<1>1. \A k \in 1..Len(<<>>) : FALSE  BY EmptySequence
<1>2. Chained(<<>>, [k \in 1..Len(<<>>) |-> GroupSize(<<>>[k].group, ElementSize)], from, from)
  BY EmptyChain
<1> QED BY <1>1, <1>2, EmptySequence DEF GroupsGood

LEMMA StreamStarts ==
  ASSUME Init
  PROVE  RoundInv
PROOF
<1>1. job \in Jobs /\ pc = "block" /\ n = 0 /\ dst = 0 /\ out = <<>>  BY DEF Init
<1>2. StreamGood(<<>>, 0)  BY EmptySequence DEF StreamGood, At
<1>3. BlockCount \in Nat  BY <1>1, Lengths
<1>4. WhereInStream  BY <1>1, <1>2, <1>3, EmptySequence DEF WhereInStream, Open, Reading
<1> QED BY <1>1, <1>4 DEF RoundInv, InBlock, WhatIsRead, Reading

LEMMA CopyIsGood ==
  ASSUME IInv, RoundInv, CopyBlock
  PROVE  RoundInv'
PROOF
<1>1. pc = "block" /\ n < BlockCount /\ job' = job /\ n' = n  BY DEF CopyBlock
<1>2. Len(out) = n /\ StreamGood(out, dst) /\ dst \in Nat
  BY <1>1 DEF RoundInv, WhereInStream, Open, StreamGood
<1>3. CASE pc' = "overflow"  BY <1>3, OverflowIsGood
<1> DEFINE part == [kind |-> "copy", at |-> dst, bytes |-> Copied(n * BlockSize, BlockSize)]
<1>4. CASE pc' = "marker" /\ out' = Append(out, part) /\ dst' = dst + BlockSize + 1
  <2>1. BlockSize \in Nat  BY JobFacts DEF IInv, TypeOK
  <2>2. dst' \in Nat /\ dst' >= dst /\ dst' = dst + 1 + BlockSize  BY <1>2, <1>4, <2>1
  <2>3. PartGood(part, n, dst')  BY <1>1, <2>2 DEF PartGood
  <2>4. part.at = dst  OBVIOUS
  <2> HIDE DEF part
  <2>5. StreamGood(out', dst')  BY <1>2, <1>4, <2>2, <2>3, <2>4, MoreParts
  <2>6. Len(out') = n' + 1
    <3>1. IsSeq(out)  BY <1>2 DEF StreamGood
    <3> QED BY <1>1, <1>2, <1>4, <3>1, Appending
  <2> QED BY <1>1, <1>4, <2>5, <2>6, StreamIsKept
<1> QED BY <1>3, <1>4 DEF CopyBlock, Overflow

LEMMA StartIsGood ==
  ASSUME IInv, RoundInv, StartBlock
  PROVE  RoundInv'
PROOF
<1>1. /\ pc = "block" /\ n < BlockCount /\ job' = job /\ n' = n /\ pc' = "plan"
      /\ anchor' = dst /\ out' = out /\ planes' = <<>>
  BY DEF StartBlock
<1>2. Len(out) = n /\ StreamGood(out, dst)
  BY <1>1 DEF RoundInv, WhereInStream, Open
<1>3. InBlock'  BY <1>1 DEF InBlock
<1> QED BY <1>1, <1>2, <1>3, BlockIsKept DEF Open

LEMMA PlanIsGood ==
  ASSUME IInv, RoundInv, PlanPlane
  PROVE  RoundInv'
PROOF
<1>1. /\ pc = "plan" /\ pc' = "plan" /\ job' = job /\ n' = n
      /\ anchor' = anchor /\ out' = out /\ planes' = planes
  BY DEF PlanPlane
<1>2. Len(out) = n /\ StreamGood(out, anchor) /\ n < BlockCount /\ planes = <<>>
  BY <1>1 DEF RoundInv, WhereInStream, InBlock, Open
<1>3. InBlock'  BY <1>1, <1>2 DEF InBlock
<1> QED BY <1>1, <1>2, <1>3, BlockIsKept DEF Open

LEMMA ChoiceIsGood ==
  ASSUME IInv, RoundInv, Planned
  PROVE  RoundInv'
PROOF
<1>1. /\ pc = "plan" /\ pc' \in {"lz", "fit"} /\ job' = job /\ n' = n
      /\ anchor' = anchor /\ out' = out /\ planes' = planes
  BY DEF Planned
<1>2. Len(out) = n /\ StreamGood(out, anchor) /\ n < BlockCount /\ planes = <<>>
      /\ job \in Jobs
  BY <1>1 DEF RoundInv, WhereInStream, InBlock, Open, IInv, TypeOK
<1>3. ASSUME pc' = "lz" PROVE LzGood'
  <2>1. LzIsTried /\ \E t \in Tables : lz' = [NoLz EXCEPT !.table = t]
    BY <1>1, <1>3 DEF Planned
  <2>2. bytesoftype % 4 = 0 /\ bytesoftype <= 512  BY <2>1 DEF LzIsTried
  <2>3. PICK t \in Tables : lz' = [NoLz EXCEPT !.table = t]  BY <2>1
  <2>4. lz'.pos = 0 /\ lz'.table = t /\ lz'.size = 0 /\ lz'.groups = <<>>  BY <2>3 DEF NoLz
  <2>5. t \in [Hashes -> Nat]  BY TablesAssumption
  <2>6. ElementCount > 0  BY <1>2, <2>2, ElementSizes
  <2>7. anchor \in Nat  BY <1>2 DEF StreamGood
  <2>8. GroupsGood(<<>>, n, 0, anchor + 1, anchor + 1)  BY <2>7, NoGroups
  <2>9. GroupsGood(lz.groups, n, lz.pos, anchor + 1, anchor + 1 + lz.size)'
    <3>1. anchor' + 1 + lz'.size = anchor + 1 /\ anchor' + 1 = anchor + 1  BY <1>1, <2>4, <2>7
    <3>2. GroupsGood(lz'.groups, n', lz'.pos, anchor' + 1, anchor' + 1 + lz'.size)
      BY <1>1, <2>4, <2>8, <3>1
    <3> QED BY <1>1, <3>2, GoodStays
  <2> QED BY <1>1, <2>2, <2>4, <2>5, <2>6, <2>9, PlanesStay DEF LzGood
<1>4. InBlock'  BY <1>1, <1>2, <1>3 DEF InBlock
<1> QED BY <1>1, <1>2, <1>4, BlockIsKept DEF Open

LEMMA FitIsRight ==
  ASSUME IInv, RoundInv, Fit
  PROVE  RoundInv'
PROOF
<1>1. /\ pc = "fit" /\ pc' \in {"overflow", "planes"} /\ job' = job /\ n' = n /\ i' = 0
      /\ anchor' = anchor /\ dst' = dst /\ out' = out /\ planes' = planes
  BY DEF Fit
<1>2. Len(out) = n /\ StreamGood(out, anchor) /\ n < BlockCount /\ planes = <<>>
  BY <1>1 DEF RoundInv, WhereInStream, InBlock, Open
<1>3. dst = anchor + HeaderLen /\ HeaderLen \in Nat /\ anchor \in Nat
  BY <1>1, <1>2, JobFacts DEF IInv, TypeOK, WhilePlanning, StreamGood
<1>4. PlanesGood(planes, n, i, anchor + HeaderLen, dst)'
  <2>1. PlanesGood(<<>>, n, 0, anchor + HeaderLen, anchor + HeaderLen)  BY <1>3, NoPlanes
  <2>2. PlanesGood(planes', n', i', anchor' + HeaderLen, dst')  BY <1>1, <1>2, <1>3, <2>1
  <2> QED BY <1>1, <2>2, GoodStays, PlanesStay
<1>5. CASE pc' = "overflow"  BY <1>5, OverflowIsGood
<1>6. CASE pc' = "planes"
  <2>1. InBlock'  BY <1>4, <1>6 DEF InBlock
  <2> QED BY <1>1, <1>2, <1>6, <2>1, BlockIsKept DEF Open
<1> QED BY <1>1, <1>5, <1>6

\* The planes of a list are not written before the place where it begins.
LEMMA PlanesGoForward ==
  ASSUME NEW ps, NEW b, NEW count, NEW from, NEW to, PlanesGood(ps, b, count, from, to)
  PROVE  from \in Nat /\ to \in Nat /\ count \in Nat /\ from + count <= to /\ IsSeq(ps)
PROOF
<1>1. IsSeq(ps) /\ from \in Nat /\ to \in Nat /\ from + Len(ps) <= to /\ Len(ps) = count
  BY DEF PlanesGood, Chained
<1> QED BY <1>1, Appending

LEMMA LzIsGood ==
  ASSUME IInv, RoundInv, LzCompress
  PROVE  RoundInv'
PROOF
<1>1. pc = "lz" /\ job' = job /\ n' = n /\ anchor' = anchor /\ planes' = planes
  BY DEF LzCompress
<1>2. /\ Len(out) = n /\ StreamGood(out, anchor) /\ n < BlockCount /\ planes = <<>>
      /\ job \in Jobs /\ n \in Nat /\ lz.size \in Nat /\ LzGood
  BY <1>1 DEF RoundInv, WhereInStream, InBlock, Open, IInv, TypeOK, WhilePlanning
<1>3. /\ bytesoftype % 4 = 0 /\ bytesoftype <= 512
      /\ lz.pos \in Nat /\ lz.pos % 8 = 0 /\ lz.pos < ElementCount
      /\ lz.table \in [Hashes -> Nat]
      /\ GroupsGood(lz.groups, n, lz.pos, anchor + 1, anchor + 1 + lz.size)
      /\ anchor \in Nat
  BY <1>2 DEF LzGood, StreamGood
<1>4. ElementSize \in {4, 8} /\ ElementCount \in Nat  BY <1>2, <1>3, ElementSizes
<1> DEFINE el    == Elements(n)
           skip  == lz.failed = lz.maxFailed
           group == IF skip THEN RawGroup(el, lz.pos) ELSE MatchGroup(el, lz.table, lz.pos)
           w     == GroupSize(group, ElementSize)
           size  == lz.size + w
           gs    == Append(lz.groups, [at |-> anchor + 1 + lz.size, group |-> group])
           early == ~lz.once /\ lz.pos > ElementCount \div 4
<1>5. /\ lz'.pos = lz.pos + 8 /\ lz'.size = size /\ lz'.groups = gs
      /\ lz'.table = IF skip THEN lz.table ELSE NextTable(el, lz.table, lz.pos)
  BY DEF LzCompress
<1>6. \/ pc' = "fit" /\ out' = out
      \/ pc' = pc /\ out' = out /\ lz.pos + 8 < ElementCount
      \/ /\ ~(lz.pos + 8 < ElementCount) /\ pc' = "marker" /\ dst' = anchor + 1 + size
         /\ out' = Append(out, [kind |-> "lz", at |-> anchor, groups |-> gs])
  <2>1. IF size > FullSize \/ (early /\ 5 * size > 2 * FullSize)
        THEN pc' = "fit" /\ UNCHANGED <<dst, out>>
        ELSE IF lz.pos + 8 < ElementCount
        THEN UNCHANGED <<pc, dst, out>>
        ELSE /\ pc' = "marker"
             /\ out' = Append(out, [kind |-> "lz", at |-> anchor, groups |-> lz'.groups])
             /\ dst' = anchor + 1 + size
    BY DEF LzCompress
  <2> HIDE DEF size, early, gs
  <2>2. CASE size > FullSize \/ (early /\ 5 * size > 2 * FullSize)  BY <2>1, <2>2
  <2>3. CASE ~(size > FullSize \/ (early /\ 5 * size > 2 * FullSize))  BY <1>5, <2>1, <2>3
  <2> QED BY <2>2, <2>3
<1>7. GroupGood(group, n, lz.pos) /\ lz.pos + 8 <= ElementCount
  BY <1>2, <1>3, GroupsAreGood
<1>8. lz'.table \in [Hashes -> Nat]
  <2> HIDE DEF el, skip
  <2>1. NextTable(el, lz.table, lz.pos) \in [Hashes -> Nat]  BY <1>3, TableAfterGroup
  <2> QED BY <1>3, <1>5, <2>1
<1> HIDE DEF group, skip
<1>9. w \in Nat /\ w > 0  BY <1>4, GroupInPlaces
<1>10. GroupsGood(gs, n, lz.pos + 8, anchor + 1, anchor + 1 + size)
  <2> HIDE DEF w
  <2>1. GroupsGood(gs, n, lz.pos + 8, anchor + 1, (anchor + 1 + lz.size) + w)
    BY <1>3, <1>7, <1>9, MoreGroups DEF w
  <2>2. (anchor + 1 + lz.size) + w = anchor + 1 + size  BY <1>2, <1>3, <1>9
  <2> QED BY <2>1, <2>2
<1>11. size \in Nat  BY <1>2, <1>9
<1> HIDE DEF gs, size, w
<1>12. CASE pc' = "fit" /\ out' = out
  <2>1. InBlock'  BY <1>1, <1>2, <1>12 DEF InBlock
  <2> QED BY <1>1, <1>2, <1>12, <2>1, BlockIsKept DEF Open
<1>13. CASE pc' = pc /\ out' = out /\ lz.pos + 8 < ElementCount
  <2>1. GroupsGood(lz.groups, n, lz.pos, anchor + 1, anchor + 1 + lz.size)'
    <3>1. GroupsGood(lz'.groups, n', lz'.pos, anchor' + 1, anchor' + 1 + lz'.size)
      BY <1>1, <1>5, <1>10
    <3> QED BY <1>1, <3>1, GoodStays
  <2>2. lz'.pos \in Nat /\ lz'.pos % 8 = 0  BY <1>3, <1>5
  <2>3. LzGood'  BY <1>1, <1>3, <1>5, <1>8, <1>13, <2>1, <2>2, PlanesStay DEF LzGood
  <2>4. InBlock'  BY <1>1, <1>2, <1>13, <2>3 DEF InBlock
  <2> QED BY <1>1, <1>2, <1>13, <2>4, BlockIsKept DEF Open
<1>14. CASE /\ ~(lz.pos + 8 < ElementCount) /\ pc' = "marker" /\ dst' = anchor + 1 + size
            /\ out' = Append(out, [kind |-> "lz", at |-> anchor, groups |-> gs])
  <2> DEFINE part == [kind |-> "lz", at |-> anchor, groups |-> gs]
  <2>1. lz.pos + 8 = ElementCount  BY <1>3, <1>4, <1>7, <1>14
  <2>2. dst' \in Nat /\ dst' >= anchor  BY <1>3, <1>11, <1>14
  <2>3. PartGood(part, n, dst')
    BY <1>2, <1>3, <1>10, <1>14, <2>1 DEF PartGood
  <2>4. part.at = anchor /\ out' = Append(out, part)  BY <1>14
  <2> HIDE DEF part
  <2>5. StreamGood(out', dst')  BY <1>2, <2>2, <2>3, <2>4, MoreParts
  <2>6. Len(out') = n' + 1
    <3>1. IsSeq(out)  BY <1>2 DEF StreamGood
    <3> QED BY <1>1, <1>2, <2>4, <3>1, Appending
  <2> QED BY <1>1, <1>2, <1>14, <2>5, <2>6, StreamIsKept
<1> QED BY <1>6, <1>12, <1>13, <1>14

LEMMA PlaneIsGood ==
  ASSUME IInv, RoundInv, EncodePlane
  PROVE  RoundInv'
PROOF
<1>1. /\ pc = "planes" /\ i < bytesoftype /\ job' = job /\ n' = n /\ anchor' = anchor
      /\ out' = out
  BY DEF EncodePlane
<1>2. /\ Len(out) = n /\ StreamGood(out, anchor) /\ n < BlockCount
      /\ PlanesGood(planes, n, i, anchor + HeaderLen, dst)
      /\ job \in Jobs /\ n \in Nat /\ i \in Nat /\ PlansAgree /\ Len(plans) = bytesoftype
  BY <1>1 DEF RoundInv, WhereInStream, InBlock, Open, IInv, TypeOK, WhileEncoding
<1>3. CASE pc' = "overflow"  BY <1>3, OverflowIsGood
<1> DEFINE plane == PlaneOf(n, i)
           plan == plans[i + 1].plan
           enc == EncodedPlane(plan, plane, 16, dst)
<1>4. CASE /\ planes' = Append(planes, enc) /\ dst' = dst + PlaneSize(enc) /\ i' = i + 1
           /\ pc' = pc
  <2>1. plane \in PlaneValues  BY <1>2, PlanesOfBlocks
  <2>2. IsPlanOf(plan, plane)
    <3>1. bytesoftype \in Nat  BY <1>2, JobFacts
    <3>2. i + 1 \in 1..Len(plans) /\ (i + 1) - 1 = i  BY <1>1, <1>2, <3>1
    <3> QED BY <1>2, <3>2 DEF PlansAgree
  <2>3. dst \in Nat  BY <1>2, PlanesGoForward
  <2>4. enc.at = dst  BY DEF EncodedPlane
  <2>5. PlaneGood(enc, plane, 16)
    <3> HIDE DEF plane, plan
    <3>1. CASE plan.type = "raw" /\ plan.size = 256
      <4>1. enc.type = "raw" /\ enc.values = plane  BY <3>1 DEF EncodedPlane
      <4> QED BY <4>1 DEF PlaneGood
    <3>2. CASE \E rle \in BOOLEAN : plan = PlanePlan(plane, rle)
      BY <2>4, <3>2 DEF PlaneGood
    <3> QED BY <2>2, <3>1, <3>2 DEF IsPlanOf
  <2> HIDE DEF plane, plan, enc
  <2>6. PlaneSize(enc) \in Nat /\ PlaneSize(enc) > 0
    <3>1. \E rows : ReadsAs(enc, plane, rows)  BY <2>1, <2>3, <2>4, <2>5, PlaneIsRead
    <3> QED BY <3>1 DEF ReadsAs
  <2>7. Rows(n) = 16  BY <1>2 DEF Rows
  <2>8. PlanesGood(planes', n, i + 1, anchor + HeaderLen, dst')
    BY <1>2, <1>4, <2>4, <2>5, <2>6, <2>7, MorePlanes DEF plane
  <2>9. PlanesGood(planes, n, i, anchor + HeaderLen, dst)'
    BY <1>1, <1>4, <2>8, GoodStays, PlanesStay
  <2>10. InBlock'  BY <1>1, <1>4, <2>9 DEF InBlock
  <2> QED BY <1>1, <1>2, <1>4, <2>10, BlockIsKept DEF Open
<1> QED BY <1>3, <1>4 DEF EncodePlane, Overflow

LEMMA BlockEndIsGood ==
  ASSUME IInv, RoundInv, EndBlock
  PROVE  RoundInv'
PROOF
<1> DEFINE part == [kind |-> "planes", at |-> anchor, planes |-> planes]
<1>1. /\ pc = "planes" /\ i = bytesoftype /\ job' = job /\ n' = n /\ pc' = "marker"
      /\ out' = Append(out, part) /\ dst' = dst
  BY DEF EndBlock
<1>2. /\ Len(out) = n /\ StreamGood(out, anchor) /\ n < BlockCount
      /\ PlanesGood(planes, n, bytesoftype, anchor + HeaderLen, dst) /\ job \in Jobs
  BY <1>1 DEF RoundInv, WhereInStream, InBlock, Open, IInv, TypeOK
<1>3. dst \in Nat /\ dst >= anchor
  <2>1. anchor \in Nat /\ HeaderLen \in Nat /\ bytesoftype \in Nat
    BY <1>2, JobFacts DEF StreamGood
  <2> QED BY <1>2, <2>1, PlanesGoForward
<1>4. PartGood(part, n, dst) /\ part.at = anchor  BY <1>2 DEF PartGood
<1> HIDE DEF part
<1>5. StreamGood(out', dst')  BY <1>1, <1>2, <1>3, <1>4, MoreParts
<1>6. Len(out') = n' + 1
  <2>1. IsSeq(out)  BY <1>2 DEF StreamGood
  <2> QED BY <1>1, <1>2, <2>1, Appending
<1> QED BY <1>1, <1>2, <1>5, <1>6, StreamIsKept

LEMMA NextBlockIsGood ==
  ASSUME IInv, RoundInv, Marker
  PROVE  RoundInv'
PROOF
<1>1. /\ pc = "marker" /\ n' = n + 1 /\ job' = job /\ dst' = dst /\ out' = out
      /\ pc' \in {"block", "overflow"}
  BY DEF Marker, Overflow
<1>2. Len(out) = n + 1 /\ StreamGood(out, dst) /\ n < BlockCount /\ n \in Nat /\ job \in Jobs
  BY <1>1 DEF RoundInv, WhereInStream, Open, IInv, TypeOK
<1>3. n + 1 <= BlockCount
  <2>1. BlockCount \in Nat  BY <1>2, Lengths
  <2> QED BY <1>2, <2>1
<1>4. CASE pc' = "overflow"  BY <1>4, OverflowIsGood
<1>5. CASE pc' = "block"  BY <1>1, <1>2, <1>3, <1>5, StreamIsKept
<1> QED BY <1>1, <1>4, <1>5

LEMMA PartialStartIsGood ==
  ASSUME IInv, RoundInv, StartPartial
  PROVE  RoundInv'
PROOF
<1>1. /\ pc = "block" /\ n = BlockCount /\ Remaining > 0 /\ job' = job /\ n' = n /\ out' = out
  BY DEF StartPartial
<1>2. Len(out) = n /\ StreamGood(out, dst) /\ dst \in Nat /\ HeaderLen \in Nat /\ Lines \in 0..16
  BY <1>1, JobFacts DEF RoundInv, WhereInStream, Open, StreamGood, IInv, TypeOK
<1>3. CASE pc' = "overflow"  BY <1>3, OverflowIsGood
<1>4. CASE /\ anchor' = dst /\ dst' = dst + 1 + (IF Lines > 0 THEN HeaderLen ELSE 0)
           /\ i' = 0 /\ planes' = <<>> /\ pc' = IF Lines > 0 THEN "lines" ELSE "rest"
  <2>1. CASE Lines > 0
    <3>1. dst' = dst + 1 + HeaderLen /\ pc' = "lines" /\ dst' \in Nat  BY <1>2, <1>4, <2>1
    <3>2. PlanesGood(<<>>, n, 0, dst + 1 + HeaderLen, dst + 1 + HeaderLen)
      BY <1>2, <3>1, NoPlanes
    <3>3. PlanesGood(planes', n', i', anchor' + 1 + HeaderLen, dst')
      BY <1>1, <1>4, <3>1, <3>2
    <3>4. PlanesGood(planes, n, i, anchor + 1 + HeaderLen, dst)'
      BY <1>1, <3>3, GoodStays, PlanesStay
    <3>5. InBlock'  BY <1>1, <2>1, <3>1, <3>4, PlanesStay DEF InBlock
    <3> QED BY <1>1, <1>2, <1>4, <3>1, <3>5, BlockIsKept DEF Open
  <2>2. CASE ~(Lines > 0)
    <3>1. dst' = anchor' + 1 /\ pc' = "rest"  BY <1>2, <1>4, <2>2
    <3>2. LinesGood(planes', n', anchor', dst')  BY <2>2, <3>1 DEF LinesGood
    <3>3. LinesGood(planes, n, anchor, dst)'  BY <1>1, <3>2, GoodStays
    <3>4. InBlock'  BY <3>1, <3>3 DEF InBlock
    <3> QED BY <1>1, <1>2, <1>4, <3>1, <3>4, BlockIsKept DEF Open
  <2> QED BY <2>1, <2>2
<1> QED BY <1>3, <1>4 DEF StartPartial, Overflow

LEMMA LinesAreGood ==
  ASSUME IInv, RoundInv, EncodeLines
  PROVE  RoundInv'
PROOF
<1>1. /\ pc = "lines" /\ job' = job /\ n' = n /\ anchor' = anchor /\ out' = out
  BY DEF EncodeLines
<1>2. /\ Len(out) = n /\ StreamGood(out, anchor) /\ n = BlockCount /\ Remaining > 0 /\ Lines > 0
      /\ PlanesGood(planes, n, i, anchor + 1 + HeaderLen, dst)
      /\ job \in Jobs /\ n \in Nat /\ i \in Nat
  BY <1>1 DEF RoundInv, WhereInStream, InBlock, Open, IInv, TypeOK
<1>3. CASE pc' = "overflow"  BY <1>3, OverflowIsGood
<1> DEFINE plane == PlaneOf(n, i)
           plan == PlanePlan(plane, FALSE)
           enc == EncodedPlane(plan, plane, Lines, dst)
<1>4. CASE /\ planes' = Append(planes, enc) /\ dst' = dst + PlaneSize(enc) /\ i' = i + 1
           /\ pc' = pc
  <2>1. plane \in PlaneValues  BY <1>2, PlanesOfBlocks
  <2>2. dst \in Nat  BY <1>2, PlanesGoForward
  <2>3. enc.at = dst  BY DEF EncodedPlane
  <2>4. Lines \in 1..16 /\ Rows(n) = Lines
    <3>1. Lines \in 0..16 /\ BlockCount \in Nat  BY <1>2, JobFacts, Lengths
    <3> QED BY <1>2, <3>1 DEF Rows
  <2>5. PlaneGood(enc, plane, Lines)
    <3> HIDE DEF plane
    <3>1. FALSE \in BOOLEAN /\ enc = EncodedPlane(PlanePlan(plane, FALSE), plane, Lines, enc.at)
      BY <2>3
    <3> HIDE DEF enc
    <3> QED BY <3>1 DEF PlaneGood
  <2> HIDE DEF plane, plan, enc
  <2>6. PlaneSize(enc) \in Nat /\ PlaneSize(enc) > 0
    <3>1. \E rows : ReadsAs(enc, plane, rows)  BY <2>1, <2>2, <2>3, <2>4, <2>5, PlaneIsRead
    <3> QED BY <3>1 DEF ReadsAs
  <2>7. PlanesGood(planes', n, i + 1, anchor + 1 + HeaderLen, dst')
    BY <1>2, <1>4, <2>3, <2>4, <2>5, <2>6, MorePlanes DEF plane
  <2>8. PlanesGood(planes, n, i, anchor + 1 + HeaderLen, dst)'
    BY <1>1, <1>4, <2>7, GoodStays, PlanesStay
  <2>9. InBlock'  BY <1>1, <1>2, <1>4, <2>8, PlanesStay DEF InBlock
  <2> QED BY <1>1, <1>2, <1>4, <2>9, BlockIsKept DEF Open
<1> QED BY <1>3, <1>4 DEF EncodeLines, Overflow

LEMMA LinesEndIsGood ==
  ASSUME IInv, RoundInv, EndLines
  PROVE  RoundInv'
PROOF
<1>1. /\ pc = "lines" /\ pc' = "rest" /\ i = bytesoftype /\ job' = job /\ n' = n
      /\ anchor' = anchor /\ out' = out /\ planes' = planes /\ dst' = dst
  BY DEF EndLines, compressed
<1>2. /\ Len(out) = n /\ StreamGood(out, anchor) /\ n = BlockCount /\ Remaining > 0 /\ Lines > 0
      /\ PlanesGood(planes, n, bytesoftype, anchor + 1 + HeaderLen, dst)
  BY <1>1 DEF RoundInv, WhereInStream, InBlock, Open
<1>3. LinesGood(planes', n', anchor', dst')  BY <1>1, <1>2 DEF LinesGood
<1>4. LinesGood(planes, n, anchor, dst)'  BY <1>1, <1>3, GoodStays
<1>5. InBlock'  BY <1>1, <1>4 DEF InBlock
<1> QED BY <1>1, <1>2, <1>5, BlockIsKept DEF Open

LEMMA RestIsGood ==
  ASSUME IInv, RoundInv, EncodeRest
  PROVE  RoundInv'
PROOF
<1>1. pc = "rest" /\ job' = job /\ n' = n  BY DEF EncodeRest
<1>2. /\ Len(out) = n /\ StreamGood(out, anchor) /\ n = BlockCount /\ Remaining > 0
      /\ LinesGood(planes, n, anchor, dst) /\ job \in Jobs
  BY <1>1 DEF RoundInv, WhereInStream, InBlock, Open, IInv, TypeOK
<1>3. CASE pc' = "overflow"  BY <1>3, OverflowIsGood
<1> DEFINE part == [kind |-> "partial", at |-> anchor, planes |-> planes,
                    rest |-> dst, bytes |-> Copied(job.bytes - Left, Left)]
<1>4. CASE pc' = "done" /\ out' = Append(out, part) /\ dst' = dst + Left
  <2>1. anchor \in Nat /\ HeaderLen \in Nat /\ bytesoftype \in Nat /\ Left \in Nat
        /\ BlockCount \in Nat
    BY <1>2, JobFacts, Lengths DEF StreamGood
  <2>2. dst \in Nat /\ dst >= anchor
    <3>1. CASE Lines > 0
      <4>1. PlanesGood(planes, n, bytesoftype, anchor + 1 + HeaderLen, dst)
        BY <1>2, <3>1 DEF LinesGood
      <4> QED BY <2>1, <4>1, PlanesGoForward
    <3>2. CASE ~(Lines > 0)
      <4>1. dst = anchor + 1  BY <1>2, <3>2 DEF LinesGood
      <4> QED BY <2>1, <4>1
    <3> QED BY <3>1, <3>2
  <2>3. dst' \in Nat /\ dst' >= anchor  BY <1>4, <2>1, <2>2
  <2>4. PartGood(part, n, dst') /\ part.at = anchor  BY <1>2, <1>4 DEF PartGood
  <2> HIDE DEF part
  <2>5. StreamGood(out', dst')  BY <1>2, <1>4, <2>3, <2>4, MoreParts
  <2>6. Len(out') = Parts
    <3>1. IsSeq(out)  BY <1>2 DEF StreamGood
    <3>2. Len(out') = n + 1  BY <1>2, <1>4, <3>1, Appending
    <3> QED BY <1>2, <3>2 DEF Parts
  <2> QED BY <1>1, <1>2, <1>4, <2>1, <2>5, <2>6, StreamIsKept
<1> QED BY <1>3, <1>4 DEF EncodeRest, Overflow, Left

LEMMA NoPartialIsRight ==
  ASSUME IInv, RoundInv, NoPartial
  PROVE  RoundInv'
PROOF
<1>1. /\ pc = "block" /\ n = BlockCount /\ Remaining = 0 /\ pc' = "done" /\ job' = job /\ n' = n
      /\ out' = out /\ dst' = dst
  BY DEF NoPartial, compressed
<1>2. Len(out) = n /\ StreamGood(out, dst) /\ BlockCount \in Nat
  BY <1>1, Lengths DEF RoundInv, WhereInStream, Open, IInv, TypeOK
<1>3. Parts = BlockCount  BY <1>1, <1>2 DEF Parts
<1> QED BY <1>1, <1>2, <1>3, StreamIsKept

-----------------------------------------------------------------------------
(* What is read: the parts, and what lands in the output *)

\* Part b of the stream is where the decoder looks for it.
LEMMA PartOfStream ==
  ASSUME NEW s, NEW to, StreamGood(s, to), NEW b \in Nat, b < Len(s)
  PROVE  /\ s[b + 1].at = At(s, b, to) /\ At(s, b, to) \in Nat
         /\ At(s, b + 1, to) \in Nat /\ At(s, b + 1, to) <= to /\ to \in Nat
         /\ PartGood(s[b + 1], b, At(s, b + 1, to))
PROOF
<1>1. IsSeq(s) /\ Len(s) \in Nat /\ to \in Nat  BY Appending DEF StreamGood
<1>2. b \in 0..Len(s) /\ b + 1 \in 0..Len(s) /\ b + 1 \in 1..Len(s) /\ (b + 1) - 1 = b  BY <1>1
<1>3. s[b + 1].at = At(s, b, to)  BY DEF At
<1>4. PartGood(s[b + 1], b, At(s, b + 1, to))
  <2>1. PartGood(s[b + 1], (b + 1) - 1, At(s, b + 1, to))  BY <1>2 DEF StreamGood
  <2> QED BY <1>2, <2>1
<1> QED BY <1>1, <1>2, <1>3, <1>4 DEF StreamGood

\* A block takes more bytes than the decoder wants to see before it reads one.
LEMMA PartIsLong ==
  ASSUME job \in Jobs, NEW part, NEW b \in Nat, b < BlockCount, NEW to, part.at \in Nat,
         PartGood(part, b, to)
  PROVE  to >= part.at + HeaderLen + bytesoftype
PROOF
<1>1. /\ bytesoftype \in Nat /\ bytesoftype > 0 /\ HeaderLen \in Nat /\ BlockCount \in Nat
      /\ BlockSize = 256 * bytesoftype /\ HeaderLen = (bytesoftype + 1) \div 2
  BY JobFacts, Lengths DEF BlockSize, HeaderLen
<1>2. HeaderLen <= bytesoftype  BY <1>1
<1>3. CASE to = part.at + 1 + BlockSize  BY <1>1, <1>2, <1>3
<1>4. CASE bytesoftype % 4 = 0 /\ GroupsGood(part.groups, b, ElementCount, part.at + 1, to)
  <2>1. ElementCount \in Nat /\ ElementCount >= 32 * bytesoftype  BY <1>4, ElementSizes
  <2>2. 8 * Len(part.groups) = ElementCount /\ IsSeq(part.groups) /\ to \in Nat
        /\ part.at + 1 + Len(part.groups) <= to
    BY <1>4 DEF GroupsGood, Chained
  <2>3. Len(part.groups) \in Nat  BY <2>2, Appending
  <2> QED BY <1>1, <1>2, <2>1, <2>2, <2>3
<1>5. CASE PlanesGood(part.planes, b, bytesoftype, part.at + HeaderLen, to)
  <2>1. part.at + HeaderLen + bytesoftype <= to  BY <1>5, PlanesGoForward
  <2>2. to \in Nat  BY <1>5, PlanesGoForward
  <2> QED BY <1>1, <2>1, <2>2
<1> QED BY <1>1, <1>3, <1>4, <1>5 DEF PartGood

\* What is known whenever the decoder is at work.
LEMMA WhileReading ==
  ASSUME IInv, RoundInv, pc \in Reading \union {"done"}
  PROVE  /\ job \in Jobs /\ n \in Nat /\ i \in Nat /\ BlockCount \in Nat /\ n <= BlockCount
         /\ StreamGood(out, dst) /\ dst \in Nat /\ Len(out) = Parts /\ Len(out) \in Nat
         /\ Remaining \in Nat
         /\ n < BlockCount => n < Len(out)
         /\ Remaining > 0 => BlockCount + 1 = Len(out) /\ BlockCount < Len(out)
         /\ Remaining = 0 => BlockCount = Len(out)
PROOF
<1>1. job \in Jobs /\ n \in Nat /\ i \in Nat  BY DEF IInv, TypeOK
<1>2. n <= BlockCount /\ Len(out) = Parts /\ StreamGood(out, dst)
  BY DEF RoundInv, WhereInStream, Reading, Open
<1>3. BlockCount \in Nat /\ Remaining \in Nat  BY <1>1, Lengths, JobFacts
<1>4. dst \in Nat  BY <1>2 DEF StreamGood
<1> QED BY <1>1, <1>2, <1>3, <1>4 DEF Parts

\* The part that is read.
LEMMA PartIsThere ==
  ASSUME IInv, RoundInv, pc \in Reading, n < BlockCount \/ Remaining > 0
  PROVE  /\ n < Len(out) /\ Part.at = At(out, n, dst) /\ At(out, n, dst) \in Nat
         /\ At(out, n + 1, dst) \in Nat /\ At(out, n + 1, dst) <= dst
         /\ PartGood(Part, n, At(out, n + 1, dst))
         /\ n = BlockCount => At(out, n + 1, dst) = dst
PROOF
<1>1. /\ n \in Nat /\ BlockCount \in Nat /\ n <= BlockCount /\ StreamGood(out, dst)
      /\ Len(out) \in Nat /\ Remaining \in Nat
      /\ n < BlockCount => n < Len(out)
      /\ Remaining > 0 => BlockCount + 1 = Len(out) /\ BlockCount < Len(out)
  BY WhileReading
<1>2. n < Len(out)  BY <1>1
<1>3. n = BlockCount => At(out, n + 1, dst) = dst
  <2>1. n = BlockCount => n + 1 = Len(out)  BY <1>1
  <2>2. ~(Len(out) < Len(out))  BY <1>1
  <2> QED BY <2>1, <2>2 DEF At
<1> QED BY <1>1, <1>2, <1>3, PartOfStream DEF Part

\* The planes of the part that is read.
LEMMA PlanesAreThere ==
  ASSUME IInv, RoundInv, pc \in Reading, ReadingPlanes
  PROVE  /\ \E from : PlanesGood(Part.planes, n, bytesoftype, from, PlanesEnd)
         /\ PlanesEnd \in Nat /\ PlanesEnd <= dst /\ Rows(n) \in 1..16
         /\ n = BlockCount => /\ PlanesEnd = Part.rest /\ dst = Part.rest + Left
                              /\ Part.bytes = Copied(job.bytes - Left, Left)
PROOF
<1>1. /\ n \in Nat /\ BlockCount \in Nat /\ n <= BlockCount /\ job \in Jobs
      /\ dst \in Nat
  BY WhileReading
<1>2. Lines \in 0..16 /\ Left \in Nat /\ bytesoftype \in Nat  BY <1>1, JobFacts, Lengths
<1>3. CASE n < BlockCount
  <2>1. Part.kind = "planes"  BY <1>3 DEF ReadingPlanes
  <2>2. PartGood(Part, n, At(out, n + 1, dst)) /\ At(out, n + 1, dst) <= dst
    BY <1>3, PartIsThere
  <2>3. PlanesGood(Part.planes, n, bytesoftype, Part.at + HeaderLen, At(out, n + 1, dst))
    BY <2>1, <2>2 DEF PartGood
  <2>4. PlanesEnd = At(out, n + 1, dst) /\ Rows(n) = 16  BY <1>3 DEF PlanesEnd, Rows
  <2>5. PlanesEnd \in Nat  BY <2>3, <2>4, PlanesGoForward
  <2> QED BY <1>1, <1>3, <2>2, <2>3, <2>4, <2>5
<1>4. CASE n = BlockCount
  <2>1. Part.kind = "partial" /\ Remaining > 0 /\ Lines > 0  BY <1>1, <1>4 DEF ReadingPlanes
  <2>2. PartGood(Part, n, dst)  BY <1>4, <2>1, PartIsThere
  <2>3. /\ LinesGood(Part.planes, n, Part.at, Part.rest) /\ dst = Part.rest + Left
        /\ Part.bytes = Copied(job.bytes - Left, Left)
    BY <2>1, <2>2 DEF PartGood
  <2>4. PlanesGood(Part.planes, n, bytesoftype, Part.at + 1 + HeaderLen, Part.rest)
    BY <2>1, <2>3 DEF LinesGood
  <2>5. Part.rest \in Nat  BY <2>4, PlanesGoForward
  <2>6. PlanesEnd = Part.rest /\ Rows(n) = Lines  BY <1>1, <1>4 DEF PlanesEnd, Rows
  <2>7. Part.rest <= dst /\ Rows(n) \in 1..16  BY <1>2, <2>1, <2>3, <2>5, <2>6
  <2> QED BY <2>3, <2>4, <2>5, <2>6, <2>7
<1> QED BY <1>1, <1>3, <1>4

\* Plane i of the part that is read.
LEMMA PlaneIsThere ==
  ASSUME IInv, RoundInv, pc \in Reading, ReadingPlanes, i < bytesoftype
  PROVE  /\ i < Len(Part.planes) /\ Enc.at = At(Part.planes, i, PlanesEnd) /\ Enc.at \in Nat
         /\ PlaneGood(Enc, PlaneOf(n, i), Rows(n)) /\ PlaneOf(n, i) \in PlaneValues
         /\ Enc.at + PlaneSize(Enc) = At(Part.planes, i + 1, PlanesEnd)
         /\ Enc.at + PlaneSize(Enc) <= dst
PROOF
<1> DEFINE ps == Part.planes
           size == [k \in 1..Len(ps) |-> PlaneSize(ps[k])]
<1>1. PICK from : PlanesGood(ps, n, bytesoftype, from, PlanesEnd)  BY PlanesAreThere
<1>2. PlanesEnd \in Nat /\ PlanesEnd <= dst  BY PlanesAreThere
<1>3. job \in Jobs /\ n \in Nat /\ i \in Nat /\ dst \in Nat  BY WhileReading
<1>4. bytesoftype \in Nat  BY <1>3, JobFacts
<1>5. /\ Len(ps) = bytesoftype /\ Chained(ps, size, from, PlanesEnd)
      /\ \A k \in 1..Len(ps) : PlaneGood(ps[k], PlaneOf(n, k - 1), Rows(n))
  BY <1>1 DEF PlanesGood
<1>6. Enc = ps[i + 1]  BY DEF Enc, Part
<1> HIDE DEF ps
<1>7. i < Len(ps) /\ i \in 0..Len(ps) /\ i + 1 \in 0..Len(ps) /\ i + 1 \in 1..Len(ps)
      /\ (i + 1) - 1 = i
  BY <1>3, <1>4, <1>5
<1>8. PlaneGood(Enc, PlaneOf(n, i), Rows(n))  BY <1>5, <1>6, <1>7
<1>9. Enc.at = At(ps, i, PlanesEnd)  BY <1>6, <1>7 DEF At
<1>10. size[i + 1] = PlaneSize(Enc)  BY <1>6, <1>7
<1> HIDE DEF size
<1>11. At(ps, i, PlanesEnd) \in Nat  BY <1>5, <1>7 DEF Chained
<1>12. ps[i + 1].at + size[i + 1] = At(ps, i + 1, PlanesEnd)
       /\ At(ps, i + 1, PlanesEnd) \in Nat /\ At(ps, i + 1, PlanesEnd) <= PlanesEnd
       /\ size[i + 1] \in Nat
  BY <1>5, <1>7 DEF Chained
<1>13. Enc.at + PlaneSize(Enc) = At(ps, i + 1, PlanesEnd)  BY <1>6, <1>10, <1>12
<1>14. Enc.at + PlaneSize(Enc) <= dst  BY <1>2, <1>3, <1>12, <1>13
<1>15. PlaneOf(n, i) \in PlaneValues  BY <1>3, PlanesOfBlocks
<1> QED BY <1>7, <1>8, <1>9, <1>11, <1>13, <1>14, <1>15 DEF ps

-----------------------------------------------------------------------------

\* A piece of the input lands where it belongs.
LEMMA FilledIsRight ==
  ASSUME job' = job, output = [o \in 0..(job.bytes - 1) |-> output[o]],
         NEW piece, output' = Filled(piece),
         \A o \in DOMAIN piece : o \in 0..(job.bytes - 1) => piece[o] = job.source[o]
  PROVE  /\ output' = [o \in 0..(job.bytes - 1) |-> output'[o]]
         /\ \A o \in 0..(job.bytes - 1) : Right(o) => Right(o)'
         /\ \A o \in 0..(job.bytes - 1) : o \in DOMAIN piece => Right(o)'
PROOF
<1> DEFINE D == 0..(job.bytes - 1)
<1>1. DOMAIN output = D  OBVIOUS
<1>2. output' = [o \in D |-> IF o \in DOMAIN piece THEN piece[o] ELSE output[o]]
  BY <1>1 DEF Filled
<1> HIDE DEF D
<1>3. \A o \in D : output'[o] = IF o \in DOMAIN piece THEN piece[o] ELSE output[o]
  BY <1>2
<1>4. output' = [o \in D |-> output'[o]]  BY <1>2, <1>3
<1>5. \A o \in D : Right(o) => Right(o)'  BY <1>3 DEF Right, D
<1>6. \A o \in D : o \in DOMAIN piece => Right(o)'  BY <1>3 DEF Right, D
<1> QED BY <1>4, <1>5, <1>6 DEF D

\* What was restored stays.
LEMMA RestoredStays ==
  ASSUME job' = job, \A o \in 0..(job.bytes - 1) : Right(o) => Right(o)'
  PROVE  \A m : Restored(m) => Restored(m)'
  BY DEF Restored

LEMMA PlaneStaysRestored ==
  ASSUME job' = job, n' = n, job \in Jobs, n \in Nat, n <= BlockCount,
         \A o \in 0..(job.bytes - 1) : Right(o) => Right(o)',
         NEW p \in 0..(bytesoftype - 1), NEW m \in 0..(16 * Rows(n)), PlaneRestored(p, m)
  PROVE  PlaneRestored(p, m)'
PROOF
<1>1. Rows(n) \in 0..16  BY BlockBytes
<1>2. ASSUME NEW k \in 0..(m - 1) PROVE Right(Offset(n, p, k))'
  <2>1. k \in Nat /\ k < 16 * Rows(n)  BY <1>1
  <2>2. Offset(n, p, k) \in 0..(job.bytes - 1)  BY <2>1, OffsetInBlock
  <2>3. Right(Offset(n, p, k))  BY DEF PlaneRestored
  <2>4. \A o \in 0..(job.bytes - 1) : Right(o) => output'[o] = job'.source[o]  BY DEF Right
  <2>5. output'[Offset(n, p, k)] = job'.source[Offset(n, p, k)]  BY <2>2, <2>3, <2>4
  <2>6. Offset(n, p, k)' = Offset(n, p, k)  BY DEF Offset, bytesoftype
  <2> QED BY <2>5, <2>6 DEF Right
<1> QED BY <1>2 DEF PlaneRestored

LEMMA CellsOfRows ==
  ASSUME job \in Jobs, NEW b \in Nat, b <= BlockCount
  PROVE  16 * Rows(b) \in Nat
PROOF
<1>1. \A x \in 0..16 : 16 * x \in Nat  OBVIOUS
<1>2. Rows(b) \in 0..16  BY BlockBytes
<1> QED BY <1>1, <1>2

\* Cells of a plane land in the output.
LEMMA CellsLand ==
  ASSUME job' = job, n' = n, job \in Jobs, n \in Nat, n <= BlockCount,
         output = [o \in 0..(job.bytes - 1) |-> output[o]],
         i \in 0..(bytesoftype - 1), NEW k \in Nat, NEW len \in Nat, k + len <= 16 * Rows(n),
         NEW value, \A m \in k..(k + len - 1) : value[m - k] = PlaneOf(n, i)[m],
         output' = Filled(PlaneBytes(k, len, value)), PlaneRestored(i, k)
  PROVE  /\ output' = [o \in 0..(job.bytes - 1) |-> output'[o]]
         /\ \A o \in 0..(job.bytes - 1) : Right(o) => Right(o)'
         /\ \A m \in 0..(k + len - 1) : output'[Offset(n, i, m)] = job.source[Offset(n, i, m)]
PROOF
<1> DEFINE piece == PlaneBytes(k, len, value)
<1>1. 16 * Rows(n) \in Nat /\ \A m \in Nat : m < k + len => m < 16 * Rows(n)
  <2>1. 16 * Rows(n) \in Nat  BY CellsOfRows
  <2> QED BY <2>1
<1>2. DOMAIN piece = {Offset(n, i, m) : m \in k..(k + len - 1)}  BY DEF PlaneBytes
<1>3. ASSUME NEW m \in k..(k + len - 1)
      PROVE  /\ Offset(n, i, m) \in DOMAIN piece /\ Offset(n, i, m) \in 0..(job.bytes - 1)
             /\ piece[Offset(n, i, m)] = job.source[Offset(n, i, m)]
  <2>0. m \in Nat /\ m < k + len  OBVIOUS
  <2>1. m \in Nat /\ m < 16 * Rows(n) /\ m \in 0..(16 * Rows(n) - 1)  BY <1>1, <2>0
  <2>2. /\ Offset(n, i, m) \in 0..(job.bytes - 1)
        /\ (Offset(n, i, m) - i) \div bytesoftype - n * 256 = m
    BY <2>1, OffsetInBlock
  <2>3. PlaneOf(n, i)[m] = job.source[Offset(n, i, m)]  BY <2>1, PlaneHoldsInput
  <2>4. piece[Offset(n, i, m)] = value[(Offset(n, i, m) - i) \div bytesoftype - n * 256 - k]
    BY <1>2 DEF PlaneBytes
  <2>5. (Offset(n, i, m) - i) \div bytesoftype - n * 256 - k = m - k  BY <2>2
  <2>6. Offset(n, i, m) \in DOMAIN piece  BY <1>2
  <2> HIDE DEF piece
  <2> QED BY <2>2, <2>3, <2>4, <2>5, <2>6
<1> HIDE DEF piece
<1>4. ASSUME NEW o \in DOMAIN piece PROVE piece[o] = job.source[o]
  <2>1. PICK m \in k..(k + len - 1) : o = Offset(n, i, m)  BY <1>2
  <2> QED BY <1>3, <2>1
<1>5. /\ output' = [o \in 0..(job.bytes - 1) |-> output'[o]]
      /\ \A o \in 0..(job.bytes - 1) : Right(o) => Right(o)'
      /\ \A o \in 0..(job.bytes - 1) : o \in DOMAIN piece => Right(o)'
  BY <1>4, FilledIsRight DEF piece
<1>6. ASSUME NEW m \in 0..(k + len - 1)
      PROVE  output'[Offset(n, i, m)] = job.source[Offset(n, i, m)]
  <2>0. m \in Nat /\ m < k + len  OBVIOUS
  <2>1. m \in Nat /\ m < 16 * Rows(n)  BY <1>1, <2>0
  <2>2. Offset(n, i, m) \in 0..(job.bytes - 1)  BY <2>1, OffsetInBlock
  <2>3. Right(Offset(n, i, m)) \/ Offset(n, i, m) \in DOMAIN piece
    <3>1. CASE m < k
      <4>1. m \in 0..(k - 1)  BY <3>1
      <4> QED BY <4>1 DEF PlaneRestored
    <3>2. CASE m >= k
      <4>1. m \in k..(k + len - 1)  BY <3>2
      <4> QED BY <1>3, <4>1
    <3> QED BY <3>1, <3>2
  <2>4. \A o \in 0..(job.bytes - 1) :
          (Right(o) \/ o \in DOMAIN piece) => output'[o] = job'.source[o]
    BY <1>5 DEF Right
  <2> QED BY <2>2, <2>3, <2>4
<1> QED BY <1>5, <1>6

-----------------------------------------------------------------------------
(* What is read: the steps of the decompression *)

LEMMA ReadingIsKept ==
  ASSUME IInv, RoundInv, UNCHANGED compressed, pc \in Reading \union {"done"}, pc' \in Reading,
         n' <= BlockCount, WhatIsRead'
  PROVE  RoundInv'
PROOF
<1>1. job' = job /\ out' = out /\ dst' = dst  BY DEF compressed
<1>2. StreamGood(out, dst) /\ Len(out) = Parts  BY WhileReading
<1>3. StreamGood(out, dst)'  BY <1>1, <1>2, GoodStays
<1>4. BlockCount' = BlockCount /\ Parts' = Parts  BY <1>1, PlanesStay
<1>5. WhereInStream'  BY <1>1, <1>2, <1>3, <1>4 DEF WhereInStream, Open, Reading
<1>6. InBlock'  BY DEF InBlock, Reading
<1> QED BY <1>5, <1>6 DEF RoundInv

LEMMA PlacesStay ==
  ASSUME UNCHANGED compressed, n' = n
  PROVE  /\ job' = job /\ out' = out /\ dst' = dst /\ Part' = Part /\ PlanesEnd' = PlanesEnd
         /\ \A e : ElementPlace(e)' = ElementPlace(e)
PROOF
<1>1. job' = job /\ out' = out /\ dst' = dst  BY DEF compressed
<1>2. Part' = Part  BY <1>1 DEF Part
<1>3. PlanesEnd' = PlanesEnd  BY <1>1, <1>2, PlanesStay DEF PlanesEnd
<1>4. \A e : ElementPlace(e)' = ElementPlace(e)
  BY <1>1, <1>2, PlanesStay DEF ElementPlace
<1> QED BY <1>1, <1>2, <1>3, <1>4

\* A step that adds to the planes that are restored.
LEMMA MoreRestored ==
  ASSUME IInv, RoundInv, pc \in Reading, UNCHANGED compressed, n' = n, ReadingPlanes,
         i <= bytesoftype, i' \in Nat,
         \A o \in 0..(job.bytes - 1) : Right(o) => Right(o)',
         \A p \in 0..(i' - 1) : p < i \/ PlaneRestored(p, 16 * Rows(n))'
  PROVE  ReadingPlanes'
PROOF
<1>1. job \in Jobs /\ n \in Nat /\ i \in Nat /\ BlockCount \in Nat /\ n <= BlockCount
  BY WhileReading
<1>2. job' = job /\ Part' = Part  BY PlacesStay
<1>3. Restored(n * BlockSize)'
  <2>1. \A m : Restored(m) => Restored(m)'  BY <1>2, RestoredStays
  <2>2. Restored(n * BlockSize)  BY DEF ReadingPlanes
  <2> QED BY <1>2, <2>1, <2>2, PlanesStay
<1>4. ASSUME NEW p \in 0..(i' - 1) PROVE PlaneRestored(p, 16 * Rows(n))'
  <2>1. CASE p < i
    <3>1. bytesoftype \in Nat  BY <1>1, JobFacts
    <3>2. p \in 0..(bytesoftype - 1) /\ p \in 0..(i - 1)  BY <1>1, <2>1, <3>1
    <3>3. PlaneRestored(p, 16 * Rows(n))  BY <3>2 DEF ReadingPlanes
    <3>4. 16 * Rows(n) \in 0..(16 * Rows(n))
      <4>1. 16 * Rows(n) \in Nat  BY <1>1, CellsOfRows
      <4> HIDE DEF Rows
      <4> QED BY <4>1
    <3>5. \A m \in 0..(16 * Rows(n)) : PlaneRestored(p, m) => PlaneRestored(p, m)'
      BY <1>1, <1>2, <3>2, PlaneStaysRestored
    <3> QED BY <1>2, <3>3, <3>4, <3>5, PlanesStay
  <2> QED BY <2>1
<1>5. Part.kind = (IF n < BlockCount THEN "planes" ELSE "partial")
      /\ (n = BlockCount => Remaining > 0 /\ Lines > 0)
  BY DEF ReadingPlanes
<1> QED BY <1>2, <1>3, <1>4, <1>5, PlanesStay DEF ReadingPlanes

LEMMA DecompressionStarts ==
  ASSUME IInv, RoundInv, StartDecompress
  PROVE  RoundInv'
PROOF
<1>1. pc = "done" /\ UNCHANGED compressed  BY DEF StartDecompress
<1>2. /\ job \in Jobs /\ BlockCount \in Nat /\ StreamGood(out, dst) /\ dst \in Nat
      /\ Len(out) = Parts /\ Len(out) \in Nat /\ Remaining \in Nat
  BY <1>1, WhileReading
<1>3. bytesoftype \in Nat /\ HeaderLen \in Nat /\ BlockSize \in Nat  BY <1>2, JobFacts
<1>4. At(out, 0, dst) = 0  BY <1>2 DEF StreamGood
<1>5. BlockCount > 0 => dst >= HeaderLen + bytesoftype
  <2> SUFFICES ASSUME BlockCount > 0 PROVE dst >= HeaderLen + bytesoftype
    OBVIOUS
  <2>1. 0 < Len(out) /\ 0 \in Nat  BY <1>2 DEF Parts
  <2>2. /\ out[0 + 1].at = At(out, 0, dst) /\ At(out, 0, dst) \in Nat
        /\ At(out, 0 + 1, dst) \in Nat /\ At(out, 0 + 1, dst) <= dst
        /\ PartGood(out[0 + 1], 0, At(out, 0 + 1, dst))
    BY <1>2, <2>1, PartOfStream
  <2>3. At(out, 0 + 1, dst) >= out[0 + 1].at + HeaderLen + bytesoftype
    BY <1>2, <2>1, <2>2, PartIsLong
  <2> QED BY <1>2, <1>3, <1>4, <2>2, <2>3
<1>6. /\ pc' = "read" /\ n' = 0 /\ src' = 0
      /\ output' = [o \in 0..(job.bytes - 1) |-> Unset]
  BY <1>2, <1>3, <1>5 DEF StartDecompress
<1>7. job' = job /\ out' = out /\ dst' = dst  BY <1>1 DEF compressed
<1>8. WhatIsRead'
  <2>1. output' = [o \in 0..(job'.bytes - 1) |-> output'[o]]
    <3> DEFINE D == 0..(job.bytes - 1)
    <3>1. output' = [o \in D |-> Unset]  BY <1>6
    <3> HIDE DEF D
    <3>2. output' = [o \in D |-> output'[o]]  BY <3>1
    <3> QED BY <1>7, <3>2 DEF D
  <2>2. At(out', n', dst') = 0  BY <1>4, <1>6, <1>7
  <2>3. Restored(n * BlockSize)'
    <3>1. n' * BlockSize' = 0  BY <1>3, <1>6, <1>7, PlanesStay
    <3>2. Restored(0)'
      <4>1. \A o \in 0..(job'.bytes - 1) : ~(o < 0)  OBVIOUS
      <4> QED BY <4>1 DEF Restored
    <3> QED BY <3>1, <3>2
  <2> QED BY <1>6, <2>1, <2>2, <2>3 DEF WhatIsRead
<1> QED BY <1>1, <1>2, <1>6, <1>8, ReadingIsKept DEF Reading

LEMMA BlockIsRead ==
  ASSUME IInv, RoundInv, ReadBlock
  PROVE  RoundInv'
PROOF
<1>1. pc = "read" /\ n < BlockCount /\ UNCHANGED compressed  BY DEF ReadBlock
<1>2. pc \in Reading  BY <1>1 DEF Reading
<1>3. /\ job \in Jobs /\ n \in Nat /\ BlockCount \in Nat /\ dst \in Nat
      /\ src = At(out, n, dst) /\ src \in Nat /\ Restored(n * BlockSize)
      /\ output = [o \in 0..(job.bytes - 1) |-> output[o]]
  BY <1>1, <1>2, WhileReading DEF RoundInv, WhatIsRead
<1> DEFINE end == At(out, n + 1, dst)
<1>4. /\ n < Len(out) /\ Part.at = src /\ end \in Nat /\ end <= dst /\ PartGood(Part, n, end)
      /\ Part = out[n + 1] /\ Len(out) \in Nat
  BY <1>1, <1>2, <1>3, PartIsThere, WhileReading DEF Part
<1>5. bytesoftype \in Nat /\ bytesoftype > 0 /\ HeaderLen \in Nat /\ BlockSize \in Nat
  BY <1>3, JobFacts
<1>6. ~(src + HeaderLen >= dst)
  <2>1. end >= Part.at + HeaderLen + bytesoftype  BY <1>1, <1>3, <1>4, PartIsLong
  <2> HIDE DEF end
  <2> QED BY <1>3, <1>4, <1>5, <2>1
<1>7. ~(Len(out) <= n)  BY <1>3, <1>4
<1>8. \/ /\ Part.kind = "copy"
         /\ output' = Filled(Part.bytes)
         /\ src' = src + 1 + BlockSize /\ n' = n + 1 /\ pc' = pc
      \/ /\ Part.kind = "lz"
         /\ pc' = "unlz" /\ src' = src + 1 /\ i' = 0 /\ n' = n /\ output' = output
      \/ /\ Part.kind \notin {"copy", "lz"}
         /\ pc' = "plane" /\ src' = src + HeaderLen /\ i' = 0 /\ n' = n /\ output' = output
  BY <1>4, <1>6, <1>7 DEF ReadBlock
<1>9. job' = job /\ out' = out /\ dst' = dst  BY <1>1 DEF compressed
<1>10. \A o : output' = output => (Right(o) => Right(o)')  BY <1>9 DEF Right
<1>11. Part.kind \in {"copy", "lz", "planes"}
  BY <1>1, <1>3, <1>4 DEF PartGood
<1>12. n + 1 <= BlockCount  BY <1>1, <1>3
<1>13. CASE Part.kind = "copy"
  <2>1. output' = Filled(Part.bytes) /\ src' = src + 1 + BlockSize /\ n' = n + 1 /\ pc' = "read"
    BY <1>1, <1>8, <1>13
  <2>2. Part.bytes = Copied(n * BlockSize, BlockSize) /\ end = src + 1 + BlockSize
    BY <1>4, <1>13 DEF PartGood
  <2> HIDE DEF end
  <2>3. DOMAIN Part.bytes = (n * BlockSize)..(n * BlockSize + BlockSize - 1)
        /\ \A o \in DOMAIN Part.bytes : Part.bytes[o] = job.source[o]
    BY <2>2 DEF Copied
  <2>4. /\ output' = [o \in 0..(job.bytes - 1) |-> output'[o]]
        /\ \A o \in 0..(job.bytes - 1) : Right(o) => Right(o)'
        /\ \A o \in 0..(job.bytes - 1) : o \in DOMAIN Part.bytes => Right(o)'
    BY <1>3, <1>9, <2>1, <2>3, FilledIsRight
  <2>5. Restored(n * BlockSize)'
    <3>1. ASSUME NEW o \in 0..(job.bytes - 1), o < (n + 1) * BlockSize PROVE Right(o)'
      <4>1. /\ n * BlockSize \in Nat /\ (n + 1) * BlockSize = n * BlockSize + BlockSize
        BY <1>3, <1>5
      <4>2. PICK s \in Nat : s = n * BlockSize  BY <4>1
      <4>3. CASE o < s
        <5>1. Right(o)  BY <1>3, <4>2, <4>3 DEF Restored
        <5> QED BY <2>4, <5>1
      <4>4. CASE o >= s
        <5>1. o \in s..(s + BlockSize - 1)  BY <1>5, <3>1, <4>1, <4>2, <4>4
        <5> QED BY <2>3, <2>4, <4>2, <5>1
      <4> QED BY <4>2, <4>3, <4>4
    <3>2. \A o \in 0..(job.bytes - 1) : o < (n + 1) * BlockSize => Right(o)'
      BY <3>1
    <3>3. n' * BlockSize' = (n + 1) * BlockSize  BY <1>9, <2>1, PlanesStay
    <3> QED BY <1>9, <3>2, <3>3 DEF Restored
  <2>6. src' = At(out', n', dst')  BY <1>9, <2>1, <2>2 DEF end
  <2>7. src' \in Nat  BY <1>3, <1>5, <2>1
  <2>8. WhatIsRead'  BY <1>9, <2>1, <2>4, <2>5, <2>6, <2>7 DEF WhatIsRead
  <2> QED BY <1>1, <1>2, <1>12, <2>1, <2>8, ReadingIsKept DEF Reading
<1>14. CASE Part.kind = "lz"
  <2>1. pc' = "unlz" /\ src' = src + 1 /\ i' = 0 /\ n' = n /\ output' = output
    BY <1>8, <1>14
  <2>2. GroupsGood(Part.groups, n, ElementCount, src + 1, end) /\ bytesoftype % 4 = 0
    BY <1>4, <1>14 DEF PartGood
  <2>3. ElementCount \in Nat /\ ElementSize \in {4, 8}  BY <1>3, <2>2, ElementSizes
  <2>4. ElementPlace(0) = src + 1
    <3>1. At(Part.groups, 0, end) = src + 1  BY <2>2 DEF GroupsGood, Chained
    <3>2. 0 \div 8 = 0 /\ 0 % 8 = 0  OBVIOUS
    <3>3. src + 1 \in Int  BY <1>3
    <3> QED BY <3>1, <3>2, <3>3 DEF ElementPlace
  <2>5. ElementPlace(0)' = ElementPlace(0)  BY <1>1, <2>1, PlacesStay
  <2>6. Restored(n * BlockSize + i * ElementSize)'
    <3>1. \A m : Restored(m) => Restored(m)'  BY <1>9, <1>10, <2>1, RestoredStays
    <3>2. n * BlockSize \in Nat  BY <1>3, <1>5
    <3>3. n' * BlockSize' + i' * ElementSize' = n * BlockSize
      BY <1>9, <2>1, <2>3, <3>2, PlanesStay
    <3> QED BY <1>3, <3>1, <3>3
  <2>7. ElementCount' = ElementCount /\ BlockCount' = BlockCount /\ Part' = Part
        /\ job'.bytes = job.bytes
    BY <1>1, <1>9, <2>1, PlanesStay, PlacesStay
  <2>8. src' \in Nat /\ i' <= ElementCount  BY <1>3, <2>1, <2>3
  <2>9. WhatIsRead'
    BY <1>1, <1>3, <1>14, <2>1, <2>4, <2>5, <2>6, <2>7, <2>8 DEF WhatIsRead
  <2> QED BY <1>1, <1>2, <1>3, <2>1, <2>9, ReadingIsKept DEF Reading
<1>15. CASE Part.kind = "planes"
  <2>1. pc' = "plane" /\ src' = src + HeaderLen /\ i' = 0 /\ n' = n /\ output' = output
    BY <1>8, <1>15
  <2>2. PlanesGood(Part.planes, n, bytesoftype, src + HeaderLen, end)
    BY <1>4, <1>15 DEF PartGood
  <2>3. At(Part.planes, 0, end) = src + HeaderLen  BY <2>2 DEF PlanesGood, Chained
  <2>4. PlanesEnd = end  BY <1>1 DEF PlanesEnd
  <2>5. PlanesEnd' = PlanesEnd /\ Part' = Part  BY <1>1, <2>1, PlacesStay
  <2>6. ReadingPlanes'
    <3>1. \A m : Restored(m) => Restored(m)'  BY <1>9, <1>10, <2>1, RestoredStays
    <3>2. Restored(n * BlockSize)'  BY <1>3, <1>9, <2>1, <3>1, PlanesStay
    <3>3. \A p \in 0..(i' - 1) : FALSE  BY <2>1
    <3>4. BlockCount' = BlockCount  BY <1>9, PlanesStay
    <3> QED BY <1>1, <1>3, <1>15, <2>1, <2>5, <3>2, <3>3, <3>4 DEF ReadingPlanes
  <2>7. src' = At(Part.planes, i, PlanesEnd)'  BY <2>1, <2>3, <2>4, <2>5 DEF At
  <2>8. src' \in Nat /\ i' <= bytesoftype' /\ job'.bytes = job.bytes
    BY <1>3, <1>5, <1>9, <2>1, PlanesStay
  <2>9. WhatIsRead'  BY <1>3, <2>1, <2>6, <2>7, <2>8 DEF WhatIsRead
  <2> QED BY <1>1, <1>2, <1>3, <2>1, <2>9, ReadingIsKept DEF Reading
<1> QED BY <1>11, <1>13, <1>14, <1>15

LEMMA Eighths ==
  ASSUME NEW e \in Nat
  PROVE  /\ e \div 8 \in Nat /\ e % 8 \in Places /\ e = 8 * (e \div 8) + (e % 8)
         /\ e % 8 = 7 => (e + 1) \div 8 = (e \div 8) + 1 /\ (e + 1) % 8 = 0
         /\ e % 8 # 7 => (e + 1) \div 8 = e \div 8 /\ (e + 1) % 8 = (e % 8) + 1
  BY DEF Places

\* Group q of an LZ block.
LEMMA GroupIsThere ==
  ASSUME NEW gs, NEW b, NEW count \in Nat, NEW from, NEW to, GroupsGood(gs, b, count, from, to),
         NEW q \in Nat, 8 * q < count
  PROVE  /\ gs[q + 1].at = At(gs, q, to) /\ At(gs, q, to) \in Nat
         /\ gs[q + 1].at + GroupSize(gs[q + 1].group, ElementSize) = At(gs, q + 1, to)
         /\ At(gs, q + 1, to) \in Nat /\ At(gs, q + 1, to) <= to /\ to \in Nat
         /\ GroupGood(gs[q + 1].group, b, 8 * q)
PROOF
<1> DEFINE size == [k \in 1..Len(gs) |-> GroupSize(gs[k].group, ElementSize)]
<1>1. /\ 8 * Len(gs) = count /\ Chained(gs, size, from, to) /\ IsSeq(gs) /\ to \in Nat
      /\ \A k \in 1..Len(gs) : GroupGood(gs[k].group, b, 8 * (k - 1))
  BY DEF GroupsGood, Chained
<1>2. Len(gs) \in Nat  BY <1>1, Appending
<1>3. q < Len(gs) /\ q \in 0..Len(gs) /\ q + 1 \in 0..Len(gs) /\ q + 1 \in 1..Len(gs)
      /\ (q + 1) - 1 = q
  BY <1>1, <1>2
<1>4. size[q + 1] = GroupSize(gs[q + 1].group, ElementSize)  BY <1>3
<1> HIDE DEF size
<1>5. At(gs, q, to) \in Nat /\ At(gs, q + 1, to) \in Nat /\ At(gs, q + 1, to) <= to
      /\ gs[q + 1].at + size[q + 1] = At(gs, q + 1, to)
  BY <1>1, <1>3 DEF Chained
<1>6. gs[q + 1].at = At(gs, q, to)  BY <1>3 DEF At
<1>7. GroupGood(gs[q + 1].group, b, 8 * ((q + 1) - 1))  BY <1>1, <1>3
<1> QED BY <1>1, <1>3, <1>4, <1>5, <1>6, <1>7

\* Where an element of the LZ block that is read begins and ends.
LEMMA ElementIsThere ==
  ASSUME NEW e \in Nat, NEW to, bytesoftype % 4 = 0, job \in Jobs,
         GroupsGood(Part.groups, n, ElementCount, Part.at + 1, to), e < ElementCount,
         to = At(out, n + 1, dst)
  PROVE  LET g == Part.groups[(e \div 8) + 1]
             j == e % 8
         IN  /\ g.at \in Nat /\ j \in Places
             /\ g.at + GroupSize(g.group, ElementSize) <= to
             /\ ElementPlace(e) = g.at + GroupUpto(g.group, j, ElementSize)
             /\ ElementPlace(e + 1) = g.at + GroupUpto(g.group, j + 1, ElementSize)
             /\ GroupGood(g.group, n, 8 * (e \div 8)) /\ 8 * (e \div 8) + j = e
PROOF
<1> DEFINE q == e \div 8
           j == e % 8
           gs == Part.groups
           g == gs[q + 1]
<1>1. /\ q \in Nat /\ j \in Places /\ e = 8 * q + j
      /\ j = 7 => (e + 1) \div 8 = q + 1 /\ (e + 1) % 8 = 0
      /\ j # 7 => (e + 1) \div 8 = q /\ (e + 1) % 8 = j + 1
  BY Eighths
<1>2. j \in 0..7  BY <1>1 DEF Places
<1>3. ElementCount \in Nat /\ ElementSize \in {4, 8}  BY ElementSizes
<1> DEFINE place == ElementPlace(e)
           next == ElementPlace(e + 1)
<1>4. /\ place = At(gs, q, to) + (IF j = 0 THEN 0 ELSE GroupUpto(g.group, j, ElementSize))
      /\ next = At(gs, (e + 1) \div 8, to)
                  + (IF (e + 1) % 8 = 0 THEN 0
                     ELSE GroupUpto(gs[((e + 1) \div 8) + 1].group, (e + 1) % 8, ElementSize))
  BY DEF ElementPlace
<1> HIDE DEF q, j, gs, place, next
<1>5. 8 * q < ElementCount  BY <1>1, <1>2, <1>3
<1>6. /\ g.at = At(gs, q, to) /\ At(gs, q, to) \in Nat
      /\ g.at + GroupSize(g.group, ElementSize) = At(gs, q + 1, to)
      /\ At(gs, q + 1, to) \in Nat /\ At(gs, q + 1, to) <= to
      /\ GroupGood(g.group, n, 8 * q)
  BY <1>1, <1>3, <1>5, GroupIsThere DEF gs
<1>7. /\ GroupUpto(g.group, 0, ElementSize) = 0
      /\ GroupUpto(g.group, 8, ElementSize) = GroupSize(g.group, ElementSize)
      /\ \A k \in Places : GroupUpto(g.group, k, ElementSize) \in Nat
      /\ GroupSize(g.group, ElementSize) \in Nat
  BY <1>3, GroupInPlaces
<1> DEFINE upto(k) == GroupUpto(g.group, k, ElementSize)
<1>8. place = g.at + upto(j)
  <2>1. upto(j) \in Nat  BY <1>1, <1>7
  <2> QED BY <1>4, <1>6, <1>7, <2>1
<1>9. next = g.at + upto(j + 1)
  <2>1. CASE j = 7
    <3>1. next = At(gs, q + 1, to) + 0  BY <1>1, <1>4, <2>1
    <3>2. j + 1 = 8  BY <2>1
    <3> QED BY <1>6, <1>7, <3>1, <3>2
  <2>2. CASE j # 7
    <3>1. (e + 1) % 8 # 0  BY <1>1, <1>2, <2>2
    <3>2. next = At(gs, q, to) + upto(j + 1)  BY <1>1, <1>4, <2>2, <3>1
    <3> QED BY <1>6, <3>2
  <2> QED BY <2>1, <2>2
<1> HIDE DEF upto
<1> QED BY <1>1, <1>6, <1>8, <1>9 DEF q, j, gs, place, next, upto

\* What follows the bytes that are restored lands in the output.
LEMMA PieceLands ==
  ASSUME job' = job, output = [o \in 0..(job.bytes - 1) |-> output[o]],
         NEW s \in Nat, NEW w \in Nat, Restored(s), NEW piece, DOMAIN piece = s..(s + w - 1),
         \A o \in DOMAIN piece : piece[o] = job.source[o], output' = Filled(piece)
  PROVE  /\ output' = [o \in 0..(job.bytes - 1) |-> output'[o]]
         /\ \A m \in Nat : m <= s + w => Restored(m)'
PROOF
<1>1. /\ output' = [o \in 0..(job.bytes - 1) |-> output'[o]]
      /\ \A o \in 0..(job.bytes - 1) : Right(o) => Right(o)'
      /\ \A o \in 0..(job.bytes - 1) : o \in DOMAIN piece => Right(o)'
  BY FilledIsRight
<1>2. ASSUME NEW m \in Nat, m <= s + w, NEW o \in 0..(job.bytes - 1), o < m
      PROVE  Right(o)'
  <2>1. CASE o < s
    <3>1. Right(o)  BY <2>1 DEF Restored
    <3> QED BY <1>1, <3>1
  <2>2. CASE o >= s
    <3>1. o \in s..(s + w - 1)  BY <1>2, <2>2
    <3> QED BY <1>1, <3>1
  <2> QED BY <2>1, <2>2
<1> QED BY <1>1, <1>2 DEF Restored

LEMMA CellOfPiece ==
  ASSUME NEW s \in Nat, NEW w \in {4, 8}, NEW o \in s..(s + w - 1)
  PROVE  o - s \in 0..(w - 1) /\ s + (o - s) = o
  OBVIOUS

LEMMA PlaceBefore ==
  ASSUME NEW t \in Nat, NEW s \in Nat, NEW w \in {4, 8}, t + w <= s, NEW k \in 0..(w - 1)
  PROVE  t + k < s /\ t + k \in Nat
  OBVIOUS

LEMMA NextElementStarts ==
  ASSUME NEW x \in Nat, NEW e \in Nat, NEW w \in {4, 8}
  PROVE  /\ x + e * w \in Nat /\ x + (e + 1) * w = (x + e * w) + w
         /\ \A d \in 1..e : (e - d) \in Nat /\ x + (e - d) * w \in Nat
                             /\ x + (e - d) * w + w <= x + e * w
PROOF
<1>1. CASE w = 4  BY <1>1
<1>2. CASE w = 8  BY <1>2
<1> QED BY <1>1, <1>2

\* An element lands in the output.
LEMMA ElementLands ==
  ASSUME job' = job, job \in Jobs, n \in Nat, n < BlockCount, bytesoftype % 4 = 0,
         output = [o \in 0..(job.bytes - 1) |-> output[o]],
         NEW e \in 0..(ElementCount - 1), NEW value,
         \A k \in 0..(ElementSize - 1) : value[k] = Elements(n)[e][k],
         output' = Filled(ElementAt(e, value)),
         NEW s \in Nat, s = n * BlockSize + e * ElementSize, Restored(s)
  PROVE  /\ output' = [o \in 0..(job.bytes - 1) |-> output'[o]]
         /\ \A m \in Nat : m <= s + ElementSize => Restored(m)'
PROOF
<1> DEFINE piece == ElementAt(e, value)
<1>1. ElementSize \in {4, 8}  BY ElementSizes
<1>2. DOMAIN piece = s..(s + ElementSize - 1) /\ \A o \in DOMAIN piece : piece[o] = value[o - s]
  BY DEF ElementAt
<1>3. \A k \in 0..(ElementSize - 1) : Elements(n)[e][k] = job.source[s + k]
  BY ElementsAreBytes
<1> HIDE DEF piece
<1>4. ASSUME NEW o \in DOMAIN piece PROVE piece[o] = job.source[o]
  <2>1. o \in s..(s + ElementSize - 1)  BY <1>2
  <2>2. o - s \in 0..(ElementSize - 1) /\ s + (o - s) = o  BY <1>1, <2>1, CellOfPiece
  <2>3. piece[o] = Elements(n)[e][o - s]  BY <1>2, <2>2
  <2> QED BY <1>3, <2>2, <2>3
<1>5. ElementSize \in Nat  BY <1>1
<1> QED BY <1>2, <1>4, <1>5, PieceLands DEF piece

LEMMA ElementIsRead ==
  ASSUME IInv, RoundInv, LzDecompress
  PROVE  RoundInv'
PROOF
<1>1. pc = "unlz" /\ i < ElementCount /\ UNCHANGED compressed  BY DEF LzDecompress
<1>2. pc \in Reading  BY <1>1 DEF Reading
<1>3. /\ n < BlockCount /\ Part.kind = "lz" /\ src = ElementPlace(i) /\ src \in Nat
      /\ Restored(n * BlockSize + i * ElementSize)
      /\ output = [o \in 0..(job.bytes - 1) |-> output[o]]
  BY <1>1, <1>2 DEF RoundInv, WhatIsRead
<1>4. /\ job \in Jobs /\ n \in Nat /\ i \in Nat /\ BlockCount \in Nat /\ dst \in Nat
  BY <1>2, WhileReading
<1> DEFINE end == At(out, n + 1, dst)
           q == i \div 8
           g == Part.groups[q + 1]
           j == i % 8
           w == ElementSize
<1>5. PartGood(Part, n, end) /\ end \in Nat /\ end <= dst /\ Part = out[n + 1]
  BY <1>2, <1>3, PartIsThere DEF Part
<1>6. GroupsGood(Part.groups, n, ElementCount, Part.at + 1, end) /\ bytesoftype % 4 = 0
  BY <1>3, <1>5 DEF PartGood
<1>7. /\ g.at \in Nat /\ j \in Places /\ g.at + GroupSize(g.group, w) <= end
      /\ ElementPlace(i) = g.at + GroupUpto(g.group, j, w)
      /\ ElementPlace(i + 1) = g.at + GroupUpto(g.group, j + 1, w)
      /\ GroupGood(g.group, n, 8 * q) /\ 8 * q + j = i
  BY <1>1, <1>4, <1>6, ElementIsThere
<1>8. ElementCount \in Nat /\ w \in {4, 8}  BY <1>4, <1>6, ElementSizes
<1>9. /\ GroupUpto(g.group, 0, w) = 0
      /\ GroupUpto(g.group, j, w) \in Nat /\ PlaceSize(g.group, j, w) \in Nat
      /\ GroupUpto(g.group, j, w) + (IF j = 0 THEN 1 ELSE 0) + PlaceSize(g.group, j, w)
           = GroupUpto(g.group, j + 1, w)
      /\ GroupUpto(g.group, j + 1, w) <= GroupSize(g.group, w)
      /\ GroupSize(g.group, w) \in Nat /\ GroupSize(g.group, w) >= 9
      /\ DOMAIN g.group.diffs = {} => GroupSize(g.group, w) = 1 + 8 * w
  BY <1>7, <1>8, GroupInPlaces
<1>10. Group = g /\ Place = j  BY <1>5 DEF Group, Place
<1> DEFINE next == src + (IF j = 0 THEN 1 ELSE 0) + PlaceSize(g.group, j, w)
           raw == DOMAIN g.group.diffs = {}
<1>11. /\ next = ElementPlace(i + 1) /\ ~(next > dst) /\ next \in Nat
       /\ j = 0 => src = g.at /\ ~(src + 2 > dst) /\ (raw => ~(src + 1 + 8 * w > dst))
  <2> HIDE DEF end, q, g, j, w, raw
  <2>1. \A k \in Places : k \in 0..7  BY DEF Places
  <2>2. PICK a \in Nat, z \in Nat, p \in Nat, t \in Nat, u \in Nat :
          /\ a = g.at /\ z = GroupSize(g.group, w) /\ p = PlaceSize(g.group, j, w)
          /\ t = GroupUpto(g.group, j, w) /\ u = GroupUpto(g.group, j + 1, w)
    <3>1. GroupUpto(g.group, j + 1, w) \in Nat  BY <1>9
    <3> QED BY <1>7, <1>9, <3>1
  <2>3. src = a + t /\ t + (IF j = 0 THEN 1 ELSE 0) + p = u /\ u <= z /\ a + z <= end /\ z >= 9
        /\ (j = 0 => t = 0) /\ (raw => z = 1 + 8 * w)
    BY <1>3, <1>7, <1>9, <2>2 DEF raw
  <2>4. next = a + u /\ next = ElementPlace(i + 1)  BY <1>7, <2>2, <2>3
  <2>5. ~(next > dst) /\ next \in Nat  BY <1>4, <1>5, <2>3, <2>4
  <2>6. j = 0 => src = g.at /\ ~(src + 2 > dst)  BY <1>4, <1>5, <2>2, <2>3
  <2>7. j = 0 => (raw => ~(src + 1 + 8 * w > dst))  BY <1>4, <1>5, <1>8, <2>3
  <2> QED BY <2>4, <2>5, <2>6, <2>7
<1> DEFINE value == IF j \in DOMAIN g.group.diffs THEN Known(i - g.group.diffs[j])
                    ELSE g.group.values[j]
<1>12. output' = Filled(ElementAt(i, value)) /\ src' = next /\ i' = i + 1 /\ pc' = pc /\ n' = n
  <2>1. LET raw0 == DOMAIN g.group.diffs = {}
            start == IF j = 0 THEN 1 ELSE 0
            next0 == src + start + PlaceSize(g.group, j, w)
        IN  IF j = 0 /\ g.at # src THEN Garbage
            ELSE IF \/ j = 0 /\ src + 2 > dst
                    \/ j = 0 /\ raw0 /\ src + 1 + 8 * w > dst
                    \/ next0 > dst
            THEN Refuse
            ELSE /\ IF j \in DOMAIN g.group.diffs
                    THEN output' = Filled(ElementAt(i, Known(i - g.group.diffs[j])))
                    ELSE output' = Filled(ElementAt(i, g.group.values[j]))
                 /\ src' = next0 /\ i' = i + 1
                 /\ UNCHANGED <<pc, n, row>>
    BY <1>10 DEF LzDecompress
  <2> HIDE DEF g, j, w
  <2> QED BY <1>11, <2>1
<1> HIDE DEF end, q, g, j, next, raw
<1>13. PICK s \in Nat : s = n * BlockSize + i * w
  <2>1. BlockSize \in Nat  BY <1>4, JobFacts
  <2>2. n * BlockSize \in Nat  BY <1>4, <2>1, Products
  <2> HIDE DEF w
  <2> QED BY <1>4, <1>8, <2>2, NextElementStarts
<1>14. \A k \in 0..(w - 1) : value[k] = Elements(n)[i][k]
  <2>1. CASE j \in DOMAIN g.group.diffs
    <3>1. PICK d : d = g.group.diffs[j]  OBVIOUS
    <3>2. d \in 1..i /\ Elements(n)[i - d] = Elements(n)[i]
      <4>1. \A k \in Places : k \in Nat  BY DEF Places
      <4>2. /\ d \in 1..(8 * q + j)
            /\ Elements(n)[8 * q + j - d] = Elements(n)[8 * q + j]
        BY <1>7, <2>1, <3>1 DEF GroupGood
      <4>3. PICK x \in Nat : x = 8 * q  BY <1>4, Eighths DEF q
      <4>4. 8 * q + j - d = i - d  BY <1>7, <4>1, <4>2, <4>3
      <4> QED BY <1>7, <4>2, <4>4
    <3>3. value = Known(i - d)  BY <2>1, <3>1
    <3>4. i - d \in 0..(ElementCount - 1)  BY <1>1, <1>4, <1>8, <3>2
    <3>5. PICK e \in 0..(ElementCount - 1) : e = i - d  BY <3>4
    <3>6. PICK t \in Nat : t = n * BlockSize + e * w /\ t + w <= s
      <4>1. BlockSize \in Nat  BY <1>4, JobFacts
      <4>2. PICK x \in Nat : x = n * BlockSize  BY <1>4, <4>1, Products
      <4>3. \A f \in 1..i : x + (i - f) * w \in Nat /\ x + (i - f) * w + w <= x + i * w
        BY <1>4, <1>8, <4>2, NextElementStarts
      <4>4. x + e * w \in Nat /\ x + e * w + w <= x + i * w  BY <3>2, <3>5, <4>3
      <4> QED BY <1>13, <4>2, <4>4
    <3>7. ASSUME NEW k \in 0..(w - 1) PROVE value[k] = Elements(n)[i][k]
      <4>1. value[k] = output[t + k]  BY <3>3, <3>5, <3>6 DEF Known
      <4>2. Elements(n)[e][k] = job.source[t + k] /\ t + k < n * BlockSize + BlockSize
        BY <1>3, <1>4, <1>6, <3>5, <3>6, ElementsAreBytes
      <4>3. t + k \in 0..(job.bytes - 1) /\ t + k < s
        <5>1. t + k < s /\ t + k \in Nat  BY <1>8, <3>6, PlaceBefore
        <5>2. /\ BlockStart(n) \in Nat /\ PlanesBytes(n) = BlockSize /\ BlockSize \in Nat
              /\ BlockStart(n) + PlanesBytes(n) <= job.bytes /\ job.bytes \in Nat
          BY <1>3, <1>4, BlockBytes, JobFacts
        <5>3. PICK y \in Nat : y = n * BlockSize  BY <5>2 DEF BlockStart
        <5>4. t + k < y + BlockSize /\ y + BlockSize <= job.bytes
          BY <4>2, <5>2, <5>3 DEF BlockStart
        <5>5. t + k < job.bytes  BY <5>1, <5>2, <5>4
        <5> QED BY <5>1, <5>2, <5>5
      <4>4. output[t + k] = job.source[t + k]  BY <1>3, <1>13, <4>3 DEF Restored, Right
      <4> QED BY <3>2, <3>5, <4>1, <4>2, <4>4
    <3> QED BY <3>7
  <2>2. CASE j \notin DOMAIN g.group.diffs
    <3>1. value = Elements(n)[i]  BY <1>7, <2>2 DEF GroupGood
    <3> QED BY <3>1
  <2> QED BY <2>1, <2>2
<1> HIDE DEF value
<1>15. job' = job  BY <1>1 DEF compressed
<1>16. /\ output' = [o \in 0..(job.bytes - 1) |-> output'[o]]
       /\ \A m \in Nat : m <= s + w => Restored(m)'
  <2>1. i \in 0..(ElementCount - 1)  BY <1>1, <1>4, <1>8
  <2> QED BY <1>3, <1>4, <1>6, <1>12, <1>13, <1>14, <1>15, <2>1, ElementLands
<1>17. Restored(n * BlockSize + i * ElementSize)'
  <2>1. BlockSize \in Nat  BY <1>4, JobFacts
  <2>2. PICK x \in Nat : x = n * BlockSize  BY <1>4, <2>1, Products
  <2>3. x + (i + 1) * w = (x + i * w) + w  BY <1>4, <1>8, <2>2, NextElementStarts
  <2>4. n * BlockSize + (i + 1) * w = s + w  BY <1>13, <2>2, <2>3
  <2>5. s + w \in Nat /\ s + w <= s + w  BY <1>8
  <2>6. \A m : m = s + w => Restored(m)'  BY <1>16, <2>5
  <2>7. n' * BlockSize' + i' * ElementSize' = s + w  BY <1>12, <1>15, <2>4, PlanesStay
  <2> QED BY <2>6, <2>7
<1>18. ElementPlace(i + 1) = ElementPlace(i)'  BY <1>1, <1>12, PlacesStay
<1>19. ElementCount' = ElementCount /\ BlockCount' = BlockCount /\ Part' = Part
       /\ job'.bytes = job.bytes
  BY <1>1, <1>12, <1>15, PlanesStay, PlacesStay
<1>20. i' <= ElementCount  BY <1>1, <1>4, <1>8, <1>12
<1>21. WhatIsRead'
  BY <1>1, <1>3, <1>11, <1>12, <1>16, <1>17, <1>18, <1>19, <1>20 DEF WhatIsRead
<1> QED BY <1>1, <1>2, <1>3, <1>4, <1>12, <1>21, ReadingIsKept DEF Reading

LEMMA LzEndIsRead ==
  ASSUME IInv, RoundInv, EndUnLz
  PROVE  RoundInv'
PROOF
<1>1. /\ pc = "unlz" /\ i = ElementCount /\ pc' = "read" /\ n' = n + 1 /\ UNCHANGED compressed
      /\ src' = src /\ output' = output
  BY DEF EndUnLz, reading
<1>2. pc \in Reading  BY <1>1 DEF Reading
<1>3. /\ n < BlockCount /\ Part.kind = "lz" /\ src = ElementPlace(ElementCount) /\ src \in Nat
      /\ Restored(n * BlockSize + ElementCount * ElementSize)
      /\ output = [o \in 0..(job.bytes - 1) |-> output[o]]
  BY <1>1, <1>2 DEF RoundInv, WhatIsRead
<1>4. job \in Jobs /\ n \in Nat /\ BlockCount \in Nat  BY <1>2, WhileReading
<1>5. PartGood(Part, n, At(out, n + 1, dst)) /\ At(out, n + 1, dst) \in Nat
  BY <1>2, <1>3, PartIsThere
<1>6. GroupsGood(Part.groups, n, ElementCount, Part.at + 1, At(out, n + 1, dst))
      /\ bytesoftype % 4 = 0
  BY <1>3, <1>5 DEF PartGood
<1>7. ElementCount \in Nat /\ ElementCount % 8 = 0 /\ ElementCount * ElementSize = BlockSize
  BY <1>4, <1>6, ElementSizes
<1>8. 8 * Len(Part.groups) = ElementCount /\ Len(Part.groups) \in Nat
  BY <1>6, Appending DEF GroupsGood, Chained
<1>9. src = At(out, n + 1, dst)
  <2>1. ElementCount \div 8 = Len(Part.groups)  BY <1>7, <1>8
  <2>2. ~(Len(Part.groups) < Len(Part.groups))  BY <1>8
  <2>3. At(Part.groups, Len(Part.groups), At(out, n + 1, dst)) = At(out, n + 1, dst)
    BY <2>2 DEF At
  <2> QED BY <1>3, <1>5, <1>7, <2>1, <2>3 DEF ElementPlace
<1>10. job' = job /\ out' = out /\ dst' = dst  BY <1>1 DEF compressed
<1>11. Restored(n * BlockSize)'
  <2>1. BlockSize \in Nat  BY <1>4, JobFacts
  <2>2. (n + 1) * BlockSize = n * BlockSize + BlockSize  BY <1>4, <2>1
  <2>3. Restored((n + 1) * BlockSize)  BY <1>3, <1>7, <2>2
  <2>4. \A o \in 0..(job.bytes - 1) : Right(o) => Right(o)'  BY <1>1, <1>10 DEF Right
  <2>6. n' * BlockSize' = (n + 1) * BlockSize  BY <1>1, <1>10, PlanesStay
  <2>7. \A m : m = (n + 1) * BlockSize => Restored(m)'
    BY <1>10, <2>3, <2>4, RestoredStays
  <2> QED BY <2>6, <2>7
<1>12. src' = At(out', n', dst')  BY <1>1, <1>9, <1>10
<1>13. n + 1 <= BlockCount  BY <1>3, <1>4
<1>14. WhatIsRead'  BY <1>1, <1>3, <1>10, <1>11, <1>12 DEF WhatIsRead
<1> QED BY <1>1, <1>2, <1>13, <1>14, ReadingIsKept DEF Reading

LEMMA PlaneHeadIsRead ==
  ASSUME IInv, RoundInv, ReadPlane
  PROVE  RoundInv'
PROOF
<1>1. pc = "plane" /\ i < bytesoftype /\ UNCHANGED compressed  BY DEF ReadPlane
<1>2. pc \in Reading  BY <1>1 DEF Reading
<1>3. /\ ReadingPlanes /\ src = At(Part.planes, i, PlanesEnd) /\ src \in Nat
      /\ output = [o \in 0..(job.bytes - 1) |-> output[o]]
  BY <1>1, <1>2 DEF RoundInv, WhatIsRead
<1>4. /\ job \in Jobs /\ n \in Nat /\ i \in Nat /\ BlockCount \in Nat /\ dst \in Nat
      /\ n <= BlockCount
  BY <1>2, WhileReading
<1>5. bytesoftype \in Nat /\ i \in 0..(bytesoftype - 1)
  <2>1. bytesoftype \in Nat  BY <1>4, JobFacts
  <2> QED BY <1>1, <1>4, <2>1
<1> DEFINE plane == PlaneOf(n, i)
           rows == Rows(n)
           enc == Enc
           size == PlaneSize(enc)
<1>6. /\ i < Len(Part.planes) /\ enc.at = src /\ PlaneGood(enc, plane, rows)
      /\ plane \in PlaneValues
      /\ src + size = At(Part.planes, i + 1, PlanesEnd) /\ src + size <= dst
  BY <1>1, <1>2, <1>3, PlaneIsThere
<1>7. rows \in 1..16  BY <1>2, <1>3, PlanesAreThere
<1> HIDE DEF plane, rows, enc
<1>8. /\ size \in Nat /\ size > 0
      /\ enc.type \in {"raw", "same", "normal", "normal_rle"}
      /\ enc.type = "raw" => enc.values = plane /\ rows = 16 /\ size = 256
      /\ enc.type # "raw" => enc.rows = rows
      /\ enc.type = "same" => size = 1 /\ \A k \in 0..255 : plane[k] = enc.values[0]
      /\ enc.type \in {"normal", "normal_rle"} =>
           /\ HeadSize(enc) \in Nat
           /\ size = HeadSize(enc) + RowSizes(enc, Cells)
           /\ enc.type = "normal_rle" => 8 + RunSize(DOMAIN enc.mins) <= size
           /\ enc.type = "normal" => (rows + 1) \div 2 + rows <= size
           /\ \A r \in 0..(rows - 1) : LineSize(enc.headers[r], enc.bodies[r]) \in Nat
  <2>1. enc.at \in Nat  BY <1>3, <1>6
  <2>2. ReadsAs(enc, plane, rows)  BY <1>6, <1>7, <2>1, PlaneIsRead
  <2> QED BY <2>2 DEF ReadsAs
<1> HIDE DEF size
<1>9. HeadNeeds <= size /\ HeadNeeds \in Int
  <2>1. CASE enc.type = "raw"
    <3>1. HeadNeeds = 256  BY <2>1 DEF HeadNeeds, enc
    <3> QED BY <1>8, <2>1, <3>1
  <2>2. CASE enc.type = "same"
    <3>1. HeadNeeds = 1  BY <2>2 DEF HeadNeeds, enc
    <3> QED BY <1>8, <2>2, <3>1
  <2>3. CASE enc.type = "normal"
    <3>1. HeadNeeds = (enc.rows + 1) \div 2 + enc.rows  BY <2>3 DEF HeadNeeds, enc
    <3>2. enc.rows = rows  BY <1>8, <2>3
    <3> QED BY <1>7, <1>8, <2>3, <3>1, <3>2
  <2>4. CASE enc.type = "normal_rle"
    <3>1. HeadNeeds = 8 + RunSize(DOMAIN enc.mins)  BY <2>4 DEF HeadNeeds, enc
    <3>2. RunSize(DOMAIN enc.mins) \in Int  BY CountBounds DEF RunSize
    <3> QED BY <1>8, <2>4, <3>1, <3>2
  <2> QED BY <1>8, <2>1, <2>2, <2>3, <2>4
<1>10. ~(src + HeadNeeds > dst)  BY <1>3, <1>4, <1>6, <1>8, <1>9
<1>11. ~(Len(out[n + 1].planes) <= i)
  <2>1. PICK from : PlanesGood(Part.planes, n, bytesoftype, from, PlanesEnd)
    BY <1>2, <1>3, PlanesAreThere
  <2>2. Len(Part.planes) = bytesoftype  BY <2>1 DEF PlanesGood
  <2> QED BY <1>1, <1>4, <1>5, <2>2 DEF Part
<1>12. \/ /\ enc.type = "raw"
          /\ output' = Filled(PlaneBytes(0, 256, enc.values))
          /\ src' = src + 256 /\ i' = i + 1 /\ pc' = pc /\ n' = n
       \/ /\ enc.type = "same"
          /\ output' = Filled(PlaneBytes(0, 16 * enc.rows, [k \in 0..255 |-> enc.values[0]]))
          /\ src' = src + 1 /\ i' = i + 1 /\ pc' = pc /\ n' = n
       \/ /\ enc.type \in {"normal", "normal_rle"}
          /\ pc' = "row" /\ row' = 0 /\ src' = src + HeadSize(enc)
          /\ n' = n /\ i' = i /\ output' = output
  <2> DEFINE value == [k \in 0..255 |-> Enc.values[0]]
  <2>1. IF Len(out[n + 1].planes) <= i \/ Enc.at # src THEN Garbage
        ELSE IF src + HeadNeeds > dst THEN Refuse
        ELSE \/ /\ Enc.type = "raw"
                /\ output' = Filled(PlaneBytes(0, 256, Enc.values))
                /\ src' = src + 256 /\ i' = i + 1
                /\ UNCHANGED <<pc, n, row>>
             \/ /\ Enc.type = "same"
                /\ output' = Filled(PlaneBytes(0, 16 * Enc.rows, value))
                /\ src' = src + 1 /\ i' = i + 1
                /\ UNCHANGED <<pc, n, row>>
             \/ /\ Enc.type \in {"normal", "normal_rle"}
                /\ pc' = "row" /\ row' = 0 /\ src' = src + HeadSize(Enc)
                /\ UNCHANGED <<n, i, output>>
    BY DEF ReadPlane
  <2>2. value = [k \in 0..255 |-> enc.values[0]]  BY DEF enc
  <2> HIDE DEF value
  <2>3. Enc.at = src /\ Enc = enc  BY <1>6 DEF enc
  <2>4. \/ /\ Enc.type = "raw"
           /\ output' = Filled(PlaneBytes(0, 256, Enc.values))
           /\ src' = src + 256 /\ i' = i + 1
           /\ UNCHANGED <<pc, n, row>>
        \/ /\ Enc.type = "same"
           /\ output' = Filled(PlaneBytes(0, 16 * Enc.rows, value))
           /\ src' = src + 1 /\ i' = i + 1
           /\ UNCHANGED <<pc, n, row>>
        \/ /\ Enc.type \in {"normal", "normal_rle"}
           /\ pc' = "row" /\ row' = 0 /\ src' = src + HeadSize(Enc)
           /\ UNCHANGED <<n, i, output>>
    BY <1>10, <1>11, <2>1, <2>3
  <2> QED BY <2>2, <2>3, <2>4
<1>13. n' = n /\ job' = job  BY <1>1, <1>12 DEF compressed
<1>14. PlaneRestored(i, 0)  BY DEF PlaneRestored
<1>15. plane \in [0..255 -> Byte]  BY <1>6 DEF PlaneValues
<1>16. 16 * rows \in Nat /\ 16 * rows <= 256  BY <1>7
<1>17. Part' = Part /\ PlanesEnd' = PlanesEnd /\ BlockCount' = BlockCount /\ Rows(n)' = rows
       /\ bytesoftype' = bytesoftype /\ Enc = Part.planes[i + 1]
  BY <1>1, <1>13, PlacesStay, PlanesStay DEF rows, Enc, Part
<1>18. ASSUME NEW len \in Nat, len = 16 * rows, NEW value,
              \A m \in 0..(len - 1) : value[m] = plane[m],
              output' = Filled(PlaneBytes(0, len, value)), i' = i + 1, pc' = "plane",
              src' = src + size
       PROVE  RoundInv'
  <2>1. \A m \in 0..(0 + len - 1) : value[m - 0] = PlaneOf(n, i)[m]
    BY <1>18 DEF plane
  <2>2. 0 + len <= 16 * Rows(n)  BY <1>18 DEF rows
  <2>3. /\ output' = [o \in 0..(job.bytes - 1) |-> output'[o]]
        /\ \A o \in 0..(job.bytes - 1) : Right(o) => Right(o)'
        /\ \A m \in 0..(0 + len - 1) : output'[Offset(n, i, m)] = job.source[Offset(n, i, m)]
    BY <1>3, <1>4, <1>5, <1>13, <1>14, <1>18, <2>1, <2>2, CellsLand
  <2>5. \A p \in 0..(i' - 1) : p < i \/ PlaneRestored(p, 16 * Rows(n))'
    <3>1. ASSUME NEW p \in 0..(i' - 1), ~(p < i) PROVE PlaneRestored(p, 16 * Rows(n))'
      <4>1. p = i  BY <1>4, <1>18, <3>1
      <4>2. \A m \in 0..(len - 1) : output'[Offset(n, p, m)] = job.source[Offset(n, p, m)]
        BY <1>18, <2>3, <4>1
      <4>3. \A m : Offset(n, p, m)' = Offset(n, p, m)  BY <1>13, PlanesStay
      <4>4. \A m \in 0..(len - 1) : Right(Offset(n, p, m))'
        BY <1>13, <4>2, <4>3 DEF Right
      <4>5. (16 * Rows(n))' = len  BY <1>17, <1>18
      <4> QED BY <4>4, <4>5 DEF PlaneRestored
    <3> QED BY <3>1
  <2>6. i' \in Nat /\ i <= bytesoftype /\ i' <= bytesoftype  BY <1>1, <1>4, <1>5, <1>18
  <2>7. ReadingPlanes'
    BY <1>1, <1>2, <1>3, <1>13, <2>3, <2>5, <2>6, MoreRestored
  <2>8. src' = At(Part.planes, i, PlanesEnd)'
    BY <1>6, <1>17, <1>18 DEF At
  <2>9. src' \in Nat  BY <1>3, <1>8, <1>18
  <2>10. WhatIsRead'
    BY <1>13, <1>17, <1>18, <2>3, <2>6, <2>7, <2>8, <2>9 DEF WhatIsRead
  <2> QED BY <1>1, <1>2, <1>4, <1>13, <1>18, <2>10, ReadingIsKept DEF Reading
<1>19. CASE enc.type = "raw"
  <2>1. /\ output' = Filled(PlaneBytes(0, 256, enc.values)) /\ src' = src + 256 /\ i' = i + 1
        /\ pc' = "plane"
    BY <1>1, <1>12, <1>19
  <2>2. enc.values = plane /\ 256 = 16 * rows /\ size = 256  BY <1>8, <1>19
  <2>3. \A m \in 0..(256 - 1) : enc.values[m] = plane[m]  BY <2>2
  <2> QED BY <1>18, <2>1, <2>2, <2>3
<1>20. CASE enc.type = "same"
  <2>1. /\ output' = Filled(PlaneBytes(0, 16 * rows, [k \in 0..255 |-> enc.values[0]]))
        /\ src' = src + size /\ i' = i + 1 /\ pc' = "plane"
    BY <1>1, <1>8, <1>12, <1>20
  <2> DEFINE value == [k \in 0..255 |-> enc.values[0]]
  <2>2. \A m \in 0..(16 * rows - 1) : value[m] = plane[m]
    <3>1. \A k \in 0..255 : plane[k] = enc.values[0]  BY <1>8, <1>20
    <3>2. \A m \in 0..(16 * rows - 1) : m \in 0..255
      <4> DEFINE cells == 16 * rows
      <4>1. cells \in Nat /\ cells <= 256  BY <1>16
      <4> HIDE DEF cells
      <4>2. \A m \in 0..(cells - 1) : m \in 0..255  BY <4>1
      <4> QED BY <4>2 DEF cells
    <3>3. \A k \in 0..255 : value[k] = enc.values[0]  BY Zenon
    <3> HIDE DEF value
    <3> QED BY <3>1, <3>2, <3>3, Zenon
  <2> HIDE DEF value
  <2> QED BY <1>16, <1>18, <2>1, <2>2 DEF value
<1>21. CASE enc.type \in {"normal", "normal_rle"}
  <2>1. /\ pc' = "row" /\ row' = 0 /\ src' = src + HeadSize(enc)
        /\ i' = i /\ output' = output
    BY <1>12, <1>21
  <2>2. RowSizes(enc, 0..(0 - 1)) = 0 /\ HeadSize(enc) \in Nat
    BY <1>7, <1>8, <1>21, RowAfterRow
  <2>3. Enc' = Enc /\ \A o \in 0..(job.bytes - 1) : Right(o) => Right(o)'
    BY <1>13, <1>17, <2>1 DEF Enc, Part, Right
  <2>4. ReadingPlanes'
    <3>1. i' \in Nat /\ i <= bytesoftype  BY <1>1, <1>4, <1>5, <2>1
    <3>2. \A p \in 0..(i' - 1) : p < i  BY <1>4, <2>1
    <3> QED BY <1>1, <1>2, <1>3, <1>13, <2>3, <3>1, <3>2, MoreRestored
  <2>5. src' = src + HeadSize(enc) + 0  BY <1>3, <2>1, <2>2
  <2>6. (Enc.at + HeadSize(Enc) + RowSizes(Enc, 0..(row - 1)))' = src'
    BY <1>6, <2>1, <2>2, <2>3, <2>5 DEF enc
  <2>7. PlaneRestored(i, 16 * row)'
    <3>1. (16 * row)' = 0  BY <2>1
    <3> QED BY <3>1 DEF PlaneRestored
  <2>8. src' \in Nat /\ row' \in 0..Rows(n)'  BY <1>3, <1>7, <1>17, <2>1, <2>2
  <2>9. Enc'.type \in {"normal", "normal_rle"}  BY <1>21, <2>3 DEF enc
  <2>10. WhatIsRead'
    BY <1>1, <1>3, <1>13, <1>17, <2>1, <2>4, <2>6, <2>7, <2>8, <2>9 DEF WhatIsRead
  <2> QED BY <1>1, <1>2, <1>4, <1>13, <2>1, <2>10, ReadingIsKept DEF Reading
<1> QED BY <1>8, <1>19, <1>20, <1>21

\* The cells of the rows before row r of a plane, and of row r.
LEMMA CellsBefore ==
  ASSUME NEW rows \in 0..16, NEW r \in 0..(rows - 1)
  PROVE  /\ 16 * r \in Nat /\ 16 * r + 16 <= 16 * rows /\ 16 * (r + 1) = 16 * r + 16
         /\ r # 0 => 16 * r - 1 \in 0..(16 * r - 1) /\ 16 * r - 1 \in 0..(16 * rows - 1)
         /\ \A m \in (16 * r)..(16 * r + 16 - 1) : m - 16 * r \in 0..15 /\ 16 * r + (m - 16 * r) = m
  OBVIOUS

LEMMA RowEnds ==
  ASSUME NEW a \in Nat, NEW h \in Nat, NEW t \in Nat, NEW u \in Nat, NEW w \in Nat, NEW d \in Nat,
         t + w <= u, a + (h + u) <= d
  PROVE  ~((a + h + t) + w > d)
  OBVIOUS

LEMMA RowIsRead ==
  ASSUME IInv, RoundInv, ReadRow
  PROVE  RoundInv'
PROOF
<1>1. pc = "row" /\ row < Enc.rows /\ UNCHANGED compressed  BY DEF ReadRow
<1>2. pc \in Reading  BY <1>1 DEF Reading
<1>3. /\ ReadingPlanes /\ i < bytesoftype /\ Enc.type \in {"normal", "normal_rle"}
      /\ row \in 0..Rows(n) /\ PlaneRestored(i, 16 * row)
      /\ src = Enc.at + HeadSize(Enc) + RowSizes(Enc, 0..(row - 1)) /\ src \in Nat
      /\ output = [o \in 0..(job.bytes - 1) |-> output[o]]
  BY <1>1, <1>2 DEF RoundInv, WhatIsRead
<1>4. /\ job \in Jobs /\ n \in Nat /\ i \in Nat /\ BlockCount \in Nat /\ dst \in Nat
      /\ n <= BlockCount
  BY <1>2, WhileReading
<1>5. bytesoftype \in Nat /\ i \in 0..(bytesoftype - 1)
  <2>1. bytesoftype \in Nat  BY <1>4, JobFacts
  <2> QED BY <1>3, <1>4, <2>1
<1> DEFINE plane == PlaneOf(n, i)
           rows == Rows(n)
           enc == Enc
           size == PlaneSize(enc)
<1>6. /\ enc.at \in Nat /\ PlaneGood(enc, plane, rows) /\ plane \in PlaneValues
      /\ enc.at + size <= dst
  BY <1>2, <1>3, PlaneIsThere
<1>7. rows \in 1..16  BY <1>2, <1>3, PlanesAreThere
<1> HIDE DEF plane, rows, enc, size
<1>8. ReadsAs(enc, plane, rows)  BY <1>6, <1>7, PlaneIsRead
<1>9. /\ enc.rows = rows /\ HeadSize(enc) \in Nat /\ size = HeadSize(enc) + RowSizes(enc, Cells)
      /\ \A r \in 0..(rows - 1) :
           /\ LineSize(enc.headers[r], enc.bodies[r]) \in Nat
           /\ DecodeLine(enc.headers[r], MinOf(enc, r), enc.bodies[r], Before(plane, r))
                = RowOf(plane, r)
  BY <1>3, <1>8 DEF ReadsAs, enc, size
<1>10. row \in 0..(rows - 1) /\ rows \in 0..16 /\ row \in Nat
  <2>1. row \in 0..rows /\ row < rows  BY <1>1, <1>3, <1>9 DEF rows, enc
  <2> QED BY <1>7, <2>1
<1> DEFINE w == LineSize(enc.headers[row], enc.bodies[row])
           line == RowOf(plane, row)
<1>11. w \in Nat /\ DecodeLine(enc.headers[row], MinOf(enc, row), enc.bodies[row],
                                Before(plane, row)) = line
  BY <1>9, <1>10
<1> HIDE DEF w, line
<1>12. /\ 16 * row \in Nat /\ 16 * row + 16 <= 16 * rows /\ 16 * (row + 1) = 16 * row + 16
       /\ row # 0 => 16 * row - 1 \in 0..(16 * row - 1) /\ 16 * row - 1 \in 0..(16 * rows - 1)
       /\ \A m \in (16 * row)..(16 * row + 16 - 1) :
            m - 16 * row \in 0..15 /\ 16 * row + (m - 16 * row) = m
  BY <1>10, CellsBefore
<1>13. BeforeRow = Before(plane, row)
  <2>1. CASE row = 0  BY <2>1 DEF BeforeRow, Before
  <2>2. CASE row # 0
    <3>1. Right(Offset(n, i, 16 * row - 1))  BY <1>3, <1>12, <2>2 DEF PlaneRestored
    <3>2. plane[16 * row - 1] = job.source[Offset(n, i, 16 * row - 1)]
      BY <1>4, <1>5, <1>12, <2>2, PlaneHoldsInput DEF plane, rows
    <3> QED BY <2>2, <3>1, <3>2 DEF BeforeRow, Before, Right
  <2> QED BY <2>1, <2>2
<1>14. Min(row) = MinOf(enc, row)  BY DEF Min, MinOf, enc
<1>15. /\ RowSizes(enc, 0..(row - 1)) \in Nat
       /\ RowSizes(enc, 0..row) = RowSizes(enc, 0..(row - 1)) + w
       /\ RowSizes(enc, 0..row) <= RowSizes(enc, Cells)
  <2>1. /\ \A r \in 0..rows : /\ RowSizes(enc, 0..(r - 1)) \in Nat
                              /\ RowSizes(enc, 0..(r - 1)) <= RowSizes(enc, Cells)
        /\ \A r \in 0..(rows - 1) :
             RowSizes(enc, 0..r) = RowSizes(enc, 0..(r - 1)) + LineSize(enc.headers[r], enc.bodies[r])
    BY <1>9, <1>10, RowAfterRow
  <2>2. row \in 0..rows /\ row + 1 \in 0..rows /\ (row + 1) - 1 = row  BY <1>10
  <2>3. RowSizes(enc, 0..((row + 1) - 1)) <= RowSizes(enc, Cells)  BY <2>1, <2>2
  <2> QED BY <1>10, <2>1, <2>2, <2>3 DEF w
<1>16. RowSizes(enc, Cells) \in Nat
  <2>1. /\ RowSizes(enc, 0..(rows - 1)) = RowSizes(enc, Cells)
        /\ \A r \in 0..rows : RowSizes(enc, 0..(r - 1)) \in Nat
    BY <1>9, <1>10, RowAfterRow
  <2>2. rows \in 0..rows  BY <1>7
  <2> QED BY <2>1, <2>2
<1>17. ~(src + w > dst)
  <2>1. PICK a \in Nat, h \in Nat, t \in Nat, u \in Nat :
          /\ a = enc.at /\ h = HeadSize(enc) /\ t = RowSizes(enc, 0..(row - 1))
          /\ u = RowSizes(enc, Cells)
    BY <1>6, <1>9, <1>15, <1>16
  <2>2. src = a + h + t /\ t + w <= u /\ a + (h + u) <= dst
    BY <1>3, <1>6, <1>9, <1>15, <2>1 DEF enc
  <2>3. ~((a + h + t) + w > dst)  BY <1>4, <1>11, <2>2, RowEnds
  <2> QED BY <2>2, <2>3
<1>18. /\ output' = Filled(PlaneBytes(16 * row, 16, line))
       /\ src' = src + w /\ row' = row + 1 /\ pc' = pc /\ n' = n /\ i' = i
  <2>1. LET next == src + LineSize(enc.headers[row], enc.bodies[row])
            decoded == DecodeLine(enc.headers[row], Min(row), enc.bodies[row], BeforeRow)
        IN  IF next > dst THEN Refuse
            ELSE /\ output' = Filled(PlaneBytes(16 * row, 16, decoded))
                 /\ src' = next /\ row' = row + 1
                 /\ UNCHANGED <<pc, n, i>>
    BY DEF ReadRow, enc
  <2>2. DecodeLine(enc.headers[row], Min(row), enc.bodies[row], BeforeRow) = line
    BY <1>11, <1>13, <1>14
  <2> QED BY <1>17, <2>1, <2>2 DEF w
<1>19. job' = job  BY <1>1 DEF compressed
<1>20. /\ output' = [o \in 0..(job.bytes - 1) |-> output'[o]]
       /\ \A o \in 0..(job.bytes - 1) : Right(o) => Right(o)'
       /\ \A m \in 0..(16 * row + 16 - 1) : output'[Offset(n, i, m)] = job.source[Offset(n, i, m)]
  <2>1. \A m \in (16 * row)..(16 * row + 16 - 1) : line[m - 16 * row] = PlaneOf(n, i)[m]
    BY <1>12 DEF line, RowOf, Cells, plane
  <2>2. 16 * row + 16 <= 16 * Rows(n) /\ 16 \in Nat  BY <1>12 DEF rows
  <2> QED BY <1>3, <1>4, <1>5, <1>12, <1>18, <1>19, <2>1, <2>2, CellsLand
<1>21. PlaneRestored(i, 16 * row)'
  <2>1. \A m : Offset(n, i, m)' = Offset(n, i, m)  BY <1>18, <1>19, PlanesStay
  <2>2. 0..((16 * row)' - 1) = 0..(16 * row + 16 - 1)  BY <1>12, <1>18
  <2>3. \A m \in 0..((16 * row)' - 1) : Right(Offset(n, i, m))'
    <3>1. ASSUME NEW m \in 0..((16 * row)' - 1) PROVE Right(Offset(n, i, m))'
      <4>1. output'[Offset(n, i, m)] = job.source[Offset(n, i, m)]  BY <1>20, <2>2
      <4> QED BY <1>19, <2>1, <4>1 DEF Right
    <3> QED BY <3>1
  <2> QED BY <2>3 DEF PlaneRestored
<1>22. ReadingPlanes'
  <2>1. i' \in Nat /\ i <= bytesoftype  BY <1>3, <1>4, <1>5, <1>18
  <2>2. \A p \in 0..(i' - 1) : p < i  BY <1>4, <1>18
  <2> QED BY <1>1, <1>2, <1>3, <1>18, <1>20, <2>1, <2>2, MoreRestored
<1>23. Enc' = Enc /\ Rows(n)' = Rows(n) /\ bytesoftype' = bytesoftype /\ job'.bytes = job.bytes
       /\ BlockCount' = BlockCount
  BY <1>1, <1>18, <1>19, PlanesStay DEF Enc, compressed
<1>24. src' = (Enc.at + HeadSize(Enc) + RowSizes(Enc, 0..(row - 1)))'
  <2>1. 0..(row' - 1) = 0..row
    <3>1. row' - 1 = row  BY <1>10, <1>18
    <3> QED BY <3>1
  <2>2. (Enc.at + HeadSize(Enc) + RowSizes(Enc, 0..(row - 1)))'
           = enc.at + HeadSize(enc) + RowSizes(enc, 0..row)
    BY <1>23, <2>1 DEF enc
  <2>3. src' = (enc.at + HeadSize(enc) + RowSizes(enc, 0..(row - 1))) + w  BY <1>3, <1>18 DEF enc
  <2> QED BY <1>6, <1>9, <1>11, <1>15, <2>2, <2>3
<1>25. src' \in Nat /\ row' \in 0..Rows(n)
  <2>1. row + 1 \in 0..rows  BY <1>10
  <2> QED BY <1>3, <1>11, <1>18, <2>1 DEF rows
<1>26. WhatIsRead'
  BY <1>1, <1>3, <1>18, <1>20, <1>21, <1>22, <1>23, <1>24, <1>25 DEF WhatIsRead
<1> QED BY <1>1, <1>2, <1>4, <1>18, <1>26, ReadingIsKept

LEMMA PlaneEndIsRead ==
  ASSUME IInv, RoundInv, EndPlane
  PROVE  RoundInv'
PROOF
<1>1. /\ pc = "row" /\ row = Enc.rows /\ UNCHANGED compressed
      /\ pc' = "plane" /\ i' = i + 1 /\ n' = n /\ src' = src /\ output' = output
  BY DEF EndPlane, reading
<1>2. pc \in Reading  BY <1>1 DEF Reading
<1>3. /\ ReadingPlanes /\ i < bytesoftype /\ Enc.type \in {"normal", "normal_rle"}
      /\ row \in 0..Rows(n) /\ PlaneRestored(i, 16 * row)
      /\ src = Enc.at + HeadSize(Enc) + RowSizes(Enc, 0..(row - 1)) /\ src \in Nat
      /\ output = [o \in 0..(job.bytes - 1) |-> output[o]]
  BY <1>1, <1>2 DEF RoundInv, WhatIsRead
<1>4. /\ job \in Jobs /\ n \in Nat /\ i \in Nat /\ BlockCount \in Nat /\ dst \in Nat
      /\ n <= BlockCount
  BY <1>2, WhileReading
<1>5. bytesoftype \in Nat /\ i \in 0..(bytesoftype - 1)
  <2>1. bytesoftype \in Nat  BY <1>4, JobFacts
  <2> QED BY <1>3, <1>4, <2>1
<1> DEFINE plane == PlaneOf(n, i)
           rows == Rows(n)
           enc == Enc
           size == PlaneSize(enc)
<1>6. /\ enc.at \in Nat /\ PlaneGood(enc, plane, rows) /\ plane \in PlaneValues
      /\ enc.at + size = At(Part.planes, i + 1, PlanesEnd)
  BY <1>2, <1>3, PlaneIsThere
<1>7. rows \in 1..16  BY <1>2, <1>3, PlanesAreThere
<1> HIDE DEF plane, rows, enc, size
<1>8. ReadsAs(enc, plane, rows)  BY <1>6, <1>7, PlaneIsRead
<1>9. /\ enc.rows = rows /\ HeadSize(enc) \in Nat /\ size = HeadSize(enc) + RowSizes(enc, Cells)
      /\ \A r \in 0..(rows - 1) : LineSize(enc.headers[r], enc.bodies[r]) \in Nat
  BY <1>3, <1>8 DEF ReadsAs, enc, size
<1>10. row = rows  BY <1>1, <1>9 DEF enc
<1>11. RowSizes(enc, 0..(rows - 1)) = RowSizes(enc, Cells) /\ RowSizes(enc, Cells) \in Nat
  <2>1. rows \in 0..16 /\ rows \in 0..rows  BY <1>7
  <2> QED BY <1>9, <2>1, RowAfterRow
<1>12. src = At(Part.planes, i + 1, PlanesEnd)
  <2>1. src = enc.at + HeadSize(enc) + RowSizes(enc, Cells)  BY <1>3, <1>10, <1>11 DEF enc
  <2> QED BY <1>6, <1>9, <1>11, <2>1
<1>13. job' = job /\ Part' = Part /\ PlanesEnd' = PlanesEnd  BY <1>1, PlacesStay
<1>14. \A o \in 0..(job.bytes - 1) : Right(o) => Right(o)'  BY <1>1, <1>13 DEF Right
<1>15. ReadingPlanes'
  <2>1. \A p \in 0..(i' - 1) : p < i \/ PlaneRestored(p, 16 * Rows(n))'
    <3>1. ASSUME NEW p \in 0..(i' - 1), ~(p < i) PROVE PlaneRestored(p, 16 * Rows(n))'
      <4>1. p = i  BY <1>1, <1>4, <3>1
      <4>2. PlaneRestored(p, 16 * Rows(n))  BY <1>3, <1>10, <4>1 DEF rows
      <4>3. \A m : Offset(n, p, m)' = Offset(n, p, m)  BY <1>1, <1>13, PlanesStay
      <4>4. (16 * Rows(n))' = 16 * Rows(n)  BY <1>1, <1>13, PlanesStay
      <4>5. \A m \in 0..(16 * Rows(n) - 1) : Right(Offset(n, p, m))'
        BY <1>1, <1>13, <4>2, <4>3 DEF Right, PlaneRestored
      <4> QED BY <4>4, <4>5 DEF PlaneRestored
    <3> QED BY <3>1
  <2>2. i' \in Nat /\ i <= bytesoftype  BY <1>1, <1>3, <1>4, <1>5
  <2> QED BY <1>1, <1>2, <1>3, <1>14, <2>1, <2>2, MoreRestored
<1>16. i' <= bytesoftype' /\ job'.bytes = job.bytes
  <2>1. i + 1 <= bytesoftype  BY <1>3, <1>4, <1>5
  <2> QED BY <1>1, <1>13, <2>1, PlanesStay
<1>17. src' = At(Part.planes, i, PlanesEnd)'  BY <1>1, <1>12, <1>13 DEF At
<1>18. WhatIsRead'  BY <1>1, <1>3, <1>15, <1>16, <1>17 DEF WhatIsRead
<1> QED BY <1>1, <1>2, <1>4, <1>18, ReadingIsKept DEF Reading

\* The planes of a block cover it.
LEMMA AllPlanesRestored ==
  ASSUME IInv, RoundInv, pc \in Reading, ReadingPlanes, i = bytesoftype
  PROVE  \A m \in Nat : m <= BlockStart(n) + PlanesBytes(n) => Restored(m)
PROOF
<1>1. job \in Jobs /\ n \in Nat /\ n <= BlockCount  BY WhileReading
<1>2. BlockStart(n) \in Nat /\ PlanesBytes(n) \in Nat  BY <1>1, BlockBytes
<1>3. /\ \A o \in 0..(job.bytes - 1) : o < BlockStart(n) => Right(o)
      /\ \A p \in 0..(bytesoftype - 1) : PlaneRestored(p, 16 * Rows(n))
  BY DEF ReadingPlanes, Restored, BlockStart
<1>4. ASSUME NEW m \in Nat, m <= BlockStart(n) + PlanesBytes(n),
             NEW o \in 0..(job.bytes - 1), o < m
      PROVE  Right(o)
  <2>1. CASE o < BlockStart(n)  BY <1>3, <2>1
  <2>2. CASE BlockStart(n) <= o
    <3>1. o \in Nat /\ o < BlockStart(n) + PlanesBytes(n)  BY <1>2, <1>4
    <3>2. PICK p \in 0..(bytesoftype - 1), k \in 0..(16 * Rows(n) - 1) : o = Offset(n, p, k)
      BY <1>1, <2>2, <3>1, BlockIsCovered
    <3> QED BY <1>3, <3>2 DEF PlaneRestored
  <2> QED BY <1>2, <2>1, <2>2
<1> QED BY <1>4 DEF Restored

LEMMA PlanesEndIsRead ==
  ASSUME IInv, RoundInv, EndPlanes
  PROVE  RoundInv'
PROOF
<1>1. /\ pc = "plane" /\ i = bytesoftype /\ UNCHANGED compressed
      /\ src' = src /\ output' = output
      /\ IF n < BlockCount THEN pc' = "read" /\ n' = n + 1
                           ELSE pc' = "unrest" /\ UNCHANGED n
  BY DEF EndPlanes, reading
<1>2. pc \in Reading  BY <1>1 DEF Reading
<1>3. /\ ReadingPlanes /\ src = At(Part.planes, bytesoftype, PlanesEnd) /\ src \in Nat
      /\ output = [o \in 0..(job.bytes - 1) |-> output[o]]
  BY <1>1, <1>2 DEF RoundInv, WhatIsRead
<1>4. job \in Jobs /\ n \in Nat /\ BlockCount \in Nat /\ n <= BlockCount /\ bytesoftype \in Nat
  BY <1>2, WhileReading, JobFacts
<1>5. src = PlanesEnd
  <2>1. PICK from : PlanesGood(Part.planes, n, bytesoftype, from, PlanesEnd)
    BY <1>2, <1>3, PlanesAreThere
  <2>2. Len(Part.planes) = bytesoftype  BY <2>1 DEF PlanesGood
  <2>3. ~(bytesoftype < bytesoftype)  BY <1>4
  <2> QED BY <1>3, <2>2, <2>3 DEF At
<1>6. job' = job /\ out' = out /\ dst' = dst  BY <1>1 DEF compressed
<1>7. \A m : Restored(m) => Restored(m)'
  <2>1. \A o \in 0..(job.bytes - 1) : Right(o) => Right(o)'  BY <1>1, <1>6 DEF Right
  <2> QED BY <1>6, <2>1, RestoredStays
<1>8. \A m \in Nat : m <= BlockStart(n) + PlanesBytes(n) => Restored(m)'
  BY <1>1, <1>2, <1>3, <1>7, AllPlanesRestored
<1>9. CASE n < BlockCount
  <2>1. pc' = "read" /\ n' = n + 1  BY <1>1, <1>9
  <2>2. src' = At(out', n', dst')  BY <1>1, <1>5, <1>6, <1>9, <2>1 DEF PlanesEnd
  <2>3. Restored(n * BlockSize)'
    <3>1. PICK m \in Nat : m = (n + 1) * BlockSize /\ m <= BlockStart(n) + PlanesBytes(n)
      <4>1. /\ PlanesBytes(n) = BlockSize /\ BlockStart(n + 1) = BlockStart(n) + BlockSize
            /\ BlockStart(n) \in Nat /\ BlockSize \in Nat
        BY <1>4, <1>9, BlockBytes, JobFacts
      <4>2. BlockStart(n + 1) \in Nat /\ BlockStart(n + 1) <= BlockStart(n) + PlanesBytes(n)
        BY <4>1
      <4> QED BY <4>2 DEF BlockStart
    <3>2. n' * BlockSize' = m  BY <1>6, <2>1, <3>1, PlanesStay
    <3> QED BY <1>8, <3>1, <3>2
  <2>4. n' <= BlockCount /\ job'.bytes = job.bytes  BY <1>4, <1>6, <1>9, <2>1
  <2>5. WhatIsRead'  BY <1>1, <1>3, <2>1, <2>2, <2>3, <2>4 DEF WhatIsRead
  <2> QED BY <1>1, <1>2, <2>1, <2>4, <2>5, ReadingIsKept DEF Reading
<1>10. CASE n = BlockCount
  <2>1. pc' = "unrest" /\ n' = n  BY <1>1, <1>4, <1>10
  <2>2. Remaining > 0 /\ PlanesEnd = Part.rest
    BY <1>2, <1>3, <1>10, PlanesAreThere DEF ReadingPlanes
  <2>3. Part' = Part /\ BlockCount' = BlockCount /\ Remaining' = Remaining
        /\ job'.bytes = job.bytes
    BY <1>1, <1>6, <2>1, PlacesStay, PlanesStay
  <2>4. Restored(n * BlockSize + LineBytes)'
    <3>1. PICK m \in Nat : m = n * BlockSize + LineBytes /\ m <= BlockStart(n) + PlanesBytes(n)
      <4>1. PlanesBytes(n) = LineBytes /\ BlockStart(n) \in Nat /\ PlanesBytes(n) \in Nat
        BY <1>4, <1>10, BlockBytes
      <4>2. BlockStart(n) + LineBytes \in Nat
            /\ BlockStart(n) + LineBytes <= BlockStart(n) + PlanesBytes(n)
        BY <4>1
      <4> QED BY <4>2 DEF BlockStart
    <3>2. n' * BlockSize' + LineBytes' = m  BY <1>6, <2>1, <3>1, PlanesStay
    <3> QED BY <1>8, <3>1, <3>2
  <2>5. WhatIsRead'
    BY <1>1, <1>3, <1>5, <1>10, <2>1, <2>2, <2>3, <2>4 DEF WhatIsRead
  <2> QED BY <1>1, <1>2, <1>4, <2>1, <2>5, ReadingIsKept DEF Reading
<1> QED BY <1>4, <1>9, <1>10

LEMMA PartialIsRead ==
  ASSUME IInv, RoundInv, ReadPartial
  PROVE  RoundInv'
PROOF
<1>1. pc = "read" /\ n = BlockCount /\ Remaining > 0 /\ UNCHANGED compressed  BY DEF ReadPartial
<1>2. pc \in Reading  BY <1>1 DEF Reading
<1>3. /\ src = At(out, n, dst) /\ src \in Nat /\ Restored(n * BlockSize)
      /\ output = [o \in 0..(job.bytes - 1) |-> output[o]]
  BY <1>1, <1>2 DEF RoundInv, WhatIsRead
<1>4. /\ job \in Jobs /\ n \in Nat /\ BlockCount \in Nat /\ dst \in Nat /\ Len(out) \in Nat
  BY <1>2, WhileReading
<1>5. /\ bytesoftype \in Nat /\ bytesoftype > 0 /\ HeaderLen \in Nat /\ Lines \in 0..16
      /\ Left \in Nat /\ Remaining = LineBytes + Left /\ LineBytes \in Nat
      /\ Lines = 0 => LineBytes = 0
  BY <1>4, JobFacts, Lengths
<1>6. /\ n < Len(out) /\ Part.at = src /\ PartGood(Part, n, dst) /\ Part = out[n + 1]
  <2>1. /\ n < Len(out) /\ Part.at = At(out, n, dst)
        /\ PartGood(Part, n, At(out, n + 1, dst)) /\ At(out, n + 1, dst) = dst
    BY <1>1, <1>2, PartIsThere
  <2> QED BY <1>3, <2>1 DEF Part
<1>7. /\ Part.kind = "partial" /\ LinesGood(Part.planes, n, src, Part.rest)
      /\ dst = Part.rest + Left
  BY <1>1, <1>4, <1>6 DEF PartGood
<1>8. ~(Len(out) <= n) /\ ~(out[n + 1].at # src)  BY <1>4, <1>6
<1>9. job' = job /\ out' = out /\ dst' = dst  BY <1>1 DEF compressed
<1>10. CASE Lines > 0
  <2>1. PlanesGood(Part.planes, n, bytesoftype, src + 1 + HeaderLen, Part.rest)
    BY <1>7, <1>10 DEF LinesGood
  <2>2. Part.rest \in Nat /\ (src + 1 + HeaderLen) + bytesoftype <= Part.rest
    BY <2>1, PlanesGoForward
  <2>3. src # dst /\ ~(src + 1 + HeaderLen >= dst)  BY <1>3, <1>4, <1>5, <1>7, <2>2
  <2>4. pc' = "plane" /\ src' = src + 1 + HeaderLen /\ i' = 0 /\ n' = n /\ output' = output
    BY <1>3, <1>5, <1>8, <1>10, <2>3 DEF ReadPartial
  <2>5. PlanesEnd = Part.rest  BY <1>1, <1>4 DEF PlanesEnd
  <2>6. Part' = Part /\ PlanesEnd' = PlanesEnd /\ BlockCount' = BlockCount
        /\ Remaining' = Remaining /\ Lines' = Lines /\ bytesoftype' = bytesoftype
        /\ BlockSize' = BlockSize /\ job'.bytes = job.bytes
    BY <1>1, <1>9, <2>4, PlacesStay, PlanesStay
  <2>7. src' = At(Part.planes, i, PlanesEnd)'
    <3>1. At(Part.planes, 0, PlanesEnd) = src + 1 + HeaderLen
      BY <2>1, <2>5 DEF PlanesGood, Chained
    <3> QED BY <2>4, <2>6, <3>1 DEF At
  <2>8. ReadingPlanes'
    <3>1. \A o \in 0..(job.bytes - 1) : Right(o) => Right(o)'  BY <1>9, <2>4 DEF Right
    <3>2. \A m : Restored(m) => Restored(m)'  BY <1>9, <3>1, RestoredStays
    <3>3. Restored(n * BlockSize)'  BY <1>3, <2>4, <2>6, <3>2
    <3>4. \A p \in 0..(i' - 1) : FALSE  BY <2>4
    <3>5. ~(n' < BlockCount')  BY <1>1, <1>4, <2>4, <2>6
    <3> QED BY <1>1, <1>7, <1>10, <2>4, <2>6, <3>3, <3>4, <3>5 DEF ReadingPlanes
  <2>9. src' \in Nat /\ i' <= bytesoftype'  BY <1>3, <1>5, <2>4, <2>6
  <2>10. WhatIsRead'  BY <1>3, <2>4, <2>6, <2>7, <2>8, <2>9 DEF WhatIsRead
  <2>11. n' <= BlockCount  BY <1>1, <1>4, <2>4
  <2> QED BY <1>1, <1>2, <2>4, <2>10, <2>11, ReadingIsKept DEF Reading
<1>11. CASE Lines = 0
  <2>1. Part.rest = src + 1  BY <1>5, <1>7, <1>11 DEF LinesGood
  <2>2. src # dst  BY <1>3, <1>5, <1>7, <2>1
  <2>3. pc' = "unrest" /\ src' = src + 1 /\ n' = n /\ output' = output
    <3>1. src + 1 + 0 = src + 1 /\ ~(Lines > 0)  BY <1>3, <1>11
    <3> QED BY <1>8, <2>2, <3>1 DEF ReadPartial
  <2>4. Part' = Part /\ BlockCount' = BlockCount /\ Remaining' = Remaining
        /\ BlockSize' = BlockSize /\ LineBytes' = LineBytes /\ job'.bytes = job.bytes
    BY <1>1, <1>9, <2>3, PlacesStay, PlanesStay
  <2>5. Restored(n * BlockSize + LineBytes)'
    <3>1. \A o \in 0..(job.bytes - 1) : Right(o) => Right(o)'  BY <1>9, <2>3 DEF Right
    <3>2. \A m : Restored(m) => Restored(m)'  BY <1>9, <3>1, RestoredStays
    <3>3. n * BlockSize \in Nat  BY <1>4, JobFacts
    <3>4. n' * BlockSize' + LineBytes' = n * BlockSize  BY <1>5, <1>11, <2>3, <2>4, <3>3
    <3> QED BY <1>3, <3>2, <3>4
  <2>6. WhatIsRead'  BY <1>1, <1>3, <2>1, <2>3, <2>4, <2>5 DEF WhatIsRead
  <2>7. n' <= BlockCount  BY <1>1, <1>4, <2>3
  <2> QED BY <1>1, <1>2, <2>3, <2>6, <2>7, ReadingIsKept DEF Reading
<1> QED BY <1>5, <1>10, <1>11

LEMMA RestIsRead ==
  ASSUME IInv, RoundInv, ReadRest
  PROVE  RoundInv'
PROOF
<1>1. pc = "unrest" /\ UNCHANGED compressed  BY DEF ReadRest
<1>2. pc \in Reading  BY <1>1 DEF Reading
<1>3. /\ n = BlockCount /\ Remaining > 0 /\ src = Part.rest /\ src \in Nat
      /\ Restored(n * BlockSize + LineBytes)
      /\ output = [o \in 0..(job.bytes - 1) |-> output[o]]
  BY <1>1, <1>2 DEF RoundInv, WhatIsRead
<1>4. /\ job \in Jobs /\ n \in Nat /\ BlockCount \in Nat /\ dst \in Nat
  BY <1>2, WhileReading
<1>5. Left \in Nat /\ LineBytes \in Nat /\ job.bytes \in Nat  BY <1>4, JobFacts, Lengths
<1>6. PartGood(Part, n, dst) /\ Part = out[n + 1]
  <2>1. PartGood(Part, n, At(out, n + 1, dst)) /\ At(out, n + 1, dst) = dst
    BY <1>2, <1>3, PartIsThere
  <2> QED BY <2>1 DEF Part
<1>7. dst = src + Left /\ Part.bytes = Copied(job.bytes - Left, Left)
  BY <1>3, <1>4, <1>6 DEF PartGood
<1>8. ~(src + Left > dst)  BY <1>3, <1>4, <1>5, <1>7
<1>9. output' = Filled(Part.bytes) /\ src' = src + Left /\ pc' = "restored" /\ n' = n
  BY <1>3, <1>6, <1>8 DEF ReadRest, Left
<1>10. job' = job /\ out' = out /\ dst' = dst  BY <1>1 DEF compressed
<1>11. PICK s \in Nat : s = n * BlockSize + LineBytes /\ s + Left = job.bytes
  <2>1. /\ BlockStart(n) \in Nat /\ job.bytes = BlockStart(n) + LineBytes + Left
    BY <1>3, <1>4, BlockBytes
  <2>2. PICK x \in Nat : x = n * BlockSize /\ job.bytes = x + LineBytes + Left
    BY <2>1 DEF BlockStart
  <2>3. x + LineBytes \in Nat /\ (x + LineBytes) + Left = job.bytes  BY <1>5, <2>2
  <2> QED BY <2>2, <2>3
<1>12. DOMAIN Part.bytes = s..(s + Left - 1)
       /\ \A o \in DOMAIN Part.bytes : Part.bytes[o] = job.source[o]
  <2>1. job.bytes - Left = s  BY <1>5, <1>11
  <2> QED BY <1>7, <2>1 DEF Copied
<1>13. /\ output' = [o \in 0..(job.bytes - 1) |-> output'[o]]
       /\ \A m \in Nat : m <= s + Left => Restored(m)'
  BY <1>3, <1>5, <1>9, <1>10, <1>11, <1>12, PieceLands
<1>14. Restored(job.bytes)'
  <2>1. job.bytes <= s + Left  BY <1>5, <1>11
  <2>2. \A m : m = job.bytes => Restored(m)'  BY <1>5, <1>13, <2>1
  <2> QED BY <1>10, <2>2
<1>15. src' = dst' /\ src' \in Nat  BY <1>3, <1>5, <1>7, <1>9, <1>10
<1>16. WhatIsRead'  BY <1>9, <1>10, <1>13, <1>14, <1>15 DEF WhatIsRead
<1>17. n' <= BlockCount  BY <1>3, <1>4, <1>9
<1> QED BY <1>1, <1>2, <1>9, <1>16, <1>17, ReadingIsKept DEF Reading

LEMMA NoRestIsRead ==
  ASSUME IInv, RoundInv, NoRest
  PROVE  RoundInv'
PROOF
<1>1. /\ pc = "read" /\ n = BlockCount /\ Remaining = 0 /\ UNCHANGED compressed
      /\ pc' = "restored" /\ n' = n /\ src' = src /\ output' = output
  BY DEF NoRest, reading
<1>2. pc \in Reading  BY <1>1 DEF Reading
<1>3. /\ src = At(out, n, dst) /\ src \in Nat /\ Restored(n * BlockSize)
      /\ output = [o \in 0..(job.bytes - 1) |-> output[o]]
  BY <1>1, <1>2 DEF RoundInv, WhatIsRead
<1>4. /\ job \in Jobs /\ n \in Nat /\ BlockCount \in Nat /\ n = Len(out)
  BY <1>1, <1>2, WhileReading
<1>5. src = dst
  <2>1. ~(n < n)  BY <1>4
  <2> QED BY <1>3, <1>4, <2>1 DEF At
<1>6. job' = job /\ out' = out /\ dst' = dst  BY <1>1 DEF compressed
<1>7. Restored(job.bytes)'
  <2>1. n * BlockSize = job.bytes
    <3>1. BlockStart(n) \in Nat /\ BlockStart(n) + Remaining = job.bytes
      BY <1>1, <1>4, BlockBytes, Lengths DEF BlockStart
    <3> QED BY <1>1, <3>1 DEF BlockStart
  <2>2. \A o \in 0..(job.bytes - 1) : Right(o) => Right(o)'  BY <1>1, <1>6 DEF Right
  <2>3. \A m : Restored(m) => Restored(m)'  BY <1>6, <2>2, RestoredStays
  <2>4. \A m : m = job.bytes => Restored(m)'  BY <1>3, <2>1, <2>3
  <2> QED BY <1>6, <2>4
<1>8. WhatIsRead'  BY <1>1, <1>3, <1>5, <1>6, <1>7 DEF WhatIsRead
<1>9. n' <= BlockCount  BY <1>1, <1>4
<1> QED BY <1>1, <1>2, <1>8, <1>9, ReadingIsKept DEF Reading

LEMMA NothingChanges ==
  ASSUME IInv, RoundInv, UNCHANGED vars
  PROVE  RoundInv'
PROOF
<1>1. /\ job' = job /\ pc' = pc /\ n' = n /\ i' = i /\ anchor' = anchor /\ dst' = dst
      /\ planes' = planes /\ lz' = lz /\ out' = out /\ src' = src /\ row' = row
      /\ output' = output /\ UNCHANGED compressed
  BY DEF vars, compressed
<1>2. WhereInStream'  BY <1>1, GoodStays, PlanesStay DEF RoundInv, WhereInStream
<1>3. LzGood => LzGood'  BY <1>1, GoodStays, PlanesStay DEF LzGood
<1>4. InBlock'  BY <1>1, <1>3, GoodStays, PlanesStay DEF RoundInv, InBlock
<1>5. Part' = Part /\ PlanesEnd' = PlanesEnd /\ Enc' = Enc
      /\ \A e : ElementPlace(e)' = ElementPlace(e)
  BY <1>1, PlacesStay DEF Enc
<1>6. \A m : Restored(m)' = Restored(m)  BY <1>1 DEF Restored, Right
<1>7. \A p, m : PlaneRestored(p, m)' = PlaneRestored(p, m)
  BY <1>1, PlanesStay DEF PlaneRestored, Right
<1>8. ReadingPlanes' = ReadingPlanes  BY <1>1, <1>5, <1>6, <1>7, PlanesStay DEF ReadingPlanes
<1>9. WhatIsRead'
  BY <1>1, <1>5, <1>6, <1>7, <1>8, PlanesStay DEF RoundInv, WhatIsRead, At
<1> QED BY <1>2, <1>4, <1>9 DEF RoundInv

-----------------------------------------------------------------------------

\* The two invariants hold in every state.
THEOREM RoundTripInvariance == Spec => [](IInv /\ RoundInv)
PROOF
<1>1. Init => IInv /\ RoundInv  BY InitIsGood, StreamStarts
<1>2. IInv /\ RoundInv /\ [Next]_vars => (IInv /\ RoundInv)'
  <2> SUFFICES ASSUME IInv, RoundInv, [Next]_vars PROVE (IInv /\ RoundInv)'
    OBVIOUS
  <2>1. IInv'  BY Inductive
  <2>2. RoundInv'
    <3>1. CASE Compress
      BY <3>1, CopyIsGood, StartIsGood, PlanIsGood, ChoiceIsGood, LzIsGood, FitIsRight,
         PlaneIsGood, BlockEndIsGood, NextBlockIsGood, PartialStartIsGood, LinesAreGood,
         LinesEndIsGood, RestIsGood, NoPartialIsRight DEF Compress
    <3>2. CASE Decompress
      BY <3>2, DecompressionStarts, BlockIsRead, ElementIsRead, LzEndIsRead, PlaneHeadIsRead,
         RowIsRead, PlaneEndIsRead, PlanesEndIsRead, PartialIsRead, RestIsRead, NoRestIsRead
         DEF Decompress
    <3>3. CASE UNCHANGED vars  BY <3>3, NothingChanges
    <3> QED BY <3>1, <3>2, <3>3 DEF Next
  <2> QED BY <2>1, <2>2
<1> QED BY <1>1, <1>2, PTL DEF Spec

\* What block_compress wrote, for every input, level, destination and initial
\* table, is never refused by block_decompress, is read part by part where it was
\* written, up to its last byte, and gives back the input.
THEOREM RoundTripHolds == Spec => []RoundTrip
PROOF
<1>1. ASSUME IInv, RoundInv PROVE RoundTrip
  <2>1. pc \notin {"refused", "garbage"}
    BY <1>1 DEF RoundInv, WhereInStream, Open, Reading
  <2>2. ASSUME pc = "restored" PROVE src = dst /\ output = job.source
    <3>1. /\ output = [o \in 0..(job.bytes - 1) |-> output[o]]
          /\ src = dst /\ Restored(job.bytes)
      BY <1>1, <2>2 DEF RoundInv, WhatIsRead, Reading
    <3>2. job \in Jobs  BY <1>1 DEF IInv, TypeOK
    <3>3. job.bytes \in Nat /\ job.source \in [0..(job.bytes - 1) -> Byte]  BY <3>2, JobFacts
    <3>4. ASSUME NEW o \in 0..(job.bytes - 1) PROVE output[o] = job.source[o]
      <4>1. o < job.bytes  BY <3>3
      <4>2. Restored(job.bytes)  BY <3>1
      <4>3. Right(o)  BY <4>1, <4>2 DEF Restored
      <4> QED BY <4>3 DEF Right
    <3> DEFINE D == 0..(job.bytes - 1)
    <3>5. /\ output = [o \in D |-> output[o]] /\ job.source = [o \in D |-> job.source[o]]
          /\ \A o \in D : output[o] = job.source[o]
      BY <3>1, <3>3, <3>4
    <3> HIDE DEF D
    <3>6. output = job.source
      <4>1. [o \in D |-> output[o]] = [o \in D |-> job.source[o]]  BY <3>5
      <4> QED BY <3>5, <4>1
    <3> QED BY <3>1, <3>6
  <2> QED BY <2>1, <2>2 DEF RoundTrip
<1>2. IInv /\ RoundInv => RoundTrip  BY <1>1
<1> QED BY <1>2, RoundTripInvariance, PTL
=================================================================================

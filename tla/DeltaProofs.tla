------------------------------ MODULE DeltaProofs ------------------------------
(***************************************************************************)
(* The inverse of the byte delta restores every superblock, of any length  *)
(* and with vectors of any of the three widths.  BlockCodecProofs has the  *)
(* lemmas on bytes and on prefix sums too: no module extends both Delta    *)
(* and BlockCodec, since each declares its own output.                     *)
(***************************************************************************)
EXTENDS Delta, TLAPS

-----------------------------------------------------------------------------
(* Bytes *)

LEMMA PlusCases ==
  ASSUME NEW a \in Byte, NEW b \in Byte
  PROVE  /\ Plus(a, b) \in Byte
         /\ Plus(a, b) = a + b \/ Plus(a, b) = a + b - 256
  BY SMT DEF Plus, Byte

LEMMA MinusCases ==
  ASSUME NEW a \in Byte, NEW b \in Byte
  PROVE  /\ Minus(a, b) \in Byte
         /\ Minus(a, b) = a - b \/ Minus(a, b) = a - b + 256
PROOF
<1>1. (a - b) % 256 \in 0..255  BY SMT DEF Byte
<1>2. (a - b) % 256 = a - b \/ (a - b) % 256 = a - b + 256  BY SMT DEF Byte
<1> QED BY <1>1, <1>2 DEF Minus, Byte

\* Adding back what was subtracted restores a byte.
LEMMA PlusMinus ==
  ASSUME NEW a \in Byte, NEW b \in Byte
  PROVE  Plus(Minus(a, b), b) = a
PROOF
<1> DEFINE m == Minus(a, b)
           p == Plus(m, b)
<1>1. m \in Byte /\ (m = a - b \/ m = a - b + 256)  BY MinusCases
<1>2. p \in Byte /\ (p = m + b \/ p = m + b - 256)  BY <1>1, PlusCases
<1> HIDE DEF m, p
<1>3. p = a  BY <1>1, <1>2, SMT DEF Byte
<1> QED BY <1>3 DEF m, p

\* A telescoping sum: the difference of a and c is that of a and b and that of b and c.
LEMMA MinusChain ==
  ASSUME NEW a \in Byte, NEW b \in Byte, NEW c \in Byte
  PROVE  Plus(Minus(a, b), Minus(b, c)) = Minus(a, c)
PROOF
<1> DEFINE ab == Minus(a, b)
           bc == Minus(b, c)
           ac == Minus(a, c)
           p  == Plus(ab, bc)
<1>1. ab \in Byte /\ (ab = a - b \/ ab = a - b + 256)  BY MinusCases
<1>2. bc \in Byte /\ (bc = b - c \/ bc = b - c + 256)  BY MinusCases
<1>3. ac \in Byte /\ (ac = a - c \/ ac = a - c + 256)  BY MinusCases
<1>4. p \in Byte /\ (p = ab + bc \/ p = ab + bc - 256)  BY <1>1, <1>2, PlusCases
<1> HIDE DEF ab, bc, ac, p
<1>5. p = ac  BY <1>1, <1>2, <1>3, <1>4, SMT DEF Byte
<1> QED BY <1>5 DEF ab, bc, ac, p

LEMMA ByteZero ==
  ASSUME NEW a \in Byte
  PROVE  0 \in Byte /\ Plus(a, 0) = a /\ Plus(0, a) = a /\ Minus(a, 0) = a
  BY SMT DEF Plus, Minus, Byte

-----------------------------------------------------------------------------
(* Prefix sums *)

\* Entry k of a row, 0 before the row.
Entry(y, k) == IF k < 0 THEN 0 ELSE y[k]

\* x holds the differences of y at distance n.
IsDifference(x, y, n) == x \in RowValues /\ \A c \in Cells : x[c] = Minus(y[c], Entry(y, c - n))

\* One addition of the shifted row doubles the distance.
LEMMA ShiftDoubles ==
  ASSUME NEW x, NEW y \in RowValues, NEW n \in 1..8, IsDifference(x, y, n)
  PROVE  IsDifference(AddShifted(x, n), y, 2 * n)
PROOF
<1>1. \A c \in Cells : y[c] \in Byte /\ x[c] \in Byte /\ Minus(y[c], Entry(y, c - n)) = x[c]
  BY DEF IsDifference, RowValues
<1>2. \A k \in Int : k <= 15 => Entry(y, k) \in Byte
  BY <1>1, ByteZero DEF Entry, Cells
<1>3. ASSUME NEW c \in Cells
      PROVE  /\ AddShifted(x, n)[c] \in Byte
             /\ AddShifted(x, n)[c] = Minus(y[c], Entry(y, c - 2 * n))
  <2>1. AddShifted(x, n)[c] = Plus(x[c], IF c >= n THEN x[c - n] ELSE 0)
    BY DEF AddShifted
  <2>2. CASE c >= n
    <3>1. c - n \in Cells /\ c - n - n = c - 2 * n /\ c - 2 * n \in Int /\ c - 2 * n <= 15
      BY <2>2 DEF Cells
    <3>2. x[c] = Minus(y[c], y[c - n]) /\ x[c - n] = Minus(y[c - n], Entry(y, c - 2 * n))
      BY <1>1, <2>2, <3>1 DEF Entry, Cells
    <3>3. AddShifted(x, n)[c] = Plus(x[c], x[c - n])  BY <2>1, <2>2
    <3>4. y[c] \in Byte /\ y[c - n] \in Byte /\ Entry(y, c - 2 * n) \in Byte
      BY <1>1, <1>2, <3>1
    <3>5. AddShifted(x, n)[c] = Minus(y[c], Entry(y, c - 2 * n))
      BY <3>2, <3>3, <3>4, MinusChain
    <3> QED BY <3>4, <3>5, MinusCases
  <2>3. CASE ~(c >= n)
    <3>1. Entry(y, c - n) = 0 /\ Entry(y, c - 2 * n) = 0
      BY <2>3 DEF Entry, Cells
    <3>2. AddShifted(x, n)[c] = Plus(x[c], 0)  BY <2>1, <2>3
    <3>3. AddShifted(x, n)[c] = x[c]  BY <1>1, <3>2, ByteZero
    <3> QED BY <1>1, <3>1, <3>3
  <2> QED BY <2>2, <2>3
<1>4. AddShifted(x, n) \in RowValues
  BY <1>3 DEF AddShifted, RowValues
<1> QED BY <1>3, <1>4 DEF IsDifference

\* The four additions of prefix_sum_16 restore a row from the differences of neighbours.
LEMMA PrefixSumRestores ==
  ASSUME NEW x, NEW y \in RowValues, IsDifference(x, y, 1)
  PROVE  PrefixSum(x) = y
PROOF
<1> DEFINE a == AddShifted(x, 1)
           b == AddShifted(a, 2)
           d == AddShifted(b, 4)
           e == AddShifted(d, 8)
<1>1. IsDifference(a, y, 2)
  <2>1. IsDifference(AddShifted(x, 1), y, 2 * 1)  BY ShiftDoubles
  <2> QED BY <2>1
<1> HIDE DEF a
<1>2. IsDifference(b, y, 4)
  <2>1. IsDifference(AddShifted(a, 2), y, 2 * 2)  BY <1>1, ShiftDoubles
  <2> QED BY <2>1
<1> HIDE DEF b
<1>3. IsDifference(d, y, 8)
  <2>1. IsDifference(AddShifted(b, 4), y, 2 * 4)  BY <1>2, ShiftDoubles
  <2> QED BY <2>1
<1> HIDE DEF d
<1>4. IsDifference(e, y, 16)
  <2>1. IsDifference(AddShifted(d, 8), y, 2 * 8)  BY <1>3, ShiftDoubles
  <2> QED BY <2>1
<1> HIDE DEF e
<1>5. \A c \in Cells : e[c] = y[c]
  <2>1. \A c \in Cells : Entry(y, c - 16) = 0  BY DEF Entry, Cells
  <2>2. \A c \in Cells : y[c] \in Byte  BY DEF RowValues
  <2> QED BY <1>4, <2>1, <2>2, ByteZero DEF IsDifference
<1>6. e \in RowValues  BY <1>4 DEF IsDifference
<1>7. e = y  BY <1>5, <1>6 DEF RowValues
<1> QED BY <1>7 DEF PrefixSum, a, b, d, e

-----------------------------------------------------------------------------
(* Sums of vectors *)

LEMMA MinusSame ==
  ASSUME NEW a \in Byte, NEW b \in Byte, NEW c \in Byte
  PROVE  Minus(Minus(a, c), Minus(b, c)) = Minus(a, b)
PROOF
<1> DEFINE ac == Minus(a, c)
           bc == Minus(b, c)
           ab == Minus(a, b)
           m  == Minus(ac, bc)
<1>1. ac \in Byte /\ (ac = a - c \/ ac = a - c + 256)  BY MinusCases
<1>2. bc \in Byte /\ (bc = b - c \/ bc = b - c + 256)  BY MinusCases
<1>3. ab \in Byte /\ (ab = a - b \/ ab = a - b + 256)  BY MinusCases
<1>4. m \in Byte /\ (m = ac - bc \/ m = ac - bc + 256)  BY <1>1, <1>2, MinusCases
<1> HIDE DEF ac, bc, ab, m
<1>5. m = ab  BY <1>1, <1>2, <1>3, <1>4, SMT DEF Byte
<1> QED BY <1>5 DEF ac, bc, ab, m

\* x is the vector of differences of y, but for its first byte.
IsVectorOf(x, first, y, n) ==
  /\ x[0] \in Byte /\ first \in Byte /\ Plus(x[0], first) = y[0]
  /\ \A c \in 0..(n - 1) : y[c] \in Byte
  /\ \A c \in 1..(n - 1) : x[c] = Minus(y[c], y[c - 1])

LEMMA Sum16Restores ==
  ASSUME NEW x, NEW first, NEW y, NEW n \in {16, 32}, IsVectorOf(x, first, y, n)
  PROVE  \A c \in Cells : Sum16(x, first)[c] = y[c]
PROOF
<1> DEFINE z == [c \in Cells |-> IF c = 0 THEN Plus(x[0], first) ELSE x[c]]
           row == [c \in Cells |-> y[c]]
<1>1. \A c \in Cells : c \in 0..(n - 1)  BY DEF Cells
<1>2. row \in RowValues /\ \A c \in Cells : row[c] = y[c] /\ y[c] \in Byte
  BY <1>1 DEF IsVectorOf, RowValues
<1>3. ASSUME NEW c \in Cells
      PROVE  z[c] \in Byte /\ z[c] = Minus(row[c], Entry(row, c - 1))
  <2>1. CASE c = 0
    <3>1. z[c] = row[c]  BY <1>2, <2>1 DEF IsVectorOf
    <3>2. Entry(row, c - 1) = 0  BY <2>1 DEF Entry
    <3> QED BY <1>2, <3>1, <3>2, ByteZero
  <2>2. CASE c # 0
    <3>1. c - 1 \in Cells /\ c \in 1..(n - 1) /\ ~(c - 1 < 0)  BY <2>2 DEF Cells
    <3>2. z[c] = Minus(y[c], y[c - 1])  BY <2>2, <3>1 DEF IsVectorOf
    <3>3. Entry(row, c - 1) = y[c - 1]  BY <1>2, <3>1 DEF Entry
    <3> QED BY <1>2, <3>1, <3>2, <3>3, MinusCases
  <2> QED BY <2>1, <2>2
<1>4. z \in RowValues  BY <1>3 DEF RowValues
<1> HIDE DEF z, row
<1>5. PrefixSum(z) = row  BY <1>2, <1>3, <1>4, PrefixSumRestores DEF IsDifference
<1> QED BY <1>2, <1>5 DEF Sum16, z

LEMMA Sum32Restores ==
  ASSUME NEW x, NEW first, NEW y, IsVectorOf(x, first, y, 32)
  PROVE  \A c \in 0..31 : Sum32(x, first)[c] = y[c]
PROOF
<1> DEFINE low  == Sum16(x, first)
           h    == [c \in Cells |-> x[16 + c]]
           high == PrefixSum(h)
           row  == [c \in Cells |-> Minus(y[16 + c], y[15])]
<1>1. \A c \in Cells : low[c] = y[c]  BY Sum16Restores
<1>2. \A c \in 0..31 : y[c] \in Byte  BY DEF IsVectorOf
<1>3. \A c \in Cells : 16 + c \in 0..31 /\ 15 \in 0..31 /\ 15 \in Cells  BY DEF Cells
<1>4. \A c \in Cells : row[c] = Minus(y[16 + c], y[15]) /\ row[c] \in Byte
  BY <1>2, <1>3, MinusCases
<1>5. row \in RowValues  BY <1>4 DEF RowValues
<1>6. ASSUME NEW c \in Cells
      PROVE  h[c] \in Byte /\ h[c] = Minus(row[c], Entry(row, c - 1))
  <2>1. 16 + c \in 1..(32 - 1) /\ (16 + c) - 1 \in 0..31  BY DEF Cells
  <2>2. h[c] = Minus(y[16 + c], y[(16 + c) - 1]) /\ h[c] \in Byte
    BY <1>2, <1>3, <2>1, MinusCases DEF IsVectorOf
  <2>3. CASE c = 0
    <3>1. h[c] = row[c]  BY <1>4, <2>2, <2>3
    <3>2. Entry(row, c - 1) = 0  BY <2>3 DEF Entry
    <3> QED BY <1>4, <3>1, <3>2, ByteZero
  <2>4. CASE c # 0
    <3>1. c - 1 \in Cells /\ ~(c - 1 < 0) /\ (16 + c) - 1 = 16 + (c - 1)  BY <2>4 DEF Cells
    <3>2. Entry(row, c - 1) = Minus(y[16 + (c - 1)], y[15])  BY <1>4, <3>1 DEF Entry
    <3>3. Minus(row[c], Entry(row, c - 1)) = Minus(y[16 + c], y[16 + (c - 1)])
      BY <1>2, <1>3, <1>4, <3>1, <3>2, MinusSame
    <3> QED BY <2>2, <3>1, <3>3
  <2> QED BY <2>3, <2>4
<1>7. h \in RowValues  BY <1>6 DEF RowValues
<1> HIDE DEF h, row, low
<1>8. high = row  BY <1>5, <1>6, <1>7, PrefixSumRestores DEF IsDifference
<1> HIDE DEF high
<1>9. ASSUME NEW c \in 0..31
      PROVE  (IF c < 16 THEN low[c] ELSE Plus(high[c - 16], low[15])) = y[c]
  <2>1. CASE c < 16
    <3>1. c \in Cells  BY <2>1 DEF Cells
    <3> QED BY <1>1, <2>1, <3>1
  <2>2. CASE ~(c < 16)
    <3>1. c - 16 \in Cells /\ 16 + (c - 16) = c  BY <2>2 DEF Cells
    <3>2. high[c - 16] = Minus(y[c], y[15]) /\ low[15] = y[15]
      BY <1>1, <1>3, <1>4, <1>8, <3>1
    <3>3. y[c] \in Byte /\ y[15] \in Byte  BY <1>2, <1>3, <3>1
    <3> QED BY <2>2, <3>2, <3>3, PlusMinus
  <2> QED BY <2>1, <2>2
<1> QED BY <1>9 DEF Sum32, low, high, h

LEMMA SumRestores ==
  ASSUME NEW x, NEW first, NEW y, width \in {1, 16, 32}, IsVectorOf(x, first, y, width)
  PROVE  \A c \in 0..(width - 1) : Sum(x, first)[c] = y[c]
PROOF
<1>1. CASE width = 1
  <2>1. width # 16 /\ width # 32  BY <1>1
  <2>2. Sum(x, first) = [c \in {0} |-> Plus(x[0], first)]  BY <1>1, <2>1, Zenon DEF Sum
  <2>3. Sum(x, first)[0] = y[0]  BY <2>2 DEF IsVectorOf
  <2>4. \A c \in 0..(width - 1) : c = 0  BY <1>1
  <2> QED BY <2>3, <2>4
<1>2. CASE width = 16
  <2>1. width # 1 /\ width # 32  BY <1>2
  <2>2. Sum(x, first) = Sum16(x, first)  BY <1>2, <2>1, Zenon DEF Sum
  <2>3. 0..(width - 1) = Cells /\ width \in {16, 32}  BY <1>2 DEF Cells
  <2> QED BY <2>2, <2>3, Sum16Restores
<1>3. CASE width = 32
  <2>1. width # 1 /\ width # 16  BY <1>3
  <2>2. Sum(x, first) = Sum32(x, first)  BY <1>3, <2>1, Zenon DEF Sum
  <2>3. 0..(width - 1) = 0..31 /\ IsVectorOf(x, first, y, 32)  BY <1>3
  <2> QED BY <2>2, <2>3, Sum32Restores
<1> QED BY <1>1, <1>2, <1>3

-----------------------------------------------------------------------------
(* Streams *)

LEMMA StreamIsLong ==
  ASSUME bytes \in Nat, bytes >= 128
  PROVE  /\ Stream \in Nat /\ Stream >= 128
         /\ bytes <= 2048 => Stream = bytes
         /\ bytes > 2048 => 4 * Stream <= bytes
PROOF
<1>1. CASE bytes <= 2048  BY <1>1 DEF Stream
<1>2. CASE ~(bytes <= 2048)
  <2>1. bytes \div 4 \in Nat /\ bytes \div 4 >= 128 /\ 4 * (bytes \div 4) <= bytes  BY <1>2
  <2>2. Stream = bytes \div 4  BY <1>2 DEF Stream
  <2> QED BY <1>2, <2>1, <2>2
<1> QED BY <1>1, <1>2

\* Where the streams begin and which places belong to them.
LEMMA Origins ==
  ASSUME bytes \in Nat, bytes >= 128, NEW p \in 0..(bytes - 1)
  PROVE  /\ Origin(p) \in Nat /\ Origin(p) <= p /\ Origin(p) + Stream <= bytes
         /\ p - Origin(p) <= (bytes - 1) - Origin(bytes - 1)
         /\ \A q \in Nat : Origin(p) <= q /\ q <= p => Origin(q) = Origin(p)
         /\ \A q \in Nat : Origin(p) <= q /\ q < Origin(p) + Stream => Origin(q) = Origin(p)
PROOF
<1> DEFINE s == Stream
<1>1. s \in Nat /\ s >= 128 /\ (bytes <= 2048 => s = bytes) /\ (bytes > 2048 => 4 * s <= bytes)
  BY StreamIsLong
<1>2. \A q : Origin(q) = IF bytes <= 2048 \/ q < s THEN 0
                         ELSE IF q < 2 * s THEN s
                         ELSE IF q < 3 * s THEN 2 * s ELSE 3 * s
  BY DEF Origin
<1> HIDE DEF s
<1>3. bytes - 1 \in Nat  OBVIOUS
<1>4. Origin(p) \in Nat /\ Origin(p) <= p /\ Origin(p) + s <= bytes  BY <1>1, <1>2
<1>5. p - Origin(p) <= (bytes - 1) - Origin(bytes - 1)  BY <1>1, <1>2
<1>6. \A q \in Nat : Origin(p) <= q /\ q <= p => Origin(q) = Origin(p)  BY <1>1, <1>2
<1>7. \A q \in Nat : Origin(p) <= q /\ q < Origin(p) + s => Origin(q) = Origin(p)
  BY <1>1, <1>2
<1> QED BY <1>4, <1>5, <1>6, <1>7 DEF s

-----------------------------------------------------------------------------
(* The invariant: what was summed is restored *)

TypeOK ==
  /\ bytes \in Nat /\ bytes >= 128
  /\ source \in [0..(bytes - 1) -> Byte]
  /\ width \in {1, 16, 32}
  /\ at \in Nat /\ at <= bytes - Origin(bytes - 1)
  /\ output \in [0..(bytes - 1) -> Byte]

Restored == \A p \in 0..(bytes - 1) : p - Origin(p) < at => output[p] = source[p]

IInv == TypeOK /\ Restored

\* A place after the first of its stream is the difference from the one before.
LEMMA DifferencesOf ==
  ASSUME TypeOK, NEW p \in 0..(bytes - 1)
  PROVE  /\ source[p] \in Byte
         /\ p = Origin(p) => Differences[p] = source[p]
         /\ p # Origin(p) => /\ p - 1 \in 0..(bytes - 1) /\ source[p - 1] \in Byte
                             /\ Origin(p - 1) = Origin(p)
                             /\ Differences[p] = Minus(source[p], source[p - 1])
PROOF
<1>1. /\ bytes \in Nat /\ bytes >= 128
      /\ \A q \in 0..(bytes - 1) : source[q] \in Byte
  BY DEF TypeOK
<1>2. /\ Origin(p) \in Nat /\ Origin(p) <= p
      /\ \A q \in Nat : Origin(p) <= q /\ q <= p => Origin(q) = Origin(p)
  BY <1>1, Origins
<1>3. Differences[p] = IF p = Origin(p) THEN source[p] ELSE Minus(source[p], source[p - 1])
  BY DEF Differences
<1>4. p # Origin(p) => p - 1 \in 0..(bytes - 1) /\ p - 1 \in Nat /\ Origin(p) <= p - 1 /\ p - 1 <= p
  BY <1>1, <1>2
<1> QED BY <1>1, <1>2, <1>3, <1>4

\* The places of a vector, in the stream that begins at b.
LEMMA VectorsRestore ==
  ASSUME IInv, at + width <= Stream, NEW p \in 0..(bytes - 1), p - Origin(p) - at \in 0..(width - 1)
  PROVE  Sum(Vector(Origin(p)), First(Origin(p)))[p - Origin(p) - at] = source[p]
PROOF
<1> DEFINE b == Origin(p)
           x == Vector(b)
           y == [c \in 0..(width - 1) |-> source[b + at + c]]
<1>1. bytes \in Nat /\ bytes >= 128 /\ width \in {1, 16, 32} /\ at \in Nat
  BY DEF IInv, TypeOK
<1>2. /\ b \in Nat /\ b + Stream <= bytes /\ Stream \in Nat
      /\ \A q \in Nat : b <= q /\ q < b + Stream => Origin(q) = b
  BY <1>1, Origins, StreamIsLong
<1>3. b = Origin(p)  OBVIOUS
<1>4. \A c \in 0..(width - 1) : x[c] = Differences[b + at + c]  BY DEF Vector
<1>5. \A c \in 0..(width - 1) : y[c] = source[b + at + c]  OBVIOUS
<1>6. First(b) = IF at = 0 THEN 0 ELSE output[b + at - 1]  BY DEF First
<1> HIDE DEF b, x, y
<1>7. ASSUME NEW c \in 0..(width - 1)
      PROVE  b + at + c \in 0..(bytes - 1) /\ Origin(b + at + c) = b
  BY <1>1, <1>2
<1>8. \A c \in 0..(width - 1) : y[c] \in Byte
  BY <1>5, <1>7 DEF IInv, TypeOK
<1>9. ASSUME NEW c \in 1..(width - 1)
      PROVE  x[c] = Minus(y[c], y[c - 1])
  <2>1. c \in 0..(width - 1) /\ c - 1 \in 0..(width - 1) /\ b + at + (c - 1) = (b + at + c) - 1
    BY <1>1, <1>2
  <2>2. b + at + c # b  BY <1>1, <1>2
  <2>3. b + at + c \in 0..(bytes - 1) /\ Origin(b + at + c) = b  BY <1>7, <2>1
  <2>4. Differences[b + at + c] = Minus(source[b + at + c], source[(b + at + c) - 1])
    BY <2>2, <2>3, DifferencesOf DEF IInv
  <2> QED BY <1>4, <1>5, <2>1, <2>4
<1>10. 0 \in 0..(width - 1) /\ b + at + 0 = b + at  BY <1>1, <1>2
<1>11. b + at \in 0..(bytes - 1) /\ Origin(b + at) = b  BY <1>7, <1>10
<1>12. x[0] = Differences[b + at] /\ y[0] = source[b + at]  BY <1>4, <1>5, <1>10
<1>13. x[0] \in Byte /\ First(b) \in Byte /\ Plus(x[0], First(b)) = y[0]
  <2>1. CASE at = 0
    <3>1. b + at = b  BY <1>2, <2>1
    <3>2. x[0] = source[b + at] /\ source[b + at] \in Byte /\ First(b) = 0
      BY <1>6, <1>11, <1>12, <2>1, <3>1, DifferencesOf DEF IInv
    <3> QED BY <1>12, <3>2, ByteZero
  <2>2. CASE at # 0
    <3>1. b + at # b /\ b + at - 1 = (b + at) - 1  BY <1>1, <1>2, <2>2
    <3>2. /\ (b + at) - 1 \in 0..(bytes - 1) /\ source[(b + at) - 1] \in Byte
          /\ source[b + at] \in Byte /\ Origin((b + at) - 1) = b
          /\ Differences[b + at] = Minus(source[b + at], source[(b + at) - 1])
      BY <1>11, <3>1, DifferencesOf DEF IInv
    <3>3. ((b + at) - 1) - b < at  BY <1>1, <1>2
    <3>4. output[(b + at) - 1] = source[(b + at) - 1]
      BY <3>2, <3>3 DEF IInv, Restored
    <3>5. First(b) = source[(b + at) - 1]  BY <1>6, <2>2, <3>1, <3>4
    <3> QED BY <1>12, <3>2, <3>5, MinusCases, PlusMinus
  <2> QED BY <2>1, <2>2
<1>14. IsVectorOf(x, First(b), y, width)  BY <1>8, <1>9, <1>13 DEF IsVectorOf
<1>15. \A c \in 0..(width - 1) : Sum(x, First(b))[c] = y[c]  BY <1>1, <1>14, SumRestores
<1>16. p - b - at \in 0..(width - 1) /\ b + at + (p - b - at) = p
  BY <1>1, <1>2, <1>3
<1>17. y[p - b - at] = source[p]  BY <1>5, <1>16
<1> QED BY <1>15, <1>16, <1>17 DEF b, x

LEMMA InitIsGood ==
  ASSUME Init
  PROVE  IInv
PROOF
<1>1. bytes \in Nat /\ bytes >= 128 /\ bytes - 1 \in 0..(bytes - 1)  BY DEF Init
<1>2. Origin(bytes - 1) \in Nat /\ Origin(bytes - 1) <= bytes - 1  BY <1>1, Origins
<1>3. TypeOK  BY <1>1, <1>2 DEF Init, TypeOK
<1>4. ASSUME NEW p \in 0..(bytes - 1) PROVE ~(p - Origin(p) < at)
  <2>1. Origin(p) \in Nat /\ Origin(p) <= p /\ at = 0  BY <1>1, Origins DEF Init
  <2> QED BY <2>1
<1> QED BY <1>3, <1>4 DEF IInv, Restored

LEMMA CallStays ==
  ASSUME UNCHANGED call
  PROVE  bytes' = bytes /\ source' = source /\ width' = width /\ \A p : Origin(p)' = Origin(p)
PROOF
<1>1. bytes' = bytes /\ source' = source /\ width' = width  BY DEF call
<1> QED BY <1>1 DEF Origin, Stream

LEMMA SumVectorsIsGood ==
  ASSUME IInv, SumVectors
  PROVE  IInv'
PROOF
<1>1. /\ bytes \in Nat /\ bytes >= 128 /\ width \in {1, 16, 32} /\ at \in Nat
      /\ \A p \in 0..(bytes - 1) : source[p] \in Byte /\ output[p] \in Byte
  BY DEF IInv, TypeOK
<1>2. at + width <= Stream /\ at' = at + width  BY DEF SumVectors
<1>3. bytes' = bytes /\ source' = source /\ width' = width /\ \A p : Origin(p)' = Origin(p)
  BY CallStays DEF SumVectors
<1>4. output' = [p \in 0..(bytes - 1) |->
                   IF p - Origin(p) - at \in 0..(width - 1)
                   THEN Sum(Vector(Origin(p)), First(Origin(p)))[p - Origin(p) - at]
                   ELSE output[p]]
  BY DEF SumVectors
<1>5. ASSUME NEW p \in 0..(bytes - 1)
      PROVE  output'[p] \in Byte /\ (p - Origin(p) < at' => output'[p] = source[p])
  <2>1. CASE p - Origin(p) - at \in 0..(width - 1)
    <3>1. output'[p] = source[p]  BY <1>2, <1>4, <2>1, VectorsRestore
    <3> QED BY <1>1, <3>1
  <2>2. CASE ~(p - Origin(p) - at \in 0..(width - 1))
    <3>1. output'[p] = output[p]  BY <1>4, <2>2
    <3>2. Origin(p) \in Nat  BY <1>1, Origins
    <3>3. p - Origin(p) < at' => p - Origin(p) < at  BY <1>1, <1>2, <2>2, <3>2
    <3> QED BY <1>1, <3>1, <3>3 DEF IInv, Restored
  <2> QED BY <2>1, <2>2
<1>6. output' \in [0..(bytes - 1) -> Byte]  BY <1>4, <1>5
<1>7. at' \in Nat /\ at' <= bytes - Origin(bytes - 1)
  <2>1. bytes - 1 \in 0..(bytes - 1)  BY <1>1
  <2>2. Origin(bytes - 1) \in Nat /\ Origin(bytes - 1) + Stream <= bytes  BY <1>1, <2>1, Origins
  <2>3. Stream \in Nat  BY <1>1, StreamIsLong
  <2> QED BY <1>1, <1>2, <2>2, <2>3
<1>8. TypeOK'  BY <1>3, <1>6, <1>7 DEF IInv, TypeOK
<1>9. Restored'  BY <1>3, <1>5 DEF Restored
<1> QED BY <1>8, <1>9 DEF IInv

LEMMA SumBytesIsGood ==
  ASSUME IInv, SumBytes
  PROVE  IInv'
PROOF
<1>1. /\ bytes \in Nat /\ bytes >= 128 /\ width \in {1, 16, 32} /\ at \in Nat
      /\ \A p \in 0..(bytes - 1) : source[p] \in Byte /\ output[p] \in Byte
  BY DEF IInv, TypeOK
<1>2. at + width > Stream /\ at' = at + 1 /\ at < bytes - Origin(bytes - 1)  BY DEF SumBytes
<1>3. bytes' = bytes /\ source' = source /\ width' = width /\ \A p : Origin(p)' = Origin(p)
  BY CallStays DEF SumBytes
<1>4. output' = [p \in 0..(bytes - 1) |->
                   IF p - Origin(p) = at THEN Plus(output[p - 1], Differences[p]) ELSE output[p]]
  BY DEF SumBytes
<1>5. at > 0  BY <1>1, <1>2, StreamIsLong
<1>6. ASSUME NEW p \in 0..(bytes - 1)
      PROVE  output'[p] \in Byte /\ (p - Origin(p) < at' => output'[p] = source[p])
  <2>1. Origin(p) \in Nat  BY <1>1, Origins
  <2>2. CASE p - Origin(p) = at
    <3>1. p # Origin(p)  BY <1>5, <2>1, <2>2
    <3>2. /\ p - 1 \in 0..(bytes - 1) /\ source[p - 1] \in Byte /\ source[p] \in Byte
          /\ Origin(p - 1) = Origin(p)
          /\ Differences[p] = Minus(source[p], source[p - 1])
      BY <3>1, DifferencesOf DEF IInv
    <3>3. (p - 1) - Origin(p - 1) < at  BY <1>1, <2>1, <2>2, <3>2
    <3>4. output[p - 1] = source[p - 1]  BY <3>2, <3>3 DEF IInv, Restored
    <3>5. Plus(source[p - 1], Minus(source[p], source[p - 1]))
            = Plus(Minus(source[p], source[p - 1]), source[p - 1])
      <4> DEFINE m == Minus(source[p], source[p - 1])
                 q == source[p - 1]
      <4>1. m \in Byte /\ q \in Byte  BY <3>2, MinusCases
      <4> HIDE DEF m, q
      <4>2. Plus(q, m) = Plus(m, q)  BY <4>1, SMT DEF Plus, Byte
      <4> QED BY <4>2 DEF m, q
    <3>6. output'[p] = source[p]  BY <1>4, <2>2, <3>2, <3>4, <3>5, PlusMinus
    <3> QED BY <3>2, <3>6
  <2>3. CASE p - Origin(p) # at
    <3>1. output'[p] = output[p]  BY <1>4, <2>3
    <3>2. p - Origin(p) < at' => p - Origin(p) < at  BY <1>1, <1>2, <2>1, <2>3
    <3> QED BY <1>1, <3>1, <3>2 DEF IInv, Restored
  <2> QED BY <2>2, <2>3
<1>7. output' \in [0..(bytes - 1) -> Byte]  BY <1>4, <1>6
<1>8. at' \in Nat /\ at' <= bytes - Origin(bytes - 1)
  <2>1. bytes - 1 \in 0..(bytes - 1)  BY <1>1
  <2>2. Origin(bytes - 1) \in Nat  BY <1>1, <2>1, Origins
  <2> QED BY <1>1, <1>2, <2>2
<1>9. TypeOK'  BY <1>3, <1>7, <1>8 DEF IInv, TypeOK
<1>10. Restored'  BY <1>3, <1>6 DEF Restored
<1> QED BY <1>9, <1>10 DEF IInv

LEMMA StutterIsGood ==
  ASSUME IInv, UNCHANGED vars
  PROVE  IInv'
PROOF
<1>1. UNCHANGED call /\ at' = at /\ output' = output  BY DEF vars, call
<1>2. bytes' = bytes /\ source' = source /\ width' = width /\ \A p : Origin(p)' = Origin(p)
  BY <1>1, CallStays
<1> QED BY <1>1, <1>2 DEF IInv, TypeOK, Restored

LEMMA Invariance == Spec => []IInv
PROOF
<1>1. Init => IInv  BY InitIsGood
<1>2. IInv /\ [Next]_vars => IInv'
  BY SumVectorsIsGood, SumBytesIsGood, StutterIsGood DEF Next
<1> QED BY <1>1, <1>2, PTL DEF Spec

-----------------------------------------------------------------------------
\* delta_inv, in each of its three variants, restores what delta coded, for every
\* superblock that the delta is used on.
THEOREM DeltaIsInverted == Spec => []DeltaRoundTrip
PROOF
<1>1. ASSUME IInv PROVE DeltaRoundTrip
  <2>1. bytes \in Nat /\ bytes >= 128  BY <1>1 DEF IInv, TypeOK
  <2>2. output \in [0..(bytes - 1) -> Byte] /\ source \in [0..(bytes - 1) -> Byte]
    BY <1>1 DEF IInv, TypeOK
  <2>3. ASSUME at = bytes - Origin(bytes - 1)
        PROVE  output = source
    <3>1. ASSUME NEW p \in 0..(bytes - 1)
          PROVE  output[p] = source[p]
      <4>1. bytes - 1 \in 0..(bytes - 1)  BY <2>1
      <4>2. /\ Origin(p) \in Nat /\ Origin(bytes - 1) \in Nat
            /\ p - Origin(p) <= (bytes - 1) - Origin(bytes - 1)
        BY <2>1, <4>1, Origins
      <4>3. p - Origin(p) < at  BY <2>1, <2>3, <4>2
      <4> QED BY <1>1, <4>3 DEF IInv, Restored
    <3> DEFINE Bytes == 0..(bytes - 1)
    <3>2. /\ output \in [Bytes -> Byte] /\ source \in [Bytes -> Byte]
          /\ \A p \in Bytes : output[p] = source[p]
      BY <2>2, <3>1
    <3> HIDE DEF Bytes
    <3> QED BY <3>2
  <2> QED BY <2>3 DEF DeltaRoundTrip
<1> QED BY <1>1, Invariance, PTL

\* The byte loops of delta_inv always have a byte before theirs to read.
THEOREM PreviousIsAlwaysRead == Spec => []PreviousIsRead
PROOF
<1>1. ASSUME IInv PROVE PreviousIsRead
  <2>1. bytes \in Nat /\ bytes >= 128 /\ width \in {1, 16, 32} /\ at \in Nat
    BY <1>1 DEF IInv, TypeOK
  <2>2. Stream \in Nat /\ Stream >= 128  BY <2>1, StreamIsLong
  <2> QED BY <2>1, <2>2 DEF PreviousIsRead
<1> QED BY <1>1, Invariance, PTL
=================================================================================

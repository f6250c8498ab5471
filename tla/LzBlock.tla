-------------------------------- MODULE LzBlock --------------------------------
(***************************************************************************)
(* The codec of lz_compress.h, on the elements (4 or 8 bytes) of a block,  *)
(* eight at a time.  `el` is the block as a function from positions to     *)
(* elements and `table` is the table of the last position of each hash:    *)
(* the code does not initialise it, so that what it holds at first is      *)
(* arbitrary.                                                              *)
(*                                                                         *)
(* A group is the record of what is written for eight elements: the        *)
(* distances of those that match (the bits of the anchor byte are their    *)
(* places) and the values of the others.                                   *)
(***************************************************************************)
EXTENDS Integers

Places == 0..7
Hashes == 0..255

\* hash_val: the low byte of a product by 2654435761, whose own is 177.
Hash4(e) == (177 * e[0]) % 256

\* hash_val64: the high byte of a product modulo 2^64, from the bytes of the two
\* factors; t0 to t7 carry.
Hash8(e) ==
  LET t0 == 149 * e[0]
      t1 == 233 * e[0] + 149 * e[1] + t0 \div 256
      t2 == 209 * e[0] + 233 * e[1] + 149 * e[2] + t1 \div 256
      t3 == 91 * e[0] + 209 * e[1] + 233 * e[2] + 149 * e[3] + t2 \div 256
      t4 == 147 * e[0] + 91 * e[1] + 209 * e[2] + 233 * e[3] + 149 * e[4] + t3 \div 256
      t5 == 167 * e[0] + 147 * e[1] + 91 * e[2] + 209 * e[3] + 233 * e[4] + 149 * e[5]
            + t4 \div 256
      t6 == 164 * e[0] + 167 * e[1] + 147 * e[2] + 91 * e[3] + 209 * e[4] + 233 * e[5]
            + 149 * e[6] + t5 \div 256
      t7 == 198 * e[0] + 164 * e[1] + 167 * e[2] + 147 * e[3] + 91 * e[4] + 209 * e[5]
            + 233 * e[6] + 149 * e[7] + t6 \div 256
  IN  t7 % 256

Hash(e) == IF 7 \in DOMAIN e THEN Hash8(e) ELSE Hash4(e)

Last(S) == CHOOSE m \in S : \A k \in S : k <= m

\* What the table holds for the element at i + j: the last element of the group
\* with its hash, or what the groups before left.
Candidate(el, table, i, j) ==
  LET same == {m \in 0..(j - 1) : Hash(el[i + m]) = Hash(el[i + j])}
  IN  IF same = {} THEN table[Hash(el[i + j])] ELSE i + Last(same)

\* Mutant of Matches: the position is compared, the element is not.
MatchesByHash(el, table, i) ==
  {j \in Places : Candidate(el, table, i, j) < i + j}

\* process2: the places of a group that repeat an earlier element.
Matches(el, table, i) ==
  {j \in Places : LET c == Candidate(el, table, i, j)
                  IN  c < i + j /\ el[c] = el[i + j]}

\* The table after a group; positions are stored in 16 bits.
NextTable(el, table, i) ==
  LET met == {Hash(el[i + m]) : m \in Places}
  IN  [h \in Hashes |->
         IF h \in met THEN (i + Last({m \in Places : Hash(el[i + m]) = h})) % 65536
                      ELSE table[h]]

\* write_diff: seven bits in one byte, or fifteen in two.
Written15(d) == IF d < 128 THEN d ELSE (d % 128) + 128 * ((d \div 128) % 256)
DiffSize(d) == IF d < 128 THEN 1 ELSE 2

MatchGroup(el, table, i) ==
  LET matches == Matches(el, table, i)
  IN  [diffs  |-> [j \in matches |-> Written15(i + j - Candidate(el, table, i, j))],
       values |-> [j \in Places \ matches |-> el[i + j]]]

RawGroup(el, i) == [diffs |-> [j \in {} |-> 0], values |-> [j \in Places |-> el[i + j]]]

PlaceSize(group, j, width) ==
  IF j \in DOMAIN group.diffs THEN DiffSize(group.diffs[j]) ELSE width

\* The anchor byte and what is written for each element.
GroupSize(group, width) ==
  1 + PlaceSize(group, 0, width) + PlaceSize(group, 1, width) + PlaceSize(group, 2, width)
    + PlaceSize(group, 3, width) + PlaceSize(group, 4, width) + PlaceSize(group, 5, width)
    + PlaceSize(group, 6, width) + PlaceSize(group, 7, width)
===============================================================================

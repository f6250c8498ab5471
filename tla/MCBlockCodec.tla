----------------------------- MODULE MCBlockCodec -----------------------------
(***************************************************************************)
(* Calls of BlockCodec for TLC: planes that take every header of a row,    *)
(* elements that LZ likes or gives up on, and destinations that end at     *)
(* each of the tests.                                                      *)
(***************************************************************************)
EXTENDS BlockCodec

Noise(k) == (k * k * 31 + k * 101 + (k \div 7) * 53) % 256

Pattern(name, k) ==
  CASE name = "same"    -> 9
    [] name = "noise"   -> Noise(k)
    [] name = "ramp"    -> (3 * k) % 256
    [] name = "words"   -> Noise(k % 11)
    [] name = "far"     -> Noise(k % 149)
    [] name = "sparse"  -> IF k % 37 = 5 THEN Noise(k) ELSE 128
    [] name = "rows"    -> Noise(k \div 16)
    [] name = "slopes"  -> (((k \div 48) * k) + (Noise(k) % (1 + (2 ^ ((k \div 16) % 7))))) % 256
    [] name = "nibbles" -> (120 + (Noise(k) % (2 ^ (1 + ((k \div 16) % 7))))) % 256
    [] name = "edges"   -> IF Noise(k) % 9 = 0 THEN 127 ELSE 128

Source(type, bytes, names) ==
  [o \in 0..(bytes - 1) |-> Pattern(names[1 + (o % type)], o \div type)]

Job(type, bytes, names, lev, room, timed, rat) ==
  [bytesoftype |-> type, bytes |-> bytes, room |-> room, level |-> lev,
   timed |-> timed, ratio |-> rat, source |-> Source(type, bytes, names)]

Names == {"same", "noise", "ramp", "words", "sparse", "rows", "slopes", "nibbles", "edges"}

MCJobs ==
  {Job(1, 256, <<p>>, l, 1000, FALSE, FALSE) : p \in Names, l \in 0..3}
  \union {Job(1, 256, <<p>>, 1, r, FALSE, FALSE) :
            p \in {"same", "rows", "ramp", "noise"}, r \in {0, 1, 17, 24, 25, 40, 41, 60, 257}}
  \union {Job(1, b, <<p>>, 0, r, FALSE, FALSE) :
            b \in {5, 85}, p \in {"same", "ramp", "nibbles"}, r \in {1, 6, 7, 30, 60, 500}}
  \union {Job(1, 530, <<p>>, 1, r, TRUE, TRUE) : p \in {"slopes"}, r \in {520, 2000}}
  \union {Job(4, 1184, <<p, q, p, q>>, 2, r, FALSE, TRUE) :
            p \in {"words", "far"}, q \in {"words", "nibbles"}, r \in {900, 1100, 3000}}
  \union {Job(4, 1024, <<"noise", "noise", "words", "noise">>, 2, 1100, FALSE, FALSE)}
  \union {Job(8, 2048, <<"words", "words", "words", "same", "rows", "words", "words", "words">>,
              2, 5000, FALSE, FALSE)}

MCTables == {[h \in Hashes |-> 0], [h \in Hashes |-> h], [h \in Hashes |-> 65535]}
===============================================================================

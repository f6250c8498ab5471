-------------------------- MODULE CVectorMemoryProofs --------------------------
(***************************************************************************)
(* What the operations of the compressed vector do to its memory.          *)
(*                                                                         *)
(* Represents(m, view) says that a memory m holds the blocks of view: the  *)
(* buckets and the contexts refer to each other, and the values of every   *)
(* bucket, compressed or not, are those of its block.  Holds(m, w) says    *)
(* that the blocks are those of a vector w.  Each operation is shown to    *)
(* keep the first, step by step, and then the second: here the contexts    *)
(* that are made, found, taken and freed, the values that are read and     *)
(* written through wrappers, and for_each.  CVectorProofs has the rest.    *)
(***************************************************************************)
EXTENDS CVector, FiniteSetTheorems, WellFoundedInduction, TLAPS

\* No functor of for_each throws.
NeverThrows == TRUE \notin Throws

\* A whole block.
Full == [1..BlockSize -> Values]

Cell   == [data : Seq(Values), dirty : BOOLEAN, block_index : Nat, buffer : Blocks]
Bucket == [raw : Nat, compressed : Blocks, refs : Nat]

IsRecord(m) ==
  m = [buckets |-> m.buckets, contexts |-> m.contexts, order |-> m.order,
       size |-> m.size, live |-> m.live]

\* The fields of a memory.
IsMemory(m) ==
  /\ IsRecord(m)
  /\ m.buckets \in Seq(Bucket)
  /\ m.contexts \in [DOMAIN m.contexts -> Cell]
  /\ m.size \in Int /\ m.live \in Int

\* The list has each member of a set once.
IsListOf(list, S) ==
  /\ list \in Seq(Nat \ {0})
  /\ \A p \in 1..Len(list) : list[p] \in S
  /\ \A c \in S : \E p \in 1..Len(list) : list[p] = c
  /\ \A p, q \in 1..Len(list) : list[p] = list[q] => p = q

Listed(m) == IsListOf(m.order, DOMAIN m.contexts)

\* The values are those of a block.  A functor that throws leaves others.
Shows(values, block) == Len(values) = Len(block) /\ (NeverThrows => values = block)

\* The compressed buffer of a context has its values.
Saved(x) ==
  x.buffer \in Full /\ Len(x.data) = BlockSize /\ (NeverThrows => x.buffer = x.data)

\* What a bucket has is a block of the vector.
BucketShows(m, b, block) ==
  LET k == m.buckets[b]
  IN  IF k.raw = NoContext THEN k.compressed \in Full /\ Shows(k.compressed, block)
      ELSE /\ k.raw \in DOMAIN m.contexts /\ m.contexts[k.raw].block_index = b
           /\ Shows(m.contexts[k.raw].data, block)

\* A context is empty, or is that of a bucket, and then modified or saved.
ContextIsLinked(m, c) ==
  LET x == m.contexts[c]
  IN  IF x.block_index = 0 THEN x = EmptyContext
      ELSE /\ x.block_index \in DOMAIN m.buckets /\ m.buckets[x.block_index].raw = c
           /\ x.dirty \/ Saved(x)

\* The buckets that have a compressed buffer.
Buffered(m) == {b \in DOMAIN m.buckets : FindCompressed(m, b) # Null}

\* The memory holds the blocks of view, in its buckets and contexts.
Represents(m, view) ==
  /\ IsMemory(m) /\ Listed(m)
  /\ view \in Seq(Seq(Values)) /\ Len(view) = Len(m.buckets)
  /\ \A b \in 1..Len(view) : Len(view[b]) <= BlockSize /\ BucketShows(m, b, view[b])
  /\ \A c \in DOMAIN m.contexts : ContextIsLinked(m, c)
  /\ m.live = Cardinality(Buffered(m))

-----------------------------------------------------------------------------
(* Blocks and memories *)

LEMMA Constants == BlockSize \in Nat /\ BlockSize > 0 /\ ContextRatio \in Nat /\ MaxSize \in Nat
BY CVectorAssumption

\* Whole blocks are the sequences of BlockSize values.
LEMMA FullBlocks ==
  ASSUME NEW f
  PROVE  /\ f \in Full <=> f \in Seq(Values) /\ Len(f) = BlockSize
         /\ f \in Full => f # Null /\ f \in Blocks
PROOF
<1>0. BlockSize \in Nat /\ BlockSize > 0  BY Constants
<1>1. ASSUME f \in Full PROVE f \in Seq(Values) /\ Len(f) = BlockSize
  BY <1>0, <1>1 DEF Full
<1>2. ASSUME f \in Seq(Values), Len(f) = BlockSize PROVE f \in Full
  BY <1>0, <1>2 DEF Full
<1>3. ASSUME f \in Full PROVE f # Null /\ f \in Blocks
  <2>1. Len(f) # Len(<<>>)  BY <1>0, <1>1, <1>3
  <2> QED BY <1>3, <2>1 DEF Null, Blocks, Full
<1> QED BY <1>1, <1>2, <1>3

LEMMA NoBlocks == Null \in Blocks /\ Stale \in Blocks /\ Stale # Null /\ Len(Null) = 0
PROOF
<1>1. Len(<<"stale">>) # Len(<<>>)  OBVIOUS
<1> QED BY <1>1 DEF Null, Stale, Blocks

LEMMA EmptyIsCell == EmptyContext \in Cell /\ EmptyContext.block_index = 0 /\ ~EmptyContext.dirty
BY NoBlocks DEF EmptyContext, Cell, Null

LEMMA ContextNames ==
  ASSUME NEW m, IsMemory(m), Listed(m)
  PROVE  DOMAIN m.contexts \subseteq Nat \ {0}
PROOF
<1>1. \A p \in 1..Len(m.order) : m.order[p] \in Nat \ {0}  BY DEF Listed, IsListOf
<1> QED BY <1>1 DEF Listed, IsListOf

\* There are finitely many buckets.
LEMMA BufferedFinite ==
  ASSUME NEW m, IsMemory(m)
  PROVE  IsFiniteSet(Buffered(m)) /\ Cardinality(Buffered(m)) \in Nat
PROOF
<1>1. Len(m.buckets) \in Nat /\ DOMAIN m.buckets = 1..Len(m.buckets)  BY DEF IsMemory
<1>2. IsFiniteSet(1..Len(m.buckets))  BY <1>1, FS_Interval
<1>3. Buffered(m) \subseteq 1..Len(m.buckets)  BY <1>1 DEF Buffered
<1>4. IsFiniteSet(Buffered(m))  BY <1>2, <1>3, FS_Subset
<1> QED BY <1>4, FS_CardinalityType

Count(p) == IF p THEN 1 ELSE 0

\* What one bucket more or less changes in a count.
LEMMA CountOne ==
  ASSUME NEW S, NEW T, NEW b, IsFiniteSet(S), S \ {b} = T \ {b}
  PROVE  /\ IsFiniteSet(T)
         /\ Cardinality(T) + Count(b \in S) = Cardinality(S) + Count(b \in T)
PROOF
<1> DEFINE R == S \ {b}
<1>1. IsFiniteSet(R)  BY FS_Subset
<1>2. IsFiniteSet(R \union {b}) /\ Cardinality(R \union {b}) = Cardinality(R) + 1
  <2>1. b \notin R  OBVIOUS
  <2> HIDE DEF R
  <2> QED BY <1>1, <2>1, FS_AddElement
<1>3. S = IF b \in S THEN R \union {b} ELSE R  OBVIOUS
<1>4. T = IF b \in T THEN R \union {b} ELSE R  OBVIOUS
<1>5. Cardinality(R) \in Nat  BY <1>1, FS_CardinalityType
<1> HIDE DEF R
<1>6. IsFiniteSet(T)  BY <1>1, <1>2, <1>4
<1>7. Cardinality(S) = Cardinality(R) + Count(b \in S)
  <2>1. CASE b \in S  BY <1>2, <1>3, <2>1 DEF Count
  <2>2. CASE b \notin S
    <3>1. S = R  BY <1>3, <2>2
    <3> QED BY <1>5, <2>2, <3>1 DEF Count
  <2> QED BY <2>1, <2>2
<1>8. Cardinality(T) = Cardinality(R) + Count(b \in T)
  <2>1. CASE b \in T  BY <1>2, <1>4, <2>1 DEF Count
  <2>2. CASE b \notin T
    <3>1. T = R  BY <1>4, <2>2
    <3> QED BY <1>5, <2>2, <3>1 DEF Count
  <2> QED BY <2>1, <2>2
<1>9. Count(b \in S) \in Nat /\ Count(b \in T) \in Nat  BY DEF Count
<1> QED BY <1>5, <1>6, <1>7, <1>8, <1>9

-----------------------------------------------------------------------------
(* A bucket and a context change together *)

\* Bucket k and context x, number b and name c, have a block of the vector.
PairShows(k, x, b, c, block) ==
  \/ k.raw = NoContext /\ x = EmptyContext /\ k.compressed \in Full /\ Shows(k.compressed, block)
  \/ k.raw = c /\ x.block_index = b /\ Shows(x.data, block) /\ (x.dirty \/ Saved(x))

BufferOf(k, x) == IF k.raw = NoContext THEN k.compressed ELSE x.buffer

\* The memory with another bucket b, context c, size and count of buffers.
Changed(m, b, k, c, x, s, l) ==
  [buckets |-> [m.buckets EXCEPT ![b] = k], contexts |-> [m.contexts EXCEPT ![c] = x],
   order |-> m.order, size |-> s, live |-> l]

\* The count goes with the buffers.
Counted(m, b, k, c, x, l) ==
  l + Count(BufferOf(m.buckets[b], m.contexts[c]) # Null) = m.live + Count(BufferOf(k, x) # Null)

\* The blocks but one are the same.
SameBut(view, shown, b) ==
  /\ shown \in Seq(Seq(Values)) /\ Len(shown) = Len(view) /\ Len(shown[b]) <= BlockSize
  /\ \A a \in 1..Len(view) : a # b => shown[a] = view[a]

\* Bucket b and context c, which has b or nothing, change to k and x.
PairStep(m, view, b, k, c, x, shown, n) ==
  /\ Represents(m, view)
  /\ b \in 1..Len(m.buckets) /\ m.buckets[b].raw \in {NoContext, c}
  /\ c \in DOMAIN m.contexts /\ m.contexts[c].block_index \in {0, b}
  /\ k \in Bucket /\ x \in Cell /\ PairShows(k, x, b, c, shown[b]) /\ SameBut(view, shown, b)
  /\ n.size \in Int /\ n.live \in Int /\ Counted(m, b, k, c, x, n.live)
  /\ n = Changed(m, b, k, c, x, n.size, n.live)

LEMMA PairChanges ==
  ASSUME NEW m, NEW view, NEW b, NEW k, NEW c, NEW x, NEW shown, NEW n,
         PairStep(m, view, b, k, c, x, shown, n)
  PROVE  /\ Represents(n, shown)
         /\ Len(n.buckets) = Len(m.buckets) /\ n.buckets[b] = k
         /\ \A a \in 1..Len(m.buckets) : a # b => n.buckets[a] = m.buckets[a]
         /\ n.order = m.order
         /\ DOMAIN n.contexts = DOMAIN m.contexts /\ n.contexts[c] = x
         /\ \A d \in DOMAIN m.contexts : d # c => n.contexts[d] = m.contexts[d]
PROOF
<1> USE DEF PairStep, SameBut
<1>0. /\ IsRecord(n) /\ n.size \in Int /\ n.live \in Int /\ n.order = m.order
      /\ n.buckets = [m.buckets EXCEPT ![b] = k] /\ n.contexts = [m.contexts EXCEPT ![c] = x]
  BY DEF IsRecord, Changed
<1>1. IsMemory(m) /\ Listed(m) /\ view \in Seq(Seq(Values)) /\ Len(view) = Len(m.buckets)
  BY DEF Represents
<1>2. c \in Nat \ {0}  BY <1>1, ContextNames
<1>3. DOMAIN m.buckets = 1..Len(m.buckets) /\ m.buckets \in Seq(Bucket)
      /\ m.contexts \in [DOMAIN m.contexts -> Cell]
  BY <1>1 DEF IsMemory
<1>4. n.buckets \in Seq(Bucket) /\ Len(n.buckets) = Len(m.buckets)
      /\ DOMAIN n.buckets = 1..Len(m.buckets)
  BY <1>0, <1>3
<1>5. DOMAIN n.contexts = DOMAIN m.contexts /\ n.contexts \in [DOMAIN m.contexts -> Cell]
  BY <1>0, <1>3
<1>6. n.buckets[b] = k /\ \A a \in 1..Len(m.buckets) : a # b => n.buckets[a] = m.buckets[a]
  BY <1>0, <1>3
<1>16. n.contexts[c] = x /\ \A d \in DOMAIN m.contexts : d # c => n.contexts[d] = m.contexts[d]
  BY <1>0, <1>3
<1>7. IsMemory(n)  BY <1>0, <1>1, <1>4, <1>5 DEF IsMemory
<1>8. Listed(n)  BY <1>0, <1>1, <1>5 DEF Listed
<1>9. Len(shown) = Len(n.buckets)  BY <1>1, <1>4
<1>10. \A a \in 1..Len(m.buckets) : Len(view[a]) <= BlockSize /\ BucketShows(m, a, view[a])
  BY <1>1 DEF Represents
<1>11. \A d \in DOMAIN m.contexts : ContextIsLinked(m, d)  BY DEF Represents
<1>12. ASSUME NEW a \in 1..Len(shown)
       PROVE  Len(shown[a]) <= BlockSize /\ BucketShows(n, a, shown[a])
  <2>1. CASE a = b
    <3>1. BucketShows(n, b, shown[b])
      BY <1>2, <1>5, <1>6, <1>16 DEF PairShows, BucketShows, NoContext
    <3> QED BY <1>9, <2>1, <3>1
  <2>2. CASE a # b
    <3>1. a \in 1..Len(m.buckets) /\ shown[a] = view[a] /\ n.buckets[a] = m.buckets[a]
      BY <1>1, <1>4, <1>6, <1>9, <2>2
    <3>2. m.buckets[a].raw # c \/ m.buckets[a].raw = NoContext
      <4>1. ASSUME m.buckets[a].raw = c PROVE FALSE
        <5>1. BucketShows(m, a, view[a]) /\ m.buckets[a].raw # NoContext
          BY <1>2, <1>10, <3>1, <4>1 DEF NoContext
        <5>2. m.contexts[c].block_index = a  BY <4>1, <5>1 DEF BucketShows
        <5>3. m.contexts[c].block_index \in {0, b} /\ a # 0  BY <3>1
        <5> QED BY <2>2, <5>2, <5>3
      <4> QED BY <4>1
    <3>3. Len(view[a]) <= BlockSize /\ BucketShows(m, a, view[a])  BY <1>10, <3>1
    <3>4. CASE m.buckets[a].raw = NoContext  BY <3>1, <3>3, <3>4 DEF BucketShows
    <3>5. CASE m.buckets[a].raw # NoContext
      <4> DEFINE d == m.buckets[a].raw
      <4>2. d \in DOMAIN m.contexts /\ d # c  BY <3>2, <3>3, <3>5 DEF BucketShows
      <4> HIDE DEF d
      <4>3. n.contexts[d] = m.contexts[d]  BY <1>16, <4>2
      <4>1. n.contexts[m.buckets[a].raw] = m.contexts[m.buckets[a].raw]
            /\ m.buckets[a].raw \in DOMAIN m.contexts
        BY <4>2, <4>3 DEF d
      <4> QED BY <1>5, <3>1, <3>3, <3>5, <4>1 DEF BucketShows
    <3> QED BY <3>4, <3>5
  <2> QED BY <2>1, <2>2
<1>13. ASSUME NEW d \in DOMAIN n.contexts PROVE ContextIsLinked(n, d)
  <2>1. CASE d = c
    <3>1. x.block_index # 0 => k.raw = c /\ x.block_index = b /\ (x.dirty \/ Saved(x))
      BY EmptyIsCell DEF PairShows
    <3>2. x.block_index = 0 => x = EmptyContext  BY DEF PairShows
    <3> QED BY <1>4, <1>6, <1>16, <2>1, <3>1, <3>2 DEF ContextIsLinked
  <2>2. CASE d # c
    <3>1. ContextIsLinked(m, d) /\ n.contexts[d] = m.contexts[d]  BY <1>5, <1>11, <1>16, <2>2
    <3>2. d # NoContext  BY <1>1, <1>5, ContextNames DEF NoContext
    <3>3. m.contexts[d].block_index # b \/ m.contexts[d].block_index = 0
      BY <2>2, <3>1, <3>2 DEF ContextIsLinked
    <3> QED BY <1>3, <1>4, <1>6, <3>1, <3>3 DEF ContextIsLinked
  <2> QED BY <2>1, <2>2
<1>14. n.live = Cardinality(Buffered(n))
  <2>1. FindCompressed(m, b) = BufferOf(m.buckets[b], m.contexts[c])
    BY DEF FindCompressed, BufferOf, RawOf
  <2>2. FindCompressed(n, b) = BufferOf(k, x)
    BY <1>2, <1>6, <1>16 DEF FindCompressed, BufferOf, RawOf, PairShows, NoContext
  <2>3. ASSUME NEW a \in 1..Len(m.buckets), a # b
        PROVE  FindCompressed(n, a) = FindCompressed(m, a)
    <3>1. n.buckets[a] = m.buckets[a] /\ BucketShows(m, a, view[a])  BY <1>6, <1>10, <2>3
    <3>2. m.buckets[a].raw # NoContext
          => m.buckets[a].raw # c /\ m.buckets[a].raw \in DOMAIN m.contexts
      BY <2>3, <3>1, <1>2 DEF BucketShows, NoContext
    <3> QED BY <1>16, <3>1, <3>2 DEF FindCompressed, RawOf
  <2>4. Buffered(m) \ {b} = Buffered(n) \ {b}  BY <1>3, <1>4, <2>3 DEF Buffered
  <2>5. IsFiniteSet(Buffered(m)) /\ Cardinality(Buffered(m)) \in Nat  BY <1>1, BufferedFinite
  <2>6. Cardinality(Buffered(n)) + Count(b \in Buffered(m))
          = Cardinality(Buffered(m)) + Count(b \in Buffered(n))
    BY <2>4, <2>5, CountOne
  <2>7. Cardinality(Buffered(n)) \in Nat  BY <1>7, BufferedFinite
  <2>8. b \in Buffered(m) <=> BufferOf(m.buckets[b], m.contexts[c]) # Null
    BY <1>3, <2>1 DEF Buffered
  <2>9. b \in Buffered(n) <=> BufferOf(k, x) # Null  BY <1>4, <2>2 DEF Buffered
  <2>10. m.live = Cardinality(Buffered(m))  BY DEF Represents
  <2> QED BY <1>0, <2>5, <2>6, <2>7, <2>8, <2>9, <2>10 DEF Count, Counted
<1>15. Represents(n, shown)
  BY <1>7, <1>8, <1>9, <1>12, <1>13, <1>14 DEF Represents
<1> QED BY <1>0, <1>4, <1>5, <1>6, <1>15, <1>16

ContextChanged(m, c, x, s, l) ==
  [buckets |-> m.buckets, contexts |-> [m.contexts EXCEPT ![c] = x],
   order |-> m.order, size |-> s, live |-> l]

\* The context of bucket b changes to x.
ContextStep(m, view, b, c, x, shown, n) ==
  /\ Represents(m, view)
  /\ c \in DOMAIN m.contexts /\ m.contexts[c].block_index = b /\ b # 0
  /\ x \in Cell /\ x.block_index = b
  /\ Shows(x.data, shown[b]) /\ SameBut(view, shown, b)
  /\ x.dirty \/ Saved(x)
  /\ n.size \in Int /\ n.live \in Int
  /\ n.live + Count(m.contexts[c].buffer # Null) = m.live + Count(x.buffer # Null)
  /\ n = ContextChanged(m, c, x, n.size, n.live)

LEMMA ContextChanges ==
  ASSUME NEW m, NEW view, NEW b, NEW c, NEW x, NEW shown, NEW n,
         ContextStep(m, view, b, c, x, shown, n)
  PROVE  /\ b \in 1..Len(view) /\ Represents(n, shown)
         /\ n.buckets = m.buckets /\ n.order = m.order
         /\ DOMAIN n.contexts = DOMAIN m.contexts /\ n.contexts[c] = x
         /\ \A d \in DOMAIN m.contexts : d # c => n.contexts[d] = m.contexts[d]
PROOF
<1> USE DEF ContextStep
<1> DEFINE k == m.buckets[b]
<1>1. IsMemory(m) /\ Listed(m) /\ Len(view) = Len(m.buckets)  BY DEF Represents
<1>2. ContextIsLinked(m, c)  BY DEF Represents
<1>3. c # NoContext  BY <1>1, ContextNames DEF NoContext
<1>4. DOMAIN m.buckets = 1..Len(m.buckets) /\ m.buckets \in Seq(Bucket)  BY <1>1 DEF IsMemory
<1>5. b \in 1..Len(m.buckets) /\ m.buckets[b].raw = c  BY <1>2, <1>4 DEF ContextIsLinked
<1>6. k \in Bucket /\ m.buckets = [m.buckets EXCEPT ![b] = k]
  <2>1. k \in Bucket  BY <1>4, <1>5
  <2>2. m.buckets = [m.buckets EXCEPT ![b] = m.buckets[b]]  BY <1>4, <1>5
  <2> QED BY <2>1, <2>2
<1>7. PairShows(k, x, b, c, shown[b])  BY <1>5 DEF PairShows
<1>8. BufferOf(k, m.contexts[c]) = m.contexts[c].buffer /\ BufferOf(k, x) = x.buffer
  BY <1>3, <1>5 DEF BufferOf
<1>9. n = Changed(m, b, k, c, x, n.size, n.live)  BY <1>6 DEF Changed, ContextChanged
<1>10. k = m.buckets[b] /\ m.buckets[b].raw \in {NoContext, c} /\ m.contexts[c].block_index \in {0, b}
  BY <1>5
<1>11. n.buckets = m.buckets  BY DEF ContextChanged
<1> HIDE DEF k
<1>12. Counted(m, b, k, c, x, n.live)  BY <1>8, <1>10 DEF Counted
<1>13. PairStep(m, view, b, k, c, x, shown, n)
  BY <1>5, <1>6, <1>7, <1>9, <1>10, <1>12 DEF PairStep
<1> QED BY <1>1, <1>5, <1>11, <1>13, PairChanges

LEMMA MemoryFacts ==
  ASSUME NEW m, NEW view, Represents(m, view)
  PROVE  /\ IsMemory(m) /\ Listed(m)
         /\ view \in Seq(Seq(Values)) /\ Len(view) = Len(m.buckets) /\ Len(view) \in Nat
         /\ DOMAIN m.buckets = 1..Len(view)
         /\ DOMAIN m.contexts \subseteq Nat \ {0}
         /\ \A b \in 1..Len(view) : view[b] \in Seq(Values) /\ Len(view[b]) \in 0..BlockSize
         /\ \A p \in 1..Len(m.order) : m.order[p] \in DOMAIN m.contexts
PROOF
<1>1. IsMemory(m) /\ Listed(m) /\ view \in Seq(Seq(Values)) /\ Len(view) = Len(m.buckets)
      /\ \A b \in 1..Len(view) : Len(view[b]) <= BlockSize
  BY DEF Represents
<1>2. DOMAIN m.buckets = 1..Len(view) /\ Len(view) \in Nat  BY <1>1 DEF IsMemory
<1>3. \A b \in 1..Len(view) : view[b] \in Seq(Values)  BY <1>1
<1>4. \A b \in 1..Len(view) : Len(view[b]) \in 0..BlockSize  BY <1>1, <1>3, Constants
<1>5. \A p \in 1..Len(m.order) : m.order[p] \in DOMAIN m.contexts  BY <1>1 DEF Listed, IsListOf
<1> QED BY <1>1, <1>2, <1>3, <1>4, <1>5, ContextNames

\* What a context in use has.
LEMMA ContextFacts ==
  ASSUME NEW m, NEW view, Represents(m, view), NEW c \in DOMAIN m.contexts,
         NEW b, b = m.contexts[c].block_index, b # 0
  PROVE  /\ b \in 1..Len(view) /\ m.buckets[b].raw = c /\ c # NoContext
         /\ m.contexts[c] \in Cell /\ m.buckets[b] \in Bucket
         /\ Shows(m.contexts[c].data, view[b])
         /\ m.contexts[c].dirty \/ Saved(m.contexts[c])
PROOF
<1>1. DOMAIN m.buckets = 1..Len(view) /\ m.buckets \in Seq(Bucket) /\ Len(view) = Len(m.buckets)
      /\ m.contexts \in [DOMAIN m.contexts -> Cell] /\ c # NoContext
  BY MemoryFacts DEF IsMemory, NoContext
<1>2. ContextIsLinked(m, c)  BY DEF Represents
<1>3. b \in 1..Len(view) /\ m.buckets[b].raw = c
      /\ (m.contexts[c].dirty \/ Saved(m.contexts[c]))
  BY <1>1, <1>2 DEF ContextIsLinked
<1>4. BucketShows(m, b, view[b])  BY <1>3 DEF Represents
<1>5. Shows(m.contexts[c].data, view[b])  BY <1>1, <1>3, <1>4 DEF BucketShows
<1> QED BY <1>1, <1>3, <1>5

LEMMA EmptyFacts ==
  ASSUME NEW m, NEW view, Represents(m, view), NEW c \in DOMAIN m.contexts,
         m.contexts[c].block_index = 0
  PROVE  m.contexts[c] = EmptyContext
BY DEF Represents, ContextIsLinked

\* What a bucket has.
LEMMA BucketFacts ==
  ASSUME NEW m, NEW view, Represents(m, view), NEW b \in 1..Len(view)
  PROVE  /\ m.buckets[b] \in Bucket /\ b # 0
         /\ m.buckets[b].raw = NoContext =>
              /\ m.buckets[b].compressed \in Full
              /\ Shows(m.buckets[b].compressed, view[b])
         /\ m.buckets[b].raw # NoContext =>
              /\ m.buckets[b].raw \in DOMAIN m.contexts
              /\ m.contexts[m.buckets[b].raw].block_index = b
              /\ m.contexts[m.buckets[b].raw] \in Cell
              /\ Shows(m.contexts[m.buckets[b].raw].data, view[b])
              /\ m.contexts[m.buckets[b].raw].dirty \/ Saved(m.contexts[m.buckets[b].raw])
PROOF
<1>1. BucketShows(m, b, view[b])  BY DEF Represents
<1>2. m.buckets[b] \in Bucket  BY MemoryFacts DEF IsMemory
<1>3. ASSUME m.buckets[b].raw # NoContext
      PROVE  /\ m.buckets[b].raw \in DOMAIN m.contexts
             /\ m.contexts[m.buckets[b].raw].block_index = b
  BY <1>1, <1>3 DEF BucketShows
<1> QED BY <1>1, <1>2, <1>3, ContextFacts DEF BucketShows

\* The number of buckets, the size and who refers to what do not change, and no
\* decompressed bucket that is referred to, or that has context e, loses its context.
Keeps(m, n, e) ==
  /\ Len(n.buckets) = Len(m.buckets) /\ n.size = m.size
  /\ \A b \in 1..Len(m.buckets) :
       /\ n.buckets[b].refs = m.buckets[b].refs
       /\ (m.buckets[b].refs > 0 \/ m.buckets[b].raw = e) /\ m.buckets[b].raw # NoContext
            => n.buckets[b].raw = m.buckets[b].raw

LEMMA KeepsTwice ==
  ASSUME NEW l, NEW m, NEW n, NEW e, Keeps(l, m, e), Keeps(m, n, e)
  PROVE  Keeps(l, n, e)
PROOF
<1>1. Len(m.buckets) = Len(l.buckets)  BY DEF Keeps
<1> QED BY <1>1 DEF Keeps

\* The same, and no bucket is decompressed.
Found(m, n, e) ==
  /\ Keeps(m, n, e)
  /\ \A b \in 1..Len(m.buckets) : m.buckets[b].raw = NoContext => n.buckets[b].raw = NoContext

LEMMA FoundTwice ==
  ASSUME NEW l, NEW m, NEW n, NEW e, Found(l, m, e), Found(m, n, e)
  PROVE  Found(l, n, e)
PROOF
<1>1. Len(m.buckets) = Len(l.buckets)  BY DEF Keeps, Found
<1>2. Keeps(l, n, e)  BY KeepsTwice DEF Found
<1> QED BY <1>1, <1>2 DEF Found

LEMMA KeepsSame ==
  ASSUME NEW m, NEW n, NEW e, n.buckets = m.buckets, n.size = m.size
  PROVE  Keeps(m, n, e) /\ Found(m, n, e)
BY DEF Keeps, Found

-----------------------------------------------------------------------------
(* Contexts are compressed and released *)

LEMMA CompressShows ==
  ASSUME NEW m, NEW view, Represents(m, view), NEW c \in DOMAIN m.contexts,
         m.contexts[c].block_index # 0, Len(m.contexts[c].data) = BlockSize,
         NEW n, n = Compress(m, c)
  PROVE  /\ Represents(n, view) /\ n.buckets = m.buckets /\ n.order = m.order /\ n.size = m.size
         /\ Saved(n.contexts[c]) /\ n.contexts[c].block_index = m.contexts[c].block_index
         /\ DOMAIN n.contexts = DOMAIN m.contexts
         /\ \A d \in DOMAIN m.contexts : n.contexts[d].data = m.contexts[d].data
         /\ \A d \in DOMAIN m.contexts : d # c => n.contexts[d] = m.contexts[d]
PROOF
<1> DEFINE b == m.contexts[c].block_index
           x == [m.contexts[c] EXCEPT !.buffer = m.contexts[c].data]
           l == IF m.contexts[c].buffer = Null THEN m.live + 1 ELSE m.live
<1>1. IsMemory(m) /\ view \in Seq(Seq(Values)) /\ view[b] \in Seq(Values) /\ Len(view[b]) <= BlockSize
  BY MemoryFacts, ContextFacts, Constants
<1>2. b \in 1..Len(view) /\ m.contexts[c] \in Cell /\ Shows(m.contexts[c].data, view[b])
  BY ContextFacts
<1>3. m.contexts[c].data \in Full /\ m.contexts[c].data # Null /\ m.contexts[c].data \in Blocks
  BY <1>2, FullBlocks DEF Cell
<1>4. x \in Cell /\ x.data = m.contexts[c].data /\ x.buffer = x.data /\ x.block_index = b
  BY <1>2, <1>3 DEF Cell
<1>5. Saved(x)  BY <1>3, <1>4 DEF Saved
<1>6. n = ContextChanged(m, c, x, m.size, l)
  BY <1>1 DEF IsMemory, IsRecord, Compress, ContextChanged
<1>7. m.size \in Int /\ m.live \in Int /\ n.size = m.size /\ n.live = l
  BY <1>1, <1>6 DEF IsMemory, ContextChanged
<1>8. l \in Int /\ l + Count(m.contexts[c].buffer # Null) = m.live + Count(x.buffer # Null)
  BY <1>3, <1>4, <1>7 DEF Count
<1>9. SameBut(view, view, b)  BY <1>1, <1>2 DEF SameBut
<1>10. m.contexts[c].block_index = b /\ b # 0  OBVIOUS
<1>11. Shows(x.data, view[b]) /\ (x.dirty \/ Saved(x))  BY <1>2, <1>4, <1>5
<1> HIDE DEF x, l, b
<1>12. ContextStep(m, view, b, c, x, view, n)
  BY <1>4, <1>6, <1>7, <1>8, <1>9, <1>10, <1>11 DEF ContextStep
<1>13. /\ Represents(n, view)
       /\ n.buckets = m.buckets /\ n.order = m.order
       /\ DOMAIN n.contexts = DOMAIN m.contexts /\ n.contexts[c] = x
       /\ \A d \in DOMAIN m.contexts : d # c => n.contexts[d] = m.contexts[d]
  BY <1>12, ContextChanges
<1>14. \A d \in DOMAIN m.contexts : n.contexts[d].data = m.contexts[d].data  BY <1>4, <1>13
<1> QED BY <1>4, <1>5, <1>7, <1>9, <1>10, <1>13, <1>14

\* The bucket of a context that is saved has the compressed buffer, and the context
\* is empty.
LEMMA ReleaseShows ==
  ASSUME NEW m, NEW view, Represents(m, view), NEW c \in DOMAIN m.contexts,
         m.contexts[c].block_index = 0 \/ Saved(m.contexts[c]),
         NEW n, n = Release(m, c)
  PROVE  /\ Represents(n, view) /\ n.order = m.order /\ n.size = m.size
         /\ DOMAIN n.contexts = DOMAIN m.contexts /\ n.contexts[c] = EmptyContext
         /\ \A d \in DOMAIN m.contexts : d # c => n.contexts[d] = m.contexts[d]
         /\ Len(n.buckets) = Len(m.buckets)
         /\ \A a \in 1..Len(m.buckets) :
              /\ n.buckets[a].refs = m.buckets[a].refs
              /\ a # m.contexts[c].block_index => n.buckets[a] = m.buckets[a]
              /\ a = m.contexts[c].block_index => n.buckets[a].raw = NoContext
PROOF
<1>1. IsMemory(m) /\ Len(view) = Len(m.buckets) /\ view \in Seq(Seq(Values))
      /\ DOMAIN m.buckets = 1..Len(view)
  BY MemoryFacts
<1>2. CASE m.contexts[c].block_index = 0
  <2>1. m.contexts[c] = EmptyContext  BY <1>2, EmptyFacts
  <2>2. n = [m EXCEPT !.contexts[c] = EmptyContext]  BY <1>2 DEF Release, Unlink, Reset
  <2>3. [m.contexts EXCEPT ![c] = EmptyContext] = m.contexts  BY <1>1, <2>1 DEF IsMemory
  <2>4. n = m  BY <1>1, <2>2, <2>3 DEF IsMemory, IsRecord
  <2> QED BY <1>1, <1>2, <2>1, <2>4
<1>3. CASE m.contexts[c].block_index # 0
  <2> DEFINE b == m.contexts[c].block_index
             k == [m.buckets[b] EXCEPT !.raw = NoContext, !.compressed = m.contexts[c].buffer]
  <2>1. /\ b \in 1..Len(view) /\ m.buckets[b].raw = c /\ c # NoContext
        /\ m.contexts[c] \in Cell /\ m.buckets[b] \in Bucket
        /\ Shows(m.contexts[c].data, view[b])
    BY <1>3, ContextFacts
  <2>2. view[b] \in Seq(Values) /\ Len(view[b]) <= BlockSize  BY <2>1, MemoryFacts, Constants
  <2>3. Saved(m.contexts[c])  BY <1>3
  <2>4. k \in Bucket /\ k.raw = NoContext /\ k.compressed = m.contexts[c].buffer
        /\ k.refs = m.buckets[b].refs
    BY <2>1 DEF Bucket, Cell, NoContext
  <2>5. PairShows(k, EmptyContext, b, c, view[b])
    BY <2>1, <2>3, <2>4, FullBlocks DEF PairShows, Saved, Shows
  <2>6. n = Changed(m, b, k, c, EmptyContext, m.size, m.live)
    BY <1>1, <1>3 DEF IsMemory, IsRecord, Release, Unlink, Reset, Changed
  <2>7. m.size \in Int /\ m.live \in Int /\ n.size = m.size /\ n.live = m.live
    BY <1>1, <2>6 DEF IsMemory, Changed
  <2>8. BufferOf(m.buckets[b], m.contexts[c]) = m.contexts[c].buffer
        /\ BufferOf(k, EmptyContext) = m.contexts[c].buffer
    BY <2>1, <2>4 DEF BufferOf
  <2>9. SameBut(view, view, b)  BY <1>1, <2>2 DEF SameBut
  <2>10. m.contexts[c].block_index = b  OBVIOUS
  <2> HIDE DEF b, k
  <2>11. b \in 1..Len(m.buckets) /\ m.buckets[b].raw \in {NoContext, c}
          /\ m.contexts[c].block_index \in {0, b}
    BY <1>1, <2>1, <2>10
  <2>12. Counted(m, b, k, c, EmptyContext, n.live)  BY <2>7, <2>8 DEF Counted
  <2>13. PairStep(m, view, b, k, c, EmptyContext, view, n)
    BY <2>4, <2>5, <2>6, <2>7, <2>9, <2>11, <2>12, EmptyIsCell DEF PairStep
  <2>14. /\ Represents(n, view)
         /\ Len(n.buckets) = Len(m.buckets) /\ n.buckets[b] = k
         /\ \A a \in 1..Len(m.buckets) : a # b => n.buckets[a] = m.buckets[a]
         /\ n.order = m.order
         /\ DOMAIN n.contexts = DOMAIN m.contexts /\ n.contexts[c] = EmptyContext
         /\ \A d \in DOMAIN m.contexts : d # c => n.contexts[d] = m.contexts[d]
    BY <2>13, PairChanges
  <2> QED BY <2>4, <2>7, <2>9, <2>10, <2>14
<1> QED BY <1>2, <1>3

-----------------------------------------------------------------------------
(* The list of contexts *)

\* Contexts that are added or removed are empty.
ListStep(m, view, n) ==
  /\ Represents(m, view)
  /\ IsRecord(n) /\ n.buckets = m.buckets /\ n.size = m.size /\ n.live = m.live
  /\ n.contexts \in [DOMAIN n.contexts -> Cell] /\ Listed(n)
  /\ \A c \in DOMAIN n.contexts :
       n.contexts[c] = IF c \in DOMAIN m.contexts THEN m.contexts[c] ELSE EmptyContext
  /\ \A c \in DOMAIN m.contexts : c \notin DOMAIN n.contexts => m.contexts[c].block_index = 0

LEMMA ListChanges ==
  ASSUME NEW m, NEW view, NEW n, ListStep(m, view, n)
  PROVE  Represents(n, view)
PROOF
<1> USE DEF ListStep
<1>1. IsMemory(m) /\ Listed(m) /\ view \in Seq(Seq(Values)) /\ Len(view) = Len(m.buckets)
      /\ DOMAIN m.buckets = 1..Len(view)
  BY MemoryFacts
<1>2. IsMemory(n)  BY <1>1 DEF IsMemory
<1>3. ASSUME NEW b \in 1..Len(view), m.buckets[b].raw # NoContext
      PROVE  /\ m.buckets[b].raw \in DOMAIN n.contexts
             /\ n.contexts[m.buckets[b].raw] = m.contexts[m.buckets[b].raw]
  <2> DEFINE c == m.buckets[b].raw
  <2>1. c \in DOMAIN m.contexts /\ m.contexts[c].block_index = b /\ b # 0  BY <1>3, BucketFacts
  <2> HIDE DEF c
  <2>2. c \in DOMAIN n.contexts  BY <2>1
  <2>3. n.contexts[c] = m.contexts[c]  BY <2>1, <2>2
  <2> QED BY <2>2, <2>3 DEF c
<1>4. ASSUME NEW b \in 1..Len(view)
      PROVE  Len(view[b]) <= BlockSize /\ BucketShows(n, b, view[b])
  <2>1. Len(view[b]) <= BlockSize /\ BucketShows(m, b, view[b])  BY DEF Represents
  <2>2. CASE m.buckets[b].raw = NoContext  BY <2>1, <2>2 DEF BucketShows
  <2>3. CASE m.buckets[b].raw # NoContext
    <3>1. m.buckets[b].raw \in DOMAIN n.contexts
          /\ n.contexts[m.buckets[b].raw] = m.contexts[m.buckets[b].raw]
      BY <1>3, <2>3
    <3> QED BY <2>1, <2>3, <3>1 DEF BucketShows
  <2> QED BY <2>2, <2>3
<1>5. ASSUME NEW c \in DOMAIN n.contexts PROVE ContextIsLinked(n, c)
  <2>1. CASE c \in DOMAIN m.contexts
    <3>1. ContextIsLinked(m, c)  BY <2>1 DEF Represents
    <3>2. n.contexts[c] = m.contexts[c]  BY <2>1
    <3> QED BY <3>1, <3>2 DEF ContextIsLinked
  <2>2. CASE c \notin DOMAIN m.contexts
    <3>1. n.contexts[c] = EmptyContext  BY <2>2
    <3> QED BY <3>1, EmptyIsCell DEF ContextIsLinked
  <2> QED BY <2>1, <2>2
<1>6. Buffered(n) = Buffered(m)
  <2>1. ASSUME NEW b \in 1..Len(view) PROVE FindCompressed(n, b) = FindCompressed(m, b)
    BY <1>3, <2>1 DEF FindCompressed, RawOf
  <2> QED BY <1>1, <2>1 DEF Buffered
<1>7. n.live = Cardinality(Buffered(n))  BY <1>6 DEF Represents
<1> QED BY <1>1, <1>2, <1>4, <1>5, <1>7 DEF Represents

LEMMA PlaceFacts ==
  ASSUME NEW m, IsMemory(m), Listed(m), NEW p \in 1..Len(m.order)
  PROVE  PlaceOf(m, m.order[p]) = p
PROOF
<1> DEFINE c == m.order[p]
           S == {q \in DOMAIN m.order : m.order[q] = c} \union {Len(m.order) + 1}
<1>1. m.order \in Seq(Nat \ {0}) /\ DOMAIN m.order = 1..Len(m.order) /\ Len(m.order) \in Nat
  BY DEF Listed, IsListOf
<1>2. c # NoContext  BY <1>1 DEF NoContext
<1>3. S = {p, Len(m.order) + 1}  BY <1>1 DEF Listed, IsListOf
<1>4. PlaceOf(m, c) = Min(S)  BY <1>2 DEF PlaceOf
<1> HIDE DEF S
<1>5. p \in S /\ \A y \in S : p <= y  BY <1>1, <1>3
<1>6. Min(S) \in S /\ \A y \in S : Min(S) <= y
  <2> DEFINE Least(x) == x \in S /\ \A y \in S : x <= y
             least == CHOOSE x \in S : \A y \in S : x <= y
  <2>1. Min(S) = least  BY DEF Min
  <2>2. Least(p)  BY <1>5
  <2>3. Least(least)
    <3>1. \E x \in S : \A y \in S : x <= y  BY <2>2
    <3> QED BY <3>1
  <2> HIDE DEF least
  <2> QED BY <2>1, <2>3
<1> HIDE DEF c
<1>7. Min(S) = p
  <2>1. Min(S) <= p /\ p <= Min(S)  BY <1>5, <1>6
  <2>2. Min(S) \in Int  BY <1>1, <1>3, <1>6
  <2> QED BY <2>1, <2>2
<1> QED BY <1>4, <1>7 DEF c

LEMMA Concatenation ==
  ASSUME NEW S, NEW s \in Seq(S), NEW t \in Seq(S)
  PROVE  /\ s \o t \in Seq(S) /\ Len(s \o t) = Len(s) + Len(t)
         /\ \A q \in 1..(Len(s) + Len(t)) :
              (s \o t)[q] = IF q <= Len(s) THEN s[q] ELSE t[q - Len(s)]
OBVIOUS

\* A function on 1..N is a sequence.
LEMMA SequenceOf ==
  ASSUME NEW S, NEW N \in Nat, NEW f, f \in [1..N -> S]
  PROVE  f \in Seq(S) /\ Len(f) = N
PROOF
<1>1. f \in Seq(S)  OBVIOUS
<1>2. DOMAIN f = 1..N  OBVIOUS
<1> QED BY <1>1, <1>2

LEMMA Replaced ==
  ASSUME NEW S, NEW s \in Seq(S), NEW i \in 1..Len(s), NEW x \in S, NEW t, t = [s EXCEPT ![i] = x]
  PROVE  /\ t \in Seq(S) /\ Len(t) = Len(s) /\ t[i] = x
         /\ \A j \in 1..Len(s) : j # i => t[j] = s[j]
PROOF
<1> DEFINE N == Len(s)
<1>1. N \in Nat /\ DOMAIN s = 1..N /\ i \in 1..N /\ \A j \in 1..N : s[j] \in S  OBVIOUS
<1> HIDE DEF N
<1>2. DOMAIN t = 1..N  BY <1>1
<1>3. t[i] = x  BY <1>1
<1>4. \A j \in 1..N : j # i => t[j] = s[j]  BY <1>1
<1>5. t \in [1..N -> S]  BY <1>1, <1>2, <1>3, <1>4
<1>6. t \in Seq(S) /\ Len(t) = N  BY <1>1, <1>5, SequenceOf
<1> QED BY <1>3, <1>4, <1>6 DEF N

LEMMA SameValues ==
  ASSUME NEW S, NEW s \in Seq(S), NEW t \in Seq(S), Len(s) = Len(t),
         \A q \in 1..Len(s) : s[q] = t[q]
  PROVE  s = t
OBVIOUS

LEMMA Part ==
  ASSUME NEW S, NEW s \in Seq(S), NEW i \in 1..(Len(s) + 1), NEW j \in (i - 1)..Len(s)
  PROVE  /\ SubSeq(s, i, j) \in Seq(S) /\ Len(SubSeq(s, i, j)) = j - i + 1
         /\ \A q \in 1..(j - i + 1) : SubSeq(s, i, j)[q] = s[i + q - 1]
OBVIOUS

\* The list without the context at place p.
LEMMA WithoutFacts ==
  ASSUME NEW m, IsMemory(m), Listed(m), NEW p \in 1..Len(m.order)
  PROVE  LET w == Without(m, m.order[p])
         IN  IsListOf(w, DOMAIN m.contexts \ {m.order[p]}) /\ Len(w) = Len(m.order) - 1
PROOF
<1> DEFINE o == m.order
           w == Without(m, m.order[p])
<1>1. o \in Seq(Nat \ {0}) /\ Len(o) \in Nat  BY DEF Listed, IsListOf
<1>2. w = SubSeq(o, 1, p - 1) \o SubSeq(o, p + 1, Len(o))  BY PlaceFacts DEF Without, RemoveAt
<1>3. /\ \A q \in 1..Len(o) : o[q] \in DOMAIN m.contexts
      /\ \A c \in DOMAIN m.contexts : \E q \in 1..Len(o) : o[q] = c
      /\ \A q, r \in 1..Len(o) : o[q] = o[r] => q = r
  BY DEF Listed, IsListOf
<1>4. p \in 1..Len(o)  OBVIOUS
<1> HIDE DEF o, w
<1> DEFINE u == SubSeq(o, 1, p - 1)
           v == SubSeq(o, p + 1, Len(o))
<1>5. u \in Seq(Nat \ {0}) /\ Len(u) = p - 1 /\ \A q \in 1..(p - 1) : u[q] = o[q]
  BY <1>1, <1>4
<1>6. v \in Seq(Nat \ {0}) /\ Len(v) = Len(o) - p /\ \A q \in 1..(Len(o) - p) : v[q] = o[p + q]
  BY <1>1, <1>4
<1>11. w = u \o v  BY <1>2
<1> HIDE DEF u, v
<1>7. w \in Seq(Nat \ {0}) /\ Len(w) = Len(o) - 1
      /\ \A q \in 1..Len(w) : w[q] = IF q <= p - 1 THEN u[q] ELSE v[q - (p - 1)]
  <2>1. w \in Seq(Nat \ {0}) /\ Len(w) = Len(u) + Len(v)
        /\ \A q \in 1..(Len(u) + Len(v)) : w[q] = IF q <= Len(u) THEN u[q] ELSE v[q - Len(u)]
    BY <1>5, <1>6, <1>11, Concatenation
  <2>2. Len(u) + Len(v) = Len(o) - 1  BY <1>1, <1>4, <1>5, <1>6
  <2> QED BY <1>5, <2>1, <2>2
<1>8. ASSUME NEW q \in 1..Len(w) PROVE w[q] = IF q < p THEN o[q] ELSE o[q + 1]
  <2>1. CASE q < p
    <3>1. q <= p - 1 /\ q \in 1..(p - 1)  BY <1>1, <1>4, <1>7, <2>1
    <3> QED BY <1>5, <1>7, <2>1, <3>1
  <2>2. CASE ~(q < p)
    <3>4. Len(w) = Len(o) - 1  BY <1>7
    <3>1. q - (p - 1) \in 1..(Len(o) - p) /\ ~(q <= p - 1)  BY <1>1, <1>4, <2>2, <3>4
    <3>2. w[q] = v[q - (p - 1)]  BY <1>7, <3>1
    <3>3. p + (q - (p - 1)) = q + 1  BY <1>4, <1>7
    <3> QED BY <1>6, <2>2, <3>1, <3>2, <3>3
  <2> QED BY <2>1, <2>2
<1>9. ASSUME NEW q \in 1..Len(w) PROVE w[q] \in DOMAIN m.contexts \ {o[p]}
  <2>1. CASE q < p
    <3>1. q \in 1..Len(o) /\ q # p /\ w[q] = o[q]  BY <1>1, <1>4, <1>7, <1>8, <2>1
    <3> QED BY <1>3, <1>4, <3>1
  <2>2. CASE ~(q < p)
    <3>1. q + 1 \in 1..Len(o) /\ q + 1 # p /\ w[q] = o[q + 1]  BY <1>1, <1>4, <1>7, <1>8, <2>2
    <3> QED BY <1>3, <1>4, <3>1
  <2> QED BY <2>1, <2>2
<1>12. ASSUME NEW c \in DOMAIN m.contexts \ {o[p]} PROVE \E q \in 1..Len(w) : w[q] = c
  <2>1. PICK r \in 1..Len(o) : o[r] = c  BY <1>3, <1>12
  <2>2. r # p  BY <1>12, <2>1
  <2>3. CASE r < p
    <3>1. r \in 1..Len(w) /\ w[r] = o[r]  BY <1>1, <1>4, <1>7, <1>8, <2>3
    <3> QED BY <2>1, <3>1
  <2>4. CASE r > p
    <3>1. r - 1 \in 1..Len(w) /\ ~(r - 1 < p)  BY <1>1, <1>4, <1>7, <2>4
    <3>2. w[r - 1] = o[(r - 1) + 1]  BY <1>8, <3>1
    <3>3. (r - 1) + 1 = r  OBVIOUS
    <3> QED BY <2>1, <3>1, <3>2, <3>3
  <2> QED BY <1>4, <2>2, <2>3, <2>4
<1>10. ASSUME NEW q \in 1..Len(w), NEW r \in 1..Len(w), w[q] = w[r] PROVE q = r
  <2> DEFINE At(a) == IF a < p THEN a ELSE a + 1
  <2>1. At(q) \in 1..Len(o) /\ At(r) \in 1..Len(o)  BY <1>1, <1>4, <1>7
  <2>2. w[q] = o[At(q)] /\ w[r] = o[At(r)]  BY <1>8
  <2>3. At(q) = At(r)
    <3> HIDE DEF At
    <3> QED BY <1>3, <1>10, <2>1, <2>2
  <2>4. q \in Nat /\ r \in Nat /\ p \in Nat  BY <1>4, <1>7
  <2>5. CASE q < p /\ r < p  BY <2>3, <2>5
  <2>6. CASE q < p /\ ~(r < p)  BY <2>3, <2>4, <2>6
  <2>7. CASE ~(q < p) /\ r < p  BY <2>3, <2>4, <2>7
  <2>8. CASE ~(q < p) /\ ~(r < p)  BY <2>3, <2>4, <2>8
  <2> QED BY <2>5, <2>6, <2>7, <2>8
<1>13. IsListOf(w, DOMAIN m.contexts \ {o[p]})  BY <1>7, <1>9, <1>10, <1>12 DEF IsListOf
<1> QED BY <1>7, <1>13 DEF o, w

\* A list and a new first member.
LEMMA NewFirst ==
  ASSUME NEW S, NEW w, IsListOf(w, S), NEW c \in Nat \ {0}, c \notin S
  PROVE  /\ IsListOf(<<c>> \o w, S \union {c}) /\ Len(<<c>> \o w) = Len(w) + 1
         /\ <<c>> \o w # <<>> /\ Head(<<c>> \o w) = c
PROOF
<1> DEFINE o == <<c>> \o w
           u == <<c>>
<1>1. w \in Seq(Nat \ {0}) /\ Len(w) \in Nat  BY DEF IsListOf
<1>2. u \in Seq(Nat \ {0}) /\ Len(u) = 1 /\ u[1] = c  OBVIOUS
<1>3. o = u \o w  OBVIOUS
<1> HIDE DEF o, u
<1>4. /\ o \in Seq(Nat \ {0}) /\ Len(o) = Len(w) + 1
      /\ \A q \in 1..(Len(w) + 1) : o[q] = IF q <= 1 THEN u[q] ELSE w[q - 1]
  <2>1. /\ o \in Seq(Nat \ {0}) /\ Len(o) = Len(u) + Len(w)
        /\ \A q \in 1..(Len(u) + Len(w)) : o[q] = IF q <= Len(u) THEN u[q] ELSE w[q - Len(u)]
    BY <1>1, <1>2, <1>3, Concatenation
  <2>2. Len(u) + Len(w) = Len(w) + 1  BY <1>1, <1>2
  <2> QED BY <1>2, <2>1, <2>2
<1>5. 1 \in 1..Len(o) /\ o[1] = c  BY <1>1, <1>2, <1>4
<1>6. ASSUME NEW q \in 1..Len(o), q # 1 PROVE q - 1 \in 1..Len(w) /\ o[q] = w[q - 1]
  BY <1>1, <1>4, <1>6
<1>7. ASSUME NEW q \in 1..Len(w) PROVE q + 1 \in 1..Len(o) /\ o[q + 1] = w[q]
  <2>1. Len(o) = Len(w) + 1  BY <1>4
  <2>2. q + 1 \in 1..Len(o) /\ q + 1 # 1 /\ (q + 1) - 1 = q  BY <1>1, <2>1
  <2> QED BY <1>6, <2>2
<1>8. ASSUME NEW q \in 1..Len(o) PROVE o[q] \in S \union {c}
  <2>1. CASE q = 1  BY <1>5, <2>1
  <2>2. CASE q # 1  BY <1>6, <2>2 DEF IsListOf
  <2> QED BY <2>1, <2>2
<1>9. ASSUME NEW d \in S \union {c} PROVE \E q \in 1..Len(o) : o[q] = d
  <2>1. CASE d = c  BY <1>5, <2>1
  <2>2. CASE d # c
    <3>1. PICK q \in 1..Len(w) : w[q] = d  BY <2>2 DEF IsListOf
    <3> QED BY <1>7, <3>1
  <2> QED BY <2>1, <2>2
<1>10. ASSUME NEW q \in 1..Len(o), NEW r \in 1..Len(o), o[q] = o[r] PROVE q = r
  <2>1. ASSUME NEW x \in 1..Len(o), x # 1 PROVE o[x] # c
    <3>1. x - 1 \in 1..Len(w) /\ o[x] = w[x - 1]  BY <1>6, <2>1
    <3> QED BY <3>1 DEF IsListOf
  <2>2. CASE q = 1 \/ r = 1  BY <1>5, <1>10, <2>1, <2>2
  <2>3. CASE q # 1 /\ r # 1
    <3> DEFINE i == q - 1
               j == r - 1
    <3>1. i \in 1..Len(w) /\ j \in 1..Len(w) /\ w[i] = w[j]  BY <1>6, <1>10, <2>3
    <3>2. i = j
      <4> HIDE DEF i, j
      <4> QED BY <3>1 DEF IsListOf
    <3> QED BY <3>2
  <2> QED BY <2>2, <2>3
<1>11. IsListOf(o, S \union {c})  BY <1>4, <1>8, <1>9, <1>10 DEF IsListOf
<1>12. o # <<>> /\ Head(o) = c  BY <1>1, <1>4, <1>5
<1> QED BY <1>4, <1>11, <1>12 DEF o

\* An empty context is erased.
LEMMA EraseShows ==
  ASSUME NEW m, NEW view, Represents(m, view), NEW c \in DOMAIN m.contexts,
         m.contexts[c].block_index = 0, NEW n, n = EraseContext(m, c)
  PROVE  /\ Represents(n, view) /\ n.buckets = m.buckets /\ n.size = m.size
         /\ DOMAIN n.contexts = DOMAIN m.contexts \ {c}
         /\ \A d \in DOMAIN n.contexts : n.contexts[d] = m.contexts[d]
         /\ n.order = Without(m, c) /\ Len(n.order) = Len(m.order) - 1
PROOF
<1>1. IsMemory(m) /\ Listed(m)  BY MemoryFacts
<1>2. PICK p \in 1..Len(m.order) : m.order[p] = c  BY <1>1 DEF Listed, IsListOf
<1> DEFINE w == Without(m, c)
<1>3. IsListOf(w, DOMAIN m.contexts \ {c}) /\ Len(w) = Len(m.order) - 1
  BY <1>1, <1>2, WithoutFacts
<1> DEFINE left == [x \in DOMAIN m.contexts \ {c} |-> m.contexts[x]]
<1>4. n = [buckets |-> m.buckets, contexts |-> left, order |-> w, size |-> m.size, live |-> m.live]
  BY <1>1 DEF IsMemory, IsRecord, EraseContext, Restrict
<1>5. m.contexts \in [DOMAIN m.contexts -> Cell]  BY <1>1 DEF IsMemory
<1>6. left \in [DOMAIN m.contexts \ {c} -> Cell]  BY <1>5
<1>7. \A d \in DOMAIN m.contexts \ {c} : left[d] = m.contexts[d]  OBVIOUS
<1> HIDE DEF left, w
<1>8. IsRecord(n) /\ n.buckets = m.buckets /\ n.size = m.size /\ n.live = m.live
      /\ n.order = w /\ n.contexts = left
  BY <1>4 DEF IsRecord
<1>9. DOMAIN n.contexts = DOMAIN m.contexts \ {c}  BY <1>6, <1>8
<1>10. Listed(n)  BY <1>3, <1>8, <1>9 DEF Listed
<1>11. ListStep(m, view, n)
  BY <1>6, <1>7, <1>8, <1>9, <1>10 DEF ListStep
<1> QED BY <1>3, <1>7, <1>8, <1>9, <1>11, ListChanges DEF w

\* A context is moved to the front.
LEMMA FrontShows ==
  ASSUME NEW m, NEW view, Represents(m, view), NEW c \in DOMAIN m.contexts,
         NEW n, n = [m EXCEPT !.order = <<c>> \o Without(m, c)]
  PROVE  /\ Represents(n, view) /\ n.buckets = m.buckets /\ n.size = m.size
         /\ n.contexts = m.contexts
         /\ n.order # <<>> /\ Head(n.order) = c /\ Len(n.order) = Len(m.order)
PROOF
<1>1. IsMemory(m) /\ Listed(m) /\ DOMAIN m.contexts \subseteq Nat \ {0}  BY MemoryFacts
<1>2. PICK p \in 1..Len(m.order) : m.order[p] = c  BY <1>1 DEF Listed, IsListOf
<1> DEFINE w == Without(m, c)
           o == <<c>> \o w
<1>3. IsListOf(w, DOMAIN m.contexts \ {c}) /\ Len(w) = Len(m.order) - 1
  BY <1>1, <1>2, WithoutFacts
<1>4. n = [buckets |-> m.buckets, contexts |-> m.contexts, order |-> o, size |-> m.size, live |-> m.live]
  BY <1>1 DEF IsMemory, IsRecord
<1> HIDE DEF w
<1>5. /\ IsListOf(o, (DOMAIN m.contexts \ {c}) \union {c}) /\ Len(o) = Len(w) + 1
      /\ o # <<>> /\ Head(o) = c
  BY <1>1, <1>3, NewFirst
<1> HIDE DEF o
<1>6. IsRecord(n) /\ n.buckets = m.buckets /\ n.size = m.size /\ n.live = m.live
      /\ n.order = o /\ n.contexts = m.contexts
  <2>1. n.buckets = m.buckets /\ n.size = m.size /\ n.live = m.live
        /\ n.order = o /\ n.contexts = m.contexts
    BY <1>4
  <2> QED BY <1>4, <2>1 DEF IsRecord
<1>7. (DOMAIN m.contexts \ {c}) \union {c} = DOMAIN m.contexts  OBVIOUS
<1>8. Listed(n)  BY <1>5, <1>6, <1>7 DEF Listed
<1>9. m.contexts \in [DOMAIN m.contexts -> Cell]  BY <1>1 DEF IsMemory
<1>10. ListStep(m, view, n)  BY <1>6, <1>8, <1>9 DEF ListStep
<1>11. Len(m.order) \in Nat  BY <1>1 DEF Listed, IsListOf
<1>12. Len(o) = Len(m.order)  BY <1>3, <1>5, <1>11
<1> QED BY <1>5, <1>6, <1>10, <1>12, ListChanges

\* A name for a new context: there are more names than contexts.
LEMMA NameForContext ==
  ASSUME NEW m, IsMemory(m), Listed(m)
  PROVE  LET c == CHOOSE c \in 1..(Cardinality(DOMAIN m.contexts) + 1) : c \notin DOMAIN m.contexts
         IN  c \in Nat \ {0} /\ c \notin DOMAIN m.contexts
PROOF
<1> DEFINE S == DOMAIN m.contexts
           T == 1..(Cardinality(S) + 1)
<1>1. Len(m.order) \in Nat /\ m.order \in [1..Len(m.order) -> S]
      /\ \A c \in S : \E p \in 1..Len(m.order) : m.order[p] = c
  <2>1. m.order \in Seq(Nat \ {0}) /\ (\A p \in 1..Len(m.order) : m.order[p] \in S)
        /\ \A c \in S : \E p \in 1..Len(m.order) : m.order[p] = c
    BY DEF Listed, IsListOf
  <2>2. Len(m.order) \in Nat /\ m.order = [p \in 1..Len(m.order) |-> m.order[p]]
    BY <2>1
  <2> QED BY <2>1, <2>2
<1>2. IsFiniteSet(S)
  <2>0. Len(m.order) \in Int /\ 1 \in Int  BY <1>1
  <2>1. IsFiniteSet(1..Len(m.order))  BY <2>0, FS_Interval
  <2>2. m.order \in Surjection(1..Len(m.order), S)  BY <1>1 DEF Surjection
  <2> QED BY <2>1, <2>2, FS_Surjection
<1> HIDE DEF S
<1>3. Cardinality(S) \in Nat  BY <1>2, FS_CardinalityType
<1>4. Cardinality(T) = Cardinality(S) + 1
  <2>1. Cardinality(S) + 1 \in Nat /\ 1 <= Cardinality(S) + 1  BY <1>3
  <2>2. Cardinality(1..(Cardinality(S) + 1)) = (Cardinality(S) + 1) - 1 + 1
    BY <1>3, <2>1, FS_Interval
  <2> QED BY <1>3, <2>2
<1>5. \E c \in T : c \notin S
  <2>1. SUFFICES ASSUME T \subseteq S PROVE FALSE  OBVIOUS
  <2>2. Cardinality(T) <= Cardinality(S)  BY <1>2, <2>1, FS_Subset
  <2> QED BY <1>3, <1>4, <2>2
<1>6. (CHOOSE c \in T : c \notin S) \in T /\ (CHOOSE c \in T : c \notin S) \notin S
  <2> HIDE DEF T
  <2> QED BY <1>5
<1>7. T \subseteq Nat \ {0}  BY <1>3
<1> QED BY <1>6, <1>7 DEF S

\* The facts of the library about sets of numbers.
LEMMA LeastElement ==
  ASSUME NEW S, S \subseteq Nat, S # {}
  PROVE  \E x \in S : \A y \in S : x <= y
PROOF
<1> DEFINE R == OpToRel(<, Nat)
<1>1. IsWellFoundedOn(R, Nat)  BY NatLessThanWellFounded
<1>2. R = {ss \in Nat \X Nat : ss[1] < ss[2]}  BY DEF OpToRel
<1> HIDE DEF R
<1>3. PICK x \in S : \A y \in S : ~ (<<y, x>> \in R)  BY <1>1, WFMin
<1>4. \A y \in S : ~(y < x)  BY <1>2, <1>3
<1> QED BY <1>4

LEMMA GreatestElement ==
  ASSUME NEW n \in Nat, NEW S, S \subseteq 1..n, S # {}
  PROVE  Max(S) \in S /\ \A y \in S : y <= Max(S)
PROOF
<1> DEFINE T == {n - y : y \in S}
<1>0. PICK s \in S : TRUE  OBVIOUS
<1>1. T \subseteq Nat /\ T # {}
  <2>1. n - s \in T  BY <1>0
  <2>2. \A y \in S : n - y \in Nat  OBVIOUS
  <2> QED BY <2>1, <2>2
<1>2. PICK t \in T : \A u \in T : t <= u
  <2> HIDE DEF T
  <2> QED BY <1>1, LeastElement
<1>3. PICK x \in S : t = n - x  BY <1>2
<1>4. \A y \in S : x >= y
  <2> TAKE y \in S
  <2>1. n - y \in T  OBVIOUS
  <2>2. n - x <= n - y  BY <1>2, <1>3, <2>1
  <2>3. x \in Nat /\ y \in Nat  OBVIOUS
  <2> QED BY <2>2, <2>3
<1> DEFINE greatest == CHOOSE a \in S : \A y \in S : a >= y
<1>5. Max(S) = greatest  BY DEF Max
<1>6. greatest \in S /\ \A y \in S : greatest >= y
  <2>1. \E a \in S : \A y \in S : a >= y  BY <1>4
  <2> QED BY <2>1
<1> HIDE DEF greatest
<1>7. \A y \in S : y \in Nat  OBVIOUS
<1>8. Max(S) \in S  BY <1>5, <1>6
<1> QED BY <1>5, <1>6, <1>7, <1>8

-----------------------------------------------------------------------------
(* Contexts are made and found *)

LEMMA NewContextShows ==
  ASSUME NEW m, NEW view, Represents(m, view), NEW n, n = NewContext(m)
  PROVE  /\ Represents(n, view) /\ n.buckets = m.buckets /\ n.size = m.size
         /\ n.order # <<>> /\ Head(n.order) \in DOMAIN n.contexts
         /\ n.contexts[Head(n.order)].block_index = 0
         /\ Len(n.order) = Len(m.order) + 1
PROOF
<1>1. IsMemory(m) /\ Listed(m)  BY MemoryFacts
<1> DEFINE c == CHOOSE x \in 1..(Cardinality(DOMAIN m.contexts) + 1) : x \notin DOMAIN m.contexts
           o == <<c>> \o m.order
           more == [k \in DOMAIN m.contexts \union {c} |-> IF k = c THEN EmptyContext ELSE m.contexts[k]]
<1>2. c \in Nat \ {0} /\ c \notin DOMAIN m.contexts  BY <1>1, NameForContext
<1>3. n = [buckets |-> m.buckets, contexts |-> more, order |-> o, size |-> m.size, live |-> m.live]
  <2> DEFINE made == [m EXCEPT !.order = o, !.contexts = more]
  <2>1. NewContext(m) = made  BY DEF NewContext
  <2> QED BY <1>1, <2>1 DEF IsMemory, IsRecord
<1> HIDE DEF c
<1>4. more \in [DOMAIN m.contexts \union {c} -> Cell]  BY <1>1, EmptyIsCell DEF IsMemory
<1>5. \A d \in DOMAIN m.contexts : more[d] = m.contexts[d]  BY <1>2
<1>6. more[c] = EmptyContext  OBVIOUS
<1>7. IsListOf(o, DOMAIN m.contexts \union {c}) /\ Len(o) = Len(m.order) + 1 /\ o # <<>> /\ Head(o) = c
  BY <1>1, <1>2, NewFirst DEF Listed
<1> HIDE DEF o, more
<1>8. n.buckets = m.buckets /\ n.size = m.size /\ n.live = m.live
      /\ n.order = o /\ n.contexts = more
  BY <1>3
<1>9. IsRecord(n)  BY <1>3, <1>8 DEF IsRecord
<1>10. DOMAIN n.contexts = DOMAIN m.contexts \union {c}  BY <1>4, <1>8
<1>11. Listed(n)  BY <1>7, <1>8, <1>10 DEF Listed
<1>12. \A d \in DOMAIN n.contexts :
          n.contexts[d] = IF d \in DOMAIN m.contexts THEN m.contexts[d] ELSE EmptyContext
  BY <1>5, <1>6, <1>8, <1>10
<1>13. ListStep(m, view, n)  BY <1>4, <1>8, <1>9, <1>10, <1>11, <1>12 DEF ListStep
<1> QED BY <1>6, <1>7, <1>8, <1>10, <1>13, ListChanges, EmptyIsCell

\* A context that can be taken, or freed: nobody refers to its bucket, whose block
\* is whole.
CanTake(m, c, e) ==
  /\ c \in DOMAIN m.contexts /\ c # e
  /\ Len(m.contexts[c].data) \in {0, BlockSize}
  /\ m.contexts[c].block_index = 0 \/ m.buckets[m.contexts[c].block_index].refs = 0

LEMMA LockedContextFacts ==
  ASSUME NEW m, NEW view, Represents(m, view), NEW e,
         NEW before \in 1..(Len(m.order) + 1), NEW p, p = LockedContext(m, e, before)
  PROVE  p = 0 \/ (p \in 1..(before - 1) /\ p \in 1..Len(m.order) /\ CanTake(m, m.order[p], e))
PROOF
<1> DEFINE found == {q \in 1..(before - 1) :
                       /\ Len(m.contexts[m.order[q]].data) \in {0, BlockSize}
                       /\ m.order[q] # e
                       /\ TryLock(m, m.order[q])}
<1>1. p = IF found = {} THEN 0 ELSE Max(found)  BY DEF LockedContext
<1>2. Len(m.order) \in Nat  BY MemoryFacts DEF Listed, IsListOf
<1>3. found \subseteq 1..(before - 1) /\ before - 1 \in Nat  BY <1>2
<1>4. CASE found # {}
  <2>1. p \in found
    <3> HIDE DEF found
    <3> QED BY <1>1, <1>3, <1>4, GreatestElement
  <2>2. p \in 1..(before - 1) /\ p \in 1..Len(m.order)  BY <1>2, <2>1
  <2>3. m.order[p] \in DOMAIN m.contexts  BY <2>2, MemoryFacts
  <2> QED BY <2>1, <2>2, <2>3 DEF CanTake, TryLock
<1> QED BY <1>1, <1>4

\* Context c gives its bucket back and is empty; nothing else changes.
Released(m, n, c) ==
  /\ n.order = m.order /\ n.size = m.size
  /\ DOMAIN n.contexts = DOMAIN m.contexts /\ n.contexts[c] = EmptyContext
  /\ \A d \in DOMAIN m.contexts : d # c => n.contexts[d] = m.contexts[d]
  /\ Len(n.buckets) = Len(m.buckets)
  /\ \A a \in 1..Len(m.buckets) :
       /\ n.buckets[a].refs = m.buckets[a].refs
       /\ a # m.contexts[c].block_index => n.buckets[a] = m.buckets[a]
       /\ a = m.contexts[c].block_index => n.buckets[a].raw = NoContext

LEMMA SaveAndRelease ==
  ASSUME NEW m, NEW view, Represents(m, view), NEW c \in DOMAIN m.contexts,
         m.contexts[c].dirty => Len(m.contexts[c].data) = BlockSize,
         NEW n, n = Release(CompressIfDirty(m, c), c)
  PROVE  Represents(n, view) /\ Released(m, n, c)
PROOF
<1> DEFINE l == CompressIfDirty(m, c)
<1>1. CASE m.contexts[c].dirty
  <2>1. m.contexts[c].block_index # 0  BY <1>1, EmptyFacts, EmptyIsCell
  <2>2. l = Compress(m, c)  BY <1>1 DEF CompressIfDirty
  <2> HIDE DEF l
  <2>3. /\ Represents(l, view) /\ l.buckets = m.buckets /\ l.order = m.order /\ l.size = m.size
        /\ Saved(l.contexts[c]) /\ l.contexts[c].block_index = m.contexts[c].block_index
        /\ DOMAIN l.contexts = DOMAIN m.contexts
        /\ \A d \in DOMAIN m.contexts : d # c => l.contexts[d] = m.contexts[d]
    BY <1>1, <2>1, <2>2, CompressShows
  <2>4. n = Release(l, c)  BY DEF l
  <2>5. Represents(n, view) /\ Released(l, n, c)  BY <2>3, <2>4, ReleaseShows DEF Released
  <2> QED BY <2>3, <2>5 DEF Released
<1>2. CASE ~m.contexts[c].dirty
  <2>1. l = m  BY <1>2 DEF CompressIfDirty
  <2>2. n = Release(m, c)  BY <2>1
  <2>3. m.contexts[c].block_index = 0 \/ Saved(m.contexts[c])  BY <1>2, ContextFacts
  <2> QED BY <2>2, <2>3, ReleaseShows DEF Released
<1> QED BY <1>1, <1>2

LEMMA ReleasedFound ==
  ASSUME NEW m, NEW view, Represents(m, view), NEW e, NEW c, CanTake(m, c, e),
         NEW n, Released(m, n, c)
  PROVE  Found(m, n, e)
PROOF
<1>1. ASSUME NEW a \in 1..Len(m.buckets), a = m.contexts[c].block_index
      PROVE  m.buckets[a].refs = 0 /\ m.buckets[a].raw = c
  <2>1. a # 0 /\ c \in DOMAIN m.contexts  BY DEF CanTake
  <2> QED BY <1>1, <2>1, ContextFacts DEF CanTake
<1>2. c # e  BY DEF CanTake
<1> QED BY <1>1, <1>2 DEF Released, Keeps, Found

LEMMA EraseSavedShows ==
  ASSUME NEW m, NEW view, Represents(m, view), NEW c \in DOMAIN m.contexts,
         m.contexts[c].dirty => Len(m.contexts[c].data) = BlockSize,
         NEW e, NEW n, n = EraseSaved(m, c)
  PROVE  /\ Represents(n, view) /\ Len(n.buckets) = Len(m.buckets) /\ n.size = m.size
         /\ \A a \in 1..Len(m.buckets) :
              /\ n.buckets[a].refs = m.buckets[a].refs
              /\ m.buckets[a].raw \notin {NoContext, c} => n.buckets[a].raw = m.buckets[a].raw
         /\ DOMAIN n.contexts = DOMAIN m.contexts \ {c}
         /\ \A d \in DOMAIN n.contexts : n.contexts[d] = m.contexts[d]
         /\ n.order = Without(m, c) /\ Len(n.order) = Len(m.order) - 1
         /\ CanTake(m, c, e) => Found(m, n, e)
PROOF
<1> DEFINE l == Release(CompressIfDirty(m, c), c)
<1>1. n = EraseContext(l, c)  BY DEF EraseSaved
<1>2. Represents(l, view) /\ Released(m, l, c)  BY SaveAndRelease
<1> HIDE DEF l
<1>3. l.contexts[c].block_index = 0 /\ c \in DOMAIN l.contexts  BY <1>2, EmptyIsCell DEF Released
<1>4. /\ Represents(n, view) /\ n.buckets = l.buckets /\ n.size = l.size
      /\ DOMAIN n.contexts = DOMAIN l.contexts \ {c}
      /\ \A d \in DOMAIN n.contexts : n.contexts[d] = l.contexts[d]
      /\ n.order = Without(l, c) /\ Len(n.order) = Len(l.order) - 1
  BY <1>1, <1>2, <1>3, EraseShows
<1>5. l.order = m.order  BY <1>2 DEF Released
<1>6. Without(l, c) = Without(m, c)  BY <1>5 DEF Without, PlaceOf
<1>7. ASSUME NEW a \in 1..Len(m.buckets), m.buckets[a].raw \notin {NoContext, c}
      PROVE  l.buckets[a].raw = m.buckets[a].raw
  <2>1. a # m.contexts[c].block_index
    <3>1. a # 0  OBVIOUS
    <3> QED BY <1>7, <3>1, ContextFacts
  <2> QED BY <1>2, <2>1 DEF Released
<1>8. CanTake(m, c, e) => Found(m, n, e)
  <2>1. SUFFICES ASSUME CanTake(m, c, e) PROVE Found(m, n, e)  OBVIOUS
  <2>2. Found(m, l, e)  BY <1>2, <2>1, ReleasedFound
  <2> QED BY <1>4, <2>2 DEF Keeps, Found
<1> QED BY <1>2, <1>4, <1>5, <1>6, <1>7, <1>8 DEF Released

\* No block is empty: a modified context that can be taken has a whole one.
Solid(view) == \A b \in 1..Len(view) : Len(view[b]) # 0

LEMMA DirtyIsWhole ==
  ASSUME NEW m, NEW view, Represents(m, view), Solid(view),
         NEW c \in DOMAIN m.contexts, Len(m.contexts[c].data) \in {0, BlockSize},
         m.contexts[c].dirty
  PROVE  Len(m.contexts[c].data) = BlockSize /\ m.contexts[c].block_index # 0
PROOF
<1>1. m.contexts[c].block_index # 0  BY EmptyFacts, EmptyIsCell
<1>2. Len(m.contexts[c].data) # 0  BY <1>1, ContextFacts DEF Shows, Solid
<1> QED BY <1>1, <1>2

\* The context at place p, if there is one, can be freed, and is not c.
CanFree(m, p, c, e) ==
  /\ c \in DOMAIN m.contexts
  /\ p = 0 \/ (p \in 1..Len(m.order) /\ CanTake(m, m.order[p], e) /\ m.order[p] # c)

\* Another context is freed, or none.
LEMMA FreeAnotherShows ==
  ASSUME NEW m, NEW view, Represents(m, view), Solid(view), NEW e,
         NEW p, NEW c, CanFree(m, p, c, e), NEW n, n = FreeAnother(m, p)
  PROVE  /\ Represents(n, view) /\ Found(m, n, e)
         /\ c \in DOMAIN n.contexts /\ n.contexts[c] = m.contexts[c]
PROOF
<1>1. CASE n = m  BY <1>1, KeepsSame DEF CanFree
<1>2. CASE n # m
  <2>1. p \in 1..Len(m.order) /\ CanTake(m, m.order[p], e) /\ n = EraseSaved(m, m.order[p])
    BY <1>2 DEF FreeAnother, CanFree
  <2> DEFINE d == m.order[p]
  <2>2. d \in DOMAIN m.contexts /\ d # c /\ CanTake(m, d, e) /\ n = EraseSaved(m, d)
    <3>1. d \in DOMAIN m.contexts  BY <2>1 DEF CanTake
    <3>2. d # c  BY <2>1 DEF CanFree
    <3> QED BY <2>1, <3>1, <3>2
  <2> HIDE DEF d
  <2>3. m.contexts[d].dirty => Len(m.contexts[d].data) = BlockSize
    BY <2>2, DirtyIsWhole DEF CanTake
  <2>4. /\ Represents(n, view) /\ Found(m, n, e)
        /\ DOMAIN n.contexts = DOMAIN m.contexts \ {d}
        /\ \A x \in DOMAIN n.contexts : n.contexts[x] = m.contexts[x]
    BY <2>2, <2>3, EraseSavedShows
  <2> QED BY <2>2, <2>4 DEF CanFree
<1> QED BY <1>1, <1>2

\* The context that is taken is saved, and is still that of its bucket.
LEMMA SaveContextShows ==
  ASSUME NEW m, NEW view, Represents(m, view), Solid(view), NEW e,
         NEW p \in 1..Len(m.order), CanTake(m, m.order[p], e),
         NEW c, c = m.order[p], NEW n, n = SaveContext(m, e, p)
  PROVE  /\ Represents(n, view) /\ Found(m, n, e) /\ CanTake(n, c, e)
         /\ n.contexts[c].block_index = 0 \/ Saved(n.contexts[c])
PROOF
<1>1. c \in DOMAIN m.contexts /\ CanTake(m, c, e)  BY DEF CanTake
<1>2. CASE ~m.contexts[c].dirty
  <2>1. n = m  BY <1>2 DEF SaveContext
  <2> QED BY <1>1, <1>2, <2>1, KeepsSame, ContextFacts
<1>3. CASE m.contexts[c].dirty
  <2> DEFINE l == Compress(m, c)
             q == LockedContext(m, e, p)
  <2>1. n = FreeAnother(l, q)  BY <1>3 DEF SaveContext
  <2>2. Len(m.contexts[c].data) = BlockSize /\ m.contexts[c].block_index # 0
    BY <1>1, <1>3, DirtyIsWhole DEF CanTake
  <2>3. /\ Represents(l, view) /\ l.buckets = m.buckets /\ l.order = m.order /\ l.size = m.size
        /\ Saved(l.contexts[c]) /\ l.contexts[c].block_index = m.contexts[c].block_index
        /\ DOMAIN l.contexts = DOMAIN m.contexts
        /\ \A d \in DOMAIN m.contexts : l.contexts[d].data = m.contexts[d].data
        /\ \A d \in DOMAIN m.contexts : d # c => l.contexts[d] = m.contexts[d]
    BY <1>1, <2>2, CompressShows
  <2> HIDE DEF l
  <2>4. p \in 1..(Len(m.order) + 1) /\ Len(m.order) \in Nat
    BY MemoryFacts DEF Listed, IsListOf
  <2>5. q = 0 \/ (q \in 1..(p - 1) /\ q \in 1..Len(m.order) /\ CanTake(m, m.order[q], e))
    BY <2>4, LockedContextFacts
  <2> HIDE DEF q
  <2>6. ASSUME q # 0
        PROVE  q \in 1..Len(l.order) /\ CanTake(l, l.order[q], e) /\ l.order[q] # c
    <3>1. q # p /\ q \in 1..Len(m.order) /\ CanTake(m, m.order[q], e)  BY <2>4, <2>5, <2>6
    <3>2. m.order[q] # m.order[p]  BY <3>1, MemoryFacts DEF Listed, IsListOf
    <3>3. CanTake(l, m.order[q], e)  BY <2>3, <3>1, <3>2 DEF CanTake
    <3> QED BY <2>3, <3>1, <3>2, <3>3
  <2>7. /\ Represents(n, view) /\ Found(l, n, e)
        /\ c \in DOMAIN n.contexts /\ n.contexts[c] = l.contexts[c]
    <3>1. CanFree(l, q, c, e)  BY <1>1, <2>3, <2>6 DEF CanFree
    <3>2. Represents(l, view)  BY <2>3
    <3>3. Represents(n, view) /\ Found(l, n, e)
      BY <2>1, <3>1, <3>2, FreeAnotherShows
    <3> QED BY <2>1, <3>1, <3>2, <3>3, FreeAnotherShows
  <2>8. Found(m, l, e)  BY <2>3, KeepsSame
  <2>9. Found(m, n, e)  BY <2>7, <2>8, FoundTwice
  <2>10. CanTake(n, c, e)
    <3>1. n.contexts[c].data = m.contexts[c].data
          /\ n.contexts[c].block_index = m.contexts[c].block_index
      BY <1>1, <2>3, <2>7
    <3>2. m.contexts[c].block_index \in 1..Len(m.buckets)
      BY <1>1, <2>2, ContextFacts, MemoryFacts
    <3>3. n.buckets[m.contexts[c].block_index].refs = m.buckets[m.contexts[c].block_index].refs
      BY <2>9, <3>2 DEF Keeps, Found
    <3> QED BY <1>1, <2>7, <3>1, <3>3 DEF CanTake
  <2> QED BY <2>3, <2>7, <2>9, <2>10
<1> QED BY <1>2, <1>3

\* The first context of the list is an empty one.
FirstIsEmpty(m) ==
  /\ m.order # <<>> /\ Head(m.order) \in DOMAIN m.contexts
  /\ m.contexts[Head(m.order)].block_index = 0

LEMMA TakeContextShows ==
  ASSUME NEW m, NEW view, Represents(m, view), NEW e, NEW c, CanTake(m, c, e),
         m.contexts[c].block_index = 0 \/ Saved(m.contexts[c]),
         NEW n, n = TakeContext(m, c)
  PROVE  Represents(n, view) /\ Found(m, n, e) /\ FirstIsEmpty(n)
PROOF
<1> DEFINE l == [m EXCEPT !.order = <<c>> \o Without(m, c)]
<1>1. n = Release(l, c)  BY DEF TakeContext
<1>2. c \in DOMAIN m.contexts  BY DEF CanTake
<1>3. /\ Represents(l, view) /\ l.buckets = m.buckets /\ l.size = m.size
      /\ l.contexts = m.contexts
      /\ l.order # <<>> /\ Head(l.order) = c
  <2> HIDE DEF l
  <2>1. l = [m EXCEPT !.order = <<c>> \o Without(m, c)]  BY DEF l
  <2> QED BY <1>2, <2>1, FrontShows
<1> HIDE DEF l
<1>4. Represents(n, view) /\ Released(l, n, c)  BY <1>1, <1>2, <1>3, ReleaseShows DEF Released
<1>5. CanTake(l, c, e)  BY <1>3 DEF CanTake
<1>6. Found(l, n, e)  BY <1>3, <1>4, <1>5, ReleasedFound
<1>7. Found(m, l, e)  BY <1>3, KeepsSame
<1>8. FirstIsEmpty(n)  BY <1>2, <1>3, <1>4, EmptyIsCell DEF Released, FirstIsEmpty
<1> QED BY <1>4, <1>6, <1>7, <1>8, FoundTwice

LEMMA FindFreeContextShows ==
  ASSUME NEW m, NEW view, Represents(m, view), Solid(view), NEW e,
         NEW n, n = FindFreeContext(m, e)
  PROVE  Represents(n, view) /\ Found(m, n, e) /\ FirstIsEmpty(n)
PROOF
<1> DEFINE p == LockedContext(m, e, Len(m.order) + 1)
<1>1. n = FindFreeContextAt(m, e, p)  BY DEF FindFreeContext
<1>2. p = 0 \/ (p \in 1..Len(m.order) /\ CanTake(m, m.order[p], e))
  <2>1. Len(m.order) + 1 \in 1..(Len(m.order) + 1)  BY MemoryFacts DEF Listed, IsListOf
  <2> QED BY <2>1, LockedContextFacts
<1> HIDE DEF p
<1>3. CASE p = 0
  <2>1. n = NewContext(m)  BY <1>1, <1>3 DEF FindFreeContextAt
  <2> QED BY <2>1, NewContextShows, KeepsSame DEF FirstIsEmpty
<1>4. CASE p # 0
  <2> DEFINE c == m.order[p]
             l == SaveContext(m, e, p)
  <2>1. n = TakeContext(l, c)  BY <1>1, <1>4 DEF FindFreeContextAt
  <2>2. /\ Represents(l, view) /\ Found(m, l, e) /\ CanTake(l, c, e)
        /\ l.contexts[c].block_index = 0 \/ Saved(l.contexts[c])
    BY <1>2, <1>4, SaveContextShows
  <2> HIDE DEF c, l
  <2>3. Represents(n, view) /\ Found(l, n, e) /\ FirstIsEmpty(n)
    BY <2>1, <2>2, TakeContextShows
  <2> QED BY <2>2, <2>3, FoundTwice
<1> QED BY <1>3, <1>4

LEMMA MakeOrFindShows ==
  ASSUME NEW m, NEW view, Represents(m, view), Solid(view), NEW e,
         NEW n, n = MakeOrFindFreeContext(m, e)
  PROVE  Represents(n, view) /\ Found(m, n, e) /\ FirstIsEmpty(n)
BY FindFreeContextShows, NewContextShows, KeepsSame DEF MakeOrFindFreeContext, FirstIsEmpty

-----------------------------------------------------------------------------
(* Buckets are decompressed *)

LEMMA DecompressFirstShows ==
  ASSUME NEW m, NEW view, Represents(m, view), FirstIsEmpty(m),
         NEW b \in 1..Len(view), m.buckets[b].raw = NoContext, NEW e,
         NEW n, n = DecompressFirst(m, b)
  PROVE  Represents(n, view) /\ Keeps(m, n, e) /\ n.buckets[b].raw # NoContext
PROOF
<1> DEFINE c == Head(m.order)
           block == m.buckets[b].compressed
           x == [data |-> block, dirty |-> FALSE, block_index |-> b, buffer |-> block]
           k == [m.buckets[b] EXCEPT !.raw = c, !.compressed = Null]
<1>1. IsMemory(m) /\ Len(view) = Len(m.buckets) /\ view \in Seq(Seq(Values))
      /\ view[b] \in Seq(Values) /\ Len(view[b]) <= BlockSize /\ DOMAIN m.contexts \subseteq Nat \ {0}
  BY MemoryFacts, Constants
<1>2. m.buckets[b] \in Bucket /\ block \in Full /\ Shows(block, view[b])  BY BucketFacts
<1>3. c \in DOMAIN m.contexts /\ m.contexts[c].block_index = 0 /\ c \in Nat /\ c # NoContext
  BY <1>1 DEF FirstIsEmpty, NoContext
<1>4. m.contexts[c] = EmptyContext  BY <1>3, EmptyFacts
<1>5. block \in Seq(Values) /\ Len(block) = BlockSize /\ block \in Blocks /\ block # Null
  BY <1>2, FullBlocks
<1>6. x \in Cell  BY <1>5 DEF Cell
<1>7. Saved(x)  BY <1>2, <1>5 DEF Saved
<1>8. k \in Bucket /\ k.raw = c /\ k.compressed = Null /\ k.refs = m.buckets[b].refs
  BY <1>2, <1>3, NoBlocks DEF Bucket
<1>9. PairShows(k, x, b, c, view[b])  BY <1>2, <1>7, <1>8 DEF PairShows
<1>10. n = Changed(m, b, k, c, x, m.size, m.live)
  BY <1>1 DEF IsMemory, IsRecord, DecompressFirst, Changed
<1>11. m.size \in Int /\ m.live \in Int /\ n.size = m.size /\ n.live = m.live
  BY <1>1, <1>10 DEF IsMemory, Changed
<1>12. BufferOf(m.buckets[b], m.contexts[c]) = block /\ BufferOf(k, x) = block
  BY <1>3, <1>8 DEF BufferOf
<1>13. SameBut(view, view, b)  BY <1>1 DEF SameBut
<1> HIDE DEF c, x, k
<1>14. Counted(m, b, k, c, x, n.live)  BY <1>11, <1>12 DEF Counted
<1>15. PairStep(m, view, b, k, c, x, view, n)
  BY <1>1, <1>3, <1>6, <1>8, <1>9, <1>10, <1>11, <1>13, <1>14 DEF PairStep
<1>16. /\ Represents(n, view)
       /\ Len(n.buckets) = Len(m.buckets) /\ n.buckets[b] = k
       /\ \A a \in 1..Len(m.buckets) : a # b => n.buckets[a] = m.buckets[a]
  BY <1>15, PairChanges
<1>17. Keeps(m, n, e)  BY <1>8, <1>11, <1>16 DEF Keeps
<1> QED BY <1>3, <1>8, <1>16, <1>17

LEMMA DecompressShows ==
  ASSUME NEW m, NEW view, Represents(m, view), Solid(view),
         NEW b \in 1..Len(view), NEW e,
         NEW n, n = DecompressBucket(m, b, e)
  PROVE  Represents(n, view) /\ Keeps(m, n, e) /\ n.buckets[b].raw # NoContext
PROOF
<1>1. CASE m.buckets[b].raw # NoContext
  <2>1. n = m  BY <1>1 DEF DecompressBucket, RawOf
  <2> QED BY <1>1, <2>1, KeepsSame
<1>2. CASE m.buckets[b].raw = NoContext
  <2> DEFINE l == MakeOrFindFreeContext(m, e)
  <2>1. n = DecompressFirst(l, b)  BY <1>2 DEF DecompressBucket, RawOf
  <2>2. Represents(l, view) /\ Found(m, l, e) /\ FirstIsEmpty(l)  BY MakeOrFindShows
  <2> HIDE DEF l
  <2>3. l.buckets[b].raw = NoContext /\ Keeps(m, l, e)
    BY <1>2, <2>2, MemoryFacts DEF Found
  <2>4. Represents(n, view) /\ Keeps(l, n, e) /\ n.buckets[b].raw # NoContext
    BY <2>1, <2>2, <2>3, DecompressFirstShows
  <2> QED BY <2>3, <2>4, KeepsTwice
<1> QED BY <1>1, <1>2

-----------------------------------------------------------------------------
(* Positions *)

LEMMA Division ==
  ASSUME NEW a \in Nat, NEW b \in Nat, b > 0
  PROVE  /\ a \div b \in Nat /\ a % b \in Nat /\ a % b < b
         /\ a = b * (a \div b) + (a % b)
  OBVIOUS

\* A position is a bucket and a position in it.
LEMMA Position ==
  ASSUME NEW i \in Nat, i > 0
  PROVE  /\ BucketOf(i) \in Nat /\ BucketOf(i) >= 1 /\ PosOf(i) \in 1..BlockSize
         /\ i = (BucketOf(i) - 1) * BlockSize + PosOf(i)
PROOF
<1> DEFINE a == i - 1
           q == a \div BlockSize
           r == a % BlockSize
<1>1. a \in Nat  OBVIOUS
<1>2. BlockSize \in Nat /\ BlockSize > 0  BY Constants
<1>3. q \in Nat /\ r \in Nat /\ r < BlockSize /\ a = BlockSize * q + r  BY <1>1, <1>2, Division
<1>4. BucketOf(i) = q + 1 /\ PosOf(i) = r + 1  BY DEF BucketOf, PosOf
<1>5. a = i - 1  OBVIOUS
<1> HIDE DEF a, q, r
<1>6. BlockSize * q = q * BlockSize /\ (q + 1) - 1 = q  BY <1>2, <1>3
<1>7. i = q * BlockSize + (r + 1)  BY <1>3, <1>5, <1>6, <1>2
<1>8. r + 1 \in 1..BlockSize  BY <1>2, <1>3
<1>9. (BucketOf(i) - 1) * BlockSize = q * BlockSize  BY <1>4, <1>6
<1> QED BY <1>3, <1>4, <1>7, <1>8, <1>9

\* There is one only.
LEMMA OnePosition ==
  ASSUME NEW b \in Nat, NEW p \in 1..BlockSize, NEW c \in Nat, NEW q \in 1..BlockSize,
         b * BlockSize + p = c * BlockSize + q
  PROVE  b = c /\ p = q
PROOF
<1>1. BlockSize \in Nat /\ BlockSize > 0  BY Constants
<1>2. ASSUME NEW x \in Nat, NEW y \in Nat, NEW s \in 1..BlockSize, NEW t \in 1..BlockSize, x < y
      PROVE  x * BlockSize + s < y * BlockSize + t
  <2>1. (x + 1) * BlockSize <= y * BlockSize  BY <1>1, <1>2
  <2>2. (x + 1) * BlockSize = x * BlockSize + BlockSize  BY <1>1
  <2>3. x * BlockSize \in Nat /\ y * BlockSize \in Nat  BY <1>1
  <2> QED BY <1>1, <2>1, <2>2, <2>3
<1>3. b * BlockSize \in Nat /\ c * BlockSize \in Nat  BY <1>1
<1>4. ~(b < c) /\ ~(c < b)  BY <1>1, <1>2, <1>3
<1>5. b = c  BY <1>4
<1> QED BY <1>1, <1>3, <1>5

LEMMA PositionIs ==
  ASSUME NEW b \in Nat, b >= 1, NEW p \in 1..BlockSize, NEW i \in Nat,
         i = (b - 1) * BlockSize + p
  PROVE  i > 0 /\ BucketOf(i) = b /\ PosOf(i) = p
PROOF
<1>1. BlockSize \in Nat /\ BlockSize > 0 /\ b - 1 \in Nat  BY Constants
<1>2. (b - 1) * BlockSize \in Nat  BY <1>1
<1>3. i > 0  BY <1>1, <1>2
<1> DEFINE c == BucketOf(i)
<1>4. c \in Nat /\ c >= 1 /\ PosOf(i) \in 1..BlockSize /\ i = (c - 1) * BlockSize + PosOf(i)
  BY <1>3, Position
<1> HIDE DEF c
<1> DEFINE q == PosOf(i)
           x == b - 1
           y == c - 1
<1>5. x \in Nat /\ y \in Nat /\ q \in 1..BlockSize /\ x * BlockSize + p = y * BlockSize + q
  BY <1>1, <1>4
<1> HIDE DEF q, x, y
<1>6. x = y /\ p = q  BY <1>5, OnePosition
<1>7. b = c  BY <1>4, <1>6 DEF x, y
<1> QED BY <1>3, <1>6, <1>7 DEF c, q

LEMMA FirstPosition == BucketOf(1) = 1 /\ PosOf(1) = 1
PROOF
<1>1. BlockSize \in Nat /\ BlockSize > 0  BY Constants
<1>2. 1 = (1 - 1) * BlockSize + 1 /\ 1 \in 1..BlockSize  BY <1>1
<1> QED BY <1>2, PositionIs

LEMMA NextPosition ==
  ASSUME NEW i \in Nat, i > 0
  PROVE  /\ PosOf(i) # BlockSize => BucketOf(i + 1) = BucketOf(i) /\ PosOf(i + 1) = PosOf(i) + 1
         /\ PosOf(i) = BlockSize => BucketOf(i + 1) = BucketOf(i) + 1 /\ PosOf(i + 1) = 1
PROOF
<1> DEFINE b == BucketOf(i)
           p == PosOf(i)
<1>1. BlockSize \in Nat /\ BlockSize > 0  BY Constants
<1>2. b \in Nat /\ b >= 1 /\ p \in 1..BlockSize /\ i = (b - 1) * BlockSize + p  BY Position
<1> HIDE DEF b, p
<1>3. (b - 1) * BlockSize \in Nat /\ b * BlockSize = (b - 1) * BlockSize + BlockSize  BY <1>1, <1>2
<1>4. CASE p # BlockSize
  <2>1. p + 1 \in 1..BlockSize /\ i + 1 = (b - 1) * BlockSize + (p + 1) /\ i + 1 \in Nat
    BY <1>1, <1>2, <1>3, <1>4
  <2>2. BucketOf(i + 1) = b /\ PosOf(i + 1) = p + 1  BY <1>2, <2>1, PositionIs
  <2> QED BY <1>4, <2>2 DEF b, p
<1>5. CASE p = BlockSize
  <2>1. 1 \in 1..BlockSize /\ i + 1 = ((b + 1) - 1) * BlockSize + 1 /\ i + 1 \in Nat /\ b + 1 \in Nat
    BY <1>1, <1>2, <1>3, <1>5
  <2>2. BucketOf(i + 1) = b + 1 /\ PosOf(i + 1) = 1  BY <1>2, <2>1, PositionIs
  <2> QED BY <1>5, <2>2 DEF b, p
<1> QED BY <1>4, <1>5

\* A whole bucket further.
LEMMA SamePosition ==
  ASSUME NEW i \in Nat, i > 0
  PROVE  BucketOf(i + BlockSize) = BucketOf(i) + 1 /\ PosOf(i + BlockSize) = PosOf(i)
PROOF
<1> DEFINE b == BucketOf(i)
           p == PosOf(i)
<1>1. BlockSize \in Nat /\ BlockSize > 0  BY Constants
<1>2. b \in Nat /\ b >= 1 /\ p \in 1..BlockSize /\ i = (b - 1) * BlockSize + p  BY Position
<1> HIDE DEF b, p
<1>3. (b - 1) * BlockSize \in Nat /\ b * BlockSize = (b - 1) * BlockSize + BlockSize  BY <1>1, <1>2
<1>4. i + BlockSize = ((b + 1) - 1) * BlockSize + p /\ i + BlockSize \in Nat /\ b + 1 \in Nat
  BY <1>1, <1>2, <1>3
<1>5. BucketOf(i + BlockSize) = b + 1 /\ PosOf(i + BlockSize) = p  BY <1>2, <1>4, PositionIs
<1> QED BY <1>5 DEF b, p

LEMMA PositionOrder ==
  ASSUME NEW i \in Nat, i > 0, NEW j \in Nat, i <= j
  PROVE  /\ BucketOf(i) <= BucketOf(j)
         /\ BucketOf(i) = BucketOf(j) => PosOf(i) <= PosOf(j)
PROOF
<1> DEFINE b == BucketOf(i)
           p == PosOf(i)
           c == BucketOf(j)
           q == PosOf(j)
<1>1. BlockSize \in Nat /\ BlockSize > 0  BY Constants
<1>2. b \in Nat /\ b >= 1 /\ p \in 1..BlockSize /\ i = (b - 1) * BlockSize + p  BY Position
<1>3. c \in Nat /\ c >= 1 /\ q \in 1..BlockSize /\ j = (c - 1) * BlockSize + q  BY Position
<1> HIDE DEF b, p, c, q
<1>4. (b - 1) * BlockSize \in Nat /\ (c - 1) * BlockSize \in Nat  BY <1>1, <1>2, <1>3
<1>5. b <= c
  <2>1. SUFFICES ASSUME c < b PROVE FALSE  BY <1>2, <1>3
  <2>2. ((c - 1) + 1) * BlockSize <= (b - 1) * BlockSize  BY <1>1, <1>2, <1>3, <2>1
  <2>3. ((c - 1) + 1) * BlockSize = (c - 1) * BlockSize + BlockSize  BY <1>1, <1>3
  <2> QED BY <1>1, <1>2, <1>3, <1>4, <2>2, <2>3
<1>6. b = c => p <= q  BY <1>1, <1>2, <1>3, <1>4
<1> QED BY <1>5, <1>6 DEF b, p, c, q

-----------------------------------------------------------------------------
(* The blocks of a vector *)

\* The blocks of the values w: all whole but the last one, which is not empty.
Splits(view, w) ==
  /\ w \in Seq(Values) /\ view \in Seq(Seq(Values))
  /\ Len(view) = IF Len(w) = 0 THEN 0 ELSE BucketOf(Len(w))
  /\ \A b \in 1..Len(view) :
       Len(view[b]) = IF b < Len(view) THEN BlockSize ELSE PosOf(Len(w))
  /\ \A i \in 1..Len(w) : view[BucketOf(i)][PosOf(i)] = w[i]

\* The memory holds the values w.
Holds(m, w) == m.size = Len(w) /\ \E view : Represents(m, view) /\ Splits(view, w)

LEMMA SplitsFacts ==
  ASSUME NEW view, NEW w, Splits(view, w)
  PROVE  /\ Len(w) \in Nat /\ Len(view) \in Nat /\ Solid(view)
         /\ Len(w) # 0 => Len(view) >= 1 /\ BucketOf(Len(w)) = Len(view) /\ PosOf(Len(w)) \in 1..BlockSize
         /\ Len(w) = 0 <=> Len(view) = 0
         /\ \A i \in 1..Len(w) :
              /\ BucketOf(i) \in 1..Len(view) /\ PosOf(i) \in 1..Len(view[BucketOf(i)])
              /\ PosOf(i) \in 1..BlockSize
PROOF
<1>1. Len(w) \in Nat /\ Len(view) \in Nat  BY DEF Splits
<1>2. BlockSize \in Nat /\ BlockSize > 0  BY Constants
<1>3. ASSUME Len(w) # 0
      PROVE  Len(view) >= 1 /\ BucketOf(Len(w)) = Len(view) /\ PosOf(Len(w)) \in 1..BlockSize
  <2>1. Len(w) > 0  BY <1>1, <1>3
  <2>2. BucketOf(Len(w)) >= 1 /\ PosOf(Len(w)) \in 1..BlockSize  BY <1>1, <2>1, Position
  <2> QED BY <1>3, <2>2 DEF Splits
<1>4. Len(w) = 0 <=> Len(view) = 0  BY <1>1, <1>3 DEF Splits
<1>5. Solid(view)
  <2>1. SUFFICES ASSUME NEW b \in 1..Len(view) PROVE Len(view[b]) # 0  BY DEF Solid
  <2>2. Len(w) # 0  BY <1>1, <1>4
  <2>3. PosOf(Len(w)) # 0  BY <1>2, <1>3, <2>2
  <2> QED BY <1>2, <2>3 DEF Splits
<1>6. ASSUME NEW i \in 1..Len(w)
      PROVE  /\ BucketOf(i) \in 1..Len(view) /\ PosOf(i) \in 1..Len(view[BucketOf(i)])
             /\ PosOf(i) \in 1..BlockSize
  <2>1. i \in Nat /\ i > 0 /\ i <= Len(w) /\ Len(w) # 0  BY <1>1
  <2>2. BucketOf(i) \in Nat /\ BucketOf(i) >= 1 /\ PosOf(i) \in 1..BlockSize  BY <2>1, Position
  <2>3. BucketOf(i) <= Len(view) /\ (BucketOf(i) = Len(view) => PosOf(i) <= PosOf(Len(w)))
    BY <1>1, <1>3, <2>1, PositionOrder
  <2>4. BucketOf(i) \in 1..Len(view)  BY <1>1, <2>2, <2>3
  <2>5. Len(view[BucketOf(i)]) = IF BucketOf(i) < Len(view) THEN BlockSize ELSE PosOf(Len(w))
    BY <2>4 DEF Splits
  <2>6. PosOf(i) <= Len(view[BucketOf(i)]) /\ Len(view[BucketOf(i)]) \in Nat
    BY <1>1, <1>2, <1>3, <2>1, <2>2, <2>3, <2>4, <2>5
  <2>7. PosOf(i) \in 1..Len(view[BucketOf(i)])  BY <1>2, <2>2, <2>6
  <2> QED BY <2>2, <2>4, <2>7
<1> QED BY <1>1, <1>3, <1>4, <1>5, <1>6

\* Value i changes to u, in its block.
WriteStep(view, w, i, u, shown, t) ==
  /\ Splits(view, w) /\ i \in 1..Len(w) /\ u \in Values
  /\ shown = [view EXCEPT ![BucketOf(i)] = [@ EXCEPT ![PosOf(i)] = u]]
  /\ t = [w EXCEPT ![i] = u]

LEMMA SplitsWrite ==
  ASSUME NEW view, NEW w, NEW i, NEW u, NEW shown, NEW t, WriteStep(view, w, i, u, shown, t)
  PROVE  /\ Splits(shown, t) /\ SameBut(view, shown, BucketOf(i))
         /\ Len(shown[BucketOf(i)]) = Len(view[BucketOf(i)])
         /\ \A q \in 1..Len(view[BucketOf(i)]) :
              shown[BucketOf(i)][q] = IF q = PosOf(i) THEN u ELSE view[BucketOf(i)][q]
PROOF
<1> DEFINE b == BucketOf(i)
           p == PosOf(i)
<1>0. /\ Splits(view, w) /\ i \in 1..Len(w) /\ u \in Values
      /\ shown = [view EXCEPT ![b] = [@ EXCEPT ![p] = u]] /\ t = [w EXCEPT ![i] = u]
  BY DEF WriteStep
<1>1. w \in Seq(Values) /\ view \in Seq(Seq(Values)) /\ Len(w) \in Nat  BY <1>0 DEF Splits
<1>2. b \in 1..Len(view) /\ p \in 1..Len(view[b])  BY <1>0, SplitsFacts
<1> HIDE DEF b, p
<1>3. view[b] \in Seq(Values)  BY <1>1, <1>2
<1>4. [view[b] EXCEPT ![p] = u] \in Seq(Values) /\ Len([view[b] EXCEPT ![p] = u]) = Len(view[b])
  BY <1>0, <1>2, <1>3
<1>5. /\ shown \in Seq(Seq(Values)) /\ Len(shown) = Len(view)
      /\ shown[b] = [view[b] EXCEPT ![p] = u]
      /\ \A a \in 1..Len(view) : a # b => shown[a] = view[a]
  <2> DEFINE f == [view[b] EXCEPT ![p] = u]
             S == Seq(Values)
  <2>1. f \in S /\ view \in Seq(S) /\ shown = [view EXCEPT ![b] = f]  BY <1>0, <1>1, <1>4
  <2> HIDE DEF f, S
  <2>2. /\ shown \in Seq(S) /\ Len(shown) = Len(view) /\ shown[b] = f
        /\ \A a \in 1..Len(view) : a # b => shown[a] = view[a]
    BY <1>2, <2>1, Replaced
  <2> QED BY <2>2 DEF f, S
<1>6. t \in Seq(Values) /\ Len(t) = Len(w) /\ \A j \in 1..Len(w) : t[j] = IF j = i THEN u ELSE w[j]
  BY <1>0, <1>1
<1>7. \A a \in 1..Len(view) : Len(shown[a]) = Len(view[a])  BY <1>4, <1>5
<1>8. ASSUME NEW j \in 1..Len(w) PROVE shown[BucketOf(j)][PosOf(j)] = t[j]
  <2>1. BucketOf(j) \in 1..Len(view) /\ PosOf(j) \in 1..Len(view[BucketOf(j)])  BY <1>0, SplitsFacts
  <2>2. view[BucketOf(j)][PosOf(j)] = w[j]  BY <1>0 DEF Splits
  <2>3. CASE BucketOf(j) # b
    <3>1. j # i  BY <2>3 DEF b
    <3> QED BY <1>5, <1>6, <2>1, <2>2, <2>3, <3>1
  <2>4. CASE BucketOf(j) = b /\ PosOf(j) # p
    <3>1. j # i  BY <2>4 DEF p
    <3>2. shown[b][PosOf(j)] = view[b][PosOf(j)]  BY <1>3, <1>5, <2>1, <2>4
    <3> QED BY <1>6, <2>2, <2>4, <3>1, <3>2
  <2>5. CASE BucketOf(j) = b /\ PosOf(j) = p
    <3>1. j \in Nat /\ j > 0 /\ i \in Nat /\ i > 0  BY <1>0, <1>1
    <3>2. j = (b - 1) * BlockSize + p  BY <2>5, <3>1, Position
    <3>3. i = (b - 1) * BlockSize + p  BY <3>1, Position DEF b, p
    <3>4. j = i  BY <3>2, <3>3
    <3>5. shown[b][p] = u  BY <1>2, <1>3, <1>5
    <3> QED BY <1>6, <2>5, <3>4, <3>5
  <2> QED BY <2>3, <2>4, <2>5
<1>9. Splits(shown, t)  BY <1>0, <1>5, <1>6, <1>7, <1>8 DEF Splits
<1>10. Len(shown[b]) <= BlockSize
  <2>1. Len(view[b]) = IF b < Len(view) THEN BlockSize ELSE PosOf(Len(w))  BY <1>0, <1>2 DEF Splits
  <2>2. Len(w) # 0 /\ PosOf(Len(w)) \in 1..BlockSize  BY <1>0, <1>1, SplitsFacts
  <2> QED BY <1>2, <1>7, <2>1, <2>2, Constants
<1>11. \A q \in 1..Len(view[b]) : shown[b][q] = IF q = p THEN u ELSE view[b][q]
  BY <1>2, <1>3, <1>5
<1> QED BY <1>2, <1>5, <1>7, <1>9, <1>10, <1>11 DEF SameBut, b, p

-----------------------------------------------------------------------------
(* References *)

\* The references to the buckets change, and nothing else.
Referred(m, n) ==
  /\ n.contexts = m.contexts /\ n.order = m.order /\ n.size = m.size
  /\ Len(n.buckets) = Len(m.buckets)
  /\ \A a \in 1..Len(m.buckets) :
       n.buckets[a].raw = m.buckets[a].raw /\ n.buckets[a].compressed = m.buckets[a].compressed

LEMMA ReferredShows ==
  ASSUME NEW m, NEW view, Represents(m, view), NEW b \in 1..Len(view), NEW r \in Nat,
         NEW n, n = [m EXCEPT !.buckets[b].refs = r]
  PROVE  /\ Represents(n, view) /\ Referred(m, n) /\ n.buckets[b].refs = r
         /\ \A a \in 1..Len(view) : a # b => n.buckets[a].refs = m.buckets[a].refs
PROOF
<1>1. IsMemory(m) /\ Listed(m) /\ view \in Seq(Seq(Values)) /\ Len(view) = Len(m.buckets)
      /\ DOMAIN m.buckets = 1..Len(view)
  BY MemoryFacts
<1> DEFINE k == [m.buckets[b] EXCEPT !.refs = r]
           buckets == [m.buckets EXCEPT ![b] = k]
<1>2. n = [buckets |-> buckets, contexts |-> m.contexts, order |-> m.order, size |-> m.size, live |-> m.live]
  BY <1>1 DEF IsMemory, IsRecord
<1>3. m.buckets \in Seq(Bucket) /\ m.buckets[b] \in Bucket  BY <1>1, BucketFacts DEF IsMemory
<1>4. k \in Bucket /\ k.raw = m.buckets[b].raw /\ k.compressed = m.buckets[b].compressed /\ k.refs = r
  BY <1>3 DEF Bucket
<1> HIDE DEF k
<1>5. /\ buckets \in Seq(Bucket) /\ Len(buckets) = Len(view) /\ DOMAIN buckets = 1..Len(view)
      /\ buckets[b] = k /\ \A a \in 1..Len(view) : a # b => buckets[a] = m.buckets[a]
  BY <1>1, <1>3, <1>4
<1> HIDE DEF buckets
<1>6. /\ n.buckets = buckets /\ n.contexts = m.contexts /\ n.order = m.order /\ n.size = m.size
      /\ n.live = m.live
  BY <1>2
<1>7. IsMemory(n)  BY <1>1, <1>2, <1>5, <1>6 DEF IsMemory, IsRecord
<1>8. ASSUME NEW a \in 1..Len(view)
      PROVE  n.buckets[a].raw = m.buckets[a].raw /\ n.buckets[a].compressed = m.buckets[a].compressed
  BY <1>4, <1>5, <1>6
<1>9. Referred(m, n)  BY <1>1, <1>5, <1>6, <1>8 DEF Referred
<1>10. ASSUME NEW a \in 1..Len(view)
       PROVE  Len(view[a]) <= BlockSize /\ BucketShows(n, a, view[a])
  <2>1. Len(view[a]) <= BlockSize /\ BucketShows(m, a, view[a])  BY DEF Represents
  <2> QED BY <1>6, <1>8, <2>1 DEF BucketShows
<1>11. ASSUME NEW c \in DOMAIN n.contexts PROVE ContextIsLinked(n, c)
  <2>1. ContextIsLinked(m, c)  BY <1>6 DEF Represents
  <2>2. DOMAIN n.buckets = DOMAIN m.buckets  BY <1>1, <1>5, <1>6
  <2> QED BY <1>1, <1>6, <1>8, <2>1, <2>2 DEF ContextIsLinked
<1>12. Buffered(n) = Buffered(m)
  <2>1. \A a \in 1..Len(view) : FindCompressed(n, a) = FindCompressed(m, a)
    BY <1>6, <1>8 DEF FindCompressed, RawOf
  <2> QED BY <1>1, <1>5, <1>6, <2>1 DEF Buffered
<1>13. n.live = Cardinality(Buffered(n))  BY <1>6, <1>12 DEF Represents
<1>14. Listed(n)  BY <1>1, <1>6 DEF Listed
<1>15. Represents(n, view)
  BY <1>1, <1>5, <1>6, <1>7, <1>10, <1>11, <1>13, <1>14 DEF Represents
<1> QED BY <1>4, <1>5, <1>6, <1>9, <1>15

LEMMA RefShows ==
  ASSUME NEW m, NEW view, Represents(m, view), NEW b \in 1..Len(view), NEW n, n = Ref(m, b)
  PROVE  /\ Represents(n, view) /\ Referred(m, n)
         /\ \A a \in 1..Len(view) :
              n.buckets[a].refs = m.buckets[a].refs + (IF a = b THEN 1 ELSE 0)
PROOF
<1>1. \A a \in 1..Len(view) : m.buckets[a].refs \in Nat  BY BucketFacts DEF Bucket
<1> DEFINE r == m.buckets[b].refs + 1
<1>2. r \in Nat /\ n = [m EXCEPT !.buckets[b].refs = r]  BY <1>1 DEF Ref
<1>3. r = m.buckets[b].refs + 1  OBVIOUS
<1> HIDE DEF r
<1>4. /\ Represents(n, view) /\ Referred(m, n) /\ n.buckets[b].refs = r
      /\ \A a \in 1..Len(view) : a # b => n.buckets[a].refs = m.buckets[a].refs
  BY <1>2, ReferredShows
<1> QED BY <1>1, <1>3, <1>4

LEMMA UnrefShows ==
  ASSUME NEW m, NEW view, Represents(m, view), NEW b \in 1..Len(view), m.buckets[b].refs > 0,
         NEW n, n = Unref(m, b)
  PROVE  /\ Represents(n, view) /\ Referred(m, n)
         /\ \A a \in 1..Len(view) :
              n.buckets[a].refs = m.buckets[a].refs - (IF a = b THEN 1 ELSE 0)
PROOF
<1>1. \A a \in 1..Len(view) : m.buckets[a].refs \in Nat  BY BucketFacts DEF Bucket
<1> DEFINE r == m.buckets[b].refs - 1
<1>2. r \in Nat /\ n = [m EXCEPT !.buckets[b].refs = r]  BY <1>1 DEF Unref
<1>3. r = m.buckets[b].refs - 1  OBVIOUS
<1> HIDE DEF r
<1>4. /\ Represents(n, view) /\ Referred(m, n) /\ n.buckets[b].refs = r
      /\ \A a \in 1..Len(view) : a # b => n.buckets[a].refs = m.buckets[a].refs
  BY <1>2, ReferredShows
<1> QED BY <1>1, <1>3, <1>4

-----------------------------------------------------------------------------
(* A context is modified *)

\* The context of bucket b is c.
In(m, b, c) == c \in DOMAIN m.contexts /\ m.contexts[c].block_index = b /\ b # 0

\* Context c changes, and is still that of its bucket.
Modified(m, n, c) ==
  /\ n.buckets = m.buckets /\ n.order = m.order /\ n.size = m.size
  /\ DOMAIN n.contexts = DOMAIN m.contexts
  /\ n.contexts[c].block_index = m.contexts[c].block_index
  /\ \A d \in DOMAIN m.contexts : d # c => n.contexts[d] = m.contexts[d]

LEMMA MarkDirtyShows ==
  ASSUME NEW m, NEW view, Represents(m, view), NEW b, NEW c, In(m, b, c),
         NEW n, n = MarkDirty(m, c)
  PROVE  /\ Represents(n, view) /\ Modified(m, n, c)
         /\ n.contexts[c].dirty /\ n.contexts[c].data = m.contexts[c].data
PROOF
<1> DEFINE x == [m.contexts[c] EXCEPT !.dirty = TRUE,
                   !.buffer = IF m.contexts[c].buffer = Null THEN Null ELSE Stale]
<1>0. c \in DOMAIN m.contexts /\ m.contexts[c].block_index = b /\ b # 0  BY DEF In
<1>1. IsMemory(m)  BY MemoryFacts
<1>2. b \in 1..Len(view) /\ m.contexts[c] \in Cell /\ Shows(m.contexts[c].data, view[b])
  BY <1>0, ContextFacts
<1>3. view \in Seq(Seq(Values)) /\ view[b] \in Seq(Values) /\ Len(view[b]) <= BlockSize
  BY <1>2, MemoryFacts, Constants
<1>4. x \in Cell /\ x.data = m.contexts[c].data /\ x.block_index = b /\ x.dirty
      /\ (x.buffer = Null <=> m.contexts[c].buffer = Null)
  BY <1>0, <1>2, NoBlocks DEF Cell
<1>5. n = ContextChanged(m, c, x, m.size, m.live)
  BY <1>1 DEF IsMemory, IsRecord, MarkDirty, ContextChanged
<1> HIDE DEF x
<1>6. n.size = m.size /\ n.live = m.live /\ m.size \in Int /\ m.live \in Int
  BY <1>1, <1>5 DEF IsMemory, ContextChanged
<1>7. SameBut(view, view, b)  BY <1>3 DEF SameBut
<1>8. ContextStep(m, view, b, c, x, view, n)
  BY <1>0, <1>2, <1>4, <1>5, <1>6, <1>7 DEF ContextStep
<1>9. /\ Represents(n, view) /\ n.buckets = m.buckets /\ n.order = m.order
      /\ DOMAIN n.contexts = DOMAIN m.contexts /\ n.contexts[c] = x
      /\ \A d \in DOMAIN m.contexts : d # c => n.contexts[d] = m.contexts[d]
  BY <1>8, ContextChanges
<1> QED BY <1>0, <1>4, <1>6, <1>9 DEF Modified

\* The context whose values are written is dirty.  u is the value of the vector.
LEMMA WriteShows ==
  ASSUME NEW m, NEW w, NEW view, Represents(m, view), Splits(view, w),
         NEW i \in 1..Len(w), NEW b, b = BucketOf(i), m.buckets[b].raw # NoContext,
         NEW c, c = m.buckets[b].raw, m.contexts[c].dirty,
         NEW v \in Values, NEW u \in Values, NeverThrows => u = v,
         NEW n, n = Write(m, i, v)
  PROVE  /\ \E shown : Represents(n, shown) /\ Splits(shown, [w EXCEPT ![i] = u])
         /\ Modified(m, n, c) /\ n.contexts[c].dirty
PROOF
<1> DEFINE p == PosOf(i)
           data == m.contexts[c].data
           wrote == [data EXCEPT ![p] = v]
           x == [m.contexts[c] EXCEPT !.data = wrote]
           shown == [view EXCEPT ![b] = [@ EXCEPT ![p] = u]]
<1>1. IsMemory(m) /\ view \in Seq(Seq(Values))  BY MemoryFacts
<1>2. b \in 1..Len(view) /\ p \in 1..Len(view[b])  BY SplitsFacts
<1>3. c \in DOMAIN m.contexts /\ m.contexts[c].block_index = b /\ m.contexts[c] \in Cell
      /\ Shows(m.contexts[c].data, view[b]) /\ b # 0 /\ view[b] \in Seq(Values)
  <2>1. /\ m.buckets[b].raw \in DOMAIN m.contexts /\ b # 0
        /\ m.contexts[m.buckets[b].raw].block_index = b
        /\ m.contexts[m.buckets[b].raw] \in Cell
        /\ Shows(m.contexts[m.buckets[b].raw].data, view[b])
    BY <1>2, BucketFacts
  <2>2. view[b] \in Seq(Values)  BY <1>1, <1>2
  <2> QED BY <2>1, <2>2
<1>4. /\ Splits(shown, [w EXCEPT ![i] = u]) /\ SameBut(view, shown, b)
      /\ Len(shown[b]) = Len(view[b])
      /\ \A q \in 1..Len(view[b]) : shown[b][q] = IF q = p THEN u ELSE view[b][q]
  <2> DEFINE t == [w EXCEPT ![i] = u]
  <2>1. WriteStep(view, w, i, u, shown, t)  BY DEF WriteStep
  <2> HIDE DEF shown, t, p
  <2>2. /\ Splits(shown, t) /\ SameBut(view, shown, BucketOf(i))
        /\ Len(shown[BucketOf(i)]) = Len(view[BucketOf(i)])
        /\ \A q \in 1..Len(view[BucketOf(i)]) :
             shown[BucketOf(i)][q] = IF q = PosOf(i) THEN u ELSE view[BucketOf(i)][q]
    BY <2>1, SplitsWrite
  <2> QED BY <2>2 DEF t, p
<1>5. data \in Seq(Values) /\ Len(data) = Len(view[b]) /\ (NeverThrows => data = view[b])
  BY <1>3 DEF Cell, Shows
<1> HIDE DEF data, shown
<1>6. wrote \in Seq(Values) /\ Len(wrote) = Len(view[b])  BY <1>2, <1>3, <1>5
<1>7. NeverThrows => wrote = shown[b]
  <2>1. shown[b] \in Seq(Values)  BY <1>2, <1>4 DEF SameBut
  <2>2. SUFFICES ASSUME NeverThrows PROVE wrote = shown[b]  OBVIOUS
  <2>3. \A q \in 1..Len(view[b]) : wrote[q] = shown[b][q]
    <3>1. p \in 1..Len(data)  BY <1>2, <1>5
    <3>2. /\ wrote[p] = v
          /\ \A q \in 1..Len(data) : q # p => wrote[q] = data[q]
      BY <1>5, <3>1, Replaced
    <3> HIDE DEF wrote
    <3>3. data = view[b] /\ u = v  BY <1>5, <2>2
    <3> QED BY <1>4, <3>2, <3>3
  <2> HIDE DEF wrote
  <2> QED BY <1>4, <1>6, <2>1, <2>3, SameValues
<1>8. n = ContextChanged(m, c, x, m.size, m.live)
  <2>1. [m.contexts EXCEPT ![c] = x] = [m.contexts EXCEPT ![c].data[p] = v]
    <3>1. m.contexts[c].data = data  BY DEF data
    <3> QED BY <1>3, <3>1 DEF Cell
  <2> QED BY <1>1, <2>1 DEF IsMemory, IsRecord, Write, RawOf, ContextChanged
<1>9. Len(shown[b]) = Len(view[b])  BY <1>4
<1> HIDE DEF wrote
<1>10. x \in Cell /\ x.block_index = b /\ x.dirty /\ x.buffer = m.contexts[c].buffer
      /\ x.data = wrote
  BY <1>3, <1>6 DEF Cell
<1>11. Shows(x.data, shown[b])  BY <1>6, <1>7, <1>9, <1>10 DEF Shows
<1> HIDE DEF x
<1>12. n.size = m.size /\ n.live = m.live /\ m.size \in Int /\ m.live \in Int
  BY <1>1, <1>8 DEF IsMemory, ContextChanged
<1>13. ContextStep(m, view, b, c, x, shown, n)
  BY <1>3, <1>4, <1>8, <1>10, <1>11, <1>12 DEF ContextStep
<1>14. /\ Represents(n, shown) /\ n.buckets = m.buckets /\ n.order = m.order
       /\ DOMAIN n.contexts = DOMAIN m.contexts /\ n.contexts[c] = x
       /\ \A d \in DOMAIN m.contexts : d # c => n.contexts[d] = m.contexts[d]
  BY <1>13, ContextChanges
<1> QED BY <1>3, <1>4, <1>10, <1>12, <1>14 DEF Modified

\* What MarkDirty and Write do to the context.
LEMMA MarkDirtyIs ==
  ASSUME NEW m, IsRecord(m), NEW c \in DOMAIN m.contexts,
         NEW x, x = [m.contexts[c] EXCEPT !.dirty = TRUE,
                       !.buffer = IF m.contexts[c].buffer = Null THEN Null ELSE Stale]
  PROVE  MarkDirty(m, c) = ContextChanged(m, c, x, m.size, m.live)
PROOF
<1> DEFINE z == IF m.contexts[c].buffer = Null THEN Null ELSE Stale
           f == [m.contexts EXCEPT ![c].dirty = TRUE]
           g == [f EXCEPT ![c].buffer = z]
<1>1. MarkDirty(m, c) = [m EXCEPT !.contexts[c].dirty = TRUE, !.contexts[c].buffer = z]
  BY DEF MarkDirty
<1>2. x = [m.contexts[c] EXCEPT !.dirty = TRUE, !.buffer = z]  OBVIOUS
<1> HIDE DEF z
<1>3. DOMAIN f = DOMAIN m.contexts /\ f[c] = [m.contexts[c] EXCEPT !.dirty = TRUE]  OBVIOUS
<1>4. [m EXCEPT !.contexts[c].dirty = TRUE, !.contexts[c].buffer = z] = [m EXCEPT !.contexts = g]
  BY DEF IsRecord
<1>5. g = [m.contexts EXCEPT ![c] = x]
  <2>1. g = [f EXCEPT ![c] = x]  BY <1>2, <1>3
  <2> QED BY <2>1
<1> HIDE DEF g
<1> QED BY <1>1, <1>4, <1>5 DEF IsRecord, ContextChanged

LEMMA WriteIs ==
  ASSUME NEW m, IsRecord(m), NEW i, NEW c \in DOMAIN m.contexts,
         c = m.buckets[BucketOf(i)].raw, NEW v,
         NEW x, x = [m.contexts[c] EXCEPT !.data[PosOf(i)] = v]
  PROVE  Write(m, i, v) = ContextChanged(m, c, x, m.size, m.live)
BY DEF IsRecord, Write, RawOf, ContextChanged

\* Another change of context c, after x, is that change alone.
Rechanged(m, c, x, l) ==
  /\ IsRecord(l) /\ c \in DOMAIN l.contexts /\ l.contexts[c] = x /\ l.buckets = m.buckets
  /\ \A y : ContextChanged(l, c, y, l.size, l.live) = ContextChanged(m, c, y, m.size, m.live)

LEMMA ChangedTwice ==
  ASSUME NEW m, NEW c \in DOMAIN m.contexts, NEW x, NEW l, l = ContextChanged(m, c, x, m.size, m.live)
  PROVE  Rechanged(m, c, x, l)
BY DEF IsRecord, ContextChanged, Rechanged

\* Marking and writing are done in either order.
LEMMA WriteAndMarkIsMarkAndWrite ==
  ASSUME NEW m, NEW view, Represents(m, view), NEW i, NEW c \in DOMAIN m.contexts,
         c = m.buckets[BucketOf(i)].raw, NEW v
  PROVE  WriteAndMark(m, i, v) = Write(MarkDirty(m, c), i, v)
PROOF
<1> DEFINE y == m.contexts[c]
           wrote == [y EXCEPT !.data[PosOf(i)] = v]
           marked == [y EXCEPT !.dirty = TRUE, !.buffer = IF y.buffer = Null THEN Null ELSE Stale]
           x == [marked EXCEPT !.data[PosOf(i)] = v]
           l == Write(m, i, v)
           k == MarkDirty(m, c)
<1>1. IsRecord(m) /\ m.contexts[c] \in Cell  BY MemoryFacts DEF IsMemory
<1>2. l = ContextChanged(m, c, wrote, m.size, m.live)  BY <1>1, WriteIs
<1>3. k = ContextChanged(m, c, marked, m.size, m.live)  BY <1>1, MarkDirtyIs
<1>4. x = [wrote EXCEPT !.dirty = TRUE, !.buffer = IF wrote.buffer = Null THEN Null ELSE Stale]
  BY <1>1 DEF Cell
<1> HIDE DEF wrote, marked, l, k
<1>5. MarkDirty(l, c) = ContextChanged(m, c, x, m.size, m.live)
  <2>1. /\ IsRecord(l) /\ c \in DOMAIN l.contexts /\ l.contexts[c] = wrote
        /\ \A z : ContextChanged(l, c, z, l.size, l.live) = ContextChanged(m, c, z, m.size, m.live)
    <3>1. Rechanged(m, c, wrote, l)  BY <1>2, ChangedTwice
    <3> QED BY <3>1 DEF Rechanged
  <2>2. x = [l.contexts[c] EXCEPT !.dirty = TRUE,
               !.buffer = IF l.contexts[c].buffer = Null THEN Null ELSE Stale]
    BY <1>4, <2>1
  <2> HIDE DEF x
  <2>3. MarkDirty(l, c) = ContextChanged(l, c, x, l.size, l.live)  BY <2>1, <2>2, MarkDirtyIs
  <2> QED BY <2>1, <2>3
<1>6. Write(k, i, v) = ContextChanged(m, c, x, m.size, m.live)
  <2>1. /\ IsRecord(k) /\ c \in DOMAIN k.contexts /\ k.contexts[c] = marked /\ k.buckets = m.buckets
        /\ \A z : ContextChanged(k, c, z, k.size, k.live) = ContextChanged(m, c, z, m.size, m.live)
    <3>1. Rechanged(m, c, marked, k)  BY <1>3, ChangedTwice
    <3> QED BY <3>1 DEF Rechanged
  <2>2. x = [k.contexts[c] EXCEPT !.data[PosOf(i)] = v]  BY <2>1
  <2> HIDE DEF x
  <2>3. Write(k, i, v) = ContextChanged(k, c, x, k.size, k.live)  BY <2>1, <2>2, WriteIs
  <2> QED BY <2>1, <2>3
<1>7. WriteAndMark(m, i, v) = MarkDirty(l, c)  BY DEF WriteAndMark, RawOf, l
<1> QED BY <1>5, <1>6, <1>7 DEF k

-----------------------------------------------------------------------------
(* Values are read and written through wrappers *)

\* The references to some buckets are taken, and given back after a step.
Raised(m, l) ==
  /\ Referred(m, l)
  /\ \A a \in 1..Len(m.buckets) :
       l.buckets[a].refs \in Nat /\ l.buckets[a].refs >= m.buckets[a].refs

LEMMA WrappedKeeps ==
  ASSUME NEW m, NEW view, Represents(m, view), NEW l, Raised(m, l),
         NEW k, NEW e, Keeps(l, k, e), NEW n, Referred(k, n),
         \A a \in 1..Len(m.buckets) : n.buckets[a].refs = m.buckets[a].refs
  PROVE  Keeps(m, n, NoContext)
PROOF
<1>1. Len(l.buckets) = Len(m.buckets) /\ Len(k.buckets) = Len(m.buckets)
      /\ Len(n.buckets) = Len(m.buckets) /\ n.size = m.size
  BY DEF Raised, Referred, Keeps
<1>2. ASSUME NEW a \in 1..Len(m.buckets), m.buckets[a].refs > 0, m.buckets[a].raw # NoContext
      PROVE  n.buckets[a].raw = m.buckets[a].raw
  <2>1. l.buckets[a].raw = m.buckets[a].raw /\ n.buckets[a].raw = k.buckets[a].raw
    BY <1>1 DEF Raised, Referred
  <2>2. /\ m.buckets[a].refs \in Nat /\ l.buckets[a].refs \in Nat
        /\ l.buckets[a].refs >= m.buckets[a].refs
    BY MemoryFacts, BucketFacts DEF Bucket, Raised
  <2>3. l.buckets[a].refs > 0  BY <1>2, <2>2
  <2>4. k.buckets[a].raw = l.buckets[a].raw
    BY <1>1, <1>2, <2>1, <2>2, <2>3 DEF Keeps
  <2> QED BY <2>1, <2>4
<1> QED BY <1>1, <1>2 DEF Keeps

LEMMA ReadHolds ==
  ASSUME NEW m, NEW w, Holds(m, w), NEW i \in 1..Len(w), NEW n, n = Read(m, i)
  PROVE  Holds(n, w) /\ Keeps(m, n, NoContext)
PROOF
<1>1. PICK view : Represents(m, view) /\ Splits(view, w)  BY DEF Holds
<1> DEFINE b == BucketOf(i)
           l == Ref(m, b)
           k == DecompressBucket(l, b, NoContext)
<1>2. b \in 1..Len(view) /\ Solid(view) /\ Len(view) = Len(m.buckets)
  BY <1>1, SplitsFacts, MemoryFacts
<1>3. n = Unref(k, b)  BY DEF Read
<1> HIDE DEF b
<1>4. /\ Represents(l, view) /\ Referred(m, l)
      /\ \A a \in 1..Len(view) : l.buckets[a].refs = m.buckets[a].refs + (IF a = b THEN 1 ELSE 0)
  BY <1>1, <1>2, RefShows
<1> HIDE DEF l
<1>5. Represents(k, view) /\ Keeps(l, k, NoContext)  BY <1>2, <1>4, DecompressShows
<1> HIDE DEF k
<1>6. \A a \in 1..Len(view) : m.buckets[a].refs \in Nat  BY <1>1, BucketFacts DEF Bucket
<1>7. \A a \in 1..Len(view) : k.buckets[a].refs = m.buckets[a].refs + (IF a = b THEN 1 ELSE 0)
  BY <1>2, <1>4, <1>5 DEF Keeps, Referred
<1>8. /\ Represents(n, view) /\ Referred(k, n)
      /\ \A a \in 1..Len(view) : n.buckets[a].refs = k.buckets[a].refs - (IF a = b THEN 1 ELSE 0)
  <2>1. k.buckets[b].refs > 0  BY <1>2, <1>6, <1>7
  <2> QED BY <1>2, <1>3, <1>5, <2>1, UnrefShows
<1>9. \A a \in 1..Len(view) : n.buckets[a].refs = m.buckets[a].refs  BY <1>6, <1>7, <1>8
<1>10. Raised(m, l)  BY <1>2, <1>4, <1>6 DEF Raised
<1>11. Keeps(m, n, NoContext)  BY <1>1, <1>2, <1>5, <1>8, <1>9, <1>10, WrappedKeeps
<1> QED BY <1>1, <1>8, <1>11 DEF Holds, Keeps

\* The bucket of value i has a context, that is dirty.
Writable(m, i) ==
  LET c == m.buckets[BucketOf(i)].raw IN c # NoContext /\ m.contexts[c].dirty

Decompressed(m, i) == m.buckets[BucketOf(i)].raw # NoContext

LEMMA MarkHolds ==
  ASSUME NEW m, NEW w, Holds(m, w), NEW i \in 1..Len(w), Decompressed(m, i),
         NEW n, n = MarkDirty(m, m.buckets[BucketOf(i)].raw)
  PROVE  /\ Holds(n, w) /\ n.buckets = m.buckets /\ n.size = m.size /\ Writable(n, i)
         /\ \A j \in 1..Len(w) : Writable(m, j) => Writable(n, j)
         /\ \A j \in 1..Len(w) : Decompressed(m, j) => ValueAt(n, j) = ValueAt(m, j)
PROOF
<1>1. PICK view : Represents(m, view) /\ Splits(view, w)  BY DEF Holds
<1> DEFINE b == BucketOf(i)
           c == m.buckets[b].raw
<1>2. b \in 1..Len(view)  BY <1>1, SplitsFacts
<1>3. c # NoContext /\ n = MarkDirty(m, c)  BY DEF Decompressed
<1>4. In(m, b, c)  BY <1>1, <1>2, <1>3, BucketFacts DEF In
<1>5. c = m.buckets[BucketOf(i)].raw  OBVIOUS
<1> HIDE DEF b, c
<1>6. /\ Represents(n, view) /\ Modified(m, n, c)
      /\ n.contexts[c].dirty /\ n.contexts[c].data = m.contexts[c].data
  BY <1>1, <1>3, <1>4, MarkDirtyShows
<1>7. Holds(n, w) /\ n.buckets = m.buckets /\ n.size = m.size  BY <1>1, <1>6 DEF Holds, Modified
<1>8. Writable(n, i)  BY <1>3, <1>5, <1>6, <1>7 DEF Writable
<1>9. ASSUME NEW j \in 1..Len(w), Decompressed(m, j)
      PROVE  /\ m.buckets[BucketOf(j)].raw \in DOMAIN m.contexts
             /\ m.buckets[BucketOf(j)].raw # NoContext
  BY <1>1, <1>9, SplitsFacts, BucketFacts DEF Decompressed
<1>10. \A j \in 1..Len(w) : Writable(m, j) => Writable(n, j)
  BY <1>6, <1>7, <1>9 DEF Writable, Modified, Decompressed
<1>11. ASSUME NEW j \in 1..Len(w), Decompressed(m, j) PROVE ValueAt(n, j) = ValueAt(m, j)
  <2> DEFINE d == m.buckets[BucketOf(j)].raw
  <2>1. d \in DOMAIN m.contexts /\ d # NoContext  BY <1>9, <1>11
  <2>2. n.buckets[BucketOf(j)].raw = d  BY <1>7
  <2>3. n.contexts[d].data = m.contexts[d].data
    <3> HIDE DEF d
    <3> QED BY <1>6, <2>1 DEF Modified
  <2> QED BY <2>1, <2>2, <2>3 DEF ValueAt, ValuesOf, RawOf
<1> QED BY <1>7, <1>8, <1>10, <1>11

\* Value i becomes v, where a vector has u.
Writes(m, w, i, v, u, t, n) ==
  /\ Holds(m, w) /\ i \in 1..Len(w) /\ Writable(m, i)
  /\ v \in Values /\ u \in Values /\ (NeverThrows => u = v)
  /\ t = [w EXCEPT ![i] = u] /\ n = Write(m, i, v)

LEMMA WriteHolds ==
  ASSUME NEW m, NEW w, NEW i, NEW v, NEW u, NEW t, NEW n, Writes(m, w, i, v, u, t, n)
  PROVE  /\ Holds(n, t) /\ n.buckets = m.buckets /\ n.size = m.size /\ Len(t) = Len(w)
         /\ \A j \in 1..Len(w) : Writable(m, j) => Writable(n, j)
PROOF
<1>1. PICK view : Represents(m, view) /\ Splits(view, w)  BY DEF Holds, Writes
<1> DEFINE b == BucketOf(i)
           c == m.buckets[b].raw
<1>2. /\ i \in 1..Len(w) /\ c # NoContext /\ m.contexts[c].dirty /\ n = Write(m, i, v)
      /\ v \in Values /\ u \in Values /\ (NeverThrows => u = v)
  BY DEF Writes, Writable
<1>3. c = m.buckets[BucketOf(i)].raw /\ b = BucketOf(i) /\ c = m.buckets[b].raw  OBVIOUS
<1> HIDE DEF b, c
<1>4. /\ \E shown : Represents(n, shown) /\ Splits(shown, [w EXCEPT ![i] = u])
      /\ Modified(m, n, c) /\ n.contexts[c].dirty
  BY <1>1, <1>2, <1>3, WriteShows
<1>5. t = [w EXCEPT ![i] = u] /\ m.size = Len(w) /\ w \in Seq(Values)
  BY <1>1 DEF Writes, Holds, Splits
<1>6. Len(t) = Len(w)  BY <1>2, <1>5
<1>7. n.buckets = m.buckets /\ n.size = m.size  BY <1>4 DEF Modified
<1>8. Holds(n, t)  BY <1>4, <1>5, <1>6, <1>7 DEF Holds
<1>9. ASSUME NEW j \in 1..Len(w), Writable(m, j) PROVE Writable(n, j)
  <2> DEFINE d == m.buckets[BucketOf(j)].raw
  <2>1. d \in DOMAIN m.contexts /\ d # NoContext /\ m.contexts[d].dirty
    BY <1>1, <1>9, SplitsFacts, BucketFacts DEF Writable
  <2>2. n.buckets[BucketOf(j)].raw = d  BY <1>7
  <2>3. n.contexts[d].dirty
    <3> HIDE DEF d
    <3> QED BY <1>4, <2>1 DEF Modified
  <2> QED BY <2>1, <2>2, <2>3 DEF Writable
<1> QED BY <1>6, <1>7, <1>8, <1>9

\* What is read is the value of the vector.
LEMMA ValueAtIs ==
  ASSUME NEW m, NEW w, Holds(m, w), NEW j \in 1..Len(w)
  PROVE  /\ ValueAt(m, j) \in Values /\ w[j] \in Values
         /\ NeverThrows => ValueAt(m, j) = w[j]
PROOF
<1>1. PICK view : Represents(m, view) /\ Splits(view, w)  BY DEF Holds
<1> DEFINE b == BucketOf(j)
           p == PosOf(j)
           values == ValuesOf(m, b)
<1>2. b \in 1..Len(view) /\ p \in 1..Len(view[b])  BY <1>1, SplitsFacts
<1>3. view[b][p] = w[j] /\ w \in Seq(Values)  BY <1>1 DEF Splits
<1>4. values \in Seq(Values) /\ Shows(values, view[b])
  BY <1>1, <1>2, BucketFacts, FullBlocks DEF ValuesOf, RawOf, Cell
<1>5. ValueAt(m, j) = values[p]  BY DEF ValueAt
<1> HIDE DEF b, p, values
<1>6. Len(values) = Len(view[b]) /\ (NeverThrows => values = view[b])  BY <1>4 DEF Shows
<1> QED BY <1>2, <1>3, <1>4, <1>5, <1>6

-----------------------------------------------------------------------------
(* Folds *)

LEMMA Induction ==
  ASSUME NEW n \in Nat, NEW S, 0 \in S, \A k \in 0..(n - 1) : k \in S => k + 1 \in S
  PROVE  \A k \in 0..n : k \in S
PROOF
<1> DEFINE Wrong == {k \in 0..n : k \notin S}
<1>1. SUFFICES ASSUME Wrong # {} PROVE FALSE  OBVIOUS
<1>2. PICK k \in Wrong : \A j \in Wrong : k <= j
  <2>1. Wrong \subseteq Nat  OBVIOUS
  <2> HIDE DEF Wrong
  <2> QED BY <1>1, <2>1, LeastElement
<1>3. k \in 0..n /\ k \notin S /\ k # 0  BY <1>2
<1>4. k - 1 \in 0..(n - 1) /\ (k - 1) + 1 = k /\ k - 1 \in 0..n  BY <1>3
<1>5. k - 1 \notin S  BY <1>3, <1>4
<1>6. k - 1 \in Wrong  BY <1>4, <1>5
<1>7. k <= k - 1  BY <1>2, <1>6
<1> QED BY <1>3, <1>7

\* A whole block of the same value.
Copies(v) == [i \in 1..BlockSize |-> v]

\* The steps of the folds of the vector, one kind for each.
Do(kind, arg, acc, x) ==
  CASE kind = 1 -> EmplaceBack(acc, arg)
    [] kind = 2 -> AppendCompressed(acc, Copies(arg))
    [] kind = 3 -> RemoveBack(acc)
    [] kind = 4 -> RemoveBackBucket(acc)
    [] kind = 5 -> Visit(acc, x, arg[1], arg[2], arg[3] /\ x = arg[4])
    [] kind = 6 -> ShrinkContext(acc, x)
    [] kind = 7 -> CompressBlock(acc, x)
    [] kind = 8 -> AppendCompressed(acc, SubSeq(arg, (x - 1) * BlockSize + 1, x * BlockSize))
    [] kind = 9 -> acc + x.refs

\* A fold takes the elements of a set of numbers from the least one.
IsFold(g, kind, arg, base, s, n) ==
  g = [T \in SUBSET (1..n) |->
         IF T = {} THEN base ELSE Do(kind, arg, g[T \ {Max(T)}], s[Max(T)])]

LEMMA MaxOfUpTo ==
  ASSUME NEW n \in Nat, n > 0
  PROVE  Max(1..n) = n /\ (1..n) \ {Max(1..n)} = 1..(n - 1)
PROOF
<1>1. 1..n \subseteq 1..n /\ 1..n # {} /\ n \in 1..n  OBVIOUS
<1>2. Max(1..n) \in 1..n /\ \A y \in 1..n : y <= Max(1..n)  BY <1>1, GreatestElement
<1>3. Max(1..n) = n  BY <1>1, <1>2
<1> QED BY <1>3

LEMMA FoldExists ==
  ASSUME NEW kind, NEW arg, NEW base, NEW s, NEW n \in Nat
  PROVE  \E g : IsFold(g, kind, arg, base, s, n)
PROOF
<1> USE DEF IsFold
<1> DEFINE Is(g, k) == g = [T \in SUBSET (1..k) |->
             IF T = {} THEN base ELSE Do(kind, arg, g[T \ {Max(T)}], s[Max(T)])]
           S == {k \in 0..n : \E g : Is(g, k)}
<1>1. 0 \in S
  <2> DEFINE g == [T \in SUBSET (1..0) |-> base]
  <2>1. Is(g, 0)
    <3>1. \A T \in SUBSET (1..0) : T = {}  OBVIOUS
    <3> QED BY <3>1
  <2> HIDE DEF g, Is
  <2> QED BY <2>1
<1>2. ASSUME NEW k \in 0..(n - 1), k \in S PROVE k + 1 \in S
  <2>1. PICK f : Is(f, k)  BY <1>2
  <2> DEFINE Value(T) == IF T = {} THEN base ELSE Do(kind, arg, f[T \ {Max(T)}], s[Max(T)])
             g == [T \in SUBSET (1..(k + 1)) |-> Value(T)]
  <2>2. f = [T \in SUBSET (1..k) |-> Value(T)]  BY <2>1
  <2>3. ASSUME NEW T \in SUBSET (1..k) PROVE g[T] = f[T]
    <3>1. T \in SUBSET (1..(k + 1))  OBVIOUS
    <3>2. f[T] = Value(T)  BY <2>2
    <3>3. g[T] = Value(T)  BY <3>1
    <3> QED BY <3>2, <3>3
  <2>4. ASSUME NEW T \in SUBSET (1..(k + 1)), T # {}
        PROVE  T \ {Max(T)} \in SUBSET (1..k)
    <3>1. k + 1 \in Nat  OBVIOUS
    <3>2. Max(T) \in T /\ \A y \in T : y <= Max(T)
      <4>1. T \subseteq 1..(k + 1)  OBVIOUS
      <4> QED BY <2>4, <3>1, <4>1, GreatestElement
    <3> DEFINE top == Max(T)
    <3>3. top \in 1..(k + 1) /\ \A y \in T : y <= top /\ y \in 1..(k + 1)  BY <3>2
    <3> HIDE DEF top
    <3>4. \A y \in T \ {top} : y \in 1..k  BY <3>1, <3>3
    <3> QED BY <3>4 DEF top
  <2> HIDE DEF g, Value
  <2>5. ASSUME NEW T \in SUBSET (1..(k + 1)), T # {}
        PROVE  g[T \ {Max(T)}] = f[T \ {Max(T)}]
    BY <2>3, <2>4, <2>5
  <2>6. ASSUME NEW T \in SUBSET (1..(k + 1))
        PROVE  Value(T) = IF T = {} THEN base ELSE Do(kind, arg, g[T \ {Max(T)}], s[Max(T)])
    BY <2>5 DEF Value
  <2>7. Is(g, k + 1)  BY <2>6 DEF g
  <2>8. k + 1 \in 0..n  OBVIOUS
  <2> HIDE DEF Is
  <2> QED BY <2>7, <2>8
<1>3. n \in S
  <2> HIDE DEF S
  <2> QED BY <1>1, <1>2, Induction
<1> QED BY <1>3

\* The states of a fold, from the first.
Chain(h, kind, arg, base, s, n) ==
  h[0] = base /\ \A k \in 1..n : h[k] = Do(kind, arg, h[k - 1], s[k])

LEMMA FoldIsChain ==
  ASSUME NEW kind, NEW arg, NEW base, NEW s, NEW n \in Nat,
         NEW g, IsFold(g, kind, arg, base, s, n)
  PROVE  \E h : Chain(h, kind, arg, base, s, n) /\ h[n] = g[1..n]
PROOF
<1> DEFINE h == [k \in 0..n |-> g[1..k]]
<1>1. \A T \in SUBSET (1..n) :
        g[T] = IF T = {} THEN base ELSE Do(kind, arg, g[T \ {Max(T)}], s[Max(T)])
  BY DEF IsFold
<1>2. h[0] = base
  <2>1. 1..0 = {} /\ {} \in SUBSET (1..n)  OBVIOUS
  <2>2. g[{}] = base  BY <1>1, <2>1
  <2> QED BY <2>1, <2>2
<1>3. ASSUME NEW k \in 1..n PROVE h[k] = Do(kind, arg, h[k - 1], s[k])
  <2>1. 1..k \in SUBSET (1..n) /\ 1..k # {} /\ k \in 0..n /\ k - 1 \in 0..n  OBVIOUS
  <2>2. Max(1..k) = k /\ (1..k) \ {Max(1..k)} = 1..(k - 1)  BY MaxOfUpTo
  <2>3. g[1..k] = Do(kind, arg, g[(1..k) \ {Max(1..k)}], s[Max(1..k)])  BY <1>1, <2>1
  <2>4. g[1..k] = Do(kind, arg, g[1..(k - 1)], s[k])  BY <2>2, <2>3
  <2> QED BY <2>1, <2>4
<1>4. h[n] = g[1..n]  OBVIOUS
<1> HIDE DEF h
<1> QED BY <1>2, <1>3, <1>4 DEF Chain

LEMMA PushChain ==
  ASSUME NEW m, NEW n \in Nat, NEW v
  PROVE  \E h : /\ h[0] = m /\ \A k \in 1..n : h[k] = EmplaceBack(h[k - 1], v)
                /\ PushValues(m, n, v) = h[n]
PROOF
<1> DEFINE s == [i \in 1..n |-> i]
           Is(f) == f = [T \in SUBSET DOMAIN s |->
                           IF T = {} THEN m ELSE EmplaceBack(f[T \ {Max(T)}], v)]
           g == CHOOSE f : Is(f)
<1>1. PushValues(m, n, v) = g[DOMAIN s]  BY DEF PushValues, Repeat, FoldLeft, MapThenFoldSet
<1>2. \A acc, x : Do(1, v, acc, x) = EmplaceBack(acc, v)  BY DEF Do
<1>3. n \in Nat /\ DOMAIN s = 1..n /\ \A k \in 1..n : s[k] = k  OBVIOUS
<1> HIDE DEF s
<1>4. ASSUME NEW f PROVE Is(f) <=> IsFold(f, 1, v, m, s, n)
  <2> DEFINE F == [T \in SUBSET DOMAIN s |-> IF T = {} THEN m ELSE EmplaceBack(f[T \ {Max(T)}], v)]
             G == [T \in SUBSET (1..n) |->
                     IF T = {} THEN m ELSE Do(1, v, f[T \ {Max(T)}], s[Max(T)])]
  <2>1. F = G  BY <1>2, <1>3
  <2>2. Is(f) <=> f = F  OBVIOUS
  <2>3. IsFold(f, 1, v, m, s, n) <=> f = G  BY DEF IsFold
  <2> HIDE DEF F, G, Is
  <2> QED BY <2>1, <2>2, <2>3
<1> HIDE DEF Is
<1>5. \E f : Is(f)
  <2>1. \E f : IsFold(f, 1, v, m, s, n)  BY <1>3, FoldExists
  <2> QED BY <1>4, <2>1
<1>6. IsFold(g, 1, v, m, s, n)  BY <1>4, <1>5
<1> HIDE DEF g
<1>7. PICK h : Chain(h, 1, v, m, s, n) /\ h[n] = g[1..n]  BY <1>3, <1>6, FoldIsChain
<1> QED BY <1>1, <1>2, <1>3, <1>7 DEF Chain

LEMMA PopChain ==
  ASSUME NEW m, NEW n \in Nat
  PROVE  \E h : /\ h[0] = m /\ \A k \in 1..n : h[k] = RemoveBack(h[k - 1])
                /\ PopBacks(m, n) = h[n]
PROOF
<1> DEFINE s == [i \in 1..n |-> i]
           Is(f) == f = [T \in SUBSET DOMAIN s |->
                           IF T = {} THEN m ELSE RemoveBack(f[T \ {Max(T)}])]
           g == CHOOSE f : Is(f)
<1>1. PopBacks(m, n) = g[DOMAIN s]  BY DEF PopBacks, Repeat, FoldLeft, MapThenFoldSet
<1>2. \A acc, x : Do(3, m, acc, x) = RemoveBack(acc)  BY DEF Do
<1>3. n \in Nat /\ DOMAIN s = 1..n /\ \A k \in 1..n : s[k] = k  OBVIOUS
<1> HIDE DEF s
<1>4. ASSUME NEW f PROVE Is(f) <=> IsFold(f, 3, m, m, s, n)
  <2> DEFINE F == [T \in SUBSET DOMAIN s |-> IF T = {} THEN m ELSE RemoveBack(f[T \ {Max(T)}])]
             G == [T \in SUBSET (1..n) |->
                     IF T = {} THEN m ELSE Do(3, m, f[T \ {Max(T)}], s[Max(T)])]
  <2>1. F = G  BY <1>2, <1>3
  <2>2. Is(f) <=> f = F  OBVIOUS
  <2>3. IsFold(f, 3, m, m, s, n) <=> f = G  BY DEF IsFold
  <2> HIDE DEF F, G, Is
  <2> QED BY <2>1, <2>2, <2>3
<1> HIDE DEF Is
<1>5. \E f : Is(f)
  <2>1. \E f : IsFold(f, 3, m, m, s, n)  BY <1>3, FoldExists
  <2> QED BY <1>4, <2>1
<1>6. IsFold(g, 3, m, m, s, n)  BY <1>4, <1>5
<1> HIDE DEF g
<1>7. PICK h : Chain(h, 3, m, m, s, n) /\ h[n] = g[1..n]  BY <1>3, <1>6, FoldIsChain
<1> QED BY <1>1, <1>2, <1>3, <1>7 DEF Chain


-----------------------------------------------------------------------------
(* One wrapper, or two at the same time *)

\* The buckets b and other are referred to, once more each.
Opened(m, k, b, other) ==
  /\ Len(k.buckets) = Len(m.buckets) /\ k.size = m.size
  /\ \A a \in 1..Len(m.buckets) :
       /\ k.buckets[a].refs =
            m.buckets[a].refs + (IF a = b THEN 1 ELSE 0) + (IF a = other THEN 1 ELSE 0)
       /\ m.buckets[a].refs > 0 /\ m.buckets[a].raw # NoContext
            => k.buckets[a].raw = m.buckets[a].raw

LEMMA OpenedKeeps ==
  ASSUME NEW m, NEW view, Represents(m, view), NEW b, NEW other, NEW k, Opened(m, k, b, other),
         NEW e, NEW n, Keeps(k, n, e)
  PROVE  Opened(m, n, b, other)
PROOF
<1>1. Len(k.buckets) = Len(m.buckets) /\ Len(n.buckets) = Len(m.buckets) /\ n.size = m.size
      /\ Len(view) = Len(m.buckets)
  BY MemoryFacts DEF Opened, Keeps
<1>2. ASSUME NEW a \in 1..Len(m.buckets)
      PROVE  /\ n.buckets[a].refs =
                  m.buckets[a].refs + (IF a = b THEN 1 ELSE 0) + (IF a = other THEN 1 ELSE 0)
             /\ m.buckets[a].refs > 0 /\ m.buckets[a].raw # NoContext
                  => n.buckets[a].raw = m.buckets[a].raw
  <2>1. m.buckets[a].refs \in Nat  BY <1>1, BucketFacts DEF Bucket
  <2>2. /\ k.buckets[a].refs =
             m.buckets[a].refs + (IF a = b THEN 1 ELSE 0) + (IF a = other THEN 1 ELSE 0)
        /\ m.buckets[a].refs > 0 /\ m.buckets[a].raw # NoContext
             => k.buckets[a].raw = m.buckets[a].raw
    BY DEF Opened
  <2>3. /\ n.buckets[a].refs = k.buckets[a].refs
        /\ k.buckets[a].refs > 0 /\ k.buckets[a].raw # NoContext
             => n.buckets[a].raw = k.buckets[a].raw
    BY <1>1 DEF Keeps
  <2>4. m.buckets[a].refs > 0 => k.buckets[a].refs > 0  BY <2>1, <2>2
  <2> QED BY <2>2, <2>3, <2>4
<1> QED BY <1>1, <1>2 DEF Opened

\* The bucket of value i is decompressed with a reference to it.
LEMMA OpenHolds ==
  ASSUME NEW m, NEW w, Holds(m, w), NEW i \in 1..Len(w), NEW b, b = BucketOf(i),
         NEW n, n = DecompressBucket(Ref(m, b), b, NoContext)
  PROVE  Holds(n, w) /\ Decompressed(n, i) /\ Opened(m, n, b, 0)
PROOF
<1>1. PICK view : Represents(m, view) /\ Splits(view, w)  BY DEF Holds
<1> DEFINE l == Ref(m, b)
<1>2. b \in 1..Len(view) /\ Solid(view) /\ Len(view) = Len(m.buckets)
  BY <1>1, SplitsFacts, MemoryFacts
<1>3. /\ Represents(l, view) /\ Referred(m, l)
      /\ \A a \in 1..Len(view) : l.buckets[a].refs = m.buckets[a].refs + (IF a = b THEN 1 ELSE 0)
  BY <1>1, <1>2, RefShows
<1> HIDE DEF l
<1>4. Represents(n, view) /\ Keeps(l, n, NoContext) /\ n.buckets[b].raw # NoContext
  BY <1>2, <1>3, DecompressShows DEF l
<1>5. Opened(m, l, b, 0)
  <2>1. \A a \in 1..Len(view) : a # 0 /\ m.buckets[a].refs \in Nat
    BY <1>1, BucketFacts DEF Bucket
  <2>2. \A a \in 1..Len(view) : l.buckets[a].refs =
           m.buckets[a].refs + (IF a = b THEN 1 ELSE 0) + (IF a = 0 THEN 1 ELSE 0)
    BY <1>3, <2>1
  <2> QED BY <1>2, <1>3, <2>2 DEF Opened, Referred
<1>6. Opened(m, n, b, 0)  BY <1>1, <1>4, <1>5, OpenedKeeps
<1>7. m.size = Len(w)  BY DEF Holds
<1> QED BY <1>1, <1>4, <1>6, <1>7 DEF Holds, Decompressed, Opened

LEMMA CloseHolds ==
  ASSUME NEW m, NEW w, NEW b \in Nat, b # 0, Holds(m, w), NEW k, Opened(m, k, b, 0),
         NEW j, j.buckets = k.buckets, NEW t, Holds(j, t), Len(t) = Len(w),
         b <= Len(m.buckets),
         NEW n, n = Unref(j, b)
  PROVE  Holds(n, t) /\ Keeps(m, n, NoContext)
PROOF
<1>1. PICK view : Represents(m, view) /\ Splits(view, w)  BY DEF Holds
<1>2. PICK shown : Represents(j, shown) /\ Splits(shown, t) /\ j.size = Len(t)  BY DEF Holds
<1>3. Len(j.buckets) = Len(m.buckets) /\ Len(view) = Len(m.buckets) /\ Len(shown) = Len(j.buckets)
      /\ Len(m.buckets) \in Nat
  BY <1>1, <1>2, MemoryFacts DEF Opened
<1>4. b \in 1..Len(shown)  BY <1>3
<1>5. ASSUME NEW a \in 1..Len(m.buckets)
      PROVE  /\ m.buckets[a].refs \in Nat /\ a # 0
             /\ j.buckets[a].refs = m.buckets[a].refs + (IF a = b THEN 1 ELSE 0)
  <2>1. m.buckets[a].refs \in Nat /\ a # 0  BY <1>1, <1>3, BucketFacts DEF Bucket
  <2>2. j.buckets[a].refs =
          m.buckets[a].refs + (IF a = b THEN 1 ELSE 0) + (IF a = 0 THEN 1 ELSE 0)
    BY DEF Opened
  <2> QED BY <2>1, <2>2
<1>6. j.buckets[b].refs > 0  BY <1>3, <1>4, <1>5
<1>7. /\ Represents(n, shown) /\ Referred(j, n)
      /\ \A a \in 1..Len(shown) : n.buckets[a].refs = j.buckets[a].refs - (IF a = b THEN 1 ELSE 0)
  BY <1>2, <1>4, <1>6, UnrefShows
<1>8. \A a \in 1..Len(m.buckets) : n.buckets[a].refs = m.buckets[a].refs  BY <1>3, <1>5, <1>7
<1>9. n.size = j.size /\ Len(n.buckets) = Len(m.buckets)  BY <1>3, <1>7 DEF Referred
<1>11. n.size = m.size  BY <1>2, <1>9 DEF Holds
<1>10. Holds(n, t)  BY <1>2, <1>7, <1>9 DEF Holds
<1>12. ASSUME NEW a \in 1..Len(m.buckets), m.buckets[a].refs > 0, m.buckets[a].raw # NoContext
       PROVE  n.buckets[a].raw = m.buckets[a].raw
  <2>1. n.buckets[a].raw = j.buckets[a].raw  BY <1>3, <1>7 DEF Referred
  <2> QED BY <1>12, <2>1 DEF Opened
<1> QED BY <1>8, <1>9, <1>10, <1>11, <1>12 DEF Keeps

LEMMA SetHolds ==
  ASSUME NEW m, NEW w, Holds(m, w), NEW i \in 1..Len(w), NEW v \in Values,
         NEW n, n = SetValue(m, i, v)
  PROVE  Holds(n, [w EXCEPT ![i] = v]) /\ Keeps(m, n, NoContext)
PROOF
<1> DEFINE b == BucketOf(i)
           k == DecompressBucket(Ref(m, b), b, NoContext)
           c == k.buckets[b].raw
           l == MarkDirty(k, c)
           j == Write(l, i, v)
           t == [w EXCEPT ![i] = v]
<1>1. b \in Nat /\ b # 0 /\ b <= Len(m.buckets)
  <2>1. PICK view : Represents(m, view) /\ Splits(view, w)  BY DEF Holds
  <2> QED BY <2>1, SplitsFacts, MemoryFacts
<1>2. n = Unref(WriteAndMark(k, i, v), b)  BY DEF SetValue
<1>3. b = BucketOf(i) /\ k = DecompressBucket(Ref(m, b), b, NoContext)
      /\ c = k.buckets[BucketOf(i)].raw /\ l = MarkDirty(k, c) /\ j = Write(l, i, v)
      /\ t = [w EXCEPT ![i] = v]
  OBVIOUS
<1> HIDE DEF b, k, c, l, j, t
<1>4. Holds(k, w) /\ Decompressed(k, i) /\ Opened(m, k, b, 0)  BY <1>3, OpenHolds
<1>5. WriteAndMark(k, i, v) = j
  <2>1. PICK view : Represents(k, view) /\ Splits(view, w)  BY <1>4 DEF Holds
  <2>2. c \in DOMAIN k.contexts
    BY <1>3, <1>4, <2>1, SplitsFacts, BucketFacts DEF Decompressed
  <2> QED BY <1>3, <2>1, <2>2, WriteAndMarkIsMarkAndWrite
<1>6. Holds(l, w) /\ l.buckets = k.buckets /\ Writable(l, i)  BY <1>3, <1>4, MarkHolds
<1>7. Writes(l, w, i, v, v, t, j)  BY <1>3, <1>6 DEF Writes
<1>8. Holds(j, t) /\ j.buckets = l.buckets /\ Len(t) = Len(w)  BY <1>7, WriteHolds
<1>9. Holds(n, t) /\ Keeps(m, n, NoContext)
  BY <1>1, <1>2, <1>4, <1>5, <1>6, <1>8, CloseHolds
<1> QED BY <1>3, <1>9

\* Two buckets are decompressed with a reference to each.
LEMMA OpenBothHolds ==
  ASSUME NEW m, NEW w, Holds(m, w), NEW i \in 1..Len(w), NEW j \in 1..Len(w),
         NEW b, b = BucketOf(i), NEW other, other = BucketOf(j),
         NEW n, n = DecompressBoth(m, b, other)
  PROVE  Holds(n, w) /\ Decompressed(n, i) /\ Decompressed(n, j) /\ Opened(m, n, b, other)
PROOF
<1>1. PICK view : Represents(m, view) /\ Splits(view, w)  BY DEF Holds
<1> DEFINE f == Ref(m, b)
           l == Ref(f, other)
           e == m.buckets[other].raw
           k == DecompressBucket(l, b, e)
           d == k.buckets[b].raw
<1>2. b \in 1..Len(view) /\ other \in 1..Len(view) /\ Solid(view) /\ Len(view) = Len(m.buckets)
  BY <1>1, SplitsFacts, MemoryFacts
<1>3. n = DecompressBucket(k, other, d)  BY DEF DecompressBoth, RawOf
<1>4. l = Ref(f, other) /\ k = DecompressBucket(l, b, e) /\ d = k.buckets[b].raw  OBVIOUS
<1>5. /\ Represents(f, view) /\ Referred(m, f)
      /\ \A a \in 1..Len(view) : f.buckets[a].refs = m.buckets[a].refs + (IF a = b THEN 1 ELSE 0)
  BY <1>1, <1>2, RefShows
<1> HIDE DEF f, l, e, k, d
<1>6. /\ Represents(l, view) /\ Referred(f, l)
      /\ \A a \in 1..Len(view) : l.buckets[a].refs = f.buckets[a].refs + (IF a = other THEN 1 ELSE 0)
  BY <1>2, <1>4, <1>5, RefShows
<1>7. Represents(k, view) /\ Keeps(l, k, e) /\ k.buckets[b].raw # NoContext
  BY <1>2, <1>4, <1>6, DecompressShows
<1>8. Represents(n, view) /\ Keeps(k, n, d) /\ n.buckets[other].raw # NoContext
  BY <1>2, <1>3, <1>7, DecompressShows
<1>9. n.buckets[b].raw # NoContext
  <2>1. Len(k.buckets) = Len(view)  BY <1>7, MemoryFacts
  <2> QED BY <1>2, <1>4, <1>7, <1>8, <2>1 DEF Keeps
<1>10. Opened(m, l, b, other)
  <2>1. \A a \in 1..Len(view) : m.buckets[a].refs \in Nat
    BY <1>1, BucketFacts DEF Bucket
  <2>2. \A a \in 1..Len(view) : l.buckets[a].refs =
           m.buckets[a].refs + (IF a = b THEN 1 ELSE 0) + (IF a = other THEN 1 ELSE 0)
    BY <1>5, <1>6, <2>1
  <2>3. Len(f.buckets) = Len(m.buckets)  BY <1>5 DEF Referred
  <2> QED BY <1>2, <1>5, <1>6, <2>2, <2>3 DEF Opened, Referred
<1>11. Opened(m, k, b, other)  BY <1>1, <1>7, <1>10, OpenedKeeps
<1>12. Opened(m, n, b, other)  BY <1>1, <1>8, <1>11, OpenedKeeps
<1>13. m.size = Len(w)  BY DEF Holds
<1> QED BY <1>1, <1>8, <1>9, <1>12, <1>13 DEF Holds, Decompressed, Opened

LEMMA CloseBothHolds ==
  ASSUME NEW m, NEW w, Holds(m, w), NEW b \in 1..Len(m.buckets), NEW other \in 1..Len(m.buckets),
         NEW k, Opened(m, k, b, other),
         NEW j, j.buckets = k.buckets, NEW t, Holds(j, t), Len(t) = Len(w),
         NEW n, n = UnrefBoth(j, b, other)
  PROVE  Holds(n, t) /\ Keeps(m, n, NoContext)
PROOF
<1>1. PICK view : Represents(m, view) /\ Splits(view, w)  BY DEF Holds
<1>2. PICK shown : Represents(j, shown) /\ Splits(shown, t) /\ j.size = Len(t)  BY DEF Holds
<1>3. Len(j.buckets) = Len(m.buckets) /\ Len(view) = Len(m.buckets) /\ Len(shown) = Len(j.buckets)
      /\ Len(m.buckets) \in Nat
  BY <1>1, <1>2, MemoryFacts DEF Opened
<1>4. b \in 1..Len(shown) /\ other \in 1..Len(shown)  BY <1>3
<1>5. \A a \in 1..Len(shown) :
        /\ m.buckets[a].refs \in Nat
        /\ j.buckets[a].refs =
             m.buckets[a].refs + (IF a = b THEN 1 ELSE 0) + (IF a = other THEN 1 ELSE 0)
  BY <1>1, <1>3, BucketFacts DEF Bucket, Opened
<1> DEFINE f == Unref(j, b)
<1>6. n = Unref(f, other)  BY DEF UnrefBoth
<1> HIDE DEF f
<1>7. /\ Represents(f, shown) /\ Referred(j, f)
      /\ \A a \in 1..Len(shown) : f.buckets[a].refs = j.buckets[a].refs - (IF a = b THEN 1 ELSE 0)
  <2>1. j.buckets[b].refs > 0  BY <1>4, <1>5
  <2> QED BY <1>2, <1>4, <2>1, UnrefShows DEF f
<1>8. \A a \in 1..Len(shown) :
        /\ m.buckets[a].refs \in Nat
        /\ f.buckets[a].refs = m.buckets[a].refs + (IF a = other THEN 1 ELSE 0)
  <2> TAKE a \in 1..Len(shown)
  <2> DEFINE r == m.buckets[a].refs
             s == j.buckets[a].refs
             z == f.buckets[a].refs
  <2>1. r \in Nat /\ s = r + (IF a = b THEN 1 ELSE 0) + (IF a = other THEN 1 ELSE 0)  BY <1>5
  <2>2. z = s - (IF a = b THEN 1 ELSE 0)  BY <1>7
  <2> HIDE DEF r, s, z
  <2>3. z = r + (IF a = other THEN 1 ELSE 0)  BY <2>1, <2>2
  <2> QED BY <2>1, <2>3 DEF r, z
<1>9. /\ Represents(n, shown) /\ Referred(f, n)
      /\ \A a \in 1..Len(shown) : n.buckets[a].refs = f.buckets[a].refs - (IF a = other THEN 1 ELSE 0)
  <2>1. f.buckets[other].refs > 0  BY <1>4, <1>8
  <2> QED BY <1>4, <1>6, <1>7, <2>1, UnrefShows
<1>10. \A a \in 1..Len(m.buckets) : n.buckets[a].refs = m.buckets[a].refs
  <2> TAKE a \in 1..Len(m.buckets)
  <2> DEFINE r == m.buckets[a].refs
             s == f.buckets[a].refs
             z == n.buckets[a].refs
  <2>1. a \in 1..Len(shown)  BY <1>3
  <2>2. r \in Nat /\ s = r + (IF a = other THEN 1 ELSE 0)  BY <1>8, <2>1
  <2>3. z = s - (IF a = other THEN 1 ELSE 0)  BY <1>9, <2>1
  <2> HIDE DEF r, s, z
  <2>4. z = r  BY <2>2, <2>3
  <2> QED BY <2>4 DEF r, z
<1>11. n.size = j.size /\ Len(n.buckets) = Len(m.buckets) /\ Len(f.buckets) = Len(m.buckets)
  BY <1>3, <1>7, <1>9 DEF Referred
<1>12. n.size = m.size  BY <1>2, <1>11 DEF Holds
<1>13. Holds(n, t)  BY <1>2, <1>9, <1>11 DEF Holds
<1>14. ASSUME NEW a \in 1..Len(m.buckets), m.buckets[a].refs > 0, m.buckets[a].raw # NoContext
       PROVE  n.buckets[a].raw = m.buckets[a].raw
  <2>1. n.buckets[a].raw = f.buckets[a].raw  BY <1>9, <1>11 DEF Referred
  <2>2. f.buckets[a].raw = j.buckets[a].raw  BY <1>3, <1>7 DEF Referred
  <2> QED BY <1>14, <2>1, <2>2 DEF Opened
<1> QED BY <1>10, <1>11, <1>12, <1>13, <1>14 DEF Keeps

LEMMA AssignHolds ==
  ASSUME NEW m, NEW w, Holds(m, w), NEW to \in 1..Len(w), NEW from \in 1..Len(w),
         NEW n, n = AssignValue(m, to, from)
  PROVE  Holds(n, [w EXCEPT ![to] = w[from]]) /\ Keeps(m, n, NoContext)
PROOF
<1> DEFINE b == BucketOf(to)
           other == BucketOf(from)
           k == DecompressBoth(m, b, other)
           l == MarkDirty(k, k.buckets[BucketOf(to)].raw)
           v == ValueAt(k, from)
           j == Write(l, to, v)
           t == [w EXCEPT ![to] = w[from]]
<1>1. b \in 1..Len(m.buckets) /\ other \in 1..Len(m.buckets)
  <2>1. PICK view : Represents(m, view) /\ Splits(view, w)  BY DEF Holds
  <2> QED BY <2>1, SplitsFacts, MemoryFacts
<1>2. n = UnrefBoth(j, b, other)  BY DEF AssignValue, CopyValue, RawOf
<1>3. b = BucketOf(to) /\ other = BucketOf(from) /\ k = DecompressBoth(m, b, other)
      /\ l = MarkDirty(k, k.buckets[BucketOf(to)].raw) /\ j = Write(l, to, v)
      /\ t = [w EXCEPT ![to] = w[from]] /\ v = ValueAt(k, from)
  OBVIOUS
<1> HIDE DEF b, other, k, l, v, j, t
<1>4. Holds(k, w) /\ Decompressed(k, to) /\ Opened(m, k, b, other)  BY <1>3, OpenBothHolds
<1>5. Holds(l, w) /\ l.buckets = k.buckets /\ Writable(l, to)  BY <1>3, <1>4, MarkHolds
<1>6. v \in Values /\ w[from] \in Values /\ (NeverThrows => w[from] = v)  BY <1>3, <1>4, ValueAtIs
<1>7. Writes(l, w, to, v, w[from], t, j)  BY <1>3, <1>5, <1>6 DEF Writes
<1>8. Holds(j, t) /\ j.buckets = l.buckets /\ Len(t) = Len(w)  BY <1>7, WriteHolds
<1>9. Holds(n, t) /\ Keeps(m, n, NoContext)  BY <1>1, <1>2, <1>4, <1>5, <1>8, CloseBothHolds
<1> QED BY <1>3, <1>9

LEMMA SwapHolds ==
  ASSUME NEW m, NEW w, Holds(m, w), NEW i \in 1..Len(w), NEW j \in 1..Len(w),
         NEW n, n = SwapValues(m, i, j)
  PROVE  Holds(n, [w EXCEPT ![i] = w[j], ![j] = w[i]]) /\ Keeps(m, n, NoContext)
PROOF
<1> DEFINE b == BucketOf(i)
           other == BucketOf(j)
           k == DecompressBoth(m, b, other)
           f == MarkDirty(k, k.buckets[BucketOf(i)].raw)
           l == MarkDirty(f, k.buckets[BucketOf(j)].raw)
           v == ValueAt(k, j)
           u == ValueAt(k, i)
           g == Write(l, i, v)
           h == Write(g, j, u)
           s == [w EXCEPT ![i] = w[j]]
           t == [s EXCEPT ![j] = w[i]]
<1>1. b \in 1..Len(m.buckets) /\ other \in 1..Len(m.buckets)
  <2>1. PICK view : Represents(m, view) /\ Splits(view, w)  BY DEF Holds
  <2> QED BY <2>1, SplitsFacts, MemoryFacts
<1>2. n = UnrefBoth(h, b, other)
  <2>1. MarkBoth(k, b, other) = l  BY DEF MarkBoth, RawOf
  <2> HIDE DEF l
  <2>2. ExchangeValues(k, i, j) = h  BY <2>1 DEF ExchangeValues
  <2> HIDE DEF h, k
  <2> QED BY <2>2 DEF SwapValues, k
<1>3. b = BucketOf(i) /\ other = BucketOf(j) /\ k = DecompressBoth(m, b, other)
      /\ f = MarkDirty(k, k.buckets[BucketOf(i)].raw)
      /\ l = MarkDirty(f, k.buckets[BucketOf(j)].raw)
      /\ v = ValueAt(k, j) /\ u = ValueAt(k, i) /\ g = Write(l, i, v) /\ h = Write(g, j, u)
      /\ s = [w EXCEPT ![i] = w[j]] /\ t = [s EXCEPT ![j] = w[i]]
  OBVIOUS
<1>10. t = [w EXCEPT ![i] = w[j], ![j] = w[i]]  OBVIOUS
<1> HIDE DEF b, other, k, f, l, v, u, g, h, s, t
<1>4. Holds(k, w) /\ Decompressed(k, i) /\ Decompressed(k, j) /\ Opened(m, k, b, other)
  BY <1>3, OpenBothHolds
<1>5. Holds(f, w) /\ f.buckets = k.buckets /\ Writable(f, i)  BY <1>3, <1>4, MarkHolds
<1>6. Decompressed(f, j) /\ l = MarkDirty(f, f.buckets[BucketOf(j)].raw)
  BY <1>3, <1>4, <1>5 DEF Decompressed
<1>7. Holds(l, w) /\ l.buckets = k.buckets /\ Writable(l, i) /\ Writable(l, j)
  BY <1>5, <1>6, MarkHolds
<1>8. /\ v \in Values /\ w[j] \in Values /\ (NeverThrows => w[j] = v)
      /\ u \in Values /\ w[i] \in Values /\ (NeverThrows => w[i] = u)
  BY <1>3, <1>4, ValueAtIs
<1>9. Writes(l, w, i, v, w[j], s, g)  BY <1>3, <1>7, <1>8 DEF Writes
<1>11. Holds(g, s) /\ g.buckets = l.buckets /\ Len(s) = Len(w) /\ Writable(g, j)
  BY <1>7, <1>9, WriteHolds
<1>12. Writes(g, s, j, u, w[i], t, h)  BY <1>3, <1>8, <1>11 DEF Writes
<1>13. Holds(h, t) /\ h.buckets = g.buckets /\ Len(t) = Len(s)  BY <1>12, WriteHolds
<1>14. Holds(n, t) /\ Keeps(m, n, NoContext)
  BY <1>1, <1>2, <1>4, <1>7, <1>11, <1>13, CloseBothHolds
<1> QED BY <1>10, <1>14

-----------------------------------------------------------------------------
(* for_each *)

\* The values of bucket b at some positions of the vector become v.
Filled(block, b, written, v) ==
  [p \in 1..Len(block) |-> IF (b - 1) * BlockSize + p \in written THEN v ELSE block[p]]

\* Only a functor that writes nothing, or throws, ends a visit early.
MayEnd(written, ended) == ended => written = {} \/ ~NeverThrows

LEMMA FilledIs ==
  ASSUME NEW block \in Seq(Values), NEW b, NEW written, NEW v \in Values
  PROVE  /\ Filled(block, b, written, v) \in Seq(Values)
         /\ Len(Filled(block, b, written, v)) = Len(block)
         /\ \A p \in 1..Len(block) : Filled(block, b, written, v)[p] =
              IF (b - 1) * BlockSize + p \in written THEN v ELSE block[p]
         /\ written = {} => Filled(block, b, written, v) = block
PROOF
<1> DEFINE filled == Filled(block, b, written, v)
<1>1. Len(block) \in Nat /\ \A p \in 1..Len(block) : block[p] \in Values  OBVIOUS
<1>2. \A p \in 1..Len(block) :
        filled[p] = IF (b - 1) * BlockSize + p \in written THEN v ELSE block[p]
  BY DEF Filled
<1>3. filled \in Seq(Values) /\ Len(filled) = Len(block)
  <2>1. filled \in [1..Len(block) -> Values]  BY <1>1 DEF Filled
  <2> HIDE DEF filled
  <2> QED BY <1>1, <2>1
<1>4. ASSUME written = {} PROVE filled = block
  <2>1. \A p \in 1..Len(block) : filled[p] = block[p]  BY <1>2, <1>4
  <2> HIDE DEF filled
  <2> QED BY <1>3, <2>1, SameValues
<1> QED BY <1>2, <1>3, <1>4

LEMMA ChangedAgain ==
  ASSUME NEW m, NEW c \in DOMAIN m.contexts, NEW x, NEW s, NEW l,
         NEW a, a = ContextChanged(m, c, x, s, l)
  PROVE  /\ IsRecord(a) /\ c \in DOMAIN a.contexts /\ a.contexts[c] = x /\ a.buckets = m.buckets
         /\ a.size = s /\ a.live = l
         /\ \A y, f, t : ContextChanged(a, c, y, f, t) = ContextChanged(m, c, y, f, t)
BY DEF IsRecord, ContextChanged

\* Two fields of a memory change.
LEMMA ContextsAndLive ==
  ASSUME NEW m, IsRecord(m), NEW g, NEW l
  PROVE  [m EXCEPT !.contexts = g, !.live = l] =
           [buckets |-> m.buckets, contexts |-> g, order |-> m.order, size |-> m.size, live |-> l]
PROOF
<1> DEFINE n == [m EXCEPT !.contexts = g]
<1>1. n = [buckets |-> m.buckets, contexts |-> g, order |-> m.order, size |-> m.size, live |-> m.live]
  BY DEF IsRecord
<1>2. [m EXCEPT !.contexts = g, !.live = l] = [n EXCEPT !.live = l]  OBVIOUS
<1> HIDE DEF n
<1>3. [n EXCEPT !.live = l] =
        [buckets |-> m.buckets, contexts |-> g, order |-> m.order, size |-> m.size, live |-> l]
  BY <1>1
<1> QED BY <1>2, <1>3

\* The compressed buffer of a context is freed.
FreedBuffer(m, c) == [m EXCEPT !.contexts[c].buffer = Null, !.live = @ - 1]

LEMMA BufferFreedIs ==
  ASSUME NEW m, IsRecord(m), NEW c \in DOMAIN m.contexts,
         NEW d, NEW t, NEW b, NEW u,
         m.contexts[c] = [data |-> d, dirty |-> t, block_index |-> b, buffer |-> u],
         NEW x, x = [data |-> d, dirty |-> t, block_index |-> b, buffer |-> Null]
  PROVE  FreedBuffer(m, c) = ContextChanged(m, c, x, m.size, m.live - 1)
PROOF
<1> DEFINE g == [m.contexts EXCEPT ![c].buffer = Null]
           l == m.live - 1
<1>1. FreedBuffer(m, c) = [m EXCEPT !.contexts = g, !.live = l]
  <2>1. FreedBuffer(m, c) = [m EXCEPT !.contexts[c].buffer = Null, !.live = l]  BY DEF FreedBuffer
  <2> HIDE DEF l
  <2>2. [m EXCEPT !.contexts[c].buffer = Null, !.live = l] = [m EXCEPT !.contexts = g, !.live = l]
    BY DEF IsRecord
  <2> QED BY <2>1, <2>2
<1>2. g = [m.contexts EXCEPT ![c] = x]
  <2>1. x = [m.contexts[c] EXCEPT !.buffer = Null]  OBVIOUS
  <2> QED BY <2>1
<1> HIDE DEF g, l
<1>3. [m EXCEPT !.contexts = g, !.live = l] =
        [buckets |-> m.buckets, contexts |-> g, order |-> m.order, size |-> m.size, live |-> l]
  BY ContextsAndLive
<1> QED BY <1>1, <1>2, <1>3 DEF ContextChanged, l

LEMMA DataChangedIs ==
  ASSUME NEW m, IsRecord(m), NEW c \in DOMAIN m.contexts, NEW D,
         NEW x, x = [m.contexts[c] EXCEPT !.data = D]
  PROVE  [m EXCEPT !.contexts[c].data = D] = ContextChanged(m, c, x, m.size, m.live)
BY DEF IsRecord, ContextChanged

LEMMA MarkAndFreeIs ==
  ASSUME NEW m, IsRecord(m), NEW c \in DOMAIN m.contexts,
         NEW y, y = m.contexts[c], y.block_index # 0,
         y = [data |-> y.data, dirty |-> y.dirty, block_index |-> y.block_index, buffer |-> y.buffer]
  PROVE  MarkDirtyAndFree(m, c) =
           ContextChanged(m, c, [data |-> y.data, dirty |-> TRUE, block_index |-> y.block_index, buffer |-> Null],
                          m.size, IF y.buffer = Null THEN m.live ELSE m.live - 1)
PROOF
<1> DEFINE x == [m.contexts[c] EXCEPT !.dirty = TRUE,
                   !.buffer = IF m.contexts[c].buffer = Null THEN Null ELSE Stale]
           l == MarkDirty(m, c)
           z == [data |-> y.data, dirty |-> TRUE, block_index |-> y.block_index, buffer |-> Null]
<1>1. l = ContextChanged(m, c, x, m.size, m.live)  BY MarkDirtyIs
<1>2. /\ IsRecord(l) /\ c \in DOMAIN l.contexts /\ l.contexts[c] = x /\ l.size = m.size /\ l.live = m.live
      /\ \A f, s, t : ContextChanged(l, c, f, s, t) = ContextChanged(m, c, f, s, t)
  <2> HIDE DEF l, x
  <2> QED BY <1>1, ChangedAgain
<1> DEFINE u == IF m.contexts[c].buffer = Null THEN Null ELSE Stale
<1>3. x = [data |-> y.data, dirty |-> TRUE, block_index |-> y.block_index, buffer |-> u]
  <2>1. x = [y EXCEPT !.dirty = TRUE, !.buffer = u]  OBVIOUS
  <2> HIDE DEF u, x
  <2> QED BY <2>1
<1>4. y.buffer = Null => u = Null  OBVIOUS
<1>5. MarkDirtyAndFree(m, c) = IF y.buffer = Null THEN l ELSE FreedBuffer(l, c)
  BY DEF MarkDirtyAndFree, FreedBuffer
<1>6. z = [data |-> y.data, dirty |-> TRUE, block_index |-> y.block_index, buffer |-> Null]
  OBVIOUS
<1> HIDE DEF l, x, z, u
<1>7. CASE y.buffer = Null
  <2>1. x = z  BY <1>3, <1>4, <1>6, <1>7
  <2> QED BY <1>1, <1>5, <1>7, <2>1 DEF z
<1>8. CASE y.buffer # Null
  <2> DEFINE d == y.data
             b == y.block_index
             t == TRUE
  <2>1. l.contexts[c] = [data |-> d, dirty |-> t, block_index |-> b, buffer |-> u]
        /\ z = [data |-> d, dirty |-> t, block_index |-> b, buffer |-> Null]
    BY <1>2, <1>3, <1>6
  <2> HIDE DEF d, b, t
  <2>2. FreedBuffer(l, c) = ContextChanged(l, c, z, l.size, l.live - 1)
    BY <1>2, <2>1, BufferFreedIs
  <2>3. MarkDirtyAndFree(m, c) = ContextChanged(m, c, z, m.size, m.live - 1)
    BY <1>2, <1>5, <1>8, <2>2
  <2> QED BY <1>8, <2>3 DEF z
<1> QED BY <1>7, <1>8

LEMMA VisitShows ==
  ASSUME NEW m, NEW view, Represents(m, view), Solid(view), NEW b \in 1..Len(view),
         NEW written, NEW v \in Values, NEW ended \in BOOLEAN, MayEnd(written, ended),
         NEW shown, shown = [view EXCEPT ![b] = Filled(view[b], b, written, v)],
         NEW n, n = Visit(m, b, written, v, ended)
  PROVE  Represents(n, shown) /\ Keeps(m, n, NoContext)
PROOF
<1> DEFINE k == DecompressBucket(m, b, NoContext)
           c == k.buckets[b].raw
           y == k.contexts[c]
           D == [p \in DOMAIN y.data |->
                   IF (b - 1) * BlockSize + p \in written THEN v ELSE y.data[p]]
           x == IF ended THEN [y EXCEPT !.data = D]
                ELSE [data |-> D, dirty |-> TRUE, block_index |-> b, buffer |-> Null]
           l == IF ended \/ y.buffer = Null THEN k.live ELSE k.live - 1
<1>1. n = LeaveBucket(WriteAll(k, b, written, v), b, ended)  BY DEF Visit
<1>2. k = DecompressBucket(m, b, NoContext) /\ c = k.buckets[b].raw /\ y = k.contexts[c]  OBVIOUS
<1> HIDE DEF k, c
<1>3. Represents(k, view) /\ Keeps(m, k, NoContext) /\ c # NoContext
  BY <1>2, DecompressShows
<1>4. c \in DOMAIN k.contexts /\ y.block_index = b /\ y \in Cell /\ b # 0
      /\ Shows(y.data, view[b]) /\ (y.dirty \/ Saved(y))
  BY <1>2, <1>3, BucketFacts
<1>5. IsMemory(k) /\ IsRecord(k) /\ k.size \in Int /\ k.live \in Int /\ view[b] \in Seq(Values)
      /\ Len(view[b]) <= BlockSize /\ view \in Seq(Seq(Values))
      /\ k.contexts \in [DOMAIN k.contexts -> Cell]
  BY <1>3, MemoryFacts, Constants DEF IsMemory
<1>6. y.data \in Seq(Values) /\ y.dirty \in BOOLEAN /\ y.buffer \in Blocks
      /\ y = [data |-> y.data, dirty |-> y.dirty, block_index |-> b, buffer |-> y.buffer]
  BY <1>4 DEF Cell
<1>7. D = Filled(y.data, b, written, v)
  <2>1. DOMAIN y.data = 1..Len(y.data)  BY <1>6
  <2> QED BY <2>1 DEF Filled
<1>8. D \in Seq(Values) /\ Len(D) = Len(y.data) /\ (written = {} => D = y.data)
      /\ (NeverThrows => D = Filled(view[b], b, written, v))
      /\ Len(Filled(view[b], b, written, v)) = Len(view[b])
      /\ Filled(view[b], b, written, v) \in Seq(Values)
  BY <1>4, <1>5, <1>6, <1>7, FilledIs DEF Shows
<1>9. n = ContextChanged(k, c, x, k.size, l)
  <2> HIDE DEF D
  <2> DEFINE z == [data |-> D, dirty |-> y.dirty, block_index |-> b, buffer |-> y.buffer]
             a == ContextChanged(k, c, z, k.size, k.live)
  <2>1. WriteAll(k, b, written, v) = a
    <3>1. WriteAll(k, b, written, v) = [k EXCEPT !.contexts[c].data = D]
      BY <1>2 DEF WriteAll, RawOf, D
    <3>2. [y EXCEPT !.data = D] = z  BY <1>6
    <3> HIDE DEF z
    <3>3. [k EXCEPT !.contexts[c].data = D] = a
      BY <1>4, <1>5, <3>2, DataChangedIs
    <3> QED BY <3>1, <3>3
  <2>2. CASE ended
    <3>1. n = a  BY <1>1, <2>1, <2>2 DEF LeaveBucket
    <3>2. x = z  BY <1>6, <2>2
    <3>3. l = k.live  BY <2>2
    <3> HIDE DEF x, z, l
    <3> QED BY <3>1, <3>2, <3>3
  <2>3. CASE ~ended
    <3>1. x = [data |-> D, dirty |-> TRUE, block_index |-> b, buffer |-> Null]  BY <2>3
    <3>2. l = IF y.buffer = Null THEN k.live ELSE k.live - 1  BY <2>3
    <3>3. z.block_index = b /\ z.buffer = y.buffer /\ z.data = D
          /\ z = [data |-> z.data, dirty |-> z.dirty, block_index |-> z.block_index, buffer |-> z.buffer]
      OBVIOUS
    <3> HIDE DEF a, x, z, l, y
    <3>4. /\ IsRecord(a) /\ c \in DOMAIN a.contexts /\ a.contexts[c] = z /\ a.buckets = k.buckets
          /\ a.size = k.size /\ a.live = k.live
          /\ \A f, s, t : ContextChanged(a, c, f, s, t) = ContextChanged(k, c, f, s, t)
      <4>1. a = ContextChanged(k, c, z, k.size, k.live)  BY DEF a
      <4>2. c \in DOMAIN k.contexts  BY <1>4
      <4> QED BY <4>1, <4>2, ChangedAgain
    <3>5. n = MarkDirtyAndFree(a, c)  BY <1>1, <1>2, <2>1, <2>3, <3>4 DEF LeaveBucket, RawOf
    <3>6. MarkDirtyAndFree(a, c) = ContextChanged(a, c,
            [data |-> z.data, dirty |-> TRUE, block_index |-> z.block_index, buffer |-> Null],
            a.size, IF z.buffer = Null THEN a.live ELSE a.live - 1)
      BY <1>4, <3>3, <3>4, MarkAndFreeIs
    <3>7. MarkDirtyAndFree(a, c) = ContextChanged(a, c, x, k.size, l)
      BY <3>1, <3>2, <3>3, <3>4, <3>6
    <3> QED BY <3>4, <3>5, <3>7
  <2> QED BY <2>2, <2>3
<1>10. x \in Cell /\ x.block_index = b /\ x.data = D
  <2>1. b \in Nat  BY <1>3, MemoryFacts
  <2>2. x = IF ended THEN [data |-> D, dirty |-> y.dirty, block_index |-> b, buffer |-> y.buffer]
            ELSE [data |-> D, dirty |-> TRUE, block_index |-> b, buffer |-> Null]
    <3>1. CASE ended
      <4>1. x = [y EXCEPT !.data = D]  BY <3>1
      <4> HIDE DEF x, D, y
      <4> QED BY <1>6, <3>1, <4>1
    <3>2. CASE ~ended  BY <3>2
    <3> HIDE DEF x, D, y
    <3> QED BY <3>1, <3>2
  <2> HIDE DEF x, D, y
  <2> QED BY <1>6, <1>8, <2>1, <2>2, NoBlocks DEF Cell
<1>11. x.dirty \/ Saved(x)
  <2>1. CASE ~ended  BY <2>1
  <2>2. CASE ended
    <3>1. x.dirty = y.dirty /\ x.buffer = y.buffer  BY <1>6, <2>2
    <3>2. NeverThrows => x.data = y.data  BY <1>8, <1>10, <2>2 DEF MayEnd
    <3> HIDE DEF x
    <3> QED BY <1>4, <1>8, <1>10, <3>1, <3>2 DEF Saved
  <2> QED BY <2>1, <2>2
<1>12. l \in Int /\ l + Count(y.buffer # Null) = k.live + Count(x.buffer # Null)
  <2>1. CASE ended
    <3>1. x.buffer = y.buffer /\ l = k.live  BY <1>6, <2>1
    <3> QED BY <1>5, <3>1
  <2>2. CASE ~ended
    <3>1. x.buffer = Null /\ l = IF y.buffer = Null THEN k.live ELSE k.live - 1  BY <2>2
    <3> HIDE DEF x, l, y
    <3> QED BY <1>5, <3>1 DEF Count
  <2> QED BY <2>1, <2>2
<1>13. shown \in Seq(Seq(Values)) /\ Len(shown) = Len(view)
       /\ shown[b] = Filled(view[b], b, written, v)
       /\ \A a \in 1..Len(view) : a # b => shown[a] = view[a]
  <2> DEFINE F == Filled(view[b], b, written, v)
  <2>1. F \in Seq(Values) /\ shown = [view EXCEPT ![b] = F]  BY <1>8
  <2> HIDE DEF F
  <2> QED BY <1>5, <2>1 DEF F
<1> HIDE DEF D, x, l
<1>14. n.size = k.size /\ n.live = l /\ n.buckets = k.buckets  BY <1>9 DEF ContextChanged
<1>15. SameBut(view, shown, b)  BY <1>5, <1>8, <1>13 DEF SameBut
<1>16. Shows(x.data, shown[b])  BY <1>4, <1>8, <1>10, <1>13 DEF Shows
<1>17. ContextStep(k, view, b, c, x, shown, n)
  BY <1>2, <1>3, <1>4, <1>5, <1>9, <1>10, <1>11, <1>12, <1>14, <1>15, <1>16 DEF ContextStep
<1>18. Represents(n, shown)  BY <1>17, ContextChanges
<1>19. Keeps(k, n, NoContext)  BY <1>14, KeepsSame
<1> QED BY <1>3, <1>18, <1>19, KeepsTwice

-----------------------------------------------------------------------------
(* The folds of the vector *)

\* The buckets that VisitAll visits, in order.
Visited(first, last, backward) ==
  LET up == [k \in 1..(BucketOf(last) - BucketOf(first) + 1) |-> BucketOf(first) + k - 1]
  IN  IF backward THEN Reverse(up) ELSE up

\* The memories before and after each visit.
Visits(h, m, visited, written, v, ended, n) ==
  /\ h[0] = m
  /\ \A k \in 1..n :
       h[k] = Visit(h[k - 1], visited[k], written, v, ended /\ visited[k] = Last(visited))

LEMMA VisitChain ==
  ASSUME NEW m, NEW first, NEW last, NEW written, NEW v, NEW backward, NEW ended,
         NEW n \in Nat, DOMAIN Visited(first, last, backward) = 1..n,
         NEW visited, visited = Visited(first, last, backward)
  PROVE  \E h : /\ Visits(h, m, visited, written, v, ended, n)
                /\ VisitAll(m, first, last, written, v, backward, ended) = h[n]
PROOF
<1> DEFINE s == visited
           Is(f) == f = [T \in SUBSET DOMAIN s |->
                           IF T = {} THEN m ELSE Visit(f[T \ {Max(T)}], s[Max(T)], written, v, ended /\ s[Max(T)] = Last(visited))]
           g == CHOOSE f : Is(f)
<1>1. VisitAll(m, first, last, written, v, backward, ended) = g[DOMAIN s]  BY DEF VisitAll, Visited, FoldLeft, MapThenFoldSet
<1>2. \A acc, x : Do(5, <<written, v, ended, Last(visited)>>, acc, x) = Visit(acc, x, written, v, ended /\ x = Last(visited))  BY DEF Do
<1>3. n \in Nat /\ DOMAIN s = 1..n  OBVIOUS
<1> HIDE DEF s
<1>4. ASSUME NEW f PROVE Is(f) <=> IsFold(f, 5, <<written, v, ended, Last(visited)>>, m, s, n)
  <2> DEFINE F == [T \in SUBSET DOMAIN s |-> IF T = {} THEN m ELSE Visit(f[T \ {Max(T)}], s[Max(T)], written, v, ended /\ s[Max(T)] = Last(visited))]
             G == [T \in SUBSET (1..n) |->
                     IF T = {} THEN m ELSE Do(5, <<written, v, ended, Last(visited)>>, f[T \ {Max(T)}], s[Max(T)])]
  <2>1. F = G  BY <1>2, <1>3
  <2>2. Is(f) <=> f = F  OBVIOUS
  <2>3. IsFold(f, 5, <<written, v, ended, Last(visited)>>, m, s, n) <=> f = G  BY DEF IsFold
  <2> HIDE DEF F, G, Is
  <2> QED BY <2>1, <2>2, <2>3
<1> HIDE DEF Is
<1>5. \E f : Is(f)
  <2>1. \E f : IsFold(f, 5, <<written, v, ended, Last(visited)>>, m, s, n)  BY <1>3, FoldExists
  <2> QED BY <1>4, <2>1
<1>6. IsFold(g, 5, <<written, v, ended, Last(visited)>>, m, s, n)  BY <1>4, <1>5
<1> HIDE DEF g
<1>7. PICK h : Chain(h, 5, <<written, v, ended, Last(visited)>>, m, s, n) /\ h[n] = g[1..n]  BY <1>3, <1>6, FoldIsChain
<1> QED BY <1>1, <1>2, <1>3, <1>7 DEF Chain, s, Visits

LEMMA WholeChain ==
  ASSUME NEW m, NEW size, NEW v, NEW n \in Nat, n = DivUp(size - BlockSize - m.size, BlockSize)
  PROVE  \E h : /\ h[0] = m /\ \A k \in 1..n : h[k] = AppendCompressed(h[k - 1], Copies(v))
                /\ AppendWhole(m, size, v) = h[n]
PROOF
<1> DEFINE s == [i \in 1..n |-> i]
           Is(f) == f = [T \in SUBSET DOMAIN s |->
                           IF T = {} THEN m ELSE AppendCompressed(f[T \ {Max(T)}], Copies(v))]
           g == CHOOSE f : Is(f)
<1>1. AppendWhole(m, size, v) = g[DOMAIN s]  BY DEF AppendWhole, Repeat, Copies, FoldLeft, MapThenFoldSet
<1>2. \A acc, x : Do(2, v, acc, x) = AppendCompressed(acc, Copies(v))  BY DEF Do
<1>3. n \in Nat /\ DOMAIN s = 1..n /\ \A k \in 1..n : s[k] = k  OBVIOUS
<1> HIDE DEF s
<1>4. ASSUME NEW f PROVE Is(f) <=> IsFold(f, 2, v, m, s, n)
  <2> DEFINE F == [T \in SUBSET DOMAIN s |-> IF T = {} THEN m ELSE AppendCompressed(f[T \ {Max(T)}], Copies(v))]
             G == [T \in SUBSET (1..n) |->
                     IF T = {} THEN m ELSE Do(2, v, f[T \ {Max(T)}], s[Max(T)])]
  <2>1. F = G  BY <1>2, <1>3
  <2>2. Is(f) <=> f = F  OBVIOUS
  <2>3. IsFold(f, 2, v, m, s, n) <=> f = G  BY DEF IsFold
  <2> HIDE DEF F, G, Is
  <2> QED BY <2>1, <2>2, <2>3
<1> HIDE DEF Is
<1>5. \E f : Is(f)
  <2>1. \E f : IsFold(f, 2, v, m, s, n)  BY <1>3, FoldExists
  <2> QED BY <1>4, <2>1
<1>6. IsFold(g, 2, v, m, s, n)  BY <1>4, <1>5
<1> HIDE DEF g
<1>7. PICK h : Chain(h, 2, v, m, s, n) /\ h[n] = g[1..n]  BY <1>3, <1>6, FoldIsChain
<1> QED BY <1>1, <1>2, <1>3, <1>7 DEF Chain

LEMMA DropChain ==
  ASSUME NEW m, NEW size, NEW n \in Nat, ~(m.size <= BlockSize),
         n = DivUp(m.size - size - BlockSize, BlockSize)
  PROVE  \E h : /\ h[0] = m /\ \A k \in 1..n : h[k] = RemoveBackBucket(h[k - 1])
                /\ DropBuckets(m, size) = h[n]
PROOF
<1> DEFINE s == [i \in 1..n |-> i]
           Is(f) == f = [T \in SUBSET DOMAIN s |->
                           IF T = {} THEN m ELSE RemoveBackBucket(f[T \ {Max(T)}])]
           g == CHOOSE f : Is(f)
<1>1. DropBuckets(m, size) = g[DOMAIN s]  BY DEF DropBuckets, Repeat, FoldLeft, MapThenFoldSet
<1>2. \A acc, x : Do(4, m, acc, x) = RemoveBackBucket(acc)  BY DEF Do
<1>3. n \in Nat /\ DOMAIN s = 1..n /\ \A k \in 1..n : s[k] = k  OBVIOUS
<1> HIDE DEF s
<1>4. ASSUME NEW f PROVE Is(f) <=> IsFold(f, 4, m, m, s, n)
  <2> DEFINE F == [T \in SUBSET DOMAIN s |-> IF T = {} THEN m ELSE RemoveBackBucket(f[T \ {Max(T)}])]
             G == [T \in SUBSET (1..n) |->
                     IF T = {} THEN m ELSE Do(4, m, f[T \ {Max(T)}], s[Max(T)])]
  <2>1. F = G  BY <1>2, <1>3
  <2>2. Is(f) <=> f = F  OBVIOUS
  <2>3. IsFold(f, 4, m, m, s, n) <=> f = G  BY DEF IsFold
  <2> HIDE DEF F, G, Is
  <2> QED BY <2>1, <2>2, <2>3
<1> HIDE DEF Is
<1>5. \E f : Is(f)
  <2>1. \E f : IsFold(f, 4, m, m, s, n)  BY <1>3, FoldExists
  <2> QED BY <1>4, <2>1
<1>6. IsFold(g, 4, m, m, s, n)  BY <1>4, <1>5
<1> HIDE DEF g
<1>7. PICK h : Chain(h, 4, m, m, s, n) /\ h[n] = g[1..n]  BY <1>3, <1>6, FoldIsChain
<1> QED BY <1>1, <1>2, <1>3, <1>7 DEF Chain

\* The loop of shrink_to_fit.
ShrinkLoop(m) == FoldLeft(ShrinkContext, [m |-> m, kept |-> <<>>], m.order)

LEMMA ShrinkChain ==
  ASSUME NEW m, NEW n \in Nat, DOMAIN m.order = 1..n
  PROVE  \E h : /\ h[0] = [m |-> m, kept |-> <<>>] /\ \A k \in 1..n : h[k] = ShrinkContext(h[k - 1], m.order[k])
                /\ ShrinkLoop(m) = h[n]
PROOF
<1> DEFINE s == m.order
           Is(f) == f = [T \in SUBSET DOMAIN s |->
                           IF T = {} THEN [m |-> m, kept |-> <<>>] ELSE ShrinkContext(f[T \ {Max(T)}], s[Max(T)])]
           g == CHOOSE f : Is(f)
<1>1. ShrinkLoop(m) = g[DOMAIN s]  BY DEF ShrinkLoop, FoldLeft, MapThenFoldSet
<1>2. \A acc, x : Do(6, m, acc, x) = ShrinkContext(acc, x)  BY DEF Do
<1>3. n \in Nat /\ DOMAIN s = 1..n  OBVIOUS
<1> HIDE DEF s
<1>4. ASSUME NEW f PROVE Is(f) <=> IsFold(f, 6, m, [m |-> m, kept |-> <<>>], s, n)
  <2> DEFINE F == [T \in SUBSET DOMAIN s |-> IF T = {} THEN [m |-> m, kept |-> <<>>] ELSE ShrinkContext(f[T \ {Max(T)}], s[Max(T)])]
             G == [T \in SUBSET (1..n) |->
                     IF T = {} THEN [m |-> m, kept |-> <<>>] ELSE Do(6, m, f[T \ {Max(T)}], s[Max(T)])]
  <2>1. F = G  BY <1>2, <1>3
  <2>2. Is(f) <=> f = F  OBVIOUS
  <2>3. IsFold(f, 6, m, [m |-> m, kept |-> <<>>], s, n) <=> f = G  BY DEF IsFold
  <2> HIDE DEF F, G, Is
  <2> QED BY <2>1, <2>2, <2>3
<1> HIDE DEF Is
<1>5. \E f : Is(f)
  <2>1. \E f : IsFold(f, 6, m, [m |-> m, kept |-> <<>>], s, n)  BY <1>3, FoldExists
  <2> QED BY <1>4, <2>1
<1>6. IsFold(g, 6, m, [m |-> m, kept |-> <<>>], s, n)  BY <1>4, <1>5
<1> HIDE DEF g
<1>7. PICK h : Chain(h, 6, m, [m |-> m, kept |-> <<>>], s, n) /\ h[n] = g[1..n]  BY <1>3, <1>6, FoldIsChain
<1> QED BY <1>1, <1>2, <1>3, <1>7 DEF Chain, s

LEMMA CompressChain ==
  ASSUME NEW m, NEW n \in Nat, 1..(Len(m.buckets) - 1) = 1..n
  PROVE  \E h : /\ h[0] = m /\ \A k \in 1..n : h[k] = CompressBlock(h[k - 1], k)
                /\ CompressAllButBack(m) = h[n]
PROOF
<1> DEFINE s == [b \in 1..(Len(m.buckets) - 1) |-> b]
           Is(f) == f = [T \in SUBSET DOMAIN s |->
                           IF T = {} THEN m ELSE CompressBlock(f[T \ {Max(T)}], s[Max(T)])]
           g == CHOOSE f : Is(f)
<1>1. CompressAllButBack(m) = g[DOMAIN s]  BY DEF CompressAllButBack, FoldLeft, MapThenFoldSet
<1>2. \A acc, x : Do(7, m, acc, x) = CompressBlock(acc, x)  BY DEF Do
<1>3. n \in Nat /\ DOMAIN s = 1..n /\ \A k \in 1..n : s[k] = k  OBVIOUS
<1> HIDE DEF s
<1>4. ASSUME NEW f PROVE Is(f) <=> IsFold(f, 7, m, m, s, n)
  <2> DEFINE F == [T \in SUBSET DOMAIN s |-> IF T = {} THEN m ELSE CompressBlock(f[T \ {Max(T)}], s[Max(T)])]
             G == [T \in SUBSET (1..n) |->
                     IF T = {} THEN m ELSE Do(7, m, f[T \ {Max(T)}], s[Max(T)])]
  <2>1. F = G  BY <1>2, <1>3
  <2>2. Is(f) <=> f = F  OBVIOUS
  <2>3. IsFold(f, 7, m, m, s, n) <=> f = G  BY DEF IsFold
  <2> HIDE DEF F, G, Is
  <2> QED BY <2>1, <2>2, <2>3
<1> HIDE DEF Is
<1>5. \E f : Is(f)
  <2>1. \E f : IsFold(f, 7, m, m, s, n)  BY <1>3, FoldExists
  <2> QED BY <1>4, <2>1
<1>6. IsFold(g, 7, m, m, s, n)  BY <1>4, <1>5
<1> HIDE DEF g
<1>7. PICK h : Chain(h, 7, m, m, s, n) /\ h[n] = g[1..n]  BY <1>3, <1>6, FoldIsChain
<1> QED BY <1>1, <1>2, <1>3, <1>7 DEF Chain

\* The whole blocks of a frame, in an empty vector.
Loaded(m, values) ==
  FoldLeft(LAMBDA acc, b : AppendCompressed(acc, SubSeq(values, (b - 1) * BlockSize + 1, b * BlockSize)),
           Cleared(m), [b \in 1..(Len(values) \div BlockSize) |-> b])

LEMMA LoadChain ==
  ASSUME NEW m, NEW values, NEW n \in Nat, n = Len(values) \div BlockSize
  PROVE  \E h : /\ h[0] = Cleared(m) /\ \A k \in 1..n : h[k] = AppendCompressed(h[k - 1], SubSeq(values, (k - 1) * BlockSize + 1, k * BlockSize))
                /\ Loaded(m, values) = h[n]
PROOF
<1> DEFINE s == [b \in 1..(Len(values) \div BlockSize) |-> b]
           Is(f) == f = [T \in SUBSET DOMAIN s |->
                           IF T = {} THEN Cleared(m) ELSE AppendCompressed(f[T \ {Max(T)}], SubSeq(values, (s[Max(T)] - 1) * BlockSize + 1, s[Max(T)] * BlockSize))]
           g == CHOOSE f : Is(f)
<1>1. Loaded(m, values) = g[DOMAIN s]  BY DEF Loaded, FoldLeft, MapThenFoldSet
<1>2. \A acc, x : Do(8, values, acc, x) = AppendCompressed(acc, SubSeq(values, (x - 1) * BlockSize + 1, x * BlockSize))  BY DEF Do
<1>3. n \in Nat /\ DOMAIN s = 1..n /\ \A k \in 1..n : s[k] = k  OBVIOUS
<1> HIDE DEF s
<1>4. ASSUME NEW f PROVE Is(f) <=> IsFold(f, 8, values, Cleared(m), s, n)
  <2> DEFINE F == [T \in SUBSET DOMAIN s |-> IF T = {} THEN Cleared(m) ELSE AppendCompressed(f[T \ {Max(T)}], SubSeq(values, (s[Max(T)] - 1) * BlockSize + 1, s[Max(T)] * BlockSize))]
             G == [T \in SUBSET (1..n) |->
                     IF T = {} THEN Cleared(m) ELSE Do(8, values, f[T \ {Max(T)}], s[Max(T)])]
  <2>1. F = G  BY <1>2, <1>3
  <2>2. Is(f) <=> f = F  OBVIOUS
  <2>3. IsFold(f, 8, values, Cleared(m), s, n) <=> f = G  BY DEF IsFold
  <2> HIDE DEF F, G, Is
  <2> QED BY <2>1, <2>2, <2>3
<1> HIDE DEF Is
<1>5. \E f : Is(f)
  <2>1. \E f : IsFold(f, 8, values, Cleared(m), s, n)  BY <1>3, FoldExists
  <2> QED BY <1>4, <2>1
<1>6. IsFold(g, 8, values, Cleared(m), s, n)  BY <1>4, <1>5
<1> HIDE DEF g
<1>7. PICK h : Chain(h, 8, values, Cleared(m), s, n) /\ h[n] = g[1..n]  BY <1>3, <1>6, FoldIsChain
<1> QED BY <1>1, <1>2, <1>3, <1>7 DEF Chain

LEMMA ReferencesChain ==
  ASSUME NEW n \in Nat, DOMAIN d_buckets = 1..n
  PROVE  \E h : /\ h[0] = 0 /\ \A k \in 1..n : h[k] = h[k - 1] + d_buckets[k].refs
                /\ References = h[n]
PROOF
<1> DEFINE s == d_buckets
           Is(f) == f = [T \in SUBSET DOMAIN s |->
                           IF T = {} THEN 0 ELSE f[T \ {Max(T)}] + s[Max(T)].refs]
           g == CHOOSE f : Is(f)
<1>1. References = g[DOMAIN s]  BY DEF References, FoldLeft, MapThenFoldSet
<1>2. \A acc, x : Do(9, 0, acc, x) = acc + x.refs  BY DEF Do
<1>3. n \in Nat /\ DOMAIN s = 1..n  OBVIOUS
<1> HIDE DEF s
<1>4. ASSUME NEW f PROVE Is(f) <=> IsFold(f, 9, 0, 0, s, n)
  <2> DEFINE F == [T \in SUBSET DOMAIN s |-> IF T = {} THEN 0 ELSE f[T \ {Max(T)}] + s[Max(T)].refs]
             G == [T \in SUBSET (1..n) |->
                     IF T = {} THEN 0 ELSE Do(9, 0, f[T \ {Max(T)}], s[Max(T)])]
  <2>1. F = G  BY <1>2, <1>3
  <2>2. Is(f) <=> f = F  OBVIOUS
  <2>3. IsFold(f, 9, 0, 0, s, n) <=> f = G  BY DEF IsFold
  <2> HIDE DEF F, G, Is
  <2> QED BY <2>1, <2>2, <2>3
<1> HIDE DEF Is
<1>5. \E f : Is(f)
  <2>1. \E f : IsFold(f, 9, 0, 0, s, n)  BY <1>3, FoldExists
  <2> QED BY <1>4, <2>1
<1>6. IsFold(g, 9, 0, 0, s, n)  BY <1>4, <1>5
<1> HIDE DEF g
<1>7. PICK h : Chain(h, 9, 0, 0, s, n) /\ h[n] = g[1..n]  BY <1>3, <1>6, FoldIsChain
<1> QED BY <1>1, <1>2, <1>3, <1>7 DEF Chain, s


-----------------------------------------------------------------------------
(* for_each, all the buckets *)

LEMMA VisitedFacts ==
  ASSUME NEW first \in Nat, first > 0, NEW last \in Nat, first <= last, NEW backward \in BOOLEAN,
         NEW n, n = BucketOf(last) - BucketOf(first) + 1,
         NEW visited, visited = Visited(first, last, backward)
  PROVE  /\ n \in Nat /\ DOMAIN visited = 1..n
         /\ \A k \in 1..n : visited[k] \in BucketOf(first)..BucketOf(last)
         /\ \A b \in BucketOf(first)..BucketOf(last) : \E k \in 1..n : visited[k] = b
PROOF
<1> DEFINE f == BucketOf(first)
           l == BucketOf(last)
           up == [k \in 1..n |-> f + k - 1]
<1>1. f \in Nat /\ l \in Nat /\ f <= l  BY Position, PositionOrder
<1>2. visited = IF backward THEN Reverse(up) ELSE up  BY DEF Visited
<1>3. n = l - f + 1  OBVIOUS
<1> HIDE DEF f, l
<1>4. n \in Nat  BY <1>1, <1>3
<1>5. up \in Seq(Nat) /\ Len(up) = n /\ DOMAIN up = 1..n /\ \A k \in 1..n : up[k] = f + k - 1
  BY <1>1, <1>4
<1> HIDE DEF up
<1>6. CASE ~backward
  <2>1. visited = up  BY <1>2, <1>6
  <2>2. \A k \in 1..n : visited[k] \in f..l  BY <1>1, <1>3, <1>5, <2>1
  <2>3. ASSUME NEW b \in f..l PROVE \E k \in 1..n : visited[k] = b
    <3>1. b - f + 1 \in 1..n /\ f + (b - f + 1) - 1 = b  BY <1>1, <1>3
    <3> QED BY <1>5, <2>1, <3>1
  <2> QED BY <1>4, <1>5, <2>1, <2>2, <2>3 DEF f, l
<1>7. CASE backward
  <2>1. visited = [k \in 1..n |-> up[(n - k) + 1]]  BY <1>2, <1>5, <1>7 DEF Reverse
  <2>2. \A k \in 1..n : visited[k] = l - k + 1
    <3>1. \A k \in 1..n : (n - k) + 1 \in 1..n /\ f + ((n - k) + 1) - 1 = l - k + 1
      BY <1>1, <1>3, <1>4
    <3> QED BY <1>5, <2>1, <3>1
  <2>3. \A k \in 1..n : visited[k] \in f..l  BY <1>1, <1>3, <2>2
  <2>4. ASSUME NEW b \in f..l PROVE \E k \in 1..n : visited[k] = b
    <3>1. l - b + 1 \in 1..n /\ l - (l - b + 1) + 1 = b  BY <1>1, <1>3
    <3> QED BY <2>2, <3>1
  <2> QED BY <1>4, <2>1, <2>3, <2>4 DEF f, l
<1> QED BY <1>6, <1>7

\* The blocks after some buckets were visited.
Painted(view, V, written, v) ==
  [b \in 1..Len(view) |-> IF b \in V THEN Filled(view[b], b, written, v) ELSE view[b]]

LEMMA PaintedFacts ==
  ASSUME NEW view \in Seq(Seq(Values)), NEW V, NEW written, NEW v \in Values,
         NEW shown, shown = Painted(view, V, written, v)
  PROVE  /\ shown \in Seq(Seq(Values)) /\ Len(shown) = Len(view)
         /\ \A b \in 1..Len(view) :
              /\ shown[b] = IF b \in V THEN Filled(view[b], b, written, v) ELSE view[b]
              /\ shown[b] \in Seq(Values) /\ Len(shown[b]) = Len(view[b])
              /\ \A p \in 1..Len(view[b]) : shown[b][p] =
                   IF b \in V /\ (b - 1) * BlockSize + p \in written THEN v ELSE view[b][p]
PROOF
<1>1. Len(view) \in Nat /\ \A b \in 1..Len(view) : view[b] \in Seq(Values)  OBVIOUS
<1>2. \A b \in 1..Len(view) :
        /\ Filled(view[b], b, written, v) \in Seq(Values)
        /\ Len(Filled(view[b], b, written, v)) = Len(view[b])
        /\ \A p \in 1..Len(view[b]) : Filled(view[b], b, written, v)[p] =
             IF (b - 1) * BlockSize + p \in written THEN v ELSE view[b][p]
  BY <1>1, FilledIs
<1>3. \A b \in 1..Len(view) :
        shown[b] = IF b \in V THEN Filled(view[b], b, written, v) ELSE view[b]
  BY DEF Painted
<1>4. shown \in [1..Len(view) -> Seq(Values)]  BY <1>1, <1>2 DEF Painted
<1>5. shown \in Seq(Seq(Values)) /\ Len(shown) = Len(view)  BY <1>1, <1>4, SequenceOf
<1>6. \A b \in 1..Len(view) :
              /\ shown[b] \in Seq(Values) /\ Len(shown[b]) = Len(view[b])
              /\ \A p \in 1..Len(view[b]) : shown[b][p] =
                   IF b \in V /\ (b - 1) * BlockSize + p \in written THEN v ELSE view[b][p]
  BY <1>1, <1>2, <1>3
<1> QED BY <1>3, <1>5, <1>6

LEMMA FilledTwice ==
  ASSUME NEW block \in Seq(Values), NEW b, NEW written, NEW v \in Values
  PROVE  Filled(Filled(block, b, written, v), b, written, v) = Filled(block, b, written, v)
PROOF
<1> DEFINE f == Filled(block, b, written, v)
           g == Filled(f, b, written, v)
<1>1. f \in Seq(Values) /\ Len(f) = Len(block)
      /\ \A p \in 1..Len(block) : f[p] = IF (b - 1) * BlockSize + p \in written THEN v ELSE block[p]
  BY FilledIs
<1>2. g \in Seq(Values) /\ Len(g) = Len(f)
      /\ \A p \in 1..Len(f) : g[p] = IF (b - 1) * BlockSize + p \in written THEN v ELSE f[p]
  <2> HIDE DEF f
  <2> QED BY <1>1, FilledIs
<1> HIDE DEF f, g
<1>3. \A p \in 1..Len(g) : g[p] = f[p]  BY <1>1, <1>2
<1>4. g = f  BY <1>1, <1>2, <1>3, SameValues
<1> QED BY <1>4 DEF f, g

\* One bucket more is visited.
PaintStep(view, V, written, v, b, shown, s, W) ==
  /\ view \in Seq(Seq(Values)) /\ v \in Values /\ b \in 1..Len(view)
  /\ shown = Painted(view, V, written, v)
  /\ s = [shown EXCEPT ![b] = Filled(shown[b], b, written, v)] /\ W = V \union {b}

LEMMA PaintOneMore ==
  ASSUME NEW view, NEW V, NEW written, NEW v, NEW b, NEW shown, NEW s, NEW W,
         PaintStep(view, V, written, v, b, shown, s, W)
  PROVE  s = Painted(view, W, written, v)
PROOF
<1> USE DEF PaintStep
<1> DEFINE t == Painted(view, W, written, v)
<1> DEFINE F == Filled(shown[b], b, written, v)
<1>1. /\ shown \in Seq(Seq(Values)) /\ Len(shown) = Len(view)
      /\ \A a \in 1..Len(view) :
           shown[a] = IF a \in V THEN Filled(view[a], a, written, v) ELSE view[a]
      /\ \A a \in 1..Len(view) : shown[a] \in Seq(Values)
  BY PaintedFacts
<1>2. /\ t \in Seq(Seq(Values)) /\ Len(t) = Len(view)
      /\ \A a \in 1..Len(view) :
           t[a] = IF a \in V \union {b} THEN Filled(view[a], a, written, v) ELSE view[a]
  BY PaintedFacts
<1>3. F = Filled(view[b], b, written, v)
  <2>1. view[b] \in Seq(Values)  OBVIOUS
  <2>2. CASE b \in V  BY <1>1, <2>1, <2>2, FilledTwice
  <2>3. CASE b \notin V  BY <1>1, <2>3
  <2> QED BY <2>2, <2>3
<1>4. F \in Seq(Values) /\ s = [shown EXCEPT ![b] = F]  BY <1>1, FilledIs
<1> HIDE DEF F
<1>5. s \in Seq(Seq(Values)) /\ Len(s) = Len(shown) /\ s[b] = F
      /\ \A a \in 1..Len(shown) : a # b => s[a] = shown[a]
  BY <1>1, <1>4
<1>6. \A a \in 1..Len(s) : s[a] = t[a]  BY <1>1, <1>2, <1>3, <1>5
<1> DEFINE B == Seq(Values)
<1>7. s \in Seq(B) /\ t \in Seq(B) /\ Len(s) = Len(t)  BY <1>1, <1>2, <1>5
<1> HIDE DEF B, t
<1>8. s = t  BY <1>6, <1>7, SameValues
<1> QED BY <1>8 DEF t

\* The range that is visited.
VisitStep(m, w, first, last, written, v, backward, ended, t, n) ==
  /\ Holds(m, w) /\ first \in 1..Len(w) /\ last \in 1..Len(w) /\ first <= last
  /\ written \subseteq first..last /\ v \in Values
  /\ backward \in BOOLEAN /\ ended \in BOOLEAN /\ MayEnd(written, ended)
  /\ t = [i \in DOMAIN w |-> IF i \in written THEN v ELSE w[i]]
  /\ n = VisitAll(m, first, last, written, v, backward, ended)

LEMMA VisitAllHolds ==
  ASSUME NEW m, NEW w, NEW first, NEW last, NEW written, NEW v, NEW backward, NEW ended, NEW t,
         NEW n, VisitStep(m, w, first, last, written, v, backward, ended, t, n)
  PROVE  Holds(n, t) /\ Keeps(m, n, NoContext)
PROOF
<1> USE DEF VisitStep
<1>1. PICK view : Represents(m, view) /\ Splits(view, w)  BY DEF Holds
<1> DEFINE N == BucketOf(last) - BucketOf(first) + 1
           visited == Visited(first, last, backward)
<1>2. w \in Seq(Values) /\ Len(w) \in Nat /\ DOMAIN w = 1..Len(w) /\ view \in Seq(Seq(Values))
      /\ first \in Nat /\ first > 0 /\ last \in Nat /\ first <= last
      /\ BucketOf(first) \in Nat /\ BucketOf(last) \in Nat
      /\ BucketOf(first) >= 1 /\ BucketOf(last) <= Len(view) /\ Len(view) \in Nat /\ Solid(view)
  <2>1. w \in Seq(Values) /\ view \in Seq(Seq(Values)) /\ Len(w) \in Nat /\ Len(view) \in Nat
        /\ Solid(view)
    BY <1>1, SplitsFacts DEF Splits
  <2>2. first \in 1..Len(w) /\ last \in 1..Len(w) /\ first <= last  OBVIOUS
  <2> HIDE DEF VisitStep
  <2>3. BucketOf(first) \in 1..Len(view) /\ BucketOf(last) \in 1..Len(view)
    BY <1>1, <2>2, SplitsFacts
  <2> QED BY <2>1, <2>2, <2>3
<1>3. /\ N \in Nat /\ DOMAIN visited = 1..N
      /\ \A k \in 1..N : visited[k] \in BucketOf(first)..BucketOf(last)
      /\ \A b \in BucketOf(first)..BucketOf(last) : \E k \in 1..N : visited[k] = b
  <2> HIDE DEF VisitStep
  <2>1. backward \in BOOLEAN  BY DEF VisitStep
  <2> QED BY <1>2, <2>1, VisitedFacts
<1>4. visited = Visited(first, last, backward)  OBVIOUS
<1> HIDE DEF N, visited, VisitStep
<1>5. PICK h : /\ Visits(h, m, visited, written, v, ended, N)
               /\ VisitAll(m, first, last, written, v, backward, ended) = h[N]
  BY <1>3, <1>4, VisitChain
<1>6. v \in Values /\ ended \in BOOLEAN /\ MayEnd(written, ended) /\ n = h[N]
      /\ written \subseteq first..last
  BY <1>5 DEF VisitStep
<1> DEFINE Seen(k) == {visited[j] : j \in 1..k}
           S == {k \in 0..N : Represents(h[k], Painted(view, Seen(k), written, v)) /\ Keeps(m, h[k], NoContext)}
<1>7. 0 \in S
  <2>1. Painted(view, Seen(0), written, v) = view
    <3> DEFINE s == Painted(view, Seen(0), written, v)
    <3>1. \A b \in 1..Len(view) : b \notin Seen(0)  OBVIOUS
    <3> HIDE DEF Seen
    <3>2. s \in Seq(Seq(Values)) /\ Len(s) = Len(view) /\ \A b \in 1..Len(view) : s[b] = view[b]
      BY <1>2, <1>6, <3>1, PaintedFacts
    <3> HIDE DEF s
    <3>3. s = view  BY <1>2, <3>2, SameValues
    <3> QED BY <3>3 DEF s
  <2>2. Keeps(m, m, NoContext)  BY KeepsSame
  <2>3. 0 \in 0..N  BY <1>3
  <2> HIDE DEF Seen
  <2>4. h[0] = m  BY <1>5 DEF Visits
  <2> QED BY <1>1, <2>1, <2>2, <2>3, <2>4
<1>8. ASSUME NEW k \in 0..(N - 1), k \in S PROVE k + 1 \in S
  <2> DEFINE b == visited[k + 1]
             shown == Painted(view, Seen(k), written, v)
             after == [shown EXCEPT ![b] = Filled(shown[b], b, written, v)]
             e == ended /\ b = Last(visited)
  <2>1. k \in Nat /\ k + 1 \in 1..N /\ (k + 1) - 1 = k /\ k + 1 \in 0..N  BY <1>3
  <2>2. b \in 1..Len(view)  BY <1>2, <1>3, <2>1
  <2>3. Seen(k + 1) = Seen(k) \union {b}
    <3>1. 1..(k + 1) = 1..k \union {k + 1}  BY <2>1
    <3> QED BY <3>1
  <2>4. Represents(h[k], shown) /\ Keeps(m, h[k], NoContext)  BY <1>8
  <2>5. h[k + 1] = Visit(h[k], b, written, v, e)  BY <1>5, <2>1 DEF Visits
  <2>6. e \in BOOLEAN /\ MayEnd(written, e)  BY <1>6 DEF MayEnd
  <2>8. after = [shown EXCEPT ![b] = Filled(shown[b], b, written, v)]
        /\ shown = Painted(view, Seen(k), written, v)
    OBVIOUS
  <2> HIDE DEF b, shown, Seen, e, after
  <2>7. Len(shown) = Len(view) /\ Solid(shown)
    <3>1. Len(shown) = Len(view) /\ \A a \in 1..Len(view) : Len(shown[a]) = Len(view[a])
      BY <1>2, <1>6, <2>8, PaintedFacts
    <3> QED BY <1>2, <3>1 DEF Solid
  <2>9. Represents(h[k + 1], after) /\ Keeps(h[k], h[k + 1], NoContext)
    <3>1. b \in 1..Len(shown)  BY <2>2, <2>7
    <3> QED BY <1>6, <2>4, <2>5, <2>6, <2>7, <2>8, <3>1, VisitShows
  <2>10. Keeps(m, h[k + 1], NoContext)  BY <2>4, <2>9, KeepsTwice
  <2>12. PaintStep(view, Seen(k), written, v, b, shown, after, Seen(k + 1))
    BY <1>2, <1>6, <2>2, <2>3, <2>8 DEF PaintStep
  <2>11. after = Painted(view, Seen(k + 1), written, v)  BY <2>12, PaintOneMore
  <2> QED BY <2>1, <2>9, <2>10, <2>11
<1>9. N \in S
  <2> HIDE DEF S
  <2>1. \A k \in 0..N : k \in S  BY <1>3, <1>7, <1>8, Induction
  <2> QED BY <1>3, <2>1
<1> DEFINE shown == Painted(view, Seen(N), written, v)
<1>10. Represents(n, shown) /\ Keeps(m, n, NoContext)  BY <1>6, <1>9
<1>11. \A b \in BucketOf(first)..BucketOf(last) : b \in Seen(N)  BY <1>3
<1> HIDE DEF Seen
<1>12. /\ shown \in Seq(Seq(Values)) /\ Len(shown) = Len(view)
       /\ \A b \in 1..Len(view) :
            /\ Len(shown[b]) = Len(view[b])
            /\ \A p \in 1..Len(view[b]) : shown[b][p] =
                 IF b \in Seen(N) /\ (b - 1) * BlockSize + p \in written THEN v ELSE view[b][p]
  BY <1>2, <1>6, PaintedFacts
<1> HIDE DEF shown, S
<1>13. t \in Seq(Values) /\ Len(t) = Len(w)
       /\ \A i \in 1..Len(w) : t[i] = IF i \in written THEN v ELSE w[i]
  <2>1. t = [i \in 1..Len(w) |-> IF i \in written THEN v ELSE w[i]]  BY <1>2 DEF VisitStep
  <2>2. \A i \in 1..Len(w) : w[i] \in Values  BY <1>2
  <2>3. t \in [1..Len(w) -> Values]  BY <1>6, <2>1, <2>2
  <2>4. Len(w) \in Nat  BY <1>2
  <2>5. t \in Seq(Values) /\ Len(t) = Len(w)  BY <2>3, <2>4, SequenceOf
  <2>6. \A i \in 1..Len(w) : t[i] = IF i \in written THEN v ELSE w[i]  BY <2>1
  <2> QED BY <2>5, <2>6
<1>14. ASSUME NEW i \in 1..Len(w) PROVE shown[BucketOf(i)][PosOf(i)] = t[i]
  <2> DEFINE b == BucketOf(i)
             p == PosOf(i)
  <2>1. b \in 1..Len(view) /\ p \in 1..Len(view[b])  BY <1>1, SplitsFacts
  <2>2. i = (b - 1) * BlockSize + p  BY <1>2, Position
  <2>3. view[b][p] = w[i]  BY <1>1 DEF Splits
  <2>4. i \in written => b \in Seen(N)
    <3>1. ASSUME i \in written PROVE b \in BucketOf(first)..BucketOf(last)
      <4>1. first <= i /\ i <= last /\ i \in Nat /\ i > 0  BY <1>2, <1>6, <3>1
      <4>2. BucketOf(first) <= b /\ b <= BucketOf(last)  BY <1>2, <4>1, PositionOrder
      <4> QED BY <1>2, <2>1, <4>2
    <3> QED BY <1>11, <3>1
  <2> HIDE DEF b, p
  <2>5. shown[b][p] = t[i]  BY <1>12, <1>13, <2>1, <2>2, <2>3, <2>4
  <2> QED BY <2>5 DEF b, p
<1>15. Splits(shown, t)  BY <1>1, <1>12, <1>13, <1>14 DEF Splits
<1>16. n.size = Len(t)  BY <1>10, <1>13 DEF VisitStep, Holds, Keeps
<1> QED BY <1>10, <1>15, <1>16 DEF Holds
===============================================================================

----------------------------- MODULE CVectorProofs -----------------------------
(***************************************************************************)
(* The invariant of the compressed vector.  Whatever was compressed,       *)
(* decompressed or taken in between, its memory holds the values that the  *)
(* same operations give to a vector:                                       *)
(*                                                                         *)
(*   IInv == Holds(Memory, vec), size() and the wrappers in their bounds   *)
(*                                                                         *)
(* First the operations that change the number of buckets (push_back,      *)
(* resize, pop_back, clear, serialize, deserialize), and shrink_to_fit;    *)
(* then what becomes of the names of the contexts between two operations,  *)
(* one lemma for each action, and the theorems.                            *)
(***************************************************************************)
EXTENDS CVectorMemoryProofs


-----------------------------------------------------------------------------
(* A bucket more, or less, at the back *)

\* Bucket k is added.  It has a whole compressed block, or a context that was empty.
AppendStep(m, view, k, block, n) ==
  /\ Represents(m, view) /\ IsRecord(n)
  /\ k \in Bucket /\ block \in Seq(Values) /\ Len(block) <= BlockSize
  /\ n.buckets = Append(m.buckets, k) /\ n.order = m.order /\ n.size \in Int /\ n.live \in Int
  /\ n.contexts \in [DOMAIN m.contexts -> Cell]
  /\ \A d \in DOMAIN m.contexts : d # k.raw => n.contexts[d] = m.contexts[d]
  /\ \/ k.raw = NoContext /\ k.compressed \in Full /\ Shows(k.compressed, block)
        /\ n.live = m.live + 1
     \/ /\ k.raw \in DOMAIN m.contexts /\ m.contexts[k.raw].block_index = 0
        /\ n.contexts[k.raw].block_index = Len(m.buckets) + 1
        /\ Shows(n.contexts[k.raw].data, block)
        /\ n.contexts[k.raw].dirty /\ n.contexts[k.raw].buffer = Null
        /\ n.live = m.live

LEMMA AppendChanges ==
  ASSUME NEW m, NEW view, NEW k, NEW block, NEW n, AppendStep(m, view, k, block, n)
  PROVE  /\ Represents(n, Append(view, block))
         /\ Len(n.buckets) = Len(m.buckets) + 1 /\ n.buckets[Len(m.buckets) + 1] = k
         /\ \A a \in 1..Len(m.buckets) : n.buckets[a] = m.buckets[a]
PROOF
<1> USE DEF AppendStep
<1> DEFINE L == Len(m.buckets)
           shown == Append(view, block)
<1>1. IsMemory(m) /\ Listed(m) /\ view \in Seq(Seq(Values)) /\ Len(view) = L /\ L \in Nat
      /\ DOMAIN m.buckets = 1..L /\ m.buckets \in Seq(Bucket)
      /\ m.contexts \in [DOMAIN m.contexts -> Cell] /\ NoContext \notin DOMAIN m.contexts
      /\ m.live \in Int /\ m.live = Cardinality(Buffered(m))
  BY MemoryFacts DEF IsMemory, NoContext, Represents
<1>2. /\ n.buckets \in Seq(Bucket) /\ Len(n.buckets) = L + 1 /\ DOMAIN n.buckets = 1..(L + 1)
      /\ n.buckets[L + 1] = k /\ \A a \in 1..L : n.buckets[a] = m.buckets[a]
  BY <1>1
<1>3. /\ shown \in Seq(Seq(Values)) /\ Len(shown) = L + 1
      /\ shown[L + 1] = block /\ \A a \in 1..L : shown[a] = view[a]
  BY <1>1
<1>4. DOMAIN n.contexts = DOMAIN m.contexts  OBVIOUS
<1>5. IsMemory(n)  BY <1>2, <1>4 DEF IsMemory
<1>6. Listed(n)  BY <1>1, <1>4 DEF Listed
<1>7. \A a \in 1..L : Len(view[a]) <= BlockSize /\ BucketShows(m, a, view[a])
  BY <1>1 DEF Represents
<1>8. \A d \in DOMAIN m.contexts : ContextIsLinked(m, d)  BY DEF Represents
<1>9. k.raw = NoContext \/ (k.raw \in DOMAIN m.contexts /\ m.contexts[k.raw].block_index = 0)
  OBVIOUS
<1>10. ASSUME NEW a \in 1..L, m.buckets[a].raw # NoContext
       PROVE  /\ m.buckets[a].raw \in DOMAIN m.contexts /\ m.buckets[a].raw # k.raw
              /\ n.contexts[m.buckets[a].raw] = m.contexts[m.buckets[a].raw]
  <2> DEFINE d == m.buckets[a].raw
  <2>1. d \in DOMAIN m.contexts /\ m.contexts[d].block_index = a /\ a # 0
    BY <1>7, <1>10 DEF BucketShows
  <2>2. d # k.raw  BY <1>1, <1>9, <2>1
  <2> HIDE DEF d
  <2>3. n.contexts[d] = m.contexts[d]  BY <2>1, <2>2
  <2> QED BY <2>1, <2>2, <2>3 DEF d
<1>11. ASSUME NEW a \in 1..Len(shown)
       PROVE  Len(shown[a]) <= BlockSize /\ BucketShows(n, a, shown[a])
  <2> HIDE DEF shown
  <2>1. CASE a = L + 1
    <3>1. shown[a] = block /\ n.buckets[a] = k /\ Len(block) <= BlockSize  BY <1>2, <1>3, <2>1
    <3>2. \/ k.raw = NoContext /\ k.compressed \in Full /\ Shows(k.compressed, block)
          \/ /\ k.raw \in DOMAIN n.contexts /\ k.raw # NoContext
             /\ n.contexts[k.raw].block_index = a /\ Shows(n.contexts[k.raw].data, block)
      BY <1>1, <1>4, <2>1
    <3> HIDE DEF AppendStep
    <3> QED BY <3>1, <3>2 DEF BucketShows
  <2>2. CASE a # L + 1
    <3> HIDE DEF AppendStep, L
    <3>0. a \in 1..L  BY <1>1, <1>3, <2>2
    <3>1. shown[a] = view[a] /\ n.buckets[a] = m.buckets[a]  BY <1>2, <1>3, <3>0
    <3>2. Len(view[a]) <= BlockSize /\ BucketShows(m, a, view[a])  BY <1>7, <3>0
    <3> QED BY <1>4, <1>10, <3>0, <3>1, <3>2 DEF BucketShows
  <2> QED BY <2>1, <2>2
<1>12. ASSUME NEW d \in DOMAIN n.contexts PROVE ContextIsLinked(n, d)
  <2>1. CASE d = k.raw
    <3>1. n.contexts[d].block_index = L + 1 /\ n.contexts[d].dirty
      BY <1>1, <1>4, <2>1
    <3> HIDE DEF AppendStep, L
    <3>2. L + 1 \in DOMAIN n.buckets /\ L + 1 # 0  BY <1>1, <1>2
    <3>3. n.buckets[L + 1].raw = d  BY <1>2, <2>1
    <3>4. n.contexts[d].block_index \in DOMAIN n.buckets /\ n.contexts[d].block_index # 0
          /\ n.buckets[n.contexts[d].block_index].raw = d
      BY <3>1, <3>2, <3>3
    <3> QED BY <3>1, <3>4 DEF ContextIsLinked
  <2>2. CASE d # k.raw
    <3>1. n.contexts[d] = m.contexts[d] /\ ContextIsLinked(m, d)  BY <1>4, <1>8, <2>2
    <3> DEFINE b == m.contexts[d].block_index
    <3> HIDE DEF AppendStep, L
    <3>2. b \in 1..L => b \in DOMAIN n.buckets /\ n.buckets[b] = m.buckets[b]
      <4> HIDE DEF b
      <4>1. b \in 1..L => b \in 1..(L + 1)  BY <1>1
      <4> QED BY <1>2, <4>1
    <3>3. DOMAIN m.buckets = 1..L  BY <1>1
    <3> QED BY <3>1, <3>2, <3>3 DEF ContextIsLinked
  <2> QED BY <2>1, <2>2
<1>13. n.live = Cardinality(Buffered(n))
  <2>1. \A a \in 1..L : FindCompressed(n, a) = FindCompressed(m, a)
    BY <1>2, <1>10 DEF FindCompressed, RawOf
  <2>2. FindCompressed(n, L + 1) # Null <=> k.raw = NoContext
    <3>1. CASE k.raw = NoContext  BY <1>1, <1>2, <3>1, FullBlocks DEF FindCompressed, RawOf
    <3>2. CASE k.raw # NoContext  BY <1>2, <3>2 DEF FindCompressed, RawOf
    <3> QED BY <3>1, <3>2
  <2>3. Buffered(m) \ {L + 1} = Buffered(n) \ {L + 1}
    BY <1>1, <1>2, <2>1 DEF Buffered
  <2>4. L + 1 \notin Buffered(m)  BY <1>1 DEF Buffered
  <2>5. L + 1 \in Buffered(n) <=> k.raw = NoContext  BY <1>1, <1>2, <2>2 DEF Buffered
  <2>6. IsFiniteSet(Buffered(m)) /\ Cardinality(Buffered(m)) \in Nat  BY <1>1, BufferedFinite
  <2>7. Cardinality(Buffered(n)) + Count(L + 1 \in Buffered(m))
          = Cardinality(Buffered(m)) + Count(L + 1 \in Buffered(n))
    BY <2>3, <2>6, CountOne
  <2>8. Cardinality(Buffered(n)) \in Nat  BY <1>5, BufferedFinite
  <2>9. n.live = IF k.raw = NoContext THEN m.live + 1 ELSE m.live  BY <1>1
  <2> HIDE DEF AppendStep
  <2> QED BY <1>1, <2>4, <2>5, <2>6, <2>7, <2>8, <2>9 DEF Count
<1>14. Represents(n, shown)
  <2> HIDE DEF shown, AppendStep
  <2> QED BY <1>2, <1>3, <1>5, <1>6, <1>11, <1>12, <1>13 DEF Represents
<1> QED BY <1>2, <1>14

\* The last bucket is removed with its block, and its context is empty.
DropStep(m, view, n) ==
  /\ Represents(m, view) /\ IsRecord(n) /\ Len(m.buckets) # 0
  /\ n.buckets = Front(m.buckets) /\ n.order = m.order /\ n.size \in Int
  /\ n.contexts = [d \in DOMAIN m.contexts |->
                     IF d = m.buckets[Len(m.buckets)].raw THEN EmptyContext ELSE m.contexts[d]]
  /\ n.live = IF FindCompressed(m, Len(m.buckets)) = Null THEN m.live ELSE m.live - 1

LEMMA DropChanges ==
  ASSUME NEW m, NEW view, NEW n, DropStep(m, view, n)
  PROVE  /\ Represents(n, Front(view)) /\ Len(n.buckets) = Len(m.buckets) - 1
         /\ \A a \in 1..Len(n.buckets) : n.buckets[a] = m.buckets[a]
PROOF
<1> USE DEF DropStep
<1> DEFINE L == Len(m.buckets)
           shown == Front(view)
           c == m.buckets[L].raw
<1>1. IsMemory(m) /\ Listed(m) /\ view \in Seq(Seq(Values)) /\ Len(view) = L /\ L \in Nat /\ L >= 1
      /\ DOMAIN m.buckets = 1..L /\ m.buckets \in Seq(Bucket)
      /\ m.contexts \in [DOMAIN m.contexts -> Cell] /\ NoContext \notin DOMAIN m.contexts
      /\ m.live \in Int /\ m.live = Cardinality(Buffered(m))
  <2>1. Represents(m, view) /\ Len(m.buckets) # 0  OBVIOUS
  <2> HIDE DEF DropStep
  <2>2. Listed(m) /\ view \in Seq(Seq(Values)) /\ m.live = Cardinality(Buffered(m))
    BY <2>1 DEF Represents
  <2>3. IsMemory(m) /\ m.buckets \in Seq(Bucket) /\ m.live \in Int
        /\ m.contexts \in [DOMAIN m.contexts -> Cell] /\ NoContext \notin DOMAIN m.contexts
    BY <2>1, MemoryFacts DEF IsMemory, NoContext
  <2>4. Len(view) = L /\ L \in Nat /\ L >= 1 /\ DOMAIN m.buckets = 1..L
    BY <2>1, <2>3, MemoryFacts
  <2> QED BY <2>2, <2>3, <2>4
<1>2. /\ n.buckets \in Seq(Bucket) /\ Len(n.buckets) = L - 1 /\ DOMAIN n.buckets = 1..(L - 1)
      /\ \A a \in 1..(L - 1) : n.buckets[a] = m.buckets[a]
  BY <1>1 DEF Front
<1>3. /\ shown \in Seq(Seq(Values)) /\ Len(shown) = L - 1
      /\ \A a \in 1..(L - 1) : shown[a] = view[a]
  BY <1>1 DEF Front
<1>4. DOMAIN n.contexts = DOMAIN m.contexts  OBVIOUS
<1>5. \A d \in DOMAIN m.contexts : n.contexts[d] = IF d = c THEN EmptyContext ELSE m.contexts[d]
  OBVIOUS
<1>6. n.contexts \in [DOMAIN n.contexts -> Cell]
  BY <1>1, EmptyIsCell
<1>7. IsMemory(n)  BY <1>1, <1>2, <1>6 DEF IsMemory
<1>8. Listed(n)  BY <1>1, <1>4 DEF Listed
<1>9. \A a \in 1..L : Len(view[a]) <= BlockSize /\ BucketShows(m, a, view[a])
  BY <1>1 DEF Represents
<1>10. \A d \in DOMAIN m.contexts : ContextIsLinked(m, d)  BY DEF Represents
<1>11. ASSUME NEW a \in 1..(L - 1), m.buckets[a].raw # NoContext
       PROVE  /\ m.buckets[a].raw \in DOMAIN m.contexts
              /\ n.contexts[m.buckets[a].raw] = m.contexts[m.buckets[a].raw]
  <2> DEFINE d == m.buckets[a].raw
  <2>1. a \in 1..L /\ a # L /\ L \in 1..L  BY <1>1
  <2>2. d \in DOMAIN m.contexts /\ m.contexts[d].block_index = a
    BY <1>9, <1>11, <2>1 DEF BucketShows
  <2>3. d # c
    <3>1. ASSUME d = c PROVE FALSE
      <4>1. m.contexts[c].block_index = L  BY <1>9, <1>11, <2>1, <3>1 DEF BucketShows
      <4> QED BY <2>1, <2>2, <3>1, <4>1
    <3> QED BY <3>1
  <2> HIDE DEF d, c
  <2>4. n.contexts[d] = m.contexts[d]  BY <1>5, <2>2, <2>3
  <2> QED BY <2>2, <2>4 DEF d
<1> HIDE DEF shown, c
<1>12. ASSUME NEW a \in 1..Len(shown)
       PROVE  Len(shown[a]) <= BlockSize /\ BucketShows(n, a, shown[a])
  <2>0. a \in 1..L /\ a \in 1..(L - 1)  BY <1>1, <1>3
  <2>1. a \in 1..L /\ a \in 1..(L - 1) /\ shown[a] = view[a] /\ n.buckets[a] = m.buckets[a]
    <3> HIDE DEF DropStep, L
    <3> QED BY <1>2, <1>3, <2>0
  <2>2. Len(view[a]) <= BlockSize /\ BucketShows(m, a, view[a])  BY <1>9, <2>1
  <2> HIDE DEF DropStep
  <2> QED BY <1>4, <1>11, <2>1, <2>2 DEF BucketShows
<1>13. ASSUME NEW d \in DOMAIN n.contexts PROVE ContextIsLinked(n, d)
  <2>1. CASE d = c
    <3>1. n.contexts[d] = EmptyContext  BY <1>4, <1>5, <2>1
    <3> QED BY <3>1, EmptyIsCell DEF ContextIsLinked
  <2>2. CASE d # c
    <3>1. n.contexts[d] = m.contexts[d] /\ ContextIsLinked(m, d)  BY <1>4, <1>5, <1>10, <2>2
    <3>2. m.contexts[d].block_index # L
      <4>1. L # 0  BY <1>1
      <4> QED BY <2>2, <3>1, <4>1 DEF ContextIsLinked, c
    <3> HIDE DEF DropStep
    <3>3. m.contexts[d].block_index # 0 => m.contexts[d].block_index \in 1..(L - 1)
      BY <1>1, <3>1, <3>2 DEF ContextIsLinked
    <3> QED BY <1>2, <3>1, <3>3 DEF ContextIsLinked
  <2> QED BY <2>1, <2>2
<1>14. n.live = Cardinality(Buffered(n))
  <2>1. \A a \in 1..(L - 1) : FindCompressed(n, a) = FindCompressed(m, a)
    BY <1>2, <1>11 DEF FindCompressed, RawOf
  <2>3. Buffered(m) \ {L} = Buffered(n) \ {L}
    <3>1. \A a : a \in 1..L /\ a # L <=> a \in 1..(L - 1)  BY <1>1
    <3> QED BY <1>1, <1>2, <2>1, <3>1 DEF Buffered
  <2>4. L \notin Buffered(n)  BY <1>1, <1>2 DEF Buffered
  <2>5. L \in Buffered(m) <=> FindCompressed(m, L) # Null  BY <1>1 DEF Buffered
  <2>6. IsFiniteSet(Buffered(m)) /\ Cardinality(Buffered(m)) \in Nat  BY <1>1, BufferedFinite
  <2>7. Cardinality(Buffered(n)) + Count(L \in Buffered(m))
          = Cardinality(Buffered(m)) + Count(L \in Buffered(n))
    BY <2>3, <2>6, CountOne
  <2>8. Cardinality(Buffered(n)) \in Nat  BY <1>7, BufferedFinite
  <2>9. n.live = IF FindCompressed(m, L) = Null THEN m.live ELSE m.live - 1  OBVIOUS
  <2> HIDE DEF DropStep
  <2> QED BY <1>1, <2>4, <2>5, <2>6, <2>7, <2>8, <2>9 DEF Count
<1>15. Represents(n, shown)
  <2> HIDE DEF DropStep
  <2> QED BY <1>2, <1>3, <1>7, <1>8, <1>12, <1>13, <1>14 DEF Represents
<1> QED BY <1>2, <1>15 DEF shown

-----------------------------------------------------------------------------
(* push_back *)

\* The buckets and the contexts of a memory change.
BucketsAndContexts(m, f, g) ==
  [buckets |-> f, contexts |-> g, order |-> m.order, size |-> m.size, live |-> m.live]

LEMMA BucketsAndContextsIs ==
  ASSUME NEW m, IsRecord(m), NEW f, NEW g
  PROVE  [m EXCEPT !.buckets = f, !.contexts = g] = BucketsAndContexts(m, f, g)
PROOF
<1> DEFINE n == [m EXCEPT !.buckets = f]
<1>1. n = [buckets |-> f, contexts |-> m.contexts, order |-> m.order, size |-> m.size, live |-> m.live]
  BY DEF IsRecord
<1>2. [m EXCEPT !.buckets = f, !.contexts = g] = [n EXCEPT !.contexts = g]  OBVIOUS
<1> HIDE DEF n
<1>3. [n EXCEPT !.contexts = g] =
        [buckets |-> f, contexts |-> g, order |-> m.order, size |-> m.size, live |-> m.live]
  BY <1>1
<1> QED BY <1>2, <1>3 DEF BucketsAndContexts

LEMMA ContextsAndSize ==
  ASSUME NEW m, IsRecord(m), NEW g, NEW s
  PROVE  [m EXCEPT !.contexts = g, !.size = s] =
           [buckets |-> m.buckets, contexts |-> g, order |-> m.order, size |-> s, live |-> m.live]
PROOF
<1> DEFINE k == [m EXCEPT !.contexts = g]
<1>1. k = [buckets |-> m.buckets, contexts |-> g, order |-> m.order, size |-> m.size, live |-> m.live]
  BY DEF IsRecord
<1>2. [m EXCEPT !.contexts = g, !.size = s] = [k EXCEPT !.size = s]  OBVIOUS
<1> HIDE DEF k
<1> QED BY <1>1, <1>2

\* A bucket is added that has context c.
Added(m, n, c) ==
  /\ Len(n.buckets) = Len(m.buckets) + 1 /\ n.buckets[Len(m.buckets) + 1].raw = c
  /\ n.buckets[Len(m.buckets) + 1].refs = 0
  /\ \A a \in 1..Len(m.buckets) : n.buckets[a] = m.buckets[a]
  /\ n.size = m.size /\ n.order = m.order
  /\ DOMAIN n.contexts = DOMAIN m.contexts
  /\ n.contexts[c] = [data |-> <<>>, dirty |-> TRUE, block_index |-> Len(m.buckets) + 1, buffer |-> Null]
  /\ \A d \in DOMAIN m.contexts : d # c => n.contexts[d] = m.contexts[d]

AddStep(m, view, c, n) ==
  /\ Represents(m, view) /\ c \in DOMAIN m.contexts /\ m.contexts[c].block_index = 0
  /\ n = AppendBucket(m, c)

LEMMA AppendBucketShows ==
  ASSUME NEW m, NEW view, NEW c, NEW n, AddStep(m, view, c, n)
  PROVE  Represents(n, Append(view, <<>>)) /\ Added(m, n, c)
PROOF
<1>0. /\ Represents(m, view) /\ c \in DOMAIN m.contexts /\ m.contexts[c].block_index = 0
      /\ n = AppendBucket(m, c)
  BY DEF AddStep
<1> DEFINE k == [raw |-> c, compressed |-> Null, refs |-> 0]
           L == Len(m.buckets)
           x == [data |-> <<>>, dirty |-> TRUE, block_index |-> L + 1, buffer |-> Null]
           f == Append(m.buckets, k)
           g == [m.contexts EXCEPT ![c] = x]
<1>1. IsMemory(m) /\ IsRecord(m) /\ L \in Nat /\ m.size \in Int /\ m.live \in Int
      /\ m.contexts \in [DOMAIN m.contexts -> Cell] /\ DOMAIN m.contexts \subseteq Nat \ {0}
  BY <1>0, MemoryFacts DEF IsMemory
<1>2. m.contexts[c] = EmptyContext  BY <1>0, EmptyFacts
<1>3. n = BucketsAndContexts(m, f, g)
  <2> DEFINE h == [m.contexts EXCEPT ![c] = [m.contexts[c] EXCEPT !.dirty = TRUE, !.block_index = L + 1]]
  <2>1. n = [m EXCEPT !.buckets = f, !.contexts = h]  BY <1>0, <1>1 DEF AppendBucket, IsRecord
  <2>2. [EmptyContext EXCEPT !.dirty = TRUE, !.block_index = L + 1] = x
    <3> DEFINE e == [EmptyContext EXCEPT !.dirty = TRUE]
               t == TRUE
    <3>1. [EmptyContext EXCEPT !.dirty = TRUE, !.block_index = L + 1] = [e EXCEPT !.block_index = L + 1]
      OBVIOUS
    <3>2. e = [EmptyContext EXCEPT !.dirty = t]  OBVIOUS
    <3>3. x = [data |-> <<>>, dirty |-> t, block_index |-> L + 1, buffer |-> Null]  OBVIOUS
    <3> HIDE DEF t, e, x, L
    <3>4. e = [data |-> <<>>, dirty |-> t, block_index |-> 0, buffer |-> Null]
      BY <3>2 DEF EmptyContext
    <3>5. [e EXCEPT !.block_index = L + 1] = x  BY <3>3, <3>4
    <3> QED BY <3>1, <3>5
  <2> HIDE DEF x
  <2>3. h = g  BY <1>2, <2>2
  <2> HIDE DEF f, g, h
  <2> QED BY <1>1, <2>1, <2>3, BucketsAndContextsIs
<1>4. x \in Cell /\ x.data = <<>> /\ x.dirty /\ x.block_index = L + 1 /\ x.buffer = Null
  BY <1>1, NoBlocks DEF Cell
<1>5. k \in Bucket /\ k.raw = c /\ k.refs = 0 /\ c # NoContext
  <2>1. c \in Nat /\ c # 0  BY <1>0, <1>1
  <2> QED BY <2>1, NoBlocks DEF Bucket, NoContext
<1>6. n.buckets = f /\ n.contexts = g /\ n.order = m.order /\ n.size = m.size /\ n.live = m.live
      /\ IsRecord(n)
  BY <1>3 DEF BucketsAndContexts, IsRecord
<1> HIDE DEF k, x
<1>7. g \in [DOMAIN m.contexts -> Cell] /\ g[c] = x
      /\ \A d \in DOMAIN m.contexts : d # c => g[d] = m.contexts[d]
  BY <1>0, <1>1, <1>4
<1> HIDE DEF g
<1>8. <<>> \in Seq(Values) /\ Len(<<>>) <= BlockSize /\ Shows(<<>>, <<>>)
  BY Constants DEF Shows
<1>9. AppendStep(m, view, k, <<>>, n)
  BY <1>0, <1>1, <1>4, <1>5, <1>6, <1>7, <1>8 DEF AppendStep
<1>10. /\ Represents(n, Append(view, <<>>))
       /\ Len(n.buckets) = L + 1 /\ n.buckets[L + 1] = k
       /\ \A a \in 1..L : n.buckets[a] = m.buckets[a]
  BY <1>9, AppendChanges
<1> QED BY <1>4, <1>5, <1>6, <1>7, <1>10 DEF Added, x

\* A value is added to the back bucket, that has room.
PushStep(m, view, v, shown, n) ==
  /\ Represents(m, view) /\ Len(view) # 0
  /\ m.buckets[Len(view)].raw # NoContext /\ m.contexts[m.buckets[Len(view)].raw].dirty
  /\ Len(view[Len(view)]) < BlockSize /\ v \in Values
  /\ shown = [view EXCEPT ![Len(view)] = Append(view[Len(view)], v)]
  /\ n = AppendValue(m, v)

LEMMA AppendValueShows ==
  ASSUME NEW m, NEW view, NEW v, NEW shown, NEW n, PushStep(m, view, v, shown, n)
  PROVE  Represents(n, shown) /\ n.buckets = m.buckets /\ n.size = m.size + 1
PROOF
<1> DEFINE b == Len(view)
           c == m.buckets[b].raw
           y == m.contexts[c]
           x == [y EXCEPT !.data = Append(y.data, v)]
           s == m.size + 1
<1>0. /\ Represents(m, view) /\ b # 0 /\ c # NoContext /\ y.dirty
      /\ Len(view[b]) < BlockSize /\ v \in Values
      /\ shown = [view EXCEPT ![b] = Append(view[b], v)]
      /\ n = AppendValue(m, v)
  BY DEF PushStep
<1>b. b = Len(view)  OBVIOUS
<1> HIDE DEF b
<1>1. IsMemory(m) /\ IsRecord(m) /\ m.size \in Int /\ m.live \in Int /\ b = Len(m.buckets)
      /\ view \in Seq(Seq(Values)) /\ b \in 1..Len(view) /\ view[b] \in Seq(Values)
  BY <1>0, <1>b, MemoryFacts DEF IsMemory
<1>2. c \in DOMAIN m.contexts /\ y.block_index = b /\ y \in Cell /\ b # 0 /\ Shows(y.data, view[b])
  BY <1>0, <1>1, <1>b, BucketFacts
<1>3. y = [data |-> y.data, dirty |-> y.dirty, block_index |-> y.block_index, buffer |-> y.buffer]
      /\ y.data \in Seq(Values)
  BY <1>2 DEF Cell
<1>4. x \in Cell /\ x.block_index = b /\ x.dirty /\ x.buffer = y.buffer /\ x.data = Append(y.data, v)
  <2> DEFINE D == Append(y.data, v)
  <2>1. D \in Seq(Values) /\ x = [y EXCEPT !.data = D] /\ y.dirty  BY <1>0, <1>3
  <2> HIDE DEF D, x, y
  <2>2. x = [data |-> D, dirty |-> y.dirty, block_index |-> y.block_index, buffer |-> y.buffer]
    BY <1>3, <2>1
  <2>3. x \in Cell /\ x.block_index = b /\ x.dirty /\ x.buffer = y.buffer /\ x.data = D
    BY <1>2, <2>1, <2>2 DEF Cell
  <2> QED BY <2>3 DEF D
<1>5. n = ContextChanged(m, c, x, s, m.live)
  <2> DEFINE D == Append(y.data, v)
             g == [m.contexts EXCEPT ![c].data = D]
  <2>1. n = [m EXCEPT !.contexts[c].data = D, !.size = s]
    BY <1>0, <1>1, <1>2 DEF AppendValue, RawOf
  <2>2. g = [m.contexts EXCEPT ![c] = x]  BY <1>2
  <2> HIDE DEF D, x, s, y, c
  <2>3. n = [m EXCEPT !.contexts = g, !.size = s]  BY <1>1, <2>1 DEF IsRecord
  <2> HIDE DEF g
  <2>5. n = [buckets |-> m.buckets, contexts |-> g, order |-> m.order, size |-> s, live |-> m.live]
    BY <1>1, <2>3, ContextsAndSize
  <2> QED BY <2>2, <2>5 DEF ContextChanged
<1>6. /\ shown \in Seq(Seq(Values)) /\ Len(shown) = Len(view) /\ shown[b] = Append(view[b], v)
      /\ \A a \in 1..Len(view) : a # b => shown[a] = view[a]
      /\ Len(Append(view[b], v)) = Len(view[b]) + 1 /\ Append(view[b], v) \in Seq(Values)
  <2> DEFINE F == Append(view[b], v)
  <2> HIDE DEF x, s, y, c
  <2>1. F \in Seq(Values) /\ Len(F) = Len(view[b]) + 1
    <3> DEFINE u == view[b]
    <3>1. u \in Seq(Values) /\ v \in Values  BY <1>0, <1>1
    <3> HIDE DEF u
    <3>2. Append(u, v) \in Seq(Values) /\ Len(Append(u, v)) = Len(u) + 1  BY <3>1
    <3> QED BY <3>2 DEF u
  <2>2. shown = [view EXCEPT ![b] = F]  BY <1>0
  <2> HIDE DEF F
  <2>3. shown \in Seq(Seq(Values)) /\ Len(shown) = Len(view) /\ shown[b] = F
        /\ \A a \in 1..Len(view) : a # b => shown[a] = view[a]
    BY <1>1, <2>1, <2>2
  <2> QED BY <2>1, <2>3 DEF F
<1>7. Len(shown[b]) <= BlockSize
  <2>1. Len(view[b]) \in Nat /\ BlockSize \in Nat  BY <1>1, Constants
  <2> QED BY <1>0, <1>6, <2>1
<1>8. SameBut(view, shown, b)  BY <1>6, <1>7 DEF SameBut
<1>9. Shows(x.data, shown[b])
  <2>1. Len(Append(y.data, v)) = Len(y.data) + 1  BY <1>3
  <2> QED BY <1>2, <1>4, <1>6, <2>1 DEF Shows
<1>10. s \in Int  BY <1>1
<1> HIDE DEF x, s, c
<1>11. n.size = s /\ n.live = m.live /\ n.buckets = m.buckets  BY <1>5 DEF ContextChanged
<1>12. ContextStep(m, view, b, c, x, shown, n)
  BY <1>0, <1>1, <1>2, <1>4, <1>5, <1>8, <1>9, <1>10, <1>11 DEF ContextStep
<1>13. Represents(n, shown)  BY <1>12, ContextChanges
<1> QED BY <1>11, <1>13 DEF s

\* Who refers to what does not change, and a decompressed bucket that is referred to
\* keeps its context, unless it is the last one and a bucket is added.
Moves(m, n) ==
  /\ \A b \in 1..Len(n.buckets) :
       n.buckets[b].refs = IF b <= Len(m.buckets) THEN m.buckets[b].refs ELSE 0
  /\ \A b \in 1..Len(m.buckets) :
       /\ b <= Len(n.buckets) /\ m.buckets[b].refs > 0 /\ m.buckets[b].raw # NoContext
       /\ b < Len(m.buckets) \/ Len(n.buckets) <= Len(m.buckets)
       => n.buckets[b].raw = m.buckets[b].raw

Grows(m, n)   == Len(m.buckets) <= Len(n.buckets) /\ Moves(m, n)
Shrinks(m, n) == Len(n.buckets) <= Len(m.buckets) /\ Moves(m, n)

LEMMA KeepsMoves ==
  ASSUME NEW m, NEW view, Represents(m, view), NEW n, NEW e, Keeps(m, n, e)
  PROVE  Grows(m, n) /\ Shrinks(m, n)
PROOF
<1>1. Len(m.buckets) \in Nat  BY MemoryFacts
<1>2. Len(n.buckets) = Len(m.buckets)  BY DEF Keeps
<1>3. Moves(m, n)
  <2>1. \A b \in 1..Len(n.buckets) :
          n.buckets[b].refs = IF b <= Len(m.buckets) THEN m.buckets[b].refs ELSE 0
    BY <1>1, <1>2 DEF Keeps
  <2>2. \A b \in 1..Len(m.buckets) : m.buckets[b].refs > 0 /\ m.buckets[b].raw # NoContext
          => n.buckets[b].raw = m.buckets[b].raw
    BY DEF Keeps
  <2> QED BY <2>1, <2>2 DEF Moves
<1> QED BY <1>1, <1>2, <1>3 DEF Grows, Shrinks

LEMMA GrowsTwice ==
  ASSUME NEW l, NEW m, NEW n, Grows(l, m), Grows(m, n),
         Len(l.buckets) \in Nat, Len(m.buckets) \in Nat, Len(n.buckets) \in Nat
  PROVE  Grows(l, n)
PROOF
<1> DEFINE i == Len(l.buckets)
           j == Len(m.buckets)
           k == Len(n.buckets)
<1>1. i \in Nat /\ j \in Nat /\ k \in Nat /\ i <= j /\ j <= k /\ i <= k /\ Moves(l, m) /\ Moves(m, n)
  BY DEF Grows
<1>2. ASSUME NEW b \in 1..k
      PROVE  n.buckets[b].refs = IF b <= i THEN l.buckets[b].refs ELSE 0
  <2>1. n.buckets[b].refs = IF b <= j THEN m.buckets[b].refs ELSE 0  BY <1>1 DEF Moves
  <2>2. b <= j => m.buckets[b].refs = IF b <= i THEN l.buckets[b].refs ELSE 0
    <3>1. b <= j => b \in 1..j  BY <1>1
    <3> QED BY <1>1, <3>1 DEF Moves
  <2>3. b <= i => b <= j  BY <1>1
  <2> QED BY <2>1, <2>2, <2>3
<1>3. ASSUME NEW b \in 1..i, l.buckets[b].refs > 0, l.buckets[b].raw # NoContext, b < i \/ k <= i
      PROVE  n.buckets[b].raw = l.buckets[b].raw
  <2>1. b \in 1..j /\ b <= j /\ b <= k /\ (b < i \/ j <= i) /\ (b < j \/ k <= j)  BY <1>1, <1>3
  <2>2. m.buckets[b].raw = l.buckets[b].raw  BY <1>1, <1>3, <2>1 DEF Moves
  <2>3. m.buckets[b].refs = l.buckets[b].refs
    <3>1. b <= i  OBVIOUS
    <3> QED BY <1>1, <2>1, <3>1 DEF Moves
  <2> QED BY <1>1, <1>3, <2>1, <2>2, <2>3 DEF Moves
<1> QED BY <1>1, <1>2, <1>3 DEF Grows, Moves

LEMMA ShrinksTwice ==
  ASSUME NEW l, NEW m, NEW n, Shrinks(l, m), Shrinks(m, n),
         Len(l.buckets) \in Nat, Len(m.buckets) \in Nat, Len(n.buckets) \in Nat
  PROVE  Shrinks(l, n)
PROOF
<1> DEFINE i == Len(l.buckets)
           j == Len(m.buckets)
           k == Len(n.buckets)
<1>1. i \in Nat /\ j \in Nat /\ k \in Nat /\ j <= i /\ k <= j /\ k <= i /\ Moves(l, m) /\ Moves(m, n)
  BY DEF Shrinks
<1>2. ASSUME NEW b \in 1..k
      PROVE  n.buckets[b].refs = l.buckets[b].refs /\ m.buckets[b].refs = l.buckets[b].refs
             /\ b <= i /\ b <= j /\ b \in 1..i /\ b \in 1..j
  <2>1. b <= i /\ b <= j /\ b \in 1..i /\ b \in 1..j  BY <1>1
  <2>2. n.buckets[b].refs = m.buckets[b].refs  BY <1>1, <2>1 DEF Moves
  <2>3. m.buckets[b].refs = l.buckets[b].refs  BY <1>1, <2>1 DEF Moves
  <2> QED BY <2>1, <2>2, <2>3
<1>3. ASSUME NEW b \in 1..i, b <= k, l.buckets[b].refs > 0, l.buckets[b].raw # NoContext
      PROVE  n.buckets[b].raw = l.buckets[b].raw
  <2>1. b \in 1..k  BY <1>1, <1>3
  <2>2. m.buckets[b].raw = l.buckets[b].raw  BY <1>1, <1>2, <1>3, <2>1 DEF Moves
  <2> QED BY <1>1, <1>2, <1>3, <2>1, <2>2 DEF Moves
<1> QED BY <1>1, <1>2, <1>3 DEF Shrinks, Moves

\* The back block has room, or an empty one is added to whole ones.
Roomy(view, s) ==
  \/ s = view /\ Len(view) # 0 /\ Len(view[Len(view)]) < BlockSize
  \/ s = Append(view, <<>>) /\ (Len(view) = 0 \/ Len(view[Len(view)]) = BlockSize)

LEMMA SplitsPush ==
  ASSUME NEW view, NEW w, Splits(view, w), NEW s, Roomy(view, s), NEW v \in Values,
         NEW shown, shown = [s EXCEPT ![Len(s)] = Append(s[Len(s)], v)]
  PROVE  Splits(shown, Append(w, v))
PROOF
<1> DEFINE L == Len(view)
           N == Len(w)
           t == Append(w, v)
           M == N + 1
           k == Len(s)
<1>1. w \in Seq(Values) /\ view \in Seq(Seq(Values)) /\ L \in Nat /\ N \in Nat
  BY SplitsFacts DEF Splits
<1>2. /\ N # 0 => L >= 1 /\ BucketOf(N) = L /\ PosOf(N) \in 1..BlockSize
      /\ N = 0 <=> L = 0
      /\ \A i \in 1..N : BucketOf(i) \in 1..L /\ PosOf(i) \in 1..Len(view[BucketOf(i)])
                         /\ PosOf(i) \in 1..BlockSize
      /\ \A b \in 1..L : Len(view[b]) = IF b < L THEN BlockSize ELSE PosOf(N)
      /\ \A i \in 1..N : view[BucketOf(i)][PosOf(i)] = w[i]
  BY SplitsFacts DEF Splits
<1>3. /\ M \in Nat /\ M > 0
      /\ t \in Seq(Values) /\ Len(t) = M /\ t[M] = v /\ \A i \in 1..N : t[i] = w[i]
  BY <1>1
<1>4. BlockSize \in Nat /\ BlockSize > 0  BY Constants
\* The place of the new value.
<1>5. /\ k \in Nat /\ k >= 1 /\ s \in Seq(Seq(Values)) /\ BucketOf(M) = k /\ PosOf(M) = Len(s[k]) + 1
      /\ s[k] \in Seq(Values) /\ L <= k
      /\ \A b \in 1..L : s[b] = view[b]
      /\ \A b \in 1..k : b < k => b \in 1..L /\ Len(view[b]) = BlockSize
      /\ k \notin 1..L => s[k] = <<>>
  <2>1. CASE s = view /\ L # 0 /\ Len(view[L]) < BlockSize
    <3>1. N # 0 /\ N > 0 /\ L \in 1..L /\ k = L  BY <1>1, <1>2, <2>1
    <3>2. Len(view[L]) = PosOf(N) /\ PosOf(N) # BlockSize /\ BucketOf(N) = L
      BY <1>1, <1>2, <1>4, <2>1, <3>1
    <3>3. BucketOf(M) = L /\ PosOf(M) = PosOf(N) + 1  BY <1>1, <3>1, <3>2, NextPosition
    <3>4. view[L] \in Seq(Values)  BY <1>1, <3>1
    <3> QED BY <1>1, <1>2, <2>1, <3>1, <3>2, <3>3, <3>4
  <2>2. CASE s = Append(view, <<>>) /\ (L = 0 \/ Len(view[L]) = BlockSize)
    <3>1. k = L + 1 /\ s \in Seq(Seq(Values)) /\ s[k] = <<>> /\ \A b \in 1..L : s[b] = view[b]
      <4>1. <<>> \in Seq(Values)  OBVIOUS
      <4> QED BY <1>1, <2>2, <4>1
    <3>2. BucketOf(M) = L + 1 /\ PosOf(M) = 1
      <4>1. CASE L = 0  BY <1>1, <1>2, <4>1, FirstPosition
      <4>2. CASE L # 0
        <5>1. L \in 1..L /\ N # 0 /\ ~(L < L)  BY <1>1, <1>2, <4>2
        <5>2. PosOf(N) = BlockSize /\ BucketOf(N) = L  BY <1>2, <2>2, <4>2, <5>1
        <5>3. N > 0  BY <1>1, <5>1
        <5> QED BY <1>1, <5>2, <5>3, NextPosition
      <4> QED BY <4>1, <4>2
    <3>3. \A b \in 1..L : Len(view[b]) = BlockSize
      <4>1. \A b \in 1..L : b < L \/ b = L  BY <1>1
      <4> QED BY <1>2, <2>2, <4>1
    <3>4. Len(s[k]) = 0  BY <3>1
    <3>5. s[k] \in Seq(Values)  BY <3>1
    <3>6. \A b \in 1..k : b < k => b \in 1..L  BY <1>1, <3>1
    <3> QED BY <1>1, <3>1, <3>2, <3>3, <3>4, <3>5, <3>6
  <2> QED BY <2>1, <2>2 DEF Roomy
<1>6. /\ Len(Append(s[k], v)) = Len(s[k]) + 1 /\ Append(s[k], v) \in Seq(Values)
      /\ Append(s[k], v)[Len(s[k]) + 1] = v
      /\ \A p \in 1..Len(s[k]) : Append(s[k], v)[p] = s[k][p]
  BY <1>5
<1>7. /\ shown \in Seq(Seq(Values)) /\ Len(shown) = k /\ shown[k] = Append(s[k], v)
      /\ \A b \in 1..k : b # k => shown[b] = s[b]
  <2> DEFINE F == Append(s[k], v)
  <2>1. F \in Seq(Values) /\ shown = [s EXCEPT ![k] = F]  BY <1>6
  <2> HIDE DEF F
  <2>2. shown \in Seq(Seq(Values)) /\ Len(shown) = k /\ shown[k] = F
        /\ \A b \in 1..k : b # k => shown[b] = s[b]
    BY <1>5, <2>1
  <2> QED BY <2>2 DEF F
<1> HIDE DEF L, N, t, M, k
<1>8. Len(shown) = IF Len(t) = 0 THEN 0 ELSE BucketOf(Len(t))
  <2>1. Len(t) # 0  BY <1>3
  <2>2. BucketOf(Len(t)) = k /\ Len(shown) = k  BY <1>3, <1>5, <1>7
  <2> QED BY <2>1, <2>2
<1>9. ASSUME NEW b \in 1..Len(shown)
      PROVE  Len(shown[b]) = IF b < Len(shown) THEN BlockSize ELSE PosOf(Len(t))
  <2>1. CASE b = k
    <3>1. ~(b < Len(shown))  BY <1>5, <1>7, <2>1
    <3> QED BY <1>3, <1>5, <1>6, <1>7, <2>1, <3>1
  <2>2. CASE b # k
    <3>1. b < k /\ b \in 1..k  BY <1>5, <1>7, <2>2
    <3> QED BY <1>5, <1>7, <2>2, <3>1
  <2> QED BY <2>1, <2>2
<1>10. ASSUME NEW i \in 1..Len(t)
       PROVE  shown[BucketOf(i)][PosOf(i)] = t[i]
  <2>1. CASE i = M  BY <1>3, <1>5, <1>6, <1>7, <2>1
  <2>2. CASE i # M
    <3>1. i \in 1..N  BY <1>1, <1>3, <2>2 DEF M
    <3>2. BucketOf(i) \in 1..L /\ PosOf(i) \in 1..Len(view[BucketOf(i)])
          /\ view[BucketOf(i)][PosOf(i)] = w[i] /\ t[i] = w[i]
      BY <1>2, <1>3, <3>1
    <3>3. BucketOf(i) \in 1..k /\ s[BucketOf(i)] = view[BucketOf(i)]
      <4> DEFINE x == BucketOf(i)
      <4>1. x \in 1..L /\ L <= k  BY <1>5, <3>2
      <4> HIDE DEF x
      <4>2. x \in 1..k  BY <1>1, <1>5, <4>1
      <4>3. s[x] = view[x]  BY <1>5, <4>1
      <4> QED BY <4>2, <4>3 DEF x
    <3>4. CASE BucketOf(i) = k  BY <1>6, <1>7, <3>2, <3>3, <3>4
    <3>5. CASE BucketOf(i) # k  BY <1>7, <3>2, <3>3, <3>5
    <3> QED BY <3>4, <3>5
  <2> QED BY <2>1, <2>2
<1> QED BY <1>3, <1>7, <1>8, <1>9, <1>10 DEF Splits, t

LEMMA AppendedGrows ==
  ASSUME NEW m, NEW view, Represents(m, view), NEW n,
         Len(n.buckets) = Len(m.buckets) + 1, n.buckets[Len(m.buckets) + 1].refs = 0,
         \A a \in 1..Len(m.buckets) :
           /\ n.buckets[a].refs = m.buckets[a].refs
           /\ a < Len(m.buckets) /\ m.buckets[a].refs > 0 /\ m.buckets[a].raw # NoContext
                => n.buckets[a].raw = m.buckets[a].raw
  PROVE  Grows(m, n)
PROOF
<1> DEFINE L == Len(m.buckets)
<1>1. L \in Nat  BY MemoryFacts
<1>2. ASSUME NEW b \in 1..Len(n.buckets)
      PROVE  n.buckets[b].refs = IF b <= L THEN m.buckets[b].refs ELSE 0
  <2>1. b \in 1..L \/ b = L + 1  BY <1>1
  <2>2. b \in 1..L => b <= L  BY <1>1
  <2>3. b = L + 1 => ~(b <= L)  BY <1>1
  <2> QED BY <2>1, <2>2, <2>3
<1>3. ~(Len(n.buckets) <= L) /\ L <= Len(n.buckets)  BY <1>1
<1> QED BY <1>2, <1>3 DEF Grows, Moves

\* The back bucket has a dirty context.
BackIsDirty(m) ==
  LET b == Len(m.buckets)
  IN  b # 0 /\ m.buckets[b].raw # NoContext /\ m.contexts[m.buckets[b].raw].dirty

\* A bucket with an empty context is added.
LEMMA NewBackShows ==
  ASSUME NEW m, NEW view, Represents(m, view), Solid(view),
         NEW n, n = NewBackBucket(MakeOrFindFreeContext(m, NoContext))
  PROVE  Represents(n, Append(view, <<>>)) /\ Grows(m, n) /\ n.size = m.size /\ BackIsDirty(n)
PROOF
<1> DEFINE k == MakeOrFindFreeContext(m, NoContext)
           c == Head(k.order)
<1>1. Represents(k, view) /\ Found(m, k, NoContext) /\ FirstIsEmpty(k)  BY MakeOrFindShows
<1>2. n = AppendBucket(k, c)  BY DEF NewBackBucket
<1> HIDE DEF k
<1>3. c \in DOMAIN k.contexts /\ k.contexts[c].block_index = 0  BY <1>1 DEF FirstIsEmpty
<1> HIDE DEF c
<1>a. Represents(n, Append(view, <<>>)) /\ Added(k, n, c)
  <2>1. AddStep(k, view, c, n)  BY <1>1, <1>2, <1>3 DEF AddStep
  <2> QED BY <2>1, AppendBucketShows
<1>4. /\ Represents(n, Append(view, <<>>))
      /\ Len(n.buckets) = Len(k.buckets) + 1 /\ n.buckets[Len(k.buckets) + 1].raw = c
      /\ n.buckets[Len(k.buckets) + 1].refs = 0
      /\ \A a \in 1..Len(k.buckets) : n.buckets[a] = k.buckets[a]
      /\ n.size = k.size /\ n.contexts[c].dirty
  BY <1>a DEF Added
<1>5. Keeps(m, k, NoContext)  BY <1>1 DEF Found
<1>6. Grows(m, k)  BY <1>5, KeepsMoves
<1>7. Grows(k, n)
  <2>1. \A a \in 1..Len(k.buckets) :
          /\ n.buckets[a].refs = k.buckets[a].refs
          /\ a < Len(k.buckets) /\ k.buckets[a].refs > 0 /\ k.buckets[a].raw # NoContext
               => n.buckets[a].raw = k.buckets[a].raw
    BY <1>4
  <2>2. n.buckets[Len(k.buckets) + 1].refs = 0 /\ Len(n.buckets) = Len(k.buckets) + 1  BY <1>4
  <2> QED BY <1>1, <2>1, <2>2, AppendedGrows
<1>8. Len(m.buckets) \in Nat /\ Len(k.buckets) \in Nat /\ Len(n.buckets) \in Nat
  BY <1>1, <1>4, MemoryFacts
<1>9. Grows(m, n)  BY <1>6, <1>7, <1>8, GrowsTwice
<1>10. n.size = m.size  BY <1>4, <1>5 DEF Keeps
<1>11. BackIsDirty(n)
  <2>1. Len(n.buckets) # 0 /\ Len(n.buckets) = Len(k.buckets) + 1  BY <1>4, <1>8
  <2>2. c # NoContext  BY <1>1, <1>3, MemoryFacts DEF NoContext
  <2> QED BY <1>4, <2>1, <2>2 DEF BackIsDirty
<1> QED BY <1>4, <1>9, <1>10, <1>11

\* The context of a whole back bucket is given to a bucket that is added.
LEMMA NextBackShows ==
  ASSUME NEW m, NEW view, Represents(m, view), NEW c \in DOMAIN m.contexts,
         m.contexts[c].block_index = Len(m.buckets), Len(m.buckets) # 0,
         Len(m.contexts[c].data) = BlockSize,
         NEW n, n = AppendBucket(Release(Compress(m, c), c), c)
  PROVE  Represents(n, Append(view, <<>>)) /\ Grows(m, n) /\ n.size = m.size /\ BackIsDirty(n)
PROOF
<1> DEFINE k == Compress(m, c)
           j == Release(k, c)
           L == Len(m.buckets)
<1>1. L \in 1..Len(view) /\ L = Len(m.buckets) /\ L \in Nat /\ c # NoContext
  BY MemoryFacts DEF NoContext
<1>2. c \in DOMAIN m.contexts /\ m.contexts[c].block_index = L /\ L # 0  BY <1>1
<1> HIDE DEF L
<1>3. /\ Represents(k, view) /\ k.buckets = m.buckets /\ k.order = m.order /\ k.size = m.size
      /\ Saved(k.contexts[c]) /\ k.contexts[c].block_index = m.contexts[c].block_index
      /\ DOMAIN k.contexts = DOMAIN m.contexts
  BY <1>2, CompressShows
<1> HIDE DEF k
<1>4. c \in DOMAIN k.contexts  BY <1>2, <1>3
<1>6. n = AppendBucket(j, c) /\ j = Release(k, c)  BY DEF k
<1> HIDE DEF j
<1>5. /\ Represents(j, view) /\ j.size = k.size
      /\ DOMAIN j.contexts = DOMAIN k.contexts /\ j.contexts[c] = EmptyContext
      /\ Len(j.buckets) = Len(k.buckets)
      /\ \A a \in 1..Len(k.buckets) :
           /\ j.buckets[a].refs = k.buckets[a].refs
           /\ a # k.contexts[c].block_index => j.buckets[a] = k.buckets[a]
  <2>1. Represents(k, view) /\ Saved(k.contexts[c])  BY <1>3
  <2> QED BY <1>4, <1>6, <2>1, ReleaseShows
<1>7. c \in DOMAIN j.contexts /\ j.contexts[c].block_index = 0  BY <1>4, <1>5, EmptyIsCell
<1>a. Represents(n, Append(view, <<>>)) /\ Added(j, n, c)
  <2>1. AddStep(j, view, c, n)  BY <1>5, <1>6, <1>7 DEF AddStep
  <2> QED BY <2>1, AppendBucketShows
<1>8. /\ Represents(n, Append(view, <<>>))
      /\ Len(n.buckets) = Len(j.buckets) + 1 /\ n.buckets[Len(j.buckets) + 1].raw = c
      /\ n.buckets[Len(j.buckets) + 1].refs = 0
      /\ \A a \in 1..Len(j.buckets) : n.buckets[a] = j.buckets[a]
      /\ n.size = j.size /\ n.contexts[c].dirty
  BY <1>a DEF Added
<1>9. Len(j.buckets) = L /\ Len(m.buckets) = L  BY <1>1, <1>3, <1>5
<1>10. Grows(m, n)
  <2>1. ASSUME NEW a \in 1..Len(m.buckets)
        PROVE  /\ n.buckets[a].refs = m.buckets[a].refs
               /\ a < Len(m.buckets) => n.buckets[a].raw = m.buckets[a].raw
    <3>1. n.buckets[a] = j.buckets[a] /\ j.buckets[a].refs = m.buckets[a].refs
      BY <1>3, <1>5, <1>8, <1>9
    <3>2. a < Len(m.buckets) => a # L  BY <1>1
    <3>3. a < Len(m.buckets) => j.buckets[a] = m.buckets[a]  BY <1>2, <1>3, <1>5, <3>2
    <3> QED BY <3>1, <3>3
  <2>2. Len(n.buckets) = Len(m.buckets) + 1 /\ n.buckets[Len(m.buckets) + 1].refs = 0
    BY <1>8, <1>9
  <2> QED BY <2>1, <2>2, AppendedGrows
<1>11. BackIsDirty(n)
  <2>1. Len(n.buckets) # 0 /\ Len(n.buckets) = Len(j.buckets) + 1  BY <1>1, <1>8, <1>9
  <2> QED BY <1>1, <1>8, <2>1 DEF BackIsDirty
<1> QED BY <1>3, <1>5, <1>8, <1>10, <1>11

\* There is a back bucket with room.
Ensured(m) == IF BackHasRoom(m) THEN m ELSE EnsureHasBackBucket(m)

LEMMA EnsuredShows ==
  ASSUME NEW m, NEW view, Represents(m, view), Solid(view),
         NEW n, n = Ensured(m)
  PROVE  /\ \E s : Represents(n, s) /\ Roomy(view, s)
         /\ Grows(m, n) /\ n.size = m.size /\ BackIsDirty(n)
PROOF
<1> DEFINE L == Len(m.buckets)
           c == m.buckets[L].raw
<1>1. L \in Nat /\ Len(view) = L /\ \A b \in 1..L : Len(view[b]) \in 0..BlockSize
  BY MemoryFacts
<1>2. CASE L = 0 \/ c = NoContext
  <2>1. ~BackHasRoom(m)
    <3>1. CASE L = 0  BY <3>1 DEF BackHasRoom
    <3>2. CASE L # 0
      <4>1. L \in 1..L /\ c = NoContext  BY <1>1, <1>2, <3>2
      <4>2. m.buckets[L].compressed \in Full  BY <1>1, <4>1, BucketFacts
      <4>3. FindCompressed(m, L) # Null  BY <4>1, <4>2, FullBlocks DEF FindCompressed, RawOf
      <4> QED BY <4>3 DEF BackHasRoom
    <3> QED BY <3>1, <3>2
  <2>2. n = NewBackBucket(MakeOrFindFreeContext(m, NoContext))
    BY <1>1, <1>2, <2>1 DEF Ensured, EnsureHasBackBucket, RawOf
  <2>3. L = 0 \/ Len(view[L]) = BlockSize
    <3>1. CASE L = 0  BY <3>1
    <3>2. CASE L # 0
      <4>1. L \in 1..L /\ c = NoContext  BY <1>1, <1>2, <3>2
      <4>2. m.buckets[L].compressed \in Full /\ Shows(m.buckets[L].compressed, view[L])
        BY <1>1, <4>1, BucketFacts
      <4> QED BY <4>2, FullBlocks DEF Shows
    <3> QED BY <3>1, <3>2
  <2>4. Represents(n, Append(view, <<>>)) /\ Grows(m, n) /\ n.size = m.size /\ BackIsDirty(n)
    BY <2>2, NewBackShows
  <2>5. Roomy(view, Append(view, <<>>))  BY <1>1, <2>3 DEF Roomy
  <2> QED BY <2>4, <2>5
<1>3. CASE L # 0 /\ c # NoContext
  <2>1. L \in 1..L  BY <1>1, <1>3
  <2>2. /\ c \in DOMAIN m.contexts /\ m.contexts[c].block_index = L
        /\ Shows(m.contexts[c].data, view[L]) /\ (m.contexts[c].dirty \/ Saved(m.contexts[c]))
    BY <1>1, <1>3, <2>1, BucketFacts
  <2>3. Len(m.contexts[c].data) = Len(view[L]) /\ Len(view[L]) \in 0..BlockSize /\ BlockSize \in Nat
    BY <1>1, <2>1, <2>2, Constants DEF Shows
  <2>4. CASE Len(view[L]) = BlockSize
    <3>1. ~BackHasRoom(m)  BY <2>3, <2>4 DEF BackHasRoom, RawOf
    <3>2. n = AppendBucket(Release(Compress(m, c), c), c)
      BY <1>3, <2>3, <2>4, <3>1 DEF Ensured, EnsureHasBackBucket, RawOf
    <3> HIDE DEF c
    <3>3. c = m.buckets[L].raw  BY DEF c
    <3>4. Represents(n, Append(view, <<>>)) /\ Grows(m, n) /\ n.size = m.size /\ BackIsDirty(n)
      BY <1>1, <1>3, <2>2, <2>3, <2>4, <3>2, <3>3, NextBackShows
    <3>5. Roomy(view, Append(view, <<>>))  BY <1>1, <2>4 DEF Roomy
    <3> QED BY <3>4, <3>5
  <2>5. CASE Len(view[L]) # BlockSize
    <3>1. n = m  BY <1>1, <1>3, <2>3, <2>5 DEF Ensured, EnsureHasBackBucket, RawOf
    <3>2. m.contexts[c].dirty  BY <2>2, <2>3, <2>5 DEF Saved
    <3>3. BackIsDirty(m)  BY <1>3, <3>2 DEF BackIsDirty
    <3>4. Len(view[L]) < BlockSize  BY <2>3, <2>5
    <3>5. Roomy(view, view)  BY <1>1, <1>3, <3>4 DEF Roomy
    <3>6. Grows(m, m)
      <4>1. Keeps(m, m, NoContext)  BY KeepsSame
      <4> QED BY <4>1, KeepsMoves
    <3> QED BY <3>1, <3>3, <3>5, <3>6
  <2> QED BY <2>4, <2>5
<1> QED BY <1>2, <1>3

LEMMA EmplaceBackHolds ==
  ASSUME NEW m, NEW w, Holds(m, w), NEW v \in Values, NEW n, n = EmplaceBack(m, v)
  PROVE  Holds(n, Append(w, v)) /\ Grows(m, n)
PROOF
<1> DEFINE k == Ensured(m)
<1>1. PICK view : Represents(m, view) /\ Splits(view, w)  BY DEF Holds
<1>2. n = AppendValue(k, v)  BY DEF EmplaceBack, Ensured
<1>3. Solid(view) /\ w \in Seq(Values)  BY <1>1, SplitsFacts DEF Splits
<1>4. /\ \E s : Represents(k, s) /\ Roomy(view, s)
      /\ Grows(m, k) /\ k.size = m.size /\ BackIsDirty(k)
  BY <1>1, <1>3, EnsuredShows
<1>5. PICK s : Represents(k, s) /\ Roomy(view, s)  BY <1>4
<1> HIDE DEF k
<1> DEFINE b == Len(s)
           shown == [s EXCEPT ![b] = Append(s[b], v)]
<1>6. b = Len(k.buckets) /\ b # 0 /\ k.buckets[b].raw # NoContext
      /\ k.contexts[k.buckets[b].raw].dirty
  BY <1>4, <1>5, MemoryFacts DEF BackIsDirty
<1>7. Len(s[b]) < BlockSize
  <2>1. CASE s = view /\ Len(view[Len(view)]) < BlockSize  BY <2>1
  <2>2. CASE s = Append(view, <<>>)
    <3>1. view \in Seq(Seq(Values)) /\ <<>> \in Seq(Values)  BY <1>1, MemoryFacts
    <3>2. s[b] = <<>>  BY <2>2, <3>1
    <3> QED BY <3>2, Constants
  <2> QED BY <1>5, <2>1, <2>2 DEF Roomy
<1>8. Splits(shown, Append(w, v))  BY <1>1, <1>5, SplitsPush
<1>9. Represents(n, shown) /\ n.buckets = k.buckets /\ n.size = k.size + 1
  <2>1. PushStep(k, s, v, shown, n)  BY <1>2, <1>5, <1>6, <1>7 DEF PushStep
  <2> HIDE DEF shown
  <2> QED BY <2>1, AppendValueShows
<1>10. Holds(n, Append(w, v))
  <2>1. Len(Append(w, v)) = Len(w) + 1  BY <1>3
  <2>2. n.size = Len(Append(w, v))  BY <1>4, <1>9, <2>1 DEF Holds
  <2> QED BY <1>8, <1>9, <2>2 DEF Holds
<1>11. Grows(m, n)  BY <1>4, <1>9 DEF Grows, Moves
<1> QED BY <1>10, <1>11

LEMMA HoldsFacts ==
  ASSUME NEW m, NEW w, Holds(m, w)
  PROVE  /\ IsMemory(m) /\ Listed(m) /\ Len(m.buckets) \in Nat
         /\ w \in Seq(Values) /\ Len(w) \in Nat /\ m.size = Len(w)
         /\ Len(m.buckets) = IF Len(w) = 0 THEN 0 ELSE BucketOf(Len(w))
         /\ DOMAIN m.buckets = 1..Len(m.buckets)
PROOF
<1>1. PICK view : Represents(m, view) /\ Splits(view, w)  BY DEF Holds
<1>2. IsMemory(m) /\ Listed(m) /\ Len(view) = Len(m.buckets) /\ Len(view) \in Nat
      /\ DOMAIN m.buckets = 1..Len(view)
  BY <1>1, MemoryFacts
<1>3. w \in Seq(Values) /\ Len(view) = IF Len(w) = 0 THEN 0 ELSE BucketOf(Len(w))
  BY <1>1 DEF Splits
<1> QED BY <1>2, <1>3 DEF Holds

-----------------------------------------------------------------------------
(* resize to more values *)

\* The first n values of w, or all of them and copies of v.
Sized(w, n, v) == [i \in 1..n |-> IF i <= Len(w) THEN w[i] ELSE v]

LEMMA SizedFacts ==
  ASSUME NEW w \in Seq(Values), NEW n \in Nat, NEW v \in Values
  PROVE  /\ Sized(w, n, v) \in Seq(Values) /\ Len(Sized(w, n, v)) = n
         /\ \A i \in 1..n : Sized(w, n, v)[i] = IF i <= Len(w) THEN w[i] ELSE v
PROOF
<1> DEFINE t == Sized(w, n, v)
<1>1. t = [i \in 1..n |-> IF i <= Len(w) THEN w[i] ELSE v]  BY DEF Sized
<1>2. \A i \in 1..n : (IF i <= Len(w) THEN w[i] ELSE v) \in Values
  <2>1. \A i \in 1..n : i <= Len(w) => i \in 1..Len(w)  OBVIOUS
  <2>2. \A i \in 1..Len(w) : w[i] \in Values  OBVIOUS
  <2> QED BY <2>1, <2>2
<1>3. t \in [1..n -> Values]  BY <1>1, <1>2
<1> QED BY <1>1, <1>3

LEMMA SizedSame ==
  ASSUME NEW w \in Seq(Values), NEW v \in Values
  PROVE  Sized(w, Len(w), v) = w
PROOF
<1> DEFINE t == Sized(w, Len(w), v)
           B == Values
<1>1. Len(w) \in Nat  OBVIOUS
<1>2. t \in Seq(B) /\ Len(t) = Len(w) /\ w \in Seq(B)
      /\ \A i \in 1..Len(w) : t[i] = IF i <= Len(w) THEN w[i] ELSE v
  BY <1>1, SizedFacts
<1>3. \A i \in 1..Len(w) : t[i] = w[i]  BY <1>1, <1>2
<1> HIDE DEF t, B
<1>4. t = w  BY <1>2, <1>3, SameValues
<1> QED BY <1>4 DEF t

LEMMA SizedPush ==
  ASSUME NEW w \in Seq(Values), NEW k \in Nat, Len(w) <= k, NEW v \in Values
  PROVE  Append(Sized(w, k, v), v) = Sized(w, k + 1, v)
PROOF
<1> DEFINE s == Sized(w, k, v)
           t == Sized(w, k + 1, v)
           a == Append(s, v)
           B == Values
<1>1. Len(w) \in Nat /\ k + 1 \in Nat  OBVIOUS
<1>2. s \in Seq(B) /\ Len(s) = k /\ \A i \in 1..k : s[i] = IF i <= Len(w) THEN w[i] ELSE v
  BY SizedFacts
<1>3. t \in Seq(B) /\ Len(t) = k + 1
      /\ \A i \in 1..(k + 1) : t[i] = IF i <= Len(w) THEN w[i] ELSE v
  BY <1>1, SizedFacts
<1> HIDE DEF s, t
<1>4. a \in Seq(B) /\ Len(a) = k + 1 /\ a[k + 1] = v /\ \A i \in 1..k : a[i] = s[i]
  BY <1>2
<1>5. ASSUME NEW i \in 1..(k + 1) PROVE a[i] = t[i]
  <2> HIDE DEF a
  <2>1. CASE i = k + 1
    <3>1. ~(i <= Len(w))  BY <1>1, <2>1
    <3> QED BY <1>3, <1>4, <2>1, <3>1
  <2>2. CASE i # k + 1
    <3>1. i \in 1..k  BY <2>2
    <3> QED BY <1>2, <1>3, <1>4, <3>1
  <2> QED BY <2>1, <2>2
<1> HIDE DEF a, B
<1>6. a = t  BY <1>3, <1>4, <1>5, SameValues
<1> QED BY <1>6 DEF a, s, t

\* More and more values, or less and less.
LEMMA SizedAgain ==
  ASSUME NEW w \in Seq(Values), NEW k \in Nat, NEW n \in Nat, NEW v \in Values,
         (Len(w) <= k /\ k <= n) \/ n <= k
  PROVE  Sized(Sized(w, k, v), n, v) = Sized(w, n, v)
PROOF
<1> DEFINE s == Sized(w, k, v)
           t == Sized(w, n, v)
           a == Sized(s, n, v)
           B == Values
<1>1. Len(w) \in Nat  OBVIOUS
<1>2. s \in Seq(B) /\ Len(s) = k /\ \A i \in 1..k : s[i] = IF i <= Len(w) THEN w[i] ELSE v
  BY SizedFacts
<1>3. t \in Seq(B) /\ Len(t) = n
      /\ \A i \in 1..n : t[i] = IF i <= Len(w) THEN w[i] ELSE v
  BY SizedFacts
<1> HIDE DEF s, t
<1>4. a \in Seq(B) /\ Len(a) = n /\ \A i \in 1..n : a[i] = IF i <= Len(s) THEN s[i] ELSE v
  <2>1. s \in Seq(Values)  BY <1>2
  <2>2. /\ Sized(s, n, v) \in Seq(Values) /\ Len(Sized(s, n, v)) = n
        /\ \A i \in 1..n : Sized(s, n, v)[i] = IF i <= Len(s) THEN s[i] ELSE v
    BY <2>1, SizedFacts
  <2> QED BY <2>2
<1> HIDE DEF a
<1>5. ASSUME NEW i \in 1..n PROVE a[i] = t[i]
  <2>1. CASE i <= k
    <3>1. i \in 1..k  BY <2>1
    <3> QED BY <1>2, <1>3, <1>4, <2>1, <3>1
  <2>2. CASE ~(i <= k)
    <3>1. ~(i <= Len(w)) /\ ~(i <= Len(s))  BY <1>1, <1>2, <2>2
    <3> QED BY <1>3, <1>4, <3>1
  <2> QED BY <2>1, <2>2
<1> HIDE DEF B
<1>6. a = t  BY <1>3, <1>4, <1>5, SameValues
<1> QED BY <1>6 DEF a, s, t

LEMMA PushesHold ==
  ASSUME NEW m, NEW w, Holds(m, w), NEW n \in Nat, NEW v \in Values,
         NEW k, k = PushValues(m, n, v)
  PROVE  Holds(k, Sized(w, Len(w) + n, v)) /\ Grows(m, k)
PROOF
<1>1. w \in Seq(Values) /\ Len(w) \in Nat  BY HoldsFacts
<1>2. PICK h : /\ h[0] = m /\ \A i \in 1..n : h[i] = EmplaceBack(h[i - 1], v)
               /\ PushValues(m, n, v) = h[n]
  BY PushChain
<1> DEFINE S == {i \in 0..n : Holds(h[i], Sized(w, Len(w) + i, v)) /\ Grows(m, h[i])}
<1>3. 0 \in S
  <2>1. Sized(w, Len(w) + 0, v) = w
    <3>1. Len(w) + 0 = Len(w)  BY <1>1
    <3> QED BY <1>1, <3>1, SizedSame
  <2>2. Grows(m, m)
    <3>1. Keeps(m, m, NoContext)  BY KeepsSame
    <3>2. PICK view : Represents(m, view)  BY DEF Holds
    <3> QED BY <3>1, <3>2, KeepsMoves
  <2> QED BY <1>2, <2>1, <2>2
<1>4. ASSUME NEW i \in 0..(n - 1), i \in S PROVE i + 1 \in S
  <2> DEFINE s == Sized(w, Len(w) + i, v)
             a == h[i]
             b == h[i + 1]
  <2>1. Holds(a, s) /\ Grows(m, a)  BY <1>4
  <2>2. b = EmplaceBack(a, v)
    <3>1. i + 1 \in 1..n /\ (i + 1) - 1 = i  OBVIOUS
    <3> QED BY <1>2, <3>1
  <2> HIDE DEF a, b, s
  <2>3. Holds(b, Append(s, v)) /\ Grows(a, b)  BY <2>1, <2>2, EmplaceBackHolds
  <2>4. Append(s, v) = Sized(w, (Len(w) + i) + 1, v)
    <3>1. Len(w) + i \in Nat /\ Len(w) <= Len(w) + i  BY <1>1
    <3> QED BY <1>1, <3>1, SizedPush DEF s
  <2>5. Grows(m, b)
    <3>1. Len(m.buckets) \in Nat /\ Len(a.buckets) \in Nat /\ Len(b.buckets) \in Nat
      BY <2>1, <2>3, HoldsFacts
    <3> QED BY <2>1, <2>3, <3>1, GrowsTwice
  <2>6. (Len(w) + i) + 1 = Len(w) + (i + 1) /\ i + 1 \in 0..n  BY <1>1
  <2>7. Holds(b, Sized(w, Len(w) + (i + 1), v))  BY <2>3, <2>4, <2>6
  <2> QED BY <2>5, <2>6, <2>7 DEF b
<1> HIDE DEF S
<1>5. \A i \in 0..n : i \in S  BY <1>3, <1>4, Induction
<1>6. n \in S  BY <1>5
<1> QED BY <1>2, <1>6 DEF S

LEMMA Multiple ==
  ASSUME NEW k \in Nat, NEW a, a = k * BlockSize
  PROVE  a \in Nat /\ a % BlockSize = 0
PROOF
<1> DEFINE q == a \div BlockSize
           r == a % BlockSize
<1>1. BlockSize \in Nat /\ BlockSize > 0 /\ a \in Nat  BY Constants
<1>2. q \in Nat /\ r \in Nat /\ r < BlockSize /\ a = BlockSize * q + r  BY <1>1, Division
<1> HIDE DEF q, r
<1>3. ASSUME r # 0 PROVE FALSE
  <2>1. r \in 1..BlockSize /\ a = q * BlockSize + r  BY <1>1, <1>2, <1>3
  <2>2. k >= 1
    <3>1. CASE k = 0
      <4>1. a = 0 /\ q * BlockSize >= 0  BY <1>1, <1>2, <3>1
      <4> QED BY <1>1, <1>2, <1>3, <2>1, <4>1
    <3>2. CASE k # 0  BY <3>2
    <3> QED BY <3>1, <3>2
  <2>3. (k - 1) * BlockSize + BlockSize = q * BlockSize + r
    <3>1. (k - 1) * BlockSize + BlockSize = k * BlockSize  BY <1>1, <2>2
    <3> QED BY <2>1, <3>1
  <2>4. k - 1 \in Nat /\ BlockSize \in 1..BlockSize  BY <1>1, <2>2
  <2>5. r = BlockSize  BY <1>2, <2>1, <2>3, <2>4, OnePosition
  <2> QED BY <1>1, <1>2, <2>5
<1> QED BY <1>1, <1>3 DEF r

LEMMA IsMultiple ==
  ASSUME NEW a \in Nat, a % BlockSize = 0
  PROVE  \E k \in Nat : a = k * BlockSize
PROOF
<1> DEFINE q == a \div BlockSize
<1>1. BlockSize \in Nat /\ BlockSize > 0  BY Constants
<1>2. q \in Nat /\ a = BlockSize * q + (a % BlockSize)  BY <1>1, Division
<1> HIDE DEF q
<1>3. a = q * BlockSize  BY <1>1, <1>2
<1> QED BY <1>2, <1>3

\* A whole block more, or less.
LEMMA WholeMore ==
  ASSUME NEW a \in Nat, a % BlockSize = 0
  PROVE  /\ (a + BlockSize) % BlockSize = 0
         /\ a > 0 => a >= BlockSize /\ (a - BlockSize) % BlockSize = 0
PROOF
<1>1. BlockSize \in Nat /\ BlockSize > 0  BY Constants
<1>2. PICK k \in Nat : a = k * BlockSize  BY IsMultiple
<1>3. a + BlockSize = (k + 1) * BlockSize /\ k + 1 \in Nat  BY <1>1, <1>2
<1>4. ASSUME a > 0 PROVE a - BlockSize = (k - 1) * BlockSize /\ k - 1 \in Nat /\ a >= BlockSize
  <2>1. k >= 1
    <3>1. CASE k = 0  BY <1>1, <1>2, <1>4, <3>1
    <3>2. CASE k # 0  BY <3>2
    <3> QED BY <3>1, <3>2
  <2>2. a - BlockSize = (k - 1) * BlockSize /\ k - 1 \in Nat  BY <1>1, <1>2, <2>1
  <2>3. (k - 1) * BlockSize \in Nat  BY <1>1, <2>2
  <2> QED BY <1>1, <2>2, <2>3
<1>5. (a + BlockSize) % BlockSize = 0  BY <1>3, Multiple
<1>6. a > 0 => (a - BlockSize) % BlockSize = 0  BY <1>4, Multiple
<1> QED BY <1>4, <1>5, <1>6

LEMMA WholePosition ==
  ASSUME NEW N \in Nat, N > 0, N % BlockSize = 0
  PROVE  PosOf(N) = BlockSize
PROOF
<1> DEFINE q == N \div BlockSize
           b == BucketOf(N)
           p == PosOf(N)
<1>1. BlockSize \in Nat /\ BlockSize > 0  BY Constants
<1>2. q \in Nat /\ N = BlockSize * q + (N % BlockSize)  BY <1>1, Division
<1>3. b \in Nat /\ b >= 1 /\ p \in 1..BlockSize /\ N = (b - 1) * BlockSize + p  BY Position
<1> HIDE DEF q, b, p
<1>4. N = BlockSize * q  BY <1>1, <1>2
<1>5. q >= 1
  <2>1. CASE q = 0  BY <1>1, <1>4, <2>1
  <2>2. CASE q # 0  BY <1>2, <2>2
  <2> QED BY <2>1, <2>2
<1>6. (q - 1) * BlockSize + BlockSize = (b - 1) * BlockSize + p
  <2>1. (q - 1) * BlockSize + BlockSize = BlockSize * q  BY <1>1, <1>2
  <2> QED BY <1>3, <1>4, <2>1
<1>7. q - 1 \in Nat /\ b - 1 \in Nat /\ BlockSize \in 1..BlockSize  BY <1>1, <1>2, <1>3, <1>5
<1>8. p = BlockSize  BY <1>3, <1>6, <1>7, OnePosition
<1> QED BY <1>8 DEF p

\* A vector of whole blocks only.
Whole(w) == Len(w) % BlockSize = 0

\* A block is added to whole blocks.
LEMMA SplitsBlock ==
  ASSUME NEW view, NEW w, Splits(view, w), Whole(w),
         NEW block \in Seq(Values), Len(block) \in 1..BlockSize
  PROVE  Splits(Append(view, block), w \o block)
PROOF
<1> DEFINE L == Len(view)
           N == Len(w)
           B == BlockSize
           K == Len(block)
           t == w \o block
           shown == Append(view, block)
<1>1. w \in Seq(Values) /\ view \in Seq(Seq(Values)) /\ L \in Nat /\ N \in Nat
      /\ block \in Seq(Values) /\ K \in 1..B /\ K \in Nat /\ K > 0 /\ B \in Nat /\ B > 0
  BY SplitsFacts, Constants DEF Splits
<1>2. /\ N # 0 => L >= 1 /\ BucketOf(N) = L /\ PosOf(N) \in 1..B
      /\ N = 0 <=> L = 0
      /\ \A i \in 1..N : BucketOf(i) \in 1..L /\ PosOf(i) \in 1..Len(view[BucketOf(i)])
      /\ \A b \in 1..L : Len(view[b]) = IF b < L THEN B ELSE PosOf(N)
      /\ \A i \in 1..N : view[BucketOf(i)][PosOf(i)] = w[i]
  BY SplitsFacts DEF Splits
<1>3. t \in Seq(Values) /\ Len(t) = N + K
      /\ \A q \in 1..(N + K) : t[q] = IF q <= N THEN w[q] ELSE block[q - N]
  BY <1>1, Concatenation
<1>4. shown \in Seq(Seq(Values)) /\ Len(shown) = L + 1 /\ shown[L + 1] = block
      /\ \A b \in 1..L : shown[b] = view[b]
  BY <1>1
<1>5. N # 0 => PosOf(N) = B
  <2>1. N # 0 => N > 0  BY <1>1
  <2> QED BY <1>1, <2>1, WholePosition DEF Whole
<1>6. N = L * B
  <2>1. CASE N = 0  BY <1>1, <1>2, <2>1
  <2>2. CASE N # 0
    <3>1. N = (L - 1) * B + B
      <4>1. N > 0  BY <1>1, <2>2
      <4>2. N = (BucketOf(N) - 1) * B + PosOf(N)  BY <1>1, <4>1, Position
      <4> QED BY <1>2, <1>5, <2>2, <4>2
    <3>2. (L - 1) * B + B = L * B  BY <1>1
    <3> QED BY <3>1, <3>2
  <2> QED BY <2>1, <2>2
<1> HIDE DEF t, shown
<1> HIDE DEF K
<1>7. ASSUME NEW p \in 1..K
      PROVE  N + p \in 1..(N + K) /\ BucketOf(N + p) = L + 1 /\ PosOf(N + p) = p
  <2>1. N + p \in Nat /\ L + 1 \in Nat /\ L + 1 >= 1 /\ N + p = ((L + 1) - 1) * B + p
    BY <1>1, <1>6
  <2>2. N + p \in 1..(N + K) /\ p \in 1..B  BY <1>1
  <2> QED BY <2>1, <2>2, PositionIs
<1>8. K \in 1..K /\ N + K \in Nat /\ N + K # 0  BY <1>1
<1>9. BucketOf(Len(t)) = L + 1 /\ PosOf(Len(t)) = K /\ Len(t) # 0  BY <1>3, <1>7, <1>8
<1>10. Len(shown) = IF Len(t) = 0 THEN 0 ELSE BucketOf(Len(t))  BY <1>4, <1>9
<1>11. ASSUME NEW b \in 1..Len(shown)
       PROVE  Len(shown[b]) = IF b < Len(shown) THEN BlockSize ELSE PosOf(Len(t))
  <2>1. CASE b = L + 1
    <3>1. ~(b < Len(shown))  BY <1>1, <1>4, <2>1
    <3> QED BY <1>1, <1>4, <1>9, <2>1, <3>1 DEF K
  <2>2. CASE b # L + 1
    <3>1. b \in 1..L /\ b < Len(shown)  BY <1>1, <1>4, <2>2
    <3>2. N # 0  BY <1>1, <1>2, <3>1
    <3>3. Len(view[b]) = B  BY <1>2, <1>5, <3>1, <3>2
    <3> QED BY <1>4, <3>1, <3>3
  <2> QED BY <2>1, <2>2
<1>12. ASSUME NEW i \in 1..Len(t) PROVE shown[BucketOf(i)][PosOf(i)] = t[i]
  <2>0. i \in 1..(N + K)  BY <1>3
  <2>1. CASE i <= N
    <3>1. i \in 1..N  BY <1>1, <2>0, <2>1
    <3>2. shown[BucketOf(i)] = view[BucketOf(i)]  BY <1>2, <1>4, <3>1
    <3> QED BY <1>2, <1>3, <2>0, <2>1, <3>1, <3>2
  <2>2. CASE ~(i <= N)
    <3> DEFINE p == i - N
    <3>1. p \in 1..K /\ i = N + p  BY <1>1, <2>0, <2>2
    <3> HIDE DEF p
    <3>2. BucketOf(i) = L + 1 /\ PosOf(i) = p  BY <1>7, <3>1
    <3>3. t[i] = block[i - N]  BY <1>3, <2>0, <2>2
    <3> QED BY <1>4, <3>2, <3>3 DEF p
  <2> QED BY <2>1, <2>2
<1> QED BY <1>3, <1>4, <1>10, <1>11, <1>12 DEF Splits, t, shown

LEMMA SplitsWhole ==
  ASSUME NEW view, NEW w, Splits(view, w), Whole(w), NEW block \in Full
  PROVE  Splits(Append(view, block), w \o block)
PROOF
<1>1. block \in Seq(Values) /\ Len(block) \in 1..BlockSize
  <2>1. block \in Seq(Values) /\ Len(block) = BlockSize /\ BlockSize \in Nat /\ BlockSize > 0
    BY FullBlocks, Constants
  <2> QED BY <2>1
<1> QED BY <1>1, SplitsBlock

LEMMA BucketsLiveAndSize ==
  ASSUME NEW m, IsRecord(m), NEW f, NEW l, NEW s
  PROVE  [m EXCEPT !.buckets = f, !.live = l, !.size = s] =
           [buckets |-> f, contexts |-> m.contexts, order |-> m.order, size |-> s, live |-> l]
PROOF
<1> DEFINE j == [m EXCEPT !.buckets = f]
           k == [j EXCEPT !.live = l]
<1>1. j = [buckets |-> f, contexts |-> m.contexts, order |-> m.order, size |-> m.size, live |-> m.live]
  BY DEF IsRecord
<1>2. [m EXCEPT !.buckets = f, !.live = l, !.size = s] = [k EXCEPT !.size = s]  OBVIOUS
<1> HIDE DEF j
<1>3. k = [buckets |-> f, contexts |-> m.contexts, order |-> m.order, size |-> m.size, live |-> l]
  BY <1>1
<1> HIDE DEF k
<1> QED BY <1>2, <1>3

LEMMA AppendCompressedShows ==
  ASSUME NEW m, NEW view, Represents(m, view), NEW block \in Full,
         NEW n, n = AppendCompressed(m, block)
  PROVE  Represents(n, Append(view, block)) /\ Grows(m, n) /\ n.size = m.size + BlockSize
PROOF
<1> DEFINE k == [raw |-> NoContext, compressed |-> block, refs |-> 0]
           f == Append(m.buckets, k)
           l == m.live + 1
           s == m.size + BlockSize
<1>1. IsRecord(m) /\ m.live \in Int /\ m.size \in Int /\ m.contexts \in [DOMAIN m.contexts -> Cell]
      /\ NoContext \notin DOMAIN m.contexts
  BY MemoryFacts DEF IsMemory, NoContext
<1>2. n = [m EXCEPT !.buckets = f, !.live = l, !.size = s]  BY <1>1 DEF AppendCompressed, IsRecord
<1>3. block \in Seq(Values) /\ Len(block) = BlockSize /\ block \in Blocks /\ BlockSize \in Nat
  BY FullBlocks, Constants
<1>4. l \in Int /\ s \in Int  BY <1>1, <1>3
<1>5. k \in Bucket /\ k.raw = NoContext /\ k.compressed = block /\ k.refs = 0
  BY <1>3 DEF Bucket, NoContext
<1> HIDE DEF k, l, s
<1>6. f = Append(m.buckets, k)  OBVIOUS
<1> HIDE DEF f
<1>7. n = [buckets |-> f, contexts |-> m.contexts, order |-> m.order, size |-> s, live |-> l]
  BY <1>1, <1>2, BucketsLiveAndSize
<1>8. IsRecord(n) /\ n.buckets = Append(m.buckets, k) /\ n.order = m.order /\ n.contexts = m.contexts
      /\ n.size = s /\ n.live = l
  BY <1>6, <1>7 DEF IsRecord
<1>9. n.live = m.live + 1 /\ n.size = m.size + BlockSize  BY <1>8 DEF l, s
<1>10. Shows(block, block)  BY DEF Shows
<1>11. AppendStep(m, view, k, block, n)
  <2>1. n.live \in Int /\ n.size \in Int  BY <1>4, <1>8
  <2>2. Len(block) <= BlockSize  BY <1>3
  <2> QED BY <1>1, <1>3, <1>5, <1>8, <1>9, <1>10, <2>1, <2>2 DEF AppendStep
<1>12. /\ Represents(n, Append(view, block))
       /\ Len(n.buckets) = Len(m.buckets) + 1 /\ n.buckets[Len(m.buckets) + 1] = k
       /\ \A a \in 1..Len(m.buckets) : n.buckets[a] = m.buckets[a]
  BY <1>11, AppendChanges
<1>13. Grows(m, n)
  <2>1. n.buckets[Len(m.buckets) + 1].refs = 0  BY <1>5, <1>12
  <2>2. \A a \in 1..Len(m.buckets) :
          /\ n.buckets[a].refs = m.buckets[a].refs
          /\ a < Len(m.buckets) /\ m.buckets[a].refs > 0 /\ m.buckets[a].raw # NoContext
               => n.buckets[a].raw = m.buckets[a].raw
    BY <1>12
  <2> QED BY <1>12, <2>1, <2>2, AppendedGrows
<1> QED BY <1>9, <1>12, <1>13

LEMMA AppendCompressedHolds ==
  ASSUME NEW m, NEW w, Holds(m, w), Whole(w), NEW block \in Full,
         NEW n, n = AppendCompressed(m, block)
  PROVE  Holds(n, w \o block) /\ Grows(m, n) /\ Whole(w \o block) /\ Len(w \o block) = Len(w) + BlockSize
PROOF
<1>1. PICK view : Represents(m, view) /\ Splits(view, w)  BY DEF Holds
<1>2. w \in Seq(Values) /\ Len(w) \in Nat /\ m.size = Len(w)  BY HoldsFacts
<1>3. block \in Seq(Values) /\ Len(block) = BlockSize /\ BlockSize \in Nat /\ BlockSize > 0
  BY FullBlocks, Constants
<1>4. Represents(n, Append(view, block)) /\ Grows(m, n) /\ n.size = m.size + BlockSize
  BY <1>1, AppendCompressedShows
<1>5. Splits(Append(view, block), w \o block)  BY <1>1, SplitsWhole
<1>6. Len(w \o block) = Len(w) + BlockSize  BY <1>2, <1>3
<1>7. Holds(n, w \o block)
  <2>1. n.size = Len(w \o block)  BY <1>2, <1>4, <1>6
  <2> QED BY <1>4, <1>5, <2>1 DEF Holds
<1>8. (Len(w) + BlockSize) % BlockSize = 0  BY <1>2, WholeMore DEF Whole
<1> QED BY <1>4, <1>6, <1>7, <1>8 DEF Whole

LEMMA SizedCopies ==
  ASSUME NEW w \in Seq(Values), NEW k \in Nat, Len(w) <= k, NEW v \in Values
  PROVE  Sized(w, k, v) \o Copies(v) = Sized(w, k + BlockSize, v)
PROOF
<1> DEFINE s == Sized(w, k, v)
           t == Sized(w, k + BlockSize, v)
           c == Copies(v)
           a == s \o c
           B == Values
<1>1. Len(w) \in Nat /\ k + BlockSize \in Nat /\ BlockSize \in Nat  BY Constants
<1>2. s \in Seq(B) /\ Len(s) = k /\ \A i \in 1..k : s[i] = IF i <= Len(w) THEN w[i] ELSE v
  BY SizedFacts
<1>3. t \in Seq(B) /\ Len(t) = k + BlockSize
      /\ \A i \in 1..(k + BlockSize) : t[i] = IF i <= Len(w) THEN w[i] ELSE v
  BY <1>1, SizedFacts
<1>4. c \in Seq(B) /\ Len(c) = BlockSize /\ \A i \in 1..BlockSize : c[i] = v
  BY <1>1 DEF Copies
<1> HIDE DEF s, t, c
<1>5. a \in Seq(B) /\ Len(a) = k + BlockSize
      /\ \A i \in 1..(k + BlockSize) : a[i] = IF i <= k THEN s[i] ELSE c[i - k]
  BY <1>2, <1>4, Concatenation
<1> HIDE DEF a
<1>6. ASSUME NEW i \in 1..(k + BlockSize) PROVE a[i] = t[i]
  <2>1. CASE i <= k
    <3>1. i \in 1..k  BY <2>1
    <3> QED BY <1>2, <1>3, <1>5, <2>1, <3>1
  <2>2. CASE ~(i <= k)
    <3>1. i - k \in 1..BlockSize /\ ~(i <= Len(w))  BY <1>1, <2>2
    <3> QED BY <1>3, <1>4, <1>5, <2>2, <3>1
  <2> QED BY <2>1, <2>2
<1> HIDE DEF B
<1>7. a = t  BY <1>3, <1>5, <1>6, SameValues
<1> QED BY <1>7 DEF a, s, t, c

LEMMA DivUpFacts ==
  ASSUME NEW a \in Int, NEW q, q = DivUp(a, BlockSize)
  PROVE  q \in Nat /\ (a <= 0 => q = 0) /\ (a > 0 => q >= 1 /\ (q - 1) * BlockSize < a /\ a <= q * BlockSize)
PROOF
<1>1. BlockSize \in Nat /\ BlockSize > 0  BY Constants
<1>2. CASE a <= 0  BY <1>2 DEF DivUp
<1>3. CASE a > 0
  <2> DEFINE x == a + BlockSize - 1
             r == x % BlockSize
  <2>1. q = x \div BlockSize  BY <1>3 DEF DivUp
  <2>2. x \in Nat  BY <1>1, <1>3
  <2>3. q \in Nat /\ r \in Nat /\ r < BlockSize /\ x = BlockSize * q + r
    <3> HIDE DEF x
    <3> QED BY <1>1, <2>1, <2>2, Division
  <2> HIDE DEF r
  <2>4. q >= 1
    <3>1. CASE q = 0  BY <1>1, <1>3, <2>3, <3>1
    <3>2. CASE q # 0  BY <2>3, <3>2
    <3> QED BY <3>1, <3>2
  <2>5. (q - 1) * BlockSize = BlockSize * q - BlockSize /\ q * BlockSize = BlockSize * q
    BY <1>1, <2>3
  <2>6. BlockSize * q \in Nat  BY <1>1, <2>3
  <2> QED BY <1>1, <1>3, <2>3, <2>4, <2>5, <2>6
<1> QED BY <1>2, <1>3

LEMMA Wholes ==
  ASSUME NEW m, NEW w, Holds(m, w), NEW size \in Nat, NEW v \in Values,
         NEW q, q = DivUp(size - BlockSize - m.size, BlockSize), q # 0 => Whole(w),
         NEW n, n = AppendWhole(m, size, v)
  PROVE  q \in Nat /\ Holds(n, Sized(w, Len(w) + q * BlockSize, v)) /\ Grows(m, n)
PROOF
<1>1. w \in Seq(Values) /\ Len(w) \in Nat /\ m.size = Len(w) /\ BlockSize \in Nat
  BY HoldsFacts, Constants
<1>2. q \in Nat
  <2>1. size - BlockSize - m.size \in Int  BY <1>1
  <2> QED BY <2>1, DivUpFacts
<1>3. PICK h : /\ h[0] = m /\ \A k \in 1..q : h[k] = AppendCompressed(h[k - 1], Copies(v))
               /\ AppendWhole(m, size, v) = h[q]
  BY <1>2, WholeChain
<1> DEFINE N(i) == Len(w) + i * BlockSize
           S == {i \in 0..q : /\ Holds(h[i], Sized(w, N(i), v)) /\ Grows(m, h[i])
                              /\ q # 0 => Whole(Sized(w, N(i), v))}
<1>4. 0 \in S
  <2>1. Sized(w, N(0), v) = w
    <3>1. N(0) = Len(w)  BY <1>1
    <3> QED BY <1>1, <3>1, SizedSame
  <2>2. Grows(m, m)
    <3>1. Keeps(m, m, NoContext)  BY KeepsSame
    <3>2. PICK view : Represents(m, view)  BY DEF Holds
    <3> QED BY <3>1, <3>2, KeepsMoves
  <2> HIDE DEF N
  <2> QED BY <1>2, <1>3, <2>1, <2>2
<1>5. ASSUME NEW i \in 0..(q - 1), i \in S PROVE i + 1 \in S
  <2> DEFINE s == Sized(w, N(i), v)
             a == h[i]
             b == h[i + 1]
  <2>0. q # 0 /\ i + 1 \in 1..q /\ (i + 1) - 1 = i /\ i + 1 \in 0..q  BY <1>2
  <2>1. Holds(a, s) /\ Grows(m, a) /\ Whole(s)  BY <1>5, <2>0
  <2>2. b = AppendCompressed(a, Copies(v))  BY <1>3, <2>0
  <2>3. Copies(v) \in Full  BY DEF Copies, Full
  <2> HIDE DEF a, b, s
  <2>4. Holds(b, s \o Copies(v)) /\ Grows(a, b) /\ Whole(s \o Copies(v))
    BY <2>1, <2>2, <2>3, AppendCompressedHolds
  <2>5. N(i) \in Nat /\ Len(w) <= N(i) /\ N(i) + BlockSize = N(i + 1)
    <3>1. i * BlockSize \in Nat /\ (i + 1) * BlockSize = i * BlockSize + BlockSize
      BY <1>1, <1>2
    <3> QED BY <1>1, <3>1
  <2> HIDE DEF N
  <2>6. s \o Copies(v) = Sized(w, N(i + 1), v)
    BY <1>1, <2>5, SizedCopies DEF s
  <2>7. Grows(m, b)
    <3>1. Len(m.buckets) \in Nat /\ Len(a.buckets) \in Nat /\ Len(b.buckets) \in Nat
      BY <2>1, <2>4, HoldsFacts
    <3> QED BY <2>1, <2>4, <3>1, GrowsTwice
  <2> QED BY <2>0, <2>4, <2>6, <2>7 DEF b
<1> HIDE DEF S
<1>6. \A i \in 0..q : i \in S  BY <1>2, <1>4, <1>5, Induction
<1>7. q \in S  BY <1>2, <1>6
<1> QED BY <1>2, <1>3, <1>7 DEF S

LEMMA MinOfTwo ==
  ASSUME NEW x \in Int, NEW y \in Int
  PROVE  Min({x, y}) \in {x, y} /\ Min({x, y}) <= x /\ Min({x, y}) <= y
PROOF
<1>1. \E z \in {x, y} : \A u \in {x, y} : z <= u  OBVIOUS
<1> QED BY <1>1 DEF Min

\* What is missing to a whole block.
LEMMA ToWhole ==
  ASSUME NEW N \in Nat
  PROVE  (-N) % BlockSize \in 0..(BlockSize - 1) /\ (N + ((-N) % BlockSize)) % BlockSize = 0
PROOF
<1> DEFINE r == (-N) % BlockSize
           q == (-N) \div BlockSize
<1>1. BlockSize \in Nat /\ BlockSize > 0  BY Constants
<1>2. r \in 0..(BlockSize - 1) /\ q \in Int /\ -N = BlockSize * q + r  BY <1>1
<1> HIDE DEF r, q
<1>3. q <= 0
  <2>1. CASE q >= 1
    <3>1. BlockSize * q >= BlockSize  BY <1>1, <1>2, <2>1
    <3>2. BlockSize * q \in Int  BY <1>1, <1>2
    <3> QED BY <1>1, <1>2, <3>1, <3>2
  <2>2. CASE ~(q >= 1)  BY <1>2, <2>2
  <2> QED BY <2>1, <2>2
<1>4. N + r = (-q) * BlockSize /\ -q \in Nat  BY <1>1, <1>2, <1>3
<1>5. (N + r) % BlockSize = 0  BY <1>4, Multiple
<1> QED BY <1>2, <1>5 DEF r

LEMMA GrowHolds ==
  ASSUME NEW m, NEW w, Holds(m, w), NEW n \in Nat, Len(w) < n, NEW v \in Values,
         NEW k, k = ResizeGrow(m, n, v)
  PROVE  Holds(k, Sized(w, n, v)) /\ Grows(m, k)
PROOF
<1> DEFINE N == Len(w)
           B == BlockSize
           x == n - N
           y == (-N) % B
           a == Min({x, y})
           i == PushValues(m, a, v)
           w1 == Sized(w, N + a, v)
           q == DivUp(n - B - i.size, B)
           j == AppendWhole(i, n, v)
           w2 == Sized(w1, Len(w1) + q * B, v)
<1>1. w \in Seq(Values) /\ N \in Nat /\ m.size = N /\ B \in Nat /\ B > 0
  BY HoldsFacts, Constants
<1>2. x \in Nat /\ y \in 0..(B - 1) /\ (N + y) % B = 0  BY <1>1, ToWhole
<1>3. k = PushValues(j, n - j.size, v)  BY <1>1 DEF ResizeGrow, PushUpTo
<1> HIDE DEF y
<1>4. a \in Nat /\ a <= x /\ a <= y /\ (a = x \/ a = y)
  <2>1. x \in Int /\ y \in Int  BY <1>1, <1>2
  <2>2. a \in {x, y} /\ a <= x /\ a <= y  BY <2>1, MinOfTwo
  <2> HIDE DEF a
  <2> QED BY <1>2, <2>2
<1> HIDE DEF a
<1>5. N + a \in Nat /\ N <= N + a /\ N + a <= n /\ (N + a = n \/ (N + a) % B = 0)
  BY <1>1, <1>2, <1>4
<1>6. Holds(i, w1) /\ Grows(m, i)  BY <1>4, PushesHold
<1>7. w1 \in Seq(Values) /\ Len(w1) = N + a  BY <1>1, <1>5, SizedFacts
<1> HIDE DEF w1, i
<1>8. i.size = N + a  BY <1>6, <1>7, HoldsFacts
<1>9. q \in Nat /\ (n - B - i.size <= 0 => q = 0)
      /\ (n - B - i.size > 0 => (q - 1) * B < n - B - i.size)
  <2>1. n - B - i.size \in Int  BY <1>1, <1>5, <1>8
  <2> QED BY <2>1, DivUpFacts
<1> HIDE DEF q
<1>10. q # 0 => Whole(w1)
  <2>1. q # 0 => N + a # n  BY <1>1, <1>8, <1>9
  <2> QED BY <1>5, <1>7, <2>1 DEF Whole
<1>11. Holds(j, w2) /\ Grows(i, j)
  <2>1. q = DivUp(n - B - i.size, B)  BY DEF q
  <2> QED BY <1>6, <1>10, <2>1, Wholes
<1> DEFINE M == Len(w1) + q * B
<1>12. M \in Nat /\ Len(w1) <= M /\ M <= n
  <2>1. q * B \in Nat  BY <1>1, <1>9
  <2>2. q # 0 => (q - 1) * B < n - B - (N + a)  BY <1>8, <1>9, <1>1, <1>5
  <2>3. q # 0 => (q - 1) * B = q * B - B  BY <1>1, <1>9
  <2>4. q # 0 => M <= n  BY <1>1, <1>5, <1>7, <2>1, <2>2, <2>3
  <2>5. q = 0 => M = N + a  BY <1>1, <1>5, <1>7
  <2> QED BY <1>5, <1>7, <2>1, <2>4, <2>5
<1> HIDE DEF M
<1>13. w2 = Sized(w1, M, v)  BY DEF M
<1>14. w2 \in Seq(Values) /\ Len(w2) = M  BY <1>7, <1>12, <1>13, SizedFacts
<1> HIDE DEF w2, j
<1>15. j.size = M  BY <1>11, <1>14, HoldsFacts
<1>16. n - j.size \in Nat /\ Len(w2) + (n - j.size) = n  BY <1>12, <1>14, <1>15
<1>17. Holds(k, Sized(w2, n, v)) /\ Grows(j, k)
  <2>1. Holds(k, Sized(w2, Len(w2) + (n - j.size), v)) /\ Grows(j, k)
    BY <1>3, <1>11, <1>16, PushesHold
  <2> QED BY <1>16, <2>1
<1>18. Sized(w2, n, v) = Sized(w, n, v)
  <2>1. Sized(w2, n, v) = Sized(w1, n, v)
    <3>1. Sized(Sized(w1, M, v), n, v) = Sized(w1, n, v)  BY <1>7, <1>12, SizedAgain
    <3> QED BY <1>13, <3>1
  <2>2. Sized(w1, n, v) = Sized(w, n, v)
    <3>1. Sized(Sized(w, N + a, v), n, v) = Sized(w, n, v)  BY <1>1, <1>5, SizedAgain
    <3> QED BY <3>1 DEF w1
  <2> QED BY <2>1, <2>2
<1>19. Grows(m, k)
  <2>1. Len(m.buckets) \in Nat /\ Len(i.buckets) \in Nat /\ Len(j.buckets) \in Nat /\ Len(k.buckets) \in Nat
    BY <1>6, <1>11, <1>17, HoldsFacts
  <2>2. Grows(m, j)  BY <1>6, <1>11, <2>1, GrowsTwice
  <2> QED BY <1>17, <2>1, <2>2, GrowsTwice
<1> QED BY <1>17, <1>18, <1>19

-----------------------------------------------------------------------------
(* pop_back *)

\* All values but the last one.
IsFront(t, w) == t \in Seq(Values) /\ Len(t) = Len(w) - 1 /\ \A i \in 1..Len(t) : t[i] = w[i]

LEMMA FrontFacts ==
  ASSUME NEW S, NEW s \in Seq(S), Len(s) # 0
  PROVE  /\ Front(s) \in Seq(S) /\ Len(Front(s)) = Len(s) - 1
         /\ \A i \in 1..(Len(s) - 1) : Front(s)[i] = s[i]
PROOF
<1> DEFINE N == Len(s)
           f == SubSeq(s, 1, N - 1)
<1>1. N \in Nat /\ N >= 1 /\ 1 \in 1..(Len(s) + 1) /\ N - 1 \in (1 - 1)..Len(s)  OBVIOUS
<1>2. f = Front(s)  BY DEF Front
<1>3. f \in Seq(S) /\ Len(f) = (N - 1) - 1 + 1 /\ \A q \in 1..((N - 1) - 1 + 1) : f[q] = s[1 + q - 1]
  BY <1>1, Part
<1> HIDE DEF f
<1>4. (N - 1) - 1 + 1 = N - 1 /\ \A q \in 1..(N - 1) : 1 + q - 1 = q  BY <1>1
<1>5. \A q \in 1..(N - 1) : f[q] = s[q]  BY <1>3, <1>4
<1> QED BY <1>2, <1>3, <1>4, <1>5

LEMMA SplitsPop ==
  ASSUME NEW view, NEW w, Splits(view, w), Len(w) # 0, NEW t, IsFront(t, w),
         NEW s, s = [view EXCEPT ![Len(view)] = Front(view[Len(view)])],
         NEW shown, shown = IF Len(view[Len(view)]) = 1 THEN Front(s) ELSE s
  PROVE  /\ Splits(shown, t)
         /\ s \in Seq(Seq(Values)) /\ Len(s) = Len(view) /\ s[Len(view)] = Front(view[Len(view)])
         /\ \A a \in 1..Len(view) : a # Len(view) => s[a] = view[a]
PROOF
<1> DEFINE L == Len(view)
           N == Len(w)
           u == view[L]
           f == Front(u)
<1>1. w \in Seq(Values) /\ view \in Seq(Seq(Values)) /\ L \in Nat /\ N \in Nat /\ N > 0
      /\ BlockSize \in Nat /\ BlockSize > 0
  BY SplitsFacts, Constants DEF Splits
<1>2. /\ L >= 1 /\ BucketOf(N) = L /\ PosOf(N) \in 1..BlockSize
      /\ \A i \in 1..N : BucketOf(i) \in 1..L /\ PosOf(i) \in 1..Len(view[BucketOf(i)])
      /\ \A b \in 1..L : Len(view[b]) = IF b < L THEN BlockSize ELSE PosOf(N)
      /\ \A i \in 1..N : view[BucketOf(i)][PosOf(i)] = w[i]
  BY <1>1, SplitsFacts DEF Splits
<1>3. L \in 1..L /\ u \in Seq(Values) /\ Len(u) = PosOf(N) /\ Len(u) # 0
  <2>1. L \in 1..L /\ ~(L < L)  BY <1>1, <1>2
  <2>2. u \in Seq(Values)  BY <1>1, <2>1
  <2>3. Len(u) = PosOf(N)  BY <1>2, <2>1
  <2> QED BY <1>2, <2>1, <2>2, <2>3
<1>4. f \in Seq(Values) /\ Len(f) = Len(u) - 1 /\ \A i \in 1..(Len(u) - 1) : f[i] = u[i]
  BY <1>3, FrontFacts
<1>5. s = [view EXCEPT ![L] = f]  OBVIOUS
<1> HIDE DEF f
<1>6. s \in Seq(Seq(Values)) /\ Len(s) = L /\ s[L] = f /\ \A a \in 1..L : a # L => s[a] = view[a]
  BY <1>1, <1>3, <1>4, <1>5
<1>7. t \in Seq(Values) /\ Len(t) = N - 1 /\ \A i \in 1..(N - 1) : t[i] = w[i]
  BY DEF IsFront
<1> HIDE DEF N
<1>7a. N - 1 # 0 => /\ PosOf(N - 1) # BlockSize => L = BucketOf(N - 1) /\ PosOf(N) = PosOf(N - 1) + 1
                    /\ PosOf(N - 1) = BlockSize => L = BucketOf(N - 1) + 1 /\ PosOf(N) = 1
  <2>1. ASSUME N - 1 # 0
        PROVE /\ PosOf(N - 1) # BlockSize => L = BucketOf(N - 1) /\ PosOf(N) = PosOf(N - 1) + 1
              /\ PosOf(N - 1) = BlockSize => L = BucketOf(N - 1) + 1 /\ PosOf(N) = 1
    <3>1. N - 1 \in Nat /\ N - 1 > 0 /\ (N - 1) + 1 = N  BY <1>1, <2>1
    <3> QED BY <1>2, <3>1, NextPosition
  <2> QED BY <2>1
<1>7b. N - 1 # 0 => BucketOf(N - 1) \in Nat /\ PosOf(N - 1) \in 1..BlockSize
  <2>1. N - 1 # 0 => N - 1 \in Nat /\ N - 1 > 0  BY <1>1
  <2> QED BY <2>1, Position
<1> HIDE DEF L, u
<1>8. ASSUME Len(u) = 1 PROVE Splits(shown, t)
  <2>1. shown = Front(s)  BY <1>8 DEF u, L
  <2>2. shown \in Seq(Seq(Values)) /\ Len(shown) = L - 1 /\ \A a \in 1..(L - 1) : shown[a] = s[a]
    <3>1. Len(s) # 0 /\ Len(s) = L  BY <1>2, <1>6
    <3>2. Front(s) \in Seq(Seq(Values)) /\ Len(Front(s)) = Len(s) - 1
          /\ \A i \in 1..(Len(s) - 1) : Front(s)[i] = s[i]
      BY <1>6, <3>1, FrontFacts
    <3> QED BY <2>1, <3>1, <3>2
  <2>3. \A a \in 1..(L - 1) : a \in 1..L /\ a # L /\ a < L /\ shown[a] = view[a]
    <3>1. \A a \in 1..(L - 1) : a \in 1..L /\ a # L /\ a < L  BY <1>1
    <3> QED BY <1>6, <2>2, <3>1
  <2>4. N - 1 = 0 => L = 1
    <3>1. N - 1 = 0 => N = 1  BY <1>1
    <3> QED BY <1>2, <3>1, FirstPosition
  <2>5. N - 1 # 0 => PosOf(N - 1) = BlockSize /\ BucketOf(N - 1) = L - 1
    <3>1. PosOf(N) = 1  BY <1>3, <1>8
    <3> QED BY <1>1, <1>7a, <1>7b, <3>1
  <2>6. Len(shown) = IF Len(t) = 0 THEN 0 ELSE BucketOf(Len(t))  BY <1>7, <2>2, <2>4, <2>5
  <2>7. ASSUME NEW b \in 1..Len(shown)
        PROVE  Len(shown[b]) = IF b < Len(shown) THEN BlockSize ELSE PosOf(Len(t))
    <3>1. b \in 1..(L - 1) /\ Len(shown[b]) = BlockSize  BY <1>2, <2>2, <2>3
    <3>2. N - 1 # 0  BY <1>1, <2>4, <3>1
    <3> QED BY <1>7, <2>5, <3>1, <3>2
  <2>8. ASSUME NEW i \in 1..Len(t) PROVE shown[BucketOf(i)][PosOf(i)] = t[i]
    <3>1. i \in 1..(N - 1) /\ i \in 1..N /\ i \in Nat /\ i > 0 /\ i <= N - 1  BY <1>1, <1>7
    <3>2. N - 1 # 0 /\ N - 1 \in Nat  BY <1>1, <3>1
    <3>3. BucketOf(i) <= L - 1  BY <2>5, <3>1, <3>2, PositionOrder
    <3>4. BucketOf(i) \in 1..(L - 1)  BY <1>1, <1>2, <3>1, <3>3
    <3> QED BY <1>2, <1>7, <2>3, <3>1, <3>4
  <2> QED BY <1>7, <2>2, <2>6, <2>7, <2>8 DEF Splits
<1>9. ASSUME Len(u) # 1 PROVE Splits(shown, t)
  <2>1. shown = s  BY <1>9 DEF u, L
  <2>2. N - 1 # 0
    <3>1. N - 1 = 0 => N = 1  BY <1>1
    <3> QED BY <1>3, <1>9, <3>1, FirstPosition
  <2>3. BucketOf(N - 1) = L /\ PosOf(N) = PosOf(N - 1) + 1  BY <1>3, <1>7a, <1>9, <2>2
  <2>4. Len(f) = PosOf(N - 1)  BY <1>3, <1>4, <1>7b, <2>2, <2>3
  <2>5. Len(shown) = IF Len(t) = 0 THEN 0 ELSE BucketOf(Len(t))  BY <1>6, <1>7, <2>1, <2>2, <2>3
  <2>6. ASSUME NEW b \in 1..Len(shown)
        PROVE  Len(shown[b]) = IF b < Len(shown) THEN BlockSize ELSE PosOf(Len(t))
    <3>1. CASE b = L
      <4>1. ~(b < Len(shown))  BY <1>1, <1>6, <2>1, <3>1
      <4> QED BY <1>6, <1>7, <2>1, <2>4, <3>1, <4>1
    <3>2. CASE b # L
      <4>1. b \in 1..L /\ b < L  BY <1>1, <1>6, <2>1, <3>2
      <4> QED BY <1>2, <1>6, <2>1, <3>2, <4>1
    <3> QED BY <3>1, <3>2
  <2>7. ASSUME NEW i \in 1..Len(t) PROVE shown[BucketOf(i)][PosOf(i)] = t[i]
    <3>1. i \in 1..(N - 1) /\ i \in 1..N /\ i \in Nat /\ i > 0 /\ i <= N - 1 /\ N - 1 \in Nat
      BY <1>1, <1>7
    <3>2. view[BucketOf(i)][PosOf(i)] = t[i] /\ BucketOf(i) \in 1..L  BY <1>2, <1>7, <3>1
    <3>3. CASE BucketOf(i) = L
      <4>1. PosOf(i) <= PosOf(N - 1)  BY <2>3, <3>1, <3>3, PositionOrder
      <4>2. PosOf(i) \in 1..(Len(u) - 1)
        <5>1. PosOf(i) \in Nat /\ PosOf(i) >= 1  BY <3>1, Position
        <5>2. Len(u) - 1 = PosOf(N - 1) /\ Len(u) \in Nat  BY <1>3, <1>4, <2>4
        <5> QED BY <4>1, <5>1, <5>2
      <4>3. f[PosOf(i)] = u[PosOf(i)]  BY <1>4, <4>2
      <4> QED BY <1>6, <2>1, <3>2, <3>3, <4>3 DEF u
    <3>4. CASE BucketOf(i) # L  BY <1>6, <2>1, <3>2, <3>4
    <3> QED BY <3>3, <3>4
  <2> QED BY <1>6, <1>7, <2>1, <2>5, <2>6, <2>7 DEF Splits
<1>10. Splits(shown, t)  BY <1>8, <1>9
<1> QED BY <1>6, <1>10 DEF f, u, L

\* The values of a context and the size change.
WithData(m, c, D, s) == [m EXCEPT !.contexts[c].data = D, !.size = s]

LEMMA EmptySequence == ASSUME NEW S, NEW s \in Seq(S) PROVE s = <<>> <=> Len(s) = 0
OBVIOUS

LEMMA DataAndSizeIs ==
  ASSUME NEW m, IsRecord(m), NEW c \in DOMAIN m.contexts, NEW D, NEW s,
         NEW x, x = [m.contexts[c] EXCEPT !.data = D]
  PROVE  WithData(m, c, D, s) = ContextChanged(m, c, x, s, m.live)
PROOF
<1> DEFINE g == [m.contexts EXCEPT ![c].data = D]
<1>1. g = [m.contexts EXCEPT ![c] = x]  OBVIOUS
<1>2. WithData(m, c, D, s) = [m EXCEPT !.contexts = g, !.size = s]
  BY DEF IsRecord, WithData
<1> HIDE DEF g
<1>3. [m EXCEPT !.contexts = g, !.size = s] =
        [buckets |-> m.buckets, contexts |-> g, order |-> m.order, size |-> s, live |-> m.live]
  BY ContextsAndSize
<1> QED BY <1>1, <1>2, <1>3 DEF ContextChanged

LEMMA ResetAndDropIs ==
  ASSUME NEW m, IsRecord(m), NEW c \in DOMAIN m.contexts
  PROVE  DropBackBucket(Reset(m, c)) =
           BucketsAndContexts(m, Front(m.buckets), [m.contexts EXCEPT ![c] = EmptyContext])
PROOF
<1> DEFINE g == [m.contexts EXCEPT ![c] = EmptyContext]
           f == Front(m.buckets)
           k == Reset(m, c)
<1>1. k = [m EXCEPT !.contexts = g]  BY DEF Reset, IsRecord
<1> HIDE DEF g
<1>2. k = [buckets |-> m.buckets, contexts |-> g, order |-> m.order, size |-> m.size, live |-> m.live]
  BY <1>1 DEF IsRecord
<1> HIDE DEF k, f
<1>3. [k EXCEPT !.buckets = f] = BucketsAndContexts(m, f, g)  BY <1>2 DEF BucketsAndContexts
<1>4. k.buckets = m.buckets  BY <1>2
<1>5. DropBackBucket(k) = [k EXCEPT !.buckets = Front(k.buckets)]  BY <1>2 DEF DropBackBucket
<1> QED BY <1>3, <1>4, <1>5 DEF f, k, g

\* The back bucket has a context, and loses its last value.
RemoveStep(m, view, s, shown, n) ==
  /\ Represents(m, view) /\ Len(view) # 0
  /\ Len(view[Len(view)]) # 0 /\ m.buckets[Len(view)].raw # NoContext
  /\ SameBut(view, s, Len(view)) /\ s[Len(view)] = Front(view[Len(view)])
  /\ shown = IF Len(view[Len(view)]) = 1 THEN Front(s) ELSE s
  /\ n = RemoveValue(m, m.buckets[Len(view)].raw)

LEMMA RemoveValueShows ==
  ASSUME NEW m, NEW view, NEW s, NEW shown, NEW n, RemoveStep(m, view, s, shown, n)
  PROVE  Represents(n, shown) /\ Shrinks(m, n) /\ n.size = m.size - 1
PROOF
<1> DEFINE L == Len(view)
<1>a. /\ Represents(m, view) /\ L # 0 /\ Len(view[L]) # 0 /\ m.buckets[L].raw # NoContext
      /\ SameBut(view, s, L) /\ s[L] = Front(view[L])
      /\ n = RemoveValue(m, m.buckets[L].raw)
  BY DEF RemoveStep
<1>b. shown = IF Len(view[L]) = 1 THEN Front(s) ELSE s  BY DEF RemoveStep
<1>c. L = Len(view)  OBVIOUS
<1> HIDE DEF L
<1> DEFINE c == m.buckets[L].raw
           y == m.contexts[c]
           z == [data |-> y.data, dirty |-> TRUE, block_index |-> L, buffer |-> Null]
           l == IF y.buffer = Null THEN m.live ELSE m.live - 1
           d == ContextChanged(m, c, z, m.size, l)
           D == Front(y.data)
           x == [data |-> D, dirty |-> TRUE, block_index |-> L, buffer |-> Null]
           f == m.size - 1
           j == ContextChanged(m, c, x, f, l)
<1>1. IsMemory(m) /\ IsRecord(m) /\ L \in 1..Len(view) /\ L = Len(m.buckets) /\ L \in Nat
      /\ m.size \in Int /\ m.live \in Int
  BY <1>a, <1>c, MemoryFacts DEF IsMemory
<1>2. /\ c # NoContext /\ c \in DOMAIN m.contexts /\ y.block_index = L /\ y \in Cell
      /\ Shows(y.data, view[L])
  BY <1>1, <1>a, <1>c, BucketFacts
<1>3. y = [data |-> y.data, dirty |-> y.dirty, block_index |-> y.block_index, buffer |-> y.buffer]
      /\ y.data \in Seq(Values)
  BY <1>2 DEF Cell
<1>4. Len(y.data) = Len(view[L]) /\ Len(y.data) # 0 /\ (NeverThrows => y.data = view[L])
  BY <1>a, <1>2 DEF Shows
<1>5. D \in Seq(Values) /\ Len(D) = Len(y.data) - 1  BY <1>3, <1>4, FrontFacts
<1> HIDE DEF y
<1>6. MarkDirtyAndFree(m, c) = d
  <2>1. MarkDirtyAndFree(m, c) =
          ContextChanged(m, c, [data |-> y.data, dirty |-> TRUE, block_index |-> y.block_index, buffer |-> Null],
                         m.size, IF y.buffer = Null THEN m.live ELSE m.live - 1)
    <3>1. y.block_index # 0 /\ y = m.contexts[c]  BY <1>1, <1>2 DEF y
    <3> HIDE DEF c
    <3> QED BY <1>1, <1>2, <1>3, <3>1, MarkAndFreeIs
  <2> QED BY <1>2, <2>1
<1> HIDE DEF l
<1>7. RemoveValue(m, c) = DropIfEmpty(j, c)
  <2>1. RemoveValue(m, c) = DropIfEmpty([d EXCEPT !.contexts[c].data = Front(@), !.size = @ - 1], c)
    BY <1>6 DEF RemoveValue
  <2>2. /\ IsRecord(d) /\ c \in DOMAIN d.contexts /\ d.contexts[c] = z
        /\ d.size = m.size /\ d.live = l
        /\ \A u, e, t : ContextChanged(d, c, u, e, t) = ContextChanged(m, c, u, e, t)
    <3>1. d = ContextChanged(m, c, z, m.size, l)  OBVIOUS
    <3> HIDE DEF d, z, c
    <3> QED BY <1>2, <3>1, ChangedAgain
  <2>3. z.data = y.data  OBVIOUS
  <2>4. x = [z EXCEPT !.data = D]
    <3> DEFINE T == TRUE
    <3>1. z = [data |-> y.data, dirty |-> T, block_index |-> L, buffer |-> Null]  OBVIOUS
    <3>2. x = [data |-> D, dirty |-> T, block_index |-> L, buffer |-> Null]  OBVIOUS
    <3> HIDE DEF T, D, z, x
    <3> QED BY <3>1, <3>2
  <2> HIDE DEF d, x, z
  <2>5. [d EXCEPT !.contexts[c].data = Front(@), !.size = @ - 1] = WithData(d, c, D, f)
    BY <2>2, <2>3 DEF IsRecord, WithData
  <2> HIDE DEF f, D, c
  <2>6. x = [d.contexts[c] EXCEPT !.data = D]  BY <2>2, <2>4
  <2>7. WithData(d, c, D, f) = ContextChanged(d, c, x, f, d.live)
    BY <2>2, <2>6, DataAndSizeIs
  <2>8. ContextChanged(d, c, x, f, d.live) = j  BY <2>2
  <2> HIDE DEF j
  <2> QED BY <2>1, <2>5, <2>7, <2>8
<1>8. x \in Cell /\ x.block_index = L /\ x.data = D /\ x.dirty /\ x.buffer = Null
  BY <1>1, <1>5, NoBlocks DEF Cell
<1> HIDE DEF x, D
<1>9. /\ IsRecord(j) /\ j.buckets = m.buckets /\ j.size = f /\ j.live = l
      /\ c \in DOMAIN j.contexts /\ j.contexts[c] = x
  <2>1. j = ContextChanged(m, c, x, f, l)  OBVIOUS
  <2> HIDE DEF j, c
  <2> QED BY <1>2, <2>1, ChangedAgain
<1>10. l \in Int /\ l + Count(y.buffer # Null) = m.live + Count(x.buffer # Null)
  BY <1>1, <1>8 DEF Count, l
<1>11. Shows(x.data, s[L])
  <2>1. Len(s[L]) = Len(view[L]) - 1
    <3>1. view[L] \in Seq(Values)  BY <1>1, <1>a, MemoryFacts
    <3> QED BY <1>a, <3>1, FrontFacts
  <2>2. NeverThrows => x.data = s[L]  BY <1>a, <1>4, <1>8 DEF D
  <2> QED BY <1>4, <1>5, <1>8, <2>1, <2>2 DEF Shows
<1>12. ContextStep(m, view, L, c, x, s, j)
  <2>1. f \in Int  BY <1>1
  <2>2. j = ContextChanged(m, c, x, j.size, j.live)  BY <1>9
  <2> HIDE DEF f, c, j
  <2> QED BY <1>1, <1>a, <1>2, <1>8, <1>9, <1>10, <1>11, <2>1, <2>2 DEF ContextStep, y
<1>13. Represents(j, s)  BY <1>12, ContextChanges
<1>14. j.contexts[c].data = <<>> <=> Len(view[L]) = 1
  <2>1. D = <<>> <=> Len(D) = 0  BY <1>5, EmptySequence
  <2>2. Len(view[L]) \in Nat  BY <1>1, <1>a, MemoryFacts
  <2> QED BY <1>4, <1>5, <1>8, <1>9, <2>1, <2>2
<1> HIDE DEF j
<1>15. CASE Len(view[L]) # 1
  <2>1. n = j  BY <1>a, <1>7, <1>14, <1>15 DEF DropIfEmpty
  <2>2. Shrinks(m, n)
    <3>1. Shrinks(m, m)
      <4>1. Keeps(m, m, NoContext)  BY KeepsSame
      <4> QED BY <1>a, <4>1, KeepsMoves
    <3> QED BY <1>9, <2>1, <3>1 DEF Shrinks, Moves
  <2> QED BY <1>b, <1>9, <1>13, <1>15, <2>1, <2>2 DEF f
<1>16. CASE Len(view[L]) = 1
  <2>1. FindCompressed(j, L) = Null  BY <1>2, <1>8, <1>9 DEF FindCompressed, RawOf
  <2>2. DeallocateBuffer(j, L) = j  BY <2>1 DEF DeallocateBuffer
  <2>3. n = DropBackBucket(Reset(j, c))
    BY <1>1, <1>a, <1>7, <1>9, <1>14, <1>16, <2>2 DEF DropIfEmpty
  <2> DEFINE g == [j.contexts EXCEPT ![c] = EmptyContext]
             b == Front(j.buckets)
  <2>4. n = BucketsAndContexts(j, b, g)
    <3> HIDE DEF c
    <3> QED BY <1>9, <2>3, ResetAndDropIs
  <2>5. g = [e \in DOMAIN j.contexts |-> IF e = j.buckets[Len(j.buckets)].raw THEN EmptyContext ELSE j.contexts[e]]
    BY <1>1, <1>9
  <2> HIDE DEF g, b
  <2>6. IsRecord(n) /\ n.buckets = b /\ n.contexts = g /\ n.order = j.order /\ n.size = j.size /\ n.live = j.live
    BY <2>4 DEF BucketsAndContexts, IsRecord
  <2>7. DropStep(j, s, n)
    <3>1. Len(j.buckets) # 0 /\ Len(j.buckets) = L  BY <1>1, <1>9
    <3>2. n.size \in Int  BY <1>1, <1>9, <2>6 DEF f
    <3> QED BY <1>13, <2>1, <2>5, <2>6, <3>1, <3>2 DEF DropStep, b
  <2>8. /\ Represents(n, Front(s)) /\ Len(n.buckets) = Len(j.buckets) - 1
        /\ \A a \in 1..Len(n.buckets) : n.buckets[a] = j.buckets[a]
    BY <2>7, DropChanges
  <2>9. Shrinks(m, n)
    <3>1. Len(n.buckets) = L - 1 /\ \A a \in 1..(L - 1) : n.buckets[a] = m.buckets[a]
      BY <1>1, <1>9, <2>8
    <3>2. \A a \in 1..(L - 1) : a <= L  BY <1>1
    <3>3. \A a \in 1..L : a <= L - 1 => a \in 1..(L - 1)  BY <1>1
    <3>4. L - 1 <= L  BY <1>1
    <3> QED BY <1>1, <3>1, <3>2, <3>3, <3>4 DEF Shrinks, Moves
  <2> QED BY <1>b, <1>9, <1>16, <2>6, <2>8, <2>9 DEF f
<1> QED BY <1>15, <1>16

LEMMA RemoveBackHolds ==
  ASSUME NEW m, NEW w, Holds(m, w), Len(w) # 0, NEW t, IsFront(t, w),
         NEW n, n = RemoveBack(m)
  PROVE  Holds(n, t) /\ Shrinks(m, n)
PROOF
<1>1. PICK view : Represents(m, view) /\ Splits(view, w)  BY DEF Holds
<1> DEFINE L == Len(view)
           k == DecompressBucket(m, L, NoContext)
           s == [view EXCEPT ![L] = Front(view[L])]
           shown == IF Len(view[L]) = 1 THEN Front(s) ELSE s
<1>2. /\ Solid(view) /\ L \in 1..L /\ Len(view[L]) # 0 /\ view \in Seq(Seq(Values))
      /\ L = Len(m.buckets) /\ m.size = Len(w) /\ Len(w) \in Nat
      /\ view[L] \in Seq(Values) /\ Len(view[L]) \in 0..BlockSize /\ BlockSize \in Nat
  <2>1. Solid(view) /\ L \in Nat /\ L >= 1 /\ Len(w) \in Nat  BY <1>1, SplitsFacts
  <2>2. L \in 1..L  BY <2>1
  <2>3. /\ view \in Seq(Seq(Values)) /\ L = Len(m.buckets)
        /\ view[L] \in Seq(Values) /\ Len(view[L]) \in 0..BlockSize
    BY <1>1, <2>2, MemoryFacts
  <2> QED BY <2>1, <2>2, <2>3, Constants DEF Holds, Solid
<1>3. Represents(k, view) /\ Keeps(m, k, NoContext) /\ k.buckets[L].raw # NoContext
  BY <1>1, <1>2, DecompressShows
<1>4. n = RemoveLast(k)  BY <1>2 DEF RemoveBack
<1> HIDE DEF k
<1>5. Len(k.buckets) = L /\ k.size = m.size  BY <1>2, <1>3 DEF Keeps
<1>6. n = RemoveValue(k, k.buckets[L].raw)  BY <1>4, <1>5 DEF RemoveLast, RawOf
<1>7. /\ Splits(shown, t)
      /\ s \in Seq(Seq(Values)) /\ Len(s) = L /\ s[L] = Front(view[L])
      /\ \A a \in 1..L : a # L => s[a] = view[a]
  BY <1>1, SplitsPop
<1>8. SameBut(view, s, L)
  <2>1. Len(Front(view[L])) = Len(view[L]) - 1  BY <1>2, FrontFacts
  <2> HIDE DEF s, shown
  <2>2. Len(s[L]) <= BlockSize  BY <1>2, <1>7, <2>1
  <2> QED BY <1>7, <2>2 DEF SameBut
<1> HIDE DEF s
<1>9. Represents(n, shown) /\ Shrinks(k, n) /\ n.size = k.size - 1
  <2>1. RemoveStep(k, view, s, shown, n)
    <3>1. L # 0  BY <1>2
    <3> QED BY <1>2, <1>3, <1>6, <1>7, <1>8, <3>1 DEF RemoveStep
  <2> HIDE DEF shown
  <2> QED BY <2>1, RemoveValueShows
<1>10. Len(t) = Len(w) - 1  BY DEF IsFront
<1>11. Holds(n, t)  BY <1>2, <1>5, <1>7, <1>9, <1>10 DEF Holds
<1>12. Shrinks(m, n)
  <2>1. Len(m.buckets) \in Nat /\ Len(k.buckets) \in Nat /\ Len(n.buckets) \in Nat
    BY <1>1, <1>3, <1>11, HoldsFacts, MemoryFacts
  <2>2. Shrinks(m, k)  BY <1>1, <1>3, KeepsMoves
  <2> QED BY <1>9, <2>1, <2>2, ShrinksTwice
<1> QED BY <1>11, <1>12

-----------------------------------------------------------------------------
(* resize to fewer values *)

LEMMA BucketsAndLive ==
  ASSUME NEW m, IsRecord(m), NEW f, NEW l
  PROVE  [m EXCEPT !.buckets = f, !.live = l] =
           [buckets |-> f, contexts |-> m.contexts, order |-> m.order, size |-> m.size, live |-> l]
PROOF
<1> DEFINE j == [m EXCEPT !.buckets = f]
<1>1. j = [buckets |-> f, contexts |-> m.contexts, order |-> m.order, size |-> m.size, live |-> m.live]
  BY DEF IsRecord
<1>2. [m EXCEPT !.buckets = f, !.live = l] = [j EXCEPT !.live = l]  OBVIOUS
<1> HIDE DEF j
<1> QED BY <1>1, <1>2

\* The compressed buffer of the back bucket is freed.
Freed(m, c, n) ==
  /\ IsRecord(n) /\ n.order = m.order /\ n.size = m.size
  /\ n.live = IF FindCompressed(m, Len(m.buckets)) = Null THEN m.live ELSE m.live - 1
  /\ Front(n.buckets) = Front(m.buckets)
  /\ DOMAIN n.contexts = DOMAIN m.contexts
  /\ \A d \in DOMAIN m.contexts : d # c => n.contexts[d] = m.contexts[d]
  /\ c = NoContext => n.contexts = m.contexts

LEMMA DeallocateShows ==
  ASSUME NEW m, NEW view, Represents(m, view), Len(view) # 0,
         NEW n, n = DeallocateBuffer(m, Len(m.buckets))
  PROVE  Freed(m, m.buckets[Len(m.buckets)].raw, n)
PROOF
<1> DEFINE L == Len(m.buckets)
           c == m.buckets[L].raw
<1>1. IsMemory(m) /\ IsRecord(m) /\ L \in Nat /\ L >= 1 /\ L \in 1..Len(view)
      /\ m.buckets \in Seq(Bucket) /\ m.contexts \in [DOMAIN m.contexts -> Cell]
  BY MemoryFacts DEF IsMemory
<1>2. CASE FindCompressed(m, L) = Null
  <2>1. n = m  BY <1>2 DEF DeallocateBuffer
  <2> QED BY <1>1, <1>2, <2>1 DEF Freed
<1>3. CASE FindCompressed(m, L) # Null /\ c = NoContext
  <2> DEFINE k == m.buckets[L]
             x == [k EXCEPT !.compressed = Null]
             f == [m.buckets EXCEPT ![L] = x]
             l == m.live - 1
  <2>1. n = [m EXCEPT !.buckets = f, !.live = l]
    BY <1>1, <1>3 DEF DeallocateBuffer, RawOf, IsRecord
  <2>2. k \in Bucket  BY <1>1
  <2>3. x \in Bucket  BY <2>2, NoBlocks DEF Bucket
  <2> HIDE DEF x
  <2>4. f \in Seq(Bucket) /\ Len(f) = L /\ \A a \in 1..L : a # L => f[a] = m.buckets[a]
    BY <1>1, <2>3
  <2> HIDE DEF f, l
  <2>5. n = [buckets |-> f, contexts |-> m.contexts, order |-> m.order, size |-> m.size, live |-> l]
    BY <1>1, <2>1, BucketsAndLive
  <2>6. IsRecord(n) /\ n.buckets = f /\ n.contexts = m.contexts /\ n.order = m.order
        /\ n.size = m.size /\ n.live = l
    BY <2>5 DEF IsRecord
  <2>7. Front(f) = Front(m.buckets)
    <3> DEFINE B == Bucket
    <3>1. Front(f) \in Seq(B) /\ Len(Front(f)) = L - 1 /\ \A i \in 1..(L - 1) : Front(f)[i] = f[i]
      <4>1. Len(f) # 0  BY <1>1, <2>4
      <4> QED BY <2>4, <4>1, FrontFacts
    <3>2. Front(m.buckets) \in Seq(B) /\ Len(Front(m.buckets)) = L - 1
          /\ \A i \in 1..(L - 1) : Front(m.buckets)[i] = m.buckets[i]
      <4>1. Len(m.buckets) # 0 /\ m.buckets \in Seq(Bucket)  BY <1>1
      <4> QED BY <4>1, FrontFacts
    <3>3. \A i \in 1..(L - 1) : i \in 1..L /\ i # L  BY <1>1
    <3>4. \A i \in 1..(L - 1) : Front(f)[i] = Front(m.buckets)[i]  BY <2>4, <3>1, <3>2, <3>3
    <3> HIDE DEF B, L
    <3> QED BY <3>1, <3>2, <3>4, SameValues
  <2> HIDE DEF L
  <2> QED BY <1>3, <2>6, <2>7 DEF Freed, l, L
<1>4. CASE FindCompressed(m, L) # Null /\ c # NoContext
  <2> DEFINE y == m.contexts[c]
             x == [data |-> y.data, dirty |-> y.dirty, block_index |-> y.block_index, buffer |-> Null]
  <2>1. c \in DOMAIN m.contexts /\ y \in Cell  BY <1>1, <1>4, BucketFacts
  <2>2. y = [data |-> y.data, dirty |-> y.dirty, block_index |-> y.block_index, buffer |-> y.buffer]
    BY <2>1 DEF Cell
  <2>3. n = FreedBuffer(m, c)  BY <1>4 DEF DeallocateBuffer, RawOf, FreedBuffer
  <2> HIDE DEF c
  <2>4. FreedBuffer(m, c) = ContextChanged(m, c, x, m.size, m.live - 1)
    BY <1>1, <2>1, <2>2, BufferFreedIs
  <2> HIDE DEF x
  <2>5. /\ IsRecord(n) /\ n.buckets = m.buckets /\ n.order = m.order /\ n.size = m.size
        /\ n.live = m.live - 1 /\ n.contexts = [m.contexts EXCEPT ![c] = x]
    BY <2>3, <2>4 DEF ContextChanged, IsRecord
  <2>6. DOMAIN n.contexts = DOMAIN m.contexts
        /\ \A d \in DOMAIN m.contexts : d # c => n.contexts[d] = m.contexts[d]
    BY <2>5
  <2> HIDE DEF L
  <2> QED BY <1>4, <2>5, <2>6 DEF Freed, L, c
<1> QED BY <1>2, <1>3, <1>4

\* The memory without its back bucket, whose context is empty.
WithoutBack(m) ==
  [buckets  |-> Front(m.buckets),
   contexts |-> [d \in DOMAIN m.contexts |->
                   IF d = m.buckets[Len(m.buckets)].raw THEN EmptyContext ELSE m.contexts[d]],
   order    |-> m.order,
   size     |-> m.size - BlockSize,
   live     |-> IF FindCompressed(m, Len(m.buckets)) = Null THEN m.live ELSE m.live - 1]

LEMMA EraseIs ==
  ASSUME NEW m, IsRecord(m), NEW c
  PROVE  EraseContext(m, c) =
           [buckets |-> m.buckets, contexts |-> Restrict(m.contexts, DOMAIN m.contexts \ {c}),
            order |-> Without(m, c), size |-> m.size, live |-> m.live]
PROOF
<1> DEFINE f == Restrict(m.contexts, DOMAIN m.contexts \ {c})
           o == Without(m, c)
           k == [m EXCEPT !.order = o]
<1>1. EraseContext(m, c) = [m EXCEPT !.order = o, !.contexts = f]  BY DEF EraseContext, IsRecord
<1> HIDE DEF o, f
<1>2. k = [buckets |-> m.buckets, contexts |-> m.contexts, order |-> o, size |-> m.size, live |-> m.live]
  BY DEF IsRecord
<1>3. [m EXCEPT !.order = o, !.contexts = f] = [k EXCEPT !.contexts = f]  OBVIOUS
<1> HIDE DEF k
<1>4. [k EXCEPT !.contexts = f] =
        [buckets |-> m.buckets, contexts |-> f, order |-> o, size |-> m.size, live |-> m.live]
  BY <1>2
<1> QED BY <1>1, <1>3, <1>4 DEF f, o

LEMMA DropAndSizeIs ==
  ASSUME NEW m, IsRecord(m)
  PROVE  [DropBackBucket(m) EXCEPT !.size = @ - BlockSize] =
           [buckets |-> Front(m.buckets), contexts |-> m.contexts, order |-> m.order,
            size |-> m.size - BlockSize, live |-> m.live]
PROOF
<1> DEFINE f == Front(m.buckets)
           s == m.size - BlockSize
           k == [m EXCEPT !.buckets = f]
<1>1. DropBackBucket(m) = k  BY DEF DropBackBucket, IsRecord
<1> HIDE DEF f
<1>2. k = [buckets |-> f, contexts |-> m.contexts, order |-> m.order, size |-> m.size, live |-> m.live]
  BY DEF IsRecord
<1> HIDE DEF k
<1>3. [k EXCEPT !.size = @ - BlockSize] = [k EXCEPT !.size = s]  BY <1>2
<1> HIDE DEF s
<1>4. [k EXCEPT !.size = s] =
        [buckets |-> f, contexts |-> m.contexts, order |-> m.order, size |-> s, live |-> m.live]
  BY <1>2
<1> QED BY <1>1, <1>3, <1>4 DEF f, s

LEMMA RemoveBackBucketIs ==
  ASSUME NEW m, NEW view, Represents(m, view), Len(view) # 0
  PROVE  LET c == m.buckets[Len(m.buckets)].raw
             e == WithoutBack(m)
         IN  RemoveBackBucket(m) = IF c = NoContext THEN e ELSE EraseContext(e, c)
PROOF
<1> DEFINE L == Len(m.buckets)
           c == m.buckets[L].raw
           e == WithoutBack(m)
           n == DeallocateBuffer(m, L)
           freed == IF c = NoContext THEN n ELSE EraseContext(n, c)
           s == m.size - BlockSize
           l == IF FindCompressed(m, L) = Null THEN m.live ELSE m.live - 1
           g == [d \in DOMAIN m.contexts |-> IF d = c THEN EmptyContext ELSE m.contexts[d]]
<1>1. RemoveBackBucket(m) = [DropBackBucket(freed) EXCEPT !.size = @ - BlockSize]
  BY DEF RemoveBackBucket, RawOf
<1>2. Freed(m, c, n)  BY DeallocateShows
<1>3. NoContext \notin DOMAIN m.contexts  BY MemoryFacts DEF NoContext
<1>4. e = [buckets |-> Front(m.buckets), contexts |-> g, order |-> m.order, size |-> s, live |-> l]
  BY DEF WithoutBack
<1> HIDE DEF c, L, n, e
<1>5. /\ IsRecord(n) /\ n.order = m.order /\ n.size = m.size /\ n.live = l
      /\ Front(n.buckets) = Front(m.buckets)
      /\ DOMAIN n.contexts = DOMAIN m.contexts
      /\ \A d \in DOMAIN m.contexts : d # c => n.contexts[d] = m.contexts[d]
      /\ c = NoContext => n.contexts = m.contexts
  BY <1>2 DEF Freed, L
<1> HIDE DEF l
<1>6. CASE c = NoContext
  <2>1. freed = n  BY <1>6
  <2>2. RemoveBackBucket(m) =
          [buckets |-> Front(n.buckets), contexts |-> n.contexts, order |-> n.order,
           size |-> n.size - BlockSize, live |-> n.live]
    BY <1>1, <1>5, <2>1, DropAndSizeIs
  <2>3. g = m.contexts
    <3>1. g = [d \in DOMAIN m.contexts |-> m.contexts[d]]  BY <1>3, <1>6
    <3>2. m.contexts = [d \in DOMAIN m.contexts |-> m.contexts[d]]  BY MemoryFacts DEF IsMemory
    <3> QED BY <3>1, <3>2
  <2> HIDE DEF g
  <2>4. RemoveBackBucket(m) = e  BY <1>4, <1>5, <1>6, <2>2, <2>3
  <2> QED BY <1>6, <2>4 DEF L, c, e
<1>7. CASE c # NoContext
  <2> DEFINE D == DOMAIN m.contexts \ {c}
             r == Restrict(n.contexts, D)
             o == Without(n, c)
  <2>1. freed = EraseContext(n, c)  BY <1>7
  <2>2. freed = [buckets |-> n.buckets, contexts |-> r, order |-> o, size |-> n.size, live |-> n.live]
    BY <1>5, <2>1, EraseIs
  <2> HIDE DEF freed, r, o
  <2>3. IsRecord(freed)  BY <2>2 DEF IsRecord
  <2>4. RemoveBackBucket(m) =
          [buckets |-> Front(freed.buckets), contexts |-> freed.contexts, order |-> freed.order,
           size |-> freed.size - BlockSize, live |-> freed.live]
    BY <1>1, <2>3, DropAndSizeIs
  <2>5. IsRecord(e) /\ e.buckets = Front(m.buckets) /\ e.contexts = g /\ e.order = m.order
        /\ e.size = s /\ e.live = l /\ DOMAIN e.contexts = DOMAIN m.contexts
    BY <1>4 DEF IsRecord
  <2>6. EraseContext(e, c) =
          [buckets |-> e.buckets, contexts |-> Restrict(e.contexts, DOMAIN e.contexts \ {c}),
           order |-> Without(e, c), size |-> e.size, live |-> e.live]
    BY <2>5, EraseIs
  <2>7. Without(e, c) = o  BY <1>5, <2>5 DEF Without, PlaceOf, o
  <2>8. Restrict(e.contexts, DOMAIN e.contexts \ {c}) = r
    <3>1. \A d \in D : e.contexts[d] = n.contexts[d]
      <4>1. \A d \in D : e.contexts[d] = m.contexts[d]  BY <2>5
      <4> QED BY <1>5, <4>1
    <3>2. Restrict(e.contexts, D) = r
      <4> HIDE DEF D
      <4> QED BY <3>1 DEF Restrict, r
    <3> QED BY <2>5, <3>2
  <2> HIDE DEF g
  <2>9. EraseContext(e, c) = RemoveBackBucket(m)
    BY <1>5, <2>2, <2>4, <2>5, <2>6, <2>7, <2>8
  <2> QED BY <1>7, <2>9 DEF L, c, e
<1> QED BY <1>6, <1>7

LEMMA WithoutBackShows ==
  ASSUME NEW m, NEW view, Represents(m, view), Len(view) # 0, NEW n, n = WithoutBack(m)
  PROVE  /\ Represents(n, Front(view)) /\ Len(n.buckets) = Len(m.buckets) - 1
         /\ n.size = m.size - BlockSize /\ DOMAIN n.contexts = DOMAIN m.contexts
         /\ \A d \in DOMAIN m.contexts :
              d = m.buckets[Len(m.buckets)].raw => n.contexts[d] = EmptyContext
         /\ \A a \in 1..Len(n.buckets) : n.buckets[a] = m.buckets[a]
PROOF
<1> DEFINE g == [d \in DOMAIN m.contexts |->
                   IF d = m.buckets[Len(m.buckets)].raw THEN EmptyContext ELSE m.contexts[d]]
           s == m.size - BlockSize
           l == IF FindCompressed(m, Len(m.buckets)) = Null THEN m.live ELSE m.live - 1
<1>1. n = [buckets |-> Front(m.buckets), contexts |-> g, order |-> m.order, size |-> s, live |-> l]
  BY DEF WithoutBack
<1>2. s \in Int /\ Len(m.buckets) # 0 /\ m.size \in Int
  <2>1. m.size \in Int /\ Len(view) = Len(m.buckets)  BY MemoryFacts DEF IsMemory
  <2> QED BY <2>1, Constants
<1>3. DOMAIN g = DOMAIN m.contexts
      /\ \A d \in DOMAIN m.contexts : d = m.buckets[Len(m.buckets)].raw => g[d] = EmptyContext
  OBVIOUS
<1> HIDE DEF l, s
<1>4. IsRecord(n) /\ n.buckets = Front(m.buckets) /\ n.contexts = g /\ n.order = m.order
      /\ n.size = s /\ n.live = l
  <2> HIDE DEF g
  <2> QED BY <1>1 DEF IsRecord
<1>5. DropStep(m, view, n)
  <2>1. n.contexts = [d \in DOMAIN m.contexts |->
                   IF d = m.buckets[Len(m.buckets)].raw THEN EmptyContext ELSE m.contexts[d]]
    BY <1>4 DEF g
  <2>2. n.live = IF FindCompressed(m, Len(m.buckets)) = Null THEN m.live ELSE m.live - 1
    BY <1>4 DEF l
  <2> HIDE DEF g
  <2> QED BY <1>2, <1>4, <2>1, <2>2 DEF DropStep
<1> HIDE DEF g
<1>6. Represents(n, Front(view)) /\ Len(n.buckets) = Len(m.buckets) - 1
      /\ \A a \in 1..Len(n.buckets) : n.buckets[a] = m.buckets[a]
  BY <1>5, DropChanges
<1> QED BY <1>3, <1>4, <1>6 DEF s

LEMMA RemoveBackBucketShows ==
  ASSUME NEW m, NEW view, Represents(m, view), Len(view) # 0, NEW n, n = RemoveBackBucket(m)
  PROVE  /\ Represents(n, Front(view)) /\ Len(n.buckets) = Len(m.buckets) - 1
         /\ n.size = m.size - BlockSize
         /\ \A a \in 1..Len(n.buckets) : n.buckets[a] = m.buckets[a]
PROOF
<1> DEFINE c == m.buckets[Len(m.buckets)].raw
           e == WithoutBack(m)
<1>1. n = IF c = NoContext THEN e ELSE EraseContext(e, c)  BY RemoveBackBucketIs
<1>1a. e = WithoutBack(m)  OBVIOUS
<1> HIDE DEF e
<1>2. /\ Represents(e, Front(view)) /\ Len(e.buckets) = Len(m.buckets) - 1
      /\ e.size = m.size - BlockSize /\ DOMAIN e.contexts = DOMAIN m.contexts
      /\ \A d \in DOMAIN m.contexts : d = c => e.contexts[d] = EmptyContext
      /\ \A a \in 1..Len(e.buckets) : e.buckets[a] = m.buckets[a]
  BY <1>1a, WithoutBackShows
<1>3. c # NoContext => c \in DOMAIN m.contexts
  <2>1. Len(m.buckets) = Len(view) /\ Len(view) \in Nat  BY MemoryFacts
  <2>2. Len(m.buckets) \in 1..Len(view)  BY <2>1
  <2> QED BY <2>2, BucketFacts
<1> HIDE DEF c
<1>4. CASE c = NoContext  BY <1>1, <1>2, <1>4
<1>5. CASE c # NoContext
  <2>1. c \in DOMAIN e.contexts /\ e.contexts[c].block_index = 0 /\ n = EraseContext(e, c)
    BY <1>1, <1>2, <1>3, <1>5, EmptyIsCell
  <2>2. Represents(n, Front(view)) /\ n.buckets = e.buckets /\ n.size = e.size
    BY <1>2, <2>1, EraseShows
  <2> QED BY <1>2, <2>2
<1> QED BY <1>4, <1>5

\* The last block is removed from whole ones.
LEMMA SplitsDrop ==
  ASSUME NEW view, NEW w, Splits(view, w), Whole(w), Len(w) # 0, NEW v \in Values,
         NEW t, t = Sized(w, Len(w) - BlockSize, v)
  PROVE  /\ Splits(Front(view), t) /\ Len(w) >= BlockSize /\ Whole(t)
         /\ Len(t) = Len(w) - BlockSize /\ Len(view) # 0
PROOF
<1> DEFINE N == Len(w)
           L == Len(view)
           K == N - BlockSize
           shown == Front(view)
<1>1. w \in Seq(Values) /\ view \in Seq(Seq(Values)) /\ L \in Nat /\ N \in Nat /\ N > 0
      /\ BlockSize \in Nat /\ BlockSize > 0
  BY SplitsFacts, Constants DEF Splits
<1>2. /\ L >= 1 /\ BucketOf(N) = L
      /\ \A i \in 1..N : BucketOf(i) \in 1..L /\ PosOf(i) \in 1..Len(view[BucketOf(i)])
      /\ \A b \in 1..L : Len(view[b]) = IF b < L THEN BlockSize ELSE PosOf(N)
      /\ \A i \in 1..N : view[BucketOf(i)][PosOf(i)] = w[i]
  BY <1>1, SplitsFacts DEF Splits
<1>3. N % BlockSize = 0  BY DEF Whole
<1> HIDE DEF N
<1>4. N >= BlockSize /\ K % BlockSize = 0  BY <1>1, <1>3, WholeMore
<1>5. K \in Nat /\ K + BlockSize = N  BY <1>1, <1>4
<1>6. PosOf(N) = BlockSize  BY <1>1, <1>3, WholePosition
<1>7. t \in Seq(Values) /\ Len(t) = K /\ \A i \in 1..K : t[i] = w[i]
  <2>1. Sized(w, K, v) \in Seq(Values) /\ Len(Sized(w, K, v)) = K
        /\ \A i \in 1..K : Sized(w, K, v)[i] = IF i <= Len(w) THEN w[i] ELSE v
    BY <1>1, <1>5, SizedFacts
  <2>2. \A i \in 1..K : i <= Len(w)  BY <1>1, <1>4, <1>5 DEF N
  <2>3. t = Sized(w, K, v)  BY DEF N
  <2> QED BY <2>1, <2>2, <2>3
<1>8. shown \in Seq(Seq(Values)) /\ Len(shown) = L - 1 /\ \A a \in 1..(L - 1) : shown[a] = view[a]
  <2>1. Len(view) # 0  BY <1>1, <1>2
  <2> QED BY <1>1, <2>1, FrontFacts
<1> HIDE DEF shown, L
<1>9. K = 0 => L = 1
  <2>1. ASSUME K = 0 PROVE L = 1
    <3>1. N = (1 - 1) * BlockSize + BlockSize /\ BlockSize \in 1..BlockSize /\ 1 \in Nat  BY <1>1, <1>5, <2>1
    <3> QED BY <1>1, <1>2, <3>1, PositionIs
  <2> QED BY <2>1
<1>10. K # 0 => BucketOf(K) = L - 1 /\ PosOf(K) = BlockSize
  <2>1. ASSUME K # 0 PROVE BucketOf(K) = L - 1 /\ PosOf(K) = BlockSize
    <3>1. K > 0  BY <1>5, <2>1
    <3>2. BucketOf(N) = BucketOf(K) + 1 /\ PosOf(N) = PosOf(K)
      <4>1. BucketOf(K + BlockSize) = BucketOf(K) + 1 /\ PosOf(K + BlockSize) = PosOf(K)
        BY <1>5, <3>1, SamePosition
      <4> HIDE DEF K
      <4> QED BY <1>5, <4>1
    <3>3. BucketOf(K) \in Nat  BY <1>5, <3>1, Position
    <3> QED BY <1>2, <1>6, <3>2, <3>3
  <2> QED BY <2>1
<1> HIDE DEF K
<1>11. Len(shown) = IF Len(t) = 0 THEN 0 ELSE BucketOf(Len(t))
  BY <1>7, <1>8, <1>9, <1>10
<1>12. \A b \in 1..Len(shown) : Len(shown[b]) = BlockSize
  <2>1. \A b \in 1..(L - 1) : b \in 1..L /\ b < L  BY <1>1
  <2> QED BY <1>2, <1>8, <2>1
<1>13. \A b \in 1..Len(shown) : Len(shown[b]) = IF b < Len(shown) THEN BlockSize ELSE PosOf(Len(t))
  <2>1. ASSUME NEW b \in 1..Len(shown) PROVE K # 0
    <3>1. L # 1  BY <1>8
    <3> QED BY <1>9, <3>1
  <2> QED BY <1>7, <1>10, <1>12, <2>1
<1>14. ASSUME NEW i \in 1..Len(t) PROVE shown[BucketOf(i)][PosOf(i)] = t[i]
  <2>1. i \in 1..K /\ i \in 1..N /\ i \in Nat /\ i > 0 /\ i <= K /\ K # 0 /\ K \in Nat
    BY <1>1, <1>4, <1>5, <1>7
  <2>2. BucketOf(i) <= BucketOf(K)  BY <2>1, PositionOrder
  <2>3. BucketOf(i) \in 1..L /\ BucketOf(K) = L - 1  BY <1>2, <1>10, <2>1
  <2>4. BucketOf(i) \in 1..(L - 1)  BY <1>1, <2>2, <2>3
  <2> QED BY <1>2, <1>7, <1>8, <2>1, <2>4
<1>15. Splits(shown, t)  BY <1>7, <1>8, <1>11, <1>13, <1>14 DEF Splits
<1>16. Whole(t)  BY <1>4, <1>7 DEF Whole, K
<1>17. Len(view) # 0  BY <1>1, <1>2 DEF L
<1> QED BY <1>4, <1>7, <1>15, <1>16, <1>17 DEF N, K, shown

LEMMA RemoveBackBucketHolds ==
  ASSUME NEW m, NEW w, Holds(m, w), Whole(w), Len(w) # 0, NEW v \in Values,
         NEW n, n = RemoveBackBucket(m), NEW t, t = Sized(w, Len(w) - BlockSize, v)
  PROVE  /\ Holds(n, t) /\ Shrinks(m, n)
         /\ Len(w) >= BlockSize /\ Whole(t) /\ Len(t) = Len(w) - BlockSize
PROOF
<1>1. PICK view : Represents(m, view) /\ Splits(view, w)  BY DEF Holds
<1>2. /\ Splits(Front(view), t) /\ Len(w) >= BlockSize /\ Whole(t)
      /\ Len(t) = Len(w) - BlockSize /\ Len(view) # 0
  BY <1>1, SplitsDrop
<1>3. /\ Represents(n, Front(view)) /\ Len(n.buckets) = Len(m.buckets) - 1
      /\ n.size = m.size - BlockSize
      /\ \A a \in 1..Len(n.buckets) : n.buckets[a] = m.buckets[a]
  BY <1>1, <1>2, RemoveBackBucketShows
<1>4. Holds(n, t)  BY <1>2, <1>3 DEF Holds
<1>5. Len(m.buckets) \in Nat /\ Len(n.buckets) \in Nat  BY <1>4, HoldsFacts
<1>6. Shrinks(m, n)
  <2>1. Len(n.buckets) <= Len(m.buckets)  BY <1>3, <1>5
  <2>2. \A b \in 1..Len(n.buckets) : b <= Len(m.buckets)  BY <1>3, <1>5
  <2>3. \A b \in 1..Len(m.buckets) : b <= Len(n.buckets) => b \in 1..Len(n.buckets)
    BY <1>5
  <2> QED BY <1>3, <2>1, <2>2, <2>3 DEF Shrinks, Moves
<1> QED BY <1>2, <1>4, <1>6

LEMMA PopsHold ==
  ASSUME NEW m, NEW w, Holds(m, w), NEW n \in 0..Len(w), NEW v \in Values,
         NEW k, k = PopBacks(m, n)
  PROVE  Holds(k, Sized(w, Len(w) - n, v)) /\ Shrinks(m, k)
PROOF
<1>1. w \in Seq(Values) /\ Len(w) \in Nat /\ n \in Nat  BY HoldsFacts
<1>2. PICK h : /\ h[0] = m /\ \A i \in 1..n : h[i] = RemoveBack(h[i - 1])
               /\ PopBacks(m, n) = h[n]
  BY <1>1, PopChain
<1> DEFINE S == {i \in 0..n : Holds(h[i], Sized(w, Len(w) - i, v)) /\ Shrinks(m, h[i])}
<1>3. 0 \in S
  <2>1. Sized(w, Len(w) - 0, v) = w
    <3>1. Len(w) - 0 = Len(w)  BY <1>1
    <3> QED BY <1>1, <3>1, SizedSame
  <2>2. Shrinks(m, m)
    <3>1. Keeps(m, m, NoContext)  BY KeepsSame
    <3>2. PICK view : Represents(m, view)  BY DEF Holds
    <3> QED BY <3>1, <3>2, KeepsMoves
  <2> QED BY <1>1, <1>2, <2>1, <2>2
<1>4. ASSUME NEW i \in 0..(n - 1), i \in S PROVE i + 1 \in S
  <2> DEFINE s == Sized(w, Len(w) - i, v)
             t == Sized(w, Len(w) - (i + 1), v)
             a == h[i]
             b == h[i + 1]
  <2>1. Holds(a, s) /\ Shrinks(m, a)  BY <1>4
  <2>2. b = RemoveBack(a)
    <3>1. i + 1 \in 1..n /\ (i + 1) - 1 = i  BY <1>1
    <3> QED BY <1>2, <3>1
  <2>3. /\ Len(w) - i \in Nat /\ Len(w) - (i + 1) \in Nat /\ i + 1 \in 0..n
        /\ Len(w) - (i + 1) = (Len(w) - i) - 1 /\ Len(w) - i # 0
    BY <1>1
  <2>4. s \in Seq(Values) /\ Len(s) = Len(w) - i
        /\ \A j \in 1..(Len(w) - i) : s[j] = IF j <= Len(w) THEN w[j] ELSE v
    BY <1>1, <2>3, SizedFacts
  <2>5. t \in Seq(Values) /\ Len(t) = Len(w) - (i + 1)
        /\ \A j \in 1..(Len(w) - (i + 1)) : t[j] = IF j <= Len(w) THEN w[j] ELSE v
    BY <1>1, <2>3, SizedFacts
  <2> HIDE DEF a, b, s, t
  <2>6. IsFront(t, s)
    <3>1. \A j \in 1..Len(t) : j \in 1..(Len(w) - i) /\ j \in 1..(Len(w) - (i + 1))
      <4> DEFINE x == Len(w) - i
                 y == Len(w) - (i + 1)
      <4>1. x \in Nat /\ y \in Nat /\ y = x - 1 /\ Len(t) = y  BY <2>3, <2>5
      <4> HIDE DEF x, y
      <4>2. \A j \in 1..Len(t) : j \in 1..x /\ j \in 1..y  BY <4>1
      <4> QED BY <4>2 DEF x, y
    <3>2. \A j \in 1..Len(t) : t[j] = s[j]  BY <2>4, <2>5, <3>1
    <3> QED BY <2>3, <2>4, <2>5, <3>2 DEF IsFront
  <2>7. Holds(b, t) /\ Shrinks(a, b)
    <3>1. Len(s) # 0  BY <2>3, <2>4
    <3> QED BY <2>1, <2>2, <2>6, <3>1, RemoveBackHolds
  <2>8. Shrinks(m, b)
    <3>1. Len(m.buckets) \in Nat /\ Len(a.buckets) \in Nat /\ Len(b.buckets) \in Nat
      BY <2>1, <2>7, HoldsFacts
    <3> QED BY <2>1, <2>7, <3>1, ShrinksTwice
  <2> QED BY <2>3, <2>7, <2>8 DEF b, t
<1> HIDE DEF S
<1>5. \A i \in 0..n : i \in S  BY <1>1, <1>3, <1>4, Induction
<1>6. n \in S  BY <1>1, <1>5
<1> QED BY <1>2, <1>6 DEF S

\* The whole buckets that are dropped leave n values or more.
LEMMA DropsHold ==
  ASSUME NEW m, NEW w, Holds(m, w), NEW n \in 0..Len(w), NEW v \in Values,
         n # Len(w) => Whole(w), NEW k, k = DropBuckets(m, n)
  PROVE  \E N \in n..Len(w) : Holds(k, Sized(w, N, v)) /\ Shrinks(m, k)
PROOF
<1> DEFINE B == BlockSize
           q == DivUp(m.size - n - B, B)
<1>1. w \in Seq(Values) /\ Len(w) \in Nat /\ m.size = Len(w) /\ n \in Nat /\ B \in Nat /\ B > 0
  BY HoldsFacts, Constants
<1>2. Sized(w, Len(w), v) = w  BY <1>1, SizedSame
<1>3. Shrinks(m, m)
  <2>1. Keeps(m, m, NoContext)  BY KeepsSame
  <2>2. PICK view : Represents(m, view)  BY DEF Holds
  <2> QED BY <2>1, <2>2, KeepsMoves
<1>4. CASE m.size <= B
  <2>1. k = m  BY <1>4 DEF DropBuckets
  <2>2. Len(w) \in n..Len(w)  BY <1>1
  <2> QED BY <1>2, <1>3, <2>1, <2>2
<1>5. CASE ~(m.size <= B)
  <2>1. q \in Nat /\ (m.size - n - B <= 0 => q = 0)
        /\ (m.size - n - B > 0 => (q - 1) * B < m.size - n - B)
    <3>1. m.size - n - B \in Int  BY <1>1
    <3> QED BY <3>1, DivUpFacts
  <2>2. PICK h : /\ h[0] = m /\ \A i \in 1..q : h[i] = RemoveBackBucket(h[i - 1])
                 /\ DropBuckets(m, n) = h[q]
    BY <1>5, <2>1, DropChain
  <2> HIDE DEF q
  <2>3. q # 0 => Whole(w) /\ (q - 1) * B < Len(w) - n - B
    <3>1. q # 0 => Len(w) - n - B > 0  BY <1>1, <2>1
    <3>2. q # 0 => n # Len(w)  BY <1>1, <3>1
    <3> QED BY <1>1, <2>1, <3>1, <3>2
  <2> DEFINE N(i) == Len(w) - i * B
             S == {i \in 0..q : /\ Holds(h[i], Sized(w, N(i), v)) /\ Shrinks(m, h[i])
                                /\ q # 0 => Whole(Sized(w, N(i), v))}
  <2>4. \A i \in 0..q : N(i) \in n..Len(w)
    <3>1. ASSUME NEW i \in 0..q PROVE N(i) \in n..Len(w)
      <4>1. i * B \in Nat /\ i * B \in Int /\ (q - i) * B \in Nat /\ q * B \in Nat  BY <1>1, <2>1
      <4>2. (q - i) * B = q * B - i * B  BY <1>1, <2>1
      <4>3. q # 0 => (q - 1) * B = q * B - B  BY <1>1, <2>1
      <4>4. q # 0 => q * B < Len(w) - n  BY <1>1, <2>3, <4>1, <4>3
      <4>5. q = 0 => q * B = 0  BY <1>1
      <4> DEFINE Q == q * B
                 I == i * B
      <4>6. q * B <= Len(w) - n
        <5>1. Q \in Nat /\ (q # 0 => Q < Len(w) - n) /\ (q = 0 => Q = 0)  BY <4>1, <4>4, <4>5
        <5>2. n \in Nat /\ Len(w) \in Nat /\ n <= Len(w)  BY <1>1
        <5> HIDE DEF Q
        <5>3. Q <= Len(w) - n  BY <5>1, <5>2
        <5> QED BY <5>3 DEF Q
      <4>7. Q \in Nat /\ I \in Nat /\ Q - I \in Nat /\ Q <= Len(w) - n  BY <4>1, <4>2, <4>6
      <4> HIDE DEF Q, I
      <4>8. Len(w) - I \in n..Len(w)  BY <1>1, <4>7
      <4> QED BY <4>8 DEF I
    <3> QED BY <3>1
  <2>5. 0 \in S
    <3>1. N(0) = Len(w)  BY <1>1
    <3> HIDE DEF N
    <3>2. Sized(w, N(0), v) = w  BY <1>2, <3>1
    <3> QED BY <1>3, <2>1, <2>2, <2>3, <3>2
  <2>6. ASSUME NEW i \in 0..(q - 1), i \in S PROVE i + 1 \in S
    <3> DEFINE s == Sized(w, N(i), v)
               a == h[i]
               b == h[i + 1]
               t == Sized(s, Len(s) - B, v)
    <3>1. q # 0 /\ i + 1 \in 1..q /\ (i + 1) - 1 = i /\ i + 1 \in 0..q /\ i \in 0..q  BY <2>1
    <3>2. Holds(a, s) /\ Shrinks(m, a) /\ Whole(s)  BY <2>6, <3>1
    <3>3. b = RemoveBackBucket(a)  BY <2>2, <3>1
    <3>4. N(i) \in n..Len(w) /\ N(i + 1) \in n..Len(w)  BY <2>4, <3>1
    <3>5. N(i + 1) = N(i) - B
      <4>1. (i + 1) * B = i * B + B /\ i * B \in Int  BY <1>1, <2>1
      <4> QED BY <1>1, <4>1
    <3> HIDE DEF N
    <3>6. Len(s) = N(i) /\ s \in Seq(Values) /\ N(i) \in Nat /\ N(i + 1) \in Nat
      <4>1. N(i) \in Nat /\ N(i + 1) \in Nat  BY <1>1, <3>4
      <4> QED BY <1>1, <4>1, SizedFacts
    <3>7. Len(s) # 0 /\ N(i + 1) <= N(i)  BY <1>1, <3>4, <3>5, <3>6
    <3> HIDE DEF a, b, s
    <3>8. t = Sized(s, N(i + 1), v)  BY <3>5, <3>6
    <3>9. Holds(b, t) /\ Shrinks(a, b) /\ Whole(t)
      <4>1. t = Sized(s, Len(s) - BlockSize, v)  OBVIOUS
      <4> HIDE DEF t
      <4> QED BY <3>2, <3>3, <3>7, <4>1, RemoveBackBucketHolds
    <3> HIDE DEF t
    <3>10. t = Sized(w, N(i + 1), v)
      <4>1. Sized(Sized(w, N(i), v), N(i + 1), v) = Sized(w, N(i + 1), v)
        BY <1>1, <3>6, <3>7, SizedAgain
      <4> QED BY <3>8, <4>1 DEF s
    <3>11. Shrinks(m, b)
      <4>1. Len(m.buckets) \in Nat /\ Len(a.buckets) \in Nat /\ Len(b.buckets) \in Nat
        BY <3>2, <3>9, HoldsFacts
      <4> QED BY <3>2, <3>9, <4>1, ShrinksTwice
    <3> QED BY <3>1, <3>9, <3>10, <3>11 DEF b
  <2> HIDE DEF S
  <2>7. \A i \in 0..q : i \in S  BY <2>1, <2>5, <2>6, Induction
  <2>8. q \in S /\ N(q) \in n..Len(w)
    <3>1. q \in 0..q  BY <2>1
    <3> QED BY <2>4, <2>7, <3>1
  <2> HIDE DEF N
  <2>9. Holds(h[q], Sized(w, N(q), v)) /\ Shrinks(m, h[q])  BY <2>8 DEF S
  <2> QED BY <2>2, <2>8, <2>9
<1> QED BY <1>4, <1>5

LEMMA ShrinkHolds ==
  ASSUME NEW m, NEW w, Holds(m, w), NEW n \in 0..Len(w), NEW v \in Values,
         NEW k, k = ResizeShrink(m, n)
  PROVE  Holds(k, Sized(w, n, v)) /\ Shrinks(m, k)
PROOF
<1> DEFINE N == Len(w)
           B == BlockSize
           x == N - n
           y == N % B
           a == Min({x, y})
           i == PopBacks(m, a)
           w1 == Sized(w, N - a, v)
           j == DropBuckets(i, n)
<1>1. w \in Seq(Values) /\ N \in Nat /\ m.size = N /\ n \in Nat /\ n <= N /\ B \in Nat /\ B > 0
  BY HoldsFacts, Constants
<1>2. x \in Nat /\ y \in 0..(B - 1) /\ y <= N /\ (N - y) % B = 0
  <2>1. N \div B \in Nat /\ N % B \in Nat /\ N % B < B /\ N = B * (N \div B) + (N % B)
    BY <1>1, Division
  <2> DEFINE d == N \div B
  <2>2. d \in Nat /\ y \in Nat /\ y < B /\ N = B * d + y  BY <2>1
  <2> HIDE DEF d, y
  <2>3. B * d = d * B /\ d * B \in Nat  BY <1>1, <2>2
  <2>4. N - y = d * B /\ y <= N  BY <1>1, <2>2, <2>3
  <2>5. (N - y) % B = 0  BY <2>2, <2>4, Multiple
  <2> QED BY <1>1, <2>2, <2>4, <2>5
<1>3. k = PopBacks(j, j.size - n)  BY <1>1 DEF ResizeShrink, PopDownTo
<1> HIDE DEF y
<1>4. a \in Nat /\ a <= x /\ a <= y /\ (a = x \/ a = y)
  <2>1. x \in Int /\ y \in Int  BY <1>1, <1>2
  <2>2. a \in {x, y} /\ a <= x /\ a <= y  BY <2>1, MinOfTwo
  <2> HIDE DEF a
  <2> QED BY <1>2, <2>2
<1> HIDE DEF a
<1>5. a \in 0..N /\ N - a \in Nat /\ n <= N - a /\ (N - a = n \/ (N - a) % B = 0)
  BY <1>1, <1>2, <1>4
<1>6. Holds(i, w1) /\ Shrinks(m, i)  BY <1>5, PopsHold
<1>7. w1 \in Seq(Values) /\ Len(w1) = N - a  BY <1>1, <1>5, SizedFacts
<1>8. w1 = Sized(w, N - a, v) /\ j = DropBuckets(i, n)  OBVIOUS
<1> HIDE DEF w1, i, j
<1>9. n \in 0..Len(w1) /\ (n # Len(w1) => Whole(w1))
  BY <1>1, <1>5, <1>7 DEF Whole
<1>10. \E M \in n..Len(w1) : Holds(j, Sized(w1, M, v)) /\ Shrinks(i, j)
  BY <1>6, <1>8, <1>9, DropsHold
<1>11. PICK M \in n..Len(w1) : Holds(j, Sized(w1, M, v)) /\ Shrinks(i, j)  BY <1>10
<1> DEFINE w2 == Sized(w1, M, v)
<1>12. M \in Nat /\ n <= M /\ M <= N - a  BY <1>1, <1>5, <1>7
<1>13. w2 \in Seq(Values) /\ Len(w2) = M /\ w2 = Sized(w1, M, v)  BY <1>7, <1>12, SizedFacts
<1>14. Holds(j, w2) /\ Shrinks(i, j)  BY <1>11
<1> HIDE DEF w2
<1>15. j.size = M  BY <1>13, <1>14, HoldsFacts
<1>16. j.size - n \in 0..Len(w2) /\ Len(w2) - (j.size - n) = n  BY <1>1, <1>12, <1>13, <1>15
<1>17. Holds(k, Sized(w2, n, v)) /\ Shrinks(j, k)
  <2>1. Holds(k, Sized(w2, Len(w2) - (j.size - n), v)) /\ Shrinks(j, k)
    BY <1>3, <1>14, <1>16, PopsHold
  <2> QED BY <1>16, <2>1
<1>18. Sized(w2, n, v) = Sized(w, n, v)
  <2>1. Sized(w2, n, v) = Sized(w1, n, v)
    <3>1. Sized(Sized(w1, M, v), n, v) = Sized(w1, n, v)  BY <1>1, <1>7, <1>12, SizedAgain
    <3> QED BY <1>13, <3>1
  <2>2. Sized(w1, n, v) = Sized(w, n, v)
    <3>1. Sized(Sized(w, N - a, v), n, v) = Sized(w, n, v)  BY <1>1, <1>5, SizedAgain
    <3> QED BY <1>8, <3>1
  <2> QED BY <2>1, <2>2
<1>19. Shrinks(m, k)
  <2>1. Len(m.buckets) \in Nat /\ Len(i.buckets) \in Nat /\ Len(j.buckets) \in Nat /\ Len(k.buckets) \in Nat
    BY <1>6, <1>14, <1>17, HoldsFacts
  <2>2. Shrinks(m, j)  BY <1>6, <1>14, <2>1, ShrinksTwice
  <2> QED BY <1>17, <2>1, <2>2, ShrinksTwice
<1> QED BY <1>17, <1>18, <1>19
-----------------------------------------------------------------------------
(* clear *)

LEMMA EmptyHolds ==
  ASSUME NEW n, n = [buckets |-> <<>>, contexts |-> <<>>, order |-> <<>>, size |-> 0, live |-> 0]
  PROVE  Holds(n, <<>>)
PROOF
<1> DEFINE view == <<>>
<1>1. /\ IsRecord(n) /\ n.buckets = <<>> /\ n.contexts = <<>> /\ n.order = <<>>
      /\ n.size = 0 /\ n.live = 0
  BY DEF IsRecord
<1>2. <<>> \in Seq(Bucket) /\ Len(<<>>) = 0 /\ DOMAIN <<>> = {} /\ <<>> \in Seq(Nat \ {0})
  OBVIOUS
<1>3. n.contexts \in [DOMAIN n.contexts -> Cell]
  <2>1. n.contexts = [c \in DOMAIN n.contexts |-> n.contexts[c]]  BY <1>1
  <2>2. \A c \in DOMAIN n.contexts : n.contexts[c] \in Cell  BY <1>1, <1>2
  <2> QED BY <2>1, <2>2
<1>4. IsMemory(n)  BY <1>1, <1>2, <1>3 DEF IsMemory
<1>5. Listed(n)
  <2>1. IsListOf(<<>>, {})  BY <1>2 DEF IsListOf
  <2> QED BY <1>1, <1>2, <2>1 DEF Listed
<1>6. view \in Seq(Seq(Values)) /\ Len(view) = 0 /\ \A b \in 1..Len(view) : FALSE  OBVIOUS
<1>7. n.live = Cardinality(Buffered(n))
  <2>1. Buffered(n) = {}  BY <1>1, <1>2 DEF Buffered
  <2> QED BY <1>1, <2>1, FS_EmptySet
<1> HIDE DEF view
<1>8. Represents(n, view)
  <2>1. Len(view) = Len(n.buckets)  BY <1>1, <1>2, <1>6
  <2>2. \A b \in 1..Len(view) : Len(view[b]) <= BlockSize /\ BucketShows(n, b, view[b])  BY <1>6
  <2>3. \A c \in DOMAIN n.contexts : ContextIsLinked(n, c)  BY <1>1, <1>2
  <2> QED BY <1>4, <1>5, <1>6, <1>7, <2>1, <2>2, <2>3 DEF Represents
<1>9. Splits(view, <<>>)
  <2> DEFINE w == <<>>
  <2>1. w \in Seq(Values) /\ Len(w) = 0 /\ \A i \in 1..Len(w) : FALSE  OBVIOUS
  <2> HIDE DEF w
  <2>2. Splits(view, w)  BY <1>6, <2>1 DEF Splits
  <2> QED BY <2>2 DEF w
<1> QED BY <1>1, <1>2, <1>8, <1>9 DEF Holds

LEMMA ClearedHolds ==
  ASSUME NEW m, NEW w, Holds(m, w), NEW n, n = Cleared(m)
  PROVE  Holds(n, <<>>) /\ Shrinks(m, n)
PROOF
<1>1. w \in Seq(Values) /\ Len(w) \in Nat /\ m.size = Len(w) /\ Len(m.buckets) \in Nat  BY HoldsFacts
<1>2. CASE m.size = 0
  <2>1. n = m  BY <1>2 DEF Cleared
  <2>2. w = <<>>  BY <1>1, <1>2, EmptySequence
  <2>3. Keeps(m, m, NoContext)  BY KeepsSame
  <2>4. PICK view : Represents(m, view)  BY DEF Holds
  <2> QED BY <2>1, <2>2, <2>3, <2>4, KeepsMoves
<1>3. CASE m.size # 0
  <2> DEFINE l == m.live - Cardinality({b \in DOMAIN m.buckets : FindCompressed(m, b) # Null})
  <2>1. n = [buckets |-> <<>>, contexts |-> <<>>, order |-> <<>>, size |-> 0, live |-> l]
    BY <1>3 DEF Cleared
  <2>2. l = 0
    <3>1. PICK view : Represents(m, view)  BY DEF Holds
    <3>2. m.live = Cardinality(Buffered(m)) /\ m.live \in Int  BY <3>1 DEF Represents, IsMemory
    <3>3. l = m.live - Cardinality(Buffered(m))  BY DEF Buffered
    <3> HIDE DEF l
    <3> QED BY <3>2, <3>3
  <2> HIDE DEF l
  <2>3. Holds(n, <<>>)  BY <2>1, <2>2, EmptyHolds
  <2>4. Len(n.buckets) = 0  BY <2>1
  <2>5. Shrinks(m, n)
    <3>1. Len(n.buckets) <= Len(m.buckets)  BY <1>1, <2>4
    <3>2. \A b \in 1..Len(n.buckets) : FALSE  BY <2>4
    <3>3. \A b \in 1..Len(m.buckets) : ~(b <= Len(n.buckets))  BY <1>1, <2>4
    <3> QED BY <3>1, <3>2, <3>3 DEF Shrinks, Moves
  <2> QED BY <2>3, <2>5
<1> QED BY <1>2, <1>3

-----------------------------------------------------------------------------
(* serialize *)

\* The values of a bucket are in its compressed buffer.
IsCompressed(m, b) ==
  m.buckets[b].raw = NoContext \/ ~m.contexts[m.buckets[b].raw].dirty

LEMMA CompressedFacts ==
  ASSUME NEW m, NEW view, Represents(m, view), NEW b \in 1..Len(view), IsCompressed(m, b)
  PROVE  FindCompressed(m, b) \in Full /\ Shows(FindCompressed(m, b), view[b])
PROOF
<1>1. CASE m.buckets[b].raw = NoContext
  <2>1. FindCompressed(m, b) = m.buckets[b].compressed  BY <1>1 DEF FindCompressed, RawOf
  <2> QED BY <1>1, <2>1, BucketFacts
<1>2. CASE m.buckets[b].raw # NoContext
  <2> DEFINE x == m.contexts[m.buckets[b].raw]
  <2>1. FindCompressed(m, b) = x.buffer  BY <1>2 DEF FindCompressed, RawOf
  <2>2. Saved(x) /\ Shows(x.data, view[b])  BY <1>2, BucketFacts DEF IsCompressed
  <2> HIDE DEF x
  <2>3. x.buffer \in Full /\ Len(x.buffer) = BlockSize  BY <2>2, FullBlocks DEF Saved
  <2> QED BY <2>1, <2>2, <2>3 DEF Saved, Shows
<1> QED BY <1>1, <1>2

\* Buckets are compressed: who refers to what does not change.
Saves(m, n) ==
  /\ Len(n.buckets) = Len(m.buckets) /\ n.size = m.size
  /\ \A a \in 1..Len(m.buckets) :
       n.buckets[a].refs = m.buckets[a].refs /\ (IsCompressed(m, a) => IsCompressed(n, a))

LEMMA CompressBlockShows ==
  ASSUME NEW m, NEW view, Represents(m, view), NEW b \in 1..Len(view), Len(view[b]) = BlockSize,
         NEW n, n = CompressBlock(m, b)
  PROVE  Represents(n, view) /\ Saves(m, n) /\ IsCompressed(n, b)
PROOF
<1> DEFINE c == m.buckets[b].raw
           j == Compress(m, c)
           i == Release(j, c)
           e == EraseContext(i, c)
<1>1. Len(view) = Len(m.buckets)  BY MemoryFacts
<1>2. n = IF FindCompressed(m, b) # Null /\ (c = NoContext \/ ~m.contexts[c].dirty) THEN m ELSE e
  BY DEF CompressBlock, RawOf
<1>3. IsCompressed(m, b) <=> c = NoContext \/ ~m.contexts[c].dirty  BY DEF IsCompressed
<1> HIDE DEF e
<1>4. CASE IsCompressed(m, b)
  <2>1. FindCompressed(m, b) # Null  BY <1>4, CompressedFacts, FullBlocks
  <2>2. n = m  BY <1>2, <1>3, <1>4, <2>1
  <2> QED BY <1>4, <2>2 DEF Saves
<1>5. CASE ~IsCompressed(m, b)
  <2>1. n = e /\ c # NoContext  BY <1>2, <1>3, <1>5
  <2>2. c \in DOMAIN m.contexts /\ m.contexts[c].block_index = b /\ b # 0
        /\ Len(m.contexts[c].data) = BlockSize
    BY <2>1, BucketFacts DEF Shows
  <2>3. j = Compress(m, c) /\ i = Release(j, c)  OBVIOUS
  <2> HIDE DEF i, j, c
  <2>4. /\ Represents(j, view) /\ j.buckets = m.buckets /\ j.size = m.size
        /\ Saved(j.contexts[c]) /\ j.contexts[c].block_index = b
        /\ DOMAIN j.contexts = DOMAIN m.contexts
        /\ \A d \in DOMAIN m.contexts : d # c => j.contexts[d] = m.contexts[d]
    BY <2>2, <2>3, CompressShows
  <2>5. /\ Represents(i, view) /\ i.size = j.size
        /\ DOMAIN i.contexts = DOMAIN j.contexts /\ i.contexts[c] = EmptyContext
        /\ \A d \in DOMAIN j.contexts : d # c => i.contexts[d] = j.contexts[d]
        /\ Len(i.buckets) = Len(j.buckets)
        /\ \A a \in 1..Len(j.buckets) :
              /\ i.buckets[a].refs = j.buckets[a].refs
              /\ a # b => i.buckets[a] = j.buckets[a]
              /\ a = b => i.buckets[a].raw = NoContext
    <3>1. c \in DOMAIN j.contexts /\ Saved(j.contexts[c])  BY <2>2, <2>4
    <3>2. j.contexts[c].block_index # 0 /\ b = j.contexts[c].block_index  BY <2>2, <2>4
    <3> DEFINE x == j.contexts[c].block_index
    <3>3. /\ Represents(i, view) /\ i.size = j.size
          /\ DOMAIN i.contexts = DOMAIN j.contexts /\ i.contexts[c] = EmptyContext
          /\ \A d \in DOMAIN j.contexts : d # c => i.contexts[d] = j.contexts[d]
          /\ Len(i.buckets) = Len(j.buckets)
          /\ \A a \in 1..Len(j.buckets) :
                /\ i.buckets[a].refs = j.buckets[a].refs
                /\ a # x => i.buckets[a] = j.buckets[a]
                /\ a = x => i.buckets[a].raw = NoContext
      BY <2>3, <2>4, <3>1, ReleaseShows
    <3> HIDE DEF x
    <3>4. b = x  BY <3>2 DEF x
    <3> QED BY <3>3, <3>4
  <2>6. /\ Represents(e, view) /\ e.buckets = i.buckets /\ e.size = i.size
        /\ DOMAIN e.contexts = DOMAIN i.contexts \ {c}
        /\ \A d \in DOMAIN e.contexts : e.contexts[d] = i.contexts[d]
    <3>1. c \in DOMAIN i.contexts /\ i.contexts[c].block_index = 0 /\ e = EraseContext(i, c)
      BY <2>2, <2>4, <2>5, EmptyIsCell DEF e
    <3> QED BY <2>5, <3>1, EraseShows
  <2>7. IsCompressed(e, b)  BY <1>1, <2>4, <2>5, <2>6 DEF IsCompressed
  <2>8. ASSUME NEW a \in 1..Len(m.buckets), a # b, IsCompressed(m, a) PROVE IsCompressed(e, a)
    <3> DEFINE d == m.buckets[a].raw
    <3>1. e.buckets[a] = m.buckets[a]  BY <2>4, <2>5, <2>6, <2>8
    <3>2. CASE d = NoContext  BY <3>1, <3>2 DEF IsCompressed
    <3>3. CASE d # NoContext
      <4>1. d \in DOMAIN m.contexts /\ m.contexts[d].block_index = a  BY <1>1, <3>3, BucketFacts
      <4>2. d # c  BY <2>2, <2>8, <4>1
      <4>3. e.contexts[d] = m.contexts[d]  BY <2>4, <2>5, <2>6, <4>1, <4>2
      <4> QED BY <2>8, <3>1, <4>3 DEF IsCompressed
    <3> QED BY <3>2, <3>3
  <2>9. Saves(m, e)
    <3>1. \A a \in 1..Len(m.buckets) : e.buckets[a].refs = m.buckets[a].refs
      BY <2>4, <2>5, <2>6
    <3>2. \A a \in 1..Len(m.buckets) : IsCompressed(m, a) => IsCompressed(e, a)
      BY <2>7, <2>8
    <3> QED BY <2>4, <2>5, <2>6, <3>1, <3>2 DEF Saves
  <2> QED BY <2>1, <2>6, <2>7, <2>9
<1> QED BY <1>4, <1>5

LEMMA CompressAllShows ==
  ASSUME NEW m, NEW view, Represents(m, view),
         \A b \in 1..(Len(view) - 1) : Len(view[b]) = BlockSize,
         NEW n, n = CompressAllButBack(m)
  PROVE  /\ Represents(n, view) /\ Saves(m, n)
         /\ \A b \in 1..(Len(view) - 1) : IsCompressed(n, b)
PROOF
<1> DEFINE q == IF Len(view) = 0 THEN 0 ELSE Len(view) - 1
<1>1. Len(view) \in Nat /\ Len(m.buckets) = Len(view)  BY MemoryFacts
<1>2. q \in Nat /\ 1..(Len(m.buckets) - 1) = 1..q /\ 1..(Len(view) - 1) = 1..q
      /\ \A k \in 1..q : k \in 1..Len(view)
  BY <1>1
<1> HIDE DEF q
<1>3. PICK h : /\ h[0] = m /\ \A k \in 1..q : h[k] = CompressBlock(h[k - 1], k)
               /\ CompressAllButBack(m) = h[q]
  BY <1>2, CompressChain
<1> DEFINE S == {k \in 0..q : /\ Represents(h[k], view) /\ Saves(m, h[k])
                              /\ \A b \in 1..k : IsCompressed(h[k], b)}
<1>4. 0 \in S
  <2>1. Saves(m, m)  BY DEF Saves
  <2> QED BY <1>2, <1>3, <2>1
<1>5. ASSUME NEW k \in 0..(q - 1), k \in S PROVE k + 1 \in S
  <2> DEFINE a == h[k]
             b == h[k + 1]
  <2>1. k + 1 \in 1..q /\ (k + 1) - 1 = k /\ k + 1 \in 0..q /\ k + 1 \in 1..Len(view)
        /\ \A i \in 1..(k + 1) : i \in 1..k \/ i = k + 1
    BY <1>2
  <2>1a. \A i \in 1..k : i \in 1..Len(m.buckets)  BY <1>1, <1>2
  <2>2. Represents(a, view) /\ Saves(m, a) /\ \A i \in 1..k : IsCompressed(a, i)  BY <1>5
  <2>3. b = CompressBlock(a, k + 1)  BY <1>3, <2>1
  <2> HIDE DEF a, b
  <2>4. Represents(b, view) /\ Saves(a, b) /\ IsCompressed(b, k + 1)
    <3>1. Len(view[k + 1]) = BlockSize  BY <1>2, <2>1
    <3> QED BY <2>1, <2>2, <2>3, <3>1, CompressBlockShows
  <2>5. Saves(m, b)  BY <2>2, <2>4 DEF Saves
  <2>6. \A i \in 1..(k + 1) : IsCompressed(b, i)
    <3>1. \A i \in 1..k : IsCompressed(b, i)  BY <2>1a, <2>2, <2>4 DEF Saves
    <3> QED BY <2>1, <2>4, <3>1
  <2> QED BY <2>1, <2>4, <2>5, <2>6 DEF b
<1> HIDE DEF S
<1>6. \A k \in 0..q : k \in S  BY <1>2, <1>4, <1>5, Induction
<1>7. q \in S  BY <1>2, <1>6
<1> QED BY <1>2, <1>3, <1>7 DEF S

LEMMA SerializeHolds ==
  ASSUME NEW m, NEW w, Holds(m, w), NEW n, n = CompressAllButBack(m)
  PROVE  Holds(n, w) /\ Saves(m, n)
PROOF
<1>1. PICK view : Represents(m, view) /\ Splits(view, w)  BY DEF Holds
<1>2. \A b \in 1..(Len(view) - 1) : Len(view[b]) = BlockSize
  <2>1. Len(view) \in Nat  BY <1>1, MemoryFacts
  <2>2. \A b \in 1..(Len(view) - 1) : b \in 1..Len(view) /\ b < Len(view)  BY <2>1
  <2> QED BY <1>1, <2>2 DEF Splits
<1>3. Represents(n, view) /\ Saves(m, n)  BY <1>1, <1>2, CompressAllShows
<1> QED BY <1>1, <1>3 DEF Holds, Saves
-----------------------------------------------------------------------------
(* The values of the blocks, one after the other *)

LEMMA FlattenExists ==
  ASSUME NEW seqs, NEW n \in Nat
  PROVE  \E f : f = [i \in 1..n |-> IF i = 1 THEN seqs[i] ELSE f[i-1] \o seqs[i]]
PROOF
<1> DEFINE Is(f, k) == f = [i \in 1..k |-> IF i = 1 THEN seqs[i] ELSE f[i-1] \o seqs[i]]
           S == {k \in 0..n : \E f : Is(f, k)}
<1>1. 0 \in S
  <2> DEFINE f == [i \in 1..0 |-> seqs]
  <2>1. Is(f, 0)
    <3>1. \A i \in 1..0 : FALSE  OBVIOUS
    <3> QED BY <3>1
  <2> HIDE DEF f, Is
  <2>2. 0 \in 0..n  OBVIOUS
  <2> QED BY <2>1, <2>2
<1>2. ASSUME NEW k \in 0..(n - 1), k \in S PROVE k + 1 \in S
  <2>1. PICK f : Is(f, k)  BY <1>2
  <2> DEFINE Value(i) == IF i = 1 THEN seqs[i] ELSE f[i-1] \o seqs[i]
             g == [i \in 1..(k + 1) |-> Value(i)]
  <2>2. f = [i \in 1..k |-> Value(i)]  BY <2>1
  <2>3. ASSUME NEW i \in 1..k PROVE g[i] = f[i]
    <3>1. i \in 1..(k + 1)  OBVIOUS
    <3>2. f[i] = Value(i)  BY <2>2
    <3>3. g[i] = Value(i)  BY <3>1
    <3> QED BY <3>2, <3>3
  <2>4. ASSUME NEW i \in 1..(k + 1) PROVE i = 1 \/ i - 1 \in 1..k  OBVIOUS
  <2> HIDE DEF g
  <2>5. ASSUME NEW i \in 1..(k + 1)
        PROVE  Value(i) = IF i = 1 THEN seqs[i] ELSE g[i-1] \o seqs[i]
    <3>1. CASE i = 1  BY <3>1
    <3>2. CASE i # 1
      <4>1. g[i-1] = f[i-1]  BY <2>3, <2>4, <3>2
      <4> QED BY <3>2, <4>1
    <3> QED BY <3>1, <3>2
  <2> HIDE DEF Value
  <2>6. Is(g, k + 1)  BY <2>5 DEF g
  <2>7. k + 1 \in 0..n  OBVIOUS
  <2> HIDE DEF Is
  <2> QED BY <2>6, <2>7
<1>3. n \in S
  <2> HIDE DEF S
  <2> QED BY <1>1, <1>2, Induction
<1> QED BY <1>3

LEMMA FlattenChain ==
  ASSUME NEW seqs, Len(seqs) \in Nat, Len(seqs) # 0
  PROVE  \E h : /\ h[1] = seqs[1]
                /\ \A k \in 1..(Len(seqs) - 1) : h[k + 1] = h[k] \o seqs[k + 1]
                /\ FlattenSeq(seqs) = h[Len(seqs)]
PROOF
<1> DEFINE n == Len(seqs)
           Is(f) == f = [i \in 1..n |-> IF i = 1 THEN seqs[i] ELSE f[i-1] \o seqs[i]]
           h == CHOOSE f : Is(f)
<1>1. FlattenSeq(seqs) = h[n]  BY DEF FlattenSeq
<1>2. n \in Nat /\ n # 0  OBVIOUS
<1>3. \E f : Is(f)
  <2> HIDE DEF n
  <2> QED BY <1>2, FlattenExists
<1>4. Is(h)
  <2> HIDE DEF Is
  <2> QED BY <1>3
<1> HIDE DEF h, n
<1>5. \A i \in 1..n : h[i] = IF i = 1 THEN seqs[i] ELSE h[i-1] \o seqs[i]  BY <1>4
<1>6. h[1] = seqs[1]
  <2>1. 1 \in 1..n  BY <1>2
  <2> QED BY <1>5, <2>1
<1>7. ASSUME NEW k \in 1..(n - 1) PROVE h[k + 1] = h[k] \o seqs[k + 1]
  <2>1. k + 1 \in 1..n /\ k + 1 # 1 /\ (k + 1) - 1 = k  BY <1>2
  <2> QED BY <1>5, <2>1
<1> QED BY <1>1, <1>6, <1>7 DEF n

LEMMA Rows ==
  ASSUME NEW b \in Nat, NEW c \in Nat, b <= c
  PROVE  /\ b * BlockSize \in Nat /\ b * BlockSize <= c * BlockSize
         /\ b >= 1 => (b - 1) * BlockSize \in Nat /\ (b - 1) * BlockSize + BlockSize = b * BlockSize
PROOF
<1> DEFINE B == BlockSize
           d == c - b
<1>1. B \in Nat /\ d \in Nat /\ c = b + d  BY Constants
<1>2. b * B \in Nat  BY <1>1
<1>3. b * B <= c * B
  <2> HIDE DEF d, B
  <2> DEFINE x == b * B
             y == d * B
  <2>1. c * B = x + y /\ x \in Nat /\ y \in Nat  BY <1>1
  <2> HIDE DEF x, y
  <2>2. x <= c * B  BY <2>1
  <2> QED BY <2>2 DEF x
<1>4. b >= 1 => (b - 1) * B \in Nat /\ (b - 1) * B + B = b * B
  <2> HIDE DEF B, d
  <2> QED BY <1>1
<1> QED BY <1>2, <1>3, <1>4

LEMMA FlattenSplits ==
  ASSUME NEW view, NEW w, Splits(view, w)
  PROVE  FlattenSeq(view) = w
PROOF
<1> DEFINE L == Len(view)
           N == Len(w)
           B == BlockSize
<1>1. w \in Seq(Values) /\ view \in Seq(Seq(Values)) /\ L \in Nat /\ N \in Nat
      /\ B \in Nat /\ B > 0
  BY SplitsFacts, Constants DEF Splits
<1>2. /\ N # 0 => L >= 1 /\ BucketOf(N) = L /\ PosOf(N) \in 1..B
      /\ N = 0 <=> L = 0
      /\ \A b \in 1..L : Len(view[b]) = IF b < L THEN B ELSE PosOf(N)
      /\ \A i \in 1..N : view[BucketOf(i)][PosOf(i)] = w[i]
  BY SplitsFacts DEF Splits
<1>3. CASE L = 0
  <2>1. view = <<>> /\ w = <<>>  BY <1>1, <1>2, <1>3, EmptySequence
  <2> QED BY <1>3, <2>1 DEF FlattenSeq
<1>4. CASE L # 0
  <2>1. PICK h : /\ h[1] = view[1]
                 /\ \A k \in 1..(L - 1) : h[k + 1] = h[k] \o view[k + 1]
                 /\ FlattenSeq(view) = h[L]
    BY <1>1, <1>4, FlattenChain
  <2>2. N > 0 /\ BucketOf(N) = L /\ PosOf(N) \in 1..B /\ N = (L - 1) * B + PosOf(N)
    <3>1. N > 0  BY <1>1, <1>2, <1>4
    <3>2. N \in Nat  BY <1>1
    <3>3. BucketOf(N) = L /\ PosOf(N) \in 1..B  BY <1>2, <3>1
    <3> HIDE DEF N, L
    <3>4. N = (BucketOf(N) - 1) * BlockSize + PosOf(N)  BY <3>1, <3>2, Position
    <3> QED BY <3>1, <3>3, <3>4
  <2> DEFINE E(b) == (b - 1) * B + Len(view[b])
             Ok(b) == /\ h[b] \in Seq(Values) /\ Len(h[b]) = E(b)
                      /\ \A i \in 1..E(b) : h[b][i] = w[i]
             S == {k \in 0..(L - 1) : Ok(k + 1)}
  <2>3. \A b \in 1..L : b < L => E(b) = b * B
    <3>1. ASSUME NEW b \in 1..L, b < L PROVE E(b) = b * B
      <4>1. E(b) = (b - 1) * B + B  BY <1>2, <3>1
      <4>2. (b - 1) * B + B = b * B  BY <1>1
      <4> QED BY <4>1, <4>2
    <3> QED BY <3>1
  <2>4. E(L) = N
    <3>1. L \in 1..L /\ ~(L < L)  BY <1>1, <1>4
    <3> QED BY <1>2, <2>2, <3>1
  <2>5. ASSUME NEW b \in 1..L
        PROVE  /\ (b - 1) * B \in Nat /\ Len(view[b]) \in 0..B /\ E(b) \in Nat /\ E(b) <= N
               /\ view[b] \in Seq(Values)
    <3>1. b \in Nat /\ b >= 1 /\ b <= L  BY <1>1
    <3>2. (b - 1) * B \in Nat /\ b * B \in Nat  BY <1>1, <3>1, Rows
    <3>3. Len(view[b]) \in 0..B  BY <1>1, <1>2, <2>2
    <3>4. E(b) <= N
      <4>1. CASE b = L
        <5>1. E(b) = N  BY <2>4, <4>1
        <5> HIDE DEF E
        <5> QED BY <1>1, <5>1
      <4>2. CASE b # L
        <5>1. b < L /\ b <= L - 1 /\ L - 1 \in Nat  BY <1>1, <3>1, <4>2
        <5>2. b * B <= (L - 1) * B /\ (L - 1) * B \in Nat  BY <3>1, <5>1, Rows
        <5>3. E(b) = b * B  BY <2>3, <5>1
        <5>4. N = (L - 1) * B + PosOf(N) /\ PosOf(N) \in Nat  BY <1>1, <2>2
        <5> DEFINE x == b * B
                   y == (L - 1) * B
        <5> HIDE DEF x, y, E
        <5>5. x <= y /\ y \in Nat /\ x \in Nat /\ N = y + PosOf(N) /\ E(b) = x
          BY <3>2, <5>2, <5>3, <5>4 DEF x, y
        <5> QED BY <5>4, <5>5
      <4> QED BY <4>1, <4>2
    <3>5. E(b) \in Nat
      <4> DEFINE x == (b - 1) * B
      <4>1. x \in Nat  BY <3>2
      <4> HIDE DEF x
      <4>2. x + Len(view[b]) \in Nat  BY <1>1, <3>3, <4>1
      <4> QED BY <4>2 DEF x
    <3>6. view[b] \in Seq(Values)  BY <1>1
    <3> QED BY <3>2, <3>3, <3>4, <3>5, <3>6
  <2>6. ASSUME NEW b \in 1..L, NEW p \in 1..Len(view[b])
        PROVE  (b - 1) * B + p \in 1..N /\ w[(b - 1) * B + p] = view[b][p]
    <3> DEFINE i == (b - 1) * B + p
    <3>1. /\ (b - 1) * B \in Nat /\ Len(view[b]) \in 0..B /\ E(b) <= N  BY <2>5
    <3> DEFINE x == (b - 1) * B
               n == Len(view[b])
    <3>a. x \in Nat /\ n \in 0..B /\ x + n <= N /\ p \in 1..n /\ i = x + p  BY <3>1
    <3>b. b \in Nat /\ b >= 1  BY <1>1
    <3> HIDE DEF x, n, i
    <3>2. p \in 1..B /\ i \in Nat /\ i >= 1  BY <1>1, <3>a
    <3>4. i \in 1..N  BY <1>1, <3>a, <3>2
    <3> USE DEF i
    <3>5. BucketOf(i) = b /\ PosOf(i) = p  BY <3>2, <3>b, PositionIs
    <3> HIDE DEF i
    <3>6. w[i] = view[b][p]  BY <1>2, <3>4, <3>5
    <3> QED BY <3>4, <3>6 DEF i
  <2>7. 0 \in S
    <3>1. 1 \in 1..L /\ 0 \in 0..(L - 1) /\ 0 + 1 = 1  BY <1>1, <1>4
    <3>2. E(1) = Len(view[1]) /\ \A p \in 1..Len(view[1]) : (1 - 1) * B + p = p
      <4>1. Len(view[1]) \in 0..B  BY <2>5, <3>1
      <4>2. (1 - 1) * B = 0  BY <1>1
      <4>3. Len(view[1]) \in Nat  BY <1>1, <4>1
      <4> DEFINE n == Len(view[1])
                 x == (1 - 1) * B
      <4>4. n \in Nat /\ x = 0  BY <4>2, <4>3
      <4> HIDE DEF x, n
      <4>5. x + n = n /\ \A p \in 1..n : x + p = p  BY <4>4
      <4> QED BY <4>5 DEF x, n
    <3>3. h[1] \in Seq(Values)  BY <2>1, <2>5, <3>1
    <3>4. \A p \in 1..Len(view[1]) : view[1][p] = w[p]
      <4>1. ASSUME NEW p \in 1..Len(view[1]) PROVE view[1][p] = w[p]
        <5>1. w[(1 - 1) * B + p] = view[1][p]  BY <2>6, <3>1
        <5> QED BY <3>2, <5>1
      <4> QED BY <4>1
    <3> HIDE DEF E
    <3>5. Ok(1)  BY <2>1, <3>2, <3>3, <3>4
    <3> HIDE DEF Ok
    <3> QED BY <3>1, <3>5
  <2>8. ASSUME NEW k \in 0..((L - 1) - 1), k \in S PROVE k + 1 \in S
    <3> DEFINE b == k + 1
               c == b + 1
               s == h[b]
               u == view[c]
               V == Values
    <3>1. b \in 1..(L - 1) /\ b \in 1..L /\ c \in 1..L /\ b < L /\ b \in 0..(L - 1) /\ c - 1 = b
      BY <1>1
    <3>2. h[c] = s \o u  BY <2>1, <3>1
    <3>3. s \in Seq(Values) /\ Len(s) = E(b) /\ \A i \in 1..E(b) : s[i] = w[i]
      BY <2>8
    <3>4. E(b) = b * B /\ E(c) = b * B + Len(u) /\ b * B \in Nat
      <4>1. E(c) = (c - 1) * B + Len(u)  OBVIOUS
      <4>2. E(b) = b * B  BY <2>3, <3>1
      <4>3. (c - 1) * B = b * B /\ (c - 1) * B \in Nat  BY <2>5, <3>1
      <4> HIDE DEF E, b, u
      <4> QED BY <4>1, <4>2, <4>3
    <3>5. u \in Seq(Values) /\ Len(u) \in Nat  BY <2>5, <3>1
    <3>6. ASSUME NEW p \in 1..Len(u) PROVE w[b * B + p] = u[p]
      <4>1. w[(c - 1) * B + p] = view[c][p]  BY <2>6, <3>1
      <4> QED BY <3>1, <4>1
    <3> DEFINE x == b * B
               t == s \o u
    <3>7. s \in Seq(V) /\ u \in Seq(V)  BY <3>3, <3>5
    <3> HIDE DEF V, s, u
    <3>8. t \in Seq(V) /\ Len(t) = Len(s) + Len(u)
          /\ \A i \in 1..(Len(s) + Len(u)) : t[i] = IF i <= Len(s) THEN s[i] ELSE u[i - Len(s)]
      BY <3>7, Concatenation
    <3>9. Len(s) = x /\ x \in Nat /\ E(c) = x + Len(u) /\ E(b) = x  BY <3>3, <3>4
    <3> HIDE DEF t, E
    <3>10. ASSUME NEW i \in 1..E(c) PROVE t[i] = w[i]
      <4>1. i \in 1..(Len(s) + Len(u)) /\ i \in 1..(x + Len(u)) /\ i \in Nat /\ i >= 1
        BY <3>5, <3>9
      <4>2. CASE i <= x
        <5>1. i \in 1..E(b)  BY <3>9, <4>1, <4>2
        <5> QED BY <3>3, <3>8, <3>9, <4>1, <4>2, <5>1
      <4>3. CASE ~(i <= x)
        <5> DEFINE p == i - x
        <5>1. p \in 1..Len(u) /\ i = x + p  BY <3>5, <3>9, <4>1, <4>3
        <5> HIDE DEF p
        <5>2. w[x + p] = u[p]  BY <3>6, <5>1
        <5>3. t[i] = u[i - Len(s)] /\ i - Len(s) = p  BY <3>8, <3>9, <4>1, <4>3 DEF p
        <5> QED BY <5>1, <5>2, <5>3
      <4> QED BY <4>2, <4>3
    <3>11. Ok(c)
      <4>1. h[c] = t  BY <3>2 DEF t
      <4> HIDE DEF c
      <4> QED BY <3>8, <3>9, <3>10, <4>1 DEF V
    <3> HIDE DEF Ok
    <3> QED BY <3>1, <3>11
  <2> HIDE DEF S
  <2>9. L - 1 \in Nat  BY <1>1, <1>4
  <2>10. \A k \in 0..(L - 1) : k \in S  BY <2>7, <2>8, <2>9, Induction
  <2>11. Ok(L)
    <3>1. L - 1 \in S /\ (L - 1) + 1 = L  BY <1>1, <2>9, <2>10
    <3>2. Ok((L - 1) + 1)  BY <3>1 DEF S
    <3> HIDE DEF Ok
    <3> QED BY <3>1, <3>2
  <2> DEFINE t == h[L]
  <2>12. t \in Seq(Values) /\ Len(t) = Len(w) /\ \A i \in 1..Len(w) : t[i] = w[i]
    BY <2>4, <2>11
  <2> DEFINE V == Values
  <2>13. t \in Seq(V) /\ w \in Seq(V)  BY <1>1, <2>12
  <2> HIDE DEF t, V
  <2>14. t = w  BY <2>12, <2>13, SameValues
  <2> QED BY <2>1, <2>14 DEF t
<1> QED BY <1>3, <1>4
-----------------------------------------------------------------------------
(* deserialize *)

\* Blocks of the same lengths are those of a vector.
LEMMA JoinExists ==
  ASSUME NEW view, NEW w, Splits(view, w), NEW blocks \in Seq(Seq(Values)), Len(blocks) = Len(view),
         \A b \in 1..Len(view) : Len(blocks[b]) = Len(view[b])
  PROVE  \E u : u \in Seq(Values) /\ Len(u) = Len(w) /\ Splits(blocks, u)
PROOF
<1> DEFINE u == [i \in 1..Len(w) |-> blocks[BucketOf(i)][PosOf(i)]]
           N == Len(w)
           L == Len(view)
<1>1. N \in Nat /\ L \in Nat
      /\ \A i \in 1..N : BucketOf(i) \in 1..L /\ PosOf(i) \in 1..Len(view[BucketOf(i)])
  BY SplitsFacts
<1>2. /\ L = IF N = 0 THEN 0 ELSE BucketOf(N)
      /\ \A b \in 1..L : Len(view[b]) = IF b < L THEN BlockSize ELSE PosOf(N)
  BY DEF Splits
<1>3. \A i \in 1..N : blocks[BucketOf(i)][PosOf(i)] \in Values
  <2>1. ASSUME NEW b \in 1..L, NEW p \in 1..Len(view[b]) PROVE blocks[b][p] \in Values
    <3>1. blocks[b] \in Seq(Values) /\ p \in 1..Len(blocks[b])  OBVIOUS
    <3> DEFINE s == blocks[b]
    <3> HIDE DEF s
    <3>2. s[p] \in Values
      <4>1. s \in Seq(Values) /\ p \in 1..Len(s)  BY <3>1 DEF s
      <4> QED BY <4>1
    <3> QED BY <3>2 DEF s
  <2> QED BY <1>1, <2>1
<1>4. u \in Seq(Values) /\ Len(u) = N /\ \A i \in 1..N : u[i] = blocks[BucketOf(i)][PosOf(i)]
  BY <1>1, <1>3
<1> HIDE DEF u, N, L
<1>5. Len(blocks) = L  BY DEF L
<1>6. \A b \in 1..Len(blocks) : Len(blocks[b]) = IF b < Len(blocks) THEN BlockSize ELSE PosOf(Len(u))
  <2>1. \A b \in 1..L : Len(blocks[b]) = Len(view[b])  BY DEF L
  <2> QED BY <1>2, <1>4, <1>5, <2>1
<1>7. Len(blocks) = IF Len(u) = 0 THEN 0 ELSE BucketOf(Len(u))  BY <1>2, <1>4, <1>5
<1>8. Splits(blocks, u)  BY <1>4, <1>6, <1>7 DEF Splits
<1> QED BY <1>4, <1>8 DEF N

\* When a functor throws only the number of the values is known.
LEMMA HoldsOther ==
  ASSUME ~NeverThrows, NEW n, NEW u, Holds(n, u), NEW t \in Seq(Values), Len(t) = Len(u)
  PROVE  Holds(n, t)
PROOF
<1>1. PICK view : Represents(n, view) /\ Splits(view, u)  BY DEF Holds
<1> DEFINE L == Len(view)
           N == Len(t)
           Value(b, p) == IF (b - 1) * BlockSize + p \in 1..N THEN t[(b - 1) * BlockSize + p] ELSE view[b][p]
           Block(b) == [p \in 1..Len(view[b]) |-> Value(b, p)]
           shown == [b \in 1..L |-> Block(b)]
<1>2. L \in Nat /\ view \in Seq(Seq(Values)) /\ Len(n.buckets) = L /\ N \in Nat /\ N = Len(u)
      /\ \A b \in 1..L : view[b] \in Seq(Values) /\ Len(view[b]) \in 0..BlockSize
  BY <1>1, MemoryFacts
<1>3. ASSUME NEW b \in 1..L
      PROVE  Block(b) \in Seq(Values) /\ Len(Block(b)) = Len(view[b])
             /\ \A p \in 1..Len(view[b]) : Block(b)[p] = Value(b, p)
  <2> DEFINE s == view[b]
             f == [p \in 1..Len(s) |-> Value(b, p)]
  <2>1. s \in Seq(Values) /\ Len(s) \in Nat  BY <1>2
  <2>2. \A p \in 1..Len(s) : Value(b, p) \in Values
    <3>1. \A p \in 1..Len(s) : s[p] \in Values
      <4> HIDE DEF s
      <4> QED BY <2>1
    <3>2. \A i \in 1..N : t[i] \in Values  OBVIOUS
    <3> HIDE DEF N
    <3> QED BY <3>1, <3>2
  <2> HIDE DEF s, Value
  <2>3. f \in Seq(Values) /\ Len(f) = Len(s) /\ \A p \in 1..Len(s) : f[p] = Value(b, p)
    BY <2>1, <2>2
  <2> QED BY <2>3 DEF s
<1> HIDE DEF Block
<1>4. shown \in Seq(Seq(Values)) /\ Len(shown) = L /\ \A b \in 1..L : shown[b] = Block(b)
  BY <1>2, <1>3
<1> HIDE DEF shown
<1>5. Represents(n, shown)
  <2>1. ASSUME NEW b \in 1..L PROVE Len(shown[b]) <= BlockSize /\ BucketShows(n, b, shown[b])
    <3>1. Len(shown[b]) = Len(view[b]) /\ Len(view[b]) <= BlockSize /\ BucketShows(n, b, view[b])
      BY <1>1, <1>3, <1>4 DEF Represents
    <3>2. \A values : Shows(values, view[b]) => Shows(values, shown[b])  BY <3>1 DEF Shows
    <3> QED BY <3>1, <3>2 DEF BucketShows
  <2> QED BY <1>1, <1>2, <1>4, <2>1 DEF Represents
<1>6. /\ L = IF N = 0 THEN 0 ELSE BucketOf(N)
      /\ \A b \in 1..L : Len(view[b]) = IF b < L THEN BlockSize ELSE PosOf(N)
  BY <1>1, <1>2 DEF Splits
<1>7. ASSUME NEW i \in 1..N PROVE shown[BucketOf(i)][PosOf(i)] = t[i]
  <2> DEFINE b == BucketOf(i)
             p == PosOf(i)
  <2>1. b \in 1..L /\ p \in 1..Len(view[b])  BY <1>1, <1>2, SplitsFacts
  <2>2. (b - 1) * BlockSize + p = i  BY <1>2, Position
  <2> HIDE DEF b, p
  <2>3. shown[b][p] = Value(b, p)  BY <1>3, <1>4, <2>1
  <2>4. Value(b, p) = t[i]  BY <2>2
  <2> QED BY <2>3, <2>4 DEF b, p
<1>8. Splits(shown, t)
  <2>1. Len(shown) = IF Len(t) = 0 THEN 0 ELSE BucketOf(Len(t))  BY <1>4, <1>6
  <2>2. \A b \in 1..Len(shown) : Len(shown[b]) = IF b < Len(shown) THEN BlockSize ELSE PosOf(Len(t))
    BY <1>3, <1>4, <1>6
  <2> QED BY <1>4, <1>7, <2>1, <2>2 DEF Splits
<1>9. n.size = Len(t)  BY DEF Holds
<1> QED BY <1>5, <1>8, <1>9 DEF Holds

\* The whole blocks of a frame.
LEMMA LoadsHold ==
  ASSUME NEW m, Holds(Cleared(m), <<>>), NEW values \in Seq(Values),
         NEW q, q = Len(values) \div BlockSize, NEW n, n = Loaded(m, values)
  PROVE  /\ q \in Nat /\ q * BlockSize \in Nat /\ q * BlockSize <= Len(values)
         /\ Holds(n, SubSeq(values, 1, q * BlockSize)) /\ Grows(Cleared(m), n)
PROOF
<1> DEFINE N == Len(values)
           B == BlockSize
           m0 == Cleared(m)
           P(k) == SubSeq(values, 1, k * B)
<1>1. N \in Nat /\ B \in Nat /\ B > 0  BY Constants
<1>2. q \in Nat /\ q * B \in Nat /\ q * B <= N
  <2> HIDE DEF N
  <2>1. N \div B \in Nat /\ N % B \in Nat /\ N = B * (N \div B) + (N % B)  BY <1>1, Division
  <2>2. q = N \div B  BY DEF N
  <2> DEFINE r == N % B
  <2>3. q \in Nat /\ r \in Nat /\ N = B * q + r  BY <2>1, <2>2
  <2> HIDE DEF r
  <2>4. B * q = q * B /\ q * B \in Nat  BY <1>1, <2>3
  <2> DEFINE x == q * B
  <2>5. N = x + r /\ x \in Nat  BY <2>3, <2>4
  <2> HIDE DEF x
  <2>6. x <= N  BY <1>1, <2>3, <2>5
  <2> QED BY <2>3, <2>4, <2>6 DEF x
<1>3. PICK h : /\ h[0] = m0
               /\ \A k \in 1..q : h[k] = AppendCompressed(h[k - 1], SubSeq(values, (k - 1) * B + 1, k * B))
               /\ Loaded(m, values) = h[q]
  BY <1>2, LoadChain
<1>4. \A k \in 0..q : k * B \in Nat /\ k * B <= N
  <2>1. ASSUME NEW k \in 0..q PROVE k * B \in Nat /\ k * B <= N
    <3>1. k \in Nat /\ k <= q  BY <1>2
    <3>2. k * B \in Nat /\ k * B <= q * B  BY <1>2, <3>1, Rows
    <3> DEFINE x == k * B
               y == q * B
    <3>3. x \in Nat /\ x <= y /\ y \in Nat /\ y <= N  BY <1>2, <3>2
    <3> HIDE DEF x, y, N
    <3>4. x <= N  BY <1>1, <3>3
    <3> QED BY <3>3, <3>4 DEF x
  <2> QED BY <2>1
<1>5. ASSUME NEW k \in 0..q
      PROVE  P(k) \in Seq(Values) /\ Len(P(k)) = k * B /\ \A i \in 1..(k * B) : P(k)[i] = values[i]
  <2> DEFINE x == k * B
  <2>1. x \in Nat /\ x <= N  BY <1>4
  <2> HIDE DEF x
  <2>2. 1 \in 1..(Len(values) + 1) /\ x \in (1 - 1)..Len(values)  BY <1>1, <2>1
  <2>3. /\ SubSeq(values, 1, x) \in Seq(Values) /\ Len(SubSeq(values, 1, x)) = x - 1 + 1
        /\ \A i \in 1..(x - 1 + 1) : SubSeq(values, 1, x)[i] = values[1 + i - 1]
    BY <2>2, Part
  <2>4. x - 1 + 1 = x /\ \A i \in 1..x : 1 + i - 1 = i  BY <2>1
  <2>5. SubSeq(values, 1, x) \in Seq(Values) /\ Len(SubSeq(values, 1, x)) = x
        /\ \A i \in 1..x : SubSeq(values, 1, x)[i] = values[i]
    BY <2>3, <2>4
  <2> QED BY <2>5 DEF x
<1> HIDE DEF N, m0, P
<1> DEFINE S == {k \in 0..q : Holds(h[k], P(k)) /\ Grows(m0, h[k])}
<1>6. 0 \in S
  <2>1. P(0) = <<>>
    <3>1. 0 \in 0..q /\ 0 * B = 0  BY <1>1, <1>2
    <3>2. P(0) \in Seq(Values) /\ Len(P(0)) = 0  BY <1>5, <3>1
    <3> QED BY <3>2, EmptySequence
  <2>2. Holds(m0, <<>>)  BY DEF m0
  <2>3. Grows(m0, m0)
    <3>1. Keeps(m0, m0, NoContext)  BY KeepsSame
    <3>2. PICK view : Represents(m0, view)  BY <2>2 DEF Holds
    <3> QED BY <3>1, <3>2, KeepsMoves
  <2> QED BY <1>2, <1>3, <2>1, <2>2, <2>3
<1>7. ASSUME NEW k \in 0..(q - 1), k \in S PROVE k + 1 \in S
  <2> DEFINE s == P(k)
             t == P(k + 1)
             block == SubSeq(values, k * B + 1, (k + 1) * B)
             a == h[k]
             b == h[k + 1]
  <2>1. k + 1 \in 1..q /\ (k + 1) - 1 = k /\ k + 1 \in 0..q /\ k \in 0..q /\ k \in Nat  BY <1>2
  <2>2. b = AppendCompressed(a, block)
    <3>1. \A i \in 1..q : h[i] = AppendCompressed(h[i - 1], SubSeq(values, (i - 1) * B + 1, i * B))
      BY <1>3
    <3>2. h[k + 1] = AppendCompressed(h[(k + 1) - 1], SubSeq(values, ((k + 1) - 1) * B + 1, (k + 1) * B))
      BY <2>1, <3>1
    <3> QED BY <2>1, <3>2
  <2>3. Holds(a, s) /\ Grows(m0, a)  BY <1>7
  <2> DEFINE x == k * B
             y == (k + 1) * B
  <2>4. x \in Nat /\ y \in Nat /\ y <= N /\ y = x + B
    <3>1. (k + 1) * B = k * B + B  BY <1>1, <2>1
    <3> QED BY <1>4, <2>1, <3>1
  <2>5. s \in Seq(Values) /\ Len(s) = x /\ \A i \in 1..x : s[i] = values[i]  BY <1>5, <2>1
  <2>6. t \in Seq(Values) /\ Len(t) = y /\ \A i \in 1..y : t[i] = values[i]  BY <1>5, <2>1
  <2>7. Whole(s)
    <3>1. Len(s) % B = 0  BY <2>1, <2>5, Multiple
    <3> QED BY <3>1 DEF Whole
  <2>7a. block = SubSeq(values, x + 1, y)  OBVIOUS
  <2> HIDE DEF x, y, s, t, a, b, block
  <2>8. block \in Seq(Values) /\ Len(block) = B /\ \A i \in 1..B : block[i] = values[x + i]
    <3>1. x + 1 \in 1..(Len(values) + 1) /\ y \in ((x + 1) - 1)..Len(values)
      BY <1>1, <2>4 DEF N
    <3>2. /\ SubSeq(values, x + 1, y) \in Seq(Values)
          /\ Len(SubSeq(values, x + 1, y)) = y - (x + 1) + 1
          /\ \A i \in 1..(y - (x + 1) + 1) : SubSeq(values, x + 1, y)[i] = values[(x + 1) + i - 1]
      BY <3>1, Part
    <3>3. y - (x + 1) + 1 = B /\ \A i \in 1..B : (x + 1) + i - 1 = x + i  BY <1>1, <2>4
    <3> QED BY <2>7a, <3>2, <3>3
  <2>9. Holds(b, s \o block) /\ Grows(a, b)
    <3>1. block \in Full  BY <2>8, FullBlocks
    <3> QED BY <2>2, <2>3, <2>7, <3>1, AppendCompressedHolds
  <2>10. s \o block = t
    <3> DEFINE V == Values
               c == s \o block
    <3>1. s \in Seq(V) /\ block \in Seq(V) /\ t \in Seq(V)  BY <2>5, <2>6, <2>8
    <3> HIDE DEF V
    <3>2. c \in Seq(V) /\ Len(c) = Len(s) + Len(block)
          /\ \A i \in 1..(Len(s) + Len(block)) : c[i] = IF i <= Len(s) THEN s[i] ELSE block[i - Len(s)]
      BY <3>1, Concatenation
    <3> HIDE DEF c
    <3>3. Len(c) = y /\ \A i \in 1..y : c[i] = IF i <= x THEN s[i] ELSE block[i - x]
      BY <2>4, <2>5, <2>8, <3>2
    <3>4. ASSUME NEW i \in 1..y PROVE c[i] = t[i]
      <4>1. CASE i <= x
        <5>1. i \in 1..x  BY <2>4, <4>1
        <5> QED BY <2>5, <2>6, <3>3, <4>1, <5>1
      <4>2. CASE ~(i <= x)
        <5> DEFINE j == i - x
        <5>1. j \in 1..B /\ x + j = i  BY <1>1, <2>4, <4>2
        <5>2. c[i] = block[j]  BY <3>3, <4>2
        <5> HIDE DEF j
        <5> QED BY <2>6, <2>8, <5>1, <5>2
      <4> QED BY <4>1, <4>2
    <3>5. c = t  BY <2>6, <3>1, <3>2, <3>3, <3>4, SameValues
    <3> QED BY <3>5 DEF c
  <2>11. Grows(m0, b)
    <3>1. Len(m0.buckets) \in Nat /\ Len(a.buckets) \in Nat /\ Len(b.buckets) \in Nat
      BY <2>3, <2>9, HoldsFacts DEF m0
    <3> QED BY <2>3, <2>9, <3>1, GrowsTwice
  <2> QED BY <2>1, <2>9, <2>10, <2>11 DEF b, t
<1> HIDE DEF S
<1>8. \A k \in 0..q : k \in S  BY <1>2, <1>6, <1>7, Induction
<1>9. Holds(h[q], P(q)) /\ Grows(m0, h[q])
  <2>1. q \in S  BY <1>2, <1>8
  <2> QED BY <2>1 DEF S
<1> QED BY <1>2, <1>3, <1>9 DEF m0, P, N

\* The last values of a frame, in a context.
Backed(m, back) ==
  LET new == NewContext(m)
      c == Head(new.order)
  IN  WithData(AppendBucket(new, c), c, back, AppendBucket(new, c).size + Len(back))

LEMMA BackedHolds ==
  ASSUME NEW m, NEW w, Holds(m, w), Whole(w),
         NEW back \in Seq(Values), Len(back) \in 1..BlockSize,
         NEW n, n = Backed(m, back)
  PROVE  Holds(n, w \o back) /\ Grows(m, n)
PROOF
<1> DEFINE new == NewContext(m)
           c == Head(new.order)
           a == AppendBucket(new, c)
           s == a.size + Len(back)
           x == [a.contexts[c] EXCEPT !.data = back]
<1>1. PICK view : Represents(m, view) /\ Splits(view, w)  BY DEF Holds
<1>2. n = WithData(a, c, back, s)  BY DEF Backed
<1>3. /\ Represents(new, view) /\ new.buckets = m.buckets /\ new.size = m.size
      /\ c \in DOMAIN new.contexts /\ new.contexts[c].block_index = 0
  BY <1>1, NewContextShows
<1> HIDE DEF new
<1>4. AddStep(new, view, c, a)  BY <1>3 DEF AddStep
<1> HIDE DEF c, a
<1> DEFINE L == Len(view)
           b == L + 1
           before == Append(view, <<>>)
           shown == Append(view, back)
<1>5. Represents(a, before) /\ Added(new, a, c)  BY <1>4, AppendBucketShows
<1>6. L \in Nat /\ view \in Seq(Seq(Values)) /\ Len(m.buckets) = L  BY <1>1, MemoryFacts
<1>7. /\ Len(a.buckets) = L + 1 /\ a.buckets[b].raw = c /\ a.buckets[b].refs = 0
      /\ \A i \in 1..L : a.buckets[i] = m.buckets[i]
      /\ a.size = m.size
      /\ c \in DOMAIN a.contexts
      /\ a.contexts[c] = [data |-> <<>>, dirty |-> TRUE, block_index |-> b, buffer |-> Null]
  BY <1>3, <1>5, <1>6 DEF Added
<1>8. IsRecord(a) /\ a.live \in Int /\ a.size \in Int  BY <1>5, MemoryFacts DEF IsMemory
<1>8a. x = [a.contexts[c] EXCEPT !.data = back]  OBVIOUS
<1> HIDE DEF x, s
<1>9. n = ContextChanged(a, c, x, s, a.live)
  <2>a. IsRecord(a) /\ c \in DOMAIN a.contexts  BY <1>7, <1>8
  <2>1. WithData(a, c, back, s) = ContextChanged(a, c, x, s, a.live)
    BY <2>a, <1>8a, DataAndSizeIs
  <2> QED BY <1>2, <2>1
<1> USE DEF x, s
<1>10. x \in Cell /\ x.block_index = b /\ x.data = back /\ x.dirty /\ x.buffer = Null
  <2> DEFINE t == TRUE
  <2>1. a.contexts[c] = [data |-> <<>>, dirty |-> t, block_index |-> b, buffer |-> Null]  BY <1>7
  <2>2. t \in BOOLEAN /\ t  OBVIOUS
  <2>3. b \in Nat  BY <1>6
  <2> HIDE DEF t, b
  <2>4. x = [data |-> back, dirty |-> t, block_index |-> b, buffer |-> Null]  BY <2>1
  <2> HIDE DEF x
  <2>5. x \in Cell  BY <2>2, <2>3, <2>4, NoBlocks DEF Cell
  <2> QED BY <2>2, <2>4, <2>5
<1>11. /\ before \in Seq(Seq(Values)) /\ Len(before) = L + 1 /\ before[b] = <<>>
       /\ \A i \in 1..L : before[i] = view[i]
  <2> DEFINE e == <<>>
  <2>1. e \in Seq(Values)  OBVIOUS
  <2> HIDE DEF e
  <2>2. /\ Append(view, e) \in Seq(Seq(Values)) /\ Len(Append(view, e)) = L + 1 /\ Append(view, e)[L + 1] = e
        /\ \A i \in 1..L : Append(view, e)[i] = view[i]
    BY <1>6, <2>1
  <2> QED BY <2>2 DEF e
<1>12. /\ shown \in Seq(Seq(Values)) /\ Len(shown) = L + 1 /\ shown[b] = back
       /\ \A i \in 1..L : shown[i] = view[i]
  BY <1>6
<1> HIDE DEF x, before, shown, L
<1>13. SameBut(before, shown, b)
  <2>1. \A i \in 1..Len(before) : i # b => i \in 1..L  BY <1>6, <1>11
  <2>2. Len(shown[b]) <= BlockSize  BY <1>12
  <2> QED BY <1>11, <1>12, <2>1, <2>2 DEF SameBut
<1>14. s \in Int /\ Len(back) \in Nat
  <2>1. Len(back) \in Nat  OBVIOUS
  <2> QED BY <1>8, <2>1
<1> HIDE DEF s
<1>15. n.size = s /\ n.live = a.live /\ n.buckets = a.buckets  BY <1>9 DEF ContextChanged
<1>16. ContextStep(a, before, b, c, x, shown, n)
  <2>1. Shows(x.data, shown[b])  BY <1>10, <1>12 DEF Shows
  <2>2. b # 0  BY <1>6
  <2>3. a.live + Count(a.contexts[c].buffer # Null) = a.live + Count(x.buffer # Null)
    BY <1>7, <1>10
  <2>4. a.contexts[c].block_index = b  BY <1>7
  <2> HIDE DEF b
  <2> QED BY <1>5, <1>7, <1>8, <1>9, <1>10, <1>13, <1>14, <1>15, <2>1, <2>2, <2>3, <2>4
          DEF ContextStep
<1>17. Represents(n, shown)  BY <1>16, ContextChanges
<1>18. Splits(shown, w \o back)  BY <1>1, SplitsBlock DEF shown
<1>19. Holds(n, w \o back)
  <2>1. w \in Seq(Values) /\ Len(w) \in Nat /\ m.size = Len(w)  BY HoldsFacts
  <2>2. Len(w \o back) = Len(w) + Len(back)  BY <2>1, Concatenation
  <2>3. n.size = Len(w \o back)  BY <1>7, <1>15, <2>1, <2>2 DEF s
  <2> QED BY <1>17, <1>18, <2>3 DEF Holds
<1>20. Grows(m, n)
  <2>1. Len(n.buckets) = Len(m.buckets) + 1 /\ n.buckets[Len(m.buckets) + 1].refs = 0
    BY <1>6, <1>7, <1>15
  <2>2. \A i \in 1..Len(m.buckets) : n.buckets[i] = m.buckets[i]  BY <1>6, <1>7, <1>15
  <2> QED BY <1>1, <2>1, <2>2, AppendedGrows
<1> QED BY <1>19, <1>20

LEMMA Remainder ==
  ASSUME NEW N \in Nat, NEW q, q = N \div BlockSize
  PROVE  /\ q \in Nat /\ N % BlockSize \in 0..(BlockSize - 1)
         /\ N - q * BlockSize = N % BlockSize
PROOF
<1> DEFINE B == BlockSize
           r == N % B
<1>1. B \in Nat /\ B > 0  BY Constants
<1>2. q \in Nat /\ r \in Nat /\ r < B /\ N = B * q + r  BY <1>1, Division
<1> HIDE DEF r, B
<1>3. B * q = q * B /\ q * B \in Nat  BY <1>1, <1>2
<1> DEFINE x == q * B
<1>4. N = x + r /\ x \in Nat  BY <1>2, <1>3
<1> HIDE DEF x
<1>5. N - x = r /\ r \in 0..(B - 1)
  <2>1. r \in Nat /\ r < B /\ B \in Nat  BY <1>1, <1>2
  <2>2. r \in 0..(B - 1)  BY <2>1
  <2>3. N - x = r
    <3>1. \A i, j, k \in Nat : i = j + k => i - j = k  OBVIOUS
    <3> QED BY <1>2, <1>4, <3>1
  <2> QED BY <2>2, <2>3
<1> QED BY <1>2, <1>5 DEF x, r, B

LEMMA DeserializeHolds ==
  ASSUME NEW m, NEW w, Holds(m, w), Len(w) # 0, NEW values \in Seq(Values), ~Whole(values),
         NEW n, n = Deserialized(m, values)
  PROVE  Holds(n, values) /\ \A b \in 1..Len(n.buckets) : n.buckets[b].refs = 0
PROOF
<1> DEFINE N == Len(values)
           B == BlockSize
           q == N \div B
           x == q * B
           l == Loaded(m, values)
           front == SubSeq(values, 1, q * B)
           back == SubSeq(values, q * B + 1, N)
<1>1. N \in Nat /\ B \in Nat /\ B > 0  BY Constants
<1>2. Holds(Cleared(m), <<>>)  BY ClearedHolds
<1>3. /\ q \in Nat /\ x \in Nat /\ x <= N
      /\ Holds(l, front) /\ Grows(Cleared(m), l)
  BY <1>2, LoadsHold
<1>4. N - x \in 1..(B - 1)
  <2>1. N % B \in 0..(B - 1) /\ N - q * B = N % B
    <3> HIDE DEF N
    <3> QED BY <1>1, Remainder
  <2>2. N % B # 0  BY DEF Whole
  <2> DEFINE r == N % B
  <2>3. r \in 0..(B - 1) /\ r # 0 /\ N - x = r  BY <2>1, <2>2
  <2> HIDE DEF r, x
  <2> QED BY <1>1, <2>3
<1>5. n = Backed(l, back)
  <2>1. back # <<>> => n = Backed(l, back)
    <3>1. l = FoldLeft(LAMBDA acc, b : AppendCompressed(acc, SubSeq(values, (b - 1) * BlockSize + 1, b * BlockSize)),
                       Cleared(m), [b \in 1..(Len(values) \div BlockSize) |-> b])
      BY DEF Loaded
    <3> QED BY <3>1 DEF Deserialized, Backed, WithData
  <2>2. back # <<>>
    <3> HIDE DEF x
    <3>1. x + 1 \in 1..(Len(values) + 1) /\ N \in ((x + 1) - 1)..Len(values)  BY <1>1, <1>3
    <3>2. SubSeq(values, x + 1, N) \in Seq(Values) /\ Len(SubSeq(values, x + 1, N)) = N - (x + 1) + 1
      BY <3>1, Part
    <3>3. N - (x + 1) + 1 # 0  BY <1>1, <1>3, <1>4
    <3>4. SubSeq(values, x + 1, N) # <<>>  BY <3>2, <3>3, EmptySequence
    <3> QED BY <3>4 DEF x
  <2> QED BY <2>1, <2>2
<1>5a. back = SubSeq(values, x + 1, N) /\ front = SubSeq(values, 1, x)  OBVIOUS
<1>5b. x % B = 0  BY <1>3, Multiple
<1> HIDE DEF l, back, front, x
<1>6. back \in Seq(Values) /\ Len(back) = N - x /\ \A i \in 1..(N - x) : back[i] = values[x + i]
  <2>1. x + 1 \in 1..(Len(values) + 1) /\ N \in ((x + 1) - 1)..Len(values)  BY <1>1, <1>3
  <2>2. /\ SubSeq(values, x + 1, N) \in Seq(Values)
        /\ Len(SubSeq(values, x + 1, N)) = N - (x + 1) + 1
        /\ \A i \in 1..(N - (x + 1) + 1) : SubSeq(values, x + 1, N)[i] = values[(x + 1) + i - 1]
    BY <2>1, Part
  <2>3. N - (x + 1) + 1 = N - x /\ \A i \in 1..(N - x) : (x + 1) + i - 1 = x + i  BY <1>1, <1>3
  <2> QED BY <1>5a, <2>2, <2>3
<1>7. front \in Seq(Values) /\ Len(front) = x /\ \A i \in 1..x : front[i] = values[i]
  <2>1. 1 \in 1..(Len(values) + 1) /\ x \in (1 - 1)..Len(values)  BY <1>1, <1>3
  <2>2. /\ SubSeq(values, 1, x) \in Seq(Values) /\ Len(SubSeq(values, 1, x)) = x - 1 + 1
        /\ \A i \in 1..(x - 1 + 1) : SubSeq(values, 1, x)[i] = values[1 + i - 1]
    BY <2>1, Part
  <2>3. x - 1 + 1 = x /\ \A i \in 1..x : 1 + i - 1 = i  BY <1>3
  <2> QED BY <1>5a, <2>2, <2>3
<1>8. Whole(front)  BY <1>5b, <1>7 DEF Whole
<1>9. Len(back) \in 1..BlockSize  BY <1>1, <1>3, <1>4, <1>6
<1>10. Holds(n, front \o back) /\ Grows(l, n)  BY <1>3, <1>5, <1>6, <1>8, <1>9, BackedHolds
<1>11. front \o back = values
  <2> DEFINE V == Values
             c == front \o back
             t == values
  <2>1. front \in Seq(V) /\ back \in Seq(V) /\ t \in Seq(V)  BY <1>6, <1>7
  <2>1a. N = Len(t)  OBVIOUS
  <2> HIDE DEF V, N
  <2>2. c \in Seq(V) /\ Len(c) = Len(front) + Len(back)
        /\ \A i \in 1..(Len(front) + Len(back)) :
             c[i] = IF i <= Len(front) THEN front[i] ELSE back[i - Len(front)]
    BY <2>1, Concatenation
  <2> HIDE DEF c
  <2>3. Len(c) = N /\ \A i \in 1..N : c[i] = IF i <= x THEN front[i] ELSE back[i - x]
    <3>1. Len(front) + Len(back) = N  BY <1>1, <1>3, <1>6, <1>7
    <3> QED BY <1>7, <2>2, <3>1
  <2>4. ASSUME NEW i \in 1..N PROVE c[i] = t[i]
    <3>1. CASE i <= x
      <4>1. i \in 1..x  BY <1>1, <1>3, <3>1
      <4> QED BY <1>7, <2>3, <3>1, <4>1
    <3>2. CASE ~(i <= x)
      <4> DEFINE j == i - x
      <4>1. j \in 1..(N - x) /\ x + j = i  BY <1>1, <1>3, <3>2
      <4>2. c[i] = back[j]  BY <2>3, <3>2
      <4> HIDE DEF j
      <4> QED BY <1>6, <4>1, <4>2
    <3> QED BY <3>1, <3>2
  <2>5. c = t  BY <2>1, <2>1a, <2>2, <2>3, <2>4, SameValues
  <2> QED BY <2>5 DEF c
<1>12. ASSUME NEW b \in 1..Len(n.buckets) PROVE n.buckets[b].refs = 0
  <2> DEFINE m0 == Cleared(m)
  <2>1. Len(m0.buckets) = 0
    <3>1. m.size # 0  BY HoldsFacts
    <3> QED BY <3>1 DEF Cleared
  <2> HIDE DEF m0
  <2>2. Grows(m0, n)
    <3>1. Grows(m0, l)  BY <1>3 DEF m0
    <3>2. Len(l.buckets) \in Nat /\ Len(n.buckets) \in Nat  BY <1>3, <1>10, HoldsFacts
    <3> QED BY <1>10, <2>1, <3>1, <3>2, GrowsTwice
  <2>3. ~(b <= 0)  OBVIOUS
  <2> QED BY <2>1, <2>2, <2>3 DEF Grows, Moves
<1> QED BY <1>10, <1>11, <1>12

\* The frame has the values of the vector, if its last block is partial.
LEMMA SerializedIs ==
  ASSUME NEW m, NEW w, Holds(m, w), ~Whole(w)
  PROVE  Serialized(m) \in Seq(Values) /\ Len(Serialized(m)) = Len(w)
         /\ (NeverThrows => Serialized(m) = w)
PROOF
<1> DEFINE n == CompressAllButBack(m)
           L == Len(n.buckets)
           N == Len(w)
           B == BlockSize
           Block(b) == IF b < L THEN FindCompressed(n, b) ELSE BackBlock(n)
           blocks == [b \in 1..L |-> Block(b)]
<1>1. PICK view : Represents(m, view) /\ Splits(view, w)  BY DEF Holds
<1>2. Serialized(m) = FlattenSeq(blocks)  BY DEF Serialized
<1>3. N \in Nat /\ N > 0 /\ B \in Nat /\ B > 0
  <2>1. N \in Nat /\ B \in Nat /\ B > 0  BY HoldsFacts, Constants
  <2>2. 0 * B = 0 /\ 0 % B = 0  BY <2>1, Multiple
  <2>3. N % B # 0  BY DEF Whole
  <2> HIDE DEF N
  <2>4. N # 0  BY <2>2, <2>3
  <2> QED BY <2>1, <2>4
<1>4. \A b \in 1..(Len(view) - 1) : Len(view[b]) = B
  <2>1. Len(view) \in Nat  BY <1>1, MemoryFacts
  <2>2. \A b \in 1..(Len(view) - 1) : b \in 1..Len(view) /\ b < Len(view)  BY <2>1
  <2> QED BY <1>1, <2>2 DEF Splits
<1>5. Represents(n, view) /\ Saves(m, n) /\ \A b \in 1..(Len(view) - 1) : IsCompressed(n, b)
  BY <1>1, <1>4, CompressAllShows
<1> HIDE DEF n
<1>6. Len(view) = L /\ L \in Nat /\ view \in Seq(Seq(Values)) /\ DOMAIN n.contexts \subseteq Nat \ {0}
  BY <1>5, MemoryFacts
<1>7. L >= 1 /\ Len(view[L]) = PosOf(N) /\ PosOf(N) \in 1..B /\ BucketOf(N) = L
  <2>1. N # 0  BY <1>3
  <2>2. L >= 1 /\ BucketOf(N) = L /\ PosOf(N) \in 1..B  BY <1>1, <1>6, <2>1, SplitsFacts
  <2>3. L \in 1..L /\ ~(L < L)  BY <1>6, <2>2
  <2> QED BY <1>1, <1>6, <2>2, <2>3 DEF Splits
<1>8. PosOf(N) # B
  <2> HIDE DEF N, L
  <2>1. N = (L - 1) * B + PosOf(N)  BY <1>3, <1>7, Position
  <2>2. ASSUME PosOf(N) = B PROVE FALSE
    <3>1. (L - 1) * B + B = L * B  BY <1>6, <1>7, Rows
    <3>2. N = L * B  BY <2>1, <2>2, <3>1
    <3>3. N % B = 0  BY <1>6, <3>2, Multiple
    <3> QED BY <3>3 DEF Whole, N
  <2> QED BY <2>2
<1> HIDE DEF Block
<1>9. ASSUME NEW b \in 1..L PROVE Block(b) \in Seq(Values) /\ Shows(Block(b), view[b])
  <2>1. CASE b < L
    <3>1. b \in 1..(Len(view) - 1) /\ b \in 1..Len(view)  BY <1>6, <2>1
    <3>2. FindCompressed(n, b) \in Full /\ Shows(FindCompressed(n, b), view[b])
      BY <1>5, <3>1, CompressedFacts
    <3>3. Block(b) = FindCompressed(n, b)  BY <2>1 DEF Block
    <3> QED BY <3>2, <3>3, FullBlocks
  <2>2. CASE ~(b < L)
    <3> DEFINE c == n.buckets[L].raw
               x == n.contexts[c]
    <3>1. b = L /\ L \in 1..Len(view)  BY <1>6, <2>2
    <3>2. n.buckets[L].raw # NoContext
      <4>1. ASSUME n.buckets[L].raw = NoContext PROVE FALSE
        <5>1. n.buckets[L].compressed \in Full /\ Shows(n.buckets[L].compressed, view[L])
          BY <1>5, <3>1, <4>1, BucketFacts
        <5>2. Len(n.buckets[L].compressed) = B  BY <5>1, FullBlocks
        <5> QED BY <1>7, <1>8, <5>1, <5>2 DEF Shows
      <4> QED BY <4>1
    <3>3. x \in Cell /\ Shows(x.data, view[L])  BY <1>5, <3>1, <3>2, BucketFacts
    <3>4. x.data \in Seq(Values) /\ Len(x.data) # B
      <4> HIDE DEF x
      <4>1. Len(x.data) # B  BY <1>7, <1>8, <3>3 DEF Shows
      <4> QED BY <3>3, <4>1 DEF Cell
    <3>5. Block(b) = x.data
      <4>1. BackBlock(n) = x.data
        BY <3>2, <3>4 DEF BackBlock, RawOf
      <4> QED BY <2>2, <4>1 DEF Block
    <3> HIDE DEF x
    <3> QED BY <3>1, <3>3, <3>4, <3>5
  <2> QED BY <2>1, <2>2
<1>10. blocks \in Seq(Seq(Values)) /\ Len(blocks) = L /\ \A b \in 1..L : blocks[b] = Block(b)
  <2> DEFINE V == Seq(Values)
  <2>1. \A b \in 1..L : Block(b) \in V  BY <1>9
  <2> HIDE DEF V, L
  <2>2. blocks \in Seq(V) /\ Len(blocks) = L /\ \A b \in 1..L : blocks[b] = Block(b)
    BY <1>6, <2>1
  <2> QED BY <2>2 DEF V
<1> HIDE DEF blocks, L
<1>11. \A b \in 1..Len(view) : Len(blocks[b]) = Len(view[b])  BY <1>6, <1>9, <1>10 DEF Shows
<1>12. PICK u : u \in Seq(Values) /\ Len(u) = Len(w) /\ Splits(blocks, u)
  BY <1>1, <1>6, <1>10, <1>11, JoinExists
<1>13. Serialized(m) = u  BY <1>2, <1>12, FlattenSplits
<1>14. ASSUME NeverThrows PROVE Serialized(m) = w
  <2> DEFINE V == Seq(Values)
  <2>1. \A b \in 1..L : blocks[b] = view[b]  BY <1>9, <1>10, <1>14 DEF Shows
  <2>2. blocks \in Seq(V) /\ view \in Seq(V)  BY <1>6, <1>10
  <2> HIDE DEF V
  <2>3. blocks = view  BY <1>6, <1>10, <2>1, <2>2, SameValues
  <2> QED BY <1>1, <1>2, <2>3, FlattenSplits
<1> QED BY <1>12, <1>13, <1>14

LEMMA ReloadHolds ==
  ASSUME NEW m, NEW w, Holds(m, w), ~Whole(w),
         NEW n, n = Deserialized(CompressAllButBack(m), Serialized(m))
  PROVE  Holds(n, w) /\ \A b \in 1..Len(n.buckets) : n.buckets[b].refs = 0
PROOF
<1> DEFINE u == Serialized(m)
           l == CompressAllButBack(m)
<1>1. u \in Seq(Values) /\ Len(u) = Len(w) /\ (NeverThrows => u = w)  BY SerializedIs
<1>2. Holds(l, w)  BY SerializeHolds
<1>3. ~Whole(u)  BY <1>1 DEF Whole
<1>4. n = Deserialized(l, u)  OBVIOUS
<1> HIDE DEF u, l
<1>5. w \in Seq(Values) /\ Len(w) \in Nat  BY HoldsFacts
<1>6. Len(w) # 0
  <2>1. BlockSize \in Nat  BY Constants
  <2>2. 0 * BlockSize = 0 /\ 0 \in Nat  BY <2>1
  <2>3. 0 % BlockSize = 0  BY <2>2, Multiple
  <2> QED BY <2>3 DEF Whole
<1>7. Holds(n, u) /\ \A b \in 1..Len(n.buckets) : n.buckets[b].refs = 0
  BY <1>1, <1>2, <1>3, <1>4, <1>6, DeserializeHolds
<1>8. Holds(n, w)
  <2>1. CASE NeverThrows  BY <1>1, <1>7, <2>1
  <2>2. CASE ~NeverThrows  BY <1>1, <1>5, <1>7, <2>2, HoldsOther
  <2> QED BY <2>1, <2>2
<1> QED BY <1>7, <1>8
-----------------------------------------------------------------------------
(* shrink_to_fit *)

\* Who refers to what does not change.
SameRefs(m, n) ==
  /\ Len(n.buckets) = Len(m.buckets) /\ n.size = m.size
  /\ \A b \in 1..Len(m.buckets) : n.buckets[b].refs = m.buckets[b].refs

IsPartial(m, c) == Len(m.contexts[c].data) \in 1..(BlockSize - 1)

\* The blocks are whole but the last one.
AllWhole(view) == \A b \in 1..Len(view) : b < Len(view) => Len(view[b]) = BlockSize

\* One context is partial at most, that of the back bucket.
LEMMA OnePartial ==
  ASSUME NEW m, NEW view, Represents(m, view), AllWhole(view),
         NEW c \in DOMAIN m.contexts, NEW d \in DOMAIN m.contexts, IsPartial(m, c), IsPartial(m, d)
  PROVE  c = d
PROOF
<1>1. ASSUME NEW x \in DOMAIN m.contexts, IsPartial(m, x)
      PROVE  Len(view) \in 1..Len(view) /\ x = m.buckets[Len(view)].raw
  <2> DEFINE b == m.contexts[x].block_index
  <2>1. Len(m.contexts[x].data) \in 1..(BlockSize - 1) /\ BlockSize \in Nat  BY <1>1, Constants DEF IsPartial
  <2>2. b # 0
    <3>1. ASSUME b = 0 PROVE FALSE
      <4>1. m.contexts[x] = EmptyContext  BY <3>1, EmptyFacts
      <4>2. Len(m.contexts[x].data) = 0  BY <4>1 DEF EmptyContext
      <4> QED BY <2>1, <4>2
    <3> QED BY <3>1
  <2>3. b = m.contexts[x].block_index  OBVIOUS
  <2> HIDE DEF b
  <2>4. b \in 1..Len(view) /\ m.buckets[b].raw = x /\ Shows(m.contexts[x].data, view[b])
    BY <2>2, <2>3, ContextFacts
  <2>5. Len(view[b]) # BlockSize  BY <2>1, <2>4 DEF Shows
  <2>6. Len(view) \in Nat  BY MemoryFacts
  <2>7. b = Len(view)  BY <2>4, <2>5, <2>6 DEF AllWhole
  <2> QED BY <2>4, <2>7
<1> QED BY <1>1

\* The contexts o[1..k] were seen: those that are kept, and those not seen, are left.
Left(m, view, o, k, a, s) ==
  /\ Represents(a, view) /\ SameRefs(m, a)
  /\ s \in Seq(Nat \ {0})
  /\ \A p \in 1..Len(s) : s[p] \in DOMAIN a.contexts /\ \E i \in 1..k : o[i] = s[p]
  /\ \A p, q \in 1..Len(s) : s[p] = s[q] => p = q
  /\ \A c \in DOMAIN a.contexts :
       (\E p \in 1..Len(s) : s[p] = c) \/ (\E i \in (k + 1)..Len(o) : o[i] = c)
  /\ \A i \in (k + 1)..Len(o) : o[i] \in DOMAIN a.contexts
  /\ \A p \in 1..Len(s) : IsPartial(a, s[p]) \/ (p = 1 /\ a.contexts[s[p]] = EmptyContext)

Shrinking(m, view, o, k, acc) ==
  acc = [m |-> acc.m, kept |-> acc.kept] /\ Left(m, view, o, k, acc.m, acc.kept)

ShrinkStep(m, view, o, k, acc, n) ==
  /\ Solid(view) /\ Len(o) \in Nat /\ k \in 0..(Len(o) - 1)
  /\ \A i, j \in 1..Len(o) : o[i] = o[j] => i = j
  /\ o[k + 1] # 0 /\ o[k + 1] \in Nat
  /\ Shrinking(m, view, o, k, acc)
  /\ n = ShrinkContext(acc, o[k + 1])

LEMMA ShrinkOne ==
  ASSUME NEW m, NEW view, NEW o, NEW k, NEW acc, NEW n, ShrinkStep(m, view, o, k, acc, n)
  PROVE  Shrinking(m, view, o, k + 1, n)
PROOF
<1> DEFINE c == o[k + 1]
           a == acc.m
           s == acc.kept
           r == Release(CompressIfDirty(a, c), c)
           N == Len(o)
<1>1. /\ Solid(view) /\ N \in Nat /\ k \in 0..(N - 1) /\ c \in Nat \ {0}
      /\ \A i, j \in 1..N : o[i] = o[j] => i = j
      /\ n = ShrinkContext(acc, c)
  BY DEF ShrinkStep
<1>2. /\ acc = [m |-> a, kept |-> s]
      /\ Represents(a, view) /\ SameRefs(m, a)
      /\ s \in Seq(Nat \ {0})
      /\ \A p \in 1..Len(s) : s[p] \in DOMAIN a.contexts /\ \E i \in 1..k : o[i] = s[p]
      /\ \A p, q \in 1..Len(s) : s[p] = s[q] => p = q
      /\ \A d \in DOMAIN a.contexts :
           (\E p \in 1..Len(s) : s[p] = d) \/ (\E i \in (k + 1)..N : o[i] = d)
      /\ \A i \in (k + 1)..N : o[i] \in DOMAIN a.contexts
      /\ \A p \in 1..Len(s) : IsPartial(a, s[p]) \/ (p = 1 /\ a.contexts[s[p]] = EmptyContext)
  <2>1. acc = [m |-> a, kept |-> s] /\ Left(m, view, o, k, a, s)  BY DEF ShrinkStep, Shrinking
  <2> HIDE DEF a, s
  <2> QED BY <2>1 DEF Left
<1>3. /\ k + 1 \in (k + 1)..N /\ k + 1 \in 1..N
      /\ \A i \in 1..k : i \in 1..(k + 1) /\ i \in 1..N /\ i # k + 1
      /\ \A i \in ((k + 1) + 1)..N : i \in (k + 1)..N /\ i \in 1..N /\ i # k + 1
      /\ \A i \in (k + 1)..N : i = k + 1 \/ i \in ((k + 1) + 1)..N
      /\ k + 1 \in 1..(k + 1)
  BY <1>1
<1>4. c \in DOMAIN a.contexts  BY <1>2, <1>3
<1>5. \A p \in 1..Len(s) : s[p] # c
  <2>1. \A i \in 1..k : o[i] # c  BY <1>1, <1>3
  <2> QED BY <1>2, <2>1
<1>6. \A i \in ((k + 1) + 1)..N : o[i] # c  BY <1>1, <1>3
<1>7. n = IF IsPartial(a, c) THEN [acc EXCEPT !.kept = Append(acc.kept, c)]
          ELSE IF s = <<>> THEN [m |-> r, kept |-> <<c>>]
          ELSE [acc EXCEPT !.m = EraseContext(r, c)]
  BY <1>1 DEF ShrinkContext, IsPartial
<1>8. \A d \in DOMAIN a.contexts :
        (\E p \in 1..Len(s) : s[p] = d) \/ d = c \/ (\E i \in ((k + 1) + 1)..N : o[i] = d)
  BY <1>2, <1>3
<1>9. Len(s) \in Nat  BY <1>2
<1>0. N = Len(o)  OBVIOUS
<1> HIDE DEF a, s, c, N
<1>10. CASE IsPartial(a, c)
  <2> DEFINE t == Append(s, c)
  <2>1. n = [m |-> a, kept |-> t]
    <3>1. n = [acc EXCEPT !.kept = t]  BY <1>7, <1>10 DEF s
    <3> HIDE DEF t
    <3> QED BY <1>2, <3>1
  <2>2. t \in Seq(Nat \ {0}) /\ Len(t) = Len(s) + 1 /\ t[Len(s) + 1] = c
        /\ \A p \in 1..Len(s) : t[p] = s[p]
    BY <1>1, <1>2
  <2> HIDE DEF t
  <2>3. n = [m |-> n.m, kept |-> n.kept] /\ n.m = a /\ n.kept = t  BY <2>1
  <2>4. /\ \A p \in 1..Len(t) : p \in 1..Len(s) \/ p = Len(s) + 1
        /\ \A p \in 1..Len(s) : p \in 1..Len(t)
        /\ Len(s) + 1 \in 1..Len(t)
    BY <1>9, <2>2
  <2>5. \A p \in 1..Len(t) : t[p] \in DOMAIN a.contexts /\ \E i \in 1..(k + 1) : o[i] = t[p]
    <3>1. \E i \in 1..(k + 1) : o[i] = c  BY <1>3 DEF c
    <3>2. \A p \in 1..Len(s) : s[p] \in DOMAIN a.contexts /\ \E i \in 1..(k + 1) : o[i] = s[p]
      BY <1>2, <1>3
    <3> QED BY <1>4, <2>2, <2>4, <3>1, <3>2
  <2>6. ASSUME NEW p \in 1..Len(t), NEW q \in 1..Len(t), t[p] = t[q] PROVE p = q
    <3>1. CASE p \in 1..Len(s) /\ q \in 1..Len(s)  BY <1>2, <2>2, <2>6, <3>1
    <3>2. CASE p \in 1..Len(s) /\ q = Len(s) + 1  BY <1>5, <2>2, <2>6, <3>2
    <3>3. CASE p = Len(s) + 1 /\ q \in 1..Len(s)  BY <1>5, <2>2, <2>6, <3>3
    <3> QED BY <2>4, <3>1, <3>2, <3>3
  <2>7. \A d \in DOMAIN a.contexts :
          (\E p \in 1..Len(t) : t[p] = d) \/ (\E i \in ((k + 1) + 1)..N : o[i] = d)
    BY <1>8, <2>2, <2>4
  <2>8. \A i \in ((k + 1) + 1)..N : o[i] \in DOMAIN a.contexts  BY <1>2, <1>3
  <2>9. \A p \in 1..Len(t) : IsPartial(a, t[p]) \/ (p = 1 /\ a.contexts[t[p]] = EmptyContext)
    BY <1>2, <1>10, <2>2, <2>4
  <2>10. Left(m, view, o, k + 1, a, t)
    BY <1>0, <1>2, <2>2, <2>5, <2>6, <2>7, <2>8, <2>9 DEF Left
  <2> QED BY <2>3, <2>10 DEF Shrinking
<1>11. CASE ~IsPartial(a, c)
  <2>1. Represents(r, view) /\ Released(a, r, c)
    <3>1. a.contexts[c].dirty => Len(a.contexts[c].data) = BlockSize
      <4>1. Len(a.contexts[c].data) \in 0..BlockSize
        <5> DEFINE b == a.contexts[c].block_index
        <5>1. CASE b = 0
          <6>1. a.contexts[c] = EmptyContext  BY <1>2, <1>4, <5>1, EmptyFacts
          <6>2. Len(a.contexts[c].data) = 0  BY <6>1 DEF EmptyContext
          <6> QED BY <6>2, Constants
        <5>2. CASE b # 0
          <6>1. b = a.contexts[c].block_index  OBVIOUS
          <6> HIDE DEF b
          <6>2. b \in 1..Len(view) /\ Shows(a.contexts[c].data, view[b])
            BY <1>2, <1>4, <5>2, <6>1, ContextFacts
          <6>3. Len(view[b]) \in 0..BlockSize  BY <1>2, <6>2, MemoryFacts
          <6> QED BY <6>2, <6>3 DEF Shows
        <5> QED BY <5>1, <5>2
      <4>2. Len(a.contexts[c].data) \in {0, BlockSize}
        <5>1. BlockSize \in Nat /\ Len(a.contexts[c].data) \notin 1..(BlockSize - 1)
          BY <1>11, Constants DEF IsPartial
        <5> QED BY <4>1, <5>1
      <4> QED BY <1>1, <1>2, <1>4, <4>2, DirtyIsWhole
    <3> QED BY <1>2, <1>4, <3>1, SaveAndRelease
  <2> HIDE DEF r
  <2>2. /\ DOMAIN r.contexts = DOMAIN a.contexts /\ r.contexts[c] = EmptyContext
        /\ \A d \in DOMAIN a.contexts : d # c => r.contexts[d] = a.contexts[d]
    BY <2>1 DEF Released
  <2>3. SameRefs(m, r)
    <3>1. Len(r.buckets) = Len(a.buckets) /\ r.size = a.size
          /\ \A b \in 1..Len(a.buckets) : r.buckets[b].refs = a.buckets[b].refs
      BY <2>1 DEF Released
    <3> QED BY <1>2, <3>1 DEF SameRefs
  <2>4. CASE s = <<>>
    <3> DEFINE t == <<c>>
    <3>1. n = [m |-> r, kept |-> t]  BY <1>7, <1>11, <2>4
    <3>2. t \in Seq(Nat \ {0}) /\ Len(t) = 1 /\ t[1] = c  BY <1>1
    <3> HIDE DEF t
    <3>3. n = [m |-> n.m, kept |-> n.kept] /\ n.m = r /\ n.kept = t  BY <3>1
    <3>4. \A p \in 1..Len(t) : p = 1  BY <3>2
    <3>5. \A p \in 1..Len(t) : t[p] \in DOMAIN r.contexts /\ \E i \in 1..(k + 1) : o[i] = t[p]
      <4>1. \E i \in 1..(k + 1) : o[i] = c  BY <1>3 DEF c
      <4> QED BY <1>4, <2>2, <3>2, <3>4, <4>1
    <3>6. \A p, q \in 1..Len(t) : t[p] = t[q] => p = q  BY <3>4
    <3>7. \A d \in DOMAIN r.contexts :
            (\E p \in 1..Len(t) : t[p] = d) \/ (\E i \in ((k + 1) + 1)..N : o[i] = d)
      <4>1. \A p \in 1..Len(s) : FALSE  BY <2>4
      <4>2. 1 \in 1..Len(t)  BY <3>2
      <4> QED BY <1>8, <2>2, <3>2, <4>1, <4>2
    <3>8. \A i \in ((k + 1) + 1)..N : o[i] \in DOMAIN r.contexts  BY <1>2, <1>3, <2>2
    <3>9. \A p \in 1..Len(t) : IsPartial(r, t[p]) \/ (p = 1 /\ r.contexts[t[p]] = EmptyContext)
      BY <2>2, <3>2, <3>4
    <3>10. Left(m, view, o, k + 1, r, t)
      BY <1>0, <2>1, <2>3, <3>2, <3>5, <3>6, <3>7, <3>8, <3>9 DEF Left
    <3> QED BY <3>3, <3>10 DEF Shrinking
  <2>5. CASE s # <<>>
    <3> DEFINE e == EraseContext(r, c)
    <3>0. e = EraseContext(r, c)  OBVIOUS
    <3>1. n = [m |-> e, kept |-> s]
      <4>1. n = [acc EXCEPT !.m = e]  BY <1>7, <1>11, <2>5
      <4> HIDE DEF e
      <4> QED BY <1>2, <4>1
    <3>2. /\ Represents(e, view) /\ e.buckets = r.buckets /\ e.size = r.size
          /\ DOMAIN e.contexts = DOMAIN r.contexts \ {c}
          /\ \A d \in DOMAIN e.contexts : e.contexts[d] = r.contexts[d]
      <4>1. c \in DOMAIN r.contexts /\ r.contexts[c].block_index = 0  BY <1>4, <2>2, EmptyIsCell
      <4> HIDE DEF e
      <4> QED BY <2>1, <3>0, <4>1, EraseShows
    <3> HIDE DEF e
    <3>3. n = [m |-> n.m, kept |-> n.kept] /\ n.m = e /\ n.kept = s  BY <3>1
    <3>4. SameRefs(m, e)  BY <2>3, <3>2 DEF SameRefs
    <3>5. \A d \in DOMAIN a.contexts : d # c => d \in DOMAIN e.contexts /\ e.contexts[d] = a.contexts[d]
      BY <2>2, <3>2
    <3>6. \A p \in 1..Len(s) : s[p] \in DOMAIN e.contexts /\ \E i \in 1..(k + 1) : o[i] = s[p]
      BY <1>2, <1>3, <1>5, <3>5
    <3>7. \A d \in DOMAIN e.contexts :
            (\E p \in 1..Len(s) : s[p] = d) \/ (\E i \in ((k + 1) + 1)..N : o[i] = d)
      <4>1. \A d \in DOMAIN e.contexts : d \in DOMAIN a.contexts /\ d # c  BY <2>2, <3>2
      <4> QED BY <1>8, <4>1
    <3>8. \A i \in ((k + 1) + 1)..N : o[i] \in DOMAIN e.contexts  BY <1>2, <1>3, <1>6, <3>5
    <3>9. \A p \in 1..Len(s) : IsPartial(e, s[p]) \/ (p = 1 /\ e.contexts[s[p]] = EmptyContext)
      BY <1>2, <1>5, <3>5 DEF IsPartial
    <3>10. Left(m, view, o, k + 1, e, s)
      BY <1>0, <1>2, <3>2, <3>4, <3>6, <3>7, <3>8, <3>9 DEF Left
    <3> QED BY <3>3, <3>10 DEF Shrinking
  <2> QED BY <2>4, <2>5
<1> QED BY <1>10, <1>11

LEMMA ShrinkLoopShows ==
  ASSUME NEW m, NEW view, Represents(m, view), Solid(view), NEW e, e = ShrinkLoop(m)
  PROVE  Shrinking(m, view, m.order, Len(m.order), e)
PROOF
<1> DEFINE o == m.order
           q == Len(o)
<1>1. /\ o \in Seq(Nat \ {0}) /\ \A p \in 1..q : o[p] \in DOMAIN m.contexts
      /\ \A c \in DOMAIN m.contexts : \E p \in 1..q : o[p] = c
      /\ \A i, j \in 1..q : o[i] = o[j] => i = j
  BY MemoryFacts DEF Listed, IsListOf
<1>2. q \in Nat /\ DOMAIN o = 1..q /\ \A p \in 1..q : o[p] \in Nat \ {0}  BY <1>1
<1>3. PICK h : /\ h[0] = [m |-> m, kept |-> <<>>] /\ \A k \in 1..q : h[k] = ShrinkContext(h[k - 1], o[k])
               /\ ShrinkLoop(m) = h[q]
  BY <1>2, ShrinkChain
<1>3a. q = Len(o) /\ o = m.order  OBVIOUS
<1> HIDE DEF o, q
<1> DEFINE S == {k \in 0..q : Shrinking(m, view, o, k, h[k])}
<1>4. 0 \in S
  <2> DEFINE t == <<>>
             a == h[0]
  <2>1. a = [m |-> m, kept |-> t]  BY <1>3
  <2>2. t \in Seq(Nat \ {0}) /\ Len(t) = 0  OBVIOUS
  <2> HIDE DEF t, a
  <2>3. a = [m |-> a.m, kept |-> a.kept] /\ a.m = m /\ a.kept = t  BY <2>1
  <2>4. \A p \in 1..Len(t) : FALSE  BY <2>2
  <2>5. SameRefs(m, m)  BY DEF SameRefs
  <2>6. (0 + 1)..q = 1..q  OBVIOUS
  <2>7. Left(m, view, o, 0, m, t)  BY <1>1, <1>3a, <2>2, <2>4, <2>5, <2>6 DEF Left
  <2>8. Shrinking(m, view, o, 0, a)  BY <2>3, <2>7 DEF Shrinking
  <2> QED BY <1>2, <2>8 DEF a
<1>5. ASSUME NEW k \in 0..(q - 1), k \in S PROVE k + 1 \in S
  <2> DEFINE a == h[k]
             b == h[k + 1]
  <2>1. k + 1 \in 1..q /\ (k + 1) - 1 = k /\ k + 1 \in 0..q  BY <1>2
  <2>2. Shrinking(m, view, o, k, a)  BY <1>5
  <2>3. b = ShrinkContext(a, o[k + 1])  BY <1>3, <2>1
  <2> HIDE DEF a, b
  <2>4. o[k + 1] # 0 /\ o[k + 1] \in Nat  BY <1>2, <2>1
  <2>5. ShrinkStep(m, view, o, k, a, b)
    BY <1>1, <1>2, <1>3a, <2>2, <2>3, <2>4 DEF ShrinkStep
  <2>6. Shrinking(m, view, o, k + 1, b)  BY <2>5, ShrinkOne
  <2> QED BY <2>1, <2>6 DEF b
<1> HIDE DEF S
<1>6. \A k \in 0..q : k \in S  BY <1>2, <1>4, <1>5, Induction
<1>7. q \in S  BY <1>2, <1>6
<1>8. Shrinking(m, view, o, q, h[q])  BY <1>7 DEF S
<1> QED BY <1>3, <1>3a, <1>8

LEMMA OrderIs ==
  ASSUME NEW m, IsRecord(m), NEW o
  PROVE  [m EXCEPT !.order = o] =
           [buckets |-> m.buckets, contexts |-> m.contexts, order |-> o, size |-> m.size, live |-> m.live]
PROOF
<1> QED BY DEF IsRecord

\* The list of contexts that are left is s.
KeptAs(m, view, s, n) ==
  /\ Represents(n, view) /\ SameRefs(m, n) /\ n.order = s /\ Len(s) \in Nat
  /\ Len(s) <= 2
  /\ Len(s) # 0 => s[1] \in DOMAIN n.contexts
  /\ Len(s) = 2 => n.contexts[s[1]] = EmptyContext
  /\ \A p \in 1..Len(s) :
       n.contexts[s[p]].data = <<>> => s[p] \in DOMAIN n.contexts /\ n.contexts[s[p]].block_index = 0

\* The contexts that are left are those that are kept: at most an empty one and a partial one.
LEMMA KeptShows ==
  ASSUME NEW m, NEW view, AllWhole(view), NEW o, NEW q \in Nat, q = Len(o),
         NEW e, Shrinking(m, view, o, q, e), NEW n, n = [e.m EXCEPT !.order = e.kept]
  PROVE  KeptAs(m, view, e.kept, n)
PROOF
<1> DEFINE a == e.m
           s == e.kept
           K == Len(s)
<1>1. /\ Represents(a, view) /\ SameRefs(m, a)
      /\ s \in Seq(Nat \ {0})
      /\ \A p \in 1..K : s[p] \in DOMAIN a.contexts
      /\ \A p, i \in 1..K : s[p] = s[i] => p = i
      /\ \A d \in DOMAIN a.contexts : (\E p \in 1..K : s[p] = d) \/ (\E i \in (q + 1)..q : o[i] = d)
      /\ \A p \in 1..K : IsPartial(a, s[p]) \/ (p = 1 /\ a.contexts[s[p]] = EmptyContext)
  BY DEF Shrinking, Left
<1>2. \A d \in DOMAIN a.contexts : \E p \in 1..K : s[p] = d
  <2>1. \A i \in (q + 1)..q : FALSE  OBVIOUS
  <2> QED BY <1>1, <2>1
<1>3. K \in Nat  BY <1>1
<1>4. n = [a EXCEPT !.order = s]  OBVIOUS
<1>5. IsMemory(a) /\ IsRecord(a) /\ a.contexts \in [DOMAIN a.contexts -> Cell]
  BY <1>1, MemoryFacts DEF IsMemory
<1> HIDE DEF a, s, K
<1>6. n = [buckets |-> a.buckets, contexts |-> a.contexts, order |-> s, size |-> a.size, live |-> a.live]
  BY <1>4, <1>5, OrderIs
<1>7. /\ IsRecord(n) /\ n.buckets = a.buckets /\ n.contexts = a.contexts /\ n.order = s
      /\ n.size = a.size /\ n.live = a.live
  BY <1>6 DEF IsRecord
<1>8. Listed(n)
  <2>1. IsListOf(s, DOMAIN a.contexts)  BY <1>1, <1>2 DEF IsListOf, K
  <2> QED BY <1>7, <2>1 DEF Listed
<1>9. ListStep(a, view, n)  BY <1>1, <1>5, <1>7, <1>8 DEF ListStep
<1>10. Represents(n, view)  BY <1>9, ListChanges
<1>11. SameRefs(m, n)  BY <1>1, <1>7 DEF SameRefs
<1>12. K <= 2
  <2>0. \A p, i \in 1..K : s[p] = s[i] => p = i  BY <1>1
  <2>1. ASSUME K > 2 PROVE FALSE
    <3>1. 2 \in 1..K /\ 3 \in 1..K  BY <1>3, <2>1
    <3>2. IsPartial(a, s[2]) /\ IsPartial(a, s[3])  BY <1>1, <3>1
    <3>3. s[2] = s[3]  BY <1>1, <3>1, <3>2, OnePartial
    <3>4. 2 = 3  BY <2>0, <3>1, <3>3
    <3> QED BY <3>4
  <2> QED BY <1>3, <2>1
<1>13. K # 0 => s[1] \in DOMAIN n.contexts
  <2>1. K # 0 => 1 \in 1..K  BY <1>3
  <2> QED BY <1>1, <1>7, <2>1
<1>14. K = 2 => n.contexts[s[1]] = EmptyContext
  <2>1. ASSUME K = 2 PROVE a.contexts[s[1]] = EmptyContext
    <3>1. 1 \in 1..K /\ 2 \in 1..K  BY <2>1
    <3>2. IsPartial(a, s[2])  BY <1>1, <3>1
    <3>3. ASSUME IsPartial(a, s[1]) PROVE FALSE
      <4>1. s[1] = s[2]  BY <1>1, <3>1, <3>2, <3>3, OnePartial
      <4> QED BY <1>1, <3>1, <4>1
    <3> QED BY <1>1, <3>1, <3>3
  <2> QED BY <1>7, <2>1
<1>15. ASSUME NEW p \in 1..K, n.contexts[s[p]].data = <<>>
       PROVE  s[p] \in DOMAIN n.contexts /\ n.contexts[s[p]].block_index = 0
  <2>1. ~IsPartial(a, s[p])
    <3>1. Len(a.contexts[s[p]].data) = 0  BY <1>7, <1>15
    <3> QED BY <3>1 DEF IsPartial
  <2>2. a.contexts[s[p]] = EmptyContext  BY <1>1, <2>1
  <2> QED BY <1>1, <1>7, <2>2, EmptyIsCell
<1> QED BY <1>3, <1>7, <1>10, <1>11, <1>12, <1>13, <1>14, <1>15 DEF s, K, KeptAs

LEMMA ShrunkHolds ==
  ASSUME NEW m, NEW w, Holds(m, w), NEW k, k = Shrunk(m)
  PROVE  Holds(k, w) /\ SameRefs(m, k) /\ Len(k.order) <= 1
PROOF
<1> DEFINE e == ShrinkLoop(m)
           n == [e.m EXCEPT !.order = e.kept]
           s == e.kept
           c == CHOOSE c \in Range(s) : n.contexts[c].data = <<>>
<1>1. PICK view : Represents(m, view) /\ Splits(view, w)  BY DEF Holds
<1>2. Solid(view)  BY <1>1, SplitsFacts
<1>3. AllWhole(view)  BY <1>1 DEF Splits, AllWhole
<1>4. Shrinking(m, view, m.order, Len(m.order), e)  BY <1>1, <1>2, ShrinkLoopShows
<1>5. Len(m.order) \in Nat
  <2>1. m.order \in Seq(Nat \ {0})  BY <1>1, MemoryFacts DEF Listed, IsListOf
  <2> QED BY <2>1
<1>6. k = IF Len(s) <= 1 THEN n ELSE EraseContext(n, c)  BY DEF Shrunk, ShrinkLoop
<1>6a. n = [e.m EXCEPT !.order = s] /\ s = e.kept  OBVIOUS
<1>6b. s \in Seq(Nat \ {0})  BY <1>4 DEF Shrinking, Left
<1> HIDE DEF e, n, s
<1>7. /\ Represents(n, view) /\ SameRefs(m, n) /\ n.order = s /\ Len(s) \in Nat
      /\ Len(s) <= 2
      /\ Len(s) # 0 => s[1] \in DOMAIN n.contexts
      /\ Len(s) = 2 => n.contexts[s[1]] = EmptyContext
      /\ \A p \in 1..Len(s) :
           n.contexts[s[p]].data = <<>> => s[p] \in DOMAIN n.contexts /\ n.contexts[s[p]].block_index = 0
  <2> DEFINE o == m.order
             q == Len(o)
  <2>1. n = [e.m EXCEPT !.order = e.kept]  BY <1>6a
  <2>2. q \in Nat /\ q = Len(o) /\ Shrinking(m, view, o, q, e)  BY <1>4, <1>5
  <2> HIDE DEF o, q
  <2>3. KeptAs(m, view, e.kept, n)  BY <1>3, <2>1, <2>2, KeptShows
  <2>4. KeptAs(m, view, s, n)  BY <1>6a, <2>3
  <2> QED BY <2>4 DEF KeptAs
<1>8. ASSUME NEW x, Represents(x, view), SameRefs(m, x) PROVE Holds(x, w)
  <2>1. x.size = Len(w)  BY <1>8 DEF Holds, SameRefs
  <2> QED BY <1>1, <1>8, <2>1 DEF Holds
<1>9. CASE Len(s) <= 1
  <2>1. k = n  BY <1>6, <1>9
  <2> QED BY <1>7, <1>8, <1>9, <2>1
<1>10. CASE ~(Len(s) <= 1)
  <2>1. Len(s) = 2
    <3> DEFINE K == Len(s)
    <3>1. K \in Nat /\ K <= 2 /\ ~(K <= 1)
      <4>1. K \in Nat  BY <1>7
      <4>2. K <= 2  BY <1>7
      <4> QED BY <4>1, <4>2, <1>10
    <3> HIDE DEF K
    <3>2. K = 2  BY <3>1
    <3> QED BY <3>2 DEF K
  <2>2. \E x \in Range(s) : n.contexts[x].data = <<>>
    <3>1. s[1] \in Range(s)
      <4>1. 1 \in DOMAIN s  BY <1>6b, <2>1
      <4> QED BY <4>1 DEF Range
    <3>2. n.contexts[s[1]].data = <<>>  BY <1>7, <2>1 DEF EmptyContext
    <3> QED BY <3>1, <3>2
  <2>3. c \in Range(s) /\ n.contexts[c].data = <<>>  BY <2>2
  <2> HIDE DEF c
  <2>4. PICK p \in 1..Len(s) : c = s[p]
    <3>1. DOMAIN s = 1..Len(s)  BY <1>6b
    <3> QED BY <2>3, <3>1 DEF Range
  <2>5. c \in DOMAIN n.contexts /\ n.contexts[c].block_index = 0  BY <1>7, <2>3, <2>4
  <2>6. k = EraseContext(n, c)  BY <1>6, <1>10
  <2>7. Represents(k, view) /\ k.buckets = n.buckets /\ k.size = n.size /\ Len(k.order) = Len(n.order) - 1
    BY <1>7, <2>5, <2>6, EraseShows
  <2>8. SameRefs(m, k)  BY <1>7, <2>7 DEF SameRefs
  <2>9. Len(k.order) <= 1
    <3>1. n.order = s  BY <1>7
    <3>2. Len(n.order) = 2  BY <2>1, <3>1
    <3>3. Len(k.order) = Len(n.order) - 1  BY <2>7
    <3>4. Len(k.order) = 2 - 1  BY <3>2, <3>3
    <3> QED BY <3>4
  <2> QED BY <1>8, <2>7, <2>8, <2>9
<1> QED BY <1>9, <1>10
-----------------------------------------------------------------------------
(* Between two operations a pointer to a context is its place in the list *)

\* The memory that becomes that of the vector.
Placed(m) ==
  [buckets  |-> [b \in DOMAIN m.buckets |-> [m.buckets[b] EXCEPT !.raw = PlaceOf(m, @)]],
   contexts |-> [p \in DOMAIN m.order |-> m.contexts[m.order[p]]],
   order    |-> [p \in DOMAIN m.order |-> p], size |-> m.size, live |-> m.live]

LEMMA BecomeIs ==
  ASSUME NEW m, Become(m)
  PROVE  Memory' = Placed(m)
PROOF
<1>1. DOMAIN d_contexts' = DOMAIN m.order  BY DEF Become
<1> QED BY <1>1 DEF Become, Memory, Placed

\* A bucket and its place.
Moved(m, n, b) ==
  /\ n.buckets[b] \in Bucket
  /\ n.buckets[b].compressed = m.buckets[b].compressed /\ n.buckets[b].refs = m.buckets[b].refs
  /\ m.buckets[b].raw = NoContext => n.buckets[b].raw = NoContext
  /\ m.buckets[b].raw # NoContext =>
       n.buckets[b].raw \in 1..Len(m.order) /\ m.order[n.buckets[b].raw] = m.buckets[b].raw

LEMMA PlacedFacts ==
  ASSUME NEW m, NEW view, Represents(m, view), NEW n, n = Placed(m)
  PROVE  /\ IsRecord(n) /\ n.size = m.size /\ n.live = m.live
         /\ DOMAIN n.buckets = 1..Len(view) /\ n.buckets \in Seq(Bucket) /\ Len(n.buckets) = Len(view)
         /\ Len(m.order) \in Nat /\ DOMAIN m.order = 1..Len(m.order)
         /\ n.order \in Seq(Nat \ {0}) /\ Len(n.order) = Len(m.order)
         /\ DOMAIN n.contexts = 1..Len(m.order)
         /\ \A p \in 1..Len(m.order) :
              /\ n.order[p] = p /\ n.contexts[p] = m.contexts[m.order[p]]
              /\ n.contexts[p] \in Cell /\ m.order[p] # NoContext
         /\ \A b \in 1..Len(view) : Moved(m, n, b)
PROOF
<1> DEFINE Q == Len(m.order)
           o == m.order
           B == m.buckets
<1>1. /\ IsMemory(m) /\ Listed(m) /\ Len(view) \in Nat /\ DOMAIN B = 1..Len(view)
      /\ \A p \in 1..Q : o[p] \in DOMAIN m.contexts
      /\ DOMAIN m.contexts \subseteq Nat \ {0}
  BY MemoryFacts
<1>2. o \in Seq(Nat \ {0}) /\ \A c \in DOMAIN m.contexts : \E p \in 1..Q : o[p] = c
  BY <1>1 DEF Listed, IsListOf
<1>3. Q \in Nat /\ DOMAIN o = 1..Q  BY <1>2
<1>4. /\ n.buckets = [b \in DOMAIN B |-> [B[b] EXCEPT !.raw = PlaceOf(m, @)]]
      /\ n.contexts = [p \in DOMAIN o |-> m.contexts[o[p]]]
      /\ n.order = [p \in DOMAIN o |-> p] /\ n.size = m.size /\ n.live = m.live
      /\ IsRecord(n)
  BY DEF Placed, IsRecord
<1>5. m.contexts \in [DOMAIN m.contexts -> Cell]  BY <1>1 DEF IsMemory
<1>6. \A p \in 1..Q : n.order[p] = p /\ n.contexts[p] = m.contexts[o[p]]
  BY <1>3, <1>4
<1>7. \A p \in 1..Q : n.contexts[p] \in Cell /\ o[p] # NoContext
  <2> TAKE p \in 1..Q
  <2>1. o[p] \in DOMAIN m.contexts  BY <1>1
  <2>2. m.contexts[o[p]] \in Cell  BY <1>5, <2>1
  <2> QED BY <1>1, <1>6, <2>1, <2>2 DEF NoContext
<1>8. DOMAIN n.contexts = 1..Q  BY <1>3, <1>4
<1>9. n.order \in Seq(Nat \ {0}) /\ Len(n.order) = Q
  <2>1. n.order = [p \in 1..Q |-> p]  BY <1>3, <1>4
  <2> HIDE DEF Q
  <2> QED BY <1>3, <2>1
<1>10. ASSUME NEW b \in 1..Len(view) PROVE Moved(m, n, b)
  <2> DEFINE k == B[b]
             x == n.buckets[b]
             r == k.raw
             s == PlaceOf(m, r)
  <2>1. k \in Bucket /\ (r # NoContext => r \in DOMAIN m.contexts)  BY BucketFacts
  <2>2. x = [k EXCEPT !.raw = s]  BY <1>1, <1>4
  <2>3. r = NoContext => s = NoContext  BY DEF PlaceOf
  <2>4. ASSUME r # NoContext PROVE s \in 1..Q /\ o[s] = r
    <3>1. PICK p \in 1..Q : o[p] = r  BY <1>2, <2>1, <2>4
    <3>2. PlaceOf(m, o[p]) = p  BY <1>1, PlaceFacts
    <3>3. s = p  BY <3>1, <3>2
    <3> QED BY <3>1, <3>3
  <2>5. s \in Nat  BY <1>3, <2>3, <2>4 DEF NoContext
  <2>6. m.buckets[b] = k /\ n.buckets[b] = x  OBVIOUS
  <2> HIDE DEF k, x, s
  <2>7. x = [raw |-> s, compressed |-> k.compressed, refs |-> k.refs]  BY <2>1, <2>2 DEF Bucket
  <2>8. x \in Bucket /\ x.raw = s /\ x.compressed = k.compressed /\ x.refs = k.refs
    BY <2>1, <2>5, <2>7 DEF Bucket
  <2> QED BY <2>3, <2>4, <2>6, <2>8 DEF Moved
<1>11. DOMAIN n.buckets = 1..Len(view)  BY <1>1, <1>4
<1>12. n.buckets \in Seq(Bucket) /\ Len(n.buckets) = Len(view)
  <2> DEFINE f == n.buckets
             N == Len(view)
  <2>1. \A b \in 1..N : f[b] \in Bucket  BY <1>10 DEF Moved
  <2>2. f = [b \in 1..N |-> [B[b] EXCEPT !.raw = PlaceOf(m, @)]]  BY <1>1, <1>4
  <2>3. f = [b \in 1..N |-> f[b]]  BY <2>2
  <2>4. N \in Nat  BY <1>1
  <2> HIDE DEF f, N
  <2>5. f \in [1..N -> Bucket]  BY <2>1, <2>3
  <2>6. f \in Seq(Bucket) /\ Len(f) = N  BY <2>3, <2>4, <2>5
  <2> QED BY <2>6 DEF f, N
<1> QED BY <1>3, <1>4, <1>6, <1>7, <1>8, <1>9, <1>10, <1>11, <1>12

LEMMA PlacedShows ==
  ASSUME NEW m, NEW view, Represents(m, view), NEW n, n = Placed(m)
  PROVE  Represents(n, view)
PROOF
<1> DEFINE Q == Len(m.order)
           o == m.order
<1>1. /\ IsMemory(m) /\ Listed(m) /\ Len(view) \in Nat /\ DOMAIN m.buckets = 1..Len(view)
      /\ view \in Seq(Seq(Values)) /\ m.size \in Int /\ m.live \in Int
      /\ Len(view) = Len(m.buckets)
  BY MemoryFacts DEF IsMemory
<1>2. /\ IsRecord(n) /\ n.size = m.size /\ n.live = m.live
      /\ DOMAIN n.buckets = 1..Len(view) /\ n.buckets \in Seq(Bucket) /\ Len(n.buckets) = Len(view)
      /\ Q \in Nat /\ DOMAIN o = 1..Q
      /\ n.order \in Seq(Nat \ {0}) /\ Len(n.order) = Q
      /\ DOMAIN n.contexts = 1..Q
      /\ \A p \in 1..Q :
           /\ n.order[p] = p /\ n.contexts[p] = m.contexts[o[p]]
           /\ n.contexts[p] \in Cell /\ o[p] # NoContext
      /\ \A b \in 1..Len(view) : Moved(m, n, b)
  BY PlacedFacts
<1>3. /\ \A p \in 1..Q : o[p] \in DOMAIN m.contexts
      /\ \A p, q \in 1..Q : o[p] = o[q] => p = q
  BY <1>1 DEF Listed, IsListOf
<1>3a. o = m.order  OBVIOUS
<1> HIDE DEF Q, o
<1>4. n.contexts \in [DOMAIN n.contexts -> Cell]
  <2> DEFINE g == n.contexts
  <2>1. g = [p \in DOMAIN o |-> m.contexts[o[p]]]  BY <1>3a DEF Placed
  <2>2. \A p \in 1..Q : g[p] \in Cell  BY <1>2
  <2>3. DOMAIN o = 1..Q  BY <1>2
  <2> HIDE DEF g
  <2>4. g \in [1..Q -> Cell] /\ DOMAIN g = 1..Q  BY <2>1, <2>2, <2>3
  <2> QED BY <2>4 DEF g
<1>5. IsMemory(n)  BY <1>1, <1>2, <1>4 DEF IsMemory
<1>6. Listed(n)
  <2>1. /\ n.order \in Seq(Nat \ {0}) /\ Len(n.order) = Q /\ DOMAIN n.contexts = 1..Q
        /\ \A p \in 1..Q : n.order[p] = p
    BY <1>2
  <2> QED BY <2>1 DEF Listed, IsListOf
<1>7. ASSUME NEW b \in 1..Len(view)
      PROVE  /\ Len(view[b]) <= BlockSize /\ BucketShows(n, b, view[b])
             /\ FindCompressed(n, b) = FindCompressed(m, b)
  <2> DEFINE r == m.buckets[b].raw
             s == n.buckets[b].raw
  <2>1. /\ n.buckets[b].compressed = m.buckets[b].compressed
        /\ r = NoContext => s = NoContext
        /\ r # NoContext => s \in 1..Q /\ o[s] = r
    BY <1>2, <1>3a DEF Moved, Q
  <2>2. Len(view[b]) <= BlockSize /\ BucketShows(m, b, view[b])  BY DEF Represents
  <2>3. r = NoContext => m.buckets[b].compressed \in Full /\ Shows(m.buckets[b].compressed, view[b])
    BY BucketFacts
  <2>4. r # NoContext => m.contexts[r].block_index = b /\ Shows(m.contexts[r].data, view[b])
    BY BucketFacts
  <2>5. r # NoContext => s # NoContext /\ s \in DOMAIN n.contexts /\ n.contexts[s] = m.contexts[r]
    BY <1>2, <2>1 DEF NoContext
  <2>6. r = NoContext \/ r # NoContext  OBVIOUS
  <2>7. BucketShows(n, b, view[b])
    <3>1. CASE r = NoContext  BY <2>1, <2>3, <3>1 DEF BucketShows
    <3>2. CASE r # NoContext  BY <2>4, <2>5, <3>2 DEF BucketShows
    <3> QED BY <3>1, <3>2
  <2>8. FindCompressed(n, b) = FindCompressed(m, b)
    <3>1. CASE r = NoContext  BY <2>1, <3>1 DEF FindCompressed, RawOf
    <3>2. CASE r # NoContext  BY <2>5, <3>2 DEF FindCompressed, RawOf
    <3> QED BY <3>1, <3>2
  <2> QED BY <2>2, <2>7, <2>8
<1>8. ASSUME NEW p \in DOMAIN n.contexts PROVE ContextIsLinked(n, p)
  <2> DEFINE x == n.contexts[p]
             c == o[p]
             b == x.block_index
  <2>1. p \in 1..Q /\ x = m.contexts[c] /\ c \in DOMAIN m.contexts /\ c # NoContext  BY <1>2, <1>3
  <2>2. ContextIsLinked(m, c)  BY <2>1 DEF Represents
  <2>3. CASE b = 0
    <3>1. x = EmptyContext  BY <2>1, <2>3, EmptyFacts
    <3> QED BY <2>3, <3>1 DEF ContextIsLinked
  <2>4. CASE b # 0
    <3>1. b \in 1..Len(view) /\ m.buckets[b].raw = c /\ (x.dirty \/ Saved(x))
      BY <2>1, <2>4, ContextFacts
    <3>2. Moved(m, n, b)  BY <1>2, <3>1
    <3>3. n.buckets[b].raw \in 1..Q /\ o[n.buckets[b].raw] = c
      BY <1>3a, <2>1, <3>1, <3>2 DEF Moved, Q
    <3>4. n.buckets[b].raw = p  BY <1>3, <2>1, <3>3
    <3>5. b \in DOMAIN n.buckets  BY <1>2, <3>1
    <3> QED BY <2>4, <3>1, <3>4, <3>5 DEF ContextIsLinked
  <2> QED BY <2>3, <2>4
<1>9. Buffered(n) = Buffered(m)  BY <1>1, <1>2, <1>7 DEF Buffered
<1>10. n.live = Cardinality(Buffered(n))
  <2>1. m.live = Cardinality(Buffered(m))  BY DEF Represents
  <2> QED BY <1>2, <1>9, <2>1
<1>11. \A b \in 1..Len(view) : Len(view[b]) <= BlockSize /\ BucketShows(n, b, view[b])  BY <1>7
<1>12. \A c \in DOMAIN n.contexts : ContextIsLinked(n, c)  BY <1>8
<1> QED BY <1>1, <1>2, <1>5, <1>6, <1>10, <1>11, <1>12 DEF Represents

\* What the operation did is what the vector has.
LEMMA BecomeHolds ==
  ASSUME NEW m, NEW w, Holds(m, w), Become(m)
  PROVE  /\ Holds(Memory', w) /\ d_size' = m.size
         /\ Len(d_buckets') = Len(m.buckets)
         /\ \A b \in 1..Len(m.buckets) :
              /\ d_buckets'[b].refs = m.buckets[b].refs
              /\ m.buckets[b].raw # NoContext => d_buckets'[b].raw # NoContext
PROOF
<1> DEFINE n == Memory'
<1>1. n = Placed(m)  BY BecomeIs
<1>2. n.buckets = d_buckets' /\ n.size = d_size'  BY DEF Memory
<1>3. PICK view : Represents(m, view) /\ Splits(view, w) /\ m.size = Len(w)  BY DEF Holds
<1>4. Len(view) = Len(m.buckets)  BY <1>3, MemoryFacts
<1> HIDE DEF n
<1>5. Represents(n, view)  BY <1>1, <1>3, PlacedShows
<1>6. /\ n.size = m.size /\ Len(n.buckets) = Len(view)
      /\ \A b \in 1..Len(view) : Moved(m, n, b)
  BY <1>1, <1>3, PlacedFacts
<1>7. Holds(n, w)  BY <1>3, <1>5, <1>6 DEF Holds
<1>8. ASSUME NEW b \in 1..Len(m.buckets)
      PROVE  /\ d_buckets'[b].refs = m.buckets[b].refs
             /\ m.buckets[b].raw # NoContext => d_buckets'[b].raw # NoContext
  <2>1. Moved(m, n, b)  BY <1>4, <1>6
  <2> QED BY <1>2, <2>1 DEF Moved, NoContext
<1> QED BY <1>2, <1>4, <1>6, <1>7, <1>8 DEF n
-----------------------------------------------------------------------------
(* The inductive invariant *)

\* The memory holds the vector, and the wrappers are within their bound.
IInv ==
  /\ Holds(Memory, vec) /\ d_size <= MaxSize
  /\ \A b \in 1..Len(d_buckets) : d_buckets[b].refs <= MaxHeld

LEMMA Bounds == MaxSize \in Nat /\ MaxHeld \in Nat
PROOF BY CVectorAssumption

LEMMA InvFacts ==
  ASSUME IInv
  PROVE  /\ vec \in Seq(Values) /\ Len(vec) = d_size /\ d_size \in 0..MaxSize
         /\ Len(d_buckets) \in Nat /\ DOMAIN d_buckets = 1..Len(d_buckets)
         /\ d_buckets \in Seq(Bucket)
         /\ Len(d_buckets) = IF d_size = 0 THEN 0 ELSE BucketOf(d_size)
         /\ Memory.buckets = d_buckets /\ Memory.size = d_size
         /\ \A b \in 1..Len(d_buckets) : d_buckets[b] \in Bucket /\ d_buckets[b].refs \in 0..MaxHeld
PROOF
<1> DEFINE m == Memory
<1>1. m.buckets = d_buckets /\ m.size = d_size  BY DEF Memory
<1>2. Holds(m, vec) /\ d_size <= MaxSize  BY DEF IInv
<1> HIDE DEF m
<1>3. /\ IsMemory(m) /\ Len(m.buckets) \in Nat
      /\ vec \in Seq(Values) /\ Len(vec) \in Nat /\ m.size = Len(vec)
      /\ Len(m.buckets) = IF Len(vec) = 0 THEN 0 ELSE BucketOf(Len(vec))
      /\ DOMAIN m.buckets = 1..Len(m.buckets)
  BY <1>2, HoldsFacts
<1>4. m.buckets \in Seq(Bucket)  BY <1>3 DEF IsMemory
<1>5. d_size \in 0..MaxSize  BY <1>1, <1>2, <1>3, Bounds
<1>6. ASSUME NEW b \in 1..Len(d_buckets)
      PROVE  d_buckets[b] \in Bucket /\ d_buckets[b].refs \in 0..MaxHeld
  <2> DEFINE k == d_buckets[b]
  <2>1. k \in Bucket  BY <1>1, <1>4
  <2>2. k.refs <= MaxHeld  BY DEF IInv
  <2> HIDE DEF k
  <2>3. k.refs \in Nat  BY <2>1 DEF Bucket
  <2>4. k.refs \in 0..MaxHeld  BY <2>2, <2>3, Bounds
  <2> QED BY <2>1, <2>4 DEF k
<1> QED BY <1>1, <1>3, <1>4, <1>5, <1>6 DEF m

LEMMA InvStep ==
  ASSUME NEW n, Holds(n, vec'), Len(vec') <= MaxSize, Become(n),
         \A b \in 1..Len(n.buckets) : n.buckets[b].refs <= MaxHeld
  PROVE  IInv'
PROOF
<1> DEFINE w == vec'
<1>1. Holds(n, w)  OBVIOUS
<1> HIDE DEF w
<1>2. /\ Holds(Memory', w) /\ d_size' = n.size
      /\ Len(d_buckets') = Len(n.buckets)
      /\ \A b \in 1..Len(n.buckets) : d_buckets'[b].refs = n.buckets[b].refs
  BY <1>1, BecomeHolds
<1>3. n.size = Len(w)  BY <1>1 DEF Holds
<1>4. d_size' <= MaxSize  BY <1>2, <1>3 DEF w
<1>5. \A b \in 1..Len(d_buckets') : d_buckets'[b].refs <= MaxHeld  BY <1>2
<1> QED BY <1>2, <1>4, <1>5 DEF IInv, w

\* A bucket that is referred to keeps a context, unless it is the last one and a
\* bucket is added.
Stays ==
  \A b \in DOMAIN d_buckets \intersect DOMAIN d_buckets' :
    \/ d_buckets[b].refs = 0 \/ d_buckets[b].raw = NoContext
    \/ b = Len(d_buckets) /\ Len(d_buckets') > b
    \/ d_buckets'[b].raw # NoContext

LEMMA MovesStep ==
  ASSUME IInv, NEW n, Holds(n, vec'), Len(vec') <= MaxSize, Become(n), Moves(Memory, n)
  PROVE  IInv' /\ Stays
PROOF
<1> DEFINE m == Memory
           w == vec'
<1>1. /\ Len(d_buckets) \in Nat /\ DOMAIN d_buckets = 1..Len(d_buckets)
      /\ d_buckets \in Seq(Bucket) /\ m.buckets = d_buckets
  BY InvFacts
<1>2. \A b \in 1..Len(d_buckets) : d_buckets[b].refs <= MaxHeld /\ d_buckets[b].refs \in Nat
  BY InvFacts
<1>3. Moves(m, n) /\ Holds(n, w)  OBVIOUS
<1> HIDE DEF m, w
<1>4. Len(n.buckets) \in Nat  BY <1>3, HoldsFacts
<1>5. \A b \in 1..Len(n.buckets) : n.buckets[b].refs <= MaxHeld
  <2> TAKE b \in 1..Len(n.buckets)
  <2>1. n.buckets[b].refs = IF b <= Len(d_buckets) THEN d_buckets[b].refs ELSE 0
    BY <1>1, <1>3 DEF Moves
  <2>2. CASE b <= Len(d_buckets)
    <3>1. b \in 1..Len(d_buckets)  BY <1>1, <1>4, <2>2
    <3> QED BY <1>2, <2>1, <2>2, <3>1
  <2>3. CASE ~(b <= Len(d_buckets))  BY <2>1, <2>3, Bounds
  <2> QED BY <2>2, <2>3
<1>6. IInv'  BY <1>5, InvStep
<1>7. /\ Len(d_buckets') = Len(n.buckets)
      /\ \A b \in 1..Len(n.buckets) :
           n.buckets[b].raw # NoContext => d_buckets'[b].raw # NoContext
  BY <1>3, BecomeHolds
<1>8. DOMAIN d_buckets' = DOMAIN n.buckets /\ DOMAIN n.buckets = 1..Len(n.buckets)
  <2>1. DOMAIN n.buckets = 1..Len(n.buckets)  BY <1>3, HoldsFacts
  <2> QED BY <2>1 DEF Become
<1>9. Stays
  <2> SUFFICES ASSUME NEW b \in DOMAIN d_buckets \intersect DOMAIN d_buckets',
                      d_buckets[b].refs # 0, d_buckets[b].raw # NoContext,
                      ~(b = Len(d_buckets) /\ Len(d_buckets') > b)
               PROVE  d_buckets'[b].raw # NoContext
    BY DEF Stays
  <2>1. b \in 1..Len(d_buckets) /\ b \in 1..Len(n.buckets)  BY <1>1, <1>8
  <2>2. d_buckets[b].refs > 0  BY <1>2, <2>1
  <2>3. b < Len(d_buckets) \/ Len(n.buckets) <= Len(d_buckets)  BY <1>1, <1>4, <1>7, <2>1
  <2>4. n.buckets[b].raw = d_buckets[b].raw
    BY <1>1, <1>3, <2>1, <2>2, <2>3 DEF Moves
  <2> QED BY <1>7, <2>1, <2>4
<1> QED BY <1>6, <1>9

\* Nobody refers to a bucket, or not any more.
LEMMA IdleStep ==
  ASSUME IInv, NEW n, Holds(n, vec'), Len(vec') <= MaxSize, Become(n),
         \A b \in 1..Len(n.buckets) : n.buckets[b].refs = 0,
         \A b \in 1..Len(d_buckets) : d_buckets[b].refs = 0
  PROVE  IInv' /\ Stays
PROOF
<1>1. \A b \in 1..Len(n.buckets) : n.buckets[b].refs <= MaxHeld  BY Bounds
<1>2. IInv'  BY <1>1, InvStep
<1>3. Stays  BY InvFacts DEF Stays
<1> QED BY <1>2, <1>3

\* What the wrappers refer to is what References counts.
LEMMA ReferencesFacts ==
  ASSUME IInv
  PROVE  References \in Nat /\ \A b \in 1..Len(d_buckets) : d_buckets[b].refs <= References
PROOF
<1> DEFINE n == Len(d_buckets)
<1>1. n \in Nat /\ DOMAIN d_buckets = 1..n /\ d_buckets \in Seq(Bucket)  BY InvFacts
<1>2. \A b \in 1..n : d_buckets[b].refs \in Nat  BY InvFacts
<1>3. PICK h : /\ h[0] = 0 /\ \A k \in 1..n : h[k] = h[k - 1] + d_buckets[k].refs
               /\ References = h[n]
  BY <1>1, ReferencesChain
<1>3a. n = Len(d_buckets)  OBVIOUS
<1> HIDE DEF n
<1> DEFINE S == {k \in 0..n : h[k] \in Nat /\ \A b \in 1..k : d_buckets[b].refs <= h[k]}
<1>4. 0 \in S  BY <1>1, <1>3
<1>5. ASSUME NEW k \in 0..(n - 1), k \in S PROVE k + 1 \in S
  <2> DEFINE x == h[k]
             y == h[k + 1]
             r == d_buckets[k + 1].refs
  <2>1. k + 1 \in 1..n /\ (k + 1) - 1 = k /\ k + 1 \in 0..n /\ k \in Nat  BY <1>1
  <2>2. x \in Nat /\ \A b \in 1..k : d_buckets[b].refs <= x  BY <1>5
  <2>3. y = x + r  BY <1>3, <2>1
  <2>4. r \in Nat  BY <1>2, <2>1
  <2> HIDE DEF x, y
  <2>5. y \in Nat /\ x <= y /\ r <= y  BY <2>2, <2>3, <2>4
  <2>6. ASSUME NEW b \in 1..(k + 1) PROVE d_buckets[b].refs <= y
    <3>1. CASE b = k + 1  BY <2>5, <3>1
    <3>2. CASE b # k + 1
      <4>1. b \in 1..k  BY <2>1, <3>2
      <4>2. b \in 1..n  BY <1>1, <2>1, <4>1
      <4>3. d_buckets[b].refs <= x /\ d_buckets[b].refs \in Nat  BY <1>2, <2>2, <4>1, <4>2
      <4> QED BY <2>2, <2>5, <4>3
    <3> QED BY <3>1, <3>2
  <2> QED BY <2>1, <2>5, <2>6 DEF y
<1> HIDE DEF S
<1>6. \A k \in 0..n : k \in S  BY <1>1, <1>4, <1>5, Induction
<1>7. n \in S  BY <1>1, <1>6
<1>8. h[n] \in Nat /\ \A b \in 1..n : d_buckets[b].refs <= h[n]  BY <1>7 DEF S
<1> QED BY <1>3, <1>3a, <1>8

LEMMA NoReferences ==
  ASSUME IInv, References = 0
  PROVE  \A b \in 1..Len(d_buckets) : d_buckets[b].refs = 0
PROOF
<1>1. d_buckets \in Seq(Bucket)  BY InvFacts
<1>2. \A b \in 1..Len(d_buckets) : d_buckets[b].refs \in Nat  BY InvFacts
<1>3. \A b \in 1..Len(d_buckets) : d_buckets[b].refs <= 0  BY ReferencesFacts
<1> QED BY <1>2, <1>3
-----------------------------------------------------------------------------
(* The actions *)

LEMMA InitHolds ==
  ASSUME Init
  PROVE  IInv
PROOF
<1> DEFINE m == Memory
           o == [p \in DOMAIN d_contexts |-> p]
<1>1. d_buckets = <<>> /\ d_contexts = <<>> /\ d_size = 0 /\ live = 0 /\ vec = <<>>
  BY DEF Init, Vector!Init
<1>2. o = <<>>  BY <1>1
<1>3. m = [buckets |-> d_buckets, contexts |-> d_contexts, order |-> o, size |-> d_size, live |-> live]
  BY DEF Memory
<1> HIDE DEF m, o
<1>4. m = [buckets |-> <<>>, contexts |-> <<>>, order |-> <<>>, size |-> 0, live |-> 0]
  BY <1>1, <1>2, <1>3
<1>5. Holds(m, <<>>)  BY <1>4, EmptyHolds
<1>6. Len(d_buckets) = 0  BY <1>1
<1>7. \A b \in 1..Len(d_buckets) : d_buckets[b].refs <= MaxHeld  BY <1>6
<1> QED BY <1>1, <1>5, <1>7, Bounds DEF IInv, m

\* An operation that keeps the buckets, and what refers to them.
LEMMA KeepsStep ==
  ASSUME IInv, NEW n, Holds(n, vec'), Len(vec') <= MaxSize, Become(n), Keeps(Memory, n, NoContext)
  PROVE  IInv' /\ Stays
PROOF
<1> DEFINE m == Memory
<1>1. PICK view : Represents(m, view)  BY DEF IInv, Holds
<1>2. Keeps(m, n, NoContext)  OBVIOUS
<1> HIDE DEF m
<1>3. Grows(m, n)  BY <1>1, <1>2, KeepsMoves
<1>4. Moves(m, n)  BY <1>3 DEF Grows
<1> QED BY <1>4, MovesStep DEF m

LEMMA PushBackStep ==
  ASSUME IInv, NEW v \in Values, PushBack(v)
  PROVE  IInv' /\ Stays
PROOF
<1> DEFINE m == Memory
           n == EmplaceBack(m, v)
           w == vec
<1>1. Holds(m, w) /\ w \in Seq(Values) /\ Len(w) = d_size /\ d_size \in 0..MaxSize
  BY InvFacts DEF IInv
<1>2. vec' = Append(w, v) /\ Len(w) < MaxSize  BY DEF PushBack, Vector!PushBack
<1>3. Become(n)  BY DEF PushBack
<1>4. n = EmplaceBack(m, v)  OBVIOUS
<1> HIDE DEF n, m, w
<1>5. Holds(n, Append(w, v)) /\ Grows(m, n)  BY <1>1, <1>4, EmplaceBackHolds
<1>6. Len(Append(w, v)) <= MaxSize
  <2>1. Len(Append(w, v)) = Len(w) + 1 /\ Len(w) \in Nat  BY <1>1
  <2> QED BY <1>2, <2>1, Bounds
<1>7. Moves(m, n)  BY <1>5 DEF Grows
<1>8. Holds(n, vec') /\ Len(vec') <= MaxSize  BY <1>2, <1>5, <1>6
<1> QED BY <1>3, <1>7, <1>8, MovesStep DEF m

LEMMA PopBackStep ==
  ASSUME IInv, PopBack
  PROVE  IInv' /\ Stays
PROOF
<1> DEFINE m == Memory
           n == RemoveBack(m)
           w == vec
           t == vec'
<1>1. Holds(m, w) /\ w \in Seq(Values) /\ Len(w) = d_size /\ d_size \in 0..MaxSize
  BY InvFacts DEF IInv
<1>2. t = SubSeq(w, 1, Len(w) - 1) /\ w # <<>>  BY DEF PopBack, Vector!PopBack
<1>3. Become(n)  BY DEF PopBack
<1>4. n = RemoveBack(m)  OBVIOUS
<1> HIDE DEF n, m, w, t
<1>5. Len(w) # 0 /\ Len(w) \in Nat  BY <1>1, <1>2
<1>6. IsFront(t, w)
  <2> DEFINE L == Len(w) - 1
  <2>1. 1 \in 1..(Len(w) + 1) /\ L \in (1 - 1)..Len(w) /\ L - 1 + 1 = L /\ \A q \in Nat : 1 + q - 1 = q
    BY <1>5
  <2>2. /\ t \in Seq(Values) /\ Len(t) = L - 1 + 1
        /\ \A q \in 1..(L - 1 + 1) : t[q] = w[1 + q - 1]
    BY <1>1, <1>2, <2>1, Part
  <2>3. L \in Nat  BY <1>5
  <2>4. \A q \in 1..L : t[q] = w[q]  BY <2>1, <2>2, <2>3
  <2> QED BY <2>1, <2>2, <2>4 DEF IsFront
<1>7. Holds(n, t) /\ Shrinks(m, n)  BY <1>1, <1>4, <1>5, <1>6, RemoveBackHolds
<1>8. Len(t) <= MaxSize
  <2>1. Len(t) = Len(w) - 1  BY <1>6 DEF IsFront
  <2> QED BY <1>1, <1>5, <2>1, Bounds
<1>9. Moves(m, n)  BY <1>7 DEF Shrinks
<1> QED BY <1>3, <1>7, <1>8, <1>9, MovesStep DEF m, t

LEMMA GrowStep ==
  ASSUME IInv, NEW k \in 1..MaxSize, NEW v \in Values, Grow(k, v)
  PROVE  IInv' /\ Stays
PROOF
<1> DEFINE m == Memory
           n == ResizeGrow(m, k, v)
           w == vec
           t == vec'
<1>1. Holds(m, w) /\ w \in Seq(Values) /\ Len(w) = d_size /\ d_size \in 0..MaxSize
  BY InvFacts DEF IInv
<1>2. t = Sized(w, k, v) /\ d_size < k /\ k <= MaxSize
  BY DEF Grow, Vector!Resize, Vector!Resized, Sized
<1>3. Become(n)  BY DEF Grow
<1>4. n = ResizeGrow(m, k, v)  OBVIOUS
<1> HIDE DEF n, m, w, t
<1>5. k \in Nat /\ Len(w) < k  BY <1>1, <1>2, Bounds
<1>6. Holds(n, Sized(w, k, v)) /\ Grows(m, n)  BY <1>1, <1>4, <1>5, GrowHolds
<1>7. Len(Sized(w, k, v)) = k  BY <1>1, <1>5, SizedFacts
<1>8. Moves(m, n)  BY <1>6 DEF Grows
<1>9. Holds(n, t) /\ Len(t) <= MaxSize  BY <1>2, <1>6, <1>7
<1> QED BY <1>3, <1>8, <1>9, MovesStep DEF m, t

LEMMA ShrinkStepHolds ==
  ASSUME IInv, NEW k \in 1..MaxSize, Shrink(k)
  PROVE  IInv' /\ Stays
PROOF
<1> DEFINE m == Memory
           n == ResizeShrink(m, k)
           w == vec
           t == vec'
           v == w[1]
<1>1. Holds(m, w) /\ w \in Seq(Values) /\ Len(w) = d_size /\ d_size \in 0..MaxSize
  BY InvFacts DEF IInv
<1>2. t = Sized(w, k, v) /\ k < d_size  BY DEF Shrink, Vector!Resized, Sized
<1>3. Become(n)  BY DEF Shrink
<1>4. n = ResizeShrink(m, k)  OBVIOUS
<1>5. k \in 0..Len(w) /\ 1 \in 1..Len(w) /\ k \in Nat /\ k <= MaxSize  BY <1>1, <1>2, Bounds
<1>6. v \in Values  BY <1>1, <1>5
<1> HIDE DEF n, m, w, t, v
<1>7. Holds(n, Sized(w, k, v)) /\ Shrinks(m, n)  BY <1>1, <1>4, <1>5, <1>6, ShrinkHolds
<1>8. Len(Sized(w, k, v)) = k  BY <1>1, <1>5, <1>6, SizedFacts
<1>9. Moves(m, n)  BY <1>7 DEF Shrinks
<1>10. Holds(n, t) /\ Len(t) <= MaxSize  BY <1>2, <1>5, <1>7, <1>8
<1> QED BY <1>3, <1>9, <1>10, MovesStep DEF m, t

LEMMA ClearStep ==
  ASSUME IInv, Clear
  PROVE  IInv' /\ Stays
PROOF
<1> DEFINE m == Memory
           n == Cleared(m)
           t == vec'
<1>1. Holds(m, vec)  BY DEF IInv
<1>2. t = <<>> /\ Become(n)  BY DEF Clear, Vector!Clear
<1>3. n = Cleared(m)  OBVIOUS
<1> HIDE DEF n, m, t
<1>4. Holds(n, <<>>) /\ Shrinks(m, n)  BY <1>1, <1>3, ClearedHolds
<1>5. Moves(m, n)  BY <1>4 DEF Shrinks
<1>6. Len(t) = 0  BY <1>2
<1>7. Holds(n, t) /\ Len(t) <= MaxSize  BY <1>2, <1>4, <1>6, Bounds
<1> QED BY <1>2, <1>5, <1>7, MovesStep DEF m, t
LEMMA GetStep ==
  ASSUME IInv, NEW i \in Index, Get(i)
  PROVE  IInv' /\ Stays
PROOF
<1> DEFINE m == Memory
           n == Read(m, i)
           w == vec
           t == vec'
<1>1. Holds(m, w) /\ Len(w) = d_size /\ d_size \in 0..MaxSize  BY InvFacts DEF IInv
<1>2. t = w /\ Become(n) /\ i \in 1..d_size  BY DEF Get, Index
<1>3. n = Read(m, i)  OBVIOUS
<1> HIDE DEF n, m, w, t
<1>4. Holds(n, w) /\ Keeps(m, n, NoContext)  BY <1>1, <1>2, <1>3, ReadHolds
<1>5. Holds(n, t) /\ Len(t) <= MaxSize  BY <1>1, <1>2, <1>4, Bounds
<1> QED BY <1>2, <1>4, <1>5, KeepsStep DEF m, t

LEMMA SameRange ==
  ASSUME NEW k \in Nat, NEW n \in Nat, 1..k = 1..n
  PROVE  k = n
PROOF
<1>1. k <= n
  <2>1. CASE k = 0  BY <2>1
  <2>2. CASE k # 0
    <3>1. k \in 1..k  BY <2>2
    <3> QED BY <3>1
  <2> QED BY <2>1, <2>2
<1>2. n <= k
  <2>1. CASE n = 0  BY <2>1
  <2>2. CASE n # 0
    <3>1. n \in 1..n  BY <2>2
    <3> QED BY <3>1
  <2> QED BY <2>1, <2>2
<1> QED BY <1>1, <1>2

\* A vector with other values.
LEMMA SameLength ==
  ASSUME NEW n, NEW w \in Seq(Values), NEW t, Holds(n, t), DOMAIN t = DOMAIN w, Len(w) <= MaxSize
  PROVE  Len(t) <= MaxSize
PROOF
<1> DEFINE K == Len(t)
           N == Len(w)
<1>1. t \in Seq(Values)  BY HoldsFacts
<1>2. DOMAIN t = 1..K /\ K \in Nat  BY <1>1
<1>3. DOMAIN w = 1..N /\ N \in Nat  OBVIOUS
<1>4. N <= MaxSize  OBVIOUS
<1> HIDE DEF K, N
<1>5. K = N  BY <1>2, <1>3, SameRange
<1>6. K <= MaxSize  BY <1>4, <1>5
<1> QED BY <1>6 DEF K

LEMMA SetStep ==
  ASSUME IInv, NEW i \in Index, NEW v \in Values, Set(i, v)
  PROVE  IInv' /\ Stays
PROOF
<1> DEFINE m == Memory
           n == SetValue(m, i, v)
           w == vec
           t == vec'
<1>1. Holds(m, w) /\ w \in Seq(Values) /\ Len(w) = d_size /\ d_size \in 0..MaxSize
  BY InvFacts DEF IInv
<1>2. /\ t = [k \in DOMAIN w |-> IF k \in i..i THEN v ELSE w[k]]
      /\ Become(n) /\ i \in 1..d_size
  BY DEF Set, Vector!Fill, Index
<1>3. n = SetValue(m, i, v)  OBVIOUS
<1> HIDE DEF n, m, w, t
<1>4. t = [w EXCEPT ![i] = v]
  <2>1. DOMAIN w = 1..Len(w) /\ Len(w) \in Nat  BY <1>1
  <2>2. \A k \in DOMAIN w : k \in i..i <=> k = i  BY <1>1, <1>2, <2>1
  <2> QED BY <1>2, <2>2
<1>5. Holds(n, [w EXCEPT ![i] = v]) /\ Keeps(m, n, NoContext)  BY <1>1, <1>2, <1>3, SetHolds
<1>6. Holds(n, t)  BY <1>4, <1>5
<1>7. DOMAIN t = DOMAIN w /\ Len(w) <= MaxSize  BY <1>1, <1>2, Bounds
<1>8. Len(t) <= MaxSize  BY <1>1, <1>6, <1>7, SameLength
<1> QED BY <1>2, <1>5, <1>6, <1>8, KeepsStep DEF m, t

LEMMA AssignStep ==
  ASSUME IInv, NEW i \in Index, NEW j \in Index, Assign(i, j)
  PROVE  IInv' /\ Stays
PROOF
<1> DEFINE m == Memory
           n == AssignValue(m, i, j)
           w == vec
           t == vec'
<1>1. Holds(m, w) /\ w \in Seq(Values) /\ Len(w) = d_size /\ d_size \in 0..MaxSize
  BY InvFacts DEF IInv
<1>2. /\ t = [w EXCEPT ![i] = w[j]]
      /\ Become(n) /\ i \in 1..d_size /\ j \in 1..d_size
  BY DEF Assign, Vector!Assign, Index
<1>3. n = AssignValue(m, i, j)  OBVIOUS
<1> HIDE DEF n, m, w, t
<1>4. Holds(n, [w EXCEPT ![i] = w[j]]) /\ Keeps(m, n, NoContext)  BY <1>1, <1>2, <1>3, AssignHolds
<1>5. Holds(n, t) /\ DOMAIN t = DOMAIN w  BY <1>2, <1>4
<1>6. Len(w) <= MaxSize  BY <1>1, Bounds
<1>7. Len(t) <= MaxSize  BY <1>1, <1>5, <1>6, SameLength
<1> QED BY <1>2, <1>4, <1>5, <1>7, KeepsStep DEF m, t

LEMMA SwapStep ==
  ASSUME IInv, NEW i \in Index, NEW j \in Index, Swap(i, j)
  PROVE  IInv' /\ Stays
PROOF
<1> DEFINE m == Memory
           n == SwapValues(m, i, j)
           w == vec
           t == vec'
<1>1. Holds(m, w) /\ w \in Seq(Values) /\ Len(w) = d_size /\ d_size \in 0..MaxSize
  BY InvFacts DEF IInv
<1>2. /\ t = [w EXCEPT ![i] = w[j], ![j] = w[i]]
      /\ Become(n) /\ i \in 1..d_size /\ j \in 1..d_size
  BY DEF Swap, Vector!Swap, Index
<1>3. n = SwapValues(m, i, j)  OBVIOUS
<1> HIDE DEF n, m, w, t
<1>4. Holds(n, [w EXCEPT ![i] = w[j], ![j] = w[i]]) /\ Keeps(m, n, NoContext)
  BY <1>1, <1>2, <1>3, SwapHolds
<1>5. Holds(n, t) /\ DOMAIN t = DOMAIN w  BY <1>2, <1>4
<1>6. Len(w) <= MaxSize  BY <1>1, Bounds
<1>7. Len(t) <= MaxSize  BY <1>1, <1>5, <1>6, SameLength
<1> QED BY <1>2, <1>4, <1>5, <1>7, KeepsStep DEF m, t

LEMMA ForEachStep ==
  ASSUME IInv, NEW first \in Index, NEW last \in first..d_size, NEW v \in Values,
         NEW backward \in BOOLEAN, NEW thrown \in Throws,
         ForEach(first, last, v, backward, thrown)
  PROVE  IInv' /\ Stays
PROOF
<1> DEFINE m == Memory
           written == first..last
           n == VisitAll(m, first, last, written, v, backward, thrown)
           w == vec
           t == vec'
<1>1. Holds(m, w) /\ w \in Seq(Values) /\ Len(w) = d_size /\ d_size \in 0..MaxSize
  BY InvFacts DEF IInv
<1>2. t = [i \in DOMAIN w |-> IF i \in written THEN v ELSE w[i]] /\ Become(n)
  BY DEF ForEach, Vector!Fill
<1>3. n = VisitAll(m, first, last, written, v, backward, thrown)  OBVIOUS
<1>4. first \in 1..Len(w) /\ last \in 1..Len(w) /\ first <= last /\ written \subseteq first..last
  BY <1>1 DEF Index
<1>5. thrown \in BOOLEAN /\ MayEnd(written, thrown)
  <2>1. thrown \in BOOLEAN  BY CVectorAssumption
  <2>2. thrown => ~NeverThrows  BY <2>1 DEF NeverThrows
  <2> QED BY <2>1, <2>2 DEF MayEnd
<1> HIDE DEF n, m, w, t, written
<1>6. VisitStep(m, w, first, last, written, v, backward, thrown, t, n)
  BY <1>1, <1>2, <1>3, <1>4, <1>5 DEF VisitStep
<1>7. Holds(n, t) /\ Keeps(m, n, NoContext)  BY <1>6, VisitAllHolds
<1>8. DOMAIN t = DOMAIN w /\ Len(w) <= MaxSize  BY <1>1, <1>2, Bounds
<1>9. Len(t) <= MaxSize  BY <1>1, <1>7, <1>8, SameLength
<1> QED BY <1>2, <1>7, <1>9, KeepsStep DEF m, t

LEMMA InspectStep ==
  ASSUME IInv, NEW first \in Index, NEW last \in first..d_size,
         NEW backward \in BOOLEAN, NEW stopped \in BOOLEAN,
         Inspect(first, last, backward, stopped)
  PROVE  IInv' /\ Stays
PROOF
<1> DEFINE m == Memory
           w == vec
           v == w[first]
           none == {}
           n == VisitAll(m, first, last, none, v, backward, stopped)
           t == vec'
<1>1. Holds(m, w) /\ w \in Seq(Values) /\ Len(w) = d_size /\ d_size \in 0..MaxSize
  BY InvFacts DEF IInv
<1>2. t = w /\ Become(n)  BY DEF Inspect
<1>3. n = VisitAll(m, first, last, none, v, backward, stopped)  OBVIOUS
<1>4. first \in 1..Len(w) /\ last \in 1..Len(w) /\ first <= last /\ none \subseteq first..last
  BY <1>1 DEF Index
<1>5. v \in Values /\ MayEnd(none, stopped)  BY <1>1, <1>4 DEF MayEnd
<1>6. none = {}  OBVIOUS
<1> HIDE DEF n, m, w, t, v, none
<1>7. t = [i \in DOMAIN w |-> IF i \in none THEN v ELSE w[i]]
  <2>1. w = [i \in DOMAIN w |-> w[i]]  BY <1>1
  <2> QED BY <1>2, <1>6, <2>1
<1>8. VisitStep(m, w, first, last, none, v, backward, stopped, t, n)
  BY <1>1, <1>3, <1>4, <1>5, <1>7 DEF VisitStep
<1>9. Holds(n, t) /\ Keeps(m, n, NoContext)  BY <1>8, VisitAllHolds
<1>10. Len(t) <= MaxSize  BY <1>1, <1>2, Bounds
<1> QED BY <1>2, <1>9, <1>10, KeepsStep DEF m, t

\* Whatever is compressed or freed, the same wrappers refer to the same buckets.
LEMMA SameRefsStep ==
  ASSUME IInv, NEW n, Holds(n, vec), UNCHANGED vec, Become(n),
         Len(n.buckets) = Len(d_buckets),
         \A b \in 1..Len(d_buckets) : n.buckets[b].refs <= MaxHeld
  PROVE  IInv'
PROOF
<1> DEFINE w == vec
           t == vec'
<1>1. w \in Seq(Values) /\ Len(w) = d_size /\ d_size \in 0..MaxSize  BY InvFacts
<1>2. Holds(n, w) /\ t = w  OBVIOUS
<1> HIDE DEF w, t
<1>3. Holds(n, t) /\ Len(t) <= MaxSize  BY <1>1, <1>2, Bounds
<1>4. \A b \in 1..Len(n.buckets) : n.buckets[b].refs <= MaxHeld  OBVIOUS
<1> QED BY <1>3, <1>4, InvStep DEF t

LEMMA ShrinkToFitStep ==
  ASSUME IInv, ShrinkToFit
  PROVE  IInv'
PROOF
<1> DEFINE m == Memory
           n == Shrunk(m)
<1>1. Holds(m, vec) /\ m.buckets = d_buckets  BY InvFacts DEF IInv
<1>2. n = Shrunk(m) /\ Become(n) /\ UNCHANGED vec  BY DEF ShrinkToFit
<1>3. \A b \in 1..Len(d_buckets) : d_buckets[b].refs <= MaxHeld  BY DEF IInv
<1> HIDE DEF n, m
<1>4. Holds(n, vec) /\ SameRefs(m, n)  BY <1>1, <1>2, ShrunkHolds
<1>5. /\ Len(n.buckets) = Len(d_buckets)
      /\ \A b \in 1..Len(d_buckets) : n.buckets[b].refs <= MaxHeld
  BY <1>1, <1>3, <1>4 DEF SameRefs
<1> QED BY <1>2, <1>4, <1>5, SameRefsStep

LEMMA SerializeStep ==
  ASSUME IInv, Serialize
  PROVE  IInv'
PROOF
<1> DEFINE m == Memory
           n == CompressAllButBack(m)
<1>1. Holds(m, vec) /\ m.buckets = d_buckets  BY InvFacts DEF IInv
<1>2. n = CompressAllButBack(m) /\ Become(n) /\ UNCHANGED vec  BY DEF Serialize
<1>3. \A b \in 1..Len(d_buckets) : d_buckets[b].refs <= MaxHeld  BY DEF IInv
<1> HIDE DEF n, m
<1>4. Holds(n, vec) /\ Saves(m, n)  BY <1>1, <1>2, SerializeHolds
<1>5. /\ Len(n.buckets) = Len(d_buckets)
      /\ \A b \in 1..Len(d_buckets) : n.buckets[b].refs <= MaxHeld
  BY <1>1, <1>3, <1>4 DEF Saves
<1> QED BY <1>2, <1>4, <1>5, SameRefsStep

LEMMA ReloadStep ==
  ASSUME IInv, Reload
  PROVE  IInv' /\ Stays
PROOF
<1> DEFINE m == Memory
           n == Deserialized(CompressAllButBack(m), Serialized(m))
           w == vec
           t == vec'
<1>1. Holds(m, w) /\ Len(w) = d_size /\ d_size \in 0..MaxSize  BY InvFacts DEF IInv
<1>2. t = w /\ Become(n) /\ References = 0 /\ d_size % BlockSize # 0  BY DEF Reload
<1>3. n = Deserialized(CompressAllButBack(m), Serialized(m))  OBVIOUS
<1> HIDE DEF n, m, w, t
<1>4. ~Whole(w)  BY <1>1, <1>2 DEF Whole
<1>5. Holds(n, w) /\ \A b \in 1..Len(n.buckets) : n.buckets[b].refs = 0
  BY <1>1, <1>3, <1>4, ReloadHolds
<1>6. \A b \in 1..Len(d_buckets) : d_buckets[b].refs = 0  BY <1>2, NoReferences
<1>7. Holds(n, t) /\ Len(t) <= MaxSize  BY <1>1, <1>2, <1>5, Bounds
<1> QED BY <1>2, <1>5, <1>6, <1>7, IdleStep DEF t

\* References are taken or given back.
LEMMA ReferStep ==
  ASSUME IInv, NEW view, NEW n, Represents(n, view), Splits(view, vec), UNCHANGED vec, Become(n),
         Referred(Memory, n), \A b \in 1..Len(d_buckets) : n.buckets[b].refs <= MaxHeld
  PROVE  IInv' /\ Stays
PROOF
<1> DEFINE m == Memory
           w == vec
<1>1. m.buckets = d_buckets /\ m.size = d_size /\ Len(w) = d_size
      /\ DOMAIN d_buckets = 1..Len(d_buckets)
  BY InvFacts
<1>2. Represents(n, view) /\ Splits(view, w) /\ Referred(m, n)  OBVIOUS
<1> HIDE DEF m, w
<1>3. n.size = Len(w) /\ Len(n.buckets) = Len(d_buckets)  BY <1>1, <1>2 DEF Referred
<1>4. Holds(n, w)  BY <1>2, <1>3 DEF Holds
<1>5. IInv'  BY <1>3, <1>4, SameRefsStep DEF w
<1>6. \A b \in 1..Len(d_buckets) : d_buckets[b].raw # NoContext => d_buckets'[b].raw # NoContext
  <2>1. \A b \in 1..Len(n.buckets) : n.buckets[b].raw # NoContext => d_buckets'[b].raw # NoContext
    BY <1>4, BecomeHolds
  <2>2. \A b \in 1..Len(d_buckets) : n.buckets[b].raw = d_buckets[b].raw
    BY <1>1, <1>2 DEF Referred
  <2> QED BY <1>3, <2>1, <2>2
<1>7. Stays  BY <1>1, <1>6 DEF Stays
<1> QED BY <1>5, <1>7

LEMMA HoldStep ==
  ASSUME IInv, NEW b \in DOMAIN d_buckets, Hold(b)
  PROVE  IInv' /\ Stays
PROOF
<1> DEFINE m == Memory
           n == Ref(m, b)
<1>1. PICK view : Represents(m, view) /\ Splits(view, vec)  BY DEF IInv, Holds
<1>2. m.buckets = d_buckets /\ DOMAIN d_buckets = 1..Len(d_buckets)  BY InvFacts
<1>3. n = Ref(m, b) /\ Become(n) /\ UNCHANGED vec /\ References < MaxHeld  BY DEF Hold
<1>4. References \in Nat /\ \A a \in 1..Len(d_buckets) : d_buckets[a].refs <= References
  BY ReferencesFacts
<1>5. \A a \in 1..Len(d_buckets) : d_buckets[a].refs \in 0..MaxHeld  BY InvFacts
<1> HIDE DEF n, m
<1>6. b \in 1..Len(view) /\ Len(view) = Len(d_buckets)  BY <1>1, <1>2, MemoryFacts
<1>7. /\ Represents(n, view) /\ Referred(m, n)
      /\ \A a \in 1..Len(view) :
           n.buckets[a].refs = m.buckets[a].refs + (IF a = b THEN 1 ELSE 0)
  BY <1>1, <1>3, <1>6, RefShows
<1>8. ASSUME NEW a \in 1..Len(d_buckets) PROVE n.buckets[a].refs <= MaxHeld
  <2> DEFINE r == d_buckets[a].refs
             s == n.buckets[a].refs
  <2>1. s = r + (IF a = b THEN 1 ELSE 0)  BY <1>2, <1>6, <1>7
  <2>2. r <= References /\ r \in Nat  BY <1>4, <1>5
  <2> HIDE DEF r, s
  <2>3. s <= r + 1  BY <2>1, <2>2
  <2>4. s <= MaxHeld  BY <1>3, <1>4, <2>1, <2>2, Bounds
  <2> QED BY <2>4 DEF s
<1> QED BY <1>1, <1>3, <1>7, <1>8, ReferStep DEF m

LEMMA DropStepHolds ==
  ASSUME IInv, NEW b \in DOMAIN d_buckets, Drop(b)
  PROVE  IInv' /\ Stays
PROOF
<1> DEFINE m == Memory
           n == Unref(m, b)
<1>1. PICK view : Represents(m, view) /\ Splits(view, vec)  BY DEF IInv, Holds
<1>2. m.buckets = d_buckets /\ DOMAIN d_buckets = 1..Len(d_buckets)  BY InvFacts
<1>3. n = Unref(m, b) /\ Become(n) /\ UNCHANGED vec /\ d_buckets[b].refs > 0  BY DEF Drop, Held
<1>4. \A a \in 1..Len(d_buckets) : d_buckets[a].refs \in 0..MaxHeld  BY InvFacts
<1> HIDE DEF n, m
<1>5. b \in 1..Len(view) /\ Len(view) = Len(d_buckets)  BY <1>1, <1>2, MemoryFacts
<1>6. m.buckets[b].refs > 0  BY <1>2, <1>3
<1>7. /\ Represents(n, view) /\ Referred(m, n)
      /\ \A a \in 1..Len(view) :
           n.buckets[a].refs = m.buckets[a].refs - (IF a = b THEN 1 ELSE 0)
  BY <1>1, <1>3, <1>5, <1>6, UnrefShows
<1>8. ASSUME NEW a \in 1..Len(d_buckets) PROVE n.buckets[a].refs <= MaxHeld
  <2> DEFINE r == d_buckets[a].refs
             s == n.buckets[a].refs
  <2>1. s = r - (IF a = b THEN 1 ELSE 0)  BY <1>2, <1>5, <1>7
  <2>2. r <= MaxHeld /\ r \in Nat  BY <1>4, Bounds
  <2> HIDE DEF r, s
  <2>3. s <= MaxHeld  BY <2>1, <2>2, Bounds
  <2> QED BY <2>3 DEF s
<1> QED BY <1>1, <1>3, <1>7, <1>8, ReferStep DEF m
-----------------------------------------------------------------------------
(* What the invariant says *)

\* The blocks of the vector.
LEMMA InvBlocks ==
  ASSUME IInv
  PROVE  \E view : /\ Represents(Memory, view) /\ Splits(view, vec)
                   /\ Len(view) = Len(d_buckets) /\ DOMAIN d_buckets = 1..Len(view)
PROOF
<1>1. PICK view : Represents(Memory, view) /\ Splits(view, vec)  BY DEF IInv, Holds
<1>2. Memory.buckets = d_buckets /\ DOMAIN d_buckets = 1..Len(d_buckets)  BY InvFacts
<1>3. Len(view) = Len(d_buckets)  BY <1>1, <1>2, MemoryFacts
<1> QED BY <1>1, <1>2, <1>3

LEMMA InvType == ASSUME IInv PROVE TypeOK
PROOF
<1> DEFINE m == Memory
<1>1. PICK view : /\ Represents(m, view) /\ Splits(view, vec)
                  /\ Len(view) = Len(d_buckets) /\ DOMAIN d_buckets = 1..Len(view)
  BY InvBlocks
<1>2. m.buckets = d_buckets /\ m.contexts = d_contexts /\ m.live = live  BY DEF Memory
<1> HIDE DEF m
<1>3. IsMemory(m) /\ \A b \in 1..Len(view) : view[b] \in Seq(Values) /\ Len(view[b]) \in 0..BlockSize
  BY <1>1, MemoryFacts
<1>4. ASSUME NEW b \in DOMAIN d_buckets
      PROVE  d_buckets[b] \in [raw : DOMAIN d_contexts \union {NoContext}, compressed : Blocks, refs : 0..MaxHeld]
  <2> DEFINE k == d_buckets[b]
  <2>1. b \in 1..Len(view)  BY <1>1
  <2>2. k \in Bucket /\ (k.raw # NoContext => k.raw \in DOMAIN d_contexts)
    BY <1>1, <1>2, <2>1, BucketFacts
  <2>3. k.refs \in 0..MaxHeld  BY <1>1, <2>1, InvFacts
  <2> HIDE DEF k
  <2>4. k.raw \in DOMAIN d_contexts \union {NoContext}  BY <2>2
  <2>5. k = [raw |-> k.raw, compressed |-> k.compressed, refs |-> k.refs] /\ k.compressed \in Blocks
    BY <2>2 DEF Bucket
  <2>6. k \in [raw : DOMAIN d_contexts \union {NoContext}, compressed : Blocks, refs : 0..MaxHeld]
    BY <2>3, <2>4, <2>5
  <2> QED BY <2>6 DEF k
<1>5. ASSUME NEW c \in DOMAIN d_contexts
      PROVE  /\ d_contexts[c].data \in Seq(Values) /\ Len(d_contexts[c].data) <= BlockSize
             /\ d_contexts[c].dirty \in BOOLEAN /\ d_contexts[c].buffer \in Blocks
             /\ d_contexts[c].block_index \in 0..Len(d_buckets)
  <2> DEFINE x == d_contexts[c]
             b == x.block_index
  <2>1. x \in Cell  BY <1>2, <1>3 DEF IsMemory
  <2>2. x.data \in Seq(Values) /\ x.dirty \in BOOLEAN /\ x.buffer \in Blocks /\ b \in Nat
    BY <2>1 DEF Cell
  <2>3. Len(x.data) <= BlockSize /\ b \in 0..Len(d_buckets)
    <3>1. CASE b = 0
      <4>1. x = EmptyContext  BY <1>1, <1>2, <3>1, EmptyFacts
      <4>2. Len(x.data) = 0  BY <4>1 DEF EmptyContext
      <4>3. b \in 0..Len(d_buckets)  BY <3>1, InvFacts
      <4> QED BY <4>2, <4>3, Constants
    <3>2. CASE b # 0
      <4>1. b \in 1..Len(view) /\ Shows(x.data, view[b])  BY <1>1, <1>2, <3>2, ContextFacts
      <4>2. Len(x.data) = Len(view[b])  BY <4>1 DEF Shows
      <4>3. Len(view[b]) \in 0..BlockSize  BY <1>3, <4>1
      <4>4. Len(x.data) <= BlockSize  BY <4>2, <4>3, Constants
      <4>5. b \in 0..Len(d_buckets)  BY <1>1, <4>1
      <4> QED BY <4>4, <4>5
    <3> QED BY <3>1, <3>2
  <2> QED BY <2>2, <2>3
<1>6. d_size \in 0..MaxSize  BY InvFacts
<1>7. live \in Nat
  <2>1. m.live = Cardinality(Buffered(m))  BY <1>1 DEF Represents
  <2> QED BY <1>2, <1>3, <2>1, BufferedFinite
<1> QED BY <1>4, <1>5, <1>6, <1>7 DEF TypeOK

LEMMA InvLinks == ASSUME IInv PROVE ContextsAreLinked
PROOF
<1> DEFINE m == Memory
<1>1. PICK view : /\ Represents(m, view) /\ Splits(view, vec)
                  /\ Len(view) = Len(d_buckets) /\ DOMAIN d_buckets = 1..Len(view)
  BY InvBlocks
<1>2. m.buckets = d_buckets /\ m.contexts = d_contexts  BY DEF Memory
<1> HIDE DEF m
<1>3. ASSUME NEW b \in DOMAIN d_buckets, d_buckets[b].raw # NoContext
      PROVE  d_contexts[d_buckets[b].raw].block_index = b
  <2>1. b \in 1..Len(view)  BY <1>1
  <2> QED BY <1>1, <1>2, <1>3, <2>1, BucketFacts
<1>4. ASSUME NEW c \in DOMAIN d_contexts, d_contexts[c].block_index = 0
      PROVE  d_contexts[c] = EmptyContext
  BY <1>1, <1>2, <1>4, EmptyFacts
<1>5. ASSUME NEW c \in DOMAIN d_contexts, d_contexts[c].block_index # 0
      PROVE  d_buckets[d_contexts[c].block_index].raw = c
  BY <1>1, <1>2, <1>5, ContextFacts
<1> QED BY <1>3, <1>4, <1>5 DEF ContextsAreLinked

\* What a bucket has is shown in its block.
LEMMA ValuesShow ==
  ASSUME NEW m, NEW view, Represents(m, view), NEW b \in 1..Len(view)
  PROVE  Shows(ValuesOf(m, b), view[b])
PROOF
<1>1. CASE m.buckets[b].raw = NoContext
  <2>1. Shows(m.buckets[b].compressed, view[b])  BY <1>1, BucketFacts
  <2> QED BY <1>1, <2>1 DEF ValuesOf, RawOf
<1>2. CASE m.buckets[b].raw # NoContext
  <2>1. Shows(m.contexts[m.buckets[b].raw].data, view[b])  BY <1>2, BucketFacts
  <2> QED BY <1>2, <2>1 DEF ValuesOf, RawOf
<1> QED BY <1>1, <1>2

LEMMA InvBack == ASSUME IInv PROVE OnlyBackIsPartial
PROOF
<1> DEFINE m == Memory
           w == vec
<1>1. PICK view : /\ Represents(m, view) /\ Splits(view, w)
                  /\ Len(view) = Len(d_buckets) /\ DOMAIN d_buckets = 1..Len(view)
  BY InvBlocks
<1>2. Len(w) = d_size  BY InvFacts
<1> HIDE DEF m, w
<1>3. ASSUME NEW b \in DOMAIN d_buckets
      PROVE  Len(ValuesOf(m, b)) = IF b < Len(d_buckets) THEN BlockSize ELSE PosOf(d_size)
  <2>1. b \in 1..Len(view)  BY <1>1
  <2>2. Len(ValuesOf(m, b)) = Len(view[b])  BY <1>1, <2>1, ValuesShow DEF Shows
  <2>3. Len(view[b]) = IF b < Len(view) THEN BlockSize ELSE PosOf(Len(w))
    BY <1>1, <2>1 DEF Splits
  <2> QED BY <1>1, <1>2, <2>2, <2>3
<1> QED BY <1>3 DEF OnlyBackIsPartial, m

LEMMA InvSaved == ASSUME IInv, NeverThrows PROVE CleanIsSaved
PROOF
<1> DEFINE m == Memory
<1>1. PICK view : Represents(m, view)  BY InvBlocks
<1>2. m.contexts = d_contexts  BY DEF Memory
<1> HIDE DEF m
<1>3. ASSUME NEW c \in DOMAIN d_contexts
      PROVE  d_contexts[c].dirty \/ d_contexts[c].buffer = d_contexts[c].data
  <2> DEFINE x == d_contexts[c]
  <2>1. CASE x.block_index = 0
    <3>1. x = EmptyContext  BY <1>1, <1>2, <2>1, EmptyFacts
    <3> QED BY <3>1 DEF EmptyContext, Null
  <2>2. CASE x.block_index # 0
    <3>1. x.dirty \/ Saved(x)  BY <1>1, <1>2, <2>2, ContextFacts
    <3> QED BY <3>1 DEF Saved
  <2> QED BY <2>1, <2>2
<1> QED BY <1>3 DEF CleanIsSaved

LEMMA InvOwned == ASSUME IInv PROVE BuffersAreOwned
PROOF
<1> DEFINE m == Memory
<1>1. PICK view : Represents(m, view)  BY InvBlocks
<1>2. m.live = Cardinality(Buffered(m))  BY <1>1 DEF Represents
<1>3. m.live = live /\ m.buckets = d_buckets  BY DEF Memory
<1> HIDE DEF m
<1>4. live = Cardinality({b \in DOMAIN d_buckets : FindCompressed(m, b) # Null})
  BY <1>2, <1>3 DEF Buffered
<1> QED BY <1>4 DEF BuffersAreOwned, m

LEMMA InvShrinks == ASSUME IInv PROVE ShrinkLeavesOneContext
PROOF
<1> DEFINE k == Shrunk(Memory)
<1>1. Holds(Memory, vec)  BY DEF IInv
<1>2. k = Shrunk(Memory)  OBVIOUS
<1> HIDE DEF k
<1>3. Len(k.order) <= 1  BY <1>1, <1>2, ShrunkHolds
<1> QED BY <1>3 DEF ShrinkLeavesOneContext, k

LEMMA InvVector == ASSUME IInv, NeverThrows PROVE IsAVector
PROOF
<1> DEFINE m == Memory
           f == [b \in DOMAIN d_buckets |-> ValuesOf(m, b)]
<1>1. PICK view : /\ Represents(m, view) /\ Splits(view, vec)
                  /\ Len(view) = Len(d_buckets) /\ DOMAIN d_buckets = 1..Len(view)
  BY InvBlocks
<1>2. m.buckets = d_buckets  BY InvFacts
<1>3. Contents(m) = FlattenSeq(f)  BY <1>2 DEF Contents
<1>4. d_size = Len(vec)  BY InvFacts
<1>5. view \in Seq(Seq(Values)) /\ Len(view) \in Nat  BY <1>1, MemoryFacts
<1>6. f = view
  <2> DEFINE N == Len(view)
  <2>1. ASSUME NEW b \in 1..N PROVE f[b] = view[b]
    <3>1. Shows(ValuesOf(m, b), view[b])  BY <1>1, ValuesShow
    <3>2. ValuesOf(m, b) = view[b]  BY <3>1 DEF Shows
    <3> QED BY <1>1, <3>2
  <2>2. f = [b \in 1..N |-> f[b]]  BY <1>1
  <2>3. view = [b \in 1..N |-> view[b]]  BY <1>5
  <2> HIDE DEF f, N
  <2> QED BY <2>1, <2>2, <2>3
<1>7. FlattenSeq(view) = vec  BY <1>1, FlattenSplits
<1> QED BY <1>3, <1>4, <1>6, <1>7 DEF IsAVector

-----------------------------------------------------------------------------
(* The theorems *)

LEMMA NextStep ==
  ASSUME IInv, Next
  PROVE  IInv' /\ (Stays \/ ShrinkToFit \/ Serialize)
PROOF
<1>1. CASE PopBack  BY <1>1, PopBackStep
<1>2. CASE Clear  BY <1>2, ClearStep
<1>3. CASE ShrinkToFit  BY <1>3, ShrinkToFitStep
<1>4. CASE Serialize  BY <1>4, SerializeStep
<1>5. CASE Reload  BY <1>5, ReloadStep
<1>6. CASE \E v \in Values : PushBack(v) \/ \E n \in 1..MaxSize : Grow(n, v)
  BY <1>6, PushBackStep, GrowStep
<1>7. CASE \E n \in 1..MaxSize : Shrink(n)  BY <1>7, ShrinkStepHolds
<1>8. CASE \E i \in Index \intersect Places : Get(i) \/ \E v \in Values : Set(i, v)
  BY <1>8, GetStep, SetStep
<1>9. CASE \E i, j \in Index \intersect Places : Assign(i, j) \/ Swap(i, j)
  BY <1>9, AssignStep, SwapStep
<1>10. CASE \E first \in Index \intersect Places, backward \in BOOLEAN :
              \E last \in first..d_size :
                \/ \E v \in Values, thrown \in Throws : ForEach(first, last, v, backward, thrown)
                \/ \E stopped \in BOOLEAN : Inspect(first, last, backward, stopped)
  <2>1. PICK first \in Index, backward \in BOOLEAN :
           \E last \in first..d_size :
             \/ \E v \in Values, thrown \in Throws : ForEach(first, last, v, backward, thrown)
             \/ \E stopped \in BOOLEAN : Inspect(first, last, backward, stopped)
    BY <1>10
  <2>2. PICK last \in first..d_size :
           \/ \E v \in Values, thrown \in Throws : ForEach(first, last, v, backward, thrown)
           \/ \E stopped \in BOOLEAN : Inspect(first, last, backward, stopped)
    BY <2>1
  <2> QED BY <2>2, ForEachStep, InspectStep
<1>11. CASE \E b \in DOMAIN d_buckets : Hold(b) \/ Drop(b)  BY <1>11, HoldStep, DropStepHolds
<1> QED BY <1>1, <1>2, <1>3, <1>4, <1>5, <1>6, <1>7, <1>8, <1>9, <1>10, <1>11 DEF Next

LEMMA StutterStep ==
  ASSUME IInv, UNCHANGED vars
  PROVE  IInv'
PROOF
<1>1. /\ d_buckets' = d_buckets /\ d_contexts' = d_contexts /\ d_size' = d_size
      /\ live' = live /\ vec' = vec
  BY DEF vars
<1>2. Memory' = Memory  BY <1>1 DEF Memory
<1> QED BY <1>1, <1>2 DEF IInv

\* The memory of the vector, its buckets and its contexts, always holds the values that
\* the same operations give to a vector, as size() says, and its wrappers are counted.
THEOREM Invariant == Spec => []IInv
PROOF
<1>1. IInv /\ [Next]_vars => IInv'  BY NextStep, StutterStep
<1> QED BY <1>1, InitHolds, PTL DEF Spec

\* The buckets, the contexts and the counters of the vector take the values of their
\* types only, and no bucket points to a context that was freed.
THEOREM Typed == Spec => []TypeOK
PROOF
<1>1. IInv => TypeOK  BY InvType
<1> QED BY <1>1, Invariant, PTL

\* A decompressed bucket and its context refer to each other, after every operation:
\* unlink, reset, make_or_find_free_context and erase_context never leave one behind.
THEOREM Linked == Spec => []ContextsAreLinked
PROOF
<1>1. IInv => ContextsAreLinked  BY InvLinks
<1> QED BY <1>1, Invariant, PTL

\* Only the last bucket is partial, and it is not empty: at() and for_each find a value
\* by its position alone.
THEOREM BackIsPartial == Spec => []OnlyBackIsPartial
PROOF
<1>1. IInv => OnlyBackIsPartial  BY InvBack
<1> QED BY <1>1, Invariant, PTL

\* If no functor throws, a context that is not dirty can be given to another bucket
\* without being compressed.
THEOREM Clean == ASSUME NeverThrows PROVE Spec => []CleanIsSaved
PROOF
<1>1. IInv => CleanIsSaved  BY InvSaved
<1> QED BY <1>1, Invariant, PTL

\* Every compressed buffer belongs to one bucket: none is lost, none is freed twice.
THEOREM Owned == Spec => []BuffersAreOwned
PROOF
<1>1. IInv => BuffersAreOwned  BY InvOwned
<1> QED BY <1>1, Invariant, PTL

\* shrink_to_fit would leave one context at most, in every state of the vector.
THEOREM ShrinksToOne == Spec => []ShrinkLeavesOneContext
PROOF
<1>1. IInv => ShrinkLeavesOneContext  BY InvShrinks
<1> QED BY <1>1, Invariant, PTL

\* If no functor throws, the compressed vector is a vector, whatever was compressed,
\* decompressed or taken in between.
THEOREM VectorIsKept == ASSUME NeverThrows PROVE Spec => []IsAVector
PROOF
<1>1. IInv => IsAVector  BY InvVector
<1> QED BY <1>1, Invariant, PTL

\* A bucket that a wrapper refers to keeps its context, except in shrink_to_fit and
\* serialize, and when it is the full back bucket and another is added.
THEOREM HeldContexts == Spec => HeldContextStays
PROOF
<1> DEFINE A == \/ \A b \in DOMAIN d_buckets \intersect DOMAIN d_buckets' :
                     \/ d_buckets[b].refs = 0 \/ d_buckets[b].raw = NoContext
                     \/ b = Len(d_buckets) /\ Len(d_buckets') > b
                     \/ d_buckets'[b].raw # NoContext
                \/ ShrinkToFit \/ Serialize
<1>1. Stays => A  BY DEF Stays
<1>2. IInv /\ Next => A  BY <1>1, NextStep
<1>3. IInv /\ [Next]_vars => [A]_vars  BY <1>2
<1> HIDE DEF A
<1>4. Spec => [][A]_vars  BY <1>3, Invariant, PTL DEF Spec
<1> QED BY <1>4 DEF A, HeldContextStays
-----------------------------------------------------------------------------
(* The content of the vector is a vector *)

\* The vector that can be read from the buckets and the contexts.
Content == INSTANCE CVectorSpec WITH Values <- Values, MaxSize <- MaxSize, vec <- Contents(Memory)

\* Every operation is one of a vector, or leaves its values.
LEMMA VectorStep ==
  ASSUME IInv, Next
  PROVE  Vector!Next \/ vec' = vec
PROOF
<1>0. /\ vec \in Seq(Values) /\ DOMAIN vec = 1..d_size /\ d_size \in 0..MaxSize
      /\ Index = DOMAIN vec /\ MaxSize \in Nat
  <2>1. vec \in Seq(Values) /\ Len(vec) = d_size /\ d_size \in 0..MaxSize  BY InvFacts
  <2> QED BY <2>1, Bounds DEF Index
<1>1. CASE PopBack  BY <1>1 DEF PopBack, Vector!Next
<1>2. CASE Clear  BY <1>2 DEF Clear, Vector!Next
<1>3. CASE ShrinkToFit \/ Serialize \/ Reload  BY <1>3 DEF ShrinkToFit, Serialize, Reload
<1>4. CASE \E v \in Values : PushBack(v) \/ \E n \in 1..MaxSize : Grow(n, v)
  BY <1>4 DEF PushBack, Grow, Vector!Next
<1>5. CASE \E n \in 1..MaxSize : Shrink(n)
  <2>1. PICK n \in 1..MaxSize : Shrink(n)  BY <1>5
  <2>2. n <= MaxSize /\ vec' = Vector!Resized(n, vec[1]) /\ n < d_size  BY <2>1 DEF Shrink
  <2>3. vec[1] \in Values
    <3>1. 1 \in DOMAIN vec  BY <1>0, <2>2
    <3> QED BY <1>0, <3>1
  <2>4. Vector!Resize(n, vec[1])  BY <2>2 DEF Vector!Resize
  <2> QED BY <2>3, <2>4 DEF Vector!Next
<1>6. CASE \E i \in Index \intersect Places : Get(i) \/ \E v \in Values : Set(i, v)
  BY <1>0, <1>6 DEF Get, Set, Vector!Next
<1>7. CASE \E i, j \in Index \intersect Places : Assign(i, j) \/ Swap(i, j)
  BY <1>0, <1>7 DEF Assign, Swap, Vector!Next
<1>8. CASE \E first \in Index \intersect Places, backward \in BOOLEAN :
             \E last \in first..d_size :
               \/ \E v \in Values, thrown \in Throws : ForEach(first, last, v, backward, thrown)
               \/ \E stopped \in BOOLEAN : Inspect(first, last, backward, stopped)
  <2>1. PICK first \in Index, backward \in BOOLEAN :
           \E last \in first..d_size :
             \/ \E v \in Values, thrown \in Throws : ForEach(first, last, v, backward, thrown)
             \/ \E stopped \in BOOLEAN : Inspect(first, last, backward, stopped)
    BY <1>8
  <2>2. PICK last \in first..d_size :
           \/ \E v \in Values, thrown \in Throws : ForEach(first, last, v, backward, thrown)
           \/ \E stopped \in BOOLEAN : Inspect(first, last, backward, stopped)
    BY <2>1
  <2>3. first \in DOMAIN vec /\ last \in DOMAIN vec  BY <1>0
  <2>4. (\E v \in Values : Vector!Fill(first, last, v)) \/ vec' = vec
    BY <2>2 DEF ForEach, Inspect
  <2> QED BY <2>3, <2>4 DEF Vector!Next
<1>9. CASE \E b \in DOMAIN d_buckets : Hold(b) \/ Drop(b)  BY <1>9 DEF Hold, Drop
<1> QED BY <1>1, <1>2, <1>3, <1>4, <1>5, <1>6, <1>7, <1>8, <1>9 DEF Next

\* The compressed vector implements a vector: if no functor throws, what can be read
\* from the buckets and the contexts changes by the steps of a vector only.
THEOREM Implements == ASSUME NeverThrows PROVE Spec => Content!Spec
PROOF
<1>1. IInv => Contents(Memory) = vec  BY InvVector DEF IsAVector
<1>2. Init => Content!Init
  <2>1. Init => vec = <<>>  BY DEF Init, Vector!Init
  <2> QED BY <1>1, <2>1, InitHolds DEF Content!Init
<1>3. (Contents(Memory) = vec) /\ (Contents(Memory) = vec)' /\ (Vector!Next \/ vec' = vec)
        => [Content!Next]_(Contents(Memory))
  <2> DEFINE c == Contents(Memory)
  <2> SUFFICES ASSUME c = vec, c' = vec', Vector!Next \/ vec' = vec
               PROVE  Content!Next \/ c' = c
    OBVIOUS
  <2> HIDE DEF c
  <2>1. CASE Vector!PopBack
    <3>1. Content!PopBack  BY <2>1 DEF Vector!PopBack, Content!PopBack, c
    <3> QED BY <3>1 DEF Content!Next
  <2>2. CASE Vector!Clear
    <3>1. Content!Clear  BY <2>2 DEF Vector!Clear, Content!Clear, c
    <3> QED BY <3>1 DEF Content!Next
  <2>3. ASSUME NEW v \in Values, Vector!PushBack(v) PROVE Content!Next
    <3>1. Content!PushBack(v)  BY <2>3 DEF Vector!PushBack, Content!PushBack, c
    <3> QED BY <3>1 DEF Content!Next
  <2>4. ASSUME NEW v \in Values, NEW n \in 1..MaxSize, Vector!Resize(n, v) PROVE Content!Next
    <3>1. Content!Resize(n, v)
      BY <2>4 DEF Vector!Resize, Content!Resize, Vector!Resized, Content!Resized, c
    <3> QED BY <3>1 DEF Content!Next
  <2>5. ASSUME NEW v \in Values, NEW first \in DOMAIN vec, NEW last \in DOMAIN vec,
               Vector!Fill(first, last, v)
        PROVE  Content!Next
    <3>1. Content!Fill(first, last, v)  BY <2>5 DEF Vector!Fill, Content!Fill, c
    <3>2. first \in DOMAIN Contents(Memory) /\ last \in DOMAIN Contents(Memory)  BY DEF c
    <3> QED BY <3>1, <3>2 DEF Content!Next
  <2>6. ASSUME NEW i \in DOMAIN vec, NEW j \in DOMAIN vec, Vector!Assign(i, j) \/ Vector!Swap(i, j)
        PROVE  Content!Next
    <3>1. Content!Assign(i, j) \/ Content!Swap(i, j)
      BY <2>6 DEF Vector!Assign, Content!Assign, Vector!Swap, Content!Swap, c
    <3>2. i \in DOMAIN Contents(Memory) /\ j \in DOMAIN Contents(Memory)  BY DEF c
    <3> QED BY <3>1, <3>2 DEF Content!Next
  <2> QED BY <2>1, <2>2, <2>3, <2>4, <2>5, <2>6 DEF Vector!Next
<1>4. IInv /\ [Next]_vars => Vector!Next \/ vec' = vec  BY VectorStep DEF vars
<1> QED BY <1>1, <1>2, <1>3, <1>4, Invariant, PTL DEF Spec, Content!Spec
===============================================================================

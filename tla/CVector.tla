-------------------------------- MODULE CVector --------------------------------
(***************************************************************************)
(* The compressed vector, used by one thread.  Its values are in buckets   *)
(* of BlockSize values; a bucket is compressed (a buffer), or decompressed *)
(* in a context (RawBuffer) that may keep the compressed buffer it came    *)
(* from.  A few contexts serve all buckets: to decompress one, the code    *)
(* takes a context from a bucket nobody holds a reference to, the oldest   *)
(* first, after compressing what was modified in it.                       *)
(*                                                                         *)
(* A buffer is the values it decompresses to, Stale those its context had  *)
(* before a value was modified in it, Null is no buffer.  An               *)
(* operation is a function from memory to memory, and an action of the     *)
(* vector makes its memory that of the operation.  Buckets and values are  *)
(* numbered from 1: block_index 0 stands for invalid_index.                *)
(*                                                                         *)
(* emplace, insert, erase, assign, the copies and const_for_each are       *)
(* sequences of these operations.  No allocation fails.                    *)
(***************************************************************************)
EXTENDS Integers, FiniteSetsExt, SequencesExt, Functions

CONSTANTS
  Values,
  BlockSize,      \* values of a bucket: 256 << Shift
  ContextRatio,   \* 16: find_free_context frees a context when there is more than
                  \* one for this number of buckets
  MaxSize,        \* bound: values of the vector
  MaxHeld,        \* bound: reference wrappers the user keeps at a time
  Places,         \* bound: places read and written one by one, or first of a range
  Throws          \* subset of BOOLEAN: whether a functor of for_each throws

ASSUME CVectorAssumption ==
  /\ {BlockSize, ContextRatio} \subseteq Nat \ {0}
  /\ {MaxSize, MaxHeld} \subseteq Nat /\ Places \subseteq Nat
  /\ Throws \subseteq BOOLEAN

VARIABLES
  d_buckets,    \* PackBuffers: a raw context or a compressed buffer, and ref_count
  d_contexts,   \* the list of RawBuffers, the last one used first
  d_size,
  live,         \* compressed buffers allocated and not yet freed
  vec           \* the values a vector would hold after the same operations

vars == <<d_buckets, d_contexts, d_size, live, vec>>

Vector == INSTANCE CVectorSpec WITH Values <- Values, MaxSize <- MaxSize, vec <- vec

NoContext == 0
Null      == <<>>
Stale     == <<"stale">>

\* A RawBuffer after reset().
EmptyContext == [data |-> <<>>, dirty |-> FALSE, block_index |-> 0, buffer |-> Null]

\* During an operation contexts have names and move in the list, order.  Between two
\* operations a pointer to a context is its place in the list.
Memory == [buckets |-> d_buckets, contexts |-> d_contexts,
           order |-> [p \in DOMAIN d_contexts |-> p], size |-> d_size, live |-> live]

\* The place of a context; a pointer to a freed one leads past the end of the list.
PlaceOf(m, c) ==
  IF c = NoContext THEN NoContext
  ELSE Min({p \in DOMAIN m.order : m.order[p] = c} \union {Len(m.order) + 1})

\* The list without a context.
Without(m, c) == RemoveAt(m.order, PlaceOf(m, c))

Become(m) ==
  /\ d_buckets' = [b \in DOMAIN m.buckets |-> [m.buckets[b] EXCEPT !.raw = PlaceOf(m, @)]]
  /\ d_contexts' = [p \in DOMAIN m.order |-> m.contexts[m.order[p]]]
  /\ d_size' = m.size /\ live' = m.live

Init == /\ d_buckets = <<>> /\ d_contexts = <<>>
        /\ d_size = 0 /\ live = 0
        /\ Vector!Init

-----------------------------------------------------------------------------
(* Buckets and their buffers *)

BucketOf(i) == (i - 1) \div BlockSize + 1
PosOf(i)    == ((i - 1) % BlockSize) + 1

RawOf(m, b) == m.buckets[b].raw

FindCompressed(m, b) ==
  IF RawOf(m, b) = NoContext THEN m.buckets[b].compressed ELSE m.contexts[RawOf(m, b)].buffer

ValuesOf(m, b) ==
  IF RawOf(m, b) = NoContext THEN m.buckets[b].compressed ELSE m.contexts[RawOf(m, b)].data

Contents(m) == FlattenSeq([b \in DOMAIN m.buckets |-> ValuesOf(m, b)])

\* allocate_buffer_for_compression when the size changes, the old buffer otherwise.
Compress(m, c) ==
  [m EXCEPT !.contexts[c].buffer = m.contexts[c].data,
            !.live = IF m.contexts[c].buffer = Null THEN @ + 1 ELSE @]

CompressIfDirty(m, c) == IF m.contexts[c].dirty THEN Compress(m, c) ELSE m

\* The bucket of a context keeps its compressed buffer only.
Unlink(m, c) ==
  LET b == m.contexts[c].block_index
  IN  IF b = 0 THEN m
      ELSE [m EXCEPT !.buckets[b].raw = NoContext,
                     !.buckets[b].compressed = m.contexts[c].buffer]

Reset(m, c) == [m EXCEPT !.contexts[c] = EmptyContext]

\* Mutant of Release: the context that is given back still names its bucket.
ReleaseWithoutReset(m, c) == Unlink(m, c)

Release(m, c) == Reset(Unlink(m, c), c)

EraseContext(m, c) ==
  [m EXCEPT !.order = Without(m, c), !.contexts = Restrict(@, DOMAIN @ \ {c})]

\* RawBuffer::mark_dirty(): the buffer of the old values stays.
MarkDirty(m, c) ==
  [m EXCEPT !.contexts[c].dirty = TRUE, !.contexts[c].buffer = IF @ = Null THEN Null ELSE Stale]

\* RawBuffer::mark_dirty(vec): dealloc_bucket frees the buffer of the old values.
MarkDirtyAndFree(m, c) ==
  LET n == MarkDirty(m, c)
  IN  IF m.contexts[c].block_index = 0 \/ m.contexts[c].buffer = Null THEN n
      ELSE [n EXCEPT !.contexts[c].buffer = Null, !.live = @ - 1]

DeallocateBuffer(m, b) ==
  IF FindCompressed(m, b) = Null THEN m
  ELSE IF RawOf(m, b) = NoContext
  THEN [m EXCEPT !.buckets[b].compressed = Null, !.live = @ - 1]
  ELSE [m EXCEPT !.contexts[RawOf(m, b)].buffer = Null, !.live = @ - 1]

-----------------------------------------------------------------------------
(* Contexts.  A context that is made or found is the first of the list. *)

NewContext(m) ==
  LET c == CHOOSE c \in 1..(Cardinality(DOMAIN m.contexts) + 1) : c \notin DOMAIN m.contexts
  IN  [m EXCEPT !.order = <<c>> \o @,
                !.contexts = [k \in DOMAIN @ \union {c} |-> IF k = c THEN EmptyContext ELSE @[k]]]

\* Mutant of TryLock: the context is taken without asking who refers to its bucket.
TryLockWithoutCount(m, c) == TRUE

\* try_lock: nobody holds a reference to the bucket of the context.
TryLock(m, c) ==
  LET b == m.contexts[c].block_index IN b = 0 \/ m.buckets[b].refs = 0

\* Mutant of LockedContext: the context of the partial back bucket is taken too.
LockedContextOfAnySize(m, exclude, before) ==
  LET found == {p \in 1..(before - 1) : m.order[p] # exclude /\ TryLock(m, m.order[p])}
  IN  IF found = {} THEN 0 ELSE Max(found)

\* get_locked_context: the oldest context before a place of the list, 0 if none.
LockedContext(m, exclude, before) ==
  LET found == {p \in 1..(before - 1) :
                  /\ Len(m.contexts[m.order[p]].data) \in {0, BlockSize}
                  /\ m.order[p] # exclude
                  /\ TryLock(m, m.order[p])}
  IN  IF found = {} THEN 0 ELSE Max(found)

\* A context is compressed if necessary, and erased.
EraseSaved(m, c) == EraseContext(Release(CompressIfDirty(m, c), c), c)

\* Mutant of FreeAnother: the other context is freed without being compressed.
FreeAnotherUncompressed(m, p) ==
  IF p = 0 \/ Len(m.order) <= Len(m.buckets) \div ContextRatio THEN m
  ELSE EraseContext(Release(m, m.order[p]), m.order[p])

\* "Use this opportunity to free another context if possible": that at place p.
FreeAnother(m, p) ==
  IF p = 0 \/ Len(m.order) <= Len(m.buckets) \div ContextRatio THEN m
  ELSE EraseSaved(m, m.order[p])

SaveContext(m, exclude, p) ==
  IF m.contexts[m.order[p]].dirty
  THEN FreeAnother(Compress(m, m.order[p]), LockedContext(m, exclude, p))
  ELSE m

TakeContext(m, c) == Release([m EXCEPT !.order = <<c>> \o Without(m, c)], c)

FindFreeContextAt(m, exclude, p) ==
  IF p = 0 THEN NewContext(m) ELSE TakeContext(SaveContext(m, exclude, p), m.order[p])

FindFreeContext(m, exclude) ==
  FindFreeContextAt(m, exclude, LockedContext(m, exclude, Len(m.order) + 1))

MakeOrFindFreeContext(m, exclude) ==
  IF Len(m.order) >= 2 THEN FindFreeContext(m, exclude) ELSE NewContext(m)

\* The first context of the list receives bucket b.
DecompressFirst(m, b) ==
  LET c == Head(m.order)
      buffer == m.buckets[b].compressed
  IN  [m EXCEPT !.contexts[c] = [data |-> buffer, dirty |-> FALSE, block_index |-> b, buffer |-> buffer],
                !.buckets[b].raw = c, !.buckets[b].compressed = Null]

DecompressBucket(m, b, exclude) ==
  IF RawOf(m, b) # NoContext THEN m ELSE DecompressFirst(MakeOrFindFreeContext(m, exclude), b)

-----------------------------------------------------------------------------
(* The back of the vector *)

AppendBucket(m, c) ==
  [m EXCEPT !.buckets = Append(@, [raw |-> c, compressed |-> Null, refs |-> 0]),
            !.contexts[c] = [@ EXCEPT !.dirty = TRUE, !.block_index = Len(m.buckets) + 1]]

NewBackBucket(m) == AppendBucket(m, Head(m.order))

\* A full back bucket is compressed and gives its context to the new one, whether
\* or not a wrapper refers to it.
EnsureHasBackBucket(m) ==
  LET n == Len(m.buckets)
      c == RawOf(m, n)
  IN  IF n = 0 \/ (n > 0 /\ c = NoContext) THEN NewBackBucket(MakeOrFindFreeContext(m, NoContext))
      ELSE IF Len(m.contexts[c].data) = BlockSize THEN AppendBucket(Release(Compress(m, c), c), c)
      ELSE m

BackHasRoom(m) ==
  LET n == Len(m.buckets)
  IN  n > 0 /\ FindCompressed(m, n) = Null /\ Len(m.contexts[RawOf(m, n)].data) < BlockSize

AppendValue(m, v) ==
  [m EXCEPT !.contexts[RawOf(m, Len(m.buckets))].data = Append(@, v), !.size = @ + 1]

EmplaceBack(m, v) == AppendValue(IF BackHasRoom(m) THEN m ELSE EnsureHasBackBucket(m), v)

DropBackBucket(m) == [m EXCEPT !.buckets = Front(@)]

\* An empty back bucket is removed, and its context kept.
DropIfEmpty(m, c) ==
  IF m.contexts[c].data # <<>> THEN m
  ELSE DropBackBucket(Reset(DeallocateBuffer(m, Len(m.buckets)), c))

RemoveValue(m, c) ==
  DropIfEmpty([MarkDirtyAndFree(m, c) EXCEPT !.contexts[c].data = Front(@), !.size = @ - 1], c)

RemoveLast(m) == RemoveValue(m, RawOf(m, Len(m.buckets)))

\* The first test of pop_back, for an empty back bucket, never holds: OnlyBackIsPartial.
RemoveBack(m) == RemoveLast(DecompressBucket(m, Len(m.buckets), NoContext))

\* Mutant of RemoveBackBucket: the compressed buffer is left behind.
RemoveBackBucketOnly(m) ==
  LET c == RawOf(m, Len(m.buckets))
      freed == IF c = NoContext THEN m ELSE EraseContext(m, c)
  IN  [DropBackBucket(freed) EXCEPT !.size = @ - BlockSize]

\* resize_shrink, for a whole bucket.
RemoveBackBucket(m) ==
  LET last == Len(m.buckets)
      c == RawOf(m, last)
      n == DeallocateBuffer(m, last)
      freed == IF c = NoContext THEN n ELSE EraseContext(n, c)
  IN  [DropBackBucket(freed) EXCEPT !.size = @ - BlockSize]

\* A whole bucket that was never decompressed.
AppendCompressed(m, block) ==
  [m EXCEPT !.buckets = Append(@, [raw |-> NoContext, compressed |-> block, refs |-> 0]),
            !.live = @ + 1, !.size = @ + BlockSize]

Repeat(Op(_), m, n) == FoldLeft(LAMBDA acc, i : Op(acc), m, [i \in 1..n |-> i])

DivUp(a, b) == IF a <= 0 THEN 0 ELSE (a + b - 1) \div b

PushValues(m, n, v) == LET Push(acc) == EmplaceBack(acc, v) IN Repeat(Push, m, n)

PushUpTo(m, n, v) == PushValues(m, n - m.size, v)

AppendWhole(m, n, v) ==
  LET Whole(acc) == AppendCompressed(acc, [i \in 1..BlockSize |-> v])
  IN  Repeat(Whole, m, DivUp(n - BlockSize - m.size, BlockSize))

\* The back bucket is filled, then whole buckets are compressed at once, and the
\* last ones, up to a whole bucket, are pushed.
ResizeGrow(m, n, v) ==
  PushUpTo(AppendWhole(PushValues(m, Min({n - m.size, (-m.size) % BlockSize}), v), n, v), n, v)

PopBacks(m, n) == Repeat(RemoveBack, m, n)

DropBuckets(m, n) ==
  IF m.size <= BlockSize THEN m
  ELSE Repeat(RemoveBackBucket, m, DivUp(m.size - n - BlockSize, BlockSize))

PopDownTo(m, n) == PopBacks(m, m.size - n)

\* Values are popped up to a whole bucket, whole buckets are dropped as long as more
\* than one is in excess, and the rest is popped.
ResizeShrink(m, n) ==
  PopDownTo(DropBuckets(PopBacks(m, Min({m.size - n, m.size % BlockSize})), n), n)

\* clear frees the contexts too, unless the vector is empty.
Cleared(m) ==
  IF m.size = 0 THEN m ELSE
  [buckets |-> <<>>, contexts |-> <<>>, order |-> <<>>, size |-> 0,
   live |-> m.live - Cardinality({b \in DOMAIN m.buckets : FindCompressed(m, b) # Null})]

-----------------------------------------------------------------------------
(* Values.  A wrapper holds a reference to its bucket while it exists. *)

Ref(m, b)   == [m EXCEPT !.buckets[b].refs = @ + 1]
Unref(m, b) == [m EXCEPT !.buckets[b].refs = @ - 1]

ValueAt(m, i) == ValuesOf(m, BucketOf(i))[PosOf(i)]

Write(m, i, v) == [m EXCEPT !.contexts[RawOf(m, BucketOf(i))].data[PosOf(i)] = v]

Read(m, i) == Unref(DecompressBucket(Ref(m, BucketOf(i)), BucketOf(i), NoContext), BucketOf(i))

WriteAndMark(m, i, v) == MarkDirty(Write(m, i, v), RawOf(m, BucketOf(i)))

SetValue(m, i, v) ==
  LET b == BucketOf(i)
  IN  Unref(WriteAndMark(DecompressBucket(Ref(m, b), b, NoContext), i, v), b)

\* Two wrappers at the same time: each bucket is decompressed without taking the
\* context of the other.
DecompressBoth(m, b, other) ==
  LET n == DecompressBucket(Ref(Ref(m, b), other), b, RawOf(m, other))
  IN  DecompressBucket(n, other, RawOf(n, b))

UnrefBoth(m, b, other) == Unref(Unref(m, b), other)

CopyValue(m, to, from) ==
  Write(MarkDirty(m, RawOf(m, BucketOf(to))), to, ValueAt(m, from))

AssignValue(m, to, from) ==
  LET b == BucketOf(to)
      other == BucketOf(from)
  IN  UnrefBoth(CopyValue(DecompressBoth(m, b, other), to, from), b, other)

MarkBoth(m, b, other) == MarkDirty(MarkDirty(m, RawOf(m, b)), RawOf(m, other))

\* Mutant of ExchangeValues: only the bucket of the first wrapper is marked.
ExchangeMarksOne(m, i, j) ==
  Write(Write(MarkDirty(m, RawOf(m, BucketOf(i))), i, ValueAt(m, j)), j, ValueAt(m, i))

ExchangeValues(m, i, j) ==
  Write(Write(MarkBoth(m, BucketOf(i), BucketOf(j)), i, ValueAt(m, j)), j, ValueAt(m, i))

SwapValues(m, i, j) ==
  LET b == BucketOf(i)
      other == BucketOf(j)
  IN  UnrefBoth(ExchangeValues(DecompressBoth(m, b, other), i, j), b, other)

\* The values of bucket b at some positions of the vector.
WriteAll(m, b, written, v) ==
  [m EXCEPT !.contexts[RawOf(m, b)].data =
     [p \in DOMAIN @ |-> IF (b - 1) * BlockSize + p \in written THEN v ELSE @[p]]]

LeaveBucket(m, b, ended) == IF ended THEN m ELSE MarkDirtyAndFree(m, RawOf(m, b))

\* for_each and for_each_backward, in one bucket: the functor gives v to the values
\* at some positions.  When it returns false or throws, mark_dirty is not reached.
Visit(m, b, written, v, ended) ==
  LeaveBucket(WriteAll(DecompressBucket(m, b, NoContext), b, written, v), b, ended)

\* The buckets of first..last, in order; ended: the functor ends the last one early.
VisitAll(m, first, last, written, v, backward, ended) ==
  LET up == [k \in 1..(BucketOf(last) - BucketOf(first) + 1) |-> BucketOf(first) + k - 1]
      visited == IF backward THEN Reverse(up) ELSE up
  IN  FoldLeft(LAMBDA acc, b : Visit(acc, b, written, v, ended /\ b = Last(visited)), m, visited)

-----------------------------------------------------------------------------
(* The whole vector *)

\* shrink_to_fit, for one context: a partial back bucket keeps its context, one more
\* context is kept if it is the first, the others are freed.
ShrinkContext(acc, c) ==
  LET partial == Len(acc.m.contexts[c].data) \in 1..(BlockSize - 1)
      n == Release(CompressIfDirty(acc.m, c), c)
  IN  IF partial THEN [acc EXCEPT !.kept = Append(@, c)]
      ELSE IF acc.kept = <<>> THEN [m |-> n, kept |-> <<c>>]
      ELSE [acc EXCEPT !.m = EraseContext(n, c)]

\* Mutant of Shrunk: the loop that removes empty contexts is left out.
ShrunkInOnePass(m) ==
  LET end == FoldLeft(ShrinkContext, [m |-> m, kept |-> <<>>], m.order)
  IN  [end.m EXCEPT !.order = end.kept]

\* An empty context kept before the partial one is erased.
Shrunk(m) ==
  LET end == FoldLeft(ShrinkContext, [m |-> m, kept |-> <<>>], m.order)
      n == [end.m EXCEPT !.order = end.kept]
  IN  IF Len(end.kept) <= 1 THEN n
      ELSE EraseContext(n, CHOOSE c \in Range(end.kept) : n.contexts[c].data = <<>>)

\* Mutant of CompressBlock: the bucket still points to the context that is freed.
CompressBlockUnlinked(m, b) ==
  LET c == RawOf(m, b)
  IN  IF FindCompressed(m, b) # Null /\ (c = NoContext \/ ~m.contexts[c].dirty) THEN m
      ELSE EraseContext(Compress(m, c), c)

\* compressed_block: a dirty bucket is compressed and its context freed.
CompressBlock(m, b) ==
  LET c == RawOf(m, b)
  IN  IF FindCompressed(m, b) # Null /\ (c = NoContext \/ ~m.contexts[c].dirty) THEN m
      ELSE EraseContext(Release(Compress(m, c), c), c)

CompressAllButBack(m) ==
  FoldLeft(CompressBlock, m, [b \in 1..(Len(m.buckets) - 1) |-> b])

\* The last block of the frame, <<>> when serialize writes none.
BackBlock(m) ==
  LET c == RawOf(m, Len(m.buckets))
  IN  IF c = NoContext THEN <<>>
      ELSE IF Len(m.contexts[c].data) = BlockSize /\ m.contexts[c].buffer # Null
      THEN m.contexts[c].buffer ELSE m.contexts[c].data

\* The values of the frame that serialize writes.
Serialized(m) ==
  LET n == CompressAllButBack(m)
      last == Len(n.buckets)
  IN  FlattenSeq([b \in 1..last |-> IF b < last THEN FindCompressed(n, b) ELSE BackBlock(n)])

Deserialized(m, values) ==
  LET whole == Len(values) \div BlockSize
      Block(b) == SubSeq(values, (b - 1) * BlockSize + 1, b * BlockSize)
      n == FoldLeft(LAMBDA acc, b : AppendCompressed(acc, Block(b)), Cleared(m), [b \in 1..whole |-> b])
      back == SubSeq(values, whole * BlockSize + 1, Len(values))
      new == NewContext(n)
      c == Head(new.order)
  IN  IF back = <<>> THEN n
      ELSE [AppendBucket(new, c) EXCEPT !.contexts[c].data = back, !.size = @ + Len(back)]

-----------------------------------------------------------------------------
(* Actions.  A bucket that is destroyed, or visited by for_each, has no wrapper: *)
(* the code aborts, or waits for ever for a wrapper of its own thread.           *)

Held(b) == d_buckets[b].refs > 0

References == FoldLeft(LAMBDA acc, b : acc + b.refs, 0, d_buckets)

Index == 1..d_size

PushBack(v) == Vector!PushBack(v) /\ Become(EmplaceBack(Memory, v))

PopBack ==
  /\ Vector!PopBack
  /\ PosOf(d_size) = 1 => ~Held(Len(d_buckets))
  /\ Become(RemoveBack(Memory))

\* resize to more, or less.
Grow(n, v) == d_size < n /\ Vector!Resize(n, v) /\ Become(ResizeGrow(Memory, n, v))

Shrink(n) ==
  /\ n < d_size
  /\ \A b \in (BucketOf(n) + 1)..Len(d_buckets) : ~Held(b)
  /\ vec' = Vector!Resized(n, vec[1])
  /\ Become(ResizeShrink(Memory, n))

Clear == References = 0 /\ Vector!Clear /\ Become(Cleared(Memory))

Get(i) == UNCHANGED vec /\ Become(Read(Memory, i))

Set(i, v) == Vector!Fill(i, i, v) /\ Become(SetValue(Memory, i, v))

Assign(i, j) == Vector!Assign(i, j) /\ Become(AssignValue(Memory, i, j))

Swap(i, j) == Vector!Swap(i, j) /\ Become(SwapValues(Memory, i, j))

CanVisit(first, last, backward) ==
  /\ backward => BucketOf(first) # BucketOf(last)
  /\ \A b \in BucketOf(first)..BucketOf(last) : ~Held(b)

\* A functor that returns nothing is given a reference to each value.
ForEach(first, last, v, backward, thrown) ==
  /\ CanVisit(first, last, backward)
  /\ Vector!Fill(first, last, v)
  /\ Become(VisitAll(Memory, first, last, first..last, v, backward, thrown))

\* A functor that returns a boolean is given copies (ResultOf) and writes nothing.
Inspect(first, last, backward, stopped) ==
  /\ CanVisit(first, last, backward)
  /\ UNCHANGED vec
  /\ Become(VisitAll(Memory, first, last, {}, vec[first], backward, stopped))

ShrinkToFit == UNCHANGED vec /\ Become(Shrunk(Memory))

Serialize == UNCHANGED vec /\ Become(CompressAllButBack(Memory))

\* serialize, then deserialize into the same vector.  A frame whose last block is
\* full may be wrong (SerializedIsContent) and is not read here.
Reload ==
  /\ References = 0 /\ d_size % BlockSize # 0
  /\ UNCHANGED vec
  /\ Become(Deserialized(CompressAllButBack(Memory), Serialized(Memory)))

\* A wrapper, or an iterator, that the user keeps.
Hold(b) == UNCHANGED vec /\ References < MaxHeld /\ Become(Ref(Memory, b))

Drop(b) == UNCHANGED vec /\ Held(b) /\ Become(Unref(Memory, b))

Next ==
  \/ PopBack \/ Clear \/ ShrinkToFit \/ Serialize \/ Reload
  \/ \E v \in Values : PushBack(v) \/ \E n \in 1..MaxSize : Grow(n, v)
  \/ \E n \in 1..MaxSize : Shrink(n)
  \/ \E i \in Index \intersect Places : Get(i) \/ \E v \in Values : Set(i, v)
  \/ \E i, j \in Index \intersect Places : Assign(i, j) \/ Swap(i, j)
  \/ \E first \in Index \intersect Places, backward \in BOOLEAN :
       \E last \in first..d_size :
         \/ \E v \in Values, thrown \in Throws : ForEach(first, last, v, backward, thrown)
         \/ \E stopped \in BOOLEAN : Inspect(first, last, backward, stopped)
  \/ \E b \in DOMAIN d_buckets : Hold(b) \/ Drop(b)

Spec == Init /\ [][Next]_vars

-----------------------------------------------------------------------------
(* Properties *)

Blocks == [1..BlockSize -> Values] \union {Null, Stale}

\* Buckets, contexts and counters take these values only; no pointer dangles.
TypeOK ==
  /\ \A b \in DOMAIN d_buckets :
       d_buckets[b] \in [raw : DOMAIN d_contexts \union {NoContext}, compressed : Blocks, refs : 0..MaxHeld]
  /\ \A c \in DOMAIN d_contexts :
       /\ d_contexts[c].data \in Seq(Values) /\ Len(d_contexts[c].data) <= BlockSize
       /\ d_contexts[c].dirty \in BOOLEAN /\ d_contexts[c].buffer \in Blocks
       /\ d_contexts[c].block_index \in 0..Len(d_buckets)
  /\ d_size \in 0..MaxSize /\ live \in Nat

\* A decompressed bucket and its context refer to each other: a context is never left
\* on a bucket that was compressed, moved or removed, two buckets never share one, and
\* a dirty context has a bucket to be compressed for.
ContextsAreLinked ==
  /\ \A b \in DOMAIN d_buckets :
       d_buckets[b].raw # NoContext => d_contexts[d_buckets[b].raw].block_index = b
  /\ \A c \in DOMAIN d_contexts :
       LET b == d_contexts[c].block_index
       IN  IF b = 0 THEN d_contexts[c] = EmptyContext ELSE d_buckets[b].raw = c

\* All buckets but the last are full, the last is not empty, and their values are
\* as many as size(): at() and for_each find a value by its position alone.
OnlyBackIsPartial ==
  \A b \in DOMAIN d_buckets :
    Len(ValuesOf(Memory, b)) = IF b < Len(d_buckets) THEN BlockSize ELSE PosOf(d_size)

\* The compressed buffer of a context that is not dirty holds its values: giving the
\* context to another bucket without compressing it loses nothing.
CleanIsSaved ==
  \A c \in DOMAIN d_contexts : d_contexts[c].dirty \/ d_contexts[c].buffer = d_contexts[c].data

\* Every compressed buffer that was allocated and not freed belongs to one bucket:
\* none is lost, and none is freed twice.
BuffersAreOwned ==
  live = Cardinality({b \in DOMAIN d_buckets : FindCompressed(Memory, b) # Null})

\* While a wrapper refers to a decompressed bucket, no search for a context takes the
\* bucket's.  The steps that take it without asking are left to HeldContextIsNotStolen:
\* shrink_to_fit, serialize, and push_back and resize after a full back bucket.
HeldContextStays ==
  [][\/ \A b \in DOMAIN d_buckets \intersect DOMAIN d_buckets' :
          \/ d_buckets[b].refs = 0 \/ d_buckets[b].raw = NoContext
          \/ b = Len(d_buckets) /\ Len(d_buckets') > b
          \/ d_buckets'[b].raw # NoContext
     \/ ShrinkToFit \/ Serialize]_vars

\* shrink_to_fit leaves one context at most, that of a partial back bucket first.
ShrinkLeavesOneContext == Len(Shrunk(Memory).order) <= 1

\* The compressed vector is a vector: whatever was compressed, decompressed or taken
\* in between, it holds the values that the same operations give to a vector.
IsAVector == Contents(Memory) = vec /\ d_size = Len(vec)


\* docs/cvector.md, Serialization: what is written is the content of the vector.
SerializedIsContent == Serialized(Memory) = Contents(Memory)
===============================================================================

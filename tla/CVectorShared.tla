------------------------------ MODULE CVectorShared ------------------------------
(***************************************************************************)
(* The compressed vector, used by several threads.  A thread has the lock  *)
(* of the bucket it works on: alone in for_each, shared in const_for_each  *)
(* and while a wrapper exists.  It takes d_lock to decompress a bucket, as *)
(* this takes a context from another one, whose lock it must get first     *)
(* without waiting for it.                                                 *)
(*                                                                         *)
(* What one thread does to the fields of a bucket and of its context       *)
(* between two accesses to a lock is cut where another thread could look.  *)
(* A bucket is the number of additions made to its values, a compressed    *)
(* buffer the number it holds.  Buckets are numbered from 1, and their     *)
(* locks too; lock 0 is d_lock.  No allocation fails, and the size of the  *)
(* vector does not change.                                                 *)
(***************************************************************************)
EXTENDS SharedSpinner, Sequences, SequencesExt

CONSTANTS
  ContextRatio,  \* 16: contexts are freed when there is more than one for so many buckets
  Mixes,         \* sets of operations that may run at the same time
  Ranges,        \* bound: the buckets an operation goes through, in order
  MaxContexts    \* bound: contexts allocated at a time

ASSUME SharedAssumption ==
  /\ IsFiniteSet(Locks) /\ Locks = 0..(Cardinality(Locks) - 1) /\ Cardinality(Locks) > 1
  /\ ContextRatio \in Nat \ {0} /\ MaxContexts \in Nat \ {0, 1}
  /\ Mixes \subseteq SUBSET {"for_each", "const_for_each", "move"}
  /\ Ranges \subseteq Seq(Locks \ {0})

\* Wrappers that write and operations that only read do not run at the same time: with
\* them a value may be lost (TLC shows it with Mixes <- ReadMixes).
WritesMeetNoReads == \A mode \in Mixes : ~({"const_for_each", "move"} \subseteq mode)

VARIABLES
  d_buckets,   \* raw: the context of a bucket or NoContext; compressed: its buffer then
  contexts,    \* the RawBuffers
  heap,        \* those that are allocated
  d_contexts,  \* the list of those of the vector, the last one used first
  live,        \* compressed buffers allocated and not yet freed
  done,        \* additions that were made to a bucket
  local        \* what a thread is at

vector_vars == <<d_buckets, contexts, heap, d_contexts, live, done>>
vars == <<spinner_vars, vector_vars, local>>

d_lock    == 0
Buckets   == Locks \ {d_lock}
NoContext == 0
NoBucket  == 0    \* invalid_index
Null      == <<>>
Buffer(n) == <<n>>

EmptyContext == [size |-> "empty", dirty |-> 0, block_index |-> NoBucket, buffer |-> Null, storage |-> 0]

\* The last bucket is decompressed after push_back, partial or full, and an empty
\* context may be left by pop_back; other buckets are compressed.
BackContext(size) == [EmptyContext EXCEPT !.size = size, !.dirty = 1, !.block_index = Cardinality(Buckets)]

Idle(range, op) ==
  [pc |-> "next", op |-> op, todo |-> range, bucket |-> NoBucket, cur |-> NoContext,
   at |-> 0, found |-> 0, buffer |-> Null, seen |-> 0]

Init ==
  /\ SpinnerInit
  /\ \E size \in {"partial", "full"}, left \in {0, 1} :
       /\ d_buckets = [b \in Buckets |->
            IF b = Cardinality(Buckets) THEN [raw |-> 1, compressed |-> Null]
            ELSE [raw |-> NoContext, compressed |-> Buffer(0)]]
       /\ contexts = [c \in 1..MaxContexts |-> IF c = 1 THEN BackContext(size) ELSE EmptyContext]
       /\ heap = 1..(1 + left)
       /\ d_contexts = [p \in 1..(1 + left) |-> p]
  /\ live = Cardinality(Buckets) - 1
  /\ done = [b \in Buckets |-> 0]
  /\ \E mode \in Mixes : local \in [Threads -> {Idle(range, op) : range \in Ranges, op \in mode}]

-----------------------------------------------------------------------------
(* The bucket of an operation *)

At(t, pc) == local[t].pc = pc /\ IdleSpinner(t)

Step(t, pc) == local' = [local EXCEPT ![t].pc = pc]

StepAt(t, pc, p) == local' = [local EXCEPT ![t].pc = pc, ![t].at = p]

StepWith(t, pc, c) == local' = [local EXCEPT ![t].pc = pc, ![t].cur = c]

Bucket(t) == local[t].bucket
Cur(t)    == local[t].cur

Field(c, name, value) == contexts' = [contexts EXCEPT ![c] = [@ EXCEPT ![name] = value]]

\* lock_guard in for_each and for_each_backward; shared_lock in the const ones; ref()
\* of a wrapper.
EnterBucket(t) ==
  /\ At(t, "next") /\ local[t].todo # <<>>
  /\ LET b == Head(local[t].todo)
     IN  /\ IF local[t].op = "for_each" THEN Lock(t, b) ELSE LockShared(t, b)
         /\ local' = [local EXCEPT ![t].pc = "load", ![t].bucket = b, ![t].todo = Tail(@)]
  /\ UNCHANGED vector_vars

\* load_decompressed, here and again in decompress_bucket: the second load follows a
\* null pointer only, and is that of this step.
Load(t) ==
  /\ At(t, "load")
  /\ LET raw == d_buckets[Bucket(t)].raw
     IN  IF raw # NoContext
         THEN StepWith(t, "access", raw) /\ UNCHANGED spinner_vars
         ELSE Lock(t, d_lock) /\ Step(t, "decompress")
  /\ UNCHANGED vector_vars

\* decompress_bucket, under d_lock: another reader may have decompressed the bucket.
Recheck(t) ==
  /\ At(t, "decompress")
  /\ LET raw == d_buckets[Bucket(t)].raw
     IN  IF raw # NoContext
         THEN Unlock(t, d_lock) /\ StepWith(t, "access", raw)
         ELSE /\ IF Len(d_contexts) < 2 THEN Step(t, "make")
                 ELSE StepAt(t, "find", Len(d_contexts))
              /\ UNCHANGED spinner_vars
  /\ UNCHANGED vector_vars

-----------------------------------------------------------------------------
(* find_free_context.  During the inner call found is the place of the context    *)
(* of the outer one in the list.                                                  *)

Candidate(t) == d_contexts[local[t].at]

Inner(t) == local[t].found # 0

\* get_locked_context: a partial bucket, or one that somebody uses, is left alone.
Skip(t) ==
  /\ At(t, "find") /\ local[t].at > 0
  /\ LET raw == contexts[Candidate(t)]
     IN  \/ raw.size = "partial" /\ UNCHANGED spinner_vars
         \/ raw.size # "partial" /\ raw.block_index # NoBucket /\ TryLockRefused(t, raw.block_index)
  /\ StepAt(t, "find", local[t].at - 1)
  /\ UNCHANGED vector_vars

Try(t) ==
  /\ At(t, "find") /\ local[t].at > 0
  /\ LET raw == contexts[Candidate(t)]
     IN  /\ raw.size # "partial"
         /\ IF raw.block_index = NoBucket THEN UNCHANGED spinner_vars
            ELSE TryLock(t, raw.block_index)
  /\ Step(t, "tried")
  /\ UNCHANGED vector_vars

Got(t) ==
  LET b == contexts[Candidate(t)].block_index IN b = NoBucket \/ Has(t, b, "write")

TriedInVain(t) ==
  /\ At(t, "tried") /\ ~Got(t)
  /\ StepAt(t, "find", local[t].at - 1)
  /\ UNCHANGED <<spinner_vars, vector_vars>>

\* A dirty context is compressed; its old buffer makes room for the new one.
Compress(c) ==
  /\ Field(c, "buffer", Buffer(contexts[c].storage))
  /\ live' = IF contexts[c].buffer = Null THEN live + 1 ELSE live

\* Mutant of Save: the context is taken as it is.
SaveNothing(t) ==
  /\ At(t, "tried") /\ Got(t)
  /\ Step(t, "unlink")
  /\ UNCHANGED <<spinner_vars, vector_vars>>

\* "Use this opportunity to free another context if possible": the inner call goes on
\* from the place that was found.
Save(t) ==
  /\ At(t, "tried") /\ Got(t)
  /\ LET c == Candidate(t)
     IN  IF contexts[c].dirty = 1
         THEN /\ Compress(c)
              /\ IF ~Inner(t) /\ Len(d_contexts) > Cardinality(Buckets) \div ContextRatio
                 THEN local' = [local EXCEPT ![t].pc = "find", ![t].found = local[t].at, ![t].at = @ - 1]
                 ELSE Step(t, "unlink")
         ELSE Step(t, "unlink") /\ UNCHANGED <<contexts, live>>
  /\ UNCHANGED <<spinner_vars, d_buckets, heap, d_contexts, done>>

\* The inner call found nothing.
InnerInVain(t) ==
  /\ At(t, "find") /\ local[t].at = 0 /\ Inner(t)
  /\ local' = [local EXCEPT ![t].pc = "unlink", ![t].found = 0, ![t].at = local[t].found]
  /\ UNCHANGED <<spinner_vars, vector_vars>>

\* A list whose element at place p is moved to the front.
ToFront(list, p) ==
  [i \in DOMAIN list |-> IF i = 1 THEN list[p] ELSE IF i <= p THEN list[i - 1] ELSE list[i]]

\* The bucket keeps its buffer, the context goes to the front of the list.
Unlink(t) ==
  /\ At(t, "unlink")
  /\ LET c == Candidate(t)
         b == contexts[c].block_index
     IN  /\ d_buckets' = IF b = NoBucket THEN d_buckets
                         ELSE [d_buckets EXCEPT ![b] = [raw |-> NoContext, compressed |-> contexts[c].buffer]]
         /\ d_contexts' = ToFront(d_contexts, local[t].at)
  /\ StepAt(t, "unlock", 1)
  /\ UNCHANGED <<spinner_vars, contexts, heap, live, done>>

\* The context is unlocked and reset.  The outer call returns it; that of the inner one
\* is erased, and the outer call goes on.
Give(t) ==
  /\ At(t, "unlock")
  /\ LET c == Candidate(t)
         b == contexts[c].block_index
     IN  /\ IF b = NoBucket THEN UNCHANGED spinner_vars ELSE Unlock(t, b)
         /\ contexts' = [contexts EXCEPT ![c] = EmptyContext]
         /\ IF Inner(t)
            THEN /\ heap' = heap \ {c} /\ d_contexts' = Tail(d_contexts)
                 /\ local' = [local EXCEPT ![t].pc = "unlink", ![t].found = 0, ![t].at = local[t].found - 1]
            ELSE StepWith(t, "fill", c) /\ UNCHANGED <<heap, d_contexts>>
  /\ UNCHANGED <<d_buckets, live, done>>

\* make_raw: fewer than two contexts, or all in use.
Make(t) ==
  /\ \/ At(t, "make")
     \/ At(t, "find") /\ local[t].at = 0 /\ ~Inner(t)
  /\ \E c \in 1..MaxContexts :
       /\ c \notin heap /\ \A d \in 1..MaxContexts : d \notin heap => c <= d
       /\ heap' = heap \union {c} /\ d_contexts' = <<c>> \o d_contexts
       /\ contexts' = [contexts EXCEPT ![c] = EmptyContext]
       /\ StepWith(t, "fill", c)
  /\ UNCHANGED <<spinner_vars, d_buckets, live, done>>

-----------------------------------------------------------------------------
(* decompress_bucket, once it has a context *)

\* The buffer is decompressed into the context; no buffer leaves the storage as it was.
Fill(t) ==
  /\ At(t, "fill")
  /\ LET buffer == d_buckets[Bucket(t)].compressed
     IN  /\ contexts' = [contexts EXCEPT ![Cur(t)].block_index = Bucket(t),
                                      ![Cur(t)].storage = IF buffer = Null THEN @ ELSE Head(buffer)]
         /\ local' = [local EXCEPT ![t].pc = "publish", ![t].buffer = buffer]
  /\ UNCHANGED <<spinner_vars, d_buckets, heap, d_contexts, live, done>>

\* From this store on, other readers of the bucket use the context.
Publish(t) ==
  /\ At(t, "publish")
  /\ d_buckets' = [d_buckets EXCEPT ![Bucket(t)] = [raw |-> Cur(t), compressed |-> Null]]
  /\ Step(t, "complete")
  /\ UNCHANGED <<spinner_vars, contexts, heap, d_contexts, live, done>>

\* Mutant of Complete: the context does not keep the compressed buffer.
CompleteWithoutBuffer(t) ==
  /\ At(t, "complete")
  /\ contexts' = [contexts EXCEPT ![Cur(t)].dirty = 0, ![Cur(t)].size = "full"]
  /\ Unlock(t, d_lock)
  /\ Step(t, "access")
  /\ UNCHANGED <<d_buckets, heap, d_contexts, live, done>>

Complete(t) ==
  /\ At(t, "complete")
  /\ contexts' = [contexts EXCEPT ![Cur(t)].buffer = local[t].buffer, ![Cur(t)].dirty = 0,
                                  ![Cur(t)].size = "full"]
  /\ Unlock(t, d_lock)
  /\ Step(t, "access")
  /\ UNCHANGED <<d_buckets, heap, d_contexts, live, done>>

-----------------------------------------------------------------------------
(* Accesses to the values *)

\* The functor of for_each, given a reference to a value: it reads it ...
Read(t) ==
  /\ At(t, "access") /\ local[t].op = "for_each"
  /\ local' = [local EXCEPT ![t].pc = "write", ![t].seen = contexts[Cur(t)].storage]
  /\ UNCHANGED <<spinner_vars, vector_vars>>

\* ... and adds one.
Write(t) ==
  /\ At(t, "write")
  /\ Field(Cur(t), "storage", local[t].seen + 1)
  /\ done' = [done EXCEPT ![Bucket(t)] = @ + 1]
  /\ Step(t, "mark")
  /\ UNCHANGED <<spinner_vars, d_buckets, heap, d_contexts, live>>

\* mark_dirty(vec): the flag, then dealloc_bucket.
MarkDirty(t) ==
  /\ At(t, "mark")
  /\ Field(Cur(t), "dirty", 1)
  /\ Lock(t, d_lock)
  /\ Step(t, "dealloc")
  /\ UNCHANGED <<d_buckets, heap, d_contexts, live, done>>

\* Mutant of Dealloc: the buffer is freed, the context keeps pointing to it.
DeallocAndKeep(t) ==
  /\ At(t, "dealloc")
  /\ LET raw == d_buckets[contexts[Cur(t)].block_index].raw
     IN  live' = IF raw # NoContext /\ contexts[raw].buffer # Null THEN live - 1 ELSE live
  /\ Unlock(t, d_lock)
  /\ Step(t, "leave")
  /\ UNCHANGED <<d_buckets, contexts, heap, d_contexts, done>>

\* dealloc_bucket, under d_lock: the buffer of the old values is freed.
Dealloc(t) ==
  /\ At(t, "dealloc")
  /\ LET raw == d_buckets[contexts[Cur(t)].block_index].raw
     IN  IF /\ raw # NoContext /\ contexts[raw].block_index # NoBucket
            /\ contexts[raw].dirty = 1 /\ contexts[raw].buffer # Null
         THEN Field(raw, "buffer", Null) /\ live' = live - 1
         ELSE UNCHANGED <<contexts, live>>
  /\ Unlock(t, d_lock)
  /\ Step(t, "leave")
  /\ UNCHANGED <<d_buckets, heap, d_contexts, done>>

\* const_for_each, or get() of a wrapper; a functor that returns false ends it.
Look(t) ==
  /\ At(t, "access") /\ local[t].op = "const_for_each"
  /\ \E todo \in {local[t].todo, <<>>} :
       local' = [local EXCEPT ![t].pc = "leave", ![t].seen = contexts[Cur(t)].storage, ![t].todo = todo]
  /\ UNCHANGED <<spinner_vars, vector_vars>>

\* move() of a wrapper, for a type that is not trivially assignable: the flag only.
MarkMoved(t) ==
  /\ At(t, "access") /\ local[t].op = "move"
  /\ Field(Cur(t), "dirty", 1)
  /\ Step(t, "add")
  /\ UNCHANGED <<spinner_vars, d_buckets, heap, d_contexts, live, done>>

\* The value is atomic: fetch_add.
FetchAdd(t) ==
  /\ At(t, "add")
  /\ Field(Cur(t), "storage", contexts[Cur(t)].storage + 1)
  /\ done' = [done EXCEPT ![Bucket(t)] = @ + 1]
  /\ Step(t, "leave")
  /\ UNCHANGED <<spinner_vars, d_buckets, heap, d_contexts, live>>

LeaveBucket(t) ==
  /\ At(t, "leave")
  /\ IF local[t].op = "for_each" THEN Unlock(t, Bucket(t)) ELSE UnlockShared(t, Bucket(t))
  /\ local' = [local EXCEPT ![t] = Idle(local[t].todo, local[t].op)]
  /\ UNCHANGED vector_vars

InLock(t) == SpinnerStep(t) /\ UNCHANGED <<vector_vars, local>>

VectorStep(t) ==
  \/ EnterBucket(t) \/ Load(t) \/ Recheck(t)
  \/ Skip(t) \/ Try(t) \/ TriedInVain(t) \/ Save(t) \/ InnerInVain(t) \/ Unlink(t) \/ Give(t) \/ Make(t)
  \/ Fill(t) \/ Publish(t) \/ Complete(t)
  \/ Read(t) \/ Write(t) \/ MarkDirty(t) \/ Dealloc(t)
  \/ Look(t) \/ MarkMoved(t) \/ FetchAdd(t) \/ LeaveBucket(t)

ThreadStep(t) == InLock(t) \/ VectorStep(t)

Finished == \A t \in Threads : At(t, "next") /\ local[t].todo = <<>>

Next == (\E t \in Threads : ThreadStep(t)) \/ (Finished /\ UNCHANGED vars)

Spec == Init /\ [][Next]_vars /\ \A t \in Threads : WF_vars(ThreadStep(t))

-----------------------------------------------------------------------------
(* Properties *)

\* A bucket holds n additions, in its context or in its buffer.
Holds(b, n) ==
  IF d_buckets[b].raw # NoContext THEN contexts[d_buckets[b].raw].storage = n
  ELSE d_buckets[b].compressed = Buffer(n)

\* tests/test_cvector.cpp:715 adds from 16 threads and expects every addition: none is
\* lost, wherever the bucket is compressed, decompressed or moved in between.
NoLostUpdate == \A b \in Buckets : Holds(b, done[b])

Accesses == {"access", "write", "mark", "dealloc", "add", "leave"}

\* Outside d_lock a thread keeps a pointer to a context.  As long as it does, the context
\* is allocated and still that of its bucket: no other thread has taken, moved or freed it.
AccessIsLive ==
  \A t \in Threads :
    local[t].pc \in Accesses =>
      /\ Cur(t) \in heap /\ d_buckets[Bucket(t)].raw = Cur(t)
      /\ contexts[Cur(t)].block_index = Bucket(t)

Quiet == \A t \in Threads : ~Has(t, d_lock, "write")

\* When no thread has d_lock, the list holds allocated contexts, each once, a decompressed
\* bucket and its context refer to each other, and a context that nobody may be writing
\* holds its values in its buffer, or is dirty: it can be given away without loss.
ContextsAgree ==
  Quiet =>
    /\ d_contexts \in Seq(heap) /\ IsInjective(d_contexts)
    /\ \A b \in Buckets :
         LET raw == d_buckets[b].raw
         IN  /\ raw # NoContext => raw \in heap /\ contexts[raw].block_index = b
             /\ raw # NoContext /\ contexts[raw].dirty = 0 /\ (\A t \in Threads : Has(t, b, "no"))
                  => contexts[raw].buffer = Buffer(contexts[raw].storage)
    /\ \A c \in heap :
         contexts[c].block_index # NoBucket => d_buckets[contexts[c].block_index].raw = c

HasBuffer(b) ==
  IF d_buckets[b].raw # NoContext THEN contexts[d_buckets[b].raw].buffer # Null
  ELSE d_buckets[b].compressed # Null

\* When no thread has d_lock, every compressed buffer that was allocated and not freed
\* belongs to one bucket: none is lost or freed twice.
BuffersAreOwned == Quiet => live = Cardinality({b \in Buckets : HasBuffer(b)})

\* Every operation ends: no thread waits for ever for a bucket or for d_lock.
OperationsEnd == <>Finished
===============================================================================

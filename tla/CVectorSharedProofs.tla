--------------------------- MODULE CVectorSharedProofs ---------------------------
(***************************************************************************)
(* What SharedSpinner and CVectorShared promise, for any number of         *)
(* threads, locks, buckets and operations.                                 *)
(*                                                                         *)
(* First the spin locks: they keep what SharedLock promises.  The word is  *)
(* all a thread looks at, so the argument is that the word counts the      *)
(* holders; for this, a call must expect a word that lets its thread in,   *)
(* and its thread must not have the lock yet (IInv).                       *)
(*                                                                         *)
(* Then the vector: no addition is lost, a context stays its bucket's as   *)
(* long as a thread points to it, buckets and contexts agree, no buffer    *)
(* leaks.  A step of the vector is a step of its locks or leaves them      *)
(* alone, so IInv holds here too.  VectorInv says the rest: ThreadOK what  *)
(* a thread may rely on at each point of its operation (the locks it has,  *)
(* the context it searches, fills or uses), ListOK how buckets and         *)
(* contexts refer to each other while one of them is on its way from one   *)
(* bucket to the next, BuffersCounted who owns the compressed buffers.     *)
(* Good is what every step is shown to do.                                 *)
(***************************************************************************)
EXTENDS CVectorShared, FiniteSetTheorems, TLAPS

-----------------------------------------------------------------------------
(* The spin locks *)

\* A writer expects a free lock, needed or not, and a reader one it may share; a
\* thread that calls for a lock does not have it.
CallsAgree ==
  \A t \in Threads :
    /\ call[t] # NoCall => held[t][call[t].lock] = "no"
    /\ call[t].method = "lock" => call[t].expect \in {Free, Needed}
    /\ call[t].method = "try_lock_shared" => CanShare(call[t].expect)

IInv ==
  /\ SpinnerTypeOK
  /\ CallsAgree
  /\ WordCountsHolders
  /\ WriterIsAlone
  /\ NeededHasWaiter
  /\ ReadersFit

-----------------------------------------------------------------------------
\* The readers of a lock are finitely many, and none are counted 0.
LEMMA ReadersFinite ==
  ASSUME NEW l
  PROVE  /\ IsFiniteSet(Readers(l)) /\ Cardinality(Readers(l)) \in Nat
         /\ Cardinality(Readers(l)) = 0 <=> Readers(l) = {}
<1>1. Readers(l) \subseteq Threads  BY DEF Readers
<1>2. IsFiniteSet(Readers(l))  BY <1>1, FS_Subset, SpinnerAssumption
<1>3. QED  BY <1>2, FS_CardinalityType, FS_EmptySet

\* Who holds a lock changes for one thread and one lock at a time.
LEMMA HoldFacts ==
  ASSUME SpinnerTypeOK, NEW t \in Threads, NEW l \in Locks, NEW mode \in Abstract!Modes,
         Hold(t, l, mode)
  PROVE  /\ held' \in [Threads -> [Locks -> Abstract!Modes]]
         /\ held'[t][l] = mode
         /\ \A u \in Threads, k \in Locks : (u # t \/ k # l) => held'[u][k] = held[u][k]
         /\ \A k \in Locks : k # l => Readers(k)' = Readers(k)
BY DEF Hold, SpinnerTypeOK, Readers

\* A call of a thread starts, goes on or ends without touching those of others.
LEMMA CallFacts ==
  ASSUME SpinnerTypeOK, NEW t \in Threads, NEW method \in Methods \ {"none"},
         NEW l \in Locks, NEW expect \in Word, Calls(t, method, l, expect)
  PROVE  /\ DOMAIN call' = Threads
         /\ call'[t] = [method |-> method, lock |-> l, expect |-> expect]
         /\ call'[t] \in [method : Methods \ {"none"}, lock : Locks, expect : Word]
         /\ \A u \in Threads : u # t => call'[u] = call[u]
BY DEF Calls, SpinnerTypeOK

LEMMA ReturnFacts ==
  ASSUME SpinnerTypeOK, NEW t \in Threads, Returns(t)
  PROVE  /\ DOMAIN call' = Threads
         /\ call'[t] = NoCall
         /\ \A u \in Threads : u # t => call'[u] = call[u]
BY DEF Returns, SpinnerTypeOK

\* What a thread that is in a call calls.
LEMMA InCall ==
  ASSUME SpinnerTypeOK, NEW t \in Threads, call[t].method # "none"
  PROVE  /\ call[t] # NoCall
         /\ call[t].method \in Methods /\ call[t].lock \in Locks /\ call[t].expect \in Word
BY DEF SpinnerTypeOK, NoCall

LEMMA WordFacts == {Free, Writing, Needed} \subseteq Word
BY DEF Free, Writing, Needed, Word

-----------------------------------------------------------------------------
\* Steps that start, advance or end a call and change neither words nor holders.
LEMMA CallOnly ==
  ASSUME IInv, NEW t \in Threads, NEW method \in Methods \ {"none"}, NEW l \in Locks,
         NEW expect \in Word, Calls(t, method, l, expect),
         UNCHANGED <<word, held>>, held[t][l] = "no",
         method = "lock" => expect \in {Free, Needed},
         method = "try_lock_shared" => CanShare(expect),
         call[t].method \in {"lock", "failed_lock"} =>
           method \in {"lock", "failed_lock"} /\ l = call[t].lock
  PROVE  IInv'
<1>0. SpinnerTypeOK  BY DEF IInv
<1>1. /\ DOMAIN call' = Threads
      /\ call'[t] = [method |-> method, lock |-> l, expect |-> expect]
      /\ call'[t] \in [method : Methods \ {"none"}, lock : Locks, expect : Word]
      /\ \A u \in Threads : u # t => call'[u] = call[u]
  BY <1>0, CallFacts
<1>2. SpinnerTypeOK'
  BY <1>0, <1>1 DEF SpinnerTypeOK
<1>3. CallsAgree'
  <2> SUFFICES ASSUME NEW u \in Threads
               PROVE  /\ call'[u] # NoCall => held[u][call'[u].lock] = "no"
                      /\ call'[u].method = "lock" => call'[u].expect \in {Free, Needed}
                      /\ call'[u].method = "try_lock_shared" => CanShare(call'[u].expect)
    BY DEF CallsAgree
  <2>1. CASE u = t  BY <1>1, <2>1
  <2>2. CASE u # t  BY <1>1, <2>2 DEF IInv, CallsAgree
  <2>3. QED  BY <2>1, <2>2
<1>4. WordCountsHolders' /\ WriterIsAlone' /\ ReadersFit'
  BY DEF IInv, WordCountsHolders, WriterIsAlone, ReadersFit, Readers
<1>5. NeededHasWaiter'
  <2> SUFFICES ASSUME NEW k \in Locks, word[k].need_lock = 1
               PROVE  \E u \in Threads : call'[u].method \in {"lock", "failed_lock"} /\ call'[u].lock = k
    BY DEF NeededHasWaiter
  <2>1. PICK u \in Threads : call[u].method \in {"lock", "failed_lock"} /\ call[u].lock = k
    BY DEF IInv, NeededHasWaiter
  <2>2. CASE u = t  BY <1>1, <2>1, <2>2
  <2>3. CASE u # t  BY <1>1, <2>1, <2>3
  <2>4. QED  BY <2>2, <2>3
<1>6. QED  BY <1>2, <1>3, <1>4, <1>5 DEF IInv

\* A lock whose word is free or needed is held by nobody.
LEMMA FreeIsHeldByNone ==
  ASSUME IInv, NEW l \in Locks, word[l] \in {Free, Needed}
  PROVE  \A u \in Threads : held[u][l] = "no"
<1>1. word[l].readers = 0 /\ word[l].write = 0  BY DEF Free, Needed
<1>2. Readers(l) = {}  BY <1>1, ReadersFinite DEF IInv, WordCountsHolders
<1>3. \A u \in Threads : held[u][l] # "write"  BY <1>1 DEF IInv, WordCountsHolders
<1>4. QED  BY <1>2, <1>3 DEF Readers, IInv, SpinnerTypeOK, Abstract!Modes

\* A thread gets a lock to write: its call returns and the word becomes write.
LEMMA Written ==
  ASSUME IInv, NEW t \in Threads, NEW l \in Locks, call[t].method # "none", call[t].lock = l,
         word[l] \in {Free, Needed}, Stores(l, Writing), Hold(t, l, "write"), Returns(t)
  PROVE  IInv'
<1>0. SpinnerTypeOK  BY DEF IInv
<1>1. /\ DOMAIN call' = Threads /\ call'[t] = NoCall
      /\ \A u \in Threads : u # t => call'[u] = call[u]
  BY <1>0, ReturnFacts
<1>2. /\ held' \in [Threads -> [Locks -> Abstract!Modes]]
      /\ held'[t][l] = "write"
      /\ \A u \in Threads, k \in Locks : (u # t \/ k # l) => held'[u][k] = held[u][k]
      /\ \A k \in Locks : k # l => Readers(k)' = Readers(k)
  BY <1>0, HoldFacts DEF Abstract!Modes
<1>3. /\ word' \in [Locks -> Word] /\ word'[l] = Writing
      /\ \A k \in Locks : k # l => word'[k] = word[k]
  BY <1>0, WordFacts DEF Stores, SpinnerTypeOK
<1>4. \A u \in Threads : held[u][l] = "no"  BY FreeIsHeldByNone
<1>5. SpinnerTypeOK'  BY <1>0, <1>1, <1>2, <1>3 DEF SpinnerTypeOK
<1>6. CallsAgree'
  <2> SUFFICES ASSUME NEW u \in Threads
               PROVE  /\ call'[u] # NoCall => held'[u][call'[u].lock] = "no"
                      /\ call'[u].method = "lock" => call'[u].expect \in {Free, Needed}
                      /\ call'[u].method = "try_lock_shared" => CanShare(call'[u].expect)
    BY DEF CallsAgree
  <2>1. CASE u = t  BY <1>1, <2>1 DEF NoCall
  <2>2. CASE u # t
    <3>1. call[u] # NoCall => call[u].lock \in Locks  BY <1>0 DEF SpinnerTypeOK
    <3>2. QED  BY <1>1, <1>2, <2>2, <3>1 DEF IInv, CallsAgree
  <2>3. QED  BY <2>1, <2>2
<1>7. Readers(l)' = {}  BY <1>2, <1>4 DEF Readers
<1>8. WordCountsHolders'
  <2> SUFFICES ASSUME NEW k \in Locks
               PROVE  /\ word'[k].readers = Cardinality(Readers(k)')
                      /\ word'[k].write = 1 => word'[k].readers = 0
                      /\ word'[k].write = 1 <=> \E u \in Threads : held'[u][k] = "write"
    BY DEF WordCountsHolders
  <2>0. Cardinality(Readers(l)') = 0  BY <1>7, FS_EmptySet
  <2>1. CASE k = l  BY <1>2, <1>3, <2>0, <2>1 DEF Writing
  <2>2. CASE k # l  BY <1>2, <1>3, <2>2 DEF IInv, WordCountsHolders
  <2>3. QED  BY <2>1, <2>2
<1>9. WriterIsAlone'  BY <1>2, <1>4 DEF IInv, WriterIsAlone
<1>10. NeededHasWaiter'
  <2> SUFFICES ASSUME NEW k \in Locks, word'[k].need_lock = 1
               PROVE  \E u \in Threads : call'[u].method \in {"lock", "failed_lock"} /\ call'[u].lock = k
    BY DEF NeededHasWaiter
  <2>1. k # l /\ word[k].need_lock = 1  BY <1>3 DEF Writing, Free
  <2>2. PICK u \in Threads : call[u].method \in {"lock", "failed_lock"} /\ call[u].lock = k
    BY <2>1 DEF IInv, NeededHasWaiter
  <2>3. u # t  BY <2>1, <2>2
  <2>4. QED  BY <1>1, <2>2, <2>3
<1>11. ReadersFit'
  BY <1>3, SpinnerAssumption DEF IInv, ReadersFit, Writing, Free
<1>12. QED  BY <1>5, <1>6, <1>8, <1>9, <1>10, <1>11 DEF IInv

\* A lock changes hands by one reader more or less, or by the end of its writer: the
\* other threads and locks stay as they are.  The callers of this lemma say what the
\* lock looks like after the step.
LEMMA Changed ==
  ASSUME IInv, NEW t \in Threads, NEW l \in Locks, NEW mode \in Abstract!Modes,
         NEW w \in Word, Stores(l, w), Hold(t, l, mode),
         \/ Returns(t)
         \/ call[t].method = "none" /\ UNCHANGED call,
         call[t].method \notin {"lock", "failed_lock"},
         w.readers = Cardinality(Readers(l)'), w.readers <= MaxReaders,
         w.need_lock = 1 => word[l].need_lock = 1,
         mode # "write", w.write = 0,
         \A u \in Threads \ {t} : held[u][l] # "write"
  PROVE  IInv'
<1>0. SpinnerTypeOK  BY DEF IInv
<1>1. /\ DOMAIN call' = Threads /\ call'[t] = NoCall
      /\ \A u \in Threads : u # t => call'[u] = call[u]
  <2>1. CASE Returns(t)  BY <1>0, <2>1, ReturnFacts
  <2>2. CASE call[t].method = "none" /\ UNCHANGED call
    BY <1>0, <2>2 DEF SpinnerTypeOK, Methods
  <2>3. QED  BY <2>1, <2>2
<1>2. /\ held' \in [Threads -> [Locks -> Abstract!Modes]]
      /\ held'[t][l] = mode
      /\ \A u \in Threads, k \in Locks : (u # t \/ k # l) => held'[u][k] = held[u][k]
      /\ \A k \in Locks : k # l => Readers(k)' = Readers(k)
  BY <1>0, HoldFacts
<1>3. /\ word' \in [Locks -> Word] /\ word'[l] = w
      /\ \A k \in Locks : k # l => word'[k] = word[k]
  BY <1>0 DEF Stores, SpinnerTypeOK
<1>5. SpinnerTypeOK'  BY <1>0, <1>1, <1>2, <1>3 DEF SpinnerTypeOK
<1>6. CallsAgree'
  <2> SUFFICES ASSUME NEW u \in Threads
               PROVE  /\ call'[u] # NoCall => held'[u][call'[u].lock] = "no"
                      /\ call'[u].method = "lock" => call'[u].expect \in {Free, Needed}
                      /\ call'[u].method = "try_lock_shared" => CanShare(call'[u].expect)
    BY DEF CallsAgree
  <2>1. CASE u = t  BY <1>1, <2>1 DEF NoCall
  <2>2. CASE u # t
    <3>1. call[u] # NoCall => call[u].lock \in Locks  BY <1>0 DEF SpinnerTypeOK
    <3>2. QED  BY <1>1, <1>2, <2>2, <3>1 DEF IInv, CallsAgree
  <2>3. QED  BY <2>1, <2>2
<1>8. WordCountsHolders'
  <2> SUFFICES ASSUME NEW k \in Locks
               PROVE  /\ word'[k].readers = Cardinality(Readers(k)')
                      /\ word'[k].write = 1 => word'[k].readers = 0
                      /\ word'[k].write = 1 <=> \E u \in Threads : held'[u][k] = "write"
    BY DEF WordCountsHolders
  <2>0. \A u \in Threads : held'[u][l] # "write"  BY <1>2
  <2>1. CASE k = l  BY <1>3, <2>0, <2>1
  <2>2. CASE k # l  BY <1>2, <1>3, <2>2 DEF IInv, WordCountsHolders
  <2>3. QED  BY <2>1, <2>2
<1>9. WriterIsAlone'  BY <1>2 DEF IInv, WriterIsAlone
<1>10. NeededHasWaiter'
  <2> SUFFICES ASSUME NEW k \in Locks, word'[k].need_lock = 1
               PROVE  \E u \in Threads : call'[u].method \in {"lock", "failed_lock"} /\ call'[u].lock = k
    BY DEF NeededHasWaiter
  <2>1. word[k].need_lock = 1  BY <1>3
  <2>2. PICK u \in Threads : call[u].method \in {"lock", "failed_lock"} /\ call[u].lock = k
    BY <2>1 DEF IInv, NeededHasWaiter
  <2>3. u # t  BY <2>2
  <2>4. QED  BY <1>1, <2>2, <2>3
<1>11. ReadersFit'
  BY <1>3 DEF IInv, ReadersFit
<1>12. QED  BY <1>5, <1>6, <1>8, <1>9, <1>10, <1>11 DEF IInv

-----------------------------------------------------------------------------
\* A lock without a writer, seen by a thread that is about to read it.
LEMMA SharedIsNotWritten ==
  ASSUME IInv, NEW l \in Locks, word[l].write = 0
  PROVE  \A u \in Threads : held[u][l] # "write"
BY DEF IInv, WordCountsHolders

\* A lock that somebody reads has no writer.
LEMMA ReadIsNotWritten ==
  ASSUME IInv, NEW t \in Threads, NEW l \in Locks, held[t][l] = "read"
  PROVE  /\ \A u \in Threads : held[u][l] # "write"
         /\ word[l].write = 0 /\ word[l].readers \in Nat \ {0}
<1>1. \A u \in Threads : held[u][l] # "write"
  BY DEF IInv, WriterIsAlone
<1>2. t \in Readers(l)  BY DEF Readers
<1>3. Cardinality(Readers(l)) \in Nat \ {0}  BY <1>2, ReadersFinite
<1>4. QED  BY <1>1, <1>3 DEF IInv, WordCountsHolders, SpinnerTypeOK, Word

LEMMA LockStep == ASSUME IInv, NEW t \in Threads, NEW l \in Locks, Lock(t, l) PROVE IInv'
<1>1. call[t].method = "none" /\ held[t][l] = "no"  BY DEF Lock, IdleSpinner, Has
<1>2. Calls(t, "lock", l, Free) /\ UNCHANGED <<word, held>>  BY DEF Lock
<1>3. QED  BY <1>1, <1>2, CallOnly, WordFacts DEF Methods

LEMMA TryLockStep ==
  ASSUME IInv, NEW t \in Threads, NEW l \in Locks, TryLock(t, l) PROVE IInv'
<1>1. call[t].method = "none" /\ held[t][l] = "no"  BY DEF TryLock, IdleSpinner, Has
<1>2. Calls(t, "try_lock", l, Free) /\ UNCHANGED <<word, held>>  BY DEF TryLock
<1>3. QED  BY <1>1, <1>2, CallOnly, WordFacts DEF Methods

LEMMA LockSharedStep ==
  ASSUME IInv, NEW t \in Threads, NEW l \in Locks, LockShared(t, l) PROVE IInv'
<1>1. call[t].method = "none" /\ held[t][l] = "no"  BY DEF LockShared, IdleSpinner, Has
<1>2. Calls(t, "lock_shared", l, Free) /\ UNCHANGED <<word, held>>  BY DEF LockShared
<1>3. QED  BY <1>1, <1>2, CallOnly, WordFacts DEF Methods

LEMMA LoadSharedStep == ASSUME IInv, NEW t \in Threads, LoadShared(t) PROVE IInv'
<1> DEFINE l == call[t].lock
<1>1. call[t].method = "lock_shared"  BY DEF LoadShared
<1>2. l \in Locks /\ held[t][l] = "no"  BY <1>1, InCall DEF IInv, CallsAgree
<1>3. word[l] \in Word  BY <1>2 DEF IInv, SpinnerTypeOK
<1>4. CanShare(word[l]) /\ Calls(t, "try_lock_shared", l, word[l]) /\ UNCHANGED <<word, held>>
  BY DEF LoadShared
<1> HIDE DEF l
<1>5. QED  BY <1>1, <1>2, <1>3, <1>4, CallOnly DEF Methods

LEMMA LockExchangeStep == ASSUME IInv, NEW t \in Threads, LockExchange(t) PROVE IInv'
<1> DEFINE l == call[t].lock
<1>1. call[t].method = "lock"  BY DEF LockExchange
<1>2. l \in Locks /\ held[t][l] = "no"  BY <1>1, InCall DEF IInv, CallsAgree
<1>3. call[t].expect \in {Free, Needed}  BY <1>1 DEF IInv, CallsAgree
<1>4. CASE word[l] = call[t].expect
  <2>1. Stores(l, Writing) /\ Hold(t, l, "write") /\ Returns(t)  BY <1>4 DEF LockExchange
  <2>2. QED  BY <1>1, <1>2, <1>3, <1>4, <2>1, Written
<1>5. CASE word[l] # call[t].expect
  <2>1. Calls(t, "failed_lock", l, word[l]) /\ UNCHANGED <<word, held>>  BY <1>5 DEF LockExchange
  <2>2. word[l] \in Word  BY <1>2 DEF IInv, SpinnerTypeOK
  <2>3. QED  BY <1>1, <1>2, <2>1, <2>2, CallOnly DEF Methods
<1>6. QED  BY <1>4, <1>5

LEMMA FailedLockStep == ASSUME IInv, NEW t \in Threads, FailedLock(t) PROVE IInv'
<1> DEFINE l == call[t].lock
           w == [word[l] EXCEPT !.need_lock = 1]
<1>0. SpinnerTypeOK  BY DEF IInv
<1>1. call[t].method = "failed_lock"  BY DEF FailedLock
<1>2. l \in Locks /\ held[t][l] = "no"  BY <1>0, <1>1, InCall DEF IInv, CallsAgree
<1>3. Calls(t, "lock", l, Needed) /\ UNCHANGED held  BY DEF FailedLock
<1>4. CASE UNCHANGED word
  BY <1>1, <1>2, <1>3, <1>4, CallOnly, WordFacts DEF Methods
<1>5. CASE Stores(l, w)
  <2>1. /\ DOMAIN call' = Threads
        /\ call'[t] = [method |-> "lock", lock |-> l, expect |-> Needed]
        /\ call'[t] \in [method : Methods \ {"none"}, lock : Locks, expect : Word]
        /\ \A u \in Threads : u # t => call'[u] = call[u]
    BY <1>0, <1>2, <1>3, CallFacts, WordFacts DEF Methods
  <2>2. /\ word[l] \in Word /\ w \in Word
        /\ w.readers = word[l].readers /\ w.write = word[l].write
    BY <1>0, <1>2 DEF SpinnerTypeOK, Word
  <2>3. /\ word' \in [Locks -> Word] /\ word'[l] = w
        /\ \A k \in Locks : k # l => word'[k] = word[k]
    BY <1>0, <1>2, <1>5, <2>2 DEF Stores, SpinnerTypeOK
  <2> HIDE DEF l, w
  <2>4. SpinnerTypeOK'  BY <1>0, <1>3, <2>1, <2>3 DEF SpinnerTypeOK
  <2>5. CallsAgree'
    <3> SUFFICES ASSUME NEW u \in Threads
                 PROVE  /\ call'[u] # NoCall => held[u][call'[u].lock] = "no"
                        /\ call'[u].method = "lock" => call'[u].expect \in {Free, Needed}
                        /\ call'[u].method = "try_lock_shared" => CanShare(call'[u].expect)
      BY <1>3 DEF CallsAgree
    <3>1. CASE u = t  BY <1>2, <2>1, <3>1
    <3>2. CASE u # t  BY <2>1, <3>2 DEF IInv, CallsAgree
    <3>3. QED  BY <3>1, <3>2
  <2>6. \A k \in Locks : /\ Readers(k)' = Readers(k)
                         /\ word'[k].readers = word[k].readers /\ word'[k].write = word[k].write
    BY <1>3, <2>2, <2>3 DEF Readers
  <2>7. WordCountsHolders' /\ ReadersFit'
    BY <1>3, <2>6 DEF IInv, WordCountsHolders, ReadersFit
  <2>8. WriterIsAlone'  BY <1>3 DEF IInv, WriterIsAlone
  <2>9. NeededHasWaiter'
    <3> SUFFICES ASSUME NEW k \in Locks, word'[k].need_lock = 1
                 PROVE  \E u \in Threads : call'[u].method \in {"lock", "failed_lock"} /\ call'[u].lock = k
      BY DEF NeededHasWaiter
    <3>1. CASE k = l  BY <2>1, <3>1
    <3>2. CASE k # l
      <4>1. PICK u \in Threads : call[u].method \in {"lock", "failed_lock"} /\ call[u].lock = k
        BY <2>3, <3>2 DEF IInv, NeededHasWaiter
      <4>2. u # t  BY <3>2, <4>1 DEF l
      <4>3. QED  BY <2>1, <4>1, <4>2
    <3>3. QED  BY <3>1, <3>2
  <2>10. QED  BY <2>4, <2>5, <2>7, <2>8, <2>9 DEF IInv
<1>6. QED  BY <1>4, <1>5 DEF FailedLock

LEMMA TryLockExchangeStep == ASSUME IInv, NEW t \in Threads, TryLockExchange(t) PROVE IInv'
<1> DEFINE l == call[t].lock
<1>1. call[t].method = "try_lock" /\ Returns(t)  BY DEF TryLockExchange
<1>2. l \in Locks /\ held[t][l] = "no"  BY <1>1, InCall DEF IInv, CallsAgree
<1>3. CASE word[l] = Free
  <2>1. Stores(l, Writing) /\ Hold(t, l, "write")  BY <1>3 DEF TryLockExchange
  <2>2. QED  BY <1>1, <1>2, <1>3, <2>1, Written
<1>4. CASE word[l] # Free
  <2>1. UNCHANGED <<word, held>>  BY <1>4 DEF TryLockExchange
  <2>2. /\ DOMAIN call' = Threads /\ call'[t] = NoCall
        /\ \A u \in Threads : u # t => call'[u] = call[u]
    BY <1>1, ReturnFacts DEF IInv
  <2>3. SpinnerTypeOK'  BY <2>1, <2>2 DEF IInv, SpinnerTypeOK
  <2>4. CallsAgree'
    <3> SUFFICES ASSUME NEW u \in Threads
                 PROVE  /\ call'[u] # NoCall => held[u][call'[u].lock] = "no"
                        /\ call'[u].method = "lock" => call'[u].expect \in {Free, Needed}
                        /\ call'[u].method = "try_lock_shared" => CanShare(call'[u].expect)
      BY <2>1 DEF CallsAgree
    <3>1. CASE u = t  BY <2>2, <3>1 DEF NoCall
    <3>2. CASE u # t  BY <2>2, <3>2 DEF IInv, CallsAgree
    <3>3. QED  BY <3>1, <3>2
  <2>5. WordCountsHolders' /\ WriterIsAlone' /\ ReadersFit'
    BY <2>1 DEF IInv, WordCountsHolders, WriterIsAlone, ReadersFit, Readers
  <2>6. NeededHasWaiter'  BY <1>1, <2>1, <2>2 DEF IInv, NeededHasWaiter
  <2>7. QED  BY <2>3, <2>4, <2>5, <2>6 DEF IInv
<1>5. QED  BY <1>3, <1>4

LEMMA SharedExchangeStep == ASSUME IInv, NEW t \in Threads, SharedExchange(t) PROVE IInv'
<1>1. call[t].method = "try_lock_shared"  BY DEF SharedExchange
<1>0. PICK l \in Locks : l = call[t].lock  BY <1>1, InCall DEF IInv
<1>2. held[t][l] = "no"  BY <1>0, <1>1, InCall DEF IInv, CallsAgree
<1>3. CanShare(call[t].expect)  BY <1>1 DEF IInv, CallsAgree
<1>4. CASE word[l] = call[t].expect
  <2> DEFINE w == [word[l] EXCEPT !.readers = @ + 1]
  <2>1. Stores(l, w) /\ Hold(t, l, "read") /\ Returns(t)
    BY <1>0, <1>1, <1>4 DEF SharedExchange
  <2>2. word[l] \in Word /\ word[l].write = 0 /\ word[l].need_lock = 0 /\ word[l].readers < MaxReaders
    BY <1>2, <1>3, <1>4 DEF CanShare, IInv, SpinnerTypeOK
  <2>3. /\ w \in Word /\ w.readers = word[l].readers + 1 /\ w.readers <= MaxReaders
        /\ w.need_lock = 0 /\ w.write = 0
    BY <2>2, SpinnerAssumption DEF Word
  <2>4. Readers(l)' = Readers(l) \union {t}
    <3>1. \A u \in Threads : held'[u][l] = IF u = t THEN "read" ELSE held[u][l]
      BY <1>2, <2>1, HoldFacts DEF IInv, Abstract!Modes
    <3>2. QED  BY <3>1 DEF Readers
  <2>5. t \notin Readers(l)  BY <1>2 DEF Readers
  <2>6. Cardinality(Readers(l)') = Cardinality(Readers(l)) + 1
    BY <2>4, <2>5, FS_AddElement, ReadersFinite
  <2>7. w.readers = Cardinality(Readers(l)')
    BY <1>2, <2>3, <2>6 DEF IInv, WordCountsHolders
  <2>8. \A u \in Threads : held[u][l] # "write"  BY <1>2, <2>2, SharedIsNotWritten
  <2> HIDE DEF w
  <2>9. QED  BY <1>1, <1>2, <2>1, <2>3, <2>7, <2>8, Changed DEF Abstract!Modes
<1>5. CASE word[l] # call[t].expect
  <2>1. Calls(t, "lock_shared", l, Free) /\ UNCHANGED <<word, held>>
    BY <1>0, <1>1, <1>5 DEF SharedExchange
  <2>2. QED  BY <1>0, <1>1, <1>2, <2>1, CallOnly, WordFacts DEF Methods
<1>6. QED  BY <1>4, <1>5

LEMMA UnlockStep ==
  ASSUME IInv, NEW t \in Threads, NEW l \in Locks, Unlock(t, l) PROVE IInv'
<1> DEFINE w == [word[l] EXCEPT !.write = 0, !.need_lock = 0]
<1>0. SpinnerTypeOK  BY DEF IInv
<1>1. /\ call[t].method = "none" /\ UNCHANGED call /\ held[t][l] = "write"
      /\ Stores(l, w) /\ Hold(t, l, "no")
  BY DEF Unlock, IdleSpinner, Has
<1>2. /\ \A u \in Threads \ {t} : held[u][l] = "no"
      /\ word[l].write = 1 /\ word[l].readers = 0 /\ word[l] \in Word
  BY <1>0, <1>1 DEF IInv, WriterIsAlone, WordCountsHolders, SpinnerTypeOK
<1>3. w \in Word /\ w.readers = 0 /\ w.need_lock = 0 /\ w.write = 0
  BY <1>2 DEF Word
<1>4. Readers(l)' = {}
  <2>1. \A u \in Threads : held'[u][l] = "no"
    BY <1>0, <1>1, <1>2, HoldFacts DEF Abstract!Modes
  <2>2. QED  BY <2>1 DEF Readers
<1>5. Cardinality(Readers(l)') = 0  BY <1>4, FS_EmptySet
<1> HIDE DEF w
<1>6. w.readers = Cardinality(Readers(l)') /\ w.readers <= MaxReaders
  BY <1>3, <1>5, SpinnerAssumption
<1>7. QED  BY <1>1, <1>2, <1>3, <1>6, Changed DEF Abstract!Modes

LEMMA UnlockSharedStep ==
  ASSUME IInv, NEW t \in Threads, NEW l \in Locks, UnlockShared(t, l) PROVE IInv'
<1> DEFINE w == [word[l] EXCEPT !.readers = @ - 1]
<1>0. SpinnerTypeOK  BY DEF IInv
<1>1. /\ call[t].method = "none" /\ UNCHANGED call /\ held[t][l] = "read"
      /\ Stores(l, w) /\ Hold(t, l, "no")
  BY DEF UnlockShared, IdleSpinner, Has
<1>2. /\ \A u \in Threads : held[u][l] # "write"
      /\ word[l].write = 0 /\ word[l].readers \in Nat \ {0}
  BY <1>1, ReadIsNotWritten
<1>3. word[l] \in Word /\ word[l].readers <= MaxReaders
  BY <1>0 DEF SpinnerTypeOK, IInv, ReadersFit
<1>4. /\ w \in Word /\ w.readers = word[l].readers - 1 /\ w.readers <= MaxReaders
      /\ w.need_lock = word[l].need_lock /\ w.write = 0
  BY <1>2, <1>3, SpinnerAssumption DEF Word
<1>5. Readers(l)' = Readers(l) \ {t}
  <2>1. \A u \in Threads : held'[u][l] = IF u = t THEN "no" ELSE held[u][l]
    BY <1>0, <1>1, HoldFacts DEF Abstract!Modes
  <2>2. QED  BY <2>1 DEF Readers
<1>6. t \in Readers(l)  BY <1>1 DEF Readers
<1>7. Cardinality(Readers(l)') = Cardinality(Readers(l)) - 1
  BY <1>5, <1>6, FS_RemoveElement, ReadersFinite
<1>8. w.readers = Cardinality(Readers(l)')
  BY <1>4, <1>7 DEF IInv, WordCountsHolders
<1> HIDE DEF w
<1>9. QED  BY <1>1, <1>2, <1>4, <1>8, Changed DEF Abstract!Modes

-----------------------------------------------------------------------------
LEMMA InitIInv == SpinnerInit => IInv
<1> SUFFICES ASSUME SpinnerInit PROVE IInv  OBVIOUS
<1> USE DEF SpinnerInit
<1>1. SpinnerTypeOK  BY WordFacts DEF SpinnerTypeOK, Abstract!Modes
<1>2. CallsAgree  BY DEF CallsAgree, NoCall
<1>3. \A l \in Locks : Readers(l) = {}  BY DEF Readers
<1>4. WordCountsHolders  BY <1>3, FS_EmptySet DEF WordCountsHolders, Free
<1>5. WriterIsAlone /\ NeededHasWaiter  BY DEF WriterIsAlone, NeededHasWaiter, Free
<1>6. ReadersFit  BY SpinnerAssumption DEF ReadersFit, Free
<1>7. QED  BY <1>1, <1>2, <1>4, <1>5, <1>6 DEF IInv

LEMMA NextIInv == IInv /\ [SpinnerNext]_spinner_vars => IInv'
<1> SUFFICES ASSUME IInv, [SpinnerNext]_spinner_vars PROVE IInv'  OBVIOUS
<1>1. CASE UNCHANGED spinner_vars
  <2>1. word' = word /\ call' = call /\ held' = held  BY <1>1 DEF spinner_vars
  <2>2. SpinnerTypeOK'  BY <2>1 DEF IInv, SpinnerTypeOK
  <2>3. CallsAgree'  BY <2>1 DEF IInv, CallsAgree
  <2>4. WordCountsHolders'  BY <2>1 DEF IInv, WordCountsHolders, Readers
  <2>5. WriterIsAlone' /\ NeededHasWaiter' /\ ReadersFit'
    BY <2>1 DEF IInv, WriterIsAlone, NeededHasWaiter, ReadersFit
  <2>6. QED  BY <2>2, <2>3, <2>4, <2>5 DEF IInv
<1>2. ASSUME NEW t \in Threads, SpinnerStep(t) PROVE IInv'
  BY <1>2, LockExchangeStep, FailedLockStep, TryLockExchangeStep, LoadSharedStep,
     SharedExchangeStep DEF SpinnerStep
<1>3. ASSUME NEW t \in Threads, NEW l \in Locks,
             Lock(t, l) \/ TryLock(t, l) \/ LockShared(t, l) \/ Unlock(t, l) \/ UnlockShared(t, l)
      PROVE  IInv'
  BY <1>3, LockStep, TryLockStep, LockSharedStep, UnlockStep, UnlockSharedStep
<1>4. ASSUME NEW t \in Threads, NEW l \in Locks, TryLockRefused(t, l) PROVE IInv'
  BY <1>1, <1>4 DEF TryLockRefused
<1>5. QED  BY <1>1, <1>2, <1>3, <1>4 DEF SpinnerNext

LEMMA Invariance == SpinnerSpec => []IInv
BY InitIInv, NextIInv, PTL DEF SpinnerSpec

\* A writer is alone, whatever the threads call and in whatever order.
THEOREM SpinnerExclusion == SpinnerSpec => []WriterIsAlone
<1>1. IInv => WriterIsAlone  BY DEF IInv
<1>2. QED  BY <1>1, Invariance, PTL

\* The word always tells who has the lock.
THEOREM SpinnerWordCounts == SpinnerSpec => []WordCountsHolders
<1>1. IInv => WordCountsHolders  BY DEF IInv
<1>2. QED  BY <1>1, Invariance, PTL

\* No mark of a waiting writer is left behind.
THEOREM SpinnerNeedIsReal == SpinnerSpec => []NeededHasWaiter
<1>1. IInv => NeededHasWaiter  BY DEF IInv
<1>2. QED  BY <1>1, Invariance, PTL

\* The count of readers never reaches the other bits of the word.
THEOREM SpinnerReadersFit == SpinnerSpec => []ReadersFit
<1>1. IInv => ReadersFit  BY DEF IInv
<1>2. QED  BY <1>1, Invariance, PTL

-----------------------------------------------------------------------------
(* The spin locks implement the locks of SharedLock. *)

\* A step of a call gives a lock only to a thread that SharedLock lets in.
LEMMA SpinnerStepImplements ==
  ASSUME IInv, NEW t \in Threads, SpinnerStep(t)
  PROVE  [Abstract!Next]_held
<1>0. call[t].method # "none"
  BY DEF SpinnerStep, LockExchange, FailedLock, TryLockExchange, LoadShared, SharedExchange
<1>1. PICK l \in Locks : l = call[t].lock  BY <1>0, InCall DEF IInv
<1>2. held[t][l] = "no"  BY <1>0, <1>1, InCall DEF IInv, CallsAgree
<1>3. CASE UNCHANGED held  BY <1>3
<1>4. CASE word[l] \in {Free, Needed} /\ Hold(t, l, "write")
  <2>1. \A u \in Threads : held[u][l] = "no"  BY <1>4, FreeIsHeldByNone
  <2>2. Abstract!Acquire(t, l)  BY <1>4, <2>1 DEF Abstract!Acquire, Abstract!Hold, Hold
  <2>3. QED  BY <2>2 DEF Abstract!Next
<1>5. CASE CanShare(word[l]) /\ Hold(t, l, "read")
  <2>1. \A u \in Threads : held[u][l] # "write"  BY <1>5, SharedIsNotWritten DEF CanShare
  <2>2. Abstract!AcquireShared(t, l)
    BY <1>2, <1>5, <2>1 DEF Abstract!AcquireShared, Abstract!Hold, Hold
  <2>3. QED  BY <2>2 DEF Abstract!Next
<1>6. CASE LockExchange(t)
  <2>1. call[t].expect \in {Free, Needed}  BY <1>6 DEF LockExchange, IInv, CallsAgree
  <2>2. QED  BY <1>1, <1>3, <1>4, <1>6, <2>1 DEF LockExchange
<1>7. CASE TryLockExchange(t)  BY <1>1, <1>3, <1>4, <1>7 DEF TryLockExchange
<1>8. CASE SharedExchange(t)
  <2>1. CanShare(call[t].expect)  BY <1>8 DEF SharedExchange, IInv, CallsAgree
  <2>2. QED  BY <1>1, <1>3, <1>5, <1>8, <2>1 DEF SharedExchange
<1>9. CASE FailedLock(t) \/ LoadShared(t)  BY <1>3, <1>9 DEF FailedLock, LoadShared
<1>10. QED  BY <1>6, <1>7, <1>8, <1>9 DEF SpinnerStep

\* An unlock gives back a lock that the thread has.
LEMMA UnlockImplements ==
  ASSUME NEW t \in Threads, NEW l \in Locks, Unlock(t, l) \/ UnlockShared(t, l)
  PROVE  Abstract!Next
<1>1. held[t][l] # "no" /\ Hold(t, l, "no")  BY DEF Unlock, UnlockShared, Has
<1>2. Abstract!Release(t, l)  BY <1>1 DEF Abstract!Release, Abstract!Hold, Hold
<1>3. QED  BY <1>2 DEF Abstract!Next

\* The words and the steps of the code show nothing that a lock for one writer or
\* several readers does not: SharedSpinner implements SharedLock.
THEOREM SpinnerImplementsLock == SpinnerSpec => ImplementsLock
<1>1. SpinnerInit => Abstract!Init  BY DEF SpinnerInit, Abstract!Init
<1>2. IInv /\ [SpinnerNext]_spinner_vars => [Abstract!Next]_held
  <2> SUFFICES ASSUME IInv, [SpinnerNext]_spinner_vars PROVE [Abstract!Next]_held  OBVIOUS
  <2>1. CASE UNCHANGED spinner_vars  BY <2>1 DEF spinner_vars
  <2>2. ASSUME NEW t \in Threads, SpinnerStep(t) PROVE [Abstract!Next]_held
    BY <2>2, SpinnerStepImplements
  <2>3. ASSUME NEW t \in Threads, NEW l \in Locks,
               Lock(t, l) \/ TryLock(t, l) \/ TryLockRefused(t, l) \/ LockShared(t, l)
        PROVE  UNCHANGED held
    BY <2>3 DEF Lock, TryLock, TryLockRefused, LockShared, spinner_vars
  <2>4. ASSUME NEW t \in Threads, NEW l \in Locks, Unlock(t, l) \/ UnlockShared(t, l)
        PROVE  Abstract!Next
    BY <2>4, UnlockImplements
  <2>5. QED  BY <2>1, <2>2, <2>3, <2>4 DEF SpinnerNext
<1>3. QED  BY <1>1, <1>2, Invariance, PTL DEF SpinnerSpec, ImplementsLock, Abstract!Spec

-----------------------------------------------------------------------------
(* The vector *)

-----------------------------------------------------------------------------
(* The invariant *)

\* What a compressed buffer can be.
Buffers == {Null} \union {Buffer(n) : n \in Nat}

Contexts == 1..MaxContexts

Pcs == {"next", "load", "decompress", "make", "find", "tried", "unlink", "unlock", "fill",
        "publish", "complete", "access", "write", "mark", "dealloc", "add", "leave"}

Operations ==
  [pc : Pcs, op : {"for_each", "const_for_each", "move"}, todo : Seq(Buckets), bucket : Locks,
   cur : Contexts \union {NoContext}, at : Nat, found : Nat, buffer : Buffers, seen : Nat]

RawBuffers ==
  [size : {"empty", "partial", "full"}, dirty : {0, 1}, block_index : Buckets \union {NoBucket},
   buffer : Buffers, storage : Nat]

VectorTypeOK ==
  /\ d_buckets \in [Buckets -> [raw : Contexts \union {NoContext}, compressed : Buffers]]
  /\ contexts \in [Contexts -> RawBuffers]
  /\ heap \subseteq Contexts
  /\ d_contexts \in Seq(heap)
  /\ live \in Int
  /\ done \in [Buckets -> Nat]
  /\ local \in [Threads -> Operations]

\* What a bucket's lock is held for.
Mode(t) == IF local[t].op = "for_each" THEN "write" ELSE "read"

\* The calls of a lock that an operation makes, and where.
CallFits(t) ==
  LET c == call[t]
  IN  \/ IdleSpinner(t)
      \/ /\ local[t].pc = "load" /\ c.lock = Bucket(t)
         /\ c.method \in (IF Mode(t) = "write" THEN {"lock", "failed_lock"}
                          ELSE {"lock_shared", "try_lock_shared"})
      \/ /\ local[t].pc \in {"decompress", "dealloc"} /\ c.lock = d_lock
         /\ c.method \in {"lock", "failed_lock"}
      \/ /\ local[t].pc = "tried" /\ c.method = "try_lock"
         /\ c.lock = contexts[Candidate(t)].block_index /\ c.lock # d_lock

\* An operation has the lock of its bucket from its return on.
InBucket(t) == local[t].pc # "next" /\ (local[t].pc = "load" => IdleSpinner(t))

Searching == {"find", "tried", "unlink", "unlock"}

Unpublished == {"make", "fill", "publish"} \union Searching

\* decompress_bucket and dealloc_bucket, from the return of d_lock's lock on.
InSection(t) ==
  \/ local[t].pc \in Unpublished \union {"complete"}
  \/ local[t].pc \in {"decompress", "dealloc"} /\ IdleSpinner(t)

LocksFit(t) ==
  /\ CallFits(t)
  /\ local[t].pc # "next" => Bucket(t) \in Buckets
  /\ InBucket(t) => Has(t, Bucket(t), Mode(t))
  /\ InSection(t) => Has(t, d_lock, "write")

\* A context has a buffer, which holds its values unless reads meet writes.
IsSaved(raw) == raw.buffer # Null /\ (WritesMeetNoReads => raw.buffer = Buffer(raw.storage))

\* The context at place p of the list is saved, and its bucket locked, for the search.
Taken(t, p) ==
  LET c == d_contexts[p]
      b == contexts[c].block_index
  IN  b # NoBucket => /\ Has(t, b, "write") /\ d_buckets[b].raw = c
                      /\ IsSaved(contexts[c])

SearchOK(t) ==
  LET at == local[t].at
      found == local[t].found
      pc == local[t].pc
      b == contexts[Candidate(t)].block_index
  IN  /\ at <= Len(d_contexts) /\ (pc # "find" => at > 0)
      /\ Inner(t) => at < found /\ found <= Len(d_contexts) /\ Taken(t, found)
      /\ pc = "unlink" => Taken(t, at)
      /\ pc = "unlock" => /\ at = 1
                          /\ b # NoBucket => /\ Has(t, b, "write") /\ b # Bucket(t)
                                             /\ d_buckets[b].raw = NoContext

\* The context that a bucket is decompressed into.
TargetOK(t) ==
  LET c == contexts[Cur(t)]
      b == d_buckets[Bucket(t)]
      pc == local[t].pc
  IN  /\ Cur(t) \in heap
      /\ c.block_index = (IF pc = "fill" THEN NoBucket ELSE Bucket(t))
      /\ pc # "fill" => c.buffer = Null /\ local[t].buffer # Null
      /\ pc = "publish" => b.compressed = local[t].buffer
      /\ pc = "complete" => b.raw = Cur(t)
      /\ WritesMeetNoReads /\ (pc = "publish" \/ (pc = "complete" /\ local[t].op # "move")) =>
           local[t].buffer = Buffer(c.storage)

SectionOK(t) ==
  /\ local[t].pc \in {"next", "load", "decompress"} => ~Inner(t)
  /\ local[t].pc \in Unpublished => d_buckets[Bucket(t)].raw = NoContext
  /\ local[t].pc \in Searching => SearchOK(t)
  /\ local[t].pc \in {"fill", "publish", "complete"} => TargetOK(t)

\* A step that makes the context of the bucket dirty, or saved, is still to come.
Unsaved(t) ==
  \/ local[t].pc \in {"mark", "complete"}
  \/ local[t].pc = "access" /\ local[t].op = "move"

Covered(b) ==
  \/ contexts[d_buckets[b].raw].dirty = 1
  \/ \E t \in Threads : Bucket(t) = b /\ Unsaved(t)

AccessOK(t) ==
  local[t].pc \in Accesses =>
    /\ Cur(t) \in heap /\ d_buckets[Bucket(t)].raw = Cur(t)
    /\ contexts[Cur(t)].block_index = Bucket(t)
    /\ local[t].pc = "write" => local[t].seen = contexts[Cur(t)].storage
    /\ local[t].pc \in {"write", "mark", "dealloc"} => local[t].op = "for_each"
    /\ local[t].pc = "add" => local[t].op = "move" /\ (WritesMeetNoReads => Covered(Bucket(t)))

\* A context that is being given away, or is not published yet.
InTransit(c) ==
  \E t \in Threads :
    \/ local[t].pc = "unlock" /\ c = Candidate(t)
    \/ local[t].pc = "publish" /\ c = Cur(t)

ListOK ==
  /\ IsInjective(d_contexts)
  /\ \A b \in Buckets :
       LET raw == d_buckets[b].raw
       IN  raw # NoContext =>
             /\ raw \in heap /\ contexts[raw].block_index = b
             /\ Covered(b) \/ IsSaved(contexts[raw])
  /\ \A c \in heap :
       LET b == contexts[c].block_index
       IN  IF b = NoBucket THEN contexts[c].dirty = 0 /\ contexts[c].buffer = Null
           ELSE d_buckets[b].raw = c \/ InTransit(c)

Owned(b) ==
  \/ HasBuffer(b)
  \/ \E t \in Threads : local[t].pc = "complete" /\ Bucket(t) = b

\* What the next reader of a bucket finds.
ContentOK ==
  \A b \in Buckets :
    /\ d_buckets[b].raw = NoContext => d_buckets[b].compressed # Null
    /\ WritesMeetNoReads => Holds(b, done[b])

BuffersCounted == live = Cardinality({b \in Buckets : Owned(b)})

\* The mixtures of operations.
MixOK ==
  WritesMeetNoReads => \A t, u \in Threads : ~(local[t].op = "const_for_each" /\ local[u].op = "move")

ThreadOK(t) == LocksFit(t) /\ SectionOK(t) /\ AccessOK(t)

VectorInv ==
  /\ VectorTypeOK /\ MixOK
  /\ \A t \in Threads : ThreadOK(t)
  /\ ListOK /\ ContentOK /\ BuffersCounted

-----------------------------------------------------------------------------
(* Data *)

LEMMA BufferFacts ==
  /\ Null \in Buffers
  /\ \A n \in Nat : /\ Buffer(n) \in Buffers /\ Buffer(n) # Null /\ Head(Buffer(n)) = n
  /\ \A b \in Buffers : b # Null => \E n \in Nat : b = Buffer(n)
BY DEF Buffers, Null, Buffer

LEMMA BufferInjective == \A m, n \in Nat : Buffer(m) = Buffer(n) => m = n
BY DEF Buffer

LEMMA LocksAreNumbers ==
  /\ d_lock \in Locks /\ Buckets = Locks \ {d_lock} /\ NoBucket \notin Buckets
  /\ IsFiniteSet(Buckets) /\ Locks \subseteq Nat
  /\ Cardinality(Buckets) \in Buckets
  /\ NoContext \notin Contexts
<1>1. /\ IsFiniteSet(Locks) /\ Cardinality(Locks) \in Nat /\ Cardinality(Locks) > 1
      /\ Locks = 0..(Cardinality(Locks) - 1)
  BY SharedAssumption, FS_CardinalityType
<1>2. d_lock \in Locks /\ Locks \subseteq Nat  BY <1>1 DEF d_lock
<1>3. IsFiniteSet(Buckets) /\ Cardinality(Buckets) = Cardinality(Locks) - 1
  BY <1>1, <1>2, FS_RemoveElement DEF Buckets
<1>4. Cardinality(Buckets) \in Buckets  BY <1>1, <1>3 DEF Buckets, d_lock
<1> QED BY <1>2, <1>3, <1>4 DEF Buckets, NoBucket, NoContext, d_lock, Contexts

\* A list whose element at place p is moved to the front has the same elements.
LEMMA ToFrontFacts ==
  ASSUME NEW S, NEW list \in Seq(S), IsInjective(list), NEW p \in 1..Len(list)
  PROVE  /\ ToFront(list, p) \in Seq(S) /\ Len(ToFront(list, p)) = Len(list)
         /\ IsInjective(ToFront(list, p))
         /\ ToFront(list, p)[1] = list[p]
         /\ \A i \in 1..Len(list) : i > p => ToFront(list, p)[i] = list[i]
<1> DEFINE f == ToFront(list, p)
<1>1. /\ DOMAIN list = 1..Len(list) /\ Len(list) \in Nat
      /\ \A i \in 1..Len(list) : list[i] \in S
  OBVIOUS
<1>2. f = [i \in 1..Len(list) |->
            IF i = 1 THEN list[p] ELSE IF i <= p THEN list[i - 1] ELSE list[i]]
  BY <1>1 DEF ToFront
<1>3. \A i \in 1..Len(list) :
        f[i] = IF i = 1 THEN list[p] ELSE IF i <= p THEN list[i - 1] ELSE list[i]
  BY <1>2
<1>4. \A i \in 1..Len(list) : f[i] \in S
  <2> TAKE i \in 1..Len(list)
  <2>1. i # 1 => i - 1 \in 1..Len(list)  BY <1>1
  <2> QED BY <1>1, <1>3, <2>1
<1>5. f \in Seq(S) /\ Len(f) = Len(list)
  <2> HIDE DEF f
  <2>1. f = [i \in 1..Len(list) |-> f[i]]  BY <1>2
  <2>2. f \in [1..Len(list) -> S]  BY <1>4, <2>1
  <2> QED BY <1>1, <2>2
<1>6. IsInjective(f)
  <2> SUFFICES ASSUME NEW i \in 1..Len(list), NEW j \in 1..Len(list), f[i] = f[j]
               PROVE  i = j
    BY <1>2 DEF IsInjective
  <2> DEFINE place(k) == IF k = 1 THEN p ELSE IF k <= p THEN k - 1 ELSE k
  <2>1. \A k \in 1..Len(list) : place(k) \in 1..Len(list) /\ f[k] = list[place(k)]
    BY <1>1, <1>3
  <2>2. place(i) = place(j)  BY <1>1, <2>1 DEF IsInjective
  <2> QED BY <2>2
<1> QED BY <1>1, <1>3, <1>5, <1>6

-----------------------------------------------------------------------------
(* What the calls and the steps of a lock do *)

OthersInLocks(t) ==
  \A u \in Threads : u # t => held'[u] = held[u] /\ call'[u] = call[u]

LEMMA CallStarts ==
  ASSUME IInv, NEW t \in Threads, NEW l \in Locks, NEW method,
         \/ method = "lock" /\ Lock(t, l)
         \/ method = "lock_shared" /\ LockShared(t, l)
         \/ method = "try_lock" /\ TryLock(t, l)
  PROVE  /\ IInv' /\ SpinnerNext /\ OthersInLocks(t) /\ held' = held
         /\ call'[t].method = method /\ call'[t].lock = l /\ ~IdleSpinner(t)'
<1>1. method \in Methods \ {"none"}  BY DEF Methods
<1>2. Calls(t, method, l, Free) /\ UNCHANGED <<word, held>>
  BY DEF Lock, LockShared, TryLock
<1>3. /\ call'[t] = [method |-> method, lock |-> l, expect |-> Free]
      /\ \A u \in Threads : u # t => call'[u] = call[u]
  BY <1>1, <1>2, CallFacts, WordFacts DEF IInv
<1>4. IInv'  BY LockStep, LockSharedStep, TryLockStep
<1> QED BY <1>1, <1>2, <1>3, <1>4 DEF OthersInLocks, IdleSpinner, SpinnerNext

LEMMA LockEnds ==
  ASSUME IInv, NEW t \in Threads, NEW l \in Locks, Unlock(t, l) \/ UnlockShared(t, l)
  PROVE  /\ IInv' /\ SpinnerNext /\ OthersInLocks(t) /\ call' = call
         /\ IdleSpinner(t) /\ IdleSpinner(t)'
         /\ \A k \in Locks : k # l => held'[t][k] = held[t][k]
<1>1. call' = call /\ IdleSpinner(t) /\ Hold(t, l, "no")  BY DEF Unlock, UnlockShared
<1>2. \A u \in Threads, k \in Locks : (u # t \/ k # l) => held'[u][k] = held[u][k]
  BY <1>1, HoldFacts DEF IInv, Abstract!Modes
<1>3. \A u \in Threads : u # t => held'[u] = held[u]
  BY <1>1 DEF Hold, IInv, SpinnerTypeOK
<1>4. IInv'  BY UnlockStep, UnlockSharedStep
<1> QED BY <1>1, <1>2, <1>3, <1>4 DEF OthersInLocks, IdleSpinner, SpinnerNext

Exclusive == {"lock", "failed_lock"}
Shared    == {"lock_shared", "try_lock_shared"}

LEMMA CallGoesOn ==
  ASSUME IInv, NEW t \in Threads, SpinnerStep(t)
  PROVE  /\ IInv' /\ SpinnerNext /\ OthersInLocks(t) /\ ~IdleSpinner(t)
         /\ call[t].lock \in Locks /\ held[t][call[t].lock] = "no"
         /\ \A k \in Locks : k # call[t].lock => held'[t][k] = held[t][k]
         /\ \/ /\ ~IdleSpinner(t)' /\ call'[t].lock = call[t].lock
               /\ call[t].method # "try_lock"
               /\ call[t].method \in Exclusive => call'[t].method \in Exclusive
               /\ call[t].method \in Shared => call'[t].method \in Shared
            \/ /\ IdleSpinner(t)'
               /\ call[t].method \in Exclusive => held'[t][call[t].lock] = "write"
               /\ call[t].method \in Shared => held'[t][call[t].lock] = "read"
<1> DEFINE l == call[t].lock
<1>1. ~IdleSpinner(t)
  BY DEF SpinnerStep, LockExchange, FailedLock, TryLockExchange, LoadShared, SharedExchange,
         IdleSpinner
<1>2. l \in Locks /\ held[t][l] = "no" /\ word[l] \in Word /\ SpinnerTypeOK
  <2>1. l \in Locks /\ held[t][l] = "no"
    BY <1>1, InCall DEF IInv, CallsAgree, IdleSpinner
  <2> QED BY <2>1 DEF IInv, SpinnerTypeOK
<1>3. IInv'
  BY LockExchangeStep, FailedLockStep, TryLockExchangeStep, LoadSharedStep, SharedExchangeStep
     DEF SpinnerStep
<1> DEFINE Goes(m) == UNCHANGED held /\ \E x \in Word : Calls(t, m, l, x)
           Gets(mode) == Hold(t, l, mode) /\ Returns(t)
<1> HIDE DEF Goes
<1>0. ASSUME NEW m, Goes(m), m \in Methods \ {"none"}
      PROVE  /\ call'[t].method = m /\ call'[t].lock = l /\ held' = held
             /\ \A u \in Threads : u # t => call'[u] = call[u]
  <2>1. PICK x \in Word : Calls(t, m, l, x)  BY <1>0 DEF Goes
  <2>2. /\ call'[t] = [method |-> m, lock |-> l, expect |-> x]
        /\ \A u \in Threads : u # t => call'[u] = call[u]
    BY ONLY <1>0, <1>2, <2>1, CallFacts
  <2> QED BY <1>0, <2>2 DEF Goes
<1>4. CASE Goes("failed_lock") /\ call[t].method = "lock"
  BY <1>0, <1>1, <1>2, <1>3, <1>4
     DEF OthersInLocks, IdleSpinner, SpinnerNext, Exclusive, Shared, Methods
<1>5. CASE Goes("lock") /\ call[t].method = "failed_lock"
  BY <1>0, <1>1, <1>2, <1>3, <1>5
     DEF OthersInLocks, IdleSpinner, SpinnerNext, Exclusive, Shared, Methods
<1>6. CASE \/ Goes("try_lock_shared") /\ call[t].method = "lock_shared"
           \/ Goes("lock_shared") /\ call[t].method = "try_lock_shared"
  BY <1>0, <1>1, <1>2, <1>3, <1>6
     DEF OthersInLocks, IdleSpinner, SpinnerNext, Exclusive, Shared, Methods
<1>7. CASE \/ Gets("write") /\ call[t].method = "lock"
           \/ Gets("read") /\ call[t].method = "try_lock_shared"
           \/ Gets("write") /\ call[t].method = "try_lock"
  <2>1. PICK mode \in {"read", "write"} :
          /\ Gets(mode)
          /\ call[t].method \in Exclusive => mode = "write"
          /\ call[t].method \in Shared => mode = "read"
    BY <1>7 DEF Exclusive, Shared
  <2>2. /\ call'[t] = NoCall /\ \A u \in Threads : u # t => call'[u] = call[u]
    BY <1>2, <2>1, ReturnFacts
  <2>3. /\ held'[t][l] = mode
        /\ \A u \in Threads, k \in Locks : (u # t \/ k # l) => held'[u][k] = held[u][k]
    BY <1>2, <2>1, HoldFacts DEF Abstract!Modes
  <2>4. \A u \in Threads : u # t => held'[u] = held[u]
    BY <1>2, <2>1 DEF Hold, SpinnerTypeOK
  <2> QED BY <1>1, <1>2, <1>3, <2>1, <2>2, <2>3, <2>4 DEF OthersInLocks, IdleSpinner, SpinnerNext, NoCall
<1>8. CASE UNCHANGED held /\ Returns(t) /\ call[t].method = "try_lock"
  <2>1. /\ call'[t] = NoCall /\ \A u \in Threads : u # t => call'[u] = call[u]
    BY <1>2, <1>8, ReturnFacts
  <2> QED BY <1>1, <1>2, <1>3, <1>8, <2>1
          DEF OthersInLocks, IdleSpinner, SpinnerNext, NoCall, Exclusive, Shared
<1> HIDE DEF l
<1>9. CASE LockExchange(t)  BY <1>2, <1>4, <1>7, <1>9 DEF LockExchange, Goes, l
<1>10. CASE FailedLock(t)  BY <1>5, <1>10, WordFacts DEF FailedLock, Goes, l
<1>11. CASE TryLockExchange(t)  BY <1>7, <1>8, <1>11 DEF TryLockExchange, l
<1>12. CASE LoadShared(t)  BY <1>2, <1>6, <1>12 DEF LoadShared, Goes, l
<1>13. CASE SharedExchange(t)  BY <1>6, <1>7, <1>13, WordFacts DEF SharedExchange, Goes, l
<1> QED BY <1>9, <1>10, <1>11, <1>12, <1>13 DEF SpinnerStep

-----------------------------------------------------------------------------
(* The threads that a step leaves alone *)

\* Nothing of a thread changes.
SameThread(u) == local'[u] = local[u] /\ call'[u] = call[u] /\ held'[u] = held[u]

OthersSame(t) == \A u \in Threads : u # t => SameThread(u)

\* A thread that is not between lock and unlock of d_lock relies on its own locks only.
LEMMA OutsideStays ==
  ASSUME NEW u \in Threads, SameThread(u), LocksFit(u), SectionOK(u), ~InSection(u)
  PROVE  LocksFit(u)' /\ SectionOK(u)'
<1>1. local[u].pc \notin Unpublished \union {"complete"}  BY DEF InSection
<1>2. local[u].pc # "tried"  BY <1>1 DEF Unpublished, Searching
<1>3. CallFits(u)'
  BY <1>2 DEF LocksFit, CallFits, SameThread, IdleSpinner, Bucket, Mode
<1>4. LocksFit(u)'
  BY <1>3 DEF LocksFit, SameThread, InBucket, InSection, IdleSpinner, Bucket, Mode, Has
<1>5. SectionOK(u)'
  BY <1>1 DEF SectionOK, SameThread, Unpublished, Searching, Inner
<1> QED BY <1>4, <1>5

\* d_lock has one owner.
LEMMA OneInSection ==
  ASSUME IInv, VectorInv, NEW t \in Threads, InSection(t), NEW u \in Threads, u # t
  PROVE  ~InSection(u)
BY LocksAreNumbers DEF IInv, WriterIsAlone, VectorInv, ThreadOK, LocksFit, Has

\* A bucket that one thread writes is in the hands of no other one.
LEMMA WriterHasBucket ==
  ASSUME IInv, VectorInv, NEW t \in Threads, NEW u \in Threads, u # t,
         InBucket(u), Has(t, Bucket(u), "write")
  PROVE  FALSE
<1>1. held[u][Bucket(u)] \in {"read", "write"} /\ Bucket(u) \in Locks
  BY LocksAreNumbers DEF VectorInv, ThreadOK, LocksFit, Has, Mode, InBucket
<1> QED BY <1>1 DEF IInv, WriterIsAlone, Has

LEMMA AccessStays ==
  ASSUME NEW u \in Threads, local'[u] = local[u], AccessOK(u),
         local[u].pc \in Accesses =>
           /\ d_buckets'[Bucket(u)].raw = d_buckets[Bucket(u)].raw
           /\ Cur(u) \in heap'
           /\ contexts'[Cur(u)].block_index = contexts[Cur(u)].block_index
           /\ local[u].pc = "write" => contexts'[Cur(u)].storage = contexts[Cur(u)].storage
           /\ WritesMeetNoReads /\ local[u].pc = "add" => Covered(Bucket(u))'
  PROVE  AccessOK(u)'
<1>1. Bucket(u)' = Bucket(u) /\ Cur(u)' = Cur(u)  BY DEF Bucket, Cur
<1> QED BY <1>1 DEF AccessOK

\* What a thread relies on is where it was, when neither its place nor the vector changes.
LEMMA ThreadStays ==
  ASSUME NEW u \in Threads, UNCHANGED vector_vars, SameThread(u), LocksFit(u), SectionOK(u)
  PROVE  LocksFit(u)' /\ SectionOK(u)'
<1>1. /\ d_buckets' = d_buckets /\ contexts' = contexts /\ heap' = heap
      /\ d_contexts' = d_contexts
  BY DEF vector_vars
<1>2. CallFits(u)'
  BY <1>1 DEF SameThread, LocksFit, CallFits, IdleSpinner, Bucket, Mode, Candidate
<1>3. LocksFit(u)'
  BY <1>2 DEF SameThread, LocksFit, InBucket, InSection, IdleSpinner, Bucket, Mode, Has
<1>4. \A p : Taken(u, p)' = Taken(u, p)  BY <1>1 DEF Taken, SameThread, Has
<1>5. SearchOK(u)' = SearchOK(u)
  BY <1>1, <1>4 DEF SearchOK, SameThread, Inner, Candidate, Has, Bucket
<1>6. TargetOK(u)' = TargetOK(u)  BY <1>1 DEF TargetOK, SameThread, Cur, Bucket
<1>7. SectionOK(u)'
  BY <1>1, <1>5, <1>6 DEF SectionOK, SameThread, Bucket, Inner
<1> QED BY <1>3, <1>7

\* Only what a thread does next changes, or its locks: the vector does not.
LEMMA VectorStays ==
  ASSUME IInv, VectorInv, NEW t \in Threads, UNCHANGED vector_vars, OthersSame(t),
         local' \in [Threads -> Operations], local'[t].op = local[t].op,
         Unsaved(t) => Unsaved(t)' /\ Bucket(t)' = Bucket(t),
         local[t].pc \notin {"unlock", "publish", "complete"},
         local'[t].pc \notin {"unlock", "publish", "complete"},
         ThreadOK(t)'
  PROVE  VectorInv'
<1>1. /\ d_buckets' = d_buckets /\ contexts' = contexts /\ heap' = heap
      /\ d_contexts' = d_contexts /\ live' = live /\ done' = done
  BY DEF vector_vars
<1>2. \A u \in Threads : u # t => local'[u] = local[u]  BY DEF OthersSame, SameThread
<1>3. VectorTypeOK'  BY <1>1 DEF VectorInv, VectorTypeOK
<1>4. MixOK'  BY <1>2 DEF VectorInv, MixOK
<1>5. ASSUME NEW u \in Threads, Unsaved(u) PROVE Unsaved(u)' /\ Bucket(u)' = Bucket(u)
  BY <1>2, <1>5 DEF Unsaved, Bucket
<1>6. ASSUME NEW b \in Buckets, Covered(b) PROVE Covered(b)'
  <2>1. CASE contexts[d_buckets[b].raw].dirty = 1  BY <1>1, <2>1 DEF Covered
  <2>2. CASE \E u \in Threads : Bucket(u) = b /\ Unsaved(u)
    <3>1. PICK u \in Threads : Bucket(u) = b /\ Unsaved(u)  BY <2>2
    <3>2. Bucket(u)' = b /\ Unsaved(u)'  BY <1>5, <3>1
    <3> QED BY <3>2 DEF Covered
  <2> QED BY <1>6, <2>1, <2>2 DEF Covered
<1>7. ASSUME NEW u \in Threads, u # t PROVE ThreadOK(u)'
  <2>1. ThreadOK(u) /\ SameThread(u)  BY <1>7 DEF VectorInv, OthersSame
  <2>2. LocksFit(u)' /\ SectionOK(u)'  BY <2>1, ThreadStays DEF ThreadOK
  <2>3. AccessOK(u)'
    <3>1. local[u].pc \in Accesses => Bucket(u) \in Buckets
      BY <2>1 DEF ThreadOK, LocksFit, Accesses
    <3>2. WritesMeetNoReads /\ local[u].pc = "add" => Covered(Bucket(u))'
      <4>1. WritesMeetNoReads /\ local[u].pc = "add" => Covered(Bucket(u))
        BY <2>1 DEF ThreadOK, AccessOK, Accesses
      <4> QED BY <1>6, <3>1, <4>1, <2>1 DEF Accesses, Bucket, SameThread
    <3> QED BY <1>1, <2>1, <3>2, AccessStays DEF ThreadOK, AccessOK, SameThread
  <2> QED BY <2>2, <2>3 DEF ThreadOK
<1>8. ListOK'
  <2>1. ASSUME NEW c, InTransit(c) PROVE InTransit(c)'
    BY <1>1, <1>2, <2>1 DEF InTransit, Candidate, Cur
  <2> QED BY <1>1, <1>6, <2>1 DEF VectorInv, ListOK
<1>9. ContentOK'  BY <1>1 DEF VectorInv, ContentOK, Holds
<1>10. BuffersCounted'
  <2>1. ASSUME NEW b \in Buckets PROVE Owned(b)' <=> Owned(b)
    BY <1>1, <1>2 DEF Owned, HasBuffer, Bucket
  <2> QED BY <1>1, <2>1 DEF VectorInv, BuffersCounted
<1> QED BY <1>3, <1>4, <1>7, <1>8, <1>9, <1>10 DEF VectorInv

-----------------------------------------------------------------------------
(* What a thread is at *)

LEMMA OperationFacts ==
  ASSUME VectorInv, NEW t \in Threads
  PROVE  /\ ThreadOK(t) /\ local[t] \in Operations
         /\ local[t].pc \in Pcs /\ local[t].op \in {"for_each", "const_for_each", "move"}
         /\ local[t].todo \in Seq(Buckets) /\ Bucket(t) \in Locks
         /\ Cur(t) \in Contexts \union {NoContext} /\ local[t].at \in Nat
         /\ local[t].found \in Nat /\ local[t].buffer \in Buffers /\ local[t].seen \in Nat
BY DEF VectorInv, VectorTypeOK, Operations, Bucket, Cur

LEMMA VectorFacts ==
  ASSUME VectorInv
  PROVE  /\ \A b \in Buckets : /\ d_buckets[b].raw \in Contexts \union {NoContext}
                               /\ d_buckets[b].compressed \in Buffers
         /\ \A c \in Contexts :
              /\ contexts[c] \in RawBuffers /\ contexts[c].dirty \in {0, 1}
              /\ contexts[c].block_index \in Buckets \union {NoBucket}
              /\ contexts[c].buffer \in Buffers /\ contexts[c].storage \in Nat
         /\ heap \subseteq Contexts
         /\ Len(d_contexts) \in Nat /\ DOMAIN d_contexts = 1..Len(d_contexts)
         /\ \A p \in 1..Len(d_contexts) : d_contexts[p] \in heap
         /\ \A b \in Buckets : done[b] \in Nat
BY DEF VectorInv, VectorTypeOK, RawBuffers

\* A step of a thread changes its own place only.
LEMMA PlaceChanges ==
  ASSUME VectorInv, NEW t \in Threads, NEW job \in Operations,
         local' = [local EXCEPT ![t] = job]
  PROVE  /\ local' \in [Threads -> Operations] /\ local'[t] = job
         /\ \A u \in Threads : u # t => local'[u] = local[u]
BY DEF VectorInv, VectorTypeOK

LEMMA StepFacts ==
  ASSUME VectorInv, NEW t \in Threads, NEW pc \in Pcs, Step(t, pc)
  PROVE  /\ local' \in [Threads -> Operations]
         /\ \A u \in Threads : u # t => local'[u] = local[u]
         /\ local'[t] = [local[t] EXCEPT !.pc = pc] /\ local'[t].pc = pc
         /\ local'[t].op = local[t].op /\ Bucket(t)' = Bucket(t) /\ Cur(t)' = Cur(t)
         /\ local'[t].at = local[t].at /\ local'[t].found = local[t].found
         /\ local'[t].buffer = local[t].buffer /\ local'[t].seen = local[t].seen
<1>1. local[t] \in Operations  BY OperationFacts
<1>2. [local[t] EXCEPT !.pc = pc] \in Operations  BY <1>1 DEF Operations
<1>3. local' = [local EXCEPT ![t] = [local[t] EXCEPT !.pc = pc]]
  BY DEF Step, VectorInv, VectorTypeOK
<1>4. local'[t] = [local[t] EXCEPT !.pc = pc]  BY <1>2, <1>3, PlaceChanges
<1> QED BY <1>1, <1>2, <1>3, <1>4, PlaceChanges DEF Operations, Bucket, Cur

LEMMA StepAtFacts ==
  ASSUME VectorInv, NEW t \in Threads, NEW pc \in Pcs, NEW p \in Nat, StepAt(t, pc, p)
  PROVE  /\ local' \in [Threads -> Operations]
         /\ \A u \in Threads : u # t => local'[u] = local[u]
         /\ local'[t].pc = pc /\ local'[t].at = p
         /\ local'[t].op = local[t].op /\ Bucket(t)' = Bucket(t) /\ Cur(t)' = Cur(t)
         /\ local'[t].found = local[t].found
<1>1. local[t] \in Operations  BY OperationFacts
<1>2. [local[t] EXCEPT !.pc = pc, !.at = p] \in Operations  BY <1>1 DEF Operations
<1>3. local' = [local EXCEPT ![t] = [local[t] EXCEPT !.pc = pc, !.at = p]]
  BY DEF StepAt, VectorInv, VectorTypeOK
<1>4. local'[t] = [local[t] EXCEPT !.pc = pc, !.at = p]  BY <1>2, <1>3, PlaceChanges
<1> QED BY <1>1, <1>2, <1>3, <1>4, PlaceChanges DEF Operations, Bucket, Cur

LEMMA StepWithFacts ==
  ASSUME VectorInv, NEW t \in Threads, NEW pc \in Pcs, NEW c \in Contexts, StepWith(t, pc, c)
  PROVE  /\ local' \in [Threads -> Operations]
         /\ \A u \in Threads : u # t => local'[u] = local[u]
         /\ local'[t].pc = pc /\ Cur(t)' = c
         /\ local'[t].op = local[t].op /\ Bucket(t)' = Bucket(t)
         /\ local'[t].at = local[t].at /\ local'[t].found = local[t].found
<1>1. local[t] \in Operations  BY OperationFacts
<1>2. [local[t] EXCEPT !.pc = pc, !.cur = c] \in Operations  BY <1>1 DEF Operations
<1>3. local' = [local EXCEPT ![t] = [local[t] EXCEPT !.pc = pc, !.cur = c]]
  BY DEF StepWith, VectorInv, VectorTypeOK
<1>4. local'[t] = [local[t] EXCEPT !.pc = pc, !.cur = c]  BY <1>2, <1>3, PlaceChanges
<1> QED BY <1>1, <1>2, <1>3, <1>4, PlaceChanges DEF Operations, Bucket, Cur

LEMMA LocksStay ==
  ASSUME IInv, NEW t \in Threads, UNCHANGED spinner_vars,
         \A u \in Threads : u # t => local'[u] = local[u]
  PROVE  /\ IInv' /\ OthersSame(t) /\ held' = held /\ call' = call
BY NextIInv DEF spinner_vars, OthersSame, SameThread

Good == IInv' /\ VectorInv' /\ [SpinnerNext]_spinner_vars

-----------------------------------------------------------------------------
(* Steps that leave the vector as it is *)

LEMMA EnterBucketIsGood ==
  ASSUME IInv, VectorInv, NEW t \in Threads, EnterBucket(t)
  PROVE  Good
<1>1. /\ local[t].pc = "next" /\ IdleSpinner(t) /\ local[t].todo # <<>> /\ UNCHANGED vector_vars
  BY DEF EnterBucket, At
<1> DEFINE b == Head(local[t].todo)
           job == [local[t] EXCEPT !.pc = "load", !.bucket = b, !.todo = Tail(@)]
<1>2. local[t] \in Operations /\ local[t].todo \in Seq(Buckets)  BY OperationFacts
<1>3. b \in Buckets /\ Tail(local[t].todo) \in Seq(Buckets)  BY <1>1, <1>2
<1>4. b \in Locks  BY <1>3 DEF Buckets
<1>5. local' = [local EXCEPT ![t] = job]  BY DEF EnterBucket, VectorInv, VectorTypeOK
<1>6. job \in Operations  BY <1>2, <1>3, <1>4 DEF Operations, Pcs
<1>7. /\ local' \in [Threads -> Operations] /\ local'[t] = job
      /\ \A u \in Threads : u # t => local'[u] = local[u]
  BY <1>5, <1>6, PlaceChanges
<1>8. /\ local'[t].pc = "load" /\ Bucket(t)' = b /\ local'[t].op = local[t].op
      /\ local'[t].found = local[t].found
  BY <1>2, <1>7 DEF Operations, Bucket
<1>9. \/ local[t].op = "for_each" /\ Lock(t, b)
      \/ local[t].op # "for_each" /\ LockShared(t, b)
  BY DEF EnterBucket
<1> HIDE DEF b, job
<1>10. /\ IInv' /\ SpinnerNext /\ OthersInLocks(t) /\ held' = held
       /\ call'[t].lock = b /\ ~IdleSpinner(t)'
       /\ call'[t].method = (IF local[t].op = "for_each" THEN "lock" ELSE "lock_shared")
  BY <1>4, <1>9, CallStarts
<1>11. OthersSame(t)  BY <1>7, <1>10 DEF OthersSame, SameThread, OthersInLocks
<1>12. ThreadOK(t)'
  <2>1. CallFits(t)'  BY <1>8, <1>10 DEF CallFits, Mode, Bucket
  <2>2. LocksFit(t)'
    BY <1>3, <1>8, <1>10, <2>1 DEF LocksFit, InBucket, InSection, Unpublished, Searching
  <2>3. ~Inner(t)  BY <1>1 DEF VectorInv, ThreadOK, SectionOK
  <2>4. SectionOK(t)'
    BY <1>8, <2>3 DEF SectionOK, Inner, Unpublished, Searching
  <2>5. AccessOK(t)'  BY <1>8 DEF AccessOK, Accesses
  <2> QED BY <2>2, <2>4, <2>5 DEF ThreadOK
<1>13. ~Unsaved(t)  BY <1>1 DEF Unsaved
<1>14. VectorInv'  BY <1>1, <1>7, <1>8, <1>11, <1>12, <1>13, VectorStays
<1> QED BY <1>10, <1>14 DEF Good

\* The context that a decompressed bucket refers to.
LEMMA RawFacts ==
  ASSUME VectorInv, NEW b \in Buckets, d_buckets[b].raw # NoContext
  PROVE  /\ d_buckets[b].raw \in heap /\ d_buckets[b].raw \in Contexts
         /\ contexts[d_buckets[b].raw].block_index = b
BY VectorFacts DEF VectorInv, ListOK

LEMMA LoadIsGood ==
  ASSUME IInv, VectorInv, NEW t \in Threads, Load(t)
  PROVE  Good
<1>1. local[t].pc = "load" /\ IdleSpinner(t) /\ UNCHANGED vector_vars  BY DEF Load, At
<1>2. LocksFit(t) /\ SectionOK(t)  BY DEF VectorInv, ThreadOK
<1>3. Bucket(t) \in Buckets /\ Has(t, Bucket(t), Mode(t)) /\ ~Inner(t)
  BY <1>1, <1>2 DEF LocksFit, InBucket, SectionOK
<1>4. ~Unsaved(t)  BY <1>1 DEF Unsaved
<1>5. d_buckets' = d_buckets /\ contexts' = contexts /\ heap' = heap  BY <1>1 DEF vector_vars
<1> DEFINE raw == d_buckets[Bucket(t)].raw
<1>6. CASE raw # NoContext
  <2>1. StepWith(t, "access", raw) /\ UNCHANGED spinner_vars  BY <1>6 DEF Load
  <2>2. raw \in heap /\ raw \in Contexts /\ contexts[raw].block_index = Bucket(t)
    BY <1>3, <1>6, RawFacts
  <2> HIDE DEF raw
  <2>3. /\ local' \in [Threads -> Operations]
        /\ \A u \in Threads : u # t => local'[u] = local[u]
        /\ local'[t].pc = "access" /\ Cur(t)' = raw
        /\ local'[t].op = local[t].op /\ Bucket(t)' = Bucket(t)
    BY <2>1, <2>2, StepWithFacts DEF Pcs
  <2>4. IInv' /\ OthersSame(t) /\ held' = held /\ call' = call  BY <2>1, <2>3, LocksStay
  <2>5. LocksFit(t)'
    BY <1>1, <1>3, <2>3, <2>4
       DEF LocksFit, CallFits, InBucket, InSection, Unpublished, Searching, IdleSpinner, Has, Mode
  <2>6. SectionOK(t)'  BY <2>3 DEF SectionOK, Unpublished, Searching
  <2>7. AccessOK(t)'
    BY <1>5, <2>2, <2>3 DEF AccessOK, raw
  <2>8. VectorInv'
    BY <1>1, <1>4, <2>3, <2>4, <2>5, <2>6, <2>7, VectorStays DEF ThreadOK
  <2> QED BY <2>1, <2>4, <2>8 DEF Good
<1>7. CASE raw = NoContext
  <2>1. Lock(t, d_lock) /\ Step(t, "decompress")  BY <1>7 DEF Load
  <2>2. /\ local' \in [Threads -> Operations]
        /\ \A u \in Threads : u # t => local'[u] = local[u]
        /\ local'[t].pc = "decompress" /\ local'[t].found = local[t].found
        /\ local'[t].op = local[t].op /\ Bucket(t)' = Bucket(t)
    BY <2>1, StepFacts DEF Pcs
  <2>3. /\ IInv' /\ SpinnerNext /\ OthersInLocks(t) /\ held' = held
        /\ call'[t].method = "lock" /\ call'[t].lock = d_lock /\ ~IdleSpinner(t)'
    BY <2>1, LocksAreNumbers, CallStarts
  <2>4. OthersSame(t)  BY <2>2, <2>3 DEF OthersSame, SameThread, OthersInLocks
  <2>5. LocksFit(t)'
    BY <1>3, <2>2, <2>3
       DEF LocksFit, CallFits, InBucket, InSection, Unpublished, Searching, Has, Mode
  <2>6. SectionOK(t)'  BY <1>3, <2>2 DEF SectionOK, Unpublished, Searching, Inner
  <2>7. AccessOK(t)'  BY <2>2 DEF AccessOK, Accesses
  <2>8. VectorInv'
    BY <1>1, <1>4, <2>2, <2>4, <2>5, <2>6, <2>7, VectorStays DEF ThreadOK
  <2> QED BY <2>3, <2>8 DEF Good
<1> QED BY <1>6, <1>7

LEMMA RecheckIsGood ==
  ASSUME IInv, VectorInv, NEW t \in Threads, Recheck(t)
  PROVE  Good
<1>1. local[t].pc = "decompress" /\ IdleSpinner(t) /\ UNCHANGED vector_vars
  BY DEF Recheck, At
<1>2. LocksFit(t) /\ SectionOK(t)  BY DEF VectorInv, ThreadOK
<1>3. /\ Bucket(t) \in Buckets /\ Has(t, Bucket(t), Mode(t)) /\ ~Inner(t)
      /\ Has(t, d_lock, "write") /\ Bucket(t) \in Locks /\ Bucket(t) # d_lock
  BY <1>1, <1>2 DEF LocksFit, InBucket, InSection, SectionOK, Buckets
<1>4. ~Unsaved(t)  BY <1>1 DEF Unsaved
<1>5. d_buckets' = d_buckets /\ contexts' = contexts /\ heap' = heap /\ d_contexts' = d_contexts
  BY <1>1 DEF vector_vars
<1> DEFINE raw == d_buckets[Bucket(t)].raw
<1>6. CASE raw # NoContext
  <2>1. StepWith(t, "access", raw) /\ Unlock(t, d_lock)  BY <1>6 DEF Recheck
  <2>2. raw \in heap /\ raw \in Contexts /\ contexts[raw].block_index = Bucket(t)
    BY <1>3, <1>6, RawFacts
  <2> HIDE DEF raw
  <2>3. /\ local' \in [Threads -> Operations]
        /\ \A u \in Threads : u # t => local'[u] = local[u]
        /\ local'[t].pc = "access" /\ Cur(t)' = raw
        /\ local'[t].op = local[t].op /\ Bucket(t)' = Bucket(t)
    BY <2>1, <2>2, StepWithFacts DEF Pcs
  <2>4. /\ IInv' /\ SpinnerNext /\ OthersInLocks(t) /\ IdleSpinner(t)'
        /\ \A k \in Locks : k # d_lock => held'[t][k] = held[t][k]
    BY <2>1, LocksAreNumbers, LockEnds
  <2>5. OthersSame(t)  BY <2>3, <2>4 DEF OthersSame, SameThread, OthersInLocks
  <2>6. LocksFit(t)'
    BY <1>3, <2>3, <2>4
       DEF LocksFit, CallFits, InBucket, InSection, Unpublished, Searching, Has, Mode
  <2>7. SectionOK(t)'  BY <2>3 DEF SectionOK, Unpublished, Searching
  <2>8. AccessOK(t)'  BY <1>5, <2>2, <2>3 DEF AccessOK, raw
  <2>9. VectorInv'
    BY <1>1, <1>4, <2>3, <2>5, <2>6, <2>7, <2>8, VectorStays DEF ThreadOK
  <2> QED BY <2>4, <2>9 DEF Good
<1>7. CASE raw = NoContext
  <2>1. PICK pc \in {"make", "find"} :
          /\ UNCHANGED spinner_vars
          /\ IF pc = "make" THEN Step(t, pc) ELSE StepAt(t, pc, Len(d_contexts))
    BY <1>7 DEF Recheck
  <2>2. Len(d_contexts) \in Nat  BY VectorFacts
  <2>3. /\ local' \in [Threads -> Operations]
        /\ \A u \in Threads : u # t => local'[u] = local[u]
        /\ local'[t].pc = pc /\ local'[t].found = local[t].found
        /\ local'[t].op = local[t].op /\ Bucket(t)' = Bucket(t)
        /\ pc = "find" => local'[t].at = Len(d_contexts)
    <3>1. pc \in Pcs  BY DEF Pcs
    <3>2. CASE pc = "make"  BY <2>1, <3>1, <3>2, StepFacts
    <3>3. CASE pc = "find"  BY <2>1, <2>2, <3>1, <3>3, StepAtFacts
    <3> QED BY <3>2, <3>3
  <2>4. IInv' /\ OthersSame(t) /\ held' = held /\ call' = call  BY <2>1, <2>3, LocksStay
  <2>5. LocksFit(t)'
    BY <1>1, <1>3, <2>3, <2>4
       DEF LocksFit, CallFits, InBucket, InSection, IdleSpinner, Has, Mode
  <2>6. SectionOK(t)'
    <3>1. ~Inner(t)'  BY <1>3, <2>3 DEF Inner
    <3>2. SearchOK(t)' \/ pc = "make"  BY <1>5, <2>2, <2>3, <3>1 DEF SearchOK
    <3> QED BY <1>5, <1>7, <2>3, <3>1, <3>2 DEF SectionOK, Searching
  <2>7. AccessOK(t)'  BY <2>3 DEF AccessOK, Accesses
  <2>8. ~(local'[t].pc \in {"unlock", "publish", "complete"})  BY <2>3
  <2>9. VectorInv'
    BY <1>1, <1>4, <2>3, <2>4, <2>5, <2>6, <2>7, <2>8, VectorStays DEF ThreadOK
  <2> QED BY <2>1, <2>4, <2>9 DEF Good
<1> QED BY <1>6, <1>7

\* A thread that is not in a call and keeps the locks it needs.
LEMMA LocksFitStill ==
  ASSUME NEW t \in Threads, LocksFit(t), InBucket(t), IdleSpinner(t)',
         local'[t].op = local[t].op, Bucket(t)' = Bucket(t),
         held'[t][Bucket(t)] = held[t][Bucket(t)],
         InSection(t)' => Has(t, d_lock, "write")'
  PROVE  LocksFit(t)'
<1>1. Bucket(t) \in Buckets /\ Has(t, Bucket(t), Mode(t))  BY DEF LocksFit, InBucket
<1>2. CallFits(t)'  BY DEF CallFits
<1> QED BY <1>1, <1>2 DEF LocksFit, Has, Mode

LEMMA SectionFacts ==
  ASSUME VectorInv, NEW t \in Threads, InSection(t)
  PROVE  /\ LocksFit(t) /\ SectionOK(t) /\ InBucket(t)
         /\ Bucket(t) \in Buckets /\ Bucket(t) \in Locks /\ Bucket(t) # d_lock
         /\ Has(t, Bucket(t), Mode(t)) /\ Has(t, d_lock, "write")
<1>1. LocksFit(t) /\ SectionOK(t)  BY DEF VectorInv, ThreadOK
<1>2. InBucket(t) /\ local[t].pc # "next"
  BY DEF InSection, InBucket, Unpublished, Searching
<1> QED BY <1>1, <1>2 DEF LocksFit, Buckets

\* A step of the search that only changes the place in the list.
LEMMA SearchGoesOn ==
  ASSUME IInv, VectorInv, NEW t \in Threads, UNCHANGED vector_vars, OthersInLocks(t),
         held' = held, IInv', [SpinnerNext]_spinner_vars,
         local[t].pc \in {"find", "tried"}, local'[t].pc \in {"find", "tried", "unlink"},
         local' \in [Threads -> Operations], \A u \in Threads : u # t => local'[u] = local[u],
         local'[t].op = local[t].op, Bucket(t)' = Bucket(t), CallFits(t)', SearchOK(t)'
  PROVE  Good
<1>1. InSection(t)  BY DEF InSection, Unpublished, Searching
<1>2. OthersSame(t)  BY DEF OthersSame, SameThread, OthersInLocks
<1>3. /\ Bucket(t) \in Buckets /\ Has(t, Bucket(t), Mode(t)) /\ Has(t, d_lock, "write")
      /\ SectionOK(t)
  BY <1>1, SectionFacts
<1>4. LocksFit(t)'  BY <1>3 DEF LocksFit, Has, Mode
<1>5. d_buckets' = d_buckets  BY DEF vector_vars
<1>6. SectionOK(t)'  BY <1>3, <1>5 DEF SectionOK, Unpublished, Searching
<1>7. AccessOK(t)'  BY DEF AccessOK, Accesses
<1>8. ~Unsaved(t)  BY DEF Unsaved
<1>9. local[t].pc \notin {"unlock", "publish", "complete"}
  BY ONLY local[t].pc \in {"find", "tried"}
<1>10. local'[t].pc \notin {"unlock", "publish", "complete"}
  BY ONLY local'[t].pc \in {"find", "tried", "unlink"}
<1>11. VectorInv'  BY <1>2, <1>4, <1>6, <1>7, <1>8, <1>9, <1>10, VectorStays DEF ThreadOK
<1> QED BY <1>11 DEF Good

LEMMA SkipIsGood ==
  ASSUME IInv, VectorInv, NEW t \in Threads, Skip(t) \/ TriedInVain(t)
  PROVE  Good
<1>1. /\ local[t].pc \in {"find", "tried"} /\ IdleSpinner(t) /\ UNCHANGED vector_vars
      /\ local[t].pc = "find" => local[t].at > 0
      /\ StepAt(t, "find", local[t].at - 1) /\ UNCHANGED spinner_vars
  BY DEF Skip, TriedInVain, At, TryLockRefused
<1>2. SectionOK(t) /\ local[t].pc \in Searching
  BY <1>1 DEF VectorInv, ThreadOK, Searching
<1>3. SearchOK(t) /\ local[t].at \in Nat \ {0} /\ local[t].found \in Nat
  BY <1>1, <1>2, OperationFacts DEF SectionOK, SearchOK
<1>4. /\ local' \in [Threads -> Operations]
      /\ \A u \in Threads : u # t => local'[u] = local[u]
      /\ local'[t].pc = "find" /\ local'[t].at = local[t].at - 1
      /\ local'[t].op = local[t].op /\ Bucket(t)' = Bucket(t)
      /\ local'[t].found = local[t].found
  BY <1>1, <1>3, StepAtFacts DEF Pcs
<1>5. IInv' /\ held' = held /\ call' = call /\ OthersInLocks(t)
  BY <1>1, <1>4, LocksStay DEF OthersInLocks
<1>6. CallFits(t)'  BY <1>1, <1>5 DEF CallFits, IdleSpinner
<1>7. SearchOK(t)'
  <2>1. d_contexts' = d_contexts /\ contexts' = contexts /\ d_buckets' = d_buckets
    BY <1>1 DEF vector_vars
  <2>2. \A p : Taken(t, p)' = Taken(t, p)  BY <1>5, <2>1 DEF Taken, Has
  <2>3. Inner(t)' = Inner(t) /\ Len(d_contexts) \in Nat  BY <1>4, VectorFacts DEF Inner
  <2> QED BY <1>3, <1>4, <2>1, <2>2, <2>3 DEF SearchOK
<1> QED BY <1>1, <1>4, <1>5, <1>6, <1>7, SearchGoesOn

LEMMA TryIsGood ==
  ASSUME IInv, VectorInv, NEW t \in Threads, Try(t)
  PROVE  Good
<1> DEFINE b == contexts[Candidate(t)].block_index
<1>1. /\ local[t].pc = "find" /\ IdleSpinner(t) /\ UNCHANGED vector_vars /\ local[t].at > 0
      /\ Step(t, "tried") /\ IF b = NoBucket THEN UNCHANGED spinner_vars ELSE TryLock(t, b)
  BY DEF Try, At
<1>2. SearchOK(t)  BY <1>1 DEF VectorInv, ThreadOK, Searching, SectionOK
<1>3. /\ local' \in [Threads -> Operations]
      /\ \A u \in Threads : u # t => local'[u] = local[u]
      /\ local'[t].pc = "tried" /\ local'[t].at = local[t].at
      /\ local'[t].op = local[t].op /\ Bucket(t)' = Bucket(t)
      /\ local'[t].found = local[t].found
  BY <1>1, StepFacts DEF Pcs
<1>4. d_contexts' = d_contexts /\ contexts' = contexts /\ d_buckets' = d_buckets
  BY <1>1 DEF vector_vars
<1>5. b \in Buckets \union {NoBucket} /\ b' = b
  <2>1. local[t].at \in 1..Len(d_contexts)  BY <1>1, <1>2, OperationFacts, VectorFacts DEF SearchOK
  <2>2. Candidate(t) \in Contexts  BY <2>1, VectorFacts DEF Candidate
  <2> QED BY <1>3, <1>4, <2>2, VectorFacts DEF Candidate
<1>6. /\ IInv' /\ held' = held /\ OthersInLocks(t) /\ [SpinnerNext]_spinner_vars
      /\ \/ IdleSpinner(t)'
         \/ call'[t].method = "try_lock" /\ call'[t].lock = b /\ b # d_lock
  <2>1. CASE b = NoBucket
    BY <1>1, <1>3, <2>1, LocksStay DEF OthersInLocks, IdleSpinner
  <2>2. CASE b # NoBucket
    <3>1. b \in Locks /\ b # d_lock  BY <1>5, <2>2 DEF Buckets
    <3> HIDE DEF b
    <3> QED BY <1>1, <2>2, <3>1, CallStarts
  <2> QED BY <2>1, <2>2
<1>7. CallFits(t)'  BY <1>3, <1>5, <1>6 DEF CallFits
<1>8. SearchOK(t)'
  <2>2. \A p : Taken(t, p)' = Taken(t, p)  BY <1>4, <1>6 DEF Taken, Has
  <2>3. Inner(t)' = Inner(t)  BY <1>3 DEF Inner
  <2> QED BY <1>1, <1>2, <1>3, <1>4, <2>2, <2>3 DEF SearchOK
<1> QED BY <1>1, <1>3, <1>6, <1>7, <1>8, SearchGoesOn

LEMMA InnerInVainIsGood ==
  ASSUME IInv, VectorInv, NEW t \in Threads, InnerInVain(t)
  PROVE  Good
<1> DEFINE job == [local[t] EXCEPT !.pc = "unlink", !.found = 0, !.at = local[t].found]
<1>1. /\ local[t].pc = "find" /\ IdleSpinner(t) /\ Inner(t)
      /\ UNCHANGED vector_vars /\ UNCHANGED spinner_vars
  BY DEF InnerInVain, At, spinner_vars
<1>2. local' = [local EXCEPT ![t] = job]  BY DEF InnerInVain, VectorInv, VectorTypeOK
<1>3. SearchOK(t)  BY <1>1 DEF VectorInv, ThreadOK, Searching, SectionOK
<1>4. local[t] \in Operations /\ local[t].found \in Nat /\ local[t].found # 0
  BY <1>1, OperationFacts DEF Inner
<1>5. job \in Operations  BY <1>4 DEF Operations, Pcs
<1>6. /\ local' \in [Threads -> Operations] /\ local'[t] = job
      /\ \A u \in Threads : u # t => local'[u] = local[u]
  BY <1>2, <1>5, PlaceChanges
<1>7. /\ local'[t].pc = "unlink" /\ local'[t].found = 0 /\ local'[t].at = local[t].found
      /\ local'[t].op = local[t].op /\ Bucket(t)' = Bucket(t)
  BY <1>4, <1>6 DEF Operations, Bucket
<1> HIDE DEF job
<1>8. IInv' /\ held' = held /\ call' = call /\ OthersInLocks(t)
  BY <1>1, <1>6, LocksStay DEF OthersInLocks
<1>9. CallFits(t)'  BY <1>1, <1>8 DEF CallFits, IdleSpinner
<1>10. SearchOK(t)'
  <2>1. d_contexts' = d_contexts /\ contexts' = contexts /\ d_buckets' = d_buckets
    BY <1>1 DEF vector_vars
  <2>2. \A p : Taken(t, p)' = Taken(t, p)  BY <1>8, <2>1 DEF Taken, Has
  <2>3. ~Inner(t)' /\ Len(d_contexts) \in Nat  BY <1>7, VectorFacts DEF Inner
  <2> QED BY <1>1, <1>3, <1>4, <1>7, <2>1, <2>2, <2>3 DEF SearchOK
<1> QED BY <1>1, <1>6, <1>7, <1>8, <1>9, <1>10, SearchGoesOn

LEMMA InLockIsGood ==
  ASSUME IInv, VectorInv, NEW t \in Threads, InLock(t)
  PROVE  Good
<1> DEFINE l == call[t].lock
<1>1. UNCHANGED vector_vars /\ local' = local /\ SpinnerStep(t)  BY DEF InLock
<1>2. /\ IInv' /\ SpinnerNext /\ OthersInLocks(t) /\ ~IdleSpinner(t)
      /\ l \in Locks /\ held[t][l] = "no"
      /\ \A k \in Locks : k # l => held'[t][k] = held[t][k]
      /\ \/ /\ ~IdleSpinner(t)' /\ call'[t].lock = l
            /\ call[t].method # "try_lock"
            /\ call[t].method \in Exclusive => call'[t].method \in Exclusive
            /\ call[t].method \in Shared => call'[t].method \in Shared
         \/ /\ IdleSpinner(t)'
            /\ call[t].method \in Exclusive => held'[t][l] = "write"
            /\ call[t].method \in Shared => held'[t][l] = "read"
  BY <1>1, CallGoesOn
<1>3. OthersSame(t)  BY <1>1, <1>2 DEF OthersSame, SameThread, OthersInLocks
<1>4. /\ d_buckets' = d_buckets /\ contexts' = contexts /\ d_contexts' = d_contexts
      /\ heap' = heap
  BY <1>1 DEF vector_vars
<1>5. ThreadOK(t) /\ LocksFit(t) /\ SectionOK(t) /\ AccessOK(t) /\ MixOK /\ VectorTypeOK
  BY DEF VectorInv, ThreadOK
<1>6. \/ /\ local[t].pc = "load" /\ l = Bucket(t)
         /\ call[t].method \in (IF Mode(t) = "write" THEN Exclusive ELSE Shared)
      \/ /\ local[t].pc \in {"decompress", "dealloc"} /\ l = d_lock
         /\ call[t].method \in Exclusive
      \/ /\ local[t].pc = "tried" /\ call[t].method = "try_lock"
         /\ l = contexts[Candidate(t)].block_index /\ l # d_lock
  BY <1>2, <1>5 DEF LocksFit, CallFits, Exclusive, Shared
<1> HIDE DEF l
<1>7. Bucket(t)' = Bucket(t) /\ Mode(t)' = Mode(t) /\ Mode(t) \in {"read", "write"}
  BY <1>1 DEF Bucket, Mode
<1>8. \A k \in Locks : held[t][k] # "no" => held'[t][k] = held[t][k]  BY <1>2
<1>9. Bucket(t) \in Buckets /\ Bucket(t) \in Locks /\ d_lock \in Locks
  BY <1>5, <1>6, LocksAreNumbers DEF LocksFit, Buckets
<1>10. LocksFit(t)'
  <2>1. CallFits(t)'
    <3>1. CASE IdleSpinner(t)'  BY <3>1 DEF CallFits
    <3>2. CASE ~IdleSpinner(t)'
      <4>1. /\ call'[t].lock = l /\ local[t].pc # "tried"
            /\ call[t].method \in Exclusive => call'[t].method \in Exclusive
            /\ call[t].method \in Shared => call'[t].method \in Shared
        BY <1>2, <1>6, <3>2
      <4> QED BY <1>1, <1>6, <1>7, <4>1 DEF CallFits, Exclusive, Shared
    <3> QED BY <3>1, <3>2
  <2>2. InBucket(t)' => Has(t, Bucket(t), Mode(t))'
    <3>1. CASE local[t].pc = "load"
      <4>1. call[t].method \in (IF Mode(t) = "write" THEN Exclusive ELSE Shared) /\ l = Bucket(t)
        BY <1>6, <3>1
      <4> QED BY <1>1, <1>2, <1>7, <3>1, <4>1 DEF InBucket, Has
    <3>2. CASE local[t].pc # "load"
      <4>1. InBucket(t)' => InBucket(t)  BY <1>1, <3>2 DEF InBucket
      <4> QED BY <1>5, <1>7, <1>8, <1>9, <4>1 DEF LocksFit, Has
    <3> QED BY <3>1, <3>2
  <2>3. InSection(t)' => Has(t, d_lock, "write")'
    <3>1. CASE local[t].pc = "load"
      BY <1>1, <3>1 DEF InSection, Unpublished, Searching
    <3>2. CASE local[t].pc \in {"decompress", "dealloc"}
      <4>1. call[t].method \in Exclusive /\ l = d_lock  BY <1>6, <3>2
      <4> QED BY <1>1, <1>2, <3>2, <4>1 DEF InSection, Has, Unpublished, Searching
    <3>3. CASE local[t].pc = "tried"
      <4>1. Has(t, d_lock, "write")  BY <1>5, <3>3 DEF LocksFit, InSection, Unpublished, Searching
      <4> QED BY <1>8, <1>9, <4>1 DEF Has
    <3> QED BY <1>6, <3>1, <3>2, <3>3
  <2> QED BY <1>1, <1>7, <1>9, <2>1, <2>2, <2>3 DEF LocksFit
<1>11. SectionOK(t)'
  <2>1. CASE local[t].pc = "tried"
    <3>1. SearchOK(t) /\ d_buckets[Bucket(t)].raw = NoContext
      BY <1>5, <2>1 DEF SectionOK, Unpublished, Searching
    <3>2. local[t].found \in Nat /\ local[t].at \in Nat  BY OperationFacts
    <3>3. Inner(t) => Taken(t, local[t].found)'
      <4> SUFFICES ASSUME Inner(t) PROVE Taken(t, local[t].found)'
        OBVIOUS
      <4>1. Taken(t, local[t].found) /\ local[t].found \in 1..Len(d_contexts)
        BY <3>1, <3>2 DEF SearchOK, Inner
      <4>2. d_contexts[local[t].found] \in Contexts  BY <4>1, VectorFacts
      <4>3. contexts[d_contexts[local[t].found]].block_index \in Locks \union {NoBucket}
        BY <4>2, VectorFacts DEF Buckets
      <4> QED BY <1>1, <1>4, <1>8, <4>1, <4>3 DEF Taken, Has
    <3>4. SearchOK(t)'
      BY <1>1, <1>4, <2>1, <3>1, <3>3 DEF SearchOK, Inner
    <3> QED BY <1>1, <1>4, <1>7, <2>1, <3>1, <3>4 DEF SectionOK
  <2>2. CASE local[t].pc \in {"load", "decompress", "dealloc"}
    BY <1>1, <1>5, <2>2 DEF SectionOK, Unpublished, Searching, Inner
  <2> QED BY <1>6, <2>1, <2>2
<1>12. AccessOK(t)'
  <2>1. local[t].pc # "add"  BY <1>6
  <2> QED BY <1>1, <1>4, <1>5, <2>1, AccessStays DEF AccessOK
<1>13. Unsaved(t)' = Unsaved(t)  BY <1>1 DEF Unsaved
<1>14. local[t].pc \notin {"unlock", "publish", "complete"}  BY <1>6
<1>15. VectorInv'
  BY <1>1, <1>3, <1>5, <1>7, <1>10, <1>11, <1>12, <1>13, <1>14, VectorStays
     DEF ThreadOK, VectorTypeOK
<1> QED BY <1>2, <1>15 DEF Good

\* A thread that keeps a pointer to the context of its bucket.
LEMMA AccessFacts ==
  ASSUME VectorInv, NEW t \in Threads, local[t].pc \in Accesses
  PROVE  /\ LocksFit(t) /\ AccessOK(t) /\ InBucket(t) /\ Has(t, Bucket(t), Mode(t))
         /\ Bucket(t) \in Buckets /\ Bucket(t) \in Locks /\ Bucket(t) # d_lock
         /\ Cur(t) \in heap /\ Cur(t) \in Contexts /\ d_buckets[Bucket(t)].raw = Cur(t)
         /\ contexts[Cur(t)].block_index = Bucket(t)
<1>1. LocksFit(t) /\ AccessOK(t)  BY DEF VectorInv, ThreadOK
<1>2. InBucket(t)  BY DEF Accesses, InBucket
<1> QED BY <1>1, <1>2, VectorFacts DEF LocksFit, AccessOK, InBucket, Buckets

LEMMA ReadIsGood ==
  ASSUME IInv, VectorInv, NEW t \in Threads, Read(t)
  PROVE  Good
<1> DEFINE job == [local[t] EXCEPT !.pc = "write", !.seen = contexts[Cur(t)].storage]
<1>1. /\ local[t].pc = "access" /\ local[t].op = "for_each" /\ IdleSpinner(t)
      /\ UNCHANGED vector_vars /\ UNCHANGED spinner_vars
  BY DEF Read, At, spinner_vars
<1>2. local' = [local EXCEPT ![t] = job]  BY DEF Read, VectorInv, VectorTypeOK
<1>3. local[t] \in Operations  BY OperationFacts
<1>4. /\ LocksFit(t) /\ AccessOK(t) /\ InBucket(t) /\ Cur(t) \in Contexts
      /\ Cur(t) \in heap /\ d_buckets[Bucket(t)].raw = Cur(t)
      /\ contexts[Cur(t)].block_index = Bucket(t)
  BY <1>1, AccessFacts DEF Accesses
<1>5. contexts[Cur(t)].storage \in Nat  BY <1>4, VectorFacts
<1>6. job \in Operations  BY <1>3, <1>5 DEF Operations, Pcs
<1>7. /\ local' \in [Threads -> Operations] /\ local'[t] = job
      /\ \A u \in Threads : u # t => local'[u] = local[u]
  BY <1>2, <1>6, PlaceChanges
<1>8. /\ local'[t].pc = "write" /\ local'[t].seen = contexts[Cur(t)].storage
      /\ local'[t].op = local[t].op /\ Bucket(t)' = Bucket(t) /\ Cur(t)' = Cur(t)
  BY <1>3, <1>7 DEF Operations, Bucket, Cur
<1> HIDE DEF job
<1>9. IInv' /\ OthersSame(t) /\ held' = held /\ call' = call  BY <1>1, <1>7, LocksStay
<1>10. IdleSpinner(t)' /\ ~InSection(t)'
  BY <1>1, <1>8, <1>9 DEF IdleSpinner, InSection, Unpublished, Searching
<1>11. LocksFit(t)'  BY <1>4, <1>8, <1>9, <1>10, LocksFitStill
<1>12. SectionOK(t)'  BY <1>8 DEF SectionOK, Unpublished, Searching
<1>13. AccessOK(t)'
  <2>1. contexts' = contexts /\ d_buckets' = d_buckets /\ heap' = heap
    BY <1>1 DEF vector_vars
  <2> QED BY <1>1, <1>4, <1>8, <2>1 DEF AccessOK
<1>14. ~Unsaved(t)  BY <1>1 DEF Unsaved
<1>15. VectorInv'
  BY <1>1, <1>7, <1>8, <1>9, <1>11, <1>12, <1>13, <1>14, VectorStays DEF ThreadOK
<1> QED BY <1>1, <1>9, <1>15 DEF Good

LEMMA LookIsGood ==
  ASSUME IInv, VectorInv, NEW t \in Threads, Look(t)
  PROVE  Good
<1>1. /\ local[t].pc = "access" /\ local[t].op = "const_for_each" /\ IdleSpinner(t)
      /\ UNCHANGED vector_vars /\ UNCHANGED spinner_vars
  BY DEF Look, At, spinner_vars
<1>2. PICK todo \in {local[t].todo, <<>>} :
        local' = [local EXCEPT ![t].pc = "leave", ![t].seen = contexts[Cur(t)].storage,
                               ![t].todo = todo]
  BY DEF Look
<1> DEFINE job == [local[t] EXCEPT !.pc = "leave", !.seen = contexts[Cur(t)].storage,
                                   !.todo = todo]
<1>3. local' = [local EXCEPT ![t] = job]  BY <1>2 DEF VectorInv, VectorTypeOK
<1>4. local[t] \in Operations /\ local[t].todo \in Seq(Buckets)  BY OperationFacts
<1>5. /\ LocksFit(t) /\ AccessOK(t) /\ InBucket(t) /\ Cur(t) \in Contexts
      /\ Cur(t) \in heap /\ d_buckets[Bucket(t)].raw = Cur(t)
      /\ contexts[Cur(t)].block_index = Bucket(t)
  BY <1>1, AccessFacts DEF Accesses
<1>6. contexts[Cur(t)].storage \in Nat /\ todo \in Seq(Buckets)
  <2>1. <<>> \in Seq(Buckets)  OBVIOUS
  <2>2. todo \in Seq(Buckets)  BY <1>4, <2>1
  <2> QED BY <1>5, <2>2, VectorFacts
<1>7. job \in Operations  BY <1>4, <1>6 DEF Operations, Pcs
<1>8. /\ local' \in [Threads -> Operations] /\ local'[t] = job
      /\ \A u \in Threads : u # t => local'[u] = local[u]
  BY <1>3, <1>7, PlaceChanges
<1>9. /\ local'[t].pc = "leave"
      /\ local'[t].op = local[t].op /\ Bucket(t)' = Bucket(t) /\ Cur(t)' = Cur(t)
  BY <1>4, <1>8 DEF Operations, Bucket, Cur
<1> HIDE DEF job
<1>10. IInv' /\ OthersSame(t) /\ held' = held /\ call' = call  BY <1>1, <1>8, LocksStay
<1>11. IdleSpinner(t)' /\ ~InSection(t)'
  BY <1>1, <1>9, <1>10 DEF IdleSpinner, InSection, Unpublished, Searching
<1>12. LocksFit(t)'  BY <1>5, <1>9, <1>10, <1>11, LocksFitStill
<1>13. SectionOK(t)'  BY <1>9 DEF SectionOK, Unpublished, Searching
<1>14. AccessOK(t)'
  <2>1. contexts' = contexts /\ d_buckets' = d_buckets /\ heap' = heap
    BY <1>1 DEF vector_vars
  <2> QED BY <1>5, <1>9, <2>1 DEF AccessOK
<1>15. ~Unsaved(t)  BY <1>1 DEF Unsaved
<1>16. VectorInv'
  BY <1>1, <1>8, <1>9, <1>10, <1>12, <1>13, <1>14, <1>15, VectorStays DEF ThreadOK
<1> QED BY <1>1, <1>10, <1>16 DEF Good

LEMMA LeaveBucketIsGood ==
  ASSUME IInv, VectorInv, NEW t \in Threads, LeaveBucket(t)
  PROVE  Good
<1> DEFINE job == Idle(local[t].todo, local[t].op)
<1>1. /\ local[t].pc = "leave" /\ UNCHANGED vector_vars
      /\ local' = [local EXCEPT ![t] = job]
      /\ Unlock(t, Bucket(t)) \/ UnlockShared(t, Bucket(t))
  BY DEF LeaveBucket, At
<1>2. local[t].op \in {"for_each", "const_for_each", "move"} /\ local[t].todo \in Seq(Buckets)
  BY OperationFacts
<1>3. job \in Operations
  BY <1>2, LocksAreNumbers, BufferFacts DEF Idle, Operations, Pcs, d_lock, NoBucket
<1>4. /\ local' \in [Threads -> Operations] /\ local'[t] = job
      /\ \A u \in Threads : u # t => local'[u] = local[u]
  BY <1>1, <1>3, PlaceChanges
<1>5. local'[t].pc = "next" /\ local'[t].op = local[t].op /\ local'[t].found = 0
  BY <1>4 DEF Idle
<1> HIDE DEF job
<1>6. Bucket(t) \in Locks  BY OperationFacts
<1>7. /\ IInv' /\ SpinnerNext /\ OthersInLocks(t) /\ IdleSpinner(t)'
  BY <1>1, <1>6, LockEnds
<1>8. OthersSame(t)  BY <1>4, <1>7 DEF OthersSame, SameThread, OthersInLocks
<1>9. LocksFit(t)'
  BY <1>5, <1>7 DEF LocksFit, CallFits, InBucket, InSection, Unpublished, Searching
<1>10. SectionOK(t)'  BY <1>5 DEF SectionOK, Unpublished, Searching, Inner
<1>11. AccessOK(t)'  BY <1>5 DEF AccessOK, Accesses
<1>12. ~Unsaved(t)  BY <1>1 DEF Unsaved
<1>13. VectorInv'
  BY <1>1, <1>4, <1>5, <1>8, <1>9, <1>10, <1>11, <1>12, VectorStays DEF ThreadOK
<1> QED BY <1>7, <1>13 DEF Good

-----------------------------------------------------------------------------
(* Steps on the context of a bucket, outside d_lock *)

LEMMA CoveredStays ==
  ASSUME NEW t \in Threads, NEW b \in Buckets, Covered(b),
         \A u \in Threads : u # t => local'[u] = local[u],
         ~(Unsaved(t) /\ Bucket(t) = b) \/ (Unsaved(t)' /\ Bucket(t)' = b),
         contexts[d_buckets[b].raw].dirty = 1 => contexts'[d_buckets'[b].raw].dirty = 1
  PROVE  Covered(b)'
<1>1. CASE contexts[d_buckets[b].raw].dirty = 1  BY <1>1 DEF Covered
<1>2. CASE \E u \in Threads : Bucket(u) = b /\ Unsaved(u)
  <2>1. PICK u \in Threads : Bucket(u) = b /\ Unsaved(u)  BY <1>2
  <2>2. CASE u # t
    <3>1. Bucket(u)' = b /\ Unsaved(u)'  BY <2>1, <2>2 DEF Bucket, Unsaved
    <3> QED BY <3>1 DEF Covered
  <2>3. CASE u = t  BY <2>1, <2>3 DEF Covered
  <2> QED BY <2>2, <2>3
<1> QED BY <1>1, <1>2 DEF Covered

LEMMA OwnedStays ==
  ASSUME NEW t \in Threads, NEW b,
         \A u \in Threads : u # t => local'[u] = local[u],
         local[t].pc # "complete", local'[t].pc # "complete", HasBuffer(b)' <=> HasBuffer(b)
  PROVE  Owned(b)' <=> Owned(b)
<1>1. ASSUME NEW u \in Threads
      PROVE  (local'[u].pc = "complete" /\ Bucket(u)' = b)
               <=> (local[u].pc = "complete" /\ Bucket(u) = b)
  BY DEF Bucket
<1> QED BY <1>1 DEF Owned

\* A writer of a bucket shares it with no other thread.
LEMMA WriterOrOther ==
  ASSUME IInv, VectorInv, NEW t \in Threads, NEW u \in Threads, u # t,
         InBucket(t), InBucket(u), local[t].op = "for_each" \/ local[u].op = "for_each"
  PROVE  Bucket(u) # Bucket(t)
<1>1. Has(t, Bucket(t), Mode(t)) /\ Has(u, Bucket(u), Mode(u))
  BY DEF VectorInv, ThreadOK, LocksFit
<1>2. CASE local[t].op = "for_each"  BY <1>1, <1>2, WriterHasBucket DEF Mode
<1>3. CASE local[u].op = "for_each"  BY <1>1, <1>3, WriterHasBucket DEF Mode
<1> QED BY <1>2, <1>3

\* Another thread in the section works on other contexts, or on what does not change.
LEMMA WorkerStays ==
  ASSUME IInv, VectorInv, NEW t \in Threads, local[t].pc \in Accesses,
         local[t].op # "const_for_each", NEW u \in Threads, u # t, SameThread(u),
         UNCHANGED <<d_buckets, d_contexts, heap>>, NEW x,
         contexts' = [contexts EXCEPT ![Cur(t)] = x],
         x.block_index = contexts[Cur(t)].block_index, x.buffer = contexts[Cur(t)].buffer
  PROVE  LocksFit(u)' /\ SectionOK(u)'
<1> DEFINE c == Cur(t)
<1>1. /\ c \in Contexts /\ c \in heap /\ InBucket(t) /\ Bucket(t) \in Buckets
      /\ d_buckets[Bucket(t)].raw = c /\ contexts[c].block_index = Bucket(t)
  BY AccessFacts
<1> HIDE DEF c
<1>2. /\ \A d \in Contexts : /\ contexts'[d].block_index = contexts[d].block_index
                             /\ contexts'[d].buffer = contexts[d].buffer
      /\ \A d : d # c => contexts'[d] = contexts[d]
  BY <1>1 DEF VectorInv, VectorTypeOK, c
<1>3. LocksFit(u) /\ SectionOK(u) /\ MixOK  BY DEF VectorInv, ThreadOK
<1>4. CASE ~InSection(u)  BY <1>3, <1>4, OutsideStays
<1>5. CASE InSection(u)
  <2>1. InBucket(u) /\ Bucket(u) \in Buckets  BY <1>5, SectionFacts
  <2>2. /\ local'[u] = local[u] /\ Bucket(u)' = Bucket(u) /\ Cur(u)' = Cur(u)
        /\ call'[u] = call[u] /\ held'[u] = held[u]
        /\ d_buckets' = d_buckets /\ d_contexts' = d_contexts /\ heap' = heap
    BY DEF SameThread, Bucket, Cur
  <2>3. local[u].at \in Nat /\ local[u].found \in Nat  BY OperationFacts
  <2>4. \A p \in 1..Len(d_contexts) : d_contexts[p] \in Contexts  BY VectorFacts
  <2>5. ASSUME NEW p \in 1..Len(d_contexts), Taken(u, p) PROVE Taken(u, p)'
    <3>1. d_contexts[p] \in Contexts  BY <2>4
    <3>2. d_contexts[p] = c => ~Has(u, Bucket(t), "write")
      <4>1. InBucket(t)  BY <1>1
      <4> QED BY <4>1, WriterHasBucket
    <3>3. d_contexts[p] = c => FALSE
      BY <1>1, <2>5, <3>2, LocksAreNumbers DEF Taken
    <3> QED BY <1>2, <2>2, <2>5, <3>1, <3>3 DEF Taken, Has
  <2>6. local[u].pc \in Searching => SearchOK(u)'
    <3> SUFFICES ASSUME local[u].pc \in Searching PROVE SearchOK(u)'
      OBVIOUS
    <3>1. SearchOK(u)  BY <1>3 DEF SectionOK
    <3>2. Inner(u) => Taken(u, local[u].found)'
      BY <2>2, <2>3, <2>5, <3>1, VectorFacts DEF SearchOK, Inner
    <3>3. local[u].pc = "unlink" => Taken(u, local[u].at)'
      BY <2>2, <2>3, <2>5, <3>1, VectorFacts DEF SearchOK
    <3>4. local[u].pc = "unlock" =>
            contexts'[Candidate(u)].block_index = contexts[Candidate(u)].block_index
      <4>1. local[u].pc = "unlock" => local[u].at \in 1..Len(d_contexts)
        BY <2>3, <3>1, VectorFacts DEF SearchOK
      <4> QED BY <1>2, <2>4, <4>1 DEF Candidate
    <3>5. Candidate(u)' = Candidate(u) /\ Inner(u)' = Inner(u)
      BY <2>2 DEF Candidate, Inner
    <3>6. \A l : Has(u, l, "write")' = Has(u, l, "write")  BY <2>2 DEF Has
    <3> QED BY <2>2, <3>1, <3>2, <3>3, <3>4, <3>5, <3>6 DEF SearchOK
  <2>7. local[u].pc \in {"fill", "publish", "complete"} => TargetOK(u)'
    <3> SUFFICES ASSUME local[u].pc \in {"fill", "publish", "complete"} PROVE TargetOK(u)'
      OBVIOUS
    <3>1. TargetOK(u)  BY <1>3 DEF SectionOK
    <3>2. Cur(u) \in Contexts  BY <3>1, VectorFacts DEF TargetOK
    <3>3. \/ local[u].pc = "fill"
          \/ local[u].pc = "complete" /\ (WritesMeetNoReads => local[u].op = "move")
          \/ Cur(u) # c
      <4> SUFFICES ASSUME Cur(u) = c, local[u].pc # "fill", Bucket(u) = Bucket(t)
                   PROVE  /\ local[u].pc = "complete"
                          /\ WritesMeetNoReads => local[u].op = "move"
        BY <1>1, <3>1 DEF TargetOK
      <4>1. local[u].pc # "publish"
        <5>1. local[u].pc = "publish" => d_buckets[Bucket(u)].raw = NoContext
          BY <1>3 DEF SectionOK, Unpublished
        <5> QED BY <1>1, <5>1, LocksAreNumbers
      <4>2. local[u].op # "for_each" /\ local[t].op # "for_each"
        BY <1>1, <2>1, WriterOrOther
      <4>3. WritesMeetNoReads => local[t].op = "move" /\ local[u].op # "const_for_each"
        BY <1>3, <4>2, OperationFacts DEF MixOK
      <4> QED BY <4>1, <4>2, <4>3, OperationFacts
    <3>4. CASE local[u].pc = "fill"
      BY <1>2, <2>2, <3>1, <3>2, <3>4 DEF TargetOK
    <3>5. CASE local[u].pc = "complete" /\ (WritesMeetNoReads => local[u].op = "move")
      BY <1>2, <2>2, <3>1, <3>2, <3>5 DEF TargetOK
    <3>6. CASE Cur(u) # c
      BY <1>2, <2>2, <3>1, <3>6 DEF TargetOK
    <3> QED BY <3>3, <3>4, <3>5, <3>6
  <2>8. SectionOK(u)'
    BY <1>3, <2>2, <2>6, <2>7 DEF SectionOK, Inner
  <2>9. CallFits(u)'
    <3>1. local[u].pc = "tried" => Candidate(u) \in Contexts
      <4>1. local[u].pc = "tried" => SearchOK(u)  BY <1>3 DEF SectionOK, Searching
      <4>2. local[u].pc = "tried" => local[u].at \in 1..Len(d_contexts)
        BY <2>3, <4>1, VectorFacts DEF SearchOK
      <4> QED BY <2>4, <4>2 DEF Candidate
    <3>2. Candidate(u)' = Candidate(u)  BY <2>2 DEF Candidate
    <3> QED BY <1>2, <1>3, <2>2, <3>1, <3>2 DEF LocksFit, CallFits, IdleSpinner, Mode
  <2>10. LocksFit(u)'
    BY <1>3, <2>2, <2>9 DEF LocksFit, InBucket, InSection, IdleSpinner, Has, Mode
  <2> QED BY <2>8, <2>10
<1> QED BY <1>4, <1>5

\* What a thread does to the dirty flag and the values of its context.
LEMMA WorkKeepsVector ==
  ASSUME IInv, VectorInv, NEW t \in Threads, local[t].pc \in Accesses,
         local'[t].pc \in Accesses, local[t].op # "const_for_each", OthersSame(t),
         UNCHANGED <<d_buckets, d_contexts, heap, live>>, NEW x \in RawBuffers,
         contexts' = [contexts EXCEPT ![Cur(t)] = x],
         x.block_index = contexts[Cur(t)].block_index, x.buffer = contexts[Cur(t)].buffer,
         contexts[Cur(t)].dirty = 1 => x.dirty = 1,
         \/ x.storage = contexts[Cur(t)].storage /\ done' = done
         \/ /\ x.storage = contexts[Cur(t)].storage + 1
            /\ done' = [done EXCEPT ![Bucket(t)] = @ + 1],
         Covered(Bucket(t)) => Covered(Bucket(t))', Covered(Bucket(t))' \/ x.buffer # Null,
         WritesMeetNoReads => Covered(Bucket(t))', local' \in [Threads -> Operations],
         local'[t].op = local[t].op, Bucket(t)' = Bucket(t), ThreadOK(t)'
  PROVE  VectorInv'
<1> DEFINE c == Cur(t)
           b == Bucket(t)
<1>1. /\ c \in Contexts /\ c \in heap /\ InBucket(t) /\ b \in Buckets
      /\ d_buckets[b].raw = c /\ contexts[c].block_index = b
  BY AccessFacts
<1>2. /\ contexts'[c] = x /\ \A d : d # c => contexts'[d] = contexts[d]
      /\ contexts' \in [Contexts -> RawBuffers]
  BY <1>1 DEF VectorInv, VectorTypeOK
<1>3. /\ \A e \in Buckets : e # b => done'[e] = done[e]
      /\ done' \in [Buckets -> Nat]
      /\ \/ x.storage = contexts[c].storage /\ done'[b] = done[b]
         \/ x.storage = contexts[c].storage + 1 /\ done'[b] = done[b] + 1
  BY <1>1 DEF VectorInv, VectorTypeOK
<1>4. \A u \in Threads : u # t => local'[u] = local[u] /\ SameThread(u)
  BY DEF OthersSame, SameThread
<1>5. ASSUME NEW e \in Buckets, e # b, d_buckets[e].raw # NoContext
      PROVE  d_buckets[e].raw # c
  BY <1>1, <1>5, RawFacts
<1>6. VectorTypeOK'  BY <1>2, <1>3 DEF VectorInv, VectorTypeOK
<1>7. MixOK'  BY <1>4 DEF VectorInv, MixOK
<1>8. ASSUME NEW e \in Buckets, Covered(e) PROVE Covered(e)'
  <2>1. CASE e = b  BY <1>8, <2>1
  <2>2. CASE e # b
    <3>1. contexts[d_buckets[e].raw].dirty = 1 => contexts'[d_buckets'[e].raw].dirty = 1
      BY <1>2
    <3> QED BY <1>4, <1>8, <2>2, <3>1, CoveredStays
  <2> QED BY <2>1, <2>2
<1>9. ASSUME NEW u \in Threads, u # t PROVE ThreadOK(u)'
  <2>1. ThreadOK(u) /\ SameThread(u)  BY <1>4, <1>9 DEF VectorInv
  <2>2. LocksFit(u)' /\ SectionOK(u)'  BY <1>9, <2>1, WorkerStays
  <2>3. AccessOK(u)'
    <3> SUFFICES ASSUME local[u].pc \in Accesses PROVE AccessOK(u)'
      BY <2>1 DEF AccessOK, SameThread
    <3>1. /\ InBucket(u) /\ Bucket(u) \in Buckets /\ AccessOK(u) /\ Cur(u) \in Contexts
          /\ Cur(u) \in heap /\ d_buckets[Bucket(u)].raw = Cur(u)
          /\ contexts[Cur(u)].block_index = Bucket(u)
      BY AccessFacts
    <3>2. contexts'[Cur(u)].block_index = contexts[Cur(u)].block_index  BY <1>2
    <3>3. local[u].pc = "write" => contexts'[Cur(u)].storage = contexts[Cur(u)].storage
      <4> SUFFICES ASSUME local[u].pc = "write" PROVE Cur(u) # c
        BY <1>2
      <4>1. local[u].op = "for_each"  BY <3>1 DEF AccessOK, Accesses
      <4>2. Bucket(u) # b  BY <1>1, <1>9, <3>1, <4>1, WriterOrOther
      <4> QED BY <1>1, <3>1, <4>2
    <3>4. WritesMeetNoReads /\ local[u].pc = "add" => Covered(Bucket(u))'
      <4>1. WritesMeetNoReads /\ local[u].pc = "add" => Covered(Bucket(u))
        BY <3>1 DEF AccessOK, Accesses
      <4>2. Bucket(u)' = Bucket(u)  BY <2>1 DEF Bucket, SameThread
      <4> QED BY <1>8, <3>1, <4>1, <4>2
    <3> QED BY <2>1, <3>1, <3>2, <3>3, <3>4, AccessStays DEF SameThread
  <2> QED BY <2>2, <2>3 DEF ThreadOK
<1>10. \A u \in Threads : ThreadOK(u)'  BY <1>9
<1>11. ListOK'
  <2>1. ListOK  BY DEF VectorInv
  <2>2. ASSUME NEW e \in Buckets, d_buckets[e].raw # NoContext
        PROVE  LET raw == d_buckets[e].raw
               IN  /\ raw \in heap /\ contexts'[raw].block_index = e
                   /\ Covered(e)' \/ IsSaved(contexts'[raw])
    <3>1. CASE e = b  BY <1>1, <1>2, <3>1 DEF IsSaved
    <3>2. CASE e # b
      <4>1. contexts'[d_buckets[e].raw] = contexts[d_buckets[e].raw]
        BY <1>2, <1>5, <2>2, <3>2
      <4> QED BY <1>8, <2>1, <2>2, <4>1 DEF ListOK
    <3> QED BY <3>1, <3>2
  <2>3. ASSUME NEW d, InTransit(d) PROVE InTransit(d)'
    <3>1. PICK u \in Threads : \/ local[u].pc = "unlock" /\ d = Candidate(u)
                               \/ local[u].pc = "publish" /\ d = Cur(u)
      BY <2>3 DEF InTransit
    <3>2. u # t  BY <3>1 DEF Accesses
    <3> QED BY <1>4, <3>1, <3>2 DEF InTransit, Candidate, Cur
  <2>4. ASSUME NEW d \in heap
        PROVE  LET e == contexts'[d].block_index
               IN  IF e = NoBucket THEN contexts'[d].dirty = 0 /\ contexts'[d].buffer = Null
                   ELSE d_buckets[e].raw = d \/ InTransit(d)'
    <3>1. CASE d = c  BY <1>1, <1>2, <3>1, LocksAreNumbers
    <3>2. CASE d # c  BY <1>2, <2>1, <2>3, <3>2 DEF ListOK
    <3> QED BY <3>1, <3>2
  <2> QED BY <2>1, <2>2, <2>4 DEF ListOK
<1>12. ContentOK'
  <2> SUFFICES ASSUME NEW e \in Buckets, WritesMeetNoReads PROVE Holds(e, done[e])'
    BY DEF VectorInv, ContentOK
  <2>1. Holds(e, done[e])  BY DEF VectorInv, ContentOK
  <2>2. CASE e = b
    <3>1. contexts[c].storage = done[b]  BY <1>1, <2>1, <2>2, LocksAreNumbers DEF Holds
    <3> QED BY <1>1, <1>2, <1>3, <2>2, <3>1, LocksAreNumbers DEF Holds
  <2>3. CASE e # b  BY <1>2, <1>3, <1>5, <2>1, <2>3 DEF Holds
  <2> QED BY <2>2, <2>3
<1>13. BuffersCounted'
  <2>1. ASSUME NEW e \in Buckets PROVE Owned(e)' <=> Owned(e)
    <3>1. HasBuffer(e)' <=> HasBuffer(e)  BY <1>2 DEF HasBuffer
    <3>2. local[t].pc # "complete" /\ local'[t].pc # "complete"  BY DEF Accesses
    <3> QED BY <1>4, <3>1, <3>2, OwnedStays
  <2> QED BY <2>1 DEF VectorInv, BuffersCounted
<1> QED BY <1>6, <1>7, <1>10, <1>11, <1>12, <1>13 DEF VectorInv

\* A context whose field is assigned.
LEMMA FieldFacts ==
  ASSUME VectorInv, NEW c \in Contexts
  PROVE  /\ \A n \in Nat :
              /\ [contexts[c] EXCEPT !.storage = n] \in RawBuffers
              /\ [contexts[c] EXCEPT !.storage = n].storage = n
              /\ [contexts[c] EXCEPT !.storage = n].dirty = contexts[c].dirty
              /\ [contexts[c] EXCEPT !.storage = n].block_index = contexts[c].block_index
              /\ [contexts[c] EXCEPT !.storage = n].buffer = contexts[c].buffer
         /\ [contexts[c] EXCEPT !.dirty = 1] \in RawBuffers
         /\ [contexts[c] EXCEPT !.dirty = 1].dirty = 1
         /\ [contexts[c] EXCEPT !.dirty = 1].storage = contexts[c].storage
         /\ [contexts[c] EXCEPT !.dirty = 1].block_index = contexts[c].block_index
         /\ [contexts[c] EXCEPT !.dirty = 1].buffer = contexts[c].buffer
         /\ \A b \in Buffers :
              /\ [contexts[c] EXCEPT !.buffer = b] \in RawBuffers
              /\ [contexts[c] EXCEPT !.buffer = b].buffer = b
              /\ [contexts[c] EXCEPT !.buffer = b].dirty = contexts[c].dirty
              /\ [contexts[c] EXCEPT !.buffer = b].storage = contexts[c].storage
              /\ [contexts[c] EXCEPT !.buffer = b].block_index = contexts[c].block_index
<1>1. contexts[c] \in RawBuffers  BY VectorFacts
<1> QED BY <1>1 DEF RawBuffers

LEMMA WriteIsGood ==
  ASSUME IInv, VectorInv, NEW t \in Threads, Write(t) \/ FetchAdd(t)
  PROVE  Good
<1> DEFINE c == Cur(t)
           x == [contexts[c] EXCEPT !.storage = contexts[c].storage + 1]
<1>1. PICK pc \in {"mark", "leave"} :
        /\ local[t].pc \in {"write", "add"} /\ IdleSpinner(t) /\ Step(t, pc)
        /\ local[t].pc = "write" => pc = "mark" /\ Field(c, "storage", local[t].seen + 1)
        /\ local[t].pc = "add" => pc = "leave" /\ Field(c, "storage", contexts[c].storage + 1)
        /\ done' = [done EXCEPT ![Bucket(t)] = @ + 1]
        /\ UNCHANGED spinner_vars /\ UNCHANGED <<d_buckets, heap, d_contexts, live>>
  BY DEF Write, FetchAdd, At, spinner_vars
<1>2. /\ LocksFit(t) /\ AccessOK(t) /\ InBucket(t) /\ c \in Contexts /\ c \in heap
      /\ Bucket(t) \in Buckets /\ d_buckets[Bucket(t)].raw = c
      /\ contexts[c].block_index = Bucket(t)
  BY <1>1, AccessFacts DEF Accesses
<1>3. /\ local[t].pc = "write" => local[t].seen = contexts[c].storage /\ local[t].op = "for_each"
      /\ local[t].pc = "add" => local[t].op = "move" /\ (WritesMeetNoReads => Covered(Bucket(t)))
  BY <1>2 DEF AccessOK, Accesses
<1>4. contexts[c].storage \in Nat  BY <1>2, VectorFacts
<1>5. contexts' = [contexts EXCEPT ![c] = x]
  BY <1>1, <1>2, <1>3 DEF Field, VectorInv, VectorTypeOK
<1>6. /\ x \in RawBuffers /\ x.storage = contexts[c].storage + 1
      /\ x.dirty = contexts[c].dirty /\ x.block_index = contexts[c].block_index
      /\ x.buffer = contexts[c].buffer
  <2> DEFINE n == contexts[c].storage + 1
  <2>1. n \in Nat  BY <1>4
  <2> HIDE DEF n
  <2>2. /\ [contexts[c] EXCEPT !.storage = n] \in RawBuffers
        /\ [contexts[c] EXCEPT !.storage = n].storage = n
        /\ [contexts[c] EXCEPT !.storage = n].dirty = contexts[c].dirty
        /\ [contexts[c] EXCEPT !.storage = n].block_index = contexts[c].block_index
        /\ [contexts[c] EXCEPT !.storage = n].buffer = contexts[c].buffer
    BY <1>2, <2>1, FieldFacts
  <2> QED BY <2>2 DEF n
<1> HIDE DEF x
<1>7. /\ local' \in [Threads -> Operations]
      /\ \A u \in Threads : u # t => local'[u] = local[u]
      /\ local'[t].pc = pc /\ local'[t].op = local[t].op /\ Bucket(t)' = Bucket(t)
      /\ Cur(t)' = Cur(t)
  BY <1>1, StepFacts DEF Pcs
<1>8. IInv' /\ OthersSame(t) /\ held' = held /\ call' = call  BY <1>1, <1>7, LocksStay
<1>9. contexts'[c] = x  BY <1>2, <1>5 DEF VectorInv, VectorTypeOK
<1>10. /\ Covered(Bucket(t)) => Covered(Bucket(t))'
       /\ Covered(Bucket(t))' \/ x.buffer # Null
       /\ WritesMeetNoReads => Covered(Bucket(t))'
  <2>1. CASE pc = "mark"  BY <1>7, <2>1 DEF Covered, Unsaved
  <2>2. CASE pc = "leave"
    <3>1. local[t].pc = "add"  BY <1>1, <2>2
    <3>2. /\ ~Unsaved(t) /\ (WritesMeetNoReads => Covered(Bucket(t)))
          /\ Covered(Bucket(t)) \/ x.buffer # Null
      BY <1>2, <1>3, <1>6, <3>1, LocksAreNumbers DEF Unsaved, VectorInv, ListOK, IsSaved
    <3>3. contexts'[d_buckets'[Bucket(t)].raw].dirty = contexts[d_buckets[Bucket(t)].raw].dirty
      BY <1>1, <1>2, <1>6, <1>9
    <3> QED BY <1>2, <1>7, <3>2, <3>3, CoveredStays
  <2> QED BY <2>1, <2>2
<1>11. ThreadOK(t)'
  <2>1. IdleSpinner(t)' /\ ~InSection(t)'
    BY <1>1, <1>7, <1>8 DEF IdleSpinner, InSection, Unpublished, Searching
  <2>2. LocksFit(t)'  BY <1>2, <1>7, <1>8, <2>1, LocksFitStill
  <2>3. SectionOK(t)'  BY <1>7 DEF SectionOK, Unpublished, Searching
  <2>4. AccessOK(t)'  BY <1>1, <1>2, <1>3, <1>6, <1>7, <1>9 DEF AccessOK
  <2> QED BY <2>2, <2>3, <2>4 DEF ThreadOK
<1>12. local[t].pc \in Accesses /\ local'[t].pc \in Accesses  BY <1>1, <1>7 DEF Accesses
<1>13. local[t].op # "const_for_each"  BY <1>1, <1>3
<1>14. VectorInv'
  BY <1>1, <1>5, <1>6, <1>7, <1>8, <1>10, <1>11, <1>12, <1>13, WorkKeepsVector
<1> QED BY <1>1, <1>8, <1>14 DEF Good

LEMMA MarkIsGood ==
  ASSUME IInv, VectorInv, NEW t \in Threads, MarkDirty(t) \/ MarkMoved(t)
  PROVE  Good
<1> DEFINE c == Cur(t)
           x == [contexts[c] EXCEPT !.dirty = 1]
<1>1. PICK pc \in {"dealloc", "add"} :
        /\ local[t].pc \in {"mark", "access"} /\ IdleSpinner(t) /\ Step(t, pc)
        /\ local[t].pc = "mark" => pc = "dealloc" /\ Lock(t, d_lock)
        /\ local[t].pc = "access" => pc = "add" /\ local[t].op = "move" /\ UNCHANGED spinner_vars
        /\ Field(c, "dirty", 1)
        /\ UNCHANGED <<d_buckets, heap, d_contexts, live, done>>
  BY DEF MarkDirty, MarkMoved, At, spinner_vars
<1>2. /\ LocksFit(t) /\ AccessOK(t) /\ InBucket(t) /\ c \in Contexts /\ c \in heap
      /\ Bucket(t) \in Buckets /\ d_buckets[Bucket(t)].raw = c
      /\ Has(t, Bucket(t), Mode(t)) /\ contexts[c].block_index = Bucket(t)
  BY <1>1, AccessFacts DEF Accesses
<1>3. local[t].pc = "mark" => local[t].op = "for_each"  BY <1>2 DEF AccessOK, Accesses
<1>4. contexts' = [contexts EXCEPT ![c] = x]
  BY <1>1, <1>2 DEF Field, VectorInv, VectorTypeOK
<1>5. /\ x \in RawBuffers /\ x.storage = contexts[c].storage
      /\ x.dirty = 1 /\ x.block_index = contexts[c].block_index
      /\ x.buffer = contexts[c].buffer
  BY <1>2, FieldFacts
<1> HIDE DEF x
<1>6. /\ local' \in [Threads -> Operations]
      /\ \A u \in Threads : u # t => local'[u] = local[u]
      /\ local'[t].pc = pc /\ local'[t].op = local[t].op /\ Bucket(t)' = Bucket(t)
      /\ Cur(t)' = Cur(t)
  BY <1>1, StepFacts DEF Pcs
<1>7. contexts'[c] = x  BY <1>2, <1>4 DEF VectorInv, VectorTypeOK
<1>8. Covered(Bucket(t))'  BY <1>1, <1>2, <1>5, <1>6, <1>7 DEF Covered
<1>9. /\ IInv' /\ OthersInLocks(t) /\ held' = held /\ [SpinnerNext]_spinner_vars
      /\ CallFits(t)' /\ ~InSection(t)'
  <2>1. CASE local[t].pc = "mark"
    <3>1. /\ IInv' /\ SpinnerNext /\ OthersInLocks(t) /\ held' = held
          /\ call'[t].method = "lock" /\ call'[t].lock = d_lock /\ ~IdleSpinner(t)'
      BY <1>1, <2>1, LocksAreNumbers, CallStarts
    <3> QED BY <1>1, <1>6, <2>1, <3>1 DEF CallFits, InSection, Unpublished, Searching
  <2>2. CASE local[t].pc = "access"
    <3>1. IInv' /\ held' = held /\ call' = call
      BY <1>1, <1>6, <2>2, LocksStay
    <3> QED BY <1>1, <1>6, <2>2, <3>1
            DEF OthersInLocks, CallFits, IdleSpinner, InSection, Unpublished, Searching
  <2> QED BY <1>1, <2>1, <2>2
<1>10. OthersSame(t)  BY <1>6, <1>9 DEF OthersSame, SameThread, OthersInLocks
<1>11. ThreadOK(t)'
  <2>1. LocksFit(t)'  BY <1>2, <1>6, <1>9 DEF LocksFit, Has, Mode
  <2>2. SectionOK(t)'  BY <1>6 DEF SectionOK, Unpublished, Searching
  <2>3. AccessOK(t)'  BY <1>1, <1>2, <1>3, <1>5, <1>6, <1>7, <1>8 DEF AccessOK
  <2> QED BY <2>1, <2>2, <2>3 DEF ThreadOK
<1>12. local[t].pc \in Accesses /\ local'[t].pc \in Accesses  BY <1>1, <1>6 DEF Accesses
<1>13. local[t].op # "const_for_each"  BY <1>1, <1>3
<1>14. VectorInv'
  BY <1>1, <1>4, <1>5, <1>6, <1>8, <1>10, <1>11, <1>12, <1>13, WorkKeepsVector
<1> QED BY <1>9, <1>14 DEF Good

-----------------------------------------------------------------------------
(* Steps under d_lock *)

\* What a thread outside d_lock relies on, of the bucket it has.
BucketStays(b) ==
  LET raw == d_buckets[b].raw
  IN  /\ d_buckets'[b].raw = raw /\ raw \in heap'
      /\ contexts'[raw].block_index = contexts[raw].block_index
      /\ contexts'[raw].storage = contexts[raw].storage

LEMMA SectionOthers ==
  ASSUME IInv, VectorInv, NEW t \in Threads, InSection(t), NEW u \in Threads, u # t,
         SameThread(u), local[u].pc \in Accesses => BucketStays(Bucket(u)),
         WritesMeetNoReads /\ local[u].pc = "add" => Covered(Bucket(u))'
  PROVE  ThreadOK(u)'
<1>1. LocksFit(u) /\ SectionOK(u) /\ AccessOK(u)  BY DEF VectorInv, ThreadOK
<1>2. LocksFit(u)' /\ SectionOK(u)'  BY <1>1, OneInSection, OutsideStays
<1>3. AccessOK(u)'
  <2> SUFFICES ASSUME local[u].pc \in Accesses PROVE AccessOK(u)'
    BY DEF AccessOK, SameThread
  <2>1. Bucket(u)' = Bucket(u) /\ local'[u] = local[u]  BY DEF SameThread, Bucket
  <2>2. d_buckets[Bucket(u)].raw = Cur(u)  BY <1>1 DEF AccessOK
  <2> QED BY <1>1, <2>1, <2>2, AccessStays DEF BucketStays
<1> QED BY <1>2, <1>3 DEF ThreadOK

\* No bucket but b changes.
LEMMA SectionKeepsVector ==
  ASSUME IInv, VectorInv, NEW t \in Threads, InSection(t), OthersSame(t), VectorTypeOK',
         done' = done, local'[t].op = local[t].op, Bucket(t)' = Bucket(t), ThreadOK(t)',
         NEW b,
         Unsaved(t) \/ local'[t].pc = "complete" => Bucket(t) = b,
         \A e \in Buckets \ {b} :
           /\ d_buckets'[e] = d_buckets[e]
           /\ LET raw == d_buckets[e].raw
              IN  raw # NoContext => raw \in heap' /\ contexts'[raw] = contexts[raw],
         b \in Buckets =>
           LET raw == d_buckets'[b].raw
           IN  /\ WritesMeetNoReads => Holds(b, done[b])'
               /\ raw = NoContext => d_buckets'[b].compressed # Null
               /\ raw # NoContext =>
                    /\ raw \in heap' /\ contexts'[raw].block_index = b
                    /\ Covered(b)' \/ IsSaved(contexts'[raw])
               /\ \A u \in Threads :
                    u # t /\ local[u].pc \in Accesses /\ Bucket(u) = b =>
                      /\ BucketStays(b)
                      /\ WritesMeetNoReads /\ local[u].pc = "add" /\ Covered(b) => Covered(b)',
         IsInjective(d_contexts)',
         \A c \in heap' :
           LET e == contexts'[c].block_index
           IN  IF e = NoBucket THEN contexts'[c].dirty = 0 /\ contexts'[c].buffer = Null
               ELSE d_buckets'[e].raw = c \/ InTransit(c)',
         \/ live' = live /\ (b \in Buckets => (Owned(b)' <=> Owned(b)))
         \/ live' = live + 1 /\ b \in Buckets /\ Owned(b)' /\ ~Owned(b)
         \/ live' = live - 1 /\ b \in Buckets /\ ~Owned(b)' /\ Owned(b)
  PROVE  VectorInv'
<1>1. \A u \in Threads : u # t => local'[u] = local[u] /\ SameThread(u)
  BY DEF OthersSame, SameThread
<1>2. MixOK'  BY <1>1 DEF VectorInv, MixOK
<1>3. ASSUME NEW e \in Buckets \ {b}, Covered(e), d_buckets[e].raw # NoContext PROVE Covered(e)'
  <2>1. contexts[d_buckets[e].raw].dirty = 1 => contexts'[d_buckets'[e].raw].dirty = 1
    BY <1>3
  <2>2. ~(Unsaved(t) /\ Bucket(t) = e)  BY <1>3
  <2> QED BY <1>1, <1>3, <2>1, <2>2, CoveredStays
<1>4. ASSUME NEW u \in Threads, u # t PROVE ThreadOK(u)'
  <2>1. ASSUME local[u].pc \in Accesses
        PROVE  /\ BucketStays(Bucket(u))
               /\ WritesMeetNoReads /\ local[u].pc = "add" => Covered(Bucket(u))'
    <3>1. PICK e \in Buckets : e = Bucket(u) /\ d_buckets[e].raw \in heap
      BY <2>1, AccessFacts
    <3>2. d_buckets[e].raw # NoContext  BY <3>1, VectorFacts, LocksAreNumbers
    <3>3. WritesMeetNoReads /\ local[u].pc = "add" => Covered(e)
      BY <2>1, <3>1, AccessFacts DEF AccessOK, Accesses
    <3>4. BucketStays(e) /\ (WritesMeetNoReads /\ local[u].pc = "add" => Covered(e)')
      <4>1. CASE e = b  BY <1>4, <2>1, <3>1, <3>3, <4>1
      <4>2. CASE e # b  BY <1>3, <3>2, <3>3, <4>2 DEF BucketStays
      <4> QED BY <4>1, <4>2
    <3>5. Bucket(u)' = e  BY <1>1, <1>4, <3>1 DEF Bucket
    <3> QED BY <3>1, <3>4, <3>5
  <2>2. local[u].pc = "add" => local[u].pc \in Accesses  BY DEF Accesses
  <2> QED BY <1>1, <1>4, <2>1, <2>2, SectionOthers
<1>5. \A u \in Threads : ThreadOK(u)'  BY <1>4
<1>6. ListOK'
  <2>1. ListOK  BY DEF VectorInv
  <2>2. ASSUME NEW e \in Buckets, d_buckets'[e].raw # NoContext
        PROVE  LET raw == d_buckets'[e].raw
               IN  /\ raw \in heap' /\ contexts'[raw].block_index = e
                   /\ Covered(e)' \/ IsSaved(contexts'[raw])
    <3>1. CASE e = b  BY <2>2, <3>1
    <3>2. CASE e # b  BY <1>3, <2>1, <2>2, <3>2 DEF ListOK
    <3> QED BY <3>1, <3>2
  <2> QED BY <2>2 DEF ListOK
<1>7. ContentOK'
  <2> SUFFICES ASSUME NEW e \in Buckets
               PROVE  /\ d_buckets'[e].raw = NoContext => d_buckets'[e].compressed # Null
                      /\ WritesMeetNoReads => Holds(e, done[e])'
    BY DEF ContentOK
  <2>1. /\ d_buckets[e].raw = NoContext => d_buckets[e].compressed # Null
        /\ WritesMeetNoReads => Holds(e, done[e])
    BY DEF VectorInv, ContentOK
  <2>2. CASE e = b  BY <2>2
  <2>3. CASE e # b  BY <2>1, <2>3 DEF Holds
  <2> QED BY <2>2, <2>3
<1>8. ASSUME NEW e \in Buckets \ {b} PROVE Owned(e)' <=> Owned(e)
  <2>1. HasBuffer(e)' <=> HasBuffer(e)  BY DEF HasBuffer
  <2>2. ASSUME NEW u \in Threads
        PROVE  (local'[u].pc = "complete" /\ Bucket(u)' = e)
                 <=> (local[u].pc = "complete" /\ Bucket(u) = e)
    <3>1. CASE u = t  BY <3>1 DEF Unsaved
    <3>2. CASE u # t  BY <1>1, <3>2 DEF Bucket
    <3> QED BY <3>1, <3>2
  <2> QED BY <2>1, <2>2 DEF Owned
<1>9. BuffersCounted'
  <2> DEFINE S == {e \in Buckets : Owned(e)}
             T == {e \in Buckets : Owned(e)'}
  <2>1. live = Cardinality(S)  BY DEF VectorInv, BuffersCounted
  <2>2. IsFiniteSet(S)  BY LocksAreNumbers, FS_Subset
  <2>3. CASE live' = live /\ (b \in Buckets => (Owned(b)' <=> Owned(b)))
    <3>1. S = T  BY <1>8, <2>3
    <3> QED BY <2>1, <2>3, <3>1 DEF BuffersCounted
  <2>4. CASE live' = live + 1 /\ b \in Buckets /\ Owned(b)' /\ ~Owned(b)
    <3>1. T = S \union {b} /\ b \notin S  BY <1>8, <2>4
    <3>2. Cardinality(T) = Cardinality(S) + 1  BY <2>2, <3>1, FS_AddElement
    <3> QED BY <2>1, <2>4, <3>2 DEF BuffersCounted
  <2>5. CASE live' = live - 1 /\ b \in Buckets /\ ~Owned(b)' /\ Owned(b)
    <3>1. T = S \ {b} /\ b \in S  BY <1>8, <2>5
    <3>2. Cardinality(T) = Cardinality(S) - 1  BY <2>2, <3>1, FS_RemoveElement
    <3> QED BY <2>1, <2>5, <3>2 DEF BuffersCounted
  <2> QED BY <2>3, <2>4, <2>5
<1> QED BY <1>2, <1>5, <1>6, <1>7, <1>9 DEF VectorInv

\* A context that says it is a bucket's is that of the bucket, unless the owner of d_lock
\* is about to publish it or to give it away.
LEMMA ContextOwner ==
  ASSUME IInv, VectorInv, NEW t \in Threads, InSection(t), NEW c \in heap,
         contexts[c].block_index # NoBucket
  PROVE  \/ d_buckets[contexts[c].block_index].raw = c
         \/ local[t].pc = "unlock" /\ c = Candidate(t)
         \/ local[t].pc = "publish" /\ c = Cur(t)
<1>1. d_buckets[contexts[c].block_index].raw = c \/ InTransit(c)
  BY DEF VectorInv, ListOK
<1>2. ASSUME NEW u \in Threads, local[u].pc \in {"unlock", "publish"} PROVE u = t
  <2>1. InSection(u)  BY <1>2 DEF InSection, Unpublished, Searching
  <2> QED BY <2>1, OneInSection
<1> QED BY <1>1, <1>2 DEF InTransit

\* The place of a search in the list.
LEMMA CandidateFacts ==
  ASSUME VectorInv, NEW t \in Threads, local[t].pc \in Searching, local[t].pc # "find"
  PROVE  /\ SearchOK(t) /\ local[t].at \in 1..Len(d_contexts) /\ local[t].found \in Nat
         /\ Candidate(t) \in heap /\ Candidate(t) \in Contexts
         /\ contexts[Candidate(t)].block_index \in Buckets \union {NoBucket}
         /\ Inner(t) => local[t].found \in 1..Len(d_contexts)
<1>1. SearchOK(t)  BY DEF VectorInv, ThreadOK, SectionOK
<1>2. local[t].at \in Nat /\ local[t].found \in Nat  BY OperationFacts
<1>3. local[t].at \in 1..Len(d_contexts)  BY <1>1, <1>2, VectorFacts DEF SearchOK
<1>4. Candidate(t) \in heap /\ Candidate(t) \in Contexts  BY <1>3, VectorFacts DEF Candidate
<1>5. Inner(t) => local[t].found \in 1..Len(d_contexts)
  BY <1>1, <1>2, VectorFacts DEF SearchOK, Inner
<1> QED BY <1>1, <1>2, <1>3, <1>4, <1>5, VectorFacts

\* A step of the section that leaves the locks alone.
LEMMA SectionStep ==
  ASSUME IInv, VectorInv, NEW t \in Threads, InSection(t), IdleSpinner(t),
         UNCHANGED spinner_vars, \A u \in Threads : u # t => local'[u] = local[u],
         local'[t].op = local[t].op, Bucket(t)' = Bucket(t)
  PROVE  /\ IInv' /\ OthersSame(t) /\ LocksFit(t)' /\ held' = held
         /\ [SpinnerNext]_spinner_vars
<1>1. IInv' /\ OthersSame(t) /\ held' = held /\ call' = call  BY LocksStay
<1>2. LocksFit(t) /\ InBucket(t) /\ Has(t, d_lock, "write")  BY SectionFacts
<1>3. IdleSpinner(t)' /\ Has(t, d_lock, "write")'  BY <1>1, <1>2 DEF IdleSpinner, Has
<1>4. LocksFit(t)'  BY <1>1, <1>2, <1>3, LocksFitStill
<1> QED BY <1>1, <1>4

LEMMA SaveIsGood ==
  ASSUME IInv, VectorInv, NEW t \in Threads, Save(t)
  PROVE  Good
<1>1. /\ local[t].pc = "tried" /\ IdleSpinner(t) /\ Got(t) /\ UNCHANGED spinner_vars
      /\ UNCHANGED <<d_buckets, heap, d_contexts, done>>
  BY DEF Save, At, spinner_vars
<1>2. local[t].pc \in Searching /\ InSection(t)  BY <1>1 DEF Searching, InSection, Unpublished
<1>3. PICK c \in heap : c = Candidate(t)  BY <1>1, <1>2, CandidateFacts
<1>4. /\ c \in Contexts /\ SearchOK(t) /\ local[t].at \in 1..Len(d_contexts)
      /\ local[t].found \in Nat /\ contexts[c].block_index \in Buckets \union {NoBucket}
  BY <1>1, <1>2, <1>3, CandidateFacts
<1>5. PICK b : b = contexts[c].block_index  OBVIOUS
<1>6. b # NoBucket => b \in Buckets /\ Has(t, b, "write") /\ d_buckets[b].raw = c
  BY <1>1, <1>2, <1>3, <1>4, <1>5, ContextOwner DEF Got
<1>7. contexts[c].dirty \in {0, 1} /\ contexts[c].storage \in Nat /\ Buffer(contexts[c].storage) \in Buffers
  BY <1>4, VectorFacts, BufferFacts
<1>8. PICK x \in RawBuffers :
        /\ contexts' = [contexts EXCEPT ![c] = x]
        /\ x.block_index = b /\ x.dirty = contexts[c].dirty /\ x.storage = contexts[c].storage
        /\ IF contexts[c].dirty = 1
           THEN /\ x.buffer = Buffer(x.storage)
                /\ live' = IF contexts[c].buffer = Null THEN live + 1 ELSE live
           ELSE x.buffer = contexts[c].buffer /\ live' = live
  <2>1. CASE contexts[c].dirty = 1
    <3> DEFINE y == [contexts[c] EXCEPT !.buffer = Buffer(contexts[c].storage)]
    <3>1. /\ y \in RawBuffers /\ y.buffer = Buffer(contexts[c].storage)
          /\ y.dirty = contexts[c].dirty /\ y.storage = contexts[c].storage
          /\ y.block_index = contexts[c].block_index
      BY <1>4, <1>7, FieldFacts
    <3>2. Compress(c)  BY <1>3, <2>1 DEF Save
    <3>3. contexts' = [contexts EXCEPT ![c] = y]
      BY <1>4, <3>2 DEF Compress, Field, VectorInv, VectorTypeOK
    <3>4. live' = IF contexts[c].buffer = Null THEN live + 1 ELSE live  BY <3>2 DEF Compress
    <3> HIDE DEF y
    <3> QED BY <1>5, <2>1, <3>1, <3>3, <3>4
  <2>2. CASE contexts[c].dirty # 1
    <3>1. contexts' = contexts /\ live' = live  BY <1>3, <2>2 DEF Save
    <3>2. contexts' = [contexts EXCEPT ![c] = contexts[c]]
      BY <1>4, <3>1 DEF VectorInv, VectorTypeOK
    <3> QED BY <1>4, <1>5, <2>2, <3>1, <3>2, VectorFacts
  <2> QED BY <2>1, <2>2
<1>9. /\ contexts'[c] = x /\ \A d : d # c => contexts'[d] = contexts[d]
      /\ contexts' \in [Contexts -> RawBuffers]
  BY <1>4, <1>8 DEF VectorInv, VectorTypeOK
<1>10. /\ local' \in [Threads -> Operations]
       /\ \A u \in Threads : u # t => local'[u] = local[u]
       /\ local'[t].op = local[t].op /\ Bucket(t)' = Bucket(t)
       /\ \/ /\ local'[t].pc = "unlink" /\ local'[t].at = local[t].at
             /\ local'[t].found = local[t].found
          \/ /\ local'[t].pc = "find" /\ local'[t].at = local[t].at - 1 /\ ~Inner(t)
             /\ local'[t].found = local[t].at
  <2>1. CASE Step(t, "unlink")  BY <2>1, StepFacts DEF Pcs
  <2>2. CASE /\ ~Inner(t)
             /\ local' = [local EXCEPT ![t].pc = "find", ![t].found = local[t].at,
                                       ![t].at = @ - 1]
    <3> DEFINE job == [local[t] EXCEPT !.pc = "find", !.found = local[t].at,
                                       !.at = local[t].at - 1]
    <3>1. local[t] \in Operations /\ local[t].at \in Nat /\ local[t].at - 1 \in Nat
      BY <1>4, OperationFacts
    <3>2. job \in Operations  BY <3>1 DEF Operations, Pcs
    <3>3. local' = [local EXCEPT ![t] = job]  BY <2>2, <3>1 DEF VectorInv, VectorTypeOK
    <3>4. /\ job.pc = "find" /\ job.found = local[t].at /\ job.at = local[t].at - 1
          /\ job.op = local[t].op /\ job.bucket = local[t].bucket
      BY <3>1 DEF Operations
    <3> HIDE DEF job
    <3>5. /\ local' \in [Threads -> Operations] /\ local'[t] = job
          /\ \A u \in Threads : u # t => local'[u] = local[u]
      BY <3>2, <3>3, PlaceChanges
    <3> QED BY <2>2, <3>4, <3>5 DEF Bucket
  <2> QED BY <2>1, <2>2 DEF Save
<1>11. /\ IInv' /\ OthersSame(t) /\ LocksFit(t)' /\ held' = held
       /\ [SpinnerNext]_spinner_vars
  BY <1>1, <1>2, <1>10, SectionStep
<1>12. b # NoBucket => IsSaved(x)
  <2> SUFFICES ASSUME b # NoBucket, contexts[c].dirty # 1 PROVE IsSaved(contexts[c])
    BY <1>7, <1>8, BufferFacts DEF IsSaved
  <2>1. Covered(b) \/ IsSaved(contexts[c])
    BY <1>4, <1>6, LocksAreNumbers DEF VectorInv, ListOK
  <2>2. ~Covered(b)
    <3> SUFFICES ASSUME NEW u \in Threads, Bucket(u) = b, Unsaved(u) PROVE FALSE
      BY <1>6 DEF Covered
    <3>1. u # t /\ InBucket(u)  BY <1>1 DEF Unsaved, InBucket
    <3> QED BY <1>6, <3>1, WriterHasBucket
  <2> QED BY <2>1, <2>2
<1>13. ThreadOK(t)'
  <2>1. SectionOK(t)  BY <1>2, SectionFacts
  <2>2. ASSUME NEW p, Taken(t, p) \/ p = local[t].at PROVE Taken(t, p)'
    <3>1. CASE d_contexts[p] = c
      BY <1>1, <1>6, <1>8, <1>9, <1>11, <1>12, <3>1 DEF Taken, Has
    <3>2. CASE d_contexts[p] # c
      <4>1. Taken(t, p)  BY <1>3, <2>2, <3>2 DEF Candidate
      <4> QED BY <1>1, <1>9, <1>11, <3>2, <4>1 DEF Taken, Has
    <3> QED BY <3>1, <3>2
  <2>3. \A p : Taken(t, p) \/ p = local[t].at => Taken(t, p)'  BY <2>2
  <2>4. Len(d_contexts) \in Nat /\ d_contexts' = d_contexts /\ local[t].at \in Nat \ {0}
    BY <1>1, <1>4, VectorFacts
  <2>5. SearchOK(t)'
    <3>1. CASE local'[t].pc = "unlink"
      BY <1>4, <1>10, <2>3, <2>4, <3>1 DEF SearchOK, Inner
    <3>2. CASE local'[t].pc = "find"
      BY <1>4, <1>10, <2>3, <2>4, <3>2 DEF SearchOK, Inner
    <3> QED BY <1>10, <3>1, <3>2
  <2>6. d_buckets[Bucket(t)].raw = NoContext  BY <1>2, <2>1 DEF SectionOK, Unpublished
  <2>7. SectionOK(t)'  BY <1>1, <1>10, <2>5, <2>6 DEF SectionOK, Unpublished, Searching
  <2>8. AccessOK(t)'  BY <1>10 DEF AccessOK, Accesses
  <2> QED BY <1>11, <2>7, <2>8 DEF ThreadOK
<1>14. VectorTypeOK'
  BY <1>1, <1>8, <1>9, <1>10 DEF VectorInv, VectorTypeOK
<1>15. VectorInv'
  <2>1. ASSUME NEW e \in Buckets \ {b}, d_buckets[e].raw # NoContext
        PROVE  d_buckets[e].raw # c
    BY <1>5, <2>1, RawFacts
  <2>2. b \in Buckets =>
          /\ WritesMeetNoReads => Holds(b, done[b])'
          /\ d_buckets[b].raw = NoContext => d_buckets[b].compressed # Null
          /\ d_buckets[b].raw # NoContext =>
               /\ d_buckets[b].raw \in heap /\ contexts'[d_buckets[b].raw].block_index = b
               /\ Covered(b)' \/ IsSaved(contexts'[d_buckets[b].raw])
    <3> SUFFICES ASSUME b \in Buckets
                 PROVE  /\ WritesMeetNoReads => Holds(b, done[b])'
                        /\ contexts'[c].block_index = b /\ IsSaved(contexts'[c])
      BY <1>4, <1>6, LocksAreNumbers
    <3>1. WritesMeetNoReads => Holds(b, done[b])  BY DEF VectorInv, ContentOK
    <3> QED BY <1>1, <1>6, <1>8, <1>9, <1>12, <3>1, LocksAreNumbers DEF Holds
  <2>3. ASSUME NEW u \in Threads, u # t, local[u].pc \in Accesses, Bucket(u) = b
        PROVE  FALSE
    <3>1. InBucket(u) /\ b \in Buckets  BY <2>3, AccessFacts
    <3> QED BY <1>6, <2>3, <3>1, WriterHasBucket, LocksAreNumbers
  <2>4. ASSUME NEW d \in heap
        PROVE  LET e == contexts'[d].block_index
               IN  IF e = NoBucket THEN contexts'[d].dirty = 0 /\ contexts'[d].buffer = Null
                   ELSE d_buckets[e].raw = d
    <3>1. contexts[d].block_index # NoBucket => d_buckets[contexts[d].block_index].raw = d
      BY <1>1, <1>2, <2>4, ContextOwner
    <3>2. contexts[d].block_index = NoBucket => contexts[d].dirty = 0 /\ contexts[d].buffer = Null
      BY <2>4 DEF VectorInv, ListOK
    <3> QED BY <1>5, <1>7, <1>8, <1>9, <3>1, <3>2
  <2>5. \/ live' = live /\ (b \in Buckets => (Owned(b)' <=> Owned(b)))
        \/ live' = live + 1 /\ b \in Buckets /\ Owned(b)' /\ ~Owned(b)
    <3>1. CASE x.buffer = contexts[c].buffer
      <4>1. \A e \in Buckets : HasBuffer(e)' <=> HasBuffer(e)
        BY <1>1, <1>9, <3>1 DEF HasBuffer
      <4>2. b \in Buckets => (Owned(b)' <=> Owned(b))
        BY <1>1, <1>10, <4>1, OwnedStays
      <4>3. contexts[c].buffer # Null \/ contexts[c].dirty # 1
        BY <1>7, <1>8, <3>1, BufferFacts
      <4> QED BY <1>8, <4>2, <4>3
    <3>2. CASE x.buffer # contexts[c].buffer
      <4>1. contexts[c].dirty = 1 /\ x.buffer # Null  BY <1>7, <1>8, <3>2, BufferFacts
      <4>2. b # NoBucket  BY <1>3, <1>5, <4>1 DEF VectorInv, ListOK
      <4>3. b \in Buckets /\ d_buckets[b].raw = c /\ c # NoContext
        BY <1>4, <1>6, <4>2, LocksAreNumbers
      <4>4. CASE contexts[c].buffer = Null
        <5>1. HasBuffer(b)' /\ ~HasBuffer(b)
          BY <1>1, <1>9, <4>1, <4>3, <4>4 DEF HasBuffer
        <5>2. \A u \in Threads : local[u].pc # "complete"
          BY <1>1, <1>2, OneInSection DEF InSection
        <5> QED BY <1>8, <4>1, <4>3, <4>4, <5>1, <5>2 DEF Owned
      <4>5. CASE contexts[c].buffer # Null
        <5>1. HasBuffer(b)' /\ HasBuffer(b)
          BY <1>1, <1>9, <4>1, <4>3, <4>5 DEF HasBuffer
        <5> QED BY <1>8, <4>1, <4>5, <5>1 DEF Owned
      <4> QED BY <4>4, <4>5
    <3> QED BY <3>1, <3>2
  <2>6. IsInjective(d_contexts)  BY DEF VectorInv, ListOK
  <2>7. ~(Unsaved(t) \/ local'[t].pc = "complete")  BY <1>1, <1>10 DEF Unsaved
  <2>8. \A e \in Buckets \ {b} :
          d_buckets[e].raw # NoContext =>
            d_buckets[e].raw \in heap /\ contexts'[d_buckets[e].raw] = contexts[d_buckets[e].raw]
    BY <1>9, <2>1, RawFacts
  <2> QED BY <1>1, <1>2, <1>10, <1>11, <1>13, <1>14, <2>2, <2>3, <2>4, <2>5, <2>6, <2>7, <2>8,
             SectionKeepsVector
<1> QED BY <1>11, <1>15 DEF Good

LEMMA UnlinkIsGood ==
  ASSUME IInv, VectorInv, NEW t \in Threads, Unlink(t)
  PROVE  Good
<1>1. /\ local[t].pc = "unlink" /\ IdleSpinner(t) /\ StepAt(t, "unlock", 1)
      /\ d_contexts' = ToFront(d_contexts, local[t].at)
      /\ UNCHANGED spinner_vars
      /\ UNCHANGED <<contexts, heap, live, done>>
  BY DEF Unlink, At, spinner_vars
<1>2. local[t].pc \in Searching /\ InSection(t)  BY <1>1 DEF Searching, InSection, Unpublished
<1>3. PICK c \in heap : c = Candidate(t)  BY <1>1, <1>2, CandidateFacts
<1>4. PICK b : b = contexts[c].block_index  OBVIOUS
<1>5. PICK at : at = local[t].at  OBVIOUS
<1>6. /\ c \in Contexts /\ SearchOK(t) /\ at \in 1..Len(d_contexts) /\ c = d_contexts[at]
      /\ b \in Buckets \union {NoBucket}
      /\ local[t].found \in Nat
      /\ Inner(t) => local[t].found \in 1..Len(d_contexts)
  BY <1>1, <1>2, <1>3, <1>4, <1>5, CandidateFacts DEF Candidate
<1>7. b # NoBucket =>
        /\ b \in Buckets /\ Has(t, b, "write") /\ d_buckets[b].raw = c
        /\ IsSaved(contexts[c])
  BY <1>1, <1>4, <1>5, <1>6 DEF SearchOK, Taken
<1>8. /\ contexts[c].buffer \in Buffers /\ contexts[c].storage \in Nat /\ c # NoContext
      /\ Len(d_contexts) \in Nat
  BY <1>6, VectorFacts, LocksAreNumbers
<1>9. d_contexts \in Seq(heap) /\ IsInjective(d_contexts)
  BY DEF VectorInv, VectorTypeOK, ListOK
<1>10. /\ d_contexts' \in Seq(heap) /\ Len(d_contexts') = Len(d_contexts)
       /\ IsInjective(d_contexts') /\ d_contexts'[1] = c
       /\ \A i \in 1..Len(d_contexts) : i > at => d_contexts'[i] = d_contexts[i]
  BY <1>1, <1>5, <1>6, <1>9, ToFrontFacts
<1>11. /\ local' \in [Threads -> Operations]
       /\ \A u \in Threads : u # t => local'[u] = local[u]
       /\ local'[t].pc = "unlock" /\ local'[t].at = 1 /\ local'[t].found = local[t].found
       /\ local'[t].op = local[t].op /\ Bucket(t)' = Bucket(t)
  BY <1>1, StepAtFacts DEF Pcs
<1>12. /\ \A e \in Buckets : e # b => d_buckets'[e] = d_buckets[e]
       /\ b # NoBucket => d_buckets'[b] = [raw |-> NoContext, compressed |-> contexts[c].buffer]
       /\ d_buckets' \in [Buckets -> [raw : Contexts \union {NoContext}, compressed : Buffers]]
  <2>1. d_buckets' = IF b = NoBucket THEN d_buckets
                     ELSE [d_buckets EXCEPT ![b] = [raw |-> NoContext,
                                                    compressed |-> contexts[c].buffer]]
    BY <1>3, <1>4 DEF Unlink
  <2> QED BY <1>6, <1>8, <2>1 DEF VectorInv, VectorTypeOK
<1>13. /\ IInv' /\ OthersSame(t) /\ LocksFit(t)' /\ held' = held
       /\ [SpinnerNext]_spinner_vars
  BY <1>1, <1>2, <1>11, SectionStep
<1>14. SectionOK(t) /\ Bucket(t) \in Buckets  BY <1>2, SectionFacts
<1>15. d_buckets[Bucket(t)].raw = NoContext  BY <1>2, <1>14 DEF SectionOK, Unpublished
<1>16. ThreadOK(t)'
  <2>1. d_buckets'[Bucket(t)].raw = NoContext
    <3>1. CASE Bucket(t) = b  BY <1>12, <1>14, <3>1, LocksAreNumbers
    <3>2. CASE Bucket(t) # b  BY <1>12, <1>14, <1>15, <3>2
    <3> QED BY <3>1, <3>2
  <2>2. ASSUME Inner(t)
        PROVE  \A p : p = local[t].found => Taken(t, p)'
    <3> SUFFICES ASSUME NEW p, p = local[t].found PROVE Taken(t, p)'
      OBVIOUS
    <3>1. at < p /\ p \in 1..Len(d_contexts) /\ Taken(t, p)
      BY <1>5, <1>6, <2>2 DEF SearchOK
    <3>2. d_contexts'[p] = d_contexts[p] /\ d_contexts[p] # c
      BY <1>6, <1>9, <1>10, <3>1 DEF IsInjective
    <3>3. d_contexts[p] \in Contexts  BY <3>1, VectorFacts
    <3> DEFINE e == contexts[d_contexts[p]].block_index
    <3>4. e \in Buckets \union {NoBucket}  BY <3>3, VectorFacts
    <3>5. e # NoBucket => e # b  BY <1>7, <3>1, <3>2 DEF Taken
    <3> QED BY <1>1, <1>12, <1>13, <3>1, <3>2, <3>4, <3>5 DEF Taken, Has
  <2>3. Inner(t)' = Inner(t) /\ Candidate(t)' = c
    BY <1>10, <1>11 DEF Inner, Candidate
  <2>4. b # NoBucket => Has(t, b, "write")' /\ b # Bucket(t) /\ d_buckets'[b].raw = NoContext
    BY <1>7, <1>8, <1>12, <1>13, <1>15 DEF Has
  <2>5. SearchOK(t)'
    <3>1. contexts'[Candidate(t)'].block_index = b  BY <1>1, <1>4, <2>3
    <3>2. Inner(t) => /\ 1 < local[t].found /\ local[t].found <= Len(d_contexts)
                      /\ Taken(t, local[t].found)'
      <4> SUFFICES ASSUME Inner(t)
                   PROVE  /\ 1 < local[t].found /\ local[t].found <= Len(d_contexts)
                          /\ Taken(t, local[t].found)'
        OBVIOUS
      <4>1. at < local[t].found /\ local[t].found <= Len(d_contexts)
        BY <1>5, <1>6 DEF SearchOK
      <4>2. \A p : p = local[t].found => Taken(t, p)'  BY <2>2
      <4>3. local'[t].found = local[t].found  BY <1>11
      <4> QED BY <1>6, <4>1, <4>2, <4>3
    <3> QED BY <1>6, <1>8, <1>10, <1>11, <2>3, <2>4, <3>1, <3>2 DEF SearchOK, Has
  <2>6. SectionOK(t)'  BY <1>11, <2>1, <2>5 DEF SectionOK, Unpublished, Searching
  <2>7. AccessOK(t)'  BY <1>11 DEF AccessOK, Accesses
  <2> QED BY <1>13, <2>6, <2>7 DEF ThreadOK
<1>17. VectorTypeOK'
  BY <1>1, <1>10, <1>11, <1>12 DEF VectorInv, VectorTypeOK
<1>18. VectorInv'
  <2>1. ASSUME NEW e \in Buckets \ {b}, d_buckets[e].raw # NoContext
        PROVE  /\ d_buckets[e].raw \in heap'
               /\ contexts'[d_buckets[e].raw] = contexts[d_buckets[e].raw]
    BY <1>1, <2>1, RawFacts
  <2>2. ASSUME b \in Buckets
        PROVE  /\ d_buckets'[b].raw = NoContext /\ d_buckets'[b].compressed # Null
               /\ WritesMeetNoReads => Holds(b, done[b])'
    <3>1. WritesMeetNoReads => Holds(b, done[b])  BY <2>2 DEF VectorInv, ContentOK
    <3>2. b # NoBucket  BY <2>2, LocksAreNumbers
    <3> QED BY <1>1, <1>7, <1>8, <1>12, <3>1, <3>2 DEF Holds, IsSaved
  <2>3. \A u \in Threads : ~(u # t /\ local[u].pc \in Accesses /\ Bucket(u) = b)
    <3> SUFFICES ASSUME NEW u \in Threads, u # t, local[u].pc \in Accesses, Bucket(u) = b
                 PROVE  FALSE
      OBVIOUS
    <3>1. InBucket(u) /\ b \in Buckets  BY AccessFacts
    <3> QED BY <1>7, <3>1, WriterHasBucket, LocksAreNumbers
  <2>4. ASSUME NEW d \in heap'
        PROVE  LET e == contexts'[d].block_index
               IN  IF e = NoBucket THEN contexts'[d].dirty = 0 /\ contexts'[d].buffer = Null
                   ELSE d_buckets'[e].raw = d \/ InTransit(d)'
    <3>1. contexts[d].block_index # NoBucket => d_buckets[contexts[d].block_index].raw = d
      BY <1>1, <1>2, <2>4, ContextOwner
    <3>2. contexts[d].block_index = NoBucket => contexts[d].dirty = 0 /\ contexts[d].buffer = Null
      BY <1>1, <2>4 DEF VectorInv, ListOK
    <3>3. d \in Contexts /\ contexts' = contexts  BY <1>1, <2>4, VectorFacts
    <3>4. contexts[d].block_index \in Buckets \union {NoBucket}  BY <3>3, VectorFacts
    <3>5. InTransit(c)'  BY <1>10, <1>11 DEF InTransit, Candidate
    <3> QED BY <1>7, <1>12, <3>1, <3>2, <3>3, <3>4, <3>5
  <2>5. b \in Buckets => (Owned(b)' <=> Owned(b))
    <3> SUFFICES ASSUME b \in Buckets PROVE Owned(b)' <=> Owned(b)
      OBVIOUS
    <3>1. b # NoBucket /\ contexts[c].buffer # Null
      BY <1>7, <1>8, LocksAreNumbers DEF IsSaved
    <3>2. HasBuffer(b)' /\ HasBuffer(b)
      BY <1>1, <1>7, <1>8, <1>12, <3>1 DEF HasBuffer
    <3> QED BY <3>2 DEF Owned
  <2>6. ~(Unsaved(t) \/ local'[t].pc = "complete")  BY <1>1, <1>11 DEF Unsaved
  <2> QED BY <1>1, <1>2, <1>10, <1>11, <1>12, <1>13, <1>16, <1>17, <2>1, <2>2, <2>3, <2>4, <2>5,
             <2>6, SectionKeepsVector
<1> QED BY <1>13, <1>18 DEF Good

\* A sequence is one over every set that has its elements.
LEMMA ElementsIn ==
  ASSUME NEW S, NEW T, NEW list \in Seq(S), \A i \in 1..Len(list) : list[i] \in T
  PROVE  list \in Seq(T)
<1> DEFINE n == Len(list)
<1>1. n \in Nat /\ list = [i \in 1..n |-> list[i]] /\ \A i \in 1..n : list[i] \in T
  OBVIOUS
<1> HIDE DEF n
<1>2. list \in [1..n -> T]  BY <1>1
<1> QED BY <1>1, <1>2

LEMMA EmptyFacts ==
  /\ EmptyContext \in RawBuffers /\ EmptyContext.block_index = NoBucket
  /\ EmptyContext.dirty = 0 /\ EmptyContext.buffer = Null
BY BufferFacts DEF EmptyContext, RawBuffers

\* A context that no bucket refers to is emptied.
LEMMA EmptiedFacts ==
  ASSUME VectorInv, NEW c \in Contexts, contexts' = [contexts EXCEPT ![c] = EmptyContext]
  PROVE  /\ contexts' \in [Contexts -> RawBuffers] /\ contexts'[c] = EmptyContext
         /\ \A d : d # c => contexts'[d] = contexts[d]
BY EmptyFacts DEF VectorInv, VectorTypeOK

LEMMA GiveIsGood ==
  ASSUME IInv, VectorInv, NEW t \in Threads, Give(t)
  PROVE  Good
<1>1. local[t].pc = "unlock" /\ IdleSpinner(t) /\ UNCHANGED <<d_buckets, live, done>>
  BY DEF Give, At
<1>2. local[t].pc \in Searching /\ InSection(t)  BY <1>1 DEF Searching, InSection, Unpublished
<1>3. PICK c \in heap : c = Candidate(t)  BY <1>1, <1>2, CandidateFacts
<1>4. PICK b : b = contexts[c].block_index  OBVIOUS
<1>5. /\ c \in Contexts /\ c # NoContext /\ SearchOK(t) /\ local[t].at = 1
      /\ c = d_contexts[1] /\ 1 \in 1..Len(d_contexts) /\ Len(d_contexts) \in Nat
      /\ b \in Buckets \union {NoBucket}
  BY <1>1, <1>2, <1>3, <1>4, CandidateFacts, VectorFacts, LocksAreNumbers DEF Candidate, SearchOK
<1>6. b # NoBucket => Has(t, b, "write") /\ b # Bucket(t) /\ d_buckets[b].raw = NoContext
  BY <1>1, <1>3, <1>4, <1>5 DEF SearchOK
<1>7. ASSUME NEW e \in Buckets, d_buckets[e].raw # NoContext
      PROVE  /\ d_buckets[e].raw # c /\ d_buckets[e].raw \in heap
             /\ contexts[d_buckets[e].raw].block_index = e /\ e # b
  BY <1>4, <1>6, <1>7, RawFacts, LocksAreNumbers
<1>8. /\ LocksFit(t) /\ SectionOK(t) /\ Bucket(t) \in Buckets /\ Bucket(t) \in Locks
      /\ Bucket(t) # d_lock /\ Has(t, Bucket(t), Mode(t)) /\ Has(t, d_lock, "write")
      /\ d_lock \in Locks
  BY <1>2, SectionFacts, LocksAreNumbers
<1>9. d_buckets[Bucket(t)].raw = NoContext  BY <1>2, <1>8 DEF SectionOK, Unpublished
<1>10. contexts' = [contexts EXCEPT ![c] = EmptyContext]  BY <1>3 DEF Give
<1>11. /\ contexts' \in [Contexts -> RawBuffers] /\ contexts'[c] = EmptyContext
       /\ \A d : d # c => contexts'[d] = contexts[d]
  BY <1>5, <1>10, EmptiedFacts
<1>12. /\ IInv' /\ OthersInLocks(t) /\ [SpinnerNext]_spinner_vars /\ IdleSpinner(t)'
       /\ \A k \in Locks : k # b \/ b = NoBucket => held'[t][k] = held[t][k]
  <2>1. CASE b = NoBucket
    <3>1. UNCHANGED spinner_vars  BY <1>3, <1>4, <2>1 DEF Give
    <3>2. IInv'  BY <3>1, NextIInv
    <3> QED BY <1>1, <3>1, <3>2 DEF OthersInLocks, spinner_vars, IdleSpinner
  <2>2. CASE b # NoBucket
    <3>1. Unlock(t, b) /\ b \in Locks  BY <1>3, <1>4, <1>5, <2>2 DEF Give, Buckets
    <3> QED BY <2>2, <3>1, LockEnds
  <2> QED BY <2>1, <2>2
<1>13. ASSUME NEW pc \in {"unlink", "fill"}, local' \in [Threads -> Operations],
              \A u \in Threads : u # t => local'[u] = local[u],
              local'[t].pc = pc, local'[t].op = local[t].op, Bucket(t)' = Bucket(t),
              heap' \subseteq heap, d_contexts' \in Seq(heap'), IsInjective(d_contexts'),
              \A d \in heap : d # c => d \in heap',
              pc = "unlink" => SearchOK(t)', pc = "fill" => TargetOK(t)'
       PROVE  Good
  <2>1. OthersSame(t)  BY <1>12, <1>13 DEF OthersSame, SameThread, OthersInLocks
  <2>2. InBucket(t) /\ InSection(t)  BY <1>2, SectionFacts
  <2>3. LocksFit(t)'
    <3>1. held'[t][Bucket(t)] = held[t][Bucket(t)] /\ held'[t][d_lock] = held[t][d_lock]
      BY <1>5, <1>6, <1>8, <1>12 DEF Buckets
    <3>2. Has(t, d_lock, "write")'  BY <1>8, <3>1 DEF Has
    <3> QED BY <1>8, <1>12, <1>13, <2>2, <3>1, <3>2, LocksFitStill
  <2>4. SectionOK(t)'
    BY <1>1, <1>9, <1>13 DEF SectionOK, Unpublished, Searching
  <2>5. AccessOK(t)'  BY <1>13 DEF AccessOK, Accesses
  <2>6. VectorTypeOK'
    <3>1. heap' \subseteq Contexts  BY <1>13, VectorFacts
    <3> QED BY <1>1, <1>11, <1>13, <3>1 DEF VectorInv, VectorTypeOK
  <2>7. ASSUME NEW e \in Buckets, d_buckets[e].raw # NoContext
        PROVE  /\ d_buckets[e].raw \in heap'
               /\ contexts'[d_buckets[e].raw] = contexts[d_buckets[e].raw]
    BY <1>7, <1>11, <1>13, <2>7
  <2>8. ASSUME NEW d \in heap'
        PROVE  LET e == contexts'[d].block_index
               IN  IF e = NoBucket THEN contexts'[d].dirty = 0 /\ contexts'[d].buffer = Null
                   ELSE d_buckets'[e].raw = d
    <3>1. CASE d = c  BY <1>11, <3>1, EmptyFacts
    <3>2. CASE d # c
      <4>1. d \in heap /\ contexts'[d] = contexts[d]  BY <1>11, <1>13, <2>8, <3>2
      <4>2. contexts[d].block_index # NoBucket => d_buckets[contexts[d].block_index].raw = d
        BY <1>1, <1>2, <1>3, <3>2, <4>1, ContextOwner
      <4>3. contexts[d].block_index = NoBucket => contexts[d].dirty = 0 /\ contexts[d].buffer = Null
        BY <4>1 DEF VectorInv, ListOK
      <4> QED BY <1>1, <4>1, <4>2, <4>3
    <3> QED BY <3>1, <3>2
  <2>9. NoBucket \notin Buckets /\ Buckets \ {NoBucket} = Buckets  BY LocksAreNumbers
  <2>10. ~(Unsaved(t) \/ local'[t].pc = "complete")  BY <1>1, <1>13 DEF Unsaved
  <2>11. VectorInv'
    BY <1>1, <1>2, <1>13, <2>1, <2>3, <2>4, <2>5, <2>6, <2>7, <2>8, <2>9, <2>10,
       SectionKeepsVector DEF ThreadOK
  <2> QED BY <1>12, <2>11 DEF Good
<1>14. CASE Inner(t)
  <2> DEFINE job == [local[t] EXCEPT !.pc = "unlink", !.found = 0, !.at = local[t].found - 1]
  <2>1. /\ heap' = heap \ {c} /\ d_contexts' = Tail(d_contexts)
        /\ local' = [local EXCEPT ![t].pc = "unlink", ![t].found = 0,
                                  ![t].at = local[t].found - 1]
    BY <1>3, <1>14 DEF Give
  <2>2. /\ local[t].found \in Nat /\ 1 < local[t].found
        /\ local[t].found <= Len(d_contexts) /\ Taken(t, local[t].found)
    BY <1>5, <1>14, OperationFacts DEF SearchOK
  <2>3. PICK p : p = local[t].found  OBVIOUS
  <2>4. job \in Operations /\ local' = [local EXCEPT ![t] = job]
    <3>1. local[t] \in Operations /\ local[t].found - 1 \in Nat  BY <2>2, OperationFacts
    <3> QED BY <2>1, <3>1 DEF Operations, Pcs, VectorInv, VectorTypeOK
  <2>5. /\ job.pc = "unlink" /\ job.found = 0 /\ job.at = p - 1
        /\ job.op = local[t].op /\ job.bucket = local[t].bucket
    BY <2>3, OperationFacts DEF Operations
  <2> HIDE DEF job
  <2>6. /\ local' \in [Threads -> Operations] /\ local'[t] = job
        /\ \A u \in Threads : u # t => local'[u] = local[u]
    BY <2>4, PlaceChanges
  <2>7. d_contexts \in Seq(heap) /\ IsInjective(d_contexts) /\ DOMAIN d_contexts = 1..Len(d_contexts)
    BY VectorFacts DEF VectorInv, VectorTypeOK, ListOK
  <2>8. /\ Len(d_contexts') = Len(d_contexts) - 1 /\ DOMAIN d_contexts' = 1..(Len(d_contexts) - 1)
        /\ \A i \in 1..(Len(d_contexts) - 1) : d_contexts'[i] = d_contexts[i + 1]
        /\ d_contexts' \in Seq(heap)
    BY <1>5, <2>1, <2>7
  <2>9. \A i \in 1..Len(d_contexts') : d_contexts'[i] \in heap \ {c}
    BY <1>5, <2>7, <2>8 DEF IsInjective
  <2>10. d_contexts' \in Seq(heap')  BY <2>1, <2>8, <2>9, ElementsIn
  <2>11. IsInjective(d_contexts')  BY <1>5, <2>7, <2>8 DEF IsInjective
  <2>12. SearchOK(t)'
    <3>1. p - 1 \in 1..Len(d_contexts') /\ d_contexts'[p - 1] = d_contexts[p]
      BY <1>5, <2>2, <2>3, <2>8
    <3>2. p \in 1..Len(d_contexts) /\ p # 1 /\ Taken(t, p)  BY <1>5, <2>2, <2>3
    <3>3. d_contexts[p] # c /\ d_contexts[p] \in Contexts
      BY <1>5, <2>7, <3>2, VectorFacts DEF IsInjective
    <3>4. contexts[d_contexts[p]].block_index \in Buckets \union {NoBucket}
      BY <3>3, VectorFacts
    <3>5. contexts[d_contexts[p]].block_index # NoBucket =>
            contexts[d_contexts[p]].block_index # b \/ b = NoBucket
      BY <1>6, <3>2, <3>3, LocksAreNumbers DEF Taken
    <3>6. \A i : i = p - 1 => Taken(t, i)'
      BY <1>1, <1>11, <1>12, <3>1, <3>2, <3>3, <3>4, <3>5 DEF Taken, Has, Buckets
    <3> QED BY <2>5, <2>6, <3>1, <3>6 DEF SearchOK, Inner
  <2> QED BY <1>13, <2>1, <2>5, <2>6, <2>10, <2>11, <2>12 DEF Bucket
<1>15. CASE ~Inner(t)
  <2>1. StepWith(t, "fill", c) /\ heap' = heap /\ d_contexts' = d_contexts
    BY <1>3, <1>15 DEF Give
  <2>2. /\ local' \in [Threads -> Operations]
        /\ \A u \in Threads : u # t => local'[u] = local[u]
        /\ local'[t].pc = "fill" /\ Cur(t)' = c
        /\ local'[t].op = local[t].op /\ Bucket(t)' = Bucket(t)
    BY <1>5, <2>1, StepWithFacts DEF Pcs
  <2>3. TargetOK(t)'  BY <1>3, <1>11, <2>1, <2>2, EmptyFacts DEF TargetOK
  <2>4. d_contexts' \in Seq(heap') /\ IsInjective(d_contexts')
    BY <2>1 DEF VectorInv, VectorTypeOK, ListOK
  <2> QED BY <1>13, <2>1, <2>2, <2>3, <2>4
<1> QED BY <1>14, <1>15

\* A list to whose front an element is put that it does not have.
LEMMA FrontFacts ==
  ASSUME NEW S, NEW list \in Seq(S), IsInjective(list), NEW c, c \notin S
  PROVE  <<c>> \o list \in Seq(S \union {c}) /\ IsInjective(<<c>> \o list)
<1> DEFINE n == Len(list)
           f == <<c>> \o list
<1>1. n \in Nat /\ \A i \in 1..n : list[i] \in S  OBVIOUS
<1>2. /\ f \in Seq(S \union {c}) /\ Len(f) = n + 1 /\ f[1] = c
      /\ DOMAIN f = 1..(n + 1) /\ DOMAIN list = 1..n
      /\ \A i \in 2..(n + 1) : f[i] = list[i - 1]
  <2>1. <<c>> \in Seq(S \union {c}) /\ list \in Seq(S \union {c})  BY ElementsIn
  <2> QED BY <2>1
<1> HIDE DEF n, f
<1>3. ASSUME NEW i \in 1..(n + 1), NEW j \in 1..(n + 1), f[i] = f[j] PROVE i = j
  <2>1. CASE i = 1 \/ j = 1
    <3>1. \A k \in 2..(n + 1) : f[k] # c  BY <1>1, <1>2
    <3> QED BY <1>1, <1>2, <1>3, <2>1, <3>1
  <2>2. CASE i # 1 /\ j # 1
    <3>1. i - 1 \in 1..n /\ j - 1 \in 1..n /\ list[i - 1] = list[j - 1]
      BY <1>1, <1>2, <1>3, <2>2
    <3>2. i - 1 = j - 1  BY <1>2, <3>1 DEF IsInjective
    <3> QED BY <1>1, <2>2, <3>2
  <2> QED BY <2>1, <2>2
<1>4. IsInjective(f)  BY <1>2, <1>3 DEF IsInjective
<1> QED BY <1>2, <1>4 DEF f

LEMMA MakeIsGood ==
  ASSUME IInv, VectorInv, NEW t \in Threads, Make(t)
  PROVE  Good
<1>1. PICK c \in Contexts :
        /\ local[t].pc \in {"make", "find"} /\ IdleSpinner(t) /\ c \notin heap
        /\ heap' = heap \union {c} /\ d_contexts' = <<c>> \o d_contexts
        /\ contexts' = [contexts EXCEPT ![c] = EmptyContext]
        /\ StepWith(t, "fill", c)
        /\ UNCHANGED spinner_vars /\ UNCHANGED <<d_buckets, live, done>>
  BY DEF Make, At, Contexts, spinner_vars
<1>2. InSection(t)  BY <1>1 DEF InSection, Unpublished, Searching
<1>3. /\ contexts' \in [Contexts -> RawBuffers] /\ contexts'[c] = EmptyContext
      /\ \A d : d # c => contexts'[d] = contexts[d]
  BY <1>1, EmptiedFacts
<1>4. /\ local' \in [Threads -> Operations]
      /\ \A u \in Threads : u # t => local'[u] = local[u]
      /\ local'[t].pc = "fill" /\ Cur(t)' = c
      /\ local'[t].op = local[t].op /\ Bucket(t)' = Bucket(t)
  BY <1>1, StepWithFacts DEF Pcs
<1>5. /\ IInv' /\ OthersSame(t) /\ LocksFit(t)' /\ held' = held
      /\ [SpinnerNext]_spinner_vars
  BY <1>1, <1>2, <1>4, SectionStep
<1>6. ThreadOK(t)'
  <2>1. TargetOK(t)'  BY <1>1, <1>3, <1>4, EmptyFacts DEF TargetOK
  <2>2. d_buckets[Bucket(t)].raw = NoContext
    BY <1>1, <1>2, SectionFacts DEF SectionOK, Unpublished, Searching
  <2>3. SectionOK(t)'  BY <1>1, <1>4, <2>1, <2>2 DEF SectionOK, Searching
  <2>4. AccessOK(t)'  BY <1>4 DEF AccessOK, Accesses
  <2> QED BY <1>5, <2>3, <2>4 DEF ThreadOK
<1>7. d_contexts' \in Seq(heap') /\ IsInjective(d_contexts')
  <2>1. d_contexts \in Seq(heap) /\ IsInjective(d_contexts)
    BY DEF VectorInv, VectorTypeOK, ListOK
  <2> QED BY <1>1, <2>1, FrontFacts
<1>8. VectorTypeOK'
  <2>1. heap' \subseteq Contexts  BY <1>1, VectorFacts
  <2> QED BY <1>1, <1>3, <1>4, <1>7, <2>1 DEF VectorInv, VectorTypeOK
<1>9. VectorInv'
  <2>1. ASSUME NEW e \in Buckets, d_buckets[e].raw # NoContext
        PROVE  /\ d_buckets[e].raw \in heap'
               /\ contexts'[d_buckets[e].raw] = contexts[d_buckets[e].raw]
    BY <1>1, <1>3, <2>1, RawFacts
  <2>2. ASSUME NEW d \in heap'
        PROVE  LET e == contexts'[d].block_index
               IN  IF e = NoBucket THEN contexts'[d].dirty = 0 /\ contexts'[d].buffer = Null
                   ELSE d_buckets'[e].raw = d
    <3>1. CASE d = c  BY <1>3, <3>1, EmptyFacts
    <3>2. CASE d # c
      <4>1. d \in heap /\ contexts'[d] = contexts[d]  BY <1>1, <1>3, <2>2, <3>2
      <4>2. contexts[d].block_index # NoBucket => d_buckets[contexts[d].block_index].raw = d
        BY <1>1, <1>2, <4>1, ContextOwner
      <4>3. contexts[d].block_index = NoBucket => contexts[d].dirty = 0 /\ contexts[d].buffer = Null
        BY <4>1 DEF VectorInv, ListOK
      <4> QED BY <1>1, <4>1, <4>2, <4>3
    <3> QED BY <3>1, <3>2
  <2>3. NoBucket \notin Buckets  BY LocksAreNumbers
  <2>4. ~(Unsaved(t) \/ local'[t].pc = "complete")  BY <1>1, <1>4 DEF Unsaved
  <2> QED BY <1>1, <1>2, <1>4, <1>5, <1>6, <1>7, <1>8, <2>1, <2>2, <2>3, <2>4,
             SectionKeepsVector
<1> QED BY <1>5, <1>9 DEF Good

LEMMA FillIsGood ==
  ASSUME IInv, VectorInv, NEW t \in Threads, Fill(t)
  PROVE  Good
<1>1. /\ local[t].pc = "fill" /\ IdleSpinner(t) /\ UNCHANGED spinner_vars
      /\ UNCHANGED <<d_buckets, heap, d_contexts, live, done>>
  BY DEF Fill, At, spinner_vars
<1>2. InSection(t)  BY <1>1 DEF InSection, Unpublished
<1>3. PICK c \in Contexts : c = Cur(t) /\ c \in heap /\ contexts[c].block_index = NoBucket
  <2>1. TargetOK(t)  BY <1>1, <1>2, SectionFacts DEF SectionOK
  <2> QED BY <1>1, <2>1, VectorFacts DEF TargetOK
<1>4. PICK b \in Buckets : b = Bucket(t)  BY <1>2, SectionFacts
<1>5. d_buckets[b].raw = NoContext
  BY <1>1, <1>2, <1>4, SectionFacts DEF SectionOK, Unpublished
<1>6. PICK n \in Nat : d_buckets[b].compressed = Buffer(n)
  BY <1>5, VectorFacts, BufferFacts DEF VectorInv, ContentOK
<1>7. /\ Buffer(n) # Null /\ Head(Buffer(n)) = n /\ Buffer(n) \in Buffers
      /\ contexts[c].dirty = 0 /\ contexts[c].buffer = Null
  BY <1>3, BufferFacts DEF VectorInv, ListOK
<1> DEFINE x == [contexts[c] EXCEPT !.block_index = b, !.storage = n]
           job == [local[t] EXCEPT !.pc = "publish", !.buffer = Buffer(n)]
<1>8. /\ contexts' = [contexts EXCEPT ![c] = x]
      /\ local' = [local EXCEPT ![t] = job]
  BY <1>3, <1>4, <1>6, <1>7 DEF Fill, VectorInv, VectorTypeOK, RawBuffers, Operations
<1>9. /\ x \in RawBuffers /\ x.block_index = b /\ x.storage = n /\ x.buffer = Null
  <2>1. contexts[c] \in RawBuffers  BY VectorFacts
  <2> QED BY <1>7, <2>1 DEF RawBuffers
<1>10. /\ job \in Operations /\ job.pc = "publish" /\ job.buffer = Buffer(n)
       /\ job.op = local[t].op /\ job.bucket = local[t].bucket /\ job.cur = local[t].cur
  <2>1. local[t] \in Operations  BY OperationFacts
  <2> QED BY <1>7, <2>1 DEF Operations, Pcs
<1> HIDE DEF x, job
<1>11. /\ contexts' \in [Contexts -> RawBuffers] /\ contexts'[c] = x
       /\ \A d : d # c => contexts'[d] = contexts[d]
  BY <1>8, <1>9 DEF VectorInv, VectorTypeOK
<1>12. /\ local' \in [Threads -> Operations] /\ local'[t] = job
       /\ \A u \in Threads : u # t => local'[u] = local[u]
       /\ Cur(t)' = c /\ Bucket(t)' = b /\ local'[t].op = local[t].op
  BY <1>3, <1>4, <1>8, <1>10, PlaceChanges DEF Cur, Bucket
<1>13. /\ IInv' /\ OthersSame(t) /\ LocksFit(t)' /\ held' = held
       /\ [SpinnerNext]_spinner_vars
  BY <1>1, <1>2, <1>4, <1>12, SectionStep
<1>14. ThreadOK(t)'
  <2>1. TargetOK(t)'
    BY <1>1, <1>3, <1>6, <1>7, <1>9, <1>10, <1>11, <1>12 DEF TargetOK
  <2>2. SectionOK(t)'  BY <1>1, <1>5, <1>10, <1>12, <2>1 DEF SectionOK, Searching
  <2>3. AccessOK(t)'  BY <1>10, <1>12 DEF AccessOK, Accesses
  <2> QED BY <1>13, <2>2, <2>3 DEF ThreadOK
<1>15. VectorTypeOK'  BY <1>1, <1>11, <1>12 DEF VectorInv, VectorTypeOK
<1>16. VectorInv'
  <2>1. ASSUME NEW e \in Buckets, d_buckets[e].raw # NoContext
        PROVE  /\ d_buckets[e].raw \in heap'
               /\ contexts'[d_buckets[e].raw] = contexts[d_buckets[e].raw]
    <3>1. /\ d_buckets[e].raw \in heap
          /\ contexts[d_buckets[e].raw].block_index = e
      BY <2>1, RawFacts
    <3> QED BY <1>1, <1>3, <1>11, <3>1, LocksAreNumbers
  <2>2. ASSUME NEW d \in heap'
        PROVE  LET e == contexts'[d].block_index
               IN  IF e = NoBucket THEN contexts'[d].dirty = 0 /\ contexts'[d].buffer = Null
                   ELSE d_buckets'[e].raw = d \/ InTransit(d)'
    <3>1. CASE d = c
      <4>1. InTransit(d)'  BY <1>10, <1>12, <3>1 DEF InTransit
      <4> QED BY <1>9, <1>11, <3>1, <4>1, LocksAreNumbers
    <3>2. CASE d # c
      <4>1. d \in heap /\ contexts'[d] = contexts[d]  BY <1>1, <1>11, <2>2, <3>2
      <4>2. contexts[d].block_index # NoBucket => d_buckets[contexts[d].block_index].raw = d
        BY <1>1, <1>2, <4>1, ContextOwner
      <4>3. contexts[d].block_index = NoBucket => contexts[d].dirty = 0 /\ contexts[d].buffer = Null
        BY <4>1 DEF VectorInv, ListOK
      <4> QED BY <1>1, <4>1, <4>2, <4>3
    <3> QED BY <3>1, <3>2
  <2>3. NoBucket \notin Buckets  BY LocksAreNumbers
  <2>4. ~(Unsaved(t) \/ local'[t].pc = "complete")  BY <1>1, <1>10, <1>12 DEF Unsaved
  <2>5. IsInjective(d_contexts')  BY <1>1 DEF VectorInv, ListOK
  <2>6. Bucket(t)' = Bucket(t)  BY <1>4, <1>12
  <2> QED BY <1>1, <1>2, <1>12, <1>13, <1>14, <1>15, <2>1, <2>2, <2>3, <2>4, <2>5, <2>6,
             SectionKeepsVector
<1> QED BY <1>13, <1>16 DEF Good

LEMMA PublishIsGood ==
  ASSUME IInv, VectorInv, NEW t \in Threads, Publish(t)
  PROVE  Good
<1>1. /\ local[t].pc = "publish" /\ IdleSpinner(t) /\ Step(t, "complete")
      /\ UNCHANGED spinner_vars /\ UNCHANGED <<contexts, heap, d_contexts, live, done>>
  BY DEF Publish, At, spinner_vars
<1>2. InSection(t)  BY <1>1 DEF InSection, Unpublished
<1>3. TargetOK(t)  BY <1>1, <1>2, SectionFacts DEF SectionOK
<1>4. PICK b \in Buckets : b = Bucket(t)  BY <1>2, SectionFacts
<1>5. PICK c \in Contexts : c = Cur(t)  BY <1>3, VectorFacts DEF TargetOK
<1>6. /\ c \in heap /\ contexts[c].block_index = b /\ contexts[c].buffer = Null
      /\ local[t].buffer # Null /\ d_buckets[b].compressed = local[t].buffer
      /\ WritesMeetNoReads => local[t].buffer = Buffer(contexts[c].storage)
      /\ c # NoContext
      /\ contexts[c].storage \in Nat /\ done[b] \in Nat
  BY <1>1, <1>3, <1>4, <1>5, VectorFacts, LocksAreNumbers DEF TargetOK
<1>7. d_buckets[b].raw = NoContext
  BY <1>1, <1>2, <1>4, SectionFacts DEF SectionOK, Unpublished
<1>8. WritesMeetNoReads => contexts[c].storage = done[b]
  BY <1>6, <1>7, BufferInjective DEF VectorInv, ContentOK, Holds
<1>9. /\ \A e \in Buckets : e # b => d_buckets'[e] = d_buckets[e]
      /\ d_buckets'[b] = [raw |-> c, compressed |-> Null]
      /\ d_buckets' \in [Buckets -> [raw : Contexts \union {NoContext}, compressed : Buffers]]
  <2>1. d_buckets' = [d_buckets EXCEPT ![b] = [raw |-> c, compressed |-> Null]]
    BY <1>4, <1>5 DEF Publish
  <2> QED BY <2>1, BufferFacts DEF VectorInv, VectorTypeOK
<1>10. /\ local' \in [Threads -> Operations]
       /\ \A u \in Threads : u # t => local'[u] = local[u]
       /\ local'[t].pc = "complete" /\ local'[t].op = local[t].op
       /\ Bucket(t)' = b /\ Cur(t)' = c /\ local'[t].buffer = local[t].buffer
  BY <1>1, <1>4, <1>5, StepFacts DEF Pcs
<1>11. /\ IInv' /\ OthersSame(t) /\ LocksFit(t)' /\ held' = held
       /\ [SpinnerNext]_spinner_vars
  BY <1>1, <1>2, <1>4, <1>10, SectionStep
<1>12. ThreadOK(t)'
  <2>1. TargetOK(t)'  BY <1>1, <1>6, <1>9, <1>10 DEF TargetOK
  <2>2. SectionOK(t)'  BY <1>10, <2>1 DEF SectionOK, Unpublished, Searching
  <2>3. AccessOK(t)'  BY <1>10 DEF AccessOK, Accesses
  <2> QED BY <1>11, <2>2, <2>3 DEF ThreadOK
<1>13. VectorTypeOK'  BY <1>1, <1>9, <1>10 DEF VectorInv, VectorTypeOK
<1>14. VectorInv'
  <2>1. ASSUME NEW e \in Buckets \ {b}, d_buckets[e].raw # NoContext
        PROVE  /\ d_buckets[e].raw \in heap'
               /\ contexts'[d_buckets[e].raw] = contexts[d_buckets[e].raw]
    BY <1>1, <2>1, RawFacts
  <2>2. /\ WritesMeetNoReads => Holds(b, done[b])'
        /\ c \in heap' /\ contexts'[c].block_index = b /\ Covered(b)'
    <3>1. WritesMeetNoReads => Holds(b, done[b])'  BY <1>1, <1>6, <1>8, <1>9 DEF Holds
    <3>2. Covered(b)'  BY <1>10 DEF Covered, Unsaved
    <3> QED BY <1>1, <1>6, <3>1, <3>2
  <2>3. \A u \in Threads : ~(local[u].pc \in Accesses /\ Bucket(u) = b)
    BY <1>7, AccessFacts, LocksAreNumbers
  <2>4. ASSUME NEW d \in heap'
        PROVE  LET e == contexts'[d].block_index
               IN  IF e = NoBucket THEN contexts'[d].dirty = 0 /\ contexts'[d].buffer = Null
                   ELSE d_buckets'[e].raw = d
    <3>1. CASE d = c  BY <1>1, <1>6, <1>9, <3>1, LocksAreNumbers
    <3>2. CASE d # c
      <4>1. d \in heap /\ d \in Contexts /\ contexts'[d] = contexts[d]
        BY <1>1, <2>4, VectorFacts
      <4>2. contexts[d].block_index # NoBucket => d_buckets[contexts[d].block_index].raw = d
        BY <1>1, <1>2, <1>5, <3>2, <4>1, ContextOwner
      <4>3. contexts[d].block_index = NoBucket => contexts[d].dirty = 0 /\ contexts[d].buffer = Null
        BY <4>1 DEF VectorInv, ListOK
      <4>4. contexts[d].block_index \in Buckets \union {NoBucket} /\ d # NoContext
        BY <4>1, VectorFacts, LocksAreNumbers
      <4> QED BY <1>7, <1>9, <4>1, <4>2, <4>3, <4>4
    <3> QED BY <3>1, <3>2
  <2>5. Owned(b)' /\ Owned(b)
    <3>1. HasBuffer(b)  BY <1>6, <1>7 DEF HasBuffer
    <3> QED BY <1>10, <3>1 DEF Owned
  <2>6. ~Unsaved(t)  BY <1>1 DEF Unsaved
  <2>7. IsInjective(d_contexts') /\ Bucket(t)' = Bucket(t)
    BY <1>1, <1>4, <1>10 DEF VectorInv, ListOK
  <2>8. d_buckets'[b].raw = c /\ c # NoContext  BY <1>6, <1>9
  <2> QED BY <1>1, <1>2, <1>4, <1>9, <1>10, <1>11, <1>12, <1>13, <2>1, <2>2, <2>3, <2>4, <2>5,
             <2>6, <2>7, <2>8, SectionKeepsVector
<1> QED BY <1>11, <1>14 DEF Good

\* The last step under d_lock.
LEMMA SectionEnds ==
  ASSUME IInv, VectorInv, NEW t \in Threads, InSection(t), Unlock(t, d_lock),
         \A u \in Threads : u # t => local'[u] = local[u],
         local'[t].op = local[t].op, Bucket(t)' = Bucket(t), local'[t].pc \in {"access", "leave"}
  PROVE  /\ IInv' /\ SpinnerNext /\ OthersSame(t) /\ LocksFit(t)' /\ SectionOK(t)'
<1>1. /\ IInv' /\ SpinnerNext /\ OthersInLocks(t) /\ IdleSpinner(t)'
      /\ \A k \in Locks : k # d_lock => held'[t][k] = held[t][k]
  BY LocksAreNumbers, LockEnds
<1>2. OthersSame(t)  BY <1>1 DEF OthersSame, SameThread, OthersInLocks
<1>3. ~InSection(t)'  BY DEF InSection, Unpublished, Searching
<1>4. LocksFit(t)'  BY <1>1, <1>3, SectionFacts, LocksFitStill
<1>5. SectionOK(t)'  BY DEF SectionOK, Unpublished, Searching
<1> QED BY <1>1, <1>2, <1>4, <1>5

LEMMA CompleteIsGood ==
  ASSUME IInv, VectorInv, NEW t \in Threads, Complete(t)
  PROVE  Good
<1>1. /\ local[t].pc = "complete" /\ IdleSpinner(t) /\ Step(t, "access")
      /\ Unlock(t, d_lock) /\ UNCHANGED <<d_buckets, heap, d_contexts, live, done>>
  BY DEF Complete, At
<1>2. InSection(t)  BY <1>1 DEF InSection
<1>3. TargetOK(t)  BY <1>1, <1>2, SectionFacts DEF SectionOK
<1>4. PICK b \in Buckets : b = Bucket(t)  BY <1>2, SectionFacts
<1>5. PICK c \in Contexts : c = Cur(t)  BY <1>3, VectorFacts DEF TargetOK
<1>6. /\ c \in heap /\ contexts[c].block_index = b /\ contexts[c].buffer = Null
      /\ local[t].buffer # Null /\ d_buckets[b].raw = c
      /\ WritesMeetNoReads /\ local[t].op # "move" =>
           local[t].buffer = Buffer(contexts[c].storage)
      /\ c # NoContext /\ local[t].buffer \in Buffers
  BY <1>1, <1>3, <1>4, <1>5, OperationFacts, LocksAreNumbers DEF TargetOK
<1> DEFINE x == [contexts[c] EXCEPT !.buffer = local[t].buffer, !.dirty = 0, !.size = "full"]
<1>7. contexts' = [contexts EXCEPT ![c] = x]
  BY <1>5 DEF Complete, VectorInv, VectorTypeOK
<1>8. /\ x \in RawBuffers /\ x.block_index = b /\ x.storage = contexts[c].storage
      /\ x.buffer = local[t].buffer
  <2>1. contexts[c] \in RawBuffers  BY VectorFacts
  <2> QED BY <1>6, <2>1 DEF RawBuffers
<1> HIDE DEF x
<1>9. /\ contexts' \in [Contexts -> RawBuffers] /\ contexts'[c] = x
      /\ \A d : d # c => contexts'[d] = contexts[d]
  BY <1>7, <1>8 DEF VectorInv, VectorTypeOK
<1>10. /\ local' \in [Threads -> Operations]
       /\ \A u \in Threads : u # t => local'[u] = local[u]
       /\ local'[t].pc = "access" /\ local'[t].op = local[t].op
       /\ Bucket(t)' = Bucket(t) /\ Cur(t)' = c
  BY <1>1, <1>5, StepFacts DEF Pcs
<1>11. /\ IInv' /\ SpinnerNext /\ OthersSame(t) /\ LocksFit(t)' /\ SectionOK(t)'
  BY <1>1, <1>2, <1>10, SectionEnds
<1>12. AccessOK(t)'  BY <1>1, <1>4, <1>6, <1>8, <1>9, <1>10 DEF AccessOK
<1>13. ThreadOK(t)'  BY <1>11, <1>12 DEF ThreadOK
<1>14. VectorTypeOK'  BY <1>1, <1>9, <1>10 DEF VectorInv, VectorTypeOK
<1>15. local[t].op = "move" => Covered(b)'
  BY <1>4, <1>10 DEF Covered, Unsaved
<1>16. VectorInv'
  <2>1. ASSUME NEW e \in Buckets \ {b}, d_buckets[e].raw # NoContext
        PROVE  /\ d_buckets[e].raw \in heap'
               /\ contexts'[d_buckets[e].raw] = contexts[d_buckets[e].raw]
    BY <1>1, <1>6, <1>9, <2>1, RawFacts
  <2>2. /\ WritesMeetNoReads => Holds(b, done[b])'
        /\ c \in heap' /\ contexts'[c].block_index = b
        /\ Covered(b)' \/ IsSaved(contexts'[c])
    <3>1. WritesMeetNoReads => Holds(b, done[b])  BY DEF VectorInv, ContentOK
    <3>2. WritesMeetNoReads => Holds(b, done[b])'  BY <1>1, <1>6, <1>8, <1>9, <3>1 DEF Holds
    <3> QED BY <1>1, <1>6, <1>8, <1>9, <1>15, <3>2 DEF IsSaved
  <2>3. ASSUME NEW u \in Threads, u # t, local[u].pc \in Accesses, Bucket(u) = b
        PROVE  /\ BucketStays(b)
               /\ WritesMeetNoReads /\ local[u].pc = "add" => Covered(b)'
    <3>1. WritesMeetNoReads /\ local[u].pc = "add" => Covered(b)'
      <4> SUFFICES ASSUME WritesMeetNoReads, local[u].pc = "add" PROVE local[t].op = "move"
        BY <1>15
      <4>1. local[u].op = "move"  BY <2>3, AccessFacts DEF AccessOK
      <4>2. InBucket(u) /\ InBucket(t)  BY <1>2, <2>3, AccessFacts, SectionFacts
      <4>3. local[t].op # "for_each"  BY <1>4, <2>3, <4>2, WriterOrOther
      <4> QED BY <4>1, <4>3, OperationFacts DEF VectorInv, MixOK
    <3> QED BY <1>1, <1>6, <1>8, <1>9, <3>1 DEF BucketStays
  <2>4. ASSUME NEW d \in heap'
        PROVE  LET e == contexts'[d].block_index
               IN  IF e = NoBucket THEN contexts'[d].dirty = 0 /\ contexts'[d].buffer = Null
                   ELSE d_buckets'[e].raw = d
    <3>1. CASE d = c  BY <1>1, <1>6, <1>8, <1>9, <3>1, LocksAreNumbers
    <3>2. CASE d # c
      <4>1. d \in heap /\ contexts'[d] = contexts[d]  BY <1>1, <1>9, <2>4, <3>2
      <4>2. contexts[d].block_index # NoBucket => d_buckets[contexts[d].block_index].raw = d
        BY <1>1, <1>2, <4>1, ContextOwner
      <4>3. contexts[d].block_index = NoBucket => contexts[d].dirty = 0 /\ contexts[d].buffer = Null
        BY <4>1 DEF VectorInv, ListOK
      <4> QED BY <1>1, <4>1, <4>2, <4>3
    <3> QED BY <3>1, <3>2
  <2>5. Owned(b)' /\ Owned(b)
    <3>1. HasBuffer(b)'  BY <1>1, <1>6, <1>8, <1>9 DEF HasBuffer
    <3> QED BY <1>1, <1>4, <3>1 DEF Owned
  <2>6. IsInjective(d_contexts')  BY <1>1 DEF VectorInv, ListOK
  <2>7. local'[t].pc # "complete" /\ d_buckets'[b].raw = c /\ c # NoContext
    BY <1>1, <1>6, <1>10
  <2> QED BY <1>1, <1>2, <1>4, <1>10, <1>11, <1>13, <1>14, <2>1, <2>2, <2>3, <2>4, <2>5, <2>6,
             <2>7, SectionKeepsVector
<1> QED BY <1>11, <1>16 DEF Good

LEMMA DeallocIsGood ==
  ASSUME IInv, VectorInv, NEW t \in Threads, Dealloc(t)
  PROVE  Good
<1>1. /\ local[t].pc = "dealloc" /\ IdleSpinner(t) /\ Step(t, "leave")
      /\ Unlock(t, d_lock) /\ UNCHANGED <<d_buckets, heap, d_contexts, done>>
  BY DEF Dealloc, At
<1>2. InSection(t) /\ local[t].pc \in Accesses  BY <1>1 DEF InSection, Accesses
<1>3. PICK b \in Buckets : b = Bucket(t)  BY <1>2, SectionFacts
<1>4. PICK c \in Contexts : c = Cur(t)  BY <1>2, AccessFacts
<1>5. /\ c \in heap /\ contexts[c].block_index = b /\ d_buckets[b].raw = c
      /\ contexts[c].buffer \in Buffers /\ c # NoContext /\ b # NoBucket
  BY <1>2, <1>3, <1>4, AccessFacts, VectorFacts, LocksAreNumbers
<1>6. PICK x \in RawBuffers :
        /\ contexts' = [contexts EXCEPT ![c] = x]
        /\ x.block_index = b /\ x.dirty = contexts[c].dirty /\ x.storage = contexts[c].storage
        /\ \/ x.buffer = contexts[c].buffer /\ live' = live
           \/ /\ x.buffer = Null /\ live' = live - 1 /\ contexts[c].dirty = 1
              /\ contexts[c].buffer # Null
  <2>1. CASE contexts[c].dirty = 1 /\ contexts[c].buffer # Null
    <3> DEFINE y == [contexts[c] EXCEPT !.buffer = Null]
    <3>1. /\ y \in RawBuffers /\ y.buffer = Null
          /\ y.dirty = contexts[c].dirty /\ y.storage = contexts[c].storage
          /\ y.block_index = contexts[c].block_index
      BY BufferFacts, FieldFacts
    <3>2. Field(c, "buffer", Null) /\ live' = live - 1  BY <1>4, <1>5, <2>1 DEF Dealloc
    <3>3. contexts' = [contexts EXCEPT ![c] = y]
      BY <3>2 DEF Field, VectorInv, VectorTypeOK
    <3> HIDE DEF y
    <3> QED BY <1>5, <2>1, <3>1, <3>2, <3>3
  <2>2. CASE ~(contexts[c].dirty = 1 /\ contexts[c].buffer # Null)
    <3>1. contexts' = contexts /\ live' = live  BY <1>4, <1>5, <2>2 DEF Dealloc
    <3>2. contexts' = [contexts EXCEPT ![c] = contexts[c]]
      BY <3>1 DEF VectorInv, VectorTypeOK
    <3> QED BY <1>5, <3>1, <3>2, VectorFacts
  <2> QED BY <2>1, <2>2
<1>7. /\ contexts' \in [Contexts -> RawBuffers] /\ contexts'[c] = x
      /\ \A d : d # c => contexts'[d] = contexts[d]
      /\ live' \in Int
  BY <1>6 DEF VectorInv, VectorTypeOK
<1>8. /\ local' \in [Threads -> Operations]
      /\ \A u \in Threads : u # t => local'[u] = local[u]
      /\ local'[t].pc = "leave" /\ local'[t].op = local[t].op
      /\ Bucket(t)' = Bucket(t) /\ Cur(t)' = c
  BY <1>1, <1>4, StepFacts DEF Pcs
<1>9. /\ IInv' /\ SpinnerNext /\ OthersSame(t) /\ LocksFit(t)' /\ SectionOK(t)'
  BY <1>1, <1>2, <1>8, SectionEnds
<1>10. AccessOK(t)'  BY <1>1, <1>3, <1>5, <1>6, <1>7, <1>8 DEF AccessOK
<1>11. ThreadOK(t)'  BY <1>9, <1>10 DEF ThreadOK
<1>12. VectorTypeOK'  BY <1>1, <1>7, <1>8 DEF VectorInv, VectorTypeOK
<1>13. ~(Unsaved(t) \/ local'[t].pc = "complete")  BY <1>1, <1>8 DEF Unsaved
<1>14. Covered(b) => Covered(b)'
  <2>1. contexts'[d_buckets'[b].raw].dirty = contexts[d_buckets[b].raw].dirty
    BY <1>1, <1>5, <1>6, <1>7
  <2> QED BY <1>8, <1>13, <2>1, CoveredStays
<1>15. VectorInv'
  <2>1. ASSUME NEW e \in Buckets \ {b}, d_buckets[e].raw # NoContext
        PROVE  /\ d_buckets[e].raw \in heap'
               /\ contexts'[d_buckets[e].raw] = contexts[d_buckets[e].raw]
    BY <1>1, <1>5, <1>7, <2>1, RawFacts
  <2>2. /\ WritesMeetNoReads => Holds(b, done[b])'
        /\ c \in heap' /\ contexts'[c].block_index = b
        /\ Covered(b)' \/ IsSaved(contexts'[c])
    <3>1. WritesMeetNoReads => Holds(b, done[b])  BY DEF VectorInv, ContentOK
    <3>2. WritesMeetNoReads => Holds(b, done[b])'  BY <1>1, <1>5, <1>6, <1>7, <3>1 DEF Holds
    <3>3. Covered(b) \/ IsSaved(contexts[c])  BY <1>5 DEF VectorInv, ListOK
    <3>4. contexts[c].dirty = 1 => Covered(b)  BY <1>5 DEF Covered
    <3> QED BY <1>1, <1>5, <1>6, <1>7, <1>14, <3>2, <3>3, <3>4 DEF IsSaved
  <2>3. BucketStays(b)  BY <1>1, <1>5, <1>6, <1>7 DEF BucketStays
  <2>4. ASSUME NEW d \in heap'
        PROVE  LET e == contexts'[d].block_index
               IN  IF e = NoBucket THEN contexts'[d].dirty = 0 /\ contexts'[d].buffer = Null
                   ELSE d_buckets'[e].raw = d
    <3>1. CASE d = c  BY <1>1, <1>5, <1>6, <1>7, <3>1
    <3>2. CASE d # c
      <4>1. d \in heap /\ contexts'[d] = contexts[d]  BY <1>1, <1>7, <2>4, <3>2
      <4>2. contexts[d].block_index # NoBucket => d_buckets[contexts[d].block_index].raw = d
        BY <1>1, <1>2, <4>1, ContextOwner
      <4>3. contexts[d].block_index = NoBucket => contexts[d].dirty = 0 /\ contexts[d].buffer = Null
        BY <4>1 DEF VectorInv, ListOK
      <4> QED BY <1>1, <4>1, <4>2, <4>3
    <3> QED BY <3>1, <3>2
  <2>5. \/ live' = live /\ (Owned(b)' <=> Owned(b))
        \/ live' = live - 1 /\ ~Owned(b)' /\ Owned(b)
    <3>1. \A u \in Threads : local[u].pc # "complete" /\ local'[u].pc # "complete"
      BY <1>1, <1>2, <1>8, OneInSection DEF InSection
    <3>2. (Owned(b) <=> HasBuffer(b)) /\ (Owned(b)' <=> HasBuffer(b)')
      BY <3>1 DEF Owned
    <3>3. HasBuffer(b) <=> contexts[c].buffer # Null  BY <1>5 DEF HasBuffer
    <3>4. HasBuffer(b)' <=> x.buffer # Null  BY <1>1, <1>5, <1>7 DEF HasBuffer
    <3> QED BY <1>6, <3>2, <3>3, <3>4
  <2>6. IsInjective(d_contexts')  BY <1>1 DEF VectorInv, ListOK
  <2>7. d_buckets'[b].raw = c /\ c # NoContext  BY <1>1, <1>5
  <2> QED BY <1>1, <1>2, <1>8, <1>9, <1>11, <1>12, <1>13, <1>14, <2>1, <2>2, <2>3, <2>4, <2>5,
             <2>6, <2>7, SectionKeepsVector
<1> QED BY <1>9, <1>15 DEF Good

-----------------------------------------------------------------------------
(* The first states, and every step *)

LEMMA InitIsGood ==
  ASSUME Init
  PROVE  IInv /\ VectorInv
<1> DEFINE N == Cardinality(Buckets)
<1>1. IInv  BY InitIInv DEF Init
<1>2. PICK size \in {"partial", "full"}, left \in {0, 1} :
        /\ d_buckets = [b \in Buckets |->
             IF b = N THEN [raw |-> 1, compressed |-> Null]
             ELSE [raw |-> NoContext, compressed |-> Buffer(0)]]
        /\ contexts = [c \in Contexts |-> IF c = 1 THEN BackContext(size) ELSE EmptyContext]
        /\ heap = 1..(1 + left)
        /\ d_contexts = [p \in 1..(1 + left) |-> p]
  BY DEF Init, Contexts
<1>3. live = N - 1 /\ done = [b \in Buckets |-> 0]  BY DEF Init
<1>4. PICK mode \in Mixes : local \in [Threads -> {Idle(range, op) : range \in Ranges, op \in mode}]
  BY DEF Init
<1>5. /\ N \in Buckets /\ N # NoBucket /\ NoBucket \notin Buckets /\ N \in Locks /\ N \in Nat
      /\ 1 \in Contexts /\ NoBucket \in Locks /\ IsFiniteSet(Buckets)
      /\ 1..1 \subseteq Contexts /\ 1..2 \subseteq Contexts
  <2>1. 1 \in Contexts /\ 1..1 \subseteq Contexts /\ 1..2 \subseteq Contexts
    BY SharedAssumption DEF Contexts
  <2>2. NoBucket \in Locks  BY LocksAreNumbers DEF NoBucket, d_lock
  <2> HIDE DEF N
  <2>3. N \in Buckets  BY LocksAreNumbers DEF N
  <2> QED BY <2>1, <2>2, <2>3, LocksAreNumbers
<1>6. Null \in Buffers /\ Buffer(0) \in Buffers /\ Buffer(0) # Null  BY BufferFacts
<1>7. /\ BackContext(size) \in RawBuffers /\ BackContext(size).block_index = N
      /\ BackContext(size).dirty = 1 /\ BackContext(size).buffer = Null
      /\ BackContext(size).storage = 0
  <2>1. EmptyContext.storage = 0  BY DEF EmptyContext
  <2> QED BY <1>5, <1>6, <2>1, EmptyFacts DEF BackContext, RawBuffers
<1>8. /\ mode \subseteq {"for_each", "const_for_each", "move"}
      /\ WritesMeetNoReads => ~({"const_for_each", "move"} \subseteq mode)
      /\ Ranges \subseteq Seq(Buckets)
  BY SharedAssumption DEF Buckets, d_lock, WritesMeetNoReads
<1>9. ASSUME NEW t \in Threads
      PROVE  /\ local[t] \in Operations /\ local[t].pc = "next" /\ local[t].op \in mode
             /\ local[t].found = 0
  <2>1. PICK range \in Ranges, op \in mode : local[t] = Idle(range, op)  BY <1>4
  <2>2. range \in Seq(Buckets) /\ op \in {"for_each", "const_for_each", "move"}  BY <1>8
  <2>3. Idle(range, op) \in Operations
    BY <1>5, <1>6, <2>2 DEF Idle, Operations, Pcs
  <2> QED BY <2>1, <2>3 DEF Idle
<1> HIDE DEF N
<1>10. /\ d_buckets[N] = [raw |-> 1, compressed |-> Null]
       /\ \A b \in Buckets : b # N => d_buckets[b] = [raw |-> NoContext, compressed |-> Buffer(0)]
       /\ contexts[1] = BackContext(size)
       /\ \A c \in Contexts : c # 1 => contexts[c] = EmptyContext
       /\ 1 \in heap /\ heap \subseteq Contexts
  <2>1. 1..(1 + left) \subseteq Contexts /\ 1 \in 1..(1 + left)
    <3>1. 1 + left = 1 \/ 1 + left = 2  OBVIOUS
    <3> QED BY <1>5, <3>1
  <2> QED BY <1>2, <1>5, <2>1
<1>11. VectorTypeOK
  <2>1. d_buckets \in [Buckets -> [raw : Contexts \union {NoContext}, compressed : Buffers]]
    BY <1>2, <1>5, <1>6
  <2>2. contexts \in [Contexts -> RawBuffers]  BY <1>2, <1>7, EmptyFacts
  <2>3. d_contexts \in Seq(heap)  BY <1>2
  <2>4. live \in Int /\ done \in [Buckets -> Nat]  BY <1>3, <1>5
  <2>5. local \in [Threads -> Operations]  BY <1>4, <1>9
  <2> QED BY <1>10, <2>1, <2>2, <2>3, <2>4, <2>5 DEF VectorTypeOK
<1>12. MixOK  BY <1>8, <1>9 DEF MixOK
<1>13. ASSUME NEW t \in Threads PROVE ThreadOK(t)
  <2>1. local[t].pc = "next" /\ ~Inner(t)  BY <1>9 DEF Inner
  <2>2. IdleSpinner(t)  BY DEF Init, SpinnerInit, IdleSpinner, NoCall
  <2>3. LocksFit(t)
    BY <2>1, <2>2 DEF LocksFit, CallFits, InBucket, InSection, Unpublished, Searching
  <2>4. SectionOK(t)  BY <2>1 DEF SectionOK, Unpublished, Searching
  <2>5. AccessOK(t)  BY <2>1 DEF AccessOK, Accesses
  <2> QED BY <2>3, <2>4, <2>5 DEF ThreadOK
<1>14. ListOK
  <2>1. IsInjective(d_contexts)  BY <1>2 DEF IsInjective
  <2>2. ASSUME NEW b \in Buckets, d_buckets[b].raw # NoContext
        PROVE  /\ d_buckets[b].raw \in heap /\ contexts[d_buckets[b].raw].block_index = b
               /\ Covered(b)
    <3>1. b = N /\ d_buckets[b].raw = 1  BY <1>10, <2>2
    <3> QED BY <1>7, <1>10, <3>1 DEF Covered
  <2>3. ASSUME NEW c \in heap
        PROVE  LET b == contexts[c].block_index
               IN  IF b = NoBucket THEN contexts[c].dirty = 0 /\ contexts[c].buffer = Null
                   ELSE d_buckets[b].raw = c
    <3>1. CASE c = 1  BY <1>5, <1>7, <1>10, <3>1
    <3>2. CASE c # 1  BY <1>10, <2>3, <3>2, EmptyFacts
    <3> QED BY <3>1, <3>2
  <2> QED BY <2>1, <2>2, <2>3 DEF ListOK
<1>15. ContentOK
  <2> SUFFICES ASSUME NEW b \in Buckets
               PROVE  /\ d_buckets[b].raw = NoContext => d_buckets[b].compressed # Null
                      /\ Holds(b, done[b])
    BY DEF ContentOK
  <2>1. done[b] = 0  BY <1>3
  <2>2. CASE b = N  BY <1>5, <1>7, <1>10, <2>1, <2>2, LocksAreNumbers DEF Holds
  <2>3. CASE b # N  BY <1>6, <1>10, <2>1, <2>3 DEF Holds
  <2> QED BY <2>2, <2>3
<1>16. BuffersCounted
  <2>1. ASSUME NEW b \in Buckets PROVE Owned(b) <=> b # N
    <3>1. Owned(b) <=> HasBuffer(b)  BY <1>9 DEF Owned
    <3>2. CASE b = N  BY <1>5, <1>7, <1>10, <3>1, <3>2, LocksAreNumbers DEF HasBuffer
    <3>3. CASE b # N  BY <1>6, <1>10, <3>1, <3>3 DEF HasBuffer
    <3> QED BY <3>2, <3>3
  <2>2. {b \in Buckets : Owned(b)} = Buckets \ {N}  BY <2>1
  <2>3. Cardinality(Buckets \ {N}) = N - 1  BY <1>5, FS_RemoveElement DEF N
  <2> QED BY <1>3, <2>2, <2>3 DEF BuffersCounted, N
<1> QED BY <1>1, <1>11, <1>12, <1>13, <1>14, <1>15, <1>16 DEF VectorInv

LEMMA StutterIsGood ==
  ASSUME IInv, VectorInv, UNCHANGED vars
  PROVE  Good
<1>1. UNCHANGED spinner_vars /\ UNCHANGED vector_vars /\ local' = local  BY DEF vars
<1>2. /\ d_buckets' = d_buckets /\ contexts' = contexts /\ heap' = heap
      /\ d_contexts' = d_contexts /\ live' = live /\ done' = done /\ call' = call /\ held' = held
  BY <1>1 DEF vector_vars, spinner_vars
<1>3. IInv'  BY <1>1, NextIInv
<1>4. VectorTypeOK'  BY <1>1, <1>2 DEF VectorInv, VectorTypeOK
<1>5. MixOK'  BY <1>1 DEF VectorInv, MixOK
<1>6. ASSUME NEW t \in Threads PROVE ThreadOK(t)'
  <2>1. ThreadOK(t) /\ SameThread(t)  BY <1>1, <1>2 DEF VectorInv, SameThread
  <2>2. LocksFit(t)' /\ SectionOK(t)'  BY <1>1, <2>1, ThreadStays DEF ThreadOK
  <2>3. AccessOK(t)'
    BY <1>1, <1>2, <2>1 DEF ThreadOK, AccessOK, Covered, Unsaved, Bucket, Cur
  <2> QED BY <2>2, <2>3 DEF ThreadOK
<1>7. ListOK'
  <2>1. \A b \in Buckets : Covered(b) => Covered(b)'
    BY <1>1, <1>2 DEF Covered, Unsaved, Bucket
  <2>2. \A c : InTransit(c) => InTransit(c)'
    BY <1>1, <1>2 DEF InTransit, Candidate, Cur
  <2> QED BY <1>2, <2>1, <2>2 DEF VectorInv, ListOK
<1>8. ContentOK'  BY <1>2 DEF VectorInv, ContentOK, Holds
<1>9. BuffersCounted'
  <2>1. \A b \in Buckets : Owned(b)' <=> Owned(b)
    BY <1>1, <1>2 DEF Owned, HasBuffer, Bucket
  <2> QED BY <1>2, <2>1 DEF VectorInv, BuffersCounted
<1> QED BY <1>1, <1>3, <1>4, <1>5, <1>6, <1>7, <1>8, <1>9 DEF Good, VectorInv

LEMMA NextIsGood ==
  ASSUME IInv, VectorInv, [Next]_vars
  PROVE  Good
<1>1. CASE UNCHANGED vars  BY <1>1, StutterIsGood
<1>2. CASE \E t \in Threads : ThreadStep(t)
  <2>1. PICK t \in Threads : InLock(t) \/ VectorStep(t)  BY <1>2 DEF ThreadStep
  <2>2. CASE InLock(t)  BY <2>2, InLockIsGood
  <2>3. CASE EnterBucket(t)  BY <2>3, EnterBucketIsGood
  <2>4. CASE Load(t)  BY <2>4, LoadIsGood
  <2>5. CASE Recheck(t)  BY <2>5, RecheckIsGood
  <2>6. CASE Skip(t) \/ TriedInVain(t)  BY <2>6, SkipIsGood
  <2>7. CASE Try(t)  BY <2>7, TryIsGood
  <2>8. CASE Save(t)  BY <2>8, SaveIsGood
  <2>9. CASE InnerInVain(t)  BY <2>9, InnerInVainIsGood
  <2>10. CASE Unlink(t)  BY <2>10, UnlinkIsGood
  <2>11. CASE Give(t)  BY <2>11, GiveIsGood
  <2>12. CASE Make(t)  BY <2>12, MakeIsGood
  <2>13. CASE Fill(t)  BY <2>13, FillIsGood
  <2>14. CASE Publish(t)  BY <2>14, PublishIsGood
  <2>15. CASE Complete(t)  BY <2>15, CompleteIsGood
  <2>16. CASE Read(t)  BY <2>16, ReadIsGood
  <2>17. CASE Write(t) \/ FetchAdd(t)  BY <2>17, WriteIsGood
  <2>18. CASE MarkDirty(t) \/ MarkMoved(t)  BY <2>18, MarkIsGood
  <2>19. CASE Dealloc(t)  BY <2>19, DeallocIsGood
  <2>20. CASE Look(t)  BY <2>20, LookIsGood
  <2>21. CASE LeaveBucket(t)  BY <2>21, LeaveBucketIsGood
  <2> QED BY <2>1, <2>2, <2>3, <2>4, <2>5, <2>6, <2>7, <2>8, <2>9, <2>10, <2>11, <2>12, <2>13,
             <2>14, <2>15, <2>16, <2>17, <2>18, <2>19, <2>20, <2>21 DEF VectorStep
<1> QED BY <1>1, <1>2 DEF Next

-----------------------------------------------------------------------------
(* Theorems *)

\* What every thread, the list and the buffers satisfy between any two steps.
THEOREM SharedInvariance == Spec => [](IInv /\ VectorInv)
PROOF
<1>1. Init => IInv /\ VectorInv  BY InitIsGood
<1>2. IInv /\ VectorInv /\ [Next]_vars => (IInv /\ VectorInv)'  BY NextIsGood DEF Good
<1> QED BY <1>1, <1>2, PTL DEF Spec

\* No addition of a thread is lost, wherever its bucket is moved in between
\* (tests/test_cvector.cpp:715), for any number of threads and buckets.
THEOREM SharedUpdates ==
  ASSUME WritesMeetNoReads
  PROVE  Spec => []NoLostUpdate
PROOF
<1>1. IInv /\ VectorInv => NoLostUpdate  BY DEF VectorInv, ContentOK, NoLostUpdate
<1> QED BY <1>1, SharedInvariance, PTL

\* The context that a thread points to is allocated and that of its bucket as long as the
\* thread uses it: get_locked_context gives away no context that somebody uses.
THEOREM SharedAccess == Spec => []AccessIsLive
PROOF
<1>1. IInv /\ VectorInv => AccessIsLive  BY DEF VectorInv, ThreadOK, AccessOK, AccessIsLive
<1> QED BY <1>1, SharedInvariance, PTL

\* When no thread has d_lock, a bucket and its context refer to each other, and a context
\* that nobody uses is saved or dirty.
THEOREM SharedContexts ==
  ASSUME WritesMeetNoReads
  PROVE  Spec => []ContextsAgree
PROOF
<1>1. ASSUME IInv, VectorInv, Quiet PROVE ContextsAgree
  <2>1. \A t \in Threads : ~InSection(t)
    BY <1>1 DEF VectorInv, ThreadOK, LocksFit, Quiet
  <2>2. \A c : ~InTransit(c)
    BY <2>1 DEF InTransit, InSection, Unpublished, Searching
  <2>3. d_contexts \in Seq(heap) /\ IsInjective(d_contexts)
    BY <1>1 DEF VectorInv, VectorTypeOK, ListOK
  <2>4. ASSUME NEW b \in Buckets, d_buckets[b].raw # NoContext,
               contexts[d_buckets[b].raw].dirty = 0, \A t \in Threads : Has(t, b, "no")
        PROVE  contexts[d_buckets[b].raw].buffer = Buffer(contexts[d_buckets[b].raw].storage)
    <3>1. ~Covered(b)
      <4> SUFFICES ASSUME NEW t \in Threads, Bucket(t) = b, Unsaved(t) PROVE FALSE
        BY <2>4 DEF Covered
      <4>1. InBucket(t)  BY DEF Unsaved, InBucket
      <4>2. Has(t, b, Mode(t))  BY <1>1, <4>1 DEF VectorInv, ThreadOK, LocksFit
      <4> QED BY <2>4, <4>2 DEF Has, Mode
    <3> QED BY <1>1, <2>4, <3>1 DEF VectorInv, ListOK, IsSaved
  <2>5. ASSUME NEW b \in Buckets, d_buckets[b].raw # NoContext
        PROVE  d_buckets[b].raw \in heap /\ contexts[d_buckets[b].raw].block_index = b
    BY <1>1, <2>5, RawFacts
  <2>6. \A c \in heap :
          contexts[c].block_index # NoBucket => d_buckets[contexts[c].block_index].raw = c
    BY <1>1, <2>2 DEF VectorInv, ListOK
  <2> QED BY <2>3, <2>4, <2>5, <2>6 DEF ContextsAgree
<1>2. IInv /\ VectorInv => ContextsAgree  BY <1>1 DEF ContextsAgree
<1> QED BY <1>2, SharedInvariance, PTL

\* When no thread has d_lock, the compressed buffers that are allocated are those of the
\* buckets, one each: none leaks and none is freed twice.
THEOREM SharedBuffers == Spec => []BuffersAreOwned
PROOF
<1>1. ASSUME IInv, VectorInv, Quiet PROVE live = Cardinality({b \in Buckets : HasBuffer(b)})
  <2>1. \A t \in Threads : local[t].pc # "complete"
    BY <1>1 DEF VectorInv, ThreadOK, LocksFit, InSection, Quiet
  <2>2. {b \in Buckets : Owned(b)} = {b \in Buckets : HasBuffer(b)}  BY <2>1 DEF Owned
  <2> QED BY <1>1, <2>2 DEF VectorInv, BuffersCounted
<1>2. IInv /\ VectorInv => BuffersAreOwned  BY <1>1 DEF BuffersAreOwned
<1> QED BY <1>2, SharedInvariance, PTL

\* The vector uses its locks as they may be used: whatever holds of the locks for any
\* callers holds for it.
THEOREM SharedUsesLocks == Spec => SpinnerSpec
PROOF
<1>1. Init => SpinnerInit  BY DEF Init
<1>2. IInv /\ VectorInv /\ [Next]_vars => [SpinnerNext]_spinner_vars  BY NextIsGood DEF Good
<1> QED BY <1>1, <1>2, SharedInvariance, PTL DEF Spec, SpinnerSpec

\* A mark of a waiting writer is never left behind, in the vector's use of its locks.
THEOREM SharedNeeds == Spec => []NeededHasWaiter
PROOF BY SharedUsesLocks, SpinnerNeedIsReal, PTL

\* The locks of the vector do what SharedLock allows and no more.
THEOREM SharedImplementsLock == Spec => ImplementsLock
PROOF BY SharedUsesLocks, SpinnerImplementsLock, PTL
=================================================================================

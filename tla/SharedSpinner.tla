------------------------------ MODULE SharedSpinner ------------------------------
(***************************************************************************)
(* The spin locks of a compressed vector.  A lock is one word that counts  *)
(* its readers and has a bit for its writer and one for a writer that      *)
(* waits, which keeps new readers out.  Every access to the word is an     *)
(* atomic step of its own: between two of them other threads run.          *)
(*                                                                         *)
(* A module that uses the locks EXTENDS this one: it starts a call and     *)
(* waits until the thread is in no call.  A thread holds a lock once at    *)
(* most; two references of one thread to a bucket count as two threads.    *)
(***************************************************************************)
EXTENDS Naturals, FiniteSets

CONSTANTS
  Threads, Locks,
  MaxReaders   \* readers from which max_read_mask is set; the word counts to twice that

ASSUME SpinnerAssumption == IsFiniteSet(Threads) /\ MaxReaders \in Nat \ {0}

VARIABLES
  word,   \* d_lock, its three fields
  call,   \* what a thread executes: the method, the lock, and the word it expects
  held    \* how a thread has a lock: the program counter of its caller

spinner_vars == <<word, call, held>>

Abstract == INSTANCE SharedLock WITH Threads <- Threads, Locks <- Locks, held <- held

Word == [readers : Nat, need_lock : {0, 1}, write : {0, 1}]

Free    == [readers |-> 0, need_lock |-> 0, write |-> 0]
Writing == [readers |-> 0, need_lock |-> 0, write |-> 1]
Needed  == [readers |-> 0, need_lock |-> 1, write |-> 0]

Methods == {"none", "lock", "failed_lock", "try_lock", "lock_shared", "try_lock_shared"}

NoCall == [method |-> "none"]

IdleSpinner(t) == call[t].method = "none"

Has(t, l, mode) == held[t][l] = mode

SpinnerInit ==
  /\ word = [l \in Locks |-> Free]
  /\ call = [t \in Threads |-> NoCall]
  /\ held = [t \in Threads |-> [l \in Locks |-> "no"]]

Calls(t, method, l, expect) ==
  call' = [call EXCEPT ![t] = [method |-> method, lock |-> l, expect |-> expect]]

Returns(t) == call' = [call EXCEPT ![t] = NoCall]

Stores(l, w) == word' = [word EXCEPT ![l] = w]

Hold(t, l, mode) == held' = [held EXCEPT ![t] = [@ EXCEPT ![l] = mode]]

-----------------------------------------------------------------------------
(* Calls *)

\* lock(): the word is first expected to be 0.
Lock(t, l) ==
  /\ IdleSpinner(t) /\ Has(t, l, "no")
  /\ Calls(t, "lock", l, Free)
  /\ UNCHANGED <<word, held>>

\* Mutant of LockExchange: the mark of the waiting writer stays.
LockExchangeKeepsMark(t) ==
  LET l == call[t].lock
  IN  /\ call[t].method = "lock"
      /\ \/ /\ word[l] = call[t].expect
            /\ Stores(l, [word[l] EXCEPT !.write = 1]) /\ Hold(t, l, "write") /\ Returns(t)
         \/ /\ word[l] # call[t].expect
            /\ Calls(t, "failed_lock", l, word[l])
            /\ UNCHANGED <<word, held>>

\* try_lock(expect): the word becomes write.  When it differs, failed_lock follows.
LockExchange(t) ==
  LET l == call[t].lock
  IN  /\ call[t].method = "lock"
      /\ \/ /\ word[l] = call[t].expect
            /\ Stores(l, Writing) /\ Hold(t, l, "write") /\ Returns(t)
         \/ /\ word[l] # call[t].expect
            /\ Calls(t, "failed_lock", l, word[l])
            /\ UNCHANGED <<word, held>>

\* Mutant of FailedLock: the lock is expected to be free again.
FailedLockExpectsFree(t) ==
  LET l == call[t].lock
  IN  /\ call[t].method = "failed_lock"
      /\ IF call[t].expect.need_lock = 1 THEN UNCHANGED word
         ELSE Stores(l, [word[l] EXCEPT !.need_lock = 1])
      /\ Calls(t, "lock", l, Free)
      /\ UNCHANGED held

\* failed_lock: the lock is marked as needed if it was not, and then expected to be
\* needed and free.
FailedLock(t) ==
  LET l == call[t].lock
  IN  /\ call[t].method = "failed_lock"
      /\ IF call[t].expect.need_lock = 1 THEN UNCHANGED word
         ELSE Stores(l, [word[l] EXCEPT !.need_lock = 1])
      /\ Calls(t, "lock", l, Needed)
      /\ UNCHANGED held

\* unlock(): the mark of a writer that waits goes too.
Unlock(t, l) ==
  /\ IdleSpinner(t) /\ Has(t, l, "write")
  /\ Stores(l, [word[l] EXCEPT !.write = 0, !.need_lock = 0])
  /\ Hold(t, l, "no")
  /\ UNCHANGED call

\* try_lock(): no attempt is made on a lock that is written or needed.
TryLock(t, l) ==
  /\ IdleSpinner(t) /\ Has(t, l, "no")
  /\ word[l].need_lock = 0 /\ word[l].write = 0
  /\ Calls(t, "try_lock", l, Free)
  /\ UNCHANGED <<word, held>>

TryLockRefused(t, l) ==
  /\ IdleSpinner(t) /\ Has(t, l, "no")
  /\ word[l].need_lock = 1 \/ word[l].write = 1
  /\ UNCHANGED spinner_vars

\* Mutant of TryLockExchange: only a writer is in the way.
TryLockAmongReaders(t) ==
  LET l == call[t].lock
  IN  /\ call[t].method = "try_lock"
      /\ IF word[l].write = 0 THEN Stores(l, Writing) /\ Hold(t, l, "write")
         ELSE UNCHANGED <<word, held>>
      /\ Returns(t)

TryLockExchange(t) ==
  LET l == call[t].lock
  IN  /\ call[t].method = "try_lock"
      /\ IF word[l] = Free THEN Stores(l, Writing) /\ Hold(t, l, "write")
         ELSE UNCHANGED <<word, held>>
      /\ Returns(t)

\* lock_shared(): try_lock_shared() until it succeeds.
LockShared(t, l) ==
  /\ IdleSpinner(t) /\ Has(t, l, "no")
  /\ Calls(t, "lock_shared", l, Free)
  /\ UNCHANGED <<word, held>>

\* content & (need_lock | write | max_read_mask)
CanShare(w) == w.need_lock = 0 /\ w.write = 0 /\ w.readers < MaxReaders

LoadShared(t) ==
  LET l == call[t].lock
  IN  /\ call[t].method = "lock_shared" /\ CanShare(word[l])
      /\ Calls(t, "try_lock_shared", l, word[l])
      /\ UNCHANGED <<word, held>>

SharedExchange(t) ==
  LET l == call[t].lock
  IN  /\ call[t].method = "try_lock_shared"
      /\ \/ /\ word[l] = call[t].expect
            /\ Stores(l, [word[l] EXCEPT !.readers = @ + 1])
            /\ Hold(t, l, "read") /\ Returns(t)
         \/ /\ word[l] # call[t].expect
            /\ Calls(t, "lock_shared", l, Free)
            /\ UNCHANGED <<word, held>>

UnlockShared(t, l) ==
  /\ IdleSpinner(t) /\ Has(t, l, "read")
  /\ Stores(l, [word[l] EXCEPT !.readers = @ - 1])
  /\ Hold(t, l, "no")
  /\ UNCHANGED call

-----------------------------------------------------------------------------

\* The steps inside a call.
SpinnerStep(t) ==
  LockExchange(t) \/ FailedLock(t) \/ TryLockExchange(t) \/ LoadShared(t) \/ SharedExchange(t)

SpinnerNext ==
  \E t \in Threads :
    \/ SpinnerStep(t)
    \/ \E l \in Locks :
         \/ Lock(t, l) \/ TryLock(t, l) \/ TryLockRefused(t, l) \/ LockShared(t, l)
         \/ Unlock(t, l) \/ UnlockShared(t, l)

SpinnerSpec == SpinnerInit /\ [][SpinnerNext]_spinner_vars

-----------------------------------------------------------------------------
(* Properties *)

Readers(l) == {t \in Threads : held[t][l] = "read"}

SpinnerTypeOK ==
  /\ word \in [Locks -> Word]
  /\ held \in [Threads -> [Locks -> Abstract!Modes]]
  /\ DOMAIN call = Threads
  /\ \A t \in Threads :
       \/ call[t] = NoCall
       \/ call[t] \in [method : Methods \ {"none"}, lock : Locks, expect : Word]

\* The word agrees with who has the lock: it counts the readers, its write bit is the
\* writer's, and there is no reader beside a writer.  It is the only thing a thread
\* looks at.
WordCountsHolders ==
  \A l \in Locks :
    /\ word[l].readers = Cardinality(Readers(l))
    /\ word[l].write = 1 => word[l].readers = 0
    /\ word[l].write = 1 <=> \E t \in Threads : held[t][l] = "write"

\* The locks do what SharedLock allows and no more.
ImplementsLock == Abstract!Spec

\* A writer is alone.
WriterIsAlone ==
  \A l \in Locks, t, u \in Threads :
    held[t][l] = "write" /\ u # t => held[u][l] = "no"

\* A lock that is marked as needed has a thread that waits to write: a mark left
\* behind would keep readers and try_lock out for ever.
NeededHasWaiter ==
  \A l \in Locks :
    word[l].need_lock = 1 =>
      \E t \in Threads : call[t].method \in {"lock", "failed_lock"} /\ call[t].lock = l

\* The count of readers stays in the bits of the word that are left to it.
ReadersFit == \A l \in Locks : word[l].readers <= MaxReaders
===============================================================================

------------------------------- MODULE SharedLock -------------------------------
(***************************************************************************)
(* What the locks of a compressed vector promise: a thread has a lock      *)
(* alone, to write, or with others, to read.                               *)
(***************************************************************************)
CONSTANTS Threads, Locks

VARIABLE held   \* how a thread has a lock

Modes == {"no", "read", "write"}

Init == held = [t \in Threads |-> [l \in Locks |-> "no"]]

Hold(t, l, mode) == held' = [held EXCEPT ![t] = [@ EXCEPT ![l] = mode]]

Acquire(t, l) == (\A u \in Threads : held[u][l] = "no") /\ Hold(t, l, "write")

AcquireShared(t, l) ==
  /\ held[t][l] = "no"
  /\ \A u \in Threads : held[u][l] # "write"
  /\ Hold(t, l, "read")

Release(t, l) == held[t][l] # "no" /\ Hold(t, l, "no")

Next == \E t \in Threads, l \in Locks : Acquire(t, l) \/ AcquireShared(t, l) \/ Release(t, l)

Spec == Init /\ [][Next]_held
===============================================================================

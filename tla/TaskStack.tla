-------------------------------- MODULE TaskStack --------------------------------
(***************************************************************************)
(* The buffers of the pool's tasks.  A caller that makes a task takes one  *)
(* from a linked list, a worker that destroys a task puts it back.  The    *)
(* list has no lock: first is an atomic pointer, and each of its loads and *)
(* exchanges, and each access to the next pointer of a buffer another      *)
(* thread may have, is a step of its own.                                  *)
(*                                                                         *)
(* An address that is freed may be given out again by malloc.  Which       *)
(* worker has which task is the subject of TinyPool.                       *)
(*                                                                         *)
(* Two callers that pop at once are exposed to the ABA problem.  The       *)
(* history variable aba tells when it bites: a buffer comes back to the    *)
(* list under the exchange of a caller that has read another next pointer. *)
(***************************************************************************)
EXTENDS Integers, Sequences, FiniteSets

CONSTANTS
  Callers,     \* threads that push tasks
  Workers,     \* threads of the pool
  Addresses,   \* bound: buffers that exist at a time
  Sizes        \* sizes of the tasks

ASSUME StackAssumption == Sizes \subseteq Nat /\ Addresses \subseteq Nat \ {0} /\ Callers \cap Workers = {}

VARIABLES
  first,    \* the atomic pointer
  next,     \* the next pointer of a buffer
  size,     \* the size a buffer was made for
  heap,     \* addresses malloc has given out
  tasks,    \* the tasks that live at an address
  local,    \* what a thread is at
  stack,    \* the list from first on; the program only has the pointers
  aba       \* history: a buffer has come back under a pop

memory == <<first, next, size, heap, tasks, stack, aba>>
vars   == <<first, next, size, heap, tasks, local, stack, aba>>

Null == 0

Threads == Callers \union Workers

Idle == [pc |-> "idle", f |-> Null, n |-> Null, b |-> Null, s |-> 0]

Init ==
  /\ first = Null /\ stack = <<>> /\ aba = FALSE
  /\ heap = {}
  /\ next = [a \in Addresses |-> Null] /\ size = [a \in Addresses |-> 0]
  /\ tasks = [a \in Addresses |-> 0]
  /\ local = [t \in Threads |-> Idle]

At(t, pc) == local[t].pc = pc

Goes(t, pc) == local' = [local EXCEPT ![t].pc = pc]

-----------------------------------------------------------------------------
(* allocate *)

\* Bound: there is a buffer or an address for each call.
Allocate(c) ==
  /\ At(c, "idle")
  /\ Cardinality({d \in Callers : ~At(d, "idle")}) < Cardinality(Addresses \ heap) + Len(stack)
  /\ \E s \in Sizes : local' = [local EXCEPT ![c] = [Idle EXCEPT !.pc = "load", !.s = s]]
  /\ UNCHANGED memory

\* pop: first is loaded; a null pointer ends the loop.
LoadFirst(c) ==
  /\ At(c, "load")
  /\ local' = [local EXCEPT ![c].pc = IF first = Null THEN "malloc" ELSE "read", ![c].f = first]
  /\ UNCHANGED memory

\* f->next, whoever has the buffer now.
ReadNext(c) ==
  /\ At(c, "read")
  /\ local' = [local EXCEPT ![c].pc = "pop", ![c].n = next[local[c].f]]
  /\ UNCHANGED memory

\* The list without its first buffer.
Rest == IF stack = <<>> THEN stack ELSE Tail(stack)

\* Mutant of Pop: the store does not look at first.
PopBlindly(c) ==
  /\ At(c, "pop")
  /\ first' = local[c].n /\ stack' = Rest
  /\ local' = [local EXCEPT ![c].pc = "look", ![c].b = local[c].f]
  /\ UNCHANGED <<next, size, heap, tasks, aba>>

\* Mutant of Pop: when the exchange fails the buffer it saw is tried again.
PopStale(c) ==
  /\ At(c, "pop")
  /\ IF first = local[c].f
     THEN /\ first' = local[c].n /\ stack' = Rest
          /\ local' = [local EXCEPT ![c].pc = "look", ![c].b = local[c].f]
     ELSE /\ Goes(c, "read")
          /\ UNCHANGED <<first, stack>>
  /\ UNCHANGED <<next, size, heap, tasks, aba>>

\* compare_exchange_strong(f, f->next): when it fails f is what first is now.
Pop(c) ==
  /\ At(c, "pop")
  /\ IF first = local[c].f
     THEN /\ first' = local[c].n /\ stack' = Rest
          /\ local' = [local EXCEPT ![c].pc = "look", ![c].b = local[c].f]
     ELSE /\ local' = [local EXCEPT ![c].pc = IF first = Null THEN "malloc" ELSE "read", ![c].f = first]
          /\ UNCHANGED <<first, stack>>
  /\ UNCHANGED <<next, size, heap, tasks, aba>>

\* The buffer is large enough: the task is made there.
Take(c) ==
  /\ At(c, "look") /\ size[local[c].b] >= local[c].s
  /\ tasks' = [tasks EXCEPT ![local[c].b] = @ + 1]
  /\ local' = [local EXCEPT ![c] = Idle]
  /\ UNCHANGED <<first, next, size, heap, stack, aba>>

\* It is too small: it is freed, and the next one is tried.
Free(c) ==
  /\ At(c, "look") /\ size[local[c].b] < local[c].s
  /\ heap' = heap \ {local[c].b}
  /\ local' = [local EXCEPT ![c].pc = "load", ![c].b = Null]
  /\ UNCHANGED <<first, next, size, tasks, stack, aba>>

Malloc(c) ==
  /\ At(c, "malloc")
  /\ \E a \in Addresses \ heap :
       /\ heap' = heap \union {a}
       /\ next' = [next EXCEPT ![a] = Null] /\ size' = [size EXCEPT ![a] = local[c].s]
       /\ tasks' = [tasks EXCEPT ![a] = @ + 1]
  /\ local' = [local EXCEPT ![c] = Idle]
  /\ UNCHANGED <<first, stack, aba>>

-----------------------------------------------------------------------------
(* deallocate, when a worker destroys the task it applied *)

Destroy(w) ==
  /\ At(w, "idle")
  /\ \E a \in Addresses :
       /\ tasks[a] > 0
       /\ tasks' = [tasks EXCEPT ![a] = @ - 1]
       /\ local' = [local EXCEPT ![w] = [Idle EXCEPT !.pc = "link", !.b = a, !.f = first]]
  /\ UNCHANGED <<first, next, size, heap, stack, aba>>

\* b->next = f
Link(w) ==
  /\ At(w, "link")
  /\ next' = [next EXCEPT ![local[w].b] = local[w].f]
  /\ Goes(w, "push")
  /\ UNCHANGED <<first, size, heap, tasks, stack, aba>>

\* Some caller is about to exchange b for what was its next pointer.
ComesBack(b) == \E c \in Callers : At(c, "pop") /\ local[c].f = b /\ local[c].n # next[b]

\* Mutant of Push: the buffer keeps the next pointer it was given first.
PushUnlinked(w) ==
  /\ At(w, "push")
  /\ first' = local[w].b /\ stack' = <<local[w].b>> \o stack
  /\ local' = [local EXCEPT ![w] = Idle]
  /\ UNCHANGED <<next, size, heap, tasks, aba>>

Push(w) ==
  /\ At(w, "push")
  /\ IF first = local[w].f
     THEN /\ first' = local[w].b /\ stack' = <<local[w].b>> \o stack
          /\ aba' = (aba \/ ComesBack(local[w].b))
          /\ local' = [local EXCEPT ![w] = Idle]
     ELSE /\ local' = [local EXCEPT ![w].pc = "link", ![w].f = first]
          /\ UNCHANGED <<first, stack, aba>>
  /\ UNCHANGED <<next, size, heap, tasks>>

-----------------------------------------------------------------------------

\* The steps of allocate.
AllocateStep(c) ==
  LoadFirst(c) \/ ReadNext(c) \/ Pop(c) \/ Take(c) \/ Free(c) \/ Malloc(c)

DeallocateStep(w) == Link(w) \/ Push(w)

Next ==
  \/ \E c \in Callers : Allocate(c) \/ AllocateStep(c)
  \/ \E w \in Workers : Destroy(w) \/ DeallocateStep(w)

Spec == Init /\ [][Next]_vars

FairSpec ==
  /\ Spec
  /\ \A c \in Callers : WF_vars(AllocateStep(c))
  /\ \A w \in Workers : WF_vars(DeallocateStep(w))

-----------------------------------------------------------------------------
(* Properties *)

\* Where a buffer is: in the list, as a task, or in the hands of a thread.
Places(a) ==
  {<<"list", i>> : i \in {i \in DOMAIN stack : stack[i] = a}}
  \union {<<"task", i>> : i \in 1..tasks[a]}
  \union {<<"thread", t>> : t \in {t \in Threads : local[t].b = a}}

\* A buffer malloc has given out is in one place, and one that was freed nowhere: no
\* task is built over another one, and no buffer is lost or freed while it is used.
\* tiny_pool.h:51 calls allocation and deallocation thread safe.
OneOwner ==
  \A a \in Addresses : IF a \in heap THEN \E p \in Places(a) : Places(a) = {p} ELSE Places(a) = {}

\* The pointers of the program make up the list, so that what pop returns was pushed.
PointersAgree ==
  /\ first = IF stack = <<>> THEN Null ELSE stack[1]
  /\ \A i \in DOMAIN stack : next[stack[i]] = IF i = Len(stack) THEN Null ELSE stack[i + 1]

\* However many threads pop and push at once, buffers get lost or a second owner only
\* after a buffer came back under a pop: no other order of the loads and exchanges of
\* allocate and deallocate does any harm.
OneOwnerUntilABA == aba \/ OneOwner

\* Nor do the pointers stop to make up the list before that.
PointersAgreeUntilABA == aba \/ PointersAgree

\* A call of allocate ends, although the pushes of workers and the pops of other callers
\* make its exchange fail: only other calls that begin without end keep it from ending.
AllocateEnds ==
  \A c \in Callers :
    []<>At(c, "idle") \/ []<><<\E d \in Callers \ {c} : Allocate(d)>>_vars
===============================================================================

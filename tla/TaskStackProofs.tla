----------------------------- MODULE TaskStackProofs -----------------------------
(***************************************************************************)
(* The list of buffers is safe for any number of callers, workers and      *)
(* addresses until a buffer comes back under a pop.  Before that the next  *)
(* pointer a caller has read is the one of its buffer whenever the buffer  *)
(* is in the list, whatever became of the buffer meanwhile; so the exchange *)
(* that finds it first takes it out and leaves the rest of the list.       *)
(***************************************************************************)
EXTENDS TaskStack, SequenceTheorems, TLAPS

Pointer == Addresses \union {Null}

Local ==
  [pc : {"idle", "load", "read", "pop", "look", "malloc", "link", "push"},
   f : Pointer, n : Pointer, b : Pointer, s : Sizes \union {0}]

TypeOK ==
  /\ first \in Pointer
  /\ stack \in Seq(Addresses)
  /\ heap \subseteq Addresses
  /\ next \in [Addresses -> Pointer] /\ size \in [Addresses -> Sizes \union {0}]
  /\ tasks \in [Addresses -> Nat]
  /\ local \in [Threads -> Local]

Linked == {stack[i] : i \in DOMAIN stack}

\* The three kinds of places exclude each other, and a buffer is in one of them.
Apart ==
  /\ \A i, j \in DOMAIN stack : stack[i] = stack[j] => i = j
  /\ \A a \in Linked : a \in heap /\ tasks[a] = 0 /\ \A t \in Threads : local[t].b # a
  /\ \A a \in Addresses : tasks[a] > 0 =>
       a \in heap /\ tasks[a] = 1 /\ \A t \in Threads : local[t].b # a
  /\ \A t, u \in Threads : local[t].b = local[u].b /\ local[t].b # Null => t = u
  /\ \A t \in Threads : local[t].b # Null => local[t].b \in heap
  /\ \A a \in heap : a \in Linked \/ tasks[a] > 0 \/ \E t \in Threads : local[t].b = a

\* What a thread knows at a point of its call, the point being r.pc.
Knows(t, r, ptrs, linked) ==
  /\ r.b # Null <=> r.pc \in {"look", "link", "push"}
  /\ r.pc \in {"load", "read", "pop", "look", "malloc"} => t \in Callers
  /\ r.pc = "push" => ptrs[r.b] = r.f
  /\ r.pc \in {"read", "pop"} => r.f # Null
  /\ r.pc = "pop" /\ r.f \in linked => r.n = ptrs[r.f]

CallsAgree == \A t \in Threads : Knows(t, local[t], next, Linked)

ListAgrees == TypeOK /\ Apart /\ PointersAgree /\ CallsAgree

IInv == aba \/ ListAgrees

-----------------------------------------------------------------------------
\* The first buffer of the list is what first points to.
LEMMA FirstIsLinked ==
  ASSUME ListAgrees
  PROVE  /\ first = Null <=> stack = <<>>
         /\ first # Null => first \in Linked /\ 1 \in DOMAIN stack /\ stack[1] = first
<1>1. stack \in Seq(Addresses)  BY DEF ListAgrees, TypeOK
<1>2. CASE stack = <<>>  BY <1>2 DEF ListAgrees, PointersAgree
<1>3. CASE stack # <<>>
  <2>1. Len(stack) \in Nat \ {0} /\ DOMAIN stack = 1..Len(stack)
    BY <1>1, <1>3, EmptySeq, LenProperties
  <2>2. first = stack[1] /\ stack[1] \in Addresses
    BY <1>1, <1>3, <2>1, ElementOfSeq DEF ListAgrees, PointersAgree
  <2>3. first # Null  BY <2>2, StackAssumption DEF Null
  <2>4. QED  BY <1>3, <2>1, <2>2, <2>3 DEF Linked
<1>4. QED  BY <1>2, <1>3

\* How a step changes local: the record of its thread, and no other.
Moves(t, r) == local' \in [Threads -> Local] /\ local'[t] = r /\ \A u \in Threads : u # t => local'[u] = local[u]

\* What the others know stands while the buffers they push keep their pointers, and
\* those they pop are not linked with another pointer than the one they have read.
LEMMA OthersKnow ==
  ASSUME NEW t \in Threads, CallsAgree, NEW r, Moves(t, r), Knows(t, r, next', Linked'),
         \A u \in Threads : u # t =>
           /\ local[u].pc = "push" => next'[local[u].b] = next[local[u].b]
           /\ local[u].pc = "pop" /\ local[u].f \in Linked' => next'[local[u].f] = local[u].n
  PROVE  CallsAgree'
<1> SUFFICES ASSUME NEW u \in Threads  PROVE Knows(u, local'[u], next', Linked')
  BY DEF CallsAgree
<1>1. CASE u = t  BY <1>1 DEF Moves
<1>2. CASE u # t
  <2>1. local'[u] = local[u]  BY <1>2 DEF Moves
  <2>2. Knows(u, local[u], next, Linked)  BY DEF CallsAgree
  <2>3. QED  BY <1>2, <2>1, <2>2 DEF Knows
<1>3. QED  BY <1>1, <1>2

\* A step of a call that changes nothing but what its thread has loaded.
LEMMA LocalStep ==
  ASSUME ListAgrees, NEW t \in Threads, NEW r \in Local, r.b = local[t].b,
         Moves(t, r), UNCHANGED memory, Knows(t, r, next, Linked)
  PROVE  ListAgrees'
<1>1. \A u \in Threads : local'[u].b = local[u].b  BY DEF Moves
<1>2. TypeOK'  BY DEF Moves, ListAgrees, TypeOK, memory
<1>3. Linked' = Linked  BY DEF memory, Linked
<1>4. Apart'  BY <1>1, <1>3 DEF ListAgrees, Apart, memory
<1>5. PointersAgree'  BY DEF ListAgrees, PointersAgree, memory
<1>6. CallsAgree'  BY <1>3, OthersKnow DEF ListAgrees, memory, CallsAgree, Knows
<1>7. QED  BY <1>2, <1>4, <1>5, <1>6 DEF ListAgrees

LEMMA AllocatePreserves ==
  ASSUME ListAgrees, NEW c \in Callers, Allocate(c)
  PROVE  ListAgrees'
<1>1. local \in [Threads -> Local] /\ c \in Threads /\ Knows(c, local[c], next, Linked)
  BY DEF ListAgrees, TypeOK, Threads, CallsAgree
<1>2. PICK s \in Sizes : local' = [local EXCEPT ![c] = [Idle EXCEPT !.pc = "load", !.s = s]]
  BY DEF Allocate
<1> DEFINE r == [Idle EXCEPT !.pc = "load", !.s = s]
<1>3. r \in Local /\ r.b = Null /\ r.pc = "load"  BY DEF Idle, Local, Pointer
<1>4. local[c].b = Null  BY <1>1 DEF Allocate, At, Knows
<1>5. Moves(c, r)  BY <1>1, <1>2, <1>3 DEF Moves
<1>6. Knows(c, r, next, Linked)  BY <1>3 DEF Knows
<1> HIDE DEF r
<1>7. QED  BY <1>1, <1>3, <1>4, <1>5, <1>6, LocalStep DEF Allocate

LEMMA LoadFirstPreserves ==
  ASSUME ListAgrees, NEW c \in Callers, LoadFirst(c)
  PROVE  ListAgrees'
<1>1. local \in [Threads -> Local] /\ c \in Threads /\ Knows(c, local[c], next, Linked) /\ first \in Pointer
  BY DEF ListAgrees, TypeOK, Threads, CallsAgree
<1> DEFINE r == [local[c] EXCEPT !.pc = IF first = Null THEN "malloc" ELSE "read", !.f = first]
<1>2. /\ r \in Local /\ r.b = local[c].b /\ r.f = first
      /\ r.pc = IF first = Null THEN "malloc" ELSE "read"
  BY <1>1 DEF Local
<1>3. Moves(c, r)  BY <1>1, <1>2 DEF Moves, LoadFirst
<1>4. local[c].b = Null  BY <1>1 DEF LoadFirst, At, Knows
<1>5. Knows(c, r, next, Linked)  BY <1>2, <1>4, FirstIsLinked DEF Knows
<1> HIDE DEF r
<1>6. QED  BY <1>1, <1>2, <1>3, <1>5, LocalStep DEF LoadFirst

LEMMA ReadNextPreserves ==
  ASSUME ListAgrees, NEW c \in Callers, ReadNext(c)
  PROVE  ListAgrees'
<1>1. /\ local \in [Threads -> Local] /\ c \in Threads /\ Knows(c, local[c], next, Linked)
      /\ next \in [Addresses -> Pointer] /\ stack \in Seq(Addresses)
  BY DEF ListAgrees, TypeOK, Threads, CallsAgree
<1>2. local[c].f # Null /\ local[c].b = Null  BY <1>1 DEF ReadNext, At, Knows
<1>3. local[c].f \in Addresses  BY <1>1, <1>2 DEF Local, Pointer
<1> DEFINE r == [local[c] EXCEPT !.pc = "pop", !.n = next[local[c].f]]
<1>4. r \in Local /\ r.b = Null /\ r.f = local[c].f /\ r.n = next[local[c].f] /\ r.pc = "pop"
  BY <1>1, <1>2, <1>3 DEF Local
<1>5. Moves(c, r)  BY <1>1, <1>4 DEF Moves, ReadNext
<1>6. Knows(c, r, next, Linked)  BY <1>1, <1>2, <1>4 DEF Knows
<1> HIDE DEF r
<1>7. QED  BY <1>1, <1>2, <1>4, <1>5, <1>6, LocalStep DEF ReadNext

-----------------------------------------------------------------------------
\* The first buffer leaves a list that is not empty.
LEMMA TailFacts ==
  ASSUME ListAgrees, stack # <<>>
  PROVE  /\ Tail(stack) \in Seq(Addresses) /\ Len(stack) \in Nat \ {0}
         /\ DOMAIN stack = 1..Len(stack) /\ DOMAIN Tail(stack) = 1..(Len(stack) - 1)
         /\ Len(Tail(stack)) = Len(stack) - 1
         /\ \A i \in 1..(Len(stack) - 1) : Tail(stack)[i] = stack[i + 1]
         /\ {Tail(stack)[i] : i \in DOMAIN Tail(stack)} = Linked \ {stack[1]}
<1>1. stack \in Seq(Addresses)  BY DEF ListAgrees, TypeOK
<1>2. Len(stack) \in Nat \ {0} /\ DOMAIN stack = 1..Len(stack)  BY <1>1, EmptySeq, LenProperties
<1>3. /\ Tail(stack) \in Seq(Addresses) /\ Len(Tail(stack)) = Len(stack) - 1
      /\ \A i \in 1..Len(Tail(stack)) : Tail(stack)[i] = stack[i + 1]
  BY <1>1, HeadTailProperties
<1>4. DOMAIN Tail(stack) = 1..(Len(stack) - 1)  BY <1>3, LenProperties
<1>5. \A i, j \in 1..Len(stack) : stack[i] = stack[j] => i = j  BY <1>2 DEF ListAgrees, Apart
<1>6. {Tail(stack)[i] : i \in DOMAIN Tail(stack)} = Linked \ {stack[1]}
  <2>1. ASSUME NEW i \in 1..(Len(stack) - 1)  PROVE Tail(stack)[i] \in Linked \ {stack[1]}
    <3>1. i + 1 \in 1..Len(stack) /\ i + 1 # 1 /\ Tail(stack)[i] = stack[i + 1]  BY <1>2, <1>3
    <3>2. QED  BY <1>2, <1>5, <3>1 DEF Linked
  <2>2. ASSUME NEW a \in Linked \ {stack[1]}  PROVE \E i \in 1..(Len(stack) - 1) : Tail(stack)[i] = a
    <3>1. PICK j \in 1..Len(stack) : stack[j] = a  BY <1>2 DEF Linked
    <3>2. j # 1 /\ j - 1 \in 1..(Len(stack) - 1)  BY <1>2, <3>1
    <3>3. Tail(stack)[j - 1] = stack[j]  BY <1>2, <1>3, <3>2
    <3>4. QED  BY <3>1, <3>2, <3>3
  <2>3. QED
    <3>1. \A a : a \in {Tail(stack)[i] : i \in DOMAIN Tail(stack)} => a \in Linked \ {stack[1]}
      BY <1>4, <2>1
    <3>2. \A a : a \in Linked \ {stack[1]} => a \in {Tail(stack)[i] : i \in DOMAIN Tail(stack)}
      BY <1>4, <2>2
    <3>3. QED  BY <3>1, <3>2
<1>7. QED  BY <1>2, <1>3, <1>4, <1>6

\* The exchange succeeds: f leaves the list for the caller's hands.
LEMMA Popped ==
  ASSUME ListAgrees, NEW c \in Callers, Pop(c), first = local[c].f
  PROVE  ListAgrees'
<1>1. /\ local \in [Threads -> Local] /\ c \in Threads /\ Knows(c, local[c], next, Linked)
      /\ CallsAgree /\ Apart
  BY DEF ListAgrees, TypeOK, Threads, CallsAgree
<1>2. local[c].pc = "pop" /\ local[c].b = Null /\ first # Null
  BY <1>1 DEF Pop, At, Knows
<1>3. /\ stack # <<>> /\ stack[1] = first /\ first \in Linked
      /\ local[c].n = next[first]
  BY <1>1, <1>2, FirstIsLinked DEF Knows
<1>4. first' = local[c].n /\ stack' = Tail(stack) /\ UNCHANGED <<next, size, heap, tasks>>
  BY <1>3 DEF Pop, Rest
<1>5. stack' \in Seq(Addresses) /\ Linked' = Linked \ {first}
  <2>1. Linked' = {Tail(stack)[i] : i \in DOMAIN Tail(stack)}  BY <1>4 DEF Linked
  <2>2. QED  BY <1>3, <1>4, <2>1, TailFacts
<1> DEFINE r == [local[c] EXCEPT !.pc = "look", !.b = local[c].f]
<1>6. r \in Local /\ r.b = first /\ r.pc = "look"  BY <1>1 DEF Local
<1>7. Moves(c, r)  BY <1>1, <1>6 DEF Moves, Pop
<1> HIDE DEF r
<1>8. TypeOK'  BY <1>1, <1>4, <1>5, <1>7 DEF ListAgrees, TypeOK, Moves, Local
<1>9. Apart'
  <2>1. first \in heap /\ tasks[first] = 0 /\ \A t \in Threads : local[t].b # first
    BY <1>1, <1>3 DEF Apart
  <2>2. \A i, j \in DOMAIN stack' : stack'[i] = stack'[j] => i = j
    <3> SUFFICES ASSUME NEW i \in 1..(Len(stack) - 1), NEW j \in 1..(Len(stack) - 1), stack[i + 1] = stack[j + 1]
                 PROVE  i = j
      BY <1>3, <1>4, TailFacts
    <3>1. i + 1 \in 1..Len(stack) /\ j + 1 \in 1..Len(stack)  BY <1>3, TailFacts
    <3>2. QED  BY <1>1, <1>3, <3>1, TailFacts DEF Apart
  <2>3. \A t, u \in Threads : local'[t].b = local'[u].b /\ local'[t].b # Null => t = u
    BY <1>1, <1>6, <1>7, <2>1 DEF Apart, Moves
  <2>4. \A a \in Linked' : a \in heap' /\ tasks'[a] = 0 /\ \A t \in Threads : local'[t].b # a
    BY <1>1, <1>4, <1>5, <1>6, <1>7 DEF Apart, Moves
  <2>5. \A a \in Addresses : tasks'[a] > 0 =>
          a \in heap' /\ tasks'[a] = 1 /\ \A t \in Threads : local'[t].b # a
    BY <1>1, <1>4, <1>6, <1>7, <2>1 DEF Apart, Moves
  <2>6. \A t \in Threads : local'[t].b # Null => local'[t].b \in heap'
    BY <1>1, <1>4, <1>6, <1>7, <2>1 DEF Apart, Moves
  <2>7. \A a \in heap' : a \in Linked' \/ tasks'[a] > 0 \/ \E t \in Threads : local'[t].b = a
    <3> SUFFICES ASSUME NEW a \in heap, a \notin Linked', ~(tasks'[a] > 0)
                 PROVE  \E t \in Threads : local'[t].b = a
      BY <1>4
    <3>1. CASE a = first  BY <1>1, <1>6, <1>7, <3>1 DEF Moves
    <3>2. CASE a # first
      <4>1. PICK t \in Threads : local[t].b = a  BY <1>1, <1>4, <1>5, <3>2 DEF Apart
      <4>2. t # c  BY <1>2, <4>1, StackAssumption DEF ListAgrees, TypeOK, Null
      <4>3. QED  BY <1>7, <4>1, <4>2 DEF Moves
    <3>3. QED  BY <3>1, <3>2
  <2>8. QED  BY <2>2, <2>3, <2>4, <2>5, <2>6, <2>7 DEF Apart
<1>10. PointersAgree'
  <2>1. /\ Len(stack) \in Nat \ {0} /\ DOMAIN stack = 1..Len(stack)
        /\ \A i \in DOMAIN stack : next[stack[i]] = IF i = Len(stack) THEN Null ELSE stack[i + 1]
    BY <1>3, TailFacts DEF ListAgrees, PointersAgree
  <2>2. /\ Len(stack') = Len(stack) - 1 /\ DOMAIN stack' = 1..(Len(stack) - 1)
        /\ \A i \in 1..(Len(stack) - 1) : stack'[i] = stack[i + 1]
    BY <1>3, <1>4, TailFacts
  <2>3. first' = IF stack' = <<>> THEN Null ELSE stack'[1]
    <3>1. first' = next[stack[1]]  BY <1>2, <1>3, <1>4
    <3>2. CASE Len(stack) = 1  BY <1>5, <2>1, <2>2, <3>1, <3>2, EmptySeq
    <3>3. CASE Len(stack) > 1
      <4>1. stack' # <<>>  BY <2>2, <2>1, <3>3, EmptySeq
      <4>2. 1 \in 1..(Len(stack) - 1) /\ stack'[1] = stack[2]  BY <2>1, <2>2, <3>3
      <4>3. next[stack[1]] = stack[2]  BY <2>1, <3>3
      <4>4. QED  BY <3>1, <4>1, <4>2, <4>3
    <3>4. QED  BY <2>1, <3>2, <3>3
  <2>4. ASSUME NEW i \in DOMAIN stack'
        PROVE  next'[stack'[i]] = IF i = Len(stack') THEN Null ELSE stack'[i + 1]
    <3>1. i \in 1..(Len(stack) - 1) /\ i + 1 \in 1..Len(stack)  BY <2>1, <2>2
    <3>2. next[stack[i + 1]] = IF i + 1 = Len(stack) THEN Null ELSE stack[i + 2]  BY <2>1, <3>1
    <3>3. i # Len(stack') => i + 1 \in 1..(Len(stack) - 1)  BY <2>1, <2>2, <3>1
    <3>4. i # Len(stack') => stack'[i + 1] = stack[(i + 1) + 1]  BY <2>2, <3>3
    <3>5. QED  BY <1>4, <2>1, <2>2, <3>1, <3>2, <3>4
  <2>5. QED  BY <2>3, <2>4 DEF PointersAgree
<1>11. CallsAgree'
  <2>1. Knows(c, r, next', Linked')  BY <1>2, <1>6 DEF Knows
  <2>2. \A u \in Threads : local[u].pc = "pop" /\ local[u].f \in Linked' => next'[local[u].f] = local[u].n
    BY <1>1, <1>4, <1>5 DEF CallsAgree, Knows
  <2>3. QED  BY <1>1, <1>4, <1>7, <2>1, <2>2, OthersKnow
<1>12. QED  BY <1>8, <1>9, <1>10, <1>11 DEF ListAgrees

LEMMA PopPreserves ==
  ASSUME ListAgrees, NEW c \in Callers, Pop(c)
  PROVE  ListAgrees'
<1>1. CASE first = local[c].f  BY <1>1, Popped
<1>2. CASE first # local[c].f
  <2>1. /\ local \in [Threads -> Local] /\ c \in Threads /\ Knows(c, local[c], next, Linked) /\ first \in Pointer
    BY DEF ListAgrees, TypeOK, Threads, CallsAgree
  <2> DEFINE r == [local[c] EXCEPT !.pc = IF first = Null THEN "malloc" ELSE "read", !.f = first]
  <2>2. /\ r \in Local /\ r.b = local[c].b /\ r.f = first
        /\ r.pc = IF first = Null THEN "malloc" ELSE "read"
    BY <2>1 DEF Local
  <2>3. Moves(c, r)  BY <1>2, <2>1, <2>2 DEF Moves, Pop
  <2>4. local[c].b = Null  BY <2>1 DEF Pop, At, Knows
  <2>5. Knows(c, r, next, Linked)  BY <2>1, <2>2, <2>4, FirstIsLinked DEF Knows
  <2>6. UNCHANGED memory  BY <1>2 DEF Pop, memory
  <2> HIDE DEF r
  <2>7. QED  BY <2>1, <2>2, <2>3, <2>5, <2>6, LocalStep
<1>3. QED  BY <1>1, <1>2

-----------------------------------------------------------------------------
\* The list keeps its shape when its buffers keep their pointers.
LEMMA ListKept ==
  ASSUME ListAgrees, UNCHANGED <<first, stack>>, \A a \in Linked : next'[a] = next[a]
  PROVE  PointersAgree' /\ Linked' = Linked
<1>1. Linked' = Linked  BY DEF Linked
<1>2. \A i \in DOMAIN stack : stack[i] \in Linked  BY DEF Linked
<1>3. QED  BY <1>1, <1>2 DEF ListAgrees, PointersAgree

LEMMA TakePreserves ==
  ASSUME ListAgrees, NEW c \in Callers, Take(c)
  PROVE  ListAgrees'
<1>1. /\ local \in [Threads -> Local] /\ c \in Threads /\ Knows(c, local[c], next, Linked)
      /\ CallsAgree /\ Apart /\ tasks \in [Addresses -> Nat] /\ heap \subseteq Addresses
  BY DEF ListAgrees, TypeOK, Threads, CallsAgree
<1> DEFINE a == local[c].b
<1>2. a # Null  BY <1>1 DEF Take, At, Knows
<1>3. a \in Addresses /\ a \in heap /\ tasks[a] = 0 /\ a \notin Linked
      /\ \A t \in Threads : t # c => local[t].b # a
  BY <1>1, <1>2 DEF Apart
<1>4. tasks' = [tasks EXCEPT ![a] = @ + 1] /\ UNCHANGED <<first, next, size, heap, stack>>
  BY DEF Take
<1>5. Idle \in Local /\ Idle.b = Null /\ Idle.pc = "idle"  BY DEF Idle, Local, Pointer
<1>6. Moves(c, Idle)  BY <1>1, <1>5 DEF Moves, Take
<1> HIDE DEF a
<1>7. TypeOK'  BY <1>1, <1>3, <1>4, <1>6 DEF ListAgrees, TypeOK, Moves
<1>8. PointersAgree' /\ Linked' = Linked  BY <1>4, ListKept
<1>9. /\ tasks'[a] = 1 /\ \A x \in Addresses : x # a => tasks'[x] = tasks[x]
      /\ \A x \in Addresses, t \in Threads : local'[t].b = x => local[t].b = x /\ x # a
  BY <1>1, <1>3, <1>4, <1>5, <1>6, StackAssumption DEF Moves, Null
<1>10. Apart'
  <2>1. \A x \in Linked' : x \in heap' /\ tasks'[x] = 0 /\ \A t \in Threads : local'[t].b # x
    BY <1>1, <1>3, <1>4, <1>8, <1>9 DEF Apart
  <2>2. \A x \in Addresses : tasks'[x] > 0 =>
          x \in heap' /\ tasks'[x] = 1 /\ \A t \in Threads : local'[t].b # x
    BY <1>1, <1>3, <1>4, <1>9 DEF Apart
  <2>3. \A t, u \in Threads : local'[t].b = local'[u].b /\ local'[t].b # Null => t = u
    BY <1>1, <1>5, <1>6 DEF Apart, Moves
  <2>4. \A t \in Threads : local'[t].b # Null => local'[t].b \in heap'
    BY <1>1, <1>4, <1>5, <1>6 DEF Apart, Moves
  <2>5. \A x \in heap' : x \in Linked' \/ tasks'[x] > 0 \/ \E t \in Threads : local'[t].b = x
    BY <1>1, <1>4, <1>6, <1>8, <1>9 DEF Apart, Moves, a
  <2>6. QED  BY <1>1, <1>4, <2>1, <2>2, <2>3, <2>4, <2>5 DEF Apart
<1>11. CallsAgree'
  <2>1. Knows(c, Idle, next', Linked')  BY <1>5 DEF Knows
  <2>2. QED  BY <1>1, <1>4, <1>6, <1>8, <2>1, OthersKnow DEF CallsAgree, Knows
<1>12. QED  BY <1>7, <1>8, <1>10, <1>11 DEF ListAgrees

LEMMA FreePreserves ==
  ASSUME ListAgrees, NEW c \in Callers, Free(c)
  PROVE  ListAgrees'
<1>1. /\ local \in [Threads -> Local] /\ c \in Threads /\ Knows(c, local[c], next, Linked)
      /\ CallsAgree /\ Apart /\ heap \subseteq Addresses
  BY DEF ListAgrees, TypeOK, Threads, CallsAgree
<1> DEFINE a == local[c].b
<1>2. a # Null  BY <1>1 DEF Free, At, Knows
<1>3. a \in Addresses /\ a \in heap /\ a \notin Linked /\ ~(tasks[a] > 0)
      /\ \A t \in Threads : t # c => local[t].b # a
  BY <1>1, <1>2 DEF Apart
<1>4. heap' = heap \ {a} /\ UNCHANGED <<first, next, size, tasks, stack>>  BY DEF Free
<1> DEFINE r == [local[c] EXCEPT !.pc = "load", !.b = Null]
<1>5. r \in Local /\ r.b = Null /\ r.pc = "load"  BY <1>1 DEF Local, Pointer
<1>6. Moves(c, r)  BY <1>1, <1>5 DEF Moves, Free
<1> HIDE DEF a, r
<1>7. TypeOK'  BY <1>1, <1>4, <1>6 DEF ListAgrees, TypeOK, Moves
<1>8. PointersAgree' /\ Linked' = Linked  BY <1>4, ListKept
<1>9. \A t \in Threads : local'[t].b # Null => t # c /\ local'[t].b = local[t].b /\ local'[t].b # a
  BY <1>1, <1>3, <1>5, <1>6 DEF Moves
<1>10. Apart'
  <2>1. \A x \in Linked' : x \in heap' /\ tasks'[x] = 0 /\ \A t \in Threads : local'[t].b # x
    BY <1>1, <1>3, <1>4, <1>8, <1>9, StackAssumption DEF Apart, Null
  <2>2. \A x \in Addresses : tasks'[x] > 0 =>
          x \in heap' /\ tasks'[x] = 1 /\ \A t \in Threads : local'[t].b # x
    BY <1>1, <1>3, <1>4, <1>9, StackAssumption DEF Apart, Null
  <2>3. \A t, u \in Threads : local'[t].b = local'[u].b /\ local'[t].b # Null => t = u
    BY <1>1, <1>9 DEF Apart
  <2>4. \A t \in Threads : local'[t].b # Null => local'[t].b \in heap'
    BY <1>1, <1>4, <1>9 DEF Apart
  <2>5. \A x \in heap' : x \in Linked' \/ tasks'[x] > 0 \/ \E t \in Threads : local'[t].b = x
    BY <1>1, <1>4, <1>6, <1>8 DEF Apart, Moves, a
  <2>6. QED  BY <1>1, <1>4, <2>1, <2>2, <2>3, <2>4, <2>5 DEF Apart
<1>11. CallsAgree'
  <2>1. Knows(c, r, next', Linked')  BY <1>5 DEF Knows
  <2>2. QED  BY <1>1, <1>4, <1>6, <1>8, <2>1, OthersKnow DEF CallsAgree, Knows
<1>12. QED  BY <1>7, <1>8, <1>10, <1>11 DEF ListAgrees

LEMMA MallocPreserves ==
  ASSUME ListAgrees, NEW c \in Callers, Malloc(c)
  PROVE  ListAgrees'
<1>1. /\ local \in [Threads -> Local] /\ c \in Threads /\ Knows(c, local[c], next, Linked)
      /\ CallsAgree /\ Apart /\ tasks \in [Addresses -> Nat] /\ heap \subseteq Addresses
      /\ next \in [Addresses -> Pointer] /\ size \in [Addresses -> Sizes \union {0}]
  BY DEF ListAgrees, TypeOK, Threads, CallsAgree
<1>2. PICK a \in Addresses \ heap :
        /\ heap' = heap \union {a}
        /\ next' = [next EXCEPT ![a] = Null] /\ size' = [size EXCEPT ![a] = local[c].s]
        /\ tasks' = [tasks EXCEPT ![a] = @ + 1]
  BY DEF Malloc
<1>3. UNCHANGED <<first, stack>> /\ local[c].b = Null  BY <1>1 DEF Malloc, At, Knows
<1>4. /\ a # Null /\ a \notin Linked /\ tasks[a] = 0
      /\ \A t \in Threads : local[t].b # a
  BY <1>1, <1>2, StackAssumption DEF Apart, Null
<1>5. Idle \in Local /\ Idle.b = Null /\ Idle.pc = "idle"  BY DEF Idle, Local, Pointer
<1>6. Moves(c, Idle)  BY <1>1, <1>5 DEF Moves, Malloc
<1>7. TypeOK'
  <2>1. local[c].s \in Sizes \union {0}  BY <1>1 DEF Local
  <2>2. QED  BY <1>1, <1>2, <1>3, <1>6, <2>1 DEF ListAgrees, TypeOK, Moves, Pointer
<1>8. PointersAgree' /\ Linked' = Linked  BY <1>1, <1>2, <1>3, <1>4, ListKept DEF Apart
<1>9. /\ tasks'[a] = 1 /\ \A x \in Addresses : x # a => tasks'[x] = tasks[x]
      /\ \A t \in Threads : local'[t].b = local[t].b
  BY <1>1, <1>2, <1>3, <1>4, <1>5, <1>6 DEF Moves
<1>10. Apart'
  <2>1. \A x \in Linked' : x \in heap' /\ tasks'[x] = 0 /\ \A t \in Threads : local'[t].b # x
    BY <1>1, <1>2, <1>4, <1>8, <1>9 DEF Apart
  <2>2. \A x \in Addresses : tasks'[x] > 0 =>
          x \in heap' /\ tasks'[x] = 1 /\ \A t \in Threads : local'[t].b # x
    BY <1>1, <1>2, <1>4, <1>9 DEF Apart
  <2>3. \A t, u \in Threads : local'[t].b = local'[u].b /\ local'[t].b # Null => t = u
    BY <1>1, <1>9 DEF Apart
  <2>4. \A t \in Threads : local'[t].b # Null => local'[t].b \in heap'
    BY <1>1, <1>2, <1>9 DEF Apart
  <2>5. \A x \in heap' : x \in Linked' \/ tasks'[x] > 0 \/ \E t \in Threads : local'[t].b = x
    BY <1>1, <1>2, <1>8, <1>9 DEF Apart
  <2>6. QED  BY <1>1, <1>3, <2>1, <2>2, <2>3, <2>4, <2>5 DEF Apart
<1>11. CallsAgree'
  <2>1. Knows(c, Idle, next', Linked')  BY <1>5 DEF Knows
  <2>2. \A x \in Addresses : x # a => next'[x] = next[x]  BY <1>1, <1>2
  <2>3. \A x \in Linked : x \in Addresses  BY <1>1 DEF Apart
  <2>4. ASSUME NEW u \in Threads
        PROVE  /\ local[u].pc = "push" => next'[local[u].b] = next[local[u].b]
               /\ local[u].pc = "pop" /\ local[u].f \in Linked' => next'[local[u].f] = local[u].n
    <3>1. Knows(u, local[u], next, Linked)  BY <1>1 DEF CallsAgree
    <3>2. local[u].pc = "push" => local[u].b \in Addresses  BY <1>1, <3>1 DEF Knows, Apart
    <3>3. QED  BY <1>4, <1>8, <2>2, <2>3, <3>1, <3>2 DEF Knows
  <2>5. QED  BY <1>1, <1>6, <2>1, <2>4, OthersKnow
<1>12. QED  BY <1>7, <1>8, <1>10, <1>11 DEF ListAgrees

LEMMA DestroyPreserves ==
  ASSUME ListAgrees, NEW w \in Workers, Destroy(w)
  PROVE  ListAgrees'
<1>1. /\ local \in [Threads -> Local] /\ w \in Threads /\ Knows(w, local[w], next, Linked)
      /\ CallsAgree /\ Apart /\ tasks \in [Addresses -> Nat] /\ first \in Pointer
  BY DEF ListAgrees, TypeOK, Threads, CallsAgree
<1>2. PICK a \in Addresses :
        /\ tasks[a] > 0
        /\ tasks' = [tasks EXCEPT ![a] = @ - 1]
        /\ local' = [local EXCEPT ![w] = [Idle EXCEPT !.pc = "link", !.b = a, !.f = first]]
  BY DEF Destroy
<1>3. UNCHANGED <<first, next, size, heap, stack>>  BY DEF Destroy
<1>4. /\ a # Null /\ a \notin Linked /\ tasks[a] = 1 /\ a \in heap
      /\ \A t \in Threads : local[t].b # a
  BY <1>1, <1>2, StackAssumption DEF Apart, Null
<1> DEFINE r == [Idle EXCEPT !.pc = "link", !.b = a, !.f = first]
<1>5. r \in Local /\ r.b = a /\ r.pc = "link"  BY <1>1 DEF Idle, Local, Pointer
<1>6. Moves(w, r)  BY <1>1, <1>2, <1>5 DEF Moves
<1> HIDE DEF r
<1>7. TypeOK'  BY <1>1, <1>2, <1>3, <1>4, <1>6 DEF ListAgrees, TypeOK, Moves
<1>8. PointersAgree' /\ Linked' = Linked  BY <1>3, ListKept
<1>9. /\ tasks'[a] = 0 /\ \A x \in Addresses : x # a => tasks'[x] = tasks[x]
      /\ \A t \in Threads : local'[t].b = IF t = w THEN a ELSE local[t].b
  BY <1>1, <1>2, <1>4, <1>5, <1>6 DEF Moves
<1>10. Apart'
  <2>1. local[w].b = Null  BY <1>1 DEF Knows, Destroy, At
  <2>2. \A x \in Linked' : x \in heap' /\ tasks'[x] = 0 /\ \A t \in Threads : local'[t].b # x
    BY <1>1, <1>3, <1>4, <1>8, <1>9 DEF Apart, ListAgrees, TypeOK
  <2>3. \A x \in Addresses : tasks'[x] > 0 =>
          x \in heap' /\ tasks'[x] = 1 /\ \A t \in Threads : local'[t].b # x
    BY <1>1, <1>3, <1>4, <1>9 DEF Apart
  <2>4. \A t, u \in Threads : local'[t].b = local'[u].b /\ local'[t].b # Null => t = u
    BY <1>1, <1>4, <1>9 DEF Apart
  <2>5. \A t \in Threads : local'[t].b # Null => local'[t].b \in heap'
    BY <1>1, <1>3, <1>4, <1>9 DEF Apart
  <2>6. \A x \in heap' : x \in Linked' \/ tasks'[x] > 0 \/ \E t \in Threads : local'[t].b = x
    <3> SUFFICES ASSUME NEW x \in heap, x \notin Linked, ~(tasks'[x] > 0)
                 PROVE  \E t \in Threads : local'[t].b = x
      BY <1>3, <1>8
    <3>1. CASE x = a  BY <1>1, <1>9, <3>1
    <3>2. CASE x # a
      <4>1. x \in Addresses /\ x # Null  BY StackAssumption DEF ListAgrees, TypeOK, Null
      <4>2. PICK t \in Threads : local[t].b = x  BY <1>1, <1>9, <3>2, <4>1 DEF Apart
      <4>3. QED  BY <1>9, <2>1, <4>1, <4>2
    <3>3. QED  BY <3>1, <3>2
  <2>7. QED  BY <1>1, <1>3, <2>2, <2>3, <2>4, <2>5, <2>6 DEF Apart
<1>11. CallsAgree'
  <2>1. w \in Workers /\ Knows(w, r, next', Linked')  BY <1>4, <1>5, StackAssumption DEF Knows
  <2>2. QED  BY <1>1, <1>3, <1>6, <1>8, <2>1, OthersKnow DEF CallsAgree, Knows
<1>12. QED  BY <1>7, <1>8, <1>10, <1>11 DEF ListAgrees

LEMMA LinkPreserves ==
  ASSUME ListAgrees, NEW w \in Workers, Link(w)
  PROVE  ListAgrees'
<1>1. /\ local \in [Threads -> Local] /\ w \in Threads /\ Knows(w, local[w], next, Linked)
      /\ CallsAgree /\ Apart /\ next \in [Addresses -> Pointer] /\ heap \subseteq Addresses
  BY DEF ListAgrees, TypeOK, Threads, CallsAgree
<1> DEFINE a == local[w].b
<1>2. a # Null  BY <1>1 DEF Link, At, Knows
<1>3. a \in Addresses /\ a \notin Linked /\ \A t \in Threads : t # w => local[t].b # a
  BY <1>1, <1>2 DEF Apart
<1>4. /\ UNCHANGED <<first, size, heap, tasks, stack>> /\ next' = [next EXCEPT ![a] = local[w].f]
      /\ local[w].pc = "link"
  BY DEF Link, At
<1> DEFINE r == [local[w] EXCEPT !.pc = "push"]
<1>5. r \in Local /\ r.b = a /\ r.f = local[w].f /\ r.pc = "push"  BY <1>1 DEF Local
<1>6. Moves(w, r)  BY <1>1, <1>5 DEF Moves, Link, Goes
<1> HIDE DEF r
<1>7. TypeOK'
  <2>1. local[w].f \in Pointer  BY <1>1 DEF Local
  <2>2. QED  BY <1>1, <1>3, <1>4, <1>6, <2>1 DEF ListAgrees, TypeOK, Moves
<1>8. PointersAgree' /\ Linked' = Linked  BY <1>1, <1>3, <1>4, ListKept DEF Apart
<1>9. \A t \in Threads : local'[t].b = local[t].b  BY <1>5, <1>6 DEF Moves, a
<1>10. Apart'  BY <1>1, <1>4, <1>8, <1>9 DEF Apart
<1>11. CallsAgree'
  <2>1. Knows(w, r, next', Linked')
    <3>1. next'[a] = r.f  BY <1>1, <1>3, <1>4, <1>5
    <3>2. QED  BY <1>2, <1>5, <3>1 DEF Knows
  <2>2. ASSUME NEW u \in Threads, u # w
        PROVE  /\ local[u].pc = "push" => next'[local[u].b] = next[local[u].b]
               /\ local[u].pc = "pop" /\ local[u].f \in Linked' => next'[local[u].f] = local[u].n
    <3>1. Knows(u, local[u], next, Linked) /\ local[u].b # a  BY <1>1, <1>3, <2>2 DEF CallsAgree
    <3>2. local[u].pc = "push" => local[u].b \in Addresses  BY <1>1, <3>1 DEF Knows, Apart
    <3>3. \A x \in Addresses : x # a => next'[x] = next[x]  BY <1>1, <1>4
    <3>4. local[u].f \in Linked => local[u].f \in Addresses /\ local[u].f # a  BY <1>1, <1>3 DEF Apart
    <3>5. QED  BY <1>8, <3>1, <3>2, <3>3, <3>4 DEF Knows
  <2>3. QED  BY <1>1, <1>6, <2>1, <2>2, OthersKnow
<1>12. QED  BY <1>7, <1>8, <1>10, <1>11 DEF ListAgrees

-----------------------------------------------------------------------------
\* A buffer is put before the others.
LEMMA ConsFacts ==
  ASSUME stack \in Seq(Addresses), NEW a \in Addresses
  PROVE  /\ <<a>> \o stack \in Seq(Addresses) /\ <<a>> \o stack # <<>>
         /\ Len(stack) \in Nat /\ DOMAIN stack = 1..Len(stack)
         /\ Len(<<a>> \o stack) = Len(stack) + 1 /\ DOMAIN (<<a>> \o stack) = 1..(Len(stack) + 1)
         /\ (<<a>> \o stack)[1] = a
         /\ \A i \in 1..Len(stack) : (<<a>> \o stack)[i + 1] = stack[i]
         /\ {(<<a>> \o stack)[i] : i \in DOMAIN (<<a>> \o stack)} = Linked \union {a}
<1>1. Len(stack) \in Nat /\ DOMAIN stack = 1..Len(stack)  BY LenProperties
<1>2. <<a>> \in Seq(Addresses) /\ Len(<<a>>) = 1  OBVIOUS
<1> DEFINE new == <<a>> \o stack
<1>3. /\ new \in Seq(Addresses) /\ Len(new) = Len(stack) + 1
      /\ \A i \in 1..(1 + Len(stack)) : new[i] = IF i <= 1 THEN a ELSE stack[i - 1]
  BY <1>1, <1>2, ConcatProperties
<1>4. DOMAIN new = 1..(Len(stack) + 1)  BY <1>1, <1>3, LenProperties
<1>5. new # <<>>  BY <1>1, <1>3, EmptySeq
<1> HIDE DEF new
<1>6. new[1] = a /\ \A i \in 1..Len(stack) : i + 1 \in 1..(Len(stack) + 1) /\ new[i + 1] = stack[i]
  BY <1>1, <1>3
<1>7. {new[i] : i \in DOMAIN new} = Linked \union {a}
  <2>1. ASSUME NEW i \in 1..(Len(stack) + 1)  PROVE new[i] \in Linked \union {a}
    <3>1. CASE i = 1  BY <1>6, <3>1
    <3>2. CASE i # 1
      <4>1. i - 1 \in 1..Len(stack) /\ new[i] = stack[i - 1]  BY <1>1, <1>3, <3>2
      <4>2. QED  BY <1>1, <4>1 DEF Linked
    <3>3. QED  BY <3>1, <3>2
  <2>2. ASSUME NEW x \in Linked \union {a}  PROVE \E i \in 1..(Len(stack) + 1) : new[i] = x
    <3>1. CASE x = a  BY <1>1, <1>6, <3>1
    <3>2. CASE x \in Linked
      <4>1. PICK j \in 1..Len(stack) : stack[j] = x  BY <1>1, <3>2 DEF Linked
      <4>2. QED  BY <1>6, <4>1
    <3>3. QED  BY <3>1, <3>2
  <2>3. \A x : x \in {new[i] : i \in DOMAIN new} => x \in Linked \union {a}  BY <1>4, <2>1
  <2>4. \A x : x \in Linked \union {a} => x \in {new[i] : i \in DOMAIN new}  BY <1>4, <2>2
  <2>5. QED  BY <2>3, <2>4
<1>8. QED  BY <1>1, <1>3, <1>4, <1>5, <1>6, <1>7 DEF new

\* The exchange succeeds: the worker's buffer, which points to the first one, becomes it.
\* A caller that still wants to pop this buffer has read the pointer it has now.
LEMMA Pushed ==
  ASSUME ListAgrees, NEW w \in Workers, Push(w), first = local[w].f, ~aba'
  PROVE  ListAgrees'
<1>1. /\ local \in [Threads -> Local] /\ w \in Threads /\ Knows(w, local[w], next, Linked)
      /\ CallsAgree /\ Apart /\ heap \subseteq Addresses /\ stack \in Seq(Addresses)
  BY DEF ListAgrees, TypeOK, Threads, CallsAgree
<1> DEFINE a == local[w].b
<1>2. a # Null /\ next[a] = first  BY <1>1 DEF Push, At, Knows
<1>3. /\ a \in Addresses /\ a \in heap /\ a \notin Linked /\ ~(tasks[a] > 0)
      /\ \A t \in Threads : t # w => local[t].b # a
  BY <1>1, <1>2 DEF Apart
<1>4. first' = a /\ stack' = <<a>> \o stack /\ UNCHANGED <<next, size, heap, tasks>>
  BY DEF Push
<1>5. Idle \in Local /\ Idle.b = Null /\ Idle.pc = "idle"  BY DEF Idle, Local, Pointer
<1>6. Moves(w, Idle)  BY <1>1, <1>5 DEF Moves, Push
<1> HIDE DEF a
<1>7. Linked' = Linked \union {a}
  <2>1. Linked' = {(<<a>> \o stack)[i] : i \in DOMAIN (<<a>> \o stack)}  BY <1>4 DEF Linked
  <2>2. QED  BY <1>1, <1>3, <2>1, ConsFacts
<1>8. /\ stack' \in Seq(Addresses) /\ stack' # <<>> /\ Len(stack) \in Nat /\ DOMAIN stack = 1..Len(stack)
      /\ Len(stack') = Len(stack) + 1 /\ DOMAIN stack' = 1..(Len(stack) + 1) /\ stack'[1] = a
      /\ \A i \in 1..Len(stack) : stack'[i + 1] = stack[i]
  BY <1>1, <1>3, <1>4, ConsFacts
<1>9. Len(stack) \in Nat  BY <1>8
<1>10. stack'[1] = a  BY <1>8
<1>11. TypeOK'  BY <1>1, <1>3, <1>4, <1>6, <1>8 DEF ListAgrees, TypeOK, Moves, Pointer
<1>12. \A t \in Threads : local'[t].b # Null => t # w /\ local'[t].b = local[t].b /\ local'[t].b # a
  BY <1>1, <1>3, <1>5, <1>6 DEF Moves
<1>13. Apart'
  <2>1. \A i, j \in DOMAIN stack' : stack'[i] = stack'[j] => i = j
    <3>1. \A i \in DOMAIN stack' : i = 1 \/ \E k \in DOMAIN stack : i = k + 1 /\ stack'[i] = stack[k]
      <4> SUFFICES ASSUME NEW i \in 1..(Len(stack) + 1), i # 1
                   PROVE  \E k \in 1..Len(stack) : i = k + 1 /\ stack'[i] = stack[k]
        BY <1>8
      <4>1. i - 1 \in 1..Len(stack) /\ i = (i - 1) + 1  BY <1>8
      <4>2. stack'[(i - 1) + 1] = stack[i - 1]  BY <1>8, <4>1
      <4>3. QED  BY <4>1, <4>2
    <3>2. \A k \in DOMAIN stack : stack[k] # a  BY <1>3 DEF Linked
    <3>3. \A k, l \in DOMAIN stack : stack[k] = stack[l] => k = l  BY <1>1 DEF Apart
    <3>4. ASSUME NEW i \in DOMAIN stack', NEW j \in DOMAIN stack', stack'[i] = stack'[j]  PROVE i = j
      <4>1. CASE i = 1 \/ j = 1  BY <1>10, <3>1, <3>2, <3>4, <4>1
      <4>2. CASE i # 1 /\ j # 1
        <5>1. PICK k \in DOMAIN stack : i = k + 1 /\ stack'[i] = stack[k]  BY <3>1, <4>2
        <5>2. PICK l \in DOMAIN stack : j = l + 1 /\ stack'[j] = stack[l]  BY <3>1, <4>2
        <5>3. QED  BY <3>3, <3>4, <5>1, <5>2
      <4>3. QED  BY <4>1, <4>2
    <3>5. QED  BY <3>4
  <2>2. tasks[a] = 0  BY <1>3 DEF ListAgrees, TypeOK
  <2>3. \A x \in Linked' : x \in heap' /\ tasks'[x] = 0 /\ \A t \in Threads : local'[t].b # x
    <3> SUFFICES ASSUME NEW x \in Linked'
                 PROVE  x \in heap /\ tasks[x] = 0 /\ \A t \in Threads : local'[t].b # x
      BY <1>4
    <3>1. CASE x = a  BY <1>2, <1>3, <1>12, <2>2, <3>1
    <3>2. CASE x # a
      <4>1. x \in heap /\ tasks[x] = 0 /\ \A t \in Threads : local[t].b # x  BY <1>1, <1>7, <3>2 DEF Apart
      <4>2. x # Null  BY <1>1, <4>1, StackAssumption DEF Null
      <4>3. QED  BY <1>12, <4>1, <4>2
    <3>3. QED  BY <3>1, <3>2
  <2>4. \A x \in Addresses : tasks'[x] > 0 =>
          x \in heap' /\ tasks'[x] = 1 /\ \A t \in Threads : local'[t].b # x
    BY <1>1, <1>4, <1>12, StackAssumption DEF Apart, Null
  <2>5. \A t, u \in Threads : local'[t].b = local'[u].b /\ local'[t].b # Null => t = u
    BY <1>1, <1>12 DEF Apart
  <2>6. \A t \in Threads : local'[t].b # Null => local'[t].b \in heap'
    BY <1>1, <1>4, <1>12 DEF Apart
  <2>7. \A x \in heap' : x \in Linked' \/ tasks'[x] > 0 \/ \E t \in Threads : local'[t].b = x
    BY <1>1, <1>4, <1>6, <1>7 DEF Apart, Moves, a
  <2>8. QED  BY <2>1, <2>3, <2>4, <2>5, <2>6, <2>7 DEF Apart
<1>14. PointersAgree'
  <2>1. first = (IF stack = <<>> THEN Null ELSE stack[1])
        /\ \A i \in DOMAIN stack : next[stack[i]] = IF i = Len(stack) THEN Null ELSE stack[i + 1]
    BY DEF ListAgrees, PointersAgree
  <2>2. ASSUME NEW i \in DOMAIN stack'
        PROVE  next'[stack'[i]] = IF i = Len(stack') THEN Null ELSE stack'[i + 1]
    <3>1. CASE i = 1
      <4>1. CASE stack = <<>>
        <5>1. Len(stack) = 0  BY <4>1
        <5>2. QED  BY <1>2, <1>4, <1>8, <2>1, <3>1, <4>1, <5>1
      <4>2. CASE stack # <<>>
        <5>1. Len(stack) # 0  BY <1>1, <4>2, EmptySeq
        <5>2. 1 \in 1..Len(stack) /\ i # Len(stack')  BY <1>8, <3>1, <5>1
        <5>3. stack'[1 + 1] = stack[1]  BY <1>8, <5>2
        <5>4. QED  BY <1>2, <1>4, <1>8, <2>1, <3>1, <4>2, <5>2, <5>3
      <4>3. QED  BY <4>1, <4>2
    <3>2. CASE i # 1
      <4>0. i \in 1..(Len(stack) + 1)  BY <1>8
      <4>1. PICK j \in 1..Len(stack) : i = j + 1
        <5>1. i - 1 \in 1..Len(stack) /\ i = (i - 1) + 1  BY <1>8, <3>2, <4>0
        <5>2. QED  BY <5>1
      <4>2. stack'[i] = stack[j] /\ (i = Len(stack') <=> j = Len(stack))
        <5>1. stack'[j + 1] = stack[j]  BY <1>8
        <5>2. j + 1 = Len(stack) + 1 <=> j = Len(stack)  BY <1>9
        <5>3. QED  BY <1>8, <4>1, <5>1, <5>2
      <4>3. j # Len(stack) => j + 1 \in 1..Len(stack) /\ stack'[i + 1] = stack[j + 1]
        <5>1. SUFFICES ASSUME j # Len(stack)  PROVE j + 1 \in 1..Len(stack) /\ stack'[i + 1] = stack[j + 1]
          OBVIOUS
        <5>2. j + 1 \in 1..Len(stack)  BY <1>9, <5>1
        <5>3. stack'[(j + 1) + 1] = stack[j + 1]  BY <1>8, <5>2
        <5>4. QED  BY <4>1, <5>2, <5>3
      <4>4. QED  BY <1>4, <1>8, <2>1, <4>1, <4>2, <4>3
    <3>3. QED  BY <3>1, <3>2
  <2>3. QED  BY <1>4, <1>8, <2>2 DEF PointersAgree
<1>15. CallsAgree'
  <2>1. Knows(w, Idle, next', Linked')  BY <1>5 DEF Knows
  <2>2. ~ComesBack(a)  BY DEF Push, a
  <2>3. ASSUME NEW u \in Threads, local[u].pc = "pop", local[u].f \in Linked'
        PROVE  next'[local[u].f] = local[u].n
    <3>1. Knows(u, local[u], next, Linked)  BY <1>1 DEF CallsAgree
    <3>2. u \in Callers  BY <2>3, <3>1 DEF Knows
    <3>3. CASE local[u].f = a  BY <1>4, <2>2, <2>3, <3>2, <3>3 DEF ComesBack, At
    <3>4. CASE local[u].f # a  BY <1>4, <1>7, <2>3, <3>1, <3>4 DEF Knows
    <3>5. QED  BY <3>3, <3>4
  <2>4. QED  BY <1>1, <1>4, <1>6, <2>1, <2>3, OthersKnow
<1>16. QED  BY <1>11, <1>13, <1>14, <1>15 DEF ListAgrees

LEMMA PushPreserves ==
  ASSUME ListAgrees, NEW w \in Workers, Push(w), ~aba'
  PROVE  ListAgrees'
<1>1. CASE first = local[w].f  BY <1>1, Pushed
<1>2. CASE first # local[w].f
  <2>1. /\ local \in [Threads -> Local] /\ w \in Threads /\ Knows(w, local[w], next, Linked) /\ first \in Pointer
    BY DEF ListAgrees, TypeOK, Threads, CallsAgree
  <2> DEFINE r == [local[w] EXCEPT !.pc = "link", !.f = first]
  <2>2. r \in Local /\ r.b = local[w].b /\ r.pc = "link"  BY <2>1 DEF Local
  <2>3. Moves(w, r)  BY <1>2, <2>1, <2>2 DEF Moves, Push
  <2>4. local[w].b # Null  BY <2>1 DEF Push, At, Knows
  <2>5. Knows(w, r, next, Linked)  BY <2>1, <2>2, <2>4 DEF Knows
  <2>6. UNCHANGED memory  BY <1>2 DEF Push, memory
  <2> HIDE DEF r
  <2>7. QED  BY <2>1, <2>2, <2>3, <2>5, <2>6, LocalStep
<1>3. QED  BY <1>1, <1>2

-----------------------------------------------------------------------------
LEMMA InitIsInductive == Init => ListAgrees
<1> SUFFICES ASSUME Init  PROVE ListAgrees
  OBVIOUS
<1>1. TypeOK
  <2>1. Idle \in Local  BY DEF Idle, Local, Pointer
  <2>2. QED  BY <2>1 DEF Init, TypeOK, Pointer
<1>2. Linked = {}  BY DEF Init, Linked
<1>3. Apart  BY <1>2 DEF Init, Apart, Idle
<1>4. PointersAgree  BY DEF Init, PointersAgree
<1>5. CallsAgree  BY DEF Init, CallsAgree, Knows, Idle
<1>6. QED  BY <1>1, <1>3, <1>4, <1>5 DEF ListAgrees

\* What has come back stays recorded.
LEMMA ABAStays ==
  ASSUME aba, [Next]_vars
  PROVE  aba'
<1>1. ASSUME NEW c \in Callers, Allocate(c) \/ AllocateStep(c)  PROVE aba' = aba
  BY <1>1 DEF Allocate, AllocateStep, LoadFirst, ReadNext, Pop, Take, Free, Malloc, memory
<1>2. ASSUME NEW w \in Workers, Destroy(w) \/ Link(w)  PROVE aba' = aba
  BY <1>2 DEF Destroy, Link
<1>3. ASSUME NEW w \in Workers, Push(w)  PROVE aba'
  BY <1>3 DEF Push
<1>4. UNCHANGED vars => aba' = aba  BY DEF vars
<1>5. QED  BY <1>1, <1>2, <1>3, <1>4 DEF Next, DeallocateStep

LEMMA ListIsInductive ==
  ASSUME ListAgrees, [Next]_vars, ~aba'
  PROVE  ListAgrees'
<1>1. CASE Next
  <2>1. ASSUME NEW c \in Callers, Allocate(c) \/ AllocateStep(c)  PROVE ListAgrees'
    BY <2>1, AllocatePreserves, LoadFirstPreserves, ReadNextPreserves, PopPreserves, TakePreserves,
       FreePreserves, MallocPreserves DEF AllocateStep
  <2>2. ASSUME NEW w \in Workers, Destroy(w) \/ DeallocateStep(w)  PROVE ListAgrees'
    BY <2>2, DestroyPreserves, LinkPreserves, PushPreserves DEF DeallocateStep
  <2>3. QED  BY <1>1, <2>1, <2>2 DEF Next
<1>2. CASE UNCHANGED vars
  <2>1. Linked' = Linked  BY <1>2 DEF Linked, vars
  <2>2. QED  BY <1>2, <2>1 DEF vars, ListAgrees, TypeOK, Apart, PointersAgree, CallsAgree
<1>3. QED  BY <1>1, <1>2

LEMMA SpecImpliesIInv == Spec => []IInv
<1>1. Init => IInv  BY InitIsInductive DEF IInv
<1>2. IInv /\ [Next]_vars => IInv'  BY ABAStays, ListIsInductive DEF IInv
<1>3. QED  BY <1>1, <1>2, PTL DEF Spec

\* Buffers that are in one place are in one of Places.
LEMMA ApartMeansOneOwner == ListAgrees => OneOwner
<1> SUFFICES ASSUME ListAgrees, NEW a \in Addresses
             PROVE  IF a \in heap THEN \E p \in Places(a) : Places(a) = {p} ELSE Places(a) = {}
  BY DEF OneOwner
<1>1. Apart /\ tasks[a] \in Nat /\ a # Null  BY StackAssumption DEF ListAgrees, TypeOK, Null
<1>2. a \in Linked <=> \E i \in DOMAIN stack : stack[i] = a  BY DEF Linked
<1>3. CASE a \in Linked
  <2>1. PICK i \in DOMAIN stack : stack[i] = a  BY <1>2, <1>3
  <2>2. {j \in DOMAIN stack : stack[j] = a} = {i}  BY <1>1, <2>1 DEF Apart
  <2>3. tasks[a] = 0 /\ {t \in Threads : local[t].b = a} = {} /\ a \in heap  BY <1>1, <1>3 DEF Apart
  <2>4. Places(a) = {<<"list", i>>}  BY <2>2, <2>3 DEF Places
  <2>5. QED  BY <2>3, <2>4
<1>4. CASE tasks[a] > 0
  <2>1. tasks[a] = 1 /\ {t \in Threads : local[t].b = a} = {} /\ a \in heap  BY <1>1, <1>4 DEF Apart
  <2>2. {j \in DOMAIN stack : stack[j] = a} = {}  BY <1>1, <1>2, <2>1 DEF Apart
  <2>3. 1..tasks[a] = {1}  BY <2>1
  <2>4. Places(a) = {<<"task", 1>>}  BY <2>1, <2>2, <2>3 DEF Places
  <2>5. QED  BY <2>1, <2>4
<1>5. CASE a \notin Linked /\ ~(tasks[a] > 0)
  <2>1. {j \in DOMAIN stack : stack[j] = a} = {} /\ 1..tasks[a] = {}  BY <1>1, <1>2, <1>5
  <2>2. Places(a) = {<<"thread", t>> : t \in {t \in Threads : local[t].b = a}}  BY <2>1 DEF Places
  <2>3. CASE a \in heap
    <3>1. PICK t \in Threads : local[t].b = a  BY <1>1, <1>5, <2>3 DEF Apart
    <3>2. {u \in Threads : local[u].b = a} = {t}  BY <1>1, <3>1 DEF Apart
    <3>3. Places(a) = {<<"thread", t>>}  BY <2>2, <3>2
    <3>4. QED  BY <2>3, <3>3
  <2>4. CASE a \notin heap
    <3>1. {u \in Threads : local[u].b = a} = {}  BY <1>1, <2>4 DEF Apart
    <3>2. QED  BY <2>2, <2>4, <3>1
  <2>5. QED  BY <2>3, <2>4
<1>6. QED  BY <1>3, <1>4, <1>5

-----------------------------------------------------------------------------
\* However many callers and workers there are, first and the next pointers make up the
\* list of the buffers that were given back and not taken since, as long as no buffer has
\* come back under a pop (tiny_pool.h:64-71, 92-101).
THEOREM StackPointersAgree == Spec => []PointersAgreeUntilABA
<1>1. IInv => PointersAgreeUntilABA  BY DEF IInv, ListAgrees, PointersAgreeUntilABA
<1>2. QED  BY <1>1, SpecImpliesIInv, PTL

\* So long a buffer is also in the list, a task, or with one thread: the memory of a task
\* is given out or freed under it only after an ABA (tiny_pool.h:73-90).
THEOREM StackOneOwner == Spec => []OneOwnerUntilABA
<1>1. IInv => OneOwnerUntilABA  BY ApartMeansOneOwner DEF IInv, OneOwnerUntilABA
<1>2. QED  BY <1>1, SpecImpliesIInv, PTL
===============================================================================

---------------------------- MODULE TinyPoolProofs ----------------------------
(***************************************************************************)
(* Theorems about the thread pool for every set of workers, callers and    *)
(* tasks.  The inductive invariant is IInv: the safety of wait rests on    *)
(* `processing` never undercounting the busy workers and on every task     *)
(* having one place.                                                       *)
(***************************************************************************)
EXTENDS TinyPool, FiniteSetTheorems, TLAPS

\* The inductive invariant behind NoTaskOutlivesItsCall.
IInv ==
  /\ TypeOK
  /\ TaskHasOnePlace
  /\ ProcessingCountsBusy
  /\ NoTaskOutlivesItsCall

-----------------------------------------------------------------------------
\* The counting set of the workers is finite and its size is a natural number.
LEMMA BusyFinite ==
  /\ IsFiniteSet(Busy)
  /\ Cardinality(Busy) \in Nat
<1>1. IsFiniteSet(Workers)  BY PoolAssumption
<1>2. Busy \subseteq Workers  BY DEF Busy
<1>3. IsFiniteSet(Busy)  BY <1>1, <1>2, FS_Subset
<1>4. QED  BY <1>3, FS_CardinalityType

\* One worker leaves the counting set: the count drops by one.
LEMMA OneLess ==
  ASSUME NEW S, IsFiniteSet(S), NEW x \in S
  PROVE  /\ Cardinality(S \ {x}) = Cardinality(S) - 1
         /\ Cardinality(S) \in Nat
         /\ Cardinality(S) >= 1
<1>1. Cardinality(S) \in Nat  BY FS_CardinalityType
<1>2. Cardinality(S \ {x}) = Cardinality(S) - 1  BY FS_RemoveElement
<1>3. Cardinality(S) # 0  BY FS_EmptySet
<1>4. QED  BY <1>1, <1>2, <1>3

\* A queue without repetition keeps its members and loses its head by Tail.
LEMMA TailFacts ==
  ASSUME NEW S, NEW q \in Seq(S), q # <<>>
  PROVE  /\ Head(q) \in S
         /\ Head(q) = q[1]
         /\ 1 \in DOMAIN q
         /\ Tail(q) \in Seq(S)
         /\ \A i \in DOMAIN Tail(q) : i + 1 \in DOMAIN q /\ Tail(q)[i] = q[i + 1]
         /\ \A i \in DOMAIN q : i # 1 => i - 1 \in DOMAIN Tail(q) /\ Tail(q)[i - 1] = q[i]
         /\ \A i \in DOMAIN q : i \in Nat
         /\ \A i \in DOMAIN Tail(q) : i \in Nat /\ i >= 1
  OBVIOUS

\* Append adds one position, the last, and leaves the others alone.
LEMMA AppendFacts ==
  ASSUME NEW S, NEW q \in Seq(S), NEW x \in S
  PROVE  /\ Append(q, x) \in Seq(S)
         /\ \A i \in DOMAIN q : i \in DOMAIN Append(q, x) /\ Append(q, x)[i] = q[i]
         /\ Len(q) + 1 \in DOMAIN Append(q, x)
         /\ Append(q, x)[Len(q) + 1] = x
         /\ \A i \in DOMAIN Append(q, x) : i \in DOMAIN q \/ i = Len(q) + 1
  OBVIOUS

-----------------------------------------------------------------------------
\* The constructor establishes the invariant: with threads, all of them count
\* as busy; with none, the counter is 1 and the counting set is empty.
LEMMA InitIInv == Init => IInv
<1> SUFFICES ASSUME Init PROVE IInv  OBVIOUS
<1>1. Cardinality(Workers) \in Nat
  BY FS_CardinalityType, PoolAssumption
<1>2. TypeOK
  <2>1. processing \in Nat  BY <1>1 DEF Init
  <2>2. list \in Seq(Tasks)  BY DEF Init
  <2>3. QED  BY <2>1, <2>2 DEF Init, TypeOK, WorkerState, CallerState, JobState
<1>3. TaskHasOnePlace
  BY DEF Init, TaskHasOnePlace
<1>4. ProcessingCountsBusy
  <2>1. Busy = Workers  BY DEF Init, Busy
  <2>2. CASE Workers = {}  BY <2>1, <2>2, FS_EmptySet DEF Init, ProcessingCountsBusy
  <2>3. CASE Workers # {}  BY <1>1, <2>1, <2>3 DEF Init, ProcessingCountsBusy
  <2>4. QED  BY <2>2, <2>3
<1>5. NoTaskOutlivesItsCall
  BY DEF Init, NoTaskOutlivesItsCall
<1>6. QED  BY <1>2, <1>3, <1>4, <1>5 DEF IInv

\* A drained pool runs nothing: every task of a caller has been applied.
LEMMA DrainedMeansDone ==
  ASSUME IInv, Drained
  PROVE  \A t \in Tasks : job[t] \in {"free", "done"}
<1>1. Cardinality(Busy) \in Nat /\ IsFiniteSet(Busy)  BY BusyFinite
<1>2. processing = 0 /\ list = <<>>  BY DEF Drained
<1>3. Cardinality(Busy) = 0  BY <1>1, <1>2 DEF IInv, ProcessingCountsBusy
<1>4. Busy = {}  BY <1>1, <1>3, FS_EmptySet
<1>5. \A w \in Workers : worker[w] # "apply"  BY <1>4 DEF Busy
<1>6. QED  BY <1>2, <1>5 DEF IInv, TypeOK, TaskHasOnePlace, JobState

-----------------------------------------------------------------------------
\* The part of a critical section that TakeOrSleep models preserves the four
\* conjuncts, given that `busy` counts the other busy workers.  The caller's
\* variables do not matter to it beyond what NoTaskOutlivesItsCall says.
LEMMA TakeOrSleepSafe ==
  ASSUME IInv,
         NEW w \in Workers, worker[w] \in {"enter", "woken"},
         NEW busy \in Nat,
         busy >= Cardinality(Busy \ {w}),
         ~finish => busy = Cardinality(Busy \ {w}),
         TakeOrSleep(w, busy),
         waiting' = waiting, finish' = finish, owner' = owner,
         caller' \in [Callers -> CallerState],
         \A c \in Callers : caller'[c] = "idle" <=> caller[c] = "idle"
  PROVE  IInv'
<1> DEFINE t == Head(list)
<1>0. /\ list \in Seq(Tasks)  /\ worker \in [Workers -> WorkerState]
      /\ current \in [Workers -> Tasks \union {NoOne}]  /\ job \in [Tasks -> JobState]
      /\ processing \in Nat  /\ waiting \in BOOLEAN  /\ finish \in BOOLEAN
      /\ owner \in [Tasks -> Callers \union {NoOne}]
  BY DEF IInv, TypeOK
<1>1. IsFiniteSet(Busy) /\ IsFiniteSet(Busy \ {w}) /\ Cardinality(Busy \ {w}) \in Nat
  BY BusyFinite, FS_Subset, FS_CardinalityType
<1>2. CASE worker' = [worker EXCEPT ![w] = "exited"] /\ finish /\ processing' = busy
           /\ UNCHANGED <<list, current, job>>
  <2>1. TypeOK'
    BY <1>0, <1>2 DEF TypeOK, WorkerState
  <2>2. TaskHasOnePlace'
    BY <1>0, <1>2 DEF IInv, TaskHasOnePlace
  <2>3. ProcessingCountsBusy'
    <3>1. Busy' = Busy \ {w}  BY <1>0, <1>2 DEF Busy
    <3>2. QED  BY <1>2, <3>1 DEF ProcessingCountsBusy
  <2>4. NoTaskOutlivesItsCall'
    BY <1>0, <1>2 DEF IInv, NoTaskOutlivesItsCall
  <2>5. QED  BY <2>1, <2>2, <2>3, <2>4 DEF IInv
<1>3. CASE /\ ~finish /\ list # <<>> /\ processing' = busy + 1 /\ list' = Tail(list)
           /\ worker' = [worker EXCEPT ![w] = "apply"]
           /\ current' = [current EXCEPT ![w] = t]
           /\ job' = [job EXCEPT ![t] = "running"]
  <2>0. /\ t \in Tasks  /\ t = list[1]  /\ 1 \in DOMAIN list
        /\ list' \in Seq(Tasks)
        /\ \A i \in DOMAIN list' : i + 1 \in DOMAIN list /\ list'[i] = list[i + 1]
        /\ \A i \in DOMAIN list : i # 1 => i - 1 \in DOMAIN list' /\ list'[i - 1] = list[i]
        /\ \A i \in DOMAIN list' : i \in Nat /\ i >= 1
    BY <1>0, <1>3, TailFacts
  <2>1. TypeOK'
    BY <1>0, <1>3, <2>0 DEF TypeOK, WorkerState, JobState
  <2>2. /\ job[t] = "queued"
        /\ \A i \in DOMAIN list' : list'[i] # t
        /\ \A v \in Workers : worker[v] = "apply" => current[v] # t
    BY <2>0 DEF IInv, TaskHasOnePlace
  <2>3. TaskHasOnePlace'
    <3>1. ASSUME NEW v \in Workers, worker'[v] = "apply"
          PROVE  /\ current'[v] \in Tasks
                 /\ job'[current'[v]] = "running"
                 /\ \A u \in Workers \ {v} : worker'[u] = "apply" => current'[u] # current'[v]
      BY <1>0, <1>3, <2>0, <2>2, <3>1 DEF IInv, TaskHasOnePlace
    <3>2. \A i \in DOMAIN list' : list'[i] \in Tasks
      BY <2>0, <1>0
    <3>3. \A i \in DOMAIN list' : job'[list'[i]] = "queued"
      BY <1>0, <1>3, <2>0, <2>2, <3>2 DEF IInv, TaskHasOnePlace
    <3>4. \A i, j \in DOMAIN list' : list'[i] = list'[j] => i = j
      BY <2>0 DEF IInv, TaskHasOnePlace
    <3>5. \A s \in Tasks : job'[s] = "queued" => \E i \in DOMAIN list' : list'[i] = s
      <4> SUFFICES ASSUME NEW s \in Tasks, job'[s] = "queued"
                   PROVE  \E i \in DOMAIN list' : list'[i] = s
        OBVIOUS
      <4>1. job[s] = "queued" /\ s # t  BY <1>0, <1>3, <2>0
      <4>2. PICK i \in DOMAIN list : list[i] = s  BY <4>1 DEF IInv, TaskHasOnePlace
      <4>3. i # 1  BY <4>1, <4>2, <2>0
      <4>4. QED  BY <4>2, <4>3, <2>0
    <3>6. \A s \in Tasks : job'[s] = "running" => \E v \in Workers : worker'[v] = "apply" /\ current'[v] = s
      BY <1>0, <1>3, <2>0, <2>2 DEF IInv, TaskHasOnePlace, WorkerState
    <3>7. QED  BY <3>1, <3>3, <3>4, <3>5, <3>6 DEF TaskHasOnePlace
  <2>4. ProcessingCountsBusy'
    <3>1. Busy' = (Busy \ {w}) \union {w}  BY <1>0, <1>3 DEF Busy
    <3>2. Cardinality(Busy') = Cardinality(Busy \ {w}) + 1  BY <1>1, <3>1, FS_AddElement
    <3>3. QED  BY <1>1, <1>3, <3>2 DEF ProcessingCountsBusy
  <2>5. NoTaskOutlivesItsCall'
    BY <1>0, <1>3, <2>0, <2>2 DEF IInv, NoTaskOutlivesItsCall
  <2>6. QED  BY <2>1, <2>3, <2>4, <2>5 DEF IInv
<1>4. CASE worker' = [worker EXCEPT ![w] = "asleep"] /\ ~finish /\ processing' = busy
           /\ UNCHANGED <<list, current, job>>
  <2>1. TypeOK'
    BY <1>0, <1>4 DEF TypeOK, WorkerState
  <2>2. TaskHasOnePlace'
    BY <1>0, <1>4 DEF IInv, TaskHasOnePlace
  <2>3. ProcessingCountsBusy'
    <3>1. Busy' = Busy \ {w}  BY <1>0, <1>4 DEF Busy
    <3>2. QED  BY <1>1, <1>4, <3>1 DEF ProcessingCountsBusy
  <2>4. NoTaskOutlivesItsCall'
    BY <1>0, <1>4 DEF IInv, NoTaskOutlivesItsCall
  <2>5. QED  BY <2>1, <2>2, <2>3, <2>4 DEF IInv
<1>5. QED  BY <1>2, <1>3, <1>4 DEF TakeOrSleep

\* A worker moves while the queue and the callers stay as they are.
LEMMA WorkerSafe ==
  ASSUME IInv, NEW w \in Workers, WorkerStep(w)
  PROVE  IInv'
<1>0. TypeOK /\ worker \in [Workers -> WorkerState] /\ processing \in Nat
      /\ caller \in [Callers -> CallerState]
  BY DEF IInv, TypeOK
<1>1. CASE LoopTest(w)
  <2>1. TypeOK'  BY <1>0, <1>1 DEF LoopTest, TypeOK, WorkerState, poolVars
  <2>2. TaskHasOnePlace'
    BY <1>0, <1>1 DEF LoopTest, IInv, TaskHasOnePlace, poolVars
  <2>3. ProcessingCountsBusy'
    <3>1. CASE finish
      <4>1. Busy' = Busy \ {w} /\ w \in Busy  BY <1>0, <1>1, <3>1 DEF Busy, LoopTest
      <4>2. Cardinality(Busy') = Cardinality(Busy) - 1 /\ Cardinality(Busy) \in Nat
        BY <4>1, BusyFinite, OneLess
      <4>3. QED
        BY <1>0, <1>1, <3>1, <4>2 DEF ProcessingCountsBusy, LoopTest, poolVars, IInv
    <3>2. CASE ~finish
      <4>1. Busy' = Busy  BY <1>0, <1>1, <3>2 DEF Busy, LoopTest
      <4>2. QED  BY <1>1, <4>1 DEF ProcessingCountsBusy, LoopTest, poolVars, IInv
    <3>3. QED  BY <3>1, <3>2
  <2>4. NoTaskOutlivesItsCall'
    BY <1>1 DEF LoopTest, IInv, NoTaskOutlivesItsCall, poolVars
  <2>5. QED  BY <2>1, <2>2, <2>3, <2>4 DEF IInv
<1>2. CASE Reenter(w)
  <2>1. w \in Busy /\ worker[w] = "enter"  BY <1>2 DEF Reenter, Busy
  <2>2. /\ Cardinality(Busy \ {w}) = Cardinality(Busy) - 1
        /\ Cardinality(Busy) \in Nat  /\ Cardinality(Busy) >= 1
    BY <2>1, BusyFinite, OneLess
  <2>3. /\ processing - 1 \in Nat
        /\ processing - 1 >= Cardinality(Busy \ {w})
        /\ ~finish => processing - 1 = Cardinality(Busy \ {w})
    BY <1>0, <2>2 DEF IInv, ProcessingCountsBusy
  <2>4. caller' \in [Callers -> CallerState] /\ \A c \in Callers : caller'[c] = "idle" <=> caller[c] = "idle"
    BY <1>0, <1>2 DEF Reenter, WakeAllCallers, CallerState
  <2>5. TakeOrSleep(w, processing - 1) /\ waiting' = waiting /\ finish' = finish /\ owner' = owner
    BY <1>2 DEF Reenter
  <2>6. QED  BY <2>1, <2>3, <2>4, <2>5, TakeOrSleepSafe
<1>3. CASE Resume(w)
  <2>1. worker[w] = "woken" /\ Busy \ {w} = Busy  BY <1>3 DEF Resume, Busy
  <2>2. /\ processing >= Cardinality(Busy \ {w})
        /\ ~finish => processing = Cardinality(Busy \ {w})
    BY <2>1 DEF IInv, ProcessingCountsBusy
  <2>3. QED  BY <1>0, <1>3, <2>1, <2>2, TakeOrSleepSafe DEF Resume
<1>4. CASE Apply(w)
  <2>0. /\ current[w] \in Tasks  /\ job[current[w]] = "running"
    BY <1>4 DEF Apply, IInv, TaskHasOnePlace
  <2>1. TypeOK'
    BY <1>0, <1>4 DEF Apply, TypeOK, WorkerState, JobState, poolVars
  <2>2. TaskHasOnePlace'
    <3>1. \A v \in Workers :
            worker'[v] = "apply" =>
              /\ current'[v] \in Tasks
              /\ job'[current'[v]] = "running"
              /\ \A u \in Workers \ {v} : worker'[u] = "apply" => current'[u] # current'[v]
      BY <1>0, <1>4, <2>0 DEF Apply, IInv, TypeOK, TaskHasOnePlace
    <3>2. \A i \in DOMAIN list : list[i] # current[w]
      BY <2>0 DEF IInv, TaskHasOnePlace
    <3>3. \A i \in DOMAIN list : list[i] \in Tasks
      BY DEF IInv, TypeOK
    <3>4. \A i \in DOMAIN list' : job'[list'[i]] = "queued"
      BY <1>4, <3>2, <3>3, <2>0 DEF Apply, IInv, TypeOK, TaskHasOnePlace, poolVars
    <3>5. \A s \in Tasks : job'[s] = "queued" => \E i \in DOMAIN list' : list'[i] = s
      BY <1>4, <2>0 DEF Apply, IInv, TypeOK, TaskHasOnePlace, poolVars
    <3>6. \A s \in Tasks : job'[s] = "running" => \E v \in Workers : worker'[v] = "apply" /\ current'[v] = s
      BY <1>4, <2>0 DEF Apply, IInv, TypeOK, TaskHasOnePlace, poolVars
    <3>7. \A i, j \in DOMAIN list' : list'[i] = list'[j] => i = j
      BY <1>4 DEF Apply, IInv, TaskHasOnePlace, poolVars
    <3>8. QED  BY <3>1, <3>4, <3>5, <3>6, <3>7 DEF TaskHasOnePlace
  <2>3. ProcessingCountsBusy'
    <3>1. Busy' = Busy  BY <1>0, <1>4 DEF Busy, Apply
    <3>2. QED  BY <1>4, <3>1 DEF ProcessingCountsBusy, Apply, poolVars, IInv
  <2>4. NoTaskOutlivesItsCall'
    BY <1>4, <2>0 DEF Apply, IInv, TypeOK, NoTaskOutlivesItsCall, poolVars
  <2>5. QED  BY <2>1, <2>2, <2>3, <2>4 DEF IInv
<1>5. QED  BY <1>1, <1>2, <1>3, <1>4 DEF WorkerStep

-----------------------------------------------------------------------------
\* A caller that returns from wait leaves nothing behind: the other calls keep
\* their tasks and the slots of this one become free.
LEMMA ReturnSafe ==
  ASSUME IInv, NEW c \in Callers, Drained, Return(c),
         UNCHANGED <<list, processing, finish, worker, current>>
  PROVE  IInv'
<1>0. /\ TypeOK /\ caller \in [Callers -> CallerState] /\ list = <<>>
      /\ \A t \in Tasks : job[t] \in {"free", "done"}
  BY DrainedMeansDone DEF IInv, TypeOK, Drained
<1>1. TypeOK'
  BY <1>0 DEF Return, TypeOK, CallerState, JobState
<1>2. \A t \in Tasks : job'[t] \in {"free", "done"}
  BY <1>0 DEF Return
<1>3. \A w \in Workers : worker[w] # "apply"
  BY <1>0 DEF IInv, TypeOK, TaskHasOnePlace
<1>4. TaskHasOnePlace'
  BY <1>0, <1>2, <1>3 DEF TaskHasOnePlace
<1>5. ProcessingCountsBusy'
  BY DEF IInv, ProcessingCountsBusy, Busy
<1>6. NoTaskOutlivesItsCall'
  <2> SUFFICES ASSUME NEW t \in Tasks, job'[t] # "free"
               PROVE  owner'[t] \in Callers /\ caller'[owner'[t]] # "idle"
    BY DEF NoTaskOutlivesItsCall
  <2>1. job[t] = "done" /\ owner[t] # c /\ owner'[t] = owner[t]
    BY <1>0 DEF Return
  <2>2. owner[t] \in Callers /\ caller[owner[t]] # "idle"
    BY <2>1 DEF IInv, NoTaskOutlivesItsCall
  <2>3. caller'[owner[t]] = caller[owner[t]]
    BY <1>0, <2>1, <2>2 DEF Return
  <2>4. QED  BY <2>1, <2>2, <2>3
<1>7. QED  BY <1>1, <1>4, <1>5, <1>6 DEF IInv

\* A step that only moves callers between states other than idle, and workers
\* from asleep to woken, preserves the invariant.
LEMMA SignalSafe ==
  ASSUME IInv,
         list' = list, processing' = processing, current' = current,
         job' = job, owner' = owner,
         waiting' \in BOOLEAN, finish' = finish \/ finish' = TRUE,
         caller' \in [Callers -> CallerState],
         \A c \in Callers : caller'[c] = "idle" => caller[c] = "idle",
         worker' \in [Workers -> WorkerState],
         \A w \in Workers : \/ worker'[w] = worker[w]
                            \/ worker[w] = "asleep" /\ worker'[w] = "woken"
  PROVE  IInv'
<1>1. TypeOK'
  <2>1. finish' \in BOOLEAN  BY DEF IInv, TypeOK
  <2>2. QED  BY <2>1 DEF IInv, TypeOK
<1>2. \A w \in Workers : worker'[w] = "apply" <=> worker[w] = "apply"
  OBVIOUS
<1>3. TaskHasOnePlace'
  BY <1>2 DEF IInv, TaskHasOnePlace
<1>4. ProcessingCountsBusy'
  <2>1. Busy' = Busy  BY DEF Busy
  <2>2. QED  BY <2>1 DEF IInv, ProcessingCountsBusy
<1>5. NoTaskOutlivesItsCall'
  BY DEF IInv, NoTaskOutlivesItsCall
<1>6. QED  BY <1>1, <1>3, <1>4, <1>5 DEF IInv

\* The steps of a caller after a push.
LEMMA CallerSafe ==
  ASSUME IInv, NEW c \in Callers, CallerStep(c)
  PROVE  IInv'
<1>0. /\ TypeOK /\ caller \in [Callers -> CallerState] /\ worker \in [Workers -> WorkerState]
      /\ waiting \in BOOLEAN /\ finish \in BOOLEAN
  BY DEF IInv, TypeOK
<1>1. CASE NotifyOne(c)
  <2>1. caller' \in [Callers -> CallerState]
        /\ \A d \in Callers : caller'[d] = "idle" => caller[d] = "idle"
    BY <1>0, <1>1 DEF NotifyOne, CallerState
  <2>2. worker' \in [Workers -> WorkerState]
        /\ \A w \in Workers : \/ worker'[w] = worker[w]
                              \/ worker[w] = "asleep" /\ worker'[w] = "woken"
    BY <1>0, <1>1 DEF NotifyOne, WorkerState
  <2>3. list' = list /\ processing' = processing /\ current' = current /\ job' = job /\ owner' = owner
    BY <1>1 DEF NotifyOne, poolVars
  <2>4. waiting' \in BOOLEAN /\ (finish' = finish \/ finish' = TRUE)
    BY <1>0, <1>1 DEF NotifyOne, poolVars
  <2>5. QED  BY <2>1, <2>2, <2>3, <2>4, SignalSafe
<1>2. CASE Wait(c)
  <2>1. CASE Drained
    <3>1. Return(c) /\ UNCHANGED <<list, processing, finish, worker, current>>
      BY <1>2, <2>1 DEF Wait
    <3>2. QED  BY <2>1, <3>1, ReturnSafe
  <2>2. CASE ~Drained
    <3>1. list' = list /\ processing' = processing /\ current' = current /\ job' = job /\ owner' = owner
      BY <1>2, <2>2 DEF Wait
    <3>2. waiting' \in BOOLEAN /\ (finish' = finish \/ finish' = TRUE)
      BY <1>0, <1>2, <2>2 DEF Wait
    <3>3. worker' = worker /\ caller' = [caller EXCEPT ![c] = "asleep"]
      BY <1>2, <2>2 DEF Wait
    <3>4. caller' \in [Callers -> CallerState]
          /\ \A d \in Callers : caller'[d] = "idle" => caller[d] = "idle"
      BY <1>0, <3>3 DEF CallerState
    <3>5. worker' \in [Workers -> WorkerState] /\ \A w \in Workers : worker'[w] = worker[w]
      BY <1>0, <3>3
    <3>6. QED  BY <3>1, <3>2, <3>4, <3>5, SignalSafe
  <2>3. QED  BY <2>1, <2>2
<1>3. CASE WaitAgain(c)
  <2>1. CASE Drained
    <3>1. Return(c) /\ UNCHANGED <<list, processing, finish, worker, current>>
      BY <1>3, <2>1 DEF WaitAgain
    <3>2. QED  BY <2>1, <3>1, ReturnSafe
  <2>2. CASE ~Drained
    <3>1. list' = list /\ processing' = processing /\ current' = current /\ job' = job /\ owner' = owner
      BY <1>3, <2>2 DEF WaitAgain
    <3>2. waiting' \in BOOLEAN /\ (finish' = finish \/ finish' = TRUE)
      BY <1>0, <1>3, <2>2 DEF WaitAgain
    <3>3. worker' = worker /\ caller' = [caller EXCEPT ![c] = "asleep"]
      BY <1>3, <2>2 DEF WaitAgain
    <3>4. caller' \in [Callers -> CallerState]
          /\ \A d \in Callers : caller'[d] = "idle" => caller[d] = "idle"
      BY <1>0, <3>3 DEF CallerState
    <3>5. worker' \in [Workers -> WorkerState] /\ \A w \in Workers : worker'[w] = worker[w]
      BY <1>0, <3>3
    <3>6. QED  BY <3>1, <3>2, <3>4, <3>5, SignalSafe
  <2>3. QED  BY <2>1, <2>2
<1>4. QED  BY <1>1, <1>2, <1>3 DEF CallerStep

\* A push puts a fresh slot at the end of the queue and binds it to its call.
LEMMA PushSafe ==
  ASSUME IInv, NEW c \in Callers, NEW t \in Tasks, Push(c, t)
  PROVE  IInv'
<1>0. /\ list \in Seq(Tasks)  /\ caller \in [Callers -> CallerState]
      /\ job \in [Tasks -> JobState]  /\ job[t] = "free"
      /\ owner \in [Tasks -> Callers \union {NoOne}]
  BY DEF IInv, TypeOK, Push
<1>1. TypeOK'
  BY <1>0, AppendFacts DEF Push, IInv, TypeOK, CallerState, JobState
<1>2. TaskHasOnePlace'
  <2>0. /\ \A i \in DOMAIN list : i \in DOMAIN list' /\ list'[i] = list[i] /\ list[i] \in Tasks
        /\ Len(list) + 1 \in DOMAIN list'
        /\ list'[Len(list) + 1] = t
        /\ \A i \in DOMAIN list' : i \in DOMAIN list \/ i = Len(list) + 1
    BY <1>0, AppendFacts DEF Push
  <2>1. \A i \in DOMAIN list : list[i] # t
    BY <1>0 DEF IInv, TaskHasOnePlace
  <2>2. \A w \in Workers : worker[w] = "apply" => current[w] # t
    BY <1>0 DEF IInv, TaskHasOnePlace
  <2>3. \A w \in Workers :
          worker'[w] = "apply" =>
            /\ current'[w] \in Tasks
            /\ job'[current'[w]] = "running"
            /\ \A v \in Workers \ {w} : worker'[v] = "apply" => current'[v] # current'[w]
    BY <1>0, <2>2 DEF Push, IInv, TaskHasOnePlace
  <2>4. \A i \in DOMAIN list' : job'[list'[i]] = "queued"
    BY <1>0, <2>0, <2>1 DEF Push, IInv, TaskHasOnePlace
  <2>5. \A i, j \in DOMAIN list' : list'[i] = list'[j] => i = j
    BY <2>0, <2>1 DEF IInv, TaskHasOnePlace
  <2>6. \A s \in Tasks : job'[s] = "queued" => \E i \in DOMAIN list' : list'[i] = s
    BY <1>0, <2>0 DEF Push, IInv, TaskHasOnePlace
  <2>7. \A s \in Tasks : job'[s] = "running" => \E w \in Workers : worker'[w] = "apply" /\ current'[w] = s
    BY <1>0 DEF Push, IInv, TaskHasOnePlace
  <2>8. QED  BY <2>3, <2>4, <2>5, <2>6, <2>7 DEF TaskHasOnePlace
<1>3. ProcessingCountsBusy'
  BY DEF Push, IInv, ProcessingCountsBusy, Busy
<1>4. NoTaskOutlivesItsCall'
  BY <1>0 DEF Push, IInv, NoTaskOutlivesItsCall, CallerState
<1>5. QED  BY <1>1, <1>2, <1>3, <1>4 DEF IInv

\* Every step of the pool preserves the invariant.
LEMMA NextIInv == IInv /\ [Next]_vars => IInv'
<1> SUFFICES ASSUME IInv, [Next]_vars PROVE IInv'  OBVIOUS
<1>0. /\ TypeOK /\ caller \in [Callers -> CallerState] /\ worker \in [Workers -> WorkerState]
      /\ waiting \in BOOLEAN /\ finish \in BOOLEAN
  BY DEF IInv, TypeOK
<1>1. ASSUME NEW w \in Workers, WorkerStep(w) PROVE IInv'  BY <1>1, WorkerSafe
<1>2. ASSUME NEW c \in Callers, CallerStep(c) PROVE IInv'  BY <1>2, CallerSafe
<1>3. ASSUME NEW c \in Callers, NEW t \in Tasks, Push(c, t) PROVE IInv'  BY <1>3, PushSafe
<1>4. CASE Destroy
  <2>1. worker' \in [Workers -> WorkerState]
        /\ \A w \in Workers : \/ worker'[w] = worker[w]
                              \/ worker[w] = "asleep" /\ worker'[w] = "woken"
    BY <1>0, <1>4 DEF Destroy, WorkerState
  <2>2. list' = list /\ processing' = processing /\ current' = current /\ job' = job /\ owner' = owner
    BY <1>4 DEF Destroy
  <2>3. waiting' \in BOOLEAN /\ (finish' = finish \/ finish' = TRUE)
    BY <1>0, <1>4 DEF Destroy
  <2>4. caller' \in [Callers -> CallerState] /\ \A d \in Callers : caller'[d] = caller[d]
    BY <1>0, <1>4 DEF Destroy
  <2>5. QED  BY <2>1, <2>2, <2>3, <2>4, SignalSafe
<1>5. CASE SpuriousWake
  <2>1. worker' \in [Workers -> WorkerState]
        /\ \A w \in Workers : \/ worker'[w] = worker[w]
                              \/ worker[w] = "asleep" /\ worker'[w] = "woken"
    BY <1>0, <1>5 DEF SpuriousWake, WorkerState
  <2>2. caller' \in [Callers -> CallerState]
        /\ \A d \in Callers : caller'[d] = "idle" => caller[d] = "idle"
    BY <1>0, <1>5 DEF SpuriousWake, CallerState
  <2>3. list' = list /\ processing' = processing /\ current' = current /\ job' = job /\ owner' = owner
    BY <1>5 DEF SpuriousWake, poolVars
  <2>4. waiting' \in BOOLEAN /\ (finish' = finish \/ finish' = TRUE)
    BY <1>0, <1>5 DEF SpuriousWake, poolVars
  <2>5. QED  BY <2>1, <2>2, <2>3, <2>4, SignalSafe
<1>6. CASE UNCHANGED vars
  <2>1. list' = list /\ processing' = processing /\ current' = current /\ job' = job /\ owner' = owner
    BY <1>6 DEF vars
  <2>2. waiting' \in BOOLEAN /\ (finish' = finish \/ finish' = TRUE)
    BY <1>0, <1>6 DEF vars
  <2>3. /\ worker' \in [Workers -> WorkerState] /\ \A w \in Workers : worker'[w] = worker[w]
        /\ caller' \in [Callers -> CallerState] /\ \A d \in Callers : caller'[d] = caller[d]
    BY <1>0, <1>6 DEF vars
  <2>4. QED  BY <2>1, <2>2, <2>3, SignalSafe
<1>7. QED  BY <1>1, <1>2, <1>3, <1>4, <1>5, <1>6 DEF Next

\* The inductive invariant holds in every reachable state.
THEOREM Invariance == Spec => []IInv
<1>1. QED  BY InitIInv, NextIInv, PTL DEF Spec

\* Every variable of the pool has its type.
THEOREM PoolTypes == Spec => []TypeOK
<1>1. IInv => TypeOK  BY DEF IInv
<1>2. QED  BY <1>1, Invariance, PTL

\* When wait returns, no task that refers to the caller's frame is queued or
\* running, for any number of workers, of callers that share the pool, and of
\* tasks in flight.
THEOREM WaitIsSafe == Spec => []NoTaskOutlivesItsCall
<1>1. IInv => NoTaskOutlivesItsCall  BY DEF IInv
<1>2. QED  BY <1>1, Invariance, PTL

\* No task is applied by two workers, applied while queued, or queued twice.
THEOREM TasksHaveOnePlace == Spec => []TaskHasOnePlace
<1>1. IInv => TaskHasOnePlace  BY DEF IInv
<1>2. QED  BY <1>1, Invariance, PTL

\* The counter that wait reads never undercounts the busy workers.
THEOREM CounterIsSafe == Spec => []ProcessingCountsBusy
<1>1. IInv => ProcessingCountsBusy  BY DEF IInv
<1>2. QED  BY <1>1, Invariance, PTL

-----------------------------------------------------------------------------
\* push notifies after it has linked the task in and a worker goes to sleep
\* only over an empty queue: the pool never sleeps over a task whose signal
\* was already sent.
THEOREM SignalsAreNotLost == Spec => []NoLostSignal
<1>1. Init => NoLostSignal  BY DEF Init, NoLostSignal
<1>2. TypeOK /\ NoLostSignal /\ [Next]_vars => NoLostSignal'
  <2> SUFFICES ASSUME TypeOK, NoLostSignal, [Next]_vars,
                      Workers # {}, list' # <<>>, \A w \in Workers : worker'[w] = "asleep"
               PROVE  \E c \in Callers : caller'[c] = "notifying"
    BY DEF NoLostSignal
  <2>0. /\ worker \in [Workers -> WorkerState]  /\ caller \in [Callers -> CallerState]
        /\ list \in Seq(Tasks)
    BY DEF TypeOK
  <2>1. ASSUME NEW w \in Workers, WorkerStep(w) PROVE FALSE
    <3>1. CASE LoopTest(w) \/ Apply(w)
      BY <2>0, <3>1 DEF LoopTest, Apply
    <3>2. ASSUME NEW busy, TakeOrSleep(w, busy) PROVE FALSE
      BY <2>0, <3>2 DEF TakeOrSleep
    <3>3. CASE Reenter(w) \/ Resume(w)
      BY <3>2, <3>3 DEF Reenter, Resume
    <3>4. QED  BY <2>1, <3>1, <3>3 DEF WorkerStep
  <2>2. ASSUME NEW c \in Callers, CallerStep(c)
        PROVE  \E d \in Callers : caller'[d] = "notifying"
    <3>1. CASE NotifyOne(c)
      BY <2>0, <3>1 DEF NotifyOne
    <3>2. CASE Wait(c)
      BY <2>0, <3>2 DEF Wait, Return, NoLostSignal
    <3>3. CASE WaitAgain(c)
      BY <2>0, <3>3 DEF WaitAgain, Return, NoLostSignal
    <3>4. QED  BY <2>2, <3>1, <3>2, <3>3 DEF CallerStep
  <2>3. ASSUME NEW c \in Callers, NEW t \in Tasks, Push(c, t)
        PROVE  \E d \in Callers : caller'[d] = "notifying"
    BY <2>0, <2>3 DEF Push
  <2>4. CASE Destroy
    BY <2>0, <2>4 DEF Destroy
  <2>5. CASE SpuriousWake
    BY <2>0, <2>5 DEF SpuriousWake, NoLostSignal, poolVars
  <2>6. CASE UNCHANGED vars
    BY <2>6 DEF vars, NoLostSignal
  <2>7. QED  BY <2>1, <2>2, <2>3, <2>4, <2>5, <2>6 DEF Next
<1>3. IInv => TypeOK  BY DEF IInv
<1>4. QED  BY <1>1, <1>2, <1>3, Invariance, PTL DEF Spec

-----------------------------------------------------------------------------
(* NoIdleBacklog *)

\* The workers that are about to look at the queue or apply a task, and the
\* callers that still have to notify for a task they linked in.
Awake == {w \in Workers : worker[w] \notin {"asleep", "exited"}}
Notifying == {c \in Callers : caller[c] = "notifying"}

\* A queued task is matched by a worker that is awake or a signal to come; after
\* the destructor nobody sleeps.  The callers may be infinitely many, those with
\* a signal to send are not.
BacklogInv ==
  /\ finish => \A w \in Workers : worker[w] # "asleep"
  /\ IsFiniteSet(Notifying)
  /\ NoIdleBacklog

\* The two counts are natural numbers.
LEMMA BacklogCounts ==
  ASSUME BacklogInv
  PROVE  /\ IsFiniteSet(Awake) /\ Cardinality(Awake) \in Nat
         /\ IsFiniteSet(Notifying) /\ Cardinality(Notifying) \in Nat
<1>1. IsFiniteSet(Workers)  BY PoolAssumption
<1>2. Awake \subseteq Workers  BY DEF Awake
<1>3. IsFiniteSet(Awake)  BY <1>1, <1>2, FS_Subset
<1>4. IsFiniteSet(Notifying)  BY DEF BacklogInv
<1>5. QED  BY <1>3, <1>4, FS_CardinalityType

\* Where a worker sleeps, the queue is no longer than the two counts.
LEMMA BacklogBound ==
  ASSUME BacklogInv, NEW v \in Workers, worker[v] = "asleep"
  PROVE  Len(list) <= Cardinality(Awake) + Cardinality(Notifying)
  BY DEF BacklogInv, NoIdleBacklog, Awake, Notifying

\* Steps that change neither count, make the queue no longer and put nobody to
\* sleep.
LEMMA BacklogKept ==
  ASSUME TypeOK, BacklogInv, list' \in Seq(Tasks), Len(list') <= Len(list),
         Awake' = Awake, Notifying' = Notifying,
         \A w \in Workers : worker'[w] = "asleep" => worker[w] = "asleep",
         finish' = finish
  PROVE  BacklogInv'
<1>1. Cardinality(Awake) \in Nat /\ Cardinality(Notifying) \in Nat  BY BacklogCounts
<1>2. Len(list) \in Nat /\ Len(list') \in Nat  BY DEF TypeOK
<1>3. finish' => \A w \in Workers : worker'[w] # "asleep"  BY DEF BacklogInv
<1>4. IsFiniteSet(Notifying')  BY DEF BacklogInv
<1>5. ASSUME NEW v \in Workers, worker'[v] = "asleep"
      PROVE  Len(list') <= Cardinality(Awake') + Cardinality(Notifying')
  <2>1. Len(list) <= Cardinality(Awake) + Cardinality(Notifying)  BY <1>5, BacklogBound
  <2>2. QED  BY <1>1, <1>2, <2>1
<1>6. NoIdleBacklog'  BY <1>5 DEF NoIdleBacklog, Awake, Notifying
<1>7. QED  BY <1>3, <1>4, <1>6 DEF BacklogInv

\* A worker that leaves its loop does so after the destructor began; one that
\* takes a task shortens the queue; one that goes to sleep found it empty.
LEMMA BacklogWorker ==
  ASSUME TypeOK, BacklogInv, NEW w \in Workers, NEW busy, TakeOrSleep(w, busy),
         worker[w] \in {"enter", "woken"}, Notifying' = Notifying, finish' = finish
  PROVE  BacklogInv'
<1>0. worker \in [Workers -> WorkerState] /\ list \in Seq(Tasks)  BY DEF TypeOK
<1>1. Cardinality(Notifying) \in Nat /\ IsFiniteSet(Notifying)  BY BacklogCounts
<1>2. CASE finish /\ worker' = [worker EXCEPT ![w] = "exited"]
  <2>1. \A v \in Workers : worker'[v] # "asleep"  BY <1>0, <1>2 DEF BacklogInv
  <2>2. QED  BY <1>1, <2>1 DEF BacklogInv, NoIdleBacklog
<1>3. CASE ~finish /\ list # <<>> /\ list' = Tail(list) /\ worker' = [worker EXCEPT ![w] = "apply"]
  <2>1. Awake' = Awake  BY <1>0, <1>3 DEF Awake, WorkerState
  <2>2. list' \in Seq(Tasks) /\ Len(list') <= Len(list)  BY <1>0, <1>3
  <2>3. \A v \in Workers : worker'[v] = "asleep" => worker[v] = "asleep"  BY <1>0, <1>3
  <2>4. QED  BY <2>1, <2>2, <2>3, BacklogKept
<1>4. CASE ~finish /\ list = <<>> /\ list' = list /\ worker' = [worker EXCEPT ![w] = "asleep"]
  <2>1. Len(list') = 0  BY <1>4
  <2>2. Awake' \subseteq Workers  BY DEF Awake
  <2>3. IsFiniteSet(Awake')  BY <2>2, PoolAssumption, FS_Subset
  <2>4. Cardinality(Awake') \in Nat  BY <2>3, FS_CardinalityType
  <2>5. Cardinality(Notifying') \in Nat  BY <1>1
  <2>6. Len(list') <= Cardinality(Awake') + Cardinality(Notifying')  BY <2>1, <2>4, <2>5
  <2>7. NoIdleBacklog'  BY <2>6 DEF NoIdleBacklog, Awake, Notifying
  <2>8. QED  BY <1>1, <1>4, <2>7 DEF BacklogInv
<1>5. QED  BY <1>2, <1>3, <1>4 DEF TakeOrSleep

\* One more worker is awake, nothing else changes.
LEMMA BacklogWoken ==
  ASSUME TypeOK, BacklogInv, NEW w \in Workers, worker[w] = "asleep",
         worker' = [worker EXCEPT ![w] = "woken"], list' = list, finish' = finish,
         IsFiniteSet(Notifying'),
         Cardinality(Notifying') + 1 >= Cardinality(Notifying)
  PROVE  BacklogInv'
<1>0. worker \in [Workers -> WorkerState] /\ Len(list) \in Nat  BY DEF TypeOK
<1>1. /\ Cardinality(Awake) \in Nat /\ IsFiniteSet(Awake) /\ Cardinality(Notifying) \in Nat
      /\ Cardinality(Notifying') \in Nat
  BY BacklogCounts, FS_CardinalityType
<1>2. Awake' = Awake \union {w}  BY <1>0 DEF Awake, WorkerState
<1>3. w \notin Awake  BY DEF Awake
<1>4. Cardinality(Awake') = Cardinality(Awake) + 1  BY <1>1, <1>2, <1>3, FS_AddElement
<1>5. Len(list) <= Cardinality(Awake) + Cardinality(Notifying)  BY BacklogBound
<1>6. Len(list') <= Cardinality(Awake') + Cardinality(Notifying')  BY <1>0, <1>1, <1>4, <1>5
<1>7. NoIdleBacklog'  BY <1>6 DEF NoIdleBacklog, Awake, Notifying
<1>8. finish' => \A v \in Workers : worker'[v] # "asleep"  BY <1>0 DEF BacklogInv
<1>9. QED  BY <1>7, <1>8 DEF BacklogInv

\* A caller that notifies wakes a worker if one sleeps.
LEMMA BacklogNotify ==
  ASSUME TypeOK, BacklogInv, NEW c \in Callers, NotifyOne(c)
  PROVE  BacklogInv'
<1>0. caller \in [Callers -> CallerState] /\ list' = list /\ finish' = finish
  BY DEF TypeOK, NotifyOne, poolVars
<1>1. IsFiniteSet(Notifying) /\ Cardinality(Notifying) \in Nat  BY BacklogCounts
<1>2. Notifying' = Notifying \ {c} /\ c \in Notifying  BY <1>0 DEF NotifyOne, Notifying, CallerState
<1>3. IsFiniteSet(Notifying') /\ Cardinality(Notifying') + 1 >= Cardinality(Notifying)
  BY <1>1, <1>2, OneLess, FS_RemoveElement
<1>4. ASSUME NEW w \in Workers, worker[w] = "asleep", worker' = [worker EXCEPT ![w] = "woken"]
      PROVE  BacklogInv'
  BY <1>0, <1>3, <1>4, BacklogWoken
<1>5. CASE (\A w \in Workers : worker[w] # "asleep") /\ worker' = worker
  BY <1>0, <1>3, <1>5 DEF BacklogInv, NoIdleBacklog
<1>6. QED  BY <1>4, <1>5 DEF NotifyOne

\* A caller that links a task in has a signal to send.
LEMMA BacklogPush ==
  ASSUME TypeOK, BacklogInv, NEW c \in Callers, NEW t \in Tasks, Push(c, t)
  PROVE  BacklogInv'
<1>0. /\ caller \in [Callers -> CallerState] /\ list \in Seq(Tasks)
      /\ worker' = worker /\ finish' = finish
  BY DEF TypeOK, Push
<1>1. /\ IsFiniteSet(Notifying) /\ Cardinality(Notifying) \in Nat /\ Cardinality(Awake) \in Nat
  BY BacklogCounts
<1>2. Notifying' = Notifying \union {c} /\ c \notin Notifying
  BY <1>0 DEF Push, Notifying, CallerState
<1>3. IsFiniteSet(Notifying') /\ Cardinality(Notifying') = Cardinality(Notifying) + 1
  BY <1>1, <1>2, FS_AddElement
<1>4. Len(list') = Len(list) + 1 /\ Len(list) \in Nat  BY <1>0 DEF Push
<1>5. Awake' = Awake  BY <1>0 DEF Awake
<1>6. ASSUME NEW v \in Workers, worker'[v] = "asleep"
      PROVE  Len(list') <= Cardinality(Awake') + Cardinality(Notifying')
  <2>1. Len(list) <= Cardinality(Awake) + Cardinality(Notifying)  BY <1>0, <1>6, BacklogBound
  <2>2. QED  BY <1>1, <1>3, <1>4, <1>5, <2>1
<1>7. NoIdleBacklog'  BY <1>6 DEF NoIdleBacklog, Awake, Notifying
<1>8. QED  BY <1>0, <1>3, <1>7 DEF BacklogInv

\* Every step of the pool keeps it.
LEMMA NextBacklog == TypeOK /\ BacklogInv /\ [Next]_vars => BacklogInv'
<1> SUFFICES ASSUME TypeOK, BacklogInv, [Next]_vars PROVE BacklogInv'  OBVIOUS
<1>0. /\ worker \in [Workers -> WorkerState]  /\ caller \in [Callers -> CallerState]
      /\ list \in Seq(Tasks)  /\ IsFiniteSet(Notifying)
  BY BacklogCounts DEF TypeOK
<1>1. ASSUME NEW w \in Workers, WorkerStep(w) PROVE BacklogInv'
  <2>1. CASE LoopTest(w)
    <3>1. list' = list /\ finish' = finish /\ Notifying' = Notifying
      BY <2>1 DEF LoopTest, poolVars, Notifying
    <3>2. \A v \in Workers : worker'[v] = "asleep" => worker[v] = "asleep"
      BY <1>0, <2>1 DEF LoopTest
    <3>3. CASE finish
      BY <1>0, <3>1, <3>2, <3>3 DEF BacklogInv, NoIdleBacklog
    <3>4. CASE ~finish
      <4>1. Awake' = Awake  BY <1>0, <2>1, <3>4 DEF LoopTest, Awake, WorkerState
      <4>2. QED  BY <1>0, <3>1, <3>2, <4>1, BacklogKept
    <3>5. QED  BY <3>3, <3>4
  <2>2. CASE Reenter(w)
    <3>1. Notifying' = Notifying
      BY <1>0, <2>2 DEF Reenter, WakeAllCallers, Notifying, CallerState
    <3>2. QED  BY <2>2, <3>1, BacklogWorker DEF Reenter
  <2>3. CASE Resume(w)
    <3>1. Notifying' = Notifying  BY <2>3 DEF Resume, Notifying
    <3>2. QED  BY <2>3, <3>1, BacklogWorker DEF Resume
  <2>4. CASE Apply(w)
    <3>1. list' = list /\ finish' = finish /\ Notifying' = Notifying
      BY <2>4 DEF Apply, poolVars, Notifying
    <3>2. \A v \in Workers : worker'[v] = "asleep" => worker[v] = "asleep"
      BY <1>0, <2>4 DEF Apply
    <3>3. Awake' = Awake  BY <1>0, <2>4 DEF Apply, Awake, WorkerState
    <3>4. QED  BY <1>0, <3>1, <3>2, <3>3, BacklogKept
  <2>5. QED  BY <1>1, <2>1, <2>2, <2>3, <2>4 DEF WorkerStep
<1>2. ASSUME NEW c \in Callers, CallerStep(c) PROVE BacklogInv'
  <2>1. CASE NotifyOne(c)  BY <2>1, BacklogNotify
  <2>2. CASE Wait(c) \/ WaitAgain(c)
    <3>1. list' = list /\ finish' = finish /\ worker' = worker
      BY <2>2 DEF Wait, WaitAgain
    <3>2. Notifying' = Notifying
      BY <1>0, <2>2 DEF Wait, WaitAgain, Return, Notifying, CallerState
    <3>3. Awake' = Awake  BY <3>1 DEF Awake
    <3>4. QED  BY <1>0, <3>1, <3>2, <3>3, BacklogKept
  <2>3. QED  BY <1>2, <2>1, <2>2 DEF CallerStep
<1>3. ASSUME NEW c \in Callers, NEW t \in Tasks, Push(c, t) PROVE BacklogInv'
  BY <1>3, BacklogPush
<1>4. CASE Destroy
  <2>1. \A w \in Workers : worker'[w] # "asleep"  BY <1>0, <1>4 DEF Destroy
  <2>2. Notifying' = Notifying  BY <1>4 DEF Destroy, Notifying
  <2>3. QED  BY <1>0, <2>1, <2>2 DEF BacklogInv, NoIdleBacklog
<1>5. CASE SpuriousWake
  <2>1. ASSUME NEW w \in Workers, worker[w] = "asleep",
               worker' = [worker EXCEPT ![w] = "woken"], UNCHANGED <<poolVars, caller>>
        PROVE  BacklogInv'
    <3>1. list' = list /\ finish' = finish /\ Notifying' = Notifying
      BY <2>1 DEF poolVars, Notifying
    <3>2. Cardinality(Notifying') + 1 >= Cardinality(Notifying)  BY <3>1, BacklogCounts
    <3>3. QED  BY <1>0, <2>1, <3>1, <3>2, BacklogWoken
  <2>2. ASSUME NEW c \in Callers, caller[c] = "asleep",
               caller' = [caller EXCEPT ![c] = "woken"], UNCHANGED <<poolVars, worker>>
        PROVE  BacklogInv'
    <3>1. list' = list /\ finish' = finish /\ worker' = worker /\ Awake' = Awake
      BY <2>2 DEF poolVars, Awake
    <3>2. Notifying' = Notifying  BY <1>0, <2>2 DEF Notifying, CallerState
    <3>3. QED  BY <1>0, <3>1, <3>2, BacklogKept
  <2>3. QED  BY <1>5, <2>1, <2>2 DEF SpuriousWake
<1>6. CASE UNCHANGED vars
  <2>1. list' = list /\ finish' = finish /\ worker' = worker /\ Awake' = Awake /\ Notifying' = Notifying
    BY <1>6 DEF vars, Awake, Notifying
  <2>2. QED  BY <1>0, <2>1, BacklogKept
<1>7. QED  BY <1>1, <1>2, <1>3, <1>4, <1>5, <1>6 DEF Next

\* Work does not wait behind one busy worker while another sleeps: when a worker
\* sleeps, every queued task has a worker that is awake or a signal on its way.
THEOREM BacklogIsServed == Spec => []NoIdleBacklog
<1>1. Init => BacklogInv
  <2> SUFFICES ASSUME Init PROVE BacklogInv  OBVIOUS
  <2>1. Notifying = {}  BY DEF Init, Notifying
  <2>2. \A w \in Workers : worker[w] # "asleep"  BY DEF Init
  <2>3. QED  BY <2>1, <2>2, FS_EmptySet DEF BacklogInv, NoIdleBacklog
<1>2. IInv => TypeOK  BY DEF IInv
<1>3. BacklogInv => NoIdleBacklog  BY DEF BacklogInv
<1>4. QED  BY <1>1, <1>2, <1>3, NextBacklog, Invariance, PTL DEF Spec

-----------------------------------------------------------------------------
\* With no worker the constructor sets the counter to 1 and starts nothing
\* that could decrement it.
CounterStuck == processing = 1

\* A pool built with 0 threads (hardware_concurrency may return 0) lets no
\* caller out of wait: a call that has pushed a task never ends.
THEOREM NoWorkerNoReturn ==
  ASSUME Workers = {}
  PROVE  Spec => [][\A c \in Callers : caller[c] # "idle" => caller'[c] # "idle"]_vars
<1>1. Init => CounterStuck  BY DEF Init, CounterStuck
<1>2. CounterStuck /\ [Next]_vars => CounterStuck'
  <2> SUFFICES ASSUME CounterStuck, [Next]_vars PROVE CounterStuck'  OBVIOUS
  <2>1. ASSUME NEW c \in Callers, CallerStep(c) PROVE processing' = processing
    BY <2>1 DEF CallerStep, NotifyOne, Wait, WaitAgain, poolVars
  <2>2. ASSUME NEW c \in Callers, NEW t \in Tasks, Push(c, t) PROVE processing' = processing
    BY <2>2 DEF Push
  <2>3. CASE Destroy  BY <2>3 DEF Destroy, CounterStuck
  <2>4. CASE SpuriousWake  BY <2>4 DEF SpuriousWake, poolVars, CounterStuck
  <2>5. CASE UNCHANGED vars  BY <2>5 DEF vars, CounterStuck
  <2>6. QED  BY <2>1, <2>2, <2>3, <2>4, <2>5 DEF Next, CounterStuck
<1>3. TypeOK /\ CounterStuck /\ [Next]_vars
        => [\A c \in Callers : caller[c] # "idle" => caller'[c] # "idle"]_vars
  <2> SUFFICES ASSUME TypeOK, CounterStuck, Next, NEW c \in Callers, caller[c] # "idle"
               PROVE  caller'[c] # "idle"
    OBVIOUS
  <2>0. caller \in [Callers -> CallerState] /\ ~Drained
    BY DEF TypeOK, Drained, CounterStuck
  <2>1. ASSUME NEW d \in Callers, CallerStep(d) PROVE caller'[c] # "idle"
    BY <2>0, <2>1 DEF CallerStep, NotifyOne, Wait, WaitAgain
  <2>2. ASSUME NEW d \in Callers, NEW t \in Tasks, Push(d, t) PROVE caller'[c] # "idle"
    BY <2>0, <2>2 DEF Push
  <2>3. CASE Destroy  BY <2>3 DEF Destroy
  <2>4. CASE SpuriousWake  BY <2>0, <2>4 DEF SpuriousWake
  <2>5. QED  BY <2>1, <2>2, <2>3, <2>4 DEF Next
<1>4. IInv => TypeOK  BY DEF IInv
<1>5. QED  BY <1>1, <1>2, <1>3, <1>4, Invariance, PTL DEF Spec
===============================================================================

------------------------------- MODULE TinyPool -------------------------------
(***************************************************************************)
(* The thread pool of src/stenos/internal/tiny_pool.h that runs the        *)
(* (de)compression jobs of every context of the process.                   *)
(*                                                                         *)
(* Every field of the pool is read and written under one mutex, except     *)
(* `finish` at the head of the worker loop, so each critical section is    *)
(* one action here: it starts when the mutex is taken and ends where the   *)
(* code unlocks, sleeps on a condition variable or returns.  What happens  *)
(* outside the mutex (the loop test, the job itself, notify_one) is an     *)
(* action of its own.  A caller is a thread inside a multithreaded         *)
(* stenos_compress_generic or stenos_decompress_generic: it pushes a batch *)
(* of tasks that refer to its stack frame and then waits for the pool.     *)
(***************************************************************************)
EXTENDS Naturals, Sequences, FiniteSets

CONSTANTS Workers,  \* the threads the constructor starts
          Callers,  \* the threads that push tasks and wait
          Tasks,    \* task slots, reused once their caller has returned
          NoOne     \* no task, no caller

ASSUME PoolAssumption ==
  /\ IsFiniteSet(Workers)
  /\ Workers \intersect Callers = {}
  /\ NoOne \notin Tasks \union Callers

VARIABLES
  list,        \* the queue of tasks
  processing,  \* the counter of workers that are not in condition.wait
  waiting,     \* the flag that asks workers to notify wait_condition
  finish,      \* the destructor has begun
  worker,      \* where each worker is in do_work
  current,     \* the task each worker applies
  caller,      \* where each caller is in its push / wait sequence
  job,         \* the state of each task
  owner        \* the caller whose stack frame each task refers to

poolVars == <<list, processing, waiting, finish>>
vars == <<list, processing, waiting, finish, worker, current, caller, job, owner>>

WorkerState == {"head", "enter", "asleep", "woken", "apply", "exited"}
CallerState == {"idle", "pushing", "notifying", "asleep", "woken"}
JobState == {"free", "queued", "running", "done"}

-----------------------------------------------------------------------------
\* The constructor: `processing` counts every thread as busy until the thread
\* reaches its first critical section.  With no thread it is set to 1.
Init ==
  /\ list = <<>>
  /\ processing = IF Workers = {} THEN 1 ELSE Cardinality(Workers)
  /\ waiting = FALSE
  /\ finish = FALSE
  /\ worker = [w \in Workers |-> "head"]
  /\ current = [w \in Workers |-> NoOne]
  /\ caller = [c \in Callers |-> "idle"]
  /\ job = [t \in Tasks |-> "free"]
  /\ owner = [t \in Tasks |-> NoOne]

\* The predicate of wait_condition.wait: no worker is busy, nothing is queued.
Drained == processing = 0 /\ list = <<>>

\* notify_all on wait_condition.
WakeAllCallers == [c \in Callers |-> IF caller[c] = "asleep" THEN "woken" ELSE caller[c]]

-----------------------------------------------------------------------------
\* The loop test of do_work, which reads `finish` without the mutex.
LoopTest(w) ==
  /\ worker[w] = "head"
  /\ worker' = [worker EXCEPT ![w] = IF finish THEN "exited" ELSE "enter"]
  /\ UNCHANGED <<poolVars, current, caller, job, owner>>

\* Mutant of TakeOrSleep: the worker reads the front task without removing it.
PeekOrSleep(w, busy) ==
  \/ /\ finish
     /\ processing' = busy
     /\ worker' = [worker EXCEPT ![w] = "exited"]
     /\ UNCHANGED <<list, current, job>>
  \/ /\ ~finish
     /\ list # <<>>
     /\ processing' = busy + 1
     /\ worker' = [worker EXCEPT ![w] = "apply"]
     /\ current' = [current EXCEPT ![w] = Head(list)]
     /\ job' = [job EXCEPT ![Head(list)] = "running"]
     /\ UNCHANGED list
  \/ /\ ~finish
     /\ list = <<>>
     /\ processing' = busy
     /\ worker' = [worker EXCEPT ![w] = "asleep"]
     /\ UNCHANGED <<list, current, job>>

\* A worker that holds the mutex evaluates the predicate of condition.wait:
\* it leaves, takes the oldest task and becomes busy, or sleeps.  `busy` is
\* the value of `processing` when it does.
TakeOrSleep(w, busy) ==
  \/ /\ finish
     /\ processing' = busy
     /\ worker' = [worker EXCEPT ![w] = "exited"]
     /\ UNCHANGED <<list, current, job>>
  \/ /\ ~finish
     /\ list # <<>>
     /\ processing' = busy + 1
     /\ list' = Tail(list)
     /\ worker' = [worker EXCEPT ![w] = "apply"]
     /\ current' = [current EXCEPT ![w] = Head(list)]
     /\ job' = [job EXCEPT ![Head(list)] = "running"]
  \/ /\ ~finish
     /\ list = <<>>
     /\ processing' = busy
     /\ worker' = [worker EXCEPT ![w] = "asleep"]
     /\ UNCHANGED <<list, current, job>>

\* Mutant of Reenter: the worker stops counting as busy only if the queue is
\* empty, and counts twice when it takes the next task.
DecrementOnlyWhenEmpty(w) ==
  /\ worker[w] = "enter"
  /\ LET left == IF list = <<>> THEN processing - 1 ELSE processing
     IN  /\ caller' = IF waiting /\ left = 0 /\ list = <<>> THEN WakeAllCallers ELSE caller
         /\ TakeOrSleep(w, left)
  /\ UNCHANGED <<waiting, finish, owner>>

\* The first part of do_work's critical section: stop counting as busy, tell
\* the callers when the pool has drained, then look for a task.
Reenter(w) ==
  /\ worker[w] = "enter"
  /\ LET left == processing - 1
     IN  /\ caller' = IF waiting /\ left = 0 /\ list = <<>> THEN WakeAllCallers ELSE caller
         /\ TakeOrSleep(w, left)
  /\ UNCHANGED <<waiting, finish, owner>>

\* Mutant of Resume: every return from condition.wait decrements the counter.
ResumeAndDecrement(w) ==
  /\ worker[w] = "woken"
  /\ TakeOrSleep(w, processing - 1)
  /\ UNCHANGED <<waiting, finish, caller, owner>>

\* A notified (or spuriously woken) worker evaluates the predicate again.
Resume(w) ==
  /\ worker[w] = "woken"
  /\ TakeOrSleep(w, processing)
  /\ UNCHANGED <<waiting, finish, caller, owner>>

\* r->apply() and destroy_task(r), outside the mutex.
Apply(w) ==
  /\ worker[w] = "apply"
  /\ job' = [job EXCEPT ![current[w]] = "done"]
  /\ current' = [current EXCEPT ![w] = NoOne]
  /\ worker' = [worker EXCEPT ![w] = "head"]
  /\ UNCHANGED <<poolVars, caller, owner>>

-----------------------------------------------------------------------------
\* Mutant of Push: the task is linked in after the signal was sent, so
\* nothing wakes a worker for it.
PushAfterNotify(c, t) ==
  /\ caller[c] \in {"idle", "pushing"}
  /\ ~finish
  /\ job[t] = "free"
  /\ list' = Append(list, t)
  /\ job' = [job EXCEPT ![t] = "queued"]
  /\ owner' = [owner EXCEPT ![t] = c]
  /\ caller' = [caller EXCEPT ![c] = "pushing"]
  /\ UNCHANGED <<processing, waiting, finish, worker, current>>

\* push: link the new task in, under the mutex.  The static pool outlives the
\* calls, so no push follows the destructor.
Push(c, t) ==
  /\ caller[c] \in {"idle", "pushing"}
  /\ ~finish
  /\ job[t] = "free"
  /\ list' = Append(list, t)
  /\ job' = [job EXCEPT ![t] = "queued"]
  /\ owner' = [owner EXCEPT ![t] = c]
  /\ caller' = [caller EXCEPT ![c] = "notifying"]
  /\ UNCHANGED <<processing, waiting, finish, worker, current>>

\* Mutant of NotifyOne: push signals only when the queue was empty before.
NotifyFirstOnly(c) ==
  /\ caller[c] = "notifying"
  /\ caller' = [caller EXCEPT ![c] = "pushing"]
  /\ \/ /\ Len(list) = 1
        /\ \E w \in Workers :
             /\ worker[w] = "asleep"
             /\ worker' = [worker EXCEPT ![w] = "woken"]
     \/ /\ Len(list) # 1 \/ \A w \in Workers : worker[w] # "asleep"
        /\ UNCHANGED worker
  /\ UNCHANGED <<poolVars, current, job, owner>>

\* condition.notify_one, after push has released the mutex.
NotifyOne(c) ==
  /\ caller[c] = "notifying"
  /\ caller' = [caller EXCEPT ![c] = "pushing"]
  /\ \/ \E w \in Workers :
          /\ worker[w] = "asleep"
          /\ worker' = [worker EXCEPT ![w] = "woken"]
     \/ /\ \A w \in Workers : worker[w] # "asleep"
        /\ UNCHANGED worker
  /\ UNCHANGED <<poolVars, current, job, owner>>

\* The return of wait: the caller reads the results of its tasks and leaves
\* the frame they refer to; their slots can be allocated again.
Return(c) ==
  /\ caller' = [caller EXCEPT ![c] = "idle"]
  /\ waiting' = FALSE
  /\ job' = [t \in Tasks |-> IF owner[t] = c /\ job[t] = "done" THEN "free" ELSE job[t]]
  /\ owner' = [t \in Tasks |-> IF owner[t] = c /\ job[t] = "done" THEN NoOne ELSE owner[t]]

\* Mutant of Wait: a caller that finds an empty queue does not look at the
\* workers that still run its tasks.
WaitForEmptyQueue(c) ==
  /\ caller[c] = "pushing"
  /\ IF list = <<>>
     THEN Return(c)
     ELSE /\ waiting' = TRUE
          /\ caller' = [caller EXCEPT ![c] = "asleep"]
          /\ UNCHANGED <<job, owner>>
  /\ UNCHANGED <<list, processing, finish, worker, current>>

\* Mutant of Wait: the caller sleeps without asking to be notified.
WaitWithoutFlag(c) ==
  /\ caller[c] = "pushing"
  /\ IF Drained
     THEN Return(c)
     ELSE /\ caller' = [caller EXCEPT ![c] = "asleep"]
          /\ UNCHANGED <<waiting, job, owner>>
  /\ UNCHANGED <<list, processing, finish, worker, current>>

\* wait, up to its first sleep.
Wait(c) ==
  /\ caller[c] = "pushing"
  /\ IF Drained
     THEN Return(c)
     ELSE /\ waiting' = TRUE
          /\ caller' = [caller EXCEPT ![c] = "asleep"]
          /\ UNCHANGED <<job, owner>>
  /\ UNCHANGED <<list, processing, finish, worker, current>>

\* A woken caller evaluates the predicate of wait_condition.wait again.  It
\* does not set `waiting` again before it goes back to sleep.
WaitAgain(c) ==
  /\ caller[c] = "woken"
  /\ IF Drained
     THEN Return(c)
     ELSE /\ caller' = [caller EXCEPT ![c] = "asleep"]
          /\ UNCHANGED <<waiting, job, owner>>
  /\ UNCHANGED <<list, processing, finish, worker, current>>

-----------------------------------------------------------------------------
\* Mutant of Destroy: the destructor signals one worker instead of all.
DestroyNotifyOne ==
  /\ ~finish
  /\ \A c \in Callers : caller[c] = "idle"
  /\ finish' = TRUE
  /\ \/ \E w \in Workers :
          /\ worker[w] = "asleep"
          /\ worker' = [worker EXCEPT ![w] = "woken"]
     \/ /\ \A w \in Workers : worker[w] # "asleep"
        /\ UNCHANGED worker
  /\ UNCHANGED <<list, processing, waiting, current, caller, job, owner>>

\* The destructor of the static pool, when no call is in flight.
Destroy ==
  /\ ~finish
  /\ \A c \in Callers : caller[c] = "idle"
  /\ finish' = TRUE
  /\ worker' = [w \in Workers |-> IF worker[w] = "asleep" THEN "woken" ELSE worker[w]]
  /\ UNCHANGED <<list, processing, waiting, current, caller, job, owner>>

\* Both condition variables may wake a thread that nobody notified.
SpuriousWake ==
  \/ \E w \in Workers :
       /\ worker[w] = "asleep"
       /\ worker' = [worker EXCEPT ![w] = "woken"]
       /\ UNCHANGED <<poolVars, current, caller, job, owner>>
  \/ \E c \in Callers :
       /\ caller[c] = "asleep"
       /\ caller' = [caller EXCEPT ![c] = "woken"]
       /\ UNCHANGED <<poolVars, worker, current, job, owner>>

WorkerStep(w) == LoopTest(w) \/ Reenter(w) \/ Resume(w) \/ Apply(w)
CallerStep(c) == NotifyOne(c) \/ Wait(c) \/ WaitAgain(c)

Next ==
  \/ \E w \in Workers : WorkerStep(w)
  \/ \E c \in Callers : CallerStep(c)
  \/ \E c \in Callers, t \in Tasks : Push(c, t)
  \/ Destroy
  \/ SpuriousWake

Spec == Init /\ [][Next]_vars

\* Threads are scheduled and a job ends; a caller that has pushed goes on to
\* notify and wait.  Nothing is assumed of new calls, of the destructor or of
\* spurious wake-ups.
FairSpec ==
  /\ Spec
  /\ \A w \in Workers : WF_vars(WorkerStep(w))
  /\ \A c \in Callers : WF_vars(CallerStep(c))

-----------------------------------------------------------------------------
\* The workers `processing` counts: those that are not in condition.wait.
Busy == {w \in Workers : worker[w] \in {"head", "enter", "apply"}}

\* Every variable has its type.
TypeOK ==
  /\ list \in Seq(Tasks)
  /\ processing \in Nat
  /\ waiting \in BOOLEAN
  /\ finish \in BOOLEAN
  /\ worker \in [Workers -> WorkerState]
  /\ current \in [Workers -> Tasks \union {NoOne}]
  /\ caller \in [Callers -> CallerState]
  /\ job \in [Tasks -> JobState]
  /\ owner \in [Tasks -> Callers \union {NoOne}]

\* When wait has returned, no task that refers to the frame of the caller is
\* queued or running: do_work's counting under the mutex is what lets
\* stenos_compress_generic hand references to its locals to the workers.
NoTaskOutlivesItsCall ==
  \A t \in Tasks : job[t] # "free" => /\ owner[t] \in Callers
                                      /\ caller[owner[t]] # "idle"

\* A worker that applies a task holds it alone: it is neither in the queue
\* nor with another worker, and no queued task is in the queue twice.  The
\* unlocked part of do_work (apply, destroy_task) relies on it.
TaskHasOnePlace ==
  /\ \A w \in Workers :
       worker[w] = "apply" =>
         /\ current[w] \in Tasks
         /\ job[current[w]] = "running"
         /\ \A v \in Workers \ {w} : worker[v] = "apply" => current[v] # current[w]
  /\ \A i \in DOMAIN list : job[list[i]] = "queued"
  /\ \A i, j \in DOMAIN list : list[i] = list[j] => i = j
  /\ \A t \in Tasks : job[t] = "queued" => \E i \in DOMAIN list : list[i] = t
  /\ \A t \in Tasks : job[t] = "running" => \E w \in Workers : worker[w] = "apply" /\ current[w] = t

\* The counter that wait relies on never undercounts the busy workers, and
\* is exact until the destructor runs.
ProcessingCountsBusy ==
  /\ processing >= Cardinality(Busy)
  /\ Workers # {} /\ ~finish => processing = Cardinality(Busy)

\* No signal of push is lost: the pool never sleeps over a queued task unless
\* the thread that pushed it has still to call notify_one.
NoLostSignal ==
  Workers # {} /\ list # <<>> /\ (\A w \in Workers : worker[w] = "asleep")
    => \E c \in Callers : caller[c] = "notifying"

\* With two queued tasks and two sleeping workers a second worker is on its
\* way: tasks never queue behind fewer awake workers than were signalled for.
NoIdleBacklog ==
  \/ \A w \in Workers : worker[w] # "asleep"
  \/ Len(list) <= Cardinality({w \in Workers : worker[w] \notin {"asleep", "exited"}})
                  + Cardinality({c \in Callers : caller[c] = "notifying"})

-----------------------------------------------------------------------------
\* Every task that is pushed is run: the queue is served whatever the callers
\* and the other workers do.
TaskIsRun == \A t \in Tasks : job[t] = "queued" ~> job[t] # "queued"

\* At most one call is in flight at any time.
OneCallAtATime == \A c, d \in Callers : caller[c] # "idle" /\ caller[d] # "idle" => c = d

\* While calls do not overlap, wait returns: the caller is notified when the
\* last of its tasks has run.
WaitReturns ==
  []OneCallAtATime => \A c \in Callers : caller[c] = "asleep" ~> caller[c] = "idle"

\* The join of the destructor ends: every worker leaves its loop.
DestroyJoins == finish ~> \A w \in Workers : worker[w] = "exited"

\* Nothing is queued and every worker sleeps.
PoolIsIdle == Drained /\ \A w \in Workers : worker[w] = "asleep"

\* stenos_compress_generic returns "the number of bytes compressed, or an error
\* code" (stenos.h:195): a caller that waits while the pool is idle, with no task
\* anywhere, is let out of wait, also when another thread shares the pool.
CallReturns ==
  \A c \in Callers :
    caller[c] = "asleep" /\ PoolIsIdle ~> caller[c] # "asleep"
===============================================================================

----------------------------- MODULE ThreadPool -----------------------------
(***************************************************************************)
(* The worker pool of common/pool.c.  Each section of the code that holds  *)
(* queueMutex is one step, cut where it waits on a condition variable.     *)
(* Fields of POOL_ctx_s have their own names.                              *)
(***************************************************************************)
EXTENDS Integers, Sequences, FiniteSets

CONSTANTS
  Callers,         \* threads that call POOL_... functions
  numThreads,      \* arguments of POOL_create
  intendedSize,
  MaxThreads,      \* the most threads that POOL_resize is asked for
  MaxJobs,         \* jobs that are added at most
  MaxResizes,      \* calls of POOL_resize at most
  JoinsJobs        \* whether callers use POOL_joinJobs

PoolAssumption ==
  /\ numThreads \in Nat \ {0} /\ intendedSize \in Nat /\ MaxThreads \in Nat
  /\ numThreads <= MaxThreads
  /\ MaxJobs \in Nat /\ MaxResizes \in Nat /\ JoinsJobs \in BOOLEAN
  /\ IsFiniteSet(Callers)

Workers == 1 .. MaxThreads
Jobs == 1 .. MaxJobs
NoJob == 0

\* One slot is wasted to tell an empty queue from a full one.
queueSize == intendedSize + 1

VARIABLES
  queue, queueHead, queueTail, queueEmpty,
  numThreadsBusy, threadCapacity, threadLimit, shutdown,
  worker,     \* each worker thread: where it is, and its job
  caller,     \* each caller: where it is, and the job it adds
  jobs,       \* how many jobs the queue has taken
  done,       \* jobs that have run
  resizes

ring == <<queue, queueHead, queueTail, queueEmpty>>
vars == <<ring, numThreadsBusy, threadCapacity, threadLimit, shutdown, worker, caller, jobs, done, resizes>>

Idle == [at |-> "idle", job |-> NoJob]

\* POOL_create_advanced() up to the first thread.
Init ==
  /\ queue = [i \in 0 .. queueSize - 1 |-> NoJob]
  /\ queueHead = 0 /\ queueTail = 0 /\ queueEmpty = TRUE
  /\ numThreadsBusy = 0 /\ threadCapacity = 0 /\ threadLimit = 0
  /\ shutdown = FALSE
  /\ worker = [w \in Workers |-> [at |-> "none", job |-> NoJob]]
  /\ \E c \in Callers : caller = [d \in Callers |-> IF d = c THEN [Idle EXCEPT !.at = "create"] ELSE Idle]
  /\ jobs = 0 /\ done = {} /\ resizes = 0

\* Condition variables --------------------------------------------------------------

WaitingToPop == {w \in Workers : worker[w].at = "wait"}
WaitingToPush == {c \in Callers : caller[c].at \in {"waitPush", "waitJobs"}}

Woken(at) == CASE at = "waitPush" -> "add" [] at = "waitJobs" -> "joinJobs"

\* pthread_cond_signal: one of those that wait, if any, whichever.
SignalPush(callers) ==
  IF WaitingToPush = {} THEN caller' = callers
  ELSE \E c \in WaitingToPush : caller' = [callers EXCEPT ![c].at = Woken(@)]

SignalPop(workers) ==
  IF WaitingToPop = {} THEN worker' = workers
  ELSE \E w \in WaitingToPop : worker' = [workers EXCEPT ![w].at = "lock"]

BroadcastPop(workers) ==
  worker' = [w \in Workers |-> IF workers[w].at = "wait" THEN [workers[w] EXCEPT !.at = "lock"] ELSE workers[w]]

\* POOL_thread() ----------------------------------------------------------------------

MustWait == queueEmpty \/ numThreadsBusy >= threadLimit

Wait(w) ==
  /\ worker[w].at = "lock" /\ MustWait /\ ~shutdown
  /\ worker' = [worker EXCEPT ![w].at = "wait"]
  /\ UNCHANGED <<ring, numThreadsBusy, threadCapacity, threadLimit, shutdown, caller, jobs, done, resizes>>

\* Not the code: a worker leaves as soon as it sees the shutdown.
ExitAtOnce(w) ==
  /\ worker[w].at = "lock" /\ shutdown
  /\ worker' = [worker EXCEPT ![w].at = "exited"]
  /\ UNCHANGED <<ring, numThreadsBusy, threadCapacity, threadLimit, shutdown, caller, jobs, done, resizes>>

Exit(w) ==
  /\ worker[w].at = "lock" /\ MustWait /\ shutdown
  /\ worker' = [worker EXCEPT ![w].at = "exited"]
  /\ UNCHANGED <<ring, numThreadsBusy, threadCapacity, threadLimit, shutdown, caller, jobs, done, resizes>>

\* Not the code: the queue counts as empty when head and tail meet, before the pop too.
EmptyBeforePop == queueHead = queueTail

EmptyAfterPop == queueHead' = queueTail

Pop(w) ==
  /\ worker[w].at = "lock" /\ ~MustWait
  /\ worker' = [worker EXCEPT ![w] = [at |-> "run", job |-> queue[queueHead]]]
  /\ queueHead' = (queueHead + 1) % queueSize
  /\ queueEmpty' = EmptyAfterPop
  /\ numThreadsBusy' = numThreadsBusy + 1
  /\ SignalPush(caller)
  /\ UNCHANGED <<queue, queueTail, threadCapacity, threadLimit, shutdown, jobs, done, resizes>>

\* job.function(job.opaque), without the mutex.
Run(w) ==
  /\ worker[w].at = "run"
  /\ done' = done \cup {worker[w].job}
  /\ worker' = [worker EXCEPT ![w] = [at |-> "ran", job |-> NoJob]]
  /\ UNCHANGED <<ring, numThreadsBusy, threadCapacity, threadLimit, shutdown, caller, jobs, resizes>>

\* Not the code: pushers are not told that a thread is free.
FinishSilently(w) ==
  /\ worker[w].at = "ran"
  /\ numThreadsBusy' = numThreadsBusy - 1
  /\ worker' = [worker EXCEPT ![w].at = "lock"]
  /\ UNCHANGED <<ring, threadCapacity, threadLimit, shutdown, caller, jobs, done, resizes>>

Finish(w) ==
  /\ worker[w].at = "ran"
  /\ numThreadsBusy' = numThreadsBusy - 1
  /\ worker' = [worker EXCEPT ![w].at = "lock"]
  /\ SignalPush(caller)
  /\ UNCHANGED <<ring, threadCapacity, threadLimit, shutdown, jobs, done, resizes>>

\* POOL_create_advanced() ----------------------------------------------------------------

Started == {w \in Workers : worker[w].at # "none"}
Start(w) == worker' = [worker EXCEPT ![w].at = "lock"]

\* Workers find threadLimit = 0 until all of them have been created.
CreateThread(c) ==
  /\ caller[c].at = "create"
  /\ Cardinality(Started) < numThreads
  /\ Start(Cardinality(Started) + 1)
  /\ UNCHANGED <<ring, numThreadsBusy, threadCapacity, threadLimit, shutdown, caller, jobs, done, resizes>>

\* Not the code: the threads that were created are not recorded, so POOL_join leaves them.
CreateThreadFailsUnrecorded(c) ==
  /\ caller[c].at = "create"
  /\ Cardinality(Started) < numThreads
  /\ caller' = [caller EXCEPT ![c].at = "free"]
  /\ UNCHANGED <<ring, numThreadsBusy, threadCapacity, threadLimit, shutdown, worker, jobs, done, resizes>>

CreateThreadFails(c) ==
  /\ caller[c].at = "create"
  /\ Cardinality(Started) < numThreads
  /\ threadCapacity' = Cardinality(Started)
  /\ caller' = [caller EXCEPT ![c].at = "free"]
  /\ UNCHANGED <<ring, numThreadsBusy, threadLimit, shutdown, worker, jobs, done, resizes>>

Created(c) ==
  /\ caller[c].at = "create"
  /\ Cardinality(Started) = numThreads
  /\ threadCapacity' = numThreads /\ threadLimit' = numThreads
  /\ caller' = [caller EXCEPT ![c] = Idle]
  /\ UNCHANGED <<ring, numThreadsBusy, shutdown, worker, jobs, done, resizes>>

\* POOL_add(), POOL_tryAdd() -----------------------------------------------------------------

Usable == threadCapacity > 0 /\ \A c \in Callers : caller[c].at \notin {"create", "free", "wake", "join", "freed"}

\* Not the code: with one slot, only the threads are looked at, not the job that waits.
FullWhenBusy ==
  IF queueSize > 1 THEN queueHead = (queueTail + 1) % queueSize
  ELSE numThreadsBusy = threadLimit

isQueueFull ==
  IF queueSize > 1 THEN queueHead = (queueTail + 1) % queueSize
  ELSE numThreadsBusy = threadLimit \/ ~queueEmpty

\* POOL_add_internal(): nothing once the pool shuts down.
AddInternal ==
  IF shutdown THEN UNCHANGED <<ring, worker, jobs>>
  ELSE /\ jobs' = jobs + 1
       /\ queue' = [queue EXCEPT ![queueTail] = jobs + 1]
       /\ queueTail' = (queueTail + 1) % queueSize
       /\ queueEmpty' = FALSE
       /\ UNCHANGED queueHead
       /\ SignalPop(worker)

\* The bound counts the jobs that are about to be added.
MayAdd == jobs + Cardinality({c \in Callers : caller[c].at \in {"add", "waitPush"}}) < MaxJobs

CallAdd(c) ==
  /\ caller[c] = Idle /\ Usable /\ MayAdd
  /\ caller' = [caller EXCEPT ![c].at = "add"]
  /\ UNCHANGED <<ring, numThreadsBusy, threadCapacity, threadLimit, shutdown, worker, jobs, done, resizes>>

AddWaits(c) ==
  /\ caller[c].at = "add" /\ isQueueFull /\ ~shutdown
  /\ caller' = [caller EXCEPT ![c].at = "waitPush"]
  /\ UNCHANGED <<ring, numThreadsBusy, threadCapacity, threadLimit, shutdown, worker, jobs, done, resizes>>

Add(c) ==
  /\ caller[c].at = "add" /\ (~isQueueFull \/ shutdown)
  /\ AddInternal
  /\ caller' = [caller EXCEPT ![c] = Idle]
  /\ UNCHANGED <<numThreadsBusy, threadCapacity, threadLimit, shutdown, done, resizes>>

\* POOL_tryAdd, when it returns 1; otherwise it changes nothing.
TryAdd(c) ==
  /\ caller[c] = Idle /\ Usable /\ MayAdd
  /\ ~isQueueFull
  /\ AddInternal
  /\ UNCHANGED <<numThreadsBusy, threadCapacity, threadLimit, shutdown, caller, done, resizes>>

\* POOL_joinJobs() ---------------------------------------------------------------------------

CallJoinJobs(c) ==
  /\ JoinsJobs /\ caller[c] = Idle /\ Usable
  /\ caller' = [caller EXCEPT ![c].at = "joinJobs"]
  /\ UNCHANGED <<ring, numThreadsBusy, threadCapacity, threadLimit, shutdown, worker, jobs, done, resizes>>

JoinJobs(c) ==
  /\ caller[c].at = "joinJobs"
  /\ caller' = [caller EXCEPT ![c].at = IF ~queueEmpty \/ numThreadsBusy > 0 THEN "waitJobs" ELSE "idle"]
  /\ UNCHANGED <<ring, numThreadsBusy, threadCapacity, threadLimit, shutdown, worker, jobs, done, resizes>>

\* POOL_resize() -----------------------------------------------------------------------------

Resizes(c) == caller[c] = Idle /\ Usable /\ resizes < MaxResizes /\ resizes' = resizes + 1

Shrink(c, n) ==
  /\ Resizes(c) /\ n \in 1 .. threadCapacity
  /\ threadLimit' = n
  /\ BroadcastPop(worker)
  /\ UNCHANGED <<ring, numThreadsBusy, threadCapacity, shutdown, caller, jobs, done>>

\* Not the code: the limit is raised before it is known that all threads exist.
GrowAtOnce(c, n) ==
  /\ Resizes(c) /\ n \in threadCapacity + 1 .. MaxThreads
  /\ \E last \in threadCapacity .. n :
       /\ threadCapacity' = last
       /\ threadLimit' = n
       /\ BroadcastPop([w \in Workers |->
            IF w \in threadCapacity + 1 .. last THEN [worker[w] EXCEPT !.at = "lock"] ELSE worker[w]])
  /\ UNCHANGED <<ring, numThreadsBusy, shutdown, caller, jobs, done>>

\* The threads up to n are created; when one fails, those before it stay.
Grow(c, n) ==
  /\ Resizes(c) /\ n \in threadCapacity + 1 .. MaxThreads
  /\ \E last \in threadCapacity .. n :
       /\ threadCapacity' = last
       /\ threadLimit' = IF last = n THEN n ELSE threadLimit
       /\ BroadcastPop([w \in Workers |->
            IF w \in threadCapacity + 1 .. last THEN [worker[w] EXCEPT !.at = "lock"] ELSE worker[w]])
  /\ UNCHANGED <<ring, numThreadsBusy, shutdown, caller, jobs, done>>

\* POOL_free() -------------------------------------------------------------------------------

\* No other thread may be in the pool.
CallFree(c) ==
  /\ Usable /\ \A d \in Callers : caller[d] = Idle
  /\ caller' = [caller EXCEPT ![c].at = "free"]
  /\ UNCHANGED <<ring, numThreadsBusy, threadCapacity, threadLimit, shutdown, worker, jobs, done, resizes>>

ShutDown(c) ==
  /\ caller[c].at = "free"
  /\ shutdown' = TRUE
  /\ caller' = [caller EXCEPT ![c].at = "wake"]
  /\ UNCHANGED <<ring, numThreadsBusy, threadCapacity, threadLimit, worker, jobs, done, resizes>>

\* The broadcasts come after the mutex is released.
WakeAll(c) ==
  /\ caller[c].at = "wake"
  /\ BroadcastPop(worker)
  /\ caller' = [caller EXCEPT ![c].at = "join"]
  /\ UNCHANGED <<ring, numThreadsBusy, threadCapacity, threadLimit, shutdown, jobs, done, resizes>>

Join(c) ==
  /\ caller[c].at = "join"
  /\ \A w \in 1 .. threadCapacity : worker[w].at = "exited"
  /\ caller' = [caller EXCEPT ![c].at = "freed"]
  /\ UNCHANGED <<ring, numThreadsBusy, threadCapacity, threadLimit, shutdown, worker, jobs, done, resizes>>

Work(w) == Wait(w) \/ Exit(w) \/ Pop(w) \/ Run(w) \/ Finish(w)

Proceed(c) ==
  \/ CreateThread(c) \/ CreateThreadFails(c) \/ Created(c)
  \/ AddWaits(c) \/ Add(c) \/ JoinJobs(c)
  \/ ShutDown(c) \/ WakeAll(c) \/ Join(c)

CallPool(c) ==
  \/ CallAdd(c) \/ TryAdd(c) \/ CallJoinJobs(c) \/ CallFree(c)
  \/ \E n \in Workers : Shrink(c, n) \/ Grow(c, n)

Next ==
  \/ \E w \in Workers : Work(w)
  \/ \E c \in Callers : Proceed(c) \/ CallPool(c)

Spec == Init /\ [][Next]_vars

\* Threads run, the mutex is handed on, and jobs end; nobody need call the pool.
FairSpec ==
  /\ Spec
  /\ \A w \in Workers : WF_vars(Work(w))
  /\ \A c \in Callers : WF_vars(Proceed(c))
-----------------------------------------------------------------------------
Busy == {w \in Workers : worker[w].at \in {"run", "ran"}}

TypeOK ==
  /\ queue \in [0 .. queueSize - 1 -> Jobs \cup {NoJob}]
  /\ queueHead \in 0 .. queueSize - 1 /\ queueTail \in 0 .. queueSize - 1
  /\ queueEmpty \in BOOLEAN /\ shutdown \in BOOLEAN
  /\ numThreadsBusy = Cardinality(Busy)
  /\ threadCapacity \in 0 .. MaxThreads /\ threadLimit \in 0 .. threadCapacity
  /\ jobs \in 0 .. MaxJobs /\ done \subseteq Jobs

\* The jobs in the ring, oldest first.
Length == IF queueEmpty THEN 0
          ELSE IF queueHead < queueTail THEN queueTail - queueHead
          ELSE queueTail - queueHead + queueSize
Waiting == [i \in 1 .. Length |-> queue[(queueHead + i - 1) % queueSize]]

Running == {worker[w].job : w \in {v \in Workers : worker[v].at = "run"}}

Promised == INSTANCE JobQueue WITH waiting <- Waiting, running <- Running

(* The ring, its flag for emptiness and the workers together are a queue of *)
(* jobs: each accepted job is run once, in order, in spite of the ring that *)
(* wraps around, of resizes, and of the shutdown.                           *)
ImplementsQueue == Promised!QueueNext \/ UNCHANGED <<Waiting, Running, done>>

(* A pool that has been freed has no thread left that could touch it, also  *)
(* when the creation of a thread has failed in POOL_create or POOL_resize.  *)
FreedWhenQuiet ==
  (\E c \in Callers : caller[c].at = "freed") => \A w \in Workers : worker[w].at \in {"none", "exited"}

(* Every job that was accepted runs, even when the pool shuts down with     *)
(* fewer threads allowed than it has: enough of them stay to finish the     *)
(* queue (pool.c:77-79).                                                    *)
AcceptedJobsRun == <>[](done = 1 .. jobs)

\* A caller waits for the jobs to end while another one waits on the same condition.
JoinerHasCompany == \E c, d \in WaitingToPush : c # d /\ caller[c].at = "waitJobs"

(* Every function of the pool returns, unless a caller has waited in        *)
(* POOL_joinJobs while another waited in it or in POOL_add: they share      *)
(* queuePushCond, whose signal wakes one of them, and POOL_joinJobs returns *)
(* without passing it on (pool.c:196-199), so the other may wait for good   *)
(* beside an idle pool.                                                     *)
CallsReturn ==
  \/ <>JoinerHasCompany
  \/ \A c \in Callers : caller[c].at \notin {"idle", "freed"} ~> caller[c].at \in {"idle", "freed"}
=============================================================================

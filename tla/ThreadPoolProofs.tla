-------------------------- MODULE ThreadPoolProofs --------------------------
(***************************************************************************)
(* Theorems about ThreadPool, for any number of callers, of threads, of    *)
(* jobs, and any size of the queue.                                        *)
(***************************************************************************)
EXTENDS ThreadPool, FiniteSetTheorems, TLAPS

WorkerPlaces == {"none", "lock", "wait", "run", "ran", "exited"}

\* Where a caller has the pool for itself.
AlonePlaces == {"create", "free", "wake", "join", "freed"}
CallerPlaces == AlonePlaces \cup {"idle", "add", "waitPush", "joinJobs", "waitJobs"}

WorkerStates == [at : WorkerPlaces, job : Jobs \cup {NoJob}]
CallerStates == [at : CallerPlaces, job : {NoJob}]

Places ==
  /\ worker \in [Workers -> WorkerStates]
  /\ caller \in [Callers -> CallerStates]
  /\ \A c, d \in Callers : caller[c].at \in AlonePlaces /\ d # c => caller[d].at = "idle"

\* The threads that exist are the first ones; all are recorded once POOL_create ends.
Creating == \E c \in Callers : caller[c].at = "create"
Threads ==
  /\ Creating => /\ threadCapacity = 0
                 /\ \E n \in 0 .. numThreads : Started = 1 .. n
  /\ ~Creating => Started = 1 .. threadCapacity
  /\ \A c \in Callers : caller[c].at = "freed" =>
       \A w \in 1 .. threadCapacity : worker[w].at = "exited"

\* Those that are about to add a job.
Adding == {c \in Callers : caller[c].at \in {"add", "waitPush"}}
JobsBound == jobs + Cardinality(Adding) <= MaxJobs

\* The ring holds the newest jobs, the others have been taken out of it once.
Taken == jobs - Length
RingShape ==
  /\ queueEmpty => queueHead = queueTail
  /\ ~queueEmpty /\ queueHead = queueTail => queueSize = 1
RingJobs ==
  /\ Length <= jobs
  /\ \A i \in 1 .. Length : queue[(queueHead + i - 1) % queueSize] = Taken + i
JobsTaken ==
  /\ done \subseteq 1 .. Taken
  /\ \A w \in Workers : worker[w].at = "run" =>
       /\ worker[w].job \in 1 .. Taken /\ worker[w].job \notin done
       /\ \A v \in Workers : worker[v].at = "run" /\ worker[v].job = worker[w].job => v = w
  /\ \A j \in 1 .. Taken : j \in done \/ \E w \in Workers : worker[w].at = "run" /\ worker[w].job = j

IInv == TypeOK /\ Places /\ Threads /\ JobsBound /\ RingShape /\ RingJobs /\ JobsTaken

-----------------------------------------------------------------------------
LEMMA Sizes ==
  ASSUME PoolAssumption
  PROVE  /\ numThreads \in Nat /\ numThreads > 0 /\ MaxThreads \in Nat /\ numThreads <= MaxThreads
         /\ MaxJobs \in Nat /\ queueSize \in Nat /\ queueSize > 0 /\ queueSize = intendedSize + 1
         /\ intendedSize \in Nat
         /\ IsFiniteSet(Callers)
  BY DEF PoolAssumption, queueSize

\* What the remainder does to a place that is at most once around the ring.
LEMMA Remainder ==
  ASSUME NEW size \in Nat, size > 0, NEW n \in Nat, n < size + size
  PROVE  /\ n % size \in Nat /\ n % size < size
         /\ n < size => n % size = n
         /\ ~(n < size) => n % size = n - size
  OBVIOUS

\* A worker, or a caller, goes somewhere.
LEMMA WorkerAt ==
  ASSUME worker \in [Workers -> WorkerStates], NEW w \in Workers, NEW at \in WorkerPlaces,
         worker' = [worker EXCEPT ![w].at = at]
  PROVE  /\ worker' \in [Workers -> WorkerStates]
         /\ \A v \in Workers : /\ worker'[v].job = worker[v].job
                               /\ worker'[v].at = IF v = w THEN at ELSE worker[v].at
  BY DEF WorkerStates

LEMMA WorkerIs ==
  ASSUME worker \in [Workers -> WorkerStates], NEW w \in Workers, NEW at \in WorkerPlaces,
         NEW job \in Jobs \cup {NoJob},
         worker' = [worker EXCEPT ![w] = [at |-> at, job |-> job]]
  PROVE  /\ worker' \in [Workers -> WorkerStates]
         /\ worker'[w].at = at /\ worker'[w].job = job
         /\ \A v \in Workers \ {w} : worker'[v] = worker[v]
  BY DEF WorkerStates

LEMMA CallerAt ==
  ASSUME caller \in [Callers -> CallerStates], NEW c \in Callers, NEW at \in CallerPlaces,
         caller' = [caller EXCEPT ![c].at = at]
  PROVE  /\ caller' \in [Callers -> CallerStates]
         /\ \A d \in Callers : caller'[d].at = IF d = c THEN at ELSE caller[d].at
  BY DEF CallerStates

LEMMA CallerIdle ==
  ASSUME caller \in [Callers -> CallerStates], NEW c \in Callers, caller' = [caller EXCEPT ![c] = Idle]
  PROVE  /\ caller' \in [Callers -> CallerStates]
         /\ \A d \in Callers : caller'[d].at = IF d = c THEN "idle" ELSE caller[d].at
  BY DEF CallerStates, CallerPlaces, Idle

\* Workers without a job go to sleep, are woken, or leave.
WorkersIdle ==
  /\ worker' \in [Workers -> WorkerStates]
  /\ \A w \in Workers :
       /\ worker'[w].job = worker[w].job
       /\ \/ worker'[w].at = worker[w].at
          \/ worker[w].at \in {"lock", "wait"} /\ worker'[w].at \in {"lock", "wait", "exited"}

\* A caller that waits is woken, or nobody.

CallersWake ==
  /\ caller' \in [Callers -> CallerStates]
  /\ \A c \in Callers :
       \/ caller'[c].at = caller[c].at
       \/ caller[c].at = "waitPush" /\ caller'[c].at = "add"
       \/ caller[c].at = "waitJobs" /\ caller'[c].at = "joinJobs"

LEMMA PopSignalled ==
  ASSUME worker \in [Workers -> WorkerStates], SignalPop(worker) PROVE WorkersIdle
  <1>1. CASE WaitingToPop = {}
    BY <1>1 DEF SignalPop, WorkersIdle
  <1>2. CASE WaitingToPop # {}
    <2>1. PICK w \in WaitingToPop : worker' = [worker EXCEPT ![w].at = "lock"]
      BY <1>2 DEF SignalPop
    <2>2. w \in Workers /\ worker[w].at = "wait" /\ "lock" \in WorkerPlaces
      BY DEF WaitingToPop, WorkerPlaces
    <2>3. /\ worker' \in [Workers -> WorkerStates]
          /\ \A v \in Workers : /\ worker'[v].job = worker[v].job
                                /\ worker'[v].at = IF v = w THEN "lock" ELSE worker[v].at
      BY <2>1, <2>2, WorkerAt
    <2> QED BY <2>2, <2>3 DEF WorkersIdle
  <1> QED
    BY <1>1, <1>2

LEMMA PopBroadcast ==
  ASSUME worker \in [Workers -> WorkerStates], BroadcastPop(worker) PROVE WorkersIdle
  <1>1. worker' = [w \in Workers |-> IF worker[w].at = "wait" THEN [worker[w] EXCEPT !.at = "lock"]
                                     ELSE worker[w]]
    BY DEF BroadcastPop
  <1>2. ASSUME NEW w \in Workers
        PROVE  /\ worker'[w] \in WorkerStates
               /\ worker'[w].job = worker[w].job
               /\ worker'[w].at = worker[w].at \/ (worker[w].at = "wait" /\ worker'[w].at = "lock")
    <2>1. worker[w] \in WorkerStates
      OBVIOUS
    <2>2. CASE worker[w].at = "wait"
      <3>1. worker'[w] = [worker[w] EXCEPT !.at = "lock"]
        BY <1>1, <2>2
      <3> QED BY <2>1, <2>2, <3>1 DEF WorkerStates, WorkerPlaces
    <2>3. CASE worker[w].at # "wait"
      BY <1>1, <2>1, <2>3
    <2> QED BY <2>2, <2>3
  <1> QED
    BY <1>1, <1>2 DEF WorkersIdle

LEMMA PushSignalled ==
  ASSUME caller \in [Callers -> CallerStates], SignalPush(caller) PROVE CallersWake
  <1>1. CASE WaitingToPush = {}
    BY <1>1 DEF SignalPush, CallersWake
  <1>2. CASE WaitingToPush # {}
    <2>1. PICK c \in WaitingToPush : caller' = [caller EXCEPT ![c].at = Woken(@)]
      BY <1>2 DEF SignalPush
    <2> DEFINE at == Woken(caller[c].at)
    <2>2. c \in Callers /\ caller[c].at \in {"waitPush", "waitJobs"}
      BY DEF WaitingToPush
    <2>3. /\ caller[c].at = "waitPush" => at = "add"
          /\ caller[c].at = "waitJobs" => at = "joinJobs"
      BY DEF Woken
    <2>4. at \in CallerPlaces
      BY <2>2, <2>3 DEF CallerPlaces
    <2>5. caller' = [caller EXCEPT ![c].at = at]
      BY <2>1
    <2> HIDE DEF at
    <2>6. /\ caller' \in [Callers -> CallerStates]
          /\ \A d \in Callers : caller'[d].at = IF d = c THEN at ELSE caller[d].at
      BY <2>2, <2>4, <2>5, CallerAt
    <2> QED BY <2>2, <2>3, <2>6 DEF CallersWake
  <1> QED
    BY <1>1, <1>2

-----------------------------------------------------------------------------
\* What each part of the invariant depends on.
SameRing == UNCHANGED <<queue, queueHead, queueTail, queueEmpty, jobs, done>>
SameRuns ==
  \A w \in Workers :
    /\ worker'[w].at = "run" <=> worker[w].at = "run"
    /\ worker[w].at = "run" => worker'[w].job = worker[w].job
SameBusy == \A w \in Workers : worker'[w].at \in {"run", "ran"} <=> worker[w].at \in {"run", "ran"}

Ring == RingShape /\ RingJobs /\ JobsTaken
View == <<Waiting, Running, done>>

LEMMA RingKept == ASSUME Ring, SameRing, SameRuns PROVE Ring' /\ UNCHANGED View
  <1>1. Length' = Length /\ Taken' = Taken /\ Waiting' = Waiting
    BY DEF SameRing, Length, Taken, Waiting
  <1>2. RingShape' /\ RingJobs'
    BY <1>1 DEF Ring, SameRing, RingShape, RingJobs
  <1>3. JobsTaken'
    <2>1. JobsTaken /\ done' = done /\ Taken' = Taken
      BY <1>1 DEF Ring, SameRing
    <2>2. ASSUME NEW w \in Workers, worker'[w].at = "run"
          PROVE  /\ worker'[w].job \in 1 .. Taken /\ worker'[w].job \notin done
                 /\ \A v \in Workers : worker'[v].at = "run" /\ worker'[v].job = worker'[w].job => v = w
      <3>1. worker[w].at = "run" /\ worker'[w].job = worker[w].job
        BY <2>2 DEF SameRuns
      <3>2. ASSUME NEW v \in Workers, worker'[v].at = "run", worker'[v].job = worker'[w].job
            PROVE  v = w
        BY <2>1, <3>1, <3>2 DEF SameRuns, JobsTaken
      <3> QED BY <2>1, <3>1, <3>2 DEF JobsTaken
    <2>3. ASSUME NEW j \in 1 .. Taken
          PROVE  j \in done \/ \E w \in Workers : worker'[w].at = "run" /\ worker'[w].job = j
      BY <2>1 DEF SameRuns, JobsTaken
    <2> QED BY <2>1, <2>2, <2>3 DEF JobsTaken
  <1>4. Running' = Running
    BY DEF SameRuns, Running
  <1> QED
    BY <1>1, <1>2, <1>3, <1>4 DEF Ring, View, SameRing

LEMMA BusyKept == ASSUME SameBusy PROVE Busy' = Busy
  BY DEF SameBusy, Busy

LEMMA IdlingIsSafe == ASSUME WorkersIdle
  PROVE  /\ SameRuns /\ SameBusy /\ worker' \in [Workers -> WorkerStates] /\ Started' = Started
         /\ \A w \in Workers : worker[w].at = "exited" => worker'[w].at = "exited"
  <1>1. ASSUME NEW w \in Workers
        PROVE  /\ worker'[w].job = worker[w].job
               /\ \A at \in {"run", "ran", "none"} : worker'[w].at = at <=> worker[w].at = at
               /\ worker[w].at = "exited" => worker'[w].at = "exited"
    BY DEF WorkersIdle
  <1>2. worker' \in [Workers -> WorkerStates]
    BY DEF WorkersIdle
  <1>3. Started' = Started
    BY <1>1 DEF Started
  <1> QED
    BY <1>1, <1>2, <1>3 DEF SameRuns, SameBusy

\* What callers keep when they are woken.
CallersPart ==
  /\ caller \in [Callers -> CallerStates]
  /\ \A c, d \in Callers : caller[c].at \in AlonePlaces /\ d # c => caller[d].at = "idle"

LEMMA CallersWoken == ASSUME CallersPart, CallersWake
  PROVE  /\ CallersPart' /\ Creating' = Creating /\ Adding' = Adding
         /\ \A c \in Callers : caller'[c].at = "freed" <=> caller[c].at = "freed"
  <1>1. ASSUME NEW c \in Callers
        PROVE  /\ \A at \in AlonePlaces \cup {"idle"} : caller'[c].at = at <=> caller[c].at = at
               /\ caller'[c].at \in {"add", "waitPush"} <=> caller[c].at \in {"add", "waitPush"}
    BY DEF CallersWake, AlonePlaces
  <1>2. CallersPart'
    BY <1>1 DEF CallersPart, CallersWake
  <1>3. Creating' = Creating
    BY <1>1 DEF Creating, AlonePlaces
  <1>4. Adding' = Adding
    BY <1>1 DEF Adding
  <1> QED
    BY <1>1, <1>2, <1>3, <1>4 DEF AlonePlaces

\* Steps that do not concern the jobs, nor what threads there are.
LEMMA Steady ==
  ASSUME PoolAssumption, IInv, SameRing, WorkersIdle, CallersPart', Creating' <=> Creating, JobsBound',
         \A c \in Callers : caller'[c].at = "freed" => caller[c].at = "freed",
         UNCHANGED <<numThreadsBusy, threadCapacity>>,
         threadLimit' \in 0 .. threadCapacity, shutdown' \in BOOLEAN
  PROVE  IInv' /\ UNCHANGED View
  <1>1. /\ SameRuns /\ SameBusy /\ worker' \in [Workers -> WorkerStates] /\ Started' = Started
        /\ \A w \in Workers : worker[w].at = "exited" => worker'[w].at = "exited"
    BY IdlingIsSafe
  <1>2. Ring' /\ UNCHANGED View
    BY <1>1, RingKept DEF IInv, Ring
  <1>3. Places'
    BY <1>1 DEF CallersPart, Places
  <1>4. Threads'
    <2>1. Threads /\ threadCapacity \in 0 .. MaxThreads
      BY DEF IInv, TypeOK
    <2>2. \A w \in 1 .. threadCapacity : w \in Workers
      BY <2>1, Sizes DEF Workers
    <2> QED BY <1>1, <2>1, <2>2 DEF Threads
  <1>5. TypeOK'
    BY <1>1, BusyKept DEF IInv, TypeOK, SameRing
  <1> QED
    BY <1>2, <1>3, <1>4, <1>5 DEF IInv, Ring

\* Caller c goes somewhere.
CallerGoes(c, at) ==
  /\ caller' \in [Callers -> CallerStates]
  /\ \A d \in Callers : caller'[d].at = IF d = c THEN at ELSE caller[d].at

LEMMA CallerMoves ==
  ASSUME IInv, NEW c \in Callers, NEW at \in CallerPlaces, CallerGoes(c, at),
         caller[c].at # "idle" \/ \A d \in Callers : caller[d].at \notin AlonePlaces,
         at \in AlonePlaces => \A d \in Callers : d # c => caller[d].at = "idle"
  PROVE  /\ CallersPart'
         /\ caller[c].at # "create" /\ at # "create" => (Creating' <=> Creating)
         /\ at # "freed" => \A d \in Callers : caller'[d].at = "freed" => caller[d].at = "freed"
  <1>1. \A d, e \in Callers : caller[d].at \in AlonePlaces /\ e # d => caller[e].at = "idle"
    BY DEF IInv, Places
  <1>2. CallersPart'
    BY <1>1 DEF CallersPart, CallerGoes
  <1>3. caller[c].at # "create" /\ at # "create" => (Creating' <=> Creating)
    BY DEF Creating, CallerGoes
  <1>4. at # "freed" => \A d \in Callers : caller'[d].at = "freed" => caller[d].at = "freed"
    BY DEF CallerGoes
  <1> QED
    BY <1>2, <1>3, <1>4

\* The bound on jobs counts those that are about to be added.
LEMMA AddingFacts ==
  ASSUME PoolAssumption
  PROVE  IsFiniteSet(Adding) /\ Cardinality(Adding) \in Nat
  <1>1. IsFiniteSet(Adding)
    BY Sizes, FS_Subset DEF Adding
  <1> QED
    BY <1>1, FS_CardinalityType

LEMMA BoundKept ==
  ASSUME PoolAssumption, IInv, NEW c \in Callers, NEW at, CallerGoes(c, at), UNCHANGED jobs,
         at \in {"add", "waitPush"} => caller[c].at \in {"add", "waitPush"} \/ MayAdd
  PROVE  JobsBound'
  <1>1. IsFiniteSet(Adding) /\ Cardinality(Adding) \in Nat /\ jobs \in Nat /\ MaxJobs \in Nat
    BY Sizes, AddingFacts DEF IInv, TypeOK
  <1>2. CASE at \in {"add", "waitPush"} /\ caller[c].at \notin {"add", "waitPush"}
    <2>1. Adding' = Adding \cup {c} /\ c \notin Adding
      BY <1>2 DEF Adding, CallerGoes
    <2>2. Cardinality(Adding') = Cardinality(Adding) + 1
      BY <1>1, <2>1, FS_AddElement
    <2>3. jobs + Cardinality(Adding) < MaxJobs
      BY <1>2 DEF MayAdd, Adding
    <2> QED BY <1>1, <2>2, <2>3 DEF JobsBound
  <1>3. CASE ~(at \in {"add", "waitPush"} /\ caller[c].at \notin {"add", "waitPush"})
    <2>1. Adding' \subseteq Adding
      BY <1>3 DEF Adding, CallerGoes
    <2>2. Cardinality(Adding') <= Cardinality(Adding) /\ Cardinality(Adding') \in Nat
      BY <1>1, <2>1, FS_Subset, FS_CardinalityType
    <2> QED BY <1>1, <2>2 DEF IInv, JobsBound
  <1> QED
    BY <1>2, <1>3

-----------------------------------------------------------------------------
\* Every step keeps the invariant, and is one of the queue that was promised or none.
Kept == IInv' /\ UNCHANGED View

LEMMA CallerSteps ==
  ASSUME PoolAssumption, IInv, NEW c \in Callers, NEW at \in CallerPlaces \ {"create", "freed"},
         CallerGoes(c, at), caller[c].at # "create",
         caller[c].at # "idle" \/ \A d \in Callers : caller[d].at \notin AlonePlaces,
         at \in AlonePlaces => \A d \in Callers : d # c => caller[d].at = "idle",
         at \in {"add", "waitPush"} => caller[c].at \in {"add", "waitPush"} \/ MayAdd,
         SameRing, WorkersIdle, UNCHANGED <<numThreadsBusy, threadCapacity, threadLimit>>,
         shutdown' \in BOOLEAN
  PROVE  Kept
  <1>1. /\ CallersPart' /\ (Creating' <=> Creating)
        /\ \A d \in Callers : caller'[d].at = "freed" => caller[d].at = "freed"
    BY CallerMoves
  <1>2. JobsBound'
    BY BoundKept DEF SameRing
  <1>3. threadLimit' \in 0 .. threadCapacity
    BY DEF IInv, TypeOK
  <1> QED
    BY <1>1, <1>2, <1>3, Steady DEF Kept

LEMMA WorkersStay == ASSUME IInv, UNCHANGED worker PROVE WorkersIdle
  BY DEF IInv, Places, WorkersIdle

LEMMA CallersStay ==
  ASSUME IInv, UNCHANGED caller
  PROVE  /\ CallersPart' /\ (Creating' <=> Creating) /\ Adding' = Adding
         /\ \A c \in Callers : caller'[c].at = "freed" => caller[c].at = "freed"
  BY DEF IInv, Places, CallersPart, Creating, Adding

LEMMA UsableAlone ==
  ASSUME Usable PROVE (\A d \in Callers : caller[d].at \notin AlonePlaces) /\ ~Creating
  BY DEF Usable, AlonePlaces, Creating

LEMMA IdleIs ==
  ASSUME IInv, NEW c \in Callers PROVE caller[c].at \in CallerPlaces /\ (caller[c] = Idle => caller[c].at = "idle")
  BY DEF IInv, Places, CallerStates, Idle

LEMMA CallAddKeeps == ASSUME PoolAssumption, IInv, NEW c \in Callers, CallAdd(c) PROVE Kept
  <1>1. CallerGoes(c, "add")
    BY CallerAt DEF CallAdd, IInv, Places, CallerGoes, CallerPlaces
  <1>2. WorkersIdle /\ SameRing /\ caller[c].at = "idle"
    BY WorkersStay, IdleIs DEF CallAdd, SameRing, ring
  <1>3. \A d \in Callers : caller[d].at \notin AlonePlaces
    BY UsableAlone DEF CallAdd
  <1> QED
    BY <1>1, <1>2, <1>3, CallerSteps DEF CallAdd, CallerPlaces, AlonePlaces, IInv, TypeOK

LEMMA AddWaitsKeeps == ASSUME PoolAssumption, IInv, NEW c \in Callers, AddWaits(c) PROVE Kept
  <1>1. CallerGoes(c, "waitPush")
    BY CallerAt DEF AddWaits, IInv, Places, CallerGoes, CallerPlaces
  <1>2. WorkersIdle /\ SameRing
    BY WorkersStay DEF AddWaits, SameRing, ring
  <1> QED
    BY <1>1, <1>2, CallerSteps DEF AddWaits, CallerPlaces, AlonePlaces, IInv, TypeOK

LEMMA CallJoinJobsKeeps == ASSUME PoolAssumption, IInv, NEW c \in Callers, CallJoinJobs(c) PROVE Kept
  <1>1. CallerGoes(c, "joinJobs")
    BY CallerAt DEF CallJoinJobs, IInv, Places, CallerGoes, CallerPlaces
  <1>2. WorkersIdle /\ SameRing /\ caller[c].at = "idle"
    BY WorkersStay, IdleIs DEF CallJoinJobs, SameRing, ring
  <1>3. \A d \in Callers : caller[d].at \notin AlonePlaces
    BY UsableAlone DEF CallJoinJobs
  <1> QED
    BY <1>1, <1>2, <1>3, CallerSteps DEF CallJoinJobs, CallerPlaces, AlonePlaces, IInv, TypeOK

LEMMA JoinJobsKeeps == ASSUME PoolAssumption, IInv, NEW c \in Callers, JoinJobs(c) PROVE Kept
  <1> DEFINE at == IF ~queueEmpty \/ numThreadsBusy > 0 THEN "waitJobs" ELSE "idle"
  <1>1. at \in {"waitJobs", "idle"} /\ caller' = [caller EXCEPT ![c].at = at]
    BY DEF JoinJobs
  <1> HIDE DEF at
  <1>2. CallerGoes(c, at)
    BY <1>1, CallerAt DEF IInv, Places, CallerGoes, CallerPlaces
  <1>3. WorkersIdle /\ SameRing
    BY WorkersStay DEF JoinJobs, SameRing, ring
  <1> QED
    BY <1>1, <1>2, <1>3, CallerSteps DEF JoinJobs, CallerPlaces, AlonePlaces, IInv, TypeOK

LEMMA CallFreeKeeps == ASSUME PoolAssumption, IInv, NEW c \in Callers, CallFree(c) PROVE Kept
  <1>1. CallerGoes(c, "free")
    BY CallerAt DEF CallFree, IInv, Places, CallerGoes, CallerPlaces, AlonePlaces
  <1>2. WorkersIdle /\ SameRing /\ \A d \in Callers : caller[d].at = "idle"
    BY WorkersStay, IdleIs DEF CallFree, SameRing, ring
  <1> QED
    BY <1>1, <1>2, CallerSteps DEF CallFree, CallerPlaces, AlonePlaces, IInv, TypeOK

LEMMA ShutDownKeeps == ASSUME PoolAssumption, IInv, NEW c \in Callers, ShutDown(c) PROVE Kept
  <1>1. CallerGoes(c, "wake")
    BY CallerAt DEF ShutDown, IInv, Places, CallerGoes, CallerPlaces, AlonePlaces
  <1>2. WorkersIdle /\ SameRing
    BY WorkersStay DEF ShutDown, SameRing, ring
  <1>3. \A d \in Callers : d # c => caller[d].at = "idle"
    BY DEF ShutDown, IInv, Places, AlonePlaces
  <1> QED
    BY <1>1, <1>2, <1>3, CallerSteps DEF ShutDown, CallerPlaces, AlonePlaces, IInv, TypeOK

LEMMA WakeAllKeeps == ASSUME PoolAssumption, IInv, NEW c \in Callers, WakeAll(c) PROVE Kept
  <1>1. CallerGoes(c, "join")
    BY CallerAt DEF WakeAll, IInv, Places, CallerGoes, CallerPlaces, AlonePlaces
  <1>2. WorkersIdle /\ SameRing
    BY PopBroadcast DEF WakeAll, SameRing, ring, IInv, Places
  <1>3. \A d \in Callers : d # c => caller[d].at = "idle"
    BY DEF WakeAll, IInv, Places, AlonePlaces
  <1> QED
    BY <1>1, <1>2, <1>3, CallerSteps DEF WakeAll, CallerPlaces, AlonePlaces, IInv, TypeOK

LEMMA ShrinkKeeps ==
  ASSUME PoolAssumption, IInv, NEW c \in Callers, NEW n \in Workers, Shrink(c, n) PROVE Kept
  <1>1. WorkersIdle /\ SameRing /\ UNCHANGED caller
    BY PopBroadcast DEF Shrink, SameRing, ring, IInv, Places
  <1>2. /\ CallersPart' /\ (Creating' <=> Creating) /\ Adding' = Adding
        /\ \A d \in Callers : caller'[d].at = "freed" => caller[d].at = "freed"
    BY <1>1, CallersStay
  <1>3. JobsBound'
    BY <1>1, <1>2 DEF IInv, JobsBound, SameRing
  <1>4. threadLimit' \in 0 .. threadCapacity /\ UNCHANGED <<numThreadsBusy, threadCapacity, shutdown>>
    BY DEF Shrink, IInv, TypeOK
  <1> QED
    BY <1>1, <1>2, <1>3, <1>4, Steady DEF Kept, IInv, TypeOK

\* A worker that goes to sleep, or leaves.
LEMMA WorkerIdles ==
  ASSUME PoolAssumption, IInv, NEW w \in Workers, Wait(w) \/ Exit(w) PROVE Kept
  <1>1. PICK at \in {"wait", "exited"} : worker[w].at = "lock" /\ worker' = [worker EXCEPT ![w].at = at]
    BY DEF Wait, Exit
  <1>2. /\ worker' \in [Workers -> WorkerStates]
        /\ \A v \in Workers : /\ worker'[v].job = worker[v].job
                              /\ worker'[v].at = IF v = w THEN at ELSE worker[v].at
    <2>1. worker \in [Workers -> WorkerStates] /\ at \in WorkerPlaces
      BY DEF IInv, Places, WorkerPlaces
    <2> QED BY <1>1, <2>1, WorkerAt
  <1>3. WorkersIdle
    BY <1>1, <1>2 DEF WorkersIdle
  <1>4. SameRing /\ UNCHANGED <<numThreadsBusy, threadCapacity, threadLimit, shutdown, caller>>
    BY DEF Wait, Exit, SameRing, ring
  <1>5. /\ CallersPart' /\ (Creating' <=> Creating) /\ Adding' = Adding
        /\ \A d \in Callers : caller'[d].at = "freed" => caller[d].at = "freed"
    BY <1>4, CallersStay
  <1>6. JobsBound'
    BY <1>4, <1>5 DEF IInv, JobsBound, SameRing
  <1> QED
    BY <1>3, <1>4, <1>5, <1>6, Steady DEF Kept, IInv, TypeOK

-----------------------------------------------------------------------------
\* The ring.
LEMMA RingNumbers ==
  ASSUME PoolAssumption, IInv
  PROVE  /\ queueHead \in Nat /\ queueTail \in Nat /\ queueSize \in Nat /\ queueSize > 0
         /\ queueHead < queueSize /\ queueTail < queueSize /\ queueEmpty \in BOOLEAN
         /\ Length \in Nat /\ Length <= queueSize /\ Taken \in Nat /\ Taken + Length = jobs
         /\ jobs \in Nat /\ Taken = jobs - Length
         /\ (queueEmpty <=> Length = 0)
         /\ Waiting = [i \in 1 .. Length |-> Taken + i]
  <1>1. /\ queueHead \in Nat /\ queueTail \in Nat /\ queueSize \in Nat /\ queueSize > 0
        /\ queueHead < queueSize /\ queueTail < queueSize /\ queueEmpty \in BOOLEAN /\ jobs \in Nat
    <2>1. queueSize \in Nat /\ queueSize > 0 /\ MaxJobs \in Nat
      BY Sizes
    <2>2. queueHead \in 0 .. queueSize - 1 /\ queueTail \in 0 .. queueSize - 1 /\ jobs \in 0 .. MaxJobs
          /\ queueEmpty \in BOOLEAN
      BY DEF IInv, TypeOK
    <2> QED BY <2>1, <2>2
  <1>2. Length \in Nat /\ Length <= queueSize /\ (queueEmpty <=> Length = 0)
    <2>1. CASE queueEmpty
      BY <1>1, <2>1 DEF Length
    <2>2. CASE ~queueEmpty
      <3>1. Length = IF queueHead < queueTail THEN queueTail - queueHead
                     ELSE queueTail - queueHead + queueSize
        BY <2>2 DEF Length
      <3>2. Length \in Nat /\ Length <= queueSize /\ Length # 0
        BY <1>1, <3>1
      <3> QED BY <2>2, <3>2
    <2> QED BY <1>1, <2>1, <2>2
  <1>3. Taken \in Nat /\ Taken + Length = jobs
    BY <1>1, <1>2 DEF IInv, RingJobs, Taken
  <1>4. Waiting = [i \in 1 .. Length |-> Taken + i]
    BY DEF Waiting, IInv, RingJobs
  <1> QED
    BY <1>1, <1>2, <1>3, <1>4 DEF Taken

LEMMA NextSlot ==
  ASSUME NEW size \in Nat, NEW head \in Nat, head < size, NEW i \in Nat, 1 <= i, i < size
  PROVE  (((head + 1) % size) + i - 1) % size = (head + (i + 1) - 1) % size
  <1>1. size > 0 /\ head + 1 \in Nat /\ head + 1 < size + size
    OBVIOUS
  <1>2. CASE head + 1 < size
    <2>1. (head + 1) % size = head + 1
      BY <1>1, <1>2, Remainder
    <2>2. (head + 1) + i - 1 = head + (i + 1) - 1
      OBVIOUS
    <2> QED BY <2>1, <2>2
  <1>3. CASE ~(head + 1 < size)
    <2>1. head + 1 = size /\ (head + 1) % size = 0
      <3>1. (head + 1) % size = head + 1 - size
        BY <1>1, <1>3, Remainder
      <3> QED BY <1>3, <3>1
    <2>2. /\ i - 1 \in Nat /\ i - 1 < size /\ 0 + i - 1 = i - 1
          /\ head + (i + 1) - 1 \in Nat /\ head + (i + 1) - 1 < size + size
          /\ ~(head + (i + 1) - 1 < size) /\ head + (i + 1) - 1 - size = i - 1
          /\ i - 1 < size + size
      BY <2>1
    <2>3. (i - 1) % size = i - 1
      BY <1>1, <2>2, Remainder
    <2>4. (head + (i + 1) - 1) % size = i - 1
      BY <1>1, <2>2, Remainder
    <2> QED BY <2>1, <2>2, <2>3, <2>4
  <1> QED
    BY <1>2, <1>3

\* A job is taken out.
LEMMA RingPops ==
  ASSUME PoolAssumption, IInv, ~queueEmpty, queueHead' = (queueHead + 1) % queueSize,
         queueEmpty' = (queueHead' = queueTail), UNCHANGED <<queue, queueTail, jobs>>
  PROVE  /\ queueHead' \in 0 .. queueSize - 1 /\ RingShape' /\ RingJobs'
         /\ Length > 0 /\ Length' = Length - 1 /\ Taken' = Taken + 1
         /\ queue[queueHead] = Taken + 1
         /\ Waiting # <<>> /\ Head(Waiting) = Taken + 1 /\ Waiting' = Tail(Waiting)
  <1>1. /\ queueHead \in Nat /\ queueTail \in Nat /\ queueSize \in Nat /\ queueSize > 0
        /\ queueHead < queueSize /\ queueTail < queueSize
        /\ Length \in Nat /\ Length <= queueSize /\ Taken \in Nat /\ Taken + Length = jobs
        /\ jobs \in Nat /\ Taken = jobs - Length /\ Length > 0
        /\ Waiting = [i \in 1 .. Length |-> Taken + i]
    BY RingNumbers
  <1>2. queueHead' \in Nat /\ queueHead' < queueSize
        /\ (queueHead + 1 < queueSize => queueHead' = queueHead + 1)
        /\ (~(queueHead + 1 < queueSize) => queueHead' = 0)
    <2>1. queueHead + 1 \in Nat /\ queueHead + 1 < queueSize + queueSize
      BY <1>1
    <2>2. ~(queueHead + 1 < queueSize) => queueHead + 1 - queueSize = 0
      BY <1>1
    <2> QED BY <1>1, <2>1, <2>2, Remainder
  <1>3. Length' = Length - 1
    <2>1. Length = IF queueHead < queueTail THEN queueTail - queueHead
                   ELSE queueTail - queueHead + queueSize
      BY DEF Length
    <2>2. Length' = IF queueHead' = queueTail THEN 0
                    ELSE IF queueHead' < queueTail THEN queueTail - queueHead'
                    ELSE queueTail - queueHead' + queueSize
      BY DEF Length, queueSize
    <2>3. queueHead = queueTail => queueSize = 1
      BY DEF IInv, RingShape
    <2>4. CASE queueHead + 1 < queueSize
      <3>1. queueHead' = queueHead + 1 /\ queueHead # queueTail
        BY <1>1, <1>2, <2>3, <2>4
      <3> HIDE DEF Length
      <3> QED BY <1>1, <2>1, <2>2, <3>1
    <2>5. CASE ~(queueHead + 1 < queueSize)
      <3>1. queueHead' = 0 /\ queueHead + 1 = queueSize
        BY <1>1, <1>2, <2>5
      <3>2. ~(queueHead < queueTail)
        BY <1>1, <3>1
      <3>3. Length = queueTail + 1
        BY <1>1, <2>1, <3>1, <3>2
      <3>4. Length' = queueTail
        BY <1>1, <2>2, <3>1
      <3> QED BY <1>1, <3>3, <3>4
    <2> QED BY <2>4, <2>5
  <1>4. Taken' = Taken + 1
    BY <1>1, <1>3 DEF Taken
  <1>5. queue[queueHead] = Taken + 1
    <2>1. 1 \in 1 .. Length
      BY <1>1
    <2>2. queueHead + 1 - 1 = queueHead /\ queueHead < queueSize + queueSize
      BY <1>1
    <2>3. queueHead % queueSize = queueHead
      BY <1>1, <2>2, Remainder
    <2>4. queue[(queueHead + 1 - 1) % queueSize] = Taken + 1
      BY <2>1 DEF IInv, RingJobs
    <2> QED BY <2>2, <2>3, <2>4
  <1>6. queueHead' \in 0 .. queueSize - 1
    BY <1>1, <1>2
  <1>7. RingShape'
    BY DEF RingShape
  <1>8. RingJobs'
    <2>1. Length' <= jobs'
      BY <1>1, <1>3
    <2>2. ASSUME NEW i \in 1 .. Length'
          PROVE  queue'[(queueHead' + i - 1) % queueSize] = Taken' + i
      <3>1. i \in Nat /\ 1 <= i /\ i < queueSize /\ i + 1 \in 1 .. Length
        BY <1>1, <1>3
      <3>2. (queueHead' + i - 1) % queueSize = (queueHead + (i + 1) - 1) % queueSize
        BY <1>1, <3>1, NextSlot
      <3>3. queue[(queueHead + (i + 1) - 1) % queueSize] = Taken + (i + 1)
        BY <3>1 DEF IInv, RingJobs
      <3>4. Taken + (i + 1) = Taken' + i
        BY <1>1, <1>4, <3>1
      <3> QED BY <3>2, <3>3, <3>4
    <2> QED BY <2>1, <2>2 DEF RingJobs, queueSize
  <1>9. Waiting' = [i \in 1 .. Length' |-> Taken' + i]
    BY <1>8 DEF Waiting, RingJobs
  <1>10. Waiting # <<>> /\ Head(Waiting) = Taken + 1 /\ Waiting' = Tail(Waiting)
    <2> DEFINE n == Length
               t == Taken
    <2>1. /\ n \in Nat /\ n > 0 /\ t \in Nat /\ Waiting = [i \in 1 .. n |-> t + i]
          /\ Waiting' = [i \in 1 .. n - 1 |-> (t + 1) + i]
      BY <1>1, <1>3, <1>4, <1>9
    <2> HIDE DEF n, t
    <2>2. Waiting \in Seq(Nat) /\ Len(Waiting) = n
      BY <2>1
    <2>3. Waiting # <<>> /\ Head(Waiting) = t + 1
      BY <2>1, <2>2
    <2>4. Tail(Waiting) = [i \in 1 .. n - 1 |-> Waiting[i + 1]]
      BY <2>1, <2>2
    <2>5. \A i \in 1 .. n - 1 : Waiting[i + 1] = (t + 1) + i
      BY <2>1
    <2> QED BY <2>1, <2>3, <2>4, <2>5 DEF t
  <1> QED
    BY <1>1, <1>3, <1>4, <1>5, <1>6, <1>7, <1>8, <1>10

LEMMA FreeSlot ==
  ASSUME PoolAssumption, IInv, ~isQueueFull
  PROVE  /\ Length < queueSize
         /\ (queueHead + Length) % queueSize = queueTail
         /\ queueHead + Length < queueSize => queueTail = queueHead + Length
         /\ ~(queueHead + Length < queueSize) => queueTail = queueHead + Length - queueSize
         /\ (queueTail + 1) % queueSize # queueHead \/ queueSize = 1
         /\ \A i \in 1 .. Length : (queueHead + i - 1) % queueSize # queueTail
  <1>1. /\ queueHead \in Nat /\ queueTail \in Nat /\ queueSize \in Nat /\ queueSize > 0
        /\ queueHead < queueSize /\ queueTail < queueSize
        /\ Length \in Nat /\ Length <= queueSize /\ (queueEmpty <=> Length = 0)
    BY RingNumbers
  <1>2. /\ Length = IF queueEmpty THEN 0
                    ELSE IF queueHead < queueTail THEN queueTail - queueHead
                    ELSE queueTail - queueHead + queueSize
        /\ queueEmpty => queueHead = queueTail
        /\ ~queueEmpty /\ queueHead = queueTail => queueSize = 1
    BY DEF Length, IInv, RingShape
  <1>3. queueSize = 1 => queueEmpty
    BY <1>1 DEF isQueueFull
  <1>4. Length < queueSize
    <2> HIDE DEF Length
    <2>1. CASE queueEmpty
      BY <1>1, <1>2, <2>1
    <2>2. CASE ~queueEmpty
      <3>1. queueHead # queueTail
        BY <1>2, <1>3, <2>2
      <3> QED BY <1>1, <1>2, <2>2, <3>1
    <2> QED BY <2>1, <2>2
  <1>5. (queueTail + 1) % queueSize # queueHead \/ queueSize = 1
    BY <1>1 DEF isQueueFull
  <1>6. (queueHead + Length) % queueSize = queueTail
    <2>1. queueHead + Length \in Nat /\ queueHead + Length < queueSize + queueSize
      BY <1>1, <1>4
    <2>2. CASE queueEmpty
      <3>1. queueHead + Length = queueTail
        BY <1>1, <1>2, <2>2
      <3> QED BY <1>1, <2>1, <3>1, Remainder
    <2>3. CASE ~queueEmpty
      <3>1. \/ queueHead + Length = queueTail
            \/ queueHead + Length - queueSize = queueTail /\ ~(queueHead + Length < queueSize)
        BY <1>1, <1>2, <2>3
      <3> QED BY <1>1, <2>1, <3>1, Remainder
    <2> QED BY <2>2, <2>3
  <1>7. /\ queueHead + Length < queueSize => queueTail = queueHead + Length
        /\ ~(queueHead + Length < queueSize) => queueTail = queueHead + Length - queueSize
    <2>1. queueHead + Length \in Nat /\ queueHead + Length < queueSize + queueSize
      BY <1>1, <1>4
    <2> QED BY <1>1, <1>6, <2>1, Remainder
  <1>8. ASSUME NEW i \in 1 .. Length PROVE (queueHead + i - 1) % queueSize # queueTail
    <2> DEFINE at == queueHead + i - 1
    <2>1. at \in Nat /\ at < queueHead + Length /\ queueHead <= at /\ at < queueSize + queueSize
      BY <1>1, <1>4
    <2>2. /\ at < queueSize => at % queueSize = at
          /\ ~(at < queueSize) => at % queueSize = at - queueSize
      BY <1>1, <2>1, Remainder
    <2> HIDE DEF at
    <2> QED BY <1>1, <1>4, <1>7, <2>1, <2>2 DEF at
  <1> QED
    BY <1>4, <1>5, <1>6, <1>7, <1>8

\* A job is put in.
LEMMA RingTakes ==
  ASSUME PoolAssumption, IInv, ~isQueueFull, jobs' = jobs + 1, jobs < MaxJobs,
         queue' = [queue EXCEPT ![queueTail] = jobs + 1],
         queueTail' = (queueTail + 1) % queueSize, queueEmpty' = FALSE, UNCHANGED queueHead
  PROVE  /\ queue' \in [0 .. queueSize - 1 -> Jobs \cup {NoJob}] /\ queueTail' \in 0 .. queueSize - 1
         /\ RingShape' /\ RingJobs'
         /\ Length' = Length + 1 /\ Taken' = Taken
         /\ Waiting' = Append(Waiting, jobs + 1)
  <1>1. /\ queueHead \in Nat /\ queueTail \in Nat /\ queueSize \in Nat /\ queueSize > 0
        /\ queueHead < queueSize /\ queueTail < queueSize
        /\ Length \in Nat /\ Length <= queueSize /\ Taken \in Nat /\ Taken + Length = jobs
        /\ jobs \in Nat /\ Taken = jobs - Length /\ (queueEmpty <=> Length = 0)
        /\ Waiting = [i \in 1 .. Length |-> Taken + i]
        /\ MaxJobs \in Nat
    BY RingNumbers, Sizes
  <1>2. /\ Length < queueSize /\ (queueHead + Length) % queueSize = queueTail
        /\ (queueTail + 1) % queueSize # queueHead \/ queueSize = 1
        /\ \A i \in 1 .. Length : (queueHead + i - 1) % queueSize # queueTail
    BY FreeSlot
  <1>3. queue' \in [0 .. queueSize - 1 -> Jobs \cup {NoJob}]
    <2>1. jobs + 1 \in Jobs /\ queue \in [0 .. queueSize - 1 -> Jobs \cup {NoJob}]
      BY <1>1 DEF Jobs, IInv, TypeOK
    <2> QED BY <2>1
  <1>4. queueTail' \in Nat /\ queueTail' < queueSize /\ queueTail' \in 0 .. queueSize - 1
        /\ (queueTail + 1 < queueSize => queueTail' = queueTail + 1)
        /\ (~(queueTail + 1 < queueSize) => queueTail' = 0)
    <2>1. queueTail + 1 \in Nat /\ queueTail + 1 < queueSize + queueSize
      BY <1>1
    <2>2. ~(queueTail + 1 < queueSize) => queueTail + 1 - queueSize = 0
      BY <1>1
    <2>3. queueTail' \in Nat /\ queueTail' < queueSize
          /\ (queueTail + 1 < queueSize => queueTail' = queueTail + 1)
          /\ (~(queueTail + 1 < queueSize) => queueTail' = 0)
      BY <1>1, <2>1, <2>2, Remainder
    <2> QED BY <1>1, <2>3
  <1>5. RingShape'
    BY <1>2 DEF RingShape, queueSize
  <1>6. Length' = Length + 1
    <2>1. Length = IF queueEmpty THEN 0
                   ELSE IF queueHead < queueTail THEN queueTail - queueHead
                   ELSE queueTail - queueHead + queueSize
      BY DEF Length
    <2>2. Length' = IF queueHead < queueTail' THEN queueTail' - queueHead
                    ELSE queueTail' - queueHead + queueSize
      BY DEF Length, queueSize
    <2>3. queueEmpty => queueHead = queueTail
      BY DEF IInv, RingShape
    <2>4. /\ queueHead + Length < queueSize => queueTail = queueHead + Length
          /\ ~(queueHead + Length < queueSize) => queueTail = queueHead + Length - queueSize
      BY <1>1, FreeSlot
    <2> HIDE DEF Length
    <2>5. CASE queueSize = 1
      <3>1. queueHead = 0 /\ queueTail = 0 /\ queueTail' = 0 /\ Length = 0
        BY <1>1, <1>2, <1>4, <2>5
      <3> QED BY <2>2, <2>5, <3>1
    <2>6. CASE queueSize # 1
      <3>1. queueTail' # queueHead
        BY <1>2, <2>6
      <3>2. CASE queueTail + 1 < queueSize
        BY <1>1, <1>2, <1>4, <2>2, <2>4, <3>1, <3>2
      <3>3. CASE ~(queueTail + 1 < queueSize)
        BY <1>1, <1>2, <1>4, <2>2, <2>4, <3>1, <3>3
      <3> QED BY <3>2, <3>3
    <2> QED BY <2>5, <2>6
  <1>7. Taken' = Taken
    BY <1>1, <1>6 DEF Taken
  <1>8. RingJobs'
    <2>1. Length' <= jobs'
      BY <1>1, <1>6
    <2>2. ASSUME NEW i \in 1 .. Length'
          PROVE  queue'[(queueHead + i - 1) % queueSize] = Taken + i
      <3>1. CASE i = Length + 1
        <4>1. queueHead + i - 1 = queueHead + Length
          BY <1>1, <3>1
        <4>2. queueTail \in DOMAIN queue
          <5>1. DOMAIN queue = 0 .. queueSize - 1
            BY DEF IInv, TypeOK
          <5> QED BY <1>1, <5>1
        <4>3. Taken + i = jobs + 1
          BY <1>1, <3>1
        <4> QED BY <1>2, <4>1, <4>2, <4>3
      <3>2. CASE i # Length + 1
        <4>1. i \in 1 .. Length
          BY <1>1, <1>6, <3>2
        <4>2. queue[(queueHead + i - 1) % queueSize] = Taken + i
          BY <4>1 DEF IInv, RingJobs
        <4>3. (queueHead + i - 1) % queueSize # queueTail
          BY <1>2, <4>1
        <4>4. (queueHead + i - 1) % queueSize \in DOMAIN queue
          <5>1. DOMAIN queue = 0 .. queueSize - 1
            BY DEF IInv, TypeOK
          <5>2. queueHead + i - 1 \in Nat /\ queueHead + i - 1 < queueSize + queueSize
            BY <1>1, <4>1
          <5>3. (queueHead + i - 1) % queueSize \in Nat /\ (queueHead + i - 1) % queueSize < queueSize
            BY <1>1, <5>2, Remainder
          <5> QED BY <1>1, <5>1, <5>3
        <4> QED BY <4>2, <4>3, <4>4
      <3> QED BY <3>1, <3>2
    <2> QED BY <1>7, <2>1, <2>2 DEF RingJobs, queueSize
  <1>9. Waiting' = [i \in 1 .. Length' |-> Taken' + i]
    BY <1>8 DEF Waiting, RingJobs
  <1>10. Waiting' = Append(Waiting, jobs + 1)
    <2> DEFINE n == Length
               t == Taken
    <2>1. /\ n \in Nat /\ t \in Nat /\ Waiting = [i \in 1 .. n |-> t + i]
          /\ Waiting' = [i \in 1 .. n + 1 |-> t + i] /\ jobs + 1 = t + (n + 1)
      BY <1>1, <1>6, <1>7, <1>9
    <2> HIDE DEF n, t
    <2>2. Waiting \in Seq(Nat) /\ Len(Waiting) = n
      BY <2>1
    <2>3. Append(Waiting, jobs + 1) = [i \in 1 .. n + 1 |-> IF i = n + 1 THEN jobs + 1 ELSE Waiting[i]]
      BY <2>2
    <2>4. ASSUME NEW i \in 1 .. n + 1 PROVE (IF i = n + 1 THEN jobs + 1 ELSE Waiting[i]) = t + i
      <3>1. CASE i = n + 1
        BY <2>1, <3>1
      <3>2. CASE i # n + 1
        <4>1. i \in 1 .. n
          BY <2>1, <3>2
        <4>2. Waiting[i] = t + i
          BY <2>1, <4>1
        <4> QED BY <3>2, <4>2
      <3> QED BY <3>1, <3>2
    <2> QED BY <2>1, <2>3, <2>4
  <1> QED
    BY <1>3, <1>4, <1>5, <1>6, <1>7, <1>8, <1>10

-----------------------------------------------------------------------------
\* Workers with jobs.
LEMMA BusyFinite == ASSUME PoolAssumption PROVE IsFiniteSet(Busy) /\ Cardinality(Busy) \in Nat
  <1>1. IsFiniteSet(Workers)
    BY Sizes, FS_Interval DEF Workers
  <1>2. IsFiniteSet(Busy)
    BY <1>1, FS_Subset DEF Busy
  <1> QED
    BY <1>2, FS_CardinalityType

LEMMA ThreadsStay ==
  ASSUME PoolAssumption, IInv, UNCHANGED threadCapacity, worker' \in [Workers -> WorkerStates],
         Started' = Started, \A w \in Workers : worker[w].at = "exited" => worker'[w].at = "exited",
         CallersPart', Creating' <=> Creating,
         \A c \in Callers : caller'[c].at = "freed" => caller[c].at = "freed"
  PROVE  Places' /\ Threads'
  <1>1. Places'
    BY DEF CallersPart, Places
  <1>2. Threads /\ threadCapacity \in 0 .. MaxThreads
    BY DEF IInv, TypeOK
  <1>3. \A w \in 1 .. threadCapacity : w \in Workers
    BY <1>2, Sizes DEF Workers
  <1>4. Threads'
    BY <1>2, <1>3 DEF Threads
  <1> QED
    BY <1>1, <1>4

LEMMA WakingCallers ==
  ASSUME IInv, SignalPush(caller)
  PROVE  /\ CallersPart' /\ (Creating' <=> Creating) /\ Adding' = Adding
         /\ \A c \in Callers : caller'[c].at = "freed" => caller[c].at = "freed"
  <1>1. CallersPart /\ caller \in [Callers -> CallerStates]
    BY DEF IInv, Places, CallersPart
  <1> QED
    BY <1>1, PushSignalled, CallersWoken

\* Only worker w changes.
LEMMA OneWorker ==
  ASSUME IInv, NEW w \in Workers, worker' \in [Workers -> WorkerStates],
         \A v \in Workers \ {w} : worker'[v] = worker[v],
         worker[w].at \notin {"none", "exited"}, worker'[w].at # "none"
  PROVE  Started' = Started /\ \A v \in Workers : worker[v].at = "exited" => worker'[v].at = "exited"
  BY DEF Started

Kind == Promised!QueueNext \/ UNCHANGED View

LEMMA PopKeeps == ASSUME PoolAssumption, IInv, NEW w \in Workers, Pop(w) PROVE IInv' /\ Kind
  <1>1. /\ worker[w].at = "lock" /\ ~queueEmpty /\ numThreadsBusy' = numThreadsBusy + 1
        /\ queueHead' = (queueHead + 1) % queueSize /\ queueEmpty' = (queueHead' = queueTail)
        /\ UNCHANGED <<queue, queueTail, threadCapacity, threadLimit, shutdown, jobs, done, resizes>>
        /\ worker' = [worker EXCEPT ![w] = [at |-> "run", job |-> queue[queueHead]]]
        /\ SignalPush(caller)
    BY DEF Pop, MustWait, EmptyAfterPop
  <1>2. /\ queueHead' \in 0 .. queueSize - 1 /\ RingShape' /\ RingJobs'
        /\ Length > 0 /\ Length' = Length - 1 /\ Taken' = Taken + 1 /\ queue[queueHead] = Taken + 1
        /\ Waiting # <<>> /\ Head(Waiting) = Taken + 1 /\ Waiting' = Tail(Waiting)
    BY <1>1, RingPops
  <1>3. Taken \in Nat /\ Taken + 1 \in Jobs
    <2>1. /\ Length \in Nat /\ Taken \in Nat /\ Taken + Length = jobs /\ jobs \in 0 .. MaxJobs
          /\ MaxJobs \in Nat
      BY RingNumbers, Sizes DEF IInv, TypeOK
    <2> QED BY <1>2, <2>1 DEF Jobs
  <1>4. /\ worker' \in [Workers -> WorkerStates] /\ worker'[w].at = "run" /\ worker'[w].job = Taken + 1
        /\ \A v \in Workers \ {w} : worker'[v] = worker[v]
    <2>1. worker' = [worker EXCEPT ![w] = [at |-> "run", job |-> Taken + 1]]
      BY <1>1, <1>2
    <2>2. worker \in [Workers -> WorkerStates] /\ "run" \in WorkerPlaces
      BY DEF IInv, Places, WorkerPlaces
    <2> QED BY <1>3, <2>1, <2>2, WorkerIs
  <1>5. /\ CallersPart' /\ (Creating' <=> Creating) /\ Adding' = Adding
        /\ \A c \in Callers : caller'[c].at = "freed" => caller[c].at = "freed"
    BY <1>1, WakingCallers
  <1>6. Places' /\ Threads'
    <2>1. Started' = Started /\ \A v \in Workers : worker[v].at = "exited" => worker'[v].at = "exited"
      BY <1>1, <1>4, OneWorker
    <2> QED BY <1>1, <1>4, <1>5, <2>1, ThreadsStay
  <1>7. JobsBound'
    BY <1>1, <1>5 DEF IInv, JobsBound
  <1>8. numThreadsBusy' = Cardinality(Busy')
    <2>1. Busy' = Busy \cup {w} /\ w \notin Busy
      BY <1>1, <1>4 DEF Busy
    <2>2. Cardinality(Busy') = Cardinality(Busy) + 1
      BY <2>1, BusyFinite, FS_AddElement
    <2> QED BY <1>1, <2>2 DEF IInv, TypeOK
  <1>9. TypeOK'
    BY <1>1, <1>2, <1>8 DEF IInv, TypeOK, queueSize
  <1>10. JobsTaken'
    <2>1. /\ done \subseteq 1 .. Taken /\ done' = done
          /\ \A v \in Workers : worker[v].at = "run" =>
               /\ worker[v].job \in 1 .. Taken /\ worker[v].job \notin done
               /\ \A u \in Workers : worker[u].at = "run" /\ worker[u].job = worker[v].job => u = v
          /\ \A j \in 1 .. Taken : j \in done \/ \E v \in Workers : worker[v].at = "run" /\ worker[v].job = j
      BY <1>1 DEF IInv, JobsTaken
    <2>2. Taken + 1 \notin 1 .. Taken /\ 1 .. (Taken + 1) = (1 .. Taken) \cup {Taken + 1}
      BY <1>3
    <2>3. ASSUME NEW v \in Workers, worker'[v].at = "run"
          PROVE  /\ worker'[v].job \in (1 .. Taken) \cup {Taken + 1} /\ worker'[v].job \notin done
                 /\ \A u \in Workers : worker'[u].at = "run" /\ worker'[u].job = worker'[v].job => u = v
      <3>1. CASE v = w
        BY <1>4, <2>1, <2>2, <3>1
      <3>2. CASE v # w
        BY <1>4, <2>1, <2>2, <2>3, <3>2
      <3> QED BY <3>1, <3>2
    <2>4. ASSUME NEW j \in (1 .. Taken) \cup {Taken + 1}
          PROVE  j \in done \/ \E v \in Workers : worker'[v].at = "run" /\ worker'[v].job = j
      <3>1. CASE j = Taken + 1
        BY <1>4, <3>1
      <3>2. CASE j \in 1 .. Taken
        <4>1. ASSUME NEW v \in Workers, worker[v].at = "run" PROVE worker'[v] = worker[v]
          BY <1>1, <1>4, <4>1
        <4> QED BY <2>1, <3>2, <4>1
      <3> QED BY <3>1, <3>2
    <2>5. Taken' = Taken + 1
      BY <1>2
    <2> QED BY <2>1, <2>2, <2>3, <2>4, <2>5 DEF JobsTaken
  <1>11. Running' = Running \cup {Taken + 1}
    BY <1>1, <1>4 DEF Running
  <1>12. Promised!Start
    BY <1>1, <1>2, <1>11 DEF Promised!Start
  <1> QED
    BY <1>2, <1>6, <1>7, <1>9, <1>10, <1>12 DEF IInv, Kind, Promised!QueueNext

LEMMA RunKeeps == ASSUME PoolAssumption, IInv, NEW w \in Workers, Run(w) PROVE IInv' /\ Kind
  <1> DEFINE job == worker[w].job
  <1>1. /\ worker[w].at = "run" /\ done' = done \cup {job}
        /\ worker' = [worker EXCEPT ![w] = [at |-> "ran", job |-> NoJob]]
        /\ UNCHANGED <<queue, queueHead, queueTail, queueEmpty, numThreadsBusy, threadCapacity, threadLimit,
                       shutdown, caller, jobs>>
    BY DEF Run, ring
  <1>2. /\ worker' \in [Workers -> WorkerStates] /\ worker'[w].at = "ran"
        /\ \A v \in Workers \ {w} : worker'[v] = worker[v]
    <2>1. worker \in [Workers -> WorkerStates] /\ "ran" \in WorkerPlaces /\ NoJob \in Jobs \cup {NoJob}
      BY DEF IInv, Places, WorkerPlaces
    <2> QED BY <1>1, <2>1, WorkerIs
  <1>3. Length' = Length /\ Taken' = Taken /\ Waiting' = Waiting
    BY <1>1 DEF Length, Taken, Waiting
  <1>4. RingShape' /\ RingJobs'
    BY <1>1, <1>3 DEF IInv, RingShape, RingJobs
  <1>5. /\ CallersPart' /\ (Creating' <=> Creating) /\ Adding' = Adding
        /\ \A c \in Callers : caller'[c].at = "freed" => caller[c].at = "freed"
    BY <1>1, CallersStay
  <1>6. Places' /\ Threads'
    <2>1. Started' = Started /\ \A v \in Workers : worker[v].at = "exited" => worker'[v].at = "exited"
      BY <1>1, <1>2, OneWorker
    <2> QED BY <1>1, <1>2, <1>5, <2>1, ThreadsStay
  <1>7. JobsBound'
    BY <1>1, <1>5 DEF IInv, JobsBound
  <1>8. JobsTaken /\ job \in 1 .. Taken
    BY <1>1 DEF IInv, JobsTaken
  <1>9. job \in Jobs
    <2>1. /\ Length \in Nat /\ Taken \in Nat /\ Taken + Length = jobs /\ jobs \in 0 .. MaxJobs
          /\ MaxJobs \in Nat
      BY RingNumbers, Sizes DEF IInv, TypeOK
    <2> HIDE DEF job
    <2> QED BY <1>8, <2>1 DEF Jobs
  <1>10. Busy' = Busy
    BY <1>1, <1>2 DEF Busy
  <1>11. TypeOK'
    BY <1>1, <1>9, <1>10 DEF IInv, TypeOK
  <1>12. JobsTaken'
    <2>1. /\ done \subseteq 1 .. Taken
          /\ \A v \in Workers : worker[v].at = "run" =>
               /\ worker[v].job \in 1 .. Taken /\ worker[v].job \notin done
               /\ \A u \in Workers : worker[u].at = "run" /\ worker[u].job = worker[v].job => u = v
          /\ \A j \in 1 .. Taken : j \in done \/ \E v \in Workers : worker[v].at = "run" /\ worker[v].job = j
      BY <1>8 DEF JobsTaken
    <2>2. ASSUME NEW v \in Workers, worker'[v].at = "run"
          PROVE  v # w /\ worker[v].at = "run" /\ worker'[v].job = worker[v].job
      BY <1>2, <2>2
    <2>3. ASSUME NEW v \in Workers, worker'[v].at = "run"
          PROVE  /\ worker'[v].job \in 1 .. Taken /\ worker'[v].job \notin done'
                 /\ \A u \in Workers : worker'[u].at = "run" /\ worker'[u].job = worker'[v].job => u = v
      <3>1. v # w /\ worker[v].at = "run" /\ worker'[v].job = worker[v].job
        BY <2>2, <2>3
      <3>2. worker[v].job # job
        BY <1>1, <2>1, <3>1
      <3> QED BY <1>1, <2>1, <2>2, <3>1, <3>2
    <2>4. ASSUME NEW j \in 1 .. Taken
          PROVE  j \in done' \/ \E v \in Workers : worker'[v].at = "run" /\ worker'[v].job = j
      <3>1. ASSUME NEW v \in Workers, worker[v].at = "run", v # w PROVE worker'[v] = worker[v]
        BY <1>2, <3>1
      <3> QED BY <1>1, <2>1, <3>1
    <2> QED BY <1>1, <1>3, <1>8, <2>1, <2>3, <2>4 DEF JobsTaken
  <1>13. Running' = Running \ {job} /\ job \in Running
    <2>1. \A v \in Workers : worker[v].at = "run" /\ worker[v].job = job => v = w
      BY <1>1, <1>8 DEF JobsTaken
    <2> QED BY <1>1, <1>2, <2>1 DEF Running
  <1>14. Promised!Complete(job)
    BY <1>1, <1>3, <1>13 DEF Promised!Complete
  <1> QED
    BY <1>4, <1>6, <1>7, <1>9, <1>11, <1>12, <1>14 DEF IInv, Kind, Promised!QueueNext

LEMMA FinishKeeps == ASSUME PoolAssumption, IInv, NEW w \in Workers, Finish(w) PROVE IInv' /\ Kind
  <1>1. /\ worker[w].at = "ran" /\ numThreadsBusy' = numThreadsBusy - 1
        /\ worker' = [worker EXCEPT ![w].at = "lock"] /\ SignalPush(caller)
        /\ UNCHANGED <<threadCapacity, threadLimit, shutdown>> /\ SameRing
    BY DEF Finish, ring, SameRing
  <1>2. /\ worker' \in [Workers -> WorkerStates]
        /\ \A v \in Workers : /\ worker'[v].job = worker[v].job
                              /\ worker'[v].at = IF v = w THEN "lock" ELSE worker[v].at
    <2>1. worker \in [Workers -> WorkerStates] /\ "lock" \in WorkerPlaces
      BY DEF IInv, Places, WorkerPlaces
    <2> QED BY <1>1, <2>1, WorkerAt
  <1>3. Ring' /\ UNCHANGED View
    <2>1. SameRuns
      BY <1>1, <1>2 DEF SameRuns
    <2> QED BY <1>1, <2>1, RingKept DEF IInv, Ring
  <1>4. /\ CallersPart' /\ (Creating' <=> Creating) /\ Adding' = Adding
        /\ \A c \in Callers : caller'[c].at = "freed" => caller[c].at = "freed"
    BY <1>1, WakingCallers
  <1>5. Places' /\ Threads'
    <2>1. Started' = Started /\ \A v \in Workers : worker[v].at = "exited" => worker'[v].at = "exited"
      BY <1>1, <1>2 DEF Started
    <2> QED BY <1>1, <1>2, <1>4, <2>1, ThreadsStay
  <1>6. JobsBound'
    BY <1>1, <1>4 DEF IInv, JobsBound, SameRing
  <1>7. numThreadsBusy' = Cardinality(Busy')
    <2>1. Busy' = Busy \ {w} /\ w \in Busy
      BY <1>1, <1>2 DEF Busy
    <2>2. Cardinality(Busy') = Cardinality(Busy) - 1
      BY <2>1, BusyFinite, FS_RemoveElement
    <2> QED BY <1>1, <2>2 DEF IInv, TypeOK
  <1>8. TypeOK'
    BY <1>1, <1>7 DEF IInv, TypeOK, SameRing
  <1> QED
    BY <1>3, <1>5, <1>6, <1>8 DEF IInv, Ring, Kind

-----------------------------------------------------------------------------
\* Adding jobs.
LEMMA Accepts ==
  ASSUME PoolAssumption, IInv, ~isQueueFull, ~shutdown, AddInternal, jobs < MaxJobs,
         UNCHANGED <<numThreadsBusy, threadCapacity, threadLimit, shutdown, done>>,
         CallersPart', Creating' <=> Creating, JobsBound',
         \A c \in Callers : caller'[c].at = "freed" => caller[c].at = "freed"
  PROVE  IInv' /\ Kind
  <1>1. /\ jobs' = jobs + 1 /\ queue' = [queue EXCEPT ![queueTail] = jobs + 1]
        /\ queueTail' = (queueTail + 1) % queueSize /\ queueEmpty' = FALSE /\ UNCHANGED queueHead
        /\ SignalPop(worker)
    BY DEF AddInternal
  <1>2. /\ queue' \in [0 .. queueSize - 1 -> Jobs \cup {NoJob}] /\ queueTail' \in 0 .. queueSize - 1
        /\ RingShape' /\ RingJobs' /\ Taken' = Taken /\ Waiting' = Append(Waiting, jobs + 1)
    BY <1>1, RingTakes
  <1>3. /\ SameRuns /\ SameBusy /\ worker' \in [Workers -> WorkerStates] /\ Started' = Started
        /\ \A w \in Workers : worker[w].at = "exited" => worker'[w].at = "exited"
    <2>1. WorkersIdle
      BY <1>1, PopSignalled DEF IInv, Places
    <2> QED BY <2>1, IdlingIsSafe
  <1>4. Places' /\ Threads'
    BY <1>3, ThreadsStay
  <1>5. /\ Length \in Nat /\ Taken \in Nat /\ Taken + Length = jobs /\ jobs \in Nat /\ MaxJobs \in Nat
        /\ Waiting = [i \in 1 .. Length |-> Taken + i]
    BY RingNumbers, Sizes
  <1>6. jobs' \in 0 .. MaxJobs /\ jobs + 1 \in Jobs
    BY <1>1, <1>5 DEF Jobs
  <1>7. TypeOK'
    BY <1>1, <1>2, <1>3, <1>6, BusyKept DEF IInv, TypeOK, queueSize
  <1>8. JobsTaken'
    <2>1. JobsTaken
      BY DEF IInv
    <2>2. ASSUME NEW w \in Workers, worker'[w].at = "run"
          PROVE  worker[w].at = "run" /\ worker'[w].job = worker[w].job
      BY <1>3, <2>2 DEF SameRuns
    <2>3. ASSUME NEW j \in 1 .. Taken
          PROVE  j \in done \/ \E w \in Workers : worker'[w].at = "run" /\ worker'[w].job = j
      BY <1>3, <2>1 DEF SameRuns, JobsTaken
    <2> QED BY <1>2, <2>1, <2>2, <2>3 DEF JobsTaken
  <1>9. Running' = Running
    BY <1>3 DEF SameRuns, Running
  <1>10. Promised!Accept(jobs + 1)
    <2>1. jobs + 1 \notin Running
      <3>1. \A w \in Workers : worker[w].at = "run" => worker[w].job \in 1 .. Taken
        BY DEF IInv, JobsTaken
      <3>2. jobs + 1 \notin 1 .. Taken
        BY <1>5
      <3> QED BY <3>1, <3>2 DEF Running
    <2>2. jobs + 1 \notin done
      BY <1>5 DEF IInv, JobsTaken
    <2>3. \A i \in DOMAIN Waiting : Waiting[i] # jobs + 1
      BY <1>5
    <2> QED BY <1>2, <1>6, <1>9, <2>1, <2>2, <2>3 DEF Promised!Accept
  <1> QED
    BY <1>2, <1>4, <1>6, <1>7, <1>8, <1>10 DEF IInv, Kind, Promised!QueueNext

LEMMA StutterKeeps == ASSUME PoolAssumption, IInv, UNCHANGED vars PROVE Kept
  <1>1. /\ SameRing /\ UNCHANGED <<worker, caller, numThreadsBusy, threadCapacity, threadLimit, shutdown>>
    BY DEF vars, ring, SameRing
  <1>2. WorkersIdle
    BY <1>1, WorkersStay
  <1>3. /\ CallersPart' /\ (Creating' <=> Creating) /\ Adding' = Adding
        /\ \A c \in Callers : caller'[c].at = "freed" => caller[c].at = "freed"
    BY <1>1, CallersStay
  <1>4. JobsBound'
    BY <1>1, <1>3 DEF IInv, JobsBound, SameRing
  <1> QED
    BY <1>1, <1>2, <1>3, <1>4, Steady DEF Kept, IInv, TypeOK

LEMMA AddKeeps == ASSUME PoolAssumption, IInv, NEW c \in Callers, Add(c) PROVE IInv' /\ Kind
  <1>1. /\ caller[c].at = "add" /\ (~isQueueFull \/ shutdown) /\ AddInternal
        /\ caller' = [caller EXCEPT ![c] = Idle]
        /\ UNCHANGED <<numThreadsBusy, threadCapacity, threadLimit, shutdown, done, resizes>>
    BY DEF Add
  <1>2. CallerGoes(c, "idle")
    BY <1>1, CallerIdle DEF IInv, Places, CallerGoes
  <1>3. CASE shutdown
    <2>1. UNCHANGED <<ring, worker, jobs>>
      BY <1>1, <1>3 DEF AddInternal
    <2>2. SameRing /\ WorkersIdle
      BY <1>1, <2>1, WorkersStay DEF ring, SameRing
    <2>3. Kept
      BY <1>1, <1>2, <2>2, CallerSteps DEF CallerPlaces, AlonePlaces, IInv, TypeOK
    <2> QED BY <2>3 DEF Kept, Kind
  <1>4. CASE ~shutdown
    <2>1. CallersPart' /\ (Creating' <=> Creating)
          /\ \A d \in Callers : caller'[d].at = "freed" => caller[d].at = "freed"
      BY <1>1, <1>2, CallerMoves DEF CallerPlaces, AlonePlaces
    <2>2. Adding' = Adding \ {c} /\ c \in Adding
      BY <1>1, <1>2 DEF Adding, CallerGoes
    <2>3. Cardinality(Adding') = Cardinality(Adding) - 1 /\ IsFiniteSet(Adding')
      BY <2>2, AddingFacts, FS_RemoveElement
    <2>4. Cardinality(Adding') \in Nat
      BY <2>3, FS_CardinalityType
    <2>5. /\ Cardinality(Adding) \in Nat /\ jobs \in Nat /\ MaxJobs \in Nat
          /\ jobs + Cardinality(Adding) <= MaxJobs
      BY RingNumbers, Sizes, AddingFacts DEF IInv, JobsBound
    <2>6. jobs' = jobs + 1
      BY <1>1, <1>4 DEF AddInternal
    <2>7. jobs < MaxJobs /\ jobs' + Cardinality(Adding') <= MaxJobs
      BY <2>3, <2>4, <2>5, <2>6
    <2>8. JobsBound'
      BY <2>7 DEF JobsBound
    <2> QED BY <1>1, <1>4, <2>1, <2>7, <2>8, Accepts
  <1> QED
    BY <1>3, <1>4

LEMMA TryAddKeeps == ASSUME PoolAssumption, IInv, NEW c \in Callers, TryAdd(c) PROVE IInv' /\ Kind
  <1>1. /\ MayAdd /\ ~isQueueFull /\ AddInternal
        /\ UNCHANGED <<numThreadsBusy, threadCapacity, threadLimit, shutdown, caller, done, resizes>>
    BY DEF TryAdd
  <1>2. CASE shutdown
    <2>1. UNCHANGED vars
      BY <1>1, <1>2 DEF AddInternal, vars
    <2> QED BY <2>1, StutterKeeps DEF Kept, Kind
  <1>3. CASE ~shutdown
    <2>1. /\ CallersPart' /\ (Creating' <=> Creating) /\ Adding' = Adding
          /\ \A d \in Callers : caller'[d].at = "freed" => caller[d].at = "freed"
      BY <1>1, CallersStay
    <2>2. Cardinality(Adding) \in Nat /\ jobs \in Nat /\ MaxJobs \in Nat
      BY RingNumbers, Sizes, AddingFacts
    <2>3. jobs + Cardinality(Adding) < MaxJobs
      BY <1>1 DEF MayAdd, Adding
    <2>4. jobs' = jobs + 1
      BY <1>1, <1>3 DEF AddInternal
    <2>5. jobs < MaxJobs /\ jobs' + Cardinality(Adding) <= MaxJobs
      BY <2>2, <2>3, <2>4
    <2>6. JobsBound'
      BY <2>1, <2>5 DEF JobsBound
    <2> QED BY <1>1, <1>3, <2>1, <2>5, <2>6, Accepts
  <1> QED
    BY <1>2, <1>3

-----------------------------------------------------------------------------
\* The threads: created one after the other, joined together.
LEMMA Numbers == ASSUME NEW n \in Nat PROVE Cardinality(1 .. n) = n
  BY FS_Interval

LEMMA CreateThreadKeeps == ASSUME PoolAssumption, IInv, NEW c \in Callers, CreateThread(c) PROVE Kept
  <1>1. PICK n \in 0 .. numThreads : Started = 1 .. n
    BY DEF CreateThread, IInv, Threads, Creating
  <1>2. n \in Nat /\ Cardinality(Started) = n /\ numThreads \in Nat /\ MaxThreads \in Nat
        /\ numThreads <= MaxThreads
    BY <1>1, Sizes, Numbers
  <1>3. /\ caller[c].at = "create" /\ n < numThreads /\ worker' = [worker EXCEPT ![n + 1].at = "lock"]
        /\ UNCHANGED <<caller, numThreadsBusy, threadCapacity, threadLimit, shutdown>> /\ SameRing
    BY <1>2 DEF CreateThread, Start, ring, SameRing
  <1>4. n + 1 \in Workers /\ n + 1 \notin Started
    BY <1>1, <1>2, <1>3 DEF Workers
  <1>5. worker[n + 1].at = "none"
    BY <1>4 DEF Started
  <1>6. /\ worker' \in [Workers -> WorkerStates]
        /\ \A v \in Workers : /\ worker'[v].job = worker[v].job
                              /\ worker'[v].at = IF v = n + 1 THEN "lock" ELSE worker[v].at
    <2>1. worker \in [Workers -> WorkerStates] /\ "lock" \in WorkerPlaces
      BY DEF IInv, Places, WorkerPlaces
    <2> QED BY <1>3, <1>4, <2>1, WorkerAt
  <1>7. Ring' /\ UNCHANGED View
    <2>1. SameRuns
      BY <1>5, <1>6 DEF SameRuns
    <2> QED BY <1>3, <2>1, RingKept DEF IInv, Ring
  <1>8. /\ CallersPart' /\ (Creating' <=> Creating) /\ Adding' = Adding
        /\ \A d \in Callers : caller'[d].at = "freed" => caller[d].at = "freed"
    BY <1>3, CallersStay
  <1>9. JobsBound'
    BY <1>3, <1>8 DEF IInv, JobsBound, SameRing
  <1>10. TypeOK'
    <2>1. SameBusy
      BY <1>5, <1>6 DEF SameBusy
    <2> QED BY <1>3, <2>1, BusyKept DEF IInv, TypeOK, SameRing
  <1>11. Places'
    BY <1>6, <1>8 DEF CallersPart, Places
  <1>12. Threads'
    <2>1. Started' = Started \cup {n + 1}
      BY <1>4, <1>6 DEF Started
    <2>2. Started' = 1 .. (n + 1) /\ n + 1 \in 0 .. numThreads
      BY <1>1, <1>2, <1>3, <2>1
    <2>3. \A d \in Callers : caller'[d].at # "freed"
      <3>1. \A d \in Callers : d # c => caller[d].at = "idle"
        BY <1>3 DEF IInv, Places, AlonePlaces
      <3> QED BY <1>3, <3>1
    <2>4. Creating' /\ threadCapacity' = 0
      BY <1>3 DEF IInv, Threads, Creating
    <2> QED BY <2>2, <2>3, <2>4 DEF Threads
  <1> QED
    BY <1>7, <1>9, <1>10, <1>11, <1>12 DEF IInv, Ring, Kept

\* POOL_create ends, for the caller to use the pool or to free it.
LEMMA CreationEnds ==
  ASSUME PoolAssumption, IInv, NEW c \in Callers, caller[c].at = "create",
         NEW at \in {"free", "idle"}, CallerGoes(c, at),
         threadCapacity' = Cardinality(Started), threadLimit' \in {0, Cardinality(Started)},
         SameRing, UNCHANGED <<numThreadsBusy, shutdown, worker>>
  PROVE  Kept
  <1>1. PICK n \in 0 .. numThreads : Started = 1 .. n
    BY DEF IInv, Threads, Creating
  <1>2. n \in 0 .. MaxThreads /\ Cardinality(Started) = n /\ n \in Nat
    BY <1>1, Sizes, Numbers
  <1>3. /\ \A d \in Callers : d # c => caller[d].at = "idle"
        /\ at \in CallerPlaces /\ at # "create" /\ at # "freed"
    BY DEF IInv, Places, AlonePlaces, CallerPlaces
  <1>4. /\ CallersPart' /\ ~Creating' /\ \A d \in Callers : caller'[d].at # "freed"
    <2>1. CallersPart'
      BY <1>3, CallerMoves
    <2> QED BY <1>3, <2>1 DEF CallerGoes, Creating
  <1>5. JobsBound'
    BY BoundKept DEF SameRing
  <1>6. SameRuns /\ SameBusy /\ Started' = Started /\ worker' \in [Workers -> WorkerStates]
    BY DEF SameRuns, SameBusy, Started, IInv, Places
  <1>7. Ring' /\ UNCHANGED View
    BY <1>6, RingKept DEF IInv, Ring
  <1>8. threadCapacity' \in 0 .. MaxThreads /\ threadLimit' \in 0 .. threadCapacity'
    BY <1>2
  <1>9. TypeOK'
    BY <1>6, <1>8, BusyKept DEF IInv, TypeOK, SameRing
  <1>10. Places'
    BY <1>4, <1>6 DEF CallersPart, Places
  <1>11. Threads'
    BY <1>1, <1>2, <1>4, <1>6 DEF Threads
  <1> QED
    BY <1>5, <1>7, <1>9, <1>10, <1>11 DEF IInv, Ring, Kept

LEMMA CreateThreadFailsKeeps ==
  ASSUME PoolAssumption, IInv, NEW c \in Callers, CreateThreadFails(c) PROVE Kept
  <1>1. CallerGoes(c, "free")
    BY CallerAt DEF CreateThreadFails, IInv, Places, CallerGoes, CallerPlaces, AlonePlaces
  <1>2. SameRing /\ threadLimit' = 0
    <2>1. threadCapacity = 0 /\ threadLimit \in 0 .. threadCapacity
      BY DEF CreateThreadFails, IInv, Threads, Creating, TypeOK
    <2>2. threadLimit = 0
      BY <2>1
    <2> QED BY <2>2 DEF CreateThreadFails, SameRing, ring
  <1> QED
    BY <1>1, <1>2, CreationEnds DEF CreateThreadFails

LEMMA CreatedKeeps == ASSUME PoolAssumption, IInv, NEW c \in Callers, Created(c) PROVE Kept
  <1>1. CallerGoes(c, "idle")
    BY CallerIdle DEF Created, IInv, Places, CallerGoes
  <1>2. SameRing
    BY DEF Created, SameRing, ring
  <1> QED
    BY <1>1, <1>2, CreationEnds DEF Created

LEMMA GrowKeeps ==
  ASSUME PoolAssumption, IInv, NEW c \in Callers, NEW n \in Workers, Grow(c, n) PROVE Kept
  <1>1. PICK last \in threadCapacity .. n :
          /\ threadCapacity' = last /\ threadLimit' = IF last = n THEN n ELSE threadLimit
          /\ BroadcastPop([w \in Workers |->
               IF w \in threadCapacity + 1 .. last THEN [worker[w] EXCEPT !.at = "lock"] ELSE worker[w]])
    BY DEF Grow
  <1>2. SameRing /\ UNCHANGED <<numThreadsBusy, shutdown, caller>> /\ n \in threadCapacity + 1 .. MaxThreads
    BY DEF Grow, SameRing, ring
  <1>3. /\ threadCapacity \in Nat /\ last \in Nat /\ n \in Nat /\ threadLimit \in 0 .. threadCapacity
        /\ threadCapacity <= last /\ last <= n /\ n <= MaxThreads /\ MaxThreads \in Nat
    BY <1>2, Sizes DEF IInv, TypeOK
  <1>4. Started = 1 .. threadCapacity /\ ~Creating /\ \A d \in Callers : caller[d].at # "freed"
    <2>1. Usable
      BY DEF Grow, Resizes
    <2>2. ~Creating /\ \A d \in Callers : caller[d].at # "freed"
      BY <2>1, UsableAlone DEF AlonePlaces
    <2> QED BY <2>2 DEF IInv, Threads
  <1>5. ASSUME NEW w \in Workers
        PROVE  /\ worker'[w] \in WorkerStates /\ worker'[w].job = worker[w].job
               /\ w \in threadCapacity + 1 .. last => worker[w].at = "none" /\ worker'[w].at = "lock"
               /\ w \notin threadCapacity + 1 .. last =>
                    worker'[w].at = worker[w].at \/ (worker[w].at = "wait" /\ worker'[w].at = "lock")
    <2>1. worker[w] \in WorkerStates
      BY DEF IInv, Places
    <2>2. CASE w \in threadCapacity + 1 .. last
      <3>1. worker[w].at = "none"
        <4>1. w \notin 1 .. threadCapacity
          BY <1>3, <2>2
        <4> QED BY <1>4, <4>1 DEF Started
      <3>2. worker'[w] = [worker[w] EXCEPT !.at = "lock"]
        BY <1>1, <2>1, <2>2 DEF BroadcastPop, WorkerStates
      <3> QED BY <2>1, <2>2, <3>1, <3>2 DEF WorkerStates, WorkerPlaces
    <2>3. CASE w \notin threadCapacity + 1 .. last
      <3>1. worker'[w] = IF worker[w].at = "wait" THEN [worker[w] EXCEPT !.at = "lock"] ELSE worker[w]
        BY <1>1, <2>3 DEF BroadcastPop
      <3>2. CASE worker[w].at = "wait"
        BY <2>1, <2>3, <3>1, <3>2 DEF WorkerStates, WorkerPlaces
      <3>3. CASE worker[w].at # "wait"
        <4>1. worker'[w] = worker[w]
          BY <3>1, <3>3
        <4>2. worker'[w] \in WorkerStates /\ worker'[w].job = worker[w].job /\ worker'[w].at = worker[w].at
          BY <2>1, <4>1
        <4> QED BY <2>3, <4>2
      <3> QED BY <3>2, <3>3
    <2> QED BY <2>2, <2>3
  <1>6. worker' \in [Workers -> WorkerStates]
    BY <1>1, <1>5 DEF BroadcastPop
  <1>7. SameRuns /\ SameBusy
    BY <1>5 DEF SameRuns, SameBusy
  <1>8. Ring' /\ UNCHANGED View
    BY <1>2, <1>7, RingKept DEF IInv, Ring
  <1>9. /\ CallersPart' /\ (Creating' <=> Creating) /\ Adding' = Adding
        /\ \A d \in Callers : caller'[d].at = "freed" => caller[d].at = "freed"
    BY <1>2, CallersStay
  <1>10. JobsBound'
    BY <1>2, <1>9 DEF IInv, JobsBound, SameRing
  <1>11. threadCapacity' \in 0 .. MaxThreads /\ threadLimit' \in 0 .. threadCapacity'
    BY <1>1, <1>3
  <1>12. TypeOK'
    BY <1>2, <1>7, <1>11, BusyKept DEF IInv, TypeOK, SameRing
  <1>13. Places'
    BY <1>6, <1>9 DEF CallersPart, Places
  <1>14. Threads'
    <2>1. Started' = Started \cup (threadCapacity + 1 .. last)
      <3>1. threadCapacity + 1 .. last \subseteq Workers
        BY <1>3 DEF Workers
      <3>2. \A w \in Workers : w \in threadCapacity + 1 .. last => worker'[w].at # "none"
        BY <1>5
      <3>3. \A w \in Workers : w \notin threadCapacity + 1 .. last =>
              (worker'[w].at # "none" <=> worker[w].at # "none")
        BY <1>5
      <3> QED BY <3>1, <3>2, <3>3 DEF Started
    <2>2. Started' = 1 .. last
      BY <1>3, <1>4, <2>1
    <2> QED BY <1>1, <1>4, <1>9, <2>2 DEF Threads
  <1> QED
    BY <1>8, <1>10, <1>12, <1>13, <1>14 DEF IInv, Ring, Kept

LEMMA JoinKeeps == ASSUME PoolAssumption, IInv, NEW c \in Callers, Join(c) PROVE Kept
  <1>1. caller[c].at = "join" /\ \A w \in 1 .. threadCapacity : worker[w].at = "exited"
    BY DEF Join
  <1>2. CallerGoes(c, "freed")
    BY CallerAt DEF Join, IInv, Places, CallerGoes, CallerPlaces, AlonePlaces
  <1>3. SameRing /\ UNCHANGED <<worker, numThreadsBusy, threadCapacity, threadLimit, shutdown>>
    BY DEF Join, SameRing, ring
  <1>4. \A d \in Callers : d # c => caller[d].at = "idle"
    BY <1>1 DEF IInv, Places, AlonePlaces
  <1>5. CallersPart' /\ (Creating' <=> Creating)
    BY <1>1, <1>2, <1>4, CallerMoves DEF CallerPlaces, AlonePlaces
  <1>6. JobsBound'
    BY <1>2, <1>3, BoundKept DEF SameRing
  <1>7. SameRuns /\ SameBusy /\ Started' = Started /\ worker' \in [Workers -> WorkerStates]
    BY <1>3 DEF SameRuns, SameBusy, Started, IInv, Places
  <1>8. Ring' /\ UNCHANGED View
    BY <1>3, <1>7, RingKept DEF IInv, Ring
  <1>9. TypeOK'
    BY <1>3, <1>7, BusyKept DEF IInv, TypeOK, SameRing
  <1>10. Places'
    BY <1>5, <1>7 DEF CallersPart, Places
  <1>11. Threads'
    BY <1>1, <1>3, <1>5, <1>7 DEF Threads, IInv
  <1> QED
    BY <1>6, <1>8, <1>9, <1>10, <1>11 DEF IInv, Ring, Kept

-----------------------------------------------------------------------------
LEMMA Begins == ASSUME PoolAssumption, Init PROVE IInv /\ Promised!QueueInit
  <1>1. /\ queue = [i \in 0 .. queueSize - 1 |-> NoJob] /\ queueHead = 0 /\ queueTail = 0
        /\ queueEmpty = TRUE /\ numThreadsBusy = 0 /\ threadCapacity = 0 /\ threadLimit = 0
        /\ shutdown = FALSE /\ worker = [w \in Workers |-> [at |-> "none", job |-> NoJob]]
        /\ jobs = 0 /\ done = {}
    BY DEF Init
  <1>2. PICK c \in Callers : caller = [d \in Callers |-> IF d = c THEN [Idle EXCEPT !.at = "create"] ELSE Idle]
    BY DEF Init
  <1>3. /\ caller \in [Callers -> CallerStates]
        /\ \A d \in Callers : caller[d].at = IF d = c THEN "create" ELSE "idle"
    BY <1>2 DEF CallerStates, CallerPlaces, AlonePlaces, Idle
  <1>4. Places
    <2>1. [at |-> "none", job |-> NoJob] \in WorkerStates
      BY DEF WorkerStates, WorkerPlaces
    <2>2. worker \in [Workers -> WorkerStates]
      BY <1>1, <2>1
    <2>3. ASSUME NEW d \in Callers, NEW e \in Callers, caller[d].at \in AlonePlaces, e # d
          PROVE  caller[e].at = "idle"
      BY <1>3, <2>3 DEF AlonePlaces
    <2> QED BY <1>3, <2>2, <2>3 DEF Places
  <1>5. Busy = {} /\ Started = {} /\ Adding = {} /\ Running = {}
    BY <1>1, <1>3 DEF Busy, Started, Adding, Running
  <1>6. TypeOK
    <2>1. Cardinality(Busy) = 0
      BY <1>5, FS_EmptySet
    <2>2. 0 \in 0 .. queueSize - 1 /\ 0 \in 0 .. MaxThreads /\ 0 \in 0 .. 0 /\ 0 \in 0 .. MaxJobs
      BY Sizes
    <2> QED BY <1>1, <2>1, <2>2 DEF TypeOK
  <1>7. Threads
    <2>1. Creating /\ \A d \in Callers : caller[d].at # "freed"
      BY <1>3 DEF Creating
    <2>2. 1 .. 0 = {} /\ 0 \in 0 .. numThreads
      BY Sizes
    <2> QED BY <1>1, <1>5, <2>1, <2>2 DEF Threads
  <1>8. JobsBound
    <2>1. Cardinality(Adding) = 0 /\ MaxJobs \in Nat
      BY <1>5, FS_EmptySet, Sizes
    <2> QED BY <1>1, <2>1 DEF JobsBound
  <1>9. Length = 0 /\ Taken = 0
    BY <1>1 DEF Length, Taken
  <1>10. RingShape /\ RingJobs /\ JobsTaken
    BY <1>1, <1>9 DEF RingShape, RingJobs, JobsTaken
  <1>11. Promised!QueueInit
    <2>1. Waiting = <<>>
      BY <1>9 DEF Waiting
    <2> QED BY <1>1, <1>5, <2>1 DEF Promised!QueueInit
  <1> QED
    BY <1>4, <1>6, <1>7, <1>8, <1>10, <1>11 DEF IInv

LEMMA Steps == ASSUME PoolAssumption, IInv, [Next]_vars PROVE IInv' /\ ImplementsQueue
  <1>1. Kept => IInv' /\ Kind
    BY DEF Kept, Kind
  <1>2. Kind = ImplementsQueue
    BY DEF Kind, ImplementsQueue, View
  <1>3. CASE UNCHANGED vars
    BY <1>1, <1>2, <1>3, StutterKeeps
  <1>4. ASSUME NEW w \in Workers, Work(w) PROVE IInv' /\ Kind
    BY <1>1, <1>4, WorkerIdles, PopKeeps, RunKeeps, FinishKeeps DEF Work
  <1>5. ASSUME NEW c \in Callers, Proceed(c) PROVE IInv' /\ Kind
    BY <1>1, <1>5, CreateThreadKeeps, CreateThreadFailsKeeps, CreatedKeeps, AddWaitsKeeps, AddKeeps,
       JoinJobsKeeps, ShutDownKeeps, WakeAllKeeps, JoinKeeps DEF Proceed
  <1>6. ASSUME NEW c \in Callers, CallPool(c) PROVE IInv' /\ Kind
    BY <1>1, <1>6, CallAddKeeps, TryAddKeeps, CallJoinJobsKeeps, CallFreeKeeps, ShrinkKeeps, GrowKeeps
       DEF CallPool
  <1> QED
    BY <1>2, <1>3, <1>4, <1>5, <1>6 DEF Next

LEMMA AlwaysKept == ASSUME PoolAssumption PROVE Spec => []IInv
  <1>1. Init => IInv
    BY Begins
  <1>2. IInv /\ [Next]_vars => IInv'
    BY Steps
  <1> QED
    BY <1>1, <1>2, PTL DEF Spec

(* However many callers and threads there are, and whatever the size of the *)
(* queue: the fields of POOL_ctx_s stay in their ranges, and numThreadsBusy  *)
(* counts the threads that have a job (pool.c:91 and :99).                  *)
THEOREM TypeCorrect == ASSUME PoolAssumption PROVE Spec => []TypeOK
  <1>1. IInv => TypeOK
    BY DEF IInv
  <1> QED
    BY <1>1, AlwaysKept, PTL

(* The ring with its flag and the workers implement the queue of JobQueue:  *)
(* each accepted job is started in its turn and is run once, for any size   *)
(* of the ring (with one slot too), through resizes, failures to create     *)
(* threads, and the shutdown.                                               *)
THEOREM QueueIsKept == ASSUME PoolAssumption PROVE Spec => Promised!QueueInit /\ [][ImplementsQueue]_vars
  <1>1. Init => Promised!QueueInit
    BY Begins
  <1>2. IInv /\ [Next]_vars => ImplementsQueue
    BY Steps
  <1>3. IInv /\ [Next]_vars => [ImplementsQueue]_vars
    BY <1>2
  <1> QED
    BY <1>1, <1>3, AlwaysKept, PTL DEF Spec

(* A pool that has been freed leaves no thread behind, also when some of    *)
(* its threads could not be created (pool.c:152 and :233).          *)
THEOREM NobodyIsLeft == ASSUME PoolAssumption PROVE Spec => []FreedWhenQuiet
  <1>1. IInv => FreedWhenQuiet
    <2> SUFFICES ASSUME IInv, NEW c \in Callers, caller[c].at = "freed", NEW w \in Workers,
                        worker[w].at # "none"
                 PROVE  worker[w].at = "exited"
      BY DEF FreedWhenQuiet
    <2>1. ~Creating
      BY DEF IInv, Places, AlonePlaces, Creating
    <2>2. w \in 1 .. threadCapacity
      BY <2>1 DEF IInv, Threads, Started
    <2> QED BY <2>2 DEF IInv, Threads
  <1> QED
    BY <1>1, AlwaysKept, PTL
=============================================================================

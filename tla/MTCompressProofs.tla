-------------------------- MODULE MTCompressProofs --------------------------
(***************************************************************************)
(* Theorems about MTCompress, for any number of workers, any sizes of jobs *)
(* and prefixes, and any input, while no frame is abandoned.               *)
(***************************************************************************)
EXTENDS MTCompress, SequenceTheorems, WellFoundedInduction, TLAPS

-----------------------------------------------------------------------------
\* Constants

LEMMA Constants ==
  ASSUME MTAssumption
  PROVE  /\ section \in Nat /\ section > 0 /\ chunkSize \in Nat /\ chunkSize > 0
         /\ overlap \in Nat /\ overlap <= section /\ window \in Nat
         /\ NbWorkers \subseteq Nat /\ NbWorkers # {} /\ \A n \in NbWorkers : n > 0 /\ n <= 256
         /\ MaxInput \in Nat /\ Inputs \subseteq Nat
  BY DEF MTAssumption, ZSTDMT_NBWORKERS_MAX

\* A set of numbers has a least one.
LEMMA LeastOf ==
  ASSUME NEW S \in SUBSET Nat, S # {}
  PROVE  \E i \in S : \A j \in S : i <= j
  <1>1. PICK i \in S : \A j \in S : ~(<<j, i>> \in OpToRel(<, Nat))
    BY NatLessThanWellFounded, WFMin
  <1>2. ASSUME NEW j \in S PROVE i <= j
    <2>1. i \in Nat /\ j \in Nat
      OBVIOUS
    <2>2. <<j, i>> \in Nat \X Nat => ~(j < i)
      BY <1>1 DEF OpToRel
    <2> QED
      BY <2>1, <2>2
  <1> QED
    BY <1>2

\* A caller that may have several numbers of workers has a largest one.
LEMMA MostWorkers ==
  ASSUME MTAssumption
  PROVE  MaxWorkers \in NbWorkers /\ \A n \in NbWorkers : n <= MaxWorkers
  <1> DEFINE Gaps == {256 - n : n \in NbWorkers}
  <1>1. Gaps \in SUBSET Nat /\ Gaps # {}
    BY Constants
  <1>2. PICK i \in Gaps : \A j \in Gaps : i <= j
    BY <1>1, LeastOf
  <1>3. PICK n \in NbWorkers : i = 256 - n
    OBVIOUS
  <1>4. ASSUME NEW m \in NbWorkers PROVE m <= n
    <2>1. i <= 256 - m
      BY <1>2
    <2> QED
      BY <1>3, <2>1, Constants
  <1> HIDE DEF Gaps
  <1>5. \E k \in NbWorkers : \A m \in NbWorkers : m <= k
    BY <1>4
  <1> QED
    BY <1>5 DEF MaxWorkers

LEMMA Tables ==
  ASSUME MTAssumption, NEW n \in NbWorkers
  PROVE  /\ TableSize(n) \in {4, 8, 16, 32, 64, 128, 256, 512}
         /\ n + 2 < TableSize(n) /\ TableSize(n) <= 2 * (n + 2)
  <1>1. n \in Nat /\ n > 0 /\ n <= 256
    BY Constants
  <1>2. \E t \in {4, 8, 16, 32, 64, 128, 256, 512} : n + 2 < t /\ t <= 2 * (n + 2)
    BY <1>1
  <1> QED
    BY <1>2 DEF TableSize

LEMMA TablesGrow ==
  ASSUME MTAssumption, NEW n \in NbWorkers
  PROVE  /\ TableSize(n) \in Nat \ {0} /\ TableSize(n) <= TableSize(MaxWorkers)
         /\ TableSize(MaxWorkers) \in Nat
  <1> DEFINE t == TableSize(n)  u == TableSize(MaxWorkers)  m == MaxWorkers
  <1>1. /\ n \in Nat /\ m \in Nat /\ n <= m
        /\ t \in {4, 8, 16, 32, 64, 128, 256, 512} /\ u \in {4, 8, 16, 32, 64, 128, 256, 512}
        /\ n + 2 < t /\ t <= 2 * (n + 2) /\ m + 2 < u /\ u <= 2 * (m + 2)
    BY Constants, MostWorkers, Tables
  <1> HIDE DEF t, u, m
  <1> QED
    BY <1>1 DEF t, u, m

LEMMA ProductsGrow ==
  ASSUME NEW a \in Nat, NEW b \in Nat, NEW c \in Nat, b <= c
  PROVE  a * b \in Nat /\ a * c \in Nat /\ a * b <= a * c
  <1>1. c = b + (c - b) /\ c - b \in Nat
    OBVIOUS
  <1>2. a * c = a * b + a * (c - b)
    BY <1>1
  <1>3. a * (c - b) >= 0 /\ a * b \in Nat /\ a * c \in Nat
    BY <1>1
  <1> QED
    BY <1>2, <1>3

LEMMA Capacities ==
  ASSUME MTAssumption, NEW n \in NbWorkers
  PROVE  /\ capacityFor(n) \in Nat /\ 3 * section <= capacityFor(n)
         /\ capacityFor(n) <= capacityFor(MaxWorkers) /\ capacityFor(MaxWorkers) \in Nat
  <1> DEFINE a == section * n  b == section * MaxWorkers  o == IF overlap > 0 THEN 3 ELSE 2  s == section * o
  <1>1. a \in Nat /\ b \in Nat /\ a <= b /\ section <= a /\ section \in Nat /\ window \in Nat
    <2>1. n \in Nat /\ 1 <= n /\ MaxWorkers \in Nat /\ n <= MaxWorkers /\ section \in Nat
      BY Constants, MostWorkers
    <2>2. section * 1 = section
      BY <2>1
    <2> QED
      BY <2>1, <2>2, ProductsGrow, Constants
  <1>2. s \in Nat /\ 2 * section <= s
    BY Constants
  <1>3. capacityFor(n) = Most(window, a) + s /\ capacityFor(MaxWorkers) = Most(window, b) + s
    BY DEF capacityFor
  <1> HIDE DEF a, b, o, s
  <1> QED
    BY <1>1, <1>2, <1>3 DEF Most

\* Numbers that are less than a table apart have slots of their own.
LEMMA RemaindersDiffer ==
  ASSUME NEW t \in Nat \ {0}, NEW a \in Nat, NEW b \in Nat, a < b, b < a + t
  PROVE  a % t # b % t
  <1> DEFINE p == a \div t  q == b \div t  r == a % t
  <1>1. p \in Nat /\ q \in Nat /\ r \in Nat /\ a = t * p + r /\ b = t * q + (b % t)
    OBVIOUS
  <1>2. ASSUME b % t = r PROVE FALSE
    <2>1. b - a = t * q - t * p
      BY <1>1, <1>2
    <2>2. t * q - t * p = t * (q - p)
      BY <1>1
    <2>3. CASE q <= p
      <3>1. t * q <= t * p
        BY <1>1, <2>3, ProductsGrow
      <3>2. t * q \in Int /\ t * p \in Int
        BY <1>1
      <3> HIDE DEF p, q
      <3> QED BY <2>1, <3>1, <3>2
    <2>4. CASE p + 1 <= q
      <3>1. t * 1 <= t * (q - p) /\ t * 1 = t /\ t * (q - p) \in Int
        BY <1>1, <2>4, ProductsGrow
      <3> HIDE DEF p, q
      <3> QED BY <2>1, <2>2, <3>1
    <2> QED
      BY <1>1, <2>3, <2>4
  <1> QED
    BY <1>2

LEMMA SlotsDiffer ==
  ASSUME mt.table \in Nat \ {0}, NEW j \in Nat, NEW k \in Nat, NEW n \in Nat,
         n <= j, j < n + mt.table, n <= k, k < n + mt.table, Slot(j) = Slot(k)
  PROVE  j = k
  <1> DEFINE t == mt.table
  <1>1. t \in Nat \ {0} /\ j % t = k % t /\ j < n + t /\ k < n + t
    BY DEF Slot
  <1> HIDE DEF t
  <1>2. CASE j < k
    <2>1. k < j + t
      BY <1>1
    <2>2. j % t # k % t
      BY <1>1, <1>2, <2>1, RemaindersDiffer
    <2> QED
      BY <1>1, <2>2
  <1>3. CASE k < j
    <2>1. j < k + t
      BY <1>1
    <2>2. k % t # j % t
      BY <1>1, <1>3, <2>1, RemaindersDiffer
    <2> QED
      BY <1>1, <2>2
  <1> QED
    BY <1>2, <1>3

LEMMA SlotIn ==
  ASSUME MTAssumption, mt.table \in Nat \ {0}, mt.table <= TableSize(MaxWorkers), NEW j \in Nat
  PROVE  Slot(j) \in Slots
  <1> DEFINE t == mt.table
  <1>1. t \in Nat \ {0} /\ j % t \in 0 .. t - 1 /\ t <= TableSize(MaxWorkers) /\ TableSize(MaxWorkers) \in Nat
    BY TablesGrow, MostWorkers
  <1>2. Slots = 0 .. TableSize(MaxWorkers) - 1 /\ Slot(j) = j % t
    BY DEF Slots, Slot
  <1> HIDE DEF t
  <1> QED
    BY <1>1, <1>2

\* Before the last section of the buffer there is room for one more.
LEMMA RoomForSection ==
  ASSUME NEW s \in Nat \ {0}, NEW c \in Nat, NEW n \in Nat, n < c \div s
  PROVE  s * n \in Nat /\ s * n + s <= c
  <1> DEFINE q == c \div s
  <1>1. q \in Nat /\ s * q <= c /\ n + 1 <= q
    OBVIOUS
  <1>2. s * (n + 1) <= s * q /\ s * (n + 1) \in Nat /\ s * q \in Nat
    BY <1>1, ProductsGrow
  <1>3. s * (n + 1) = s * n + s /\ s * n \in Nat
    OBVIOUS
  <1> HIDE DEF q
  <1> QED
    BY <1>1, <1>2, <1>3

\* A chunk before the last one ends inside the source.
LEMMA ChunkInside ==
  ASSUME NEW size \in Nat, NEW c \in Nat \ {0}, NEW k \in Nat, k < (size + c - 1) \div c
  PROVE  c * k \in Nat /\ c * k < size
  <1> DEFINE q == (size + c - 1) \div c
  <1>1. q \in Nat /\ c * q <= size + c - 1 /\ k + 1 <= q
    OBVIOUS
  <1>2. c * (k + 1) <= c * q /\ c * (k + 1) \in Nat /\ c * q \in Nat
    BY <1>1, ProductsGrow
  <1>3. c * (k + 1) = c * k + c /\ c * k \in Nat
    OBVIOUS
  <1> HIDE DEF q
  <1> QED
    BY <1>1, <1>2, <1>3

-----------------------------------------------------------------------------
\* Records that change

\* One worker goes somewhere.
WorkerMoves(w) ==
  /\ worker' = [v \in Workers |-> worker'[v]]
  /\ \A v \in Workers : IsWorker(worker'[v]) /\ (v # w => worker'[v] = worker[v])

\* One slot of the table changes; what a worker changes of it is not its input.
SlotChanges(s) ==
  /\ jobs' = [r \in Slots |-> jobs'[r]]
  /\ \A r \in Slots : IsJob(jobs'[r]) /\ (r # s => jobs'[r] = jobs[r])

SameInput(s) ==
  /\ jobs'[s].src = jobs[s].src /\ jobs'[s].prefix = jobs[s].prefix
  /\ jobs'[s].frameChecksumNeeded = jobs[s].frameChecksumNeeded

LEMMA WorkerIs ==
  ASSUME Shapes, NEW w \in Workers, NEW k, IsWorker(k), worker' = [worker EXCEPT ![w] = k]
  PROVE  WorkerMoves(w) /\ worker'[w] = k
  <1>1. worker = [v \in Workers |-> worker[v]] /\ \A v \in Workers : IsWorker(worker[v])
    BY DEF Shapes
  <1>2. worker' = [v \in Workers |-> IF v = w THEN k ELSE worker[v]]
    BY <1>1
  <1>3. \A v \in Workers : worker'[v] = IF v = w THEN k ELSE worker[v]
    BY <1>2
  <1>4. worker' = [v \in Workers |-> worker'[v]]
    BY <1>2, <1>3
  <1> QED
    BY <1>1, <1>3, <1>4 DEF WorkerMoves

LEMMA WorkerGoes ==
  ASSUME Shapes, NEW w \in Workers, NEW a, worker' = [worker EXCEPT ![w].at = a]
  PROVE  WorkerMoves(w) /\ worker'[w].at = a /\ worker'[w].slot = worker[w].slot
  <1> DEFINE k == [worker[w] EXCEPT !.at = a]
  <1>0. IsWorker(worker[w])
    BY DEF Shapes
  <1>1. /\ k.at = a /\ k.slot = worker[w].slot
        /\ k \in [at : {a}, slot : {worker[w].slot}, chunk : Nat, tail : {worker[w].tail}, cctx : {worker[w].cctx}]
    BY <1>0 DEF IsWorker
  <1>2. IsWorker(k)
    BY <1>1 DEF IsWorker
  <1>3. worker' = [worker EXCEPT ![w] = k]
    OBVIOUS
  <1> HIDE DEF k
  <1> QED
    BY <1>1, <1>2, <1>3, WorkerIs

LEMMA WorkerGoesWithContext ==
  ASSUME Shapes, NEW w \in Workers, NEW a, NEW c, worker' = [worker EXCEPT ![w].at = a, ![w].cctx = c]
  PROVE  WorkerMoves(w) /\ worker'[w].at = a /\ worker'[w].slot = worker[w].slot
  <1> DEFINE k == [worker[w] EXCEPT !.at = a, !.cctx = c]
  <1>0. IsWorker(worker[w]) /\ worker = [v \in Workers |-> worker[v]]
    BY DEF Shapes
  <1>1. /\ k.at = a /\ k.slot = worker[w].slot
        /\ k \in [at : {a}, slot : {worker[w].slot}, chunk : Nat, tail : {worker[w].tail}, cctx : {c}]
    BY <1>0 DEF IsWorker
  <1>2. IsWorker(k)
    BY <1>1 DEF IsWorker
  <1>3. worker' = [worker EXCEPT ![w] = k]
    BY <1>0
  <1> HIDE DEF k
  <1> QED
    BY <1>1, <1>2, <1>3, WorkerIs

LEMMA WorkerGoesWithTail ==
  ASSUME Shapes, NEW w \in Workers, NEW a, NEW t, worker' = [worker EXCEPT ![w].at = a, ![w].tail = t]
  PROVE  WorkerMoves(w) /\ worker'[w].at = a /\ worker'[w].slot = worker[w].slot
  <1> DEFINE k == [worker[w] EXCEPT !.at = a, !.tail = t]
  <1>0. IsWorker(worker[w]) /\ worker = [v \in Workers |-> worker[v]]
    BY DEF Shapes
  <1>1. /\ k.at = a /\ k.slot = worker[w].slot
        /\ k \in [at : {a}, slot : {worker[w].slot}, chunk : Nat, tail : {t}, cctx : {worker[w].cctx}]
    BY <1>0 DEF IsWorker
  <1>2. IsWorker(k)
    BY <1>1 DEF IsWorker
  <1>3. worker' = [worker EXCEPT ![w] = k]
    BY <1>0
  <1> HIDE DEF k
  <1> QED
    BY <1>1, <1>2, <1>3, WorkerIs

LEMMA WorkerTakesChunk ==
  ASSUME Shapes, NEW w \in Workers, NEW n \in Nat, worker' = [worker EXCEPT ![w].chunk = n]
  PROVE  WorkerMoves(w) /\ worker'[w].at = worker[w].at /\ worker'[w].slot = worker[w].slot
  <1> DEFINE k == [worker[w] EXCEPT !.chunk = n]
  <1>0. IsWorker(worker[w])
    BY DEF Shapes
  <1>1. /\ k.at = worker[w].at /\ k.slot = worker[w].slot
        /\ k \in [at : {worker[w].at}, slot : {worker[w].slot}, chunk : Nat, tail : {worker[w].tail},
                  cctx : {worker[w].cctx}]
    BY <1>0 DEF IsWorker
  <1>2. IsWorker(k)
    BY <1>1 DEF IsWorker
  <1>3. worker' = [worker EXCEPT ![w] = k]
    OBVIOUS
  <1> HIDE DEF k
  <1> QED
    BY <1>1, <1>2, <1>3, WorkerIs

LEMMA SlotIs ==
  ASSUME Shapes, NEW s \in Slots, NEW k, IsJob(k), jobs' = [jobs EXCEPT ![s] = k]
  PROVE  SlotChanges(s) /\ jobs'[s] = k
  <1>1. jobs = [r \in Slots |-> jobs[r]] /\ \A r \in Slots : IsJob(jobs[r])
    BY DEF Shapes
  <1>2. jobs' = [r \in Slots |-> IF r = s THEN k ELSE jobs[r]]
    BY <1>1
  <1>3. \A r \in Slots : jobs'[r] = IF r = s THEN k ELSE jobs[r]
    BY <1>2
  <1>4. jobs' = [r \in Slots |-> jobs'[r]]
    BY <1>2, <1>3
  <1> QED
    BY <1>1, <1>3, <1>4 DEF SlotChanges

LEMMA JobHasBuffer ==
  ASSUME Shapes, NEW s \in Slots, NEW b, jobs' = [jobs EXCEPT ![s].dstBuff = b]
  PROVE  /\ SlotChanges(s) /\ SameInput(s)
         /\ jobs'[s].cdata = jobs[s].cdata /\ jobs'[s].consumed = jobs[s].consumed
  <1> DEFINE j == jobs[s]  k == [j EXCEPT !.dstBuff = b]
  <1>0. IsJob(j)
    BY DEF Shapes
  <1>1. k \in [src : Ranges, prefix : Ranges, jobID : {j.jobID}, lastJob : {j.lastJob},
               consumed : Nat, cdata : {j.cdata}, error : {j.error}, dstFlushed : {j.dstFlushed},
               dstBuff : {b}, frameChecksumNeeded : {j.frameChecksumNeeded}]
    BY <1>0 DEF IsJob
  <1>2. /\ k.src = j.src /\ k.prefix = j.prefix /\ k.cdata = j.cdata /\ k.consumed = j.consumed
        /\ k.frameChecksumNeeded = j.frameChecksumNeeded
    BY <1>0 DEF IsJob
  <1>3. IsJob(k)
    BY <1>1, <1>2 DEF IsJob
  <1>4. jobs' = [jobs EXCEPT ![s] = k]
    OBVIOUS
  <1> HIDE DEF k
  <1> QED
    BY <1>2, <1>3, <1>4, SlotIs DEF SameInput

LEMMA JobFails ==
  ASSUME Shapes, NEW s \in Slots, NEW e, jobs' = [jobs EXCEPT ![s].error = e]
  PROVE  /\ SlotChanges(s) /\ SameInput(s)
         /\ jobs'[s].cdata = jobs[s].cdata /\ jobs'[s].consumed = jobs[s].consumed
  <1> DEFINE j == jobs[s]  k == [j EXCEPT !.error = e]
  <1>0. IsJob(j)
    BY DEF Shapes
  <1>1. k \in [src : Ranges, prefix : Ranges, jobID : {j.jobID}, lastJob : {j.lastJob},
               consumed : Nat, cdata : {j.cdata}, error : {e}, dstFlushed : {j.dstFlushed},
               dstBuff : {j.dstBuff}, frameChecksumNeeded : {j.frameChecksumNeeded}]
    BY <1>0 DEF IsJob
  <1>2. /\ k.src = j.src /\ k.prefix = j.prefix /\ k.cdata = j.cdata /\ k.consumed = j.consumed
        /\ k.frameChecksumNeeded = j.frameChecksumNeeded
    BY <1>0 DEF IsJob
  <1>3. IsJob(k)
    BY <1>1, <1>2 DEF IsJob
  <1>4. jobs' = [jobs EXCEPT ![s] = k]
    OBVIOUS
  <1> HIDE DEF k
  <1> QED
    BY <1>2, <1>3, <1>4, SlotIs DEF SameInput

LEMMA JobProduces ==
  ASSUME Shapes, NEW s \in Slots, NEW d, NEW n \in Nat,
         jobs' = [jobs EXCEPT ![s].cdata = d, ![s].consumed = n]
  PROVE  SlotChanges(s) /\ SameInput(s) /\ jobs'[s].consumed = n
  <1> DEFINE j == jobs[s]  k == [j EXCEPT !.cdata = d, !.consumed = n]
  <1>0. IsJob(j) /\ jobs = [r \in Slots |-> jobs[r]]
    BY DEF Shapes
  <1>1. k \in [src : Ranges, prefix : Ranges, jobID : {j.jobID}, lastJob : {j.lastJob},
               consumed : Nat, cdata : {d}, error : {j.error}, dstFlushed : {j.dstFlushed},
               dstBuff : {j.dstBuff}, frameChecksumNeeded : {j.frameChecksumNeeded}]
    BY <1>0 DEF IsJob
  <1>2. /\ k.src = j.src /\ k.prefix = j.prefix /\ k.cdata = d /\ k.consumed = n
        /\ k.frameChecksumNeeded = j.frameChecksumNeeded
    BY <1>0 DEF IsJob
  <1>3. IsJob(k)
    BY <1>1, <1>2 DEF IsJob
  <1>4. jobs' = [jobs EXCEPT ![s] = k]
    BY <1>0
  <1> HIDE DEF k
  <1> QED
    BY <1>2, <1>3, <1>4, SlotIs DEF SameInput

-----------------------------------------------------------------------------
\* Workers

\* A worker that goes on, or ends, touches its own job only.
WorkStep(w) ==
  /\ mt' = mt /\ caller' = caller /\ taken' = taken /\ round' = round /\ queued' = queued
  /\ WorkerMoves(w)
  /\ jobs' = [s \in Slots |-> jobs'[s]]
  /\ \A s \in Slots :
       /\ IsJob(jobs'[s]) /\ SameInput(s)
       /\ Unfinished(s)' => Unfinished(s)
       /\ (Holds(w) /\ s = worker[w].slot) \/ jobs'[s] = jobs[s]
  /\ Holds(w)' =>
       /\ Holds(w) /\ worker'[w].slot = worker[w].slot
       /\ \A s \in Slots : s = worker[w].slot =>
            /\ Unfinished(s) => Unfinished(s)'
            /\ jobs[s].src.size = 0 => jobs'[s].cdata = jobs[s].cdata

LEMMA JobsAlone ==
  ASSUME Shapes, NEW w \in Workers, WorkerMoves(w),
         (Holds(w) /\ worker'[w].slot = worker[w].slot) \/ worker'[w].at = "idle",
         jobs' = jobs, queued' = queued, CallerWaits
  PROVE  WorkStep(w)
  <1>1. \A s \in Slots : (Unfinished(s)' <=> Unfinished(s)) /\ IsJob(jobs[s]) /\ SameInput(s)
    BY DEF Unfinished, Shapes, SameInput
  <1>2. jobs = [s \in Slots |-> jobs[s]]
    BY DEF Shapes
  <1>3. Holds(w)' => Holds(w) /\ worker'[w].slot = worker[w].slot
    BY DEF Holds
  <1> QED
    BY <1>1, <1>2, <1>3 DEF WorkStep, CallerWaits

LEMMA JobAlso ==
  ASSUME Shapes, HeldApart, NEW w \in Workers, Holds(w), WorkerMoves(w),
         worker'[w].slot = worker[w].slot,
         NEW r \in Slots, r = worker[w].slot, SlotChanges(r), SameInput(r),
         Unfinished(r)' => Unfinished(r),
         \/ worker'[w].at = "ended"
         \/ /\ Unfinished(r) => Unfinished(r)'
            /\ jobs[r].src.size = 0 => jobs'[r].cdata = jobs[r].cdata,
         queued' = queued, CallerWaits
  PROVE  WorkStep(w)
  <1>1. \A s \in Slots : (Unfinished(s)' => Unfinished(s)) /\ SameInput(s)
    BY DEF Unfinished, SlotChanges, SameInput
  <1>2. Holds(w)' => worker'[w].at # "ended"
    BY DEF Holds
  <1> QED
    BY <1>1, <1>2 DEF WorkStep, CallerWaits, SlotChanges

LEMMA AtHolds ==
  ASSUME NEW w \in Workers,
         worker[w].at \in {"begin", "serial", "compress", "ensure", "report"}, Shapes, HeldApart
  PROVE  /\ Holds(w) /\ worker[w].slot \in Slots
         /\ Job(w).src.size = 0 \/ Unfinished(worker[w].slot)
         /\ Job(w).src.size \in Nat /\ Job(w).consumed \in Nat /\ worker[w].chunk \in Nat
  BY DEF Holds, HeldApart, Shapes, Job, IsJob, IsWorker, Ranges

LEMMA WorkerSteps ==
  ASSUME MTAssumption, Shapes, HeldApart, NEW w \in Workers,
         \/ Begin(w) \/ BeginFails(w) \/ GenSequences(w) \/ CompressChunk(w) \/ CompressLast(w)
         \/ CompressFails(w) \/ EnsureFinished(w) \/ Report(w) \/ Finish(w)
  PROVE  WorkStep(w)
  <1> DEFINE s == worker[w].slot
  <1>1. CASE Begin(w)
    <2>1. Holds(w) /\ s \in Slots /\ queued' = queued /\ CallerWaits
      BY <1>1, AtHolds DEF Begin
    <2>2. WorkerMoves(w) /\ worker'[w].slot = s
      BY <1>1, WorkerGoesWithContext DEF Begin
    <2>3. /\ SlotChanges(s) /\ SameInput(s)
          /\ jobs'[s].cdata = jobs[s].cdata /\ jobs'[s].consumed = jobs[s].consumed
      BY <1>1, <2>1, JobHasBuffer DEF Begin
    <2> QED
      BY <2>1, <2>2, <2>3, JobAlso DEF Unfinished, SameInput
  <1>2. CASE BeginFails(w)
    <2>1. Holds(w) /\ s \in Slots /\ queued' = queued /\ CallerWaits
      BY <1>2, AtHolds DEF BeginFails
    <2>2. WorkerMoves(w) /\ worker'[w].slot = s
      <3>1. PICK cctx : worker' = [worker EXCEPT ![w].at = "ensure", ![w].cctx = cctx]
        BY <1>2 DEF BeginFails
      <3> QED
        BY <3>1, WorkerGoesWithContext
    <2>3. /\ SlotChanges(s) /\ SameInput(s)
          /\ jobs'[s].cdata = jobs[s].cdata /\ jobs'[s].consumed = jobs[s].consumed
      BY <1>2, <2>1, JobFails DEF BeginFails
    <2> QED
      BY <2>1, <2>2, <2>3, JobAlso DEF Unfinished, SameInput
  <1>3. CASE GenSequences(w)
    <2>1. Holds(w) /\ jobs' = jobs /\ queued' = queued /\ CallerWaits
      BY <1>3, AtHolds DEF GenSequences
    <2>2. WorkerMoves(w) /\ worker'[w].slot = s
      BY <1>3, WorkerGoes DEF GenSequences
    <2> QED
      BY <2>1, <2>2, JobsAlone
  <1>4. CASE CompressChunk(w)
    <2> DEFINE c == worker[w].chunk  n == chunkSize * (c + 1)  size == Job(w).src.size
    <2>1. Holds(w) /\ s \in Slots /\ queued' = queued /\ CallerWaits
      BY <1>4, AtHolds DEF CompressChunk
    <2>2. c + 1 \in Nat /\ n \in Nat /\ n < size /\ Unfinished(s) /\ size # 0
      <3>0. c \in Nat /\ size \in Nat /\ (size = 0 \/ Unfinished(s))
        BY <1>4, AtHolds DEF CompressChunk
      <3>1. c \in Nat /\ c + 1 \in Nat /\ size \in Nat /\ chunkSize \in Nat \ {0}
            /\ (size = 0 \/ Unfinished(s))
        <4>1. c + 1 \in Nat
          BY <3>0
        <4> QED
          BY <3>0, <4>1, Constants
      <3>2. c + 1 < (size + chunkSize - 1) \div chunkSize
        BY <1>4 DEF CompressChunk, nbChunks
      <3> HIDE DEF c, size
      <3>3. n \in Nat /\ n < size
        BY <3>1, <3>2, ChunkInside
      <3> QED
        BY <3>1, <3>3
    <2>3. WorkerMoves(w) /\ worker'[w].slot = s
      BY <1>4, <2>2, WorkerTakesChunk DEF CompressChunk
    <2>4. SlotChanges(s) /\ SameInput(s) /\ jobs'[s].consumed = n
      <3>1. PICK d : jobs' = [jobs EXCEPT ![s].cdata = d, ![s].consumed = n]
        BY <1>4 DEF CompressChunk
      <3> HIDE DEF n
      <3> QED
        BY <2>1, <2>2, <3>1, JobProduces
    <2>5. Unfinished(s) /\ jobs'[s].consumed < jobs'[s].src.size /\ jobs[s].src.size # 0
      BY <2>2, <2>4 DEF SameInput, Job
    <2> QED
      BY <2>1, <2>3, <2>4, <2>5, JobAlso DEF Unfinished
  <1>5. CASE CompressLast(w)
    <2>1. Holds(w) /\ jobs' = jobs /\ queued' = queued /\ CallerWaits
      BY <1>5, AtHolds DEF CompressLast
    <2>2. WorkerMoves(w) /\ worker'[w].slot = s
      BY <1>5, WorkerGoesWithTail DEF CompressLast
    <2> QED
      BY <2>1, <2>2, JobsAlone
  <1>6. CASE CompressFails(w)
    <2>1. Holds(w) /\ s \in Slots /\ queued' = queued /\ CallerWaits
      BY <1>6, AtHolds DEF CompressFails
    <2>2. WorkerMoves(w) /\ worker'[w].slot = s
      BY <1>6, WorkerGoes DEF CompressFails
    <2>3. /\ SlotChanges(s) /\ SameInput(s)
          /\ jobs'[s].cdata = jobs[s].cdata /\ jobs'[s].consumed = jobs[s].consumed
      BY <1>6, <2>1, JobFails DEF CompressFails
    <2> QED
      BY <2>1, <2>2, <2>3, JobAlso DEF Unfinished, SameInput
  <1>7. CASE EnsureFinished(w)
    <2>1. Holds(w) /\ jobs' = jobs /\ queued' = queued /\ CallerWaits
      BY <1>7, AtHolds DEF EnsureFinished
    <2>2. WorkerMoves(w) /\ worker'[w].slot = s
      BY <1>7, WorkerGoesWithContext DEF EnsureFinished
    <2> QED
      BY <2>1, <2>2, JobsAlone
  <1>8. CASE Report(w)
    <2>1. Holds(w) /\ s \in Slots /\ queued' = queued /\ CallerWaits /\ Job(w).src.size \in Nat
      BY <1>8, AtHolds DEF Report
    <2>2. WorkerMoves(w) /\ worker'[w].slot = s /\ worker'[w].at = "ended"
      BY <1>8, WorkerGoes DEF Report
    <2>3. SlotChanges(s) /\ SameInput(s) /\ jobs'[s].consumed = Job(w).src.size
      <3>1. PICK d : jobs' = [jobs EXCEPT ![s].cdata = d, ![s].consumed = Job(w).src.size]
        BY <1>8 DEF Report
      <3> QED
        BY <2>1, <3>1, JobProduces
    <2>4. ~(jobs'[s].consumed < jobs'[s].src.size)
      BY <2>1, <2>3 DEF SameInput, Job
    <2> QED
      BY <2>1, <2>2, <2>3, <2>4, JobAlso DEF Unfinished
  <1>9. CASE Finish(w)
    <2>1. jobs' = jobs /\ queued' = queued /\ CallerWaits
      BY <1>9 DEF Finish
    <2>2. IsWorker(IdleWorker)
      BY DEF IsWorker, IdleWorker
    <2>3. WorkerMoves(w) /\ worker'[w].at = "idle"
      <3>1. worker' = [worker EXCEPT ![w] = IdleWorker] /\ IdleWorker.at = "idle"
        BY <1>9 DEF Finish, IdleWorker
      <3> QED
        BY <2>2, <3>1, WorkerIs
    <2> QED
      BY <2>1, <2>3, JobsAlone
  <1> QED
    BY <1>1, <1>2, <1>3, <1>4, <1>5, <1>6, <1>7, <1>8, <1>9

LEMMA ShapesAfterWork ==
  ASSUME Shapes, CallPhase, NEW w \in Workers, WorkStep(w)
  PROVE  Shapes' /\ CallPhase'
  <1>1. Shapes'
    BY DEF Shapes, WorkStep, WorkerMoves
  <1>2. CallPhase'
    BY DEF CallPhase, WorkStep
  <1> QED
    BY <1>1, <1>2

LEMMA HeldApartAfterWork ==
  ASSUME HeldApart, NEW w \in Workers, WorkStep(w)
  PROVE  HeldApart'
  <1>1. \A v \in Workers : Holds(v)' => Holds(v) /\ worker'[v].slot = worker[v].slot
    BY DEF WorkStep, WorkerMoves, Holds
  <1>2. queued' = queued /\ \A s \in Slots : jobs'[s].src.size = jobs[s].src.size
    BY DEF WorkStep, SameInput
  <1>3. ASSUME NEW v \in Workers, Holds(v)'
        PROVE  jobs'[worker[v].slot].src.size = 0 \/ jobs'[worker[v].slot].consumed < jobs'[worker[v].slot].src.size
    <2>1. worker[v].slot \in Slots /\ (jobs[worker[v].slot].src.size = 0 \/ Unfinished(worker[v].slot))
      BY <1>1, <1>3 DEF HeldApart
    <2>2. CASE v = w
      BY <1>2, <1>3, <2>1, <2>2 DEF WorkStep, Unfinished
    <2>3. CASE v # w
      <3>1. jobs'[worker[v].slot] = jobs[worker[v].slot]
        BY <1>1, <1>3, <2>1, <2>3 DEF WorkStep, HeldApart
      <3> QED
        BY <2>1, <3>1 DEF Unfinished
    <2> QED
      BY <2>2, <2>3
  <1>4. ASSUME queued # None
        PROVE  queued \in Slots /\ (jobs'[queued].src.size = 0 \/ jobs'[queued].consumed < jobs'[queued].src.size)
    <2>1. queued \in Slots /\ (jobs[queued].src.size = 0 \/ Unfinished(queued))
      BY <1>4 DEF HeldApart
    <2>2. jobs'[queued] = jobs[queued]
      BY <2>1 DEF WorkStep, HeldApart
    <2> QED
      BY <2>1, <2>2 DEF Unfinished
  <1> QED
    BY <1>1, <1>2, <1>3, <1>4 DEF HeldApart, Unfinished

\* The job that is ready to be posted has a slot that no posted job has.
LEMMA NextSlotFree ==
  ASSUME Shapes, JobsPosted, mt.nextJobID < mt.doneJobID + mt.table
  PROVE  Slot(mt.nextJobID) \notin Active
  <1>1. /\ mt.table \in Nat \ {0} /\ mt.doneJobID \in Nat /\ mt.nextJobID \in Nat
        /\ mt.doneJobID <= mt.nextJobID
    BY DEF Shapes, MTFields, JobsPosted
  <1>2. ASSUME NEW j \in mt.doneJobID .. mt.nextJobID - 1, Slot(j) = Slot(mt.nextJobID)
        PROVE  FALSE
    <2>1. j \in Nat /\ mt.doneJobID <= j /\ j < mt.doneJobID + mt.table /\ j < mt.nextJobID
      BY <1>1, <1>2
    <2>2. j = mt.nextJobID
      BY <1>1, <1>2, <2>1, SlotsDiffer
    <2> QED
      BY <1>1, <2>1, <2>2
  <1> QED
    BY <1>2 DEF Active

LEMMA HeldPostedAfterWork ==
  ASSUME MTAssumption, Shapes, HeldApart, JobsPosted, HeldPosted, NEW w \in Workers, WorkStep(w)
  PROVE  JobsPosted' /\ HeldPosted'
  <1> USE DEF Slot
  <1>0. mt' = mt /\ caller' = caller /\ queued' = queued
    BY DEF WorkStep
  <1>1. JobsPosted'
    BY <1>0 DEF JobsPosted
  <1>2. SUFFICES ASSUME Live PROVE HeldPosted'
    BY <1>0, <1>1 DEF HeldPosted, Live
  <1>3. ASSUME NEW s \in Slots \ Active PROVE jobs'[s] = jobs[s]
    BY <1>2, <1>3 DEF WorkStep, HeldPosted, Active, Posted
  <1>4. ASSUME NEW v \in Workers, Holds(v)'
        PROVE  \E j \in Posted : worker'[v].slot = Slot(j) /\ Pending(Slot(j))'
    <2>1. Holds(v) /\ worker'[v].slot = worker[v].slot
      BY <1>4 DEF WorkStep, WorkerMoves, Holds
    <2>2. PICK j \in Posted : worker[v].slot = Slot(j) /\ Pending(Slot(j))
      BY <1>2, <2>1 DEF HeldPosted
    <2>3. worker[v].slot \in Slots
      BY <2>1 DEF HeldApart
    <2>4. CASE v = w
      <3>1. /\ SameInput(worker[v].slot)
            /\ jobs[worker[v].slot].consumed < jobs[worker[v].slot].src.size =>
                 jobs'[worker[v].slot].consumed < jobs'[worker[v].slot].src.size
            /\ jobs[worker[v].slot].src.size = 0 => jobs'[worker[v].slot].cdata = jobs[worker[v].slot].cdata
        BY <1>4, <2>3, <2>4 DEF WorkStep, Unfinished
      <3> QED
        BY <1>0, <2>1, <2>2, <3>1 DEF Pending, Unfinished, SameInput
    <2>5. CASE v # w
      <3>1. jobs'[worker[v].slot] = jobs[worker[v].slot]
        BY <2>1, <2>3, <2>5 DEF WorkStep, HeldApart
      <3> QED
        BY <1>0, <2>1, <2>2, <3>1 DEF Pending, Unfinished
    <2> QED
      BY <2>4, <2>5
  <1>5. ASSUME queued # None
        PROVE  \E j \in Posted : queued = Slot(j) /\ Pending(Slot(j))'
    <2>1. PICK j \in Posted : queued = Slot(j) /\ Pending(Slot(j))
      BY <1>2, <1>5 DEF HeldPosted
    <2>2. jobs'[queued] = jobs[queued]
      BY <1>5 DEF WorkStep, HeldApart
    <2> QED
      BY <1>0, <2>1, <2>2 DEF Pending, Unfinished
  <1>6. mt.jobReady => Pending(Slot(mt.nextJobID))'
    <2>1. SUFFICES ASSUME mt.jobReady PROVE Pending(Slot(mt.nextJobID))'
      OBVIOUS
    <2>2. Slot(mt.nextJobID) \in Slots \ Active
      BY <2>1, NextSlotFree, SlotIn DEF JobsPosted, Shapes, MTFields
    <2>3. jobs'[Slot(mt.nextJobID)] = jobs[Slot(mt.nextJobID)] /\ Pending(Slot(mt.nextJobID))
      BY <1>2, <1>3, <2>1, <2>2 DEF HeldPosted
    <2> QED
      BY <1>0, <2>3 DEF Pending, Unfinished
  <1>7. Active' = Active /\ Posted' = Posted
    BY <1>0 DEF Active, Posted
  <1>8. \A s \in Slots \ Active : jobs'[s].cdata = <<>> /\ (jobs'[s].frameChecksumNeeded => Unfinished(s)')
    BY <1>2, <1>3 DEF HeldPosted, Unfinished
  <1> QED
    BY <1>0, <1>2, <1>4, <1>5, <1>6, <1>7, <1>8 DEF HeldPosted, Live

-----------------------------------------------------------------------------
\* Inputs stay where they are, and fewer of them are needed.
InputsStay ==
  /\ mt'.table = mt.table /\ mt'.capacity = mt.capacity /\ mt'.pos = mt.pos
  /\ mt'.inStart = mt.inStart /\ mt'.filled = mt.filled /\ mt'.prefix = mt.prefix
  /\ mt'.jobReady = mt.jobReady /\ mt'.nextJobID = mt.nextJobID
  /\ mt'.doneJobID \in Nat /\ mt.doneJobID <= mt'.doneJobID
  /\ mt'.session = "load" => mt.session = "load"
  /\ round' = round /\ taken' = taken
  /\ \A s \in Slots : Unfinished(s)' =>
       Unfinished(s) /\ jobs'[s].src = jobs[s].src /\ jobs'[s].prefix = jobs[s].prefix
  /\ caller'.at \in {"move", "ldm"} => caller' = caller

LEMMA KeptSlots ==
  ASSUME MTAssumption, Shapes, NEW j \in Nat
  PROVE  Slot(j) \in Slots
  BY SlotIn DEF Shapes, MTFields

LEMMA KeptStay ==
  ASSUME MTAssumption, Shapes, InputsStay
  PROVE  /\ Kept' \subseteq Kept
         /\ \A j \in Kept' : /\ Slot(j)' = Slot(j) /\ Lo(j)' = Lo(j) /\ Hi(j)' = Hi(j)
                             /\ jobs'[Slot(j)].src = jobs[Slot(j)].src
                             /\ jobs'[Slot(j)].prefix = jobs[Slot(j)].prefix
  <1>1. /\ mt.doneJobID \in Nat /\ mt.nextJobID \in Nat /\ mt.doneJobID <= mt'.doneJobID
        /\ mt'.doneJobID \in Nat /\ mt'.nextJobID = mt.nextJobID /\ mt'.jobReady = mt.jobReady
    BY DEF Shapes, MTFields, InputsStay
  <1>2. ASSUME NEW j \in Kept'
        PROVE  /\ j \in Kept /\ Slot(j)' = Slot(j)
               /\ jobs'[Slot(j)].src = jobs[Slot(j)].src /\ jobs'[Slot(j)].prefix = jobs[Slot(j)].prefix
    <2>1. /\ j \in mt'.doneJobID .. mt'.nextJobID
          /\ j < mt'.nextJobID \/ mt'.jobReady
          /\ jobs'[Slot(j)'].consumed < jobs'[Slot(j)'].src.size
      BY <1>2 DEF Kept, Unfinished
    <2>2. j \in Nat /\ j \in mt.doneJobID .. mt.nextJobID
      BY <1>1, <2>1
    <2>3. Slot(j)' = Slot(j) /\ Slot(j) \in Slots
      BY <2>2, KeptSlots DEF Slot, InputsStay
    <2>4. Unfinished(Slot(j)) /\ jobs'[Slot(j)].src = jobs[Slot(j)].src /\ jobs'[Slot(j)].prefix = jobs[Slot(j)].prefix
      BY <2>1, <2>3 DEF InputsStay, Unfinished
    <2> QED
      BY <1>1, <2>1, <2>2, <2>3, <2>4 DEF Kept
  <1>3. ASSUME NEW j \in Kept' PROVE Lo(j)' = Lo(j) /\ Hi(j)' = Hi(j)
    BY <1>2 DEF Lo, Hi, End
  <1> QED
    BY <1>2, <1>3

LEMMA BufferStays ==
  ASSUME MTAssumption, Shapes, KeptIntact, BufferInv, InputsStay
  PROVE  KeptIntact' /\ BufferInv'
  <1>1. /\ Kept' \subseteq Kept
        /\ \A j \in Kept' : /\ Slot(j)' = Slot(j) /\ Lo(j)' = Lo(j) /\ Hi(j)' = Hi(j)
                            /\ jobs'[Slot(j)].src = jobs[Slot(j)].src
                            /\ jobs'[Slot(j)].prefix = jobs[Slot(j)].prefix
    BY KeptStay
  <1>3. /\ mt'.capacity = mt.capacity /\ mt'.pos = mt.pos
        /\ mt'.inStart = mt.inStart /\ mt'.filled = mt.filled /\ mt'.prefix = mt.prefix
        /\ mt'.jobReady = mt.jobReady /\ mt'.nextJobID = mt.nextJobID
        /\ round' = round /\ taken' = taken
    BY DEF InputsStay
  <1>4. ASSUME NEW j \in Kept' PROVE KeptAt(j)' /\ KeptBytes(j)'
    <2>1. j \in Kept /\ KeptAt(j) /\ KeptBytes(j)
      BY <1>1 DEF KeptIntact
    <2>2. KeptAt(j)'
      BY <1>1, <1>3, <2>1 DEF KeptAt, End
    <2>3. KeptBytes(j)'
      BY <1>1, <1>3, <2>1 DEF KeptBytes
    <2> QED
      BY <2>2, <2>3
  <1>5. \A j \in Kept' : (Low(j)' <=> Low(j)) /\ (High(j)' <=> High(j))
    BY <1>1, <1>3 DEF Low, High
  <1>6. ASSUME mt'.session = "load" PROVE BufferInv'
    <2>1. KeptApart /\ KeptInOrder /\ InputAt /\ InputBytes /\ FirstLap /\ Wrapping /\ SectionIsFree
      BY <1>6 DEF BufferInv, InputsStay
    <2>2. KeptApart' /\ KeptInOrder'
      BY <1>1, <1>5, <2>1 DEF KeptApart, KeptInOrder
    <2>3. InputAt' /\ InputBytes'
      BY <1>1, <1>3, <1>5, <2>1 DEF InputAt, InputBytes, End
    <2>4. FirstLap'
      BY <1>1, <1>3, <1>5, <2>1 DEF FirstLap
    <2>5. Wrapping' /\ SectionIsFree'
      <3>1. caller'.at \in {"move", "ldm"} => caller' = caller
        BY DEF InputsStay
      <3>2. Wraps' <=> Wraps
        BY <1>3 DEF Wraps
      <3> QED
        BY <1>1, <1>3, <1>5, <2>1, <3>1, <3>2 DEF Wrapping, SectionIsFree
    <2> QED
      BY <2>2, <2>3, <2>4, <2>5 DEF BufferInv
  <1> QED
    BY <1>4, <1>6 DEF KeptIntact, BufferInv

LEMMA WorkKeeps ==
  ASSUME MTAssumption, IInv, NEW w \in Workers, WorkStep(w)
  PROVE  IInv'
  <1>1. InputsStay
    BY DEF IInv, Shapes, MTFields, WorkStep, SameInput, InputsStay
  <1> QED
    BY <1>1, ShapesAfterWork, HeldApartAfterWork, HeldPostedAfterWork, BufferStays DEF IInv

LEMMA PopKeeps ==
  ASSUME MTAssumption, IInv, NEW w \in Workers, Pop(w)
  PROVE  IInv'
  <1> USE DEF IInv
  <1> DEFINE k == [IdleWorker EXCEPT !.at = "begin", !.slot = queued]
  <1>1. /\ worker[w].at = "idle" /\ queued # None /\ queued' = None /\ worker' = [worker EXCEPT ![w] = k]
        /\ mt' = mt /\ caller' = caller /\ taken' = taken /\ round' = round /\ jobs' = jobs
    BY DEF Pop, CallerWaits
  <1>2. IsWorker(k) /\ k.at = "begin" /\ k.slot = queued
    BY DEF IsWorker, IdleWorker
  <1> HIDE DEF k
  <1>3. WorkerMoves(w) /\ worker'[w] = k
    BY <1>1, <1>2, WorkerIs
  <1>4. Shapes' /\ CallPhase'
    BY <1>1, <1>3 DEF Shapes, CallPhase, WorkerMoves
  <1>5. /\ ~Holds(w) /\ worker'[w].slot = queued
        /\ \A v \in Workers \ {w} : worker'[v] = worker[v] /\ (Holds(v)' <=> Holds(v))
    BY <1>1, <1>2, <1>3 DEF Holds, WorkerMoves
  <1>6. \A s : Unfinished(s)' <=> Unfinished(s)
    BY <1>1 DEF Unfinished
  <1>7. queued \in Slots /\ (jobs[queued].src.size = 0 \/ Unfinished(queued)) /\ None \notin Slots
    BY <1>1 DEF HeldApart, None, Slots
  <1>8. ASSUME NEW v \in Workers, Holds(v)'
        PROVE  /\ worker'[v].slot \in Slots
               /\ jobs[worker'[v].slot].src.size = 0 \/ Unfinished(worker'[v].slot)
               /\ worker'[v].slot # queued'
               /\ \A u \in Workers : Holds(u)' /\ worker'[u].slot = worker'[v].slot => u = v
    <2>1. CASE v = w
      <3>1. \A u \in Workers \ {w} : Holds(u)' => worker'[u].slot # queued
        BY <1>5 DEF HeldApart
      <3> QED
        BY <1>1, <1>5, <1>7, <2>1, <3>1 DEF Unfinished
    <2>2. CASE v # w
      <3>1. Holds(v) /\ worker'[v].slot = worker[v].slot
        BY <1>5, <1>8, <2>2
      <3>2. /\ worker[v].slot \in Slots /\ worker[v].slot # queued
            /\ jobs[worker[v].slot].src.size = 0 \/ Unfinished(worker[v].slot)
            /\ \A u \in Workers : Holds(u) /\ worker[u].slot = worker[v].slot => u = v
        BY <3>1 DEF HeldApart
      <3> QED
        BY <1>1, <1>5, <1>7, <3>1, <3>2 DEF Unfinished
    <2> QED
      BY <2>1, <2>2
  <1>9. HeldApart'
    BY <1>1, <1>8 DEF HeldApart, Unfinished
  <1>10. JobsPosted' /\ (mt'.session = mt.session) /\ (Live' <=> Live)
    BY <1>1 DEF JobsPosted, Live
  <1>11. HeldPosted'
    <2>1. SUFFICES ASSUME Live PROVE HeldPosted'
      BY <1>10 DEF HeldPosted
    <2>2. Posted' = Posted /\ Active' = Active /\ (\A s : Pending(s)' <=> Pending(s)) /\ \A j : Slot(j)' = Slot(j)
      BY <1>1 DEF Posted, Active, Pending, Unfinished, Slot
    <2>3. ASSUME NEW v \in Workers, Holds(v)'
          PROVE  \E j \in Posted : worker'[v].slot = Slot(j) /\ Pending(Slot(j))
      BY <1>1, <1>5, <2>1, <2>3 DEF HeldPosted
    <2>4. mt'.jobReady => Pending(Slot(mt'.nextJobID))
      BY <1>1, <2>1 DEF HeldPosted
    <2>5. \A s \in Slots \ Active : jobs'[s].cdata = <<>> /\ (jobs'[s].frameChecksumNeeded => Unfinished(s)')
      BY <1>1, <2>1, <1>6 DEF HeldPosted
    <2>6. mt'.session = "init" => mt'.doneJobID = mt'.nextJobID /\ ~mt'.jobReady /\ mt'.allJobsCompleted
      BY <1>1, <2>1 DEF HeldPosted
    <2>7. Pending(Slot(mt.nextJobID))' <=> Pending(Slot(mt'.nextJobID))
      BY <1>1 DEF Pending, Unfinished, Slot
    <2> HIDE DEF IInv
    <2> QED
      BY <1>1, <2>2, <2>3, <2>4, <2>5, <2>6, <2>7 DEF HeldPosted
  <1>12. InputsStay
    BY <1>1, <1>6 DEF Shapes, MTFields, InputsStay
  <1> QED
    BY <1>4, <1>9, <1>10, <1>11, <1>12, BufferStays

LEMMA WorkInv ==
  ASSUME MTAssumption, IInv, NEW w \in Workers, Work(w)
  PROVE  IInv'
  BY PopKeeps, WorkKeeps, WorkerSteps DEF Work, IInv

-----------------------------------------------------------------------------
\* The caller's thread

LEMMA CallGoes ==
  ASSUME Shapes, NEW a, caller' = [caller EXCEPT !.at = a]
  PROVE  /\ IsCall(caller') /\ caller'.at = a
         /\ caller'.op = caller.op /\ caller'.turnOp = caller.turnOp /\ caller'.avail = caller.avail
         /\ caller'.inUse = caller.inUse /\ caller'.ret = caller.ret
  <1> DEFINE c == caller'
  <1>0. IsCall(caller)
    BY DEF Shapes
  <1>1. c \in [at : {a}, op : {caller.op}, turnOp : {caller.turnOp}, avail : Int, room : {caller.room},
               fwd : {caller.fwd}, moved : {caller.moved}, inUse : Ranges, ret : {caller.ret}]
    BY <1>0 DEF IsCall
  <1>2. /\ c.at = a /\ c.op = caller.op /\ c.turnOp = caller.turnOp /\ c.avail = caller.avail
        /\ c.inUse = caller.inUse /\ c.ret = caller.ret
    BY <1>0 DEF IsCall
  <1> QED
    BY <1>1, <1>2 DEF IsCall

LEMMA CallFinds ==
  ASSUME Shapes, NEW a, NEW r \in Ranges, caller' = [caller EXCEPT !.inUse = r, !.at = a]
  PROVE  /\ IsCall(caller') /\ caller'.at = a /\ caller'.inUse = r
         /\ caller'.op = caller.op /\ caller'.turnOp = caller.turnOp /\ caller'.avail = caller.avail
         /\ caller'.ret = caller.ret
  <1> DEFINE c == caller'
  <1>0. IsCall(caller)
    BY DEF Shapes
  <1>1. c \in [at : {a}, op : {caller.op}, turnOp : {caller.turnOp}, avail : Int, room : {caller.room},
               fwd : {caller.fwd}, moved : {caller.moved}, inUse : Ranges, ret : {caller.ret}]
    BY <1>0 DEF IsCall
  <1>2. /\ c.at = a /\ c.op = caller.op /\ c.turnOp = caller.turnOp /\ c.avail = caller.avail
        /\ c.inUse = r /\ c.ret = caller.ret
    BY <1>0 DEF IsCall
  <1> QED
    BY <1>1, <1>2 DEF IsCall

LEMMA CallStarts ==
  ASSUME NEW a, NEW op, NEW n \in Int, NEW r,
         caller' = [NoCall EXCEPT !.at = a, !.op = op, !.turnOp = op, !.avail = n, !.room = r]
  PROVE  /\ IsCall(caller') /\ caller'.at = a /\ caller'.op = op /\ caller'.turnOp = op
         /\ caller'.avail = n /\ caller'.ret = "none"
  <1> DEFINE c == caller'
  <1>0. NoRange \in Ranges
    BY DEF NoRange, Ranges
  <1>1. c \in [at : {a}, op : {op}, turnOp : {op}, avail : Int, room : {r},
               fwd : {FALSE}, moved : {FALSE}, inUse : Ranges, ret : {"none"}]
    BY <1>0 DEF NoCall
  <1>2. /\ c.at = a /\ c.op = op /\ c.turnOp = op /\ c.avail = n /\ c.ret = "none"
    BY DEF NoCall
  <1>3. c.room = r /\ c.fwd = FALSE /\ c.moved = FALSE
    BY DEF NoCall
  <1> QED
    BY <1>1, <1>2, <1>3 DEF IsCall

LEMMA CallLoads ==
  ASSUME Shapes, NEW n \in Int, NEW op, NEW f, NEW m,
         caller' = [caller EXCEPT !.at = "flush", !.avail = n, !.turnOp = op, !.fwd = f, !.moved = m]
  PROVE  /\ IsCall(caller') /\ caller'.at = "flush" /\ caller'.avail = n /\ caller'.turnOp = op
         /\ caller'.op = caller.op /\ caller'.ret = caller.ret
  <1> DEFINE c == caller'
  <1>0. IsCall(caller)
    BY DEF Shapes
  <1>1. c \in [at : {"flush"}, op : {caller.op}, turnOp : {op}, avail : Int, room : {caller.room},
               fwd : {f}, moved : {m}, inUse : Ranges, ret : {caller.ret}]
    BY <1>0 DEF IsCall
  <1>2. /\ c.at = "flush" /\ c.op = caller.op /\ c.turnOp = op /\ c.avail = n
        /\ c.fwd = f /\ c.moved = m /\ c.ret = caller.ret
    BY <1>0 DEF IsCall
  <1> QED
    BY <1>1, <1>2 DEF IsCall

\* A turn of the loop ends the call or is followed by another one.
LEMMA TurnEnds ==
  ASSUME Shapes, NEW ret, NEW left, NEW moved, NextTurn(ret, left, moved)
  PROVE  /\ IsCall(caller')
         /\ caller'.op = caller.op
         /\ \/ caller'.at = "idle" /\ caller'.ret = ret /\ caller'.avail = 0 /\ caller'.room = 0
            \/ /\ caller'.at = "range" /\ caller'.op = caller.op /\ caller'.turnOp = caller.op
               /\ caller'.ret = caller.ret /\ ret # "error" /\ caller'.avail = caller.avail /\ caller'.room = left
  <1> DEFINE c == caller'
  <1>0. IsCall(caller) /\ NoRange \in Ranges
    BY DEF Shapes, NoRange, Ranges
  <1>1. CASE c = [NoCall EXCEPT !.op = caller.op, !.ret = ret]
    <2>0. c = [at |-> "idle", op |-> caller.op, turnOp |-> "none", avail |-> 0, room |-> 0,
               fwd |-> FALSE, moved |-> FALSE, inUse |-> NoRange, ret |-> ret]
      BY <1>1 DEF NoCall
    <2>1. c \in [at : {"idle"}, op : {caller.op}, turnOp : {"none"}, avail : Int, room : {0},
                 fwd : {FALSE}, moved : {FALSE}, inUse : Ranges, ret : {ret}]
      BY <1>0, <2>0
    <2>2. c.at = "idle" /\ c.ret = ret /\ c.op = caller.op /\ c.avail = 0
      BY <1>1 DEF NoCall
    <2>3. c.turnOp = "none" /\ c.room = 0 /\ c.fwd = FALSE /\ c.moved = FALSE
      BY <1>1 DEF NoCall
    <2> QED
      BY <2>1, <2>2, <2>3 DEF IsCall
  <1>2. CASE c = [caller EXCEPT !.at = "range", !.turnOp = caller.op, !.room = left,
                                !.fwd = FALSE, !.moved = FALSE, !.inUse = NoRange] /\ ret # "error"
    <2>1. c \in [at : {"range"}, op : {caller.op}, turnOp : {caller.op}, avail : Int, room : {left},
                 fwd : {FALSE}, moved : {FALSE}, inUse : Ranges, ret : {caller.ret}]
      BY <1>0, <1>2 DEF IsCall
    <2>2. c.at = "range" /\ c.ret = caller.ret /\ c.op = caller.op /\ c.turnOp = caller.op /\ c.avail = caller.avail
      BY <1>0, <1>2 DEF IsCall
    <2>3. c.room = left /\ c.fwd = FALSE /\ c.moved = FALSE
      BY <1>0, <1>2 DEF IsCall
    <2> QED
      BY <1>2, <2>1, <2>2, <2>3 DEF IsCall
  <1> QED
    BY <1>1, <1>2 DEF NextTurn

\* Workers and jobs stay as they are.
LEMMA PoolStays ==
  ASSUME HeldApart, JobsPosted, HeldPosted,
         jobs' = jobs, worker' = worker, queued' = queued,
         mt'.table = mt.table, mt'.doneJobID = mt.doneJobID, mt'.nextJobID = mt.nextJobID,
         mt'.jobReady = mt.jobReady, Live' => Live,
         Live' /\ mt'.session = "init" => mt.session = "init" /\ mt'.allJobsCompleted = mt.allJobsCompleted
  PROVE  HeldApart' /\ JobsPosted' /\ HeldPosted'
  <1>1. HeldApart'
    BY DEF HeldApart, Holds, Unfinished
  <1>2. JobsPosted'
    BY DEF JobsPosted
  <1>3. HeldPosted'
    <2>1. SUFFICES ASSUME Live' PROVE HeldPosted'
      BY DEF HeldPosted
    <2>2. Posted' = Posted /\ Active' = Active /\ (\A w \in Workers : Holds(w)' <=> Holds(w))
          /\ \A j : Slot(j)' = Slot(j)
      BY DEF Posted, Active, Slot, Holds
    <2>3. \A j : Pending(Slot(j))' <=> Pending(Slot(j))
      BY <2>2 DEF Pending, Unfinished
    <2>4. Pending(Slot(mt.nextJobID))' <=> Pending(Slot(mt.nextJobID))
      BY <2>2 DEF Pending, Unfinished
    <2>5. \A s : Unfinished(s)' <=> Unfinished(s)
      BY DEF Unfinished
    <2> QED
      BY <2>1, <2>2, <2>3, <2>4, <2>5 DEF HeldPosted
  <1> QED
    BY <1>1, <1>2, <1>3

\* Steps of the caller that only look at the buffer.
LEMMA CallInv ==
  ASSUME MTAssumption, ~MayAbandon, IInv,
         NEW op, NEW most \in Inputs, NEW r, Call(op, most, r)
  PROVE  IInv'
  <1> USE DEF IInv
  <1> DEFINE n == Least(most, MaxInput - (IF mt.session = "init" THEN 0 ELSE taken))
             a == IF mt.session = "init" THEN "init" ELSE "range"
  <1>1. /\ caller.at = "idle" /\ caller.ret # "error"
        /\ caller' = [NoCall EXCEPT !.at = a, !.op = op, !.turnOp = op, !.avail = n, !.room = r]
        /\ UNCHANGED <<mt, jobs, round, taken, worker, queued>>
    BY DEF Call, WorkersWait
  <1>2. n \in Int
    BY Constants DEF Shapes, Least
  <1> HIDE DEF n, a
  <1>3. /\ IsCall(caller') /\ caller'.at = a /\ caller'.op = op /\ caller'.turnOp = op
        /\ caller'.avail = n /\ caller'.ret = "none"
    BY <1>1, <1>2, CallStarts
  <1>4. Shapes'
    BY <1>1, <1>3 DEF Shapes
  <1>5. CallPhase'
    <2>1. mt.session \in {"init", "load"} /\ mt' = mt
      BY <1>1 DEF Shapes, MTFields
    <2> QED
      BY <1>3, <2>1 DEF CallPhase, a
  <1>6. InputsStay
    <2>1. caller'.at \notin {"move", "ldm"}
      BY <1>3 DEF a
    <2> QED
      BY <1>1, <2>1 DEF InputsStay, Shapes, MTFields, Unfinished
  <1>7. HeldApart' /\ JobsPosted' /\ HeldPosted'
    <2>1. Live /\ Live'
      BY <1>1, <1>3 DEF Live, a
    <2> QED
      BY <1>1, <2>1, PoolStays
  <1> QED
    BY <1>4, <1>5, <1>6, <1>7, BufferStays

LEMMA LookInv ==
  ASSUME MTAssumption, IInv, SameSize \/ WrongStage \/ NoRangeNeeded
  PROVE  IInv'
  <1> USE DEF IInv
  <1>1. UNCHANGED <<jobs, round, taken, worker, queued>>
    BY DEF SameSize, WrongStage, NoRangeNeeded, WorkersWait
  <1>2. CASE SameSize
    <2>1. caller.at = "init" /\ caller' = [caller EXCEPT !.at = "initFrame"] /\ mt' = mt
      BY <1>2 DEF SameSize, Go
    <2>2. /\ IsCall(caller') /\ caller'.at = "initFrame" /\ caller'.op = caller.op
          /\ caller'.turnOp = caller.turnOp /\ caller'.ret = caller.ret
      BY <2>1, CallGoes
    <2>3. Shapes' /\ CallPhase'
      BY <1>1, <2>1, <2>2 DEF Shapes, CallPhase
    <2>4. InputsStay
      BY <1>1, <2>1, <2>2 DEF InputsStay, Shapes, MTFields, Unfinished
    <2>5. HeldApart' /\ JobsPosted' /\ HeldPosted'
      BY <1>1, <2>1, <2>2, PoolStays DEF Live
    <2> QED
      BY <2>3, <2>4, <2>5, BufferStays
  <1>3. CASE NoRangeNeeded
    <2>1. caller.at = "range" /\ caller' = [caller EXCEPT !.at = "load"] /\ mt' = mt
      BY <1>3 DEF NoRangeNeeded, Go
    <2>2. /\ IsCall(caller') /\ caller'.at = "load" /\ caller'.op = caller.op
          /\ caller'.turnOp = caller.turnOp /\ caller'.ret = caller.ret
      BY <2>1, CallGoes
    <2>3. Shapes' /\ CallPhase'
      BY <1>1, <2>1, <2>2 DEF Shapes, CallPhase
    <2>4. InputsStay
      BY <1>1, <2>1, <2>2 DEF InputsStay, Shapes, MTFields, Unfinished
    <2>5. HeldApart' /\ JobsPosted' /\ HeldPosted'
      BY <1>1, <2>1, <2>2, PoolStays DEF Live
    <2> QED
      BY <2>3, <2>4, <2>5, BufferStays
  <1>4. CASE WrongStage
    <2>1. caller.at = "range" /\ NextTurn("error", caller.room, FALSE) /\ mt' = [mt EXCEPT !.session = "init"]
      BY <1>4 DEF WrongStage
    <2>2. IsCall(caller') /\ caller'.at = "idle" /\ caller'.ret = "error"
      BY <2>1, TurnEnds
    <2>3. /\ mt' \in MTFields /\ mt'.session = "init"
          /\ mt'.table = mt.table /\ mt'.capacity = mt.capacity /\ mt'.pos = mt.pos
          /\ mt'.inStart = mt.inStart /\ mt'.filled = mt.filled /\ mt'.prefix = mt.prefix
          /\ mt'.jobReady = mt.jobReady /\ mt'.nextJobID = mt.nextJobID /\ mt'.doneJobID = mt.doneJobID
      BY <2>1 DEF Shapes, MTFields
    <2>4. Shapes' /\ CallPhase'
      BY <1>1, <2>2, <2>3 DEF Shapes, CallPhase
    <2>5. InputsStay
      BY <1>1, <2>2, <2>3 DEF InputsStay, Shapes, MTFields, Unfinished
    <2>6. HeldApart' /\ JobsPosted' /\ HeldPosted'
      BY <1>1, <2>2, <2>3, PoolStays DEF Live
    <2> QED
      BY <2>4, <2>5, <2>6, BufferStays
  <1> QED
    BY <1>2, <1>3, <1>4

\* The table is cleared.
Cleared == jobs' = [s \in Slots |-> ClearJob]

LEMMA ClearedTable ==
  ASSUME Cleared
  PROVE  /\ jobs' = [s \in Slots |-> jobs'[s]]
         /\ \A s \in Slots : /\ IsJob(jobs'[s]) /\ ~Unfinished(s)' /\ jobs'[s].src.size = 0
                             /\ jobs'[s].cdata = <<>> /\ ~jobs'[s].frameChecksumNeeded
  <1>1. /\ ClearJob.src = NoRange /\ ClearJob.prefix = NoRange /\ ClearJob.consumed = 0
        /\ ClearJob.cdata = <<>> /\ ClearJob.frameChecksumNeeded = FALSE
        /\ ClearJob = [src |-> NoRange, prefix |-> NoRange, jobID |-> 0, lastJob |-> FALSE,
             consumed |-> 0, cdata |-> <<>>, error |-> FALSE, dstFlushed |-> 0, dstBuff |-> FALSE,
             frameChecksumNeeded |-> FALSE]
    BY DEF ClearJob
  <1>2. NoRange \in Ranges /\ NoRange.size = 0
    BY DEF NoRange, Ranges
  <1>3. IsJob(ClearJob)
    BY <1>1, <1>2 DEF IsJob
  <1>4. \A s \in Slots : jobs'[s] = ClearJob
    BY DEF Cleared
  <1> QED
    BY <1>1, <1>2, <1>3, <1>4 DEF Cleared, Unfinished

LEMMA FreeInv ==
  ASSUME MTAssumption, IInv, FreeCCtx
  PROVE  IInv'
  <1> USE DEF IInv
  <1>1. /\ caller.at = "idle" /\ caller' = [caller EXCEPT !.at = "freed"] /\ Cleared
        /\ UNCHANGED <<mt, round, taken, worker, queued>>
    BY DEF FreeCCtx, Go, WorkersWait, Cleared
  <1>2. IsCall(caller') /\ caller'.at = "freed"
    BY <1>1, CallGoes
  <1>3. /\ jobs' = [s \in Slots |-> jobs'[s]]
        /\ \A s \in Slots : IsJob(jobs'[s]) /\ ~Unfinished(s)' /\ jobs'[s].src.size = 0
    BY <1>1, ClearedTable
  <1>4. Shapes'
    BY <1>1, <1>2, <1>3 DEF Shapes
  <1>5. CallPhase'
    BY <1>2 DEF CallPhase
  <1>6. InputsStay
    BY <1>1, <1>2, <1>3 DEF InputsStay, Shapes, MTFields
  <1>7. HeldApart'
    BY <1>1, <1>3 DEF HeldApart, Holds
  <1>8. JobsPosted' /\ HeldPosted'
    BY <1>1, <1>2 DEF JobsPosted, HeldPosted, Live
  <1> QED
    BY <1>4, <1>5, <1>6, <1>7, <1>8, BufferStays

\* Between frames nobody has a job.
LEMMA BetweenFrames ==
  ASSUME IInv, caller.at \in {"init", "initFrame"}
  PROVE  /\ mt.session = "init" /\ Live /\ mt.doneJobID = mt.nextJobID /\ ~mt.jobReady /\ mt.allJobsCompleted
         /\ Active = {} /\ queued = None /\ \A w \in Workers : ~Holds(w)
         /\ \A s \in Slots : jobs[s].cdata = <<>> /\ (jobs[s].frameChecksumNeeded => Unfinished(s))
  <1>1. mt.session = "init" /\ Live
    BY DEF IInv, CallPhase, Live
  <1>2. /\ mt.doneJobID = mt.nextJobID /\ ~mt.jobReady /\ mt.allJobsCompleted
        /\ mt.doneJobID \in Nat
    BY <1>1 DEF IInv, HeldPosted, Shapes, MTFields
  <1>3. Posted = {} /\ Active = {}
    BY <1>2 DEF Posted, Active
  <1> QED
    BY <1>1, <1>2, <1>3 DEF IInv, HeldPosted

\* Without jobs there is nothing to keep.
LEMMA NoneKept ==
  ASSUME mt'.doneJobID \in Nat, mt'.doneJobID = mt'.nextJobID, ~mt'.jobReady
  PROVE  Kept' = {} /\ KeptIntact'
  <1>1. Kept' = {}
    BY DEF Kept
  <1> QED
    BY <1>1 DEF KeptIntact

LEMMA ResizeInv ==
  ASSUME MTAssumption, IInv, NEW n \in NbWorkers, Resize(n)
  PROVE  IInv'
  <1>1. /\ caller.at = "init" /\ caller' = [caller EXCEPT !.at = "initFrame"]
        /\ mt' = [mt EXCEPT !.nbWorkers = n, !.table = IF n + 2 > @ THEN TableSize(n) ELSE @]
        /\ Cleared \/ jobs' = jobs
        /\ UNCHANGED <<round, taken, worker, queued>>
    BY DEF Resize, Go, WorkersWait, Cleared
  <1>2. /\ mt.session = "init" /\ Live /\ mt.doneJobID = mt.nextJobID /\ ~mt.jobReady /\ mt.allJobsCompleted
        /\ Active = {} /\ queued = None /\ \A w \in Workers : ~Holds(w)
        /\ \A s \in Slots : jobs[s].cdata = <<>> /\ (jobs[s].frameChecksumNeeded => Unfinished(s))
    BY <1>1, BetweenFrames
  <1>3. Shapes /\ CallPhase /\ JobsPosted
    BY DEF IInv
  <1>4. /\ IsCall(caller') /\ caller'.at = "initFrame" /\ caller'.op = caller.op
        /\ caller'.turnOp = caller.turnOp /\ caller'.ret = caller.ret
    BY <1>1, <1>3, CallGoes
  <1>5. /\ mt' \in MTFields /\ mt'.table <= TableSize(MaxWorkers) /\ mt'.table \in Nat \ {0}
        /\ mt'.capacity = mt.capacity /\ mt'.session = "init"
        /\ mt'.jobReady = mt.jobReady /\ mt'.nextJobID = mt.nextJobID /\ mt'.doneJobID = mt.doneJobID
        /\ mt'.allJobsCompleted = mt.allJobsCompleted /\ mt.doneJobID \in Nat
    <2>1. TableSize(n) \in Nat \ {0} /\ TableSize(n) <= TableSize(MaxWorkers)
      BY TablesGrow
    <2>2. mt \in MTFields /\ mt.table \in Nat \ {0} /\ mt.table <= TableSize(MaxWorkers)
      BY <1>3 DEF Shapes, MTFields
    <2>3. mt'.table = (IF n + 2 > mt.table THEN TableSize(n) ELSE mt.table)
      BY <1>1, <2>2 DEF MTFields
    <2>4. mt'.table \in Nat \ {0} /\ mt'.table <= TableSize(MaxWorkers)
      BY <2>1, <2>2, <2>3
    <2>5. mt' = [mt EXCEPT !.nbWorkers = n, !.table = mt'.table]
      BY <1>1, <2>2, <2>3 DEF MTFields
    <2> QED
      BY <1>2, <2>2, <2>4, <2>5 DEF MTFields
  <1>6. /\ jobs' = [s \in Slots |-> jobs'[s]]
        /\ \A s \in Slots : /\ IsJob(jobs'[s]) /\ jobs'[s].cdata = <<>>
                            /\ jobs'[s].frameChecksumNeeded => Unfinished(s)'
    BY <1>1, <1>2, <1>3, ClearedTable DEF Shapes, Unfinished
  <1>7. Shapes'
    BY <1>1, <1>3, <1>4, <1>5, <1>6 DEF Shapes
  <1>8. CallPhase'
    BY <1>1, <1>3, <1>4, <1>5 DEF CallPhase
  <1>9. KeptIntact' /\ BufferInv'
    BY <1>2, <1>5, NoneKept DEF BufferInv
  <1>10. \A w \in Workers : ~Holds(w)'
    BY <1>1, <1>2 DEF Holds
  <1>11. HeldApart'
    BY <1>1, <1>2, <1>10 DEF HeldApart
  <1>12. JobsPosted'
    BY <1>2, <1>5 DEF JobsPosted
  <1>13. HeldPosted'
    BY <1>1, <1>2, <1>5, <1>6, <1>10 DEF HeldPosted
  <1> QED
    BY <1>7, <1>8, <1>9, <1>11, <1>12, <1>13 DEF IInv

LEMMA InitFrameInv ==
  ASSUME MTAssumption, dictSize = 0, IInv, InitFrame
  PROVE  IInv'
  <1> DEFINE c == Most(mt.capacity, capacityFor(mt.nbWorkers))
  <1>1. /\ mt.session = "init" /\ Live /\ mt.doneJobID = mt.nextJobID /\ ~mt.jobReady /\ mt.allJobsCompleted
        /\ Active = {} /\ queued = None /\ \A w \in Workers : ~Holds(w)
        /\ \A s \in Slots : jobs[s].cdata = <<>> /\ (jobs[s].frameChecksumNeeded => Unfinished(s))
    BY BetweenFrames DEF InitFrame
  <1>2. /\ caller.at = "initFrame" /\ caller' = [caller EXCEPT !.at = "range"]
        /\ mt' = [mt EXCEPT !.capacity = c, !.pos = 0,
                      !.inStart = None, !.filled = 0, !.prefix = NoRange,
                      !.doneJobID = 0, !.nextJobID = 0,
                      !.frameEnded = FALSE, !.allJobsCompleted = FALSE, !.session = "load"]
        /\ jobs' = jobs /\ taken' = 0
        /\ UNCHANGED <<round, worker, queued>>
    BY <1>1 DEF InitFrame, Go, Dictionary
  <1>3. Shapes /\ CallPhase /\ JobsPosted
    BY DEF IInv
  <1>4. /\ IsCall(caller') /\ caller'.at = "range" /\ caller'.op = caller.op
        /\ caller'.turnOp = caller.turnOp /\ caller'.ret = caller.ret
    BY <1>2, <1>3, CallGoes
  <1>5. c \in Nat /\ 3 * section <= c /\ c <= capacityFor(MaxWorkers)
    <2>1. /\ mt.capacity \in Nat /\ mt.capacity <= capacityFor(MaxWorkers) /\ mt.nbWorkers \in NbWorkers
          /\ section \in Nat
      BY <1>3, Constants DEF Shapes, MTFields
    <2>2. /\ capacityFor(mt.nbWorkers) \in Nat /\ 3 * section <= capacityFor(mt.nbWorkers)
          /\ capacityFor(mt.nbWorkers) <= capacityFor(MaxWorkers)
      BY <2>1, Capacities
    <2> QED
      BY <2>1, <2>2 DEF Most
  <1> HIDE DEF c
  <1>6. /\ mt' \in MTFields /\ mt'.table = mt.table /\ mt'.capacity = c /\ mt'.pos = 0 /\ mt'.inStart = None
        /\ mt'.filled = 0 /\ mt'.prefix = NoRange /\ mt'.doneJobID = 0 /\ mt'.nextJobID = 0
        /\ mt'.session = "load" /\ mt'.jobReady = mt.jobReady
    <2>1. NoRange \in Ranges /\ 0 \in 0 .. section
      BY Constants DEF NoRange, Ranges
    <2> QED
      BY <1>2, <1>3, <1>5, <2>1 DEF Shapes, MTFields
  <1>7. Shapes'
    BY <1>2, <1>3, <1>4, <1>5, <1>6 DEF Shapes
  <1>8. CallPhase'
    BY <1>2, <1>3, <1>4, <1>6 DEF CallPhase
  <1>9. Kept' = {} /\ KeptIntact'
    BY <1>1, <1>6, NoneKept
  <1>10. BufferInv'
    <2>1. KeptApart' /\ KeptInOrder'
      BY <1>9 DEF KeptApart, KeptInOrder
    <2>2. section \in Nat /\ NoRange.size = 0 /\ overlap \in Nat
      BY Constants DEF NoRange
    <2>3. InputAt' /\ InputBytes'
      BY <1>5, <1>6, <2>2 DEF InputAt, InputBytes
    <2>4. FirstLap'
      BY <1>1, <1>6, <1>9, <2>2 DEF FirstLap
    <2>5. Wrapping' /\ SectionIsFree'
      BY <1>4 DEF Wrapping, SectionIsFree
    <2> QED
      BY <2>1, <2>3, <2>4, <2>5 DEF BufferInv
  <1>11. \A w \in Workers : ~Holds(w)'
    BY <1>1, <1>2 DEF Holds
  <1>12. HeldApart'
    BY <1>1, <1>2, <1>11 DEF HeldApart
  <1>13. JobsPosted'
    BY <1>1, <1>3, <1>6 DEF JobsPosted, Shapes, MTFields
  <1>14. HeldPosted'
    BY <1>1, <1>2, <1>6, <1>11 DEF HeldPosted, Unfinished
  <1> QED
    BY <1>7, <1>8, <1>9, <1>10, <1>12, <1>13, <1>14 DEF IInv

LEMMA FlushFailsInv ==
  ASSUME MTAssumption, IInv, FlushFails
  PROVE  IInv'
  <1>1. /\ NextTurn("error", caller.room, FALSE) /\ Cleared
        /\ mt' = [mt EXCEPT !.doneJobID = mt.nextJobID, !.inStart = None, !.filled = 0,
                      !.allJobsCompleted = TRUE, !.session = "init"]
        /\ UNCHANGED <<round, taken, worker, queued>>
    BY DEF FlushFails, WorkersWait, Cleared
  <1>2. Shapes /\ HeldApart
    BY DEF IInv
  <1>3. IsCall(caller') /\ caller'.at = "idle" /\ caller'.ret = "error"
    BY <1>1, <1>2, TurnEnds
  <1>4. /\ mt' \in MTFields /\ mt'.table = mt.table /\ mt'.capacity = mt.capacity
        /\ mt'.doneJobID = mt.nextJobID /\ mt'.nextJobID = mt.nextJobID /\ mt'.session = "init"
        /\ mt.nextJobID \in Nat /\ mt.table \in Nat \ {0}
    <2>1. 0 \in 0 .. section /\ mt \in MTFields
      BY <1>2, Constants DEF Shapes
    <2> QED
      BY <1>1, <2>1 DEF MTFields
  <1>5. /\ jobs' = [s \in Slots |-> jobs'[s]]
        /\ \A s \in Slots : IsJob(jobs'[s]) /\ ~Unfinished(s)' /\ jobs'[s].src.size = 0
    BY <1>1, ClearedTable
  <1>6. Shapes'
    BY <1>1, <1>2, <1>3, <1>4, <1>5 DEF Shapes
  <1>7. CallPhase'
    BY <1>3 DEF CallPhase
  <1>8. HeldApart'
    BY <1>1, <1>2, <1>5 DEF HeldApart, Holds
  <1>9. JobsPosted' /\ HeldPosted'
    BY <1>3, <1>4 DEF JobsPosted, HeldPosted, Live
  <1>10. Kept' = {}
    <2>1. ASSUME NEW j \in Kept' PROVE FALSE
      <3>1. j \in Nat /\ jobs'[Slot(j)'].consumed < jobs'[Slot(j)'].src.size /\ Slot(j)' = Slot(j)
        BY <1>4, <2>1 DEF Kept, Unfinished, Slot
      <3>2. Slot(j) \in Slots
        BY <1>2, <3>1, KeptSlots
      <3> QED
        BY <1>5, <3>1, <3>2 DEF Unfinished
    <2> QED
      BY <2>1
  <1>11. KeptIntact' /\ BufferInv'
    BY <1>4, <1>10 DEF KeptIntact, BufferInv
  <1> QED
    BY <1>6, <1>7, <1>8, <1>9, <1>11 DEF IInv

\* What flushing does to the oldest job: its input and what is done of it stay.
LEMMA JobChecked ==
  ASSUME NEW j, IsJob(j)
  PROVE  /\ IsJob(WithChecksum(j))
         /\ WithChecksum(j).src = j.src /\ WithChecksum(j).prefix = j.prefix
         /\ WithChecksum(j).consumed = j.consumed
         /\ WithChecksum(j).frameChecksumNeeded => j.frameChecksumNeeded /\ j.consumed < j.src.size
         /\ WithChecksum(j).jobID = j.jobID /\ WithChecksum(j).lastJob = j.lastJob
         /\ WithChecksum(j).error = j.error /\ WithChecksum(j).dstFlushed = j.dstFlushed
         /\ ~ChecksumDue(j) => WithChecksum(j) = j
         /\ ChecksumDue(j) => WithChecksum(j).cdata = Append(j.cdata, Checksum(serial.hashed))
                               /\ ~WithChecksum(j).frameChecksumNeeded
  <1>1. CASE ~ChecksumDue(j)
    BY <1>1 DEF WithChecksum, ChecksumDue
  <1>2. CASE ChecksumDue(j)
    <2> DEFINE d == Append(j.cdata, Checksum(serial.hashed))
               k == [j EXCEPT !.cdata = d, !.frameChecksumNeeded = FALSE]
    <2>1. WithChecksum(j) = k
      BY <1>2 DEF WithChecksum
    <2> HIDE DEF d
    <2>2. k \in [src : Ranges, prefix : Ranges, jobID : {j.jobID}, lastJob : {j.lastJob},
               consumed : Nat, cdata : {d}, error : {j.error}, dstFlushed : {j.dstFlushed},
               dstBuff : {j.dstBuff}, frameChecksumNeeded : {FALSE}]
      BY DEF IsJob
    <2>3. /\ k.src = j.src /\ k.prefix = j.prefix /\ k.cdata = d /\ k.consumed = j.consumed
          /\ k.frameChecksumNeeded = FALSE
          /\ k.jobID = j.jobID /\ k.lastJob = j.lastJob /\ k.error = j.error /\ k.dstFlushed = j.dstFlushed
      BY DEF IsJob
    <2>4. IsJob(k)
      BY <2>2, <2>3 DEF IsJob
    <2> HIDE DEF k
    <2> QED
      BY <1>2, <2>1, <2>3, <2>4 DEF d
  <1> QED
    BY <1>1, <1>2

LEMMA JobFlushed ==
  ASSUME NEW j, IsJob(j), NEW f
  PROVE  /\ IsJob([j EXCEPT !.dstFlushed = f])
         /\ [j EXCEPT !.dstFlushed = f].src = j.src /\ [j EXCEPT !.dstFlushed = f].prefix = j.prefix
         /\ [j EXCEPT !.dstFlushed = f].consumed = j.consumed
         /\ [j EXCEPT !.dstFlushed = f].cdata = j.cdata
         /\ [j EXCEPT !.dstFlushed = f].frameChecksumNeeded = j.frameChecksumNeeded
         /\ [j EXCEPT !.dstFlushed = f].jobID = j.jobID /\ [j EXCEPT !.dstFlushed = f].lastJob = j.lastJob
         /\ [j EXCEPT !.dstFlushed = f].error = j.error /\ [j EXCEPT !.dstFlushed = f].dstFlushed = f
  <1> DEFINE k == [j EXCEPT !.dstFlushed = f]
  <1>1. k \in [src : Ranges, prefix : Ranges, jobID : {j.jobID}, lastJob : {j.lastJob},
               consumed : Nat, cdata : {j.cdata}, error : {j.error}, dstFlushed : {f},
               dstBuff : {j.dstBuff}, frameChecksumNeeded : {j.frameChecksumNeeded}]
    BY DEF IsJob
  <1>2. /\ k.src = j.src /\ k.prefix = j.prefix /\ k.cdata = j.cdata /\ k.consumed = j.consumed
        /\ k.frameChecksumNeeded = j.frameChecksumNeeded
        /\ k.jobID = j.jobID /\ k.lastJob = j.lastJob /\ k.error = j.error /\ k.dstFlushed = f
    BY DEF IsJob
  <1> QED
    BY <1>1, <1>2 DEF IsJob

\* What there is room for of what a job has put out.
Part(k) == IF k.cdata = <<>> THEN 0 ELSE Least(Len(k.cdata) - k.dstFlushed, caller.room)

\* The caller's thread has flushed something of the oldest job, or the last of it.
Flushed(d, finished) ==
  LET k == WithChecksum(jobs[d]) IN
  /\ SlotChanges(d)
  /\ jobs'[d].src = jobs[d].src /\ jobs'[d].prefix = jobs[d].prefix /\ jobs'[d].consumed = jobs[d].consumed
  /\ jobs'[d].frameChecksumNeeded = k.frameChecksumNeeded
  /\ jobs'[d].cdata = IF finished THEN <<>> ELSE k.cdata
  /\ finished => Len(k.cdata) > 0 /\ ~Unfinished(d)
  /\ mt'.doneJobID = IF finished THEN mt.doneJobID + 1 ELSE mt.doneJobID
  /\ finished <=> Len(k.cdata) > 0 /\ ~Unfinished(d) /\ k.dstFlushed + Part(k) = Len(k.cdata)
  /\ jobs'[d].jobID = jobs[d].jobID /\ jobs'[d].lastJob = jobs[d].lastJob /\ jobs'[d].error = jobs[d].error
  /\ jobs'[d].dstFlushed = k.dstFlushed + Part(k)
  /\ out' = out \o SubSeq(k.cdata, k.dstFlushed + 1, k.dstFlushed + Part(k))

LEMMA FlushSteps ==
  ASSUME MTAssumption, IInv, Flush
  PROVE  \E finished \in BOOLEAN : Flushed(done, finished)
  <1> DEFINE d == done
             k == WithChecksum(jobs[d])
             n == Part(k)
             f == k.dstFlushed + n
             finished == Len(k.cdata) > 0 /\ ~Unfinished(d) /\ f = Len(k.cdata)
             r == IF finished THEN [k EXCEPT !.dstBuff = FALSE, !.cdata = <<>>, !.dstFlushed = f]
                  ELSE [k EXCEPT !.dstFlushed = f]
  <1>1. Shapes /\ d \in Slots /\ IsJob(jobs[d]) /\ mt \in MTFields
    <2>1. Shapes /\ mt.doneJobID \in Nat
      BY DEF IInv, Shapes, MTFields
    <2> QED
      BY <2>1, KeptSlots DEF done, Shapes
  <1>2. /\ IsJob(k) /\ k.src = jobs[d].src /\ k.prefix = jobs[d].prefix /\ k.consumed = jobs[d].consumed
        /\ k.jobID = jobs[d].jobID /\ k.lastJob = jobs[d].lastJob /\ k.error = jobs[d].error
    BY <1>1, JobChecked
  <1>3. jobs' = [jobs EXCEPT ![d] = r] /\ out' = out \o SubSeq(k.cdata, k.dstFlushed + 1, f)
    BY DEF Flush, Part
  <1>4. mt'.doneJobID = IF finished THEN mt.doneJobID + 1 ELSE mt.doneJobID
    <2>1. PICK a, s : mt' = [(IF finished THEN [mt EXCEPT !.doneJobID = @ + 1] ELSE mt)
                               EXCEPT !.allJobsCompleted = a, !.session = s]
      BY DEF Flush, Part
    <2> HIDE DEF finished
    <2> QED
      BY <1>1, <2>1 DEF MTFields
  <1>5. finished <=> Len(k.cdata) > 0 /\ ~Unfinished(d) /\ f = Len(k.cdata)
    OBVIOUS
  <1>6. finished \in BOOLEAN
    OBVIOUS
  <1> HIDE DEF finished, n, f, k, d
  <1>7. /\ IsJob(r) /\ r.src = jobs[d].src /\ r.prefix = jobs[d].prefix /\ r.consumed = jobs[d].consumed
        /\ r.frameChecksumNeeded = k.frameChecksumNeeded /\ r.cdata = IF finished THEN <<>> ELSE k.cdata
        /\ r.jobID = k.jobID /\ r.lastJob = k.lastJob /\ r.error = k.error /\ r.dstFlushed = f
    <2>1. CASE finished
      <3>1. r \in [src : Ranges, prefix : Ranges, jobID : {k.jobID}, lastJob : {k.lastJob},
               consumed : Nat, cdata : {<<>>}, error : {k.error}, dstFlushed : {f},
               dstBuff : {FALSE}, frameChecksumNeeded : {k.frameChecksumNeeded}]
        BY <1>2, <2>1 DEF IsJob
      <3>2. /\ r.src = k.src /\ r.prefix = k.prefix /\ r.consumed = k.consumed
            /\ r.cdata = <<>> /\ r.frameChecksumNeeded = k.frameChecksumNeeded
            /\ r.jobID = k.jobID /\ r.lastJob = k.lastJob /\ r.error = k.error /\ r.dstFlushed = f
        BY <1>2, <2>1 DEF IsJob
      <3> HIDE DEF r
      <3>3. IsJob(r)
        BY <3>1, <3>2 DEF IsJob
      <3> QED
        BY <1>2, <2>1, <3>2, <3>3
    <2>2. CASE ~finished
      BY <1>2, <2>2, JobFlushed
    <2> QED
      BY <2>1, <2>2
  <1> HIDE DEF r
  <1>8. SlotChanges(d) /\ jobs'[d] = r
    BY <1>1, <1>3, <1>7, SlotIs
  <1>9. Flushed(d, finished)
    BY <1>2, <1>3, <1>4, <1>5, <1>7, <1>8 DEF Flushed, k, f, n
  <1> QED
    BY <1>6, <1>9 DEF d

\* When nothing is left of a frame that the caller has ended, its session ends.
LEMMA FlushMT ==
  ASSUME IInv, Flush, NEW finished \in BOOLEAN, Flushed(done, finished)
  PROVE  /\ mt' \in MTFields
         /\ mt'.table = mt.table /\ mt'.capacity = mt.capacity /\ mt'.pos = mt.pos
         /\ mt'.inStart = mt.inStart /\ mt'.filled = mt.filled /\ mt'.prefix = mt.prefix
         /\ mt'.jobReady = mt.jobReady /\ mt'.nextJobID = mt.nextJobID
         /\ mt'.session = "init" =>
              mt'.nextJobID <= mt'.doneJobID /\ ~mt'.jobReady /\ mt'.allJobsCompleted
         /\ mt'.frameEnded = mt.frameEnded
         /\ \E ret, left, moved :
              /\ ret \in {"zero", "more"} /\ NextTurn(ret, left, moved) /\ mt'.session = Session(ret)
              /\ left = caller.room - Part(WithChecksum(jobs[done]))
              /\ ret = "zero" => /\ ~(mt'.doneJobID < mt.nextJobID) /\ ~mt.jobReady /\ ~(mt.filled > 0)
                                 /\ (caller.turnOp = "end" => mt.frameEnded) /\ caller.avail = 0
  <1> DEFINE d == done
             k == WithChecksum(jobs[d])
             n == Part(k)
             f == k.dstFlushed + n
             fin == Len(k.cdata) > 0 /\ ~Unfinished(d) /\ f = Len(k.cdata)
             m == IF fin THEN [mt EXCEPT !.doneJobID = @ + 1] ELSE mt
             more == \/ ~fin /\ (Len(k.cdata) > f \/ Unfinished(d))
                     \/ m.doneJobID < m.nextJobID \/ m.jobReady \/ m.filled > 0
             zero == ~more /\ (caller.turnOp = "end" => m.frameEnded) /\ caller.avail = 0
             ret == IF zero THEN "zero" ELSE "more"
             all == IF more THEN m.allJobsCompleted ELSE m.frameEnded
  <1>1. /\ mt' = [m EXCEPT !.allJobsCompleted = IF more THEN @ ELSE m.frameEnded, !.session = Session(ret)]
        /\ NextTurn(ret, caller.room - n, caller.moved \/ n > 0)
    BY DEF Flush, Part
  <1>2. mt \in MTFields /\ mt.doneJobID \in Nat /\ mt.nextJobID \in Nat
        /\ mt.frameEnded \in BOOLEAN /\ mt.allJobsCompleted \in BOOLEAN /\ mt.jobReady \in BOOLEAN
    BY DEF IInv, Shapes, MTFields
  <1>3. more \in BOOLEAN
    OBVIOUS
  <1>0. ~more => ~(m.doneJobID < m.nextJobID) /\ ~m.jobReady /\ ~(m.filled > 0)
    OBVIOUS
  <1> HIDE DEF fin, more, n, f, k, d
  <1>4. /\ m \in MTFields /\ m.table = mt.table /\ m.capacity = mt.capacity /\ m.pos = mt.pos
        /\ m.inStart = mt.inStart /\ m.filled = mt.filled /\ m.prefix = mt.prefix
        /\ m.jobReady = mt.jobReady /\ m.nextJobID = mt.nextJobID /\ m.frameEnded = mt.frameEnded
        /\ m.doneJobID \in Nat
    <2>1. CASE ~fin
      BY <1>2, <2>1
    <2>2. CASE fin
      <3>1. m = [mt EXCEPT !.doneJobID = mt.doneJobID + 1] /\ mt.doneJobID + 1 \in Nat
        BY <1>2, <2>2
      <3> HIDE DEF m
      <3> QED
        BY <1>2, <3>1 DEF MTFields
    <2> QED
      BY <2>1, <2>2
  <1>5. m.allJobsCompleted \in BOOLEAN /\ m.frameEnded \in BOOLEAN /\ m.doneJobID \in Nat /\ m.nextJobID \in Nat
    BY <1>4 DEF MTFields
  <1> HIDE DEF m
  <1>6. ret \in {"zero", "more"} /\ Session(ret) \in {"init", "load"} /\ all \in BOOLEAN
    BY <1>5 DEF Session
  <1>7. mt' = [m EXCEPT !.allJobsCompleted = all, !.session = Session(ret)]
    BY <1>1, <1>4 DEF MTFields
  <1>8. Session(ret) = "init" => ~more /\ m.frameEnded
    <2>1. SUFFICES ASSUME Session(ret) = "init" PROVE ~more /\ m.frameEnded
      OBVIOUS
    <2>2. caller.op = "end" /\ zero
      BY <2>1 DEF Session
    <2>3. caller.at = "flush" /\ caller.avail = 0
      BY <2>2 DEF Flush
    <2>4. caller.turnOp = "end"
      BY <2>2, <2>3 DEF IInv, CallPhase
    <2> QED
      BY <2>2, <2>4
  <1>9. ~more => m.nextJobID <= m.doneJobID /\ ~m.jobReady
    BY <1>0, <1>5
  <1>10. Session(ret) = "init" => m.nextJobID <= m.doneJobID /\ ~m.jobReady /\ all
    BY <1>8, <1>9
  <1>14. ret = "zero" => /\ ~(m.doneJobID < m.nextJobID) /\ ~m.jobReady /\ ~(m.filled > 0)
                         /\ (caller.turnOp = "end" => m.frameEnded) /\ caller.avail = 0
    BY <1>0
  <1>11. \E r, left, moved :
           /\ r \in {"zero", "more"} /\ NextTurn(r, left, moved) /\ Session(ret) = Session(r)
           /\ left = caller.room - n
           /\ r = "zero" => /\ ~(m.doneJobID < m.nextJobID) /\ ~m.jobReady /\ ~(m.filled > 0)
                            /\ (caller.turnOp = "end" => m.frameEnded) /\ caller.avail = 0
    BY <1>1, <1>6, <1>14
  <1> HIDE DEF ret, all, zero
  <1>12. mt'.session = Session(ret) /\ mt'.allJobsCompleted = all
    BY <1>4, <1>7 DEF MTFields
  <1>13. /\ mt' \in MTFields /\ mt'.doneJobID = m.doneJobID
         /\ mt'.table = mt.table /\ mt'.capacity = mt.capacity /\ mt'.pos = mt.pos
         /\ mt'.inStart = mt.inStart /\ mt'.filled = mt.filled /\ mt'.prefix = mt.prefix
         /\ mt'.jobReady = mt.jobReady /\ mt'.nextJobID = mt.nextJobID /\ mt'.frameEnded = mt.frameEnded
    BY <1>4, <1>6, <1>7 DEF MTFields
  <1> QED
    BY <1>4, <1>10, <1>11, <1>12, <1>13 DEF n, k, d

LEMMA FlushPosted ==
  ASSUME MTAssumption, IInv, Flush, NEW finished \in BOOLEAN, Flushed(done, finished)
  PROVE  JobsPosted' /\ HeldApart' /\ HeldPosted' /\ InputsStay
  <1> DEFINE d == done  k == WithChecksum(jobs[d])
  <1>1. /\ Shapes /\ CallPhase /\ HeldApart /\ JobsPosted /\ HeldPosted /\ caller.at = "flush" /\ Live
        /\ UNCHANGED <<round, taken, worker, queued>>
    BY DEF IInv, Flush, CallPhase, Live, WorkersWait
  <1>2. /\ mt.table \in Nat \ {0} /\ mt.doneJobID \in Nat /\ mt.nextJobID \in Nat
        /\ mt.doneJobID <= mt.nextJobID /\ mt.nextJobID <= mt.doneJobID + mt.table
        /\ mt.jobReady => mt.nextJobID < mt.doneJobID + mt.table
    BY <1>1 DEF Shapes, MTFields, JobsPosted
  <1>3. d = Slot(mt.doneJobID) /\ d \in Slots /\ IsJob(jobs[d])
    BY <1>1, <1>2, KeptSlots DEF done, Shapes
  <1>4. /\ mt'.table = mt.table /\ mt'.jobReady = mt.jobReady /\ mt'.nextJobID = mt.nextJobID
        /\ mt'.doneJobID = IF finished THEN mt.doneJobID + 1 ELSE mt.doneJobID
        /\ mt'.capacity = mt.capacity /\ mt'.pos = mt.pos
        /\ mt'.inStart = mt.inStart /\ mt'.filled = mt.filled /\ mt'.prefix = mt.prefix
        /\ mt'.session = "init" =>
             mt'.nextJobID <= mt'.doneJobID /\ ~mt'.jobReady /\ mt'.allJobsCompleted
    BY FlushMT DEF Flushed
  <1>5. /\ k.frameChecksumNeeded => jobs[d].frameChecksumNeeded /\ Unfinished(d)
        /\ ~ChecksumDue(jobs[d]) => k = jobs[d]
    BY <1>3, JobChecked DEF Unfinished
  <1>6. /\ SlotChanges(d)
        /\ jobs'[d].src = jobs[d].src /\ jobs'[d].prefix = jobs[d].prefix /\ jobs'[d].consumed = jobs[d].consumed
        /\ jobs'[d].frameChecksumNeeded = k.frameChecksumNeeded
        /\ jobs'[d].cdata = IF finished THEN <<>> ELSE k.cdata
        /\ finished => Len(k.cdata) > 0 /\ ~Unfinished(d)
    BY DEF Flushed
  <1> HIDE DEF d, k
  <1>7. /\ \A s \in Slots : Unfinished(s)' <=> Unfinished(s)
        /\ \A s \in Slots : jobs'[s].src = jobs[s].src /\ jobs'[s].prefix = jobs[s].prefix
        /\ \A s \in Slots \ {d} : jobs'[s] = jobs[s]
    BY <1>6 DEF SlotChanges, Unfinished
  \* A job with nothing to flush stays so.
  <1>8. ASSUME jobs[d].cdata = <<>>, jobs[d].frameChecksumNeeded => Unfinished(d)
        PROVE  ~finished /\ jobs'[d].cdata = <<>>
    <2>1. k = jobs[d]
      BY <1>5, <1>8 DEF ChecksumDue, Unfinished
    <2>2. Len(k.cdata) = 0
      BY <1>8, <2>1
    <2> QED
      BY <1>6, <1>8, <2>1, <2>2
  <1>9. finished => mt.doneJobID < mt.nextJobID
    <2>1. SUFFICES ASSUME finished, mt.doneJobID = mt.nextJobID PROVE FALSE
      BY <1>2
    <2>2. d \in Slots \ Active
      BY <1>2, <1>3, <2>1 DEF Active
    <2>3. jobs[d].cdata = <<>> /\ (jobs[d].frameChecksumNeeded => Unfinished(d))
      BY <1>1, <2>2 DEF HeldPosted
    <2> QED
      BY <1>8, <2>1, <2>3
  <1>10. JobsPosted'
    BY <1>2, <1>4, <1>9 DEF JobsPosted
  <1>11. HeldApart'
    BY <1>1, <1>7 DEF HeldApart, Holds
  <1>12. ASSUME NEW s \in Slots, Pending(s)
         PROVE  Pending(s)' /\ (finished => s # d)
    <2>1. CASE s # d
      BY <1>7, <1>12, <2>1 DEF Pending, Unfinished
    <2>2. CASE s = d
      <3>1. CASE Unfinished(d)
        BY <1>6, <1>7, <1>12, <2>2, <3>1 DEF Pending
      <3>2. CASE ~Unfinished(d)
        <4>1. jobs[d].src.size = 0 /\ jobs[d].cdata = <<>> /\ ~jobs[d].frameChecksumNeeded
          BY <1>12, <2>2, <3>2 DEF Pending
        <4>2. ~finished /\ jobs'[d].cdata = <<>> /\ ~jobs'[d].frameChecksumNeeded
          BY <1>5, <1>6, <1>8, <4>1
        <4> QED
          BY <1>6, <2>2, <4>1, <4>2 DEF Pending
      <3> QED
        BY <3>1, <3>2
    <2> QED
      BY <2>1, <2>2
  <1>13. Slot(mt.nextJobID)' = Slot(mt.nextJobID) /\ \A j : Slot(j)' = Slot(j)
    BY <1>4 DEF Slot
  <1>14. ASSUME NEW j \in Posted, Pending(Slot(j)) PROVE j \in Posted' /\ Pending(Slot(j))'
    <2>1. j \in Nat /\ mt.doneJobID <= j /\ j < mt.nextJobID
      BY <1>2 DEF Posted
    <2>2. Slot(j) \in Slots
      BY <1>1, <2>1, KeptSlots
    <2>3. Pending(Slot(j))' /\ (finished => Slot(j) # d)
      <3>1. PICK s \in Slots : s = Slot(j)
        BY <2>2
      <3>2. Pending(s) /\ Slot(j)' = s
        BY <1>13, <1>14, <3>1
      <3>3. Pending(s)' /\ (finished => s # d)
        BY <1>12, <3>2
      <3> QED
        BY <3>1, <3>2, <3>3 DEF Pending, Unfinished
    <2>4. finished => j # mt.doneJobID
      BY <1>3, <2>3
    <2> QED
      BY <1>2, <1>4, <2>1, <2>3, <2>4 DEF Posted
  <1>15. mt.jobReady => Pending(Slot(mt.nextJobID))'
    <2>1. SUFFICES ASSUME mt.jobReady PROVE Pending(Slot(mt.nextJobID))'
      OBVIOUS
    <2>2. PICK s \in Slots : s = Slot(mt.nextJobID)
      BY <1>1, <1>2, KeptSlots
    <2>3. Pending(s) /\ Slot(mt.nextJobID)' = s
      BY <1>1, <1>13, <2>1, <2>2 DEF HeldPosted
    <2>4. Pending(s)'
      BY <1>12, <2>3
    <2> QED
      BY <2>3, <2>4 DEF Pending, Unfinished
  <1>16. ASSUME NEW s \in Slots \ Active'
         PROVE  jobs'[s].cdata = <<>> /\ (jobs'[s].frameChecksumNeeded => Unfinished(s)')
    <2>1. Active' = {Slot(j) : j \in mt'.doneJobID .. mt.nextJobID - 1}
      BY <1>4, <1>13 DEF Active
    <2>2. finished => d \in Active
      BY <1>2, <1>3, <1>9 DEF Active
    <2>3. CASE s \in Active
      <3>1. PICK j \in mt.doneJobID .. mt.nextJobID - 1 : s = Slot(j)
        BY <2>3 DEF Active
      <3>2. j \notin mt'.doneJobID .. mt.nextJobID - 1
        BY <1>16, <2>1, <3>1
      <3>3. finished /\ j = mt.doneJobID
        BY <1>2, <1>4, <3>2
      <3> QED
        BY <1>3, <1>5, <1>6, <3>1, <3>3
    <2>4. CASE s \notin Active
      <3>1. jobs[s].cdata = <<>> /\ (jobs[s].frameChecksumNeeded => Unfinished(s))
        BY <1>1, <2>4 DEF HeldPosted
      <3>2. CASE s # d
        BY <1>7, <3>1, <3>2
      <3>3. CASE s = d
        BY <1>3, <1>5, <1>6, <1>7, <1>8, <3>1, <3>3
      <3> QED
        BY <3>2, <3>3
    <2> QED
      BY <2>3, <2>4
  <1>17. \A w \in Workers : Holds(w)' => \E j \in Posted' : worker'[w].slot = Slot(j)' /\ Pending(Slot(j))'
    <2>1. SUFFICES ASSUME NEW w \in Workers, Holds(w)'
                   PROVE  \E j \in Posted' : worker'[w].slot = Slot(j)' /\ Pending(Slot(j))'
      OBVIOUS
    <2>2. Holds(w) /\ worker'[w].slot = worker[w].slot
      BY <1>1, <2>1 DEF Holds
    <2>3. PICK j \in Posted : worker[w].slot = Slot(j) /\ Pending(Slot(j))
      BY <1>1, <2>2 DEF HeldPosted
    <2> QED
      BY <1>13, <1>14, <2>2, <2>3
  <1>18. queued # None => \E j \in Posted' : queued = Slot(j)' /\ Pending(Slot(j))'
    <2>1. SUFFICES ASSUME queued # None
                   PROVE  \E j \in Posted' : queued = Slot(j)' /\ Pending(Slot(j))'
      OBVIOUS
    <2>2. PICK j \in Posted : queued = Slot(j) /\ Pending(Slot(j))
      BY <1>1, <2>1 DEF HeldPosted
    <2> QED
      BY <1>13, <1>14, <2>2
  <1>19. mt'.session = "init" => mt'.doneJobID = mt'.nextJobID /\ ~mt'.jobReady /\ mt'.allJobsCompleted
    BY <1>2, <1>4, <1>10 DEF JobsPosted
  <1>20. HeldPosted'
    BY <1>1, <1>4, <1>15, <1>16, <1>17, <1>18, <1>19 DEF HeldPosted
  <1>21. InputsStay
    <2>1. caller'.at \notin {"move", "ldm"}
      BY <1>1, FlushMT, TurnEnds
    <2>2. mt'.doneJobID \in Nat /\ mt.doneJobID <= mt'.doneJobID
      BY <1>2, <1>4
    <2>3. mt.session = "load"
      BY <1>1 DEF CallPhase
    <2> QED
      BY <1>1, <1>4, <1>7, <2>1, <2>2, <2>3 DEF InputsStay
  <1> QED
    BY <1>10, <1>11, <1>20, <1>21

LEMMA FlushInv ==
  ASSUME MTAssumption, IInv, Flush
  PROVE  IInv'
  <1>1. PICK finished \in BOOLEAN : Flushed(done, finished)
    BY FlushSteps
  <1>2. Shapes /\ CallPhase /\ caller.at = "flush" /\ UNCHANGED <<round, taken, worker, queued>>
    BY DEF IInv, Flush, WorkersWait
  <1>3. PICK ret, left, moved : /\ ret \in {"zero", "more"} /\ NextTurn(ret, left, moved)
                                /\ mt'.session = Session(ret)
    BY <1>1, FlushMT
  <1>4. /\ IsCall(caller')
        /\ \/ caller'.at = "idle" /\ caller'.ret = ret
           \/ /\ caller'.at = "range" /\ caller'.op = caller.op /\ caller'.turnOp = caller.op
              /\ caller'.ret = caller.ret /\ ret # "error"
    BY <1>2, <1>3, TurnEnds
  <1>5. Shapes'
    <2>1. mt' \in MTFields /\ mt'.table = mt.table /\ mt'.capacity = mt.capacity
      BY <1>1, FlushMT
    <2>2. SlotChanges(done)
      BY <1>1 DEF Flushed
    <2> QED
      BY <1>2, <1>4, <2>1, <2>2 DEF Shapes, SlotChanges
  <1>6. CallPhase'
    <2>1. caller.ret = "none"
      BY <1>2 DEF CallPhase
    <2>2. CASE caller'.at = "idle"
      BY <2>2 DEF CallPhase
    <2>3. CASE caller'.at = "range"
      <3>1. NoCall.at = "idle" /\ [NoCall EXCEPT !.op = caller.op, !.ret = ret].at = "idle"
        BY DEF NoCall
      <3>2. ~(caller.op # "continue" /\ ret = "zero")
        BY <1>3, <2>3, <3>1 DEF NextTurn
      <3>3. mt'.session = "load"
        BY <1>3, <3>2 DEF Session
      <3> QED
        BY <1>4, <2>1, <2>3, <3>3 DEF CallPhase
    <2> QED
      BY <1>4, <2>2, <2>3
  <1>7. JobsPosted' /\ HeldApart' /\ HeldPosted' /\ InputsStay
    BY <1>1, FlushPosted
  <1>8. KeptIntact' /\ BufferInv'
    BY <1>2, <1>7, BufferStays DEF IInv
  <1> QED
    BY <1>5, <1>6, <1>7, <1>8 DEF IInv

-----------------------------------------------------------------------------
\* Looking for room in the round buffer

\* What a kept job reads is something, and lies in the buffer.
LEMMA KeptRange ==
  ASSUME MTAssumption, Shapes, KeptIntact, NEW j \in Kept
  PROVE  /\ j \in Nat /\ Slot(j) \in Slots /\ Unfinished(Slot(j))
         /\ jobs[Slot(j)].src \in Ranges /\ jobs[Slot(j)].prefix \in Ranges
         /\ jobs[Slot(j)].src.start \in Nat
         /\ Lo(j) \in Nat /\ Hi(j) \in Nat /\ Lo(j) < Hi(j) /\ Lo(j) <= jobs[Slot(j)].src.start
         /\ jobs[Slot(j)].src.start + section <= mt.capacity
         /\ Hi(j) = jobs[Slot(j)].src.start + jobs[Slot(j)].src.size
         /\ jobs[Slot(j)].src.size <= section
  <1>1. mt.doneJobID \in Nat /\ mt.nextJobID \in Nat
    BY DEF Shapes, MTFields
  <1>2. j \in Nat /\ Unfinished(Slot(j))
    BY <1>1 DEF Kept
  <1>3. Slot(j) \in Slots
    BY <1>2, KeptSlots
  <1> DEFINE i == jobs[Slot(j)]
  <1>4. IsJob(i) /\ i.consumed < i.src.size
    BY <1>2, <1>3 DEF Shapes, Unfinished
  <1>5. /\ i.src \in Ranges /\ i.prefix \in Ranges /\ i.consumed \in Nat
        /\ i.src.size \in Nat /\ i.prefix.size \in Nat
    BY <1>4 DEF IsJob, Ranges
  <1>6. /\ i.src.start \in Nat /\ i.src.size <= section /\ i.src.start + section <= mt.capacity
        /\ i.prefix.size > 0 => /\ i.prefix.start \in Nat
                                /\ i.prefix.start + i.prefix.size = i.src.start
    BY DEF KeptIntact, KeptAt, End
  <1>7. Lo(j) = (IF i.prefix.size = 0 THEN i.src.start ELSE i.prefix.start) /\ Hi(j) = i.src.start + i.src.size
    BY DEF Lo, Hi, End
  <1> HIDE DEF i
  <1>8. /\ Lo(j) \in Nat /\ Hi(j) \in Nat /\ Lo(j) < Hi(j) /\ Lo(j) <= i.src.start
    BY <1>4, <1>5, <1>6, <1>7
  <1> QED
    BY <1>2, <1>3, <1>5, <1>6, <1>7, <1>8 DEF i

\* What ZSTDMT_getInputDataInUse() finds: nothing to look at, or where the oldest job reads.
LEMMA InUse ==
  ASSUME MTAssumption, Shapes, KeptIntact, ~mt.jobReady
  PROVE  \/ inputDataInUse = NoRange /\ mt.nextJobID < mt.capacity \div section
         \/ inputDataInUse = NoRange /\ Kept = {}
         \/ \E o \in Kept : /\ \A j \in Kept : o <= j
                            /\ inputDataInUse \in Ranges /\ inputDataInUse.size > 0
                            /\ inputDataInUse.start = Lo(o) /\ End(inputDataInUse) <= Hi(o)
  <1> DEFINE inUse == {j \in mt.doneJobID .. mt.nextJobID - 1 : Unfinished(Slot(j))}
             o == Oldest(inUse)
             i == jobs[Slot(o)]
             u == IF i.prefix.size = 0 THEN i.src ELSE i.prefix
  <1>1. mt.doneJobID \in Nat /\ mt.nextJobID \in Nat
    BY DEF Shapes, MTFields
  <1>2. inUse = Kept
    BY <1>1 DEF Kept
  <1>3. inputDataInUse = IF mt.nextJobID < mt.capacity \div section \/ inUse = {} THEN NoRange ELSE u
    BY DEF inputDataInUse
  <1>4. CASE Kept = {}
    BY <1>2, <1>3, <1>4
  <1>5. CASE mt.nextJobID < mt.capacity \div section
    BY <1>3, <1>5
  <1>6. CASE ~(mt.nextJobID < mt.capacity \div section) /\ Kept # {}
    <2>1. inputDataInUse = u
      BY <1>2, <1>3, <1>6
    <2>2. Kept \in SUBSET Nat
      BY <1>1 DEF Kept
    <2>3. \E k \in inUse : \A j \in inUse : k <= j
      BY <1>2, <1>6, <2>2, LeastOf
    <2>4. o \in Kept /\ \A j \in Kept : o <= j
      <3> HIDE DEF inUse
      <3>1. o \in inUse /\ \A j \in inUse : o <= j
        BY <2>3 DEF Oldest
      <3> QED
        BY <1>2, <3>1
    <2> HIDE DEF o
    <2>5. /\ i.src \in Ranges /\ i.prefix \in Ranges /\ Lo(o) \in Nat /\ Lo(o) < Hi(o)
          /\ i.src.start \in Nat /\ Hi(o) = i.src.start + i.src.size
          /\ i.prefix.size > 0 => End(i.prefix) = i.src.start
          /\ Lo(o) = IF i.prefix.size = 0 THEN i.src.start ELSE i.prefix.start
      BY <2>4, KeptRange DEF KeptIntact, KeptAt, Lo
    <2> HIDE DEF i
    <2>6. i.src.size \in Nat /\ i.prefix.size \in Nat
      BY <2>5 DEF Ranges
    <2>7. u \in Ranges /\ u.size > 0 /\ u.start = Lo(o) /\ End(u) <= Hi(o)
      BY <2>5, <2>6 DEF End
    <2> QED
      BY <2>1, <2>4, <2>7
  <1> QED
    BY <1>4, <1>5, <1>6

\* The buffer does not wrap in the first lap.
LEMMA WrapsLater ==
  ASSUME MTAssumption, Shapes, FirstLap, ~mt.jobReady, Wraps
  PROVE  ~(mt.nextJobID < mt.capacity \div section)
  <1>1. SUFFICES ASSUME mt.nextJobID < mt.capacity \div section PROVE FALSE
    OBVIOUS
  <1>2. /\ section \in Nat \ {0} /\ mt.capacity \in Nat /\ mt.pos \in Nat /\ mt.nextJobID \in Nat
    BY Constants DEF Shapes, MTFields
  <1>3. section * mt.nextJobID \in Nat /\ section * mt.nextJobID + section <= mt.capacity
    BY <1>1, <1>2, RoomForSection
  <1>4. mt.pos <= section * mt.nextJobID
    BY <1>1, <1>2 DEF FirstLap
  <1> QED
    BY <1>2, <1>3, <1>4 DEF Wraps

\* The whole of what is kept lies below or above a place, as its oldest job does.
LEMMA TryRangeInv ==
  ASSUME MTAssumption, IInv, TryRange
  PROVE  IInv'
  <1> DEFINE u == inputDataInUse
             first == IF Wraps THEN [start |-> 0, size |-> mt.prefix.size] ELSE Section(mt.pos)
             at == IF isOverlapped(first, u) THEN "load" ELSE IF Wraps THEN "move" ELSE "ldm"
  <1>1. /\ caller.at = "range" /\ ~mt.jobReady /\ mt.inStart = None
        /\ caller' = [caller EXCEPT !.inUse = u, !.at = at]
        /\ UNCHANGED <<mt, jobs, round, taken, worker, queued>>
    BY DEF TryRange, Wants, WorkersWait
  <1>2. Shapes /\ CallPhase /\ KeptIntact /\ mt.session = "load"
    BY <1>1 DEF IInv, CallPhase
  <1>3. KeptApart /\ KeptInOrder /\ InputAt /\ FirstLap /\ InputBytes
    BY <1>2 DEF IInv, BufferInv
  <1>4. \/ u = NoRange /\ mt.nextJobID < mt.capacity \div section
        \/ u = NoRange /\ Kept = {}
        \/ \E o \in Kept : /\ \A j \in Kept : o <= j
                           /\ u \in Ranges /\ u.size > 0
                           /\ u.start = Lo(o) /\ End(u) <= Hi(o)
    BY <1>1, <1>2, InUse
  <1>5. u \in Ranges
    BY <1>4 DEF NoRange, Ranges
  <1>6. /\ section \in Nat \ {0} /\ mt.capacity \in Nat /\ mt.pos \in Nat /\ mt.pos <= mt.capacity
        /\ mt.prefix.size \in Nat /\ mt.nextJobID \in Nat
    BY <1>2, <1>3, Constants DEF Shapes, MTFields, Ranges, InputAt
  <1>7. \A j \in Kept : /\ j \in Nat /\ Lo(j) \in Nat /\ Hi(j) \in Nat /\ Lo(j) < Hi(j)
                        /\ Lo(j) + section <= mt.capacity
    <2>1. ASSUME NEW j \in Kept
          PROVE  /\ j \in Nat /\ Lo(j) \in Nat /\ Hi(j) \in Nat /\ Lo(j) < Hi(j)
                 /\ Lo(j) + section <= mt.capacity
      BY <1>2, <1>6, KeptRange
    <2> QED
      BY <2>1
  <1>8. \A j \in Kept : (Low(j) <=> Hi(j) <= mt.pos) /\ (High(j) <=> Lo(j) >= mt.pos)
    BY <1>1, <1>6 DEF Low, High
  <1> HIDE DEF u
  <1>9. Wraps => \A j \in Kept : Low(j) /\ ~High(j)
    BY <1>3, <1>6, <1>7, <1>8 DEF Wraps, KeptApart
  <1>10. ~(\E j \in Kept : Low(j) /\ High(j))
    BY <1>6, <1>7, <1>8
  <1>11. Wraps /\ ~isOverlapped([start |-> 0, size |-> mt.prefix.size], u) =>
           \A j \in Kept : u.size > 0 /\ u.start <= Lo(j) /\ mt.prefix.size <= u.start
    <2>1. SUFFICES ASSUME Wraps, ~isOverlapped([start |-> 0, size |-> mt.prefix.size], u), NEW j \in Kept
                   PROVE  u.size > 0 /\ u.start <= Lo(j) /\ mt.prefix.size <= u.start
      OBVIOUS
    <2>2. ~(mt.nextJobID < mt.capacity \div section)
      BY <1>1, <1>2, <1>3, <2>1, WrapsLater
    <2>3. PICK o \in Kept : (\A k \in Kept : o <= k) /\ u.size > 0 /\ u.start = Lo(o)
      BY <1>4, <2>1, <2>2
    <2>4. Lo(o) <= Lo(j)
      <3>1. CASE o = j
        BY <1>7, <3>1
      <3>2. CASE o # j
        <4>1. o < j
          BY <1>7, <2>3, <3>2
        <4> QED
          BY <1>3, <1>9, <2>1, <4>1 DEF KeptInOrder
      <3> QED
        BY <3>1, <3>2
    <2>5. mt.prefix.size <= u.start
      <3>1. u.start \in Nat /\ u.size \in Nat
        BY <1>5, <1>7, <2>3 DEF Ranges
      <3>2. mt.prefix.size = 0 \/ ~(u.start < mt.prefix.size)
        BY <1>6, <2>1, <2>3, <3>1 DEF isOverlapped, End, None
      <3> QED
        BY <1>6, <3>1, <3>2
    <2> QED
      BY <2>3, <2>4, <2>5
  <1>12. ~Wraps /\ ~isOverlapped(Section(mt.pos), u) => \A j \in Kept : Low(j) \/ Lo(j) >= mt.pos + section
    <2>1. SUFFICES ASSUME ~Wraps, ~isOverlapped(Section(mt.pos), u), NEW j \in Kept
                   PROVE  Low(j) \/ Lo(j) >= mt.pos + section
      OBVIOUS
    <2>2. CASE mt.nextJobID < mt.capacity \div section
      BY <1>3, <2>2 DEF FirstLap
    <2>3. CASE ~(mt.nextJobID < mt.capacity \div section)
      <3>1. PICK o \in Kept : /\ \A k \in Kept : o <= k
                              /\ u.size > 0 /\ u.start = Lo(o) /\ End(u) <= Hi(o)
        BY <1>4, <2>1, <2>3
      <3>2. u.start \in Nat /\ u.size \in Nat /\ End(u) = u.start + u.size
        BY <1>5, <1>7, <3>1 DEF Ranges, End
      <3>3. End(u) <= mt.pos \/ Lo(o) >= mt.pos + section
        BY <1>6, <1>7, <2>1, <3>1, <3>2 DEF isOverlapped, Section, End, None
      <3>4. (Low(o) /\ ~High(o)) \/ Lo(o) >= mt.pos + section
        <4>1. End(u) <= mt.pos => ~High(o)
          BY <1>6, <1>7, <1>8, <3>1, <3>2
        <4> QED
          BY <1>3, <3>3, <4>1 DEF KeptApart
      <3>5. CASE o = j
        BY <3>4, <3>5
      <3>6. CASE o # j
        <4>1. o < j
          BY <1>7, <3>1, <3>6
        <4>2. \/ High(o) /\ Low(j)
              \/ Low(o) /\ Low(j)
              \/ High(o) /\ High(j) /\ Lo(o) <= Lo(j)
          BY <1>3, <4>1 DEF KeptInOrder
        <4>3. Lo(j) >= Lo(o) /\ Lo(o) >= mt.pos + section => Lo(j) >= mt.pos + section
          BY <1>6, <1>7
        <4>4. Lo(o) <= Lo(j) => Lo(j) >= Lo(o)
          BY <1>7
        <4> QED
          BY <3>4, <4>2, <4>3, <4>4
      <3> QED
        BY <3>5, <3>6
    <2> QED
      BY <2>2, <2>3
  <1>13. /\ IsCall(caller') /\ caller'.at = at /\ caller'.inUse = u
         /\ caller'.op = caller.op /\ caller'.turnOp = caller.turnOp /\ caller'.avail = caller.avail
         /\ caller'.ret = caller.ret
    <2> HIDE DEF at
    <2> QED
      BY <1>1, <1>2, <1>5, CallFinds
  <1>14. at \in {"load", "move", "ldm"}
    OBVIOUS
  <1>15. /\ at = "move" => Wraps /\ ~isOverlapped([start |-> 0, size |-> mt.prefix.size], u)
         /\ at = "ldm" => ~Wraps /\ ~isOverlapped(Section(mt.pos), u)
    BY DEF Section
  <1> HIDE DEF at, first
  <1>16. Shapes' /\ CallPhase'
    BY <1>1, <1>2, <1>13, <1>14 DEF Shapes, CallPhase
  <1>17. /\ Kept' = Kept /\ \A j : Lo(j)' = Lo(j) /\ Hi(j)' = Hi(j) /\ (KeptAt(j)' <=> KeptAt(j))
         /\ \A j : (KeptBytes(j)' <=> KeptBytes(j)) /\ (Low(j)' <=> Low(j)) /\ (High(j)' <=> High(j))
    BY <1>1 DEF Kept, Lo, Hi, KeptAt, KeptBytes, Low, High, Unfinished, Slot
  <1>18. KeptIntact'
    BY <1>2, <1>17 DEF KeptIntact
  <1>19. BufferInv'
    <2>1. KeptApart' /\ KeptInOrder'
      BY <1>3, <1>17 DEF KeptApart, KeptInOrder
    <2>2. InputAt' /\ InputBytes' /\ FirstLap'
      BY <1>1, <1>3, <1>17 DEF InputAt, InputBytes, FirstLap
    <2>3. Wraps' <=> Wraps
      BY <1>1 DEF Wraps
    <2>4. Wrapping'
      BY <1>1, <1>11, <1>13, <1>15, <1>17, <2>3 DEF Wrapping
    <2>5. ~Wraps => mt.pos + section <= mt.capacity
      BY <1>6 DEF Wraps
    <2>6. SectionIsFree'
      BY <1>1, <1>12, <1>13, <1>15, <1>17, <2>5 DEF SectionIsFree
    <2> QED
      BY <2>1, <2>2, <2>4, <2>6 DEF BufferInv
  <1>20. HeldApart' /\ JobsPosted' /\ HeldPosted'
    <2>1. Live /\ mt'.session = mt.session
      BY <1>1, <1>2 DEF Live, CallPhase
    <2> QED
      BY <1>1, <2>1, PoolStays DEF IInv
  <1> QED
    BY <1>16, <1>18, <1>19, <1>20 DEF IInv

\* A step of the caller that leaves the jobs, the workers and what is posted alone.
LEMMA KeptSame ==
  ASSUME jobs' = jobs, mt'.table = mt.table, mt'.doneJobID = mt.doneJobID, mt'.nextJobID = mt.nextJobID,
         mt'.jobReady = mt.jobReady, mt'.capacity = mt.capacity
  PROVE  Kept' = Kept /\ \A j : Lo(j)' = Lo(j) /\ Hi(j)' = Hi(j) /\ (KeptAt(j)' <=> KeptAt(j))
  BY DEF Kept, Lo, Hi, KeptAt, Unfinished, Slot

LEMMA MovePrefixInv ==
  ASSUME MTAssumption, IInv, MovePrefix
  PROVE  IInv'
  <1> DEFINE p == mt.prefix.size
             r == [start |-> IF p = 0 THEN mt.prefix.start ELSE 0, size |-> p]
             at == IF isOverlapped(Section(p), caller.inUse) THEN "load" ELSE "ldm"
  <1>1. /\ caller.at = "move" /\ caller' = [caller EXCEPT !.at = at]
        /\ round' = [c \in Cells |-> IF c < p THEN round[mt.prefix.start + c] ELSE round[c]]
        /\ mt' = [mt EXCEPT !.prefix = r, !.pos = p]
        /\ UNCHANGED <<jobs, taken, worker, queued>>
    BY DEF MovePrefix, Go, WorkersWait
  <1>2. Shapes /\ CallPhase /\ KeptIntact /\ mt.session = "load" /\ mt.inStart = None /\ ~mt.jobReady
    BY <1>1 DEF IInv, CallPhase
  <1>3. KeptApart /\ KeptInOrder /\ InputAt /\ InputBytes /\ FirstLap /\ Wrapping
    BY <1>2 DEF IInv, BufferInv
  <1>4. Wraps /\ \A j \in Kept : caller.inUse.size > 0 /\ caller.inUse.start <= Lo(j) /\ p <= caller.inUse.start
    BY <1>1, <1>3 DEF Wrapping
  <1>5. /\ section \in Nat \ {0} /\ overlap \in Nat /\ overlap <= section
        /\ mt.capacity \in Nat /\ mt.pos \in Nat /\ mt.pos <= mt.capacity /\ 3 * section <= mt.capacity
        /\ p \in Nat /\ p <= overlap /\ mt.filled = 0 /\ taken \in Int
        /\ mt.capacity <= capacityFor(MaxWorkers) /\ capacityFor(MaxWorkers) \in Nat
        /\ p > 0 => mt.prefix.start \in Nat /\ mt.prefix.start + p = mt.pos
    BY <1>2, <1>3, Constants, MostWorkers, Capacities DEF Shapes, MTFields, Ranges, InputAt, End
  <1>6. \A j \in Kept : /\ j \in Nat /\ Lo(j) \in Nat /\ Hi(j) \in Nat /\ Lo(j) < Hi(j)
                        /\ Lo(j) + section <= mt.capacity /\ Hi(j) <= mt.capacity
    <2>1. ASSUME NEW j \in Kept
          PROVE  /\ j \in Nat /\ Lo(j) \in Nat /\ Hi(j) \in Nat /\ Lo(j) < Hi(j)
                 /\ Lo(j) + section <= mt.capacity /\ Hi(j) <= mt.capacity
      <3>1. jobs[Slot(j)].src.size \in Nat
        BY <1>2, KeptRange DEF Ranges
      <3> QED
        BY <1>2, <1>5, <3>1, KeptRange
    <2> QED
      BY <2>1
  <1>7. caller.inUse.start \in Int /\ caller.inUse.size \in Nat
    BY <1>2 DEF Shapes, IsCall, Ranges, None
  <1>8. \A x \in Nat : x < mt.capacity => x \in Cells
    BY <1>5 DEF Cells
  <1>9. /\ mt' \in MTFields /\ mt'.pos = p /\ mt'.prefix = r /\ mt'.inStart = None /\ mt'.filled = mt.filled
        /\ mt'.capacity = mt.capacity /\ mt'.table = mt.table /\ mt'.jobReady = mt.jobReady
        /\ mt'.nextJobID = mt.nextJobID /\ mt'.doneJobID = mt.doneJobID
        /\ mt'.session = mt.session /\ mt'.allJobsCompleted = mt.allJobsCompleted
    <2>1. mt \in MTFields /\ r \in Ranges /\ p \in Nat
      BY <1>2, <1>5 DEF Shapes, MTFields, Ranges
    <2> HIDE DEF r, p
    <2> QED
      BY <1>1, <1>2, <2>1 DEF MTFields
  <1>10. at \in {"load", "ldm"} /\ (at = "ldm" => ~isOverlapped(Section(p), caller.inUse))
    OBVIOUS
  <1> HIDE DEF at
  <1>11. /\ IsCall(caller') /\ caller'.at = at /\ caller'.op = caller.op
         /\ caller'.turnOp = caller.turnOp /\ caller'.ret = caller.ret
    BY <1>1, <1>2, CallGoes
  <1>12. round' \in [Cells -> Int]
    <2>1. round \in [Cells -> Int]
      BY <1>2 DEF Shapes
    <2>2. ASSUME NEW c \in Cells, c < p PROVE mt.prefix.start + c \in Cells
      <3>1. c \in Nat
        BY <1>5 DEF Cells
      <3>2. mt.prefix.start + c \in Nat /\ mt.prefix.start + c < mt.capacity
        BY <1>5, <2>2, <3>1
      <3> QED
        BY <1>8, <3>2
    <2> QED
      BY <1>1, <2>1, <2>2
  <1>13. Shapes' /\ CallPhase'
    BY <1>1, <1>2, <1>9, <1>10, <1>11, <1>12 DEF Shapes, CallPhase
  <1>14. Kept' = Kept /\ \A j : Lo(j)' = Lo(j) /\ Hi(j)' = Hi(j) /\ (KeptAt(j)' <=> KeptAt(j))
    BY <1>1, <1>9, KeptSame
  <1>15. KeptIntact'
    <2>1. ASSUME NEW j \in Kept PROVE KeptBytes(j)'
      <3>1. p <= Lo(j)
        BY <1>4, <1>5, <1>6, <1>7
      <3>2. ASSUME NEW x \in Lo(j) .. Hi(j) - 1 PROVE round'[x] = round[x]
        <4>1. x \in Nat /\ x < mt.capacity /\ ~(x < p)
          BY <1>5, <1>6, <3>1
        <4> QED
          BY <1>1, <1>8, <4>1
      <3>3. Lo(j) \in Lo(j) .. Hi(j) - 1
        BY <1>6
      <3>4. KeptBytes(j)
        BY <1>2 DEF KeptIntact
      <3> QED
        BY <1>14, <3>2, <3>3, <3>4 DEF KeptBytes
    <2> QED
      BY <1>2, <1>14, <2>1 DEF KeptIntact
  <1>16. \A j \in Kept : High(j)' /\ ~Low(j)'
    BY <1>4, <1>5, <1>6, <1>7, <1>9, <1>14 DEF High, Low
  <1>17. BufferInv'
    <2>1. KeptApart'
      BY <1>14, <1>16 DEF KeptApart
    <2>2. KeptInOrder'
      <3>1. \A j \in Kept : ~High(j)
        BY <1>2, <1>4, <1>5, <1>6 DEF High, Wraps
      <3>2. \A j, k \in Kept : j < k => Lo(j) <= Lo(k)
        BY <1>3, <3>1 DEF KeptInOrder
      <3> QED
        BY <1>14, <1>16, <3>2 DEF KeptInOrder
    <2>3. InputAt'
      <3>1. /\ mt'.pos <= mt'.capacity /\ 3 * section <= mt'.capacity /\ mt'.inStart = None /\ mt'.filled = 0
            /\ mt'.prefix.size <= overlap
        BY <1>5, <1>9
      <3>2. mt'.prefix.size > 0 => mt'.prefix.start \in Nat /\ End(mt'.prefix) = mt'.pos
        BY <1>5, <1>9 DEF End
      <3>3. \A j \in Kept' : Low(j)' => Lo(j)' <= mt'.prefix.start
        BY <1>14, <1>16
      <3> QED
        BY <3>1, <3>2, <3>3 DEF InputAt, End
    <2>4. InputBytes'
      <3>1. SUFFICES ASSUME NEW x \in 0 .. p - 1 PROVE round'[x] = taken + 1 + x - p
        <4>1. mt'.pos - mt'.prefix.size = 0 /\ mt'.pos + mt'.filled - 1 = p - 1
          BY <1>5, <1>9
        <4>2. \A x \in 0 .. p - 1 : taken' - mt'.filled + 1 + x - mt'.pos = taken + 1 + x - p
          BY <1>1, <1>5, <1>9
        <4> QED
          BY <3>1, <4>1, <4>2 DEF InputBytes
      <3>2. x \in Nat /\ x < mt.capacity /\ x < p /\ p > 0
        BY <1>5
      <3>3. round'[x] = round[mt.prefix.start + x]
        BY <1>1, <1>8, <3>2
      <3>4. mt.prefix.start + x \in mt.pos - p .. mt.pos + mt.filled - 1
        BY <1>5, <3>2
      <3>5. round[mt.prefix.start + x] = taken - mt.filled + 1 + (mt.prefix.start + x) - mt.pos
        BY <1>3, <3>4 DEF InputBytes
      <3> QED
        BY <1>5, <3>2, <3>3, <3>5
    <2>5. FirstLap'
      BY <1>2, <1>3, <1>4, <1>9, WrapsLater DEF FirstLap
    <2>6. Wrapping'
      BY <1>10, <1>11 DEF Wrapping
    <2>7. SectionIsFree'
      <3>1. SUFFICES ASSUME at = "ldm"
                     PROVE  mt'.pos + section <= mt'.capacity /\ \A j \in Kept : Lo(j) >= p + section
        BY <1>9, <1>11, <1>14 DEF SectionIsFree
      <3>2. mt'.pos + section <= mt'.capacity
        BY <1>5, <1>9
      <3>3. ASSUME NEW j \in Kept PROVE Lo(j) >= p + section
        <4>1. caller.inUse.size > 0 /\ caller.inUse.start <= Lo(j) /\ p <= caller.inUse.start
          BY <1>4
        <4>2. ~(p < End(caller.inUse)) \/ ~(caller.inUse.start < p + section)
          BY <1>5, <1>7, <1>10, <3>1, <4>1 DEF isOverlapped, Section, End, None
        <4> QED
          BY <1>5, <1>6, <1>7, <4>1, <4>2 DEF End
      <3> QED
        BY <3>2, <3>3
    <2> QED
      BY <2>1, <2>2, <2>3, <2>4, <2>5, <2>6, <2>7 DEF BufferInv
  <1>18. HeldApart' /\ JobsPosted' /\ HeldPosted'
    <2>1. Live
      BY <1>1, <1>2 DEF Live, CallPhase
    <2> QED
      BY <1>1, <1>9, <2>1, PoolStays DEF IInv
  <1> QED
    BY <1>13, <1>15, <1>17, <1>18 DEF IInv

\* The section becomes the input buffer.
LEMMA TakeRangeInv ==
  ASSUME MTAssumption, IInv, TakeRange
  PROVE  IInv'
  <1>1. /\ caller.at = "ldm" /\ caller' = [caller EXCEPT !.at = "load"]
        /\ mt' = [mt EXCEPT !.inStart = mt.pos, !.filled = 0]
        /\ UNCHANGED <<jobs, round, taken, worker, queued>>
    BY DEF TakeRange, Go, WorkersWait
  <1>2. Shapes /\ CallPhase /\ KeptIntact /\ mt.session = "load" /\ mt.inStart = None
    BY <1>1 DEF IInv, CallPhase
  <1>3. KeptApart /\ KeptInOrder /\ InputAt /\ InputBytes /\ FirstLap /\ SectionIsFree /\ mt.filled = 0
    BY <1>2 DEF IInv, BufferInv, InputAt
  <1>4. /\ mt.pos + section <= mt.capacity /\ mt.pos \in Nat /\ mt.pos # None /\ section \in Nat
        /\ \A j \in Kept : Low(j) \/ Lo(j) >= mt.pos + section
    BY <1>1, <1>2, <1>3, Constants DEF SectionIsFree, Shapes, MTFields, None
  <1>5. /\ IsCall(caller') /\ caller'.at = "load" /\ caller'.op = caller.op
        /\ caller'.turnOp = caller.turnOp /\ caller'.ret = caller.ret
    BY <1>1, <1>2, CallGoes
  <1>6. /\ mt' \in MTFields /\ mt'.pos = mt.pos /\ mt'.prefix = mt.prefix /\ mt'.inStart = mt.pos /\ mt'.filled = 0
        /\ mt'.capacity = mt.capacity /\ mt'.table = mt.table /\ mt'.jobReady = mt.jobReady
        /\ mt'.nextJobID = mt.nextJobID /\ mt'.doneJobID = mt.doneJobID
        /\ mt'.session = mt.session /\ mt'.allJobsCompleted = mt.allJobsCompleted
    <2>1. 0 \in 0 .. section /\ mt \in MTFields
      BY <1>2, <1>4 DEF Shapes
    <2> QED
      BY <1>1, <1>4, <2>1 DEF MTFields
  <1>7. Shapes' /\ CallPhase'
    BY <1>1, <1>2, <1>5, <1>6 DEF Shapes, CallPhase
  <1>8. Kept' = Kept /\ \A j : Lo(j)' = Lo(j) /\ Hi(j)' = Hi(j) /\ (KeptAt(j)' <=> KeptAt(j))
    BY <1>1, <1>6, KeptSame
  <1>9. KeptIntact'
    BY <1>1, <1>2, <1>8 DEF KeptIntact, KeptBytes
  <1>10. \A j \in Kept : /\ Low(j)' <=> Low(j)
                         /\ High(j)' => High(j)
                         /\ Low(j)' \/ High(j)'
    <2>1. \A j \in Kept : Lo(j) \in Nat
      BY <1>2, KeptRange
    <2>2. \A j \in Kept : Lo(j) >= mt.pos + section => Lo(j) >= mt.pos + 0
      BY <1>4, <2>1
    <2>3. \A j \in Kept : (High(j)' <=> Lo(j) >= mt.pos + section) /\ (High(j) <=> Lo(j) >= mt.pos + 0)
      BY <1>2, <1>4, <1>6, <1>8 DEF High
    <2> QED
      BY <1>4, <1>6, <1>8, <2>2, <2>3 DEF Low
  <1>11. BufferInv'
    <2>1. KeptApart'
      BY <1>8, <1>10 DEF KeptApart
    <2>2. KeptInOrder'
      <3>1. \A j \in Kept : ~(Low(j) /\ High(j))
        <4>1. \A j \in Kept : Lo(j) \in Nat /\ Hi(j) \in Nat /\ Lo(j) < Hi(j)
          BY <1>2, KeptRange
        <4> QED
          BY <1>2, <1>4, <4>1 DEF Low, High
      <3> QED
        BY <1>3, <1>8, <1>10, <3>1 DEF KeptInOrder
    <2>3. InputAt' /\ InputBytes'
      BY <1>1, <1>3, <1>4, <1>6, <1>8, <1>10 DEF InputAt, InputBytes, End
    <2>4. FirstLap'
      BY <1>3, <1>6, <1>8, <1>10 DEF FirstLap
    <2>5. Wrapping' /\ SectionIsFree'
      BY <1>5 DEF Wrapping, SectionIsFree
    <2> QED
      BY <2>1, <2>2, <2>3, <2>4, <2>5 DEF BufferInv
  <1>12. HeldApart' /\ JobsPosted' /\ HeldPosted'
    <2>1. Live
      BY <1>1, <1>2 DEF Live, CallPhase
    <2> QED
      BY <1>1, <1>6, <2>1, PoolStays DEF IInv
  <1> QED
    BY <1>7, <1>9, <1>11, <1>12 DEF IInv

-----------------------------------------------------------------------------
\* Loading input, and making jobs of it

\* Input goes behind what the input buffer holds.
Loaded(n) ==
  /\ mt.filled + n \in Nat /\ mt.filled + n <= section
  /\ n > 0 => mt.inStart # None /\ ~mt.jobReady
  /\ taken' = taken + n
  /\ round' = [c \in Cells |-> IF n > 0 /\ c \in mt.inStart + mt.filled .. mt.inStart + mt.filled + n - 1
                               THEN taken + 1 + c - mt.inStart - mt.filled ELSE round[c]]
Filled(n) == [mt EXCEPT !.filled = @ + n]

\* Only what the caller has is loaded, and the last of it before the frame ends.
CallLoaded(n, last) ==
  /\ caller.avail \in Int /\ caller'.avail = caller.avail - n
  /\ n > 0 => caller.avail > 0
  /\ last => caller'.avail <= 0

\* A job is made of input, or to end a frame.
JobDue(n, last) == mt.jobReady \/ mt.filled + n > 0 \/ (last /\ ~mt.frameEnded)

LEMMA LoadSteps ==
  ASSUME MTAssumption, IInv, LoadAndPost
  PROVE  /\ IsCall(caller') /\ caller'.at = "flush"
         /\ caller'.op = caller.op /\ caller'.ret = caller.ret
         /\ caller.op = "end" => caller'.turnOp = "end" \/ caller'.avail > 0
         /\ \E n \in Nat, last \in BOOLEAN :
           /\ Loaded(n) /\ CallLoaded(n, last)
           /\ \/ mt' = Filled(n) /\ jobs' = jobs /\ queued' = queued
              \/ CreateCompressionJob(Filled(n), last) /\ JobDue(n, last)
  <1>1. PICK point \in SyncPoints :
          LET n == point.toLoad
              m == [mt EXCEPT !.filled = @ + n]
              left == caller.avail - n
              asked == IF point.flush /\ caller.turnOp = "continue" THEN "flush" ELSE caller.turnOp
              endOp == EndOp(asked, left)
              create == \/ m.jobReady \/ m.filled >= section
                        \/ endOp # "continue" /\ m.filled > 0
                        \/ endOp = "end" /\ ~m.frameEnded IN
          /\ round' = [c \in Cells |-> IF n > 0 /\ c \in mt.inStart + mt.filled .. mt.inStart + mt.filled + n - 1
                                       THEN taken + 1 + c - mt.inStart - mt.filled ELSE round[c]]
          /\ taken' = taken + n
          /\ caller' = [caller EXCEPT !.at = "flush", !.avail = left, !.turnOp = endOp, !.fwd = n > 0, !.moved = n > 0]
          /\ IF create THEN CreateCompressionJob(m, endOp = "end") ELSE mt' = m /\ UNCHANGED <<jobs, queued, pools>>
    BY DEF LoadAndPost
  <1> DEFINE n == point.toLoad
             left == caller.avail - n
             asked == IF point.flush /\ caller.turnOp = "continue" THEN "flush" ELSE caller.turnOp
             endOp == EndOp(asked, left)
             m == [mt EXCEPT !.filled = @ + n]
             create == \/ m.jobReady \/ m.filled >= section
                       \/ endOp # "continue" /\ m.filled > 0
                       \/ endOp = "end" /\ ~m.frameEnded
  <1>2. Shapes /\ CallPhase /\ caller.at = "load"
    BY DEF IInv, LoadAndPost
  <1>3. /\ caller.avail \in Int /\ mt.filled \in 0 .. section /\ section \in Nat
    BY <1>2, Constants DEF Shapes, IsCall, MTFields
  <1>4. n \in Nat /\ mt.filled + n <= section /\ (n > 0 => mt.inStart # None /\ ~mt.jobReady /\ caller.avail > 0)
    <2>1. CASE mt.inStart = None \/ ~Wants
      <3>1. n = 0
        BY <2>1 DEF SyncPoints
      <3> QED
        BY <1>3, <3>1
    <2>2. CASE ~(mt.inStart = None \/ ~Wants)
      <3> DEFINE all == Least(caller.avail, section - mt.filled)
      <3>1. all \in Nat /\ mt.filled + all <= section /\ all <= section - mt.filled
        BY <1>3, <2>2 DEF Wants, Least
      <3> HIDE DEF all
      <3>2. n = all \/ n \in 0 .. all
        <4>1. point \in {[toLoad |-> all, flush |-> FALSE]}
                        \cup {[toLoad |-> i, flush |-> TRUE] : i \in IF rsyncable THEN (IF mt.filled > 0 THEN 0 ELSE 1) .. all ELSE {}}
          BY <2>2 DEF SyncPoints, all
        <4>2. (IF mt.filled > 0 THEN 0 ELSE 1) .. all \subseteq 0 .. all
          BY <1>3, <3>1
        <4> QED
          BY <4>1, <4>2
      <3>3. n \in Nat /\ n <= all
        BY <3>1, <3>2
      <3> QED
        BY <1>3, <2>2, <3>1, <3>3 DEF Wants
    <2> QED
      BY <2>1, <2>2
  <1>5. Loaded(n)
    BY <1>1, <1>3, <1>4 DEF Loaded
  <1>6. caller' = [caller EXCEPT !.at = "flush", !.avail = left, !.turnOp = endOp, !.fwd = n > 0, !.moved = n > 0]
    BY <1>1
  <1>7. \/ mt' = Filled(n) /\ jobs' = jobs /\ queued' = queued
        \/ CreateCompressionJob(Filled(n), endOp = "end") /\ create
    BY <1>1 DEF Filled
  <1>14. create => JobDue(n, endOp = "end")
    <2>1. m.jobReady = mt.jobReady /\ m.frameEnded = mt.frameEnded /\ m.filled = mt.filled + n
      BY <1>2 DEF Shapes, MTFields
    <2>2. section > 0 /\ section \in Nat
      BY Constants
    <2> QED
      BY <1>3, <1>4, <2>1, <2>2 DEF JobDue
  <1>15. endOp = "end" => left <= 0
    BY <1>3, <1>4 DEF EndOp
  <1>8. caller.op = "end" => endOp = "end" \/ left > 0
    BY <1>2 DEF CallPhase, EndOp
  <1>9. left \in Int
    BY <1>3, <1>4
  <1> HIDE DEF n, left, asked, endOp, create, m
  <1>10. /\ IsCall(caller') /\ caller'.at = "flush" /\ caller'.avail = left /\ caller'.turnOp = endOp
         /\ caller'.op = caller.op /\ caller'.ret = caller.ret
    BY <1>2, <1>6, <1>9, CallLoads
  <1>11. PICK last \in BOOLEAN : last = (endOp = "end")
    OBVIOUS
  <1>12. \/ mt' = Filled(n) /\ jobs' = jobs /\ queued' = queued
         \/ CreateCompressionJob(Filled(n), last) /\ JobDue(n, last)
    BY <1>7, <1>11, <1>14
  <1>16. caller'.avail = caller.avail - n
    BY <1>10 DEF left
  <1>17. CallLoaded(n, last)
    BY <1>3, <1>4, <1>10, <1>11, <1>15, <1>16 DEF CallLoaded
  <1>13. \E i \in Nat, l \in BOOLEAN :
           /\ Loaded(i) /\ CallLoaded(i, l)
           /\ \/ mt' = Filled(i) /\ jobs' = jobs /\ queued' = queued
              \/ CreateCompressionJob(Filled(i), l) /\ JobDue(i, l)
    BY <1>4, <1>5, <1>12, <1>17
  <1> QED
    BY <1>8, <1>10, <1>13

LEMMA LoadedBytes ==
  ASSUME MTAssumption, Shapes, KeptIntact, BufferInv, mt.session = "load", NEW n \in Nat, Loaded(n)
  PROVE  /\ round' \in [Cells -> Int]
         /\ \A j \in Kept : \A x \in Lo(j) .. Hi(j) - 1 : round'[x] = round'[Lo(j)] + x - Lo(j)
         /\ \A x \in mt.pos - mt.prefix.size .. mt.pos + mt.filled + n - 1 :
              round'[x] = taken - mt.filled + 1 + x - mt.pos
         /\ n > 0 => mt.inStart = mt.pos /\ mt.pos + section <= mt.capacity
  <1>1. KeptApart /\ InputAt /\ InputBytes
    BY DEF BufferInv
  <1>2. /\ section \in Nat /\ mt.pos \in Nat /\ mt.pos <= mt.capacity /\ mt.capacity \in Nat
        /\ mt.filled \in Nat /\ mt.filled + n <= section /\ taken \in Int /\ mt.prefix.size \in Nat
        /\ mt.prefix.size > 0 => mt.prefix.start \in Nat /\ mt.prefix.start + mt.prefix.size = mt.pos
        /\ n > 0 => mt.inStart = mt.pos /\ mt.pos + section <= mt.capacity /\ mt.inStart # None
        /\ mt.inStart # None => mt.inStart = mt.pos /\ mt.pos + section <= mt.capacity
        /\ mt.inStart = None => mt.filled = 0
        /\ mt.capacity <= capacityFor(MaxWorkers) /\ capacityFor(MaxWorkers) \in Nat
    BY <1>1, Constants, MostWorkers, Capacities DEF Shapes, MTFields, Ranges, InputAt, End, Loaded
  <1>3. \A x \in Nat : x < mt.capacity => x \in Cells
    BY <1>2 DEF Cells
  <1>4. round \in [Cells -> Int]
    BY DEF Shapes
  <1>5. \A c \in Cells : round'[c] = IF n > 0 /\ c \in mt.inStart + mt.filled .. mt.inStart + mt.filled + n - 1
                                     THEN taken + 1 + c - mt.inStart - mt.filled ELSE round[c]
    BY DEF Loaded
  <1>6. round' \in [Cells -> Int]
    <2>1. ASSUME NEW c \in Cells, n > 0 PROVE taken + 1 + c - mt.inStart - mt.filled \in Int
      BY <1>2, <2>1 DEF Cells
    <2> QED
      BY <1>4, <2>1 DEF Loaded
  \* What is kept lies outside the section that is filled.
  <1>7. ASSUME NEW j \in Kept
        PROVE  \A x \in Lo(j) .. Hi(j) - 1 : round'[x] = round'[Lo(j)] + x - Lo(j)
    <2>1. /\ Lo(j) \in Nat /\ Hi(j) \in Nat /\ Lo(j) < Hi(j) /\ Hi(j) <= mt.capacity
      <3>1. /\ jobs[Slot(j)].src \in Ranges /\ jobs[Slot(j)].src.start \in Nat
            /\ Lo(j) \in Nat /\ Hi(j) \in Nat /\ Lo(j) < Hi(j)
            /\ jobs[Slot(j)].src.start + section <= mt.capacity
            /\ Hi(j) = jobs[Slot(j)].src.start + jobs[Slot(j)].src.size
            /\ jobs[Slot(j)].src.size <= section
        BY KeptRange
      <3>2. jobs[Slot(j)].src.size \in Nat
        BY <3>1 DEF Ranges
      <3> QED
        BY <1>2, <3>1, <3>2
    <2>2. Hi(j) <= mt.pos \/ Lo(j) >= mt.pos + (IF mt.inStart = None THEN 0 ELSE section)
      BY <1>1 DEF KeptApart, Low, High
    <2>3. ASSUME NEW x \in Lo(j) .. Hi(j) - 1 PROVE round'[x] = round[x]
      <3>1. x \in Nat /\ x < mt.capacity
        BY <1>2, <2>1
      <3>2. ~(n > 0 /\ x \in mt.inStart + mt.filled .. mt.inStart + mt.filled + n - 1)
        BY <1>2, <2>1, <2>2
      <3> QED
        BY <1>3, <1>5, <3>1, <3>2
    <2>4. Lo(j) \in Lo(j) .. Hi(j) - 1
      BY <2>1
    <2>5. KeptBytes(j)
      BY DEF KeptIntact
    <2> QED
      BY <2>3, <2>4, <2>5 DEF KeptBytes
  <1>8. ASSUME NEW x \in mt.pos - mt.prefix.size .. mt.pos + mt.filled + n - 1
        PROVE  round'[x] = taken - mt.filled + 1 + x - mt.pos
    <2>1. x \in Nat /\ x < mt.capacity
      BY <1>2
    <2>2. CASE x >= mt.pos + mt.filled
      <3>1. n > 0 /\ x \in mt.inStart + mt.filled .. mt.inStart + mt.filled + n - 1
        BY <1>2, <2>1, <2>2
      <3>2. round'[x] = taken + 1 + x - mt.inStart - mt.filled
        BY <1>3, <1>5, <2>1, <3>1
      <3> QED
        BY <1>2, <2>1, <3>1, <3>2
    <2>3. CASE x < mt.pos + mt.filled
      <3>1. ~(n > 0 /\ x \in mt.inStart + mt.filled .. mt.inStart + mt.filled + n - 1)
        BY <1>2, <2>1, <2>3
      <3>2. round'[x] = round[x]
        BY <1>3, <1>5, <2>1, <3>1
      <3>3. x \in mt.pos - mt.prefix.size .. mt.pos + mt.filled - 1
        BY <1>2, <2>1, <2>3
      <3> QED
        BY <1>1, <3>2, <3>3 DEF InputBytes
    <2> QED
      BY <1>2, <2>1, <2>2, <2>3
  <1> QED
    BY <1>2, <1>6, <1>7, <1>8

\* No job is made.
LEMMA LoadedKeeps ==
  ASSUME MTAssumption, Shapes, KeptIntact, BufferInv, mt.session = "load", NEW n \in Nat, Loaded(n),
         Kept' = Kept, \A j : Lo(j)' = Lo(j) /\ Hi(j)' = Hi(j) /\ (KeptAt(j)' <=> KeptAt(j)),
         mt'.pos = mt.pos, mt'.inStart = mt.inStart, mt'.prefix = mt.prefix, mt'.capacity = mt.capacity,
         mt'.filled = mt.filled + n, FirstLap => FirstLap', caller'.at = "flush"
  PROVE  KeptIntact' /\ BufferInv'
  <1>1. KeptApart /\ KeptInOrder /\ InputAt /\ FirstLap
    BY DEF BufferInv
  <1>2. /\ \A j \in Kept : \A x \in Lo(j) .. Hi(j) - 1 : round'[x] = round'[Lo(j)] + x - Lo(j)
        /\ \A x \in mt.pos - mt.prefix.size .. mt.pos + mt.filled + n - 1 :
              round'[x] = taken - mt.filled + 1 + x - mt.pos
    BY LoadedBytes
  <1>3. KeptIntact'
    BY <1>2 DEF KeptIntact, KeptBytes
  <1>4. \A j : (Low(j)' <=> Low(j)) /\ (High(j)' <=> High(j))
    BY DEF Low, High
  <1>5. KeptApart' /\ KeptInOrder'
    BY <1>1, <1>4 DEF KeptApart, KeptInOrder
  <1>6. mt.filled \in Nat /\ mt.pos \in Nat /\ mt.prefix.size \in Nat /\ taken \in Int /\ taken' = taken + n
    BY DEF Shapes, MTFields, Ranges, Loaded
  <1>7. InputAt'
    <2>1. mt.inStart = None => mt'.filled = 0
      BY <1>1, <1>6 DEF InputAt, Loaded
    <2> QED
      BY <1>1, <1>4, <2>1 DEF InputAt, End
  <1>8. InputBytes'
    <2>1. \A x \in mt.pos - mt.prefix.size .. mt.pos + mt.filled + n - 1 :
            taken' - mt'.filled + 1 + x - mt.pos = taken - mt.filled + 1 + x - mt.pos
      BY <1>6
    <2>2. mt'.pos + mt'.filled - 1 = mt.pos + mt.filled + n - 1
      BY <1>6
    <2> QED
      BY <1>2, <2>1, <2>2 DEF InputBytes
  <1>9. Wrapping' /\ SectionIsFree'
    BY DEF Wrapping, SectionIsFree
  <1> QED
    BY <1>1, <1>3, <1>5, <1>7, <1>8, <1>9 DEF BufferInv

\* What the input buffer holds becomes the input of the next job, if it holds something.
Prepares(s, n) ==
  /\ \A r \in Slots : r # s => jobs'[r] = jobs[r]
  /\ Unfinished(s)' => /\ jobs'[s].src = [start |-> mt.inStart, size |-> mt.filled + n]
                       /\ jobs'[s].prefix = mt.prefix /\ mt.filled + n > 0
  /\ mt'.table = mt.table /\ mt'.capacity = mt.capacity /\ mt'.doneJobID = mt.doneJobID
  /\ mt'.pos = mt.pos + mt.filled + n /\ mt'.inStart = None /\ mt'.filled = 0
  /\ \/ mt'.prefix.size = 0
     \/ LET p == Least(mt.filled + n, overlap) IN
        mt'.prefix = [start |-> mt.inStart + mt.filled + n - p, size |-> p]
  /\ \/ mt'.nextJobID = mt.nextJobID + 1 /\ ~mt'.jobReady
     \/ mt'.nextJobID = mt.nextJobID /\ mt'.jobReady

LEMMA PreparedKept ==
  ASSUME MTAssumption, Shapes, JobsPosted, ~mt.jobReady, mt.nextJobID < mt.doneJobID + mt.table,
         NEW s \in Slots, s = Slot(mt.nextJobID), NEW n \in Nat, Prepares(s, n)
  PROVE  \A j \in Kept' :
           \/ /\ j \in Kept /\ j < mt.nextJobID
              /\ Lo(j)' = Lo(j) /\ Hi(j)' = Hi(j) /\ (KeptAt(j) => KeptAt(j)')
           \/ /\ j = mt.nextJobID /\ Unfinished(s)' /\ Slot(j)' = s
              /\ Lo(j)' = IF mt.prefix.size = 0 THEN mt.inStart ELSE mt.prefix.start
              /\ Hi(j)' = mt.inStart + mt.filled + n
  <1>1. mt.doneJobID \in Nat /\ mt.nextJobID \in Nat /\ mt.table \in Nat \ {0}
    BY DEF Shapes, MTFields
  <1>2. \A j : Slot(j)' = Slot(j)
    BY DEF Prepares, Slot
  <1>3. SUFFICES ASSUME NEW j \in Kept'
        PROVE  \/ /\ j \in Kept /\ j < mt.nextJobID
                  /\ Lo(j)' = Lo(j) /\ Hi(j)' = Hi(j) /\ (KeptAt(j) => KeptAt(j)')
               \/ /\ j = mt.nextJobID /\ Unfinished(s)' /\ Slot(j)' = s
                  /\ Lo(j)' = IF mt.prefix.size = 0 THEN mt.inStart ELSE mt.prefix.start
                  /\ Hi(j)' = mt.inStart + mt.filled + n
    OBVIOUS
  <1>4. /\ j \in mt.doneJobID .. mt.nextJobID
        /\ jobs'[Slot(j)].consumed < jobs'[Slot(j)].src.size
    <2>1. /\ j \in mt'.doneJobID .. mt'.nextJobID /\ (j < mt'.nextJobID \/ mt'.jobReady)
          /\ jobs'[Slot(j)'].consumed < jobs'[Slot(j)'].src.size
      BY <1>3 DEF Kept, Unfinished
    <2>2. \/ mt'.nextJobID = mt.nextJobID + 1 /\ ~mt'.jobReady
          \/ mt'.nextJobID = mt.nextJobID
      BY DEF Prepares
    <2>3. mt'.doneJobID = mt.doneJobID
      BY DEF Prepares
    <2>4. j \in mt.doneJobID .. mt.nextJobID
      BY <1>1, <2>1, <2>2, <2>3
    <2> QED
      BY <1>2, <2>1, <2>4
  <1>5. CASE j = mt.nextJobID
    <2>1. Slot(j)' = s /\ Unfinished(s)'
      BY <1>2, <1>4, <1>5 DEF Unfinished
    <2>2. /\ jobs'[s].src = [start |-> mt.inStart, size |-> mt.filled + n]
          /\ jobs'[s].prefix = mt.prefix
      BY <2>1 DEF Prepares
    <2>3. mt.filled + n \in Int /\ mt.inStart \in Int /\ mt.filled \in Int
      BY DEF Shapes, MTFields, None
    <2>4. End(jobs'[s].src) = mt.inStart + mt.filled + n
      BY <2>2, <2>3 DEF End
    <2> QED
      BY <1>5, <2>1, <2>2, <2>4 DEF Lo, Hi, End
  <1>6. CASE j # mt.nextJobID
    <2>1. j \in mt.doneJobID .. mt.nextJobID - 1 /\ j < mt.nextJobID /\ j \in Nat
      BY <1>1, <1>4, <1>6
    <2>2. Slot(j) \in Slots /\ Slot(j) # s
      BY <2>1, KeptSlots, NextSlotFree DEF Active
    <2>3. jobs'[Slot(j)] = jobs[Slot(j)]
      BY <2>2 DEF Prepares
    <2>4. j \in Kept
      BY <1>4, <2>1, <2>3 DEF Kept, Unfinished
    <2>5. mt'.capacity = mt.capacity
      BY DEF Prepares
    <2>6. Lo(j)' = Lo(j) /\ Hi(j)' = Hi(j) /\ (KeptAt(j) => KeptAt(j)')
      BY <1>2, <2>3, <2>5 DEF Lo, Hi, KeptAt, End
    <2> QED
      BY <2>1, <2>4, <2>6
  <1> QED
    BY <1>5, <1>6

LEMMA PreparedKeeps ==
  ASSUME MTAssumption, Shapes, JobsPosted, KeptIntact, BufferInv,
         mt.session = "load", ~mt.jobReady, mt.nextJobID < mt.doneJobID + mt.table,
         NEW s \in Slots, s = Slot(mt.nextJobID), NEW n \in Nat, Loaded(n), Prepares(s, n),
         caller'.at = "flush"
  PROVE  KeptIntact' /\ BufferInv'
  <1> DEFINE f == mt.filled + n  next == mt.nextJobID  q == mt'.prefix.size
  <1>1. KeptApart /\ KeptInOrder /\ InputAt /\ FirstLap
    BY DEF BufferInv
  <1>2. /\ \A j \in Kept : \A x \in Lo(j) .. Hi(j) - 1 : round'[x] = round'[Lo(j)] + x - Lo(j)
        /\ \A x \in mt.pos - mt.prefix.size .. mt.pos + mt.filled + n - 1 :
              round'[x] = taken - mt.filled + 1 + x - mt.pos
    BY LoadedBytes
  <1>3. /\ section \in Nat \ {0} /\ overlap \in Nat /\ overlap <= section
        /\ mt.pos \in Nat /\ mt.pos <= mt.capacity /\ mt.capacity \in Nat /\ next \in Nat
        /\ mt.filled \in Nat /\ f \in Nat /\ f <= section /\ taken \in Int /\ taken' = taken + n
        /\ mt.prefix.size \in Nat /\ mt.prefix.size <= overlap /\ 3 * section <= mt.capacity
        /\ mt.prefix.size > 0 => mt.prefix.start \in Nat /\ mt.prefix.start + mt.prefix.size = mt.pos
        /\ mt.inStart # None => mt.inStart = mt.pos /\ mt.pos + section <= mt.capacity
        /\ mt.inStart = None => f = 0
    <2>1. mt.inStart = None => mt.filled = 0 /\ n = 0
      BY <1>1 DEF InputAt, Loaded
    <2> QED
      BY <1>1, <2>1, Constants DEF Shapes, MTFields, Ranges, InputAt, End, Loaded
  <1>4. f > 0 => mt.inStart = mt.pos /\ mt.pos + section <= mt.capacity
    BY <1>3
  <1>5. /\ mt'.capacity = mt.capacity /\ mt'.pos = mt.pos + f /\ mt'.inStart = None /\ mt'.filled = 0
        /\ \/ mt'.nextJobID = next + 1 /\ ~mt'.jobReady
           \/ mt'.nextJobID = next /\ mt'.jobReady
    BY <1>3 DEF Prepares
  <1>6. q = 0 \/ (q = Least(f, overlap) /\ mt'.prefix.start = mt.inStart + f - q)
    <2>1. CASE mt'.prefix.size = 0
      BY <2>1
    <2>2. CASE LET p == Least(mt.filled + n, overlap) IN
               mt'.prefix = [start |-> mt.inStart + mt.filled + n - p, size |-> p]
      <3>1. q = Least(f, overlap) /\ mt'.prefix.start = mt.inStart + mt.filled + n - q
        BY <2>2
      <3>2. mt.inStart \in Int
        BY <1>3 DEF None
      <3>4. q \in Int
        BY <1>3, <3>1 DEF Least
      <3>3. mt.inStart + mt.filled + n - q = mt.inStart + f - q
        BY <1>3, <3>2, <3>4
      <3> QED
        BY <3>1, <3>3
    <2> QED
      BY <2>1, <2>2 DEF Prepares
  \* The new prefix is the end of what the input buffer holds.
  <1>7. /\ q \in Nat /\ q <= overlap /\ q <= f
        /\ q > 0 => mt'.prefix.start \in Nat /\ mt'.prefix.start + q = mt.pos + f
    BY <1>3, <1>4, <1>6 DEF Least
  <1>8. \A j \in Kept : /\ j \in Nat /\ Lo(j) \in Nat /\ Hi(j) \in Nat /\ Lo(j) < Hi(j)
                        /\ KeptAt(j)
    <2>1. ASSUME NEW j \in Kept
          PROVE  j \in Nat /\ Lo(j) \in Nat /\ Hi(j) \in Nat /\ Lo(j) < Hi(j) /\ KeptAt(j)
      BY KeptRange DEF KeptIntact
    <2> QED
      BY <2>1
  \* A kept job is one that was kept, or the new one.
  <1>9. ASSUME NEW j \in Kept'
        PROVE  \/ /\ j \in Kept /\ j < next /\ Lo(j)' = Lo(j) /\ Hi(j)' = Hi(j) /\ KeptAt(j)'
               \/ /\ j = next /\ Unfinished(s)' /\ Slot(j)' = s /\ f > 0
                  /\ Lo(j)' = mt.pos - mt.prefix.size /\ Hi(j)' = mt.pos + f
    <2>1. CASE j \in Kept /\ j < next /\ Lo(j)' = Lo(j) /\ Hi(j)' = Hi(j) /\ (KeptAt(j) => KeptAt(j)')
      BY <1>8, <2>1
    <2>2. CASE /\ j = next /\ Unfinished(s)' /\ Slot(j)' = s
               /\ Lo(j)' = IF mt.prefix.size = 0 THEN mt.inStart ELSE mt.prefix.start
               /\ Hi(j)' = mt.inStart + mt.filled + n
      <3>1. f > 0
        BY <2>2 DEF Prepares
      <3>2. Lo(j)' = mt.pos - mt.prefix.size
        <4>1. CASE mt.prefix.size = 0
          BY <1>3, <1>4, <2>2, <3>1, <4>1
        <4>2. CASE mt.prefix.size # 0
          <5>1. Lo(j)' = mt.prefix.start
            BY <2>2, <4>2
          <5> QED
            BY <1>3, <4>2, <5>1
        <4> QED
          BY <4>1, <4>2
      <3>3. Hi(j)' = mt.pos + f
        BY <1>3, <1>4, <2>2, <3>1
      <3> QED
        BY <2>2, <3>1, <3>2, <3>3
    <2> QED
      BY <1>9, <2>1, <2>2, PreparedKept
  <1>10. \A j \in Kept : /\ Low(j) => Hi(j) <= mt.pos
                         /\ High(j) => Lo(j) >= mt.pos + f
    <2>1. SUFFICES ASSUME NEW j \in Kept, High(j) PROVE Lo(j) >= mt.pos + f
      BY DEF Low
    <2>2. CASE mt.inStart = None
      BY <1>3, <1>8, <2>1, <2>2 DEF High
    <2>3. CASE mt.inStart # None
      <3>1. Lo(j) >= mt.pos + section
        BY <2>1, <2>3 DEF High
      <3> QED
        BY <1>3, <1>8, <3>1
    <2> QED
      BY <2>2, <2>3
  <1>11. \A j \in Kept' : (Low(j)' <=> Hi(j)' <= mt.pos + f) /\ (High(j)' <=> Lo(j)' >= mt.pos + f)
    <2>1. mt.pos + f + 0 = mt.pos + f
      BY <1>3
    <2> QED
      BY <1>5, <2>1 DEF Low, High
  <1> HIDE DEF f, next, q
  \* Those below stay below, those above stay above.
  <1>12. \A j \in Kept' : j \in Kept /\ j < next => (Low(j) => Low(j)') /\ (High(j) => High(j)')
    <2>1. SUFFICES ASSUME NEW j \in Kept', j \in Kept, j < next
                   PROVE  (Low(j) => Low(j)') /\ (High(j) => High(j)')
      OBVIOUS
    <2>2. Lo(j)' = Lo(j) /\ Hi(j)' = Hi(j)
      BY <1>3, <1>9, <2>1
    <2>3. Hi(j) <= mt.pos => Hi(j) <= mt.pos + f
      BY <1>3, <1>8, <2>1
    <2> QED
      BY <1>10, <1>11, <2>1, <2>2, <2>3
  <1>13. \A j \in Kept' : j = next => Low(j)' /\ Lo(j)' <= mt.pos /\ Lo(j)' \in Int
    <2>1. SUFFICES ASSUME NEW j \in Kept', j = next PROVE Low(j)' /\ Lo(j)' <= mt.pos /\ Lo(j)' \in Int
      OBVIOUS
    <2>2. Lo(j)' = mt.pos - mt.prefix.size /\ Hi(j)' = mt.pos + f
      BY <1>3, <1>9, <2>1
    <2>3. mt.pos - mt.prefix.size \in Int /\ mt.pos - mt.prefix.size <= mt.pos /\ mt.pos + f <= mt.pos + f
      BY <1>3
    <2> QED
      BY <1>11, <2>2, <2>3
  <1>14. \A j \in Kept' : (j \in Kept /\ j < next) \/ j = next
    BY <1>9
  <1>15. KeptIntact'
    <2>1. SUFFICES ASSUME NEW j \in Kept' PROVE KeptAt(j)' /\ KeptBytes(j)'
      BY DEF KeptIntact
    <2>2. CASE j \in Kept /\ Lo(j)' = Lo(j) /\ Hi(j)' = Hi(j) /\ KeptAt(j)'
      BY <1>2, <2>2 DEF KeptBytes
    <2>3. CASE /\ j = next /\ Unfinished(s)' /\ Slot(j)' = s /\ f > 0
               /\ Lo(j)' = mt.pos - mt.prefix.size /\ Hi(j)' = mt.pos + f
      <3>1. jobs'[s].src = [start |-> mt.inStart, size |-> f] /\ jobs'[s].prefix = mt.prefix
        BY <2>3 DEF Prepares, f
      <3>2. KeptAt(j)'
        BY <1>3, <1>4, <1>5, <2>3, <3>1 DEF KeptAt, End
      <3>3. ASSUME NEW x \in Lo(j)' .. Hi(j)' - 1
            PROVE  round'[x] = round'[Lo(j)'] + x - Lo(j)'
        <4>1. PICK l \in Int : l = Lo(j)' /\ l = mt.pos - mt.prefix.size
          BY <1>3, <2>3
        <4>2. x \in Int /\ l \in mt.pos - mt.prefix.size .. mt.pos + mt.filled + n - 1
              /\ x \in mt.pos - mt.prefix.size .. mt.pos + mt.filled + n - 1
          BY <1>3, <2>3, <4>1 DEF f
        <4>3. /\ round'[x] = taken - mt.filled + 1 + x - mt.pos
              /\ round'[l] = taken - mt.filled + 1 + l - mt.pos
          BY <1>2, <4>2
        <4>4. round'[x] = round'[l] + x - l
          BY <1>3, <4>1, <4>2, <4>3
        <4> QED
          BY <4>1, <4>4
      <3>4. KeptBytes(j)'
        BY <3>3 DEF KeptBytes
      <3> QED
        BY <3>2, <3>4
    <2> QED
      BY <1>9, <2>1, <2>2, <2>3
  <1>16. KeptApart'
    BY <1>1, <1>12, <1>13, <1>14 DEF KeptApart
  <1>17. KeptInOrder'
    <2>1. SUFFICES ASSUME NEW j \in Kept', NEW k \in Kept', j < k
                   PROVE  \/ High(j)' /\ Low(k)'
                          \/ ((Low(j)' /\ Low(k)') \/ (High(j)' /\ High(k)')) /\ Lo(j)' <= Lo(k)'
      BY DEF KeptInOrder
    <2>2. j \in Kept /\ j < next /\ Lo(j)' = Lo(j)
      <3>1. \A i \in Kept' : i \in Nat /\ i <= next
        BY <1>3, <1>8, <1>14
      <3>2. j # next
        BY <1>3, <2>1, <3>1
      <3> QED
        BY <1>9, <3>2
    <2>3. CASE k \in Kept /\ k < next
      <3>1. Lo(k)' = Lo(k)
        BY <1>3, <1>9, <2>3
      <3> QED
        BY <1>1, <1>12, <2>1, <2>2, <2>3, <3>1 DEF KeptInOrder
    <2>4. CASE k = next
      <3>1. CASE High(j)
        BY <1>12, <1>13, <2>2, <2>4, <3>1
      <3>2. CASE Low(j)
        <4>1. Lo(k)' = mt.pos - mt.prefix.size
          BY <1>3, <1>9, <2>4
        <4>2. mt.prefix.size > 0 => Lo(j) <= mt.prefix.start
          BY <1>1, <2>2, <3>2 DEF InputAt
        <4>3. Hi(j) <= mt.pos
          BY <1>10, <2>2, <3>2
        <4>4. Lo(j) <= mt.pos - mt.prefix.size
          BY <1>3, <1>8, <2>2, <4>2, <4>3
        <4> QED
          BY <1>12, <1>13, <2>2, <2>4, <3>2, <4>1, <4>4
      <3> QED
        BY <1>1, <2>2, <3>1, <3>2 DEF KeptApart
    <2> QED
      BY <1>14, <2>3, <2>4
  <1>18. InputAt'
    <2>1. /\ mt'.pos <= mt'.capacity /\ 3 * section <= mt'.capacity /\ mt'.inStart = None /\ mt'.filled = 0
      <3>1. f = 0 \/ f > 0
        BY <1>3
      <3> QED
        BY <1>3, <1>4, <1>5, <3>1
    <2>2. mt'.prefix.size <= overlap /\ (mt'.prefix.size > 0 => mt'.prefix.start \in Nat /\ End(mt'.prefix) = mt'.pos)
      BY <1>5, <1>7 DEF q, End
    <2>3. ASSUME q > 0, NEW j \in Kept', Low(j)' PROVE Lo(j)' <= mt'.prefix.start
      <3>1. mt.pos <= mt'.prefix.start
        BY <1>3, <1>7, <2>3
      <3>2. CASE j = next
        <4>1. Lo(j)' \in Int /\ Lo(j)' <= mt.pos
          BY <1>13, <2>3, <3>2
        <4> QED
          BY <1>3, <1>7, <2>3, <3>1, <4>1
      <3>3. CASE j \in Kept /\ j < next
        <4>1. Lo(j)' = Lo(j) /\ Hi(j)' = Hi(j)
          BY <1>3, <1>9, <3>3
        <4>2. ~High(j)
          <5>1. Hi(j) <= mt.pos + f
            BY <1>11, <2>3, <4>1
          <5>2. High(j) => Lo(j) >= mt.pos + f
            BY <1>10, <3>3
          <5> QED
            BY <1>3, <1>8, <3>3, <5>1, <5>2
        <4>3. Hi(j) <= mt.pos
          BY <1>1, <1>10, <3>3, <4>2 DEF KeptApart
        <4> QED
          BY <1>3, <1>7, <1>8, <2>3, <3>1, <3>3, <4>1, <4>3
      <3> QED
        BY <1>14, <3>2, <3>3
    <2> QED
      BY <2>1, <2>2, <2>3 DEF InputAt, q, End
  <1>19. InputBytes'
    <2>1. SUFFICES ASSUME NEW x \in mt'.pos - mt'.prefix.size .. mt'.pos + mt'.filled - 1
                   PROVE  round'[x] = taken' - mt'.filled + 1 + x - mt'.pos
      BY DEF InputBytes
    <2>2. /\ x \in mt.pos - mt.prefix.size .. mt.pos + mt.filled + n - 1
          /\ taken' - mt'.filled + 1 + x - mt'.pos = taken - mt.filled + 1 + x - mt.pos
      <3>1. mt'.prefix.size = q
        BY DEF q
      <3> QED
        BY <1>3, <1>5, <1>7, <3>1 DEF f
    <2> QED
      BY <1>2, <2>2
  <1>20. FirstLap'
    <2>1. SUFFICES ASSUME mt'.nextJobID < mt.capacity \div section
                   PROVE  /\ mt'.pos <= section * (mt'.nextJobID + (IF mt'.jobReady THEN 1 ELSE 0))
                          /\ \A j \in Kept' : Low(j)'
      BY <1>5 DEF FirstLap
    <2>2. next < mt.capacity \div section
      <3>1. mt.capacity \div section \in Int
        BY <1>3
      <3> QED
        BY <1>3, <1>5, <2>1, <3>1
    <2>3. mt.pos <= section * (next + 0) /\ \A j \in Kept : Low(j)
      BY <1>1, <2>2 DEF FirstLap, next
    <2>4. mt.pos + f <= section * (next + 1)
      <3>1. section * (next + 1) = section * next + section /\ section * next \in Nat /\ next + 0 = next
        BY <1>3
      <3> QED
        BY <1>3, <2>3, <3>1
    <2>5. mt'.nextJobID + (IF mt'.jobReady THEN 1 ELSE 0) = next + 1
      BY <1>3, <1>5
    <2> QED
      BY <1>5, <1>12, <1>13, <1>14, <2>3, <2>4, <2>5
  <1>21. Wrapping' /\ SectionIsFree'
    BY DEF Wrapping, SectionIsFree
  <1> QED
    BY <1>15, <1>16, <1>17, <1>18, <1>19, <1>20, <1>21 DEF BufferInv

\* The next job is posted, or has to wait, or the caller's thread has done it.
Posting(s) ==
  /\ \A r \in Slots : r # s => jobs'[r] = jobs[r]
  /\ mt'.table = mt.table /\ mt'.doneJobID = mt.doneJobID /\ mt'.session = "load"
  /\ \/ /\ mt'.nextJobID = mt.nextJobID + 1 /\ ~mt'.jobReady /\ queued' = s /\ Pending(s)'
     \/ /\ mt'.nextJobID = mt.nextJobID + 1 /\ ~mt'.jobReady /\ queued' = queued
     \/ /\ mt'.nextJobID = mt.nextJobID /\ mt'.jobReady /\ queued' = queued /\ Pending(s)'
        /\ jobs'[s].cdata = <<>> /\ (jobs'[s].frameChecksumNeeded => Unfinished(s)')

LEMMA PostedGrows ==
  ASSUME MTAssumption, Shapes, HeldApart, JobsPosted, HeldPosted, Live,
         mt.nextJobID < mt.doneJobID + mt.table,
         NEW s \in Slots, s = Slot(mt.nextJobID), Posting(s), worker' = worker
  PROVE  HeldApart' /\ JobsPosted' /\ HeldPosted'
  <1>1. /\ mt.doneJobID \in Nat /\ mt.nextJobID \in Nat /\ mt.table \in Nat \ {0}
        /\ mt.doneJobID <= mt.nextJobID
    BY DEF Shapes, MTFields, JobsPosted
  <1>2. /\ mt'.table = mt.table /\ mt'.doneJobID = mt.doneJobID /\ mt'.session = "load"
        /\ \/ mt'.nextJobID = mt.nextJobID + 1 /\ ~mt'.jobReady
           \/ mt'.nextJobID = mt.nextJobID /\ mt'.jobReady
    BY DEF Posting
  <1>3. JobsPosted'
    BY <1>1, <1>2 DEF JobsPosted
  <1>4. \A j : Slot(j)' = Slot(j)
    BY <1>2 DEF Slot
  <1>5. ASSUME NEW j \in Posted
        PROVE  /\ Slot(j) \in Slots /\ Slot(j) # s /\ j \in Posted'
               /\ jobs'[Slot(j)] = jobs[Slot(j)]
    <2>1. j \in mt.doneJobID .. mt.nextJobID - 1 /\ j \in Nat
      BY <1>1 DEF Posted
    <2>2. Slot(j) \in Slots /\ Slot(j) # s
      BY <2>1, KeptSlots, NextSlotFree DEF Active
    <2>3. j \in Posted'
      BY <1>1, <1>2, <2>1 DEF Posted
    <2> QED
      BY <2>2, <2>3 DEF Posting
  <1>6. ASSUME NEW j \in Posted, Pending(Slot(j)) PROVE Pending(Slot(j))'
    <2>1. jobs'[Slot(j)] = jobs[Slot(j)] /\ Slot(j)' = Slot(j)
      BY <1>4, <1>5
    <2> QED
      BY <1>6, <2>1 DEF Pending, Unfinished
  <1>7. ASSUME NEW w \in Workers, Holds(w)
        PROVE  /\ \E j \in Posted' : worker[w].slot = Slot(j)' /\ Pending(Slot(j))'
               /\ worker[w].slot \in Slots /\ worker[w].slot # s
               /\ jobs'[worker[w].slot] = jobs[worker[w].slot]
    <2>1. PICK j \in Posted : worker[w].slot = Slot(j) /\ Pending(Slot(j))
      BY <1>7 DEF HeldPosted
    <2> QED
      BY <1>4, <1>5, <1>6, <2>1
  <1>8. ASSUME queued' = queued, queued # None
        PROVE  /\ \E j \in Posted' : queued = Slot(j)' /\ Pending(Slot(j))'
               /\ queued \in Slots /\ jobs'[queued] = jobs[queued]
    <2>1. PICK j \in Posted : queued = Slot(j) /\ Pending(Slot(j))
      BY <1>8 DEF HeldPosted
    <2> QED
      BY <1>4, <1>5, <1>6, <2>1
  <1>9. \/ queued' = s /\ Pending(s)' /\ mt'.nextJobID = mt.nextJobID + 1
        \/ queued' = queued
    BY DEF Posting
  <1>10. HeldApart'
    <2>1. ASSUME NEW w \in Workers, Holds(w)'
          PROVE  /\ worker[w].slot \in Slots
                 /\ jobs'[worker[w].slot].src.size = 0 \/ jobs'[worker[w].slot].consumed < jobs'[worker[w].slot].src.size
                 /\ worker[w].slot # queued'
                 /\ \A v \in Workers : Holds(v)' /\ worker[v].slot = worker[w].slot => v = w
      <3>1. Holds(w) /\ \A v \in Workers : Holds(v)' => Holds(v)
        BY <2>1 DEF Holds
      <3> QED
        BY <1>7, <1>9, <3>1 DEF HeldApart, Unfinished
    <2>2. ASSUME queued' # None
          PROVE  /\ queued' \in Slots
                 /\ jobs'[queued'].src.size = 0 \/ jobs'[queued'].consumed < jobs'[queued'].src.size
      <3>1. CASE queued' = s /\ Pending(s)'
        BY <3>1 DEF Pending, Unfinished
      <3>2. CASE queued' = queued
        BY <1>8, <2>2, <3>2 DEF HeldApart, Unfinished
      <3> QED
        BY <1>9, <3>1, <3>2
    <2> QED
      BY <2>1, <2>2 DEF HeldApart, Unfinished
  <1>11. \A w \in Workers : Holds(w)' => \E j \in Posted' : worker'[w].slot = Slot(j)' /\ Pending(Slot(j))'
    <2>1. \A w \in Workers : Holds(w)' => Holds(w)
      BY DEF Holds
    <2> QED
      BY <1>7, <2>1
  <1>12. queued' # None => \E j \in Posted' : queued' = Slot(j)' /\ Pending(Slot(j))'
    <2>1. CASE queued' = s /\ Pending(s)' /\ mt'.nextJobID = mt.nextJobID + 1
      <3>1. mt.nextJobID \in Posted'
        BY <1>1, <1>2, <2>1 DEF Posted
      <3>2. PICK j \in Posted' : j = mt.nextJobID
        BY <3>1
      <3>3. Slot(j)' = s
        BY <1>4, <3>2
      <3>4. Pending(Slot(j))'
        BY <2>1, <3>3 DEF Pending, Unfinished
      <3> QED
        BY <2>1, <3>3, <3>4
    <2>2. CASE queued' = queued
      BY <1>8, <2>2
    <2> QED
      BY <1>9, <2>1, <2>2
  <1>13. mt'.jobReady => Pending(Slot(mt.nextJobID))'
    <2>1. SUFFICES ASSUME mt'.jobReady PROVE Pending(Slot(mt.nextJobID))'
      OBVIOUS
    <2>2. Pending(s)' /\ mt'.nextJobID = mt.nextJobID
      BY <2>1 DEF Posting
    <2>3. Slot(mt.nextJobID)' = s
      BY <1>2, <2>2 DEF Slot
    <2> QED
      BY <2>2, <2>3 DEF Pending, Unfinished
  <1>14. ASSUME NEW r \in Slots \ Active'
         PROVE  jobs'[r].cdata = <<>> /\ (jobs'[r].frameChecksumNeeded => Unfinished(r)')
    <2>1. Active' = {Slot(j) : j \in mt.doneJobID .. mt'.nextJobID - 1}
      BY <1>2, <1>4 DEF Active
    <2>2. Active \subseteq Active'
      BY <1>1, <1>2, <2>1 DEF Active
    <2>3. CASE r = s
      <3>1. mt'.nextJobID # mt.nextJobID + 1
        <4>1. SUFFICES ASSUME mt'.nextJobID = mt.nextJobID + 1 PROVE FALSE
          OBVIOUS
        <4>2. mt.nextJobID \in mt.doneJobID .. mt'.nextJobID - 1
          BY <1>1, <4>1
        <4> QED
          BY <1>14, <2>1, <2>3, <4>2
      <3> QED
        BY <2>3, <3>1 DEF Posting
    <2>4. CASE r # s
      <3>1. jobs'[r] = jobs[r]
        BY <2>4 DEF Posting
      <3>2. jobs[r].cdata = <<>> /\ (jobs[r].frameChecksumNeeded => Unfinished(r))
        BY <2>2 DEF HeldPosted
      <3> QED
        BY <3>1, <3>2 DEF Unfinished
    <2> QED
      BY <2>3, <2>4
  <1>15. HeldPosted'
    BY <1>2, <1>11, <1>12, <1>13, <1>14 DEF HeldPosted
  <1> QED
    BY <1>3, <1>10, <1>15

LEMMA FilledIs ==
  ASSUME MTAssumption, Shapes, NEW n \in Nat, Loaded(n)
  PROVE  LET m == Filled(n) IN
         /\ m \in MTFields /\ m.filled = mt.filled + n
         /\ m.table = mt.table /\ m.capacity = mt.capacity /\ m.pos = mt.pos
         /\ m.inStart = mt.inStart /\ m.prefix = mt.prefix
         /\ m.jobReady = mt.jobReady /\ m.nextJobID = mt.nextJobID /\ m.doneJobID = mt.doneJobID
         /\ m.session = mt.session /\ m.frameEnded = mt.frameEnded
  <1>1. mt \in MTFields /\ mt.filled + n \in 0 .. section
    BY Constants DEF Shapes, Loaded
  <1> QED
    BY <1>1 DEF MTFields, Filled

LEMMA PostIs ==
  ASSUME NEW m \in MTFields, NEW s, Post(m, s)
  PROVE  /\ mt' \in MTFields /\ mt'.filled = m.filled
         /\ mt'.table = m.table /\ mt'.capacity = m.capacity /\ mt'.pos = m.pos
         /\ mt'.inStart = m.inStart /\ mt'.prefix = m.prefix
         /\ mt'.doneJobID = m.doneJobID /\ mt'.session = m.session /\ mt'.frameEnded = m.frameEnded
         /\ \/ mt'.nextJobID = m.nextJobID + 1 /\ ~mt'.jobReady /\ queued = None /\ queued' = s
            \/ mt'.nextJobID = m.nextJobID /\ mt'.jobReady /\ queued' = queued
  <1>1. CASE queued = None /\ queued' = s /\ mt' = [m EXCEPT !.nextJobID = @ + 1, !.jobReady = FALSE]
    <2>0. PICK k \in Nat : k = m.nextJobID + 1
      BY DEF MTFields
    <2>3. mt' = [m EXCEPT !.nextJobID = k, !.jobReady = FALSE]
      BY <1>1, <2>0
    <2>1. /\ mt' \in MTFields /\ mt'.filled = m.filled
          /\ mt'.table = m.table /\ mt'.capacity = m.capacity /\ mt'.pos = m.pos
          /\ mt'.inStart = m.inStart /\ mt'.prefix = m.prefix
          /\ mt'.doneJobID = m.doneJobID /\ mt'.session = m.session /\ mt'.frameEnded = m.frameEnded
      BY <2>3 DEF MTFields
    <2>2. mt'.nextJobID = m.nextJobID + 1 /\ mt'.jobReady = FALSE
      BY <2>0, <2>3 DEF MTFields
    <2> QED
      BY <1>1, <2>1, <2>2
  <1>2. CASE queued' = queued /\ mt' = [m EXCEPT !.jobReady = TRUE]
    BY <1>2 DEF MTFields
  <1> QED
    BY <1>1, <1>2 DEF Post, CanPost

LEMMA PreparedIs ==
  ASSUME NEW m \in MTFields, NEW last \in BOOLEAN
  PROVE  LET j == Prepared(m, last) IN
         /\ IsJob(j) /\ j.src = [start |-> m.inStart, size |-> m.filled] /\ j.prefix = m.prefix
         /\ j.consumed = 0 /\ j.cdata = <<>>
         /\ j.frameChecksumNeeded = (last /\ m.nextJobID > 0)
         /\ j.jobID = m.nextJobID /\ j.lastJob = last /\ ~j.error /\ j.dstFlushed = 0
  <1> DEFINE i == [start |-> m.inStart, size |-> m.filled]
             c == last /\ m.nextJobID > 0
             j == [src |-> i, prefix |-> m.prefix, jobID |-> m.nextJobID, lastJob |-> last,
                   consumed |-> 0, cdata |-> <<>>, error |-> FALSE, dstFlushed |-> 0, dstBuff |-> FALSE,
                   frameChecksumNeeded |-> c]
  <1>1. i \in Ranges /\ m.prefix \in Ranges
    <2>1. m.filled \in Nat /\ m.inStart \in Nat \cup {None} /\ m.prefix \in Ranges
      BY DEF MTFields
    <2> QED
      BY <2>1 DEF Ranges
  <1>0. Prepared(m, last) =
          [ClearJob EXCEPT !.src = i, !.prefix = m.prefix, !.jobID = m.nextJobID, !.lastJob = last,
                           !.frameChecksumNeeded = c]
    BY DEF Prepared
  <1> HIDE DEF i, c
  <1>2. Prepared(m, last) = j
    BY <1>0 DEF ClearJob
  <1>3. IsJob(j)
    BY <1>1 DEF IsJob
  <1>4. /\ j.src = i /\ j.prefix = m.prefix /\ j.consumed = 0 /\ j.cdata = <<>> /\ j.frameChecksumNeeded = c
        /\ j.jobID = m.nextJobID /\ j.lastJob = last /\ ~j.error /\ j.dstFlushed = 0
    OBVIOUS
  <1> HIDE DEF j
  <1> QED
    BY <1>2, <1>3, <1>4 DEF i, c

LEMMA AfterPrepareIs ==
  ASSUME MTAssumption, NEW m \in MTFields, NEW last \in BOOLEAN, m.inStart = None => m.filled = 0
  PROVE  LET a == AfterPrepare(m, last)
             p == Least(m.filled, overlap) IN
         /\ a \in MTFields /\ a.pos = m.pos + m.filled /\ a.inStart = None /\ a.filled = 0
         /\ a.prefix = IF last THEN NoRange ELSE [start |-> m.inStart + m.filled - p, size |-> p]
         /\ a.table = m.table /\ a.capacity = m.capacity /\ a.doneJobID = m.doneJobID
         /\ a.nextJobID = m.nextJobID /\ a.jobReady = m.jobReady /\ a.session = m.session
         /\ a.frameEnded = last
  <1> DEFINE p == Least(m.filled, overlap)
             r == IF last THEN NoRange ELSE [start |-> m.inStart + m.filled - p, size |-> p]
  <1>1. /\ m.filled \in Nat /\ m.filled <= section /\ m.inStart \in Nat \cup {None} /\ m.pos \in Nat
        /\ overlap \in Nat /\ section \in Nat
    BY Constants DEF MTFields
  <1>2. p \in Nat /\ p <= m.filled
    BY <1>1 DEF Least
  <1> HIDE DEF p
  <1>3. m.inStart + m.filled - p \in Nat \cup {None}
    <2>1. CASE m.inStart = None
      <3>1. m.filled = 0 /\ p = 0
        BY <1>1, <1>2, <2>1
      <3> QED
        BY <2>1, <3>1 DEF None
    <2>2. CASE m.inStart # None
      BY <1>1, <1>2, <2>2
    <2> QED
      BY <2>1, <2>2
  <1>4. r \in Ranges /\ m.pos + m.filled \in Nat /\ 0 \in 0 .. section
    BY <1>1, <1>2, <1>3 DEF Ranges, NoRange
  <1> HIDE DEF r
  <1>5. AfterPrepare(m, last) = [m EXCEPT !.pos = m.pos + m.filled, !.inStart = None, !.filled = 0,
                                          !.prefix = r, !.frameEnded = last]
    BY DEF AfterPrepare, r, p, MTFields
  <1> DEFINE a == AfterPrepare(m, last)
  <1>6. PICK pos \in Nat : pos = m.pos + m.filled
    BY <1>4
  <1>7. a = [m EXCEPT !.pos = pos, !.inStart = None, !.filled = 0, !.prefix = r, !.frameEnded = last]
    BY <1>5, <1>6
  <1> HIDE DEF a
  <1>8. m.inStart \in Nat \cup {None} /\ None \in Nat \cup {None}
    BY <1>1
  <1>9. a \in MTFields
    BY <1>4, <1>6, <1>7, <1>8 DEF MTFields
  <1>10. /\ a.pos = pos /\ a.inStart = None /\ a.filled = 0 /\ a.prefix = r
         /\ a.table = m.table /\ a.capacity = m.capacity /\ a.doneJobID = m.doneJobID
         /\ a.nextJobID = m.nextJobID /\ a.jobReady = m.jobReady /\ a.session = m.session
         /\ a.frameEnded = last
    BY <1>7 DEF MTFields
  <1> QED
    BY <1>6, <1>9, <1>10 DEF a, r, p

\* The call goes on to flush.
Flushes ==
  /\ IsCall(caller') /\ caller'.at = "flush"
  /\ caller'.op = caller.op /\ caller'.ret = caller.ret
  /\ caller.op = "end" => caller'.turnOp = "end" \/ caller'.avail > 0

LEMMA LoadedShapes ==
  ASSUME MTAssumption, Shapes, CallPhase, KeptIntact, BufferInv, caller.at = "load", Flushes,
         NEW n \in Nat, Loaded(n),
         mt' \in MTFields, mt'.table = mt.table, mt'.capacity = mt.capacity, mt'.session = "load",
         jobs' = [s \in Slots |-> jobs'[s]], \A s \in Slots : IsJob(jobs'[s]), worker' = worker
  PROVE  Shapes' /\ CallPhase'
  <1>1. mt.session = "load" /\ caller.ret = "none"
    BY DEF CallPhase
  <1>2. round' \in [Cells -> Int]
    BY <1>1, LoadedBytes
  <1>3. taken' \in Int
    BY DEF Loaded, Shapes
  <1>4. Shapes'
    BY <1>2, <1>3 DEF Shapes, Flushes
  <1>5. CallPhase'
    BY <1>1 DEF CallPhase, Flushes
  <1> QED
    BY <1>4, <1>5

LEMMA LoadOnly ==
  ASSUME MTAssumption, IInv, caller.at = "load", Flushes, NEW n \in Nat, Loaded(n), worker' = worker,
         mt' = Filled(n), jobs' = jobs, queued' = queued
  PROVE  IInv'
  <1>1. Shapes /\ CallPhase /\ KeptIntact /\ BufferInv /\ mt.session = "load" /\ Live
    BY DEF IInv, CallPhase, Live
  <1>2. /\ mt' \in MTFields /\ mt'.filled = mt.filled + n
        /\ mt'.table = mt.table /\ mt'.capacity = mt.capacity /\ mt'.pos = mt.pos
        /\ mt'.inStart = mt.inStart /\ mt'.prefix = mt.prefix
        /\ mt'.jobReady = mt.jobReady /\ mt'.nextJobID = mt.nextJobID /\ mt'.doneJobID = mt.doneJobID
        /\ mt'.session = mt.session
    BY <1>1, FilledIs
  <1>3. Shapes' /\ CallPhase'
    BY <1>1, <1>2, LoadedShapes DEF Shapes
  <1>4. Kept' = Kept /\ \A j : Lo(j)' = Lo(j) /\ Hi(j)' = Hi(j) /\ (KeptAt(j)' <=> KeptAt(j))
    BY <1>2, KeptSame
  <1>5. FirstLap => FirstLap'
    <2>1. \A j : Low(j)' <=> Low(j)
      BY <1>2, <1>4 DEF Low
    <2> QED
      BY <1>2, <1>4, <2>1 DEF FirstLap
  <1>6. KeptIntact' /\ BufferInv'
    BY <1>1, <1>2, <1>4, <1>5, LoadedKeeps DEF Flushes
  <1>7. HeldApart' /\ JobsPosted' /\ HeldPosted'
    BY <1>1, <1>2, PoolStays DEF IInv
  <1> QED
    BY <1>3, <1>6, <1>7 DEF IInv

LEMMA LoadReady ==
  ASSUME MTAssumption, IInv, caller.at = "load", Flushes, NEW n \in Nat, Loaded(n), worker' = worker,
         mt.jobReady, mt.nextJobID < mt.doneJobID + mt.table,
         Post(Filled(n), Slot(mt.nextJobID)), jobs' = jobs
  PROVE  IInv'
  <1>1. Shapes /\ CallPhase /\ KeptIntact /\ BufferInv /\ mt.session = "load" /\ Live
    BY DEF IInv, CallPhase, Live
  <1>2. /\ mt' \in MTFields /\ mt'.filled = mt.filled + n
        /\ mt'.table = mt.table /\ mt'.capacity = mt.capacity /\ mt'.pos = mt.pos
        /\ mt'.inStart = mt.inStart /\ mt'.prefix = mt.prefix
        /\ mt'.doneJobID = mt.doneJobID /\ mt'.session = mt.session
        /\ \/ mt'.nextJobID = mt.nextJobID + 1 /\ ~mt'.jobReady /\ queued' = Slot(mt.nextJobID)
           \/ mt'.nextJobID = mt.nextJobID /\ mt'.jobReady /\ queued' = queued
    <2> DEFINE m == Filled(n)  s == Slot(mt.nextJobID)
    <2>1. /\ m \in MTFields /\ m.filled = mt.filled + n
          /\ m.table = mt.table /\ m.capacity = mt.capacity /\ m.pos = mt.pos
          /\ m.inStart = mt.inStart /\ m.prefix = mt.prefix
          /\ m.jobReady = mt.jobReady /\ m.nextJobID = mt.nextJobID /\ m.doneJobID = mt.doneJobID
          /\ m.session = mt.session
      BY <1>1, FilledIs
    <2>2. Post(m, s)
      OBVIOUS
    <2> HIDE DEF m, s
    <2>3. /\ mt' \in MTFields /\ mt'.filled = m.filled
          /\ mt'.table = m.table /\ mt'.capacity = m.capacity /\ mt'.pos = m.pos
          /\ mt'.inStart = m.inStart /\ mt'.prefix = m.prefix
          /\ mt'.doneJobID = m.doneJobID /\ mt'.session = m.session
          /\ \/ mt'.nextJobID = m.nextJobID + 1 /\ ~mt'.jobReady /\ queued' = s
             \/ mt'.nextJobID = m.nextJobID /\ mt'.jobReady /\ queued' = queued
      BY <2>1, <2>2, PostIs
    <2> QED
      BY <2>1, <2>3 DEF s
  <1>3. Shapes' /\ CallPhase'
    BY <1>1, <1>2, LoadedShapes DEF Shapes
  <1>4. mt.nextJobID \in Nat /\ mt.doneJobID \in Nat /\ mt.table \in Nat \ {0} /\ section \in Nat /\ mt.capacity \in Nat
    BY <1>1, Constants DEF Shapes, MTFields
  <1>5. \A j : Slot(j)' = Slot(j) /\ (Unfinished(Slot(j))' <=> Unfinished(Slot(j)))
    BY <1>2 DEF Slot, Unfinished
  <1>6. Kept' = Kept
    <2>1. ASSUME NEW j
          PROVE  j \in mt'.doneJobID .. mt'.nextJobID /\ (j < mt'.nextJobID \/ mt'.jobReady)
                 <=> j \in mt.doneJobID .. mt.nextJobID /\ (j < mt.nextJobID \/ mt.jobReady)
      BY <1>2, <1>4
    <2> QED
      BY <1>5, <2>1 DEF Kept
  <1>7. \A j : Lo(j)' = Lo(j) /\ Hi(j)' = Hi(j) /\ (KeptAt(j)' <=> KeptAt(j))
    BY <1>2, <1>5 DEF Lo, Hi, KeptAt
  <1>8. FirstLap => FirstLap'
    <2>1. \A j : Low(j)' <=> Low(j)
      BY <1>2, <1>7 DEF Low
    <2>2. mt'.nextJobID + (IF mt'.jobReady THEN 1 ELSE 0) = mt.nextJobID + (IF mt.jobReady THEN 1 ELSE 0)
      BY <1>2, <1>4
    <2>3. mt'.nextJobID < mt.capacity \div section => mt.nextJobID < mt.capacity \div section
      <3>1. section \in Nat \ {0}
        BY Constants
      <3>2. mt.capacity \div section \in Int
        BY <1>4, <3>1
      <3> QED
        BY <1>2, <1>4, <3>2
    <2> QED
      BY <1>2, <1>6, <2>1, <2>2, <2>3 DEF FirstLap
  <1>9. KeptIntact' /\ BufferInv'
    BY <1>1, <1>2, <1>6, <1>7, <1>8, LoadedKeeps DEF Flushes
  <1>10. HeldApart' /\ JobsPosted' /\ HeldPosted'
    <2>1. PICK s \in Slots : s = Slot(mt.nextJobID)
      BY <1>1, <1>4, KeptSlots
    <2>2. Pending(s)
      BY <1>1, <2>1 DEF IInv, HeldPosted
    <2>3. s \in Slots \ Active
      BY <1>1, <2>1, NextSlotFree DEF IInv
    <2>4. jobs[s].cdata = <<>> /\ (jobs[s].frameChecksumNeeded => Unfinished(s))
      BY <1>1, <2>3 DEF IInv, HeldPosted
    <2>5. Pending(s)' /\ (Unfinished(s)' <=> Unfinished(s))
      BY <2>2 DEF Pending, Unfinished
    <2>6. Posting(s)
      BY <1>1, <1>2, <2>1, <2>4, <2>5 DEF Posting
    <2> QED
      BY <1>1, <2>1, <2>6, PostedGrows DEF IInv
  <1> QED
    BY <1>3, <1>9, <1>10 DEF IInv

\* A job is made of what the input buffer holds.
LEMMA LoadPrepared ==
  ASSUME MTAssumption, IInv, caller.at = "load", Flushes, NEW n \in Nat, Loaded(n), worker' = worker,
         ~mt.jobReady, mt.nextJobID < mt.doneJobID + mt.table,
         NEW s \in Slots, s = Slot(mt.nextJobID), SlotChanges(s), Prepares(s, n), Posting(s),
         mt' \in MTFields
  PROVE  IInv'
  <1>1. Shapes /\ CallPhase /\ KeptIntact /\ BufferInv /\ JobsPosted /\ mt.session = "load" /\ Live
    BY DEF IInv, CallPhase, Live
  <1>2. Shapes' /\ CallPhase'
    <2>1. mt'.table = mt.table /\ mt'.capacity = mt.capacity /\ mt'.session = "load"
      BY DEF Prepares, Posting
    <2>2. jobs' = [r \in Slots |-> jobs'[r]] /\ \A r \in Slots : IsJob(jobs'[r])
      BY DEF SlotChanges
    <2> QED
      BY <1>1, <2>1, <2>2, LoadedShapes
  <1>3. KeptIntact' /\ BufferInv'
    BY <1>1, PreparedKeeps DEF Flushes
  <1>4. HeldApart' /\ JobsPosted' /\ HeldPosted'
    BY <1>1, PostedGrows DEF IInv
  <1> QED
    BY <1>2, <1>3, <1>4 DEF IInv

\* The block that ends a frame is written by the caller's thread.
LEMMA LoadEmptyBlock ==
  ASSUME MTAssumption, IInv, caller.at = "load", Flushes, NEW n \in Nat, Loaded(n), worker' = worker,
         ~mt.jobReady, mt.nextJobID < mt.doneJobID + mt.table,
         NEW last \in BOOLEAN, mt.filled + n = 0,
         mt' = [AfterPrepare(Filled(n), last) EXCEPT !.nextJobID = @ + 1],
         NEW e, NEW b, NEW d,
         jobs' = [jobs EXCEPT ![Slot(mt.nextJobID)] =
                    [Prepared(Filled(n), last) EXCEPT !.src = NoRange, !.error = e, !.dstBuff = b, !.cdata = d]],
         queued' = queued
  PROVE  IInv'
  <1> DEFINE m == Filled(n)
             a == AfterPrepare(m, last)
             i == Prepared(m, last)
             k == [i EXCEPT !.src = NoRange, !.error = e, !.dstBuff = b, !.cdata = d]
  <1>1. Shapes /\ mt.session = "load" /\ mt.nextJobID \in Nat /\ mt.filled \in Nat /\ overlap \in Nat /\ mt.pos \in Nat
    BY Constants DEF IInv, CallPhase, Shapes, MTFields
  <1>2. /\ m \in MTFields /\ m.filled = 0
        /\ m.table = mt.table /\ m.capacity = mt.capacity /\ m.pos = mt.pos
        /\ m.inStart = mt.inStart /\ m.prefix = mt.prefix
        /\ m.jobReady = mt.jobReady /\ m.nextJobID = mt.nextJobID /\ m.doneJobID = mt.doneJobID
        /\ m.session = mt.session
    BY <1>1, FilledIs
  <1>3. IsJob(k) /\ k.src = NoRange /\ k.consumed = 0
    <2>1. IsJob(i) /\ i.consumed = 0 /\ NoRange \in Ranges
      BY <1>2, PreparedIs DEF NoRange, Ranges
    <2> HIDE DEF i
    <2>2. k \in [src : Ranges, prefix : Ranges, jobID : {i.jobID}, lastJob : {i.lastJob},
                 consumed : Nat, cdata : {d}, error : {e}, dstFlushed : {i.dstFlushed},
                 dstBuff : {b}, frameChecksumNeeded : {i.frameChecksumNeeded}]
      BY <2>1 DEF IsJob
    <2>3. k.src = NoRange /\ k.consumed = i.consumed
      BY <2>1 DEF IsJob
    <2> HIDE DEF k
    <2>4. IsJob(k)
      BY <2>2 DEF IsJob
    <2> QED
      BY <2>1, <2>3, <2>4
  <1>4. /\ a \in MTFields /\ a.pos = m.pos + m.filled /\ a.inStart = None /\ a.filled = 0
        /\ a.prefix = IF last THEN NoRange ELSE [start |-> m.inStart + m.filled - Least(m.filled, overlap),
                                                 size |-> Least(m.filled, overlap)]
        /\ a.table = m.table /\ a.capacity = m.capacity /\ a.doneJobID = m.doneJobID
        /\ a.nextJobID = m.nextJobID /\ a.jobReady = m.jobReady /\ a.session = m.session
    BY <1>2, AfterPrepareIs
  <1>5. mt' = [a EXCEPT !.nextJobID = @ + 1]
    OBVIOUS
  <1>6. PICK s \in Slots : s = Slot(mt.nextJobID)
    BY <1>1, KeptSlots
  <1>7. jobs' = [jobs EXCEPT ![s] = k]
    BY <1>6
  <1> HIDE DEF m, a, i, k
  <1>8. SlotChanges(s) /\ jobs'[s] = k
    BY <1>1, <1>3, <1>7, SlotIs
  <1>9. /\ mt' \in MTFields /\ mt'.pos = a.pos /\ mt'.inStart = None /\ mt'.filled = 0 /\ mt'.prefix = a.prefix
        /\ mt'.table = mt.table /\ mt'.capacity = mt.capacity /\ mt'.doneJobID = mt.doneJobID
        /\ mt'.jobReady = mt.jobReady /\ mt'.session = "load"
    <2>1. PICK next \in Nat : next = a.nextJobID + 1
      BY <1>4 DEF MTFields
    <2>2. mt' = [a EXCEPT !.nextJobID = next]
      BY <1>5, <2>1
    <2>3. /\ mt' \in MTFields /\ mt'.pos = a.pos /\ mt'.inStart = a.inStart /\ mt'.filled = a.filled
          /\ mt'.prefix = a.prefix /\ mt'.table = a.table /\ mt'.capacity = a.capacity
          /\ mt'.doneJobID = a.doneJobID /\ mt'.jobReady = a.jobReady /\ mt'.session = a.session
      BY <1>4, <2>2 DEF MTFields
    <2> QED
      BY <1>1, <1>2, <1>4, <2>3
  <1>10. mt'.nextJobID = mt.nextJobID + 1
    <2>1. a.nextJobID = mt.nextJobID /\ mt'.nextJobID = a.nextJobID + 1
      BY <1>2, <1>4, <1>5 DEF MTFields
    <2> QED
      BY <2>1
  <1>11. mt'.pos = mt.pos + mt.filled + n /\ mt'.prefix.size = 0
    <2>1. a.pos = mt.pos + 0 /\ mt.pos + 0 = mt.pos + mt.filled + n
      BY <1>1, <1>2, <1>4
    <2>2. Least(0, overlap) = 0 /\ NoRange.size = 0
      BY <1>1 DEF Least, NoRange
    <2>3. a.prefix.size = 0
      BY <1>2, <1>4, <2>2
    <2> QED
      BY <1>9, <2>1, <2>3
  <1>12. ~Unfinished(s)'
    <2>1. jobs'[s].consumed = 0 /\ jobs'[s].src.size = 0
      <3>1. NoRange.size = 0
        BY DEF NoRange
      <3> QED
        BY ONLY <1>3, <1>8, <3>1
    <2> QED
      BY <2>1 DEF Unfinished
  <1>13. Prepares(s, n)
    BY <1>8, <1>9, <1>10, <1>11, <1>12 DEF Prepares, SlotChanges
  <1>14. Posting(s)
    BY <1>8, <1>9, <1>10 DEF Posting, SlotChanges
  <1> QED
    BY <1>6, <1>8, <1>9, <1>13, <1>14, LoadPrepared

LEMMA LoadNewJob ==
  ASSUME MTAssumption, IInv, caller.at = "load", Flushes, NEW n \in Nat, Loaded(n), worker' = worker,
         ~mt.jobReady, mt.nextJobID < mt.doneJobID + mt.table,
         NEW last \in BOOLEAN, ~(mt.filled + n = 0 /\ mt.nextJobID > 0),
         jobs' = [jobs EXCEPT ![Slot(mt.nextJobID)] = Prepared(Filled(n), last)],
         Post(AfterPrepare(Filled(n), last), Slot(mt.nextJobID))
  PROVE  IInv'
  <1> DEFINE m == Filled(n)
             a == AfterPrepare(m, last)
             k == Prepared(m, last)
             c == last /\ m.nextJobID > 0
  <1>1. /\ Shapes /\ mt.session = "load" /\ mt.nextJobID \in Nat /\ mt.filled \in Nat /\ overlap \in Nat
        /\ mt.pos \in Nat
    BY Constants DEF IInv, CallPhase, Shapes, MTFields
  <1>2. /\ m \in MTFields /\ m.filled = mt.filled + n
        /\ m.table = mt.table /\ m.capacity = mt.capacity /\ m.pos = mt.pos
        /\ m.inStart = mt.inStart /\ m.prefix = mt.prefix
        /\ m.jobReady = mt.jobReady /\ m.nextJobID = mt.nextJobID /\ m.doneJobID = mt.doneJobID
        /\ m.session = mt.session
    BY <1>1, FilledIs
  <1>3. /\ IsJob(k) /\ k.src = [start |-> m.inStart, size |-> m.filled] /\ k.prefix = m.prefix
        /\ k.consumed = 0 /\ k.cdata = <<>> /\ k.frameChecksumNeeded = c
    BY <1>2, PreparedIs
  <1>4. m.inStart = None => m.filled = 0
    <2>1. mt.inStart = None => mt.filled = 0 /\ ~(n > 0)
      BY <1>1 DEF IInv, BufferInv, InputAt, Loaded
    <2> QED
      BY <1>2, <2>1
  <1>5. /\ a \in MTFields /\ a.pos = m.pos + m.filled /\ a.inStart = None /\ a.filled = 0
        /\ a.prefix = IF last THEN NoRange ELSE [start |-> m.inStart + m.filled - Least(m.filled, overlap),
                                                 size |-> Least(m.filled, overlap)]
        /\ a.table = m.table /\ a.capacity = m.capacity /\ a.doneJobID = m.doneJobID
        /\ a.nextJobID = m.nextJobID /\ a.jobReady = m.jobReady /\ a.session = m.session
    BY <1>2, <1>4, AfterPrepareIs
  <1>6. PICK s \in Slots : s = Slot(mt.nextJobID)
    BY <1>1, KeptSlots
  <1>7. jobs' = [jobs EXCEPT ![s] = k] /\ Post(a, s)
    BY <1>6
  <1> HIDE DEF m, a, k
  <1>8. SlotChanges(s) /\ jobs'[s] = k
    BY <1>1, <1>3, <1>7, SlotIs
  <1>9. /\ mt' \in MTFields /\ mt'.filled = a.filled
        /\ mt'.table = a.table /\ mt'.capacity = a.capacity /\ mt'.pos = a.pos
        /\ mt'.inStart = a.inStart /\ mt'.prefix = a.prefix
        /\ mt'.doneJobID = a.doneJobID /\ mt'.session = a.session
        /\ \/ mt'.nextJobID = a.nextJobID + 1 /\ ~mt'.jobReady /\ queued' = s
           \/ mt'.nextJobID = a.nextJobID /\ mt'.jobReady /\ queued' = queued
    BY <1>5, <1>7, PostIs
  <1>10. m.filled \in Nat /\ (m.filled = 0 => ~c)
    BY <1>1, <1>2
  <1>11. Unfinished(s)' <=> m.filled > 0
    <2>1. jobs'[s].consumed = 0 /\ jobs'[s].src.size = m.filled
      BY <1>3, <1>8
    <2> QED
      BY <1>10, <2>1 DEF Unfinished
  <1>12. Pending(s)' /\ (jobs'[s].frameChecksumNeeded => Unfinished(s)') /\ jobs'[s].cdata = <<>>
    <2> HIDE DEF c
    <2>0. jobs'[s].frameChecksumNeeded = c
      BY <1>3, <1>8
    <2>1. jobs'[s].cdata = <<>> /\ (jobs'[s].frameChecksumNeeded => c) /\ jobs'[s].src.size = m.filled
      BY <1>3, <1>8, <2>0
    <2>2. CASE m.filled > 0
      BY <1>11, <2>1, <2>2 DEF Pending
    <2>3. CASE m.filled = 0
      BY <1>10, <2>1, <2>3 DEF Pending
    <2> QED
      BY <1>10, <2>1, <2>2, <2>3
  <1>13. mt'.prefix.size = 0 \/ mt'.prefix = [start |-> mt.inStart + mt.filled + n - Least(mt.filled + n, overlap),
                                              size |-> Least(mt.filled + n, overlap)]
    <2>1. CASE last
      <3>1. NoRange.size = 0
        BY DEF NoRange
      <3> QED
        BY <1>5, <1>9, <2>1, <3>1
    <2>2. CASE ~last
      <3>1. PICK l \in Int : l = Least(m.filled, overlap)
        BY <1>1, <1>10 DEF Least
      <3>2. m.inStart + m.filled - l = mt.inStart + mt.filled + n - l
        <4>1. mt.inStart \in Int
          BY <1>1 DEF Shapes, MTFields, None
        <4> QED
          BY <1>1, <1>2, <3>1, <4>1
      <3>3. mt'.prefix = [start |-> m.inStart + m.filled - l, size |-> l]
        BY <1>5, <1>9, <2>2, <3>1
      <3>4. mt'.prefix = [start |-> mt.inStart + mt.filled + n - l, size |-> l]
        BY ONLY <3>2, <3>3
      <3>5. l = Least(mt.filled + n, overlap)
        BY <1>2, <3>1
      <3> QED
        BY ONLY <3>4, <3>5
    <2> QED
      BY <2>1, <2>2
  <1>14. mt'.pos = mt.pos + mt.filled + n
    <2>1. mt'.pos = mt.pos + (mt.filled + n)
      BY <1>2, <1>5, <1>9
    <2> QED
      BY <1>1, <2>1
  <1>15. Prepares(s, n)
    <2>1. Unfinished(s)' => /\ jobs'[s].src = [start |-> mt.inStart, size |-> mt.filled + n]
                            /\ jobs'[s].prefix = mt.prefix /\ mt.filled + n > 0
      BY <1>2, <1>3, <1>8, <1>11
    <2> QED
      BY <1>2, <1>5, <1>8, <1>9, <1>13, <1>14, <2>1 DEF Prepares, SlotChanges
  <1>16. Posting(s)
    BY <1>1, <1>2, <1>5, <1>8, <1>9, <1>12 DEF Posting, SlotChanges
  <1> QED
    BY <1>6, <1>8, <1>9, <1>15, <1>16, LoadPrepared

LEMMA LoadInv ==
  ASSUME MTAssumption, IInv, LoadAndPost
  PROVE  IInv'
  <1>1. caller.at = "load" /\ worker' = worker
    BY DEF LoadAndPost
  <1>2. Flushes
    BY LoadSteps DEF Flushes
  <1>3. PICK n \in Nat, last \in BOOLEAN :
          /\ Loaded(n)
          /\ \/ mt' = Filled(n) /\ jobs' = jobs /\ queued' = queued
             \/ CreateCompressionJob(Filled(n), last)
    BY LoadSteps
  <1> DEFINE m == Filled(n)  s == m.nextJobID % m.table
             empty == m.filled = 0 /\ m.nextJobID > 0
  <1>4. /\ m.filled = mt.filled + n /\ m.table = mt.table /\ m.jobReady = mt.jobReady
        /\ m.nextJobID = mt.nextJobID /\ m.doneJobID = mt.doneJobID
    BY <1>3, FilledIs DEF IInv
  <1>5. s = Slot(mt.nextJobID) /\ (empty <=> mt.filled + n = 0 /\ mt.nextJobID > 0)
    BY <1>4 DEF Slot
  <1>6. m.nextJobID > m.doneJobID + m.table - 1 \/ mt.nextJobID < mt.doneJobID + mt.table
    BY <1>4 DEF IInv, Shapes, MTFields
  <1>7. CASE mt' = m /\ jobs' = jobs /\ queued' = queued
    BY <1>1, <1>2, <1>3, <1>7, LoadOnly
  <1>8. CASE CreateCompressionJob(m, last)
    <2>1. CASE m.nextJobID > m.doneJobID + m.table - 1
      <3>1. mt' = m /\ jobs' = jobs /\ queued' = queued
        BY <1>8, <2>1 DEF CreateCompressionJob
      <3> QED
        BY <1>7, <3>1
    <2>2. CASE ~(m.nextJobID > m.doneJobID + m.table - 1) /\ m.jobReady
      <3>1. Post(m, s) /\ jobs' = jobs
        BY <1>8, <2>2 DEF CreateCompressionJob
      <3>2. Post(Filled(n), Slot(mt.nextJobID))
        BY <1>5, <3>1
      <3> QED
        BY <1>1, <1>2, <1>3, <1>4, <1>6, <2>2, <3>1, <3>2, LoadReady
    <2>3. CASE ~(m.nextJobID > m.doneJobID + m.table - 1) /\ ~m.jobReady /\ empty
      <3>4. /\ mt' = [AfterPrepare(m, last) EXCEPT !.nextJobID = @ + 1]
            /\ \E fails \in {FALSE, MayFail} :
                 /\ jobs' = [jobs EXCEPT ![s] = [Prepared(m, last) EXCEPT !.src = NoRange, !.error = fails,
                                                   !.dstBuff = ~fails, !.cdata = IF fails THEN <<>> ELSE <<LastBlock>>]]
                 /\ pools' = IF fails THEN pools ELSE getBuffer(pools)
            /\ UNCHANGED queued
        BY <1>8, <2>3 DEF CreateCompressionJob
      <3>1. /\ mt' = [AfterPrepare(m, last) EXCEPT !.nextJobID = @ + 1]
            /\ \E e, b, d : jobs' = [jobs EXCEPT ![s] = [Prepared(m, last) EXCEPT !.src = NoRange, !.error = e,
                                                                                 !.dstBuff = b, !.cdata = d]]
            /\ queued' = queued
        <4>1. PICK fails \in {FALSE, MayFail} :
                jobs' = [jobs EXCEPT ![s] = [Prepared(m, last) EXCEPT !.src = NoRange, !.error = fails,
                                                   !.dstBuff = ~fails, !.cdata = IF fails THEN <<>> ELSE <<LastBlock>>]]
          BY <3>4
        <4> QED
          BY <3>4, <4>1
      <3>2. PICK e, b, d :
              jobs' = [jobs EXCEPT ![Slot(mt.nextJobID)] =
                         [Prepared(m, last) EXCEPT !.src = NoRange, !.error = e, !.dstBuff = b, !.cdata = d]]
        BY <1>5, <3>1
      <3>3. ~mt.jobReady /\ mt.nextJobID < mt.doneJobID + mt.table /\ mt.filled + n = 0
        BY <1>4, <1>6, <2>3
      <3> HIDE DEF s, empty
      <3> QED
        BY <1>1, <1>2, <1>3, <3>1, <3>2, <3>3, LoadEmptyBlock
    <2>4. CASE ~(m.nextJobID > m.doneJobID + m.table - 1) /\ ~m.jobReady /\ ~empty
      <3>1. jobs' = [jobs EXCEPT ![s] = Prepared(m, last)] /\ Post(AfterPrepare(m, last), s)
        BY <1>8, <2>4 DEF CreateCompressionJob
      <3>2. /\ jobs' = [jobs EXCEPT ![Slot(mt.nextJobID)] = Prepared(m, last)]
            /\ Post(AfterPrepare(m, last), Slot(mt.nextJobID))
        BY <1>5, <3>1
      <3>3. ~mt.jobReady /\ mt.nextJobID < mt.doneJobID + mt.table /\ ~(mt.filled + n = 0 /\ mt.nextJobID > 0)
        BY <1>4, <1>5, <1>6, <2>4
      <3> HIDE DEF s, empty
      <3> QED
        BY <1>1, <1>2, <1>3, <3>2, <3>3, LoadNewJob
    <2> QED
      BY <2>1, <2>2, <2>3, <2>4
  <1> QED
    BY <1>3, <1>7, <1>8

-----------------------------------------------------------------------------
\* The inductive invariant and what follows from it

LEMMA InitInv ==
  ASSUME MTAssumption, Init
  PROVE  IInv
  <1>1. PICK n \in NbWorkers :
          mt = [nbWorkers |-> n, table |-> TableSize(n), capacity |-> 0, pos |-> 0,
                inStart |-> None, filled |-> 0, prefix |-> NoRange, jobReady |-> FALSE,
                doneJobID |-> 0, nextJobID |-> 0, frameEnded |-> FALSE, allJobsCompleted |-> TRUE,
                session |-> "init"]
    BY DEF Init
  <1>2. /\ jobs = [s \in Slots |-> ClearJob] /\ round = [c \in Cells |-> 0] /\ queued = None
        /\ worker = [w \in Workers |-> IdleWorker] /\ caller = NoCall /\ taken = 0
    BY DEF Init
  <1>3. NoRange \in Ranges /\ NoRange.size = 0 /\ 0 \in 0 .. section
    BY Constants DEF NoRange, Ranges
  <1>4. /\ mt \in MTFields /\ mt.table <= TableSize(MaxWorkers) /\ mt.capacity = 0
        /\ mt.jobReady = FALSE /\ mt.doneJobID = 0 /\ mt.nextJobID = 0 /\ mt.inStart = None
        /\ mt.allJobsCompleted = TRUE /\ mt.session = "init" /\ mt.table \in Nat \ {0}
    <2>1. TableSize(n) \in Nat \ {0} /\ TableSize(n) <= TableSize(MaxWorkers)
      BY TablesGrow
    <2> HIDE DEF TableSize
    <2> QED
      BY <1>1, <1>3, <2>1 DEF MTFields
  <1>5. ClearJob.src = NoRange /\ ClearJob.cdata = <<>> /\ ClearJob.frameChecksumNeeded = FALSE
    BY DEF ClearJob
  <1>6. IsJob(ClearJob) /\ ClearJob.consumed = 0
    BY <1>3 DEF ClearJob, IsJob
  <1>7. \A s \in Slots : jobs[s] = ClearJob
    BY <1>2
  <1>8. \A w \in Workers : IsWorker(worker[w]) /\ worker[w].at = "idle"
    BY <1>2 DEF IsWorker, IdleWorker
  <1>9. IsCall(caller) /\ caller.at = "idle"
    BY <1>2, <1>3 DEF IsCall, NoCall
  <1>10. Shapes
    <2>1. round \in [Cells -> Int] /\ taken \in Int
      BY <1>2
    <2>2. mt.capacity <= capacityFor(MaxWorkers)
      BY <1>1, <1>4, Capacities
    <2>3. jobs = [s \in Slots |-> jobs[s]] /\ \A s \in Slots : IsJob(jobs[s])
      BY <1>2, <1>6, <1>7
    <2>4. worker = [w \in Workers |-> worker[w]]
      BY <1>2
    <2> QED
      BY <1>4, <1>8, <1>9, <2>1, <2>2, <2>3, <2>4 DEF Shapes
  <1>11. CallPhase
    BY <1>9 DEF CallPhase
  <1>12. \A w \in Workers : ~Holds(w)
    BY <1>8 DEF Holds
  <1>13. HeldApart
    BY <1>2, <1>12 DEF HeldApart
  <1>14. JobsPosted
    BY <1>4 DEF JobsPosted
  <1>15. HeldPosted
    BY <1>2, <1>4, <1>5, <1>7, <1>12 DEF HeldPosted
  <1>16. KeptIntact
    BY <1>4 DEF KeptIntact, Kept
  <1>17. BufferInv
    BY <1>4 DEF BufferInv
  <1> QED
    BY <1>10, <1>11, <1>13, <1>14, <1>15, <1>16, <1>17 DEF IInv

LEMMA StutterInv ==
  ASSUME MTAssumption, IInv, UNCHANGED vars
  PROVE  IInv'
  <1> USE DEF vars
  <1>1. Shapes' /\ CallPhase'
    BY DEF IInv, Shapes, CallPhase
  <1>2. HeldApart' /\ JobsPosted'
    BY DEF IInv, HeldApart, JobsPosted, Holds, Unfinished
  <1>3. HeldPosted'
    BY DEF IInv, HeldPosted, Live, Holds, Pending, Unfinished, Posted, Active, Slot
  <1>4. InputsStay
    BY DEF IInv, Shapes, MTFields, InputsStay, Unfinished
  <1> QED
    BY <1>1, <1>2, <1>3, <1>4, BufferStays DEF IInv

LEMMA NextInv ==
  ASSUME MTAssumption, dictSize = 0, ~MayAbandon, IInv, [Next]_vars
  PROVE  IInv'
  <1>1. CASE \E w \in Workers : Work(w)
    BY <1>1, WorkInv
  <1>2. CASE Proceed
    BY <1>2, ResizeInv, LookInv, InitFrameInv, TryRangeInv, MovePrefixInv, TakeRangeInv, LoadInv, FlushInv,
       FlushFailsInv DEF Proceed
  <1>3. CASE \E op \in {"continue", "flush", "end"}, avail \in Inputs, room \in Rooms : Call(op, avail, room)
    BY <1>3, CallInv
  <1>4. CASE Abandon
    BY <1>4 DEF Abandon
  <1>5. CASE FreeCCtx
    BY <1>5, FreeInv
  <1>6. CASE UNCHANGED vars
    BY <1>6, StutterInv
  <1> QED
    BY <1>1, <1>2, <1>3, <1>4, <1>5, <1>6 DEF Next

LEMMA InvariantHolds ==
  ASSUME MTAssumption, dictSize = 0, ~MayAbandon
  PROVE  Spec => []IInv
  <1>1. Init => IInv
    BY InitInv
  <1>2. IInv /\ [Next]_vars => IInv'
    BY NextInv
  <1> QED
    BY <1>1, <1>2, PTL DEF Spec

\* What a posted job reads lies in the round buffer as it was loaded.
LEMMA KeptIsConsecutive ==
  ASSUME MTAssumption, IInv, NEW j \in Kept
  PROVE  Consecutive(Bytes(jobs[Slot(j)].prefix) \o Bytes(jobs[Slot(j)].src))
  <1> DEFINE p == jobs[Slot(j)].prefix  s == jobs[Slot(j)].src
             f == Bytes(p)  g == Bytes(s)  l == Lo(j)
  <1>1. /\ p.size \in Nat /\ s.size \in Nat /\ mt.capacity \in Nat
        /\ mt.capacity <= capacityFor(MaxWorkers) /\ round \in [Cells -> Int] /\ section \in Nat
    <2>1. j \in Nat /\ Slot(j) \in Slots
      BY KeptSlots DEF IInv, Kept, Shapes, MTFields
    <2> QED
      BY <2>1, Constants DEF IInv, Shapes, MTFields, IsJob, Ranges
  <1>2. KeptAt(j) /\ KeptBytes(j)
    BY DEF IInv, KeptIntact
  <1>3. /\ l \in Nat /\ s.start \in Nat /\ s.start = l + p.size /\ Hi(j) = s.start + s.size
        /\ Hi(j) <= mt.capacity /\ (p.size > 0 => p.start = l)
    BY <1>1, <1>2 DEF KeptAt, Lo, Hi, End
  <1>4. \A x \in l .. Hi(j) - 1 : x \in Cells /\ round[x] \in Int /\ round[x] = round[l] + x - l
    <2>1. capacityFor(MaxWorkers) \in Nat
      BY MostWorkers, Capacities
    <2>2. \A x \in l .. Hi(j) - 1 : x \in Cells
      <3>1. Hi(j) \in Nat /\ Hi(j) <= capacityFor(MaxWorkers) /\ l \in Nat
        BY <1>1, <1>3, <2>1
      <3> HIDE DEF l
      <3> QED
        BY <2>1, <3>1 DEF Cells
    <2> QED
      BY <1>1, <1>2, <2>2 DEF KeptBytes
  <1>5. f \in Seq(Int) /\ Len(f) = p.size /\ \A i \in 1 .. p.size : f[i] = round[l + i - 1]
    <2>1. f = [i \in 1 .. p.size |-> round[p.start + i - 1]]
      BY DEF Bytes
    <2>2. ASSUME NEW i \in 1 .. p.size PROVE round[p.start + i - 1] \in Int /\ p.start = l
      <3>1. p.start = l /\ p.start + i - 1 \in l .. Hi(j) - 1
        BY <1>1, <1>3
      <3> QED
        BY <1>4, <3>1
    <2> HIDE DEF f, p, s, l
    <2>3. f \in [1 .. p.size -> Int]
      BY <2>1, <2>2
    <2>4. \A i \in 1 .. p.size : f[i] = round[l + i - 1]
      BY <2>1, <2>2
    <2> QED
      BY <1>1, <2>3, <2>4
  <1>6. g \in Seq(Int) /\ Len(g) = s.size /\ \A i \in 1 .. s.size : g[i] = round[l + p.size + i - 1]
    <2>1. g = [i \in 1 .. s.size |-> round[s.start + i - 1]]
      BY DEF Bytes
    <2>2. ASSUME NEW i \in 1 .. s.size PROVE round[s.start + i - 1] \in Int
      <3>1. s.start + i - 1 \in l .. Hi(j) - 1
        BY <1>1, <1>3
      <3> QED
        BY <1>4, <3>1
    <2>3. \A i \in 1 .. s.size : s.start + i - 1 = l + p.size + i - 1
      BY <1>1, <1>3
    <2> HIDE DEF g, p, s, l
    <2>4. g \in [1 .. s.size -> Int]
      BY <2>1, <2>2
    <2>5. \A i \in 1 .. s.size : g[i] = round[l + p.size + i - 1]
      BY <2>1, <2>3
    <2> QED
      BY <1>1, <2>4, <2>5
  <1> DEFINE b == f \o g
  <1> HIDE DEF f, g, p, s, l
  <1>7. b \in Seq(Int) /\ Len(b) = p.size + s.size
        /\ \A i \in 1 .. p.size + s.size : b[i] = IF i <= p.size THEN f[i] ELSE g[i - p.size]
    <2> HIDE DEF b
    <2>1. f \in Seq(Int) /\ g \in Seq(Int) /\ Len(f) = p.size /\ Len(g) = s.size /\ b = f \o g
      BY <1>5, <1>6 DEF b
    <2>2. /\ f \o g \in Seq(Int) /\ Len(f \o g) = Len(f) + Len(g)
          /\ \A i \in 1 .. Len(f) + Len(g) : (f \o g)[i] = IF i <= Len(f) THEN f[i] ELSE g[i - Len(f)]
      BY <2>1, ConcatProperties, Zenon
    <2> QED
      BY ONLY <2>1, <2>2
  <1>8. \A i \in 1 .. p.size + s.size : b[i] = round[l + i - 1]
    <2> TAKE i \in 1 .. p.size + s.size
    <2>1. CASE i <= p.size
      BY <1>1, <1>5, <1>7, <2>1
    <2>2. CASE ~(i <= p.size)
      <3>1. i - p.size \in 1 .. s.size /\ l + p.size + (i - p.size) - 1 = l + i - 1
        BY <1>1, <1>3, <2>2
      <3> QED
        BY <1>6, <1>7, <2>2, <3>1
    <2> QED
      BY <2>1, <2>2
  <1>9. ASSUME NEW i \in DOMAIN b, i > 1 PROVE b[i] = b[i - 1] + 1
    <2>1. i \in 1 .. p.size + s.size /\ i - 1 \in 1 .. p.size + s.size
      BY <1>1, <1>7, <1>9
    <2>2. l + i - 1 \in l .. Hi(j) - 1 /\ l + (i - 1) - 1 \in l .. Hi(j) - 1 /\ l \in l .. Hi(j) - 1
      BY <1>1, <1>3, <2>1
    <2>3. /\ round[l + i - 1] = round[l] + (l + i - 1) - l
          /\ round[l + (i - 1) - 1] = round[l] + (l + (i - 1) - 1) - l /\ round[l] \in Int
      BY <1>4, <2>2
    <2>4. b[i] = round[l] + (l + i - 1) - l /\ b[i - 1] = round[l] + (l + (i - 1) - 1) - l
      BY <1>8, <2>1, <2>3
    <2> QED
      BY <1>3, <2>1, <2>3, <2>4
  <1> QED
    BY <1>9 DEF Consecutive, b, f, g, p, s

-----------------------------------------------------------------------------
\* Numbers of jobs

LEMMA MadeIs ==
  ASSUME Shapes, JobsPosted
  PROVE  /\ MadeTo \in Nat /\ mt.doneJobID <= MadeTo /\ MadeTo <= mt.doneJobID + mt.table
         /\ Posted \subseteq Made /\ Made \subseteq Nat
         /\ mt.doneJobID \in Nat /\ mt.nextJobID \in Nat /\ mt.jobReady \in BOOLEAN
         /\ mt.frameEnded \in BOOLEAN /\ mt.filled \in Nat /\ mt.table \in Nat \ {0}
         /\ mt.jobReady => mt.nextJobID \in Made
         /\ \A j \in Made : j \in Posted \/ (mt.jobReady /\ j = mt.nextJobID)
  BY DEF Shapes, MTFields, JobsPosted, MadeTo, Made, Posted

LEMMA MadeDiffer ==
  ASSUME Shapes, JobsPosted, NEW j \in Made, NEW i \in Made, Slot(j) = Slot(i)
  PROVE  j = i
  <1>1. /\ j \in Nat /\ i \in Nat /\ mt.doneJobID \in Nat /\ mt.table \in Nat \ {0}
        /\ mt.doneJobID <= j /\ j < mt.doneJobID + mt.table
        /\ mt.doneJobID <= i /\ i < mt.doneJobID + mt.table
    BY MadeIs DEF Made
  <1> QED
    BY <1>1, SlotsDiffer

\* What a worker has is a job of the frame, and nobody has the one that is not posted.
LEMMA HolderHas ==
  ASSUME IInv, InFrame, EndTold, NEW w \in Workers, Holds(w)
  PROVE  \E j \in Posted : HeldBy(j, w) /\ Job(w) = Of(j)
  <1>1. Live
    BY DEF InFrame, EndTold, Live
  <1> QED
    BY <1>1 DEF IInv, HeldPosted, HeldBy, Job, Of

\* What is at rest.
LEMMA Unmoved ==
  ASSUME mt' = mt, taken' = taken
  PROVE  /\ MadeTo' = MadeTo /\ Made' = Made /\ Posted' = Posted /\ \A j : Slot(j)' = Slot(j)
  BY DEF MadeTo, Made, Posted, Slot

-----------------------------------------------------------------------------
\* Workers and the frame

\* What a worker leaves alone of the slot of its job.
SameOutput(s) ==
  /\ jobs'[s].jobID = jobs[s].jobID /\ jobs'[s].lastJob = jobs[s].lastJob
  /\ jobs'[s].dstFlushed = jobs[s].dstFlushed
  /\ ~jobs'[s].error =>
       ~jobs[s].error /\ (jobs'[s].cdata = jobs[s].cdata \/ Len(jobs[s].cdata) <= Len(jobs'[s].cdata))

\* The output of a job, and who has it, after a step of worker w.
JobAfter(at, j, w) ==
  /\ Output(at, taken, j, Of(j)')
  /\ Holds(w)' => HeldAs(at, taken, j, Of(j)', worker'[w])
  /\ ~Holds(w)' => Of(j)'.error \/ Whole(at, j, Of(j)')

LEMMA OthersSame ==
  ASSUME MTAssumption, IInv, NEW w \in Workers, WorkStep(w), NEW j \in Made, NEW i \in Made,
         Holds(w), worker[w].slot = Slot(j), i # j
  PROVE  Of(i)' = Of(i)
  <1>1. Shapes /\ JobsPosted
    BY DEF IInv
  <1>2. Slot(i) \in Slots /\ Slot(i) # Slot(j)
    <2>1. i \in Nat
      BY <1>1, MadeIs
    <2> QED
      BY <1>1, <2>1, KeptSlots, MadeDiffer
  <1>3. jobs'[Slot(i)] = jobs[Slot(i)]
    BY <1>2 DEF WorkStep
  <1>4. Slot(i)' = Slot(i)
    BY DEF WorkStep, Slot
  <1> QED
    BY <1>3, <1>4 DEF Of

LEMMA WorkFrame ==
  ASSUME MTAssumption, IInv, InFrame, EndTold, NEW from, NEW at, Frame(from, at),
         NEW w \in Workers, Holds(w), WorkStep(w), out' = out, \A s \in Slots : SameOutput(s),
         NEW j \in Posted, HeldBy(j, w), JobAfter(at, j, w)
  PROVE  /\ Placed(from, at)' /\ Sources(from)' /\ AfterEnd' /\ FlushedTo(at)'
         /\ Outputs(at)' /\ Holders(at)' /\ Waiting' /\ AllDone(at)'
         /\ Sound' => Sound
  <1>1. Shapes /\ JobsPosted /\ HeldApart
    BY DEF IInv
  <1>2. /\ mt' = mt /\ caller' = caller /\ taken' = taken /\ round' = round /\ queued' = queued /\ WorkerMoves(w)
    BY DEF WorkStep
  <1>3. MadeTo' = MadeTo /\ Made' = Made /\ Posted' = Posted /\ \A i : Slot(i)' = Slot(i)
    BY <1>2, Unmoved
  <1>4. j \in Made /\ Posted \subseteq Made /\ Made \subseteq Nat /\ MadeTo \in Nat /\ mt.doneJobID \in Nat
        /\ worker[w].slot = Slot(j)
    BY <1>1, MadeIs DEF HeldBy
  <1>5. ASSUME NEW i \in Made
        PROVE  /\ Slot(i) \in Slots /\ IsJob(Of(i)') /\ IsJob(Of(i))
               /\ Of(i)' = jobs'[Slot(i)] /\ Of(i) = jobs[Slot(i)]
               /\ Of(i)'.src = Of(i).src /\ Of(i)'.frameChecksumNeeded = Of(i).frameChecksumNeeded
               /\ Of(i)'.jobID = Of(i).jobID /\ Of(i)'.lastJob = Of(i).lastJob
               /\ Of(i)'.dstFlushed = Of(i).dstFlushed
               /\ ~Of(i)'.error =>
                    ~Of(i).error /\ (Of(i)'.cdata = Of(i).cdata \/ Len(Of(i).cdata) <= Len(Of(i)'.cdata))
               /\ Unfinished(Slot(i))' => Unfinished(Slot(i))
    <2>1. Slot(i) \in Slots
      BY <1>1, <1>4, KeptSlots
    <2>2. Of(i)' = jobs'[Slot(i)] /\ Of(i) = jobs[Slot(i)]
      BY <1>3 DEF Of
    <2>3. SameOutput(Slot(i)) /\ SameInput(Slot(i)) /\ IsJob(jobs'[Slot(i)]) /\ IsJob(jobs[Slot(i)])
          /\ (Unfinished(Slot(i))' => Unfinished(Slot(i)))
      <3>1. \A s \in Slots : Unfinished(s)' => Unfinished(s)
        BY DEF WorkStep
      <3>2. Unfinished(Slot(i))' => Unfinished(Slot(i))
        BY <1>3, <2>1, <3>1 DEF Unfinished
      <3> QED
        BY <1>1, <2>1, <3>2 DEF WorkStep, Shapes
    <2> QED
      BY <2>1, <2>2, <2>3 DEF SameOutput, SameInput
  <1>6. \A i \in Made \ {j} : Of(i)' = Of(i)
    BY <1>4, OthersSame
  <1>7. Placed(from, at)'
    <2>1. Placed(from, at)
      BY DEF Frame
    <2>2. ASSUME NEW i \in Made
          PROVE  JobPlaced(from, at, taken, i, Of(i)') /\ Of(i)'.lastJob = (mt.frameEnded /\ i = MadeTo - 1)
      <3>1. JobPlaced(from, at, taken, i, Of(i)) /\ Of(i).lastJob = (mt.frameEnded /\ i = MadeTo - 1)
        BY <2>1, <2>2 DEF Placed
      <3>2. Of(i)'.src = Of(i).src /\ Of(i)'.jobID = Of(i).jobID /\ Of(i)'.lastJob = Of(i).lastJob
        BY <1>5, <2>2
      <3> QED
        BY <3>1, <3>2 DEF JobPlaced
    <2> QED
      BY <1>2, <1>3, <2>1, <2>2 DEF Placed
  <1>8. Sources(from)'
    <2> SUFFICES ASSUME NEW i \in Made, Unfinished(Slot(i))'
                 PROVE  \A x \in Of(i)'.src.start .. End(Of(i)'.src) - 1 : round[x] = from[i] + 1 + x - Of(i)'.src.start
      BY <1>2, <1>3 DEF Sources
    <2>1. Unfinished(Slot(i)) /\ Of(i)'.src = Of(i).src
      BY <1>5
    <2> QED
      BY <2>1 DEF Frame, Sources
  <1>9. AfterEnd'
    BY <1>2, <1>3 DEF Frame, AfterEnd
  <1>10. FlushedTo(at)'
    <2>0. PICK d : d = mt.doneJobID
      OBVIOUS
    <2>1. d \in Nat /\ (d < MadeTo => d \in Made)
      BY <1>4, <2>0 DEF Made
    <2>2. /\ \A i \in Made : Of(i).dstFlushed \in Nat /\ (i > d => Of(i).dstFlushed = 0)
          /\ d < MadeTo /\ ~Of(d).error => Of(d).dstFlushed <= Len(Of(d).cdata)
          /\ Len(out) = at[d] + (IF d < MadeTo THEN Of(d).dstFlushed ELSE 0)
          /\ Len(out) <= taken + (IF mt.frameEnded THEN 3 ELSE 1)
      BY <2>0 DEF Frame, FlushedTo
    <2>3. ASSUME d < MadeTo, ~Of(d)'.error
          PROVE  Of(d)'.dstFlushed <= Len(Of(d)'.cdata)
      <3>1. CASE d = j
        <4>1. /\ Of(d).dstFlushed \in Nat /\ Of(d).dstFlushed <= Len(Of(d).cdata)
              /\ Of(d)'.cdata = Of(d).cdata \/ Len(Of(d).cdata) <= Len(Of(d)'.cdata)
              /\ Of(d)'.dstFlushed = Of(d).dstFlushed
          BY <1>5, <2>1, <2>2, <2>3
        <4>2. Len(Of(d).cdata) \in Int /\ Len(Of(d)'.cdata) \in Int
          <5>1. ~Of(d).error /\ Of(d).cdata \in Seq(Int)
            BY <1>5, <2>1, <2>3 DEF Frame, Outputs, Output, Reads
          <5>2. Of(d)'.cdata \in Seq(Int)
            BY <2>3, <3>1 DEF JobAfter, Output, Reads
          <5> QED
            BY <5>1, <5>2, LenProperties
        <4> QED
          BY <4>1, <4>2
      <3>2. CASE d # j
        BY <1>6, <2>1, <2>2, <2>3, <3>2
      <3> QED
        BY <3>1, <3>2
    <2>4. /\ \A i \in Made : Of(i)'.dstFlushed \in Nat /\ (i > d => Of(i)'.dstFlushed = 0)
          /\ d < MadeTo => Of(d)'.dstFlushed = Of(d).dstFlushed
      BY <1>5, <2>1, <2>2
    <2>5. d = mt'.doneJobID
      BY <1>2, <2>0
    <2> QED
      BY <1>2, <1>3, <2>2, <2>3, <2>4, <2>5 DEF FlushedTo
  <1>11. Outputs(at)'
    BY <1>2, <1>3, <1>4, <1>6 DEF Frame, Outputs, JobAfter
  <1>12. ASSUME NEW i \in Made, NEW v \in Workers, HeldBy(i, v)'
         PROVE  /\ HeldBy(i, v) /\ (v = w => i = j) /\ (v # w => i # j /\ worker'[v] = worker[v])
    <2>1. Holds(v) /\ worker'[v].slot = worker[v].slot /\ worker'[v].slot = Slot(i)
      BY <1>3, <1>12 DEF HeldBy, WorkStep, WorkerMoves, Holds
    <2>2. HeldBy(i, v)
      BY <2>1 DEF HeldBy
    <2>3. v = w => i = j
      BY <1>1, <1>4, <2>1, MadeDiffer
    <2>4. v # w => i # j /\ worker'[v] = worker[v]
      BY <1>1, <1>2, <1>4, <2>1 DEF HeldApart, WorkerMoves
    <2> QED
      BY <2>2, <2>3, <2>4
  <1>13. Holders(at)'
    <2> SUFFICES ASSUME NEW i \in Posted, NEW v \in Workers, HeldBy(i, v)'
                 PROVE  HeldAs(at, taken, i, Of(i)', worker'[v])
      BY <1>2, <1>3 DEF Holders
    <2>1. CASE v = w
      BY <1>4, <1>12, <2>1 DEF JobAfter, HeldBy
    <2>2. CASE v # w
      BY <1>4, <1>6, <1>12, <2>2 DEF Frame, Holders
    <2> QED
      BY <2>1, <2>2
  <1>14. Slot(j) # queued
    BY <1>4 DEF IInv, HeldApart
  <1>15. Waiting'
    <2>1. \A i \in Posted : queued = Slot(i) => i \in Made /\ i # j
      BY <1>4, <1>14
    <2>2. mt.jobReady => mt.nextJobID \in Made /\ mt.nextJobID # j
      BY <1>1, MadeIs DEF Posted
    <2> QED
      BY <1>2, <1>3, <1>6, <2>1, <2>2 DEF Frame, Waiting
  <1>16. AllDone(at)'
    <2> SUFFICES ASSUME NEW i \in Posted, Nobodys(i)', ~Of(i)'.error
                 PROVE  Whole(at, i, Of(i)')
      BY <1>2, <1>3 DEF AllDone
    <2>1. CASE i = j
      <3>1. worker'[w].slot # Slot(j) \/ ~Holds(w)'
        BY <1>3, <2>1 DEF Nobodys, HeldBy
      <3>2. ~Holds(w)'
        BY <1>4, <3>1 DEF WorkStep
      <3> QED
        BY <2>1, <3>2 DEF JobAfter
    <2>2. CASE i # j
      <3>1. Of(i)' = Of(i)
        BY <1>4, <1>6, <2>2
      <3>2. ASSUME NEW v \in Workers, HeldBy(i, v) PROVE FALSE
        <4>1. v # w
          BY <1>1, <1>4, <2>2, <3>2, MadeDiffer DEF HeldBy
        <4>2. worker'[v] = worker[v]
          BY <1>2, <4>1 DEF WorkerMoves
        <4>3. HeldBy(i, v)'
          BY <1>3, <3>2, <4>2 DEF HeldBy, Holds
        <4> QED
          BY <4>3 DEF Nobodys
      <3>3. Nobodys(i)
        BY <1>2, <1>3, <3>2 DEF Nobodys
      <3> QED
        BY <3>1, <3>3 DEF Frame, AllDone
    <2> QED
      BY <2>1, <2>2
  <1>17. Sound' => Sound
    BY <1>3, <1>5 DEF Sound
  <1> QED
    BY <1>7, <1>8, <1>9, <1>10, <1>11, <1>13, <1>15, <1>16, <1>17

LEMMA TurnsStay ==
  ASSUME MTAssumption, IInv, NEW from, InTurn(from), NEW w \in Workers, Holds(w), WorkStep(w),
         \A s \in Slots : SameOutput(s), NEW j \in Posted, HeldBy(j, w),
         Sound' => Sound, Sound' => serial' = serial,
         Holds(w)' => /\ worker'[w].at \in TurnToCome => worker[w].at \in TurnToCome
                      /\ worker'[w].at \in TurnTaken => worker[w].at \in TurnTaken \/ Of(j)'.error,
         ~Holds(w)' => worker[w].at \in TurnTaken
  PROVE  InTurn(from)'
  <1> SUFFICES ASSUME Sound' PROVE InTurn(from)'
    BY DEF InTurn
  <1>1. Shapes /\ JobsPosted /\ HeldApart /\ Sound /\ serial' = serial
    BY DEF IInv
  <1>2. mt' = mt /\ taken' = taken /\ queued' = queued /\ WorkerMoves(w)
    BY DEF WorkStep
  <1>3. MadeTo' = MadeTo /\ Made' = Made /\ Posted' = Posted /\ \A i : Slot(i)' = Slot(i)
    BY <1>2, Unmoved
  <1>4. Posted \subseteq Made /\ Made \subseteq Nat /\ worker[w].slot = Slot(j)
    BY <1>1, MadeIs DEF HeldBy
  <1>5. /\ serial.nextJobID <= mt.nextJobID /\ serial.hashed = from[serial.nextJobID]
        /\ ~mt.frameEnded \/ mt.doneJobID < MadeTo => mt.doneJobID <= serial.nextJobID
        /\ \A i \in Posted, v \in Workers : HeldBy(i, v) =>
             /\ worker[v].at \in TurnToCome => serial.nextJobID <= i
             /\ worker[v].at \in TurnTaken => serial.nextJobID > i
        /\ \A i \in Posted : queued = Slot(i) => serial.nextJobID <= i
        /\ \A i \in Posted : Nobodys(i) => serial.nextJobID > i \/ Of(i).src.size = 0
    BY <1>1 DEF InTurn
  <1>6. ASSUME NEW i \in Posted, NEW v \in Workers, HeldBy(i, v)'
        PROVE  /\ worker'[v].at \in TurnToCome => serial.nextJobID <= i
               /\ worker'[v].at \in TurnTaken => serial.nextJobID > i
    <2>1. Holds(v) /\ worker'[v].slot = worker[v].slot /\ worker'[v].slot = Slot(i)
      BY <1>3, <1>6 DEF HeldBy, WorkStep, WorkerMoves, Holds
    <2>2. HeldBy(i, v)
      BY <2>1 DEF HeldBy
    <2>3. CASE v = w
      <3>1. i = j
        BY <1>1, <1>4, <2>1, <2>3, MadeDiffer
      <3>2. ~Of(j)'.error
        BY <1>3, <1>4 DEF Sound
      <3> QED
        BY <1>5, <1>6, <2>2, <2>3, <3>1, <3>2 DEF HeldBy
    <2>4. CASE v # w
      <3>1. worker'[v] = worker[v]
        BY <1>2, <2>4 DEF WorkerMoves
      <3> QED
        BY <1>5, <2>2, <3>1
    <2> QED
      BY <2>3, <2>4
  <1>7. ASSUME NEW i \in Posted, Nobodys(i)'
        PROVE  serial.nextJobID > i \/ Of(i)'.src.size = 0
    <2>1. CASE i = j
      <3>1. ~Holds(w)'
        BY <1>3, <1>4, <1>7, <2>1 DEF Nobodys, HeldBy, WorkStep
      <3> QED
        BY <1>5, <2>1, <3>1
    <2>2. CASE i # j
      <3>1. Of(i)' = Of(i)
        BY <1>4, <2>2, OthersSame
      <3>2. ASSUME NEW v \in Workers, HeldBy(i, v) PROVE FALSE
        <4>1. v # w
          BY <1>1, <1>4, <2>2, <3>2, MadeDiffer DEF HeldBy
        <4>2. worker'[v] = worker[v]
          BY <1>2, <4>1 DEF WorkerMoves
        <4>3. HeldBy(i, v)'
          BY <1>3, <3>2, <4>2 DEF HeldBy, Holds
        <4> QED
          BY <1>7, <4>3 DEF Nobodys
      <3>3. Nobodys(i)
        BY <1>2, <1>3, <1>7, <3>2 DEF Nobodys
      <3> QED
        BY <1>5, <3>1, <3>3
    <2> QED
      BY <2>1, <2>2
  <1> QED
    BY <1>1, <1>2, <1>3, <1>5, <1>6, <1>7 DEF InTurn

LEMMA WindowStays ==
  ASSUME WindowHolds, Sound' => Sound, serial' = serial, round' = round,
         mt'.capacity = mt.capacity, mt'.inStart = mt.inStart \/ mt'.inStart = None, mt'.pos = mt.pos \/ mt'.inStart = None
  PROVE  WindowHolds'
  <1>1. ASSUME NEW r, NEW last, Segment(r, last) PROVE Segment(r, last)'
    BY <1>1 DEF Segment
  <1>2. PICK pre, ext, h : pre = serial.window.pre /\ ext = serial.window.ext /\ h = serial.hashed
    OBVIOUS
  <1>3. Sound /\ window > 0 => Segment(pre, h)' /\ Segment(ext, h - pre.size)'
    BY <1>1, <1>2 DEF WindowHolds
  <1> QED
    BY <1>2, <1>3 DEF WindowHolds, SerialIs

\* The step of a worker that leaves the serial state alone.
LEMMA WorkOn ==
  ASSUME MTAssumption, IInv, InFrame, EndTold, NEW from, NEW at, Frame(from, at),
         NEW w \in Workers, Holds(w), WorkStep(w), out' = out, \A s \in Slots : SameOutput(s),
         NEW j \in Posted, HeldBy(j, w), JobAfter(at, j, w), serial' = serial,
         Holds(w)' => /\ worker'[w].at \in TurnToCome => worker[w].at \in TurnToCome
                      /\ worker'[w].at \in TurnTaken => worker[w].at \in TurnTaken \/ Of(j)'.error,
         ~Holds(w)' => worker[w].at \in TurnTaken
  PROVE  Frame(from, at)'
  <1>1. /\ Placed(from, at)' /\ Sources(from)' /\ AfterEnd' /\ FlushedTo(at)'
        /\ Outputs(at)' /\ Holders(at)' /\ Waiting' /\ AllDone(at)'
        /\ Sound' => Sound
    BY WorkFrame
  <1>2. InTurn(from) /\ WindowHolds
    BY DEF Frame
  <1>3. InTurn(from)'
    BY <1>1, <1>2, TurnsStay
  <1>4. WindowHolds'
    BY <1>1, <1>2, WindowStays DEF WorkStep
  <1> QED
    BY <1>1, <1>3, <1>4 DEF Frame

\* Nothing of the frame changes.
LEMMA FrameRests ==
  ASSUME NEW from, NEW at, Frame(from, at), UNCHANGED <<mt, jobs, round, queued, serial, taken, out>>,
         \A w \in Workers : /\ Holds(w)' <=> Holds(w)
                            /\ Holds(w) => worker'[w] = worker[w],
         caller'.avail = caller.avail \/ ~mt.frameEnded \/ caller'.avail <= 0
  PROVE  Frame(from, at)'
  <1>1. MadeTo' = MadeTo /\ Made' = Made /\ Posted' = Posted /\ (\A i : Slot(i)' = Slot(i))
    BY Unmoved
  <1>2. (\A i : Of(i)' = Of(i)) /\ \A s : Unfinished(s)' <=> Unfinished(s)
    BY <1>1 DEF Of, Unfinished
  <1>3. \A i, w : w \in Workers => (HeldBy(i, w)' <=> HeldBy(i, w))
    BY <1>1 DEF HeldBy
  <1>4. (\A i : Nobodys(i)' <=> Nobodys(i)) /\ (Sound' <=> Sound)
    BY <1>1, <1>2, <1>3 DEF Nobodys, Sound
  <1>5. Placed(from, at)' /\ AfterEnd' /\ FlushedTo(at)'
    <2>1. Placed(from, at)'
      BY <1>1, <1>2 DEF Frame, Placed
    <2>2. AfterEnd'
      BY <1>1 DEF Frame, AfterEnd
    <2>3. PICK d : d = mt.doneJobID
      OBVIOUS
    <2>4. FlushedTo(at)'
      BY <1>1, <1>2, <2>3 DEF Frame, FlushedTo
    <2> QED
      BY <2>1, <2>2, <2>4
  <1>6. Sources(from)' /\ Outputs(at)' /\ AllDone(at)'
    <2>1. ASSUME NEW i \in Made, Unfinished(Slot(i))' PROVE Unfinished(Slot(i))
      BY <1>1, <1>2, <2>1 DEF Unfinished
    <2>2. Sources(from)'
      BY <1>1, <1>2, <2>1 DEF Frame, Sources
    <2> QED
      BY <1>1, <1>2, <1>4, <2>2 DEF Frame, Outputs, AllDone
  <1>7. Holders(at)' /\ Waiting'
    <2>1. ASSUME NEW i \in Posted, NEW w \in Workers, HeldBy(i, w)' PROVE HeldAs(at, taken, i, Of(i)', worker'[w])
      <3>1. HeldBy(i, w) /\ worker'[w] = worker[w]
        BY <1>3, <2>1 DEF HeldBy
      <3> QED
        BY <1>2, <3>1 DEF Frame, Holders
    <2>2. PICK n : n = mt.nextJobID
      OBVIOUS
    <2> QED
      BY <1>1, <1>2, <2>1, <2>2 DEF Frame, Holders, Waiting
  <1>8. InTurn(from)'
    <2>1. ASSUME NEW i \in Posted, NEW w \in Workers, HeldBy(i, w)' PROVE HeldBy(i, w) /\ worker'[w] = worker[w]
      BY <1>3, <2>1 DEF HeldBy
    <2> QED
      BY <1>1, <1>2, <1>4, <2>1 DEF Frame, InTurn
  <1>9. WindowHolds'
    BY <1>4, WindowStays DEF Frame
  <1> QED
    BY <1>5, <1>6, <1>7, <1>8, <1>9 DEF Frame

-----------------------------------------------------------------------------
\* What is read

LEMMA ReadsOn ==
  ASSUME NEW k \in Nat, NEW s, NEW t, NEW a \in Int, Reads(k, s, a), Reads(k, t, a + Len(s))
  PROVE  /\ Reads(k, s \o t, a) /\ Len(s \o t) = Len(s) + Len(t)
         /\ Len(s) \in Nat /\ Len(t) \in Nat
  <1>1. s \in Seq(Int) /\ t \in Seq(Int) /\ Len(s) \in Nat /\ Len(t) \in Nat
    BY LenProperties DEF Reads
  <1>2. s \o t \in Seq(Int) /\ Len(s \o t) = Len(s) + Len(t)
    BY <1>1, ConcatProperties
  <1>3. ASSUME NEW i \in 1 .. Len(s \o t) PROVE (s \o t)[i] = SymbolAt(k, a + i)
    <2>1. CASE i <= Len(s)
      BY <1>1, <1>2, <2>1, ConcatProperties DEF Reads
    <2>2. CASE ~(i <= Len(s))
      <3>1. (s \o t)[i] = t[i - Len(s)] /\ i - Len(s) \in 1 .. Len(t)
        BY <1>1, <1>2, <2>2, ConcatProperties
      <3>2. t[i - Len(s)] = SymbolAt(k, (a + Len(s)) + (i - Len(s)))
        BY <3>1 DEF Reads
      <3>3. (a + Len(s)) + (i - Len(s)) = a + i
        BY <1>1, <1>2
      <3> QED
        BY <3>1, <3>2, <3>3
    <2> QED
      BY <2>1, <2>2
  <1> QED
    BY <1>1, <1>2, <1>3 DEF Reads

LEMMA ReadsNothing ==
  ASSUME NEW k, NEW a
  PROVE  Reads(k, <<>>, a) /\ Len(<<>>) = 0
  BY DEF Reads

LEMMA ReadsOne ==
  ASSUME NEW k \in Nat, NEW a \in Int, NEW v \in Int, v = SymbolAt(k, a + 1)
  PROVE  Reads(k, <<v>>, a) /\ Len(<<v>>) = 1
  BY DEF Reads

LEMMA ReadsBytes ==
  ASSUME NEW k \in Nat, NEW r, r.start \in Int, r.size \in Nat, NEW a \in Int, a + r.size <= k + 1,
         \A x \in r.start .. End(r) - 1 : round[x] = a + x - r.start
  PROVE  Reads(k, Bytes(r), a) /\ Len(Bytes(r)) = r.size
  <1> DEFINE b == Bytes(r)
  <1>1. ASSUME NEW i \in 1 .. r.size PROVE round[r.start + i - 1] = a + i - 1
    <2>1. r.start + i - 1 \in r.start .. End(r) - 1
      BY DEF End
    <2> QED
      BY <2>1
  <1>2. b = [i \in 1 .. r.size |-> round[r.start + i - 1]]
    BY DEF Bytes
  <1> HIDE DEF b
  <1>3. b \in Seq(Int) /\ Len(b) = r.size
    <2>1. \A i \in 1 .. r.size : round[r.start + i - 1] \in Int
      BY <1>1
    <2>2. b \in [1 .. r.size -> Int]
      BY <1>2, <2>1
    <2>3. b \in Seq(Int)
      BY <2>2, SeqDef
    <2>4. DOMAIN b = 1 .. r.size /\ DOMAIN b = 1 .. Len(b) /\ Len(b) \in Nat
      BY <1>2, <2>3, LenProperties
    <2> QED
      BY <2>3, <2>4
  <1>4. \A i \in 1 .. r.size : b[i] = SymbolAt(k, a + i)
    BY <1>1, <1>2 DEF SymbolAt
  <1>5. Reads(k, b, a)
    BY <1>3, <1>4 DEF Reads
  <1> QED
    BY <1>3, <1>5 DEF b

LEMMA HashesBytes ==
  ASSUME NEW r, r.start \in Int, r.size \in Nat, NEW h \in Nat,
         \A x \in r.start .. End(r) - 1 : round[x] = h + 1 + x - r.start
  PROVE  Hash(h, Bytes(r)) = h + r.size
  <1> DEFINE b == Bytes(r)
  <1>1. ASSUME NEW i \in 1 .. r.size PROVE round[r.start + i - 1] = h + i
    <2>1. r.start + i - 1 \in r.start .. End(r) - 1
      BY DEF End
    <2> QED
      BY <2>1
  <1>2. b = [i \in 1 .. r.size |-> round[r.start + i - 1]]
    BY DEF Bytes
  <1> HIDE DEF b
  <1>3. DOMAIN b = 1 .. r.size /\ b = [i \in DOMAIN b |-> h + i]
    BY <1>1, <1>2
  <1>4. Len(b) = r.size
    BY <1>3
  <1>5. h # BadSum
    BY DEF BadSum
  <1>6. Hash(h, b) = h + r.size
    BY <1>3, <1>4, <1>5 DEF Hash
  <1> QED
    BY <1>6 DEF b

-----------------------------------------------------------------------------
\* The steps of a worker

LEMMA AtWork ==
  ASSUME MTAssumption, IInv, InFrame, EndTold, NEW from, NEW at, Frame(from, at),
         NEW w \in Workers, worker[w].at \in {"begin", "serial", "compress", "ensure", "report"}, CallerWaits
  PROVE  /\ Holds(w) /\ out' = out /\ taken' = taken /\ mt' = mt
         /\ worker = [v \in Workers |-> worker[v]] /\ IsWorker(worker[w])
         /\ jobs = [s \in Slots |-> jobs[s]]
         /\ \E j \in Posted :
              /\ j \in Nat /\ HeldBy(j, w) /\ worker[w].slot = Slot(j) /\ Slot(j) \in Slots
              /\ Job(w) = Of(j) /\ Of(j) = jobs[Slot(j)] /\ Of(j)' = jobs'[Slot(j)] /\ IsJob(Of(j))
              /\ JobPlaced(from, at, taken, j, Of(j)) /\ Output(at, taken, j, Of(j))
              /\ HeldAs(at, taken, j, Of(j), worker[w])
  <1>1. Holds(w) /\ Shapes /\ JobsPosted
    BY DEF Holds, IInv
  <1>2. PICK j \in Posted : HeldBy(j, w) /\ Job(w) = Of(j)
    BY <1>1, HolderHas
  <1>3. j \in Made /\ j \in Nat
    BY <1>1, MadeIs
  <1>4. worker[w].slot = Slot(j) /\ Slot(j) \in Slots
    BY <1>1, <1>2, <1>3, KeptSlots DEF HeldBy
  <1>5. JobPlaced(from, at, taken, j, Of(j)) /\ Output(at, taken, j, Of(j))
    BY <1>3 DEF Frame, Placed, Outputs
  <1>6. HeldAs(at, taken, j, Of(j), worker[w])
    BY <1>2 DEF Frame, Holders
  <1>7. mt' = mt /\ out' = out /\ taken' = taken
    BY DEF CallerWaits
  <1>8. Of(j) = jobs[Slot(j)] /\ Of(j)' = jobs'[Slot(j)]
    BY <1>7 DEF Of, Slot
  <1>9. IsJob(Of(j)) /\ IsWorker(worker[w]) /\ worker = [v \in Workers |-> worker[v]]
        /\ jobs = [s \in Slots |-> jobs[s]]
    BY <1>1, <1>4, <1>8 DEF Shapes
  <1> QED
    BY <1>1, <1>2, <1>3, <1>4, <1>5, <1>6, <1>7, <1>8, <1>9

LEMMA OneSlot ==
  ASSUME jobs = [r \in Slots |-> jobs[r]], NEW s \in Slots, NEW k, jobs' = [jobs EXCEPT ![s] = k],
         k.jobID = jobs[s].jobID, k.lastJob = jobs[s].lastJob, k.dstFlushed = jobs[s].dstFlushed,
         ~k.error => ~jobs[s].error /\ (k.cdata = jobs[s].cdata \/ Len(jobs[s].cdata) <= Len(k.cdata))
  PROVE  jobs'[s] = k /\ \A r \in Slots : SameOutput(r)
  <1>1. \A r \in Slots : jobs'[r] = IF r = s THEN k ELSE jobs[r]
    OBVIOUS
  <1> QED
    BY <1>1 DEF SameOutput

LEMMA NoSlot ==
  ASSUME jobs' = jobs
  PROVE  \A s \in Slots : SameOutput(s)
  BY DEF SameOutput

LEMMA BeginFrame ==
  ASSUME MTAssumption, IInv, InFrame, EndTold, NEW from, NEW at, Frame(from, at),
         NEW w \in Workers, Begin(w)
  PROVE  Frame(from, at)'
  <1>1. worker[w].at = "begin" /\ CallerWaits /\ serial' = serial /\ WorkStep(w)
    BY WorkerSteps DEF IInv, Begin
  <1>2. PICK j \in Posted :
          /\ j \in Nat /\ HeldBy(j, w) /\ worker[w].slot = Slot(j) /\ Slot(j) \in Slots
          /\ Job(w) = Of(j) /\ Of(j) = jobs[Slot(j)] /\ Of(j)' = jobs'[Slot(j)] /\ IsJob(Of(j))
          /\ JobPlaced(from, at, taken, j, Of(j)) /\ Output(at, taken, j, Of(j))
          /\ HeldAs(at, taken, j, Of(j), worker[w])
    BY <1>1, AtWork
  <1>3. /\ Holds(w) /\ out' = out /\ worker = [v \in Workers |-> worker[v]] /\ IsWorker(worker[w])
        /\ jobs = [s \in Slots |-> jobs[s]]
    BY <1>1, AtWork
  <1>4. worker'[w].at = "serial" /\ worker'[w].chunk = worker[w].chunk /\ Holds(w)'
    BY <1>3 DEF Begin, IsWorker, Holds
  <1> DEFINE J == Of(j)  k == [J EXCEPT !.dstBuff = TRUE]
  <1>5. /\ k.jobID = J.jobID /\ k.lastJob = J.lastJob /\ k.dstFlushed = J.dstFlushed /\ k.error = J.error
        /\ k.cdata = J.cdata /\ k.src = J.src /\ k.consumed = J.consumed
        /\ k.frameChecksumNeeded = J.frameChecksumNeeded
    BY <1>2 DEF IsJob
  <1>6. jobs' = [jobs EXCEPT ![Slot(j)] = k]
    BY <1>2 DEF Begin
  <1> HIDE DEF k
  <1>7. jobs'[Slot(j)] = k /\ \A r \in Slots : SameOutput(r)
    BY <1>2, <1>3, <1>5, <1>6, OneSlot
  <1>8. Of(j)' = k
    BY <1>2, <1>7
  <1> HIDE DEF J
  <1>9. JobAfter(at, j, w)
    <2>1. Output(at, taken, j, k)
      BY <1>2, <1>5 DEF Output, J
    <2>2. HeldAs(at, taken, j, k, worker'[w])
      BY <1>1, <1>2, <1>4, <1>5 DEF HeldAs, Untouched, ChecksumToCome, J
    <2> QED
      BY <1>4, <1>8, <2>1, <2>2 DEF JobAfter
  <1> QED
    BY <1>1, <1>2, <1>3, <1>4, <1>7, <1>9, WorkOn DEF TurnToCome, TurnTaken

\* A job that fails is in nobody's way.
LEMMA FailedFrame ==
  ASSUME MTAssumption, IInv, InFrame, EndTold, NEW from, NEW at, Frame(from, at),
         NEW w \in Workers, BeginFails(w) \/ CompressFails(w)
  PROVE  Frame(from, at)'
  <1>1. /\ worker[w].at \in {"begin", "serial", "compress", "ensure", "report"}
        /\ CallerWaits /\ serial' = serial /\ WorkStep(w)
    BY WorkerSteps DEF IInv, BeginFails, CompressFails
  <1>2. PICK j \in Posted :
          /\ j \in Nat /\ HeldBy(j, w) /\ worker[w].slot = Slot(j) /\ Slot(j) \in Slots
          /\ Job(w) = Of(j) /\ Of(j) = jobs[Slot(j)] /\ Of(j)' = jobs'[Slot(j)] /\ IsJob(Of(j))
          /\ JobPlaced(from, at, taken, j, Of(j)) /\ Output(at, taken, j, Of(j))
          /\ HeldAs(at, taken, j, Of(j), worker[w])
    BY <1>1, AtWork
  <1>3. /\ Holds(w) /\ out' = out /\ worker = [v \in Workers |-> worker[v]] /\ IsWorker(worker[w])
        /\ jobs = [s \in Slots |-> jobs[s]]
    BY <1>1, AtWork
  <1>4. worker'[w].at = "ensure" /\ Holds(w)'
    <2>1. CASE BeginFails(w)
      <3>1. PICK c \in BOOLEAN : worker' = [worker EXCEPT ![w].at = "ensure", ![w].cctx = c]
        BY <2>1 DEF BeginFails
      <3> QED
        BY <1>3, <3>1 DEF IsWorker, Holds
    <2>2. CASE CompressFails(w)
      BY <1>3, <2>2 DEF CompressFails, IsWorker, Holds
    <2> QED
      BY <2>1, <2>2
  <1> DEFINE J == Of(j)  k == [J EXCEPT !.error = TRUE]
  <1>5. /\ k.jobID = J.jobID /\ k.lastJob = J.lastJob /\ k.dstFlushed = J.dstFlushed /\ k.error = TRUE
        /\ k.cdata = J.cdata
    BY <1>2 DEF IsJob
  <1>6. jobs' = [jobs EXCEPT ![Slot(j)] = k]
    BY <1>2 DEF BeginFails, CompressFails
  <1> HIDE DEF k
  <1>7. jobs'[Slot(j)] = k /\ \A r \in Slots : SameOutput(r)
    BY <1>2, <1>3, <1>5, <1>6, OneSlot
  <1>8. Of(j)'.error
    BY <1>2, <1>5, <1>7
  <1>9. JobAfter(at, j, w)
    BY <1>4, <1>8 DEF JobAfter, Output, HeldAs
  <1> QED
    BY <1>1, <1>2, <1>3, <1>4, <1>7, <1>8, <1>9, WorkOn DEF TurnToCome, TurnTaken

LEMMA FinishFrame ==
  ASSUME NEW from, NEW at, Frame(from, at), Shapes, NEW w \in Workers, Finish(w)
  PROVE  Frame(from, at)'
  <1>1. UNCHANGED <<mt, jobs, round, queued, serial, taken, out, caller>> /\ worker[w].at = "ended"
    BY DEF Finish, CallerWaits
  <1>2. \A v \in Workers : (Holds(v)' <=> Holds(v)) /\ (Holds(v) => worker'[v] = worker[v])
    BY <1>1 DEF Finish, Holds, Shapes, IdleWorker
  <1> QED
    BY <1>1, <1>2, FrameRests

LEMMA PopFrame ==
  ASSUME MTAssumption, IInv, InFrame, EndTold, NEW from, NEW at, Frame(from, at), NEW w \in Workers, Pop(w)
  PROVE  Frame(from, at)'
  <1>0. Shapes /\ JobsPosted /\ HeldApart /\ Live
    BY DEF IInv, InFrame, EndTold, Live
  <1>1. /\ UNCHANGED <<mt, jobs, round, serial, taken, out, caller>>
        /\ worker[w].at = "idle" /\ queued # None /\ queued' = None
        /\ worker' = [worker EXCEPT ![w] = [IdleWorker EXCEPT !.at = "begin", !.slot = queued]]
    BY DEF Pop, CallerWaits
  <1>2. /\ worker'[w].at = "begin" /\ worker'[w].slot = queued /\ worker'[w].chunk = 0
        /\ \A v \in Workers \ {w} : worker'[v] = worker[v]
    BY <1>0, <1>1 DEF IdleWorker, Shapes
  <1>3. PICK j \in Posted : queued = Slot(j)
    BY <1>0, <1>1 DEF IInv, HeldPosted
  <1>4. MadeTo' = MadeTo /\ Made' = Made /\ Posted' = Posted /\ (\A i : Slot(i)' = Slot(i))
    BY <1>1, Unmoved
  <1>5. (\A i : Of(i)' = Of(i)) /\ (Sound' <=> Sound)
    BY <1>1, <1>4 DEF Of, Sound
  <1>6. Posted \subseteq Made /\ Made \subseteq Nat
    BY <1>0, MadeIs
  <1>7. ASSUME NEW i \in Posted, NEW v \in Workers, HeldBy(i, v)'
        PROVE  (v = w /\ i = j) \/ (HeldBy(i, v) /\ worker'[v] = worker[v])
    <2>1. CASE v = w
      BY <1>0, <1>2, <1>3, <1>4, <1>6, <1>7, <2>1, MadeDiffer DEF HeldBy
    <2>2. CASE v # w
      BY <1>2, <1>4, <1>7, <2>2 DEF HeldBy, Holds
    <2> QED
      BY <2>1, <2>2
  <1>8. ASSUME NEW i \in Posted, Nobodys(i)' PROVE Nobodys(i)
    <2>1. i # j
      <3>1. HeldBy(j, w)'
        BY <1>2, <1>3, <1>4 DEF HeldBy, Holds
      <3> QED
        BY <1>8, <3>1 DEF Nobodys
    <2>2. queued # Slot(i)
      BY <1>0, <1>3, <1>6, <2>1, MadeDiffer
    <2>3. ASSUME NEW v \in Workers, HeldBy(i, v) PROVE FALSE
      <3>1. v # w
        BY <1>1, <2>3 DEF HeldBy, Holds
      <3>2. HeldBy(i, v)'
        BY <1>2, <1>4, <2>3, <3>1 DEF HeldBy, Holds
      <3> QED
        BY <1>8, <3>2 DEF Nobodys
    <2> QED
      BY <2>2, <2>3 DEF Nobodys
  <1>9. Slot(j) # None
    <2>1. Slot(j) \in Slots
      BY <1>0, <1>6, KeptSlots
    <2> QED
      BY <1>1, <1>3
  <1>10. \A i \in Posted : Slot(i) # None
    <2>1. \A i \in Posted : Slot(i) \in Slots
      BY <1>0, <1>6, KeptSlots
    <2> QED
      BY <2>1 DEF Slots, None
  <1>11. Placed(from, at)' /\ AfterEnd' /\ FlushedTo(at)' /\ Sources(from)' /\ Outputs(at)'
    <2>1. Placed(from, at)'
      BY <1>1, <1>4, <1>5 DEF Frame, Placed
    <2>2. AfterEnd'
      BY <1>1, <1>4 DEF Frame, AfterEnd
    <2>3. PICK d : d = mt.doneJobID
      OBVIOUS
    <2>4. FlushedTo(at)'
      BY <1>1, <1>4, <1>5, <2>3 DEF Frame, FlushedTo
    <2>5. \A i \in Made : Unfinished(Slot(i))' => Unfinished(Slot(i))
      BY <1>1, <1>4 DEF Unfinished
    <2>6. Sources(from)'
      BY <1>1, <1>4, <1>5, <2>5 DEF Frame, Sources
    <2> QED
      BY <1>1, <1>4, <1>5, <2>1, <2>2, <2>4, <2>6 DEF Frame, Outputs
  <1>12. Holders(at)'
    <2> SUFFICES ASSUME NEW i \in Posted, NEW v \in Workers, HeldBy(i, v)'
                 PROVE  HeldAs(at, taken, i, Of(i), worker'[v])
      BY <1>1, <1>4, <1>5 DEF Holders
    <2>1. CASE v = w /\ i = j
      <3>1. Untouched(j, Of(j)) /\ ~Of(j).error
        BY <1>3 DEF Frame, Waiting
      <3> QED
        BY <1>2, <2>1, <3>1 DEF HeldAs
    <2>2. CASE HeldBy(i, v) /\ worker'[v] = worker[v]
      BY <2>2 DEF Frame, Holders
    <2> QED
      BY <1>7, <2>1, <2>2
  <1>13. Waiting'
    <2>1. PICK n : n = mt.nextJobID
      OBVIOUS
    <2> QED
      BY <1>1, <1>4, <1>5, <1>10, <2>1 DEF Frame, Waiting
  <1>14. AllDone(at)'
    BY <1>1, <1>4, <1>5, <1>8 DEF Frame, AllDone
  <1>15. InTurn(from)'
    <2> SUFFICES ASSUME Sound PROVE InTurn(from)'
      BY <1>5 DEF InTurn
    <2>1. ASSUME NEW i \in Posted, NEW v \in Workers, HeldBy(i, v)'
          PROVE  /\ worker'[v].at \in TurnToCome => serial.nextJobID <= i
                 /\ worker'[v].at \in TurnTaken => serial.nextJobID > i
      <3>1. CASE v = w /\ i = j
        BY <1>2, <1>3, <3>1 DEF Frame, InTurn, TurnTaken
      <3>2. CASE HeldBy(i, v) /\ worker'[v] = worker[v]
        BY <3>2 DEF Frame, InTurn
      <3> QED
        BY <1>7, <2>1, <3>1, <3>2
    <2>2. \A i \in Posted : Nobodys(i)' => serial.nextJobID > i \/ Of(i).src.size = 0
      BY <1>8 DEF Frame, InTurn
    <2>3. /\ serial.nextJobID <= mt.nextJobID /\ serial.hashed = from[serial.nextJobID]
          /\ ~mt.frameEnded \/ mt.doneJobID < MadeTo => mt.doneJobID <= serial.nextJobID
      BY DEF Frame, InTurn
    <2> QED
      BY <1>1, <1>4, <1>5, <1>10, <2>1, <2>2, <2>3 DEF InTurn
  <1>16. WindowHolds'
    BY <1>1, <1>5, WindowStays DEF Frame
  <1> QED
    BY <1>11, <1>12, <1>13, <1>14, <1>15, <1>16 DEF Frame

LEMMA PlaceIs ==
  ASSUME NEW from, NEW at, Frame(from, at), NEW j \in Nat, JobPlaced(from, at, taken, j, Of(j)), IsJob(Of(j))
  PROVE  /\ from[j] \in Nat /\ from[j + 1] \in Nat /\ at[j] \in Nat /\ at[j + 1] \in Nat
         /\ j = 0 => from[j] = 0 /\ at[j] = 0
         /\ j > 0 => at[j] = from[j] + 1
         /\ Of(j).src.size \in Nat /\ from[j] + Of(j).src.size = from[j + 1] /\ from[j + 1] <= taken
         /\ at[j + 1] = from[j + 1] + 1 + (IF Of(j).lastJob THEN 2 ELSE 0)
         /\ Of(j).jobID = j /\ Of(j).lastJob \in BOOLEAN
  <1>1. from \in [Nat -> Nat] /\ at \in [Nat -> Nat] /\ from[0] = 0 /\ at[0] = 0 /\ j + 1 \in Nat
    BY DEF Frame, Placed
  <1>2. Of(j).src.size \in Nat
    BY DEF IsJob, Ranges
  <1> QED
    BY <1>1, <1>2 DEF JobPlaced

LEMMA SourceIs ==
  ASSUME IInv, NEW from, NEW at, Frame(from, at), NEW j \in Made, Unfinished(Slot(j))
  PROVE  /\ Of(j).src.start \in Nat
         /\ \A x \in Of(j).src.start .. End(Of(j).src) - 1 : round[x] = from[j] + 1 + x - Of(j).src.start
  <1>1. Shapes /\ JobsPosted /\ KeptIntact
    BY DEF IInv
  <1>2. j \in Kept
    BY <1>1, MadeIs DEF Made, MadeTo, Kept
  <1>3. Of(j).src.start \in Nat
    BY <1>1, <1>2 DEF KeptIntact, KeptAt, Of
  <1> QED
    BY <1>3 DEF Frame, Sources

LEMMA PartOfBytes ==
  ASSUME NEW s \in Int, NEW z \in Int, NEW f \in Int, NEW p \in Nat, NEW n \in Int, p + n <= z,
         \A x \in s .. s + z - 1 : round[x] = f + 1 + x - s
  PROVE  \A x \in s + p .. (s + p) + n - 1 : round[x] = (f + 1 + p) + x - (s + p)
  OBVIOUS

\* What a worker makes of n bytes behind its first c chunks.
LEMMA ChunkReads ==
  ASSUME MTAssumption, IInv, NEW from, NEW at, Frame(from, at), taken \in Nat,
         NEW j \in Posted, j \in Nat, JobPlaced(from, at, taken, j, Of(j)), IsJob(Of(j)),
         NEW c \in Nat, Halfway(j, Of(j), c), Reads(taken, Of(j).cdata, at[j]),
         NEW n \in Nat, ChunksOf(c) + n <= Of(j).src.size, n > 0 => Unfinished(Slot(j)),
         NEW b, b = IF n > 0 THEN Bytes([start |-> Of(j).src.start + ChunksOf(c), size |-> n]) ELSE <<>>
  PROVE  /\ Reads(taken, First(Of(j), c), at[j] + Len(Of(j).cdata))
         /\ Reads(taken, b, at[j] + Len(Of(j).cdata) + Len(First(Of(j), c)))
         /\ Len(b) = n /\ Len(First(Of(j), c)) \in Nat /\ Len(Of(j).cdata) \in Nat
         /\ Len(Of(j).cdata) + Len(First(Of(j), c)) = (IF j = 0 THEN 1 ELSE 0) + ChunksOf(c)
         /\ ChunksOf(c) \in Nat
  <1> DEFINE J == Of(j)  a == at[j] + Len(J.cdata)  p == ChunksOf(c)
  <1>1. p \in Nat
    BY Constants DEF ChunksOf
  <1>2. /\ from[j] \in Nat /\ at[j] \in Nat /\ (j = 0 => from[j] = 0 /\ at[j] = 0) /\ (j > 0 => at[j] = from[j] + 1)
        /\ J.src.size \in Nat /\ from[j] + J.src.size <= taken /\ J.jobID = j
    BY PlaceIs
  <1>3. Len(J.cdata) = Lead(j, c) + p /\ Len(J.cdata) \in Nat
    BY <1>1 DEF Halfway, Lead
  <1> HIDE DEF p
  <1>4. /\ Reads(taken, First(J, c), a) /\ Len(First(J, c)) \in Nat
        /\ Len(J.cdata) + Len(First(J, c)) = (IF j = 0 THEN 1 ELSE 0) + p
    <2>1. CASE c = 0 /\ j = 0
      <3>1. First(J, c) = <<Header>> /\ a = 0 /\ p = 0
        <4>1. p = 0
          BY <2>1, Constants DEF p, ChunksOf
        <4>2. First(J, c) = <<Header>>
          BY <1>2, <2>1 DEF First
        <4>3. Len(J.cdata) = 0
          BY <1>3, <2>1, <4>1 DEF Lead
        <4> HIDE DEF J
        <4> QED
          BY <1>2, <2>1, <4>1, <4>2, <4>3
      <3>2. Header = SymbolAt(taken, 0 + 1) /\ Header \in Int
        BY DEF SymbolAt, Header
      <3>3. Reads(taken, <<Header>>, 0) /\ Len(<<Header>>) = 1
        BY <3>2 DEF Reads
      <3> HIDE DEF J, a
      <3> QED
        BY <1>3, <2>1, <3>1, <3>3 DEF Lead
    <2>2. CASE ~(c = 0 /\ j = 0)
      <3>1. First(J, c) = <<>>
        BY <1>2, <2>2 DEF First
      <3> HIDE DEF J, a
      <3> QED
        BY <1>1, <1>3, <2>2, <3>1, ReadsNothing DEF Lead
    <2> QED
      BY <2>1, <2>2
  <1>5. a + Len(First(J, c)) = from[j] + 1 + p
    BY <1>1, <1>2, <1>3, <1>4
  <1>6. Reads(taken, b, a + Len(First(J, c))) /\ Len(b) = n
    <2>1. CASE n = 0
      BY <2>1, ReadsNothing
    <2>2. CASE n > 0
      <3> DEFINE r == [start |-> J.src.start + p, size |-> n]
      <3>1. J.src.start \in Nat /\ \A x \in J.src.start .. End(J.src) - 1 : round[x] = from[j] + 1 + x - J.src.start
        <4>1. j \in Made
          BY MadeIs DEF IInv
        <4> QED
          BY <2>2, <4>1, SourceIs
      <3>2. r.start = J.src.start + p /\ r.size = n /\ End(r) = (J.src.start + p) + n /\ p + n <= J.src.size
            /\ End(J.src) = J.src.start + J.src.size
        BY <3>1 DEF End, p
      <3>3. \A x \in r.start .. End(r) - 1 : round[x] = (from[j] + 1 + p) + x - r.start
        <4>1. PICK s, z, f : s = J.src.start /\ z = J.src.size /\ f = from[j]
          OBVIOUS
        <4>2. s \in Int /\ z \in Int /\ f \in Int /\ p + n <= z
          BY <1>2, <3>1, <3>2, <4>1
        <4>3. \A x \in s .. s + z - 1 : round[x] = f + 1 + x - s
          <5> SUFFICES ASSUME NEW x \in s .. s + z - 1 PROVE round[x] = f + 1 + x - s
            OBVIOUS
          <5>1. x \in J.src.start .. End(J.src) - 1
            <6>1. End(J.src) = J.src.start + J.src.size
              BY <3>2
            <6>2. End(J.src) = s + z
              BY <4>1, <6>1
            <6> HIDE DEF J
            <6>3. J.src.start = s
              BY <4>1
            <6> QED
              BY <4>2, <6>2, <6>3
          <5> QED
            BY <3>1, <4>1, <5>1
        <4>4. \A x \in s + p .. (s + p) + n - 1 : round[x] = (f + 1 + p) + x - (s + p)
          BY <1>1, <4>2, <4>3, PartOfBytes
        <4>5. r.start = s + p /\ End(r) = (s + p) + n /\ from[j] = f
          BY <3>2, <4>1
        <4> HIDE DEF r
        <4> QED
          BY <1>1, <4>2, <4>4, <4>5
      <3>4. from[j] + 1 + p \in Int /\ (from[j] + 1 + p) + r.size <= taken + 1
        <4> HIDE DEF r, J, a
        <4>1. from[j] \in Nat /\ J.src.size \in Nat /\ from[j] + J.src.size <= taken
          BY <1>2
        <4>2. p \in Nat /\ r.size = n /\ p + n <= J.src.size /\ n \in Nat
          BY <1>1, <3>2
        <4>3. PICK f \in Nat, z \in Nat, t \in Nat : f = from[j] /\ z = J.src.size /\ t = taken
          BY <4>1
        <4>4. f + z <= t /\ p + n <= z
          BY ONLY <4>1, <4>2, <4>3
        <4>5. f + 1 + p \in Int /\ (f + 1 + p) + n <= t + 1
          BY ONLY <4>2, <4>3, <4>4
        <4> QED
          BY ONLY <4>2, <4>3, <4>5
      <3>5. b = Bytes(r)
        BY <2>2 DEF p
      <3> HIDE DEF r, J, a
      <3>6. Reads(taken, Bytes(r), from[j] + 1 + p) /\ Len(Bytes(r)) = r.size
        <4>1. r.start \in Int /\ r.size \in Nat
          BY <1>1, <3>1, <3>2
        <4> QED
          BY <3>3, <3>4, <4>1, ReadsBytes
      <3> QED
        BY <1>5, <3>2, <3>5, <3>6
    <2> QED
      BY <2>1, <2>2
  <1> QED
    BY <1>1, <1>3, <1>4, <1>6 DEF p

LEMMA NextChunk ==
  ASSUME MTAssumption, NEW c \in Nat
  PROVE  ChunksOf(c) \in Nat /\ ChunksOf(c + 1) = ChunksOf(c) + chunkSize /\ ChunksOf(c + 1) = chunkSize * (c + 1)
         /\ ChunksOf(c) = chunkSize * c
  BY Constants DEF ChunksOf

LEMMA ChunkFrame ==
  ASSUME MTAssumption, IInv, InFrame, EndTold, taken \in Nat, NEW from, NEW at, Frame(from, at),
         NEW w \in Workers, CompressChunk(w)
  PROVE  Frame(from, at)'
  <1>1. worker[w].at = "compress" /\ CallerWaits /\ serial' = serial /\ WorkStep(w)
    BY WorkerSteps DEF IInv, CompressChunk
  <1>2. PICK j \in Posted :
          /\ j \in Nat /\ HeldBy(j, w) /\ worker[w].slot = Slot(j) /\ Slot(j) \in Slots
          /\ Job(w) = Of(j) /\ Of(j) = jobs[Slot(j)] /\ Of(j)' = jobs'[Slot(j)] /\ IsJob(Of(j))
          /\ JobPlaced(from, at, taken, j, Of(j)) /\ Output(at, taken, j, Of(j))
          /\ HeldAs(at, taken, j, Of(j), worker[w])
    BY <1>1, AtWork
  <1>3. /\ Holds(w) /\ out' = out /\ worker = [v \in Workers |-> worker[v]] /\ IsWorker(worker[w])
        /\ jobs = [s \in Slots |-> jobs[s]]
    BY <1>1, AtWork
  <1> DEFINE c == worker[w].chunk
             J == Of(j)
             b == Bytes(ChunkOf(J, c))
             d == (J.cdata \o First(J, c)) \o b
             n == chunkSize * (c + 1)
             k == [J EXCEPT !.cdata = d, !.consumed = n]
  <1>4. worker'[w].at = "compress" /\ worker'[w].chunk = c + 1 /\ Holds(w)' /\ c \in Nat
    BY <1>1, <1>3 DEF CompressChunk, IsWorker, Holds
  <1>5. jobs' = [jobs EXCEPT ![Slot(j)] = k]
    BY <1>2, <1>3 DEF CompressChunk
  <1>6. c + 1 < (J.src.size + chunkSize - 1) \div chunkSize
    BY <1>2 DEF CompressChunk, nbChunks
  <1> HIDE DEF c, d, n
  <1>7. /\ k.jobID = J.jobID /\ k.lastJob = J.lastJob /\ k.dstFlushed = J.dstFlushed /\ k.error = J.error
        /\ k.cdata = d /\ k.src = J.src /\ k.consumed = n /\ k.frameChecksumNeeded = J.frameChecksumNeeded
    BY <1>2 DEF IsJob
  <1> HIDE DEF k
  <1>8. ASSUME ~J.error
        PROVE  /\ Reads(taken, d, at[j]) /\ Len(d) <= Share(at, j) /\ Len(J.cdata) <= Len(d)
               /\ Halfway(j, k, c + 1)
    <2>1. /\ from[j] \in Nat /\ from[j + 1] \in Nat /\ at[j] \in Nat /\ at[j + 1] \in Nat
          /\ (j = 0 => from[j] = 0 /\ at[j] = 0) /\ (j > 0 => at[j] = from[j] + 1)
          /\ J.src.size \in Nat /\ from[j] + J.src.size = from[j + 1]
          /\ at[j + 1] = from[j + 1] + 1 + (IF J.lastJob THEN 2 ELSE 0)
      BY <1>2, PlaceIs
    <2>2. Halfway(j, J, c) /\ Reads(taken, J.cdata, at[j])
      BY <1>1, <1>2, <1>8 DEF HeldAs, Output, c
    <2>3. /\ ChunksOf(c) \in Nat /\ ChunksOf(c + 1) = ChunksOf(c) + chunkSize /\ n = ChunksOf(c + 1)
          /\ chunkSize \in Nat \ {0}
      <3>1. ChunksOf(c) \in Nat /\ ChunksOf(c + 1) = ChunksOf(c) + chunkSize /\ ChunksOf(c + 1) = chunkSize * (c + 1)
        BY <1>4, NextChunk
      <3>2. n = chunkSize * (c + 1)
        BY DEF n
      <3> QED
        BY <3>1, <3>2, Constants
    <2>4. n < J.src.size
      <3>1. c + 1 \in Nat /\ chunkSize \in Nat \ {0}
        BY <1>4, <2>3
      <3> QED
        BY <1>6, <2>1, <3>1, ChunkInside DEF n
    <2>5. ChunksOf(c) + chunkSize < J.src.size
      BY <2>3, <2>4
    <2>6. b = Bytes([start |-> J.src.start + ChunksOf(c), size |-> chunkSize])
      <3>1. Least(chunkSize, J.src.size - ChunksOf(c)) = chunkSize
        BY <2>1, <2>3, <2>5 DEF Least
      <3> QED
        BY <3>1 DEF ChunkOf, ChunksOf
    <2>7. Unfinished(Slot(j))
      <3>1. J.src.size # 0
        BY <2>1, <2>3, <2>5
      <3> QED
        BY <1>2, <1>3, <3>1 DEF IInv, HeldApart
    <2> HIDE DEF b
    <2>0. at[j] \in Int /\ chunkSize \in Nat /\ chunkSize > 0
      BY <2>1, <2>3
    <2>8. /\ Reads(taken, First(J, c), at[j] + Len(J.cdata))
          /\ Reads(taken, b, at[j] + Len(J.cdata) + Len(First(J, c)))
          /\ Len(b) = chunkSize /\ Len(First(J, c)) \in Nat /\ Len(J.cdata) \in Nat
          /\ Len(J.cdata) + Len(First(J, c)) = (IF j = 0 THEN 1 ELSE 0) + ChunksOf(c)
      <3>1. ChunksOf(c) + chunkSize <= J.src.size /\ chunkSize > 0
        BY <2>1, <2>3, <2>5
      <3>2. b = IF chunkSize > 0 THEN Bytes([start |-> J.src.start + ChunksOf(c), size |-> chunkSize]) ELSE <<>>
        BY <2>6, <3>1
      <3> QED
        <4>1. j \in Posted /\ j \in Nat /\ JobPlaced(from, at, taken, j, Of(j)) /\ IsJob(Of(j))
          BY <1>2
        <4>2. chunkSize > 0 => Unfinished(Slot(j))
          BY <2>7
        <4>3. c \in Nat /\ Halfway(j, Of(j), c) /\ Reads(taken, Of(j).cdata, at[j]) /\ chunkSize \in Nat
          BY <1>4, <2>0, <2>2
        <4>4. ChunksOf(c) + chunkSize <= Of(j).src.size
          BY <3>1
        <4> HIDE DEF J
        <4>5. b = IF chunkSize > 0 THEN Bytes([start |-> Of(j).src.start + ChunksOf(c), size |-> chunkSize]) ELSE <<>>
          BY <3>2 DEF J
        <4>6. /\ Reads(taken, First(Of(j), c), at[j] + Len(Of(j).cdata))
              /\ Reads(taken, b, at[j] + Len(Of(j).cdata) + Len(First(Of(j), c)))
              /\ Len(b) = chunkSize /\ Len(First(Of(j), c)) \in Nat /\ Len(Of(j).cdata) \in Nat
              /\ Len(Of(j).cdata) + Len(First(Of(j), c)) = (IF j = 0 THEN 1 ELSE 0) + ChunksOf(c)
          BY <4>1, <4>2, <4>3, <4>4, <4>5, ChunkReads
        <4> QED
          BY <4>6 DEF J
    <2> DEFINE e == J.cdata \o First(J, c)
    <2>9. Reads(taken, e, at[j]) /\ Len(e) = Len(J.cdata) + Len(First(J, c))
      BY <2>0, <2>2, <2>8, ReadsOn
    <2>10. d = e \o b
      BY DEF d
    <2> HIDE DEF e
    <2>11. Reads(taken, b, at[j] + Len(e))
      <3>0. at[j] \in Int /\ Len(J.cdata) \in Int /\ Len(First(J, c)) \in Int
        BY <2>1, <2>8
      <3>1. PICK x \in Int, y \in Int, z \in Int : x = at[j] /\ y = Len(J.cdata) /\ z = Len(First(J, c))
        BY ONLY <3>0
      <3>2. x + y + z = x + (y + z)
        OBVIOUS
      <3>3. at[j] + Len(J.cdata) + Len(First(J, c)) = at[j] + Len(e)
        BY ONLY <2>9, <3>1, <3>2
      <3> QED
        BY <2>8, <3>3
    <2>12. Reads(taken, d, at[j]) /\ Len(d) = Len(e) + Len(b)
      BY <2>0, <2>9, <2>10, <2>11, ReadsOn
    <2>13. Len(d) = (IF j = 0 THEN 1 ELSE 0) + ChunksOf(c) + chunkSize /\ Len(d) \in Nat
      BY <2>3, <2>8, <2>9, <2>12
    <2>14. Len(J.cdata) <= Len(d)
      BY <2>3, <2>8, <2>13
    <2>15. Len(d) <= Share(at, j)
      <3> HIDE DEF J
      <3>1. at[j + 1] - at[j] >= (IF j = 0 THEN 1 ELSE 0) + J.src.size
        BY <1>2, <2>1
      <3> QED
        BY <2>1, <2>3, <2>5, <2>13, <3>1 DEF Share
    <2>16. Halfway(j, k, c + 1)
      <3>1. ChecksumToCome(j, k)
        BY <1>7, <2>2 DEF Halfway, ChecksumToCome, J
      <3>2. k.consumed = ChunksOf(c + 1) /\ ChunksOf(c + 1) < k.src.size
        BY <1>7, <2>3, <2>4 DEF J
      <3>3. Len(k.cdata) = Lead(j, c + 1) + ChunksOf(c + 1)
        BY <1>4, <1>7, <2>3, <2>13 DEF Lead
      <3> QED
        BY <3>1, <3>2, <3>3 DEF Halfway
    <2> QED
      BY <2>12, <2>14, <2>15, <2>16
  <1>9. jobs'[Slot(j)] = k /\ \A r \in Slots : SameOutput(r)
    <2>1. ~k.error => ~jobs[Slot(j)].error /\ Len(jobs[Slot(j)].cdata) <= Len(k.cdata)
      BY <1>2, <1>7, <1>8
    <2> HIDE DEF J
    <2> QED
      BY <1>2, <1>3, <1>5, <1>7, <2>1, OneSlot DEF J
  <1>10. JobAfter(at, j, w)
    <2>1. Of(j)' = k
      BY <1>2, <1>9
    <2>2. Output(at, taken, j, k)
      BY <1>2, <1>7, <1>8 DEF Output
    <2>3. HeldAs(at, taken, j, k, worker'[w])
      BY <1>4, <1>7, <1>8 DEF HeldAs
    <2> QED
      BY <1>4, <2>1, <2>2, <2>3 DEF JobAfter
  <1> QED
    BY <1>1, <1>2, <1>3, <1>4, <1>9, <1>10, WorkOn DEF TurnToCome, TurnTaken

\* Behind the chunk that is not followed by another one, nothing is left.
LEMMA LastChunk ==
  ASSUME MTAssumption, NEW z \in Nat, NEW c \in Nat, c + 1 >= (z + chunkSize - 1) \div chunkSize
  PROVE  z <= ChunksOf(c) + chunkSize
  <1> DEFINE q == (z + chunkSize - 1) \div chunkSize
             r == (z + chunkSize - 1) % chunkSize
  <1>0. chunkSize \in Nat /\ chunkSize > 0
    BY Constants
  <1>1. q \in Int /\ r \in 0 .. chunkSize - 1 /\ z + chunkSize - 1 = chunkSize * q + r
    BY <1>0
  <1>2. q \in Nat
    BY <1>0
  <1>3. chunkSize * q <= chunkSize * (c + 1)
    BY <1>0, <1>2, ProductsGrow
  <1>4. chunkSize * (c + 1) = ChunksOf(c) + chunkSize /\ ChunksOf(c) \in Nat
    BY NextChunk
  <1>5. chunkSize * q \in Int
    BY <1>0, <1>2
  <1>6. PICK p \in Int : p = chunkSize * q
    BY <1>5
  <1>7. PICK s \in Int : s = chunkSize * (c + 1)
    BY <1>4, <1>0
  <1> HIDE DEF q, r
  <1>8. z + chunkSize - 1 < p + chunkSize /\ p <= s
    BY <1>0, <1>1, <1>3, <1>6, <1>7
  <1>9. z <= s
    BY <1>0, <1>8
  <1> QED
    BY <1>4, <1>7, <1>9

\* The last job ends where the input ends.
LEMMA LastPlace ==
  ASSUME IInv, NEW from, NEW at, Frame(from, at), NEW j \in Made, Of(j).lastJob
  PROVE  from[j + 1] = taken
  <1>1. /\ mt.frameEnded /\ j = MadeTo - 1 /\ from[MadeTo] = taken - mt.filled
    BY DEF Frame, Placed
  <1>2. mt.filled = 0 /\ taken \in Int /\ MadeTo \in Nat
    BY <1>1, MadeIs DEF Frame, AfterEnd, IInv, Shapes
  <1> QED
    BY <1>1, <1>2

\* What a worker makes of the end of its job.
BytesLeft(J, c) == IF J.src.size > 0 THEN Bytes(ChunkOf(J, c)) ELSE <<>>
BlockAtEnd(J)   == IF J.lastJob THEN <<LastBlock>> ELSE <<>>
SumAtEnd(J)     == IF J.lastJob /\ J.jobID = 0 THEN <<Checksum(Hash(0, Bytes(J.src)))>> ELSE <<>>
TailOf(J, c)    == First(J, c) \o BytesLeft(J, c) \o BlockAtEnd(J) \o SumAtEnd(J)

LEMMA TailReads ==
  ASSUME MTAssumption, IInv, NEW from, NEW at, Frame(from, at), taken \in Nat,
         NEW j \in Posted, j \in Nat, JobPlaced(from, at, taken, j, Of(j)), IsJob(Of(j)),
         NEW c \in Nat, Halfway(j, Of(j), c), Reads(taken, Of(j).cdata, at[j]),
         Of(j).src.size = 0 \/ Unfinished(Slot(j)),
         c + 1 >= nbChunks(Of(j))
  PROVE  Ending(at, taken, j, Of(j), TailOf(Of(j), c))
  <1>0. j \in Made
    BY MadeIs DEF IInv
  <1> DEFINE J == Of(j)  m == J.src.size - ChunksOf(c)  f == First(J, c)
             b == BytesLeft(J, c)  l == BlockAtEnd(J)  h == SumAtEnd(J)
  <1>1. /\ from[j] \in Nat /\ from[j + 1] \in Nat /\ at[j] \in Nat /\ at[j + 1] \in Nat
        /\ (j = 0 => from[j] = 0 /\ at[j] = 0) /\ (j > 0 => at[j] = from[j] + 1)
        /\ J.src.size \in Nat /\ from[j] + J.src.size = from[j + 1]
        /\ at[j + 1] = from[j + 1] + 1 + (IF J.lastJob THEN 2 ELSE 0)
        /\ J.jobID = j /\ J.lastJob \in BOOLEAN
    BY PlaceIs
  <1>2. ChunksOf(c) \in Nat /\ chunkSize \in Nat /\ (c = 0 => ChunksOf(c) = 0)
    BY NextChunk, Constants DEF ChunksOf
  <1>3. c = 0 \/ ChunksOf(c) < J.src.size
    BY DEF Halfway
  <1>4. m \in Nat /\ m <= chunkSize /\ ChunksOf(c) + m = J.src.size /\ (m > 0 <=> J.src.size > 0)
    <2>1. J.src.size <= ChunksOf(c) + chunkSize
      BY <1>1, LastChunk DEF nbChunks
    <2> HIDE DEF J
    <2> QED
      BY <1>1, <1>2, <1>3, <2>1
  <1>5. b = IF m > 0 THEN Bytes([start |-> J.src.start + ChunksOf(c), size |-> m]) ELSE <<>>
    <2>1. Least(chunkSize, m) = m
      BY <1>2, <1>4 DEF Least
    <2>2. ChunkOf(J, c) = [start |-> J.src.start + ChunksOf(c), size |-> m]
      BY <2>1 DEF ChunkOf, ChunksOf
    <2> QED
      BY <1>4, <2>2 DEF BytesLeft
  <1>6. /\ Reads(taken, f, at[j] + Len(J.cdata))
        /\ Reads(taken, b, at[j] + Len(J.cdata) + Len(f))
        /\ Len(b) = m /\ Len(f) \in Nat /\ Len(J.cdata) \in Nat
        /\ Len(J.cdata) + Len(f) = (IF j = 0 THEN 1 ELSE 0) + ChunksOf(c)
    <2>1. m > 0 => Unfinished(Slot(j))
      BY <1>1, <1>4
    <2>2. ChunksOf(c) + m <= Of(j).src.size /\ m \in Nat
      BY <1>1, <1>4
    <2> HIDE DEF m, b, l, h
    <2>3. b = IF m > 0 THEN Bytes([start |-> Of(j).src.start + ChunksOf(c), size |-> m]) ELSE <<>>
      BY <1>5
    <2> QED
      BY <2>1, <2>2, <2>3, ChunkReads
  <1> HIDE DEF m, f, b, l, h
  <1> DEFINE a == at[j] + Len(J.cdata)  g == f \o b
  <1>7. a \in Int /\ Reads(taken, g, a) /\ Len(g) = Len(f) + m
    <2>1. a \in Int
      <3>1. at[j] \in Int /\ Len(J.cdata) \in Int
        BY <1>1, <1>6
      <3> QED
        BY ONLY <3>1
    <2> HIDE DEF a
    <2>2. Reads(taken, f, a) /\ Reads(taken, b, a + Len(f))
      BY <1>6 DEF a
    <2>3. taken \in Nat
      OBVIOUS
    <2>4. Reads(taken, f \o b, a) /\ Len(f \o b) = Len(f) + Len(b)
      BY ONLY <2>1, <2>2, <2>3, ReadsOn
    <2> QED
      BY <1>6, <2>1, <2>4
  <1>8. a + Len(g) = from[j + 1] + 1 /\ Len(g) \in Nat
    <2> HIDE DEF J, g
    <2>1. PICK i \in Int : i = IF j = 0 THEN 1 ELSE 0
      OBVIOUS
    <2>2. at[j] + i = from[j] + 1 /\ at[j] \in Int /\ from[j] \in Int
      BY <1>1, <2>1
    <2>3. Len(g) \in Nat
      BY <1>4, <1>6, <1>7
    <2>4. Len(J.cdata) + Len(f) = i + ChunksOf(c) /\ Len(J.cdata) \in Int /\ Len(f) \in Int
      BY <1>6, <2>1
    <2>5. ChunksOf(c) + m = J.src.size /\ ChunksOf(c) \in Int /\ m \in Int
      BY <1>2, <1>4
    <2>6. from[j] + J.src.size = from[j + 1] /\ J.src.size \in Int /\ from[j + 1] \in Int
      BY <1>1
    <2>7. Len(g) = Len(f) + m
      BY <1>7
    <2>8. PICK A \in Int, H \in Int, Z \in Int : A = at[j] /\ H = from[j] /\ Z = J.src.size
      BY <2>2, <2>6
    <2>12. PICK F \in Int, C \in Int : F = Len(f) /\ C = Len(J.cdata)
      BY <2>4
    <2>14. PICK G \in Nat : G = Len(g)
      BY <2>3
    <2>13. PICK L \in Int, M \in Int : L = ChunksOf(c) /\ M = m
      BY <2>5
    <2>9. A + i = H + 1 /\ C + F = i + L /\ L + M = Z /\ G = F + M /\ from[j + 1] = H + Z
      BY <2>2, <2>4, <2>5, <2>6, <2>7, <2>8, <2>12, <2>13, <2>14
    <2>10. A + C + G = H + Z + 1
      BY <2>9
    <2>11. a + Len(g) = A + C + G
      BY <2>8, <2>12, <2>14
    <2> QED
      BY <2>3, <2>8, <2>9, <2>10, <2>11
  <1> HIDE DEF a, g
  <1>9. Reads(taken, l, a + Len(g)) /\ Len(l) = IF J.lastJob THEN 1 ELSE 0
    <2>1. CASE J.lastJob
      <3>1. a + Len(g) = taken + 1
        BY <1>0, <1>8, <2>1, LastPlace
      <3>2. LastBlock = SymbolAt(taken, taken + 1 + 1) /\ LastBlock \in Int
        BY DEF SymbolAt, LastBlock
      <3>3. Reads(taken, <<LastBlock>>, taken + 1) /\ Len(<<LastBlock>>) = 1
        BY <3>2, ReadsOne
      <3> QED
        BY <2>1, <3>1, <3>3 DEF l, BlockAtEnd
    <2>2. CASE ~J.lastJob
      BY <2>2, ReadsNothing DEF l, BlockAtEnd
    <2> QED
      BY <2>1, <2>2
  <1> DEFINE u == g \o l
  <1>10. Reads(taken, u, a) /\ Len(u) = Len(g) + Len(l)
    <2>1. taken \in Nat
      OBVIOUS
    <2>2. a \in Int /\ Reads(taken, g, a) /\ Reads(taken, l, a + Len(g))
      BY <1>7, <1>9
    <2>3. Reads(taken, g \o l, a) /\ Len(g \o l) = Len(g) + Len(l)
      BY ONLY <2>1, <2>2, ReadsOn
    <2> QED
      BY <2>3
  <1> HIDE DEF u
  <1>11. Reads(taken, h, a + Len(u)) /\ Len(h) = IF J.lastJob /\ j = 0 THEN 1 ELSE 0
    <2>1. CASE J.lastJob /\ j = 0
      <3>1. from[j + 1] = taken /\ J.src.size = taken
        <4>1. from[j + 1] = taken
          BY <1>0, <2>1, LastPlace
        <4> HIDE DEF J
        <4> QED
          BY <1>1, <2>1, <4>1
      <3>2. a + Len(u) = taken + 2
        <4>1. a + Len(g) = taken + 1 /\ a \in Int /\ Len(g) \in Int
          BY <1>7, <1>8, <3>1
        <4>2. Len(u) = Len(g) + 1
          BY <1>9, <1>10, <2>1
        <4> HIDE DEF J, l
        <4> QED
          BY <4>1, <4>2
      <3>3. Hash(0, Bytes(J.src)) = J.src.size
        <4>1. J.src.start \in Int
          BY DEF IsJob, Ranges, None
        <4>2. \A x \in J.src.start .. End(J.src) - 1 : round[x] = 0 + 1 + x - J.src.start
          <5>1. CASE J.src.size = 0
            BY <4>1, <5>1 DEF End
          <5>2. CASE Unfinished(Slot(j))
            <6>1. \A x \in J.src.start .. End(J.src) - 1 : round[x] = from[j] + 1 + x - J.src.start
              BY <1>0, <5>2, SourceIs
            <6>2. from[j] = 0
              BY <1>1, <2>1
            <6> QED
              BY <6>1, <6>2
          <5> QED
            BY <5>1, <5>2
        <4>3. Hash(0, Bytes(J.src)) = 0 + J.src.size
          BY <1>1, <4>1, <4>2, HashesBytes
        <4> QED
          BY <1>1, <4>3
      <3>4. h = <<Checksum(taken)>>
        BY <1>1, <2>1, <3>1, <3>3 DEF h, SumAtEnd
      <3>5. Checksum(taken) = SymbolAt(taken, taken + 2 + 1) /\ Checksum(taken) \in Int
        BY DEF SymbolAt, Checksum, BadSum
      <3>6. Reads(taken, <<Checksum(taken)>>, taken + 2) /\ Len(<<Checksum(taken)>>) = 1
        BY <3>5, ReadsOne
      <3> QED
        BY <2>1, <3>2, <3>4, <3>6
    <2>2. CASE ~(J.lastJob /\ j = 0)
      <3>1. h = <<>>
        BY <1>1, <2>2 DEF h, SumAtEnd
      <3> QED
        BY <2>2, <3>1, ReadsNothing
    <2> QED
      BY <2>1, <2>2
  <1>12. Reads(taken, u \o h, a) /\ Len(u \o h) = Len(u) + Len(h)
    <2>1. Reads(taken, u, a) /\ a \in Int
      BY <1>7, <1>10
    <2>2. Reads(taken, h, a + Len(u))
      BY <1>11
    <2>3. taken \in Nat
      OBVIOUS
    <2> QED
      BY ONLY <2>1, <2>2, <2>3, ReadsOn
  <1>13. u \o h = TailOf(J, c)
    BY DEF u, g, f, b, l, h, TailOf
  <1>14. Len(J.cdata) + Len(u \o h) = Produced(at, j, J)
    <2>1. J.frameChecksumNeeded = (J.lastJob /\ j > 0)
      BY DEF Halfway, ChecksumToCome
    <2>2. Len(u \o h) = Len(f) + m + (IF J.lastJob THEN 1 ELSE 0) + (IF J.lastJob /\ j = 0 THEN 1 ELSE 0)
      BY <1>7, <1>9, <1>10, <1>11, <1>12
    <2> HIDE DEF J
    <2>3. Share(at, j) = J.src.size + (IF j = 0 THEN 1 ELSE 0) + (IF J.lastJob THEN 2 ELSE 0)
      BY <1>1 DEF Share
    <2>4. PICK i \in Int, e \in Int, o \in Int :
            /\ i = IF j = 0 THEN 1 ELSE 0
            /\ e = IF J.lastJob THEN 1 ELSE 0
            /\ o = IF J.lastJob /\ j = 0 THEN 1 ELSE 0
      OBVIOUS
    <2>5. Len(J.cdata) + Len(f) = i + ChunksOf(c) /\ Len(J.cdata) \in Int /\ Len(f) \in Int
      BY <1>6, <2>4
    <2>6. ChunksOf(c) + m = J.src.size /\ ChunksOf(c) \in Int /\ m \in Int
      BY <1>2, <1>4
    <2>7. Len(u \o h) = Len(f) + m + e + o
      BY <2>2, <2>4
    <2>8. Len(J.cdata) + Len(u \o h) = i + J.src.size + e + o
      <3>1. PICK F \in Int, C \in Int, L \in Int, M \in Int :
              F = Len(f) /\ C = Len(J.cdata) /\ L = ChunksOf(c) /\ M = m
        BY <2>5, <2>6
      <3>2. C + F = i + L /\ L + M = J.src.size /\ Len(u \o h) = F + M + e + o
        BY <2>5, <2>6, <2>7, <3>1
      <3>3. C + (F + M + e + o) = i + (L + M) + e + o
        BY ONLY <3>2, C \in Int, F \in Int, L \in Int, M \in Int, i \in Int, e \in Int, o \in Int
      <3> QED
        BY <3>1, <3>2, <3>3
    <2>9. Share(at, j) - (IF J.lastJob /\ j > 0 THEN 1 ELSE 0) = i + J.src.size + e + o
      BY <1>1, <2>3, <2>4
    <2> QED
      BY <2>1, <2>8, <2>9 DEF Produced
  <1> QED
    BY <1>12, <1>13, <1>14 DEF Ending, a

LEMMA LastFrame ==
  ASSUME MTAssumption, IInv, InFrame, EndTold, taken \in Nat, NEW from, NEW at, Frame(from, at),
         NEW w \in Workers, CompressLast(w)
  PROVE  Frame(from, at)'
  <1>1. worker[w].at = "compress" /\ CallerWaits /\ serial' = serial /\ jobs' = jobs /\ WorkStep(w)
    BY WorkerSteps DEF IInv, CompressLast
  <1>2. PICK j \in Posted :
          /\ j \in Nat /\ HeldBy(j, w) /\ worker[w].slot = Slot(j) /\ Slot(j) \in Slots
          /\ Job(w) = Of(j) /\ Of(j) = jobs[Slot(j)] /\ Of(j)' = jobs'[Slot(j)] /\ IsJob(Of(j))
          /\ JobPlaced(from, at, taken, j, Of(j)) /\ Output(at, taken, j, Of(j))
          /\ HeldAs(at, taken, j, Of(j), worker[w])
    BY <1>1, AtWork
  <1>3. /\ Holds(w) /\ out' = out /\ worker = [v \in Workers |-> worker[v]] /\ IsWorker(worker[w])
    BY <1>1, AtWork
  <1> DEFINE c == worker[w].chunk  t == TailOf(Of(j), c)
  <1>4. c \in Nat /\ c + 1 >= nbChunks(Of(j)) /\ worker' = [worker EXCEPT ![w].at = "ensure", ![w].tail = t]
    <2>1. t = First(Of(j), c) \o (IF Of(j).src.size > 0 THEN Bytes(ChunkOf(Of(j), c)) ELSE <<>>)
              \o (IF Of(j).lastJob THEN <<LastBlock>> ELSE <<>>)
              \o (IF Of(j).lastJob /\ Of(j).jobID = 0 THEN <<Checksum(Hash(0, Bytes(Of(j).src)))>> ELSE <<>>)
      BY DEF TailOf, BytesLeft, BlockAtEnd, SumAtEnd
    <2> HIDE DEF t
    <2>2. c \in Nat
      BY <1>3 DEF IsWorker
    <2> QED
      BY <1>2, <2>1, <2>2 DEF CompressLast
  <1> HIDE DEF c, t
  <1>5. worker'[w].at = "ensure" /\ worker'[w].tail = t /\ Holds(w)'
    BY <1>3, <1>4 DEF IsWorker, Holds
  <1>6. ASSUME ~Of(j).error
        PROVE  Ending(at, taken, j, Of(j), t)
    <2>1. Halfway(j, Of(j), c) /\ Reads(taken, Of(j).cdata, at[j])
      BY <1>1, <1>2, <1>6 DEF HeldAs, Output, c
    <2>2. Of(j).src.size = 0 \/ Unfinished(Slot(j))
      BY <1>2, <1>3 DEF IInv, HeldApart
    <2> QED
      BY <1>2, <1>4, <2>1, <2>2, TailReads DEF t
  <1>7. JobAfter(at, j, w)
    <2>1. Of(j)' = Of(j)
      BY <1>1, <1>2
    <2>2. HeldAs(at, taken, j, Of(j), worker'[w])
      BY <1>5, <1>6 DEF HeldAs
    <2> QED
      BY <1>2, <1>5, <2>1, <2>2 DEF JobAfter
  <1> QED
    BY <1>1, <1>2, <1>3, <1>5, <1>7, NoSlot, WorkOn DEF TurnToCome, TurnTaken

LEMMA ReportFrame ==
  ASSUME MTAssumption, IInv, InFrame, EndTold, taken \in Nat, NEW from, NEW at, Frame(from, at),
         NEW w \in Workers, Report(w)
  PROVE  Frame(from, at)'
  <1>1. worker[w].at = "report" /\ CallerWaits /\ serial' = serial /\ WorkStep(w)
    BY WorkerSteps DEF IInv, Report
  <1>2. PICK j \in Posted :
          /\ j \in Nat /\ HeldBy(j, w) /\ worker[w].slot = Slot(j) /\ Slot(j) \in Slots
          /\ Job(w) = Of(j) /\ Of(j) = jobs[Slot(j)] /\ Of(j)' = jobs'[Slot(j)] /\ IsJob(Of(j))
          /\ JobPlaced(from, at, taken, j, Of(j)) /\ Output(at, taken, j, Of(j))
          /\ HeldAs(at, taken, j, Of(j), worker[w])
    BY <1>1, AtWork
  <1>3. /\ Holds(w) /\ out' = out /\ worker = [v \in Workers |-> worker[v]] /\ IsWorker(worker[w])
        /\ jobs = [s \in Slots |-> jobs[s]]
    BY <1>1, AtWork
  <1> DEFINE J == Of(j)
             t == worker[w].tail
             d == J.cdata \o t
             k == [J EXCEPT !.cdata = d, !.consumed = J.src.size]
  <1>4. ~Holds(w)'
    BY <1>3 DEF Report, IsWorker, Holds
  <1>5. jobs' = [jobs EXCEPT ![Slot(j)] = k]
    BY <1>2, <1>3 DEF Report
  <1> HIDE DEF t, d
  <1>6. /\ k.jobID = J.jobID /\ k.lastJob = J.lastJob /\ k.dstFlushed = J.dstFlushed /\ k.error = J.error
        /\ k.cdata = d /\ k.frameChecksumNeeded = J.frameChecksumNeeded
    BY <1>2 DEF IsJob
  <1> HIDE DEF k
  <1>7. ASSUME ~J.error
        PROVE  Reads(taken, d, at[j]) /\ Len(d) = Produced(at, j, J) /\ Len(J.cdata) <= Len(d) /\ Len(d) <= Share(at, j)
    <2>1. Reads(taken, J.cdata, at[j]) /\ Reads(taken, t, at[j] + Len(J.cdata))
          /\ Len(J.cdata) + Len(t) = Produced(at, j, J)
      BY <1>1, <1>2, <1>7 DEF HeldAs, Ending, Output, t
    <2>2. at[j] \in Nat /\ at[j + 1] \in Nat
      BY <1>2, PlaceIs
    <2>3. Reads(taken, d, at[j]) /\ Len(d) = Len(J.cdata) + Len(t) /\ Len(J.cdata) \in Nat /\ Len(t) \in Nat
      BY <2>1, <2>2, ReadsOn DEF d
    <2>4. Produced(at, j, J) <= Share(at, j)
      BY <2>2 DEF Produced, Share
    <2> HIDE DEF J
    <2> QED
      BY <2>1, <2>3, <2>4
  <1>8. jobs'[Slot(j)] = k /\ \A r \in Slots : SameOutput(r)
    <2>1. ~k.error => ~jobs[Slot(j)].error /\ Len(jobs[Slot(j)].cdata) <= Len(k.cdata)
      BY <1>2, <1>6, <1>7
    <2> HIDE DEF J
    <2> QED
      BY <1>2, <1>3, <1>5, <1>6, <2>1, OneSlot DEF J
  <1>9. JobAfter(at, j, w)
    <2>1. Of(j)' = k
      BY <1>2, <1>8
    <2>2. Output(at, taken, j, k)
      BY <1>2, <1>6, <1>7 DEF Output
    <2>3. k.error \/ Whole(at, j, k)
      BY <1>6, <1>7 DEF Whole, Produced
    <2> QED
      BY <1>4, <2>1, <2>2, <2>3 DEF JobAfter
  <1> QED
    BY <1>1, <1>2, <1>3, <1>4, <1>8, <1>9, WorkOn DEF TurnTaken

\* Only a failed job has not taken its turn by then.
LEMMA EnsureFrame ==
  ASSUME MTAssumption, IInv, InFrame, EndTold, NEW from, NEW at, Frame(from, at),
         NEW w \in Workers, EnsureFinished(w)
  PROVE  Frame(from, at)'
  <1>1. worker[w].at = "ensure" /\ CallerWaits /\ jobs' = jobs /\ WorkStep(w)
    BY WorkerSteps DEF IInv, EnsureFinished
  <1>2. PICK j \in Posted :
          /\ j \in Nat /\ HeldBy(j, w) /\ worker[w].slot = Slot(j) /\ Slot(j) \in Slots
          /\ Job(w) = Of(j) /\ Of(j) = jobs[Slot(j)] /\ Of(j)' = jobs'[Slot(j)] /\ IsJob(Of(j))
          /\ JobPlaced(from, at, taken, j, Of(j)) /\ Output(at, taken, j, Of(j))
          /\ HeldAs(at, taken, j, Of(j), worker[w])
    BY <1>1, AtWork
  <1>3. /\ Holds(w) /\ out' = out /\ worker = [v \in Workers |-> worker[v]] /\ IsWorker(worker[w])
    BY <1>1, AtWork
  <1>4. worker'[w].at = "report" /\ worker'[w].tail = worker[w].tail /\ Holds(w)'
    BY <1>3 DEF EnsureFinished, IsWorker, Holds
  <1>5. Of(j).jobID = j
    BY <1>2 DEF JobPlaced
  <1>6. JobAfter(at, j, w)
    <2>1. Of(j)' = Of(j)
      BY <1>1, <1>2
    <2>2. HeldAs(at, taken, j, Of(j), worker'[w])
      BY <1>1, <1>2, <1>4 DEF HeldAs
    <2> QED
      BY <1>2, <1>4, <2>1, <2>2 DEF JobAfter
  <1>7. /\ Placed(from, at)' /\ Sources(from)' /\ AfterEnd' /\ FlushedTo(at)'
        /\ Outputs(at)' /\ Holders(at)' /\ Waiting' /\ AllDone(at)'
        /\ Sound' => Sound
    BY <1>1, <1>2, <1>3, <1>6, NoSlot, WorkFrame
  <1>8. InTurn(from) /\ WindowHolds
    BY DEF Frame
  <1>9. serial' = IF serial.nextJobID > j THEN serial ELSE [serial EXCEPT !.nextJobID = j + 1, !.window = NoWindow]
    BY <1>2, <1>5 DEF EnsureFinished
  <1>10. Sound' => serial' = serial
    <2> SUFFICES ASSUME Sound PROVE serial.nextJobID > j
      BY <1>7, <1>9
    <2> QED
      BY <1>1, <1>2, <1>8 DEF InTurn, TurnTaken
  <1>11. InTurn(from)'
    BY <1>1, <1>2, <1>3, <1>4, <1>7, <1>8, <1>10, NoSlot, TurnsStay DEF TurnToCome, TurnTaken
  <1>12. WindowHolds'
    <2>1. CASE serial' = serial
      BY <1>1, <1>7, <1>8, <2>1, WindowStays DEF WorkStep
    <2>2. CASE serial' # serial
      <3>1. ~Sound'
        BY <1>10, <2>2
      <3>2. serial = [nextJobID |-> serial.nextJobID, hashed |-> serial.hashed, window |-> serial.window]
        BY <1>8 DEF WindowHolds, SerialIs
      <3>3. serial' = [nextJobID |-> j + 1, hashed |-> serial.hashed, window |-> NoWindow]
        BY <1>9, <2>2, <3>2
      <3> QED
        BY <1>2, <3>1, <3>3 DEF WindowHolds, SerialIs, NoWindow
    <2> QED
      BY <2>1, <2>2
  <1> QED
    BY <1>7, <1>11, <1>12 DEF Frame

-----------------------------------------------------------------------------
\* The window of the long distance matcher

RangeOf(s, n) == [start |-> s, size |-> n]

LEMMA SegmentRest ==
  ASSUME Shapes, MTAssumption, NEW r, NEW last \in Int, Segment(r, last), NEW n \in Nat, n <= r.size
  PROVE  Segment(RangeOf(r.start + n, r.size - n), last)
  <1>1. r.start \in Nat /\ r.size \in Nat /\ mt.pos \in Nat /\ section \in Nat /\ mt.capacity \in Nat
    BY Constants DEF Segment, Shapes, MTFields
  <1>2. PICK s \in Nat, z \in Nat : s = r.start /\ z = r.size
    BY <1>1
  <1> DEFINE q == RangeOf(r.start + n, r.size - n)
  <1>3. q.start = s + n /\ q.size = z - n /\ q \in [start : Nat, size : Nat] /\ End(q) = s + z /\ End(r) = s + z
    BY <1>2 DEF RangeOf, End
  <1>4. s + z <= mt.capacity
    BY <1>3 DEF Segment
  <1>5. \A x \in s .. s + z - 1 : round[x] = last + 1 + x - (s + z)
    BY <1>2, <1>3 DEF Segment
  <1>6. mt.inStart # None => z = 0 \/ s + z <= mt.pos \/ s >= mt.pos + section
    BY <1>2, <1>3 DEF Segment
  <1> HIDE DEF q
  <1>7. \A x \in q.start .. End(q) - 1 : round[x] = last + 1 + x - End(q)
    BY <1>3, <1>5
  <1>8. mt.inStart # None => q.size = 0 \/ End(q) <= mt.pos \/ q.start >= mt.pos + section
    BY <1>1, <1>2, <1>3, <1>6
  <1> QED
    BY <1>3, <1>4, <1>7, <1>8 DEF Segment, q

\* Input behind a segment makes it longer.
LEMMA SegmentGrows ==
  ASSUME Shapes, MTAssumption, NEW r, NEW h \in Int, Segment(r, h),
         NEW n \in Nat, n > 0, End(r) + n <= mt.capacity,
         \A x \in End(r) .. End(r) + n - 1 : round[x] = h + 1 + x - End(r),
         mt.inStart # None => End(r) + n <= mt.pos \/ End(r) >= mt.pos + section
  PROVE  Segment(RangeOf(r.start, r.size + n), h + n)
  <1>1. r.start \in Nat /\ r.size \in Nat /\ mt.pos \in Nat /\ section \in Nat /\ section > 0
    BY Constants DEF Segment, Shapes, MTFields
  <1>2. PICK s \in Nat, z \in Nat : s = r.start /\ z = r.size
    BY <1>1
  <1> DEFINE q == RangeOf(r.start, r.size + n)
  <1>3. q.start = s /\ q.size = z + n /\ q \in [start : Nat, size : Nat] /\ End(q) = s + (z + n) /\ End(r) = s + z
    BY <1>2 DEF RangeOf, End
  <1>4. s + (z + n) <= mt.capacity /\ mt.capacity \in Nat
    BY <1>3 DEF Shapes, MTFields
  <1>5. \A x \in s .. s + z - 1 : round[x] = h + 1 + x - (s + z)
    BY <1>2, <1>3 DEF Segment
  <1>6. mt.inStart # None => z = 0 \/ s + z <= mt.pos \/ s >= mt.pos + section
    BY <1>2, <1>3 DEF Segment
  <1> HIDE DEF q
  <1>7. \A x \in s .. s + (z + n) - 1 : round[x] = (h + n) + 1 + x - (s + (z + n))
    <2> TAKE x \in s .. s + (z + n) - 1
    <2>1. CASE x < s + z
      BY <1>5, <2>1
    <2>2. CASE x >= s + z
      <3>1. x \in End(r) .. End(r) + n - 1
        BY <1>3, <2>2
      <3>2. round[x] = h + 1 + x - (s + z)
        BY <1>3, <3>1
      <3> QED
        BY <3>2
    <2> QED
      BY <2>1, <2>2
  <1>8. mt.inStart # None => q.size = 0 \/ End(q) <= mt.pos \/ q.start >= mt.pos + section
    BY <1>1, <1>3, <1>6
  <1> QED
    BY <1>3, <1>4, <1>7, <1>8 DEF Segment, q

\* A window of bytes up to h, with input behind them, is one of bytes up to its end.
Holding(v, h) == /\ v = [ext |-> v.ext, pre |-> v.pre]
                 /\ Segment(v.pre, h) /\ Segment(v.ext, h - v.pre.size)

LEMMA WindowUpdates ==
  ASSUME Shapes, MTAssumption, NEW v, NEW h \in Int, Holding(v, h), NEW src, src.start \in Nat, src.size \in Nat,
         src.size > 0, End(src) <= mt.capacity,
         \A x \in src.start .. End(src) - 1 : round[x] = h + 1 + x - src.start,
         mt.inStart # None => End(src) <= mt.pos \/ src.start >= mt.pos + section
  PROVE  Holding(WindowUpdate(v, src), h + src.size)
  <1> DEFINE n     == src.size
             moved == IF src.start = End(v.pre) THEN v
                      ELSE [ext |-> v.pre, pre |-> [start |-> src.start, size |-> 0]]
             grown == [moved EXCEPT !.pre.size = @ + src.size]
             low   == IF isOverlapped(src, grown.ext) THEN Least(End(src), End(grown.ext)) ELSE grown.ext.start
             cut   == [grown EXCEPT !.ext = [start |-> low, size |-> End(grown.ext) - low]]
             extra == Most(cut.ext.size + cut.pre.size - window, 0)
             fromExt == Least(extra, cut.ext.size)
  <1>0. window \in Nat /\ End(src) = src.start + n /\ v = [ext |-> v.ext, pre |-> v.pre]
    BY DEF MTAssumption, End, Holding
  <1>1. \E e, p : /\ moved = [ext |-> e, pre |-> p] /\ Segment(p, h) /\ Segment(e, h - p.size)
                  /\ End(p) = src.start /\ p = [start |-> p.start, size |-> p.size]
                  /\ p.start \in Nat /\ p.size \in Nat /\ e.start \in Nat /\ e.size \in Nat
    <2>1. /\ Segment(v.pre, h) /\ Segment(v.ext, h - v.pre.size)
          /\ v.pre \in [start : Nat, size : Nat] /\ v.ext \in [start : Nat, size : Nat]
      BY DEF Holding, Segment
    <2>2. CASE src.start = End(v.pre)
      <3>1. moved = [ext |-> v.ext, pre |-> v.pre]
        BY <1>0, <2>2
      <3> HIDE DEF moved
      <3> QED
        BY <2>1, <2>2, <3>1
    <2>3. CASE src.start # End(v.pre)
      <3> DEFINE p == [start |-> src.start, size |-> 0]
      <3>1. moved = [ext |-> v.pre, pre |-> p]
        BY <2>3
      <3>2. p.start = src.start /\ p.size = 0 /\ End(p) = src.start /\ p \in [start : Nat, size : Nat]
        BY DEF End
      <3>3. Segment(p, h)
        <4>1. End(p) <= mt.capacity /\ \A x \in p.start .. End(p) - 1 : round[x] = h + 1 + x - End(p)
          BY <1>0, <3>2 DEF Shapes, MTFields
        <4> QED
          BY <3>2, <4>1 DEF Segment
      <3>4. Segment(v.pre, h - p.size)
        BY <2>1, <3>2
      <3> HIDE DEF moved, p
      <3> QED
        BY <2>1, <3>1, <3>2, <3>3, <3>4
    <2> QED
      BY <2>2, <2>3
  <1>2. PICK e, p : /\ moved = [ext |-> e, pre |-> p] /\ Segment(p, h) /\ Segment(e, h - p.size)
                    /\ End(p) = src.start /\ p = [start |-> p.start, size |-> p.size]
                    /\ p.start \in Nat /\ p.size \in Nat /\ e.start \in Nat /\ e.size \in Nat
    BY <1>1
  <1> HIDE DEF moved
  <1> DEFINE g == RangeOf(p.start, p.size + n)
  <1>3. grown = [ext |-> e, pre |-> g]
    BY <1>2 DEF RangeOf
  <1>4. Segment(g, h + n)
    BY <1>0, <1>2, SegmentGrows
  <1>5. g.start = p.start /\ g.size = p.size + n /\ End(e) = e.start + e.size
    BY DEF RangeOf, End
  <1> HIDE DEF grown, g
  <1>6. low \in Nat /\ e.start <= low /\ low <= End(e)
    <2>1. grown.ext = e
      BY <1>3
    <2>2. CASE isOverlapped(src, e)
      <3>1. low = Least(End(src), End(e))
        BY <2>1, <2>2
      <3>2. e.start < End(src)
        BY <2>2 DEF isOverlapped
      <3> HIDE DEF low
      <3> QED
        BY <1>0, <1>2, <1>5, <3>1, <3>2 DEF Least
    <2>3. CASE ~isOverlapped(src, e)
      <3>1. low = e.start
        BY <2>1, <2>3
      <3> HIDE DEF low
      <3> QED
        BY <1>2, <1>5, <3>1
    <2> QED
      BY <2>2, <2>3
  <1> DEFINE m == low - e.start  f == RangeOf(e.start + m, e.size - m)
  <1>7. cut = [ext |-> f, pre |-> g]
    <2>1. grown.ext = e
      BY <1>3
    <2>2. e.start + m = low /\ e.size - m = End(e) - low
      <3> HIDE DEF low
      <3> QED
        BY <1>2, <1>5, <1>6
    <2> HIDE DEF low, m
    <2>3. f = [start |-> low, size |-> End(grown.ext) - low]
      BY <2>1, <2>2 DEF RangeOf
    <2> HIDE DEF f
    <2> QED
      BY <1>3, <2>3
  <1>8. Segment(f, h - p.size) /\ f.start \in Nat /\ f.size \in Nat
    <2> HIDE DEF low
    <2>1. m \in Nat /\ m <= e.size /\ h - p.size \in Int
      BY <1>2, <1>5, <1>6
    <2> HIDE DEF m
    <2>2. Segment(f, h - p.size)
      BY <1>2, <2>1, SegmentRest
    <2> QED
      BY <2>2 DEF Segment
  <1> HIDE DEF cut, low, f, m
  <1>9. extra = Most(f.size + g.size - window, 0) /\ fromExt = Least(extra, f.size)
    BY <1>7
  <1> HIDE DEF extra, fromExt
  <1> DEFINE x == RangeOf(f.start + fromExt, f.size - fromExt)
             y == RangeOf(g.start + (extra - fromExt), g.size - (extra - fromExt))
  <1>10. /\ extra \in Nat /\ fromExt \in Nat /\ fromExt <= f.size /\ extra - fromExt \in Nat /\ extra - fromExt <= g.size
         /\ g.size \in Nat /\ g.start \in Nat /\ (extra - fromExt > 0 => fromExt = f.size)
    <2>1. PICK a \in Nat, b \in Nat : a = f.size /\ b = g.size
      BY <1>2, <1>5, <1>8
    <2>2. extra = Most(a + b - window, 0) /\ fromExt = Least(extra, a)
      BY <1>9, <2>1
    <2>3. extra \in Nat /\ extra <= a + b
      BY <1>0, <2>2 DEF Most
    <2> QED
      BY <1>2, <1>5, <2>1, <2>2, <2>3 DEF Least
  <1>11. Segment(x, h - p.size) /\ Segment(y, h + n)
    BY <1>2, <1>4, <1>8, <1>10, SegmentRest
  <1>12. Segment(x, (h + n) - y.size)
    <2>1. y.size = g.size - (extra - fromExt) /\ x.size = f.size - fromExt
      BY DEF RangeOf
    <2>2. CASE extra - fromExt > 0
      <3>1. x.size = 0
        BY <1>8, <1>10, <2>1, <2>2
      <3>2. x.start \in Nat /\ End(x) = x.start
        BY <1>11, <3>1 DEF Segment, End
      <3> HIDE DEF x, y
      <3> QED
        BY <1>11, <3>1, <3>2 DEF Segment
    <2>3. CASE ~(extra - fromExt > 0)
      <3>1. (h + n) - y.size = h - p.size
        <4>1. PICK d \in Nat : d = extra - fromExt
          BY <1>10
        <4>2. d = 0 /\ y.size = g.size - d
          BY <2>1, <2>3, <4>1
        <4>3. y.size = p.size + n
          BY <1>2, <1>5, <4>2
        <4> HIDE DEF y
        <4> QED
          BY <1>2, <4>3
      <3> QED
        BY <1>11, <3>1
    <2> QED
      BY <2>2, <2>3
  <1>13. WindowUpdate(v, src) = [ext |-> x, pre |-> y]
    <2>1. WindowUpdate(v, src) =
            [ext |-> [start |-> cut.ext.start + fromExt, size |-> cut.ext.size - fromExt],
             pre |-> [start |-> cut.pre.start + extra - fromExt, size |-> cut.pre.size - (extra - fromExt)]]
      BY DEF WindowUpdate, extra, fromExt, cut, low, grown, moved
    <2>2. cut.ext = f /\ cut.pre = g
      BY <1>7
    <2>3. g.start + extra - fromExt = g.start + (extra - fromExt)
      BY <1>10
    <2> QED
      BY <2>1, <2>2, <2>3 DEF RangeOf
  <1> HIDE DEF x, y
  <1> QED
    BY <1>11, <1>12, <1>13 DEF Holding

\* What the oldest job to take its turn has as input.
LEMMA TurnSource ==
  ASSUME MTAssumption, IInv, InFrame, NEW from, NEW at, Frame(from, at), NEW j \in Made, Unfinished(Slot(j))
  PROVE  /\ Of(j).src.start \in Nat /\ End(Of(j).src) <= mt.capacity
         /\ \A x \in Of(j).src.start .. End(Of(j).src) - 1 : round[x] = from[j] + 1 + x - Of(j).src.start
         /\ mt.inStart # None => End(Of(j).src) <= mt.pos \/ Of(j).src.start >= mt.pos + section
  <1>1. Shapes /\ JobsPosted /\ KeptIntact /\ KeptApart
    BY DEF IInv, BufferInv, InFrame
  <1>2. j \in Kept /\ j \in Nat
    BY <1>1, MadeIs DEF Made, MadeTo, Kept
  <1>3. KeptAt(j) /\ (Low(j) \/ High(j)) /\ IsJob(Of(j))
    <2>1. Slot(j) \in Slots
      BY <1>1, <1>2, KeptSlots
    <2> QED
      BY <1>1, <1>2, <2>1 DEF KeptIntact, KeptApart, Shapes, Of
  <1> DEFINE J == Of(j)
  <1>4. /\ J.src.start \in Nat /\ J.src.size \in Nat /\ J.src.size <= section /\ J.src.start + section <= mt.capacity
        /\ J.prefix.size \in Nat /\ (J.prefix.size > 0 => J.prefix.start \in Nat /\ End(J.prefix) = J.src.start)
        /\ section \in Nat /\ mt.capacity \in Nat /\ mt.pos \in Nat
    BY <1>1, <1>3, Constants DEF KeptAt, Of, IsJob, Ranges, Shapes, MTFields
  <1>5. End(J.src) <= mt.capacity
    BY <1>4 DEF End
  <1>6. mt.inStart # None => End(J.src) <= mt.pos \/ J.src.start >= mt.pos + section
    <2> SUFFICES ASSUME mt.inStart # None PROVE End(J.src) <= mt.pos \/ J.src.start >= mt.pos + section
      OBVIOUS
    <2>1. CASE Low(j)
      BY <2>1 DEF Low, Hi, Of
    <2>2. CASE High(j)
      <3>1. Lo(j) >= mt.pos + section /\ Lo(j) <= J.src.start /\ Lo(j) \in Nat
        BY <1>4, <2>2 DEF High, Lo, Of, End
      <3> QED
        BY <1>4, <3>1
    <2> QED
      BY <1>3, <2>1, <2>2
  <1> QED
    BY <1>2, <1>4, <1>5, <1>6, SourceIs DEF IInv

\* A job takes its turn.
LEMMA GenFrame ==
  ASSUME MTAssumption, IInv, InFrame, EndTold, NEW from, NEW at, Frame(from, at),
         NEW w \in Workers, GenSequences(w)
  PROVE  Frame(from, at)'
  <1>0. Shapes /\ JobsPosted /\ HeldApart
    BY DEF IInv
  <1>1. worker[w].at = "serial" /\ CallerWaits /\ jobs' = jobs /\ WorkStep(w)
    BY WorkerSteps DEF IInv, GenSequences
  <1>2. PICK j \in Posted :
          /\ j \in Nat /\ HeldBy(j, w) /\ worker[w].slot = Slot(j) /\ Slot(j) \in Slots
          /\ Job(w) = Of(j) /\ Of(j) = jobs[Slot(j)] /\ Of(j)' = jobs'[Slot(j)] /\ IsJob(Of(j))
          /\ JobPlaced(from, at, taken, j, Of(j)) /\ Output(at, taken, j, Of(j))
          /\ HeldAs(at, taken, j, Of(j), worker[w])
    BY <1>1, AtWork
  <1>3. /\ Holds(w) /\ out' = out /\ worker = [v \in Workers |-> worker[v]] /\ IsWorker(worker[w])
    BY <1>1, AtWork
  <1>4. worker'[w].at = "compress" /\ worker'[w].chunk = worker[w].chunk /\ Holds(w)'
    BY <1>3 DEF GenSequences, IsWorker, Holds
  <1> DEFINE J == Of(j)  n == J.src.size  s == serial.nextJobID  h == serial.hashed
  <1>5. /\ J.jobID = j /\ n \in Nat /\ from[j] \in Nat /\ from[j] + n = from[j + 1] /\ from[j + 1] \in Nat
    BY <1>2, PlaceIs
  <1>6. JobAfter(at, j, w)
    <2>1. J' = J
      BY <1>1, <1>2
    <2>2. ASSUME ~J.error PROVE Halfway(j, J, 0)
      <3>1. Untouched(j, J)
        BY <1>1, <1>2, <2>2 DEF HeldAs
      <3>2. ChunksOf(0) = 0 /\ Lead(j, 0) = 0
        BY Constants DEF ChunksOf, Lead
      <3> HIDE DEF J
      <3> QED
        BY <3>1, <3>2 DEF Halfway, Untouched
    <2>3. HeldAs(at, taken, j, J, worker'[w])
      BY <1>1, <1>2, <1>4, <2>2 DEF HeldAs
    <2> QED
      BY <1>2, <1>4, <2>1, <2>3 DEF JobAfter
  <1>7. /\ Placed(from, at)' /\ Sources(from)' /\ AfterEnd' /\ FlushedTo(at)'
        /\ Outputs(at)' /\ Holders(at)' /\ Waiting' /\ AllDone(at)'
        /\ Sound' => Sound
    BY <1>1, <1>2, <1>3, <1>6, NoSlot, WorkFrame
  <1>8. InTurn(from) /\ WindowHolds
    BY DEF Frame
  <1>9. s \in Nat /\ s >= j
    BY <1>2, <1>5, <1>8 DEF GenSequences, WindowHolds
  <1>10. serial' = [nextJobID |-> s + 1,
                    hashed |-> IF s = j /\ n > 0 THEN Hash(h, Bytes(J.src)) ELSE h,
                    window |-> IF s = j /\ n > 0 /\ window > 0 THEN WindowUpdate(serial.window, J.src)
                               ELSE serial.window]
    <2>1. serial' = [nextJobID |-> s + 1,
                     hashed |-> IF s = J.jobID /\ n > 0 THEN Hash(h, Bytes(J.src)) ELSE h,
                     window |-> IF s = J.jobID /\ n > 0 /\ window > 0 THEN WindowUpdate(serial.window, J.src)
                                ELSE serial.window]
      BY <1>2 DEF GenSequences
    <2> QED
      BY <1>5, <2>1
  <1>11. ASSUME Sound PROVE s = j /\ h = from[j]
    <2>1. s <= j
      BY <1>1, <1>2, <1>8, <1>11 DEF InTurn, TurnToCome
    <2> QED
      BY <1>2, <1>8, <1>9, <1>11, <2>1 DEF InTurn
  <1>12. j \in Made /\ Posted \subseteq Made /\ Made \subseteq Nat
    BY <1>0, MadeIs
  <1>13. n > 0 => Unfinished(Slot(j))
    BY <1>0, <1>2, <1>3, <1>5 DEF HeldApart
  <1>14. ASSUME Sound PROVE serial'.nextJobID = j + 1 /\ serial'.hashed = h + n /\ serial'.hashed = from[j + 1]
    <2>1. s = j /\ h = from[j]
      BY <1>11, <1>14
    <2>2. CASE n > 0
      <3>1. J.src.start \in Nat /\ \A x \in J.src.start .. End(J.src) - 1 : round[x] = from[j] + 1 + x - J.src.start
        BY <1>12, <1>13, <2>2, TurnSource
      <3>2. \A x \in J.src.start .. End(J.src) - 1 : round[x] = h + 1 + x - J.src.start
        BY <2>1, <3>1
      <3>3. Hash(h, Bytes(J.src)) = h + n
        BY <1>5, <2>1, <3>1, <3>2, HashesBytes
      <3> HIDE DEF J, s, h
      <3>4. serial'.nextJobID = s + 1 /\ serial'.hashed = Hash(h, Bytes(J.src))
        BY <1>10, <2>1, <2>2
      <3> QED
        BY <1>5, <2>1, <3>3, <3>4
    <2>3. CASE ~(n > 0)
      <3>1. n = 0
        BY <1>5, <2>3
      <3> HIDE DEF J, s, h
      <3>2. serial'.nextJobID = s + 1 /\ serial'.hashed = h
        BY <1>10, <2>3
      <3> QED
        BY <1>5, <2>1, <3>1, <3>2
    <2> QED
      BY <2>2, <2>3
  <1>15. MadeTo' = MadeTo /\ Made' = Made /\ Posted' = Posted /\ (\A i : Slot(i)' = Slot(i)) /\ mt' = mt /\ queued' = queued
    BY <1>1, Unmoved DEF WorkStep
  <1>16. InTurn(from)'
    <2> SUFFICES ASSUME Sound PROVE InTurn(from)'
      BY <1>7 DEF InTurn
    <2>1. /\ j <= mt.nextJobID /\ (~mt.frameEnded \/ mt.doneJobID < MadeTo => mt.doneJobID <= j)
          /\ \A i \in Posted, v \in Workers : HeldBy(i, v) =>
               /\ worker[v].at \in TurnToCome => j <= i
               /\ worker[v].at \in TurnTaken => j > i
          /\ \A i \in Posted : queued = Slot(i) => j <= i
          /\ \A i \in Posted : Nobodys(i) => j > i \/ Of(i).src.size = 0
      BY <1>8, <1>11 DEF InTurn
    <2>2. serial'.nextJobID = j + 1 /\ serial'.hashed = from[j + 1]
      BY <1>14
    <2>3. j + 1 <= mt.nextJobID /\ (~mt.frameEnded \/ mt.doneJobID < MadeTo => mt.doneJobID <= j + 1)
      BY <1>0, <1>2, <2>1, MadeIs DEF Posted
    <2>4. ASSUME NEW i \in Posted, NEW v \in Workers, HeldBy(i, v)'
          PROVE  /\ worker'[v].at \in TurnToCome => j + 1 <= i
                 /\ worker'[v].at \in TurnTaken => j + 1 > i
      <3>1. Holds(v) /\ worker'[v].slot = worker[v].slot /\ worker'[v].slot = Slot(i)
        BY <1>1, <1>15, <2>4 DEF HeldBy, WorkStep, WorkerMoves, Holds
      <3>2. HeldBy(i, v) /\ i \in Nat
        BY <1>12, <3>1 DEF HeldBy
      <3>3. CASE v = w
        <4>1. i = j
          BY <1>0, <1>2, <1>12, <3>1, <3>3, MadeDiffer
        <4> QED
          BY <1>2, <1>4, <3>3, <4>1 DEF TurnToCome
      <3>4. CASE v # w
        <4>1. worker'[v] = worker[v] /\ i # j
          BY <1>0, <1>1, <1>2, <1>3, <3>1, <3>4 DEF WorkStep, WorkerMoves, HeldApart
        <4> QED
          BY <1>2, <2>1, <3>2, <4>1
      <3> QED
        BY <3>3, <3>4
    <2>5. ASSUME NEW i \in Posted, queued = Slot(i) PROVE j + 1 <= i
      <3>1. i # j
        BY <1>0, <1>2, <1>3, <2>5 DEF HeldApart
      <3> QED
        BY <1>2, <1>12, <2>1, <2>5, <3>1
    <2>6. ASSUME NEW i \in Posted, Nobodys(i)' PROVE j + 1 > i \/ Of(i)'.src.size = 0
      <3>1. i # j
        BY <1>2, <1>4, <1>1, <1>15, <2>6 DEF Nobodys, HeldBy, WorkStep
      <3>2. ASSUME NEW v \in Workers, HeldBy(i, v) PROVE FALSE
        <4>1. v # w
          BY <1>0, <1>2, <1>12, <3>1, <3>2, MadeDiffer DEF HeldBy
        <4>2. worker'[v] = worker[v]
          BY <1>1, <4>1 DEF WorkStep, WorkerMoves
        <4>3. HeldBy(i, v)'
          BY <1>15, <3>2, <4>2 DEF HeldBy, Holds
        <4> QED
          BY <2>6, <4>3 DEF Nobodys
      <3>3. Nobodys(i) /\ Of(i)' = Of(i)
        BY <1>1, <1>15, <2>6, <3>2 DEF Nobodys, Of
      <3>4. j > i \/ Of(i).src.size = 0
        BY <2>1, <3>3
      <3>5. i \in Nat
        BY <1>12
      <3>6. CASE j > i
        BY <1>2, <3>5, <3>6
      <3>7. CASE Of(i).src.size = 0
        BY <3>3, <3>7
      <3> QED
        BY <3>4, <3>6, <3>7
    <2> QED
      BY <1>15, <2>2, <2>3, <2>4, <2>5, <2>6 DEF InTurn
  <1>17. WindowHolds'
    <2>1. /\ serial'.nextJobID = s + 1 /\ SerialIs(serial.nextJobID, serial.hashed, serial.window)'
      BY <1>10 DEF SerialIs
    <2>2. serial.window = [ext |-> serial.window.ext, pre |-> serial.window.pre]
      BY <1>8 DEF WindowHolds
    <2>3. serial'.window = [ext |-> serial'.window.ext, pre |-> serial'.window.pre]
      <3>1. CASE s = j /\ n > 0 /\ window > 0
        <4>1. serial'.window = WindowUpdate(serial.window, J.src)
          BY <1>10, <3>1
        <4> QED
          BY <4>1 DEF WindowUpdate
      <3>2. CASE ~(s = j /\ n > 0 /\ window > 0)
        <4>1. serial'.window = serial.window
          BY <1>10, <3>2
        <4> QED
          BY <2>2, <4>1
      <3> QED
        BY <3>1, <3>2
    <2>4. ASSUME Sound, window > 0 PROVE Holding(serial'.window, serial'.hashed)
      <3>1. Holding(serial.window, h) /\ s = j /\ h = from[j] /\ h \in Nat /\ serial'.hashed = h + n
        BY <1>5, <1>8, <1>11, <1>14, <2>4 DEF WindowHolds, Holding
      <3>2. CASE n > 0
        <4>1. serial'.window = WindowUpdate(serial.window, J.src)
          BY <1>10, <2>4, <3>1, <3>2
        <4>2. /\ J.src.start \in Nat /\ End(J.src) <= mt.capacity
              /\ \A x \in J.src.start .. End(J.src) - 1 : round[x] = h + 1 + x - J.src.start
              /\ mt.inStart # None => End(J.src) <= mt.pos \/ J.src.start >= mt.pos + section
          BY <1>12, <1>13, <3>1, <3>2, TurnSource
        <4> HIDE DEF J, h
        <4>3. Holding(WindowUpdate(serial.window, J.src), h + n)
          BY <1>0, <1>5, <3>1, <3>2, <4>2, WindowUpdates
        <4> QED
          BY <3>1, <4>1, <4>3
      <3>3. CASE ~(n > 0)
        <4>1. serial'.window = serial.window /\ n = 0
          BY <1>5, <1>10, <3>3
        <4> HIDE DEF J, h
        <4>2. serial'.hashed = h
          BY <3>1, <4>1
        <4> QED
          BY <3>1, <4>1, <4>2
      <3> QED
        BY <3>2, <3>3
    <2>5. ASSUME NEW r, NEW last, Segment(r, last) PROVE Segment(r, last)'
      BY <1>1, <2>5 DEF Segment, WorkStep
    <2>6. PICK pre, ext, g : pre = serial'.window.pre /\ ext = serial'.window.ext /\ g = serial'.hashed
      OBVIOUS
    <2>7. Sound /\ window > 0 => Segment(pre, g)' /\ Segment(ext, g - pre.size)'
      BY <2>4, <2>5, <2>6 DEF Holding
    <2>8. s + 1 \in Nat
      BY <1>9
    <2> QED
      BY <1>7, <2>1, <2>3, <2>6, <2>7, <2>8 DEF WindowHolds
  <1> QED
    BY <1>7, <1>16, <1>17 DEF Frame

-----------------------------------------------------------------------------
\* Workers, and the calls of the caller

LEMMA WorkersFrame ==
  ASSUME MTAssumption, IInv, InFrame, EndTold, taken \in Nat, NEW from, NEW at, Frame(from, at),
         NEW w \in Workers, Work(w)
  PROVE  Frame(from, at)'
  <1>1. Shapes
    BY DEF IInv
  <1> QED
    BY <1>1, PopFrame, BeginFrame, FailedFrame, GenFrame, ChunkFrame, LastFrame, EnsureFrame, ReportFrame, FinishFrame
       DEF Work

LEMMA WorkSound ==
  ASSUME MTAssumption, IInv, FrameInv, NEW w \in Workers, Work(w)
  PROVE  FrameInv'
  <1>1. UNCHANGED <<mt, caller, taken, out>>
    BY DEF Work, Pop, Begin, BeginFails, GenSequences, CompressChunk, CompressLast, CompressFails,
           EnsureFinished, Report, Finish, CallerWaits
  <1>2. OutputRead' /\ EndTold' /\ (InFrame' => InFrame)
    BY <1>1 DEF FrameInv, OutputRead, EndTold, InFrame
  <1>3. ASSUME InFrame PROVE \E from, at : Frame(from, at)'
    <2>1. PICK from, at : Frame(from, at)
      BY <1>3 DEF FrameInv
    <2>2. Frame(from, at)'
      BY <1>3, <2>1, WorkersFrame DEF FrameInv, OutputRead
    <2> QED
      BY <2>2
  <1> QED
    BY <1>2, <1>3 DEF FrameInv

\* The call goes on, and nothing else does.
LEMMA CallSound ==
  ASSUME FrameInv, UNCHANGED <<mt, jobs, round, queued, worker, serial, taken, out>>,
         InFrame' => InFrame, caller'.ret = "none",
         InFrame => caller'.avail = caller.avail \/ ~mt.frameEnded \/ caller'.avail <= 0
  PROVE  FrameInv'
  <1>1. OutputRead' /\ EndTold'
    BY DEF FrameInv, OutputRead, EndTold
  <1>2. ASSUME InFrame PROVE \E from, at : Frame(from, at)'
    <2>1. PICK from, at : Frame(from, at)
      BY <1>2 DEF FrameInv
    <2>2. \A w \in Workers : (Holds(w)' <=> Holds(w)) /\ (Holds(w) => worker'[w] = worker[w])
      BY DEF Holds
    <2>3. Frame(from, at)'
      BY <1>2, <2>1, <2>2, FrameRests
    <2> QED
      BY <2>3
  <1> QED
    BY <1>1, <1>2 DEF FrameInv

LEMMA CallerSound ==
  ASSUME MTAssumption, IInv, FrameInv,
         \/ \E op \in {"continue", "flush", "end"}, avail \in Inputs, room \in Rooms : Call(op, avail, room)
         \/ SameSize \/ NoRangeNeeded \/ TryRange
  PROVE  FrameInv'
  <1>0. IsCall(caller) /\ CallPhase
    BY DEF IInv, Shapes
  <1>1. CASE \E op \in {"continue", "flush", "end"}, avail \in Inputs, room \in Rooms : Call(op, avail, room)
    <2>1. PICK op, most, room : Call(op, most, room)
      BY <1>1
    <2>2. /\ caller.at = "idle" /\ UNCHANGED <<mt, jobs, round, queued, worker, serial, taken, out>>
      BY <2>1 DEF Call, WorkersWait
    <2>3. caller'.ret = "none" /\ caller'.at # "freed"
      BY <2>1 DEF Call, NoCall
    <2>4. mt.session = "load" /\ mt.frameEnded => caller'.avail = 0
      BY <2>1 DEF Call, NoCall
    <2> QED
      BY <2>2, <2>3, <2>4, CallSound DEF InFrame, FrameInv, FrameInv
  <1>2. CASE SameSize \/ NoRangeNeeded \/ TryRange
    <2>1. /\ caller.at \in {"init", "range"} /\ UNCHANGED <<mt, jobs, round, queued, worker, serial, taken, out>>
      BY <1>2 DEF SameSize, NoRangeNeeded, TryRange, WorkersWait
    <2>2. caller'.ret = caller.ret /\ caller'.avail = caller.avail /\ caller'.at # "freed"
      <3>1. CASE SameSize \/ NoRangeNeeded
        BY <1>0, <3>1 DEF SameSize, NoRangeNeeded, Go, IsCall
      <3>2. CASE TryRange
        <4>1. PICK a, u : caller' = [caller EXCEPT !.inUse = u, !.at = a] /\ a \in {"load", "move", "ldm"}
          BY <3>2 DEF TryRange
        <4> QED
          BY <1>0, <4>1 DEF IsCall
      <3> QED
        BY <1>2, <3>1, <3>2
    <2>3. caller.ret = "none"
      BY <1>0, <2>1 DEF CallPhase
    <2> QED
      BY <2>1, <2>2, <2>3, CallSound DEF InFrame
  <1> QED
    BY <1>1, <1>2

\* Outside of a frame.
LEMMA OutsideSound ==
  ASSUME FrameInv, taken' = taken, out' = out, ~InFrame', EndTold'
  PROVE  FrameInv'
  BY DEF FrameInv, OutputRead

LEMMA OutsideFrame ==
  ASSUME IInv, FrameInv, (\E n \in NbWorkers : Resize(n)) \/ WrongStage \/ FlushFails \/ FreeCCtx
  PROVE  FrameInv'
  <1>0. IsCall(caller) /\ CallPhase /\ mt \in MTFields
    BY DEF IInv, Shapes
  <1>1. CASE \E n \in NbWorkers : Resize(n)
    <2>1. PICK n : Resize(n)
      BY <1>1
    <2>2. mt.session = "init" /\ caller.ret = "none"
      BY <1>0, <2>1 DEF Resize, CallPhase
    <2>3. mt'.session = mt.session
      BY <1>0, <2>1 DEF Resize, MTFields
    <2>4. caller'.at = "initFrame" /\ caller'.ret = caller.ret
      BY <1>0, <2>1 DEF Resize, Go, IsCall
    <2> QED
      BY <2>1, <2>2, <2>3, <2>4, OutsideSound DEF InFrame, EndTold, Resize
  <1>2. CASE WrongStage \/ FlushFails
    <2>1. mt'.session = "init" /\ NextTurn("error", caller.room, FALSE) /\ taken' = taken /\ out' = out
      BY <1>0, <1>2 DEF WrongStage, FlushFails, MTFields
    <2>2. caller'.ret = "error"
      BY <2>1 DEF NextTurn, NoCall
    <2> QED
      BY <2>1, <2>2, OutsideSound DEF InFrame, EndTold
  <1>3. CASE FreeCCtx
    <2>1. mt' = mt /\ caller' = [caller EXCEPT !.at = "freed"] /\ taken' = taken /\ out' = out
      BY <1>3 DEF FreeCCtx, Go
    <2>2. caller'.at = "freed" /\ caller'.ret = caller.ret
      BY <1>0, <2>1 DEF IsCall
    <2> QED
      BY <2>1, <2>2, OutsideSound DEF InFrame, EndTold, FrameInv
  <1> QED
    BY <1>1, <1>2, <1>3

\* A frame begins with nothing in it, and nobody at work.
LEMMA InitFrameSound ==
  ASSUME MTAssumption, dictSize = 0, IInv, InitFrame
  PROVE  FrameInv'
  <1>0. Shapes /\ CallPhase /\ HeldPosted /\ caller.at = "initFrame" /\ caller.ret = "none" /\ mt.session = "init"
    BY DEF IInv, InitFrame, CallPhase
  <1>1. /\ mt.doneJobID = mt.nextJobID /\ ~mt.jobReady /\ mt.allJobsCompleted /\ mt.nextJobID \in Nat
        /\ mt.jobReady \in BOOLEAN
    BY <1>0 DEF HeldPosted, Live, Shapes, MTFields
  <1>2. \A w \in Workers : ~Holds(w)
    BY <1>0, <1>1 DEF HeldPosted, Live, Posted
  <1>3. queued = None
    BY <1>0, <1>1 DEF HeldPosted, Live, Posted
  <1>4. /\ jobs' = jobs /\ taken' = 0 /\ out' = <<>> /\ queued' = None /\ worker' = worker
        /\ serial' = [nextJobID |-> 0, hashed |-> 0, window |-> NoWindow]
    BY <1>1, <1>3 DEF InitFrame
  <1>5. /\ mt'.doneJobID = 0 /\ mt'.nextJobID = 0 /\ mt'.jobReady = FALSE /\ mt'.frameEnded = FALSE /\ mt'.filled = 0
        /\ mt'.inStart = None /\ mt'.session = "load" /\ mt'.capacity \in Nat
    <2>1. PICK c : /\ mt' = [mt EXCEPT !.capacity = c, !.pos = 0, !.inStart = None, !.filled = 0, !.prefix = NoRange,
                      !.doneJobID = 0, !.nextJobID = 0,
                      !.frameEnded = FALSE, !.allJobsCompleted = FALSE, !.session = "load"]
      BY DEF InitFrame, Dictionary
    <2>2. mt'.capacity \in Nat
      <3>1. Shapes'
        BY InitFrameInv DEF IInv
      <3> QED
        BY <3>1 DEF Shapes, MTFields
    <2> QED
      BY <1>0, <1>1, <2>1, <2>2 DEF Shapes, MTFields
  <1>6. caller'.at = "range" /\ caller'.ret = "none"
    BY <1>0 DEF InitFrame, Go, Shapes, IsCall
  <1>7. MadeTo' = 0 /\ Made' = {} /\ Posted' = {}
    BY <1>5 DEF MadeTo, Made, Posted
  <1>8. OutputRead' /\ EndTold'
    BY <1>4, <1>6 DEF OutputRead, EndTold, Reads
  <1> DEFINE z == [n \in Nat |-> 0]
  <1>9. z \in [Nat -> Nat] /\ z[0] = 0
    OBVIOUS
  <1> HIDE DEF z
  <1>10. Placed(z, z)' /\ Sources(z)' /\ AfterEnd' /\ Outputs(z)' /\ Holders(z)' /\ Waiting' /\ AllDone(z)'
    BY <1>4, <1>5, <1>7, <1>9 DEF Placed, Sources, AfterEnd, Outputs, Holders, Waiting, AllDone
  <1>11. FlushedTo(z)'
    <2>1. Len(out') = 0
      BY <1>4
    <2> QED
      BY <1>4, <1>5, <1>7, <1>9, <2>1 DEF FlushedTo
  <1>12. InTurn(z)'
    BY <1>4, <1>5, <1>7, <1>9 DEF InTurn
  <1>13. WindowHolds'
    <2>1. Segment(NoWindow.pre, 0)' /\ Segment(NoWindow.ext, 0)' /\ NoWindow.pre.size = 0
      BY <1>5 DEF Segment, NoWindow, End
    <2>2. /\ SerialIs(serial.nextJobID, serial.hashed, serial.window)' /\ serial'.nextJobID = 0 /\ serial'.hashed = 0
          /\ serial'.window = NoWindow
      BY <1>4 DEF SerialIs
    <2> HIDE DEF WindowHolds
    <2>3. NoWindow = [ext |-> NoWindow.ext, pre |-> NoWindow.pre]
      BY DEF NoWindow
    <2>4. PICK v : v = NoWindow /\ Segment(v.pre, 0)' /\ Segment(v.ext, 0)' /\ v.pre.size = 0
      BY <2>1
    <2> QED
      BY <2>2, <2>3, <2>4 DEF WindowHolds
  <1>14. Frame(z, z)'
    BY <1>10, <1>11, <1>12, <1>13 DEF Frame
  <1> QED
    BY <1>8, <1>14 DEF FrameInv

-----------------------------------------------------------------------------
\* Room for input

\* The caller goes round in the buffer, or takes a part of it.
LEMMA RangeFrame ==
  ASSUME NEW from, NEW at, Frame(from, at), UNCHANGED <<jobs, queued, worker, serial, taken, out>>,
         mt'.doneJobID = mt.doneJobID, mt'.nextJobID = mt.nextJobID, mt'.jobReady = mt.jobReady,
         mt'.table = mt.table, mt'.filled = mt.filled, mt'.frameEnded = mt.frameEnded,
         caller.avail <= 0 => caller'.avail <= 0, Sources(from)',
         Sound /\ window > 0 => /\ Segment(serial.window.pre, serial.hashed)'
                                /\ Segment(serial.window.ext, serial.hashed - serial.window.pre.size)'
  PROVE  Frame(from, at)'
  <1>1. MadeTo' = MadeTo /\ Made' = Made /\ Posted' = Posted /\ (\A i : Slot(i)' = Slot(i))
    BY DEF MadeTo, Made, Posted, Slot
  <1>2. (\A i : Of(i)' = Of(i)) /\ (\A i, w : HeldBy(i, w)' <=> HeldBy(i, w))
    BY <1>1 DEF Of, HeldBy, Holds
  <1>3. (\A i : Nobodys(i)' <=> Nobodys(i)) /\ (Sound' <=> Sound)
    BY <1>1, <1>2 DEF Nobodys, Sound
  <1>4. Placed(from, at)' /\ AfterEnd'
    BY <1>1, <1>2 DEF Frame, Placed, AfterEnd
  <1>5. FlushedTo(at)'
    <2>1. PICK d : d = mt.doneJobID
      OBVIOUS
    <2> QED
      BY <1>1, <1>2, <2>1 DEF Frame, FlushedTo
  <1>6. Outputs(at)' /\ Holders(at)' /\ AllDone(at)'
    BY <1>1, <1>2, <1>3 DEF Frame, Outputs, Holders, AllDone
  <1>7. Waiting'
    <2>1. PICK n : n = mt.nextJobID
      OBVIOUS
    <2> QED
      BY <1>1, <1>2, <2>1 DEF Frame, Waiting
  <1>8. InTurn(from)'
    BY <1>1, <1>2, <1>3 DEF Frame, InTurn
  <1>9. WindowHolds'
    <2>1. serial.nextJobID \in Nat /\ SerialIs(serial.nextJobID, serial.hashed, serial.window)
          /\ serial.window = [ext |-> serial.window.ext, pre |-> serial.window.pre]
      BY DEF Frame, WindowHolds
    <2>2. SerialIs(serial.nextJobID, serial.hashed, serial.window)'
      BY <2>1 DEF SerialIs
    <2> QED
      BY <1>3, <2>1, <2>2 DEF WindowHolds
  <1> QED
    BY <1>4, <1>5, <1>6, <1>7, <1>8, <1>9 DEF Frame

\* Part of the buffer that does not overlap the window.
LEMMA NoOverlap ==
  ASSUME NEW b, b \in [start : Nat, size : Nat], NEW s \in Nat, NEW n \in Nat, ~isOverlapped(RangeOf(s, n), b)
  PROVE  n = 0 \/ b.size = 0 \/ End(b) <= s \/ s + n <= b.start
  BY DEF isOverlapped, RangeOf, End, None

LEMMA TakeRangeFrame ==
  ASSUME MTAssumption, IInv, InFrame, NEW from, NEW at, Frame(from, at), TakeRange
  PROVE  Frame(from, at)'
  <1>1. Shapes /\ CallPhase /\ InputAt
    BY DEF IInv, BufferInv, InFrame
  <1>2. mt.filled = 0 /\ mt.inStart = None /\ mt.pos \in Nat /\ section \in Nat /\ section > 0
    BY <1>1, Constants DEF TakeRange, CallPhase, InputAt, Shapes, MTFields
  <1>3. /\ mt' = [mt EXCEPT !.inStart = mt.pos, !.filled = 0] /\ round' = round
        /\ UNCHANGED <<jobs, queued, worker, serial, taken, out>>
    BY DEF TakeRange, WorkersWait
  <1>4. /\ mt'.doneJobID = mt.doneJobID /\ mt'.nextJobID = mt.nextJobID /\ mt'.jobReady = mt.jobReady
        /\ mt'.table = mt.table /\ mt'.filled = mt.filled /\ mt'.frameEnded = mt.frameEnded
        /\ mt'.capacity = mt.capacity /\ mt'.pos = mt.pos
    BY <1>1, <1>2, <1>3 DEF Shapes, MTFields
  <1>5. caller'.avail = caller.avail
    BY <1>1 DEF TakeRange, Go, Shapes, IsCall
  <1>6. Sources(from)'
    <2>1. Made' = Made /\ (\A i : Slot(i)' = Slot(i))
      BY <1>4 DEF Made, MadeTo, Slot
    <2>2. (\A i : Of(i)' = Of(i)) /\ (\A i : Unfinished(Slot(i))' => Unfinished(Slot(i)))
      BY <1>3, <2>1 DEF Of, Unfinished
    <2> QED
      BY <1>3, <2>1, <2>2 DEF Frame, Sources
  <1>7. ASSUME NEW r, NEW last, Segment(r, last), ~isOverlapped(Section(mt.pos), r) PROVE Segment(r, last)'
    <2>1. r.size = 0 \/ End(r) <= mt.pos \/ r.start >= mt.pos + section
      <3>1. Section(mt.pos) = RangeOf(mt.pos, section)
        BY DEF Section, RangeOf
      <3>2. r \in [start : Nat, size : Nat]
        BY <1>7 DEF Segment
      <3>3. section = 0 \/ r.size = 0 \/ End(r) <= mt.pos \/ mt.pos + section <= r.start
        BY <1>2, <1>7, <3>1, <3>2, NoOverlap
      <3>4. r.start \in Nat
        BY <3>2
      <3> QED
        BY <1>2, <3>3, <3>4
    <2> QED
      BY <1>3, <1>4, <1>7, <2>1 DEF Segment
  <1>8. ASSUME Sound, window > 0
        PROVE  Segment(serial.window.pre, serial.hashed)' /\ Segment(serial.window.ext, serial.hashed - serial.window.pre.size)'
    <2>1. /\ ~isOverlapped(Section(mt.pos), serial.window.ext) /\ ~isOverlapped(Section(mt.pos), serial.window.pre)
      BY <1>8 DEF TakeRange, doesOverlapWindow
    <2>2. /\ Segment(serial.window.pre, serial.hashed)
          /\ Segment(serial.window.ext, serial.hashed - serial.window.pre.size)
      BY <1>8 DEF Frame, WindowHolds
    <2>3. PICK pre, ext, h : pre = serial.window.pre /\ ext = serial.window.ext /\ h = serial.hashed
      OBVIOUS
    <2>4. Segment(pre, h)' /\ Segment(ext, h - pre.size)'
      BY <1>7, <2>1, <2>2, <2>3
    <2>5. serial' = serial
      BY <1>3
    <2> QED
      BY <2>3, <2>4, <2>5
  <1> QED
    BY <1>3, <1>4, <1>5, <1>6, <1>8, RangeFrame

LEMMA MovePrefixFrame ==
  ASSUME MTAssumption, IInv, InFrame, NEW from, NEW at, Frame(from, at), MovePrefix
  PROVE  Frame(from, at)'
  <1>1. Shapes /\ CallPhase /\ JobsPosted /\ InputAt /\ Wrapping /\ KeptIntact /\ caller.at = "move"
    BY DEF IInv, BufferInv, InFrame, MovePrefix
  <1> DEFINE p == mt.prefix.size
  <1>2. /\ p \in Nat /\ mt.inStart = None /\ mt.capacity \in Nat /\ mt.capacity <= capacityFor(MaxWorkers)
        /\ section \in Nat /\ capacityFor(MaxWorkers) \in Nat
    BY <1>1, Constants, Capacities DEF CallPhase, Shapes, MTFields, Ranges
  <1>3. /\ mt' = [mt EXCEPT !.prefix = [start |-> IF p = 0 THEN mt.prefix.start ELSE 0, size |-> p], !.pos = p]
        /\ round' = [c \in Cells |-> IF c < p THEN round[mt.prefix.start + c] ELSE round[c]]
        /\ UNCHANGED <<jobs, queued, worker, serial, taken, out>>
    BY DEF MovePrefix, WorkersWait
  <1>4. /\ mt'.doneJobID = mt.doneJobID /\ mt'.nextJobID = mt.nextJobID /\ mt'.jobReady = mt.jobReady
        /\ mt'.table = mt.table /\ mt'.filled = mt.filled /\ mt'.frameEnded = mt.frameEnded
        /\ mt'.capacity = mt.capacity /\ mt'.inStart = None
    BY <1>1, <1>2, <1>3 DEF Shapes, MTFields
  <1>5. caller'.avail = caller.avail
    <2>1. PICK a : caller' = [caller EXCEPT !.at = a]
      BY DEF MovePrefix, Go
    <2> QED
      BY <1>1, <2>1 DEF Shapes, IsCall
  \* What is not below the end of the prefix stays.
  <1>6. ASSUME NEW x \in Nat, x >= p, x < mt.capacity PROVE round'[x] = round[x]
    <2>1. x \in Cells
      BY <1>2, <1>6 DEF Cells
    <2> HIDE DEF p
    <2> QED
      BY <1>2, <1>3, <1>6, <2>1
  <1> HIDE DEF p
  <1>7. Sources(from)'
    <2>1. Made' = Made /\ (\A i : Slot(i)' = Slot(i))
      BY <1>4 DEF Made, MadeTo, Slot
    <2>2. (\A i : Of(i)' = Of(i)) /\ (\A i : Unfinished(Slot(i))' => Unfinished(Slot(i)))
      BY <1>3, <2>1 DEF Of, Unfinished
    <2> SUFFICES ASSUME NEW j \in Made, Unfinished(Slot(j)), NEW x \in Of(j).src.start .. End(Of(j).src) - 1
                 PROVE  round'[x] = from[j] + 1 + x - Of(j).src.start
      BY <2>1, <2>2 DEF Sources
    <2>3. j \in Kept
      BY <1>1, MadeIs DEF Made, MadeTo, Kept
    <2>4. KeptAt(j) /\ p <= caller.inUse.start /\ caller.inUse.start <= Lo(j)
      BY <1>1, <2>3 DEF KeptIntact, Wrapping, p
    <2>5. IsJob(Of(j)) /\ caller.inUse.start \in Int
      <3>1. Slot(j) \in Slots
        BY <1>1, MadeIs, KeptSlots
      <3> QED
        BY <1>1, <3>1 DEF Shapes, Of, IsCall, Ranges, None
    <2>6. /\ Of(j).src.start \in Nat /\ Of(j).src.size \in Nat /\ Of(j).src.size <= section
          /\ Of(j).src.start + section <= mt.capacity
          /\ Of(j).prefix.size \in Nat
          /\ Of(j).prefix.size > 0 => Of(j).prefix.start \in Nat /\ End(Of(j).prefix) = Of(j).src.start
      BY <2>4, <2>5 DEF KeptAt, Of, IsJob, Ranges
    <2>7. Lo(j) \in Nat /\ Lo(j) <= Of(j).src.start
      BY <2>6 DEF Lo, Of, End
    <2>8. x \in Nat /\ x >= p /\ x < mt.capacity
      BY <1>2, <2>4, <2>5, <2>6, <2>7 DEF End
    <2>9. round'[x] = round[x]
      BY <1>6, <2>8
    <2> QED
      BY <2>9 DEF Frame, Sources
  <1>8. ASSUME NEW r, NEW last, Segment(r, last), ~isOverlapped(RangeOf(0, p), r) PROVE Segment(r, last)'
    <2>1. r \in [start : Nat, size : Nat] /\ End(r) <= mt.capacity /\ r.start \in Nat /\ r.size \in Nat
          /\ End(r) = r.start + r.size
      BY <1>8 DEF Segment, End
    <2>2. p = 0 \/ r.size = 0 \/ End(r) <= 0 \/ 0 + p <= r.start
      BY <1>2, <1>8, <2>1, NoOverlap
    <2>3. ASSUME NEW x \in r.start .. End(r) - 1 PROVE round'[x] = last + 1 + x - End(r)
      <3>1. x \in Nat /\ x >= p /\ x < mt.capacity
        BY <1>2, <2>1, <2>2
      <3> QED
        BY <1>6, <1>8, <3>1 DEF Segment
    <2> QED
      BY <1>4, <2>1, <2>3 DEF Segment
  <1>9. ASSUME Sound, window > 0
        PROVE  Segment(serial.window.pre, serial.hashed)' /\ Segment(serial.window.ext, serial.hashed - serial.window.pre.size)'
    <2>1. /\ ~isOverlapped(RangeOf(0, p), serial.window.ext) /\ ~isOverlapped(RangeOf(0, p), serial.window.pre)
      BY <1>9 DEF MovePrefix, doesOverlapWindow, RangeOf, p
    <2>2. /\ Segment(serial.window.pre, serial.hashed)
          /\ Segment(serial.window.ext, serial.hashed - serial.window.pre.size)
      BY <1>9 DEF Frame, WindowHolds
    <2>3. PICK pre, ext, h : pre = serial.window.pre /\ ext = serial.window.ext /\ h = serial.hashed
      OBVIOUS
    <2>4. Segment(pre, h)' /\ Segment(ext, h - pre.size)'
      BY <1>8, <2>1, <2>2, <2>3
    <2>5. serial' = serial
      BY <1>3
    <2> QED
      BY <2>3, <2>4, <2>5
  <1> QED
    BY <1>3, <1>4, <1>5, <1>7, <1>9, RangeFrame

LEMMA RangeSound ==
  ASSUME MTAssumption, IInv, FrameInv, MovePrefix \/ TakeRange
  PROVE  FrameInv'
  <1>1. Shapes /\ CallPhase /\ caller.at \in {"move", "ldm"}
    BY DEF IInv, MovePrefix, TakeRange
  <1>2. InFrame /\ caller.ret = "none"
    BY <1>1 DEF InFrame, CallPhase
  <1>3. taken' = taken /\ out' = out
    BY DEF MovePrefix, TakeRange
  <1>4. PICK a : caller' = [caller EXCEPT !.at = a] /\ a \in {"load", "ldm"}
    BY DEF MovePrefix, TakeRange, Go
  <1>5. caller'.ret = "none"
    BY <1>1, <1>2, <1>4 DEF Shapes, IsCall
  <1>6. PICK from, at : Frame(from, at)
    BY <1>2 DEF FrameInv
  <1>7. Frame(from, at)'
    BY <1>2, <1>6, MovePrefixFrame, TakeRangeFrame
  <1>8. caller'.at # "idle"
    BY <1>1, <1>4 DEF Shapes, IsCall
  <1>9. OutputRead' /\ EndTold'
    BY <1>3, <1>5, <1>8 DEF FrameInv, OutputRead, EndTold
  <1> QED
    BY <1>7, <1>9 DEF FrameInv

-----------------------------------------------------------------------------
\* Loading input, and making jobs of it

LEMMA ReadsMore ==
  ASSUME NEW k \in Nat, NEW n \in Nat, NEW s, NEW a \in Nat, Reads(k, s, a), n > 0 => a + Len(s) <= k + 1
  PROVE  Reads(k + n, s, a)
  <1>1. CASE n = 0
    <2>1. k + n = k
      BY <1>1
    <2> QED
      BY <2>1
  <1>2. CASE n > 0
    <2>1. s \in Seq(Int) /\ Len(s) \in Nat /\ a + Len(s) <= k + 1
      BY <1>2, LenProperties DEF Reads
    <2>2. ASSUME NEW i \in 1 .. Len(s) PROVE SymbolAt(k + n, a + i) = SymbolAt(k, a + i)
      BY <2>1 DEF SymbolAt
    <2> QED
      BY <2>1, <2>2 DEF Reads
  <1> QED
    BY <1>1, <1>2

\* Input that comes behind what there is changes nothing of it.
LEMMA LoadedReads ==
  ASSUME MTAssumption, IInv, taken \in Nat, NEW from, NEW at, Frame(from, at),
         NEW n \in Nat, n > 0 => ~mt.frameEnded
  PROVE  /\ \A j \in Made : /\ JobPlaced(from, at, taken + n, j, Of(j))
                            /\ Output(at, taken + n, j, Of(j))
         /\ \A j \in Made, w \in Workers : HeldAs(at, taken, j, Of(j), worker[w]) => HeldAs(at, taken + n, j, Of(j), worker[w])
  <1>1. Shapes /\ JobsPosted
    BY DEF IInv
  <1>2. ASSUME NEW j \in Made
        PROVE  /\ JobPlaced(from, at, taken + n, j, Of(j))
               /\ Output(at, taken + n, j, Of(j))
               /\ \A w \in Workers : HeldAs(at, taken, j, Of(j), worker[w]) => HeldAs(at, taken + n, j, Of(j), worker[w])
    <2>1. /\ j \in Nat /\ JobPlaced(from, at, taken, j, Of(j)) /\ Output(at, taken, j, Of(j)) /\ IsJob(Of(j))
          /\ Of(j).lastJob = (mt.frameEnded /\ j = MadeTo - 1)
      <3>1. j \in Nat /\ Slot(j) \in Slots
        BY <1>1, MadeIs, KeptSlots
      <3> QED
        BY <1>1, <3>1 DEF Frame, Placed, Outputs, Shapes, Of
    <2>2. /\ at[j] \in Nat /\ at[j + 1] \in Nat /\ from[j + 1] \in Nat /\ from[j + 1] <= taken
          /\ at[j + 1] = from[j + 1] + 1 + (IF Of(j).lastJob THEN 2 ELSE 0)
      BY <2>1, PlaceIs
    <2>3. n > 0 => at[j + 1] <= taken + 1
      <3> SUFFICES ASSUME n > 0 PROVE at[j + 1] <= taken + 1
        OBVIOUS
      <3>1. ~Of(j).lastJob
        BY <2>1
      <3> QED
        BY <2>2, <3>1
    <2>4. JobPlaced(from, at, taken + n, j, Of(j))
      <3>1. from[j + 1] <= taken + n
        BY <2>2
      <3> QED
        BY <2>1, <3>1 DEF JobPlaced
    <2>5. ASSUME ~Of(j).error PROVE Reads(taken + n, Of(j).cdata, at[j])
      <3>1. Reads(taken, Of(j).cdata, at[j]) /\ Len(Of(j).cdata) <= at[j + 1] - at[j]
        BY <2>1, <2>5 DEF Output, Share
      <3>2. Len(Of(j).cdata) \in Nat
        BY <3>1, LenProperties DEF Reads
      <3>3. n > 0 => at[j] + Len(Of(j).cdata) <= taken + 1
        <4>1. PICK p \in Nat, q \in Nat, l \in Nat : p = at[j] /\ q = at[j + 1] /\ l = Len(Of(j).cdata)
          BY <2>2, <3>2
        <4>2. l <= q - p /\ (n > 0 => q <= taken + 1)
          BY ONLY <2>3, <3>1, <4>1
        <4> QED
          BY ONLY <4>1, <4>2, taken \in Nat, p \in Nat, q \in Nat, l \in Nat
      <3> QED
        BY <2>2, <3>1, <3>3, ReadsMore
    <2>6. Output(at, taken + n, j, Of(j))
      BY <2>1, <2>5 DEF Output
    <2>7. ASSUME NEW w \in Workers, HeldAs(at, taken, j, Of(j), worker[w])
          PROVE  HeldAs(at, taken + n, j, Of(j), worker[w])
      <3>1. ASSUME ~Of(j).error, NEW t, Ending(at, taken, j, Of(j), t)
            PROVE  Ending(at, taken + n, j, Of(j), t)
        <4>1. PICK l \in Nat : l = Len(Of(j).cdata)
          BY <2>1, <3>1, LenProperties DEF Output, Reads
        <4>2. Reads(taken, t, at[j] + l) /\ l + Len(t) = Produced(at, j, Of(j))
          BY <3>1, <4>1 DEF Ending
        <4>3. Len(t) \in Nat
          BY <4>2, LenProperties DEF Reads
        <4>4. l + Len(t) <= at[j + 1] - at[j]
          BY <2>2, <4>2 DEF Produced, Share
        <4>5. n > 0 => (at[j] + l) + Len(t) <= taken + 1
          BY <2>2, <2>3, <4>1, <4>3, <4>4
        <4>7. PICK q \in Nat : q = at[j] + l
          BY <2>2, <4>1
        <4>8. Reads(taken, t, q) /\ (n > 0 => q + Len(t) <= taken + 1)
          BY <4>2, <4>5, <4>7
        <4>9. Reads(taken + n, t, q)
          BY <4>8, ReadsMore
        <4>6. Reads(taken + n, t, at[j] + l)
          BY <4>7, <4>9
        <4> QED
          BY <3>1, <4>1, <4>6 DEF Ending
      <3> QED
        BY <2>7, <3>1 DEF HeldAs
    <2> QED
      BY <2>4, <2>6, <2>7
  <1> QED
    BY <1>2

\* Nor does it go where somebody still reads.
LEMMA LoadedElsewhere ==
  ASSUME MTAssumption, IInv, mt.session = "load", NEW n \in Nat, Loaded(n), NEW x \in Nat, x < mt.capacity,
         mt.inStart # None => x < mt.pos \/ x >= mt.pos + section
  PROVE  round'[x] = round[x]
  <1>1. /\ section \in Nat /\ mt.pos \in Nat /\ mt.filled \in Nat /\ mt.filled + n <= section
        /\ n > 0 => mt.inStart = mt.pos /\ mt.inStart # None
        /\ mt.capacity \in Nat /\ mt.capacity <= capacityFor(MaxWorkers) /\ capacityFor(MaxWorkers) \in Nat
    BY Constants, Capacities DEF IInv, BufferInv, Shapes, MTFields, InputAt, Loaded
  <1>2. x \in Cells
    BY <1>1 DEF Cells
  <1>3. ~(n > 0 /\ x \in mt.inStart + mt.filled .. mt.inStart + mt.filled + n - 1)
    BY <1>1
  <1> QED
    BY <1>2, <1>3 DEF Loaded

LEMMA LoadedSources ==
  ASSUME MTAssumption, IInv, InFrame, NEW from, NEW at, Frame(from, at), NEW n \in Nat, Loaded(n),
         NEW j \in Made, Unfinished(Slot(j))
  PROVE  \A x \in Of(j).src.start .. End(Of(j).src) - 1 : round'[x] = from[j] + 1 + x - Of(j).src.start
  <1>1. /\ Of(j).src.start \in Nat /\ End(Of(j).src) <= mt.capacity
        /\ \A x \in Of(j).src.start .. End(Of(j).src) - 1 : round[x] = from[j] + 1 + x - Of(j).src.start
        /\ mt.inStart # None => End(Of(j).src) <= mt.pos \/ Of(j).src.start >= mt.pos + section
    BY TurnSource
  <1>2. Of(j).src.size \in Nat /\ mt.capacity \in Nat /\ mt.pos \in Nat /\ section \in Nat
    <2>1. Shapes /\ JobsPosted
      BY DEF IInv
    <2>2. Slot(j) \in Slots
      BY <2>1, MadeIs, KeptSlots
    <2> QED
      BY <2>1, <2>2, Constants DEF Shapes, MTFields, IsJob, Ranges, Of
  <1>5. End(Of(j).src) \in Nat
    BY <1>1, <1>2 DEF End
  <1>6. PICK a \in Nat : a = Of(j).src.start
    BY <1>1
  <1>3. PICK b \in Nat : a = Of(j).src.start /\ b = End(Of(j).src)
    BY <1>5, <1>6
  <1>4. ASSUME NEW x \in a .. b - 1 PROVE round'[x] = round[x]
    <2>1. x \in Nat /\ x < mt.capacity /\ (mt.inStart # None => x < mt.pos \/ x >= mt.pos + section)
      BY <1>1, <1>2, <1>3
    <2> QED
      BY <2>1, LoadedElsewhere DEF InFrame
  <1> QED
    BY <1>1, <1>3, <1>4

LEMMA LoadedSegment ==
  ASSUME MTAssumption, IInv, InFrame, NEW n \in Nat, Loaded(n), NEW r, NEW last, Segment(r, last),
         mt'.capacity = mt.capacity, mt'.inStart = None \/ (mt'.inStart = mt.inStart /\ mt'.pos = mt.pos)
  PROVE  Segment(r, last)'
  <1>1. /\ r \in [start : Nat, size : Nat] /\ End(r) <= mt.capacity
        /\ \A x \in r.start .. End(r) - 1 : round[x] = last + 1 + x - End(r)
        /\ mt.inStart # None => r.size = 0 \/ End(r) <= mt.pos \/ r.start >= mt.pos + section
    BY DEF Segment
  <1>2. mt.capacity \in Nat /\ mt.pos \in Nat /\ section \in Nat
    BY Constants DEF IInv, Shapes, MTFields
  <1>3. PICK a \in Nat, z \in Nat : a = r.start /\ z = r.size /\ End(r) = a + z
    BY <1>1 DEF End
  <1>4. ASSUME NEW x \in a .. (a + z) - 1 PROVE round'[x] = round[x]
    <2>1. x \in Nat /\ x < mt.capacity /\ (mt.inStart # None => x < mt.pos \/ x >= mt.pos + section)
      BY <1>1, <1>2, <1>3
    <2> QED
      BY <2>1, LoadedElsewhere DEF InFrame
  <1>5. \A x \in r.start .. End(r) - 1 : round'[x] = last + 1 + x - End(r)
    BY <1>1, <1>3, <1>4
  <1> QED
    BY <1>1, <1>5 DEF Segment

\* What a load of n bytes leaves of the frame; job i may be new in it, or new in the pool.
Enters(from, at, f, a, n, i) ==
  /\ i \in Nat /\ i = mt.nextJobID /\ mt'.nextJobID \in Nat /\ mt.nextJobID <= mt'.nextJobID
  /\ worker' = worker /\ serial' = serial /\ taken' = taken + n
  /\ mt'.doneJobID = mt.doneJobID /\ mt'.table = mt.table /\ mt'.capacity = mt.capacity
  /\ mt'.inStart = None \/ (mt'.inStart = mt.inStart /\ mt'.pos = mt.pos)
  /\ mt.frameEnded => mt'.frameEnded /\ MadeTo' = MadeTo
  /\ \A j \in 0 .. MadeTo : f[j] = from[j] /\ a[j] = at[j]
  /\ \A j \in Made : Of(j)' = Of(j)
  /\ Made \subseteq Made' /\ Made' \subseteq Made \cup {i} /\ Posted' \subseteq Posted \cup {i}
  /\ \/ queued' = queued
     \/ queued = None /\ queued' = Slot(i)

Enrols(f, a, i) ==
  /\ i \in Made' \cup Posted' => i < mt.doneJobID + mt.table
  /\ i \in Made' \ Made =>
       /\ Output(a, taken', i, Of(i)')
       /\ Unfinished(Slot(i))' =>
            \A x \in Of(i)'.src.start .. End(Of(i)'.src) - 1 : round'[x] = f[i] + 1 + x - Of(i)'.src.start
  /\ i \in Posted' => IF queued' = Slot(i) THEN Untouched(i, Of(i)') /\ ~Of(i)'.error
                      ELSE Of(i)'.src.size = 0 /\ (Of(i)'.error \/ Whole(a, i, Of(i)'))
  /\ queued' = queued \/ i \in Posted'
  /\ mt'.jobReady => mt'.nextJobID = i /\ Untouched(i, Of(i)') /\ ~Of(i)'.error

\* Nobody has the next job before it is posted.
LEMMA NobodyYet ==
  ASSUME IInv, Live, NEW i \in Nat, i = mt.nextJobID, i < mt.doneJobID + mt.table
  PROVE  /\ queued # Slot(i) /\ (\A w \in Workers : ~HeldBy(i, w))
         /\ \A j \in Posted : Slot(j) # Slot(i)
  <1>1. Shapes /\ JobsPosted /\ HeldPosted
    BY DEF IInv
  <1>2. Slot(i) \notin Active
    BY <1>1, NextSlotFree
  <1>3. \A j \in Posted : Slot(j) # Slot(i)
    BY <1>2 DEF Active, Posted
  <1>4. queued # Slot(i)
    <2>1. Slot(i) \in Nat
      BY <1>1 DEF Shapes, MTFields, Slot
    <2>2. Slot(i) # None
      BY <2>1 DEF None
    <2> QED
      BY <1>1, <1>3, <2>2 DEF HeldPosted
  <1>5. \A w \in Workers : ~HeldBy(i, w)
    BY <1>1, <1>3 DEF HeldPosted, HeldBy
  <1> QED
    BY <1>3, <1>4, <1>5

\* The jobs that were there, and who has them, stay.
Elders(from, at, f, a, i) ==
  /\ \A j : Slot(j)' = Slot(j)
  /\ \A j \in Made : j \in Nat /\ f[j] = from[j] /\ a[j] = at[j] /\ a[j + 1] = at[j + 1] /\ Of(j)' = Of(j)
  /\ Posted \subseteq Made /\ (Sound' => Sound) /\ i \in Nat
  /\ \A j \in Posted' :
       \/ j = i /\ (\A w \in Workers : ~HeldBy(j, w)') /\ queued # Slot(j)
       \/ /\ j \in Posted /\ (\A w \in Workers : HeldBy(j, w)' <=> HeldBy(j, w))
          /\ (queued' = Slot(j) <=> queued = Slot(j)) /\ (Nobodys(j)' <=> Nobodys(j))

LEMMA EnteredOnes ==
  ASSUME MTAssumption, IInv, taken \in Nat, Live, NEW from, NEW at, Frame(from, at), NEW f, NEW a, NEW n \in Nat, NEW i,
         Enters(from, at, f, a, n, i), Enrols(f, a, i)
  PROVE  Elders(from, at, f, a, i)
  <1>1. Shapes /\ JobsPosted
    BY DEF IInv
  <1>2. /\ mt.doneJobID \in Nat /\ mt.nextJobID \in Nat /\ MadeTo \in Nat /\ mt.nextJobID <= MadeTo
        /\ mt.table \in Nat \ {0} /\ mt.doneJobID <= mt.nextJobID
    BY <1>1 DEF Shapes, MTFields, MadeTo, JobsPosted
  <1>3. \A j : Slot(j)' = Slot(j)
    BY DEF Enters, Slot
  <1>4. ASSUME NEW j \in Made
        PROVE  j \in Nat /\ f[j] = from[j] /\ a[j] = at[j] /\ a[j + 1] = at[j + 1] /\ Of(j)' = Of(j)
    <2>1. j \in Nat /\ j \in 0 .. MadeTo /\ j + 1 \in 0 .. MadeTo
      BY <1>2 DEF Made
    <2> QED
      BY <2>1 DEF Enters
  <1>5. Posted \subseteq Made
    BY <1>2 DEF Posted, Made
  <1>6. Sound' => Sound
    <2>1. SUFFICES ASSUME Sound', NEW j \in Made PROVE ~Of(j).error
      BY DEF Sound
    <2>2. j \in Made'
      BY DEF Enters
    <2>3. ~Of(j)'.error
      BY <2>1, <2>2 DEF Sound
    <2> QED
      BY <1>4, <2>3
  <1>7. ASSUME NEW j \in Posted'
        PROVE  \/ j = i /\ (\A w \in Workers : ~HeldBy(j, w)') /\ queued # Slot(j)
               \/ /\ j \in Posted /\ (\A w \in Workers : HeldBy(j, w)' <=> HeldBy(j, w))
                  /\ (queued' = Slot(j) <=> queued = Slot(j)) /\ (Nobodys(j)' <=> Nobodys(j))
    <2>1. \A w : HeldBy(j, w)' <=> HeldBy(j, w)
      BY <1>3 DEF HeldBy, Holds, Enters
    <2>2. CASE j = i
      <3>1. i \in Nat /\ i = mt.nextJobID /\ i < mt.doneJobID + mt.table
        BY <2>2 DEF Enters, Enrols
      <3> QED
        BY <2>1, <2>2, <3>1, NobodyYet
    <2>3. CASE j \in Posted
      <3>1. queued' = Slot(j) <=> queued = Slot(j)
        <4>1. CASE queued' = queued
          BY <4>1
        <4>2. CASE queued' # queued
          <5>1. i \in Nat /\ i = mt.nextJobID /\ i < mt.doneJobID + mt.table /\ queued = None /\ queued' = Slot(i)
            BY <4>2 DEF Enters, Enrols
          <5>2. Slot(j) # Slot(i)
            BY <2>3, <5>1, NobodyYet
          <5>3. Slot(j) # None
            BY <1>2, <2>3 DEF Posted, Slot, None
          <5> QED
            BY <5>1, <5>2, <5>3
        <4> QED
          BY <4>1, <4>2
      <3>2. Nobodys(j)' <=> Nobodys(j)
        BY <1>3, <2>1, <3>1 DEF Nobodys
      <3> QED
        BY <2>1, <2>3, <3>1, <3>2
    <2> QED
      BY <2>2, <2>3 DEF Enters
  <1>8. i \in Nat
    BY DEF Enters
  <1> QED
    BY <1>3, <1>4, <1>5, <1>6, <1>7, <1>8 DEF Elders

LEMMA EnteredWork ==
  ASSUME MTAssumption, IInv, taken \in Nat, Live, NEW from, NEW at, Frame(from, at), NEW f, NEW a, NEW n \in Nat, NEW i,
         Enters(from, at, f, a, n, i), Enrols(f, a, i), n > 0 => ~mt.frameEnded
  PROVE  Outputs(a)' /\ Holders(a)' /\ Waiting' /\ AllDone(a)'
  <1>0. Elders(from, at, f, a, i)
    BY EnteredOnes
  <1>1. /\ \A j : Slot(j)' = Slot(j)
        /\ \A j \in Made : f[j] = from[j] /\ a[j] = at[j] /\ a[j + 1] = at[j + 1] /\ Of(j)' = Of(j)
        /\ Posted \subseteq Made /\ i \in Nat
        /\ \A j \in Posted' : \/ j = i /\ (\A w \in Workers : ~HeldBy(j, w)') /\ queued # Slot(j)
                              \/ /\ j \in Posted /\ (\A w \in Workers : HeldBy(j, w)' <=> HeldBy(j, w))
                                 /\ (queued' = Slot(j) <=> queued = Slot(j)) /\ (Nobodys(j)' <=> Nobodys(j))
    BY <1>0 DEF Elders
  <1>2. taken' = taken + n /\ worker' = worker
    BY DEF Enters
  <1>3. Outputs(a)'
    <2>1. SUFFICES ASSUME NEW j \in Made' PROVE Output(a, taken', j, Of(j)')
      BY DEF Outputs
    <2>2. CASE j \in Made
      <3>1. Output(at, taken + n, j, Of(j))
        BY <2>2, LoadedReads
      <3>2. a[j] = at[j] /\ a[j + 1] = at[j + 1] /\ Of(j)' = Of(j)
        BY <1>1, <2>2
      <3> QED
        BY <1>2, <3>1, <3>2 DEF Output, Share
    <2>3. CASE j \notin Made
      BY <2>3 DEF Enters, Enrols
    <2> QED
      BY <2>2, <2>3
  <1>4. Holders(a)'
    <2>1. SUFFICES ASSUME NEW j \in Posted', NEW w \in Workers, HeldBy(j, w)'
                   PROVE  HeldAs(a, taken', j, Of(j)', worker[w])
      BY <1>2 DEF Holders
    <2>2. j \in Posted /\ HeldBy(j, w) /\ j \in Made
      BY <1>1, <2>1
    <2>3. HeldAs(at, taken + n, j, Of(j), worker[w])
      BY <2>2, LoadedReads DEF Frame, Holders
    <2>4. a[j] = at[j] /\ a[j + 1] = at[j + 1] /\ Of(j)' = Of(j)
      BY <1>1, <2>2
    <2> QED
      BY <1>2, <2>3, <2>4 DEF HeldAs, Ending, Produced, Share
  <1>5. Waiting'
    <2>1. ASSUME NEW j \in Posted', queued' = Slot(j) PROVE Untouched(j, Of(j)') /\ ~Of(j)'.error
      <3>1. CASE j = i
        BY <2>1, <3>1 DEF Enrols
      <3>2. CASE j # i
        <4>1. j \in Posted /\ queued = Slot(j) /\ j \in Made
          BY <1>1, <2>1, <3>2
        <4>2. Untouched(j, Of(j)) /\ ~Of(j).error
          BY <4>1 DEF Frame, Waiting
        <4> QED
          BY <1>1, <4>1, <4>2
      <3> QED
        BY <3>1, <3>2
    <2>2. ASSUME mt'.jobReady
          PROVE  Untouched(mt.nextJobID, Of(mt.nextJobID))' /\ ~Of(mt.nextJobID)'.error
      <3>1. PICK k : k = mt'.nextJobID
        OBVIOUS
      <3>2. Untouched(k, Of(k)') /\ ~Of(k)'.error
        BY <2>2, <3>1 DEF Enrols
      <3> QED
        BY <3>1, <3>2
    <2> QED
      BY <1>1, <2>1, <2>2 DEF Waiting
  <1>6. AllDone(a)'
    <2>1. SUFFICES ASSUME NEW j \in Posted', Nobodys(j)', ~Of(j)'.error PROVE Whole(a, j, Of(j)')
      BY DEF AllDone
    <2>2. CASE j \in Posted
      <3>1. j # i
        BY <2>2 DEF Enters, Posted
      <3>2. Nobodys(j) /\ j \in Made /\ Of(j)' = Of(j)
        BY <1>1, <2>1, <2>2, <3>1
      <3>3. Whole(at, j, Of(j))
        BY <2>1, <2>2, <3>2 DEF Frame, AllDone
      <3>4. a[j] = at[j] /\ a[j + 1] = at[j + 1]
        BY <1>1, <3>2
      <3> QED
        BY <3>2, <3>3, <3>4 DEF Whole, Produced, Share
    <2>3. CASE j \notin Posted
      <3>1. j = i /\ queued' # Slot(j)
        BY <1>1, <2>1, <2>3 DEF Nobodys
      <3> QED
        BY <2>1, <3>1 DEF Enrols
    <2> QED
      BY <2>2, <2>3
  <1> QED
    BY <1>3, <1>4, <1>5, <1>6

LEMMA EnteredRest ==
  ASSUME MTAssumption, IInv, taken \in Nat, InFrame, Live, NEW from, NEW at, Frame(from, at), NEW f, NEW a, NEW n \in Nat, NEW i,
         Enters(from, at, f, a, n, i), Enrols(f, a, i), Loaded(n)
  PROVE  Sources(f)' /\ InTurn(f)' /\ WindowHolds'
  <1>0. Elders(from, at, f, a, i)
    BY EnteredOnes
  <1>1. /\ \A j : Slot(j)' = Slot(j)
        /\ \A j \in Made : f[j] = from[j] /\ Of(j)' = Of(j)
        /\ Posted \subseteq Made /\ (Sound' => Sound) /\ i \in Nat
        /\ \A j \in Posted' : \/ j = i /\ (\A w \in Workers : ~HeldBy(j, w)') /\ queued # Slot(j)
                              \/ /\ j \in Posted /\ (\A w \in Workers : HeldBy(j, w)' <=> HeldBy(j, w))
                                 /\ (queued' = Slot(j) <=> queued = Slot(j)) /\ (Nobodys(j)' <=> Nobodys(j))
    BY <1>0 DEF Elders
  <1>2. worker' = worker /\ serial' = serial /\ mt'.capacity = mt.capacity
        /\ (mt'.inStart = None \/ (mt'.inStart = mt.inStart /\ mt'.pos = mt.pos))
    BY DEF Enters
  <1>3. Sources(f)'
    <2>1. SUFFICES ASSUME NEW j \in Made', Unfinished(Slot(j))'
                   PROVE  \A x \in Of(j)'.src.start .. End(Of(j)'.src) - 1 : round'[x] = f[j] + 1 + x - Of(j)'.src.start
      BY DEF Sources, End
    <2>2. CASE j \in Made
      <3>1. Of(j)' = Of(j) /\ f[j] = from[j] /\ Slot(j)' = Slot(j)
        BY <1>1, <2>2
      <3>2. Unfinished(Slot(j))
        BY <2>1, <3>1 DEF Unfinished, Of
      <3> QED
        BY <2>2, <3>1, <3>2, LoadedSources
    <2>3. CASE j \notin Made
      BY <2>1, <2>3 DEF Enters, Enrols
    <2> QED
      BY <2>2, <2>3
  <1>4. WindowHolds'
    <2>1. ASSUME Sound', window > 0
          PROVE  Segment(serial.window.pre, serial.hashed)' /\ Segment(serial.window.ext, serial.hashed - serial.window.pre.size)'
      <3>1. PICK pre, ext, h : pre = serial.window.pre /\ ext = serial.window.ext /\ h = serial.hashed
        OBVIOUS
      <3>2. Segment(pre, h) /\ Segment(ext, h - pre.size)
        BY <1>1, <2>1, <3>1 DEF Frame, WindowHolds
      <3>3. Segment(pre, h)' /\ Segment(ext, h - pre.size)'
        BY <1>2, <3>2, LoadedSegment
      <3> QED
        BY <1>2, <3>1, <3>3
    <2>2. serial.nextJobID \in Nat /\ SerialIs(serial.nextJobID, serial.hashed, serial.window)
          /\ serial.window = [ext |-> serial.window.ext, pre |-> serial.window.pre]
      BY DEF Frame, WindowHolds
    <2>3. SerialIs(serial.nextJobID, serial.hashed, serial.window)'
      BY <1>2, <2>2 DEF SerialIs
    <2> QED
      BY <1>2, <2>1, <2>2, <2>3 DEF WindowHolds
  <1>5. InTurn(f)'
    <2> SUFFICES ASSUME Sound'
                 PROVE  /\ serial'.nextJobID <= mt'.nextJobID /\ serial'.hashed = f[serial'.nextJobID]
                        /\ ~mt'.frameEnded \/ mt'.doneJobID < MadeTo' => mt'.doneJobID <= serial'.nextJobID
                        /\ \A j \in Posted', w \in Workers : HeldBy(j, w)' =>
                             /\ worker'[w].at \in TurnToCome => serial'.nextJobID <= j
                             /\ worker'[w].at \in TurnTaken => serial'.nextJobID > j
                        /\ \A j \in Posted' : queued' = Slot(j) => serial'.nextJobID <= j
                        /\ \A j \in Posted' : Nobodys(j)' => serial'.nextJobID > j \/ Of(j)'.src.size = 0
      BY <1>1 DEF InTurn, TurnToCome, TurnTaken
    <2>1. /\ serial.nextJobID <= mt.nextJobID /\ serial.hashed = from[serial.nextJobID]
          /\ ~mt.frameEnded \/ mt.doneJobID < MadeTo => mt.doneJobID <= serial.nextJobID
          /\ \A j \in Posted, w \in Workers : HeldBy(j, w) =>
               /\ worker[w].at \in TurnToCome => serial.nextJobID <= j
               /\ worker[w].at \in TurnTaken => serial.nextJobID > j
          /\ \A j \in Posted : queued = Slot(j) => serial.nextJobID <= j
          /\ \A j \in Posted : Nobodys(j) => serial.nextJobID > j \/ Of(j).src.size = 0
      BY <1>1 DEF Frame, InTurn
    <2>2. /\ serial.nextJobID \in Nat /\ mt.nextJobID \in Nat /\ mt'.nextJobID \in Nat
          /\ mt.nextJobID <= mt'.nextJobID /\ mt.nextJobID <= MadeTo /\ MadeTo \in Nat
          /\ i = mt.nextJobID
      BY DEF Frame, WindowHolds, Enters, IInv, Shapes, MTFields, MadeTo
    <2>3. serial'.nextJobID <= mt'.nextJobID /\ serial'.hashed = f[serial'.nextJobID]
      <3>1. serial.nextJobID \in 0 .. MadeTo
        BY <2>1, <2>2
      <3>2. f[serial.nextJobID] = from[serial.nextJobID]
        BY <3>1 DEF Enters
      <3>3. serial.nextJobID <= mt'.nextJobID
        BY <2>1, <2>2
      <3> QED
        BY <1>2, <2>1, <3>2, <3>3
    <2>4. ~mt'.frameEnded \/ mt'.doneJobID < MadeTo' => mt'.doneJobID <= serial'.nextJobID
      BY <1>2, <2>1 DEF Enters
    <2>5. \A j \in Posted', w \in Workers : HeldBy(j, w)' =>
            /\ worker'[w].at \in TurnToCome => serial'.nextJobID <= j
            /\ worker'[w].at \in TurnTaken => serial'.nextJobID > j
      BY <1>1, <1>2, <2>1
    <2>6. \A j \in Posted' : queued' = Slot(j) => serial'.nextJobID <= j
      BY <1>1, <1>2, <2>1, <2>2
    <2>7. ASSUME NEW j \in Posted', Nobodys(j)' PROVE serial'.nextJobID > j \/ Of(j)'.src.size = 0
      <3>1. CASE j \in Posted
        <4>1. j # i
          BY <2>2, <3>1 DEF Posted
        <4> QED
          BY <1>1, <1>2, <2>1, <2>7, <3>1, <4>1
      <3>2. CASE j \notin Posted
        <4>1. j = i /\ queued' # Slot(j)
          BY <1>1, <2>7, <3>2 DEF Nobodys
        <4> QED
          BY <4>1 DEF Enrols
      <3> QED
        BY <3>1, <3>2
    <2> QED
      BY <2>3, <2>4, <2>5, <2>6, <2>7
  <1> QED
    BY <1>3, <1>4, <1>5

LEMMA EnteredOut ==
  ASSUME MTAssumption, IInv, taken \in Nat, Live, NEW from, NEW at, Frame(from, at), NEW f, NEW a, NEW n \in Nat, NEW i,
         Enters(from, at, f, a, n, i), Enrols(f, a, i), out' = out, out \in Seq(Int),
         i \in Made' \ Made => Of(i)'.dstFlushed = 0
  PROVE  FlushedTo(a)'
  <1>0. Elders(from, at, f, a, i)
    BY EnteredOnes
  <1>1. /\ \A j \in Made : Of(j)' = Of(j)
        /\ Made' \subseteq Made \cup {i} /\ Made \subseteq Made'
        /\ taken' = taken + n /\ mt'.doneJobID = mt.doneJobID
        /\ mt.frameEnded => mt'.frameEnded
        /\ i = mt.nextJobID /\ i \in Nat
    BY <1>0 DEF Elders, Enters
  <1>2. PICK d \in Nat : d = mt.doneJobID
    BY DEF IInv, Shapes, MTFields
  <1>3. MadeTo \in Nat /\ mt.nextJobID \in Nat /\ d <= mt.nextJobID /\ mt.nextJobID <= MadeTo
    BY <1>2 DEF IInv, Shapes, MTFields, JobsPosted, MadeTo
  <1>4. MadeTo' \in Nat
    BY DEF Enters, MadeTo
  <1>5. /\ \A j \in Made : Of(j).dstFlushed \in Nat /\ (j > d => Of(j).dstFlushed = 0)
        /\ d < MadeTo /\ ~Of(d).error => Of(d).dstFlushed <= Len(Of(d).cdata)
        /\ Len(out) = at[d] + (IF d < MadeTo THEN Of(d).dstFlushed ELSE 0)
        /\ Len(out) <= taken + (IF mt.frameEnded THEN 3 ELSE 1)
    BY <1>2 DEF Frame, FlushedTo
  <1>6. \A j \in Made' : Of(j)'.dstFlushed \in Nat /\ (j > d => Of(j)'.dstFlushed = 0)
    BY <1>1, <1>5
  <1>7. d < MadeTo <=> d \in Made
    BY <1>2, <1>3 DEF Made
  <1>8. d < MadeTo' <=> d \in Made'
    BY <1>1, <1>2, <1>4 DEF Made
  <1>9. d \in Made' => d \in Made \/ (d = i /\ i \in Made' \ Made)
    BY <1>1
  <1>10. d < MadeTo' /\ ~Of(d)'.error => Of(d)'.dstFlushed <= Len(Of(d)'.cdata)
    <2>1. SUFFICES ASSUME d \in Made', ~Of(d)'.error PROVE Of(d)'.dstFlushed <= Len(Of(d)'.cdata)
      BY <1>8
    <2>2. CASE d \in Made
      BY <1>1, <1>5, <1>7, <2>1, <2>2
    <2>3. CASE d = i /\ i \in Made' \ Made
      <3>1. Output(a, taken', i, Of(i)') /\ Of(i)'.dstFlushed = 0
        BY <2>3 DEF Enrols
      <3>2. Of(i)'.cdata \in Seq(Int)
        BY <2>1, <2>3, <3>1 DEF Output, Reads
      <3>3. Len(Of(i)'.cdata) \in Nat
        BY <3>2, LenProperties
      <3> QED
        BY <2>3, <3>1, <3>3
    <2> QED
      BY <1>9, <2>1, <2>2, <2>3
  <1>11. Len(out) = a[d] + (IF d < MadeTo' THEN Of(d)'.dstFlushed ELSE 0)
    <2>1. a[d] = at[d]
      <3>1. d \in 0 .. MadeTo
        BY <1>2, <1>3
      <3> QED
        BY <3>1 DEF Enters
    <2>2. CASE d \in Made
      BY <1>1, <1>5, <1>7, <1>8, <2>1, <2>2
    <2>3. CASE d \notin Made
      <3>1. Len(out) = at[d] + 0
        BY <1>5, <1>7, <2>3
      <3>2. d \in Made' => Of(d)'.dstFlushed = 0
        BY <1>9, <2>3
      <3> QED
        BY <1>8, <2>1, <3>1, <3>2
    <2> QED
      BY <2>2, <2>3
  <1>12. Len(out) <= taken' + (IF mt'.frameEnded THEN 3 ELSE 1)
    <2>1. Len(out) \in Nat
      BY LenProperties
    <2>2. taken + (IF mt.frameEnded THEN 3 ELSE 1) <= taken' + (IF mt'.frameEnded THEN 3 ELSE 1)
      BY <1>1
    <2>3. PICK x \in Int, y \in Int : x = taken + (IF mt.frameEnded THEN 3 ELSE 1) /\ y = taken' + (IF mt'.frameEnded THEN 3 ELSE 1)
      BY <1>1
    <2> QED
      BY <1>5, <2>1, <2>2, <2>3
  <1>13. mt'.doneJobID = d
    BY <1>1, <1>2
  <1> QED
    BY <1>6, <1>10, <1>11, <1>12, <1>13 DEF FlushedTo

\* With no new job, the places are the same.
LEMMA PlacedSame ==
  ASSUME MTAssumption, IInv, taken \in Nat, NEW from, NEW at, Frame(from, at), NEW n \in Nat, n > 0 => ~mt.frameEnded,
         MadeTo' = MadeTo, Made' = Made, mt'.frameEnded = mt.frameEnded, \A j \in Made : Of(j)' = Of(j),
         taken' = taken + n, mt'.filled = mt.filled + n
  PROVE  Placed(from, at)'
  <1>1. /\ from \in [Nat -> Nat] /\ at \in [Nat -> Nat] /\ from[0] = 0 /\ at[0] = 0
        /\ from[MadeTo] = taken - mt.filled
        /\ at[MadeTo] = IF MadeTo = 0 THEN 0 ELSE from[MadeTo] + 1 + (IF mt.frameEnded THEN 2 ELSE 0)
        /\ \A j \in Made : Of(j).lastJob = (mt.frameEnded /\ j = MadeTo - 1)
    BY DEF Frame, Placed
  <1>2. \A j \in Made : JobPlaced(from, at, taken', j, Of(j)')
    BY LoadedReads
  <1>3. PICK t \in Nat : t = MadeTo
    BY DEF IInv, Shapes, MTFields, MadeTo
  <1>4. from[t] = taken' - mt'.filled
    <2>1. mt.filled \in Int
      BY Constants DEF IInv, Shapes, MTFields
    <2> QED
      BY <1>1, <1>3, <2>1
  <1>5. MadeTo' = t
    BY <1>3
  <1> QED
    BY <1>1, <1>2, <1>3, <1>4, <1>5 DEF Placed

\* A new job comes behind the others.
Beyond(from, i, x) == [from EXCEPT ![i + 1] = x]

LEMMA PlacedNext ==
  ASSUME MTAssumption, IInv, taken \in Nat, NEW from, NEW at, Frame(from, at), NEW n \in Nat, ~mt.frameEnded, ~mt.jobReady,
         NEW f, NEW a, NEW last \in BOOLEAN, NEW i, i = mt.nextJobID,
         f = Beyond(from, i, taken + n), a = Beyond(at, i, taken + n + 1 + (IF last THEN 2 ELSE 0)),
         MadeTo' = i + 1, Made' = Made \cup {i}, mt'.frameEnded = last, \A j \in Made : Of(j)' = Of(j),
         taken' = taken + n, mt'.filled = 0,
         Of(i)'.jobID = i, Of(i)'.lastJob = last, Of(i)'.src.size = mt.filled + n, mt.filled + n > 0 \/ last
  PROVE  Placed(f, a)'
  <1>1. /\ from \in [Nat -> Nat] /\ at \in [Nat -> Nat] /\ from[0] = 0 /\ at[0] = 0
        /\ from[MadeTo] = taken - mt.filled
        /\ at[MadeTo] = IF MadeTo = 0 THEN 0 ELSE from[MadeTo] + 1 + (IF mt.frameEnded THEN 2 ELSE 0)
        /\ \A j \in Made : Of(j).lastJob = (mt.frameEnded /\ j = MadeTo - 1)
    BY DEF Frame, Placed
  <1>2. i \in Nat /\ MadeTo = i /\ mt.filled \in Nat /\ mt.doneJobID \in Nat
    BY Constants DEF IInv, Shapes, MTFields, MadeTo
  <1>3. PICK x \in Nat, y \in Nat : x = taken + n /\ y = taken + n + 1 + (IF last THEN 2 ELSE 0)
    OBVIOUS
  <1>4. /\ f \in [Nat -> Nat] /\ a \in [Nat -> Nat] /\ f[i + 1] = x /\ a[i + 1] = y
        /\ \A j \in 0 .. i : f[j] = from[j] /\ a[j] = at[j]
    <2>1. f = Beyond(from, i, x) /\ a = Beyond(at, i, y)
      BY <1>3
    <2>4. from \in [Nat -> Nat] /\ at \in [Nat -> Nat] /\ i \in Nat /\ x \in Nat /\ y \in Nat
      BY <1>1, <1>2
    <2>2. f \in [Nat -> Nat] /\ f[i + 1] = x /\ \A j \in 0 .. i : f[j] = from[j]
      BY ONLY <2>1, <2>4 DEF Beyond
    <2>3. a \in [Nat -> Nat] /\ a[i + 1] = y /\ \A j \in 0 .. i : a[j] = at[j]
      BY ONLY <2>1, <2>4 DEF Beyond
    <2> QED
      BY <2>2, <2>3
  <1>5. f[0] = 0 /\ a[0] = 0 /\ f[i] = taken - mt.filled /\ (i > 0 => a[i] = f[i] + 1)
    <2>1. 0 \in 0 .. i /\ i \in 0 .. i
      BY <1>2
    <2>2. f[0] = from[0] /\ a[0] = at[0] /\ f[i] = from[i] /\ a[i] = at[i]
      BY ONLY <1>4, <2>1
    <2>3. from[i] \in Nat /\ (i > 0 => at[i] = from[i] + 1 + 0)
      <3>1. at[i] = IF i = 0 THEN 0 ELSE from[i] + 1 + (IF mt.frameEnded THEN 2 ELSE 0)
        BY ONLY <1>1, <1>2
      <3>2. from[i] \in Nat
        BY ONLY <1>1, <1>2
      <3>3. ~mt.frameEnded
        OBVIOUS
      <3> QED
        BY ONLY <1>2, <3>1, <3>2, <3>3
    <2> QED
      BY ONLY <1>1, <1>2, <2>2, <2>3
  <1>6. ASSUME NEW j \in Made
        PROVE  JobPlaced(f, a, taken', j, Of(j)') /\ Of(j)'.lastJob = (last /\ j = i)
    <2>1. JobPlaced(from, at, taken', j, Of(j)')
      BY LoadedReads
    <2>2. j \in 0 .. i /\ j + 1 \in 0 .. i /\ j # i
      BY <1>2 DEF Made
    <2>3. f[j] = from[j] /\ a[j] = at[j] /\ f[j + 1] = from[j + 1] /\ a[j + 1] = at[j + 1]
      BY <1>4, <2>2
    <2>4. Of(j)'.lastJob = FALSE
      BY <1>1
    <2> QED
      BY <2>1, <2>2, <2>3, <2>4 DEF JobPlaced
  <1>7. JobPlaced(f, a, taken', i, Of(i)')
    <2>1. f[i + 1] = f[i] + Of(i)'.src.size
      BY <1>2, <1>3, <1>4, <1>5
    <2>2. f[i + 1] <= taken'
      BY <1>3, <1>4
    <2>3. a[i + 1] = f[i + 1] + 1 + (IF Of(i)'.lastJob THEN 2 ELSE 0)
      BY <1>3, <1>4
    <2>4. Of(i)'.src.size = 0 => Of(i)'.lastJob
      BY <1>2
    <2> QED
      BY <1>5, <2>1, <2>2, <2>3, <2>4 DEF JobPlaced
  <1>8. \A j \in Made' : JobPlaced(f, a, taken', j, Of(j)') /\ Of(j)'.lastJob = (mt'.frameEnded /\ j = MadeTo' - 1)
    <2>1. MadeTo' - 1 = i
      BY <1>2
    <2> QED
      BY <1>6, <1>7, <2>1
  <1>9. f[i + 1] = taken' - mt'.filled
    BY <1>3, <1>4
  <1>10. a[i + 1] = IF i + 1 = 0 THEN 0 ELSE f[i + 1] + 1 + (IF mt'.frameEnded THEN 2 ELSE 0)
    BY <1>2, <1>3, <1>4
  <1> QED
    BY <1>4, <1>5, <1>8, <1>9, <1>10 DEF Placed

LEMMA EnteredFrame ==
  ASSUME MTAssumption, IInv, OutputRead, InFrame, Live, NEW from, NEW at, Frame(from, at), NEW f, NEW a, NEW n \in Nat, NEW i,
         Enters(from, at, f, a, n, i), Enrols(f, a, i), Loaded(n), n > 0 => ~mt.frameEnded, out' = out,
         i \in Made' \ Made => Of(i)'.dstFlushed = 0, Placed(f, a)', AfterEnd'
  PROVE  Frame(f, a)'
  <1>1. taken \in Nat /\ out \in Seq(Int)
    BY DEF OutputRead, Reads
  <1>2. FlushedTo(a)'
    BY <1>1, EnteredOut
  <1>3. Outputs(a)' /\ Holders(a)' /\ Waiting' /\ AllDone(a)'
    BY <1>1, EnteredWork
  <1>4. Sources(f)' /\ InTurn(f)' /\ WindowHolds'
    BY <1>1, EnteredRest
  <1> QED
    BY <1>2, <1>3, <1>4 DEF Frame

\* When the frame has ended, there is nothing to load.
LEMMA LoadsBeforeEnd ==
  ASSUME IInv, NEW from, NEW at, Frame(from, at), NEW n \in Nat, NEW last \in BOOLEAN, Loaded(n), CallLoaded(n, last)
  PROVE  /\ n > 0 => ~mt.frameEnded
         /\ mt.frameEnded => MadeTo > 0 /\ mt.filled + n = 0 /\ caller'.avail <= 0
  <1>1. caller.avail \in Int /\ mt.filled \in Int
    BY DEF IInv, Shapes, MTFields, CallLoaded
  <1>2. mt.frameEnded => mt.filled = 0 /\ MadeTo > 0 /\ caller.avail <= 0
    BY DEF Frame, AfterEnd
  <1>3. caller'.avail = caller.avail - n /\ (n > 0 => caller.avail > 0)
    BY DEF CallLoaded
  <1> QED
    BY <1>1, <1>2, <1>3

LEMMA LoadOnlyFrame ==
  ASSUME MTAssumption, IInv, OutputRead, InFrame, Live, NEW from, NEW at, Frame(from, at),
         NEW n \in Nat, NEW last \in BOOLEAN, Loaded(n), CallLoaded(n, last),
         worker' = worker, serial' = serial, out' = out, mt' = Filled(n), jobs' = jobs, queued' = queued
  PROVE  Frame(from, at)'
  <1>1. Shapes /\ JobsPosted
    BY DEF IInv
  <1>2. PICK i \in Nat : i = mt.nextJobID
    BY <1>1 DEF Shapes, MTFields
  <1>3. /\ mt'.filled = mt.filled + n /\ mt'.table = mt.table /\ mt'.capacity = mt.capacity /\ mt'.pos = mt.pos
        /\ mt'.inStart = mt.inStart /\ mt'.jobReady = mt.jobReady /\ mt'.nextJobID = mt.nextJobID
        /\ mt'.doneJobID = mt.doneJobID /\ mt'.frameEnded = mt.frameEnded
    BY <1>1, FilledIs
  <1>4. MadeTo' = MadeTo /\ Made' = Made /\ Posted' = Posted /\ (\A j : Slot(j)' = Slot(j))
    BY <1>3 DEF MadeTo, Made, Posted, Slot
  <1>5. \A j : Of(j)' = Of(j)
    BY <1>4 DEF Of
  <1>6. taken' = taken + n
    BY DEF Loaded
  <1>7. Enters(from, at, from, at, n, i)
    BY <1>1, <1>2, <1>3, <1>4, <1>5, <1>6 DEF Enters, Shapes, MTFields
  <1>8. i \notin Posted' /\ (i \in Made' => mt.jobReady)
    <2>1. i \notin Posted /\ (i \in Made => mt.jobReady)
      BY <1>1, <1>2 DEF Posted, Made, MadeTo
    <2> QED
      BY <1>4, <2>1
  <1>9. mt.jobReady => i < mt.doneJobID + mt.table
    BY <1>1, <1>2 DEF JobsPosted
  <1>10. mt'.jobReady => mt'.nextJobID = i /\ Untouched(i, Of(i)') /\ ~Of(i)'.error
    BY <1>2, <1>3, <1>5 DEF Frame, Waiting
  <1>11. Enrols(from, at, i)
    BY <1>4, <1>8, <1>9, <1>10 DEF Enrols
  <1>12. /\ n > 0 => ~mt.frameEnded
         /\ mt.frameEnded => MadeTo > 0 /\ mt.filled + n = 0 /\ caller'.avail <= 0
    BY LoadsBeforeEnd
  <1>13. Placed(from, at)'
    BY <1>3, <1>4, <1>5, <1>6, <1>12, PlacedSame DEF OutputRead
  <1>14. AfterEnd'
    BY <1>3, <1>4, <1>12 DEF AfterEnd
  <1> QED
    BY <1>4, <1>7, <1>11, <1>12, <1>13, <1>14, EnteredFrame

LEMMA ReadyFrame ==
  ASSUME MTAssumption, IInv, OutputRead, InFrame, Live, NEW from, NEW at, Frame(from, at),
         NEW n \in Nat, NEW last \in BOOLEAN, Loaded(n), CallLoaded(n, last),
         worker' = worker, serial' = serial, out' = out, mt.jobReady,
         Post(Filled(n), Slot(mt.nextJobID)), jobs' = jobs
  PROVE  Frame(from, at)'
  <1>1. Shapes /\ JobsPosted
    BY DEF IInv
  <1>2. PICK i \in Nat : i = mt.nextJobID
    BY <1>1 DEF Shapes, MTFields
  <1> DEFINE m == Filled(n)
  <1>3. /\ m \in MTFields /\ m.filled = mt.filled + n
        /\ m.table = mt.table /\ m.capacity = mt.capacity /\ m.pos = mt.pos
        /\ m.inStart = mt.inStart /\ m.jobReady = mt.jobReady /\ m.nextJobID = mt.nextJobID
        /\ m.doneJobID = mt.doneJobID /\ m.frameEnded = mt.frameEnded
    BY <1>1, FilledIs
  <1>4. Post(m, Slot(i))
    BY <1>2
  <1> HIDE DEF m
  <1>5. /\ mt'.filled = mt.filled + n /\ mt'.table = mt.table /\ mt'.capacity = mt.capacity /\ mt'.pos = mt.pos
        /\ mt'.inStart = mt.inStart /\ mt'.doneJobID = mt.doneJobID /\ mt'.frameEnded = mt.frameEnded
        /\ \/ mt'.nextJobID = i + 1 /\ ~mt'.jobReady /\ queued = None /\ queued' = Slot(i)
           \/ mt'.nextJobID = i /\ mt'.jobReady /\ queued' = queued
    BY <1>2, <1>3, <1>4, PostIs
  <1>6. mt.doneJobID \in Nat /\ mt.doneJobID <= i /\ MadeTo = i + 1 /\ i < mt.doneJobID + mt.table
    BY <1>1, <1>2 DEF Shapes, MTFields, JobsPosted, MadeTo
  <1>7. MadeTo' = i + 1
    BY <1>2, <1>5 DEF MadeTo
  <1>8. MadeTo' = MadeTo /\ Made' = Made /\ (\A j : Slot(j)' = Slot(j)) /\ i \in Made
    BY <1>5, <1>6, <1>7 DEF Made, Slot
  <1>9. \A j : Of(j)' = Of(j)
    BY <1>8 DEF Of
  <1>10. Untouched(i, Of(i)') /\ ~Of(i)'.error
    BY <1>2, <1>9 DEF Frame, Waiting
  <1>11. Posted' \subseteq Posted \cup {i} /\ (i \in Posted' => queued' = Slot(i)) /\ (queued' = queued \/ i \in Posted')
    BY <1>2, <1>5, <1>6 DEF Posted
  <1>12. taken' = taken + n
    BY DEF Loaded
  <1>13. Enters(from, at, from, at, n, i)
    BY <1>2, <1>5, <1>8, <1>9, <1>11, <1>12 DEF Enters
  <1>14. Enrols(from, at, i)
    BY <1>5, <1>6, <1>8, <1>10, <1>11 DEF Enrols
  <1>15. /\ n > 0 => ~mt.frameEnded
         /\ mt.frameEnded => MadeTo > 0 /\ mt.filled + n = 0 /\ caller'.avail <= 0
    BY LoadsBeforeEnd
  <1>16. Placed(from, at)'
    BY <1>5, <1>8, <1>9, <1>12, <1>15, PlacedSame DEF OutputRead
  <1>17. AfterEnd'
    BY <1>5, <1>8, <1>15 DEF AfterEnd
  <1> QED
    BY <1>8, <1>13, <1>14, <1>15, <1>16, <1>17, EnteredFrame

\* What a new job is made of: some input, or nothing but the end of the frame.
Filling(J, i, n, last) ==
  /\ J.jobID = i /\ J.lastJob = last /\ J.frameChecksumNeeded = (last /\ i > 0)
  /\ J.consumed = 0 /\ J.dstFlushed = 0 /\ J.src.size = mt.filled + n
  /\ mt.filled + n > 0 => J.src.start = mt.inStart

NewMT(i, last) ==
  /\ mt'.filled = 0 /\ mt'.inStart = None /\ mt'.table = mt.table /\ mt'.capacity = mt.capacity
  /\ mt'.doneJobID = mt.doneJobID /\ mt'.frameEnded = last

\* It goes to the pool, waits for room there, or is done by the caller's thread.
NewAt(J, i, n) ==
  \/ mt'.nextJobID = i + 1 /\ mt'.jobReady = FALSE /\ queued = None /\ queued' = Slot(i) /\ J.cdata = <<>> /\ ~J.error
  \/ mt'.nextJobID = i /\ mt'.jobReady = TRUE /\ queued' = queued /\ J.cdata = <<>> /\ ~J.error
  \/ /\ mt'.nextJobID = i + 1 /\ mt'.jobReady = FALSE /\ queued' = queued
     /\ mt.filled + n = 0 /\ i > 0 /\ (J.error \/ J.cdata = <<LastBlock>>)

\* The bytes of a new job are behind those of the others.
LEMMA NewSource ==
  ASSUME MTAssumption, IInv, InFrame, NEW n \in Nat, Loaded(n), mt.filled + n > 0
  PROVE  /\ mt.inStart \in Nat
         /\ \A x \in mt.inStart .. mt.inStart + (mt.filled + n) - 1 : round'[x] = taken - mt.filled + 1 + x - mt.inStart
  <1>1. Shapes /\ KeptIntact /\ BufferInv
    BY DEF IInv, InFrame
  <1>2. InputAt
    BY <1>1 DEF BufferInv, InFrame
  <1>3. mt.filled \in Nat /\ mt.pos \in Nat /\ mt.prefix.size \in Nat
    BY <1>1, Constants DEF Shapes, MTFields, Ranges
  <1>4. mt.inStart # None
    BY <1>2, <1>3 DEF InputAt, Loaded
  <1>5. mt.inStart = mt.pos
    BY <1>2, <1>4 DEF InputAt
  <1>6. \A x \in mt.pos - mt.prefix.size .. mt.pos + mt.filled + n - 1 : round'[x] = taken - mt.filled + 1 + x - mt.pos
    BY <1>1, LoadedBytes DEF InFrame
  <1>7. ASSUME NEW x \in mt.pos .. mt.pos + (mt.filled + n) - 1 PROVE round'[x] = taken - mt.filled + 1 + x - mt.pos
    <2>1. x \in mt.pos - mt.prefix.size .. mt.pos + mt.filled + n - 1
      BY <1>3
    <2> QED
      BY <1>6, <2>1
  <1> QED
    BY <1>3, <1>5, <1>7

LEMMA NewOutput ==
  ASSUME NEW k \in Nat, NEW i \in Nat, NEW at \in [Nat -> Nat],
         NEW last \in BOOLEAN, NEW fill \in Nat, NEW J,
         at[i] \in Nat, at[i + 1] = k + 1 + (IF last THEN 2 ELSE 0), at[i] = (IF i = 0 THEN 0 ELSE k - fill + 1),
         J.lastJob = last, J.frameChecksumNeeded = (last /\ i > 0),
         J.cdata = <<>> \/ J.error \/ (fill = 0 /\ i > 0 /\ last /\ J.cdata = <<LastBlock>>)
  PROVE  Output(at, k, i, J) /\ (J.cdata = <<LastBlock>> /\ ~J.error => Whole(at, i, J))
  <1>1. CASE J.error
    BY <1>1 DEF Output
  <1>2. CASE ~J.error /\ J.cdata = <<>>
    <2>1. Reads(k, <<>>, at[i]) /\ Len(<<>>) = 0
      BY DEF Reads
    <2>2. 0 <= at[i + 1] - at[i]
      <3>1. PICK p \in Nat : p = at[i]
        OBVIOUS
      <3>2. PICK q \in Nat : q = at[i + 1]
        OBVIOUS
      <3>0. p = (IF i = 0 THEN 0 ELSE k - fill + 1) /\ q = k + 1 + (IF last THEN 2 ELSE 0)
        BY ONLY <3>1, <3>2, at[i + 1] = k + 1 + (IF last THEN 2 ELSE 0), at[i] = (IF i = 0 THEN 0 ELSE k - fill + 1)
      <3>3. p <= k + 1 /\ q >= k + 1
        BY ONLY <3>0, k \in Nat, fill \in Nat, p \in Nat, q \in Nat
      <3>4. 0 <= q - p
        BY <3>3
      <3> QED
        BY ONLY <3>1, <3>2, <3>4
    <2>3. <<>> # <<LastBlock>>
      OBVIOUS
    <2> QED
      BY <1>2, <2>1, <2>2, <2>3 DEF Output, Share
  <1>3. CASE ~J.error /\ J.cdata # <<>>
    <2>1. fill = 0 /\ i > 0 /\ last /\ J.cdata = <<LastBlock>> /\ J.frameChecksumNeeded
      BY <1>3
    <2>2. at[i] = k + 1 /\ at[i + 1] = k + 3
      BY <2>1
    <2>3. Len(<<LastBlock>>) = 1 /\ <<LastBlock>>[1] = LastBlock /\ <<LastBlock>> \in Seq(Int)
      BY DEF LastBlock
    <2>4. SymbolAt(k, k + 1 + 1) = LastBlock
      BY DEF SymbolAt
    <2>5. Reads(k, <<LastBlock>>, k + 1)
      BY <2>3, <2>4 DEF Reads
    <2>6. Share(at, i) = 2
      BY <2>2 DEF Share
    <2>7. Produced(at, i, J) = 1
      BY <2>1, <2>6 DEF Produced
    <2> QED
      BY <2>1, <2>2, <2>3, <2>5, <2>6, <2>7 DEF Output, Whole
  <1> QED
    BY <1>1, <1>2, <1>3

LEMMA NewFrame ==
  ASSUME MTAssumption, IInv, OutputRead, InFrame, Live, NEW from, NEW at, Frame(from, at),
         NEW n \in Nat, NEW last \in BOOLEAN, Loaded(n), CallLoaded(n, last), JobDue(n, last),
         worker' = worker, serial' = serial, out' = out, ~mt.jobReady,
         NEW i \in Nat, i = mt.nextJobID, i < mt.doneJobID + mt.table,
         NEW J, Slot(i) \in Slots, SlotChanges(Slot(i)), jobs'[Slot(i)] = J, Filling(J, i, n, last), NewMT(i, last), NewAt(J, i, n)
  PROVE  \E f, a : Frame(f, a)'
  <1>1. Shapes /\ JobsPosted
    BY DEF IInv
  <1>2. /\ taken \in Nat /\ mt.filled \in Nat /\ mt.doneJobID \in Nat /\ mt.doneJobID <= i /\ MadeTo = i
        /\ mt.table \in Nat \ {0}
    BY <1>1, Constants DEF OutputRead, Shapes, MTFields, JobsPosted, MadeTo
  <1>3. /\ n > 0 => ~mt.frameEnded
        /\ mt.frameEnded => MadeTo > 0 /\ mt.filled + n = 0 /\ caller'.avail <= 0
    BY LoadsBeforeEnd
  <1>4. ~mt.frameEnded /\ (mt.filled + n > 0 \/ last)
    BY <1>2, <1>3 DEF JobDue
  <1>5. /\ mt'.filled = 0 /\ mt'.inStart = None /\ mt'.table = mt.table /\ mt'.capacity = mt.capacity
        /\ mt'.doneJobID = mt.doneJobID /\ mt'.frameEnded = last
    BY DEF NewMT
  <1>6. \A j : Slot(j)' = Slot(j)
    BY <1>5 DEF Slot
  <1>7. MadeTo' = i + 1
    BY DEF NewAt, MadeTo
  <1>8. Made' = Made \cup {i} /\ i \notin Made
    <2>1. Made = mt.doneJobID .. i - 1 /\ Made' = mt.doneJobID .. i
      BY <1>2, <1>5, <1>7 DEF Made
    <2> QED
      BY <1>2, <2>1
  <1>9. Of(i)' = J
    BY <1>6 DEF Of
  <1>10. \A j \in Made : Of(j)' = Of(j)
    <2>1. SUFFICES ASSUME NEW j \in Made PROVE Of(j)' = Of(j)
      OBVIOUS
    <2>2. j \in Posted
      BY <1>2, <2>1 DEF Made, Posted
    <2>3. Slot(j) # Slot(i) /\ Slot(j) \in Slots
      BY <1>1, <1>2, <2>2, NobodyYet, KeptSlots DEF Posted
    <2> QED
      BY <1>6, <2>3 DEF Of, SlotChanges
  <1>11. taken' = taken + n
    BY DEF Loaded
  <1>12. /\ J.jobID = i /\ J.lastJob = last /\ J.frameChecksumNeeded = (last /\ i > 0)
         /\ J.consumed = 0 /\ J.dstFlushed = 0 /\ J.src.size = mt.filled + n
         /\ mt.filled + n > 0 => J.src.start = mt.inStart
    BY DEF Filling
  <1>30. PICK f, a : f = Beyond(from, i, taken + n) /\ a = Beyond(at, i, taken + n + 1 + (IF last THEN 2 ELSE 0))
    OBVIOUS
  <1>13. /\ from \in [Nat -> Nat] /\ at \in [Nat -> Nat] /\ from[i] = taken - mt.filled
         /\ at[i] = IF i = 0 THEN 0 ELSE from[i] + 1
    BY <1>2, <1>4 DEF Frame, Placed
  <1>14. /\ f \in [Nat -> Nat] /\ a \in [Nat -> Nat] /\ a[i + 1] = taken + n + 1 + (IF last THEN 2 ELSE 0)
         /\ \A j \in 0 .. i : f[j] = from[j] /\ a[j] = at[j]
    <2>1. PICK x \in Nat, y \in Nat : x = taken + n /\ y = taken + n + 1 + (IF last THEN 2 ELSE 0)
      BY <1>2
    <2>2. f = Beyond(from, i, x) /\ a = Beyond(at, i, y)
      BY <1>30, <2>1
    <2>3. f \in [Nat -> Nat] /\ \A j \in 0 .. i : f[j] = from[j]
      BY ONLY <1>13, <2>2, i \in Nat, x \in Nat DEF Beyond
    <2>4. a \in [Nat -> Nat] /\ a[i + 1] = y /\ \A j \in 0 .. i : a[j] = at[j]
      BY ONLY <1>13, <2>2, i \in Nat, y \in Nat DEF Beyond
    <2> QED
      BY <2>1, <2>3, <2>4
  <1>15. Placed(f, a)'
    BY <1>2, <1>4, <1>5, <1>7, <1>8, <1>9, <1>10, <1>11, <1>12, <1>30, PlacedNext
  <1>16. f[i] = taken - mt.filled /\ a[i] = (IF i = 0 THEN 0 ELSE taken - mt.filled + 1) /\ a[i] \in Nat
    BY <1>13, <1>14
  <1>17. Output(a, taken', i, J) /\ (J.cdata = <<LastBlock>> /\ ~J.error => Whole(a, i, J))
    <2>1. PICK k \in Nat : k = taken + n
      BY <1>2
    <2>2. PICK fill \in Nat : fill = mt.filled + n
      BY <1>2
    <2>3. a[i] = (IF i = 0 THEN 0 ELSE k - fill + 1)
      BY <1>2, <1>16, <2>1, <2>2
    <2>4. a[i + 1] = k + 1 + (IF last THEN 2 ELSE 0)
      BY <1>14, <2>1
    <2>5. J.cdata = <<>> \/ J.error \/ (fill = 0 /\ i > 0 /\ last /\ J.cdata = <<LastBlock>>)
      BY <1>4, <2>2 DEF NewAt
    <2>7. a \in [Nat -> Nat] /\ a[i] \in Nat /\ J.lastJob = last /\ J.frameChecksumNeeded = (last /\ i > 0)
      BY <1>12, <1>14, <1>16
    <2>6. Output(a, k, i, J) /\ (J.cdata = <<LastBlock>> /\ ~J.error => Whole(a, i, J))
      BY <2>3, <2>4, <2>5, <2>7, NewOutput
    <2> QED
      BY <1>11, <2>1, <2>6
  <1>18. Unfinished(Slot(i))' => \A x \in J.src.start .. End(J.src) - 1 : round'[x] = f[i] + 1 + x - J.src.start
    <2>1. SUFFICES ASSUME Unfinished(Slot(i))'
                   PROVE \A x \in J.src.start .. End(J.src) - 1 : round'[x] = f[i] + 1 + x - J.src.start
      OBVIOUS
    <2>2. mt.filled + n > 0
      BY <1>2, <1>6, <1>12, <2>1 DEF Unfinished
    <2>3. /\ mt.inStart \in Nat
          /\ \A x \in mt.inStart .. mt.inStart + (mt.filled + n) - 1 : round'[x] = taken - mt.filled + 1 + x - mt.inStart
      BY <2>2, NewSource
    <2>4. J.src.start = mt.inStart /\ End(J.src) = mt.inStart + (mt.filled + n)
      BY <1>12, <2>2 DEF End
    <2>5. PICK s \in Nat : s = mt.inStart
      BY <2>3
    <2>6. PICK b \in Nat : b = taken - mt.filled /\ b = f[i]
      BY <1>13, <1>14, <1>16
    <2>7. ASSUME NEW x \in s .. s + (mt.filled + n) - 1 PROVE round'[x] = f[i] + 1 + x - s
      <3>1. round'[x] = b + 1 + x - s
        BY <2>3, <2>5, <2>6
      <3> QED
        BY <2>6, <3>1
    <2>8. J.src.start = s /\ End(J.src) = s + (mt.filled + n)
      BY <2>4, <2>5
    <2>9. ASSUME NEW x \in J.src.start .. End(J.src) - 1 PROVE round'[x] = f[i] + 1 + x - J.src.start
      <3>1. x \in s .. s + (mt.filled + n) - 1
        BY <1>2, <2>8
      <3>2. round'[x] = f[i] + 1 + x - s
        BY <2>7, <3>1
      <3> QED
        BY <2>8, <3>2
    <2> QED
      BY <2>9
  <1>19. J.cdata = <<>> /\ ~J.error => Untouched(i, J)
    BY <1>12 DEF Untouched, ChecksumToCome
  <1>20. /\ Posted' \subseteq Posted \cup {i} /\ mt'.nextJobID \in Nat /\ mt.nextJobID <= mt'.nextJobID
         /\ i \in Posted' <=> mt'.nextJobID = i + 1
    BY <1>2, <1>5 DEF Posted, NewAt
  <1>21. queued # Slot(i)
    BY NobodyYet
  <1>22. queued' = queued \/ (queued = None /\ queued' = Slot(i) /\ mt'.nextJobID = i + 1)
    BY DEF NewAt
  <1>23. Enters(from, at, f, a, n, i)
    BY <1>2, <1>4, <1>5, <1>8, <1>10, <1>11, <1>14, <1>20, <1>22 DEF Enters
  <1>24. i \in Posted' => IF queued' = Slot(i) THEN Untouched(i, J) /\ ~J.error
                          ELSE J.src.size = 0 /\ (J.error \/ Whole(a, i, J))
    BY <1>12, <1>17, <1>19, <1>20, <1>21 DEF NewAt
  <1>25. mt'.jobReady => mt'.nextJobID = i /\ Untouched(i, J) /\ ~J.error
    BY <1>19 DEF NewAt
  <1>26. Enrols(f, a, i)
    BY <1>9, <1>17, <1>18, <1>20, <1>22, <1>24, <1>25 DEF Enrols
  <1>27. AfterEnd'
    <2>1. last => caller'.avail <= 0
      BY DEF CallLoaded
    <2> QED
      BY <1>5, <1>7, <2>1 DEF AfterEnd
  <1>28. Frame(f, a)'
    <2>1. Of(i)'.dstFlushed = 0
      BY <1>9, <1>12
    <2> QED
      BY <1>3, <1>15, <1>23, <1>26, <1>27, <2>1, EnteredFrame
  <1> QED
    BY <1>28

LEMMA NewJobFrame ==
  ASSUME MTAssumption, IInv, OutputRead, InFrame, Live, NEW from, NEW at, Frame(from, at),
         NEW n \in Nat, NEW last \in BOOLEAN, Loaded(n), CallLoaded(n, last), JobDue(n, last),
         worker' = worker, serial' = serial, out' = out, ~mt.jobReady, mt.nextJobID < mt.doneJobID + mt.table,
         jobs' = [jobs EXCEPT ![Slot(mt.nextJobID)] = Prepared(Filled(n), last)],
         Post(AfterPrepare(Filled(n), last), Slot(mt.nextJobID))
  PROVE  \E f, a : Frame(f, a)'
  <1> DEFINE m == Filled(n)
             a == AfterPrepare(m, last)
             J == Prepared(m, last)
  <1>1. Shapes /\ mt.nextJobID \in Nat /\ mt.filled \in Nat
    BY Constants DEF IInv, Shapes, MTFields
  <1>2. /\ m \in MTFields /\ m.filled = mt.filled + n
        /\ m.table = mt.table /\ m.capacity = mt.capacity /\ m.inStart = mt.inStart
        /\ m.jobReady = mt.jobReady /\ m.nextJobID = mt.nextJobID /\ m.doneJobID = mt.doneJobID
    BY <1>1, FilledIs
  <1>3. /\ IsJob(J) /\ J.src = [start |-> m.inStart, size |-> m.filled]
        /\ J.consumed = 0 /\ J.cdata = <<>> /\ J.frameChecksumNeeded = (last /\ m.nextJobID > 0)
        /\ J.jobID = m.nextJobID /\ J.lastJob = last /\ ~J.error /\ J.dstFlushed = 0
    BY <1>2, PreparedIs
  <1>4. m.inStart = None => m.filled = 0
    <2>1. mt.inStart = None => mt.filled = 0 /\ ~(n > 0)
      BY <1>1 DEF IInv, BufferInv, InputAt, Loaded, InFrame
    <2> QED
      BY <1>2, <2>1
  <1>5. /\ a \in MTFields /\ a.inStart = None /\ a.filled = 0
        /\ a.table = m.table /\ a.capacity = m.capacity /\ a.doneJobID = m.doneJobID
        /\ a.nextJobID = m.nextJobID /\ a.frameEnded = last
    BY <1>2, <1>4, AfterPrepareIs
  <1>6. PICK i \in Nat : i = mt.nextJobID
    BY <1>1
  <1>7. Slot(i) \in Slots
    BY <1>1, KeptSlots
  <1>8. jobs' = [jobs EXCEPT ![Slot(i)] = J] /\ Post(a, Slot(i)) /\ i < mt.doneJobID + mt.table
    BY <1>6
  <1> HIDE DEF m, a, J
  <1>9. SlotChanges(Slot(i)) /\ jobs'[Slot(i)] = J
    BY <1>1, <1>3, <1>7, <1>8, SlotIs
  <1>10. /\ mt'.filled = a.filled /\ mt'.table = a.table /\ mt'.capacity = a.capacity
         /\ mt'.inStart = a.inStart /\ mt'.doneJobID = a.doneJobID /\ mt'.frameEnded = a.frameEnded
         /\ \/ mt'.nextJobID = a.nextJobID + 1 /\ ~mt'.jobReady /\ queued = None /\ queued' = Slot(i)
            \/ mt'.nextJobID = a.nextJobID /\ mt'.jobReady /\ queued' = queued
         /\ mt' \in MTFields
    BY <1>5, <1>8, PostIs
  <1>11. NewMT(i, last)
    BY <1>2, <1>5, <1>10 DEF NewMT
  <1>12. NewAt(J, i, n)
    <2>1. mt'.jobReady \in BOOLEAN
      BY <1>10 DEF MTFields
    <2>2. a.nextJobID = i
      BY <1>2, <1>5, <1>6
    <2> QED
      BY <1>3, <1>10, <2>1, <2>2 DEF NewAt
  <1>13. Filling(J, i, n, last)
    <2>1. J.src.size = mt.filled + n /\ J.src.start = mt.inStart
      BY <1>2, <1>3
    <2> QED
      BY <1>2, <1>3, <1>6, <2>1 DEF Filling
  <1> QED
    BY <1>6, <1>7, <1>8, <1>9, <1>11, <1>12, <1>13, NewFrame

LEMMA EmptyBlockFrame ==
  ASSUME MTAssumption, IInv, OutputRead, InFrame, Live, NEW from, NEW at, Frame(from, at),
         NEW n \in Nat, NEW last \in BOOLEAN, Loaded(n), CallLoaded(n, last), JobDue(n, last),
         worker' = worker, serial' = serial, out' = out, ~mt.jobReady, mt.nextJobID < mt.doneJobID + mt.table,
         mt.filled + n = 0, mt.nextJobID > 0,
         mt' = [AfterPrepare(Filled(n), last) EXCEPT !.nextJobID = @ + 1],
         NEW e, NEW b, NEW d, e \/ d = <<LastBlock>>,
         jobs' = [jobs EXCEPT ![Slot(mt.nextJobID)] =
                    [Prepared(Filled(n), last) EXCEPT !.src = NoRange, !.error = e, !.dstBuff = b, !.cdata = d]],
         queued' = queued
  PROVE  \E f, a : Frame(f, a)'
  <1> DEFINE m == Filled(n)
             a == AfterPrepare(m, last)
             p == Prepared(m, last)
             J == [p EXCEPT !.src = NoRange, !.error = e, !.dstBuff = b, !.cdata = d]
  <1>1. Shapes /\ mt.nextJobID \in Nat /\ mt.filled \in Nat
    BY Constants DEF IInv, Shapes, MTFields
  <1>2. /\ m \in MTFields /\ m.filled = 0
        /\ m.table = mt.table /\ m.capacity = mt.capacity /\ m.inStart = mt.inStart
        /\ m.jobReady = mt.jobReady /\ m.nextJobID = mt.nextJobID /\ m.doneJobID = mt.doneJobID
    BY <1>1, FilledIs
  <1>3. /\ IsJob(J) /\ J.src = NoRange /\ J.consumed = 0 /\ J.cdata = d /\ J.error = e
        /\ J.frameChecksumNeeded = (last /\ m.nextJobID > 0)
        /\ J.jobID = m.nextJobID /\ J.lastJob = last /\ J.dstFlushed = 0
    <2>1. /\ IsJob(p) /\ p.consumed = 0 /\ NoRange \in Ranges
          /\ p.frameChecksumNeeded = (last /\ m.nextJobID > 0)
          /\ p.jobID = m.nextJobID /\ p.lastJob = last /\ p.dstFlushed = 0
      BY <1>2, PreparedIs DEF NoRange, Ranges
    <2> HIDE DEF p
    <2>2. J \in [src : Ranges, prefix : Ranges, jobID : {p.jobID}, lastJob : {p.lastJob},
                 consumed : Nat, cdata : {d}, error : {e}, dstFlushed : {p.dstFlushed},
                 dstBuff : {b}, frameChecksumNeeded : {p.frameChecksumNeeded}]
      BY <2>1 DEF IsJob
    <2>3. J.src = NoRange /\ J.consumed = p.consumed /\ J.cdata = d /\ J.error = e
      BY <2>1 DEF IsJob
    <2> HIDE DEF J
    <2>4. /\ IsJob(J) /\ J.frameChecksumNeeded = p.frameChecksumNeeded
          /\ J.jobID = p.jobID /\ J.lastJob = p.lastJob /\ J.dstFlushed = p.dstFlushed
      BY <2>2 DEF IsJob
    <2> QED
      BY <2>1, <2>3, <2>4
  <1>5. /\ a \in MTFields /\ a.inStart = None /\ a.filled = 0
        /\ a.table = m.table /\ a.capacity = m.capacity /\ a.doneJobID = m.doneJobID
        /\ a.nextJobID = m.nextJobID /\ a.jobReady = m.jobReady /\ a.frameEnded = last
    BY <1>2, AfterPrepareIs
  <1>6. PICK i \in Nat : i = mt.nextJobID
    BY <1>1
  <1>7. Slot(i) \in Slots
    BY <1>1, KeptSlots
  <1>8. jobs' = [jobs EXCEPT ![Slot(i)] = J] /\ i < mt.doneJobID + mt.table /\ mt' = [a EXCEPT !.nextJobID = @ + 1]
    BY <1>6
  <1> HIDE DEF m, a, p, J
  <1>9. SlotChanges(Slot(i)) /\ jobs'[Slot(i)] = J
    BY <1>1, <1>3, <1>7, <1>8, SlotIs
  <1>10. /\ mt'.filled = 0 /\ mt'.table = mt.table /\ mt'.capacity = mt.capacity
         /\ mt'.inStart = None /\ mt'.doneJobID = mt.doneJobID /\ mt'.frameEnded = last
         /\ mt'.nextJobID = i + 1 /\ mt'.jobReady = FALSE
    <2>1. PICK next \in Nat : next = a.nextJobID + 1
      BY <1>5 DEF MTFields
    <2>2. mt' = [a EXCEPT !.nextJobID = next]
      BY <1>8, <2>1
    <2>3. /\ mt'.inStart = a.inStart /\ mt'.filled = a.filled /\ mt'.nextJobID = next
          /\ mt'.table = a.table /\ mt'.capacity = a.capacity
          /\ mt'.doneJobID = a.doneJobID /\ mt'.jobReady = a.jobReady /\ mt'.frameEnded = a.frameEnded
      BY <1>5, <2>2 DEF MTFields
    <2>4. a.jobReady = FALSE
      BY <1>2, <1>5 DEF MTFields
    <2> QED
      BY <1>2, <1>5, <1>6, <2>1, <2>3, <2>4
  <1>11. NewMT(i, last)
    BY <1>10 DEF NewMT
  <1>12. NewAt(J, i, n)
    BY <1>3, <1>6, <1>10 DEF NewAt
  <1>13. Filling(J, i, n, last)
    <2>1. J.src.size = mt.filled + n /\ ~(mt.filled + n > 0)
      BY <1>3 DEF NoRange
    <2> QED
      BY <1>2, <1>3, <1>6, <2>1 DEF Filling
  <1> QED
    BY <1>6, <1>7, <1>8, <1>9, <1>11, <1>12, <1>13, NewFrame

LEMMA LoadFrame ==
  ASSUME MTAssumption, IInv, OutputRead, InFrame, Live, NEW from, NEW at, Frame(from, at), LoadAndPost
  PROVE  /\ \E f, a : Frame(f, a)'
         /\ \E n \in Nat : taken' = taken + n /\ (n > 0 => ~mt.frameEnded)
  <1>1. worker' = worker /\ serial' = serial /\ out' = out
    BY DEF LoadAndPost
  <1>2. PICK n \in Nat, last \in BOOLEAN :
          /\ Loaded(n) /\ CallLoaded(n, last)
          /\ \/ mt' = Filled(n) /\ jobs' = jobs /\ queued' = queued
             \/ CreateCompressionJob(Filled(n), last) /\ JobDue(n, last)
    BY LoadSteps
  <1> DEFINE m == Filled(n)  s == m.nextJobID % m.table
             empty == m.filled = 0 /\ m.nextJobID > 0
  <1>3. /\ m.filled = mt.filled + n /\ m.table = mt.table /\ m.jobReady = mt.jobReady
        /\ m.nextJobID = mt.nextJobID /\ m.doneJobID = mt.doneJobID
    BY <1>2, FilledIs DEF IInv
  <1>4. s = Slot(mt.nextJobID) /\ (empty <=> mt.filled + n = 0 /\ mt.nextJobID > 0)
    BY <1>3 DEF Slot
  <1>5. m.nextJobID > m.doneJobID + m.table - 1 \/ mt.nextJobID < mt.doneJobID + mt.table
    BY <1>3 DEF IInv, Shapes, MTFields
  <1>6. \E k \in Nat : taken' = taken + k /\ (k > 0 => ~mt.frameEnded)
    BY <1>2, LoadsBeforeEnd DEF Loaded
  <1>7. CASE mt' = m /\ jobs' = jobs /\ queued' = queued
    <2>1. Frame(from, at)'
      BY <1>1, <1>2, <1>7, LoadOnlyFrame
    <2> QED
      BY <1>6, <2>1
  <1>8. CASE CreateCompressionJob(m, last) /\ JobDue(n, last)
    <2>1. CASE m.nextJobID > m.doneJobID + m.table - 1
      <3>1. mt' = m /\ jobs' = jobs /\ queued' = queued
        BY <1>8, <2>1 DEF CreateCompressionJob
      <3> QED
        BY <1>7, <3>1
    <2>2. CASE ~(m.nextJobID > m.doneJobID + m.table - 1) /\ m.jobReady
      <3>1. Post(m, s) /\ jobs' = jobs
        BY <1>8, <2>2 DEF CreateCompressionJob
      <3>2. Post(Filled(n), Slot(mt.nextJobID))
        BY <1>4, <3>1
      <3>3. Frame(from, at)'
        BY <1>1, <1>2, <1>3, <2>2, <3>1, <3>2, ReadyFrame
      <3> QED
        BY <1>6, <3>3
    <2>3. CASE ~(m.nextJobID > m.doneJobID + m.table - 1) /\ ~m.jobReady /\ empty
      <3>1. /\ mt' = [AfterPrepare(m, last) EXCEPT !.nextJobID = @ + 1] /\ queued' = queued
            /\ \E fails \in {FALSE, MayFail} :
                 /\ jobs' = [jobs EXCEPT ![s] = [Prepared(m, last) EXCEPT !.src = NoRange, !.error = fails,
                                                   !.dstBuff = ~fails, !.cdata = IF fails THEN <<>> ELSE <<LastBlock>>]]
                 /\ pools' = IF fails THEN pools ELSE getBuffer(pools)
        BY <1>8, <2>3 DEF CreateCompressionJob
      <3>2. PICK fails \in {FALSE, MayFail} :
              jobs' = [jobs EXCEPT ![s] = [Prepared(m, last) EXCEPT !.src = NoRange, !.error = fails,
                                                 !.dstBuff = ~fails, !.cdata = IF fails THEN <<>> ELSE <<LastBlock>>]]
        BY <3>1
      <3>3. PICK e, b, d : e = fails /\ b = ~fails /\ d = IF fails THEN <<>> ELSE <<LastBlock>>
        OBVIOUS
      <3>4. jobs' = [jobs EXCEPT ![Slot(mt.nextJobID)] =
                       [Prepared(Filled(n), last) EXCEPT !.src = NoRange, !.error = e, !.dstBuff = b, !.cdata = d]]
        BY <1>4, <3>2, <3>3
      <3>5. e \/ d = <<LastBlock>>
        BY <3>3
      <3>6. /\ ~mt.jobReady /\ mt.nextJobID < mt.doneJobID + mt.table /\ mt.filled + n = 0 /\ mt.nextJobID > 0
            /\ JobDue(n, last) /\ mt' = [AfterPrepare(Filled(n), last) EXCEPT !.nextJobID = @ + 1] /\ queued' = queued
        BY <1>3, <1>5, <1>8, <2>3, <3>1
      <3> HIDE DEF m, s, empty
      <3>7. \E f, a : Frame(f, a)'
        BY <1>1, <1>2, <3>4, <3>5, <3>6, EmptyBlockFrame
      <3> QED
        BY <1>6, <3>7
    <2>4. CASE ~(m.nextJobID > m.doneJobID + m.table - 1) /\ ~m.jobReady /\ ~empty
      <3>1. jobs' = [jobs EXCEPT ![s] = Prepared(m, last)] /\ Post(AfterPrepare(m, last), s)
        BY <1>8, <2>4 DEF CreateCompressionJob
      <3>2. /\ jobs' = [jobs EXCEPT ![Slot(mt.nextJobID)] = Prepared(Filled(n), last)]
            /\ Post(AfterPrepare(Filled(n), last), Slot(mt.nextJobID))
        BY <1>4, <3>1
      <3>3. ~mt.jobReady /\ mt.nextJobID < mt.doneJobID + mt.table /\ JobDue(n, last)
        BY <1>3, <1>5, <1>8, <2>4
      <3> HIDE DEF m, s, empty
      <3>4. \E f, a : Frame(f, a)'
        BY <1>1, <1>2, <3>2, <3>3, NewJobFrame
      <3> QED
        BY <1>6, <3>4
    <2> QED
      BY <2>1, <2>2, <2>3, <2>4
  <1> QED
    BY <1>2, <1>7, <1>8

LEMMA LoadSound ==
  ASSUME MTAssumption, IInv, FrameInv, LoadAndPost
  PROVE  FrameInv'
  <1>1. Shapes /\ CallPhase /\ caller.at = "load"
    BY DEF IInv, LoadAndPost
  <1>2. InFrame /\ caller.ret = "none" /\ Live /\ OutputRead
    BY <1>1 DEF InFrame, CallPhase, Live, FrameInv
  <1>3. PICK from, at : Frame(from, at)
    BY <1>2 DEF FrameInv
  <1>4. \E f, a : Frame(f, a)'
    BY <1>2, <1>3, LoadFrame
  <1>5. PICK n \in Nat : taken' = taken + n /\ (n > 0 => ~mt.frameEnded)
    BY <1>2, <1>3, LoadFrame
  <1>6. caller'.at = "flush" /\ caller'.ret = "none"
    BY <1>2, LoadSteps
  <1>7. OutputRead'
    <2>1. taken \in Nat /\ Reads(taken, out, 0) /\ Len(out) <= taken + 3
      BY <1>2 DEF OutputRead
    <2>2. Len(out) <= taken + (IF mt.frameEnded THEN 3 ELSE 1) /\ Len(out) \in Nat
      BY <1>3, <2>1, LenProperties DEF Frame, FlushedTo, Reads
    <2>3. Reads(taken + n, out, 0)
      <3>1. n > 0 => 0 + Len(out) <= taken + 1
        BY <1>5, <2>2
      <3> QED
        BY <2>1, <3>1, ReadsMore
    <2>4. out' = out
      BY DEF LoadAndPost
    <2>5. taken + n \in Nat /\ Len(out) <= taken + n + 3
      BY <2>1, <2>2
    <2> QED
      BY <1>5, <2>3, <2>4, <2>5 DEF OutputRead
  <1>8. EndTold'
    BY <1>6 DEF EndTold
  <1> QED
    BY <1>4, <1>7, <1>8 DEF FrameInv

-----------------------------------------------------------------------------
\* Flushing the oldest job

\* Nobody has a job that is finished and has put out something.
LEMMA FinishedIsFree ==
  ASSUME MTAssumption, IInv, Live, NEW d \in Posted, ~Unfinished(Slot(d)),
         Of(d).cdata # <<>> \/ Of(d).frameChecksumNeeded
  PROVE  Nobodys(d)
  <1>1. HeldPosted
    BY DEF IInv
  <1>2. ~Pending(Slot(d))
    BY DEF Pending, Of
  <1>3. Slot(d) # None
    BY DEF IInv, Shapes, MTFields, Posted, Slot, None
  <1>4. queued # Slot(d)
    BY <1>1, <1>2, <1>3 DEF HeldPosted
  <1>5. ASSUME NEW w \in Workers PROVE ~HeldBy(d, w)
    BY <1>1, <1>2 DEF HeldPosted, HeldBy
  <1> QED
    BY <1>4, <1>5 DEF Nobodys

\* The checksum is that of all the input, and comes last.
LEMMA ChecksumIsDue ==
  ASSUME MTAssumption, IInv, OutputRead, Live, NEW from, NEW at, Frame(from, at),
         NEW d, d = mt.doneJobID, d \in Posted, ~Of(d).error, ChecksumDue(Of(d))
  PROVE  /\ Nobodys(d) /\ serial.hashed = taken
         /\ Len(Of(d).cdata) = Share(at, d) - 1 /\ at[d + 1] = taken + 3
  <1>1. Shapes /\ JobsPosted /\ taken \in Nat
    BY DEF IInv, OutputRead
  <1>2. /\ d \in Nat /\ mt.nextJobID \in Nat /\ d < mt.nextJobID /\ mt.nextJobID <= MadeTo /\ MadeTo \in Nat
        /\ d \in Made /\ mt.filled \in Nat
    BY <1>1, Constants DEF Shapes, MTFields, Posted, Made, MadeTo
  <1>3. Slot(d) \in Slots /\ IsJob(Of(d))
    BY <1>1, <1>2, KeptSlots DEF Shapes, Of
  <1>4. Of(d).frameChecksumNeeded /\ ~Unfinished(Slot(d))
    BY DEF ChecksumDue, Unfinished, Of
  <1>5. Nobodys(d)
    BY <1>4, FinishedIsFree
  <1>6. Len(Of(d).cdata) = Share(at, d) - 1
    BY <1>4, <1>5 DEF Frame, AllDone, Whole, Produced
  <1>7. Of(d).lastJob
    BY <1>2, <1>4 DEF Frame, Outputs, Output
  <1>8. mt.frameEnded /\ d = MadeTo - 1
    BY <1>2, <1>7 DEF Frame, Placed
  <1>9. mt.filled = 0
    BY <1>8 DEF Frame, AfterEnd
  <1>10. from[d + 1] = taken /\ from[d] \in Nat /\ from[d + 1] = from[d] + Of(d).src.size /\ at[d + 1] = taken + 1 + 2
    <2>1. MadeTo = d + 1
      BY <1>2, <1>8
    <2>2. from[MadeTo] = taken
      BY <1>1, <1>9 DEF Frame, Placed
    <2>3. JobPlaced(from, at, taken, d, Of(d))
      BY <1>2 DEF Frame, Placed
    <2> QED
      BY <1>2, <1>3, <1>7, <2>1, <2>2, <2>3, PlaceIs
  <1>11. Sound
    <2>1. \A j \in Made : j = d
      BY <1>2, <1>8 DEF Made
    <2> QED
      BY <2>1 DEF Sound
  <1>12. /\ serial.nextJobID \in Nat /\ serial.nextJobID <= mt.nextJobID /\ serial.hashed = from[serial.nextJobID]
         /\ d <= serial.nextJobID /\ (serial.nextJobID > d \/ Of(d).src.size = 0)
    BY <1>2, <1>5, <1>11 DEF Frame, InTurn, WindowHolds
  <1>13. serial.hashed = taken
    <2>1. CASE serial.nextJobID > d
      <3>1. serial.nextJobID = d + 1
        BY <1>2, <1>8, <1>12, <2>1
      <3> QED
        BY <1>10, <1>12, <3>1
    <2>2. CASE serial.nextJobID = d /\ Of(d).src.size = 0
      <3>1. from[d] = from[d + 1]
        BY <1>10, <2>2
      <3> QED
        BY <1>10, <1>12, <2>2, <3>1
    <2> QED
      BY <1>2, <1>12, <2>1, <2>2
  <1>14. at[d + 1] = taken + 3
    <2>1. PICK t \in Nat : t = taken
      BY <1>1
    <2>2. t + 1 + 2 = t + 3
      BY <2>1
    <2> QED
      BY <1>10, <2>1, <2>2
  <1> QED
    BY <1>5, <1>6, <1>13, <1>14

LEMMA ReadsAppended ==
  ASSUME NEW k \in Nat, NEW s, NEW a \in Nat, NEW e \in Int, Reads(k, s, a), e = SymbolAt(k, a + Len(s) + 1)
  PROVE  Reads(k, Append(s, e), a) /\ Len(Append(s, e)) = Len(s) + 1
  <1>1. s \in Seq(Int)
    BY DEF Reads
  <1>2. /\ Append(s, e) \in Seq(Int) /\ Len(Append(s, e)) = Len(s) + 1 /\ Len(s) \in Nat
        /\ \A i \in 1 .. Len(s) : Append(s, e)[i] = s[i]
        /\ Append(s, e)[Len(s) + 1] = e
    BY <1>1, AppendProperties, LenProperties
  <1>3. PICK l \in Nat : l = Len(s)
    BY <1>2
  <1>4. ASSUME NEW i \in 1 .. l + 1 PROVE Append(s, e)[i] = SymbolAt(k, a + i)
    <2>1. CASE i \in 1 .. l
      BY <1>2, <1>3, <2>1 DEF Reads
    <2>2. CASE i = l + 1
      <3>1. a + Len(s) + 1 = a + i
        BY <1>3, <2>2
      <3> QED
        BY <1>2, <1>3, <2>2, <3>1
    <2>3. i \in 1 .. l \/ i = l + 1
      OBVIOUS
    <2> QED
      BY <2>1, <2>2, <2>3
  <1> QED
    BY <1>2, <1>3, <1>4 DEF Reads

\* What the oldest job has for the caller.
LEMMA CheckedReads ==
  ASSUME MTAssumption, IInv, OutputRead, Live, NEW from, NEW at, Frame(from, at),
         NEW d, d = mt.doneJobID, d \in Posted, ~Of(d).error, NEW K, K = WithChecksum(Of(d))
  PROVE  /\ Reads(taken, K.cdata, at[d]) /\ Len(K.cdata) <= Share(at, d)
         /\ K.frameChecksumNeeded => K.lastJob /\ d > 0
         /\ Nobodys(d) => Whole(at, d, K)
         /\ K = Of(d) \/ Nobodys(d)
         /\ ~Unfinished(Slot(d)) /\ Len(K.cdata) > 0 => Len(K.cdata) = Share(at, d) /\ Nobodys(d)
         /\ Len(Of(d).cdata) \in Nat /\ Len(K.cdata) \in Nat /\ Len(Of(d).cdata) <= Len(K.cdata)
  <1>1. /\ Shapes /\ JobsPosted /\ taken \in Nat
    BY DEF IInv, OutputRead
  <1>2. d \in Nat /\ d \in Made /\ Slot(d) \in Slots
    <2>1. d \in Nat
      BY <1>1 DEF Shapes, MTFields
    <2> QED
      BY <1>1, <2>1, MadeIs, KeptSlots
  <1>3. IsJob(Of(d)) /\ JobPlaced(from, at, taken, d, Of(d))
    BY <1>1, <1>2 DEF Shapes, Of, Frame, Placed
  <1>4. at[d] \in Nat /\ at[d + 1] \in Nat
    BY <1>2, <1>3, PlaceIs
  <1>5. /\ Reads(taken, Of(d).cdata, at[d]) /\ Len(Of(d).cdata) <= Share(at, d)
        /\ Of(d).frameChecksumNeeded => Of(d).lastJob /\ d > 0
        /\ Nobodys(d) => Whole(at, d, Of(d))
    BY <1>2 DEF Frame, Outputs, Output, AllDone
  <1>6. Of(d).cdata \in Seq(Int) /\ Len(Of(d).cdata) \in Nat
    BY <1>5, LenProperties DEF Reads
  <1>7. CASE ~ChecksumDue(Of(d))
    <2>1. K = Of(d)
      BY <1>3, <1>7, JobChecked
    <2>2. ASSUME ~Unfinished(Slot(d)), Len(K.cdata) > 0 PROVE Len(K.cdata) = Share(at, d) /\ Nobodys(d)
      <3>1. ~Of(d).frameChecksumNeeded
        BY <1>7, <2>2 DEF ChecksumDue, Unfinished, Of
      <3>2. Of(d).cdata # <<>>
        BY <2>1, <2>2
      <3>3. Nobodys(d)
        BY <2>2, <3>2, FinishedIsFree
      <3>4. Len(Of(d).cdata) = Share(at, d) - 0
        BY <1>5, <3>1, <3>3 DEF Whole, Produced
      <3> QED
        BY <1>4, <2>1, <3>3, <3>4 DEF Share
    <2> QED
      BY <1>5, <1>6, <2>1, <2>2
  <1>8. CASE ChecksumDue(Of(d))
    <2>1. /\ Nobodys(d) /\ serial.hashed = taken
          /\ Len(Of(d).cdata) = Share(at, d) - 1 /\ at[d + 1] = taken + 3
      BY <1>8, ChecksumIsDue
    <2>2. K.cdata = Append(Of(d).cdata, Checksum(taken)) /\ ~K.frameChecksumNeeded
      BY <1>3, <1>8, <2>1, JobChecked
    <2>3. PICK l \in Nat : l = Len(Of(d).cdata)
      BY <1>6
    <2>4. at[d] + l + 1 = taken + 3
      BY <1>4, <2>1, <2>3 DEF Share
    <2>5. Checksum(taken) \in Int /\ Checksum(taken) = SymbolAt(taken, at[d] + Len(Of(d).cdata) + 1)
      <3>1. SymbolAt(taken, taken + 3) = Checksum(taken)
        BY <1>1 DEF SymbolAt
      <3>2. Checksum(taken) \in Int
        BY <1>1 DEF Checksum, BadSum
      <3> QED
        BY <2>3, <2>4, <3>1, <3>2
    <2>6. Reads(taken, K.cdata, at[d]) /\ Len(K.cdata) = l + 1
      BY <1>1, <1>4, <1>5, <2>2, <2>3, <2>5, ReadsAppended
    <2>7. l + 1 = Share(at, d)
      BY <1>4, <2>1, <2>3 DEF Share
    <2>8. Whole(at, d, K)
      <3>1. Produced(at, d, K) = Share(at, d) - 0
        BY <2>2 DEF Produced
      <3> QED
        BY <2>6, <2>7, <3>1 DEF Whole
    <2> QED
      BY <1>6, <2>1, <2>2, <2>3, <2>6, <2>7, <2>8
  <1> QED
    BY <1>7, <1>8

-----------------------------------------------------------------------------
\* What is counted of the output, also in slots of jobs that are gone

Counted == caller.room \in Nat /\ \A s \in Slots : jobs[s].dstFlushed \in Nat

LEMMA SlotCounted ==
  ASSUME Shapes, Counted, NEW s \in Slots, NEW r, jobs' = [jobs EXCEPT ![s] = r], r.dstFlushed \in Nat
  PROVE  \A t \in Slots : jobs'[t].dstFlushed \in Nat
  <1>1. jobs = [t \in Slots |-> jobs[t]]
    BY DEF Shapes
  <1>2. \A t \in Slots : jobs'[t] = IF t = s THEN r ELSE jobs[t]
    BY <1>1
  <1> QED
    BY <1>2 DEF Counted

\* Workers do not count what is flushed.
LEMMA WorkCounted ==
  ASSUME IInv, Counted, NEW w \in Workers, Work(w)
  PROVE  Counted'
  <1>1. caller' = caller
    BY DEF Work, Pop, Begin, BeginFails, GenSequences, CompressChunk, CompressLast, CompressFails,
           EnsureFinished, Report, Finish, CallerWaits
  <1>2. CASE jobs' = jobs
    BY <1>1, <1>2 DEF Counted
  <1> DEFINE s == worker[w].slot
             j == jobs[s]
  <1>3. ASSUME Holds(w) PROVE s \in Slots /\ IsJob(j) /\ jobs = [t \in Slots |-> jobs[t]]
    BY <1>3 DEF IInv, HeldApart, Shapes
  <1>4. CASE Begin(w) \/ BeginFails(w) \/ CompressFails(w)
    <2>1. Holds(w)
      BY <1>4 DEF Begin, BeginFails, CompressFails, Holds
    <2>2. jobs' = [jobs EXCEPT ![s].dstBuff = TRUE] \/ jobs' = [jobs EXCEPT ![s].error = TRUE]
      BY <1>4 DEF Begin, BeginFails, CompressFails
    <2> HIDE DEF s
    <2>3. PICK r : jobs' = [jobs EXCEPT ![s] = r] /\ r \in {[j EXCEPT !.dstBuff = TRUE], [j EXCEPT !.error = TRUE]}
      BY <2>2
    <2>4. r.dstFlushed = j.dstFlushed
      BY <1>3, <2>1, <2>3 DEF IsJob
    <2> QED
      BY <1>1, <1>3, <2>1, <2>3, <2>4, SlotCounted DEF Counted, IInv
  <1>5. CASE CompressChunk(w) \/ Report(w)
    <2>1. Holds(w)
      BY <1>5 DEF CompressChunk, Report, Holds
    <2>2. \E d, n : jobs' = [jobs EXCEPT ![s].cdata = d, ![s].consumed = n]
      <3>1. CASE CompressChunk(w)
        <4>1. jobs' = [jobs EXCEPT ![s].cdata = @ \o First(Job(w), worker[w].chunk) \o Bytes(ChunkOf(Job(w), worker[w].chunk)),
                                   ![s].consumed = chunkSize * (worker[w].chunk + 1)]
          BY <3>1 DEF CompressChunk
        <4>2. PICK x, y, n : /\ x = First(Job(w), worker[w].chunk) /\ y = Bytes(ChunkOf(Job(w), worker[w].chunk))
                             /\ n = chunkSize * (worker[w].chunk + 1)
          OBVIOUS
        <4>3. jobs' = [jobs EXCEPT ![s].cdata = @ \o x \o y, ![s].consumed = n]
          BY <4>1, <4>2
        <4>4. jobs' = [jobs EXCEPT ![s].cdata = jobs[s].cdata \o x \o y, ![s].consumed = n]
          BY <1>3, <2>1, <4>3
        <4> QED
          BY <4>4
      <3>2. CASE Report(w)
        <4>1. jobs' = [jobs EXCEPT ![s].cdata = @ \o worker[w].tail, ![s].consumed = Job(w).src.size]
          BY <3>2 DEF Report
        <4>2. PICK x, n : x = worker[w].tail /\ n = Job(w).src.size
          OBVIOUS
        <4>3. jobs' = [jobs EXCEPT ![s].cdata = jobs[s].cdata \o x, ![s].consumed = n]
          BY <1>3, <2>1, <4>1, <4>2
        <4> QED
          BY <4>3
      <3> QED
        BY <1>5, <3>1, <3>2
    <2>3. PICK d, n : jobs' = [jobs EXCEPT ![s].cdata = d, ![s].consumed = n]
      BY <2>2
    <2> HIDE DEF s
    <2>4. PICK r : jobs' = [jobs EXCEPT ![s] = r] /\ r = [j EXCEPT !.cdata = d, !.consumed = n]
      BY <1>3, <2>1, <2>3
    <2>5. r.dstFlushed = j.dstFlushed
      BY <1>3, <2>1, <2>4 DEF IsJob
    <2> QED
      BY <1>1, <1>3, <2>1, <2>4, <2>5, SlotCounted DEF Counted, IInv
  <1>6. CASE Pop(w) \/ GenSequences(w) \/ CompressLast(w) \/ EnsureFinished(w) \/ Finish(w)
    BY <1>2, <1>6 DEF Pop, GenSequences, CompressLast, EnsureFinished, Finish
  <1> QED
    BY <1>4, <1>5, <1>6 DEF Work

LEMMA ClearCounted ==
  ASSUME jobs' = [s \in Slots |-> ClearJob]
  PROVE  \A s \in Slots : jobs'[s].dstFlushed \in Nat
  BY DEF ClearJob

LEMMA NextTurnCounted ==
  ASSUME Shapes, NEW ret, NEW left, NEW moved, NextTurn(ret, left, moved), left \in Nat
  PROVE  caller'.room \in Nat
  BY TurnEnds

LEMMA GoCounted ==
  ASSUME Shapes, Counted, \E a, u : caller' = [caller EXCEPT !.inUse = u, !.at = a] \/ caller' = [caller EXCEPT !.at = a]
  PROVE  caller'.room \in Nat
  BY DEF Shapes, IsCall, Counted

\* Nor does the caller outside of flushing.
LEMMA CallerCounted ==
  ASSUME MTAssumption, IInv, Counted,
         \/ \E op \in {"continue", "flush", "end"}, avail \in Inputs, room \in Rooms : Call(op, avail, room)
         \/ \E n \in NbWorkers : Resize(n)
         \/ SameSize \/ InitFrame \/ WrongStage \/ NoRangeNeeded \/ TryRange \/ MovePrefix \/ TakeRange
         \/ FlushFails \/ FreeCCtx \/ Abandon
  PROVE  Counted'
  <1>0. Shapes
    BY DEF IInv
  <1>1. \A s \in Slots : jobs'[s].dstFlushed \in Nat
    <2>1. jobs' = jobs \/ jobs' = [s \in Slots |-> ClearJob]
      BY DEF Call, Resize, SameSize, InitFrame, WrongStage, NoRangeNeeded, TryRange, MovePrefix, TakeRange,
             FlushFails, FreeCCtx, Abandon
    <2>2. CASE jobs' = jobs
      BY <2>2 DEF Counted
    <2> QED
      BY <2>1, <2>2, ClearCounted
  <1>2. CASE \E op \in {"continue", "flush", "end"}, avail \in Inputs, room \in Rooms : Call(op, avail, room)
    <2>1. PICK op, most, room : room \in Rooms /\ Call(op, most, room)
      BY <1>2
    <2>2. caller'.room = room
      BY <2>1 DEF Call, NoCall
    <2>3. room \in Nat
      BY <2>1, MTAssumption DEF MTAssumption
    <2> QED
      BY <1>1, <2>2, <2>3 DEF Counted
  <1>3. CASE WrongStage \/ FlushFails
    <2>1. NextTurn("error", caller.room, FALSE)
      BY <1>3 DEF WrongStage, FlushFails
    <2> QED
      BY <1>0, <1>1, <2>1, NextTurnCounted DEF Counted
  <1>4. CASE Abandon
    BY <1>1, <1>4 DEF Abandon, Counted
  <1>5. CASE (\E n \in NbWorkers : Resize(n)) \/ SameSize \/ InitFrame \/ NoRangeNeeded \/ MovePrefix \/ TakeRange \/ FreeCCtx
    <2>1. \E a : caller' = [caller EXCEPT !.at = a]
      BY <1>5 DEF Resize, SameSize, InitFrame, NoRangeNeeded, MovePrefix, TakeRange, FreeCCtx, Go
    <2> QED
      BY <1>0, <1>1, <2>1, GoCounted DEF Counted
  <1>6. CASE TryRange
    <2>1. \E a, u : caller' = [caller EXCEPT !.inUse = u, !.at = a]
      BY <1>6 DEF TryRange
    <2> QED
      BY <1>0, <1>1, <2>1, GoCounted DEF Counted
  <1> QED
    BY <1>2, <1>3, <1>4, <1>5, <1>6

\* A new job has nothing flushed.
LEMMA LoadCounted ==
  ASSUME MTAssumption, IInv, Counted, LoadAndPost
  PROVE  Counted'
  <1>0. Shapes
    BY DEF IInv
  <1>1. caller'.room = caller.room
    <2>1. PICK point \in SyncPoints :
            caller' = [caller EXCEPT !.at = "flush", !.avail = caller.avail - point.toLoad,
                                     !.turnOp = EndOp(IF point.flush /\ caller.turnOp = "continue" THEN "flush" ELSE caller.turnOp,
                                                      caller.avail - point.toLoad),
                                     !.fwd = point.toLoad > 0, !.moved = point.toLoad > 0]
      BY DEF LoadAndPost
    <2> QED
      BY <1>0, <2>1 DEF Shapes, IsCall
  <1>2. PICK n \in Nat, last \in BOOLEAN :
          /\ Loaded(n)
          /\ \/ mt' = Filled(n) /\ jobs' = jobs /\ queued' = queued
             \/ CreateCompressionJob(Filled(n), last)
    BY LoadSteps
  <1>3. PICK m \in MTFields : m = Filled(n)
    BY <1>0, <1>2, FilledIs
  <1> DEFINE s == m.nextJobID % m.table
  <1>4. s \in Slots
    <2>1. m.table = mt.table /\ m.nextJobID = mt.nextJobID /\ mt.nextJobID \in Nat
      BY <1>0, <1>2, <1>3, FilledIs DEF Shapes, MTFields
    <2>2. s = Slot(mt.nextJobID)
      BY <2>1 DEF Slot
    <2> QED
      BY <1>0, <2>1, <2>2, KeptSlots
  <1> HIDE DEF s
  <1>5. CASE jobs' = jobs
    BY <1>1, <1>5 DEF Counted
  <1>6. PICK p : p = Prepared(m, last) /\ IsJob(p) /\ p.dstFlushed = 0
    BY PreparedIs
  <1>7. CASE jobs' = [jobs EXCEPT ![s] = p]
    BY <1>0, <1>1, <1>4, <1>6, <1>7, SlotCounted DEF Counted
  <1>8. CASE \E e, b, d : jobs' = [jobs EXCEPT ![s] = [p EXCEPT !.src = NoRange, !.error = e, !.dstBuff = b, !.cdata = d]]
    <2>1. PICK e, b, d : jobs' = [jobs EXCEPT ![s] = [p EXCEPT !.src = NoRange, !.error = e, !.dstBuff = b, !.cdata = d]]
      BY <1>8
    <2>2. [p EXCEPT !.src = NoRange, !.error = e, !.dstBuff = b, !.cdata = d].dstFlushed = 0
      BY <1>6 DEF IsJob
    <2>3. PICK r : r = [p EXCEPT !.src = NoRange, !.error = e, !.dstBuff = b, !.cdata = d]
      OBVIOUS
    <2> QED
      BY <1>0, <1>1, <1>4, <2>1, <2>2, <2>3, SlotCounted DEF Counted
  <1>9. CASE CreateCompressionJob(m, last)
    <2> DEFINE empty == m.filled = 0 /\ m.nextJobID > 0
    <2>1. CASE m.nextJobID > m.doneJobID + m.table - 1
      BY <1>5, <1>9, <2>1 DEF CreateCompressionJob
    <2>2. CASE ~(m.nextJobID > m.doneJobID + m.table - 1) /\ m.jobReady
      BY <1>5, <1>9, <2>2 DEF CreateCompressionJob
    <2>3. CASE ~(m.nextJobID > m.doneJobID + m.table - 1) /\ ~m.jobReady /\ empty
      <3>1. \E fails \in {FALSE, MayFail} :
              /\ jobs' = [jobs EXCEPT ![s] = [Prepared(m, last) EXCEPT !.src = NoRange, !.error = fails,
                                                !.dstBuff = ~fails, !.cdata = IF fails THEN <<>> ELSE <<LastBlock>>]]
              /\ pools' = IF fails THEN pools ELSE getBuffer(pools)
        BY <1>9, <2>3 DEF CreateCompressionJob, s
      <3>2. PICK fails \in {FALSE, MayFail} :
              jobs' = [jobs EXCEPT ![s] = [Prepared(m, last) EXCEPT !.src = NoRange, !.error = fails,
                                             !.dstBuff = ~fails, !.cdata = IF fails THEN <<>> ELSE <<LastBlock>>]]
        BY <3>1
      <3>3. PICK e, b, d : e = fails /\ b = ~fails /\ d = IF fails THEN <<>> ELSE <<LastBlock>>
        OBVIOUS
      <3>4. jobs' = [jobs EXCEPT ![s] = [Prepared(m, last) EXCEPT !.src = NoRange, !.error = e, !.dstBuff = b, !.cdata = d]]
        BY <3>2, <3>3
      <3>5. jobs' = [jobs EXCEPT ![s] = [p EXCEPT !.src = NoRange, !.error = e, !.dstBuff = b, !.cdata = d]]
        BY <1>6, <3>4
      <3> QED
        BY <1>8, <3>5
    <2>4. CASE ~(m.nextJobID > m.doneJobID + m.table - 1) /\ ~m.jobReady /\ ~empty
      BY <1>6, <1>7, <1>9, <2>4 DEF CreateCompressionJob, s
    <2> QED
      BY <2>1, <2>2, <2>3, <2>4
  <1> QED
    BY <1>2, <1>3, <1>5, <1>9

\* Part of what is read.
PartRead(k, s, a, f, n) == Reads(k, SubSeq(s, f + 1, f + n), a + f) /\ Len(SubSeq(s, f + 1, f + n)) = n

LEMMA ReadsPart ==
  ASSUME NEW k \in Nat, NEW s, NEW a \in Nat, Reads(k, s, a), NEW f \in Nat, NEW n \in Nat, f + n <= Len(s)
  PROVE  PartRead(k, s, a, f, n)
  <1>1. s \in Seq(Int) /\ Len(s) \in Nat
    BY LenProperties DEF Reads
  <1> DEFINE t == SubSeq(s, f + 1, f + n)
  <1>2. t \in Seq(Int) /\ Len(t) = n /\ \A i \in 1 .. n : t[i] = s[f + i]
    <2>1. CASE n = 0
      BY <1>1, <2>1
    <2>2. CASE n > 0
      <3>1. f + 1 \in 1 .. Len(s) /\ f + n \in f .. Len(s)
        BY <1>1, <2>2
      <3>2. \A i \in f + 1 .. f + n : s[i] \in Int
        BY <1>1
      <3> QED
        BY <1>1, <2>2, <3>1, <3>2
    <2> QED
      BY <2>1, <2>2
  <1> HIDE DEF t
  <1>3. ASSUME NEW i \in 1 .. n PROVE t[i] = SymbolAt(k, a + f + i)
    <2>1. f + i \in 1 .. Len(s)
      BY <1>1
    <2>2. s[f + i] = SymbolAt(k, a + (f + i))
      BY <2>1 DEF Reads
    <2>3. a + (f + i) = a + f + i
      OBVIOUS
    <2> QED
      BY <1>2, <2>2, <2>3
  <1>4. Reads(k, t, a + f)
    BY <1>2, <1>3 DEF Reads
  <1> QED
    BY <1>2, <1>4 DEF t, PartRead

\* There is nothing to flush when all jobs are flushed.
LEMMA FlushNothing ==
  ASSUME MTAssumption, IInv, Counted, OutputRead, Live, Flush, mt.doneJobID = mt.nextJobID
  PROVE  /\ UNCHANGED <<jobs, queued, worker, serial, taken, out, round>>
         /\ mt'.doneJobID = mt.doneJobID /\ Part(WithChecksum(jobs[done])) = 0
  <1> DEFINE s == done
             j == jobs[s]
  <1>1. Shapes /\ s \in Slots /\ IsJob(j) /\ jobs = [t \in Slots |-> jobs[t]]
    <2>1. Shapes /\ mt.doneJobID \in Nat
      BY DEF IInv, Shapes, MTFields
    <2> QED
      BY <2>1, KeptSlots DEF done, Shapes
  <1>2. s \notin Active
    <2>1. mt.doneJobID \in Int
      BY <1>1 DEF Shapes, MTFields
    <2> QED
      BY <2>1 DEF Active
  <1>3. j.cdata = <<>> /\ ~ChecksumDue(j)
    BY <1>1, <1>2 DEF IInv, HeldPosted, ChecksumDue, Unfinished
  <1>4. WithChecksum(j) = j /\ Part(j) = 0 /\ j.dstFlushed \in Nat
    BY <1>1, <1>3, JobChecked DEF Part, Counted
  <1>5. PICK finished \in BOOLEAN : Flushed(s, finished)
    BY FlushSteps
  <1>6. ~finished
    BY <1>3, <1>4, <1>5 DEF Flushed
  <1>7. PICK f : f = j.dstFlushed /\ f \in Nat /\ f + Part(j) = f
    BY <1>4
  <1>8. out' = out
    <2>1. out' = out \o SubSeq(<<>>, f + 1, f)
      BY <1>3, <1>4, <1>5, <1>7 DEF Flushed
    <2>2. SubSeq(<<>>, f + 1, f) = <<>>
      BY <1>7
    <2>3. out \in Seq(Int)
      BY DEF OutputRead, Reads
    <2>4. out \o <<>> = out
      BY <2>3
    <2> QED
      BY <2>1, <2>2, <2>4
  <1>9. jobs' = jobs
    <2> DEFINE k == WithChecksum(j)
               fin == Len(k.cdata) > 0 /\ ~Unfinished(s) /\ k.dstFlushed + Part(k) = Len(k.cdata)
    <2>1. jobs' = [jobs EXCEPT ![s] = IF fin THEN [k EXCEPT !.dstBuff = FALSE, !.cdata = <<>>, !.dstFlushed = k.dstFlushed + Part(k)]
                                             ELSE [k EXCEPT !.dstFlushed = k.dstFlushed + Part(k)]]
      BY DEF Flush, Part
    <2>2. ~fin /\ k = j
      BY <1>3, <1>4
    <2> HIDE DEF fin, k
    <2>3. jobs' = [jobs EXCEPT ![s] = [j EXCEPT !.dstFlushed = f]]
      BY <1>7, <2>1, <2>2
    <2>4. [j EXCEPT !.dstFlushed = f] = j
      BY <1>1, <1>7 DEF IsJob
    <2> QED
      BY <1>1, <2>3, <2>4
  <1>10. mt'.doneJobID = mt.doneJobID
    BY <1>5, <1>6 DEF Flushed
  <1> QED
    BY <1>4, <1>8, <1>9, <1>10 DEF Flush, WorkersWait

LEMMA FlushNothingFrame ==
  ASSUME MTAssumption, IInv, Counted, OutputRead, Live, NEW from, NEW at, Frame(from, at), Flush, mt.doneJobID = mt.nextJobID
  PROVE  Frame(from, at)'
  <1>1. PICK finished \in BOOLEAN : Flushed(done, finished)
    BY FlushSteps
  <1>2. UNCHANGED <<jobs, queued, worker, serial, taken, out, round>> /\ mt'.doneJobID = mt.doneJobID
    BY FlushNothing
  <1>3. /\ mt'.table = mt.table /\ mt'.capacity = mt.capacity /\ mt'.pos = mt.pos
        /\ mt'.inStart = mt.inStart /\ mt'.filled = mt.filled
        /\ mt'.jobReady = mt.jobReady /\ mt'.nextJobID = mt.nextJobID /\ mt'.frameEnded = mt.frameEnded
    BY <1>1, FlushMT
  <1>4. caller.avail <= 0 => caller'.avail <= 0
    <2>1. \E ret, left, moved : NextTurn(ret, left, moved)
      BY <1>1, FlushMT
    <2> QED
      BY <2>1, TurnEnds DEF IInv
  <1>5. Sources(from)'
    <2>1. Made' = Made /\ (\A i : Slot(i)' = Slot(i))
      BY <1>2, <1>3 DEF Made, MadeTo, Slot
    <2>2. (\A i : Of(i)' = Of(i)) /\ (\A i : Unfinished(Slot(i))' <=> Unfinished(Slot(i)))
      BY <1>2, <2>1 DEF Of, Unfinished
    <2> QED
      BY <1>2, <2>1, <2>2 DEF Frame, Sources
  <1>6. ASSUME Sound, window > 0
        PROVE  Segment(serial.window.pre, serial.hashed)' /\ Segment(serial.window.ext, serial.hashed - serial.window.pre.size)'
    <2>1. /\ Segment(serial.window.pre, serial.hashed)
          /\ Segment(serial.window.ext, serial.hashed - serial.window.pre.size)
      BY <1>6 DEF Frame, WindowHolds
    <2> QED
      BY <1>2, <1>3, <2>1 DEF Segment
  <1> QED
    BY <1>2, <1>3, <1>4, <1>5, <1>6, RangeFrame

\* What flushing n symbols of job d, which has K for the caller, leaves of the frame.
Leaves(d, K, n, finished) ==
  /\ UNCHANGED <<queued, worker, serial, round, taken>>
  /\ mt'.table = mt.table /\ mt'.capacity = mt.capacity /\ mt'.pos = mt.pos /\ mt'.inStart = mt.inStart
  /\ mt'.filled = mt.filled /\ mt'.jobReady = mt.jobReady /\ mt'.nextJobID = mt.nextJobID
  /\ mt'.frameEnded = mt.frameEnded /\ mt'.doneJobID = IF finished THEN d + 1 ELSE d
  /\ caller.avail <= 0 => caller'.avail <= 0
  /\ \A i \in Made : i # d => Of(i)' = Of(i)
  /\ Of(d)'.src = Of(d).src /\ Of(d)'.consumed = Of(d).consumed /\ Of(d)'.jobID = Of(d).jobID
  /\ Of(d)'.lastJob = Of(d).lastJob /\ Of(d)'.error = Of(d).error
  /\ Of(d)'.frameChecksumNeeded = K.frameChecksumNeeded /\ Of(d)'.cdata = IF finished THEN <<>> ELSE K.cdata
  /\ Of(d)'.dstFlushed = Of(d).dstFlushed + n
  /\ out' = out \o SubSeq(K.cdata, Of(d).dstFlushed + 1, Of(d).dstFlushed + n)
  /\ finished <=> Len(K.cdata) > 0 /\ ~Unfinished(Slot(d)) /\ Of(d).dstFlushed + n = Len(K.cdata)

LEMMA FlushLeaves ==
  ASSUME MTAssumption, IInv, Flush, NEW d, d = mt.doneJobID, d \in Posted, NEW K, K = WithChecksum(Of(d))
  PROVE  \E finished \in BOOLEAN : Leaves(d, K, Part(K), finished)
  <1>1. PICK finished \in BOOLEAN : Flushed(done, finished)
    BY FlushSteps
  <1>2. Shapes /\ JobsPosted /\ d \in Nat /\ d \in Made
    <2>1. Shapes /\ JobsPosted /\ mt.doneJobID \in Nat
      BY DEF IInv, Shapes, MTFields
    <2> QED
      BY <2>1, MadeIs
  <1>3. done = Slot(d) /\ Slot(d) \in Slots /\ jobs[done] = Of(d) /\ IsJob(Of(d))
    BY <1>2, KeptSlots DEF done, Of, Shapes
  <1>4. K.dstFlushed = Of(d).dstFlushed
    BY <1>3, JobChecked
  <1>5. /\ mt'.table = mt.table /\ mt'.capacity = mt.capacity /\ mt'.pos = mt.pos
        /\ mt'.inStart = mt.inStart /\ mt'.filled = mt.filled
        /\ mt'.jobReady = mt.jobReady /\ mt'.nextJobID = mt.nextJobID /\ mt'.frameEnded = mt.frameEnded
    BY <1>1, FlushMT
  <1>6. caller.avail <= 0 => caller'.avail <= 0
    <2>1. \E ret, left, moved : NextTurn(ret, left, moved)
      BY <1>1, FlushMT
    <2> QED
      BY <1>2, <2>1, TurnEnds
  <1>7. UNCHANGED <<queued, worker, serial, round, taken>>
    BY DEF Flush, WorkersWait
  <1>8. \A i : Slot(i)' = Slot(i)
    BY <1>5 DEF Slot
  <1>9. ASSUME NEW i \in Made, i # d PROVE Of(i)' = Of(i)
    <2>1. i \in Nat /\ Slot(i) # Slot(d)
      BY <1>2, <1>9, MadeIs, MadeDiffer
    <2>2. Slot(i) \in Slots
      BY <1>2, <2>1, KeptSlots
    <2>3. jobs'[Slot(i)] = jobs[Slot(i)]
      BY <1>1, <1>3, <2>1, <2>2 DEF Flushed, SlotChanges
    <2> QED
      BY <1>8, <2>3 DEF Of
  <1>10. Of(d)' = jobs'[done]
    BY <1>3, <1>8 DEF Of
  <1>11. /\ Of(d)'.src = Of(d).src /\ Of(d)'.consumed = Of(d).consumed /\ Of(d)'.jobID = Of(d).jobID
         /\ Of(d)'.lastJob = Of(d).lastJob /\ Of(d)'.error = Of(d).error
         /\ Of(d)'.frameChecksumNeeded = K.frameChecksumNeeded /\ Of(d)'.cdata = IF finished THEN <<>> ELSE K.cdata
         /\ Of(d)'.dstFlushed = Of(d).dstFlushed + Part(K)
         /\ out' = out \o SubSeq(K.cdata, Of(d).dstFlushed + 1, Of(d).dstFlushed + Part(K))
         /\ finished <=> Len(K.cdata) > 0 /\ ~Unfinished(Slot(d)) /\ Of(d).dstFlushed + Part(K) = Len(K.cdata)
         /\ mt'.doneJobID = IF finished THEN d + 1 ELSE d
    BY <1>1, <1>3, <1>4, <1>10 DEF Flushed
  <1> QED
    BY <1>5, <1>6, <1>7, <1>9, <1>11 DEF Leaves

\* There is room for it, and it is there.
LEMMA FlushRoom ==
  ASSUME MTAssumption, IInv, OutputRead, Counted, Live, NEW from, NEW at, Frame(from, at),
         NEW d, d = mt.doneJobID, d \in Posted, ~Of(d).error, NEW K, K = WithChecksum(Of(d))
  PROVE  /\ Part(K) \in Nat /\ Of(d).dstFlushed \in Nat /\ Of(d).dstFlushed + Part(K) <= Len(K.cdata)
         /\ caller.room - Part(K) \in Nat
  <1>1. /\ Len(Of(d).cdata) \in Nat /\ Len(K.cdata) \in Nat /\ Len(Of(d).cdata) <= Len(K.cdata)
    BY CheckedReads
  <1>2. Shapes /\ JobsPosted /\ d \in Nat /\ d \in Made /\ MadeTo \in Nat
    <2>1. Shapes /\ JobsPosted /\ mt.doneJobID \in Nat
      BY DEF IInv, Shapes, MTFields
    <2> QED
      BY <2>1, MadeIs
  <1>3. Of(d).dstFlushed \in Nat /\ Of(d).dstFlushed <= Len(Of(d).cdata)
    <2>1. d < MadeTo
      BY <1>2 DEF Made
    <2> QED
      BY <1>2, <2>1 DEF Frame, FlushedTo
  <1>4. K.dstFlushed = Of(d).dstFlushed
    <2>1. IsJob(Of(d))
      BY <1>2, KeptSlots DEF Of, Shapes
    <2> QED
      BY <2>1, JobChecked
  <1>5. caller.room \in Nat
    BY DEF Counted
  <1>6. PICK l \in Nat : l = Len(K.cdata)
    BY <1>1
  <1>7. CASE K.cdata = <<>>
    <2>1. Part(K) = 0 /\ l = 0
      BY <1>6, <1>7 DEF Part
    <2> QED
      BY <1>1, <1>3, <1>5, <1>6, <2>1
  <1>8. CASE K.cdata # <<>>
    <2>1. Part(K) = Least(l - Of(d).dstFlushed, caller.room)
      BY <1>4, <1>6, <1>8 DEF Part
    <2> QED
      BY <1>1, <1>3, <1>5, <1>6, <2>1 DEF Least
  <1> QED
    BY <1>7, <1>8

\* The caller gets what comes next of the frame.
LEMMA FlushedReads ==
  ASSUME MTAssumption, IInv, OutputRead, Counted, Live, NEW from, NEW at, Frame(from, at),
         NEW d, d = mt.doneJobID, d \in Posted, ~Of(d).error, NEW K, K = WithChecksum(Of(d)),
         NEW finished \in BOOLEAN, Leaves(d, K, Part(K), finished)
  PROVE  /\ Reads(taken, out', 0) /\ Len(out') = at[d] + Of(d).dstFlushed + Part(K)
         /\ Len(out') <= taken + (IF mt.frameEnded THEN 3 ELSE 1)
         /\ at[d] \in Nat /\ at[d + 1] \in Nat
  <1>1. /\ Reads(taken, K.cdata, at[d]) /\ Len(K.cdata) <= Share(at, d) /\ Len(K.cdata) \in Nat
    BY CheckedReads
  <1>2. PICK n \in Nat, f \in Nat, l \in Nat : n = Part(K) /\ f = Of(d).dstFlushed /\ l = Len(K.cdata) /\ f + n <= l
    BY <1>1, FlushRoom
  <1>3. Shapes /\ JobsPosted /\ d \in Nat /\ d \in Made /\ MadeTo \in Nat /\ taken \in Nat
    <2>1. Shapes /\ JobsPosted /\ mt.doneJobID \in Nat /\ taken \in Nat
      BY DEF IInv, Shapes, MTFields, OutputRead
    <2> QED
      BY <2>1, MadeIs
  <1>4. JobPlaced(from, at, taken, d, Of(d)) /\ (Of(d).lastJob => mt.frameEnded) /\ from \in [Nat -> Nat] /\ at \in [Nat -> Nat]
    BY <1>3 DEF Frame, Placed
  <1>5. PICK a \in Nat, b \in Nat, t \in Nat : a = at[d] /\ b = at[d + 1] /\ t = from[d + 1]
    <2>1. d + 1 \in Nat
      BY <1>3
    <2>2. at[d] \in Nat /\ at[d + 1] \in Nat /\ from[d + 1] \in Nat
      BY <1>3, <1>4, <2>1
    <2> QED
      BY <2>2
  <1>6. b = t + 1 + (IF Of(d).lastJob THEN 2 ELSE 0) /\ t <= taken /\ l <= b - a
    BY <1>1, <1>2, <1>4, <1>5 DEF JobPlaced, Share
  <1>7. Len(out) = a + f /\ Reads(taken, out, 0)
    <2>1. d < MadeTo
      BY <1>3 DEF Made
    <2> QED
      BY <1>2, <1>5, <2>1 DEF Frame, FlushedTo, OutputRead
  <1>8. out' = out \o SubSeq(K.cdata, f + 1, f + n)
    BY <1>2 DEF Leaves
  <1>9. Reads(taken, SubSeq(K.cdata, f + 1, f + n), a + f) /\ Len(SubSeq(K.cdata, f + 1, f + n)) = n
    <2>1. Reads(taken, K.cdata, a) /\ f + n <= Len(K.cdata) /\ taken \in Nat
      BY <1>1, <1>2, <1>3, <1>5
    <2>2. PICK s : s = K.cdata
      OBVIOUS
    <2>3. Reads(taken, s, a) /\ f + n <= Len(s)
      BY <2>1, <2>2
    <2>4. PartRead(taken, s, a, f, n)
      BY <2>1, <2>3, ReadsPart
    <2> QED
      BY <2>2, <2>4 DEF PartRead
  <1>10. Reads(taken, out', 0) /\ Len(out') = a + f + n
    <2>1. 0 + Len(out) = a + f
      BY <1>7
    <2>2. PICK s : s = SubSeq(K.cdata, f + 1, f + n)
      OBVIOUS
    <2>3. Reads(taken, s, 0 + Len(out)) /\ Len(s) = n
      BY <1>9, <2>1, <2>2
    <2>4. Reads(taken, out \o s, 0) /\ Len(out \o s) = Len(out) + Len(s)
      BY <1>3, <1>7, <2>3, ReadsOn
    <2>5. out' = out \o s
      BY <1>8, <2>2
    <2> QED
      BY <1>7, <2>3, <2>4, <2>5
  <1>11. a + f + n <= taken + (IF mt.frameEnded THEN 3 ELSE 1)
    <2>1. PICK e \in {1, 3} : e = IF mt.frameEnded THEN 3 ELSE 1
      OBVIOUS
    <2>2. b <= taken + e
      BY <1>3, <1>4, <1>6, <2>1
    <2>3. PICK k \in Nat : k = taken
      BY <1>3
    <2>4. f + n <= l /\ l <= b - a /\ b <= k + e
      BY <1>2, <1>6, <2>2, <2>3
    <2>5. a + f + n <= k + e
      BY ONLY <2>4, a \in Nat, b \in Nat, f \in Nat, n \in Nat, l \in Nat, k \in Nat, e \in {1, 3}
    <2> QED
      BY ONLY <2>1, <2>3, <2>5
  <1> QED
    BY <1>2, <1>5, <1>10, <1>11

\* Jobs and workers are who they were.
LEMMA LeavesSame ==
  ASSUME MTAssumption, IInv, NEW d, d = mt.doneJobID, d \in Posted, NEW K, NEW n, NEW finished \in BOOLEAN,
         Leaves(d, K, n, finished)
  PROVE  /\ d \in Nat /\ d \in Made /\ MadeTo \in Nat /\ MadeTo' = MadeTo /\ Made \subseteq Nat /\ Posted \subseteq Made
         /\ Made' = (IF finished THEN Made \ {d} ELSE Made) /\ Posted' = (IF finished THEN Posted \ {d} ELSE Posted)
         /\ \A i : Slot(i)' = Slot(i)
         /\ \A i, w : HeldBy(i, w)' <=> HeldBy(i, w)
         /\ \A i : Nobodys(i)' <=> Nobodys(i)
         /\ \A i \in Made : /\ Unfinished(Slot(i))' <=> Unfinished(Slot(i))
                            /\ Of(i)'.error = Of(i).error /\ Of(i)'.src = Of(i).src
         /\ ~Of(d).error => (Sound' <=> Sound)
  <1>1. Shapes /\ JobsPosted
    BY DEF IInv
  <1>2. /\ d \in Nat /\ d \in Made /\ MadeTo \in Nat /\ Made \subseteq Nat /\ Posted \subseteq Made
        /\ mt.nextJobID \in Nat
    BY <1>1, MadeIs
  <1>3. MadeTo' = MadeTo
    BY DEF Leaves, MadeTo
  <1>4. /\ Made' = (IF finished THEN Made \ {d} ELSE Made) /\ Posted' = (IF finished THEN Posted \ {d} ELSE Posted)
    <2>1. CASE finished
      <3>1. mt'.doneJobID = d + 1
        BY <2>1 DEF Leaves
      <3>2. mt'.nextJobID = mt.nextJobID
        BY DEF Leaves
      <3> QED
        BY <1>2, <1>3, <2>1, <3>1, <3>2 DEF Made, Posted
    <2>2. CASE ~finished
      BY <1>3, <2>2 DEF Leaves, Made, Posted
    <2> QED
      BY <2>1, <2>2
  <1>5. \A i : Slot(i)' = Slot(i)
    BY DEF Slot, Leaves
  <1>6. /\ \A i, w : HeldBy(i, w)' <=> HeldBy(i, w)
        /\ \A i : Nobodys(i)' <=> Nobodys(i)
    <2>1. \A i, w : HeldBy(i, w)' <=> HeldBy(i, w)
      BY <1>5 DEF Leaves, HeldBy, Holds
    <2> QED
      BY <1>5, <2>1 DEF Leaves, Nobodys
  <1>7. ASSUME NEW i \in Made
        PROVE  /\ Unfinished(Slot(i))' <=> Unfinished(Slot(i))
               /\ Of(i)'.error = Of(i).error /\ Of(i)'.src = Of(i).src
    <2>1. Of(i)'.src = Of(i).src /\ Of(i)'.consumed = Of(i).consumed /\ Of(i)'.error = Of(i).error
      BY DEF Leaves
    <2>2. Of(i) = jobs[Slot(i)] /\ Of(i)' = jobs'[Slot(i)]
      BY <1>5 DEF Of
    <2> QED
      BY <1>5, <2>1, <2>2 DEF Unfinished
  <1>8. ASSUME ~Of(d).error PROVE Sound' <=> Sound
    BY <1>4, <1>7, <1>8 DEF Sound
  <1> QED
    BY <1>2, <1>3, <1>4, <1>5, <1>6, <1>7, <1>8

\* Whatever is flushed, jobs stay where they are.
LEMMA LeavesPlaces ==
  ASSUME MTAssumption, IInv, NEW from, NEW at, Frame(from, at),
         NEW d, d = mt.doneJobID, d \in Posted, ~Of(d).error, NEW K, NEW n, NEW finished \in BOOLEAN,
         Leaves(d, K, n, finished)
  PROVE  Placed(from, at)' /\ Sources(from)' /\ AfterEnd' /\ WindowHolds'
  <1>1. /\ MadeTo' = MadeTo /\ Made' \subseteq Made
        /\ \A i : Slot(i)' = Slot(i)
        /\ \A i \in Made : /\ Unfinished(Slot(i))' <=> Unfinished(Slot(i))
                           /\ Of(i)'.error = Of(i).error /\ Of(i)'.src = Of(i).src
        /\ Sound' <=> Sound
    BY LeavesSame
  <1>2. \A i \in Made : Of(i)'.jobID = Of(i).jobID /\ Of(i)'.lastJob = Of(i).lastJob
    BY DEF Leaves
  <1>3. /\ taken' = taken /\ round' = round /\ serial' = serial /\ mt'.filled = mt.filled /\ mt'.frameEnded = mt.frameEnded
        /\ mt'.capacity = mt.capacity /\ mt'.pos = mt.pos /\ mt'.inStart = mt.inStart
        /\ caller.avail <= 0 => caller'.avail <= 0
    BY DEF Leaves
  <1>4. Placed(from, at)'
    BY <1>1, <1>2, <1>3 DEF Frame, Placed, JobPlaced
  <1>5. Sources(from)'
    BY <1>1, <1>3 DEF Frame, Sources
  <1>6. AfterEnd'
    BY <1>1, <1>3 DEF Frame, AfterEnd
  <1>7. WindowHolds'
    <2>1. serial.nextJobID \in Nat /\ SerialIs(serial.nextJobID, serial.hashed, serial.window)
          /\ serial.window = [ext |-> serial.window.ext, pre |-> serial.window.pre]
      BY DEF Frame, WindowHolds
    <2>2. SerialIs(serial.nextJobID, serial.hashed, serial.window)'
      BY <1>3, <2>1 DEF SerialIs
    <2>3. ASSUME Sound, window > 0
          PROVE  Segment(serial.window.pre, serial.hashed)' /\ Segment(serial.window.ext, serial.hashed - serial.window.pre.size)'
      <3>1. /\ Segment(serial.window.pre, serial.hashed)
            /\ Segment(serial.window.ext, serial.hashed - serial.window.pre.size)
        BY <2>3 DEF Frame, WindowHolds
      <3> QED
        BY <1>3, <3>1 DEF Segment
    <2> QED
      BY <1>1, <1>3, <2>1, <2>2, <2>3 DEF WindowHolds
  <1> QED
    BY <1>4, <1>5, <1>6, <1>7

\* Nor does it change what others have to do.
LEMMA LeavesWork ==
  ASSUME MTAssumption, IInv, OutputRead, Live, NEW from, NEW at, Frame(from, at),
         NEW d, d = mt.doneJobID, d \in Posted, ~Of(d).error, NEW K, K = WithChecksum(Of(d)),
         NEW n, NEW finished \in BOOLEAN, Leaves(d, K, n, finished)
  PROVE  Outputs(at)' /\ Holders(at)' /\ Waiting' /\ AllDone(at)'
  <1>1. /\ d \in Nat /\ d \in Made /\ Made' = (IF finished THEN Made \ {d} ELSE Made)
        /\ Posted' = (IF finished THEN Posted \ {d} ELSE Posted) /\ Posted \subseteq Made
        /\ \A i : Slot(i)' = Slot(i)
        /\ \A i, w : HeldBy(i, w)' <=> HeldBy(i, w)
        /\ \A i : Nobodys(i)' <=> Nobodys(i)
    BY LeavesSame
  <1>2. \A i \in Made : i # d => Of(i)' = Of(i)
    BY DEF Leaves
  <1>3. taken' = taken /\ worker' = worker /\ queued' = queued /\ mt'.jobReady = mt.jobReady /\ mt'.nextJobID = mt.nextJobID
    BY DEF Leaves
  <1>4. /\ Reads(taken, K.cdata, at[d]) /\ Len(K.cdata) <= Share(at, d)
        /\ K.frameChecksumNeeded => K.lastJob /\ d > 0
        /\ Nobodys(d) => Whole(at, d, K)
        /\ K = Of(d) \/ Nobodys(d)
    BY CheckedReads
  <1>5. K.lastJob = Of(d).lastJob
    <2>1. Shapes /\ IsJob(Of(d))
      BY <1>1, KeptSlots DEF Of, IInv, Shapes
    <2> QED
      BY <2>1, JobChecked
  <1>6. /\ Of(d)'.src = Of(d).src /\ Of(d)'.consumed = Of(d).consumed /\ Of(d)'.lastJob = K.lastJob
        /\ Of(d)'.error = Of(d).error /\ Of(d)'.frameChecksumNeeded = K.frameChecksumNeeded
        /\ ~finished => Of(d)'.cdata = K.cdata
    BY <1>5 DEF Leaves
  <1>7. Outputs(at)'
    <2>1. ~finished => Output(at, taken, d, Of(d)')
      BY <1>4, <1>6 DEF Output
    <2> QED
      BY <1>1, <1>2, <1>3, <2>1 DEF Frame, Outputs
  <1>8. Holders(at)'
    <2>1. ASSUME ~finished, NEW w \in Workers, HeldBy(d, w) PROVE HeldAs(at, taken, d, Of(d)', worker[w])
      <3>1. HeldAs(at, taken, d, Of(d), worker[w])
        BY <2>1 DEF Frame, Holders
      <3>2. K = Of(d)
        BY <1>4, <2>1 DEF Nobodys
      <3> QED
        BY <1>6, <2>1, <3>1, <3>2 DEF HeldAs, Untouched, ChecksumToCome, Halfway, Ending, Produced
    <2> QED
      BY <1>1, <1>2, <1>3, <2>1 DEF Frame, Holders
  <1>9. Waiting'
    <2>1. ASSUME ~finished, queued = Slot(d) PROVE Untouched(d, Of(d)') /\ ~Of(d)'.error
      <3>1. Untouched(d, Of(d)) /\ ~Of(d).error
        BY <2>1 DEF Frame, Waiting
      <3>2. K = Of(d)
        BY <1>4, <2>1 DEF Nobodys
      <3> QED
        BY <1>6, <2>1, <3>1, <3>2 DEF Untouched, ChecksumToCome
    <2>2. \A j \in Posted' : queued' = Slot(j)' => Untouched(j, Of(j)') /\ ~Of(j)'.error
      <3>1. ASSUME NEW j \in Posted', queued = Slot(j) PROVE Untouched(j, Of(j)') /\ ~Of(j)'.error
        <4>1. CASE j = d
          BY <1>1, <2>1, <3>1, <4>1
        <4>2. CASE j # d
          <5>1. j \in Posted /\ Of(j)' = Of(j)
            BY <1>1, <1>2, <4>2
          <5> QED
            BY <3>1, <5>1 DEF Frame, Waiting
        <4> QED
          BY <4>1, <4>2
      <3> QED
        BY <1>1, <1>3, <3>1
    <2>3. PICK i : i = mt.nextJobID
      OBVIOUS
    <2>4. ASSUME mt.jobReady PROVE Untouched(i, Of(i)') /\ ~Of(i)'.error
      <3>1. i \in Made /\ i # d
        BY <2>3, <2>4, MadeIs DEF IInv, Posted
      <3>2. Of(i)' = Of(i)
        BY <1>2, <3>1
      <3> QED
        BY <2>3, <2>4, <3>2 DEF Frame, Waiting
    <2> QED
      BY <1>3, <2>2, <2>3, <2>4 DEF Waiting
  <1>10. AllDone(at)'
    <2>1. ASSUME ~finished, Nobodys(d) PROVE Whole(at, d, Of(d)')
      BY <1>4, <1>6, <2>1 DEF Whole, Produced
    <2> QED
      BY <1>1, <1>2, <2>1 DEF Frame, AllDone
  <1> QED
    BY <1>7, <1>8, <1>9, <1>10

\* Those who have had their turn still have had it.
LEMMA LeavesTurn ==
  ASSUME MTAssumption, IInv, NEW from, NEW at, Frame(from, at),
         NEW d, d = mt.doneJobID, d \in Posted, ~Of(d).error, NEW K,
         NEW n, NEW finished \in BOOLEAN, Leaves(d, K, n, finished), finished => Nobodys(d)
  PROVE  InTurn(from)'
  <1>1. /\ d \in Nat /\ d \in Made /\ MadeTo \in Nat /\ MadeTo' = MadeTo
        /\ Posted' \subseteq Posted /\ Posted \subseteq Made
        /\ \A i : Slot(i)' = Slot(i)
        /\ \A i, w : HeldBy(i, w)' <=> HeldBy(i, w)
        /\ \A i : Nobodys(i)' <=> Nobodys(i)
        /\ \A i \in Made : Of(i)'.src = Of(i).src
        /\ Sound' <=> Sound
    BY LeavesSame
  <1>2. /\ serial' = serial /\ worker' = worker /\ queued' = queued /\ mt'.nextJobID = mt.nextJobID
        /\ mt'.frameEnded = mt.frameEnded /\ mt'.doneJobID = IF finished THEN d + 1 ELSE d
    BY DEF Leaves
  <1> SUFFICES ASSUME Sound
               PROVE  /\ serial.nextJobID <= mt.nextJobID /\ serial.hashed = from[serial.nextJobID]
                      /\ ~mt.frameEnded \/ mt'.doneJobID < MadeTo => mt'.doneJobID <= serial.nextJobID
                      /\ \A j \in Posted', w \in Workers : HeldBy(j, w) =>
                           /\ worker[w].at \in TurnToCome => serial.nextJobID <= j
                           /\ worker[w].at \in TurnTaken => serial.nextJobID > j
                      /\ \A j \in Posted' : queued = Slot(j) => serial.nextJobID <= j
                      /\ \A j \in Posted' : Nobodys(j) => serial.nextJobID > j \/ Of(j)'.src.size = 0
    BY <1>1, <1>2 DEF InTurn
  <1>3. /\ serial.nextJobID <= mt.nextJobID /\ serial.hashed = from[serial.nextJobID]
        /\ ~mt.frameEnded \/ d < MadeTo => d <= serial.nextJobID
        /\ \A j \in Posted, w \in Workers : HeldBy(j, w) =>
             /\ worker[w].at \in TurnToCome => serial.nextJobID <= j
             /\ worker[w].at \in TurnTaken => serial.nextJobID > j
        /\ \A j \in Posted : queued = Slot(j) => serial.nextJobID <= j
        /\ \A j \in Posted : Nobodys(j) => serial.nextJobID > j \/ Of(j).src.size = 0
    BY DEF Frame, InTurn
  <1>4. ~mt.frameEnded \/ mt'.doneJobID < MadeTo => mt'.doneJobID <= serial.nextJobID
    <2>1. CASE ~finished
      BY <1>2, <1>3, <2>1
    <2>2. CASE finished
      <3>1. serial.nextJobID > d \/ Of(d).src.size = 0
        BY <1>3, <2>2
      <3>2. CASE serial.nextJobID > d
        <4>1. serial.nextJobID \in Nat
          BY DEF Frame, WindowHolds
        <4> QED
          BY <1>1, <1>2, <2>2, <3>2, <4>1
      <3>3. CASE Of(d).src.size = 0
        <4>1. mt.frameEnded /\ d = MadeTo - 1
          BY <1>1, <3>3 DEF Frame, Placed, JobPlaced
        <4> QED
          BY <1>1, <1>2, <2>2, <4>1
      <3> QED
        BY <3>1, <3>2, <3>3
    <2> QED
      BY <2>1, <2>2
  <1>5. \A j \in Posted' : Nobodys(j) => serial.nextJobID > j \/ Of(j)'.src.size = 0
    BY <1>1, <1>3
  <1> QED
    BY <1>1, <1>3, <1>4, <1>5

\* The next job of those that are made has nothing flushed.
LEMMA LeavesOut ==
  ASSUME MTAssumption, IInv, OutputRead, Counted, Live, NEW from, NEW at, Frame(from, at),
         NEW d, d = mt.doneJobID, d \in Posted, ~Of(d).error, NEW K, K = WithChecksum(Of(d)),
         NEW finished \in BOOLEAN, Leaves(d, K, Part(K), finished)
  PROVE  FlushedTo(at)'
  <1>1. /\ d \in Nat /\ d \in Made /\ MadeTo \in Nat /\ MadeTo' = MadeTo /\ Made \subseteq Nat
        /\ Made' = (IF finished THEN Made \ {d} ELSE Made)
    BY LeavesSame
  <1>2. /\ \A i \in Made : i # d => Of(i)' = Of(i)
        /\ Of(d)'.dstFlushed = Of(d).dstFlushed + Part(K) /\ Of(d)'.error = Of(d).error
        /\ ~finished => Of(d)'.cdata = K.cdata
        /\ mt'.doneJobID = (IF finished THEN d + 1 ELSE d) /\ mt'.frameEnded = mt.frameEnded /\ taken' = taken
        /\ finished <=> Len(K.cdata) > 0 /\ ~Unfinished(Slot(d)) /\ Of(d).dstFlushed + Part(K) = Len(K.cdata)
    BY DEF Leaves
  <1>3. /\ Part(K) \in Nat /\ Of(d).dstFlushed \in Nat /\ Of(d).dstFlushed + Part(K) <= Len(K.cdata)
    BY FlushRoom
  <1>4. /\ Len(out') = at[d] + Of(d).dstFlushed + Part(K)
        /\ Len(out') <= taken + (IF mt.frameEnded THEN 3 ELSE 1)
        /\ at[d] \in Nat /\ at[d + 1] \in Nat
    BY FlushedReads
  <1>5. \A j \in Made : Of(j).dstFlushed \in Nat /\ (j > d => Of(j).dstFlushed = 0)
    BY DEF Frame, FlushedTo
  <1>6. \A j \in Made' : Of(j)'.dstFlushed \in Nat /\ (j > mt'.doneJobID => Of(j)'.dstFlushed = 0)
    <2> SUFFICES ASSUME NEW j \in Made' PROVE Of(j)'.dstFlushed \in Nat /\ (j > mt'.doneJobID => Of(j)'.dstFlushed = 0)
      OBVIOUS
    <2>1. CASE j = d
      BY <1>1, <1>2, <1>3, <2>1
    <2>2. CASE j # d
      <3>1. j \in Made /\ j \in Nat /\ Of(j)' = Of(j)
        BY <1>1, <1>2, <2>2
      <3>2. j > mt'.doneJobID => j > d
        BY <1>1, <1>2, <3>1
      <3> QED
        BY <1>5, <3>1, <3>2
    <2> QED
      BY <2>1, <2>2
  <1>7. CASE ~finished
    <2>1. mt'.doneJobID = d /\ d < MadeTo
      BY <1>1, <1>2, <1>7 DEF Made
    <2>2. Of(d)'.dstFlushed <= Len(Of(d)'.cdata)
      BY <1>2, <1>3, <1>7
    <2>3. Len(out') = at[d] + Of(d)'.dstFlushed
      BY <1>2, <1>3, <1>4
    <2>4. \A i : i = d => Of(i)' = Of(d)'
      OBVIOUS
    <2> QED
      BY <1>1, <1>2, <1>4, <1>6, <2>1, <2>2, <2>3 DEF FlushedTo
  <1>8. CASE finished
    <2>1. mt'.doneJobID = d + 1
      BY <1>2, <1>8
    <2>2. Len(K.cdata) = Share(at, d)
      BY <1>2, <1>8, CheckedReads
    <2>3. Len(out') = at[d + 1]
      BY <1>2, <1>3, <1>4, <1>8, <2>2 DEF Share
    <2>4. PICK e \in Nat : e = d + 1
      BY <1>1
    <2>5. ASSUME e < MadeTo
          PROVE  Of(e)'.dstFlushed = 0 /\ (~Of(e)'.error => Of(e)'.dstFlushed <= Len(Of(e)'.cdata))
      <3>1. e \in Made /\ e # d /\ e > d
        BY <1>1, <2>4, <2>5 DEF Made
      <3>2. Of(e)' = Of(e) /\ Of(e).dstFlushed = 0
        BY <1>2, <1>5, <3>1
      <3>3. ASSUME ~Of(e).error PROVE 0 <= Len(Of(e).cdata)
        <4>1. Of(e).cdata \in Seq(Int)
          BY <3>1, <3>3 DEF Frame, Outputs, Output, Reads
        <4>2. Len(Of(e).cdata) \in Nat
          BY <4>1, LenProperties
        <4> QED
          BY <4>2
      <3> QED
        BY <3>2, <3>3
    <2>6. mt'.doneJobID = e /\ Len(out') = at[e] /\ at[e] \in Nat
      BY <1>4, <2>1, <2>3, <2>4
    <2> QED
      BY <1>1, <1>2, <1>4, <1>6, <2>5, <2>6 DEF FlushedTo
  <1> QED
    BY <1>7, <1>8

LEMMA FlushFrame ==
  ASSUME MTAssumption, IInv, OutputRead, Counted, Live, NEW from, NEW at, Frame(from, at), Flush,
         NEW d, d = mt.doneJobID, d \in Posted
  PROVE  Frame(from, at)' /\ Reads(taken, out', 0) /\ Counted'
  <1>1. PICK K : K = WithChecksum(Of(d))
    OBVIOUS
  <1>2. PICK finished \in BOOLEAN : Leaves(d, K, Part(K), finished)
    BY <1>1, FlushLeaves
  <1>3. ~Of(d).error
    BY DEF Flush, JobFailed, done, Of
  <1>4. finished => Nobodys(d)
    BY <1>1, <1>2, <1>3, CheckedReads DEF Leaves
  <1>5. Placed(from, at)' /\ Sources(from)' /\ AfterEnd' /\ WindowHolds'
    BY <1>2, <1>3, LeavesPlaces
  <1>6. Outputs(at)' /\ Holders(at)' /\ Waiting' /\ AllDone(at)'
    BY <1>1, <1>2, <1>3, LeavesWork
  <1>7. InTurn(from)'
    BY <1>2, <1>3, <1>4, LeavesTurn
  <1>8. FlushedTo(at)' /\ Reads(taken, out', 0)
    BY <1>1, <1>2, <1>3, LeavesOut, FlushedReads
  <1>9. Counted'
    <2>1. /\ Part(K) \in Nat /\ Of(d).dstFlushed \in Nat /\ caller.room - Part(K) \in Nat
      BY <1>1, <1>3, FlushRoom
    <2>2. PICK f \in BOOLEAN : Flushed(done, f)
      BY FlushSteps
    <2>3. caller'.room \in Nat
      <3>1. K = WithChecksum(jobs[done])
        BY <1>1 DEF Of, done
      <3>2. \E ret, left, moved : NextTurn(ret, left, moved) /\ left = caller.room - Part(WithChecksum(jobs[done]))
        BY <2>2, FlushMT
      <3>3. PICK ret, left, moved : NextTurn(ret, left, moved) /\ left = caller.room - Part(K)
        BY <3>1, <3>2
      <3>4. Shapes
        BY DEF IInv
      <3> QED
        BY <2>1, <3>3, <3>4, NextTurnCounted
    <2>4. ASSUME NEW s \in Slots PROVE jobs'[s].dstFlushed \in Nat
      <3>1. CASE s = done
        <4>1. Of(d)'.dstFlushed \in Nat
          BY <1>2, <2>1 DEF Leaves
        <4>2. Of(d)' = jobs'[done]
          <5>1. Slot(d)' = Slot(d) /\ done = Slot(d)
            BY <1>2 DEF Leaves, Slot, done
          <5> QED
            BY <5>1 DEF Of
        <4> QED
          BY <3>1, <4>1, <4>2
      <3>2. CASE s # done
        BY <2>2, <3>2 DEF Flushed, SlotChanges, Counted
      <3> QED
        BY <3>1, <3>2
    <2> QED
      BY <2>3, <2>4 DEF Counted
  <1> QED
    BY <1>5, <1>6, <1>7, <1>8, <1>9 DEF Frame

\* All that is made is flushed, and all that is taken is made.
LEMMA AllIsOut ==
  ASSUME MTAssumption, Shapes', JobsPosted', taken' \in Nat, NEW from, NEW at, Frame(from, at)',
         ~(mt'.doneJobID < mt'.nextJobID), ~mt'.jobReady, ~(mt'.filled > 0)
  PROVE  /\ mt'.frameEnded => Len(out') = taken' + 3
         /\ Len(out') >= taken' + (IF taken' > 0 THEN 1 ELSE 0)
  <1>1. /\ mt'.doneJobID = MadeTo' /\ MadeTo' \in Nat /\ mt'.filled = 0
    <2>1. mt'.filled \in Nat /\ mt'.doneJobID \in Nat /\ mt'.nextJobID \in Nat /\ mt'.doneJobID <= mt'.nextJobID
      BY Constants DEF Shapes, MTFields, JobsPosted
    <2> QED
      BY <2>1 DEF MadeTo
  <1>2. PICK m \in Nat, t \in Nat : m = MadeTo' /\ t = taken'
    BY <1>1
  <1>3. /\ from \in [Nat -> Nat] /\ at \in [Nat -> Nat] /\ from[0] = 0
        /\ from[m] = t /\ at[m] = IF m = 0 THEN 0 ELSE from[m] + 1 + (IF mt'.frameEnded THEN 2 ELSE 0)
    <2>1. from[m] = t - 0
      BY <1>1, <1>2 DEF Frame, Placed
    <2>2. t - 0 = t
      OBVIOUS
    <2>3. from[m] = t
      BY ONLY <2>1, <2>2
    <2>4. at[m] = IF m = 0 THEN 0 ELSE from[m] + 1 + (IF mt'.frameEnded THEN 2 ELSE 0)
      BY <1>2 DEF Frame, Placed
    <2>5. from \in [Nat -> Nat] /\ at \in [Nat -> Nat] /\ from[0] = 0
      BY DEF Frame, Placed
    <2> QED
      BY <2>3, <2>4, <2>5
  <1>4. mt'.frameEnded => m > 0
    BY <1>2 DEF Frame, AfterEnd
  <1>5. Len(out') = at[m]
    <2>1. Len(out') = at[m] + 0
      BY <1>1, <1>2 DEF Frame, FlushedTo
    <2>2. at[m] \in Nat
      BY <1>3
    <2> QED
      BY <2>1, <2>2
  <1>6. PICK o, x : o = Len(out') /\ x \in {0, 2} /\ x = IF mt'.frameEnded THEN 2 ELSE 0
    OBVIOUS
  <1>7. o = IF m = 0 THEN 0 ELSE t + 1 + x
    BY <1>3, <1>5, <1>6
  <1>8. (x = 2 => o = t + 3) /\ o >= t + (IF t > 0 THEN 1 ELSE 0)
    <2>1. x = 2 => m > 0
      BY <1>4, <1>6
    <2>2. m = 0 => t = 0
      BY <1>3
    <2> QED
      BY <1>6, <1>7, <2>1, <2>2
  <1> QED
    BY <1>2, <1>6, <1>8

\* What the end of a call reports.
LEMMA FlushTold ==
  ASSUME MTAssumption, IInv, IInv', InFrame, Flush, taken' \in Nat, NEW from, NEW at, Frame(from, at)'
  PROVE  EndTold'
  <1>1. Shapes /\ CallPhase /\ caller.at = "flush" /\ caller.ret = "none"
    BY DEF IInv, Flush, CallPhase
  <1>2. PICK finished \in BOOLEAN : Flushed(done, finished)
    BY FlushSteps
  <1>3. /\ mt'.nextJobID = mt.nextJobID /\ mt'.jobReady = mt.jobReady /\ mt'.filled = mt.filled
        /\ mt'.frameEnded = mt.frameEnded
    BY <1>2, FlushMT
  <1>4. PICK ret, left, moved :
          /\ ret \in {"zero", "more"} /\ NextTurn(ret, left, moved)
          /\ ret = "zero" => /\ ~(mt'.doneJobID < mt.nextJobID) /\ ~mt.jobReady /\ ~(mt.filled > 0)
                             /\ (caller.turnOp = "end" => mt.frameEnded) /\ caller.avail = 0
    BY <1>2, FlushMT
  <1>5. /\ caller'.op = caller.op
        /\ \/ caller'.at = "idle" /\ caller'.ret = ret
           \/ caller'.at = "range" /\ caller'.ret = caller.ret
    BY <1>1, <1>4, TurnEnds
  <1>6. caller'.ret # "error"
    BY <1>1, <1>4, <1>5
  <1>7. ASSUME ret = "zero"
        PROVE  /\ mt'.frameEnded => Len(out') = taken' + 3
               /\ Len(out') >= taken' + (IF taken' > 0 THEN 1 ELSE 0)
    <2>1. ~(mt'.doneJobID < mt'.nextJobID) /\ ~mt'.jobReady /\ ~(mt'.filled > 0)
      BY <1>3, <1>4, <1>7
    <2>2. Shapes' /\ JobsPosted'
      BY DEF IInv
    <2> QED
      BY <2>1, <2>2, AllIsOut
  <1>8. ASSUME ret = "zero", caller.op = "end" PROVE mt'.frameEnded
    <2>1. caller.avail = 0
      BY <1>4, <1>8
    <2>2. caller.turnOp = "end"
      BY <1>1, <1>8, <2>1 DEF CallPhase
    <2> QED
      BY <1>3, <1>4, <1>8, <2>2
  <1> QED
    BY <1>1, <1>5, <1>6, <1>7, <1>8 DEF EndTold

LEMMA FlushSound ==
  ASSUME MTAssumption, IInv, FrameInv, Counted, Flush
  PROVE  FrameInv' /\ Counted'
  <1>1. Shapes /\ CallPhase /\ JobsPosted /\ caller.at = "flush"
    BY DEF IInv, Flush
  <1>2. InFrame /\ Live /\ OutputRead
    BY <1>1 DEF InFrame, CallPhase, Live, FrameInv
  <1>3. PICK from, at : Frame(from, at)
    BY <1>2 DEF FrameInv
  <1>4. PICK d \in Nat, i \in Nat : d = mt.doneJobID /\ i = mt.nextJobID /\ d <= i
    BY <1>1 DEF Shapes, MTFields, JobsPosted
  <1>5. taken' = taken
    BY DEF Flush
  <1>6. Frame(from, at)' /\ Reads(taken, out', 0) /\ Counted'
    <2>1. CASE d = i
      <3>1. Frame(from, at)'
        BY <1>2, <1>3, <1>4, <2>1, FlushNothingFrame
      <3>2. UNCHANGED <<jobs, out>> /\ Part(WithChecksum(jobs[done])) = 0
        BY <1>2, <1>4, <2>1, FlushNothing
      <3>3. PICK finished \in BOOLEAN : Flushed(done, finished)
        BY FlushSteps
      <3>4. PICK ret, left, moved : NextTurn(ret, left, moved) /\ left = caller.room - Part(WithChecksum(jobs[done]))
        BY <3>3, FlushMT
      <3>5. left \in Nat
        BY <3>2, <3>4 DEF Counted
      <3>6. caller'.room \in Nat
        BY <1>1, <3>4, <3>5, NextTurnCounted
      <3> QED
        BY <1>2, <3>1, <3>2, <3>6 DEF Counted, OutputRead
    <2>2. CASE d # i
      <3>1. d \in Posted
        BY <1>4, <2>2 DEF Posted
      <3> QED
        BY <1>2, <1>3, <1>4, <3>1, FlushFrame
    <2> QED
      BY <2>1, <2>2
  <1>7. OutputRead'
    <2>1. Len(out') <= taken' + (IF mt'.frameEnded THEN 3 ELSE 1) /\ taken' \in Nat /\ Len(out') \in Nat
      BY <1>2, <1>5, <1>6, LenProperties DEF Frame, FlushedTo, OutputRead, Reads
    <2> QED
      BY <1>5, <1>6, <2>1 DEF OutputRead
  <1>8. EndTold'
    <2>1. IInv' /\ taken' \in Nat
      BY <1>2, <1>5, FlushInv DEF OutputRead
    <2> QED
      BY <1>2, <1>6, <2>1, FlushTold
  <1> QED
    BY <1>6, <1>7, <1>8 DEF FrameInv

-----------------------------------------------------------------------------
\* The inductive invariant of the frame, and what follows from it

LEMMA InitSound ==
  ASSUME MTAssumption, Init
  PROVE  FrameInv /\ Counted
  <1>1. mt.session = "init" /\ taken = 0 /\ out = <<>> /\ caller = NoCall /\ jobs = [s \in Slots |-> ClearJob]
    BY DEF Init
  <1>2. caller.ret = "none" /\ caller.room = 0
    BY <1>1 DEF NoCall
  <1>3. OutputRead /\ EndTold
    BY <1>1, <1>2 DEF OutputRead, EndTold, Reads
  <1>4. \A s \in Slots : jobs[s].dstFlushed \in Nat
    BY <1>1 DEF ClearJob
  <1> QED
    BY <1>1, <1>2, <1>3, <1>4 DEF FrameInv, InFrame, Counted

LEMMA StutterSound ==
  ASSUME FrameInv, Counted, UNCHANGED vars
  PROVE  FrameInv' /\ Counted'
  <1>1. Counted' /\ OutputRead' /\ EndTold' /\ (InFrame' <=> InFrame)
    BY DEF vars, Counted, FrameInv, OutputRead, EndTold, InFrame
  <1>2. ASSUME InFrame PROVE \E from, at : Frame(from, at)'
    <2>1. PICK from, at : Frame(from, at)
      BY <1>2 DEF FrameInv
    <2>2. UNCHANGED <<mt, jobs, round, queued, worker, serial, caller, taken, out>>
      BY DEF vars
    <2>3. \A w \in Workers : (Holds(w)' <=> Holds(w)) /\ (Holds(w) => worker'[w] = worker[w])
      BY <2>2 DEF Holds
    <2>4. Frame(from, at)'
      BY <1>2, <2>1, <2>2, <2>3, FrameRests
    <2> QED
      BY <2>4
  <1> QED
    BY <1>1, <1>2 DEF FrameInv

LEMMA NextSound ==
  ASSUME MTAssumption, dictSize = 0, ~MayAbandon, IInv, FrameInv, Counted, [Next]_vars
  PROVE  FrameInv' /\ Counted'
  <1>1. CASE \E w \in Workers : Work(w)
    BY <1>1, WorkSound, WorkCounted
  <1>2. CASE \/ \E op \in {"continue", "flush", "end"}, avail \in Inputs, room \in Rooms : Call(op, avail, room)
             \/ SameSize \/ NoRangeNeeded \/ TryRange
    BY <1>2, CallerSound, CallerCounted
  <1>3. CASE (\E n \in NbWorkers : Resize(n)) \/ WrongStage \/ FlushFails \/ FreeCCtx
    BY <1>3, OutsideFrame, CallerCounted
  <1>4. CASE InitFrame
    BY <1>4, InitFrameSound, CallerCounted
  <1>5. CASE MovePrefix \/ TakeRange
    BY <1>5, RangeSound, CallerCounted
  <1>6. CASE LoadAndPost
    BY <1>6, LoadSound, LoadCounted
  <1>7. CASE Flush
    BY <1>7, FlushSound
  <1>8. CASE Abandon
    BY <1>8 DEF Abandon
  <1>9. CASE UNCHANGED vars
    BY <1>9, StutterSound
  <1> QED
    BY <1>1, <1>2, <1>3, <1>4, <1>5, <1>6, <1>7, <1>8, <1>9 DEF Next, Proceed

LEMMA FrameHolds ==
  ASSUME MTAssumption, dictSize = 0, ~MayAbandon
  PROVE  Spec => [](IInv /\ FrameInv)
  <1>1. Init => IInv /\ FrameInv /\ Counted
    BY InitInv, InitSound
  <1>2. IInv /\ FrameInv /\ Counted /\ [Next]_vars => (IInv /\ FrameInv /\ Counted)'
    BY NextInv, NextSound
  <1> QED
    BY <1>1, <1>2, PTL DEF Spec

\* w holds the m symbols of s, then the n symbols of t.
Joined(w, s, t, m, n) ==
  /\ w \in Seq(Int) /\ Len(w) = m + n
  /\ \A p \in 1 .. m : w[p] = s[p]
  /\ \A q \in 1 .. n : w[m + q] = t[q]

LEMMA JoinedAt ==
  ASSUME NEW s \in Seq(Int), NEW t \in Seq(Int)
  PROVE  Joined(s \o t, s, t, Len(s), Len(t))
  <1>0. PICK m \in Nat, n \in Nat : Len(s) = m /\ Len(t) = n
    OBVIOUS
  <1>1. s \o t \in Seq(Int) /\ Len(s \o t) = m + n
    BY <1>0, ConcatProperties
  <1>2. ASSUME NEW p \in 1 .. m PROVE (s \o t)[p] = s[p]
    <2>1. p \in 1 .. Len(s) + Len(t) /\ p <= Len(s)
      BY <1>0
    <2> QED
      BY <2>1, ConcatProperties
  <1>3. ASSUME NEW q \in 1 .. n PROVE (s \o t)[m + q] = t[q]
    <2>1. PICK i \in Nat : i = m + q
      OBVIOUS
    <2>2. i \in 1 .. Len(s) + Len(t) /\ ~(i <= Len(s)) /\ i - Len(s) = q
      BY <1>0, <2>1
    <2>3. (s \o t)[i] = t[i - Len(s)]
      BY <2>2, ConcatProperties
    <2> QED
      BY <2>1, <2>2, <2>3
  <1> QED
    BY <1>0, <1>1, <1>2, <1>3 DEF Joined

\* The frame of k bytes of input.
WholeOf(k) == <<Header>> \o [i \in 1 .. k |-> i] \o <<LastBlock, Checksum(k)>>

\* A header, the k bytes of input, and the end of the frame.
Parts(k, a, b, c) ==
  /\ a \in Seq(Int) /\ Len(a) = 1 /\ a[1] = 0
  /\ b \in Seq(Int) /\ Len(b) = k /\ \A i \in 1 .. k : b[i] = i
  /\ c \in Seq(Int) /\ Len(c) = 2 /\ c[1] = LastBlock /\ c[2] = Checksum(k)

LEMMA ThreeParts ==
  ASSUME NEW k \in Nat, NEW a, NEW b, NEW c, Parts(k, a, b, c)
  PROVE  /\ a \o b \o c \in Seq(Int) /\ Len(a \o b \o c) = k + 3
         /\ \A p \in 1 .. k + 3 : (a \o b \o c)[p] = SymbolAt(k, p)
  <1> USE DEF Parts
  <1>0. PICK m \in Nat : m = k + 1
    OBVIOUS
  <1>1. PICK d : d = a \o b
    OBVIOUS
  <1>2. PICK e : e = d \o c
    OBVIOUS
  <1>3. /\ d \in Seq(Int) /\ Len(d) = m
        /\ \A p \in 1 .. 1 : d[p] = a[p]
        /\ \A q \in 1 .. k : d[1 + q] = b[q]
    <2>1. Joined(d, a, b, 1, k)
      BY <1>1, JoinedAt
    <2> QED
      BY <1>0, <2>1 DEF Joined
  <1>4. d[1] = 0 /\ \A p \in 2 .. m : d[p] = p - 1
    <2>1. d[1] = 0
      <3>1. 1 \in 1 .. 1
        OBVIOUS
      <3> QED
        BY <1>3, <3>1
    <2>2. ASSUME NEW p \in 2 .. m PROVE d[p] = p - 1
      <3>1. PICK q \in 1 .. k : q = p - 1 /\ p = 1 + q
        BY <1>0
      <3> QED
        BY <1>3, <3>1
    <2> QED
      BY <2>1, <2>2
  <1>5. /\ e \in Seq(Int) /\ Len(e) = m + 2
        /\ \A p \in 1 .. m : e[p] = d[p]
        /\ \A q \in 1 .. 2 : e[m + q] = c[q]
    <2>1. Joined(e, d, c, m, 2)
      BY <1>2, <1>3, JoinedAt
    <2> QED
      BY <2>1 DEF Joined
  <1>6. e[k + 2] = LastBlock /\ e[k + 3] = Checksum(k)
    <2>1. e[m + 1] = c[1] /\ e[m + 2] = c[2]
      BY <1>5
    <2>2. m + 1 = k + 2 /\ m + 2 = k + 3
      BY <1>0
    <2> QED
      BY <2>1, <2>2
  <1>7. ASSUME NEW p \in 1 .. k + 3 PROVE e[p] = SymbolAt(k, p)
    <2>1. CASE p = 1
      <3>1. 1 \in 1 .. m
        BY <1>0
      <3> QED
        BY <1>4, <1>5, <2>1, <3>1 DEF SymbolAt
    <2>2. CASE p \in 2 .. k + 1
      <3>1. p \in 1 .. m /\ p \in 2 .. m
        BY <1>0, <2>2
      <3> QED
        BY <1>4, <1>5, <2>2, <3>1 DEF SymbolAt
    <2>3. CASE p = k + 2
      BY <1>6, <2>3 DEF SymbolAt
    <2>4. CASE p = k + 3
      BY <1>6, <2>4 DEF SymbolAt
    <2>5. p = 1 \/ p \in 2 .. k + 1 \/ p = k + 2 \/ p = k + 3
      OBVIOUS
    <2> QED
      BY <2>1, <2>2, <2>3, <2>4, <2>5
  <1>8. e \in Seq(Int) /\ Len(e) = k + 3 /\ e = a \o b \o c
    BY <1>0, <1>1, <1>2, <1>5
  <1> QED
    BY <1>7, <1>8

LEMMA WholeFrame ==
  ASSUME NEW k \in Nat
  PROVE  /\ WholeOf(k) \in Seq(Int) /\ Len(WholeOf(k)) = k + 3
         /\ \A p \in 1 .. k + 3 : WholeOf(k)[p] = SymbolAt(k, p)
  <1>1. PICK a : a = <<Header>>
    OBVIOUS
  <1>2. PICK b : b = [i \in 1 .. k |-> i]
    OBVIOUS
  <1>3. PICK c : c = <<LastBlock, Checksum(k)>>
    OBVIOUS
  <1>4. a \in Seq(Int) /\ Len(a) = 1 /\ a[1] = 0
    BY <1>1 DEF Header
  <1>5. b \in Seq(Int) /\ Len(b) = k /\ \A i \in 1 .. k : b[i] = i
    <2>1. b \in [1 .. k -> Int]
      BY <1>2
    <2> QED
      BY <1>2, <2>1
  <1>6. c \in Seq(Int) /\ Len(c) = 2 /\ c[1] = LastBlock /\ c[2] = Checksum(k)
    <2>1. LastBlock \in Int /\ Checksum(k) \in Int
      BY DEF LastBlock, Checksum, BadSum
    <2> QED
      BY <1>3, <2>1
  <1>7. WholeOf(k) = a \o b \o c
    BY <1>1, <1>2, <1>3 DEF WholeOf
  <1>8. /\ a \o b \o c \in Seq(Int) /\ Len(a \o b \o c) = k + 3
        /\ \A p \in 1 .. k + 3 : (a \o b \o c)[p] = SymbolAt(k, p)
    <2>1. Parts(k, a, b, c)
      BY <1>4, <1>5, <1>6 DEF Parts
    <2> QED
      BY <2>1, ThreeParts
  <1> QED
    BY <1>7, <1>8

LEMMA OutputIsPrefix ==
  ASSUME OutputRead
  PROVE  IsPrefix(out, <<Header>> \o [i \in 1 .. taken |-> i] \o <<LastBlock, Checksum(taken)>>)
  <1>1. PICK k \in Nat : k = taken
    BY DEF OutputRead
  <1>2. out \in Seq(Int) /\ Len(out) \in Nat /\ Len(out) <= k + 3 /\ \A i \in 1 .. Len(out) : out[i] = SymbolAt(k, 0 + i)
    BY <1>1, LenProperties DEF OutputRead, Reads
  <1>3. WholeOf(k) \in Seq(Int) /\ Len(WholeOf(k)) = k + 3
    BY WholeFrame
  <1>4. ASSUME NEW i \in 1 .. Len(out) PROVE out[i] = WholeOf(k)[i]
    <2>1. i \in 1 .. k + 3 /\ 0 + i = i
      BY <1>2
    <2> QED
      BY <1>2, <2>1, WholeFrame
  <1>5. IsPrefix(out, WholeOf(k))
    BY <1>2, <1>3, <1>4 DEF IsPrefix
  <1> QED
    BY <1>1, <1>5 DEF WholeOf

\* Two segments of the window hold what comes before last, one after the other.
LEMMA SegmentsFollow ==
  ASSUME NEW r, NEW t, NEW last \in Int, Segment(t, last), Segment(r, last - t.size)
  PROVE  LET b == Bytes(r) \o Bytes(t) IN Consecutive(b) /\ (b # <<>> => Last(b) = last)
  <1>1. r \in [start : Nat, size : Nat] /\ t \in [start : Nat, size : Nat]
    BY DEF Segment
  <1>2. PICK rs \in Nat, rn \in Nat, ts \in Nat, tn \in Nat : rs = r.start /\ rn = r.size /\ ts = t.start /\ tn = t.size
    BY <1>1
  <1>3. /\ \A x \in rs .. rs + rn - 1 : round[x] = last - tn + 1 + x - (rs + rn)
        /\ \A x \in ts .. ts + tn - 1 : round[x] = last + 1 + x - (ts + tn)
    BY <1>2 DEF Segment, End
  <1> DEFINE x == Bytes(r)  y == Bytes(t)
  <1>6. PICK first \in Int : last = first + rn + tn
    <2>1. last - rn - tn \in Int /\ last = (last - rn - tn) + rn + tn
      OBVIOUS
    <2> QED
      BY <2>1
  <1>4. x \in Seq(Int) /\ Len(x) = rn /\ \A i \in 1 .. rn : x[i] = first + i
    <2>1. ASSUME NEW i \in 1 .. rn PROVE round[rs + i - 1] = first + i
      <3>1. rs + i - 1 \in rs .. rs + rn - 1
        OBVIOUS
      <3>2. round[rs + i - 1] = last - tn + 1 + (rs + i - 1) - (rs + rn)
        BY <1>3, <3>1
      <3> QED
        BY <1>6, <3>2
    <2>2. x = [i \in 1 .. rn |-> round[rs + i - 1]]
      BY <1>2 DEF Bytes
    <2> HIDE DEF x
    <2>3. \A i \in 1 .. rn : x[i] = first + i
      BY <2>1, <2>2
    <2>5. \A i \in 1 .. rn : first + i \in Int
      BY <1>6
    <2>4. x \in [1 .. rn -> Int]
      <3>1. \A i \in 1 .. rn : round[rs + i - 1] \in Int
        BY <2>1, <2>5
      <3> QED
        BY <2>2, <3>1
    <2> QED
      BY <2>3, <2>4
  <1>5. y \in Seq(Int) /\ Len(y) = tn /\ \A i \in 1 .. tn : y[i] = first + rn + i
    <2>1. ASSUME NEW i \in 1 .. tn PROVE round[ts + i - 1] = first + rn + i
      <3>1. ts + i - 1 \in ts .. ts + tn - 1
        OBVIOUS
      <3>2. round[ts + i - 1] = last + 1 + (ts + i - 1) - (ts + tn)
        BY <1>3, <3>1
      <3> QED
        BY <1>6, <3>2
    <2>2. y = [i \in 1 .. tn |-> round[ts + i - 1]]
      BY <1>2 DEF Bytes
    <2> HIDE DEF y
    <2>3. \A i \in 1 .. tn : y[i] = first + rn + i
      BY <2>1, <2>2
    <2>5. \A i \in 1 .. tn : first + rn + i \in Int
      BY <1>6
    <2>4. y \in [1 .. tn -> Int]
      <3>1. \A i \in 1 .. tn : round[ts + i - 1] \in Int
        BY <2>1, <2>5
      <3> QED
        BY <2>2, <3>1
    <2> QED
      BY <2>3, <2>4
  <1> HIDE DEF x, y
  <1> DEFINE b == x \o y
  <1>8. b \in Seq(Int) /\ Len(b) = rn + tn /\ \A i \in 1 .. rn + tn : b[i] = first + i
    <2>1. b \in Seq(Int) /\ Len(b) = rn + tn
      BY <1>4, <1>5, ConcatProperties
    <2>2. ASSUME NEW i \in 1 .. rn + tn PROVE b[i] = first + i
      <3>1. CASE i <= rn
        BY <1>4, <1>5, <3>1, ConcatProperties
      <3>2. CASE ~(i <= rn)
        <4>0. i - rn \in 1 .. tn
          BY <3>2
        <4>1. b[i] = y[i - rn]
          <5>1. i \in 1 .. Len(x) + Len(y) /\ ~(i <= Len(x)) /\ Len(x) = rn /\ x \in Seq(Int) /\ y \in Seq(Int)
            BY <1>4, <1>5, <3>2
          <5> QED
            BY <5>1, ConcatProperties
        <4>2. y[i - rn] = first + rn + (i - rn)
          BY <1>5, <4>0
        <4> QED
          BY <1>6, <4>0, <4>1, <4>2
      <3> QED
        BY <3>1, <3>2
    <2> QED
      BY <2>1, <2>2
  <1> HIDE DEF b
  <1>9. Consecutive(b)
    <2> SUFFICES ASSUME NEW i \in DOMAIN b, i > 1 PROVE b[i] = b[i - 1] + 1
      BY DEF Consecutive
    <2>1. i \in 1 .. rn + tn /\ i - 1 \in 1 .. rn + tn
      BY <1>8
    <2>2. b[i] = first + i /\ b[i - 1] = first + (i - 1)
      BY <1>8, <2>1
    <2> QED
      BY <1>6, <2>1, <2>2
  <1>10. ASSUME b # <<>> PROVE Last(b) = last
    <2>1. rn + tn \in 1 .. rn + tn
      BY <1>8, <1>10
    <2> QED
      BY <1>6, <1>8, <2>1 DEF Last
  <1> QED
    BY <1>9, <1>10 DEF b, x, y

LEMMA WindowIsIntact ==
  ASSUME MTAssumption, IInv, FrameInv
  PROVE  LdmWindowIntact
  <1> SUFFICES ASSUME window > 0, mt.session = "load", caller.at # "freed", \A s \in Active : ~jobs[s].error
               PROVE  LET b == Bytes(serial.window.ext) \o Bytes(serial.window.pre) IN
                      Consecutive(b) /\ (b # <<>> => Last(b) = serial.hashed)
    BY DEF LdmWindowIntact
  <1>1. PICK from, at : Frame(from, at)
    BY DEF FrameInv, InFrame
  <1>2. Sound
    <2>1. \A j \in Posted : ~Of(j).error
      BY DEF Active, Posted, Of
    <2>2. mt.jobReady => ~Of(mt.nextJobID).error
      BY <1>1 DEF Frame, Waiting
    <2>3. \A j \in Made : j \in Posted \/ (mt.jobReady /\ j = mt.nextJobID)
      BY MadeIs DEF IInv
    <2> QED
      BY <2>1, <2>2, <2>3 DEF Sound
  <1>3. serial.hashed \in Int
    <2>1. serial.nextJobID \in Nat /\ serial.hashed = from[serial.nextJobID] /\ from \in [Nat -> Nat]
      BY <1>1, <1>2 DEF Frame, WindowHolds, InTurn, Placed
    <2> QED
      BY <2>1
  <1>4. /\ Segment(serial.window.pre, serial.hashed)
        /\ Segment(serial.window.ext, serial.hashed - serial.window.pre.size)
    BY <1>1, <1>2 DEF Frame, WindowHolds
  <1> QED
    BY <1>3, <1>4, SegmentsFollow

-----------------------------------------------------------------------------
\* Theorems

\* While no frame is abandoned, whatever the number of workers, the sizes and the order in
\* which jobs end, the caller's thread never loads input or moves the prefix over bytes that
\* a posted job still has to read: the source of the job and its prefix are consecutive
\* bytes of the frame (ZSTDMT_tryGetInputRange(), ZSTDMT_getInputDataInUse()).
THEOREM InputsAreIntact ==
  ASSUME MTAssumption, dictSize = 0, ~MayAbandon
  PROVE  Spec => []JobInputIntact
  <1>1. IInv => JobInputIntact
    <2> SUFFICES ASSUME IInv, NEW j \in mt.doneJobID .. mt.nextJobID - 1, Unfinished(Slot(j))
                 PROVE  Consecutive(Bytes(jobs[Slot(j)].prefix) \o Bytes(jobs[Slot(j)].src))
      BY DEF JobInputIntact, InBuffer, Dictionary
    <2>1. j \in Kept
      BY DEF IInv, Shapes, MTFields, Kept
    <2> QED
      BY <2>1, KeptIsConsecutive
  <1>2. Spec => []IInv
    BY InvariantHolds
  <1> QED
    BY <1>1, <1>2, PTL

\* While no frame is abandoned, two workers never have the same job, nor a worker the job
\* that waits in the pool, and what they have is not finished; unless the call has failed,
\* it is a job that was posted and is not flushed, so that the caller's thread does not
\* clear it, take its checksum or give its slot to another job before the worker has ended.
THEOREM WorkersAreApart ==
  ASSUME MTAssumption, dictSize = 0, ~MayAbandon
  PROVE  Spec => [](HeldApart /\ JobsPosted /\ HeldPosted)
  <1>1. IInv => HeldApart /\ JobsPosted /\ HeldPosted
    BY DEF IInv
  <1>2. Spec => []IInv
    BY InvariantHolds
  <1> QED
    BY <1>1, <1>2, PTL

\* While no frame is abandoned, for every number of workers, size of jobs, of chunks and of
\* the overlap, every order in which workers run, and whether or not jobs fail: what
\* ZSTDMT_flushProduced() has given the caller is the frame of the input taken so far, from
\* its header on, each byte once and in order, with the checksum of all of it at the end;
\* a call that reports the end of the frame has given all of it, and a call that reports a
\* complete flush has given all the input taken so far.
THEOREM OutputIsFrame ==
  ASSUME MTAssumption, dictSize = 0, ~MayAbandon
  PROVE  Spec => []FrameIsInput
  <1>1. IInv /\ FrameInv => FrameIsInput
    BY OutputIsPrefix DEF FrameInv, EndTold, FrameIsInput
  <1>2. Spec => [](IInv /\ FrameInv)
    BY FrameHolds
  <1> QED
    BY <1>1, <1>2, PTL

\* While no frame is abandoned, the caller's thread never loads input or moves the prefix
\* over the bytes that the long distance matcher will search for the next job, as long as no
\* job that is not flushed has failed: both segments of its window hold the bytes before the
\* last one it has taken, one after the other (ZSTDMT_waitForLdmComplete(),
\* ZSTDMT_serialState_genSequences()).
THEOREM WindowIsKept ==
  ASSUME MTAssumption, dictSize = 0, ~MayAbandon
  PROVE  Spec => []LdmWindowIntact
  <1>1. IInv /\ FrameInv => LdmWindowIntact
    BY WindowIsIntact
  <1>2. Spec => [](IInv /\ FrameInv)
    BY FrameHolds
  <1> QED
    BY <1>1, <1>2, PTL
=============================================================================

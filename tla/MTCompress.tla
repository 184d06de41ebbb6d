----------------------------- MODULE MTCompress -----------------------------
(***************************************************************************)
(* Multithreaded compression, zstdmt_compress.c, under the loop that       *)
(* ZSTD_compressStream2 runs when nbWorkers > 0.  The caller's thread cuts *)
(* the input into jobs that lie in a round buffer, posts them to a worker  *)
(* pool with room for one waiting job, and flushes what they produce, in   *)
(* order.  A step is what a thread does between two points where another   *)
(* one can get in.                                                         *)
(*                                                                         *)
(* Input bytes are numbered from 1 in each frame.  The compressed form of  *)
(* a byte is its number as the worker reads it from the round buffer, and  *)
(* Header, LastBlock and Checksum(k) stand for the rest of a frame.        *)
(***************************************************************************)
EXTENDS Integers, Sequences, FiniteSets, SequencesExt

CONSTANTS
  NbWorkers,       \* workers a frame may ask for
  section,         \* targetSectionSize
  overlap,         \* targetPrefixSize
  window,          \* the window of the long distance matcher; 0 when it is off
  dictSize,        \* a dictionary of raw content, which is the first job's prefix; 0 without one
  chunkSize,       \* what a worker compresses between two reports
  jobSizeMin,      \* ZSTDMT_JOBSIZE_MIN
  rsyncable,
  Inputs, Rooms,   \* sizes of the input and of the output room of a call
  MaxInput,        \* bytes in a frame
  MaxFrames,
  MayFail,         \* whether allocations and compression can fail
  MayAbandon,      \* whether the caller resets the session inside a frame
  OwnPool          \* FALSE when the caller has provided the thread pool

\* On a 64-bit machine.
ZSTDMT_NBWORKERS_MAX == 256

MTAssumption ==
  /\ NbWorkers \subseteq 1 .. ZSTDMT_NBWORKERS_MAX /\ NbWorkers # {}
  /\ {section, chunkSize} \subseteq Nat \ {0} /\ overlap \in 0 .. section /\ window \in Nat
  /\ dictSize \in Nat /\ (dictSize > 0 => window = 0)
  /\ jobSizeMin \in 1 .. section
  /\ Inputs \subseteq Nat /\ Rooms \subseteq Nat /\ {MaxInput, MaxFrames} \subseteq Nat
  /\ {rsyncable, MayFail, MayAbandon, OwnPool} \subseteq BOOLEAN

Most(a, b) == IF a > b THEN a ELSE b
Least(a, b) == IF a < b THEN a ELSE b

None == -1
NoRange == [start |-> None, size |-> 0]
Header == 0
LastBlock == -1
BadSum == -2
Checksum(k) == IF k = BadSum THEN BadSum ELSE 1000 + k

\* ZSTDMT_createJobsTable(): the next power of two.
TableSize(n) == CHOOSE t \in {4, 8, 16, 32, 64, 128, 256, 512} : n + 2 < t /\ t <= 2 * (n + 2)
\* Not the code: one section of slack less.
capacityShort(n) == Most(window, section * n) + section * (IF overlap > 0 THEN 2 ELSE 1)
capacityFor(n) == Most(window, section * n) + section * (IF overlap > 0 THEN 3 ELSE 2)
BUF_POOL_MAX_NB_BUFFERS(n) == 2 * n + 3

MaxWorkers == CHOOSE n \in NbWorkers : \A m \in NbWorkers : m <= n
Workers == 1 .. MaxWorkers
Slots == 0 .. TableSize(MaxWorkers) - 1
Cells == 0 .. capacityFor(MaxWorkers) - 1

\* The dictionary lies anywhere but in the round buffer.
Dictionary == IF dictSize = 0 THEN NoRange ELSE [start |-> capacityFor(MaxWorkers) + 1, size |-> dictSize]
InBuffer(r) == IF r = Dictionary THEN NoRange ELSE r

VARIABLES
  mt,         \* ZSTDMT_CCtx: fields that only the caller's thread uses
  jobs,       \* ZSTDMT_jobDescription by slot
  round,      \* the bytes of roundBuff
  queued,     \* the slot that waits in the worker pool, or None
  worker,     \* each worker: where it is in ZSTDMT_compressionJob, with what
  serial,     \* SerialState: nextJobID, what is hashed, the window
  pools,      \* buffers and contexts that lie in their pools
  caller,     \* where the caller's thread is, with its call
  taken,      \* bytes of the frame taken from the input
  out,        \* what the caller has got of the frame
  frames

vars == <<mt, jobs, round, queued, worker, serial, pools, caller, taken, out, frames>>

\* A slot as calloc or memset leave it.
ClearJob == [src |-> NoRange, prefix |-> NoRange, jobID |-> 0, lastJob |-> FALSE,
             consumed |-> 0, cdata |-> <<>>, error |-> FALSE, dstFlushed |-> 0, dstBuff |-> FALSE,
             frameChecksumNeeded |-> FALSE]
IdleWorker == [at |-> "idle", slot |-> None, chunk |-> 0, tail |-> <<>>, cctx |-> FALSE]
NoWindow == [ext |-> [start |-> 0, size |-> 0], pre |-> [start |-> 0, size |-> 0]]
NoCall == [at |-> "idle", op |-> "none", turnOp |-> "none", avail |-> 0, room |-> 0,
           fwd |-> FALSE, moved |-> FALSE, inUse |-> NoRange, ret |-> "none"]

Init ==
  /\ \E n \in NbWorkers :
       /\ mt = [nbWorkers |-> n, table |-> TableSize(n), capacity |-> 0, pos |-> 0,
                inStart |-> None, filled |-> 0, prefix |-> NoRange, jobReady |-> FALSE,
                doneJobID |-> 0, nextJobID |-> 0, frameEnded |-> FALSE, allJobsCompleted |-> TRUE,
                session |-> "init"]
       /\ pools = [buffers |-> 0, totalBuffers |-> BUF_POOL_MAX_NB_BUFFERS(n), cctx |-> 1, totalCCtx |-> n]
  /\ jobs = [s \in Slots |-> ClearJob]
  /\ round = [c \in Cells |-> 0]
  /\ queued = None
  /\ worker = [w \in Workers |-> IdleWorker]
  /\ serial = [nextJobID |-> 0, hashed |-> 0, window |-> NoWindow]
  /\ caller = NoCall
  /\ taken = 0 /\ out = <<>> /\ frames = 0

-----------------------------------------------------------------------------
\* Ranges and resources

Bytes(r) == [i \in 1 .. r.size |-> round[r.start + i - 1]]
End(r) == r.start + r.size

isOverlapped(a, b) ==
  /\ a.start # None /\ b.start # None
  /\ a.size > 0 /\ b.size > 0
  /\ a.start < End(b) /\ b.start < End(a)

doesOverlapWindow(a) ==
  window > 0 /\ (isOverlapped(a, serial.window.ext) \/ isOverlapped(a, serial.window.pre))

Slot(jobID) == jobID % mt.table
Active == {Slot(j) : j \in mt.doneJobID .. mt.nextJobID - 1}
Unfinished(s) == jobs[s].consumed < jobs[s].src.size
AllCompleted == \A s \in Active : ~Unfinished(s)
Busy == {w \in Workers : worker[w].at # "idle"}

getBuffer(p) == [p EXCEPT !.buffers = Most(@ - 1, 0)]

releaseBuffer(p) ==
  IF p.buffers < p.totalBuffers THEN [p EXCEPT !.buffers = @ + 1] ELSE p

\* The context comes from the pool, or is a new one.
getCCtx(p) == [p EXCEPT !.cctx = Most(@ - 1, 0)]

releaseCCtx(p) ==
  IF p.cctx < p.totalCCtx THEN [p EXCEPT !.cctx = @ + 1] ELSE p

-----------------------------------------------------------------------------
\* Workers: POOL_thread() and ZSTDMT_compressionJob()

Job(w) == jobs[worker[w].slot]
CallerWaits == UNCHANGED <<mt, caller, taken, out, frames, round>>

Pop(w) ==
  /\ worker[w].at = "idle" /\ queued # None
  /\ Cardinality(Busy) < mt.nbWorkers
  /\ worker' = [worker EXCEPT ![w] = [IdleWorker EXCEPT !.at = "begin", !.slot = queued]]
  /\ queued' = None
  /\ CallerWaits /\ UNCHANGED <<jobs, serial, pools>>

Begin(w) ==
  /\ worker[w].at = "begin"
  /\ worker' = [worker EXCEPT ![w].at = "serial", ![w].cctx = TRUE]
  /\ pools' = getBuffer(getCCtx(pools))
  /\ jobs' = [jobs EXCEPT ![worker[w].slot].dstBuff = TRUE]
  /\ CallerWaits /\ UNCHANGED <<queued, serial>>

\* JOB_ERROR before the serial step: no context, or no buffer.
BeginFails(w) ==
  /\ MayFail /\ worker[w].at = "begin"
  /\ \E cctx \in {c \in BOOLEAN : c \/ pools.cctx = 0} :
       /\ worker' = [worker EXCEPT ![w].at = "ensure", ![w].cctx = cctx]
       /\ pools' = IF cctx THEN getCCtx(pools) ELSE pools
  /\ jobs' = [jobs EXCEPT ![worker[w].slot].error = TRUE]
  /\ CallerWaits /\ UNCHANGED <<queued, serial>>

\* XXH64_update(), as the number of bytes hashed in their order.
Hash(k, bytes) == IF k # BadSum /\ bytes = [i \in DOMAIN bytes |-> k + i] THEN k + Len(bytes) ELSE BadSum

\* ZSTD_window_update() and the ZSTD_window_enforceMaxDist() of ZSTD_ldm_generateSequences().
WindowUpdate(win, src) ==
  LET moved == IF src.start = End(win.pre) THEN win
               ELSE [ext |-> win.pre, pre |-> [start |-> src.start, size |-> 0]]
      grown == [moved EXCEPT !.pre.size = @ + src.size]
      \* What the input has overwritten of the older segment.
      low == IF isOverlapped(src, grown.ext) THEN Least(End(src), End(grown.ext)) ELSE grown.ext.start
      cut == [grown EXCEPT !.ext = [start |-> low, size |-> End(grown.ext) - low]]
      extra == Most(cut.ext.size + cut.pre.size - window, 0)
      fromExt == Least(extra, cut.ext.size)
  IN  [ext |-> [start |-> cut.ext.start + fromExt, size |-> cut.ext.size - fromExt],
       pre |-> [start |-> cut.pre.start + extra - fromExt, size |-> cut.pre.size - (extra - fromExt)]]

\* Not the code: a job does not wait for its turn.
GenSequencesAtOnce(w) ==
  /\ worker[w].at = "serial"
  /\ serial' = [nextJobID |-> serial.nextJobID + 1,
                hashed |-> Hash(serial.hashed, Bytes(Job(w).src)),
                window |-> serial.window]
  /\ worker' = [worker EXCEPT ![w].at = "compress"]
  /\ CallerWaits /\ UNCHANGED <<queued, jobs, pools>>

\* ZSTDMT_serialState_genSequences(): a later job that failed may have gone past this one.
GenSequences(w) ==
  /\ worker[w].at = "serial" /\ serial.nextJobID >= Job(w).jobID
  /\ LET turn == serial.nextJobID = Job(w).jobID
         src == Job(w).src IN
     serial' = [nextJobID |-> serial.nextJobID + 1,
                hashed |-> IF turn /\ src.size > 0 THEN Hash(serial.hashed, Bytes(src)) ELSE serial.hashed,
                window |-> IF turn /\ src.size > 0 /\ window > 0 THEN WindowUpdate(serial.window, src)
                           ELSE serial.window]
  /\ worker' = [worker EXCEPT ![w].at = "compress"]
  /\ CallerWaits /\ UNCHANGED <<queued, jobs, pools>>

nbChunks(j) == (j.src.size + chunkSize - 1) \div chunkSize
First(j, chunk) == IF chunk = 0 /\ j.jobID = 0 THEN <<Header>> ELSE <<>>
ChunkOf(j, chunk) == [start |-> j.src.start + chunk * chunkSize,
                      size |-> Least(chunkSize, j.src.size - chunk * chunkSize)]

CompressChunk(w) ==
  /\ worker[w].at = "compress"
  /\ LET j == Job(w)  chunk == worker[w].chunk IN
     /\ chunk + 1 < nbChunks(j)
     /\ jobs' = [jobs EXCEPT ![worker[w].slot].cdata = @ \o First(j, chunk) \o Bytes(ChunkOf(j, chunk)),
                             ![worker[w].slot].consumed = chunkSize * (chunk + 1)]
     /\ worker' = [worker EXCEPT ![w].chunk = chunk + 1]
  /\ CallerWaits /\ UNCHANGED <<queued, serial, pools>>

\* The frame of a single job gets its checksum from ZSTD_compressEnd.
CompressLast(w) ==
  /\ worker[w].at = "compress"
  /\ LET j == Job(w)  chunk == worker[w].chunk IN
     /\ chunk + 1 >= nbChunks(j)
     /\ worker' = [worker EXCEPT ![w].at = "ensure",
          ![w].tail = First(j, chunk) \o (IF j.src.size > 0 THEN Bytes(ChunkOf(j, chunk)) ELSE <<>>)
                      \o (IF j.lastJob THEN <<LastBlock>> ELSE <<>>)
                      \o (IF j.lastJob /\ j.jobID = 0 THEN <<Checksum(Hash(0, Bytes(j.src)))>> ELSE <<>>)]
  /\ CallerWaits /\ UNCHANGED <<queued, jobs, serial, pools>>

CompressFails(w) ==
  /\ MayFail /\ worker[w].at = "compress"
  /\ jobs' = [jobs EXCEPT ![worker[w].slot].error = TRUE]
  /\ worker' = [worker EXCEPT ![w].at = "ensure"]
  /\ CallerWaits /\ UNCHANGED <<queued, serial, pools>>

\* Not the code: a job that failed leaves the turn to nobody.
EnsureNothing(w) ==
  /\ worker[w].at = "ensure"
  /\ UNCHANGED serial
  /\ pools' = IF worker[w].cctx THEN releaseCCtx(pools) ELSE pools
  /\ worker' = [worker EXCEPT ![w].at = "report", ![w].cctx = FALSE]
  /\ CallerWaits /\ UNCHANGED <<queued, jobs>>

\* ZSTDMT_serialState_ensureFinished(), then the resources go back.
EnsureFinished(w) ==
  /\ worker[w].at = "ensure"
  /\ serial' = IF serial.nextJobID > Job(w).jobID THEN serial
               ELSE [serial EXCEPT !.nextJobID = Job(w).jobID + 1, !.window = NoWindow]
  /\ pools' = IF worker[w].cctx THEN releaseCCtx(pools) ELSE pools
  /\ worker' = [worker EXCEPT ![w].at = "report", ![w].cctx = FALSE]
  /\ CallerWaits /\ UNCHANGED <<queued, jobs>>

\* Not the code: the last chunk is not counted as consumed.
ReportOutputOnly(w) ==
  /\ worker[w].at = "report"
  /\ jobs' = [jobs EXCEPT ![worker[w].slot].cdata = @ \o worker[w].tail]
  /\ worker' = [worker EXCEPT ![w].at = "ended"]
  /\ CallerWaits /\ UNCHANGED <<queued, serial, pools>>

Report(w) ==
  /\ worker[w].at = "report"
  /\ jobs' = [jobs EXCEPT ![worker[w].slot].cdata = @ \o worker[w].tail,
                          ![worker[w].slot].consumed = Job(w).src.size]
  /\ worker' = [worker EXCEPT ![w].at = "ended"]
  /\ CallerWaits /\ UNCHANGED <<queued, serial, pools>>

Finish(w) ==
  /\ worker[w].at = "ended"
  /\ worker' = [worker EXCEPT ![w] = IdleWorker]
  /\ CallerWaits /\ UNCHANGED <<queued, jobs, serial, pools>>

Work(w) ==
  \/ Pop(w) \/ Begin(w) \/ BeginFails(w) \/ GenSequences(w)
  \/ CompressChunk(w) \/ CompressLast(w) \/ CompressFails(w)
  \/ EnsureFinished(w) \/ Report(w) \/ Finish(w)

-----------------------------------------------------------------------------
\* The caller's thread: ZSTD_compressStream2()

WorkersWait == UNCHANGED <<queued, worker, serial>>
Go(at) == caller' = [caller EXCEPT !.at = at]

\* A first call with ZSTD_e_end and little input is compressed without workers.  A caller
\* that has asked for the end of the frame has no more input.
Call(op, most, room) ==
  LET avail == Least(most, MaxInput - (IF mt.session = "init" THEN 0 ELSE taken)) IN
  /\ caller.at = "idle"
  /\ mt.session = "init" => frames < MaxFrames /\ (op = "end" => avail > jobSizeMin)
  /\ mt.session = "load" /\ mt.frameEnded => avail = 0
  /\ caller.ret # "error" \/ MayAbandon
  /\ caller' = [NoCall EXCEPT !.at = IF mt.session = "init" THEN "init" ELSE "range",
                              !.op = op, !.turnOp = op, !.avail = avail, !.room = room]
  /\ WorkersWait /\ UNCHANGED <<mt, jobs, round, pools, taken, out, frames>>

\* ZSTD_CCtx_reset() by the caller, inside a frame.
Abandon ==
  /\ MayAbandon /\ caller.at = "idle" /\ mt.session = "load"
  /\ mt' = [mt EXCEPT !.session = "init"]
  /\ WorkersWait /\ UNCHANGED <<jobs, round, pools, caller, taken, out, frames>>

\* ZSTDMT_resize(), which comes first in ZSTDMT_initCStream_internal().
Resize(n) ==
  /\ caller.at = "init" /\ n # mt.nbWorkers
  /\ mt' = [mt EXCEPT !.nbWorkers = n, !.table = IF n + 2 > @ THEN TableSize(n) ELSE @]
  /\ jobs' = IF n + 2 > mt.table THEN [s \in Slots |-> ClearJob] ELSE jobs
  /\ pools' = [pools EXCEPT
       !.buffers = IF BUF_POOL_MAX_NB_BUFFERS(n) > pools.totalBuffers THEN 0 ELSE @,
       !.totalBuffers = Most(@, BUF_POOL_MAX_NB_BUFFERS(n)),
       !.cctx = IF n > pools.totalCCtx THEN 1 ELSE @,
       !.totalCCtx = Most(@, n)]
  /\ Go("initFrame")
  /\ WorkersWait /\ UNCHANGED <<round, taken, out, frames>>

SameSize == caller.at = "init" /\ Go("initFrame") /\ WorkersWait /\ UNCHANGED <<mt, jobs, round, pools, taken, out, frames>>

\* ZSTDMT_releaseAllJobResources()
ReleaseAll(p) == FoldFunctionOnSet(LAMBDA j, q : IF j.dstBuff THEN releaseBuffer(q) ELSE q, p, jobs, 0 .. mt.table - 1)

\* Not the code: the jobs of the abandoned frame are cleared at once.
ClearedAtOnce == TRUE

\* ZSTDMT_waitForAllJobsCompleted()
AbandonedJobsEnded == mt.allJobsCompleted \/ AllCompleted

\* The rest of ZSTDMT_initCStream_internal(): jobReady is not touched.
InitFrame ==
  /\ caller.at = "initFrame" /\ AbandonedJobsEnded
  /\ jobs' = IF mt.allJobsCompleted THEN jobs ELSE [s \in Slots |-> ClearJob]
  /\ pools' = IF mt.allJobsCompleted THEN pools ELSE ReleaseAll(pools)
  /\ mt' = [mt EXCEPT !.capacity = Most(@, capacityFor(mt.nbWorkers)), !.pos = 0,
                      !.inStart = None, !.filled = 0, !.prefix = Dictionary,
                      !.doneJobID = 0, !.nextJobID = 0,
                      !.frameEnded = FALSE, !.allJobsCompleted = FALSE, !.session = "load"]
  /\ serial' = [nextJobID |-> 0, hashed |-> 0, window |-> NoWindow]
  /\ taken' = 0 /\ out' = <<>> /\ frames' = frames + 1
  /\ Go("range")
  /\ UNCHANGED <<round, queued, worker>>

\* ZSTDMT_tryGetInputRange() ------------------------------------------------------

Oldest(slots) == CHOOSE j \in slots : \A k \in slots : j <= k

\* Not the code: a job is taken for finished as soon as it has been started.
InUseUntilStarted ==
  LET inUse == {j \in mt.doneJobID .. mt.nextJobID - 1 : Unfinished(Slot(j)) /\ Slot(j) = queued} IN
  IF mt.nextJobID < mt.capacity \div section \/ inUse = {} THEN NoRange
  ELSE LET job == jobs[Slot(Oldest(inUse))] IN IF job.prefix.size = 0 THEN job.src ELSE job.prefix

\* ZSTDMT_getInputDataInUse(): what the oldest unfinished job needs first.
inputDataInUse ==
  LET inUse == {j \in mt.doneJobID .. mt.nextJobID - 1 : Unfinished(Slot(j))} IN
  IF mt.nextJobID < mt.capacity \div section \/ inUse = {} THEN NoRange
  ELSE LET job == jobs[Slot(Oldest(inUse))] IN IF job.prefix.size = 0 THEN job.src ELSE job.prefix

StageWrong == mt.frameEnded /\ caller.turnOp = "continue"
Wants == ~mt.jobReady /\ caller.avail > 0
\* Not the code: the buffer wraps when it is full.
WrapsLate == mt.capacity - mt.pos < 1

Wraps == mt.capacity - mt.pos < section
Section(pos) == [start |-> pos, size |-> section]

\* Nothing to load, or a buffer to load it into.
NoRangeNeeded ==
  /\ caller.at = "range" /\ ~StageWrong
  /\ ~Wants \/ mt.inStart # None
  /\ Go("load")
  /\ WorkersWait /\ UNCHANGED <<mt, jobs, round, pools, taken, out, frames>>

TryRange ==
  /\ caller.at = "range" /\ ~StageWrong /\ Wants /\ mt.inStart = None
  /\ LET first == IF Wraps THEN [start |-> 0, size |-> mt.prefix.size] ELSE Section(mt.pos) IN
     caller' = [caller EXCEPT !.inUse = inputDataInUse,
                              !.at = IF isOverlapped(first, inputDataInUse) THEN "load"
                                     ELSE IF Wraps THEN "move" ELSE "ldm"]
  /\ WorkersWait /\ UNCHANGED <<mt, jobs, round, pools, taken, out, frames>>

\* The prefix goes to the start of the round buffer, behind it the next section.
MovePrefix ==
  /\ caller.at = "move" /\ ~doesOverlapWindow([start |-> 0, size |-> mt.prefix.size])
  /\ LET p == mt.prefix.size IN
     /\ round' = [c \in Cells |-> IF c < p THEN round[mt.prefix.start + c] ELSE round[c]]
     /\ mt' = [mt EXCEPT !.prefix = [start |-> IF p = 0 THEN mt.prefix.start ELSE 0, size |-> p], !.pos = p]
     /\ Go(IF isOverlapped(Section(p), caller.inUse) THEN "load" ELSE "ldm")
  /\ WorkersWait /\ UNCHANGED <<jobs, pools, taken, out, frames>>

\* Not the code: the window of the long distance matcher is not looked at.
TakeRangeAtOnce ==
  /\ caller.at = "ldm"
  /\ mt' = [mt EXCEPT !.inStart = mt.pos, !.filled = 0]
  /\ Go("load")
  /\ WorkersWait /\ UNCHANGED <<jobs, round, pools, taken, out, frames>>

TakeRange ==
  /\ caller.at = "ldm" /\ ~doesOverlapWindow(Section(mt.pos))
  /\ mt' = [mt EXCEPT !.inStart = mt.pos, !.filled = 0]
  /\ Go("load")
  /\ WorkersWait /\ UNCHANGED <<jobs, round, pools, taken, out, frames>>

\* Loading, and ZSTDMT_createCompressionJob() --------------------------------------

\* findSynchronizationPoint(): all that fits, or less when a hash says so; nothing when what
\* is there already ends at such a point.
SyncPoints ==
  IF mt.inStart = None \/ ~Wants THEN {[toLoad |-> 0, flush |-> FALSE]}
  ELSE LET all == Least(caller.avail, section - mt.filled) IN
       {[toLoad |-> all, flush |-> FALSE]}
       \cup {[toLoad |-> n, flush |-> TRUE] : n \in IF rsyncable THEN (IF mt.filled > 0 THEN 0 ELSE 1) .. all ELSE {}}

\* A job made of what is in the input buffer.
Prepared(m, last) ==
  [ClearJob EXCEPT !.src = [start |-> m.inStart, size |-> m.filled], !.prefix = m.prefix,
                   !.jobID = m.nextJobID, !.lastJob = last,
                   !.frameChecksumNeeded = last /\ m.nextJobID > 0]

AfterPrepare(m, last) ==
  LET p == Least(m.filled, overlap) IN
  [m EXCEPT !.pos = @ + m.filled, !.inStart = None, !.filled = 0,
            !.prefix = IF last THEN NoRange ELSE [start |-> m.inStart + m.filled - p, size |-> p],
            !.frameEnded = last]

CanPost == queued = None /\ Cardinality(Busy) # mt.nbWorkers

\* POOL_tryAdd()
Post(m, s) ==
  IF CanPost THEN queued' = s /\ mt' = [m EXCEPT !.nextJobID = @ + 1, !.jobReady = FALSE]
  ELSE queued' = queued /\ mt' = [m EXCEPT !.jobReady = TRUE]

\* With the job table full, nothing.
CreateCompressionJob(m, last) ==
  LET s == m.nextJobID % m.table
      emptyBlock == m.filled = 0 /\ m.nextJobID > 0 IN
  IF m.nextJobID > m.doneJobID + m.table - 1 THEN mt' = m /\ UNCHANGED <<jobs, queued, pools>>
  ELSE IF m.jobReady THEN Post(m, s) /\ UNCHANGED <<jobs, pools>>
  ELSE IF emptyBlock
  THEN /\ mt' = [AfterPrepare(m, last) EXCEPT !.nextJobID = @ + 1]
       \* ZSTDMT_writeLastEmptyBlock(): by the caller's thread.
       /\ \E fails \in {FALSE, MayFail} :
            /\ jobs' = [jobs EXCEPT ![s] = [Prepared(m, last) EXCEPT !.src = NoRange, !.error = fails,
                                              !.dstBuff = ~fails, !.cdata = IF fails THEN <<>> ELSE <<LastBlock>>]]
            /\ pools' = IF fails THEN pools ELSE getBuffer(pools)
       /\ UNCHANGED queued
  ELSE jobs' = [jobs EXCEPT ![s] = Prepared(m, last)] /\ Post(AfterPrepare(m, last), s) /\ UNCHANGED pools

\* Not the code: the end is asked for with input left.
EndWithInput(asked, left) == asked

\* The frame cannot end while input is left.
EndOp(asked, left) == IF left > 0 /\ asked = "end" THEN "flush" ELSE asked

LoadAndPost ==
  /\ caller.at = "load"
  /\ \E point \in SyncPoints :
       LET n == point.toLoad
           m == [mt EXCEPT !.filled = @ + n]
           left == caller.avail - n
           asked == IF point.flush /\ caller.turnOp = "continue" THEN "flush" ELSE caller.turnOp
           endOp == EndOp(asked, left)
           create == \/ m.jobReady \/ m.filled >= section
                     \/ endOp # "continue" /\ m.filled > 0
                     \/ endOp = "end" /\ ~m.frameEnded IN
       /\ round' = [c \in Cells |-> IF n > 0 /\ c \in mt.inStart + mt.filled .. mt.inStart + mt.filled + n - 1
                                    THEN taken + 1 + c - mt.inStart - mt.filled ELSE round[c]]
       /\ taken' = taken + n
       /\ caller' = [caller EXCEPT !.at = "flush", !.avail = left, !.turnOp = endOp, !.fwd = n > 0, !.moved = n > 0]
       /\ IF create THEN CreateCompressionJob(m, endOp = "end") ELSE mt' = m /\ UNCHANGED <<jobs, queued, pools>>
  /\ UNCHANGED <<worker, serial, out, frames>>

\* ZSTDMT_flushProduced() -----------------------------------------------------------

\* The end of a turn of the loop in ZSTD_compressStream2: what it returned, or another turn.
NextTurn(ret, left, moved) ==
  LET over == \/ ret = "error"
              \/ caller.op = "continue" /\ (moved \/ caller.avail = 0 \/ left = 0)
              \/ caller.op # "continue" /\ (ret = "zero" \/ left = 0) IN
  caller' = IF over THEN [NoCall EXCEPT !.op = caller.op, !.ret = ret]
            ELSE [caller EXCEPT !.at = "range", !.turnOp = caller.op, !.room = left,
                                !.fwd = FALSE, !.moved = FALSE, !.inUse = NoRange]

\* Session reset after an error and at the end of a frame.
Session(ret) == IF ret = "error" \/ (caller.op = "end" /\ ret = "zero") THEN "init" ELSE "load"

WrongStage ==
  /\ caller.at = "range" /\ StageWrong
  /\ NextTurn("error", caller.room, FALSE)
  /\ mt' = [mt EXCEPT !.session = "init"]
  /\ WorkersWait /\ UNCHANGED <<jobs, round, pools, taken, out, frames>>

done == Slot(mt.doneJobID)
MustWaitForData ==
  /\ ~caller.fwd /\ mt.doneJobID < mt.nextJobID
  /\ ~jobs[done].error /\ jobs[done].dstFlushed = Len(jobs[done].cdata) /\ Unfinished(done)

\* Not the code: the checksum is added to what the oldest job has, finished or not.
ChecksumEarly(j) == j.frameChecksumNeeded /\ ~j.error /\ Len(j.cdata) > 0

ChecksumDue(j) == j.frameChecksumNeeded /\ ~(j.consumed < j.src.size)

\* What the oldest job has for the caller, with the checksum when it is due.
WithChecksum(j) ==
  IF ChecksumDue(j) THEN [j EXCEPT !.cdata = Append(@, Checksum(serial.hashed)), !.frameChecksumNeeded = FALSE] ELSE j

\* Not the code: a failed job is one that has produced nothing.
FailedIfEmpty == jobs[done].error /\ Len(jobs[done].cdata) = 0

JobFailed == jobs[done].error

Flush ==
  /\ caller.at = "flush" /\ ~MustWaitForData /\ ~JobFailed
  /\ LET j == WithChecksum(jobs[done])
         n == IF j.cdata = <<>> THEN 0 ELSE Least(Len(j.cdata) - j.dstFlushed, caller.room)
         flushed == j.dstFlushed + n
         finished == Len(j.cdata) > 0 /\ ~Unfinished(done) /\ flushed = Len(j.cdata)
         m == IF finished THEN [mt EXCEPT !.doneJobID = @ + 1] ELSE mt
         more == \/ ~finished /\ (Len(j.cdata) > flushed \/ Unfinished(done))
                 \/ m.doneJobID < m.nextJobID \/ m.jobReady \/ m.filled > 0
         zero == ~more /\ (caller.turnOp = "end" => m.frameEnded) /\ caller.avail = 0
         ret == IF zero THEN "zero" ELSE "more" IN
     /\ out' = out \o SubSeq(j.cdata, j.dstFlushed + 1, flushed)
     /\ jobs' = [jobs EXCEPT ![done] = IF finished THEN [j EXCEPT !.dstBuff = FALSE, !.cdata = <<>>, !.dstFlushed = flushed]
                                       ELSE [j EXCEPT !.dstFlushed = flushed]]
     /\ pools' = IF finished /\ j.dstBuff THEN releaseBuffer(pools) ELSE pools
     /\ mt' = [m EXCEPT !.allJobsCompleted = IF more THEN @ ELSE m.frameEnded, !.session = Session(ret)]
     /\ NextTurn(ret, caller.room - n, caller.moved \/ n > 0)
  /\ WorkersWait /\ UNCHANGED <<round, taken, frames>>

\* A job has failed: the others end first, then all of them go.
FlushFails ==
  /\ caller.at = "flush" /\ JobFailed /\ AllCompleted
  /\ jobs' = [s \in Slots |-> ClearJob]
  /\ pools' = ReleaseAll(pools)
  /\ mt' = [mt EXCEPT !.doneJobID = mt.nextJobID, !.inStart = None, !.filled = 0,
                      !.allJobsCompleted = TRUE, !.session = "init"]
  /\ NextTurn("error", caller.room, FALSE)
  /\ WorkersWait /\ UNCHANGED <<round, taken, out, frames>>

\* ZSTDMT_freeCCtx(): POOL_free() waits for the workers, a pool of the caller is left alone.
FreeCCtx ==
  /\ caller.at = "idle"
  /\ OwnPool => Busy = {} /\ queued = None
  /\ jobs' = [s \in Slots |-> ClearJob]
  /\ pools' = ReleaseAll(pools)
  /\ Go("freed")
  /\ WorkersWait /\ UNCHANGED <<mt, round, taken, out, frames>>

Proceed ==
  \/ \E n \in NbWorkers : Resize(n)
  \/ SameSize \/ InitFrame \/ WrongStage \/ NoRangeNeeded \/ TryRange \/ MovePrefix \/ TakeRange
  \/ LoadAndPost \/ Flush \/ FlushFails

Next ==
  \/ \E w \in Workers : Work(w)
  \/ Proceed
  \/ \E op \in {"continue", "flush", "end"}, avail \in Inputs, room \in Rooms : Call(op, avail, room)
  \/ Abandon \/ FreeCCtx

Spec == Init /\ [][Next]_vars

\* Threads run; the caller's thread finishes the call it is in.
FairSpec == Spec /\ WF_vars(Proceed) /\ \A w \in Workers : WF_vars(Work(w))

-----------------------------------------------------------------------------
\* Properties

\* The fields of the caller's thread, the job table and the pools keep their ranges.
TypeOK ==
  /\ mt.nbWorkers \in NbWorkers /\ mt.capacity \in 0 .. capacityFor(MaxWorkers) /\ mt.pos \in 0 .. mt.capacity
  /\ mt.filled \in 0 .. section /\ mt.doneJobID <= mt.nextJobID /\ mt.nextJobID - mt.doneJobID <= mt.table
  /\ DOMAIN jobs = Slots
  /\ \A s \in Slots : jobs[s].consumed \in 0 .. jobs[s].src.size /\ jobs[s].dstFlushed \in Nat
  /\ queued \in Slots \cup {None}
  /\ \A w \in Workers : worker[w].at \in {"idle", "begin", "serial", "compress", "ensure", "report", "ended"}
  /\ serial.nextJobID \in Nat /\ pools.buffers \in 0 .. pools.totalBuffers
  /\ caller.at \in {"idle", "init", "initFrame", "range", "move", "ldm", "load", "flush", "freed"}
  /\ caller.ret \in {"none", "zero", "more", "error"} /\ taken \in 0 .. MaxInput /\ frames \in 0 .. MaxFrames

Consecutive(b) == \A i \in DOMAIN b : i > 1 => b[i] = b[i - 1] + 1

\* The round buffer is not written over bytes that a posted job still has to read: its
\* source and its prefix hold consecutive bytes of the frame, and jobs follow each other.
JobInputIntact ==
  \A j \in mt.doneJobID .. mt.nextJobID - 1 :
    Unfinished(Slot(j)) /\ ~jobs[Slot(j)].error =>
      Consecutive(Bytes(InBuffer(jobs[Slot(j)].prefix)) \o Bytes(jobs[Slot(j)].src))

\* Nor over the window that the long distance matcher searches for the next job: it holds
\* the bytes that were last taken by this matcher, and they follow each other across both
\* segments. A job that fails before its turn clears the window and leaves its bytes out of
\* what is taken; nothing that is made of them until it is flushed reaches the caller.
LdmWindowIntact ==
  window > 0 /\ mt.session = "load" /\ caller.at # "freed" /\ (\A s \in Active : ~jobs[s].error) =>
    LET b == Bytes(serial.window.ext) \o Bytes(serial.window.pre) IN
    Consecutive(b) /\ (b # <<>> => Last(b) = serial.hashed)

\* What the caller has got is the frame of its input from the start, whatever the order in
\* which workers ended; when the end of the frame is reported, it is all there, and when
\* a flush is reported complete, so is the input taken so far.
FrameIsInput ==
  /\ IsPrefix(out, <<Header>> \o [i \in 1 .. taken |-> i] \o <<LastBlock, Checksum(taken)>>)
  /\ caller.at = "idle" /\ caller.op = "end" /\ caller.ret = "zero" => Len(out) = taken + 3
  /\ caller.at = "idle" /\ caller.op = "flush" /\ caller.ret = "zero" => Len(out) >= taken + (IF taken > 0 THEN 1 ELSE 0)

\* A call returns: no turn of the loop waits for a worker that waits for the caller.
CallReturns == caller.at \notin {"idle", "freed"} ~> caller.at = "idle"

-----------------------------------------------------------------------------
\* The inductive invariants of MTCompressProofs, while no frame is abandoned

\* The shapes of the state: a record is told by its fields.

Ranges == [start : Nat \cup {None}, size : Nat]

IsJob(j) ==
  j \in [src : Ranges, prefix : Ranges, jobID : {j.jobID}, lastJob : {j.lastJob},
         consumed : Nat, cdata : {j.cdata}, error : {j.error}, dstFlushed : {j.dstFlushed},
         dstBuff : {j.dstBuff}, frameChecksumNeeded : {j.frameChecksumNeeded}]

IsWorker(v) ==
  v \in [at : {v.at}, slot : {v.slot}, chunk : Nat, tail : {v.tail}, cctx : {v.cctx}]

IsCall(c) ==
  c \in [at : {c.at}, op : {c.op}, turnOp : {c.turnOp}, avail : Int, room : {c.room},
         fwd : {c.fwd}, moved : {c.moved}, inUse : Ranges, ret : {c.ret}]

MTFields ==
  [nbWorkers : NbWorkers, table : Nat \ {0}, capacity : Nat, pos : Nat, inStart : Nat \cup {None},
   filled : 0 .. section, prefix : Ranges, jobReady : BOOLEAN, doneJobID : Nat, nextJobID : Nat,
   frameEnded : BOOLEAN, allJobsCompleted : BOOLEAN, session : {"init", "load"}]

Shapes ==
  /\ mt \in MTFields
  /\ mt.table <= TableSize(MaxWorkers) /\ mt.capacity <= capacityFor(MaxWorkers)
  /\ jobs = [s \in Slots |-> jobs[s]] /\ \A s \in Slots : IsJob(jobs[s])
  /\ worker = [w \in Workers |-> worker[w]] /\ \A w \in Workers : IsWorker(worker[w])
  /\ round \in [Cells -> Int]
  /\ IsCall(caller)
  /\ taken \in Int

\* Where the call is, and what that says of the session.
CallPhase ==
  /\ caller.at \in {"idle", "init", "initFrame", "range", "move", "ldm", "load", "flush", "freed"}
  /\ caller.at \in {"init", "initFrame"} => mt.session = "init"
  /\ caller.at \in {"range", "move", "ldm", "load", "flush"} => mt.session = "load"
  /\ caller.at \notin {"idle", "freed"} => caller.ret = "none"
  /\ caller.at \notin {"idle", "freed", "flush"} => caller.turnOp = caller.op
  /\ caller.at = "flush" /\ caller.op = "end" /\ caller.turnOp # "end" => caller.avail > 0
  /\ caller.at \in {"move", "ldm"} => ~mt.jobReady /\ mt.inStart = None

\* Jobs and workers

\* The worker reads or writes the slot of its job.
Holds(w) == worker[w].at \in {"begin", "serial", "compress", "ensure", "report"}

\* Nothing of the job is done, or not all; it is no block that the caller's thread wrote.
Pending(s) ==
  \/ Unfinished(s)
  \/ /\ jobs[s].src.size = 0
     /\ jobs[s].cdata = <<>> /\ ~jobs[s].frameChecksumNeeded

\* What a worker holds is not finished, and is held by nobody else.
HeldApart ==
  /\ \A w \in Workers : Holds(w) =>
       /\ worker[w].slot \in Slots
       /\ jobs[worker[w].slot].src.size = 0 \/ Unfinished(worker[w].slot)
       /\ worker[w].slot # queued
       /\ \A v \in Workers : Holds(v) /\ worker[v].slot = worker[w].slot => v = w
  /\ queued # None => queued \in Slots /\ (jobs[queued].src.size = 0 \/ Unfinished(queued))

\* The caller's thread is in no error and has not freed the context.
Live == caller.ret # "error" /\ caller.at # "freed"

Posted == mt.doneJobID .. mt.nextJobID - 1

\* While all goes well, workers have jobs that are not flushed, and no others.
JobsPosted ==
  /\ mt.doneJobID <= mt.nextJobID /\ mt.nextJobID <= mt.doneJobID + mt.table
  /\ mt.jobReady => mt.nextJobID < mt.doneJobID + mt.table

HeldPosted ==
  Live =>
    /\ \A w \in Workers : Holds(w) => \E j \in Posted : worker[w].slot = Slot(j) /\ Pending(Slot(j))
    /\ queued # None => \E j \in Posted : queued = Slot(j) /\ Pending(Slot(j))
    /\ mt.jobReady => Pending(Slot(mt.nextJobID))
    /\ \A s \in Slots \ Active : jobs[s].cdata = <<>> /\ (jobs[s].frameChecksumNeeded => Unfinished(s))
    /\ mt.session = "init" => mt.doneJobID = mt.nextJobID /\ ~mt.jobReady /\ mt.allJobsCompleted

\* The round buffer

\* The jobs whose input somebody has still to read.
Kept == {j \in mt.doneJobID .. mt.nextJobID : (j < mt.nextJobID \/ mt.jobReady) /\ Unfinished(Slot(j))}

\* What a job reads: its prefix and its source, from Lo to Hi.
Lo(j) == IF jobs[Slot(j)].prefix.size = 0 THEN jobs[Slot(j)].src.start ELSE jobs[Slot(j)].prefix.start
Hi(j) == End(jobs[Slot(j)].src)

KeptAt(j) ==
  /\ jobs[Slot(j)].src.start \in Nat /\ jobs[Slot(j)].src.size <= section
  /\ jobs[Slot(j)].src.start + section <= mt.capacity
  /\ jobs[Slot(j)].prefix.size > 0 => /\ jobs[Slot(j)].prefix.start \in Nat
                                      /\ End(jobs[Slot(j)].prefix) = jobs[Slot(j)].src.start
KeptBytes(j) == \A x \in Lo(j) .. Hi(j) - 1 : round[x] = round[Lo(j)] + x - Lo(j)

KeptIntact == \A j \in Kept : KeptAt(j) /\ KeptBytes(j)

\* It lies below what is being filled, or above it.
Low(j) == Hi(j) <= mt.pos
High(j) == Lo(j) >= mt.pos + (IF mt.inStart = None THEN 0 ELSE section)

\* The caller fills the buffer upwards and goes back to its start: below are the later jobs.
KeptApart == \A j \in Kept : Low(j) \/ High(j)
KeptInOrder ==
  \A j, k \in Kept : j < k =>
    \/ High(j) /\ Low(k)
    \/ ((Low(j) /\ Low(k)) \/ (High(j) /\ High(k))) /\ Lo(j) <= Lo(k)

\* What the next job will read, as far as it is there.
InputAt ==
  /\ mt.pos <= mt.capacity /\ 3 * section <= mt.capacity
  /\ mt.inStart = None => mt.filled = 0
  /\ mt.inStart # None => mt.inStart = mt.pos /\ mt.pos + section <= mt.capacity
  /\ mt.prefix.size <= overlap
  /\ mt.prefix.size > 0 => /\ mt.prefix.start \in Nat /\ End(mt.prefix) = mt.pos
                           /\ \A j \in Kept : Low(j) => Lo(j) <= mt.prefix.start
InputBytes ==
  \A x \in mt.pos - mt.prefix.size .. mt.pos + mt.filled - 1 : round[x] = taken - mt.filled + 1 + x - mt.pos

\* The caller does not look at jobs before it can have gone round.
FirstLap ==
  mt.nextJobID < mt.capacity \div section =>
    /\ mt.pos <= section * (mt.nextJobID + (IF mt.jobReady THEN 1 ELSE 0))
    /\ \A j \in Kept : Low(j)

\* What the caller has found out about the jobs holds until it uses it.
Wrapping ==
  caller.at = "move" =>
    /\ Wraps
    /\ \A j \in Kept : /\ caller.inUse.size > 0 /\ caller.inUse.start <= Lo(j)
                       /\ mt.prefix.size <= caller.inUse.start
SectionIsFree ==
  caller.at = "ldm" =>
    /\ mt.pos + section <= mt.capacity
    /\ \A j \in Kept : Low(j) \/ Lo(j) >= mt.pos + section

BufferInv ==
  mt.session = "load" =>
    KeptApart /\ KeptInOrder /\ InputAt /\ InputBytes /\ FirstLap /\ Wrapping /\ SectionIsFree

IInv == Shapes /\ CallPhase /\ HeldApart /\ JobsPosted /\ HeldPosted /\ KeptIntact /\ BufferInv

\* The frame: from[j] bytes of its input and at[j] symbols of its output are before job j.

\* The jobs that are not flushed, with the one that waits for room in the pool.
MadeTo == mt.nextJobID + (IF mt.jobReady THEN 1 ELSE 0)
Made   == mt.doneJobID .. MadeTo - 1
Of(j)  == jobs[Slot(j)]

InFrame == mt.session = "load" /\ caller.at # "freed"
Sound   == \A j \in Made : ~Of(j).error

\* What is at a place of the frame of k bytes; s is what is there behind a.
SymbolAt(k, p) == IF p <= k + 1 THEN p - 1 ELSE IF p = k + 2 THEN LastBlock ELSE Checksum(k)
Reads(k, s, a) == s \in Seq(Int) /\ \A i \in 1 .. Len(s) : s[i] = SymbolAt(k, a + i)

\* How much a job puts out, and its worker when the checksum is left to the caller.
Share(at, j)       == at[j + 1] - at[j]
Produced(at, j, J) == Share(at, j) - (IF J.frameChecksumNeeded THEN 1 ELSE 0)

\* Jobs follow each other.
JobPlaced(from, at, k, j, J) ==
  /\ J.jobID = j /\ J.lastJob \in BOOLEAN /\ (J.src.size = 0 => J.lastJob)
  /\ from[j + 1] = from[j] + J.src.size /\ from[j + 1] <= k
  /\ j > 0 => at[j] = from[j] + 1
  /\ at[j + 1] = from[j + 1] + 1 + (IF J.lastJob THEN 2 ELSE 0)

Placed(from, at) ==
  /\ from \in [Nat -> Nat] /\ at \in [Nat -> Nat] /\ from[0] = 0 /\ at[0] = 0
  /\ from[MadeTo] = taken - mt.filled
  /\ at[MadeTo] = IF MadeTo = 0 THEN 0 ELSE from[MadeTo] + 1 + (IF mt.frameEnded THEN 2 ELSE 0)
  /\ \A j \in Made : JobPlaced(from, at, taken, j, Of(j)) /\ Of(j).lastJob = (mt.frameEnded /\ j = MadeTo - 1)

\* What a job that is not finished reads is there.
Sources(from) ==
  \A j \in Made : Unfinished(Slot(j)) =>
    \A x \in Of(j).src.start .. End(Of(j).src) - 1 : round[x] = from[j] + 1 + x - Of(j).src.start

\* After the end nothing comes.
AfterEnd == mt.frameEnded => mt.filled = 0 /\ MadeTo > 0 /\ caller.avail <= 0

\* A job that has not failed has put out some of its share.
Output(at, k, j, J) ==
  ~J.error => /\ Reads(k, J.cdata, at[j]) /\ Len(J.cdata) <= Share(at, j)
              /\ J.frameChecksumNeeded => J.lastJob /\ j > 0
Outputs(at) == \A j \in Made : Output(at, taken, j, Of(j))

\* A job that has not begun, has compressed some of its chunks, or all of them.
ChecksumToCome(j, J)   == J.frameChecksumNeeded = (J.lastJob /\ j > 0)
Untouched(j, J)        == ChecksumToCome(j, J) /\ J.cdata = <<>> /\ J.consumed = 0
Lead(j, c)             == IF c > 0 /\ j = 0 THEN 1 ELSE 0
ChunksOf(c)            == c * chunkSize
Halfway(j, J, c)       == /\ ChecksumToCome(j, J) /\ J.consumed = ChunksOf(c)
                          /\ Len(J.cdata) = Lead(j, c) + ChunksOf(c)
                          /\ c = 0 \/ ChunksOf(c) < J.src.size
Ending(at, k, j, J, t) == /\ Reads(k, t, at[j] + Len(J.cdata))
                          /\ Len(J.cdata) + Len(t) = Produced(at, j, J)
Whole(at, j, J)        == Len(J.cdata) = Produced(at, j, J)

HeldAs(at, k, j, J, W) ==
  ~J.error => /\ W.at \in {"begin", "serial"} => Untouched(j, J) /\ W.chunk = 0
              /\ W.at = "compress" => Halfway(j, J, W.chunk)
              /\ W.at \in {"ensure", "report"} => Ending(at, k, j, J, W.tail)

\* What is made of a job tells who has it; a job that nobody has is done, or failed.
HeldBy(j, w) == Holds(w) /\ worker[w].slot = Slot(j)
Nobodys(j)   == queued # Slot(j) /\ \A w \in Workers : ~HeldBy(j, w)

Holders(at) == \A j \in Posted, w \in Workers : HeldBy(j, w) => HeldAs(at, taken, j, Of(j), worker[w])
Waiting ==
  /\ \A j \in Posted : queued = Slot(j) => Untouched(j, Of(j)) /\ ~Of(j).error
  /\ mt.jobReady => Untouched(mt.nextJobID, Of(mt.nextJobID)) /\ ~Of(mt.nextJobID).error
AllDone(at) == \A j \in Posted : Nobodys(j) /\ ~Of(j).error => Whole(at, j, Of(j))

\* Who has a job tells whether it has taken its turn in the serial step.
TurnToCome == {"begin", "serial"}
TurnTaken  == {"compress", "ensure", "report"}
InTurn(from) ==
  Sound =>
    /\ serial.nextJobID <= mt.nextJobID /\ serial.hashed = from[serial.nextJobID]
    /\ ~mt.frameEnded \/ mt.doneJobID < MadeTo => mt.doneJobID <= serial.nextJobID
    /\ \A j \in Posted, w \in Workers : HeldBy(j, w) =>
         /\ worker[w].at \in TurnToCome => serial.nextJobID <= j
         /\ worker[w].at \in TurnTaken => serial.nextJobID > j
    /\ \A j \in Posted : queued = Slot(j) => serial.nextJobID <= j
    /\ \A j \in Posted : Nobodys(j) => serial.nextJobID > j \/ Of(j).src.size = 0

\* A segment of the window holds the bytes up to last, and no input is loaded into it.
Segment(r, last) ==
  /\ r \in [start : Nat, size : Nat] /\ End(r) <= mt.capacity
  /\ \A x \in r.start .. End(r) - 1 : round[x] = last + 1 + x - End(r)
  /\ mt.inStart # None => r.size = 0 \/ End(r) <= mt.pos \/ r.start >= mt.pos + section

SerialIs(n, h, v) == serial = [nextJobID |-> n, hashed |-> h, window |-> v]
WindowHolds ==
  /\ serial.nextJobID \in Nat /\ SerialIs(serial.nextJobID, serial.hashed, serial.window)
  /\ serial.window = [ext |-> serial.window.ext, pre |-> serial.window.pre]
  /\ Sound /\ window > 0 =>
       /\ Segment(serial.window.pre, serial.hashed)
       /\ Segment(serial.window.ext, serial.hashed - serial.window.pre.size)

\* The caller has what was flushed.
FlushedTo(at) ==
  /\ \A j \in Made : Of(j).dstFlushed \in Nat /\ (j > mt.doneJobID => Of(j).dstFlushed = 0)
  /\ mt.doneJobID < MadeTo /\ ~Of(mt.doneJobID).error => Of(mt.doneJobID).dstFlushed <= Len(Of(mt.doneJobID).cdata)
  /\ Len(out) = at[mt.doneJobID] + (IF mt.doneJobID < MadeTo THEN Of(mt.doneJobID).dstFlushed ELSE 0)
  /\ Len(out) <= taken + (IF mt.frameEnded THEN 3 ELSE 1)

Frame(from, at) ==
  /\ Placed(from, at) /\ Sources(from) /\ AfterEnd /\ FlushedTo(at)
  /\ Outputs(at) /\ Holders(at) /\ Waiting /\ AllDone(at)
  /\ InTurn(from) /\ WindowHolds

OutputRead == taken \in Nat /\ Reads(taken, out, 0) /\ Len(out) <= taken + 3
EndTold ==
  /\ caller.ret = "error" => mt.session = "init"
  /\ caller.at = "idle" /\ caller.ret = "zero" =>
       /\ caller.op = "end" => Len(out) = taken + 3
       /\ caller.op = "flush" => Len(out) >= taken + (IF taken > 0 THEN 1 ELSE 0)

FrameInv == OutputRead /\ EndTold /\ (InFrame => \E from, at : Frame(from, at))
=============================================================================

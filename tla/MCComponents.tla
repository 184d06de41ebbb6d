---------------------------- MODULE MCComponents ----------------------------
(***************************************************************************)
(* Components that do not share state, checked side by side: part says     *)
(* which one a behaviour is of, and the registers v1, ... are its variables*)
(* in the order in which its module declares them.                         *)
(***************************************************************************)
EXTENDS Integers, Sequences, TLC

CONSTANTS d1, None, DictString, c1, c2

VARIABLES part, v1, v2, v3, v4, v5, v6, v7, v8, v9, v10, v11, v12, v13

vars == <<part, v1, v2, v3, v4, v5, v6, v7, v8, v9, v10, v11, v12, v13>>

\* One-shot decompression, on a scale where magic numbers have two bytes and lengths
\* one.  Noise may be the first byte of a magic number; a skippable frame may hold a
\* frame, or claim more than what can follow it.
ZstdMagic  == <<10, 11>>
SkipMagics == {<<20, 29>>, <<21, 29>>}

Noise(b) == [kind |-> "noise", bytes |-> <<b>>]
SkippableFrame(m, content) == [kind |-> "skippable", bytes |-> m \o <<Len(content)>> \o content]
Overlong == [kind |-> "skippable", bytes |-> <<20, 29, 13>>]
ZstdFrame(n) == [kind |-> "frame", bytes |-> ZstdMagic \o <<n>> \o [i \in 1 .. n |-> 0]]

MCSegments ==
  {Noise(0), Noise(10),
   SkippableFrame(<<20, 29>>, <<>>), SkippableFrame(<<21, 29>>, <<10, 11, 0>>),
   SkippableFrame(<<20, 29>>, <<20, 29>>), Overlong,
   ZstdFrame(0), ZstdFrame(3)}

OneShot == INSTANCE OneShot WITH
  Segments <- MCSegments, MaxSegments <- 3, ZSTD_MAGIC <- ZstdMagic, SKIP_MAGICS <- SkipMagics,
  Cap <- 2, NoForwardProgressMax <- 3,
  segments <- v1, size <- v2, off <- v3, pc <- v4, src <- v5, decoder <- v6, idle <- v7, out <- v8,
  damaged <- v9

\* Skippable frames, with lengths that count in base 4, so that one of 4 bytes can wrap around.
MCStrings ==
  {<<>>, <<1>>, <<1, 2, 3>>,
   <<40, 181, 47, 253, 0>>,                    \* the start of a frame
   <<80, 42, 77, 24>>, <<95, 42, 77, 24, 1>>,  \* skippable frames, cut off
   <<80, 42, 77, 24, 3, 3, 3, 3, 0, 0>>}       \* one that is too long

Skippable == INSTANCE SkippableFrame WITH
  Base <- 4, WindowLogMin <- 2, WindowLogMax <- 4, BlockSizeLimit <- 4,
  Strings <- MCStrings, Variants <- {0, 15, 16}, ReadCap <- 4,
  str <- v1, written <- v2, result <- v3

\* Contexts, streams and dictionaries of two threads.
Lifecycle == INSTANCE ContextLifecycle WITH
  Threads <- {1, 2}, Contexts <- {1, 2}, Streams <- {1, 2}, Dicts <- {d1},
  context <- v1, dictionary <- v2, refers <- v3, owned <- v4, stream <- v5, buffers <- v6, held <- v7,
  frame <- v8, last <- v9

\* Three strings and two frames; lengths that cut and that do not cut the text.
StreamIO == INSTANCE StreamIO WITH
  MaxWrites <- 3, MaxFinishes <- 2, Lengths <- {1, 2, 3, 10},
  writes <- v1, finishes <- v2, begun <- v3, pending <- v4, inside <- v5, failed <- v6, returned <- v7,
  io <- v8, closed <- v9, at <- v10, decoder <- v11, delivered <- v12, reading <- v13

\* One caller with the whole interface of a pool, ...
Pool == INSTANCE ThreadPool WITH
  Callers <- {c1}, numThreads <- 2, intendedSize <- 1, MaxThreads <- 3, MaxJobs <- 4,
  MaxResizes <- 2, JoinsJobs <- TRUE,
  queue <- v1, queueHead <- v2, queueTail <- v3, queueEmpty <- v4, numThreadsBusy <- v5,
  threadCapacity <- v6, threadLimit <- v7, shutdown <- v8, worker <- v9, caller <- v10, jobs <- v11,
  done <- v12, resizes <- v13

\* ... or two that push into one without room for jobs that wait.
Pushers == INSTANCE ThreadPool WITH
  Callers <- {c1, c2}, numThreads <- 2, intendedSize <- 0, MaxThreads <- 2, MaxJobs <- 4,
  MaxResizes <- 1, JoinsJobs <- FALSE,
  queue <- v1, queueHead <- v2, queueTail <- v3, queueEmpty <- v4, numThreadsBusy <- v5,
  threadCapacity <- v6, threadLimit <- v7, shutdown <- v8, worker <- v9, caller <- v10, jobs <- v11,
  done <- v12, resizes <- v13

\* ... or two of which one may push while the other waits for the jobs to end.
Joiners == INSTANCE ThreadPool WITH
  Callers <- {c1, c2}, numThreads <- 1, intendedSize <- 0, MaxThreads <- 2, MaxJobs <- 3,
  MaxResizes <- 1, JoinsJobs <- TRUE,
  queue <- v1, queueHead <- v2, queueTail <- v3, queueEmpty <- v4, numThreadsBusy <- v5,
  threadCapacity <- v6, threadLimit <- v7, shutdown <- v8, worker <- v9, caller <- v10, jobs <- v11,
  done <- v12, resizes <- v13

ASSUME ComponentsAssumption ==
  OneShot!OneShotAssumption /\ Skippable!FormatAssumption /\ Skippable!SkippableAssumption /\ Lifecycle!LifecycleAssumption
    /\ StreamIO!StreamIOAssumption /\ Pool!PoolAssumption /\ Pushers!PoolAssumption /\ Joiners!PoolAssumption

Is(name) == part = name /\ UNCHANGED part

After3  == <<v4, v5, v6, v7, v8, v9, v10, v11, v12, v13>>
After9  == <<v10, v11, v12, v13>>

Unused9  == v10 = 0 /\ v11 = 0 /\ v12 = 0 /\ v13 = 0
Unused3  == v4 = 0 /\ v5 = 0 /\ v6 = 0 /\ v7 = 0 /\ v8 = 0 /\ v9 = 0 /\ Unused9

Init ==
  \/ part = "one_shot" /\ OneShot!Init /\ Unused9
  \/ part = "skippable_frame" /\ Skippable!Init /\ Unused3
  \/ part = "context_lifecycle" /\ Lifecycle!Init /\ Unused9
  \/ part = "stream_io" /\ StreamIO!Init
  \/ part = "pool" /\ Pool!Init
  \/ part = "pushers" /\ Pushers!Init
  \/ part = "joiners" /\ Joiners!Init

Next ==
  \/ Is("one_shot") /\ OneShot!Next /\ UNCHANGED After9
  \/ Is("skippable_frame") /\ Skippable!Next /\ UNCHANGED After3
  \/ Is("context_lifecycle") /\ Lifecycle!Next /\ UNCHANGED After9
  \/ Is("stream_io") /\ StreamIO!Next
  \/ Is("pool") /\ Pool!Next
  \/ Is("pushers") /\ Pushers!Next
  \/ Is("joiners") /\ Joiners!Next

Spec == Init /\ [][Next]_vars

\* What worker w of a pool does next, and what a caller does inside of a function.
Work(w) ==
  \/ Is("pool") /\ Pool!Work(w)
  \/ w < 3 /\ Is("pushers") /\ Pushers!Work(w)
  \/ w < 3 /\ Is("joiners") /\ Joiners!Work(w)

Proceed(c) ==
  \/ c = c1 /\ Is("pool") /\ Pool!Proceed(c)
  \/ Is("pushers") /\ Pushers!Proceed(c)
  \/ Is("joiners") /\ Joiners!Proceed(c)

\* The scan and the decoder run on the caller's thread; threads of a pool run, its
\* mutex is handed on and jobs end, but nobody need call it.
FairSpec ==
  /\ Spec
  /\ WF_vars(Is("one_shot") /\ OneShot!Next /\ UNCHANGED After9)
  /\ \A w \in 1 .. 3 : WF_vars(Work(w))
  /\ \A c \in {c1, c2} : WF_vars(Proceed(c))
-----------------------------------------------------------------------------
\* The properties are stated and explained in the modules of the components.

(* The variables of each component keep their types and ranges: among them  *)
(* the place of the scan of a string, and what threads have on their stacks.*)
TypeOK ==
  /\ part = "one_shot" => OneShot!TypeOK
  /\ part = "context_lifecycle" => Lifecycle!TypeOK
  /\ part = "pool" => Pool!TypeOK
  /\ part = "pushers" => Pushers!TypeOK
  /\ part = "joiners" => Joiners!TypeOK

(* Zstd.decompress returns the content of the first frame, all of it and    *)
(* nothing else, and raises only if there is none that is whole and         *)
(* undamaged, or a skippable frame before it claims more than the string.   *)
OneShotAnswers == part = "one_shot" => OneShot!ResultIsFirstFrame /\ OneShot!RaisesForAReason

(* read_skippable_frame gives back what write_skippable_frame was given, and*)
(* nothing of a frame that is cut off or too long.                          *)
SkippableFramesAreRead ==
  [][part = "skippable_frame" => Skippable!ReadsWhatWasWritten /\ Skippable!ReadsWholeFrames]_vars

(* No context and no dictionary is freed twice, and what a method works with*)
(* is allocated: contexts, and the dictionaries of the one-shot methods.    *)
AliveWhileUsed == part = "context_lifecycle" => Lifecycle!AliveWhileUsed

(* Contexts leak only where an exception passes a C function that has one.  *)
OnlyRaisesLeak == [][part = "context_lifecycle" => Lifecycle!OnlyRaisesLeak]_vars

(* zstd.h:1121, 1178: a CDict must outlive its usage within a context; that *)
(* of a streaming object does not.                                          *)
DictionaryOutlivesUse == part = "context_lifecycle" => Lifecycle!DictionaryOutlivesUse

(* What a writer that has not failed has written is in the IO, well formed; *)
(* and what a write that returned has written is there, and nothing is there*)
(* twice or out of order, whatever has failed.                              *)
IOHoldsWritten ==
  part = "stream_io" => StreamIO!WrittenIsInIO /\ StreamIO!ReturnedIsInIO /\ StreamIO!NothingIsRepeated


IsPool == part \in {"pool", "pushers", "joiners"}

(* The worker pool is a queue of jobs that each run once, in order; no      *)
(* thread is left of a pool that has been freed.                            *)
ImplementsQueue ==
  /\ part = "pool" => Pool!Promised!QueueInit
  /\ part = "pushers" => Pushers!Promised!QueueInit
  /\ part = "joiners" => Joiners!Promised!QueueInit
  /\ [][/\ part = "pool" => Pool!ImplementsQueue /\ Pool!FreedWhenQuiet
        /\ part = "pushers" => Pushers!ImplementsQueue /\ Pushers!FreedWhenQuiet
        /\ part = "joiners" => Joiners!ImplementsQueue /\ Joiners!FreedWhenQuiet]_vars

(* Every job that a pool accepts is run, at shutdown too.                   *)
AcceptedJobsRun == <>[](IsPool => v12 = 1 .. v11)

\* Whether a caller is outside of every function of a pool.
AtRest(c) == ~IsPool \/ c \notin DOMAIN v10 \/ v10[c].at \in {"idle", "freed"}

(* Every function of a pool returns, as no wake-up is lost; where callers   *)
(* wait for jobs beside others, as long as none has waited in POOL_joinJobs *)
(* together with another waiter.  And the scan of Zstd.decompress comes to  *)
(* an end.                                                                  *)
CallsReturn ==
  /\ \/ <>(part = "joiners" /\ Joiners!JoinerHasCompany)
     \/ \A c \in {c1, c2} : ~AtRest(c) ~> AtRest(c)
  /\ part = "one_shot" ~> part = "one_shot" /\ v4 \in {"returned", "raised"}
=============================================================================

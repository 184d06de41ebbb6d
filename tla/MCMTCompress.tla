---------------------------- MODULE MCMTCompress ----------------------------
(***************************************************************************)
(* Multithreaded compression with the parameters that make its hazards     *)
(* happen on a small scale, one set of them in each instance; with says    *)
(* which one a behaviour has.                                              *)
(***************************************************************************)
EXTENDS Integers, Sequences

VARIABLES with, mt, jobs, round, queued, worker, serial, pools, caller, taken, out, frames

vars == <<with, mt, jobs, round, queued, worker, serial, pools, caller, taken, out, frames>>

\* Compression with one worker, prefixes as long as jobs, and a frame that fills the round buffer more
\* than once.
Steady == INSTANCE MTCompress WITH
  NbWorkers <- {1}, section <- 2, overlap <- 2, dictSize <- 0, window <- 0, jobSizeMin <- 2,
  rsyncable <- FALSE, Inputs <- {3}, Rooms <- {2}, MaxInput <- 9, MaxFrames <- 1,
  MayFail <- FALSE, MayAbandon <- FALSE, chunkSize <- 1, OwnPool <- TRUE

\* Synchronization points anywhere, so jobs of every length.
Rsyncable == INSTANCE MTCompress WITH
  NbWorkers <- {1}, section <- 2, overlap <- 1, dictSize <- 0, window <- 0, jobSizeMin <- 2,
  rsyncable <- TRUE, Inputs <- {3}, Rooms <- {3}, MaxInput <- 5, MaxFrames <- 1,
  MayFail <- FALSE, MayAbandon <- FALSE, chunkSize <- 1, OwnPool <- TRUE

\* Two workers, the later of which may be faster.
Overtaking == INSTANCE MTCompress WITH
  NbWorkers <- {2}, section <- 1, overlap <- 1, dictSize <- 0, window <- 0, jobSizeMin <- 1,
  rsyncable <- FALSE, Inputs <- {3}, Rooms <- {3}, MaxInput <- 3, MaxFrames <- 1,
  MayFail <- FALSE, MayAbandon <- FALSE, chunkSize <- 1, OwnPool <- TRUE

\* A dictionary of raw content, which is no part of the round buffer, and a frame that
\* fills the buffer more than once. There is one worker: with another one the caller may
\* come round to the source of the first job while that job runs, because of which
\* ZSTDMT_getInputDataInUse names the dictionary only.
Prefixed == INSTANCE MTCompress WITH
  NbWorkers <- {1}, section <- 1, overlap <- 1, dictSize <- 2, window <- 0, jobSizeMin <- 1,
  rsyncable <- FALSE, Inputs <- {3}, Rooms <- {3}, MaxInput <- 6, MaxFrames <- 1,
  MayFail <- FALSE, MayAbandon <- FALSE, chunkSize <- 1, OwnPool <- TRUE

\* The long distance matcher, whose window is longer than a job.
Ldm == INSTANCE MTCompress WITH
  NbWorkers <- {1}, section <- 2, overlap <- 2, dictSize <- 0, window <- 3, jobSizeMin <- 2,
  rsyncable <- FALSE, Inputs <- {3}, Rooms <- {12}, MaxInput <- 10, MaxFrames <- 1,
  MayFail <- FALSE, MayAbandon <- FALSE, chunkSize <- 1, OwnPool <- TRUE

\* Allocations and compressions of two workers that fail anywhere.
Failing == INSTANCE MTCompress WITH
  NbWorkers <- {2}, section <- 2, overlap <- 1, dictSize <- 0, window <- 0, jobSizeMin <- 1,
  rsyncable <- FALSE, Inputs <- {3}, Rooms <- {6}, MaxInput <- 3, MaxFrames <- 1,
  MayFail <- TRUE, MayAbandon <- FALSE, chunkSize <- 1, OwnPool <- TRUE

\* Frames that are abandoned or fail anywhere, and another number of workers after.
Abandoned == INSTANCE MTCompress WITH
  NbWorkers <- {3, 4}, section <- 1, overlap <- 1, dictSize <- 0, window <- 0, jobSizeMin <- 1,
  rsyncable <- FALSE, Inputs <- {1}, Rooms <- {0, 4}, MaxInput <- 1, MaxFrames <- 2,
  MayFail <- TRUE, MayAbandon <- TRUE, chunkSize <- 1, OwnPool <- TRUE

ASSUME MTParametersAssumption ==
  /\ Steady!MTAssumption
  /\ Rsyncable!MTAssumption
  /\ Overtaking!MTAssumption
  /\ Prefixed!MTAssumption
  /\ Ldm!MTAssumption
  /\ Failing!MTAssumption
  /\ Abandoned!MTAssumption

Is(name) == with = name /\ UNCHANGED with

Init ==
  \/ with = "Steady" /\ Steady!Init
  \/ with = "Rsyncable" /\ Rsyncable!Init
  \/ with = "Overtaking" /\ Overtaking!Init
  \/ with = "Prefixed" /\ Prefixed!Init
  \/ with = "Ldm" /\ Ldm!Init
  \/ with = "Failing" /\ Failing!Init
  \/ with = "Abandoned" /\ Abandoned!Init

Next ==
  \/ Is("Steady") /\ Steady!Next
  \/ Is("Rsyncable") /\ Rsyncable!Next
  \/ Is("Overtaking") /\ Overtaking!Next
  \/ Is("Prefixed") /\ Prefixed!Next
  \/ Is("Ldm") /\ Ldm!Next
  \/ Is("Failing") /\ Failing!Next
  \/ Is("Abandoned") /\ Abandoned!Next

Spec == Init /\ [][Next]_vars

\* What worker w does next, and what the caller's thread does inside of a call.
Work(w) ==
  \/ w < 2 /\ Is("Steady") /\ Steady!Work(w)
  \/ w < 2 /\ Is("Rsyncable") /\ Rsyncable!Work(w)
  \/ w < 3 /\ Is("Overtaking") /\ Overtaking!Work(w)
  \/ w < 2 /\ Is("Prefixed") /\ Prefixed!Work(w)
  \/ w < 2 /\ Is("Ldm") /\ Ldm!Work(w)
  \/ w < 3 /\ Is("Failing") /\ Failing!Work(w)

Proceed ==
  \/ Is("Steady") /\ Steady!Proceed
  \/ Is("Rsyncable") /\ Rsyncable!Proceed
  \/ Is("Overtaking") /\ Overtaking!Proceed
  \/ Is("Prefixed") /\ Prefixed!Proceed
  \/ Is("Ldm") /\ Ldm!Proceed
  \/ Is("Failing") /\ Failing!Proceed

\* Threads run; the caller's thread finishes the call it is in.
FairSpec ==
  /\ Spec
  /\ \A w \in 1 .. 2 : WF_vars(Work(w))
  /\ WF_vars(Proceed)
-----------------------------------------------------------------------------
\* The properties are stated and explained in MTCompress.

(* The fields of the caller's thread, the job table and the pools keep their*)
(* ranges.                                                                  *)
TypeOK ==
  /\ with = "Steady" => Steady!TypeOK
  /\ with = "Rsyncable" => Rsyncable!TypeOK
  /\ with = "Overtaking" => Overtaking!TypeOK
  /\ with = "Prefixed" => Prefixed!TypeOK
  /\ with = "Ldm" => Ldm!TypeOK
  /\ with = "Failing" => Failing!TypeOK
  /\ with = "Abandoned" => Abandoned!TypeOK

(* Every call returns, unless frames are abandoned: nobody waits for a      *)
(* worker that waits for him.                                               *)
CallReturns ==
  with # "Abandoned" /\ caller.at \notin {"idle", "freed"} ~> caller.at = "idle"

(* No byte that a posted job still has to read is written over, nor one that*)
(* the long distance matcher may still refer to.                            *)
InputIntact ==
  /\ with = "Steady" => Steady!JobInputIntact
  /\ with = "Rsyncable" => Rsyncable!JobInputIntact
  /\ with = "Overtaking" => Overtaking!JobInputIntact
  /\ with = "Prefixed" => Prefixed!JobInputIntact
  /\ with = "Ldm" => Ldm!JobInputIntact /\ Ldm!LdmWindowIntact
  /\ with = "Failing" => Failing!JobInputIntact
  /\ with = "Abandoned" => Abandoned!JobInputIntact

(* The output is the frame of the input, in order, and complete when the   *)
(* library says so.                                                         *)
FrameIsInput ==
  /\ with = "Steady" => Steady!FrameIsInput
  /\ with = "Rsyncable" => Rsyncable!FrameIsInput
  /\ with = "Overtaking" => Overtaking!FrameIsInput
  /\ with = "Prefixed" => Prefixed!FrameIsInput
  /\ with = "Ldm" => Ldm!FrameIsInput
  /\ with = "Failing" => Failing!FrameIsInput
  /\ with = "Abandoned" => Abandoned!FrameIsInput
=============================================================================

------------------------------ MODULE CStream ------------------------------
(***************************************************************************)
(* ZSTD_compressStream2() of libzstd/compress/zstd_compress.c, in the mode *)
(* the gem runs it in: input and output buffered, no worker threads.  The  *)
(* variables are the fields of ZSTD_CCtx that carry a streaming session    *)
(* and the local variables of the call in progress.  BeginCall is the      *)
(* entry of the function with its transparent initialisation, every turn   *)
(* of the while loop of ZSTD_compressStream_generic() is one action, and   *)
(* EndCall is its return.  Block contents are abstracted to their sizes.   *)
(***************************************************************************)
EXTENDS Integers

CONSTANTS
  BlockSizeLimit,     \* appliedParams.maxBlockSize: ZSTD_BLOCKSIZE_MAX
  WindowSize,         \* 1 << windowLog of the compression level
  CompressBound(_),   \* ZSTD_compressBound()
  Chunks,             \* sizes of input a caller presents with ZSTD_e_continue
  Rooms               \* sizes of output buffer a caller presents

\* ZSTD_COMPRESSBOUND (zstd.h:249) exceeds its argument and never decreases.
ASSUME CStreamAssumption ==
  /\ BlockSizeLimit \in Nat \ {0}
  /\ WindowSize \in Nat \ {0}
  /\ Chunks \subseteq Nat \ {0}
  /\ Rooms \subseteq Nat

ASSUME CompressBoundAssumption ==
  /\ \A n \in 0 .. BlockSizeLimit : CompressBound(n) \in Nat /\ CompressBound(n) > n
  /\ \A m, n \in 0 .. BlockSizeLimit : m <= n => CompressBound(m) <= CompressBound(n)

VARIABLES
  streamStage, blockSizeMax, inBuffSize,
  inToCompress, inBuffPos, inBuffTarget,
  outBuffContentSize, outBuffFlushedSize, frameEnded,
  pledged,  \* pledgedSrcSizePlusOne: FALSE for 0, unknown; TRUE for 1, no bytes
  call,     \* the call in progress: its arguments, iend - ip and oend - op
  last      \* what the last call told its caller

inVars    == <<blockSizeMax, inBuffSize, inToCompress, inBuffPos, inBuffTarget>>
outVars   == <<outBuffContentSize, outBuffFlushedSize>>
frameVars == <<streamStage, frameEnded, pledged>>
vars      == <<frameVars, inVars, outVars, call, last>>

Stages == {"zcss_init", "zcss_load", "zcss_flush"}

Smaller(a, b) == IF a <= b THEN a ELSE b

outBuffSize == CompressBound(blockSizeMax) + 1

\* The context as its caller sees it between two calls.
Held    == inBuffPos - inToCompress
Unsent  == outBuffContentSize - outBuffFlushedSize
Closing == streamStage = "zcss_flush" /\ frameEnded

Context == [held |-> Held, unsent |-> Unsent,
            open |-> streamStage # "zcss_init", closing |-> Closing, pledged |-> pledged]

\* The contract this module implements; its context changes when a call returns.
Pipe == INSTANCE CompressPipe WITH
          MaxHeld   <- BlockSizeLimit,
          MaxUnsent <- CompressBound(BlockSizeLimit) + 1,
          pipe      <- IF call.running THEN call.entry ELSE Context

Calls == [running : BOOLEAN, work : BOOLEAN, op : Pipe!Directives, given : Nat, room : Nat,
          avail : Nat, left : Nat, entry : Pipe!PipeState]

Outcomes == [op : Pipe!Directives, given : Nat, room : Nat, read : Nat, wrote : Nat,
             failed : BOOLEAN, ret : Nat]

Idle == [running |-> FALSE, work |-> FALSE, op |-> "e_continue", given |-> 0, room |-> 0,
         avail |-> 0, left |-> 0, entry |-> Pipe!EmptyPipe]

Init ==
  /\ streamStage = "zcss_init"
  /\ blockSizeMax = 0 /\ inBuffSize = 0
  /\ inToCompress = 0 /\ inBuffPos = 0 /\ inBuffTarget = 0
  /\ outBuffContentSize = 0 /\ outBuffFlushedSize = 0
  /\ frameEnded = FALSE
  /\ pledged = FALSE
  /\ call = Idle
  /\ Pipe!PipeInit

(***************************************************************************)
(* ZSTD_CCtx_init_compressStream2(): a new frame.  ZSTD_e_end pledges the  *)
(* size of its input, which is 0 here; a pledge bounds the window and so   *)
(* the block.                                                              *)
(***************************************************************************)
StartFrame(op) ==
  LET window == IF pledged' THEN 1 ELSE WindowSize
      block  == Smaller(BlockSizeLimit, window)
  IN  /\ pledged' = (pledged \/ op = "e_end")
      /\ streamStage' = "zcss_load"
      /\ blockSizeMax' = block
      /\ inBuffSize' = window + block
      /\ inToCompress' = 0
      /\ inBuffPos' = 0
      /\ inBuffTarget' = block
      /\ outBuffContentSize' = 0
      /\ outBuffFlushedSize' = 0
      /\ frameEnded' = FALSE

BeginCall(op, given, room) ==
  /\ ~call.running
  /\ call' = [running |-> TRUE, work |-> TRUE, op |-> op, given |-> given, room |-> room,
              avail |-> given, left |-> room, entry |-> Context]
  /\ IF streamStage = "zcss_init"
       THEN StartFrame(op)
       ELSE UNCHANGED <<frameVars, inVars, outVars>>
  /\ UNCHANGED last

Failed(op, given, room) == [op |-> op, given |-> given, room |-> room,
                            read |-> 0, wrote |-> 0, failed |-> TRUE, ret |-> 0]

\* No memory for the dictionary, or, after the pledge, for the tables of the
\* frame: the stage does not change.
BeginFails(op, given, room) ==
  /\ ~call.running
  /\ streamStage = "zcss_init"
  /\ last' = Failed(op, given, room)
  /\ pledged' \in {pledged, pledged \/ op = "e_end"}
  /\ UNCHANGED <<streamStage, frameEnded, inVars, outVars, call>>

InLoop(stage) == call.running /\ call.work /\ streamStage = stage

\* ZSTD_CCtx_reset(zcs, ZSTD_reset_session_only)
ResetSession == streamStage' = "zcss_init" /\ pledged' = FALSE

\* Not the code: the shortcut without its look at the output buffer, ...
CanEndAnywhere == call.op = "e_end" /\ inBuffPos = 0

\* ... and without its look at inBuff.
CanEndOverInput == call.op = "e_end" /\ call.left >= CompressBound(call.avail)

\* The whole frame fits the output buffer and nothing is buffered.
CanEndDirectly ==
  /\ call.op = "e_end"
  /\ call.left >= CompressBound(call.avail)
  /\ inBuffPos = 0

EndDirectly ==
  /\ InLoop("zcss_load")
  /\ CanEndDirectly
  /\ \E cSize \in 1 .. CompressBound(call.avail) :
       call' = [call EXCEPT !.avail = 0, !.left = @ - cSize, !.work = FALSE]
  /\ frameEnded' = TRUE
  /\ ResetSession
  /\ UNCHANGED <<inVars, outVars, last>>

\* Bytes that the load step copies into inBuff, and where it leaves inBuffPos.
Loaded    == Smaller(inBuffTarget - inBuffPos, call.avail)
FilledTo  == inBuffPos + Loaded

\* Not the code: a flush that only looks at the input it was given.
LoadStopsOverHeld ==
  \/ call.op = "e_continue" /\ FilledTo < inBuffTarget
  \/ call.op = "e_flush" /\ Loaded = 0

\* The load step stops: a block is not full, or there is nothing to flush.
LoadStops ==
  \/ call.op = "e_continue" /\ FilledTo < inBuffTarget
  \/ call.op = "e_flush" /\ FilledTo = inToCompress

Load ==
  /\ InLoop("zcss_load")
  /\ ~CanEndDirectly
  /\ LoadStops
  /\ inBuffPos' = FilledTo
  /\ call' = [call EXCEPT !.avail = @ - Loaded, !.work = FALSE]
  /\ UNCHANGED <<blockSizeMax, inBuffSize, inToCompress, inBuffTarget,
                 frameVars, outVars, last>>

\* Not the code: the next block always follows this one.
PrepareWithoutWrap ==
  /\ inBuffPos' = FilledTo
  /\ inBuffTarget' = FilledTo + blockSizeMax
  /\ inToCompress' = inBuffPos'

\* "prepare next block": the next block follows this one in inBuff, or starts
\* over at the beginning when it would not fit.
PrepareNextBlock ==
  LET fits == FilledTo + blockSizeMax <= inBuffSize
  IN  /\ inBuffPos' = IF fits THEN FilledTo ELSE 0
      /\ inBuffTarget' = IF fits THEN FilledTo + blockSizeMax ELSE blockSizeMax
      /\ inToCompress' = inBuffPos'

\* More bytes than the frame is pledged to have.
Overrun == pledged /\ FilledTo > inToCompress

\* ZSTD_compressContinue_internal() notices: srcSize_wrong, with the byte loaded
\* but input->pos not yet moved.
BlockFails ==
  /\ InLoop("zcss_load")
  /\ ~CanEndDirectly
  /\ ~LoadStops
  /\ Overrun
  /\ inBuffPos' = FilledTo
  /\ last' = Failed(call.op, call.given, call.room)
  /\ call' = Idle
  /\ UNCHANGED <<blockSizeMax, inBuffSize, inToCompress, inBuffTarget, frameVars, outVars>>

CompressBlock ==
  LET iSize     == FilledTo - inToCompress
      avail     == call.avail - Loaded
      lastBlock == call.op = "e_end" /\ avail = 0
      direct    == call.left >= CompressBound(iSize)
  IN  /\ InLoop("zcss_load")
      /\ ~CanEndDirectly
      /\ ~LoadStops
      /\ ~Overrun
      /\ PrepareNextBlock
      /\ frameEnded' = lastBlock
      /\ \E cSize \in 1 .. CompressBound(iSize) :
           \/ /\ direct
              /\ call' = [call EXCEPT !.avail = avail, !.left = @ - cSize, !.work = ~lastBlock]
              /\ IF lastBlock THEN ResetSession ELSE UNCHANGED <<streamStage, pledged>>
              /\ UNCHANGED outVars
           \/ /\ ~direct
              /\ call' = [call EXCEPT !.avail = avail]
              /\ streamStage' = "zcss_flush"
              /\ outBuffContentSize' = cSize
              /\ outBuffFlushedSize' = 0
              /\ UNCHANGED pledged
      /\ UNCHANGED <<blockSizeMax, inBuffSize, last>>

\* Not the code: the loop goes on when the output buffer is full.
FlushAgain ==
  LET flushed  == Smaller(call.left, Unsent)
      complete == flushed = Unsent
  IN  /\ InLoop("zcss_flush")
      /\ call' = [call EXCEPT !.left = @ - flushed, !.work = ~(complete /\ frameEnded)]
      /\ outBuffFlushedSize' = IF complete THEN 0 ELSE outBuffFlushedSize + flushed
      /\ outBuffContentSize' = IF complete THEN 0 ELSE outBuffContentSize
      /\ \/ ~complete /\ UNCHANGED <<streamStage, pledged>>
         \/ complete /\ frameEnded /\ ResetSession
         \/ complete /\ ~frameEnded /\ streamStage' = "zcss_load" /\ UNCHANGED pledged
      /\ UNCHANGED <<inVars, frameEnded, last>>

Flush ==
  LET flushed  == Smaller(call.left, Unsent)
      complete == flushed = Unsent
  IN  /\ InLoop("zcss_flush")
      /\ call' = [call EXCEPT !.left = @ - flushed, !.work = complete /\ ~frameEnded]
      /\ outBuffFlushedSize' = IF complete THEN 0 ELSE outBuffFlushedSize + flushed
      /\ outBuffContentSize' = IF complete THEN 0 ELSE outBuffContentSize
      /\ \/ ~complete /\ UNCHANGED <<streamStage, pledged>>
         \/ complete /\ frameEnded /\ ResetSession
         \/ complete /\ ~frameEnded /\ streamStage' = "zcss_load" /\ UNCHANGED pledged
      /\ UNCHANGED <<inVars, frameEnded, last>>

EndCall ==
  /\ call.running
  /\ ~call.work
  /\ last' = [op |-> call.op, given |-> call.given, room |-> call.room,
              read |-> call.given - call.avail, wrote |-> call.room - call.left,
              failed |-> FALSE, ret |-> Unsent]
  /\ call' = Idle
  /\ UNCHANGED <<frameVars, inVars, outVars>>

Turn == EndDirectly \/ Load \/ BlockFails \/ CompressBlock \/ Flush

Next ==
  \/ \E op \in Pipe!Directives, room \in Rooms : \E given \in Pipe!Inputs(op) :
       BeginCall(op, given, room) \/ BeginFails(op, given, room)
  \/ Turn
  \/ EndCall

Spec == Init /\ [][Next]_vars

\* A call in progress runs on the caller's thread until it returns.
FairSpec == Spec /\ WF_vars(Turn \/ EndCall)
-----------------------------------------------------------------------------
\* Types, and the extents of the buffers: a load never passes inBuffTarget, the
\* target never passes inBuffSize, coded bytes fit in outBuff.
TypeOK ==
  /\ streamStage \in Stages
  /\ blockSizeMax \in 0 .. BlockSizeLimit
  /\ inBuffSize \in 0 .. WindowSize + BlockSizeLimit
  /\ inToCompress \in Nat /\ inBuffPos \in Nat /\ inBuffTarget \in Nat
  /\ outBuffContentSize \in Nat /\ outBuffFlushedSize \in Nat
  /\ frameEnded \in BOOLEAN /\ pledged \in BOOLEAN
  /\ call \in Calls
  /\ last \in Outcomes

(* While a frame is open the load step stays within inBuff and what it has  *)
(* gathered never exceeds one block, across the wrap of "prepare next       *)
(* block" (the assertion of zstd_compress.c:6223 and the size that          *)
(* outBuff was allocated for).                                              *)
BlockFits ==
  streamStage # "zcss_init" =>
    /\ inToCompress <= inBuffPos
    /\ inBuffPos <= inBuffTarget
    /\ inBuffTarget <= inBuffSize
    /\ inBuffTarget - inToCompress <= blockSizeMax
    /\ outBuffFlushedSize <= outBuffContentSize
    /\ outBuffContentSize <= outBuffSize

(* A frame is closed only when nothing of it is left in the context: the    *)
(* shortcut of ZSTD_e_end, which looks at inBuffPos alone, skips no input,  *)
(* and the reset drops no coded byte, because the initialisation of the     *)
(* next frame clears both buffers without looking.                          *)
ClosedFrameIsEmpty ==
  streamStage = "zcss_init" => Held = 0 /\ Unsent = 0

(* Every call keeps the contract of CompressPipe: no input lost or coded    *)
(* twice, output kept back only for want of room, a flush or an end that    *)
(* returns 0 leaves nothing behind.                                         *)
ImplementsPipe == Pipe!PipeSpec

(* The loop of a call never spins: every call returns to the binding.       *)
CallReturns == call.running ~> ~call.running
=============================================================================

--------------------------- MODULE CStreamProofs ----------------------------
(***************************************************************************)
(* Theorems about CStream for every block size, window, set of chunks and  *)
(* set of output buffers.                                                  *)
(***************************************************************************)
EXTENDS CStream, TLAPS

(* Between two turns of the loop: outBuff is used in the flush stage only,  *)
(* inBuff holds no uncoded byte there and always has room for a block, and  *)
(* the arguments of the call bound what is left of them.                    *)
Buffers ==
  /\ inToCompress <= inBuffPos
  /\ inBuffPos - inToCompress <= BlockSizeLimit
  /\ outBuffFlushedSize <= outBuffContentSize
  /\ outBuffContentSize <= CompressBound(BlockSizeLimit)
  /\ streamStage # "zcss_init" => blockSizeMax > 0 /\ blockSizeMax <= inBuffSize
  /\ streamStage # "zcss_flush" => outBuffFlushedSize = 0 /\ outBuffContentSize = 0
  /\ streamStage = "zcss_flush" => inToCompress = inBuffPos

Arguments ==
  /\ call.avail <= call.given
  /\ call.left <= call.room
  /\ call.op # "e_continue" => call.given = 0

IInv == TypeOK /\ BlockFits /\ ClosedFrameIsEmpty /\ Buffers /\ Arguments

(* TypeOK without the parts that are not numbers.                           *)
Sizes ==
  /\ blockSizeMax \in 0 .. BlockSizeLimit
  /\ inBuffSize \in 0 .. WindowSize + BlockSizeLimit
  /\ inToCompress \in Nat /\ inBuffPos \in Nat /\ inBuffTarget \in Nat
  /\ outBuffContentSize \in Nat /\ outBuffFlushedSize \in Nat

LEMMA Bound ==
  ASSUME NEW n \in 0 .. BlockSizeLimit
  PROVE  /\ CompressBound(n) \in Nat
         /\ n < CompressBound(n)
         /\ CompressBound(n) <= CompressBound(BlockSizeLimit)
  BY CStreamAssumption, CompressBoundAssumption

LEMMA BoundNat == CompressBound(BlockSizeLimit) \in Nat
  BY Bound, CStreamAssumption

LEMMA InitIInv == Init => IInv
  <1> SUFFICES ASSUME Init PROVE IInv
    OBVIOUS
  <1>1. Pipe!EmptyPipe \in Pipe!PipeState
    BY CStreamAssumption, BoundNat DEF Pipe!EmptyPipe, Pipe!PipeState
  <1>2. call \in Calls
    BY <1>1 DEF Init, Calls, Idle, Pipe!Directives
  <1>3. last \in Outcomes
    BY DEF Init, Pipe!PipeInit, Outcomes, Pipe!Directives
  <1>4. Sizes
    BY CStreamAssumption DEF Init, Sizes
  <1>5. streamStage \in Stages /\ frameEnded \in BOOLEAN /\ pledged \in BOOLEAN
    BY DEF Init, Stages
  <1>6. TypeOK
    BY <1>2, <1>3, <1>4, <1>5 DEF TypeOK, Sizes
  <1>7. BlockFits /\ ClosedFrameIsEmpty /\ Buffers /\ Arguments
    BY CStreamAssumption, BoundNat
    DEF Init, BlockFits, ClosedFrameIsEmpty, Buffers, Arguments, Idle, Held, Unsent
  <1> QED
    BY <1>6, <1>7 DEF IInv

(* The context that a caller sees between two calls is one of CompressPipe. *)
LEMMA ContextIsPipe == IInv => Context \in Pipe!PipeState
  <1> SUFFICES ASSUME IInv PROVE Context \in Pipe!PipeState
    OBVIOUS
  <1>1. Held \in 0 .. BlockSizeLimit
    BY CStreamAssumption DEF IInv, TypeOK, Buffers, Held
  <1>2. Unsent \in 0 .. CompressBound(BlockSizeLimit) + 1
    BY BoundNat DEF IInv, TypeOK, Buffers, Unsent
  <1>3. Closing \in BOOLEAN /\ pledged \in BOOLEAN
    BY DEF Closing, IInv, TypeOK
  <1> QED
    BY <1>1, <1>2, <1>3 DEF Context, Pipe!PipeState

LEMMA BeginCallIInv ==
  ASSUME IInv, NEW op \in Pipe!Directives, NEW room \in Rooms, NEW given \in Pipe!Inputs(op),
         BeginCall(op, given, room)
  PROVE  IInv'
  <1>1. given \in Nat /\ room \in Nat /\ (op # "e_continue" => given = 0)
    BY CStreamAssumption DEF Pipe!Inputs
  <1>2. call' \in Calls /\ Arguments'
    BY <1>1, ContextIsPipe DEF BeginCall, Calls, Arguments
  <1>3. last' \in Outcomes
    BY DEF BeginCall, IInv, TypeOK
  <1>4. CASE streamStage = "zcss_init"
    <2> DEFINE pledge == pledged \/ op = "e_end"
               window == IF pledge THEN 1 ELSE WindowSize
               block  == Smaller(BlockSizeLimit, window)
               size   == window + block
    <2>1. StartFrame(op)
      BY <1>4 DEF BeginCall
    <2>2. block \in 1 .. BlockSizeLimit /\ size \in block .. WindowSize + BlockSizeLimit
      BY CStreamAssumption DEF Smaller
    <2>3. blockSizeMax' = block /\ inBuffSize' = size /\ inBuffTarget' = block
      BY <2>1 DEF StartFrame
    <2>4. inToCompress' = 0 /\ inBuffPos' = 0 /\ outBuffContentSize' = 0 /\ outBuffFlushedSize' = 0
      BY <2>1 DEF StartFrame
    <2>5. streamStage' = "zcss_load" /\ frameEnded' = FALSE /\ pledged' \in BOOLEAN
      BY <2>1 DEF StartFrame
    <2> HIDE DEF block, size
    <2>6. Sizes'
      BY <2>2, <2>3, <2>4, CStreamAssumption DEF Sizes
    <2>7. TypeOK'
      BY <2>5, <2>6, <1>2, <1>3 DEF TypeOK, Sizes, Stages
    <2>8. BlockFits'
      BY <2>2, <2>3, <2>4, Bound, CStreamAssumption DEF BlockFits, outBuffSize
    <2>9. ClosedFrameIsEmpty'
      BY <2>5 DEF ClosedFrameIsEmpty
    <2>10. Buffers'
      BY <2>2, <2>3, <2>4, BoundNat, CStreamAssumption DEF Buffers
    <2> QED
      BY <2>7, <2>8, <2>9, <2>10, <1>2 DEF IInv
  <1>5. CASE streamStage # "zcss_init"
    <2>1. UNCHANGED <<frameVars, inVars, outVars>>
      BY <1>5 DEF BeginCall
    <2> QED
      BY <2>1, <1>2, <1>3
      DEF IInv, TypeOK, BlockFits, ClosedFrameIsEmpty, Buffers, Held, Unsent, outBuffSize,
          frameVars, inVars, outVars
  <1> QED
    BY <1>4, <1>5

\* What the fields of the call say, for the leaves that do arithmetic on them.
LEMMA CallFields ==
  IInv => /\ call.given \in Nat /\ call.room \in Nat
          /\ call.avail \in 0 .. call.given /\ call.left \in 0 .. call.room
          /\ call.op \in Pipe!Directives
          /\ call.op # "e_continue" => call.avail = 0
  BY DEF IInv, TypeOK, Calls, Arguments

\* A step that only spends input and output of the call in progress.
LEMMA SpendCall ==
  ASSUME IInv, NEW avail \in 0 .. call.avail, NEW left \in 0 .. call.left, NEW work \in BOOLEAN,
         call' = [call EXCEPT !.avail = avail, !.left = left, !.work = work],
         UNCHANGED last
  PROVE  call' \in Calls /\ Arguments' /\ last' \in Outcomes
  <1>1. avail \in Nat /\ left \in Nat /\ avail <= call.given /\ left <= call.room
    BY CallFields
  <1>2. call' \in Calls
    BY <1>1 DEF Calls, IInv, TypeOK
  <1>3. Arguments'
    BY <1>1 DEF Arguments, IInv, TypeOK, Calls
  <1> QED
    BY <1>2, <1>3 DEF IInv, TypeOK

\* The load step fills inBuff up to its target at most.
LEMMA LoadFits ==
  ASSUME IInv, streamStage = "zcss_load"
  PROVE  /\ Loaded \in 0 .. call.avail
         /\ FilledTo \in inBuffPos .. inBuffTarget
         /\ FilledTo - inToCompress \in 0 .. blockSizeMax
  <1>1. call.avail \in Nat
    BY CallFields
  <1>2. inBuffPos \in Nat /\ inBuffTarget \in Nat /\ inToCompress \in Nat /\ blockSizeMax \in Nat
    BY CStreamAssumption DEF IInv, TypeOK
  <1>3. /\ inToCompress <= inBuffPos
        /\ inBuffPos <= inBuffTarget
        /\ inBuffTarget - inToCompress <= blockSizeMax
    BY DEF IInv, BlockFits
  <1>4. Loaded \in 0 .. call.avail /\ Loaded <= inBuffTarget - inBuffPos
    BY <1>1, <1>2, <1>3 DEF Loaded, Smaller
  <1> QED
    BY <1>1, <1>2, <1>3, <1>4 DEF FilledTo

LEMMA BeginFailsIInv ==
  ASSUME IInv, NEW op \in Pipe!Directives, NEW room \in Rooms, NEW given \in Pipe!Inputs(op),
         BeginFails(op, given, room)
  PROVE  IInv'
  <1>1. given \in Nat /\ room \in Nat
    BY CStreamAssumption DEF Pipe!Inputs
  <1>2. last' \in Outcomes
    BY <1>1 DEF BeginFails, Failed, Outcomes
  <1>3. pledged' \in BOOLEAN
    BY DEF BeginFails, IInv, TypeOK
  <1> QED
    BY <1>2, <1>3 DEF BeginFails, IInv, TypeOK, BlockFits, ClosedFrameIsEmpty, Buffers, Arguments,
                Held, Unsent, outBuffSize, frameVars, inVars, outVars

LEMMA EndDirectlyIInv == ASSUME IInv, EndDirectly PROVE IInv'
  <1>1. call.op = "e_end" /\ call.avail = 0 /\ call.left >= CompressBound(0) /\ inBuffPos = 0
    BY CallFields DEF EndDirectly, CanEndDirectly
  <1>2. PICK cSize \in 1 .. CompressBound(0) :
          call' = [call EXCEPT !.avail = 0, !.left = @ - cSize, !.work = FALSE]
    BY <1>1 DEF EndDirectly
  <1>3. call.left - cSize \in 0 .. call.left
    BY <1>1, CallFields, Bound, CStreamAssumption
  <1> DEFINE left == call.left - cSize
  <1>4. call' \in Calls /\ Arguments' /\ last' \in Outcomes
    <2>1. call' = [call EXCEPT !.avail = 0, !.left = left, !.work = FALSE] /\ UNCHANGED last
      BY <1>2 DEF EndDirectly
    <2>2. 0 \in 0 .. call.avail /\ left \in 0 .. call.left
      BY <1>1, <1>3
    <2> HIDE DEF left
    <2> QED
      BY <2>1, <2>2, SpendCall
  <1>5. inToCompress = 0 /\ outBuffContentSize = 0 /\ outBuffFlushedSize = 0
    BY <1>1 DEF EndDirectly, InLoop, IInv, TypeOK, Buffers
  <1>6. streamStage' = "zcss_init" /\ frameEnded' = TRUE /\ pledged' = FALSE
        /\ UNCHANGED <<inVars, outVars>>
    BY DEF EndDirectly, ResetSession
  <1>7. TypeOK'
    BY <1>4, <1>6 DEF IInv, TypeOK, Stages, frameVars, inVars, outVars
  <1>8. (BlockFits /\ ClosedFrameIsEmpty /\ Buffers)'
    BY <1>1, <1>5, <1>6 DEF IInv, TypeOK, BlockFits, ClosedFrameIsEmpty, Buffers, Held, Unsent,
                            frameVars, inVars, outVars
  <1> QED
    BY <1>4, <1>7, <1>8 DEF IInv

LEMMA LoadIInv == ASSUME IInv, Load PROVE IInv'
  <1> DEFINE avail == call.avail - Loaded
             filled == FilledTo
  <1>1. streamStage = "zcss_load" /\ UNCHANGED <<streamStage, frameEnded, pledged>>
    BY DEF Load, InLoop, frameVars
  <1>2. filled \in inBuffPos .. inBuffTarget /\ filled - inToCompress \in 0 .. blockSizeMax
    BY <1>1, LoadFits
  <1>3. avail \in 0 .. call.avail
    BY <1>1, LoadFits, CallFields
  <1>4. call' = [call EXCEPT !.avail = avail, !.left = call.left, !.work = FALSE] /\ UNCHANGED last
    BY CallFields DEF Load, IInv, TypeOK, Calls
  <1>5. inBuffPos' = filled
        /\ UNCHANGED <<blockSizeMax, inBuffSize, inToCompress, inBuffTarget, outVars>>
    BY DEF Load
  <1> HIDE DEF avail, filled
  <1>6. call' \in Calls /\ Arguments' /\ last' \in Outcomes
    <2>1. call.left \in 0 .. call.left
      BY CallFields
    <2> QED
      BY <1>3, <1>4, <2>1, SpendCall
  <1>7. TypeOK'
    BY <1>1, <1>2, <1>5, <1>6 DEF IInv, TypeOK, outVars
  <1>8. BlockFits' /\ ClosedFrameIsEmpty'
    BY <1>1, <1>2, <1>5 DEF IInv, TypeOK, BlockFits, ClosedFrameIsEmpty, outBuffSize, outVars
  <1>9. Buffers'
    BY <1>1, <1>2, <1>5, BoundNat, CStreamAssumption DEF IInv, TypeOK, Buffers, outVars
  <1> QED
    BY <1>6, <1>7, <1>8, <1>9 DEF IInv

\* "prepare next block" keeps a whole block of inBuff in front of inBuffPos.
LEMMA NextBlockFits ==
  ASSUME IInv, streamStage = "zcss_load", PrepareNextBlock
  PROVE  \E pos \in Nat, target \in Nat :
           /\ inBuffPos' = pos /\ inToCompress' = pos /\ inBuffTarget' = target
           /\ target = pos + blockSizeMax
           /\ target <= inBuffSize
  <1> DEFINE fits == FilledTo + blockSizeMax <= inBuffSize
  <1>1. FilledTo \in Nat /\ blockSizeMax \in Nat /\ inBuffSize \in Nat /\ blockSizeMax <= inBuffSize
    BY LoadFits, CStreamAssumption DEF IInv, TypeOK, Buffers
  <1>2. CASE fits
    <2>1. inBuffPos' = FilledTo /\ inToCompress' = FilledTo /\ inBuffTarget' = FilledTo + blockSizeMax
      BY <1>2 DEF PrepareNextBlock
    <2> QED
      BY <1>1, <1>2, <2>1
  <1>3. CASE ~fits
    <2>1. inBuffPos' = 0 /\ inToCompress' = 0 /\ inBuffTarget' = blockSizeMax
      BY <1>3 DEF PrepareNextBlock
    <2> QED
      BY <1>1, <2>1
  <1> QED
    BY <1>2, <1>3

\* No call in progress is a call.
LEMMA IdleIsCall == Idle \in Calls
  <1>1. Pipe!EmptyPipe \in Pipe!PipeState
    BY CStreamAssumption, BoundNat DEF Pipe!EmptyPipe, Pipe!PipeState
  <1> QED
    BY <1>1 DEF Idle, Calls, Pipe!Directives

LEMMA BlockFailsIInv == ASSUME IInv, BlockFails PROVE IInv'
  <1> DEFINE filled == FilledTo
  <1>1. streamStage = "zcss_load" /\ UNCHANGED <<streamStage, frameEnded, pledged>>
    BY DEF BlockFails, InLoop, frameVars
  <1>2. filled \in inBuffPos .. inBuffTarget /\ filled - inToCompress \in 0 .. blockSizeMax
    BY <1>1, LoadFits
  <1>3. inBuffPos' = filled
        /\ UNCHANGED <<blockSizeMax, inBuffSize, inToCompress, inBuffTarget, outVars>>
    BY DEF BlockFails
  <1> HIDE DEF filled
  <1>4. last' \in Outcomes
    BY CallFields DEF BlockFails, Failed, Outcomes
  <1>5. call' \in Calls /\ Arguments'
    BY IdleIsCall DEF BlockFails, Idle, Arguments
  <1>6. TypeOK'
    BY <1>1, <1>2, <1>3, <1>4, <1>5 DEF IInv, TypeOK, outVars
  <1>7. BlockFits' /\ ClosedFrameIsEmpty'
    BY <1>1, <1>2, <1>3 DEF IInv, TypeOK, BlockFits, ClosedFrameIsEmpty, outBuffSize, outVars
  <1>8. Buffers'
    BY <1>1, <1>2, <1>3, BoundNat, CStreamAssumption DEF IInv, TypeOK, Buffers, outVars
  <1> QED
    BY <1>5, <1>6, <1>7, <1>8 DEF IInv

LEMMA CompressBlockIInv == ASSUME IInv, CompressBlock PROVE IInv'
  <1> DEFINE iSize     == FilledTo - inToCompress
             avail     == call.avail - Loaded
             lastBlock == call.op = "e_end" /\ avail = 0
             direct    == call.left >= CompressBound(iSize)
  <1>1. streamStage = "zcss_load" /\ frameEnded' = lastBlock
        /\ UNCHANGED <<blockSizeMax, inBuffSize, last>>
    BY DEF CompressBlock, InLoop
  <1>2. iSize \in 0 .. BlockSizeLimit
    BY <1>1, LoadFits, CStreamAssumption DEF IInv, TypeOK
  <1>3. avail \in 0 .. call.avail
    BY <1>1, LoadFits, CallFields
  <1>4. PICK pos \in Nat, target \in Nat :
          /\ inBuffPos' = pos /\ inToCompress' = pos /\ inBuffTarget' = target
          /\ target = pos + blockSizeMax
          /\ target <= inBuffSize
    BY <1>1, NextBlockFits DEF CompressBlock
  <1>5. PICK cSize \in 1 .. CompressBound(iSize) :
          \/ /\ direct
             /\ call' = [call EXCEPT !.avail = avail, !.left = @ - cSize, !.work = ~lastBlock]
             /\ IF lastBlock THEN ResetSession ELSE UNCHANGED <<streamStage, pledged>>
             /\ UNCHANGED outVars
          \/ /\ ~direct
             /\ call' = [call EXCEPT !.avail = avail]
             /\ streamStage' = "zcss_flush"
             /\ outBuffContentSize' = cSize
             /\ outBuffFlushedSize' = 0
             /\ UNCHANGED pledged
    BY DEF CompressBlock
  <1>6. cSize \in Nat /\ cSize <= CompressBound(BlockSizeLimit) /\ cSize <= CompressBound(blockSizeMax)
    <2>1. iSize <= blockSizeMax /\ blockSizeMax \in 0 .. BlockSizeLimit
      BY <1>1, LoadFits, CStreamAssumption DEF IInv, TypeOK
    <2>2. CompressBound(iSize) <= CompressBound(blockSizeMax)
      BY <1>2, <2>1, CompressBoundAssumption
    <2> HIDE DEF iSize
    <2> QED
      BY <1>2, <2>1, <2>2, Bound, BoundNat
  <1>7. outBuffContentSize = 0 /\ outBuffFlushedSize = 0 /\ frameEnded' \in BOOLEAN
    BY <1>1 DEF IInv, Buffers
  <1> HIDE DEF avail, iSize
  <1>8. CASE /\ direct
             /\ call' = [call EXCEPT !.avail = avail, !.left = @ - cSize, !.work = ~lastBlock]
             /\ IF lastBlock THEN ResetSession ELSE UNCHANGED <<streamStage, pledged>>
             /\ UNCHANGED outVars
    <2> DEFINE left == call.left - cSize
    <2>1. left \in 0 .. call.left
      BY <1>2, <1>5, <1>8, Bound, CallFields
    <2>2. call' = [call EXCEPT !.avail = avail, !.left = left, !.work = ~lastBlock]
      BY <1>8
    <2>3. streamStage' \in {"zcss_init", "zcss_load"} /\ pledged' \in BOOLEAN
      BY <1>1, <1>8 DEF ResetSession, IInv, TypeOK
    <2> HIDE DEF left
    <2>4. call' \in Calls /\ Arguments' /\ last' \in Outcomes
      BY <1>1, <1>3, <2>1, <2>2, SpendCall
    <2>5. TypeOK'
      BY <1>1, <1>4, <1>7, <1>8, <2>3, <2>4 DEF IInv, TypeOK, Stages, outVars
    <2>6. BlockFits' /\ ClosedFrameIsEmpty'
      BY <1>1, <1>4, <1>7, <1>8, Bound, CStreamAssumption
      DEF IInv, TypeOK, BlockFits, ClosedFrameIsEmpty, Held, Unsent, outBuffSize, outVars
    <2>7. Buffers'
      BY <1>1, <1>4, <1>7, <1>8, BoundNat, CStreamAssumption DEF IInv, TypeOK, Buffers, outVars
    <2> QED
      BY <2>4, <2>5, <2>6, <2>7 DEF IInv
  <1>9. CASE /\ ~direct
             /\ call' = [call EXCEPT !.avail = avail]
             /\ streamStage' = "zcss_flush"
             /\ outBuffContentSize' = cSize
             /\ outBuffFlushedSize' = 0
             /\ UNCHANGED pledged
    <2>1. call' = [call EXCEPT !.avail = avail, !.left = call.left, !.work = call.work]
      BY <1>9 DEF IInv, TypeOK, Calls
    <2>2. call' \in Calls /\ Arguments' /\ last' \in Outcomes
      <3>1. call.left \in 0 .. call.left /\ call.work \in BOOLEAN
        BY CallFields DEF IInv, TypeOK, Calls
      <3> QED
        BY <1>1, <1>3, <2>1, <3>1, SpendCall
    <2>3. TypeOK'
      BY <1>1, <1>4, <1>6, <1>7, <1>9, <2>2 DEF IInv, TypeOK, Stages
    <2>4. BlockFits' /\ ClosedFrameIsEmpty'
      BY <1>1, <1>4, <1>6, <1>9, Bound, CStreamAssumption
      DEF IInv, TypeOK, BlockFits, ClosedFrameIsEmpty, outBuffSize
    <2>5. Buffers'
      BY <1>1, <1>4, <1>6, <1>9, BoundNat, CStreamAssumption DEF IInv, TypeOK, Buffers
    <2> QED
      BY <2>2, <2>3, <2>4, <2>5 DEF IInv
  <1> QED
    BY <1>5, <1>8, <1>9

LEMMA FlushIInv == ASSUME IInv, Flush PROVE IInv'
  <1> DEFINE flushed  == Smaller(call.left, Unsent)
             complete == flushed = Unsent
             left     == call.left - flushed
             work     == complete /\ ~frameEnded
             content  == IF complete THEN 0 ELSE outBuffContentSize
             sent     == IF complete THEN 0 ELSE outBuffFlushedSize + flushed
  <1>1. streamStage = "zcss_flush" /\ UNCHANGED <<inVars, frameEnded, last>>
    BY DEF Flush, InLoop
  <1>2. Unsent \in Nat /\ outBuffFlushedSize + Unsent = outBuffContentSize
    BY DEF IInv, TypeOK, Buffers, Unsent
  <1>3. left \in 0 .. call.left
    BY <1>2, CallFields DEF Smaller
  <1>4. content \in 0 .. outBuffContentSize /\ sent \in 0 .. content
    BY <1>2, CallFields DEF Smaller, IInv, TypeOK
  <1>5. outBuffContentSize' = content /\ outBuffFlushedSize' = sent
    BY DEF Flush
  <1>6. /\ pledged' \in BOOLEAN
        /\ \/ streamStage' = "zcss_flush"
           \/ streamStage' \in {"zcss_init", "zcss_load"} /\ content = 0 /\ sent = 0
    BY <1>1 DEF Flush, ResetSession, IInv, TypeOK
  <1>7. call' = [call EXCEPT !.avail = call.avail, !.left = left, !.work = work]
    BY DEF Flush, IInv, TypeOK, Calls
  <1> HIDE DEF left, content, sent
  <1>8. call' \in Calls /\ Arguments' /\ last' \in Outcomes
    <2>1. call.avail \in 0 .. call.avail /\ work \in BOOLEAN
      BY CallFields
    <2> HIDE DEF work
    <2> QED
      BY <1>1, <1>3, <1>7, <2>1, SpendCall
  <1>9. TypeOK'
    BY <1>1, <1>4, <1>5, <1>6, <1>8 DEF IInv, TypeOK, Stages, inVars
  <1>10. BlockFits'
    BY <1>1, <1>4, <1>5, Bound, CStreamAssumption DEF IInv, TypeOK, BlockFits, outBuffSize, inVars
  <1>11. ClosedFrameIsEmpty'
    BY <1>1, <1>5, <1>6 DEF IInv, TypeOK, Buffers, ClosedFrameIsEmpty, Held, Unsent, inVars
  <1>12. Buffers'
    BY <1>1, <1>4, <1>5, <1>6, BoundNat DEF IInv, TypeOK, Buffers, inVars
  <1> QED
    BY <1>8, <1>9, <1>10, <1>11, <1>12 DEF IInv

LEMMA EndCallIInv == ASSUME IInv, EndCall PROVE IInv'
  <1> DEFINE read  == call.given - call.avail
             wrote == call.room - call.left
  <1>1. read \in Nat /\ wrote \in Nat /\ Unsent \in Nat
    BY CallFields DEF IInv, TypeOK, Buffers, Unsent
  <1>2. last' = [op |-> call.op, given |-> call.given, room |-> call.room,
                 read |-> read, wrote |-> wrote, failed |-> FALSE, ret |-> Unsent]
        /\ call' = Idle /\ UNCHANGED <<frameVars, inVars, outVars>>
    BY DEF EndCall
  <1> HIDE DEF read, wrote
  <1>3. last' \in Outcomes
    BY <1>1, <1>2, CallFields DEF Outcomes
  <1>4. call' \in Calls /\ Arguments'
    BY <1>2, IdleIsCall DEF Idle, Arguments
  <1> QED
    BY <1>2, <1>3, <1>4 DEF IInv, TypeOK, BlockFits, ClosedFrameIsEmpty, Buffers,
                            Held, Unsent, outBuffSize, frameVars, inVars, outVars

LEMMA NextIInv == IInv /\ [Next]_vars => IInv'
  <1> SUFFICES ASSUME IInv, [Next]_vars PROVE IInv'
    OBVIOUS
  <1>1. ASSUME NEW op \in Pipe!Directives, NEW room \in Rooms, NEW given \in Pipe!Inputs(op),
               BeginCall(op, given, room) \/ BeginFails(op, given, room)
        PROVE  IInv'
    BY <1>1, BeginCallIInv, BeginFailsIInv
  <1>2. ASSUME Turn PROVE IInv'
    BY <1>2, EndDirectlyIInv, LoadIInv, BlockFailsIInv, CompressBlockIInv,
       FlushIInv DEF Turn
  <1>3. ASSUME UNCHANGED vars PROVE IInv'
    BY <1>3 DEF vars, frameVars, inVars, outVars, IInv, TypeOK, BlockFits, ClosedFrameIsEmpty, Buffers,
                Arguments, Held, Unsent, outBuffSize
  <1> QED
    BY <1>1, <1>2, <1>3, EndCallIInv DEF Next

LEMMA Inductive == Spec => []IInv
  BY InitIInv, NextIInv, PTL DEF Spec

(* Every buffer of a compression context keeps its type and extent, for any *)
(* parameters and any sequence of library calls.                            *)
THEOREM TypeCorrect == Spec => []TypeOK
  <1>1. IInv => TypeOK
    BY DEF IInv
  <1> QED
    BY <1>1, Inductive, PTL

(* The load step never writes past inBuff, a block never exceeds            *)
(* blockSizeMax and coded bytes fit in outBuff.                             *)
THEOREM BlocksFit == Spec => []BlockFits
  <1>1. IInv => BlockFits
    BY DEF IInv
  <1> QED
    BY <1>1, Inductive, PTL

(* A frame is never closed over input not coded or output not flushed.      *)
THEOREM ClosedFramesAreEmpty == Spec => []ClosedFrameIsEmpty
  <1>1. IInv => ClosedFrameIsEmpty
    BY DEF IInv
  <1> QED
    BY <1>1, Inductive, PTL
-----------------------------------------------------------------------------
(***************************************************************************)
(* Every step keeps the contract of CompressPipe.  Between two calls the   *)
(* abstract context is the concrete one; within a call it is call.entry,   *)
(* and what the call has done to it so far is                              *)
(*   Read   input taken over into inBuff,                                  *)
(*   Wrote  output handed over to the caller,                              *)
(*   Coded  input that has gone into blocks,                               *)
(*   Made   coded bytes that came out of them.                             *)
(***************************************************************************)
Read  == call.given - call.avail
Wrote == call.room - call.left
Coded == call.entry.held + Read - Held
Made  == Unsent + Wrote - call.entry.unsent

\* The stages: coded bytes wait in the flush stage; the load stage has room for a
\* byte; a pledged frame has blocks of one byte, of which it ever codes an empty one,
\* its last.
StagesKept ==
  /\ streamStage = "zcss_flush" => Unsent > 0
  /\ streamStage # "zcss_init" => inToCompress < inBuffTarget
  /\ pledged /\ streamStage # "zcss_init" =>
       blockSizeMax = 1 /\ inToCompress = 0 /\ inBuffTarget = 1
  /\ pledged /\ streamStage = "zcss_flush" => frameEnded

\* What a call may find.
Entered ==
  /\ call.room \in Rooms /\ call.given \in Pipe!Inputs(call.op)
  /\ call.entry.closing => call.entry.unsent > 0
  /\ ~call.entry.open => call.entry.held = 0 /\ call.entry.unsent = 0 /\ ~call.entry.closing
  /\ call.entry.pledged /\ ~call.entry.closing => call.entry.unsent = 0

\* Nothing is coded without output, nor made without input but the end of a frame.
Balance ==
  /\ Coded >= 0 /\ Made >= 0
  /\ Coded > 0 => Made > 0
  /\ Made > 0 /\ Coded = 0 => call.op = "e_end" /\ (Closing \/ streamStage = "zcss_init")

\* A call knows from its entry whether its frame is pledged, and takes no input of one
\* that is.
Pledge ==
  /\ pledged = (streamStage # "zcss_init"
                 /\ (call.entry.pledged \/ (~call.entry.open /\ call.op = "e_end")))
  /\ call.entry.pledged \/ pledged => Read = 0 /\ Held = call.entry.held

\* An output buffer for all that the context may hold is never filled.
RoomIsEnough ==
  call.entry.unsent = 0 /\ call.given = 0 /\ call.room >= CompressBound(BlockSizeLimit) + 1 =>
    /\ streamStage # "zcss_flush"
    /\ call.work => call.left = call.room \/ (call.op = "e_flush" /\ Held = 0)

\* A frame that is being closed is only flushed, and only ZSTD_e_end closes one.
Directive ==
  /\ call.entry.closing => /\ Closing \/ (streamStage = "zcss_init" /\ ~call.work)
                           /\ Read = 0 /\ Made = 0 /\ Held = call.entry.held
  /\ ~call.entry.closing /\ call.op # "e_end" => streamStage # "zcss_init" /\ ~Closing
  /\ ~call.entry.closing /\ call.op = "e_end" /\ (Closing \/ streamStage = "zcss_init") => Made > 0

\* Why the loop may have stopped.
Stopped ==
  ~call.work =>
    /\ streamStage = "zcss_flush" => call.left = 0
    /\ streamStage = "zcss_load" => \/ call.op = "e_continue" /\ call.avail = 0
                                    \/ call.op = "e_flush" /\ Held = 0

Kept == StagesKept /\ (call.running => Entered /\ Balance /\ Pledge /\ RoomIsEnough /\ Directive /\ Stopped)

LEMMA EntryFields ==
  IInv => /\ call.entry.held \in Nat /\ call.entry.unsent \in Nat
          /\ call.entry.open \in BOOLEAN /\ call.entry.closing \in BOOLEAN /\ call.entry.pledged \in BOOLEAN
          /\ call.running \in BOOLEAN /\ call.work \in BOOLEAN
          /\ Held \in Nat /\ Unsent \in Nat
  <1> SUFFICES ASSUME IInv
               PROVE  /\ call.entry.held \in Nat /\ call.entry.unsent \in Nat
                      /\ call.entry.open \in BOOLEAN /\ call.entry.closing \in BOOLEAN
                      /\ call.entry.pledged \in BOOLEAN
                      /\ call.running \in BOOLEAN /\ call.work \in BOOLEAN
                      /\ Held \in Nat /\ Unsent \in Nat
    OBVIOUS
  <1>1. call.entry \in Pipe!PipeState /\ call.running \in BOOLEAN /\ call.work \in BOOLEAN
    BY DEF IInv, TypeOK, Calls
  <1>2. /\ call.entry.held \in Nat /\ call.entry.unsent \in Nat
        /\ call.entry.open \in BOOLEAN /\ call.entry.closing \in BOOLEAN /\ call.entry.pledged \in BOOLEAN
    BY <1>1, BoundNat, CStreamAssumption DEF Pipe!PipeState
  <1>3. Held \in Nat /\ Unsent \in Nat
    BY DEF IInv, TypeOK, Buffers, Held, Unsent
  <1> QED
    BY <1>1, <1>2, <1>3

\* What a turn leaves of the call.
LEMMA TurnFields ==
  ASSUME IInv, NEW avail, NEW left, NEW work,
         call' = [call EXCEPT !.avail = avail, !.left = left, !.work = work]
  PROVE  /\ call'.running = call.running /\ call'.op = call.op /\ call'.given = call.given
         /\ call'.room = call.room /\ call'.entry = call.entry
         /\ call'.avail = avail /\ call'.left = left /\ call'.work = work
  BY DEF IInv, TypeOK, Calls

LEMMA KeptInit == Init => Kept
  BY DEF Init, Kept, StagesKept, Idle

LEMMA KeptBegin ==
  ASSUME IInv, Kept, NEW op \in Pipe!Directives, NEW room \in Rooms, NEW given \in Pipe!Inputs(op),
         BeginCall(op, given, room)
  PROVE  Kept'
  <1>1. given \in Nat /\ room \in Nat
    BY CStreamAssumption DEF Pipe!Inputs
  <1>2. /\ call'.running /\ call'.work /\ call'.op = op /\ call'.given = given /\ call'.room = room
        /\ call'.avail = given /\ call'.left = room /\ call'.entry = Context
    BY DEF BeginCall
  <1>3. /\ Context.held = Held /\ Context.unsent = Unsent
        /\ Context.open = (streamStage # "zcss_init") /\ Context.closing = Closing
        /\ Context.pledged = pledged
    BY DEF Context
  <1>4. Held \in Nat /\ Unsent \in Nat
    BY EntryFields
  <1>5. /\ Held' = Held /\ Unsent' = Unsent
        /\ streamStage' # "zcss_init"
        /\ streamStage # "zcss_init" => UNCHANGED <<frameVars, inVars, outVars>>
        /\ streamStage = "zcss_init" => /\ Held = 0 /\ Unsent = 0
                                         /\ streamStage' = "zcss_load"
                                         /\ pledged' = (pledged \/ op = "e_end")
    BY DEF BeginCall, StartFrame, Held, Unsent, IInv, ClosedFrameIsEmpty, inVars, outVars, frameVars
  <1>6. StagesKept'
    <2>1. CASE streamStage = "zcss_init"
      <3>1. StartFrame(op) /\ streamStage' = "zcss_load"
        BY <2>1, <1>5 DEF BeginCall
      <3>2. inToCompress' = 0 /\ inBuffTarget' \in Nat \ {0} /\ (pledged' => inBuffTarget' = 1 /\ blockSizeMax' = 1)
        <4> DEFINE block == Smaller(BlockSizeLimit, IF pledged' THEN 1 ELSE WindowSize)
        <4>1. inToCompress' = 0 /\ inBuffTarget' = block /\ blockSizeMax' = block
          BY <3>1 DEF StartFrame
        <4>2. block \in Nat \ {0} /\ (pledged' => block = 1)
          BY CStreamAssumption DEF Smaller
        <4> HIDE DEF block
        <4> QED
          BY <4>1, <4>2
      <3> HIDE DEF StagesKept
      <3> QED
        BY <3>1, <3>2 DEF StagesKept
    <2>2. CASE streamStage # "zcss_init"
      BY <2>2, <1>5 DEF Kept, StagesKept, Unsent, frameVars, inVars, outVars
    <2> QED
      BY <2>1, <2>2
  <1>7. Entered'
    <2>1. /\ Closing => Unsent > 0
          /\ streamStage = "zcss_init" => Held = 0 /\ Unsent = 0 /\ ~Closing
          /\ pledged /\ ~Closing => Unsent = 0
      BY <1>5 DEF Kept, StagesKept, Closing, IInv, TypeOK, Buffers, Unsent, Stages
    <2> QED
      BY <1>2, <1>3, <2>1 DEF Entered
  <1>8. Read' = 0 /\ Wrote' = 0 /\ Coded' = 0 /\ Made' = 0
    BY <1>1, <1>2, <1>3, <1>4, <1>5 DEF Read, Wrote, Coded, Made
  <1>9. Balance'
    BY <1>8 DEF Balance
  <1>10. Pledge'
    <2>1. pledged' = (pledged \/ (streamStage = "zcss_init" /\ op = "e_end"))
      BY <1>5 DEF frameVars, IInv, TypeOK
    <2>2. pledged' = (streamStage' # "zcss_init"
                       /\ (call'.entry.pledged \/ (~call'.entry.open /\ call'.op = "e_end")))
      BY <1>2, <1>3, <1>5, <2>1, Zenon
    <2>3. Read' = 0 /\ Held' = call'.entry.held
      BY <1>2, <1>3, <1>5, <1>8
    <2> QED
      BY <2>2, <2>3, Zenon DEF Pledge
  <1>11. RoomIsEnough'
    BY <1>2, <1>3, <1>5 DEF RoomIsEnough, Kept, StagesKept, frameVars
  <1>12. Directive'
    <2>1. Closing' = Closing
      <3>1. CASE streamStage = "zcss_init"
        BY <1>5, <3>1 DEF Closing
      <3>2. CASE streamStage # "zcss_init"
        <4>1. streamStage' = streamStage /\ frameEnded' = frameEnded
          BY <1>5, <3>2 DEF frameVars
        <4> QED
          BY <4>1, Zenon DEF Closing
      <3> QED
        BY <3>1, <3>2
    <2> QED
      BY <1>2, <1>3, <1>5, <1>8, <2>1 DEF Directive
  <1>13. Stopped'
    BY <1>2 DEF Stopped
  <1> QED
    BY <1>6, <1>7, <1>9, <1>10, <1>11, <1>12, <1>13 DEF Kept

LEMMA KeptLoad == ASSUME IInv, Kept, Load PROVE Kept'
  <1> DEFINE avail == call.avail - Loaded
  <1>1. /\ streamStage = "zcss_load" /\ call.running /\ call.work
        /\ UNCHANGED <<streamStage, frameEnded, pledged, blockSizeMax, inToCompress, inBuffTarget, outVars>>
    BY DEF Load, InLoop, frameVars
  <1>2. Loaded \in 0 .. call.avail /\ avail \in 0 .. call.avail
    BY <1>1, LoadFits, CallFields
  <1>3. call' = [call EXCEPT !.avail = avail, !.left = call.left, !.work = FALSE]
    BY CallFields DEF Load, IInv, TypeOK, Calls
  <1>4. /\ call'.running /\ call'.op = call.op /\ call'.given = call.given
        /\ call'.room = call.room /\ call'.entry = call.entry
        /\ call'.avail = avail /\ call'.left = call.left /\ call'.work = FALSE
    BY <1>1, <1>3, TurnFields, Zenon
  <1>5. Held' = Held + Loaded /\ Unsent' = Unsent
    BY <1>1, <1>2, CallFields DEF Load, Held, Unsent, FilledTo, outVars, IInv, TypeOK
  <1>6. /\ pledged => Loaded = 0
        /\ call.op = "e_continue" => avail = 0
        /\ call.op = "e_flush" => Loaded = 0 /\ Held = 0
        /\ call.op # "e_end"
    <2>1. LoadStops /\ FilledTo = inBuffPos + Loaded
      BY DEF Load, FilledTo
    <2>2. /\ call.op = "e_continue" => FilledTo < inBuffTarget
          /\ call.op = "e_flush" => FilledTo = inToCompress
          /\ call.op \in {"e_continue", "e_flush"}
      BY <2>1 DEF LoadStops
    <2>3. FilledTo < inBuffTarget => Loaded = call.avail
      BY <2>1, CallFields DEF Loaded, Smaller, IInv, TypeOK
    <2>4. call.op # "e_continue" => Loaded = 0
      BY <1>2, CallFields
    <2>5. pledged => inToCompress = 0 /\ inBuffTarget = 1
      BY <1>1 DEF Kept, StagesKept
    <2>6. inBuffPos \in Nat /\ inToCompress \in Nat /\ inBuffTarget \in Nat /\ Loaded \in Nat /\ call.avail \in Nat
      BY <1>2, CallFields DEF IInv, TypeOK
    <2> HIDE DEF avail
    <2>7. pledged /\ call.op = "e_continue" => Loaded = 0
      BY <2>1, <2>2, <2>5, <2>6
    <2>8. call.op = "e_continue" => avail = 0
      BY <2>2, <2>3, <2>6 DEF avail
    <2>9. call.op = "e_flush" => Held = 0
      BY <2>1, <2>2, <2>4, <2>6 DEF Held
    <2> QED
      BY <2>2, <2>4, <2>7, <2>8, <2>9
  <1>7. call.avail \in Nat /\ call.given \in Nat /\ call.room \in Nat /\ call.left \in Nat /\ Loaded \in Nat
    BY <1>2, CallFields
  <1>8. Read' = Read + Loaded /\ Wrote' = Wrote /\ Coded' = Coded /\ Made' = Made
    BY <1>4, <1>5, <1>7, EntryFields DEF Read, Wrote, Coded, Made
  <1>9. Closing' = Closing
    BY <1>1 DEF Closing
  <1> HIDE DEF avail
  <1>10. StagesKept'
    BY <1>1, <1>5 DEF Kept, StagesKept
  <1>11. Entered'
    BY <1>1, <1>4 DEF Kept, Entered
  <1>12. Balance'
    BY <1>1, <1>4, <1>8, <1>9 DEF Kept, Balance
  <1>13. Pledge'
    <2>1. call.entry.pledged => pledged
      BY <1>1, Zenon DEF Kept, Pledge
    <2>2. pledged => Read' = Read /\ Held' = Held
      BY <1>5, <1>6, <1>7, <1>8, EntryFields DEF Read
    <2> QED
      BY <1>1, <1>4, <2>1, <2>2, Zenon DEF Kept, Pledge
  <1>14. RoomIsEnough'
    BY <1>1, <1>4 DEF Kept, RoomIsEnough
  <1>15. Directive'
    BY <1>1, <1>4, <1>8, <1>9 DEF Kept, Directive, Closing
  <1>16. Stopped'
    BY <1>1, <1>4, <1>5, <1>6, CallFields DEF Stopped, Pipe!Directives
  <1> QED
    BY <1>4, <1>10, <1>11, <1>12, <1>13, <1>14, <1>15, <1>16 DEF Kept

LEMMA KeptEndDirectly == ASSUME IInv, Kept, EndDirectly PROVE Kept'
  <1>1. /\ streamStage = "zcss_load" /\ call.running /\ call.work
        /\ call.op = "e_end" /\ call.avail = 0 /\ call.left >= CompressBound(0) /\ inBuffPos = 0
    BY CallFields DEF EndDirectly, CanEndDirectly, InLoop
  <1>2. PICK cSize \in 1 .. CompressBound(0) :
          call' = [call EXCEPT !.avail = 0, !.left = @ - cSize, !.work = FALSE]
    BY <1>1 DEF EndDirectly
  <1> DEFINE left == call.left - cSize
  <1>3. left \in Nat
    BY <1>1, CallFields, Bound, CStreamAssumption
  <1>4. /\ call'.running /\ call'.op = call.op /\ call'.given = call.given
        /\ call'.room = call.room /\ call'.entry = call.entry
        /\ call'.avail = call.avail /\ call'.left = left /\ call'.work = FALSE
    BY <1>1, <1>2, TurnFields
  <1>5. streamStage' = "zcss_init" /\ pledged' = FALSE /\ UNCHANGED <<inVars, outVars>>
    BY DEF EndDirectly, ResetSession
  <1>6. Held' = Held /\ Unsent' = Unsent
    BY <1>5 DEF Held, Unsent, inVars, outVars
  <1>7. call.given \in Nat /\ call.room \in Nat /\ call.left \in Nat /\ cSize \in Nat \ {0}
    BY <1>2, CallFields, Bound, CStreamAssumption
  <1>8. Read' = Read /\ Wrote' = Wrote + cSize /\ Coded' = Coded /\ Made' = Made + cSize
    BY <1>4, <1>6, <1>7, EntryFields DEF Read, Wrote, Coded, Made
  <1>9. ~Closing' /\ ~call.entry.closing
    BY <1>1, <1>5 DEF Closing, Kept, Directive
  <1>10. Made \in Int /\ Coded \in Int
    BY <1>1, CallFields, EntryFields DEF Made, Wrote, Coded, Read
  <1> HIDE DEF left
  <1>11. StagesKept'
    BY <1>5 DEF StagesKept
  <1>12. Entered'
    BY <1>1, <1>4 DEF Kept, Entered
  <1>13. Balance'
    BY <1>1, <1>4, <1>5, <1>7, <1>8, <1>10 DEF Kept, Balance
  <1>14. Pledge'
    BY <1>1, <1>4, <1>5, <1>6, <1>8 DEF Kept, Pledge
  <1>15. RoomIsEnough'
    BY <1>4, <1>5 DEF RoomIsEnough
  <1>16. Directive'
    BY <1>1, <1>4, <1>5, <1>7, <1>8, <1>9, <1>10 DEF Kept, Directive, Balance
  <1>17. Stopped'
    BY <1>5 DEF Stopped
  <1> QED
    BY <1>4, <1>11, <1>12, <1>13, <1>14, <1>15, <1>16, <1>17 DEF Kept

LEMMA KeptFlush == ASSUME IInv, Kept, Flush PROVE Kept'
  <1> DEFINE flushed  == Smaller(call.left, Unsent)
             complete == flushed = Unsent
             left     == call.left - flushed
             work     == complete /\ ~frameEnded
  <1>1. /\ streamStage = "zcss_flush" /\ call.running /\ call.work
        /\ UNCHANGED <<inVars, frameEnded, last>>
    BY DEF Flush, InLoop
  <1>2. call' = [call EXCEPT !.avail = call.avail, !.left = left, !.work = work]
    BY DEF Flush, IInv, TypeOK, Calls
  <1>3. /\ call'.running /\ call'.op = call.op /\ call'.given = call.given
        /\ call'.room = call.room /\ call'.entry = call.entry
        /\ call'.avail = call.avail /\ call'.left = left /\ call'.work = work
    BY <1>1, <1>2, TurnFields, Zenon
  <1>4. /\ call.given \in Nat /\ call.avail \in Nat /\ call.room \in Nat /\ call.left \in Nat
        /\ Unsent \in Nat \ {0} /\ Held \in Nat
        /\ outBuffContentSize \in Nat /\ outBuffFlushedSize \in Nat
    BY <1>1, CallFields, EntryFields DEF Kept, StagesKept, IInv, TypeOK
  <1>5. flushed \in Nat /\ flushed <= Unsent /\ flushed <= call.left /\ (~complete => flushed = call.left)
    BY <1>4 DEF Smaller
  <1>6. Held' = Held /\ Unsent' = Unsent - flushed
    <2>1. Held' = Held
      BY <1>1 DEF Held, inVars
    <2> DEFINE content == IF complete THEN 0 ELSE outBuffContentSize
               sent    == IF complete THEN 0 ELSE outBuffFlushedSize + flushed
    <2>2. outBuffContentSize' = content /\ outBuffFlushedSize' = sent
      BY DEF Flush
    <2>3. content - sent = Unsent - flushed
      BY <1>4, <1>5 DEF Unsent
    <2> QED
      <3> HIDE DEF content, sent
      <3>1. Unsent' = content - sent
        BY <2>2 DEF Unsent
      <3> QED
        BY <2>1, <2>3, <3>1
  <1>7. /\ ~complete => streamStage' = streamStage /\ pledged' = pledged
        /\ complete /\ frameEnded => streamStage' = "zcss_init" /\ pledged' = FALSE
        /\ complete /\ ~frameEnded => streamStage' = "zcss_load" /\ pledged' = pledged
    BY <1>1 DEF Flush, ResetSession
  <1>8. Read' = Read /\ Wrote' = Wrote + flushed /\ Coded' = Coded /\ Made' = Made
    BY <1>3, <1>4, <1>5, <1>6, EntryFields DEF Read, Wrote, Coded, Made
  <1>9. complete <=> Unsent' = 0
    BY <1>4, <1>5, <1>6
  <1>10. Closing' = (Closing /\ ~complete)
    BY <1>1, <1>7 DEF Closing
  <1>11. Closing <=> frameEnded
    BY <1>1 DEF Closing
  <1>12. Made \in Int /\ Coded \in Int
    BY <1>4, EntryFields DEF Made, Wrote, Coded, Read
  <1>13. left = 0 \/ complete
    BY <1>4, <1>5
  <1>14. StagesKept'
    <2>1. streamStage' = "zcss_flush" => Unsent' > 0
      BY <1>4, <1>5, <1>6, <1>7
    <2>2. streamStage' = "zcss_load" => inToCompress' < inBuffTarget'
      BY <1>1 DEF inVars, Kept, StagesKept
    <2> QED
      BY <1>1, <1>7, <2>1, <2>2 DEF Kept, StagesKept, inVars
  <1> HIDE DEF complete, left, work
  <1>15. Entered'
    BY <1>1, <1>3 DEF Kept, Entered
  <1>16. Balance'
    BY <1>1, <1>3, <1>7, <1>8, <1>10, <1>11, <1>12 DEF Kept, Balance
  <1>17. Pledge'
    <2>1. (pledged => frameEnded) /\ pledged \in BOOLEAN
      BY <1>1 DEF Kept, StagesKept, IInv, TypeOK
    <2>2. pledged' = (pledged /\ streamStage' # "zcss_init") /\ (pledged => pledged' \/ streamStage' = "zcss_init")
      BY <1>1, <1>7, <2>1
    <2> QED
      BY <1>1, <1>3, <1>6, <1>7, <1>8, <2>1, <2>2, Zenon DEF Kept, Pledge
  <1>18. RoomIsEnough'
    BY <1>1, <1>3 DEF Kept, RoomIsEnough
  <1>19. Directive'
    BY <1>1, <1>3, <1>6, <1>7, <1>8, <1>10, <1>11, <1>12 DEF Kept, Directive, Balance, work
  <1>20. Stopped'
    BY <1>1, <1>3, <1>7, <1>13 DEF Stopped, work
  <1> QED
    BY <1>3, <1>14, <1>15, <1>16, <1>17, <1>18, <1>19, <1>20 DEF Kept
\* What the load step feeds to a block: everything held, all of the input but for
\* ZSTD_e_continue, and nothing only for the end of the frame.
LEMMA BlockIsFed ==
  ASSUME IInv, Kept, CompressBlock
  PROVE  /\ streamStage = "zcss_load" /\ call.running /\ call.work
         /\ Held \in Nat /\ Loaded \in Nat /\ Loaded <= call.avail
         /\ FilledTo - inToCompress = Held + Loaded
         /\ Held + Loaded <= BlockSizeLimit
         /\ Held + Loaded = 0 => call.op = "e_end"
         /\ call.op # "e_continue" => Loaded = 0 /\ call.avail = 0
         /\ pledged => /\ call.op = "e_end" /\ Held = 0 /\ Loaded = 0
                       /\ FilledTo = 0
  <1>1. /\ streamStage = "zcss_load" /\ call.running /\ call.work
        /\ ~LoadStops /\ ~Overrun
    BY DEF CompressBlock, InLoop
  <1>2. /\ inBuffPos \in Nat /\ inToCompress \in Nat /\ inBuffTarget \in Nat
        /\ call.avail \in Nat /\ blockSizeMax \in Nat /\ blockSizeMax <= BlockSizeLimit
    BY CallFields, CStreamAssumption DEF IInv, TypeOK
  <1>3. /\ Loaded \in Nat /\ Loaded <= call.avail
        /\ FilledTo - inToCompress \in 0 .. blockSizeMax
    BY <1>1, <1>2, LoadFits
  <1>4. FilledTo = inBuffPos + Loaded /\ Held = inBuffPos - inToCompress /\ Held \in Nat
    BY EntryFields DEF FilledTo, Held
  <1>5. FilledTo - inToCompress = Held + Loaded /\ Held + Loaded <= BlockSizeLimit
    BY <1>2, <1>3, <1>4, CStreamAssumption
  <1>6. call.op # "e_continue" => Loaded = 0 /\ call.avail = 0
    BY <1>2, <1>3, CallFields
  <1>7. inToCompress < inBuffTarget /\ (pledged => inToCompress = 0 /\ inBuffTarget = 1)
    BY <1>1 DEF Kept, StagesKept
  <1>8. /\ call.op = "e_continue" => FilledTo >= inBuffTarget
        /\ call.op = "e_flush" => FilledTo # inToCompress
        /\ call.op \in {"e_continue", "e_flush", "e_end"}
    BY <1>1, <1>2, <1>3, <1>4, CallFields DEF LoadStops, Pipe!Directives
  <1>9. Held + Loaded = 0 => call.op = "e_end"
    BY <1>2, <1>3, <1>4, <1>5, <1>7, <1>8
  <1>10. pledged => FilledTo <= inToCompress
    BY <1>1, <1>2, <1>3, <1>4 DEF Overrun
  <1>11. pledged => Held = 0 /\ Loaded = 0 /\ FilledTo = 0
    BY <1>2, <1>3, <1>4, <1>7, <1>10
  <1> QED
    BY <1>1, <1>3, <1>4, <1>5, <1>6, <1>9, <1>11

\* The block that is prepared has room for a byte, and starts over at 0 when the frame
\* is pledged.
LEMMA NextBlockKept ==
  ASSUME IInv, Kept, CompressBlock
  PROVE  /\ Held' = 0 /\ inToCompress' < inBuffTarget' /\ blockSizeMax' = blockSizeMax
         /\ pledged => blockSizeMax = 1 /\ inToCompress' = 0 /\ inBuffTarget' = 1
  <1>1. streamStage = "zcss_load" /\ PrepareNextBlock /\ blockSizeMax' = blockSizeMax
    BY DEF CompressBlock, InLoop
  <1>2. blockSizeMax \in Nat \ {0}
    BY <1>1, CStreamAssumption DEF IInv, TypeOK, Buffers
  <1>3. PICK pos \in Nat, target \in Nat :
          /\ inBuffPos' = pos /\ inToCompress' = pos /\ inBuffTarget' = target
          /\ target = pos + blockSizeMax
    BY <1>1, NextBlockFits
  <1>4. Held' = 0
    BY <1>3 DEF Held
  <1>5. pledged => blockSizeMax = 1 /\ FilledTo = 0
    BY <1>1, BlockIsFed DEF Kept, StagesKept
  <1>6. pledged => pos = 0
    BY <1>1, <1>3, <1>5 DEF PrepareNextBlock
  <1> QED
    BY <1>1, <1>2, <1>3, <1>4, <1>5, <1>6

\* The two ends of CompressBlock: straight into the output buffer, or into outBuff.
LEMMA BlockIsCoded ==
  ASSUME IInv, Kept, CompressBlock
  PROVE  /\ call'.running /\ call'.op = call.op /\ call'.given = call.given
         /\ call'.room = call.room /\ call'.entry = call.entry
         /\ call'.avail = call.avail - Loaded
         /\ (frameEnded' <=> call.op = "e_end")
         /\ \E cSize \in Nat \ {0} :
              \/ /\ call.left >= CompressBound(Held + Loaded)
                 /\ call'.left = call.left - cSize /\ (call'.work <=> call.op # "e_end")
                 /\ Unsent' = 0
                 /\ call.op = "e_end" => streamStage' = "zcss_init" /\ pledged' = FALSE
                 /\ call.op # "e_end" => streamStage' = "zcss_load" /\ pledged' = pledged
              \/ /\ call.left < CompressBound(Held + Loaded)
                 /\ call'.left = call.left /\ call'.work
                 /\ Unsent' = cSize
                 /\ streamStage' = "zcss_flush" /\ pledged' = pledged
  <1> DEFINE iSize     == FilledTo - inToCompress
             avail     == call.avail - Loaded
             lastBlock == call.op = "e_end" /\ avail = 0
             direct    == call.left >= CompressBound(iSize)
  <1>1. iSize = Held + Loaded /\ iSize \in 0 .. BlockSizeLimit
    BY BlockIsFed, CStreamAssumption
  <1>2. (call.op = "e_end" => avail = 0) /\ (lastBlock <=> call.op = "e_end")
    BY BlockIsFed
  <1>3. frameEnded' = lastBlock
    BY DEF CompressBlock
  <1>4. PICK cSize \in 1 .. CompressBound(iSize) :
          \/ /\ direct
             /\ call' = [call EXCEPT !.avail = avail, !.left = @ - cSize, !.work = ~lastBlock]
             /\ IF lastBlock THEN ResetSession ELSE UNCHANGED <<streamStage, pledged>>
             /\ UNCHANGED outVars
          \/ /\ ~direct
             /\ call' = [call EXCEPT !.avail = avail]
             /\ streamStage' = "zcss_flush"
             /\ outBuffContentSize' = cSize
             /\ outBuffFlushedSize' = 0
             /\ UNCHANGED pledged
    BY DEF CompressBlock
  <1>5. cSize \in Nat \ {0} /\ call.left \in Nat /\ CompressBound(iSize) \in Nat
    BY <1>1, <1>4, Bound, CallFields
  <1>6. streamStage = "zcss_load" /\ call.running /\ call.work /\ outBuffContentSize = 0 /\ outBuffFlushedSize = 0
    BY BlockIsFed DEF IInv, Buffers
  <1> HIDE DEF avail, iSize, lastBlock
  <1>7. CASE /\ direct
             /\ call' = [call EXCEPT !.avail = avail, !.left = @ - cSize, !.work = ~lastBlock]
             /\ IF lastBlock THEN ResetSession ELSE UNCHANGED <<streamStage, pledged>>
             /\ UNCHANGED outVars
    <2> DEFINE left == call.left - cSize
               work == ~lastBlock
    <2>1. call' = [call EXCEPT !.avail = avail, !.left = left, !.work = work]
      BY <1>7
    <2> HIDE DEF left, work
    <2>2. /\ call'.running /\ call'.op = call.op /\ call'.given = call.given
          /\ call'.room = call.room /\ call'.entry = call.entry
          /\ call'.avail = avail /\ call'.left = left /\ call'.work = work
      BY <1>6, <2>1, TurnFields, Zenon
    <2>3. Unsent' = 0
      BY <1>6, <1>7 DEF Unsent, outVars
    <2>4. /\ lastBlock => streamStage' = "zcss_init" /\ pledged' = FALSE
          /\ ~lastBlock => streamStage' = "zcss_load" /\ pledged' = pledged
      BY <1>6, <1>7 DEF ResetSession
    <2>5. (call'.work <=> call.op # "e_end") /\ (frameEnded' <=> call.op = "e_end")
      BY <1>2, <1>3, <2>2, Zenon DEF work
    <2> QED
      BY <1>1, <1>2, <1>5, <1>7, <2>2, <2>3, <2>4, <2>5 DEF left, avail
  <1>8. CASE /\ ~direct
             /\ call' = [call EXCEPT !.avail = avail]
             /\ streamStage' = "zcss_flush"
             /\ outBuffContentSize' = cSize
             /\ outBuffFlushedSize' = 0
             /\ UNCHANGED pledged
    <2>1. call' = [call EXCEPT !.avail = avail, !.left = call.left, !.work = call.work]
      BY <1>8 DEF IInv, TypeOK, Calls
    <2>2. /\ call'.running /\ call'.op = call.op /\ call'.given = call.given
          /\ call'.room = call.room /\ call'.entry = call.entry
          /\ call'.avail = avail /\ call'.left = call.left /\ call'.work
      BY <1>6, <2>1, TurnFields, Zenon
    <2>3. Unsent' = cSize
      BY <1>5, <1>8 DEF Unsent
    <2>4. (frameEnded' <=> call.op = "e_end")
      BY <1>2, <1>3, Zenon
    <2> QED
      BY <1>1, <1>5, <1>8, <2>2, <2>3, <2>4 DEF avail
  <1> QED
    BY <1>4, <1>7, <1>8

LEMMA KeptCompressBlock == ASSUME IInv, Kept, CompressBlock PROVE Kept'
  <1>1. PICK cSize \in Nat \ {0} :
          \/ /\ call.left >= CompressBound(Held + Loaded)
             /\ call'.left = call.left - cSize /\ (call'.work <=> call.op # "e_end")
             /\ Unsent' = 0
             /\ call.op = "e_end" => streamStage' = "zcss_init" /\ pledged' = FALSE
             /\ call.op # "e_end" => streamStage' = "zcss_load" /\ pledged' = pledged
          \/ /\ call.left < CompressBound(Held + Loaded)
             /\ call'.left = call.left /\ call'.work
             /\ Unsent' = cSize
             /\ streamStage' = "zcss_flush" /\ pledged' = pledged
    BY BlockIsCoded
  <1>2. /\ call'.running /\ call'.op = call.op /\ call'.given = call.given
        /\ call'.room = call.room /\ call'.entry = call.entry
        /\ call'.avail = call.avail - Loaded
        /\ (frameEnded' <=> call.op = "e_end")
    BY BlockIsCoded
  <1>3. /\ streamStage = "zcss_load" /\ call.running /\ call.work
        /\ Held \in Nat /\ Loaded \in Nat
        /\ Held + Loaded <= BlockSizeLimit
        /\ Held + Loaded = 0 => call.op = "e_end"
        /\ call.op # "e_continue" => Loaded = 0 /\ call.avail = 0
        /\ pledged => call.op = "e_end" /\ Held = 0 /\ Loaded = 0
    BY BlockIsFed
  <1>4. /\ Held' = 0 /\ inToCompress' < inBuffTarget' /\ blockSizeMax' = blockSizeMax
        /\ pledged => blockSizeMax = 1 /\ inToCompress' = 0 /\ inBuffTarget' = 1
    BY NextBlockKept
  <1>5. /\ call.given \in Nat /\ call.avail \in Nat /\ call.room \in Nat /\ call.left \in Nat
        /\ call.entry.held \in Nat /\ call.entry.unsent \in Nat
        /\ pledged \in BOOLEAN /\ Unsent = 0
    BY <1>3, CallFields, EntryFields DEF IInv, TypeOK, Buffers, Unsent
  <1>6. ~Closing /\ ~call.entry.closing /\ (call.entry.pledged => pledged)
    <2>1. ~Closing
      BY <1>3 DEF Closing
    <2>2. ~call.entry.closing
      BY <1>3, <2>1 DEF Kept, Directive
    <2>3. call.entry.pledged => pledged
      BY <1>3, Zenon DEF Kept, Pledge
    <2> QED
      BY <2>1, <2>2, <2>3
  <1>7. Read' = Read + Loaded /\ Coded' = Coded + Held + Loaded /\ Read \in Int /\ Coded \in Int
    BY <1>2, <1>3, <1>4, <1>5 DEF Read, Coded
  <1>8. Made' = Made + cSize /\ Made \in Int
    BY <1>1, <1>2, <1>5 DEF Made, Wrote
  <1>9. Coded >= 0 /\ Made >= 0
    BY <1>3 DEF Kept, Balance
  <1>10. /\ streamStage' # "zcss_init" => pledged' = pledged
         /\ streamStage' = "zcss_init" => call.op = "e_end" /\ pledged' = FALSE /\ ~call'.work
         /\ streamStage' = "zcss_flush" => Unsent' > 0 /\ call'.work /\ call.left < CompressBound(Held + Loaded)
         /\ streamStage' = "zcss_load" => call.op # "e_end" /\ call'.work
         /\ streamStage' \in Stages
    <2>1. CASE /\ call.left >= CompressBound(Held + Loaded)
               /\ call'.left = call.left - cSize /\ (call'.work <=> call.op # "e_end")
               /\ Unsent' = 0
               /\ call.op = "e_end" => streamStage' = "zcss_init" /\ pledged' = FALSE
               /\ call.op # "e_end" => streamStage' = "zcss_load" /\ pledged' = pledged
      BY <2>1 DEF Stages
    <2>2. CASE /\ call.left < CompressBound(Held + Loaded)
               /\ call'.left = call.left /\ call'.work
               /\ Unsent' = cSize
               /\ streamStage' = "zcss_flush" /\ pledged' = pledged
      <3>1. Unsent' > 0
        BY <2>2
      <3> QED
        BY <2>2, <3>1 DEF Stages
    <2> QED
      BY <1>1, <2>1, <2>2
  <1>11. Closing' <=> (streamStage' = "zcss_flush" /\ call.op = "e_end")
    BY <1>2, Zenon DEF Closing
  <1>12. StagesKept'
    BY <1>2, <1>3, <1>4, <1>5, <1>10 DEF StagesKept
  <1>13. Entered'
    BY <1>2, <1>3 DEF Kept, Entered
  <1>14. Balance'
    <2>1. Coded' >= 0 /\ Made' >= 0 /\ Made' > 0
      BY <1>1, <1>3, <1>7, <1>8, <1>9
    <2>2. Coded' = 0 => Held + Loaded = 0
      BY <1>3, <1>7, <1>9
    <2>3. call.op = "e_end" => Closing' \/ streamStage' = "zcss_init"
      BY <1>10, <1>11 DEF Stages
    <2>4. Coded' = 0 => call'.op = "e_end" /\ (Closing' \/ streamStage' = "zcss_init")
      BY <1>2, <1>3, <2>2, <2>3
    <2> QED
      BY <2>1, <2>4, Zenon DEF Balance
  <1>15. Pledge'
    <2>1. pledged => Read' = Read /\ Held' = Held
      BY <1>3, <1>4, <1>7
    <2>2. pledged' = (streamStage' # "zcss_init"
                       /\ (call.entry.pledged \/ (~call.entry.open /\ call.op = "e_end")))
      BY <1>3, <1>5, <1>10, Zenon DEF Kept, Pledge
    <2>3. call.entry.pledged \/ pledged' => pledged
      BY <1>6, <1>10
    <2> QED
      BY <1>2, <1>3, <2>1, <2>2, <2>3, Zenon DEF Kept, Pledge
  <1>16. RoomIsEnough'
    <2> SUFFICES ASSUME call.entry.unsent = 0, call.given = 0,
                        call.room >= CompressBound(BlockSizeLimit) + 1
                 PROVE  /\ streamStage' # "zcss_flush"
                        /\ call'.work => call'.op = "e_flush" /\ Held' = 0
      BY <1>2 DEF RoomIsEnough
    <2>1. call.op # "e_continue"
      BY <1>3, CStreamAssumption DEF Kept, Entered, Pipe!Inputs
    <2>2. ~(call.op = "e_flush" /\ Held = 0)
      BY <1>3, <2>1
    <2>3. call.left = call.room
      BY <1>3, <2>2 DEF Kept, RoomIsEnough
    <2>4. call.left >= CompressBound(Held + Loaded)
      BY <1>3, <1>5, <2>3, Bound, BoundNat, CStreamAssumption
    <2>5. streamStage' # "zcss_flush"
      BY <1>3, <1>5, <1>10, <2>4, Bound, CStreamAssumption
    <2>6. call'.work => call.op = "e_flush"
      BY <1>10, <2>1, <2>5, CallFields DEF Stages, Pipe!Directives
    <2> QED
      BY <1>2, <1>4, <2>5, <2>6
  <1>17. Directive'
    <2>1. Made' > 0
      BY <1>8, <1>9
    <2>2. call.op # "e_end" => streamStage' # "zcss_init" /\ ~Closing'
      BY <1>10, <1>11, Zenon
    <2> QED
      BY <1>2, <1>6, <2>1, <2>2, Zenon DEF Directive
  <1>18. Stopped'
    BY <1>10 DEF Stopped
  <1> QED
    BY <1>2, <1>12, <1>13, <1>14, <1>15, <1>16, <1>17, <1>18 DEF Kept

\* Nothing is claimed of a call between two calls.
LEMMA KeptAtRest ==
  ASSUME IInv, Kept, ~call'.running,
         UNCHANGED <<streamStage, frameEnded, blockSizeMax, inToCompress, inBuffTarget, outVars>>,
         streamStage # "zcss_init" => pledged' = pledged
  PROVE  Kept'
  BY DEF Kept, StagesKept, Unsent, outVars

LEMMA KeptNext == ASSUME IInv, Kept, [Next]_vars PROVE Kept'
  <1>1. ASSUME NEW op \in Pipe!Directives, NEW room \in Rooms, NEW given \in Pipe!Inputs(op),
               BeginCall(op, given, room)
        PROVE  Kept'
    BY <1>1, KeptBegin
  <1>2. ASSUME NEW op \in Pipe!Directives, NEW room \in Rooms, NEW given \in Pipe!Inputs(op),
               BeginFails(op, given, room)
        PROVE  Kept'
    BY <1>2, KeptAtRest DEF BeginFails, inVars
  <1>3. CASE EndDirectly
    BY <1>3, KeptEndDirectly
  <1>4. CASE Load
    BY <1>4, KeptLoad
  <1>5. CASE BlockFails
    BY <1>5, KeptAtRest DEF BlockFails, Idle, frameVars
  <1>6. CASE CompressBlock
    BY <1>6, KeptCompressBlock
  <1>7. CASE Flush
    BY <1>7, KeptFlush
  <1>8. CASE EndCall
    BY <1>8, KeptAtRest DEF EndCall, Idle, frameVars, inVars
  <1>9. CASE UNCHANGED vars
    BY <1>9 DEF vars, frameVars, inVars, outVars, Kept, StagesKept, Entered, Balance, Pledge,
                RoomIsEnough, Directive, Stopped, Closing, Read, Wrote, Coded, Made, Held, Unsent
  <1> QED
    BY <1>1, <1>2, <1>3, <1>4, <1>5, <1>6, <1>7, <1>8, <1>9 DEF Next, Turn

-----------------------------------------------------------------------------
(***************************************************************************)
(* The steps of the contract.  Seen is what Pipe sees of the context.      *)
(***************************************************************************)
Seen == IF call.running THEN call.entry ELSE Context

LEMMA BeginCallStutters ==
  ASSUME NEW op, NEW given, NEW room, BeginCall(op, given, room)
  PROVE  UNCHANGED <<Seen, last>>
  BY DEF BeginCall, Seen

LEMMA TurnStutters ==
  ASSUME IInv, Kept, EndDirectly \/ Load \/ CompressBlock \/ Flush
  PROVE  UNCHANGED <<Seen, last>>
  <1>1. call.running /\ call'.running /\ call'.entry = call.entry /\ last' = last
    <2>1. CASE EndDirectly
      BY <2>1 DEF EndDirectly, InLoop, IInv, TypeOK, Calls
    <2>2. CASE Load
      BY <2>2 DEF Load, InLoop, IInv, TypeOK, Calls
    <2>3. CASE CompressBlock
      BY <2>3, BlockIsCoded, BlockIsFed DEF CompressBlock
    <2>4. CASE Flush
      BY <2>4 DEF Flush, InLoop, IInv, TypeOK, Calls
    <2> QED
      BY <2>1, <2>2, <2>3, <2>4
  <1> QED
    BY <1>1 DEF Seen

\* What the loop has done when it stops is what the contract promises.
LEMMA EndCallKeepsPromise ==
  ASSUME IInv, Kept, EndCall
  PROVE  Pipe!Call(call.op, call.given, call.room)
  <1>1. call.running /\ ~call.work /\ call' = Idle /\ UNCHANGED <<frameVars, inVars, outVars>>
    BY DEF EndCall
  <1>2. Seen = call.entry /\ Seen' = Context
    BY <1>1 DEF Seen, Idle, Context, Held, Unsent, Closing, frameVars, inVars, outVars
  <1>3. Context \in Pipe!PipeState
    BY ContextIsPipe
  <1>4. Read \in 0 .. call.given /\ Wrote \in 0 .. call.room
    BY CallFields DEF Read, Wrote
  <1>5. last' = [op |-> call.op, given |-> call.given, room |-> call.room,
                 read |-> Read, wrote |-> Wrote, failed |-> FALSE, ret |-> Context.unsent]
    BY DEF EndCall, Read, Wrote, Context
  <1>6. Pipe!Promise(call.entry, call.op, call.given, call.room, Context, Read, Wrote)
    <2>1. /\ Context.held = Held /\ Context.unsent = Unsent /\ Context.open = (streamStage # "zcss_init")
          /\ Context.closing = Closing /\ Context.pledged = pledged
      BY DEF Context
    <2>2. /\ Held \in Nat /\ Unsent \in Nat /\ call.entry.unsent \in Nat /\ call.entry.held \in Nat
          /\ call.given \in Nat /\ call.room \in Nat /\ call.avail \in Nat /\ call.left \in Nat
          /\ call.op \in {"e_continue", "e_flush", "e_end"}
          /\ call.op # "e_continue" => call.given = 0 /\ call.avail = 0
      BY EntryFields, CallFields DEF Pipe!Directives, IInv, Arguments
    <2>3. /\ streamStage \in {"zcss_init", "zcss_load", "zcss_flush"}
          /\ streamStage = "zcss_flush" => Unsent > 0 /\ Held = 0 /\ call.left = 0
          /\ streamStage # "zcss_flush" => Unsent = 0
          /\ streamStage = "zcss_init" => Held = 0
          /\ Closing => streamStage = "zcss_flush"
          /\ streamStage = "zcss_load" => \/ call.op = "e_continue" /\ call.avail = 0
                                          \/ call.op = "e_flush" /\ Held = 0
      BY <1>1 DEF IInv, TypeOK, Stages, Buffers, ClosedFrameIsEmpty, Held, Unsent, Closing,
                  Kept, StagesKept, Stopped
    <2>4. /\ call.left = 0 => Wrote = call.room
          /\ call.avail = 0 => Read = call.given
      BY <2>2 DEF Read, Wrote
    <2>5. Balance /\ Pledge /\ RoomIsEnough /\ Directive
      BY <1>1 DEF Kept
    <2> DEFINE coded == call.entry.held + Read - Context.held
               made  == Context.unsent + Wrote - call.entry.unsent
    <2>6. coded = Coded /\ made = Made
      BY <2>1 DEF Coded, Made
    <2> HIDE DEF coded, made
    <2>7. /\ coded >= 0 /\ made >= 0 /\ (coded > 0 => made > 0)
          /\ made > 0 /\ coded = 0 => call.op = "e_end" /\ (Context.closing \/ ~Context.open)
      BY <2>1, <2>5, <2>6 DEF Balance
    <2>8. /\ Context.unsent > 0 => Wrote = call.room
          /\ Context.closing => Context.open /\ Context.unsent > 0 /\ Context.held = 0
      <3>1. Unsent > 0 => Wrote = call.room
        BY <2>2, <2>3, <2>4
      <3>2. Closing => streamStage # "zcss_init" /\ Unsent > 0 /\ Held = 0
        BY <2>3
      <3> QED
        BY <2>1, <3>1, <3>2, Zenon
    <2>9. call.entry.unsent = 0 /\ call.given = 0 /\ call.room >= CompressBound(BlockSizeLimit) + 1
            => Context.unsent = 0
      BY <2>1, <2>3, <2>5 DEF RoomIsEnough
    <2>10. call.entry.pledged => Read = 0 /\ coded = 0
      BY <2>2, <2>5, <2>6 DEF Pledge, Coded
    <2>11. Context.pledged = (Context.open /\ (call.entry.pledged \/ (~call.entry.open /\ call.op = "e_end")))
      BY <2>1, <2>5, Zenon DEF Pledge
    <2>12. Context.open <=> streamStage # "zcss_init"
      BY <2>1, Zenon
    <2>13. call.entry.closing =>
             /\ Read = 0 /\ made = 0 /\ Context.held = call.entry.held
             /\ Context.open = (Context.unsent > 0)
             /\ Context.closing = Context.open
      <3> SUFFICES ASSUME call.entry.closing
                   PROVE  /\ Read = 0 /\ made = 0 /\ Context.held = call.entry.held
                          /\ Context.open = (Context.unsent > 0)
                          /\ Context.closing = Context.open
        OBVIOUS
      <3>1. Read = 0 /\ made = 0 /\ Context.held = call.entry.held
        BY <2>1, <2>5, <2>6 DEF Directive
      <3>2. Closing \/ streamStage = "zcss_init"
        BY <2>5 DEF Directive
      <3>3. CASE Closing
        BY <2>1, <2>2, <2>3, <3>1, <3>3 DEF Closing
      <3>4. CASE streamStage = "zcss_init"
        BY <2>1, <2>2, <2>3, <3>1, <3>4 DEF Closing
      <3> QED
        BY <3>2, <3>3, <3>4
    <2>14. ~call.entry.closing /\ call.op = "e_continue" =>
             /\ Read < call.given => Wrote = call.room
             /\ Context.open /\ ~Context.closing
      <3>1. call.op = "e_continue" /\ Read < call.given /\ streamStage # "zcss_init" => Wrote = call.room
        BY <2>2, <2>3, <2>4 DEF Read
      <3>2. ~call.entry.closing /\ call.op = "e_continue" => streamStage # "zcss_init" /\ ~Closing
        BY <2>5 DEF Directive
      <3> QED
        BY <2>1, <3>1, <3>2, Zenon
    <2>15. ~call.entry.closing /\ call.op = "e_flush" =>
             /\ Context.unsent = 0 => Context.held = 0 /\ Read = call.given
             /\ Context.open /\ ~Context.closing
      BY <2>1, <2>2, <2>3, <2>4, <2>5 DEF Directive
    <2>16. ~call.entry.closing /\ call.op = "e_end" =>
             /\ Context.unsent = 0 => Context.held = 0 /\ Read = call.given /\ made > 0
             /\ Context.open = (Context.unsent > 0)
      <3> SUFFICES ASSUME ~call.entry.closing, call.op = "e_end"
                   PROVE  /\ Context.unsent = 0 => Context.held = 0 /\ Read = call.given /\ made > 0
                          /\ Context.open = (Context.unsent > 0)
        OBVIOUS
      <3>1. CASE streamStage = "zcss_flush"
        BY <2>1, <2>2, <2>3, <3>1
      <3>2. CASE streamStage = "zcss_init"
        BY <2>1, <2>2, <2>3, <2>4, <2>5, <2>6, <3>2 DEF Directive
      <3> QED
        BY <2>3, <3>1, <3>2
    <2> QED
      BY <2>7, <2>8, <2>9, <2>10, <2>11, <2>13, <2>14, <2>15, <2>16 DEF Pipe!Promise, coded, made
  <1> QED
    BY <1>2, <1>3, <1>4, <1>5, <1>6 DEF Pipe!Call, Seen

LEMMA BeginFailsIsFailure ==
  ASSUME IInv, NEW op \in Pipe!Directives, NEW room \in Rooms, NEW given \in Pipe!Inputs(op),
         BeginFails(op, given, room)
  PROVE  Pipe!CallFails(op, given, room)
  <1>1. /\ ~call.running /\ ~call'.running /\ streamStage = "zcss_init"
        /\ last' = Failed(op, given, room)
        /\ pledged' \in {pledged, pledged \/ op = "e_end"}
        /\ UNCHANGED <<streamStage, frameEnded, inVars, outVars>>
    BY DEF BeginFails
  <1>2. Seen = Context /\ Seen' = Context'
    BY <1>1 DEF Seen
  <1>3. Context \in Pipe!PipeState /\ Context.open = FALSE /\ Context.pledged = pledged
    BY <1>1, ContextIsPipe DEF Context
  <1>4. Context' = [Context EXCEPT !.pledged = pledged']
    BY <1>1 DEF Context, Held, Unsent, Closing, inVars, outVars
  <1>5. pledged' \in BOOLEAN
    BY <1>1 DEF IInv, TypeOK
  <1>6. Context' \in Pipe!PipeState
    BY <1>3, <1>4, <1>5 DEF Pipe!PipeState
  <1>7. Context' \in {Context, [Context EXCEPT !.pledged = Context.pledged \/ op = "e_end"]}
    <2>1. CASE pledged' = pledged
      BY <1>3, <1>4, <2>1 DEF Pipe!PipeState
    <2>2. CASE pledged' = (pledged \/ op = "e_end")
      BY <1>3, <1>4, <2>2, Zenon
    <2> QED
      BY <1>1, <2>1, <2>2
  <1>8. Pipe!Failure(Context, op, given, Context')
    BY <1>3, <1>7 DEF Pipe!Failure
  <1> QED
    BY <1>1, <1>2, <1>6, <1>8 DEF Pipe!CallFails, Failed, Seen

LEMMA BlockFailsIsFailure ==
  ASSUME IInv, Kept, IInv', BlockFails
  PROVE  Pipe!CallFails(call.op, call.given, call.room)
  <1>1. /\ call.running /\ call.work /\ ~call'.running /\ streamStage = "zcss_load"
        /\ pledged /\ FilledTo > inToCompress /\ inBuffPos' = FilledTo
        /\ last' = Failed(call.op, call.given, call.room)
        /\ UNCHANGED <<streamStage, frameEnded, pledged, inToCompress, outVars>>
    BY DEF BlockFails, InLoop, Idle, Overrun, frameVars
  <1>2. Seen = call.entry /\ Seen' = Context'
    BY <1>1 DEF Seen
  <1>3. /\ inToCompress = 0 /\ inBuffTarget = 1 /\ Read = 0 /\ Held = call.entry.held
        /\ call.entry.pledged \/ (~call.entry.open /\ call.op = "e_end")
    BY <1>1 DEF Kept, StagesKept, Pledge
  <1>4. inBuffPos \in Nat /\ Loaded \in Nat /\ Loaded <= call.avail /\ FilledTo = inBuffPos + Loaded
    BY <1>1, LoadFits, CallFields DEF FilledTo, IInv, TypeOK
  <1>5. FilledTo = 1 /\ inBuffPos = call.entry.held /\ call.entry.held + Loaded = 1
    BY <1>1, <1>3, <1>4, LoadFits DEF Held
  <1>6. call.given = call.avail
    BY <1>3, CallFields DEF Read
  <1>7. call.entry.pledged /\ call.entry.held + call.given > 0
    <2>1. call.entry.held + call.given > 0
      BY <1>4, <1>5, <1>6, CallFields, EntryFields
    <2>2. ~(~call.entry.open /\ call.op = "e_end")
      BY <1>1, <2>1, CallFields DEF Kept, Entered, IInv, Arguments
    <2> QED
      BY <1>3, <2>1, <2>2
  <1>8. ~call.entry.closing /\ call.entry.unsent = 0
    <2>1. ~call.entry.closing
      BY <1>1 DEF Kept, Directive, Closing
    <2> QED
      BY <1>1, <1>7, <2>1 DEF Kept, Entered
  <1>9. Context' = [held |-> 1, unsent |-> 0, open |-> TRUE, closing |-> FALSE, pledged |-> TRUE]
    <2>1. Held' = 1 /\ Unsent' = 0
      BY <1>1, <1>3, <1>5 DEF Held, Unsent, outVars, IInv, Buffers
    <2>2. pledged' = TRUE /\ Closing' = FALSE /\ (streamStage' # "zcss_init") = TRUE
      BY <1>1 DEF Closing, IInv, TypeOK
    <2> QED
      BY <2>1, <2>2 DEF Context
  <1>10. Context' \in Pipe!PipeState /\ call.entry \in Pipe!PipeState
    BY <1>9, BoundNat, CStreamAssumption DEF Pipe!PipeState, IInv, TypeOK, Calls
  <1>11. Context' = [call.entry EXCEPT !.open = TRUE, !.held = 1]
    <2>1. ASSUME NEW p \in Pipe!PipeState, NEW q \in Pipe!PipeState, q.held = 1, q.open,
                 q.unsent = p.unsent, q.closing = p.closing, q.pledged = p.pledged
          PROVE  q = [p EXCEPT !.open = TRUE, !.held = 1]
      BY <2>1 DEF Pipe!PipeState
    <2>2. call.entry.closing = FALSE /\ call.entry.pledged = TRUE
      BY <1>7, <1>8, EntryFields
    <2>3. /\ Context'.held = 1 /\ Context'.unsent = 0 /\ Context'.open
          /\ Context'.closing = FALSE /\ Context'.pledged = TRUE
      BY <1>9
    <2> HIDE DEF Context
    <2> QED
      BY <1>8, <1>10, <2>1, <2>2, <2>3, Zenon
  <1>12. Pipe!Failure(call.entry, call.op, call.given, Context')
    BY <1>7, <1>8, <1>11 DEF Pipe!Failure
  <1> QED
    BY <1>1, <1>2, <1>10, <1>12 DEF Pipe!CallFails, Failed, Seen

LEMMA StepKeepsContract ==
  ASSUME IInv, Kept, IInv', [Next]_vars
  PROVE  [Pipe!PipeNext]_(Pipe!pipeVars)
  <1>1. ASSUME UNCHANGED <<Seen, last>>
        PROVE  UNCHANGED Pipe!pipeVars
    BY <1>1 DEF Seen, Pipe!pipeVars
  <1>2. ASSUME NEW op \in Pipe!Directives, NEW room \in Rooms, NEW given \in Pipe!Inputs(op),
               BeginCall(op, given, room)
        PROVE  UNCHANGED Pipe!pipeVars
    BY <1>1, <1>2, BeginCallStutters
  <1>3. ASSUME NEW op \in Pipe!Directives, NEW room \in Rooms, NEW given \in Pipe!Inputs(op),
               BeginFails(op, given, room)
        PROVE  Pipe!PipeNext
    BY <1>3, BeginFailsIsFailure DEF Pipe!PipeNext
  <1>4. CASE EndDirectly \/ Load \/ CompressBlock \/ Flush
    BY <1>1, <1>4, TurnStutters
  <1>5. ASSUME call.running
        PROVE  call.op \in Pipe!Directives /\ call.room \in Rooms /\ call.given \in Pipe!Inputs(call.op)
    BY <1>5, CallFields DEF Kept, Entered
  <1>6. CASE BlockFails
    BY <1>5, <1>6, BlockFailsIsFailure DEF Pipe!PipeNext, BlockFails, InLoop
  <1>7. CASE EndCall
    BY <1>5, <1>7, EndCallKeepsPromise DEF Pipe!PipeNext, EndCall
  <1>8. CASE UNCHANGED vars
    <2>1. UNCHANGED <<Seen, last>>
      BY <1>8 DEF vars, frameVars, inVars, outVars, Seen, Context, Held, Unsent, Closing
    <2> QED
      BY <1>1, <2>1
  <1> QED
    BY <1>2, <1>3, <1>4, <1>6, <1>7, <1>8 DEF Next, Turn

(* Every behaviour of the loop is one of the contract: a call loses no     *)
(* input and codes none of it twice, keeps coded bytes back only for want  *)
(* of room, and a flush or an end that returns 0 leaves nothing behind, a  *)
(* failed call included.                                                   *)
THEOREM ContractIsKept == Spec => ImplementsPipe
  <1>1. Init => Kept /\ Pipe!PipeInit
    BY KeptInit DEF Init
  <1>2. IInv /\ Kept /\ [Next]_vars => Kept'
    BY KeptNext
  <1>3. IInv /\ IInv' /\ Kept /\ [Next]_vars => [Pipe!PipeNext]_(Pipe!pipeVars)
    BY StepKeepsContract
  <1>4. Spec => []IInv
    BY Inductive
  <1> QED
    BY <1>1, <1>2, <1>3, <1>4, PTL DEF Spec, ImplementsPipe, Pipe!PipeSpec

=============================================================================

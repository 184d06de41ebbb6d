------------------------------ MODULE DStream ------------------------------
(***************************************************************************)
(* ZSTD_decompressStream() of libzstd/decompress/zstd_decompress.c, with   *)
(* buffered output, as the gem runs it.  The variables are the fields of   *)
(* ZSTD_DCtx that carry a streaming session, the local variables of the    *)
(* call in progress, and where in the text the decoder is.  BeginCall is   *)
(* the entry of the function, every turn of its while loop one action (two *)
(* where a stage falls through into the next) and EndCall what follows the *)
(* loop.  Bytes of content are numbered from 1 through the whole text, and *)
(* outBuff holds those numbers; what blocks look like is abstracted to     *)
(* their sizes.                                                            *)
(***************************************************************************)
EXTENDS Integers, Sequences

CONSTANTS
  Frames,                 \* the frames of the text, see Frame
  HeaderMin,              \* ZSTD_startingInputLength()
  BlockHeaderSize,        \* ZSTD_blockHeaderSize
  ChecksumSize,           \* 4
  BlockSizeLimit,         \* ZSTD_BLOCKSIZE_MAX
  WindowMin,              \* 1 << ZSTD_WINDOWLOG_ABSOLUTEMIN
  Overlength,             \* WILDCOPY_OVERLENGTH
  NoForwardProgressMax,   \* ZSTD_NO_FORWARD_PROGRESS_MAX
  Chunks,                 \* sizes of input a caller presents
  Rooms                   \* sizes of output buffer a caller presents

Smaller(a, b) == IF a <= b THEN a ELSE b
Larger(a, b)  == IF a >= b THEN a ELSE b

\* A block that is not raw decodes all at once.  It lies behind from bytes of its
\* frame, and before bytes of content.
Block == [raw : BOOLEAN, csize : Nat, rsize : Nat, from : Nat, before : Nat]

\* The bytes of a header from at on read as a skippable frame of this size.
Lookalike == [at : Nat \ {0}, size : Nat \ {0}]

\* What the header of a frame says; content is its frameContentSize, if it is
\* declared, and for a skippable frame the length of what is to be skipped.  It
\* lies behind from bytes of the text, and before bytes of content.
Frame == [skippable : BOOLEAN, header : Nat, declared : BOOLEAN, content : Nat,
          window : Nat, checksum : BOOLEAN, blocks : Seq(Block), from : Nat, before : Nat,
          inside : SUBSET Lookalike]

ASSUME DStreamAssumption ==
  /\ Frames \in Seq(Frame)
  /\ HeaderMin \in Nat \ {0} /\ BlockHeaderSize \in Nat \ {0}
  /\ ChecksumSize \in Nat /\ BlockHeaderSize <= ChecksumSize
  /\ BlockSizeLimit \in Nat \ {0} /\ WindowMin \in Nat /\ Overlength \in Nat
  /\ NoForwardProgressMax \in Nat \ {0}
  /\ Chunks \subseteq Nat /\ Rooms \subseteq Nat

\* fParams.blockSizeMax of a frame
BlockSizeMax(f) == IF f.skippable THEN 0 ELSE Smaller(f.window, BlockSizeLimit)

\* Where a block and a frame end, in its frame and in the text, ...
BlockStop(b) == b.from + BlockHeaderSize + b.csize
BlocksEnd(f) == IF f.blocks = <<>> THEN f.header ELSE BlockStop(f.blocks[Len(f.blocks)])
FrameSize(f) ==
  BlocksEnd(f) + IF f.skippable THEN f.content ELSE IF f.checksum THEN ChecksumSize ELSE 0
FrameStop(f) == f.from + FrameSize(f)

\* ... and the content up to there.
ContentOf(f)   == IF f.skippable THEN 0 ELSE f.content
ContentStop(f) == f.before + ContentOf(f)

\* Where the frame with this number begins, and the content before it.
FrameFrom(k)   == IF k = 1 THEN 0 ELSE FrameStop(Frames[k - 1])
FrameBefore(k) == IF k = 1 THEN 0 ELSE ContentStop(Frames[k - 1])

\* Frames that the decoder accepts, with blocks that lie one behind the other.
ASSUME BlocksAssumption ==
  \A k \in DOMAIN Frames :
    LET f == Frames[k]
    IN  /\ f.header >= HeaderMin /\ f.header > 1
        /\ f.skippable => f.blocks = <<>>
        /\ ~f.skippable =>
             /\ f.blocks # <<>>
             /\ f.blocks[1].from = f.header /\ f.blocks[1].before = 0
             /\ f.content = f.blocks[Len(f.blocks)].before + f.blocks[Len(f.blocks)].rsize
        /\ \A i \in DOMAIN f.blocks :
             LET b == f.blocks[i]
             IN  /\ b.csize <= BlockSizeMax(f) /\ b.rsize <= BlockSizeMax(f)
                 /\ b.raw => b.csize = b.rsize
                 /\ b.csize = 0 => b.raw
                 /\ i > 1 => /\ b.from = BlockStop(f.blocks[i - 1])
                             /\ b.before = f.blocks[i - 1].before + f.blocks[i - 1].rsize
                 /\ f.header <= b.from /\ BlockStop(b) <= BlocksEnd(f) /\ b.before + b.rsize <= f.content
                 /\ \A j \in DOMAIN f.blocks : i < j =>
                      BlockStop(b) <= f.blocks[j].from /\ b.before + b.rsize <= f.blocks[j].before

\* Frames, one behind the other too.
ASSUME FramesAssumption ==
  \A k \in DOMAIN Frames :
    /\ Frames[k].from = FrameFrom(k) /\ Frames[k].before = FrameBefore(k)
    /\ \A j \in DOMAIN Frames : k < j =>
         FrameStop(Frames[k]) <= Frames[j].from /\ ContentStop(Frames[k]) <= Frames[j].before

\* No header holds bytes that read as a frame: its fields could, as the ID of a dictionary
\* that is the magic number of a skippable frame, and the shortcut of zdss_loadHeader
\* would take them for one when the text is cut in front of them.
ASSUME HeadersAssumption == \A k \in DOMAIN Frames : Frames[k].inside = {}

VARIABLES
  streamStage, stage, expected, lhSize, inPos, inBuffSize,
  outBuff,            \* by slot, the number of the byte of content it holds; 0: none
  outBuffSize, outStart, outEnd, hostageByte, noForwardProgress,
  frame, block,       \* the frame and the block the decoder is at
  decoded, sent,      \* content decoded, and copied to the caller's buffers
  pos, broken,        \* what the caller sees: text consumed; a call has failed
  call,               \* the call in progress: its arguments, iend - ip, oend - op
  last                \* what the last call told its caller

stageVars  == <<streamStage, stage, expected>>
inVars     == <<lhSize, inPos, inBuffSize>>
outVars    == <<outBuff, outBuffSize, outStart, outEnd>>
endVars    == <<hostageByte, noForwardProgress>>
placeVars  == <<frame, block, decoded>>
callerVars == <<pos, broken, last>>
vars == <<stageVars, inVars, outVars, endVars, placeVars, sent, callerVars, call>>

StreamStages == {"zdss_init", "zdss_loadHeader", "zdss_read", "zdss_load", "zdss_flush"}
DStages == {"ZSTDds_getFrameHeaderSize", "ZSTDds_decodeBlockHeader", "ZSTDds_decompressBlock",
            "ZSTDds_decompressLastBlock", "ZSTDds_checkChecksum", "ZSTDds_skipFrame"}

\* The text, as the contract sees it: what can be decoded of a block, of a frame,
\* and of all frames, once n of their bytes are there.
DecodableOfBlock(b, n) ==
  IF n <= BlockHeaderSize THEN 0
  ELSE IF b.raw THEN n - BlockHeaderSize
  ELSE IF n = BlockHeaderSize + b.csize THEN b.rsize ELSE 0
DecodableOfFrame(f, n) ==
  IF f.skippable \/ n <= f.header THEN 0
  ELSE IF n > BlocksEnd(f) THEN f.content
  ELSE LET b == f.blocks[CHOOSE i \in DOMAIN f.blocks :
                           f.blocks[i].from < n /\ n <= BlockStop(f.blocks[i])]
       IN  b.before + DecodableOfBlock(b, n - b.from)

TextSize == FrameFrom(Len(Frames) + 1)
FrameAt(n) == Frames[CHOOSE k \in DOMAIN Frames : Frames[k].from < n /\ n <= FrameStop(Frames[k])]
Text == [n \in 1 .. TextSize |->
           LET f == FrameAt(n)
           IN  [decodable |-> f.before + DecodableOfFrame(f, n - f.from), end |-> FrameStop(f)]]

\* The decoder as its caller sees it between two calls.
Decoder == [pos |-> pos, sent |-> sent, broken |-> broken]

\* The contract this module implements; its decoder changes when a call returns.
Pipe == INSTANCE DecompressPipe WITH
          decoder <- IF call.running THEN call.entry ELSE Decoder

Calls == [running : BOOLEAN, work : BOOLEAN, hint : BOOLEAN, given : Nat, room : Nat,
          avail : Nat, left : Nat, entry : Pipe!DecoderState]

Idle == [running |-> FALSE, work |-> FALSE, hint |-> FALSE, given |-> 0, room |-> 0,
         avail |-> 0, left |-> 0, entry |-> Pipe!Fresh]

Outcomes == [given : Nat, room : Nat, read : Nat, wrote : Nat, failed : BOOLEAN, done : BOOLEAN]

Init ==
  /\ streamStage = "zdss_init" /\ stage = "ZSTDds_getFrameHeaderSize" /\ expected = 0
  /\ lhSize = 0 /\ inPos = 0 /\ inBuffSize = 0
  /\ outBuff = [i \in 0 .. -1 |-> 0] /\ outBuffSize = 0 /\ outStart = 0 /\ outEnd = 0
  /\ hostageByte = FALSE /\ noForwardProgress = 0
  /\ frame = 0 /\ block = 1 /\ decoded = 0 /\ sent = 0
  /\ pos = 0 /\ broken = FALSE
  /\ call = Idle
  /\ Pipe!PipeInit

BeginCall(given, room) ==
  /\ ~call.running
  /\ ~broken
  /\ pos + given <= Len(Text)
  /\ call' = [running |-> TRUE, work |-> TRUE, hint |-> FALSE, given |-> given, room |-> room,
              avail |-> given, left |-> room, entry |-> Decoder]
  /\ UNCHANGED <<stageVars, inVars, outVars, endVars, placeVars, sent, callerVars>>

InLoop(s) == call.running /\ call.work /\ streamStage = s

\* The loop ends; the bytes of input left after it are given.
Stop(avail) == call' = [call EXCEPT !.avail = avail, !.work = FALSE]
GoOn(avail) == call' = [call EXCEPT !.avail = avail]

\* "transparent reset": the next frame.
Restart ==
  /\ InLoop("zdss_init")
  /\ streamStage' = "zdss_loadHeader"
  /\ lhSize' = 0 /\ inPos' = 0 /\ outStart' = 0 /\ outEnd' = 0
  /\ hostageByte' = FALSE
  /\ frame' = frame + 1 /\ block' = 1
  /\ UNCHANGED <<stage, expected, inBuffSize, outBuff, outBuffSize, noForwardProgress, decoded,
                 sent, callerVars, call>>

\* The bytes that are needed to know more of the header: first those that say
\* how long it is.
HeaderSize == IF lhSize < HeaderMin THEN HeaderMin ELSE Frames[frame].header

LoadHeader ==
  LET toLoad == HeaderSize - lhSize
  IN  /\ InLoop("zdss_loadHeader")
      /\ lhSize < HeaderSize
      /\ \/ /\ toLoad > call.avail
            /\ lhSize' = lhSize + call.avail
            /\ call' = [call EXCEPT !.avail = 0, !.work = FALSE, !.hint = TRUE]
         \/ /\ toLoad <= call.avail
            /\ lhSize' = HeaderSize
            /\ GoOn(call.avail - toLoad)
      /\ UNCHANGED <<stageVars, inPos, inBuffSize, outVars, endVars, placeVars, sent, callerVars>>

HeaderComplete == InLoop("zdss_loadHeader") /\ lhSize >= HeaderSize

\* Where in the header the input of this call begins.
CallFrom == lhSize - (call.given - call.avail)

\* Not the code: the size of the frame is found in the middle of its header too.
SizesFoundAnywhere(at) == {FrameSize(Frames[frame])}

\* ZSTD_findFrameCompressedSize() there: the frame, or none unless the header has one inside.
SizesFound(at) ==
  IF at = 0 THEN {FrameSize(Frames[frame])}
  ELSE {look.size : look \in {inner \in Frames[frame].inside : inner.at = at}}

\* Not the code: the shortcut without its look at the output buffer.
WholeFrameHereAnywhere ==
  LET f == Frames[frame]
  IN  /\ ~f.skippable /\ f.declared
      /\ \E size \in SizesFound(CallFrom) : size <= call.given

\* All of the frame is in the input of this call, and its content fits.
WholeFrameHere ==
  LET f == Frames[frame]
  IN  /\ ~f.skippable /\ f.declared
      /\ call.left >= f.content
      /\ \E size \in SizesFound(CallFrom) : size <= call.given

\* The shortcut to single-pass decompression, into the caller's buffer, of what was found.
DecodeWhole ==
  LET content == IF CallFrom = 0 THEN Frames[frame].content ELSE 0
  IN  /\ HeaderComplete
      /\ WholeFrameHere
      /\ \E size \in SizesFound(CallFrom) :
           call' = [call EXCEPT !.avail = call.given - size, !.left = @ - content, !.work = FALSE]
      /\ decoded' = decoded + content
      /\ sent' = sent + content
      /\ expected' = 0
      /\ stage' = "ZSTDds_getFrameHeaderSize"
      /\ streamStage' = "zdss_init"
      /\ UNCHANGED <<inVars, outVars, endVars, frame, block, callerVars>>

RingSize(f, ring) == IF f.declared \/ f.skippable THEN Smaller(f.content, ring) ELSE ring

\* Not the code: a ring of one block less.
SmallBufferSize(f) == RingSize(f, Larger(f.window, WindowMin) + BlockSizeMax(f) + 2 * Overlength)

\* ZSTD_decodingBufferSize_internal(): the window, a block after it, and one
\* for what the block decoder puts down meanwhile; no more than the content.
DecodingBufferSize(f) ==
  RingSize(f, Larger(f.window, WindowMin) + 2 * BlockSizeMax(f) + 2 * Overlength)

\* Buffers too small are replaced; those too large for long may be.
ConsumeHeader ==
  LET f == Frames[frame]
      neededIn  == Larger(BlockSizeMax(f), ChecksumSize)
      neededOut == DecodingBufferSize(f)
      tooSmall  == inBuffSize < neededIn \/ outBuffSize < neededOut
  IN  /\ HeaderComplete
      /\ ~WholeFrameHere
      /\ stage' = IF f.skippable THEN "ZSTDds_skipFrame" ELSE "ZSTDds_decodeBlockHeader"
      /\ expected' = IF f.skippable THEN f.content ELSE BlockHeaderSize
      /\ \/ /\ ~tooSmall
            /\ UNCHANGED <<inBuffSize, outBuff, outBuffSize>>
         \/ /\ inBuffSize' = neededIn
            /\ outBuffSize' = neededOut
            /\ outBuff' = [i \in 0 .. neededOut - 1 |-> 0]
      /\ streamStage' = "zdss_read"
      /\ UNCHANGED <<lhSize, inPos, outStart, outEnd, endVars, placeVars, sent, callerVars, call>>

InBlock == stage \in {"ZSTDds_decompressBlock", "ZSTDds_decompressLastBlock"}
CurrentBlock == Frames[frame].blocks[block]
LastBlock == block = Len(Frames[frame].blocks)

\* Not the code: every block is waited for in full.
NeededForBlock(inputSize) == expected

\* ZSTD_nextSrcSizeToDecompressWithInputSize(): a raw block is taken in parts.
NeededInSize(inputSize) ==
  IF InBlock /\ CurrentBlock.raw
    THEN Larger(1, Smaller(inputSize, expected))
    ELSE expected

\* Where the decoder goes after the last byte of a block.
NextBlock ==
  IF ~LastBlock
    THEN stage' = "ZSTDds_decodeBlockHeader" /\ expected' = BlockHeaderSize /\ block' = block + 1
    ELSE /\ UNCHANGED block
         /\ IF Frames[frame].checksum
              THEN stage' = "ZSTDds_checkChecksum" /\ expected' = ChecksumSize
              ELSE stage' = "ZSTDds_getFrameHeaderSize" /\ expected' = 0

\* ZSTD_decompressContinueStream(): size bytes go from the input into the
\* decoder, and what they yield goes to outBuff.
DecodeBlockHeader ==
  /\ stage = "ZSTDds_decodeBlockHeader"
  /\ IF CurrentBlock.csize = 0
       THEN NextBlock
       ELSE /\ stage' = IF LastBlock THEN "ZSTDds_decompressLastBlock" ELSE "ZSTDds_decompressBlock"
            /\ expected' = CurrentBlock.csize
            /\ UNCHANGED block
  /\ streamStage' = "zdss_read"
  /\ UNCHANGED <<outBuff, outEnd, decoded>>

DecodeBlock(size) ==
  LET decodedSize == IF CurrentBlock.raw THEN size ELSE CurrentBlock.rsize
  IN  /\ InBlock
      /\ outStart + decodedSize <= outBuffSize
      /\ outBuff' = [i \in DOMAIN outBuff |->
                       IF i \in outStart .. outStart + decodedSize - 1
                         THEN decoded + 1 + i - outStart ELSE outBuff[i]]
      /\ decoded' = decoded + decodedSize
      /\ IF decodedSize = 0
           THEN streamStage' = "zdss_read" /\ UNCHANGED outEnd
           ELSE streamStage' = "zdss_flush" /\ outEnd' = outStart + decodedSize
      /\ IF size < expected
           THEN expected' = expected - size /\ UNCHANGED <<stage, block>>
           ELSE NextBlock

CheckChecksum ==
  /\ stage = "ZSTDds_checkChecksum"
  /\ stage' = "ZSTDds_getFrameHeaderSize"
  /\ expected' = 0
  /\ streamStage' = "zdss_read"
  /\ UNCHANGED <<outBuff, outEnd, block, decoded>>

SkipFrame ==
  /\ stage = "ZSTDds_skipFrame"
  /\ stage' = "ZSTDds_getFrameHeaderSize"
  /\ expected' = 0
  /\ streamStage' = "zdss_flush"
  /\ outEnd' = outStart
  /\ UNCHANGED <<outBuff, block, decoded>>

DecompressContinue(size) ==
  /\ DecodeBlockHeader \/ DecodeBlock(size) \/ CheckChecksum \/ SkipFrame
  /\ UNCHANGED <<lhSize, inBuffSize, outBuffSize, outStart, endVars, frame, sent, callerVars>>

\* zdss_read: the end of a frame, ...
ReadEnd ==
  /\ InLoop("zdss_read")
  /\ NeededInSize(call.avail) = 0
  /\ streamStage' = "zdss_init"
  /\ Stop(call.avail)
  /\ UNCHANGED <<stage, expected, inVars, outVars, endVars, placeVars, sent, callerVars>>

\* ... input that is decoded where it is, ...
ReadDirectly ==
  LET needed == NeededInSize(call.avail)
  IN  /\ InLoop("zdss_read")
      /\ needed > 0
      /\ needed <= call.avail
      /\ GoOn(call.avail - needed)
      /\ DecompressContinue(needed)
      /\ UNCHANGED inPos

\* ... or too little of it.
ReadMore ==
  /\ InLoop("zdss_read")
  /\ NeededInSize(call.avail) > call.avail
  /\ IF call.avail = 0
       THEN Stop(0) /\ UNCHANGED streamStage
       ELSE streamStage' = "zdss_load" /\ UNCHANGED call
  /\ UNCHANGED <<stage, expected, inVars, outVars, endVars, placeVars, sent, callerVars>>

\* zdss_load: input is gathered in inBuff until there is enough to decode.
Load ==
  LET toLoad == expected - inPos
  IN  /\ InLoop("zdss_load")
      /\ \/ /\ call.avail < toLoad
            /\ inPos' = inPos + call.avail
            /\ Stop(0)
            /\ UNCHANGED <<stageVars, lhSize, inBuffSize, outVars, endVars, placeVars, sent,
                           callerVars>>
         \/ /\ call.avail >= toLoad
            /\ inPos' = 0
            /\ GoOn(call.avail - toLoad)
            /\ DecompressContinue(expected)

\* Not the code: outBuff starts over before all of it is flushed.
RestartsUnflushed(start) == start + BlockSizeMax(Frames[frame]) > outBuffSize

\* All is flushed and the next block may not fit in what is left of outBuff,
\* unless outBuff holds the whole frame: it starts over.
Restarts(start) ==
  LET f == Frames[frame]
  IN  /\ start = outEnd
      /\ ~((f.declared \/ f.skippable) /\ f.content <= outBuffSize)
      /\ start + BlockSizeMax(f) > outBuffSize

FlushTo(start, work) ==
  /\ InLoop("zdss_flush")
  /\ sent' = sent + (start - outStart)
  /\ call' = [call EXCEPT !.left = @ - (start - outStart), !.work = work]
  /\ streamStage' = IF start = outEnd THEN "zdss_read" ELSE "zdss_flush"
  /\ IF Restarts(start)
       THEN outStart' = 0 /\ outEnd' = 0
       ELSE outStart' = start /\ UNCHANGED outEnd
  /\ UNCHANGED <<stage, expected, inVars, outBuff, outBuffSize, endVars, placeVars, callerVars>>

FlushEnd == Smaller(outStart + call.left, outEnd)

\* Not the code: the loop goes on when the caller's buffer is full.
FlushAgain == FlushTo(FlushEnd, TRUE)

Flush == FlushTo(FlushEnd, FlushEnd = outEnd)

\* The text is damaged: the loop returns an error from where it is.
DecodeFails ==
  /\ \E s \in {"zdss_loadHeader", "zdss_read", "zdss_load"} : InLoop(s)
  /\ call.avail > 0
  /\ broken' = TRUE
  /\ last' = [given |-> call.given, room |-> call.room, read |-> 0, wrote |-> 0,
              failed |-> TRUE, done |-> FALSE]
  /\ call' = Idle
  /\ sent' = call.entry.sent
  /\ UNCHANGED <<stageVars, inVars, outVars, endVars, placeVars, pos>>

Progress == call.avail < call.given \/ call.left < call.room

\* The return of a call: what of the input the caller may take as consumed, and
\* whether the frame is complete.
Return(read, done) ==
  /\ ~call.hint => noForwardProgress' = IF Progress THEN 0 ELSE noForwardProgress + 1
  /\ call.hint => UNCHANGED noForwardProgress
  /\ pos' = pos + read
  /\ last' = [given |-> call.given, room |-> call.room, read |-> read,
              wrote |-> call.room - call.left, failed |-> FALSE, done |-> done]
  /\ call' = Idle
  /\ UNCHANGED <<stage, expected, inVars, outVars, placeVars, sent, broken>>

\* ZSTD_NO_FORWARD_PROGRESS_MAX calls in a row have neither read nor written, and this
\* one has no room or no input; with both the assertion behind (line 2361) does nothing.
Stuck ==
  /\ ~Progress /\ ~call.hint
  /\ noForwardProgress + 1 >= NoForwardProgressMax
  /\ call.left = 0 \/ call.avail = 0

Returns == call.running /\ ~call.work /\ ~Stuck
Consumed == call.given - call.avail
Unflushed == outEnd # outStart

\* The frame goes on.
ReturnHint ==
  /\ Returns
  /\ call.hint \/ expected > 0
  /\ Return(Consumed, FALSE)
  /\ UNCHANGED <<streamStage, hostageByte>>

\* Not the code: no byte is kept back.
AllConsumed == Consumed

\* What the caller may take as consumed while content waits in outBuff.
ConsumedButHostage == IF hostageByte THEN Consumed ELSE Consumed - 1

\* The frame is decoded but not flushed: its last byte of input is kept as a
\* hostage, so that the caller comes back with it.
TakeHostage ==
  /\ Returns
  /\ ~call.hint /\ expected = 0 /\ Unflushed
  /\ Return(ConsumedButHostage, FALSE)
  /\ hostageByte' = TRUE
  /\ UNCHANGED streamStage

\* All is flushed, but the caller has not brought the hostage along.
AwaitHostage ==
  /\ Returns
  /\ ~call.hint /\ expected = 0 /\ ~Unflushed
  /\ hostageByte /\ call.avail = 0
  /\ streamStage' = "zdss_read"
  /\ Return(Consumed, FALSE)
  /\ UNCHANGED hostageByte

EndFrame ==
  /\ Returns
  /\ ~call.hint /\ expected = 0 /\ ~Unflushed
  /\ hostageByte => call.avail > 0
  /\ Return(IF hostageByte THEN Consumed + 1 ELSE Consumed, TRUE)
  /\ UNCHANGED <<streamStage, hostageByte>>

NoProgress ==
  /\ call.running /\ ~call.work
  /\ Stuck
  /\ noForwardProgress' = noForwardProgress + 1
  /\ broken' = TRUE
  /\ last' = [given |-> call.given, room |-> call.room, read |-> 0, wrote |-> 0,
              failed |-> TRUE, done |-> FALSE]
  /\ call' = Idle
  /\ UNCHANGED <<stageVars, inVars, outVars, hostageByte, placeVars, sent, pos>>

Turn == Restart \/ LoadHeader \/ DecodeWhole \/ ConsumeHeader \/ ReadEnd \/ ReadDirectly
          \/ ReadMore \/ Load \/ Flush \/ DecodeFails
EndCall == ReturnHint \/ TakeHostage \/ AwaitHostage \/ EndFrame \/ NoProgress

Next ==
  \/ \E given \in Chunks, room \in Rooms : BeginCall(given, room)
  \/ Turn
  \/ EndCall

Spec == Init /\ [][Next]_vars

\* A call in progress runs on the caller's thread until it returns.
FairSpec == Spec /\ WF_vars(Turn \/ EndCall)
-----------------------------------------------------------------------------
TypeOK ==
  /\ streamStage \in StreamStages /\ stage \in DStages
  /\ expected \in Nat /\ lhSize \in Nat /\ inPos \in Nat /\ inBuffSize \in Nat
  /\ outBuffSize \in Nat /\ outBuff \in [0 .. outBuffSize - 1 -> Nat]
  /\ outStart \in 0 .. outBuffSize /\ outEnd \in outStart .. outBuffSize
  /\ hostageByte \in BOOLEAN /\ noForwardProgress \in 0 .. NoForwardProgressMax
  /\ frame \in 0 .. Len(Frames) + 1 /\ block \in Nat \ {0}
  /\ decoded \in Nat /\ sent \in Nat /\ pos \in Nat /\ broken \in BOOLEAN
  /\ call \in Calls /\ last \in Outcomes

\* Content of the frame decoded so far that a block may refer to.
Window == LET f == Frames[frame]
          IN  Larger(f.before, decoded - f.window) + 1 .. decoded

(* Before a block is decoded outBuff still holds the whole window of the    *)
(* frame, outside the block's slots, and has room for the block: the ring   *)
(* of zdss_flush starts over neither too early nor too late, wherever       *)
(* blocks, partial raw blocks and flushes have left outStart.               *)
WindowIntact ==
  InBlock /\ streamStage \in {"zdss_read", "zdss_load"} =>
    LET room == outStart .. Smaller(outBuffSize, outStart + BlockSizeMax(Frames[frame])) - 1
    IN  /\ Window \subseteq {outBuff[i] : i \in DOMAIN outBuff \ room}
        /\ outStart + (IF CurrentBlock.raw THEN expected ELSE CurrentBlock.rsize) <= outBuffSize

(* What waits in outBuff is exactly the content that the caller has not got.*)
FlushesInOrder ==
  /\ streamStage = "zdss_flush" => \A i \in outStart .. outEnd - 1 :
       outBuff[i] = sent + 1 + i - outStart
  /\ ~broken => decoded - sent = outEnd - outStart

(* "should never happen" (zstd_decompress.c:2304): input gathered across    *)
(* calls fits inBuff; and the assertion of line 2299: a raw block is never  *)
(* gathered.                                                                *)
GatheredFits ==
  streamStage = "zdss_load" =>
    /\ stage # "ZSTDds_skipFrame" => inPos < expected /\ expected <= inBuffSize
    /\ ~(InBlock /\ CurrentBlock.raw)

(* Nothing in inBuff or outBuff that is still needed is lost, in whatever   *)
(* parts the text comes and the content is taken away.                      *)
BuffersIntact == WindowIntact /\ FlushesInOrder /\ GatheredFits

(* Every call keeps the contract of DecompressPipe: it stays within one     *)
(* frame, 0 is returned exactly at its end with all content delivered, and  *)
(* a caller that loops while input remains gets all of it.                  *)
ImplementsPipe == Pipe!PipeSpec

(* The loop of a call never spins: every call returns to the binding.       *)
CallReturns == call.running ~> ~call.running
=============================================================================

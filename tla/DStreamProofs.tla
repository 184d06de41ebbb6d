---------------------------- MODULE DStreamProofs ---------------------------
(***************************************************************************)
(* Theorems about DStream for every text of frames that the decoder        *)
(* accepts, all sizes of buffers, and all sizes of input and output that a *)
(* caller presents: that its buffers are intact, and that it implements    *)
(* the contract of DecompressPipe.                                         *)
(***************************************************************************)
EXTENDS DStream, WellFoundedInduction, TLAPS

\* The caller is told less than the decoder has: a byte is kept back.
HoldsHostage == hostageByte /\ (streamStage # "zdss_init" \/ (call.running /\ ~call.work))

\* The decoder is behind the header of a frame that has not been ended for the caller.
InFrame == \/ streamStage \in {"zdss_read", "zdss_load", "zdss_flush"}
           \/ streamStage = "zdss_init" /\ HoldsHostage

\* The part of a frame that is waited for, and where it ends in the frame.
PartStop ==
  IF stage = "ZSTDds_decodeBlockHeader" THEN CurrentBlock.from + BlockHeaderSize
  ELSE IF InBlock THEN BlockStop(CurrentBlock)
  ELSE FrameSize(Frames[frame])

\* Where the decoder is in the text, ...
Offset ==
  IF InFrame THEN Frames[frame].from + PartStop - expected + inPos
  ELSE IF streamStage = "zdss_loadHeader" THEN FrameFrom(frame) + lhSize
  ELSE FrameFrom(frame + 1)

\* ... and how much it has decoded by then.
DecodedOfFrame ==
  IF stage = "ZSTDds_decodeBlockHeader" THEN CurrentBlock.before
  ELSE IF InBlock THEN CurrentBlock.before + IF CurrentBlock.raw THEN CurrentBlock.csize - expected ELSE 0
  ELSE ContentOf(Frames[frame])

DecodedThere ==
  IF InFrame THEN Frames[frame].before + DecodedOfFrame
  ELSE IF streamStage = "zdss_loadHeader" THEN FrameBefore(frame)
  ELSE FrameBefore(frame + 1)

Place ==
  /\ decoded = DecodedThere
  /\ ~broken => pos + Consumed + (IF HoldsHostage THEN 1 ELSE 0) = Offset
  /\ call.running => pos + call.given <= TextSize

\* A call never has more input or room than it was given, and began in the frame that the
\* decoder is at.
Arguments ==
  /\ ~call.running => call = Idle
  /\ call.avail <= call.given /\ call.left <= call.room
  /\ call.running =>
       /\ ~broken /\ call.given \in Chunks /\ call.room \in Rooms
       /\ call.entry.pos = pos /\ ~call.entry.broken
       /\ call.entry.sent + call.room - call.left = sent
  /\ call.hint => call.running /\ ~call.work /\ streamStage = "zdss_loadHeader"

\* What the stages of both machines mean.
Stages ==
  /\ streamStage # "zdss_load" => inPos = 0
  /\ streamStage = "zdss_init" => frame <= Len(Frames)
  /\ streamStage = "zdss_loadHeader" =>
       /\ ~hostageByte
       /\ frame > 0 /\ block = 1 /\ outEnd = 0
       /\ frame <= Len(Frames) => lhSize <= Frames[frame].header
  /\ streamStage \in {"zdss_init", "zdss_loadHeader"} => expected = 0
  /\ streamStage = "zdss_init" => stage \in {"ZSTDds_getFrameHeaderSize", "ZSTDds_skipFrame"}
  /\ HoldsHostage => expected = 0 /\ stage = "ZSTDds_getFrameHeaderSize"

\* Why the loop of a call has ended, and in which frame its input lies.
Loop ==
  /\ call.running /\ ~call.work =>
       \/ streamStage = "zdss_init" /\ frame > 0
       \/ streamStage = "zdss_loadHeader" /\ call.hint /\ call.avail = 0
            /\ (frame <= Len(Frames) => lhSize < Frames[frame].header)
       \/ streamStage \in {"zdss_read", "zdss_load"} /\ expected > 0 /\ call.avail = 0
       \/ streamStage = "zdss_flush" /\ call.left = 0 /\ Unflushed
  /\ call.running /\ call.work /\ streamStage = "zdss_init" => call.avail = call.given
  /\ call.running /\ ~(call.work /\ streamStage = "zdss_init") /\ frame <= Len(Frames) =>
       FrameFrom(frame) <= pos /\ pos < FrameStop(Frames[frame])
  /\ ~call.running /\ ~broken =>
       /\ InFrame /\ expected = 0 => hostageByte
       /\ streamStage = "zdss_loadHeader" /\ frame <= Len(Frames) => lhSize < Frames[frame].header

StagesInFrame ==
  LET f == Frames[frame]
      b == CurrentBlock
  IN  /\ frame \in DOMAIN Frames
      /\ stage = "ZSTDds_decodeBlockHeader" => block \in DOMAIN f.blocks /\ expected = BlockHeaderSize
      /\ InBlock => /\ block \in DOMAIN f.blocks /\ 0 < expected /\ expected <= b.csize
                    /\ ~b.raw => expected = b.csize
      /\ stage = "ZSTDds_checkChecksum" => ~f.skippable /\ f.checksum /\ expected = ChecksumSize
      /\ stage = "ZSTDds_skipFrame" => f.skippable /\ expected = f.content
      /\ stage = "ZSTDds_getFrameHeaderSize" => expected = 0
      /\ inBuffSize >= Larger(BlockSizeMax(f), ChecksumSize)
      /\ streamStage = "zdss_load" => inPos < expected /\ ~(InBlock /\ b.raw)
      /\ streamStage = "zdss_flush" => stage # "ZSTDds_skipFrame"

\* Content is copied out before anything else is decoded, and the end of a frame that waits
\* for that was reached in this call or is known to the caller as a hostage.
Output ==
  /\ streamStage # "zdss_flush" => outStart = outEnd
  /\ ~broken \/ streamStage = "zdss_flush" => decoded - sent = outEnd - outStart
  /\ InFrame /\ expected = 0 /\ Unflushed /\ ~hostageByte => call.running /\ call.avail < call.given
  /\ HoldsHostage /\ call.running => call.avail = call.given

\* outBuff starts over within a frame.
Wraps ==
  LET f == Frames[frame] IN ~((f.declared \/ f.skippable) /\ f.content <= outBuffSize)

\* Content that was decoded before outBuff has started over.
Lap == decoded - outEnd

\* What the slots of outBuff hold: those up to outEnd the newest content, those behind it
\* the end of the lap before.
Ring ==
  LET f == Frames[frame]
  IN  /\ DecodingBufferSize(f) <= outBuffSize
      /\ f.before <= Lap
      /\ \A i \in 0 .. outEnd - 1 : outBuff[i] = Lap + 1 + i
      /\ ~Wraps => Lap = f.before
      /\ Wraps /\ streamStage # "zdss_flush" => outEnd + BlockSizeMax(f) <= outBuffSize
      /\ Wraps /\ f.before < Lap =>
           \E lapEnd \in 0 .. outBuffSize :
             /\ outBuffSize < lapEnd + BlockSizeMax(f)
             /\ \A i \in outEnd .. lapEnd - 1 : outBuff[i] = Lap - lapEnd + 1 + i

IInv == /\ TypeOK /\ Place /\ Arguments /\ Stages /\ Loop /\ Output
        /\ InFrame => StagesInFrame /\ Ring

\* Of calls without progress there are never so many as the limit, but for the one that ends
\* a frame, which is not given up: the header of the next frame is progress.
Counted ==
  \/ broken
  \/ noForwardProgress < NoForwardProgressMax
  \/ call.running /\ call.avail < call.given
  \/ streamStage = "zdss_init" /\ ~(call.running /\ ~call.work)
  \/ /\ streamStage = "zdss_loadHeader"
     /\ call.running /\ ~call.work => call.hint
     /\ frame <= Len(Frames) => lhSize < Frames[frame].header

-----------------------------------------------------------------------------
\* The sizes that the library defines, and those of the caller.
LEMMA Sizes ==
  /\ HeaderMin \in Nat /\ HeaderMin > 0 /\ BlockHeaderSize \in Nat /\ BlockHeaderSize > 0
  /\ ChecksumSize \in Nat /\ BlockHeaderSize <= ChecksumSize
  /\ BlockSizeLimit \in Nat /\ WindowMin \in Nat /\ Overlength \in Nat
  /\ NoForwardProgressMax \in Nat /\ NoForwardProgressMax > 0
  <1> QED
    BY DStreamAssumption

LEMMA FrameNumbers ==
  Len(Frames) \in Nat /\ \A k \in Nat : k \in DOMAIN Frames <=> 1 <= k /\ k <= Len(Frames)
  <1>1. Len(Frames) \in Nat /\ DOMAIN Frames = 1 .. Len(Frames)
    BY DStreamAssumption
  <1> QED
    BY <1>1

LEMMA FrameType ==
  ASSUME NEW k \in DOMAIN Frames
  PROVE  LET f == Frames[k]
         IN  /\ k \in Nat /\ 1 <= k /\ k <= Len(Frames) /\ Len(Frames) \in Nat
             /\ f \in Frame
             /\ f.header \in Nat /\ f.content \in Nat /\ f.window \in Nat
             /\ f.from \in Nat /\ f.before \in Nat
             /\ f.skippable \in BOOLEAN /\ f.declared \in BOOLEAN /\ f.checksum \in BOOLEAN
             /\ f.blocks \in Seq(Block)
             /\ BlockSizeMax(f) \in Nat
             /\ f.header > 1 /\ f.header >= HeaderMin
             /\ f.skippable => f.blocks = <<>>
             /\ ~f.skippable => f.blocks # <<>>
  <1>1. k \in 1 .. Len(Frames) /\ Frames[k] \in Frame /\ Len(Frames) \in Nat
    BY DStreamAssumption
  <1> DEFINE f == Frames[k]
  <1>2. f \in Frame
    BY <1>1
  <1>3. /\ f.header > 1 /\ f.header >= HeaderMin
        /\ f.skippable => f.blocks = <<>>
        /\ ~f.skippable => f.blocks # <<>>
    BY BlocksAssumption
  <1> HIDE DEF f
  <1>4. BlockSizeMax(f) \in Nat
    BY <1>2, Sizes DEF Frame, BlockSizeMax, Smaller
  <1> QED
    BY <1>1, <1>2, <1>3, <1>4 DEF Frame, f

LEMMA BlockFacts ==
  ASSUME NEW k \in DOMAIN Frames, NEW i \in DOMAIN Frames[k].blocks
  PROVE  LET f == Frames[k]
             b == f.blocks[i]
         IN  /\ i \in Nat /\ 1 <= i /\ i <= Len(f.blocks) /\ Len(f.blocks) \in Nat
             /\ ~f.skippable
             /\ b.csize \in Nat /\ b.rsize \in Nat /\ b.from \in Nat /\ b.before \in Nat
             /\ b.raw \in BOOLEAN
             /\ b.csize <= BlockSizeMax(f) /\ b.rsize <= BlockSizeMax(f)
             /\ b.raw => b.csize = b.rsize
             /\ b.csize = 0 => b.raw
             /\ f.header <= b.from /\ BlockStop(b) <= BlocksEnd(f) /\ b.before + b.rsize <= f.content
             /\ BlockStop(b) = b.from + BlockHeaderSize + b.csize
             /\ i = Len(f.blocks) => BlockStop(b) = BlocksEnd(f) /\ b.before + b.rsize = f.content
             /\ i # Len(f.blocks) => /\ i + 1 \in DOMAIN f.blocks
                                     /\ f.blocks[i + 1].from = BlockStop(b)
                                     /\ f.blocks[i + 1].before = b.before + b.rsize
  <1> DEFINE f == Frames[k]
             b == f.blocks[i]
  <1>1. f.blocks \in Seq(Block) /\ (f.skippable => f.blocks = <<>>)
    BY FrameType
  <1>2. i \in 1 .. Len(f.blocks) /\ Len(f.blocks) \in Nat /\ DOMAIN f.blocks = 1 .. Len(f.blocks)
        /\ b \in Block
    BY <1>1
  <1>3. ~f.skippable
    BY <1>1, <1>2
  <1>4. /\ b.csize <= BlockSizeMax(f) /\ b.rsize <= BlockSizeMax(f)
        /\ b.raw => b.csize = b.rsize
        /\ b.csize = 0 => b.raw
        /\ f.header <= b.from /\ BlockStop(b) <= BlocksEnd(f) /\ b.before + b.rsize <= f.content
    BY BlocksAssumption
  <1>5. i = Len(f.blocks) => BlockStop(b) = BlocksEnd(f) /\ b.before + b.rsize = f.content
    BY <1>3, <1>2, BlocksAssumption DEF BlocksEnd
  <1>6. i # Len(f.blocks) => i + 1 \in DOMAIN f.blocks
    <2> HIDE DEF f, b
    <2> QED BY <1>2
  <1>7. \A j \in DOMAIN f.blocks : j > 1 =>
          /\ f.blocks[j].from = BlockStop(f.blocks[j - 1])
          /\ f.blocks[j].before = f.blocks[j - 1].before + f.blocks[j - 1].rsize
    BY BlocksAssumption
  <1>8. i + 1 \in DOMAIN f.blocks =>
          f.blocks[i + 1].from = BlockStop(b) /\ f.blocks[i + 1].before = b.before + b.rsize
    <2>1. i + 1 > 1 /\ (i + 1) - 1 = i
      BY <1>2
    <2> QED BY <1>7, <2>1
  <1> QED
    BY <1>2, <1>3, <1>4, <1>5, <1>6, <1>8 DEF Block, BlockStop

\* How the parts of a frame, and the frames, lie one behind the other.
LEMMA FrameFacts ==
  ASSUME NEW k \in DOMAIN Frames
  PROVE  LET f == Frames[k]
         IN  /\ BlocksEnd(f) \in Nat /\ FrameSize(f) \in Nat /\ ContentOf(f) \in Nat
             /\ f.header <= BlocksEnd(f)
             /\ FrameSize(f) = BlocksEnd(f) + (IF f.skippable THEN f.content
                                               ELSE IF f.checksum THEN ChecksumSize ELSE 0)
             /\ f.skippable => BlocksEnd(f) = f.header
             /\ ContentOf(f) = IF f.skippable THEN 0 ELSE f.content
             /\ FrameStop(f) = f.from + FrameSize(f) /\ FrameStop(f) \in Nat
             /\ FrameFrom(k) = f.from /\ FrameBefore(k) = f.before
             /\ FrameFrom(k + 1) = FrameStop(f)
             /\ FrameBefore(k + 1) = f.before + ContentOf(f)
  <1> DEFINE f == Frames[k]
  <1>1. /\ f.header \in Nat /\ f.content \in Nat /\ f.from \in Nat /\ f.before \in Nat
        /\ f.skippable \in BOOLEAN /\ f.checksum \in BOOLEAN /\ k \in Nat /\ 1 <= k
        /\ f.blocks \in Seq(Block)
        /\ f.skippable => f.blocks = <<>>
    BY FrameType
  <1>2. BlocksEnd(f) \in Nat /\ f.header <= BlocksEnd(f)
    <2>1. CASE f.blocks = <<>>
      BY <2>1, <1>1 DEF BlocksEnd
    <2>2. CASE f.blocks # <<>>
      <3>1. Len(f.blocks) \in DOMAIN f.blocks
        BY <1>1, <2>2
      <3> DEFINE b == f.blocks[Len(f.blocks)]
      <3>2. BlocksEnd(f) = BlockStop(b)
        BY <2>2 DEF BlocksEnd
      <3>3. b.from \in Nat /\ b.csize \in Nat /\ f.header <= b.from
            /\ BlockStop(b) = b.from + BlockHeaderSize + b.csize
        BY <3>1, BlockFacts
      <3> HIDE DEF f, b
      <3> QED BY <3>2, <3>3, <1>1, Sizes
    <2> QED BY <2>1, <2>2
  <1>3. f.skippable => BlocksEnd(f) = f.header
    BY <1>1 DEF BlocksEnd
  <1>4. FrameSize(f) = BlocksEnd(f) + (IF f.skippable THEN f.content
                                       ELSE IF f.checksum THEN ChecksumSize ELSE 0)
    BY DEF FrameSize
  <1>5. FrameFrom(k) = f.from /\ FrameBefore(k) = f.before
    BY FramesAssumption
  <1>6. FrameFrom(k + 1) = FrameStop(f) /\ FrameBefore(k + 1) = ContentStop(f)
    <2>1. k + 1 # 1 /\ (k + 1) - 1 = k
      BY <1>1
    <2> QED BY <2>1 DEF FrameFrom, FrameBefore
  <1>7. ContentOf(f) \in Nat /\ ContentStop(f) = f.before + ContentOf(f)
        /\ ContentOf(f) = IF f.skippable THEN 0 ELSE f.content
    BY <1>1 DEF ContentOf, ContentStop
  <1>8. FrameStop(f) = f.from + FrameSize(f)
    BY DEF FrameStop
  <1> HIDE DEF f
  <1>9. FrameSize(f) \in Nat
    <2>1. (IF f.skippable THEN f.content ELSE IF f.checksum THEN ChecksumSize ELSE 0) \in Nat
      BY <1>1, Sizes
    <2> QED BY <1>2, <1>4, <2>1
  <1>10. FrameStop(f) \in Nat
    BY <1>1, <1>8, <1>9
  <1> QED
    BY <1>2, <1>3, <1>4, <1>5, <1>6, <1>7, <1>8, <1>9, <1>10 DEF f

\* The text ends behind the last frame.
LEMMA Places ==
  /\ Len(Frames) \in Nat
  /\ \A k \in 1 .. Len(Frames) + 1 : FrameFrom(k) \in Nat /\ FrameBefore(k) \in Nat
  /\ TextSize \in Nat /\ TextSize = FrameFrom(Len(Frames) + 1)
  <1>1. Len(Frames) \in Nat /\ DOMAIN Frames = 1 .. Len(Frames)
    BY DStreamAssumption
  <1>2. ASSUME NEW k \in 1 .. Len(Frames) + 1 PROVE FrameFrom(k) \in Nat /\ FrameBefore(k) \in Nat
    <2>1. CASE k = 1
      BY <2>1 DEF FrameFrom, FrameBefore
    <2>2. CASE k # 1
      <3>1. k - 1 \in DOMAIN Frames /\ (k - 1) + 1 = k
        BY <1>1, <2>2
      <3> DEFINE f == Frames[k - 1]
      <3>2. FrameFrom(k) = FrameStop(f) /\ FrameStop(f) \in Nat /\ f.before \in Nat
            /\ ContentOf(f) \in Nat /\ FrameBefore(k) = f.before + ContentOf(f)
        <4>1. /\ FrameStop(f) \in Nat /\ f.before \in Nat /\ ContentOf(f) \in Nat
              /\ FrameFrom((k - 1) + 1) = FrameStop(f)
              /\ FrameBefore((k - 1) + 1) = f.before + ContentOf(f)
          BY <3>1, FrameFacts, FrameType
        <4> QED BY <4>1, <3>1
      <3> HIDE DEF f
      <3> QED BY <3>2
    <2> QED BY <2>1, <2>2
  <1>3. Len(Frames) + 1 \in 1 .. Len(Frames) + 1
    BY <1>1
  <1> QED
    BY <1>1, <1>2, <1>3 DEF TextSize

LEMMA TextLength == Len(Text) = TextSize
  <1>1. TextSize \in Nat
    BY Places
  <1>2. DOMAIN Text = 1 .. TextSize
    BY DEF Text
  <1> QED
    BY <1>1, <1>2

\* A frame that does not fit outBuff leaves it room for the window and two blocks.
LEMMA RingRoom ==
  ASSUME NEW k \in DOMAIN Frames, NEW size \in Nat
  PROVE  LET f == Frames[k]
         IN  /\ DecodingBufferSize(f) \in Nat
             /\ DecodingBufferSize(f) <= size /\ ~((f.declared \/ f.skippable) /\ f.content <= size) =>
                  f.window + 2 * BlockSizeMax(f) <= size
  <1> DEFINE f == Frames[k]
             max == BlockSizeMax(f)
             room == Larger(f.window, WindowMin) + 2 * max + 2 * Overlength
  <1>1. /\ f.content \in Nat /\ f.window \in Nat /\ max \in Nat
        /\ f.skippable \in BOOLEAN /\ f.declared \in BOOLEAN
    BY FrameType
  <1>2. DecodingBufferSize(f) = IF f.declared \/ f.skippable THEN Smaller(f.content, room) ELSE room
    BY DEF DecodingBufferSize, RingSize
  <1> HIDE DEF f, max
  <1>3. room \in Nat /\ f.window + 2 * max <= room
    BY <1>1, Sizes DEF Larger
  <1> HIDE DEF room
  <1>4. CASE f.declared \/ f.skippable
    <2>1. DecodingBufferSize(f) = Smaller(f.content, room)
      BY <1>2, <1>4
    <2>2. ~((f.declared \/ f.skippable) /\ f.content <= size) => ~(f.content <= size)
      BY <1>4
    <2>3. DecodingBufferSize(f) \in Nat
          /\ (DecodingBufferSize(f) <= size /\ ~(f.content <= size) => f.window + 2 * max <= size)
      BY <1>1, <1>3, <2>1 DEF Smaller
    <2> QED BY <2>2, <2>3 DEF f, max
  <1>5. CASE ~(f.declared \/ f.skippable)
    <2>1. DecodingBufferSize(f) = room
      BY <1>2, <1>5
    <2>2. DecodingBufferSize(f) \in Nat
          /\ (DecodingBufferSize(f) <= size => f.window + 2 * max <= size)
      BY <1>1, <1>3, <2>1
    <2> QED BY <2>2 DEF f, max
  <1> QED BY <1>4, <1>5

LEMMA IdleIsCall == Idle \in Calls
  <1>1. 0 \in 0 .. Len(Text)
    BY TextLength, Places
  <1>2. Pipe!Fresh \in Pipe!DecoderState
    BY <1>1 DEF Pipe!Fresh, Pipe!DecoderState
  <1> QED
    BY <1>2 DEF Idle, Calls

LEMMA InitIInv == Init => IInv
  <1> SUFFICES ASSUME Init PROVE IInv
    OBVIOUS
  <1>1. /\ streamStage = "zdss_init" /\ stage = "ZSTDds_getFrameHeaderSize" /\ expected = 0
        /\ lhSize = 0 /\ inPos = 0 /\ inBuffSize = 0
        /\ outBuff = [i \in 0 .. -1 |-> 0] /\ outBuffSize = 0 /\ outStart = 0 /\ outEnd = 0
        /\ hostageByte = FALSE /\ noForwardProgress = 0
        /\ frame = 0 /\ block = 1 /\ decoded = 0 /\ sent = 0
        /\ pos = 0 /\ broken = FALSE /\ call = Idle
    BY DEF Init
  <1>2. last \in Outcomes
    BY DEF Init, Pipe!PipeInit, Outcomes
  <1>3. /\ ~call.running /\ ~call.hint /\ call.given = 0 /\ call.avail = 0
        /\ call.left = 0 /\ call.room = 0
    BY <1>1 DEF Idle
  <1>4. Len(Frames) \in Nat /\ NoForwardProgressMax \in Nat \ {0}
    BY Places, Sizes
  <1>5. outBuff \in [0 .. outBuffSize - 1 -> Nat]
    BY <1>1
  <1>6. TypeOK
    <2>1. /\ outStart \in 0 .. outBuffSize /\ outEnd \in outStart .. outBuffSize
          /\ noForwardProgress \in 0 .. NoForwardProgressMax /\ frame \in 0 .. Len(Frames) + 1
      BY <1>1, <1>4
    <2>2. streamStage \in StreamStages /\ stage \in DStages
      BY <1>1 DEF StreamStages, DStages
    <2>3. /\ expected \in Nat /\ lhSize \in Nat /\ inPos \in Nat /\ inBuffSize \in Nat
          /\ outBuffSize \in Nat /\ block \in Nat \ {0}
          /\ decoded \in Nat /\ sent \in Nat /\ pos \in Nat
      BY <1>1
    <2>4. hostageByte \in BOOLEAN /\ broken \in BOOLEAN /\ call \in Calls
      BY <1>1, IdleIsCall
    <2> QED
      BY <1>2, <1>5, <2>1, <2>2, <2>3, <2>4 DEF TypeOK
  <1>7. ~HoldsHostage /\ ~InFrame
    BY <1>1 DEF HoldsHostage, InFrame
  <1>8. Place
    <2>1. FrameFrom(1) = 0 /\ FrameBefore(1) = 0 /\ 0 + 1 = 1
      BY DEF FrameFrom, FrameBefore
    <2>2. Offset = 0 /\ DecodedThere = 0
      BY <2>1, <1>1, <1>7 DEF Offset, DecodedThere
    <2> QED
      BY <2>2, <1>1, <1>3, <1>7 DEF Place, Consumed
  <1>9. Arguments
    BY <1>1, <1>3, <1>4 DEF Arguments
  <1>10. Stages
    BY <1>1, <1>3, <1>4, <1>7 DEF Stages
  <1>11. Loop
    BY <1>1, <1>3, <1>7 DEF Loop
  <1>12. Output
    BY <1>1, <1>3, <1>7 DEF Output
  <1> QED
    BY <1>6, <1>7, <1>8, <1>9, <1>10, <1>11, <1>12 DEF IInv

-----------------------------------------------------------------------------
\* The numbers of a state.
LEMMA Numbers ==
  IInv => /\ expected \in Nat /\ lhSize \in Nat /\ inPos \in Nat /\ inBuffSize \in Nat
          /\ outBuffSize \in Nat /\ outStart \in Nat /\ outEnd \in Nat
          /\ outStart <= outEnd /\ outEnd <= outBuffSize
          /\ frame \in Nat /\ frame <= Len(Frames) + 1 /\ Len(Frames) \in Nat
          /\ block \in Nat /\ block > 0
          /\ decoded \in Nat /\ sent \in Nat /\ pos \in Nat
          /\ noForwardProgress \in Nat
          /\ (streamStage # "zdss_flush" => outStart = outEnd)
  <1> SUFFICES ASSUME IInv PROVE Numbers!2
    OBVIOUS
  <1>1. TypeOK /\ Output
    BY DEF IInv
  <1>2. streamStage # "zdss_flush" => outStart = outEnd
    BY <1>1 DEF Output
  <1>3. Len(Frames) \in Nat /\ NoForwardProgressMax \in Nat
    BY Places, Sizes
  <1> QED
    BY <1>1, <1>2, <1>3 DEF TypeOK

\* Those of the call in progress.
LEMMA CallNumbers ==
  IInv => /\ call.given \in Nat /\ call.room \in Nat /\ call.avail \in Nat /\ call.left \in Nat
          /\ call.avail <= call.given /\ call.left <= call.room
          /\ call.running \in BOOLEAN /\ call.work \in BOOLEAN /\ call.hint \in BOOLEAN
          /\ call.entry \in Pipe!DecoderState
          /\ Consumed \in Nat /\ Consumed = call.given - call.avail
  <1> SUFFICES ASSUME IInv PROVE CallNumbers!2
    OBVIOUS
  <1>1. call \in Calls /\ call.avail <= call.given /\ call.left <= call.room
    BY DEF IInv, TypeOK, Arguments
  <1> QED
    BY <1>1 DEF Calls, Consumed

\* The part that is waited for lies behind the header, in the frame.
LEMMA Parts ==
  ASSUME IInv, InFrame
  PROVE  LET f == Frames[frame]
         IN  /\ frame \in DOMAIN Frames /\ frame <= Len(Frames)
             /\ PartStop \in Nat /\ PartStop <= FrameSize(f)
             /\ f.header + expected <= PartStop
             /\ expected = 0 => PartStop = FrameSize(f)
             /\ expected = 0 => DecodedOfFrame = ContentOf(f)
             /\ Offset = f.from + PartStop - expected + inPos
             /\ inPos > 0 => inPos < expected
  <1> DEFINE f == Frames[frame]
             size == FrameSize(f)
             ends == BlocksEnd(f)
             stop == BlockStop(CurrentBlock)
             from == CurrentBlock.from
  <1>1. StagesInFrame /\ frame \in DOMAIN Frames
    BY DEF IInv, StagesInFrame
  <1>2. /\ frame \in Nat /\ frame <= Len(Frames)
        /\ f.header \in Nat /\ f.content \in Nat /\ f.from \in Nat
        /\ size \in Nat /\ ends \in Nat
        /\ f.header <= ends /\ ends <= size
        /\ f.skippable => ends = f.header /\ size = ends + f.content
        /\ ~f.skippable /\ f.checksum => size = ends + ChecksumSize
    <2>1. /\ frame \in Nat /\ frame <= Len(Frames)
          /\ f.header \in Nat /\ f.content \in Nat /\ f.from \in Nat
          /\ f.skippable \in BOOLEAN /\ f.checksum \in BOOLEAN
      BY <1>1, FrameType
    <2>2. /\ ends \in Nat /\ size \in Nat
          /\ f.header <= ends
          /\ size = ends + (IF f.skippable THEN f.content
                            ELSE IF f.checksum THEN ChecksumSize ELSE 0)
          /\ f.skippable => ends = f.header
      BY <1>1, FrameFacts
    <2> HIDE DEF f, size, ends
    <2> QED BY <2>1, <2>2, Sizes
  <1>3. stage \in DStages /\ expected \in Nat /\ inPos \in Nat /\ (streamStage # "zdss_load" => inPos = 0)
    BY Numbers DEF IInv, TypeOK, Stages
  <1>4. stage = "ZSTDds_decodeBlockHeader" \/ InBlock =>
          /\ block \in DOMAIN f.blocks
          /\ from \in Nat /\ stop \in Nat /\ CurrentBlock.csize \in Nat
          /\ f.header <= from /\ stop = from + BlockHeaderSize + CurrentBlock.csize /\ stop <= ends
    <2>1. SUFFICES ASSUME block \in DOMAIN f.blocks
                   PROVE  /\ from \in Nat /\ stop \in Nat /\ CurrentBlock.csize \in Nat
                          /\ f.header <= from /\ stop = from + BlockHeaderSize + CurrentBlock.csize
                          /\ stop <= ends
      BY <1>1 DEF StagesInFrame
    <2>2. /\ CurrentBlock.csize \in Nat /\ from \in Nat /\ f.header <= from
          /\ stop <= ends /\ stop = from + BlockHeaderSize + CurrentBlock.csize
      BY <1>1, <2>1, BlockFacts DEF CurrentBlock
    <2> HIDE DEF stop, from, f, ends
    <2> QED BY <2>2, Sizes
  <1>5. inPos > 0 => inPos < expected
    <2>1. streamStage = "zdss_load" => inPos < expected
      BY <1>1 DEF StagesInFrame
    <2> QED BY <2>1, <1>3
  <1>6. Offset = f.from + PartStop - expected + inPos
    BY DEF Offset
  <1>7. CASE stage = "ZSTDds_decodeBlockHeader"
    <2>1. PartStop = from + BlockHeaderSize /\ expected = BlockHeaderSize
      BY <1>1, <1>7 DEF PartStop, StagesInFrame
    <2> HIDE DEF f, size, ends, stop, from
    <2>2. /\ PartStop \in Nat /\ PartStop <= size
          /\ f.header + expected <= PartStop /\ expected # 0
      <3> DEFINE header == f.header
                 csize == CurrentBlock.csize
      <3>1. /\ header \in Nat /\ size \in Nat /\ ends \in Nat /\ ends <= size
            /\ BlockHeaderSize \in Nat /\ BlockHeaderSize > 0
        BY <1>2, Sizes
      <3>2. /\ from \in Nat /\ csize \in Nat /\ header <= from /\ stop <= ends
            /\ stop = from + BlockHeaderSize + csize
        BY <1>4, <1>7
      <3> HIDE DEF header, csize
      <3>3. /\ from + BlockHeaderSize \in Nat /\ from + BlockHeaderSize <= size
            /\ header + BlockHeaderSize <= from + BlockHeaderSize /\ BlockHeaderSize # 0
        BY <3>1, <3>2
      <3> QED BY <2>1, <3>3 DEF header
    <2> QED BY <1>1, <1>2, <1>5, <1>6, <2>2 DEF f, size
  <1>8. CASE InBlock
    <2>1. PartStop = stop
      BY <1>8 DEF PartStop, InBlock
    <2>2. 0 < expected /\ expected <= CurrentBlock.csize
      BY <1>1, <1>8 DEF StagesInFrame
    <2> HIDE DEF f, size, ends, stop, from
    <2>3. /\ PartStop \in Nat /\ PartStop <= size
          /\ f.header + expected <= PartStop /\ expected # 0
      <3> DEFINE header == f.header
                 csize == CurrentBlock.csize
      <3>1. /\ header \in Nat /\ size \in Nat /\ ends \in Nat /\ ends <= size
            /\ expected \in Nat /\ BlockHeaderSize \in Nat
        BY <1>2, <1>3, Sizes
      <3>2. /\ from \in Nat /\ stop \in Nat /\ csize \in Nat /\ header <= from /\ stop <= ends
            /\ stop = from + BlockHeaderSize + csize
        BY <1>4, <1>8
      <3>3. 0 < expected /\ expected <= csize
        BY <2>2
      <3> HIDE DEF header, csize
      <3>4. stop <= size /\ header + expected <= stop /\ expected # 0
        BY <3>1, <3>2, <3>3
      <3> QED BY <2>1, <3>2, <3>4 DEF header
    <2> QED BY <1>1, <1>2, <1>5, <1>6, <2>3 DEF f, size
  <1>9. CASE stage \notin {"ZSTDds_decodeBlockHeader"} /\ ~InBlock
    <2>1. PartStop = size /\ DecodedOfFrame = ContentOf(f)
      BY <1>9 DEF PartStop, DecodedOfFrame
    <2>2. \/ stage = "ZSTDds_checkChecksum" /\ expected = ChecksumSize /\ size = ends + ChecksumSize
          \/ stage = "ZSTDds_skipFrame" /\ expected = f.content /\ size = ends + f.content
          \/ stage = "ZSTDds_getFrameHeaderSize" /\ expected = 0
      BY <1>1, <1>2, <1>3, <1>9 DEF StagesInFrame, DStages, InBlock
    <2> HIDE DEF f, size, ends
    <2>3. PartStop \in Nat /\ PartStop <= size /\ f.header + expected <= PartStop
      BY <1>2, <1>3, <2>1, <2>2, Sizes
    <2> QED BY <1>1, <1>2, <1>5, <1>6, <2>1, <2>3 DEF f, size
  <1> QED
    BY <1>7, <1>8, <1>9

\* Between two calls the decoder is in a frame that has an end before it.
LEMMA EntersFrame ==
  ASSUME IInv, ~call.running, ~broken, streamStage # "zdss_init", frame <= Len(Frames)
  PROVE  FrameFrom(frame) <= pos /\ pos < FrameStop(Frames[frame])
  <1> DEFINE f == Frames[frame]
             stop == FrameStop(f)
             size == FrameSize(f)
  <1>1. Consumed = 0
    BY DEF IInv, Arguments, Consumed, Idle
  <1>2. CASE streamStage = "zdss_loadHeader"
    <2>1. frame > 0 /\ ~HoldsHostage /\ lhSize < f.header /\ lhSize \in Nat
      BY <1>2, Numbers DEF IInv, Stages, Loop, HoldsHostage
    <2>2. frame \in DOMAIN Frames
      BY <2>1, Numbers, FrameNumbers
    <2>3. pos = FrameFrom(frame) + lhSize /\ pos \in Nat
      <3>1. pos + Consumed + 0 = FrameFrom(frame) + lhSize
        BY <1>2, <2>1 DEF IInv, Place, Offset, InFrame
      <3>2. FrameFrom(frame) \in Nat
        BY <2>2, FrameType, FrameFacts
      <3> QED BY <1>1, <2>1, <3>1, <3>2, Numbers
    <2>4. /\ f.from \in Nat /\ f.header \in Nat /\ FrameFrom(frame) = f.from
          /\ stop = f.from + size /\ size \in Nat
      BY <2>2, FrameType, FrameFacts
    <2>5. f.header <= size
      <3>1. f.header <= BlocksEnd(f) /\ BlocksEnd(f) \in Nat /\ f.content \in Nat
            /\ size = BlocksEnd(f) + (IF f.skippable THEN f.content
                                      ELSE IF f.checksum THEN ChecksumSize ELSE 0)
        BY <2>2, FrameType, FrameFacts
      <3> HIDE DEF f, size
      <3> QED BY <2>4, <3>1, Sizes
    <2> HIDE DEF f, stop, size
    <2>6. f.from <= pos /\ pos < stop
      BY <2>1, <2>3, <2>4, <2>5
    <2> QED BY <2>4, <2>6 DEF f, stop
  <1>3. CASE streamStage # "zdss_loadHeader"
    <2>1. InFrame
      BY <1>3 DEF IInv, TypeOK, StreamStages, InFrame
    <2> DEFINE kept == IF HoldsHostage THEN 1 ELSE 0
    <2>2. /\ frame \in DOMAIN Frames
          /\ PartStop \in Nat /\ PartStop <= size
          /\ f.header + expected <= PartStop
          /\ expected = 0 => PartStop = size
          /\ Offset = f.from + PartStop - expected + inPos
          /\ inPos > 0 => inPos < expected
      BY <2>1, Parts
    <2>3. /\ f.from \in Nat /\ f.header \in Nat /\ FrameFrom(frame) = f.from
          /\ stop = f.from + size /\ size \in Nat /\ f.header > 1
      BY <2>2, FrameType, FrameFacts
    <2>4. pos + Consumed + kept = Offset
      BY DEF IInv, Place
    <2>5. kept \in Nat /\ kept <= 1 /\ (expected = 0 => kept = 1) /\ expected \in Nat /\ inPos \in Nat
          /\ pos \in Nat
      <3>1. expected = 0 => HoldsHostage
        BY <2>1 DEF IInv, Loop, HoldsHostage
      <3> QED BY <3>1, Numbers
    <2> HIDE DEF f, stop, size, kept
    <2>6. pos + kept = f.from + PartStop - expected + inPos
      BY <1>1, <2>2, <2>4, <2>5
    <2>7. f.from <= pos
      <3>1. PartStop - expected \in Nat /\ PartStop - expected >= 2
        BY <2>2, <2>3, <2>5
      <3>2. pos + kept = f.from + (PartStop - expected) + inPos
        BY <2>2, <2>3, <2>5, <2>6
      <3> QED BY <2>3, <2>5, <3>1, <3>2
    <2>8. pos < stop
      <3>1. expected = 0 => kept = 1 /\ PartStop = size /\ inPos = 0
        BY <2>2, <2>5
      <3>2. expected > 0 => inPos < expected
        BY <2>2, <2>5
      <3> QED BY <2>2, <2>3, <2>5, <2>6, <3>1, <3>2
    <2> QED BY <2>3, <2>7, <2>8 DEF f, stop
  <1> QED
    BY <1>2, <1>3

LEMMA BeginCallIInv ==
  ASSUME IInv, NEW given \in Chunks, NEW room \in Rooms, BeginCall(given, room)
  PROVE  IInv'
  <1>1. given \in Nat /\ room \in Nat
    BY DStreamAssumption
  <1>2. /\ ~call.running /\ ~broken /\ pos + given <= TextSize /\ call = Idle
    BY TextLength DEF BeginCall, IInv, Arguments
  <1>3. call' = [running |-> TRUE, work |-> TRUE, hint |-> FALSE, given |-> given, room |-> room,
                 avail |-> given, left |-> room, entry |-> Decoder]
    BY DEF BeginCall
  <1>4. /\ UNCHANGED <<streamStage, stage, expected, lhSize, inPos, inBuffSize>>
        /\ UNCHANGED <<outBuff, outBuffSize, outStart, outEnd, hostageByte, noForwardProgress>>
        /\ UNCHANGED <<frame, block, decoded, sent, pos, broken, last>>
    BY DEF BeginCall, stageVars, inVars, outVars, endVars, placeVars, callerVars
  <1>5. /\ call'.running /\ call'.work /\ ~call'.hint /\ call'.given = given /\ call'.room = room
        /\ call'.avail = given /\ call'.left = room /\ call'.entry = Decoder
    BY <1>3
  <1>6. Decoder \in Pipe!DecoderState /\ Decoder.pos = pos /\ Decoder.sent = sent
        /\ Decoder.broken = broken
    <2>1. pos \in 0 .. TextSize
      <3>1. pos \in Nat
        BY Numbers
      <3>2. TextSize \in Nat
        BY Places
      <3> QED BY <1>1, <1>2, <3>1, <3>2
    <2> QED
      BY <2>1, TextLength DEF IInv, TypeOK, Decoder, Pipe!DecoderState
  <1>7. call' \in Calls
    BY <1>1, <1>3, <1>6 DEF Calls
  <1>8. TypeOK'
    BY <1>4, <1>7 DEF IInv, TypeOK
  <1>9. HoldsHostage' = HoldsHostage /\ (InFrame' <=> InFrame) /\ (Unflushed' <=> Unflushed)
    BY <1>2, <1>4, <1>5 DEF HoldsHostage, InFrame, Unflushed
  <1>10. Offset' = Offset /\ DecodedThere' = DecodedThere
    BY <1>4, <1>9
    DEF Offset, DecodedThere, PartStop, DecodedOfFrame, CurrentBlock, InBlock
  <1>11. Consumed = 0 /\ Consumed' = 0
    BY <1>1, <1>2, <1>5 DEF Consumed, Idle
  <1>12. Place'
    BY <1>2, <1>4, <1>5, <1>9, <1>10, <1>11 DEF IInv, Place
  <1>13. Arguments'
    <2>1. given <= given /\ room <= room
      BY <1>1
    <2>2. sent + room - room = sent
      <3>1. sent \in Nat
        BY Numbers
      <3> QED BY <1>1, <3>1
    <2> QED BY <1>2, <1>4, <1>5, <1>6, <2>1, <2>2 DEF Arguments
  <1>14. Stages'
    BY <1>4, <1>9 DEF IInv, Stages
  <1>15. Loop'
    <2>1. streamStage = "zdss_init" \/ (frame <= Len(Frames) =>
            FrameFrom(frame) <= pos /\ pos < FrameStop(Frames[frame]))
      BY <1>2, EntersFrame
    <2> QED
      BY <1>4, <1>5, <2>1 DEF IInv, Loop
  <1>16. Output'
    BY <1>2, <1>4, <1>5, <1>9 DEF IInv, Output
  <1>17. InFrame' => StagesInFrame' /\ Ring'
    BY <1>4, <1>9
    DEF IInv, StagesInFrame, Ring, CurrentBlock, InBlock, Wraps, Lap
  <1> QED
    BY <1>8, <1>12, <1>13, <1>14, <1>15, <1>16, <1>17 DEF IInv

\* A turn of the loop spends input and output of the call.
LEMMA SpendCall ==
  ASSUME IInv, call.running, NEW avail \in 0 .. call.avail, NEW left \in 0 .. call.left,
         NEW work \in BOOLEAN, NEW hint \in BOOLEAN,
         call' = [call EXCEPT !.avail = avail, !.left = left, !.work = work, !.hint = hint]
  PROVE  /\ call' \in Calls
         /\ call'.running /\ call'.avail = avail /\ call'.left = left
         /\ call'.work = work /\ call'.hint = hint
         /\ call'.given = call.given /\ call'.room = call.room /\ call'.entry = call.entry
         /\ avail \in Nat /\ left \in Nat /\ avail <= call.given /\ left <= call.room
         /\ Consumed' = call.given - avail
  <1>1. avail \in Nat /\ left \in Nat /\ avail <= call.given /\ left <= call.room
    BY CallNumbers
  <1>2. call \in Calls
    BY DEF IInv, TypeOK
  <1>3. call' \in Calls
    BY <1>1, <1>2 DEF Calls
  <1> QED
    BY <1>1, <1>2, <1>3 DEF Calls, Consumed

LEMMA RestartIInv == ASSUME IInv, Restart PROVE IInv'
  <1>1. /\ call.running /\ call.work /\ streamStage = "zdss_init"
        /\ streamStage' = "zdss_loadHeader"
        /\ lhSize' = 0 /\ inPos' = 0 /\ outStart' = 0 /\ outEnd' = 0
        /\ hostageByte' = FALSE
        /\ frame' = frame + 1 /\ block' = 1
        /\ UNCHANGED <<stage, expected, inBuffSize, outBuff, outBuffSize, noForwardProgress>>
        /\ UNCHANGED <<decoded, sent, pos, broken, last, call>>
    BY DEF Restart, InLoop, callerVars
  <1>2. /\ frame \in Nat /\ frame <= Len(Frames) /\ Len(Frames) \in Nat /\ ~broken
        /\ expected = 0 /\ outBuffSize \in Nat
    BY <1>1, Numbers DEF IInv, Stages, Arguments
  <1>3. TypeOK'
    <2>1. frame' \in 0 .. Len(Frames) + 1
      BY <1>1, <1>2
    <2>2. /\ lhSize' \in Nat /\ inPos' \in Nat /\ outStart' \in 0 .. outBuffSize'
          /\ outEnd' \in outStart' .. outBuffSize' /\ block' \in Nat \ {0}
      BY <1>1, <1>2
    <2>3. streamStage' \in StreamStages /\ hostageByte' \in BOOLEAN
      BY <1>1 DEF StreamStages
    <2> QED
      BY <1>1, <2>1, <2>2, <2>3 DEF IInv, TypeOK
  <1>4. ~HoldsHostage /\ ~InFrame /\ ~HoldsHostage' /\ ~InFrame'
    BY <1>1 DEF HoldsHostage, InFrame
  <1>5. Place'
    <2>1. pos + Consumed + 0 = FrameFrom(frame + 1) /\ decoded = FrameBefore(frame + 1)
          /\ pos + call.given <= TextSize
      BY <1>1, <1>2, <1>4 DEF IInv, Place, Offset, DecodedThere
    <2>2. Offset' = FrameFrom(frame + 1) + 0 /\ DecodedThere' = FrameBefore(frame + 1)
      BY <1>1, <1>4 DEF Offset, DecodedThere
    <2>3. Consumed' = Consumed
      BY <1>1 DEF Consumed
    <2>4. FrameFrom(frame + 1) \in Nat
      <3>1. frame + 1 \in 1 .. Len(Frames) + 1
        BY <1>2
      <3> QED BY <3>1, Places
    <2>5. pos + Consumed + 0 = FrameFrom(frame + 1) + 0
      BY <2>1, <2>4
    <2> QED
      BY <1>1, <1>4, <2>1, <2>2, <2>3, <2>5 DEF Place
  <1>6. Arguments'
    BY <1>1 DEF IInv, Arguments
  <1>7. Stages'
    <2>1. frame' > 0 /\ (frame' <= Len(Frames) => lhSize' <= Frames[frame'].header)
      <3>1. SUFFICES ASSUME frame' <= Len(Frames) PROVE 0 <= Frames[frame'].header
        BY <1>1, <1>2
      <3>2. frame' \in DOMAIN Frames
        BY <1>1, <1>2, <3>1, FrameNumbers
      <3> QED BY <3>2, FrameType
    <2> QED
      BY <1>1, <1>2, <1>4, <2>1 DEF Stages
  <1>8. Loop'
    <2>1. frame' <= Len(Frames) => FrameFrom(frame') <= pos' /\ pos' < FrameStop(Frames[frame'])
      <3> SUFFICES ASSUME frame' <= Len(Frames)
                   PROVE  FrameFrom(frame + 1) <= pos /\ pos < FrameStop(Frames[frame + 1])
        BY <1>1
      <3> DEFINE f == Frames[frame + 1]
                 stop == FrameStop(f)
                 size == FrameSize(f)
      <3>1. frame + 1 \in DOMAIN Frames
        BY <1>1, <1>2, FrameNumbers
      <3>2. f.header > 1 /\ f.from \in Nat /\ f.header \in Nat /\ f.content \in Nat
        BY <3>1, FrameType
      <3>3. /\ FrameFrom(frame + 1) = f.from /\ stop = f.from + size /\ f.header <= BlocksEnd(f)
            /\ BlocksEnd(f) \in Nat
            /\ size = BlocksEnd(f) + (IF f.skippable THEN f.content
                                      ELSE IF f.checksum THEN ChecksumSize ELSE 0)
        BY <3>1, FrameFacts
      <3>4. pos + Consumed + 0 = FrameFrom(frame + 1) /\ Consumed = 0 /\ pos \in Nat
        <4>1. pos + Consumed + 0 = FrameFrom(frame + 1)
          BY <1>1, <1>2, <1>4 DEF IInv, Place, Offset
        <4>2. call.avail = call.given
          BY <1>1, <1>2 DEF IInv, Loop
        <4>3. pos \in Nat /\ call.given \in Nat
          BY Numbers, CallNumbers
        <4> QED BY <4>1, <4>2, <4>3 DEF Consumed
      <3> HIDE DEF f, stop, size
      <3>5. f.from <= pos /\ pos < stop
        <4>1. PICK tail \in Nat : size = BlocksEnd(f) + tail
          BY <3>2, <3>3, Sizes
        <4>2. size > 0 /\ size \in Nat
          <5>1. f.header > 1 /\ f.header \in Nat /\ f.header <= BlocksEnd(f) /\ BlocksEnd(f) \in Nat
            BY <3>2, <3>3
          <5>2. PICK header \in Nat, end \in Nat : header > 1 /\ header <= end /\ size = end + tail
            BY <4>1, <5>1
          <5> QED BY ONLY <5>2
        <4>3. pos = f.from
          BY <3>2, <3>3, <3>4
        <4>4. stop = f.from + size /\ f.from \in Nat
          BY <3>2, <3>3
        <4> QED BY <4>2, <4>3, <4>4
      <3> QED BY <3>3, <3>5 DEF stop, f
    <2> QED
      BY <1>1, <2>1 DEF Loop
  <1>9. Output'
    <2>1. outStart = outEnd /\ decoded - sent = outEnd - outStart /\ outEnd \in Nat
      BY <1>1, <1>2, Numbers DEF IInv, Output
    <2>2. decoded' - sent' = outEnd' - outStart'
      BY <1>1, <2>1, Numbers
    <2> QED
      BY <1>1, <1>4, <2>2 DEF Output
  <1> QED
    BY <1>3, <1>4, <1>5, <1>6, <1>7, <1>8, <1>9 DEF IInv

\* There is no header to load behind the last frame, and no input.
LEMMA HeaderPlace ==
  ASSUME IInv, call.running, streamStage = "zdss_loadHeader"
  PROVE  /\ ~broken /\ ~HoldsHostage /\ ~InFrame /\ frame > 0
         /\ pos + Consumed = FrameFrom(frame) + lhSize
         /\ decoded = FrameBefore(frame)
         /\ FrameFrom(frame) \in Nat /\ FrameBefore(frame) \in Nat
         /\ pos + call.given <= TextSize
         /\ frame \notin DOMAIN Frames => lhSize = 0 /\ call.avail = 0
  <1>1. ~broken /\ ~HoldsHostage /\ ~InFrame /\ frame > 0 /\ frame <= Len(Frames) + 1
    BY Numbers DEF IInv, Arguments, Stages, HoldsHostage, InFrame
  <1>2. /\ pos + Consumed + 0 = FrameFrom(frame) + lhSize /\ decoded = FrameBefore(frame)
        /\ pos + call.given <= TextSize
    BY <1>1 DEF IInv, Place, Offset, DecodedThere
  <1>3. FrameFrom(frame) \in Nat /\ FrameBefore(frame) \in Nat
    <2>1. frame \in 1 .. Len(Frames) + 1
      BY <1>1, Numbers
    <2> QED BY <2>1, Places
  <1>4. pos + Consumed = FrameFrom(frame) + lhSize
    BY <1>2, <1>3, Numbers, CallNumbers, SMTT(30)
  <1>5. frame \notin DOMAIN Frames => lhSize = 0 /\ call.avail = 0
    <2>1. SUFFICES ASSUME frame \notin DOMAIN Frames PROVE lhSize = 0 /\ call.avail = 0
      OBVIOUS
    <2>2. frame = Len(Frames) + 1
      BY <1>1, <2>1, Numbers, Sizes
    <2>3. TextSize = FrameFrom(frame)
      BY <2>2, Places
    <2>4. /\ pos \in Nat /\ lhSize \in Nat /\ call.given \in Nat /\ call.avail \in Nat
          /\ Consumed = call.given - call.avail /\ pos + Consumed = TextSize + lhSize
          /\ pos + call.given <= TextSize /\ TextSize \in Nat
      BY <1>2, <1>3, <1>4, <2>3, Numbers, CallNumbers
    <2> QED BY <2>4
  <1> QED
    BY <1>1, <1>2, <1>3, <1>4, <1>5

(* The header that zdss_loadHeader asks for has a size: in a frame of the     *)
(* string it is between HeaderMin and the frame's own header, and past the   *)
(* last frame nothing of a header is loaded.                                 *)
LEMMA HeaderNeeded ==
  ASSUME IInv, LoadHeader
  PROVE  /\ HeaderSize \in Nat
         /\ frame \in DOMAIN Frames => HeaderSize <= Frames[frame].header
  <1> DEFINE size == HeaderSize
  <1>1. frame \notin DOMAIN Frames => lhSize = 0
    BY HeaderPlace DEF LoadHeader, InLoop
  <1>2. ASSUME frame \in DOMAIN Frames
        PROVE  size \in Nat /\ size <= Frames[frame].header
    <2> DEFINE header == Frames[frame].header
    <2>1. header \in Nat /\ header >= HeaderMin
      BY <1>2, FrameType
    <2>2. size = IF lhSize < HeaderMin THEN HeaderMin ELSE header
      BY DEF HeaderSize
    <2> HIDE DEF size, header
    <2>3. size \in Nat /\ size <= header
      BY <2>1, <2>2, Sizes
    <2> QED BY <2>3 DEF header
  <1>3. ASSUME frame \notin DOMAIN Frames PROVE size \in Nat
    <2>1. lhSize = 0 /\ HeaderMin \in Nat /\ HeaderMin > 0
      BY <1>1, <1>3, Sizes
    <2>2. lhSize < HeaderMin
      BY <2>1
    <2> QED BY <2>1, <2>2 DEF HeaderSize
  <1> QED BY <1>2, <1>3

LEMMA LoadHeaderIInv == ASSUME IInv, LoadHeader PROVE IInv'
  <1> DEFINE toLoad == HeaderSize - lhSize
             size == HeaderSize
  <1>1. /\ call.running /\ call.work /\ streamStage = "zdss_loadHeader" /\ lhSize < size
        /\ \/ /\ toLoad > call.avail
              /\ lhSize' = lhSize + call.avail
              /\ call' = [call EXCEPT !.avail = 0, !.work = FALSE, !.hint = TRUE]
           \/ /\ toLoad <= call.avail
              /\ lhSize' = size
              /\ call' = [call EXCEPT !.avail = call.avail - toLoad]
        /\ UNCHANGED <<streamStage, stage, expected, inPos, inBuffSize>>
        /\ UNCHANGED <<outBuff, outBuffSize, outStart, outEnd, hostageByte, noForwardProgress>>
        /\ UNCHANGED <<frame, block, decoded, sent, pos, broken, last>>
    BY DEF LoadHeader, InLoop, GoOn, stageVars, outVars, endVars, placeVars, callerVars
  <1>2. /\ ~broken /\ ~HoldsHostage /\ ~InFrame /\ frame > 0
        /\ pos + Consumed = FrameFrom(frame) + lhSize
        /\ decoded = FrameBefore(frame)
        /\ FrameFrom(frame) \in Nat /\ FrameBefore(frame) \in Nat
        /\ pos + call.given <= TextSize
        /\ frame \notin DOMAIN Frames => lhSize = 0 /\ call.avail = 0
    BY <1>1, HeaderPlace
  <1>3. /\ size \in Nat
        /\ frame \in DOMAIN Frames => size <= Frames[frame].header
    BY HeaderNeeded
  <1>4. PICK avail \in 0 .. call.avail :
          /\ call'.running /\ call'.avail = avail /\ call'.left = call.left
          /\ call'.given = call.given /\ call'.room = call.room /\ call'.entry = call.entry
          /\ call' \in Calls
          /\ avail \in Nat /\ avail <= call.given
          /\ Consumed' = call.given - avail
          /\ lhSize' = lhSize + call.avail - avail
          /\ lhSize' \in Nat /\ lhSize' <= size
          /\ \/ call'.work /\ ~call'.hint
             \/ ~call'.work /\ call'.hint /\ avail = 0 /\ lhSize' < size
    <2>1. call.left \in 0 .. call.left /\ call.avail \in Nat /\ call \in Calls /\ lhSize \in Nat
          /\ ~call.hint
      <3>1. call.left \in Nat /\ call.avail \in Nat /\ lhSize \in Nat
        BY CallNumbers, Numbers
      <3>2. call.left \in 0 .. call.left
        BY <3>1
      <3>3. call \in Calls /\ ~call.hint
        BY <1>1 DEF IInv, TypeOK, Arguments
      <3> QED BY <3>1, <3>2, <3>3
    <2>2. CASE toLoad > call.avail /\ lhSize' = lhSize + call.avail
               /\ call' = [call EXCEPT !.avail = 0, !.work = FALSE, !.hint = TRUE]
      <3>1. call' = [call EXCEPT !.avail = 0, !.left = call.left, !.work = FALSE, !.hint = TRUE]
        BY <2>1, <2>2 DEF Calls
      <3>2. 0 \in 0 .. call.avail
        BY <2>1
      <3>3. /\ call'.running /\ call'.avail = 0 /\ call'.left = call.left
            /\ ~call'.work /\ call'.hint
            /\ call'.given = call.given /\ call'.room = call.room /\ call'.entry = call.entry
            /\ call' \in Calls /\ 0 <= call.given /\ Consumed' = call.given - 0
        BY <1>1, <2>1, <3>1, <3>2, SpendCall
      <3> HIDE DEF size
      <3>4. lhSize' = lhSize + call.avail - 0 /\ lhSize' \in Nat /\ lhSize' < size
        <4>1. lhSize' = lhSize + call.avail /\ size - lhSize > call.avail
          BY <2>2 DEF size
        <4>2. call.avail \in Nat /\ lhSize \in Nat /\ size \in Nat
          BY <1>3, <2>1
        <4> QED BY <4>1, <4>2
      <3> QED BY <1>3, <3>2, <3>3, <3>4
    <2>3. CASE toLoad <= call.avail /\ lhSize' = size
               /\ call' = [call EXCEPT !.avail = call.avail - toLoad]
      <3> DEFINE left == call.avail - toLoad
      <3>1. left \in 0 .. call.avail /\ size = lhSize + call.avail - left
        <4>1. call.avail \in Nat /\ lhSize \in Nat /\ size \in Nat
              /\ toLoad <= call.avail /\ lhSize < size /\ toLoad = size - lhSize
          BY <1>1, <1>3, <2>1, <2>3
        <4> HIDE DEF size, toLoad
        <4> QED BY <4>1
      <3>2. call' = [call EXCEPT !.avail = left, !.left = call.left, !.work = TRUE, !.hint = FALSE]
        BY <1>1, <2>1, <2>3 DEF Calls
      <3> HIDE DEF left, size
      <3>3. /\ call'.running /\ call'.avail = left /\ call'.left = call.left
            /\ call'.work /\ ~call'.hint
            /\ call'.given = call.given /\ call'.room = call.room /\ call'.entry = call.entry
            /\ call' \in Calls /\ left \in Nat /\ left <= call.given
            /\ Consumed' = call.given - left
        BY <1>1, <2>1, <3>1, <3>2, SpendCall
      <3>4. lhSize' = lhSize + call.avail - left /\ lhSize' \in Nat /\ lhSize' <= size
        BY <1>3, <2>3, <3>1
      <3> QED BY <3>1, <3>3, <3>4
    <2> QED BY <1>1, <2>2, <2>3
  <1> HIDE DEF size, toLoad
  <1>5. TypeOK'
    BY <1>1, <1>4 DEF IInv, TypeOK
  <1>6. ~HoldsHostage' /\ ~InFrame'
    BY <1>1, <1>2 DEF IInv, Stages, HoldsHostage, InFrame
  <1>7. Place'
    <2>1. Offset' = FrameFrom(frame) + lhSize' /\ DecodedThere' = FrameBefore(frame)
      BY <1>1, <1>6 DEF Offset, DecodedThere
    <2>2. pos + Consumed' + 0 = FrameFrom(frame) + lhSize'
      <3>1. /\ Consumed' = call.given - avail /\ Consumed = call.given - call.avail
            /\ lhSize' = lhSize + call.avail - avail /\ pos + Consumed = FrameFrom(frame) + lhSize
            /\ avail \in Nat /\ call.avail \in Nat /\ call.given \in Nat /\ pos \in Nat
            /\ lhSize \in Nat /\ FrameFrom(frame) \in Nat
        BY <1>2, <1>4, Numbers, CallNumbers
      <3> QED BY <3>1
    <2> QED
      BY <1>1, <1>2, <1>4, <1>6, <2>1, <2>2 DEF Place
  <1>8. Arguments'
    BY <1>1, <1>4 DEF IInv, Arguments
  <1>9. Stages'
    <2>1. frame <= Len(Frames) => frame \in DOMAIN Frames
      BY <1>2, Numbers, FrameNumbers
    <2>2. frame <= Len(Frames) => lhSize' <= Frames[frame].header
      <3>1. SUFFICES ASSUME frame \in DOMAIN Frames PROVE lhSize' <= Frames[frame].header
        BY <2>1
      <3> DEFINE header == Frames[frame].header
      <3>2. header \in Nat /\ size <= header
        BY <3>1, <1>3, FrameType
      <3> HIDE DEF header
      <3>3. lhSize' <= header
        BY <3>2, <1>3, <1>4
      <3> QED BY <3>3 DEF header
    <2> QED
      BY <1>1, <1>6, <2>2 DEF IInv, Stages
  <1>10. Loop'
    <2>1. frame <= Len(Frames) => frame \in DOMAIN Frames
      BY <1>2, Numbers, FrameNumbers
    <2>2. ~call'.work => call'.hint /\ call'.avail = 0
            /\ (frame <= Len(Frames) => lhSize' < Frames[frame].header)
      <3> DEFINE header == Frames[frame].header
      <3>1. frame <= Len(Frames) => header \in Nat /\ size <= header
        BY <2>1, <1>3, FrameType
      <3> HIDE DEF header
      <3>2. ~call'.work => lhSize' < size /\ call'.hint /\ call'.avail = 0
        BY <1>4
      <3>3. lhSize' < size /\ frame <= Len(Frames) => lhSize' < header
        BY <3>1, <1>3, <1>4
      <3> QED BY <3>2, <3>3 DEF header
    <2> QED
      BY <1>1, <1>4, <2>2 DEF IInv, Loop
  <1>11. Output'
    BY <1>1, <1>2, <1>4, <1>6 DEF IInv, Output
  <1> QED
    BY <1>5, <1>6, <1>7, <1>8, <1>9, <1>10, <1>11 DEF IInv

\* Behind the header of a frame nothing of it is decoded.
LEMMA HeaderDone ==
  ASSUME IInv, HeaderComplete
  PROVE  /\ call.running /\ call.work /\ ~call.hint /\ streamStage = "zdss_loadHeader"
         /\ ~broken /\ ~hostageByte /\ block = 1 /\ outEnd = 0 /\ outStart = 0 /\ decoded = sent
         /\ frame \in DOMAIN Frames /\ frame <= Len(Frames) /\ lhSize = Frames[frame].header
         /\ pos + Consumed = Frames[frame].from + lhSize
         /\ decoded = Frames[frame].before
         /\ pos + call.given <= TextSize
         /\ inPos = 0 /\ expected = 0
         /\ Frames[frame].from <= pos /\ pos < FrameStop(Frames[frame])
  <1> DEFINE f == Frames[frame]
  <1>1. /\ call.running /\ call.work /\ streamStage = "zdss_loadHeader" /\ lhSize >= HeaderSize
    BY DEF HeaderComplete, InLoop
  <1>2. /\ ~broken /\ frame > 0
        /\ pos + Consumed = FrameFrom(frame) + lhSize
        /\ decoded = FrameBefore(frame)
        /\ pos + call.given <= TextSize
        /\ frame \notin DOMAIN Frames => lhSize = 0 /\ call.avail = 0
    BY <1>1, HeaderPlace
  <1>3. ~(lhSize < HeaderMin) /\ lhSize >= f.header /\ lhSize > 0
    <2>1. CASE lhSize < HeaderMin
      <3>1. HeaderSize = HeaderMin
        BY <2>1 DEF HeaderSize
      <3> QED BY <1>1, <2>1, <3>1, Numbers, Sizes
    <2>2. CASE ~(lhSize < HeaderMin)
      <3>1. HeaderSize = f.header
        BY <2>2 DEF HeaderSize
      <3>2. lhSize > 0
        <4>1. lhSize \in Nat
          BY Numbers
        <4>2. HeaderMin \in Nat /\ HeaderMin > 0
          BY Sizes
        <4> QED BY <2>2, <4>1, <4>2
      <3> QED BY <1>1, <2>2, <3>1, <3>2
    <2> QED BY <2>1, <2>2
  <1>4. frame \in DOMAIN Frames
    BY <1>2, <1>3
  <1>5. frame <= Len(Frames) /\ f.header \in Nat /\ FrameFrom(frame) = f.from /\ FrameBefore(frame) = f.before
    BY <1>4, FrameType, FrameFacts
  <1>6. ~hostageByte /\ block = 1 /\ outEnd = 0 /\ lhSize <= f.header /\ inPos = 0 /\ expected = 0
        /\ ~call.hint
    BY <1>1, <1>5 DEF IInv, Stages, Arguments
  <1>7. lhSize = f.header
    <2>1. lhSize \in Nat
      BY Numbers
    <2> HIDE DEF f
    <2> QED BY <1>3, <1>5, <1>6, <2>1
  <1>8. outStart = 0 /\ decoded = sent
    <2>1. outStart = outEnd /\ decoded \in Nat /\ sent \in Nat
      BY <1>1, Numbers
    <2>2. decoded - sent = outEnd - outStart
      BY <1>2 DEF IInv, Output
    <2> QED BY <1>6, <2>1, <2>2
  <1>9. f.from <= pos /\ pos < FrameStop(f)
    BY <1>1, <1>5 DEF IInv, Loop
  <1> QED
    BY <1>1, <1>2, <1>4, <1>5, <1>6, <1>7, <1>8, <1>9

LEMMA DecodeWholeIInv == ASSUME IInv, DecodeWhole PROVE IInv'
  <1> DEFINE f == Frames[frame]
             size == FrameSize(f)
             avail == call.given - size
             left == call.left - f.content
  <1>1. /\ call.running /\ call.work /\ ~call.hint /\ streamStage = "zdss_loadHeader"
        /\ ~broken /\ ~hostageByte /\ block = 1 /\ outEnd = 0 /\ outStart = 0 /\ decoded = sent
        /\ frame \in DOMAIN Frames /\ frame <= Len(Frames) /\ lhSize = f.header
        /\ pos + Consumed = f.from + lhSize
        /\ decoded = f.before
        /\ pos + call.given <= TextSize
        /\ inPos = 0 /\ expected = 0
        /\ f.from <= pos /\ pos < FrameStop(f)
    BY HeaderDone DEF DecodeWhole
  <1>a. CallFrom = 0 /\ \A n \in SizesFound(CallFrom) : n = size
    <2>1. PICK n \in SizesFound(CallFrom) : TRUE
      BY DEF DecodeWhole
    <2>2. f.inside = {}
      BY <1>1, HeadersAssumption
    <2> QED BY <2>1, <2>2 DEF SizesFound
  <1>b. lhSize = Consumed
    <2>1. lhSize \in Nat /\ Consumed \in Nat /\ Consumed = call.given - call.avail
      BY Numbers, CallNumbers
    <2>2. lhSize - (call.given - call.avail) = 0
      BY <1>a DEF CallFrom
    <2> QED BY <2>1, <2>2
  <1>c. call.given >= size
    <2>1. PICK n \in SizesFound(CallFrom) : n <= call.given
      BY DEF DecodeWhole, WholeFrameHere
    <2> QED BY <1>a, <2>1
  <1>d. call' = [call EXCEPT !.avail = avail, !.left = left, !.work = FALSE]
    BY <1>a DEF DecodeWhole
  <1>2. /\ ~f.skippable /\ call.left >= f.content /\ lhSize = Consumed /\ call.given >= size
        /\ call' = [call EXCEPT !.avail = avail, !.left = left, !.work = FALSE]
        /\ decoded' = decoded + f.content /\ sent' = sent + f.content
        /\ expected' = 0 /\ stage' = "ZSTDds_getFrameHeaderSize" /\ streamStage' = "zdss_init"
        /\ UNCHANGED <<lhSize, inPos, inBuffSize, outBuff, outBuffSize, outStart, outEnd>>
        /\ UNCHANGED <<hostageByte, noForwardProgress, frame, block, pos, broken, last>>
    BY <1>a, <1>b, <1>c, <1>d DEF DecodeWhole, WholeFrameHere, inVars, outVars, endVars, callerVars
  <1>3. /\ size \in Nat /\ f.content \in Nat /\ f.before \in Nat /\ f.from \in Nat /\ f.header \in Nat
        /\ frame \in Nat /\ 1 <= frame
        /\ ContentOf(f) = f.content /\ f.header <= size
        /\ FrameFrom(frame + 1) = f.from + size /\ FrameBefore(frame + 1) = f.before + f.content
        /\ FrameFrom(frame) = f.from
    <2>1. /\ f.content \in Nat /\ f.before \in Nat /\ f.from \in Nat /\ f.header \in Nat
          /\ frame \in Nat /\ 1 <= frame
      BY <1>1, FrameType
    <2>2. /\ size \in Nat /\ ContentOf(f) = f.content
          /\ FrameStop(f) = f.from + size /\ FrameFrom(frame + 1) = FrameStop(f)
          /\ FrameBefore(frame + 1) = f.before + ContentOf(f) /\ FrameFrom(frame) = f.from
          /\ BlocksEnd(f) \in Nat /\ f.header <= BlocksEnd(f)
          /\ size = BlocksEnd(f) + (IF f.checksum THEN ChecksumSize ELSE 0)
      BY <1>1, <1>2, FrameFacts
    <2>3. f.header <= size
      <3> HIDE DEF f, size
      <3> QED BY <2>1, <2>2, Sizes
    <2> QED BY <2>1, <2>2, <2>3
  <1>4. avail \in 0 .. call.avail /\ left \in 0 .. call.left
    <2>1. /\ call.given \in Nat /\ call.avail \in Nat /\ call.left \in Nat
          /\ Consumed = call.given - call.avail /\ Consumed = f.header
      BY <1>1, <1>2, CallNumbers
    <2> HIDE DEF f, size
    <2>2. avail \in 0 .. call.avail
      BY <1>2, <1>3, <2>1
    <2>3. left \in 0 .. call.left
      BY <1>2, <1>3, <2>1
    <2> QED BY <2>2, <2>3
  <1>5. call' = [call EXCEPT !.avail = avail, !.left = left, !.work = FALSE, !.hint = FALSE]
    BY <1>1, <1>2 DEF IInv, TypeOK, Calls
  <1>6. /\ call' \in Calls
        /\ call'.running /\ call'.avail = avail /\ call'.left = left
        /\ ~call'.work /\ ~call'.hint
        /\ call'.given = call.given /\ call'.room = call.room /\ call'.entry = call.entry
        /\ avail \in Nat /\ left \in Nat /\ avail <= call.given /\ left <= call.room
        /\ Consumed' = call.given - avail
    <2> HIDE DEF avail, left
    <2> QED BY <1>1, <1>4, <1>5, SpendCall
  <1>7. decoded' \in Nat /\ sent' \in Nat /\ decoded' = sent' /\ decoded' = FrameBefore(frame + 1)
    <2>1. /\ decoded \in Nat /\ sent \in Nat /\ decoded = sent /\ decoded = f.before
          /\ f.before \in Nat /\ f.content \in Nat
          /\ decoded' = decoded + f.content /\ sent' = sent + f.content
      BY <1>1, <1>2, <1>3, Numbers
    <2>2. FrameBefore(frame + 1) = f.before + f.content
      BY <1>3
    <2>3. f.before + f.content \in Nat
      BY <2>1
    <2>4. decoded' = f.before + f.content /\ sent' = f.before + f.content
      BY <2>1
    <2> HIDE DEF f
    <2> QED BY <2>2, <2>3, <2>4
  <1>8. TypeOK'
    <2>1. streamStage' \in StreamStages /\ stage' \in DStages /\ expected' \in Nat
      BY <1>2 DEF StreamStages, DStages
    <2> QED
      BY <1>2, <1>6, <1>7, <2>1 DEF IInv, TypeOK
  <1>9. ~HoldsHostage' /\ ~InFrame'
    BY <1>1, <1>2 DEF HoldsHostage, InFrame
  <1>10. Place'
    <2>1. Offset' = FrameFrom(frame + 1) /\ DecodedThere' = FrameBefore(frame + 1)
      BY <1>2, <1>9 DEF Offset, DecodedThere
    <2>2. pos + Consumed' + 0 = FrameFrom(frame + 1)
      <3>1. pos \in Nat /\ Consumed \in Nat /\ call.given \in Nat
        BY Numbers, CallNumbers
      <3> HIDE DEF f, size
      <3>2. Consumed' = size
        BY <1>3, <1>6, <3>1
      <3>3. pos = f.from
        BY <1>1, <1>2, <1>3, <3>1
      <3> QED BY <1>3, <3>2, <3>3
    <2> QED
      BY <1>1, <1>2, <1>6, <1>7, <1>9, <2>1, <2>2 DEF Place
  <1>11. Arguments'
    <2>1. call.entry.sent + call.room - call.left = sent
      BY <1>1 DEF IInv, Arguments
    <2>2. call.entry.sent \in Nat /\ call.room \in Nat /\ call.left \in Nat /\ sent \in Nat
      BY CallNumbers, Numbers DEF Pipe!DecoderState
    <2>3. call.entry.sent + call.room - left = sent'
      <3> HIDE DEF f
      <3> QED BY <1>2, <1>3, <2>1, <2>2
    <2> HIDE DEF avail, left
    <2> QED
      BY <1>1, <1>2, <1>6, <2>3 DEF IInv, Arguments
  <1>12. Stages'
    BY <1>1, <1>2, <1>9 DEF Stages
  <1>13. Loop'
    <2>1. FrameFrom(frame) <= pos
      BY <1>1, <1>3
    <2> QED
      BY <1>1, <1>2, <1>3, <1>6, <2>1 DEF Loop
  <1>14. Output'
    <2>1. decoded' - sent' = outEnd' - outStart'
      BY <1>1, <1>2, <1>7
    <2> QED
      BY <1>1, <1>2, <1>9, <2>1 DEF Output
  <1> QED
    BY <1>8, <1>9, <1>10, <1>11, <1>12, <1>13, <1>14 DEF IInv

LEMMA ConsumeHeaderIInv == ASSUME IInv, ConsumeHeader PROVE IInv'
  <1> DEFINE f == Frames[frame]
             neededIn  == Larger(BlockSizeMax(f), ChecksumSize)
             neededOut == DecodingBufferSize(f)
  <1>1. /\ call.running /\ call.work /\ ~call.hint /\ streamStage = "zdss_loadHeader"
        /\ ~broken /\ ~hostageByte /\ block = 1 /\ outEnd = 0 /\ outStart = 0 /\ decoded = sent
        /\ frame \in DOMAIN Frames /\ frame <= Len(Frames) /\ lhSize = f.header
        /\ pos + Consumed = f.from + lhSize
        /\ decoded = f.before
        /\ pos + call.given <= TextSize
        /\ inPos = 0 /\ expected = 0
        /\ f.from <= pos /\ pos < FrameStop(f)
    BY HeaderDone DEF ConsumeHeader
  <1>2. /\ stage' = IF f.skippable THEN "ZSTDds_skipFrame" ELSE "ZSTDds_decodeBlockHeader"
        /\ expected' = IF f.skippable THEN f.content ELSE BlockHeaderSize
        /\ \/ /\ inBuffSize >= neededIn /\ outBuffSize >= neededOut
              /\ UNCHANGED <<inBuffSize, outBuff, outBuffSize>>
           \/ /\ inBuffSize' = neededIn /\ outBuffSize' = neededOut
              /\ outBuff' = [i \in 0 .. neededOut - 1 |-> 0]
        /\ streamStage' = "zdss_read"
        /\ UNCHANGED <<lhSize, inPos, outStart, outEnd, hostageByte, noForwardProgress>>
        /\ UNCHANGED <<frame, block, decoded, sent, pos, broken, last, call>>
    <2>1. neededIn \in Nat /\ neededOut \in Nat /\ inBuffSize \in Nat /\ outBuffSize \in Nat
      <3>1. BlockSizeMax(f) \in Nat /\ neededOut \in Nat
        BY <1>1, FrameType, RingRoom, Numbers
      <3> QED BY <3>1, Numbers, Sizes DEF Larger
    <2>2. ~(inBuffSize < neededIn \/ outBuffSize < neededOut) =>
            inBuffSize >= neededIn /\ outBuffSize >= neededOut
      <3> HIDE DEF neededIn, neededOut
      <3> QED BY <2>1
    <2> QED
      BY <2>2 DEF ConsumeHeader, endVars, placeVars, callerVars
  <1>3. /\ f.content \in Nat /\ f.before \in Nat /\ f.from \in Nat /\ f.header \in Nat
        /\ f.skippable \in BOOLEAN /\ f.declared \in BOOLEAN
        /\ BlockSizeMax(f) \in Nat /\ frame \in Nat /\ 1 <= frame
        /\ ~f.skippable => f.blocks # <<>> /\ f.blocks \in Seq(Block)
    BY <1>1, FrameType
  <1>4. /\ inBuffSize' \in Nat /\ outBuffSize' \in Nat
        /\ neededIn <= inBuffSize' /\ neededOut <= outBuffSize' /\ neededOut \in Nat
        /\ neededIn \in Nat
        /\ outBuff' \in [0 .. outBuffSize' - 1 -> Nat]
    <2>1. neededIn \in Nat /\ neededOut \in Nat /\ inBuffSize \in Nat /\ outBuffSize \in Nat
      <3>1. BlockSizeMax(f) \in Nat /\ neededOut \in Nat
        BY <1>1, FrameType, RingRoom, Numbers
      <3> QED BY <3>1, Numbers, Sizes DEF Larger
    <2>2. outBuff \in [0 .. outBuffSize - 1 -> Nat]
      BY DEF IInv, TypeOK
    <2> HIDE DEF neededIn, neededOut
    <2> QED BY <1>2, <2>1, <2>2
  <1>5. ~f.skippable => /\ 1 \in DOMAIN f.blocks /\ block \in DOMAIN f.blocks
                        /\ CurrentBlock.from = f.header /\ CurrentBlock.before = 0
    BY <1>1, <1>3, BlocksAssumption DEF CurrentBlock
  <1>6. ~HoldsHostage' /\ InFrame'
    BY <1>1, <1>2 DEF HoldsHostage, InFrame
  <1>7. TypeOK'
    <2>1. streamStage' \in StreamStages /\ stage' \in DStages
      BY <1>2 DEF StreamStages, DStages
    <2>2. expected' \in Nat
      BY <1>2, <1>3, Sizes
    <2>3. outStart' \in 0 .. outBuffSize' /\ outEnd' \in outStart' .. outBuffSize'
      BY <1>1, <1>2, <1>4
    <2> HIDE DEF neededIn, neededOut
    <2> QED
      BY <1>2, <1>4, <2>1, <2>2, <2>3 DEF IInv, TypeOK
  <1>8. Place'
    <2>1. Offset' = f.from + f.header /\ DecodedThere' = f.before
      <3> DEFINE size == FrameSize(f)
      <3>1. CASE f.skippable
        <4>1. PartStop' = size /\ DecodedOfFrame' = 0
          BY <1>2, <3>1 DEF PartStop, DecodedOfFrame, InBlock, ContentOf
        <4>2. size = f.header + f.content /\ expected' = f.content
          BY <1>1, <1>2, <3>1, FrameFacts
        <4>3. Offset' = f.from + size - f.content + 0 /\ DecodedThere' = f.before + 0
          BY <1>1, <1>2, <1>6, <4>1, <4>2 DEF Offset, DecodedThere
        <4> HIDE DEF f, size
        <4> QED BY <1>3, <4>2, <4>3
      <3>2. CASE ~f.skippable
        <4>1. PartStop' = f.header + BlockHeaderSize /\ DecodedOfFrame' = 0 /\ expected' = BlockHeaderSize
          BY <1>2, <1>5, <3>2 DEF PartStop, DecodedOfFrame, CurrentBlock
        <4>2. /\ Offset' = f.from + (f.header + BlockHeaderSize) - BlockHeaderSize + 0
              /\ DecodedThere' = f.before + 0
          BY <1>1, <1>2, <1>6, <4>1 DEF Offset, DecodedThere
        <4> HIDE DEF f
        <4> QED BY <1>3, <4>2, Sizes
      <3> QED BY <3>1, <3>2
    <2>2. Consumed' = Consumed /\ pos + Consumed + 0 = f.from + f.header
      <3>1. Consumed' = Consumed
        BY <1>2 DEF Consumed
      <3>2. pos + Consumed = f.from + f.header /\ pos \in Nat /\ Consumed \in Nat
        BY <1>1, Numbers, CallNumbers
      <3> HIDE DEF f
      <3> QED BY <3>1, <3>2
    <2> QED
      BY <1>1, <1>2, <1>6, <2>1, <2>2 DEF Place
  <1>9. Arguments'
    BY <1>1, <1>2 DEF IInv, Arguments
  <1>10. Stages'
    BY <1>1, <1>2, <1>6 DEF Stages
  <1>11. Loop'
    BY <1>1, <1>2 DEF IInv, Loop
  <1>12. Output'
    <2>1. ~Unflushed'
      BY <1>1, <1>2 DEF Unflushed
    <2> QED
      BY <1>1, <1>2, <1>6, <2>1 DEF IInv, Output
  <1>13. StagesInFrame'
    <2>1. inBuffSize' >= Larger(BlockSizeMax(f), ChecksumSize)
      <3> HIDE DEF neededIn
      <3>1. inBuffSize' >= neededIn
        BY <1>4
      <3> QED BY <3>1 DEF neededIn
    <2> HIDE DEF neededIn, neededOut
    <2> QED
      BY <1>1, <1>2, <1>5, <2>1 DEF StagesInFrame, InBlock, CurrentBlock
  <1>14. Ring'
    <2>1. Lap' = f.before /\ outEnd' = 0
      <3>1. decoded' = f.before /\ outEnd' = 0
        BY <1>1, <1>2
      <3> QED BY <3>1, <1>3 DEF Lap
    <2>2. Wraps' => 0 + BlockSizeMax(f) <= outBuffSize'
      <3> DEFINE max == BlockSizeMax(f)
                 fits == (f.declared \/ f.skippable) /\ f.content <= outBuffSize'
      <3>1. ~fits => f.window + 2 * max <= outBuffSize'
        BY <1>1, <1>4, RingRoom
      <3>2. Wraps' => ~fits
        BY <1>2 DEF Wraps
      <3>3. f.window \in Nat /\ max \in Nat
        BY <1>1, FrameType
      <3> HIDE DEF f, max, fits
      <3>4. Wraps' => 0 + max <= outBuffSize'
        BY <3>1, <3>2, <3>3, <1>4
      <3> QED BY <3>4 DEF max, f
    <2>3. f.before <= Lap' /\ ~(f.before < Lap')
      BY <2>1, <1>3
    <2>4. \A i \in 0 .. outEnd' - 1 : outBuff'[i] = Lap' + 1 + i
      BY <2>1
    <2> HIDE DEF neededIn
    <2> QED
      BY <1>2, <1>4, <2>1, <2>2, <2>3, <2>4 DEF Ring
  <1> QED
    BY <1>7, <1>8, <1>9, <1>10, <1>11, <1>12, <1>13, <1>14 DEF IInv

\* When nothing is needed the frame is at its end.
LEMMA NothingNeeded ==
  ASSUME IInv, InFrame, call.running
  PROVE  /\ NeededInSize(call.avail) = 0 => expected = 0
         /\ NeededInSize(call.avail) \in Nat
         /\ NeededInSize(call.avail) <= expected
         /\ expected > 0 => NeededInSize(call.avail) > 0
         /\ InBlock /\ CurrentBlock.raw /\ call.avail > 0 => NeededInSize(call.avail) <= call.avail
         /\ ~(InBlock /\ CurrentBlock.raw) => NeededInSize(call.avail) = expected
  <1>1. expected \in Nat /\ call.avail \in Nat
    BY Numbers, CallNumbers
  <1>2. InBlock => expected > 0
    BY DEF IInv, StagesInFrame
  <1>3. CASE InBlock /\ CurrentBlock.raw
    <2>1. NeededInSize(call.avail) = Larger(1, Smaller(call.avail, expected))
      BY <1>3 DEF NeededInSize
    <2>2. expected > 0
      BY <1>2, <1>3
    <2> QED BY <1>1, <1>3, <2>1, <2>2 DEF Larger, Smaller
  <1>4. CASE ~(InBlock /\ CurrentBlock.raw)
    <2>1. NeededInSize(call.avail) = expected
      BY <1>4 DEF NeededInSize
    <2> QED BY <1>1, <1>4, <2>1
  <1> QED BY <1>3, <1>4

\* Steps that neither decode nor flush.
LEMMA SameRing ==
  ASSUME IInv, InFrame,
         UNCHANGED <<outBuff, outBuffSize, outEnd, frame, decoded>>,
         streamStage' = "zdss_flush" \/ streamStage # "zdss_flush"
  PROVE  Ring'
  <1>1. Ring
    BY DEF IInv
  <1> QED
    BY <1>1 DEF Ring, Wraps, Lap

\* Steps that neither decode nor go on to another frame.
LEMMA SameFrame ==
  ASSUME IInv, InFrame,
         UNCHANGED <<stage, expected, inBuffSize, outBuff, outBuffSize, outEnd, frame, block, decoded>>,
         streamStage' # "zdss_flush" \/ streamStage = "zdss_flush",
         streamStage' = "zdss_flush" \/ streamStage # "zdss_flush",
         streamStage' = "zdss_load" => inPos' < expected /\ ~(InBlock /\ CurrentBlock.raw)
  PROVE  StagesInFrame' /\ Ring'
  <1>1. StagesInFrame
    BY DEF IInv
  <1>2. StagesInFrame'
    BY <1>1 DEF StagesInFrame, InBlock, CurrentBlock
  <1>3. Ring'
    BY SameRing
  <1> QED BY <1>2, <1>3

LEMMA ReadEndIInv == ASSUME IInv, ReadEnd PROVE IInv'
  <1> DEFINE f == Frames[frame]
  <1>1. /\ call.running /\ call.work /\ streamStage = "zdss_read"
        /\ NeededInSize(call.avail) = 0
        /\ streamStage' = "zdss_init"
        /\ call' = [call EXCEPT !.avail = call.avail, !.work = FALSE]
        /\ UNCHANGED <<stage, expected, lhSize, inPos, inBuffSize>>
        /\ UNCHANGED <<outBuff, outBuffSize, outStart, outEnd, hostageByte, noForwardProgress>>
        /\ UNCHANGED <<frame, block, decoded, sent, pos, broken, last>>
    BY DEF ReadEnd, InLoop, Stop, inVars, outVars, endVars, placeVars, callerVars
  <1>2. InFrame /\ expected = 0 /\ ~broken /\ ~call.hint
    <2>1. InFrame /\ ~broken /\ ~call.hint
      BY <1>1 DEF InFrame, IInv, Arguments
    <2> QED BY <1>1, <2>1, NothingNeeded
  <1>3. /\ frame \in DOMAIN Frames /\ frame <= Len(Frames)
        /\ PartStop = FrameSize(f) /\ DecodedOfFrame = ContentOf(f)
        /\ Offset = f.from + PartStop - expected + inPos
    BY <1>2, Parts
  <1>4. /\ f.from \in Nat /\ f.before \in Nat /\ FrameSize(f) \in Nat /\ frame \in Nat /\ 1 <= frame
        /\ FrameFrom(frame + 1) = f.from + FrameSize(f)
        /\ FrameBefore(frame + 1) = f.before + ContentOf(f)
    BY <1>3, FrameType, FrameFacts
  <1>5. inPos = 0 /\ outStart = outEnd
    BY <1>1, Numbers DEF IInv, Stages
  <1>6. /\ call' \in Calls
        /\ call'.running /\ call'.avail = call.avail /\ call'.left = call.left
        /\ ~call'.work /\ ~call'.hint
        /\ call'.given = call.given /\ call'.room = call.room /\ call'.entry = call.entry
        /\ Consumed' = Consumed
    <2>1. call.avail \in 0 .. call.avail /\ call.left \in 0 .. call.left
      <3>1. call.avail \in Nat /\ call.left \in Nat
        BY CallNumbers
      <3> QED BY <3>1
    <2>2. call' = [call EXCEPT !.avail = call.avail, !.left = call.left, !.work = FALSE, !.hint = FALSE]
      BY <1>1, <1>2 DEF IInv, TypeOK, Calls
    <2>3. FALSE \in BOOLEAN
      OBVIOUS
    <2>4. /\ call' \in Calls
          /\ call'.running /\ call'.avail = call.avail /\ call'.left = call.left
          /\ call'.work = FALSE /\ call'.hint = FALSE
          /\ call'.given = call.given /\ call'.room = call.room /\ call'.entry = call.entry
          /\ Consumed' = call.given - call.avail
      BY ONLY IInv, <1>1, <2>1, <2>2, <2>3, SpendCall, ZenonT(40)
    <2> QED BY <2>4 DEF Consumed
  <1>7. TypeOK'
    BY <1>1, <1>6 DEF IInv, TypeOK, StreamStages
  <1>8. /\ HoldsHostage' = HoldsHostage /\ (InFrame' <=> HoldsHostage) /\ (HoldsHostage <=> hostageByte)
        /\ (Unflushed' <=> Unflushed)
    BY <1>1, <1>6 DEF HoldsHostage, InFrame, Unflushed
  <1>9. stage \in {"ZSTDds_getFrameHeaderSize", "ZSTDds_skipFrame"}
    BY <1>2, Sizes DEF IInv, TypeOK, DStages, StagesInFrame, InBlock
  <1>10. Place'
    <2>1. Offset = FrameFrom(frame + 1) /\ DecodedThere = FrameBefore(frame + 1)
      <3>1. DecodedThere = f.before + ContentOf(f)
        BY <1>2, <1>3 DEF DecodedThere
      <3>2. Offset = f.from + FrameSize(f)
        <4> DEFINE size == FrameSize(f)
        <4>1. Offset = f.from + size - 0 + 0
          BY <1>2, <1>3, <1>5
        <4> HIDE DEF f, size
        <4>2. Offset = f.from + size
          BY <4>1, <1>4 DEF size
        <4> QED BY <4>2 DEF size, f
      <3> QED BY <3>1, <3>2, <1>4
    <2>2. Offset' = Offset
      <3>1. CASE HoldsHostage
        BY <3>1, <1>1, <1>2, <1>8 DEF Offset, PartStop, CurrentBlock, InBlock
      <3>2. CASE ~HoldsHostage
        BY <3>2, <1>1, <1>8, <2>1 DEF Offset
      <3> QED BY <3>1, <3>2
    <2>3. DecodedThere' = DecodedThere
      <3>1. CASE HoldsHostage
        BY <3>1, <1>1, <1>2, <1>8 DEF DecodedThere, DecodedOfFrame, CurrentBlock, InBlock
      <3>2. CASE ~HoldsHostage
        BY <3>2, <1>1, <1>8, <2>1 DEF DecodedThere
      <3> QED BY <3>1, <3>2
    <2> QED
      BY <1>1, <1>2, <1>6, <1>8, <2>2, <2>3 DEF IInv, Place
  <1>11. Arguments'
    BY <1>1, <1>6 DEF IInv, Arguments
  <1>12. Stages'
    BY <1>1, <1>2, <1>3, <1>5, <1>8, <1>9 DEF IInv, Stages
  <1>13. Loop'
    <2>1. frame > 0 /\ FrameFrom(frame) <= pos /\ pos < FrameStop(f)
      BY <1>1, <1>3, <1>4 DEF IInv, Loop
    <2> QED
      BY <1>1, <1>6, <2>1 DEF Loop
  <1>14. Output'
    BY <1>1, <1>2, <1>5, <1>6, <1>8 DEF IInv, Output, Unflushed
  <1>15. InFrame' => StagesInFrame' /\ Ring'
    BY <1>1, <1>2, SameFrame
  <1> QED
    BY <1>7, <1>10, <1>11, <1>12, <1>13, <1>14, <1>15 DEF IInv

LEMMA ReadMoreIInv == ASSUME IInv, ReadMore PROVE IInv'
  <1>1. /\ call.running /\ call.work /\ streamStage = "zdss_read"
        /\ NeededInSize(call.avail) > call.avail
        /\ UNCHANGED <<stage, expected, lhSize, inPos, inBuffSize>>
        /\ UNCHANGED <<outBuff, outBuffSize, outStart, outEnd, hostageByte, noForwardProgress>>
        /\ UNCHANGED <<frame, block, decoded, sent, pos, broken, last>>
    BY DEF ReadMore, InLoop, inVars, outVars, endVars, placeVars, callerVars
  <1>2. /\ call.avail = 0 => streamStage' = streamStage /\ call' = [call EXCEPT !.avail = 0, !.work = FALSE]
        /\ call.avail # 0 => streamStage' = "zdss_load" /\ call' = call
    BY DEF ReadMore, Stop
  <1>3. InFrame /\ ~broken /\ ~call.hint /\ inPos = 0
    BY <1>1 DEF InFrame, IInv, Arguments, Stages
  <1>4. expected > 0 /\ (call.avail # 0 => ~(InBlock /\ CurrentBlock.raw))
    <2>1. expected \in Nat /\ call.avail \in Nat
      BY Numbers, CallNumbers
    <2> DEFINE needed == NeededInSize(call.avail)
    <2>2. /\ needed \in Nat /\ needed <= expected /\ needed > call.avail
          /\ InBlock /\ CurrentBlock.raw /\ call.avail > 0 => needed <= call.avail
      BY <1>1, <1>3, NothingNeeded
    <2> HIDE DEF needed
    <2>3. expected > 0 /\ (call.avail # 0 => call.avail > 0 /\ ~(needed <= call.avail))
      BY <2>1, <2>2
    <2> QED BY <2>2, <2>3
  <1>5. /\ call' \in Calls
        /\ call'.running /\ call'.avail = call.avail /\ call'.left = call.left
        /\ ~call'.hint
        /\ call'.given = call.given /\ call'.room = call.room /\ call'.entry = call.entry
        /\ Consumed' = Consumed
        /\ ~call'.work => streamStage' = "zdss_read" /\ call.avail = 0
    <2>1. CASE call.avail = 0
      <3>1. 0 \in 0 .. call.avail /\ call.left \in 0 .. call.left
        <4>1. call.left \in Nat
          BY CallNumbers
        <4> QED BY <4>1, <2>1
      <3>2. call' = [call EXCEPT !.avail = 0, !.left = call.left, !.work = FALSE, !.hint = FALSE]
        BY <1>2, <1>3, <2>1 DEF IInv, TypeOK, Calls
      <3>3. /\ call' \in Calls
            /\ call'.running /\ call'.avail = 0 /\ call'.left = call.left
            /\ ~call'.work /\ ~call'.hint
            /\ call'.given = call.given /\ call'.room = call.room /\ call'.entry = call.entry
            /\ Consumed' = call.given - 0
        BY <1>1, <3>1, <3>2, SpendCall
      <3> QED BY <1>1, <1>2, <2>1, <3>3 DEF Consumed
    <2>2. CASE call.avail # 0
      BY <1>1, <1>2, <1>3, <2>2 DEF IInv, TypeOK, Consumed
    <2> QED BY <2>1, <2>2
  <1>6. streamStage' \in {"zdss_read", "zdss_load"} /\ (streamStage' = "zdss_load" => call.avail # 0)
    BY <1>1, <1>2
  <1>7. TypeOK'
    BY <1>1, <1>5, <1>6 DEF IInv, TypeOK, StreamStages
  <1>8. HoldsHostage' = HoldsHostage /\ (InFrame' <=> InFrame) /\ (Unflushed' <=> Unflushed)
    BY <1>1, <1>6 DEF HoldsHostage, InFrame, Unflushed
  <1>9. Place'
    <2>1. Offset' = Offset /\ DecodedThere' = DecodedThere
      BY <1>1, <1>3, <1>8
      DEF Offset, DecodedThere, PartStop, DecodedOfFrame, CurrentBlock, InBlock
    <2> QED
      BY <1>1, <1>5, <1>8, <2>1 DEF IInv, Place
  <1>10. Arguments'
    BY <1>1, <1>5 DEF IInv, Arguments
  <1>11. Stages'
    BY <1>1, <1>3, <1>6, <1>8 DEF IInv, Stages
  <1>12. Loop'
    BY <1>1, <1>4, <1>5, <1>6 DEF IInv, Loop
  <1>13. Output'
    BY <1>1, <1>4, <1>5, <1>6, <1>8 DEF IInv, Output
  <1>14. StagesInFrame' /\ Ring'
    <2>1. streamStage' = "zdss_load" => inPos' < expected /\ ~(InBlock /\ CurrentBlock.raw)
      BY <1>1, <1>3, <1>4, <1>6
    <2> QED BY <1>1, <1>3, <1>6, <2>1, SameFrame
  <1> QED
    BY <1>7, <1>9, <1>10, <1>11, <1>12, <1>13, <1>14 DEF IInv

\* Input that is too little is gathered.
LoadMore ==
  /\ InLoop("zdss_load")
  /\ call.avail < expected - inPos
  /\ inPos' = inPos + call.avail
  /\ Stop(0)
  /\ UNCHANGED <<stageVars, lhSize, inBuffSize, outVars, endVars, placeVars, sent, callerVars>>

LEMMA LoadMoreIInv == ASSUME IInv, LoadMore PROVE IInv'
  <1>1. /\ call.running /\ call.work /\ streamStage = "zdss_load"
        /\ call.avail < expected - inPos
        /\ inPos' = inPos + call.avail
        /\ call' = [call EXCEPT !.avail = 0, !.work = FALSE]
        /\ UNCHANGED <<streamStage, stage, expected, lhSize, inBuffSize>>
        /\ UNCHANGED <<outBuff, outBuffSize, outStart, outEnd, hostageByte, noForwardProgress>>
        /\ UNCHANGED <<frame, block, decoded, sent, pos, broken, last>>
    BY DEF LoadMore, InLoop, Stop, stageVars, outVars, endVars, placeVars, callerVars
  <1>2. InFrame /\ ~broken /\ ~call.hint /\ ~(InBlock /\ CurrentBlock.raw)
    BY <1>1 DEF InFrame, IInv, Arguments, StagesInFrame
  <1>3. /\ expected \in Nat /\ inPos \in Nat /\ call.avail \in Nat /\ call.given \in Nat
        /\ call.left \in Nat /\ pos \in Nat
    BY Numbers, CallNumbers
  <1>4. inPos' \in Nat /\ inPos' < expected /\ expected > 0
    BY <1>1, <1>3
  <1>5. /\ call' \in Calls
        /\ call'.running /\ call'.avail = 0 /\ call'.left = call.left
        /\ ~call'.work /\ ~call'.hint
        /\ call'.given = call.given /\ call'.room = call.room /\ call'.entry = call.entry
        /\ Consumed' = call.given - 0
    <2>1. 0 \in 0 .. call.avail /\ call.left \in 0 .. call.left
      BY <1>3
    <2>2. call' = [call EXCEPT !.avail = 0, !.left = call.left, !.work = FALSE, !.hint = FALSE]
      BY <1>1, <1>2 DEF IInv, TypeOK, Calls
    <2> QED BY <1>1, <2>1, <2>2, SpendCall
  <1>6. TypeOK'
    BY <1>1, <1>4, <1>5 DEF IInv, TypeOK
  <1>7. /\ HoldsHostage' = HoldsHostage /\ InFrame' /\ (Unflushed' <=> Unflushed)
        /\ ~HoldsHostage
    BY <1>1, <1>2, <1>4 DEF HoldsHostage, InFrame, Unflushed, IInv, Stages
  <1>8. Place'
    <2>1. DecodedThere' = DecodedThere /\ PartStop' = PartStop
      BY <1>1, <1>2, <1>7
      DEF DecodedThere, PartStop, DecodedOfFrame, CurrentBlock, InBlock
    <2>2. pos + Consumed' + 0 = Offset'
      <3> DEFINE from == Frames[frame].from
      <3>1. pos + Consumed + 0 = Offset /\ Offset = from + PartStop - expected + inPos
            /\ PartStop \in Nat /\ frame \in DOMAIN Frames
        BY <1>2, <1>7, Parts DEF IInv, Place
      <3>2. Offset' = from + PartStop - expected + inPos'
        BY <1>1, <1>7, <2>1 DEF Offset
      <3>3. from \in Nat
        BY <3>1, FrameType
      <3>4. Consumed = call.given - call.avail /\ Consumed' = call.given - 0
        BY <1>5, CallNumbers
      <3> HIDE DEF from
      <3> QED BY <1>1, <1>3, <3>1, <3>2, <3>3, <3>4
    <2> QED
      BY <1>1, <1>5, <1>7, <2>1, <2>2 DEF IInv, Place
  <1>9. Arguments'
    BY <1>1, <1>3, <1>5 DEF IInv, Arguments
  <1>10. Stages'
    BY <1>1, <1>7 DEF IInv, Stages
  <1>11. Loop'
    BY <1>1, <1>4, <1>5 DEF IInv, Loop
  <1>12. Output'
    BY <1>1, <1>4, <1>5, <1>7 DEF IInv, Output
  <1>13. StagesInFrame' /\ Ring'
    BY <1>1, <1>2, <1>4, SameFrame
  <1> QED
    BY <1>6, <1>8, <1>9, <1>10, <1>11, <1>12, <1>13 DEF IInv

LEMMA DecodeFailsIInv == ASSUME IInv, DecodeFails PROVE IInv'
  <1>1. /\ call.running /\ streamStage \in {"zdss_loadHeader", "zdss_read", "zdss_load"}
        /\ broken' = TRUE
        /\ last' = [given |-> call.given, room |-> call.room, read |-> 0, wrote |-> 0,
                    failed |-> TRUE, done |-> FALSE]
        /\ call' = Idle /\ sent' = call.entry.sent
        /\ UNCHANGED <<streamStage, stage, expected, lhSize, inPos, inBuffSize>>
        /\ UNCHANGED <<outBuff, outBuffSize, outStart, outEnd, hostageByte, noForwardProgress>>
        /\ UNCHANGED <<frame, block, decoded, pos>>
    BY DEF DecodeFails, InLoop, stageVars, inVars, outVars, endVars, placeVars
  <1>2. last' \in Outcomes /\ sent' \in Nat /\ call' \in Calls
    BY <1>1, CallNumbers, IdleIsCall DEF Outcomes, Pipe!DecoderState
  <1>3. ~call'.running /\ ~call'.hint /\ call'.avail = 0 /\ call'.given = 0 /\ call'.left = 0
        /\ call'.room = 0
    BY <1>1 DEF Idle
  <1>4. TypeOK'
    BY <1>1, <1>2 DEF IInv, TypeOK
  <1>5. HoldsHostage' = HoldsHostage /\ (InFrame' <=> InFrame)
    BY <1>1 DEF HoldsHostage, InFrame
  <1>6. outStart' = outEnd'
    BY <1>1, Numbers
  <1>7. Place'
    <2>1. DecodedThere' = DecodedThere
      BY <1>1, <1>5 DEF DecodedThere, DecodedOfFrame, CurrentBlock, InBlock
    <2> QED
      BY <1>1, <1>3, <2>1 DEF IInv, Place
  <1>8. Arguments'
    BY <1>1, <1>3 DEF Arguments
  <1>9. Stages'
    BY <1>1, <1>5 DEF IInv, Stages
  <1>10. Loop'
    BY <1>1, <1>3 DEF Loop
  <1>11. Output'
    BY <1>1, <1>3, <1>6 DEF Output, Unflushed
  <1>12. InFrame' => StagesInFrame' /\ Ring'
    <2>1. InFrame /\ streamStage' = "zdss_load" => inPos' < expected /\ ~(InBlock /\ CurrentBlock.raw)
      BY <1>1 DEF IInv, StagesInFrame
    <2> QED BY <1>1, <1>5, <2>1, SameFrame
  <1> QED
    BY <1>4, <1>7, <1>8, <1>9, <1>10, <1>11, <1>12 DEF IInv

LEMMA FlushIInv == ASSUME IInv, Flush PROVE IInv'
  <1> DEFINE f == Frames[frame]
             start == FlushEnd
             max == BlockSizeMax(f)
             left == call.left - (start - outStart)
             complete == start = outEnd
  <1>1. /\ call.running /\ call.work /\ streamStage = "zdss_flush"
        /\ sent' = sent + (start - outStart)
        /\ call' = [call EXCEPT !.left = left, !.work = complete]
        /\ streamStage' = IF complete THEN "zdss_read" ELSE "zdss_flush"
        /\ IF Restarts(start) THEN outStart' = 0 /\ outEnd' = 0
                              ELSE outStart' = start /\ outEnd' = outEnd
        /\ UNCHANGED <<stage, expected, lhSize, inPos, inBuffSize>>
        /\ UNCHANGED <<outBuff, outBuffSize, hostageByte, noForwardProgress>>
        /\ UNCHANGED <<frame, block, decoded, pos, broken, last>>
    BY DEF Flush, FlushTo, InLoop, inVars, endVars, placeVars, callerVars
  <1>2. InFrame /\ ~broken /\ ~call.hint /\ inPos = 0
    BY <1>1 DEF InFrame, IInv, Arguments, Stages
  <1>3. /\ frame \in DOMAIN Frames /\ frame <= Len(Frames) /\ f.before \in Nat /\ f.window \in Nat
        /\ max \in Nat /\ f.from \in Nat
    BY <1>2, Parts, FrameType
  <1>4. /\ outStart \in Nat /\ outEnd \in Nat /\ outStart <= outEnd /\ outEnd <= outBuffSize
        /\ outBuffSize \in Nat /\ decoded \in Nat /\ sent \in Nat
        /\ call.left \in Nat /\ call.avail \in Nat /\ call.room \in Nat /\ call.left <= call.room
    BY Numbers, CallNumbers
  <1>5. /\ start \in Nat /\ outStart <= start /\ start <= outEnd
        /\ left \in 0 .. call.left /\ left = call.left - (start - outStart)
        /\ ~complete => left = 0
    <2>1. start = Smaller(outStart + call.left, outEnd)
      BY DEF FlushEnd
    <2>2. start \in Nat /\ outStart <= start /\ start <= outEnd /\ start <= outStart + call.left
          /\ (~complete => start = outStart + call.left)
      <3> HIDE DEF start
      <3> QED BY <2>1, <1>4 DEF Smaller
    <2> HIDE DEF start
    <2> QED BY <2>2, <1>4
  <1>6. /\ call' \in Calls
        /\ call'.running /\ call'.avail = call.avail /\ call'.left = left
        /\ (call'.work <=> complete) /\ ~call'.hint
        /\ call'.given = call.given /\ call'.room = call.room /\ call'.entry = call.entry
        /\ Consumed' = Consumed
    <2>1. call.avail \in 0 .. call.avail
      BY <1>4
    <2>2. call' = [call EXCEPT !.avail = call.avail, !.left = left, !.work = complete, !.hint = FALSE]
      BY <1>1, <1>2 DEF IInv, TypeOK, Calls
    <2> HIDE DEF left, complete
    <2>3. complete \in BOOLEAN
      BY DEF complete
    <2>4. FALSE \in BOOLEAN /\ left \in 0 .. call.left
      BY <1>5
    <2>5. /\ call' \in Calls
          /\ call'.running /\ call'.avail = call.avail /\ call'.left = left
          /\ call'.work = complete /\ call'.hint = FALSE
          /\ call'.given = call.given /\ call'.room = call.room /\ call'.entry = call.entry
          /\ Consumed' = call.given - call.avail
      BY ONLY IInv, <1>1, <2>1, <2>2, <2>3, <2>4, SpendCall, ZenonT(40)
    <2> QED BY <2>3, <2>5 DEF Consumed
  <1>7. Restarts(start) => /\ complete /\ Wraps /\ outBuffSize < outEnd + max
    <2>1. Restarts(start) => complete /\ Wraps /\ start + max > outBuffSize
      BY DEF Restarts, Wraps
    <2>2. complete /\ start + max > outBuffSize => outBuffSize < outEnd + max
      <3> HIDE DEF start, max
      <3> QED BY <1>3, <1>4, <1>5
    <2> QED BY <2>1, <2>2
  <1>8. complete /\ ~Restarts(start) /\ Wraps => outEnd + max <= outBuffSize
    <2>1. complete /\ ~Restarts(start) /\ Wraps => ~(start + max > outBuffSize)
      BY DEF Restarts, Wraps
    <2>2. complete /\ ~(start + max > outBuffSize) => outEnd + max <= outBuffSize
      <3> HIDE DEF start, max
      <3> QED BY <1>3, <1>4, <1>5
    <2> QED BY <2>1, <2>2
  <1>9. /\ outStart' \in Nat /\ outEnd' \in Nat /\ outStart' <= outEnd' /\ outEnd' <= outBuffSize
        /\ (complete => outStart' = outEnd')
        /\ outEnd' - outStart' = outEnd - start
        /\ sent' \in Nat
    <2>1. CASE Restarts(start)
      <3>1. outStart' = 0 /\ outEnd' = 0 /\ start = outEnd
        BY <1>1, <1>7, <2>1
      <3> HIDE DEF start
      <3> QED BY <1>1, <1>4, <1>5, <3>1
    <2>2. CASE ~Restarts(start)
      <3>1. outStart' = start /\ outEnd' = outEnd
        BY <1>1, <2>2
      <3> HIDE DEF start
      <3> QED BY <1>1, <1>4, <1>5, <3>1
    <2> QED BY <2>1, <2>2
  <1>10. StagesInFrame /\ Ring /\ TypeOK
    BY <1>2 DEF IInv
  <1> HIDE DEF left
  <1>11. TypeOK'
    <2>1. streamStage' \in StreamStages
      BY <1>1 DEF StreamStages
    <2>2. outStart' \in 0 .. outBuffSize /\ outEnd' \in outStart' .. outBuffSize
      BY <1>4, <1>9
    <2> QED
      BY <1>1, <1>6, <1>9, <1>10, <2>1, <2>2 DEF TypeOK
  <1>12. HoldsHostage' = HoldsHostage /\ InFrame' /\ (Unflushed' => Unflushed)
    <2>1. Unflushed' => Unflushed
      <3>1. ~Unflushed => outStart = outEnd
        BY DEF Unflushed
      <3>2. outStart = outEnd => outStart' = outEnd'
        <4> HIDE DEF start
        <4> QED BY <1>4, <1>5, <1>9
      <3> QED BY <3>1, <3>2 DEF Unflushed
    <2> QED BY <1>1, <2>1 DEF HoldsHostage, InFrame
  <1>13. Place'
    <2>1. Offset' = Offset /\ DecodedThere' = DecodedThere
      BY <1>1, <1>2, <1>12
      DEF Offset, DecodedThere, PartStop, DecodedOfFrame, CurrentBlock, InBlock
    <2> QED
      BY <1>1, <1>6, <1>12, <2>1 DEF IInv, Place
  <1>14. Arguments'
    <2>1. call.entry.sent + call.room - call.left = sent /\ call.entry.sent \in Nat
      BY <1>1, CallNumbers DEF IInv, Arguments, Pipe!DecoderState
    <2>2. call.entry.sent + call.room - left = sent' /\ left <= call.room
      <3> HIDE DEF start
      <3> QED BY <1>1, <1>4, <1>5, <2>1
    <2> QED
      BY <1>1, <1>2, <1>6, <2>2 DEF IInv, Arguments
  <1>15. Stages'
    BY <1>1, <1>2, <1>12 DEF IInv, Stages
  <1>16. Loop'
    <2>1. ~complete => Unflushed' /\ left = 0
      <3>1. ~complete => outEnd' # outStart'
        <4> HIDE DEF start
        <4>1. ~complete => outEnd - start # 0
          BY <1>4, <1>5
        <4> QED BY <4>1, <1>9
      <3> QED BY <3>1, <1>5 DEF Unflushed
    <2> QED
      BY <1>1, <1>2, <1>6, <2>1 DEF IInv, Loop
  <1>17. Output'
    <2>1. decoded - sent = outEnd - outStart
      BY <1>1 DEF IInv, Output
    <2>2. decoded - sent' = outEnd' - outStart'
      <3> HIDE DEF start
      <3> QED BY <1>1, <1>4, <1>5, <1>9, <2>1
    <2> QED
      BY <1>1, <1>2, <1>6, <1>9, <1>12, <2>2 DEF IInv, Output
  <1>18. StagesInFrame'
    BY <1>1, <1>10 DEF StagesInFrame, InBlock, CurrentBlock
  <1>19. Ring'
    <2>1. CASE Restarts(start)
      <3>1. outEnd' = 0 /\ complete /\ Wraps /\ outBuffSize < outEnd + max /\ streamStage' = "zdss_read"
        BY <1>1, <1>7, <2>1
      <3>2. Lap' = decoded /\ Lap' = Lap + outEnd /\ Lap = decoded - outEnd
            /\ f.before <= Lap /\ f.before <= Lap'
        <4>1. Lap = decoded - outEnd /\ Lap' = decoded - 0 /\ f.before <= Lap
          BY <1>1, <1>10, <3>1 DEF Lap, Ring
        <4> HIDE DEF f
        <4> QED BY <1>3, <1>4, <4>1
      <3>3. Wraps' /\ (0 + max <= outBuffSize)
        <4> DEFINE fits == (f.declared \/ f.skippable) /\ f.content <= outBuffSize
        <4>1. ~fits /\ DecodingBufferSize(f) <= outBuffSize => f.window + 2 * max <= outBuffSize
          BY <1>3, <1>4, RingRoom
        <4>2. ~fits /\ DecodingBufferSize(f) <= outBuffSize /\ Wraps'
          BY <1>1, <1>10, <3>1 DEF Wraps, Ring
        <4>3. f.window + 2 * max <= outBuffSize
          BY <4>1, <4>2
        <4> HIDE DEF f, max, fits
        <4>4. 0 + max <= outBuffSize
          BY <4>3, <1>3, <1>4
        <4> QED BY <4>2, <4>4
      <3>4. \A i \in 0 .. outEnd - 1 : outBuff[i] = decoded - outEnd + 1 + i
        BY <1>10, <3>2 DEF Ring
      <3>5. /\ outEnd \in 0 .. outBuffSize
            /\ \A i \in 0 .. outEnd - 1 : outBuff'[i] = Lap' - outEnd + 1 + i
        BY <1>1, <1>4, <3>2, <3>4
      <3> HIDE DEF start, complete
      <3> QED
        BY <1>1, <1>10, <3>1, <3>2, <3>3, <3>5 DEF Ring
    <2>2. CASE ~Restarts(start)
      <3>1. outEnd' = outEnd /\ Lap' = Lap /\ (Wraps' <=> Wraps)
        BY <1>1, <2>2 DEF Lap, Wraps
      <3>2. Wraps /\ streamStage' # "zdss_flush" => outEnd + max <= outBuffSize
        BY <1>1, <1>8, <2>2
      <3> HIDE DEF start, complete
      <3> QED
        BY <1>1, <1>10, <3>1, <3>2 DEF Ring
    <2> QED BY <2>1, <2>2
  <1> QED
    BY <1>11, <1>13, <1>14, <1>15, <1>16, <1>17, <1>18, <1>19 DEF IInv

-----------------------------------------------------------------------------
\* What all returns have in common.
LEMMA ReturnFacts ==
  ASSUME IInv, Counted, Returns, NEW read \in Nat, NEW done \in BOOLEAN, Return(read, done)
  PROVE  /\ call.running /\ ~call.work /\ ~broken /\ ~broken'
         /\ pos' = pos + read /\ pos' \in Nat
         /\ UNCHANGED <<stage, expected, lhSize, inPos, inBuffSize>>
         /\ UNCHANGED <<outBuff, outBuffSize, outStart, outEnd>>
         /\ UNCHANGED <<frame, block, decoded, sent>>
         /\ call' = Idle /\ ~call'.running /\ ~call'.hint /\ call'.given = 0 /\ call'.avail = 0
         /\ call'.left = 0 /\ call'.room = 0
         /\ noForwardProgress' \in 0 .. NoForwardProgressMax
         /\ last' \in Outcomes /\ call' \in Calls
         /\ pos + call.given <= TextSize
         /\ (Unflushed' <=> Unflushed)
  <1>1. call.running /\ ~call.work /\ ~broken /\ pos + call.given <= TextSize
    BY DEF Returns, IInv, Arguments, Place
  <1>2. /\ pos' = pos + read /\ ~broken'
        /\ UNCHANGED <<stage, expected, lhSize, inPos, inBuffSize>>
        /\ UNCHANGED <<outBuff, outBuffSize, outStart, outEnd>>
        /\ UNCHANGED <<frame, block, decoded, sent>>
        /\ call' = Idle
        /\ last' = [given |-> call.given, room |-> call.room, read |-> read,
                    wrote |-> call.room - call.left, failed |-> FALSE, done |-> done]
    BY <1>1 DEF Return, inVars, outVars, placeVars
  <1>3. noForwardProgress' \in 0 .. NoForwardProgressMax
    <2>1. noForwardProgress \in 0 .. NoForwardProgressMax /\ NoForwardProgressMax \in Nat
      BY Sizes DEF IInv, TypeOK
    <2>2. CASE call.hint
      BY <2>1, <2>2 DEF Return
    <2>3. CASE ~call.hint
      <3>1. noForwardProgress' = IF Progress THEN 0 ELSE noForwardProgress + 1
        BY <2>3 DEF Return
      <3>2. ~Progress => noForwardProgress < NoForwardProgressMax
        BY <1>1, <2>3 DEF Counted, Progress
      <3> QED BY <2>1, <3>1, <3>2
    <2> QED BY <2>2, <2>3
  <1>4. last' \in Outcomes
    <2>1. call.room - call.left \in Nat /\ call.given \in Nat /\ call.room \in Nat
      <3>1. call.room \in Nat /\ call.left \in Nat /\ call.left <= call.room /\ call.given \in Nat
        BY CallNumbers
      <3> QED BY <3>1
    <2> QED BY <1>2, <2>1 DEF Outcomes
  <1>5. call' \in Calls /\ ~call'.running /\ ~call'.hint /\ call'.given = 0 /\ call'.avail = 0
        /\ call'.left = 0 /\ call'.room = 0
    BY <1>2, IdleIsCall DEF Idle
  <1>6. pos' \in Nat
    <2>1. pos \in Nat
      BY Numbers
    <2> QED BY <1>2, <2>1
  <1>7. Unflushed' <=> Unflushed
    BY <1>2 DEF Unflushed
  <1> QED
    BY <1>1, <1>2, <1>3, <1>4, <1>5, <1>6, <1>7

LEMMA ReturnTypes ==
  ASSUME IInv, Counted, Returns, NEW read \in Nat, NEW done \in BOOLEAN, Return(read, done),
         streamStage' \in StreamStages, hostageByte' \in BOOLEAN
  PROVE  TypeOK' /\ Arguments'
  <1>1. /\ pos' \in Nat /\ ~broken' /\ broken' \in BOOLEAN
        /\ UNCHANGED <<stage, expected, lhSize, inPos, inBuffSize>>
        /\ UNCHANGED <<outBuff, outBuffSize, outStart, outEnd>>
        /\ UNCHANGED <<frame, block, decoded, sent>>
        /\ call' = Idle /\ ~call'.running /\ ~call'.hint /\ call'.given = 0 /\ call'.avail = 0
        /\ call'.left = 0 /\ call'.room = 0
        /\ noForwardProgress' \in 0 .. NoForwardProgressMax
        /\ last' \in Outcomes /\ call' \in Calls
    <2>1. broken' = broken
      BY DEF Return
    <2> QED BY <2>1, ReturnFacts DEF IInv, TypeOK
  <1>2. TypeOK'
    BY <1>1 DEF IInv, TypeOK
  <1>3. Arguments'
    BY <1>1 DEF Arguments
  <1> QED BY <1>2, <1>3

LEMMA ReturnHintIInv == ASSUME IInv, Counted, ReturnHint PROVE IInv'
  <1>1. Returns /\ Return(Consumed, FALSE) /\ (call.hint \/ expected > 0)
        /\ UNCHANGED <<streamStage, hostageByte>>
    BY DEF ReturnHint
  <1>2. Consumed \in Nat
    BY CallNumbers
  <1>3. /\ call.running /\ ~call.work /\ ~broken /\ ~broken'
        /\ pos' = pos + Consumed /\ pos' \in Nat
        /\ UNCHANGED <<stage, expected, lhSize, inPos, inBuffSize>>
        /\ UNCHANGED <<outBuff, outBuffSize, outStart, outEnd>>
        /\ UNCHANGED <<frame, block, decoded, sent>>
        /\ ~call'.running /\ call'.given = 0 /\ call'.avail = 0
    BY <1>1, <1>2, ReturnFacts
  <1>4. TypeOK' /\ Arguments'
    <2>1. streamStage' \in StreamStages /\ hostageByte' \in BOOLEAN
      BY <1>1 DEF IInv, TypeOK
    <2> QED BY <1>1, <1>2, <2>1, ReturnTypes
  <1>5. ~HoldsHostage /\ ~HoldsHostage' /\ (InFrame' <=> InFrame) /\ (InFrame => expected > 0)
    <2>1. call.hint => streamStage = "zdss_loadHeader" /\ ~hostageByte
      BY DEF IInv, Arguments, Stages
    <2>2. expected > 0 => ~HoldsHostage /\ streamStage # "zdss_init"
      BY <1>3 DEF IInv, Stages
    <2>3. ~HoldsHostage
      BY <1>1, <2>1, <2>2 DEF HoldsHostage
    <2>4. streamStage # "zdss_init"
      BY <1>1, <2>1, <2>2
    <2> QED
      BY <1>1, <1>3, <2>1, <2>3, <2>4 DEF HoldsHostage, InFrame
  <1>6. Place'
    <2>1. Offset' = Offset /\ DecodedThere' = DecodedThere
      BY <1>1, <1>3, <1>5
      DEF Offset, DecodedThere, PartStop, DecodedOfFrame, CurrentBlock, InBlock
    <2>2. pos' + Consumed' + 0 = pos + Consumed + 0
      <3>1. Consumed' = 0 - 0 /\ pos \in Nat
        BY <1>3, Numbers DEF Consumed
      <3> QED BY <1>2, <1>3, <3>1
    <2> QED
      BY <1>3, <1>5, <2>1, <2>2 DEF IInv, Place
  <1>7. Stages'
    BY <1>1, <1>3, <1>5 DEF IInv, Stages
  <1>8. Loop'
    <2>1. streamStage = "zdss_loadHeader" /\ frame <= Len(Frames) => lhSize < Frames[frame].header
      BY <1>3 DEF IInv, Loop
    <2>2. InFrame => expected # 0
      BY <1>5, Numbers
    <2> QED
      BY <1>1, <1>3, <1>5, <2>1, <2>2 DEF Loop
  <1>9. Output'
    <2>1. InFrame => expected # 0
      BY <1>5, Numbers
    <2> QED
      BY <1>1, <1>3, <1>5, <2>1 DEF IInv, Output
  <1>10. InFrame' => StagesInFrame' /\ Ring'
    <2>1. InFrame /\ streamStage' = "zdss_load" => inPos' < expected /\ ~(InBlock /\ CurrentBlock.raw)
      BY <1>1, <1>3 DEF IInv, StagesInFrame
    <2> QED BY <1>1, <1>3, <1>5, <2>1, SameFrame
  <1> QED
    BY <1>4, <1>6, <1>7, <1>8, <1>9, <1>10 DEF IInv

\* The end of a frame that is decoded but not flushed.
LEMMA FrameWaits ==
  ASSUME IInv, call.running, ~call.work, ~call.hint, expected = 0, Unflushed
  PROVE  /\ streamStage = "zdss_flush" /\ InFrame /\ stage = "ZSTDds_getFrameHeaderSize"
         /\ call.left = 0
         /\ ~hostageByte => call.avail < call.given
         /\ hostageByte => call.avail = call.given
  <1>1. streamStage = "zdss_flush" /\ call.left = 0
    <2>1. outStart # outEnd
      BY DEF Unflushed
    <2>2. streamStage = "zdss_flush"
      BY <2>1, Numbers
    <2> QED BY <2>2 DEF IInv, Loop
  <1>2. InFrame
    BY <1>1 DEF InFrame
  <1>3. stage = "ZSTDds_getFrameHeaderSize"
    BY <1>1, <1>2, Sizes DEF IInv, TypeOK, DStages, StagesInFrame, InBlock
  <1>4. /\ ~hostageByte => call.avail < call.given
        /\ hostageByte => call.avail = call.given
    BY <1>1, <1>2 DEF IInv, Output, HoldsHostage
  <1> QED BY <1>1, <1>2, <1>3, <1>4

LEMMA TakeHostageIInv == ASSUME IInv, Counted, TakeHostage PROVE IInv'
  <1> DEFINE read == ConsumedButHostage
  <1>1. Returns /\ Return(read, FALSE) /\ ~call.hint /\ expected = 0 /\ Unflushed
        /\ hostageByte' = TRUE /\ UNCHANGED streamStage
    BY DEF TakeHostage
  <1>2. /\ streamStage = "zdss_flush" /\ InFrame /\ stage = "ZSTDds_getFrameHeaderSize"
        /\ ~hostageByte => call.avail < call.given
        /\ hostageByte => call.avail = call.given
    BY <1>1, FrameWaits DEF Returns
  <1>3. read \in Nat /\ read + 1 = Consumed + (IF HoldsHostage THEN 1 ELSE 0)
    <2>1. /\ call.given \in Nat /\ call.avail \in Nat /\ call.avail <= call.given
          /\ Consumed = call.given - call.avail
      BY CallNumbers
    <2>2. HoldsHostage <=> hostageByte
      BY <1>2 DEF HoldsHostage
    <2>3. CASE hostageByte
      <3>1. read = Consumed
        BY <2>3 DEF ConsumedButHostage
      <3> HIDE DEF read
      <3> QED BY <2>1, <2>2, <2>3, <3>1
    <2>4. CASE ~hostageByte
      <3>1. read = Consumed - 1
        BY <2>4 DEF ConsumedButHostage
      <3> HIDE DEF read
      <3> QED BY <1>2, <2>1, <2>2, <2>4, <3>1
    <2> QED BY <2>3, <2>4 DEF IInv, TypeOK
  <1> HIDE DEF read
  <1>4. /\ ~broken /\ ~broken'
        /\ pos' = pos + read /\ pos' \in Nat
        /\ UNCHANGED <<stage, expected, lhSize, inPos, inBuffSize>>
        /\ UNCHANGED <<outBuff, outBuffSize, outStart, outEnd>>
        /\ UNCHANGED <<frame, block, decoded, sent>>
        /\ ~call'.running /\ call'.given = 0 /\ call'.avail = 0
    BY <1>1, <1>3, ReturnFacts
  <1>5. TypeOK' /\ Arguments'
    <2>1. streamStage' \in StreamStages /\ hostageByte' \in BOOLEAN
      BY <1>1 DEF IInv, TypeOK
    <2> QED BY <1>1, <1>3, <2>1, ReturnTypes
  <1>6. HoldsHostage' /\ InFrame'
    BY <1>1, <1>2 DEF HoldsHostage, InFrame
  <1>7. Place'
    <2>1. Offset' = Offset /\ DecodedThere' = DecodedThere
      BY <1>1, <1>2, <1>4, <1>6
      DEF Offset, DecodedThere, PartStop, DecodedOfFrame, CurrentBlock, InBlock
    <2>2. pos' + Consumed' + 1 = pos + Consumed + (IF HoldsHostage THEN 1 ELSE 0)
      <3> DEFINE kept == IF HoldsHostage THEN 1 ELSE 0
      <3>1. Consumed' = 0 - 0 /\ pos \in Nat /\ Consumed \in Nat /\ kept \in Nat
        BY <1>4, Numbers, CallNumbers DEF Consumed
      <3>2. read + 1 = Consumed + kept
        BY <1>3
      <3> HIDE DEF kept
      <3>3. pos' + Consumed' + 1 = pos + Consumed + kept
        BY <1>3, <1>4, <3>1, <3>2
      <3> QED BY <3>3 DEF kept
    <2> QED
      BY <1>4, <1>6, <2>1, <2>2 DEF IInv, Place
  <1>8. Stages'
    BY <1>1, <1>2, <1>4, <1>6 DEF IInv, Stages
  <1>9. Loop'
    BY <1>1, <1>2, <1>4 DEF Loop
  <1>10. Output'
    BY <1>1, <1>2, <1>4 DEF IInv, Output
  <1>11. StagesInFrame' /\ Ring'
    BY <1>1, <1>2, <1>4, SameFrame
  <1> QED
    BY <1>5, <1>7, <1>8, <1>9, <1>10, <1>11 DEF IInv

\* The end of a frame of which everything is flushed.
LEMMA FrameFlushed ==
  ASSUME IInv, call.running, ~call.work, ~call.hint, expected = 0, ~Unflushed
  PROVE  /\ streamStage = "zdss_init" /\ frame \in DOMAIN Frames /\ frame <= Len(Frames)
         /\ (HoldsHostage <=> hostageByte) /\ (InFrame <=> hostageByte)
         /\ hostageByte => stage = "ZSTDds_getFrameHeaderSize" /\ call.avail = call.given
         /\ pos + Consumed + (IF hostageByte THEN 1 ELSE 0) = FrameFrom(frame + 1)
         /\ decoded = FrameBefore(frame + 1) /\ decoded = sent
         /\ FrameFrom(frame + 1) = FrameStop(Frames[frame]) /\ FrameFrom(frame + 1) \in Nat
         /\ inPos = 0 /\ ~broken /\ outStart = outEnd
  <1> DEFINE f == Frames[frame]
             kept == IF hostageByte THEN 1 ELSE 0
  <1>1. streamStage = "zdss_init" /\ frame > 0 /\ frame <= Len(Frames) /\ inPos = 0 /\ ~broken
    <2>1. streamStage = "zdss_init" /\ frame > 0 /\ ~broken
      <3>1. expected = 0 => ~(expected > 0)
        OBVIOUS
      <3> QED BY <3>1 DEF IInv, Loop, Arguments
    <2> QED BY <2>1 DEF IInv, Stages
  <1>2. frame \in DOMAIN Frames
    BY <1>1, Numbers, FrameNumbers
  <1>3. (HoldsHostage <=> hostageByte) /\ (InFrame <=> hostageByte)
        /\ (hostageByte => stage = "ZSTDds_getFrameHeaderSize" /\ call.avail = call.given)
    BY <1>1 DEF HoldsHostage, InFrame, IInv, Stages, Output
  <1>4. /\ f.from \in Nat /\ f.before \in Nat /\ FrameSize(f) \in Nat
        /\ FrameFrom(frame + 1) = f.from + FrameSize(f) /\ FrameFrom(frame + 1) = FrameStop(f)
        /\ FrameFrom(frame + 1) \in Nat
        /\ FrameBefore(frame + 1) = f.before + ContentOf(f)
    BY <1>2, FrameType, FrameFacts
  <1>5. Offset = FrameFrom(frame + 1) /\ DecodedThere = FrameBefore(frame + 1)
    <2>1. CASE hostageByte
      <3> DEFINE size == FrameSize(f)
      <3>1. Offset = f.from + size - 0 + 0 /\ DecodedOfFrame = ContentOf(f)
        BY <1>1, <1>3, <2>1, Parts
      <3>2. DecodedThere = f.before + ContentOf(f)
        BY <1>3, <2>1, <3>1 DEF DecodedThere
      <3>3. Offset = f.from + size
        <4>1. f.from \in Nat /\ size \in Nat
          BY <1>4
        <4> HIDE DEF f, size
        <4> QED BY <3>1, <4>1
      <3> QED BY <1>4, <3>2, <3>3
    <2>2. CASE ~hostageByte
      BY <1>1, <1>3, <2>2 DEF Offset, DecodedThere
    <2> QED BY <2>1, <2>2 DEF IInv, TypeOK
  <1>6. pos + Consumed + kept = FrameFrom(frame + 1) /\ decoded = FrameBefore(frame + 1)
    BY <1>1, <1>3, <1>5 DEF IInv, Place
  <1>7. decoded = sent /\ outStart = outEnd
    <2>1. outStart = outEnd /\ outEnd \in Nat /\ decoded \in Nat /\ sent \in Nat
      BY Numbers DEF Unflushed
    <2>2. decoded - sent = outEnd - outStart
      BY <1>1 DEF IInv, Output
    <2> QED BY <2>1, <2>2
  <1> QED
    BY <1>1, <1>2, <1>3, <1>4, <1>6, <1>7

LEMMA AwaitHostageIInv == ASSUME IInv, Counted, AwaitHostage PROVE IInv'
  <1>1. Returns /\ Return(Consumed, FALSE) /\ ~call.hint /\ expected = 0 /\ ~Unflushed
        /\ hostageByte /\ call.avail = 0
        /\ streamStage' = "zdss_read" /\ UNCHANGED hostageByte
    BY DEF AwaitHostage
  <1>2. /\ streamStage = "zdss_init" /\ frame \in DOMAIN Frames /\ HoldsHostage /\ InFrame
        /\ stage = "ZSTDds_getFrameHeaderSize" /\ call.avail = call.given
        /\ inPos = 0 /\ outStart = outEnd
    BY <1>1, FrameFlushed DEF Returns
  <1>3. Consumed \in Nat /\ Consumed = 0
    BY <1>1, <1>2 DEF Consumed
  <1>4. /\ ~broken /\ ~broken'
        /\ pos' = pos + Consumed /\ pos' \in Nat
        /\ UNCHANGED <<stage, expected, lhSize, inPos, inBuffSize>>
        /\ UNCHANGED <<outBuff, outBuffSize, outStart, outEnd>>
        /\ UNCHANGED <<frame, block, decoded, sent>>
        /\ ~call'.running /\ call'.given = 0 /\ call'.avail = 0
    BY <1>1, <1>3, ReturnFacts
  <1>5. TypeOK' /\ Arguments'
    <2>1. streamStage' \in StreamStages /\ hostageByte' \in BOOLEAN
      BY <1>1 DEF IInv, TypeOK, StreamStages
    <2> QED BY <1>1, <1>3, <2>1, ReturnTypes
  <1>6. HoldsHostage' /\ InFrame'
    BY <1>1 DEF HoldsHostage, InFrame
  <1>7. Place'
    <2>1. Offset' = Offset /\ DecodedThere' = DecodedThere
      BY <1>1, <1>2, <1>4, <1>6
      DEF Offset, DecodedThere, PartStop, DecodedOfFrame, CurrentBlock, InBlock
    <2>2. Consumed' = Consumed /\ pos' = pos
      <3>1. Consumed' = 0 - 0 /\ pos \in Nat
        BY <1>4, Numbers DEF Consumed
      <3> QED BY <1>3, <1>4, <3>1
    <2> QED
      BY <1>2, <1>4, <1>6, <2>1, <2>2 DEF IInv, Place
  <1>8. Stages'
    BY <1>1, <1>2, <1>4 DEF Stages
  <1>9. Loop'
    BY <1>1, <1>4 DEF Loop
  <1>10. Output'
    BY <1>1, <1>2, <1>4 DEF IInv, Output, Unflushed
  <1>11. StagesInFrame' /\ Ring'
    BY <1>1, <1>2, <1>4, SameFrame
  <1> QED
    BY <1>5, <1>7, <1>8, <1>9, <1>10, <1>11 DEF IInv

LEMMA EndFrameIInv == ASSUME IInv, Counted, EndFrame PROVE IInv'
  <1> DEFINE kept == IF hostageByte THEN 1 ELSE 0
             read == IF hostageByte THEN Consumed + 1 ELSE Consumed
  <1>1. Returns /\ Return(read, TRUE) /\ ~call.hint /\ expected = 0 /\ ~Unflushed
        /\ UNCHANGED <<streamStage, hostageByte>>
    BY DEF EndFrame
  <1>2. /\ streamStage = "zdss_init" /\ frame \in DOMAIN Frames /\ frame <= Len(Frames)
        /\ pos + Consumed + kept = FrameFrom(frame + 1) /\ decoded = FrameBefore(frame + 1)
        /\ inPos = 0 /\ outStart = outEnd /\ decoded = sent
    BY <1>1, FrameFlushed DEF Returns
  <1>3. read \in Nat /\ read = Consumed + kept /\ kept \in Nat
    BY CallNumbers
  <1> HIDE DEF read, kept
  <1>4. /\ ~broken /\ ~broken'
        /\ pos' = pos + read /\ pos' \in Nat
        /\ UNCHANGED <<stage, expected, lhSize, inPos, inBuffSize>>
        /\ UNCHANGED <<outBuff, outBuffSize, outStart, outEnd>>
        /\ UNCHANGED <<frame, block, decoded, sent>>
        /\ ~call'.running /\ call'.given = 0 /\ call'.avail = 0
    BY <1>1, <1>3, ReturnFacts
  <1>5. TypeOK' /\ Arguments'
    <2>1. streamStage' \in StreamStages /\ hostageByte' \in BOOLEAN
      BY <1>1 DEF IInv, TypeOK
    <2> QED BY <1>1, <1>3, <2>1, ReturnTypes
  <1>6. ~HoldsHostage' /\ ~InFrame'
    BY <1>1, <1>2, <1>4 DEF HoldsHostage, InFrame
  <1>7. Place'
    <2>1. Offset' = FrameFrom(frame + 1) /\ DecodedThere' = FrameBefore(frame + 1)
      BY <1>1, <1>2, <1>4, <1>6 DEF Offset, DecodedThere
    <2>2. pos' + Consumed' + 0 = FrameFrom(frame + 1)
      <3>1. Consumed' = 0 - 0 /\ pos \in Nat /\ Consumed \in Nat
        BY <1>4, Numbers, CallNumbers DEF Consumed
      <3>2. pos' + Consumed' + 0 = pos + Consumed + kept
        BY <1>3, <1>4, <3>1
      <3> QED BY <1>2, <3>2
    <2> QED
      BY <1>2, <1>4, <1>6, <2>1, <2>2 DEF Place
  <1>8. Stages'
    BY <1>1, <1>2, <1>4, <1>6 DEF IInv, Stages
  <1>9. Loop'
    BY <1>1, <1>2, <1>4, <1>6 DEF Loop
  <1>10. Output'
    BY <1>1, <1>2, <1>4, <1>6 DEF IInv, Output, Unflushed
  <1> QED
    BY <1>5, <1>6, <1>7, <1>8, <1>9, <1>10 DEF IInv

LEMMA NoProgressIInv == ASSUME IInv, Counted, NoProgress PROVE IInv'
  <1>1. /\ call.running /\ ~call.work /\ Stuck
        /\ noForwardProgress' = noForwardProgress + 1
        /\ broken' = TRUE
        /\ last' = [given |-> call.given, room |-> call.room, read |-> 0, wrote |-> 0,
                    failed |-> TRUE, done |-> FALSE]
        /\ call' = Idle
        /\ UNCHANGED <<streamStage, stage, expected, lhSize, inPos, inBuffSize>>
        /\ UNCHANGED <<outBuff, outBuffSize, outStart, outEnd, hostageByte>>
        /\ UNCHANGED <<frame, block, decoded, sent, pos>>
    BY DEF NoProgress, stageVars, inVars, outVars, placeVars
  <1>2. ~call.hint /\ ~(call.avail < call.given) /\ ~broken
    BY <1>1 DEF Stuck, Progress, IInv, Arguments
  <1>3. last' \in Outcomes /\ call' \in Calls
    BY <1>1, CallNumbers, IdleIsCall DEF Outcomes
  <1>4. ~call'.running /\ ~call'.hint /\ call'.avail = 0 /\ call'.given = 0 /\ call'.left = 0
        /\ call'.room = 0
    BY <1>1 DEF Idle
  <1>5. TypeOK'
    <2>1. noForwardProgress' \in 0 .. NoForwardProgressMax
      <3>1. noForwardProgress < NoForwardProgressMax /\ noForwardProgress \in Nat
        BY <1>1, <1>2, Numbers DEF Counted
      <3> QED BY <1>1, <3>1, Sizes
    <2> QED BY <1>1, <1>3, <2>1 DEF IInv, TypeOK
  <1>7. InFrame' => InFrame /\ streamStage \in {"zdss_read", "zdss_load", "zdss_flush"}
    BY <1>1, <1>4 DEF HoldsHostage, InFrame
  <1>8. HoldsHostage' => HoldsHostage
    BY <1>1, <1>4 DEF HoldsHostage
  <1>9. Place'
    <2>1. DecodedThere' = DecodedThere
      <3>1. CASE streamStage = "zdss_init" /\ HoldsHostage
        <4>1. InFrame /\ expected = 0 /\ ~InFrame'
          BY <1>1, <1>4, <3>1 DEF IInv, Stages, InFrame, HoldsHostage
        <4>2. frame \in DOMAIN Frames /\ DecodedThere = Frames[frame].before + ContentOf(Frames[frame])
          BY <4>1, Parts DEF DecodedThere
        <4>3. DecodedThere' = FrameBefore(frame + 1)
          BY <1>1, <3>1, <4>1 DEF DecodedThere
        <4> QED BY <4>2, <4>3, FrameFacts
      <3>2. CASE ~(streamStage = "zdss_init" /\ HoldsHostage)
        <4>1. InFrame' <=> InFrame
          BY <1>1, <1>4, <3>2 DEF HoldsHostage, InFrame
        <4> QED BY <1>1, <4>1 DEF DecodedThere, DecodedOfFrame, CurrentBlock, InBlock
      <3> QED BY <3>1, <3>2
    <2> QED
      BY <1>1, <1>4, <2>1 DEF IInv, Place
  <1>10. Arguments'
    BY <1>1, <1>4 DEF Arguments
  <1>11. Stages'
    BY <1>1, <1>8 DEF IInv, Stages
  <1>12. Loop'
    BY <1>1, <1>4 DEF Loop
  <1>13. Output'
    BY <1>1, <1>2, <1>4, <1>7 DEF IInv, Output, Unflushed
  <1>14. InFrame' => StagesInFrame' /\ Ring'
    <2>1. InFrame /\ streamStage' = "zdss_load" => inPos' < expected /\ ~(InBlock /\ CurrentBlock.raw)
      BY <1>1 DEF IInv, StagesInFrame
    <2> QED BY <1>1, <1>7, <2>1, SameFrame
  <1> QED
    BY <1>5, <1>9, <1>10, <1>11, <1>12, <1>13, <1>14 DEF IInv

-----------------------------------------------------------------------------
\* Behind a block comes another one, a checksum, or the end of the frame.
LEMMA NextBlockFacts ==
  ASSUME IInv, InFrame, block \in DOMAIN Frames[frame].blocks, NextBlock, frame' = frame
  PROVE  LET f == Frames[frame]
             b == CurrentBlock
         IN  /\ block' \in Nat \ {0} /\ stage' \in DStages /\ expected' \in Nat
             /\ ~InBlock' /\ stage' # "ZSTDds_skipFrame"
             /\ stage' = "ZSTDds_decodeBlockHeader" => block' \in DOMAIN f.blocks /\ expected' = BlockHeaderSize
             /\ stage' = "ZSTDds_checkChecksum" => ~f.skippable /\ f.checksum /\ expected' = ChecksumSize
             /\ stage' = "ZSTDds_getFrameHeaderSize" => expected' = 0
             /\ PartStop' = BlockStop(b) + expected'
             /\ DecodedOfFrame' = b.before + b.rsize
  <1> DEFINE f == Frames[frame]
             b == CurrentBlock
             stop == BlockStop(b)
  <1>1. frame \in DOMAIN Frames
    BY Parts
  <1>2. /\ block \in Nat /\ 1 <= block /\ ~f.skippable
        /\ b.before \in Nat /\ b.rsize \in Nat
        /\ LastBlock => stop = BlocksEnd(f) /\ b.before + b.rsize = f.content
        /\ ~LastBlock => /\ block + 1 \in DOMAIN f.blocks
                         /\ f.blocks[block + 1].from = stop
                         /\ f.blocks[block + 1].before = b.before + b.rsize
    BY <1>1, BlockFacts DEF CurrentBlock, LastBlock
  <1>3. /\ FrameSize(f) = BlocksEnd(f) + (IF f.checksum THEN ChecksumSize ELSE 0)
        /\ ContentOf(f) = f.content /\ BlocksEnd(f) \in Nat
    BY <1>1, <1>2, FrameFacts
  <1>4. CASE ~LastBlock
    <2>1. stage' = "ZSTDds_decodeBlockHeader" /\ expected' = BlockHeaderSize /\ block' = block + 1
      BY <1>4 DEF NextBlock
    <2>2. block' \in Nat \ {0}
      BY <1>2, <2>1
    <2>3. CurrentBlock' = f.blocks[block + 1]
      BY <2>1 DEF CurrentBlock
    <2>4. PartStop' = stop + BlockHeaderSize /\ DecodedOfFrame' = b.before + b.rsize
      BY <1>2, <1>4, <2>1, <2>3 DEF PartStop, DecodedOfFrame
    <2> QED
      BY <1>2, <1>4, <2>1, <2>2, <2>4, Sizes DEF DStages, InBlock
  <1>5. CASE LastBlock
    <2>1. /\ block' = block
          /\ f.checksum => stage' = "ZSTDds_checkChecksum" /\ expected' = ChecksumSize
          /\ ~f.checksum => stage' = "ZSTDds_getFrameHeaderSize" /\ expected' = 0
      BY <1>5 DEF NextBlock
    <2>2. PartStop' = FrameSize(f) /\ DecodedOfFrame' = ContentOf(f)
      BY <2>1 DEF PartStop, DecodedOfFrame, InBlock
    <2>3. PartStop' = stop + expected'
      BY <1>2, <1>3, <1>5, <2>1, <2>2
    <2>4. expected' \in Nat /\ block' \in Nat \ {0}
      BY <1>2, <2>1, Sizes
    <2> QED
      BY <1>2, <1>3, <1>5, <2>1, <2>2, <2>3, <2>4 DEF DStages, InBlock
  <1> QED BY <1>4, <1>5

\* The decoder gets on by size bytes.
Continued(size) ==
  /\ stage' \in DStages /\ expected' \in Nat /\ block' \in Nat \ {0} /\ decoded' \in Nat
  /\ streamStage' \in {"zdss_read", "zdss_flush"}
  /\ outEnd' \in Nat /\ outStart <= outEnd' /\ outEnd' <= outBuffSize
  /\ outBuff' \in [0 .. outBuffSize - 1 -> Nat]
  /\ streamStage' = "zdss_read" => outEnd' = outStart
  /\ decoded' - outEnd' = decoded - outEnd
  /\ PartStop' - expected' = PartStop - expected + size
  /\ decoded' = Frames[frame].before + DecodedOfFrame'
  /\ StagesInFrame' /\ Ring'

\* What the decoder may be given.
Given(size) ==
  /\ IInv /\ streamStage \in {"zdss_read", "zdss_load"}
  /\ size \in Nat /\ 0 < size /\ size <= expected
  /\ size < expected => InBlock /\ CurrentBlock.raw
  /\ UNCHANGED <<lhSize, inBuffSize, outBuffSize, outStart, frame>>

LEMMA GivenFacts ==
  ASSUME NEW size, Given(size)
  PROVE  LET f == Frames[frame]
         IN  /\ InFrame /\ StagesInFrame /\ Ring /\ TypeOK
             /\ frame \in DOMAIN Frames /\ f.before \in Nat
             /\ outStart = outEnd /\ outEnd \in Nat /\ outBuffSize \in Nat /\ outEnd <= outBuffSize
             /\ decoded \in Nat /\ expected \in Nat /\ PartStop \in Nat
             /\ decoded = f.before + DecodedOfFrame
  <1>1. InFrame
    BY DEF Given, InFrame
  <1>2. /\ StagesInFrame /\ Ring /\ TypeOK /\ frame \in DOMAIN Frames
        /\ decoded = Frames[frame].before + DecodedOfFrame
    BY <1>1 DEF Given, IInv, Place, DecodedThere, StagesInFrame
  <1> QED
    BY <1>1, <1>2, Numbers, Parts, FrameType DEF Given

LEMMA BlockHeaderContinues ==
  ASSUME NEW size, Given(size), DecodeBlockHeader PROVE Continued(size)
  <1> DEFINE f == Frames[frame]
             b == CurrentBlock
  <1>1. /\ InFrame /\ StagesInFrame /\ Ring /\ TypeOK
        /\ frame \in DOMAIN Frames /\ f.before \in Nat
        /\ outStart = outEnd /\ outEnd \in Nat /\ outBuffSize \in Nat /\ outEnd <= outBuffSize
        /\ decoded \in Nat
        /\ decoded = f.before + DecodedOfFrame
    BY GivenFacts
  <1>2. /\ stage = "ZSTDds_decodeBlockHeader"
        /\ streamStage' = "zdss_read"
        /\ UNCHANGED <<outBuff, outEnd, decoded>>
        /\ UNCHANGED <<inBuffSize, outBuffSize, outStart, frame>>
    BY DEF DecodeBlockHeader, Given
  <1>3. block \in DOMAIN f.blocks /\ expected = BlockHeaderSize
    BY <1>1, <1>2 DEF StagesInFrame
  <1>4. ~InBlock
    BY <1>2 DEF InBlock
  <1>5. size = BlockHeaderSize
    <2>1. size \in Nat /\ size <= BlockHeaderSize /\ ~(size < BlockHeaderSize)
      BY <1>3, <1>4 DEF Given
    <2> QED BY <2>1, Sizes
  <1>6. PartStop = b.from + BlockHeaderSize /\ DecodedOfFrame = b.before
    BY <1>2 DEF PartStop, DecodedOfFrame
  <1>7. /\ b.csize \in Nat /\ b.rsize \in Nat /\ b.from \in Nat /\ b.before \in Nat
        /\ b.raw => b.csize = b.rsize
        /\ b.csize = 0 => b.raw
        /\ BlockStop(b) = b.from + BlockHeaderSize + b.csize
    BY <1>1, <1>3, BlockFacts DEF CurrentBlock
  <1>8. Ring'
    BY <1>1, <1>2, SameRing DEF Given
  <1>9. inBuffSize >= Larger(BlockSizeMax(f), ChecksumSize)
    BY <1>1 DEF StagesInFrame
  <1>10. /\ block' \in Nat \ {0} /\ stage' \in DStages /\ expected' \in Nat
         /\ PartStop' - expected' = BlockStop(b) - b.csize
         /\ DecodedOfFrame' = b.before
         /\ StagesInFrame'
    <2>1. CASE b.csize = 0
      <3>1. NextBlock
        BY <1>2, <2>1 DEF DecodeBlockHeader
      <3>2. /\ block' \in Nat \ {0} /\ stage' \in DStages /\ expected' \in Nat
            /\ ~InBlock' /\ stage' # "ZSTDds_skipFrame"
            /\ stage' = "ZSTDds_decodeBlockHeader" =>
                 block' \in DOMAIN f.blocks /\ expected' = BlockHeaderSize
            /\ stage' = "ZSTDds_checkChecksum" =>
                 ~f.skippable /\ f.checksum /\ expected' = ChecksumSize
            /\ stage' = "ZSTDds_getFrameHeaderSize" => expected' = 0
            /\ PartStop' = BlockStop(b) + expected'
            /\ DecodedOfFrame' = b.before + b.rsize
        BY <1>1, <1>2, <1>3, <3>1, NextBlockFacts DEF Given
      <3>3. StagesInFrame'
        BY <1>1, <1>2, <1>9, <3>2 DEF StagesInFrame
      <3>4. PartStop' - expected' = BlockStop(b) - b.csize
        <4>1. PartStop' = BlockStop(b) + expected' /\ expected' \in Nat
          BY <3>2
        <4> HIDE DEF b
        <4> QED BY <1>7, <2>1, <4>1, Sizes
      <3>5. DecodedOfFrame' = b.before
        <4>1. b.before + b.rsize = b.before
          BY <1>7, <2>1
        <4> QED BY <3>2, <4>1
      <3> QED BY <3>2, <3>3, <3>4, <3>5
    <2>2. CASE b.csize # 0
      <3>1. /\ stage' = IF LastBlock THEN "ZSTDds_decompressLastBlock" ELSE "ZSTDds_decompressBlock"
            /\ expected' = b.csize /\ block' = block
        BY <1>2, <2>2 DEF DecodeBlockHeader
      <3>2. InBlock' /\ CurrentBlock' = b /\ stage' \in DStages /\ stage' # "ZSTDds_decodeBlockHeader"
            /\ stage' \notin {"ZSTDds_checkChecksum", "ZSTDds_skipFrame", "ZSTDds_getFrameHeaderSize"}
        BY <1>2, <3>1 DEF InBlock, CurrentBlock, DStages
      <3>3. PartStop' = BlockStop(b)
        BY <3>2 DEF PartStop
      <3>4. DecodedOfFrame' = b.before
        <4>1. DecodedOfFrame' = b.before + IF b.raw THEN b.csize - b.csize ELSE 0
          BY <3>1, <3>2 DEF DecodedOfFrame
        <4> QED BY <1>7, <4>1
      <3>5. block' \in Nat \ {0}
        BY <1>1, <3>1 DEF TypeOK
      <3>6. 0 < expected' /\ expected' <= b.csize
        BY <1>7, <2>2, <3>1
      <3>7. StagesInFrame'
        BY <1>1, <1>2, <1>3, <1>9, <3>1, <3>2, <3>6 DEF StagesInFrame
      <3> QED BY <1>7, <3>1, <3>2, <3>3, <3>4, <3>5, <3>7
    <2> QED BY <2>1, <2>2
  <1>11. PartStop' - expected' = PartStop - expected + size
    <2> HIDE DEF b
    <2>1. BlockStop(b) - b.csize = (b.from + BlockHeaderSize) - BlockHeaderSize + BlockHeaderSize
      BY <1>7, Sizes
    <2> QED BY <2>1, <1>3, <1>5, <1>6, <1>10
  <1>12. decoded' = f.before + DecodedOfFrame'
    BY <1>1, <1>2, <1>6, <1>10
  <1>13. outBuff' \in [0 .. outBuffSize - 1 -> Nat]
    BY <1>1, <1>2 DEF TypeOK
  <1>14. decoded' - outEnd' = decoded - outEnd /\ outStart <= outEnd' /\ outEnd' \in Nat
    BY <1>1, <1>2
  <1> QED
    BY <1>1, <1>2, <1>8, <1>10, <1>11, <1>12, <1>13, <1>14 DEF Continued

LEMMA TrailerContinues ==
  ASSUME NEW size, Given(size), CheckChecksum \/ SkipFrame PROVE Continued(size)
  <1> DEFINE f == Frames[frame]
  <1>1. /\ InFrame /\ StagesInFrame /\ Ring /\ TypeOK
        /\ frame \in DOMAIN Frames /\ f.before \in Nat
        /\ outStart = outEnd /\ outEnd \in Nat /\ outBuffSize \in Nat /\ outEnd <= outBuffSize
        /\ decoded \in Nat /\ expected \in Nat /\ PartStop \in Nat
        /\ decoded = f.before + DecodedOfFrame
    BY GivenFacts
  <1>2. /\ stage \in {"ZSTDds_checkChecksum", "ZSTDds_skipFrame"}
        /\ stage' = "ZSTDds_getFrameHeaderSize" /\ expected' = 0
        /\ streamStage' \in {"zdss_read", "zdss_flush"}
        /\ outEnd' = outStart
        /\ UNCHANGED <<outBuff, block, decoded>>
        /\ UNCHANGED <<inBuffSize, outBuffSize, outStart, frame>>
    BY <1>1 DEF CheckChecksum, SkipFrame, Given
  <1>3. ~InBlock /\ ~InBlock'
    BY <1>2 DEF InBlock
  <1>4. PartStop = FrameSize(f) /\ PartStop' = FrameSize(f)
        /\ DecodedOfFrame = ContentOf(f) /\ DecodedOfFrame' = ContentOf(f)
    BY <1>2, <1>3 DEF PartStop, DecodedOfFrame
  <1>5. size = expected
    <2>1. size \in Nat /\ size <= expected /\ ~(size < expected)
      BY <1>3 DEF Given
    <2> QED BY <1>1, <2>1
  <1>6. PartStop' - expected' = PartStop - expected + size
    <2>1. PartStop' = PartStop /\ expected' = 0
      BY <1>2, <1>4
    <2> QED BY <1>1, <1>5, <2>1
  <1>7. outEnd' = outEnd
    BY <1>1, <1>2
  <1>8. Ring'
    BY <1>1, <1>2, <1>7, SameRing DEF Given
  <1>9. StagesInFrame'
    BY <1>1, <1>2, <1>3 DEF StagesInFrame
  <1>10. /\ outBuff' \in [0 .. outBuffSize - 1 -> Nat] /\ block' \in Nat \ {0} /\ stage' \in DStages
    BY <1>1, <1>2 DEF TypeOK, DStages
  <1>11. decoded' - outEnd' = decoded - outEnd /\ outStart <= outEnd' /\ outEnd' \in Nat
    BY <1>1, <1>2, <1>7
  <1> QED
    BY <1>1, <1>2, <1>4, <1>6, <1>7, <1>8, <1>9, <1>10, <1>11 DEF Continued

LEMMA BlockContinues ==
  ASSUME NEW size, Given(size), DecodeBlock(size) PROVE Continued(size)
  <1> DEFINE f == Frames[frame]
             b == CurrentBlock
             max == BlockSizeMax(f)
             decodedSize == IF b.raw THEN size ELSE b.rsize
  <1>1. /\ InFrame /\ StagesInFrame /\ Ring /\ TypeOK
        /\ frame \in DOMAIN Frames /\ f.before \in Nat
        /\ outStart = outEnd /\ outEnd \in Nat /\ outBuffSize \in Nat /\ outEnd <= outBuffSize
        /\ decoded \in Nat /\ expected \in Nat
        /\ decoded = f.before + DecodedOfFrame
    BY GivenFacts
  <1>2. /\ InBlock
        /\ outStart + decodedSize <= outBuffSize
        /\ outBuff' = [i \in DOMAIN outBuff |->
                         IF i \in outStart .. outStart + decodedSize - 1
                           THEN decoded + 1 + i - outStart ELSE outBuff[i]]
        /\ decoded' = decoded + decodedSize
        /\ decodedSize = 0 => streamStage' = "zdss_read" /\ outEnd' = outEnd
        /\ decodedSize # 0 => streamStage' = "zdss_flush" /\ outEnd' = outStart + decodedSize
        /\ size < expected => expected' = expected - size /\ stage' = stage /\ block' = block
        /\ ~(size < expected) => NextBlock
        /\ UNCHANGED <<inBuffSize, outBuffSize, outStart, frame>>
    BY DEF DecodeBlock, Given
  <1>3. /\ block \in DOMAIN f.blocks /\ 0 < expected /\ expected <= b.csize
        /\ ~b.raw => expected = b.csize
        /\ inBuffSize >= Larger(max, ChecksumSize)
    BY <1>1, <1>2 DEF StagesInFrame
  <1>4. size \in Nat /\ 0 < size /\ size <= expected /\ (size < expected => b.raw)
    BY DEF Given
  <1>5. /\ b.csize \in Nat /\ b.rsize \in Nat /\ b.from \in Nat /\ b.before \in Nat
        /\ b.raw => b.csize = b.rsize
        /\ BlockStop(b) = b.from + BlockHeaderSize + b.csize
        /\ max \in Nat
    BY <1>1, <1>3, BlockFacts, FrameType DEF CurrentBlock
  <1>6. /\ stage # "ZSTDds_decodeBlockHeader"
        /\ PartStop = BlockStop(b)
        /\ DecodedOfFrame = b.before + (IF b.raw THEN b.csize - expected ELSE 0)
    BY <1>2 DEF InBlock, PartStop, DecodedOfFrame
  <1>7. /\ block' \in Nat \ {0} /\ stage' \in DStages /\ expected' \in Nat
        /\ PartStop' - expected' = PartStop - expected + size
        /\ decoded' = f.before + DecodedOfFrame'
        /\ StagesInFrame'
    <2>1. CASE size < expected
      <3>1. expected' = expected - size /\ stage' = stage /\ block' = block
        BY <1>2, <2>1
      <3>2. b.raw /\ InBlock' /\ CurrentBlock' = b /\ stage' \in DStages
        BY <1>1, <1>2, <1>4, <2>1, <3>1 DEF InBlock, CurrentBlock, TypeOK
      <3>3. PartStop' = PartStop /\ DecodedOfFrame' = b.before + (b.csize - expected')
        BY <1>6, <3>1, <3>2 DEF PartStop, DecodedOfFrame
      <3>4. PartStop \in Nat
        BY <1>1, <1>4, GivenFacts
      <3>5. expected' \in Nat /\ 0 < expected' /\ expected' <= b.csize
            /\ PartStop' - expected' = PartStop - expected + size
        <4> HIDE DEF b, f
        <4> QED BY <1>1, <1>3, <1>4, <1>5, <2>1, <3>1, <3>3, <3>4
      <3>6. decoded' = f.before + DecodedOfFrame'
        <4>1. /\ decoded' = decoded + size /\ decoded = f.before + (b.before + (b.csize - expected))
              /\ DecodedOfFrame' = b.before + (b.csize - (expected - size))
          BY <1>1, <1>2, <1>6, <3>1, <3>2, <3>3
        <4>2. /\ size \in Nat /\ expected \in Nat /\ f.before \in Nat /\ b.before \in Nat
              /\ b.csize \in Nat
          BY <1>1, <1>4, <1>5
        <4> DEFINE part == b.before + (b.csize - (expected - size))
        <4>3. f.before + (b.before + (b.csize - expected)) + size = f.before + part
          <5> HIDE DEF b, f
          <5> QED BY <4>2
        <4> HIDE DEF part, b, f
        <4> QED BY <4>1, <4>3 DEF part
      <3>7. StagesInFrame'
        <4>1. stage \in {"ZSTDds_decompressBlock", "ZSTDds_decompressLastBlock"}
          BY <1>2 DEF InBlock
        <4> QED
          BY <1>1, <1>2, <1>3, <3>1, <3>2, <3>5, <4>1 DEF StagesInFrame
      <3>8. block' \in Nat \ {0}
        BY <1>1, <3>1 DEF TypeOK
      <3> QED BY <3>2, <3>5, <3>6, <3>7, <3>8
    <2>2. CASE ~(size < expected)
      <3>1. NextBlock /\ size = expected
        BY <1>1, <1>2, <1>4, <2>2
      <3>2. /\ block' \in Nat \ {0} /\ stage' \in DStages /\ expected' \in Nat
            /\ ~InBlock' /\ stage' # "ZSTDds_skipFrame"
            /\ stage' = "ZSTDds_decodeBlockHeader" =>
                 block' \in DOMAIN f.blocks /\ expected' = BlockHeaderSize
            /\ stage' = "ZSTDds_checkChecksum" =>
                 ~f.skippable /\ f.checksum /\ expected' = ChecksumSize
            /\ stage' = "ZSTDds_getFrameHeaderSize" => expected' = 0
            /\ PartStop' = BlockStop(b) + expected'
            /\ DecodedOfFrame' = b.before + b.rsize
        BY <1>1, <1>2, <1>3, <3>1, NextBlockFacts DEF Given
      <3>3. StagesInFrame'
        BY <1>1, <1>2, <1>3, <3>2 DEF StagesInFrame
      <3>4. PartStop' - expected' = PartStop - expected + size
        <4>1. PartStop' = PartStop + expected' /\ expected' \in Nat /\ PartStop \in Nat
              /\ expected \in Nat
          BY <1>1, <1>6, <3>2, GivenFacts
        <4>2. PartStop' - expected' = PartStop
          <5>1. \A p, e \in Nat : (p + e) - e = p
            OBVIOUS
          <5> QED BY <4>1, <5>1
        <4>3. PartStop - expected + expected = PartStop
          BY <4>1
        <4> QED BY <3>1, <4>2, <4>3
      <3>5. decoded' = f.before + DecodedOfFrame'
        <4>1. CASE b.raw
          <5>1. /\ decoded' = decoded + size /\ decoded = f.before + (b.before + (b.csize - expected))
                /\ DecodedOfFrame' = b.before + b.csize
            BY <1>1, <1>2, <1>5, <1>6, <3>2, <4>1
          <5> HIDE DEF b, f
          <5> QED BY <1>1, <1>5, <3>1, <5>1
        <4>2. CASE ~b.raw
          <5>1. /\ decoded' = decoded + b.rsize /\ decoded = f.before + (b.before + 0)
                /\ DecodedOfFrame' = b.before + b.rsize
            BY <1>1, <1>2, <1>6, <3>2, <4>2
          <5> HIDE DEF b, f
          <5> QED BY <1>1, <1>5, <5>1
        <4> QED BY <4>1, <4>2
      <3> QED BY <3>2, <3>3, <3>4, <3>5
    <2> QED BY <2>1, <2>2
  <1>8. decodedSize \in Nat
    BY <1>4, <1>5
  <1> HIDE DEF decodedSize
  <1>9. /\ outEnd' = outEnd + decodedSize /\ outEnd' \in Nat /\ outStart <= outEnd'
        /\ outEnd' <= outBuffSize /\ decoded' \in Nat /\ decoded' - outEnd' = decoded - outEnd
    BY <1>1, <1>2, <1>8
  <1>10. /\ outBuff' \in [0 .. outBuffSize - 1 -> Nat]
         /\ \A i \in 0 .. outBuffSize - 1 :
              outBuff'[i] = IF outEnd <= i /\ i < outEnd' THEN decoded - outEnd + 1 + i ELSE outBuff[i]
    <2>1. DOMAIN outBuff = 0 .. outBuffSize - 1 /\ \A i \in 0 .. outBuffSize - 1 : outBuff[i] \in Nat
      BY <1>1 DEF TypeOK
    <2>2. ASSUME NEW i \in 0 .. outBuffSize - 1
          PROVE  /\ (IF i \in outStart .. outStart + decodedSize - 1
                       THEN decoded + 1 + i - outStart ELSE outBuff[i]) \in Nat
                 /\ (IF i \in outStart .. outStart + decodedSize - 1
                       THEN decoded + 1 + i - outStart ELSE outBuff[i])
                      = IF outEnd <= i /\ i < outEnd' THEN decoded - outEnd + 1 + i ELSE outBuff[i]
      <3>1. i \in outStart .. outStart + decodedSize - 1 <=> outEnd <= i /\ i < outEnd'
        BY <1>1, <1>8, <1>9
      <3>2. outEnd <= i => decoded + 1 + i - outStart \in Nat
                           /\ decoded + 1 + i - outStart = decoded - outEnd + 1 + i
        BY <1>1
      <3> QED BY <2>1, <3>1, <3>2
    <2> QED BY <1>2, <2>1, <2>2
  <1>11. Ring'
    <2>1. Lap' = Lap /\ Lap = decoded - outEnd
      BY <1>9 DEF Lap
    <2>2. \A i \in 0 .. outEnd' - 1 : outBuff'[i] = Lap + 1 + i
      <3>1. SUFFICES ASSUME NEW i \in 0 .. outEnd' - 1 PROVE outBuff'[i] = Lap + 1 + i
        OBVIOUS
      <3>2. i \in 0 .. outBuffSize - 1 /\ i < outEnd'
        BY <1>1, <1>9
      <3>3. CASE outEnd <= i
        BY <1>10, <2>1, <3>2, <3>3
      <3>4. CASE ~(outEnd <= i)
        <4>1. i \in 0 .. outEnd - 1
          BY <1>1, <3>4
        <4>2. outBuff'[i] = outBuff[i]
          BY <1>10, <3>2, <3>4
        <4> QED BY <1>1, <4>1, <4>2 DEF Ring
      <3> QED BY <3>3, <3>4
    <2>3. ASSUME NEW lapEnd \in 0 .. outBuffSize,
                 \A i \in outEnd .. lapEnd - 1 : outBuff[i] = Lap - lapEnd + 1 + i
          PROVE  \A i \in outEnd' .. lapEnd - 1 : outBuff'[i] = Lap - lapEnd + 1 + i
      <3>1. SUFFICES ASSUME NEW i \in outEnd' .. lapEnd - 1 PROVE outBuff'[i] = Lap - lapEnd + 1 + i
        OBVIOUS
      <3>2. i \in 0 .. outBuffSize - 1 /\ ~(i < outEnd') /\ i \in outEnd .. lapEnd - 1
        BY <1>1, <1>8, <1>9
      <3> QED BY <1>10, <2>3, <3>2
    <2>4. Wraps' <=> Wraps
      BY <1>2 DEF Wraps
    <2>5. Wraps /\ streamStage' # "zdss_flush" => outEnd' + max <= outBuffSize
      <3>1. streamStage' # "zdss_flush" => outEnd' = outEnd
        BY <1>2
      <3> QED BY <1>1, <3>1 DEF Ring, Given
    <2>6. Wraps' /\ f.before < Lap' =>
            \E lapEnd \in 0 .. outBuffSize :
              /\ outBuffSize < lapEnd + max
              /\ \A i \in outEnd' .. lapEnd - 1 : outBuff'[i] = Lap' - lapEnd + 1 + i
      <3>1. SUFFICES ASSUME Wraps, f.before < Lap
                     PROVE  \E lapEnd \in 0 .. outBuffSize :
                              /\ outBuffSize < lapEnd + max
                              /\ \A i \in outEnd' .. lapEnd - 1 : outBuff'[i] = Lap - lapEnd + 1 + i
        BY <2>1, <2>4
      <3>2. PICK lapEnd \in 0 .. outBuffSize :
              /\ outBuffSize < lapEnd + max
              /\ \A i \in outEnd .. lapEnd - 1 : outBuff[i] = Lap - lapEnd + 1 + i
        BY <1>1, <3>1 DEF Ring
      <3> QED BY <2>3, <3>2
    <2>7. /\ DecodingBufferSize(f) <= outBuffSize /\ f.before <= Lap'
          /\ ~Wraps' => Lap' = f.before
      BY <1>1, <2>1, <2>4 DEF Ring
    <2>8. \A i \in 0 .. outEnd' - 1 : outBuff'[i] = Lap' + 1 + i
      BY <2>1, <2>2
    <2> QED
      BY <1>2, <2>4, <2>5, <2>6, <2>7, <2>8 DEF Ring
  <1> QED
    BY <1>1, <1>2, <1>7, <1>9, <1>10, <1>11 DEF Continued

\* A turn that decodes: taken bytes of input complete those in inBuff.
LEMMA ContinueIInv ==
  ASSUME IInv, NEW size, NEW taken \in Nat, call.running, call.work,
         streamStage \in {"zdss_read", "zdss_load"},
         size \in Nat, 0 < size, size <= expected, size < expected => InBlock /\ CurrentBlock.raw,
         0 < taken, taken <= call.avail, size = inPos + taken,
         call' = [call EXCEPT !.avail = call.avail - taken],
         DecompressContinue(size), inPos' = 0
  PROVE  IInv'
  <1> DEFINE f == Frames[frame]
             avail == call.avail - taken
  <1>1. /\ UNCHANGED <<lhSize, inBuffSize, outBuffSize, outStart, hostageByte, noForwardProgress>>
        /\ UNCHANGED <<frame, sent, pos, broken, last>>
    BY DEF DecompressContinue, endVars, callerVars
  <1>2. Given(size)
    BY <1>1 DEF Given
  <1>3. Continued(size)
    BY <1>2, BlockHeaderContinues, BlockContinues, TrailerContinues DEF DecompressContinue
  <1>4. /\ stage' \in DStages /\ expected' \in Nat /\ block' \in Nat \ {0} /\ decoded' \in Nat
        /\ streamStage' \in {"zdss_read", "zdss_flush"}
        /\ outEnd' \in Nat /\ outStart <= outEnd' /\ outEnd' <= outBuffSize
        /\ outBuff' \in [0 .. outBuffSize - 1 -> Nat]
        /\ streamStage' = "zdss_read" => outEnd' = outStart
        /\ decoded' - outEnd' = decoded - outEnd
        /\ PartStop' - expected' = PartStop - expected + size
        /\ decoded' = f.before + DecodedOfFrame'
        /\ StagesInFrame' /\ Ring'
    BY <1>3 DEF Continued
  <1>5. /\ InFrame /\ ~broken /\ ~call.hint /\ ~HoldsHostage /\ ~hostageByte
    <2>1. InFrame /\ ~broken /\ ~call.hint
      BY DEF InFrame, IInv, Arguments
    <2>2. expected # 0
      <3>1. expected \in Nat
        BY Numbers
      <3> QED BY ONLY <3>1, size \in Nat, 0 < size, size <= expected
    <2>3. ~HoldsHostage
      BY <2>2 DEF IInv, Stages
    <2> QED BY <2>1, <2>3 DEF HoldsHostage, IInv, TypeOK
  <1>6. /\ frame \in DOMAIN Frames /\ frame <= Len(Frames) /\ f.from \in Nat
        /\ PartStop \in Nat /\ Offset = f.from + PartStop - expected + inPos
    BY <1>5, Parts, FrameType
  <1>7. avail \in 0 .. call.avail /\ avail < call.given
    BY CallNumbers
  <1>8. /\ call' \in Calls
        /\ call'.running /\ call'.avail = avail /\ call'.left = call.left
        /\ call'.work /\ ~call'.hint
        /\ call'.given = call.given /\ call'.room = call.room /\ call'.entry = call.entry
        /\ Consumed' = call.given - avail
    <2>1. call.left \in 0 .. call.left
      <3>1. call.left \in Nat
        BY CallNumbers
      <3> QED BY <3>1
    <2>2. call' = [call EXCEPT !.avail = avail, !.left = call.left, !.work = TRUE, !.hint = FALSE]
      BY <1>5 DEF IInv, TypeOK, Calls
    <2> HIDE DEF avail
    <2> QED BY <1>7, <2>1, <2>2, SpendCall
  <1>9. ~HoldsHostage' /\ InFrame'
    BY <1>1, <1>4, <1>5 DEF HoldsHostage, InFrame
  <1>10. TypeOK'
    <2>1. outStart' \in 0 .. outBuffSize' /\ outEnd' \in outStart' .. outBuffSize'
      <3>1. outStart \in Nat /\ outBuffSize \in Nat
        BY Numbers
      <3>2. outStart \in 0 .. outBuffSize /\ \A n \in Nat : outStart <= n /\ n <= outBuffSize =>
                n \in outStart .. outBuffSize /\ outStart \in 0 .. outBuffSize
        <4>1. outStart <= outBuffSize
          BY Numbers
        <4> QED BY <3>1, <4>1
      <3> QED BY <1>1, <1>4, <3>2
    <2>2. streamStage' \in StreamStages /\ inPos' \in Nat
      BY <1>4 DEF StreamStages
    <2> QED
      BY <1>1, <1>4, <1>8, <2>1, <2>2 DEF IInv, TypeOK
  <1>11. Place'
    <2>1. DecodedThere' = decoded'
      BY <1>1, <1>4, <1>9 DEF DecodedThere
    <2>2. Offset' = f.from + PartStop' - expected' + 0
      BY <1>1, <1>9 DEF Offset
    <2>3. pos + Consumed' + 0 = Offset'
      <3>1. pos + Consumed + 0 = Offset
        BY <1>5 DEF IInv, Place
      <3>2. /\ pos \in Nat /\ expected \in Nat /\ inPos \in Nat
            /\ call.given \in Nat /\ call.avail \in Nat /\ Consumed = call.given - call.avail
        BY Numbers, CallNumbers
      <3>3. Consumed' = Consumed + taken
        BY <1>8, <3>2
      <3>4. pos + Consumed' + 0 = Offset + taken
        BY <3>1, <3>2, <3>3
      <3>5. Offset + taken = f.from + (PartStop - expected + size)
        <4>1. /\ Offset = f.from + PartStop - expected + inPos /\ f.from \in Nat /\ PartStop \in Nat
              /\ expected \in Nat /\ inPos \in Nat
          BY <1>6, <3>2
        <4> HIDE DEF f
        <4> QED BY <4>1
      <3>6. Offset' = f.from + (PartStop' - expected')
        <4> DEFINE stop == PartStop'
                   wait == expected'
                   at == f.from
        <4>1. wait \in Nat /\ at \in Nat /\ stop - wait = PartStop - expected + size
              /\ Offset' = at + stop - wait + 0
          BY <1>4, <1>6, <2>2
        <4>2. stop \in Int
          <5>1. InFrame' /\ IInv
            BY <1>9
          <5>2. stop = FrameSize(f) \/ stop = BlockStop(CurrentBlock')
                \/ stop = CurrentBlock'.from + BlockHeaderSize
            BY <1>1 DEF PartStop
          <5>3. stage' = "ZSTDds_decodeBlockHeader" \/ InBlock' => block' \in DOMAIN f.blocks
            BY <1>1, <1>4 DEF StagesInFrame
          <5>4. FrameSize(f) \in Nat
            BY <1>6, FrameFacts
          <5>5. CASE stage' = "ZSTDds_decodeBlockHeader" \/ InBlock'
            <6>1. /\ CurrentBlock'.from \in Nat /\ CurrentBlock'.csize \in Nat
                  /\ BlockStop(CurrentBlock') = CurrentBlock'.from + BlockHeaderSize + CurrentBlock'.csize
              BY <1>1, <1>6, <5>3, <5>5, BlockFacts DEF CurrentBlock
            <6> HIDE DEF stop, f
            <6> QED BY <5>2, <5>4, <6>1, Sizes
          <5>6. CASE ~(stage' = "ZSTDds_decodeBlockHeader" \/ InBlock')
            <6>1. stop = FrameSize(f)
              BY <1>1, <5>6 DEF PartStop
            <6> QED BY <5>4, <6>1
          <5> QED BY <5>5, <5>6
        <4> HIDE DEF stop, wait, at
        <4>3. at + stop - wait + 0 = at + (stop - wait)
          BY <4>1, <4>2
        <4> QED BY <4>1, <4>3 DEF stop, wait, at
      <3> QED BY <1>4, <3>4, <3>5, <3>6
    <2> QED
      BY <1>1, <1>5, <1>8, <1>9, <2>1, <2>3 DEF IInv, Place
  <1>12. Arguments'
    <2>1. avail <= call.given
      BY <1>7, CallNumbers
    <2> HIDE DEF avail
    <2> QED
      BY <1>1, <1>5, <1>8, <2>1 DEF IInv, Arguments
  <1>13. Stages'
    BY <1>1, <1>4, <1>5, <1>9 DEF Stages
  <1>14. Loop'
    BY <1>1, <1>4, <1>8 DEF IInv, Loop
  <1>15. Output'
    <2>1. outStart = outEnd
      <3>1. streamStage # "zdss_flush"
        OBVIOUS
      <3> QED BY <3>1, Numbers
    <2>2. decoded' - sent' = outEnd' - outStart'
      <3>1. decoded - sent = outEnd - outStart /\ decoded \in Nat /\ sent \in Nat /\ outEnd \in Nat
        BY <1>5, Numbers DEF IInv, Output
      <3>2. decoded = sent
        BY <2>1, <3>1
      <3>3. \A d, e \in Nat : d - e = decoded - outEnd => d - decoded = e - outEnd
        BY <3>1
      <3> QED BY <1>1, <1>4, <2>1, <3>2, <3>3
    <2> QED
      BY <1>1, <1>4, <1>7, <1>8, <1>9, <2>2 DEF Output
  <1> QED
    BY <1>4, <1>10, <1>11, <1>12, <1>13, <1>14, <1>15 DEF IInv

LEMMA ReadDirectlyIInv == ASSUME IInv, ReadDirectly PROVE IInv'
  <1> DEFINE needed == NeededInSize(call.avail)
  <1>1. /\ call.running /\ call.work /\ streamStage = "zdss_read"
        /\ needed > 0 /\ needed <= call.avail
        /\ call' = [call EXCEPT !.avail = call.avail - needed]
        /\ DecompressContinue(needed) /\ inPos' = inPos
    BY DEF ReadDirectly, InLoop, GoOn
  <1>2. InFrame /\ inPos = 0
    BY <1>1 DEF InFrame, IInv, Stages
  <1>3. /\ needed \in Nat /\ needed <= expected
        /\ ~(InBlock /\ CurrentBlock.raw) => needed = expected
    BY <1>1, <1>2, NothingNeeded
  <1> HIDE DEF needed
  <1>4. 0 < needed /\ needed = inPos + needed /\ (needed < expected => InBlock /\ CurrentBlock.raw)
    <2>1. 0 < needed /\ needed = inPos + needed /\ (needed < expected => needed # expected)
      BY <1>1, <1>2, <1>3, Numbers
    <2> QED BY <1>3, <2>1
  <1> QED
    BY <1>1, <1>2, <1>3, <1>4, ContinueIInv

LEMMA LoadIInv == ASSUME IInv, Load PROVE IInv'
  <1> DEFINE toLoad == expected - inPos
  <1>1. CASE LoadMore
    BY <1>1, LoadMoreIInv
  <1>2. CASE ~LoadMore
    <2>1. /\ call.running /\ call.work /\ streamStage = "zdss_load"
          /\ call.avail >= toLoad
          /\ inPos' = 0
          /\ call' = [call EXCEPT !.avail = call.avail - toLoad]
          /\ DecompressContinue(expected)
      BY <1>2 DEF Load, LoadMore, InLoop, GoOn
    <2>2. /\ expected \in Nat /\ inPos \in Nat /\ call.avail \in Nat
      BY Numbers, CallNumbers
    <2>3. inPos < expected
      BY <2>1 DEF IInv, InFrame, StagesInFrame
    <2>4. /\ toLoad \in Nat /\ 0 < toLoad /\ toLoad <= call.avail /\ expected = inPos + toLoad
          /\ 0 < expected /\ expected <= expected /\ ~(expected < expected)
      BY <2>1, <2>2, <2>3
    <2> HIDE DEF toLoad
    <2> QED
      BY <2>1, <2>2, <2>4, ContinueIInv
  <1> QED BY <1>1, <1>2

LEMMA NextIInv == IInv /\ Counted /\ [Next]_vars => IInv'
  <1> SUFFICES ASSUME IInv, Counted, [Next]_vars PROVE IInv'
    OBVIOUS
  <1>1. CASE \E given \in Chunks, room \in Rooms : BeginCall(given, room)
    BY <1>1, BeginCallIInv
  <1>2. CASE Turn
    BY <1>2, RestartIInv, LoadHeaderIInv, DecodeWholeIInv, ConsumeHeaderIInv, ReadEndIInv,
       ReadDirectlyIInv, ReadMoreIInv, LoadIInv, FlushIInv, DecodeFailsIInv
    DEF Turn
  <1>3. CASE EndCall
    BY <1>3, ReturnHintIInv, TakeHostageIInv, AwaitHostageIInv, EndFrameIInv, NoProgressIInv
    DEF EndCall
  <1>4. CASE UNCHANGED vars
    <2>1. /\ UNCHANGED <<streamStage, stage, expected, lhSize, inPos, inBuffSize>>
          /\ UNCHANGED <<outBuff, outBuffSize, outStart, outEnd, hostageByte, noForwardProgress>>
          /\ UNCHANGED <<frame, block, decoded, sent, pos, broken, last, call>>
      BY <1>4 DEF vars, stageVars, inVars, outVars, endVars, placeVars, callerVars
    <2>2. HoldsHostage' = HoldsHostage /\ (InFrame' <=> InFrame)
      BY <2>1 DEF HoldsHostage, InFrame
    <2>3. TypeOK'
      BY <2>1 DEF IInv, TypeOK
    <2>4. Place'
      <3>1. Offset' = Offset /\ DecodedThere' = DecodedThere
        BY <2>1, <2>2
        DEF Offset, DecodedThere, PartStop, DecodedOfFrame, CurrentBlock, InBlock
      <3> QED BY <2>1, <2>2, <3>1 DEF IInv, Place, Consumed
    <2>5. Arguments' /\ Stages'
      BY <2>1, <2>2 DEF IInv, Arguments, Stages
    <2>6. Loop' /\ Output'
      BY <2>1, <2>2 DEF IInv, Loop, Output, Unflushed
    <2>7. InFrame' => StagesInFrame' /\ Ring'
      <3>1. InFrame /\ streamStage' = "zdss_load" => inPos' < expected /\ ~(InBlock /\ CurrentBlock.raw)
        BY <2>1 DEF IInv, StagesInFrame
      <3> QED BY <2>1, <2>2, <3>1, SameFrame
    <2> QED
      BY <2>3, <2>4, <2>5, <2>6, <2>7 DEF IInv
  <1> QED
    BY <1>1, <1>2, <1>3, <1>4 DEF Next

\* A call that returns without progress was stopped by its input or its room, or ends a frame.
LEMMA ReturnCounted ==
  ASSUME IInv, Counted, Returns, NEW read \in Nat, NEW done \in BOOLEAN, Return(read, done),
         \/ call.left = 0 \/ call.avail = 0
         \/ call.hint
         \/ streamStage' = "zdss_init",
         call.hint => streamStage' = streamStage
  PROVE  Counted'
  <1>1. /\ call.running /\ ~call.work /\ ~call'.running /\ UNCHANGED <<lhSize, frame>>
        /\ noForwardProgress \in Nat
    BY ReturnFacts, Numbers
  <1>2. CASE call.hint
    <2>1. /\ streamStage = "zdss_loadHeader"
          /\ frame <= Len(Frames) => lhSize < Frames[frame].header
      BY <1>1, <1>2 DEF IInv, Arguments, Loop
    <2> QED BY <1>1, <1>2, <2>1 DEF Counted
  <1>3. CASE ~call.hint /\ streamStage' = "zdss_init"
    BY <1>1, <1>3 DEF Counted
  <1>4. CASE ~call.hint /\ (call.left = 0 \/ call.avail = 0)
    <2>1. noForwardProgress' = IF Progress THEN 0 ELSE noForwardProgress + 1
      BY <1>4 DEF Return
    <2>2. Progress \/ noForwardProgress + 1 < NoForwardProgressMax
      BY <1>1, <1>4, Sizes DEF Returns, Stuck
    <2>3. noForwardProgress' < NoForwardProgressMax
      BY <2>1, <2>2, Sizes
    <2> QED BY <2>3 DEF Counted
  <1> QED BY <1>2, <1>3, <1>4

LEMMA CountedNext == ASSUME IInv, Counted, [Next]_vars PROVE Counted'
  <1>1. ASSUME UNCHANGED <<broken, noForwardProgress, streamStage, lhSize, frame>>, call'.running = call.running,
               call'.work = call.work, call'.hint = call.hint, call'.avail = call.avail, call'.given = call.given
        PROVE  Counted'
    BY <1>1 DEF Counted
  <1>2. CASE \E given \in Chunks, room \in Rooms : BeginCall(given, room)
    BY <1>2 DEF BeginCall, Counted, stageVars, inVars, endVars, placeVars, callerVars
  <1>3. CASE Restart
    <2>1. /\ call.running /\ call.work /\ streamStage' = "zdss_loadHeader" /\ lhSize' = 0 /\ frame' = frame + 1
          /\ UNCHANGED call
      BY <1>3 DEF Restart, InLoop
    <2>2. frame' <= Len(Frames) => 0 < Frames[frame'].header
      <3>1. SUFFICES ASSUME frame' <= Len(Frames) PROVE 0 < Frames[frame'].header
        OBVIOUS
      <3>2. frame \in Nat /\ DOMAIN Frames = 1 .. Len(Frames) /\ Len(Frames) \in Nat
        BY Numbers, FrameNumbers
      <3>3. frame' \in DOMAIN Frames
        BY <2>1, <3>1, <3>2
      <3> QED BY <3>3, FrameType
    <2> QED BY <2>1, <2>2 DEF Counted
  <1>4. CASE LoadHeader
    <2> DEFINE toLoad == HeaderSize - lhSize
    <2>1. /\ call.running /\ call.work /\ lhSize < HeaderSize /\ streamStage = "zdss_loadHeader"
          /\ UNCHANGED <<streamStage, frame>>
      BY <1>4 DEF LoadHeader, InLoop, stageVars, placeVars
    <2>2. call \in Calls
      BY DEF IInv, TypeOK
    <2>3. CASE /\ call' = [call EXCEPT !.avail = 0, !.work = FALSE, !.hint = TRUE]
      <3>1. IInv'
        BY <1>4, LoadHeaderIInv
      <3>2. call'.running /\ ~call'.work /\ call'.hint
        BY <2>1, <2>2, <2>3 DEF Calls
      <3>3. frame' <= Len(Frames) => lhSize' < Frames[frame'].header
        BY <2>1, <3>1, <3>2 DEF IInv, Loop
      <3> QED BY <2>1, <3>2, <3>3 DEF Counted
    <2>4. CASE toLoad <= call.avail /\ GoOn(call.avail - toLoad)
      <3>1. toLoad \in Nat /\ toLoad > 0
        <4>1. lhSize \in Nat /\ call.avail \in Nat
          BY Numbers, CallNumbers
        <4>2. HeaderSize \in Nat
          BY <1>4, HeaderNeeded
        <4> QED BY <2>1, <4>1, <4>2
      <3>2. call'.running /\ call'.avail = call.avail - toLoad /\ call'.given = call.given
        BY <2>1, <2>2, <2>4 DEF GoOn, Calls
      <3>3. call'.avail < call'.given
        <4>1. call.avail \in Nat /\ call.given \in Nat /\ call.avail <= call.given
          BY CallNumbers
        <4> HIDE DEF toLoad
        <4> QED BY <3>1, <3>2, <4>1
      <3> QED BY <3>2, <3>3 DEF Counted
    <2> QED BY <1>4, <2>3, <2>4 DEF LoadHeader
  <1>5. CASE DecodeWhole
    <2>1. /\ frame \in DOMAIN Frames /\ call.running
          /\ Frames[frame].inside = {}
      BY <1>5, HeaderDone, HeadersAssumption DEF DecodeWhole
    <2>2. PICK n \in SizesFound(CallFrom) :
            call' = [call EXCEPT !.avail = call.given - n,
                                 !.left = @ - (IF CallFrom = 0 THEN Frames[frame].content ELSE 0), !.work = FALSE]
      BY <1>5 DEF DecodeWhole
    <2>3. n = FrameSize(Frames[frame])
      BY <2>1 DEF SizesFound
    <2>4. n \in Nat /\ n > 0
      <3> DEFINE f == Frames[frame]
      <3>1. /\ f.header \in Nat /\ f.header > 1 /\ BlocksEnd(f) \in Nat /\ f.header <= BlocksEnd(f)
            /\ f.content \in Nat
            /\ FrameSize(f) = BlocksEnd(f) + (IF f.skippable THEN f.content
                                              ELSE IF f.checksum THEN ChecksumSize ELSE 0)
        BY <2>1, FrameType, FrameFacts
      <3> HIDE DEF f
      <3>2. FrameSize(f) \in Nat /\ FrameSize(f) > 0
        BY <3>1, Sizes
      <3> QED BY <2>3, <3>2 DEF f
    <2>5. call \in Calls /\ call.given \in Nat
      BY CallNumbers DEF IInv, TypeOK
    <2>6. call'.running /\ call'.avail = call.given - n /\ call'.given = call.given
      BY <2>1, <2>2, <2>5 DEF Calls
    <2>7. call'.avail < call'.given
      BY <2>4, <2>5, <2>6
    <2> QED BY <2>6, <2>7 DEF Counted
  <1>6. CASE ConsumeHeader
    <2>1. /\ streamStage = "zdss_loadHeader" /\ frame <= Len(Frames) /\ lhSize = Frames[frame].header
          /\ lhSize \in Nat
      BY <1>6, HeaderDone, Numbers DEF ConsumeHeader
    <2>2. UNCHANGED <<broken, noForwardProgress, call>>
      BY <1>6 DEF ConsumeHeader, endVars, callerVars
    <2> QED BY <2>1, <2>2 DEF Counted
  \* In a frame only the count, or progress, counts.
  <1>7. ASSUME streamStage \notin {"zdss_init", "zdss_loadHeader"}, UNCHANGED <<broken, noForwardProgress>>,
               call'.running, call'.given = call.given, call'.avail <= call.avail, call'.avail \in Nat
        PROVE  Counted'
    <2>1. call.avail \in Nat /\ call.given \in Nat
      BY CallNumbers
    <2> QED BY <1>7, <2>1 DEF Counted
  <1>8. CASE ReadEnd \/ ReadMore
    <2>1. /\ streamStage = "zdss_read" /\ call.running /\ UNCHANGED <<broken, noForwardProgress>>
          /\ Stop(call.avail) \/ Stop(0) \/ UNCHANGED call
      BY <1>8 DEF ReadEnd, ReadMore, InLoop, endVars, callerVars
    <2>2. call \in Calls
      BY DEF IInv, TypeOK
    <2>3. call'.running /\ call'.given = call.given /\ call'.avail \in {0, call.avail}
      BY <2>1, <2>2 DEF Stop, Calls
    <2>4. call.avail \in Nat
      BY CallNumbers
    <2> QED BY <1>7, <2>1, <2>3, <2>4
  <1>9. CASE Flush
    <2>1. /\ streamStage = "zdss_flush" /\ call.running /\ UNCHANGED <<broken, noForwardProgress>>
          /\ call' = [call EXCEPT !.left = @ - (FlushEnd - outStart), !.work = (FlushEnd = outEnd)]
      BY <1>9 DEF Flush, FlushTo, InLoop, endVars, callerVars
    <2>2. call \in Calls /\ call.avail \in Nat
      BY CallNumbers DEF IInv, TypeOK
    <2>3. call'.running /\ call'.given = call.given /\ call'.avail = call.avail
      BY <2>1, <2>2 DEF Calls
    <2> QED BY <1>7, <2>1, <2>2, <2>3
  <1>10. CASE ReadDirectly
    <2> DEFINE needed == NeededInSize(call.avail)
    <2>1. /\ streamStage = "zdss_read" /\ call.running /\ needed > 0 /\ needed <= call.avail
          /\ call' = [call EXCEPT !.avail = call.avail - needed]
          /\ UNCHANGED <<broken, noForwardProgress>>
      BY <1>10 DEF ReadDirectly, InLoop, GoOn, DecompressContinue, endVars, callerVars
    <2>2. call \in Calls /\ call.avail \in Nat
      BY CallNumbers DEF IInv, TypeOK
    <2>3. call'.running /\ call'.given = call.given /\ call'.avail = call.avail - needed
      BY <2>1, <2>2 DEF Calls
    <2>4. needed \in Nat
      BY <2>2, Numbers DEF NeededInSize, Larger, Smaller
    <2>5. call'.avail <= call.avail /\ call'.avail \in Nat
      <3> HIDE DEF needed
      <3> QED BY <2>1, <2>2, <2>3, <2>4
    <2> QED BY <1>7, <2>1, <2>3, <2>5
  <1>11. CASE Load
    <2>1. /\ streamStage = "zdss_load" /\ call.running /\ UNCHANGED <<broken, noForwardProgress>>
      BY <1>11 DEF Load, InLoop, DecompressContinue, endVars, callerVars
    <2>2. call \in Calls /\ call.avail \in Nat /\ expected \in Nat /\ inPos \in Nat
      BY CallNumbers, Numbers DEF IInv, TypeOK
    <2>3. CASE Stop(0)
      <3>1. call'.running /\ call'.given = call.given /\ call'.avail = 0
        BY <2>1, <2>2, <2>3 DEF Calls, Stop
      <3> QED BY <1>7, <2>1, <2>2, <3>1
    <2>4. CASE call.avail >= expected - inPos /\ GoOn(call.avail - (expected - inPos))
      <3>1. call'.running /\ call'.given = call.given /\ call'.avail = call.avail - (expected - inPos)
        BY <2>1, <2>2, <2>4 DEF Calls, GoOn
      <3>2. inPos < expected
        BY <2>1 DEF IInv, InFrame, StagesInFrame
      <3>3. call'.avail <= call.avail /\ call'.avail \in Nat
        BY <2>2, <2>4, <3>1, <3>2
      <3> QED BY <1>7, <2>1, <3>1, <3>3
    <2> QED BY <1>11, <2>3, <2>4 DEF Load
  <1>12. CASE DecodeFails \/ NoProgress
    BY <1>12 DEF DecodeFails, NoProgress, Counted
  <1>13. CASE ReturnHint
    <2>1. Returns /\ Return(Consumed, FALSE) /\ UNCHANGED streamStage /\ Consumed \in Nat
          /\ call.running /\ ~call.work
      BY <1>13, CallNumbers DEF ReturnHint, Returns
    <2>2. CASE call.hint
      BY <2>1, <2>2, ReturnCounted
    <2>3. CASE ~call.hint
      <3>1. expected > 0
        BY <1>13, <2>3 DEF ReturnHint
      <3>2. streamStage # "zdss_init"
        BY <3>1 DEF IInv, Stages
      <3>3. call.left = 0 \/ call.avail = 0
        BY <2>1, <2>3, <3>2 DEF IInv, Loop
      <3> QED BY <2>1, <2>3, <3>3, ReturnCounted
    <2> QED BY <2>2, <2>3
  <1>14. CASE TakeHostage
    <2>1. /\ Returns /\ Return(ConsumedButHostage, FALSE) /\ ~call.hint /\ expected = 0 /\ Unflushed
          /\ call.running /\ ~call.work
      BY <1>14 DEF TakeHostage, Returns
    <2>2. call.left = 0 /\ (~hostageByte => call.avail < call.given)
      BY <2>1, FrameWaits
    <2>3. ConsumedButHostage \in Nat
      <3>1. /\ call.given \in Nat /\ call.avail \in Nat /\ Consumed \in Nat
            /\ Consumed = call.given - call.avail
        BY CallNumbers
      <3> QED BY <2>2, <3>1 DEF ConsumedButHostage
    <2> QED BY <2>1, <2>2, <2>3, ReturnCounted
  <1>15. CASE AwaitHostage
    <2>1. Returns /\ Return(Consumed, FALSE) /\ ~call.hint /\ call.avail = 0 /\ Consumed \in Nat
      BY <1>15, CallNumbers DEF AwaitHostage
    <2> QED BY <2>1, ReturnCounted
  <1>16. CASE EndFrame
    <2> DEFINE read == IF hostageByte THEN Consumed + 1 ELSE Consumed
    <2>1. /\ Returns /\ Return(read, TRUE) /\ ~call.hint /\ expected = 0 /\ ~Unflushed
          /\ UNCHANGED streamStage /\ call.running /\ ~call.work
      BY <1>16 DEF EndFrame, Returns
    <2>2. streamStage = "zdss_init"
      BY <2>1, FrameFlushed
    <2>3. read \in Nat
      BY CallNumbers
    <2> HIDE DEF read
    <2> QED BY <2>1, <2>2, <2>3, ReturnCounted
  <1>17. CASE UNCHANGED vars
    BY <1>1, <1>17 DEF vars, stageVars, inVars, endVars, placeVars, callerVars
  <1> QED
    BY <1>2, <1>3, <1>4, <1>5, <1>6, <1>8, <1>9, <1>10, <1>11, <1>12, <1>13, <1>14, <1>15, <1>16, <1>17
    DEF Next, Turn, EndCall

LEMMA Invariance == Spec => [](IInv /\ Counted)
  <1>1. Init => Counted
    BY DEF Init, Counted, Idle
  <1>2. IInv /\ Counted /\ [Next]_vars => Counted'
    BY CountedNext
  <1> QED
    BY <1>1, <1>2, InitIInv, NextIInv, PTL DEF Spec

(* Every reachable state is well-typed, outStart and outEnd stay within     *)
(* outBuff, and the count of calls without progress within its bound.       *)
THEOREM TypeCorrect == Spec => []TypeOK
  <1>1. IInv => TypeOK
    BY DEF IInv
  <1> QED
    BY <1>1, Invariance, PTL
-----------------------------------------------------------------------------
\* The window of a block that is about to be decoded is in outBuff, in front of its slots
\* or behind them.
LEMMA WindowIsIntact == IInv => WindowIntact
  <1> DEFINE f == Frames[frame]
             max == BlockSizeMax(f)
             room == outStart .. Smaller(outBuffSize, outStart + max) - 1
             size == IF CurrentBlock.raw THEN expected ELSE CurrentBlock.rsize
  <1> SUFFICES ASSUME IInv, InBlock, streamStage \in {"zdss_read", "zdss_load"}
               PROVE  /\ Window \subseteq {outBuff[i] : i \in DOMAIN outBuff \ room}
                      /\ outStart + size <= outBuffSize
    BY DEF WindowIntact
  <1>1. InFrame /\ StagesInFrame /\ Ring /\ TypeOK /\ frame \in DOMAIN Frames
        /\ decoded = f.before + DecodedOfFrame
    BY DEF IInv, InFrame, StagesInFrame, Place, DecodedThere
  <1>2. /\ outStart = outEnd /\ outEnd \in Nat /\ outBuffSize \in Nat /\ outEnd <= outBuffSize
        /\ decoded \in Nat /\ expected \in Nat
    BY Numbers
  <1>3. /\ f.before \in Nat /\ f.window \in Nat /\ f.content \in Nat /\ max \in Nat
        /\ f.declared \in BOOLEAN /\ f.skippable \in BOOLEAN
    BY <1>1, FrameType
  <1>4. Lap = decoded - outEnd /\ f.before <= Lap /\ Lap \in Nat
    <2>1. Lap = decoded - outEnd /\ f.before <= Lap
      BY <1>1 DEF Lap, Ring
    <2> HIDE DEF f
    <2> QED BY <1>2, <1>3, <2>1
  <1>5. Wraps => f.window + 2 * max <= outBuffSize /\ outEnd + max <= outBuffSize
    <2>1. DecodingBufferSize(f) <= outBuffSize /\ (Wraps => outEnd + max <= outBuffSize)
      BY <1>1 DEF Ring
    <2> QED BY <1>1, <1>2, <2>1, RingRoom DEF Wraps
  <1>6. ~Wraps => Lap = f.before /\ f.content <= outBuffSize
    BY <1>1 DEF Wraps, Ring
  <1>7. outStart + size <= outBuffSize
    <2> DEFINE b == CurrentBlock
    <2>1. /\ b.csize \in Nat /\ b.rsize \in Nat /\ b.before \in Nat /\ b.raw \in BOOLEAN
          /\ b.csize <= max /\ b.rsize <= max
          /\ b.raw => b.csize = b.rsize
          /\ b.before + b.rsize <= f.content
          /\ expected <= b.csize
      <3>1. block \in DOMAIN f.blocks /\ expected <= b.csize
        BY <1>1 DEF StagesInFrame
      <3> QED BY <1>1, <3>1, BlockFacts DEF CurrentBlock
    <2>2. DecodedOfFrame = b.before + (IF b.raw THEN b.csize - expected ELSE 0)
      BY DEF DecodedOfFrame, InBlock
    <2>3. size \in Nat /\ size <= max
      <3>1. expected <= max
        <4> HIDE DEF b, f, max
        <4> QED BY <1>2, <1>3, <2>1
      <3>2. CASE b.raw
        BY <1>2, <3>1, <3>2
      <3>3. CASE ~b.raw
        BY <2>1, <3>3
      <3> QED BY <3>2, <3>3
    <2>4. CASE Wraps
      <3> HIDE DEF size, f, max
      <3> QED BY <1>2, <1>3, <1>5, <2>3, <2>4
    <2>5. CASE ~Wraps
      <3>1. outEnd = DecodedOfFrame
        <4>1. decoded - outEnd = f.before /\ decoded = f.before + DecodedOfFrame /\ DecodedOfFrame \in Int
          <5>1. DecodedOfFrame \in Int
            <6> HIDE DEF b
            <6> QED BY <1>2, <2>1, <2>2
          <5> QED BY <1>1, <1>4, <1>6, <2>5, <5>1
        <4> HIDE DEF f
        <4> QED BY <1>2, <1>3, <4>1
      <3>2. CASE b.raw
        <4>1. size = expected /\ outEnd = b.before + (b.csize - expected) /\ b.csize = b.rsize
          <5>1. size = expected /\ b.csize = b.rsize
            BY <2>1, <3>2
          <5>2. DecodedOfFrame = b.before + (b.csize - expected)
            BY <2>2, <3>2
          <5> QED BY <3>1, <5>1, <5>2
        <4> HIDE DEF size, b, f, max
        <4> QED BY <1>2, <1>3, <1>6, <2>1, <2>5, <4>1
      <3>3. CASE ~b.raw
        <4>1. size = b.rsize /\ outEnd = b.before + 0
          BY <2>2, <3>1, <3>3
        <4> HIDE DEF size, b, f, max
        <4> QED BY <1>2, <1>3, <1>6, <2>1, <2>5, <4>1
      <3> QED BY <3>2, <3>3
    <2> QED BY <2>4, <2>5
  <1>8. ASSUME NEW x \in Window PROVE x \in {outBuff[i] : i \in DOMAIN outBuff \ room}
    <2>1. DOMAIN outBuff = 0 .. outBuffSize - 1
      BY <1>1 DEF TypeOK
    <2>2. x \in Nat /\ f.before < x /\ decoded - f.window < x /\ x <= decoded
      <3>1. x \in Larger(f.before, decoded - f.window) + 1 .. decoded
        BY DEF Window
      <3> HIDE DEF f
      <3> QED BY <1>2, <1>3, <3>1 DEF Larger
    <2>3. CASE Lap < x
      <3> DEFINE i == x - Lap - 1
      <3>1. i \in 0 .. outEnd - 1
        <4> HIDE DEF f
        <4> QED BY <1>2, <1>4, <2>2, <2>3
      <3>2. outBuff[i] = Lap + 1 + i
        BY <1>1, <3>1 DEF Ring
      <3>3. Lap + 1 + i = x /\ i \in 0 .. outBuffSize - 1 /\ i < outStart
        <4> HIDE DEF f
        <4> QED BY <1>2, <1>4, <2>2, <3>1
      <3>4. i \notin room
        <4>1. \A n \in Nat : i \notin outStart .. n - 1
          <5> HIDE DEF i
          <5> QED BY <1>2, <3>3
        <4>2. Smaller(outBuffSize, outStart + max) \in Nat
          <5> HIDE DEF max
          <5> QED BY <1>2, <1>3 DEF Smaller
        <4> QED BY <4>1, <4>2
      <3> HIDE DEF i, room
      <3> QED BY <2>1, <3>2, <3>3, <3>4
    <2>4. CASE x <= Lap
      <3>1. f.before < Lap /\ Wraps
        <4>1. f.before < Lap
          <5> HIDE DEF f
          <5> QED BY <1>3, <1>4, <2>2, <2>4
        <4>2. f.before # Lap
          <5> HIDE DEF f
          <5> QED BY <1>3, <4>1
        <4> QED BY <1>6, <4>1, <4>2
      <3>2. PICK lapEnd \in 0 .. outBuffSize :
              /\ outBuffSize < lapEnd + max
              /\ \A i \in outEnd .. lapEnd - 1 : outBuff[i] = Lap - lapEnd + 1 + i
        BY <1>1, <3>1 DEF Ring
      <3> DEFINE i == x - Lap + lapEnd - 1
      <3>3. /\ i \in outEnd .. lapEnd - 1 /\ i \in 0 .. outBuffSize - 1
            /\ Lap - lapEnd + 1 + i = x /\ i >= outStart + max
        <4>1. f.window + max < lapEnd
          <5> HIDE DEF f, max
          <5> QED BY <1>2, <1>3, <1>5, <3>1, <3>2
        <4> HIDE DEF f, max
        <4> QED BY <1>2, <1>3, <1>4, <2>2, <2>4, <4>1
      <3>4. outBuff[i] = Lap - lapEnd + 1 + i
        BY <3>2, <3>3
      <3>5. i \notin room
        <4>1. Smaller(outBuffSize, outStart + max) <= outStart + max
              /\ Smaller(outBuffSize, outStart + max) \in Nat
          <5> HIDE DEF max
          <5> QED BY <1>2, <1>3 DEF Smaller
        <4> DEFINE stop == Smaller(outBuffSize, outStart + max)
        <4>2. i >= outStart + max /\ i \in Nat /\ max \in Nat /\ outStart \in Nat
              /\ stop <= outStart + max /\ stop \in Nat
          BY <1>2, <1>3, <3>3, <4>1
        <4> HIDE DEF stop, i, max
        <4>3. i \notin outStart .. stop - 1
          BY <4>2
        <4> QED BY <4>3 DEF stop
      <3> HIDE DEF i, room
      <3> QED BY <2>1, <3>3, <3>4, <3>5
    <2>5. Lap < x \/ x <= Lap
      BY <1>4, <2>2
    <2> QED BY <2>3, <2>4, <2>5
  <1> QED BY <1>7, <1>8

\* Content leaves outBuff in order.
LEMMA FlushIsInOrder == IInv => FlushesInOrder
  <1> SUFFICES ASSUME IInv PROVE FlushesInOrder
    OBVIOUS
  <1>1. Output /\ TypeOK
    BY DEF IInv
  <1>2. ~broken => decoded - sent = outEnd - outStart
    BY <1>1 DEF Output
  <1>3. ASSUME streamStage = "zdss_flush", NEW i \in outStart .. outEnd - 1
        PROVE  outBuff[i] = sent + 1 + i - outStart
    <2>1. /\ outStart \in Nat /\ outEnd \in Nat /\ decoded \in Nat /\ sent \in Nat
      BY Numbers
    <2>2. decoded - sent = outEnd - outStart
      BY <1>1, <1>3 DEF Output
    <2>3. i \in 0 .. outEnd - 1
      BY <1>3, <2>1
    <2>4. outBuff[i] = decoded - outEnd + 1 + i
      BY <1>3, <2>3 DEF IInv, InFrame, Ring, Lap
    <2>5. decoded - outEnd + 1 + i = sent + 1 + i - outStart
      BY <2>1, <2>2, <2>3
    <2> QED BY <2>4, <2>5
  <1> QED
    BY <1>2, <1>3 DEF FlushesInOrder

\* What is gathered fits inBuff.
LEMMA GatheredIsFit == IInv => GatheredFits
  <1> SUFFICES ASSUME IInv, streamStage = "zdss_load"
               PROVE  /\ stage # "ZSTDds_skipFrame" => inPos < expected /\ expected <= inBuffSize
                      /\ ~(InBlock /\ CurrentBlock.raw)
    BY DEF GatheredFits
  <1> DEFINE f == Frames[frame]
             max == BlockSizeMax(f)
  <1>1. StagesInFrame
    BY DEF IInv, InFrame
  <1>2. /\ frame \in DOMAIN Frames /\ inPos < expected /\ ~(InBlock /\ CurrentBlock.raw)
        /\ inBuffSize >= Larger(max, ChecksumSize)
    BY <1>1 DEF StagesInFrame
  <1>3. max \in Nat /\ inBuffSize \in Nat /\ expected \in Nat
    BY <1>2, FrameType, Numbers
  <1>4. expected # 0
    BY <1>2, <1>3, Numbers
  <1>5. stage # "ZSTDds_skipFrame" =>
          \/ expected <= ChecksumSize
          \/ expected <= max
    <2>1. CASE InBlock
      <3>1. block \in DOMAIN f.blocks /\ expected <= CurrentBlock.csize
        BY <1>1, <2>1 DEF StagesInFrame
      <3>2. CurrentBlock.csize <= max /\ CurrentBlock.csize \in Nat
        BY <1>2, <3>1, BlockFacts DEF CurrentBlock
      <3> HIDE DEF max
      <3> QED BY <1>3, <3>1, <3>2
    <2>2. CASE stage \in {"ZSTDds_decodeBlockHeader", "ZSTDds_checkChecksum"}
      <3>1. expected = BlockHeaderSize \/ expected = ChecksumSize
        BY <1>1, <2>2 DEF StagesInFrame
      <3> QED BY <3>1, Sizes
    <2>3. CASE stage = "ZSTDds_getFrameHeaderSize"
      BY <1>1, <1>4, <2>3 DEF StagesInFrame
    <2> QED
      BY <2>1, <2>2, <2>3 DEF IInv, TypeOK, DStages, InBlock
  <1>6. stage # "ZSTDds_skipFrame" => expected <= inBuffSize
    <2> HIDE DEF max
    <2> QED BY <1>2, <1>3, <1>5, Sizes DEF Larger
  <1> QED BY <1>2, <1>6

(* Whatever the frames, the sizes of the buffers and the parts in which     *)
(* input comes and output is taken: when a block is decoded, the content it *)
(* may refer to is still in outBuff and outside of the slots that it will   *)
(* fill, and it fits; content is copied out in order and completely; and    *)
(* input gathered across calls fits inBuff.                                 *)
THEOREM BuffersAreIntact == Spec => []BuffersIntact
  <1>1. IInv => BuffersIntact
    BY WindowIsIntact, FlushIsInOrder, GatheredIsFit DEF BuffersIntact
  <1> QED
    BY <1>1, Invariance, PTL

-----------------------------------------------------------------------------
(* The contract: first what it knows of a place in the text, then that a    *)
(* call that returns keeps its promise and that no other step is seen; and  *)
(* what the contract assumes of a text.                                     *)

\* A set of numbers has a least one.
LEMMA Least ==
  ASSUME NEW S \in SUBSET Nat, S # {}
  PROVE  \E i \in S : \A j \in S : i <= j
  <1>1. PICK i \in S : \A j \in S : ~(<<j, i>> \in OpToRel(<, Nat))
    BY NatLessThanWellFounded, WFMin
  <1>2. ASSUME NEW j \in S PROVE i <= j
    <2>1. i \in Nat /\ j \in Nat
      OBVIOUS
    <2>2. <<j, i>> \in Nat \X Nat => ~(j < i)
      BY <1>1 DEF OpToRel
    <2> QED
      BY <2>1, <2>2
  <1> QED
    BY <1>2

\* Every byte between the header of a frame and its trailer is part of a block.
LEMMA BlockAt ==
  ASSUME NEW k \in DOMAIN Frames, NEW n \in Nat,
         Frames[k].header < n, n <= BlocksEnd(Frames[k])
  PROVE  /\ ~Frames[k].skippable
         /\ \E i \in DOMAIN Frames[k].blocks :
              Frames[k].blocks[i].from < n /\ n <= BlockStop(Frames[k].blocks[i])
  <1> DEFINE f == Frames[k]
             S == {i \in DOMAIN f.blocks : n <= BlockStop(f.blocks[i])}
  <1>1. /\ f.header \in Nat /\ f.blocks \in Seq(Block) /\ f.skippable \in BOOLEAN
        /\ ~f.skippable => f.blocks # <<>>
    BY FrameType
  <1>2. ~f.skippable
    <2>1. f.skippable => BlocksEnd(f) = f.header
      BY FrameFacts
    <2> QED BY <1>1, <2>1
  <1>3. Len(f.blocks) \in DOMAIN f.blocks /\ DOMAIN f.blocks \subseteq Nat
    BY <1>1, <1>2
  <1>4. Len(f.blocks) \in S
    BY <1>2, <1>3 DEF BlocksEnd
  <1>5. PICK i \in S : \A j \in S : i <= j
    <2>1. S \in SUBSET Nat /\ S # {}
      BY <1>3, <1>4
    <2> HIDE DEF S
    <2> QED BY <2>1, Least
  <1>6. f.blocks[i].from < n
    <2>1. i \in Nat /\ 1 <= i /\ i \in DOMAIN f.blocks /\ i <= Len(f.blocks) /\ Len(f.blocks) \in Nat
      BY BlockFacts
    <2>2. CASE i = 1
      BY <1>2, <2>2, BlocksAssumption
    <2>3. CASE i # 1
      <3>1. i - 1 \in DOMAIN f.blocks /\ i - 1 \in Nat /\ i > 1 /\ ~(i <= i - 1)
        <4> HIDE DEF f, S
        <4> QED BY <1>1, <2>1, <2>3
      <3>2. ~(n <= BlockStop(f.blocks[i - 1]))
        BY <1>5, <3>1
      <3>3. f.blocks[i].from = BlockStop(f.blocks[i - 1])
        BY <2>1, <3>1, BlocksAssumption
      <3>4. f.blocks[i].from \in Nat
        BY <2>1, BlockFacts
      <3> QED BY <3>2, <3>3, <3>4
    <2> QED BY <2>2, <2>3
  <1> QED
    BY <1>2, <1>6

\* What can be decoded in the middle of a block.
LEMMA DecodableInBlock ==
  ASSUME NEW k \in DOMAIN Frames, NEW i \in DOMAIN Frames[k].blocks, NEW n \in Nat,
         Frames[k].blocks[i].from < n, n <= BlockStop(Frames[k].blocks[i])
  PROVE  LET b == Frames[k].blocks[i]
         IN  DecodableOfFrame(Frames[k], n) = b.before + DecodableOfBlock(b, n - b.from)
  <1> DEFINE f == Frames[k]
             b == f.blocks[i]
             In(j) == f.blocks[j].from < n /\ n <= BlockStop(f.blocks[j])
  <1>1. /\ ~f.skippable /\ b.from \in Nat /\ f.header <= b.from /\ BlockStop(b) <= BlocksEnd(f)
        /\ BlocksEnd(f) \in Nat /\ f.header \in Nat /\ BlockStop(b) \in Nat
    <2>1. b.csize \in Nat /\ BlockStop(b) = b.from + BlockHeaderSize + b.csize /\ b.from \in Nat
      BY BlockFacts
    <2>2. BlockStop(b) \in Nat
      <3> HIDE DEF b
      <3> QED BY <2>1, Sizes
    <2> QED BY <2>2, BlockFacts, FrameFacts, FrameType
  <1>2. ~(n <= f.header) /\ ~(n > BlocksEnd(f))
    <2> HIDE DEF f, b
    <2> QED BY <1>1 DEF b, f
  <1>3. ASSUME NEW j \in DOMAIN f.blocks, In(j) PROVE j = i
    <2>1. i \in Nat /\ j \in Nat /\ f.blocks[j].from \in Nat /\ BlockStop(f.blocks[j]) \in Nat
      <3>1. f.blocks[j].csize \in Nat /\ f.blocks[j].from \in Nat
            /\ BlockStop(f.blocks[j]) = f.blocks[j].from + BlockHeaderSize + f.blocks[j].csize
        BY BlockFacts
      <3>2. BlockStop(f.blocks[j]) \in Nat
        <4> DEFINE c == f.blocks[j]
        <4> HIDE DEF c
        <4> QED BY <3>1, Sizes DEF c
      <3> QED BY <3>1, <3>2, BlockFacts
    <2>2. i < j => BlockStop(b) <= f.blocks[j].from
      BY BlocksAssumption
    <2>3. j < i => BlockStop(f.blocks[j]) <= b.from
      BY BlocksAssumption
    <2>4. f.blocks[j].from < n /\ n <= BlockStop(f.blocks[j]) /\ b.from < n /\ n <= BlockStop(b)
      BY <1>3
    <2> HIDE DEF f, b
    <2> QED BY <1>1, <2>1, <2>2, <2>3, <2>4
  <1>4. (CHOOSE j \in DOMAIN f.blocks : In(j)) = i
    <2>1. In(i)
      OBVIOUS
    <2> HIDE DEF In
    <2> QED BY <1>3, <2>1
  <1> QED
    BY <1>1, <1>2, <1>4 DEF DecodableOfFrame

LEMMA DecodableOfBlockType ==
  ASSUME NEW k \in DOMAIN Frames, NEW i \in DOMAIN Frames[k].blocks, NEW n \in Nat,
         n <= BlockHeaderSize + Frames[k].blocks[i].csize
  PROVE  LET b == Frames[k].blocks[i]
         IN  /\ DecodableOfBlock(b, n) \in Nat /\ DecodableOfBlock(b, n) <= b.rsize
             /\ \A m \in Nat : m <= n => DecodableOfBlock(b, m) <= DecodableOfBlock(b, n)
  <1> DEFINE b == Frames[k].blocks[i]
  <1>1. b.csize \in Nat /\ b.rsize \in Nat /\ (b.raw => b.csize = b.rsize) /\ b.raw \in BOOLEAN
    BY BlockFacts
  <1> HIDE DEF b
  <1>2. n <= BlockHeaderSize + b.csize
    BY DEF b
  <1>3. CASE b.raw
    BY <1>1, <1>2, <1>3, Sizes DEF DecodableOfBlock, b
  <1>4. CASE ~b.raw
    BY <1>1, <1>2, <1>4, Sizes DEF DecodableOfBlock, b
  <1> QED
    BY <1>1, <1>3, <1>4

LEMMA DecodableOfWholeBlock ==
  ASSUME NEW k \in DOMAIN Frames, NEW i \in DOMAIN Frames[k].blocks
  PROVE  LET b == Frames[k].blocks[i]
         IN  DecodableOfBlock(b, BlockHeaderSize + b.csize) = b.rsize
  <1> DEFINE b == Frames[k].blocks[i]
  <1>1. /\ b.csize \in Nat /\ b.rsize \in Nat /\ b.raw \in BOOLEAN
        /\ (b.raw => b.csize = b.rsize) /\ (b.csize = 0 => b.raw)
    BY BlockFacts
  <1> HIDE DEF b
  <1>2. (BlockHeaderSize + b.csize <= BlockHeaderSize) => b.csize = 0
    BY <1>1, Sizes
  <1>3. CASE b.raw
    <2>1. DecodableOfBlock(b, BlockHeaderSize + b.csize) = b.csize
      BY <1>1, <1>3, Sizes DEF DecodableOfBlock
    <2> QED BY <1>1, <1>3, <2>1 DEF b
  <1>4. CASE ~b.raw
    <2>1. ~(BlockHeaderSize + b.csize <= BlockHeaderSize)
      BY <1>1, <1>2, <1>4
    <2> QED BY <1>4, <2>1 DEF DecodableOfBlock, b
  <1> QED
    BY <1>1, <1>3, <1>4

LEMMA Inside ==
  ASSUME NEW from \in Nat, NEW size \in Nat, NEW n \in Nat,
         from < n, n <= from + BlockHeaderSize + size
  PROVE  n - from \in Nat /\ n - from <= BlockHeaderSize + size
  <1>1. BlockHeaderSize \in Nat
    BY Sizes
  <1> QED
    BY <1>1

\* Along a frame more and more can be decoded, in the end all of its content.
LEMMA DecodableOfFrameType ==
  ASSUME NEW k \in DOMAIN Frames, NEW n \in Nat
  PROVE  LET f == Frames[k]
         IN  /\ DecodableOfFrame(f, n) \in Nat
             /\ DecodableOfFrame(f, n) <= ContentOf(f)
             /\ n <= f.header => DecodableOfFrame(f, n) = 0
             /\ n >= BlocksEnd(f) => DecodableOfFrame(f, n) = ContentOf(f)
  <1> DEFINE f == Frames[k]
             ends == BlocksEnd(f)
             d == DecodableOfFrame(f, n)
  <1>1. /\ f.header \in Nat /\ ends \in Nat /\ f.header <= ends /\ ContentOf(f) \in Nat
        /\ f.skippable \in BOOLEAN
        /\ ContentOf(f) = IF f.skippable THEN 0 ELSE f.content
        /\ f.skippable => ends = f.header
    BY FrameType, FrameFacts
  <1>2. CASE n <= f.header
    <2>1. d = 0
      BY <1>2 DEF DecodableOfFrame
    <2>2. n >= ends => ContentOf(f) = 0
      <3>1. CASE f.skippable
        BY <1>1, <3>1
      <3>2. CASE ~f.skippable
        <4>1. f.header < ends
          <5>1. Len(f.blocks) \in DOMAIN f.blocks /\ f.blocks # <<>>
            <6>1. f.blocks \in Seq(Block) /\ f.blocks # <<>>
              BY <3>2, FrameType
            <6> QED BY <6>1
          <5> DEFINE b == f.blocks[Len(f.blocks)]
          <5>2. /\ b.from \in Nat /\ f.header <= b.from /\ b.csize \in Nat
                /\ ends = b.from + BlockHeaderSize + b.csize
            BY <5>1, BlockFacts DEF BlocksEnd
          <5> HIDE DEF b, ends, f
          <5> QED BY <5>2, <1>1, Sizes
        <4>2. ~(n >= ends)
          <5> HIDE DEF ends, f
          <5> QED BY <4>1, <1>1, <1>2
        <4> QED BY <4>2
      <3> QED BY <1>1, <3>1, <3>2
    <2> HIDE DEF ends, d, f
    <2> QED BY <1>1, <2>1, <2>2 DEF ends, d, f
  <1>3. CASE ~(n <= f.header) /\ n > ends
    <2>1. d = ContentOf(f)
      <3>1. CASE f.skippable
        BY <1>1, <3>1 DEF DecodableOfFrame
      <3>2. CASE ~f.skippable
        BY <1>1, <1>3, <3>2 DEF DecodableOfFrame
      <3> QED BY <1>1, <3>1, <3>2
    <2>2. ContentOf(f) <= ContentOf(f)
      BY <1>1
    <2> QED BY <1>1, <1>3, <2>1, <2>2
  <1>4. CASE ~(n <= f.header) /\ ~(n > ends)
    <2>1. f.header < n /\ n <= ends
      <3> HIDE DEF ends, f
      <3> QED BY <1>1, <1>4
    <2>2. ~f.skippable
      BY <2>1, BlockAt
    <2>3. PICK i \in DOMAIN f.blocks : f.blocks[i].from < n /\ n <= BlockStop(f.blocks[i])
      BY <2>1, BlockAt
    <2> DEFINE b == f.blocks[i]
               there == DecodableOfBlock(b, n - b.from)
    <2>4. d = b.before + there
      BY <2>3, DecodableInBlock
    <2>5. /\ b.from \in Nat /\ b.csize \in Nat /\ b.before \in Nat /\ b.rsize \in Nat
          /\ b.before + b.rsize <= f.content
          /\ BlockStop(b) = b.from + BlockHeaderSize + b.csize /\ BlockStop(b) <= ends
          /\ i \in Nat /\ i <= Len(f.blocks) /\ Len(f.blocks) \in Nat
      BY BlockFacts
    <2>6. n - b.from \in Nat /\ n - b.from <= BlockHeaderSize + b.csize
      <3>1. b.from < n /\ n <= BlockStop(b)
        BY <2>3
      <3> QED BY <2>5, <3>1, Inside
    <2>7. there \in Nat /\ there <= b.rsize
      BY <2>6, DecodableOfBlockType
    <2>8. f.content \in Nat /\ ContentOf(f) = f.content
      BY <1>1, <2>2
    <2>9. d \in Nat /\ d <= ContentOf(f)
      <3> DEFINE before == b.before
                 rsize == b.rsize
                 whole == f.content
      <3>1. /\ before \in Nat /\ rsize \in Nat /\ whole \in Nat /\ before + rsize <= whole
            /\ d = before + there
        BY <2>4, <2>5, <2>8
      <3> HIDE DEF b, f, there, d, before, rsize, whole
      <3>2. there \in Nat /\ there <= rsize
        BY <2>7 DEF rsize
      <3>3. d \in Nat /\ d <= whole
        BY <3>1, <3>2
      <3> QED BY <2>8, <3>3 DEF whole
    <2>10. n >= ends => d = ContentOf(f)
      <3> SUFFICES ASSUME n >= ends PROVE d = ContentOf(f)
        OBVIOUS
      <3>1. n = ends /\ BlockStop(b) = ends
        <4>1. n <= BlockStop(b)
          BY <2>3
        <4>2. BlockStop(b) \in Nat
          <5> HIDE DEF b, f
          <5> QED BY <2>5, Sizes
        <4> HIDE DEF b, f, ends
        <4> QED BY <1>1, <2>1, <2>5, <4>1, <4>2
      <3>2. i = Len(f.blocks)
        <4> SUFFICES ASSUME i # Len(f.blocks) PROVE FALSE
          OBVIOUS
        <4>1. i + 1 \in DOMAIN f.blocks /\ f.blocks[i + 1].from = BlockStop(b)
          BY BlockFacts
        <4> DEFINE c == f.blocks[i + 1]
        <4>2. c.from \in Nat /\ c.csize \in Nat /\ BlockStop(c) <= ends
              /\ BlockStop(c) = c.from + BlockHeaderSize + c.csize
          BY <4>1, BlockFacts
        <4>3. c.from = ends
          BY <3>1, <4>1
        <4> HIDE DEF c, ends, f
        <4> QED BY <1>1, <4>2, <4>3, Sizes
      <3>3. b.before + b.rsize = f.content
        BY <3>2, BlockFacts
      <3>4. there = b.rsize
        <4>1. n - b.from = BlockHeaderSize + b.csize
          <5> HIDE DEF b, f, ends
          <5> QED BY <1>1, <2>5, <3>1, Sizes
        <4> QED BY <4>1, DecodableOfWholeBlock
      <3> QED BY <2>4, <2>8, <3>3, <3>4
    <2> QED BY <1>4, <2>9, <2>10
  <1> QED
    BY <1>2, <1>3, <1>4

LEMMA DecodableOfFrameGrows ==
  ASSUME NEW k \in DOMAIN Frames, NEW m \in Nat, NEW n \in Nat, m <= n
  PROVE  DecodableOfFrame(Frames[k], m) <= DecodableOfFrame(Frames[k], n)
  <1> DEFINE f == Frames[k]
             dm == DecodableOfFrame(f, m)
             dn == DecodableOfFrame(f, n)
             ends == BlocksEnd(f)
  <1>1. /\ dm \in Nat /\ dn \in Nat /\ dm <= ContentOf(f) /\ ContentOf(f) \in Nat
        /\ m <= f.header => dm = 0
        /\ n >= ends => dn = ContentOf(f)
        /\ f.header \in Nat /\ ends \in Nat
    BY DecodableOfFrameType, FrameFacts, FrameType
  <1>2. CASE m <= f.header
    BY <1>1, <1>2
  <1>3. CASE n >= ends
    BY <1>1, <1>3
  <1>4. CASE ~(m <= f.header) /\ ~(n >= ends)
    <2>1. f.header < m /\ m <= ends /\ f.header < n /\ n <= ends
      <3> HIDE DEF f, ends
      <3> QED BY <1>1, <1>4
    <2>2. PICK i \in DOMAIN f.blocks : f.blocks[i].from < m /\ m <= BlockStop(f.blocks[i])
      BY <2>1, BlockAt
    <2>3. PICK j \in DOMAIN f.blocks : f.blocks[j].from < n /\ n <= BlockStop(f.blocks[j])
      BY <2>1, BlockAt
    <2> DEFINE b == f.blocks[i]
               c == f.blocks[j]
               tm == DecodableOfBlock(b, m - b.from)
               tn == DecodableOfBlock(c, n - c.from)
    <2>4. dm = b.before + tm /\ dn = c.before + tn
      BY <2>2, <2>3, DecodableInBlock
    <2>5. /\ b.from \in Nat /\ b.csize \in Nat /\ b.before \in Nat /\ b.rsize \in Nat
          /\ c.from \in Nat /\ c.csize \in Nat /\ c.before \in Nat
          /\ BlockStop(b) = b.from + BlockHeaderSize + b.csize
          /\ BlockStop(c) = c.from + BlockHeaderSize + c.csize
          /\ i \in Nat /\ j \in Nat
      BY BlockFacts
    <2>6. /\ m - b.from \in Nat /\ m - b.from <= BlockHeaderSize + b.csize
          /\ n - c.from \in Nat /\ n - c.from <= BlockHeaderSize + c.csize
      <3>1. b.from < m /\ m <= BlockStop(b) /\ c.from < n /\ n <= BlockStop(c)
        BY <2>2, <2>3
      <3> HIDE DEF b, c
      <3>2. m - b.from \in Nat /\ m - b.from <= BlockHeaderSize + b.csize
        BY <2>5, <3>1, Inside
      <3>3. n - c.from \in Nat /\ n - c.from <= BlockHeaderSize + c.csize
        BY <2>5, <3>1, Inside
      <3> QED BY <3>2, <3>3 DEF b, c
    <2>7. tm \in Nat /\ tn \in Nat /\ tm <= b.rsize
      BY <2>6, DecodableOfBlockType
    <2>8. CASE i = j
      <3>1. m - b.from <= n - b.from /\ c = b
        <4>1. c = b
          BY <2>8
        <4> HIDE DEF b, c
        <4> QED BY <2>5, <4>1
      <3>2. tm <= tn
        <4>1. tn = DecodableOfBlock(b, n - b.from)
          BY <3>1
        <4>2. n - b.from \in Nat /\ n - b.from <= BlockHeaderSize + b.csize
          BY <2>6, <3>1
        <4> QED BY <2>6, <3>1, <4>1, <4>2, DecodableOfBlockType
      <3> HIDE DEF b, c, tm, tn, dm, dn
      <3>3. b.before + tm <= b.before + tn
        BY <2>5, <2>7, <3>2
      <3> QED BY <2>4, <3>1, <3>3 DEF dm, dn, f
    <2>9. CASE i < j
      <3>1. b.before + b.rsize <= c.before
        BY <2>9, BlocksAssumption
      <3> HIDE DEF b, c, tm, tn, dm, dn
      <3>2. b.before + tm <= c.before + tn
        BY <2>5, <2>7, <3>1
      <3> QED BY <2>4, <3>2 DEF dm, dn, f
    <2>10. CASE j < i
      <3>1. BlockStop(c) <= b.from
        BY <2>10, BlocksAssumption
      <3>2. b.from < m /\ n <= BlockStop(c)
        BY <2>2, <2>3
      <3> HIDE DEF b, c
      <3>3. BlockStop(c) \in Nat
        BY <2>5, Sizes
      <3> QED BY <2>5, <3>1, <3>2, <3>3
    <2> QED BY <2>5, <2>8, <2>9, <2>10
  <1> QED
    BY <1>2, <1>3, <1>4

\* The bytes of a frame in the text.
LEMMA FramesInText ==
  ASSUME NEW k \in DOMAIN Frames
  PROVE  FrameStop(Frames[k]) <= TextSize
  <1> DEFINE l == Len(Frames)
  <1>1. k \in Nat /\ l \in Nat /\ k <= l /\ l \in DOMAIN Frames
    BY FrameNumbers, FrameType
  <1>2. FrameStop(Frames[l]) = TextSize
    BY <1>1, FrameFacts DEF TextSize
  <1>3. CASE k = l
    BY <1>2, <1>3, Places
  <1>4. CASE k # l
    <2>1. FrameStop(Frames[k]) <= Frames[l].from
      BY <1>1, <1>4, FramesAssumption
    <2>2. /\ FrameStop(Frames[k]) \in Nat /\ Frames[l].from \in Nat /\ FrameSize(Frames[l]) \in Nat
          /\ FrameStop(Frames[l]) = Frames[l].from + FrameSize(Frames[l])
      BY <1>1, FrameFacts, FrameType
    <2> QED BY <1>2, <2>1, <2>2
  <1> QED
    BY <1>3, <1>4

LEMMA TextOfFrame ==
  ASSUME NEW k \in DOMAIN Frames, NEW n \in Nat,
         Frames[k].from < n, n <= FrameStop(Frames[k])
  PROVE  /\ n \in DOMAIN Text /\ n > 0 /\ n <= TextSize
         /\ Text[n].end = FrameStop(Frames[k])
         /\ Text[n].decodable = Frames[k].before + DecodableOfFrame(Frames[k], n - Frames[k].from)
  <1> DEFINE f == Frames[k]
             In(j) == Frames[j].from < n /\ n <= FrameStop(Frames[j])
  <1>1. f.from \in Nat /\ FrameStop(f) \in Nat /\ k \in Nat
    BY FrameType, FrameFacts
  <1>2. ASSUME NEW j \in DOMAIN Frames, In(j) PROVE j = k
    <2>1. j \in Nat /\ Frames[j].from \in Nat /\ FrameStop(Frames[j]) \in Nat
      BY FrameType, FrameFacts
    <2>2. /\ j < k => FrameStop(Frames[j]) <= f.from
          /\ k < j => FrameStop(f) <= Frames[j].from
      BY FramesAssumption
    <2> QED BY <1>1, <1>2, <2>1, <2>2
  <1>3. (CHOOSE j \in DOMAIN Frames : In(j)) = k
    <2>1. In(k)
      OBVIOUS
    <2> HIDE DEF In
    <2> QED BY <1>2, <2>1
  <1>4. FrameAt(n) = f
    BY <1>3 DEF FrameAt
  <1>5. n \in 1 .. TextSize /\ n > 0 /\ n <= TextSize
    <2>1. FrameStop(f) <= TextSize /\ TextSize \in Nat
      BY FramesInText, Places
    <2> QED BY <1>1, <2>1
  <1> QED
    BY <1>4, <1>5 DEF Text

\* A frame is longer than its header.
LEMMA FrameIsLong ==
  ASSUME NEW k \in DOMAIN Frames
  PROVE  /\ FrameSize(Frames[k]) \in Nat /\ FrameSize(Frames[k]) >= BlocksEnd(Frames[k])
         /\ BlocksEnd(Frames[k]) \in Nat /\ FrameSize(Frames[k]) > 1
         /\ FrameStop(Frames[k]) = Frames[k].from + FrameSize(Frames[k])
         /\ Frames[k].from < FrameStop(Frames[k]) /\ Frames[k].from \in Nat
         /\ FrameStop(Frames[k]) \in Nat
  <1> DEFINE f == Frames[k]
             size == FrameSize(f)
             ends == BlocksEnd(f)
             trailer == IF f.skippable THEN f.content ELSE IF f.checksum THEN ChecksumSize ELSE 0
  <1>1. /\ f.header \in Nat /\ f.header > 1 /\ f.from \in Nat /\ size \in Nat /\ ends \in Nat
        /\ f.header <= ends /\ size = ends + trailer
        /\ FrameStop(f) = f.from + size /\ FrameStop(f) \in Nat
    BY FrameType, FrameFacts
  <1>2. trailer \in Nat
    BY FrameType, Sizes
  <1> HIDE DEF f, size, ends, trailer
  <1>3. size >= ends /\ size > 1 /\ f.from < f.from + size
    BY <1>1, <1>2
  <1> QED
    BY <1>1, <1>3 DEF f, size, ends

\* What the contract knows of a place in a frame.
LEMMA PlaceInText ==
  ASSUME NEW k \in DOMAIN Frames, NEW n \in Nat,
         Frames[k].from <= n, n <= FrameStop(Frames[k])
  PROVE  /\ Pipe!Decodable(n) = Frames[k].before + DecodableOfFrame(Frames[k], n - Frames[k].from)
         /\ n < FrameStop(Frames[k]) => Pipe!FrameEnd(n) = FrameStop(Frames[k])
  <1> DEFINE f == Frames[k]
             stop == FrameStop(f)
  <1>1. /\ f.from \in Nat /\ f.before \in Nat /\ stop \in Nat /\ f.header \in Nat
        /\ k \in Nat /\ 1 <= k /\ k <= Len(Frames)
        /\ FrameFrom(k) = f.from /\ FrameBefore(k) = f.before
    BY FrameType, FrameFacts
  <1> DEFINE Found == Pipe!Decodable(n) = f.before + DecodableOfFrame(f, n - f.from)
  <1>2. ASSUME f.from < n PROVE Found
    <2>1. n # 0
      BY <1>1, <1>2
    <2>2. Text[n].decodable = f.before + DecodableOfFrame(f, n - f.from)
      BY <1>2, TextOfFrame
    <2> QED BY <2>1, <2>2 DEF Pipe!Decodable
  <1>3. ASSUME f.from = n PROVE Found
    <2>1. DecodableOfFrame(f, n - f.from) = 0
      <3>1. n - f.from = 0 /\ 0 \in Nat /\ 0 <= f.header
        BY <1>1, <1>3
      <3> QED BY <3>1, DecodableOfFrameType
    <2>2. Pipe!Decodable(n) = f.before
      <3>1. CASE k = 1
        BY <1>1, <1>3, <3>1 DEF FrameFrom, FrameBefore, Pipe!Decodable
      <3>2. CASE k # 1
        <4> DEFINE e == Frames[k - 1]
        <4>1. k - 1 \in DOMAIN Frames /\ (k - 1) + 1 = k
          <5>1. k - 1 \in Nat /\ 1 <= k - 1 /\ k - 1 <= Len(Frames)
            BY <1>1, <3>2, FrameNumbers
          <5> QED BY <1>1, <5>1, FrameNumbers
        <4>2. FrameFrom(k) = FrameStop(e) /\ FrameBefore(k) = e.before + ContentOf(e)
          BY <4>1, FrameFacts
        <4>3. /\ FrameStop(e) = e.from + FrameSize(e) /\ e.from < FrameStop(e) /\ e.from \in Nat
              /\ FrameSize(e) \in Nat /\ FrameStop(e) \in Nat
              /\ FrameSize(e) >= BlocksEnd(e)
          BY <4>1, FrameIsLong
        <4>4. n = FrameStop(e) /\ n # 0
          BY <1>1, <1>3, <4>2, <4>3
        <4>5. Text[n].decodable = e.before + DecodableOfFrame(e, n - e.from)
          BY <4>1, <4>3, <4>4, TextOfFrame
        <4>6. n - e.from = FrameSize(e)
          BY <4>3, <4>4
        <4>7. DecodableOfFrame(e, n - e.from) = ContentOf(e)
          BY <4>1, <4>3, <4>6, DecodableOfFrameType
        <4> QED BY <1>1, <4>2, <4>4, <4>5, <4>7 DEF Pipe!Decodable
      <3> QED BY <3>1, <3>2
    <2>3. f.before + 0 = f.before
      BY <1>1
    <2> QED BY <2>1, <2>2, <2>3
  <1>4. n < stop => Pipe!FrameEnd(n) = stop
    <2> SUFFICES ASSUME n < stop PROVE Pipe!FrameEnd(n) = stop
      OBVIOUS
    <2>1. n + 1 \in Nat /\ f.from < n + 1 /\ n + 1 <= stop
      BY <1>1
    <2>2. n + 1 <= TextSize /\ Text[n + 1].end = stop
      BY <2>1, TextOfFrame
    <2>3. n < Len(Text)
      <3>1. TextSize \in Nat
        BY Places
      <3>2. n < TextSize
        BY <2>2, <3>1
      <3> QED BY <3>2, TextLength
    <2> QED BY <2>2, <2>3 DEF Pipe!FrameEnd
  <1>5. f.from < n \/ f.from = n
    BY <1>1
  <1> QED
    BY <1>2, <1>3, <1>4, <1>5

LEMMA DecodableOfPlace ==
  ASSUME NEW k \in DOMAIN Frames, NEW n \in Nat,
         Frames[k].from <= n, n <= FrameStop(Frames[k])
  PROVE  LET whole == Pipe!Decodable(FrameStop(Frames[k]))
         IN  /\ Pipe!Decodable(n) \in Nat /\ Pipe!Decodable(n) <= whole
             /\ whole = Frames[k].before + ContentOf(Frames[k]) /\ whole \in Nat
  <1> DEFINE f == Frames[k]
             d == DecodableOfFrame(f, n - f.from)
             w == DecodableOfFrame(f, FrameStop(f) - f.from)
  <1>1. /\ f.from \in Nat /\ FrameStop(f) \in Nat /\ FrameSize(f) \in Nat
        /\ FrameStop(f) = f.from + FrameSize(f) /\ f.from < FrameStop(f)
        /\ FrameSize(f) >= BlocksEnd(f)
    BY FrameIsLong
  <1>2. f.before \in Nat /\ ContentOf(f) \in Nat
    BY FrameType, FrameFacts
  <1>3. n - f.from \in Nat /\ FrameStop(f) - f.from = FrameSize(f)
    BY <1>1
  <1>4. d \in Nat /\ d <= ContentOf(f) /\ w = ContentOf(f)
    BY <1>1, <1>3, DecodableOfFrameType
  <1>5. FrameStop(f) <= FrameStop(f) /\ f.from <= FrameStop(f)
    BY <1>1
  <1>6. Pipe!Decodable(n) = f.before + d /\ Pipe!Decodable(FrameStop(f)) = f.before + w
    BY <1>1, <1>5, PlaceInText
  <1> HIDE DEF f, d, w
  <1> QED
    BY <1>2, <1>4, <1>6 DEF f

\* What can be decoded where a block begins.
LEMMA DecodableBeforeBlock ==
  ASSUME NEW k \in DOMAIN Frames, NEW i \in DOMAIN Frames[k].blocks
  PROVE  DecodableOfFrame(Frames[k], Frames[k].blocks[i].from) = Frames[k].blocks[i].before
  <1> DEFINE f == Frames[k]
             b == f.blocks[i]
  <1>1. /\ i \in Nat /\ 1 <= i /\ i <= Len(f.blocks) /\ Len(f.blocks) \in Nat /\ ~f.skippable
        /\ f.blocks \in Seq(Block)
    BY BlockFacts, FrameType
  <1>2. CASE i = 1
    <2>1. b.from = f.header /\ b.before = 0
      BY <1>1, <1>2, BlocksAssumption
    <2>2. f.header \in Nat /\ f.header <= f.header
      BY FrameType
    <2> QED BY <2>1, <2>2, DecodableOfFrameType
  <1>3. CASE i # 1
    <2> DEFINE a == f.blocks[i - 1]
    <2>1. i - 1 \in DOMAIN f.blocks /\ i > 1
      <3> HIDE DEF f
      <3> QED BY <1>1, <1>3
    <2>2. b.from = BlockStop(a) /\ b.before = a.before + a.rsize
      BY <2>1, BlocksAssumption
    <2>3. /\ a.from \in Nat /\ a.csize \in Nat /\ a.before \in Nat /\ a.rsize \in Nat
          /\ BlockStop(a) = a.from + BlockHeaderSize + a.csize
      BY <2>1, BlockFacts
    <2>4. /\ BlockStop(a) \in Nat /\ a.from < BlockStop(a) /\ BlockStop(a) <= BlockStop(a)
          /\ BlockStop(a) - a.from = BlockHeaderSize + a.csize
      <3> HIDE DEF a
      <3> QED BY <2>3, Sizes
    <2>5. DecodableOfFrame(f, BlockStop(a)) = a.before + DecodableOfBlock(a, BlockStop(a) - a.from)
      BY <2>1, <2>4, DecodableInBlock
    <2>6. DecodableOfBlock(a, BlockHeaderSize + a.csize) = a.rsize
      BY <2>1, DecodableOfWholeBlock
    <2> QED BY <2>2, <2>4, <2>5, <2>6
  <1> QED
    BY <1>2, <1>3

-----------------------------------------------------------------------------
\* In a frame all has been decoded that can be, from the input read so far.
LEMMA DecodedInFrame ==
  ASSUME IInv, InFrame
  PROVE  LET f == Frames[frame]
         IN  /\ frame \in DOMAIN Frames /\ frame <= Len(Frames)
             /\ Offset \in Nat /\ f.from <= Offset /\ Offset <= FrameStop(f)
             /\ expected > 0 => Offset < FrameStop(f)
             /\ expected = 0 => Offset = FrameStop(f)
             /\ Pipe!Decodable(Offset) = decoded
  <1> DEFINE f == Frames[frame]
             size == FrameSize(f)
             n == PartStop - expected + inPos
  <1>1. /\ frame \in DOMAIN Frames /\ frame <= Len(Frames)
        /\ PartStop \in Nat /\ PartStop <= size
        /\ f.header + expected <= PartStop
        /\ expected = 0 => PartStop = size
        /\ expected = 0 => DecodedOfFrame = ContentOf(f)
        /\ Offset = f.from + PartStop - expected + inPos
        /\ inPos > 0 => inPos < expected
    BY Parts
  <1>2. /\ expected \in Nat /\ inPos \in Nat
    BY Numbers
  <1>3. /\ f.header \in Nat /\ f.from \in Nat /\ f.before \in Nat /\ size \in Nat
        /\ FrameStop(f) = f.from + size
    BY <1>1, FrameType, FrameFacts
  <1>4. /\ n \in Nat /\ n <= size
        /\ expected > 0 => n < size
        /\ expected = 0 => n = size /\ inPos = 0
        /\ Offset = f.from + n
    <2> DEFINE header == f.header
               from == f.from
    <2>1. header \in Nat /\ from \in Nat /\ header + expected <= PartStop
          /\ Offset = from + PartStop - expected + inPos
      BY <1>1, <1>3
    <2>2. /\ PartStop \in Nat /\ PartStop <= size /\ (expected = 0 => PartStop = size)
          /\ (inPos > 0 => inPos < expected) /\ size \in Nat
      BY <1>1, <1>3
    <2> HIDE DEF f, size, header, from
    <2>3. n \in Nat /\ (expected > 0 => n < size) /\ (expected = 0 => n = size /\ inPos = 0)
      BY <1>2, <2>1, <2>2
    <2>4. Offset = from + n
      BY <1>2, <2>1, <2>2
    <2> HIDE DEF n
    <2>5. n <= size
      BY <1>2, <2>2, <2>3
    <2> QED BY <2>3, <2>4, <2>5 DEF from
  <1>5. DecodableOfFrame(f, n) = DecodedOfFrame
    <2> DEFINE b == CurrentBlock
    <2>1. /\ StagesInFrame /\ stage \in DStages
      BY DEF IInv, TypeOK
    <2>2. CASE stage = "ZSTDds_decodeBlockHeader"
      <3>1. block \in DOMAIN f.blocks /\ expected = BlockHeaderSize
        BY <2>1, <2>2 DEF StagesInFrame
      <3>2. PartStop = b.from + BlockHeaderSize /\ DecodedOfFrame = b.before
        BY <2>2 DEF PartStop, DecodedOfFrame
      <3>3. b.from \in Nat /\ b.csize \in Nat /\ b.before \in Nat
            /\ BlockStop(b) = b.from + BlockHeaderSize + b.csize
        BY <1>1, <3>1, BlockFacts DEF CurrentBlock
      <3>4. n = b.from + inPos /\ inPos < BlockHeaderSize
        <4> DEFINE from == b.from
        <4>1. from \in Nat /\ PartStop = from + BlockHeaderSize /\ expected = BlockHeaderSize
              /\ (inPos > 0 => inPos < expected)
          BY <1>1, <3>1, <3>2, <3>3
        <4> HIDE DEF b, from
        <4>2. n = from + inPos
          BY <1>2, <4>1, Sizes
        <4> HIDE DEF n
        <4>3. inPos < BlockHeaderSize
          BY <1>2, <4>1, Sizes
        <4> QED BY <4>2, <4>3 DEF from
      <3>5. CASE inPos = 0
        <4>1. n = b.from
          <5> HIDE DEF b, n
          <5> QED BY <3>3, <3>4, <3>5
        <4>2. DecodableOfFrame(f, b.from) = b.before
          BY <1>1, <3>1, DecodableBeforeBlock DEF CurrentBlock
        <4> HIDE DEF n
        <4> QED BY <3>2, <4>1, <4>2
      <3>6. CASE inPos > 0
        <4>1. b.from < n /\ n <= BlockStop(b) /\ n - b.from = inPos
          <5> HIDE DEF b, n
          <5> QED BY <1>2, <3>3, <3>4, <3>6, Sizes
        <4>2. DecodableOfFrame(f, n) = b.before + DecodableOfBlock(b, n - b.from)
          <5> HIDE DEF n
          <5> QED BY <1>1, <1>4, <3>1, <4>1, DecodableInBlock DEF CurrentBlock
        <4>3. DecodableOfBlock(b, inPos) = 0
          <5>1. inPos <= BlockHeaderSize
            BY <1>2, <3>4, Sizes
          <5> QED BY <5>1 DEF DecodableOfBlock
        <4>4. b.before + 0 = b.before
          BY <3>3
        <4> HIDE DEF n
        <4> QED BY <3>2, <4>1, <4>2, <4>3, <4>4
      <3> QED BY <1>2, <3>5, <3>6
    <2>3. CASE InBlock
      <3>1. block \in DOMAIN f.blocks /\ 0 < expected /\ expected <= b.csize
            /\ (~b.raw => expected = b.csize)
        BY <2>1, <2>3 DEF StagesInFrame
      <3>2. PartStop = BlockStop(b)
            /\ DecodedOfFrame = b.before + IF b.raw THEN b.csize - expected ELSE 0
        BY <2>3 DEF PartStop, DecodedOfFrame, InBlock
      <3>3. b.from \in Nat /\ b.csize \in Nat /\ b.before \in Nat /\ b.raw \in BOOLEAN
            /\ BlockStop(b) = b.from + BlockHeaderSize + b.csize
        BY <1>1, <3>1, BlockFacts DEF CurrentBlock
      <3> DEFINE m == BlockHeaderSize + (b.csize - expected) + inPos
      <3>4. /\ m \in Nat /\ b.from < n /\ n <= BlockStop(b) /\ n - b.from = m
            /\ m < BlockHeaderSize + b.csize
        <4> DEFINE rest == b.csize - expected
                   from == b.from
                   csize == b.csize
        <4>1. /\ from \in Nat /\ csize \in Nat /\ expected \in Nat /\ inPos \in Nat
              /\ 0 < expected /\ expected <= csize /\ (inPos > 0 => inPos < expected)
          BY <1>1, <1>2, <3>1, <3>3
        <4>2. BlockHeaderSize \in Nat /\ BlockHeaderSize > 0
          BY Sizes
        <4>3. PartStop = from + BlockHeaderSize + csize /\ BlockStop(b) = from + BlockHeaderSize + csize
          BY <3>2, <3>3
        <4> HIDE DEF b, from, csize
        <4>4. rest \in Nat /\ rest + expected = csize /\ inPos < expected
          BY <4>1 DEF csize
        <4>5. n = from + (BlockHeaderSize + rest + inPos)
          <5> HIDE DEF rest
          <5> QED BY <4>1, <4>2, <4>3, <4>4
        <4> HIDE DEF rest, n
        <4>6. /\ BlockHeaderSize + rest + inPos \in Nat /\ from < n /\ n <= BlockStop(b)
              /\ n - from = BlockHeaderSize + rest + inPos
              /\ BlockHeaderSize + rest + inPos < BlockHeaderSize + csize
          BY <4>1, <4>2, <4>3, <4>4, <4>5
        <4> QED BY <4>6 DEF rest, from, csize
      <3>5. DecodableOfFrame(f, n) = b.before + DecodableOfBlock(b, m)
        <4>1. DecodableOfFrame(f, n) = b.before + DecodableOfBlock(b, n - b.from)
          <5> HIDE DEF n, m
          <5> QED BY <1>1, <1>4, <3>1, <3>4, DecodableInBlock DEF CurrentBlock
        <4> HIDE DEF n, m
        <4> QED BY <3>4, <4>1
      <3>6. CASE b.raw
        <4>1. inPos = 0
          <5>1. streamStage = "zdss_load" => ~(InBlock /\ b.raw)
            BY <2>1 DEF StagesInFrame
          <5> QED BY <2>3, <3>6, <5>1 DEF IInv, Stages
        <4>2. DecodableOfBlock(b, m) = b.csize - expected
          <5>1. m = BlockHeaderSize + (b.csize - expected) /\ m - BlockHeaderSize = b.csize - expected
            <6> DEFINE rest == b.csize - expected
            <6>1. rest \in Nat
              BY <1>2, <3>1, <3>3
            <6> HIDE DEF rest
            <6>2. BlockHeaderSize + rest + inPos = BlockHeaderSize + rest
                  /\ BlockHeaderSize + rest - BlockHeaderSize = rest
              BY <4>1, <6>1, Sizes
            <6>3. m = BlockHeaderSize + rest + inPos
              BY DEF rest
            <6> HIDE DEF m
            <6>4. m = BlockHeaderSize + rest /\ m - BlockHeaderSize = rest
              BY <6>1, <6>3, <4>1, Sizes
            <6> QED BY <6>4 DEF rest
          <5>2. m <= BlockHeaderSize => b.csize - expected = 0
            <6> HIDE DEF b, m
            <6> QED BY <3>1, <3>3, <5>1, <1>2, Sizes
          <5> HIDE DEF m
          <5> QED BY <3>6, <5>1, <5>2 DEF DecodableOfBlock
        <4> QED BY <3>2, <3>5, <3>6, <4>2
      <3>7. CASE ~b.raw
        <4>1. DecodableOfBlock(b, m) = 0
          <5>1. m # BlockHeaderSize + b.csize
            <6> HIDE DEF b, m
            <6> QED BY <3>3, <3>4, Sizes
          <5> HIDE DEF m
          <5> QED BY <3>7, <5>1 DEF DecodableOfBlock
        <4> HIDE DEF m
        <4> QED BY <3>2, <3>5, <3>7, <4>1
      <3> QED BY <3>3, <3>6, <3>7
    <2>4. CASE stage # "ZSTDds_decodeBlockHeader" /\ ~InBlock
      <3>1. PartStop = size /\ DecodedOfFrame = ContentOf(f)
        BY <2>4 DEF PartStop, DecodedOfFrame
      <3>2. /\ f.skippable => ContentOf(f) = 0
            /\ size = BlocksEnd(f) + (IF f.skippable THEN f.content
                                      ELSE IF f.checksum THEN ChecksumSize ELSE 0)
            /\ BlocksEnd(f) \in Nat /\ ContentOf(f) \in Nat
            /\ size >= BlocksEnd(f)
        BY <1>1, FrameFacts, FrameIsLong
      <3>3. /\ DecodableOfFrame(f, n) \in Nat /\ DecodableOfFrame(f, n) <= ContentOf(f)
            /\ n >= BlocksEnd(f) => DecodableOfFrame(f, n) = ContentOf(f)
        <4> HIDE DEF n
        <4> QED BY <1>1, <1>4, DecodableOfFrameType
      <3>4. \/ f.skippable
            \/ ~f.skippable /\ f.checksum /\ expected = ChecksumSize
            \/ expected = 0
        BY <2>1, <2>4 DEF StagesInFrame, DStages, InBlock
      <3>5. CASE f.skippable
        <4> DEFINE d == DecodableOfFrame(f, n)
                   c == ContentOf(f)
        <4>1. d \in Nat /\ d <= c /\ c = 0
          BY <3>2, <3>3, <3>5
        <4> HIDE DEF d, c
        <4>2. d = c
          BY <4>1
        <4> QED BY <3>1, <4>2 DEF d, c
      <3>6. CASE ~f.skippable /\ f.checksum /\ expected = ChecksumSize
        <4>1. size = BlocksEnd(f) + ChecksumSize
          BY <3>2, <3>6
        <4>2. n >= BlocksEnd(f)
          <5> HIDE DEF f, size
          <5> QED BY <1>2, <3>1, <3>2, <3>6, <4>1, Sizes DEF f
        <4> QED BY <3>1, <3>3, <4>2
      <3>7. CASE expected = 0
        <4>1. n >= BlocksEnd(f)
          BY <1>4, <3>2, <3>7
        <4> QED BY <3>1, <3>3, <4>1
      <3> QED BY <3>4, <3>5, <3>6, <3>7
    <2> QED BY <2>2, <2>3, <2>4
  <1>6. decoded = f.before + DecodedOfFrame
    BY DEF IInv, Place, DecodedThere
  <1>7. /\ Offset \in Nat /\ f.from <= Offset /\ Offset <= FrameStop(f) /\ Offset - f.from = n
        /\ expected > 0 => Offset < FrameStop(f)
        /\ expected = 0 => Offset = FrameStop(f)
    <2> HIDE DEF f, size, n
    <2> QED BY <1>2, <1>3, <1>4 DEF f
  <1>8. Pipe!Decodable(Offset) = f.before + DecodableOfFrame(f, Offset - f.from)
    BY <1>1, <1>7, PlaceInText
  <1> QED
    <2> HIDE DEF n
    <2> QED BY <1>1, <1>5, <1>6, <1>7, <1>8

-----------------------------------------------------------------------------
\* A call that looks for a frame behind the last one has no input.
AtEnd == call.running /\ streamStage = "zdss_loadHeader" /\ frame > Len(Frames) => pos = TextSize

LEMMA AtEndNext == ASSUME IInv, AtEnd, [Next]_vars PROVE AtEnd'
  <1> SUFFICES ASSUME call'.running, streamStage' = "zdss_loadHeader", frame' > Len(Frames)
               PROVE  pos' = TextSize
    BY DEF AtEnd
  <1>1. ASSUME call.running, streamStage = "zdss_loadHeader", UNCHANGED <<frame, pos>>
        PROVE  pos' = TextSize
    BY <1>1 DEF AtEnd
  <1>2. CASE \E given \in Chunks, room \in Rooms : BeginCall(given, room)
    <2>1. PICK given \in Chunks, room \in Rooms : BeginCall(given, room)
      BY <1>2
    <2>2. /\ ~call.running /\ ~broken /\ pos + given <= TextSize /\ call = Idle
          /\ streamStage = "zdss_loadHeader" /\ frame > Len(Frames) /\ pos' = pos
      BY <2>1, TextLength DEF BeginCall, IInv, Arguments, stageVars, placeVars, callerVars
    <2>3. ~HoldsHostage /\ ~InFrame
      BY <2>2 DEF HoldsHostage, InFrame, IInv, Stages
    <2>4. pos + Consumed + 0 = FrameFrom(frame) + lhSize
      BY <2>2, <2>3 DEF IInv, Place, Offset
    <2>5. Consumed = 0
      BY <2>2 DEF Consumed, Idle
    <2>6. frame = Len(Frames) + 1 /\ pos \in Nat /\ lhSize \in Nat /\ given \in Nat
      <3>1. /\ frame \in Nat /\ Len(Frames) \in Nat /\ frame <= Len(Frames) + 1
            /\ pos \in Nat /\ lhSize \in Nat
        BY Numbers
      <3>2. given \in Nat
        BY DStreamAssumption
      <3>3. frame > Len(Frames)
        BY <2>2
      <3> QED BY <3>1, <3>2, <3>3
    <2>7. FrameFrom(frame) = TextSize /\ TextSize \in Nat
      BY <2>6, Places
    <2> QED BY <2>2, <2>4, <2>5, <2>6, <2>7
  <1>3. CASE Restart
    <2>1. /\ call.running /\ call.work /\ streamStage = "zdss_init" /\ frame' = frame + 1 /\ pos' = pos
      BY <1>3 DEF Restart, InLoop, callerVars
    <2>2. ~broken /\ ~HoldsHostage /\ ~InFrame /\ call.avail = call.given /\ frame <= Len(Frames)
      BY <2>1 DEF IInv, Arguments, Loop, Stages, HoldsHostage, InFrame
    <2>3. pos + Consumed + 0 = FrameFrom(frame + 1)
      BY <2>1, <2>2 DEF IInv, Place, Offset
    <2>4. frame + 1 = Len(Frames) + 1 /\ pos \in Nat
      <3>1. frame \in Nat /\ Len(Frames) \in Nat /\ pos \in Nat
        BY Numbers
      <3>2. frame <= Len(Frames) /\ frame + 1 > Len(Frames)
        BY <2>1, <2>2
      <3> QED BY <3>1, <3>2
    <2>5. Consumed = 0
      BY <2>2, CallNumbers
    <2>6. FrameFrom(frame + 1) = TextSize
      BY <2>4, Places
    <2> QED BY <2>1, <2>3, <2>4, <2>5, <2>6
  <1>4. CASE LoadHeader
    BY <1>1, <1>4 DEF LoadHeader, InLoop, stageVars, placeVars, callerVars
  <1>5. CASE DecodeWhole \/ ConsumeHeader \/ ReadEnd \/ Flush
    BY <1>5 DEF DecodeWhole, ConsumeHeader, ReadEnd, Flush, FlushTo
  <1>6. CASE ReadMore
    BY <1>6 DEF ReadMore, InLoop
  <1>7. CASE ReadDirectly
    BY <1>7 DEF ReadDirectly, DecompressContinue, DecodeBlockHeader, DecodeBlock, CheckChecksum, SkipFrame
  <1>8. CASE Load
    BY <1>8 DEF Load, InLoop, stageVars, DecompressContinue, DecodeBlockHeader, DecodeBlock, CheckChecksum, SkipFrame
  <1>9. CASE DecodeFails \/ EndCall
    <2>1. call' = Idle
      BY <1>9 DEF DecodeFails, EndCall, ReturnHint, TakeHostage, AwaitHostage, EndFrame, NoProgress, Return
    <2> QED BY <2>1 DEF Idle
  <1>10. CASE UNCHANGED vars
    BY <1>1, <1>10 DEF vars, stageVars, placeVars, callerVars
  <1> QED
    BY <1>2, <1>3, <1>4, <1>5, <1>6, <1>7, <1>8, <1>9, <1>10 DEF Next, Turn

-----------------------------------------------------------------------------
\* The decoder as the contract sees it.
Seen == IF call.running THEN call.entry ELSE Decoder

\* The promise of a call that returns.
Fulfilled(read, done) ==
  LET end   == Pipe!FrameEnd(pos)
      at    == pos + read
      wrote == call.room - call.left
      known == IF at + 1 = end /\ end <= TextSize THEN end ELSE at
  IN  /\ at <= end
      /\ done <=> at = end
      /\ at = end => sent = Pipe!Decodable(end)
      /\ sent <= Pipe!Decodable(known)
      /\ read < call.given /\ ~done => wrote = call.room /\ sent < Pipe!Decodable(known)
      /\ wrote < call.room => sent >= Pipe!Decodable(at)
      /\ call.given > 0 /\ call.room > 0 => read + wrote > 0

LEMMA ReturnIsCall ==
  ASSUME IInv, Returns, NEW read \in 0 .. call.given, NEW done \in BOOLEAN, Return(read, done),
         Fulfilled(read, done)
  PROVE  Pipe!PipeNext
  <1> DEFINE p == call.entry
             q == Decoder'
             wrote == call.room - call.left
  <1>1. /\ call.running /\ ~broken /\ ~p.broken /\ p.pos = pos /\ p.sent + call.room - call.left = sent
        /\ call.given \in Chunks /\ call.room \in Rooms /\ pos + call.given <= TextSize
    BY DEF Returns, IInv, Arguments, Place
  <1>2. read \in Nat /\ read <= call.given /\ call.given \in Nat
    BY CallNumbers
  <1>3. /\ pos' = pos + read /\ sent' = sent /\ ~broken' /\ call' = Idle
        /\ last' = [given |-> call.given, room |-> call.room, read |-> read,
                    wrote |-> wrote, failed |-> FALSE, done |-> done]
    BY <1>1 DEF Return
  <1>4. /\ call.left \in Nat /\ call.room \in Nat /\ call.left <= call.room
        /\ p \in Pipe!DecoderState /\ pos \in Nat /\ sent \in Nat
    BY CallNumbers, Numbers
  <1>5. /\ p = [pos |-> p.pos, sent |-> p.sent, broken |-> p.broken] /\ p.sent \in Nat
        /\ p.broken = FALSE
    BY <1>1, <1>4 DEF Pipe!DecoderState
  <1>6. broken' = FALSE
    BY <1>1 DEF Return, IInv, TypeOK
  <1>7. wrote \in 0 .. call.room /\ p.sent + wrote = sent
    <2> DEFINE s == p.sent
    <2>1. s \in Nat /\ s + call.room - call.left = sent
      BY <1>1, <1>5
    <2> HIDE DEF s
    <2>2. s + (call.room - call.left) = sent /\ call.room - call.left \in 0 .. call.room
      BY <1>4, <2>1
    <2> QED BY <2>2 DEF s
  <1>8. /\ q = [pos |-> pos + read, sent |-> sent, broken |-> FALSE]
        /\ q.pos = pos + read /\ q.sent = sent /\ q.broken = FALSE
    BY <1>3, <1>6 DEF Decoder
  <1>9. q = [p EXCEPT !.pos = @ + read, !.sent = @ + wrote]
    <2>1. p \in [pos : Nat, sent : Nat, broken : BOOLEAN]
      BY <1>4, <1>5, <1>1
    <2>2. q \in [pos : Nat, sent : Nat, broken : BOOLEAN]
      <3>1. pos + read \in Nat
        BY <1>2, <1>4
      <3> QED BY <1>4, <1>8, <3>1
    <2>3. q.pos = p.pos + read /\ q.sent = p.sent + wrote /\ q.broken = p.broken
      BY <1>1, <1>5, <1>7, <1>8
    <2> HIDE DEF p, q, wrote
    <2> QED BY <2>1, <2>2, <2>3, Zenon DEF p
  <1>10. Pipe!Promise(p, call.given, call.room, q, done)
    <2>1. q.pos - p.pos = read /\ q.sent - p.sent = wrote
      <3>1. pos + read - pos = read
        BY <1>2, <1>4
      <3>2. sent - p.sent = wrote
        <4> HIDE DEF wrote
        <4> QED BY <1>4, <1>5, <1>7
      <3>3. p.pos = pos /\ q.pos = pos + read /\ q.sent = sent
        BY <1>1, <1>8
      <3>4. \A x, y \in Nat : x = pos /\ y = pos + read => y - x = read
        BY <1>2, <1>4
      <3>5. \A x, y : x = sent /\ y = p.sent => x - y = wrote
        BY <3>2
      <3>6. p.pos \in Nat /\ q.pos \in Nat
        BY <1>2, <1>4, <3>3
      <3> HIDE DEF p, q, wrote
      <3> QED BY <3>3, <3>4, <3>5, <3>6 DEF p
    <2>2. Len(Text) = TextSize
      BY TextLength
    <2> HIDE DEF q, wrote
    <2> QED
      BY <1>1, <1>7, <1>8, <2>1, <2>2 DEF Pipe!Promise, Fulfilled, wrote
  <1>11. Seen = p /\ Seen' = q
    BY <1>1, <1>3 DEF Seen, Idle
  <1>12. Pipe!Call(call.given, call.room)
    <2>1. p.pos + call.given <= Len(Text)
      BY <1>1, TextLength
    <2> HIDE DEF q, wrote, p
    <2> QED
      BY <1>1, <1>3, <1>7, <1>9, <1>10, <1>11, <2>1 DEF Pipe!Call, Seen, p, wrote
  <1> QED
    BY <1>1, <1>12 DEF Pipe!PipeNext

\* The frame that the input of a call lies in.
LEMMA CallInFrame ==
  ASSUME IInv, call.running, ~call.work, frame \in DOMAIN Frames
  PROVE  LET f == Frames[frame]
             stop == FrameStop(f)
         IN  /\ f.from \in Nat /\ stop \in Nat /\ pos \in Nat
             /\ f.from <= pos /\ pos < stop /\ stop <= TextSize /\ TextSize \in Nat
             /\ Pipe!FrameEnd(pos) = stop
  <1> DEFINE f == Frames[frame]
             stop == FrameStop(f)
  <1>1. frame <= Len(Frames) /\ FrameFrom(frame) = f.from
    BY FrameType, FrameFacts
  <1>2. f.from <= pos /\ pos < stop
    BY <1>1 DEF IInv, Loop
  <1>3. f.from \in Nat /\ stop \in Nat /\ pos \in Nat
    BY Numbers, FrameIsLong
  <1>4. stop <= TextSize /\ TextSize \in Nat
    BY FramesInText, Places
  <1>5. pos <= stop
    BY <1>2, <1>3
  <1>6. Pipe!FrameEnd(pos) = stop
    BY <1>2, <1>3, <1>5, PlaceInText
  <1> QED
    BY <1>2, <1>3, <1>4, <1>6

\* A call that returns in the middle of a frame has used up its input or filled the
\* output, or waits for its caller to bring the hostage along.
LEMMA FrameGoesOn ==
  ASSUME IInv, call.running, ~call.work, frame \in DOMAIN Frames,
         NEW read \in Nat, pos + read < FrameStop(Frames[frame]),
         \/ decoded = Pipe!Decodable(pos + read)
         \/ /\ pos + read + 1 = FrameStop(Frames[frame])
            /\ decoded = Pipe!Decodable(FrameStop(Frames[frame])),
         \/ read = call.given /\ sent = decoded
         \/ call.left = 0 /\ sent < decoded
  PROVE  Fulfilled(read, FALSE)
  <1> DEFINE f == Frames[frame]
             stop == FrameStop(f)
             at == pos + read
             here == Pipe!Decodable(at)
             whole == Pipe!Decodable(stop)
             wrote == call.room - call.left
             known == IF at + 1 = stop /\ stop <= TextSize THEN stop ELSE at
  <1>1. /\ f.from \in Nat /\ stop \in Nat /\ pos \in Nat
        /\ f.from <= pos /\ pos < stop /\ stop <= TextSize /\ TextSize \in Nat
        /\ Pipe!FrameEnd(pos) = stop
    BY CallInFrame
  <1>2. at \in Nat /\ f.from <= at /\ at < stop /\ at <= stop
    BY <1>1
  <1>3. here \in Nat /\ whole \in Nat /\ here <= whole
    BY <1>2, DecodableOfPlace
  <1>4. /\ decoded = here \/ (at + 1 = stop /\ decoded = whole)
        /\ \/ read = call.given /\ sent = decoded
           \/ call.left = 0 /\ sent < decoded
    OBVIOUS
  <1>5. /\ decoded \in Nat /\ sent \in Nat /\ call.given \in Nat /\ call.room \in Nat
        /\ call.left \in Nat /\ call.left <= call.room
    BY Numbers, CallNumbers
  <1>6. wrote \in Nat /\ (call.left = 0 => wrote = call.room)
    BY <1>5
  <1> HIDE DEF here, whole, at, stop, wrote
  <1>7. decoded <= Pipe!Decodable(known) /\ Pipe!Decodable(known) \in Nat
    <2>1. CASE at + 1 = stop
      <3>1. Pipe!Decodable(known) = whole
        BY <1>1, <2>1 DEF whole
      <3>2. decoded <= whole
        BY <1>3, <1>4
      <3> QED BY <1>3, <3>1, <3>2
    <2>2. CASE at + 1 # stop
      <3>1. Pipe!Decodable(known) = here
        BY <2>2 DEF here
      <3> QED BY <1>3, <1>4, <2>2, <3>1
    <2> QED BY <2>1, <2>2
  <1> HIDE DEF known
  <1>8. /\ at <= stop /\ at # stop
        /\ sent <= Pipe!Decodable(known)
    BY <1>1, <1>2, <1>4, <1>5, <1>7
  <1>9. read < call.given => wrote = call.room /\ sent < Pipe!Decodable(known)
    BY <1>4, <1>5, <1>6, <1>7
  <1>10. wrote < call.room => sent >= here
    BY <1>3, <1>4, <1>5, <1>6
  <1>11. call.given > 0 /\ call.room > 0 => read + wrote > 0
    BY <1>4, <1>5, <1>6
  <1> QED
    BY <1>1, <1>8, <1>9, <1>10, <1>11 DEF Fulfilled, here, whole, at, stop, wrote, known

\* At its end nothing is left.
LEMMA FrameIsOver ==
  ASSUME IInv, call.running, ~call.work, frame \in DOMAIN Frames,
         NEW read \in Nat, pos + read = FrameStop(Frames[frame]),
         sent = Pipe!Decodable(FrameStop(Frames[frame]))
  PROVE  Fulfilled(read, TRUE)
  <1> DEFINE f == Frames[frame]
             stop == FrameStop(f)
             whole == Pipe!Decodable(stop)
             wrote == call.room - call.left
  <1>1. /\ stop \in Nat /\ pos \in Nat /\ pos < stop /\ Pipe!FrameEnd(pos) = stop
        /\ pos + read = stop /\ sent = whole
    BY CallInFrame
  <1>2. wrote \in Nat /\ sent \in Nat
    <2>1. call.room \in Nat /\ call.left \in Nat /\ call.left <= call.room /\ sent \in Nat
      BY Numbers, CallNumbers
    <2> QED BY <2>1
  <1>3. read + wrote > 0 /\ stop + 1 # stop
    <2> HIDE DEF stop, wrote
    <2> QED BY <1>1, <1>2
  <1> HIDE DEF stop, wrote
  <1>4. sent <= whole /\ sent >= whole /\ stop <= stop
    BY <1>1, <1>2
  <1> QED
    BY <1>1, <1>3, <1>4 DEF Fulfilled, whole, wrote

\* Nothing is read behind the last frame, and nothing waits.
LEMMA NothingBehind ==
  ASSUME IInv, AtEnd, call.running, ~call.work, streamStage = "zdss_loadHeader",
         frame \notin DOMAIN Frames
  PROVE  Consumed = 0 /\ Fulfilled(0, FALSE)
  <1>1. /\ ~broken /\ frame > 0 /\ decoded = FrameBefore(frame) /\ pos + call.given <= TextSize
    BY HeaderPlace
  <1>2. frame \in Nat /\ frame = Len(Frames) + 1 /\ Len(Frames) \in Nat /\ frame > Len(Frames)
    <2>1. frame \in Nat /\ frame <= Len(Frames) + 1 /\ Len(Frames) \in Nat
      BY Numbers
    <2>2. ~(1 <= frame /\ frame <= Len(Frames))
      BY <2>1, FrameNumbers
    <2> QED BY <1>1, <2>1, <2>2
  <1>3. pos = TextSize /\ TextSize \in Nat
    BY <1>2, Places DEF AtEnd
  <1>4. call.given = 0 /\ call.avail = 0
    <2>1. call.given \in Nat /\ call.avail \in Nat /\ call.avail <= call.given
      BY CallNumbers
    <2> QED BY <1>1, <1>3, <2>1
  <1>5. decoded = sent
    <2>1. outStart = outEnd /\ outEnd \in Nat /\ decoded \in Nat /\ sent \in Nat
      BY Numbers
    <2>2. decoded - sent = outEnd - outStart
      BY <1>1 DEF IInv, Output
    <2> QED BY <2>1, <2>2
  <1>6. Pipe!Decodable(TextSize) = decoded
    <2>1. CASE Len(Frames) = 0
      BY <1>1, <1>2, <2>1 DEF TextSize, FrameFrom, FrameBefore, Pipe!Decodable
    <2>2. CASE Len(Frames) # 0
      <3> DEFINE l == Len(Frames)
      <3>1. l \in DOMAIN Frames
        BY <1>2, <2>2, FrameNumbers
      <3>2. /\ FrameStop(Frames[l]) = TextSize
            /\ FrameBefore(frame) = Frames[l].before + ContentOf(Frames[l])
        BY <1>2, <3>1, FrameFacts DEF TextSize
      <3>3. Frames[l].from <= FrameStop(Frames[l]) /\ FrameStop(Frames[l]) <= FrameStop(Frames[l])
            /\ FrameStop(Frames[l]) \in Nat
        BY <3>1, FrameIsLong
      <3>4. Pipe!Decodable(FrameStop(Frames[l])) = Frames[l].before + ContentOf(Frames[l])
        BY <3>1, <3>3, DecodableOfPlace
      <3> QED BY <1>1, <3>2, <3>4
    <2> QED BY <2>1, <2>2
  <1>7. Pipe!FrameEnd(pos) = TextSize + 1
    <2>1. ~(pos < Len(Text)) /\ Len(Text) = TextSize
      BY <1>3, TextLength
    <2> QED BY <2>1 DEF Pipe!FrameEnd
  <1>8. pos + 0 = pos /\ ~(TextSize + 1 <= TextSize) /\ pos <= TextSize + 1 /\ pos # TextSize + 1
        /\ ~(0 < 0) /\ sent <= sent /\ sent >= sent /\ ~(0 > 0)
    BY <1>3, Numbers
  <1>9. Consumed = 0
    BY <1>4, CallNumbers
  <1> QED
    BY <1>3, <1>4, <1>5, <1>6, <1>7, <1>8, <1>9 DEF Fulfilled

LEMMA ReturnHintIsCall == ASSUME IInv, AtEnd, ReturnHint PROVE Pipe!PipeNext
  <1>1. Returns /\ Return(Consumed, FALSE) /\ (call.hint \/ expected > 0)
    BY DEF ReturnHint
  <1>2. call.running /\ ~call.work /\ ~broken
    BY <1>1 DEF Returns, IInv, Arguments
  <1>3. /\ Consumed \in Nat /\ Consumed = call.given - call.avail /\ Consumed \in 0 .. call.given
        /\ call.given \in Nat /\ call.avail \in Nat
    BY CallNumbers
  <1>4. /\ outStart \in Nat /\ outEnd \in Nat /\ outStart <= outEnd /\ decoded \in Nat /\ sent \in Nat
        /\ (streamStage # "zdss_flush" => outStart = outEnd)
        /\ decoded - sent = outEnd - outStart /\ pos \in Nat /\ expected \in Nat
    BY <1>2, Numbers DEF IInv, Output
  <1>5. CASE call.hint
    <2>1. streamStage = "zdss_loadHeader" /\ ~hostageByte /\ outStart = outEnd
      BY <1>4, <1>5 DEF IInv, Arguments, Stages
    <2>2. sent = decoded
      BY <1>4, <2>1
    <2>3. CASE frame \in DOMAIN Frames
      <3> DEFINE f == Frames[frame]
                 from == f.from
                 stop == FrameStop(f)
      <3>1. /\ pos + Consumed = FrameFrom(frame) + lhSize /\ decoded = FrameBefore(frame)
        BY <1>2, <2>1, HeaderPlace
      <3>2. /\ frame <= Len(Frames) /\ FrameFrom(frame) = from /\ FrameBefore(frame) = f.before
            /\ f.before \in Nat /\ f.header \in Nat
        BY <2>3, FrameType, FrameFacts
      <3>3. call.avail = 0 /\ lhSize < f.header
        BY <1>2, <2>1, <3>2 DEF IInv, Loop
      <3>4. /\ lhSize \in Nat /\ from \in Nat /\ FrameSize(f) \in Nat /\ f.header <= FrameSize(f)
            /\ stop = from + FrameSize(f)
        <4>1. f.header <= BlocksEnd(f) /\ BlocksEnd(f) <= FrameSize(f) /\ BlocksEnd(f) \in Nat
              /\ FrameSize(f) \in Nat
          BY <2>3, FrameFacts, FrameIsLong
        <4>2. f.header <= FrameSize(f)
          BY <3>2, <4>1
        <4> QED BY <2>3, <4>1, <4>2, Numbers, FrameIsLong
      <3>5. pos + Consumed < stop /\ from <= pos + Consumed /\ (pos + Consumed) - from = lhSize
            /\ pos + Consumed \in Nat /\ pos + Consumed <= stop /\ lhSize <= f.header
        <4> DEFINE header == f.header
                   size == FrameSize(f)
        <4>1. /\ header \in Nat /\ size \in Nat /\ lhSize < header /\ header <= size
              /\ stop = from + size /\ pos + Consumed = from + lhSize
          BY <3>1, <3>2, <3>3, <3>4
        <4> HIDE DEF f, from, stop, header, size
        <4> QED BY <3>4, <4>1 DEF header
      <3>6. decoded = Pipe!Decodable(pos + Consumed)
        <4>1. Pipe!Decodable(pos + Consumed) = f.before + DecodableOfFrame(f, (pos + Consumed) - from)
          BY <2>3, <3>5, PlaceInText
        <4>2. DecodableOfFrame(f, lhSize) = 0
          BY <2>3, <3>4, <3>5, DecodableOfFrameType
        <4>3. f.before + 0 = f.before
          BY <3>2
        <4> QED BY <3>1, <3>2, <3>5, <4>1, <4>2, <4>3
      <3>7. Consumed = call.given
        BY <1>3, <3>3
      <3>8. Fulfilled(Consumed, FALSE)
        <4> HIDE DEF from
        <4> QED BY <1>2, <1>3, <2>2, <2>3, <3>5, <3>6, <3>7, FrameGoesOn
      <3> QED BY <1>1, <1>3, <3>8, ReturnIsCall
    <2>4. CASE frame \notin DOMAIN Frames
      <3>1. Consumed = 0 /\ Fulfilled(Consumed, FALSE)
        BY <1>2, <2>1, <2>4, NothingBehind
      <3> QED BY <1>1, <1>3, <3>1, ReturnIsCall
    <2> QED BY <2>3, <2>4
  <1>6. CASE ~call.hint
    <2>1. expected > 0 /\ expected # 0
      BY <1>1, <1>4, <1>6
    <2>2. \/ streamStage \in {"zdss_read", "zdss_load"} /\ call.avail = 0
          \/ streamStage = "zdss_flush" /\ call.left = 0 /\ Unflushed
      BY <1>2, <1>6, <2>1 DEF IInv, Loop, Stages
    <2>3. InFrame
      BY <2>2 DEF InFrame
    <2>4. ~HoldsHostage
      BY <2>1 DEF IInv, Stages
    <2>5. pos + Consumed + 0 = Offset
      BY <1>2, <2>4 DEF IInv, Place
    <2>6. /\ frame \in DOMAIN Frames /\ Offset < FrameStop(Frames[frame])
          /\ Pipe!Decodable(Offset) = decoded /\ Offset \in Nat
      BY <2>1, <2>3, DecodedInFrame
    <2>7. pos + Consumed = Offset
      BY <1>3, <1>4, <2>5
    <2>8. \/ Consumed = call.given /\ sent = decoded
          \/ call.left = 0 /\ sent < decoded
      <3>1. CASE streamStage \in {"zdss_read", "zdss_load"} /\ call.avail = 0
        BY <1>3, <1>4, <3>1
      <3>2. CASE streamStage = "zdss_flush" /\ call.left = 0 /\ Unflushed
        <4>1. outStart # outEnd
          BY <3>2 DEF Unflushed
        <4>2. sent < decoded
          BY <1>4, <4>1
        <4> QED BY <3>2, <4>2
      <3> QED BY <2>2, <3>1, <3>2
    <2>9. Fulfilled(Consumed, FALSE)
      BY <1>2, <1>3, <2>6, <2>7, <2>8, FrameGoesOn
    <2> QED BY <1>1, <1>3, <2>9, ReturnIsCall
  <1> QED
    BY <1>5, <1>6

LEMMA TakeHostageIsCall == ASSUME IInv, TakeHostage PROVE Pipe!PipeNext
  <1> DEFINE read == ConsumedButHostage
             kept == IF hostageByte THEN 1 ELSE 0
             stop == FrameStop(Frames[frame])
  <1>1. Returns /\ Return(read, FALSE) /\ ~call.hint /\ expected = 0 /\ Unflushed
    BY DEF TakeHostage
  <1>2. /\ call.running /\ ~call.work /\ ~broken
        /\ streamStage = "zdss_flush" /\ InFrame /\ stage = "ZSTDds_getFrameHeaderSize"
        /\ call.left = 0 /\ (HoldsHostage <=> hostageByte)
        /\ ~hostageByte => call.avail < call.given
    BY <1>1, FrameWaits DEF Returns, IInv, Arguments, HoldsHostage
  <1>3. /\ call.given \in Nat /\ call.avail \in Nat /\ call.avail <= call.given
        /\ Consumed = call.given - call.avail
    BY CallNumbers
  <1>4. read \in 0 .. call.given /\ read \in Nat /\ read + 1 = Consumed + kept
    <2>1. CASE hostageByte
      <3>1. read = Consumed /\ kept = 1
        BY <2>1 DEF ConsumedButHostage
      <3> HIDE DEF read, kept
      <3> QED BY <1>3, <3>1
    <2>2. CASE ~hostageByte
      <3>1. read = Consumed - 1 /\ kept = 0
        BY <2>2 DEF ConsumedButHostage
      <3> HIDE DEF read, kept
      <3> QED BY <1>2, <1>3, <2>2, <3>1
    <2> QED BY <2>1, <2>2
  <1>5. pos + Consumed + kept = Offset
    BY <1>2 DEF IInv, Place
  <1>6. /\ frame \in DOMAIN Frames /\ Offset = stop /\ Pipe!Decodable(stop) = decoded /\ stop \in Nat
    BY <1>1, <1>2, DecodedInFrame
  <1>7. sent < decoded
    <2>1. /\ outStart \in Nat /\ outEnd \in Nat /\ outStart <= outEnd /\ decoded \in Nat
          /\ sent \in Nat /\ outStart # outEnd
      BY <1>1, Numbers DEF Unflushed
    <2>2. decoded - sent = outEnd - outStart
      BY <1>2 DEF IInv, Output
    <2> QED BY <2>1, <2>2
  <1>8. pos + read + 1 = stop /\ pos + read < stop
    <2>1. pos \in Nat /\ Consumed \in Nat /\ kept \in {0, 1}
      BY Numbers, CallNumbers
    <2> HIDE DEF read, kept, stop
    <2> QED BY <1>4, <1>5, <1>6, <2>1
  <1>9. Fulfilled(read, FALSE)
    <2> HIDE DEF read
    <2> QED BY <1>2, <1>4, <1>6, <1>7, <1>8, FrameGoesOn
  <1> HIDE DEF read
  <1> QED
    BY <1>1, <1>4, <1>9, ReturnIsCall

\* The content of a frame of which everything is flushed is the caller's.
LEMMA FlushedIsWhole ==
  ASSUME IInv, frame \in DOMAIN Frames, decoded = FrameBefore(frame + 1)
  PROVE  Pipe!Decodable(FrameStop(Frames[frame])) = decoded
  <1> DEFINE f == Frames[frame]
  <1>1. FrameBefore(frame + 1) = f.before + ContentOf(f)
    BY FrameFacts
  <1>2. f.from <= FrameStop(f) /\ FrameStop(f) <= FrameStop(f) /\ FrameStop(f) \in Nat
    BY FrameIsLong
  <1> QED
    BY <1>1, <1>2, DecodableOfPlace

LEMMA AwaitHostageIsCall == ASSUME IInv, AwaitHostage PROVE Pipe!PipeNext
  <1> DEFINE stop == FrameStop(Frames[frame])
  <1>1. Returns /\ Return(Consumed, FALSE) /\ ~call.hint /\ expected = 0 /\ ~Unflushed
        /\ hostageByte /\ call.avail = 0
    BY DEF AwaitHostage
  <1>2. /\ call.running /\ ~call.work /\ frame \in DOMAIN Frames /\ call.avail = call.given
        /\ pos + Consumed + 1 = stop /\ stop \in Nat
        /\ decoded = FrameBefore(frame + 1) /\ decoded = sent
    BY <1>1, FrameFlushed DEF Returns
  <1>3. Consumed = call.given /\ Consumed \in Nat /\ Consumed \in 0 .. call.given
    BY <1>1, <1>2, CallNumbers
  <1>4. Pipe!Decodable(stop) = decoded
    BY <1>2, FlushedIsWhole
  <1>5. pos + Consumed < stop
    <2>1. pos \in Nat
      BY Numbers
    <2> HIDE DEF stop
    <2> QED BY <1>2, <1>3, <2>1
  <1>6. Fulfilled(Consumed, FALSE)
    BY <1>2, <1>3, <1>4, <1>5, FrameGoesOn
  <1> QED
    BY <1>1, <1>3, <1>6, ReturnIsCall

LEMMA EndFrameIsCall == ASSUME IInv, EndFrame PROVE Pipe!PipeNext
  <1> DEFINE read == IF hostageByte THEN Consumed + 1 ELSE Consumed
             kept == IF hostageByte THEN 1 ELSE 0
             stop == FrameStop(Frames[frame])
  <1>1. Returns /\ Return(read, TRUE) /\ ~call.hint /\ expected = 0 /\ ~Unflushed
        /\ (hostageByte => call.avail > 0)
    BY DEF EndFrame
  <1>2. /\ call.running /\ ~call.work /\ frame \in DOMAIN Frames
        /\ (hostageByte => call.avail = call.given)
        /\ pos + Consumed + kept = stop
        /\ decoded = FrameBefore(frame + 1) /\ decoded = sent
    BY <1>1, FrameFlushed DEF Returns
  <1>3. /\ call.given \in Nat /\ call.avail \in Nat /\ call.avail <= call.given
        /\ Consumed = call.given - call.avail /\ pos \in Nat
    BY CallNumbers, Numbers
  <1>4. read \in 0 .. call.given /\ read \in Nat /\ pos + read = stop
    <2>1. CASE hostageByte
      <3>1. read = Consumed + 1 /\ kept = 1
        BY <2>1
      <3> HIDE DEF read, kept, stop
      <3> QED BY <1>1, <1>2, <1>3, <2>1, <3>1
    <2>2. CASE ~hostageByte
      <3>1. read = Consumed /\ kept = 0
        BY <2>2
      <3> HIDE DEF read, kept, stop
      <3> QED BY <1>2, <1>3, <3>1
    <2> QED BY <2>1, <2>2
  <1>5. sent = Pipe!Decodable(stop)
    BY <1>2, FlushedIsWhole
  <1>6. Fulfilled(read, TRUE)
    <2> HIDE DEF read
    <2> QED BY <1>2, <1>4, <1>5, FrameIsOver
  <1> HIDE DEF read
  <1> QED
    BY <1>1, <1>4, <1>6, ReturnIsCall

\* A call that fails delivers nothing of what it has decoded.
LEMMA FailureIsCall ==
  ASSUME IInv, call.running, pos' = pos, sent' = call.entry.sent, broken' = TRUE, call' = Idle,
         last' = [given |-> call.given, room |-> call.room, read |-> 0, wrote |-> 0,
                  failed |-> TRUE, done |-> FALSE]
  PROVE  Pipe!PipeNext
  <1> DEFINE p == call.entry
             q == Decoder'
  <1>1. /\ p.pos = pos /\ p.broken = FALSE /\ p \in Pipe!DecoderState
        /\ call.given \in Chunks /\ call.room \in Rooms
    <2>1. ~p.broken /\ p.pos = pos /\ p \in Pipe!DecoderState
          /\ call.given \in Chunks /\ call.room \in Rooms
      BY CallNumbers DEF IInv, Arguments
    <2> QED BY <2>1 DEF Pipe!DecoderState
  <1>2. Seen = p /\ Seen' = q
    BY DEF Seen, Idle
  <1>3. q = [p EXCEPT !.broken = TRUE]
    <2>1. q = [pos |-> pos, sent |-> p.sent, broken |-> TRUE]
      BY DEF Decoder
    <2>2. p \in [pos : Nat, sent : Nat, broken : BOOLEAN]
      BY <1>1, Numbers DEF Pipe!DecoderState
    <2>3. q \in [pos : Nat, sent : Nat, broken : BOOLEAN]
      BY <2>1, <2>2, Numbers
    <2>4. q.pos = p.pos /\ q.sent = p.sent /\ q.broken = TRUE
      BY <1>1, <2>1
    <2> QED BY <2>2, <2>3, <2>4, ZenonT(40)
  <1>4. Pipe!CallFails(call.given, call.room)
    <2> HIDE DEF p, q
    <2> QED BY <1>1, <1>2, <1>3 DEF Pipe!CallFails, Pipe!Failure, Seen, p
  <1> QED
    BY <1>1, <1>4 DEF Pipe!PipeNext

LEMMA DecodeFailsIsCall == ASSUME IInv, DecodeFails PROVE Pipe!PipeNext
  BY FailureIsCall DEF DecodeFails, InLoop

LEMMA NoProgressIsCall == ASSUME IInv, NoProgress PROVE Pipe!PipeNext
  <1>1. call.running /\ ~call.work /\ ~Progress
    BY DEF NoProgress, Stuck
  <1>2. sent = call.entry.sent
    <2>1. /\ call.left \in Nat /\ call.room \in Nat /\ call.left <= call.room /\ sent \in Nat
          /\ call.entry \in Pipe!DecoderState
      BY CallNumbers, Numbers
    <2>2. call.entry.sent \in Nat /\ call.entry.sent + call.room - call.left = sent
      BY <1>1, <2>1 DEF Pipe!DecoderState, IInv, Arguments
    <2>3. ~(call.left < call.room)
      BY <1>1 DEF Progress
    <2> QED BY <2>1, <2>2, <2>3
  <1> QED
    BY <1>1, <1>2, FailureIsCall DEF NoProgress

\* While a call runs the contract sees nothing of it.
LEMMA TurnIsStutter ==
  ASSUME IInv, call.running, call'.running, call'.entry = call.entry, UNCHANGED last
  PROVE  UNCHANGED Pipe!pipeVars
  BY DEF Pipe!pipeVars

LEMMA BeginCallIsStutter ==
  ASSUME IInv, NEW given \in Chunks, NEW room \in Rooms, BeginCall(given, room)
  PROVE  UNCHANGED Pipe!pipeVars
  BY DEF BeginCall, callerVars, Pipe!pipeVars

LEMMA StopOrGoOn ==
  ASSUME IInv, call.running, NEW avail, Stop(avail) \/ GoOn(avail) \/ UNCHANGED call
  PROVE  call'.running /\ call'.entry = call.entry
  <1>1. call \in Calls
    BY DEF IInv, TypeOK
  <1> QED
    BY <1>1, ZenonT(40) DEF Stop, GoOn, Calls

LEMMA TurnsAreStutters ==
  ASSUME IInv,
         Restart \/ LoadHeader \/ DecodeWhole \/ ConsumeHeader \/ ReadEnd \/ ReadDirectly
           \/ ReadMore \/ Load \/ Flush
  PROVE  UNCHANGED Pipe!pipeVars
  <1>1. call.running /\ UNCHANGED last
    BY DEF Restart, LoadHeader, DecodeWhole, ConsumeHeader, HeaderComplete, ReadEnd, ReadDirectly,
           ReadMore, Load, Flush, FlushTo, InLoop, DecompressContinue, callerVars
  <1>2. call \in Calls
    BY DEF IInv, TypeOK
  <1>3. call'.running /\ call'.entry = call.entry
    <2>1. CASE Restart \/ ConsumeHeader \/ ReadEnd \/ ReadDirectly \/ ReadMore \/ Load
      <3>1. \E avail : Stop(avail) \/ GoOn(avail) \/ UNCHANGED call
        BY <2>1, Zenon DEF Restart, ConsumeHeader, ReadEnd, ReadDirectly, ReadMore, Load
      <3> QED BY <1>1, <3>1, StopOrGoOn
    <2>2. CASE LoadHeader
      <3>1. CASE call' = [call EXCEPT !.avail = 0, !.work = FALSE, !.hint = TRUE]
        BY <1>1, <1>2, <3>1, ZenonT(40) DEF Calls
      <3>2. CASE GoOn(call.avail - (HeaderSize - lhSize))
        BY <1>1, <3>2, StopOrGoOn
      <3> QED BY <2>2, <3>1, <3>2 DEF LoadHeader
    <2>3. CASE DecodeWhole
      <3>1. PICK avail, left : call' = [call EXCEPT !.avail = avail, !.left = left, !.work = FALSE]
        BY <2>3 DEF DecodeWhole
      <3> QED BY <1>1, <1>2, <3>1, ZenonT(40) DEF Calls
    <2>4. CASE Flush
      BY <1>1, <1>2, <2>4, ZenonT(40) DEF Flush, FlushTo, Calls
    <2> QED BY <2>1, <2>2, <2>3, <2>4
  <1> QED
    BY <1>1, <1>3, TurnIsStutter

LEMMA NextIsPipeNext ==
  ASSUME IInv, AtEnd, [Next]_vars PROVE [Pipe!PipeNext]_Pipe!pipeVars
  <1>1. CASE \E given \in Chunks, room \in Rooms : BeginCall(given, room)
    BY <1>1, BeginCallIsStutter
  <1>2. CASE Turn
    BY <1>2, TurnsAreStutters, DecodeFailsIsCall DEF Turn
  <1>3. CASE EndCall
    BY <1>3, ReturnHintIsCall, TakeHostageIsCall, AwaitHostageIsCall, EndFrameIsCall,
       NoProgressIsCall DEF EndCall
  <1>4. CASE UNCHANGED vars
    <2>1. UNCHANGED <<call, last, pos, sent, broken>>
      BY <1>4 DEF vars, callerVars
    <2> QED BY <2>1 DEF Pipe!pipeVars, Decoder
  <1> QED
    BY <1>1, <1>2, <1>3, <1>4 DEF Next

(* Every call keeps the contract of DecompressPipe: it stays within one     *)
(* frame, returns 0 exactly at its end with all content delivered, leaves   *)
(* input only for content that waits for room; so DStream, with any frames  *)
(* and any sizes of calls, is what the binding is written against.          *)
THEOREM ContractIsKept == Spec => ImplementsPipe
  <1>1. Init => Pipe!PipeInit
    BY DEF Init
  <1>2. Init => AtEnd
    BY DEF Init, AtEnd, Idle
  <1>3. IInv /\ AtEnd /\ [Next]_vars => AtEnd'
    BY AtEndNext
  <1>4. IInv /\ AtEnd /\ [Next]_vars => [Pipe!PipeNext]_Pipe!pipeVars
    BY NextIsPipeNext
  <1> QED
    BY <1>1, <1>2, <1>3, <1>4, Invariance, PTL DEF Spec, ImplementsPipe, Pipe!PipeSpec

-----------------------------------------------------------------------------
\* Every byte of the text is part of a frame.
LEMMA FrameHas ==
  ASSUME NEW n \in 1 .. TextSize
  PROVE  \E k \in DOMAIN Frames : Frames[k].from < n /\ n <= FrameStop(Frames[k])
  <1> DEFINE l == Len(Frames)
             S == {k \in DOMAIN Frames : n <= FrameStop(Frames[k])}
  <1>1. l \in Nat /\ TextSize \in Nat /\ n \in Nat /\ n > 0 /\ n <= TextSize
    BY Places, FrameNumbers
  <1>2. l # 0
    <2>1. l = 0 => TextSize = 0
      BY DEF TextSize, FrameFrom
    <2> QED BY <1>1, <2>1
  <1>3. l \in DOMAIN Frames /\ DOMAIN Frames \subseteq Nat
    <2>1. 1 <= l
      BY <1>1, <1>2
    <2>2. DOMAIN Frames \subseteq Nat
      BY FrameType
    <2> QED BY <1>1, <2>1, <2>2, FrameNumbers
  <1>4. l \in S
    BY <1>1, <1>3, FrameFacts DEF TextSize
  <1>5. PICK k \in S : \A j \in S : k <= j
    <2>1. S \in SUBSET Nat /\ S # {}
      BY <1>3, <1>4
    <2> HIDE DEF S
    <2> QED BY <2>1, Least
  <1>6. Frames[k].from < n
    <2>1. k \in Nat /\ 1 <= k /\ k <= l /\ Frames[k].from \in Nat /\ FrameFrom(k) = Frames[k].from
      BY FrameType, FrameFacts
    <2>2. CASE k = 1
      BY <1>1, <2>1, <2>2 DEF FrameFrom
    <2>3. CASE k # 1
      <3>1. k - 1 \in Nat /\ 1 <= k - 1 /\ k - 1 <= l /\ ~(k <= k - 1) /\ (k - 1) + 1 = k
        BY <1>1, <2>1, <2>3
      <3>2. k - 1 \in DOMAIN Frames
        BY <3>1, FrameNumbers
      <3>3. ~(n <= FrameStop(Frames[k - 1]))
        BY <1>5, <3>1, <3>2
      <3>4. FrameStop(Frames[k - 1]) = Frames[k].from
        BY <2>1, <2>3 DEF FrameFrom
      <3> QED BY <1>1, <2>1, <3>3, <3>4
    <2> QED BY <2>2, <2>3
  <1> QED
    BY <1>6

\* What the contract is told of byte i, of frame k.
IsOf(i, k) ==
  LET f == Frames[k]
  IN  /\ k \in Nat /\ i \in Nat /\ f.from \in Nat /\ f.before \in Nat
      /\ FrameStop(f) \in Nat /\ f.from + 1 < FrameStop(f) /\ FrameStop(f) <= TextSize
      /\ ContentStop(f) = f.before + ContentOf(f)
      /\ f.from < i /\ i <= FrameStop(f) /\ i - f.from \in Nat
      /\ Text[i].end = FrameStop(f)
      /\ DecodableOfFrame(f, i - f.from) \in Nat
      /\ DecodableOfFrame(f, i - f.from) <= ContentOf(f) /\ ContentOf(f) \in Nat
      /\ Text[i].decodable = f.before + DecodableOfFrame(f, i - f.from)
      /\ Text[i].decodable \in Nat

LEMMA ByteOfText ==
  ASSUME NEW i \in DOMAIN Text PROVE \E k \in DOMAIN Frames : IsOf(i, k)
  <1>1. i \in 1 .. TextSize /\ i \in Nat
    BY DEF Text
  <1>2. PICK k \in DOMAIN Frames : Frames[k].from < i /\ i <= FrameStop(Frames[k])
    BY <1>1, FrameHas
  <1> DEFINE f == Frames[k]
             d == DecodableOfFrame(f, i - f.from)
  <1>3. /\ k \in Nat /\ f.from \in Nat /\ f.before \in Nat /\ FrameStop(f) \in Nat
        /\ FrameSize(f) > 1 /\ FrameSize(f) \in Nat /\ FrameStop(f) = f.from + FrameSize(f)
        /\ ContentOf(f) \in Nat /\ FrameStop(f) <= TextSize
    BY FrameType, FrameFacts, FrameIsLong, FramesInText
  <1>4. f.from + 1 < FrameStop(f)
    BY <1>3
  <1>5. i - f.from \in Nat
    BY <1>1, <1>2, <1>3
  <1>6. d \in Nat /\ d <= ContentOf(f)
    BY <1>5, DecodableOfFrameType
  <1>7. Text[i].end = FrameStop(f) /\ Text[i].decodable = f.before + d
    BY <1>1, <1>2, TextOfFrame
  <1>8. Text[i].decodable \in Nat
    BY <1>3, <1>6, <1>7
  <1> QED
    BY <1>1, <1>2, <1>3, <1>4, <1>5, <1>6, <1>7, <1>8 DEF ContentStop, IsOf

\* The order of two bytes is that of their frames.
LEMMA FramesInOrder ==
  ASSUME NEW k \in DOMAIN Frames, NEW l \in DOMAIN Frames, NEW i \in Nat, NEW j \in Nat, i <= j,
         Frames[k].from < i, i <= FrameStop(Frames[k]),
         Frames[l].from < j, j <= FrameStop(Frames[l])
  PROVE  \/ k = l
         \/ FrameStop(Frames[k]) <= Frames[l].from /\ ContentStop(Frames[k]) <= Frames[l].before
  <1>1. /\ k \in Nat /\ l \in Nat /\ Frames[k].from \in Nat /\ Frames[l].from \in Nat
        /\ FrameStop(Frames[k]) \in Nat /\ FrameStop(Frames[l]) \in Nat
    BY FrameType, FrameIsLong
  <1>2. CASE k < l
    BY <1>2, FramesAssumption
  <1>3. ~(l < k)
    <2>1. l < k => FrameStop(Frames[l]) <= Frames[k].from
      BY FramesAssumption
    <2> QED BY <1>1, <2>1
  <1> QED
    BY <1>1, <1>2, <1>3

(* What the contract of ZSTD_decompressStream() assumes of a text is true   *)
(* of every sequence of frames that the decoder accepts: more and more can  *)
(* be decoded of it, each frame has one end, and no frame is one byte long, *)
(* so that there is always a byte to keep as a hostage.                     *)
THEOREM FramesMakeText ==
  /\ Text \in Seq(Pipe!TextByte)
  /\ \A i \in DOMAIN Text : Text[i].end \in i .. Len(Text) + 1
  /\ \A i, j \in DOMAIN Text : i <= j =>
       /\ Text[i].decodable <= Text[j].decodable
       /\ j <= Text[i].end => Text[j].end = Text[i].end
  /\ \A i \in Pipe!FrameEnds : i > 1 /\ i - 1 \notin Pipe!FrameEnds
  <1>1. Len(Text) = TextSize /\ TextSize \in Nat /\ DOMAIN Text = 1 .. TextSize
    BY TextLength, Places DEF Text
  <1>2. ASSUME NEW i \in DOMAIN Text
        PROVE  Text[i].end \in i .. Len(Text) + 1 /\ Text[i] \in Pipe!TextByte
    <2>1. PICK k \in DOMAIN Frames :
             /\ FrameStop(Frames[k]) \in Nat /\ FrameStop(Frames[k]) <= TextSize /\ i \in Nat
             /\ i <= FrameStop(Frames[k]) /\ Text[i].end = FrameStop(Frames[k])
             /\ Text[i].decodable \in Nat
      BY ByteOfText DEF IsOf
    <2>2. Text[i] = [decodable |-> Text[i].decodable, end |-> Text[i].end]
      BY <1>1 DEF Text
    <2>3. Text[i].end \in i .. Len(Text) + 1
      BY <1>1, <2>1
    <2>4. Text[i].end \in Nat
      BY <2>1
    <2> QED
      BY <2>1, <2>2, <2>3, <2>4 DEF Pipe!TextByte
  <1>3. Text \in Seq(Pipe!TextByte)
    BY <1>1, <1>2 DEF Text
  <1>4. ASSUME NEW i \in DOMAIN Text, NEW j \in DOMAIN Text, i <= j
        PROVE  /\ Text[i].decodable <= Text[j].decodable
               /\ j <= Text[i].end => Text[j].end = Text[i].end
    <2>1. PICK k \in DOMAIN Frames : IsOf(i, k)
      BY ByteOfText
    <2>2. PICK l \in DOMAIN Frames : IsOf(j, l)
      BY ByteOfText
    <2> DEFINE f == Frames[k]
               g == Frames[l]
               m == i - f.from
               n == j - g.from
    <2>3. /\ i \in Nat /\ j \in Nat
          /\ f.from < i /\ i <= FrameStop(f) /\ g.from < j /\ j <= FrameStop(g)
          /\ FrameStop(f) \in Nat /\ g.from \in Nat /\ f.from \in Nat
          /\ Text[i].end = FrameStop(f) /\ Text[j].end = FrameStop(g)
          /\ m \in Nat /\ n \in Nat
          /\ Text[i].decodable = f.before + DecodableOfFrame(f, m)
          /\ Text[j].decodable = g.before + DecodableOfFrame(g, n)
          /\ DecodableOfFrame(f, m) \in Nat /\ DecodableOfFrame(g, n) \in Nat
          /\ f.before \in Nat /\ g.before \in Nat /\ ContentOf(f) \in Nat
          /\ DecodableOfFrame(f, m) <= ContentOf(f)
          /\ ContentStop(f) = f.before + ContentOf(f)
      BY <2>1, <2>2 DEF IsOf
    <2>4. \/ k = l
          \/ FrameStop(f) <= g.from /\ ContentStop(f) <= g.before
      BY <1>4, <2>3, FramesInOrder
    <2>5. CASE k = l
      <3>1. m <= n
        BY <1>4, <2>3, <2>5
      <3>2. DecodableOfFrame(f, m) <= DecodableOfFrame(f, n)
        <4> HIDE DEF m, n
        <4> QED BY <2>3, <3>1, DecodableOfFrameGrows
      <3> HIDE DEF m, n, f, g
      <3>3. f = g
        BY <2>5 DEF f, g
      <3> QED BY <2>3, <3>2, <3>3
    <2>6. CASE FrameStop(f) <= g.from /\ ContentStop(f) <= g.before
      <3> DEFINE d == DecodableOfFrame(f, m)
                 e == DecodableOfFrame(g, n)
                 whole == ContentOf(f)
                 stop == FrameStop(f)
                 from == g.from
                 x == f.before
                 y == g.before
      <3>1. /\ d \in Nat /\ e \in Nat /\ whole \in Nat /\ x \in Nat /\ y \in Nat /\ d <= whole
            /\ x + whole <= y
            /\ stop \in Nat /\ from \in Nat /\ stop <= from /\ from < j
            /\ Text[i].decodable = x + d /\ Text[j].decodable = y + e /\ Text[i].end = stop
        BY <2>3, <2>6
      <3> HIDE DEF d, e, whole, stop, from, x, y
      <3>2. x + d <= y + e /\ ~(j <= stop)
        BY <2>3, <3>1
      <3> QED BY <3>1, <3>2
    <2> QED BY <2>4, <2>5, <2>6
  <1>5. ASSUME NEW i \in Pipe!FrameEnds PROVE i > 1 /\ i - 1 \notin Pipe!FrameEnds
    <2>1. i \in DOMAIN Text /\ Text[i].end = i
      BY DEF Pipe!FrameEnds
    <2>2. PICK k \in DOMAIN Frames : IsOf(i, k)
      BY <2>1, ByteOfText
    <2>3. /\ Frames[k].from \in Nat /\ Frames[k].from + 1 < i /\ i \in Nat /\ i <= TextSize
          /\ FrameStop(Frames[k]) = i
      BY <2>1, <2>2 DEF IsOf
    <2>4. i > 1 /\ i - 1 \in Nat /\ Frames[k].from < i - 1 /\ i - 1 <= i /\ i - 1 # i
      BY <2>3
    <2>5. Text[i - 1].end = i
      BY <2>3, <2>4, TextOfFrame
    <2> QED BY <2>4, <2>5 DEF Pipe!FrameEnds
  <1> QED
    BY <1>2, <1>3, <1>4, <1>5
=============================================================================

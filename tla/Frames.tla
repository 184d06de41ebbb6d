------------------------------- MODULE Frames -------------------------------
(***************************************************************************)
(* ZSTD_decompressMultiFrame of decompress/zstd_decompress.c over texts of *)
(* frames, which may be cut anywhere, and the functions that foretell what *)
(* it will need.  The text lies apart from the output, or, for             *)
(* decompression in place, in the same buffer somewhere behind its start.  *)
(* Content is counted; the first byte of a compressed block is the size    *)
(* that it regenerates, and the digest of a content is its size.           *)
(***************************************************************************)
EXTENDS FrameFormat, SequencesExt

CONSTANTS
  TextFrames,   \* what texts are made of
  MaxFrames,    \* how many of them
  Capacities,   \* sizes of an output buffer that is apart
  Gaps,         \* for a text in place: how far behind the end that it needs it may lie
  DictIDs,      \* dictionaries that the context may have
  Sizes         \* content sizes for headers alone

Params == [checksumFlag : BOOLEAN, contentSizeFlag : BOOLEAN, noDictIDFlag : BOOLEAN,
           windowLog : WindowLogMin .. WindowLogMax, format : {"zstd1", "zstd1_magicless"}]

FramesAssumption ==
  /\ FormatAssumption
  /\ \A f \in TextFrames : f.skippable \/ \A b \in DOMAIN f.blocks :
       f.blocks[b].blockType = bt_compressed => f.blocks[b].csize < f.blocks[b].size

VARIABLES
  frames,     \* the frames of the text
  text,       \* the text, which may be cut off
  inPlace,    \* whether it is decompressed in place
  start,      \* then, where in the buffer it lies
  mem,        \* what is there now; 0 stands for content
  cap,        \* dstCapacity
  dictID,     \* dctx->dictID
  pc, ip, op, \* where the loop of ZSTD_decompressMultiFrame is
  header, begun  \* dctx->fParams, and where the content of this frame begins

vars == <<frames, text, inPlace, start, mem, cap, dictID, pc, ip, op, header, begun>>

\* Writing -------------------------------------------------------------------

SumOver(f, s) == MapThenSumSet(LAMBDA i : f[i], s)

ContentSize(f) == IF f.skippable THEN 0 ELSE SumOver([b \in DOMAIN f.blocks |-> f.blocks[b].size], DOMAIN f.blocks)

Filled(n, first) == IF n = 0 THEN <<>> ELSE <<first>> \o [i \in 1 .. n - 1 |-> 1]

\* A block as ZSTD_compress_frameChunk writes it; a last one that is raw and empty
\* is that of ZSTD_writeEpilogue.
BlockBytes(b, last) ==
  BlockHeader(last, b.blockType, IF b.blockType = bt_rle THEN b.size ELSE b.csize)
    \o CASE b.blockType = bt_raw -> Filled(b.csize, 1)
         [] b.blockType = bt_rle -> <<1>>
         [] OTHER                -> Filled(b.csize, b.size)

Digest(size) == WriteLE(4, size)

FrameBytes(f) ==
  IF f.skippable THEN Magic(0) \o WriteLE(4, f.content) \o Filled(f.content, 40)
  ELSE writeFrameHeader(f.params, ContentSize(f), f.dictID)
         \o FlattenSeq([b \in DOMAIN f.blocks |-> BlockBytes(f.blocks[b], b = Len(f.blocks))])
         \o (IF f.params.checksumFlag THEN Digest(ContentSize(f)) ELSE <<>>)

\* Foretelling ---------------------------------------------------------------

FrameSizeError == [compressedSize |-> Error, decompressedBound |-> ZSTD_CONTENTSIZE_ERROR, nbBlocks |-> 0]

\* The texts that these functions walk through.
Text == Seq(0 .. 255)

Headers == [skippable : BOOLEAN, headerSize : Nat, frameContentSize : Nat, windowSize : Nat,
            blockSizeMax : Nat, dictID : Nat, checksumFlag : BOOLEAN]

\* The blocks and the checksum of a frame with this header.
FindBlocks(src, first) ==
  LET Blocks[rest \in Text, size, n \in Nat, zfh \in Headers] ==
        LET b == getcBlockSize(rest)
            bSize == ZSTD_blockHeaderSize + b.cBlockSize
            end == size + bSize + 4 * Bit(zfh.checksumFlag)
        IN  IF bSize > Len(rest) THEN FrameSizeError
            ELSE IF ~b.lastBlock THEN Blocks[From(rest, bSize + 1), size + bSize, n + 1, zfh]
            ELSE IF end - size > Len(rest) THEN FrameSizeError
            ELSE [compressedSize |-> end, nbBlocks |-> n + 1,
                  decompressedBound |-> IF zfh.frameContentSize # ZSTD_CONTENTSIZE_UNKNOWN
                                        THEN zfh.frameContentSize ELSE (n + 1) * zfh.blockSizeMax]
  IN  Blocks[From(src, first.headerSize + 1), first.headerSize, 0, first]

findFrameSizeInfo(src) ==
  IF Len(src) >= SKIPPABLEHEADERSIZE /\ isSkippableFrame(src) THEN
    [compressedSize |-> readSkippableFrameSize(src), decompressedBound |-> 0, nbBlocks |-> 0]
  ELSE LET h == getFrameHeader(src, "zstd1")
       IN  IF h.ret # 0 THEN FrameSizeError ELSE FindBlocks(src, h.zfh)

findDecompressedSize(src) ==
  LET Total[rest \in Text, total \in Nat] ==
        LET frameSize == IF isSkippableFrame(rest) THEN readSkippableFrameSize(rest)
                         ELSE findFrameSizeInfo(rest).compressedSize
            fcs == IF isSkippableFrame(rest) THEN 0 ELSE getFrameContentSize(rest)
        IN  IF Len(rest) < ZSTD_startingInputLength("zstd1")
            THEN IF rest = <<>> THEN total ELSE ZSTD_CONTENTSIZE_ERROR
            ELSE IF fcs >= ZSTD_CONTENTSIZE_ERROR THEN fcs
            ELSE IF IsError(frameSize) THEN ZSTD_CONTENTSIZE_ERROR
            ELSE Total[From(rest, frameSize + 1), total + fcs]
  IN  Total[src, 0]

decompressBound(src) ==
  LET Bound[rest \in Text, bound \in Nat] ==
        LET info == findFrameSizeInfo(rest) IN
        IF rest = <<>> THEN bound
        ELSE IF IsError(info.compressedSize) THEN ZSTD_CONTENTSIZE_ERROR
        ELSE Bound[From(rest, info.compressedSize + 1), bound + info.decompressedBound]
  IN  Bound[src, 0]

\* Not the code: the block headers are left out of the margin.
MarginOfHeaders(info, zfh) == zfh.headerSize + 4 * Bit(zfh.checksumFlag)

\* What a frame adds to the margin, apart from the size of its blocks.
FrameMargin(info, zfh) ==
  IF zfh.skippable THEN info.compressedSize
  ELSE zfh.headerSize + 4 * Bit(zfh.checksumFlag) + 3 * info.nbBlocks

\* For a text of whole frames.
decompressionMargin(src) ==
  LET Margin[rest \in Text, margin, maxBlockSize \in Nat] ==
        LET info == findFrameSizeInfo(rest)
            zfh  == getFrameHeader(rest, "zstd1").zfh
        IN  IF rest = <<>> THEN margin + maxBlockSize
            ELSE Margin[From(rest, info.compressedSize + 1), margin + FrameMargin(info, zfh),
                        IF zfh.blockSizeMax > maxBlockSize THEN zfh.blockSizeMax ELSE maxBlockSize]
  IN  Margin[src, 0, 0]

\* Decompressing -------------------------------------------------------------

Total(fs) == SumOver([i \in DOMAIN fs |-> ContentSize(fs[i])], DOMAIN fs)

Whole(fs) == FlattenSeq([i \in DOMAIN fs |-> FrameBytes(fs[i])])

InitApart ==
  /\ \/ text = Whole(frames) /\ cap \in Capacities /\ dictID \in DictIDs
     \/ /\ \E n \in 0 .. Len(Whole(frames)) - 1 : text = SubSeq(Whole(frames), 1, n)
        /\ cap = Total(frames) /\ dictID = Max(DictIDs)
  /\ inPlace = FALSE /\ start = 0 /\ mem = text

\* The text at the end of a buffer that is as long as it must be, or shorter.
InitInPlace ==
  /\ frames # <<>>
  /\ text = Whole(frames)
  /\ inPlace = TRUE
  /\ \E gap \in Gaps : start = Total(frames) + decompressionMargin(text) - Len(text) - gap
  /\ start >= 0
  /\ cap = start + Len(text)
  /\ mem = [i \in 1 .. start |-> 0] \o text
  /\ dictID \in DictIDs

InitText ==
  /\ frames \in SeqOf(TextFrames, MaxFrames)
  /\ InitApart \/ InitInPlace
  /\ pc = "frame"

\* A header alone, for every kind of parameters.
InitHeader ==
  /\ \E params \in Params, size \in Sizes, id \in DictIDs :
       /\ ~params.contentSizeFlag => size = 0
       /\ frames = <<[params |-> params, size |-> size, dictID |-> id]>>
       /\ text = writeFrameHeader(params, size, id)
  /\ dictID = 0
  /\ inPlace = FALSE /\ start = 0 /\ mem = text /\ cap = 0
  /\ pc = "header"

Init ==
  /\ InitText \/ InitHeader
  /\ ip = 0 /\ op = 0 /\ begun = 0 /\ header = NoHeader

\* What is left of the text, and how much was put out.
Rest == From(mem, start + ip + 1)

Goes(to, consumed) ==
  /\ pc' = to
  /\ ip' = ip + consumed
  /\ UNCHANGED <<frames, text, inPlace, start, cap, dictID>>

Fails == Goes("error", 0) /\ UNCHANGED <<mem, op, header, begun>>

\* The loop over frames: the text ends, ...
EndOfText ==
  /\ pc = "frame"
  /\ Len(Rest) < ZSTD_startingInputLength("zstd1")
  /\ IF Rest # <<>> THEN Fails ELSE Goes("done", 0) /\ UNCHANGED <<mem, op, header, begun>>

\* ... a frame is skipped, ...
SkipFrame ==
  /\ pc = "frame"
  /\ Len(Rest) >= ZSTD_startingInputLength("zstd1") /\ isSkippableFrame(Rest)
  /\ LET size == readSkippableFrameSize(Rest) IN
     IF IsError(size) THEN Fails ELSE Goes("frame", size) /\ UNCHANGED <<mem, op, header, begun>>

\* ... or one begins: ZSTD_decompressFrame up to its loop, with ZSTD_decodeFrameHeader.
BeginFrame ==
  /\ pc = "frame"
  /\ Len(Rest) >= ZSTD_startingInputLength("zstd1") /\ ~isSkippableFrame(Rest)
  /\ LET fhs == frameHeaderSize_internal(Rest, "zstd1")
         h   == getFrameHeader(SubSeq(Rest, 1, fhs), "zstd1")
     IN  IF \/ Len(Rest) < 6 + ZSTD_blockHeaderSize
            \/ Len(Rest) < fhs + ZSTD_blockHeaderSize
            \/ h.ret # 0
            \/ h.zfh.dictID # 0 /\ h.zfh.dictID # dictID
         THEN Fails
         ELSE Goes("block", fhs) /\ header' = h.zfh /\ begun' = op /\ UNCHANGED <<mem, op>>

\* Not the code: blocks may be written up to the end of the buffer.
BlockEndAnywhere(data) == cap

\* oBlockEnd: in place, a block is not written beyond the start of its own data.
BlockEnd(data) == IF inPlace /\ data >= op /\ data < cap THEN data ELSE cap

MIN_CBLOCK_SIZE == 2

\* How much a block puts out, or Error.
DecodedSize(b, data) ==
  LET size == CASE b.blockType = bt_raw -> b.cBlockSize
                [] b.blockType = bt_rle -> b.origSize
                [] OTHER -> IF b.cBlockSize \in MIN_CBLOCK_SIZE .. header.blockSizeMax
                            THEN mem[data + 1] ELSE Error
      end == IF b.blockType = bt_raw THEN cap ELSE BlockEnd(data)
  IN  IF size > end - op THEN Error ELSE size

\* A turn of the loop over the blocks of a frame.
DecodeBlock ==
  /\ pc = "block"
  /\ LET b == getcBlockSize(Rest)
         data == start + ip + ZSTD_blockHeaderSize
         size == DecodedSize(b, data)
     IN  IF \/ IsError(b.cBlockSize) \/ data + b.cBlockSize > start + Len(text)
            \/ IsError(size)
         THEN Fails
         ELSE /\ Goes(IF b.lastBlock THEN "end" ELSE "block", ZSTD_blockHeaderSize + b.cBlockSize)
              /\ op' = op + size
              /\ mem' = IF inPlace THEN [i \in DOMAIN mem |-> IF i \in op + 1 .. op + size THEN 0 ELSE mem[i]]
                        ELSE mem
              /\ UNCHANGED <<header, begun>>

\* The rest of ZSTD_decompressFrame.
EndFrame ==
  /\ pc = "end"
  /\ IF \/ header.frameContentSize \notin {ZSTD_CONTENTSIZE_UNKNOWN, op - begun}
        \/ header.checksumFlag /\ (Len(Rest) < 4 \/ SubSeq(Rest, 1, 4) # Digest(op - begun))
     THEN Fails
     ELSE Goes("frame", 4 * Bit(header.checksumFlag)) /\ UNCHANGED <<mem, op, header, begun>>

Next == EndOfText \/ SkipFrame \/ BeginFrame \/ DecodeBlock \/ EndFrame

Spec == Init /\ [][Next]_vars
-----------------------------------------------------------------------------
(* Decompression in place never writes over a byte of the text that it has  *)
(* still to read, however little room there is.                             *)
UnreadIntact == pc \notin {"header", "error"} => Rest = From(text, ip + 1)

IsWhole == text \in {Whole(SubSeq(frames, 1, n)) : n \in 0 .. Len(frames)}

WholeFrames == CHOOSE n \in 0 .. Len(frames) : text = Whole(SubSeq(frames, 1, n))

DictionaryFits(f) == f.skippable \/ f.params.noDictIDFlag \/ f.dictID \in {0, dictID}

(* A text is decompressed exactly if it is cut between frames, with all of  *)
(* its content; it fails otherwise, or for the dictionary or the room.      *)
WholeTextsOnly ==
  /\ pc = "done" => IsWhole /\ op = Total(SubSeq(frames, 1, WholeFrames)) /\ op <= cap
  /\ pc = "error" /\ IsWhole /\ ~inPlace =>
       \/ op < Total(SubSeq(frames, 1, WholeFrames)) /\ cap < Total(SubSeq(frames, 1, WholeFrames))
       \/ \E i \in 1 .. WholeFrames : ~DictionaryFits(frames[i])

(* What ZSTD_decompressionMargin says is enough to decompress in place.     *)
MarginIsEnough ==
  pc = "error" /\ inPlace =>
    \/ cap < Total(frames) + decompressionMargin(text)
    \/ \E i \in DOMAIN frames : ~DictionaryFits(frames[i])

(* What is foretold of a text agrees with what it decompresses to: the size *)
(* if all frames declare it, and a bound of it in any case; and nothing but *)
(* an error is foretold of a text that is cut within a frame.               *)
SizesAgree ==
  /\ pc = "done" =>
       /\ findDecompressedSize(text) \in {op, ZSTD_CONTENTSIZE_UNKNOWN}
       /\ decompressBound(text) \in op .. ZSTD_CONTENTSIZE_ERROR - 1
  /\ pc = "frame" /\ ip = 0 /\ ~IsWhole =>
       findDecompressedSize(text) >= ZSTD_CONTENTSIZE_ERROR /\ decompressBound(text) = ZSTD_CONTENTSIZE_ERROR

(* A header is read back as it was written; with any part of it missing,    *)
(* ZSTD_getFrameHeader asks for more, but never for more than the header.   *)
HeadersAreRead ==
  pc = "header" =>
    LET f == frames[1]
        h == getFrameHeader(text, f.params.format)
    IN  /\ h.ret = 0
        /\ h.zfh.headerSize = Len(text)
        /\ Len(text) <= ZSTD_FRAMEHEADERSIZE_MAX
        /\ h.zfh.frameContentSize = IF f.params.contentSizeFlag THEN f.size ELSE ZSTD_CONTENTSIZE_UNKNOWN
        /\ h.zfh.dictID = IF f.params.noDictIDFlag THEN 0 ELSE f.dictID
        /\ h.zfh.checksumFlag = f.params.checksumFlag
        /\ h.zfh.windowSize \in {2 ^ f.params.windowLog, f.size}
        /\ f.size <= h.zfh.windowSize \/ h.zfh.windowSize = 2 ^ f.params.windowLog
        /\ \A n \in 0 .. Len(text) - 1 :
             getFrameHeader(SubSeq(text, 1, n), f.params.format).ret \in n + 1 .. Len(text)
=============================================================================

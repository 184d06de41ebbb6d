---------------------------- MODULE FrameFormat -----------------------------
(***************************************************************************)
(* Frame headers, block headers and skippable frames: what                 *)
(* compress/zstd_compress.c writes and decompress/zstd_decompress.c reads. *)
(* Magic numbers, the frame header descriptor and the window byte are      *)
(* bytes of 256 values; a byte of a number in memory has Base values, so   *)
(* that 256 is Base, 65536 is Base^2, and a block header has as many bits  *)
(* for a size as three of its bytes leave.                                 *)
(***************************************************************************)
EXTENDS Integers, Sequences

CONSTANTS
  Base,           \* 256
  WindowLogMin,   \* ZSTD_WINDOWLOG_ABSOLUTEMIN
  WindowLogMax,   \* ZSTD_WINDOWLOG_MAX
  BlockSizeLimit  \* ZSTD_BLOCKSIZE_MAX

\* A content whose size has one byte fits every window.
FormatAssumption ==
  /\ Base \in Nat \ {0, 1}
  /\ WindowLogMin \in Nat /\ WindowLogMax \in Nat /\ BlockSizeLimit \in Nat \ {0}
  /\ Base <= 2 ^ WindowLogMin

\* Numbers in memory (common/mem.h), least significant byte first.
\* MEM_writeLE16/24/32/64: the low bytes of val, as many as the field has.
WriteLE(width, val) == [i \in 1 .. width |-> (val \div Base ^ (i - 1)) % Base]

\* MEM_readLE16/24/32/64 at an offset into src.
ReadLE(src, offset, width) ==
  LET Digit(i) == IF i <= width THEN src[offset + i] * Base ^ (i - 1) ELSE 0
  IN  Digit(1) + Digit(2) + Digit(3) + Digit(4) + Digit(5) + Digit(6) + Digit(7) + Digit(8)

Bit(condition) == IF condition THEN 1 ELSE 0
Bits(n, at, width) == (n \div 2 ^ at) % 2 ^ width
Lesser(a, b) == IF a < b THEN a ELSE b
From(src, at) == SubSeq(src, at, Len(src))

U32 == Base ^ 4
ZSTD_CONTENTSIZE_UNKNOWN == Base ^ 8 - 1
ZSTD_CONTENTSIZE_ERROR   == Base ^ 8 - 2

\* What the library returns for an error: larger than any size.
Error == Base ^ 8
IsError(n) == n = Error

\* Skippable frames ----------------------------------------------------------

SKIPPABLEHEADERSIZE == 8
FRAMEIDSIZE == 4

\* ZSTD_MAGIC_SKIPPABLE_START + magicVariant, in memory.
Magic(magicVariant) == <<80 + magicVariant, 42, 77, 24>>
Magics == {Magic(v) : v \in 0 .. 15}

isSkippableFrame(src) == Len(src) >= FRAMEIDSIZE /\ SubSeq(src, 1, FRAMEIDSIZE) \in Magics

readSkippableFrameSize(src) ==
  IF Len(src) < SKIPPABLEHEADERSIZE THEN Error
  ELSE LET sizeU32 == ReadLE(src, FRAMEIDSIZE, 4)
           size    == SKIPPABLEHEADERSIZE + sizeU32
       IN  IF (sizeU32 + SKIPPABLEHEADERSIZE) % U32 < sizeU32 \/ size > Len(src)
           THEN Error ELSE size

\* Frame headers -------------------------------------------------------------

ZSTD_MAGICNUMBER == <<40, 181, 47, 253>>
ZSTD_FRAMEHEADERSIZE_MAX == 18

did_fieldSize == <<0, 1, 2, 4>>
fcs_fieldSize == <<0, 2, 4, 8>>

\* Not the code: the second size class has one size too many.
fcsCodeTooLate(pledgedSrcSize) ==
  Bit(pledgedSrcSize >= Base) + Bit(pledgedSrcSize > Base ^ 2 + Base) + Bit(pledgedSrcSize >= U32 - 1)

fcsCode(pledgedSrcSize) ==
  Bit(pledgedSrcSize >= Base) + Bit(pledgedSrcSize >= Base ^ 2 + Base)
    + Bit(pledgedSrcSize >= U32 - 1)

dictIDSizeCode(dictID) == Bit(dictID > 0) + Bit(dictID >= Base) + Bit(dictID >= Base ^ 2)

\* params: checksumFlag, contentSizeFlag, noDictIDFlag, windowLog and format.
writeFrameHeader(params, pledgedSrcSize, dictID) ==
  LET didCode == IF params.noDictIDFlag THEN 0 ELSE dictIDSizeCode(dictID)
      singleSegment == params.contentSizeFlag /\ 2 ^ params.windowLog >= pledgedSrcSize
      code == IF params.contentSizeFlag THEN fcsCode(pledgedSrcSize) ELSE 0
      size == IF code = 1 THEN pledgedSrcSize - Base ELSE pledgedSrcSize
  IN  (IF params.format = "zstd1" THEN ZSTD_MAGICNUMBER ELSE <<>>)
        \o <<didCode + 4 * Bit(params.checksumFlag) + 32 * Bit(singleSegment) + 64 * code>>
        \o (IF singleSegment THEN <<>> ELSE <<8 * (params.windowLog - WindowLogMin)>>)
        \o WriteLE(did_fieldSize[didCode + 1], dictID)
        \o WriteLE(IF code = 0 /\ singleSegment THEN 1 ELSE fcs_fieldSize[code + 1], size)

ZSTD_startingInputLength(format) == IF format = "zstd1" THEN 5 ELSE 1

\* Not the code: singleSegment without a size class has no byte of content size.
HeaderSizeWithoutFcs(src, format) ==
  LET minInputSize == ZSTD_startingInputLength(format)
      fhd == src[minInputSize]
  IN  minInputSize + 1 - Bits(fhd, 5, 1)
        + did_fieldSize[Bits(fhd, 0, 2) + 1] + fcs_fieldSize[Bits(fhd, 6, 2) + 1]

frameHeaderSize_internal(src, format) ==
  LET minInputSize == ZSTD_startingInputLength(format)
      fhd == src[minInputSize]
      singleSegment == Bits(fhd, 5, 1)
      fcsId == Bits(fhd, 6, 2)
  IN  minInputSize + 1 - singleSegment
        + did_fieldSize[Bits(fhd, 0, 2) + 1] + fcs_fieldSize[fcsId + 1]
        + Bit(singleSegment = 1 /\ fcsId = 0)

NoHeader == [skippable |-> FALSE, headerSize |-> 0, frameContentSize |-> 0, windowSize |-> 0,
             blockSizeMax |-> 0, dictID |-> 0, checksumFlag |-> FALSE]

Wants(n) == [ret |-> n, zfh |-> NoHeader]

\* The start of a magic number, which is completed with that of a supported one.
IsStartOfMagic(src) ==
  \E magic \in Magics \cup {ZSTD_MAGICNUMBER} : SubSeq(magic, 1, Lesser(4, Len(src))) = SubSeq(src, 1, Lesser(4, Len(src)))

SkippableHeader(src) ==
  IF Len(src) < SKIPPABLEHEADERSIZE THEN Wants(SKIPPABLEHEADERSIZE)
  ELSE [ret |-> 0,
        zfh |-> [NoHeader EXCEPT !.skippable = TRUE, !.headerSize = SKIPPABLEHEADERSIZE,
                                 !.dictID = src[1] - 80,
                                 !.frameContentSize = ReadLE(src, FRAMEIDSIZE, 4)]]

FullHeader(src, format, fhsize) ==
  LET minInputSize == ZSTD_startingInputLength(format)
      fhd == src[minInputSize]
      singleSegment == Bits(fhd, 5, 1)
      fcsId == Bits(fhd, 6, 2)
      didSize == did_fieldSize[Bits(fhd, 0, 2) + 1]
      wlByte == src[minInputSize + 1]
      windowLog == wlByte \div 8 + WindowLogMin
      didAt == minInputSize + 1 - singleSegment
      fcsAt == didAt + didSize
      content == CASE fcsId = 0 -> IF singleSegment = 1 THEN src[fcsAt + 1] ELSE ZSTD_CONTENTSIZE_UNKNOWN
                   [] fcsId = 1 -> ReadLE(src, fcsAt, 2) + Base
                   [] OTHER     -> ReadLE(src, fcsAt, fcs_fieldSize[fcsId + 1])
      windowSize == IF singleSegment = 1 THEN content
                    ELSE 2 ^ windowLog + (2 ^ windowLog \div 8) * (wlByte % 8)
  IN  IF Bits(fhd, 3, 1) = 1 \/ (singleSegment = 0 /\ windowLog > WindowLogMax) THEN Wants(Error)
      ELSE [ret |-> 0,
            zfh |-> [skippable |-> FALSE, headerSize |-> fhsize, frameContentSize |-> content,
                     windowSize |-> windowSize, blockSizeMax |-> Lesser(windowSize, BlockSizeLimit),
                     dictID |-> ReadLE(src, didAt, didSize), checksumFlag |-> Bits(fhd, 2, 1) = 1]]

\* ZSTD_getFrameHeader_advanced: ret is 0, the size it wants, or Error.
getFrameHeader(src, format) ==
  LET minInputSize == ZSTD_startingInputLength(format) IN
  IF Len(src) < minInputSize THEN
    IF Len(src) > 0 /\ format = "zstd1" /\ ~IsStartOfMagic(src) THEN Wants(Error)
    ELSE Wants(minInputSize)
  ELSE IF format = "zstd1" /\ isSkippableFrame(src) THEN SkippableHeader(src)
  ELSE IF format = "zstd1" /\ SubSeq(src, 1, 4) # ZSTD_MAGICNUMBER THEN Wants(Error)
  ELSE LET fhsize == frameHeaderSize_internal(src, format)
       IN  IF Len(src) < fhsize THEN Wants(fhsize) ELSE FullHeader(src, format, fhsize)

getFrameContentSize(src) ==
  LET header == getFrameHeader(src, "zstd1")
  IN  IF header.ret # 0 THEN ZSTD_CONTENTSIZE_ERROR
      ELSE IF header.zfh.skippable THEN 0 ELSE header.zfh.frameContentSize

\* Blocks --------------------------------------------------------------------

ZSTD_blockHeaderSize == 3
bt_raw == 0
bt_rle == 1
bt_compressed == 2
bt_reserved == 3

\* The header of a block; for bt_rle, size is that of the content.
BlockHeader(last, blockType, size) == WriteLE(3, Bit(last) + 2 * blockType + 8 * size)

\* ZSTD_getcBlockSize: how many bytes follow the header, or Error.
getcBlockSize(src) ==
  IF Len(src) < ZSTD_blockHeaderSize
  THEN [cBlockSize |-> Error, lastBlock |-> FALSE, blockType |-> bt_reserved, origSize |-> 0]
  ELSE LET cBlockHeader == ReadLE(src, 0, 3)
           cSize == cBlockHeader \div 8
           blockType == Bits(cBlockHeader, 1, 2)
       IN  [cBlockSize |-> CASE blockType = bt_rle -> 1
                             [] blockType = bt_reserved -> Error
                             [] OTHER -> cSize,
            lastBlock |-> cBlockHeader % 2 = 1, blockType |-> blockType, origSize |-> cSize]
=============================================================================

---------------------------- MODULE BlockDecoder ----------------------------
(***************************************************************************)
(* What zstd_decompress_block.c does with the memory it writes: where the  *)
(* literals of a block wait (behind the block, at its end, in an extra     *)
(* buffer, or still in the input), and how sequences copy them and earlier *)
(* content in chunks that run over the end of what is asked for.           *)
(*                                                                         *)
(* Memory is one array: the output buffer (the caller's, or the ring of a  *)
(* stream), a dictionary, litExtraBuffer and the input, with bytes between *)
(* them that nobody may write. A byte of content is a number of its own,   *)
(* so that a byte copied from the wrong place shows.                       *)
(***************************************************************************)
EXTENDS Integers, Sequences

CONSTANTS
  COPY,                   \* bytes of ZSTD_copy8
  WILDCOPY_VECLEN,        \* bytes of ZSTD_copy16
  LITBUFFEREXTRASIZE,     \* ZSTD_LITBUFFEREXTRASIZE
  BlockSizeMax, WindowSize, DictSize,
  STORED_SEQS,            \* sequences that the prefetching loop decodes ahead
  Capacities,             \* sizes of output buffers of one call
  ContentSizes,           \* sizes of frames that a stream knows beforehand
  RawSizes,               \* sizes of raw blocks
  SequenceLists,          \* sequences of blocks; an offset of 0 is the farthest
  LitSizes,
  MaxBlocks               \* bound on the blocks of a frame, of which the last is compressed

BlockDecoderAssumption ==
  /\ {COPY, WILDCOPY_VECLEN, LITBUFFEREXTRASIZE, BlockSizeMax} \subseteq Nat \ {0}
  /\ WILDCOPY_VECLEN = 2 * COPY
  /\ LITBUFFEREXTRASIZE >= 2 * WILDCOPY_VECLEN
  /\ LITBUFFEREXTRASIZE < BlockSizeMax /\ BlockSizeMax <= WindowSize

VARIABLES
  mem,
  dctx,      \* prefixStart, virtualStart, dictEnd, previousDstEnd
  streaming, outSize,   \* how the frame is read, and the size of its output buffer
  outStart,  \* where the next block goes
  hist,      \* the content so far, the dictionary first
  block,     \* the compressed block being decoded
  lit,       \* litPtr, litBufferEnd, litBuffer and litBufferLocation
  op,
  stored,    \* the sequences that are decoded and not executed
  nbBlocks,
  pc

vars == <<mem, dctx, streaming, outSize, outStart, hist, block, lit, op, stored, nbBlocks, pc>>

WILDCOPY_OVERLENGTH == 2 * WILDCOPY_VECLEN
Lesser(a, b) == IF a <= b THEN a ELSE b
Greater(a, b) == IF a >= b THEN a ELSE b

\* Not the code: no room for the literals at the end of a block.
decodingBufferSizeForOneBlock == WindowSize + BlockSizeMax + 2 * WILDCOPY_OVERLENGTH

decodingBufferSize == WindowSize + 2 * BlockSizeMax + 2 * WILDCOPY_OVERLENGTH

OutTop       == CHOOSE n \in Capacities \cup {decodingBufferSize} :
                  \A m \in Capacities \cup {decodingBufferSize} : m <= n
DictAddress  == OutTop + WILDCOPY_OVERLENGTH
ExtraAddress == DictAddress + DictSize + 1
SrcAddress   == ExtraAddress + LITBUFFEREXTRASIZE + WILDCOPY_OVERLENGTH + 1
Top          == SrcAddress + BlockSizeMax + WILDCOPY_OVERLENGTH

Untouchable == -1
Garbage     == 0
-----------------------------------------------------------------------------
(* Copies.                                                                  *)

\* length bytes that may overlap with ip before op: what was written is read again.
Bytewise(m, dst, ip, length) ==
  [a \in DOMAIN m |->
     IF a \notin dst .. dst + length - 1 THEN m[a]
     ELSE IF ip < dst THEN m[ip + ((a - dst) % (dst - ip))] ELSE m[ip + a - dst]]

memmove(m, dst, ip, length) ==
  [a \in DOMAIN m |-> IF a \in dst .. dst + length - 1 THEN m[ip + a - dst] ELSE m[a]]

\* Whole chunks, loaded before they are stored; at least one.
Chunks(m, dst, ip, chunk, length) ==
  IF ip < dst /\ dst - ip < chunk
  THEN [a \in DOMAIN m |->
          IF a \in dst + (dst - ip) .. dst + length - 1 THEN Garbage
          ELSE IF a \in dst .. dst + length - 1 THEN m[ip + a - dst] ELSE m[a]]
  ELSE Bytewise(m, dst, ip, length)

RoundedUp(n, unit) == ((n + unit - 1) \div unit) * unit

wildcopy(m, dst, ip, length, overlap) ==
  IF overlap /\ dst - ip < WILDCOPY_VECLEN
  THEN Chunks(m, dst, ip, COPY, Greater(RoundedUp(length, COPY), COPY))
  ELSE Chunks(m, dst, ip, WILDCOPY_VECLEN,
              IF length <= WILDCOPY_VECLEN THEN WILDCOPY_VECLEN
              ELSE WILDCOPY_VECLEN
                   + RoundedUp(length - WILDCOPY_VECLEN, 2 * WILDCOPY_VECLEN))

\* Not the code: the source stays where it was.
SpreadNot(offset) == offset

\* How far behind the source is once the first COPY bytes of a match are spread: the
\* least multiple of the offset that is as far as a chunk.
Spread(offset) == IF offset < COPY THEN RoundedUp(COPY, offset) ELSE offset

\* The copy of a match from here on, the first COPY bytes of which are written.
RestOfMatch(m, dst, offset, length) ==
  LET first == Bytewise(m, dst, dst - offset, COPY)
      next  == dst + COPY
  IN IF length > COPY THEN wildcopy(first, next, next - Spread(offset), length - COPY, TRUE) ELSE first

safecopy(m, dst, oend_w, ip, length, overlap) ==
  IF length < COPY THEN Bytewise(m, dst, ip, length)
  ELSE LET spread == overlap
           first  == IF spread THEN Bytewise(m, dst, ip, COPY) ELSE m
           o      == IF spread THEN dst + COPY ELSE dst
           i      == IF spread THEN o - Spread(dst - ip) ELSE ip
           oend   == dst + length
       IN IF oend <= oend_w THEN wildcopy(first, o, i, oend - o, overlap)
          ELSE IF o <= oend_w
               THEN Bytewise(wildcopy(first, o, i, oend_w - o, overlap),
                             oend_w, i + (oend_w - o), oend - oend_w)
               ELSE Bytewise(first, o, i, oend - o)

safecopyDstBeforeSrc(m, dst, ip, length) ==
  LET long  == length - WILDCOPY_OVERLENGTH
  IN IF length < COPY \/ dst - ip > -COPY \/ long < 0 \/ dst - ip >= -WILDCOPY_VECLEN
     THEN Bytewise(m, dst, ip, length)
     ELSE Bytewise(wildcopy(m, dst, ip, long, FALSE), dst + long, ip + long, WILDCOPY_OVERLENGTH)
-----------------------------------------------------------------------------
(* A sequence: litLength literals from litPtr, then matchLength bytes from  *)
(* offset bytes back. The result is the memory, or an error.                *)

Fails(why) == [error |-> why]
Fine(m)    == [error |-> "no", mem |-> m]

\* The literals go before anything else, in the way that is given as afterLiterals.
copyMatch(m, s, oLitEnd, fast, oend_w) ==
  LET d        == dctx
      beyond   == s.offset - (oLitEnd - d.prefixStart)      \* bytes before the prefix
      inDict   == Lesser(beyond, s.matchLength)
      withDict == IF beyond > 0 THEN memmove(m, oLitEnd, d.dictEnd - beyond, inDict) ELSE m
      o        == IF beyond > 0 THEN oLitEnd + inDict ELSE oLitEnd
      match    == IF beyond > 0 THEN d.prefixStart ELSE oLitEnd - s.offset
      length   == IF beyond > 0 THEN s.matchLength - inDict ELSE s.matchLength
  IN IF s.offset > oLitEnd - d.virtualStart /\ beyond > 0 THEN Fails("corruption_detected")
     ELSE IF beyond > 0 /\ length = 0 THEN Fine(withDict)
     ELSE IF ~fast THEN Fine(safecopy(withDict, o, oend_w, match, length, TRUE))
     ELSE IF s.offset >= WILDCOPY_VECLEN THEN Fine(wildcopy(withDict, o, match, length, FALSE))
     ELSE Fine(RestOfMatch(withDict, o, o - match, length))

\* What both slow versions test first.
Bounded(end, s, litPtr, litLimit, result) ==
  IF op + s.litLength + s.matchLength > end THEN Fails("dstSize_tooSmall")
  ELSE IF litPtr + s.litLength > litLimit THEN Fails("corruption_detected")
  ELSE result

execSequenceEnd(m, end, s, litPtr, litLimit) ==
  LET oend_w == end - WILDCOPY_OVERLENGTH
  IN Bounded(end, s, litPtr, litLimit,
             copyMatch(safecopy(m, op, oend_w, litPtr, s.litLength, FALSE),
                       s, op + s.litLength, FALSE, oend_w))

execSequenceEndSplitLitBuffer(m, end, oend_w, s, litPtr, litLimit) ==
  Bounded(end, s, litPtr, litLimit,
          IF op > litPtr /\ op < litPtr + s.litLength THEN Fails("dstSize_tooSmall")
          ELSE copyMatch(safecopyDstBeforeSrc(m, op, litPtr, s.litLength),
                         s, op + s.litLength, FALSE, oend_w))

\* Away from all ends everything goes in chunks.
Fast(m, s, litPtr, oend_w) ==
  LET first == Chunks(m, op, litPtr, WILDCOPY_VECLEN, WILDCOPY_VECLEN)
      all   == IF s.litLength > WILDCOPY_VECLEN
               THEN wildcopy(first, op + WILDCOPY_VECLEN, litPtr + WILDCOPY_VECLEN,
                             s.litLength - WILDCOPY_VECLEN, FALSE)
               ELSE first
  IN copyMatch(all, s, op + s.litLength, TRUE, oend_w)

execSequence(m, end, s, litPtr, litLimit) ==
  LET oend_w == end - WILDCOPY_OVERLENGTH
  IN IF litPtr + s.litLength > litLimit \/ op + s.litLength + s.matchLength > oend_w
     THEN execSequenceEnd(m, end, s, litPtr, litLimit)
     ELSE Fast(m, s, litPtr, oend_w)

\* Not the code: the literals that are still to be read, in front of the output, are forgotten.
ChunkLimitOfOutput(end, litEnd) == end - WILDCOPY_OVERLENGTH

\* How far the output may be written in chunks while literals wait in front of it.
ChunkLimit(end, litEnd) == litEnd - WILDCOPY_OVERLENGTH

execSequenceSplitLitBuffer(m, end, s, litPtr, litLimit) ==
  LET oend_w == ChunkLimit(end, litPtr + s.litLength)
  IN IF litPtr + s.litLength > litLimit \/ op + s.litLength + s.matchLength > oend_w
     THEN execSequenceEndSplitLitBuffer(m, end, oend_w, s, litPtr, litLimit)
     ELSE Fast(m, s, litPtr, oend_w)
-----------------------------------------------------------------------------
(* The literals section.                                                    *)

\* ZSTD_allocateLiteralsBuffer, and what ZSTD_decodeLiteralsBlock puts there: the memory
\* and where the literals are in it. kind is how they are written.
expectedWriteSize == Lesser(BlockSizeMax, outSize - outStart)

\* The part of split literals that waits at the end of the block.
SplitBuffer(litSize) == outStart + expectedWriteSize - litSize + LITBUFFEREXTRASIZE - WILDCOPY_OVERLENGTH

\* Not the code: the literals begin where the block ends.
FitsBehindContent(litSize) == outSize - outStart > BlockSizeMax + litSize

\* Room behind a whole block, for the literals and for what is copied too far.
FitsBehindBlock(litSize) ==
  outSize - outStart > BlockSizeMax + WILDCOPY_OVERLENGTH + litSize + WILDCOPY_OVERLENGTH

allocateLiteralsBuffer(litSize) ==
  IF ~streaming /\ FitsBehindBlock(litSize)
  THEN [location |-> "in_dst", buffer |-> outStart + BlockSizeMax + WILDCOPY_OVERLENGTH,
        bufferEnd |-> outStart + BlockSizeMax + WILDCOPY_OVERLENGTH + litSize]
  ELSE IF litSize <= LITBUFFEREXTRASIZE
  THEN [location |-> "not_in_dst", buffer |-> ExtraAddress, bufferEnd |-> ExtraAddress + litSize]
  ELSE [location |-> "split", buffer |-> SplitBuffer(litSize),
        bufferEnd |-> SplitBuffer(litSize) + litSize - LITBUFFEREXTRASIZE]

\* length numbers of a sequence from its number first on.
Store(m, address, s, first, length) ==
  [a \in DOMAIN m |-> IF a \in address .. address + length - 1 THEN s[first + a - address] ELSE m[a]]

\* Compressed literals are all written to the end of the block first, and then parted.
Parted(m, literals, l) ==
  LET n     == Len(literals)
      whole == Store(m, outStart + expectedWriteSize - n, literals, 1, n)
      tail  == memmove(whole, ExtraAddress, outStart + expectedWriteSize - LITBUFFEREXTRASIZE,
                       LITBUFFEREXTRASIZE)
  IN memmove(tail, l.buffer, outStart + expectedWriteSize - n, n - LITBUFFEREXTRASIZE)

decodeLiterals(m, literals, kind) ==
  LET n == Len(literals)
      l == allocateLiteralsBuffer(n)
  IN IF kind = "in_src"
     THEN [mem |-> Store(m, SrcAddress, literals, 1, n),
           lit |-> [location |-> "not_in_dst", buffer |-> l.buffer, litPtr |-> SrcAddress,
                    bufferEnd |-> SrcAddress + n]]
     ELSE [mem |-> IF l.location # "split" THEN Store(m, l.buffer, literals, 1, n)
                   ELSE IF kind = "compressed" THEN Parted(m, literals, l)
                   ELSE Store(Store(m, l.buffer, literals, 1, n - LITBUFFEREXTRASIZE),
                              ExtraAddress, literals, n - LITBUFFEREXTRASIZE + 1, LITBUFFEREXTRASIZE),
           lit |-> [location |-> l.location, buffer |-> l.buffer, litPtr |-> l.buffer,
                    bufferEnd |-> l.bufferEnd]]

\* Not the code: the segment before the prefix stays what it was.
checkContinuityOfDict(d, dst) ==
  IF dst = d.previousDstEnd THEN d
  ELSE [dictEnd |-> d.dictEnd, virtualStart |-> dst - (d.previousDstEnd - d.prefixStart),
        prefixStart |-> dst, previousDstEnd |-> dst]
-----------------------------------------------------------------------------
(* What the sequences mean.                                                 *)

\* ZSTD_checkContinuity
checkContinuity(d, dst) ==
  IF dst = d.previousDstEnd THEN d
  ELSE [dictEnd |-> d.previousDstEnd, virtualStart |-> dst - (d.previousDstEnd - d.prefixStart),
        prefixStart |-> dst, previousDstEnd |-> dst]

\* The farthest offset that an encoder uses when the history is h: the dictionary is
\* there until the window leaves it.
Farthest(h) ==
  LET produced == Len(h) - (IF h # <<>> /\ h[1] < 0 THEN DictSize ELSE 0)
  IN IF produced <= WindowSize THEN Len(h) ELSE WindowSize

\* The sequences of list with their offsets, and the content after them.
Regenerated(list, literals) ==
  LET f[i \in 0 .. Len(list)] ==
        IF i = 0 THEN [text |-> hist, used |-> 0, sequences |-> <<>>, valid |-> TRUE]
        ELSE LET r    == f[i - 1]
                 s    == list[i]
                 used == Lesser(r.used + s.litLength, Len(literals))
                 base == r.text \o SubSeq(literals, r.used + 1, used)
                 far  == Farthest(base)
                 off  == IF s.offset = 0 THEN far ELSE s.offset
                 ok   == r.valid /\ 0 < off /\ off <= far /\ r.used + s.litLength = used
             IN IF ~ok THEN [r EXCEPT !.valid = FALSE]
                ELSE [text |-> base \o [j \in 1 .. s.matchLength |->
                                          base[Len(base) - off + 1 + ((j - 1) % off)]],
                      used |-> used, valid |-> TRUE,
                      sequences |-> Append(r.sequences, [s EXCEPT !.offset = off])]
      last == f[Len(list)]
  IN [last EXCEPT !.text = @ \o SubSeq(literals, last.used + 1, Len(literals))]

Fresh(n) == [i \in 1 .. n |-> 100 * (nbBlocks + 1) + i]

NoBlock == [sequences |-> <<>>, next |-> 1, ahead |-> FALSE, text |-> <<>>]
NoLit   == [location |-> "not_in_dst", buffer |-> 0, litPtr |-> 0, bufferEnd |-> 0]

Init ==
  /\ streaming \in BOOLEAN
  /\ outSize \in IF streaming THEN ContentSizes \cup {decodingBufferSize} ELSE Capacities
  /\ \E dict \in BOOLEAN :
       /\ hist = IF dict THEN [i \in 1 .. DictSize |-> -1 - i] ELSE <<>>
       /\ dctx = IF dict
                 THEN [prefixStart |-> DictAddress, virtualStart |-> DictAddress,
                       dictEnd |-> DictAddress, previousDstEnd |-> DictAddress + DictSize]
                 ELSE [prefixStart |-> 0, virtualStart |-> 0, dictEnd |-> 0, previousDstEnd |-> 0]
       /\ mem = [a \in 0 .. Top |->
                   IF a < outSize \/ a \in ExtraAddress .. SrcAddress - 2 THEN Garbage
                   ELSE IF dict /\ a \in DictAddress .. DictAddress + DictSize - 1
                   THEN -1 - (a - DictAddress + 1)
                   ELSE Untouchable]
  /\ outStart = 0 /\ block = NoBlock /\ lit = NoLit /\ op = 0 /\ stored = <<>>
  /\ nbBlocks = 0 /\ pc = "block"

\* The block of the output buffer that ends at end is flushed, and the ring may start over.
Flushed(end) ==
  IF streaming /\ outSize \notin ContentSizes /\ end + BlockSizeMax > outSize THEN 0 ELSE end

CopyRawBlock(n) ==
  /\ pc = "block" /\ nbBlocks < MaxBlocks /\ outStart + n <= outSize
  /\ mem' = Store(mem, outStart, Fresh(n), 1, n)
  /\ dctx' = [checkContinuity(dctx, outStart) EXCEPT !.previousDstEnd = outStart + n]
  /\ hist' = hist \o Fresh(n)
  /\ outStart' = Flushed(outStart + n)
  /\ nbBlocks' = nbBlocks + 1
  /\ UNCHANGED <<streaming, outSize, block, lit, op, stored, pc>>

\* ZSTD_decompressBlock_internal, up to its sequences: ahead says whether it prefetches.
BeginBlock(list, litSize, kind, ahead) ==
  LET literals == Fresh(litSize)
      r        == Regenerated(list, literals)
      size     == Len(r.text) - Len(hist)
      decoded  == decodeLiterals(mem, literals, kind)
  IN /\ pc = "block" /\ nbBlocks < MaxBlocks
     /\ r.valid /\ size <= BlockSizeMax /\ outStart + size <= outSize
     /\ dctx' = checkContinuity(dctx, outStart)
     /\ block' = [sequences |-> r.sequences, next |-> 1, ahead |-> ahead, text |-> r.text]
     /\ mem' = decoded.mem /\ lit' = decoded.lit
     /\ op' = outStart
     /\ stored' = SubSeq(r.sequences, 1,
                         Lesser(Len(r.sequences), IF ahead THEN STORED_SEQS ELSE 1))
     /\ pc' = "sequences"
     /\ UNCHANGED <<streaming, outSize, outStart, hist, nbBlocks>>

oend == IF lit.location = "in_dst" THEN lit.buffer ELSE outSize

\* The literals at the end of the block do not reach for the sequence.
ReachesSplit(s) == lit.location = "split" /\ lit.litPtr + s.litLength > lit.bufferEnd

Slot == ((block.next - 1) % (IF block.ahead THEN STORED_SEQS ELSE 1)) + 1

\* The sequence after those that are stored takes the place of the one that is executed.
StoredAfter ==
  LET following == block.next + (IF block.ahead THEN STORED_SEQS ELSE 1)
  IN IF following <= Len(block.sequences)
     THEN [stored EXCEPT ![Slot] = block.sequences[following]] ELSE stored

ExecSequence ==
  /\ pc = "sequences" /\ block.next <= Len(block.sequences)
  /\ ~ReachesSplit(stored[Slot])
  /\ LET s == stored[Slot]
         r == IF lit.location = "split"
              THEN execSequenceSplitLitBuffer(mem, oend, s, lit.litPtr, lit.bufferEnd)
              ELSE execSequence(mem, oend, s, lit.litPtr, lit.bufferEnd)
     IN IF r.error # "no" THEN pc' = "error" /\ UNCHANGED <<mem, lit, op, stored, block>>
        ELSE /\ mem' = r.mem
             /\ op' = op + s.litLength + s.matchLength
             /\ lit' = [lit EXCEPT !.litPtr = @ + s.litLength]
             /\ stored' = StoredAfter
             /\ block' = [block EXCEPT !.next = @ + 1]
             /\ pc' = pc
  /\ UNCHANGED <<dctx, streaming, outSize, outStart, hist, nbBlocks>>

\* What is left of the literals at the end of the block goes out; the sequence takes the
\* rest of its literals from litExtraBuffer, in the next step.
LeaveSplit ==
  /\ pc = "sequences" /\ block.next <= Len(block.sequences)
  /\ ReachesSplit(stored[Slot])
  /\ LET leftoverLit == lit.bufferEnd - lit.litPtr
     IN IF leftoverLit > oend - op THEN pc' = "error" /\ UNCHANGED <<mem, lit, op, stored>>
        ELSE /\ mem' = safecopyDstBeforeSrc(mem, op, lit.litPtr, leftoverLit)
             /\ op' = op + leftoverLit
             /\ stored' = [stored EXCEPT ![Slot].litLength = @ - leftoverLit]
             /\ lit' = [location |-> "not_in_dst", buffer |-> lit.buffer, litPtr |-> ExtraAddress,
                        bufferEnd |-> ExtraAddress + LITBUFFEREXTRASIZE]
             /\ pc' = pc
  /\ UNCHANGED <<dctx, streaming, outSize, outStart, hist, block, nbBlocks>>

LastLiterals ==
  /\ pc = "sequences" /\ block.next > Len(block.sequences)
  /\ LET n     == lit.bufferEnd - lit.litPtr
         split == lit.location = "split"
         m     == memmove(mem, op, lit.litPtr, n)
         end   == op + n + (IF split THEN LITBUFFEREXTRASIZE ELSE 0)
     IN IF end > oend THEN pc' = "error" /\ UNCHANGED <<mem, dctx, outStart, hist, op, block, nbBlocks>>
        ELSE /\ mem' = IF split THEN memmove(m, op + n, ExtraAddress, LITBUFFEREXTRASIZE) ELSE m
             /\ dctx' = [dctx EXCEPT !.previousDstEnd = end]
             /\ hist' = block.text
             /\ outStart' = Flushed(end)
             /\ nbBlocks' = MaxBlocks    \* bound: nothing follows a compressed block
             /\ op' = end
             /\ block' = NoBlock
             /\ pc' = "block"
  /\ lit' = NoLit /\ stored' = <<>>
  /\ UNCHANGED <<streaming, outSize>>

Next ==
  \/ \E n \in RawSizes : CopyRawBlock(n)
  \/ \E list \in SequenceLists, litSize \in LitSizes,
        kind \in {"in_src", "copied", "compressed"}, ahead \in BOOLEAN :
       BeginBlock(list, litSize, kind, ahead)
  \/ ExecSequence
  \/ LeaveSplit
  \/ LastLiterals

Spec == Init /\ [][Next]_vars
-----------------------------------------------------------------------------
(* Whatever an offset may reach is what the sequences so far mean: no copy   *)
(* that runs over its end, and no literal that waits in the output, takes   *)
(* the place of content in the window or of literals still to be read.      *)
BlocksRegenerate ==
  LET inside   == pc = "sequences"
      position == IF inside THEN op ELSE dctx.previousDstEnd
      text     == IF inside THEN SubSeq(block.text, 1, Len(hist) + op - outStart) ELSE hist
      At(back) == IF back <= position - dctx.prefixStart THEN mem[position - back]
                  ELSE mem[dctx.dictEnd - (back - (position - dctx.prefixStart))]
  IN pc # "error" => \A back \in 1 .. Farthest(text) : At(back) = text[Len(text) + 1 - back]

(* A block that fits the output is decoded, wherever its literals wait.     *)
NoSpuriousError == pc # "error"

(* Nothing is written out of the output buffer and of litExtraBuffer.       *)
OnlyOutputWritten ==
  \A a \in DOMAIN mem :
    \/ a < outSize \/ a \in ExtraAddress .. SrcAddress - 2 \/ a >= SrcAddress
    \/ a \in DictAddress .. DictAddress + DictSize - 1 /\ mem[a] = -1 - (a - DictAddress + 1)
    \/ mem[a] = Untouchable
=============================================================================

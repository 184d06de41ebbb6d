--------------------------- MODULE EntropyCoding ---------------------------
(***************************************************************************)
(* The bits of a compressed block: its literals, the tables of the codes of *)
(* its sequences, and their stream, as they are written and as they are     *)
(* read. Tables of one block serve the next one, on both sides; the first   *)
(* ones may come from a dictionary. A sequence is its number of literals,   *)
(* its match length from 3 on, and the sum of its offset and code.          *)
(***************************************************************************)
EXTENDS Integers, Sequences, SequencesExt, Parsing

CONSTANTS
  Precision, SAMPLE_SIZE, TimeUnit,   \* of FseCoding and HufCoding
  Scenarios,        \* lists of blocks, and how they are compressed
  STATIC_FSE_MAX,   \* 1000: sequences up to which a valid table is not compared with others
  LOW_PROB_FROM     \* 2048: sequences from which rare codes get a share that is not whole

LOCAL INSTANCE FseCoding
Huf == INSTANCE HufCoding

VARIABLES
  how,    \* the scenario
  turn,   \* the number of the block
  pc,     \* what comes next
  prev,   \* tables of the blocks before, and what is known of them
  next,   \* tables of this block
  text,   \* the bits of this block so far
  head,   \* how each of its tables is given, and the size of the last one that is written out
  dctx,   \* tables and repeated offsets of the decoder
  ip,     \* how much of the block it has read
  got,    \* the literals and the sequences that it got
  sound   \* no assertion failed

vars == <<how, turn, pc, prev, next, text, head, dctx, ip, got, sound>>

Lazy == 4
BtUltra == 8
HUF_OPTIMAL_DEPTH_THRESHOLD == BtUltra
LitHufLog == 11
MaxLL == 35
MaxML == 52
MaxOff == 31
DefaultMaxOff == 28
MIN_LITERALS_FOR_4_STREAMS == 6
SUSPECT_UNCOMPRESSIBLE_LITERAL_RATIO == 20
LONGNBSEQ == 32512
Infinite == 2 ^ 30

basic == 0
rle == 1
compressed == 2
repeated == 3

Kinds == {"LL", "OF", "ML"}
FSELog  == [LL |-> 9, OF |-> 8, ML |-> 9]
MaxCode == [LL |-> MaxLL, OF |-> MaxOff, ML |-> MaxML]

\* One of each code, but some, from 0 on.
Norm(shares) == [s \in 0 .. Len(shares) - 1 |-> shares[s + 1]]
Twos(k)      == [i \in 1 .. k |-> 2]
Rare(k)      == [i \in 1 .. k |-> -1]

defaultNorm ==
  [LL |-> Norm(<<4, 3>> \o Twos(11) \o Ones(3) \o Twos(9) \o <<3, 2>> \o Ones(5) \o Rare(4)),
   OF |-> Norm(Ones(6) \o Twos(3) \o Ones(15) \o Rare(5)),
   ML |-> Norm(<<1, 4, 3>> \o Twos(6) \o Ones(37) \o Rare(7))]
defaultNormLog == [LL |-> 6, OF |-> 5, ML |-> 6]

Size(bits) == Len(bits) \div 8
Bit(b)     == IF b THEN 1 ELSE 0

CodeOf(k, s) ==
  CASE k = "LL" -> ZSTD_LLcode(s.litLength) [] k = "OF" -> highbit32(s.offBase) [] k = "ML" -> ZSTD_MLcode(s.mlBase)

seqToCodes(k, sequences) == [i \in 1 .. Len(sequences) |-> CodeOf(k, sequences[i])]

ACCUMULATOR_MIN == IF how.reg = 4 THEN 25 ELSE 57

block     == how.blocks[turn]
nbSeq     == Len(block.sequences)
blockSize == Len(block.literals) + ForEach(block.sequences, 0, LAMBDA r, s : r + s.mlBase + MINMATCH)
minGain(srcSize) == srcSize \div 2 ^ (IF how.strategy >= BtUltra THEN how.strategy - 1 ELSE 6) + 2

TooSmall == [ok |-> FALSE]
-----------------------------------------------------------------------------
(* Literals. A text that is not worth it is left as it is, and one byte      *)
(* repeated is that byte; else the table of the text before, or a new one.  *)

minLiteralsToCompress(mode) ==
  IF mode = "valid" THEN 6
  ELSE 8 * 2 ^ (IF 9 - how.strategy < 3 THEN 9 - how.strategy ELSE 3)

\* The type and the size, in 1, 2 or 3 bytes.
PlainHeader(type, size) ==
  CASE size <= 31 -> BitsOf(type, 3) \o BitsOf(size, 5)
    [] size \in 32 .. 4095 -> BitsOf(type, 2) \o BitsOf(1, 2) \o BitsOf(size, 12)
    [] OTHER -> BitsOf(type, 2) \o BitsOf(3, 2) \o BitsOf(size, 20)

Bytes(symbols) == ForEach(symbols, <<>>, LAMBDA r, s : r \o BitsOf(s, 8))

noCompressLiterals(src) ==
  With(PlainHeader(basic, Len(src)),
       LAMBDA h : IF Len(src) + Size(h) > how.capacity THEN TooSmall ELSE [ok |-> TRUE, bits |-> h \o Bytes(src)])

compressRleLiterals(src) == [ok |-> TRUE, bits |-> PlainHeader(rle, Len(src)) \o BitsOf(src[1], 8)]

lhSize(size) == 3 + Bit(size >= 1024) + Bit(size >= 16384)

\* Both sizes, in 3, 4 or 5 bytes.
CompressedHeader(type, singleStream, size, csize) ==
  CASE lhSize(size) = 3 -> BitsOf(type, 2) \o BitsOf(Bit(~singleStream), 2) \o BitsOf(size, 10) \o BitsOf(csize, 10)
    [] lhSize(size) = 4 -> BitsOf(type, 2) \o BitsOf(2, 2) \o BitsOf(size, 14) \o BitsOf(csize, 14)
    [] OTHER -> BitsOf(type, 2) \o BitsOf(3, 2) \o BitsOf(size, 18) \o BitsOf(csize, 18)

huffmanFlags(src) ==
  (IF how.strategy < Lazy /\ Len(src) <= 1024 THEN {"preferRepeat"} ELSE {})
  \cup (IF how.strategy >= HUF_OPTIMAL_DEPTH_THRESHOLD THEN {"optimalDepth"} ELSE {})
  \cup (IF nbSeq = 0 \/ Len(src) \div nbSeq >= SUSPECT_UNCOMPRESSIBLE_LITERAL_RATIO THEN {"suspectUncompressible"} ELSE {})

\* The result, and what is known of the table from now on.
compressLiterals(src) ==
  LET singleStream == Len(src) < 256 \/ (prev.huf.mode = "valid" /\ lhSize(Len(src)) = 3)
      Plain(c) == [text |-> c, huf |-> prev.huf, sound |-> TRUE]
      Chosen(c) ==
        CASE c.size \in {0, Error} \/ c.size >= Len(src) - minGain(Len(src)) ->
               [Plain(noCompressLiterals(src)) EXCEPT !.sound = c.fits]
          [] /\ ~(c.size \in {0, Error} \/ c.size >= Len(src) - minGain(Len(src)))
             /\ c.size = 1 /\ (Len(src) >= 8 \/ \A i \in 2 .. Len(src) : src[i] = src[1]) ->
               Plain(compressRleLiterals(src))
          [] OTHER ->
               [text |-> [ok |-> TRUE,
                          bits |-> CompressedHeader(IF c.repeat = "none" THEN compressed ELSE repeated,
                                                    singleStream, Len(src), c.size) \o c.bits],
                huf |-> IF c.repeat = "none" THEN [mode |-> "check", table |-> c.table] ELSE prev.huf,
                sound |-> c.fits /\ (~singleStream => Len(src) >= MIN_LITERALS_FOR_4_STREAMS)]
  IN CASE how.literalsDisabled \/ Len(src) < minLiteralsToCompress(prev.huf.mode) -> Plain(noCompressLiterals(src))
       [] ~(how.literalsDisabled \/ Len(src) < minLiteralsToCompress(prev.huf.mode))
          /\ how.capacity < lhSize(Len(src)) + 1 -> Plain(TooSmall)
       [] OTHER -> With(Huf!HUF_compress_internal(
                          [reg |-> how.reg, dstSize |-> how.capacity - lhSize(Len(src)), src |-> src,
                           huffLog |-> LitHufLog, streams |-> IF singleStream THEN 1 ELSE 4,
                           old |-> prev.huf.table, repeat |-> prev.huf.mode, flags |-> huffmanFlags(src)]), Chosen)

NbSeqHeader(number) ==
  CASE number < 128 -> BitsOf(number, 8)
    [] number \in 128 .. LONGNBSEQ - 1 -> BitsOf((number \div 256) + 128, 8) \o BitsOf(number % 256, 8)
    [] OTHER -> BitsOf(255, 8) \o BitsOf(number - LONGNBSEQ, 16)
-----------------------------------------------------------------------------
(* How the codes of a kind are written: with the table that every decoder    *)
(* has, as one code repeated, with the table of before, or with a new one.  *)

kInverseProbabilityLog256 ==
  <<0, 2048, 1792, 1642, 1536, 1453, 1386, 1329, 1280, 1236, 1197, 1162, 1130, 1100, 1073, 1047, 1024, 1001,
     980, 960, 941, 923, 906, 889, 874, 859, 844, 830, 817, 804, 791, 779, 768, 756, 745, 734, 724, 714, 704,
     694, 685, 676, 667, 658, 650, 642, 633, 626, 618, 610, 603, 595, 588, 581, 574, 567, 561, 554, 548, 542,
     535, 529, 523, 517, 512, 506, 500, 495, 489, 484, 478, 473, 468, 463, 458, 453, 448, 443, 438, 434, 429,
     424, 420, 415, 411, 407, 402, 398, 394, 390, 386, 382, 377, 373, 370, 366, 362, 358, 354, 350, 347, 343,
     339, 336, 332, 329, 325, 322, 318, 315, 311, 308, 305, 302, 298, 295, 292, 289, 286, 282, 279, 276, 273,
     270, 267, 264, 261, 258, 256, 253, 250, 247, 244, 241, 239, 236, 233, 230, 228, 225, 222, 220, 217, 215,
     212, 209, 207, 204, 202, 199, 197, 194, 192, 190, 187, 185, 182, 180, 178, 175, 173, 171, 168, 166, 164,
     162, 159, 157, 155, 153, 151, 149, 146, 144, 142, 140, 138, 136, 134, 132, 130, 128, 126, 123, 121, 119,
     117, 115, 114, 112, 110, 108, 106, 104, 102, 100, 98, 96, 94, 93, 91, 89, 87, 85, 83, 82, 80, 78, 76, 74,
     73, 71, 69, 67, 66, 64, 62, 61, 59, 57, 55, 54, 52, 50, 49, 47, 46, 44, 42, 41, 39, 37, 36, 34, 33, 31,
     30, 28, 26, 25, 23, 22, 20, 19, 17, 16, 14, 13, 11, 10, 8, 7, 5, 4, 2, 1>>

entropyCost(counts, total) ==
  LET Share(c) == IF c # 0 /\ (256 * c) \div total = 0 THEN 1 ELSE (256 * c) \div total
  IN SumOver([s \in DOMAIN counts |-> counts[s] * kInverseProbabilityLog256[Share(counts[s]) + 1]]) \div 256

norm256(k, s) == (IF defaultNorm[k][s] = -1 THEN 1 ELSE defaultNorm[k][s]) * 2 ^ (8 - defaultNormLog[k])

crossEntropyCost(k, counts) ==
  SumOver([s \in DOMAIN counts |-> counts[s] * kInverseProbabilityLog256[norm256(k, s) + 1]]) \div 256

\* Infinite if the table has no such code.
fseBitCost(table, counts) ==
  IF \/ Len(table.symbolTT) - 1 < Huf!MaxOf(counts)
     \/ \E s \in DOMAIN counts : counts[s] # 0 /\ bitCost(table, s, 8) >= (table.tableLog + 1) * 256 THEN Infinite
  ELSE SumOver([s \in DOMAIN counts |-> IF counts[s] = 0 THEN 0 ELSE counts[s] * bitCost(table, s, 8)]) \div 256

useLowProbCount(number) == number >= LOW_PROB_FROM

\* The shares of the counts, and their header.
Normalized(k, counts, total, number, room) ==
  With(optimalTableLog(FSELog[k], number, Huf!MaxOf(counts)),
       LAMBDA tableLog :
         With(normalizeCount(counts, tableLog, total, useLowProbCount(total)),
              LAMBDA norm : IF norm = <<>> THEN [size |-> Error, tooSmall |-> FALSE]
                            ELSE With(writeNCount(room, norm, Huf!MaxOf(counts), tableLog),
                                      LAMBDA h : [size |-> h.size, bits |-> h.bits, fits |-> h.fits, norm |-> norm,
                                                  tableLog |-> tableLog, tooSmall |-> h.size = Error])))

defaultAllowed(k, counts) == k # "OF" \/ Huf!MaxOf(counts) <= DefaultMaxOff

\* What is known of the table that is used from now on; sound stands for the assertions.
Choice(type, mode, ok) == [type |-> type, mode |-> mode, sound |-> ok]

Cheapest(k, counts, mode, allowed, costs, number) ==
  LET compressedCost == 8 * costs.header + entropyCost(counts, number)
      ok == /\ costs.header # Error /\ \A s \in DOMAIN counts : counts[s] < number
            /\ allowed => /\ \A s \in DOMAIN counts : norm256(k, s) \in 1 .. 255
                          /\ ~(mode = "valid" /\ costs.repeat = Infinite)
  IN CASE costs.basic <= costs.repeat /\ costs.basic <= compressedCost -> Choice(basic, "none", ok /\ allowed)
       [] ~(costs.basic <= costs.repeat /\ costs.basic <= compressedCost) /\ costs.repeat <= compressedCost ->
            Choice(repeated, mode, ok /\ costs.repeat # Infinite)
       [] OTHER -> Choice(compressed, "check", ok)

selectEncodingType(k, counts, number, mode, prevTable) ==
  LET most    == Huf!Largest(counts)
      allowed == defaultAllowed(k, counts)
      few     == number < (2 ^ defaultNormLog[k] * (10 - how.strategy)) \div 8
      costs   == [basic  |-> IF allowed THEN crossEntropyCost(k, counts) ELSE Infinite,
                  repeat |-> IF mode # "none" THEN fseBitCost(prevTable, counts) ELSE Infinite,
                  header |-> Normalized(k, counts, number, number, FSE_NCOUNTBOUND).size]
  IN CASE most = number -> Choice(IF allowed /\ number <= 2 THEN basic ELSE rle, "none", TRUE)
       [] most # number /\ how.strategy < Lazy ->
            CASE allowed /\ mode = "valid" /\ number < STATIC_FSE_MAX -> Choice(repeated, mode, TRUE)
              [] /\ allowed /\ ~(mode = "valid" /\ number < STATIC_FSE_MAX)
                 /\ (few \/ most < number \div 2 ^ (defaultNormLog[k] - 1)) -> Choice(basic, "none", TRUE)
              [] OTHER -> Choice(compressed, "check", TRUE)
       [] OTHER -> With(costs, LAMBDA c : Cheapest(k, counts, mode, allowed, c, number))


\* The first of the codes, which is read last, costs nothing: it is not counted.
LessTheLast(counts, codes) ==
  IF counts[codes[Len(codes)]] > 1 THEN [counts EXCEPT ![codes[Len(codes)]] = @ - 1] ELSE counts

TableSummary(bits, table, ok) == [ok |-> TRUE, bits |-> bits, table |-> table, sound |-> ok]

ZSTD_buildCTable(k, type, counts, codes, room, prevTable) ==
  LET Built(h) ==
        IF h.size = Error THEN [ok |-> FALSE, sound |-> h.tooSmall]
        ELSE TableSummary(h.bits, buildCTable(h.norm, h.tableLog),
                          h.fits /\ h.size <= NCountWriteBound(Huf!MaxOf(counts), h.tableLog))
      less == LessTheLast(counts, codes)
      total == IF less = counts THEN Len(codes) ELSE Len(codes) - 1
  IN CASE type = rle -> IF room = 0 THEN [ok |-> FALSE, sound |-> TRUE]
                        ELSE TableSummary(BitsOf(codes[1], 8), buildCTable_rle(Huf!MaxOf(counts)), TRUE)
       [] type = repeated -> TableSummary(<<>>, prevTable, TRUE)
       [] type = basic -> TableSummary(<<>>, buildCTable(defaultNorm[k], defaultNormLog[k]), TRUE)
       [] OTHER -> With(With(total, LAMBDA t : Normalized(k, less, t, Len(codes), room)),
                        LAMBDA h : [Built(h) EXCEPT !.sound = @ /\ total > 1])
-----------------------------------------------------------------------------
(* The stream: what the last sequence adds to its codes comes first. Every   *)
(* step is some bits, after which the register is flushed or not.           *)

Added(bits, flush) == [bits |-> bits, flush |-> flush]

\* An offset that the register may have no room for goes in two parts.
OffsetParts(s, longOffsets) ==
  LET ofBits    == highbit32(s.offBase)
      extraBits == IF longOffsets /\ ofBits > ACCUMULATOR_MIN - 1 THEN ofBits - (ACCUMULATOR_MIN - 1) ELSE 0
  IN <<Added(BitsOf(s.offBase, extraBits), extraBits > 0),
       Added(BitsOf(s.offBase \div 2 ^ extraBits, ofBits - extraBits), TRUE)>>

encodeLast(s, longOffsets) ==
  <<Added(BitsOf(s.litLength, LL_bits(ZSTD_LLcode(s.litLength))), how.reg = 4),
    Added(BitsOf(s.mlBase, ML_bits(ZSTD_MLcode(s.mlBase))), how.reg = 4)>> \o OffsetParts(s, longOffsets)

encodeSequence(tables, state, s, longOffsets) ==
  LET llBits == LL_bits(ZSTD_LLcode(s.litLength))
      mlBits == ML_bits(ZSTD_MLcode(s.mlBase))
      total  == highbit32(s.offBase) + llBits + mlBits
      Code(k) == outBits(tables[k].table, state[k], CodeOf(k, s))
  IN <<Added(Code("OF"), FALSE), Added(Code("ML"), how.reg = 4),
       Added(Code("LL"), how.reg = 4 \/ total >= 64 - 7 - (FSELog.LL + FSELog.ML + FSELog.OF)),
       Added(BitsOf(s.litLength, llBits), how.reg = 4 /\ llBits + mlBits > 24),
       Added(BitsOf(s.mlBase, mlBits), how.reg = 4 \/ total > 56)>> \o OffsetParts(s, longOffsets)

encodeSequences(tables, sequences, room) ==
  LET last == sequences[Len(sequences)]
      longOffsets == how.reg = 4 /\ \E i \in 1 .. Len(sequences) : highbit32(sequences[i].offBase) >= ACCUMULATOR_MIN
      Write(w, steps) == ForEach(steps, w, LAMBDA v, a : With(addBits(v, a.bits), LAMBDA u : IF a.flush THEN flushBits(u) ELSE u))
      start == [w |-> Write(initCStream(how.reg, room), encodeLast(last, longOffsets)),
                state |-> [k \in Kinds |-> initCState2(tables[k].table, CodeOf(k, last))]]
      Sequence(e, s) == [w |-> Write(e.w, encodeSequence(tables, e.state, s, longOffsets)),
                         state |-> [k \in Kinds |-> nextState(tables[k].table, e.state[k], CodeOf(k, s))]]
      Closed(e) == closeCStream(ForEach(<<"ML", "OF", "LL">>, e.w, LAMBDA w, k : flushCState(w, tables[k].table, e.state[k])))
  IN IF room <= how.reg THEN [size |-> 0, bits |-> <<>>, fits |-> TRUE]
     ELSE With(ForEach(Reverse(SubSeq(sequences, 1, Len(sequences) - 1)), With(start, LAMBDA e : e), Sequence), Closed)
-----------------------------------------------------------------------------
(* Reading. Tables of the decoder: entries of codes, as FseCoding has them.  *)

LL_base(code) ==
  CASE code < 16 -> code [] code \in 16 .. 19 -> 16 + 2 * (code - 16) [] code \in 20 .. 21 -> 24 + 4 * (code - 20)
    [] code \in 22 .. 23 -> 32 + 8 * (code - 22) [] code = 24 -> 48 [] OTHER -> 2 ^ (code - 19)

ML_base(code) ==
  MINMATCH + (CASE code < 32 -> code [] code \in 32 .. 35 -> 32 + 2 * (code - 32)
                [] code \in 36 .. 37 -> 40 + 4 * (code - 36) [] code \in 38 .. 39 -> 48 + 8 * (code - 38)
                [] code \in 40 .. 41 -> 64 + 16 * (code - 40) [] code = 42 -> 96 [] OTHER -> 2 ^ (code - 36))

OF_base(code) == IF code < 2 THEN code ELSE 2 ^ code - ZSTD_REP_NUM

NumberAt(bits, from, size) ==
  LET v[i \in 0 .. size] == IF i = size THEN 0 ELSE bits[from + i + 1] + 2 * v[i + 1] IN v[0]

Part(bits, from, size) == SubSeq(bits, 8 * from + 1, 8 * (from + size))

huffmanContext == [reg |-> how.reg, fast |-> how.reg = 8, maxTableLog |-> 12]

\* What the header of literals says; all that must not be is an error.
LiteralsHeader(bits) ==
  LET type   == NumberAt(bits, 0, 2)
      lhlCode == NumberAt(bits, 2, 2)
      sizeBits == CASE lhlCode \in {0, 1} -> 10 [] lhlCode = 2 -> 14 [] OTHER -> 18
  IN IF type \in {compressed, repeated}
     THEN [type |-> type, singleStream |-> lhlCode = 0, lhSize |-> CASE lhlCode \in {0, 1} -> 3 [] lhlCode = 2 -> 4 [] OTHER -> 5,
           litSize |-> NumberAt(bits, 4, sizeBits), csize |-> NumberAt(bits, 4 + sizeBits, sizeBits)]
     ELSE CASE lhlCode \in {0, 2} -> [type |-> type, lhSize |-> 1, litSize |-> NumberAt(bits, 3, 5)]
            [] lhlCode = 1 -> [type |-> type, lhSize |-> 2, litSize |-> NumberAt(bits, 4, 12)]
            [] OTHER -> [type |-> type, lhSize |-> 3, litSize |-> NumberAt(bits, 4, 20)]

\* The literals, where they end, and the Huffman table. corrupted is any error.
Corrupted == [at |-> "error"]
Literals(out, end, huf) == [at |-> "end", out |-> out, end |-> end, huf |-> huf]

\* Those that are coded: with the table of before, or with one that comes first.
HuffmanLiterals(h, src) ==
  LET streams == IF h.singleStream THEN 1 ELSE 4
      Result(table, d) == IF d.at = "error" \/ ~d.inside THEN Corrupted ELSE Literals(d.out, h.lhSize + h.csize, table)
  IN With(IF h.type = repeated THEN dctx.huf
          ELSE Huf!readDTable(huffmanContext, src, Huf!symbolsAtOnce(streams, h.litSize, h.csize)),
          LAMBDA table : With(Huf!decompress_DCtx(huffmanContext, IF h.type = repeated THEN [table EXCEPT !.size = 0] ELSE table,
                                                   h.litSize, src, streams),
            LAMBDA d : Result(table, d)))

LiteralsBehind(h, bits) ==
  CASE h.type = basic /\ h.lhSize + h.litSize <= Size(bits) ->
         Literals([i \in 1 .. h.litSize |-> NumberAt(bits, 8 * (h.lhSize + i - 1), 8)], h.lhSize + h.litSize, dctx.huf)
    [] h.type = rle ->
         Literals([i \in 1 .. h.litSize |-> NumberAt(bits, 8 * h.lhSize, 8)], h.lhSize + 1, dctx.huf)
    [] /\ h.type \in {compressed, repeated} /\ (h.type = repeated => dctx.litEntropy)
       /\ Size(bits) >= 5 /\ h.csize + h.lhSize <= Size(bits)
       /\ (~h.singleStream => h.litSize >= MIN_LITERALS_FOR_4_STREAMS) ->
         With(Part(bits, h.lhSize, h.csize), LAMBDA src : HuffmanLiterals(h, src))
    [] OTHER -> Corrupted

decodeLiterals(bits) ==
  IF Size(bits) < 2 THEN Corrupted ELSE With(LiteralsHeader(bits), LAMBDA h : LiteralsBehind(h, bits))

\* The number of sequences, and how long it is written.
readNbSeq(bits, at) ==
  LET first == NumberAt(bits, 8 * at, 8)
  IN CASE first < 128 -> [number |-> first, size |-> 1]
       [] first \in 128 .. 254 -> [number |-> (first - 128) * 256 + NumberAt(bits, 8 * at + 8, 8), size |-> 2]
       [] OTHER -> [number |-> NumberAt(bits, 8 * at + 8, 16) + LONGNBSEQ, size |-> 3]

buildSeqTable(k, type, bits, at) ==
  LET Read(h) ==
        IF h.size = Error \/ (h.size # Error /\ h.tableLog > FSELog[k]) THEN Corrupted
        ELSE [at |-> "end", size |-> h.size, table |-> buildDTable(h.norm, h.tableLog)]
  IN CASE type = rle -> IF at >= Size(bits) \/ NumberAt(bits, 8 * at, 8) > MaxCode[k] THEN Corrupted
                        ELSE [at |-> "end", size |-> 1, table |-> buildDTable_rle(NumberAt(bits, 8 * at, 8))]
       [] type = basic -> [at |-> "end", size |-> 0, table |-> buildDTable(defaultNorm[k], defaultNormLog[k])]
       [] type = repeated -> IF ~dctx.fseEntropy THEN Corrupted ELSE [at |-> "end", size |-> 0, table |-> dctx[k]]
       [] OTHER -> With(readNCount(Part(bits, at, Size(bits) - at), MaxCode[k]), Read)

LONG_OFFSETS_MAX_EXTRA_BITS_32 == 5

\* One after the other: so many bits, whether they are some, and whether the register is filled then.
Reading(size, kind, reload) == [size |-> size, kind |-> kind, reload |-> reload]

ReadingsOf(e, isLongOffset, last) ==
  LET is32   == how.reg = 4
      ofBits == e.OF.symbol
      llBits == LL_bits(e.LL.symbol)
      mlBits == ML_bits(e.ML.symbol)
      inTwo  == is32 /\ isLongOffset /\ ofBits >= ACCUMULATOR_MIN
      extra  == LONG_OFFSETS_MAX_EXTRA_BITS_32
  IN (IF inTwo THEN <<Reading(ofBits - extra, "some", TRUE), Reading(extra, "some", FALSE)>>
      ELSE <<Reading(0, "none", FALSE), Reading(ofBits, IF ofBits > 0 THEN "some" ELSE "none", is32 /\ ofBits > 1)>>)
     \o <<Reading(mlBits, IF mlBits > 0 THEN "some" ELSE "none",
                  IF is32 THEN mlBits + llBits >= ACCUMULATOR_MIN - extra
                  ELSE llBits + mlBits + ofBits >= ACCUMULATOR_MIN - (FSELog.LL + FSELog.ML + FSELog.OF)),
          Reading(llBits, IF llBits > 0 THEN "some" ELSE "none", is32)>>
     \o (IF last THEN <<>> ELSE <<Reading(e.LL.nbBits, "state", FALSE), Reading(e.ML.nbBits, "state", is32),
                                  Reading(e.OF.nbBits, "state", TRUE)>>)

ReadAll(reader, readings) ==
  ForEach(readings, [reader |-> reader, values |-> <<>>],
          LAMBDA r, x : With(CASE x.kind = "none" -> [value |-> 0, reader |-> r.reader]
                               [] x.kind = "some" -> readBitsFast(r.reader, x.size)
                               [] OTHER -> readBits(r.reader, x.size),
            LAMBDA b : [reader |-> IF x.reload THEN reloadDStream(b.reader) ELSE b.reader, values |-> Append(r.values, b.value)]))

\* The offset that a code and its bits stand for, and the history after it.
OffsetRead(prevOffset, ofBits, bits, ll0) ==
  LET code  == 1 + ll0 + bits
      again == IF code = ZSTD_REP_NUM THEN prevOffset[1] - 1 ELSE prevOffset[code + 1]
  IN CASE ofBits > 1 -> <<OF_base(ofBits) + bits, prevOffset[1], prevOffset[2]>>
       [] ofBits = 0 -> <<prevOffset[1 + ll0], prevOffset[2 - ll0], prevOffset[3]>>
       [] OTHER -> <<again, prevOffset[1], IF code # 1 THEN prevOffset[2] ELSE prevOffset[3]>>

ZSTD_decodeSequence(q, isLongOffset, last) ==
  LET e == [k \in Kinds |-> dctx[k].entries[q.state[k] + 1]]
      Done(x, r) ==
        LET ofBits  == x.OF.symbol
            high    == r.values[1] * (IF how.reg = 4 /\ isLongOffset /\ ofBits >= ACCUMULATOR_MIN
                                      THEN 2 ^ LONG_OFFSETS_MAX_EXTRA_BITS_32 ELSE 1)
            ll0     == Bit(LL_base(x.LL.symbol) = 0)
            offsets == OffsetRead(q.rep, ofBits, high + r.values[2], ll0)
        IN [reader |-> r.reader, rep |-> offsets,
            state |-> IF last THEN q.state
                      ELSE [LL |-> x.LL.newState + r.values[5], ML |-> x.ML.newState + r.values[6],
                            OF |-> x.OF.newState + r.values[7]],
            out |-> Append(q.out, [litLength |-> LL_base(x.LL.symbol) + r.values[4],
                                   matchLength |-> ML_base(x.ML.symbol) + r.values[3], offset |-> offsets[1]])]
  IN With(e, LAMBDA x : With(ReadAll(q.reader, ReadingsOf(x, isLongOffset, last)), LAMBDA r : Done(x, r)))

\* ZSTD_maxShortOffset, ZSTD_getOffsetInfo: whether offsets are read in two parts.
IsLongOffset ==
  /\ how.reg = 4 /\ how.longHistory
  /\ \E i \in 1 .. Len(dctx.OF.entries) : dctx.OF.entries[i].symbol > ACCUMULATOR_MIN

decompressSequences(bits, at, number) ==
  LET InitState(q, k) == With(initDState(q.reader, dctx[k]), LAMBDA r : [q EXCEPT !.reader = r.reader, !.state[k] = r.state])
      start(r) == ForEach(<<"LL", "OF", "ML">>,
                          [reader |-> r, rep |-> dctx.rep, out |-> <<>>, state |-> [k \in Kinds |-> 0]], InitState)
      All(r, long) == ForEach([i \in 1 .. number |-> i], start(r), LAMBDA q, i : ZSTD_decodeSequence(q, long, i = number))
  IN With(initDStream(bits, at, Size(bits) - at, how.reg),
          LAMBDA r : IF ~r.ok THEN Corrupted
                     ELSE With(With(IsLongOffset, LAMBDA long : All(r, long)),
                               LAMBDA q : IF endOfDStream(q.reader) THEN [at |-> "end", out |-> q.out, rep |-> q.rep] ELSE Corrupted))
-----------------------------------------------------------------------------
(* Dictionaries: counts as a trainer has them (no symbol of them is left      *)
(* out) or as somebody else made them; their headers, and how both sides     *)
(* read them. A table that lacks a symbol has to be compared with counts    *)
(* before it is used.                                                       *)

analyzeEntropy(d) ==
  LET Shares(bits, k) ==
        bits \o With(normalizeCount(d.counts[k], FSELog[k], SumOver(d.counts[k]), TRUE),
                     LAMBDA norm : writeNCount(FSE_NCOUNTBOUND, norm, Huf!MaxOf(d.counts[k]), FSELog[k]).bits)
  IN ForEach(<<"OF", "ML", "LL">>, Huf!writeCTable(how.reg, 300, Huf!HUF_buildCTable(d.literals, LitHufLog)).bits, Shares)

\* Not the code: a table of a dictionary is used whatever it lacks.
dictNCountRepeatAlways(norm, max) == "valid"

dictNCountRepeat(norm, max) ==
  IF \E s \in 0 .. max : s \notin DOMAIN norm \/ (s \in DOMAIN norm /\ norm[s] = 0) THEN "check" ELSE "valid"

\* What the three headers behind that of the literals say.
ReadShares(bits, size) ==
  ForEach(<<"OF", "ML", "LL">>, [at |-> size],
          LAMBDA r, k : With(readNCount(Part(bits, r.at, Size(bits) - r.at), MaxCode[k]),
                             LAMBDA h : (k :> h) @@ [r EXCEPT !.at = @ + h.size]))

\* Offsets up to the size of the dictionary and that of a block have to have codes.
OffcodeMax(d) == highbit32(d.contentSize + 131072)

loadCEntropy(d, bits) ==
  With(Huf!HUF_readCTable(Huf!readStats(how.reg, bits), 255),
       LAMBDA c : With(ReadShares(bits, c.size),
         LAMBDA h : [huf |-> [mode |-> IF ~c.hasZeroWeights /\ c.table.max = 255 THEN "valid" ELSE "check", table |-> c.table],
                     LL |-> [mode |-> dictNCountRepeat(h.LL.norm, MaxLL), table |-> buildCTable(h.LL.norm, h.LL.tableLog)],
                     ML |-> [mode |-> dictNCountRepeat(h.ML.norm, MaxML), table |-> buildCTable(h.ML.norm, h.ML.tableLog)],
                     OF |-> [mode |-> dictNCountRepeat(h.OF.norm, OffcodeMax(d)),
                             table |-> buildCTable([s \in 0 .. MaxOff |-> IF s \in DOMAIN h.OF.norm THEN h.OF.norm[s] ELSE 0],
                                                   h.OF.tableLog)]]))

loadDEntropy(d, bits) ==
  With(Huf!readDTable(huffmanContext, bits, 2),
       LAMBDA t : With(ReadShares(bits, t.size),
         LAMBDA h : [huf |-> t, litEntropy |-> TRUE, fseEntropy |-> TRUE, rep |-> d.rep,
                     LL |-> buildDTable(h.LL.norm, h.LL.tableLog), ML |-> buildDTable(h.ML.norm, h.ML.tableLog),
                     OF |-> buildDTable(h.OF.norm, h.OF.tableLog)]))
-----------------------------------------------------------------------------
NoTable  == [mode |-> "none", table |-> <<>>]
NoTables == [huf |-> NoTable, LL |-> NoTable, OF |-> NoTable, ML |-> NoTable]
NoTypes  == [at |-> 0, lastCountSize |-> 0, number |-> 0]
Nothing  == [literals |-> <<>>, rep |-> <<>>, sequences |-> <<>>]

Init ==
  /\ how \in Scenarios /\ turn = 1 /\ pc = "dictionary"
  /\ prev = NoTables /\ next = NoTables
  /\ dctx = [huf |-> <<>>, litEntropy |-> FALSE, fseEntropy |-> FALSE, rep |-> <<1, 4, 8>>,
             LL |-> <<>>, OF |-> <<>>, ML |-> <<>>]
  /\ text = <<>> /\ head = NoTypes /\ ip = 0 /\ got = Nothing /\ sound = TRUE

Train ==
  /\ pc = "dictionary"
  /\ text' = IF how.dict = <<>> THEN <<>> ELSE analyzeEntropy(how.dict[1])
  /\ pc' = IF how.dict = <<>> THEN "literals" ELSE "load"
  /\ UNCHANGED <<how, turn, prev, next, head, dctx, ip, got, sound>>

LoadDictionary ==
  /\ pc = "load"
  /\ prev' = loadCEntropy(how.dict[1], text) /\ dctx' = loadDEntropy(how.dict[1], text)
  /\ text' = <<>> /\ pc' = "literals"
  /\ UNCHANGED <<how, turn, next, head, ip, got, sound>>

\* Not the code: the block goes as it is, but its tables are kept.
SendRawKeepTables == text' = <<>> /\ next' = next /\ pc' = "next"

\* The block goes as it is, and the tables are those of before.
SendRaw == text' = <<>> /\ next' = prev /\ pc' = "next"

\* ZSTD_entropyCompressSeqStore_wExtLitBuffer: there was no room.
Fail == IF blockSize <= how.capacity THEN SendRaw ELSE text' = <<>> /\ next' = prev /\ pc' = "failed"

CompressLiterals ==
  /\ pc = "literals"
  /\ \E r \in {compressLiterals(block.literals)} :
       /\ sound' = (sound /\ r.sound)
       /\ IF ~r.text.ok \/ (r.text.ok /\ how.capacity - Size(r.text.bits) < 4) THEN Fail /\ head' = NoTypes
          ELSE \E h \in {NbSeqHeader(nbSeq)} :
                 /\ text' = r.text.bits \o h \o (IF nbSeq = 0 THEN <<>> ELSE BitsOf(0, 8))
                 /\ head' = [NoTypes EXCEPT !.at = Size(r.text.bits \o h)]
                 /\ next' = [prev EXCEPT !.huf = r.huf]
                 /\ pc' = IF nbSeq = 0 THEN "check" ELSE "LL"
  /\ UNCHANGED <<how, turn, prev, dctx, ip, got>>

Shift    == [LL |-> 6, OF |-> 4, ML |-> 2]
AfterKind == [LL |-> "OF", OF |-> "ML", ML |-> "sequences"]

WithType(k, type) ==
  [text EXCEPT ![8 * head.at + Shift[k] + 1] = type % 2, ![8 * head.at + Shift[k] + 2] = type \div 2]

BuildTable(k) ==
  /\ pc = k
  /\ \E codes \in {seqToCodes(k, block.sequences)} : \E counts \in {Huf!Histogram(codes)} :
     \E c \in {selectEncodingType(k, counts, nbSeq, prev[k].mode, prev[k].table)} :
     \E t \in {ZSTD_buildCTable(k, c.type, counts, codes, how.capacity - Size(text), prev[k].table)} :
       /\ sound' = (sound /\ c.sound /\ t.sound /\ (c.type \in {basic, rle} => c.mode = "none"))
       /\ IF ~t.ok THEN Fail /\ UNCHANGED head
          ELSE /\ text' = WithType(k, c.type) \o t.bits
               /\ next' = [next EXCEPT ![k] = [mode |-> c.mode, table |-> t.table]]
               /\ head' = [head EXCEPT !.lastCountSize = IF c.type = compressed THEN Size(t.bits) ELSE @]
               /\ pc' = AfterKind[k]
  /\ UNCHANGED <<how, turn, prev, dctx, ip, got>>

\* An old decoder wants four bytes from the last table on.
EncodeSequences ==
  /\ pc = "sequences"
  /\ \E b \in {encodeSequences(next, block.sequences, how.capacity - Size(text))} :
       /\ sound' = (sound /\ b.fits)
       /\ CASE b.size = 0 -> Fail
            [] b.size # 0 /\ head.lastCountSize > 0 /\ head.lastCountSize + b.size < 4 -> SendRaw
            [] OTHER -> text' = text \o b.bits /\ pc' = "check" /\ UNCHANGED next
  /\ UNCHANGED <<how, turn, prev, head, dctx, ip, got>>

CheckSize ==
  /\ pc = "check"
  /\ IF Size(text) >= blockSize - minGain(blockSize) THEN SendRaw
     ELSE pc' = "read" /\ UNCHANGED <<text, next>>
  /\ UNCHANGED <<how, turn, prev, head, dctx, ip, got, sound>>
-----------------------------------------------------------------------------
Stop == pc' = "corrupted" /\ UNCHANGED <<dctx, ip, got, head>>

DecodeLiterals ==
  /\ pc = "read"
  /\ \E l \in {decodeLiterals(text)} :
       IF l.at = "error" THEN Stop
       ELSE /\ dctx' = [dctx EXCEPT !.huf = l.huf, !.litEntropy = @ \/ NumberAt(text, 0, 2) \in {compressed, repeated}]
            /\ ip' = l.end /\ got' = [literals |-> l.out, rep |-> dctx.rep, sequences |-> <<>>]
            /\ pc' = "read number" /\ UNCHANGED head
  /\ UNCHANGED <<how, turn, prev, next, text, sound>>

ReadNumber ==
  /\ pc = "read number"
  /\ \E h \in {readNbSeq(text, ip)} :
       CASE h.number = 0 -> IF ip + h.size = Size(text) THEN pc' = "next" /\ UNCHANGED <<ip, dctx, got, head>> ELSE Stop
         [] h.number # 0 /\ NumberAt(text, 8 * (ip + h.size), 2) # 0 -> Stop
         [] OTHER -> /\ ip' = ip + h.size + 1 /\ pc' = "read LL"
                     /\ head' = [head EXCEPT !.at = ip + h.size, !.number = h.number] /\ UNCHANGED <<dctx, got>>
  /\ UNCHANGED <<how, turn, prev, next, text, sound>>

Reads     == [LL |-> "read LL", OF |-> "read OF", ML |-> "read ML"]
AfterRead == [LL |-> "read OF", OF |-> "read ML", ML |-> "read sequences"]

BuildSeqTable(k) ==
  /\ pc = Reads[k]
  /\ \E t \in {buildSeqTable(k, NumberAt(text, 8 * head.at + Shift[k], 2), text, ip)} :
       IF t.at = "error" THEN Stop
       ELSE dctx' = [dctx EXCEPT ![k] = t.table] /\ ip' = ip + t.size /\ pc' = AfterRead[k] /\ UNCHANGED <<got, head>>
  /\ UNCHANGED <<how, turn, prev, next, text, sound>>

DecodeSequences ==
  /\ pc = "read sequences"
  /\ \E q \in {decompressSequences(text, ip, head.number)} :
       IF q.at = "error" THEN Stop
       ELSE /\ dctx' = [dctx EXCEPT !.fseEntropy = TRUE, !.rep = q.rep]
            /\ got' = [got EXCEPT !.sequences = q.out] /\ pc' = "next" /\ UNCHANGED <<ip, head>>
  /\ UNCHANGED <<how, turn, prev, next, text, sound>>

\* A table of offsets that a dictionary vouched for is only trusted in the first block.
Confirmed(tables) == IF tables.OF.mode = "valid" THEN [tables EXCEPT !.OF.mode = "check"] ELSE tables

NextBlock ==
  /\ pc = "next"
  /\ prev' = Confirmed(next) /\ next' = NoTables
  /\ text' = <<>> /\ head' = NoTypes /\ ip' = 0 /\ got' = Nothing
  /\ IF turn = Len(how.blocks) THEN pc' = "done" /\ UNCHANGED turn ELSE pc' = "literals" /\ turn' = turn + 1
  /\ UNCHANGED <<how, dctx, sound>>

Next ==
  \/ Train \/ LoadDictionary
  \/ CompressLiterals \/ (\E k \in Kinds : BuildTable(k)) \/ EncodeSequences \/ CheckSize
  \/ DecodeLiterals \/ ReadNumber \/ (\E k \in Kinds : BuildSeqTable(k)) \/ DecodeSequences
  \/ NextBlock

Spec == Init /\ [][Next]_vars
-----------------------------------------------------------------------------
Meant(reps, sequences) ==
  ForEach(sequences, [reps |-> reps, out |-> <<>>],
          LAMBDA r, s : With(RepeatAfter(r.reps, s.offBase, Bit(s.litLength = 0)),
            LAMBDA after : [reps |-> after, out |-> Append(r.out, [litLength |-> s.litLength, matchLength |-> s.mlBase + MINMATCH,
                                                                   offset |-> after[1]])])).out

(* A compressed block is read without an error, and what is read are the     *)
(* literals and the sequences that it was made of (ZSTD_compressLiterals,    *)
(* ZSTD_encodeSequences against ZSTD_decodeLiteralsBlock, ZSTD_decodeSequence).*)
BlocksAreRead ==
  /\ pc # "corrupted"
  /\ pc = "next" /\ text # <<>> =>
       got.literals = block.literals /\ (nbSeq > 0 => got.sequences = Meant(got.rep, block.sequences))

Undoes(ct, dt) ==
  /\ ct.tableLog = dt.tableLog
  /\ \A u \in 1 .. Len(dt.entries) :
       LET e == dt.entries[u]
           size == 2 ^ dt.tableLog
       IN \A low \in {0, 2 ^ e.nbBits - 1} :
            /\ nbBitsOut(ct, size + e.newState + low, e.symbol) = e.nbBits
            /\ nextState(ct, size + e.newState + low, e.symbol) = size + u - 1

SameCodes(table, huf) ==
  \A s \in 0 .. table.max :
    table.nbBits[s] > 0 =>
      Huf!CellOf(huf, table.value[s] * 2 ^ (huf.tableLog - table.nbBits[s])).symbols[1] = s

(* Between blocks, a table that the encoder may use again is the inverse of   *)
(* the one that the decoder kept, whatever the block before was sent as      *)
(* (repeatMode in ZSTD_selectEncodingType, litEntropy and fseEntropy).       *)
KeptTablesAgree ==
  pc = "next" =>
    /\ next.huf.mode # "none" => dctx.litEntropy /\ SameCodes(next.huf.table, dctx.huf)
    /\ \A k \in Kinds : next[k].mode # "none" => dctx.fseEntropy /\ Undoes(next[k].table, dctx[k])

(* No assertion of the encoder fails: no bit is lost at the top of its        *)
(* register, nothing is written behind its buffer, every cost that is        *)
(* compared is one of a table that has the codes.                           *)
NothingLost == sound

(* The codes of a Huffman table use up the room that they have, and every     *)
(* cell of the decoder's table is filled, so that no damaged text finds an   *)
(* old one (HUF_buildCTable, HUF_readDTableX1, HUF_readDTableX2).            *)
TablesAreWhole ==
  pc = "next" =>
    /\ next.huf.mode # "none" =>
         SumOver([s \in 0 .. next.huf.table.max |->
                    IF next.huf.table.nbBits[s] = 0 THEN 0 ELSE 2 ^ (next.huf.table.tableLog - next.huf.table.nbBits[s])])
           = 2 ^ next.huf.table.tableLog
    /\ dctx.litEntropy => Huf!TableIsWhole(dctx.huf)
=============================================================================

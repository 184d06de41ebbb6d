---------------------------- MODULE BlockCoding -----------------------------
(***************************************************************************)
(* What the two sides of a frame must agree on from block to block: the    *)
(* three repeated offsets, and the tables that a block may use again. The  *)
(* compressor keeps them in prevCBlock, prepares what follows a block in   *)
(* nextCBlock, and swaps the two only when the block goes out compressed;  *)
(* a block may also go out raw or as one repeated byte, in partitions, or  *)
(* in sub-blocks with a raw rest, and the decoder learns of none of the    *)
(* sequences that were not sent. Sources: compress/zstd_compress.c,        *)
(* zstd_compress_superblock.c, _sequences.c, _literals.c and               *)
(* decompress/zstd_decompress_block.c.                                     *)
(* The codes of a block (literals, literal lengths, offsets, match lengths)*)
(* have tables of their own, which never look at each other: a behaviour   *)
(* follows one of them, code. Match lengths are coded like literal lengths *)
(* and are left out. A table is the set of the symbols it can encode and a *)
(* parity that tells it from the one before; sizes and costs are not       *)
(* modelled, every choice that depends on them is left open.               *)
(***************************************************************************)
EXTENDS Integers, Sequences, FiniteSets

CONSTANTS
  Stores,         \* what the match finders may make of a block: seqStores
  MaxBlocks,      \* blocks of a frame, before they are split
  DefaultMaxOff,  \* largest offset code of the default table
  LongLength,     \* what a long length has on top of the 16 bits of a sequence (0x10000)
  MinSequencesBlockSplitting,
  StaticFseNbSeqMax  \* sequences from which a fast strategy makes a new table (staticFse_nbSeq_max)

VARIABLES
  code,           \* "huf", "ll" or "of": the code that is followed
  strategy,       \* "fast", "lazy" or "btopt": how much is known and tried
  nbBlocks,       \* blocks so far: the first one is never sent as RLE
  prev,           \* prevCBlock: rep, and the table of the code with its repeat mode
  next,           \* nextCBlock of a superblock, and how the code is to be sent
  seqStore,       \* sequences, longLengthType and longLengthPos, and the last literals
  pc,             \* "idle", "split", "multi" or "sent"
  partitions,     \* where the partitions that are not sent yet end
  sp,             \* the sequences that are in out
  reps,           \* dRep and cRep: the history of the decoder, and of the sequences of the block
  out,            \* the blocks in dst
  dctx            \* the decoder: rep, the table of the code, litEntropy or fseEntropy

vars == <<code, strategy, nbBlocks, prev, next, seqStore, pc, partitions, sp, reps, out, dctx>>

repStartValue == <<1, 4, 8>>
Bit(condition) == IF condition THEN 1 ELSE 0

\* Sequences and the history of offsets --------------------------------------

IsRepcode(offBase) == offBase <= 3

\* Not the code: the third repcode moves the second one only.
updateRepForgetting(rep, offBase, ll0) ==
  IF ~IsRepcode(offBase) THEN <<offBase - 3, rep[1], rep[2]>>
  ELSE IF offBase - 1 + ll0 = 0 THEN rep
  ELSE <<IF offBase - 1 + ll0 = 3 THEN rep[1] - 1 ELSE rep[offBase + ll0], rep[1], rep[3]>>

updateRep(rep, offBase, ll0) ==
  LET repCode == offBase - 1 + ll0
  IN  IF ~IsRepcode(offBase) THEN <<offBase - 3, rep[1], rep[2]>>
      ELSE IF repCode = 0 THEN rep
      ELSE <<IF repCode = 3 THEN rep[1] - 1 ELSE rep[repCode + 1],
             rep[1], IF repCode >= 2 THEN rep[2] ELSE rep[3]>>

resolveRepcodeToRawOffset(rep, offBase, ll0) ==
  LET adjustedRepCode == offBase - 1 + ll0
  IN  IF adjustedRepCode = 3 THEN rep[1] - 1 ELSE rep[adjustedRepCode + 1]

rawOffset(rep, offBase, ll0) ==
  IF IsRepcode(offBase) THEN resolveRepcodeToRawOffset(rep, offBase, ll0) ELSE offBase - 3

\* What the decoder makes of a sequence: the history after it, its offset first.
decodeSequence(prevOffset, offBase, ll0) ==
  IF offBase > 3 THEN <<offBase - 3, prevOffset[1], prevOffset[2]>>
  ELSE IF offBase = 1 THEN <<prevOffset[1 + ll0], prevOffset[2 - ll0], prevOffset[3]>>
  ELSE LET offset == offBase - 1 + ll0
           temp   == IF offset = 3 THEN prevOffset[1] - 1 ELSE prevOffset[1 + offset]
       IN  <<temp, prevOffset[1], IF offset # 1 THEN prevOffset[2] ELSE prevOffset[3]>>

NbSeq(store) == Len(store.sequences)
HasLongLiterals(store, i) == store.longLengthType = "literalLength" /\ store.longLengthPos = i
LitLength(store, i) ==
  store.sequences[i].litLength + (IF HasLongLiterals(store, i) THEN LongLength ELSE 0)

\* Not the code: a long length that is 65536 exactly counts as no literals.
LL0InShort(store, i) == Bit(store.sequences[i].litLength = 0)

\* Whether a sequence has no literals, as ZSTD_seqStore_resolveOffCodes sees it.
LL0(store, i) == Bit(store.sequences[i].litLength = 0 /\ ~HasLongLiterals(store, i))


\* The sequences of a store one after the other: the history after each of them, and what
\* the decoder is to find, literals and offset.
Histories(rep, store) ==
  LET after[i \in 0 .. NbSeq(store)] ==
        IF i = 0 THEN rep
        ELSE updateRep(after[i - 1], store.sequences[i].offBase, Bit(LitLength(store, i) = 0))
  IN  after
Meant(rep, store) ==
  LET after == Histories(rep, store)
  IN  [i \in 1 .. NbSeq(store) |->
         <<LitLength(store, i),
           rawOffset(after[i - 1], store.sequences[i].offBase, Bit(LitLength(store, i) = 0))>>]

\* Not the code: the literals of the sequence after a chunk count as its own.
deriveSeqStoreChunkTooFar(store, startIdx, endIdx) ==
  [sequences      |-> SubSeq(store.sequences, startIdx + 1, endIdx),
   longLengthType |-> IF store.longLengthPos - 1 \in startIdx .. endIdx THEN store.longLengthType ELSE "none",
   longLengthPos  |-> store.longLengthPos,
   lastLiterals   |-> IF endIdx = NbSeq(store) THEN store.lastLiterals ELSE {}]

\* The chunk [startIdx, endIdx) of store; longLengthPos counts from 1 here.
deriveSeqStoreChunk(store, startIdx, endIdx) ==
  LET within == store.longLengthPos - 1 \in startIdx .. endIdx
  IN  [sequences      |-> SubSeq(store.sequences, startIdx + 1, endIdx),
       longLengthType |-> IF within THEN store.longLengthType ELSE "none",
       longLengthPos  |-> IF within THEN store.longLengthPos - startIdx ELSE 0,
       lastLiterals   |-> IF endIdx = NbSeq(store) THEN store.lastLiterals ELSE {}]

\* The repcodes of a partition that mean something else to the decoder, because it did not
\* get an earlier partition, become offsets; both histories move on.
resolveOffCodes(dRepcodes, cRepcodes, store) ==
  LET after[i \in 0 .. NbSeq(store)] ==
        IF i = 0 THEN [d |-> dRepcodes, c |-> cRepcodes, offBases |-> <<>>]
        ELSE LET offBase    == store.sequences[i].offBase
                 ll0        == LL0(store, i)
                 cRawOffset == rawOffset(after[i - 1].c, offBase, ll0)
                 sent       == IF rawOffset(after[i - 1].d, offBase, ll0) = cRawOffset
                               THEN offBase ELSE cRawOffset + 3
             IN  [d |-> updateRep(after[i - 1].d, sent, ll0),
                  c |-> updateRep(after[i - 1].c, offBase, ll0),
                  offBases |-> Append(after[i - 1].offBases, sent)]
  IN  after[NbSeq(store)]
WithOffBases(store, offBases) ==
  [store EXCEPT !.sequences = [i \in 1 .. NbSeq(store) |->
                                 [store.sequences[i] EXCEPT !.offBase = offBases[i]]]]
-----------------------------------------------------------------------------
\* Choosing how the code is sent, and its table ------------------------------

NoTable == [symbols |-> {}, parity |-> 0]
RleTable(symbol) == [symbols |-> {symbol}, parity |-> 3]
DefaultTable == [symbols |-> IF code = "ll" THEN {0, 1} ELSE 0 .. DefaultMaxOff, parity |-> 2]
Fresh(table, symbols) == [symbols |-> symbols, parity |-> IF table.parity = 0 THEN 1 ELSE 0]

highbit(offBase) ==
  Bit(offBase >= 2) + Bit(offBase >= 4) + Bit(offBase >= 8) + Bit(offBase >= 16)

\* ZSTD_seqToCodes, and the literals.
SymbolsOf(store) ==
  CASE code = "of"  -> {highbit(store.sequences[i].offBase) : i \in 1 .. NbSeq(store)}
    [] code = "ll"  -> {Bit(LitLength(store, i) > 0) : i \in 1 .. NbSeq(store)}
    [] code = "huf" -> {store.sequences[i].symbol : i \in {j \in 1 .. NbSeq(store) : LitLength(store, j) > 0}}
                         \cup store.lastLiterals

Outcome(type, mode, table) == [type |-> type, mode |-> mode, table |-> table]
Kept(type) == Outcome(type, prev.mode, prev.table)

\* Not the code: the mode of the previous table outlives it.
ModeAfterKeeping(type) == IF type = "compressed" THEN "check" ELSE prev.mode

\* A default table or a single symbol is not one to repeat; a new table is one to check.
ModeAfter(type) ==
  CASE type \in {"basic", "rle"} -> "none" [] type = "compressed" -> "check" [] type = "repeat" -> prev.mode

\* ZSTD_selectEncodingType: the ways to send the symbols.
selectEncodingType(symbols, nbSeq) ==
  LET isDefaultAllowed == symbols \subseteq DefaultTable.symbols
      basic == IF isDefaultAllowed THEN {"basic"} ELSE {}
  IN  IF Cardinality(symbols) = 1 THEN IF isDefaultAllowed /\ nbSeq <= 2 THEN basic ELSE {"rle"}
      ELSE IF strategy = "fast"
      THEN IF isDefaultAllowed /\ prev.mode = "valid" /\ nbSeq < StaticFseNbSeqMax THEN {"repeat"}
           ELSE basic \cup {"compressed"}
      ELSE basic \cup {"compressed"}
             \cup (IF prev.mode # "none" /\ symbols \subseteq prev.table.symbols THEN {"repeat"} ELSE {})

\* ZSTD_buildCTable.
buildCTable(type, symbols) ==
  CASE type = "basic"      -> DefaultTable
    [] type = "rle"        -> RleTable(CHOOSE s \in symbols : TRUE)
    [] type = "repeat"     -> prev.table
    [] type = "compressed" -> Fresh(prev.table, symbols)

\* Not the code: a table that lacks a symbol is used again.
compressLiteralsUnvalidated(lits) ==
  IF lits # {} /\ prev.mode # "none" THEN {Kept("repeat")} ELSE {Kept("basic")}

\* ZSTD_compressLiterals, or the same for a superblock: raw, one byte, again the table of the
\* last block, or a new one.
compressLiterals(lits) ==
  {Kept("basic")}
    \cup (IF Cardinality(lits) = 1 THEN {Kept("rle")} ELSE {})
    \cup (IF lits # {} /\ (prev.mode = "valid" \/ (prev.mode = "check" /\ lits \subseteq prev.table.symbols))
          THEN {Kept("repeat")} ELSE {})
    \cup (IF Cardinality(lits) > 1
          THEN {Outcome("compressed", "check", Fresh(prev.table, lits))} ELSE {})

\* What becomes of the code in a block of store, in a block without sequences as given.
entropyCompressSeqStore(store, withoutSequences) ==
  IF code = "huf" THEN compressLiterals(SymbolsOf(store))
  ELSE IF store.sequences = <<>> THEN {withoutSequences}
  ELSE {Outcome(type, ModeAfter(type), buildCTable(type, SymbolsOf(store))) :
          type \in selectEncodingType(SymbolsOf(store), NbSeq(store))}

\* Without sequences the tables are copied as if they were repeated.
buildDummySequencesStatistics == Outcome("basic", "none", prev.table)

\* The same for the tables of a superblock, which are made apart.
buildBlockEntropyStats_literals(store) == compressLiterals(SymbolsOf(store))
buildBlockEntropyStats(store) ==
  IF code = "huf" THEN buildBlockEntropyStats_literals(store)
  ELSE entropyCompressSeqStore(store, buildDummySequencesStatistics)

CBlock(outcome, rep) == [rep |-> rep, mode |-> outcome.mode, table |-> outcome.table]

\* Not the code: the table of a dictionary stays good for every offset.
OffcodeStaysValid(cblock) == cblock

\* What a dictionary has codes for are the offsets of the first block.
OffcodeToCheck(cblock) ==
  IF code = "of" /\ cblock.mode = "valid" THEN [cblock EXCEPT !.mode = "check"] ELSE cblock

\* Blocks of dst: how the code goes into the header and the table that encoded it, what the
\* sequences hold and what they mean.
Compressed(store, sent, table, meant) ==
  [kind |-> "compressed", store |-> store, sent |-> sent, table |-> table, meant |-> meant]
Raw == [kind |-> "raw"]
Rle == [kind |-> "rle"]
-----------------------------------------------------------------------------
EmptyStore == [sequences |-> <<>>, longLengthType |-> "none", longLengthPos |-> 0, lastLiterals |-> {}]

\* The codes that the offsets of a dictionary and of one block can have.
FirstBlockOffCodes == 0 .. 2

\* A frame begins with a reset of the block state, or with the tables of a dictionary on both
\* sides: good for every symbol, or to be checked.
AllSymbols == CASE code = "huf" -> {"a", "b"} [] code = "ll" -> {0, 1} [] code = "of" -> FirstBlockOffCodes
SomeSymbols == CASE code = "huf" -> {"a"} [] code = "ll" -> {1} [] code = "of" -> {0, 2}
ResetState == [rep |-> repStartValue, mode |-> "none", table |-> NoTable]
DictState(mode) ==
  [rep |-> <<4, 1, 2>>, mode |-> mode,
   table |-> [symbols |-> IF mode = "valid" THEN AllSymbols ELSE SomeSymbols, parity |-> 1]]

Init ==
  /\ code \in {"huf", "ll", "of"} /\ strategy \in {"fast", "lazy", "btopt"}
  /\ prev \in {ResetState, DictState("valid"), DictState("check")}
  /\ dctx = [rep |-> prev.rep, table |-> prev.table, entropy |-> prev.mode # "none"]
  /\ nbBlocks = 0 /\ pc = "idle" /\ out = <<>>
  /\ next = <<>> /\ seqStore = EmptyStore /\ partitions = <<>> /\ sp = 0 /\ reps = <<>>

unbuilt == <<next, seqStore, partitions, sp, reps>>

\* What a match finder makes of a block, from the repeated offsets of prev. Only the optimal
\* parser looks for the second and the third repcode, and only it keeps the third offset.
IsOutput(store) ==
  /\ \A i \in 1 .. NbSeq(store) :
       /\ store.sequences[i].offBase \in {2, 3} => strategy = "btopt"
       /\ Meant(prev.rep, store)[i][2] > 0
  /\ nbBlocks = 0 /\ prev.mode = "valid" /\ code = "of" => SymbolsOf(store) \subseteq FirstBlockOffCodes
RepOfMatchFinder(store) ==
  LET rep == Histories(prev.rep, store)[NbSeq(store)]
  IN  IF strategy = "btopt" THEN rep ELSE <<rep[1], rep[2], prev.rep[3]>>

\* The block is in dst; cblock is the prevCBlock of the next one.
Sent(blocks, cblock) ==
  /\ out' = blocks /\ prev' = OffcodeToCheck(cblock) /\ pc' = "sent"
  /\ nbBlocks' = nbBlocks + 1 /\ UNCHANGED <<code, strategy, dctx>>

Begins == pc = "idle" /\ nbBlocks < MaxBlocks

\* Too small to try, not worth it, or one byte repeated.
SendUncompressed ==
  /\ Begins /\ UNCHANGED unbuilt
  /\ \/ Sent(<<Raw>>, prev)
     \/ nbBlocks > 0 /\ Sent(<<Rle>>, prev)

\* ZSTD_compressBlock_internal, and ZSTD_compressBlock_splitBlock_internal without splits.
SendCompressed ==
  /\ Begins /\ UNCHANGED unbuilt
  /\ \E store \in Stores : IsOutput(store) /\
     \E outcome \in entropyCompressSeqStore(store, Kept("none")) :
       Sent(<<Compressed(store, outcome.type, outcome.table, Meant(prev.rep, store))>>,
            CBlock(outcome, RepOfMatchFinder(store)))

\* ZSTD_deriveBlockSplits: halves, as long as an estimate finds them smaller.
Splits(nbSeq) ==
  LET splits[startIdx \in 0 .. nbSeq, endIdx \in 0 .. nbSeq] ==
        {<<>>} \cup
        (IF endIdx - startIdx < MinSequencesBlockSplitting THEN {}
         ELSE LET midIdx == (startIdx + endIdx) \div 2
              IN  {first \o <<midIdx>> \o second :
                     first \in splits[startIdx, midIdx], second \in splits[midIdx, endIdx]})
  IN  splits[0, nbSeq] \ {<<>>}

BeginSplit ==
  /\ Begins /\ strategy = "btopt"
  /\ \E store \in Stores : IsOutput(store) /\
       /\ partitions' \in {locations \o <<NbSeq(store)>> : locations \in Splits(NbSeq(store))}
       /\ seqStore' = store /\ next' = [meant |-> Meant(prev.rep, store)]
  /\ pc' = "split" /\ sp' = 0 /\ reps' = [d |-> prev.rep, c |-> prev.rep]
  /\ UNCHANGED <<code, strategy, nbBlocks, prev, out, dctx>>

\* ZSTD_compressSeqStore_singleBlock for a partition: dRep moves only when the partition is
\* sent compressed, and is the history of the next block in the end.
SendPartition ==
  /\ pc = "split"
  /\ LET endIdx   == partitions[1]
         chunk    == deriveSeqStoreChunk(seqStore, sp, endIdx)
         resolved == resolveOffCodes(reps.d, reps.c, chunk)
         store    == WithOffBases(chunk, resolved.offBases)
         Emit(block, cblock, rep) ==
           /\ reps' = [d |-> rep, c |-> resolved.c] /\ sp' = endIdx
           /\ IF Len(partitions) > 1
              THEN /\ out' = Append(out, block) /\ prev' = OffcodeToCheck(cblock)
                   /\ partitions' = Tail(partitions)
                   /\ UNCHANGED <<code, strategy, nbBlocks, next, seqStore, pc, dctx>>
              ELSE /\ Sent(Append(out, block), [cblock EXCEPT !.rep = rep])
                   /\ partitions' = <<>> /\ UNCHANGED <<next, seqStore>>
     IN  \/ Emit(Raw, prev, reps.d)
         \/ nbBlocks > 0 /\ Emit(Rle, prev, reps.d)
         \/ \E outcome \in entropyCompressSeqStore(store, Kept("none")) :
              Emit(Compressed(store, outcome.type, outcome.table, SubSeq(next.meant, sp + 1, endIdx)),
                   CBlock(outcome, prev.rep), resolved.d)

\* ZSTD_compressSuperBlock: the tables are made for the whole block, and go into the first
\* sub-block that can use them; the sub-blocks after it repeat them.
BeginSuperBlock ==
  /\ Begins
  /\ \E store \in Stores : IsOutput(store) /\
     \E outcome \in buildBlockEntropyStats(store) :
       /\ seqStore' = store
       /\ next' = [meant |-> Meant(prev.rep, store), outcome |-> outcome,
                   rep |-> RepOfMatchFinder(store),
                   writeEntropy |-> code = "huf" => outcome.type = "compressed"]
  /\ pc' = "multi" /\ sp' = 0 /\ out' = <<>>
  /\ UNCHANGED <<code, strategy, nbBlocks, prev, partitions, reps, dctx>>

\* How the code can go into the header of a sub-block.
SentInSubBlock(chunk) ==
  IF code # "huf" THEN {IF chunk.sequences = <<>> THEN "none"
                        ELSE IF next.writeEntropy THEN next.outcome.type ELSE "repeat"}
  ELSE IF SymbolsOf(chunk) = {} \/ next.outcome.type = "basic" THEN {"basic"}
  ELSE IF next.outcome.type = "rle" THEN {"rle"}
  ELSE {"basic", IF next.writeEntropy THEN next.outcome.type ELSE "repeat"}
EntropyWritten(sent) == IF code = "huf" THEN sent \in {"compressed", "repeat"} ELSE sent # "none"

SubBlock(endIdx, sent) ==
  Compressed(deriveSeqStoreChunk(seqStore, sp, endIdx), sent, next.outcome.table,
             SubSeq(next.meant, sp + 1, endIdx))

\* A sub-block that gains; what does not is tried again with more sequences.
SendSubBlock ==
  /\ pc = "multi"
  /\ \E endIdx \in sp + 1 .. NbSeq(seqStore) - 1 :
     \E sent \in SentInSubBlock(deriveSeqStoreChunk(seqStore, sp, endIdx)) :
       /\ out' = Append(out, SubBlock(endIdx, sent)) /\ sp' = endIdx
       /\ next' = [next EXCEPT !.writeEntropy = @ /\ ~EntropyWritten(sent)]
  /\ UNCHANGED <<code, strategy, nbBlocks, prev, seqStore, pc, partitions, reps, dctx>>

\* Not the code: the history counts the sequences that the raw rest replaced.
RepOfSubBlocksAll(rest) == next.rep

\* The history of what was sent, when the rest goes out raw.
RepOfSubBlocks(rest) ==
  IF rest = "raw" /\ sp < NbSeq(seqStore) THEN Histories(prev.rep, seqStore)[sp] ELSE next.rep

\* A table that was never written is not one to be repeated.
NextOfSubBlocks(written, rep) ==
  IF code = "huf" /\ next.writeEntropy /\ ~written THEN [prev EXCEPT !.rep = rep]
  ELSE CBlock(next.outcome, rep)

\* The last sub-block, or a raw rest; all of it raw when tables were not written or when
\* nothing is gained.
SendLastSubBlock ==
  /\ pc = "multi"
  /\ LET whole == NbSeq(seqStore)
     IN  \/ Sent(<<Raw>>, prev)
         \/ \E sent \in SentInSubBlock(deriveSeqStoreChunk(seqStore, sp, whole)) :
              /\ code # "huf" /\ next.writeEntropy /\ ~EntropyWritten(sent)
                   => next.outcome.type \notin {"compressed", "rle"}
              /\ Sent(Append(out, SubBlock(whole, sent)),
                      NextOfSubBlocks(EntropyWritten(sent), RepOfSubBlocks("compressed")))
         \/ out # <<>> /\ Sent(Append(out, Raw), NextOfSubBlocks(FALSE, RepOfSubBlocks("raw")))
  /\ UNCHANGED unbuilt

\* The decoder ----------------------------------------------------------------

\* The table that the decoder uses for a block: ZSTD_buildSeqTable and ZSTD_decodeLiteralsBlock.
TableRead(block) ==
  CASE block.sent = "compressed" -> block.table
    [] block.sent = "rle" /\ code # "huf" -> RleTable(CHOOSE s \in SymbolsOf(block.store) : TRUE)
    [] block.sent = "basic" /\ code # "huf" -> DefaultTable
    [] OTHER -> dctx.table

\* The decoder's histories of the sequences of a block.
HistoriesRead(rep, store) ==
  LET after[i \in 0 .. NbSeq(store)] ==
        IF i = 0 THEN rep
        ELSE decodeSequence(after[i - 1], store.sequences[i].offBase, Bit(LitLength(store, i) = 0))
  IN  after

Decode ==
  /\ pc = "sent"
  /\ LET block == out[1]
     IN  dctx' = IF block.kind # "compressed" THEN dctx
                 ELSE [rep     |-> HistoriesRead(dctx.rep, block.store)[NbSeq(block.store)],
                       table   |-> TableRead(block),
                       entropy |-> dctx.entropy \/ EntropyWritten(block.sent)]
  /\ IF Len(out) > 1 THEN out' = Tail(out) /\ UNCHANGED <<pc, unbuilt>>
     ELSE /\ out' = <<>> /\ pc' = "idle" /\ next' = <<>> /\ seqStore' = EmptyStore
          /\ partitions' = <<>> /\ sp' = 0 /\ reps' = <<>>
  /\ UNCHANGED <<code, strategy, nbBlocks, prev>>

Next ==
  \/ SendUncompressed \/ SendCompressed
  \/ BeginSplit \/ SendPartition
  \/ BeginSuperBlock \/ SendSubBlock \/ SendLastSubBlock
  \/ Decode

Spec == Init /\ [][Next]_vars
-----------------------------------------------------------------------------
Incoming == pc = "sent" /\ out[1].kind = "compressed"

(* The decoder reads every block with the table that it was written with,    *)
(* which it has, and which has all the symbols of the block: across raw and  *)
(* RLE blocks, partitions that fell back, sub-blocks, and dictionaries.      *)
TablesAgree ==
  Incoming /\ (IF code = "huf" THEN out[1].sent \notin {"basic", "rle"} ELSE out[1].sent # "none") =>
    /\ out[1].sent = "repeat" => dctx.entropy
    /\ TableRead(out[1]) = out[1].table
    /\ SymbolsOf(out[1].store) \subseteq out[1].table.symbols

(* The decoder finds the offsets and the literals that the match finder      *)
(* meant, whatever became of the blocks and the partitions before.           *)
SequencesAgree ==
  Incoming =>
    LET store == out[1].store
        after == HistoriesRead(dctx.rep, store)
    IN  out[1].meant = [i \in 1 .. NbSeq(store) |->
                          <<LitLength(store, i),
                            IF store.sequences[i].offBase > 3 THEN store.sequences[i].offBase - 3
                            ELSE after[i][1]>>]

(* Between two blocks the compressor counts on the history that the decoder  *)
(* has; the third offset only where the match finder uses it.                *)
HistoriesAgree ==
  pc = "idle" => \A r \in 1 .. (IF strategy = "btopt" THEN 3 ELSE 2) : prev.rep[r] = dctx.rep[r]
=============================================================================

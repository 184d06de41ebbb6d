------------------------------ MODULE MCCodecs ------------------------------
(***************************************************************************)
(* The parts of libzstd that say what the bytes of a frame are, checked    *)
(* side by side: part says which one a behaviour is of, and the registers  *)
(* v1, ... are its variables in the order in which its module declares them.*)
(***************************************************************************)
EXTENDS Integers, Sequences, TLC

VARIABLES part, v1, v2, v3, v4, v5, v6, v7, v8, v9, v10, v11, v12

vars == <<part, v1, v2, v3, v4, v5, v6, v7, v8, v9, v10, v11, v12>>

\* Texts of frames, on a scale where a byte of a number has 8 values, windows have 8
\* to 32 bytes and blocks up to 16.
Raw(n)           == [blockType |-> 0, csize |-> n, size |-> n]
Rle(n)           == [blockType |-> 1, csize |-> 1, size |-> n]
Compressed(c, n) == [blockType |-> 2, csize |-> c, size |-> n]

SkippableFrame(n) == [skippable |-> TRUE, content |-> n]
ZstdFrame(checksum, contentSize, id, blocks) ==
  [skippable |-> FALSE, dictID |-> id, blocks |-> blocks,
   params |-> [checksumFlag |-> checksum, contentSizeFlag |-> contentSize, noDictIDFlag |-> FALSE,
               windowLog |-> 4, format |-> "zstd1"]]

MCTextFrames ==
  {SkippableFrame(0), SkippableFrame(5),
   ZstdFrame(TRUE, FALSE, 0, <<Compressed(2, 15), Raw(0)>>),
   ZstdFrame(FALSE, TRUE, 5, <<Rle(16), Raw(3)>>),
   ZstdFrame(TRUE, TRUE, 0, <<Raw(1), Compressed(2, 12)>>),
   ZstdFrame(FALSE, FALSE, 0, <<Raw(0)>>),
   ZstdFrame(FALSE, FALSE, 0,
             <<Compressed(11, 12), Raw(1), Raw(1), Raw(1), Raw(1)>>)}

Frames == INSTANCE Frames WITH
  Base <- 8, WindowLogMin <- 3, WindowLogMax <- 5, BlockSizeLimit <- 16,
  TextFrames <- MCTextFrames, MaxFrames <- 2, Capacities <- {0, 15, 40}, Gaps <- {0, 1, 14, 27},
  DictIDs <- {0, 5}, Sizes <- {0, 1, 7, 8, 16, 17, 63, 64, 71, 72, 73, 4094, 4095, 4096},
  frames <- v1, text <- v2, inPlace <- v3, start <- v4, mem <- v5, cap <- v6, dictID <- v7, pc <- v8,
  ip <- v9, op <- v10, header <- v11, begun <- v12

\* A window of 2 bytes, over four addresses, and dictionaries for which the indexes that are left
\* do not always suffice, nor do all of them but for a new start.
Window == INSTANCE MatchWindow WITH
  Addresses <- 0 .. 3, DictAddress <- 20, Nowhere <- -100, ChunkSizes <- {1, 3}, DictSizes <- {3, 4},
  maxDist <- 2, cycleSize <- 2, blockSizeMax <- 2, CURRENT_MAX <- 13, ResetMargin <- 2,
  CHUNKSIZE_MAX <- 3, CDictMax <- 3, IndexableMax <- 2, HASH_READ_SIZE <- 1,
  memory <- v1, window <- v2, table <- v3, nextToUpdate <- v4, loadedDictEnd <- v5, attached <- v6,
  separate <- v7, dictEnd <- v8, pc <- v9, ip <- v10, remaining <- v11, block <- v12

\* Dictionaries of which only the end gets indexes.
LargeDictionaries == INSTANCE MatchWindow WITH
  Addresses <- 0 .. 6, DictAddress <- 20, Nowhere <- -100, ChunkSizes <- {3}, DictSizes <- {8},
  maxDist <- 2, cycleSize <- 2, blockSizeMax <- 2, CURRENT_MAX <- 9, ResetMargin <- 2,
  CHUNKSIZE_MAX <- 2, CDictMax <- 2, IndexableMax <- 4, HASH_READ_SIZE <- 1,
  memory <- v1, window <- v2, table <- v3, nextToUpdate <- v4, loadedDictEnd <- v5, attached <- v6,
  separate <- v7, dictEnd <- v8, pc <- v9, ip <- v10, remaining <- v11, block <- v12

\* Blocks of up to three sequences, some of them with long literals (65536 is 4), offsets
\* up to 14, and codes of offsets up to 3 in the default table.
S(litLength, symbol, offBase) == [litLength |-> litLength, symbol |-> symbol, offBase |-> offBase]
Store(sequences, long, last) ==
  [sequences |-> sequences, longLengthType |-> IF long = 0 THEN "none" ELSE "literalLength",
   longLengthPos |-> long, lastLiterals |-> last]

MCStores ==
  {Store(<<>>, 0, {"a", "b"}), Store(<<>>, 0, {"b"}),
   Store(<<S(1, "a", 17), S(0, "b", 1)>>, 0, {}),
   Store(<<S(0, "a", 1)>>, 1, {"b"}),
   Store(<<S(0, "a", 1), S(1, "b", 8)>>, 0, {}),
   Store(<<S(1, "a", 2), S(0, "a", 1), S(1, "a", 1)>>, 0, {}),
   Store(<<S(0, "a", 3), S(1, "a", 1), S(0, "b", 2)>>, 3, {}),
   Store(<<S(1, "b", 3), S(0, "a", 3)>>, 0, {"b"}),
   Store(<<S(1, "a", 1), S(1, "a", 1), S(1, "b", 1)>>, 0, {}),
   Store(<<S(1, "a", 5), S(0, "a", 1), S(0, "a", 1)>>, 2, {"a"})}

Blocks == INSTANCE BlockCoding WITH
  Stores <- MCStores, MaxBlocks <- 2, DefaultMaxOff <- 3, LongLength <- 4,
  MinSequencesBlockSplitting <- 2, StaticFseNbSeqMax <- 3,
  code <- v1, strategy <- v2, nbBlocks <- v3, prev <- v4, next <- v5, seqStore <- v6, pc <- v7,
  partitions <- v8, sp <- v9, reps <- v10, out <- v11, dctx <- v12

\* Chunks of 2 and 4 bytes, blocks of 24, of which 10 literals fit the extra buffer.
C(litLength, matchLength, offset) ==
  [litLength |-> litLength, matchLength |-> matchLength, offset |-> offset]

MCSequenceLists ==
  {<<>>, <<C(1, 5, 0)>>, <<C(5, 2, 3), C(9, 3, 0)>>, <<C(1, 3, 0), C(0, 6, 1), C(3, 3, 0)>>,
   <<C(13, 5, 9)>>, <<C(3, 9, 2), C(4, 3, 7)>>}

Decoder == INSTANCE BlockDecoder WITH
  COPY <- 2, WILDCOPY_VECLEN <- 4, LITBUFFEREXTRASIZE <- 10, BlockSizeMax <- 24, WindowSize <- 24,
  DictSize <- 5, STORED_SEQS <- 2, Capacities <- {30, 90}, ContentSizes <- {40},
  RawSizes <- {15, 24}, SequenceLists <- MCSequenceLists, LitSizes <- {9, 12, 19}, MaxBlocks <- 5,
  mem <- v1, dctx <- v2, streaming <- v3, outSize <- v4, outStart <- v5, hist <- v6, block <- v7,
  lit <- v8, op <- v9, stored <- v10, nbBlocks <- v11, pc <- v12

\* Texts of two letters: a word that repeats, with other letters here and there; one in
\* which a search with long steps comes by a short match.
Repeated(word, n, others) ==
  [i \in 1 .. n |-> LET c == word[((i - 1) % Len(word)) + 1] IN IF i \in others THEN 1 - c ELSE c]

TextsWith(n, others) ==
  {Repeated(w, n, f) :
     w \in {<<0>>, <<0, 1>>, <<0, 0, 1, 0, 1>>, <<0, 1, 1, 0, 0, 0, 1>>, <<0, 0, 0, 1, 0, 1, 1, 1, 0, 0, 1>>},
     f \in others}

MCTexts(n) == TextsWith(n, {{}, {20}, {9, 25}, {3, 17, 21}, {14, 15, 26}, {5, 11, 18, 19, 24, 30}})

LongSteps == <<0, 0, 0, 0, 1, 0, 1, 0, 0, 1, 0, 0, 1, 0, 1, 0, 0, 0, 1, 0, 1, 0, 0, 1, 0, 1, 1, 0>>

HashOfFour(s)  == (s[1] + 2 * s[2] + s[3] + 3 * s[4]) % 4
HashOfEight(s) == (s[1] + 2 * s[2] + s[3] + 3 * s[4] + s[7] + s[8]) % 4
TagOfSome(s)   == (s[1] + s[3]) % 2

FastParser == INSTANCE FastParser WITH
  Texts <- MCTexts(38), Cuts <- {16, 17}, TargetLengths <- {0, 5}, Windows <- {8, 16}, Junk <- {0, 1},
  kStepIncr <- 4, Hash <- HashOfFour, Tag <- TagOfSome,
  text <- v1, how <- v2, window <- v3, junk <- v4, hashTable <- v5, dictTable <- v6,
  targetLength <- v7, rep <- v8, block <- v9, p <- v10, seqStore <- v11, pc <- v12

DoubleFastParser == INSTANCE DoubleFastParser WITH
  Texts <- MCTexts(48) \cup {Repeated(LongSteps, 48, {})}, Cuts <- {17, 28}, Windows <- {8, 32},
  Junk <- {0, 1}, kStepIncr <- 1,
  HashLong <- HashOfEight, HashShort <- HashOfFour, Tag <- TagOfSome,
  text <- v1, how <- v2, window <- v3, junk <- v4, hashTable <- v5, dictTable <- v6,
  rep <- v7, block <- v8, p <- v9, seqStore <- v10, pc <- v11

\* Trees and chains of 8 positions, rows of 3 entries and a cache of 2 hashes.
LazyParser == INSTANCE LazyParser WITH
  Texts <- MCTexts(40) \cup {Repeated(LongSteps, 40, {})}, Cuts <- {17, 24}, Windows <- {8, 32}, Junk <- {0},
  TreeSize <- 8, nbCompares <- 4, LongMatch <- 12, MostOfLong <- 4, mls <- 4, Hash <- HashOfFour,
  ChainSize <- 8, rowEntries <- 4, HASH_CACHE_SIZE <- 2, kSkipThreshold <- 6, MatchStartPositions <- 2,
  MatchEndPositions <- 3, DictChainSize <- 2, cacheSize <- 1, TmpChainSize <- 4, RowTag <- TagOfSome,
  kSearchStrength <- 4, kLazySkippingStep <- 1,
  text <- v1, how <- v2, window <- v3, junk <- v4, hashTable <- v5, dictTable <- v6,
  rep <- v7, block <- v8, p <- v9, seqStore <- v10, pc <- v11, strategy <- v12

\* Series of 12 positions, and the codes of lengths up to those of the texts.
HashOfThree(s)     == (s[1] + 2 * s[2] + s[3]) % 4
NbBitsOf(table, x) == 1 + (x % 4)

OptParser == INSTANCE OptParser WITH
  Texts <- TextsWith(40, {{9, 25}, {14, 15, 26}}), Cuts <- {17, 24}, Windows <- {8, 32}, Junk <- {0},
  TreeSize <- 8, nbCompares <- 4, LongMatch <- 12, MostOfLong <- 4, mls <- 3, Hash <- HashOfThree,
  Hash3 <- HashOfThree, MaxDist3 <- 12, ZSTD_OPT_NUM <- 12, TargetLengths <- {6, 20},
  LdmOffsets <- {5, 7}, LdmMinMatch <- 4, DictOptions <- BOOLEAN, Alphabet <- {0, 1}, MaxLL <- 35, MaxML <- 52,
  MaxOff <- 6, LogTarget <- 5, ZSTD_BLOCKSIZE_MAX <- 24, NbBits <- NbBitsOf,
  text <- v1, how <- v2, window <- v3, junk <- v4, hashTable <- v5, dictTable <- v6,
  rep <- v7, block <- v8, p <- v9, seqStore <- v10, pc <- v11, strategy <- v12

\* Literals, some of them frequent; sequences whose fields go round.
Letters(n, m) == [i \in 1 .. n |-> ((i * i) + (i \div 7)) % m]
Around(n, lits, matches, offs) ==
  [i \in 1 .. n |-> [litLength |-> lits[((i - 1) % Len(lits)) + 1], mlBase |-> matches[((i * i) % Len(matches)) + 1],
                     offBase |-> offs[((i + (i \div 5)) % Len(offs)) + 1]]]

Varied(n)      == Around(n, <<0, 1, 2, 0, 17, 1, 3>>, <<0, 1, 5, 34, 2, 70, 3, 1>>, <<4, 1, 90, 7, 2, 3, 1500, 17, 6>>)
Dense(n)       == Around(n, <<0, 1, 0, 0, 2, 0, 1>>, <<0, 1, 5, 1, 2, 40, 3, 1>>, <<4, 1, 9, 1, 2, 3, 1, 17, 6>>)
Far(n, offset) == Around(n, <<1, 2, 0, 40>>, <<1, 5, 70000, 3, 0>>, <<offset, 4, offset + 77, 12345, offset \div 2>>)
Alike(n, last) == Around(n, [i \in 1 .. n |-> IF i = n THEN last ELSE 0], <<4>>, <<1>>)

LiteralsIn(sequences) ==
  LET sum[i \in 0 .. Len(sequences)] == IF i = 0 THEN 0 ELSE sum[i - 1] + sequences[i].litLength IN sum[Len(sequences)]

BlockOf(literals, sequences) == [literals |-> literals, sequences |-> sequences]
BlockWith(sequences, m, more) == BlockOf(Letters(LiteralsIn(sequences) + more, m), sequences)

Blocked(reg, strategy, capacity, blocks) ==
  [reg |-> reg, strategy |-> strategy, capacity |-> capacity, literalsDisabled |-> FALSE, longHistory |-> FALSE,
   dict |-> <<>>, blocks |-> blocks]

TrainedDict ==
  [literals |-> [s \in 0 .. 255 |-> IF s < 20 THEN 20 - s ELSE 1],
   counts |-> [LL |-> [s \in 0 .. 35 |-> IF s < 4 THEN 9 ELSE 1], OF |-> [s \in 0 .. 17 |-> IF s = 5 THEN 9 ELSE 1],
               ML |-> [s \in 0 .. 52 |-> IF s < 6 THEN 7 ELSE 1]],
   rep |-> <<1, 4, 8>>, contentSize |-> 900]
OtherDict ==
  [literals |-> [s \in 0 .. 20 |-> CASE s = 3 -> 0 [] s # 3 /\ s < 12 -> 2 ^ s [] OTHER -> 1],
   counts |-> [LL |-> [s \in 0 .. 12 |-> IF s < 4 THEN 9 ELSE s % 2],
               OF |-> [s \in 0 .. 9 |-> IF s = 5 THEN 9 ELSE 2 * (s % 3)],
               ML |-> [s \in 0 .. 40 |-> IF s < 6 THEN 7 ELSE s % 2]],
   rep |-> <<7, 2, 9>>, contentSize |-> 900]

\* Registers of 4 and 8 bytes; room for all, or nearly; offsets of 26 to 29 bits.
MCScenarios ==
  {Blocked(reg, strategy, 2000, blocks) : reg \in {4, 8}, strategy \in {1, 4}, blocks \in
     {<<BlockWith(Varied(90), 11, 3), BlockWith(Varied(60), 11, 0), BlockWith(Varied(4), 7, 9)>>,
      <<BlockWith(Varied(1), 3, 300), BlockWith(Varied(2), 3, 280), BlockOf(Letters(60, 3), <<>>)>>}}
  \cup {Blocked(8, strategy, 2000, <<BlockWith(Varied(40), 11, 3), BlockWith(Varied(40), 11, 0)>>) : strategy \in {6, 8}}
  \cup {Blocked(8, 4, capacity, <<BlockWith(Dense(40), 5, 3), BlockWith(Dense(90), 11, 0)>>) :
          capacity \in {12, 30, 52, 64, 80, 110, 140, 400}}
  \cup {Blocked(8, strategy, 1000, <<BlockWith(Alike(n, 1), 3, 20), BlockWith(Alike(n, 0), 11, 0)>>) :
          n \in {8, 9}, strategy \in {4, 7}}
  \cup {[Blocked(4, 6, 2000, <<BlockWith(Far(40, far), 11, 3), BlockWith(Far(10, 2 ^ 25 + 300), 11, 30)>>)
           EXCEPT !.longHistory = far > 2 ^ 26] : far \in {2 ^ 25 + 300, 2 ^ 27 + 300, 2 ^ 29 + 5}}
  \cup {[Blocked(reg, strategy, 2000, <<BlockWith(Varied(30), 11, 3), BlockWith(Varied(60), 11, 0)>>) EXCEPT !.dict = <<d>>] :
          reg \in {4, 8}, strategy \in {1, 4}, d \in {TrainedDict, OtherDict}}
  \cup {[Blocked(4, 3, 2000, <<BlockWith(Varied(40), 11, 3)>>) EXCEPT !.literalsDisabled = TRUE],
        Blocked(8, 3, 4000, <<BlockOf(Letters(1100, 3), <<>>)>>)}

Entropy == INSTANCE EntropyCoding WITH
  Precision <- 30, SAMPLE_SIZE <- 4, TimeUnit <- 8, Scenarios <- MCScenarios, STATIC_FSE_MAX <- 50, LOW_PROB_FROM <- 64,
  how <- v1, turn <- v2, pc <- v3, prev <- v4, next <- v5, text <- v6, head <- v7, dctx <- v8, ip <- v9,
  got <- v10, sound <- v11

\* Alignment to 4 bytes. Tables and buffers take turns at being large; a workspace of which
\* less than half would be enough is too large.
R(tables, tag, opt, ofSequences, buffers) ==
  [tables |-> tables, tag |-> tag, opt |-> opt, aligned |-> ofSequences, buffers |-> buffers]

MCRequests ==
  {R(<<4, 8, 4>>, 0, <<1, 1>>, <<2, 1>>, <<1, 1>>), R(<<4, 0, 0>>, 0, <<>>, <<1>>, <<20, 5>>),
   R(<<8, 0, 0>>, 5, <<>>, <<1>>, <<3>>), R(<<4, 0, 0>>, 1, <<>>, <<2>>, <<1>>)}

MCCDictRequests == {R(<<4, 4, 0>>, 0, <<>>, <<>>, <<>>), R(<<4, 0, 0>>, 3, <<>>, <<>>, <<>>)}

Workspace == INSTANCE CWorkspace WITH
  ALIGNMENT_BYTES <- 4, PointerSize <- 2, TOOLARGE_FACTOR <- 1, TOOLARGE_MAXDURATION <- 1,
  Starts <- {8, 10}, Objects <- <<2, 2>>, CDictObjects <- <<4, 2>>,
  Requests <- MCRequests, CDictRequests <- MCCDictRequests,
  holder <- v1, ws <- v2, mem <- v3, made <- v4, ready <- v5

ASSUME CodecsAssumption ==
  /\ Frames!FramesAssumption /\ Window!WindowAssumption /\ LargeDictionaries!WindowAssumption
  /\ Decoder!BlockDecoderAssumption /\ Workspace!CWorkspaceAssumption

unused     == <<v6, v7, v8, v9, v10, v11, v12>>
UnusedAre0 == v6 = 0 /\ v7 = 0 /\ v8 = 0 /\ v9 = 0 /\ v10 = 0 /\ v11 = 0 /\ v12 = 0

Is(name) == part = name /\ UNCHANGED part

Init ==
  \/ part = "frames" /\ Frames!Init
  \/ part = "window" /\ Window!Init
  \/ part = "large_dictionaries" /\ LargeDictionaries!Init
  \/ part = "blocks" /\ Blocks!Init
  \/ part = "decoder" /\ Decoder!Init
  \/ part = "fast" /\ FastParser!Init
  \/ part = "double_fast" /\ DoubleFastParser!Init /\ v12 = 0
  \/ part = "lazy" /\ LazyParser!Init
  \/ part = "opt" /\ OptParser!Init
  \/ part = "entropy" /\ Entropy!Init /\ v12 = 0
  \/ part = "workspace" /\ Workspace!Init /\ UnusedAre0

Next ==
  \/ Is("frames") /\ Frames!Next
  \/ Is("window") /\ Window!Next
  \/ Is("large_dictionaries") /\ LargeDictionaries!Next
  \/ Is("blocks") /\ Blocks!Next
  \/ Is("decoder") /\ Decoder!Next
  \/ Is("fast") /\ FastParser!Next
  \/ Is("double_fast") /\ DoubleFastParser!Next /\ UNCHANGED v12
  \/ Is("lazy") /\ LazyParser!Next
  \/ Is("opt") /\ OptParser!Next
  \/ Is("entropy") /\ Entropy!Next /\ UNCHANGED v12
  \/ Is("workspace") /\ Workspace!Next /\ UNCHANGED unused

Spec == Init /\ [][Next]_vars
-----------------------------------------------------------------------------
\* The properties are stated and explained in the modules of the components.

(* What was written is what is read: the header of a frame, and a text of   *)
(* frames that is cut between them, and no other; the content of a block is *)
(* what its sequences mean.                                                 *)
RoundTrip ==
  /\ part = "frames" => Frames!WholeTextsOnly /\ Frames!HeadersAreRead
  /\ part = "decoder" => Decoder!BlocksRegenerate /\ Decoder!NoSpuriousError
  /\ part = "entropy" => Entropy!BlocksAreRead

(* A match is one of bytes that are there, and that the decoder still has;  *)
(* a table in which a match is looked for holds no index beyond its text.   *)
MatchesAreValid ==
  /\ part = "window" => Window!MatchesAreValid /\ Window!OffsetsInWindow
  /\ part = "large_dictionaries" => /\ LargeDictionaries!MatchesAreValid
                                   /\ LargeDictionaries!OffsetsInWindow
  /\ part = "fast" => FastParser!SequencesRegenerate
  /\ part = "double_fast" => DoubleFastParser!SequencesRegenerate
  /\ part = "lazy" => LazyParser!SequencesRegenerate /\ LazyParser!CacheIsCurrent /\ LazyParser!DictionaryFits
  /\ part = "opt" => OptParser!SequencesRegenerate
  /\ part = "workspace" => Workspace!TablesHoldIndexes

(* What one side keeps for later, the other side has too.                   *)
SidesAgree ==
  /\ part = "blocks" => Blocks!TablesAgree /\ Blocks!SequencesAgree /\ Blocks!HistoriesAgree
  /\ part = "fast" => FastParser!RepeatsAgree
  /\ part = "double_fast" => DoubleFastParser!RepeatsAgree
  /\ part = "lazy" => LazyParser!RepeatsAgree
  /\ part = "opt" => OptParser!HistoriesAgree
  /\ part = "entropy" => Entropy!KeptTablesAgree

(* Nothing is written over what is still to be read, and numbers stay in    *)
(* the range that they have room for; memory is reserved once, and not read *)
(* before it was written.                                                   *)
InBounds ==
  /\ part = "frames" => Frames!UnreadIntact
  /\ part = "window" => Window!IndexesInRange
  /\ part = "large_dictionaries" => LargeDictionaries!IndexesInRange
  /\ part = "decoder" => Decoder!OnlyOutputWritten
  /\ part = "opt" => OptParser!SeriesFits /\ OptParser!PricesArePositive /\ OptParser!SumsAreCurrent
  /\ part = "entropy" => Entropy!NothingLost
  /\ part = "workspace" => Workspace!InitOnceIsWritten /\ Workspace!LaidOutApart

(* The room that a function says is enough is enough.                       *)
BoundsSuffice ==
  /\ part = "frames" => Frames!MarginIsEnough /\ Frames!SizesAgree
  /\ part = "entropy" => Entropy!TablesAreWhole
  /\ part = "workspace" => Workspace!SpaceSuffices
=============================================================================

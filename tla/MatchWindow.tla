---------------------------- MODULE MatchWindow -----------------------------
(***************************************************************************)
(* The window of the match finders (compress/zstd_compress_internal.h) and *)
(* the functions of compress/zstd_compress.c that move it: indexes name    *)
(* bytes of the history, [dictLimit, ..) through base and [lowLimit,       *)
(* dictLimit) through dictBase, while the caller writes its input over     *)
(* older input wherever it likes.                                          *)
(*                                                                         *)
(* memory says of every address at which index the byte there is in the    *)
(* history of the context, now that indexes count as they do; 0 is a byte  *)
(* that no index will name again.  A match is right exactly when the byte  *)
(* that an index reaches is the byte that has this index.                  *)
(***************************************************************************)
EXTENDS Integers

CONSTANTS
  Addresses,       \* of input buffers
  DictAddress,     \* where the content of a CDict is, far from them
  Nowhere,         \* where the string literal is that ZSTD_window_init points to
  ChunkSizes, DictSizes,
  maxDist,         \* 1 << windowLog
  cycleSize,       \* 1 << cycleLog
  blockSizeMax,
  CURRENT_MAX,     \* ZSTD_CURRENT_MAX
  CHUNKSIZE_MAX,   \* ZSTD_CHUNKSIZE_MAX
  CDictMax,        \* as much of a dictionary as a CDict loads: less where its tables have tags
  IndexableMax,    \* 1 << MAX(hashLog + 3, chainLog + 1): as much as gets into the tables
  ResetMargin,     \* ZSTD_INDEXOVERFLOW_MARGIN
  HASH_READ_SIZE

START_INDEX == 2   \* ZSTD_WINDOW_START_INDEX

Greatest(a, b) == IF a > b THEN a ELSE b
Least(a, b) == IF a < b THEN a ELSE b

\* The furthest position after a correction of indexes.
CorrectedMax == START_INDEX + cycleSize + Greatest(maxDist, cycleSize)

\* Correction is to a position before the current one: of blocks, and of a dictionary in a
\* context with indexes up to the one where ZSTD_resetCCtx_internal starts over.
WindowAssumption ==
  /\ Addresses \subseteq Int /\ DictAddress \in Int /\ Nowhere \in Int
  /\ \A S \in {ChunkSizes, DictSizes} : S \subseteq Nat \ {0}
  /\ maxDist \in Nat /\ CURRENT_MAX \in Nat /\ ResetMargin \in Nat
  /\ cycleSize \in Nat \ {0} /\ HASH_READ_SIZE \in Nat
  /\ {blockSizeMax, CHUNKSIZE_MAX, CDictMax, IndexableMax} \subseteq Nat \ {0}
  /\ CorrectedMax + blockSizeMax < CURRENT_MAX /\ CorrectedMax + CHUNKSIZE_MAX < CURRENT_MAX

DictMemory == DictAddress .. DictAddress + CDictMax - 1
Memory == Addresses \cup DictMemory

VARIABLES
  memory,      \* see above
  window,      \* base, dictBase, lowLimit, dictLimit and nextSrc - base
  table,       \* the indexes in the hash and chain tables from lowLimit on, with those of their bytes
  nextToUpdate, loadedDictEnd,
  attached,    \* dictMatchState: the size of the attached content, or 0
  separate,    \* forceNonContiguous
  dictEnd,     \* the index of the first byte of this frame that is no dictionary
  pc, ip, remaining, block  \* frame chunk in progress, and the size of its block

vars == <<memory, window, table, nextToUpdate, loadedDictEnd, attached, separate, dictEnd,
          pc, ip, remaining, block>>

matchState == <<table, nextToUpdate, loadedDictEnd, attached, separate, dictEnd>>

Fresh == [base |-> Nowhere, dictBase |-> Nowhere, lowLimit |-> START_INDEX,
          dictLimit |-> START_INDEX, end |-> START_INDEX]   \* ZSTD_window_init

Cleared(w) == [w EXCEPT !.lowLimit = w.end, !.dictLimit = w.end]   \* ZSTD_window_clear

\* ZSTD_window_update -------------------------------------------------------

\* What was the prefix becomes the external dictionary.
NewSegment(w, src) ==
  [base |-> src - w.end, dictBase |-> w.base, dictLimit |-> w.end, end |-> w.end,
   lowLimit |-> IF w.end - w.dictLimit < HASH_READ_SIZE THEN w.end ELSE w.dictLimit]

\* Not the code: the input overlaps only if it begins within the dictionary.
OverlapsFromWithin(w, src, size) ==
  src \in w.dictBase + w.lowLimit .. w.dictBase + w.dictLimit - 1

Overlaps(w, src, size) ==
  src + size > w.dictBase + w.lowLimit /\ src < w.dictBase + w.dictLimit

Extended(w, src, size) ==
  LET v == [w EXCEPT !.end = src + size - w.base] IN
  IF Overlaps(v, src, size) THEN [v EXCEPT !.lowLimit = Least(src + size - v.dictBase, v.dictLimit)] ELSE v

IsContiguous(w, src, forceNonContiguous) == src = w.base + w.end /\ ~forceNonContiguous

Updated(w, src, size, forceNonContiguous) ==
  Extended(IF IsContiguous(w, src, forceNonContiguous) THEN w ELSE NewSegment(w, src), src, size)

\* The bytes of the input get the indexes from w.end on.
Written(mem, w, src, size) ==
  [a \in Memory |-> IF a \in src .. src + size - 1 THEN w.end + a - src ELSE mem[a]]

\* ZSTD_window_correctOverflow ----------------------------------------------

\* Not the code: the window shrinks to the cycle that the position is in.
CorrectionWithoutWindow(curr) == curr - (curr % cycleSize)

Correction(curr) ==
  LET currentCycle == curr % cycleSize
      newCurrent   == currentCycle
                      + (IF currentCycle < START_INDEX THEN Greatest(cycleSize, START_INDEX) ELSE 0)
                      + Greatest(maxDist, cycleSize)
  IN  curr - newCurrent

\* An index, a limit and the index of a byte, less the correction.
Reduced(index, correction) == IF index < correction + START_INDEX THEN 0 ELSE index - correction
Limited(limit, correction) ==
  IF limit < correction + START_INDEX THEN START_INDEX ELSE limit - correction

Corrected(w, correction) ==
  [base |-> w.base + correction, dictBase |-> w.dictBase + correction,
   lowLimit |-> Limited(w.lowLimit, correction), dictLimit |-> Limited(w.dictLimit, correction),
   end |-> w.end - correction]

\* Not the code: ZSTD_reduceIndex does not get to the chain table.
TableUnreduced(correction) == {<<e[1], Reduced(e[2], correction)>> : e \in table}

\* ZSTD_reduceIndex.
TableReduced(correction) == {<<Reduced(e[1], correction), Reduced(e[2], correction)>> : e \in table}

\* ZSTD_overflowCorrectIfNeeded, for the block of size bytes at src of window w.
NeedsCorrection(w, src, size) == src + size - w.base > CURRENT_MAX

CorrectIfNeeded(w, src, size) ==
  LET correction == IF NeedsCorrection(w, src, size) THEN Correction(src - w.base) ELSE 0
  IN  [correction |-> correction,
       window |-> IF correction = 0 THEN w ELSE Corrected(w, correction)]

Renumbered(mem, correction) == [a \in Memory |-> Reduced(mem[a], correction)]

\* What the limit has passed is of no account any more, nor is dictBase with nothing there.
Kept(w) == IF w.lowLimit = w.dictLimit THEN [w EXCEPT !.dictBase = Nowhere] ELSE w
Remembered(mem, w) == [a \in Memory |-> IF mem[a] < w.lowLimit THEN 0 ELSE mem[a]]
Live(entries, w) == {e \in entries : e[1] >= w.lowLimit}

\* The functions that call them ----------------------------------------------

Init ==
  /\ memory = [a \in Memory |-> 0]
  /\ window = Fresh
  /\ table = {}
  /\ nextToUpdate = START_INDEX /\ loadedDictEnd = 0 /\ attached = 0 /\ separate = FALSE
  /\ dictEnd = 0
  /\ pc = "idle" /\ ip = 0 /\ remaining = 0 /\ block = 0

Idle == pc = "idle" /\ UNCHANGED <<pc, ip, remaining, block>>

\* ZSTD_resetCCtx_internal and ZSTD_reset_matchState: indexes go on, unless the workspace is
\* a new one, or they are high, or a dictionary to be loaded needs them all; then the tables
\* are marked dirty, and cleaned.
IndexTooCloseToMax == window.end > CURRENT_MAX - ResetMargin
DictTooBig(loadedDictSize) == loadedDictSize > CHUNKSIZE_MAX
NeedsIndexReset(resized, loadedDictSize) ==
  resized \/ IndexTooCloseToMax \/ DictTooBig(loadedDictSize)

ResetWindow(indexReset) == Cleared(IF indexReset THEN Fresh ELSE window)
ResetTable(indexReset)  == IF indexReset THEN {} ELSE Live(table, ResetWindow(FALSE))
ResetMemory(indexReset) ==
  IF indexReset THEN [a \in Memory |-> 0] ELSE Remembered(memory, ResetWindow(FALSE))

BeginFrame(resized) ==
  LET indexReset == NeedsIndexReset(resized, 0)
      w == ResetWindow(indexReset)
  IN  /\ Idle
      /\ window' = Kept(w) /\ table' = ResetTable(indexReset) /\ memory' = ResetMemory(indexReset)
      /\ nextToUpdate' = w.dictLimit /\ loadedDictEnd' = 0 /\ attached' = 0
      /\ separate' = FALSE /\ dictEnd' = w.end

Inserted(from, to) == {<<i, i>> : i \in from .. to - 1}

\* ZSTD_loadDictionaryContent takes the end of a dictionary: what has indexes, and what of
\* that gets into the tables, if it is enough for them.
Loaded(size) == Least(size, CURRENT_MAX - START_INDEX)
Indexed(size) == Least(size, IndexableMax)
Insertable(size) == IF Indexed(size) > HASH_READ_SIZE THEN Indexed(size) ELSE 0

\* Insertion goes on behind the dictionary, or at what of it is not in the tables.
NextAfter(end, size) == end - (Indexed(size) - Insertable(size))

\* A frame with a dictionary or prefix of total bytes that ends at address last.
BeginWithDictionary(resized, last, total, forceWindow, deterministic) ==
  LET indexReset == NeedsIndexReset(resized, total)
      size == Loaded(total)
      src  == last - size + 1
      from == ResetWindow(indexReset)
      w    == Updated(from, src, size, FALSE)
      c    == IF Insertable(size) = 0 THEN [correction |-> 0, window |-> w]
              ELSE CorrectIfNeeded(w, src + size - Insertable(size), Insertable(size))
      end  == c.window.end
  IN  /\ Idle
      /\ \A a \in src .. last : a \in Addresses
      /\ window' = Kept(c.window)
      /\ memory' = Renumbered(Written(ResetMemory(indexReset), from, src, size), c.correction)
      /\ nextToUpdate' = NextAfter(end, size)
      /\ loadedDictEnd' = IF forceWindow \/ c.correction > 0 THEN 0 ELSE end
      /\ table' = {<<Reduced(e[1], c.correction), Reduced(e[2], c.correction)>> :
                      e \in ResetTable(indexReset)}
                    \cup Inserted(end - Insertable(size), end)
      /\ attached' = 0 /\ separate' = deterministic /\ dictEnd' = end

\* ZSTD_resetCCtx_byAttachingCDict: the content of the CDict ends where the input begins.
AttachCDict(resized, total) ==
  LET indexReset == NeedsIndexReset(resized, 0)
      size == Least(total, CDictMax)
      cdictEnd == START_INDEX + size
      from == ResetWindow(indexReset)
      w == IF from.dictLimit < cdictEnd THEN Cleared([from EXCEPT !.end = cdictEnd]) ELSE from
  IN  /\ Idle
      /\ window' = Kept(w)
      /\ memory' = ResetMemory(indexReset) /\ table' = ResetTable(indexReset)
      /\ nextToUpdate' = from.dictLimit
      /\ attached' = size /\ loadedDictEnd' = w.dictLimit
      /\ separate' = FALSE /\ dictEnd' = w.dictLimit

\* ZSTD_resetCCtx_byCopyingCDict: window and tables are those of the CDict.
CopyCDict(total) ==
  LET size == Least(total, CDictMax)
      end == START_INDEX + size
  IN  /\ Idle
      /\ window' = Kept(Updated(Fresh, DictAddress, size, FALSE))
      /\ memory' = [a \in Memory |-> IF a \in DictAddress .. DictAddress + size - 1
                                     THEN START_INDEX + a - DictAddress ELSE 0]
      /\ table' = Inserted(end - Insertable(size), end)
      /\ nextToUpdate' = NextAfter(end, size) /\ loadedDictEnd' = end
      /\ attached' = 0 /\ separate' = FALSE /\ dictEnd' = end

\* ZSTD_compressContinue_internal: the next piece of input.
Chunk(src, size) ==
  LET isContiguous == IsContiguous(window, src, separate) IN
  /\ pc = "idle"
  /\ \A a \in src .. src + size - 1 : a \in Addresses
  /\ memory' = Written(memory, window, src, size)
  /\ window' = Kept(Updated(window, src, size, separate))
  /\ separate' = (separate /\ isContiguous)
  /\ nextToUpdate' = IF isContiguous THEN nextToUpdate ELSE window'.dictLimit
  /\ pc' = "blocks" /\ ip' = src /\ remaining' = size /\ block' = 0
  /\ UNCHANGED <<table, loadedDictEnd, attached, dictEnd>>

\* Not the code: a dictionary is valid as long as the block begins near enough.
DictIsValidAtStart(w, start, size, loaded) ==
  start - w.base <= loaded + maxDist /\ loaded = w.dictLimit

\* ZSTD_checkDictValidity.
DictIsValid(w, start, size, loaded) ==
  start + size - w.base <= loaded + maxDist /\ loaded = w.dictLimit

\* Not the code: the limit of the prefix stays where it is.
LowLimitOnly(w, start) == [w EXCEPT !.lowLimit = Greatest(w.lowLimit, start - w.base - maxDist)]

\* ZSTD_window_enforceMaxDist, beyond the distance.
MaxDistEnforced(w, start) ==
  LET low == Greatest(w.lowLimit, start - w.base - maxDist)
  IN  [w EXCEPT !.lowLimit = low, !.dictLimit = Greatest(w.dictLimit, low)]

\* The start of a turn of the loop of ZSTD_compress_frameChunk, up to the block itself.
BeginBlock(size) ==
  LET c == CorrectIfNeeded(window, ip, size)
      loaded == IF c.correction = 0 THEN loadedDictEnd ELSE 0
      valid  == DictIsValid(c.window, ip, size, loaded)
      kept   == IF valid THEN loaded ELSE 0
      beyond == ip - c.window.base > maxDist + kept
      w      == IF beyond THEN MaxDistEnforced(c.window, ip) ELSE c.window
  IN  /\ pc = "blocks"
      /\ size <= remaining /\ size <= blockSizeMax
      /\ window' = Kept(w)
      /\ memory' = Remembered(Renumbered(memory, c.correction), w)
      /\ table' = Live(IF c.correction = 0 THEN table ELSE TableReduced(c.correction), w)
      /\ loadedDictEnd' = IF beyond THEN 0 ELSE kept
      /\ attached' = IF c.correction = 0 /\ valid /\ ~beyond THEN attached ELSE 0
      /\ nextToUpdate' = Greatest(w.lowLimit, IF nextToUpdate < c.correction THEN 0
                                              ELSE nextToUpdate - c.correction)
      /\ dictEnd' = Greatest(0, dictEnd - c.correction)
      /\ pc' = "compress" /\ block' = size
      /\ UNCHANGED <<separate, ip, remaining>>

\* A match finder puts the positions of the block into its tables, and those before
\* that it has not got to yet.
CompressBlock ==
  LET end == ip + block - window.base
  IN  /\ pc = "compress"
      /\ table' = table \cup Inserted(Least(nextToUpdate, ip - window.base), end)
      /\ nextToUpdate' \in {nextToUpdate, end}
      /\ ip' = ip + block /\ remaining' = remaining - block /\ block' = 0
      /\ pc' = IF remaining = block THEN "idle" ELSE "blocks"
      /\ UNCHANGED <<memory, window, loadedDictEnd, attached, separate, dictEnd>>

Next ==
  \/ \E resized \in BOOLEAN :
       \/ BeginFrame(resized)
       \/ \E last \in Addresses, total \in DictSizes, force, deterministic \in BOOLEAN :
            BeginWithDictionary(resized, last, total, force, deterministic)
       \/ \E total \in DictSizes : AttachCDict(resized, total)
  \/ \E total \in DictSizes : CopyCDict(total)
  \/ \E src \in Addresses, size \in ChunkSizes : Chunk(src, size)
  \/ \E size \in 1 .. blockSizeMax : BeginBlock(size)
  \/ CompressBlock

Spec == Init /\ [][Next]_vars
-----------------------------------------------------------------------------
\* The byte that the match finders reach with an index.
Reached(index) ==
  LET address == (IF index < window.dictLimit THEN window.dictBase ELSE window.base) + index
  IN  IF address \in Memory THEN memory[address] ELSE 0

(* While a block is compressed, every index from lowLimit on reaches the    *)
(* byte it was given to, and what the tables hold from there on are such    *)
(* indexes: neither the buffers that the caller reuses nor the reduction of *)
(* indexes can make a match of bytes that are no more in the history.       *)
MatchesAreValid ==
  pc = "compress" =>
    /\ \A index \in window.lowLimit .. ip + block - window.base - 1 : Reached(index) = index
    /\ \A e \in table : e[1] >= window.lowLimit => e[2] = e[1]

\* ZSTD_getLowestMatchIndex.
LowestMatchIndex(curr) ==
  IF loadedDictEnd # 0 THEN window.lowLimit
  ELSE IF curr - window.lowLimit > maxDist THEN curr - maxDist ELSE window.lowLimit

(* An offset never leaves the window of the decoder: the lowest index that  *)
(* may match is within maxDist, or in a dictionary whose end is still in    *)
(* the window at the end of the block; and an attached dictionary ends      *)
(* where the input begins.                                                  *)
OffsetsInWindow ==
  pc = "compress" =>
    /\ \A curr \in ip - window.base .. ip + block - window.base - 1 :
         \/ curr - LowestMatchIndex(curr) <= maxDist
         \/ ip + block - window.base <= dictEnd + maxDist
    /\ attached # 0 => window.dictLimit = dictEnd /\ ip + block - window.base <= dictEnd + maxDist

(* Indexes stay in their range, with those before them that the window      *)
(* takes; insertion goes on no earlier than the prefix.                     *)
IndexesInRange ==
  /\ START_INDEX <= window.lowLimit /\ window.lowLimit <= window.dictLimit
  /\ window.dictLimit <= window.end
  /\ pc = "compress" =>
       /\ ip + block - window.base <= CURRENT_MAX
       /\ ip - window.base >= window.dictLimit
       /\ nextToUpdate >= window.dictLimit
       /\ loadedDictEnd <= ip - window.base
=============================================================================

---------------------------- MODULE BlockParser ----------------------------
(***************************************************************************)
(* What the parsers of a block have in common. The first part of a text is *)
(* a dictionary, loaded or attached, or the block before; the second part  *)
(* is parsed with the first right before it in memory, or elsewhere. A     *)
(* parser has its tables in hashTable, its local variables in p, and says  *)
(* with pc where it is; it begins with "begin", leaves the offsets that    *)
(* the next block repeats with EndBlock, and has tables before it begins.  *)
(***************************************************************************)
EXTENDS Integers, Sequences, Parsing

CONSTANTS
  Texts,         \* sequences of letters
  Cuts,          \* the lengths of first parts
  Windows,       \* 1 << windowLog
  Junk           \* letters that may be behind a segment

VARIABLES
  text,          \* by index
  how,           \* of the first part: "contiguous", "separate", "loaded", "attached" or "twice"
  window,        \* lowLimit, dictLimit, and size
  junk,          \* what is in memory behind the segment before the prefix
  hashTable,
  dictTable,     \* of the attached dictionary
  rep,           \* as the compressor and as the decoder have it
  block,         \* its first index, and the index after it
  p,             \* the local variables of the parser
  seqStore,
  pc

parserVars == <<text, how, window, junk, hashTable, dictTable, rep, block, p, seqStore, pc>>

Higher(a, b) == IF a >= b THEN a ELSE b
First == WINDOW_START_INDEX
TextEnd == First + Len(text)
At(i) == text[i - First + 1]
-----------------------------------------------------------------------------
iend   == block.end
ilimit == iend - HASH_READ_SIZE

\* ZSTD_getLowestMatchIndex, ZSTD_getLowestPrefixIndex: a dictionary is valid as a whole.
WithDictionary == how \in {"loaded", "attached"}
WithinWindow(i, low) == IF WithDictionary THEN low ELSE Higher(low, i - window.size)

dictStartIndex == WithinWindow(iend, window.lowLimit)

prefixStartIndex ==
  IF how = "attached" THEN window.dictLimit ELSE Higher(window.dictLimit, dictStartIndex)

Variant ==
  IF how = "attached" THEN "dictMatchState"
  ELSE IF dictStartIndex < prefixStartIndex THEN "extDict" ELSE "noDict"

\* ZSTD_matchState_dictMode
dictMode == IF how = "attached" THEN "dictMatchState"
            ELSE IF window.lowLimit < window.dictLimit THEN "extDict" ELSE "noDict"

InPrefix(i) == i >= prefixStartIndex

\* Letters as they are in memory: the segment before the prefix ends in junk.
MEM_read(i, n) ==
  [j \in 1 .. n |-> IF i < window.dictLimit /\ i + j - 1 >= window.dictLimit THEN junk
                    ELSE At(i + j - 1)]

Letters(i, n) == [j \in 1 .. n |-> At(i + j - 1)]
Matches(i, ip, n) == MEM_read(i, n) = Letters(ip, n)

\* Not the code: the end of the segment is not in the way.
AnyOverlap(prefixLowest, repIndex) == repIndex # prefixLowest

\* Four letters at the index are in one segment.
index_overlap_check(prefixLowest, repIndex) == repIndex >= prefixLowest \/ prefixLowest - repIndex >= 4

\* The sequence that is stored for a match of mLength letters at ip.
Sequence(anchor, ip, mLength, offBase) ==
  [litLength |-> ip - anchor, matchLength |-> mLength, offBase |-> offBase]

Fixed == UNCHANGED <<text, how, window, junk, dictTable, rep, block>>
-----------------------------------------------------------------------------
\* The distance that a decoder goes back at most.
DecoderWindow == IF WithDictionary THEN TextEnd ELSE window.size

\* The parser has parsed the block and leaves these offsets. What the decoder has begins with
\* the text, except when the beginning was parsed twice.
EndBlock(offsets) ==
  LET low == IF how = "twice" THEN window.lowLimit ELSE First
      d   == Decoded(text, First, low, DecoderWindow, block.start, iend, rep.decoder, seqStore)
  IN /\ rep' = [compressor |-> offsets, decoder |-> d.reps]
     /\ pc' = IF d.right THEN "parsed" ELSE "wrong"
     /\ UNCHANGED <<text, how, window, junk, hashTable, dictTable, block, p, seqStore>>

\* ZSTD_window_enforceMaxDist: what is too far from the beginning of the block is invalid.
Enforced(w, i) ==
  IF WithDictionary THEN w
  ELSE [w EXCEPT !.lowLimit = Higher(@, i - w.size), !.dictLimit = Higher(@, i - w.size)]

\* The second part.
NextBlock ==
  /\ pc = "parsed" /\ block.end < TextEnd
  /\ block' = [start |-> block.end, end |-> TextEnd]
  /\ window' = Enforced(IF how = "separate" THEN [window EXCEPT !.dictLimit = block.end] ELSE window, block.end)
  /\ pc' = "begin"
  /\ UNCHANGED <<text, how, junk, dictTable, rep, p, seqStore>>

\* A text whose first part ends before the index cut.
Cut(cut, size) ==
  /\ block = IF WithDictionary THEN [start |-> cut, end |-> TextEnd] ELSE [start |-> First, end |-> cut]
  /\ window = [lowLimit |-> First, dictLimit |-> IF WithDictionary THEN cut ELSE First, size |-> size]

Ways == {"contiguous", "separate", "loaded", "attached"}

InitText(ways) ==
  /\ text \in Texts /\ junk \in Junk /\ how \in ways
  /\ rep = [compressor |-> <<1, 4, 8>>, decoder |-> <<1, 4, 8>>]
  /\ p = [anchor |-> First] /\ seqStore = <<>> /\ pc = "begin"
-----------------------------------------------------------------------------
(* The sequences of a block regenerate it, with offsets that a decoder can  *)
(* follow, whatever is in memory behind a segment.                          *)
SequencesRegenerate == pc # "wrong"

(* The first two offsets that the next block repeats are the decoder's.     *)
RepeatsAgree ==
  pc = "parsed" => \A i \in 1 .. 2 : rep.compressor[i] = rep.decoder[i]
=============================================================================

----------------------------- MODULE LazyParser -----------------------------
(***************************************************************************)
(* zstd_lazy.c. Its match finders: chains of positions with one hash; rows *)
(* with the newest positions of one hash, of which a tag is kept; and the  *)
(* tables of a dictionary that was loaded to be searched only. A match     *)
(* finder has its tables in a record ms, with the next position to enter.  *)
(* And its parser, which looks for a better match at the next one or two   *)
(* positions before it takes one, over any of these match finders, or over *)
(* the binary tree.                                                        *)
(***************************************************************************)
EXTENDS BinaryTree

CONSTANTS
  ChainSize,        \* 1 << chainLog
  rowEntries,       \* of which the first holds the head
  HASH_CACHE_SIZE,
  kSkipThreshold, MatchStartPositions, MatchEndPositions,   \* of a long match
  DictChainSize,    \* of a dictionary that is searched only: 1 << chainLog,
  cacheSize,        \* positions in a bucket,
  TmpChainSize,     \* room to sort the chains in
  RowTag(_)         \* of the letters that are hashed

\* A candidate that is better than the best so far. In the prefix the letters up to the
\* length of the best are looked at first, in a segment before the first four.
Tried(b, i, ip) ==
  With(IF i >= window.dictLimit \/ Matches(i, ip, 4) THEN count(text, First, ip, i, iend) ELSE 0,
       LAMBDA length : IF length > b.length
                       THEN [b EXCEPT !.length = length, !.offBase = OFFSET_TO_OFFBASE(ip - i)] ELSE b)

Complete(b, ip) == ip + b.length = iend

\* The best of some candidates, up to one that is as long as can be.
BestOfCandidates(b, candidates, ip) ==
  ForEach(candidates, b, LAMBDA t, i : IF Complete(t, ip) THEN t ELSE Tried(t, i, ip))

NothingBest == [length |-> 3, offBase |-> NoOffset, left |-> nbCompares]
-----------------------------------------------------------------------------
(* Hash chain.                                                              *)

EmptyChain == [hash |-> [h \in Hashes |-> 0], chain |-> [i \in 0 .. ChainSize - 1 |-> 0],
               nextToUpdate |-> First]

\* When the parser skips, only one position is entered.
insertAndFindFirstIndex(ms, target, lazySkipping) ==
  LET behind == Higher(0, target - ms.nextToUpdate)
      Enter(u) ==
        LET i == u.nextToUpdate
            h == HashAt(i)
        IN [u EXCEPT !.chain[i % ChainSize] = u.hash[h], !.hash[h] = i, !.nextToUpdate = i + 1]
  IN With(Iterated(IF lazySkipping THEN Lower(1, behind) ELSE behind, ms, Enter),
          LAMBDA u : [u EXCEPT !.nextToUpdate = target])

\* What is not later than this has no successor in the chain.
minChain(i) == Higher(0, i - ChainSize)

\* The candidates of a chain, not below low.
ChainSearch(b, ms, first, ip, low, old) ==
  LET Next0(s) ==
        IF s.match < low THEN s
        ELSE With(Tried(s.best, s.match, ip),
                  LAMBDA t : IF Complete(t, ip) \/ s.match <= old THEN [best |-> t, match |-> 0]
                             ELSE [best |-> [t EXCEPT !.left = @ - 1], match |-> ms.chain[s.match % ChainSize]])
  IN Iterated(b.left, [best |-> b, match |-> first], Next0).best

\* Buckets hold the newest positions, the rest of a chain is behind them.
dedicatedDictSearch(b, dds, ip) ==
  LET bucket == dds.bucket[HashAt(ip)]
      chain  == dds.chain[HashAt(ip)]
      n      == Lower(b.left, cacheSize)
      Chained(t) == IF Len(bucket) < n \/ Complete(t, ip) THEN t
                    ELSE BestOfCandidates(t, SubSeq(chain, 1, Lower(Len(chain), b.left - n)), ip)
  IN With(BestOfCandidates(b, SubSeq(bucket, 1, Lower(n, Len(bucket))), ip), Chained)

HcFindBestMatch(ms, dms, dedicated, ip) ==
  LET h == HashAt(ip)
      InDictionary(b) ==
        IF how # "attached" THEN b
        ELSE IF dedicated THEN dedicatedDictSearch(b, dms, ip)
        ELSE ChainSearch(b, dms, dms.hash[h], ip, First, minChain(window.dictLimit))
      Found(u) ==
        With(With(ChainSearch(NothingBest, u, u.hash[h], ip, WithinWindow(ip, lowestValid), minChain(ip)), InDictionary),
             LAMBDA b : [ms |-> u, length |-> b.length, offBase |-> b.offBase])
  IN With(insertAndFindFirstIndex(ms, ip, p.lazySkipping), Found)
-----------------------------------------------------------------------------
(* Rows.                                                                    *)

RowHash(i) == [row |-> HashAt(i), tag |-> RowTag(Letters(i, mls))]

EmptyRow  == [head |-> 0, entry |-> [j \in 1 .. rowEntries - 1 |-> [index |-> 0, tag |-> 0]]]
EmptyRows == [rows |-> [h \in Hashes |-> EmptyRow], nextToUpdate |-> First,
              cache |-> [j \in 0 .. HASH_CACHE_SIZE - 1 |-> [row |-> 0, tag |-> 0]]]

\* Backwards, except for the place of the head.
row_nextIndex(head) == IF head \in {0, 1} THEN rowEntries - 1 ELSE head - 1

Entered(row, i, tag) ==
  [head  |-> row_nextIndex(row.head),
   entry |-> [row.entry EXCEPT ![row_nextIndex(row.head)] = [index |-> i, tag |-> tag]]]

row_fillHashCache(ms, i, limit) ==
  LET filled == i .. Lower(i + HASH_CACHE_SIZE - 1, limit)
  IN [ms EXCEPT !.cache = [k \in DOMAIN @ |-> IF \E j \in filled : j % HASH_CACHE_SIZE = k
                                             THEN RowHash(CHOOSE j \in filled : j % HASH_CACHE_SIZE = k) ELSE @[k]]]

\* The hash of a position, in the place of which that of a later one is computed.
NextCached(ms, i) == [ms EXCEPT !.cache[i % HASH_CACHE_SIZE] = RowHash(i + HASH_CACHE_SIZE)]

row_update_internalImpl(ms, start, end, useCache) ==
  ForEach([n \in 1 .. Higher(0, end - start) |-> start + n - 1], ms,
          LAMBDA u, i :
            With(IF useCache THEN u.cache[i % HASH_CACHE_SIZE] ELSE RowHash(i),
                 LAMBDA hash : [(IF useCache THEN NextCached(u, i) ELSE u)
                                   EXCEPT !.rows[hash.row] = Entered(@, i, hash.tag)]))

\* Not the code: the cache still has the hashes of the positions that were left out.
SkippedOnly(ms, start, end) == row_update_internalImpl(ms, start, end, TRUE)

\* Of a long match the first and the last positions are entered.
SkippedOver(ms, start, target) ==
  With(row_update_internalImpl(ms, start, start + MatchStartPositions, TRUE),
       LAMBDA u : row_fillHashCache(u, target - MatchEndPositions, target + 1))

row_update_internal(ms, target, useCache) ==
  LET skip == useCache /\ target - ms.nextToUpdate > kSkipThreshold
      from == IF skip THEN target - MatchEndPositions ELSE ms.nextToUpdate
      Updated(u) == row_update_internalImpl(u, from, target, useCache)
  IN With(With(IF skip THEN SkippedOver(ms, ms.nextToUpdate, target) ELSE ms, Updated),
          LAMBDA u : [u EXCEPT !.nextToUpdate = target])

\* The positions of a row that have the tag, the newest first, not below low.
Candidates(row, tag, low, most) ==
  LET places == SelectSeq([k \in 1 .. rowEntries |-> (row.head + k - 1) % rowEntries], LAMBDA j : j # 0)
      tagged == SelectSeq([k \in DOMAIN places |-> row.entry[places[k]]], LAMBDA e : e.tag = tag)
      Valid(found) == {n \in 0 .. Lower(most, Len(found)) : \A k \in 1 .. n : found[k].index >= low}
      Most(found)  == CHOOSE n \in Valid(found) : \A m \in Valid(found) : m <= n
  IN With(tagged, LAMBDA found : [k \in 1 .. Most(found) |-> found[k].index])

\* The row of ip, which is entered too. A parser that skips leaves the rest out, and the
\* cache as it is.
RowFindBestMatch(ms, dms, dedicated, ip) ==
  LET skipping == p.lazySkipping
      here  == RowHash(ip)
      most  == Lower(nbCompares, rowEntries)
      extra == IF nbCompares > rowEntries THEN nbCompares \div rowEntries ELSE 0
      InDictionary(b, left) ==
        IF how # "attached" THEN b
        ELSE IF dedicated THEN dedicatedDictSearch([b EXCEPT !.left = left + extra], dms, ip)
        ELSE BestOfCandidates(b, Candidates(dms.rows[here.row], here.tag, First, left), ip)
      Searched(u, hash) ==
        With(Candidates(u.rows[hash.row], hash.tag, WithinWindow(ip, lowestValid), most),
             LAMBDA found : With(BestOfCandidates(NothingBest, found, ip), LAMBDA b : InDictionary(b, most - Len(found))))
      Result(u, hash) ==
        With(Searched(u, hash),
             LAMBDA b : [ms |-> [(IF skipping THEN u ELSE NextCached(u, ip))
                                    EXCEPT !.rows[hash.row] = Entered(@, ip, hash.tag), !.nextToUpdate = ip + 1],
                         length |-> b.length, offBase |-> b.offBase])
  IN With(IF skipping THEN [ms EXCEPT !.nextToUpdate = ip] ELSE row_update_internal(ms, ip, TRUE),
          LAMBDA u : Result(u, IF skipping THEN here ELSE u.cache[ip % HASH_CACHE_SIZE]))
-----------------------------------------------------------------------------
(* Dictionaries, up to the index cut.                                       *)

ChainOfDictionary(cut) == [insertAndFindFirstIndex(EmptyChain, cut - HASH_READ_SIZE, FALSE) EXCEPT !.nextToUpdate = cut]
RowsOfDictionary(cut)  == [row_update_internal(EmptyRows, cut - HASH_READ_SIZE, FALSE) EXCEPT !.nextToUpdate = cut]

\* The positions with one hash, the newest first, up to one that is less than least.
Newest(h, target, least) ==
  LET c[i \in First - 1 .. target - 1] ==
        IF i < First THEN <<>> ELSE IF HashAt(i) # h THEN c[i - 1]
        ELSE IF i < least THEN <<i>> ELSE <<i>> \o c[i - 1]
  IN c[target - 1]

\* Not the code: the chain does not count what the bucket has taken from beyond.
NoneOfBucket(bucket, least) == 0

FarInBucket(bucket, least) == Len(SelectSeq(bucket, LAMBDA i : i < least))

\* Behind those in the bucket, the chain takes as many from beyond its room as the bucket
\* has taken out of it.
SortedChain(all, target, limit) ==
  LET least == IF DictChainSize < target - First THEN target - DictChainSize ELSE First
      rest  == SubSeq(all, cacheSize + 1, Len(all))
      Far(n) == FarInBucket(SubSeq(all, 1, cacheSize), least) + Len(SelectSeq(SubSeq(rest, 1, n), LAMBDA i : i < least))
      fitting == {n \in 0 .. Lower(limit, Len(rest)) : n > 0 /\ rest[n] < least => Far(n) <= cacheSize}
  IN SubSeq(rest, 1, CHOOSE n \in fitting : n + 1 \notin fitting /\ \A k \in 0 .. n : k \in fitting)

\* Chains are sorted in what the buckets leave of the table; where there are no more
\* positions than a bucket holds, there is no chain.
dedicatedDictSearch_lazy_loadDictionary(cut) ==
  LET target == cut - HASH_READ_SIZE
      least  == IF TmpChainSize < target THEN target - TmpChainSize ELSE First
      All(h) == Newest(h, target, least)
      Full(h) == Len(All(h)) > cacheSize /\ All(h)[cacheSize] >= least
  IN [bucket |-> [h \in Hashes |-> LET n == Newest(h, target, First) IN SubSeq(n, 1, Lower(cacheSize, Len(n)))],
      chain  |-> [h \in Hashes |-> IF Full(h) THEN SortedChain(All(h), target, nbCompares - cacheSize) ELSE <<>>]]
-----------------------------------------------------------------------------
(* The parser.                                                              *)

CONSTANTS
  kSearchStrength,     \* 1 << kSearchStrength
  kLazySkippingStep

VARIABLE strategy      \* search method, depth, and whether the dictionary was loaded to be searched

vars == <<parserVars, strategy>>

Strategies ==
  [method : {"hashChain", "rowHash"}, depth : 0 .. 2, dedicated : BOOLEAN]
    \cup [method : {"binaryTree"}, depth : {2}, dedicated : {FALSE}]

\* The row hash reads ahead.
lazyLimit == IF strategy.method = "rowHash" THEN ilimit - HASH_CACHE_SIZE ELSE ilimit

SearchMax(ms, ip) ==
  CASE strategy.method = "hashChain"  -> HcFindBestMatch(ms, dictTable, strategy.dedicated, ip)
    [] strategy.method = "rowHash"    -> RowFindBestMatch(ms, dictTable, strategy.dedicated, ip)
    [] strategy.method = "binaryTree" -> BtFindBestMatch(ms, dictTable, ip)

Filled(ms) ==
  IF strategy.method = "rowHash" THEN row_fillHashCache(ms, ms.nextToUpdate, lazyLimit) ELSE ms
-----------------------------------------------------------------------------
\* Offsets that are not valid at first are put aside, but only of a text in one segment.
TooFar(offset, ip) == dictMode = "noDict" /\ offset > ip - WithinWindow(ip, window.dictLimit)

\* After a very long match only the last positions are entered.
Begin ==
  /\ pc = "begin"
  /\ LET start == block.start
         ip == IF start = window.dictLimit /\ dictMode # "dictMatchState" THEN start + 1 ELSE start
         r  == rep.compressor
         behind == start - hashTable.nextToUpdate - LongMatch
         Put(offset)  == IF TooFar(offset, ip) THEN offset ELSE 0
         Used(offset) == IF TooFar(offset, ip) THEN 0 ELSE offset
     IN /\ p' = [anchor |-> start, ip |-> ip, lazySkipping |-> FALSE,
                 start |-> ip, matchLength |-> 0, offBase |-> REPCODE1,
                 rep1 |-> Used(r[1]), rep2 |-> Used(r[2]), saved1 |-> Put(r[1]), saved2 |-> Put(r[2])]
        /\ hashTable' = Filled(IF behind > 0 THEN [hashTable EXCEPT !.nextToUpdate = start - Lower(MostOfLong, behind)]
                               ELSE hashTable)
  /\ seqStore' = <<>>
  /\ pc' = "search"
  /\ UNCHANGED strategy /\ Fixed

RepeatedMatches(offset, ip) ==
  /\ dictMode = "noDict" => offset > 0
  /\ dictMode # "noDict" => index_overlap_check(window.dictLimit, ip - offset)
  /\ dictMode = "extDict" => offset <= ip - WithinWindow(ip, window.lowLimit)
  /\ Matches(ip - offset, ip, 4)

RepeatedLength(offset, ip) == 4 + count(text, First, ip + 4, ip + 4 - offset, iend)

\* The first offset one position on, and a search here; where there is nothing, the steps
\* become longer, and in the end not all positions are entered.
Search ==
  /\ pc = "search" /\ p.ip < lazyLimit
  /\ \E length \in {IF RepeatedMatches(p.rep1, p.ip + 1) THEN RepeatedLength(p.rep1, p.ip + 1) ELSE 0} :
       LET q == [p EXCEPT !.start = p.ip + 1, !.offBase = REPCODE1, !.matchLength = length]
       IN IF length > 0 /\ strategy.depth = 0
          THEN p' = q /\ pc' = "store" /\ UNCHANGED hashTable
          ELSE \E m \in {SearchMax(hashTable, p.ip)} :
                 LET found == IF m.length > length
                              THEN [q EXCEPT !.matchLength = m.length, !.start = p.ip, !.offBase = m.offBase] ELSE q
                     skip == (p.ip - p.anchor) \div kSearchStrength
                     step == IF dictMode = "extDict" THEN skip ELSE skip + 1
                 IN /\ hashTable' = m.ms
                    /\ IF found.matchLength < 4
                       THEN /\ p' = [found EXCEPT !.ip = @ + skip + 1, !.lazySkipping = step > kLazySkippingStep]
                            /\ UNCHANGED pc
                       ELSE /\ p' = found
                            /\ pc' = IF strategy.depth = 0 THEN "catch_up" ELSE "better"
  /\ UNCHANGED <<seqStore, strategy>> /\ Fixed

\* Whether other letters and another offset are worth more.
Gains(length, offBase, q, scale, less) ==
  length >= 4 /\ length * scale - highbit32(offBase) > q.matchLength * scale - highbit32(q.offBase) + less

\* One position on: the first offset, and a search.
LookFurther(scale, less) ==
  LET ip == p.ip + 1
      q  == [p EXCEPT !.ip = ip]
      Repeated(length) ==
        IF Gains(length, REPCODE1, q, scale, 1)
        THEN [q EXCEPT !.matchLength = length, !.offBase = REPCODE1, !.start = ip] ELSE q
  IN \E r \in {With(IF RepeatedMatches(p.rep1, ip) THEN RepeatedLength(p.rep1, ip) ELSE 0, Repeated)},
        m \in {SearchMax(hashTable, ip)} :
       LET better == Gains(m.length, m.offBase, r, 4, less)
       IN /\ hashTable' = m.ms
          /\ p' = IF better THEN [r EXCEPT !.matchLength = m.length, !.offBase = m.offBase, !.start = ip] ELSE r
          /\ pc' = IF better THEN "better"
                   ELSE IF pc = "better" /\ strategy.depth = 2 /\ ip < lazyLimit THEN "better_still" ELSE "catch_up"

Better ==
  /\ pc = "better"
  /\ IF p.ip < lazyLimit THEN LookFurther(3, 4) ELSE pc' = "catch_up" /\ UNCHANGED <<hashTable, p>>
  /\ UNCHANGED <<seqStore, strategy>> /\ Fixed

BetterStill ==
  /\ pc = "better_still"
  /\ LookFurther(4, 7)
  /\ UNCHANGED <<seqStore, strategy>> /\ Fixed

\* Letters before a new offset may match too, not those before a segment.
CatchUp ==
  /\ pc = "catch_up"
  /\ LET offset == p.offBase - ZSTD_REP_NUM
         match  == p.start - offset
         low    == IF dictMode # "noDict" /\ match < window.dictLimit THEN window.lowLimit ELSE window.dictLimit
         back   == countBackwards(text, First, p.start, p.anchor, match, low)
     IN IF p.offBase <= ZSTD_REP_NUM THEN UNCHANGED p
        ELSE p' = [p EXCEPT !.start = @ - back, !.matchLength = @ + back, !.rep2 = p.rep1, !.rep1 = offset]
  /\ pc' = "store"
  /\ UNCHANGED <<hashTable, seqStore, strategy>> /\ Fixed

\* Not the code: the cache is not filled again.
NotFilled(ms) == ms

\* After a match that was found while skipping, the cache is filled again.
Refilled(ms) == IF p.lazySkipping THEN Filled(ms) ELSE ms

Store ==
  /\ pc = "store"
  /\ seqStore' = Append(seqStore, Sequence(p.anchor, p.start, p.matchLength, p.offBase))
  /\ hashTable' = Refilled(hashTable)
  /\ p' = [p EXCEPT !.anchor = p.start + p.matchLength, !.ip = p.start + p.matchLength, !.lazySkipping = FALSE]
  /\ pc' = "immediate"
  /\ UNCHANGED strategy /\ Fixed

\* Right behind a match the older offset may match.
Immediate ==
  /\ pc = "immediate"
  /\ IF p.ip <= lazyLimit /\ RepeatedMatches(p.rep2, p.ip)
     THEN LET length == RepeatedLength(p.rep2, p.ip)
          IN /\ seqStore' = Append(seqStore, Sequence(p.anchor, p.ip, length, REPCODE1))
             /\ p' = [p EXCEPT !.rep1 = p.rep2, !.rep2 = p.rep1, !.ip = @ + length, !.anchor = @ + length]
             /\ UNCHANGED pc
     ELSE pc' = "search" /\ UNCHANGED <<seqStore, p>>
  /\ UNCHANGED <<hashTable, strategy>> /\ Fixed

\* An offset that was put aside has become the second, where a new one came before it.
Saved(q) ==
  LET saved2 == IF q.saved1 # 0 /\ q.rep1 # 0 THEN q.saved1 ELSE q.saved2
  IN <<IF q.rep1 # 0 THEN q.rep1 ELSE q.saved1, IF q.rep2 # 0 THEN q.rep2 ELSE saved2>>

Cleanup ==
  /\ pc = "search" /\ p.ip >= lazyLimit
  /\ LET r == Saved(p) IN EndBlock(<<r[1], r[2], rep.compressor[3]>>)
  /\ UNCHANGED strategy

\* ZSTD_window_update: positions of a segment that is left behind are not entered any more.
SecondPart ==
  /\ NextBlock
  /\ hashTable' = IF how = "separate" THEN [hashTable EXCEPT !.nextToUpdate = block.end] ELSE hashTable
  /\ UNCHANGED strategy

Empty == CASE strategy.method = "hashChain" -> EmptyChain
           [] strategy.method = "rowHash" -> EmptyRows
           [] OTHER -> EmptyTree

Loaded(cut) == CASE strategy.method = "hashChain" -> ChainOfDictionary(cut)
                 [] strategy.method = "rowHash" -> RowsOfDictionary(cut)
                 [] OTHER -> TreeOfDictionary(cut)

Init ==
  /\ InitText(Ways) /\ strategy \in Strategies /\ (strategy.dedicated => how = "attached")
  /\ \E cut \in {First + c : c \in Cuts}, size \in Windows :
       /\ Cut(cut, size)
       /\ hashTable \in CASE how = "loaded" -> {Loaded(cut)}
                          [] how = "attached" -> {[Empty EXCEPT !.nextToUpdate = cut]}
                          [] OTHER -> {Empty}
       /\ dictTable \in IF how # "attached" THEN {0}
                        ELSE IF strategy.dedicated THEN {dedicatedDictSearch_lazy_loadDictionary(cut)}
                        ELSE {Loaded(cut)}

Next ==
  \/ Begin \/ Search \/ Better \/ BetterStill
  \/ CatchUp \/ Store \/ Immediate \/ Cleanup \/ SecondPart

Spec == Init /\ [][Next]_vars
-----------------------------------------------------------------------------
(* Positions are entered in the row of their hash, and the hashes in the    *)
(* cache are those of the next positions, although some positions are left  *)
(* out, of long matches and while the parser skips: ZSTD_row_nextCachedHash *)
(* asserts it.                                                              *)
CacheIsCurrent ==
  strategy.method = "rowHash" /\ pc # "begin" =>
    /\ \A h \in Hashes : \A j \in 1 .. rowEntries - 1 :
         LET e == hashTable.rows[h].entry[j]
         IN e.index = 0 \/ RowHash(e.index) = [row |-> h, tag |-> e.tag]
    /\ pc \in {"search", "better", "better_still", "catch_up", "immediate"} /\ ~p.lazySkipping =>
         \A i \in hashTable.nextToUpdate .. Lower(hashTable.nextToUpdate + HASH_CACHE_SIZE - 1, lazyLimit) :
           hashTable.cache[i % HASH_CACHE_SIZE] = RowHash(i)

(* The chains of a dictionary that was loaded to be searched only fit the   *)
(* chain table: ZSTD_dedicatedDictSearch_lazy_loadDictionary asserts it.    *)
DictionaryFits ==
  strategy.dedicated /\ pc = "begin" =>
    LET total[h \in -1 .. 3] == IF h = -1 THEN 0 ELSE total[h - 1] + Len(dictTable.chain[h])
    IN total[3] <= DictChainSize
=============================================================================

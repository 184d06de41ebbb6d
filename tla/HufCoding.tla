----------------------------- MODULE HufCoding -----------------------------
(***************************************************************************)
(* Huffman codes of literals: the tree of the counts, cut to a height, its *)
(* header, and the streams of codes (huf_compress.c), and what reads them  *)
(* back (huf_decompress.c). In the first part, a table gives every         *)
(* symbol up to max its number of bits, and the value it is written with.  *)
(***************************************************************************)
LOCAL INSTANCE Integers
LOCAL INSTANCE Sequences
LOCAL INSTANCE SequencesExt
LOCAL INSTANCE Parsing

CONSTANTS
  Precision,     \* of the shares of FseCoding
  SAMPLE_SIZE,   \* 4096: bytes at each end that are looked at first
  TimeUnit       \* 256: bytes of output that the choice of a decoder counts in

LOCAL INSTANCE FseCoding

HUF_TABLELOG_MAX == 12
HUF_TABLELOG_DEFAULT == 11
HUF_SYMBOLVALUE_MAX == 255
MAX_FSE_TABLELOG_FOR_HUFF_HEADER == 6
SUSPECT_INCOMPRESSIBLE_SAMPLE_RATIO == 10
RANK_POSITION_TABLE_SIZE == 192
RANK_POSITION_LOG_BUCKETS_BEGIN == 158
RANK_POSITION_DISTINCT_COUNT_CUTOFF == 165

LOCAL Least(a, b)    == IF a <= b THEN a ELSE b
LOCAL Most(a, b)     == IF a >= b THEN a ELSE b
LOCAL Greatest(S)    == CHOOSE x \in S : \A y \in S : y <= x
LOCAL Smallest(S)    == CHOOSE x \in S : \A y \in S : x <= y
LOCAL Symbols(max)   == [i \in 1 .. max + 1 |-> i - 1]
LOCAL Failed         == [size |-> Error, bits |-> <<>>]
LOCAL NotCompressed  == [size |-> 0, bits |-> <<>>]

\* How often every symbol up to the largest one occurs.
Histogram(src) ==
  LET max == Greatest({src[i] : i \in 1 .. Len(src)})
  IN ForEach(src, [s \in 0 .. max |-> 0], LAMBDA c, s : [c EXCEPT ![s] = @ + 1])

MaxOf(counts) == Cardinality(DOMAIN counts) - 1
Largest(counts) == Greatest({counts[s] : s \in DOMAIN counts})
-----------------------------------------------------------------------------
(* The leaves, by decreasing counts. Counts below the cutoff have a bucket   *)
(* each; larger ones share one with those of the same magnitude.            *)

getIndex(n) == IF n < RANK_POSITION_DISTINCT_COUNT_CUTOFF THEN n ELSE highbit32(n) + RANK_POSITION_LOG_BUCKETS_BEGIN

\* A node goes before the first of those that are less frequent.
InsertionSorted(nodes) ==
  ForEach(nodes, <<>>,
          LAMBDA sorted, key : With(Smallest({i \in 1 .. Len(sorted) + 1 : i > Len(sorted) \/ sorted[i].count < key.count}),
            LAMBDA i : SubSeq(sorted, 1, i - 1) \o <<key>> \o SubSeq(sorted, i, Len(sorted))))

\* The last node parts those that are more frequent from the others, which are swapped back.
quickSortPartition(arr, low, high) ==
  LET Swapped(a, i, j) == [a EXCEPT ![i] = a[j], ![j] = a[i]]
      Seen(r, j) == IF arr[high].count < r.arr[j].count THEN [arr |-> Swapped(r.arr, r.i + 1, j), i |-> r.i + 1] ELSE r
  IN With(ForEach([k \in 1 .. high - low |-> low + k - 1], [arr |-> arr, i |-> low - 1], Seen),
          LAMBDA r : [arr |-> Swapped(r.arr, r.i + 1, high), i |-> r.i + 1])

\* What is left to sort is a list of ranges; the larger part of one that is halved is halved
\* again, however small it is.
Halved(arr, rest, low, high) ==
  With(quickSortPartition(arr, low, high),
       LAMBDA p : LET left  == <<low, p.i - 1>>
                      right == <<p.i + 1, high>>
                  IN [arr |-> p.arr,
                      todo |-> IF p.i - low < high - p.i THEN <<left \o <<FALSE>>, right \o <<TRUE>>>> \o rest
                               ELSE <<right \o <<FALSE>>, left \o <<TRUE>>>> \o rest])

SortedNext(r, low, high, halved) ==
  CASE low >= high -> [r EXCEPT !.todo = Tail(@)]
    [] low < high /\ ~halved /\ high - low < 8 ->
         [arr |-> SubSeq(r.arr, 1, low - 1) \o InsertionSorted(SubSeq(r.arr, low, high)) \o SubSeq(r.arr, high + 1, Len(r.arr)),
          todo |-> Tail(r.todo)]
    [] OTHER -> Halved(r.arr, Tail(r.todo), low, high)

simpleQuickSort(nodes) ==
  Iterated(2 * Len(nodes) + 1, [arr |-> nodes, todo |-> <<<<1, Len(nodes), FALSE>>>>],
           LAMBDA r : IF r.todo = <<>> THEN r ELSE SortedNext(r, r.todo[1][1], r.todo[1][2], r.todo[1][3])).arr

sort(counts) ==
  LET buckets    == {getIndex(counts[s]) : s \in DOMAIN counts}
      descending == SelectSeq([i \in 1 .. RANK_POSITION_TABLE_SIZE |-> RANK_POSITION_TABLE_SIZE - i], LAMBDA b : b \in buckets)
      Bucket(b)  == SelectSeq([i \in 1 .. MaxOf(counts) + 1 |-> [count |-> counts[i - 1], byte |-> i - 1]],
                              LAMBDA n : getIndex(n.count) = b)
      Sorted(b, nodes) == IF b < RANK_POSITION_DISTINCT_COUNT_CUTOFF THEN nodes ELSE simpleQuickSort(nodes)
  IN ForEach(descending, <<>>, LAMBDA r, b : r \o With(Bucket(b), LAMBDA nodes : Sorted(b, nodes)))
-----------------------------------------------------------------------------
(* The tree. The two rarest of leaves and inner nodes get a common parent,   *)
(* a leaf only if it is rarer. Inner nodes come in the order of their making.*)

PickOne(t, nodes) ==
  IF t.lowS >= 1 /\ (t.lowN > Len(t.inner) \/ nodes[t.lowS].count < t.inner[t.lowN])
  THEN [t EXCEPT !.lowS = @ - 1, !.sum = @ + nodes[t.lowS].count, !.leafParent[t.lowS] = Len(t.inner) + 1]
  ELSE [t EXCEPT !.lowN = @ + 1, !.sum = @ + t.inner[t.lowN], !.innerParent[t.lowN] = Len(t.inner) + 1]

CreateParent(t, nodes) ==
  With(With(PickOne([t EXCEPT !.sum = 0], nodes), LAMBDA u : PickOne(u, nodes)),
       LAMBDA u : [u EXCEPT !.inner = Append(@, u.sum), !.innerParent = Append(@, 0)])

\* How deep the leaves are.
buildTree(nodes) ==
  LET last == Greatest({i \in 1 .. Len(nodes) : nodes[i].count > 0})
      start == [inner |-> <<nodes[last].count + nodes[last - 1].count>>, innerParent |-> <<0>>, sum |-> 0,
                leafParent |-> [i \in 1 .. last |-> 1], lowS |-> last - 2, lowN |-> 1]
      Depths(t) ==
        LET depth[n \in 1 .. last - 1] == IF n = last - 1 THEN 0 ELSE depth[t.innerParent[n]] + 1
        IN [i \in 1 .. last |-> depth[t.leafParent[i]] + 1]
  IN With(Iterated(last - 2, start, LAMBDA t : CreateParent(t, nodes)), Depths)
-----------------------------------------------------------------------------
(* Leaves that are too deep come up to the target, and others go down until  *)
(* the codes fit again; rankLast is the rarest one of those that are so many *)
(* bits above the target, 0 if there is none.                               *)

NoSymbol == 0

\* How much room one of the codes that are r bits above the target gives when it gets longer.
RankToLengthen(nodes, h) ==
  LET Cheap(k) == /\ h.rankLast[k] # NoSymbol
                  /\ \/ h.rankLast[k - 1] = NoSymbol
                     \/ nodes[h.rankLast[k]].count <= 2 * nodes[h.rankLast[k - 1]].count
      cheap    == {k \in 2 .. highbit32(h.cost) + 1 : Cheap(k)}
      from     == IF cheap = {} THEN 1 ELSE Greatest(cheap)
  IN Smallest({k \in from .. HUF_TABLELOG_MAX + 1 : k = HUF_TABLELOG_MAX + 1 \/ h.rankLast[k] # NoSymbol})

Lengthen(nodes, h, target) ==
  LET Longer(k) ==
        LET at    == h.rankLast[k]
            below == IF h.rankLast[k - 1] = NoSymbol THEN at ELSE h.rankLast[k - 1]
            same  == IF at > 1 /\ h.bits[at - 1] = target - k THEN at - 1 ELSE NoSymbol
        IN [h EXCEPT !.cost = @ - 2 ^ (k - 1), !.bits[at] = @ + 1, !.rankLast[k - 1] = below, !.rankLast[k] = same]
  IN With(RankToLengthen(nodes, h), Longer)


\* The cost was paid too well: leaves of the target height come up by one.
Shorten(h, target) ==
  LET upTo == Greatest({i \in 0 .. h.n : i = 0 \/ h.bits[i] # target})
      at   == IF h.rankLast[1] = NoSymbol THEN upTo + 1 ELSE h.rankLast[1] + 1
  IN [h EXCEPT !.cost = @ + 1, !.bits[at] = @ - 1, !.rankLast[1] = at,
               !.n = IF h.rankLast[1] = NoSymbol THEN upTo ELSE @]

\* What the cut leaves cost, in codes of the target height.
Overdraw(bits, target) ==
  LET last == Len(bits)
  IN ForEach([i \in 1 .. last |-> i], 0,
             LAMBDA r, i : IF \E j \in i .. last : bits[j] <= target THEN r
                           ELSE r + 2 ^ (bits[last] - target) - 2 ^ (bits[last] - bits[i])) \div 2 ^ (bits[last] - target)

setMaxHeight(nodes, bits, target) ==
  LET last     == Len(bits)
      LastOf(b) == {i \in 1 .. last : bits[i] = b /\ \A j \in i + 1 .. last : bits[j] > b}
      start == [bits |-> [i \in 1 .. last |-> Least(bits[i], target)], cost |-> Overdraw(bits, target),
                rankLast |-> [r \in 0 .. HUF_TABLELOG_MAX + 1 |->
                               IF r = 0 \/ LastOf(target - r) = {} THEN NoSymbol ELSE Greatest(LastOf(target - r))],
                n |-> Greatest({i \in 1 .. last : bits[i] < target})]
  IN IF bits[last] <= target THEN bits
     ELSE Iterated(2 * last, start,
                   LAMBDA h : CASE h.cost > 0 -> Lengthen(nodes, h, target) [] h.cost < 0 -> Shorten(h, target) [] OTHER -> h).bits

\* The values of the codes: longer ones first, and those of a length in the order of symbols.
WithValues(tableLog, nbBits) ==
  LET Rank(b) == Cardinality({s \in DOMAIN nbBits : nbBits[s] = b})
      min[b \in 1 .. tableLog] == IF b = tableLog THEN 0 ELSE (min[b + 1] + Rank(b + 1)) \div 2
      start == [next |-> [b \in 0 .. tableLog |-> IF b = 0 THEN 0 ELSE min[b]], value |-> [s \in DOMAIN nbBits |-> 0]]
  IN [tableLog |-> tableLog, nbBits |-> nbBits, max |-> MaxOf(nbBits),
      value |-> ForEach(Symbols(MaxOf(nbBits)), start,
                  LAMBDA r, s : [value |-> [r.value EXCEPT ![s] = r.next[nbBits[s]]],
                                 next |-> [r.next EXCEPT ![nbBits[s]] = @ + 1]]).value]

HUF_buildCTable(counts, maxNbBits) ==
  LET Table(nodes, bits) ==
        With(ForEach([i \in 1 .. Len(bits) |-> i], [s \in DOMAIN counts |-> 0],
                     LAMBDA r, i : [r EXCEPT ![nodes[i].byte] = bits[i]]),
             LAMBDA nbBits : WithValues(Greatest({bits[i] : i \in 1 .. Len(bits)}), nbBits))
  IN With(sort(counts),
          LAMBDA nodes : With(With(buildTree(nodes), LAMBDA bits : setMaxHeight(nodes, bits, maxNbBits)),
            LAMBDA bits : Table(nodes, bits)))
-----------------------------------------------------------------------------
(* The header: weights of all symbols but the last one, which follows from   *)
(* the others.                                                              *)

CodedWeights(reg, dstSize, weights, norm, tableLog, head) ==
  IF head.size = Error THEN Failed
  ELSE With(compress_usingCTable(reg, dstSize - head.size, weights, buildCTable(norm, tableLog)),
            LAMBDA c : IF c.size = 0 THEN NotCompressed ELSE [size |-> head.size + c.size, bits |-> head.bits \o c.bits])

WithShares(reg, dstSize, weights, counts, tableLog) ==
  With(normalizeCount(counts, tableLog, Len(weights), FALSE),
       LAMBDA norm : IF norm = <<>> THEN Failed
                     ELSE With(writeNCount(dstSize, norm, MaxOf(counts), tableLog),
                               LAMBDA head : CodedWeights(reg, dstSize, weights, norm, tableLog, head)))

compressWeights(reg, dstSize, weights) ==
  IF Len(weights) <= 1 THEN NotCompressed
  ELSE With(Histogram(weights),
    LAMBDA counts : CASE Largest(counts) = Len(weights) -> [size |-> 1, bits |-> <<>>]
                      [] Largest(counts) # Len(weights) /\ Largest(counts) = 1 -> NotCompressed
                      [] OTHER -> With(optimalTableLog(MAX_FSE_TABLELOG_FOR_HUFF_HEADER, Len(weights), MaxOf(counts)),
                                       LAMBDA tableLog : WithShares(reg, dstSize, weights, counts, tableLog)))

WeightOf(table, s) == IF table.nbBits[s] = 0 THEN 0 ELSE table.tableLog + 1 - table.nbBits[s]

RawWeights(weights, max) ==
  LET Nibble(i) == IF i <= max THEN BitsOf(weights[i], 4) ELSE <<0, 0, 0, 0>>
  IN ForEach([i \in 1 .. (max + 1) \div 2 |-> 2 * i - 1], BitsOf(127 + max, 8), LAMBDA r, i : r \o Nibble(i + 1) \o Nibble(i))

writeCTable(reg, maxDstSize, table) ==
  LET max == table.max
      Chosen(weights, c) ==
        CASE c.size = Error -> Failed
          [] c.size > 1 /\ c.size < max \div 2 -> [size |-> c.size + 1, bits |-> BitsOf(c.size, 8) \o c.bits]
          [] ~(c.size > 1 /\ c.size < max \div 2) /\ c.size # Error /\ max <= 128 /\ ((max + 1) \div 2) + 1 <= maxDstSize ->
               [size |-> ((max + 1) \div 2) + 1, bits |-> RawWeights(weights, max)]
          [] OTHER -> Failed
  IN IF maxDstSize < 1 THEN Failed
     ELSE With([i \in 1 .. max |-> WeightOf(table, i - 1)],
               LAMBDA weights : With(compressWeights(reg, maxDstSize - 1, weights), LAMBDA c : Chosen(weights, c)))

\* The table of a dictionary from the weights of its header; whether a symbol has no code.
HUF_readCTable(stats, maxSymbolValue) ==
  LET nbBits == [s \in 0 .. Len(stats.weights) - 1 |->
                   IF stats.weights[s + 1] = 0 THEN 0 ELSE stats.tableLog + 1 - stats.weights[s + 1]]
  IN IF stats.size = Error \/ (stats.size # Error /\ (stats.tableLog > HUF_TABLELOG_MAX \/ Len(stats.weights) > maxSymbolValue + 1))
     THEN [size |-> Error]
     ELSE [size |-> stats.size, hasZeroWeights |-> \E i \in DOMAIN stats.weights : stats.weights[i] = 0,
           table |-> WithValues(stats.tableLog, nbBits)]

HUF_getNbBitsFromCTable(table, s) == IF s > table.max THEN 0 ELSE table.nbBits[s]
-----------------------------------------------------------------------------
(* Writing codes, the last symbol first: groups of kUnroll, every other one *)
(* in a register of its own that is merged. A code that is added the fast   *)
(* way leaves its length at the bottom of the register, where no bit of a   *)
(* code may be: fits says so, and that nothing is lost at either end.       *)

HUF_initCStream(reg, capacity) ==
  [reg |-> reg, bits |-> <<>>, bitPos |-> <<0, 0>>, ptr |-> 0, end |-> capacity - reg, fits |-> TRUE]

DirtyBits(nbBits) == IF nbBits = 0 THEN 0 ELSE highbit32(nbBits) + 1

HUF_addBits(w, value, nbBits, idx, kFast) ==
  LET used == w.bitPos[idx] + nbBits
  IN [w EXCEPT !.bits = @ \o BitsOf(value, nbBits), !.bitPos[idx] = used,
               !.fits = @ /\ used <= 8 * w.reg - (IF kFast THEN DirtyBits(nbBits) ELSE 0)]

mergeIndex1(w) ==
  [w EXCEPT !.bitPos[1] = @ + w.bitPos[2], !.fits = @ /\ w.bitPos[2] < 8 * w.reg /\ w.bitPos[1] + w.bitPos[2] <= 8 * w.reg]

HUF_flushBits(w, kFast) ==
  LET ptr == w.ptr + (w.bitPos[1] \div 8)
  IN [w EXCEPT !.bitPos[1] = @ % 8, !.ptr = IF kFast THEN ptr ELSE Least(ptr, w.end),
               !.fits = @ /\ w.bitPos[1] > 0 /\ w.ptr <= w.end /\ (kFast => ptr <= w.end)]

HUF_closeCStream(w) ==
  With(HUF_flushBits(HUF_addBits(w, 1, 1, 1, FALSE), FALSE),
       LAMBDA c : LET size == IF c.ptr >= c.end THEN 0 ELSE c.ptr + (IF c.bitPos[1] > 0 THEN 1 ELSE 0)
                  IN [size |-> size, fits |-> c.fits,
                      bits |-> IF size = 0 THEN <<>> ELSE c.bits \o [i \in 1 .. 8 * size - Len(c.bits) |-> 0]])

\* The codes of the symbols from at down to at - k + 1; the last one is fast only if lastFast.
Group(w, src, table, at, k, idx, fast, lastFast) ==
  ForEach([u \in 1 .. k |-> u], [w EXCEPT !.bitPos[2] = IF idx = 2 THEN 0 ELSE @],
          LAMBDA r, u : HUF_addBits(r, table.value[src[at - u + 1]], table.nbBits[src[at - u + 1]], idx,
                                    fast /\ (u < k \/ lastFast)))

compress1X_body_loop(w, src, table, unrolled, kFastFlush, kLastFast) ==
  LET n      == Len(src)
      rem    == n % unrolled
      groups == n \div unrolled
      At(g)     == n - rem - (g - 1) * unrolled
      Second(g) == (g - 1 - (groups % 2)) % 2 = 1
      Next(v, g) ==
        With(With(Group(v, src, table, At(g), unrolled, IF Second(g) THEN 2 ELSE 1, TRUE, kLastFast),
                  LAMBDA u : IF Second(g) THEN mergeIndex1(u) ELSE u),
             LAMBDA u : HUF_flushBits(u, kFastFlush))
  IN ForEach([g \in 1 .. groups |-> g],
             IF rem = 0 THEN w ELSE With(Group(w, src, table, n, rem, 1, FALSE, FALSE), LAMBDA u : HUF_flushBits(u, kFastFlush)),
             Next)

tightCompressBound(srcSize, tableLog) == ((srcSize * tableLog) \div 8) + 8

\* How many codes are sure to fit the register, and whether the last of them may leave dirt.
kUnroll(reg, tableLog) ==
  IF reg = 4 THEN IF tableLog >= 8 THEN 2 ELSE 3
  ELSE CASE tableLog >= 10 -> 5 [] tableLog = 9 -> 6 [] tableLog = 8 -> 7 [] tableLog = 7 -> 8 [] OTHER -> 9

kLastFast(reg, tableLog) == IF reg = 4 THEN tableLog # 11 ELSE tableLog = 10 \/ tableLog <= 6

\* How many at a time, and whether the bounds are left aside at a flush and at the last one.
Loop(reg, dstSize, srcSize, tableLog) ==
  IF dstSize < tightCompressBound(srcSize, tableLog) \/ tableLog > 11
  THEN <<IF reg = 4 THEN 2 ELSE 4, FALSE, FALSE>>
  ELSE <<kUnroll(reg, tableLog), TRUE, kLastFast(reg, tableLog)>>

NoStream(fits) == [size |-> 0, bits |-> <<>>, fits |-> fits]

compress1X(reg, dstSize, src, table) ==
  IF dstSize < 8 \/ dstSize <= reg THEN NoStream(TRUE)
  ELSE With(With(Loop(reg, dstSize, Len(src), table.tableLog),
                 LAMBDA l : compress1X_body_loop(HUF_initCStream(reg, dstSize), src, table, l[1], l[2], l[3])), HUF_closeCStream)

\* One of four streams, the first three of which come from parts of the same size.
NextStream(r, reg, dstSize, src, table, k) ==
  LET segmentSize == (Len(src) + 3) \div 4
  IN With(With(SubSeq(src, (k - 1) * segmentSize + 1, IF k = 4 THEN Len(src) ELSE k * segmentSize),
               LAMBDA part : compress1X(reg, dstSize - r.size, part, table)),
          LAMBDA c : IF c.size \notin 1 .. 65535 THEN [r EXCEPT !.failed = TRUE, !.fits = @ /\ c.fits]
                     ELSE [size |-> r.size + c.size, fits |-> r.fits /\ c.fits, failed |-> FALSE,
                           jump |-> IF k = 4 THEN r.jump ELSE r.jump \o BitsOf(c.size, 16),
                           bits |-> r.bits \o c.bits])

\* The sizes of the first three come first.
compress4X(reg, dstSize, src, table) ==
  IF dstSize < 17 \/ Len(src) < 12 THEN NoStream(TRUE)
  ELSE With(ForEach(<<1, 2, 3, 4>>, [size |-> 6, jump |-> <<>>, bits |-> <<>>, failed |-> FALSE, fits |-> TRUE],
                    LAMBDA r, k : IF r.failed THEN r ELSE NextStream(r, reg, dstSize, src, table, k)),
            LAMBDA r : IF r.failed THEN NoStream(r.fits) ELSE [size |-> r.size, bits |-> r.jump \o r.bits, fits |-> r.fits])

\* The header is there already; nothing comes of it unless the text gets smaller.
compressCTable(e, header, table) ==
  With(IF e.streams = 1 THEN compress1X(e.reg, e.dstSize - header.size, e.src, table)
       ELSE compress4X(e.reg, e.dstSize - header.size, e.src, table),
       LAMBDA c : IF c.size = 0 \/ header.size + c.size >= Len(e.src) - 1 THEN NoStream(c.fits)
                  ELSE [size |-> header.size + c.size, bits |-> header.bits \o c.bits, fits |-> c.fits])
-----------------------------------------------------------------------------
estimateCompressedSize(table, counts) ==
  ForEach(Symbols(MaxOf(counts)), 0,
          LAMBDA r, s : r + HUF_getNbBitsFromCTable(table, s) * counts[s]) \div 8

\* Not the code: a table that codes as many symbols is taken for one that has them.
validateSize(table, counts) == Cardinality(DOMAIN table.nbBits) >= Cardinality(DOMAIN counts)

validateCTable(table, counts) ==
  table.max >= MaxOf(counts) /\ \A s \in DOMAIN counts : counts[s] # 0 => table.nbBits[s] # 0

cardinality(counts) == Cardinality({s \in DOMAIN counts : counts[s] # 0})
HUF_minTableLog(symbolCardinality) == highbit32(symbolCardinality) + 1

\* A depth is better if the header and the codes get smaller.
TryDepth(r, guess, reg, counts, minTable) ==
  LET Compared(table, h, size) ==
        CASE h.size = Error -> r
          [] h.size # Error /\ size > r.size + 1 -> [r EXCEPT !.stop = TRUE]
          [] h.size # Error /\ size < r.size -> [r EXCEPT !.size = size, !.log = guess]
          [] OTHER -> r
  IN With(HUF_buildCTable(counts, guess),
          LAMBDA table : IF table.tableLog < guess /\ guess > minTable THEN [r EXCEPT !.stop = TRUE]
                         ELSE With(writeCTable(reg, 1024, table),
                                   LAMBDA h : Compared(table, h, estimateCompressedSize(table, counts) + h.size)))

\* Depths are tried until the size grows, or else one is taken from the size of the text.
HUF_optimalTableLog(reg, maxTableLog, srcSize, counts, flags) ==
  LET minTable == HUF_minTableLog(cardinality(counts))
  IN IF "optimalDepth" \notin flags THEN optimalTableLog_internal(maxTableLog, srcSize, MaxOf(counts), 1)
     ELSE ForEach([i \in 1 .. maxTableLog - minTable + 1 |-> minTable + i - 1],
                  [size |-> 1000000000, log |-> maxTableLog, stop |-> FALSE],
                  LAMBDA r, guess : IF r.stop THEN r ELSE TryDepth(r, guess, reg, counts, minTable)).log

\* A text whose ends have no frequent byte is not even counted.
LooksRandom(src, flags) ==
  /\ "suspectUncompressible" \in flags
  /\ Len(src) >= SAMPLE_SIZE * SUSPECT_INCOMPRESSIBLE_SAMPLE_RATIO
  /\ Largest(Histogram(SubSeq(src, 1, SAMPLE_SIZE))) + Largest(Histogram(SubSeq(src, Len(src) - SAMPLE_SIZE + 1, Len(src))))
       <= ((2 * SAMPLE_SIZE) \div 128) + 4

\* What becomes of a text: nothing, one byte that is repeated, codes of the table of the text
\* before, or of a new one; and what is then known of the table of the text before.
Decision(by, repeat) == [by |-> by, repeat |-> repeat, header |-> NotCompressed]

\* The table of before may be used again if it has all the symbols.
AfterCounting(e, counts) ==
  LET repeat == IF e.repeat = "check" /\ ~validateCTable(e.old, counts) THEN "none" ELSE e.repeat
  IN CASE Largest(counts) = Len(e.src) -> Decision("rle", e.repeat)
       [] Largest(counts) # Len(e.src) /\ Largest(counts) <= (Len(e.src) \div 128) + 4 -> Decision("nothing", e.repeat)
       [] Largest(counts) \in (Len(e.src) \div 128) + 5 .. Len(e.src) - 1 /\ "preferRepeat" \in e.flags /\ repeat # "none" ->
            Decision("old", repeat)
       [] OTHER -> Decision("build", repeat)

AfterBuilding(e, counts, repeat, table, header) ==
  CASE header.size = Error -> Decision("error", repeat)
    [] /\ header.size # Error /\ repeat # "none"
       /\ \/ estimateCompressedSize(e.old, counts) <= header.size + estimateCompressedSize(table, counts)
          \/ header.size + 12 >= Len(e.src) -> Decision("old", repeat)
    [] header.size # Error /\ repeat = "none" /\ header.size + 12 >= Len(e.src) -> Decision("nothing", repeat)
    [] OTHER -> [by |-> "new", repeat |-> "none", header |-> header, table |-> table]

Decided(e) ==
  CASE Len(e.src) = 0 \/ e.dstSize = 0 -> Decision("nothing", e.repeat)
    [] Len(e.src) # 0 /\ e.dstSize # 0 /\ "preferRepeat" \in e.flags /\ e.repeat = "valid" -> Decision("old", e.repeat)
    [] /\ Len(e.src) # 0 /\ e.dstSize # 0 /\ ~("preferRepeat" \in e.flags /\ e.repeat = "valid")
       /\ LooksRandom(e.src, e.flags) -> Decision("nothing", e.repeat)
    [] OTHER ->
         With(Histogram(e.src),
           LAMBDA counts : With(AfterCounting(e, counts),
             LAMBDA d : IF d.by # "build" THEN d
                        ELSE With(With(HUF_optimalTableLog(e.reg, e.huffLog, Len(e.src), counts, e.flags),
                                       LAMBDA huffLog : HUF_buildCTable(counts, huffLog)),
                          LAMBDA table : With(writeCTable(e.reg, e.dstSize, table),
                            LAMBDA header : AfterBuilding(e, counts, d.repeat, table, header)))))

\* The size is 0 for a text that is left as it is, and 1 for one byte that is repeated.
HUF_compress_internal(e) ==
  LET Result(d, c) == [size |-> c.size, bits |-> c.bits, fits |-> c.fits, repeat |-> d.repeat,
                       table |-> IF d.by = "new" THEN d.table ELSE e.old]
      Text(d) == CASE d.by = "nothing" -> NoStream(TRUE)
                   [] d.by = "error" -> [NoStream(TRUE) EXCEPT !.size = Error]
                   [] d.by = "rle" -> [size |-> 1, bits |-> BitsOf(e.src[1], 8), fits |-> TRUE]
                   [] OTHER -> compressCTable(e, d.header, IF d.by = "new" THEN d.table ELSE e.old)
  IN With(Decided(e), LAMBDA d : With(Text(d), LAMBDA c : Result(d, c)))
-----------------------------------------------------------------------------
(* How literals are read back (huf_decompress.c): the weights of a header,  *)
(* the tables for one symbol and for two symbols at a time, and the loops  *)
(* over one stream and over four, of which one is for streams that all     *)
(* have enough bytes left.                                                 *)

HUF_DECODER_FAST_TABLELOG == 11

LOCAL Number(bits, from, n) ==
  LET v[i \in 0 .. n] == IF i = n THEN 0 ELSE bits[from + i] + 2 * v[i + 1] IN v[0]

Damaged == [at |-> "error", out |-> <<>>, inside |-> TRUE]

Byte(bits, i)   == Number(bits, 8 * i + 1, 8)
LE16(bits, i)   == Number(bits, 8 * i + 1, 16)
Bytes(bits, from, size) == SubSeq(bits, 8 * from + 1, 8 * (from + size))
-----------------------------------------------------------------------------
(* The weights. The last one is what the others leave of a power of two.     *)

FSE_decompress(reg, omax, bits, maxLog) ==
  With(readNCount(bits, 255),
       LAMBDA head :
         IF head.size = Error \/ (head.size # Error /\ head.tableLog > maxLog) THEN Damaged
         ELSE With(buildDTable(head.norm, head.tableLog),
                   LAMBDA table : decompress_usingDTable(reg, omax, bits, head.size, (Len(bits) \div 8) - head.size, table)))

\* size is that of the header.
CompletedStats(weights, size) ==
  LET Whole(tableLog, rest) ==
        LET all  == Append(weights, highbit32(rest) + 1)
            ones == Cardinality({i \in 1 .. Len(all) : all[i] = 1})
        IN IF tableLog > HUF_TABLELOG_MAX \/ 2 ^ highbit32(rest) # rest \/ ones < 2 \/ ones % 2 = 1
           THEN [size |-> Error] ELSE [size |-> size, tableLog |-> tableLog, weights |-> all]
  IN IF \E i \in 1 .. Len(weights) : weights[i] > HUF_TABLELOG_MAX THEN [size |-> Error]
     ELSE With(ForEach(weights, 0, LAMBDA r, w : r + (2 ^ w) \div 2),
               LAMBDA sum : IF sum = 0 THEN [size |-> Error]
                            ELSE Whole(highbit32(sum) + 1, 2 ^ (highbit32(sum) + 1) - sum))

readStats(reg, bits) ==
  LET srcSize == Len(bits) \div 8
      first   == Byte(bits, 0)
      iSize   == IF first >= 128 THEN (first - 126) \div 2 ELSE first
  IN IF srcSize = 0 \/ (srcSize > 0 /\ iSize + 1 > srcSize) THEN [size |-> Error]
     ELSE With(IF first < 128 THEN FSE_decompress(reg, HUF_SYMBOLVALUE_MAX, Bytes(bits, 1, iSize), 6)
               ELSE [at |-> "end",
                     out |-> [i \in 1 .. first - 127 |-> Number(bits, 8 * (1 + ((i - 1) \div 2)) + (IF i % 2 = 1 THEN 5 ELSE 1), 4)]],
               LAMBDA w : IF w.at = "error" THEN [size |-> Error] ELSE CompletedStats(w.out, iSize + 1))
-----------------------------------------------------------------------------
(* The tables. A table is the list of the ranges of cells that are filled   *)
(* one after the other: what a cell holds is what came last.                *)

Cells(from, length, symbols, nbBits) == [from |-> from, length |-> length, symbols |-> symbols, nbBits |-> nbBits]

\* The cell of a value: some symbols, and the number of their bits.
Cell(ranges, val) ==
  ranges[CHOOSE i \in 1 .. Len(ranges) :
           /\ ranges[i].from <= val /\ val < ranges[i].from + ranges[i].length
           /\ \A j \in i + 1 .. Len(ranges) : ~(ranges[j].from <= val /\ val < ranges[j].from + ranges[j].length)]

Filled(ranges, size) ==
  \A val \in 0 .. size - 1 : \E i \in 1 .. Len(ranges) : ranges[i].from <= val /\ val < ranges[i].from + ranges[i].length

OfWeight(weights, w) == SelectSeq([i \in 1 .. Len(weights) |-> i - 1], LAMBDA s : weights[s + 1] = w)

\* A code that is not as deep as the table gets more cells.
rescaleStats(stats, targetTableLog) ==
  IF stats.tableLog >= targetTableLog THEN stats
  ELSE [stats EXCEPT !.tableLog = targetTableLog,
                     !.weights = [i \in DOMAIN @ |-> IF @[i] = 0 THEN 0 ELSE @[i] + targetTableLog - stats.tableLog]]

\* From what HUF_readDTableX1_wksp gets out of readStats.
TableX1(stats, maxTableLog) ==
  LET OneWeight(weights, tableLog, r, w) ==
        ForEach(OfWeight(weights, w), r,
                LAMBDA q, s : [next |-> q.next + 2 ^ (w - 1),
                               ranges |-> Append(q.ranges, Cells(q.next, 2 ^ (w - 1), <<s>>, tableLog + 1 - w))])
  IN With(rescaleStats(stats, Least(maxTableLog + 1, HUF_DECODER_FAST_TABLELOG)),
          LAMBDA x : IF x.tableLog > maxTableLog + 1 THEN [size |-> Error]
                     ELSE [size |-> stats.size, type |-> 1, tableLog |-> x.tableLog,
                           ranges |-> ForEach([w \in 1 .. x.tableLog |-> w], [next |-> 0, ranges |-> <<>>],
                                              LAMBDA r, w : OneWeight(x.weights, x.tableLog, r, w)).ranges])

\* Where the codes of a weight begin, in the whole table.
RankVal(stats, targetLog, w) ==
  ForEach([v \in 1 .. w - 1 |-> v], 0,
          LAMBDA r, v : r + Len(OfWeight(stats.weights, v)) * 2 ^ (v + targetLog - stats.tableLog - 1))

\* The cells of one first symbol: a second one follows if both codes fit.
Level2(stats, targetLog, starts, maxW, symbol, nbBits, start) ==
  LET baseline  == stats.tableLog + 1
      minWeight == Most(1, nbBits + baseline - targetLog)
      length    == 2 ^ (targetLog - nbBits)
      skipSize  == starts[minWeight] \div 2 ^ nbBits
      skipped   == CASE length = 2 -> 2 [] length = 4 -> 4 [] OTHER -> 8 * ((skipSize + 7) \div 8)
      Second(r, w) ==
        LET total == baseline - w + nbBits
            cells == 2 ^ (targetLog - total)
        IN ForEach(OfWeight(stats.weights, w), [next |-> start + starts[w] \div 2 ^ nbBits, ranges |-> r],
                   LAMBDA q, s : [next |-> q.next + cells,
                                  ranges |-> Append(q.ranges, Cells(q.next, cells, <<symbol, s>>, total))]).ranges
  IN ForEach([i \in 1 .. maxW - minWeight + 1 |-> minWeight + i - 1],
             IF minWeight > 1 THEN <<Cells(start, skipped, <<symbol>>, nbBits)>> ELSE <<>>, Second)

\* The ranges of the first symbols of a weight, each of them a table of its own.
OneWeightX2(stats, targetLog, starts, maxW, r, w) ==
  LET nbBits == stats.tableLog + 1 - w
      length == 2 ^ (targetLog - nbBits)
  IN ForEach(OfWeight(stats.weights, w), [next |-> starts[w], ranges |-> r],
             LAMBDA q, s :
               [next |-> q.next + length,
                ranges |-> Append(q.ranges,
                  [from |-> q.next, length |-> length,
                   cells |-> IF targetLog - nbBits >= stats.tableLog + 1 - maxW
                             THEN Level2(stats, targetLog, starts, maxW, s, nbBits, q.next)
                             ELSE <<Cells(q.next, length, <<s>>, nbBits)>>])]).ranges

\* From what HUF_readDTableX2_wksp gets out of readStats.
TableX2(stats, maxTableLog) ==
  LET targetLog == IF stats.tableLog <= HUF_DECODER_FAST_TABLELOG /\ maxTableLog > HUF_DECODER_FAST_TABLELOG
                   THEN HUF_DECODER_FAST_TABLELOG ELSE maxTableLog
      maxW      == CHOOSE w \in 1 .. stats.tableLog : /\ \E i \in DOMAIN stats.weights : stats.weights[i] = w
                                                      /\ \A i \in DOMAIN stats.weights : stats.weights[i] <= w
  IN IF stats.tableLog > maxTableLog THEN [size |-> Error]
     ELSE With([w \in 1 .. maxW |-> RankVal(stats, targetLog, w)],
               LAMBDA starts : [size |-> stats.size, type |-> 2, tableLog |-> targetLog,
                                ranges |-> ForEach([w \in 1 .. maxW |-> w], <<>>,
                                                   LAMBDA r, w : OneWeightX2(stats, targetLog, starts, maxW, r, w))])

readDTable(dctx, bits, symbols) ==
  With(readStats(dctx.reg, bits),
       LAMBDA stats : CASE stats.size = Error -> stats
                        [] stats.size # Error /\ symbols = 1 -> TableX1(stats, dctx.maxTableLog)
                        [] OTHER -> TableX2(stats, dctx.maxTableLog))

CellOf(table, val) == IF table.type = 1 THEN Cell(table.ranges, val)
                      ELSE With(Cell(table.ranges, val), LAMBDA first : Cell(first.cells, val))

\* What the codes tell a table apart from one that is left with holes, or filled beyond.
TableIsWhole(table) ==
  /\ Filled(table.ranges, 2 ^ table.tableLog)
  /\ table.type = 2 =>
       \A i \in 1 .. Len(table.ranges) :
         LET r == table.ranges[i]
         IN /\ \A val \in r.from .. r.from + r.length - 1 :
                 \E j \in 1 .. Len(r.cells) : r.cells[j].from <= val /\ val < r.cells[j].from + r.cells[j].length
            /\ \A j \in 1 .. Len(r.cells) : r.cells[j].from + r.cells[j].length <= r.from + r.length
-----------------------------------------------------------------------------
(* Decoding. c has the register's bytes, the table and the ends of the parts *)
(* of the text; d has what is written, and a reader and a place to write at *)
(* for each stream. A symbol of a table for two is written as two bytes,    *)
(* the second of them over what may not be its own: inside says that it is. *)

Written(c, d, k, symbols) ==
  LET p == d.p[k]
      n == IF c.table.type = 2 THEN 2 ELSE 1
      o == IF p \in DOMAIN d.out THEN [d.out EXCEPT ![p] = symbols[1]] ELSE d.out
  IN [d EXCEPT !.p[k] = p + Len(symbols), !.inside = @ /\ p + n <= c.ends[k],
               !.out = IF p + 1 \in DOMAIN o /\ n = 2
                       THEN [o EXCEPT ![p + 1] = IF Len(symbols) = 2 THEN symbols[2] ELSE 0] ELSE o]

\* HUF_decodeSymbolX1 and HUF_decodeSymbolX2, n times.
decodeSymbol(c, d, k, n) ==
  Iterated(n, d, LAMBDA x : With(CellOf(c.table, lookBitsFast(x.r[k], c.table.tableLog)),
                   LAMBDA e : Written(c, [x EXCEPT !.r[k] = skipBits(@, e.nbBits)], k, e.symbols)))

\* Not the code: the last symbol takes what its whole cell takes.
decodeLastCell(c, d, k) ==
  With(CellOf(c.table, lookBitsFast(d.r[k], c.table.tableLog)),
       LAMBDA e : [d EXCEPT !.r[k].consumed = @ + e.nbBits, !.p[k] = @ + 1, !.out[d.p[k]] = e.symbols[1]])

\* Half of two symbols: what was left in the register was for the first.
decodeLastSymbolX2(c, d, k) ==
  LET full    == 8 * c.reg
      used    == d.r[k].consumed
      Skip(e) == IF Len(e.symbols) = 1 THEN used + e.nbBits
                 ELSE IF used < full THEN Least(used + e.nbBits, full) ELSE used
  IN With(CellOf(c.table, lookBitsFast(d.r[k], c.table.tableLog)),
          LAMBDA e : [d EXCEPT !.r[k].consumed = Skip(e), !.p[k] = @ + 1, !.out[d.p[k]] = e.symbols[1],
                               !.inside = @ /\ d.p[k] < c.ends[k]])

Reloaded(d, k) == [d EXCEPT !.r[k] = reloadDStream(@)]

\* So many symbols at a time, as long as that far from the end of the part, and as long as the
\* register can be filled, which may be done first. A loop may want some room to begin with.
Filling(symbols, gap) == [symbols |-> symbols, gap |-> gap, reload |-> TRUE, room |-> 0]
Draining(gap)         == [Filling(1, gap) EXCEPT !.reload = FALSE]
Refill                == Filling(0, 0)

DecodingLoop(c, d, k, s) ==
  LET times == IF s.symbols = 0 THEN 1 ELSE ((c.ends[k] - d.p[k]) \div s.symbols) + 1
  IN IF c.ends[k] - d.p[k] < s.room THEN d
     ELSE Iterated(times, d,
            LAMBDA x : With(IF s.reload THEN Reloaded(x, k) ELSE x,
              LAMBDA e : IF (s.reload => e.r[k].status = "unfinished") /\ e.p[k] < c.ends[k] - s.gap
                         THEN decodeSymbol(c, e, k, s.symbols) ELSE e))

decodeStreamX1(c, room) ==
  <<IF room > 3 THEN Filling(IF c.reg = 8 THEN 4 ELSE 2, 3) ELSE Refill>>
    \o (IF c.reg = 4 THEN <<Filling(1, 0)>> ELSE <<>>) \o <<Draining(0)>>

decodeStreamX2(c, room) ==
  <<CASE room < c.reg -> Refill
      [] room >= c.reg /\ c.table.tableLog <= 11 /\ c.reg = 8 -> Filling(5, 9)
      [] OTHER -> Filling(IF c.reg = 8 THEN 4 ELSE 2, c.reg - 1),
    [Filling(1, 1) EXCEPT !.room = 2], Draining(1)>>

decodeStream(c, d, k) ==
  With(ForEach(IF c.table.type = 1 THEN decodeStreamX1(c, c.ends[k] - d.p[k]) ELSE decodeStreamX2(c, c.ends[k] - d.p[k]), d,
               LAMBDA x, s : DecodingLoop(c, x, k, s)),
       LAMBDA x : IF c.table.type = 2 /\ x.p[k] < c.ends[k] THEN decodeLastSymbolX2(c, x, k) ELSE x)

Whole(d, dstSize) == [at |-> "end", out |-> [i \in 1 .. dstSize |-> d.out[i - 1]], inside |-> d.inside]

\* HUF_decompress1X1_usingDTable_internal_body and HUF_decompress1X2_usingDTable_internal_body.
decompress1X(c, dstSize, bits, start) ==
  With(initDStream(bits, start, Len(bits) \div 8 - start, c.reg),
       LAMBDA r : IF ~r.ok THEN Damaged
                  ELSE With(decodeStream(c, [out |-> [i \in 0 .. dstSize |-> 0], r |-> <<r>>, p |-> <<0>>, inside |-> TRUE], 1),
                            LAMBDA d : IF endOfDStream(d.r[1]) THEN Whole(d, dstSize) ELSE Damaged))
-----------------------------------------------------------------------------
(* Four streams, behind the sizes of the first three.                        *)

StreamStarts(bits, start) ==
  LET l1 == LE16(bits, start)
      l2 == LE16(bits, start + 2)
      l3 == LE16(bits, start + 4)
  IN <<start + 6, start + 6 + l1, start + 6 + l1 + l2, start + 6 + l1 + l2 + l3, Len(bits) \div 8>>

SegmentStarts(dstSize) == [k \in 1 .. 4 |-> (k - 1) * ((dstSize + 3) \div 4)]
SegmentEnds(dstSize)   == [k \in 1 .. 4 |-> Least(k * ((dstSize + 3) \div 4), dstSize)]

\* A part of each of the four, as long as the last one is far from its end.
FourParts(c, d) ==
  With(ForEach(<<1, 2, 3, 4>>, d,
               LAMBDA x, k : With(decodeSymbol(c, x, k, IF c.reg = 8 THEN 4 ELSE 2),
                                  LAMBDA e : [e EXCEPT !.r[k] = reloadDStreamFast(@)])),
       LAMBDA e : [e EXCEPT !.endSignal = \A k \in 1 .. 4 : e.r[k].status = "unfinished"])

\* All four go in step while each can be filled; then one after the other.
FourStreams(c, r, dstSize) ==
  LET olimit == dstSize - (IF c.table.type = 1 THEN 3 ELSE c.reg - 1)
      start  == [out |-> [i \in 0 .. dstSize |-> 0], r |-> r, p |-> SegmentStarts(dstSize), inside |-> TRUE, endSignal |-> TRUE]
      rounds == IF dstSize - SegmentStarts(dstSize)[4] >= c.reg THEN dstSize ELSE 0
  IN With(Iterated(rounds, start, LAMBDA x : IF ~x.endSignal \/ x.p[4] >= olimit THEN x ELSE FourParts(c, x)),
          LAMBDA x : IF \E k \in 1 .. 3 : x.p[k] > SegmentStarts(dstSize)[k + 1] THEN Damaged
                     ELSE With(ForEach(<<1, 2, 3, 4>>, x, LAMBDA e, k : decodeStream(c, e, k)),
                               LAMBDA d : IF \A k \in 1 .. 4 : endOfDStream(d.r[k]) THEN Whole(d, dstSize) ELSE Damaged))

decompress4X(c, dstSize, bits, start) ==
  IF Len(bits) \div 8 - start < 10 \/ dstSize < 6 THEN Damaged
  ELSE With(StreamStarts(bits, start),
    LAMBDA at : IF at[4] > at[5] \/ SegmentStarts(dstSize)[4] > dstSize THEN Damaged
                ELSE With([k \in 1 .. 4 |-> initDStream(bits, at[k], at[k + 1] - at[k], c.reg)],
                          LAMBDA r : IF \E k \in 1 .. 4 : ~r[k].ok THEN Damaged ELSE FourStreams(c, r, dstSize)))
-----------------------------------------------------------------------------
(* The fast loop keeps eight bytes of each stream in a register whose lowest *)
(* bit is a mark: how far it was shifted says how much is used. So many      *)
(* rounds run before the bounds are looked at as none of them can be met.   *)

initFastDStream(bits, ip) ==
  LET lastByte == Byte(bits, ip + 7)
  IN [ip |-> ip, used |-> IF lastByte = 0 THEN 0 ELSE 8 - highbit32(lastByte), marked |-> FALSE]

\* The bits on top of a register; the mark is only read when too many were taken from it.
TopBits(bits, s, n) ==
  LET bit(i) == CASE i < 0 -> 0 [] i = 0 -> 1 [] OTHER -> bits[8 * s.ip + i + 1]
      v[i \in 0 .. n] == IF i = n THEN 0 ELSE v[i + 1] + 2 ^ (n - 1 - i) * bit(63 - s.used - i)
  IN v[0]

FastSymbols(c, d, k) ==
  With(Iterated(5, d,
         LAMBDA x : With(CellOf(c.table, TopBits(c.bits, x.s[k], HUF_DECODER_FAST_TABLELOG)),
           LAMBDA e : Written(c, [x EXCEPT !.s[k].used = @ + e.nbBits,
                                           !.s[k].marked = @ \/ x.s[k].used + HUF_DECODER_FAST_TABLELOG > 63], k, e.symbols))),
       LAMBDA x : [x EXCEPT !.s[k].ip = @ - (x.s[k].used \div 8), !.s[k].used = @ % 8])

\* Every round gives 5 symbols, or up to 10, of each stream and takes up to 7 bytes.
SafeRounds(c, d) ==
  LET taken == (d.s[1].ip - c.ilowest) \div 7
  IN IF c.table.type = 1 THEN Least((c.ends[4] - d.p[4]) \div 5, taken)
     ELSE CHOOSE n \in {taken} \cup {(c.ends[k] - d.p[k]) \div 10 : k \in 1 .. 4} :
            n <= taken /\ \A k \in 1 .. 4 : n <= (c.ends[k] - d.p[k]) \div 10

\* No stream may have read into the one before.
Limited(c, d) ==
  With(SafeRounds(c, d), LAMBDA iters : IF iters = 0 \/ (\E k \in 2 .. 4 : d.s[k].ip < d.s[k - 1].ip) THEN [d EXCEPT !.done = TRUE]
                                        ELSE [d EXCEPT !.olimit = d.p[4] + 5 * iters])

fast_c_loop(c, d) ==
  Iterated(2 * (c.ends[4] - d.p[4]) + 2, d,
           LAMBDA x : CASE x.done -> x
                        [] ~x.done /\ x.p[4] < x.olimit -> ForEach(<<1, 2, 3, 4>>, x, LAMBDA e, k : FastSymbols(c, e, k))
                        [] OTHER -> Limited(c, x))

\* The rest of a stream, with the reader of the other loops: nothing may have been written
\* behind its part, or read before its first byte.
initRemainingDStream(c, d, k) ==
  IF d.p[k] > c.ends[k] \/ d.s[k].ip < c.iend[k] - 8 THEN [ok |-> FALSE]
  ELSE [ok |-> TRUE, reg |-> 8, bits |-> c.bits, start |-> c.ilowest, end |-> Len(c.bits) \div 8,
        ptr |-> d.s[k].ip, status |-> "unfinished", fits |-> TRUE, consumed |-> d.s[k].used]

Remaining(c, d, k) ==
  IF d.damaged THEN d
  ELSE With(initRemainingDStream(c, d, k),
            LAMBDA r : IF ~r.ok THEN [d EXCEPT !.damaged = TRUE]
                       ELSE With(decodeStream(c, [d EXCEPT !.r[k] = r], k), LAMBDA e : [e EXCEPT !.damaged = e.p[k] # c.ends[k]]))

FourFastStreams(c, dstSize) ==
  LET start == [out |-> [i \in 0 .. dstSize |-> 0], inside |-> TRUE, p |-> SegmentStarts(dstSize), r |-> <<0, 0, 0, 0>>,
                s |-> [k \in 1 .. 4 |-> initFastDStream(c.bits, c.iend[k + 1] - 8)], olimit |-> 0, done |-> FALSE, damaged |-> FALSE]
  IN With(With(start, LAMBDA d : fast_c_loop(c, d)),
          LAMBDA d : With(ForEach(<<1, 2, 3, 4>>, d, LAMBDA x, k : Remaining(c, x, k)),
            LAMBDA e : IF e.damaged THEN Damaged ELSE [Whole(e, dstSize) EXCEPT !.inside = @ /\ \A k \in 1 .. 4 : ~e.s[k].marked]))

\* "fallback" when the other loop has to do it. There is no check that a stream was read to its end.
decompress4X_fast(c, dstSize, bits, start) ==
  LET Fallback == [at |-> "fallback"]
      srcSize  == Len(bits) \div 8 - start
      Streams(at) ==
        CASE (\E k \in 1 .. 3 : at[k + 1] - at[k] < 8) \/ at[5] - at[4] \in 0 .. 7 -> "fallback"
          [] at[4] > at[5] -> "damaged"
          [] (\A k \in 1 .. 4 : at[k + 1] - at[k] >= 8) /\ SegmentStarts(dstSize)[4] >= dstSize -> "fallback"
          [] OTHER -> "streams"
  IN CASE c.reg = 4 \/ dstSize = 0 -> Fallback
       [] c.reg = 8 /\ dstSize # 0 /\ srcSize < 10 -> Damaged
       [] c.reg = 8 /\ dstSize # 0 /\ srcSize >= 10 /\ c.table.tableLog # HUF_DECODER_FAST_TABLELOG -> Fallback
       [] OTHER -> With(StreamStarts(bits, start),
                        LAMBDA at : CASE Streams(at) = "fallback" -> Fallback [] Streams(at) = "damaged" -> Damaged
                                      [] OTHER -> With([c EXCEPT !.iend = at], LAMBDA f : FourFastStreams(f, dstSize)))
-----------------------------------------------------------------------------
(* Which decoder is taken. dctx has the register's bytes, whether the fast   *)
(* loop may be used, and the largest logarithm of its table's size, which   *)
(* is kept for texts that come without a header.                            *)

algoTime ==
  << <<<<0, 0>>, <<1, 1>>>>, <<<<0, 0>>, <<1, 1>>>>, <<<<150, 216>>, <<381, 119>>>>, <<<<170, 205>>, <<514, 112>>>>,
     <<<<177, 199>>, <<539, 110>>>>, <<<<197, 194>>, <<644, 107>>>>, <<<<221, 192>>, <<735, 107>>>>,
     <<<<256, 189>>, <<881, 106>>>>, <<<<359, 188>>, <<1167, 109>>>>, <<<<582, 187>>, <<1570, 114>>>>,
     <<<<688, 187>>, <<1712, 122>>>>, <<<<825, 186>>, <<1965, 136>>>>, <<<<976, 185>>, <<2131, 150>>>>,
     <<<<1180, 186>>, <<2070, 175>>>>, <<<<1377, 185>>, <<1731, 202>>>>, <<<<1412, 185>>, <<1695, 202>>>> >>

\* The number of symbols at a time that are likely to be decoded faster.
HUF_selectDecoder(dstSize, srcSize) ==
  LET Q       == IF srcSize >= dstSize THEN 15 ELSE (srcSize * 16) \div dstSize
      Time(a) == algoTime[Q + 1][a][1] + algoTime[Q + 1][a][2] * (dstSize \div TimeUnit)
  IN IF Time(2) + Time(2) \div 32 < Time(1) THEN 2 ELSE 1

\* HUF_decompress1X1_DCtx_wksp decodes one stream, HUF_decompress4X_hufOnly_wksp four of them.
symbolsAtOnce(streams, dstSize, srcSize) == IF streams = 1 THEN 1 ELSE HUF_selectDecoder(dstSize, srcSize)

\* HUF_decompress1X_usingDTable and HUF_decompress4X_usingDTable; the bytes are those from start on.
usingDTable(dctx, table, dstSize, bits, start, streams) ==
  With([reg |-> dctx.reg, table |-> table, bits |-> bits, ilowest |-> start, iend |-> <<>>,
        ends |-> IF streams = 1 THEN <<dstSize>> ELSE SegmentEnds(dstSize)],
       LAMBDA c : With(CASE streams = 1 -> decompress1X(c, dstSize, bits, start)
                         [] streams = 4 /\ dctx.fast -> decompress4X_fast(c, dstSize, bits, start)
                         [] OTHER -> [at |-> "fallback"],
         LAMBDA d : IF d.at = "fallback" THEN decompress4X(c, dstSize, bits, start) ELSE d))

\* A table that is the whole text is not followed by anything.
decompress_DCtx(dctx, table, dstSize, bits, streams) ==
  IF table.size = Error \/ (table.size # Error /\ table.size >= Len(bits) \div 8) THEN Damaged
  ELSE usingDTable(dctx, table, dstSize, bits, table.size, streams)
=============================================================================

----------------------------- MODULE FseCoding -----------------------------
(***************************************************************************)
(* The streams of bits of bitstream.h, and finite state entropy: counts    *)
(* that are scaled to a power of two, their header, and the tables of both *)
(* sides. A stream is the sequence of its bits, lowest of a byte first; it *)
(* is written forwards through a register and read backwards through one.  *)
(***************************************************************************)
LOCAL INSTANCE Integers
LOCAL INSTANCE Sequences
LOCAL INSTANCE SequencesExt
LOCAL INSTANCE Parsing

CONSTANT
  Precision   \* 62: bits of the fixed point in which counts are scaled

FSE_MIN_TABLELOG == 5
FSE_MAX_TABLELOG == 12
FSE_TABLELOG_ABSOLUTE_MAX == 15
FSE_NCOUNTBOUND == 512

Error == -1

LOCAL Least(a, b) == IF a <= b THEN a ELSE b
LOCAL Zeros(n)    == [i \in 1 .. n |-> 0]

Counted(n) == [i \in 1 .. n |-> i - 1]
SumOver(f) == ForEach(Counted(Cardinality(DOMAIN f)), 0, LAMBDA r, s : r + f[s])
BitsOf(value, n) == [i \in 1 .. n |-> (value \div 2 ^ (i - 1)) % 2]
-----------------------------------------------------------------------------
(* Writing. fits says that no assertion of the code failed: nothing was lost *)
(* at the top of the register, or written behind the buffer.                *)

initCStream(reg, capacity) ==
  [reg |-> reg, bits |-> <<>>, bitPos |-> 0, ptr |-> 0, end |-> capacity - reg, fits |-> TRUE]

addBits(w, bits) ==
  [w EXCEPT !.bits = @ \o bits, !.bitPos = @ + Len(bits), !.fits = @ /\ w.bitPos + Len(bits) < 8 * w.reg]

flushBitsFast(w) ==
  [w EXCEPT !.ptr = @ + (w.bitPos \div 8), !.bitPos = @ % 8, !.fits = @ /\ w.ptr <= w.end]

\* Not the code: a flush that does not stop at the end of the buffer.
flushAnywhere(w) == flushBitsFast(w)

flushBits(w) == [flushBitsFast(w) EXCEPT !.ptr = Least(w.ptr + (w.bitPos \div 8), w.end)]

\* The stream, and 0 as its size when it did not fit.
closeCStream(w) ==
  LET Closed(c, size) == [size |-> size, fits |-> c.fits,
                          bits |-> IF size = 0 THEN <<>> ELSE c.bits \o Zeros(8 * size - Len(c.bits))]
  IN With(flushBits(addBits(w, <<1>>)),
          LAMBDA c : Closed(c, IF c.ptr >= c.end THEN 0 ELSE c.ptr + (IF c.bitPos > 0 THEN 1 ELSE 0)))
-----------------------------------------------------------------------------
(* Reading the bytes from start to end of bits.                              *)

initDStream(bits, start, size, reg) ==
  LET lastByte == SubSeq(bits, 8 * (start + size) - 7, 8 * (start + size))
      mark     == CHOOSE i \in 1 .. 8 : lastByte[i] = 1 /\ \A j \in i + 1 .. 8 : lastByte[j] = 0
  IN IF size < 1 \/ lastByte = Zeros(8) THEN [ok |-> FALSE]
     ELSE [ok |-> TRUE, reg |-> reg, bits |-> bits, start |-> start, end |-> start + size,
           ptr |-> IF size >= reg THEN start + size - reg ELSE start, status |-> "unfinished", fits |-> TRUE,
           consumed |-> (9 - mark) + (IF size >= reg THEN 0 ELSE 8 * (reg - size))]

\* Bit i of the register; what is above a short stream is zero.
InRegister(r, i) ==
  IF 0 <= i /\ 8 * r.ptr + i < 8 * r.end /\ i < 8 * r.reg THEN r.bits[8 * r.ptr + i + 1] ELSE 0

lookBits(r, n) ==
  LET low     == (8 * r.reg - r.consumed - n) % (8 * r.reg)
      v[i \in 0 .. n] == IF i = n THEN 0 ELSE InRegister(r, low + i) + 2 * v[i + 1]
  IN v[0]

\* What is wanted beyond the lowest bit of the register is zero here.
lookBitsFast(r, n) ==
  LET low     == 8 * r.reg - (r.consumed % (8 * r.reg)) - n
      v[i \in 0 .. n] == IF i = n THEN 0 ELSE InRegister(r, low + i) + 2 * v[i + 1]
  IN v[0]

skipBits(r, n) == [r EXCEPT !.consumed = @ + n]

\* Reading more than the register holds is what only a damaged stream may do.
readBits(r, n)     == [value |-> lookBits(r, n), reader |-> skipBits(r, n)]
readBitsFast(r, n) == [value |-> lookBitsFast(r, n), reader |-> [skipBits(r, n) EXCEPT !.fits = @ /\ n >= 1]]

reloadInternal(r) ==
  [r EXCEPT !.ptr = @ - (r.consumed \div 8), !.consumed = @ % 8, !.status = "unfinished"]

reloadDStreamFast(r) == IF r.ptr < r.start + r.reg THEN [r EXCEPT !.status = "overflow"] ELSE reloadInternal(r)

reloadDStream(r) ==
  LET nbBytes == Least(r.consumed \div 8, r.ptr - r.start)
  IN CASE r.consumed > 8 * r.reg -> [r EXCEPT !.status = "overflow"]
       [] r.consumed <= 8 * r.reg /\ r.ptr >= r.start + r.reg -> reloadInternal(r)
       [] r.consumed <= 8 * r.reg /\ r.ptr = r.start ->
            [r EXCEPT !.status = IF r.consumed < 8 * r.reg THEN "endOfBuffer" ELSE "completed"]
       [] OTHER ->
            [r EXCEPT !.ptr = @ - nbBytes, !.consumed = @ - 8 * nbBytes,
                      !.status = IF nbBytes < r.consumed \div 8 THEN "endOfBuffer" ELSE "unfinished"]

endOfDStream(r) == r.ptr = r.start /\ r.consumed = 8 * r.reg
-----------------------------------------------------------------------------
(* How large a table has to be, and counts that are scaled to its size.     *)

minTableLog(srcSize, max) == Least(highbit32(srcSize) + 1, highbit32(max) + 2)

\* A difference below zero is a large number.
optimalTableLog_internal(maxTableLog, srcSize, max, minus) ==
  LET Enough(bits, least) ==
        CASE bits \in 0 .. maxTableLog /\ bits >= least -> bits
          [] bits \in 0 .. maxTableLog /\ bits < least -> least
          [] OTHER -> IF least > maxTableLog THEN least ELSE maxTableLog
      Allowed(log) == CASE log < FSE_MIN_TABLELOG -> FSE_MIN_TABLELOG
                        [] log > FSE_MAX_TABLELOG -> FSE_MAX_TABLELOG
                        [] OTHER -> log
  IN Allowed(Enough(highbit32(srcSize - 1) - minus, minTableLog(srcSize, max)))

optimalTableLog(maxTableLog, srcSize, max) == optimalTableLog_internal(maxTableLog, srcSize, max, 2)

\* What is left goes to those that are not yet assigned, in proportion. It fails when
\* one of them would get nothing.
Proportional(norm, counts, total, toDistribute, tableLog) ==
  LET vStepLog == Precision - tableLog
      mid      == 2 ^ (vStepLog - 1) - 1
      rStep    == (2 ^ vStepLog * toDistribute + mid) \div total
      Weight(r, s, end) ==
        With((end \div 2 ^ vStepLog) - (r.tmp \div 2 ^ vStepLog),
             LAMBDA weight : [tmp |-> end, norm |-> [r.norm EXCEPT ![s] = weight], ok |-> r.ok /\ weight >= 1])
  IN With(ForEach([i \in 1 .. Cardinality(DOMAIN norm) |-> i - 1], [tmp |-> mid, norm |-> norm, ok |-> TRUE],
                  LAMBDA r, s : IF norm[s] # -2 THEN r ELSE Weight(r, s, r.tmp + counts[s] * rStep)),
          LAMBDA r : IF r.ok THEN r.norm ELSE <<>>)

\* FSE_normalizeM2: rare symbols get one each before the others share the rest.
Assigned(norm)         == {s \in DOMAIN norm : norm[s] \notin {0, -2}}
Unassigned(norm, counts) == SumOver([s \in DOMAIN norm |-> IF norm[s] = -2 THEN counts[s] ELSE 0])
ToShare(norm, tableLog)  == 2 ^ tableLog - Cardinality(Assigned(norm))

WithOnes(norm, counts, left, share, lowOne) ==
  IF left \div share <= lowOne THEN norm
  ELSE [s \in DOMAIN norm |-> IF norm[s] = -2 /\ counts[s] <= (left * 3) \div (share * 2) THEN 1 ELSE norm[s]]

SharedOut(norm, share) ==
  LET positive == {s \in DOMAIN norm : norm[s] > 0}
      rank(s)  == Cardinality({t \in positive : t < s})
  IN [s \in DOMAIN norm |-> IF s \notin positive THEN norm[s]
                            ELSE norm[s] + (share \div Cardinality(positive))
                                 + (IF rank(s) < share % Cardinality(positive) THEN 1 ELSE 0)]

FirstLargest(f, S) == CHOOSE s \in S : \A t \in S : f[t] < f[s] \/ (f[t] = f[s] /\ s <= t)

Distributed(norm, counts, left, share, tableLog) ==
  CASE Assigned(norm) = DOMAIN norm -> [norm EXCEPT ![FirstLargest(counts, DOMAIN norm)] = @ + share]
    [] Assigned(norm) # DOMAIN norm /\ left = 0 -> SharedOut(norm, share)
    [] OTHER -> Proportional(norm, counts, left, share, tableLog)

normalizeM2(counts, total, tableLog, lowProbCount) ==
  LET lowThreshold == total \div 2 ^ tableLog
      lowOne       == (total * 3) \div 2 ^ (tableLog + 1)
      first == [s \in DOMAIN counts |-> CASE counts[s] = 0 -> 0 [] counts[s] \in 1 .. lowThreshold -> lowProbCount
                                          [] counts[s] \in lowThreshold + 1 .. lowOne -> 1 [] OTHER -> -2]
  IN IF ToShare(first, tableLog) = 0 THEN first
     ELSE With(With(first, LAMBDA norm : WithOnes(norm, counts, Unassigned(norm, counts), ToShare(norm, tableLog), lowOne)),
               LAMBDA norm : Distributed(norm, counts, Unassigned(norm, counts), ToShare(norm, tableLog), tableLog))

rtbTable == <<0, 473195, 504333, 520860, 550000, 700000, 750000, 830000>>

\* A share in the table: the smaller it is, the more likely it is rounded up.
Proba(scaled, scale) ==
  LET proba == scaled \div 2 ^ scale
  IN IF proba < 8 /\ scaled - proba * 2 ^ scale > 2 ^ (scale - 20) * rtbTable[proba + 1] THEN proba + 1 ELSE proba

\* What is missing goes to the most frequent symbol, unless that is too much of it.
Completed(norm, counts, tableLog, total, lowProbCount) ==
  LET frequent == {s \in DOMAIN counts : counts[s] > total \div 2 ^ tableLog}
  IN With([largest |-> IF frequent = {} THEN 0 ELSE FirstLargest(norm, frequent),
           still |-> 2 ^ tableLog - SumOver([s \in DOMAIN counts |-> IF norm[s] = -1 THEN 1 ELSE norm[s]])],
          LAMBDA c : IF -c.still >= norm[c.largest] \div 2 THEN normalizeM2(counts, total, tableLog, lowProbCount)
                     ELSE [norm EXCEPT ![c.largest] = @ + c.still])

\* The counts as shares of 2^tableLog; <<>> for an error. One symbol alone (rle) has no table.
normalizeCount(counts, tableLog, total, useLowProbCount) ==
  LET lowProbCount == IF useLowProbCount THEN -1 ELSE 1
      first == [s \in DOMAIN counts |-> CASE counts[s] = 0 -> 0
                                          [] counts[s] \in 1 .. total \div 2 ^ tableLog -> lowProbCount
                                          [] OTHER -> Proba(counts[s] * (2 ^ Precision \div total), Precision - tableLog)]
  IN IF \/ tableLog \notin FSE_MIN_TABLELOG .. FSE_MAX_TABLELOG
        \/ tableLog < minTableLog(total, Cardinality(DOMAIN counts) - 1) THEN <<>>
     ELSE With(first, LAMBDA norm : Completed(norm, counts, tableLog, total, lowProbCount))
-----------------------------------------------------------------------------
(* The header: runs of zeros in steps of 24, 3 and 1, and every share in     *)
(* as many bits as what remains asks for.                                   *)

NCountWriteBound(max, tableLog) ==
  IF max = 0 THEN FSE_NCOUNTBOUND ELSE (((max + 1) * tableLog + 4 + 2) \div 8) + 1 + 2

Pending(w) == Len(w.bits) - 8 * w.out

\* Two bytes of the register go out, if there is room or nobody asks.
Flushed(w) ==
  IF ~w.safe /\ w.out > w.size - 2 THEN [w EXCEPT !.ok = FALSE]
  ELSE [w EXCEPT !.out = @ + 2, !.fits = @ /\ Pending(w) <= 32 /\ w.out + 2 <= w.size]

FlushedIfFull(w) == IF Pending(w) > 16 THEN Flushed(w) ELSE w
Put(w, bits)     == [w EXCEPT !.bits = @ \o bits]
Ones(n)          == [i \in 1 .. n |-> 1]

\* The zeros behind a zero that is already coded.
WriteZeros(w, norm, max) ==
  LET next == CHOOSE s \in w.symbol .. max + 1 :
                (s = max + 1 \/ norm[s] # 0) /\ \A t \in w.symbol .. s - 1 : norm[t] = 0
      k    == next - w.symbol
  IN IF next = max + 1 THEN [w EXCEPT !.symbol = next, !.stop = TRUE]
     ELSE FlushedIfFull(Put([Iterated(k \div 24, w, LAMBDA v : Flushed(Put(v, Ones(16)))) EXCEPT !.symbol = next],
                            Ones(2 * ((k % 24) \div 3)) \o BitsOf((k % 24) % 3, 2)))

WriteShare(w, norm) ==
  LET share     == norm[w.symbol]
      max       == 2 * w.threshold - 1 - w.remaining
      code     == share + 1
      shifted   == IF code >= w.threshold THEN code + max ELSE code
      remaining == w.remaining - (IF share < 0 THEN -share ELSE share)
      less      == CHOOSE k \in 0 .. w.nbBits :
                     remaining >= w.threshold \div 2 ^ k /\ (k > 0 => remaining < w.threshold \div 2 ^ (k - 1))
  IN IF remaining < 1 THEN [w EXCEPT !.ok = FALSE]
     ELSE FlushedIfFull([Put(w, BitsOf(shifted, w.nbBits - (IF shifted < max THEN 1 ELSE 0)))
            EXCEPT !.symbol = @ + 1, !.remaining = remaining, !.previousIs0 = (share = 0),
                   !.nbBits = @ - less, !.threshold = @ \div 2 ^ less])

writeNCount(bufferSize, norm, max, tableLog) ==
  LET start == [bits |-> BitsOf(tableLog - FSE_MIN_TABLELOG, 4), out |-> 0, size |-> bufferSize,
                safe |-> bufferSize >= NCountWriteBound(max, tableLog), symbol |-> 0,
                remaining |-> 2 ^ tableLog + 1, threshold |-> 2 ^ tableLog, nbBits |-> tableLog + 1,
                previousIs0 |-> FALSE, stop |-> FALSE, ok |-> TRUE, fits |-> TRUE]
      Share(w) == IF w.stop \/ ~w.ok THEN w ELSE WriteShare(w, norm)
      Step(w)  == IF w.stop \/ ~w.ok \/ w.symbol > max \/ w.remaining <= 1 THEN w
                  ELSE With(IF w.previousIs0 THEN WriteZeros(w, norm, max) ELSE w, Share)
      Result(w) ==
        LET size == w.out + ((Pending(w) + 7) \div 8)
        IN IF ~w.ok \/ w.remaining # 1 \/ (~w.safe /\ w.out > bufferSize - 2)
           THEN [size |-> Error, bits |-> <<>>, fits |-> w.fits]
           ELSE [size |-> size, bits |-> w.bits \o Zeros(8 * size - Len(w.bits)),
                 fits |-> w.fits /\ Pending(w) <= 16 /\ w.out + 2 <= bufferSize]
  IN With(Iterated(max + 1, start, Step), Result)
-----------------------------------------------------------------------------
(* Reading the header: 32 bits from a byte on, of which bitCount are used.   *)

HeaderValue(bits, r, n) ==
  LET v[i \in 0 .. n] == IF i = n THEN 0
                         ELSE (IF r.bitCount + i < 32 THEN bits[8 * r.ip + r.bitCount + i + 1] ELSE 0) + 2 * v[i + 1]
  IN v[0]

\* The number of pairs of ones that come next.
Repeats(bits, r) ==
  LET ones[i \in 0 .. 31] == IF i < 31 /\ r.bitCount + i < 32
                             THEN IF bits[8 * r.ip + r.bitCount + i + 1] = 1 THEN ones[i + 1] ELSE i
                             ELSE i
  IN ones[0] \div 2

\* The window goes to where it has to be read, but never over the end.
Moved(r, end) ==
  IF r.ip <= end - 7 \/ r.ip + (r.bitCount \div 8) <= end - 4
  THEN [r EXCEPT !.ip = @ + (r.bitCount \div 8), !.bitCount = @ % 8]
  ELSE [r EXCEPT !.ip = end - 4, !.bitCount = (@ - 8 * (end - 4 - r.ip)) % 32]

ManyZeros(bits, r, end) ==
  IF Repeats(bits, r) < 12 THEN r
  ELSE IF r.ip <= end - 7 THEN [r EXCEPT !.charnum = @ + 36, !.ip = @ + 3]
  ELSE [r EXCEPT !.charnum = @ + 36, !.ip = end - 4, !.bitCount = (@ - 8 * (end - 7 - r.ip)) % 32]

ReadZeros(bits, r, end, maxSV1) ==
  LET Some(q)  == With(Repeats(bits, q), LAMBDA n : [q EXCEPT !.charnum = @ + 3 * n, !.bitCount = @ + 2 * n])
      Final(q) == [q EXCEPT !.charnum = @ + HeaderValue(bits, q, 2), !.bitCount = @ + 2]
      Check(q) == IF q.charnum >= maxSV1 THEN [q EXCEPT !.stop = TRUE] ELSE Moved(q, end)
  IN With(With(With(Iterated(1 + maxSV1 \div 36, r, LAMBDA q : ManyZeros(bits, q, end)), Some), Final), Check)

ShareTaken(r, n, nbBits) ==
  [r EXCEPT !.bitCount = @ + nbBits, !.remaining = @ - (IF n < 0 THEN -n ELSE n),
            !.norm = [@ EXCEPT ![r.charnum] = n], !.charnum = @ + 1, !.previous0 = (n = 0)]


\* A smaller rest needs fewer bits.
Narrowed(r) ==
  IF r.remaining < r.threshold /\ r.remaining > 1
  THEN [r EXCEPT !.nbBits = highbit32(r.remaining) + 1, !.threshold = 2 ^ highbit32(r.remaining)] ELSE r

ReadShare(bits, r, end, maxSV1) ==
  LET max   == 2 * r.threshold - 1 - r.remaining
      Share(short, long) ==
        IF short < max THEN ShareTaken(r, short - 1, r.nbBits - 1)
        ELSE ShareTaken(r, (IF long >= r.threshold THEN long - max ELSE long) - 1, r.nbBits)
  IN With(Share(HeaderValue(bits, r, r.nbBits - 1), HeaderValue(bits, r, r.nbBits)),
          LAMBDA q : IF q.remaining <= 1 \/ q.charnum >= maxSV1 THEN [q EXCEPT !.stop = TRUE]
                     ELSE With(Narrowed(q), LAMBDA x : Moved(x, end)))

ReadEntry(bits, r, end, maxSV1) ==
  IF r.stop THEN r
  ELSE With(IF r.previous0 THEN ReadZeros(bits, r, end, maxSV1) ELSE r,
            LAMBDA q : IF q.stop THEN q ELSE ReadShare(bits, q, end, maxSV1))

\* A header of fewer than 8 bytes is read as if zeros followed.
readNCount(bits, maxSV) ==
  LET hbSize == Len(bits) \div 8
      end    == IF hbSize < 8 THEN 8 ELSE hbSize
      tableLog == bits[1] + 2 * bits[2] + 4 * bits[3] + 8 * bits[4] + FSE_MIN_TABLELOG
      start == [ip |-> 0, bitCount |-> 4, charnum |-> 0, remaining |-> 2 ^ tableLog + 1,
                threshold |-> 2 ^ tableLog, nbBits |-> tableLog + 1, previous0 |-> FALSE,
                norm |-> [s \in 0 .. maxSV |-> 0], stop |-> FALSE]
      Result(r) ==
        LET size == r.ip + ((r.bitCount + 7) \div 8)
        IN IF r.remaining # 1 \/ r.bitCount > 32 \/ size > hbSize THEN [size |-> Error]
           ELSE [size |-> size, tableLog |-> tableLog, max |-> r.charnum - 1,
                 norm |-> [s \in 0 .. r.charnum - 1 |-> r.norm[s]]]
  IN IF tableLog > FSE_TABLELOG_ABSOLUTE_MAX THEN [size |-> Error]
     ELSE With(With(bits \o Zeros(8 * (end - hbSize)),
                    LAMBDA text : Iterated(maxSV + 2, start, LAMBDA r : ReadEntry(text, r, end, maxSV + 1))), Result)
-----------------------------------------------------------------------------
(* The tables. Every symbol has as many cells as its share, spread by a     *)
(* step that visits them all; those of low probability are the last ones.   *)

FSE_TABLESTEP(tableSize) == (tableSize \div 2) + (tableSize \div 8) + 3

Spread(norm, tableLog) ==
  LET tableSize == 2 ^ tableLog
      symbols   == Counted(Cardinality(DOMAIN norm))
      low       == SelectSeq(symbols, LAMBDA s : norm[s] = -1)
      cells     == SelectSeq([j \in 1 .. tableSize |-> ((j - 1) * FSE_TABLESTEP(tableSize)) % tableSize],
                             LAMBDA c : c < tableSize - Len(low))
      Often(n)  == ForEach(symbols, <<>>, LAMBDA r, s : r \o [i \in 1 .. norm[s] |-> s])
      Placed(order) ==
        ForEach(Counted(tableSize), [c \in 0 .. tableSize - 1 |-> 0],
                LAMBDA t, j : IF j < Len(order) THEN [t EXCEPT ![cells[j + 1]] = order[j + 1]]
                              ELSE [t EXCEPT ![tableSize - 1 - (j - Len(order))] = low[j - Len(order) + 1]])
  IN With(Often(0), Placed)

\* Which state follows, and with how many bits, is found with two numbers of each symbol.
SymbolTransform(norm, tableLog) ==
  LET Share(n) == IF n = -1 THEN 1 ELSE n
      Entry(n, total) ==
        LET maxBitsOut == tableLog - highbit32(n - 1)
        IN CASE n = 0 -> [deltaNbBits |-> (tableLog + 1) * 65536 - 2 ^ tableLog, deltaFindState |-> 0]
             [] n \in {-1, 1} -> [deltaNbBits |-> tableLog * 65536 - 2 ^ tableLog, deltaFindState |-> total - 1]
             [] OTHER -> [deltaNbBits |-> maxBitsOut * 65536 - n * 2 ^ maxBitsOut, deltaFindState |-> total - n]
  IN ForEach(Counted(Cardinality(DOMAIN norm)), [total |-> 0, entries |-> <<>>],
             LAMBDA r, s : [total |-> r.total + Share(norm[s]), entries |-> Append(r.entries, Entry(norm[s], r.total))]).entries

buildCTable(norm, tableLog) ==
  LET tableSize == 2 ^ tableLog
      symbols   == Counted(Cardinality(DOMAIN norm))
      cumul     == ForEach(symbols, <<0>>, LAMBDA c, s : Append(c, c[Len(c)] + (IF norm[s] = -1 THEN 1 ELSE norm[s])))
      States(tableSymbol) ==
        ForEach(Counted(tableSize), [next |-> cumul, states |-> [i \in 0 .. tableSize - 1 |-> 0]],
                LAMBDA r, u : [next |-> [r.next EXCEPT ![tableSymbol[u] + 1] = @ + 1],
                               states |-> [r.states EXCEPT ![r.next[tableSymbol[u] + 1]] = tableSize + u]]).states
  IN [tableLog |-> tableLog, states |-> With(Spread(norm, tableLog), States), symbolTT |-> SymbolTransform(norm, tableLog)]

buildCTable_rle(symbol) ==
  [tableLog |-> 0, states |-> [i \in 0 .. 1 |-> 0],
   symbolTT |-> [s \in 1 .. symbol + 1 |-> [deltaNbBits |-> 0, deltaFindState |-> 0]]]

\* FSE_buildDTable and ZSTD_buildFSETable. fastMode: no symbol is read with no bits.
buildDTable(norm, tableLog) ==
  LET tableSize == 2 ^ tableLog
      Entry(symbol, next) ==
        LET nbBits == tableLog - highbit32(next)
        IN [symbol |-> symbol, nbBits |-> nbBits, newState |-> next * 2 ^ nbBits - tableSize]
      Entries(tableSymbol) ==
        ForEach(Counted(tableSize), [next |-> [s \in DOMAIN norm |-> IF norm[s] = -1 THEN 1 ELSE norm[s]], entries |-> <<>>],
                LAMBDA r, u : [next |-> [r.next EXCEPT ![tableSymbol[u]] = @ + 1],
                               entries |-> Append(r.entries, Entry(tableSymbol[u], r.next[tableSymbol[u]]))]).entries
  IN [tableLog |-> tableLog, entries |-> With(Spread(norm, tableLog), Entries),
      fastMode |-> \A s \in DOMAIN norm : norm[s] < 2 ^ (tableLog - 1)]

buildDTable_rle(symbol) ==
  [tableLog |-> 0, entries |-> <<[symbol |-> symbol, nbBits |-> 0, newState |-> 0]>>, fastMode |-> FALSE]
-----------------------------------------------------------------------------
(* The first symbol, which is read last, costs nothing: its state is the    *)
(* smallest one.                                                            *)

initCState2(ct, symbol) ==
  LET transform == ct.symbolTT[symbol + 1]
      nbBits    == (transform.deltaNbBits + 32768) \div 65536
      value     == nbBits * 65536 - transform.deltaNbBits
  IN ct.states[(value \div 2 ^ nbBits) + transform.deltaFindState]

nbBitsOut(ct, state, symbol) == (state + ct.symbolTT[symbol + 1].deltaNbBits) \div 65536

\* The state after a symbol, and the bits that it gives.
nextState(ct, state, symbol) ==
  ct.states[(state \div 2 ^ nbBitsOut(ct, state, symbol)) + ct.symbolTT[symbol + 1].deltaFindState]

outBits(ct, state, symbol) == BitsOf(state, nbBitsOut(ct, state, symbol))

flushCState(w, ct, state) == With(addBits(w, BitsOf(state, ct.tableLog)), flushBits)

FSE_BLOCKBOUND(size, reg) == size + (size \div 128) + 4 + reg

\* Two states take the symbols in turns, from the last one on; 0 if it does not fit.
FSE_encodeSymbol(c, ct, k, symbol) ==
  [c EXCEPT !.w = addBits(@, outBits(ct, c.state[k], symbol)), !.state[k] = nextState(ct, @, symbol)]

FlushedIf(c, wanted, fast) ==
  IF wanted THEN [c EXCEPT !.w = IF fast THEN flushBitsFast(@) ELSE flushBits(@)] ELSE c

compress_usingCTable(reg, dstSize, src, ct) ==
  LET n     == Len(src)
      fast  == dstSize >= FSE_BLOCKBOUND(n, reg)
      pairs == (n - 2) \div 2
      start == [w |-> initCStream(reg, dstSize),
                state |-> [k \in 1 .. 2 |-> initCState2(ct, src[IF n % 2 = 1 THEN n + 1 - k ELSE n - 2 + k])]]
      Begun == IF n % 2 = 0 THEN start ELSE FlushedIf(FSE_encodeSymbol(start, ct, 1, src[n - 2]), TRUE, fast)
      Pair(c, p) ==
        With(With(FSE_encodeSymbol(c, ct, 2, src[2 * (pairs - p)]),
                  LAMBDA e : FSE_encodeSymbol(e, ct, 1, src[2 * (pairs - p) - 1])),
             LAMBDA e : FlushedIf(e, reg = 4 \/ (pairs - p - 1) % 2 = 0, fast))
  IN IF n <= 2 \/ dstSize <= reg THEN [size |-> 0, bits |-> <<>>, fits |-> TRUE]
     ELSE With(ForEach(Counted(pairs), With(Begun, LAMBDA c : c), Pair),
               LAMBDA c : With(With(flushCState(c.w, ct, c.state[2]), LAMBDA w : flushCState(w, ct, c.state[1])), closeCStream))
-----------------------------------------------------------------------------
initDState(reader, table) ==
  With(readBits(reader, table.tableLog), LAMBDA r : [state |-> r.value, reader |-> reloadDStream(r.reader)])

FSE_decodeSymbol(table, d) ==
  LET k == (Len(d.out) % 2) + 1
  IN With(table.entries[d.state[k] + 1],
          LAMBDA e : With(IF table.fastMode THEN readBitsFast(d.reader, e.nbBits) ELSE readBits(d.reader, e.nbBits),
            LAMBDA r : [d EXCEPT !.reader = r.reader, !.state[k] = e.newState + r.value, !.out = Append(@, e.symbol)]))

\* Four symbols at a time while there is room and the stream is not yet all in the register,
\* then one by one, until more is read than there is.
FSE_decodeStep(reg, omax, table, d) ==
  LET reloads == (d.at = "tail" /\ Len(d.out) <= omax - 2)
                 \/ (d.at = "loop" /\ (Len(d.out) % 4 = 0 \/ (reg = 4 /\ Len(d.out) % 4 = 2)))
      Looped(c) == [c EXCEPT !.at = IF c.reader.status = "unfinished" /\ (Len(c.out) % 4 # 0 \/ Len(c.out) < omax - 3)
                                    THEN "loop" ELSE "tail"]
  IN CASE d.at \in {"end", "error"} -> d
       [] d.at = "loop" /\ reloads ->
            With(Looped([d EXCEPT !.reader = reloadDStream(@)]), LAMBDA c : IF c.at = "loop" THEN FSE_decodeSymbol(table, c) ELSE c)
       [] d.at = "loop" /\ ~reloads -> FSE_decodeSymbol(table, d)
       [] d.at = "tail" /\ ~reloads -> [d EXCEPT !.at = "error"]
       [] OTHER -> With(With(FSE_decodeSymbol(table, d), LAMBDA c : [c EXCEPT !.reader = reloadDStream(@)]),
                        LAMBDA c : IF c.reader.status = "overflow" THEN [FSE_decodeSymbol(table, c) EXCEPT !.at = "end"] ELSE c)

decompress_usingDTable(reg, omax, bits, start, size, table) ==
  LET Begun(r) ==
        With(initDState(r, table),
             LAMBDA a : With(initDState(a.reader, table),
                LAMBDA b : [reader |-> reloadDStream(b.reader), state |-> <<a.state, b.state>>, out |-> <<>>,
                            at |-> IF reloadDStream(b.reader).status = "overflow" THEN "error" ELSE "loop"]))
  IN With(initDStream(bits, start, size, reg),
          LAMBDA r : IF ~r.ok THEN [at |-> "error", out |-> <<>>]
                     ELSE Iterated(omax + 3, With(r, Begun), LAMBDA d : FSE_decodeStep(reg, omax, table, d)))

getMaxNbBits(ct, symbol) == (ct.symbolTT[symbol + 1].deltaNbBits + 65535) \div 65536

\* The cost of a symbol in fractions of 2^accuracyLog of a bit.
bitCost(ct, symbol, accuracyLog) ==
  LET minNbBits == ct.symbolTT[symbol + 1].deltaNbBits \div 65536
      delta     == (minNbBits + 1) * 65536 - (ct.symbolTT[symbol + 1].deltaNbBits + 2 ^ ct.tableLog)
  IN (minNbBits + 1) * 2 ^ accuracyLog - (delta * 2 ^ accuracyLog) \div 2 ^ ct.tableLog
=============================================================================

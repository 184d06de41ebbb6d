----------------------------- MODULE OptParser -----------------------------
(***************************************************************************)
(* zstd_opt.c: the parser that looks for the cheapest way through a text.  *)
(* It finds all matches of a position in a binary tree; a series begins    *)
(* with a match and keeps for every position behind it the cheapest        *)
(* stretch, a match and the literals after it, that ends there; and what   *)
(* leads to the last position becomes sequences.                           *)
(***************************************************************************)
EXTENDS BinaryTree
LOCAL INSTANCE Folds

CONSTANTS
  ZSTD_OPT_NUM,       \* positions of a series,
  TargetLengths,      \* matches that are so long end it
  Hash3(_), MaxDist3, \* of three letters, that are not farther
  LdmOffsets, LdmMinMatch,
  DictOptions,        \* whether a dictionary has tables
  Alphabet,
  MaxLL, MaxML, MaxOff,
  LogTarget,             \* 11: sums of frequencies are scaled down to this; one more for literals
  ZSTD_BLOCKSIZE_MAX,
  NbBits(_, _)           \* in the tables of a dictionary

VARIABLE strategy     \* of the parser, the literals, and the dictionary

vars == <<parserVars, strategy>>
-----------------------------------------------------------------------------
(* What literals and matches cost, in 1/256 bits. The prices come from      *)
(* frequencies of what was stored before; what all of them weigh together   *)
(* is computed ahead.                                                       *)

Multiplier == 256
LITFREQ_ADD == 2

Tables == {"literal", "litLength", "matchLength", "offCode"}

Symbols(t) == CASE t = "literal" -> Alphabet [] t = "litLength" -> 0 .. MaxLL
                [] t = "matchLength" -> 0 .. MaxML [] t = "offCode" -> 0 .. MaxOff

\* Full bits where it has to be fast, else with a fraction.
Weight(stat, level) ==
  With(highbit32(stat + 1),
       LAMBDA hb : hb * Multiplier + (IF level = 0 THEN 0 ELSE ((stat + 1) * Multiplier) \div 2 ^ hb))
-----------------------------------------------------------------------------
SumOf(table) == MapThenFoldSet(LAMBDA a, b : a + b, 0, LAMBDA s : table[s], LAMBDA S : CHOOSE s \in S : TRUE, DOMAIN table)

NoStats ==
  LET none == [t \in Tables |-> 0]
  IN [freq |-> [t \in Tables |-> <<>>], sum |-> none, base |-> none]

\* Not the code: what all weigh together stays as it was.
BaseOfBefore(s, level) == s

\* ZSTD_setBasePrices
WithBasePrices(s, level) == [s EXCEPT !.base = [t \in Tables |-> Weight(s.sum[t], level)]]

downscaleStats(table, shift, guaranteed) ==
  [x \in DOMAIN table |-> (IF guaranteed \/ table[x] > 0 THEN 1 ELSE 0) + (table[x] \div 2 ^ shift)]

scaleStats(table, logTarget) ==
  With(SumOf(table) \div 2 ^ logTarget,
       LAMBDA factor : IF factor <= 1 THEN table ELSE downscaleStats(table, highbit32(factor), TRUE))

\* Before the first block: what the letters are, and what is usual of the rest.
FirstFrequencies(letters) ==
  [t \in Tables |->
     CASE t = "literal" -> downscaleStats([a \in Alphabet |-> Len(SelectSeq(letters, LAMBDA x : x = a))], 8, FALSE)
       [] t = "litLength" -> [x \in 0 .. MaxLL |-> CASE x = 0 -> 4 [] x = 1 -> 2 [] OTHER -> 1]
       [] t = "matchLength" -> [x \in 0 .. MaxML |-> 1]
       [] t = "offCode" -> [x \in 0 .. MaxOff |-> CASE x = 0 -> 6 [] x \in {1, 4, 10} -> 2 [] x \in {5, 9} -> 3
                                                    [] x \in 6 .. 8 -> 4 [] OTHER -> 1]]

\* From the tables of a dictionary: what has few bits is frequent.
HintedFrequencies ==
  [t \in Tables |->
     LET Frequency(x) == IF NbBits(t, x) = 0 THEN 1 ELSE 2 ^ ((IF t = "literal" THEN 11 ELSE 10) - NbBits(t, x))
     IN [x \in Symbols(t) |-> Frequency(x)]]

ScaledFrequencies(freq, compressedLiterals) ==
  [t \in Tables |-> IF t # "literal" THEN scaleStats(freq[t], LogTarget)
                    ELSE IF compressedLiterals THEN scaleStats(freq[t], LogTarget + 1) ELSE freq[t]]

\* ZSTD_rescaleFreqs, of a block that is not so short that it has no positions to search.
Rescaled(s, letters, level, compressedLiterals, hinted) ==
  LET Summed(freq) ==
        WithBasePrices([s EXCEPT !.freq = freq, !.sum = [t \in Tables |-> SumOf(freq[t])]], level)
  IN With(IF s.sum["litLength"] # 0 THEN ScaledFrequencies(s.freq, compressedLiterals)
          ELSE IF hinted THEN HintedFrequencies ELSE FirstFrequencies(letters), Summed)

\* ZSTD_updateStats
Updated(s, literals, offBase, matchLength, compressedLiterals) ==
  LET llCode  == ZSTD_LLcode(Len(literals))
      offCode == highbit32(offBase)
      mlCode  == ZSTD_MLcode(matchLength - MINMATCH)
      Count(a) == Len(SelectSeq(literals, LAMBDA x : x = a))
      t == [s EXCEPT !.freq["litLength"][llCode] = @ + 1, !.freq["offCode"][offCode] = @ + 1,
                     !.freq["matchLength"][mlCode] = @ + 1,
                     !.sum = [x \in Tables |-> IF x = "literal" THEN @[x] ELSE @[x] + 1]]
  IN IF ~compressedLiterals THEN t
     ELSE [t EXCEPT !.freq["literal"] = [a \in Alphabet |-> @[a] + LITFREQ_ADD * Count(a)],
                    !.sum["literal"] = @ + LITFREQ_ADD * Len(literals)]
-----------------------------------------------------------------------------
Price(s, table, symbol, level) == s.base[table] - Weight(s.freq[table][symbol], level)

\* ZSTD_rawLiteralsCost of one literal: at least a bit.
LIT_PRICE(s, letter, level, compressedLiterals) ==
  IF ~compressedLiterals THEN 8 * Multiplier
  ELSE With(Price(s, "literal", letter, level), LAMBDA price : IF price < Multiplier THEN Multiplier ELSE price)

\* A whole block of literals has no code.
LL_PRICE(s, n, level) ==
  LET Coded(m) == LL_bits(ZSTD_LLcode(m)) * Multiplier + Price(s, "litLength", ZSTD_LLcode(m), level)
  IN IF n = ZSTD_BLOCKSIZE_MAX THEN Multiplier + Coded(n - 1) ELSE Coded(n)

LL_INCPRICE(s, n, level) == LL_PRICE(s, n, level) - LL_PRICE(s, n - 1, level)

getMatchPrice(s, offBase, matchLength, level) ==
  LET offCode == highbit32(offBase)
      mlCode  == ZSTD_MLcode(matchLength - MINMATCH)
  IN offCode * Multiplier + Price(s, "offCode", offCode, level)
       + (IF level < 2 /\ offCode >= 20 THEN (offCode - 19) * 2 * Multiplier ELSE 0)
       + ML_bits(mlCode) * Multiplier + Price(s, "matchLength", mlCode, level)
       + Multiplier \div 5
-----------------------------------------------------------------------------
ZSTD_OPT_SIZE  == ZSTD_OPT_NUM + 3
ZSTD_MAX_PRICE == 2 ^ 30
minMatch       == mls
sufficient_len == Lower(strategy.targetLength, ZSTD_OPT_NUM - 1)
level          == strategy.optLevel
-----------------------------------------------------------------------------
(* All matches of a position, each longer than those before it.             *)

Recorded(r, length, offBase) ==
  [r EXCEPT !.best = length, !.matches = Append(@, [length |-> length, offBase |-> offBase])]

\* Whether a repeated offset leads to a place that is valid; the first but one may be 0.
ValidRepeat(offset, ip) ==
  /\ offset > 0 /\ offset <= ip - (IF how = "attached" THEN First ELSE WithinWindow(ip, lowestValid))
  /\ \/ offset <= ip - window.dictLimit
     \/ dictMode # "noDict" /\ index_overlap_check(window.dictLimit, ip - offset)

RepeatedMatches(ip, reps, ll0) ==
  LET Try(r, code) ==
        LET offset == IF code = ZSTD_REP_NUM THEN reps[1] - 1 ELSE reps[code + 1]
            length == IF ValidRepeat(offset, ip) /\ Matches(ip - offset, ip, minMatch)
                      THEN minMatch + count(text, First, ip + minMatch, ip + minMatch - offset, iend) ELSE 0
            Kept(n) == IF n <= r.best THEN r
                       ELSE [Recorded(r, n, code - ll0 + 1) EXCEPT !.done = n > sufficient_len \/ ip + n = iend]
        IN IF r.done THEN r ELSE With(length, Kept)
  IN ForEach(<<ll0, ll0 + 1, ll0 + 2>>, [best |-> minMatch - 1, matches |-> <<>>, done |-> FALSE], Try)

\* ZSTD_insertAndFindFirstIndexHash3: positions that were not entered yet, of this block.
EnteredHash3(table, from, target) ==
  ForEach([n \in 1 .. Higher(0, target - from) |-> from + n - 1], table,
          LAMBDA t, i : [t EXCEPT ![Hash3(Letters(i, 3))] = i])

\* A match of three letters, where the tree would find only longer ones.
ShortMatch(r, table, ip) ==
  LET i == table[Hash3(Letters(ip, 3))]
      Kept(n) == IF n < mls THEN r
                 ELSE [Recorded(r, n, OFFSET_TO_OFFBASE(ip - i)) EXCEPT !.done = n > sufficient_len \/ ip + n = iend]
  IN IF i < Higher(1, WithinWindow(ip, lowestValid)) \/ ip - i >= MaxDist3 THEN r
     ELSE With(count(text, First, ip, i, iend), Kept)

\* Not the code: a match that goes far leaves no position out, the next one being this one.
NotSkipped(ip, end) == ip

\* The next position to enter, behind what the matches repeat.
SkipRepetitive(ip, end) == end - 8

FromTree(ms, dms, ip, r) ==
  LET h == HashAt(ip)
      Keep(s, f) == IF f.length <= s.r.best THEN s
                    ELSE [r |-> Recorded(s.r, f.length, OFFSET_TO_OFFBASE(ip - f.index)),
                          end |-> Higher(s.end, f.index + f.length)]
      Result(d) ==
        With(ForEach(d.found \o (IF how = "attached" /\ ~d.equal THEN DictDescend(dms, ip, ZSTD_OPT_NUM, d.left).found
                                 ELSE <<>>), [r |-> r, end |-> ip + 9], Keep),
             LAMBDA s : [ms |-> [ms EXCEPT !.hash[h] = ip, !.bt = d.bt, !.nextToUpdate = SkipRepetitive(ip, s.end)],
                         matches |-> s.r.matches])
  IN With(Descend(ms.bt, ip, ms.hash[h], Higher(1, WithinWindow(ip, lowestValid)), btLow(ip), iend,
                  ZSTD_OPT_NUM, nbCompares), Result)

\* ZSTD_insertBtAndGetAllMatches; next3 is the next position to enter by three letters.
insertBtAndGetAllMatches(ms, next3, ip, reps, ll0) ==
  LET Result(m, n) == [ms |-> m.ms, matches |-> m.matches, next3 |-> n]
      WithShort(r, table) ==
        IF r.done THEN [ms |-> [ms EXCEPT !.hash3 = table, !.nextToUpdate = ip + 1], matches |-> r.matches, next3 |-> ip]
        ELSE Result(FromTree([ms EXCEPT !.hash3 = table], dictTable, ip, r), ip)
      Repeated(r) ==
        IF r.done THEN [ms |-> ms, matches |-> r.matches, next3 |-> next3]
        ELSE IF mls = 3 /\ r.best < mls
        THEN With(EnteredHash3(ms.hash3, next3, ip), LAMBDA t : With(ShortMatch(r, t, ip), LAMBDA s : WithShort(s, t)))
        ELSE Result(FromTree(ms, dictTable, ip, r), next3)
  IN With(RepeatedMatches(ip, reps, ll0), Repeated)

btGetAllMatches(ms, next3, ip, reps, ll0) ==
  IF ip < ms.nextToUpdate THEN [ms |-> ms, matches |-> <<>>, next3 |-> next3]
  ELSE With(updateTree(ms, ip, iend), LAMBDA u : insertBtAndGetAllMatches(u, next3, ip, reps, ll0))
-----------------------------------------------------------------------------
(* Long distance matches: literals and a match, one after the other, over   *)
(* the whole text. posInSequence is what is left behind of the one at pos.  *)

NoRawSeqs == [seq |-> <<>>, pos |-> 1, posInSequence |-> 0]
Exhausted(store) == store.pos > Len(store.seq)
Size(rawSeq)     == rawSeq.litLength + rawSeq.matchLength

skipRawSeqStoreBytes(store, nbBytes) ==
  LET Skip(s) == IF Exhausted(s) \/ s.posInSequence < Size(s.seq[s.pos]) THEN s
                 ELSE [s EXCEPT !.pos = @ + 1, !.posInSequence = @ - Size(s.seq[s.pos])]
  IN With(Iterated(Len(store.seq), [store EXCEPT !.posInSequence = @ + nbBytes], Skip),
          LAMBDA s : IF Exhausted(s) THEN [s EXCEPT !.posInSequence = 0] ELSE s)

NoCandidate == [start |-> iend, end |-> Unlimited, offset |-> 0]

\* The next match, as far as it is in the block; the store is left behind it.
getNextMatchAndUpdateSeqStore(store, ip) ==
  LET raw      == store.seq[store.pos]
      literals == Higher(0, raw.litLength - store.posInSequence)
      matching == IF literals = 0 THEN raw.matchLength - (store.posInSequence - raw.litLength) ELSE raw.matchLength
      start    == ip + literals
      end      == Lower(iend, start + matching)
  IN IF Exhausted(store) THEN [store |-> store, candidate |-> NoCandidate]
     ELSE IF start >= iend THEN [store |-> skipRawSeqStoreBytes(store, iend - ip), candidate |-> NoCandidate]
     ELSE [store |-> skipRawSeqStoreBytes(store, end - ip),
           candidate |-> [start |-> start, end |-> end, offset |-> raw.offset]]

\* Not the code: what was gone over is not skipped.
NoOvershoot(ldm, ip) == ldm.store

\* The parser may have gone over the end of the last candidate.
Overshot(ldm, ip) == skipRawSeqStoreBytes(ldm.store, ip - ldm.candidate.end)

processMatchCandidate(ldm, ip) ==
  IF Exhausted(ldm.store) \/ ip < ldm.candidate.end THEN ldm
  ELSE getNextMatchAndUpdateSeqStore(Overshot(ldm, ip), ip)

\* The candidate is the longest match, or none.
WithCandidate(matches, c, ip) ==
  IF /\ c.start <= ip /\ ip < c.end /\ c.end - ip >= minMatch
     /\ matches = <<>> \/ (c.end - ip > matches[Len(matches)].length /\ Len(matches) < ZSTD_OPT_NUM)
  THEN Append(matches, [length |-> c.end - ip, offBase |-> OFFSET_TO_OFFBASE(c.offset)]) ELSE matches

\* All matches of ip, with a candidate.
Found(ip, reps, litlen) ==
  LET Candidates(m) ==
        With(IF Exhausted(p.ldm.store) THEN p.ldm ELSE processMatchCandidate(p.ldm, ip),
             LAMBDA l : [ms |-> m.ms, next3 |-> m.next3, ldm |-> l,
                         matches |-> IF Exhausted(p.ldm.store) THEN m.matches ELSE WithCandidate(m.matches, l.candidate, ip)])
  IN With(btGetAllMatches(hashTable, p.next3, ip, reps, IF litlen = 0 THEN 1 ELSE 0), Candidates)
-----------------------------------------------------------------------------
(* The parser.                                                              *)

Begin ==
  /\ pc = "begin"
  /\ LET start  == block.start
         behind == start - hashTable.nextToUpdate - LongMatch
         next   == IF behind > 0 THEN start - Lower(MostOfLong, behind) ELSE hashTable.nextToUpdate
     IN /\ hashTable' =
             [hashTable EXCEPT !.nextToUpdate = next,
                !.stats = Rescaled(@, Letters(start, iend - start), level, strategy.compressedLiterals, strategy.hinted)]
        /\ p' = [anchor |-> start, ip |-> IF start = window.dictLimit THEN start + 1 ELSE start, next3 |-> next,
                 reps |-> rep.compressor, ldm |-> getNextMatchAndUpdateSeqStore(hashTable.ldmSeqStore, start),
                 opt |-> <<>>, cur |-> 0, lastPos |-> 0, last |-> <<>>]
  /\ seqStore' = <<>>
  /\ pc' = "match"
  /\ UNCHANGED strategy /\ Fixed

Stretch(price, mlen, off, litlen, reps) ==
  [price |-> price, mlen |-> mlen, off |-> off, litlen |-> litlen, rep |-> reps]

\* What a series before has left.
Unset == Stretch("none", 0, 0, 1, <<>>)

MatchPrice(offBase, length) == getMatchPrice(hashTable.stats, offBase, length, level)
LL(n)    == LL_PRICE(hashTable.stats, n, level)
LLInc(n) == LL_INCPRICE(hashTable.stats, n, level)
LIT(i)   == LIT_PRICE(hashTable.stats, At(i), level, strategy.compressedLiterals)

\* The shortest match that leads to a position behind the first.
FirstMatches(m, litlen, price0) ==
  LET last == m[Len(m)].length
      Via(pos) == m[CHOOSE k \in DOMAIN m : m[k].length >= pos /\ \A j \in 1 .. k - 1 : m[j].length < pos].offBase
  IN [pos \in 0 .. ZSTD_OPT_SIZE - 1 |->
        CASE pos = 0 -> Stretch(price0, 0, 0, litlen, p.reps)
          [] pos \in 1 .. minMatch - 1 -> Stretch(ZSTD_MAX_PRICE, 0, 0, litlen + pos, <<>>)
          [] pos \in minMatch .. last -> Stretch(price0 + MatchPrice(Via(pos), pos) + LL(0), pos, Via(pos), 0, <<>>)
          [] pos = last + 1 -> [Unset EXCEPT !.price = ZSTD_MAX_PRICE]
          [] OTHER -> Unset]

\* The first position of a series; a long match is one for itself.
FindFirst ==
  /\ pc = "match" /\ p.ip < ilimit
  /\ LET litlen == p.ip - p.anchor IN
     \E f \in {Found(p.ip, p.reps, litlen)} :
       LET q    == [p EXCEPT !.next3 = f.next3, !.ldm = f.ldm]
           best == f.matches[Len(f.matches)]
       IN /\ hashTable' = f.ms
          /\ IF f.matches = <<>> THEN p' = [q EXCEPT !.ip = @ + 1] /\ UNCHANGED pc
             ELSE IF best.length > sufficient_len
             THEN /\ p' = [q EXCEPT !.opt = [pos \in 0 .. ZSTD_OPT_SIZE - 1 |->
                                               IF pos = 0 THEN Stretch(LL(litlen), 0, 0, litlen, p.reps) ELSE Unset],
                                    !.cur = 0, !.lastPos = best.length,
                                    !.last = Stretch(0, best.length, best.offBase, 0, <<>>)]
                  /\ pc' = "path"
             ELSE /\ p' = [q EXCEPT !.opt = FirstMatches(f.matches, litlen, LL(litlen)), !.cur = 1, !.lastPos = best.length]
                  /\ pc' = "forward"
  /\ UNCHANGED <<seqStore, strategy>> /\ Fixed

NewReps(opt, cur) ==
  LET prev == cur - opt[cur].mlen
  IN RepeatAfter(opt[prev].rep, opt[cur].off, IF opt[prev].litlen = 0 THEN 1 ELSE 0)

\* A literal after the stretch before, if that is not more expensive. The match that ends
\* here may then still lead to the next position.
WithLiteral(q) ==
  LET cur    == q.cur
      before == q.opt[cur - 1]
      match  == q.opt[cur]
      litlen == before.litlen + 1
      price  == before.price + LIT(q.ip + cur - 1) + LLInc(litlen)
      taken  == [q EXCEPT !.opt[cur] = [before EXCEPT !.litlen = litlen, !.price = price]]
      with1literal     == match.price + LIT(q.ip + cur) + LLInc(1)
      withMoreLiterals == price + LIT(q.ip + cur) + LLInc(litlen + 1)
  IN IF price > match.price THEN q
     ELSE IF /\ level >= 1 /\ match.litlen = 0 /\ LLInc(1) < 0 /\ q.ip + cur < iend
             /\ with1literal < withMoreLiterals /\ with1literal < q.opt[cur + 1].price
     THEN [taken EXCEPT !.opt[cur + 1] = Stretch(with1literal, match.mlen, match.off, 1, NewReps(q.opt, cur)),
                        !.lastPos = Higher(@, cur + 1)]
     ELSE taken

\* Not the code: the match leaves the history as it was before it.
RepsOfBefore(q) ==
  IF q.opt[q.cur].litlen = 0 THEN [q EXCEPT !.opt[q.cur].rep = q.opt[q.cur - q.opt[q.cur].mlen].rep] ELSE q

\* The history of a match that is now known to end here.
WithReps(q) ==
  IF q.opt[q.cur].litlen = 0 THEN [q EXCEPT !.opt[q.cur].rep = NewReps(q.opt, q.cur)] ELSE q

\* The matches of a position, each with the lengths that those before it do not have, from
\* the longest on; at level 0 until one is not cheaper.
Priced(q, matches) ==
  LET base == q.opt[q.cur].price + LL(0)
      Filled(r, pos) ==
        [r EXCEPT !.opt = [x \in DOMAIN @ |-> IF r.lastPos < x /\ x <= pos THEN [Unset EXCEPT !.price = ZSTD_MAX_PRICE] ELSE @[x]],
                  !.lastPos = Higher(@, pos)]
      OfLength(r, k, length) ==
        LET pos    == q.cur + length
            Set(price) ==
              IF pos > r.lastPos \/ price < r.opt[pos].price
              THEN [Filled(r, pos) EXCEPT !.opt[pos] = Stretch(price, length, matches[k].offBase, 0, <<>>)]
              ELSE IF level = 0 THEN [r EXCEPT !.done = TRUE] ELSE r
        IN IF r.done THEN r ELSE With(base + MatchPrice(matches[k].offBase, length), Set)
      OfMatch(r, k) ==
        LET longest == matches[k].length
            least   == IF k = 1 THEN minMatch ELSE matches[k - 1].length + 1
        IN ForEach([n \in 1 .. longest - least + 1 |-> longest - n + 1], [r EXCEPT !.done = FALSE],
                   LAMBDA s, length : OfLength(s, k, length))
      start == [opt |-> q.opt, lastPos |-> q.lastPos, done |-> FALSE]
  IN With(ForEach([k \in DOMAIN matches |-> k], start, OfMatch),
          LAMBDA r : [q EXCEPT !.opt = r.opt, !.lastPos = r.lastPos])

\* What ends the series: the last stretch, which is an own copy.
LastStretch(q) ==
  LET last == q.opt[q.lastPos] IN [q EXCEPT !.last = last, !.cur = q.lastPos - last.mlen]

\* One position further: matches are searched where they can begin and are worth it.
Forward ==
  /\ pc = "forward" /\ p.cur <= p.lastPos
  /\ \E q \in {With(WithLiteral(p), WithReps)} :
       LET inr  == q.ip + q.cur
           here == q.opt[q.cur]
           next == [q EXCEPT !.cur = @ + 1]
       IN IF inr > ilimit THEN p' = next /\ UNCHANGED <<hashTable, pc>>
          ELSE IF q.cur = q.lastPos THEN p' = LastStretch(q) /\ pc' = "path" /\ UNCHANGED hashTable
          ELSE IF level = 0 /\ q.opt[q.cur + 1].price <= here.price + (Multiplier \div 2)
          THEN p' = next /\ UNCHANGED <<hashTable, pc>>
          ELSE \E f \in {Found(inr, here.rep, here.litlen)} :
                 LET r    == [q EXCEPT !.next3 = f.next3, !.ldm = f.ldm]
                     best == f.matches[Len(f.matches)]
                 IN /\ hashTable' = f.ms
                    /\ IF f.matches = <<>> THEN p' = [r EXCEPT !.cur = @ + 1] /\ UNCHANGED pc
                       ELSE IF best.length > sufficient_len \/ r.cur + best.length >= ZSTD_OPT_NUM \/ inr + best.length >= iend
                       THEN /\ p' = [r EXCEPT !.last = Stretch(0, best.length, best.offBase, 0, <<>>),
                                              !.lastPos = r.cur + best.length]
                            /\ pc' = "path"
                       ELSE /\ \E s \in {Priced(r, f.matches)} :
                                 p' = [s EXCEPT !.opt[s.lastPos + 1].price = ZSTD_MAX_PRICE, !.cur = @ + 1]
                            /\ UNCHANGED pc
  /\ UNCHANGED <<seqStore, strategy>> /\ Fixed

AtEnd ==
  /\ pc = "forward" /\ p.cur > p.lastPos
  /\ p' = LastStretch(p)
  /\ pc' = "path"
  /\ UNCHANGED <<hashTable, seqStore, strategy>> /\ Fixed

\* The stretches that lead to cur, written backwards over the table behind them; literals
\* after the last match are left to the next series.
Traversed(opt, cur, last) ==
  LET Back(s) ==
        LET stretch == s.opt[s.at]
            fixed   == [s.opt EXCEPT ![s.from].litlen = stretch.litlen]
        IN IF s.done THEN s
           ELSE IF stretch.mlen = 0 THEN [s EXCEPT !.opt = fixed, !.done = TRUE]
           ELSE [opt |-> [fixed EXCEPT ![s.from - 1] = stretch], from |-> s.from - 1,
                 at |-> s.at - stretch.litlen - stretch.mlen, done |-> FALSE]
      Listed(s) == SubSeq([k \in 1 .. cur + 2 |-> s.opt[k]], s.from, cur + 2)
  IN With(Iterated(cur + 1, [opt |-> [opt EXCEPT ![cur + 2] = last], from |-> cur + 2, at |-> cur, done |-> FALSE], Back),
          Listed)

\* The sequences go out, and what they cost is known better.
ShortestPath ==
  /\ pc = "path"
  /\ LET cur  == p.cur - p.last.litlen
         reps == IF p.last.litlen = 0
                 THEN RepeatAfter(p.opt[cur].rep, p.last.off, IF p.opt[cur].litlen = 0 THEN 1 ELSE 0) ELSE p.last.rep
     IN IF p.last.mlen = 0
        THEN p' = [p EXCEPT !.ip = @ + p.lastPos, !.opt = <<>>, !.last = <<>>] /\ UNCHANGED <<seqStore, hashTable>>
        ELSE \E path \in {Traversed(p.opt, cur, p.last)} :
               LET Send(s, x) ==
                     [anchor |-> s.anchor + x.litlen + x.mlen,
                      out    |-> Append(s.out, Sequence(s.anchor, s.anchor + x.litlen, x.mlen, x.off)),
                      stats  |-> Updated(s.stats, Letters(s.anchor, x.litlen), x.off, x.mlen, strategy.compressedLiterals)]
               IN \E s \in {ForEach(path, [anchor |-> p.anchor, out |-> seqStore, stats |-> hashTable.stats], Send)} :
                    /\ seqStore' = s.out
                    /\ hashTable' = [hashTable EXCEPT !.stats = WithBasePrices(s.stats, level)]
                    /\ p' = [p EXCEPT !.anchor = s.anchor, !.ip = s.anchor, !.reps = reps, !.opt = <<>>, !.last = <<>>]
  /\ pc' = "match"
  /\ UNCHANGED strategy /\ Fixed
-----------------------------------------------------------------------------
Cleanup ==
  /\ pc = "match" /\ p.ip >= ilimit
  /\ how = "twice" => block.start > First
  /\ EndBlock(p.reps)
  /\ UNCHANGED strategy

\* ZSTD_initStats_ultra: what was found in the first block is forgotten, except for the
\* statistics. Indexes go on, and all before the block is invalid.
InitStatsUltra ==
  /\ pc = "match" /\ p.ip >= ilimit /\ how = "twice" /\ block.start = First
  /\ LET n == block.end - First
     IN /\ text' = SubSeq(text, 1, n) \o text
        /\ block' = [start |-> First + n, end |-> First + 2 * n]
        /\ window' = [window EXCEPT !.lowLimit = First + n, !.dictLimit = First + n]
        /\ hashTable' = [hashTable EXCEPT !.nextToUpdate = First + n]
  /\ pc' = "begin"
  /\ UNCHANGED <<how, junk, dictTable, rep, p, seqStore, strategy>>

\* The long distance matches of the block are behind it, too.
SecondPart ==
  /\ NextBlock
  /\ hashTable' = [hashTable EXCEPT !.nextToUpdate = IF how = "separate" THEN block.end ELSE @,
                                    !.ldmSeqStore = skipRawSeqStoreBytes(@, block.end - block.start)]
  /\ UNCHANGED strategy

\* Matches at one offset, as a long distance matcher may find them from an index on.
RawSequences(from, offset) ==
  LET Closed(r, i) == IF r.length < LdmMinMatch THEN [r EXCEPT !.length = 0]
                      ELSE [start |-> i, length |-> 0,
                            out |-> Append(r.out, [litLength |-> i - r.length - r.start, matchLength |-> r.length, offset |-> offset])]
      Step(r, i) == IF i - offset >= First /\ At(i) = At(i - offset) THEN [r EXCEPT !.length = @ + 1] ELSE Closed(r, i)
  IN Closed(ForEach([n \in 1 .. TextEnd - from |-> from + n - 1], [start |-> from, length |-> 0, out |-> <<>>], Step), TextEnd).out

Init ==
  /\ InitText(Ways \cup {"twice"})
  /\ strategy \in [optLevel : {0, 2}, targetLength : TargetLengths, compressedLiterals : BOOLEAN, hinted : DictOptions]
  /\ strategy.hinted => WithDictionary
  /\ how = "twice" => strategy.optLevel = 2
  /\ \E cut \in {First + c : c \in Cuts}, size \in Windows, offset \in {0} \cup LdmOffsets :
       /\ Cut(cut, size)
       /\ offset > 0 => how \in {"contiguous", "separate", "loaded"} /\ offset <= size
       /\ \E tree \in IF how = "loaded" THEN {TreeOfDictionary(cut)} ELSE {EmptyTree} :
            hashTable = [hash |-> tree.hash, bt |-> tree.bt, hash3 |-> [h \in Hashes |-> 0], stats |-> NoStats,
                         nextToUpdate |-> IF WithDictionary THEN cut ELSE First,
                         ldmSeqStore |-> [NoRawSeqs EXCEPT !.seq = IF offset = 0 THEN <<>> ELSE RawSequences(block.start, offset)]]
       /\ dictTable \in IF how = "attached" THEN {TreeOfDictionary(cut)} ELSE {0}

Next ==
  \/ Begin \/ FindFirst \/ Forward \/ AtEnd \/ ShortestPath
  \/ Cleanup \/ InitStatsUltra \/ SecondPart

Spec == Init /\ [][Next]_vars
-----------------------------------------------------------------------------
(* All three offsets that the next block repeats are the decoder's.         *)
HistoriesAgree == pc = "parsed" => rep.compressor = rep.decoder

(* A series fits the table: ZSTD_compressBlock_opt_generic asserts that the *)
(* position after the last, and the place where the path is written, are in *)
(* priceTable.                                                              *)
SeriesFits ==
  /\ pc = "forward" => p.lastPos + 1 < ZSTD_OPT_SIZE
  /\ pc = "path" => p.cur - p.last.litlen + 2 < ZSTD_OPT_SIZE

(* No price is negative, or the sum of many would not be the price of all:  *)
(* ZSTD_compressBlock_opt_generic asserts it. What is stored weighs no more *)
(* than everything.                                                         *)
PricesArePositive ==
  pc = "forward" => \A pos \in 0 .. p.lastPos : p.opt[pos].price >= 0

(* The sums of frequencies are those of the tables that they are kept for.  *)
SumsAreCurrent ==
  pc = "begin" \/ \A t \in Tables : hashTable.stats.sum[t] = SumOf(hashTable.stats.freq[t])
=============================================================================

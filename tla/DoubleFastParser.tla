-------------------------- MODULE DoubleFastParser --------------------------
(***************************************************************************)
(* zstd_double_fast.c: the parser with a table of long matches and one of  *)
(* short ones. A short match is taken only when there is no long one at    *)
(* the next position.                                                      *)
(***************************************************************************)
EXTENDS BlockParser

CONSTANTS
  kStepIncr,     \* 1 << kSearchStrength
  HashLong(_),   \* of eight letters
  HashShort(_),  \* of four
  Tag(_)         \* of the letters that are hashed, in the tables of an attached dictionary

Hashes == 0 .. 3
Long(i)  == HashLong(Letters(i, 8))
Short(i) == HashShort(Letters(i, 4))
-----------------------------------------------------------------------------
(* Tables of dictionaries, which end before the index cut. All of a group   *)
(* of three positions are loaded into the tables of a CDict.                *)

fastHashFillStep == 3
NoEntry == [index |-> 0, tag |-> 0]

Groups(cut) == {i \in First .. cut - HASH_READ_SIZE - fastHashFillStep + 1 : (i - First) % fastHashFillStep = 0}

EmptyTables(none) == [long |-> [h \in Hashes |-> none], short |-> [h \in Hashes |-> none]]

fillDoubleHashTable(t, cut, forCDict) ==
  LET Some(i, n)  == SubSeq(t, i - First + 1, i - First + n)
      Entry(i, s) == IF forCDict THEN [index |-> i, tag |-> Tag(s)] ELSE i
      none        == IF forCDict THEN NoEntry ELSE 0
      f[i \in First - 1 .. cut] ==
        IF i < First THEN EmptyTables(none)
        ELSE LET first == i - ((i - First) % fastHashFillStep)
                 l     == HashLong(Some(i, 8))
                 s     == HashShort(Some(i, 4))
                 e     == f[i - 1]
             IN IF first \notin Groups(cut) THEN e
                ELSE [long  |-> IF i = first \/ (forCDict /\ e.long[l] = none)
                                THEN [e.long EXCEPT ![l] = Entry(i, Some(i, 8))] ELSE e.long,
                      short |-> IF i = first
                                THEN [e.short EXCEPT ![s] = Entry(i, Some(i, 4))] ELSE e.short]
  IN f[cut - 8]

fillDoubleHashTableForCDict(t, cut) == fillDoubleHashTable(t, cut, TRUE)
fillDoubleHashTableForCCtx(t, cut)  == fillDoubleHashTable(t, cut, FALSE)
-----------------------------------------------------------------------------
\* Offsets that are not valid at first are put aside, but only of a text in one segment.
TooFar(offset, ip) == Variant = "noDict" /\ offset > ip - WithinWindow(ip, window.dictLimit)

Begin ==
  /\ pc = "begin"
  /\ LET ip == IF Variant = "noDict" /\ block.start = prefixStartIndex THEN block.start + 1 ELSE block.start
         r  == rep.compressor
         Put(offset)  == IF TooFar(offset, ip) THEN offset ELSE 0
         Used(offset) == IF TooFar(offset, ip) THEN 0 ELSE offset
     IN p' = [anchor |-> block.start, ip |-> ip, ip1 |-> ip, step |-> 1, nextStep |-> 0,
              idxl0 |-> 0, curr |-> ip, match |-> 0,
              rep1 |-> Used(r[1]), rep2 |-> Used(r[2]), saved1 |-> Put(r[1]), saved2 |-> Put(r[2])]
  /\ seqStore' = <<>>
  /\ pc' = "start"
  /\ UNCHANGED hashTable /\ Fixed

Start ==
  /\ pc = "start"
  /\ IF Variant = "noDict"
     THEN LET ip1 == p.ip + 1
          IN IF ip1 > ilimit THEN pc' = "cleanup" /\ UNCHANGED p
             ELSE /\ p' = [p EXCEPT !.step = 1, !.nextStep = p.ip + kStepIncr, !.ip1 = ip1,
                                    !.idxl0 = hashTable.long[Long(p.ip)]]
                  /\ pc' = "search"
     ELSE pc' = (IF p.ip < ilimit THEN "search" ELSE "cleanup") /\ UNCHANGED p
  /\ UNCHANGED <<hashTable, seqStore>> /\ Fixed

InsertLong(table, i)  == [table EXCEPT !.long[Long(i)] = i]
InsertShort(table, i) == [table EXCEPT !.short[Short(i)] = i]

\* Behind a match of q.ip: the position after the one that was searched, and those before
\* the next, as long as all that is hashed is in the block.
Stored(q, table, mLength, offBase) ==
  LET ip == q.ip + mLength
  IN /\ seqStore' = Append(seqStore, Sequence(q.anchor, q.ip, mLength, offBase))
     /\ p' = [q EXCEPT !.ip = ip, !.anchor = ip]
     /\ hashTable' =
          IF ip > ilimit THEN table
          ELSE InsertShort(InsertShort(InsertLong(InsertLong(table, q.curr + 2), ip - 2), q.curr + 2), ip - 1)
     /\ pc' = "immediate"

\* A match of least letters at ip: those before may match too.
FoundAt(q, table, ip, idx, least) ==
  LET low  == IF Variant # "noDict" /\ ~InPrefix(idx) THEN dictStartIndex ELSE prefixStartIndex
      back == countBackwards(text, First, ip, q.anchor, idx, low)
  IN Stored([q EXCEPT !.ip = ip - back, !.rep2 = q.rep1, !.rep1 = ip - idx], table,
            back + least + count(text, First, ip + least, idx + least, iend),
            OFFSET_TO_OFFBASE(ip - idx))

RepeatedMatches(offset, ip) ==
  /\ Variant = "noDict" => offset > 0
  /\ Variant # "noDict" => index_overlap_check(prefixStartIndex, ip - offset)
  /\ Variant = "extDict" => offset <= ip - dictStartIndex
  /\ Matches(ip - offset, ip, 4)

DictIndex(table, h, letters) ==
  LET entry == table[h]
  IN IF entry.tag = Tag(letters) /\ entry.index > window.lowLimit THEN entry.index ELSE 0

\* The indices at which a long match of ip may be: in the prefix, else in the dictionary.
LongMatch(table, idx, ip) ==
  LET valid == CASE Variant = "noDict"  -> idx >= prefixStartIndex
                 [] Variant = "extDict" -> idx > dictStartIndex
                 [] OTHER               -> idx >= prefixStartIndex
      inDict == IF Variant = "dictMatchState" THEN DictIndex(dictTable.long, Long(ip), Letters(ip, 8)) ELSE 0
  IN IF valid /\ Matches(idx, ip, 8) THEN idx
     ELSE IF inDict > 0 /\ Matches(inDict, ip, 8) THEN inDict ELSE 0

\* The same of a short match; the dictionary has one only where the table has none.
ShortMatch(idx, ip) ==
  LET valid == CASE Variant = "noDict"  -> idx >= prefixStartIndex
                 [] Variant = "extDict" -> idx > dictStartIndex
                 [] OTHER               -> idx > prefixStartIndex
      inDict == IF Variant = "dictMatchState" /\ ~valid
                THEN DictIndex(dictTable.short, Short(ip), Letters(ip, 4)) ELSE 0
  IN IF valid /\ Matches(idx, ip, 4) THEN idx
     ELSE IF inDict > 0 /\ Matches(inDict, ip, 4) THEN inDict ELSE 0

\* Not the code: the next position is entered however far it is.
EnteredAlways(q, table) == IF Variant = "noDict" THEN InsertLong(table, q.ip1) ELSE table

\* The search may resume four letters on: no later index may be in the table.
EnteredNext(q, table) ==
  IF Variant = "noDict" /\ q.step < 4 THEN InsertLong(table, q.ip1) ELSE table

\* The position after one without a match.
Advanced(q) ==
  IF Variant = "noDict"
  THEN LET longer == q.ip1 >= q.nextStep
           step   == IF longer THEN q.step + 1 ELSE q.step
       IN [q EXCEPT !.ip = q.ip1, !.ip1 = @ + step, !.step = step, !.nextStep = IF longer THEN @ + kStepIncr ELSE @]
  ELSE [q EXCEPT !.ip = @ + (@ - q.anchor) \div kStepIncr + 1]

Search ==
  /\ pc = "search"
  /\ LET q      == [p EXCEPT !.curr = p.ip]
         idxl   == IF Variant = "noDict" THEN p.idxl0 ELSE hashTable.long[Long(p.ip)]
         table  == InsertShort(InsertLong(hashTable, p.ip), p.ip)
         long   == LongMatch(table, idxl, p.ip)
         short  == ShortMatch(hashTable.short[Short(p.ip)], p.ip)
     IN IF RepeatedMatches(p.rep1, p.ip + 1)
        THEN Stored([q EXCEPT !.ip = @ + 1], table,
                    4 + count(text, First, p.ip + 5, p.ip + 5 - p.rep1, iend), REPCODE1)
        ELSE IF long > 0 THEN FoundAt(q, EnteredNext(q, table), p.ip, long, 8)
        ELSE /\ hashTable' = table /\ UNCHANGED seqStore
             /\ IF short > 0 THEN pc' = "next_long" /\ p' = [q EXCEPT !.match = short]
                ELSE LET r == Advanced(q)
                         more == IF Variant = "noDict" THEN r.ip1 <= ilimit ELSE r.ip < ilimit
                     IN /\ p' = IF Variant = "noDict" THEN [r EXCEPT !.idxl0 = table.long[Long(q.ip1)]] ELSE r
                        /\ pc' = IF more THEN "search" ELSE "cleanup"
  /\ Fixed

\* _search_next_long
SearchNextLong ==
  /\ pc = "next_long"
  /\ LET ip1    == IF Variant = "noDict" THEN p.ip1 ELSE p.ip + 1
         found  == hashTable.long[Long(ip1)]
         idxl1  == IF Variant = "noDict" /\ found = prefixStartIndex THEN 0 ELSE found
         table  == IF Variant = "noDict" THEN EnteredNext(p, hashTable) ELSE InsertLong(hashTable, ip1)
         long   == LongMatch(hashTable, idxl1, ip1)
         Length(ip, idx) == count(text, First, ip, idx, iend)
     IN IF long > 0 /\ (Variant = "noDict" => Length(ip1, long) > Length(p.ip, p.match))
        THEN FoundAt(p, table, ip1, long, 8)
        ELSE FoundAt(p, table, p.ip, p.match, 4)
  /\ Fixed

\* Right behind a match the older offset may match: coded as the first, as there are no
\* literals before it.
Immediate ==
  /\ pc = "immediate"
  /\ IF p.ip <= ilimit /\ RepeatedMatches(p.rep2, p.ip)
     THEN LET rLength == 4 + count(text, First, p.ip + 4, p.ip + 4 - p.rep2, iend)
          IN /\ seqStore' = Append(seqStore, Sequence(p.ip, p.ip, rLength, REPCODE1))
             /\ hashTable' = InsertLong(InsertShort(hashTable, p.ip), p.ip)
             /\ p' = [p EXCEPT !.rep1 = p.rep2, !.rep2 = p.rep1, !.ip = @ + rLength, !.anchor = @ + rLength]
             /\ UNCHANGED pc
     ELSE pc' = "start" /\ UNCHANGED <<hashTable, seqStore, p>>
  /\ Fixed

\* Not the code: the offsets that were put aside come back in their places.
SavedInPlace(q) ==
  <<IF q.rep1 # 0 THEN q.rep1 ELSE q.saved1, IF q.rep2 # 0 THEN q.rep2 ELSE q.saved2>>

\* An offset that was put aside has become the second, where a new one came before it.
Saved(q) ==
  LET saved2 == IF q.saved1 # 0 /\ q.rep1 # 0 THEN q.saved1 ELSE q.saved2
  IN <<IF q.rep1 # 0 THEN q.rep1 ELSE q.saved1, IF q.rep2 # 0 THEN q.rep2 ELSE saved2>>

Cleanup ==
  /\ pc = "cleanup"
  /\ LET r == Saved(p) IN EndBlock(<<r[1], r[2], rep.compressor[3]>>)

Init ==
  /\ InitText(Ways)
  /\ \E cut \in {First + c : c \in Cuts}, size \in Windows :
       /\ Cut(cut, size)
       /\ hashTable = IF how = "loaded" THEN fillDoubleHashTableForCCtx(text, cut) ELSE EmptyTables(0)
       /\ dictTable = IF how = "attached" THEN fillDoubleHashTableForCDict(text, cut) ELSE EmptyTables(NoEntry)

Next ==
  \/ Begin \/ Start \/ Search \/ SearchNextLong
  \/ Immediate \/ Cleanup
  \/ NextBlock /\ UNCHANGED hashTable

Spec == Init /\ [][Next]_parserVars
=============================================================================

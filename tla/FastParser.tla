----------------------------- MODULE FastParser -----------------------------
(***************************************************************************)
(* zstd_fast.c: the parser that looks at two positions at a time, one      *)
(* lookup ahead of the comparison, and gives up the lookups in flight when *)
(* it finds a match.                                                       *)
(***************************************************************************)
EXTENDS BlockParser

CONSTANTS
  TargetLengths,
  kStepIncr,     \* positions after which the steps become longer
  Hash(_),       \* of four letters
  Tag(_)         \* what the table of an attached dictionary keeps of the rest of the hash

VARIABLE targetLength

vars == <<parserVars, targetLength>>

Hashes == 0 .. 3
HashAt(i) == Hash(Letters(i, 4))
-----------------------------------------------------------------------------
(* Tables of dictionaries, which end before the index cut.                  *)

fastHashFillStep == 3

NoEntry == [index |-> 0, tag |-> 0]

\* The last index of fastHashFillStep that is entered, and those between them.
Groups(cut) == {i \in First .. cut : /\ (i - First) % fastHashFillStep = 0
                                     /\ i + fastHashFillStep < cut - HASH_READ_SIZE + 2}

fillHashTableForCCtx(t, cut) ==
  [h \in Hashes |->
     LET those == {i \in Groups(cut) : Hash(SubSeq(t, i - First + 1, i - First + 4)) = h}
     IN IF those = {} THEN 0 ELSE CHOOSE i \in those : \A j \in those : j <= i]

fillHashTableForCDict(t, cut) ==
  LET Four(i)  == SubSeq(t, i - First + 1, i - First + 4)
      Entry(i) == [index |-> i, tag |-> Tag(Four(i))]
      f[i \in First - 1 .. cut] ==
        IF i < First THEN [h \in Hashes |-> NoEntry]
        ELSE LET first == i - ((i - First) % fastHashFillStep)
                 h     == Hash(Four(i))
             IN IF first \in Groups(cut) /\ (i = first \/ f[i - 1][h].index = 0)
                THEN [f[i - 1] EXCEPT ![h] = Entry(i)] ELSE f[i - 1]
  IN f[cut - 4]
-----------------------------------------------------------------------------
stepSize == targetLength + (IF targetLength = 0 THEN 1 ELSE 0)

Start(ip0, q) ==
  LET step == stepSize + 1
  IN [q EXCEPT !.ip0 = ip0, !.ip1 = ip0 + 1, !.ip2 = ip0 + step, !.ip3 = ip0 + step + 1,
               !.step = step, !.nextStep = ip0 + kStepIncr]

\* The offsets that are not valid at first are put aside.
TooFar(offset, ip0) ==
  CASE Variant = "noDict"  -> offset > ip0 - WithinWindow(ip0, window.dictLimit)
    [] Variant = "extDict" -> offset >= ip0 - dictStartIndex
    [] OTHER               -> FALSE

Locals(start) ==
  LET ip0 == IF Variant = "noDict" /\ start = prefixStartIndex THEN start + 1 ELSE start
      r   == rep.compressor
      Put(offset)  == IF TooFar(offset, ip0) THEN offset ELSE 0
      Used(offset) == IF TooFar(offset, ip0) THEN 0 ELSE offset
  IN [anchor |-> start, ip0 |-> ip0, ip1 |-> ip0, ip2 |-> ip0, ip3 |-> ip0, step |-> 0,
      nextStep |-> 0, hash0 |-> 0, hash1 |-> 0, matchIdx |-> 0, current0 |-> 0,
      rep1 |-> Used(r[1]), rep2 |-> Used(r[2]), saved1 |-> Put(r[1]), saved2 |-> Put(r[2])]

Begin ==
  /\ pc = "begin"
  /\ p' = Locals(block.start)
  /\ seqStore' = <<>>
  /\ pc' = "start"
  /\ UNCHANGED <<hashTable, targetLength>> /\ Fixed

Search ==
  /\ pc = "start" /\ Variant # "dictMatchState"
  /\ LET q == Start(p.ip0, p)
     IN IF q.ip3 >= ilimit THEN pc' = "cleanup" /\ UNCHANGED p
        ELSE /\ p' = [q EXCEPT !.hash0 = HashAt(q.ip0), !.hash1 = HashAt(q.ip1),
                               !.matchIdx = hashTable[HashAt(q.ip0)]]
             /\ pc' = "first"
  /\ UNCHANGED <<hashTable, seqStore, targetLength>> /\ Fixed

\* A sequence up to q.ip0 and from there on, and what is entered of it: the position after
\* which the match was found, and the two letters before the next.
Stored(q, table, litStart, match, least, offBase) ==
  LET mLength == least + count(text, First, q.ip0 + least, match + least, iend)
      ip      == q.ip0 + mLength
      next    == IF Variant = "extDict" /\ q.ip1 < ip THEN [table EXCEPT ![q.hash1] = q.ip1] ELSE table
  IN /\ seqStore' = Append(seqStore, Sequence(litStart, q.ip0, mLength, offBase))
     /\ p' = [q EXCEPT !.ip0 = ip, !.anchor = ip]
     /\ hashTable' = IF ip > ilimit THEN next
                     ELSE [[next EXCEPT ![HashAt(q.current0 + 2)] = q.current0 + 2]
                             EXCEPT ![HashAt(ip - 2)] = ip - 2]
     /\ pc' = "immediate"

\* A match of a position: the letters before it may match too.
FoundAt(table, q, ip, idx) ==
  LET low  == IF Variant # "noDict" /\ ~InPrefix(idx) THEN dictStartIndex ELSE prefixStartIndex
      back == countBackwards(text, First, ip, q.anchor, idx, low)
  IN Stored([q EXCEPT !.ip0 = ip - back, !.rep2 = q.rep1, !.rep1 = ip - idx],
            table, q.anchor, idx - back, 4 + back, OFFSET_TO_OFFBASE(ip - idx))

\* The repeated offset at ip: one letter before may match too.
FoundRepeated(table, q, ip) ==
  LET match == ip - q.rep1
      back  == IF At(ip - 1) = At(match - 1) THEN 1 ELSE 0
  IN Stored([q EXCEPT !.ip0 = ip - back], table, q.anchor, match - back, 4 + back, REPCODE1)

RepeatedMatches(offset, ip) ==
  /\ offset > 0
  /\ Variant = "noDict" \/ (index_overlap_check(prefixStartIndex, ip - offset) /\ ip - offset # prefixStartIndex)
  /\ Matches(ip - offset, ip, 4)

MatchFound(idx, ip) ==
  /\ idx >= (IF Variant = "noDict" THEN prefixStartIndex ELSE dictStartIndex)
  /\ Matches(idx, ip, 4)

\* One position further: what was looked up for ip1 is compared next.
Advanced(q, table, ip2, ip3) ==
  [q EXCEPT !.matchIdx = table[q.hash1], !.hash0 = q.hash1, !.hash1 = HashAt(q.ip2),
            !.ip0 = q.ip1, !.ip1 = q.ip2, !.ip2 = ip2, !.ip3 = ip3]

CompareFirst ==
  /\ pc = "first"
  /\ LET q       == [p EXCEPT !.current0 = p.ip0]
         table   == [hashTable EXCEPT ![q.hash0] = q.ip0]
         entered == IF Variant = "noDict" THEN [table EXCEPT ![q.hash1] = q.ip1] ELSE table
     IN IF RepeatedMatches(q.rep1, q.ip2) THEN FoundRepeated(entered, q, q.ip2)
        ELSE IF MatchFound(q.matchIdx, q.ip0) THEN FoundAt(entered, q, q.ip0, q.matchIdx)
        ELSE /\ p' = Advanced(q, table, q.ip3, q.ip3)
             /\ hashTable' = table
             /\ pc' = "second" /\ UNCHANGED seqStore
  /\ UNCHANGED targetLength /\ Fixed

\* Not the code: what is looked up for the position after is entered however far it is.
EnteredAlways(q, table) == [table EXCEPT ![q.hash1] = q.ip1]

\* The search may resume four letters on: no later index may be in the table.
EnteredSecond(q, table) ==
  IF Variant = "noDict" /\ q.step <= 4 THEN [table EXCEPT ![q.hash1] = q.ip1] ELSE table

CompareSecond ==
  /\ pc = "second"
  /\ LET q     == [p EXCEPT !.current0 = p.ip0]
         table == [hashTable EXCEPT ![q.hash0] = q.ip0]
     IN IF MatchFound(q.matchIdx, q.ip0)
        THEN FoundAt(EnteredSecond(q, table), q, q.ip0, q.matchIdx)
        ELSE LET r == Advanced(q, table, q.ip1 + q.step, q.ip2 + q.step)
                 longer == r.ip2 >= r.nextStep
             IN /\ p' = IF longer THEN [r EXCEPT !.step = @ + 1, !.nextStep = @ + kStepIncr] ELSE r
                /\ hashTable' = table
                /\ pc' = IF r.ip3 < ilimit THEN "first" ELSE "cleanup"
                /\ UNCHANGED seqStore
  /\ UNCHANGED targetLength /\ Fixed
-----------------------------------------------------------------------------
(* With an attached dictionary one position is searched at a time.          *)

DictSearch ==
  /\ pc = "start" /\ Variant = "dictMatchState"
  /\ LET ip1 == p.ip0 + stepSize
         h   == HashAt(p.ip0)
     IN IF ip1 > ilimit THEN pc' = "cleanup" /\ UNCHANGED p
        ELSE /\ p' = [p EXCEPT !.ip1 = ip1, !.step = stepSize, !.nextStep = p.ip0 + 2 * kStepIncr,
                               !.hash0 = h, !.matchIdx = hashTable[h]]
             /\ pc' = "dict"
  /\ UNCHANGED <<hashTable, seqStore, targetLength>> /\ Fixed

\* The dictionary is used where the table has no entry in the prefix.
DictMatchFound(q) ==
  LET entry == dictTable[q.hash0]
  IN /\ entry.tag = Tag(Letters(q.ip0, 4)) /\ entry.index > window.lowLimit
     /\ Matches(entry.index, q.ip0, 4)
     /\ q.matchIdx <= prefixStartIndex

CompareWithDict ==
  /\ pc = "dict"
  /\ LET q     == [p EXCEPT !.current0 = p.ip0]
         table == [hashTable EXCEPT ![q.hash0] = q.ip0]
         ip    == q.ip0 + 1
     IN IF index_overlap_check(prefixStartIndex, ip - q.rep1) /\ Matches(ip - q.rep1, ip, 4)
        THEN Stored([q EXCEPT !.ip0 = ip], table, q.anchor, ip - q.rep1, 4, REPCODE1)
        ELSE IF DictMatchFound(q) THEN FoundAt(table, q, q.ip0, dictTable[q.hash0].index)
        ELSE IF q.matchIdx >= prefixStartIndex /\ Matches(q.matchIdx, q.ip0, 4)
        THEN FoundAt(table, q, q.ip0, q.matchIdx)
        ELSE LET longer == q.ip1 >= q.nextStep
                 step   == IF longer THEN q.step + 1 ELSE q.step
                 h      == HashAt(q.ip1)
             IN /\ p' = [q EXCEPT !.matchIdx = table[h], !.hash0 = h, !.ip0 = q.ip1,
                                  !.ip1 = q.ip1 + step, !.step = step,
                                  !.nextStep = IF longer THEN @ + kStepIncr * 2 ELSE @]
                /\ pc' = IF q.ip1 + step > ilimit THEN "cleanup" ELSE "dict"
                /\ hashTable' = table /\ UNCHANGED seqStore
  /\ UNCHANGED targetLength /\ Fixed
-----------------------------------------------------------------------------
(* Right behind a match the older offset may match: coded as the first, as  *)
(* there are no literals before it.                                         *)
Immediate ==
  /\ pc = "immediate"
  /\ IF /\ p.ip0 <= ilimit /\ (p.rep2 > 0 \/ Variant = "dictMatchState")
        /\ Variant = "noDict" \/ index_overlap_check(prefixStartIndex, p.ip0 - p.rep2)
        /\ Matches(p.ip0 - p.rep2, p.ip0, 4)
     THEN LET rLength == 4 + count(text, First, p.ip0 + 4, p.ip0 + 4 - p.rep2, iend)
          IN /\ seqStore' = Append(seqStore, Sequence(p.ip0, p.ip0, rLength, REPCODE1))
             /\ hashTable' = [hashTable EXCEPT ![HashAt(p.ip0)] = p.ip0]
             /\ p' = [p EXCEPT !.rep1 = p.rep2, !.rep2 = p.rep1, !.ip0 = @ + rLength, !.anchor = @ + rLength]
             /\ UNCHANGED pc
     ELSE pc' = "start" /\ UNCHANGED <<hashTable, seqStore, p>>
  /\ UNCHANGED targetLength /\ Fixed

\* Not the code: the offsets that were put aside come back in their places.
SavedInPlace(q) ==
  <<IF q.rep1 # 0 THEN q.rep1 ELSE q.saved1, IF q.rep2 # 0 THEN q.rep2 ELSE q.saved2>>

\* An offset that was put aside has become the second, where a new one came before it.
Saved(q) ==
  LET saved2 == IF q.saved1 # 0 /\ q.rep1 # 0 THEN q.saved1 ELSE q.saved2
  IN <<IF q.rep1 # 0 THEN q.rep1 ELSE q.saved1, IF q.rep2 # 0 THEN q.rep2 ELSE saved2>>

Cleanup ==
  /\ pc = "cleanup"
  /\ LET r == Saved(p) IN EndBlock(<<r[1], r[2], rep.compressor[3]>>)
  /\ UNCHANGED targetLength

Init ==
  /\ InitText(Ways) /\ targetLength \in TargetLengths
  /\ \E cut \in {First + c : c \in Cuts}, size \in Windows :
       /\ Cut(cut, size)
       /\ hashTable = IF how = "loaded" THEN fillHashTableForCCtx(text, cut) ELSE [h \in Hashes |-> 0]
       /\ dictTable = IF how = "attached" THEN fillHashTableForCDict(text, cut)
                      ELSE [h \in Hashes |-> NoEntry]

Next ==
  \/ Begin \/ Search \/ CompareFirst \/ CompareSecond
  \/ DictSearch \/ CompareWithDict
  \/ Immediate \/ Cleanup
  \/ NextBlock /\ UNCHANGED <<hashTable, targetLength>>

Spec == Init /\ [][Next]_vars
=============================================================================

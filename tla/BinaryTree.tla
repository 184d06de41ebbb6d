----------------------------- MODULE BinaryTree -----------------------------
(***************************************************************************)
(* Match finders with a binary tree for every hash: a position has a       *)
(* smaller and a larger child, in a roll buffer of TreeSize positions that *)
(* is shared by all trees. A search goes down from the newest position and *)
(* makes the position that it searches for the root. What two nodes are    *)
(* known to have in common with it is not compared again, so that a match  *)
(* is right only while the tree is in order.                               *)
(***************************************************************************)
EXTENDS BlockParser

CONSTANTS
  TreeSize,      \* btMask + 1
  nbCompares,    \* 1 << searchLog
  LongMatch,     \* 384: of longer matches,
  MostOfLong,    \* 192: not more than so many positions are left out, or entered
  mls,           \* letters that are hashed
  Hash(_)

Hashes == 0 .. 3
HashAt(i) == Hash(Letters(i, mls))

\* Where the smaller child is; the larger one is behind it. Stores behind a node that is
\* beyond the size of the tree go to the dummy.
Slot(i) == 2 * (i % TreeSize)
Dummy   == 2 * TreeSize

EmptyTree == [hash |-> [h \in Hashes |-> 0], bt |-> [s \in 0 .. Dummy |-> 0], nextToUpdate |-> First]

btLow(i)  == Higher(0, i - (TreeSize - 1))
Unlimited   == 999999999
Lower(a, b) == IF a <= b THEN a ELSE b

\* window.lowLimit: an attached dictionary has a window of its own.
lowestValid == IF how = "attached" THEN window.dictLimit ELSE window.lowLimit
-----------------------------------------------------------------------------
\* Not the code: more is taken to be equal than is known.
HigherCommon(s) == Higher(s.smaller, s.larger)

\* All that is smaller has s.smaller letters in common with ip, and what is larger s.larger.
CommonLength(s) == Lower(s.smaller, s.larger)

\* One node on the way down: s.match is compared with ip, of which the letters up to end
\* count. Who is equal up to the end can not be ordered, and who is equal for more than most
\* letters is not.
Compared(s, ip, old, end, most) ==
  LET common == CommonLength(s)
      node   == Slot(s.match)
      Ordered(length) ==
        LET t == [s EXCEPT !.found = Append(@, [index |-> s.match, length |-> length])]
        IN IF ip + length = end \/ length > most THEN [t EXCEPT !.match = 0, !.equal = TRUE]
           ELSE IF At(s.match + length) < At(ip + length)
           THEN [t EXCEPT !.bt[s.smallerPtr] = s.match, !.smaller = length,
                          !.smallerPtr = IF s.match <= old THEN Dummy ELSE node + 1,
                          !.match = IF s.match <= old THEN 0 ELSE s.bt[node + 1],
                          !.left = IF s.match <= old THEN @ ELSE @ - 1]
           ELSE [t EXCEPT !.bt[s.largerPtr] = s.match, !.larger = length,
                          !.largerPtr = IF s.match <= old THEN Dummy ELSE node,
                          !.match = IF s.match <= old THEN 0 ELSE s.bt[node],
                          !.left = IF s.match <= old THEN @ ELSE @ - 1]
  IN With(common + count(text, First, ip + common, s.match + common, end), Ordered)

\* The way down from the node at match, as long as nodes are low or above, and those above
\* old have children: what was found, and the tree with ip as its root.
Descend(bt, ip, match, low, old, end, most, attempts) ==
  LET top == [bt |-> bt, match |-> match, smallerPtr |-> Slot(ip), largerPtr |-> Slot(ip) + 1,
              smaller |-> 0, larger |-> 0, found |-> <<>>, equal |-> FALSE, left |-> attempts]
      Further(s) == IF s.match >= low /\ s.match > 0 THEN Compared(s, ip, old, end, most) ELSE s
  IN With(Iterated(attempts, top, Further),
          LAMBDA s : [s EXCEPT !.bt = [@ EXCEPT ![s.smallerPtr] = 0, ![s.largerPtr] = 0]])

\* The same way down in the tree of a dictionary, which is left as it is.
DictDescend(dms, ip, most, attempts) ==
  Descend(dms.bt, ip, dms.hash[HashAt(ip)], First + 1, Higher(First, window.dictLimit - (TreeSize - 1)),
          iend, most, attempts)

\* The longest of the matches, and how far they go: up to there the text repeats what is
\* in the tree, and is not entered.
Longest(ip, found, least) ==
  ForEach(found, [length |-> least, end |-> ip + 9],
          LAMBDA e, f : IF f.length <= e.length THEN e
                        ELSE [length |-> f.length, end |-> Higher(e.end, f.index + f.length)])
-----------------------------------------------------------------------------
(* ZSTD_updateTree: all positions up to the target, each in its order.      *)

\* Only nodes that are in the window at the target are needed.
insertBt1(ms, i, target, end) ==
  LET h == HashAt(i)
      d == Descend(ms.bt, i, ms.hash[h], WithinWindow(target, lowestValid), btLow(i), end, Unlimited, nbCompares)
      Entered(way) ==
        With(Longest(i, way.found, 8),
             LAMBDA e : [ms EXCEPT !.hash[h] = i, !.bt = way.bt,
                                   !.nextToUpdate = Higher(e.end - 8, i + Lower(MostOfLong, e.length - LongMatch))])
  IN With(d, Entered)

updateTree(ms, target, end) ==
  LET Step(u) == IF u.nextToUpdate >= target THEN u ELSE insertBt1(u, u.nextToUpdate, target, end)
  IN With(Iterated(target - First, ms, Step), LAMBDA u : [u EXCEPT !.nextToUpdate = target])

\* The tree of a dictionary that ends before the index cut.
TreeOfDictionary(cut) ==
  With(updateTree(EmptyTree, cut - HASH_READ_SIZE, cut), LAMBDA u : [u EXCEPT !.nextToUpdate = cut])
-----------------------------------------------------------------------------
(* ZSTD_BtFindBestMatch: positions are first chained without order, marked  *)
(* as such, and sorted when a search comes by.                              *)

UNSORTED_MARK == 1

updateDUBT(ms, target) ==
  LET Chained(u) ==
        LET i == u.nextToUpdate
            h == HashAt(i)
        IN [u EXCEPT !.hash[h] = i, !.bt[Slot(i)] = u.hash[h], !.bt[Slot(i) + 1] = UNSORTED_MARK,
                     !.nextToUpdate = i + 1]
  IN Iterated(target - ms.nextToUpdate, ms, Chained)

\* Candidates that are not sorted yet, the oldest last, and who comes behind them.
Unsorted(bt, first, limit) ==
  LET Further(u) ==
        IF u.next > limit /\ bt[Slot(u.next) + 1] = UNSORTED_MARK
        THEN [stack |-> Append(u.stack, u.next), next |-> bt[Slot(u.next)]] ELSE u
  IN Iterated(nbCompares - 1, [stack |-> <<>>, next |-> first], Further)

\* A position of the segment before ends where the segment ends.
EndOfSegment(i) == IF i >= window.dictLimit THEN iend ELSE window.dictLimit

\* ZSTD_insertDUBT1: a position that is in the chain takes its place.
insertDUBT1(bt, i, attempts, old) ==
  Descend(bt, i, bt[Slot(i)], Higher(lowestValid, i - window.size) + 1, old, EndOfSegment(i), Unlimited, attempts).bt

\* The oldest are sorted first; if there were too many, the rest is forgotten.
Sorted(bt, first, limit) ==
  LET SortedStack(u) ==
        LET n == Len(u.stack)
            clear == IF u.next > limit /\ bt[Slot(u.next) + 1] = UNSORTED_MARK
                     THEN [bt EXCEPT ![Slot(u.next)] = 0, ![Slot(u.next) + 1] = 0] ELSE bt
        IN ForEach([k \in 1 .. n |-> k], clear,
                   LAMBDA b, k : insertDUBT1(b, u.stack[n - k + 1], nbCompares - n + k - 1, limit))
  IN With(Unsorted(bt, first, limit), SortedStack)

NoOffset == Unlimited

\* The best of what was found: a longer match may be too far. And how far those go that
\* were longer than the best before them.
Best(ip, found, best, more) ==
  LET Compare(b, f) ==
        LET gain == 4 * (f.length - b.length)
            better == gain > highbit32(ip - f.index + 1) - highbit32(b.offBase + more)
        IN IF gain <= 0 THEN b
           ELSE [length  |-> IF better THEN f.length ELSE b.length,
                 offBase |-> IF better THEN OFFSET_TO_OFFBASE(ip - f.index) ELSE b.offBase,
                 end     |-> Higher(b.end, f.index + f.length)]
  IN ForEach(found, best, Compare)

NoMatch(ms) == [ms |-> ms, length |-> 0, offBase |-> NoOffset]

DUBT_findBestMatch(ms, dms, ip) ==
  LET h     == HashAt(ip)
      low   == WithinWindow(ip, lowestValid)
      Nothing == [length |-> 0, offBase |-> NoOffset, end |-> ip + 9]
      Search(bt) == Descend(bt, ip, ms.hash[h], low + 1, btLow(ip), iend, Unlimited, nbCompares)
      Result(d) ==
        With(Best(ip, d.found, Nothing, 0),
             LAMBDA best :
               With(IF how = "attached" /\ ~d.equal
                    THEN Best(ip, DictDescend(dms, ip, Unlimited, d.left).found, best, 1) ELSE best,
                    LAMBDA better :
                      [ms |-> [ms EXCEPT !.hash[h] = ip, !.bt = d.bt, !.nextToUpdate = best.end - 8],
                       length |-> better.length, offBase |-> better.offBase]))
  IN With(With(Sorted(ms.bt, ms.hash[h], Higher(btLow(ip), low)), Search), Result)

BtFindBestMatch(ms, dms, ip) ==
  IF ip < ms.nextToUpdate THEN NoMatch(ms)
  ELSE With(updateDUBT(ms, ip), LAMBDA u : DUBT_findBestMatch(u, dms, ip))
=============================================================================

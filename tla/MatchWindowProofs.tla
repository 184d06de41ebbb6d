-------------------------- MODULE MatchWindowProofs --------------------------
(***************************************************************************)
(* Theorems about MatchWindow, for buffers anywhere, chunks and            *)
(* dictionaries of any sizes, and any window, cycle, block and limit of    *)
(* indexes of which WindowAssumption holds.                                *)
(***************************************************************************)
EXTENDS MatchWindow, TLAPS

Windows == [base : Int, dictBase : Int, lowLimit : Int, dictLimit : Int, end : Int]
Memories == [Memory -> Int]

\* The limits of a window; and every index in it names the byte that it was given to.
InOrder(w) == START_INDEX <= w.lowLimit /\ w.lowLimit <= w.dictLimit /\ w.dictLimit <= w.end

AddressOf(w, i) == (IF i < w.dictLimit THEN w.dictBase ELSE w.base) + i
Reaches(mem, w) ==
  \A i \in Int : w.lowLimit <= i /\ i < w.end => AddressOf(w, i) \in Memory /\ mem[AddressOf(w, i)] = i

Types ==
  /\ memory \in Memories /\ window \in Windows
  /\ nextToUpdate \in Int /\ loadedDictEnd \in Int /\ dictEnd \in Int
  /\ pc \in {"idle", "blocks", "compress"}
  /\ ip \in Int /\ remaining \in Nat /\ block \in Int

TableIsCurrent == \A e \in table : e[2] = e[1]

\* The rest of the chunk is the end of the window, and the prefix is before it.
ChunkIsAtEnd ==
  pc # "idle" =>
    /\ ip + remaining = window.base + window.end
    /\ window.dictLimit <= ip - window.base
    /\ loadedDictEnd <= ip - window.base

\* A dictionary that is still there is the one that the frame began with.
DictionaryIsOfFrame ==
  /\ loadedDictEnd <= window.end
  /\ loadedDictEnd # 0 => loadedDictEnd = dictEnd

\* Insertion goes on in the prefix, or there is no other index to go on from.
InsertionIsInPrefix ==
  nextToUpdate >= window.dictLimit \/ window.lowLimit = window.dictLimit

BlockIsReady ==
  pc = "compress" =>
    /\ 0 < block /\ block <= remaining
    /\ ip + block - window.base <= CURRENT_MAX
    /\ nextToUpdate >= window.dictLimit
    /\ loadedDictEnd # 0 => ip + block - window.base <= loadedDictEnd + maxDist
    /\ attached # 0 => loadedDictEnd # 0 /\ window.dictLimit = dictEnd

IInv ==
  /\ Types
  /\ InOrder(window) /\ Reaches(memory, window)
  /\ TableIsCurrent /\ ChunkIsAtEnd /\ DictionaryIsOfFrame /\ InsertionIsInPrefix /\ BlockIsReady

-----------------------------------------------------------------------------
\* Windows

LEMMA FieldsOfWindow ==
  ASSUME NEW w \in Windows
  PROVE  /\ w.base \in Int /\ w.dictBase \in Int /\ w.lowLimit \in Int
         /\ w.dictLimit \in Int /\ w.end \in Int
BY DEF Windows

LEMMA FreshIsEmpty ==
  ASSUME WindowAssumption, NEW mem
  PROVE  Fresh \in Windows /\ InOrder(Fresh) /\ Reaches(mem, Fresh)
BY DEF WindowAssumption, Fresh, Windows, InOrder, Reaches, START_INDEX

LEMMA ClearedIsEmpty ==
  ASSUME NEW mem, NEW w \in Windows, InOrder(w)
  PROVE  /\ Cleared(w) \in Windows /\ InOrder(Cleared(w)) /\ Reaches(mem, Cleared(w))
         /\ Cleared(w).lowLimit = w.end /\ Cleared(w).dictLimit = w.end /\ Cleared(w).end = w.end
<1>1. Cleared(w) \in Windows
  BY DEF Cleared, Windows
<1>2. Cleared(w).lowLimit = w.end /\ Cleared(w).dictLimit = w.end /\ Cleared(w).end = w.end
  BY DEF Cleared, Windows
<1>3. w.end \in Int /\ START_INDEX <= w.end
  BY FieldsOfWindow DEF InOrder, START_INDEX
<1> QED
  BY <1>1, <1>2, <1>3 DEF InOrder, Reaches

\* What Kept forgets nobody reaches.
LEMMA KeptIsSame ==
  ASSUME WindowAssumption, NEW mem, NEW w \in Windows
  PROVE  /\ Kept(w) \in Windows
         /\ Kept(w).base = w.base /\ Kept(w).lowLimit = w.lowLimit
         /\ Kept(w).dictLimit = w.dictLimit /\ Kept(w).end = w.end
         /\ InOrder(w) => InOrder(Kept(w))
         /\ Reaches(mem, w) => Reaches(mem, Kept(w))
<1>1. CASE w.lowLimit = w.dictLimit
  <2> DEFINE k == [w EXCEPT !.dictBase = Nowhere]
  <2>1. Kept(w) = k
    BY <1>1 DEF Kept
  <2>2. k \in Windows /\ k.base = w.base /\ k.lowLimit = w.lowLimit /\ k.dictLimit = w.dictLimit
        /\ k.end = w.end
    BY DEF Windows, WindowAssumption
  <2>3. ASSUME NEW i \in Int, w.lowLimit <= i PROVE AddressOf(k, i) = AddressOf(w, i)
    <3>1. ~(i < w.dictLimit)
      BY <1>1, <2>3, FieldsOfWindow
    <3> QED
      BY <2>2, <3>1 DEF AddressOf
  <2>4. Reaches(mem, w) => Reaches(mem, k)
    <3> HIDE DEF k
    <3> QED
      BY <2>2, <2>3 DEF Reaches
  <2> QED
    BY <2>1, <2>2, <2>4 DEF InOrder
<1>2. CASE w.lowLimit # w.dictLimit
  BY <1>2 DEF Kept
<1> QED
  BY <1>1, <1>2

LEMMA RememberedIsReached ==
  ASSUME WindowAssumption, NEW mem \in Memories, NEW w \in Windows
  PROVE  /\ Remembered(mem, w) \in Memories
         /\ Reaches(mem, w) => Reaches(Remembered(mem, w), w)
<1>1. Remembered(mem, w) \in Memories
  BY DEF Remembered, Memories
<1>2. ASSUME Reaches(mem, w), NEW i \in Int, w.lowLimit <= i, i < w.end
      PROVE  AddressOf(w, i) \in Memory /\ Remembered(mem, w)[AddressOf(w, i)] = i
  <2>1. AddressOf(w, i) \in Memory /\ mem[AddressOf(w, i)] = i
    BY <1>2 DEF Reaches
  <2>2. ~(i < w.lowLimit)
    BY <1>2, FieldsOfWindow
  <2> HIDE DEF AddressOf
  <2> QED
    BY <2>1, <2>2 DEF Remembered
<1> QED
  BY <1>1, <1>2 DEF Reaches

-----------------------------------------------------------------------------
\* New input

LEMMA NewSegmentIsEmpty ==
  ASSUME WindowAssumption, NEW mem, NEW w \in Windows, InOrder(w), Reaches(mem, w), NEW src \in Int
  PROVE  LET v == NewSegment(w, src) IN
         /\ v \in Windows /\ InOrder(v) /\ Reaches(mem, v)
         /\ v.base + w.end = src /\ v.dictLimit = w.end /\ v.end = w.end
<1> DEFINE v == NewSegment(w, src)
<1>1. /\ w.base \in Int /\ w.dictBase \in Int /\ w.lowLimit \in Int /\ w.dictLimit \in Int /\ w.end \in Int
      /\ START_INDEX <= w.lowLimit /\ w.lowLimit <= w.dictLimit /\ w.dictLimit <= w.end
  BY FieldsOfWindow DEF InOrder
<1>2. /\ v.base = src - w.end /\ v.dictBase = w.base /\ v.dictLimit = w.end /\ v.end = w.end
      /\ v.lowLimit \in {w.end, w.dictLimit}
  BY DEF NewSegment
<1>3. v \in Windows
  BY <1>1 DEF NewSegment, Windows
<1>4. InOrder(v)
  <2> HIDE DEF v
  <2> QED
    BY <1>1, <1>2 DEF InOrder, START_INDEX
<1>5. ASSUME NEW i \in Int, v.lowLimit <= i, i < v.end
      PROVE  AddressOf(v, i) \in Memory /\ mem[AddressOf(v, i)] = i
  <2> HIDE DEF v
  <2>1. w.lowLimit <= i /\ i < w.end /\ ~(i < w.dictLimit) /\ i < v.dictLimit
    BY <1>1, <1>2, <1>5
  <2>2. AddressOf(v, i) = AddressOf(w, i)
    BY <1>2, <2>1 DEF AddressOf
  <2> QED
    BY <2>1, <2>2 DEF Reaches
<1>6. v.base + w.end = src
  <2> HIDE DEF v
  <2> QED
    BY <1>1, <1>2
<1> HIDE DEF v
<1>7. Reaches(mem, v)
  BY <1>5 DEF Reaches
<1> QED
  BY <1>2, <1>3, <1>4, <1>6, <1>7 DEF v

\* The input is written where the window ends, over what it no longer reaches.
LEMMA ExtendedIsReached ==
  ASSUME WindowAssumption, NEW mem \in Memories, NEW w \in Windows, InOrder(w), Reaches(mem, w),
         NEW src \in Int, NEW size \in Nat \ {0}, w.base + w.end = src,
         \A a \in src .. src + size - 1 : a \in Memory
  PROVE  LET v == Extended(w, src, size) IN
         /\ v \in Windows /\ InOrder(v) /\ Reaches(Written(mem, w, src, size), v)
         /\ v.base = w.base /\ v.dictLimit = w.dictLimit /\ v.end = w.end + size
         /\ w.lowLimit = w.dictLimit => v.lowLimit = v.dictLimit
<1> DEFINE u == [w EXCEPT !.end = src + size - w.base]
           v == Extended(w, src, size)
           m == Written(mem, w, src, size)
<1>1. /\ w.base \in Int /\ w.dictBase \in Int /\ w.lowLimit \in Int /\ w.dictLimit \in Int /\ w.end \in Int
      /\ START_INDEX <= w.lowLimit /\ w.lowLimit <= w.dictLimit /\ w.dictLimit <= w.end
  BY FieldsOfWindow DEF InOrder
<1>2. src + size - w.base \in Int /\ src + size - w.base = w.end + size
  BY <1>1
<1>3. /\ u \in Windows /\ u.base = w.base /\ u.dictBase = w.dictBase /\ u.dictLimit = w.dictLimit
      /\ u.lowLimit = w.lowLimit /\ u.end = w.end + size
  BY <1>2 DEF Windows
<1> DEFINE low == Least(src + size - u.dictBase, u.dictLimit)
<1>4. low \in Int
  <2> HIDE DEF u
  <2> QED
    BY <1>1, <1>3 DEF Least
<1>5. v = IF Overlaps(u, src, size) THEN [u EXCEPT !.lowLimit = low] ELSE u
  BY DEF Extended
<1>6. /\ v \in Windows /\ v.base = w.base /\ v.dictBase = w.dictBase /\ v.dictLimit = w.dictLimit
      /\ v.end = w.end + size
      /\ v.lowLimit = IF Overlaps(u, src, size) THEN low ELSE w.lowLimit
  <2> HIDE DEF u, low, v
  <2> QED
    BY <1>3, <1>4, <1>5 DEF Windows
<1>7. /\ w.lowLimit <= v.lowLimit /\ v.lowLimit <= w.dictLimit
      /\ \/ v.lowLimit = w.dictLimit
         \/ src + size <= w.dictBase + v.lowLimit
         \/ w.dictBase + w.dictLimit <= src
  <2> HIDE DEF u, v
  <2>1. CASE Overlaps(u, src, size)
    <3>1. src + size > w.dictBase + w.lowLimit /\ src < w.dictBase + w.dictLimit
      BY <1>3, <2>1 DEF Overlaps
    <3>2. v.lowLimit = Least(src + size - w.dictBase, w.dictLimit)
      BY <1>3, <1>6, <2>1
    <3> QED
      BY <1>1, <3>1, <3>2 DEF Least
  <2>2. CASE ~Overlaps(u, src, size)
    <3>1. ~(src + size > w.dictBase + w.lowLimit /\ src < w.dictBase + w.dictLimit)
      BY <1>3, <2>2 DEF Overlaps
    <3>2. v.lowLimit = w.lowLimit
      BY <1>6, <2>2
    <3> QED
      BY <1>1, <3>1, <3>2
  <2> QED
    BY <2>1, <2>2
<1> HIDE DEF u, v, low
<1>8. v.lowLimit \in Int
  BY <1>6, FieldsOfWindow
<1>9. InOrder(v)
  BY <1>1, <1>6, <1>7, <1>8 DEF InOrder, START_INDEX
<1>10. ASSUME NEW i \in Int, v.lowLimit <= i, i < v.end
       PROVE  AddressOf(v, i) \in Memory /\ m[AddressOf(v, i)] = i
  <2>1. CASE i < w.end
    <3>1. AddressOf(v, i) = AddressOf(w, i) /\ AddressOf(v, i) \in Int
      BY <1>1, <1>6 DEF AddressOf
    <3>2. AddressOf(w, i) \in Memory /\ mem[AddressOf(w, i)] = i
      BY <1>1, <1>7, <1>8, <1>10, <2>1 DEF Reaches
    <3>3. AddressOf(v, i) \notin src .. src + size - 1
      <4>1. CASE i < w.dictLimit
        <5>1. AddressOf(v, i) = w.dictBase + i
          BY <1>6, <4>1 DEF AddressOf
        <5> QED
          BY <1>1, <1>7, <1>8, <1>10, <4>1, <5>1
      <4>2. CASE ~(i < w.dictLimit)
        <5>1. AddressOf(v, i) = w.base + i
          BY <1>6, <4>2 DEF AddressOf
        <5> QED
          BY <1>1, <2>1, <4>2, <5>1
      <4> QED
        BY <4>1, <4>2
    <3> QED
      BY <3>1, <3>2, <3>3 DEF Written
  <2>2. CASE ~(i < w.end)
    <3>1. AddressOf(v, i) = w.base + i
      BY <1>1, <1>6, <2>2 DEF AddressOf
    <3>2. w.base + i \in src .. src + size - 1
      BY <1>1, <1>6, <1>10, <2>2
    <3>3. m[w.base + i] = w.end + (w.base + i) - src
      BY <3>2 DEF Written
    <3>4. w.end + (w.base + i) - src = i
      BY <1>1
    <3> QED
      BY <3>1, <3>2, <3>3, <3>4
  <2> QED
    BY <2>1, <2>2
<1> HIDE DEF m
<1>11. Reaches(m, v)
  BY <1>10 DEF Reaches
<1>12. w.lowLimit = w.dictLimit => v.lowLimit = v.dictLimit
  BY <1>1, <1>6, <1>7, <1>8
<1> QED
  BY <1>6, <1>9, <1>11, <1>12 DEF v, m

LEMMA UpdatedIsReached ==
  ASSUME WindowAssumption, NEW mem \in Memories, NEW w \in Windows, InOrder(w), Reaches(mem, w),
         NEW src \in Int, NEW size \in Nat \ {0}, NEW force,
         \A a \in src .. src + size - 1 : a \in Memory
  PROVE  LET v == Updated(w, src, size, force) IN
         /\ v \in Windows /\ InOrder(v) /\ Reaches(Written(mem, w, src, size), v)
         /\ v.base + w.end = src /\ v.end = w.end + size
         /\ v.dictLimit = IF IsContiguous(w, src, force) THEN w.dictLimit ELSE w.end
         /\ IsContiguous(w, src, force) /\ w.lowLimit = w.dictLimit => v.lowLimit = v.dictLimit
<1> DEFINE v == Updated(w, src, size, force)
<1>1. CASE IsContiguous(w, src, force)
  <2>1. v = Extended(w, src, size) /\ w.base + w.end = src
    BY <1>1, FieldsOfWindow DEF Updated, IsContiguous
  <2> HIDE DEF v
  <2> QED
    BY <1>1, <2>1, ExtendedIsReached DEF v
<1>2. CASE ~IsContiguous(w, src, force)
  <2> DEFINE s == NewSegment(w, src)
  <2>1. v = Extended(s, src, size)
    BY <1>2 DEF Updated
  <2>2. /\ s \in Windows /\ InOrder(s) /\ Reaches(mem, s)
        /\ s.base + w.end = src /\ s.dictLimit = w.end /\ s.end = w.end
    BY NewSegmentIsEmpty
  <2>3. Written(mem, s, src, size) = Written(mem, w, src, size)
    <3> HIDE DEF s
    <3> QED
      BY <2>2 DEF Written
  <2> HIDE DEF s, v
  <2> QED
    BY <1>2, <2>1, <2>2, <2>3, ExtendedIsReached DEF v
<1> QED
  BY <1>1, <1>2

LEMMA WrittenIsMemory ==
  ASSUME NEW mem \in Memories, NEW w \in Windows, NEW src \in Int, NEW size \in Nat \ {0}
  PROVE  Written(mem, w, src, size) \in Memories
<1>1. ASSUME NEW a \in Memory, a \in src .. src + size - 1 PROVE w.end + a - src \in Int
  BY <1>1, FieldsOfWindow
<1> QED
  BY <1>1 DEF Written, Memories

-----------------------------------------------------------------------------
\* The correction of indexes

\* The position moves to one that is within the first cycles after a window.
LEMMA CorrectionOfPosition ==
  ASSUME WindowAssumption, NEW curr \in Nat
  PROVE  \E new \in Int : /\ Correction(curr) = curr - new
                          /\ START_INDEX <= new /\ new <= CorrectedMax
<1>1. cycleSize \in Nat /\ cycleSize > 0 /\ maxDist \in Nat
  BY DEF WindowAssumption
<1>2. PICK currentCycle \in Int : /\ currentCycle = curr % cycleSize
                                  /\ 0 <= currentCycle /\ currentCycle < cycleSize
  BY <1>1
<1> DEFINE new == currentCycle
                  + (IF currentCycle < START_INDEX THEN Greatest(cycleSize, START_INDEX) ELSE 0)
                  + Greatest(maxDist, cycleSize)
<1>3. Correction(curr) = curr - new
  BY <1>2 DEF Correction
<1>4. new \in Int /\ START_INDEX <= new /\ new <= CorrectedMax
  BY <1>1, <1>2 DEF CorrectedMax, Greatest, START_INDEX
<1> HIDE DEF new
<1> QED
  BY <1>3, <1>4

LEMMA ReducedIsInt ==
  ASSUME NEW index \in Int, NEW correction \in Int
  PROVE  Reduced(index, correction) \in Int /\ Limited(index, correction) \in Int
BY DEF Reduced, Limited, START_INDEX

LEMMA RenumberedIsMemory ==
  ASSUME NEW mem \in Memories, NEW correction \in Int
  PROVE  Renumbered(mem, correction) \in Memories
<1>1. ASSUME NEW a \in Memory PROVE Reduced(mem[a], correction) \in Int
  BY ReducedIsInt DEF Memories
<1> QED
  BY <1>1 DEF Renumbered, Memories

\* Indexes, limits and the numbers of bytes go down together.
LEMMA CorrectedIsReached ==
  ASSUME WindowAssumption, NEW mem \in Memories, NEW w \in Windows, InOrder(w), Reaches(mem, w),
         NEW correction \in Int, START_INDEX <= w.end - correction
  PROVE  LET v == Corrected(w, correction) IN
         /\ v \in Windows /\ InOrder(v) /\ Reaches(Renumbered(mem, correction), v)
         /\ v.base = w.base + correction /\ v.end = w.end - correction
         /\ v.lowLimit = Limited(w.lowLimit, correction)
         /\ v.dictLimit = Limited(w.dictLimit, correction)
<1> DEFINE v == Corrected(w, correction)
           m == Renumbered(mem, correction)
<1>1. /\ w.base \in Int /\ w.dictBase \in Int /\ w.lowLimit \in Int /\ w.dictLimit \in Int /\ w.end \in Int
      /\ START_INDEX <= w.lowLimit /\ w.lowLimit <= w.dictLimit /\ w.dictLimit <= w.end
  BY FieldsOfWindow DEF InOrder
<1>2. /\ v.base = w.base + correction /\ v.dictBase = w.dictBase + correction
      /\ v.end = w.end - correction
      /\ v.lowLimit = Limited(w.lowLimit, correction)
      /\ v.dictLimit = Limited(w.dictLimit, correction)
  BY DEF Corrected
<1>3. v \in Windows
  <2>1. Limited(w.lowLimit, correction) \in Int /\ Limited(w.dictLimit, correction) \in Int
    BY <1>1, ReducedIsInt
  <2>2. w.base + correction \in Int /\ w.dictBase + correction \in Int /\ w.end - correction \in Int
    BY <1>1
  <2> QED
    BY <2>1, <2>2 DEF Corrected, Windows
<1> HIDE DEF v
<1>4. InOrder(v)
  BY <1>1, <1>2 DEF InOrder, Limited, START_INDEX
<1>5. ASSUME NEW i \in Int, v.lowLimit <= i, i < v.end
      PROVE  AddressOf(v, i) \in Memory /\ m[AddressOf(v, i)] = i
  <2> DEFINE j == i + correction
  <2>1. /\ j \in Int /\ w.lowLimit <= j /\ j < w.end /\ ~(j < correction + START_INDEX)
        /\ j - correction = i /\ (i < v.dictLimit <=> j < w.dictLimit)
    BY <1>1, <1>2, <1>5 DEF Limited, START_INDEX
  <2>2. AddressOf(v, i) = AddressOf(w, j)
    <3>1. w.dictBase + correction + i = w.dictBase + j /\ w.base + correction + i = w.base + j
      BY <1>1
    <3> HIDE DEF j
    <3> QED
      BY <1>2, <2>1, <3>1 DEF AddressOf
  <2>3. AddressOf(w, j) \in Memory /\ mem[AddressOf(w, j)] = j
    <3> HIDE DEF j
    <3> QED
      BY <2>1 DEF Reaches
  <2>4. Reduced(j, correction) = i
    <3> HIDE DEF j
    <3> QED
      BY <2>1 DEF Reduced
  <2> HIDE DEF j
  <2> QED
    BY <2>2, <2>3, <2>4 DEF Renumbered
<1> HIDE DEF m
<1>6. Reaches(m, v)
  BY <1>5 DEF Reaches
<1> QED
  BY <1>2, <1>3, <1>4, <1>6 DEF v, m

\* Without a correction every byte keeps its index.
LEMMA UncorrectedIsReached ==
  ASSUME NEW mem, NEW w \in Windows, InOrder(w), Reaches(mem, w)
  PROVE  Reaches(Renumbered(mem, 0), w)
<1>1. w.lowLimit \in Int
  BY FieldsOfWindow
<1>2. ASSUME NEW i \in Int, w.lowLimit <= i, i < w.end
      PROVE  AddressOf(w, i) \in Memory /\ Renumbered(mem, 0)[AddressOf(w, i)] = i
  <2>1. AddressOf(w, i) \in Memory /\ mem[AddressOf(w, i)] = i
    BY <1>2 DEF Reaches
  <2>2. Reduced(i, 0) = i
    BY <1>1, <1>2 DEF Reduced, InOrder, START_INDEX
  <2> QED
    BY <2>1, <2>2 DEF Renumbered
<1> QED
  BY <1>2 DEF Reaches

\* ZSTD_overflowCorrectIfNeeded, for a block that begins at src, within the window or at its end.
LEMMA CorrectIfNeededIsReached ==
  ASSUME WindowAssumption, NEW mem \in Memories, NEW w \in Windows, InOrder(w), Reaches(mem, w),
         NEW src \in Int, NEW size \in Nat,
         START_INDEX <= src - w.base, src <= w.base + w.end
  PROVE  LET c == CorrectIfNeeded(w, src, size)
             v == c.window
         IN  /\ c.correction \in Int /\ v \in Windows
             /\ InOrder(v) /\ Reaches(Renumbered(mem, c.correction), v)
             /\ v.base = w.base + c.correction /\ v.end = w.end - c.correction
             /\ c.correction = 0 => v = w
             /\ c.correction # 0 =>
                  /\ NeedsCorrection(w, src, size)
                  /\ v.lowLimit = Limited(w.lowLimit, c.correction)
                  /\ v.dictLimit = Limited(w.dictLimit, c.correction)
                  /\ START_INDEX <= src - v.base /\ src - v.base <= CorrectedMax
<1> DEFINE c == CorrectIfNeeded(w, src, size)
           v == c.window
<1>1. w.base \in Int /\ w.end \in Int /\ w.lowLimit \in Int /\ w.dictLimit \in Int
  BY FieldsOfWindow
<1>2. src - w.base \in Nat
  BY <1>1 DEF START_INDEX
<1>3. PICK new \in Int : /\ Correction(src - w.base) = (src - w.base) - new
                         /\ START_INDEX <= new /\ new <= CorrectedMax
  BY <1>2, CorrectionOfPosition
<1>4. c.correction = IF NeedsCorrection(w, src, size) THEN Correction(src - w.base) ELSE 0
  BY DEF CorrectIfNeeded
<1>5. v = IF c.correction = 0 THEN w ELSE Corrected(w, c.correction)
  BY DEF CorrectIfNeeded
<1> HIDE DEF c, v
<1>6. CASE c.correction = 0
  <2>1. v = w
    BY <1>5, <1>6
  <2>2. START_INDEX <= w.end - 0 /\ w.base = w.base + 0 /\ w.end = w.end - 0
    BY <1>1 DEF InOrder, START_INDEX
  <2>3. Reaches(Renumbered(mem, 0), w)
    BY UncorrectedIsReached
  <2> QED
    BY <1>6, <2>1, <2>2, <2>3 DEF c, v
<1>7. CASE c.correction # 0
  <2>1. NeedsCorrection(w, src, size) /\ c.correction = (src - w.base) - new
    BY <1>3, <1>4, <1>7
  <2>2. v = Corrected(w, c.correction)
    BY <1>5, <1>7
  <2>3. c.correction \in Int
    BY <1>1, <2>1
  <2>4. START_INDEX <= w.end - c.correction
    BY <1>1, <1>3, <2>1 DEF START_INDEX
  <2>5. /\ v \in Windows /\ InOrder(v) /\ Reaches(Renumbered(mem, c.correction), v)
        /\ v.base = w.base + c.correction /\ v.end = w.end - c.correction
        /\ v.lowLimit = Limited(w.lowLimit, c.correction)
        /\ v.dictLimit = Limited(w.dictLimit, c.correction)
    BY <2>2, <2>3, <2>4, CorrectedIsReached
  <2>6. src - v.base = new
    BY <1>1, <2>1, <2>3, <2>5
  <2> QED
    BY <1>3, <1>7, <2>1, <2>3, <2>5, <2>6 DEF c, v
<1> QED
  BY <1>6, <1>7

-----------------------------------------------------------------------------
\* The steps

LEMMA InitIsReached == ASSUME WindowAssumption, Init PROVE IInv
<1>1. window = Fresh /\ pc = "idle"
  BY DEF Init
<1>2. window \in Windows /\ InOrder(window) /\ Reaches(memory, window)
  BY <1>1, FreshIsEmpty
<1>3. window.dictLimit = START_INDEX /\ window.lowLimit = START_INDEX /\ window.end = START_INDEX
  BY <1>1 DEF Fresh
<1>4. Types
  BY <1>2 DEF Init, Types, Memories, START_INDEX
<1>5. TableIsCurrent /\ ChunkIsAtEnd /\ BlockIsReady
  BY DEF Init, TableIsCurrent, ChunkIsAtEnd, BlockIsReady
<1>6. DictionaryIsOfFrame /\ InsertionIsInPrefix
  BY <1>3 DEF Init, DictionaryIsOfFrame, InsertionIsInPrefix, START_INDEX
<1> QED
  BY <1>2, <1>4, <1>5, <1>6 DEF IInv

\* ZSTD_resetCCtx_internal leaves an empty window.
LEMMA ResetIsEmpty ==
  ASSUME WindowAssumption, IInv, NEW indexReset
  PROVE  /\ ResetWindow(indexReset) \in Windows /\ InOrder(ResetWindow(indexReset))
         /\ \A mem : Reaches(mem, ResetWindow(indexReset))
         /\ ResetWindow(indexReset).lowLimit = ResetWindow(indexReset).end
         /\ ResetWindow(indexReset).dictLimit = ResetWindow(indexReset).end
         /\ ResetMemory(indexReset) \in Memories
         /\ \A e \in ResetTable(indexReset) : e[2] = e[1]
<1> DEFINE w == IF indexReset THEN Fresh ELSE window
<1>1. w \in Windows /\ InOrder(w)
  BY FreshIsEmpty DEF IInv, Types
<1>2. ResetWindow(indexReset) = Cleared(w)
  BY DEF ResetWindow
<1>3. /\ ResetWindow(indexReset) \in Windows /\ InOrder(ResetWindow(indexReset))
      /\ \A mem : Reaches(mem, ResetWindow(indexReset))
      /\ ResetWindow(indexReset).lowLimit = ResetWindow(indexReset).end
      /\ ResetWindow(indexReset).dictLimit = ResetWindow(indexReset).end
  <2> HIDE DEF w
  <2> QED
    BY <1>1, <1>2, ClearedIsEmpty
<1>4. ResetMemory(indexReset) \in Memories
  <2>1. [a \in Memory |-> 0] \in Memories
    BY DEF Memories
  <2>2. Remembered(memory, ResetWindow(FALSE)) \in Memories
    <3>1. window \in Windows /\ InOrder(window) /\ memory \in Memories
      BY DEF IInv, Types
    <3>2. ResetWindow(FALSE) = Cleared(window)
      BY DEF ResetWindow
    <3>3. ResetWindow(FALSE) \in Windows
      BY <3>1, <3>2, ClearedIsEmpty
    <3> QED
      BY <3>1, <3>3, RememberedIsReached
  <2> QED
    BY <2>1, <2>2 DEF ResetMemory
<1>5. \A e \in ResetTable(indexReset) : e[2] = e[1]
  BY DEF ResetTable, Live, IInv, TableIsCurrent
<1> QED
  BY <1>3, <1>4, <1>5

LEMMA BeginFrameIsReached ==
  ASSUME WindowAssumption, IInv, NEW resized \in BOOLEAN, BeginFrame(resized) PROVE IInv'
<1> DEFINE indexReset == NeedsIndexReset(resized, 0)
           from == ResetWindow(indexReset)
<1>1. /\ from \in Windows /\ InOrder(from)
      /\ Reaches(ResetMemory(indexReset), from)
      /\ from.lowLimit = from.end /\ from.dictLimit = from.end
      /\ ResetMemory(indexReset) \in Memories
      /\ \A e \in ResetTable(indexReset) : e[2] = e[1]
  BY ResetIsEmpty
<1>2. /\ window' = Kept(from) /\ table' = ResetTable(indexReset) /\ memory' = ResetMemory(indexReset)
      /\ nextToUpdate' = from.dictLimit /\ loadedDictEnd' = 0
      /\ dictEnd' = from.end
      /\ pc' = "idle" /\ ip' = ip /\ remaining' = remaining /\ block' = block
  BY DEF BeginFrame, Idle
<1>3. /\ window' \in Windows /\ InOrder(window') /\ Reaches(memory', window')
      /\ window'.lowLimit = from.end /\ window'.dictLimit = from.end
      /\ window'.end = from.end
  BY <1>1, <1>2, KeptIsSame
<1>4. from.end \in Int /\ START_INDEX <= from.end
  BY <1>1, FieldsOfWindow DEF InOrder, START_INDEX
<1>5. Types'
  BY <1>1, <1>2, <1>3, <1>4 DEF Types, IInv
<1>6. TableIsCurrent' /\ ChunkIsAtEnd' /\ BlockIsReady'
  BY <1>1, <1>2 DEF TableIsCurrent, ChunkIsAtEnd, BlockIsReady
<1>7. DictionaryIsOfFrame' /\ InsertionIsInPrefix'
  BY <1>2, <1>3, <1>4 DEF DictionaryIsOfFrame, InsertionIsInPrefix, START_INDEX
<1> QED
  BY <1>3, <1>5, <1>6, <1>7 DEF IInv

LEMMA AttachCDictIsReached ==
  ASSUME WindowAssumption, IInv, NEW resized \in BOOLEAN, NEW total \in DictSizes,
         AttachCDict(resized, total)
  PROVE  IInv'
<1> DEFINE indexReset == NeedsIndexReset(resized, 0)
           from == ResetWindow(indexReset)
           size == Least(total, CDictMax)
           cdictEnd == START_INDEX + size
           moved == [from EXCEPT !.end = cdictEnd]
           w == IF from.dictLimit < cdictEnd THEN Cleared(moved) ELSE from
<1>1. /\ from \in Windows /\ InOrder(from)
      /\ Reaches(ResetMemory(indexReset), from)
      /\ from.lowLimit = from.end /\ from.dictLimit = from.end
      /\ ResetMemory(indexReset) \in Memories
      /\ \A e \in ResetTable(indexReset) : e[2] = e[1]
  BY ResetIsEmpty
<1>2. size \in Nat /\ cdictEnd \in Int
  BY DEF WindowAssumption, Least, START_INDEX
<1>3. from.end \in Int /\ START_INDEX <= from.end
  BY <1>1, FieldsOfWindow DEF InOrder, START_INDEX
<1>4. /\ window' = Kept(w) /\ table' = ResetTable(indexReset) /\ memory' = ResetMemory(indexReset)
      /\ nextToUpdate' = from.dictLimit /\ loadedDictEnd' = w.dictLimit
      /\ dictEnd' = w.dictLimit
      /\ pc' = "idle" /\ ip' = ip /\ remaining' = remaining /\ block' = block
  BY DEF AttachCDict, Idle
<1>5. /\ w \in Windows /\ InOrder(w) /\ Reaches(ResetMemory(indexReset), w)
      /\ w.lowLimit = w.end /\ w.dictLimit = w.end
  <2>1. CASE from.dictLimit < cdictEnd
    <3>1. moved \in Windows /\ moved.end = cdictEnd
      BY <1>1, <1>2 DEF Windows
    <3>2. /\ moved.lowLimit = from.lowLimit /\ moved.dictLimit = from.dictLimit
      BY DEF Windows
    <3> HIDE DEF moved, cdictEnd
    <3>3. InOrder(moved)
      BY <1>1, <1>2, <1>3, <2>1, <3>1, <3>2 DEF InOrder, START_INDEX
    <3>4. w = Cleared(moved)
      BY <2>1
    <3> HIDE DEF w
    <3> QED
      BY <3>1, <3>3, <3>4, ClearedIsEmpty
  <2>2. CASE ~(from.dictLimit < cdictEnd)
    BY <1>1, <2>2
  <2> QED
    BY <2>1, <2>2
<1> HIDE DEF w
<1>6. /\ window' \in Windows /\ InOrder(window') /\ Reaches(memory', window')
      /\ window'.lowLimit = w.end /\ window'.dictLimit = w.end /\ window'.end = w.end
  BY <1>4, <1>5, KeptIsSame
<1>7. w.end \in Int
  BY <1>5, FieldsOfWindow
<1>8. Types'
  BY <1>1, <1>3, <1>4, <1>5, <1>6, <1>7 DEF Types, IInv
<1>9. TableIsCurrent' /\ ChunkIsAtEnd' /\ BlockIsReady'
  BY <1>1, <1>4 DEF TableIsCurrent, ChunkIsAtEnd, BlockIsReady
<1>10. DictionaryIsOfFrame' /\ InsertionIsInPrefix'
  BY <1>4, <1>5, <1>6, <1>7 DEF DictionaryIsOfFrame, InsertionIsInPrefix
<1> QED
  BY <1>6, <1>8, <1>9, <1>10 DEF IInv

\* Insertion goes on within the dictionary, or behind it.
LEMMA NextAfterIsInDictionary ==
  ASSUME WindowAssumption, NEW end \in Int, NEW size \in Nat
  PROVE  /\ Insertable(size) \in Nat /\ Insertable(size) <= size
         /\ NextAfter(end, size) \in Int /\ end - size <= NextAfter(end, size)
         /\ Insertable(size) # 0 => NextAfter(end, size) = end
<1>1. IndexableMax \in Nat /\ HASH_READ_SIZE \in Nat
  BY DEF WindowAssumption
<1>2. Indexed(size) \in Nat /\ Indexed(size) <= size
  BY <1>1 DEF Indexed, Least
<1>3. Insertable(size) \in {0, Indexed(size)}
  BY DEF Insertable
<1> QED
  BY <1>2, <1>3 DEF NextAfter

LEMMA CopyCDictIsReached ==
  ASSUME WindowAssumption, IInv, NEW total \in DictSizes, CopyCDict(total) PROVE IInv'
<1> DEFINE size == Least(total, CDictMax)
           end == START_INDEX + size
           none == [a \in Memory |-> 0]
           w == Updated(Fresh, DictAddress, size, FALSE)
<1>1. size \in Nat \ {0} /\ size <= CDictMax /\ CDictMax \in Nat /\ DictAddress \in Int /\ end \in Int
  BY DEF WindowAssumption, Least, START_INDEX
<1> HIDE DEF size
<1>2. \A a \in DictAddress .. DictAddress + size - 1 : a \in Memory
  BY <1>1 DEF Memory, DictMemory
<1>3. none \in Memories
  BY DEF Memories
<1>4. Fresh \in Windows /\ InOrder(Fresh) /\ Reaches(none, Fresh) /\ Fresh.end = START_INDEX
  BY FreshIsEmpty DEF Fresh
<1>5. /\ w \in Windows /\ InOrder(w) /\ Reaches(Written(none, Fresh, DictAddress, size), w)
      /\ w.end = end /\ w.dictLimit = START_INDEX
  <2> HIDE DEF none, end
  <2>1. ASSUME NEW force
        PROVE  LET u == Updated(Fresh, DictAddress, size, force) IN
               /\ u \in Windows /\ InOrder(u) /\ Reaches(Written(none, Fresh, DictAddress, size), u)
               /\ u.end = Fresh.end + size /\ u.dictLimit = START_INDEX
    BY <1>1, <1>2, <1>3, <1>4, UpdatedIsReached DEF Fresh
  <2> QED
    BY <1>4, <2>1, Zenon DEF end
<1>6. /\ window' = Kept(w)
      /\ memory' = [a \in Memory |-> IF a \in DictAddress .. DictAddress + size - 1
                                     THEN START_INDEX + a - DictAddress ELSE 0]
      /\ table' = Inserted(end - Insertable(size), end)
      /\ nextToUpdate' = NextAfter(end, size) /\ loadedDictEnd' = end /\ dictEnd' = end
      /\ pc' = "idle" /\ ip' = ip /\ remaining' = remaining /\ block' = block
  BY DEF CopyCDict, Idle, size
<1>7. memory' = Written(none, Fresh, DictAddress, size)
  BY <1>4, <1>6 DEF Written
<1>8. memory' \in Memories
  BY <1>1, <1>3, <1>4, <1>7, WrittenIsMemory
<1> HIDE DEF w, none
<1>9. /\ window' \in Windows /\ InOrder(window') /\ Reaches(memory', window') /\ window'.end = end
      /\ window'.dictLimit = START_INDEX
  BY <1>5, <1>6, <1>7, KeptIsSame
<1>10. NextAfter(end, size) \in Int /\ START_INDEX <= NextAfter(end, size)
  <2>1. end - size = START_INDEX
    BY <1>1 DEF START_INDEX
  <2> HIDE DEF end
  <2> QED
    BY <1>1, <2>1, NextAfterIsInDictionary
<1> HIDE DEF end
<1>11. Types'
  BY <1>1, <1>6, <1>8, <1>9, <1>10 DEF Types, IInv
<1>12. TableIsCurrent' /\ ChunkIsAtEnd' /\ BlockIsReady'
  BY <1>6 DEF TableIsCurrent, ChunkIsAtEnd, BlockIsReady, Inserted
<1>13. DictionaryIsOfFrame' /\ InsertionIsInPrefix'
  BY <1>1, <1>6, <1>9, <1>10 DEF DictionaryIsOfFrame, InsertionIsInPrefix
<1> QED
  BY <1>9, <1>11, <1>12, <1>13 DEF IInv

LEMMA BeginWithDictionaryIsReached ==
  ASSUME WindowAssumption, IInv,
         NEW resized \in BOOLEAN, NEW last \in Addresses, NEW total \in DictSizes, NEW force \in BOOLEAN,
         NEW deterministic \in BOOLEAN, BeginWithDictionary(resized, last, total, force, deterministic)
  PROVE  IInv'
<1> DEFINE indexReset == NeedsIndexReset(resized, total)
           size  == Loaded(total)
           src   == last - size + 1
           from  == ResetWindow(indexReset)
           w     == Updated(from, src, size, FALSE)
           m     == Written(ResetMemory(indexReset), from, src, size)
           span  == Insertable(size)
           start == src + size - span
           c == IF span = 0 THEN [correction |-> 0, window |-> w] ELSE CorrectIfNeeded(w, start, span)
           v == c.window
<1>1. /\ from \in Windows /\ InOrder(from)
      /\ Reaches(ResetMemory(indexReset), from)
      /\ from.lowLimit = from.end /\ from.dictLimit = from.end
      /\ ResetMemory(indexReset) \in Memories
      /\ \A e \in ResetTable(indexReset) : e[2] = e[1]
  BY ResetIsEmpty
<1>2. size \in Nat \ {0} /\ src \in Int /\ last = src + size - 1
  <2>1. total \in Nat \ {0} /\ CURRENT_MAX \in Nat /\ last \in Int
    BY DEF WindowAssumption
  <2>2. CURRENT_MAX > START_INDEX
    <3>1. /\ cycleSize \in Nat /\ maxDist \in Nat /\ CHUNKSIZE_MAX \in Nat
          /\ CorrectedMax + CHUNKSIZE_MAX < CURRENT_MAX
      BY DEF WindowAssumption
    <3> QED
      BY <2>1, <3>1 DEF CorrectedMax, Greatest, START_INDEX
  <2> QED
    BY <2>1, <2>2 DEF Loaded, Least, START_INDEX
<1>3. /\ \A a \in src .. last : a \in Addresses
      /\ window' = Kept(v) /\ memory' = Renumbered(m, c.correction)
      /\ nextToUpdate' = NextAfter(v.end, size)
      /\ loadedDictEnd' = IF force \/ c.correction > 0 THEN 0 ELSE v.end
      /\ table' = {<<Reduced(e[1], c.correction), Reduced(e[2], c.correction)>> : e \in ResetTable(indexReset)}
                    \cup Inserted(v.end - span, v.end)
      /\ dictEnd' = v.end
      /\ pc' = "idle" /\ ip' = ip /\ remaining' = remaining /\ block' = block
  BY DEF BeginWithDictionary, Idle
<1> HIDE DEF size, src, from
<1>4. \A a \in src .. src + size - 1 : a \in Memory
  BY <1>2, <1>3 DEF Memory
<1>5. from.end \in Int /\ START_INDEX <= from.end
  BY <1>1, FieldsOfWindow DEF InOrder, START_INDEX
<1>6. /\ w \in Windows /\ InOrder(w) /\ Reaches(m, w)
      /\ w.base + from.end = src /\ w.end = from.end + size
      /\ w.dictLimit = from.end
  <2> HIDE DEF m
  <2>1. ASSUME NEW f
        PROVE  LET u == Updated(from, src, size, f) IN
               /\ u \in Windows /\ InOrder(u) /\ Reaches(m, u)
               /\ u.base + from.end = src /\ u.end = from.end + size
               /\ u.dictLimit = from.end
    <3> DEFINE u == Updated(from, src, size, f)
    <3> DEFINE n == ResetMemory(indexReset)
    <3>1. n \in Memories /\ Reaches(n, from)
      BY <1>1
    <3>2. m = Written(n, from, src, size)
      BY DEF m
    <3> HIDE DEF n
    <3>3. /\ u \in Windows /\ InOrder(u) /\ Reaches(Written(n, from, src, size), u)
          /\ u.base + from.end = src /\ u.end = from.end + size
          /\ u.dictLimit = IF IsContiguous(from, src, f) THEN from.dictLimit ELSE from.end
      BY <1>1, <1>2, <1>4, <3>1, UpdatedIsReached
    <3> HIDE DEF u
    <3>4. u.dictLimit = from.end
      BY <1>1, <3>3
    <3> QED
      BY <3>2, <3>3, <3>4 DEF u
  <2> QED
    BY <2>1, Zenon
<1>7. m \in Memories
  BY <1>1, <1>2, WrittenIsMemory
<1>8. span \in Nat /\ span <= size
  BY <1>2, NextAfterIsInDictionary
<1> HIDE DEF w, m, span
<1>9. /\ start \in Int /\ start - w.base = from.end + size - span
      /\ start <= w.base + w.end /\ START_INDEX <= start - w.base
  BY <1>2, <1>5, <1>6, <1>8, FieldsOfWindow DEF START_INDEX
<1> HIDE DEF start
<1>10. /\ c.correction \in Int /\ v \in Windows
       /\ InOrder(v) /\ Reaches(Renumbered(m, c.correction), v)
       /\ v.end = w.end - c.correction
       /\ span = 0 => c.correction = 0 /\ v = w
  <2>1. CASE span = 0
    <3>1. c.correction = 0 /\ v = w
      BY <2>1
    <3>2. w.end \in Int
      BY <1>6, FieldsOfWindow
    <3>3. Reaches(Renumbered(m, 0), w)
      BY <1>6, UncorrectedIsReached
    <3> HIDE DEF c
    <3> QED
      BY <1>6, <3>1, <3>2, <3>3
  <2>2. CASE span # 0
    <3>1. c = CorrectIfNeeded(w, start, span)
      BY <2>2
    <3> HIDE DEF c
    <3> QED
      BY <1>6, <1>7, <1>8, <1>9, <2>2, <3>1, CorrectIfNeededIsReached
  <2> QED
    BY <2>1, <2>2
<1> HIDE DEF c
<1>11. /\ window' \in Windows /\ InOrder(window') /\ Reaches(memory', window')
       /\ window'.dictLimit = v.dictLimit /\ window'.end = v.end
  BY <1>3, <1>10, KeptIsSame
<1>12. memory' \in Memories
  BY <1>3, <1>7, <1>10, RenumberedIsMemory
<1>13. v.end \in Int /\ v.dictLimit \in Int /\ v.dictLimit <= v.end
  BY <1>10, FieldsOfWindow DEF InOrder
<1>14. NextAfter(v.end, size) \in Int /\ v.dictLimit <= NextAfter(v.end, size)
  <2>1. /\ NextAfter(v.end, size) \in Int /\ v.end - size <= NextAfter(v.end, size)
        /\ span # 0 => NextAfter(v.end, size) = v.end
    BY <1>2, <1>13, NextAfterIsInDictionary DEF span
  <2>2. CASE span = 0
    <3>1. v.end - size = from.end /\ v.dictLimit = from.end
      BY <1>2, <1>5, <1>6, <1>10, <2>2
    <3> QED
      BY <2>1, <3>1
  <2>3. CASE span # 0
    BY <1>13, <2>1, <2>3
  <2> QED
    BY <2>2, <2>3
<1> HIDE DEF v
<1>15. Types'
  BY <1>2, <1>3, <1>11, <1>12, <1>13, <1>14 DEF Types, IInv
<1>16. TableIsCurrent'
  BY <1>1, <1>3 DEF TableIsCurrent, Inserted
<1>17. ChunkIsAtEnd' /\ BlockIsReady'
  BY <1>3 DEF ChunkIsAtEnd, BlockIsReady
<1>18. START_INDEX <= v.end
  BY <1>11, <1>13, FieldsOfWindow DEF InOrder, START_INDEX
<1>19. DictionaryIsOfFrame' /\ InsertionIsInPrefix'
  BY <1>3, <1>11, <1>13, <1>14, <1>18
     DEF DictionaryIsOfFrame, InsertionIsInPrefix, START_INDEX
<1> QED
  BY <1>11, <1>15, <1>16, <1>17, <1>19 DEF IInv

LEMMA ChunkIsReached ==
  ASSUME WindowAssumption, IInv,
         NEW src \in Addresses, NEW size \in ChunkSizes, Chunk(src, size)
  PROVE  IInv'
<1> DEFINE w == Updated(window, src, size, separate)
           isContiguous == IsContiguous(window, src, separate)
<1>1. /\ window \in Windows /\ memory \in Memories /\ InOrder(window) /\ Reaches(memory, window)
  BY DEF IInv, Types
<1>2. size \in Nat \ {0} /\ src \in Int
  BY DEF WindowAssumption
<1>3. /\ \A a \in src .. src + size - 1 : a \in Addresses
      /\ memory' = Written(memory, window, src, size)
      /\ window' = Kept(w)
      /\ nextToUpdate' = IF isContiguous THEN nextToUpdate ELSE window'.dictLimit
      /\ pc = "idle" /\ pc' = "blocks" /\ ip' = src /\ remaining' = size /\ block' = 0
      /\ table' = table /\ loadedDictEnd' = loadedDictEnd /\ dictEnd' = dictEnd
  BY DEF Chunk
<1>4. \A a \in src .. src + size - 1 : a \in Memory
  BY <1>3 DEF Memory
<1> HIDE DEF w, isContiguous
<1>5. /\ w \in Windows /\ InOrder(w) /\ Reaches(Written(memory, window, src, size), w)
      /\ w.base + window.end = src /\ w.end = window.end + size
      /\ w.dictLimit = IF isContiguous THEN window.dictLimit ELSE window.end
      /\ isContiguous /\ window.lowLimit = window.dictLimit => w.lowLimit = w.dictLimit
  BY <1>1, <1>2, <1>4, UpdatedIsReached DEF w, isContiguous
<1>6. /\ window' \in Windows /\ InOrder(window') /\ Reaches(memory', window')
      /\ window'.base = w.base /\ window'.lowLimit = w.lowLimit
      /\ window'.dictLimit = w.dictLimit /\ window'.end = w.end
  BY <1>3, <1>5, KeptIsSame
<1>7. memory' \in Memories
  BY <1>1, <1>2, <1>3, WrittenIsMemory
<1>8. window.end \in Int /\ window.dictLimit \in Int /\ window.lowLimit \in Int
  BY <1>1, FieldsOfWindow
<1>9. window'.dictLimit \in Int /\ window'.base \in Int /\ window'.end \in Int /\ window'.lowLimit \in Int
  BY <1>6, FieldsOfWindow
<1>10. Types'
  BY <1>2, <1>3, <1>6, <1>7, <1>9 DEF Types, IInv
<1>11. TableIsCurrent' /\ BlockIsReady'
  BY <1>3 DEF TableIsCurrent, BlockIsReady, IInv
<1>12. loadedDictEnd \in Int /\ loadedDictEnd <= window.end /\ nextToUpdate \in Int
       /\ (loadedDictEnd # 0 => loadedDictEnd = dictEnd)
  BY DEF IInv, Types, DictionaryIsOfFrame
<1>13. window.dictLimit <= window.end
  BY <1>1 DEF InOrder
<1>14. /\ ip' + remaining' = window'.base + window'.end
       /\ window'.dictLimit <= ip' - window'.base
       /\ loadedDictEnd' <= ip' - window'.base
       /\ loadedDictEnd' <= window'.end
  <2>1. window'.base + window.end = src /\ window'.end = window.end + size
        /\ window'.dictLimit <= window.end
    BY <1>5, <1>6, <1>8, <1>13
  <2> QED
    BY <1>2, <1>3, <1>8, <1>9, <1>12, <2>1
<1>15. ChunkIsAtEnd' /\ DictionaryIsOfFrame'
  BY <1>3, <1>12, <1>14 DEF ChunkIsAtEnd, DictionaryIsOfFrame
<1>16. InsertionIsInPrefix'
  <2>1. CASE isContiguous
    BY <1>3, <1>5, <1>6, <2>1 DEF IInv, InsertionIsInPrefix
  <2>2. CASE ~isContiguous
    BY <1>3, <1>9, <2>2 DEF InsertionIsInPrefix
  <2> QED
    BY <2>1, <2>2
<1> QED
  BY <1>6, <1>10, <1>11, <1>15, <1>16 DEF IInv

LEMMA BeginBlockIsReached ==
  ASSUME WindowAssumption, IInv, NEW size \in 1 .. blockSizeMax, BeginBlock(size) PROVE IInv'
<1> DEFINE c == CorrectIfNeeded(window, ip, size)
           v == c.window
           loaded == IF c.correction = 0 THEN loadedDictEnd ELSE 0
           valid  == DictIsValid(v, ip, size, loaded)
           kept   == IF valid THEN loaded ELSE 0
           beyond == ip - v.base > maxDist + kept
           w      == IF beyond THEN MaxDistEnforced(v, ip) ELSE v
           next   == IF nextToUpdate < c.correction THEN 0 ELSE nextToUpdate - c.correction
<1>1. /\ window' = Kept(w)
      /\ memory' = Remembered(Renumbered(memory, c.correction), w)
      /\ table' = Live(IF c.correction = 0 THEN table ELSE TableReduced(c.correction), w)
      /\ loadedDictEnd' = IF beyond THEN 0 ELSE kept
      /\ attached' = IF c.correction = 0 /\ valid /\ ~beyond THEN attached ELSE 0
      /\ nextToUpdate' = Greatest(w.lowLimit, next)
      /\ dictEnd' = Greatest(0, dictEnd - c.correction)
      /\ pc' = "compress" /\ block' = size /\ ip' = ip /\ remaining' = remaining
  BY DEF BeginBlock
<1>2. /\ pc = "blocks" /\ size <= remaining /\ size <= blockSizeMax
  BY DEF BeginBlock
<1>3. /\ window \in Windows /\ memory \in Memories /\ InOrder(window) /\ Reaches(memory, window)
      /\ ip \in Int /\ remaining \in Nat /\ nextToUpdate \in Int /\ loadedDictEnd \in Int /\ dictEnd \in Int
      /\ ip + remaining = window.base + window.end
      /\ window.dictLimit <= ip - window.base
      /\ loadedDictEnd <= ip - window.base /\ loadedDictEnd <= window.end
      /\ loadedDictEnd # 0 => loadedDictEnd = dictEnd
      /\ nextToUpdate >= window.dictLimit \/ window.lowLimit = window.dictLimit
      /\ TableIsCurrent
  BY <1>2 DEF IInv, Types, ChunkIsAtEnd, DictionaryIsOfFrame, InsertionIsInPrefix
<1>4. /\ window.base \in Int /\ window.end \in Int /\ window.lowLimit \in Int /\ window.dictLimit \in Int
      /\ START_INDEX <= window.lowLimit /\ window.lowLimit <= window.dictLimit
      /\ window.dictLimit <= window.end
  BY <1>3, FieldsOfWindow DEF InOrder
<1>5. /\ size \in Nat /\ 0 < size /\ blockSizeMax \in Nat /\ CURRENT_MAX \in Nat /\ maxDist \in Nat
      /\ CorrectedMax \in Int /\ CorrectedMax + blockSizeMax < CURRENT_MAX
  BY DEF WindowAssumption, CorrectedMax, Greatest, START_INDEX
<1>6. START_INDEX <= ip - window.base /\ ip <= window.base + window.end
  BY <1>3, <1>4 DEF START_INDEX
<1> HIDE DEF c, v
<1>7. /\ c.correction \in Int /\ v \in Windows
      /\ InOrder(v) /\ Reaches(Renumbered(memory, c.correction), v)
      /\ v.base = window.base + c.correction /\ v.end = window.end - c.correction
      /\ c.correction = 0 => v = window
      /\ c.correction # 0 =>
           /\ NeedsCorrection(window, ip, size)
           /\ v.lowLimit = Limited(window.lowLimit, c.correction)
           /\ v.dictLimit = Limited(window.dictLimit, c.correction)
           /\ START_INDEX <= ip - v.base /\ ip - v.base <= CorrectedMax
  BY <1>3, <1>5, <1>6, CorrectIfNeededIsReached DEF c, v
<1>8. c.correction = 0 => ip + size - window.base <= CURRENT_MAX
  \* Otherwise the position would be both far on and within the first cycles.
  <2>1. ASSUME NeedsCorrection(window, ip, size), c.correction = 0 PROVE FALSE
    <3>1. ip + size - window.base > CURRENT_MAX
      BY <2>1 DEF NeedsCorrection
    <3>2. ip - window.base \in Nat
      BY <1>3, <1>4, <1>6 DEF START_INDEX
    <3>3. PICK new \in Int : /\ Correction(ip - window.base) = (ip - window.base) - new
                             /\ START_INDEX <= new /\ new <= CorrectedMax
      BY <3>2, CorrectionOfPosition
    <3>4. c.correction = Correction(ip - window.base)
      BY <2>1 DEF c, CorrectIfNeeded
    <3>5. (ip - window.base) - new = 0
      BY <2>1, <3>3, <3>4
    <3> QED
      BY <1>2, <1>3, <1>4, <1>5, <3>1, <3>3, <3>5 DEF START_INDEX
  <2>2. ip + size - window.base > CURRENT_MAX => NeedsCorrection(window, ip, size)
    BY DEF NeedsCorrection
  <2> QED
    BY <1>3, <1>4, <1>5, <2>1, <2>2
<1>9. /\ v.base \in Int /\ v.end \in Int /\ v.lowLimit \in Int /\ v.dictLimit \in Int
      /\ START_INDEX <= v.lowLimit /\ v.lowLimit <= v.dictLimit /\ v.dictLimit <= v.end
  BY <1>7, FieldsOfWindow DEF InOrder
<1>10. /\ ip + remaining = v.base + v.end
       /\ v.dictLimit <= ip - v.base
       /\ ip + size - v.base <= CURRENT_MAX
  <2>1. CASE c.correction = 0
    BY <1>3, <1>4, <1>7, <1>8, <2>1
  <2>2. CASE c.correction # 0
    <3>1. /\ v.dictLimit = Limited(window.dictLimit, c.correction)
          /\ START_INDEX <= ip - v.base /\ ip - v.base <= CorrectedMax
          /\ v.base = window.base + c.correction /\ v.end = window.end - c.correction
          /\ c.correction \in Int
      BY <1>7, <2>2
    <3>2. ip + remaining = v.base + v.end
      BY <1>3, <1>4, <3>1
    <3>3. v.dictLimit <= ip - v.base
      BY <1>3, <1>4, <3>1 DEF Limited, START_INDEX
    <3>4. ip + size - v.base <= CURRENT_MAX
      BY <1>2, <1>3, <1>4, <1>5, <1>9, <3>1 DEF START_INDEX
    <3> QED
      BY <3>2, <3>3, <3>4
  <2> QED
    BY <2>1, <2>2

<1>11. /\ loaded \in Int /\ loaded <= ip - v.base
       /\ loaded # 0 => c.correction = 0 /\ loaded = loadedDictEnd /\ loaded = dictEnd
  <2>1. CASE c.correction = 0
    BY <1>3, <1>7, <2>1
  <2>2. CASE c.correction # 0
    <3>1. START_INDEX <= ip - v.base
      BY <1>7, <2>2
    <3>2. loaded = 0
      BY <2>2
    <3> HIDE DEF loaded
    <3> QED
      BY <1>3, <1>9, <3>1, <3>2 DEF START_INDEX
  <2> QED
    BY <2>1, <2>2
<1>12. /\ kept \in Int /\ kept <= ip - v.base
       /\ kept # 0 => /\ c.correction = 0 /\ kept = dictEnd
                      /\ ip + size - v.base <= kept + maxDist
  <2>1. valid => ip + size - v.base <= loaded + maxDist
    BY DEF DictIsValid
  <2>2. 0 <= ip - v.base
    BY <1>3, <1>9, <1>10 DEF START_INDEX
  <2> HIDE DEF loaded, valid
  <2> QED
    BY <1>11, <2>1, <2>2
<1>13. valid => v.dictLimit = kept /\ kept # 0
  <2>1. valid => kept = loaded /\ loaded = v.dictLimit
    BY DEF DictIsValid
  <2> HIDE DEF kept, valid, loaded
  <2> QED
    BY <1>9, <2>1 DEF START_INDEX
<1> HIDE DEF loaded, valid, kept
<1>14. /\ w \in Windows /\ w.base = v.base /\ w.end = v.end /\ InOrder(w)
       /\ Reaches(Renumbered(memory, c.correction), w)
       /\ w.dictLimit \in Int /\ w.lowLimit \in Int
       /\ w.dictLimit <= ip - v.base /\ v.lowLimit <= w.lowLimit
       /\ w.dictLimit = v.dictLimit \/ w.dictLimit = w.lowLimit
       /\ ~beyond => w.dictLimit = v.dictLimit
  <2>1. CASE ~beyond
    <3>1. w = v
      BY <2>1
    <3> HIDE DEF w, beyond
    <3> QED
      BY <1>7, <1>9, <1>10, <2>1, <3>1
  <2>2. CASE beyond
    <3> DEFINE low == Greatest(v.lowLimit, ip - v.base - maxDist)
               limit == Greatest(v.dictLimit, low)
    <3>1. w = [v EXCEPT !.lowLimit = low, !.dictLimit = limit]
      BY <2>2 DEF MaxDistEnforced
    <3>2. /\ low \in Int /\ v.lowLimit <= low /\ low <= ip - v.base
      BY <1>3, <1>5, <1>9, <1>10 DEF Greatest
    <3> HIDE DEF low
    <3>3. /\ limit \in Int /\ v.dictLimit <= limit /\ low <= limit /\ limit <= ip - v.base
          /\ limit = v.dictLimit \/ limit = low
      BY <1>9, <1>10, <3>2 DEF Greatest
    <3> HIDE DEF limit, w
    <3>4. /\ w \in Windows /\ w.base = v.base /\ w.end = v.end /\ w.dictBase = v.dictBase
          /\ w.lowLimit = low /\ w.dictLimit = limit
      BY <1>7, <3>1, <3>2, <3>3 DEF Windows
    <3>5. InOrder(w)
      BY <1>3, <1>9, <1>10, <3>2, <3>3, <3>4 DEF InOrder, START_INDEX
    <3>6. ASSUME NEW i \in Int, w.lowLimit <= i, i < w.end
          PROVE  /\ AddressOf(w, i) \in Memory
                 /\ Renumbered(memory, c.correction)[AddressOf(w, i)] = i
      <4>1. v.lowLimit <= i /\ i < v.end /\ (i < w.dictLimit <=> i < v.dictLimit)
        BY <1>9, <3>2, <3>3, <3>4, <3>6
      <4>2. AddressOf(w, i) = AddressOf(v, i)
        BY <3>4, <4>1 DEF AddressOf
      <4> QED
        BY <1>7, <4>1, <4>2 DEF Reaches
    <3>7. Reaches(Renumbered(memory, c.correction), w)
      BY <3>6 DEF Reaches
    <3> QED
      BY <2>2, <3>2, <3>3, <3>4, <3>5, <3>7
  <2> QED
    BY <2>1, <2>2
<1> HIDE DEF w
<1>15. next \in Int /\ Greatest(v.lowLimit, next) >= v.dictLimit
  <2>1. CASE c.correction = 0
    BY <1>3, <1>4, <1>7, <1>9, <2>1 DEF Greatest, START_INDEX
  <2>2. CASE c.correction # 0
    BY <1>3, <1>4, <1>7, <1>9, <2>2 DEF Greatest, Limited, START_INDEX
  <2> QED
    BY <2>1, <2>2
<1> HIDE DEF next
<1>16. nextToUpdate' \in Int /\ nextToUpdate' >= w.dictLimit
  BY <1>1, <1>9, <1>14, <1>15 DEF Greatest
<1>17. /\ window' \in Windows /\ InOrder(window') /\ Reaches(memory', window')
       /\ window'.base = v.base /\ window'.end = v.end /\ window'.dictLimit = w.dictLimit
       /\ memory' \in Memories
  <2>1. Renumbered(memory, c.correction) \in Memories
    BY <1>3, <1>7, RenumberedIsMemory
  <2> QED
    BY <1>1, <1>14, <2>1, KeptIsSame, RememberedIsReached
<1>18. dictEnd' \in Int /\ (c.correction = 0 => dictEnd' = Greatest(0, dictEnd))
  BY <1>1, <1>3, <1>7 DEF Greatest
<1>19. /\ loadedDictEnd' \in Int /\ loadedDictEnd' <= ip - v.base
       /\ loadedDictEnd' # 0 => ~beyond /\ loadedDictEnd' = kept
  <2>1. 0 <= ip - v.base
    BY <1>3, <1>9, <1>10 DEF START_INDEX
  <2> HIDE DEF beyond
  <2> QED
    BY <1>1, <1>12, <2>1
<1>20. loadedDictEnd' # 0 => loadedDictEnd' = dictEnd'
  <2>1. ASSUME loadedDictEnd' # 0 PROVE loadedDictEnd' = dictEnd'
    <3> HIDE DEF beyond
    <3>1. kept = dictEnd /\ dictEnd' = Greatest(0, dictEnd) /\ loadedDictEnd' = kept
      BY <1>12, <1>18, <1>19, <2>1
    <3>2. kept >= 0
      BY <1>12, <1>13, <1>9, <1>19, <2>1 DEF START_INDEX, kept
    <3> QED
      BY <1>3, <3>1, <3>2 DEF Greatest
  <2> QED
    BY <2>1
<1>21. Types'
  BY <1>1, <1>3, <1>5, <1>16, <1>17, <1>18, <1>19 DEF Types, IInv
<1>22. TableIsCurrent'
  BY <1>1, <1>3 DEF TableIsCurrent, Live, TableReduced
<1> HIDE DEF beyond
<1>23. ChunkIsAtEnd'
  BY <1>1, <1>10, <1>14, <1>17, <1>19 DEF ChunkIsAtEnd
<1>24. DictionaryIsOfFrame'
  <2>1. loadedDictEnd' <= window'.end
    BY <1>3, <1>9, <1>10, <1>17, <1>19
  <2> QED
    BY <1>20, <2>1 DEF DictionaryIsOfFrame
<1>25. InsertionIsInPrefix'
  BY <1>16, <1>17 DEF InsertionIsInPrefix
<1>26. BlockIsReady'
  <2>1. 0 < block' /\ block' <= remaining' /\ ip' + block' - window'.base <= CURRENT_MAX
    BY <1>1, <1>2, <1>5, <1>10, <1>17
  <2>2. nextToUpdate' >= window'.dictLimit
    BY <1>16, <1>17
  <2>3. loadedDictEnd' # 0 => ip' + block' - window'.base <= loadedDictEnd' + maxDist
    BY <1>1, <1>12, <1>17, <1>19
  <2>4. ASSUME attached' # 0 PROVE loadedDictEnd' # 0 /\ window'.dictLimit = dictEnd'
    <3>1. c.correction = 0 /\ valid /\ ~beyond
      BY <1>1, <2>4
    <3>2. loadedDictEnd' = kept /\ kept # 0 /\ v.dictLimit = kept
      BY <1>1, <1>13, <3>1
    <3> QED
      BY <1>14, <1>17, <1>20, <3>1, <3>2
  <2> QED
    BY <2>1, <2>2, <2>3, <2>4 DEF BlockIsReady
<1> QED
  BY <1>17, <1>21, <1>22, <1>23, <1>24, <1>25, <1>26 DEF IInv

LEMMA CompressBlockIsReached == ASSUME WindowAssumption, IInv, CompressBlock PROVE IInv'
<1> DEFINE end == ip + block - window.base
<1>1. /\ pc = "compress"
      /\ table' = table \cup Inserted(Least(nextToUpdate, ip - window.base), end)
      /\ nextToUpdate' \in {nextToUpdate, end}
      /\ ip' = ip + block /\ remaining' = remaining - block /\ block' = 0
      /\ pc' = IF remaining = block THEN "idle" ELSE "blocks"
      /\ memory' = memory /\ window' = window /\ loadedDictEnd' = loadedDictEnd /\ dictEnd' = dictEnd
  BY DEF CompressBlock
<1>2. /\ window \in Windows /\ ip \in Int /\ remaining \in Nat /\ block \in Int
      /\ nextToUpdate \in Int /\ loadedDictEnd \in Int
      /\ 0 < block /\ block <= remaining
      /\ ip + remaining = window.base + window.end
      /\ window.dictLimit <= ip - window.base
      /\ loadedDictEnd <= ip - window.base
      /\ nextToUpdate >= window.dictLimit
  BY <1>1 DEF IInv, Types, ChunkIsAtEnd, BlockIsReady
<1>3. window.base \in Int /\ window.end \in Int /\ window.dictLimit \in Int
  BY <1>2, FieldsOfWindow
<1>4. /\ ip' \in Int /\ remaining' \in Nat /\ end \in Int
      /\ ip' + remaining' = window.base + window.end
      /\ window.dictLimit <= ip' - window.base /\ loadedDictEnd <= ip' - window.base
      /\ end >= window.dictLimit
  BY <1>1, <1>2, <1>3
<1> HIDE DEF end
<1>5. pc' \in {"idle", "blocks"}
  BY <1>1
<1>6. nextToUpdate' \in Int /\ nextToUpdate' >= window.dictLimit
  BY <1>1, <1>2, <1>4
<1>7. Types'
  BY <1>1, <1>4, <1>5, <1>6 DEF Types, IInv
<1>8. TableIsCurrent'
  BY <1>1 DEF TableIsCurrent, Inserted, IInv
<1>9. ChunkIsAtEnd'
  BY <1>1, <1>4 DEF ChunkIsAtEnd
<1>10. DictionaryIsOfFrame' /\ InsertionIsInPrefix'
  BY <1>1, <1>6 DEF IInv, DictionaryIsOfFrame, InsertionIsInPrefix
<1>11. BlockIsReady'
  BY <1>5 DEF BlockIsReady
<1> QED
  BY <1>1, <1>7, <1>8, <1>9, <1>10, <1>11 DEF IInv

THEOREM IInvariant == ASSUME WindowAssumption PROVE Spec => []IInv
<1>1. Init => IInv
  BY InitIsReached
<1>2. IInv /\ [Next]_vars => IInv'
  <2> SUFFICES ASSUME IInv, [Next]_vars PROVE IInv'
    OBVIOUS
  <2>1. ASSUME NEW resized \in BOOLEAN, BeginFrame(resized) PROVE IInv'
    BY <2>1, BeginFrameIsReached
  <2>2. ASSUME NEW resized \in BOOLEAN, NEW last \in Addresses, NEW total \in DictSizes,
               NEW force \in BOOLEAN, NEW deterministic \in BOOLEAN,
               BeginWithDictionary(resized, last, total, force, deterministic)
        PROVE  IInv'
    BY <2>2, BeginWithDictionaryIsReached, Zenon
  <2>3. ASSUME NEW resized \in BOOLEAN, NEW total \in DictSizes, AttachCDict(resized, total) PROVE IInv'
    BY <2>3, AttachCDictIsReached
  <2>4. ASSUME NEW total \in DictSizes, CopyCDict(total) PROVE IInv'
    BY <2>4, CopyCDictIsReached
  <2>5. ASSUME NEW src \in Addresses, NEW size \in ChunkSizes, Chunk(src, size) PROVE IInv'
    BY <2>5, ChunkIsReached
  <2>6. ASSUME NEW size \in 1 .. blockSizeMax, BeginBlock(size) PROVE IInv'
    BY <2>6, BeginBlockIsReached
  <2>7. CASE CompressBlock
    BY <2>7, CompressBlockIsReached
  <2>8. CASE UNCHANGED vars
    BY <2>8 DEF vars, IInv, Types, TableIsCurrent, ChunkIsAtEnd, DictionaryIsOfFrame,
                InsertionIsInPrefix, BlockIsReady
  <2> QED
    BY <2>1, <2>2, <2>3, <2>4, <2>5, <2>6, <2>7, <2>8, Zenon DEF Next
<1> QED
  BY <1>1, <1>2, PTL DEF Spec

-----------------------------------------------------------------------------
\* What follows

(* While a block is compressed every index from lowLimit on reaches the     *)
(* byte it was given to, and the tables hold such indexes: whatever buffers *)
(* the caller reuses (ZSTD_window_update), however often indexes are        *)
(* reduced (ZSTD_window_correctOverflow), and over any number of frames.    *)
THEOREM MatchesFound == ASSUME WindowAssumption PROVE Spec => []MatchesAreValid
<1>1. IInv => MatchesAreValid
  <2> SUFFICES ASSUME IInv, pc = "compress" PROVE MatchesAreValid
    BY DEF MatchesAreValid
  <2>1. /\ window \in Windows /\ Reaches(memory, window) /\ ip \in Int /\ block \in Int
        /\ remaining \in Nat /\ block <= remaining /\ ip + remaining = window.base + window.end
        /\ \A e \in table : e[2] = e[1]
    BY DEF IInv, Types, ChunkIsAtEnd, BlockIsReady, TableIsCurrent
  <2>2. /\ window.base \in Int /\ window.end \in Int /\ window.lowLimit \in Int /\ window.dictLimit \in Int
    BY <2>1, FieldsOfWindow
  <2>3. ASSUME NEW index \in window.lowLimit .. ip + block - window.base - 1
        PROVE  Reached(index) = index
    <3>1. index \in Int /\ window.lowLimit <= index /\ index < window.end
      BY <2>1, <2>2
    <3>2. AddressOf(window, index) \in Memory /\ memory[AddressOf(window, index)] = index
      BY <2>1, <3>1 DEF Reaches
    <3> QED
      BY <3>2 DEF Reached, AddressOf
  <2> QED
    BY <2>1, <2>3 DEF MatchesAreValid
<1> QED
  BY <1>1, IInvariant, PTL

(* No offset leaves the window of the decoder: beyond maxDist there is a    *)
(* dictionary only, as long as its end is within the window at the end of   *)
(* the block (ZSTD_checkDictValidity, ZSTD_window_enforceMaxDist).          *)
THEOREM OffsetsStayInWindow == ASSUME WindowAssumption PROVE Spec => []OffsetsInWindow
<1>1. ASSUME WindowAssumption, IInv, pc = "compress" PROVE OffsetsInWindow
  <2>1. /\ window \in Windows /\ ip \in Int /\ block \in Int /\ loadedDictEnd \in Int /\ dictEnd \in Int
        /\ loadedDictEnd # 0 => loadedDictEnd = dictEnd
        /\ loadedDictEnd # 0 => ip + block - window.base <= loadedDictEnd + maxDist
        /\ attached # 0 => loadedDictEnd # 0 /\ window.dictLimit = dictEnd
    BY <1>1 DEF IInv, Types, DictionaryIsOfFrame, BlockIsReady
  <2>2. window.base \in Int /\ window.lowLimit \in Int /\ maxDist \in Nat
    BY <1>1, <2>1, FieldsOfWindow DEF WindowAssumption
  <2>3. ASSUME NEW curr \in ip - window.base .. ip + block - window.base - 1
        PROVE  \/ curr - LowestMatchIndex(curr) <= maxDist
               \/ ip + block - window.base <= dictEnd + maxDist
    <3>1. curr \in Int
      BY <2>1, <2>2
    <3>2. CASE loadedDictEnd # 0
      BY <2>1, <3>2
    <3>3. CASE loadedDictEnd = 0
      BY <2>2, <3>1, <3>3 DEF LowestMatchIndex
    <3> QED
      BY <3>2, <3>3
  <2>4. attached # 0 => window.dictLimit = dictEnd /\ ip + block - window.base <= dictEnd + maxDist
    BY <2>1
  <2> QED
    BY <2>3, <2>4 DEF OffsetsInWindow
<1>2. ASSUME WindowAssumption PROVE IInv => OffsetsInWindow
  BY <1>1, <1>2 DEF OffsetsInWindow
<1> QED
  BY <1>2, IInvariant, PTL

(* The limits of the window keep their order from its first index on, no    *)
(* index of a block is beyond ZSTD_CURRENT_MAX, and insertion does not go   *)
(* on before the prefix.                                                    *)
THEOREM IndexesStayInRange == ASSUME WindowAssumption PROVE Spec => []IndexesInRange
<1>1. IInv => IndexesInRange
  <2> SUFFICES ASSUME IInv PROVE IndexesInRange
    OBVIOUS
  <2>1. START_INDEX <= window.lowLimit /\ window.lowLimit <= window.dictLimit
        /\ window.dictLimit <= window.end
    BY DEF IInv, InOrder
  <2>2. ASSUME pc = "compress"
        PROVE  /\ ip + block - window.base <= CURRENT_MAX
               /\ ip - window.base >= window.dictLimit
               /\ nextToUpdate >= window.dictLimit
               /\ loadedDictEnd <= ip - window.base
    <3>1. window.base \in Int /\ window.dictLimit \in Int /\ ip \in Int
      BY FieldsOfWindow DEF IInv, Types
    <3> QED
      BY <2>2, <3>1 DEF IInv, ChunkIsAtEnd, BlockIsReady
  <2> QED
    BY <2>1, <2>2 DEF IndexesInRange
<1> QED
  BY <1>1, IInvariant, PTL
=============================================================================

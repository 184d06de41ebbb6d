------------------------------ MODULE Parsing ------------------------------
(***************************************************************************)
(* What the match finders share: a text in the index space of a window, in *)
(* which the segment before the prefix ends where the prefix begins, and   *)
(* what a decoder makes of the sequences of a block. The text is a         *)
(* sequence whose first element has the index first.                       *)
(***************************************************************************)
LOCAL INSTANCE Integers
LOCAL INSTANCE Sequences

LOCAL Least(a, b) == IF a <= b THEN a ELSE b

\* What Use makes of a value, which is computed once; a step that is taken n times, or for
\* every element of a sequence (in groups, so that a long one does not nest deep).
With(value, Use(_)) == CHOOSE x \in {Use(v) : v \in {value}} : TRUE

FewTimes(n, x, Step(_)) ==
  LET s[k \in 0 .. n] == IF k = 0 THEN x ELSE With(s[k - 1], Step) IN s[n]

Iterated(n, start, Step(_)) ==
  LET group[g \in 0 .. n \div 16] ==
        IF g = 0 THEN FewTimes(n % 16, start, Step) ELSE With(group[g - 1], LAMBDA x : FewTimes(16, x, Step))
  IN group[n \div 16]

ForSome(seq, from, to, x, Step(_, _)) ==
  LET s[k \in from .. to] == IF k = from THEN x ELSE With(s[k - 1], LAMBDA r : Step(r, seq[k])) IN s[to]

ForAll(seq, start, Step(_, _)) ==
  LET group[g \in 0 .. (Len(seq) + 15) \div 16] ==
        IF g = 0 THEN start
        ELSE With(group[g - 1], LAMBDA x : ForSome(seq, 16 * (g - 1), Least(16 * g, Len(seq)), x, Step))
  IN group[(Len(seq) + 15) \div 16]

ForEach(sequence, start, Step(_, _)) == With(sequence, LAMBDA seq : ForAll(seq, start, Step))

\* ZSTD_WINDOW_START_INDEX: no text has this index or a lower one but the first.
WINDOW_START_INDEX == 2
HASH_READ_SIZE == 8
ZSTD_REP_NUM == 3

\* Sums of offset and code: 1 .. 3 are repeated offsets.
REPCODE1 == 1
OFFSET_TO_OFFBASE(offset) == offset + ZSTD_REP_NUM

highbit32(n) == CHOOSE b \in 0 .. 29 : 2 ^ b <= n /\ n < 2 ^ (b + 1)

\* The codes of lengths, and how many bits say which length of a code it is.
MINMATCH == 3

ZSTD_LLcode(n) ==
  CASE n < 16 -> n
    [] n \in 16 .. 23 -> 16 + ((n - 16) \div 2)
    [] n \in 24 .. 31 -> 20 + ((n - 24) \div 4)
    [] n \in 32 .. 47 -> 22 + ((n - 32) \div 8)
    [] n \in 48 .. 63 -> 24
    [] OTHER -> highbit32(n) + 19

ZSTD_MLcode(n) ==
  CASE n < 32 -> n
    [] n \in 32 .. 39 -> 32 + ((n - 32) \div 2)
    [] n \in 40 .. 47 -> 36 + ((n - 40) \div 4)
    [] n \in 48 .. 63 -> 38 + ((n - 48) \div 8)
    [] n \in 64 .. 95 -> 40 + ((n - 64) \div 16)
    [] n \in 96 .. 127 -> 42
    [] OTHER -> highbit32(n) + 36

LL_bits(code) == CASE code < 16 -> 0 [] code \in 16 .. 19 -> 1 [] code \in 20 .. 23 -> (code - 16) \div 2
                   [] code = 24 -> 4 [] OTHER -> code - 19
ML_bits(code) == CASE code < 32 -> 0 [] code \in 32 .. 35 -> 1 [] code \in 36 .. 41 -> (code - 32) \div 2
                   [] code = 42 -> 5 [] OTHER -> code - 36

\* How many bytes from ip on are those from match on, up to end. One segment after the
\* other (ZSTD_count_2segments) is one text in the index space.
count(text, first, ip, match, end) ==
  LET same[n \in 0 .. end - ip] ==
        IF n < end - ip /\ text[ip + n - first + 1] = text[match + n - first + 1] THEN same[n + 1] ELSE n
  IN IF ip > end THEN 0 ELSE same[0]

\* How many bytes before ip, down to anchor, are those before match, down to low.
countBackwards(text, first, ip, anchor, match, low) ==
  LET most == Least(ip - anchor, match - low)
      same[n \in 0 .. most] ==
        IF n < most /\ text[ip - n - first] = text[match - n - first] THEN same[n + 1] ELSE n
  IN IF most <= 0 THEN 0 ELSE same[0]

\* The history of offsets after one that is coded as offBase, behind literals or not.
RepeatAfter(reps, offBase, ll0) ==
  IF offBase > ZSTD_REP_NUM THEN <<offBase - ZSTD_REP_NUM, reps[1], reps[2]>>
  ELSE LET code == offBase - 1 + ll0
           offset == IF code = ZSTD_REP_NUM THEN reps[1] - 1 ELSE reps[code + 1]
       IN IF code = 0 THEN reps
          ELSE <<offset, reps[1], IF code = 1 THEN reps[3] ELSE reps[2]>>

\* Whether a decoder that has the text up to ip, from low on, gets the text up to end from
\* the sequences; and the offsets it then repeats.
Decoded(text, first, low, window, ip, end, reps, sequences) ==
  LET f[i \in 0 .. Len(sequences)] ==
        IF i = 0 THEN [ip |-> ip, reps |-> reps, right |-> TRUE]
        ELSE LET r      == f[i - 1]
                 s      == sequences[i]
                 after  == RepeatAfter(r.reps, s.offBase, IF s.litLength = 0 THEN 1 ELSE 0)
                 at     == r.ip + s.litLength
                 offset == after[1]
             IN IF ~r.right THEN r
                ELSE [ip |-> at + s.matchLength, reps |-> after,
                      right |-> /\ 0 < offset /\ offset <= window /\ at - offset >= low
                                /\ at + s.matchLength <= end
                                /\ \A j \in 0 .. s.matchLength - 1 : text[at + j - first + 1] = text[at + j - offset - first + 1]]
  IN f[Len(sequences)]
=============================================================================

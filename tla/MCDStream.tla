----------------------------- MODULE MCDStream -----------------------------
\* DStream on a scale where headers and checksums have one or two bytes, blocks
\* up to two and windows two or three.  The text holds a frame long enough for
\* its ring to start over, in parts of raw blocks too, one that is declared and
\* fits a single pass, an empty one, and skippable ones.
EXTENDS DStream

\* Blocks and frames, with the places where they lie.
Raw(n, from, before) == [raw |-> TRUE, csize |-> n, rsize |-> n, from |-> from, before |-> before]
Compressed(c, r, from, before) ==
  [raw |-> FALSE, csize |-> c, rsize |-> r, from |-> from, before |-> before]

Streamed(blocks, content, size, from, before) ==
  [skippable |-> FALSE, header |-> 2, declared |-> FALSE, content |-> content, window |-> size,
   checksum |-> TRUE, blocks |-> blocks, from |-> from, before |-> before,
   inside |-> {}]
Declared(blocks, content, from, before) ==
  [skippable |-> FALSE, header |-> 2, declared |-> TRUE, content |-> content, window |-> content,
   checksum |-> FALSE, blocks |-> blocks, from |-> from, before |-> before,
   inside |-> {}]
Skippable(content, from, before) ==
  [skippable |-> TRUE, header |-> 2, declared |-> FALSE, content |-> content, window |-> 0,
   checksum |-> FALSE, blocks |-> <<>>, from |-> from, before |-> before, inside |-> {}]

MCFrames == <<
  Streamed(<<Raw(2, 2, 0), Compressed(1, 2, 5, 2), Compressed(2, 2, 7, 4),
             Raw(2, 10, 6), Raw(1, 13, 8), Compressed(1, 1, 15, 9),
             Raw(2, 17, 10), Compressed(2, 2, 20, 12), Compressed(1, 2, 23, 14),
             Raw(0, 25, 16)>>, 16, 3, 0, 0),
  Skippable(2, 27, 16),
  Declared(<<Compressed(1, 2, 2, 0), Compressed(1, 1, 4, 2)>>, 3, 31, 16),
  Declared(<<Raw(0, 2, 0)>>, 0, 37, 19),
  Skippable(0, 40, 19),
  Declared(<<Compressed(1, 2, 2, 0), Raw(2, 4, 2), Compressed(1, 2, 7, 4)>>, 6, 42, 19)>>

MCChunks == {0, 1, 2, 8}
MCRooms  == {0, 1, 2, 4}
=============================================================================

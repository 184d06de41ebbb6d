----------------------- MODULE MCStreamingDecompress ------------------------
\* StreamingDecompress on a scale where the output buffer holds two bytes.  The
\* first frame has a block of three, more than the buffer, and a checksum; the
\* second is raw; the third is empty or skippable; the last ends with a block
\* that is more than the buffer, and nothing after it.
EXTENDS StreamingDecompress

Byte(n, end) == [decodable |-> n, end |-> end]

MCText == << Byte(0, 4), Byte(3, 4), Byte(4, 4), Byte(4, 4),
             Byte(4, 7), Byte(5, 7), Byte(6, 7),
             Byte(6, 9), Byte(6, 9),
             Byte(6, 12), Byte(6, 12), Byte(11, 12) >>
MCChunks == {0, 1, 2, 3, 6}
=============================================================================

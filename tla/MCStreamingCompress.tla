------------------------ MODULE MCStreamingCompress -------------------------
\* StreamingCompress on a scale where the output buffer holds two bytes: a
\* context holds one byte of input and keeps back up to two of output, and a
\* string is one byte or enough for several turns of a method's loop.
EXTENDS StreamingCompress

MCArguments == {<<1>>, <<2, 1>>}
=============================================================================

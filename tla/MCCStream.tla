----------------------------- MODULE MCCStream -----------------------------
\* CStream on a scale of bytes: blocks of 2, a window of 3, so that inBuff (5)
\* wraps with and without a gap at its end; chunks from one byte to more than
\* two blocks; a roomy output buffer like the binding's and two tight ones.
EXTENDS CStream

MCCompressBound(n) == n + 1
MCChunks == {1, 2, 5}
MCRooms  == {1, 2, 5}
=============================================================================

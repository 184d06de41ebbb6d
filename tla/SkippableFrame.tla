--------------------------- MODULE SkippableFrame ---------------------------
(***************************************************************************)
(* Zstd.write_skippable_frame and Zstd.read_skippable_frame                *)
(* (skippable_frame.c) with the functions of the library behind them.  A   *)
(* client has a string, writes a skippable frame with it, cuts it, and     *)
(* reads what the frame holds.  Magic numbers have bytes of their own;     *)
(* lengths are numbers in memory.                                          *)
(***************************************************************************)
EXTENDS FrameFormat, SequencesExt

CONSTANTS
  Strings,        \* what a client may start from, and put into a frame
  Variants,       \* magic variants it may ask for
  ReadCap         \* the room for content that read_skippable_frame has: 129 KB

SkippableAssumption == ReadCap \in Nat /\ \A s \in Strings : s \in Seq(Nat)

VARIABLES
  str,       \* the string the client has
  written,   \* the content it last put into a frame that is whole in str, in a sequence
  result     \* what the last method did: [kind, value]

vars == <<str, written, result>>

\* The library ---------------------------------------------------------------

\* ZSTD_writeSkippableFrame: the bytes at the start of dst, or the error.
WritesSkippable(dstCapacity, src, magicVariant) ==
  /\ dstCapacity >= Len(src) + SKIPPABLEHEADERSIZE
  /\ Len(src) < U32
  /\ magicVariant \in 0 .. 15

SkippableBytes(src, magicVariant) == Magic(magicVariant) \o WriteLE(4, Len(src)) \o src

\* Not the code: the whole of what follows the header is the content.
RestSize(dstCapacity, src) ==
  IF Len(src) - SKIPPABLEHEADERSIZE > dstCapacity THEN Error
  ELSE Len(src) - SKIPPABLEHEADERSIZE

\* ZSTD_readSkippableFrame: the size of the content that is copied, or Error.
readSkippableFrame(dstCapacity, src) ==
  LET frameSize   == readSkippableFrameSize(src)
      contentSize == frameSize - SKIPPABLEHEADERSIZE
  IN  IF \/ Len(src) < SKIPPABLEHEADERSIZE
         \/ ~isSkippableFrame(src)
         \/ frameSize < SKIPPABLEHEADERSIZE \/ frameSize > Len(src)
         \/ contentSize > dstCapacity
      THEN Error ELSE contentSize

\* The binding ---------------------------------------------------------------

Init ==
  /\ str \in Strings
  /\ written = <<>>
  /\ result = [kind |-> "none", value |-> <<>>]

\* The output starts as a copy of the input with room for the frame behind it; the
\* frame is written over its start, and the rest is cut off.
Write(skip, magicVariant) ==
  LET dstSize == Len(str) + SKIPPABLEHEADERSIZE + Len(skip)
  IN  IF WritesSkippable(dstSize, skip, magicVariant)
      THEN LET frame == SkippableBytes(skip, magicVariant) IN
           /\ result' = [kind |-> "string", value |-> frame]
           /\ str' = frame /\ written' = <<skip>>
      ELSE result' = [kind |-> "raised", value |-> <<>>] /\ UNCHANGED <<str, written>>

Read ==
  /\ LET size == readSkippableFrame(ReadCap, str) IN
       result' = IF ~isSkippableFrame(str) THEN [kind |-> "nil", value |-> <<>>]
                 ELSE IF IsError(size) THEN [kind |-> "raised", value |-> <<>>]
                 ELSE [kind |-> "string",
                       value |-> SubSeq(str, SKIPPABLEHEADERSIZE + 1, SKIPPABLEHEADERSIZE + size)]
  /\ UNCHANGED <<str, written>>

\* The client cuts the string, ...
Cut ==
  /\ \E n \in 0 .. Len(str) - 1 : str' = SubSeq(str, 1, n)
  /\ written' = <<>>
  /\ UNCHANGED result

\* ... or appends another to the frame.
Extend(s) ==
  /\ written # <<>> /\ s # <<>> /\ str = result.value
  /\ str' = str \o s
  /\ UNCHANGED <<written, result>>

Next ==
  \/ \E s \in Strings, v \in Variants : Write(s, v)
  \/ Read
  \/ Cut
  \/ \E s \in Strings : Extend(s)

Spec == Init /\ [][Next]_vars
-----------------------------------------------------------------------------
(* read_skippable_frame gives back what write_skippable_frame was given,    *)
(* whatever follows the frame in the string; it raises instead only when    *)
(* the content is larger than the room it has.                              *)
ReadsWhatWasWritten ==
  Read /\ written # <<>> =>
    result' = IF Len(written[1]) <= ReadCap THEN [kind |-> "string", value |-> written[1]]
              ELSE [kind |-> "raised", value |-> <<>>]

(* A frame that is cut off is never read, and neither is one whose length   *)
(* does not fit in memory: what is returned lies in the string, and has the *)
(* length that its header says.                                             *)
ReadsWholeFrames ==
  Read /\ result'.kind = "string" =>
    /\ Len(str) >= SKIPPABLEHEADERSIZE + Len(result'.value)
    /\ WriteLE(4, Len(result'.value)) = SubSeq(str, 5, 8)
=============================================================================

------------------------------- MODULE OneShot ------------------------------
(***************************************************************************)
(* Zstd.decompress of zstdruby.c: the scan of a string for its first frame *)
(* (rb_decompress) and the decoding of that frame (decode_one_frame), over *)
(* the contract of ZSTD_decompressStream().  A string is put together from *)
(* segments, noise, skippable frames and frames, and cut off anywhere.  A  *)
(* frame is its magic number, a byte that says how much content it has,    *)
(* and the content.                                                        *)
(***************************************************************************)
EXTENDS Integers, Sequences, SequencesExt

CONSTANTS
  Segments,              \* the segments that a string is put together from
  MaxSegments,           \* how many of them
  ZSTD_MAGIC,            \* the magic number of a frame, as bytes
  SKIP_MAGICS,           \* those of skippable frames
  Cap,                   \* ZSTD_DStreamOutSize()
  NoForwardProgressMax   \* ZSTD_NO_FORWARD_PROGRESS_MAX

IdSize == Len(ZSTD_MAGIC)

\* The length of a skippable frame takes one byte on this scale.
HeaderSize == IdSize + 1

OneShotAssumption ==
  /\ Cap \in Nat \ {0} /\ NoForwardProgressMax \in Nat \ {0} /\ MaxSegments \in Nat
  /\ \A s \in SKIP_MAGICS : Len(s) = IdSize
  /\ \A s \in Segments : s.kind \in {"noise", "skippable", "frame"} /\ s.bytes # <<>>

VARIABLES
  segments, size,   \* the string: the first size bytes of these segments
  off,              \* where the scan is; in the end, where the frame was found
  pc,               \* "scan", "decode", "returned", "raised"
  src,              \* what decode_one_frame() is given: the string from off on
  decoder,          \* the context, once there is one
  idle,             \* calls in a row that have neither read nor written
  out,              \* content collected so far
  damaged           \* the library has found the frame to be damaged

vars == <<segments, size, off, pc, src, decoder, idle, out, damaged>>

Bytes(segs) == FlattenSeq([i \in DOMAIN segs |-> segs[i].bytes])
Input == SubSeq(Bytes(segments), 1, size)

\* The string from off on, as the decoder sees it.
Frame ==
  LET bytes  == SubSeq(Input, off + 1, size)
      beyond == Len(bytes) + 1
      length == IF Len(bytes) >= HeaderSize THEN HeaderSize + bytes[HeaderSize] ELSE beyond
      end    == IF length <= Len(bytes) THEN length ELSE beyond
  IN  [i \in DOMAIN bytes |->
         [decodable |-> IF i > HeaderSize THEN i - HeaderSize ELSE 0,
          end       |-> IF i <= end THEN end ELSE beyond]]

Stream == INSTANCE DecompressContract WITH Text <- src

Init ==
  /\ \E n \in 0 .. MaxSegments : segments \in [1 .. n -> Segments]
  /\ size \in 0 .. Len(Bytes(segments))
  /\ off = 0 /\ pc = "scan" /\ src = <<>>
  /\ decoder = [pos |-> 0, sent |-> 0, broken |-> FALSE]
  /\ idle = 0 /\ out = 0 /\ damaged = FALSE

\* The scan -----------------------------------------------------------------

Scanning == pc = "scan" /\ off + IdSize <= size
Magic == LET last == IF off + IdSize > size THEN size ELSE off + IdSize
         IN  SubSeq(Input, off + 1, last)
Advance(n) == off' = off + n /\ UNCHANGED <<segments, size, pc, src, decoder, idle, out, damaged>>
Raise == pc' = "raised" /\ UNCHANGED <<segments, size, off, src, decoder, idle, out>>

\* Not the code: only the content of a skippable frame is skipped.
SkippedContent == Input[off + HeaderSize]

\* Not the code: the scan stays where it is.
SkippedNone == 0

\* The length of the skippable frame at off, header and content.
Skipped == HeaderSize + Input[off + HeaderSize]

\* Not the code: the content may be cut off.
SkippableBegins == off + HeaderSize <= size

\* The frame has its header, and all of its content.
SkippableFits == off + HeaderSize <= size /\ off + Skipped <= size

SkipFrame == Scanning /\ Magic \in SKIP_MAGICS /\ SkippableFits /\ Advance(Skipped)

SkipByte == Scanning /\ Magic \notin SKIP_MAGICS \cup {ZSTD_MAGIC} /\ Advance(1)

\* "not a zstd frame": at the end, or in a skippable frame that is cut off.
NotFound ==
  /\ pc = "scan"
  /\ off + IdSize > size \/ (Magic \in SKIP_MAGICS /\ ~SkippableFits)
  /\ Raise /\ UNCHANGED damaged

Found ==
  /\ Scanning
  /\ Magic = ZSTD_MAGIC
  /\ pc' = "decode"
  /\ src' = Frame
  /\ UNCHANGED <<segments, size, off, decoder, idle, out, damaged>>

\* decode_one_frame() --------------------------------------------------------

\* Not the code: the loop ends with the input.
ReturnsAtEnd(done) == done \/ decoder'.pos = Len(src)

Returns(done) == done

DecodeTurn ==
  LET given == Len(src) - decoder.pos
  IN  /\ pc = "decode" /\ ~decoder.broken
      /\ \E read \in 0 .. given, wrote \in 0 .. Cap, done \in BOOLEAN :
           /\ decoder' = [decoder EXCEPT !.pos = @ + read, !.sent = @ + wrote]
           /\ Stream!Promise(decoder, given, Cap, decoder', done)
           /\ idle' = IF read + wrote = 0 THEN idle + 1 ELSE 0
           /\ idle' < NoForwardProgressMax
           /\ out' = out + wrote
           /\ pc' = IF Returns(done) THEN "returned" ELSE "decode"
      /\ UNCHANGED <<segments, size, off, src, damaged>>

\* The frame is damaged, which the library may find at any call, ...
DecodeFails ==
  /\ pc = "decode" /\ ~decoder.broken
  /\ Stream!Failure(decoder, decoder')
  /\ pc' = "raised" /\ damaged' = TRUE
  /\ UNCHANGED <<segments, size, off, src, idle, out>>

\* ... or it gives up, when there is nothing to read and nothing to write.
GivesUp ==
  /\ pc = "decode" /\ ~decoder.broken
  /\ idle + 1 >= NoForwardProgressMax
  /\ decoder.pos = Len(src)
  /\ Raise /\ UNCHANGED damaged

Next == SkipFrame \/ SkipByte \/ NotFound \/ Found \/ DecodeTurn \/ DecodeFails \/ GivesUp

Spec == Init /\ [][Next]_vars

\* All of it runs on the caller's thread, without releasing the GVL.
FairSpec == Spec /\ WF_vars(Next)
-----------------------------------------------------------------------------
TypeOK ==
  /\ off \in 0 .. size
  /\ pc \in {"scan", "decode", "returned", "raised"}
  /\ decoder \in Stream!DecoderState
  /\ idle \in 0 .. NoForwardProgressMax - 1
  /\ out \in Nat /\ damaged \in BOOLEAN

\* The segments before the first frame, and the bytes before and in it.
Frames == {i \in DOMAIN segments : segments[i].kind = "frame"}
First  == CHOOSE i \in Frames : \A j \in Frames : i <= j
Start  == Len(Bytes(SubSeq(segments, 1, First - 1)))
Length == Len(segments[First].bytes)
FirstIsComplete == Frames # {} /\ Start + Length <= size

\* A skippable frame before it claims more than the string has left.
Hidden ==
  \E i \in 1 .. First - 1 :
    /\ segments[i].kind = "skippable"
    /\ Len(Bytes(SubSeq(segments, 1, i - 1))) + HeaderSize + segments[i].bytes[HeaderSize] > size

(* decompress returns the content of the first frame of the string, all of  *)
(* it and nothing else, however much noise and however many skippable frames*)
(* come before it, whatever those contain, and whatever follows.  It never  *)
(* looks behind a skippable frame that claims more than the string has.     *)
ResultIsFirstFrame ==
  pc = "returned" => FirstIsComplete /\ ~Hidden /\ off = Start /\ out = Length - HeaderSize

(* decompress raises only if the string has no complete frame, the first is *)
(* behind a skippable frame that claims more than the string has, or the    *)
(* library finds it damaged: no noise and no whole skippable frame hides a  *)
(* frame.                                                                   *)
RaisesForAReason == pc = "raised" /\ ~damaged /\ FirstIsComplete => Hidden

(* decompress comes to an end.  The scan advances; and the loop that decodes*)
(* never looks at how much input is left, so that on a frame that is cut off*)
(* it ends only because the library gives up.                               *)
Terminates == <>(pc \in {"returned", "raised"})
=============================================================================

------------------------- MODULE DecompressContract -------------------------
(***************************************************************************)
(* What ZSTD_decompressStream() promises to the binding.  The compressed   *)
(* text is a sequence of frames; all that matters of a byte of it is how   *)
(* much content can be decoded once it has been read, and where its frame  *)
(* ends.  DStream.tla has the loop that keeps the contract and             *)
(* StreamingDecompress.tla the object written against it.                  *)
(***************************************************************************)
EXTENDS Integers, Sequences

CONSTANT Text    \* the compressed text: one record for each byte

\* Of a byte of text, what content can be decoded of the text up to there, and
\* where the frame ends that it is part of; beyond the text, if it is cut off.
TextByte == [decodable : Nat, end : Nat]

ASSUME TextAssumption ==
  /\ Text \in Seq(TextByte)
  /\ \A i \in DOMAIN Text : Text[i].end \in i .. Len(Text) + 1
  /\ \A i, j \in DOMAIN Text : i <= j =>
       /\ Text[i].decodable <= Text[j].decodable
       /\ j <= Text[i].end => Text[j].end = Text[i].end

\* A decoder between two calls: the position in Text after the input that its
\* caller knows to be consumed, the content sent, and whether a call has failed.
DecoderState == [pos : 0 .. Len(Text), sent : Nat, broken : BOOLEAN]

Fresh == [pos |-> 0, sent |-> 0, broken |-> FALSE]

Decodable(pos) == IF pos = 0 THEN 0 ELSE Text[pos].decodable

FrameEnds == {i \in DOMAIN Text : Text[i].end = i}

\* The end of the frame that the byte after pos belongs to.
FrameEnd(pos) == IF pos < Len(Text) THEN Text[pos + 1].end ELSE Len(Text) + 1

\* The shortest frames, empty and skippable ones, have more bytes than one.
ASSUME FrameAssumption == \A i \in FrameEnds : i > 1 /\ i - 1 \notin FrameEnds

(***************************************************************************)
(* The contract between a decoder p, the arguments of a call and its       *)
(* outcome: q is the decoder after the call, and done that the call        *)
(* returned 0.                                                             *)
(***************************************************************************)
Promise(p, given, room, q, done) ==
  LET end   == FrameEnd(p.pos)
      read  == q.pos - p.pos
      wrote == q.sent - p.sent
      \* The last byte of a frame counts as unread, although the decoder may know
      \* it, while content of the frame is waiting to be delivered.
      known == IF q.pos + 1 = end /\ end <= Len(Text) THEN end ELSE q.pos
  IN  /\ read \in 0 .. given
      /\ wrote \in 0 .. room
      /\ ~q.broken
      \* A call stays within one frame, and 0 says that all of it is delivered.
      /\ q.pos <= end
      /\ done <=> q.pos = end
      /\ q.pos = end => q.sent = Decodable(end)
      /\ q.sent <= Decodable(known)
      \* Input is left unread only for content that waits for room, and content
      \* only for want of room.
      /\ read < given /\ ~done => wrote = room /\ q.sent < Decodable(known)
      /\ wrote < room => q.sent >= Decodable(q.pos)
      /\ given > 0 /\ room > 0 => read + wrote > 0

\* An error code: the text is damaged, or a call without input or without room
\* for output had nothing to do once too often.
Failure(p, q) == q = [p EXCEPT !.broken = TRUE]
=============================================================================

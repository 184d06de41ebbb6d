------------------------------ MODULE StreamIO ------------------------------
(***************************************************************************)
(* Zstd::StreamWriter and Zstd::StreamReader (lib/zstd-ruby) on one IO that*)
(* may fail.  Compressed text is a sequence of tokens: the head of a frame,*)
(* the data of one write, the end of a frame.  The streaming objects behind*)
(* the wrappers are what StreamingCompress.tla and StreamingDecompress.tla *)
(* show them to be.                                                        *)
(***************************************************************************)
EXTENDS Integers, Sequences, FiniteSets, SequencesExt

CONSTANTS
  MaxWrites,      \* strings that the program writes at most
  MaxFinishes,    \* calls of finish and close at most
  Lengths         \* lengths that it passes to read

StreamIOAssumption ==
  MaxWrites \in Nat /\ MaxFinishes \in Nat /\ Lengths \subseteq Nat \ {0}

\* Tokens; the data of a write is its number, from 1 on.
Begin == 0
End == -1

VARIABLES
  \* the writer
  writes,      \* strings written so far; each stands for its number
  finishes,    \* calls of finish and close so far
  begun,       \* the context has a frame open
  pending,     \* tokens in sc->pending
  inside,      \* tokens in the context
  failed,      \* a method of the writer has raised
  returned,    \* the strings whose write has returned
  \* the IO
  io,          \* what it holds
  closed,
  \* the reader
  at,          \* how far the IO has been read
  decoder,     \* the place in io that the decoder is at
  delivered,   \* what the program has got, in order
  reading      \* "reads", "raised", "eof"

writer == <<writes, finishes, begun, pending, inside, failed, returned>>
reader == <<at, decoder, delivered, reading>>
vars == <<writer, io, closed, reader>>

Init ==
  /\ writes = 0 /\ finishes = 0 /\ begun = FALSE /\ pending = <<>> /\ inside = <<>>
  /\ failed = FALSE /\ returned = {}
  /\ io = <<>> /\ closed = FALSE
  /\ at = 0 /\ decoder = 0 /\ delivered = <<>> /\ reading = "reads"

\* The writer --------------------------------------------------------------------

Open == IF begun THEN <<>> ELSE <<Begin>>

\* What reaches the context with a string, and with the end of the frame.
Given == Open \o <<writes + 1>>
Ended == Open \o <<End>>

\* What @stream.flush and @stream.finish return: sc->pending, and all of the context.
Drained(given) == pending \o inside \o given

\* @io.write(tokens)
Put(tokens) ==
  /\ io' = io \o tokens
  /\ pending' = <<>> /\ inside' = <<>>
  /\ UNCHANGED failed

\* Not the code: what was not written is kept, and what was too.
PutFailsAndKeeps(tokens) ==
  /\ \E n \in 0 .. Len(tokens) : io' = io \o SubSeq(tokens, 1, n)
  /\ pending' = tokens /\ inside' = <<>> /\ failed' = TRUE

\* It raises, having written any part of them; they are in no object any more.
PutFails(tokens) ==
  /\ \E n \in 0 .. Len(tokens) : io' = io \o SubSeq(tokens, 1, n)
  /\ pending' = <<>> /\ inside' = <<>> /\ failed' = TRUE

\* The streaming object raises, while the context holds text: kept tokens of it have
\* gone to sc->pending and stay there; those up to lost were drained into the result of
\* flush or finish, or are a part of a string that the context never got; the context
\* keeps the rest.
StreamFails(text, kept, lost) ==
  /\ pending' = pending \o SubSeq(text, 1, kept)
  /\ inside' = SubSeq(text, lost + 1, Len(text))
  /\ failed' = TRUE
  /\ UNCHANGED io

\* @stream.write gathers, @stream.flush drains; the raise may come before the string.
WriteFails ==
  \E given \in {<<>>, Given} :
    LET text == inside \o given
    IN  /\ \E kept \in 0 .. Len(text) : \E lost \in kept .. Len(text) : StreamFails(text, kept, lost)
        /\ begun' = (begun \/ given # <<>>)

\* @stream.finish only drains; the raise may come before the end of the frame.
FinishFails ==
  \E given \in {<<>>, Ended} :
    LET text == inside \o given
    IN  /\ \E lost \in 0 .. Len(text) : StreamFails(text, 0, lost)
        /\ begun' = (begun /\ given = <<>>)

\* Not the code: what write has gathered is not flushed.
WriteUnflushed ==
  /\ writes < MaxWrites /\ ~closed
  /\ writes' = writes + 1
  /\ begun' = TRUE
  /\ pending' = Drained(Given) /\ inside' = <<>>
  /\ returned' = returned \cup {writes + 1}
  /\ UNCHANGED <<failed, io, finishes, closed, reader>>

Write ==
  /\ writes < MaxWrites /\ ~closed
  /\ writes' = writes + 1
  /\ \/ Put(Drained(Given)) /\ begun' = TRUE /\ returned' = returned \cup {writes + 1}
     \/ PutFails(Drained(Given)) /\ begun' = TRUE /\ UNCHANGED returned
     \/ WriteFails /\ UNCHANGED returned
  /\ UNCHANGED <<finishes, closed, reader>>

Finishes ==
  /\ finishes < MaxFinishes /\ ~closed
  /\ finishes' = finishes + 1
  /\ UNCHANGED <<writes, returned, reader>>

FinishRaises ==
  \/ PutFails(Drained(Ended)) /\ begun' = FALSE
  \/ FinishFails

Finish ==
  /\ Finishes /\ UNCHANGED closed
  /\ \/ Put(Drained(Ended)) /\ begun' = FALSE
     \/ FinishRaises

\* finish once more, and then the IO is closed, unless that raised.
Close ==
  /\ Finishes
  /\ \/ Put(Drained(Ended)) /\ begun' = FALSE /\ closed' = TRUE
     \/ FinishRaises /\ UNCHANGED closed

\* The reader --------------------------------------------------------------------

\* decompress(): one call of the library handles the text up to the end of a frame.
CallEnd(from, to) ==
  LET ends == {i \in from + 1 .. to : io[i] = End}
  IN  IF ends = {} THEN to ELSE CHOOSE i \in ends : \A j \in ends : i <= j

Content(from, to) == SelectSeq(SubSeq(io, from + 1, to), LAMBDA token : token > 0)

\* The loop stops when a call has completed a frame without output.
Breaks(from, to) == io[CallEnd(from, to)] = End /\ Content(from, CallEnd(from, to)) = <<>>


\* Where the loop leaves the decoder.
DecodedTo(from, to) ==
  LET turn[p \in from .. to] ==
        IF p = to THEN to
        ELSE IF Breaks(p, to) THEN CallEnd(p, to) ELSE turn[CallEnd(p, to)]
  IN  turn[from]

AtFrameEnd(p) == IF p = 0 THEN TRUE ELSE io[p] = End

\* The decoder takes text from where it is, and between two frames the start of any frame.
InPlace == at = decoder \/ (AtFrameEnd(at) /\ AtFrameEnd(decoder))

\* Not the code: the decoder goes on with whatever it is given.
ReadAnywhere(length) ==
  LET to == IF at + length > Len(io) THEN Len(io) ELSE at + length
  IN  /\ reading = "reads" /\ ~closed /\ at < Len(io)
      /\ at' = to
      /\ decoder' = DecodedTo(at, to)
      /\ delivered' = delivered \o Content(at, decoder')
      /\ UNCHANGED <<reading, writer, io, closed>>

\* @io.read(length), and @stream.decompress of it.  A decoder that is given the middle
\* of another frame than the one it is in has an error, and so may one that is given
\* text with gaps.
Read(length) ==
  LET to == IF at + length > Len(io) THEN Len(io) ELSE at + length
  IN  /\ reading = "reads" /\ ~closed /\ at < Len(io)
      /\ at' = to
      /\ \/ /\ ~InPlace \/ failed
            /\ reading' = "raised" /\ UNCHANGED <<decoder, delivered>>
         \/ /\ InPlace
            /\ decoder' = DecodedTo(at, to)
            /\ delivered' = delivered \o Content(at, decoder')
            /\ UNCHANGED reading
      /\ UNCHANGED <<writer, io, closed>>

\* eof? raises "EOF".  The program does not go on.
ReadEOF ==
  /\ reading = "reads" /\ ~closed /\ at = Len(io)
  /\ finishes = MaxFinishes
  /\ reading' = "eof"
  /\ UNCHANGED <<writer, io, closed, at, decoder, delivered>>

Next ==
  \/ Write \/ Finish \/ Close
  \/ \E length \in Lengths : Read(length)
  \/ ReadEOF

Spec == Init /\ [][Next]_vars

-----------------------------------------------------------------------------
Strings == 1 .. writes

(* As long as the program has seen no exception, the IO holds every string  *)
(* that it has written, each at once and in order, in well-formed frames:   *)
(* the writer keeps nothing back.                                           *)
WrittenIsInIO ==
  ~failed =>
    /\ Content(0, Len(io)) = [i \in Strings |-> i]
    /\ \A i \in DOMAIN io : (io[i] = Begin) <=> (i = 1 \/ io[i - 1] = End)
    /\ begun <=> (io # <<>> /\ Last(io) # End)

(* Nothing is written twice or late, whatever has failed: the IO holds some *)
(* of the strings, in order.                                                *)
NothingIsRepeated ==
  LET content == Content(0, Len(io)) IN \A i, j \in DOMAIN content : i < j => content[i] < content[j]

Frame(i) == Cardinality({j \in 1 .. i : io[j] = Begin})

(* The string of every write that has returned is in the IO, whatever other *)
(* methods have raised before and after it.                                 *)
ReturnedIsInIO == returned \subseteq ToSet(Content(0, Len(io)))

(* The reader delivers what the IO holds in order, whatever lengths the     *)
(* program reads, whenever it reads them and however many frames there are. *)
(* It may miss frames, as the loop of decompress drops the rest of a string *)
(* behind the end of one; but as long as the writer has not failed, it      *)
(* misses whole frames only.                                                *)
ReaderInOrder ==
  /\ decoder <= at
  /\ \A i, j \in DOMAIN delivered : i < j => delivered[i] < delivered[j]
  /\ ToSet(delivered) \subseteq ToSet(Content(0, decoder))
  /\ ~failed =>
       \A i, j \in 1 .. decoder :
         io[i] > 0 /\ io[j] > 0 /\ Frame(i) = Frame(j) => (io[i] \in ToSet(delivered) <=> io[j] \in ToSet(delivered))

(* A text of one frame is read to its end without an exception, however it  *)
(* is cut; it takes a second frame, as of a close after finish, or a writer *)
(* that has raised, to make read raise.                                     *)
OneFrameIsRead ==
  Cardinality({i \in DOMAIN io : io[i] = Begin}) <= 1 /\ ~failed =>
    /\ reading # "raised"
    /\ reading = "eof" => delivered = [i \in Strings |-> i]
=============================================================================

------------------------ MODULE StreamingDecompress -------------------------
(***************************************************************************)
(* Zstd::StreamingDecompress of streaming_decompress.c, and a client that  *)
(* hands it a text piece by piece.  decompress(str) loops over the library *)
(* and returns content only: the client goes on behind str.                *)
(* decompress_with_pos(str) makes one call and also returns how much of    *)
(* str was consumed: the client goes on from there.  Every call of the     *)
(* library releases the GVL, and Ruby may deliver an exception at either   *)
(* end of the release.  Content is a number of bytes, in order.            *)
(***************************************************************************)
EXTENDS DecompressContract

CONSTANTS
  BufSize,    \* sd->buf_size
  Chunks,     \* sizes of the strings a client presents
  Retries     \* the client uses the object again after an exception

ASSUME StreamingDecompressAssumption ==
  BufSize \in Nat \ {0} /\ Chunks \subseteq Nat /\ Retries \in BOOLEAN

VARIABLES
  decoder,    \* sd->dctx between two calls of the library
  call,       \* the local variables of the method in progress
  at,         \* the position in Text from which the client will go on
  delivered,  \* content that the client has been given
  raised      \* a method has ended in an exception

vars == <<decoder, call, at, delivered, raised>>

Methods == {"decompress", "decompress_with_pos"}

\* pc: "idle"; "zstd", in the library and without the GVL; "back", about to
\* take the GVL again.  avail is input.size - input.pos, result the length of
\* the string so far, pos is output.pos and done that ret is 0.
NoCall == [pc |-> "idle", method |-> "decompress", avail |-> 0, result |-> 0,
           pos |-> 0, done |-> FALSE, error |-> FALSE]

Init ==
  /\ decoder = Fresh
  /\ call = NoCall
  /\ at = 0
  /\ delivered = 0
  /\ raised = FALSE

Busy == call.pc # "idle"

\* The client has not lost its place: what it presents is what the decoder awaits.
InStep == at = decoder.pos

Begin(method, size) ==
  /\ ~Busy
  /\ raised => Retries
  /\ InStep
  /\ at + size <= Len(Text)
  /\ call' = [NoCall EXCEPT !.pc = "zstd", !.method = method, !.avail = size]
  /\ UNCHANGED <<decoder, at, delivered, raised>>

\* An empty string never reaches the library.
Decompress == \E size \in Chunks \ {0} : Begin("decompress", size)
DecompressWithPos == \E size \in Chunks : Begin("decompress_with_pos", size)

\* zstd_stream_decompress(): one call of the library.
Zstd ==
  /\ call.pc = "zstd"
  /\ ~decoder.broken
  /\ \E read \in 0 .. call.avail, wrote \in 0 .. BufSize, done \in BOOLEAN :
       /\ decoder' = [decoder EXCEPT !.pos = @ + read, !.sent = @ + wrote]
       /\ Promise(decoder, call.avail, BufSize, decoder', done)
       /\ call' = [call EXCEPT !.pc = "back", !.avail = @ - read, !.pos = wrote, !.done = done]
  /\ UNCHANGED <<at, delivered, raised>>

ZstdFails ==
  /\ call.pc = "zstd"
  /\ Failure(decoder, decoder')
  /\ call' = [call EXCEPT !.pc = "back", !.pos = 0, !.error = TRUE]
  /\ UNCHANGED <<at, delivered, raised>>

\* The method ends in an exception; its local variables go with it.
Raise ==
  /\ call' = NoCall
  /\ raised' = TRUE
  /\ UNCHANGED <<decoder, at, delivered>>

Interrupt  == Busy /\ Raise
RaiseError == call.pc = "back" /\ call.error /\ Raise

Resumes(method) == call.pc = "back" /\ ~call.error /\ call.method = method

\* Not the code: the loop ends when sd->buf is full.
BreaksWhenFull == call.done \/ call.pos = BufSize

\* "ret == 0 && output.pos == 0": a frame is complete, and had nothing to deliver.
Breaks == call.done /\ call.pos = 0

\* Not the code: "input.pos <= input.size".
MoreInputOrNone == call.avail >= 0

\* "input.pos < input.size"
MoreInput == call.avail > 0

\* Not the code: all of sd->buf is appended, ...
ResultOfBuf == call.result + BufSize

\* ... or only the last call counts.
ResultOfCall == call.pos

\* The string that a method returns.
Result == call.result + call.pos

Return(next) ==
  /\ call' = NoCall
  /\ delivered' = delivered + Result
  /\ at' = next
  /\ UNCHANGED <<decoder, raised>>

DecompressTurn ==
  /\ Resumes("decompress")
  /\ \/ /\ MoreInput /\ ~Breaks
        /\ call' = [call EXCEPT !.pc = "zstd", !.result = Result, !.pos = 0]
        /\ UNCHANGED <<decoder, at, delivered, raised>>
     \/ /\ ~MoreInput \/ Breaks
        /\ Return(decoder.pos + call.avail)

\* input.pos goes to the client, who presents the rest again.
DecompressWithPosReturns ==
  /\ Resumes("decompress_with_pos")
  /\ Return(decoder.pos)

Step == Zstd \/ ZstdFails \/ DecompressTurn \/ DecompressWithPosReturns \/ RaiseError

Next == Decompress \/ DecompressWithPos \/ Step \/ Interrupt

Spec == Init /\ [][Next]_vars

\* The library returns, and the thread that waits for the GVL gets it.
FairSpec == Spec /\ WF_vars(Step)

\* A client that does not stop before the end of its text.
Presents == \E method \in Methods, size \in Chunks \ {0} : Begin(method, size)
ClientSpec == FairSpec /\ SF_vars(Presents)
-----------------------------------------------------------------------------
TypeOK ==
  /\ decoder \in DecoderState
  /\ call \in [pc : {"idle", "zstd", "back"}, method : Methods, avail : 0 .. Len(Text),
               result : Nat, pos : 0 .. BufSize, done : BOOLEAN, error : BOOLEAN]
  /\ at \in 0 .. Len(Text)
  /\ delivered \in 0 .. decoder.sent
  /\ raised \in BOOLEAN

(* As long as no method has raised, every byte that the library has given   *)
(* up is with the client or in the result of the method in progress.        *)
NoneLost == ~raised => delivered + call.result + call.pos = decoder.sent

(* When a client has presented the text up to the end of a frame, and has   *)
(* kept its place, it has all content of that frame, wherever it has cut    *)
(* the text and whichever methods it has used: content that does not fit    *)
(* sd->buf is not left in the context.                                      *)
FramesDelivered == ~Busy /\ ~raised /\ InStep /\ at \in FrameEnds => delivered = Decodable(at)

(* decompress() leaves input behind only at the end of a frame, so a client *)
(* who has lost its place has lost whole pieces of text and no half frame   *)
(* is left in the context.                                                  *)
PlaceLostAtFrameEnd ==
  ~Busy /\ ~raised /\ ~InStep => decoder.pos \in FrameEnds /\ delivered = Decodable(decoder.pos)

(* Every method returns or raises: the loop of decompress() cannot spin.    *)
MethodsReturn == Busy ~> ~Busy

(* A client that presents its text to the end gets all content: no method   *)
(* keeps telling it to present the same bytes again.                        *)
TextIsDelivered ==
  <>(delivered = Decodable(Len(Text)) \/ raised \/ (~Busy /\ ~InStep))

(* zstd.h:889-890, "If `input.pos < input.size`, some input has not been    *)
(* consumed.  It's up to the caller to present again remaining data."       *)
(* decompress() presents all of its string.                                 *)
RemainingInputIsPresented == ~Busy /\ ~raised => InStep

(* zstd.h:944, after an error: "In order to re-use such a state, it must be *)
(* first reset".                                                            *)
FailedDecoderIsReset == call.pc = "zstd" => ~decoder.broken
=============================================================================

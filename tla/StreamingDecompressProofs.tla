---------------------- MODULE StreamingDecompressProofs ---------------------
(***************************************************************************)
(* Theorems about StreamingDecompress for every text, every size of the    *)
(* output buffer and all sizes of the strings a client presents.           *)
(***************************************************************************)
EXTENDS StreamingDecompress, TLAPS

(* A method never holds more input than the text has left, and a client     *)
(* never more content than the library has given up.                        *)
Arguments ==
  /\ Busy => decoder.pos + call.avail <= Len(Text)
  /\ delivered + call.result + call.pos <= decoder.sent

(* The local variables of a method: none outside of one, and output.pos is  *)
(* 0 when the library is called.                                            *)
Locals ==
  /\ ~Busy => call = NoCall
  /\ call.pc = "zstd" => call.pos = 0 /\ ~call.error

(* A decoder that stands at the end of a frame has given up all of it.      *)
EndsDelivered == decoder.pos \in FrameEnds => decoder.sent = Decodable(decoder.pos)

(* A call that returned 0 has brought the decoder there.                    *)
DoneAtEnd == call.pc = "back" /\ ~call.error /\ call.done => decoder.pos \in FrameEnds

IInv == /\ TypeOK /\ Arguments /\ Locals /\ EndsDelivered /\ DoneAtEnd
        /\ NoneLost /\ PlaceLostAtFrameEnd

LEMMA TextLength == Len(Text) \in Nat /\ FrameEnds \subseteq Nat /\ 0 \notin FrameEnds
  <1>1. Len(Text) \in Nat /\ DOMAIN Text = 1 .. Len(Text)
    BY TextAssumption
  <1>2. FrameEnds \subseteq 1 .. Len(Text)
    BY <1>1 DEF FrameEnds
  <1> QED
    BY <1>1, <1>2

(* The end of a frame lies behind every position in the frame.              *)
LEMMA FrameEndLies ==
  ASSUME NEW pos \in 0 .. Len(Text)
  PROVE  /\ FrameEnd(pos) \in Nat
         /\ FrameEnd(pos) > pos
         /\ FrameEnd(pos) <= Len(Text) => FrameEnd(pos) \in FrameEnds
         /\ \A i \in FrameEnds : i > pos => FrameEnd(pos) <= i
  <1>1. Len(Text) \in Nat /\ DOMAIN Text = 1 .. Len(Text) /\ pos \in Nat
    BY TextLength, TextAssumption
  <1>2. CASE pos = Len(Text)
    BY <1>1, <1>2 DEF FrameEnd, FrameEnds
  <1>3. CASE pos < Len(Text)
    <2> DEFINE end == FrameEnd(pos)
    <2>1. pos + 1 \in DOMAIN Text /\ end = Text[pos + 1].end
      BY <1>1, <1>3 DEF FrameEnd
    <2>2. end \in pos + 1 .. Len(Text) + 1
      BY <2>1, TextAssumption
    <2>3. ASSUME NEW j \in DOMAIN Text, pos + 1 <= j, j <= end PROVE Text[j].end = end
      BY <2>1, <2>3, TextAssumption
    <2> HIDE DEF end
    <2>4. end \in Nat /\ end > pos
      BY <1>1, <2>2
    <2>5. ASSUME end <= Len(Text) PROVE end \in FrameEnds
      BY <1>1, <2>2, <2>3, <2>5 DEF FrameEnds
    <2>6. ASSUME NEW i \in FrameEnds, i > pos PROVE end <= i
      <3>1. i \in DOMAIN Text /\ i \in Nat /\ Text[i].end = i /\ pos + 1 <= i
        BY <1>1, <2>6 DEF FrameEnds
      <3> QED BY <2>3, <2>4, <3>1
    <2> QED BY <2>4, <2>5, <2>6 DEF end
  <1>4. pos = Len(Text) \/ pos < Len(Text)
    <2>1. Len(Text) \in Nat
      BY <1>1
    <2> QED BY <2>1
  <1> QED
    BY <1>2, <1>3, <1>4

(* What a call that keeps the contract does at the end of a frame.          *)
LEMMA PromiseAtEnd ==
  ASSUME NEW p \in DecoderState, NEW q \in DecoderState, NEW given \in Nat, NEW room \in Nat,
         NEW done \in BOOLEAN, Promise(p, given, room, q, done),
         p.pos \in FrameEnds => p.sent = Decodable(p.pos)
  PROVE  /\ q.pos \in FrameEnds => q.sent = Decodable(q.pos)
         /\ done => q.pos \in FrameEnds
  <1> DEFINE end == FrameEnd(p.pos)
  <1>1. p.pos \in 0 .. Len(Text) /\ q.pos \in 0 .. Len(Text) /\ p.sent \in Nat /\ q.sent \in Nat
    BY DEF DecoderState
  <1>2. end \in Nat /\ end > p.pos /\ (end <= Len(Text) => end \in FrameEnds)
        /\ \A i \in FrameEnds : i > p.pos => end <= i
    BY <1>1, FrameEndLies
  <1>3. q.pos >= p.pos /\ q.sent >= p.sent /\ q.pos <= end
    <2>1. q.pos - p.pos \in 0 .. given /\ q.sent - p.sent \in 0 .. room /\ q.pos <= end
      BY DEF Promise
    <2> HIDE DEF end
    <2> QED BY <1>1, <2>1
  <1>4. (done <=> q.pos = end) /\ (q.pos = end => q.sent = Decodable(end))
    BY DEF Promise
  <1>5. ASSUME q.pos \in FrameEnds, q.pos # end PROVE q.sent = Decodable(q.pos)
    <2>1. q.pos = p.pos
      <3> HIDE DEF end
      <3> QED BY <1>1, <1>2, <1>3, <1>5
    <2>2. ~(q.pos + 1 = end /\ end <= Len(Text))
      <3>1. SUFFICES ASSUME q.pos + 1 = end, end <= Len(Text) PROVE FALSE
        OBVIOUS
      <3>2. end \in FrameEnds /\ end - 1 = q.pos
        <4> HIDE DEF end
        <4> QED BY <1>1, <1>2, <3>1
      <3> QED BY <1>5, <3>2, FrameAssumption
    <2>3. q.sent <= Decodable(q.pos)
      BY <2>2 DEF Promise
    <2>4. Decodable(q.pos) = p.sent
      BY <1>5, <2>1
    <2> QED BY <1>1, <1>3, <2>3, <2>4
  <1>6. done => q.pos \in FrameEnds
    <2> HIDE DEF end
    <2> QED BY <1>1, <1>2, <1>4
  <1> QED
    BY <1>4, <1>5, <1>6

LEMMA InitIInv == Init => IInv
  <1> SUFFICES ASSUME Init PROVE IInv
    OBVIOUS
  <1>1. Fresh \in DecoderState /\ Fresh.pos = 0 /\ Fresh.sent = 0 /\ ~Fresh.broken
    BY TextLength DEF Fresh, DecoderState
  <1>2. TypeOK
    <2>1. 0 \in 0 .. Len(Text) /\ 0 \in 0 .. BufSize /\ 0 \in 0 .. Fresh.sent
      BY <1>1, TextLength, StreamingDecompressAssumption
    <2> QED
      BY <1>1, <2>1 DEF Init, TypeOK, NoCall, Methods
  <1>3. Arguments /\ Locals /\ EndsDelivered /\ DoneAtEnd
    BY <1>1, TextLength DEF Init, Arguments, Locals, EndsDelivered, DoneAtEnd, Busy, NoCall
  <1>4. NoneLost /\ PlaceLostAtFrameEnd
    BY <1>1 DEF Init, NoneLost, PlaceLostAtFrameEnd, InStep, NoCall
  <1> QED
    BY <1>2, <1>3, <1>4 DEF IInv

LEMMA BeginIInv ==
  ASSUME IInv, NEW method \in Methods, NEW size \in Chunks, Begin(method, size)
  PROVE  IInv'
  <1>1. size \in Nat
    BY StreamingDecompressAssumption
  <1>2. /\ call = NoCall /\ at = decoder.pos /\ at + size <= Len(Text)
        /\ call' = [NoCall EXCEPT !.pc = "zstd", !.method = method, !.avail = size]
        /\ UNCHANGED <<decoder, at, delivered, raised>>
    BY DEF Begin, InStep, IInv, Locals
  <1>3. /\ call'.pc = "zstd" /\ call'.avail = size /\ call'.result = 0 /\ call'.pos = 0
        /\ ~call'.error
    BY <1>2 DEF NoCall
  <1>4. at \in Nat /\ size \in 0 .. Len(Text)
    BY <1>1, <1>2, TextLength DEF IInv, TypeOK
  <1>5. TypeOK'
    BY <1>2, <1>4, StreamingDecompressAssumption DEF IInv, TypeOK, NoCall
  <1>6. Arguments'
    <2>1. delivered + 0 + 0 <= decoder.sent
      BY DEF IInv, TypeOK, DecoderState
    <2> QED
      BY <1>2, <1>3, <2>1 DEF Arguments
  <1>7. Locals' /\ DoneAtEnd' /\ PlaceLostAtFrameEnd'
    BY <1>3 DEF Locals, DoneAtEnd, PlaceLostAtFrameEnd, Busy
  <1>8. EndsDelivered'
    BY <1>2 DEF IInv, EndsDelivered
  <1>9. NoneLost'
    BY <1>2, <1>3 DEF IInv, NoneLost, NoCall
  <1> QED
    BY <1>5, <1>6, <1>7, <1>8, <1>9 DEF IInv

LEMMA ZstdIInv == ASSUME IInv, Zstd PROVE IInv'
  <1>1. PICK read \in 0 .. call.avail, wrote \in 0 .. BufSize, done \in BOOLEAN :
          /\ decoder' = [decoder EXCEPT !.pos = @ + read, !.sent = @ + wrote]
          /\ Promise(decoder, call.avail, BufSize, decoder', done)
          /\ call' = [call EXCEPT !.pc = "back", !.avail = @ - read, !.pos = wrote, !.done = done]
    BY DEF Zstd
  <1>2. /\ decoder \in DecoderState /\ call.pc = "zstd" /\ call.pos = 0 /\ ~call.error
        /\ call.avail \in 0 .. Len(Text) /\ call.result \in Nat /\ BufSize \in Nat
        /\ delivered \in Nat /\ delivered <= decoder.sent
    BY StreamingDecompressAssumption DEF Zstd, IInv, TypeOK, Locals, DecoderState
  <1>3. /\ decoder'.pos = decoder.pos + read /\ decoder'.sent = decoder.sent + wrote
        /\ decoder'.broken = decoder.broken
    BY <1>1, <1>2 DEF DecoderState
  <1>4. /\ call'.pc = "back" /\ call'.avail = call.avail - read /\ call'.pos = wrote
        /\ call'.done = done /\ call'.result = call.result /\ call'.error = call.error
    BY <1>1 DEF IInv, TypeOK
  <1>5. read \in Nat /\ wrote \in Nat /\ read <= call.avail
    BY <1>2, TextLength
  <1>6. decoder.pos \in Nat /\ decoder.sent \in Nat /\ decoder.pos + call.avail <= Len(Text)
    BY <1>2 DEF IInv, Arguments, Busy, DecoderState
  <1>7. decoder' \in DecoderState
    <2>1. decoder.pos + read \in 0 .. Len(Text) /\ decoder.sent + wrote \in Nat
      BY <1>2, <1>5, <1>6, TextLength
    <2> QED
      BY <1>1, <1>2, <2>1 DEF DecoderState
  <1>8. TypeOK'
    <2>1. call.avail - read \in 0 .. Len(Text)
      BY <1>2, <1>5, TextLength
    <2>2. call' \in [pc : {"idle", "zstd", "back"}, method : Methods, avail : 0 .. Len(Text),
                     result : Nat, pos : 0 .. BufSize, done : BOOLEAN, error : BOOLEAN]
      BY <1>1, <2>1 DEF IInv, TypeOK
    <2>3. delivered \in 0 .. decoder'.sent
      BY <1>2, <1>3, <1>5, <1>6
    <2> QED
      BY <1>7, <2>2, <2>3 DEF Zstd, IInv, TypeOK
  <1>9. Arguments'
    <2>1. delivered + call.result + call.pos <= decoder.sent
      BY DEF IInv, Arguments
    <2>2. delivered + call.result + wrote <= decoder.sent + wrote
      BY <1>2, <1>5, <1>6, <2>1
    <2>3. decoder.pos + read + (call.avail - read) <= Len(Text)
      BY <1>2, <1>5, <1>6, TextLength
    <2> QED
      BY <1>3, <1>4, <2>2, <2>3 DEF Arguments, Zstd
  <1>10. EndsDelivered' /\ DoneAtEnd'
    <2>1. decoder.pos \in FrameEnds => decoder.sent = Decodable(decoder.pos)
      BY DEF IInv, EndsDelivered
    <2>2. call.avail \in Nat
      BY <1>2, TextLength
    <2>3. Promise(decoder, call.avail, BufSize, decoder', done)
      BY <1>1
    <2>4. /\ decoder'.pos \in FrameEnds => decoder'.sent = Decodable(decoder'.pos)
          /\ done => decoder'.pos \in FrameEnds
      BY <1>2, <1>7, <2>1, <2>2, <2>3, PromiseAtEnd
    <2> QED
      BY <1>4, <2>4 DEF EndsDelivered, DoneAtEnd
  <1>11. NoneLost'
    <2>1. ASSUME ~raised PROVE delivered + call.result + wrote = decoder.sent + wrote
      BY <1>2, <1>5, <1>6, <2>1 DEF IInv, NoneLost
    <2> QED
      BY <1>3, <1>4, <2>1 DEF NoneLost, Zstd
  <1>12. Locals' /\ PlaceLostAtFrameEnd'
    BY <1>4 DEF Locals, PlaceLostAtFrameEnd, Busy
  <1> QED
    BY <1>8, <1>9, <1>10, <1>11, <1>12 DEF IInv

LEMMA ZstdFailsIInv == ASSUME IInv, ZstdFails PROVE IInv'
  <1>1. /\ decoder' = [decoder EXCEPT !.broken = TRUE]
        /\ call' = [call EXCEPT !.pc = "back", !.pos = 0, !.error = TRUE]
        /\ UNCHANGED <<at, delivered, raised>> /\ call.pc = "zstd"
    BY DEF ZstdFails, Failure
  <1>2. /\ decoder'.pos = decoder.pos /\ decoder'.sent = decoder.sent
        /\ decoder' \in DecoderState
    BY <1>1 DEF IInv, TypeOK, DecoderState
  <1>3. /\ call'.pc = "back" /\ call'.avail = call.avail /\ call'.pos = call.pos
        /\ call'.result = call.result /\ call'.error
    BY <1>1 DEF IInv, TypeOK, Locals
  <1>4. TypeOK'
    <2>1. 0 \in 0 .. BufSize
      BY StreamingDecompressAssumption
    <2>2. call' \in [pc : {"idle", "zstd", "back"}, method : Methods, avail : 0 .. Len(Text),
                     result : Nat, pos : 0 .. BufSize, done : BOOLEAN, error : BOOLEAN]
      BY <1>1, <2>1 DEF IInv, TypeOK
    <2> QED
      BY <1>1, <1>2, <2>2 DEF IInv, TypeOK
  <1>5. Arguments' /\ Locals' /\ DoneAtEnd' /\ PlaceLostAtFrameEnd'
    BY <1>1, <1>2, <1>3
    DEF IInv, Arguments, Locals, DoneAtEnd, PlaceLostAtFrameEnd, Busy
  <1>6. EndsDelivered' /\ NoneLost'
    BY <1>1, <1>2, <1>3 DEF IInv, EndsDelivered, NoneLost
  <1> QED
    BY <1>4, <1>5, <1>6 DEF IInv

LEMMA RaiseIInv == ASSUME IInv, Raise PROVE IInv'
  <1>1. call' = NoCall /\ raised' /\ UNCHANGED <<decoder, at, delivered>>
    BY DEF Raise
  <1>2. TypeOK'
    BY <1>1, TextLength, StreamingDecompressAssumption DEF Raise, IInv, TypeOK, NoCall, Methods
  <1>3. Arguments'
    <2>1. delivered + 0 + 0 <= decoder.sent
      BY DEF IInv, TypeOK, DecoderState
    <2> QED
      BY <1>1, <2>1 DEF Arguments, Busy, NoCall
  <1>4. Locals' /\ DoneAtEnd' /\ EndsDelivered'
    BY <1>1 DEF IInv, Locals, DoneAtEnd, EndsDelivered, Busy, NoCall
  <1>5. NoneLost' /\ PlaceLostAtFrameEnd'
    BY <1>1 DEF NoneLost, PlaceLostAtFrameEnd
  <1> QED
    BY <1>2, <1>3, <1>4, <1>5 DEF IInv

(* The return of a method whose client goes on at next: where the decoder   *)
(* is, or, at the end of a frame, further on.                               *)
LEMMA ReturnIInv ==
  ASSUME IInv, NEW next \in 0 .. Len(Text), Return(next),
         next = decoder.pos \/ decoder.pos \in FrameEnds
  PROVE  IInv'
  <1>1. /\ call' = NoCall /\ delivered' = delivered + (call.result + call.pos) /\ at' = next
        /\ UNCHANGED <<decoder, raised>>
    BY DEF Return, Result
  <1>2. /\ delivered \in Nat /\ call.result \in Nat /\ call.pos \in Nat /\ decoder.sent \in Nat
        /\ delivered + call.result + call.pos <= decoder.sent
    BY StreamingDecompressAssumption DEF IInv, TypeOK, Arguments, DecoderState
  <1> DEFINE total == delivered + (call.result + call.pos)
  <1>3. total \in 0 .. decoder.sent /\ total + 0 + 0 <= decoder.sent
    BY <1>2
  <1>4. TypeOK'
    BY <1>1, <1>3, TextLength, StreamingDecompressAssumption DEF IInv, TypeOK, NoCall, Methods
  <1>5. Arguments'
    BY <1>1, <1>3 DEF Arguments, Busy, NoCall
  <1>6. Locals' /\ DoneAtEnd' /\ EndsDelivered'
    BY <1>1 DEF IInv, Locals, DoneAtEnd, EndsDelivered, Busy, NoCall
  <1>7. ~raised => total = decoder.sent /\ total + 0 + 0 = decoder.sent
    BY <1>2 DEF IInv, NoneLost
  <1>8. NoneLost'
    BY <1>1, <1>7 DEF NoneLost, NoCall
  <1>9. PlaceLostAtFrameEnd'
    BY <1>1, <1>7 DEF IInv, EndsDelivered, PlaceLostAtFrameEnd, InStep
  <1> QED
    BY <1>4, <1>5, <1>6, <1>8, <1>9 DEF IInv

LEMMA DecompressTurnIInv == ASSUME IInv, DecompressTurn PROVE IInv'
  <1>1. call.pc = "back" /\ ~call.error /\ call.avail \in Nat
    BY TextLength DEF DecompressTurn, Resumes, IInv, TypeOK
  <1>2. CASE /\ call' = [call EXCEPT !.pc = "zstd", !.result = Result, !.pos = 0]
             /\ UNCHANGED <<decoder, at, delivered, raised>>
    <2>1. /\ call'.pc = "zstd" /\ call'.avail = call.avail /\ call'.pos = 0
          /\ call'.result = call.result + call.pos /\ ~call'.error
      BY <1>1, <1>2 DEF IInv, TypeOK, Result
    <2>2. /\ delivered \in Nat /\ call.result \in Nat /\ call.pos \in Nat
          /\ decoder.sent \in Nat
      BY StreamingDecompressAssumption DEF IInv, TypeOK, DecoderState
    <2>3. call.result + call.pos \in Nat /\ 0 \in 0 .. BufSize
      BY <2>2, StreamingDecompressAssumption
    <2>4. TypeOK'
      BY <1>2, <2>3 DEF IInv, TypeOK, Result
    <2>5. delivered + (call.result + call.pos) + 0 = delivered + call.result + call.pos
      BY <2>2
    <2>6. Arguments' /\ NoneLost'
      BY <1>1, <1>2, <2>1, <2>5 DEF IInv, Arguments, NoneLost, Busy
    <2>7. Locals' /\ DoneAtEnd' /\ PlaceLostAtFrameEnd' /\ EndsDelivered'
      BY <1>2, <2>1 DEF IInv, Locals, DoneAtEnd, PlaceLostAtFrameEnd, EndsDelivered, Busy
    <2> QED
      BY <2>4, <2>6, <2>7 DEF IInv
  <1>3. CASE (~MoreInput \/ Breaks) /\ Return(decoder.pos + call.avail)
    <2>1. decoder.pos + call.avail \in 0 .. Len(Text)
      BY <1>1, TextLength DEF IInv, Arguments, Busy, TypeOK, DecoderState
    <2>2. ~MoreInput => decoder.pos + call.avail = decoder.pos
      BY <1>1 DEF MoreInput, IInv, TypeOK, DecoderState
    <2>3. Breaks => decoder.pos \in FrameEnds
      BY <1>1 DEF Breaks, IInv, DoneAtEnd
    <2> QED
      BY <1>3, <2>1, <2>2, <2>3, ReturnIInv
  <1> QED
    BY <1>2, <1>3 DEF DecompressTurn

LEMMA NextIInv == ASSUME IInv, [Next]_vars PROVE IInv'
  <1>1. CASE Decompress
    BY <1>1, BeginIInv DEF Decompress, Methods
  <1>2. CASE DecompressWithPos
    BY <1>2, BeginIInv DEF DecompressWithPos, Methods
  <1>3. CASE DecompressWithPosReturns
    <2>1. decoder.pos \in 0 .. Len(Text)
      BY DEF IInv, TypeOK, DecoderState
    <2> QED
      BY <1>3, <2>1, ReturnIInv DEF DecompressWithPosReturns
  <1>4. CASE Interrupt \/ RaiseError
    BY <1>4, RaiseIInv DEF Interrupt, RaiseError
  <1>5. CASE UNCHANGED vars
    BY <1>5
    DEF vars, IInv, TypeOK, Arguments, Locals, EndsDelivered, DoneAtEnd, NoneLost,
        PlaceLostAtFrameEnd, InStep, Busy
  <1> QED
    BY <1>1, <1>2, <1>3, <1>4, <1>5, ZstdIInv, ZstdFailsIInv, DecompressTurnIInv DEF Next, Step

LEMMA Inductive == Spec => []IInv
  BY InitIInv, NextIInv, PTL DEF Spec

(* All variables keep their types, and a client never has more content than *)
(* the library has given up.                                                *)
THEOREM TypeCorrect == Spec => []TypeOK
  <1>1. IInv => TypeOK
    BY DEF IInv
  <1> QED
    BY <1>1, Inductive, PTL

(* Every byte that the library has given up is with the client or in the    *)
(* result of the method in progress, until a method has raised.             *)
THEOREM NothingIsLost == Spec => []NoneLost
  <1>1. IInv => NoneLost
    BY DEF IInv
  <1> QED
    BY <1>1, Inductive, PTL

(* At the end of a frame a client that has kept its place has all of its    *)
(* content, wherever it has cut the text and whichever methods it has used. *)
THEOREM AllFramesDelivered == Spec => []FramesDelivered
  <1>1. IInv => FramesDelivered
    <2> SUFFICES ASSUME IInv, ~Busy, ~raised, InStep, at \in FrameEnds
                 PROVE  delivered = Decodable(at)
      BY DEF FramesDelivered
    <2>1. decoder.sent = Decodable(at)
      BY DEF IInv, EndsDelivered, InStep
    <2>2. call.result = 0 /\ call.pos = 0
      BY DEF IInv, Locals, NoCall
    <2>3. delivered + call.result + call.pos = decoder.sent /\ delivered \in Nat
      BY DEF IInv, NoneLost, TypeOK
    <2> QED
      BY <2>1, <2>2, <2>3
  <1> QED
    BY <1>1, Inductive, PTL

(* decompress() leaves input behind at the end of a frame only, and nothing *)
(* of that frame is left in the context.                                    *)
THEOREM PlaceIsLostAtFrameEnd == Spec => []PlaceLostAtFrameEnd
  <1>1. IInv => PlaceLostAtFrameEnd
    BY DEF IInv
  <1> QED
    BY <1>1, Inductive, PTL
=============================================================================

------------------------- MODULE StreamingCompress --------------------------
(***************************************************************************)
(* Zstd::StreamingCompress of streaming_compress.c: the Ruby object around *)
(* a compression context, its output buffer sc->buf and the sc->pending    *)
(* string that write() and << fill.  Every call of the library releases    *)
(* the GVL, so each method is cut into the steps between two releases: its *)
(* entry, the work of the library (Zstd), and a turn of its loop when the  *)
(* thread has the GVL again.  At either end of a release Ruby may deliver  *)
(* an exception (Thread#raise, Thread#kill, Timeout) into the method.      *)
(*                                                                         *)
(* Compressed bytes are numbered in the order the context wrote them, so a *)
(* string is a sequence of numbers and the frame that a client gets is     *)
(* right exactly when it reads 1, 2, 3, ...                                *)
(***************************************************************************)
EXTENDS CompressContract, Sequences, SequencesExt

CONSTANTS
  Threads,      \* Ruby threads that use the object
  Serialized,   \* TRUE: the client wraps every call in one Mutex
  BufSize,      \* sc->buf_size
  Arguments,    \* what write() is called with: the sizes of its strings
  MaxEmitted    \* bound: after so many bytes an open frame can only be drained

ASSUME StreamingCompressAssumption ==
  /\ Serialized \in BOOLEAN
  /\ BufSize \in Nat \ {0}
  /\ Arguments \subseteq Seq(Nat \ {0})
  /\ MaxEmitted \in Nat

VARIABLES
  pipe,      \* sc->ctx between two calls of the library
  buf,       \* the bytes of sc->buf
  pending,   \* sc->pending
  call,      \* per thread, the local variables of the method it is in
  stream,    \* what the client has been given, one string after the other
  emitted,   \* how many bytes the context has written to sc->buf so far
  mixed,     \* compress() was called while sc->pending held bytes
  raised     \* a method has ended in an exception

vars == <<pipe, buf, pending, call, stream, emitted, mixed, raised>>

Methods == {"compress", "write", "flush", "finish"}

EndOp(method) == CASE method \in {"compress", "write"} -> "e_continue"
                   [] method = "flush"  -> "e_flush"
                   [] method = "finish" -> "e_end"

\* pc: "idle"; "zstd", in the library and without the GVL; "back", about to
\* take the GVL again.  avail is input.size - input.pos, rest the arguments of
\* write() still to come, pos is output.pos and ret what the library returned.
NoCall == [pc |-> "idle", method |-> "flush", avail |-> 0, rest |-> <<>>,
           result |-> <<>>, pos |-> 0, ret |-> 0, error |-> FALSE]

\* Not the code: initialize() without its rb_str_new() for sc->buf.
InitWithoutBuf ==
  /\ pipe = EmptyPipe /\ buf = <<>> /\ pending = <<>> /\ stream = <<>>
  /\ call = [t \in Threads |-> NoCall]
  /\ emitted = 0 /\ mixed = FALSE /\ raised = FALSE

Init ==
  /\ pipe = EmptyPipe
  /\ buf = [i \in 1 .. BufSize |-> 0]
  /\ pending = <<>>
  /\ call = [t \in Threads |-> NoCall]
  /\ stream = <<>>
  /\ emitted = 0
  /\ mixed = FALSE
  /\ raised = FALSE

Busy(t) == call[t].pc # "idle"

Begin(t, method, args) ==
  /\ ~Busy(t)
  /\ Serialized => \A u \in Threads : ~Busy(u)
  /\ emitted < MaxEmitted \/ (args = <<>> /\ pipe.open)
  /\ call' = [call EXCEPT ![t] =
                [NoCall EXCEPT !.pc = "zstd", !.method = method,
                               !.avail = IF args = <<>> THEN 0 ELSE Head(args),
                               !.rest = IF args = <<>> THEN <<>> ELSE Tail(args)]]
  /\ mixed' = (mixed \/ (method = "compress" /\ pending # <<>>))
  /\ UNCHANGED <<pipe, buf, pending, stream, emitted, raised>>

\* A string that is empty never reaches the library.
Compress(t) == \E args \in Arguments : Len(args) = 1 /\ Begin(t, "compress", args)
Write(t)    == \E args \in Arguments : Len(args) > 0 /\ Begin(t, "write", args)
Flush(t)    == Begin(t, "flush", <<>>)
Finish(t)   == Begin(t, "finish", <<>>)

\* zstd_stream_compress(): one call of the library, which fills sc->buf from
\* its first byte.
Zstd(t) ==
  LET c == call[t]
  IN  /\ c.pc = "zstd"
      /\ pipe' \in PipeState
      /\ \E read \in 0 .. c.avail, wrote \in 0 .. BufSize :
           /\ Promise(pipe, EndOp(c.method), c.avail, BufSize, pipe', read, wrote)
           /\ buf' = [i \in 1 .. BufSize |-> IF i <= wrote THEN emitted + i ELSE buf[i]]
           /\ emitted' = emitted + wrote
           /\ call' = [call EXCEPT ![t] = [c EXCEPT !.pc = "back", !.avail = @ - read,
                                                    !.pos = wrote, !.ret = pipe'.unsent]]
      /\ UNCHANGED <<pending, stream, mixed, raised>>

ZstdFails(t) ==
  LET c == call[t]
  IN  /\ c.pc = "zstd"
      /\ pipe' \in PipeState
      /\ Failure(pipe, EndOp(c.method), c.avail, pipe')
      /\ call' = [call EXCEPT ![t].pc = "back", ![t].pos = 0, ![t].error = TRUE]
      /\ UNCHANGED <<buf, pending, stream, emitted, mixed, raised>>

\* Not the code: an error path that also resets sc->pending.
RaiseAndReset(t) ==
  /\ call' = [call EXCEPT ![t] = NoCall]
  /\ pending' = <<>>
  /\ raised' = TRUE
  /\ UNCHANGED <<pipe, buf, stream, emitted, mixed>>

\* The method ends in an exception; its local variables go with it.
Raise(t) ==
  /\ call' = [call EXCEPT ![t] = NoCall]
  /\ raised' = TRUE
  /\ UNCHANGED <<pipe, buf, pending, stream, emitted, mixed>>

Interrupt(t)  == Busy(t) /\ Raise(t)
RaiseError(t) == call[t].pc = "back" /\ call[t].error /\ Raise(t)

Resumes(t, methods) == call[t].pc = "back" /\ ~call[t].error /\ call[t].method \in methods

\* Not the code: "output.pos > 1" for "output.pos > 0".
OutputOfSeveral(t) == IF call[t].pos > 1 THEN SubSeq(buf, 1, call[t].pos) ELSE <<>>

Output(t) == SubSeq(buf, 1, call[t].pos)

\* Not the code: "input.pos <= input.size".
MoreInputOrNone(c) == c.avail >= 0

\* The loops of compress() and write(): "input.pos < input.size".
MoreInput(c) == c.avail > 0

\* Not the code: one call of the library, whatever it returns.
DrainedAtOnce(c) == c.ret >= 0

\* The loop of no_compress(): "while (ret > 0)".
Drained(c) == c.ret = 0

\* Not the code: what is drained now in front of what was pending.
OutBackwards(drained) == drained \o pending

\* The string that flush() and finish() return.
Out(drained) == pending \o drained

Loop(t, c) == call' = [call EXCEPT ![t] = [c EXCEPT !.pc = "zstd"]]

CompressTurn(t) ==
  LET c == call[t]
      result == c.result \o Output(t)
  IN  /\ Resumes(t, {"compress"})
      /\ \/ MoreInput(c) /\ Loop(t, [c EXCEPT !.result = result]) /\ UNCHANGED stream
         \/ ~MoreInput(c) /\ call' = [call EXCEPT ![t] = NoCall] /\ stream' = stream \o result
      /\ UNCHANGED <<pipe, buf, pending, emitted, mixed, raised>>

WriteTurn(t) ==
  LET c == call[t]
  IN  /\ Resumes(t, {"write"})
      /\ pending' = pending \o Output(t)
      /\ \/ MoreInput(c) /\ Loop(t, c)
         \/ ~MoreInput(c) /\ c.rest # <<>> /\ Loop(t, [c EXCEPT !.avail = Head(c.rest),
                                                              !.rest = Tail(c.rest)])
         \/ ~MoreInput(c) /\ c.rest = <<>> /\ call' = [call EXCEPT ![t] = NoCall]
      /\ UNCHANGED <<pipe, buf, stream, emitted, mixed, raised>>

\* no_compress(), then the tail of flush() and finish(): what write() has
\* accumulated goes first, and is dropped only now.
DrainTurn(t) ==
  LET c == call[t]
      drained == c.result \o Output(t)
  IN  /\ Resumes(t, {"flush", "finish"})
      /\ \/ ~Drained(c) /\ Loop(t, [c EXCEPT !.result = drained]) /\ UNCHANGED <<pending, stream>>
         \/ /\ Drained(c)
            /\ call' = [call EXCEPT ![t] = NoCall]
            /\ stream' = stream \o Out(drained)
            /\ pending' = <<>>
      /\ UNCHANGED <<pipe, buf, emitted, mixed, raised>>

Step(t) ==
  \/ Zstd(t) \/ ZstdFails(t)
  \/ CompressTurn(t) \/ WriteTurn(t) \/ DrainTurn(t) \/ RaiseError(t)

Next == \E t \in Threads :
  \/ Compress(t) \/ Write(t) \/ Flush(t) \/ Finish(t)
  \/ Step(t)
  \/ Interrupt(t)

Spec == Init /\ [][Next]_vars

\* The library returns, and a thread that waits for the GVL gets it.
FairSpec == Spec /\ \A t \in Threads : WF_vars(Step(t))
-----------------------------------------------------------------------------
TypeOK ==
  /\ pipe \in PipeState
  /\ buf \in [1 .. BufSize -> Nat]
  /\ pending \in Seq(Nat) /\ stream \in Seq(Nat)
  /\ call \in [Threads ->
       [pc : {"idle", "zstd", "back"}, method : Methods, avail : Nat, rest : Seq(Nat),
        result : Seq(Nat), pos : 0 .. BufSize, ret : 0 .. MaxUnsent, error : BOOLEAN]]
  /\ emitted \in Nat
  /\ mixed \in BOOLEAN /\ raised \in BOOLEAN

\* The bytes of sc->buf that thread t has yet to copy out.
Uncopied(t) == IF call[t].pc = "back" THEN Output(t) ELSE <<>>

\* Everything on its way to the client, in the order in which it will be read,
\* while no thread but t is in a method.
Delivery(t) == stream \o pending \o call[t].result \o Uncopied(t)

Alone(t) == \A u \in Threads \ {t} : ~Busy(u)

(* Strings reach the client in the order in which the context wrote them,   *)
(* for any sequence of calls and exceptions, as long as compress() is not   *)
(* called while write() has bytes pending: those would be overtaken.        *)
InOrder ==
  Serialized /\ ~mixed => \A t \in Threads :
    LET d == Delivery(t)
    IN  Alone(t) => \A i, j \in DOMAIN d : i < j => d[i] < d[j]

(* As long as no method has raised, every byte the context wrote is with    *)
(* the client or on its way, once, even where the order is lost.            *)
NoneLost ==
  Serialized /\ ~raised => \A t \in Threads :
    Alone(t) => /\ Len(Delivery(t)) = emitted
                /\ ToSet(Delivery(t)) = 1 .. emitted

(* Together: the client gets what the context wrote, in order and whole.    *)
FrameReachesClient == InOrder /\ NoneLost

(* flush() and finish() return only when the context, sc->buf and           *)
(* sc->pending have nothing left, and finish() only with the frame closed,  *)
(* whatever was interrupted before.                                         *)
DrainReturnsAll ==
  [][\A t \in Threads :
       Serialized /\ DrainTurn(t) /\ call'[t].pc = "idle" =>
         /\ pipe.held = 0 /\ pipe.unsent = 0
         /\ pending' = <<>>
         /\ call[t].method = "finish" => ~pipe.open]_vars

(* sc->pending survives exceptions: it only grows at its end, until all of  *)
(* it goes to the client in one step.                                       *)
PendingReachesClient ==
  [][\/ IsPrefix(pending, pending')
     \/ pending' = <<>> /\ IsPrefix(stream \o pending, stream')]_vars

(* Every method returns or raises: no loop of streaming_compress.c can spin *)
(* on a library call that neither reads nor writes.                         *)
MethodsReturn == \A t \in Threads : Busy(t) ~> ~Busy(t)

(* zstd.h:723, "For parallel execution, use one separate ZSTD_CStream per   *)
(* thread": no two threads are inside one context.                          *)
OneThreadInContext ==
  \A t, u \in Threads : call[t].pc = "zstd" /\ call[u].pc = "zstd" => t = u

(* zstd.h:813-814, "after a ZSTD_e_end directive, if internal buffer is not *)
(* fully flushed, only ZSTD_e_end or ZSTD_e_flush operations are allowed".  *)
ClosingIsFinished ==
  \A t \in Threads : call[t].pc = "zstd" /\ pipe.closing => EndOp(call[t].method) # "e_continue"
=============================================================================

---------------------- MODULE StreamingCompressProofs ----------------------
(***************************************************************************)
(* Theorems about StreamingCompress for every number of threads, every     *)
(* size of the output buffer and all strings that a client may pass.       *)
(***************************************************************************)
EXTENDS StreamingCompress, SequenceTheorems, TLAPS

(* Strings of numbered bytes.                                               *)
Ascending(s) == \A i, j \in DOMAIN s : i < j => s[i] < s[j]
UpTo(s, n)   == \A i \in DOMAIN s : s[i] <= n

LEMMA EmptyString == <<>> \in Seq(Nat) /\ Len(<<>>) = 0 /\ Ascending(<<>>) /\ ToSet(<<>>) = {}
  BY EmptySeq DEF Ascending, ToSet

LEMMA ConcatDomain ==
  ASSUME NEW s \in Seq(Nat), NEW u \in Seq(Nat)
  PROVE  /\ s \o u \in Seq(Nat)
         /\ Len(s \o u) = Len(s) + Len(u) /\ Len(s) \in Nat /\ Len(u) \in Nat
         /\ DOMAIN s = 1 .. Len(s) /\ DOMAIN u = 1 .. Len(u)
         /\ DOMAIN (s \o u) = 1 .. Len(s) + Len(u)
         /\ \A i \in 1 .. Len(s) : (s \o u)[i] = s[i]
         /\ \A i \in 1 .. Len(u) : (s \o u)[Len(s) + i] = u[i]
  BY ConcatProperties, LenProperties

\* Every place of the concatenation is one of its parts.
LEMMA ConcatPlaces ==
  ASSUME NEW s \in Seq(Nat), NEW u \in Seq(Nat), NEW k \in DOMAIN (s \o u)
  PROVE  \/ k \in DOMAIN s /\ (s \o u)[k] = s[k]
         \/ k - Len(s) \in DOMAIN u /\ (s \o u)[k] = u[k - Len(s)] /\ k > Len(s)
  <1>1. k \in 1 .. Len(s) + Len(u) /\ Len(s) \in Nat /\ Len(u) \in Nat
    BY ConcatDomain
  <1>2. CASE k <= Len(s)
    BY <1>1, <1>2, ConcatDomain
  <1>3. CASE k > Len(s)
    BY <1>1, <1>3, ConcatProperties, ConcatDomain
  <1> QED
    BY <1>1, <1>2, <1>3

LEMMA ConcatSet ==
  ASSUME NEW s \in Seq(Nat), NEW u \in Seq(Nat)
  PROVE  ToSet(s \o u) = ToSet(s) \cup ToSet(u)
  <1>1. ASSUME NEW k \in DOMAIN (s \o u) PROVE (s \o u)[k] \in ToSet(s) \cup ToSet(u)
    BY ConcatPlaces DEF ToSet
  <1>2. ASSUME NEW k \in DOMAIN s PROVE k \in DOMAIN (s \o u) /\ (s \o u)[k] = s[k]
    BY ConcatDomain
  <1>3. ASSUME NEW k \in DOMAIN u
        PROVE  Len(s) + k \in DOMAIN (s \o u) /\ (s \o u)[Len(s) + k] = u[k]
    BY ConcatDomain
  <1>4. ToSet(s \o u) \subseteq ToSet(s) \cup ToSet(u)
    BY <1>1 DEF ToSet
  <1>5. ToSet(s) \subseteq ToSet(s \o u)
    BY <1>2 DEF ToSet
  <1>6. ToSet(u) \subseteq ToSet(s \o u)
    BY <1>3 DEF ToSet
  <1> QED
    BY <1>4, <1>5, <1>6

\* What is put behind a string in order has to lie above it.
LEMMA ConcatAscending ==
  ASSUME NEW s \in Seq(Nat), NEW u \in Seq(Nat), NEW n \in Nat,
         Ascending(s), UpTo(s, n), Ascending(u), \A i \in DOMAIN u : u[i] > n
  PROVE  Ascending(s \o u)
  <1> SUFFICES ASSUME NEW i \in DOMAIN (s \o u), NEW j \in DOMAIN (s \o u), i < j
               PROVE  (s \o u)[i] < (s \o u)[j]
    BY DEF Ascending
  <1>1. Len(s) \in Nat /\ i \in Nat /\ j \in Nat
    BY ConcatDomain
  <1>2. CASE j \in DOMAIN s
    <2>1. i \in DOMAIN s /\ (s \o u)[i] = s[i] /\ (s \o u)[j] = s[j]
      BY <1>1, <1>2, ConcatDomain
    <2> QED
      BY <2>1, <1>2 DEF Ascending
  <1>3. CASE j \notin DOMAIN s /\ i \in DOMAIN s
    <2>1. (s \o u)[i] = s[i] /\ s[i] <= n /\ s[i] \in Nat
      BY <1>3, ConcatDomain, ElementOfSeq DEF UpTo
    <2>2. j - Len(s) \in DOMAIN u /\ (s \o u)[j] = u[j - Len(s)]
      BY <1>3, ConcatPlaces
    <2>3. u[j - Len(s)] > n /\ u[j - Len(s)] \in Nat
      BY <2>2, ConcatDomain, ElementOfSeq
    <2> QED
      BY <2>1, <2>2, <2>3
  <1>4. CASE j \notin DOMAIN s /\ i \notin DOMAIN s
    <2>1. /\ i - Len(s) \in DOMAIN u /\ (s \o u)[i] = u[i - Len(s)]
          /\ j - Len(s) \in DOMAIN u /\ (s \o u)[j] = u[j - Len(s)]
      BY <1>4, ConcatPlaces
    <2>2. i - Len(s) < j - Len(s)
      BY <1>1
    <2> QED
      BY <2>1, <2>2 DEF Ascending
  <1> QED
    BY <1>2, <1>3, <1>4

\* What is left when the end of a string is lost.
LEMMA PrefixAscending ==
  ASSUME NEW s \in Seq(Nat), NEW u \in Seq(Nat), NEW n \in Nat
  PROVE  /\ Ascending(s \o u) => Ascending(s)
         /\ UpTo(s \o u, n) => UpTo(s, n)
  <1>1. DOMAIN s \subseteq DOMAIN (s \o u) /\ \A k \in DOMAIN s : (s \o u)[k] = s[k]
    BY ConcatDomain
  <1> QED
    BY <1>1 DEF Ascending, UpTo

LEMMA ConcatUpTo ==
  ASSUME NEW s \in Seq(Nat), NEW u \in Seq(Nat), NEW n \in Nat, UpTo(s, n), UpTo(u, n)
  PROVE  UpTo(s \o u, n)
  BY ConcatPlaces DEF UpTo

LEMMA ConcatIsPrefix ==
  ASSUME NEW s \in Seq(Nat), NEW u \in Seq(Nat)
  PROVE  IsPrefix(s, s \o u)
  <1>1. /\ Len(s) \in Nat /\ Len(s) <= Len(s \o u)
        /\ \A i \in 1 .. Len(s) : s[i] \in Nat /\ (s \o u)[i] \in Nat /\ (s \o u)[i] = s[i]
    BY ConcatDomain, ElementOfSeq
  <1> DEFINE a == SubSeq(s, 1, Len(s))
             b == SubSeq(s \o u, 1, Len(s))
  <1>2. a \in Seq(Nat) /\ Len(a) = Len(s) /\ \A i \in 1 .. Len(s) : a[i] = s[1 + i - 1]
    BY <1>1, SubSeqProperties
  <1>3. b \in Seq(Nat) /\ Len(b) = Len(s) /\ \A i \in 1 .. Len(s) : b[i] = (s \o u)[1 + i - 1]
    BY <1>1, SubSeqProperties
  <1>4. \A i \in 1 .. Len(s) : a[i] = b[i]
    BY <1>1, <1>2, <1>3
  <1>5. a = b
    BY <1>2, <1>3, <1>4, SeqEqual
  <1> QED
    BY <1>1, <1>5 DEF IsPrefix
-----------------------------------------------------------------------------
Calls == [pc : {"idle", "zstd", "back"}, method : Methods, avail : Nat, rest : Seq(Nat),
          result : Seq(Nat), pos : 0 .. BufSize, ret : 0 .. MaxUnsent, error : BOOLEAN]

LEMMA NoCallIsCall == NoCall \in Calls
  BY StreamingCompressAssumption, ContractAssumption, EmptyString DEF NoCall, Calls, Methods

LEMMA CallIsCall ==
  ASSUME TypeOK, NEW t \in Threads
  PROVE  /\ call[t] \in Calls
         /\ \A r \in Calls : [call EXCEPT ![t] = r] \in [Threads -> Calls]
  BY DEF TypeOK, Calls

\* What a thread copies out of sc->buf.
LEMMA OutputIs ==
  ASSUME TypeOK, NEW t \in Threads
  PROVE  /\ Output(t) \in Seq(Nat)
         /\ Len(Output(t)) = call[t].pos /\ call[t].pos \in 0 .. BufSize
         /\ \A i \in 1 .. call[t].pos : Output(t)[i] = buf[i]
  <1>1. call[t].pos \in 0 .. BufSize /\ BufSize \in Nat
    BY CallIsCall, StreamingCompressAssumption DEF Calls
  <1>2. \A i \in 1 .. call[t].pos : buf[i] \in Nat
    BY <1>1 DEF TypeOK
  <1> DEFINE n == call[t].pos
  <1>3. n \in Int /\ n \in 0 .. BufSize /\ \A i \in 1 .. n : buf[i] \in Nat
    BY <1>1, <1>2
  <1> HIDE DEF n
  <1>4. /\ SubSeq(buf, 1, n) \in Seq(Nat)
        /\ Len(SubSeq(buf, 1, n)) = n
        /\ \A i \in 1 .. n : SubSeq(buf, 1, n)[i] = buf[i]
    <2>1. /\ SubSeq(buf, 1, n) \in Seq(Nat)
          /\ Len(SubSeq(buf, 1, n)) = IF 1 <= n THEN n - 1 + 1 ELSE 0
          /\ \A i \in 1 .. n - 1 + 1 : SubSeq(buf, 1, n)[i] = buf[1 + i - 1]
      BY <1>3, SubSeqProperties
    <2> QED
      BY <2>1, <1>3, <1>1
  <1> QED
    BY <1>3, <1>4 DEF Output, n

LEMMA BeginTypeOK ==
  ASSUME TypeOK, NEW t \in Threads, NEW method \in Methods,
         NEW args \in Arguments \cup {<<>>}, Begin(t, method, args)
  PROVE  TypeOK'
  <1>1. args \in Seq(Nat)
    BY StreamingCompressAssumption, SeqMonotonic, EmptyString
  <1> DEFINE avail == IF args = <<>> THEN 0 ELSE Head(args)
             rest  == IF args = <<>> THEN <<>> ELSE Tail(args)
  <1>2. avail \in Nat /\ rest \in Seq(Nat)
    BY <1>1, HeadTailProperties, EmptyString
  <1>3. call' = [call EXCEPT ![t] = [NoCall EXCEPT !.pc = "zstd", !.method = method, !.avail = avail, !.rest = rest]]
    BY DEF Begin
  <1> HIDE DEF avail, rest
  <1>4. [NoCall EXCEPT !.pc = "zstd", !.method = method, !.avail = avail, !.rest = rest] \in Calls
    BY <1>2, NoCallIsCall DEF Calls
  <1>5. call' \in [Threads -> Calls]
    BY <1>3, <1>4, CallIsCall
  <1>6. mixed' \in BOOLEAN
    BY DEF Begin, TypeOK
  <1> QED
    BY <1>5, <1>6 DEF Begin, TypeOK, Calls

LEMMA ZstdTypeOK ==
  ASSUME TypeOK, NEW t \in Threads, Zstd(t)
  PROVE  TypeOK'
  <1> DEFINE c == call[t]
  <1>1. c \in Calls
    BY CallIsCall
  <1>2. PICK read \in 0 .. c.avail, wrote \in 0 .. BufSize :
          /\ buf' = [i \in 1 .. BufSize |-> IF i <= wrote THEN emitted + i ELSE buf[i]]
          /\ emitted' = emitted + wrote
          /\ call' = [call EXCEPT ![t] = [c EXCEPT !.pc = "back", !.avail = @ - read, !.pos = wrote, !.ret = pipe'.unsent]]
    BY DEF Zstd
  <1>3. buf' \in [1 .. BufSize -> Nat] /\ emitted' \in Nat
    <2>1. emitted \in Nat /\ wrote \in Nat /\ buf \in [1 .. BufSize -> Nat]
      BY StreamingCompressAssumption DEF TypeOK
    <2>2. \A i \in 1 .. BufSize : (IF i <= wrote THEN emitted + i ELSE buf[i]) \in Nat
      BY <2>1
    <2> QED
      BY <2>1, <2>2, <1>2
  <1>4. pipe' \in PipeState /\ pipe'.unsent \in 0 .. MaxUnsent
    BY DEF Zstd, PipeState
  <1>5. c.avail \in Nat /\ c.avail - read \in Nat
    BY <1>1 DEF Calls
  <1> DEFINE left == c.avail - read
  <1>6. call' = [call EXCEPT ![t] = [c EXCEPT !.pc = "back", !.avail = left, !.pos = wrote, !.ret = pipe'.unsent]]
    BY <1>2
  <1>7. left \in Nat
    BY <1>5
  <1> HIDE DEF c, left
  <1>8. [c EXCEPT !.pc = "back", !.avail = left, !.pos = wrote, !.ret = pipe'.unsent] \in Calls
    BY <1>1, <1>4, <1>7 DEF Calls
  <1>9. call' \in [Threads -> Calls]
    BY <1>6, <1>8, CallIsCall
  <1> QED
    BY <1>3, <1>4, <1>9 DEF Zstd, TypeOK, Calls

LEMMA ZstdFailsTypeOK ==
  ASSUME TypeOK, NEW t \in Threads, ZstdFails(t)
  PROVE  TypeOK'
  <1>1. call' = [call EXCEPT ![t] = [call[t] EXCEPT !.pc = "back", !.pos = 0, !.error = TRUE]]
    BY CallIsCall DEF ZstdFails, Calls, TypeOK
  <1> DEFINE c == call[t]
  <1>2. [c EXCEPT !.pc = "back", !.pos = 0, !.error = TRUE] \in Calls
    <2>1. c \in Calls /\ 0 \in 0 .. BufSize
      BY CallIsCall, StreamingCompressAssumption
    <2> HIDE DEF c
    <2> QED
      BY <2>1 DEF Calls
  <1>3. call' \in [Threads -> Calls]
    BY <1>1, <1>2, CallIsCall
  <1> QED
    BY <1>3 DEF ZstdFails, TypeOK, Calls

LEMMA RaiseTypeOK ==
  ASSUME TypeOK, NEW t \in Threads, Raise(t)
  PROVE  TypeOK'
  <1>1. call' \in [Threads -> Calls]
    BY NoCallIsCall, CallIsCall DEF Raise
  <1> QED
    BY <1>1 DEF Raise, TypeOK, Calls

\* What a turn of a loop leaves in the method's variables.
LEMMA LoopIsCall ==
  ASSUME NEW c \in Calls, NEW result \in Seq(Nat)
  PROVE  [[c EXCEPT !.result = result] EXCEPT !.pc = "zstd"] \in Calls
  BY DEF Calls

LEMMA CompressTurnTypeOK ==
  ASSUME TypeOK, NEW t \in Threads, CompressTurn(t)
  PROVE  TypeOK'
  <1> DEFINE result == call[t].result \o Output(t)
  <1>1. result \in Seq(Nat)
    BY CallIsCall, OutputIs, ConcatProperties DEF Calls
  <1>2. \/ Loop(t, [call[t] EXCEPT !.result = result]) /\ UNCHANGED stream
        \/ call' = [call EXCEPT ![t] = NoCall] /\ stream' = stream \o result
    BY DEF CompressTurn
  <1> HIDE DEF result
  <1>3. call' \in [Threads -> Calls]
    <2>1. [[call[t] EXCEPT !.result = result] EXCEPT !.pc = "zstd"] \in Calls
      BY <1>1, CallIsCall, LoopIsCall
    <2> QED
      BY <1>2, <2>1, NoCallIsCall, CallIsCall DEF Loop
  <1>4. stream' \in Seq(Nat)
    <2>1. stream \in Seq(Nat) /\ stream \o result \in Seq(Nat)
      BY <1>1, ConcatProperties DEF TypeOK
    <2> QED
      BY <1>2, <2>1
  <1> QED
    BY <1>3, <1>4 DEF CompressTurn, TypeOK, Calls

LEMMA WriteTurnTypeOK ==
  ASSUME TypeOK, NEW t \in Threads, WriteTurn(t)
  PROVE  TypeOK'
  <1> DEFINE c == call[t]
  <1>1. c \in Calls
    BY CallIsCall
  <1>2. pending' \in Seq(Nat)
    BY OutputIs, ConcatProperties DEF WriteTurn, TypeOK
  <1>3. call' \in [Threads -> Calls]
    <2>1. CASE Loop(t, c)
      <3>1. [c EXCEPT !.pc = "zstd"] \in Calls
        BY <1>1 DEF Calls
      <3> QED
        BY <3>1, <2>1, CallIsCall DEF Loop
    <2>2. CASE c.rest # <<>> /\ Loop(t, [c EXCEPT !.avail = Head(c.rest), !.rest = Tail(c.rest)])
      <3>1. Head(c.rest) \in Nat /\ Tail(c.rest) \in Seq(Nat)
        BY <1>1, <2>2, HeadTailProperties DEF Calls
      <3>2. [[c EXCEPT !.avail = Head(c.rest), !.rest = Tail(c.rest)] EXCEPT !.pc = "zstd"] \in Calls
        BY <1>1, <3>1 DEF Calls
      <3> QED
        BY <3>2, <2>2, CallIsCall DEF Loop
    <2>3. CASE call' = [call EXCEPT ![t] = NoCall]
      BY <2>3, NoCallIsCall, CallIsCall
    <2> QED
      BY <2>1, <2>2, <2>3 DEF WriteTurn
  <1> QED
    BY <1>2, <1>3 DEF WriteTurn, TypeOK, Calls

LEMMA DrainTurnTypeOK ==
  ASSUME TypeOK, NEW t \in Threads, DrainTurn(t)
  PROVE  TypeOK'
  <1> DEFINE drained == call[t].result \o Output(t)
  <1>1. drained \in Seq(Nat) /\ pending \in Seq(Nat) /\ <<>> \in Seq(Nat)
    BY CallIsCall, OutputIs, ConcatProperties, EmptyString DEF Calls, TypeOK
  <1>2. \/ Loop(t, [call[t] EXCEPT !.result = drained]) /\ UNCHANGED <<pending, stream>>
        \/ call' = [call EXCEPT ![t] = NoCall] /\ stream' = stream \o (pending \o drained) /\ pending' = <<>>
    BY DEF DrainTurn, Out
  <1> HIDE DEF drained
  <1>3. call' \in [Threads -> Calls]
    <2>1. [[call[t] EXCEPT !.result = drained] EXCEPT !.pc = "zstd"] \in Calls
      BY <1>1, CallIsCall, LoopIsCall
    <2> QED
      BY <1>2, <2>1, NoCallIsCall, CallIsCall DEF Loop
  <1>4. stream' \in Seq(Nat) /\ pending' \in Seq(Nat)
    <2>1. stream \in Seq(Nat) /\ pending \o drained \in Seq(Nat)
      BY <1>1, ConcatProperties DEF TypeOK
    <2>2. stream \o (pending \o drained) \in Seq(Nat)
      BY <2>1, ConcatProperties
    <2> QED
      BY <1>1, <1>2, <2>1, <2>2
  <1> QED
    BY <1>3, <1>4 DEF DrainTurn, TypeOK, Calls

\* The entries of the four methods.
LEMMA Entries ==
  ASSUME NEW t \in Threads, Compress(t) \/ Write(t) \/ Flush(t) \/ Finish(t)
  PROVE  \E method \in Methods, args \in Arguments \cup {<<>>} : Begin(t, method, args)
  BY DEF Compress, Write, Flush, Finish, Methods

LEMMA NextTypeOK == ASSUME TypeOK, [Next]_vars PROVE TypeOK'
  <1>1. ASSUME NEW t \in Threads, Compress(t) \/ Write(t) \/ Flush(t) \/ Finish(t)
        PROVE  TypeOK'
    BY <1>1, Entries, BeginTypeOK
  <1>2. ASSUME NEW t \in Threads, Step(t) PROVE TypeOK'
    BY <1>2, ZstdTypeOK, ZstdFailsTypeOK, CompressTurnTypeOK, WriteTurnTypeOK, DrainTurnTypeOK, RaiseTypeOK
    DEF Step, RaiseError
  <1>3. ASSUME NEW t \in Threads, Interrupt(t) PROVE TypeOK'
    BY <1>3, RaiseTypeOK DEF Interrupt
  <1>4. CASE UNCHANGED vars
    BY <1>4 DEF vars, TypeOK
  <1> QED
    BY <1>1, <1>2, <1>3, <1>4 DEF Next

LEMMA InitTypeOK == Init => TypeOK
  <1> SUFFICES ASSUME Init PROVE TypeOK
    OBVIOUS
  <1>1. pipe \in PipeState
    BY ContractAssumption DEF Init, EmptyPipe, PipeState
  <1>2. call \in [Threads -> Calls]
    BY NoCallIsCall DEF Init
  <1> QED
    BY <1>1, <1>2, EmptyString DEF Init, TypeOK, Calls

(* Every variable keeps its type: the numbers of a method stay within its   *)
(* buffer and its arguments (output.pos, input.pos in streaming_compress.c).*)
THEOREM TypeCorrect == Spec => []TypeOK
  <1>1. Init => TypeOK
    BY InitTypeOK
  <1>2. TypeOK /\ [Next]_vars => TypeOK'
    BY NextTypeOK
  <1> QED
    BY <1>1, <1>2, PTL DEF Spec
-----------------------------------------------------------------------------
\* The bytes of sc->buf that are still to be copied out, and what the client and
\* the strings of the object hold besides them.
Written(t) == IF call[t].pc = "back" THEN call[t].pos ELSE 0
Kept(t)    == stream \o pending \o call[t].result

\* Between two methods nothing of the last one is left; write() never has a result.
Locals ==
  \A t \in Threads :
    /\ ~Busy(t) => call[t] = NoCall
    /\ call[t].method = "write" => call[t].result = <<>>

\* A frame that is being closed is one whose end waits for room.
ClosingHasBytes == pipe.closing => pipe.open /\ pipe.unsent > 0 /\ pipe.held = 0

\* sc->buf starts with the last bytes that the context wrote.
BufIsLatest(t) ==
  call[t].pc = "back" => /\ call[t].pos <= emitted
                         /\ \A i \in 1 .. call[t].pos : buf[i] = emitted - call[t].pos + i

\* compress() does not overtake write().
NotOvertaken(t) == ~mixed /\ Busy(t) /\ call[t].method = "compress" => pending = <<>>

KeptInOrder(t) == ~mixed => Ascending(Kept(t)) /\ UpTo(Kept(t), emitted - Written(t))

KeptWhole(t) == ~raised => /\ Len(Kept(t)) = emitted - Written(t)
                           /\ ToSet(Kept(t)) = 1 .. emitted - Written(t)

\* What a call of the library returned says what it left in the context.
ReturnTells(t) ==
  call[t].pc = "back" /\ ~call[t].error =>
    /\ call[t].ret = pipe.unsent
    /\ call[t].method \in {"flush", "finish"} /\ pipe.unsent = 0 => pipe.held = 0
    /\ call[t].method = "finish" /\ pipe.unsent = 0 => ~pipe.open

ThreadInv(t) ==
  BufIsLatest(t) /\ NotOvertaken(t) /\ KeptInOrder(t) /\ KeptWhole(t) /\ ReturnTells(t)

OneAtATime == \A t, u \in Threads : Busy(t) /\ Busy(u) => t = u

IInv ==
  /\ TypeOK /\ Locals /\ ClosingHasBytes
  /\ Serialized => OneAtATime /\ \A t \in Threads : Alone(t) => ThreadInv(t)

\* Before a step of t, and after one: nobody else is in a method.
LEMMA OneActs ==
  ASSUME IInv, NEW t \in Threads, Serialized, Busy(t) \/ \A u \in Threads : ~Busy(u)
  PROVE  ThreadInv(t) /\ \A u \in Threads \ {t} : call[u] = NoCall
  BY DEF IInv, OneAtATime, Alone, Locals

LEMMA OneActed ==
  ASSUME TypeOK', Locals', ClosingHasBytes', NEW t \in Threads,
         Serialized => ThreadInv(t)' /\ \A u \in Threads \ {t} : call'[u] = NoCall
  PROVE  IInv'
  <1> SUFFICES ASSUME Serialized PROVE OneAtATime' /\ \A u \in Threads : Alone(u)' => ThreadInv(u)'
    BY DEF IInv
  <1>1. \A u \in Threads \ {t} : ~Busy(u)'
    BY DEF Busy, NoCall
  <1>2. ASSUME NEW u \in Threads, Alone(u)' PROVE ThreadInv(u)'
    <2>1. CASE u = t
      BY <2>1
    <2>2. CASE u # t
      <3>1. call'[u] = call'[t]
        BY <1>2, <2>2 DEF Alone, Locals
      <3> QED
        BY <3>1 DEF ThreadInv, BufIsLatest, NotOvertaken, KeptInOrder, KeptWhole, ReturnTells,
                    Kept, Written, Busy
    <2> QED
      BY <2>1, <2>2
  <1> QED
    BY <1>1, <1>2 DEF OneAtATime

LEMMA CallChanges ==
  ASSUME TypeOK, NEW t \in Threads, NEW r, call' = [call EXCEPT ![t] = r]
  PROVE  call'[t] = r /\ \A u \in Threads \ {t} : call'[u] = call[u]
  BY DEF TypeOK

\* The parts of IInv about other threads and the locals, for a step of t.
LEMMA StepOfOne ==
  ASSUME IInv, TypeOK', NEW t \in Threads, Busy(t) \/ (Serialized => \A u \in Threads : ~Busy(u)),
         NEW r, call' = [call EXCEPT ![t] = r],
         r = NoCall \/ (r.pc # "idle" /\ (r.method = "write" => r.result = <<>>)),
         ClosingHasBytes',
         Serialized /\ ThreadInv(t) => ThreadInv(t)'
  PROVE  IInv'
  <1>1. Locals'
    <2>1. NoCall.method # "write" /\ NoCall.pc = "idle"
      BY DEF NoCall
    <2> QED
      BY <2>1, CallChanges DEF IInv, Locals, Busy
  <1>2. Serialized => ThreadInv(t)' /\ \A u \in Threads \ {t} : call'[u] = NoCall
    BY OneActs, CallChanges DEF IInv
  <1> QED
    BY <1>1, <1>2, OneActed

LEMMA KeptIsString ==
  ASSUME TypeOK, NEW t \in Threads
  PROVE  /\ stream \in Seq(Nat) /\ pending \in Seq(Nat) /\ call[t].result \in Seq(Nat)
         /\ stream \o pending \in Seq(Nat) /\ Kept(t) \in Seq(Nat)
  <1>1. stream \in Seq(Nat) /\ pending \in Seq(Nat) /\ call[t].result \in Seq(Nat)
    BY CallIsCall DEF TypeOK, Calls
  <1>2. stream \o pending \in Seq(Nat)
    BY <1>1, ConcatProperties
  <1> QED
    BY <1>1, <1>2, ConcatProperties DEF Kept

LEMMA BeginIInv ==
  ASSUME IInv, NEW t \in Threads, NEW method \in Methods,
         NEW args \in Arguments \cup {<<>>}, Begin(t, method, args)
  PROVE  IInv'
  <1>1. TypeOK'
    BY BeginTypeOK DEF IInv
  <1> DEFINE avail == IF args = <<>> THEN 0 ELSE Head(args)
             rest  == IF args = <<>> THEN <<>> ELSE Tail(args)
             r == [NoCall EXCEPT !.pc = "zstd", !.method = method, !.avail = avail, !.rest = rest]
  <1>2. call' = [call EXCEPT ![t] = r]
    BY DEF Begin
  <1> HIDE DEF avail, rest
  <1>3. /\ r.pc = "zstd" /\ r.method = method /\ r.result = <<>>
        /\ NoCall.pc = "idle" /\ NoCall.result = <<>>
    BY DEF NoCall
  <1> HIDE DEF r
  <1>4. ClosingHasBytes'
    BY DEF Begin, IInv, ClosingHasBytes
  <1>5. call'[t] = r /\ call[t] = NoCall
    BY <1>2, CallChanges DEF IInv, Begin, Locals
  <1>6. ASSUME ThreadInv(t) PROVE ThreadInv(t)'
    <2>1. Kept(t)' = Kept(t) /\ Written(t)' = 0 /\ Written(t) = 0 /\ emitted' = emitted
      BY <1>3, <1>5 DEF Kept, Written, Begin
    <2>2. BufIsLatest(t)' /\ ReturnTells(t)'
      BY <1>3, <1>5 DEF BufIsLatest, ReturnTells
    <2>3. NotOvertaken(t)'
      BY <1>3, <1>5 DEF NotOvertaken, Begin
    <2>4. KeptInOrder(t)' /\ KeptWhole(t)'
      BY <1>6, <2>1 DEF ThreadInv, KeptInOrder, KeptWhole, Begin
    <2> QED
      BY <2>2, <2>3, <2>4 DEF ThreadInv
  <1> QED
    BY <1>1, <1>2, <1>3, <1>4, <1>6, StepOfOne DEF Begin

LEMMA ZstdIInv ==
  ASSUME IInv, NEW t \in Threads, Zstd(t)
  PROVE  IInv'
  <1>1. TypeOK'
    BY ZstdTypeOK DEF IInv
  <1> DEFINE c == call[t]
  <1>2. c \in Calls /\ c.pc = "zstd" /\ pipe' \in PipeState /\ pipe \in PipeState
    BY CallIsCall DEF IInv, TypeOK, Zstd
  <1>3. PICK read \in 0 .. c.avail, wrote \in 0 .. BufSize :
          /\ Promise(pipe, EndOp(c.method), c.avail, BufSize, pipe', read, wrote)
          /\ buf' = [i \in 1 .. BufSize |-> IF i <= wrote THEN emitted + i ELSE buf[i]]
          /\ emitted' = emitted + wrote
          /\ call' = [call EXCEPT ![t] = [c EXCEPT !.pc = "back", !.avail = @ - read, !.pos = wrote, !.ret = pipe'.unsent]]
    BY DEF Zstd
  <1> DEFINE r == [c EXCEPT !.pc = "back", !.avail = @ - read, !.pos = wrote, !.ret = pipe'.unsent]
  <1>4. call' = [call EXCEPT ![t] = r] /\ call'[t] = r
    BY <1>3, CallChanges DEF IInv
  <1>5. /\ r.pc = "back" /\ r.pos = wrote /\ r.ret = pipe'.unsent
        /\ r.method = c.method /\ r.result = c.result
    BY <1>2 DEF Calls
  <1>6. c.method = "write" => c.result = <<>>
    BY DEF IInv, Locals
  <1>7. ClosingHasBytes'
    BY <1>3 DEF ClosingHasBytes, Promise
  <1>8. emitted \in Nat /\ wrote \in Nat /\ BufSize \in Nat /\ wrote <= BufSize
    BY StreamingCompressAssumption DEF IInv, TypeOK
  <1>9. ASSUME ThreadInv(t) PROVE ThreadInv(t)'
    <2>1. Kept(t)' = Kept(t) /\ Written(t)' = wrote /\ Written(t) = 0
      BY <1>2, <1>4, <1>5 DEF Kept, Written, Zstd
    <2>2. emitted' - wrote = emitted /\ emitted - 0 = emitted
      BY <1>3, <1>8
    <2>3. KeptInOrder(t)' /\ KeptWhole(t)'
      BY <1>9, <2>1, <2>2 DEF ThreadInv, KeptInOrder, KeptWhole, Zstd
    <2>4. BufIsLatest(t)'
      <3>1. wrote <= emitted'
        BY <1>3, <1>8
      <3>2. ASSUME NEW i \in 1 .. wrote PROVE buf'[i] = emitted' - wrote + i
        BY <1>3, <1>8
      <3> QED
        BY <3>1, <3>2, <1>4, <1>5 DEF BufIsLatest
    <2>5. NotOvertaken(t)'
      BY <1>2, <1>4, <1>5, <1>9 DEF ThreadInv, NotOvertaken, Zstd, Busy
    <2>6. ReturnTells(t)'
      <3>1. /\ pipe.unsent \in Nat /\ pipe.held \in Nat /\ pipe'.unsent \in Nat
            /\ pipe.closing => pipe.held = 0
        BY <1>2, ContractAssumption DEF PipeState, IInv, ClosingHasBytes
      <3>2. c.method \in {"flush", "finish"} /\ pipe'.unsent = 0 => pipe'.held = 0
        BY <1>3, <3>1 DEF Promise, EndOp
      <3>3. c.method = "finish" /\ pipe'.unsent = 0 => ~pipe'.open
        <4>1. c.method = "finish" => pipe'.open = (pipe'.unsent > 0)
          BY <1>3 DEF Promise, EndOp
        <4>2. pipe'.unsent = 0 => ~(pipe'.unsent > 0)
          BY <3>1
        <4> QED
          BY <4>1, <4>2, Zenon
      <3> QED
        BY <3>2, <3>3, <1>4, <1>5 DEF ReturnTells
    <2> QED
      BY <2>3, <2>4, <2>5, <2>6 DEF ThreadInv
  <1>10. Busy(t)
    BY <1>2 DEF Busy
  <1> HIDE DEF c, r
  <1> QED
    BY <1>1, <1>4, <1>5, <1>6, <1>7, <1>9, <1>10, StepOfOne

LEMMA ZstdFailsIInv ==
  ASSUME IInv, NEW t \in Threads, ZstdFails(t)
  PROVE  IInv'
  <1>1. TypeOK'
    BY ZstdFailsTypeOK DEF IInv
  <1> DEFINE c == call[t]
             r == [c EXCEPT !.pc = "back", !.pos = 0, !.error = TRUE]
  <1>2. c \in Calls /\ c.pc = "zstd"
    BY CallIsCall DEF IInv, ZstdFails
  <1>3. call' = [call EXCEPT ![t] = r]
    BY CallIsCall DEF ZstdFails, Calls, IInv, TypeOK
  <1>4. call'[t] = r
    BY <1>3, CallChanges DEF IInv
  <1>5. r.pc = "back" /\ r.pos = 0 /\ r.error /\ r.method = c.method /\ r.result = c.result
    BY <1>2 DEF Calls
  <1>6. c.method = "write" => c.result = <<>>
    BY DEF IInv, Locals
  <1>7. ClosingHasBytes'
    <2>1. pipe \in PipeState /\ pipe' \in PipeState
      BY DEF IInv, TypeOK, ZstdFails
    <2>2. pipe'.closing => pipe' = pipe \/ pipe' = [pipe EXCEPT !.pledged = @ \/ EndOp(c.method) = "e_end"]
      BY <2>1 DEF ZstdFails, Failure, PipeState
    <2> QED
      BY <2>1, <2>2 DEF ClosingHasBytes, IInv, PipeState
  <1>8. emitted \in Nat /\ emitted' = emitted
    BY DEF IInv, TypeOK, ZstdFails
  <1>9. ASSUME ThreadInv(t) PROVE ThreadInv(t)'
    <2>1. Kept(t)' = Kept(t) /\ Written(t)' = 0 /\ Written(t) = 0
      BY <1>2, <1>4, <1>5 DEF Kept, Written, ZstdFails
    <2>2. KeptInOrder(t)' /\ KeptWhole(t)'
      BY <1>9, <2>1, <1>8 DEF ThreadInv, KeptInOrder, KeptWhole, ZstdFails
    <2>3. BufIsLatest(t)' /\ ReturnTells(t)'
      BY <1>4, <1>5, <1>8 DEF BufIsLatest, ReturnTells
    <2>4. NotOvertaken(t)'
      BY <1>2, <1>4, <1>5, <1>9 DEF ThreadInv, NotOvertaken, ZstdFails, Busy
    <2> QED
      BY <2>2, <2>3, <2>4 DEF ThreadInv
  <1>10. Busy(t)
    BY <1>2 DEF Busy
  <1> HIDE DEF c, r
  <1> QED
    BY <1>1, <1>3, <1>5, <1>6, <1>7, <1>9, <1>10, StepOfOne

\* In which order strings are put together does not matter.
LEMMA Regroup ==
  ASSUME NEW x \in Seq(Nat), NEW y \in Seq(Nat), NEW z \in Seq(Nat)
  PROVE  x \o (y \o z) = (x \o y) \o z
  <1>1. (x \o y) \o z = x \o (y \o z)
    BY ConcatAssociative, SMT
  <1> QED
    BY <1>1

\* A string with what a thread copies out of sc->buf behind it.
LEMMA OutputFollows ==
  ASSUME IInv, NEW t \in Threads, call[t].pc = "back", ThreadInv(t)
  PROVE  /\ ~mixed => Ascending(Kept(t) \o Output(t)) /\ UpTo(Kept(t) \o Output(t), emitted)
         /\ ~raised => /\ Len(Kept(t) \o Output(t)) = emitted
                       /\ ToSet(Kept(t) \o Output(t)) = 1 .. emitted
  <1> DEFINE n == call[t].pos
             out == Output(t)
             kept == Kept(t)
             low == emitted - n
  <1>1. out \in Seq(Nat) /\ Len(out) = n /\ n \in Nat /\ \A i \in 1 .. n : out[i] = buf[i]
    BY OutputIs, StreamingCompressAssumption DEF IInv
  <1>2. kept \in Seq(Nat) /\ emitted \in Nat
    BY KeptIsString DEF IInv, TypeOK
  <1>3. n <= emitted /\ \A i \in 1 .. n : buf[i] = emitted - n + i
    BY DEF ThreadInv, BufIsLatest
  <1>4. low \in Nat /\ low + n = emitted
    BY <1>1, <1>2, <1>3
  <1>5. DOMAIN out = 1 .. n /\ \A i \in 1 .. n : out[i] = low + i
    BY <1>1, <1>3, LenProperties
  <1>6. ~mixed => Ascending(kept) /\ UpTo(kept, low)
    BY DEF ThreadInv, KeptInOrder, Written
  <1>7. ~raised => Len(kept) = low /\ ToSet(kept) = 1 .. low
    BY DEF ThreadInv, KeptWhole, Written
  <1> HIDE DEF n, out, kept, low
  <1>8. Ascending(out) /\ (\A i \in DOMAIN out : out[i] > low) /\ UpTo(out, emitted)
    BY <1>1, <1>4, <1>5 DEF Ascending, UpTo
  <1>9. ToSet(out) = low + 1 .. emitted
    <2>1. ToSet(out) = {low + i : i \in 1 .. n}
      BY <1>5 DEF ToSet
    <2>2. \A x \in low + 1 .. emitted : x - low \in 1 .. n /\ x = low + (x - low)
      BY <1>1, <1>4
    <2>3. \A i \in 1 .. n : low + i \in low + 1 .. emitted
      BY <1>1, <1>4
    <2>4. {low + i : i \in 1 .. n} \subseteq low + 1 .. emitted
      BY <2>3
    <2>5. low + 1 .. emitted \subseteq {low + i : i \in 1 .. n}
      BY <2>2
    <2> QED
      BY <2>1, <2>4, <2>5
  <1>10. ASSUME ~mixed PROVE Ascending(kept \o out) /\ UpTo(kept \o out, emitted)
    <2>1. Ascending(kept \o out)
      BY <1>1, <1>2, <1>4, <1>6, <1>8, <1>10, ConcatAscending
    <2>2. UpTo(kept, emitted)
      <3>1. ASSUME NEW i \in DOMAIN kept PROVE kept[i] \in Nat
        BY <1>2, LenProperties, ElementOfSeq
      <3> QED
        BY <1>1, <1>4, <1>6, <1>10, <3>1 DEF UpTo
    <2> QED
      BY <1>1, <1>2, <1>8, <2>1, <2>2, ConcatUpTo
  <1>11. ASSUME ~raised PROVE Len(kept \o out) = emitted /\ ToSet(kept \o out) = 1 .. emitted
    <2>1. Len(kept \o out) = low + n
      BY <1>1, <1>2, <1>7, <1>11, ConcatProperties
    <2>2. ToSet(kept \o out) = (1 .. low) \cup (low + 1 .. emitted)
      BY <1>1, <1>2, <1>7, <1>9, <1>11, ConcatSet
    <2>3. (1 .. low) \cup (low + 1 .. emitted) = 1 .. emitted
      BY <1>1, <1>2, <1>4
    <2> QED
      BY <2>1, <2>2, <2>3, <1>4
  <1> QED
    BY <1>10, <1>11 DEF out, kept

\* A turn of a loop that leaves everything in its order.
LEMMA TurnKeeps ==
  ASSUME IInv, NEW t \in Threads, call[t].pc = "back", ThreadInv(t),
         Kept(t)' = Kept(t) \o Output(t), call'[t].pc # "back", NotOvertaken(t)',
         UNCHANGED <<emitted, mixed, raised>>
  PROVE  ThreadInv(t)'
  <1>1. Written(t)' = 0 /\ BufIsLatest(t)' /\ ReturnTells(t)'
    BY DEF Written, BufIsLatest, ReturnTells
  <1>2. emitted \in Nat /\ emitted' - 0 = emitted
    BY DEF IInv, TypeOK
  <1>3. KeptInOrder(t)' /\ KeptWhole(t)'
    BY <1>1, <1>2, OutputFollows DEF KeptInOrder, KeptWhole
  <1> QED
    BY <1>1, <1>3 DEF ThreadInv

\* The end of compress() after write(): the order is lost, the bytes are not.
LEMMA OvertakingKeeps ==
  ASSUME IInv, NEW t \in Threads, call[t].pc = "back", ThreadInv(t), mixed,
         Kept(t)' = stream \o (call[t].result \o Output(t)) \o pending, call'[t].pc # "back",
         UNCHANGED <<emitted, mixed, raised>>
  PROVE  ThreadInv(t)'
  <1>1. Written(t)' = 0 /\ BufIsLatest(t)' /\ ReturnTells(t)' /\ NotOvertaken(t)' /\ KeptInOrder(t)'
    BY DEF Written, BufIsLatest, ReturnTells, NotOvertaken, KeptInOrder
  <1>2. emitted \in Nat /\ emitted' - 0 = emitted
    BY DEF IInv, TypeOK
  <1>3. ASSUME ~raised
        PROVE  /\ Len(stream \o (call[t].result \o Output(t)) \o pending) = emitted
               /\ ToSet(stream \o (call[t].result \o Output(t)) \o pending) = 1 .. emitted
    <2> DEFINE res == call[t].result
               out == Output(t)
    <2>1. stream \in Seq(Nat) /\ pending \in Seq(Nat) /\ res \in Seq(Nat) /\ out \in Seq(Nat)
      BY KeptIsString, OutputIs DEF IInv
    <2>2. Kept(t) = stream \o pending \o res
      BY DEF Kept
    <2> HIDE DEF res, out
    <2>3. /\ stream \o pending \in Seq(Nat) /\ res \o out \in Seq(Nat)
          /\ stream \o pending \o res \in Seq(Nat) /\ stream \o (res \o out) \in Seq(Nat)
      BY <2>1, ConcatProperties
    <2>4. /\ Len(stream \o pending) = Len(stream) + Len(pending)
          /\ Len(res \o out) = Len(res) + Len(out)
          /\ Len(stream) \in Nat /\ Len(pending) \in Nat /\ Len(res) \in Nat /\ Len(out) \in Nat
      BY <2>1, ConcatProperties, LenProperties
    <2>5. /\ Len(stream \o pending \o res \o out) = Len(stream \o pending) + Len(res) + Len(out)
          /\ Len(stream \o (res \o out) \o pending) = Len(stream) + Len(res \o out) + Len(pending)
      BY <2>1, <2>3, ConcatProperties
    <2>6. /\ ToSet(stream \o pending \o res \o out)
               = ((ToSet(stream) \cup ToSet(pending)) \cup ToSet(res)) \cup ToSet(out)
          /\ ToSet(stream \o (res \o out) \o pending)
               = (ToSet(stream) \cup (ToSet(res) \cup ToSet(out))) \cup ToSet(pending)
      <3>1. /\ ToSet(stream \o pending) = ToSet(stream) \cup ToSet(pending)
            /\ ToSet(res \o out) = ToSet(res) \cup ToSet(out)
        BY <2>1, ConcatSet
      <3>2. /\ ToSet(stream \o pending \o res) = ToSet(stream \o pending) \cup ToSet(res)
            /\ ToSet(stream \o (res \o out)) = ToSet(stream) \cup ToSet(res \o out)
        BY <2>1, <2>3, ConcatSet
      <3>3. /\ ToSet(stream \o pending \o res \o out) = ToSet(stream \o pending \o res) \cup ToSet(out)
            /\ ToSet(stream \o (res \o out) \o pending) = ToSet(stream \o (res \o out)) \cup ToSet(pending)
        BY <2>1, <2>3, ConcatSet
      <3> QED
        BY <3>1, <3>2, <3>3, Zenon
    <2>7. /\ Len(stream \o pending \o res \o out) = emitted
          /\ ToSet(stream \o pending \o res \o out) = 1 .. emitted
      BY <1>3, <2>2, OutputFollows DEF out
    <2>8. Len(stream \o (res \o out) \o pending) = emitted
      BY <2>4, <2>5, <2>7
    <2>9. ToSet(stream \o (res \o out) \o pending) = 1 .. emitted
      BY <2>6, <2>7
    <2> QED
      BY <2>8, <2>9 DEF res, out
  <1>4. KeptWhole(t)'
    BY <1>1, <1>2, <1>3 DEF KeptWhole
  <1> QED
    BY <1>1, <1>4 DEF ThreadInv

LEMMA CompressTurnIInv ==
  ASSUME IInv, NEW t \in Threads, CompressTurn(t)
  PROVE  IInv'
  <1> DEFINE c == call[t]
             out == Output(t)
             result == c.result \o out
  <1>1. TypeOK'
    BY CompressTurnTypeOK DEF IInv
  <1>2. /\ c \in Calls /\ c.pc = "back" /\ c.method = "compress"
        /\ stream \in Seq(Nat) /\ pending \in Seq(Nat) /\ c.result \in Seq(Nat) /\ out \in Seq(Nat)
    BY CallIsCall, OutputIs, KeptIsString DEF IInv, CompressTurn, Resumes
  <1>3. UNCHANGED <<pipe, buf, pending, emitted, mixed, raised>>
    BY DEF CompressTurn
  <1>4. ClosingHasBytes' /\ Busy(t)
    BY <1>2, <1>3 DEF ClosingHasBytes, IInv, Busy
  <1>5. CASE Loop(t, [c EXCEPT !.result = result]) /\ UNCHANGED stream
    <2> DEFINE r == [[c EXCEPT !.result = result] EXCEPT !.pc = "zstd"]
    <2>1. call' = [call EXCEPT ![t] = r]
      BY <1>5 DEF Loop
    <2>2. r.pc = "zstd" /\ r.method = "compress" /\ r.result = result
      BY <1>2 DEF Calls
    <2> HIDE DEF r
    <2>3. call'[t] = r
      BY <2>1, CallChanges DEF IInv
    <2>4. Kept(t)' = Kept(t) \o Output(t)
      <3>1. Kept(t)' = (stream \o pending) \o (c.result \o out)
        BY <2>2, <2>3, <1>3, <1>5 DEF Kept
      <3>2. Kept(t) = (stream \o pending) \o c.result
        BY DEF Kept
      <3>3. stream \o pending \in Seq(Nat)
        BY <1>2, ConcatProperties
      <3> HIDE DEF c, out
      <3>4. (stream \o pending) \o (c.result \o out) = ((stream \o pending) \o c.result) \o out
        BY <1>2, <3>3, Regroup
      <3> QED
        BY <3>1, <3>2, <3>4 DEF out
    <2>5. ThreadInv(t) => NotOvertaken(t)'
      BY <2>2, <2>3, <1>2, <1>3, <1>4 DEF ThreadInv, NotOvertaken
    <2>6. ThreadInv(t) => ThreadInv(t)'
      BY <2>2, <2>3, <2>4, <2>5, <1>2, <1>3, TurnKeeps
    <2> QED
      BY <2>1, <2>2, <2>6, <1>1, <1>4, StepOfOne
  <1>6. CASE call' = [call EXCEPT ![t] = NoCall] /\ stream' = stream \o result
    <2>1. call'[t] = NoCall /\ NoCall.pc = "idle" /\ NoCall.result = <<>>
      BY <1>6, CallChanges DEF IInv, NoCall
    <2>2. Kept(t)' = (stream \o result) \o pending
      <3>1. stream \o result \o pending \in Seq(Nat)
        BY <1>2, ConcatProperties
      <3> QED
        BY <2>1, <1>3, <1>6, <3>1, ConcatEmptySeq DEF Kept
    <2>3. NotOvertaken(t)'
      BY <2>1 DEF NotOvertaken, Busy
    <2>4. ASSUME ThreadInv(t) PROVE ThreadInv(t)'
      <3>1. CASE mixed
        BY <3>1, <2>1, <2>2, <2>4, <1>2, <1>3, OvertakingKeeps
      <3>2. CASE ~mixed
        <4>1. pending = <<>>
          BY <3>2, <2>4, <1>2, <1>4 DEF ThreadInv, NotOvertaken
        <4>2. Kept(t)' = stream \o result
          <5>1. stream \o result \in Seq(Nat)
            BY <1>2, ConcatProperties
          <5> QED
            BY <2>2, <4>1, <5>1, ConcatEmptySeq
        <4>3. Kept(t) = stream \o <<>> \o c.result
          BY <4>1 DEF Kept
        <4>4. stream \o <<>> = stream
          BY <1>2, ConcatEmptySeq
        <4>5. Kept(t)' = Kept(t) \o Output(t)
          <5>1. Kept(t)' = stream \o (c.result \o out) /\ Kept(t) = stream \o c.result
            BY <4>2, <4>3, <4>4
          <5> HIDE DEF c, out
          <5>2. stream \o (c.result \o out) = (stream \o c.result) \o out
            BY <1>2, Regroup
          <5> QED
            BY <5>1, <5>2 DEF out
        <4> QED
          BY <4>5, <2>1, <2>3, <2>4, <1>2, <1>3, TurnKeeps
      <3> QED
        BY <3>1, <3>2
    <2> QED
      BY <2>4, <1>1, <1>4, <1>6, StepOfOne
  <1> QED
    BY <1>5, <1>6 DEF CompressTurn

LEMMA WriteTurnIInv ==
  ASSUME IInv, NEW t \in Threads, WriteTurn(t)
  PROVE  IInv'
  <1> DEFINE c == call[t]
             out == Output(t)
  <1>1. TypeOK'
    BY WriteTurnTypeOK DEF IInv
  <1>2. /\ c \in Calls /\ c.pc = "back" /\ c.method = "write" /\ c.result = <<>>
        /\ stream \in Seq(Nat) /\ pending \in Seq(Nat) /\ out \in Seq(Nat)
    BY CallIsCall, OutputIs, KeptIsString DEF IInv, WriteTurn, Resumes, Locals
  <1>3. UNCHANGED <<pipe, buf, stream, emitted, mixed, raised>> /\ pending' = pending \o out
    BY DEF WriteTurn
  <1>4. ClosingHasBytes' /\ Busy(t)
    BY <1>2, <1>3 DEF ClosingHasBytes, IInv, Busy
  <1>5. PICK r : /\ call' = [call EXCEPT ![t] = r]
                 /\ r = NoCall \/ (r.pc = "zstd" /\ r.method = "write" /\ r.result = <<>>)
    <2>1. CASE Loop(t, c)
      <3> DEFINE r == [c EXCEPT !.pc = "zstd"]
      <3>1. r.pc = "zstd" /\ r.method = "write" /\ r.result = <<>>
        BY <1>2 DEF Calls
      <3>2. call' = [call EXCEPT ![t] = r]
        BY <2>1 DEF Loop
      <3> QED
        BY <3>1, <3>2
    <2>2. CASE Loop(t, [c EXCEPT !.avail = Head(c.rest), !.rest = Tail(c.rest)])
      <3> DEFINE r == [[c EXCEPT !.avail = Head(c.rest), !.rest = Tail(c.rest)] EXCEPT !.pc = "zstd"]
      <3>1. r.pc = "zstd" /\ r.method = "write" /\ r.result = <<>>
        BY <1>2 DEF Calls
      <3>2. call' = [call EXCEPT ![t] = r]
        BY <2>2 DEF Loop
      <3> QED
        BY <3>1, <3>2
    <2>3. CASE call' = [call EXCEPT ![t] = NoCall]
      BY <2>3
    <2> QED
      BY <2>1, <2>2, <2>3 DEF WriteTurn
  <1>6. call'[t] = r
    BY <1>5, CallChanges DEF IInv
  <1>7. r.pc # "back" /\ r.method # "compress" /\ r.result = <<>>
    BY <1>5 DEF NoCall
  <1>8. Kept(t)' = Kept(t) \o Output(t)
    <2>1. Kept(t)' = stream \o (pending \o out) \o <<>>
      BY <1>3, <1>6, <1>7 DEF Kept
    <2>2. Kept(t) = stream \o pending \o <<>>
      BY <1>2 DEF Kept
    <2>3. stream \o pending \in Seq(Nat) /\ pending \o out \in Seq(Nat)
      BY <1>2, ConcatProperties
    <2>4. stream \o (pending \o out) \in Seq(Nat)
      BY <1>2, <2>3, ConcatProperties
    <2>5. Kept(t)' = stream \o (pending \o out) /\ Kept(t) = stream \o pending
      BY <2>1, <2>2, <2>3, <2>4, ConcatEmptySeq
    <2> HIDE DEF out
    <2>6. stream \o (pending \o out) = (stream \o pending) \o out
      BY <1>2, Regroup
    <2> QED
      BY <2>5, <2>6 DEF out
  <1>9. NotOvertaken(t)'
    BY <1>6, <1>7 DEF NotOvertaken
  <1>10. ThreadInv(t) => ThreadInv(t)'
    BY <1>2, <1>3, <1>6, <1>7, <1>8, <1>9, TurnKeeps
  <1>11. r = NoCall \/ (r.pc # "idle" /\ (r.method = "write" => r.result = <<>>))
    BY <1>5
  <1> QED
    BY <1>1, <1>4, <1>5, <1>10, <1>11, StepOfOne

LEMMA DrainTurnIInv ==
  ASSUME IInv, NEW t \in Threads, DrainTurn(t)
  PROVE  IInv'
  <1> DEFINE c == call[t]
             out == Output(t)
             drained == c.result \o out
  <1>1. TypeOK'
    BY DrainTurnTypeOK DEF IInv
  <1>2. /\ c \in Calls /\ c.pc = "back" /\ c.method \in {"flush", "finish"}
        /\ stream \in Seq(Nat) /\ pending \in Seq(Nat) /\ c.result \in Seq(Nat) /\ out \in Seq(Nat)
    BY CallIsCall, OutputIs, KeptIsString DEF IInv, DrainTurn, Resumes
  <1>3. UNCHANGED <<pipe, buf, emitted, mixed, raised>>
    BY DEF DrainTurn
  <1>4. ClosingHasBytes' /\ Busy(t)
    BY <1>2, <1>3 DEF ClosingHasBytes, IInv, Busy
  <1>5. CASE Loop(t, [c EXCEPT !.result = drained]) /\ UNCHANGED <<pending, stream>>
    <2> DEFINE r == [[c EXCEPT !.result = drained] EXCEPT !.pc = "zstd"]
    <2>1. call' = [call EXCEPT ![t] = r]
      BY <1>5 DEF Loop
    <2>2. r.pc = "zstd" /\ r.method \in {"flush", "finish"} /\ r.result = drained
      BY <1>2 DEF Calls
    <2> HIDE DEF r
    <2>3. call'[t] = r
      BY <2>1, CallChanges DEF IInv
    <2>4. Kept(t)' = Kept(t) \o Output(t)
      <3>1. Kept(t)' = (stream \o pending) \o (c.result \o out)
        BY <2>2, <2>3, <1>5 DEF Kept
      <3>2. Kept(t) = (stream \o pending) \o c.result
        BY DEF Kept
      <3>3. stream \o pending \in Seq(Nat)
        BY <1>2, ConcatProperties
      <3> HIDE DEF c, out
      <3>4. (stream \o pending) \o (c.result \o out) = ((stream \o pending) \o c.result) \o out
        BY <1>2, <3>3, Regroup
      <3> QED
        BY <3>1, <3>2, <3>4 DEF out
    <2>5. NotOvertaken(t)'
      BY <2>2, <2>3 DEF NotOvertaken
    <2>6. ThreadInv(t) => ThreadInv(t)'
      BY <2>2, <2>3, <2>4, <2>5, <1>2, <1>3, TurnKeeps
    <2>7. r.pc # "idle" /\ (r.method = "write" => r.result = <<>>)
      BY <2>2
    <2> QED
      BY <2>1, <2>6, <2>7, <1>1, <1>4, StepOfOne
  <1>6. CASE /\ call' = [call EXCEPT ![t] = NoCall]
             /\ stream' = stream \o (pending \o drained)
             /\ pending' = <<>>
    <2>1. call'[t] = NoCall /\ NoCall.pc = "idle" /\ NoCall.result = <<>>
      BY <1>6, CallChanges DEF IInv, NoCall
    <2>2. Kept(t)' = Kept(t) \o Output(t)
      <3>1. stream \o (pending \o drained) \in Seq(Nat)
        BY <1>2, ConcatProperties
      <3>2. Kept(t)' = stream \o (pending \o drained) \o <<>> \o <<>>
        BY <2>1, <1>6 DEF Kept
      <3>3. Kept(t)' = stream \o (pending \o drained)
        BY <3>1, <3>2, ConcatEmptySeq
      <3>4. Kept(t) = (stream \o pending) \o c.result
        BY DEF Kept
      <3>5. stream \o pending \in Seq(Nat) /\ drained \in Seq(Nat)
        BY <1>2, ConcatProperties
      <3>6. stream \o (pending \o drained) = (stream \o pending) \o drained
        <4> HIDE DEF drained
        <4> QED
          BY <1>2, <3>5, Regroup
      <3>7. (stream \o pending) \o drained = ((stream \o pending) \o c.result) \o out
        <4>1. stream \o pending \in Seq(Nat) /\ c.result \in Seq(Nat) /\ out \in Seq(Nat)
          BY <1>2, <3>5
        <4> HIDE DEF c, out
        <4>2. (stream \o pending) \o (c.result \o out) = ((stream \o pending) \o c.result) \o out
          BY <4>1, Regroup
        <4> QED
          BY <4>2
      <3> QED
        BY <3>3, <3>4, <3>6, <3>7
    <2>3. NotOvertaken(t)'
      BY <2>1 DEF NotOvertaken, Busy
    <2>4. ThreadInv(t) => ThreadInv(t)'
      BY <2>1, <2>2, <2>3, <1>2, <1>3, TurnKeeps
    <2> QED
      BY <2>4, <1>1, <1>4, <1>6, StepOfOne
  <1> QED
    BY <1>5, <1>6 DEF DrainTurn, Out

LEMMA RaiseIInv ==
  ASSUME IInv, NEW t \in Threads, Busy(t), Raise(t)
  PROVE  IInv'
  <1>1. TypeOK' /\ emitted \in Nat
    BY RaiseTypeOK DEF IInv, TypeOK
  <1>2. call' = [call EXCEPT ![t] = NoCall] /\ raised' /\ UNCHANGED <<pipe, buf, pending, stream, emitted, mixed>>
    BY DEF Raise
  <1>3. call'[t] = NoCall /\ NoCall.pc = "idle" /\ NoCall.result = <<>>
    BY <1>2, CallChanges DEF IInv, NoCall
  <1>4. ClosingHasBytes'
    BY <1>2 DEF ClosingHasBytes, IInv
  <1>5. ASSUME ThreadInv(t) PROVE ThreadInv(t)'
    <2>1. /\ stream \o pending \in Seq(Nat) /\ call[t].result \in Seq(Nat)
          /\ Kept(t) \in Seq(Nat) /\ Kept(t) = stream \o pending \o call[t].result
      BY KeptIsString DEF IInv, Kept
    <2>2. Kept(t)' = stream \o pending
      BY <1>2, <1>3, <2>1, ConcatEmptySeq DEF Kept
    <2>3. ASSUME ~mixed PROVE Ascending(stream \o pending) /\ UpTo(stream \o pending, emitted)
      <3>1. Ascending(Kept(t)) /\ UpTo(Kept(t), emitted - Written(t))
        BY <1>5, <2>3 DEF ThreadInv, KeptInOrder
      <3>2. Written(t) \in Nat
        BY CallIsCall, StreamingCompressAssumption DEF Written, IInv, Calls
      <3>3. UpTo(Kept(t), emitted)
        <4>1. \A i \in DOMAIN Kept(t) : Kept(t)[i] \in Nat
          BY <2>1, LenProperties, ElementOfSeq
        <4> QED
          BY <1>1, <3>1, <3>2, <4>1 DEF UpTo
      <3> QED
        BY <1>1, <2>1, <3>1, <3>3, PrefixAscending
    <2>4. Written(t)' = 0 /\ emitted' - 0 = emitted
      BY <1>1, <1>2, <1>3 DEF Written
    <2>5. KeptInOrder(t)'
      BY <1>2, <2>2, <2>3, <2>4 DEF KeptInOrder
    <2>6. BufIsLatest(t)' /\ NotOvertaken(t)' /\ KeptWhole(t)' /\ ReturnTells(t)'
      BY <1>2, <1>3 DEF BufIsLatest, NotOvertaken, KeptWhole, ReturnTells, Busy
    <2> QED
      BY <2>5, <2>6 DEF ThreadInv
  <1> QED
    BY <1>1, <1>2, <1>4, <1>5, StepOfOne

LEMMA NextIInv == ASSUME IInv, [Next]_vars PROVE IInv'
  <1>1. ASSUME NEW t \in Threads, Compress(t) \/ Write(t) \/ Flush(t) \/ Finish(t)
        PROVE  IInv'
    BY <1>1, Entries, BeginIInv
  <1>2. ASSUME NEW t \in Threads, Step(t) PROVE IInv'
    <2>1. RaiseError(t) => Busy(t) /\ Raise(t)
      BY DEF RaiseError, Busy
    <2> QED
      BY <1>2, <2>1, ZstdIInv, ZstdFailsIInv, CompressTurnIInv, WriteTurnIInv, DrainTurnIInv, RaiseIInv
      DEF Step
  <1>3. ASSUME NEW t \in Threads, Interrupt(t) PROVE IInv'
    BY <1>3, RaiseIInv DEF Interrupt
  <1>4. CASE UNCHANGED vars
    <2>1. TypeOK' /\ Locals' /\ ClosingHasBytes'
      BY <1>4, NextTypeOK DEF vars, IInv, Locals, ClosingHasBytes, Busy
    <2>2. Serialized => OneAtATime' /\ \A t \in Threads : Alone(t)' => ThreadInv(t)'
      BY <1>4 DEF vars, IInv, OneAtATime, Alone, Busy, ThreadInv, BufIsLatest, NotOvertaken,
                  KeptInOrder, KeptWhole, ReturnTells, Kept, Written
    <2> QED
      BY <2>1, <2>2 DEF IInv
  <1> QED
    BY <1>1, <1>2, <1>3, <1>4 DEF Next

LEMMA InitIInv == Init => IInv
  <1> SUFFICES ASSUME Init PROVE IInv
    OBVIOUS
  <1>1. TypeOK
    BY InitTypeOK
  <1>2. \A t \in Threads : call[t] = NoCall
    BY DEF Init
  <1>3. NoCall.pc = "idle" /\ NoCall.method = "flush" /\ NoCall.result = <<>>
    BY DEF NoCall
  <1>4. Locals /\ OneAtATime /\ ClosingHasBytes
    BY <1>2, <1>3 DEF Locals, OneAtATime, Busy, ClosingHasBytes, Init, EmptyPipe
  <1>5. ASSUME NEW t \in Threads PROVE ThreadInv(t)
    <2>1. Kept(t) = <<>>
      BY <1>2, <1>3, EmptyString, ConcatEmptySeq DEF Kept, Init
    <2>2. Written(t) = 0 /\ emitted - 0 = 0 /\ 1 .. 0 = {}
      BY <1>2, <1>3 DEF Written, Init
    <2>3. UpTo(<<>>, 0)
      BY EmptyString DEF UpTo
    <2>4. KeptInOrder(t) /\ KeptWhole(t)
      BY <2>1, <2>2, <2>3, EmptyString DEF KeptInOrder, KeptWhole, Init
    <2> QED
      BY <2>4, <1>2, <1>3 DEF ThreadInv, BufIsLatest, NotOvertaken, ReturnTells, Busy
  <1> QED
    BY <1>1, <1>4, <1>5 DEF IInv

LEMMA Inductive == Spec => []IInv
  <1>1. Init => IInv
    BY InitIInv
  <1>2. IInv /\ [Next]_vars => IInv'
    BY NextIInv
  <1> QED
    BY <1>1, <1>2, PTL DEF Spec

(* Strings reach the client in the order in which the context wrote them,   *)
(* whole as long as no method raised, for any sequence of calls of any      *)
(* number of threads that take turns (the result, sc->pending and sc->buf   *)
(* in streaming_compress.c).                                                *)
THEOREM FrameIsDelivered == Spec => []FrameReachesClient
  <1>1. IInv => FrameReachesClient
    <2> SUFFICES ASSUME IInv PROVE FrameReachesClient
      OBVIOUS
    <2>1. ASSUME Serialized, NEW t \in Threads, Alone(t)
          PROVE  /\ ~mixed => Ascending(Delivery(t))
                 /\ ~raised => Len(Delivery(t)) = emitted /\ ToSet(Delivery(t)) = 1 .. emitted
      <3>1. ThreadInv(t)
        BY <2>1 DEF IInv
      <3>2. CASE call[t].pc = "back"
        <4>1. Delivery(t) = Kept(t) \o Output(t)
          BY <3>2 DEF Delivery, Uncopied, Kept
        <4> QED
          BY <3>1, <3>2, <4>1, OutputFollows
      <3>3. CASE call[t].pc # "back"
        <4>1. Delivery(t) = Kept(t) \o <<>> /\ Written(t) = 0
          BY <3>3 DEF Delivery, Uncopied, Kept, Written
        <4>2. Delivery(t) = Kept(t)
          BY <4>1, KeptIsString, ConcatEmptySeq DEF IInv
        <4>3. emitted - 0 = emitted
          BY DEF IInv, TypeOK
        <4> QED
          BY <3>1, <4>1, <4>2, <4>3 DEF ThreadInv, KeptInOrder, KeptWhole
      <3> QED
        BY <3>2, <3>3
    <2>2. InOrder
      BY <2>1 DEF InOrder, Ascending
    <2>3. NoneLost
      BY <2>1 DEF NoneLost
    <2> QED
      BY <2>2, <2>3 DEF FrameReachesClient
  <1> QED
    BY <1>1, Inductive, PTL

(* flush() and finish() return only when the context, sc->buf and           *)
(* sc->pending are empty, whatever was interrupted before (the loop of      *)
(* no_compress()).                                                          *)
THEOREM NothingIsLeftBehind == Spec => DrainReturnsAll
  <1> DEFINE Returns(t) == Serialized /\ DrainTurn(t) /\ call'[t].pc = "idle" =>
                             /\ pipe.held = 0 /\ pipe.unsent = 0
                             /\ pending' = <<>>
                             /\ call[t].method = "finish" => ~pipe.open
  <1>1. ASSUME IInv, NEW t \in Threads PROVE Returns(t)
    <2> SUFFICES ASSUME Serialized, DrainTurn(t), call'[t].pc = "idle"
                 PROVE  /\ pipe.held = 0 /\ pipe.unsent = 0
                        /\ pending' = <<>>
                        /\ call[t].method = "finish" => ~pipe.open
      OBVIOUS
    <2>1. call[t].pc = "back" /\ ~call[t].error /\ call[t].method \in {"flush", "finish"} /\ call[t] \in Calls
      BY <1>1, CallIsCall DEF DrainTurn, Resumes, IInv
    <2>2. ThreadInv(t)
      BY <1>1, <2>1, OneActs DEF Busy
    <2>3. ASSUME NEW c, Loop(t, c), c = [call[t] EXCEPT !.result = call[t].result \o Output(t)]
          PROVE  FALSE
      <3>1. call'[t] = [c EXCEPT !.pc = "zstd"]
        BY <1>1, <2>3, CallChanges DEF IInv, Loop
      <3>2. [c EXCEPT !.pc = "zstd"].pc = "zstd"
        BY <2>1, <2>3 DEF Calls
      <3> QED
        BY <3>1, <3>2
    <2>4. call[t].ret = 0 /\ pending' = <<>>
      BY <2>3 DEF DrainTurn, Drained
    <2> QED
      BY <2>1, <2>2, <2>4 DEF ThreadInv, ReturnTells
  <1>2. IInv /\ [Next]_vars => [\A t \in Threads : Returns(t)]_vars
    BY <1>1
  <1>3. Spec => [][\A t \in Threads : Returns(t)]_vars
    BY <1>2, Inductive, PTL DEF Spec
  <1> QED
    BY <1>3 DEF DrainReturnsAll

(* sc->pending survives exceptions: it grows at its end, until all of it    *)
(* goes to the client at once (write(), flush() and finish() in             *)
(* streaming_compress.c).                                                   *)
THEOREM PendingIsDelivered == Spec => PendingReachesClient
  <1> DEFINE Kind == \/ IsPrefix(pending, pending')
                     \/ pending' = <<>> /\ IsPrefix(stream \o pending, stream')
  <1>1. ASSUME TypeOK, UNCHANGED pending PROVE Kind
    BY <1>1, EmptyString, ConcatIsPrefix, ConcatEmptySeq DEF TypeOK
  <1>2. ASSUME TypeOK, NEW t \in Threads, WriteTurn(t) PROVE Kind
    BY <1>2, OutputIs, KeptIsString, ConcatIsPrefix DEF WriteTurn
  <1>3. ASSUME TypeOK, NEW t \in Threads, DrainTurn(t) PROVE Kind
    <2> DEFINE drained == call[t].result \o Output(t)
    <2>1. /\ stream \in Seq(Nat) /\ pending \in Seq(Nat) /\ stream \o pending \in Seq(Nat)
          /\ drained \in Seq(Nat)
      BY <1>3, OutputIs, KeptIsString, ConcatProperties
    <2>2. \/ UNCHANGED pending
          \/ pending' = <<>> /\ stream' = stream \o (pending \o drained)
      BY <1>3 DEF DrainTurn, Out
    <2> HIDE DEF drained
    <2>3. stream \o (pending \o drained) = (stream \o pending) \o drained
      BY <2>1, Regroup
    <2> HIDE DEF Kind
    <2>4. CASE UNCHANGED pending
      BY <2>4, <1>1, <1>3
    <2>5. CASE pending' = <<>> /\ stream' = stream \o (pending \o drained)
      BY <2>1, <2>3, <2>5, ConcatIsPrefix DEF Kind
    <2> QED
      BY <2>2, <2>4, <2>5
  <1>4. ASSUME TypeOK, [Next]_vars PROVE [Kind]_vars
    <2>1. CASE UNCHANGED vars
      BY <2>1
    <2>2. ASSUME NEW t \in Threads,
                 \/ Compress(t) \/ Write(t) \/ Flush(t) \/ Finish(t) \/ Zstd(t) \/ ZstdFails(t)
                 \/ CompressTurn(t) \/ RaiseError(t) \/ Interrupt(t)
          PROVE  UNCHANGED pending
      BY <2>2 DEF Compress, Write, Flush, Finish, Begin, Zstd, ZstdFails, CompressTurn,
                  RaiseError, Interrupt, Raise
    <2> HIDE DEF Kind
    <2> QED
      BY <1>1, <1>2, <1>3, <1>4, <2>1, <2>2 DEF Next, Step
  <1>5. Spec => [][Kind]_vars
    BY <1>4, TypeCorrect, PTL DEF Spec
  <1> QED
    BY <1>5 DEF PendingReachesClient
=============================================================================

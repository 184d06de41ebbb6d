--------------------------- MODULE DecompressPipe ---------------------------
(***************************************************************************)
(* The contract of DecompressContract as a state machine: one call of      *)
(* ZSTD_decompressStream() is one step.  DStream.tla implements it.        *)
(***************************************************************************)
EXTENDS DecompressContract

CONSTANTS
  Chunks,       \* sizes of input a caller presents
  Rooms         \* sizes of output buffer a caller presents

VARIABLES
  decoder,  \* the context between two calls
  last      \* what the last call told its caller

pipeVars == <<decoder, last>>

PipeInit ==
  /\ decoder = Fresh
  /\ last = [given |-> 0, room |-> 0, read |-> 0, wrote |-> 0, failed |-> FALSE, done |-> FALSE]

Call(given, room) ==
  /\ ~decoder.broken
  /\ decoder.pos + given <= Len(Text)
  /\ \E read \in 0 .. given, wrote \in 0 .. room, done \in BOOLEAN :
       /\ decoder' = [decoder EXCEPT !.pos = @ + read, !.sent = @ + wrote]
       /\ Promise(decoder, given, room, decoder', done)
       /\ last' = [given |-> given, room |-> room, read |-> read, wrote |-> wrote,
                   failed |-> FALSE, done |-> done]

CallFails(given, room) ==
  /\ ~decoder.broken
  /\ Failure(decoder, decoder')
  /\ last' = [given |-> given, room |-> room, read |-> 0, wrote |-> 0,
              failed |-> TRUE, done |-> FALSE]

PipeNext == \E given \in Chunks, room \in Rooms : Call(given, room) \/ CallFails(given, room)

PipeSpec == PipeInit /\ [][PipeNext]_pipeVars
=============================================================================

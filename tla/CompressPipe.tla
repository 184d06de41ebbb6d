---------------------------- MODULE CompressPipe ----------------------------
(***************************************************************************)
(* The contract of CompressContract as a state machine: one call of        *)
(* ZSTD_compressStream2() is one step.  CStream.tla implements it.         *)
(***************************************************************************)
EXTENDS CompressContract

CONSTANTS
  Chunks,       \* sizes of input a caller presents with ZSTD_e_continue
  Rooms         \* sizes of output buffer a caller presents

VARIABLES
  pipe,     \* the context between two calls
  last      \* what the last call told its caller

pipeVars == <<pipe, last>>

\* The binding presents input with ZSTD_e_continue only: no_compress() flushes
\* and ends with an empty input buffer.
Inputs(op) == IF op = "e_continue" THEN Chunks ELSE {0}

PipeInit ==
  /\ pipe = EmptyPipe
  /\ last = [op |-> "e_continue", given |-> 0, room |-> 0,
             read |-> 0, wrote |-> 0, failed |-> FALSE, ret |-> 0]

\* A call that succeeds: its return value is what remains to be flushed.
Call(op, given, room) ==
  /\ pipe' \in PipeState
  /\ \E read \in 0 .. given, wrote \in 0 .. room :
       /\ Promise(pipe, op, given, room, pipe', read, wrote)
       /\ last' = [op |-> op, given |-> given, room |-> room,
                   read |-> read, wrote |-> wrote, failed |-> FALSE, ret |-> pipe'.unsent]

\* A call that fails: output.pos and input.pos stay as they were.
CallFails(op, given, room) ==
  /\ pipe' \in PipeState
  /\ Failure(pipe, op, given, pipe')
  /\ last' = [op |-> op, given |-> given, room |-> room,
              read |-> 0, wrote |-> 0, failed |-> TRUE, ret |-> 0]

PipeNext ==
  \E op \in Directives, room \in Rooms :
    \E given \in Inputs(op) : Call(op, given, room) \/ CallFails(op, given, room)

PipeSpec == PipeInit /\ [][PipeNext]_pipeVars
=============================================================================

-------------------------- MODULE CompressContract --------------------------
(***************************************************************************)
(* What ZSTD_compressStream2() promises to the binding: a compression      *)
(* context seen as a pipe.  Input goes in, is held until it is coded into  *)
(* a block, and the coded bytes stay unsent until an output buffer has     *)
(* room for them.  The contract is about sizes; CStream.tla has the loop   *)
(* that keeps it and StreamingCompress.tla the object written against it.  *)
(***************************************************************************)
EXTENDS Integers

CONSTANTS
  MaxHeld,      \* most input bytes a context holds between two calls
  MaxUnsent     \* most coded bytes a context keeps back between two calls

ASSUME ContractAssumption == MaxHeld \in Nat \ {0} /\ MaxUnsent \in Nat

Directives == {"e_continue", "e_flush", "e_end"}

\* A context that is pledged takes its frame for one of no bytes.
PipeState == [held : 0 .. MaxHeld, unsent : 0 .. MaxUnsent,
              open : BOOLEAN, closing : BOOLEAN, pledged : BOOLEAN]

EmptyPipe == [held |-> 0, unsent |-> 0, open |-> FALSE, closing |-> FALSE, pledged |-> FALSE]

(***************************************************************************)
(* The contract between a context p, the arguments of a call and its       *)
(* outcome: q is the context after the call, read and wrote what the call  *)
(* added to input->pos and output->pos.                                    *)
(***************************************************************************)
Promise(p, op, given, room, q, read, wrote) ==
  LET coded == p.held + read - q.held
      made  == q.unsent + wrote - p.unsent
  IN  \* Input is only moved or coded, output only coded or moved.
      /\ coded >= 0
      /\ made >= 0
      /\ coded > 0 => made > 0
      /\ made > 0 /\ coded = 0 => op = "e_end" /\ (q.closing \/ ~q.open)
      \* Coded bytes are kept back only when the output buffer is full.
      /\ q.unsent > 0 => wrote = room
      \* A large enough one takes all that a context can still hold.
      /\ p.unsent = 0 /\ given = 0 /\ room >= MaxUnsent => q.unsent = 0
      /\ q.closing => q.open /\ q.unsent > 0 /\ q.held = 0
      /\ p.pledged => read = 0 /\ coded = 0
      /\ q.pledged = (q.open /\ (p.pledged \/ (~p.open /\ op = "e_end")))
      /\ p.closing =>
           /\ read = 0
           /\ made = 0
           /\ q.held = p.held
           /\ q.open = (q.unsent > 0)
           /\ q.closing = q.open
      /\ (~p.closing /\ op = "e_continue") =>
           /\ read < given => wrote = room
           /\ q.open
           /\ ~q.closing
      /\ (~p.closing /\ op = "e_flush") =>
           /\ q.unsent = 0 => q.held = 0 /\ read = given
           /\ q.open
           /\ ~q.closing
      /\ (~p.closing /\ op = "e_end") =>
           /\ q.unsent = 0 => q.held = 0 /\ read = given /\ made > 0
           /\ q.open = (q.unsent > 0)

(***************************************************************************)
(* A call that returns an error code instead: a new frame cannot be set    *)
(* up, and keeps the pledge of ZSTD_e_end all the same; or there is a byte *)
(* to compress in a frame pledged to have none.                            *)
(***************************************************************************)
Failure(p, op, given, q) ==
  \/ ~p.open /\ q \in {p, [p EXCEPT !.pledged = @ \/ op = "e_end"]}
  \/ /\ p.pledged /\ ~p.closing
     /\ p.held + given > 0
     /\ q = [p EXCEPT !.open = TRUE, !.held = 1]
=============================================================================

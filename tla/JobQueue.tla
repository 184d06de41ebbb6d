------------------------------ MODULE JobQueue ------------------------------
(***************************************************************************)
(* What a thread pool promises: jobs are taken in the order in which they  *)
(* were accepted, and each of them is run once.                            *)
(***************************************************************************)
EXTENDS Sequences

CONSTANT Jobs

VARIABLES
  waiting,    \* jobs accepted and not started, oldest first
  running,
  done

QueueInit == waiting = <<>> /\ running = {} /\ done = {}

Accept(j) ==
  /\ j \in Jobs
  /\ j \notin running \cup done /\ \A i \in DOMAIN waiting : waiting[i] # j
  /\ waiting' = Append(waiting, j)
  /\ UNCHANGED <<running, done>>

Start ==
  /\ waiting # <<>>
  /\ waiting' = Tail(waiting)
  /\ running' = running \cup {Head(waiting)}
  /\ UNCHANGED done

Complete(j) ==
  /\ j \in running
  /\ running' = running \ {j}
  /\ done' = done \cup {j}
  /\ UNCHANGED waiting

QueueNext == Start \/ \E j \in Jobs : Accept(j) \/ Complete(j)
=============================================================================

------------------------------- MODULE Fifo -------------------------------
(***************************************************************************)
(* What a Queue of Queue.h promises its callers: a bounded first-in        *)
(* first-out buffer.  Every entry that enqueue() accepts is handed to the  *)
(* consumer exactly once and in the order of acceptance.                   *)
(***************************************************************************)
EXTENDS Naturals, Sequences

CONSTANTS
  Capacity,  \* the most entries that are held at once
  Data       \* the entries

VARIABLES
  fifo,      \* accepted and not yet delivered, oldest first
  out        \* the buffer the consumer receives its entry in

vars == <<fifo, out>>

\* The consumer's receive buffer is an uninitialised local in the callers.
Init ==
  /\ fifo = <<>>
  /\ out \notin Data

Put(d) ==
  /\ Len(fifo) < Capacity
  /\ fifo' = Append(fifo, d)
  /\ out' = out

Get ==
  /\ fifo # <<>>
  /\ out' = Head(fifo)
  /\ fifo' = Tail(fifo)

Next == Get \/ \E d \in Data : Put(d)

Spec == Init /\ [][Next]_vars

=============================================================================

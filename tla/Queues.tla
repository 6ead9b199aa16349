---------------------------------- MODULE Queues ----------------------------------
(***************************************************************************)
(* core/utils/src/queue.ts: what remove() and extract() leave of a queue.  *)
(* push, shift and clean are Append, Head and Tail, and the empty sequence *)
(***************************************************************************)
EXTENDS Integers, Sequences

\* The elements of a queue that are in "kept", in their order.
Rest(queue, kept) ==
  LET rest[i \in 0..Len(queue)] ==
        IF i = 0 THEN <<>>
        ELSE IF queue[i] \in kept THEN Append(rest[i - 1], queue[i])
        ELSE rest[i - 1]
  IN rest[Len(queue)]
=============================================================================

---------------------------- MODULE SessionQueue ----------------------------
(***************************************************************************)
(* Session.dequeue (light/network/Session.lua) as a function of            *)
(* Session.queue and of the number of bytes that were written.  A message  *)
(* is its length; the queue holds the lengths still to be written.         *)
(***************************************************************************)
EXTENDS Sequences, Naturals

(* Session:dequeue(channel, size).  `top' is read once, before the loop,   *)
(* and the loop goes on comparing with it after it was removed: size \div  *)
(* top messages are removed, table.remove on an empty queue doing nothing, *)
(* and what is left of size is taken from top and stored as the new head,  *)
(* which the queue gets even if it was empty.                              *)

Top(q) == q[1]

Removed(q, size) == SubSeq(q, (size \div Top(q)) + 1, Len(q))

SetHead(q, n) == <<n>> \o SubSeq(q, 2, Len(q))

(* Mutants: a message is dropped when a part of it was written; the head   *)
(* is not shortened by what was written of it; a message counts as         *)
(* complete from its first byte.                                           *)
BugDropHead(q, size) ==
  IF size = 0 THEN q
  ELSE IF size % Top(q) = 0 THEN Removed(q, size)
  ELSE SubSeq(Removed(q, size), 2, Len(q))

BugKeepHead(q, size) == IF size = 0 THEN q ELSE Removed(q, size)

BugCountPart(q, size) ==
  IF size = 0 THEN 0 ELSE (size + Top(q) - 1) \div Top(q)

QueueAfter(q, size) ==
  IF size = 0 THEN q
  ELSE IF size % Top(q) = 0 THEN Removed(q, size)
  ELSE SetHead(Removed(q, size), Top(q) - (size % Top(q)))

CountAfter(q, size) == IF size = 0 THEN 0 ELSE size \div Top(q)

(* Comparing size with the head of an empty queue is an error.             *)
DequeueRaises(q, size) == size > 0 /\ q = <<>>

(* A head of length 0 never makes size smaller.                            *)
DequeueHangs(q, size) == size > 0 /\ q # <<>> /\ Top(q) = 0

=============================================================================

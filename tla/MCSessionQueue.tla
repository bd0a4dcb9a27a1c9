--------------------------- MODULE MCSessionQueue ---------------------------
(***************************************************************************)
(* The loop of Session.dequeue as it is written, against which TLC         *)
(* compares the closed form of it in SessionQueue.                         *)
(***************************************************************************)
EXTENDS SessionQueue, SequencesExt

(* The while loop of Session.dequeue; the result is <<queue, count>>.      *)
RECURSIVE DequeueLoop(_, _, _, _)
DequeueLoop(q, top, size, n) ==
  IF size = 0 THEN <<q, n>>
  ELSE IF size > top
       THEN DequeueLoop(SubSeq(q, 2, Len(q)), top, size - top, n + 1)
  ELSE IF size = top THEN <<SubSeq(q, 2, Len(q)), n + 1>>
  ELSE <<SetHead(q, top - size), n>>

ASSUME ClosedFormIsTheLoop ==
  \A q \in BoundedSeq(1 .. 4, 3) \ {<<>>} : \A size \in 0 .. 14 :
    <<QueueAfter(q, size), CountAfter(q, size)>> = DequeueLoop(q, q[1], size, 0)
=============================================================================

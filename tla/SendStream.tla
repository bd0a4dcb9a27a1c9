------------------------------ MODULE SendStream ------------------------------
(***************************************************************************)
(* What a session promises about sending.  Messages are laid end to end in *)
(* one stream; the bytes of the stream reach the kernel in order, in any   *)
(* pieces; and onSendCompletion is called once for every message whose     *)
(* last byte the kernel has taken, and for no other.                       *)
(***************************************************************************)
EXTENDS Naturals, FiniteSets

CONSTANTS
  Sizes,     \* the lengths of the messages
  MaxBytes   \* bound on the length of the stream

VARIABLES
  total,      \* the length of the stream so far
  wire,       \* how much of it the kernel has taken
  ends,       \* where the messages end that it has not wholly taken
  completed,  \* how many completions were reported
  isOpen      \* is the connection open?

vars == <<total, wire, ends, completed, isOpen>>

Init ==
  /\ total = 0
  /\ wire = 0
  /\ ends = {}
  /\ completed = 0
  /\ isOpen = TRUE

Submit(n) ==
  /\ isOpen
  /\ total + n <= MaxBytes
  /\ total' = total + n
  /\ ends' = ends \cup {total + n}
  /\ UNCHANGED <<wire, completed, isOpen>>

Flush(k) ==
  /\ isOpen
  /\ wire + k <= total
  /\ wire' = wire + k
  /\ ends' = {e \in ends : e > wire'}
  /\ completed' = completed + Cardinality(ends \ ends')
  /\ UNCHANGED <<total, isOpen>>

Close ==
  /\ isOpen' = FALSE
  /\ UNCHANGED <<total, wire, ends, completed>>

Next ==
  \/ \E n \in Sizes : Submit(n)
  \/ \E k \in 1 .. MaxBytes : Flush(k)
  \/ Close

Spec == Init /\ [][Next]_vars
=============================================================================

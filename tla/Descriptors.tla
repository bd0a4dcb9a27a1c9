---------------------------- MODULE Descriptors ----------------------------
(***************************************************************************)
(* What the socket library does with the descriptor numbers of its         *)
(* process, without sockets: an object takes a number that nobody owns,    *)
(* remembers it, and closes the number it remembers.  A build that forgets *)
(* a number when it closes it never closes one that belongs to another; a  *)
(* build that does not forget closes the number a second time when the     *)
(* object is collected, whoever owns it by then.                           *)
(***************************************************************************)
CONSTANTS
  Fds,      \* the descriptor numbers of the process
  Objects,  \* the objects that take them through the library
  Other,    \* the rest of the process
  Nobody    \* the owner of a free number

VARIABLES
  owner,    \* owner[n]: who owns the number n
  holds,    \* holds[s]: the numbers the object s remembers
  forgets   \* does the build forget a number when it closes it?

vars == <<owner, holds, forgets>>

Init ==
  /\ owner = [n \in Fds |-> Nobody]
  /\ holds = [s \in Objects |-> {}]
  /\ forgets \in BOOLEAN

Take(s, n) ==
  /\ holds[s] = {}
  /\ owner[n] = Nobody
  /\ owner' = [owner EXCEPT ![n] = s]
  /\ holds' = [holds EXCEPT ![s] = {n}]

Freed(s) == [n \in Fds |-> IF n \in holds[s] THEN Nobody ELSE owner[n]]

Close(s) ==
  /\ owner' = Freed(s)
  /\ holds' = IF forgets THEN [holds EXCEPT ![s] = {}] ELSE holds

Collect(s) ==
  /\ owner' = Freed(s)
  /\ holds' = [holds EXCEPT ![s] = {}]

(* The rest of the process opens and closes files, databases and the like. *)
Elsewhere(n) ==
  /\ owner[n] \in {Nobody, Other}
  /\ owner' = [owner EXCEPT ![n] = IF @ = Other THEN Nobody ELSE Other]
  /\ UNCHANGED holds

Next ==
  /\ \/ \E s \in Objects : Close(s) \/ Collect(s) \/ \E n \in Fds : Take(s, n)
     \/ \E n \in Fds : Elsewhere(n)
  /\ UNCHANGED forgets

Spec == Init /\ [][Next]_vars
=============================================================================

------------------------------ MODULE MCSocket ------------------------------
(* The constants of the runs of Socket. *)
EXTENDS Socket, TLC

CONSTANTS a, b, c

(* One that is cut to 2, and one the system refuses. *)
MCHows == {3, -1}

(* The objects are interchangeable. *)
Userdata == Permutations({a, b, c})
=============================================================================

---------------------------- MODULE MCEventWorker ----------------------------
(***************************************************************************)
(* Instances of EventWorker for TLC: one listener and connections, with    *)
(* callbacks that close only their own channel, or any channel.            *)
(***************************************************************************)
EXTENDS EventWorker, TLC

CONSTANTS l, a, b

OwnReach    == [c \in IO |-> {c}]
SharedReach == [c \in IO |-> IO]

(* The connections are interchangeable.                                    *)
Connections == Permutations(IO \ Listeners)

=============================================================================

----------------------------- MODULE SessionLife -----------------------------
(***************************************************************************)
(* What a server promises its delegate (HttpServerSession.Delegate): a     *)
(* connection joins and leaves once, and the delegate is called for it,    *)
(* one callback at a time, only between the two.  A callback may end the   *)
(* connection it was called for, and is then the last one.                 *)
(***************************************************************************)
CONSTANTS
  Conns,   \* the connections
  None     \* not a connection

VARIABLES
  phase,   \* "none", "joined" or "left", per connection
  active   \* the connection whose callback is running, or None

vars == <<phase, active>>

Init ==
  /\ phase = [c \in Conns |-> "none"]
  /\ active = None

(* onJoin is the first callback of a connection.                           *)
Join(c) ==
  /\ active = None
  /\ phase[c] = "none"
  /\ phase' = [phase EXCEPT ![c] = "joined"]
  /\ active' = c

(* onHttp, onWebSocket or onSendCompletion.                                *)
Enter(c) ==
  /\ active = None
  /\ phase[c] = "joined"
  /\ active' = c
  /\ UNCHANGED phase

Return ==
  /\ active # None
  /\ active' = None
  /\ UNCHANGED phase

(* Connections leave: the one whose callback is running, or others.        *)
Leave(S) ==
  /\ S # {}
  /\ \A c \in S : phase[c] = "joined"
  /\ phase' = [c \in Conns |-> IF c \in S THEN "left" ELSE phase[c]]
  /\ UNCHANGED active

Next ==
  \/ \E c \in Conns : Join(c) \/ Enter(c)
  \/ Return
  \/ \E S \in SUBSET Conns : Leave(S)

Spec == Init /\ [][Next]_vars
=============================================================================

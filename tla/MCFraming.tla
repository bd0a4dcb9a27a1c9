------------------------------ MODULE MCFraming ------------------------------
(***************************************************************************)
(* The messages of the run of Framing.                                     *)
(***************************************************************************)
EXTENDS Framing

(* Bodies that hold an end of line, or begin as one would end.             *)
Bodies == {<<>>, <<120>>, <<CR, LF>>, <<LF, 120, CR>>}

Request(start, fields, body) == [start |-> start, fields |-> fields, body |-> body]

(* What the library itself packs, but for values of several words; requests*)
(* without a content-length, for frames, and not well formed.              *)
MCRequests ==
  {Packed(fields, body) : fields \in {<<>>, <<Field>>}, body \in Bodies} \cup
  {Request(Start, <<Field>>, <<>>),
   Request(Start, <<UpgradeTo>>, <<>>),
   Request(Start, <<KeepAlive, OwnAgent, ToClose>>, <<>>),
   Request(Start, <<Length(1), Field>>, <<120>>),
   Request(Bad, <<Field>>, <<>>)}

(* The header every response of the library has: "server: Light v0.1".     *)
OwnRequests == {Packed(<<Words>>, <<120>>)}

(* A message with neither headers nor a body.                              *)
BareRequests == {Request(Start, <<>>, <<>>)}

(* Frames around the lengths where the encoding of the length changes, the *)
(* last one masked and too long.                                           *)
Payload(n) == [i \in 1 .. n |-> IF i \in {1, 5} THEN 1 ELSE 0]

Frame(fin, opCode, masking, n) ==
  [fin |-> fin, opCode |-> opCode, masking |-> masking, payload |-> Payload(n)]

MCFrames ==
  {Frame(TRUE, 9, <<>>, 0), Frame(FALSE, 1, <<0, 1, 1, 0>>, 6),
   Frame(TRUE, 2, <<>>, 125), Frame(TRUE, 1, <<1, 0, 0, 0>>, 126),
   Frame(FALSE, 0, <<>>, 127), Frame(TRUE, 2, <<1, 0, 0, 0>>, 127)}

(* They are of the kinds the theorems of FramingProofs are about.          *)
ASSUME MCMessages == MCRequests \subseteq HttpMessage /\ MCFrames \subseteq WsMessage
=============================================================================

------------------------------ MODULE Protocol ------------------------------
(***************************************************************************)
(* What the two protocols share: what unpacking returns, and how bytes of  *)
(* a source are asked for and taken.                                       *)
(***************************************************************************)
EXTENDS Sequences, Integers

(* The status of an onUnpack(), the protocol object after it, and the      *)
(* object's offset, which counts from 1.                                   *)
Result(s, p, o) == [status |-> s, protocol |-> p, offset |-> o]

CheckNeed(source, offset, size) == Len(source) >= (offset - 1) + size

PacketSlice(source, offset, size) == SubSeq(source, offset, (offset - 1) + size)
=============================================================================

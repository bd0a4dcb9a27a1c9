------------------------------ MODULE MCCodec ------------------------------
(* The constants of the run of Codec. *)
EXTENDS Codec

(* Single bytes with all bits clear, all set, and a pair of digits of      *)
(* base64; then runs that end near the place where the length still fits   *)
(* in a block and near the end of a block, and one of two blocks and more. *)
Run(n, first) == [i \in 1 .. n |-> ((first + 37 * i) % 255) + 1]

MCPieces == {<<0>>, <<255>>, <<77, 97>>, Run(54, 3), Run(63, 90), Run(129, 7)}

(* The words with few and with almost all bits. *)
MCEdgeWords == {{}, {0}, {28}, {29}, {31}, 3 .. 31, 0 .. 31}
=============================================================================

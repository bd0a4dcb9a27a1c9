-------------------------- MODULE WebSocketProtocol --------------------------
(***************************************************************************)
(* WebSocketProtocol (light/network/protocol/WebSocketProtocol.lua) as a   *)
(* parser for Framing.                                                     *)
(*                                                                         *)
(* Bytes are numbers.  A byte of a payload or of a masking key is 0 or 1:  *)
(* exclusive or works on each bit alone.                                   *)
(***************************************************************************)
EXTENDS Protocol

CONSTANTS
  MediumMax,          \* the longest payload with a two-byte length, 65535
  MaxArgs             \* how many values the interpreter returns from, or
                      \*   passes to, one call: some thousand

ASSUME WebSocketAssumption ==
  /\ MediumMax \in Nat /\ 125 <= MediumMax /\ MediumMax < 65536
  /\ MaxArgs \in Nat

Flag == 128             \* FLAG_FIN and FLAG_MASK

(* A number in two and in eight bytes, the highest first, and back.        *)
Two(n) == <<(n \div 256) % 256, n % 256>>

Above(n) == n \div 65536

Eight(n) ==
  Two(Above(Above(Above(n)))) \o Two(Above(Above(n))) \o Two(Above(n)) \o Two(n)

Pair(bytes, i) == 256 * bytes[i] + bytes[i + 1]

Number(bytes) ==
  IF Len(bytes) = 2 THEN Pair(bytes, 1)
  ELSE 65536 * (65536 * (65536 * Pair(bytes, 1) + Pair(bytes, 3)) + Pair(bytes, 5))
         + Pair(bytes, 7)

Xor(payload, masking) ==
  [i \in DOMAIN payload |-> (payload[i] + masking[((i - 1) % 4) + 1]) % 2]

-----------------------------------------------------------------------------
(* onPack.  A frame: fin, opCode, masking (empty if mask is not set) and   *)
(* payload.                                                                *)
Bit(b) == IF b THEN Flag ELSE 0

PackOperation(m) == <<Bit(m.fin) + m.opCode>>

PackLen(m) ==
  LET mask == Bit(m.masking # <<>>)
      len  == Len(m.payload)
  IN  CASE len < 126                        -> <<mask + len>>
        [] len >= 126 /\ len <= MediumMax   -> <<mask + 126>> \o Two(len)
        [] len >= 126 /\ len > MediumMax    -> <<mask + 127>> \o Eight(len)

PackPayload(m) == IF m.masking = <<>> THEN m.payload ELSE Xor(m.payload, m.masking)

WsEncoded(m) == PackOperation(m) \o PackLen(m) \o m.masking \o PackPayload(m)

WsDecoded(p) ==
  [fin |-> p.fin, opCode |-> p.opCode, masking |-> p.masking, payload |-> p.payload]

(* Every frame is accepted, but a masked one of more bytes than a call has *)
(* values raises.                                                          *)
WsWellFormed(m) == m.masking # <<>> => Len(m.payload) <= MaxArgs

-----------------------------------------------------------------------------
(* WebSocketProtocol:new.  lenSize is that of packetType, MEDIUM or LARGE. *)
NewWs ==
  [state |-> "operation", fin |-> TRUE, opCode |-> 0, mask |-> FALSE,
   masking |-> <<>>, length |-> 0, lenSize |-> 0, payload |-> <<>>]

(* Each state waits for a number of bytes, takes them, and moves on.       *)
Take(p, source, offset, size, status, q) ==
  IF CheckNeed(source, offset, size) THEN Result(status, q, offset + size)
  ELSE Result("pending", p, offset)

(* Mutant: fin stays set.                                                  *)
BugUnpackOperation(p, source, offset) ==
  LET data == source[offset]
  IN  Take(p, source, offset, 1, "continue",
           [p EXCEPT !.opCode = data % Flag, !.state = "len"])

UnpackOperation(p, source, offset) ==
  LET data == source[offset]
  IN  Take(p, source, offset, 1, "continue",
           [p EXCEPT !.fin = data >= Flag, !.opCode = data % Flag, !.state = "len"])

AfterLen(mask) == IF mask THEN "masking" ELSE "payload"

UnpackLen(p, source, offset) ==
  LET data == source[offset]
      mask == data >= Flag
      len  == data % Flag
      q    == [p EXCEPT !.mask = mask]
  IN  Take(p, source, offset, 1, "continue",
           IF len <= 125
           THEN [q EXCEPT !.length = len, !.state = AfterLen(mask)]
           ELSE [q EXCEPT !.lenSize = IF len = 126 THEN 2 ELSE 8,
                          !.state = "extlen"])

UnpackEXTLen(p, source, offset) ==
  Take(p, source, offset, p.lenSize, "continue",
       [p EXCEPT !.length = Number(PacketSlice(source, offset, p.lenSize)),
                 !.state = AfterLen(p.mask)])

UnpackMasking(p, source, offset) ==
  Take(p, source, offset, 4, "continue",
       [p EXCEPT !.masking = PacketSlice(source, offset, 4), !.state = "payload"])

(* A masked payload goes through bytes:byte(1, n) and unpack(transformed), *)
(* which raise for too many values; the offset is past it by then.         *)
UnpackPayload(p, source, offset) ==
  LET bytes == PacketSlice(source, offset, p.length)
  IN  IF p.mask /\ p.length > MaxArgs
      THEN Take(p, source, offset, p.length, "raise", p)
      ELSE Take(p, source, offset, p.length, "complete",
                [p EXCEPT !.payload = IF p.mask THEN Xor(bytes, p.masking)
                                      ELSE bytes,
                          !.state = "operation"])

WsOnUnpack(p, source, offset) ==
  CASE p.state = "operation" -> UnpackOperation(p, source, offset)
    [] p.state = "len"       -> UnpackLen(p, source, offset)
    [] p.state = "extlen"    -> UnpackEXTLen(p, source, offset)
    [] p.state = "masking"   -> UnpackMasking(p, source, offset)
    [] p.state = "payload"   -> UnpackPayload(p, source, offset)

-----------------------------------------------------------------------------
(* The frames it can parse: masked or not, with a payload of bits whose    *)
(* length eight bytes can hold.                                            *)
Frame7 == 0 .. 127

WsMessage ==
  {m \in [fin : BOOLEAN, opCode : Frame7, masking : Seq({0, 1}), payload : Seq({0, 1})] :
     /\ Len(m.masking) \in {0, 4}
     /\ Above(Above(Above(Len(m.payload)))) < 65536}
=============================================================================

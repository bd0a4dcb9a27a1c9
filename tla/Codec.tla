------------------------------- MODULE Codec -------------------------------
(***************************************************************************)
(* The two codecs beside the sockets, and the functions Lua calls them     *)
(* by.  A text grows by pieces, and a sha1 context is given every piece as *)
(* it comes; every function is asked about every text that can arise.      *)
(***************************************************************************)
EXTENDS Sha1, Base64

F180 == INSTANCE Fips180

CONSTANTS
  Pieces,       \* byte strings a text is built from
  MaxPieces,    \* bound: the pieces of a text
  EdgeWords     \* words the counter of bits is tried with

(* The length of a text is a UInt32, as a parameter of sha1_update is.     *)
IsLength(n) == n \div 65536 < 65536

ASSUME PiecesAssumption == \A piece \in Pieces : piece \in Seq(Bytes) \ {<<>>} /\ IsLength(Len(piece))
ASSUME BoundAssumption == MaxPieces \in Nat
ASSUME EdgeAssumption == EdgeWords \subseteq UInt32

VARIABLES
  text,     \* the bytes so far
  pieces,   \* how many pieces they are
  ctx       \* the sha1 context that was given them

vars == <<text, pieces, ctx>>

Init ==
  /\ text = <<>>
  /\ pieces = 0
  /\ ctx = sha1_starts

(* Mutant: the bytes are read as signed ones. *)
FeedSigned(piece) ==
  /\ pieces < MaxPieces
  /\ text' = text \o piece
  /\ pieces' = pieces + 1
  /\ ctx' = sha1_update(ctx, [i \in DOMAIN piece |-> IF piece[i] > 127 THEN piece[i] - 256 ELSE piece[i]])

Feed(piece) ==
  /\ pieces < MaxPieces
  /\ text' = text \o piece
  /\ pieces' = pieces + 1
  /\ ctx' = sha1_update(ctx, piece)

Next == \E piece \in Pieces : Feed(piece)

Spec == Init /\ [][Next]_vars

------------------------------------------------------------------------------
(* The functions of Lua.  They pass a C string and return one: both end at *)
(* the first zero byte.                                                    *)

CString(s) ==
  LET zeros == {k \in 1 .. Len(s) : s[k] = 0} IN IF zeros = {} THEN s ELSE SubSeq(s, 1, Min(zeros) - 1)

(* Not a byte string: there is no answer where new throws for a negative   *)
(* size, and none to rely on where the arithmetic on int overflows.        *)
NoAnswer == <<-1>>

(* The size announced for the encoding, and one more, is an int above zero. *)
Encodable(origin) == base64encode_len(ToInt(Len(origin))) \in 1 .. IntMax - 1

(* Encoded are the bytes that the length, made an int, leaves. *)
Taken(origin) == SubSeq(origin, 1, ToInt(Len(origin)))

(* Neither nprbytes + 3 overflows nor a negative inlen counted down. *)
Decodable(encoded) ==
  LET inlen == ToInt(Len(encoded))
      n == nprbytes(Seen(encoded))
  IN  n + 3 <= IntMax /\ (inlen < 0 => n <= inlen + IntMax + 1)

SocketBase64Encode(origin) ==
  LET str == CString(origin)
  IN  IF Encodable(str) THEN CString(base64encode(Taken(str))) ELSE NoAnswer

SocketBase64Decode(encoded) ==
  LET str == CString(encoded)
  IN  IF Decodable(str) THEN CString(base64decode(Seen(str)).out) ELSE NoAnswer

nr2char(n) == IF n <= 9 THEN 48 + n ELSE 97 + n - 10

DigestOf(str) == sha1_finish(sha1_update(sha1_starts, CString(str)))

SocketSHA1(str) == CString(DigestOf(str))

(* Mutant: the low digit of a byte comes first. *)
HexSwapped(str) ==
  LET digest == DigestOf(str)
  IN  FlattenSeq([i \in 1 .. 20 |-> <<nr2char(digest[i] % 16), nr2char(digest[i] \div 16)>>])

SocketSHA1Hex(str) ==
  LET digest == DigestOf(str)
  IN  FlattenSeq([i \in 1 .. 20 |-> <<nr2char(digest[i] \div 16), nr2char(digest[i] % 16)>>])

------------------------------------------------------------------------------
(* Properties. *)

(* Every variable has its type. *)
TypeOK ==
  /\ text \in Seq(Bytes)
  /\ pieces \in 0 .. MaxPieces
  /\ ctx \in sha1_context

Joined(low, high) == low \cup {i + 32 : i \in high}

(* However a message is cut into pieces, the context has taken in the      *)
(* whole blocks of it as FIPS 180-1 does, holds the rest at the beginning  *)
(* of its buffer, and counts the bits of both (sha1_update, sha1.c:195-230). *)
Absorbs ==
  LET whole == Len(text) \div 64
  IN  /\ Joined(ctx.total[0], ctx.total[1]) = {i + 3 : i \in BitsOf(Len(text), 61)}
      /\ \A k \in 0 .. 4 : ctx.state[k] = F180!Chained(text, whole)[k + 1]
      /\ \A k \in 1 .. Len(text) % 64 : ctx.buffer[k] = text[64 * whole + k]

(* However a message is cut into pieces, and wherever the cuts fall in a   *)
(* block, the digest is the one FIPS 180-1 gives the whole of it           *)
(* (sha1_update, sha1_finish, sha1.c:195-259).                             *)
StreamsAsWhole == sha1_finish(ctx) = F180!Digest(text)

(* A text whose encoding, with the two bytes allocated behind it, still    *)
(* has a length that is an int: up to about 1.6 gigabytes.                 *)
FitsInt(in) == 4 * ((Len(in) + 2) \div 3) + 2 <= IntMax

(* Encoding and decoding give the text back, with its length, as the       *)
(* example of base64.h:68-107 asserts, and the two Lua functions do for    *)
(* every text without a zero byte, while the lengths are ints              *)
(* (base64.c:95-173, socket.cpp:500-546).                                  *)
RoundTrip ==
  FitsInt(text) =>
    /\ LET decoded == base64decode(base64encode(text)) IN decoded.out = text /\ decoded.outlen = Len(text)
    /\ 0 \notin Range(text) => SocketBase64Decode(SocketBase64Encode(text)) = text

(* The encoding is the bits of the text, taken six at a time and filled up *)
(* with zeros, then '=' up to a multiple of four, while the lengths are    *)
(* ints (base64.c:145-173).                                                *)
Weight == <<128, 64, 32, 16, 8, 4, 2, 1>>

EncodesBits ==
  LET bit(k) == IF k < 8 * Len(text) THEN (text[k \div 8 + 1] \div Weight[(k % 8) + 1]) % 2 ELSE 0
      digit(k) == 32 * bit(k) + 16 * bit(k + 1) + 8 * bit(k + 2) + 4 * bit(k + 3) + 2 * bit(k + 4) + bit(k + 5)
      encoded == base64encode(text)
  IN  FitsInt(text) =>
        /\ Len(encoded) % 4 = 0 /\ 3 * Len(encoded) \in 4 * Len(text) .. 4 * Len(text) + 8
        /\ \A j \in 0 .. Len(encoded) - 1 :
             encoded[j + 1] = IF 6 * j < 8 * Len(text) THEN basis_64[digit(6 * j)] ELSE Equals

(* What the C functions write fits the buffers the Lua functions allocate, *)
(* with the zero byte at the end, for every text that is not turned away:  *)
(* also one that is no encoding, and one whose length wraps round when it  *)
(* becomes an int, so that only its beginning is taken                     *)
(* (base64.c:79-173, socket.cpp:502-504, :526-528).                        *)
BuffersFit ==
  /\ Encodable(text) => Len(base64encode(Taken(text))) + 1 <= base64encode_len(ToInt(Len(text)))
  /\ Decodable(text) =>
       LET decoded == base64decode(Seen(text))
       IN  Len(decoded.out) + 1 <= base64decode_len(Seen(text)) /\ decoded.outlen = Len(decoded.out)

(* The first two test vectors of sha1.c:270-282, which a build without     *)
(* TEST never runs; the state does not matter to them, one is enough.      *)
VectorsHold ==
  text = <<>> =>
    /\ DigestOf(<<97, 98, 99>>) =
         <<\ha9, \h99, \h3e, \h36, \h47, \h06, \h81, \h6a, \hba, \h3e,
           \h25, \h71, \h78, \h50, \hc2, \h6c, \h9c, \hd0, \hd8, \h9d>>
    /\ DigestOf([i \in 1 .. 56 |-> 97 + (i - 1) \div 4 + ((i - 1) % 4)]) =
         <<\h84, \h98, \h3e, \h44, \h1c, \h3b, \hd2, \h6e, \hba, \hae,
           \h4a, \ha1, \hf9, \h51, \h29, \he5, \he5, \h46, \h70, \hf1>>

(* The counter of bits is a 64-bit sum, also where the lower word wraps    *)
(* round and where the length has bits above the 29th (sha1.c:204-208).    *)
CountsBits ==
  \A low \in EdgeWords \cup {ctx.total[0]}, high, length \in EdgeWords :
    LET total == Counted([i \in 0 .. 1 |-> IF i = 0 THEN low ELSE high], length)
    IN  Joined(total[0], total[1]) = WordSum(Joined(low, high), {i + 3 : i \in length}, 64)

(* The digits of sha1hex() are those of the digest, for every text without *)
(* a zero byte whose length is a UInt32 (socket.cpp:548-592).  The digest  *)
(* itself, as sha1() returns it, is in DigestWhole.                        *)
Digits(bytes) ==
  LET code == [d \in 0 .. 15 |-> IF d < 10 THEN 48 + d ELSE 87 + d]
  IN  [k \in 1 .. 2 * Len(bytes) |->
         code[(bytes[(k + 1) \div 2] \div (IF k % 2 = 1 THEN 16 ELSE 1)) % 16]]

HexIsDigest ==
  0 \notin Range(text) /\ IsLength(Len(text)) => SocketSHA1Hex(text) = Digits(F180!Digest(text))

(* socket.sha1() returns the whole digest, which the answer to a websocket *)
(* handshake is made from (HttpSession.lua:71): false for a digest with a  *)
(* zero byte, because it is returned as a C string (socket.cpp:567).       *)
DigestWhole == Len(SocketSHA1(text)) = 20
=============================================================================

------------------------------- MODULE Base64 -------------------------------
(***************************************************************************)
(* base64.c: a text and its encoding are sequences of bytes.  The C        *)
(* functions are given a buffer of the announced length; what they write   *)
(* is their result here, without the zero byte at its end.                 *)
(***************************************************************************)
EXTENDS Integers, Sequences

CONSTANT IntMax   \* the largest int: 2^31 - 1 in the code's builds

ASSUME IntAssumption == IntMax \in Nat /\ IntMax % 4 = 3

(* A length, a size_t, as the int the C functions are given: a longer one  *)
(* wraps round.                                                            *)
ToInt(n) ==
  LET wrapped == n % (2 * (IntMax + 1))
  IN  IF n <= IntMax THEN n ELSE IF wrapped <= IntMax THEN wrapped ELSE wrapped - 2 * (IntMax + 1)

(* C division by three, which rounds towards zero. *)
Third(n) == IF n >= 0 THEN n \div 3 ELSE -((-n) \div 3)

(* The characters A..Z, a..z, 0..9, + and / stand for 0 .. 63. *)
basis_64 == [d \in 0 .. 63 |->
  CASE d < 26 -> 65 + d
    [] d \in 26 .. 51 -> 71 + d
    [] d \in 52 .. 61 -> d - 4
    [] d = 62 -> 43
    [] d = 63 -> 47]

(* 64 for every other byte. *)
pr2six == [c \in 0 .. 255 |->
  IF \E d \in 0 .. 63 : basis_64[d] = c THEN CHOOSE d \in 0 .. 63 : basis_64[d] = c ELSE 64]

Equals == 61

(* The buffer an encoding needs.  C leaves it undefined where a result is  *)
(* beyond int: no caller below goes on with such a length.                 *)
base64encode_len(len) == 4 * Third(len + 2) + 1

(* Mutant: the third digit takes its low half from the wrong byte. *)
QuadSwapped(a, b, c) ==
  <<basis_64[a \div 4], basis_64[(a % 4) * 16 + b \div 16],
    basis_64[(c % 16) * 4 + b \div 64], basis_64[c % 64]>>

(* Three bytes as four digits. *)
Quad(a, b, c) ==
  <<basis_64[a \div 4], basis_64[(a % 4) * 16 + b \div 16],
    basis_64[(b % 16) * 4 + c \div 64], basis_64[c % 64]>>

(* The character written at place p: of a group of three bytes, or of the  *)
(* incomplete one behind the loop, the digits that its bytes reach, filled *)
(* up with '='.                                                            *)
base64encode(in) ==
  LET at(i) == IF i <= Len(in) THEN in[i] ELSE 0
      char(i, q) == IF i + q <= Len(in) + 1 THEN Quad(at(i + 1), at(i + 2), at(i + 3))[q] ELSE Equals
  IN  [p \in 1 .. 4 * ((Len(in) + 2) \div 3) |-> char(3 * ((p - 1) \div 4), ((p - 1) % 4) + 1)]

(* The characters a loop over "inlen" of them looks at: a negative inlen   *)
(* does not end the loop.                                                  *)
Seen(in) == LET inlen == ToInt(Len(in)) IN IF inlen < 0 THEN in ELSE SubSeq(in, 1, inlen)

(* nprbytes: the characters before the first one that is no digit. *)
nprbytes(in) ==
  LET stops == {k \in 1 .. Len(in) : pr2six[in[k]] = 64}
  IN  IF stops = {} THEN Len(in) ELSE (CHOOSE k \in stops : \A j \in stops : k <= j) - 1

(* Mutant: an incomplete group is not counted. *)
decode_lenDown(in) == 3 * (nprbytes(in) \div 4) + 1

base64decode_len(in) == 3 * ((nprbytes(in) + 3) \div 4) + 1

(* The i-th of the three bytes of a group of four digits. *)
Byte(d, i) ==
  CASE i = 1 -> (d[1] * 4 + d[2] \div 16) % 256
    [] i = 2 -> (d[2] * 16 + d[3] \div 4) % 256
    [] i = 3 -> (d[3] * 64 + d[4]) % 256

(* Mutant: as many bytes as digits. *)
LeftOverAll(m) == IF m = 4 THEN 3 ELSE m

(* The bytes of the last one to four digits; one digit alone is ignored. *)
LeftOver(m) == IF m = 0 THEN 0 ELSE m - 1

(* The bytes written, of all groups of four digits and of the last one to  *)
(* four, and the length reported beside them.                              *)
base64decode(in) ==
  LET n == nprbytes(in)
      groups == IF n = 0 THEN 0 ELSE (n - 1) \div 4
      m == n - 4 * groups
      d(i) == IF i <= n THEN pr2six[in[i]] ELSE 0
      group(i) == <<d(i + 1), d(i + 2), d(i + 3), d(i + 4)>>
  IN  [out |-> [p \in 1 .. 3 * groups + LeftOver(m) |-> Byte(group(4 * ((p - 1) \div 3)), ((p - 1) % 3) + 1)],
       outlen |-> 3 * ((n + 3) \div 4) - ((4 - m) % 4)]
=============================================================================

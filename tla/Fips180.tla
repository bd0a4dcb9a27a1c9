------------------------------ MODULE Fips180 ------------------------------
(***************************************************************************)
(* SHA-1 as FIPS 180-1 states it, for the whole message at once: what the  *)
(* context of sha1.c has to compute.  The words and their operators are    *)
(* the only thing shared with Sha1.                                        *)
(***************************************************************************)
EXTENDS Words, SequencesExt

(* The length of a message in bits, in eight bytes, the highest first; a   *)
(* length of 2^64 bits or more is taken modulo 2^64.                       *)
LengthInBits(n) ==
  LET high == n \div 536870912
  IN  <<(high \div 16777216) % 256, (high \div 65536) % 256, (high \div 256) % 256, high % 256,
        (n \div 2097152) % 256, (n \div 8192) % 256, (n \div 32) % 256, 8 * (n % 32)>>

(* The message, a one bit, zeros, and its length, in 64-byte blocks.       *)
PaddedMessage(text) ==
  LET zeros == (119 - (Len(text) % 64)) % 64
  IN  text \o <<128>> \o [i \in 1 .. zeros |-> 0] \o LengthInBits(Len(text))

(* The schedule of 80 words, the first 16 of which are the block.          *)
Extended(w) ==
  LET t == Len(w) + 1
  IN  Append(w, S(SymDiff(SymDiff(w[t - 3], w[t - 8]), SymDiff(w[t - 14], w[t - 16])), 1))

Schedule(block) ==
  Looped(block, [t \in 1 .. 64 |-> [w \in Seq(UInt32) |-> Extended(w)]], 64)

Choose(x, y, z) == (x \cap y) \cup (z \ x)

Parity(x, y, z) == SymDiff(x, SymDiff(y, z))

Majority(x, y, z) == (x \cap y) \cup (x \cap z) \cup (y \cap z)

Constant(b1, b2, b3, b4) == GET_UINT32(<<b1, b2, b3, b4>>, 1)

(* h holds the five words A to E, and word is that of the schedule.        *)
Step(h, word, t) ==
  LET sum(f, k) == Plus(S(h[1], 5), Plus(Plus(f, h[5]), Plus(word, k)))
      temp == CASE t \in 1 .. 20 -> sum(Choose(h[2], h[3], h[4]), Constant(90, 130, 121, 153))
                [] t \in 21 .. 40 -> sum(Parity(h[2], h[3], h[4]), Constant(110, 217, 235, 161))
                [] t \in 41 .. 60 -> sum(Majority(h[2], h[3], h[4]), Constant(143, 27, 188, 220))
                [] t \in 61 .. 80 -> sum(Parity(h[2], h[3], h[4]), Constant(202, 98, 193, 214))
  IN  [h EXCEPT ![1] = temp, ![2] = h[1], ![3] = S(h[2], 30), ![4] = h[3], ![5] = h[4]]

Compressed(h, w) ==
  Looped(h, [t \in 1 .. Len(w) |-> [x \in [1 .. 5 -> UInt32] |-> Step(x, w[t], t)]], Len(w))

Start == <<Constant(103, 69, 35, 1), Constant(239, 205, 171, 137), Constant(152, 186, 220, 254),
           Constant(16, 50, 84, 118), Constant(195, 210, 225, 240)>>

(* The block of the message that starts at message[i], and as many blocks  *)
(* from the first.                                                         *)
Chain(h, message, i) ==
  LET g == Compressed(h, Schedule([k \in 1 .. 16 |-> GET_UINT32(message, i + 4 * (k - 1))]))
  IN  [k \in 1 .. 5 |-> Plus(h[k], g[k])]

Chained(message, blocks) ==
  LET after[b \in 0 .. blocks] == IF b = 0 THEN Start ELSE Chain(after[b - 1], message, 64 * (b - 1) + 1)
  IN  after[blocks]

Digest(text) ==
  LET message == PaddedMessage(text)
      h == Chained(message, Len(message) \div 64)
  IN  FlattenSeq([k \in 1 .. 5 |-> PUT_UINT32(h[k])])
=============================================================================

------------------------------- MODULE Words -------------------------------
(***************************************************************************)
(* Unsigned words as the set of the bits that are one, 0 the lowest, so    *)
(* that the bitwise operators of C are those of sets: & is intersection,   *)
(* | union, ^ the symmetric difference, and ~ the complement.              *)
(***************************************************************************)
EXTENDS Integers, Sequences, FiniteSetsExt

Bytes == 0 .. 255

(* UInt32 of basic.h. *)
Bits == 0 .. 31
UInt32 == SUBSET Bits

(* The bits of a number, and the number of the bits of a byte. *)
BitsOf(n, width) ==
  LET half[i \in 0 .. width] == IF i = 0 THEN n ELSE half[i - 1] \div 2
  IN  {i \in 0 .. width - 1 : half[i] % 2 = 1}

Number(x) ==
  LET bit(i) == IF i \in x THEN 1 ELSE 0
  IN  bit(0) + 2 * bit(1) + 4 * bit(2) + 8 * bit(3)
        + 16 * bit(4) + 32 * bit(5) + 64 * bit(6) + 128 * bit(7)

(* x << n and x >> n. *)
Left(x, n) == {i + n : i \in x} \cap Bits

Right(x, n) == {i - n : i \in x} \cap Bits

(* A sum of words of the given width: a carry reaches bit i from a lower   *)
(* bit that both have, if every bit between them is in one of the two.     *)
WordSum(x, y, width) ==
  LET both == x \cap y
      any == x \cup y
      carries == {i \in 1 .. width - 1 : \E j \in both : j < i /\ \A k \in j + 1 .. i - 1 : k \in any}
  IN  SymDiff(SymDiff(x, y), carries)

(* Modulo 2^32, as C adds unsigned words. *)
Plus(x, y) == WordSum(x, y, 32)

(* x < y. *)
Less(x, y) ==
  LET differ == SymDiff(x, y) IN differ # {} /\ Max(differ) \in y

(* GET_UINT32: the word whose first byte is b[i], the highest first. *)
GET_UINT32(b, i) == {k \in Bits : (b[i + 3 - k \div 8] \div 2 ^ (k % 8)) % 2 = 1}

(* PUT_UINT32: the four bytes of a word. *)
PUT_UINT32(x) == [i \in 1 .. 4 |-> Number(Right(x, 8 * (4 - i)) \cap 0 .. 7)]

(* What n steps of a loop make of first.  A step is a function, so that    *)
(* what it is given is a value when it begins.                             *)
Looped(first, step, n) ==
  LET after[t \in 0 .. n] == IF t = 0 THEN first ELSE step[t][after[t - 1]]
  IN  after[n]

(* The macro S(x, n) of sha1.c: a rotation. *)
S(x, n) == Left(x, n) \cup Right(x, 32 - n)
=============================================================================

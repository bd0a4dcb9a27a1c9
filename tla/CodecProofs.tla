----------------------------- MODULE CodecProofs -----------------------------
(***************************************************************************)
(* Theorems about base64, while the lengths are ints: the encoding is the  *)
(* bits of the text, decoding it gives the text back, and no buffer is too *)
(* small; and about sha1, for every way a text is cut into pieces: the     *)
(* count of bits is a sum of 64 bits, the context has its type and has     *)
(* taken in the text as FIPS 180-1 does, and the digest and its digits are *)
(* the standard's.                                                         *)
(***************************************************************************)
EXTENDS Codec, TLAPS, SequenceTheorems, WellFoundedInduction

Digit == 0 .. 63

(* The characters that stand for the digits, and the way back. *)
LEMMA Basis ==
  ASSUME NEW d \in Digit
  PROVE  /\ d < 26 => basis_64[d] = 65 + d
         /\ d \in 26 .. 51 => basis_64[d] = 71 + d
         /\ d \in 52 .. 61 => basis_64[d] = d - 4
         /\ d = 62 => basis_64[d] = 43
         /\ d = 63 => basis_64[d] = 47
  <1>1. basis_64[d] = CASE d < 26 -> 65 + d
                    [] d \in 26 .. 51 -> 71 + d
                    [] d \in 52 .. 61 -> d - 4
                    [] d = 62 -> 43
                    [] d = 63 -> 47
    BY DEF basis_64, Digit
  <1>2. d \in Int
    BY DEF Digit
  <1>3. d < 26 => basis_64[d] = 65 + d
    BY ONLY <1>1, <1>2
  <1>4. d \in 26 .. 51 => basis_64[d] = 71 + d
    BY ONLY <1>1, <1>2
  <1>5. d \in 52 .. 61 => basis_64[d] = d - 4
    BY ONLY <1>1, <1>2
  <1>6. d = 62 => basis_64[d] = 43
    BY ONLY <1>1, <1>2
  <1>7. d = 63 => basis_64[d] = 47
    BY ONLY <1>1, <1>2
  <1> QED
    BY <1>3, <1>4, <1>5, <1>6, <1>7

LEMMA DigitKept ==
  /\ \A d \in Digit : /\ basis_64[d] \in 1 .. 255 /\ basis_64[d] # Equals
                      /\ pr2six[basis_64[d]] = d
  /\ pr2six[Equals] = 64
  <1>1. ASSUME NEW d \in Digit
        PROVE  \/ d < 26 /\ basis_64[d] = 65 + d
               \/ d \in 26 .. 51 /\ basis_64[d] = 71 + d
               \/ d \in 52 .. 61 /\ basis_64[d] = d - 4
               \/ d = 62 /\ basis_64[d] = 43
               \/ d = 63 /\ basis_64[d] = 47
    <2>1. d < 26 \/ d \in 26 .. 51 \/ d \in 52 .. 61 \/ d = 62 \/ d = 63
      BY DEF Digit
    <2> QED
      BY <2>1, Basis
  <1>2. \A d \in Digit : basis_64[d] \in 1 .. 255 /\ basis_64[d] # Equals
    BY <1>1 DEF Digit, Equals
  <1>3. \A d, c \in Digit : basis_64[d] = basis_64[c] => d = c
    <2> SUFFICES ASSUME NEW d \in Digit, NEW c \in Digit, basis_64[d] = basis_64[c]
                 PROVE  d = c
      OBVIOUS
    <2> DEFINE x == basis_64[d]
               y == basis_64[c]
    <2>1. \/ d < 26 /\ x = 65 + d
          \/ d \in 26 .. 51 /\ x = 71 + d
          \/ d \in 52 .. 61 /\ x = d - 4
          \/ d = 62 /\ x = 43
          \/ d = 63 /\ x = 47
      BY <1>1
    <2>2. \/ c < 26 /\ y = 65 + c
          \/ c \in 26 .. 51 /\ y = 71 + c
          \/ c \in 52 .. 61 /\ y = c - 4
          \/ c = 62 /\ y = 43
          \/ c = 63 /\ y = 47
      BY <1>1
    <2>3. x = y /\ d \in 0 .. 63 /\ c \in 0 .. 63
      BY DEF Digit
    <2> HIDE DEF x, y
    <2> QED
      BY <2>1, <2>2, <2>3
  <1>4. ASSUME NEW d \in Digit
        PROVE  pr2six[basis_64[d]] = d
    <2> DEFINE c == basis_64[d]
    <2>1. c \in 0 .. 255
      BY <1>2
    <2>2. pr2six[c] = IF \E k \in 0 .. 63 : basis_64[k] = c
                      THEN CHOOSE k \in 0 .. 63 : basis_64[k] = c ELSE 64
      BY <2>1 DEF pr2six
    <2>3. \A k \in 0 .. 63 : basis_64[k] = c => k = d
      BY <1>3 DEF Digit
    <2>4. d \in 0 .. 63 /\ basis_64[d] = c
      BY DEF Digit
    <2> HIDE DEF c
    <2>5. (CHOOSE k \in 0 .. 63 : basis_64[k] = c) = d
      BY <2>3, <2>4
    <2> QED
      BY <2>2, <2>4, <2>5 DEF c
  <1>5. pr2six[Equals] = 64
    <2>1. Equals \in 0 .. 255
      BY DEF Equals
    <2>2. ~ \E k \in 0 .. 63 : basis_64[k] = Equals
      BY <1>2 DEF Digit
    <2> QED
      BY <2>1, <2>2 DEF pr2six
  <1> QED
    BY <1>2, <1>4, <1>5

(* A set of numbers has a least one. *)
LEMMA Least ==
  ASSUME NEW T, T \subseteq Nat, T # {}
  PROVE  \E x \in T : \A y \in T : x <= y
  <1> DEFINE Order == {ss \in Nat \X Nat : ss[1] < ss[2]}
  <1>1. PICK k \in T : \A j \in T : ~(<<j, k>> \in Order)
    <2>1. IsWellFoundedOn(Order, Nat)
      BY NatLessThanWellFounded DEF OpToRel
    <2> HIDE DEF Order
    <2> QED
      BY <2>1, WFMin
  <1>2. \A j \in T : k <= j
    <2> SUFFICES ASSUME NEW j \in T PROVE k <= j
      OBVIOUS
    <2>1. j \in Nat /\ k \in Nat /\ <<j, k>> \notin Order
      BY <1>1
    <2> QED
      BY <2>1
  <1> QED
    BY <1>2

(* The digits at the beginning of a text end at its end at the latest, ... *)
LEMMA Stops ==
  ASSUME NEW s \in Seq(Bytes)
  PROVE  nprbytes(s) \in 0 .. Len(s)
  <1> DEFINE stops == {k \in 1 .. Len(s) : pr2six[s[k]] = 64}
             first == CHOOSE k \in stops : \A j \in stops : k <= j
  <1>1. Len(s) \in Nat
    OBVIOUS
  <1>2. nprbytes(s) = IF stops = {} THEN Len(s) ELSE first - 1
    BY DEF nprbytes
  <1>3. stops \subseteq Nat /\ stops \subseteq 1 .. Len(s)
    BY <1>1
  <1> HIDE DEF stops
  <1>4. CASE stops = {}
    BY <1>1, <1>2, <1>4
  <1>5. CASE stops # {}
    <2>1. \E k \in stops : \A j \in stops : k <= j
      BY <1>3, <1>5, Least
    <2>2. first \in stops
      BY <2>1
    <2>3. first \in 1 .. Len(s)
      BY <1>3, <2>2
    <2> HIDE DEF first
    <2> QED
      BY <1>1, <1>2, <1>5, <2>3
  <1> QED
    BY <1>4, <1>5

(* ... and just before the first character that is none. *)
LEMMA StopsAt ==
  ASSUME NEW s, NEW n \in Nat, Len(s) \in Nat, n <= Len(s),
         \A k \in 1 .. n : pr2six[s[k]] # 64,
         n < Len(s) => pr2six[s[n + 1]] = 64
  PROVE  nprbytes(s) = n
  <1> DEFINE stops == {k \in 1 .. Len(s) : pr2six[s[k]] = 64}
             first == CHOOSE k \in stops : \A j \in stops : k <= j
  <1>1. nprbytes(s) = IF stops = {} THEN Len(s) ELSE first - 1
    BY DEF nprbytes
  <1>2. \A k \in stops : k \in Int /\ n + 1 <= k
    <2> SUFFICES ASSUME NEW k \in stops, k < n + 1
                 PROVE  FALSE
      OBVIOUS
    <2>1. k \in 1 .. n /\ pr2six[s[k]] = 64
      OBVIOUS
    <2> QED
      BY <2>1
  <1>3. CASE n = Len(s)
    <2>1. stops = {}
      BY <1>2, <1>3
    <2> QED
      BY <1>1, <1>3, <2>1
  <1>4. CASE n < Len(s)
    <2>1. n + 1 \in stops
      BY <1>4
    <2> HIDE DEF stops
    <2>2. first = n + 1
      <3>1. \A k \in stops : (\A j \in stops : k <= j) => k = n + 1
        BY <1>2, <2>1
      <3> QED
        BY <1>2, <2>1, <3>1
    <2> HIDE DEF first
    <2>3. stops # {}
      BY <2>1
    <2> QED
      BY <1>1, <2>2, <2>3
  <1> QED
    BY <1>3, <1>4

-----------------------------------------------------------------------------
(* The digits of a group of three bytes. *)
At(s, i) == IF i <= Len(s) THEN s[i] ELSE 0

DigitsOf(a, b, c) == <<a \div 4, (a % 4) * 16 + b \div 16, (b % 16) * 4 + c \div 64, c % 64>>

Group(s, g) == DigitsOf(At(s, 3 * g + 1), At(s, 3 * g + 2), At(s, 3 * g + 3))

(* How many digits a text of n bytes has. *)
DigitCount(n) == 4 * (n \div 3) + (IF n % 3 = 0 THEN 0 ELSE (n % 3) + 1)

LEMMA GroupDigits ==
  ASSUME NEW a \in Bytes, NEW b \in Bytes, NEW c \in Bytes
  PROVE  /\ \A q \in 1 .. 4 : DigitsOf(a, b, c)[q] \in Digit
         /\ \A q \in 1 .. 4 : Quad(a, b, c)[q] = basis_64[DigitsOf(a, b, c)[q]]
  <1> DEFINE d == DigitsOf(a, b, c)
  <1>1. d[1] \in Digit
    BY DEF DigitsOf, Bytes, Digit
  <1>2. d[2] \in Digit
    <2>1. a % 4 \in 0 .. 3 /\ b \div 16 \in 0 .. 15
      BY DEF Bytes
    <2> QED
      BY <2>1 DEF DigitsOf, Digit
  <1>3. d[3] \in Digit
    <2>1. b % 16 \in 0 .. 15 /\ c \div 64 \in 0 .. 3
      BY DEF Bytes
    <2> QED
      BY <2>1 DEF DigitsOf, Digit
  <1>4. d[4] \in Digit
    BY DEF DigitsOf, Bytes, Digit
  <1>5. \A q \in 1 .. 4 : q = 1 \/ q = 2 \/ q = 3 \/ q = 4
    OBVIOUS
  <1>6. \A q \in 1 .. 4 : Quad(a, b, c)[q] = basis_64[d[q]]
    BY <1>5 DEF Quad, DigitsOf
  <1> QED
    BY <1>1, <1>2, <1>3, <1>4, <1>5, <1>6

(* The digits of a group are the bytes again. *)
LEMMA GroupBytes ==
  ASSUME NEW a \in Bytes, NEW b \in Bytes, NEW c \in Bytes, NEW d1, NEW d2, NEW d3, NEW d4
  PROVE  LET d == DigitsOf(a, b, c)
         IN  /\ d1 = d[1] /\ d2 = d[2] => Byte(<<d1, d2, d3, d4>>, 1) = a
             /\ d2 = d[2] /\ d3 = d[3] => Byte(<<d1, d2, d3, d4>>, 2) = b
             /\ d3 = d[3] /\ d4 = d[4] => Byte(<<d1, d2, d3, d4>>, 3) = c
  <1> DEFINE d == DigitsOf(a, b, c)
             a1 == a \div 4
             a2 == a % 4
             b1 == b \div 16
             b2 == b % 16
             c1 == c \div 64
             c2 == c % 64
  <1>1. /\ a = 4 * a1 + a2 /\ a1 \in 0 .. 63 /\ a2 \in 0 .. 3
        /\ b = 16 * b1 + b2 /\ b1 \in 0 .. 15 /\ b2 \in 0 .. 15
        /\ c = 64 * c1 + c2 /\ c1 \in 0 .. 3 /\ c2 \in 0 .. 63
    BY DEF Bytes
  <1>2. d[1] = a1 /\ d[2] = a2 * 16 + b1 /\ d[3] = b2 * 4 + c1 /\ d[4] = c2
    BY DEF DigitsOf
  <1>3. /\ Byte(<<d1, d2, d3, d4>>, 1) = (d1 * 4 + d2 \div 16) % 256
        /\ Byte(<<d1, d2, d3, d4>>, 2) = (d2 * 16 + d3 \div 4) % 256
        /\ Byte(<<d1, d2, d3, d4>>, 3) = (d3 * 64 + d4) % 256
    BY DEF Byte
  <1> HIDE DEF d, a1, a2, b1, b2, c1, c2
  <1>4. (a2 * 16 + b1) \div 16 = a2 /\ (b2 * 4 + c1) \div 4 = b2
    BY <1>1
  <1>5. (a1 * 4 + a2) % 256 = a
    BY <1>1
  <1>6. ((a2 * 16 + b1) * 16 + b2) % 256 = b
    BY <1>1
  <1>7. ((b2 * 4 + c1) * 64 + c2) % 256 = c
    BY <1>1
  <1>8. ASSUME d1 = d[1], d2 = d[2]
        PROVE  Byte(<<d1, d2, d3, d4>>, 1) = a
    BY <1>2, <1>3, <1>4, <1>5, <1>8
  <1>9. ASSUME d2 = d[2], d3 = d[3]
        PROVE  Byte(<<d1, d2, d3, d4>>, 2) = b
    BY <1>2, <1>3, <1>4, <1>6, <1>9
  <1>10. ASSUME d3 = d[3], d4 = d[4]
         PROVE  Byte(<<d1, d2, d3, d4>>, 3) = c
    BY <1>2, <1>3, <1>7, <1>10
  <1> QED
    BY <1>8, <1>9, <1>10 DEF d

(* A number of bytes is a number of whole groups and a rest. *)
LEMMA Counts ==
  ASSUME NEW n \in Nat
  PROVE  \E t \in Nat :
           \/ n = 3 * t /\ (n + 2) \div 3 = t /\ DigitCount(n) = 4 * t
           \/ n = 3 * t + 1 /\ (n + 2) \div 3 = t + 1 /\ DigitCount(n) = 4 * t + 2
           \/ n = 3 * t + 2 /\ (n + 2) \div 3 = t + 1 /\ DigitCount(n) = 4 * t + 3
  <1> DEFINE t == n \div 3
             r == n % 3
  <1>1. t \in Nat /\ r \in 0 .. 2 /\ n = 3 * t + r
    OBVIOUS
  <1>2. DigitCount(n) = 4 * t + (IF r = 0 THEN 0 ELSE r + 1)
    BY DEF DigitCount
  <1> HIDE DEF t, r
  <1>3. CASE r = 0
    <2>1. n = 3 * t /\ (n + 2) \div 3 = t /\ DigitCount(n) = 4 * t
      BY <1>1, <1>2, <1>3
    <2> QED
      BY <1>1, <2>1
  <1>4. CASE r = 1
    <2>1. n = 3 * t + 1 /\ (n + 2) \div 3 = t + 1 /\ DigitCount(n) = 4 * t + 2
      BY <1>1, <1>2, <1>4
    <2> QED
      BY <1>1, <2>1
  <1>5. CASE r = 2
    <2>1. n = 3 * t + 2 /\ (n + 2) \div 3 = t + 1 /\ DigitCount(n) = 4 * t + 3
      BY <1>1, <1>2, <1>5
    <2> QED
      BY <1>1, <2>1
  <1> QED
    BY <1>1, <1>3, <1>4, <1>5

(* A place in the encoding, and one in the text, is one in a group. *)
LEMMA Places ==
  ASSUME NEW p \in Nat \ {0}
  PROVE  /\ \E g \in Nat, q \in 1 .. 4 :
              p = 4 * g + q /\ (p - 1) \div 4 = g /\ ((p - 1) % 4) + 1 = q
         /\ \E g \in Nat, q \in 1 .. 3 :
              p = 3 * g + q /\ (p - 1) \div 3 = g /\ ((p - 1) % 3) + 1 = q
  <1>1. (p - 1) \div 4 \in Nat /\ (p - 1) % 4 \in 0 .. 3 /\ p - 1 = 4 * ((p - 1) \div 4) + ((p - 1) % 4)
    OBVIOUS
  <1>2. (p - 1) \div 3 \in Nat /\ (p - 1) % 3 \in 0 .. 2 /\ p - 1 = 3 * ((p - 1) \div 3) + ((p - 1) % 3)
    OBVIOUS
  <1> DEFINE g4 == (p - 1) \div 4
             q4 == (p - 1) % 4
             g3 == (p - 1) \div 3
             q3 == (p - 1) % 3
  <1> HIDE DEF g4, q4, g3, q3
  <1>3. g4 \in Nat /\ q4 + 1 \in 1 .. 4 /\ p = 4 * g4 + (q4 + 1)
    BY <1>1 DEF g4, q4
  <1>4. g3 \in Nat /\ q3 + 1 \in 1 .. 3 /\ p = 3 * g3 + (q3 + 1)
    BY <1>2 DEF g3, q3
  <1> QED
    BY <1>3, <1>4 DEF g4, q4, g3, q3

(* The place of a digit is one that the bytes of the text reach. *)
LEMMA Reach ==
  ASSUME NEW n \in Nat, NEW g \in Nat, NEW q \in 1 .. 4, 4 * g + q <= 4 * ((n + 2) \div 3)
  PROVE  3 * g + q <= n + 1 <=> 4 * g + q <= DigitCount(n)
  <1>1. PICK t \in Nat :
          \/ n = 3 * t /\ (n + 2) \div 3 = t /\ DigitCount(n) = 4 * t
          \/ n = 3 * t + 1 /\ (n + 2) \div 3 = t + 1 /\ DigitCount(n) = 4 * t + 2
          \/ n = 3 * t + 2 /\ (n + 2) \div 3 = t + 1 /\ DigitCount(n) = 4 * t + 3
    BY Counts
  <1>2. CASE n = 3 * t /\ (n + 2) \div 3 = t /\ DigitCount(n) = 4 * t
    BY <1>2
  <1>3. CASE n = 3 * t + 1 /\ (n + 2) \div 3 = t + 1 /\ DigitCount(n) = 4 * t + 2
    BY <1>3
  <1>4. CASE n = 3 * t + 2 /\ (n + 2) \div 3 = t + 1 /\ DigitCount(n) = 4 * t + 3
    BY <1>4
  <1> QED
    BY <1>1, <1>2, <1>3, <1>4

LEMMA GroupOf ==
  ASSUME NEW s \in Seq(Bytes), NEW g \in Nat
  PROVE  /\ \A q \in 1 .. 3 : At(s, 3 * g + q) \in Bytes
         /\ \A q \in 1 .. 4 : Group(s, g)[q] \in Digit
         /\ \A q \in 1 .. 4 :
              Quad(At(s, 3 * g + 1), At(s, 3 * g + 2), At(s, 3 * g + 3))[q] = basis_64[Group(s, g)[q]]
  <1>1. ASSUME NEW q \in 1 .. 3
        PROVE  At(s, 3 * g + q) \in Bytes
    <2>1. 3 * g + q \in Nat \ {0} /\ Len(s) \in Nat /\ 0 \in Bytes
      BY DEF Bytes
    <2>2. CASE 3 * g + q <= Len(s)
      <3>1. 3 * g + q \in 1 .. Len(s)
        BY <2>1, <2>2
      <3>2. s[3 * g + q] \in Bytes
        BY <3>1, ElementOfSeq
      <3> QED
        BY <2>2, <3>2 DEF At
    <2>3. CASE ~(3 * g + q <= Len(s))
      BY <2>1, <2>3 DEF At
    <2> QED
      BY <2>2, <2>3
  <1>2. /\ At(s, 3 * g + 1) \in Bytes /\ At(s, 3 * g + 2) \in Bytes /\ At(s, 3 * g + 3) \in Bytes
    BY <1>1
  <1> QED
    BY <1>1, <1>2, GroupDigits DEF Group

(* What base64encode() writes: the digits of each group, then '='. *)
LEMMA Encoding ==
  ASSUME NEW s \in Seq(Bytes)
  PROVE  LET e == base64encode(s)
         IN  /\ e \in Seq(1 .. 255) /\ Len(e) = 4 * ((Len(s) + 2) \div 3)
             /\ \A g \in Nat, q \in 1 .. 4 : 4 * g + q <= Len(e) =>
                  e[4 * g + q] = IF 4 * g + q <= DigitCount(Len(s))
                                 THEN basis_64[Group(s, g)[q]] ELSE Equals
  <1> DEFINE e == base64encode(s)
             n == Len(s)
             size == 4 * ((n + 2) \div 3)
             at(i) == IF i <= Len(s) THEN s[i] ELSE 0
             char(i, q) == IF i + q <= Len(s) + 1 THEN Quad(at(i + 1), at(i + 2), at(i + 3))[q] ELSE Equals
  <1>1. n \in Nat /\ size \in Nat
    <2>1. n \in Nat
      OBVIOUS
    <2> HIDE DEF n
    <2> QED
      BY <2>1
  <1>2. e = [p \in 1 .. size |-> char(3 * ((p - 1) \div 4), ((p - 1) % 4) + 1)]
    BY DEF base64encode
  <1>3. \A i, q : char(i, q) = IF i + q <= n + 1
                              THEN Quad(At(s, i + 1), At(s, i + 2), At(s, i + 3))[q] ELSE Equals
    BY DEF At
  <1> HIDE DEF e, char
  <1>4. ASSUME NEW g \in Nat, NEW q \in 1 .. 4, 4 * g + q <= size
        PROVE  e[4 * g + q] = IF 4 * g + q <= DigitCount(n)
                              THEN basis_64[Group(s, g)[q]] ELSE Equals
    <2> DEFINE p == 4 * g + q
    <2>1. p \in 1 .. size
      BY <1>1, <1>4
    <2>2. (p - 1) \div 4 = g /\ ((p - 1) % 4) + 1 = q
      OBVIOUS
    <2>3. e[p] = char(3 * g, q)
      <3> HIDE DEF p, size
      <3> QED
        BY <1>2, <2>1, <2>2
    <2>4. e[p] = IF 3 * g + q <= n + 1 THEN basis_64[Group(s, g)[q]] ELSE Equals
      BY <1>3, <2>3, GroupOf
    <2>5. 3 * g + q <= n + 1 <=> 4 * g + q <= DigitCount(n)
      BY <1>1, <1>4, Reach
    <2> QED
      BY <2>4, <2>5
  <1>5. \A p \in 1 .. size : e[p] \in 1 .. 255
    <2> SUFFICES ASSUME NEW p \in 1 .. size
                 PROVE  e[p] \in 1 .. 255
      OBVIOUS
    <2>1. p \in Nat \ {0}
      BY <1>1
    <2>2. PICK g \in Nat, q \in 1 .. 4 : p = 4 * g + q
      BY <2>1, Places
    <2>3. e[p] = Equals \/ e[p] = basis_64[Group(s, g)[q]]
      <3>1. 4 * g + q <= size
        BY <1>1, <2>2
      <3> HIDE DEF size, n
      <3>2. e[4 * g + q] = Equals \/ e[4 * g + q] = basis_64[Group(s, g)[q]]
        BY <1>4, <3>1
      <3> QED
        BY <2>2, <3>2
    <2>4. Equals \in 1 .. 255 /\ basis_64[Group(s, g)[q]] \in 1 .. 255
      <3>1. Group(s, g)[q] \in Digit
        BY GroupOf
      <3>2. \A d \in Digit : basis_64[d] \in 1 .. 255
        BY DigitKept
      <3>3. 61 \in 1 .. 255
        OBVIOUS
      <3> QED
        BY <3>1, <3>2, <3>3, Zenon DEF Equals
    <2> DEFINE chars == 1 .. 255
    <2>5. Equals \in chars /\ basis_64[Group(s, g)[q]] \in chars
      BY <2>4
    <2> HIDE DEF chars
    <2>6. e[p] \in chars
      BY <2>3, <2>5
    <2> QED
      BY <2>6 DEF chars
  <1>6. e \in Seq(1 .. 255) /\ Len(e) = size
    <2> HIDE DEF size
    <2>1. DOMAIN e = 1 .. size
      BY <1>2
    <2>2. e \in [1 .. size -> 1 .. 255]
      BY <1>2, <1>5, <2>1
    <2> QED
      BY <1>1, <2>2
  <1> QED
    BY <1>4, <1>6 DEF e

(* What base64decode() makes of the digits of a text. *)
LEMMA Decoding ==
  ASSUME NEW s \in Seq(Bytes), NEW in, nprbytes(in) = DigitCount(Len(s)),
         \A g \in Nat, q \in 1 .. 4 :
           4 * g + q <= DigitCount(Len(s)) => pr2six[in[4 * g + q]] = Group(s, g)[q]
  PROVE  base64decode(in).out = s /\ base64decode(in).outlen = Len(s)
  <1> DEFINE len == Len(s)
             n == nprbytes(in)
             groups == IF n = 0 THEN 0 ELSE (n - 1) \div 4
             m == n - 4 * groups
             d(i) == IF i <= n THEN pr2six[in[i]] ELSE 0
             group(i) == <<d(i + 1), d(i + 2), d(i + 3), d(i + 4)>>
             size == 3 * groups + LeftOver(m)
             outlen == 3 * ((n + 3) \div 4) - ((4 - m) % 4)
             out == [p \in 1 .. size |-> Byte(group(4 * ((p - 1) \div 3)), ((p - 1) % 3) + 1)]
  <1>1. base64decode(in).out = out /\ base64decode(in).outlen = outlen
    BY DEF base64decode
  <1>2. len \in Nat /\ n = DigitCount(len)
    OBVIOUS
  <1>3. size = len /\ outlen = len
    <2> HIDE DEF len, n
    <2>1. PICK t \in Nat :
            \/ len = 3 * t /\ n = 4 * t
            \/ len = 3 * t + 1 /\ n = 4 * t + 2
            \/ len = 3 * t + 2 /\ n = 4 * t + 3
      BY <1>2, Counts
    <2>2. CASE len = 3 * t /\ n = 4 * t /\ t = 0
      BY <2>2 DEF LeftOver
    <2>3. CASE len = 3 * t /\ n = 4 * t /\ t # 0
      <3>1. groups = t - 1 /\ (n + 3) \div 4 = t
        BY <2>3
      <3> HIDE DEF groups
      <3>2. m = 4
        BY <2>3, <3>1
      <3> QED
        BY <2>3, <3>1, <3>2 DEF LeftOver
    <2>4. CASE len = 3 * t + 1 /\ n = 4 * t + 2
      <3>1. groups = t /\ (n + 3) \div 4 = t + 1
        BY <2>4
      <3> HIDE DEF groups
      <3>2. m = 2
        BY <2>4, <3>1
      <3> QED
        BY <2>4, <3>1, <3>2 DEF LeftOver
    <2>5. CASE len = 3 * t + 2 /\ n = 4 * t + 3
      <3>1. groups = t /\ (n + 3) \div 4 = t + 1
        BY <2>5
      <3> HIDE DEF groups
      <3>2. m = 3
        BY <2>5, <3>1
      <3> QED
        BY <2>5, <3>1, <3>2 DEF LeftOver
    <2> QED
      BY <2>1, <2>2, <2>3, <2>4, <2>5
  <1> HIDE DEF size, outlen, m, groups
  <1>4. ASSUME NEW p \in 1 .. len
        PROVE  out[p] = s[p]
    <2>1. p \in Nat \ {0}
      BY <1>2
    <2>2. PICK g \in Nat, q \in 1 .. 3 : p = 3 * g + q /\ (p - 1) \div 3 = g /\ ((p - 1) % 3) + 1 = q
      BY <2>1, Places
    <2>3. p <= len /\ p \in 1 .. size
      BY <1>2, <1>3
    <2>4. out[p] = Byte(group(4 * g), q)
      <3> HIDE DEF group
      <3> QED
        BY <2>2, <2>3
    <2>5. At(s, p) = s[p]
      BY <2>3 DEF At
    <2>6. ASSUME NEW k \in 1 .. 4, k <= q + 1
          PROVE  d(4 * g + k) = Group(s, g)[k]
      <3>1. 4 * g + k <= n
        <4> HIDE DEF n, len
        <4>1. PICK t \in Nat :
                \/ len = 3 * t /\ n = 4 * t
                \/ len = 3 * t + 1 /\ n = 4 * t + 2
                \/ len = 3 * t + 2 /\ n = 4 * t + 3
          BY <1>2, Counts
        <4>2. 3 * g + q <= len
          BY <2>2, <2>3
        <4> QED
          BY <2>6, <4>1, <4>2
      <3> QED
        BY <1>2, <3>1
    <2>7. /\ At(s, 3 * g + 1) \in Bytes /\ At(s, 3 * g + 2) \in Bytes /\ At(s, 3 * g + 3) \in Bytes
      <3>1. \A k \in 1 .. 3 : At(s, 3 * g + k) \in Bytes
        BY GroupOf
      <3> QED
        BY <3>1
    <2> HIDE DEF out, d, n, len
    <2>8. group(4 * g) = <<d(4 * g + 1), d(4 * g + 2), d(4 * g + 3), d(4 * g + 4)>>
      OBVIOUS
    <2> HIDE DEF group
    <2>9. CASE q = 1
      <3>1. d(4 * g + 1) = Group(s, g)[1] /\ d(4 * g + 2) = Group(s, g)[2]
        BY <2>6, <2>9
      <3>2. Byte(group(4 * g), 1) = At(s, 3 * g + 1)
        BY <2>7, <2>8, <3>1, GroupBytes DEF Group
      <3> QED
        BY <2>2, <2>4, <2>5, <2>9, <3>2
    <2>10. CASE q = 2
      <3>1. d(4 * g + 2) = Group(s, g)[2] /\ d(4 * g + 3) = Group(s, g)[3]
        BY <2>6, <2>10
      <3>2. Byte(group(4 * g), 2) = At(s, 3 * g + 2)
        BY <2>7, <2>8, <3>1, GroupBytes DEF Group
      <3> QED
        BY <2>2, <2>4, <2>5, <2>10, <3>2
    <2>11. CASE q = 3
      <3>1. d(4 * g + 3) = Group(s, g)[3] /\ d(4 * g + 4) = Group(s, g)[4]
        BY <2>6, <2>11
      <3>2. Byte(group(4 * g), 3) = At(s, 3 * g + 3)
        BY <2>7, <2>8, <3>1, GroupBytes DEF Group
      <3> QED
        BY <2>2, <2>4, <2>5, <2>11, <3>2
    <2>12. q = 1 \/ q = 2 \/ q = 3
      OBVIOUS
    <2> QED
      BY <2>9, <2>10, <2>11, <2>12
  <1>5. out = s
    <2>1. DOMAIN out = 1 .. len
      BY <1>3
    <2>2. DOMAIN s = 1 .. len /\ s = [p \in 1 .. len |-> s[p]]
      OBVIOUS
    <2>3. out = [p \in 1 .. len |-> out[p]]
      BY <2>1
    <2> HIDE DEF out, len
    <2> QED
      BY <1>4, <2>2, <2>3
  <1> QED
    BY <1>1, <1>3, <1>5

(* Without a zero byte a C string is the whole of it. *)
LEMMA WholeString ==
  ASSUME NEW s, \A i \in 1 .. Len(s) : s[i] # 0
  PROVE  CString(s) = s
  BY DEF CString

-----------------------------------------------------------------------------
(* The text is one of bytes. *)
TextOK == text \in Seq(Bytes)

LEMMA TextAlways == Spec => []TextOK
  <1>1. Init => TextOK
    BY DEF Init, TextOK
  <1>2. TextOK /\ [Next]_vars => TextOK'
    <2> SUFFICES ASSUME TextOK, [Next]_vars
                 PROVE  TextOK'
      OBVIOUS
    <2>1. ASSUME NEW piece \in Pieces, Feed(piece)
          PROVE  TextOK'
      <3>1. piece \in Seq(Bytes) /\ text' = text \o piece
        BY <2>1, PiecesAssumption DEF Feed
      <3> QED
        BY <3>1, ConcatProperties DEF TextOK
    <2>2. CASE UNCHANGED vars
      BY <2>2 DEF vars, TextOK
    <2> QED
      BY <2>1, <2>2 DEF Next
  <1> QED
    BY <1>1, <1>2, PTL DEF Spec

(* A length that becomes an int does not grow, and is kept if it is one. *)
LEMMA Narrowed ==
  ASSUME NEW n \in Nat
  PROVE  /\ ToInt(n) \in Int /\ ToInt(n) <= n /\ ToInt(n) <= IntMax
         /\ n <= IntMax => ToInt(n) = n
  <1> DEFINE m == 2 * (IntMax + 1)
             wrapped == n % m
  <1>1. IntMax \in Nat
    BY IntAssumption
  <1>2. m \in Nat /\ m > 0 /\ m = IntMax + 1 + IntMax + 1
    BY <1>1
  <1>3. ToInt(n) = IF n <= IntMax THEN n ELSE IF wrapped <= IntMax THEN wrapped ELSE wrapped - m
    BY DEF ToInt
  <1> HIDE DEF m
  <1>4. wrapped \in Int /\ 0 <= wrapped /\ wrapped < m
    BY <1>2
  <1> HIDE DEF wrapped
  <1> QED
    BY <1>1, <1>2, <1>3, <1>4

LEMMA Beginning ==
  ASSUME NEW s \in Seq(Bytes), NEW k \in Int, k <= Len(s)
  PROVE  /\ SubSeq(s, 1, k) \in Seq(Bytes)
         /\ Len(SubSeq(s, 1, k)) = IF k >= 0 THEN k ELSE 0
         /\ k = Len(s) => SubSeq(s, 1, k) = s
  <1>1. Len(s) \in Nat
    OBVIOUS
  <1>2. \A i \in 1 .. k : s[i] \in Bytes
    BY <1>1, ElementOfSeq
  <1> QED
    BY <1>1, <1>2, SubSeqProperties, SubSeqFull

(* What Seen and Taken leave is a text. *)
LEMMA PartsOfText ==
  ASSUME NEW s \in Seq(Bytes)
  PROVE  /\ Taken(s) \in Seq(Bytes) /\ Seen(s) \in Seq(Bytes)
         /\ Len(Taken(s)) = IF ToInt(Len(s)) >= 0 THEN ToInt(Len(s)) ELSE 0
         /\ Len(s) <= IntMax => Taken(s) = s /\ Seen(s) = s
  <1>1. Len(s) \in Nat
    OBVIOUS
  <1> DEFINE k == ToInt(Len(s))
  <1>2. k \in Int /\ k <= Len(s) /\ (Len(s) <= IntMax => k = Len(s))
    BY <1>1, Narrowed
  <1>3. Taken(s) = SubSeq(s, 1, k) /\ Seen(s) = IF k < 0 THEN s ELSE SubSeq(s, 1, k)
    BY DEF Taken, Seen
  <1> HIDE DEF k
  <1>4. /\ SubSeq(s, 1, k) \in Seq(Bytes)
        /\ Len(SubSeq(s, 1, k)) = IF k >= 0 THEN k ELSE 0
        /\ k = Len(s) => SubSeq(s, 1, k) = s
    BY <1>2, Beginning
  <1> QED
    BY <1>1, <1>2, <1>3, <1>4 DEF k

(* What is allocated for n bytes. *)
LEMMA Announced ==
  ASSUME NEW n \in Nat
  PROVE  base64encode_len(n) = 4 * ((n + 2) \div 3) + 1
  BY DEF base64encode_len, Third

(* A text that fits is encoded as a whole. *)
LEMMA Fitting ==
  ASSUME NEW s \in Seq(Bytes), FitsInt(s)
  PROVE  Encodable(s) /\ Taken(s) = s
  <1> DEFINE n == Len(s)
             x == (n + 2) \div 3
  <1>1. n \in Nat /\ IntMax \in Nat
    BY IntAssumption
  <1>2. x \in Nat /\ n <= 3 * x
    <2> HIDE DEF n
    <2> QED
      BY <1>1
  <1>3. 4 * x + 2 <= IntMax /\ base64encode_len(n) = 4 * x + 1
    BY <1>1, Announced DEF FitsInt
  <1> HIDE DEF n, x
  <1>4. n <= IntMax
    BY <1>1, <1>2, <1>3
  <1>5. ToInt(n) = n
    BY <1>1, <1>4, Narrowed
  <1>6. base64encode_len(ToInt(n)) \in 1 .. IntMax - 1
    BY <1>1, <1>2, <1>3, <1>5
  <1> QED
    BY <1>4, <1>6, PartsOfText DEF Encodable, n

(* And its encoding is decoded as a whole. *)
LEMMA FittingCode ==
  ASSUME NEW s \in Seq(Bytes), NEW x \in Nat, Len(s) = 4 * x, 4 * x + 2 <= IntMax
  PROVE  Decodable(s) /\ Seen(s) = s
  <1>1. Len(s) \in Nat /\ IntMax \in Nat /\ IntMax % 4 = 3
    BY IntAssumption
  <1>2. 4 * x + 3 <= IntMax
    BY <1>1
  <1>3. Seen(s) = s /\ ToInt(Len(s)) = Len(s)
    BY <1>1, PartsOfText, Narrowed
  <1>4. nprbytes(s) \in 0 .. Len(s)
    BY Stops
  <1>5. nprbytes(s) + 3 <= IntMax /\ ~(ToInt(Len(s)) < 0)
    BY <1>1, <1>2, <1>3, <1>4
  <1> QED
    BY <1>3, <1>5 DEF Decodable

(* Decoding the encoding of a text gives the text and its length, and the  *)
(* two functions of Lua do so for a text without a zero byte, while the    *)
(* lengths are ints.                                                       *)
THEOREM TextComesBack == Spec => []RoundTrip
  <1>1. TextOK => RoundTrip
    <2> SUFFICES ASSUME TextOK
                 PROVE  RoundTrip
      OBVIOUS
    <2> DEFINE e == base64encode(text)
               n == Len(text)
    <2>1. text \in Seq(Bytes) /\ n \in Nat
      BY DEF TextOK
    <2>2. /\ e \in Seq(1 .. 255) /\ Len(e) = 4 * ((n + 2) \div 3)
          /\ \A g \in Nat, q \in 1 .. 4 : 4 * g + q <= Len(e) =>
               e[4 * g + q] = IF 4 * g + q <= DigitCount(n) THEN basis_64[Group(text, g)[q]] ELSE Equals
      BY <2>1, Encoding
    <2>3. DigitCount(n) \in Nat /\ Len(e) \in Nat /\ DigitCount(n) <= Len(e)
      <3> HIDE DEF n, e
      <3>1. PICK t \in Nat :
              \/ n = 3 * t /\ (n + 2) \div 3 = t /\ DigitCount(n) = 4 * t
              \/ n = 3 * t + 1 /\ (n + 2) \div 3 = t + 1 /\ DigitCount(n) = 4 * t + 2
              \/ n = 3 * t + 2 /\ (n + 2) \div 3 = t + 1 /\ DigitCount(n) = 4 * t + 3
        BY <2>1, Counts
      <3>2. Len(e) = 4 * ((n + 2) \div 3)
        BY <2>2
      <3> DEFINE l == Len(e)
                 x == (n + 2) \div 3
                 c == DigitCount(n)
      <3>3. /\ l = 4 * x
            /\ \/ x = t /\ c = 4 * t
               \/ x = t + 1 /\ c = 4 * t + 2
               \/ x = t + 1 /\ c = 4 * t + 3
        BY <3>1, <3>2
      <3> HIDE DEF l, x, c
      <3>4. c \in Nat /\ l \in Nat /\ c <= l
        BY <3>3
      <3> QED
        BY <3>4 DEF l, c
    <2> HIDE DEF e, n
    <2>4. ASSUME NEW g \in Nat, NEW q \in 1 .. 4, 4 * g + q <= DigitCount(n)
          PROVE  pr2six[e[4 * g + q]] = Group(text, g)[q]
      <3>1. 4 * g + q <= Len(e)
        BY <2>3, <2>4
      <3>2. e[4 * g + q] = basis_64[Group(text, g)[q]]
        BY <2>2, <2>4, <3>1
      <3>3. Group(text, g)[q] \in Digit
        BY <2>1, GroupOf
      <3> QED
        BY <3>2, <3>3, DigitKept
    <2>5. nprbytes(e) = DigitCount(n)
      <3>1. ASSUME NEW p \in 1 .. DigitCount(n)
            PROVE  pr2six[e[p]] # 64
        <4>1. p \in Nat \ {0} /\ p <= DigitCount(n)
          BY <2>3
        <4>2. PICK g \in Nat, q \in 1 .. 4 : p = 4 * g + q
          BY <4>1, Places
        <4>3. pr2six[e[p]] = Group(text, g)[q]
          BY <2>4, <4>1, <4>2
        <4>4. Group(text, g)[q] \in Digit
          BY <2>1, GroupOf
        <4> QED
          BY <4>3, <4>4 DEF Digit
      <3>2. ASSUME DigitCount(n) < Len(e)
            PROVE  pr2six[e[DigitCount(n) + 1]] = 64
        <4> DEFINE p == DigitCount(n) + 1
        <4>1. p \in Nat \ {0} /\ p <= Len(e) /\ ~(p <= DigitCount(n))
          BY <2>3, <3>2
        <4> HIDE DEF p
        <4>2. PICK g \in Nat, q \in 1 .. 4 : p = 4 * g + q
          BY <4>1, Places
        <4>3. e[p] = Equals
          BY <2>2, <4>1, <4>2
        <4> QED
          BY <4>3, DigitKept DEF p
      <3> QED
        BY <2>3, <3>1, <3>2, StopsAt
    <2>6. base64decode(e).out = text /\ base64decode(e).outlen = n
      BY <2>1, <2>4, <2>5, Decoding DEF n
    <2>7. ASSUME FitsInt(text), 0 \notin Range(text)
          PROVE  SocketBase64Decode(SocketBase64Encode(text)) = text
      <3>1. DOMAIN text = 1 .. Len(text)
        BY <2>1
      <3>2. CString(text) = text
        BY <2>7, <3>1, WholeString DEF Range
      <3>3. CString(e) = e
        <4>1. ASSUME NEW i \in 1 .. Len(e)
              PROVE  e[i] # 0
          <5>1. e[i] \in 1 .. 255
            BY <2>2, ElementOfSeq
          <5>2. \A c \in 1 .. 255 : c # 0
            OBVIOUS
          <5> QED
            BY <5>1, <5>2
        <4> QED
          BY <4>1, WholeString
      <3>4. Encodable(text) /\ Taken(text) = text
        BY <2>1, <2>7, Fitting
      <3>5. Decodable(e) /\ Seen(e) = e
        <4> DEFINE x == (n + 2) \div 3
        <4>1. x \in Nat /\ 4 * x + 2 <= IntMax
          BY <2>1, <2>7 DEF FitsInt, n
        <4>2. Len(e) = 4 * x
          BY <2>2
        <4>3. e \in Seq(Bytes)
          BY <2>2, SeqDef DEF Bytes
        <4> HIDE DEF x
        <4> QED
          BY <4>1, <4>2, <4>3, FittingCode
      <3>6. SocketBase64Encode(text) = e
        BY <3>2, <3>3, <3>4 DEF SocketBase64Encode, e
      <3> QED
        BY <2>6, <3>3, <3>5, <3>6, <3>2 DEF SocketBase64Decode
    <2> QED
      BY <2>6, <2>7 DEF RoundTrip, e, n
  <1> QED
    BY <1>1, TextAlways, PTL

(* What is written fits the buffers that were allocated for it, for every  *)
(* text to encode or to decode whose sizes can be computed as ints; also   *)
(* where the length of the text itself is none and wraps round.            *)
THEOREM BuffersSuffice == Spec => []BuffersFit
  <1>1. TextOK => BuffersFit
    <2> SUFFICES ASSUME TextOK
                 PROVE  BuffersFit
      OBVIOUS
    <2>1. text \in Seq(Bytes) /\ Len(text) \in Nat
      BY DEF TextOK
    <2>2. ASSUME Encodable(text)
          PROVE  Len(base64encode(Taken(text))) + 1 <= base64encode_len(ToInt(Len(text)))
      <3> DEFINE k == ToInt(Len(text))
                 l == Len(Taken(text))
                 x == (l + 2) \div 3
      <3>1. k \in Int /\ base64encode_len(k) \in 1 .. IntMax - 1 /\ IntMax \in Nat
        BY <2>1, <2>2, Narrowed, IntAssumption DEF Encodable
      <3>2. Taken(text) \in Seq(Bytes) /\ l = IF k >= 0 THEN k ELSE 0
        BY <2>1, PartsOfText
      <3>3. Len(base64encode(Taken(text))) = 4 * x
        BY <3>2, Encoding
      <3>4. l \in Nat
        BY <3>2
      <3> HIDE DEF k, l
      <3>5. CASE k >= 0
        <4>1. base64encode_len(k) = 4 * x + 1
          BY <3>1, <3>2, <3>5, Announced
        <4>2. x \in Int
          BY <3>4
        <4> HIDE DEF x
        <4> QED
          BY <3>3, <4>1, <4>2 DEF k
      <3>6. CASE k < 0
        <4>1. x = 0
          BY <3>1, <3>2, <3>6
        <4> HIDE DEF x
        <4> QED
          BY <3>1, <3>3, <4>1 DEF k
      <3> QED
        BY <3>1, <3>5, <3>6
    <2> DEFINE in == Seen(text)
               n == nprbytes(in)
               groups == IF n = 0 THEN 0 ELSE (n - 1) \div 4
               m == n - 4 * groups
               d(i) == IF i <= n THEN pr2six[in[i]] ELSE 0
               group(i) == <<d(i + 1), d(i + 2), d(i + 3), d(i + 4)>>
               size == 3 * groups + LeftOver(m)
               outlen == 3 * ((n + 3) \div 4) - ((4 - m) % 4)
               out == [p \in 1 .. size |-> Byte(group(4 * ((p - 1) \div 3)), ((p - 1) % 3) + 1)]
    <2>3. base64decode(in).out = out /\ base64decode(in).outlen = outlen
      BY DEF base64decode
    <2>4. n \in Nat /\ base64decode_len(in) = 3 * ((n + 3) \div 4) + 1
      BY <2>1, PartsOfText, Stops DEF base64decode_len
    <2>5. size \in Nat /\ size + 1 <= 3 * ((n + 3) \div 4) + 1 /\ outlen = size
      <3> HIDE DEF n
      <3>1. CASE n = 0
        <4>1. groups = 0 /\ m = 0 /\ (n + 3) \div 4 = 0
          BY <3>1
        <4> HIDE DEF groups, m
        <4> QED
          BY <4>1 DEF LeftOver
      <3>2. CASE n # 0
        <4>1. groups \in Nat /\ m \in 1 .. 4 /\ n = 4 * groups + m
          BY <2>4, <3>2
        <4> HIDE DEF groups, m
        <4>2. (n + 3) \div 4 = groups + 1
          BY <4>1
        <4>3. (4 - m) % 4 = 4 - m
          BY <4>1
        <4> QED
          BY <4>1, <4>2, <4>3 DEF LeftOver
      <3> QED
        BY <3>1, <3>2
    <2>6. Len(out) = size
      <3> HIDE DEF size, n, group
      <3> QED
        BY <2>5
    <2> HIDE DEF out, outlen, size, n
    <2>7. Len(base64decode(in).out) + 1 <= base64decode_len(in) /\ base64decode(in).outlen = Len(base64decode(in).out)
      BY <2>3, <2>4, <2>5, <2>6
    <2> QED
      BY <2>2, <2>7 DEF BuffersFit
  <1> QED
    BY <1>1, TextAlways, PTL

-----------------------------------------------------------------------------
(* A byte is the sum of its bits. *)
BitAt(x, b) == (x \div Weight[b + 1]) % 2

LEMMA ByteBits ==
  ASSUME NEW x \in Bytes
  PROVE  /\ \A b \in 0 .. 7 : BitAt(x, b) \in 0 .. 1
         /\ x \div 64 = 2 * BitAt(x, 0) + BitAt(x, 1)
         /\ x \div 16 = 8 * BitAt(x, 0) + 4 * BitAt(x, 1) + 2 * BitAt(x, 2) + BitAt(x, 3)
         /\ x \div 4 = 32 * BitAt(x, 0) + 16 * BitAt(x, 1) + 8 * BitAt(x, 2) + 4 * BitAt(x, 3)
                       + 2 * BitAt(x, 4) + BitAt(x, 5)
         /\ x % 4 = 2 * BitAt(x, 6) + BitAt(x, 7)
         /\ x % 16 = 8 * BitAt(x, 4) + 4 * BitAt(x, 5) + 2 * BitAt(x, 6) + BitAt(x, 7)
         /\ x % 64 = 32 * BitAt(x, 2) + 16 * BitAt(x, 3) + 8 * BitAt(x, 4) + 4 * BitAt(x, 5)
                     + 2 * BitAt(x, 6) + BitAt(x, 7)
  <1> DEFINE y1 == x \div 2
             y2 == x \div 4
             y3 == x \div 8
             y4 == x \div 16
             y5 == x \div 32
             y6 == x \div 64
             y7 == x \div 128
             b0 == BitAt(x, 0)
             b1 == BitAt(x, 1)
             b2 == BitAt(x, 2)
             b3 == BitAt(x, 3)
             b4 == BitAt(x, 4)
             b5 == BitAt(x, 5)
             b6 == BitAt(x, 6)
             b7 == BitAt(x, 7)
  <1>1. x \in 0 .. 255
    BY DEF Bytes
  <1>2. /\ b0 = y7 % 2 /\ b1 = y6 % 2 /\ b2 = y5 % 2 /\ b3 = y4 % 2
        /\ b4 = y3 % 2 /\ b5 = y2 % 2 /\ b6 = y1 % 2 /\ b7 = x % 2
    BY <1>1 DEF BitAt, Weight
  <1>3. /\ y1 \in 0 .. 127 /\ y2 \in 0 .. 63 /\ y3 \in 0 .. 31 /\ y4 \in 0 .. 15
        /\ y5 \in 0 .. 7 /\ y6 \in 0 .. 3 /\ y7 \in 0 .. 1
    BY <1>1
  <1>4. /\ y1 \div 2 = y2 /\ y2 \div 2 = y3 /\ y3 \div 2 = y4
        /\ y4 \div 2 = y5 /\ y5 \div 2 = y6 /\ y6 \div 2 = y7
    BY <1>1
  <1>5. x \div 2 = y1
    OBVIOUS
  <1> HIDE DEF b0, b1, b2, b3, b4, b5, b6, b7, y1, y2, y3, y4, y5, y6, y7
  <1>6. x = 2 * y1 + b7 /\ b7 \in 0 .. 1
    BY <1>1, <1>2, <1>5
  <1>7. y1 = 2 * y2 + b6 /\ b6 \in 0 .. 1
    BY <1>2, <1>3, <1>4
  <1>8. y2 = 2 * y3 + b5 /\ b5 \in 0 .. 1
    BY <1>2, <1>3, <1>4
  <1>9. y3 = 2 * y4 + b4 /\ b4 \in 0 .. 1
    BY <1>2, <1>3, <1>4
  <1>10. y4 = 2 * y5 + b3 /\ b3 \in 0 .. 1
    BY <1>2, <1>3, <1>4
  <1>11. y5 = 2 * y6 + b2 /\ b2 \in 0 .. 1
    BY <1>2, <1>3, <1>4
  <1>12. y6 = 2 * y7 + b1 /\ b1 \in 0 .. 1
    BY <1>2, <1>3, <1>4
  <1>13. y7 = b0 /\ b0 \in 0 .. 1
    BY <1>2, <1>3
  <1>14. y6 = 2 * b0 + b1
    BY <1>12, <1>13
  <1>15. y4 = 8 * b0 + 4 * b1 + 2 * b2 + b3
    BY <1>3, <1>10, <1>11, <1>12, <1>13
  <1>16. y2 = 32 * b0 + 16 * b1 + 8 * b2 + 4 * b3 + 2 * b4 + b5
    BY <1>3, <1>8, <1>9, <1>10, <1>11, <1>12, <1>13
  <1>17. x % 4 = 2 * b6 + b7
    BY <1>1, <1>3, <1>6, <1>7
  <1>18. x % 16 = 8 * b4 + 4 * b5 + 2 * b6 + b7
    BY <1>1, <1>3, <1>6, <1>7, <1>8, <1>9
  <1>19. x % 64 = 32 * b2 + 16 * b3 + 8 * b4 + 4 * b5 + 2 * b6 + b7
    BY <1>1, <1>3, <1>6, <1>7, <1>8, <1>9, <1>10, <1>11
  <1>20. \A b \in 0 .. 7 : BitAt(x, b) \in 0 .. 1
    <2>1. \A b \in 0 .. 7 : b = 0 \/ b = 1 \/ b = 2 \/ b = 3 \/ b = 4 \/ b = 5 \/ b = 6 \/ b = 7
      OBVIOUS
    <2> QED
      BY <1>6, <1>7, <1>8, <1>9, <1>10, <1>11, <1>12, <1>13, <2>1
         DEF b0, b1, b2, b3, b4, b5, b6, b7
  <1> QED
    BY <1>14, <1>15, <1>16, <1>17, <1>18, <1>19, <1>20
       DEF b0, b1, b2, b3, b4, b5, b6, b7, y2, y4, y6

(* The digits of a group of bytes are their bits, six at a time. *)
Six(b1, b2, b3, b4, b5, b6) == 32 * b1 + 16 * b2 + 8 * b3 + 4 * b4 + 2 * b5 + b6

LEMMA GroupBits ==
  ASSUME NEW a \in Bytes, NEW b \in Bytes, NEW c \in Bytes
  PROVE  LET d == DigitsOf(a, b, c)
         IN  /\ d[1] = Six(BitAt(a, 0), BitAt(a, 1), BitAt(a, 2), BitAt(a, 3), BitAt(a, 4), BitAt(a, 5))
             /\ d[2] = Six(BitAt(a, 6), BitAt(a, 7), BitAt(b, 0), BitAt(b, 1), BitAt(b, 2), BitAt(b, 3))
             /\ d[3] = Six(BitAt(b, 4), BitAt(b, 5), BitAt(b, 6), BitAt(b, 7), BitAt(c, 0), BitAt(c, 1))
             /\ d[4] = Six(BitAt(c, 2), BitAt(c, 3), BitAt(c, 4), BitAt(c, 5), BitAt(c, 6), BitAt(c, 7))
  <1>1. /\ DigitsOf(a, b, c)[1] = a \div 4 /\ DigitsOf(a, b, c)[2] = (a % 4) * 16 + b \div 16
        /\ DigitsOf(a, b, c)[3] = (b % 16) * 4 + c \div 64 /\ DigitsOf(a, b, c)[4] = c % 64
    BY DEF DigitsOf
  <1>2. \A x \in Bytes : \A i \in 0 .. 7 : BitAt(x, i) \in Int
    <2> SUFFICES ASSUME NEW x \in Bytes, NEW i \in 0 .. 7
                 PROVE  BitAt(x, i) \in Int
      OBVIOUS
    <2>1. BitAt(x, i) \in 0 .. 1
      BY ByteBits
    <2> QED
      BY <2>1
  <1>3. \A x \in Bytes : /\ BitAt(x, 0) \in Int /\ BitAt(x, 1) \in Int /\ BitAt(x, 2) \in Int
                         /\ BitAt(x, 3) \in Int /\ BitAt(x, 4) \in Int /\ BitAt(x, 5) \in Int
                         /\ BitAt(x, 6) \in Int /\ BitAt(x, 7) \in Int
    BY <1>2
  <1>4. DigitsOf(a, b, c)[1] = Six(BitAt(a, 0), BitAt(a, 1), BitAt(a, 2), BitAt(a, 3), BitAt(a, 4), BitAt(a, 5))
    BY <1>1, ByteBits DEF Six
  <1>5. DigitsOf(a, b, c)[2] = Six(BitAt(a, 6), BitAt(a, 7), BitAt(b, 0), BitAt(b, 1), BitAt(b, 2), BitAt(b, 3))
    <2>1. a % 4 = 2 * BitAt(a, 6) + BitAt(a, 7)
      BY ByteBits
    <2>2. b \div 16 = 8 * BitAt(b, 0) + 4 * BitAt(b, 1) + 2 * BitAt(b, 2) + BitAt(b, 3)
      BY ByteBits
    <2> QED
      BY <1>1, <1>3, <2>1, <2>2 DEF Six
  <1>6. DigitsOf(a, b, c)[3] = Six(BitAt(b, 4), BitAt(b, 5), BitAt(b, 6), BitAt(b, 7), BitAt(c, 0), BitAt(c, 1))
    <2>1. b % 16 = 8 * BitAt(b, 4) + 4 * BitAt(b, 5) + 2 * BitAt(b, 6) + BitAt(b, 7)
      BY ByteBits
    <2>2. c \div 64 = 2 * BitAt(c, 0) + BitAt(c, 1)
      BY ByteBits
    <2> QED
      BY <1>1, <1>3, <2>1, <2>2 DEF Six
  <1>7. DigitsOf(a, b, c)[4] = Six(BitAt(c, 2), BitAt(c, 3), BitAt(c, 4), BitAt(c, 5), BitAt(c, 6), BitAt(c, 7))
    BY <1>1, ByteBits DEF Six
  <1> QED
    BY <1>4, <1>5, <1>6, <1>7

(* The bits of a text, and zeros behind it. *)
BitOf(s, k) == IF k < 8 * Len(s) THEN (s[k \div 8 + 1] \div Weight[(k % 8) + 1]) % 2 ELSE 0

LEMMA BitInByte ==
  ASSUME NEW s \in Seq(Bytes), NEW i \in Nat, NEW b \in 0 .. 7
  PROVE  BitOf(s, 8 * i + b) = BitAt(At(s, i + 1), b)
  <1> DEFINE k == 8 * i + b
             n == Len(s)
  <1>1. k \div 8 = i /\ k % 8 = b /\ k \in Nat /\ n \in Nat
    OBVIOUS
  <1>2. k < 8 * n <=> i + 1 <= n
    <2>1. n \in Nat
      OBVIOUS
    <2> HIDE DEF n
    <2> QED
      BY <2>1
  <1>3. BitAt(0, b) = 0
    <2>1. b = 0 \/ b = 1 \/ b = 2 \/ b = 3 \/ b = 4 \/ b = 5 \/ b = 6 \/ b = 7
      OBVIOUS
    <2> DEFINE w == Weight[b + 1]
    <2>2. w = 1 \/ w = 2 \/ w = 4 \/ w = 8 \/ w = 16 \/ w = 32 \/ w = 64 \/ w = 128
      BY <2>1 DEF Weight
    <2> HIDE DEF w
    <2>3. /\ 0 \div 1 = 0 /\ 0 \div 2 = 0 /\ 0 \div 4 = 0 /\ 0 \div 8 = 0
          /\ 0 \div 16 = 0 /\ 0 \div 32 = 0 /\ 0 \div 64 = 0 /\ 0 \div 128 = 0
      OBVIOUS
    <2>4. 0 \div w = 0
      BY <2>2, <2>3
    <2> QED
      BY <2>4 DEF BitAt, w
  <1>4. BitOf(s, k) = IF k < 8 * n THEN (s[k \div 8 + 1] \div Weight[(k % 8) + 1]) % 2 ELSE 0
    BY DEF BitOf
  <1> HIDE DEF k, n
  <1>5. CASE i + 1 <= n
    BY <1>1, <1>2, <1>4, <1>5 DEF BitAt, At, n
  <1>6. CASE ~(i + 1 <= n)
    BY <1>1, <1>2, <1>3, <1>4, <1>6 DEF At, n
  <1> QED
    BY <1>5, <1>6 DEF k

(* Six bits of the text are a digit of a group. *)
LEMMA SixBits ==
  ASSUME NEW s \in Seq(Bytes), NEW g \in Nat, NEW q \in 1 .. 4, NEW k, k = 24 * g + 6 * q - 6
  PROVE  Six(BitOf(s, k), BitOf(s, k + 1), BitOf(s, k + 2), BitOf(s, k + 3), BitOf(s, k + 4), BitOf(s, k + 5))
           = Group(s, g)[q]
  <1> DEFINE a == At(s, 3 * g + 1)
             b == At(s, 3 * g + 2)
             c == At(s, 3 * g + 3)
             bit(i) == BitOf(s, i)
  <1>1. a \in Bytes /\ b \in Bytes /\ c \in Bytes
    <2>1. \A i \in 1 .. 3 : At(s, 3 * g + i) \in Bytes
      BY GroupOf
    <2> QED
      BY <2>1
  <1>2. \A i \in 0 .. 7 : /\ bit(24 * g + i) = BitAt(a, i)
                         /\ bit(24 * g + (8 + i)) = BitAt(b, i)
                         /\ bit(24 * g + (16 + i)) = BitAt(c, i)
    <2> SUFFICES ASSUME NEW i \in 0 .. 7
                 PROVE  /\ bit(24 * g + i) = BitAt(a, i)
                        /\ bit(24 * g + (8 + i)) = BitAt(b, i)
                        /\ bit(24 * g + (16 + i)) = BitAt(c, i)
      OBVIOUS
    <2>1. /\ 24 * g + i = 8 * (3 * g) + i /\ 24 * g + (8 + i) = 8 * (3 * g + 1) + i
          /\ 24 * g + (16 + i) = 8 * (3 * g + 2) + i
          /\ 3 * g \in Nat /\ 3 * g + 1 \in Nat /\ 3 * g + 2 \in Nat
          /\ (3 * g + 1) + 1 = 3 * g + 2 /\ (3 * g + 2) + 1 = 3 * g + 3
      OBVIOUS
    <2>2. bit(8 * (3 * g) + i) = BitAt(At(s, 3 * g + 1), i)
      BY <2>1, BitInByte
    <2>3. bit(8 * (3 * g + 1) + i) = BitAt(At(s, (3 * g + 1) + 1), i)
      BY <2>1, BitInByte
    <2>4. bit(8 * (3 * g + 2) + i) = BitAt(At(s, (3 * g + 2) + 1), i)
      BY <2>1, BitInByte
    <2> HIDE DEF bit
    <2> QED
      BY <2>1, <2>2, <2>3, <2>4
  <1> DEFINE d == DigitsOf(a, b, c)
  <1>3. /\ d[1] = Six(BitAt(a, 0), BitAt(a, 1), BitAt(a, 2), BitAt(a, 3), BitAt(a, 4), BitAt(a, 5))
        /\ d[2] = Six(BitAt(a, 6), BitAt(a, 7), BitAt(b, 0), BitAt(b, 1), BitAt(b, 2), BitAt(b, 3))
        /\ d[3] = Six(BitAt(b, 4), BitAt(b, 5), BitAt(b, 6), BitAt(b, 7), BitAt(c, 0), BitAt(c, 1))
        /\ d[4] = Six(BitAt(c, 2), BitAt(c, 3), BitAt(c, 4), BitAt(c, 5), BitAt(c, 6), BitAt(c, 7))
    <2> HIDE DEF a, b, c
    <2> QED
      BY <1>1, GroupBits
  <1>4. Group(s, g) = d
    BY DEF Group
  <1> HIDE DEF a, b, c, bit, d
  <1>5. CASE q = 1
    <2>1. /\ k = 24 * g + 0 /\ k + 1 = 24 * g + 1 /\ k + 2 = 24 * g + 2 /\ k + 3 = 24 * g + 3
          /\ k + 4 = 24 * g + 4 /\ k + 5 = 24 * g + 5
      BY <1>5
    <2>2. /\ bit(k) = BitAt(a, 0) /\ bit(k + 1) = BitAt(a, 1) /\ bit(k + 2) = BitAt(a, 2)
          /\ bit(k + 3) = BitAt(a, 3) /\ bit(k + 4) = BitAt(a, 4) /\ bit(k + 5) = BitAt(a, 5)
      BY <1>2, <2>1
    <2> QED
      BY <1>3, <1>4, <1>5, <2>2 DEF bit
  <1>6. CASE q = 2
    <2>1. /\ k = 24 * g + 6 /\ k + 1 = 24 * g + 7 /\ k + 2 = 24 * g + (8 + 0)
          /\ k + 3 = 24 * g + (8 + 1) /\ k + 4 = 24 * g + (8 + 2) /\ k + 5 = 24 * g + (8 + 3)
      BY <1>6
    <2>2. /\ bit(k) = BitAt(a, 6) /\ bit(k + 1) = BitAt(a, 7) /\ bit(k + 2) = BitAt(b, 0)
          /\ bit(k + 3) = BitAt(b, 1) /\ bit(k + 4) = BitAt(b, 2) /\ bit(k + 5) = BitAt(b, 3)
      BY <1>2, <2>1
    <2> QED
      BY <1>3, <1>4, <1>6, <2>2 DEF bit
  <1>7. CASE q = 3
    <2>1. /\ k = 24 * g + (8 + 4) /\ k + 1 = 24 * g + (8 + 5) /\ k + 2 = 24 * g + (8 + 6)
          /\ k + 3 = 24 * g + (8 + 7) /\ k + 4 = 24 * g + (16 + 0) /\ k + 5 = 24 * g + (16 + 1)
      BY <1>7
    <2>2. /\ bit(k) = BitAt(b, 4) /\ bit(k + 1) = BitAt(b, 5) /\ bit(k + 2) = BitAt(b, 6)
          /\ bit(k + 3) = BitAt(b, 7) /\ bit(k + 4) = BitAt(c, 0) /\ bit(k + 5) = BitAt(c, 1)
      BY <1>2, <2>1
    <2> QED
      BY <1>3, <1>4, <1>7, <2>2 DEF bit
  <1>8. CASE q = 4
    <2>1. /\ k = 24 * g + (16 + 2) /\ k + 1 = 24 * g + (16 + 3) /\ k + 2 = 24 * g + (16 + 4)
          /\ k + 3 = 24 * g + (16 + 5) /\ k + 4 = 24 * g + (16 + 6) /\ k + 5 = 24 * g + (16 + 7)
      BY <1>8
    <2>2. /\ bit(k) = BitAt(c, 2) /\ bit(k + 1) = BitAt(c, 3) /\ bit(k + 2) = BitAt(c, 4)
          /\ bit(k + 3) = BitAt(c, 5) /\ bit(k + 4) = BitAt(c, 6) /\ bit(k + 5) = BitAt(c, 7)
      BY <1>2, <2>1
    <2> QED
      BY <1>3, <1>4, <1>8, <2>2 DEF bit
  <1>9. q = 1 \/ q = 2 \/ q = 3 \/ q = 4
    OBVIOUS
  <1> QED
    BY <1>5, <1>6, <1>7, <1>8, <1>9

(* The encoding of a text is its bits, six at a time, filled up with '='   *)
(* to the next multiple of four, while the lengths are ints.               *)
THEOREM EncodingIsBits == Spec => []EncodesBits
  <1>1. TextOK => EncodesBits
    <2> SUFFICES ASSUME TextOK
                 PROVE  EncodesBits
      OBVIOUS
    <2> DEFINE e == base64encode(text)
               n == Len(text)
               bit(k) == BitOf(text, k)
               digit(k) == Six(bit(k), bit(k + 1), bit(k + 2), bit(k + 3), bit(k + 4), bit(k + 5))
    <2>1. text \in Seq(Bytes) /\ n \in Nat
      BY DEF TextOK
    <2>2. /\ Len(e) = 4 * ((n + 2) \div 3)
          /\ \A g \in Nat, q \in 1 .. 4 : 4 * g + q <= Len(e) =>
               e[4 * g + q] = IF 4 * g + q <= DigitCount(n) THEN basis_64[Group(text, g)[q]] ELSE Equals
      BY <2>1, Encoding
    <2> HIDE DEF e, n
    <2>3. PICK t \in Nat :
            \/ n = 3 * t /\ (n + 2) \div 3 = t /\ DigitCount(n) = 4 * t
            \/ n = 3 * t + 1 /\ (n + 2) \div 3 = t + 1 /\ DigitCount(n) = 4 * t + 2
            \/ n = 3 * t + 2 /\ (n + 2) \div 3 = t + 1 /\ DigitCount(n) = 4 * t + 3
      BY <2>1, Counts
    <2>4. Len(e) \in Nat /\ Len(e) % 4 = 0 /\ 3 * Len(e) \in 4 * n .. 4 * n + 8
      <3> DEFINE l == Len(e)
      <3>1. /\ \/ n = 3 * t /\ l = 4 * t
               \/ n = 3 * t + 1 /\ l = 4 * (t + 1)
               \/ n = 3 * t + 2 /\ l = 4 * (t + 1)
            /\ t \in Nat
        BY <2>2, <2>3
      <3> HIDE DEF l
      <3>2. l \in Nat /\ 3 * l \in 4 * n .. 4 * n + 8
        BY <3>1
      <3>3. l % 4 = 0
        BY <3>1
      <3> QED
        BY <3>2, <3>3 DEF l
    <2>5. ASSUME NEW j \in 0 .. Len(e) - 1
          PROVE  e[j + 1] = IF 6 * j < 8 * n THEN basis_64[digit(6 * j)] ELSE Equals
      <3>1. j \in Nat /\ j + 1 \in Nat \ {0} /\ j + 1 <= Len(e)
        BY <2>4
      <3>2. PICK g \in Nat, q \in 1 .. 4 : j + 1 = 4 * g + q
        BY <3>1, Places
      <3>3. 6 * j = 24 * g + 6 * q - 6
        BY <3>1, <3>2
      <3>4. 6 * j < 8 * n <=> 4 * g + q <= DigitCount(n)
        <4> DEFINE c == DigitCount(n)
        <4>1. /\ 6 * j = 24 * g + 6 * q - 6
              /\ \/ n = 3 * t /\ c = 4 * t
                 \/ n = 3 * t + 1 /\ c = 4 * t + 2
                 \/ n = 3 * t + 2 /\ c = 4 * t + 3
          BY <2>3, <3>3
        <4>2. t \in Nat /\ g \in Nat /\ q \in 1 .. 4
          BY <2>3, <3>2
        <4> HIDE DEF c
        <4>3. n = 3 * t /\ c = 4 * t => (6 * j < 8 * n <=> 4 * g + q <= c)
          BY ONLY <4>1, <4>2
        <4>4. n = 3 * t + 1 /\ c = 4 * t + 2 => (6 * j < 8 * n <=> 4 * g + q <= c)
          BY ONLY <4>1, <4>2
        <4>5. n = 3 * t + 2 /\ c = 4 * t + 3 => (6 * j < 8 * n <=> 4 * g + q <= c)
          BY ONLY <4>1, <4>2
        <4> QED
          BY <4>1, <4>3, <4>4, <4>5 DEF c
      <3>5. digit(6 * j) = Group(text, g)[q]
        <4>1. \A i : i = 24 * g + 6 * q - 6 => digit(i) = Group(text, g)[q]
          BY <2>1, <3>2, SixBits
        <4> HIDE DEF digit
        <4> QED
          BY <3>3, <4>1
      <3> HIDE DEF digit
      <3> QED
        BY <2>2, <3>1, <3>2, <3>4, <3>5
    <2> QED
      BY <2>4, <2>5 DEF EncodesBits, BitOf, Six, e, n
  <1> QED
    BY <1>1, TextAlways, PTL

-----------------------------------------------------------------------------
(* Words as sets of bits: the carries of a sum, and the test for overflow. *)

(* Induction, for a set. *)
LEMMA Upward ==
  ASSUME NEW m \in Nat, NEW n \in Nat, NEW T, m \in T,
         \A i \in m .. n - 1 : i \in T => i + 1 \in T
  PROVE  \A i \in m .. n : i \in T
  <1> DEFINE missing == {i \in m .. n : i \notin T}
  <1>1. CASE missing = {}
    BY <1>1
  <1>2. CASE missing # {}
    <2>1. missing \subseteq Nat
      OBVIOUS
    <2>2. PICK k \in missing : \A j \in missing : k <= j
      <3> HIDE DEF missing
      <3> QED
        BY <1>2, <2>1, Least
    <2>3. k \in m .. n /\ k \notin T /\ k # m
      BY <2>2
    <2>4. k - 1 \in m .. n - 1 /\ (k - 1) + 1 = k
      BY <2>3
    <2>5. k - 1 \notin T
      BY <2>3, <2>4
    <2>6. k - 1 \in missing /\ k - 1 < k
      BY <2>4, <2>5
    <2> QED
      BY <2>2, <2>3, <2>6
  <1> QED
    BY <1>1, <1>2

Carry(x, y, i) == \E j \in x \cap y : j < i /\ \A k \in j + 1 .. i - 1 : k \in x \cup y

LEMMA CarryStep ==
  ASSUME NEW x \in SUBSET Nat, NEW y \in SUBSET Nat
  PROVE  /\ ~Carry(x, y, 0)
         /\ \A i \in Nat :
              Carry(x, y, i + 1) <=> i \in x \cap y \/ (i \in x \cup y /\ Carry(x, y, i))
  <1>1. ~Carry(x, y, 0)
    BY DEF Carry
  <1>2. ASSUME NEW i \in Nat, i \in x \cap y
        PROVE  Carry(x, y, i + 1)
    <2>1. i < i + 1 /\ i + 1 .. (i + 1) - 1 = {}
      OBVIOUS
    <2> QED
      BY <1>2, <2>1 DEF Carry
  <1>3. ASSUME NEW i \in Nat, i \in x \cup y, Carry(x, y, i)
        PROVE  Carry(x, y, i + 1)
    <2>1. PICK j \in x \cap y : j < i /\ \A k \in j + 1 .. i - 1 : k \in x \cup y
      BY <1>3 DEF Carry
    <2>2. j \in Nat /\ j < i + 1
      BY <2>1
    <2>3. \A k \in j + 1 .. (i + 1) - 1 : k \in j + 1 .. i - 1 \/ k = i
      BY <2>1, <2>2
    <2> QED
      BY <1>3, <2>1, <2>2, <2>3 DEF Carry
  <1>4. ASSUME NEW i \in Nat, Carry(x, y, i + 1), i \notin x \cap y
        PROVE  i \in x \cup y /\ Carry(x, y, i)
    <2>1. PICK j \in x \cap y : j < i + 1 /\ \A k \in j + 1 .. (i + 1) - 1 : k \in x \cup y
      BY <1>4 DEF Carry
    <2>2. j \in Nat /\ j < i
      BY <1>4, <2>1
    <2>3. i \in j + 1 .. (i + 1) - 1 /\ \A k \in j + 1 .. i - 1 : k \in j + 1 .. (i + 1) - 1
      BY <2>2
    <2> QED
      BY <2>1, <2>2, <2>3 DEF Carry
  <1> QED
    BY <1>1, <1>2, <1>3, <1>4

LEMMA SumBits ==
  ASSUME NEW width \in Nat, NEW x \in SUBSET (0 .. width - 1), NEW y \in SUBSET (0 .. width - 1)
  PROVE  /\ WordSum(x, y, width) \subseteq 0 .. width - 1
         /\ \A i \in 0 .. width - 1 :
              i \in WordSum(x, y, width) <=> ((i \in x <=> i \in y) <=> Carry(x, y, i))
  <1> DEFINE carries == {i \in 1 .. width - 1 : Carry(x, y, i)}
  <1>1. WordSum(x, y, width) = SymDiff(SymDiff(x, y), carries)
    BY DEF WordSum, Carry
  <1>2. \A i \in 0 .. width - 1 : i \in carries <=> Carry(x, y, i)
    <2>1. ~Carry(x, y, 0)
      BY DEF Carry
    <2>2. \A i \in 0 .. width - 1 : i = 0 \/ i \in 1 .. width - 1
      OBVIOUS
    <2>3. 0 \notin carries
      OBVIOUS
    <2> QED
      BY <2>1, <2>2, <2>3
  <1>3. carries \subseteq 0 .. width - 1
    OBVIOUS
  <1> HIDE DEF carries
  <1>4. \A i : i \in SymDiff(x, y) <=> ~(i \in x <=> i \in y)
    BY DEF SymDiff
  <1>5. \A i : i \in WordSum(x, y, width) <=> ~(i \in SymDiff(x, y) <=> i \in carries)
    BY <1>1 DEF SymDiff
  <1>6. SymDiff(x, y) \subseteq 0 .. width - 1
    BY <1>4
  <1> QED
    BY <1>2, <1>3, <1>4, <1>5, <1>6

(* The bits of a sum of two words. *)
LEMMA PlusBits ==
  ASSUME NEW x \in UInt32, NEW y \in UInt32
  PROVE  /\ Plus(x, y) \in UInt32
         /\ \A i \in Bits : i \in Plus(x, y) <=> ((i \in x <=> i \in y) <=> Carry(x, y, i))
  <1>1. x \in SUBSET (0 .. 32 - 1) /\ y \in SUBSET (0 .. 32 - 1) /\ 32 \in Nat /\ Bits = 0 .. 32 - 1
    BY DEF UInt32, Bits
  <1>2. /\ WordSum(x, y, 32) \subseteq 0 .. 32 - 1
        /\ \A i \in 0 .. 32 - 1 :
             i \in WordSum(x, y, 32) <=> ((i \in x <=> i \in y) <=> Carry(x, y, i))
    BY ONLY <1>1, SumBits
  <1>3. Plus(x, y) = WordSum(x, y, 32)
    BY DEF Plus
  <1>4. Plus(x, y) \in SUBSET Bits
    BY ONLY <1>1, <1>2, <1>3
  <1> QED
    BY <1>1, <1>2, <1>3, <1>4, Zenon DEF UInt32

(* Of two words that are added, the sum is less than the second exactly    *)
(* when a carry leaves the highest bit: from the highest bit at which the  *)
(* sum and the second word differ upwards, the first word has what the     *)
(* carries have, which then keep their value.                              *)
LEMMA Overflow ==
  ASSUME NEW x \in UInt32, NEW y \in UInt32
  PROVE  Less(Plus(x, y), y) <=> Carry(x, y, 32)
  <1> DEFINE s == Plus(x, y)
             differ == SymDiff(s, y)
             c(i) == Carry(x, y, i)
  <1>1. x \in SUBSET (0 .. 32 - 1) /\ y \in SUBSET (0 .. 32 - 1) /\ x \in SUBSET Nat /\ y \in SUBSET Nat
    BY DEF UInt32, Bits
  <1>2. /\ s \subseteq 0 .. 31
        /\ \A i \in 0 .. 31 : i \in s <=> ((i \in x <=> i \in y) <=> c(i))
    BY PlusBits DEF UInt32, Bits
  <1>3. /\ ~c(0)
        /\ \A i \in Nat : c(i + 1) <=> i \in x \cap y \/ (i \in x \cup y /\ c(i))
    BY <1>1, CarryStep
  <1> HIDE DEF c, s
  <1>4. differ \subseteq 0 .. 31 /\ \A i \in 0 .. 31 : i \in differ <=> ~(i \in x <=> c(i))
    <2>1. \A i : i \in differ <=> ~(i \in s <=> i \in y)
      BY DEF SymDiff
    <2>2. differ \subseteq 0 .. 31
      <3> SUFFICES ASSUME NEW i \in differ
                   PROVE  i \in 0 .. 31
        OBVIOUS
      <3>1. i \in s \/ i \in y
        BY <2>1
      <3>2. y \subseteq 0 .. 31
        BY DEF UInt32, Bits
      <3> QED
        BY <1>2, <3>1, <3>2
    <2>3. ASSUME NEW i \in 0 .. 31
          PROVE  i \in differ <=> ~(i \in x <=> c(i))
      BY <1>2, <2>1
    <2> QED
      BY <2>2, <2>3
  <1>5. Less(s, y) <=> differ # {} /\ Max(differ) \in y
    BY DEF Less
  <1> HIDE DEF differ
  <1>6. ASSUME NEW m \in 0 .. 32, \A i \in m .. 31 : i \notin differ
        PROVE  c(32) <=> c(m)
    <2> DEFINE T == {i \in Nat : c(i) <=> c(m)}
    <2>1. \A i \in m .. 32 - 1 : i \in T => i + 1 \in T
      <3> SUFFICES ASSUME NEW i \in m .. 32 - 1, i \in T
                   PROVE  i + 1 \in T
        OBVIOUS
      <3>1. i \in Nat /\ i + 1 \in Nat /\ i \in 0 .. 31 /\ i \in m .. 31
        OBVIOUS
      <3>2. i \in x <=> c(i)
        BY <1>4, <1>6, <3>1
      <3>3. c(i + 1) <=> c(i)
        BY <1>3, <3>1, <3>2
      <3>4. c(i) <=> c(m)
        OBVIOUS
      <3> QED
        BY <3>1, <3>3, <3>4
    <2>2. m \in Nat /\ m \in T /\ 32 \in Nat /\ 32 \in m .. 32
      OBVIOUS
    <2> HIDE DEF T
    <2>3. \A i \in m .. 32 : i \in T
      BY <2>1, <2>2, Upward
    <2> QED
      BY <2>2, <2>3 DEF T
  <1>7. CASE differ = {}
    <2>1. c(32) <=> c(0)
      BY <1>6, <1>7
    <2> QED
      BY <1>3, <1>5, <1>7, <2>1 DEF c, s
  <1>8. CASE differ # {}
    <2> DEFINE above == {k \in Nat : 31 - k \in differ}
    <2>1. above \subseteq Nat /\ above # {}
      <3>1. PICK i : i \in differ
        BY <1>8
      <3>2. i \in 0 .. 31
        BY <1>4, <3>1
      <3>3. 31 - i \in Nat /\ 31 - (31 - i) = i
        BY <3>2
      <3> QED
        BY <3>1, <3>3
    <2>2. PICK k \in above : \A j \in above : k <= j
      <3> HIDE DEF above
      <3> QED
        BY <2>1, Least
    <2> DEFINE m == 31 - k
    <2>3. m \in differ /\ m \in 0 .. 31 /\ k \in Nat
      BY <1>4, <2>2
    <2>4. \A i \in differ : i <= m
      <3> SUFFICES ASSUME NEW i \in differ
                   PROVE  i <= m
        OBVIOUS
      <3>1. i \in 0 .. 31
        BY <1>4
      <3>2. 31 - i \in Nat /\ 31 - (31 - i) = i
        BY <3>1
      <3>3. 31 - i \in above
        BY <3>2
      <3>4. k <= 31 - i
        BY <2>2, <3>3
      <3> QED
        BY <2>3, <3>1, <3>4
    <2> HIDE DEF m
    <2>5. Max(differ) = m
      <3>1. \A n \in differ : n \in Int
        BY <1>4
      <3>2. m \in differ /\ \A i \in differ : m >= i
        BY <2>3, <2>4, <3>1
      <3>3. \A n \in differ : (\A i \in differ : n >= i) => n = m
        BY <3>1, <3>2
      <3> QED
        BY <3>2, <3>3 DEF Max
    <2>6. c(32) <=> c(m + 1)
      <3>1. m + 1 \in 0 .. 32
        BY <2>3
      <3>2. \A i \in m + 1 .. 31 : i \notin differ
        BY <2>3, <2>4
      <3> QED
        BY <1>6, <3>1, <3>2
    <2>7. c(m + 1) <=> m \in y
      <3>1. ~(m \in x <=> c(m)) /\ m \in Nat
        BY <1>4, <2>3
      <3>2. c(m + 1) <=> m \in x \cap y \/ (m \in x \cup y /\ c(m))
        BY <1>3, <3>1
      <3> QED
        BY <3>1, <3>2
    <2> QED
      BY <1>5, <1>8, <2>5, <2>6, <2>7 DEF c, s
  <1> QED
    BY <1>7, <1>8

(* A carry into the lowest bit may be added afterwards: of the two sums at *)
(* most one carries into a bit, and then the whole sum does.               *)
LEMMA CarryIn ==
  ASSUME NEW x \in UInt32, NEW y \in UInt32, NEW z, z \in {{}, {0}}, NEW C,
         0 \in C <=> 0 \in z,
         \A i \in Bits : i + 1 \in C <=> i \in x \cap y \/ (i \in x \cup y /\ i \in C)
  PROVE  /\ Plus(Plus(x, y), z) \subseteq Bits
         /\ \A i \in Bits : i \in Plus(Plus(x, y), z) <=> ((i \in x <=> i \in y) <=> i \in C)
  <1> DEFINE u == Plus(x, y)
             v == Plus(u, z)
             p(i) == Carry(x, y, i)
             q(i) == i \in z \/ Carry(u, z, i)
  <1>1. \A w \in UInt32 : w \in SUBSET (0 .. 32 - 1) /\ w \in SUBSET Nat
    BY DEF UInt32, Bits
  <1>2. u \in UInt32 /\ \A i \in Bits : i \in u <=> ((i \in x <=> i \in y) <=> p(i))
    BY PlusBits
  <1> HIDE DEF u
  <1>3. z \in UInt32 /\ \A i \in Nat : i \in z => i = 0
    BY DEF UInt32, Bits
  <1>4. v \subseteq Bits /\ \A i \in Bits : i \in v <=> ((i \in u <=> i \in z) <=> Carry(u, z, i))
    BY <1>2, <1>3, PlusBits DEF UInt32
  <1>5. /\ ~p(0)
        /\ \A i \in Nat : p(i + 1) <=> i \in x \cap y \/ (i \in x \cup y /\ p(i))
    BY <1>1, CarryStep
  <1>6. /\ ~Carry(u, z, 0)
        /\ \A i \in Nat : Carry(u, z, i + 1) <=> i \in u \cap z \/ (i \in u \cup z /\ Carry(u, z, i))
    BY <1>1, <1>2, <1>3, CarryStep
  <1>7. \A i \in Nat : ~(i \in z /\ Carry(u, z, i))
    BY <1>3, <1>6
  <1>8. q(0) <=> 0 \in z
    BY <1>6
  <1>9. \A i \in Nat : q(i + 1) <=> i \in u /\ q(i)
    <2> SUFFICES ASSUME NEW i \in Nat
                 PROVE  q(i + 1) <=> i \in u /\ q(i)
      OBVIOUS
    <2>1. i + 1 \in Nat /\ i + 1 # 0
      OBVIOUS
    <2>2. i + 1 \notin z
      BY <1>3, <2>1
    <2>3. Carry(u, z, i + 1) <=> i \in u \cap z \/ (i \in u \cup z /\ Carry(u, z, i))
      BY <1>6
    <2>4. ~(i \in z /\ Carry(u, z, i))
      BY <1>7
    <2> QED
      BY <2>2, <2>3, <2>4
  <1>10. \A i \in Bits : i \in v <=> (i \in u <=> ~q(i))
    <2> SUFFICES ASSUME NEW i \in Bits
                 PROVE  i \in v <=> (i \in u <=> ~q(i))
      OBVIOUS
    <2>1. i \in Nat
      BY DEF Bits
    <2>2. ~(i \in z /\ Carry(u, z, i))
      BY <1>7, <2>1
    <2>3. i \in v <=> ((i \in u <=> i \in z) <=> Carry(u, z, i))
      BY <1>4
    <2> QED
      BY <2>2, <2>3
  <1> HIDE DEF p, q, v
  <1> DEFINE T == {i \in Nat : (i \in C <=> p(i) \/ q(i)) /\ ~(p(i) /\ q(i))}
  <1>11. \A i \in 0 .. 31 : i \in T
    <2>1. 0 \in T
      BY <1>5, <1>8
    <2>2. \A i \in 0 .. 31 - 1 : i \in T => i + 1 \in T
      <3> SUFFICES ASSUME NEW i \in 0 .. 31 - 1, i \in T
                   PROVE  i + 1 \in T
        OBVIOUS
      <3>1. i \in Nat /\ i + 1 \in Nat /\ i \in Bits
        BY DEF Bits
      <3>2. (i \in C <=> p(i) \/ q(i)) /\ ~(p(i) /\ q(i))
        OBVIOUS
      <3>3. p(i + 1) <=> i \in x \cap y \/ (i \in x \cup y /\ p(i))
        BY <1>5, <3>1
      <3>4. q(i + 1) <=> i \in u /\ q(i)
        BY <1>9, <3>1
      <3>5. i + 1 \in C <=> i \in x \cap y \/ (i \in x \cup y /\ i \in C)
        BY <3>1
      <3>6. i \in u <=> ((i \in x <=> i \in y) <=> p(i))
        BY <1>2, <3>1 DEF p
      <3>7. (i + 1 \in C <=> p(i + 1) \/ q(i + 1)) /\ ~(p(i + 1) /\ q(i + 1))
        BY <3>2, <3>3, <3>4, <3>5, <3>6
      <3> QED
        BY <3>1, <3>7
    <2>3. 0 \in Nat /\ 31 \in Nat
      OBVIOUS
    <2> HIDE DEF T
    <2> QED
      BY <2>1, <2>2, <2>3, Upward
  <1>12. ASSUME NEW i \in Bits
         PROVE  i \in v <=> ((i \in x <=> i \in y) <=> i \in C)
    <2>1. i \in T
      BY <1>11 DEF Bits
    <2>2. (i \in C <=> p(i) \/ q(i)) /\ ~(p(i) /\ q(i))
      BY <2>1
    <2>3. i \in u <=> ((i \in x <=> i \in y) <=> p(i))
      BY <1>2 DEF p
    <2>4. i \in v <=> (i \in u <=> ~q(i))
      BY <1>10 DEF q, v
    <2> QED
      BY <2>2, <2>3, <2>4
  <1> QED
    BY <1>4, <1>12 DEF v, u

(* The counter of bits, in two words, is a sum of 64 bits. *)
LEMMA CountedIsSum ==
  ASSUME NEW low \in UInt32, NEW high \in UInt32, NEW length \in UInt32,
         NEW given, given[0] = low, given[1] = high
  PROVE  LET total == Counted(given, length)
         IN  /\ total \in [0 .. 1 -> UInt32]
             /\ Joined(total[0], total[1]) = WordSum(Joined(low, high), {i + 3 : i \in length}, 64)
  <1> DEFINE b == Left(length, 3)
             h == Right(length, 29)
             z == IF Less(Plus(low, b), b) THEN {0} ELSE {}
             t0 == Plus(low, b)
             t1 == Plus(Plus(high, h), z)
             x == Joined(low, high)
             y == {i + 3 : i \in length}
             C == {i \in Nat : Carry(x, y, i + 32)}
             total == Counted(given, length)
  <1>1. total[0] = t0 /\ total[1] = t1 /\ total = [i \in 0 .. 1 |-> IF i = 0 THEN t0 ELSE t1]
    BY DEF Counted
  <1>2. /\ low \subseteq 0 .. 31 /\ high \subseteq 0 .. 31 /\ length \subseteq 0 .. 31
        /\ UInt32 = SUBSET (0 .. 31)
    BY DEF UInt32, Bits
  <1>3. b \in UInt32 /\ h \in UInt32
    BY DEF Left, Right, UInt32
  <1>4. /\ \A i \in 0 .. 31 : i \in b <=> \E k \in length : i = k + 3
        /\ \A i \in 0 .. 31 : i \in h <=> \E k \in length : i = k - 29
    BY DEF Left, Right, Bits
  <1>5. x \subseteq 0 .. 63 /\ y \subseteq 0 .. 63
    <2>1. ASSUME NEW i \in x
          PROVE  i \in 0 .. 63
      <3>1. i \in low \/ \E k \in high : i = k + 32
        BY DEF Joined
      <3>2. CASE i \in low
        BY <1>2, <3>2
      <3>3. CASE \E k \in high : i = k + 32
        <4>1. PICK k \in high : i = k + 32
          BY <3>3
        <4>2. k \in 0 .. 31
          BY <1>2
        <4> QED
          BY <4>1, <4>2
      <3> QED
        BY <3>1, <3>2, <3>3
    <2>2. ASSUME NEW i \in y
          PROVE  i \in 0 .. 63
      <3>1. PICK k \in length : i = k + 3
        OBVIOUS
      <3>2. k \in 0 .. 31
        BY <1>2
      <3> QED
        BY <3>1, <3>2
    <2> QED
      BY <2>1, <2>2
  <1>6. \A i \in 0 .. 31 : (i \in x <=> i \in low) /\ (i \in y <=> i \in b)
    <2> SUFFICES ASSUME NEW i \in 0 .. 31
                 PROVE  (i \in x <=> i \in low) /\ (i \in y <=> i \in b)
      OBVIOUS
    <2>1. i \in x <=> i \in low \/ \E k \in high : i = k + 32
      BY DEF Joined
    <2>2. \A k \in high : i # k + 32
      BY <1>2
    <2> QED
      BY <1>4, <2>1, <2>2
  <1>7. \A i \in 0 .. 31 : (i + 32 \in x <=> i \in high) /\ (i + 32 \in y <=> i \in h)
    <2> SUFFICES ASSUME NEW i \in 0 .. 31
                 PROVE  (i + 32 \in x <=> i \in high) /\ (i + 32 \in y <=> i \in h)
      OBVIOUS
    <2>1. i + 32 \in x <=> i + 32 \in low \/ \E k \in high : i + 32 = k + 32
      BY DEF Joined
    <2>2. i + 32 \notin low
      BY <1>2
    <2>3. \A k \in high : i + 32 = k + 32 <=> k = i
      BY <1>2
    <2>4. \A k \in length : i + 32 = k + 3 <=> i = k - 29
      BY <1>2
    <2>5. i + 32 \in y <=> \E k \in length : i + 32 = k + 3
      OBVIOUS
    <2>6. i + 32 \in x <=> i \in high
      BY <2>1, <2>2, <2>3
    <2>7. i + 32 \in y <=> i \in h
      BY <1>4, <2>4, <2>5
    <2> QED
      BY <2>6, <2>7
  <1>8. /\ x \in SUBSET (0 .. 64 - 1) /\ y \in SUBSET (0 .. 64 - 1)
        /\ x \in SUBSET Nat /\ y \in SUBSET Nat /\ 64 \in Nat /\ 32 \in Nat
    BY <1>5
  <1> HIDE DEF b, h, x, y, total
  <1>9. \A i \in 0 .. 32 : Carry(x, y, i) <=> Carry(low, b, i)
    <2> DEFINE T == {i \in Nat : Carry(x, y, i) <=> Carry(low, b, i)}
    <2>1. low \in SUBSET Nat /\ b \in SUBSET Nat
      BY <1>2, <1>3
    <2>2. 0 \in T
      BY <1>8, <2>1, CarryStep
    <2>3. \A i \in 0 .. 32 - 1 : i \in T => i + 1 \in T
      <3> SUFFICES ASSUME NEW i \in 0 .. 32 - 1, i \in T
                   PROVE  i + 1 \in T
        OBVIOUS
      <3>1. i \in Nat /\ i + 1 \in Nat /\ i \in 0 .. 31
        OBVIOUS
      <3>2. Carry(x, y, i + 1) <=> i \in x \cap y \/ (i \in x \cup y /\ Carry(x, y, i))
        BY <1>8, <3>1, CarryStep
      <3>3. Carry(low, b, i + 1) <=> i \in low \cap b \/ (i \in low \cup b /\ Carry(low, b, i))
        BY <2>1, <3>1, CarryStep
      <3>4. Carry(x, y, i) <=> Carry(low, b, i)
        OBVIOUS
      <3>5. (i \in x <=> i \in low) /\ (i \in y <=> i \in b)
        BY <1>6, <3>1
      <3>6. Carry(x, y, i + 1) <=> Carry(low, b, i + 1)
        BY <3>2, <3>3, <3>4, <3>5
      <3> QED
        BY <3>1, <3>6
    <2>4. 0 \in Nat /\ 32 \in Nat
      OBVIOUS
    <2> HIDE DEF T
    <2>5. \A i \in 0 .. 32 : i \in T
      BY <2>2, <2>3, <2>4, Upward
    <2> QED
      BY <2>5 DEF T
  <1>10. 0 \in C <=> 0 \in z
    <2>1. Less(Plus(low, b), b) <=> Carry(low, b, 32)
      BY <1>3, Overflow
    <2>2. Carry(x, y, 32) <=> Carry(low, b, 32)
      BY <1>9
    <2>3. 0 \in C <=> Carry(x, y, 32)
      <3>1. 0 \in Nat /\ 0 + 32 = 32
        OBVIOUS
      <3> QED
        BY <3>1
    <2> QED
      BY <2>1, <2>2, <2>3
  <1>11. \A i \in Bits : i + 1 \in C <=> i \in high \cap h \/ (i \in high \cup h /\ i \in C)
    <2> SUFFICES ASSUME NEW i \in Bits
                 PROVE  i + 1 \in C <=> i \in high \cap h \/ (i \in high \cup h /\ i \in C)
      OBVIOUS
    <2>1. i \in 0 .. 31 /\ i \in Nat /\ i + 1 \in Nat /\ (i + 1) + 32 = (i + 32) + 1 /\ i + 32 \in Nat
      BY DEF Bits
    <2>2. Carry(x, y, (i + 32) + 1)
            <=> i + 32 \in x \cap y \/ (i + 32 \in x \cup y /\ Carry(x, y, i + 32))
      <3> DEFINE k == i + 32
      <3>1. k \in Nat
        BY <2>1
      <3> HIDE DEF k
      <3>2. Carry(x, y, k + 1) <=> k \in x \cap y \/ (k \in x \cup y /\ Carry(x, y, k))
        BY <1>8, <3>1, CarryStep
      <3> QED
        BY <3>2 DEF k
    <2>3. (i + 32 \in x <=> i \in high) /\ (i + 32 \in y <=> i \in h)
      BY <1>7, <2>1
    <2>4. (i \in C <=> Carry(x, y, i + 32)) /\ (i + 1 \in C <=> Carry(x, y, (i + 32) + 1))
      BY <2>1
    <2> HIDE DEF C
    <2> QED
      BY <2>2, <2>3, <2>4
  <1>12. z \in {{}, {0}}
    OBVIOUS
  <1> HIDE DEF C, z
  <1>13. /\ t1 \subseteq Bits
         /\ \A i \in Bits : i \in t1 <=> ((i \in high <=> i \in h) <=> i \in C)
    BY <1>3, <1>10, <1>11, <1>12, CarryIn
  <1>14. /\ t0 \subseteq 0 .. 31
         /\ \A i \in 0 .. 31 : i \in t0 <=> ((i \in low <=> i \in b) <=> Carry(low, b, i))
    BY <1>3, PlusBits DEF UInt32, Bits
  <1>15. /\ WordSum(x, y, 64) \subseteq 0 .. 64 - 1
         /\ \A i \in 0 .. 64 - 1 :
              i \in WordSum(x, y, 64) <=> ((i \in x <=> i \in y) <=> Carry(x, y, i))
    BY <1>8, SumBits
  <1> DEFINE sum == WordSum(x, y, 64)
             joined == Joined(t0, t1)
  <1> HIDE DEF t0, t1, sum
  <1>16. joined \subseteq 0 .. 63
    <2> SUFFICES ASSUME NEW i \in joined
                 PROVE  i \in 0 .. 63
      OBVIOUS
    <2>1. i \in t0 \/ \E k \in t1 : i = k + 32
      BY DEF Joined
    <2>2. CASE i \in t0
      BY <1>14, <2>2
    <2>3. CASE \E k \in t1 : i = k + 32
      <3>1. PICK k \in t1 : i = k + 32
        BY <2>3
      <3>2. k \in 0 .. 31
        BY <1>13 DEF Bits
      <3> QED
        BY <3>1, <3>2
    <2> QED
      BY <2>1, <2>2, <2>3
  <1>17. ASSUME NEW i \in 0 .. 31
         PROVE  i \in joined <=> i \in sum
    <2>1. i \in joined <=> i \in t0
      <3>1. \A k \in t1 : i # k + 32
        BY <1>13 DEF Bits
      <3> QED
        BY <3>1 DEF Joined
    <2>2. i \in 0 .. 64 - 1 /\ i \in 0 .. 32
      OBVIOUS
    <2>3. i \in sum <=> ((i \in x <=> i \in y) <=> Carry(x, y, i))
      BY <1>15, <2>2 DEF sum
    <2>4. i \in t0 <=> ((i \in low <=> i \in b) <=> Carry(low, b, i))
      BY <1>14
    <2>5. Carry(x, y, i) <=> Carry(low, b, i)
      BY <1>9, <2>2
    <2> QED
      BY <1>6, <2>1, <2>3, <2>4, <2>5
  <1>18. ASSUME NEW i \in 0 .. 31
         PROVE  i + 32 \in joined <=> i + 32 \in sum
    <2>1. i + 32 \in joined <=> i \in t1
      <3>1. i + 32 \notin t0
        BY <1>14
      <3>2. \A k \in t1 : i + 32 = k + 32 <=> k = i
        BY <1>13 DEF Bits
      <3>3. i + 32 \in joined <=> i + 32 \in t0 \/ \E k \in t1 : i + 32 = k + 32
        BY DEF Joined
      <3> QED
        BY <3>1, <3>2, <3>3
    <2>2. i + 32 \in 0 .. 64 - 1 /\ i \in Nat /\ i \in Bits
      BY DEF Bits
    <2>3. i + 32 \in sum <=> ((i + 32 \in x <=> i + 32 \in y) <=> Carry(x, y, i + 32))
      BY <1>15, <2>2 DEF sum
    <2>4. i \in t1 <=> ((i \in high <=> i \in h) <=> i \in C)
      BY <1>13, <2>2
    <2>5. i \in C <=> Carry(x, y, i + 32)
      BY <2>2 DEF C
    <2> QED
      BY <1>7, <2>1, <2>3, <2>4, <2>5
  <1>19. joined = sum
    <2>1. \A i \in 0 .. 63 : i \in 0 .. 31 \/ \E k \in 0 .. 31 : i = k + 32
      <3> SUFFICES ASSUME NEW i \in 0 .. 63, i \notin 0 .. 31
                   PROVE  \E k \in 0 .. 31 : i = k + 32
        OBVIOUS
      <3>1. i - 32 \in 0 .. 31 /\ i = (i - 32) + 32
        OBVIOUS
      <3> QED
        BY <3>1
    <2>2. sum \subseteq 0 .. 63
      BY <1>15 DEF sum
    <2> HIDE DEF joined
    <2>3. \A i \in 0 .. 63 : i \in joined <=> i \in sum
      BY <1>17, <1>18, <2>1
    <2> QED
      BY <1>16, <2>2, <2>3
  <1>20. total \in [0 .. 1 -> UInt32]
    <2>1. t0 \in UInt32 /\ t1 \in UInt32
      BY <1>2, <1>13, <1>14 DEF Bits
    <2> QED
      BY <1>1, <2>1
  <1> QED
    BY <1>1, <1>19, <1>20 DEF total, sum, x, y

(* The two words of the counter are words. *)
TotalOK == ctx.total \in [0 .. 1 -> UInt32]

LEMMA TotalAlways == Spec => []TotalOK
  <1>1. Init => TotalOK
    BY DEF Init, TotalOK, sha1_starts, UInt32
  <1>2. TotalOK /\ [Next]_vars => TotalOK'
    <2> SUFFICES ASSUME TotalOK, [Next]_vars
                 PROVE  TotalOK'
      OBVIOUS
    <2>1. ASSUME NEW piece \in Pieces, Feed(piece)
          PROVE  TotalOK'
      <3> DEFINE length == BitsOf(Len(piece), 32)
      <3>1. ctx' = sha1_update(ctx, piece)
        BY <2>1 DEF Feed
      <3>2. ctx' = ctx \/ ctx'.total = Counted(ctx.total, length)
        BY <3>1 DEF sha1_update
      <3>3. length \in UInt32
        BY DEF BitsOf, UInt32, Bits
      <3> HIDE DEF length
      <3>4. ctx.total[0] \in UInt32 /\ ctx.total[1] \in UInt32
        BY DEF TotalOK
      <3>5. Counted(ctx.total, length) \in [0 .. 1 -> UInt32]
        BY <3>3, <3>4, CountedIsSum
      <3> QED
        BY <3>2, <3>5 DEF TotalOK
    <2>2. CASE UNCHANGED vars
      BY <2>2 DEF vars, TotalOK
    <2> QED
      BY <2>1, <2>2 DEF Next
  <1> QED
    BY <1>1, <1>2, PTL DEF Spec

(* The two words count the bits of the message modulo 2^64, whatever the   *)
(* words are: the comparison by which the code finds the carry never       *)
(* misses one and never finds one that is not there.                       *)
THEOREM BitsAreCounted == Spec => []CountsBits
  <1>1. TotalOK => CountsBits
    <2> SUFFICES ASSUME TotalOK, NEW low \in EdgeWords \cup {ctx.total[0]},
                        NEW high \in EdgeWords, NEW length \in EdgeWords
                 PROVE  LET total == Counted([i \in 0 .. 1 |-> IF i = 0 THEN low ELSE high], length)
                        IN  Joined(total[0], total[1]) = WordSum(Joined(low, high), {i + 3 : i \in length}, 64)
      BY DEF CountsBits
    <2>1. low \in UInt32 /\ high \in UInt32 /\ length \in UInt32
      BY EdgeAssumption DEF TotalOK
    <2> DEFINE given == [i \in 0 .. 1 |-> IF i = 0 THEN low ELSE high]
    <2>2. given[0] = low /\ given[1] = high
      OBVIOUS
    <2> HIDE DEF given
    <2>3. LET total == Counted(given, length)
          IN  Joined(total[0], total[1]) = WordSum(Joined(low, high), {i + 3 : i \in length}, 64)
      BY <2>1, <2>2, CountedIsSum
    <2> QED
      BY <2>3 DEF given
  <1> QED
    BY <1>1, TotalAlways, PTL

-----------------------------------------------------------------------------
(* The types of what sha1.c computes. *)

(* What a loop of n rounds, each a function of what the one before left,   *)
(* leaves after each of them.                                              *)
Steps(X, n) == [1 .. n -> [X -> X]]

Leaves(g, X, n, base, step) ==
  g \in [0 .. n -> X] /\ g[0] = base /\ \A t \in 1 .. n : g[t] = step[t][g[t - 1]]

LEMMA Iterates ==
  ASSUME NEW X, NEW n \in Nat, NEW base \in X, NEW step \in Steps(X, n)
  PROVE  \E g : Leaves(g, X, n, base, step)
  <1> DEFINE Loop(g, m) == g[0] = base /\ \A t \in 1 .. m : g[t] = step[t][g[t - 1]]
             T == {m \in 0 .. n : \E g \in [0 .. m -> X] : Loop(g, m)}
  <1>0. step \in [1 .. n -> [X -> X]]
    BY DEF Steps
  <1>1. 0 \in T
    <2> DEFINE g == [t \in 0 .. 0 |-> base]
    <2>1. g \in [0 .. 0 -> X] /\ Loop(g, 0)
      OBVIOUS
    <2>2. 0 \in 0 .. n
      OBVIOUS
    <2> HIDE DEF g, Loop
    <2> QED
      BY <2>1, <2>2
  <1>2. \A m \in 0 .. n - 1 : m \in T => m + 1 \in T
    <2> SUFFICES ASSUME NEW m \in 0 .. n - 1, m \in T
                 PROVE  m + 1 \in T
      OBVIOUS
    <2>1. PICK g \in [0 .. m -> X] : Loop(g, m)
      OBVIOUS
    <2> DEFINE h == [t \in 0 .. m + 1 |-> IF t = m + 1 THEN step[m + 1][g[m]] ELSE g[t]]
    <2>2. m + 1 \in 1 .. n /\ m \in 0 .. m /\ g[m] \in X
      OBVIOUS
    <2>3. step[m + 1][g[m]] \in X
      <3>1. step[m + 1] \in [X -> X]
        BY <1>0, <2>2
      <3> QED
        BY <2>2, <3>1
    <2>4. \A t \in 0 .. m + 1 : t # m + 1 => t \in 0 .. m
      BY <2>2
    <2>5. h \in [0 .. m + 1 -> X]
      BY <2>3, <2>4
    <2>6. h[0] = base
      BY <2>1, <2>2
    <2>7. ASSUME NEW t \in 1 .. m + 1
          PROVE  h[t] = step[t][h[t - 1]]
      <3>1. t - 1 \in 0 .. m /\ h[t - 1] = g[t - 1]
        OBVIOUS
      <3>2. CASE t = m + 1
        <4>1. t - 1 = m
          BY <3>2
        <4> QED
          BY <3>1, <3>2, <4>1
      <3>3. CASE t # m + 1
        <4>1. t \in 1 .. m /\ h[t] = g[t]
          BY <3>3
        <4> QED
          BY <2>1, <3>1, <4>1
      <3> QED
        BY <3>2, <3>3
    <2>8. m + 1 \in 0 .. n
      OBVIOUS
    <2> QED
      BY <2>5, <2>6, <2>7, <2>8
  <1>3. n \in T
    <2> HIDE DEF T
    <2>1. \A m \in 0 .. n : m \in T
      BY <1>1, <1>2, Upward
    <2>2. n \in 0 .. n
      OBVIOUS
    <2> QED
      BY <2>1, <2>2
  <1> QED
    BY <1>3 DEF Leaves

(* And it comes to the end: the recursive function that a loop is exists.  *)
LEMMA Loops ==
  ASSUME NEW X, NEW n \in Nat, NEW base \in X, NEW step \in Steps(X, n)
  PROVE  \E g : Leaves(g, X, n, base, step) /\ Looped(base, step, n) = g[n]
  <1> DEFINE Body(h) == [t \in 0 .. n |-> IF t = 0 THEN base ELSE step[t][h[t - 1]]]
             after == CHOOSE h : h = Body(h)
  <1>1. PICK g : Leaves(g, X, n, base, step)
    BY Iterates
  <1>2. g \in [0 .. n -> X] /\ g[0] = base /\ \A t \in 1 .. n : g[t] = step[t][g[t - 1]]
    BY <1>1 DEF Leaves
  <1>3. g = Body(g)
    <2>1. \A t \in 0 .. n : t # 0 => t \in 1 .. n
      OBVIOUS
    <2> QED
      BY <1>2, <2>1
  <1>4. after = Body(after)
    <2> HIDE DEF Body
    <2> QED
      BY <1>3
  <1>5. Looped(base, step, n) = after[n]
    BY DEF Looped
  <1> HIDE DEF after
  <1> DEFINE T == {t \in 0 .. n : after[t] = g[t]}
  <1>6. 0 \in T
    <2>1. 0 \in 0 .. n
      OBVIOUS
    <2> QED
      BY <1>2, <1>4, <2>1
  <1>7. \A t \in 0 .. n - 1 : t \in T => t + 1 \in T
    <2> SUFFICES ASSUME NEW t \in 0 .. n - 1, t \in T
                 PROVE  t + 1 \in T
      OBVIOUS
    <2>1. t + 1 \in 0 .. n /\ t + 1 \in 1 .. n /\ t + 1 # 0 /\ (t + 1) - 1 = t
      OBVIOUS
    <2>2. after[t + 1] = step[t + 1][after[t]]
      BY <1>4, <2>1
    <2>3. g[t + 1] = step[t + 1][g[t]]
      BY <1>2, <2>1
    <2>4. after[t] = g[t]
      OBVIOUS
    <2> QED
      BY <2>1, <2>2, <2>3, <2>4
  <1>8. n \in T
    <2> HIDE DEF T
    <2>1. 0 \in Nat /\ n \in 0 .. n
      OBVIOUS
    <2> QED
      BY <1>6, <1>7, <2>1, Upward
  <1> QED
    BY <1>1, <1>5, <1>8

(* Words made from words. *)
LEMMA WordsMade ==
  /\ \A x, y \in UInt32 : Plus(x, y) \in UInt32 /\ SymDiff(x, y) \in UInt32
  /\ \A x, n : S(x, n) \in UInt32
  /\ \A b, i : GET_UINT32(b, i) \in UInt32
  <1>1. \A x, y \in UInt32 : Plus(x, y) \in UInt32
    BY PlusBits
  <1>2. \A x, y \in UInt32 : SymDiff(x, y) \in UInt32
    BY DEF UInt32, SymDiff
  <1>3. \A x, n : S(x, n) \in UInt32
    BY DEF UInt32, S, Left, Right
  <1>4. \A b, i : GET_UINT32(b, i) \in UInt32
    BY DEF UInt32, GET_UINT32
  <1> QED
    BY <1>1, <1>2, <1>3, <1>4

LEMMA FMakes ==
  ASSUME NEW t \in 0 .. 79, NEW x \in UInt32, NEW y \in UInt32, NEW z \in UInt32
  PROVE  F(t, x, y, z) \in UInt32 /\ K(t) \in UInt32
  <1>1. /\ SymDiff(z, x \cap SymDiff(y, z)) \in UInt32
        /\ SymDiff(SymDiff(x, y), z) \in UInt32
        /\ (x \cap y) \cup (z \cap (x \cup y)) \in UInt32
    BY DEF UInt32, SymDiff
  <1>2. \A b1, b2, b3, b4 : Word(b1, b2, b3, b4) \in UInt32
    BY WordsMade DEF Word
  <1>3. t \in 0 .. 19 \/ t \in 20 .. 39 \/ t \in 40 .. 59 \/ t \in 60 .. 79
    OBVIOUS
  <1>4. CASE t \in 0 .. 19
    BY <1>1, <1>2, <1>4 DEF F, K
  <1>5. CASE t \in 20 .. 39
    BY <1>1, <1>2, <1>5 DEF F, K
  <1>6. CASE t \in 40 .. 59
    BY <1>1, <1>2, <1>6 DEF F, K
  <1>7. CASE t \in 60 .. 79
    BY <1>1, <1>2, <1>7 DEF F, K
  <1> QED
    BY <1>3, <1>4, <1>5, <1>6, <1>7

(* A round leaves five registers and a ring of sixteen words. *)
LEMMA RoundMakes ==
  ASSUME NEW r \in Registers, NEW t \in 0 .. 79
  PROVE  Round(r, t) \in Registers
  <1> DEFINE now == R(r.W, t)
             x == now[t % 16]
  <1>1. r.regs \in State /\ r.W \in Ring
    BY DEF Registers
  <1>2. now \in Ring
    <2>1. t % 16 \in 0 .. 15
      OBVIOUS
    <2>2. \A y : S(y, 1) \in UInt32
      BY WordsMade
    <2> QED
      BY <1>1, <2>1, <2>2 DEF R, Ring
  <1>3. x \in UInt32
    <2>1. t % 16 \in 0 .. 15
      OBVIOUS
    <2> HIDE DEF now
    <2> QED
      BY <1>2, <2>1 DEF Ring
  <1> HIDE DEF now, x
  <1>4. P(r.regs, x, t) \in State
    <2> DEFINE regs == r.regs
               at(i) == (i - t) % 5
               f == F(t, regs[at(1)], regs[at(2)], regs[at(3)])
               sum == Plus(S(regs[at(0)], 5), f)
               more == Plus(K(t), x)
    <2>1. \A i \in 0 .. 4 : at(i) \in 0 .. 4
      OBVIOUS
    <2> HIDE DEF at
    <2>2. \A i \in 0 .. 4 : regs[at(i)] \in UInt32
      BY <1>1, <2>1 DEF State
    <2>3. f \in UInt32 /\ K(t) \in UInt32
      <3>1. regs[at(1)] \in UInt32 /\ regs[at(2)] \in UInt32 /\ regs[at(3)] \in UInt32
        BY <2>2
      <3> HIDE DEF regs
      <3> QED
        BY <3>1, FMakes
    <2> HIDE DEF f
    <2>4. sum \in UInt32 /\ more \in UInt32
      BY <1>3, <2>3, WordsMade
    <2> HIDE DEF sum, more
    <2>5. Plus(sum, more) \in UInt32
      BY <2>4, WordsMade
    <2>6. \A y \in UInt32 : Plus(y, Plus(sum, more)) \in UInt32
      BY <2>5, WordsMade
    <2>7. \A y : S(y, 30) \in UInt32
      BY WordsMade
    <2> HIDE DEF regs
    <2>8. [regs EXCEPT ![at(4)] = Plus(@, Plus(sum, more)), ![at(1)] = S(@, 30)] \in State
      BY <1>1, <2>2, <2>6, <2>7 DEF State, regs
    <2> QED
      BY <2>8 DEF P, regs, at, f, sum, more
  <1> QED
    BY <1>2, <1>4 DEF Round, Registers, now, x

(* What the code has after each round. *)
Runs(g, state, ring) ==
  /\ g \in [0 .. 80 -> Registers]
  /\ g[0] = [regs |-> state, W |-> ring]
  /\ \A t \in 0 .. 79 : g[t + 1] = Round(g[t], t)

LEMMA RoundsRun ==
  ASSUME NEW state \in State, NEW ring \in Ring
  PROVE  \E g : Runs(g, state, ring) /\ Rounds(state, ring) = g[80].regs
  <1> DEFINE first == [regs |-> state, W |-> ring]
             step == [t \in 1 .. 80 |-> [r \in Registers |-> Round(r, t - 1)]]
             n == 80
  <1>1. first \in Registers
    BY DEF Registers
  <1>2. step \in [1 .. 80 -> [Registers -> Registers]]
    <2>1. \A t \in 1 .. 80 : t - 1 \in 0 .. 79
      OBVIOUS
    <2> QED
      BY <2>1, RoundMakes
  <1>3. n \in Nat /\ step \in Steps(Registers, n)
    BY <1>2 DEF Steps
  <1>4. Rounds(state, ring) = Looped(first, step, n).regs
    BY DEF Rounds
  <1>5. ASSUME NEW t \in 0 .. 79, NEW r \in Registers
        PROVE  step[t + 1][r] = Round(r, t)
    <2>1. t + 1 \in 1 .. 80 /\ (t + 1) - 1 = t
      OBVIOUS
    <2> QED
      BY <2>1
  <1> HIDE DEF first, step, n
  <1>6. PICK g : Leaves(g, Registers, n, first, step) /\ Looped(first, step, n) = g[n]
    BY <1>1, <1>3, Loops
  <1>7. g \in [0 .. 80 -> Registers] /\ g[0] = first /\ \A t \in 1 .. 80 : g[t] = step[t][g[t - 1]]
    BY <1>6 DEF Leaves, n
  <1>8. \A t \in 0 .. 79 : g[t + 1] = Round(g[t], t)
    <2> SUFFICES ASSUME NEW t \in 0 .. 79
                 PROVE  g[t + 1] = Round(g[t], t)
      OBVIOUS
    <2>1. t + 1 \in 1 .. 80 /\ (t + 1) - 1 = t /\ t \in 0 .. 80
      OBVIOUS
    <2>2. g[t + 1] = step[t + 1][g[t]]
      BY <1>7, <2>1
    <2>3. g[t] \in Registers
      BY <1>7, <2>1
    <2> QED
      BY <1>5, <2>2, <2>3
  <1>9. Runs(g, state, ring)
    BY <1>7, <1>8 DEF Runs, first
  <1> QED
    BY <1>4, <1>6, <1>9 DEF n

LEMMA RoundsMake ==
  ASSUME NEW state \in State, NEW ring \in Ring
  PROVE  Rounds(state, ring) \in State
  <1>1. PICK g : Runs(g, state, ring) /\ Rounds(state, ring) = g[80].regs
    BY RoundsRun
  <1>2. g[80] \in Registers
    BY <1>1 DEF Runs
  <1> QED
    BY <1>1, <1>2 DEF Registers

LEMMA ProcessMakes ==
  ASSUME NEW state \in State, NEW data, NEW i
  PROVE  sha1_process(state, data, i) \in State
  <1> DEFINE ring == [k \in 0 .. 15 |-> GET_UINT32(data, i + 4 * k)]
             regs == Rounds(state, ring)
  <1>1. ring \in Ring
    BY WordsMade DEF Ring
  <1> HIDE DEF ring
  <1>2. regs \in State
    BY <1>1, RoundsMake
  <1> HIDE DEF regs
  <1>3. \A k \in 0 .. 4 : Plus(state[k], regs[k]) \in UInt32
    BY <1>2, WordsMade DEF State
  <1>4. [k \in 0 .. 4 |-> Plus(state[k], regs[k])] \in State
    BY <1>3 DEF State
  <1> QED
    BY <1>4 DEF sha1_process, regs, ring

LEMMA BlocksMake ==
  ASSUME NEW state \in State, NEW input, NEW start, NEW blocks \in Nat
  PROVE  Blocks(state, input, start, blocks) \in State
  <1> DEFINE Then(s, b) == sha1_process(s, input, start + 64 * b)
             step == [b \in 1 .. blocks |-> [s \in State |-> Then(s, b - 1)]]
             Body(h) == [b \in 0 .. blocks |-> IF b = 0 THEN state ELSE Then(h[b - 1], b - 1)]
             after == CHOOSE h : h = Body(h)
  <1>1. \A s \in State : \A b : Then(s, b) \in State
    BY ProcessMakes
  <1>2. Blocks(state, input, start, blocks) = after[blocks]
    BY DEF Blocks
  <1> HIDE DEF Then
  <1>3. step \in [1 .. blocks -> [State -> State]]
    BY <1>1
  <1>4. PICK g \in [0 .. blocks -> State] :
          g[0] = state /\ \A b \in 1 .. blocks : g[b] = step[b][g[b - 1]]
    <2>1. step \in Steps(State, blocks)
      BY <1>3 DEF Steps
    <2> HIDE DEF step
    <2>2. \E g : Leaves(g, State, blocks, state, step)
      BY <2>1, Iterates
    <2> QED
      BY <2>2 DEF Leaves
  <1>5. g = Body(g)
    <2>1. \A b \in 1 .. blocks : g[b] = Then(g[b - 1], b - 1)
      <3> SUFFICES ASSUME NEW b \in 1 .. blocks
                   PROVE  g[b] = Then(g[b - 1], b - 1)
        OBVIOUS
      <3>1. g[b - 1] \in State
        OBVIOUS
      <3> QED
        BY <1>4, <3>1
    <2>2. \A b \in 0 .. blocks : b # 0 => b \in 1 .. blocks
      OBVIOUS
    <2> QED
      BY <1>4, <2>1, <2>2
  <1>6. after = Body(after)
    <2> HIDE DEF Body
    <2> QED
      BY <1>5
  <1> HIDE DEF after
  <1> DEFINE T == {b \in 0 .. blocks : after[b] \in State}
  <1>7. 0 \in T
    BY <1>6
  <1>8. \A b \in 0 .. blocks - 1 : b \in T => b + 1 \in T
    <2> SUFFICES ASSUME NEW b \in 0 .. blocks - 1, b \in T
                 PROVE  b + 1 \in T
      OBVIOUS
    <2>1. b + 1 \in 0 .. blocks /\ b + 1 # 0 /\ (b + 1) - 1 = b
      OBVIOUS
    <2>2. after[b + 1] = Then(after[b], b)
      BY <1>6, <2>1
    <2> QED
      BY <1>1, <2>1, <2>2
  <1>9. after[blocks] \in State
    <2> HIDE DEF T
    <2>1. \A b \in 0 .. blocks : b \in T
      BY <1>7, <1>8, Upward
    <2>2. blocks \in T
      BY <2>1
    <2> QED
      BY <2>2 DEF T
  <1> QED
    BY <1>2, <1>9

(* The bytes that wait are fewer than a block. *)
LEMMA FewWait ==
  ASSUME NEW c
  PROVE  Waiting(c) \in 0 .. 63
  <1> DEFINE x == Right(c.total[0], 3) \cap 0 .. 5
             bit(i) == IF i \in x THEN 1 ELSE 0
  <1>1. 6 \notin x /\ 7 \notin x
    OBVIOUS
  <1>2. Waiting(c) = bit(0) + 2 * bit(1) + 4 * bit(2) + 8 * bit(3)
                       + 16 * bit(4) + 32 * bit(5) + 64 * bit(6) + 128 * bit(7)
    BY DEF Waiting, Number
  <1> HIDE DEF x
  <1>3. bit(6) = 0 /\ bit(7) = 0
    BY <1>1
  <1>4. \A i : bit(i) \in 0 .. 1
    OBVIOUS
  <1> HIDE DEF bit
  <1>5. /\ bit(0) \in 0 .. 1 /\ bit(1) \in 0 .. 1 /\ bit(2) \in 0 .. 1
        /\ bit(3) \in 0 .. 1 /\ bit(4) \in 0 .. 1 /\ bit(5) \in 0 .. 1
    BY <1>4
  <1> QED
    BY <1>2, <1>3, <1>5

(* memcpy to the buffer, when it stays within the buffer and the input. *)
LEMMA CopyStays ==
  ASSUME NEW buffer \in [1 .. 64 -> Bytes], NEW input \in Seq(Bytes),
         NEW left \in Nat, NEW from \in Nat, NEW count \in Nat, from >= 1,
         left + count <= 64, from + count <= Len(input) + 1
  PROVE  Copied(buffer, left, input, from, count) \in [1 .. 64 -> Bytes]
  <1>1. Len(input) \in Nat /\ \A k \in 1 .. Len(input) : input[k] \in Bytes
    <2>1. Len(input) \in Nat
      OBVIOUS
    <2>2. \A k \in 1 .. Len(input) : input[k] \in Bytes
      BY ElementOfSeq
    <2> QED
      BY <2>1, <2>2
  <1>2. ASSUME NEW i \in 1 .. 64, i \in left + 1 .. left + count
        PROVE  input[from + i - left - 1] \in Bytes
    <2> DEFINE n == Len(input)
               k == from + i - left - 1
    <2>1. n \in Nat /\ from + count <= n + 1 /\ i >= left + 1 /\ i <= left + count /\ i \in Nat
      BY <1>1, <1>2
    <2> HIDE DEF n
    <2>2. k \in Int /\ k >= 1 /\ k <= n
      BY <2>1
    <2>3. k \in 1 .. n
      BY <2>1, <2>2
    <2> HIDE DEF k
    <2>4. input[k] \in Bytes
      BY <1>1, <2>3 DEF n
    <2> QED
      BY <2>4 DEF k
  <1> QED
    BY <1>2 DEF Copied

(* sha1_update() copies no more than the buffer holds, and nothing from    *)
(* behind the input, whatever waits and however long the input is.         *)
LEMMA UpdateMakes ==
  ASSUME NEW c \in sha1_context, NEW input \in Seq(Bytes)
  PROVE  sha1_update(c, input) \in sha1_context
  <1> DEFINE n == Len(input)
             left == Waiting(c)
             filled == Fills(left, n)
             used == IF filled THEN 64 - left ELSE 0
             full == Copied(c.buffer, left, input, 1, used)
             first == IF filled THEN sha1_process(c.state, full, 1) ELSE c.state
             blocks == (n - used) \div 64
             done == used + 64 * blocks
             begin == IF filled THEN 0 ELSE left
             total == Counted(c.total, BitsOf(n, 32))
             state == Blocks(first, input, used + 1, blocks)
             buffer == Copied(full, begin, input, done + 1, n - done)
  <1>1. /\ c.total[0] \in UInt32 /\ c.total[1] \in UInt32
        /\ c.state \in State /\ c.buffer \in [1 .. 64 -> Bytes]
    <2>1. /\ c.total \in [0 .. 1 -> UInt32] /\ c.state \in [0 .. 4 -> UInt32]
          /\ c.buffer \in [1 .. 64 -> Bytes]
      BY DEF sha1_context
    <2>2. c.total[0] \in UInt32 /\ c.total[1] \in UInt32
      <3> DEFINE t == c.total
      <3> HIDE DEF t
      <3>1. t \in [0 .. 1 -> UInt32]
        BY <2>1 DEF t
      <3>2. t[0] \in UInt32 /\ t[1] \in UInt32
        BY <3>1
      <3> QED
        BY <3>2 DEF t
    <2>3. c.state \in State
      BY <2>1 DEF State
    <2> QED
      BY <2>1, <2>2, <2>3
  <1>2. n \in Nat /\ left \in 0 .. 63
    BY FewWait
  <1>3. filled <=> left > 0 /\ n >= 64 - left
    BY DEF Fills
  <1>4. sha1_update(c, input) = c \/ sha1_update(c, input) = [total |-> total, state |-> state, buffer |-> buffer]
    BY DEF sha1_update
  <1> HIDE DEF n, left, filled
  <1>5. used \in 0 .. 64 /\ used <= n /\ left + used <= 64
    BY <1>2, <1>3
  <1>6. full \in [1 .. 64 -> Bytes]
    <2>1. left \in Nat /\ used \in Nat /\ 1 \in Nat /\ 1 >= 1 /\ 1 + used <= Len(input) + 1
      BY <1>2, <1>5 DEF n
    <2> HIDE DEF used
    <2> QED
      BY <1>1, <1>5, <2>1, CopyStays
  <1> HIDE DEF full
  <1>7. first \in State
    BY <1>1, ProcessMakes
  <1>8. blocks \in Nat /\ n - used = 64 * blocks + ((n - used) % 64) /\ (n - used) % 64 \in 0 .. 63
    BY <1>2, <1>5
  <1>9. n - done \in 0 .. 63 /\ done \in Nat
    BY <1>2, <1>5, <1>8
  <1>10. begin \in Nat /\ begin + (n - done) <= 64
    <2>1. CASE filled \/ left = 0
      BY <1>2, <1>9, <2>1
    <2>2. CASE ~filled /\ left # 0
      <3>1. used = 0 /\ n < 64 - left /\ n < 64
        BY <1>2, <1>3, <2>2
      <3>2. done >= 0
        BY <1>9
      <3> HIDE DEF done
      <3> QED
        BY <1>2, <1>9, <2>2, <3>1, <3>2
    <2> QED
      BY <2>1, <2>2
  <1> HIDE DEF used, first, blocks, begin
  <1>11. state \in State
    BY <1>7, <1>8, BlocksMake
  <1>12. buffer \in [1 .. 64 -> Bytes]
    <2>1. n - done \in Nat /\ done + 1 \in Nat /\ done + 1 >= 1 /\ (done + 1) + (n - done) <= Len(input) + 1
      <3>1. Len(input) = n
        BY DEF n
      <3> HIDE DEF done
      <3> QED
        BY <1>2, <1>9, <3>1
    <2> HIDE DEF done
    <2> QED
      BY <1>6, <1>10, <2>1, CopyStays
  <1>13. total \in [0 .. 1 -> UInt32]
    <2>1. BitsOf(n, 32) \in UInt32
      BY DEF BitsOf, UInt32, Bits
    <2> QED
      BY <1>1, <2>1, CountedIsSum
  <1> HIDE DEF total, state, buffer
  <1>14. [total |-> total, state |-> state, buffer |-> buffer] \in sha1_context
    BY <1>11, <1>12, <1>13 DEF sha1_context, State
  <1> QED
    BY <1>4, <1>14

LEMMA StartsMake == sha1_starts \in sha1_context
  <1>1. \A i \in 0 .. 4 : InitialState[i + 1] \in UInt32
    <2>1. \A b1, b2, b3, b4 : Word(b1, b2, b3, b4) \in UInt32
      BY WordsMade DEF Word
    <2>2. \A i \in 0 .. 4 : i = 0 \/ i = 1 \/ i = 2 \/ i = 3 \/ i = 4
      OBVIOUS
    <2> QED
      BY <2>1, <2>2 DEF InitialState
  <1>2. {} \in UInt32 /\ 0 \in Bytes
    BY DEF UInt32, Bytes
  <1> QED
    BY <1>1, <1>2 DEF sha1_starts, sha1_context

(* The context keeps its type however a message is cut into pieces: five   *)
(* words, a count of two words, and a buffer of 64 bytes that no memcpy of *)
(* sha1_update() leaves (sha1.c:195-239).                                  *)
THEOREM ContextTyped == Spec => []TypeOK
  <1>1. Init => TypeOK
    BY StartsMake, BoundAssumption DEF Init, TypeOK
  <1>2. TypeOK /\ [Next]_vars => TypeOK'
    <2> SUFFICES ASSUME TypeOK, [Next]_vars
                 PROVE  TypeOK'
      OBVIOUS
    <2>1. ASSUME NEW piece \in Pieces, Feed(piece)
          PROVE  TypeOK'
      <3>1. piece \in Seq(Bytes)
        BY PiecesAssumption
      <3>2. text' \in Seq(Bytes)
        BY <2>1, <3>1, ConcatProperties DEF Feed, TypeOK
      <3>3. pieces' \in 0 .. MaxPieces
        BY <2>1, BoundAssumption DEF Feed, TypeOK
      <3>4. ctx' \in sha1_context
        BY <2>1, <3>1, UpdateMakes DEF Feed, TypeOK
      <3> QED
        BY <3>2, <3>3, <3>4 DEF TypeOK
    <2>2. CASE UNCHANGED vars
      BY <2>2 DEF vars, TypeOK
    <2> QED
      BY <2>1, <2>2 DEF Next
  <1> QED
    BY <1>1, <1>2, PTL DEF Spec

-----------------------------------------------------------------------------
(* Sums of words may be taken in any order. *)
LEMMA PlusCommutes ==
  ASSUME NEW x \in UInt32, NEW y \in UInt32
  PROVE  Plus(x, y) = Plus(y, x)
  <1>1. \A i : Carry(x, y, i) <=> Carry(y, x, i)
    BY DEF Carry
  <1>2. Plus(x, y) \in UInt32 /\ Plus(y, x) \in UInt32
    BY PlusBits
  <1>3. \A i \in Bits : i \in Plus(x, y) <=> i \in Plus(y, x)
    <2>1. \A i \in Bits : i \in Plus(x, y) <=> ((i \in x <=> i \in y) <=> Carry(x, y, i))
      BY PlusBits
    <2>2. \A i \in Bits : i \in Plus(y, x) <=> ((i \in y <=> i \in x) <=> Carry(y, x, i))
      BY PlusBits
    <2> QED
      BY <1>1, <2>1, <2>2
  <1> QED
    BY <1>2, <1>3 DEF UInt32

(* Of three words, the two carries into a bit are as many however the      *)
(* words are taken together.                                               *)
AsMany(a, b, c, d) == (a /\ b <=> c /\ d) /\ (a \/ b <=> c \/ d)

LEMMA PlusAssociates ==
  ASSUME NEW x \in UInt32, NEW y \in UInt32, NEW z \in UInt32
  PROVE  Plus(Plus(x, y), z) = Plus(x, Plus(y, z))
  <1> DEFINE u == Plus(x, y)
             v == Plus(y, z)
             a(i) == Carry(x, y, i)
             b(i) == Carry(u, z, i)
             c(i) == Carry(y, z, i)
             d(i) == Carry(x, v, i)
             l == Plus(u, z)
             r == Plus(x, v)
  <1>1. u \in UInt32 /\ v \in UInt32
    BY PlusBits
  <1>2. l \in UInt32 /\ r \in UInt32
    BY <1>1, PlusBits
  <1>3. \A w \in UInt32 : w \in SUBSET Nat
    BY DEF UInt32, Bits
  <1>4. /\ \A i \in Bits : i \in u <=> ((i \in x <=> i \in y) <=> a(i))
        /\ \A i \in Bits : i \in v <=> ((i \in y <=> i \in z) <=> c(i))
    BY PlusBits
  <1>5. /\ \A i \in Bits : i \in l <=> ((i \in u <=> i \in z) <=> b(i))
        /\ \A i \in Bits : i \in r <=> ((i \in x <=> i \in v) <=> d(i))
    <2> HIDE DEF u, v
    <2> QED
      BY <1>1, PlusBits
  <1>6. /\ ~a(0) /\ \A i \in Nat : a(i + 1) <=> i \in x \cap y \/ (i \in x \cup y /\ a(i))
        /\ ~c(0) /\ \A i \in Nat : c(i + 1) <=> i \in y \cap z \/ (i \in y \cup z /\ c(i))
    BY <1>3, CarryStep
  <1>7. /\ ~b(0) /\ \A i \in Nat : b(i + 1) <=> i \in u \cap z \/ (i \in u \cup z /\ b(i))
        /\ ~d(0) /\ \A i \in Nat : d(i + 1) <=> i \in x \cap v \/ (i \in x \cup v /\ d(i))
    <2> HIDE DEF u, v
    <2> QED
      BY <1>1, <1>3, CarryStep
  <1> HIDE DEF u, v, a, b, c, d, l, r
  <1> DEFINE T == {i \in 0 .. 31 : AsMany(a(i), b(i), c(i), d(i))}
  <1>8. 0 \in T
    BY <1>6, <1>7 DEF AsMany
  <1>9. \A i \in 0 .. 31 - 1 : i \in T => i + 1 \in T
    <2> SUFFICES ASSUME NEW i \in 0 .. 31 - 1, i \in T
                 PROVE  i + 1 \in T
      OBVIOUS
    <2>1. i \in Nat /\ i \in Bits /\ i + 1 \in 0 .. 31
      BY DEF Bits
    <2>2. /\ i \in u <=> ((i \in x <=> i \in y) <=> a(i))
          /\ i \in v <=> ((i \in y <=> i \in z) <=> c(i))
      BY <1>4, <2>1
    <2>3. /\ a(i + 1) <=> i \in x \cap y \/ (i \in x \cup y /\ a(i))
          /\ b(i + 1) <=> i \in u \cap z \/ (i \in u \cup z /\ b(i))
          /\ c(i + 1) <=> i \in y \cap z \/ (i \in y \cup z /\ c(i))
          /\ d(i + 1) <=> i \in x \cap v \/ (i \in x \cup v /\ d(i))
      BY <1>6, <1>7, <2>1
    <2>4. AsMany(a(i), b(i), c(i), d(i))
      OBVIOUS
    <2>5. AsMany(a(i + 1), b(i + 1), c(i + 1), d(i + 1))
      BY <2>2, <2>3, <2>4 DEF AsMany
    <2> QED
      BY <2>1, <2>5
  <1>10. \A i \in 0 .. 31 : i \in T
    <2>1. 0 \in Nat /\ 31 \in Nat
      OBVIOUS
    <2> HIDE DEF T
    <2> QED
      BY <1>8, <1>9, <2>1, Upward
  <1>11. ASSUME NEW i \in Bits
         PROVE  i \in l <=> i \in r
    <2>1. AsMany(a(i), b(i), c(i), d(i))
      BY <1>10 DEF Bits
    <2>2. /\ i \in u <=> ((i \in x <=> i \in y) <=> a(i))
          /\ i \in v <=> ((i \in y <=> i \in z) <=> c(i))
          /\ i \in l <=> ((i \in u <=> i \in z) <=> b(i))
          /\ i \in r <=> ((i \in x <=> i \in v) <=> d(i))
      BY <1>4, <1>5
    <2> QED
      BY <2>1, <2>2 DEF AsMany
  <1>12. l = r
    BY <1>2, <1>11 DEF UInt32
  <1> QED
    BY <1>12 DEF l, r, u, v

LEMMA Regrouped ==
  ASSUME NEW s \in UInt32, NEW f \in UInt32, NEW e \in UInt32, NEW k \in UInt32, NEW w \in UInt32
  PROVE  Plus(e, Plus(Plus(s, f), Plus(k, w))) = Plus(s, Plus(Plus(f, e), Plus(w, k)))
  <1> DEFINE m == Plus(k, w)
             fm == Plus(f, m)
  <1>1. m \in UInt32 /\ m = Plus(w, k)
    BY PlusBits, PlusCommutes
  <1> HIDE DEF m
  <1>2. fm \in UInt32 /\ Plus(Plus(s, f), m) = Plus(s, fm)
    BY <1>1, PlusBits, PlusAssociates
  <1>3. Plus(e, fm) = Plus(Plus(e, f), m)
    BY <1>1, PlusAssociates
  <1> HIDE DEF fm
  <1>4. Plus(e, Plus(s, fm)) = Plus(Plus(e, s), fm)
    BY <1>2, PlusAssociates
  <1>5. Plus(Plus(s, e), fm) = Plus(s, Plus(e, fm))
    BY <1>2, PlusAssociates
  <1>6. Plus(e, s) = Plus(s, e) /\ Plus(e, f) = Plus(f, e)
    BY PlusCommutes
  <1> QED
    BY <1>1, <1>2, <1>3, <1>4, <1>5, <1>6 DEF m

-----------------------------------------------------------------------------
(* The rounds of sha1.c are those of FIPS 180-1. *)

(* The standard's operators on words are the code's. *)
LEMMA SameWords ==
  /\ \A x, y : F180!Plus(x, y) = Plus(x, y)
  /\ \A x, y : F180!SymDiff(x, y) = SymDiff(x, y)
  /\ \A x, n : F180!S(x, n) = S(x, n)
  /\ \A b, i : F180!GET_UINT32(b, i) = GET_UINT32(b, i)
  /\ \A x : F180!PUT_UINT32(x) = PUT_UINT32(x)
  /\ \A first, step, n : F180!Looped(first, step, n) = Looped(first, step, n)
  <1>1. \A x, y : F180!SymDiff(x, y) = SymDiff(x, y)
    BY DEF F180!SymDiff, SymDiff
  <1>2. \A x, y : F180!Plus(x, y) = Plus(x, y)
    BY <1>1 DEF F180!Plus, Plus, F180!WordSum, WordSum
  <1>3. F180!Bits = Bits
    BY DEF F180!Bits, Bits
  <1>4. /\ \A x, n : F180!Left(x, n) = Left(x, n)
        /\ \A x, n : F180!Right(x, n) = Right(x, n)
    BY <1>3 DEF F180!Left, Left, F180!Right, Right
  <1>5. \A x, n : F180!S(x, n) = S(x, n)
    BY <1>4 DEF F180!S, S
  <1>6. \A b, i : F180!GET_UINT32(b, i) = GET_UINT32(b, i)
    BY <1>3 DEF F180!GET_UINT32, GET_UINT32
  <1>7. \A x : F180!Number(x) = Number(x)
    BY DEF F180!Number, Number
  <1>8. \A x : F180!PUT_UINT32(x) = PUT_UINT32(x)
    BY <1>4, <1>7 DEF F180!PUT_UINT32, PUT_UINT32
  <1>9. \A first, step, n : F180!Looped(first, step, n) = Looped(first, step, n)
    BY DEF F180!Looped, Looped
  <1> QED
    BY <1>1, <1>2, <1>5, <1>6, <1>8, <1>9

(* The functions and the constants of the four groups of rounds. *)
LEMMA SameFunctions ==
  /\ \A x, y, z : F180!Choose(x, y, z) = SymDiff(z, x \cap SymDiff(y, z))
  /\ \A x, y, z : F180!Parity(x, y, z) = SymDiff(SymDiff(x, y), z)
  /\ \A x, y, z : F180!Majority(x, y, z) = (x \cap y) \cup (z \cap (x \cup y))
  /\ F180!Constant(90, 130, 121, 153) = Word(90, 130, 121, 153)
  /\ F180!Constant(110, 217, 235, 161) = Word(110, 217, 235, 161)
  /\ F180!Constant(143, 27, 188, 220) = Word(143, 27, 188, 220)
  /\ F180!Constant(202, 98, 193, 214) = Word(202, 98, 193, 214)
  <1>1. \A x, y, z : F180!Choose(x, y, z) = SymDiff(z, x \cap SymDiff(y, z))
    BY DEF F180!Choose, SymDiff
  <1>2. \A x, y, z : F180!Parity(x, y, z) = SymDiff(SymDiff(x, y), z)
    BY SameWords DEF F180!Parity, SymDiff, F180!SymDiff
  <1>3. \A x, y, z : F180!Majority(x, y, z) = (x \cap y) \cup (z \cap (x \cup y))
    BY DEF F180!Majority
  <1>4. \A b1, b2, b3, b4 : F180!Constant(b1, b2, b3, b4) = Word(b1, b2, b3, b4)
    BY SameWords DEF F180!Constant, Word
  <1> QED
    BY <1>1, <1>2, <1>3, <1>4

(* The five words of the standard, in a context, and before round t: there *)
(* the registers stay where they are and are named one place earlier.      *)
Five == [1 .. 5 -> UInt32]

Place(k, t) == (k - 1 - t) % 5

Named(regs, h, t) == \A k \in 1 .. 5 : h[k] = regs[Place(k, t)]

(* What the standard computes in a round, from the same word. *)
LEMMA SameSum ==
  ASSUME NEW h \in Five, NEW w \in UInt32, NEW t \in 0 .. 79
  PROVE  F180!Step(h, w, t + 1) =
           [h EXCEPT ![1] = Plus(h[5], Plus(Plus(S(h[1], 5), F(t, h[2], h[3], h[4])), Plus(K(t), w))),
                     ![2] = h[1], ![3] = S(h[2], 30), ![4] = h[3], ![5] = h[4]]
  <1> DEFINE f == F(t, h[2], h[3], h[4])
             k == K(t)
             s == S(h[1], 5)
             sum == Plus(s, Plus(Plus(f, h[5]), Plus(w, k)))
             Sum(g, c) == F180!Plus(F180!S(h[1], 5), F180!Plus(F180!Plus(g, h[5]), F180!Plus(w, c)))
             temp == CASE t + 1 \in 1 .. 20 -> Sum(F180!Choose(h[2], h[3], h[4]), F180!Constant(90, 130, 121, 153))
                       [] t + 1 \in 21 .. 40 -> Sum(F180!Parity(h[2], h[3], h[4]), F180!Constant(110, 217, 235, 161))
                       [] t + 1 \in 41 .. 60 -> Sum(F180!Majority(h[2], h[3], h[4]), F180!Constant(143, 27, 188, 220))
                       [] t + 1 \in 61 .. 80 -> Sum(F180!Parity(h[2], h[3], h[4]), F180!Constant(202, 98, 193, 214))
  <1>1. /\ h[1] \in UInt32 /\ h[2] \in UInt32 /\ h[3] \in UInt32 /\ h[4] \in UInt32 /\ h[5] \in UInt32
    BY DEF Five
  <1>2. f \in UInt32 /\ k \in UInt32 /\ s \in UInt32
    BY <1>1, FMakes, WordsMade
  <1>3. \A g, c : Sum(g, c) = Plus(s, Plus(Plus(g, h[5]), Plus(w, c)))
    BY SameWords
  <1>4. F180!Step(h, w, t + 1) =
          [h EXCEPT ![1] = temp, ![2] = h[1], ![3] = F180!S(h[2], 30), ![4] = h[3], ![5] = h[4]]
    BY DEF F180!Step
  <1>5. t \in 0 .. 19 \/ t \in 20 .. 39 \/ t \in 40 .. 59 \/ t \in 60 .. 79
    OBVIOUS
  <1> HIDE DEF s, Sum
  <1>6. temp = sum
    <2>1. CASE t \in 0 .. 19
      <3>1. /\ t + 1 \in 1 .. 20 /\ t + 1 \notin 21 .. 40 /\ t + 1 \notin 41 .. 60 /\ t + 1 \notin 61 .. 80
        BY <2>1
      <3>2. temp = Sum(F180!Choose(h[2], h[3], h[4]), F180!Constant(90, 130, 121, 153))
        BY <3>1
      <3>3. f = F180!Choose(h[2], h[3], h[4]) /\ k = F180!Constant(90, 130, 121, 153)
        BY <2>1, SameFunctions DEF F, K
      <3> QED
        BY <1>3, <3>2, <3>3
    <2>2. CASE t \in 20 .. 39
      <3>1. /\ t + 1 \notin 1 .. 20 /\ t + 1 \in 21 .. 40 /\ t + 1 \notin 41 .. 60 /\ t + 1 \notin 61 .. 80
        BY <2>2
      <3>2. temp = Sum(F180!Parity(h[2], h[3], h[4]), F180!Constant(110, 217, 235, 161))
        BY <3>1
      <3>3. f = F180!Parity(h[2], h[3], h[4]) /\ k = F180!Constant(110, 217, 235, 161)
        BY <2>2, SameFunctions DEF F, K
      <3> QED
        BY <1>3, <3>2, <3>3
    <2>3. CASE t \in 40 .. 59
      <3>1. /\ t + 1 \notin 1 .. 20 /\ t + 1 \notin 21 .. 40 /\ t + 1 \in 41 .. 60 /\ t + 1 \notin 61 .. 80
        BY <2>3
      <3>2. temp = Sum(F180!Majority(h[2], h[3], h[4]), F180!Constant(143, 27, 188, 220))
        BY <3>1
      <3>3. f = F180!Majority(h[2], h[3], h[4]) /\ k = F180!Constant(143, 27, 188, 220)
        <4>1. t \notin 0 .. 19 /\ t \notin 20 .. 39 \cup 60 .. 79 /\ t \notin 20 .. 39 /\ t \notin 60 .. 79
          BY <2>3
        <4>2. f = (h[2] \cap h[3]) \cup (h[4] \cap (h[2] \cup h[3]))
          BY <2>3, <4>1 DEF F
        <4>3. k = Word(143, 27, 188, 220)
          BY <2>3, <4>1 DEF K
        <4> QED
          BY <4>2, <4>3, SameFunctions
      <3> QED
        BY <1>3, <3>2, <3>3
    <2>4. CASE t \in 60 .. 79
      <3>1. /\ t + 1 \notin 1 .. 20 /\ t + 1 \notin 21 .. 40 /\ t + 1 \notin 41 .. 60 /\ t + 1 \in 61 .. 80
        BY <2>4
      <3>2. temp = Sum(F180!Parity(h[2], h[3], h[4]), F180!Constant(202, 98, 193, 214))
        BY <3>1
      <3>3. f = F180!Parity(h[2], h[3], h[4]) /\ k = F180!Constant(202, 98, 193, 214)
        BY <2>4, SameFunctions DEF F, K
      <3> QED
        BY <1>3, <3>2, <3>3
    <2> QED
      BY <1>5, <2>1, <2>2, <2>3, <2>4
  <1> HIDE DEF f, k, temp
  <1>7. sum = Plus(h[5], Plus(Plus(s, f), Plus(k, w)))
    <2> DEFINE e == h[5]
    <2>1. e \in UInt32
      BY <1>1
    <2> HIDE DEF e
    <2>2. Plus(e, Plus(Plus(s, f), Plus(k, w))) = Plus(s, Plus(Plus(f, e), Plus(w, k)))
      BY <1>2, <2>1, Regrouped
    <2> QED
      BY <2>2 DEF e
  <1>8. F180!S(h[2], 30) = S(h[2], 30)
    BY SameWords
  <1> HIDE DEF sum
  <1> QED
    BY <1>4, <1>6, <1>7, <1>8 DEF s, f, k

LEMMA RoundIsStep ==
  ASSUME NEW regs \in State, NEW h \in Five, NEW w \in UInt32, NEW t \in 0 .. 79, Named(regs, h, t)
  PROVE  Named(P(regs, w, t), F180!Step(h, w, t + 1), t + 1) /\ F180!Step(h, w, t + 1) \in Five
  <1> DEFINE at(i) == (i - t) % 5
             a == at(0)
             b == at(1)
             c == at(2)
             d == at(3)
             e == at(4)
             f == F(t, regs[b], regs[c], regs[d])
             new == Plus(regs[e], Plus(Plus(S(regs[a], 5), f), Plus(K(t), w)))
             turned == S(regs[b], 30)
  <1>1. /\ a \in 0 .. 4 /\ b \in 0 .. 4 /\ c \in 0 .. 4 /\ d \in 0 .. 4 /\ e \in 0 .. 4
        /\ a # b /\ a # c /\ a # d /\ a # e /\ b # c /\ b # d /\ b # e /\ c # d /\ c # e /\ d # e
    OBVIOUS
  <1>2. /\ Place(1, t) = a /\ Place(2, t) = b /\ Place(3, t) = c /\ Place(4, t) = d /\ Place(5, t) = e
    BY DEF Place
  <1>3. /\ Place(1, t + 1) = e /\ Place(2, t + 1) = a /\ Place(3, t + 1) = b
        /\ Place(4, t + 1) = c /\ Place(5, t + 1) = d
    BY DEF Place
  <1>4. P(regs, w, t) = [regs EXCEPT ![e] = Plus(@, Plus(Plus(S(regs[a], 5), f), Plus(K(t), w))), ![b] = S(@, 30)]
    BY DEF P
  <1> HIDE DEF a, b, c, d, e
  <1>5. h[1] = regs[a] /\ h[2] = regs[b] /\ h[3] = regs[c] /\ h[4] = regs[d] /\ h[5] = regs[e]
    <2>1. /\ h[1] = regs[Place(1, t)] /\ h[2] = regs[Place(2, t)] /\ h[3] = regs[Place(3, t)]
          /\ h[4] = regs[Place(4, t)] /\ h[5] = regs[Place(5, t)]
      BY DEF Named
    <2> QED
      BY <1>2, <2>1
  <1>6. F180!Step(h, w, t + 1) =
          [h EXCEPT ![1] = new, ![2] = h[1], ![3] = turned, ![4] = h[3], ![5] = h[4]]
    <2> DEFINE sum == Plus(h[5], Plus(Plus(S(h[1], 5), F(t, h[2], h[3], h[4])), Plus(K(t), w)))
    <2>1. new = sum /\ turned = S(h[2], 30)
      BY <1>5
    <2>2. F180!Step(h, w, t + 1) =
            [h EXCEPT ![1] = sum, ![2] = h[1], ![3] = S(h[2], 30), ![4] = h[3], ![5] = h[4]]
      BY SameSum
    <2> HIDE DEF new, turned, sum
    <2> QED
      BY <2>1, <2>2
  <1>7. new \in UInt32 /\ turned \in UInt32
    <2>1. /\ regs[a] \in UInt32 /\ regs[b] \in UInt32 /\ regs[c] \in UInt32
          /\ regs[d] \in UInt32 /\ regs[e] \in UInt32
      BY <1>1 DEF State
    <2>2. f \in UInt32 /\ K(t) \in UInt32 /\ S(regs[a], 5) \in UInt32 /\ turned \in UInt32
      BY <2>1, FMakes, WordsMade
    <2> QED
      BY <2>1, <2>2, WordsMade
  <1> HIDE DEF new, turned
  <1> DEFINE g == [h EXCEPT ![1] = new, ![2] = h[1], ![3] = turned, ![4] = h[3], ![5] = h[4]]
             next == P(regs, w, t)
  <1>8. g[1] = new /\ g[2] = h[1] /\ g[3] = turned /\ g[4] = h[3] /\ g[5] = h[4] /\ g \in Five
    BY <1>7 DEF Five
  <1>9. /\ next[e] = new /\ next[b] = turned
        /\ next[a] = regs[a] /\ next[c] = regs[c] /\ next[d] = regs[d]
    <2>1. DOMAIN regs = 0 .. 4
      BY DEF State
    <2>2. next = [regs EXCEPT ![e] = new, ![b] = turned]
      BY <1>1, <1>4 DEF new, turned
    <2> HIDE DEF next
    <2> QED
      BY <1>1, <2>1, <2>2
  <1> HIDE DEF g, next
  <1>10. ASSUME NEW k \in 1 .. 5
         PROVE  g[k] = next[Place(k, t + 1)]
    <2>1. k = 1 \/ k = 2 \/ k = 3 \/ k = 4 \/ k = 5
      OBVIOUS
    <2> QED
      BY <1>3, <1>5, <1>8, <1>9, <2>1
  <1> QED
    BY <1>6, <1>8, <1>10 DEF Named, g, next

LEMMA StepMakes ==
  ASSUME NEW h \in Five, NEW w \in UInt32, NEW t \in 0 .. 79
  PROVE  F180!Step(h, w, t + 1) \in Five
  <1> DEFINE new == Plus(h[5], Plus(Plus(S(h[1], 5), F(t, h[2], h[3], h[4])), Plus(K(t), w)))
             turned == S(h[2], 30)
  <1>1. /\ h[1] \in UInt32 /\ h[2] \in UInt32 /\ h[3] \in UInt32 /\ h[4] \in UInt32 /\ h[5] \in UInt32
    BY DEF Five
  <1>2. F(t, h[2], h[3], h[4]) \in UInt32 /\ K(t) \in UInt32 /\ S(h[1], 5) \in UInt32 /\ turned \in UInt32
    BY <1>1, FMakes, WordsMade
  <1>3. new \in UInt32
    BY <1>1, <1>2, WordsMade
  <1>4. F180!Step(h, w, t + 1) = [h EXCEPT ![1] = new, ![2] = h[1], ![3] = turned, ![4] = h[3], ![5] = h[4]]
    BY SameSum
  <1> HIDE DEF new, turned
  <1> QED
    BY <1>1, <1>2, <1>3, <1>4 DEF Five

(* What the standard has after each round. *)
Compresses(g, h, w) ==
  /\ g \in [0 .. 80 -> Five]
  /\ g[0] = h
  /\ \A t \in 0 .. 79 : g[t + 1] = F180!Step(g[t], w[t + 1], t + 1)

LEMMA CompressedRuns ==
  ASSUME NEW h \in Five, NEW w, Len(w) = 80, \A t \in 1 .. 80 : w[t] \in UInt32
  PROVE  \E g : Compresses(g, h, w) /\ F180!Compressed(h, w) = g[80]
  <1> DEFINE step == [t \in 1 .. 80 |-> [x \in Five |-> F180!Step(x, w[t], t)]]
             n == 80
  <1>1. \A x \in Five, t \in 1 .. 80 : F180!Step(x, w[t], t) \in Five
    <2> SUFFICES ASSUME NEW x \in Five, NEW t \in 1 .. 80
                 PROVE  F180!Step(x, w[t], t) \in Five
      OBVIOUS
    <2> DEFINE word == w[t]
               i == t - 1
    <2>1. i \in 0 .. 79 /\ i + 1 = t
      OBVIOUS
    <2>2. word \in UInt32
      OBVIOUS
    <2> HIDE DEF word, i
    <2>3. F180!Step(x, word, i + 1) \in Five
      BY <2>1, <2>2, StepMakes
    <2> QED
      BY <2>1, <2>3 DEF word
  <1>2. F180!Compressed(h, w) = Looped(h, step, n)
    <2>1. [1 .. 5 -> F180!UInt32] = Five
      BY DEF F180!UInt32, UInt32, F180!Bits, Bits, Five
    <2> QED
      BY <2>1, SameWords DEF F180!Compressed
  <1>3. n \in Nat /\ step \in Steps(Five, n)
    BY <1>1 DEF Steps
  <1>4. \A t \in 1 .. 80, x \in Five : step[t][x] = F180!Step(x, w[t], t)
    OBVIOUS
  <1> HIDE DEF step, n
  <1>5. PICK g : Leaves(g, Five, n, h, step) /\ Looped(h, step, n) = g[n]
    BY <1>3, Loops
  <1>6. g \in [0 .. 80 -> Five] /\ g[0] = h /\ \A t \in 1 .. 80 : g[t] = step[t][g[t - 1]]
    BY <1>5 DEF Leaves, n
  <1>7. \A t \in 0 .. 79 : g[t + 1] = F180!Step(g[t], w[t + 1], t + 1)
    <2> SUFFICES ASSUME NEW t \in 0 .. 79
                 PROVE  g[t + 1] = F180!Step(g[t], w[t + 1], t + 1)
      OBVIOUS
    <2>1. t + 1 \in 1 .. 80 /\ (t + 1) - 1 = t /\ t \in 0 .. 80
      OBVIOUS
    <2>2. g[t + 1] = step[t + 1][g[t]]
      BY <1>6, <2>1
    <2>3. g[t] \in Five
      BY <1>6, <2>1
    <2> QED
      BY <1>4, <2>1, <2>2, <2>3
  <1>8. Compresses(g, h, w)
    BY <1>6, <1>7 DEF Compresses
  <1> QED
    BY <1>2, <1>5, <1>8 DEF n

(* The schedule: the block, and the words that are made of those before. *)
Made(w, j) == S(SymDiff(SymDiff(w[j - 3], w[j - 8]), SymDiff(w[j - 14], w[j - 16])), 1)

Scheduled(w, block) ==
  /\ \A j \in 1 .. 16 : w[j] = block[j]
  /\ \A j \in 17 .. Len(w) : w[j] = Made(w, j)

LEMMA ExtendedMakes ==
  ASSUME NEW w \in Seq(UInt32)
  PROVE  /\ F180!Extended(w) \in Seq(UInt32)
         /\ Len(F180!Extended(w)) = Len(w) + 1
         /\ \A j \in 1 .. Len(w) : F180!Extended(w)[j] = w[j]
         /\ F180!Extended(w)[Len(w) + 1] = Made(w, Len(w) + 1)
  <1> DEFINE x == Made(w, Len(w) + 1)
  <1>1. F180!Extended(w) = Append(w, x)
    BY SameWords DEF F180!Extended, Made
  <1>2. x \in UInt32
    BY WordsMade DEF Made
  <1> HIDE DEF x
  <1> QED
    BY <1>1, <1>2, AppendProperties DEF x

LEMMA ExtendedKeeps ==
  ASSUME NEW w \in Seq(UInt32), Len(w) >= 16, NEW block, Scheduled(w, block)
  PROVE  Scheduled(F180!Extended(w), block)
  <1> DEFINE v == F180!Extended(w)
             n == Len(w)
  <1>1. /\ Len(v) = n + 1 /\ v[n + 1] = Made(w, n + 1)
        /\ \A j \in 1 .. n : v[j] = w[j]
    BY ExtendedMakes
  <1>2. n \in Nat /\ n >= 16
    OBVIOUS
  <1>3. /\ \A j \in 1 .. 16 : w[j] = block[j]
        /\ \A j \in 17 .. n : w[j] = Made(w, j)
    BY DEF Scheduled
  <1> HIDE DEF v, n
  <1>4. \A j \in 17 .. n + 1 : Made(v, j) = Made(w, j)
    <2> SUFFICES ASSUME NEW j \in 17 .. n + 1
                 PROVE  Made(v, j) = Made(w, j)
      OBVIOUS
    <2>1. /\ j - 3 \in 1 .. n /\ j - 8 \in 1 .. n /\ j - 14 \in 1 .. n /\ j - 16 \in 1 .. n
      BY <1>2
    <2>2. v[j - 3] = w[j - 3] /\ v[j - 8] = w[j - 8] /\ v[j - 14] = w[j - 14] /\ v[j - 16] = w[j - 16]
      BY <1>1, <2>1
    <2> QED
      BY <2>2 DEF Made
  <1>5. \A j \in 17 .. n + 1 : v[j] = Made(v, j)
    <2> SUFFICES ASSUME NEW j \in 17 .. n + 1
                 PROVE  v[j] = Made(v, j)
      OBVIOUS
    <2>1. CASE j = n + 1
      BY <1>1, <1>4, <2>1
    <2>2. CASE j # n + 1
      <3>1. j \in 1 .. n /\ j \in 17 .. n
        BY <1>2, <2>2
      <3> QED
        BY <1>1, <1>3, <1>4, <3>1
    <2> QED
      BY <2>1, <2>2
  <1>6. \A j \in 1 .. 16 : v[j] = block[j]
    <2>1. \A j \in 1 .. 16 : j \in 1 .. n
      BY <1>2
    <2> QED
      BY <1>1, <1>3, <2>1
  <1> QED
    BY <1>1, <1>5, <1>6 DEF Scheduled, v

LEMMA ScheduleMakes ==
  ASSUME NEW block \in Seq(UInt32), Len(block) = 16
  PROVE  /\ F180!Schedule(block) \in Seq(UInt32) /\ Len(F180!Schedule(block)) = 80
         /\ Scheduled(F180!Schedule(block), block)
  <1> DEFINE Longer == Seq(UInt32)
             step == [t \in 1 .. 64 |-> [w \in Longer |-> F180!Extended(w)]]
             n == 64
             Fits(w, t) == w \in Longer /\ Len(w) = 16 + t /\ Scheduled(w, block)
  <1>1. F180!Schedule(block) = Looped(block, step, n)
    <2>1. F180!UInt32 = UInt32
      BY DEF F180!UInt32, UInt32, F180!Bits, Bits
    <2> QED
      BY <2>1, SameWords DEF F180!Schedule
  <1>2. \A w \in Longer : F180!Extended(w) \in Longer
    BY ExtendedMakes
  <1>3. ASSUME NEW t \in 0 .. 63, NEW w, Fits(w, t)
        PROVE  Fits(F180!Extended(w), t + 1)
    <2>1. w \in Seq(UInt32) /\ Len(w) = 16 + t /\ Scheduled(w, block)
      BY <1>3
    <2>2. Len(w) >= 16 /\ Len(w) + 1 = 16 + (t + 1)
      BY <2>1
    <2> QED
      BY <2>1, <2>2, ExtendedMakes, ExtendedKeeps
  <1>4. Fits(block, 0)
    BY DEF Scheduled
  <1>5. block \in Longer
    OBVIOUS
  <1>6. \A w : Fits(w, 64) => w \in Seq(UInt32) /\ Len(w) = 80 /\ Scheduled(w, block)
    OBVIOUS
  <1> HIDE DEF Longer, Fits
  <1>7. n \in Nat /\ step \in Steps(Longer, n)
    BY <1>2 DEF Steps
  <1>8. \A t \in 1 .. 64, w \in Longer : step[t][w] = F180!Extended(w)
    OBVIOUS
  <1> HIDE DEF step, n
  <1>9. PICK g : Leaves(g, Longer, n, block, step) /\ Looped(block, step, n) = g[n]
    BY <1>5, <1>7, Loops
  <1>10. g \in [0 .. 64 -> Longer] /\ g[0] = block /\ \A t \in 1 .. 64 : g[t] = step[t][g[t - 1]]
    BY <1>9 DEF Leaves, n
  <1> DEFINE T == {t \in 0 .. 64 : Fits(g[t], t)}
  <1>11. 0 \in T
    BY <1>4, <1>10
  <1>12. \A t \in 0 .. 64 - 1 : t \in T => t + 1 \in T
    <2> SUFFICES ASSUME NEW t \in 0 .. 64 - 1, t \in T
                 PROVE  t + 1 \in T
      OBVIOUS
    <2>1. t \in 0 .. 63 /\ t \in 0 .. 64 /\ t + 1 \in 0 .. 64 /\ t + 1 \in 1 .. 64 /\ (t + 1) - 1 = t
      OBVIOUS
    <2>2. g[t + 1] = step[t + 1][g[t]] /\ g[t] \in Longer
      BY <1>10, <2>1
    <2>3. g[t + 1] = F180!Extended(g[t])
      BY <1>8, <2>1, <2>2
    <2>4. Fits(g[t], t)
      OBVIOUS
    <2>5. Fits(g[t + 1], t + 1)
      BY <1>3, <2>1, <2>3, <2>4
    <2> QED
      BY <2>1, <2>5
  <1>13. 64 \in T
    <2>1. 0 \in Nat /\ 64 \in Nat /\ 64 \in 0 .. 64
      OBVIOUS
    <2> HIDE DEF T
    <2> QED
      BY <1>11, <1>12, <2>1, Upward
  <1>14. Fits(g[64], 64)
    BY <1>13
  <1> DEFINE w == F180!Schedule(block)
  <1>15. Fits(w, 64)
    BY <1>1, <1>9, <1>14 DEF n
  <1> HIDE DEF w
  <1>16. w \in Seq(UInt32) /\ Len(w) = 80 /\ Scheduled(w, block)
    BY <1>6, <1>15
  <1> QED
    BY <1>16 DEF w

(* After t rounds, the ring holds the last sixteen words of the schedule   *)
(* that were used, or the first sixteen.                                   *)
Held(t) == IF t < 16 THEN 16 ELSE t

RingHolds(W, w, t) ==
  \A j \in 0 .. 79 : j < Held(t) /\ Held(t) <= j + 16 => W[j % 16] = w[j + 1]

LEMMA RingTurns ==
  ASSUME NEW W \in Ring, NEW w, NEW t \in 0 .. 79, RingHolds(W, w, t),
         \A j \in 17 .. 80 : w[j] = Made(w, j)
  PROVE  R(W, t)[t % 16] = w[t + 1] /\ RingHolds(R(W, t), w, t + 1)
  <1>1. CASE t < 16
    <2>1. R(W, t) = W
      BY <1>1 DEF R
    <2>2. t \in 0 .. 79 /\ t < Held(t) /\ Held(t) <= t + 16
      BY <1>1 DEF Held
    <2>3. Held(t + 1) = Held(t)
      BY <1>1 DEF Held
    <2> QED
      BY <2>1, <2>2, <2>3 DEF RingHolds
  <1>2. CASE ~(t < 16)
    <2> DEFINE p == t % 16
               x == Made(w, t + 1)
               now == [W EXCEPT ![p] = x]
    <2>1. /\ t - 3 \in 0 .. 79 /\ t - 8 \in 0 .. 79 /\ t - 14 \in 0 .. 79 /\ t - 16 \in 0 .. 79
          /\ Held(t) = t /\ Held(t + 1) = t + 1 /\ (t - 16) % 16 = p /\ p \in 0 .. 15
      BY <1>2 DEF Held
    <2>2. /\ W[(t - 3) % 16] = w[(t - 3) + 1] /\ W[(t - 8) % 16] = w[(t - 8) + 1]
          /\ W[(t - 14) % 16] = w[(t - 14) + 1] /\ W[(t - 16) % 16] = w[(t - 16) + 1]
      <3>1. /\ t - 3 < Held(t) /\ Held(t) <= (t - 3) + 16
            /\ t - 8 < Held(t) /\ Held(t) <= (t - 8) + 16
            /\ t - 14 < Held(t) /\ Held(t) <= (t - 14) + 16
            /\ t - 16 < Held(t) /\ Held(t) <= (t - 16) + 16
        BY <2>1
      <3> QED
        BY <2>1, <3>1 DEF RingHolds
    <2>3. /\ (t - 3) + 1 = (t + 1) - 3 /\ (t - 8) + 1 = (t + 1) - 8
          /\ (t - 14) + 1 = (t + 1) - 14 /\ (t - 16) + 1 = (t + 1) - 16
      OBVIOUS
    <2>4. S(SymDiff(SymDiff(W[(t - 3) % 16], W[(t - 8) % 16]), SymDiff(W[(t - 14) % 16], W[p])), 1) = x
      BY <2>1, <2>2, <2>3 DEF Made
    <2>5. R(W, t) = now
      BY <1>2, <2>4 DEF R
    <2>6. x = w[t + 1]
      BY <1>2
    <2> HIDE DEF x
    <2>7. now[p] = x /\ \A q \in 0 .. 15 : q # p => now[q] = W[q]
      BY <2>1 DEF Ring
    <2>8. ASSUME NEW j \in 0 .. 79, j < t + 1, t + 1 <= j + 16
          PROVE  now[j % 16] = w[j + 1]
      <3>1. CASE j = t
        BY <2>6, <2>7, <3>1
      <3>2. CASE j # t
        <4>1. j < t /\ t <= j + 16 /\ j % 16 \in 0 .. 15 /\ j % 16 # t % 16
          BY <2>8, <3>2
        <4>2. W[j % 16] = w[j + 1]
          BY <2>1, <4>1 DEF RingHolds
        <4> HIDE DEF now
        <4> QED
          BY <2>7, <4>1, <4>2
      <3> QED
        BY <3>1, <3>2
    <2> HIDE DEF now
    <2> QED
      BY <2>1, <2>5, <2>6, <2>7, <2>8 DEF RingHolds
  <1> QED
    BY <1>1, <1>2

(* Round by round, the code has the standard's words. *)
LEMMA SameRounds ==
  ASSUME NEW g, NEW G, NEW state \in State, NEW ring \in Ring, NEW h \in Five, NEW w,
         Runs(g, state, ring), Compresses(G, h, w),
         \A j \in 1 .. 80 : w[j] \in UInt32, \A j \in 17 .. 80 : w[j] = Made(w, j),
         Named(state, h, 0), RingHolds(ring, w, 0)
  PROVE  Named(g[80].regs, G[80], 80)
  <1> DEFINE T == {t \in 0 .. 80 : Named(g[t].regs, G[t], t) /\ RingHolds(g[t].W, w, t)}
  <1>1. /\ g \in [0 .. 80 -> Registers] /\ g[0] = [regs |-> state, W |-> ring]
        /\ \A t \in 0 .. 79 : g[t + 1] = Round(g[t], t)
    BY DEF Runs
  <1>2. /\ G \in [0 .. 80 -> Five] /\ G[0] = h
        /\ \A t \in 0 .. 79 : G[t + 1] = F180!Step(G[t], w[t + 1], t + 1)
    BY DEF Compresses
  <1>3. 0 \in T
    <2>1. g[0].regs = state /\ g[0].W = ring /\ G[0] = h
      BY <1>1, <1>2
    <2> QED
      BY <2>1
  <1>4. \A t \in 0 .. 80 - 1 : t \in T => t + 1 \in T
    <2> SUFFICES ASSUME NEW t \in 0 .. 80 - 1, t \in T
                 PROVE  t + 1 \in T
      OBVIOUS
    <2> DEFINE regs == g[t].regs
               W == g[t].W
               now == R(W, t)
               x == now[t % 16]
    <2>1. t \in 0 .. 79 /\ t \in 0 .. 80 /\ t + 1 \in 0 .. 80 /\ t + 1 \in 1 .. 80
      OBVIOUS
    <2>2. regs \in State /\ W \in Ring /\ G[t] \in Five /\ w[t + 1] \in UInt32
      <3>1. g[t] \in Registers
        BY <1>1, <2>1
      <3> QED
        BY <1>2, <2>1, <3>1 DEF Registers
    <2>3. Named(regs, G[t], t) /\ RingHolds(W, w, t)
      OBVIOUS
    <2>4. g[t + 1] = [regs |-> P(regs, x, t), W |-> now]
      BY <1>1, <2>1 DEF Round
    <2>5. G[t + 1] = F180!Step(G[t], w[t + 1], t + 1)
      BY <1>2, <2>1
    <2> HIDE DEF regs, W
    <2>6. x = w[t + 1] /\ RingHolds(now, w, t + 1)
      BY <2>1, <2>2, <2>3, RingTurns
    <2> HIDE DEF now, x
    <2>7. Named(P(regs, x, t), F180!Step(G[t], w[t + 1], t + 1), t + 1)
      BY <2>1, <2>2, <2>3, <2>6, RoundIsStep
    <2> QED
      BY <2>1, <2>4, <2>5, <2>6, <2>7
  <1>5. 80 \in T
    <2>1. 0 \in Nat /\ 80 \in Nat /\ 80 \in 0 .. 80
      OBVIOUS
    <2> HIDE DEF T
    <2> QED
      BY <1>3, <1>4, <2>1, Upward
  <1> QED
    BY <1>5

LEMMA SameWord ==
  ASSUME NEW b, NEW c, NEW i \in Int, NEW j \in Int, \A q \in 0 .. 3 : b[i + q] = c[j + q]
  PROVE  GET_UINT32(b, i) = GET_UINT32(c, j)
  <1>1. ASSUME NEW k \in Bits
        PROVE  b[i + 3 - k \div 8] = c[j + 3 - k \div 8]
    <2> DEFINE q == 3 - k \div 8
    <2>1. q \in 0 .. 3 /\ i + 3 - k \div 8 = i + q /\ j + 3 - k \div 8 = j + q
      BY DEF Bits
    <2> HIDE DEF q
    <2> QED
      BY <2>1
  <1> QED
    BY <1>1 DEF GET_UINT32

(* The five words of a context are those of the standard. *)
Same(state, h) == \A k \in 1 .. 5 : h[k] = state[k - 1]

(* The 64 bytes at b[i] are those at c[j]. *)
SameBlock(b, i, c, j) == \A q \in 0 .. 63 : b[i + q] = c[j + q]

LEMMA ProcessIsChain ==
  ASSUME NEW state \in State, NEW h \in Five, Same(state, h),
         NEW data, NEW i \in Int, NEW message, NEW m \in Int, SameBlock(data, i, message, m)
  PROVE  F180!Chain(h, message, m) \in Five /\ Same(sha1_process(state, data, i), F180!Chain(h, message, m))
  <1> DEFINE ring == [k \in 0 .. 15 |-> GET_UINT32(data, i + 4 * k)]
             block == [k \in 1 .. 16 |-> GET_UINT32(message, m + 4 * (k - 1))]
             w == F180!Schedule(block)
             regs == Rounds(state, ring)
             last == F180!Compressed(h, w)
  <1>1. ring \in Ring
    BY WordsMade DEF Ring
  <1>2. block \in Seq(UInt32) /\ Len(block) = 16
    BY WordsMade
  <1>3. ASSUME NEW j \in 0 .. 15
        PROVE  ring[j] = block[j + 1]
    <2>1. GET_UINT32(data, i + 4 * j) = GET_UINT32(message, m + 4 * j)
      <3> DEFINE ii == i + 4 * j
                 mm == m + 4 * j
      <3>1. ASSUME NEW q \in 0 .. 3
            PROVE  data[ii + q] = message[mm + q]
        <4> DEFINE e == 4 * j + q
        <4>1. e \in 0 .. 63 /\ ii + q = i + e /\ mm + q = m + e
          OBVIOUS
        <4> HIDE DEF e, ii, mm
        <4> QED
          BY <4>1 DEF SameBlock
      <3>2. ii \in Int /\ mm \in Int
        OBVIOUS
      <3> HIDE DEF ii, mm
      <3>3. GET_UINT32(data, ii) = GET_UINT32(message, mm)
        BY <3>1, <3>2, SameWord
      <3> QED
        BY <3>3 DEF ii, mm
    <2>2. j + 1 \in 1 .. 16 /\ (j + 1) - 1 = j
      OBVIOUS
    <2> QED
      BY <2>1, <2>2
  <1>4. F180!Chain(h, message, m) = [k \in 1 .. 5 |-> Plus(h[k], last[k])]
    BY SameWords DEF F180!Chain
  <1>5. sha1_process(state, data, i) = [k \in 0 .. 4 |-> Plus(state[k], regs[k])]
    BY DEF sha1_process
  <1> HIDE DEF ring, block
  <1>6. w \in Seq(UInt32) /\ Len(w) = 80 /\ Scheduled(w, block)
    BY <1>2, ScheduleMakes
  <1> HIDE DEF w
  <1>7. \A j \in 1 .. 80 : w[j] \in UInt32
    <2>1. w \in Seq(UInt32)
      BY <1>6
    <2>2. \A j \in 1 .. Len(w) : w[j] \in UInt32
      BY ONLY <2>1, ElementOfSeq
    <2> QED
      BY <1>6, <2>2
  <1>8. (\A j \in 1 .. 16 : w[j] = block[j]) /\ \A j \in 17 .. 80 : w[j] = Made(w, j)
    BY <1>6 DEF Scheduled
  <1>9. Named(state, h, 0)
    <2>1. \A k \in 1 .. 5 : Place(k, 0) = k - 1
      BY DEF Place
    <2> QED
      BY <2>1 DEF Named, Same
  <1>10. RingHolds(ring, w, 0)
    <2>1. Held(0) = 16
      BY DEF Held
    <2>2. ASSUME NEW j \in 0 .. 79, j < 16
          PROVE  ring[j % 16] = w[j + 1]
      <3>1. j % 16 = j /\ j \in 0 .. 15 /\ j + 1 \in 1 .. 16
        BY <2>2
      <3> QED
        BY <1>3, <1>8, <3>1
    <2> QED
      BY <2>1, <2>2 DEF RingHolds
  <1>11. PICK g : Runs(g, state, ring) /\ regs = g[80].regs
    BY <1>1, RoundsRun
  <1>12. PICK G : Compresses(G, h, w) /\ last = G[80]
    <2>1. Len(w) = 80
      BY <1>6
    <2>2. \E G : Compresses(G, h, w) /\ F180!Compressed(h, w) = G[80]
      BY <1>7, <2>1, CompressedRuns
    <2> QED
      BY <2>2
  <1> HIDE DEF regs, last
  <1>13. Named(regs, last, 80)
    BY <1>1, <1>7, <1>8, <1>9, <1>10, <1>11, <1>12, SameRounds
  <1>14. \A k \in 1 .. 5 : last[k] = regs[k - 1]
    <2>1. \A k \in 1 .. 5 : Place(k, 80) = k - 1
      BY DEF Place
    <2> QED
      BY <1>13, <2>1 DEF Named
  <1>15. last \in Five
    <2>1. 80 \in 0 .. 80
      OBVIOUS
    <2> QED
      BY <1>12, <2>1 DEF Compresses
  <1> DEFINE next == sha1_process(state, data, i)
             chain == F180!Chain(h, message, m)
  <1> HIDE DEF next, chain
  <1>16. chain \in Five
    <2>1. \A k \in 1 .. 5 : Plus(h[k], last[k]) \in UInt32
      BY <1>15, WordsMade DEF Five
    <2> QED
      BY <1>4, <2>1 DEF Five, chain
  <1>17. ASSUME NEW k \in 1 .. 5
         PROVE  chain[k] = next[k - 1]
    <2>1. k - 1 \in 0 .. 4
      OBVIOUS
    <2>2. chain[k] = Plus(h[k], last[k]) /\ next[k - 1] = Plus(state[k - 1], regs[k - 1])
      BY <1>4, <1>5, <2>1 DEF chain, next
    <2> QED
      BY <1>14, <2>2 DEF Same
  <1> QED
    BY <1>16, <1>17 DEF Same, chain, next

-----------------------------------------------------------------------------
(* Block by block, sha1_update() goes on as FIPS 180-1 does. *)

(* A loop over blocks, one by one: of the code, and of the standard. *)
BlockRuns(g, state, input, start, n) ==
  /\ g \in [0 .. n -> State]
  /\ g[0] = state
  /\ \A b \in 0 .. n - 1 : g[b + 1] = sha1_process(g[b], input, start + 64 * b)

ChainRuns(g, message, n) ==
  /\ g \in [0 .. n -> Five]
  /\ g[0] = F180!Start
  /\ \A b \in 0 .. n - 1 : g[b + 1] = F180!Chain(g[b], message, 64 * b + 1)

LEMMA BlocksRun ==
  ASSUME NEW state \in State, NEW input, NEW start, NEW blocks \in Nat
  PROVE  \E g : BlockRuns(g, state, input, start, blocks) /\ Blocks(state, input, start, blocks) = g[blocks]
  <1> DEFINE Then(s, b) == sha1_process(s, input, start + 64 * b)
             step == [b \in 1 .. blocks |-> [s \in State |-> Then(s, b - 1)]]
             Body(h) == [b \in 0 .. blocks |-> IF b = 0 THEN state ELSE Then(h[b - 1], b - 1)]
             after == CHOOSE h : h = Body(h)
  <1>1. \A s \in State : \A b : Then(s, b) \in State
    BY ProcessMakes
  <1>2. Blocks(state, input, start, blocks) = after[blocks]
    BY DEF Blocks
  <1> HIDE DEF Then
  <1>3. step \in [1 .. blocks -> [State -> State]]
    BY <1>1
  <1>4. PICK g \in [0 .. blocks -> State] :
          g[0] = state /\ \A b \in 1 .. blocks : g[b] = step[b][g[b - 1]]
    <2>1. step \in Steps(State, blocks)
      BY <1>3 DEF Steps
    <2> HIDE DEF step
    <2>2. \E g : Leaves(g, State, blocks, state, step)
      BY <2>1, Iterates
    <2> QED
      BY <2>2 DEF Leaves
  <1>5. g = Body(g)
    <2>1. \A b \in 1 .. blocks : g[b] = Then(g[b - 1], b - 1)
      <3> SUFFICES ASSUME NEW b \in 1 .. blocks
                   PROVE  g[b] = Then(g[b - 1], b - 1)
        OBVIOUS
      <3>1. g[b - 1] \in State
        OBVIOUS
      <3> QED
        BY <1>4, <3>1
    <2>2. \A b \in 0 .. blocks : b # 0 => b \in 1 .. blocks
      OBVIOUS
    <2> QED
      BY <1>4, <2>1, <2>2
  <1>6. after = Body(after)
    <2> HIDE DEF Body
    <2> QED
      BY <1>5
  <1> HIDE DEF after
  <1>7. after[0] = state
    BY <1>6
  <1>8. \A b \in 0 .. blocks - 1 : after[b + 1] = Then(after[b], b)
    <2> SUFFICES ASSUME NEW b \in 0 .. blocks - 1
                 PROVE  after[b + 1] = Then(after[b], b)
      OBVIOUS
    <2>1. b + 1 \in 0 .. blocks /\ b + 1 # 0 /\ (b + 1) - 1 = b
      OBVIOUS
    <2> QED
      BY <1>6, <2>1
  <1> DEFINE T == {b \in 0 .. blocks : after[b] \in State}
  <1>9. 0 \in T
    BY <1>7
  <1>10. \A b \in 0 .. blocks - 1 : b \in T => b + 1 \in T
    <2> SUFFICES ASSUME NEW b \in 0 .. blocks - 1, b \in T
                 PROVE  b + 1 \in T
      OBVIOUS
    <2>1. b + 1 \in 0 .. blocks
      OBVIOUS
    <2> QED
      BY <1>1, <1>8, <2>1
  <1>11. \A b \in 0 .. blocks : b \in T
    <2> HIDE DEF T
    <2> QED
      BY <1>9, <1>10, Upward
  <1>12. after \in [0 .. blocks -> State]
    <2>1. \A b \in 0 .. blocks : after[b] \in State
      BY <1>11
    <2>2. \E X : after = [b \in 0 .. blocks |-> X[b]]
      <3> DEFINE X == Body(after)
      <3>1. after = [b \in 0 .. blocks |-> X[b]]
        BY <1>6
      <3> QED
        BY <3>1
    <2> QED
      BY <2>1, <2>2
  <1>13. BlockRuns(after, state, input, start, blocks)
    BY <1>7, <1>8, <1>12 DEF BlockRuns, Then
  <1> QED
    BY <1>2, <1>13

LEMMA ChainMakes ==
  ASSUME NEW h \in Five, NEW message, NEW m \in Int
  PROVE  F180!Chain(h, message, m) \in Five
  <1> DEFINE state == [k \in 0 .. 4 |-> h[k + 1]]
  <1>1. state \in State
    <2>1. \A k \in 0 .. 4 : h[k + 1] \in UInt32
      <3>1. \A k \in 0 .. 4 : k + 1 \in 1 .. 5
        OBVIOUS
      <3> QED
        BY <3>1 DEF Five
    <2> QED
      BY <2>1 DEF State
  <1>2. Same(state, h)
    <2>1. \A k \in 1 .. 5 : k - 1 \in 0 .. 4 /\ (k - 1) + 1 = k
      OBVIOUS
    <2> QED
      BY <2>1 DEF Same
  <1>3. SameBlock(message, m, message, m)
    BY DEF SameBlock
  <1> HIDE DEF state
  <1> QED
    BY <1>1, <1>2, <1>3, ProcessIsChain

LEMMA StartMakes == F180!Start \in Five /\ \A k \in 1 .. 5 : F180!Start[k] = InitialState[k]
  <1>1. \A b1, b2, b3, b4 : F180!Constant(b1, b2, b3, b4) = Word(b1, b2, b3, b4)
    BY SameWords DEF F180!Constant, Word
  <1>2. \A b1, b2, b3, b4 : Word(b1, b2, b3, b4) \in UInt32
    BY WordsMade DEF Word
  <1>3. F180!Start = <<Word(103, 69, 35, 1), Word(239, 205, 171, 137), Word(152, 186, 220, 254),
                       Word(16, 50, 84, 118), Word(195, 210, 225, 240)>>
    BY <1>1 DEF F180!Start
  <1>4. F180!Start = InitialState
    BY <1>3 DEF InitialState
  <1>5. \A a, b, c, d, e \in UInt32 : <<a, b, c, d, e>> \in Five
    BY DEF Five
  <1> QED
    BY <1>2, <1>3, <1>4, <1>5

LEMMA ChainedRuns ==
  ASSUME NEW message, NEW blocks \in Nat
  PROVE  \E g : ChainRuns(g, message, blocks) /\ F180!Chained(message, blocks) = g[blocks]
  <1> DEFINE Then(s, b) == F180!Chain(s, message, 64 * b + 1)
             step == [b \in 1 .. blocks |-> [s \in Five |-> Then(s, b - 1)]]
             Body(h) == [b \in 0 .. blocks |-> IF b = 0 THEN F180!Start ELSE Then(h[b - 1], b - 1)]
             after == CHOOSE h : h = Body(h)
  <1>0. F180!Start \in Five
    BY StartMakes
  <1>1. \A s \in Five : \A b \in Int : Then(s, b) \in Five
    <2>1. \A b \in Int : 64 * b + 1 \in Int
      OBVIOUS
    <2> QED
      BY <2>1, ChainMakes
  <1>2. F180!Chained(message, blocks) = after[blocks]
    BY DEF F180!Chained
  <1> HIDE DEF Then
  <1>3. step \in [1 .. blocks -> [Five -> Five]]
    <2>1. \A b \in 1 .. blocks : b - 1 \in Int
      OBVIOUS
    <2> QED
      BY <1>1, <2>1
  <1>4. PICK g \in [0 .. blocks -> Five] :
          g[0] = F180!Start /\ \A b \in 1 .. blocks : g[b] = step[b][g[b - 1]]
    <2>1. step \in Steps(Five, blocks)
      BY <1>3 DEF Steps
    <2> HIDE DEF step
    <2>2. \E g : Leaves(g, Five, blocks, F180!Start, step)
      BY <1>0, <2>1, Iterates
    <2> QED
      BY <2>2 DEF Leaves
  <1>5. g = Body(g)
    <2>1. \A b \in 1 .. blocks : g[b] = Then(g[b - 1], b - 1)
      <3> SUFFICES ASSUME NEW b \in 1 .. blocks
                   PROVE  g[b] = Then(g[b - 1], b - 1)
        OBVIOUS
      <3>1. g[b - 1] \in Five
        OBVIOUS
      <3> QED
        BY <1>4, <3>1
    <2>2. \A b \in 0 .. blocks : b # 0 => b \in 1 .. blocks
      OBVIOUS
    <2> QED
      BY <1>4, <2>1, <2>2
  <1>6. after = Body(after)
    <2> HIDE DEF Body
    <2> QED
      BY <1>5
  <1> HIDE DEF after
  <1>7. after[0] = F180!Start
    BY <1>6
  <1>8. \A b \in 0 .. blocks - 1 : after[b + 1] = Then(after[b], b)
    <2> SUFFICES ASSUME NEW b \in 0 .. blocks - 1
                 PROVE  after[b + 1] = Then(after[b], b)
      OBVIOUS
    <2>1. b + 1 \in 0 .. blocks /\ b + 1 # 0 /\ (b + 1) - 1 = b
      OBVIOUS
    <2> QED
      BY <1>6, <2>1
  <1> DEFINE T == {b \in 0 .. blocks : after[b] \in Five}
  <1>9. 0 \in T
    BY <1>0, <1>7
  <1>10. \A b \in 0 .. blocks - 1 : b \in T => b + 1 \in T
    <2> SUFFICES ASSUME NEW b \in 0 .. blocks - 1, b \in T
                 PROVE  b + 1 \in T
      OBVIOUS
    <2>1. b + 1 \in 0 .. blocks /\ b \in Int
      OBVIOUS
    <2> QED
      BY <1>1, <1>8, <2>1
  <1>11. \A b \in 0 .. blocks : b \in T
    <2> HIDE DEF T
    <2> QED
      BY <1>9, <1>10, Upward
  <1>12. after \in [0 .. blocks -> Five]
    <2>1. \A b \in 0 .. blocks : after[b] \in Five
      BY <1>11
    <2>2. \E X : after = [b \in 0 .. blocks |-> X[b]]
      <3> DEFINE X == Body(after)
      <3>1. after = [b \in 0 .. blocks |-> X[b]]
        BY <1>6
      <3> QED
        BY <3>1
    <2> QED
      BY <2>1, <2>2
  <1>13. ChainRuns(after, message, blocks)
    BY <1>7, <1>8, <1>12 DEF ChainRuns, Then
  <1> QED
    BY <1>2, <1>13

(* A block goes into the chain by its bytes alone. *)
LEMMA ChainSame ==
  ASSUME NEW h, NEW c, NEW i \in Int, NEW d, NEW j \in Int, SameBlock(c, i, d, j)
  PROVE  F180!Chain(h, c, i) = F180!Chain(h, d, j)
  <1> DEFINE b1 == [k \in 1 .. 16 |-> GET_UINT32(c, i + 4 * (k - 1))]
             b2 == [k \in 1 .. 16 |-> GET_UINT32(d, j + 4 * (k - 1))]
  <1>1. ASSUME NEW k \in 1 .. 16
        PROVE  GET_UINT32(c, i + 4 * (k - 1)) = GET_UINT32(d, j + 4 * (k - 1))
    <2> DEFINE ii == i + 4 * (k - 1)
               jj == j + 4 * (k - 1)
    <2>1. ASSUME NEW q \in 0 .. 3
          PROVE  c[ii + q] = d[jj + q]
      <3> DEFINE e == 4 * (k - 1) + q
      <3>1. e \in 0 .. 63 /\ ii + q = i + e /\ jj + q = j + e
        OBVIOUS
      <3> HIDE DEF e, ii, jj
      <3> QED
        BY <3>1 DEF SameBlock
    <2>2. ii \in Int /\ jj \in Int
      OBVIOUS
    <2> HIDE DEF ii, jj
    <2>3. GET_UINT32(c, ii) = GET_UINT32(d, jj)
      BY <2>1, <2>2, SameWord
    <2> QED
      BY <2>3 DEF ii, jj
  <1>2. b1 = b2
    BY <1>1
  <1>3. /\ F180!Chain(h, c, i) = [k \in 1 .. 5 |-> Plus(h[k], F180!Compressed(h, F180!Schedule(b1))[k])]
        /\ F180!Chain(h, d, j) = [k \in 1 .. 5 |-> Plus(h[k], F180!Compressed(h, F180!Schedule(b2))[k])]
    BY SameWords DEF F180!Chain
  <1> HIDE DEF b1, b2
  <1> QED
    BY <1>2, <1>3

(* Whole blocks that two messages have in common are chained alike. *)
Alike(c, d, n) == \A i \in 1 .. 64 * n : c[i] = d[i]

LEMMA ChainedAgree ==
  ASSUME NEW c, NEW d, NEW n \in Nat, NEW g, NEW G, NEW m \in Nat, n <= m,
         ChainRuns(g, c, n), ChainRuns(G, d, m), Alike(c, d, n)
  PROVE  g[n] = G[n]
  <1> DEFINE T == {b \in 0 .. n : g[b] = G[b]}
  <1>1. 0 \in T
    BY DEF ChainRuns
  <1>2. \A b \in 0 .. n - 1 : b \in T => b + 1 \in T
    <2> SUFFICES ASSUME NEW b \in 0 .. n - 1, b \in T
                 PROVE  b + 1 \in T
      OBVIOUS
    <2>1. b \in 0 .. m - 1 /\ b + 1 \in 0 .. n /\ b \in Nat /\ b <= n - 1
      OBVIOUS
    <2>2. g[b + 1] = F180!Chain(g[b], c, 64 * b + 1)
      BY DEF ChainRuns
    <2>3. G[b + 1] = F180!Chain(G[b], d, 64 * b + 1)
      BY <2>1 DEF ChainRuns
    <2> DEFINE i == 64 * b + 1
    <2>4. SameBlock(c, i, d, i)
      <3>1. \A q \in 0 .. 63 : i + q \in 1 .. 64 * n
        BY <2>1
      <3> HIDE DEF i
      <3> QED
        BY <3>1 DEF SameBlock, Alike
    <2>5. i \in Int
      BY <2>1
    <2> HIDE DEF i
    <2>6. F180!Chain(g[b], c, i) = F180!Chain(g[b], d, i)
      BY <2>4, <2>5, ChainSame
    <2> QED
      BY <2>1, <2>2, <2>3, <2>6 DEF i
  <1>3. \A b \in 0 .. n : b \in T
    <2> HIDE DEF T
    <2> QED
      BY <1>1, <1>2, Upward
  <1>4. n \in 0 .. n
    OBVIOUS
  <1> QED
    BY <1>3, <1>4

LEMMA ChainedPrefix ==
  ASSUME NEW c, NEW d, NEW n \in Nat, Alike(c, d, n)
  PROVE  F180!Chained(c, n) = F180!Chained(d, n)
  <1>1. PICK g : ChainRuns(g, c, n) /\ F180!Chained(c, n) = g[n]
    BY ChainedRuns
  <1>2. PICK G : ChainRuns(G, d, n) /\ F180!Chained(d, n) = G[n]
    BY ChainedRuns
  <1>3. n <= n
    OBVIOUS
  <1>4. g[n] = G[n]
    BY <1>1, <1>2, <1>3, ChainedAgree
  <1> QED
    BY <1>1, <1>2, <1>4

LEMMA ChainedMakes ==
  ASSUME NEW c, NEW n \in Nat
  PROVE  F180!Chained(c, n) \in Five
  <1>1. PICK g : ChainRuns(g, c, n) /\ F180!Chained(c, n) = g[n]
    BY ChainedRuns
  <1>2. n \in 0 .. n
    OBVIOUS
  <1> QED
    BY <1>1, <1>2 DEF ChainRuns

LEMMA ChainedStep ==
  ASSUME NEW c, NEW n \in Nat
  PROVE  F180!Chained(c, n + 1) = F180!Chain(F180!Chained(c, n), c, 64 * n + 1)
  <1>1. PICK g : ChainRuns(g, c, n) /\ F180!Chained(c, n) = g[n]
    BY ChainedRuns
  <1>2. n + 1 \in Nat /\ n \in 0 .. (n + 1) - 1 /\ n <= n + 1
    OBVIOUS
  <1>3. PICK G : ChainRuns(G, c, n + 1) /\ F180!Chained(c, n + 1) = G[n + 1]
    BY <1>2, ChainedRuns
  <1>4. g[n] = G[n]
    <2>1. Alike(c, c, n)
      BY DEF Alike
    <2> DEFINE m == n + 1
    <2>2. ChainRuns(G, c, m) /\ m \in Nat /\ n <= m
      BY <1>2, <1>3
    <2> HIDE DEF m
    <2> QED
      BY <1>1, <2>1, <2>2, ChainedAgree
  <1>5. G[n + 1] = F180!Chain(G[n], c, 64 * n + 1)
    BY <1>2, <1>3 DEF ChainRuns
  <1> QED
    BY <1>1, <1>3, <1>4, <1>5

LEMMA ChainedNone ==
  ASSUME NEW c
  PROVE  F180!Chained(c, 0) = F180!Start
  <1>1. 0 \in Nat
    OBVIOUS
  <1>2. PICK g : ChainRuns(g, c, 0) /\ F180!Chained(c, 0) = g[0]
    BY <1>1, ChainedRuns
  <1> QED
    BY <1>2 DEF ChainRuns

(* The blocks of an input that goes on with a message are those of the     *)
(* message.                                                                *)
LEMMA BlocksAreChained ==
  ASSUME NEW state \in State, NEW input, NEW start \in Int, NEW message, NEW k \in Nat, NEW n \in Nat,
         Same(state, F180!Chained(message, k)),
         \A q \in 0 .. 64 * n - 1 : input[start + q] = message[64 * k + 1 + q]
  PROVE  Same(Blocks(state, input, start, n), F180!Chained(message, k + n))
  <1>1. PICK g : BlockRuns(g, state, input, start, n) /\ Blocks(state, input, start, n) = g[n]
    BY BlocksRun
  <1> DEFINE T == {b \in 0 .. n : Same(g[b], F180!Chained(message, k + b))}
  <1>2. 0 \in T
    <2>1. k + 0 = k /\ 0 \in 0 .. n
      OBVIOUS
    <2>2. g[0] = state
      BY <1>1 DEF BlockRuns
    <2> QED
      BY <2>1, <2>2
  <1>3. \A b \in 0 .. n - 1 : b \in T => b + 1 \in T
    <2> SUFFICES ASSUME NEW b \in 0 .. n - 1, b \in T
                 PROVE  b + 1 \in T
      OBVIOUS
    <2> DEFINE h == F180!Chained(message, k + b)
               i == start + 64 * b
               m == 64 * (k + b) + 1
    <2>1. /\ b \in 0 .. n /\ b + 1 \in 0 .. n /\ b \in Nat /\ k + b \in Nat /\ k + (b + 1) = (k + b) + 1
          /\ i \in Int /\ m \in Int
      OBVIOUS
    <2>2. g[b + 1] = sha1_process(g[b], input, i)
      BY <1>1 DEF BlockRuns
    <2>3. F180!Chained(message, (k + b) + 1) = F180!Chain(h, message, m)
      BY <2>1, ChainedStep
    <2>4. g[b] \in State
      BY <1>1, <2>1 DEF BlockRuns
    <2>5. h \in Five
      BY <2>1, ChainedMakes
    <2>6. Same(g[b], h)
      OBVIOUS
    <2>7. SameBlock(input, i, message, m)
      <3> SUFFICES ASSUME NEW q \in 0 .. 63
                   PROVE  input[i + q] = message[m + q]
        BY DEF SameBlock
      <3> DEFINE e == 64 * b + q
      <3>1. e \in 0 .. 64 * n - 1
        BY <2>1
      <3>2. i + q = start + e /\ m + q = 64 * k + 1 + e
        BY <2>1
      <3> HIDE DEF e, i, m
      <3> QED
        BY <3>1, <3>2
    <2> HIDE DEF h, i, m
    <2>8. Same(sha1_process(g[b], input, i), F180!Chain(h, message, m))
      BY <2>1, <2>4, <2>5, <2>6, <2>7, ProcessIsChain
    <2> QED
      BY <2>1, <2>2, <2>3, <2>8
  <1>4. \A b \in 0 .. n : b \in T
    <2> HIDE DEF T
    <2> QED
      BY <1>2, <1>3, Upward
  <1>5. n \in 0 .. n
    OBVIOUS
  <1> QED
    BY <1>1, <1>4, <1>5

-----------------------------------------------------------------------------
(* The bits of a number, by its quotients. *)
Quotients(q, n, width) ==
  /\ q \in [0 .. width -> Nat]
  /\ q[0] = n
  /\ \A i \in 0 .. width - 1 : q[i + 1] = q[i] \div 2

LEMMA Halves ==
  ASSUME NEW n \in Nat, NEW width \in Nat
  PROVE  \E q : Quotients(q, n, width) /\ BitsOf(n, width) = {i \in 0 .. width - 1 : q[i] % 2 = 1}
  <1> DEFINE Then(x) == x \div 2
             step == [t \in 1 .. width |-> [x \in Nat |-> Then(x)]]
             Body(h) == [i \in 0 .. width |-> IF i = 0 THEN n ELSE Then(h[i - 1])]
             half == CHOOSE h : h = Body(h)
  <1>1. \A x \in Nat : Then(x) \in Nat
    OBVIOUS
  <1>2. BitsOf(n, width) = {i \in 0 .. width - 1 : half[i] % 2 = 1}
    BY DEF BitsOf
  <1>a. \A x : Then(x) = x \div 2
    OBVIOUS
  <1> HIDE DEF Then
  <1>3. step \in [1 .. width -> [Nat -> Nat]]
    BY <1>1
  <1>4. PICK g \in [0 .. width -> Nat] :
          g[0] = n /\ \A t \in 1 .. width : g[t] = step[t][g[t - 1]]
    <2>1. step \in Steps(Nat, width)
      BY <1>3 DEF Steps
    <2> HIDE DEF step
    <2>2. \E g : Leaves(g, Nat, width, n, step)
      BY <2>1, Iterates
    <2> QED
      BY <2>2 DEF Leaves
  <1>5. g = Body(g)
    <2>1. \A b \in 1 .. width : g[b] = Then(g[b - 1])
      <3> SUFFICES ASSUME NEW b \in 1 .. width
                   PROVE  g[b] = Then(g[b - 1])
        OBVIOUS
      <3>1. g[b - 1] \in Nat
        <4>1. b - 1 \in 0 .. width
          OBVIOUS
        <4> QED
          BY <4>1
      <3> QED
        BY <1>4, <3>1
    <2>2. \A b \in 0 .. width : b # 0 => b \in 1 .. width
      OBVIOUS
    <2> QED
      BY <1>4, <2>1, <2>2
  <1>6. half = Body(half)
    <2> HIDE DEF Body
    <2> QED
      BY <1>5
  <1> HIDE DEF half
  <1>7. half[0] = n
    BY <1>6
  <1>8. \A i \in 0 .. width - 1 : half[i + 1] = Then(half[i])
    <2> SUFFICES ASSUME NEW i \in 0 .. width - 1
                 PROVE  half[i + 1] = Then(half[i])
      OBVIOUS
    <2>1. i + 1 \in 0 .. width /\ i + 1 # 0 /\ (i + 1) - 1 = i
      OBVIOUS
    <2> QED
      BY <1>6, <2>1
  <1> DEFINE T == {i \in 0 .. width : half[i] \in Nat}
  <1>9. 0 \in T
    BY <1>7
  <1>10. \A i \in 0 .. width - 1 : i \in T => i + 1 \in T
    <2> SUFFICES ASSUME NEW i \in 0 .. width - 1, i \in T
                 PROVE  i + 1 \in T
      OBVIOUS
    <2>1. i + 1 \in 0 .. width
      OBVIOUS
    <2> QED
      BY <1>1, <1>8, <2>1
  <1>11. \A i \in 0 .. width : i \in T
    <2> HIDE DEF T
    <2> QED
      BY <1>9, <1>10, Upward
  <1>12. half \in [0 .. width -> Nat]
    <2>1. \A i \in 0 .. width : half[i] \in Nat
      BY <1>11
    <2>2. \E X : half = [i \in 0 .. width |-> X[i]]
      <3> DEFINE X == Body(half)
      <3>1. half = [i \in 0 .. width |-> X[i]]
        BY <1>6
      <3> QED
        BY <3>1
    <2> QED
      BY <2>1, <2>2
  <1>13. Quotients(half, n, width)
    BY <1>7, <1>8, <1>12, <1>a DEF Quotients
  <1> QED
    BY <1>2, <1>13

(* The quotients of a number are the same at every width. *)
LEMMA QuotientsAgree ==
  ASSUME NEW p, NEW q, NEW n, NEW v \in Nat, NEW w \in Nat, v <= w, Quotients(p, n, v), Quotients(q, n, w)
  PROVE  \A i \in 0 .. v : p[i] = q[i]
  <1> DEFINE T == {i \in 0 .. v : p[i] = q[i]}
  <1>1. 0 \in T
    BY DEF Quotients
  <1>2. \A i \in 0 .. v - 1 : i \in T => i + 1 \in T
    <2> SUFFICES ASSUME NEW i \in 0 .. v - 1, i \in T
                 PROVE  i + 1 \in T
      OBVIOUS
    <2>1. i \in 0 .. w - 1 /\ i + 1 \in 0 .. v
      OBVIOUS
    <2> QED
      BY <2>1 DEF Quotients
  <1>3. \A i \in 0 .. v : i \in T
    <2> HIDE DEF T
    <2> QED
      BY <1>1, <1>2, Upward
  <1> QED
    BY <1>3

LEMMA BitsByQuotients ==
  ASSUME NEW q, NEW n \in Nat, NEW v \in Nat, NEW w \in Nat, v <= w, Quotients(q, n, w)
  PROVE  BitsOf(n, v) = {i \in 0 .. v - 1 : q[i] % 2 = 1}
  <1>1. PICK p : Quotients(p, n, v) /\ BitsOf(n, v) = {i \in 0 .. v - 1 : p[i] % 2 = 1}
    BY Halves
  <1>2. \A i \in 0 .. v - 1 : p[i] = q[i]
    <2>1. \A i \in 0 .. v : p[i] = q[i]
      BY <1>1, QuotientsAgree
    <2>2. \A i \in 0 .. v - 1 : i \in 0 .. v
      OBVIOUS
    <2> QED
      BY <2>1, <2>2
  <1> QED
    BY <1>1, <1>2

(* Four quotients on, the number is divided by 16; eight, by 256.          *)
LEMMA FourOn ==
  ASSUME NEW q, NEW n, NEW width \in Nat, Quotients(q, n, width), NEW i \in Nat, i + 4 <= width
  PROVE  /\ q[i] \in Nat /\ q[i + 4] = q[i] \div 16
         /\ q[i] % 16 = (q[i] % 2) + 2 * (q[i + 1] % 2) + 4 * (q[i + 2] % 2) + 8 * (q[i + 3] % 2)
  <1> DEFINE a == q[i]
             b == q[i + 1]
             c == q[i + 2]
             d == q[i + 3]
             e == q[i + 4]
  <1>1. /\ i \in 0 .. width /\ i + 1 \in 0 .. width /\ i + 2 \in 0 .. width /\ i + 3 \in 0 .. width
        /\ i + 4 \in 0 .. width
        /\ i \in 0 .. width - 1 /\ i + 1 \in 0 .. width - 1 /\ i + 2 \in 0 .. width - 1
        /\ i + 3 \in 0 .. width - 1
        /\ (i + 1) + 1 = i + 2 /\ (i + 2) + 1 = i + 3 /\ (i + 3) + 1 = i + 4
    OBVIOUS
  <1>2. a \in Nat /\ b \in Nat /\ c \in Nat /\ d \in Nat /\ e \in Nat
    BY <1>1 DEF Quotients
  <1>3. b = a \div 2 /\ c = b \div 2 /\ d = c \div 2 /\ e = d \div 2
    <2>1. b = a \div 2
      BY <1>1 DEF Quotients
    <2>2. q[(i + 1) + 1] = b \div 2
      BY <1>1 DEF Quotients
    <2>3. q[(i + 2) + 1] = c \div 2
      BY <1>1 DEF Quotients
    <2>4. q[(i + 3) + 1] = d \div 2
      BY <1>1 DEF Quotients
    <2> QED
      BY <1>1, <2>1, <2>2, <2>3, <2>4
  <1> HIDE DEF a, b, c, d, e
  <1>4. e = a \div 16 /\ a % 16 = (a % 2) + 2 * (b % 2) + 4 * (c % 2) + 8 * (d % 2)
    BY <1>2, <1>3
  <1> QED
    BY <1>2, <1>4 DEF a, b, c, d, e

LEMMA OctetOf ==
  ASSUME NEW q, NEW n, NEW width \in Nat, Quotients(q, n, width), NEW i \in Nat, i + 8 <= width
  PROVE  /\ q[i] \in Nat /\ q[i + 8] = q[i] \div 256
         /\ Number({k \in 0 .. 7 : q[i + k] % 2 = 1}) = q[i] % 256
  <1> DEFINE x == {k \in 0 .. 7 : q[i + k] % 2 = 1}
             a == q[i]
             m == q[i + 4]
             Bit(k) == q[i + k] % 2
             b(k) == IF k \in x THEN 1 ELSE 0
  <1>1. /\ a \in Nat /\ m = a \div 16
        /\ a % 16 = Bit(0) + 2 * Bit(1) + 4 * Bit(2) + 8 * Bit(3)
    <2>1. i + 4 <= width /\ i + 0 = i
      OBVIOUS
    <2> QED
      BY <2>1, FourOn
  <1>2. /\ m \in Nat /\ q[i + 8] = m \div 16
        /\ m % 16 = Bit(4) + 2 * Bit(5) + 4 * Bit(6) + 8 * Bit(7)
    <2> DEFINE j == i + 4
    <2>1. /\ j \in Nat /\ j + 4 <= width
          /\ j + 4 = i + 8 /\ j + 1 = i + 5 /\ j + 2 = i + 6 /\ j + 3 = i + 7
      OBVIOUS
    <2>2. m = q[j]
      OBVIOUS
    <2> HIDE DEF j
    <2>3. /\ q[j] \in Nat /\ q[j + 4] = q[j] \div 16
          /\ q[j] % 16 = (q[j] % 2) + 2 * (q[j + 1] % 2) + 4 * (q[j + 2] % 2) + 8 * (q[j + 3] % 2)
      BY <2>1, FourOn
    <2> QED
      BY <2>1, <2>2, <2>3
  <1>3. Number(x) = b(0) + 2 * b(1) + 4 * b(2) + 8 * b(3) + 16 * b(4) + 32 * b(5) + 64 * b(6) + 128 * b(7)
    BY DEF Number
  <1>4. ASSUME NEW k \in 0 .. 7
        PROVE  b(k) = Bit(k) /\ Bit(k) \in 0 .. 1
    <2>1. i + k \in 0 .. width
      OBVIOUS
    <2>2. q[i + k] \in Nat
      BY <2>1 DEF Quotients
    <2>3. q[i + k] % 2 \in 0 .. 1
      BY <2>2
    <2> QED
      BY <2>3
  <1> HIDE DEF x, b, Bit, a, m
  <1>5. Number(x) = Bit(0) + 2 * Bit(1) + 4 * Bit(2) + 8 * Bit(3)
                      + 16 * Bit(4) + 32 * Bit(5) + 64 * Bit(6) + 128 * Bit(7)
    <2>1. /\ b(0) = Bit(0) /\ b(1) = Bit(1) /\ b(2) = Bit(2) /\ b(3) = Bit(3)
          /\ b(4) = Bit(4) /\ b(5) = Bit(5) /\ b(6) = Bit(6) /\ b(7) = Bit(7)
      BY <1>4
    <2> QED
      BY <1>3, <2>1
  <1>6. /\ Bit(0) \in 0 .. 1 /\ Bit(1) \in 0 .. 1 /\ Bit(2) \in 0 .. 1 /\ Bit(3) \in 0 .. 1
        /\ Bit(4) \in 0 .. 1 /\ Bit(5) \in 0 .. 1 /\ Bit(6) \in 0 .. 1 /\ Bit(7) \in 0 .. 1
    BY <1>4
  <1>7. a % 256 = (a % 16) + 16 * (m % 16) /\ m \div 16 = a \div 256
    BY <1>1
  <1>8. Number(x) = (a % 16) + 16 * (m % 16)
    BY <1>1, <1>2, <1>5, <1>6
  <1>9. Number(x) = a % 256
    BY <1>7, <1>8
  <1> QED
    BY <1>1, <1>2, <1>7, <1>9 DEF a, x

LEMMA EightOn ==
  ASSUME NEW q, NEW n, NEW width \in Nat, Quotients(q, n, width), NEW i \in Nat, i + 8 <= width
  PROVE  q[i] \in Nat /\ q[i + 8] = q[i] \div 256
  <1>1. /\ q[i] \in Nat /\ q[i + 8] = q[i] \div 256
        /\ Number({k \in 0 .. 7 : q[i + k] % 2 = 1}) = q[i] % 256
    BY OctetOf
  <1> QED
    BY <1>1

(* The bits of a sum are the sum of the bits. *)
LEMMA BitsAdd ==
  ASSUME NEW a \in Nat, NEW b \in Nat, NEW width \in Nat
  PROVE  WordSum(BitsOf(a, width), BitsOf(b, width), width) = BitsOf(a + b, width)
  <1> DEFINE x == BitsOf(a, width)
             y == BitsOf(b, width)
             c(i) == IF Carry(x, y, i) THEN 1 ELSE 0
             s == WordSum(x, y, width)
  <1>1. PICK p : Quotients(p, a, width) /\ x = {i \in 0 .. width - 1 : p[i] % 2 = 1}
    BY Halves
  <1>2. PICK q : Quotients(q, b, width) /\ y = {i \in 0 .. width - 1 : q[i] % 2 = 1}
    BY Halves
  <1> DEFINE r == [i \in 0 .. width |-> p[i] + q[i] + c(i)]
  <1>3. x \in SUBSET (0 .. width - 1) /\ y \in SUBSET (0 .. width - 1) /\ x \in SUBSET Nat /\ y \in SUBSET Nat
    BY <1>1, <1>2
  <1> HIDE DEF x, y
  <1>4. ~Carry(x, y, 0) /\ \A i \in Nat : Carry(x, y, i + 1) <=> i \in x \cap y \/ (i \in x \cup y /\ Carry(x, y, i))
    BY <1>3, CarryStep
  <1>5. /\ s \subseteq 0 .. width - 1
        /\ \A i \in 0 .. width - 1 : i \in s <=> ((i \in x <=> i \in y) <=> Carry(x, y, i))
    BY <1>3, SumBits
  <1>6. \A i \in 0 .. width : p[i] \in Nat /\ q[i] \in Nat
    BY <1>1, <1>2 DEF Quotients
  <1>7. r[0] = a + b
    BY <1>1, <1>2, <1>4 DEF Quotients
  <1>8. r \in [0 .. width -> Nat]
    BY <1>6
  <1>9. ASSUME NEW i \in 0 .. width - 1
        PROVE  r[i + 1] = r[i] \div 2 /\ (r[i] % 2 = 1 <=> i \in s)
    <2> DEFINE pi == p[i]
               qi == q[i]
               ci == c(i)
    <2>1. i \in 0 .. width /\ i + 1 \in 0 .. width /\ i \in Nat
      OBVIOUS
    <2>2. p[i + 1] = pi \div 2 /\ q[i + 1] = qi \div 2
      BY <1>1, <1>2 DEF Quotients
    <2>3. pi \in Nat /\ qi \in Nat /\ ci \in 0 .. 1
      BY <1>6, <2>1
    <2>4. (i \in x <=> pi % 2 = 1) /\ (i \in y <=> qi % 2 = 1) /\ (Carry(x, y, i) <=> ci = 1)
      BY <1>1, <1>2
    <2>5. c(i + 1) = IF i \in x \cap y \/ (i \in x \cup y /\ Carry(x, y, i)) THEN 1 ELSE 0
      BY <1>4, <2>1
    <2>6. c(i + 1) = IF (pi % 2) + (qi % 2) + ci >= 2 THEN 1 ELSE 0
      <3>1. (pi % 2) \in 0 .. 1 /\ (qi % 2) \in 0 .. 1
        BY <2>3
      <3>2. i \in x \cap y \/ (i \in x \cup y /\ Carry(x, y, i)) <=>
              (pi % 2 = 1 /\ qi % 2 = 1) \/ ((pi % 2 = 1 \/ qi % 2 = 1) /\ ci = 1)
        BY <2>4
      <3>3. (pi % 2 = 1 /\ qi % 2 = 1) \/ ((pi % 2 = 1 \/ qi % 2 = 1) /\ ci = 1)
              <=> (pi % 2) + (qi % 2) + ci >= 2
        <4> HIDE DEF pi, qi, ci
        <4> QED
          BY <2>3, <3>1
      <3> QED
        BY <2>5, <3>2, <3>3
    <2>7. r[i] = pi + qi + ci /\ r[i + 1] = (pi \div 2) + (qi \div 2) + c(i + 1)
      BY <2>1, <2>2
    <2>8. i \in s <=> ((pi % 2 = 1 <=> qi % 2 = 1) <=> ci = 1)
      BY <1>5, <2>4
    <2> DEFINE cn == c(i + 1)
    <2>9. cn = (IF (pi % 2) + (qi % 2) + ci >= 2 THEN 1 ELSE 0) /\ r[i + 1] = (pi \div 2) + (qi \div 2) + cn
      BY <2>6, <2>7
    <2> HIDE DEF pi, qi, ci, cn, r, s, c
    <2>10. (pi \div 2) + (qi \div 2) + cn = (pi + qi + ci) \div 2
      BY <2>3, <2>9
    <2>11. (pi + qi + ci) % 2 = 1 <=> ((pi % 2 = 1 <=> qi % 2 = 1) <=> ci = 1)
      BY <2>3
    <2> QED
      BY <2>7, <2>8, <2>9, <2>10, <2>11
  <1> HIDE DEF r, s, c
  <1>10. Quotients(r, a + b, width)
    BY <1>7, <1>8, <1>9 DEF Quotients
  <1>11. BitsOf(a + b, width) = {i \in 0 .. width - 1 : r[i] % 2 = 1}
    <2>1. a + b \in Nat /\ width <= width
      OBVIOUS
    <2> QED
      BY <1>10, <2>1, BitsByQuotients
  <1>12. s = {i \in 0 .. width - 1 : r[i] % 2 = 1}
    BY <1>5, <1>9
  <1> QED
    BY <1>11, <1>12 DEF s, x, y

(* Eight times a number has its bits three places up. *)
LEMMA BitsUp ==
  ASSUME NEW n \in Nat
  PROVE  BitsOf(8 * n, 64) = {i + 3 : i \in BitsOf(n, 61)}
  <1>0. 61 \in Nat /\ 64 \in Nat /\ 8 * n \in Nat /\ 61 - 1 = 60 /\ 64 - 1 = 63
    OBVIOUS
  <1>1. PICK q : Quotients(q, n, 61) /\ BitsOf(n, 61) = {i \in 0 .. 61 - 1 : q[i] % 2 = 1}
    BY <1>0, Halves
  <1>2. PICK r : Quotients(r, 8 * n, 64) /\ BitsOf(8 * n, 64) = {i \in 0 .. 64 - 1 : r[i] % 2 = 1}
    BY <1>0, Halves
  <1>3. /\ q \in [0 .. 61 -> Nat] /\ q[0] = n /\ \A i \in 0 .. 60 : q[i + 1] = q[i] \div 2
        /\ r \in [0 .. 64 -> Nat] /\ r[0] = 8 * n /\ \A i \in 0 .. 63 : r[i + 1] = r[i] \div 2
    BY <1>0, <1>1, <1>2 DEF Quotients
  <1>4. r[0] = 8 * n /\ r[1] = 4 * n /\ r[2] = 2 * n /\ r[3] = n
    <2>1. r[0 + 1] = r[0] \div 2 /\ r[1 + 1] = r[1] \div 2 /\ r[2 + 1] = r[2] \div 2
      BY <1>3
    <2>2. r[0] = 8 * n
      BY <1>3
    <2>3. r[1] = 4 * n
      BY <2>1, <2>2
    <2>4. r[2] = 2 * n
      BY <2>1, <2>3
    <2>5. r[3] = n
      BY <2>1, <2>4
    <2> QED
      BY <2>2, <2>3, <2>4, <2>5
  <1> DEFINE T == {i \in 0 .. 61 : r[i + 3] = q[i]}
  <1>5. \A i \in 0 .. 61 : r[i + 3] = q[i]
    <2>1. 0 \in T
      BY <1>3, <1>4
    <2>2. \A i \in 0 .. 61 - 1 : i \in T => i + 1 \in T
      <3> SUFFICES ASSUME NEW i \in 0 .. 61 - 1, i \in T
                   PROVE  i + 1 \in T
        OBVIOUS
      <3>1. i \in 0 .. 60 /\ i + 3 \in 0 .. 63 /\ i + 1 \in 0 .. 61 /\ (i + 3) + 1 = (i + 1) + 3
        OBVIOUS
      <3>2. r[(i + 3) + 1] = r[i + 3] \div 2
        BY <1>3, <3>1
      <3>3. q[i + 1] = q[i] \div 2
        BY <1>3, <3>1
      <3> QED
        BY <3>1, <3>2, <3>3
    <2>3. \A i \in 0 .. 61 : i \in T
      <3> HIDE DEF T
      <3>1. 0 \in Nat
        OBVIOUS
      <3> QED
        BY <1>0, <2>1, <2>2, <3>1, Upward
    <2> QED
      BY <2>3
  <1>6. r[0] % 2 # 1 /\ r[1] % 2 # 1 /\ r[2] % 2 # 1
    BY <1>4
  <1>7. ASSUME NEW j \in BitsOf(8 * n, 64)
        PROVE  j \in {i + 3 : i \in BitsOf(n, 61)}
    <2>1. j \in 0 .. 63 /\ r[j] % 2 = 1
      BY <1>0, <1>2
    <2>2. j # 0 /\ j # 1 /\ j # 2
      BY <1>6, <2>1
    <2> DEFINE i == j - 3
    <2>3. i \in 0 .. 60 /\ i \in 0 .. 61 /\ i + 3 = j
      BY <2>1, <2>2
    <2> HIDE DEF i
    <2>4. i \in BitsOf(n, 61)
      BY <1>0, <1>1, <1>5, <2>1, <2>3
    <2> QED
      BY <2>3, <2>4
  <1>8. ASSUME NEW i \in BitsOf(n, 61)
        PROVE  i + 3 \in BitsOf(8 * n, 64)
    <2>1. i \in 0 .. 60 /\ q[i] % 2 = 1
      BY <1>0, <1>1
    <2>2. i \in 0 .. 61 /\ i + 3 \in 0 .. 63
      BY <2>1
    <2> QED
      BY <1>0, <1>2, <1>5, <2>1, <2>2
  <1> QED
    BY <1>7, <1>8

(* A UInt32 has no bits beyond its width. *)
LEMMA LengthBits ==
  ASSUME NEW n \in Nat, IsLength(n)
  PROVE  BitsOf(n, 61) = BitsOf(n, 32)
  <1>0. 61 \in Nat /\ 32 \in Nat /\ 32 <= 61 /\ 61 <= 61 /\ 61 - 1 = 60 /\ 32 - 1 = 31
    OBVIOUS
  <1>1. PICK q : Quotients(q, n, 61)
    BY <1>0, Halves
  <1>2. /\ BitsOf(n, 61) = {i \in 0 .. 61 - 1 : q[i] % 2 = 1}
        /\ BitsOf(n, 32) = {i \in 0 .. 32 - 1 : q[i] % 2 = 1}
    <2> DEFINE v == 32
               w == 61
    <2>1. v \in Nat /\ w \in Nat /\ v <= w /\ w <= w /\ Quotients(q, n, w)
      BY <1>0, <1>1
    <2> HIDE DEF v, w
    <2>2. BitsOf(n, w) = {i \in 0 .. w - 1 : q[i] % 2 = 1}
      BY <2>1, BitsByQuotients
    <2>3. BitsOf(n, v) = {i \in 0 .. v - 1 : q[i] % 2 = 1}
      BY <2>1, BitsByQuotients
    <2> QED
      BY <2>2, <2>3 DEF v, w
  <1>3. q[0] = n /\ q[8] = q[0] \div 256 /\ q[16] = q[8] \div 256 /\ q[24] = q[16] \div 256 /\ q[32] = q[24] \div 256
    <2>1. /\ 0 + 8 <= 61 /\ 8 + 8 <= 61 /\ 16 + 8 <= 61 /\ 24 + 8 <= 61
          /\ 0 \in Nat /\ 8 \in Nat /\ 16 \in Nat /\ 24 \in Nat
          /\ 0 + 8 = 8 /\ 8 + 8 = 16 /\ 16 + 8 = 24 /\ 24 + 8 = 32
      OBVIOUS
    <2>2. \A i \in Nat : i + 8 <= 61 => q[i + 8] = q[i] \div 256
      <3> DEFINE w == 61
      <3>1. w \in Nat /\ Quotients(q, n, w)
        BY <1>0, <1>1
      <3> HIDE DEF w
      <3>2. \A i \in Nat : i + 8 <= w => q[i + 8] = q[i] \div 256
        <4> SUFFICES ASSUME NEW i \in Nat, i + 8 <= w
                     PROVE  q[i + 8] = q[i] \div 256
          OBVIOUS
        <4> QED
          BY <3>1, EightOn
      <3> QED
        BY <3>2 DEF w
    <2>3. q[0 + 8] = q[0] \div 256 /\ q[8 + 8] = q[8] \div 256 /\ q[16 + 8] = q[16] \div 256 /\ q[24 + 8] = q[24] \div 256
      BY <2>1, <2>2
    <2>4. q[0] = n
      BY <1>1 DEF Quotients
    <2> QED
      BY <2>1, <2>3, <2>4
  <1>4. q[32] = 0
    <2> DEFINE a == q[8]
               b == q[16]
               c == q[24]
    <2>1. a = n \div 256 /\ b = a \div 256 /\ c = b \div 256 /\ q[32] = c \div 256
      BY <1>3
    <2>2. n \div 65536 < 65536
      BY DEF IsLength
    <2> HIDE DEF a, b, c
    <2>3. b = n \div 65536 /\ b \in Nat
      BY <2>1
    <2>4. b < 65536 /\ c = b \div 256
      BY <2>1, <2>2, <2>3
    <2>5. c < 256 /\ c \in Nat
      BY <2>3, <2>4
    <2>6. c \div 256 = 0
      BY <2>5
    <2> QED
      BY <2>1, <2>6
  <1> DEFINE T == {i \in 32 .. 60 : q[i] = 0}
  <1>5. \A i \in 32 .. 60 : q[i] = 0
    <2>1. 32 \in T
      BY <1>4
    <2>2. \A i \in 32 .. 60 - 1 : i \in T => i + 1 \in T
      <3> SUFFICES ASSUME NEW i \in 32 .. 60 - 1, i \in T
                   PROVE  i + 1 \in T
        OBVIOUS
      <3>1. i \in 0 .. 61 - 1 /\ i + 1 \in 32 .. 60
        OBVIOUS
      <3>2. q[i + 1] = q[i] \div 2
        BY <1>1, <3>1 DEF Quotients
      <3>3. q[i] = 0 /\ 0 \div 2 = 0
        OBVIOUS
      <3> QED
        BY <3>1, <3>2, <3>3
    <2>3. \A i \in 32 .. 60 : i \in T
      <3> HIDE DEF T
      <3>1. 60 \in Nat
        OBVIOUS
      <3> QED
        BY <1>0, <2>1, <2>2, <3>1, Upward
    <2> QED
      BY <2>3
  <1>6. ASSUME NEW i \in 0 .. 60, q[i] % 2 = 1
        PROVE  i \in 0 .. 31
    <2>1. CASE i \in 32 .. 60
      <3>1. q[i] = 0
        BY <1>5, <2>1
      <3>2. 0 % 2 = 0
        OBVIOUS
      <3> QED
        BY <1>6, <3>1, <3>2
    <2> QED
      BY <2>1
  <1> QED
    BY <1>0, <1>2, <1>6

(* The counter of a context that has taken in n bytes, after m more. *)
Counts8(total, n) == Joined(total[0], total[1]) = {i + 3 : i \in BitsOf(n, 61)}

LEMMA CountsOn ==
  ASSUME NEW total \in [0 .. 1 -> UInt32], NEW n \in Nat, NEW m \in Nat, IsLength(m), Counts8(total, n)
  PROVE  Counts8(Counted(total, BitsOf(m, 32)), n + m)
  <1> DEFINE t == Counted(total, BitsOf(m, 32))
  <1>1. total[0] \in UInt32 /\ total[1] \in UInt32
    OBVIOUS
  <1>2. BitsOf(m, 32) \in UInt32
    BY DEF BitsOf, UInt32, Bits
  <1>3. Joined(t[0], t[1]) = WordSum(Joined(total[0], total[1]), {i + 3 : i \in BitsOf(m, 32)}, 64)
    BY <1>1, <1>2, CountedIsSum
  <1> HIDE DEF t
  <1>4. Joined(total[0], total[1]) = BitsOf(8 * n, 64)
    BY BitsUp DEF Counts8
  <1>5. {i + 3 : i \in BitsOf(m, 32)} = BitsOf(8 * m, 64)
    BY BitsUp, LengthBits
  <1>6. WordSum(BitsOf(8 * n, 64), BitsOf(8 * m, 64), 64) = BitsOf(8 * n + 8 * m, 64)
    <2>1. 8 * n \in Nat /\ 8 * m \in Nat /\ 64 \in Nat
      OBVIOUS
    <2> QED
      BY <2>1, BitsAdd
  <1>7. 8 * n + 8 * m = 8 * (n + m) /\ n + m \in Nat
    OBVIOUS
  <1>8. BitsOf(8 * (n + m), 64) = {i + 3 : i \in BitsOf(n + m, 61)}
    BY <1>7, BitsUp
  <1>9. Joined(t[0], t[1]) = {i + 3 : i \in BitsOf(n + m, 61)}
    BY <1>3, <1>4, <1>5, <1>6, <1>7, <1>8
  <1> QED
    BY <1>9 DEF Counts8, t

(* The bits of the two words of the counter. *)
LEMMA JoinedBits ==
  ASSUME NEW low \in UInt32, NEW high \in UInt32, NEW i \in Bits
  PROVE  (i \in low <=> i \in Joined(low, high)) /\ (i \in high <=> i + 32 \in Joined(low, high))
  <1>1. /\ \A j \in low : j \in 0 .. 31
        /\ \A j \in high : j \in 0 .. 31
        /\ i \in 0 .. 31
    BY DEF UInt32, Bits
  <1> QED
    BY <1>1 DEF Joined

(* The bytes that wait, as the counter has them, are those behind the last *)
(* whole block.                                                            *)
LEMMA WaitingIsRest ==
  ASSUME NEW c, c.total[0] \in UInt32, c.total[1] \in UInt32, NEW n \in Nat, Counts8(c.total, n)
  PROVE  Waiting(c) = n % 64
  <1> DEFINE low == c.total[0]
             high == c.total[1]
             x == Right(low, 3) \cap 0 .. 5
             b(i) == IF i \in x THEN 1 ELSE 0
  <1>0. 61 \in Nat /\ 61 - 1 = 60
    OBVIOUS
  <1>1. PICK q : Quotients(q, n, 61) /\ BitsOf(n, 61) = {i \in 0 .. 61 - 1 : q[i] % 2 = 1}
    BY <1>0, Halves
  <1>2. Joined(low, high) = {i + 3 : i \in BitsOf(n, 61)}
    BY DEF Counts8
  <1>3. ASSUME NEW k \in 0 .. 5
        PROVE  k \in x <=> q[k] % 2 = 1
    <2>1. k + 3 \in Bits /\ k \in Bits /\ k \in 0 .. 60
      BY DEF Bits
    <2>2. k \in x <=> k + 3 \in low
      <3>1. low \subseteq Int
        BY DEF UInt32, Bits
      <3> HIDE DEF low
      <3> QED
        BY <2>1, <3>1 DEF Right
    <2>3. k + 3 \in low <=> k + 3 \in Joined(low, high)
      BY <2>1, JoinedBits
    <2>4. k + 3 \in {i + 3 : i \in BitsOf(n, 61)} <=> k \in BitsOf(n, 61)
      <3>1. BitsOf(n, 61) \subseteq Int
        BY <1>1
      <3> QED
        BY <3>1
    <2>5. k \in BitsOf(n, 61) <=> q[k] % 2 = 1
      BY <1>0, <1>1, <2>1
    <2> QED
      BY <1>2, <2>2, <2>3, <2>4, <2>5
  <1>4. 6 \notin x /\ 7 \notin x
    OBVIOUS
  <1>5. Waiting(c) = b(0) + 2 * b(1) + 4 * b(2) + 8 * b(3) + 16 * b(4) + 32 * b(5) + 64 * b(6) + 128 * b(7)
    BY DEF Waiting, Number
  <1> HIDE DEF low, high, x
  <1> DEFINE Bit(k) == q[k] % 2
             m == q[4]
             l == q[5]
  <1>6. \A k \in 0 .. 5 : b(k) = Bit(k) /\ Bit(k) \in 0 .. 1
    <2> SUFFICES ASSUME NEW k \in 0 .. 5
                 PROVE  b(k) = Bit(k) /\ Bit(k) \in 0 .. 1
      OBVIOUS
    <2>1. q[k] \in Nat
      <3>1. k \in 0 .. 61
        OBVIOUS
      <3> QED
        BY <1>1, <3>1 DEF Quotients
    <2>2. q[k] % 2 \in 0 .. 1
      BY <2>1
    <2> QED
      BY <1>3, <2>2
  <1>7. b(6) = 0 /\ b(7) = 0
    BY <1>4
  <1>8. /\ n % 16 = Bit(0) + 2 * Bit(1) + 4 * Bit(2) + 8 * Bit(3) /\ m = n \div 16
    <2> DEFINE w == 61
               z == 0
    <2>1. w \in Nat /\ Quotients(q, n, w) /\ z \in Nat /\ z + 4 <= w
      BY <1>1
    <2>2. z = 0 /\ z + 1 = 1 /\ z + 2 = 2 /\ z + 3 = 3 /\ z + 4 = 4 /\ q[0] = n
      BY <1>1 DEF Quotients
    <2> HIDE DEF w, z
    <2>3. /\ q[z] \in Nat /\ q[z + 4] = q[z] \div 16
          /\ q[z] % 16 = (q[z] % 2) + 2 * (q[z + 1] % 2) + 4 * (q[z + 2] % 2) + 8 * (q[z + 3] % 2)
      BY <2>1, FourOn
    <2> QED
      BY <2>2, <2>3
  <1>9. l = m \div 2 /\ Bit(4) = m % 2 /\ Bit(5) = l % 2
    <2>1. 4 \in 0 .. 61 - 1 /\ 4 + 1 = 5
      OBVIOUS
    <2>2. q[4 + 1] = q[4] \div 2
      BY <1>1, <2>1 DEF Quotients
    <2> QED
      BY <2>1, <2>2
  <1>10. Waiting(c) = Bit(0) + 2 * Bit(1) + 4 * Bit(2) + 8 * Bit(3) + 16 * Bit(4) + 32 * Bit(5)
    <2>1. b(0) = Bit(0) /\ b(1) = Bit(1) /\ b(2) = Bit(2) /\ b(3) = Bit(3) /\ b(4) = Bit(4) /\ b(5) = Bit(5)
      BY <1>6
    <2>2. /\ Bit(0) \in 0 .. 1 /\ Bit(1) \in 0 .. 1 /\ Bit(2) \in 0 .. 1
          /\ Bit(3) \in 0 .. 1 /\ Bit(4) \in 0 .. 1 /\ Bit(5) \in 0 .. 1
      BY <1>6
    <2> HIDE DEF b, Bit
    <2> QED
      BY <1>5, <1>7, <2>1, <2>2
  <1>11. Waiting(c) = (n % 16) + 16 * (m % 2) + 32 * (l % 2)
    <2>1. /\ Bit(0) \in 0 .. 1 /\ Bit(1) \in 0 .. 1 /\ Bit(2) \in 0 .. 1 /\ Bit(3) \in 0 .. 1
      BY <1>6
    <2> HIDE DEF Bit
    <2> QED
      BY <1>8, <1>9, <1>10, <2>1
  <1> HIDE DEF m, l, Bit
  <1> QED
    BY <1>8, <1>9, <1>11

(* The four bytes of a word of the counter. *)
LEMMA WordBytes ==
  ASSUME NEW x \in UInt32, NEW r, NEW n, NEW width \in Nat, Quotients(r, n, width),
         NEW at \in Nat, at + 32 <= width,
         \A i \in Bits : i \in x <=> r[at + i] % 2 = 1
  PROVE  /\ PUT_UINT32(x)[1] = r[at + 24] % 256 /\ PUT_UINT32(x)[2] = r[at + 16] % 256
         /\ PUT_UINT32(x)[3] = r[at + 8] % 256 /\ PUT_UINT32(x)[4] = r[at] % 256
  <1>1. ASSUME NEW j \in 0 .. 3
        PROVE  Number(Right(x, 8 * j) \cap 0 .. 7) = r[at + 8 * j] % 256
    <2> DEFINE i == at + 8 * j
               y == {k \in 0 .. 7 : r[i + k] % 2 = 1}
    <2>1. i \in Nat /\ i + 8 <= width
      OBVIOUS
    <2>2. ASSUME NEW k \in 0 .. 7
          PROVE  k \in Right(x, 8 * j) <=> r[i + k] % 2 = 1
      <3> DEFINE e == 8 * j + k
      <3>1. e \in Bits /\ i + k = at + e /\ k \in Bits
        BY DEF Bits
      <3>2. k \in Right(x, 8 * j) <=> e \in x
        <4>1. x \subseteq Int
          BY DEF UInt32, Bits
        <4> QED
          BY <3>1, <4>1 DEF Right
      <3> HIDE DEF e, i
      <3> QED
        BY <3>1, <3>2
    <2>3. Right(x, 8 * j) \cap 0 .. 7 = y
      BY <2>2
    <2> HIDE DEF i
    <2>4. /\ r[i] \in Nat /\ r[i + 8] = r[i] \div 256
          /\ Number({k \in 0 .. 7 : r[i + k] % 2 = 1}) = r[i] % 256
      BY <2>1, OctetOf
    <2> QED
      BY <2>3, <2>4 DEF i
  <1> DEFINE Part(j) == Number(Right(x, 8 * j) \cap 0 .. 7)
  <1>2. /\ PUT_UINT32(x)[1] = Part(3) /\ PUT_UINT32(x)[2] = Part(2)
        /\ PUT_UINT32(x)[3] = Part(1) /\ PUT_UINT32(x)[4] = Part(0)
    BY DEF PUT_UINT32
  <1>3. Part(3) = r[at + 24] % 256 /\ Part(2) = r[at + 16] % 256 /\ Part(1) = r[at + 8] % 256 /\ Part(0) = r[at] % 256
    <2>1. /\ Part(3) = r[at + 8 * 3] % 256 /\ Part(2) = r[at + 8 * 2] % 256
          /\ Part(1) = r[at + 8 * 1] % 256 /\ Part(0) = r[at + 8 * 0] % 256
      BY <1>1
    <2>2. at + 8 * 3 = at + 24 /\ at + 8 * 2 = at + 16 /\ at + 8 * 1 = at + 8 /\ at + 8 * 0 = at
      OBVIOUS
    <2> HIDE DEF Part
    <2> QED
      BY <2>1, <2>2
  <1> QED
    BY <1>2, <1>3

LEMMA PutMakes ==
  ASSUME NEW x
  PROVE  PUT_UINT32(x) \in Seq(Bytes) /\ Len(PUT_UINT32(x)) = 4
  <1>1. \A y : Number(y) \in Bytes
    <2> SUFFICES ASSUME NEW y
                 PROVE  Number(y) \in Bytes
      OBVIOUS
    <2> DEFINE bit(i) == IF i \in y THEN 1 ELSE 0
    <2>1. Number(y) = bit(0) + 2 * bit(1) + 4 * bit(2) + 8 * bit(3)
                        + 16 * bit(4) + 32 * bit(5) + 64 * bit(6) + 128 * bit(7)
      BY DEF Number
    <2>2. \A i : bit(i) \in 0 .. 1
      OBVIOUS
    <2> HIDE DEF bit
    <2>3. /\ bit(0) \in 0 .. 1 /\ bit(1) \in 0 .. 1 /\ bit(2) \in 0 .. 1 /\ bit(3) \in 0 .. 1
          /\ bit(4) \in 0 .. 1 /\ bit(5) \in 0 .. 1 /\ bit(6) \in 0 .. 1 /\ bit(7) \in 0 .. 1
      BY <2>2
    <2> QED
      BY <2>1, <2>3 DEF Bytes
  <1> DEFINE b(i) == Number(Right(x, 8 * (4 - i)) \cap 0 .. 7)
  <1>2. PUT_UINT32(x) = [i \in 1 .. 4 |-> b(i)]
    BY DEF PUT_UINT32
  <1>3. \A i : b(i) \in Bytes
    BY <1>1
  <1> HIDE DEF b
  <1> QED
    BY <1>2, <1>3

LEMMA EightBytes ==
  ASSUME NEW s \in Seq(Bytes), Len(s) = 4, NEW t \in Seq(Bytes), Len(t) = 4
  PROVE  s \o t = <<s[1], s[2], s[3], s[4], t[1], t[2], t[3], t[4]>>
  <1> DEFINE u == s \o t
             v == <<s[1], s[2], s[3], s[4], t[1], t[2], t[3], t[4]>>
  <1>1. \A i \in 1 .. 4 : s[i] \in Bytes /\ t[i] \in Bytes
    BY ElementOfSeq
  <1>2. u \in Seq(Bytes) /\ Len(u) = 8
    <2>1. u \in Seq(Bytes) /\ Len(u) = Len(s) + Len(t)
      BY ConcatProperties
    <2> QED
      BY <2>1
  <1>3. v \in Seq(Bytes) /\ Len(v) = 8
    BY <1>1
  <1>4. /\ u[1] = s[1] /\ u[2] = s[2] /\ u[3] = s[3] /\ u[4] = s[4]
        /\ u[5] = t[1] /\ u[6] = t[2] /\ u[7] = t[3] /\ u[8] = t[4]
    <2>1. \A i \in 1 .. Len(s) + Len(t) : u[i] = IF i <= Len(s) THEN s[i] ELSE t[i - Len(s)]
      BY ConcatProperties
    <2>2. /\ Len(s) + Len(t) = 8 /\ Len(s) = 4 /\ 5 - 4 = 1 /\ 6 - 4 = 2 /\ 7 - 4 = 3 /\ 8 - 4 = 4
      OBVIOUS
    <2> HIDE DEF u
    <2>3. \A i \in 1 .. 8 : u[i] = IF i <= 4 THEN s[i] ELSE t[i - 4]
      BY <2>1, <2>2
    <2> QED
      BY <2>2, <2>3
  <1>5. \A i \in 1 .. 8 : u[i] = v[i]
    <2>1. \A i \in 1 .. 8 : i = 1 \/ i = 2 \/ i = 3 \/ i = 4 \/ i = 5 \/ i = 6 \/ i = 7 \/ i = 8
      OBVIOUS
    <2> HIDE DEF u
    <2> QED
      BY <1>4, <2>1
  <1> HIDE DEF u, v
  <1>6. u = v
    BY <1>2, <1>3, <1>5, SeqEqual
  <1> QED
    BY <1>6 DEF u, v

(* What sha1_finish() appends is the length that FIPS 180-1 asks for. *)
LEMMA LengthBytes ==
  ASSUME NEW low \in UInt32, NEW high \in UInt32, NEW n \in Nat,
         Joined(low, high) = {i + 3 : i \in BitsOf(n, 61)}
  PROVE  PUT_UINT32(high) \o PUT_UINT32(low) = F180!LengthInBits(n)
  <1> DEFINE w == 64
             u == 0
             v == 32
             h == n \div 536870912
             top == PUT_UINT32(high)
             bottom == PUT_UINT32(low)
  <1> HIDE DEF h
  <1>0. /\ w \in Nat /\ u \in Nat /\ v \in Nat /\ u + 32 <= w /\ v + 32 <= w /\ w <= w /\ 8 * n \in Nat
        /\ w - 1 = 63
    OBVIOUS
  <1>1. BitsOf(8 * n, w) = Joined(low, high)
    BY BitsUp
  <1> HIDE DEF w
  <1>2. PICK r : Quotients(r, 8 * n, w) /\ BitsOf(8 * n, w) = {i \in 0 .. w - 1 : r[i] % 2 = 1}
    BY <1>0, Halves
  <1>3. \A i \in Bits : i \in low <=> r[u + i] % 2 = 1
    <2> SUFFICES ASSUME NEW i \in Bits
                 PROVE  i \in low <=> r[u + i] % 2 = 1
      OBVIOUS
    <2>1. u + i = i /\ i \in 0 .. w - 1
      BY <1>0 DEF Bits
    <2>2. i \in low <=> i \in Joined(low, high)
      BY JoinedBits
    <2> QED
      BY <1>1, <1>2, <2>1, <2>2
  <1>4. \A i \in Bits : i \in high <=> r[v + i] % 2 = 1
    <2> SUFFICES ASSUME NEW i \in Bits
                 PROVE  i \in high <=> r[v + i] % 2 = 1
      OBVIOUS
    <2>1. v + i = i + 32 /\ i + 32 \in 0 .. w - 1
      BY <1>0 DEF Bits
    <2>2. i \in high <=> i + 32 \in Joined(low, high)
      BY JoinedBits
    <2> QED
      BY <1>1, <1>2, <2>1, <2>2
  <1>5. /\ bottom[1] = r[24] % 256 /\ bottom[2] = r[16] % 256
        /\ bottom[3] = r[8] % 256 /\ bottom[4] = r[0] % 256
    <2>1. u + 24 = 24 /\ u + 16 = 16 /\ u + 8 = 8 /\ u = 0
      OBVIOUS
    <2> HIDE DEF u
    <2>2. /\ bottom[1] = r[u + 24] % 256 /\ bottom[2] = r[u + 16] % 256
          /\ bottom[3] = r[u + 8] % 256 /\ bottom[4] = r[u] % 256
      BY <1>0, <1>2, <1>3, WordBytes
    <2> QED
      BY <2>1, <2>2
  <1>6. /\ top[1] = r[56] % 256 /\ top[2] = r[48] % 256
        /\ top[3] = r[40] % 256 /\ top[4] = r[32] % 256
    <2>1. v + 24 = 56 /\ v + 16 = 48 /\ v + 8 = 40 /\ v = 32
      OBVIOUS
    <2> HIDE DEF v
    <2>2. /\ top[1] = r[v + 24] % 256 /\ top[2] = r[v + 16] % 256
          /\ top[3] = r[v + 8] % 256 /\ top[4] = r[v] % 256
      BY <1>0, <1>2, <1>4, WordBytes
    <2> QED
      BY <2>1, <2>2
  <1>7. /\ r[8] = r[0] \div 256 /\ r[16] = r[8] \div 256 /\ r[24] = r[16] \div 256 /\ r[32] = r[24] \div 256
        /\ r[40] = r[32] \div 256 /\ r[48] = r[40] \div 256 /\ r[56] = r[48] \div 256
    <2>1. \A i \in Nat : i + 8 <= w => r[i + 8] = r[i] \div 256
      <3> SUFFICES ASSUME NEW i \in Nat, i + 8 <= w
                   PROVE  r[i + 8] = r[i] \div 256
        OBVIOUS
      <3>1. r[i] \in Nat /\ r[i + 8] = r[i] \div 256
        BY <1>0, <1>2, EightOn
      <3> QED
        BY <3>1
    <2>2. /\ 0 + 8 <= w /\ 8 + 8 <= w /\ 16 + 8 <= w /\ 24 + 8 <= w /\ 32 + 8 <= w /\ 40 + 8 <= w /\ 48 + 8 <= w
          /\ 0 + 8 = 8 /\ 8 + 8 = 16 /\ 16 + 8 = 24 /\ 24 + 8 = 32 /\ 32 + 8 = 40 /\ 40 + 8 = 48 /\ 48 + 8 = 56
          /\ 0 \in Nat /\ 8 \in Nat /\ 16 \in Nat /\ 24 \in Nat /\ 32 \in Nat /\ 40 \in Nat /\ 48 \in Nat
      BY DEF w
    <2>3. /\ r[0 + 8] = r[0] \div 256 /\ r[8 + 8] = r[8] \div 256 /\ r[16 + 8] = r[16] \div 256
          /\ r[24 + 8] = r[24] \div 256 /\ r[32 + 8] = r[32] \div 256 /\ r[40 + 8] = r[40] \div 256
          /\ r[48 + 8] = r[48] \div 256
      BY <2>1, <2>2
    <2> QED
      BY <2>2, <2>3
  <1>8. r[0] = 8 * n
    BY <1>2 DEF Quotients
  <1> DEFINE r8 == r[8]
             r16 == r[16]
             r24 == r[24]
             r32 == r[32]
             r40 == r[40]
             r48 == r[48]
             r56 == r[56]
  <1>9. /\ r8 \in Nat /\ r16 \in Nat /\ r24 \in Nat /\ r32 \in Nat
        /\ r40 \in Nat /\ r48 \in Nat /\ r56 \in Nat
    <2>1. \A i \in 0 .. w : r[i] \in Nat
      BY <1>2 DEF Quotients
    <2>2. /\ 8 \in 0 .. w /\ 16 \in 0 .. w /\ 24 \in 0 .. w /\ 32 \in 0 .. w
          /\ 40 \in 0 .. w /\ 48 \in 0 .. w /\ 56 \in 0 .. w
      BY DEF w
    <2> QED
      BY <2>1, <2>2
  <1>10. /\ top[1] = r56 % 256 /\ top[2] = r48 % 256 /\ top[3] = r40 % 256 /\ top[4] = r32 % 256
         /\ bottom[1] = r24 % 256 /\ bottom[2] = r16 % 256 /\ bottom[3] = r8 % 256 /\ bottom[4] = (8 * n) % 256
    BY <1>5, <1>6, <1>8
  <1>11. r8 = n \div 32
    <2>1. r8 = r[0] \div 256
      BY <1>7
    <2>2. r8 = (8 * n) \div 256
      BY <1>8, <2>1
    <2> HIDE DEF r8
    <2> QED
      BY <1>9, <2>2, SMT
  <1>12. r16 = n \div 8192
    <2>1. r16 = r8 \div 256
      BY <1>7
    <2> HIDE DEF r8, r16
    <2> QED
      BY <1>9, <1>11, <2>1, SMT
  <1>13. r24 = n \div 2097152
    <2>1. r24 = r16 \div 256
      BY <1>7
    <2> HIDE DEF r16, r24
    <2> QED
      BY <1>9, <1>12, <2>1, SMT
  <1>14. r32 = h
    <2>1. r32 = r24 \div 256
      BY <1>7
    <2> HIDE DEF r24, r32
    <2> QED
      BY <1>9, <1>13, <2>1, SMT DEF h
  <1> DEFINE k40 == h \div 256
             k48 == h \div 65536
             k56 == h \div 16777216
  <1>15. r40 = k40 /\ r48 = k48 /\ r56 = k56
    <2>1. r40 = r32 \div 256 /\ r48 = r40 \div 256 /\ r56 = r48 \div 256
      BY <1>7
    <2> HIDE DEF r32, r40, r48, r56
    <2>2. h \in Nat
      BY <1>9, <1>14
    <2>3. r40 = h \div 256
      BY <1>14, <2>1
    <2>4. r48 = r40 \div 256 /\ r56 = r48 \div 256
      BY <2>1
    <2>5. r48 = h \div 65536
      BY <1>9, <2>2, <2>3, <2>4, SMT
    <2>6. r56 = h \div 16777216
      BY <1>9, <2>2, <2>4, <2>5, SMT
    <2> QED
      BY <2>3, <2>5, <2>6, SMT
  <1> HIDE DEF r8, r16, r24, r32, r40, r48, r56, top, bottom, k40, k48, k56
  <1>16. /\ top \in Seq(Bytes) /\ Len(top) = 4
         /\ bottom \in Seq(Bytes) /\ Len(bottom) = 4
    BY PutMakes DEF top, bottom
  <1>17. top \o bottom = <<top[1], top[2], top[3], top[4], bottom[1], bottom[2], bottom[3], bottom[4]>>
    BY <1>16, EightBytes
  <1> DEFINE l1 == k56 % 256
             l2 == k48 % 256
             l3 == k40 % 256
             l4 == h % 256
             l5 == (n \div 2097152) % 256
             l6 == (n \div 8192) % 256
             l7 == (n \div 32) % 256
             l8 == 8 * (n % 32)
  <1>18. /\ top[1] = l1 /\ top[2] = l2 /\ top[3] = l3 /\ top[4] = l4
         /\ bottom[1] = l5 /\ bottom[2] = l6 /\ bottom[3] = l7 /\ bottom[4] = l8
    <2>1. top[1] = l1 /\ top[2] = l2 /\ top[3] = l3 /\ top[4] = l4
      BY <1>10, <1>14, <1>15
    <2>2. bottom[1] = l5
      BY <1>10, <1>13, SMT
    <2>3. bottom[2] = l6
      BY <1>10, <1>12, SMT
    <2>4. bottom[3] = l7
      BY <1>10, <1>11, SMT
    <2>5. bottom[4] = l8
      <3>1. (8 * n) % 256 = 8 * (n % 32)
        BY SMT
      <3> QED
        BY <1>10, <3>1, SMT
    <2> HIDE DEF l1, l2, l3, l4, l5, l6, l7, l8
    <2> QED
      BY <2>1, <2>2, <2>3, <2>4, <2>5
  <1>19. F180!LengthInBits(n) = <<l1, l2, l3, l4, l5, l6, l7, l8>>
    BY SMT DEF F180!LengthInBits, h, k40, k48, k56
  <1> HIDE DEF l1, l2, l3, l4, l5, l6, l7, l8
  <1> QED
    BY <1>17, <1>18, <1>19 DEF top, bottom

-----------------------------------------------------------------------------
(* What a context has taken in of a message. *)
Absorbed(c, t) ==
  /\ Counts8(c.total, Len(t))
  /\ Same(c.state, F180!Chained(t, Len(t) \div 64))
  /\ \A k \in 1 .. Len(t) % 64 : c.buffer[k] = t[64 * (Len(t) \div 64) + k]

(* Where the bytes of an input go: behind the k whole blocks and the bytes *)
(* that wait of the message before, which the input may fill up.           *)
Portioned(n, m, k, left, used, begin, whole, blocks, done) ==
  /\ k = n \div 64 /\ left = n % 64
  /\ used = (IF Fills(left, m) THEN 64 - left ELSE 0)
  /\ begin = (IF Fills(left, m) THEN 0 ELSE left)
  /\ whole = (IF Fills(left, m) THEN k + 1 ELSE k)
  /\ blocks = (m - used) \div 64
  /\ done = used + 64 * blocks

LEMMA Portions ==
  ASSUME NEW n \in Nat, NEW m \in Nat, NEW k, NEW left, NEW used, NEW begin, NEW whole, NEW blocks, NEW done,
         Portioned(n, m, k, left, used, begin, whole, blocks, done)
  PROVE  /\ k \in Nat /\ left \in 0 .. 63 /\ used \in 0 .. 63 /\ used <= m /\ whole \in Nat /\ begin \in 0 .. 63
         /\ blocks \in Nat /\ done \in Nat /\ done <= m
         /\ n = 64 * k + left
         /\ n + used = 64 * whole + begin
         /\ blocks > 0 => begin = 0
         /\ (n + m) \div 64 = whole + blocks
         /\ (n + m) % 64 = begin + (m - done)
         /\ begin + (m - done) \in 0 .. 63
  <1>0. /\ k = n \div 64 /\ left = n % 64
        /\ used = (IF Fills(left, m) THEN 64 - left ELSE 0)
        /\ begin = (IF Fills(left, m) THEN 0 ELSE left)
        /\ whole = (IF Fills(left, m) THEN k + 1 ELSE k)
        /\ blocks = (m - used) \div 64
        /\ done = used + 64 * blocks
    BY DEF Portioned
  <1>1. k \in Nat /\ left \in 0 .. 63 /\ n = 64 * k + left
    BY <1>0
  <1>2. CASE Fills(left, m)
    <2>1. left > 0 /\ m >= 64 - left /\ used = 64 - left /\ begin = 0 /\ whole = k + 1
      BY <1>0, <1>2 DEF Fills
    <2>2. used \in 0 .. 63 /\ used <= m /\ m - used \in Nat /\ n + used = 64 * whole
      BY <1>1, <2>1
    <2> DEFINE rest == m - used
    <2>3. blocks = rest \div 64 /\ rest \in Nat
      BY <1>0, <2>2
    <2> HIDE DEF rest
    <2>4. blocks \in Nat /\ rest - 64 * blocks \in 0 .. 63
      BY <2>3
    <2>5. m - done = rest - 64 * blocks
      BY <1>0, <1>1, <2>1, <2>4 DEF rest
    <2>6. n + m = 64 * (whole + blocks) + (m - done)
      BY <1>1, <2>1, <2>2, <2>4, <2>5 DEF rest
    <2>7. whole + blocks \in Nat /\ m - done \in 0 .. 63
      BY <1>1, <2>1, <2>4, <2>5
    <2> DEFINE all == n + m
               top == whole + blocks
               low == m - done
    <2>8. all \div 64 = top /\ all % 64 = low
      <3>1. all = 64 * top + low /\ top \in Nat /\ low \in 0 .. 63
        BY <2>6, <2>7
      <3> HIDE DEF all, top, low
      <3> QED
        BY <3>1
    <2>9. done \in Nat /\ done <= m
      <3>1. done = used + 64 * blocks
        BY <1>0
      <3> QED
        BY <2>2, <2>4, <2>7, <3>1
    <2> QED
      BY <1>1, <2>1, <2>2, <2>4, <2>7, <2>8, <2>9
  <1>3. CASE ~Fills(left, m) /\ left = 0
    <2>1. used = 0 /\ begin = 0 /\ whole = k /\ n = 64 * k
      BY <1>0, <1>1, <1>3
    <2>2. blocks = m \div 64 /\ done = 64 * blocks
      BY <1>0, <2>1
    <2>3. blocks \in Nat /\ m - done \in 0 .. 63 /\ done \in Nat /\ done <= m
      BY <2>2
    <2> DEFINE all == n + m
               top == whole + blocks
               low == m - done
    <2>4. all \div 64 = top /\ all % 64 = low
      <3>1. all = 64 * top + low /\ top \in Nat /\ low \in 0 .. 63
        BY <1>1, <2>1, <2>2, <2>3
      <3> HIDE DEF all, top, low
      <3> QED
        BY <3>1
    <2> QED
      BY <1>1, <1>3, <2>1, <2>3, <2>4
  <1>4. CASE ~Fills(left, m) /\ left # 0
    <2>1. used = 0 /\ begin = left /\ whole = k /\ m < 64 - left /\ left > 0
      BY <1>0, <1>1, <1>4 DEF Fills
    <2>2. blocks = 0 /\ done = 0
      BY <1>0, <1>1, <2>1
    <2> DEFINE all == n + m
               top == whole + blocks
               low == begin + (m - done)
    <2>3. all \div 64 = top /\ all % 64 = low /\ low \in 0 .. 63
      <3>1. all = 64 * top + low /\ top \in Nat /\ low \in 0 .. 63
        BY <1>1, <2>1, <2>2
      <3> HIDE DEF all, top, low
      <3> QED
        BY <3>1
    <2> QED
      BY <1>1, <2>1, <2>2, <2>3
  <1> QED
    BY <1>2, <1>3, <1>4

LEMMA ConcatAt ==
  ASSUME NEW s \in Seq(Bytes), NEW t \in Seq(Bytes)
  PROVE  /\ \A i \in 1 .. Len(s) : (s \o t)[i] = s[i]
         /\ \A i \in 1 .. Len(t) : (s \o t)[Len(s) + i] = t[i]
  <1> DEFINE n == Len(s)
             m == Len(t)
             z == s \o t
  <1>1. \A i \in 1 .. n + m : z[i] = IF i <= n THEN s[i] ELSE t[i - n]
    BY ConcatProperties
  <1>2. n \in Nat /\ m \in Nat
    OBVIOUS
  <1> HIDE DEF n, m, z
  <1>3. \A i \in 1 .. n : i \in 1 .. n + m /\ i <= n
    BY <1>2
  <1>4. \A i \in 1 .. m : n + i \in 1 .. n + m /\ ~(n + i <= n) /\ (n + i) - n = i
    BY <1>2
  <1>5. \A i \in 1 .. n : z[i] = s[i]
    BY <1>1, <1>3
  <1>6. \A i \in 1 .. m : z[n + i] = t[i]
    BY <1>1, <1>4
  <1> QED
    BY <1>5, <1>6 DEF n, m, z

(* What sha1_update() makes of a context that has taken in a message is    *)
(* one that has taken in the message and the input.                        *)
LEMMA UpdateAbsorbs ==
  ASSUME NEW c \in sha1_context, NEW t \in Seq(Bytes), NEW input \in Seq(Bytes), IsLength(Len(input)),
         Absorbed(c, t)
  PROVE  Absorbed(sha1_update(c, input), t \o input)
  <1> DEFINE n == Len(t)
             m == Len(input)
             z == t \o input
             k == n \div 64
             left == Waiting(c)
             filled == Fills(left, m)
             used == IF filled THEN 64 - left ELSE 0
             begin == IF filled THEN 0 ELSE left
             whole == IF filled THEN k + 1 ELSE k
             full == Copied(c.buffer, left, input, 1, used)
             first == IF filled THEN sha1_process(c.state, full, 1) ELSE c.state
             blocks == (m - used) \div 64
             done == used + 64 * blocks
             total == Counted(c.total, BitsOf(m, 32))
             state == Blocks(first, input, used + 1, blocks)
             buffer == Copied(full, begin, input, done + 1, m - done)
             after == [total |-> total, state |-> state, buffer |-> buffer]
  <1>1. n \in Nat /\ m \in Nat
    OBVIOUS
  <1>2. Len(z) = n + m
    BY ConcatProperties
  <1>3. (\A i \in 1 .. n : z[i] = t[i]) /\ \A i \in 1 .. m : z[n + i] = input[i]
    BY ConcatAt
  <1>4. /\ Counts8(c.total, n) /\ Same(c.state, F180!Chained(t, k))
        /\ \A i \in 1 .. n % 64 : c.buffer[i] = t[64 * k + i]
    BY DEF Absorbed
  <1>5. /\ c.total \in [0 .. 1 -> UInt32] /\ c.total[0] \in UInt32 /\ c.total[1] \in UInt32 /\ c.state \in State
    <2>1. c.total \in [0 .. 1 -> UInt32] /\ c.state \in [0 .. 4 -> UInt32]
      BY DEF sha1_context
    <2> DEFINE x == c.total
    <2> HIDE DEF x
    <2>2. x \in [0 .. 1 -> UInt32]
      BY <2>1 DEF x
    <2>3. x[0] \in UInt32 /\ x[1] \in UInt32
      BY <2>2
    <2> QED
      BY <2>1, <2>3 DEF x, State
  <1>6. left = n % 64
    BY <1>1, <1>4, <1>5, WaitingIsRest
  <1>7. input = <<>> => sha1_update(c, input) = c /\ z = t
    <2> SUFFICES ASSUME input = <<>>
                 PROVE  sha1_update(c, input) = c /\ z = t
      OBVIOUS
    <2>1. sha1_update(c, input) = c
      BY DEF sha1_update
    <2>2. t \o <<>> = t
      BY ConcatEmptySeq
    <2> QED
      BY <2>1, <2>2
  <1>8. input # <<>> => sha1_update(c, input) = after
    BY DEF sha1_update
  <1> HIDE DEF after
  <1> HIDE DEF left
  <1>9. /\ k = n \div 64
        /\ used = (IF Fills(left, m) THEN 64 - left ELSE 0)
        /\ begin = (IF Fills(left, m) THEN 0 ELSE left)
        /\ whole = (IF Fills(left, m) THEN k + 1 ELSE k)
        /\ blocks = (m - used) \div 64
        /\ done = used + 64 * blocks
    OBVIOUS
  <1> HIDE DEF n, m, z, k, used, begin, whole, blocks, done
  <1>10. /\ k \in Nat /\ left \in 0 .. 63 /\ used \in 0 .. 63 /\ used <= m /\ whole \in Nat /\ begin \in 0 .. 63
         /\ blocks \in Nat /\ done \in Nat /\ done <= m
         /\ n = 64 * k + left
         /\ n + used = 64 * whole + begin
         /\ blocks > 0 => begin = 0
         /\ (n + m) \div 64 = whole + blocks
         /\ (n + m) % 64 = begin + (m - done)
         /\ begin + (m - done) \in 0 .. 63
    <2>1. Portioned(n, m, k, left, used, begin, whole, blocks, done)
      BY <1>6, <1>9 DEF Portioned
    <2> QED
      BY <1>1, <2>1, Portions
  <1>a. /\ filled => used = 64 - left /\ begin = 0 /\ whole = k + 1
        /\ ~filled => used = 0 /\ begin = left /\ whole = k
        /\ done = used + 64 * blocks
    BY <1>9 DEF filled
  <1> HIDE DEF filled
  <1>11. Counts8(total, n + m)
    <2>1. IsLength(m)
      BY DEF m
    <2> QED
      BY <1>1, <1>4, <1>5, <2>1, CountsOn
  <1>12. ASSUME NEW q \in 1 .. left
         PROVE  c.buffer[q] = z[64 * k + q]
    <2>1. q \in 1 .. n % 64 /\ 64 * k + q \in 1 .. n
      BY <1>1, <1>6, <1>10
    <2> QED
      BY <1>3, <1>4, <2>1
  <1>13. Same(first, F180!Chained(z, whole))
    <2>1. F180!Chained(t, k) = F180!Chained(z, k)
      <3>1. Alike(t, z, k)
        <4>1. \A i \in 1 .. 64 * k : i \in 1 .. n
          BY <1>1, <1>10
        <4> QED
          BY <1>3, <4>1 DEF Alike
      <3> QED
        BY <1>10, <3>1, ChainedPrefix
    <2>2. CASE filled
      <3>1. ASSUME NEW q \in 1 .. 64
            PROVE  full[q] = z[64 * k + q]
        <4>1. full[q] = IF q \in left + 1 .. left + used THEN input[1 + q - left - 1] ELSE c.buffer[q]
          BY DEF Copied
        <4>2. CASE q \in 1 .. left
          <5>1. ~(q \in left + 1 .. left + used)
            BY <1>10, <4>2
          <5> QED
            BY <1>12, <4>1, <4>2, <5>1
        <4>3. CASE q \notin 1 .. left
          <5> DEFINE i == q - left
          <5>1. /\ q \in left + 1 .. left + used /\ 1 + q - left - 1 = i /\ i \in 1 .. m
                /\ n + i = 64 * k + q
            BY <1>1, <1>10, <1>a, <2>2, <4>3
          <5>2. full[q] = input[i]
            BY <4>1, <5>1
          <5> HIDE DEF i
          <5> QED
            BY <1>3, <5>1, <5>2
        <4> QED
          BY <4>2, <4>3
      <3> DEFINE p == 64 * k + 1
                 o == 1
      <3>2. SameBlock(full, o, z, p)
        <4> SUFFICES ASSUME NEW q \in 0 .. 63
                     PROVE  full[o + q] = z[p + q]
          BY DEF SameBlock
        <4> DEFINE e == o + q
        <4>1. e \in 1 .. 64 /\ p + q = 64 * k + e
          BY <1>10
        <4> HIDE DEF e, p, full
        <4>2. full[e] = z[64 * k + e]
          BY <3>1, <4>1
        <4> QED
          BY <4>1, <4>2 DEF e
      <3> DEFINE h == F180!Chained(z, k)
      <3>3. p \in Int /\ o \in Int /\ h \in Five
        BY <1>10, ChainedMakes
      <3>4. Same(c.state, h)
        BY <1>4, <2>1
      <3>5. F180!Chained(z, k + 1) = F180!Chain(h, z, p)
        BY <1>10, ChainedStep
      <3>6. first = sha1_process(c.state, full, o) /\ whole = k + 1
        BY <1>a, <2>2
      <3> HIDE DEF h, p, o, full, first
      <3>7. Same(sha1_process(c.state, full, o), F180!Chain(h, z, p))
        BY <1>5, <3>2, <3>3, <3>4, ProcessIsChain
      <3> QED
        BY <3>5, <3>6, <3>7
    <2>3. CASE ~filled
      BY <1>4, <1>a, <2>1, <2>3
    <2> QED
      BY <2>2, <2>3
  <1>14. first \in State
    BY <1>5, ProcessMakes
  <1>15. Same(state, F180!Chained(z, whole + blocks))
    <2> DEFINE start == used + 1
    <2>1. ASSUME NEW q \in 0 .. 64 * blocks - 1
          PROVE  input[start + q] = z[64 * whole + 1 + q]
      <3> DEFINE i == start + q
      <3>1. begin = 0
        BY <1>10
      <3>2. i \in 1 .. m /\ n + i = 64 * whole + 1 + q
        BY <1>1, <1>10, <1>a, <3>1
      <3> HIDE DEF i
      <3>3. z[n + i] = input[i]
        BY <1>3, <3>2
      <3> QED
        BY <3>2, <3>3 DEF i
    <2>2. start \in Int
      BY <1>10
    <2> HIDE DEF start, first
    <2>3. Same(Blocks(first, input, start, blocks), F180!Chained(z, whole + blocks))
      BY <1>10, <1>13, <1>14, <2>1, <2>2, BlocksAreChained
    <2> QED
      BY <2>3 DEF start
  <1>16. ASSUME NEW i \in 1 .. begin + (m - done)
         PROVE  buffer[i] = z[64 * (whole + blocks) + i]
    <2>0. i \in 1 .. 64
      BY <1>1, <1>10
    <2>1. buffer[i] = IF i \in begin + 1 .. begin + (m - done) THEN input[(done + 1) + i - begin - 1] ELSE full[i]
      BY <2>0 DEF Copied
    <2>2. CASE i \in 1 .. begin
      <3>1. ~filled /\ left = begin /\ blocks = 0 /\ whole = k /\ used = 0
        BY <1>10, <1>a, <2>2
      <3>2. full[i] = c.buffer[i]
        <4>1. full[i] = IF i \in left + 1 .. left + used THEN input[1 + i - left - 1] ELSE c.buffer[i]
          BY <2>0 DEF Copied
        <4>2. ~(i \in left + 1 .. left + used)
          BY <1>10, <3>1
        <4> QED
          BY <4>1, <4>2
      <3>3. c.buffer[i] = z[64 * k + i]
        BY <1>12, <2>2, <3>1
      <3>4. 64 * (whole + blocks) + i = 64 * k + i /\ ~(i \in begin + 1 .. begin + (m - done))
        BY <1>10, <2>2, <3>1
      <3> HIDE DEF buffer, full
      <3> QED
        BY <2>1, <3>2, <3>3, <3>4
    <2>3. CASE i \notin 1 .. begin
      <3> DEFINE j == done + i - begin
      <3>1. /\ i \in begin + 1 .. begin + (m - done) /\ (done + 1) + i - begin - 1 = j
            /\ j \in 1 .. m /\ n + j = 64 * (whole + blocks) + i
        BY <1>1, <1>10, <1>a, <2>3
      <3> HIDE DEF j, buffer, full
      <3>2. buffer[i] = input[j]
        BY <2>1, <3>1
      <3>3. z[n + j] = input[j]
        BY <1>3, <3>1
      <3> QED
        BY <3>1, <3>2, <3>3
    <2> QED
      BY <2>2, <2>3
  <1> HIDE DEF total, state, buffer
  <1>17. Absorbed(after, z)
    <2>1. after.total = total /\ after.state = state /\ after.buffer = buffer
      BY DEF after
    <2>2. Counts8(after.total, Len(z))
      BY <1>2, <1>11, <2>1
    <2>3. Same(after.state, F180!Chained(z, Len(z) \div 64))
      BY <1>2, <1>10, <1>15, <2>1
    <2>4. \A i \in 1 .. Len(z) % 64 : after.buffer[i] = z[64 * (Len(z) \div 64) + i]
      <3>1. \A i \in 1 .. Len(z) % 64 : buffer[i] = z[64 * (Len(z) \div 64) + i]
        <4>1. Len(z) \div 64 = whole + blocks /\ Len(z) % 64 = begin + (m - done)
          BY <1>2, <1>10
        <4> QED
          BY <1>16, <4>1
      <3> QED
        BY <2>1, <3>1
    <2> QED
      BY <2>2, <2>3, <2>4 DEF Absorbed
  <1>18. Absorbed(sha1_update(c, input), z)
    BY <1>7, <1>8, <1>17
  <1> QED
    BY <1>18 DEF z

LEMMA NoBits == BitsOf(0, 61) = {}
  <1> DEFINE w == 61
             z == 0
  <1>1. w \in Nat /\ z \in Nat
    OBVIOUS
  <1> HIDE DEF w, z
  <1>2. PICK q : Quotients(q, z, w) /\ BitsOf(z, w) = {i \in 0 .. w - 1 : q[i] % 2 = 1}
    BY <1>1, Halves
  <1> DEFINE T == {i \in 0 .. w : q[i] = 0}
  <1>3. 0 \in T
    BY <1>1, <1>2 DEF Quotients, z
  <1>4. \A i \in 0 .. w - 1 : i \in T => i + 1 \in T
    <2> SUFFICES ASSUME NEW i \in 0 .. w - 1, i \in T
                 PROVE  i + 1 \in T
      OBVIOUS
    <2>1. q[i + 1] = q[i] \div 2
      BY <1>2 DEF Quotients
    <2>2. i + 1 \in 0 .. w /\ q[i] = 0 /\ 0 \div 2 = 0
      BY <1>1
    <2> QED
      BY <2>1, <2>2
  <1>5. \A i \in 0 .. w : i \in T
    <2> HIDE DEF T
    <2>1. 0 \in Nat
      OBVIOUS
    <2> QED
      BY <1>1, <1>3, <1>4, <2>1, Upward
  <1>6. \A i \in 0 .. w - 1 : q[i] = 0
    <2>1. \A i \in 0 .. w - 1 : i \in 0 .. w
      BY <1>1
    <2> QED
      BY <1>5, <2>1
  <1>7. 0 % 2 # 1
    OBVIOUS
  <1>8. BitsOf(z, w) = {}
    BY <1>2, <1>6, <1>7
  <1> QED
    BY <1>8 DEF z, w

LEMMA StartAbsorbs == Absorbed(sha1_starts, <<>>)
  <1>1. Len(<<>>) = 0 /\ 0 \div 64 = 0 /\ 0 % 64 = 0 /\ 1 .. 0 = {}
    OBVIOUS
  <1>2. Counts8(sha1_starts.total, 0)
    <2>1. sha1_starts.total[0] = {} /\ sha1_starts.total[1] = {}
      BY DEF sha1_starts
    <2>2. {i + 3 : i \in BitsOf(0, 61)} = {}
      BY NoBits
    <2>3. Joined({}, {}) = {}
      BY DEF Joined
    <2> QED
      BY <2>1, <2>2, <2>3 DEF Counts8
  <1>3. Same(sha1_starts.state, F180!Start)
    <2> SUFFICES ASSUME NEW k \in 1 .. 5
                 PROVE  F180!Start[k] = sha1_starts.state[k - 1]
      BY DEF Same
    <2>1. k - 1 \in 0 .. 4 /\ (k - 1) + 1 = k
      OBVIOUS
    <2>2. sha1_starts.state[k - 1] = InitialState[k]
      BY <2>1 DEF sha1_starts
    <2> QED
      BY <2>2, StartMakes
  <1> QED
    BY <1>1, <1>2, <1>3, ChainedNone DEF Absorbed

(* The context has the type it is declared with, and has taken in the text. *)
AbsorbedOK == TypeOK /\ Absorbed(ctx, text)

LEMMA AbsorbedAlways == Spec => []AbsorbedOK
  <1>1. Init => AbsorbedOK
    <2> SUFFICES ASSUME Init
                 PROVE  AbsorbedOK
      OBVIOUS
    <2>1. TypeOK
      BY StartsMake, BoundAssumption DEF Init, TypeOK
    <2>2. Absorbed(ctx, text)
      BY StartAbsorbs DEF Init
    <2> QED
      BY <2>1, <2>2 DEF AbsorbedOK
  <1>2. TypeOK /\ AbsorbedOK /\ TypeOK' /\ [Next]_vars => AbsorbedOK'
    <2> SUFFICES ASSUME TypeOK, AbsorbedOK, TypeOK', [Next]_vars
                 PROVE  AbsorbedOK'
      OBVIOUS
    <2>1. ASSUME NEW piece \in Pieces, Feed(piece)
          PROVE  Absorbed(ctx', text')
      <3>1. piece \in Seq(Bytes) /\ IsLength(Len(piece))
        BY PiecesAssumption
      <3>2. ctx \in sha1_context /\ text \in Seq(Bytes)
        BY DEF TypeOK
      <3>3. Absorbed(ctx, text)
        BY DEF AbsorbedOK
      <3>4. Absorbed(sha1_update(ctx, piece), text \o piece)
        BY <3>1, <3>2, <3>3, UpdateAbsorbs
      <3>5. ctx' = sha1_update(ctx, piece) /\ text' = text \o piece
        BY <2>1 DEF Feed
      <3> QED
        BY <3>4, <3>5
    <2>2. ASSUME UNCHANGED vars
          PROVE  Absorbed(ctx', text')
      <3>1. ctx' = ctx /\ text' = text
        BY <2>2 DEF vars
      <3> QED
        BY <3>1 DEF AbsorbedOK
    <2>3. Absorbed(ctx', text')
      BY <2>1, <2>2 DEF Next
    <2> QED
      BY <2>3 DEF AbsorbedOK
  <1> QED
    BY <1>1, <1>2, ContextTyped, PTL DEF Spec

(* However a message is cut into pieces, the context of sha1.c has taken   *)
(* in as many whole blocks as FIPS 180-1 would, and holds the rest and the *)
(* number of bits: sha1_update() and its eighty rounds, the ring of sixteen *)
(* words, the registers that change places and the carry of the counter    *)
(* (sha1.c:67-230).                                                        *)
THEOREM ContextAbsorbs == Spec => []Absorbs
  <1>1. AbsorbedOK => Absorbs
    <2> SUFFICES ASSUME AbsorbedOK
                 PROVE  Absorbs
      OBVIOUS
    <2> DEFINE whole == Len(text) \div 64
               h == F180!Chained(text, whole)
    <2>1. /\ Counts8(ctx.total, Len(text)) /\ Same(ctx.state, h)
          /\ \A k \in 1 .. Len(text) % 64 : ctx.buffer[k] = text[64 * whole + k]
      BY DEF AbsorbedOK, Absorbed
    <2>2. Joined(ctx.total[0], ctx.total[1]) = {i + 3 : i \in BitsOf(Len(text), 61)}
      BY <2>1 DEF Counts8
    <2>3. ASSUME NEW k \in 0 .. 4
          PROVE  ctx.state[k] = h[k + 1]
      <3>1. k + 1 \in 1 .. 5 /\ (k + 1) - 1 = k
        OBVIOUS
      <3> HIDE DEF h
      <3> QED
        BY <2>1, <3>1 DEF Same
    <2> QED
      BY <2>1, <2>2, <2>3 DEF Absorbs
  <1> QED
    BY <1>1, AbsorbedAlways, PTL

(* What sha1_finish() appends to the message is its padding. *)
LEMMA PaddingIs ==
  ASSUME NEW t \in Seq(Bytes)
  PROVE  LET pad == SubSeq(sha1_padding, 1, Padded(Len(t) % 64))
         IN  /\ pad \in Seq(Bytes) /\ IsLength(Len(pad))
             /\ (t \o pad) \o F180!LengthInBits(Len(t)) = F180!PaddedMessage(t)
             /\ (Len(t) + Len(pad) + 8) % 64 = 0
  <1> DEFINE n == Len(t)
             r == n % 64
             p == Padded(r)
             pad == SubSeq(sha1_padding, 1, p)
             zeros == (119 - r) % 64
             tail == [i \in 1 .. zeros |-> 0]
             head == <<128>>
  <1>0. n \in Nat
    OBVIOUS
  <1> HIDE DEF n
  <1>1. n \in Nat /\ r \in 0 .. 63
    BY <1>0
  <1>2. p \in 1 .. 64 /\ zeros = p - 1
    <2>1. CASE r < 56
      <3>1. p = 56 - r
        BY <2>1 DEF Padded
      <3>2. (119 - r) % 64 = 55 - r
        BY <1>1, <2>1
      <3> HIDE DEF p, zeros, r
      <3>3. zeros = 55 - r
        BY <3>2 DEF zeros
      <3> QED
        BY <1>1, <2>1, <3>1, <3>3
    <2>2. CASE ~(r < 56)
      <3>1. p = 120 - r
        BY <2>2 DEF Padded
      <3>2. (119 - r) % 64 = 119 - r
        BY <1>1, <2>2
      <3> HIDE DEF p, zeros, r
      <3>3. zeros = 119 - r
        BY <3>2 DEF zeros
      <3> QED
        BY <1>1, <2>2, <3>1, <3>3
    <2> QED
      BY <2>1, <2>2
  <1>3. (n + p + 8) % 64 = 0
    <2> DEFINE k == n \div 64
    <2>1. n = 64 * k + r /\ k \in Nat
      BY <1>1
    <2>2. r + p + 8 = 64 \/ r + p + 8 = 128
      BY <1>1 DEF Padded
    <2> HIDE DEF r, k, p
    <2> QED
      BY <1>1, <1>2, <2>1, <2>2
  <1> HIDE DEF r, p, zeros
  <1>4. \A i \in 1 .. 64 : sha1_padding[i] = (IF i = 1 THEN 128 ELSE 0)
    BY DEF sha1_padding
  <1>5. pad \in Seq(Bytes) /\ Len(pad) = p /\ \A i \in 1 .. p : pad[i] = (IF i = 1 THEN 128 ELSE 0)
    <2>1. \A i \in 1 .. p : sha1_padding[i] = (IF i = 1 THEN 128 ELSE 0)
      <3>1. \A i \in 1 .. p : i \in 1 .. 64
        BY <1>2
      <3> QED
        BY <1>4, <3>1
    <2>2. \A i \in 1 .. p : sha1_padding[i] \in Bytes
      BY <2>1 DEF Bytes
    <2>3. 1 \in Int /\ p \in Int /\ 1 <= p /\ p - 1 + 1 = p
      BY <1>2
    <2>4. /\ pad \in Seq(Bytes) /\ Len(pad) = (IF 1 <= p THEN p - 1 + 1 ELSE 0)
          /\ \A i \in 1 .. p - 1 + 1 : pad[i] = sha1_padding[1 + i - 1]
      BY <2>2, <2>3, SubSeqProperties
    <2>5. \A i \in 1 .. p : 1 + i - 1 = i
      BY <2>3
    <2> HIDE DEF pad
    <2> QED
      BY <2>1, <2>3, <2>4, <2>5
  <1>6. IsLength(p)
    <2>1. p \div 65536 = 0
      BY <1>2
    <2> QED
      BY <2>1, SMT DEF IsLength
  <1>7. head \in Seq(Bytes) /\ Len(head) = 1 /\ head[1] = 128
    BY DEF Bytes
  <1>8. tail \in Seq(Bytes) /\ Len(tail) = zeros /\ \A i \in 1 .. zeros : tail[i] = 0
    <2>1. zeros \in Nat /\ 0 \in Bytes
      BY <1>2 DEF Bytes
    <2> QED
      BY <2>1
  <1> HIDE DEF pad, head, tail
  <1>9. pad = head \o tail
    <2> DEFINE u == head \o tail
    <2>1. u \in Seq(Bytes) /\ Len(u) = 1 + zeros
      <3>1. head \in Seq(Bytes) /\ tail \in Seq(Bytes)
        BY <1>7, <1>8
      <3>2. u \in Seq(Bytes) /\ Len(u) = Len(head) + Len(tail)
        BY <3>1, ConcatProperties
      <3> HIDE DEF u
      <3> QED
        BY <1>7, <1>8, <3>2
    <2>2. u[1] = head[1] /\ \A i \in 1 .. zeros : u[1 + i] = tail[i]
      <3>1. (\A i \in 1 .. Len(head) : u[i] = head[i]) /\ \A i \in 1 .. Len(tail) : u[Len(head) + i] = tail[i]
        <4>1. head \in Seq(Bytes) /\ tail \in Seq(Bytes)
          BY <1>7, <1>8
        <4> QED
          BY <4>1, ConcatAt
      <3> HIDE DEF u
      <3> QED
        BY <1>7, <1>8, <3>1
    <2> HIDE DEF u
    <2>3. Len(u) = Len(pad)
      BY <1>2, <1>5, <2>1
    <2>4. ASSUME NEW i \in 1 .. Len(pad)
          PROVE  pad[i] = u[i]
      <3>1. i \in 1 .. p /\ pad[i] = (IF i = 1 THEN 128 ELSE 0)
        BY <1>5
      <3>2. CASE i = 1
        BY <1>7, <2>2, <3>1, <3>2
      <3>3. CASE i # 1
        <4>1. i - 1 \in 1 .. zeros /\ 1 + (i - 1) = i
          BY <1>2, <3>1, <3>3
        <4> QED
          BY <1>8, <2>2, <3>1, <3>3, <4>1
      <3> QED
        BY <3>2, <3>3
    <2>5. pad = u
      BY <1>5, <2>1, <2>3, <2>4, SeqEqual
    <2> QED
      BY <2>5 DEF u
  <1>10. t \o pad = (t \o head) \o tail
    <2>1. head \in Seq(Bytes) /\ tail \in Seq(Bytes)
      BY <1>7, <1>8
    <2>2. (t \o head) \o tail = t \o (head \o tail)
      BY <2>1, ConcatAssociative
    <2> QED
      BY <1>9, <2>2
  <1>11. F180!PaddedMessage(t) = ((t \o head) \o tail) \o F180!LengthInBits(n)
    BY DEF F180!PaddedMessage, head, tail, zeros, r, n
  <1> QED
    BY <1>3, <1>5, <1>6, <1>10, <1>11 DEF pad, p, r, n

LEMMA SameFlat == \A s : F180!FlattenSeq(s) = FlattenSeq(s)
  BY DEF F180!FlattenSeq, FlattenSeq

(* What sha1_finish() makes of a context that has taken in a message is    *)
(* the digest of the message.                                              *)
LEMMA FinishIsDigest ==
  ASSUME NEW c \in sha1_context, NEW t \in Seq(Bytes), Absorbed(c, t)
  PROVE  sha1_finish(c) = F180!Digest(t)
  <1> DEFINE n == Len(t)
             pad == SubSeq(sha1_padding, 1, Padded(n % 64))
             msglen == F180!LengthInBits(n)
             padded == sha1_update(c, pad)
             last == sha1_update(padded, msglen)
             message == F180!PaddedMessage(t)
             h == F180!Chained(message, Len(message) \div 64)
  <1>1. n \in Nat /\ Counts8(c.total, n)
    BY DEF Absorbed
  <1>2. c.total[0] \in UInt32 /\ c.total[1] \in UInt32
    <2> DEFINE x == c.total
    <2>1. x \in [0 .. 1 -> UInt32]
      BY DEF sha1_context
    <2> HIDE DEF x
    <2>2. x[0] \in UInt32 /\ x[1] \in UInt32
      BY <2>1
    <2> QED
      BY <2>2 DEF x
  <1>3. Waiting(c) = n % 64
    <2> HIDE DEF n
    <2> QED
      BY <1>1, <1>2, WaitingIsRest
  <1>4. PUT_UINT32(c.total[1]) \o PUT_UINT32(c.total[0]) = msglen
    <2> HIDE DEF n
    <2>1. Joined(c.total[0], c.total[1]) = {i + 3 : i \in BitsOf(n, 61)}
      BY <1>1 DEF Counts8
    <2> QED
      BY <1>1, <1>2, <2>1, LengthBytes
  <1>5. /\ pad \in Seq(Bytes) /\ IsLength(Len(pad))
        /\ (t \o pad) \o msglen = message
        /\ (n + Len(pad) + 8) % 64 = 0
    BY PaddingIs
  <1>6. msglen \in Seq(Bytes) /\ Len(msglen) = 8
    <2> DEFINE s == PUT_UINT32(c.total[1])
               u == PUT_UINT32(c.total[0])
    <2>1. s \in Seq(Bytes) /\ Len(s) = 4 /\ u \in Seq(Bytes) /\ Len(u) = 4
      BY PutMakes
    <2>2. s \o u = msglen
      BY <1>4
    <2> HIDE DEF s, u, msglen
    <2>3. s \o u \in Seq(Bytes) /\ Len(s \o u) = Len(s) + Len(u)
      BY <2>1, ConcatProperties
    <2> QED
      BY <2>1, <2>2, <2>3
  <1>7. IsLength(Len(msglen))
    <2>1. 8 \div 65536 = 0
      BY SMT
    <2> QED
      BY <1>6, <2>1, SMT DEF IsLength
  <1>8. sha1_finish(c) = FlattenSeq([i \in 1 .. 5 |-> PUT_UINT32(last.state[i - 1])])
    BY <1>3, <1>4 DEF sha1_finish
  <1>9. F180!Digest(t) = FlattenSeq([k \in 1 .. 5 |-> PUT_UINT32(h[k])])
    BY SameFlat, SameWords DEF F180!Digest
  <1> HIDE DEF pad, msglen, message
  <1>10. padded \in sha1_context /\ Absorbed(padded, t \o pad)
    BY <1>5, UpdateMakes, UpdateAbsorbs
  <1>11. t \o pad \in Seq(Bytes) /\ Len(t \o pad) = n + Len(pad)
    BY <1>5, ConcatProperties
  <1>12. Absorbed(last, (t \o pad) \o msglen)
    <2> HIDE DEF padded
    <2> QED
      BY <1>6, <1>7, <1>10, <1>11, UpdateAbsorbs
  <1> HIDE DEF last
  <1>13. Same(last.state, h)
    BY <1>5, <1>12 DEF Absorbed
  <1> HIDE DEF h
  <1>14. \A i \in 1 .. 5 : PUT_UINT32(last.state[i - 1]) = PUT_UINT32(h[i])
    BY <1>13 DEF Same
  <1>15. [i \in 1 .. 5 |-> PUT_UINT32(last.state[i - 1])] = [k \in 1 .. 5 |-> PUT_UINT32(h[k])]
    BY <1>14
  <1> QED
    BY <1>8, <1>9, <1>15

(* However a message is cut into pieces, sha1_update() and sha1_finish()   *)
(* give the digest that FIPS 180-1 gives the whole of it (sha1.c:67-259).  *)
THEOREM DigestIsWhole == Spec => []StreamsAsWhole
  <1>1. AbsorbedOK => StreamsAsWhole
    BY FinishIsDigest DEF AbsorbedOK, TypeOK, StreamsAsWhole
  <1> QED
    BY <1>1, AbsorbedAlways, PTL

-----------------------------------------------------------------------------
(* The digits of a digest. *)

(* A flattened sequence, part by part. *)
AreSeqs(X, s, m) == m >= 1 /\ Len(s) = m /\ \A i \in 1 .. m : s[i] \in Seq(X)

FlattensBy(f, s, m) == f[1] = s[1] /\ \A i \in 1 .. m - 1 : f[i + 1] = f[i] \o s[i + 1]

LEMMA FlatRuns ==
  ASSUME NEW X, NEW m \in Nat, NEW s, AreSeqs(X, s, m)
  PROVE  \E f : FlattensBy(f, s, m) /\ FlattenSeq(s) = f[m]
  <1> DEFINE Then(x, i) == x \o s[i]
             first == s[1]
             n == m - 1
             step == [t \in 1 .. n |-> [x \in Seq(X) |-> Then(x, t + 1)]]
             Body(h) == [i \in 1 .. m |-> IF i = 1 THEN s[i] ELSE Then(h[i - 1], i)]
             flatten == CHOOSE h : h = Body(h)
  <1>0. m >= 1 /\ Len(s) = m /\ \A i \in 1 .. m : s[i] \in Seq(X)
    BY DEF AreSeqs
  <1>1. FlattenSeq(s) = flatten[m]
    <2>1. Len(s) # 0
      BY <1>0
    <2> QED
      BY <1>0, <2>1 DEF FlattenSeq
  <1>2. \A x \in Seq(X), i \in 1 .. m : Then(x, i) \in Seq(X)
    BY <1>0, ConcatProperties
  <1>3. n \in Nat /\ first \in Seq(X) /\ m = n + 1
    <2>1. 1 \in 1 .. m
      BY <1>0
    <2> QED
      BY <1>0, <2>1
  <1>a. \A x, i : Then(x, i) = x \o s[i]
    OBVIOUS
  <1> HIDE DEF Then, n
  <1>4. step \in [1 .. n -> [Seq(X) -> Seq(X)]]
    <2>1. \A t \in 1 .. n : t + 1 \in 1 .. m
      BY <1>3
    <2> QED
      BY <1>2, <2>1
  <1>5. PICK g \in [0 .. n -> Seq(X)] : g[0] = first /\ \A t \in 1 .. n : g[t] = step[t][g[t - 1]]
    <2> DEFINE Y == Seq(X)
    <2>1. step \in Steps(Y, n) /\ first \in Y
      BY <1>3, <1>4 DEF Steps
    <2> HIDE DEF step, Y, first
    <2>2. \E g : Leaves(g, Y, n, first, step)
      BY <1>3, <2>1, Iterates
    <2> QED
      BY <2>2 DEF Leaves, Y
  <1> DEFINE f == [i \in 1 .. m |-> g[i - 1]]
  <1>6. \A t \in 1 .. n : g[t] = Then(g[t - 1], t + 1)
    <2> SUFFICES ASSUME NEW t \in 1 .. n
                 PROVE  g[t] = Then(g[t - 1], t + 1)
      OBVIOUS
    <2>1. t - 1 \in 0 .. n
      BY <1>3
    <2>2. g[t - 1] \in Seq(X)
      BY <2>1
    <2> QED
      BY <1>5, <2>2
  <1>7. f = Body(f)
    <2>1. ASSUME NEW i \in 1 .. m, i # 1
          PROVE  f[i] = Then(f[i - 1], i)
      <3> DEFINE t == i - 1
      <3>1. t \in 1 .. n /\ t + 1 = i /\ t \in 1 .. m /\ i \in 1 .. m
        BY <1>3, <2>1
      <3> HIDE DEF t
      <3>2. g[t] = Then(g[t - 1], t + 1)
        BY <1>6, <3>1
      <3>3. f[i] = g[t] /\ f[t] = g[t - 1]
        BY <3>1 DEF t
      <3>4. f[i] = Then(f[t], i)
        BY <3>1, <3>2, <3>3
      <3> QED
        BY <3>4 DEF t
    <2>2. f[1] = s[1]
      <3>1. 1 \in 1 .. m /\ 1 - 1 = 0
        BY <1>3
      <3> QED
        BY <1>5, <3>1
    <2>3. \A i \in 1 .. m : f[i] = IF i = 1 THEN s[i] ELSE Then(f[i - 1], i)
      BY <2>1, <2>2
    <2>4. f = [i \in 1 .. m |-> f[i]]
      OBVIOUS
    <2> HIDE DEF f
    <2> QED
      BY <2>3, <2>4
  <1>8. flatten = Body(flatten)
    <2> HIDE DEF Body, f
    <2> QED
      BY <1>7
  <1> HIDE DEF flatten
  <1>9. flatten[1] = s[1]
    <2>1. 1 \in 1 .. m
      BY <1>3
    <2> QED
      BY <1>8, <2>1
  <1>10. \A i \in 1 .. m - 1 : flatten[i + 1] = flatten[i] \o s[i + 1]
    <2> SUFFICES ASSUME NEW i \in 1 .. m - 1
                 PROVE  flatten[i + 1] = flatten[i] \o s[i + 1]
      OBVIOUS
    <2>1. i + 1 \in 1 .. m /\ i + 1 # 1 /\ (i + 1) - 1 = i
      OBVIOUS
    <2>2. flatten[i + 1] = Then(flatten[(i + 1) - 1], i + 1)
      BY <1>8, <2>1
    <2> QED
      BY <1>a, <2>1, <2>2
  <1> QED
    BY <1>1, <1>9, <1>10 DEF FlattensBy

(* Parts of one length, and where each of them begins. *)
Parts(X, s, m, w, off) ==
  /\ m \in Nat /\ w \in Nat /\ m >= 1 /\ Len(s) = m
  /\ \A i \in 1 .. m : s[i] \in Seq(X) /\ Len(s[i]) = w
  /\ off \in [0 .. m -> Nat] /\ off[0] = 0
  /\ \A i \in 0 .. m - 1 : off[i + 1] = off[i] + w

Flattened(f, X, s, m, w, off) ==
  /\ f \in Seq(X) /\ Len(f) = off[m]
  /\ \A i \in 0 .. m - 1 : \A q \in 1 .. w : f[off[i] + q] = s[i + 1][q]

LEMMA FlatParts ==
  ASSUME NEW X, NEW s, NEW m, NEW w, NEW off, Parts(X, s, m, w, off)
  PROVE  Flattened(FlattenSeq(s), X, s, m, w, off)
  <1>0. m \in Nat /\ w \in Nat
    BY DEF Parts
  <1>1. /\ m >= 1 /\ Len(s) = m
        /\ \A i \in 1 .. m : s[i] \in Seq(X) /\ Len(s[i]) = w
        /\ off \in [0 .. m -> Nat] /\ off[0] = 0
        /\ \A i \in 0 .. m - 1 : off[i + 1] = off[i] + w
    BY DEF Parts
  <1> USE <1>0
  <1>2. PICK f : FlattensBy(f, s, m) /\ FlattenSeq(s) = f[m]
    <2>1. AreSeqs(X, s, m)
      BY <1>1 DEF AreSeqs
    <2> QED
      BY <2>1, FlatRuns
  <1> DEFINE Whole(k) == /\ f[k] \in Seq(X) /\ Len(f[k]) = off[k]
                         /\ \A i \in 0 .. k - 1 : off[i] + w <= off[k]
                         /\ \A i \in 0 .. k - 1 : \A q \in 1 .. w : f[k][off[i] + q] = s[i + 1][q]
             T == {k \in 1 .. m : Whole(k)}
  <1>3. \A i \in 0 .. m : off[i] \in Nat
    BY <1>1
  <1>4. 1 \in T
    <2>1. 1 \in 1 .. m /\ 0 \in 0 .. m - 1 /\ 0 + 1 = 1 /\ 0 + w = w
      BY <1>1
    <2>2. off[1] = w
      BY <1>1, <2>1
    <2>3. f[1] \in Seq(X) /\ Len(f[1]) = off[1]
      BY <1>1, <1>2, <2>1, <2>2 DEF FlattensBy
    <2>4. \A i \in 0 .. 1 - 1 : i = 0
      OBVIOUS
    <2>5. \A q \in 1 .. w : 0 + q = q
      OBVIOUS
    <2>6. \A i \in 0 .. 1 - 1 : off[i] + w <= off[1]
      BY <1>1, <2>1, <2>2, <2>4
    <2>7. \A i \in 0 .. 1 - 1 : \A q \in 1 .. w : f[1][off[i] + q] = s[i + 1][q]
      BY <1>1, <1>2, <2>1, <2>4, <2>5 DEF FlattensBy
    <2> QED
      BY <2>1, <2>3, <2>6, <2>7
  <1>5. \A k \in 1 .. m - 1 : k \in T => k + 1 \in T
    <2> SUFFICES ASSUME NEW k \in 1 .. m - 1, k \in T
                 PROVE  k + 1 \in T
      OBVIOUS
    <2> DEFINE a == f[k]
               b == s[k + 1]
               c == f[k + 1]
               end == off[k]
    <2>1. k + 1 \in 1 .. m /\ k \in 0 .. m - 1 /\ k \in 0 .. m /\ k \in Nat
      OBVIOUS
    <2>2. Whole(k)
      OBVIOUS
    <2>3. c = a \o b /\ b \in Seq(X) /\ Len(b) = w /\ a \in Seq(X) /\ Len(a) = end
      BY <1>1, <1>2, <2>1, <2>2 DEF FlattensBy
    <2>4. off[k + 1] = end + w /\ end \in Nat
      BY <1>1, <1>3, <2>1
    <2>5. ASSUME NEW i \in 0 .. (k + 1) - 1
          PROVE  i = k \/ i \in 0 .. k - 1
      OBVIOUS
    <2>6. ASSUME NEW i \in 0 .. (k + 1) - 1
          PROVE  off[i] + w <= off[k + 1]
      <3>1. CASE i = k
        BY <2>4, <3>1
      <3>2. CASE i \in 0 .. k - 1
        <4>1. off[i] + w <= end
          BY <2>2, <3>2
        <4>2. i \in 0 .. m
          BY <3>2
        <4>3. off[i] \in Nat
          BY <1>3, <4>2
        <4> QED
          BY <2>4, <4>1, <4>3
      <3> QED
        BY <2>5, <3>1, <3>2
    <2> HIDE DEF a, b, c, end
    <2>7. /\ c \in Seq(X) /\ Len(c) = end + w
          /\ \A j \in 1 .. end + w : c[j] = IF j <= end THEN a[j] ELSE b[j - end]
      <3>1. /\ a \o b \in Seq(X) /\ Len(a \o b) = Len(a) + Len(b)
            /\ \A j \in 1 .. Len(a) + Len(b) : (a \o b)[j] = IF j <= Len(a) THEN a[j] ELSE b[j - Len(a)]
        BY <2>3, ConcatProperties
      <3> QED
        BY <2>3, <3>1
    <2>8. ASSUME NEW i \in 0 .. (k + 1) - 1, NEW q \in 1 .. w
          PROVE  c[off[i] + q] = s[i + 1][q]
      <3> DEFINE o == off[i]
                 j == o + q
      <3>1. CASE i = k
        <4>1. j = end + q /\ j \in 1 .. end + w /\ ~(j <= end) /\ j - end = q
          BY <2>4, <3>1 DEF end
        <4> HIDE DEF j, o
        <4>2. c[j] = b[q]
          BY <2>7, <4>1
        <4> QED
          BY <3>1, <4>2 DEF b, j, o
      <3>2. CASE i \in 0 .. k - 1
        <4>1. o + w <= end
          BY <2>2, <3>2 DEF end
        <4>2. i \in 0 .. m
          BY <3>2
        <4>3. o \in Nat
          BY <1>3, <4>2
        <4>4. a[o + q] = s[i + 1][q]
          BY <2>2, <3>2 DEF a
        <4> HIDE DEF o
        <4>5. j \in 1 .. end + w /\ j <= end
          BY <2>4, <4>1, <4>3
        <4>6. c[j] = a[j]
          BY <2>7, <4>5
        <4> QED
          BY <4>4, <4>6 DEF o
      <3> QED
        BY <2>5, <3>1, <3>2
    <2>9. Whole(k + 1)
      <3>1. c \in Seq(X) /\ Len(c) = off[k + 1]
        BY <2>4, <2>7
      <3> QED
        BY <2>6, <2>8, <3>1 DEF c
    <2> HIDE DEF Whole
    <2> QED
      BY <2>1, <2>9
  <1>6. Whole(m)
    <2> HIDE DEF T
    <2>1. 1 \in Nat /\ m \in 1 .. m
      BY <1>1
    <2>2. m \in T
      BY <1>4, <1>5, <2>1, Upward
    <2> QED
      BY <2>2 DEF T
  <1> QED
    BY <1>2, <1>6 DEF Flattened

LEMMA DigestMakes ==
  ASSUME NEW h
  PROVE  LET d == FlattenSeq([k \in 1 .. 5 |-> PUT_UINT32(h[k])]) IN d \in Seq(Bytes) /\ Len(d) = 20
  <1> DEFINE s == [k \in 1 .. 5 |-> PUT_UINT32(h[k])]
             m == 5
             w == 4
             off == [i \in 0 .. m |-> 4 * i]
             X == Bytes
  <1>1. \A k \in 1 .. 5 : s[k] \in Seq(Bytes) /\ Len(s[k]) = 4
    BY PutMakes
  <1>2. m \in Nat /\ w \in Nat /\ Len(s) = m
    OBVIOUS
  <1> HIDE DEF s
  <1>3. off \in [0 .. m -> Nat] /\ off[0] = 0 /\ \A i \in 0 .. m - 1 : off[i + 1] = off[i] + w
    OBVIOUS
  <1>4. off[m] = 20
    OBVIOUS
  <1>5. Parts(X, s, m, w, off)
    <2>1. \A i \in 1 .. m : s[i] \in Seq(X) /\ Len(s[i]) = w
      BY <1>1
    <2>2. m >= 1
      OBVIOUS
    <2> HIDE DEF off, m, w
    <2> QED
      BY <1>2, <1>3, <2>1, <2>2 DEF Parts
  <1> HIDE DEF off, m, w, X
  <1>6. FlattenSeq(s) \in Seq(X) /\ Len(FlattenSeq(s)) = off[m]
    <2>1. Flattened(FlattenSeq(s), X, s, m, w, off)
      BY <1>5, FlatParts
    <2> QED
      BY <2>1 DEF Flattened
  <1> QED
    BY <1>4, <1>6 DEF s, X

(* nr2char() is the digit. *)
LEMMA DigitChars ==
  ASSUME NEW n \in 0 .. 15
  PROVE  nr2char(n) = [d \in 0 .. 15 |-> IF d < 10 THEN 48 + d ELSE 87 + d][n] /\ nr2char(n) \in Nat
  BY DEF nr2char

(* Two digits for each byte, the high one first. *)
LEMMA PairsAreDigits ==
  ASSUME NEW bytes \in Seq(Bytes), Len(bytes) = 20
  PROVE  FlattenSeq([i \in 1 .. 20 |-> <<nr2char(bytes[i] \div 16), nr2char(bytes[i] % 16)>>]) = Digits(bytes)
  <1> DEFINE s == [i \in 1 .. 20 |-> <<nr2char(bytes[i] \div 16), nr2char(bytes[i] % 16)>>]
             m == 20
             w == 2
             off == [i \in 0 .. m |-> 2 * i]
             X == Nat
             code == [d \in 0 .. 15 |-> IF d < 10 THEN 48 + d ELSE 87 + d]
             flat == FlattenSeq(s)
             digits == Digits(bytes)
  <1>1. ASSUME NEW i \in 1 .. 20
        PROVE  /\ bytes[i] \in 0 .. 255 /\ bytes[i] \div 16 \in 0 .. 15 /\ bytes[i] % 16 \in 0 .. 15
    <2>1. bytes[i] \in 0 .. 255
      BY ElementOfSeq DEF Bytes
    <2> DEFINE b == bytes[i]
    <2>2. b \in 0 .. 255
      BY <2>1
    <2> HIDE DEF b
    <2>3. b \div 16 \in 0 .. 15 /\ b % 16 \in 0 .. 15
      BY <2>2
    <2> QED
      BY <2>2, <2>3 DEF b
  <1>2. ASSUME NEW i \in 1 .. 20
        PROVE  s[i] \in Seq(Nat) /\ Len(s[i]) = 2
               /\ s[i][1] = code[bytes[i] \div 16] /\ s[i][2] = code[bytes[i] % 16]
    <2> DEFINE a == nr2char(bytes[i] \div 16)
               b == nr2char(bytes[i] % 16)
    <2>1. a = code[bytes[i] \div 16] /\ a \in Nat /\ b = code[bytes[i] % 16] /\ b \in Nat
      BY <1>1, DigitChars
    <2>2. s[i] = <<a, b>>
      OBVIOUS
    <2> HIDE DEF a, b, s, code
    <2>3. <<a, b>> \in Seq(Nat) /\ Len(<<a, b>>) = 2 /\ <<a, b>>[1] = a /\ <<a, b>>[2] = b
      BY <2>1
    <2> QED
      BY <2>1, <2>2, <2>3
  <1>3. m \in Nat /\ w \in Nat /\ Len(s) = m
    OBVIOUS
  <1> HIDE DEF s
  <1>4. off \in [0 .. m -> Nat] /\ off[0] = 0 /\ \A i \in 0 .. m - 1 : off[i + 1] = off[i] + w
    OBVIOUS
  <1>5. off[m] = 40 /\ \A i \in 0 .. 19 : off[i] = 2 * i
    OBVIOUS
  <1>6. Parts(X, s, m, w, off)
    <2>1. \A i \in 1 .. m : s[i] \in Seq(X) /\ Len(s[i]) = w
      BY <1>2
    <2>2. m >= 1
      OBVIOUS
    <2> HIDE DEF off, m, w
    <2> QED
      BY <1>3, <1>4, <2>1, <2>2 DEF Parts
  <1>7. /\ flat \in Seq(Nat) /\ Len(flat) = 40
        /\ \A i \in 0 .. 19 : flat[2 * i + 1] = s[i + 1][1] /\ flat[2 * i + 2] = s[i + 1][2]
    <2>1. m - 1 = 19 /\ 1 \in 1 .. w /\ 2 \in 1 .. w
      OBVIOUS
    <2> HIDE DEF off, m, w
    <2>2. /\ flat \in Seq(X) /\ Len(flat) = off[m]
          /\ \A i \in 0 .. m - 1 : \A q \in 1 .. w : flat[off[i] + q] = s[i + 1][q]
      <3> HIDE DEF X, code
      <3>1. Flattened(flat, X, s, m, w, off)
        BY <1>6, FlatParts
      <3> HIDE DEF flat
      <3> QED
        BY <3>1 DEF Flattened
    <2>3. \A i \in 0 .. 19 : flat[off[i] + 1] = s[i + 1][1] /\ flat[off[i] + 2] = s[i + 1][2]
      BY <2>1, <2>2
    <2> HIDE DEF flat
    <2> QED
      BY <1>5, <2>2, <2>3
  <1>8. /\ digits = [k \in 1 .. 40 |-> code[(bytes[(k + 1) \div 2] \div (IF k % 2 = 1 THEN 16 ELSE 1)) % 16]]
    <2>1. 2 * Len(bytes) = 40
      OBVIOUS
    <2> HIDE DEF code
    <2> QED
      BY <2>1 DEF Digits, code
  <1> HIDE DEF flat, digits, code, m, w, off
  <1>9. ASSUME NEW k \in 1 .. 40
        PROVE  flat[k] = digits[k]
    <2> DEFINE i == (k - 1) \div 2
               b == bytes[i + 1]
    <2>1. i \in 0 .. 19 /\ i + 1 \in 1 .. 20 /\ (k = 2 * i + 1 \/ k = 2 * i + 2)
      OBVIOUS
    <2> HIDE DEF i
    <2>2. b \in 0 .. 255 /\ b \div 16 \in 0 .. 15 /\ b % 16 \in 0 .. 15
      BY <1>1, <2>1
    <2>3. s[i + 1][1] = code[b \div 16] /\ s[i + 1][2] = code[b % 16]
      BY <1>2, <2>1
    <2>4. (k + 1) \div 2 = i + 1
      BY <2>1
    <2>5. digits[k] = code[(b \div (IF k % 2 = 1 THEN 16 ELSE 1)) % 16]
      BY <1>8, <2>4
    <2> HIDE DEF b
    <2>6. CASE k = 2 * i + 1
      <3>1. k % 2 = 1
        BY <2>1, <2>6
      <3>2. (b \div 16) % 16 = b \div 16
        BY <2>2
      <3>3. digits[k] = code[b \div 16]
        BY <2>5, <3>1, <3>2
      <3>4. flat[k] = s[i + 1][1]
        BY <1>7, <2>1, <2>6
      <3> QED
        BY <2>3, <3>3, <3>4
    <2>7. CASE k = 2 * i + 2
      <3>1. k % 2 # 1
        BY <2>1, <2>7
      <3>2. b \div 1 = b
        BY <2>2
      <3>3. digits[k] = code[b % 16]
        BY <2>5, <3>1, <3>2
      <3>4. flat[k] = s[i + 1][2]
        BY <1>7, <2>1, <2>7
      <3> QED
        BY <2>3, <3>3, <3>4
    <2> QED
      BY <2>1, <2>6, <2>7
  <1>10. flat = digits
    <2>1. flat = [k \in 1 .. 40 |-> flat[k]]
      <3>1. DOMAIN flat = 1 .. 40
        BY <1>7, LenProperties
      <3>2. flat = [k \in DOMAIN flat |-> flat[k]]
        BY <1>7
      <3> QED
        BY <3>1, <3>2
    <2>2. digits = [k \in 1 .. 40 |-> digits[k]]
      BY <1>8
    <2> QED
      BY <1>9, <2>1, <2>2
  <1> QED
    BY <1>10 DEF flat, digits, s

(* sha1hex() gives the digits of the digest that FIPS 180-1 gives a text,  *)
(* if no byte of it ends the C string before its end (socket.cpp:548-592). *)
THEOREM HexIsTheDigest == Spec => []HexIsDigest
  <1>1. TypeOK => HexIsDigest
    <2> SUFFICES ASSUME TypeOK, 0 \notin Range(text), IsLength(Len(text))
                 PROVE  SocketSHA1Hex(text) = Digits(F180!Digest(text))
      BY DEF HexIsDigest
    <2> DEFINE d == F180!Digest(text)
               message == F180!PaddedMessage(text)
               h == F180!Chained(message, Len(message) \div 64)
    <2>1. text \in Seq(Bytes)
      BY DEF TypeOK
    <2>2. CString(text) = text
      <3>1. \A i \in 1 .. Len(text) : text[i] \in Range(text)
        <4>1. DOMAIN text = 1 .. Len(text)
          BY <2>1, LenProperties
        <4> QED
          BY <4>1 DEF Range
      <3>2. \A i \in 1 .. Len(text) : text[i] # 0
        BY <3>1
      <3> QED
        BY <3>2, WholeString
    <2>3. DigestOf(text) = d
      <3> DEFINE c == sha1_update(sha1_starts, text)
      <3>1. <<>> \in Seq(Bytes) /\ <<>> \o text = text
        BY <2>1, ConcatEmptySeq
      <3>2. c \in sha1_context
        BY <2>1, StartsMake, UpdateMakes
      <3>3. Absorbed(c, <<>> \o text)
        BY <2>1, <3>1, StartsMake, StartAbsorbs, UpdateAbsorbs
      <3>4. Absorbed(c, text)
        BY <3>1, <3>3
      <3> HIDE DEF c
      <3>5. sha1_finish(c) = d
        BY <2>1, <3>2, <3>4, FinishIsDigest
      <3> QED
        BY <2>2, <3>5 DEF DigestOf, c
    <2>4. d \in Seq(Bytes) /\ Len(d) = 20
      <3>1. d = FlattenSeq([k \in 1 .. 5 |-> PUT_UINT32(h[k])])
        BY SameFlat, SameWords DEF F180!Digest
      <3> HIDE DEF d, h
      <3> QED
        BY <3>1, DigestMakes
    <2>5. SocketSHA1Hex(text) = FlattenSeq([i \in 1 .. 20 |-> <<nr2char(d[i] \div 16), nr2char(d[i] % 16)>>])
      BY <2>3 DEF SocketSHA1Hex
    <2> HIDE DEF d
    <2>6. FlattenSeq([i \in 1 .. 20 |-> <<nr2char(d[i] \div 16), nr2char(d[i] % 16)>>]) = Digits(d)
      BY <2>4, PairsAreDigits
    <2> QED
      BY <2>5, <2>6 DEF d
  <1> QED
    BY <1>1, ContextTyped, PTL
=============================================================================

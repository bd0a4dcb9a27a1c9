--------------------------- MODULE ProtocolProofs ---------------------------
(***************************************************************************)
(* What onUnpack does with the bytes of a message, wherever they are cut:  *)
(* for every request and every frame, by the two protocols.                *)
(***************************************************************************)
EXTENDS HttpProtocol, WebSocketProtocol, TLAPS, SequenceTheorems, FiniteSetTheorems

(* From an offset on, a source goes on with the bytes after the first n,   *)
(* as far as both go.                                                      *)
Agrees(source, offset, bytes, n) ==
  \A i \in 1 .. Len(bytes) - n :
    offset - 1 + i <= Len(source) => source[offset - 1 + i] = bytes[n + i]

(* Concatenation of strings of bytes. *)
LEMMA Concat ==
  ASSUME NEW s \in Seq(Nat), NEW t \in Seq(Nat)
  PROVE  /\ s \o t \in Seq(Nat)
         /\ Len(s \o t) = Len(s) + Len(t)
         /\ \A i \in 1 .. Len(s) : (s \o t)[i] = s[i]
         /\ \A i \in 1 .. Len(t) : (s \o t)[Len(s) + i] = t[i]
  <1>1. Len(s) \in Nat /\ Len(t) \in Nat
    OBVIOUS
  <1>2. \A i \in 1 .. Len(s) + Len(t) : (s \o t)[i] = IF i <= Len(s) THEN s[i] ELSE t[i - Len(s)]
    BY ConcatProperties
  <1>3. \A i \in 1 .. Len(t) :
          Len(s) + i \in 1 .. Len(s) + Len(t) /\ ~(Len(s) + i <= Len(s)) /\ Len(s) + i - Len(s) = i
    BY <1>1
  <1> QED
    BY <1>1, <1>2, <1>3, ConcatProperties

(* The bytes of a request, by their place. *)
LEMMA LinesBytes ==
  ASSUME NEW fields \in Seq(Texts)
  PROVE  /\ Lines(fields) \in Seq(Nat)
         /\ Len(Lines(fields)) = 3 * Len(fields)
         /\ \A i \in 1 .. Len(fields) :
              /\ Lines(fields)[3 * i - 2] = fields[i]
              /\ Lines(fields)[3 * i - 1] = CR
              /\ Lines(fields)[3 * i] = LF
  <1>1. Texts \subseteq Nat
    BY DEF Texts, Field, UpgradeTo, ToClose, KeepAlive, OwnHost, OwnAgent
  <1>2. Len(fields) \in Nat /\ \A i \in 1 .. Len(fields) : fields[i] \in Nat
    <2>1. \A i \in 1 .. Len(fields) : fields[i] \in Texts
      BY ElementOfSeq
    <2>2. Len(fields) \in Nat
      OBVIOUS
    <2> QED
      BY <2>1, <2>2, <1>1
  <1>3. \A i \in 1 .. 3 * Len(fields) : i % 3 = 1 => (i + 2) \div 3 \in 1 .. Len(fields)
    BY <1>2
  <1>4. Lines(fields) \in [1 .. 3 * Len(fields) -> Nat]
    BY <1>2, <1>3 DEF Lines, CR, LF
  <1>5. \A i \in 1 .. Len(fields) :
          /\ 3 * i - 2 \in 1 .. 3 * Len(fields) /\ (3 * i - 2) % 3 = 1 /\ (3 * i - 2 + 2) \div 3 = i
          /\ 3 * i - 1 \in 1 .. 3 * Len(fields) /\ (3 * i - 1) % 3 = 2
          /\ 3 * i \in 1 .. 3 * Len(fields) /\ (3 * i) % 3 = 0
    BY <1>2
  <1>6. \A i \in 1 .. Len(fields) :
          /\ Lines(fields)[3 * i - 2] = fields[i]
          /\ Lines(fields)[3 * i - 1] = CR
          /\ Lines(fields)[3 * i] = LF
    BY <1>5 DEF Lines
  <1> DEFINE n == 3 * Len(fields)
  <1>7. n \in Nat
    BY <1>2
  <1> HIDE DEF n
  <1>8. Lines(fields) \in [1 .. n -> Nat]
    BY <1>4 DEF n
  <1>9. Lines(fields) \in Seq(Nat) /\ Len(Lines(fields)) = n
    BY <1>7, <1>8
  <1> QED
    BY <1>6, <1>9 DEF n

LEMMA HttpBytes ==
  ASSUME NEW m \in HttpMessage
  PROVE  LET b == HttpEncoded(m)
             k == Len(m.fields)
         IN  /\ b \in Seq(Nat)
             /\ Len(b) = 3 * k + 5 + Len(m.body)
             /\ b[1] = m.start /\ b[2] = CR /\ b[3] = LF
             /\ \A i \in 1 .. k : b[3 * i + 1] = m.fields[i] /\ b[3 * i + 2] = CR /\ b[3 * i + 3] = LF
             /\ b[3 * k + 4] = CR /\ b[3 * k + 5] = LF
             /\ \A i \in 1 .. Len(m.body) : b[3 * k + 5 + i] = m.body[i]
  <1> DEFINE k == Len(m.fields)
             h == Line(m.start) \o Lines(m.fields)
             e == h \o <<CR, LF>>
  <1>1. m.start \in Nat /\ m.fields \in Seq(Texts) /\ m.body \in Seq(Nat) /\ k \in Nat
    BY DEF HttpMessage, Start, Bad
  <1>2. /\ Line(m.start) \in Seq(Nat) /\ Len(Line(m.start)) = 3
        /\ Line(m.start)[1] = m.start /\ Line(m.start)[2] = CR /\ Line(m.start)[3] = LF
    BY <1>1 DEF Line, CR, LF
  <1>3. /\ h \in Seq(Nat) /\ Len(h) = 3 * k + 3
        /\ h[1] = m.start /\ h[2] = CR /\ h[3] = LF
        /\ \A i \in 1 .. 3 * k : h[3 + i] = Lines(m.fields)[i]
    <2> DEFINE l == Lines(m.fields)
               a == Line(m.start)
    <2>1. l \in Seq(Nat) /\ Len(l) = 3 * k
      BY <1>1, LinesBytes
    <2> HIDE DEF l, a, k
    <2>2. /\ a \o l \in Seq(Nat)
          /\ Len(a \o l) = Len(a) + Len(l)
          /\ \A i \in 1 .. Len(a) : (a \o l)[i] = a[i]
          /\ \A i \in 1 .. Len(l) : (a \o l)[Len(a) + i] = l[i]
      BY <1>2, <2>1, Concat DEF a
    <2>3. h = a \o l
      BY DEF a, l
    <2>4. Len(a) = 3 /\ a[1] = m.start /\ a[2] = CR /\ a[3] = LF
      BY <1>2 DEF a
    <2>5. k \in Nat
      BY <1>1 DEF k
    <2> HIDE DEF h
    <2>6. h \in Seq(Nat) /\ Len(h) = 3 * k + 3
      BY <2>1, <2>2, <2>3, <2>4, <2>5
    <2>7. h[1] = m.start /\ h[2] = CR /\ h[3] = LF
      BY <2>2, <2>3, <2>4
    <2>8. \A i \in 1 .. 3 * k : h[3 + i] = l[i]
      BY <2>1, <2>2, <2>3, <2>4
    <2> QED
      BY <2>6, <2>7, <2>8 DEF l
  <1>4. \A i \in 1 .. k : h[3 * i + 1] = m.fields[i] /\ h[3 * i + 2] = CR /\ h[3 * i + 3] = LF
    <2> SUFFICES ASSUME NEW i \in 1 .. k
                 PROVE  h[3 * i + 1] = m.fields[i] /\ h[3 * i + 2] = CR /\ h[3 * i + 3] = LF
      OBVIOUS
    <2>1. 3 * i - 2 \in 1 .. 3 * k /\ 3 * i - 1 \in 1 .. 3 * k /\ 3 * i \in 1 .. 3 * k
      BY <1>1
    <2>2. /\ h[3 + (3 * i - 2)] = Lines(m.fields)[3 * i - 2]
          /\ h[3 + (3 * i - 1)] = Lines(m.fields)[3 * i - 1]
          /\ h[3 + 3 * i] = Lines(m.fields)[3 * i]
      BY <2>1, <1>3
    <2>3. 3 + (3 * i - 2) = 3 * i + 1 /\ 3 + (3 * i - 1) = 3 * i + 2 /\ 3 + 3 * i = 3 * i + 3
      BY <1>1
    <2> HIDE DEF h
    <2> QED
      BY <2>2, <2>3, <1>1, LinesBytes
  <1>5. <<CR, LF>> \in Seq(Nat) /\ Len(<<CR, LF>>) = 2 /\ <<CR, LF>>[1] = CR /\ <<CR, LF>>[2] = LF
    BY DEF CR, LF
  <1> HIDE DEF h
  <1>6. /\ e \in Seq(Nat) /\ Len(e) = 3 * k + 5
        /\ \A i \in 1 .. 3 * k + 3 : e[i] = h[i]
        /\ e[3 * k + 4] = CR /\ e[3 * k + 5] = LF
    <2> DEFINE t == <<CR, LF>>
    <2> HIDE DEF k, t
    <2>1. /\ h \o t \in Seq(Nat)
          /\ Len(h \o t) = Len(h) + Len(t)
          /\ \A i \in 1 .. Len(h) : (h \o t)[i] = h[i]
          /\ \A i \in 1 .. Len(t) : (h \o t)[Len(h) + i] = t[i]
      BY <1>3, <1>5, Concat DEF t
    <2>2. Len(t) = 2 /\ t[1] = CR /\ t[2] = LF
      BY <1>5 DEF t
    <2>3. e = h \o t
      BY DEF t
    <2> HIDE DEF e
    <2>4. (h \o t)[Len(h) + 1] = t[1] /\ (h \o t)[Len(h) + 2] = t[2]
      BY <2>1, <2>2
    <2>5. k \in Nat
      BY <1>1 DEF k
    <2>6. e \in Seq(Nat) /\ Len(e) = 3 * k + 5
      BY <1>3, <2>1, <2>2, <2>3, <2>5 DEF k
    <2>7. \A i \in 1 .. 3 * k + 3 : e[i] = h[i]
      BY <1>3, <2>1, <2>3 DEF k
    <2>8. e[3 * k + 4] = CR /\ e[3 * k + 5] = LF
      <3>1. Len(h) + 1 = 3 * k + 4 /\ Len(h) + 2 = 3 * k + 5
        BY <1>3, <2>5 DEF k
      <3> QED
        BY <2>2, <2>3, <2>4, <3>1
    <2> QED
      BY <2>6, <2>7, <2>8 DEF k
  <1> HIDE DEF e
  <1>7. /\ e \o m.body \in Seq(Nat) /\ Len(e \o m.body) = 3 * k + 5 + Len(m.body)
        /\ \A i \in 1 .. 3 * k + 5 : (e \o m.body)[i] = e[i]
        /\ \A i \in 1 .. Len(m.body) : (e \o m.body)[3 * k + 5 + i] = m.body[i]
    <2> DEFINE body == m.body
    <2>1. body \in Seq(Nat)
      BY <1>1
    <2> HIDE DEF body, k
    <2>2. /\ e \o body \in Seq(Nat)
          /\ Len(e \o body) = Len(e) + Len(body)
          /\ \A i \in 1 .. Len(e) : (e \o body)[i] = e[i]
          /\ \A i \in 1 .. Len(body) : (e \o body)[Len(e) + i] = body[i]
      BY <1>6, <2>1, Concat
    <2> QED
      BY <1>6, <2>2 DEF body
  <1>8. HttpEncoded(m) = e \o m.body
    BY DEF HttpEncoded, e, h
  <1>9. \A i \in 1 .. k :
          /\ 3 * i + 1 \in 1 .. 3 * k + 3 /\ 3 * i + 1 \in 1 .. 3 * k + 5
          /\ 3 * i + 2 \in 1 .. 3 * k + 3 /\ 3 * i + 2 \in 1 .. 3 * k + 5
          /\ 3 * i + 3 \in 1 .. 3 * k + 3 /\ 3 * i + 3 \in 1 .. 3 * k + 5
    BY <1>1
  <1> HIDE DEF k
  <1> DEFINE b == e \o m.body
  <1> HIDE DEF b
  <1>10. \A i \in 1 .. k : b[3 * i + 1] = m.fields[i] /\ b[3 * i + 2] = CR /\ b[3 * i + 3] = LF
    <2> SUFFICES ASSUME NEW i \in 1 .. k
                 PROVE  b[3 * i + 1] = m.fields[i] /\ b[3 * i + 2] = CR /\ b[3 * i + 3] = LF
      OBVIOUS
    <2>1. /\ b[3 * i + 1] = e[3 * i + 1] /\ b[3 * i + 2] = e[3 * i + 2]
          /\ b[3 * i + 3] = e[3 * i + 3]
      BY <1>7, <1>9 DEF b
    <2>2. /\ e[3 * i + 1] = h[3 * i + 1] /\ e[3 * i + 2] = h[3 * i + 2]
          /\ e[3 * i + 3] = h[3 * i + 3]
      BY <1>6, <1>9
    <2> QED
      BY <1>4, <2>1, <2>2
  <1>11. b[1] = m.start /\ b[2] = CR /\ b[3] = LF
    <2>1. \A i \in 1 .. 3 : i \in 1 .. 3 * k + 3 /\ i \in 1 .. 3 * k + 5
      BY <1>1 DEF k
    <2>2. \A i \in 1 .. 3 : b[i] = e[i] /\ e[i] = h[i]
      BY <2>1, <1>6, <1>7 DEF b
    <2> QED
      BY <2>2, <1>3
  <1>12. b[3 * k + 4] = CR /\ b[3 * k + 5] = LF
    <2>1. 3 * k + 4 \in 1 .. 3 * k + 5 /\ 3 * k + 5 \in 1 .. 3 * k + 5
      BY <1>1 DEF k
    <2> QED
      BY <2>1, <1>6, <1>7 DEF b
  <1> QED
    BY <1>7, <1>8, <1>10, <1>11, <1>12 DEF b, k

-----------------------------------------------------------------------------
(* The objects that have consumed n bytes of a request. *)
HttpAt(p, m, n) ==
  \/ n = 0 /\ p = NewHttp
  \/ n = 3 /\ m.start = Start /\ p = [NewHttp EXCEPT !.state = "headers"]
  \/ /\ n = 3 * Len(m.fields) + 5
     /\ m.start = Start /\ Announced(m) # NoLength
     /\ p = [NewHttp EXCEPT !.headers = Assigned(Preset, m.fields), !.length = Announced(m),
                            !.state = "content"]

(* What the session is given for a request. *)
HttpDelivered(m) ==
  [start |-> m.start, headers |-> Assigned(Preset, m.fields), body |-> m.body]

(* What one call makes of an object that has consumed n of these bytes.    *)
Moves(r, p, source, offset, bytes, n) ==
  /\ r.offset \in offset .. Len(source) + 1
  /\ r.status \in {"continue", "pending", "complete", "error", "raise"}
  /\ r.status = "pending" =>
       r.protocol = p /\ r.offset = offset /\ n + (Len(source) - offset) + 1 < Len(bytes)
  /\ r.status = "complete" => n + (r.offset - offset) = Len(bytes)

(* The greatest of some numbers: there is one. *)
LEMMA MaxThere ==
  ASSUME NEW n \in Nat, NEW S \in SUBSET (1 .. n), S # {}
  PROVE  Max(S) \in S /\ \A y \in S : y <= Max(S)
  <1> DEFINE R == OpToRel(<, Nat)
             T == {n - i : i \in S}
  <1>1. \A x, y \in Nat : x < y => <<x, y>> \in R
    BY DEF OpToRel
  <1>2. IsWellFoundedOn(R, Nat)
    BY NatLessThanWellFounded, Zenon
  <1>3. T \subseteq Nat /\ T # {}
    <2>1. \A i \in S : n - i \in Nat
      OBVIOUS
    <2>2. PICK i \in S : TRUE
      OBVIOUS
    <2>3. n - i \in T
      BY <2>2
    <2> QED
      BY <2>1, <2>3
  <1> HIDE DEF R
  <1>4. \E x \in T : \A y \in T : ~ (<<y, x>> \in R)
    <2> HIDE DEF T
    <2> QED
    BY <1>2, <1>3, WFMin
  <1>5. PICK i \in S : \A y \in T : ~ (<<y, n - i>> \in R)
    BY <1>4
  <1>6. ASSUME NEW j \in S PROVE i >= j
    <2>1. n - j \in T /\ n - j \in Nat /\ n - i \in Nat
      BY <1>3
    <2>2. ~(n - j < n - i)
      BY <1>1, <1>5, <2>1
    <2> QED
      BY <2>2
  <1>7. \E x \in S : \A y \in S : x >= y
    BY <1>6
  <1>8. Max(S) \in S /\ \A y \in S : Max(S) >= y
    BY <1>7 DEF Max
  <1> DEFINE m == Max(S)
  <1>9. m \in S
    BY <1>8
  <1> HIDE DEF m
  <1>10. \A y \in S : m >= y => y <= m
    BY <1>9
  <1> QED
    BY <1>8, <1>10 DEF m

LEMMA MinIs ==
  ASSUME NEW S \in SUBSET Int, NEW x \in S, \A y \in S : x <= y
  PROVE  Min(S) = x
  <1>1. Min(S) \in S /\ \A y \in S : Min(S) <= y
    BY DEF Min
  <1> DEFINE min == Min(S)
  <1>2. min \in S /\ min <= x /\ x <= min
    BY <1>1
  <1> HIDE DEF min
  <1>3. min \in Int /\ x \in Int
    BY <1>2
  <1>4. min = x
    BY <1>2, <1>3
  <1> QED
    BY <1>4 DEF min

LEMMA One ==
  ASSUME NEW source \in Seq(Nat), NEW i \in 1 .. Len(source)
  PROVE  SubSeq(source, i, i) = <<source[i]>>
  <1>1. i \in Int /\ source[i] \in Nat
    BY ElementOfSeq
  <1>2. \A j \in i .. i : source[j] \in Nat
    BY <1>1
  <1> DEFINE s == SubSeq(source, i, i)
  <1>3. /\ s \in Seq(Nat) /\ Len(s) = IF i <= i THEN i - i + 1 ELSE 0
        /\ \A j \in 1 .. i - i + 1 : s[j] = source[i + j - 1]
    BY <1>1, <1>2, SubSeqProperties
  <1> HIDE DEF s
  <1>4. s \in Seq(Nat) /\ Len(s) = 1 /\ s[1] = source[i]
    BY <1>1, <1>3
  <1>5. <<source[i]>> \in Seq(Nat) /\ Len(<<source[i]>>) = 1 /\ <<source[i]>>[1] = source[i]
    BY <1>1
  <1>6. s = <<source[i]>>
    BY <1>4, <1>5, SeqEqual
  <1> QED
    BY <1>6 DEF s

LEMMA HeadStep ==
  ASSUME NEW m \in HttpMessage,
         NEW source \in Seq(Nat), NEW offset \in 1 .. Len(source) + 1,
         Agrees(source, offset, HttpEncoded(m), 0)
  PROVE  LET r == UnpackHead(NewHttp, source, offset)
         IN  /\ Moves(r, NewHttp, source, offset, HttpEncoded(m), 0)
             /\ r.status = "continue" => HttpAt(r.protocol, m, r.offset - offset)
             /\ r.status \notin {"complete", "raise"}
             /\ r.status = "error" => ~HttpWellFormed(m)
  <1> DEFINE b == HttpEncoded(m)
             ends == Ends(source, offset)
             r == UnpackHead(NewHttp, source, offset)
  <1>1. Len(source) \in Nat /\ offset \in Nat /\ offset > 0
    OBVIOUS
  <1>2. /\ Len(b) \in Nat /\ Len(b) > 7
        /\ b[1] = m.start /\ b[2] = CR /\ b[3] = LF
    <2> DEFINE k == Len(m.fields)
               l == Len(m.body)
               n == Len(b)
    <2>1. k \in Nat /\ k > 0 /\ l \in Nat
      BY DEF HttpMessage
    <2>2. n = 3 * k + 5 + l /\ b[1] = m.start /\ b[2] = CR /\ b[3] = LF
      BY HttpBytes
    <2> HIDE DEF k, l, n
    <2>3. n \in Nat /\ n > 7
      BY <2>1, <2>2
    <2> QED
      BY <2>2, <2>3 DEF n
  <1> HIDE DEF b
  <1>3. CASE Len(source) < offset + 2
    <2>1. ends = {}
      BY <1>1, <1>3 DEF Ends
    <2>2. r = Result("pending", NewHttp, offset)
      BY <2>1 DEF UnpackHead
    <2> HIDE DEF r
    <2> QED
      BY <1>1, <1>2, <1>3, <2>2 DEF Result, Moves, b, r
  <1>4. CASE Len(source) >= offset + 2
    <2> DEFINE len == Len(b)
               end == Len(source)
    <2>0. len \in Nat /\ len > 7 /\ end \in Nat /\ end >= offset + 2
      BY <1>1, <1>2, <1>4
    <2> HIDE DEF len, end
    <2>1. \A i \in 1 .. 3 : i \in 1 .. len - 0 /\ offset - 1 + i <= end
      BY <1>1, <2>0
    <2>2. \A i \in 1 .. 3 : source[offset - 1 + i] = b[0 + i]
      BY <2>1 DEF Agrees, b, len, end
    <2>3. source[offset] = m.start /\ source[offset + 1] = CR /\ source[offset + 2] = LF
      <3>1. /\ offset - 1 + 1 = offset /\ offset - 1 + 2 = offset + 1 /\ offset - 1 + 3 = offset + 2
            /\ 0 + 1 = 1 /\ 0 + 2 = 2 /\ 0 + 3 = 3 /\ 1 \in 1 .. 3 /\ 2 \in 1 .. 3 /\ 3 \in 1 .. 3
        BY <1>1
      <3> QED
        BY <2>2, <3>1, <1>2
    <2>4. offset + 1 \in ends
      BY <2>3, <1>1, <1>4 DEF Ends
    <2>5. Min(ends) = offset + 1
      <3>1. ends \in SUBSET Int /\ \A e \in ends : offset + 1 <= e
        BY <1>1 DEF Ends
      <3> HIDE DEF ends
      <3> QED
        BY <2>4, <3>1, MinIs
    <2>6. SubSeq(source, offset, Min(ends) - 1) = <<m.start>>
      <3>1. offset + 1 - 1 = offset /\ offset \in 1 .. Len(source)
        BY <1>1, <1>4
      <3> HIDE DEF ends
      <3>2. Min(ends) - 1 = offset
        BY <2>5, <3>1
      <3>3. SubSeq(source, offset, offset) = <<source[offset]>>
        BY <3>1, One
      <3> QED
        BY <2>3, <3>2, <3>3
    <2>7. Range(<<m.start>>) = {m.start}
      BY DEF Range
    <2>8. r = IF Start # m.start THEN Result("error", NewHttp, offset + 3)
              ELSE Result("continue", [NewHttp EXCEPT !.state = "headers"], offset + 3)
      <3>1. ends # {} /\ Min(ends) + 2 = offset + 3
        BY <2>4, <2>5, <1>1
      <3> HIDE DEF ends
      <3> QED
        BY <3>1, <2>6, <2>7 DEF UnpackHead, ends
    <2> HIDE DEF r
    <2>9. CASE m.start = Start
      <3>1. r = Result("continue", [NewHttp EXCEPT !.state = "headers"], offset + 3)
        BY <2>8, <2>9
      <3>2. r.offset = offset + 3 /\ r.status = "continue" /\ r.offset - offset = 3
        BY <3>1, <1>1 DEF Result
      <3> QED
        BY <1>1, <1>4, <2>9, <3>1, <3>2 DEF Result, Moves, HttpAt, r
    <2>10. CASE m.start # Start
      <3>1. r = Result("error", NewHttp, offset + 3)
        BY <2>8, <2>10
      <3>2. ~HttpWellFormed(m)
        BY <2>10 DEF HttpWellFormed, HttpMessage
      <3> QED
        BY <1>1, <1>4, <3>1, <3>2 DEF Result, Moves, r
    <2> QED
      BY <2>9, <2>10
  <1> QED
    BY <1>1, <1>3, <1>4

(* The ends of the first lines, one after three bytes, and their number.   *)
Every3(o, i) == {o + 3 * j : j \in 1 .. i}

LEMMA HowMany ==
  ASSUME NEW o \in Int, NEW i \in Nat
  PROVE  Cardinality(Every3(o, i)) = i
  <1> DEFINE f == [j \in 1 .. i |-> o + 3 * j]
  <1>1. f \in Bijection(1 .. i, Every3(o, i))
    <2>1. f \in [1 .. i -> Every3(o, i)]
      BY DEF Every3
    <2>2. \A j, l \in 1 .. i : f[j] = f[l] => j = l
      OBVIOUS
    <2>3. \A e \in Every3(o, i) : \E j \in 1 .. i : f[j] = e
      BY DEF Every3
    <2> HIDE DEF f
    <2> QED
      BY <2>1, <2>2, <2>3 DEF Bijection, Injection, Surjection, IsInjective
  <1>2. IsFiniteSet(1 .. i) /\ Cardinality(1 .. i) = i
    BY FS_Interval
  <1>3. ExistsBijection(1 .. i, Every3(o, i))
    BY <1>1 DEF ExistsBijection
  <1> QED
    BY <1>2, <1>3, FS_Bijection

(* What the source holds where the headers are. *)
LEMMA HeaderBytes ==
  ASSUME NEW m \in HttpMessage,
         NEW source \in Seq(Nat), NEW offset \in 1 .. Len(source) + 1,
         Agrees(source, offset, HttpEncoded(m), 3)
  PROVE  LET k == Len(m.fields)
         IN  /\ k \in Nat /\ k > 0
             /\ \A i \in 1 .. k :
                  /\ m.fields[i] \in Texts
                  /\ offset + 3 * i - 3 <= Len(source) => source[offset + 3 * i - 3] = m.fields[i]
                  /\ offset + 3 * i - 2 <= Len(source) => source[offset + 3 * i - 2] = CR
                  /\ offset + 3 * i - 1 <= Len(source) => source[offset + 3 * i - 1] = LF
             /\ offset + 3 * k <= Len(source) => source[offset + 3 * k] = CR
             /\ offset + 3 * k + 1 <= Len(source) => source[offset + 3 * k + 1] = LF
  <1> DEFINE b == HttpEncoded(m)
             k == Len(m.fields)
             l == Len(m.body)
             at(j) == offset - 1 + j
  <1>1. offset \in Nat /\ offset > 0 /\ Len(source) \in Nat
    OBVIOUS
  <1>2. k \in Nat /\ k > 0 /\ l \in Nat
    BY DEF HttpMessage
  <1>3. \A i \in 1 .. k : m.fields[i] \in Texts
    BY ElementOfSeq DEF HttpMessage
  <1>4. /\ Len(b) = 3 * k + 5 + l
        /\ \A i \in 1 .. k : b[3 * i + 1] = m.fields[i] /\ b[3 * i + 2] = CR /\ b[3 * i + 3] = LF
        /\ b[3 * k + 4] = CR /\ b[3 * k + 5] = LF
    BY HttpBytes
  <1>5. \A j \in 1 .. Len(b) - 3 : at(j) <= Len(source) => source[at(j)] = b[3 + j]
    BY DEF Agrees
  <1> HIDE DEF b, k, l, at
  <1>6. \A j \in 1 .. 3 * k + 2 : at(j) <= Len(source) => source[at(j)] = b[3 + j]
    <2>1. \A j \in 1 .. 3 * k + 2 : j \in 1 .. Len(b) - 3
      BY <1>2, <1>4
    <2> QED
      BY <2>1, <1>5
  <1>7. \A i \in 1 .. k :
          /\ offset + 3 * i - 3 <= Len(source) => source[offset + 3 * i - 3] = m.fields[i]
          /\ offset + 3 * i - 2 <= Len(source) => source[offset + 3 * i - 2] = CR
          /\ offset + 3 * i - 1 <= Len(source) => source[offset + 3 * i - 1] = LF
    <2> SUFFICES ASSUME NEW i \in 1 .. k
                 PROVE  /\ offset + 3 * i - 3 <= Len(source) => source[offset + 3 * i - 3] = m.fields[i]
                        /\ offset + 3 * i - 2 <= Len(source) => source[offset + 3 * i - 2] = CR
                        /\ offset + 3 * i - 1 <= Len(source) => source[offset + 3 * i - 1] = LF
      OBVIOUS
    <2>1. /\ 3 * i - 2 \in 1 .. 3 * k + 2 /\ 3 * i - 1 \in 1 .. 3 * k + 2 /\ 3 * i \in 1 .. 3 * k + 2
          /\ at(3 * i - 2) = offset + 3 * i - 3 /\ at(3 * i - 1) = offset + 3 * i - 2
          /\ at(3 * i) = offset + 3 * i - 1
          /\ 3 + (3 * i - 2) = 3 * i + 1 /\ 3 + (3 * i - 1) = 3 * i + 2 /\ 3 + 3 * i = 3 * i + 3
      BY <1>1, <1>2 DEF at
    <2>2. /\ at(3 * i - 2) <= Len(source) => source[at(3 * i - 2)] = b[3 + (3 * i - 2)]
          /\ at(3 * i - 1) <= Len(source) => source[at(3 * i - 1)] = b[3 + (3 * i - 1)]
          /\ at(3 * i) <= Len(source) => source[at(3 * i)] = b[3 + 3 * i]
      BY <1>6, <2>1
    <2> QED
      BY <1>4, <2>1, <2>2
  <1>8. /\ 3 * k + 1 \in 1 .. 3 * k + 2 /\ 3 * k + 2 \in 1 .. 3 * k + 2
        /\ at(3 * k + 1) = offset + 3 * k /\ at(3 * k + 2) = offset + 3 * k + 1
        /\ 3 + (3 * k + 1) = 3 * k + 4 /\ 3 + (3 * k + 2) = 3 * k + 5
    BY <1>1, <1>2 DEF at
  <1>9. /\ offset + 3 * k <= Len(source) => source[offset + 3 * k] = CR
        /\ offset + 3 * k + 1 <= Len(source) => source[offset + 3 * k + 1] = LF
    BY <1>4, <1>6, <1>8
  <1> QED
    BY <1>2, <1>3, <1>7, <1>9 DEF k

(* The ends of lines that the search finds are those of the headers and of *)
(* the empty line, as far as they have come.                               *)
LEMMA HeaderEnds ==
  ASSUME NEW m \in HttpMessage,
         NEW source \in Seq(Nat), NEW offset \in 1 .. Len(source) + 1,
         Agrees(source, offset, HttpEncoded(m), 3)
  PROVE  LET k == Len(m.fields)
             ends == Ends(source, offset)
         IN  /\ \A e \in ends : e <= offset + 3 * k =>
                   e = offset + 3 * k \/ \E i \in 1 .. k : e = offset - 2 + 3 * i
             /\ \A i \in 1 .. k : offset + 3 * i - 1 <= Len(source) => offset - 2 + 3 * i \in ends
             /\ offset + 3 * k + 1 <= Len(source) => offset + 3 * k \in ends
  <1> DEFINE k == Len(m.fields)
             ends == Ends(source, offset)
  <1>1. offset \in Nat /\ offset > 0 /\ Len(source) \in Nat
    OBVIOUS
  <1>2. /\ k \in Nat /\ k > 0
        /\ \A i \in 1 .. k :
             /\ m.fields[i] \in Texts
             /\ offset + 3 * i - 3 <= Len(source) => source[offset + 3 * i - 3] = m.fields[i]
             /\ offset + 3 * i - 2 <= Len(source) => source[offset + 3 * i - 2] = CR
             /\ offset + 3 * i - 1 <= Len(source) => source[offset + 3 * i - 1] = LF
        /\ offset + 3 * k <= Len(source) => source[offset + 3 * k] = CR
        /\ offset + 3 * k + 1 <= Len(source) => source[offset + 3 * k + 1] = LF
    BY HeaderBytes
  <1>3. CR \notin Texts /\ CR # LF
    BY DEF CR, LF, Texts, Field, UpgradeTo, ToClose, KeepAlive, OwnHost, OwnAgent, IsLength
  <1> HIDE DEF k
  <1>4. ASSUME NEW e \in ends, e <= offset + 3 * k, e # offset + 3 * k
        PROVE  \E i \in 1 .. k : e = offset - 2 + 3 * i
    <2>1. e \in Nat /\ e >= offset + 1 /\ e <= Len(source) /\ source[e] = CR
      BY <1>1 DEF Ends
    <2>2. \E i \in 1 .. k : e = offset + 3 * i - 3 \/ e = offset + 3 * i - 2 \/ e = offset + 3 * i - 1
      <3> DEFINE i == (e - offset) \div 3 + 1
      <3>1. i \in 1 .. k
        BY <1>1, <1>2, <1>4, <2>1
      <3>2. e = offset + 3 * i - 3 \/ e = offset + 3 * i - 2 \/ e = offset + 3 * i - 1
        BY <1>1, <1>2, <1>4, <2>1
      <3> QED
        BY <3>1, <3>2
    <2>3. PICK i \in 1 .. k : e = offset + 3 * i - 3 \/ e = offset + 3 * i - 2 \/ e = offset + 3 * i - 1
      BY <2>2
    <2>4. e # offset + 3 * i - 3 /\ e # offset + 3 * i - 1
      BY <1>2, <1>3, <2>1
    <2>5. e = offset - 2 + 3 * i
      BY <1>1, <1>2, <2>3, <2>4
    <2> QED
      BY <2>5
  <1>5. ASSUME NEW i \in 1 .. k, offset + 3 * i - 1 <= Len(source)
        PROVE  offset - 2 + 3 * i \in ends
    <2>1. /\ offset - 2 + 3 * i = offset + 3 * i - 2 /\ offset - 2 + 3 * i + 1 = offset + 3 * i - 1
          /\ offset - 2 + 3 * i \in offset + 1 .. Len(source) - 1
          /\ offset + 3 * i - 2 <= Len(source)
      BY <1>1, <1>2, <1>5
    <2> QED
      BY <1>2, <1>5, <2>1 DEF Ends
  <1>6. ASSUME offset + 3 * k + 1 <= Len(source)
        PROVE  offset + 3 * k \in ends
    <2>1. offset + 3 * k \in offset + 1 .. Len(source) - 1 /\ offset + 3 * k <= Len(source)
      BY <1>1, <1>2, <1>6
    <2> QED
      BY <1>2, <1>6, <2>1 DEF Ends
  <1> HIDE DEF ends
  <1>7. /\ \A e \in ends : e <= offset + 3 * k =>
              e = offset + 3 * k \/ \E i \in 1 .. k : e = offset - 2 + 3 * i
        /\ \A i \in 1 .. k : offset + 3 * i - 1 <= Len(source) => offset - 2 + 3 * i \in ends
        /\ offset + 3 * k + 1 <= Len(source) => offset + 3 * k \in ends
    BY <1>4, <1>5, <1>6
  <1> QED
    BY <1>7 DEF k, ends

(* The empty line is found when it has come, and not before. *)
LEMMA EmptyFound ==
  ASSUME NEW m \in HttpMessage,
         NEW source \in Seq(Nat), NEW offset \in 1 .. Len(source) + 1,
         Agrees(source, offset, HttpEncoded(m), 3)
  PROVE  LET last == offset + 3 * Len(m.fields)
             empty == EmptyLines(source, offset)
         IN  /\ Len(source) < last + 1 => empty = {}
             /\ Len(source) >= last + 1 => empty # {} /\ Min(empty) = last
  <1> DEFINE k == Len(m.fields)
             last == offset + 3 * k
             ends == Ends(source, offset)
             empty == EmptyLines(source, offset)
  <1>1. offset \in Nat /\ offset > 0 /\ Len(source) \in Nat /\ k \in Nat /\ k > 0
    BY HeaderBytes
  <1>2. /\ \A e \in ends : e <= last => e = last \/ \E i \in 1 .. k : e = offset - 2 + 3 * i
        /\ \A i \in 1 .. k : offset + 3 * i - 1 <= Len(source) => offset - 2 + 3 * i \in ends
        /\ offset + 3 * k + 1 <= Len(source) => last \in ends
    BY HeaderEnds
  <1>3. \A e \in ends : e \in Int /\ e <= Len(source) - 1
    BY <1>1 DEF Ends
  <1>4. \A e : e \in empty <=> e \in ends /\ e - 2 \in ends
    BY DEF EmptyLines
  <1> HIDE DEF k, ends, empty
  <1>5. ASSUME NEW e \in empty, e < last
        PROVE  FALSE
    <2>0. e \in ends /\ e <= last /\ e # last
      BY <1>1, <1>3, <1>4, <1>5
    <2>1. PICK i \in 1 .. k : e = offset - 2 + 3 * i
      BY <1>2, <2>0
    <2>2. e - 2 <= last /\ e - 2 # last
      BY <1>1, <1>5, <2>1
    <2>3. PICK j \in 1 .. k : e - 2 = offset - 2 + 3 * j
      BY <1>2, <1>4, <2>2
    <2> QED
      BY <1>1, <2>1, <2>3
  <1>6. ASSUME Len(source) < last + 1
        PROVE  empty = {}
    BY <1>1, <1>3, <1>4, <1>5, <1>6
  <1>7. ASSUME Len(source) >= last + 1
        PROVE  empty # {} /\ Min(empty) = last
    <2>1. last \in ends
      BY <1>1, <1>2, <1>7
    <2>2. k \in 1 .. k /\ offset + 3 * k - 1 <= Len(source) /\ last - 2 = offset - 2 + 3 * k
      BY <1>1, <1>7
    <2>3. last \in empty
      BY <1>2, <1>4, <2>1, <2>2
    <2>4. empty \in SUBSET Int /\ \A e \in empty : last <= e
      <3>1. \A e \in empty : e \in Int
        BY <1>3, <1>4
      <3>2. last \in Int
        BY <1>1
      <3> HIDE DEF last
      <3>3. \A e \in empty : last <= e
        BY <3>1, <3>2, <1>5
      <3> QED
        BY <3>1, <3>3
    <2> HIDE DEF last
    <2> QED
      BY <2>3, <2>4, MinIs
  <1> QED
    BY <1>6, <1>7 DEF empty, k

(* The lines before it are the headers. *)
LEMMA LinesFound ==
  ASSUME NEW m \in HttpMessage,
         NEW source \in Seq(Nat), NEW offset \in 1 .. Len(source) + 1,
         Agrees(source, offset, HttpEncoded(m), 3),
         Len(source) >= offset + 3 * Len(m.fields) + 1
  PROVE  HeaderLines(source, offset, offset + 3 * Len(m.fields)) = OneEach(m.fields)
  <1> DEFINE k == Len(m.fields)
             last == offset + 3 * k
             ends == {e \in Ends(source, offset) : e < last}
             end(i) == CHOOSE e \in ends : Cardinality({f \in ends : f <= e}) = i
             start(i) == IF i = 1 THEN offset ELSE end(i - 1) + 2
             o == offset - 2
  <1>1. /\ offset \in Nat /\ offset > 0 /\ Len(source) \in Nat /\ k \in Nat /\ k > 0
        /\ Len(source) >= last + 1 /\ o \in Int
    BY HeaderBytes
  <1>2. /\ \A e \in Ends(source, offset) : e <= last => e = last \/ \E i \in 1 .. k : e = o + 3 * i
        /\ \A i \in 1 .. k : offset + 3 * i - 1 <= Len(source) => o + 3 * i \in Ends(source, offset)
    BY HeaderEnds
  <1>3. \A e \in Ends(source, offset) : e \in Int
    BY <1>1 DEF Ends
  <1>4. \A i \in 1 .. k : /\ offset + 3 * i - 3 <= Len(source)
                         /\ source[offset + 3 * i - 3] = m.fields[i]
    <2>1. \A i \in 1 .. k : offset + 3 * i - 3 <= Len(source)
      BY <1>1
    <2> QED
      BY <2>1, HeaderBytes
  <1> HIDE DEF k
  <1>5. \A e : e \in ends <=> \E i \in 1 .. k : e = o + 3 * i
    <2>1. ASSUME NEW e \in ends
          PROVE  \E i \in 1 .. k : e = o + 3 * i
      <3>1. e \in Ends(source, offset) /\ e < last
        BY <2>1
      <3> HIDE DEF ends
      <3>2. e <= last /\ e # last
        BY <1>1, <1>3, <3>1
      <3> HIDE DEF last, o
      <3> QED
        BY <1>2, <3>1, <3>2
    <2>2. ASSUME NEW i \in 1 .. k
          PROVE  o + 3 * i \in ends
      <3>1. offset + 3 * i - 1 <= Len(source) /\ o + 3 * i < last
        BY <1>1
      <3> QED
        BY <1>2, <3>1
    <2> QED
      BY <2>1, <2>2
  <1> HIDE DEF ends, last
  <1>6. ends = Every3(o, k)
    BY <1>5 DEF Every3
  <1>7. \A i \in 1 .. k : Cardinality({f \in ends : f <= o + 3 * i}) = i
    <2> SUFFICES ASSUME NEW i \in 1 .. k
                 PROVE  Cardinality({f \in ends : f <= o + 3 * i}) = i
      OBVIOUS
    <2>1. \A f : f \in ends /\ f <= o + 3 * i <=> \E j \in 1 .. i : f = o + 3 * j
      <3>1. ASSUME NEW f \in ends, f <= o + 3 * i
            PROVE  \E j \in 1 .. i : f = o + 3 * j
        <4>1. PICK j \in 1 .. k : f = o + 3 * j
          BY <1>5
        <4>2. j \in 1 .. i
          BY <1>1, <3>1, <4>1
        <4> QED
          BY <4>1, <4>2
      <3>2. ASSUME NEW j \in 1 .. i
            PROVE  o + 3 * j \in ends /\ o + 3 * j <= o + 3 * i
        <4>1. j \in 1 .. k /\ o + 3 * j <= o + 3 * i
          BY <1>1
        <4> QED
          BY <1>5, <4>1
      <3> QED
        BY <3>1, <3>2
    <2>2. {f \in ends : f <= o + 3 * i} = Every3(o, i)
      BY <2>1 DEF Every3
    <2>3. o \in Int /\ i \in Nat
      BY <1>1
    <2> HIDE DEF o
    <2> QED
      BY <2>2, <2>3, HowMany
  <1>8. Cardinality(ends) = k
    <2> HIDE DEF o
    <2> QED
      BY <1>1, <1>6, HowMany
  <1>9. \A i \in 1 .. k : end(i) = o + 3 * i
    <2> SUFFICES ASSUME NEW i \in 1 .. k
                 PROVE  end(i) = o + 3 * i
      OBVIOUS
    <2> DEFINE count(e) == Cardinality({f \in ends : f <= e})
    <2>1. o + 3 * i \in ends /\ count(o + 3 * i) = i
      BY <1>5, <1>7
    <2>2. \A e \in ends : count(e) = i => e = o + 3 * i
      <3> SUFFICES ASSUME NEW e \in ends, count(e) = i
                   PROVE  e = o + 3 * i
        OBVIOUS
      <3>1. PICK j \in 1 .. k : e = o + 3 * j
        BY <1>5
      <3>2. count(e) = j
        BY <1>7, <3>1
      <3> QED
        BY <3>1, <3>2
    <2>3. end(i) = CHOOSE e \in ends : count(e) = i
      OBVIOUS
    <2> HIDE DEF count, end
    <2> QED
      BY <2>1, <2>2, <2>3
  <1>10. HeaderLines(source, offset, last) = [i \in 1 .. k |-> SubSeq(source, start(i), end(i) - 1)]
    BY <1>8 DEF HeaderLines, ends
  <1>11. \A i \in 1 .. k : SubSeq(source, start(i), end(i) - 1) = <<m.fields[i]>>
    <2> SUFFICES ASSUME NEW i \in 1 .. k
                 PROVE  SubSeq(source, start(i), end(i) - 1) = <<m.fields[i]>>
      OBVIOUS
    <2>1. end(i) - 1 = offset + 3 * i - 3
      <3>1. end(i) = o + 3 * i
        BY <1>9
      <3> HIDE DEF end
      <3> QED
        BY <1>1, <3>1
    <2>2. start(i) = offset + 3 * i - 3
      <3>1. CASE i = 1
        BY <1>1, <3>1
      <3>2. CASE i # 1
        <4>1. i - 1 \in 1 .. k
          BY <1>1, <3>2
        <4>2. end(i - 1) = o + 3 * (i - 1)
          BY <1>9, <4>1
        <4>3. start(i) = end(i - 1) + 2
          BY <3>2
        <4> HIDE DEF start, end
        <4> QED
          BY <1>1, <4>2, <4>3
      <3> QED
        BY <3>1, <3>2
    <2>3. offset + 3 * i - 3 \in 1 .. Len(source)
      <3>1. offset + 3 * i - 3 <= Len(source)
        BY <1>4
      <3> QED
        BY <1>1, <3>1
    <2> HIDE DEF start, end
    <2> QED
      BY <1>4, <2>1, <2>2, <2>3, One
  <1> HIDE DEF start, end
  <1> QED
    BY <1>10, <1>11 DEF OneEach, last, k

LEMMA HeadersStep ==
  ASSUME NEW m \in HttpMessage, m.start = Start,
         NEW source \in Seq(Nat), NEW offset \in 1 .. Len(source) + 1,
         Agrees(source, offset, HttpEncoded(m), 3)
  PROVE  LET p == [NewHttp EXCEPT !.state = "headers"]
             r == UnpackHeaders(p, source, offset)
         IN  /\ Moves(r, p, source, offset, HttpEncoded(m), 3)
             /\ r.status = "continue" => HttpAt(r.protocol, m, 3 + (r.offset - offset))
             /\ r.status = "complete" => HttpDecoded(r.protocol) = HttpDelivered(m)
             /\ r.status \notin {"error", "raise"}
  <1> DEFINE k == Len(m.fields)
             l == Len(m.body)
             n == Announced(m)
             last == offset + 3 * k
             empty == EmptyLines(source, offset)
             p == [NewHttp EXCEPT !.state = "headers"]
             r == UnpackHeaders(p, source, offset)
             q == [p EXCEPT !.headers = Assigned(Preset, m.fields), !.length = n,
                            !.state = IF n = NoLength THEN "head" ELSE "content"]
             size == Len(HttpEncoded(m))
  <1> SUFFICES /\ Moves(r, p, source, offset, HttpEncoded(m), 3)
               /\ r.status = "continue" => HttpAt(r.protocol, m, 3 + (r.offset - offset))
               /\ r.status = "complete" => HttpDecoded(r.protocol) = HttpDelivered(m)
               /\ r.status \notin {"error", "raise"}
    OBVIOUS
  <1>1. /\ offset \in Nat /\ offset > 0 /\ Len(source) \in Nat /\ k \in Nat /\ k > 0
        /\ l \in Nat /\ size = 3 * k + 5 + l
        /\ l = IF n = NoLength THEN 0 ELSE n
    <2>1. m.body \in Seq(Nat) /\ l = IF n = NoLength THEN 0 ELSE n
      BY DEF HttpMessage
    <2>2. l \in Nat
      BY <2>1
    <2>3. k \in Nat /\ k > 0
      BY HeaderBytes
    <2>4. size = 3 * k + 5 + l
      BY HttpBytes
    <2> HIDE DEF n, k, l, size
    <2> QED
      BY <2>1, <2>2, <2>3, <2>4
  <1>2. CASE Len(source) < last + 1
    <2>1. empty = {}
      BY <1>2, EmptyFound
    <2> HIDE DEF p
    <2>2. r = Result("pending", p, offset)
      BY <2>1 DEF UnpackHeaders
    <2>3. r.status = "pending" /\ r.protocol = p /\ r.offset = offset
      BY <2>2 DEF Result
    <2> HIDE DEF r, k, l, size, n
    <2>4. 3 + (Len(source) - offset) + 1 < size
      BY <1>1, <1>2
    <2>5. offset \in offset .. Len(source) + 1
      OBVIOUS
    <2>6. Moves(r, p, source, offset, HttpEncoded(m), 3)
      BY <2>3, <2>4, <2>5 DEF Moves, size
    <2> QED
      BY <2>3, <2>6
  <1>3. CASE Len(source) >= last + 1
    <2>1. empty # {} /\ Min(empty) = last
      BY <1>3, EmptyFound
    <2>2. HeaderLines(source, offset, last) = OneEach(m.fields)
      BY <1>1, <1>3, LinesFound
    <2>3. [i \in DOMAIN OneEach(m.fields) |-> Kept(OneEach(m.fields)[i])] = m.fields
      <3>1. m.fields \in Seq(Texts) /\ \A i \in 1 .. k : m.fields[i] \in Texts
        BY HeaderBytes DEF HttpMessage
      <3>2. \A text \in Texts : Kept(<<text>>) = text
        BY DEF Kept, Texts, Words, Field, UpgradeTo, ToClose, KeepAlive, OwnHost, OwnAgent,
               IsLength
      <3>3. OneEach(m.fields) = [i \in 1 .. k |-> <<m.fields[i]>>]
        BY DEF OneEach
      <3>4. m.fields = [i \in 1 .. k |-> m.fields[i]]
        BY <3>1
      <3> HIDE DEF k
      <3> QED
        BY <3>1, <3>2, <3>3, <3>4
    <2>4. r = Result(IF n = NoLength THEN "complete" ELSE "continue", q, last + 2)
      <3>1. p.headers = Preset
        BY DEF NewHttp
      <3> HIDE DEF empty, k, p, last
      <3> QED
        BY <2>1, <2>2, <2>3, <3>1 DEF UnpackHeaders, Announced, empty
    <2>5. /\ r.status = (IF n = NoLength THEN "complete" ELSE "continue")
          /\ r.protocol = q /\ r.offset = last + 2
      BY <2>4 DEF Result
    <2> HIDE DEF r
    <2>6. last + 2 \in offset .. Len(source) + 1 /\ 3 + (last + 2 - offset) = 3 * k + 5
      <3> HIDE DEF k
      <3> QED
        BY <1>1, <1>3
    <2>7. CASE n = NoLength
      <3>1. m.body = <<>>
        BY <1>1, <2>7 DEF HttpMessage
      <3>2. HttpDecoded(q) = HttpDelivered(m)
        BY <2>7, <3>1 DEF HttpDecoded, HttpDelivered, NewHttp
      <3>3. 3 + (last + 2 - offset) = size
        <4>1. 3 * k + 5 = size
          <5> HIDE DEF k, l, size, n
          <5> QED
            BY <1>1, <2>7
        <4> HIDE DEF k, size, last
        <4> QED
          BY <2>6, <4>1
      <3>4. r.status = "complete" /\ r.protocol = q /\ r.offset = last + 2
        BY <2>5, <2>7
      <3>5. last \in Nat
        BY <1>1
      <3> HIDE DEF k, n, p, q, last, size
      <3>6. 3 + (r.offset - offset) = size /\ r.offset \in offset .. Len(source) + 1
        BY <2>6, <3>3, <3>4, <3>5
      <3>7. Moves(r, p, source, offset, HttpEncoded(m), 3)
        BY <3>4, <3>6 DEF Moves, size
      <3>8. HttpDecoded(r.protocol) = HttpDelivered(m) /\ r.status \notin {"error", "raise"} /\ r.status # "continue"
        BY <3>2, <3>4
      <3> QED
        BY <3>7, <3>8
    <2>8. CASE n # NoLength
      <3>1. q = [NewHttp EXCEPT !.headers = Assigned(Preset, m.fields), !.length = n, !.state = "content"]
        BY <2>8 DEF NewHttp
      <3>2. HttpAt(q, m, 3 * k + 5)
        BY <2>8, <3>1 DEF HttpAt
      <3>3. Moves(r, p, source, offset, HttpEncoded(m), 3)
        <4> HIDE DEF k, n, p, q, last
        <4> QED
          BY <2>5, <2>6, <2>8 DEF Moves
      <3>4. last \in Nat
        BY <1>1
      <3> HIDE DEF q, n, p, k, last
      <3>5. 3 + (r.offset - offset) = 3 * k + 5
        BY <2>5, <2>6, <3>4
      <3>6. HttpAt(r.protocol, m, 3 + (r.offset - offset))
        BY <2>5, <3>2, <3>5
      <3>7. r.status = "continue"
        BY <2>5, <2>8
      <3> QED
        BY <3>3, <3>6, <3>7
    <2> QED
      BY <2>7, <2>8
  <1> HIDE DEF k
  <1> QED
    BY <1>1, <1>2, <1>3

(* A slice that is there. *)
LEMMA Slice ==
  ASSUME NEW source \in Seq(Nat), NEW offset \in 1 .. Len(source) + 1, NEW size \in Nat,
         CheckNeed(source, offset, size)
  PROVE  LET s == PacketSlice(source, offset, size)
         IN  /\ s \in Seq(Nat) /\ Len(s) = size
             /\ \A i \in 1 .. size : s[i] = source[offset - 1 + i]
  <1> DEFINE last == offset - 1 + size
             s == SubSeq(source, offset, last)
  <1>1. /\ Len(source) \in Nat /\ offset \in Int /\ last \in Int /\ last <= Len(source)
        /\ last - offset + 1 = size /\ (offset <= last) = (size > 0) /\ offset > 0
    BY DEF CheckNeed
  <1> HIDE DEF last
  <1>2. \A i \in offset .. last : source[i] \in Nat
    <2>1. \A i \in offset .. last : i \in 1 .. Len(source)
      BY <1>1
    <2> QED
      BY <2>1, ElementOfSeq
  <1>3. /\ s \in Seq(Nat) /\ Len(s) = IF offset <= last THEN last - offset + 1 ELSE 0
        /\ \A i \in 1 .. last - offset + 1 : s[i] = source[offset + i - 1]
    BY <1>1, <1>2, SubSeqProperties
  <1> HIDE DEF s
  <1>4. \A i \in 1 .. size : offset + i - 1 = offset - 1 + i
    BY <1>1
  <1>5. /\ s \in Seq(Nat) /\ Len(s) = size
        /\ \A i \in 1 .. size : s[i] = source[offset - 1 + i]
    BY <1>1, <1>3, <1>4
  <1> QED
    BY <1>5 DEF s, last, PacketSlice

LEMMA ContentStep ==
  ASSUME NEW m \in HttpMessage, m.start = Start, Announced(m) # NoLength,
         NEW source \in Seq(Nat), NEW offset \in 1 .. Len(source) + 1,
         Agrees(source, offset, HttpEncoded(m), 3 * Len(m.fields) + 5)
  PROVE  LET p == [NewHttp EXCEPT !.headers = Assigned(Preset, m.fields), !.length = Announced(m), !.state = "content"]
             r == UnpackContent(p, source, offset)
         IN  /\ Moves(r, p, source, offset, HttpEncoded(m), 3 * Len(m.fields) + 5)
             /\ r.status # "continue"
             /\ r.status = "complete" => HttpDecoded(r.protocol) = HttpDelivered(m)
             /\ r.status \notin {"error", "raise"}
  <1> DEFINE k == Len(m.fields)
             l == Len(m.body)
             n == Announced(m)
             p == [NewHttp EXCEPT !.headers = Assigned(Preset, m.fields), !.length = n, !.state = "content"]
             r == UnpackContent(p, source, offset)
             b == HttpEncoded(m)
             q == [p EXCEPT !.content = m.body, !.state = "head"]
  <1> SUFFICES /\ Moves(r, p, source, offset, b, 3 * k + 5)
               /\ r.status # "continue"
               /\ r.status = "complete" => HttpDecoded(r.protocol) = HttpDelivered(m)
               /\ r.status \notin {"error", "raise"}
    OBVIOUS
  <1>1. m.body \in Seq(Nat) /\ l \in Nat /\ n = l /\ k \in Nat
    <2>1. m.body \in Seq(Nat) /\ l = IF n = NoLength THEN 0 ELSE n
      BY DEF HttpMessage
    <2>2. k \in Nat
      BY DEF HttpMessage
    <2>3. l \in Nat
      BY <2>1
    <2>4. n # NoLength
      OBVIOUS
    <2> HIDE DEF n, k, l
    <2> QED
      BY <2>1, <2>2, <2>3, <2>4
  <1>2. Len(b) = 3 * k + 5 + l /\ \A i \in 1 .. l : b[3 * k + 5 + i] = m.body[i]
    BY HttpBytes
  <1>3. p.length = l
    BY <1>1 DEF NewHttp
  <1>4. HttpDecoded(q) = HttpDelivered(m)
    BY DEF HttpDecoded, HttpDelivered, NewHttp
  <1>5. offset \in Nat /\ offset > 0 /\ Len(source) \in Nat
    OBVIOUS
  <1> HIDE DEF k, l, n, p, q, b
  <1>6. CASE ~CheckNeed(source, offset, l)
    <2>1. r = Result("pending", p, offset)
      BY <1>3, <1>6 DEF UnpackContent
    <2>2. r.status = "pending" /\ r.protocol = p /\ r.offset = offset
      BY <2>1 DEF Result
    <2>3. 3 * k + 5 + (Len(source) - offset) + 1 < Len(b)
      BY <1>1, <1>2, <1>5, <1>6 DEF CheckNeed
    <2>4. offset \in offset .. Len(source) + 1
      OBVIOUS
    <2> HIDE DEF r
    <2> QED
      BY <2>2, <2>3, <2>4 DEF Moves
  <1>7. CASE CheckNeed(source, offset, l)
    <2> DEFINE s == PacketSlice(source, offset, l)
    <2>1. s \in Seq(Nat) /\ Len(s) = l /\ \A i \in 1 .. l : s[i] = source[offset - 1 + i]
      BY <1>1, <1>7, Slice
    <2> HIDE DEF s
    <2>2. \A i \in 1 .. l : s[i] = m.body[i]
      <3> SUFFICES ASSUME NEW i \in 1 .. l
                   PROVE  s[i] = m.body[i]
        OBVIOUS
      <3>1. i \in 1 .. Len(b) - (3 * k + 5) /\ offset - 1 + i <= Len(source)
        BY <1>1, <1>2, <1>5, <1>7 DEF CheckNeed
      <3>2. source[offset - 1 + i] = b[3 * k + 5 + i]
        BY <3>1 DEF Agrees, b, k
      <3> QED
        BY <1>2, <2>1, <3>2
    <2>3. s = m.body
      BY <1>1, <2>1, <2>2, SeqEqual DEF l
    <2>4. r = Result("complete", q, offset + l)
      BY <1>3, <1>7, <2>3 DEF UnpackContent, s, q
    <2>5. r.status = "complete" /\ r.protocol = q /\ r.offset = offset + l
      BY <2>4 DEF Result
    <2>6. offset + l \in offset .. Len(source) + 1 /\ 3 * k + 5 + (offset + l - offset) = Len(b)
      BY <1>1, <1>2, <1>5, <1>7 DEF CheckNeed
    <2> HIDE DEF r
    <2>7. r.offset \in offset .. Len(source) + 1 /\ 3 * k + 5 + (r.offset - offset) = Len(b)
      BY <1>1, <2>5, <2>6
    <2> QED
      BY <1>4, <2>5, <2>7 DEF Moves
  <1> QED
    BY <1>6, <1>7

(* Any call on the bytes of a request. *)
LEMMA HttpStep ==
  ASSUME NEW m \in HttpMessage, NEW n, NEW p, HttpAt(p, m, n),
         NEW source \in Seq(Nat), NEW offset \in 1 .. Len(source) + 1,
         Agrees(source, offset, HttpEncoded(m), n)
  PROVE  LET r == HttpOnUnpack(p, source, offset)
         IN  /\ Moves(r, p, source, offset, HttpEncoded(m), n)
             /\ r.status = "continue" => HttpAt(r.protocol, m, n + (r.offset - offset))
             /\ r.status = "complete" => HttpDecoded(r.protocol) = HttpDelivered(m) /\ HttpWellFormed(m)
             /\ r.status = "error" => ~HttpWellFormed(m)
             /\ r.status # "raise"
  <1>1. CASE n = 0 /\ p = NewHttp
    <2> DEFINE r == UnpackHead(p, source, offset)
    <2>1. HttpOnUnpack(p, source, offset) = r
      BY <1>1 DEF HttpOnUnpack, NewHttp
    <2>2. /\ Moves(r, p, source, offset, HttpEncoded(m), 0)
          /\ r.status = "continue" => HttpAt(r.protocol, m, r.offset - offset)
          /\ r.status \notin {"complete", "raise"}
          /\ r.status = "error" => ~HttpWellFormed(m)
      BY <1>1, HeadStep
    <2> HIDE DEF r
    <2>3. r.offset \in offset .. Len(source) + 1 /\ offset \in Nat
      BY <2>2 DEF Moves
    <2>4. 0 + (r.offset - offset) = r.offset - offset
      BY <2>3
    <2> QED
      BY <1>1, <2>1, <2>2, <2>4
  <1>2. CASE n = 3 /\ m.start = Start /\ p = [NewHttp EXCEPT !.state = "headers"]
    <2> DEFINE r == UnpackHeaders(p, source, offset)
    <2>1. HttpOnUnpack(p, source, offset) = r
      BY <1>2 DEF HttpOnUnpack, NewHttp
    <2>2. /\ Moves(r, p, source, offset, HttpEncoded(m), 3)
          /\ r.status = "continue" => HttpAt(r.protocol, m, 3 + (r.offset - offset))
          /\ r.status = "complete" => HttpDecoded(r.protocol) = HttpDelivered(m)
          /\ r.status \notin {"error", "raise"}
      BY <1>2, HeadersStep
    <2>3. HttpWellFormed(m)
      BY <1>2 DEF HttpWellFormed, Start, Bad
    <2> HIDE DEF r
    <2> QED
      BY <1>2, <2>1, <2>2, <2>3
  <1>3. CASE /\ n = 3 * Len(m.fields) + 5
             /\ m.start = Start /\ Announced(m) # NoLength
             /\ p = [NewHttp EXCEPT !.headers = Assigned(Preset, m.fields), !.length = Announced(m), !.state = "content"]
    <2> DEFINE r == UnpackContent(p, source, offset)
    <2>1. HttpOnUnpack(p, source, offset) = r
      BY <1>3 DEF HttpOnUnpack, NewHttp
    <2>2. /\ Moves(r, p, source, offset, HttpEncoded(m), n)
          /\ r.status # "continue"
          /\ r.status = "complete" => HttpDecoded(r.protocol) = HttpDelivered(m)
          /\ r.status \notin {"error", "raise"}
      BY <1>3, ContentStep
    <2>3. HttpWellFormed(m)
      BY <1>3 DEF HttpWellFormed, Start, Bad
    <2> HIDE DEF r
    <2> QED
      BY <2>1, <2>2, <2>3
  <1> QED
    BY <1>1, <1>2, <1>3 DEF HttpAt

(* Of the lines of a name the last stays. *)
LEMMA LastStays ==
  ASSUME NEW m \in HttpMessage, NEW name \in Names
  PROVE  LET of == {i \in DOMAIN m.fields : NameOf(m.fields[i]) = name}
             value == HttpDelivered(m).headers[name]
         IN  IF of = {} THEN value = Preset[name]
             ELSE \E i \in of : (\A j \in of : j <= i) /\ value = m.fields[i]
  <1> DEFINE fields == m.fields
             of == {i \in DOMAIN fields : NameOf(fields[i]) = name}
             value == HttpDelivered(m).headers[name]
  <1>1. fields \in Seq(Texts) /\ Len(fields) \in Nat
    BY DEF HttpMessage
  <1>2. of \in SUBSET (1 .. Len(fields))
    BY <1>1
  <1>3. of = AtName(fields, name)
    BY DEF AtName
  <1>4. value = IF of = {} THEN Preset[name] ELSE fields[Max(of)]
    BY <1>3 DEF HttpDelivered, Assigned
  <1> HIDE DEF of, value, fields
  <1>5. of # {} => Max(of) \in of /\ \A j \in of : j <= Max(of)
    BY <1>1, <1>2, MaxThere
  <1>6. IF of = {} THEN value = Preset[name]
        ELSE \E i \in of : (\A j \in of : j <= i) /\ value = fields[i]
    BY <1>4, <1>5
  <1> QED
    BY <1>6 DEF of, value, fields

(* The session sees that a request asks for frames. *)
LEMMA UpgradeSeen ==
  ASSUME NEW m \in HttpMessage
  PROVE  HttpDelivered(m).headers["upgrade"] # Absent <=> HttpUpgrades(m)
  <1> DEFINE fields == m.fields
             of == {i \in DOMAIN fields : NameOf(fields[i]) = "upgrade"}
             value == HttpDelivered(m).headers["upgrade"]
  <1>1. fields \in Seq(Texts) /\ \A i \in DOMAIN fields : fields[i] \in Texts
    BY ElementOfSeq DEF HttpMessage
  <1>2. \A text \in Texts : NameOf(text) = "upgrade" <=> text = UpgradeTo
    BY DEF Texts, NameOf, Field, Words, UpgradeTo, ToClose, KeepAlive, OwnHost, OwnAgent, IsLength
  <1>3. \A i \in DOMAIN fields : i \in of <=> fields[i] = UpgradeTo
    BY <1>1, <1>2
  <1>4. HttpUpgrades(m) <=> of # {}
    BY <1>3 DEF HttpUpgrades, Range
  <1>5. "upgrade" \in Names /\ Preset["upgrade"] = Absent
    BY DEF Names, Preset
  <1>6. IF of = {} THEN value = Preset["upgrade"]
        ELSE \E i \in of : (\A j \in of : j <= i) /\ value = fields[i]
    BY <1>5, LastStays
  <1>7. UpgradeTo # Absent
    BY DEF UpgradeTo, Absent
  <1> HIDE DEF value
  <1>8. of # {} => value = UpgradeTo
    BY <1>3, <1>6
  <1> QED
    BY <1>4, <1>5, <1>6, <1>7, <1>8 DEF value

LEMMA HttpWithin ==
  ASSUME NEW m \in HttpMessage
  PROVE  /\ HttpEncoded(m) \in Seq(Nat) /\ Len(HttpEncoded(m)) \in Nat \ {0}
         /\ HttpAt(NewHttp, m, 0)
         /\ \A p, n : HttpAt(p, m, n) => n \in 0 .. Len(HttpEncoded(m))
  <1> DEFINE k == Len(m.fields)
             l == Len(m.body)
             size == Len(HttpEncoded(m))
  <1>1. k \in Nat /\ l \in Nat
    BY DEF HttpMessage
  <1>2. size = 3 * k + 5 + l /\ HttpEncoded(m) \in Seq(Nat)
    BY HttpBytes
  <1> HIDE DEF k, l, size
  <1>3. size \in Nat \ {0} /\ 0 \in 0 .. size /\ 3 \in 0 .. size /\ 3 * k + 5 \in 0 .. size
    BY <1>1, <1>2
  <1> QED
    BY <1>2, <1>3 DEF HttpAt, k, size

-----------------------------------------------------------------------------
(* The bytes of the length beside the first one. *)
ExtSize(m) == IF Len(m.payload) < 126 THEN 0 ELSE IF Len(m.payload) <= MediumMax THEN 2 ELSE 8

Masked(m) == m.masking # <<>>

(* The objects that have consumed n bytes of a frame.                      *)
Opened(m) == [NewWs EXCEPT !.fin = m.fin, !.opCode = m.opCode, !.state = "len"]

Sized(m) ==
  [Opened(m) EXCEPT !.mask = Masked(m), !.length = Len(m.payload), !.lenSize = ExtSize(m),
                    !.state = AfterLen(Masked(m))]

WsAt(p, m, n) ==
  \/ n = 0 /\ p = NewWs
  \/ n = 1 /\ p = Opened(m)
  \/ n = 2 /\ ExtSize(m) > 0
     /\ p = [Opened(m) EXCEPT !.mask = Masked(m), !.lenSize = ExtSize(m), !.state = "extlen"]
  \/ n = 2 + ExtSize(m) /\ p = Sized(m)
  \/ n = 6 + ExtSize(m) /\ Masked(m)
     /\ p = [Sized(m) EXCEPT !.masking = m.masking, !.state = "payload"]

(* The two and the eight bytes of a number give the number back. *)
Below(n) == n % 65536

LEMMA Halves ==
  ASSUME NEW n \in Nat
  PROVE  /\ Above(n) \in Nat /\ Below(n) \in Nat /\ n = 65536 * Above(n) + Below(n)
         /\ n < 65536 => Below(n) = n
  BY SMT DEF Above, Below

LEMMA TwoBytes ==
  ASSUME NEW n \in Nat
  PROVE  Two(n) \in Seq(Nat) /\ Len(Two(n)) = 2 /\ Pair(Two(n), 1) = Below(n)
  <1> DEFINE a == (n \div 256) % 256
             c == n % 256
  <1>1. a \in Nat /\ c \in Nat /\ 256 * a + c = Below(n)
    BY SMT DEF Below
  <1>2. Two(n) = <<a, c>>
    BY DEF Two
  <1> HIDE DEF a, c
  <1>3. <<a, c>> \in Seq(Nat) /\ Len(<<a, c>>) = 2 /\ <<a, c>>[1] = a /\ <<a, c>>[1 + 1] = c
    BY <1>1
  <1> QED
    BY <1>1, <1>2, <1>3 DEF Pair

(* Two more bytes. *)
LEMMA TwoMore ==
  ASSUME NEW s \in Seq(Nat), NEW t \in Seq(Nat), Len(t) = 2
  PROVE  /\ s \o t \in Seq(Nat) /\ Len(s \o t) = Len(s) + 2
         /\ \A i \in 1 .. Len(s) : (s \o t)[i] = s[i]
         /\ \A i \in 1 .. Len(s) - 1 : Pair(s \o t, i) = Pair(s, i)
         /\ Pair(s \o t, Len(s) + 1) = Pair(t, 1)
  <1> DEFINE u == s \o t
             len == Len(s)
  <1>1. /\ u \in Seq(Nat) /\ Len(u) = len + Len(t)
        /\ \A i \in 1 .. len : u[i] = s[i]
        /\ \A i \in 1 .. Len(t) : u[len + i] = t[i]
    BY Concat
  <1>2. len \in Nat
    OBVIOUS
  <1> HIDE DEF u, len
  <1>3. u[len + 1] = t[1] /\ u[len + 1 + 1] = t[1 + 1]
    <2>1. u[len + 1] = t[1] /\ u[len + 2] = t[2]
      BY <1>1
    <2>2. 1 + 1 = 2 /\ len + 1 + 1 = len + 2
      BY <1>2
    <2> QED
      BY <2>1, <2>2
  <1>4. \A i \in 1 .. len - 1 : u[i] = s[i] /\ u[i + 1] = s[i + 1]
    <2> SUFFICES ASSUME NEW i \in 1 .. len - 1
                 PROVE  u[i] = s[i] /\ u[i + 1] = s[i + 1]
      OBVIOUS
    <2>1. i \in 1 .. len /\ i + 1 \in 1 .. len
      BY <1>2
    <2> QED
      BY <1>1, <2>1
  <1> QED
    BY <1>1, <1>3, <1>4 DEF u, len, Pair

LEMMA FourPairs ==
  ASSUME NEW a \in Seq(Nat), NEW b \in Seq(Nat), NEW c \in Seq(Nat), NEW d \in Seq(Nat),
         Len(a) = 2, Len(b) = 2, Len(c) = 2, Len(d) = 2
  PROVE  LET v == a \o b \o c \o d
         IN  /\ v \in Seq(Nat) /\ Len(v) = 8
             /\ Pair(v, 1) = Pair(a, 1) /\ Pair(v, 3) = Pair(b, 1)
             /\ Pair(v, 5) = Pair(c, 1) /\ Pair(v, 7) = Pair(d, 1)
  <1> DEFINE t == a \o b
             u == t \o c
             v == u \o d
  <1>1. /\ t \in Seq(Nat) /\ Len(t) = Len(a) + 2
        /\ \A i \in 1 .. Len(a) - 1 : Pair(t, i) = Pair(a, i)
        /\ Pair(t, Len(a) + 1) = Pair(b, 1)
    BY TwoMore
  <1> HIDE DEF t
  <1>2. t \in Seq(Nat) /\ Len(t) = 4 /\ Pair(t, 1) = Pair(a, 1) /\ Pair(t, 3) = Pair(b, 1)
    BY <1>1
  <1>3. /\ u \in Seq(Nat) /\ Len(u) = Len(t) + 2
        /\ \A i \in 1 .. Len(t) - 1 : Pair(u, i) = Pair(t, i)
        /\ Pair(u, Len(t) + 1) = Pair(c, 1)
    BY <1>2, TwoMore
  <1> HIDE DEF u
  <1>4. /\ u \in Seq(Nat) /\ Len(u) = 6
        /\ Pair(u, 1) = Pair(a, 1) /\ Pair(u, 3) = Pair(b, 1) /\ Pair(u, 5) = Pair(c, 1)
    BY <1>2, <1>3
  <1>5. /\ v \in Seq(Nat) /\ Len(v) = Len(u) + 2
        /\ \A i \in 1 .. Len(u) - 1 : Pair(v, i) = Pair(u, i)
        /\ Pair(v, Len(u) + 1) = Pair(d, 1)
    BY <1>4, TwoMore
  <1> HIDE DEF v
  <1>6. /\ v \in Seq(Nat) /\ Len(v) = 8
        /\ Pair(v, 1) = Pair(a, 1) /\ Pair(v, 3) = Pair(b, 1) /\ Pair(v, 5) = Pair(c, 1)
        /\ Pair(v, 7) = Pair(d, 1)
    BY <1>4, <1>5
  <1> QED
    BY <1>6 DEF t, u, v

LEMMA EightBytes ==
  ASSUME NEW n \in Nat, Above(Above(Above(n))) < 65536
  PROVE  Eight(n) \in Seq(Nat) /\ Len(Eight(n)) = 8 /\ Number(Eight(n)) = n
  <1> DEFINE x == Above(n)
             y == Above(x)
             z == Above(y)
             v == Two(z) \o Two(y) \o Two(x) \o Two(n)
  <1>1. x \in Nat /\ y \in Nat /\ z \in Nat
    BY SMT, Halves
  <1>2. /\ n = 65536 * x + Below(n) /\ x = 65536 * y + Below(x) /\ y = 65536 * z + Below(y)
        /\ z = Below(z)
    BY SMT, <1>1, Halves
  <1>3. Below(n) \in Nat /\ Below(x) \in Nat /\ Below(y) \in Nat
    BY SMT, <1>1, Halves
  <1>4. Eight(n) = v
    BY SMT DEF Eight
  <1> HIDE DEF x, y, z
  <1>5. /\ Two(z) \in Seq(Nat) /\ Len(Two(z)) = 2 /\ Pair(Two(z), 1) = Below(z)
        /\ Two(y) \in Seq(Nat) /\ Len(Two(y)) = 2 /\ Pair(Two(y), 1) = Below(y)
        /\ Two(x) \in Seq(Nat) /\ Len(Two(x)) = 2 /\ Pair(Two(x), 1) = Below(x)
        /\ Two(n) \in Seq(Nat) /\ Len(Two(n)) = 2 /\ Pair(Two(n), 1) = Below(n)
    BY SMT, <1>1, TwoBytes
  <1>6. /\ v \in Seq(Nat) /\ Len(v) = 8
        /\ Pair(v, 1) = Below(z) /\ Pair(v, 3) = Below(y) /\ Pair(v, 5) = Below(x)
        /\ Pair(v, 7) = Below(n)
    <2> DEFINE a == Two(z)
               b == Two(y)
               c == Two(x)
               d == Two(n)
    <2>1. /\ a \in Seq(Nat) /\ Len(a) = 2 /\ b \in Seq(Nat) /\ Len(b) = 2
          /\ c \in Seq(Nat) /\ Len(c) = 2 /\ d \in Seq(Nat) /\ Len(d) = 2
      BY <1>5
    <2> HIDE DEF a, b, c, d
    <2> DEFINE w == a \o b \o c \o d
    <2>2. /\ w \in Seq(Nat) /\ Len(w) = 8
          /\ Pair(w, 1) = Pair(a, 1) /\ Pair(w, 3) = Pair(b, 1)
          /\ Pair(w, 5) = Pair(c, 1) /\ Pair(w, 7) = Pair(d, 1)
      BY SMT, <2>1, FourPairs
    <2>3. w = v
      BY SMT DEF a, b, c, d
    <2> HIDE DEF w, v
    <2> QED
      BY SMT, <1>5, <2>2, <2>3 DEF a, b, c, d
  <1> HIDE DEF v
  <1>8. Number(v) = 65536 * (65536 * (65536 * Below(z) + Below(y)) + Below(x)) + Below(n)
    BY SMT, <1>6 DEF Number
  <1>9. Number(v) = n
    BY SMT, <1>1, <1>2, <1>3, <1>8
  <1> QED
    BY SMT, <1>4, <1>6, <1>9

(* The bytes of a length, beside the first one, give it back. *)
Ext(m) ==
  IF ExtSize(m) = 0 THEN <<>> ELSE IF ExtSize(m) = 2 THEN Two(Len(m.payload)) ELSE Eight(Len(m.payload))

LEMMA Medium == MediumMax \in Int /\ MediumMax >= 125 /\ MediumMax <= 65535
  BY SMT, WebSocketAssumption

LEMMA ExtBytes ==
  ASSUME NEW m \in WsMessage
  PROVE  /\ ExtSize(m) \in {0, 2, 8}
         /\ Ext(m) \in Seq(Nat) /\ Len(Ext(m)) = ExtSize(m)
         /\ ExtSize(m) > 0 => Number(Ext(m)) = Len(m.payload)
  <1> DEFINE l == Len(m.payload)
             e == Ext(m)
             x == ExtSize(m)
  <1>1. l \in Nat /\ Above(Above(Above(l))) < 65536
    BY SMT DEF WsMessage
  <1>2. /\ x = IF l < 126 THEN 0 ELSE IF l <= MediumMax THEN 2 ELSE 8
        /\ e = IF x = 0 THEN <<>> ELSE IF x = 2 THEN Two(l) ELSE Eight(l)
    BY SMT DEF ExtSize, Ext
  <1> HIDE DEF l, e, x
  <1>3. MediumMax \in Int /\ MediumMax <= 65535
    BY Medium
  <1>4. x = 2 => e = Two(l)
    BY SMT, <1>2
  <1>5. x = 2 => l < 126 \/ l <= MediumMax
    BY SMT, <1>2
  <1>6. x = 2 => l < 65536
    BY SMT, <1>1, <1>3, <1>5
  <1>7. x = 2 => e \in Seq(Nat) /\ Len(e) = 2 /\ Pair(e, 1) = Below(l)
    BY SMT, <1>1, <1>4, TwoBytes
  <1>8. x = 2 => Below(l) = l
    BY SMT, <1>1, <1>6, Halves
  <1>9. x = 2 => e \in Seq(Nat) /\ Len(e) = 2 /\ Number(e) = l
    BY SMT, <1>7, <1>8 DEF Number
  <1>10. x = 8 => e = Eight(l)
    BY SMT, <1>2
  <1>11. x = 8 => e \in Seq(Nat) /\ Len(e) = 8 /\ Number(e) = l
    BY SMT, <1>1, <1>10, EightBytes
  <1>12. x \in {0, 2, 8}
    BY SMT, <1>2
  <1>13. x = 0 => e = <<>>
    BY SMT, <1>2
  <1>14. x = 0 => e \in Seq(Nat) /\ Len(e) = 0
    BY SMT, <1>13
  <1>15. e \in Seq(Nat) /\ Len(e) = x
    <2>1. CASE x = 0
      BY <2>1, <1>14
    <2>2. CASE x = 2
      BY <2>2, <1>9
    <2>3. CASE x = 8
      BY <2>3, <1>11
    <2> QED
      BY <1>12, <2>1, <2>2, <2>3
  <1>16. x > 0 => Number(e) = l
    <2>1. CASE x = 0
      BY SMT, <2>1
    <2>2. CASE x = 2 \/ x = 8
      BY SMT, <2>2, <1>9, <1>11
    <2> QED
      BY SMT, <1>12, <2>1, <2>2
  <1> QED
    BY SMT, <1>12, <1>15, <1>16 DEF l, e, x

(* Masking twice gives the payload back. *)
LEMMA XorTwice ==
  ASSUME NEW s \in Seq({0, 1}), NEW k \in Seq({0, 1}), Len(k) = 4
  PROVE  /\ Xor(s, k) \in Seq({0, 1}) /\ Len(Xor(s, k)) = Len(s)
         /\ Xor(Xor(s, k), k) = s
  <1> DEFINE l == Len(s)
             a(i) == ((i - 1) % 4) + 1
             x == [i \in 1 .. l |-> (s[i] + k[a(i)]) % 2]
             y == [i \in 1 .. l |-> (x[i] + k[a(i)]) % 2]
  <1>1. l \in Nat /\ DOMAIN s = 1 .. l
    OBVIOUS
  <1>2. \A i \in 1 .. l : s[i] \in {0, 1} /\ k[a(i)] \in {0, 1}
    <2>1. \A i \in 1 .. l : a(i) \in 1 .. Len(k)
      BY <1>1
    <2>2. \A i \in 1 .. l : s[i] \in {0, 1}
      BY ElementOfSeq
    <2>3. \A i \in 1 .. Len(k) : k[i] \in {0, 1}
      BY ElementOfSeq
    <2> QED
      BY <2>1, <2>2, <2>3
  <1>3. Xor(s, k) = x
    BY <1>1 DEF Xor
  <1> HIDE DEF a, l
  <1>4. \A i \in 1 .. l : x[i] \in {0, 1} /\ y[i] = s[i]
    BY <1>2
  <1>5. x \in [1 .. l -> {0, 1}] /\ y \in [1 .. l -> {0, 1}]
    <2>1. \A i \in 1 .. l : (s[i] + k[a(i)]) % 2 \in {0, 1}
      BY <1>2
    <2>2. x \in [1 .. l -> {0, 1}]
      BY <2>1
    <2>3. \A i \in 1 .. l : (x[i] + k[a(i)]) % 2 \in {0, 1}
      BY <1>2, <1>4
    <2>4. y \in [1 .. l -> {0, 1}]
      BY <2>3
    <2> QED
      BY <2>2, <2>4
  <1>6. DOMAIN x = 1 .. l
    OBVIOUS
  <1>7. Xor(x, k) = y
    BY <1>6 DEF Xor, a
  <1> HIDE DEF x, y
  <1>8. x \in Seq({0, 1}) /\ Len(x) = l /\ y \in Seq({0, 1}) /\ Len(y) = l
    BY <1>1, <1>5
  <1>9. y = s
    BY <1>4, <1>8, SeqEqual DEF l
  <1> QED
    BY <1>3, <1>7, <1>8, <1>9 DEF l

(* The bytes of a frame, by their place. *)
First(m) == IF ExtSize(m) = 0 THEN Len(m.payload) ELSE IF ExtSize(m) = 2 THEN 126 ELSE 127

LEMMA LenBytes ==
  ASSUME NEW m \in WsMessage
  PROVE  LET s == PackLen(m)
         IN  /\ s \in Seq(Nat) /\ Len(s) = 1 + ExtSize(m)
             /\ s[1] = Bit(Masked(m)) + First(m)
             /\ \A i \in 1 .. ExtSize(m) : s[1 + i] = Ext(m)[i]
  <1> DEFINE l == Len(m.payload)
             h == Bit(Masked(m)) + First(m)
             x == ExtSize(m)
             e == Ext(m)
             s == PackLen(m)
  <1>1. l \in Nat /\ MediumMax \in Int /\ MediumMax >= 125
    <2>1. m.payload \in Seq({0, 1})
      BY SMT DEF WsMessage
    <2>2. l \in Nat
      BY <2>1
    <2>3. MediumMax \in Int /\ MediumMax >= 125
      BY Medium
    <2> QED
      BY <2>2, <2>3
  <1>2. x \in {0, 2, 8} /\ e \in Seq(Nat) /\ Len(e) = x
    BY ExtBytes
  <1>3. h \in Nat
    <2>1. Bit(Masked(m)) \in {0, 128}
      BY DEF Bit, Flag
    <2>2. First(m) \in Nat
      BY SMT, <1>1 DEF First
    <2> QED
      BY <2>1, <2>2
  <1>4. CASE l < 126
    <2>1. x = 0 /\ s = <<h>>
      BY SMT, <1>1, <1>4 DEF PackLen, ExtSize, First, Masked
    <2> HIDE DEF h, x, e, s
    <2> QED
      BY <1>3, <2>1 DEF h, x, e, s
  <1>5. CASE l >= 126
    <2>1. s = <<h>> \o e /\ x # 0
      <3>1. CASE l <= MediumMax
        BY SMT, <1>1, <1>5, <3>1 DEF PackLen, ExtSize, Ext, First, Masked
      <3>2. CASE l > MediumMax
        BY SMT, <1>1, <1>5, <3>2 DEF PackLen, ExtSize, Ext, First, Masked
      <3> QED
        BY <1>1, <3>1, <3>2
    <2> HIDE DEF h, x, e, s
    <2> DEFINE a == <<h>>
    <2>2. a \in Seq(Nat) /\ Len(a) = 1 /\ a[1] = h
      BY <1>3
    <2>3. s = a \o e
      BY <2>1
    <2> HIDE DEF a
    <2>4. /\ s \in Seq(Nat) /\ Len(s) = Len(a) + Len(e)
          /\ \A i \in 1 .. Len(a) : s[i] = a[i]
          /\ \A i \in 1 .. Len(e) : s[Len(a) + i] = e[i]
      BY <1>2, <2>2, <2>3, Concat
    <2>5. s \in Seq(Nat) /\ Len(s) = 1 + x /\ s[1] = h /\ \A i \in 1 .. x : s[1 + i] = e[i]
      BY <1>2, <2>2, <2>4
    <2> QED
      BY <2>5 DEF h, x, e, s
  <1> QED
    BY <1>1, <1>4, <1>5

LEMMA WsBytes ==
  ASSUME NEW m \in WsMessage
  PROVE  LET b == WsEncoded(m)
             x == ExtSize(m)
             k == Len(m.masking)
             l == Len(m.payload)
         IN  /\ b \in Seq(Nat) /\ Len(b) = 2 + x + k + l
             /\ b[1] = Bit(m.fin) + m.opCode
             /\ b[2] = Bit(Masked(m)) + First(m)
             /\ \A i \in 1 .. x : b[2 + i] = Ext(m)[i]
             /\ \A i \in 1 .. k : b[2 + x + i] = m.masking[i]
             /\ \A i \in 1 .. l : b[2 + x + k + i] = PackPayload(m)[i]
  <1> DEFINE x == ExtSize(m)
             k == Len(m.masking)
             l == Len(m.payload)
             f == Bit(m.fin) + m.opCode
             o == PackOperation(m)
             s == PackLen(m)
             a == m.masking
             d == PackPayload(m)
             e == Ext(m)
             h == Bit(Masked(m)) + First(m)
  <1>1. f \in Nat
    <2>1. m.opCode \in 0 .. 127
      BY SMT DEF WsMessage, Frame7
    <2>2. Bit(m.fin) \in {0, 128}
      BY DEF Bit, Flag
    <2> QED
      BY <2>1, <2>2
  <1>2. x \in Nat /\ k \in Nat /\ l \in Nat
    <2>1. x \in {0, 2, 8}
      BY ExtBytes
    <2> QED
      BY SMT, <2>1 DEF WsMessage
  <1>3. /\ s \in Seq(Nat) /\ Len(s) = 1 + x /\ s[1] = h
        /\ \A i \in 1 .. x : s[1 + i] = e[i]
    BY LenBytes
  <1>4. a \in Seq({0, 1}) /\ m.payload \in Seq({0, 1}) /\ (a # <<>> => Len(a) = 4)
    BY SMT DEF WsMessage
  <1>5. d \in Seq({0, 1}) /\ Len(d) = l
    BY <1>4, XorTwice DEF PackPayload
  <1>6. a \in Seq(Nat) /\ d \in Seq(Nat)
    BY <1>4, <1>5
  <1>7. o = <<f>>
    BY DEF PackOperation
  <1>8. WsEncoded(m) = o \o s \o a \o d
    BY DEF WsEncoded
  <1> HIDE DEF f, o, s, a, d, x, e, h
  <1>9. o \in Seq(Nat) /\ Len(o) = 1 /\ o[1] = f
    BY <1>1, <1>7
  <1> DEFINE u == o \o s
             v == u \o a
             w == v \o d
  <1>10. /\ u \in Seq(Nat) /\ Len(u) = Len(o) + Len(s)
         /\ \A i \in 1 .. Len(o) : u[i] = o[i]
         /\ \A i \in 1 .. Len(s) : u[Len(o) + i] = s[i]
    BY <1>3, <1>9, Concat
  <1> HIDE DEF u
  <1>11. /\ v \in Seq(Nat) /\ Len(v) = Len(u) + Len(a)
         /\ \A i \in 1 .. Len(u) : v[i] = u[i]
         /\ \A i \in 1 .. Len(a) : v[Len(u) + i] = a[i]
    BY <1>6, <1>10, Concat
  <1> HIDE DEF v
  <1>12. /\ w \in Seq(Nat) /\ Len(w) = Len(v) + Len(d)
         /\ \A i \in 1 .. Len(v) : w[i] = v[i]
         /\ \A i \in 1 .. Len(d) : w[Len(v) + i] = d[i]
    BY <1>6, <1>11, Concat
  <1> HIDE DEF w
  <1>13. Len(a) = k
    BY DEF a
  <1> HIDE DEF k, l
  <1>14. Len(u) = 2 + x /\ Len(v) = 2 + x + k /\ Len(w) = 2 + x + k + l
    BY <1>2, <1>3, <1>5, <1>9, <1>10, <1>11, <1>12, <1>13
  <1>15. u[1] = f /\ u[2] = h /\ \A i \in 1 .. x : u[2 + i] = e[i]
    <2>1. u[1] = o[1] /\ \A i \in 1 .. 1 + x : u[1 + i] = s[i]
      BY <1>3, <1>9, <1>10
    <2>2. u[2] = s[1]
      BY <1>2, <2>1
    <2>3. \A i \in 1 .. x : u[2 + i] = e[i]
      <3> SUFFICES ASSUME NEW i \in 1 .. x
                   PROVE  u[2 + i] = e[i]
        OBVIOUS
      <3>1. 1 + i \in 1 .. 1 + x /\ 1 + (1 + i) = 2 + i
        BY <1>2
      <3>2. u[1 + (1 + i)] = s[1 + i]
        BY <2>1, <3>1
      <3> QED
        BY <1>3, <3>1, <3>2
    <2> QED
      BY <1>3, <1>9, <2>1, <2>2, <2>3
  <1>16. \A i \in 1 .. 2 + x : w[i] = u[i]
    <2> SUFFICES ASSUME NEW i \in 1 .. 2 + x
                 PROVE  w[i] = u[i]
      OBVIOUS
    <2>1. i \in 1 .. Len(u) /\ i \in 1 .. Len(v)
      BY <1>2, <1>14
    <2> QED
      BY <1>11, <1>12, <2>1
  <1>17. \A i \in 1 .. k : w[2 + x + i] = a[i]
    <2> SUFFICES ASSUME NEW i \in 1 .. k
                 PROVE  w[2 + x + i] = a[i]
      OBVIOUS
    <2>1. 2 + x + i \in 1 .. Len(v)
      BY <1>2, <1>14
    <2>2. v[2 + x + i] = a[i]
      BY <1>11, <1>13, <1>14
    <2> QED
      BY <1>12, <2>1, <2>2
  <1>18. \A i \in 1 .. l : w[2 + x + k + i] = d[i]
    BY <1>5, <1>12, <1>14 DEF l
  <1>19. w[1] = f /\ w[2] = h
    <2>1. 1 \in 1 .. 2 + x /\ 2 \in 1 .. 2 + x
      BY <1>2
    <2> QED
      BY <1>15, <1>16, <2>1
  <1>20. \A i \in 1 .. x : w[2 + i] = e[i]
    <2>1. \A i \in 1 .. x : 2 + i \in 1 .. 2 + x
      BY <1>2
    <2> QED
      BY <1>15, <1>16, <2>1
  <1>21. WsEncoded(m) = w
    BY <1>8 DEF u, v, w
  <1> QED
    BY <1>12, <1>14, <1>17, <1>18, <1>19, <1>20, <1>21 DEF x, k, l, f, a, d, e, h

LEMMA FrameSizes ==
  ASSUME NEW m \in WsMessage
  PROVE  /\ ExtSize(m) \in {0, 2, 8} /\ Len(m.payload) \in Nat
         /\ Len(m.masking) = IF Masked(m) THEN 4 ELSE 0
         /\ Len(WsEncoded(m)) = 2 + ExtSize(m) + Len(m.masking) + Len(m.payload)
         /\ Len(WsEncoded(m)) >= 2
  <1> DEFINE l == Len(m.payload)
             k == Len(m.masking)
             x == ExtSize(m)
             b == Len(WsEncoded(m))
  <1>1. m.masking \in Seq({0, 1}) /\ m.payload \in Seq({0, 1}) /\ k \in {0, 4}
    BY SMT DEF WsMessage
  <1>2. l \in Nat
    BY <1>1
  <1>3. k = IF Masked(m) THEN 4 ELSE 0
    <2>1. CASE m.masking = <<>>
      BY <2>1 DEF Masked
    <2>2. CASE m.masking # <<>>
      <3>1. k # 0
        BY <1>1, <2>2
      <3> QED
        BY <1>1, <2>2, <3>1 DEF Masked
    <2> QED
      BY <2>1, <2>2
  <1>4. x \in {0, 2, 8} /\ b = 2 + x + k + l
    BY ExtBytes, WsBytes
  <1> HIDE DEF l, k, x, b
  <1>5. b >= 2
    BY <1>1, <1>2, <1>4
  <1> QED
    BY <1>2, <1>3, <1>4, <1>5 DEF l, k, x, b

-----------------------------------------------------------------------------
(* What a state takes, when it is there. *)
Takes(r, status, p, q, source, offset, size, bytes, n) ==
  /\ Moves(r, p, source, offset, bytes, n)
  /\ r.status \in {status, "pending"}
  /\ r.status # "pending" =>
       CheckNeed(source, offset, size) /\ r.protocol = q /\ r.offset - offset = size

LEMMA TakeStep ==
  ASSUME NEW bytes \in Seq(Nat), NEW n \in Nat, NEW size \in Nat, n + size <= Len(bytes),
         NEW source \in Seq(Nat), NEW offset \in 1 .. Len(source) + 1,
         NEW p, NEW q, NEW status \in {"continue", "complete", "raise"},
         status = "complete" => n + size = Len(bytes)
  PROVE  Takes(Take(p, source, offset, size, status, q), status, p, q, source, offset, size, bytes, n)
  <1> DEFINE len == Len(bytes)
             end == Len(source)
             r == Take(p, source, offset, size, status, q)
  <1>1. len \in Nat /\ end \in Nat /\ offset \in Nat /\ offset > 0 /\ offset <= end + 1
    OBVIOUS
  <1>2. n + size <= len /\ (status = "complete" => n + size = len)
    OBVIOUS
  <1>3. CheckNeed(source, offset, size) = (end >= (offset - 1) + size)
    BY DEF CheckNeed
  <1>4. CASE ~CheckNeed(source, offset, size)
    <2>1. r.status = "pending" /\ r.protocol = p /\ r.offset = offset
      BY <1>4 DEF Take, Result
    <2> HIDE DEF r, len, end
    <2>2. n + (end - offset) + 1 < len /\ offset \in offset .. end + 1
      <3>1. ~(end >= (offset - 1) + size)
        BY <1>3, <1>4
      <3> QED
        BY <1>1, <1>2, <3>1
    <2> QED
      BY <2>1, <2>2 DEF Moves, Takes, r, len, end
  <1>5. CASE CheckNeed(source, offset, size)
    <2>1. r.status = status /\ r.protocol = q /\ r.offset = offset + size
      BY <1>5 DEF Take, Result
    <2> HIDE DEF r, len, end
    <2>2. /\ offset + size \in offset .. end + 1
          /\ (offset + size) - offset = size
      <3>1. end >= (offset - 1) + size
        BY <1>3, <1>5
      <3> QED
        BY <1>1, <3>1
    <2>3. status # "pending" /\ status \in {"continue", "pending", "complete", "error", "raise"}
      OBVIOUS
    <2> QED
      BY <1>2, <1>5, <2>1, <2>2, <2>3 DEF Moves, Takes, r, len, end
  <1> QED
    BY <1>4, <1>5

(* Bytes that are there are those of the message. *)
LEMMA Part ==
  ASSUME NEW bytes \in Seq(Nat), NEW n \in Nat,
         NEW source \in Seq(Nat), NEW offset \in 1 .. Len(source) + 1,
         Agrees(source, offset, bytes, n),
         NEW s \in Seq(Nat), n + Len(s) <= Len(bytes),
         \A i \in 1 .. Len(s) : bytes[n + i] = s[i],
         CheckNeed(source, offset, Len(s))
  PROVE  /\ PacketSlice(source, offset, Len(s)) = s
         /\ \A i \in 1 .. Len(s) : source[offset - 1 + i] = s[i]
  <1> DEFINE len == Len(bytes)
             end == Len(source)
             size == Len(s)
             t == PacketSlice(source, offset, size)
  <1>1. len \in Nat /\ end \in Nat /\ size \in Nat /\ offset \in Nat /\ offset > 0
    OBVIOUS
  <1>2. n + size <= len /\ offset - 1 + size <= end
    BY DEF CheckNeed
  <1>3. \A i \in 1 .. size : bytes[n + i] = s[i]
    OBVIOUS
  <1>4. t \in Seq(Nat) /\ Len(t) = size /\ \A i \in 1 .. size : t[i] = source[offset - 1 + i]
    BY <1>1, Slice
  <1>5. \A i \in 1 .. len - n : offset - 1 + i <= end => source[offset - 1 + i] = bytes[n + i]
    BY DEF Agrees
  <1> HIDE DEF len, end, size, t
  <1>6. \A i \in 1 .. size : source[offset - 1 + i] = s[i]
    <2> SUFFICES ASSUME NEW i \in 1 .. size
                 PROVE  source[offset - 1 + i] = s[i]
      OBVIOUS
    <2>1. i \in 1 .. len - n /\ offset - 1 + i <= end
      BY <1>1, <1>2
    <2> QED
      BY <1>3, <1>5, <2>1
  <1>7. t = s
    BY <1>4, <1>6, SeqEqual DEF size
  <1> QED
    BY <1>6, <1>7 DEF t, size

LEMMA Byte ==
  ASSUME NEW bytes \in Seq(Nat), NEW n \in Nat, n < Len(bytes),
         NEW source \in Seq(Nat), NEW offset \in 1 .. Len(source) + 1,
         Agrees(source, offset, bytes, n),
         CheckNeed(source, offset, 1)
  PROVE  source[offset] = bytes[n + 1]
  <1> DEFINE len == Len(bytes)
             end == Len(source)
  <1>1. /\ len \in Nat /\ end \in Nat /\ offset \in Nat /\ n < len
        /\ end >= offset - 1 + 1
    BY DEF CheckNeed
  <1>2. \A i \in 1 .. len - n : offset - 1 + i <= end => source[offset - 1 + i] = bytes[n + i]
    BY DEF Agrees
  <1> HIDE DEF len, end
  <1>3. 1 \in 1 .. len - n /\ offset - 1 + 1 <= end /\ offset - 1 + 1 = offset
    BY <1>1
  <1>4. source[offset - 1 + 1] = bytes[n + 1]
    BY <1>2, <1>3
  <1> QED
    BY <1>3, <1>4

(* A flag and seven bits of a byte. *)
LEMMA Flagged ==
  ASSUME NEW b \in BOOLEAN, NEW c \in Frame7
  PROVE  (Bit(b) + c >= Flag) = b /\ (Bit(b) + c) % Flag = c
  <1>1. c \in Nat /\ c < 128
    BY DEF Frame7
  <1>2. /\ 128 + c >= 128 /\ ~(0 + c >= 128)
        /\ (128 + c) % 128 = c /\ (0 + c) % 128 = c
    BY <1>1
  <1>3. CASE b
    <2>1. Bit(b) = 128 /\ b = TRUE
      BY <1>3 DEF Bit, Flag
    <2> QED
      BY <1>2, <2>1 DEF Flag
  <1>4. CASE ~b
    <2>1. Bit(b) = 0 /\ b = FALSE
      BY <1>4 DEF Bit, Flag
    <2> QED
      BY <1>2, <2>1 DEF Flag
  <1> QED
    BY <1>3, <1>4

(* The objects of WsAt, field by field. *)
LEMMA Fields ==
  ASSUME NEW m
  PROVE  /\ Opened(m) =
              [state |-> "len", fin |-> m.fin, opCode |-> m.opCode, mask |-> FALSE,
               masking |-> <<>>, length |-> 0, lenSize |-> 0, payload |-> <<>>]
         /\ Sized(m) =
              [state |-> AfterLen(Masked(m)), fin |-> m.fin, opCode |-> m.opCode,
               mask |-> Masked(m), masking |-> <<>>, length |-> Len(m.payload),
               lenSize |-> ExtSize(m), payload |-> <<>>]
         /\ [Sized(m) EXCEPT !.masking = m.masking, !.state = "payload"] =
              [state |-> "payload", fin |-> m.fin, opCode |-> m.opCode,
               mask |-> Masked(m), masking |-> m.masking, length |-> Len(m.payload),
               lenSize |-> ExtSize(m), payload |-> <<>>]
  <1> DEFINE p == Opened(m)
             mask == Masked(m)
             l == Len(m.payload)
             x == ExtSize(m)
             state == AfterLen(Masked(m))
             p1 == [p EXCEPT !.mask = mask]
             p2 == [p1 EXCEPT !.length = l]
             p3 == [p2 EXCEPT !.lenSize = x]
             p4 == [p3 EXCEPT !.state = state]
             p5 == [p4 EXCEPT !.masking = m.masking]
             p6 == [p5 EXCEPT !.state = "payload"]
  <1>1. p = [state |-> "len", fin |-> m.fin, opCode |-> m.opCode, mask |-> FALSE,
             masking |-> <<>>, length |-> 0, lenSize |-> 0, payload |-> <<>>]
    <2>1. NewWs = [state |-> "operation", fin |-> TRUE, opCode |-> 0, mask |-> FALSE,
                   masking |-> <<>>, length |-> 0, lenSize |-> 0, payload |-> <<>>]
      BY Zenon DEF NewWs
    <2>2. p = [NewWs EXCEPT !.fin = m.fin, !.opCode = m.opCode, !.state = "len"]
      BY Zenon DEF Opened
    <2> QED
      BY <2>1, <2>2
  <1>2. Sized(m) = p4 /\ [p4 EXCEPT !.masking = m.masking, !.state = "payload"] = p6
    BY DEF Sized
  <1> HIDE DEF p, mask, l, x, state
  <1>3. p1 = [state |-> "len", fin |-> m.fin, opCode |-> m.opCode, mask |-> mask,
              masking |-> <<>>, length |-> 0, lenSize |-> 0, payload |-> <<>>]
    BY <1>1
  <1> HIDE DEF p1
  <1>4. p2 = [state |-> "len", fin |-> m.fin, opCode |-> m.opCode, mask |-> mask,
              masking |-> <<>>, length |-> l, lenSize |-> 0, payload |-> <<>>]
    BY <1>3
  <1> HIDE DEF p2
  <1>5. p3 = [state |-> "len", fin |-> m.fin, opCode |-> m.opCode, mask |-> mask,
              masking |-> <<>>, length |-> l, lenSize |-> x, payload |-> <<>>]
    BY <1>4
  <1> HIDE DEF p3
  <1>6. p4 = [state |-> state, fin |-> m.fin, opCode |-> m.opCode, mask |-> mask,
              masking |-> <<>>, length |-> l, lenSize |-> x, payload |-> <<>>]
    BY <1>5
  <1> HIDE DEF p4
  <1>7. p5 = [state |-> state, fin |-> m.fin, opCode |-> m.opCode, mask |-> mask,
              masking |-> m.masking, length |-> l, lenSize |-> x, payload |-> <<>>]
    BY <1>6
  <1> HIDE DEF p5
  <1>8. p6 = [state |-> "payload", fin |-> m.fin, opCode |-> m.opCode, mask |-> mask,
              masking |-> m.masking, length |-> l, lenSize |-> x, payload |-> <<>>]
    BY <1>7
  <1> HIDE DEF p6
  <1> QED
    BY <1>1, <1>2, <1>6, <1>8 DEF p, mask, l, x, state

LEMMA OperationStep ==
  ASSUME NEW m \in WsMessage,
         NEW source \in Seq(Nat), NEW offset \in 1 .. Len(source) + 1,
         Agrees(source, offset, WsEncoded(m), 0)
  PROVE  LET r == UnpackOperation(NewWs, source, offset)
         IN  /\ Moves(r, NewWs, source, offset, WsEncoded(m), 0)
             /\ r.status \in {"continue", "pending"}
             /\ r.status = "continue" => r.offset - offset = 1 /\ r.protocol = Opened(m)
  <1> DEFINE b == WsEncoded(m)
             data == source[offset]
             q == [NewWs EXCEPT !.fin = data >= Flag, !.opCode = data % Flag, !.state = "len"]
             r == Take(NewWs, source, offset, 1, "continue", q)
  <1>1. b \in Seq(Nat) /\ 2 <= Len(b) /\ b[1] = Bit(m.fin) + m.opCode
    <2>1. Len(b) >= 2
      BY FrameSizes
    <2> QED
      BY <2>1, WsBytes
  <1>2. UnpackOperation(NewWs, source, offset) = r
    BY DEF UnpackOperation
  <1> HIDE DEF b, q
  <1>3. 0 + 1 <= Len(b) /\ 0 < Len(b)
    BY <1>1
  <1>4. /\ Moves(r, NewWs, source, offset, b, 0)
        /\ r.status \in {"continue", "pending"}
        /\ r.status # "pending" =>
             CheckNeed(source, offset, 1) /\ r.protocol = q /\ r.offset - offset = 1
    <2>1. Takes(r, "continue", NewWs, q, source, offset, 1, b, 0)
      BY <1>1, <1>3, TakeStep
    <2> HIDE DEF r
    <2> QED
      BY <2>1 DEF Takes
  <1>5. CheckNeed(source, offset, 1) => data = b[0 + 1]
    BY <1>1, <1>3, Byte DEF b
  <1>6. CheckNeed(source, offset, 1) => (data >= Flag) = m.fin /\ data % Flag = m.opCode
    <2>1. m.fin \in BOOLEAN /\ m.opCode \in Frame7
      BY DEF WsMessage
    <2> QED
      BY <1>1, <1>5, <2>1, Flagged
  <1>7. CheckNeed(source, offset, 1) => q = Opened(m)
    BY <1>6 DEF q, Opened
  <1> HIDE DEF r
  <1> QED
    BY <1>2, <1>4, <1>7 DEF b

LEMMA LenStep ==
  ASSUME NEW m \in WsMessage,
         NEW source \in Seq(Nat), NEW offset \in 1 .. Len(source) + 1,
         Agrees(source, offset, WsEncoded(m), 1)
  PROVE  LET r == UnpackLen(Opened(m), source, offset)
         IN  /\ Moves(r, Opened(m), source, offset, WsEncoded(m), 1)
             /\ r.status \in {"continue", "pending"}
             /\ r.status = "continue" => r.offset - offset = 1 /\ WsAt(r.protocol, m, 2)
  <1> DEFINE b == WsEncoded(m)
             data == source[offset]
             p == Opened(m)
             x == ExtSize(m)
             f == First(m)
             mask == data >= Flag
             len == data % Flag
             q == [p EXCEPT !.mask = mask]
             s == IF len <= 125
                  THEN [q EXCEPT !.length = len, !.state = AfterLen(mask)]
                  ELSE [q EXCEPT !.lenSize = IF len = 126 THEN 2 ELSE 8, !.state = "extlen"]
             r == Take(p, source, offset, 1, "continue", s)
  <1>1. b \in Seq(Nat) /\ b[2] = Bit(Masked(m)) + f /\ 1 + 1 <= Len(b) /\ 1 < Len(b)
    <2>1. Len(b) >= 2 /\ b \in Seq(Nat) /\ b[2] = Bit(Masked(m)) + f
      BY FrameSizes, WsBytes
    <2> DEFINE size == Len(b)
    <2>2. size \in Nat
      BY <2>1
    <2> HIDE DEF b, size
    <2>3. size >= 2
      BY <2>1 DEF size
    <2>4. 1 + 1 <= size /\ 1 < size
      BY <2>2, <2>3
    <2> QED
      BY <2>1, <2>4 DEF size
  <1>2. x \in {0, 2, 8} /\ Len(m.payload) \in Nat /\ MediumMax \in Int /\ MediumMax >= 125
    <2>1. x \in {0, 2, 8} /\ Len(m.payload) \in Nat
      BY FrameSizes
    <2>2. MediumMax \in Int /\ MediumMax >= 125
      BY Medium
    <2> QED
      BY <2>1, <2>2
  <1>3. /\ x = 0 => f = Len(m.payload) /\ f <= 125
        /\ x = 2 => f = 126
        /\ x = 8 => f = 127
    BY <1>2 DEF First, ExtSize
  <1>4. f \in Frame7
    <2>1. ASSUME x = 0
          PROVE  f \in 0 .. 127
      <3>1. f = Len(m.payload)
        BY <1>3, <2>1
      <3>2. f \in Nat
        BY <1>2, <3>1
      <3>3. f <= 125
        BY <1>3, <2>1
      <3> HIDE DEF f
      <3> QED
        BY <3>2, <3>3
    <2>2. x = 2 \/ x = 8 => f \in 0 .. 127
      BY <1>3
    <2> QED
      BY <1>2, <2>1, <2>2 DEF Frame7
  <1>5. UnpackLen(p, source, offset) = r
    BY DEF UnpackLen
  <1>6. p = [state |-> "len", fin |-> m.fin, opCode |-> m.opCode, mask |-> FALSE,
              masking |-> <<>>, length |-> 0, lenSize |-> 0, payload |-> <<>>]
    BY Fields
  <1> HIDE DEF b, s, f, p, x
  <1>7. /\ Moves(r, p, source, offset, b, 1)
        /\ r.status \in {"continue", "pending"}
        /\ r.status # "pending" =>
             CheckNeed(source, offset, 1) /\ r.protocol = s /\ r.offset - offset = 1
    <2>1. Takes(r, "continue", p, s, source, offset, 1, b, 1)
      BY <1>1, TakeStep
    <2> HIDE DEF r
    <2> QED
      BY <2>1 DEF Takes
  <1>8. ASSUME CheckNeed(source, offset, 1)
        PROVE  WsAt(s, m, 2)
    <2>1. data = b[1 + 1]
      BY <1>1, <1>8, Byte DEF b
    <2>2. mask = Masked(m) /\ len = f
      <3>1. Masked(m) \in BOOLEAN
        BY DEF Masked
      <3>2. data = Bit(Masked(m)) + f
        BY <1>1, <2>1
      <3> QED
        BY <1>4, <3>1, <3>2, Flagged
    <2> HIDE DEF mask, len
    <2>3. CASE x = 0
      <3>1. s = [q EXCEPT !.length = Len(m.payload), !.state = AfterLen(Masked(m))]
        BY <1>3, <2>2, <2>3 DEF s
      <3>2. s = Sized(m)
        <4>1. s = [state |-> AfterLen(Masked(m)), fin |-> m.fin, opCode |-> m.opCode,
                   mask |-> Masked(m), masking |-> <<>>, length |-> Len(m.payload),
                   lenSize |-> 0, payload |-> <<>>]
          BY <1>6, <2>2, <3>1
        <4>2. Sized(m) = [p EXCEPT !.mask = Masked(m), !.length = Len(m.payload),
                                   !.lenSize = 0, !.state = AfterLen(Masked(m))]
          BY <2>3 DEF Sized, x, p
        <4> QED
          BY <1>6, <4>1, <4>2
      <3>3. 2 = 2 + ExtSize(m)
        BY <2>3 DEF x
      <3> QED
        BY <3>2, <3>3 DEF WsAt
    <2>4. CASE x > 0
      <3>1. ~(len <= 125) /\ x = IF len = 126 THEN 2 ELSE 8
        BY <1>2, <1>3, <2>2, <2>4
      <3>2. s = [p EXCEPT !.mask = Masked(m), !.lenSize = x, !.state = "extlen"]
        BY <1>6, <2>2, <3>1 DEF s
      <3>3. ExtSize(m) > 0 /\ s = [Opened(m) EXCEPT !.mask = Masked(m), !.lenSize = ExtSize(m), !.state = "extlen"]
        BY <2>4, <3>2 DEF p, x
      <3> QED
        BY <3>3 DEF WsAt
    <2> QED
      BY <1>2, <2>3, <2>4
  <1> HIDE DEF r
  <1> QED
    BY <1>5, <1>7, <1>8 DEF b, p

LEMMA EXTLenStep ==
  ASSUME NEW m \in WsMessage, ExtSize(m) > 0,
         NEW source \in Seq(Nat), NEW offset \in 1 .. Len(source) + 1,
         Agrees(source, offset, WsEncoded(m), 2)
  PROVE  LET p == [Opened(m) EXCEPT !.mask = Masked(m), !.lenSize = ExtSize(m), !.state = "extlen"]
             r == UnpackEXTLen(p, source, offset)
         IN  /\ Moves(r, p, source, offset, WsEncoded(m), 2)
             /\ r.status \in {"continue", "pending"}
             /\ r.status = "continue" => r.offset - offset = ExtSize(m) /\ r.protocol = Sized(m)
  <1> DEFINE b == WsEncoded(m)
             x == ExtSize(m)
             e == Ext(m)
             p == [Opened(m) EXCEPT !.mask = Masked(m), !.lenSize = x, !.state = "extlen"]
             s == [p EXCEPT !.length = Number(PacketSlice(source, offset, x)),
                            !.state = AfterLen(p.mask)]
             r == Take(p, source, offset, x, "continue", s)
  <1>1. /\ b \in Seq(Nat) /\ x \in Nat /\ 2 + x <= Len(b)
        /\ e \in Seq(Nat) /\ Len(e) = x /\ Number(e) = Len(m.payload)
        /\ \A i \in 1 .. x : b[2 + i] = e[i]
    <2> DEFINE size == Len(b)
               k == Len(m.masking)
               l == Len(m.payload)
    <2>1. x \in {0, 2, 8} /\ l \in Nat /\ k = (IF Masked(m) THEN 4 ELSE 0) /\ size = 2 + x + k + l
      BY FrameSizes
    <2>2. b \in Seq(Nat) /\ \A i \in 1 .. x : b[2 + i] = e[i]
      BY WsBytes
    <2>3. e \in Seq(Nat) /\ Len(e) = x /\ Number(e) = Len(m.payload)
      BY ExtBytes
    <2> HIDE DEF size, k, l, x, e, b
    <2>4. x \in Nat /\ 2 + x <= size
      BY <2>1
    <2> QED
      BY <2>2, <2>3, <2>4 DEF size
  <1>2. UnpackEXTLen(p, source, offset) = r
    BY DEF UnpackEXTLen, Opened, NewWs
  <1>3. s = [Sized(m) EXCEPT !.length = Number(PacketSlice(source, offset, x))]
    BY DEF Sized, Opened, NewWs
  <1>4. Sized(m) = [Sized(m) EXCEPT !.length = Len(m.payload)]
    BY DEF Sized, Opened, NewWs
  <1> HIDE DEF b, x, e, p, s
  <1>5. /\ Moves(r, p, source, offset, b, 2)
        /\ r.status \in {"continue", "pending"}
        /\ r.status # "pending" =>
             CheckNeed(source, offset, x) /\ r.protocol = s /\ r.offset - offset = x
    <2>1. Takes(r, "continue", p, s, source, offset, x, b, 2)
      BY <1>1, TakeStep
    <2> HIDE DEF r
    <2> QED
      BY <2>1 DEF Takes
  <1>6. ASSUME CheckNeed(source, offset, x)
        PROVE  s = Sized(m)
    <2>1. Agrees(source, offset, b, 2) /\ CheckNeed(source, offset, Len(e))
      BY <1>1, <1>6 DEF b
    <2>2. 2 + Len(e) <= Len(b) /\ \A i \in 1 .. Len(e) : b[2 + i] = e[i]
      BY <1>1
    <2>3. b \in Seq(Nat) /\ e \in Seq(Nat) /\ 2 \in Nat
      BY <1>1
    <2>4. PacketSlice(source, offset, Len(e)) = e
      BY <2>1, <2>2, <2>3, Part
    <2> QED
      BY <1>1, <1>3, <1>4, <2>4
  <1> HIDE DEF r
  <1> QED
    BY <1>2, <1>5, <1>6 DEF b, p, x

LEMMA MaskingStep ==
  ASSUME NEW m \in WsMessage, Masked(m),
         NEW source \in Seq(Nat), NEW offset \in 1 .. Len(source) + 1,
         Agrees(source, offset, WsEncoded(m), 2 + ExtSize(m))
  PROVE  LET r == UnpackMasking(Sized(m), source, offset)
         IN  /\ Moves(r, Sized(m), source, offset, WsEncoded(m), 2 + ExtSize(m))
             /\ r.status \in {"continue", "pending"}
             /\ r.status = "continue" =>
                  /\ r.offset - offset = 4
                  /\ r.protocol = [Sized(m) EXCEPT !.masking = m.masking, !.state = "payload"]
  <1> DEFINE b == WsEncoded(m)
             x == ExtSize(m)
             n == 2 + x
             a == m.masking
             p == Sized(m)
             s == [p EXCEPT !.masking = PacketSlice(source, offset, 4), !.state = "payload"]
             r == Take(p, source, offset, 4, "continue", s)
  <1>1. /\ b \in Seq(Nat) /\ n \in Nat /\ n + 4 <= Len(b)
        /\ a \in Seq(Nat) /\ Len(a) = 4
        /\ \A i \in 1 .. Len(a) : b[n + i] = a[i]
    <2> DEFINE size == Len(b)
               k == Len(a)
               l == Len(m.payload)
    <2>1. x \in {0, 2, 8} /\ l \in Nat /\ k = 4 /\ size = 2 + x + k + l
      BY FrameSizes
    <2>2. b \in Seq(Nat) /\ \A i \in 1 .. k : b[2 + x + i] = a[i]
      BY WsBytes
    <2>3. a \in Seq({0, 1})
      BY DEF WsMessage
    <2> HIDE DEF b, size, k, l, x, a
    <2>4. a \in Seq(Nat)
      BY <2>3
    <2>5. n \in Nat /\ n + 4 <= size
      BY <2>1
    <2> QED
      BY <2>1, <2>2, <2>4, <2>5 DEF size, k
  <1>2. UnpackMasking(p, source, offset) = r
    BY DEF UnpackMasking
  <1>3. Agrees(source, offset, b, n) /\ 4 \in Nat
    OBVIOUS
  <1> HIDE DEF b, n, p, s, a
  <1>4. /\ Moves(r, p, source, offset, b, n)
        /\ r.status \in {"continue", "pending"}
        /\ r.status # "pending" =>
             CheckNeed(source, offset, 4) /\ r.protocol = s /\ r.offset - offset = 4
    <2> DEFINE size == 4
    <2>1. b \in Seq(Nat) /\ n \in Nat /\ size \in Nat /\ n + size <= Len(b)
      BY <1>1, <1>3
    <2> HIDE DEF size
    <2>2. Takes(Take(p, source, offset, size, "continue", s), "continue", p, s, source, offset, size, b, n)
      BY <2>1, TakeStep
    <2>3. Takes(r, "continue", p, s, source, offset, 4, b, n)
      BY <2>2 DEF size
    <2> HIDE DEF r
    <2> QED
      BY <2>3 DEF Takes
  <1>5. ASSUME CheckNeed(source, offset, 4)
        PROVE  s = [p EXCEPT !.masking = a, !.state = "payload"]
    <2>1. CheckNeed(source, offset, Len(a)) /\ n + Len(a) <= Len(b)
      BY <1>1, <1>5
    <2>2. b \in Seq(Nat) /\ n \in Nat /\ a \in Seq(Nat) /\ \A i \in 1 .. Len(a) : b[n + i] = a[i]
      BY <1>1
    <2>3. PacketSlice(source, offset, Len(a)) = a
      <3>1. source \in Seq(Nat) /\ offset \in 1 .. Len(source) + 1
        OBVIOUS
      <3>2. b \in Seq(Nat) /\ n \in Nat
        BY <2>2
      <3>3. Agrees(source, offset, b, n)
        BY <1>3
      <3>4. a \in Seq(Nat) /\ n + Len(a) <= Len(b) /\ CheckNeed(source, offset, Len(a))
        BY <2>1, <2>2
      <3>5. \A i \in 1 .. Len(a) : b[n + i] = a[i]
        BY <2>2
      <3> HIDE DEF a, b, n, r, s, p
      <3>6. /\ PacketSlice(source, offset, Len(a)) = a
            /\ \A i \in 1 .. Len(a) : source[offset - 1 + i] = a[i]
        BY ONLY <3>1, <3>2, <3>3, <3>4, <3>5, Part, ZenonT(40)
      <3> QED
        BY <3>6
    <2> QED
      BY <1>1, <2>3 DEF s
  <1> HIDE DEF r
  <1> QED
    BY <1>2, <1>4, <1>5 DEF b, p, n, a

LEMMA PayloadStep ==
  ASSUME NEW m \in WsMessage,
         NEW source \in Seq(Nat), NEW offset \in 1 .. Len(source) + 1,
         Agrees(source, offset, WsEncoded(m), 2 + ExtSize(m) + Len(m.masking))
  PROVE  LET p == [Sized(m) EXCEPT !.masking = m.masking, !.state = "payload"]
             r == UnpackPayload(p, source, offset)
         IN  /\ Moves(r, p, source, offset, WsEncoded(m), 2 + ExtSize(m) + Len(m.masking))
             /\ r.status \in {"complete", "raise", "pending"}
             /\ r.status = "complete" => WsDecoded(r.protocol) = m /\ WsWellFormed(m)
             /\ r.status = "raise" => ~WsWellFormed(m)
  <1> DEFINE b == WsEncoded(m)
             x == ExtSize(m)
             k == Len(m.masking)
             l == Len(m.payload)
             n == 2 + x + k
             d == PackPayload(m)
             p == [Sized(m) EXCEPT !.masking = m.masking, !.state = "payload"]
             bytes == PacketSlice(source, offset, l)
             s == [p EXCEPT !.payload = IF p.mask THEN Xor(bytes, p.masking) ELSE bytes,
                            !.state = "operation"]
             long == Masked(m) /\ l > MaxArgs
             status == IF long THEN "raise" ELSE "complete"
             u == IF long THEN p ELSE s
             r == Take(p, source, offset, l, status, u)
  <1>1. /\ m.masking \in Seq({0, 1}) /\ m.payload \in Seq({0, 1})
        /\ Masked(m) => Len(m.masking) = 4
    BY FrameSizes DEF WsMessage
  <1>2. d = IF Masked(m) THEN Xor(m.payload, m.masking) ELSE m.payload
    BY DEF PackPayload, Masked
  <1>3. d \in Seq({0, 1}) /\ Len(d) = l
    BY <1>1, <1>2, XorTwice
  <1>4. /\ b \in Seq(Nat) /\ n \in Nat /\ l \in Nat /\ n + l = Len(b)
        /\ d \in Seq(Nat)
        /\ \A i \in 1 .. Len(d) : b[n + i] = d[i]
    <2> DEFINE size == Len(b)
    <2>1. x \in {0, 2, 8} /\ l \in Nat /\ k = (IF Masked(m) THEN 4 ELSE 0) /\ size = 2 + x + k + l
      BY FrameSizes
    <2>2. b \in Seq(Nat) /\ \A i \in 1 .. l : b[2 + x + k + i] = d[i]
      BY WsBytes
    <2> HIDE DEF b, size, k, l, x, d
    <2>3. n \in Nat
      BY <2>1
    <2>4. d \in Seq(Nat)
      BY <1>3
    <2> QED
      BY <1>3, <2>1, <2>2, <2>3, <2>4 DEF size
  <1>5. p = [state |-> "payload", fin |-> m.fin, opCode |-> m.opCode, mask |-> Masked(m),
             masking |-> m.masking, length |-> l, lenSize |-> x, payload |-> <<>>]
    BY Fields
  <1>6. m = [fin |-> m.fin, opCode |-> m.opCode, masking |-> m.masking, payload |-> m.payload]
    BY DEF WsMessage
  <1>7. UnpackPayload(p, source, offset) = r
    <2>1. p.length = l /\ p.mask = Masked(m)
      BY <1>5
    <2> HIDE DEF p, l
    <2> QED
      BY <2>1 DEF UnpackPayload
  <1>8. Agrees(source, offset, b, n)
    OBVIOUS
  <1>12. long <=> ~WsWellFormed(m)
    <2>1. l \in Nat /\ MaxArgs \in Nat
      BY <1>4, WebSocketAssumption
    <2>2. l > MaxArgs <=> ~(l <= MaxArgs)
      BY <2>1
    <2> QED
      BY <2>2, Zenon DEF WsWellFormed, Masked
  <1> HIDE DEF b, x, k, l, n, d, p, s, long
  <1>9. n + l <= Len(b)
    BY <1>4
  <1>10. /\ Moves(r, p, source, offset, b, n)
         /\ r.status \in {status, "pending"}
         /\ r.status # "pending" =>
              CheckNeed(source, offset, l) /\ r.protocol = u /\ r.offset - offset = l
    <2>1. status \in {"continue", "complete", "raise"}
      OBVIOUS
    <2> HIDE DEF status, u
    <2>2. Takes(r, status, p, u, source, offset, l, b, n)
      BY <1>4, <1>9, <2>1, TakeStep
    <2> HIDE DEF r
    <2> QED
      BY <2>2 DEF Takes
  <1>11. ASSUME CheckNeed(source, offset, l)
         PROVE  WsDecoded(s) = m
    <2>1. bytes = d
      <3>1. source \in Seq(Nat) /\ offset \in 1 .. Len(source) + 1
        OBVIOUS
      <3>2. n + Len(d) <= Len(b) /\ CheckNeed(source, offset, Len(d))
        BY <1>3, <1>9, <1>11
      <3>3. b \in Seq(Nat) /\ n \in Nat /\ d \in Seq(Nat) /\ \A i \in 1 .. Len(d) : b[n + i] = d[i]
        BY <1>4
      <3>4. PacketSlice(source, offset, Len(d)) = d
        BY ONLY <3>1, <1>8, <3>2, <3>3, Part
      <3> QED
        BY <3>4, <1>3
    <2>2. (IF Masked(m) THEN Xor(d, m.masking) ELSE d) = m.payload
      BY <1>1, <1>2, XorTwice
    <2>3. p.mask = Masked(m) /\ p.masking = m.masking
      BY <1>5
    <2> HIDE DEF bytes
    <2>4. s = [p EXCEPT !.payload = m.payload, !.state = "operation"]
      BY <2>1, <2>2, <2>3 DEF s
    <2> QED
      BY <1>5, <1>6, <2>4 DEF WsDecoded
  <1> HIDE DEF r
  <1>13. r.status = "complete" => ~long /\ WsDecoded(r.protocol) = m
    BY <1>10, <1>11
  <1>14. r.status = "raise" => long
    BY <1>10
  <1>15. r.status \in {"complete", "raise", "pending"}
    BY <1>10
  <1> QED
    BY <1>7, <1>10, <1>12, <1>13, <1>14, <1>15 DEF b, p, n, x, k

(* Any call on the bytes of a frame. *)
LEMMA WsStep ==
  ASSUME NEW m \in WsMessage, NEW n, NEW p, WsAt(p, m, n),
         NEW source \in Seq(Nat), NEW offset \in 1 .. Len(source) + 1,
         Agrees(source, offset, WsEncoded(m), n)
  PROVE  LET r == WsOnUnpack(p, source, offset)
         IN  /\ Moves(r, p, source, offset, WsEncoded(m), n)
             /\ r.status = "continue" => WsAt(r.protocol, m, n + (r.offset - offset))
             /\ r.status = "complete" => WsDecoded(r.protocol) = m /\ WsWellFormed(m)
             /\ r.status = "raise" => ~WsWellFormed(m)
             /\ r.status # "error"
  <1> DEFINE b == WsEncoded(m)
             x == ExtSize(m)
  <1>1. x \in Nat /\ Len(m.masking) = IF Masked(m) THEN 4 ELSE 0
    <2>1. x \in {0, 2, 8}
      BY FrameSizes
    <2> QED
      BY <2>1, FrameSizes
  <1>2. CASE n = 0 /\ p = NewWs
    <2> DEFINE r == UnpackOperation(p, source, offset)
    <2>1. WsOnUnpack(p, source, offset) = r
      BY <1>2 DEF WsOnUnpack, NewWs
    <2>2. /\ Moves(r, p, source, offset, b, 0) /\ r.status \in {"continue", "pending"}
          /\ r.status = "continue" => r.offset - offset = 1 /\ r.protocol = Opened(m)
      BY <1>2, OperationStep
    <2> HIDE DEF r
    <2>3. WsAt(Opened(m), m, 0 + 1)
      BY DEF WsAt
    <2> QED
      BY <1>2, <2>1, <2>2, <2>3
  <1>3. CASE n = 1 /\ p = Opened(m)
    <2> DEFINE r == UnpackLen(p, source, offset)
    <2>1. p.state = "len"
      BY <1>3 DEF Opened, NewWs
    <2>2. WsOnUnpack(p, source, offset) = r
      BY <2>1 DEF WsOnUnpack
    <2>3. /\ Moves(r, p, source, offset, b, 1) /\ r.status \in {"continue", "pending"}
          /\ r.status = "continue" => r.offset - offset = 1 /\ WsAt(r.protocol, m, 2)
      BY <1>3, LenStep
    <2> HIDE DEF r
    <2>4. 1 + 1 = 2
      OBVIOUS
    <2> QED
      BY <1>3, <2>2, <2>3, <2>4
  <1>4. CASE n = 2 /\ x > 0
             /\ p = [Opened(m) EXCEPT !.mask = Masked(m), !.lenSize = x, !.state = "extlen"]
    <2> DEFINE r == UnpackEXTLen(p, source, offset)
    <2>1. p.state = "extlen"
      BY <1>4 DEF Opened, NewWs
    <2>2. WsOnUnpack(p, source, offset) = r
      BY <2>1 DEF WsOnUnpack
    <2>3. /\ Moves(r, p, source, offset, b, 2) /\ r.status \in {"continue", "pending"}
          /\ r.status = "continue" => r.offset - offset = x /\ r.protocol = Sized(m)
      BY <1>4, EXTLenStep
    <2> HIDE DEF r
    <2>4. WsAt(Sized(m), m, 2 + x)
      BY DEF WsAt
    <2> QED
      BY <1>4, <2>2, <2>3, <2>4
  <1>5. CASE Masked(m) /\ n = 2 + x /\ p = Sized(m)
    <2> DEFINE r == UnpackMasking(p, source, offset)
    <2>1. p.state = "masking"
      BY <1>5 DEF Sized, Opened, NewWs, AfterLen
    <2>2. WsOnUnpack(p, source, offset) = r
      BY <2>1 DEF WsOnUnpack
    <2>3. /\ Moves(r, p, source, offset, b, n) /\ r.status \in {"continue", "pending"}
          /\ r.status = "continue" =>
               /\ r.offset - offset = 4
               /\ r.protocol = [Sized(m) EXCEPT !.masking = m.masking, !.state = "payload"]
      BY <1>5, MaskingStep
    <2> HIDE DEF r
    <2>4. n + 4 = 6 + x
      BY <1>1, <1>5
    <2>5. WsAt([Sized(m) EXCEPT !.masking = m.masking, !.state = "payload"], m, n + 4)
      BY <1>5, <2>4 DEF WsAt
    <2> QED
      BY <2>2, <2>3, <2>5
  <1>6. ASSUME n = 2 + x + Len(m.masking),
               p = [Sized(m) EXCEPT !.masking = m.masking, !.state = "payload"]
        PROVE  LET r == WsOnUnpack(p, source, offset)
               IN  /\ Moves(r, p, source, offset, b, n)
                   /\ r.status = "continue" => WsAt(r.protocol, m, n + (r.offset - offset))
                   /\ r.status = "complete" => WsDecoded(r.protocol) = m /\ WsWellFormed(m)
                   /\ r.status = "raise" => ~WsWellFormed(m)
                   /\ r.status # "error"
    <2> DEFINE r == UnpackPayload(p, source, offset)
    <2>1. p.state = "payload"
      BY <1>6 DEF Sized, Opened, NewWs
    <2>2. WsOnUnpack(p, source, offset) = r
      BY <2>1 DEF WsOnUnpack
    <2>3. /\ Moves(r, p, source, offset, b, n) /\ r.status \in {"complete", "raise", "pending"}
          /\ r.status = "complete" => WsDecoded(r.protocol) = m /\ WsWellFormed(m)
          /\ r.status = "raise" => ~WsWellFormed(m)
      BY <1>6, PayloadStep
    <2> HIDE DEF r
    <2> QED
      BY <2>2, <2>3
  <1>7. CASE ~Masked(m) /\ n = 2 + x /\ p = Sized(m)
    <2>1. n = 2 + x + Len(m.masking)
      BY <1>1, <1>7
    <2>2. m.masking = <<>>
      BY <1>7 DEF Masked
    <2>3. AfterLen(Masked(m)) = "payload"
      BY <1>7 DEF AfterLen
    <2>4. Sized(m) = [Sized(m) EXCEPT !.masking = m.masking, !.state = "payload"]
      <3> DEFINE s == Sized(m)
                 q == [Sized(m) EXCEPT !.masking = m.masking, !.state = "payload"]
                 mask == Masked(m)
                 l == Len(m.payload)
                 y == ExtSize(m)
      <3>1. /\ s = [state |-> "payload", fin |-> m.fin, opCode |-> m.opCode, mask |-> mask,
                    masking |-> <<>>, length |-> l, lenSize |-> y, payload |-> <<>>]
            /\ q = [state |-> "payload", fin |-> m.fin, opCode |-> m.opCode, mask |-> mask,
                    masking |-> m.masking, length |-> l, lenSize |-> y, payload |-> <<>>]
        BY <2>3, Fields
      <3> HIDE DEF s, q, mask, l, y
      <3>2. s = q
        BY <2>2, <3>1
      <3> QED
        BY <3>2 DEF s, q
    <2> QED
      BY <1>6, <1>7, <2>1, <2>4
  <1>8. CASE n = 6 + x /\ Masked(m)
             /\ p = [Sized(m) EXCEPT !.masking = m.masking, !.state = "payload"]
    <2>1. n = 2 + x + Len(m.masking)
      BY <1>1, <1>8
    <2> QED
      BY <1>6, <1>8, <2>1
  <1> QED
    BY <1>2, <1>3, <1>4, <1>5, <1>7, <1>8 DEF WsAt

LEMMA WsWithin ==
  ASSUME NEW m \in WsMessage
  PROVE  /\ WsEncoded(m) \in Seq(Nat) /\ Len(WsEncoded(m)) \in Nat \ {0}
         /\ WsAt(NewWs, m, 0)
         /\ \A p, n : WsAt(p, m, n) => n \in 0 .. Len(WsEncoded(m))
  <1> DEFINE size == Len(WsEncoded(m))
             x == ExtSize(m)
             k == Len(m.masking)
             l == Len(m.payload)
  <1>1. x \in {0, 2, 8} /\ l \in Nat /\ k = (IF Masked(m) THEN 4 ELSE 0) /\ size = 2 + x + k + l
    BY FrameSizes
  <1>2. WsEncoded(m) \in Seq(Nat)
    BY WsBytes
  <1> HIDE DEF size, x, k, l
  <1>3. /\ size \in Nat \ {0} /\ {0, 1, 2, 2 + x} \subseteq 0 .. size
        /\ Masked(m) => 6 + x \in 0 .. size
    BY <1>1
  <1> QED
    BY <1>2, <1>3 DEF WsAt, size, x
=============================================================================

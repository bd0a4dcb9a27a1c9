--------------------------- MODULE FramingProofs ---------------------------
(***************************************************************************)
(* Theorems about Framing: however the input is split and joined, the      *)
(* session gets the messages that were sent.                               *)
(***************************************************************************)
EXTENDS Framing, ProtocolProofs

(* The messages of which the protocols can make what was sent. *)
MessagesParse == Requests \subseteq HttpMessage /\ Frames \subseteq WsMessage

Message == HttpMessage \cup WsMessage

(* What the session is given for a message, and those it is not given. *)
AsDelivered(m) == IF IsFrame(m) THEN m ELSE HttpDelivered(m)

Refused(m) == ~IsFrame(m) /\ ~HttpWellFormed(m)
TooLong(m) == IsFrame(m) /\ ~WsWellFormed(m)

(* A protocol object has consumed n bytes of a message. *)
Reached(p, m, n) == IF IsFrame(m) THEN WsAt(p, m, n) ELSE HttpAt(p, m, n)

-----------------------------------------------------------------------------
(* The inductive invariant. *)
Received == Len(stream) - Len(wire)
Base     == Received - Len(buffer)     \* bytes dropped from the buffer
Done     == Len(delivered)
Current  == sent[Done + 1]
Consumed == Base + offset - 1 - EndOf(Done)

Asked(n) == \E i \in 1 .. n : WellFormed(sent[i]) /\ Upgrades(sent[i])

Types ==
  /\ wire \in Seq(Nat) /\ buffer \in Seq(Nat) /\ stream \in Seq(Nat)
  /\ sent \in Seq(Message) /\ ends \in Seq(Nat) /\ Len(ends) = Len(sent)
  /\ delivered \in Seq({AsDelivered(m) : m \in Message}) /\ Len(delivered) <= Len(sent)
  /\ Len(sent) <= MaxMessages
  /\ offset \in 1 .. Len(buffer) + 1
  /\ isWebsocket \in BOOLEAN
  /\ pc \in {"idle", "unpack", "pending", "complete", "error", "closed", "raise"}

(* The bytes of the messages one after the other, frames once asked for. *)
Sent(i) ==
  /\ sent[i] \in Messages(Asked(i - 1))
  /\ ends[i] = EndOf(i - 1) + Len(Encoded(sent[i])) /\ ends[i] <= Len(stream)
  /\ \A j \in 1 .. Len(Encoded(sent[i])) : stream[EndOf(i - 1) + j] = Encoded(sent[i])[j]

Streamed ==
  /\ \A i \in 1 .. Len(sent) : Sent(i)
  /\ Len(stream) = EndOf(Len(sent))

Buffered ==
  /\ Base >= 0
  /\ \A i \in 1 .. Len(wire) : wire[i] = stream[Received + i]
  /\ \A i \in 1 .. Len(buffer) : buffer[i] = stream[Base + i]

Given ==
  /\ \A i \in 1 .. Done : delivered[i] = AsDelivered(sent[i]) /\ WellFormed(sent[i])
  /\ isWebsocket = Asked(Done)

(* Where the session is in the message it is about. *)
Waiting ==
  Done = Len(sent) =>
    pc = "idle" /\ Consumed = 0 /\ protocol = NewProtocol(isWebsocket)

Parsing ==
  Done < Len(sent) =>
    /\ pc \in {"idle", "unpack", "pending"} => Reached(protocol, Current, Consumed)
    /\ pc \in {"unpack", "pending", "complete"} => Base < EndOf(Done + 1)
    /\ pc \in {"idle", "pending"} => Received < EndOf(Done + 1)
    /\ pc = "complete" =>
         /\ Decoded(protocol) = AsDelivered(Current) /\ WellFormed(Current)
         /\ Base + offset - 1 = EndOf(Done + 1)
    /\ pc \in {"error", "closed"} => Refused(Current)
    /\ pc = "raise" => TooLong(Current)

Inv ==
  Types /\ Streamed /\ Buffered /\ Given /\ Waiting /\ Parsing /\ (pc = "idle" => offset = 1)

-----------------------------------------------------------------------------
(* Requests and frames, and the objects that parse them, are told apart. *)
LEMMA Classes ==
  /\ \A m \in HttpMessage : ~IsFrame(m)
  /\ \A m \in WsMessage : IsFrame(m)
  /\ ~IsFrame(NewHttp) /\ IsFrame(NewWs)
  /\ \A p, m, n : HttpAt(p, m, n) => ~IsFrame(p) /\ p.state \in {"head", "headers", "content"}
  /\ \A p, m, n : WsAt(p, m, n) =>
       IsFrame(p) /\ p.state \in {"operation", "len", "extlen", "masking", "payload"}
  <1>1. \A m \in HttpMessage : ~IsFrame(m)
    BY DEF HttpMessage, IsFrame
  <1>2. \A m \in WsMessage : IsFrame(m)
    BY SMT DEF WsMessage, IsFrame
  <1>3. ~IsFrame(NewHttp) /\ IsFrame(NewWs)
    BY DEF NewHttp, NewWs, IsFrame
  <1>4. \A p, m, n : HttpAt(p, m, n) => ~IsFrame(p) /\ p.state \in {"head", "headers", "content"}
    <2> SUFFICES ASSUME NEW p, NEW m, NEW n, HttpAt(p, m, n)
                 PROVE  ~IsFrame(p) /\ p.state \in {"head", "headers", "content"}
      OBVIOUS
    <2>2. CASE p = NewHttp
      BY <2>2 DEF NewHttp, IsFrame
    <2>3. CASE p = [NewHttp EXCEPT !.state = "headers"]
      BY <2>3 DEF NewHttp, IsFrame
    <2>4. CASE p = [NewHttp EXCEPT !.headers = Assigned(Preset, m.fields), !.length = Announced(m),
                             !.state = "content"]
      BY <2>4 DEF NewHttp, IsFrame
    <2> QED
      BY <2>2, <2>3, <2>4 DEF HttpAt
  <1>5. \A p, m, n : WsAt(p, m, n) =>
          IsFrame(p) /\ p.state \in {"operation", "len", "extlen", "masking", "payload"}
    <2> SUFFICES ASSUME NEW p, NEW m, NEW n, WsAt(p, m, n)
                 PROVE  IsFrame(p) /\ p.state \in {"operation", "len", "extlen", "masking", "payload"}
      OBVIOUS
    <2>1. AfterLen(Masked(m)) \in {"masking", "payload"}
      BY DEF AfterLen
    <2>2. CASE p = NewWs
      BY <2>2 DEF NewWs, IsFrame
    <2>3. "opCode" \in DOMAIN Opened(m) /\ "state" \in DOMAIN Opened(m) /\ Opened(m).state = "len"
      BY DEF Opened, NewWs
    <2>4. /\ "opCode" \in DOMAIN Sized(m) /\ "state" \in DOMAIN Sized(m)
          /\ Sized(m).state = AfterLen(Masked(m))
      BY <2>3 DEF Sized
    <2>5. CASE p = Opened(m)
      BY <2>3, <2>5 DEF IsFrame
    <2>6. CASE p = [Opened(m) EXCEPT !.mask = Masked(m), !.lenSize = ExtSize(m), !.state = "extlen"]
      BY <2>3, <2>6 DEF IsFrame
    <2>7. CASE p = Sized(m)
      BY <2>1, <2>4, <2>7 DEF IsFrame
    <2>8. CASE p = [Sized(m) EXCEPT !.masking = m.masking, !.state = "payload"]
      BY <2>4, <2>8 DEF IsFrame
    <2> QED
      BY <2>2, <2>5, <2>6, <2>7, <2>8 DEF WsAt
  <1> QED
    BY <1>1, <1>2, <1>3, <1>4, <1>5

(* onUnpack changes fields of the object and not its class. *)
LEMMA ClassKept ==
  ASSUME NEW p, NEW source, NEW offset0,
         \/ p.state \in {"head", "headers", "content"} /\ ~IsFrame(p)
         \/ p.state \in {"operation", "len", "extlen", "masking", "payload"} /\ IsFrame(p)
  PROVE  IsFrame(OnUnpack(p, source, offset0).protocol) = IsFrame(p)
  <1>1. CASE p.state \in {"head", "headers", "content"} /\ ~IsFrame(p)
    <2>1. DOMAIN UnpackHead(p, source, offset0).protocol = DOMAIN p
      BY DEF UnpackHead, Result
    <2>2. DOMAIN UnpackHeaders(p, source, offset0).protocol = DOMAIN p
      BY DEF UnpackHeaders, Result
    <2>3. DOMAIN UnpackContent(p, source, offset0).protocol = DOMAIN p
      BY DEF UnpackContent, Result
    <2>4. DOMAIN HttpOnUnpack(p, source, offset0).protocol = DOMAIN p
      BY <1>1, <2>1, <2>2, <2>3 DEF HttpOnUnpack
    <2> QED
      BY <1>1, <2>4 DEF OnUnpack, IsFrame
  <1>2. CASE p.state \in {"operation", "len", "extlen", "masking", "payload"} /\ IsFrame(p)
    <2>1. DOMAIN UnpackOperation(p, source, offset0).protocol = DOMAIN p
      BY DEF UnpackOperation, Take, Result
    <2>2. DOMAIN UnpackLen(p, source, offset0).protocol = DOMAIN p
      BY DEF UnpackLen, Take, Result
    <2>3. DOMAIN UnpackEXTLen(p, source, offset0).protocol = DOMAIN p
      BY DEF UnpackEXTLen, Take, Result
    <2>4. DOMAIN UnpackMasking(p, source, offset0).protocol = DOMAIN p
      BY DEF UnpackMasking, Take, Result
    <2>5. DOMAIN UnpackPayload(p, source, offset0).protocol = DOMAIN p
      BY DEF UnpackPayload, Take, Result
    <2>6. DOMAIN WsOnUnpack(p, source, offset0).protocol = DOMAIN p
      BY <1>2, <2>1, <2>2, <2>3, <2>4, <2>5 DEF WsOnUnpack
    <2> QED
      BY <1>2, <2>6 DEF OnUnpack, IsFrame
  <1> QED
    BY <1>1, <1>2

(* One call on the bytes of a message, and the bytes themselves. *)
LEMMA MessageStep ==
  ASSUME NEW m \in Message, NEW n, NEW p, Reached(p, m, n),
         NEW source \in Seq(Nat), NEW at \in 1 .. Len(source) + 1,
         Agrees(source, at, Encoded(m), n)
  PROVE  LET r == OnUnpack(p, source, at)
         IN  /\ Moves(r, p, source, at, Encoded(m), n)
             /\ r.status = "continue" => Reached(r.protocol, m, n + (r.offset - at))
             /\ r.status = "complete" => Decoded(r.protocol) = AsDelivered(m) /\ WellFormed(m)
             /\ r.status = "error" => Refused(m)
             /\ r.status = "raise" => TooLong(m)
  <1> DEFINE r == OnUnpack(p, source, at)
  <1>1. CASE m \in HttpMessage
    <2>1. ~IsFrame(m) /\ HttpAt(p, m, n)
      BY <1>1, Classes DEF Reached
    <2>2. ~IsFrame(p) /\ p.state \in {"head", "headers", "content"}
      BY <2>1, Classes
    <2>3. r = HttpOnUnpack(p, source, at) /\ ~IsFrame(r.protocol)
      BY <2>2, ClassKept DEF OnUnpack
    <2> HIDE DEF r
    <2>4. /\ Encoded(m) = HttpEncoded(m) /\ WellFormed(m) = HttpWellFormed(m)
          /\ AsDelivered(m) = HttpDelivered(m) /\ Refused(m) = ~HttpWellFormed(m)
      BY <2>1 DEF Encoded, WellFormed, AsDelivered, Refused, HttpWellFormed
    <2>5. /\ Moves(r, p, source, at, HttpEncoded(m), n)
          /\ r.status = "continue" => HttpAt(r.protocol, m, n + (r.offset - at))
          /\ r.status = "complete" => HttpDecoded(r.protocol) = HttpDelivered(m) /\ HttpWellFormed(m)
          /\ r.status = "error" => ~HttpWellFormed(m)
          /\ r.status # "raise"
      BY <1>1, <2>1, <2>3, <2>4, HttpStep
    <2> QED
      BY <2>1, <2>3, <2>4, <2>5 DEF Reached, Decoded, r
  <1>2. CASE m \in WsMessage
    <2>1. IsFrame(m) /\ WsAt(p, m, n)
      BY <1>2, Classes DEF Reached
    <2>2. IsFrame(p) /\ p.state \in {"operation", "len", "extlen", "masking", "payload"}
      BY <2>1, Classes
    <2>3. r = WsOnUnpack(p, source, at) /\ IsFrame(r.protocol)
      BY <2>2, ClassKept DEF OnUnpack
    <2> HIDE DEF r
    <2>4. /\ Encoded(m) = WsEncoded(m) /\ WellFormed(m) = WsWellFormed(m)
          /\ AsDelivered(m) = m /\ TooLong(m) = ~WsWellFormed(m)
      BY <2>1 DEF Encoded, WellFormed, AsDelivered, TooLong, WsWellFormed
    <2>5. /\ Moves(r, p, source, at, WsEncoded(m), n)
          /\ r.status = "continue" => WsAt(r.protocol, m, n + (r.offset - at))
          /\ r.status = "complete" => WsDecoded(r.protocol) = m /\ WsWellFormed(m)
          /\ r.status = "raise" => ~WsWellFormed(m)
          /\ r.status # "error"
      BY <1>2, <2>1, <2>3, <2>4, WsStep
    <2> QED
      BY <2>1, <2>3, <2>4, <2>5 DEF Reached, Decoded, r
  <1> QED
    BY <1>1, <1>2 DEF Message

LEMMA MessageBytes ==
  ASSUME NEW m \in Message
  PROVE  /\ Encoded(m) \in Seq(Nat) /\ Len(Encoded(m)) \in Nat \ {0}
         /\ Reached(NewProtocol(IsFrame(m)), m, 0)
         /\ \A p, n : Reached(p, m, n) => n \in 0 .. Len(Encoded(m))
  <1>1. CASE m \in HttpMessage
    <2>1. ~IsFrame(m)
      BY <1>1, Classes
    <2> QED
      BY <1>1, <2>1, HttpWithin DEF Encoded, NewProtocol, Reached
  <1>2. CASE m \in WsMessage
    <2>1. IsFrame(m)
      BY <1>2, Classes
    <2> QED
      BY <1>2, <2>1, WsWithin DEF Encoded, NewProtocol, Reached
  <1> QED
    BY <1>1, <1>2 DEF Message

(* A part of a string of bytes. *)
LEMMA Substring ==
  ASSUME NEW s \in Seq(Nat), NEW a \in 1 .. Len(s) + 1, NEW b \in a - 1 .. Len(s)
  PROVE  /\ SubSeq(s, a, b) \in Seq(Nat) /\ Len(SubSeq(s, a, b)) = b - a + 1
         /\ \A i \in 1 .. b - a + 1 : SubSeq(s, a, b)[i] = s[a - 1 + i]
  <1> DEFINE size == b - a + 1
  <1>1. /\ a \in Int /\ b \in Int /\ size \in Nat /\ Len(s) \in Nat
        /\ a - 1 + size = b /\ Len(s) >= (a - 1) + size
    OBVIOUS
  <1>2. CheckNeed(s, a, size) /\ PacketSlice(s, a, size) = SubSeq(s, a, b)
    BY <1>1 DEF CheckNeed, PacketSlice
  <1> HIDE DEF size
  <1>3. LET t == PacketSlice(s, a, size)
        IN  t \in Seq(Nat) /\ Len(t) = size /\ \A i \in 1 .. size : t[i] = s[a - 1 + i]
    BY <1>1, <1>2, Slice
  <1> QED
    BY <1>2, <1>3 DEF size

(* The numbers that the invariant speaks of. *)
LEMMA Numbers ==
  ASSUME Inv
  PROVE  /\ Len(wire) \in Nat /\ Len(buffer) \in Nat /\ Len(stream) \in Nat
         /\ Len(sent) \in Nat /\ Done \in 0 .. Len(sent)
         /\ \A i \in 0 .. Len(sent) : EndOf(i) \in Nat /\ EndOf(i) <= Len(stream)
         /\ offset \in 1 .. Len(buffer) + 1
         /\ Base \in Nat /\ Received = Base + Len(buffer) /\ Len(stream) = Received + Len(wire)
         /\ Received \in Nat /\ Consumed \in Int
  <1>1. /\ Len(wire) \in Nat /\ Len(buffer) \in Nat /\ Len(stream) \in Nat
        /\ Len(sent) \in Nat /\ Len(delivered) \in Nat /\ Len(delivered) <= Len(sent)
        /\ offset \in 1 .. Len(buffer) + 1
    BY DEF Inv, Types
  <1>2. Done \in 0 .. Len(sent)
    BY <1>1 DEF Done
  <1>3. \A i \in 0 .. Len(sent) : EndOf(i) \in Nat /\ EndOf(i) <= Len(stream)
    <2> SUFFICES ASSUME NEW i \in 0 .. Len(sent)
                 PROVE  EndOf(i) \in Nat /\ EndOf(i) <= Len(stream)
      OBVIOUS
    <2>1. CASE i = 0
      BY <1>1, <2>1 DEF EndOf
    <2>2. CASE i # 0
      <3>1. i \in 1 .. Len(sent)
        BY <1>1, <2>2
      <3>2. ends \in Seq(Nat) /\ Len(ends) = Len(sent) /\ ends[i] <= Len(stream)
        BY <3>1 DEF Inv, Types, Streamed, Sent
      <3>3. ends[i] \in Nat
        BY <3>1, <3>2, ElementOfSeq
      <3> QED
        BY <2>2, <3>2, <3>3 DEF EndOf
    <2> QED
      BY <2>1, <2>2
  <1>4. Base >= 0
    BY DEF Inv, Buffered
  <1>5. /\ Received = Len(stream) - Len(wire) /\ Base = Received - Len(buffer)
        /\ Consumed = Base + offset - 1 - EndOf(Done)
    BY DEF Received, Base, Consumed
  <1>6. EndOf(Done) \in Nat
    BY <1>2, <1>3
  <1> DEFINE w == Len(wire)
             b == Len(buffer)
             l == Len(stream)
             e == EndOf(Done)
  <1> HIDE DEF w, b, l, e
  <1>7. w \in Nat /\ b \in Nat /\ l \in Nat /\ e \in Nat /\ offset \in 1 .. b + 1
    BY <1>1, <1>6 DEF w, b, l, e
  <1>8. Base >= 0 /\ Received = l - w /\ Base = Received - b /\ Consumed = Base + offset - 1 - e
    BY <1>4, <1>5 DEF w, b, l, e
  <1>9. /\ Base \in Nat /\ Received = Base + b /\ l = Received + w
        /\ Received \in Nat /\ Consumed \in Int
    BY <1>7, <1>8
  <1> QED
    BY <1>1, <1>2, <1>3, <1>9 DEF w, b, l

LEMMA SentMessage ==
  ASSUME Inv, NEW i \in 1 .. Len(sent)
  PROVE  /\ sent[i] \in Message
         /\ Encoded(sent[i]) \in Seq(Nat) /\ Len(Encoded(sent[i])) \in Nat \ {0}
         /\ EndOf(i) = EndOf(i - 1) + Len(Encoded(sent[i]))
  <1>1. sent[i] \in Message
    <2>1. sent \in Seq(Message)
      BY DEF Inv, Types
    <2> QED
      BY <2>1, ElementOfSeq
  <1>2. ends[i] = EndOf(i - 1) + Len(Encoded(sent[i]))
    BY DEF Inv, Streamed, Sent
  <1>3. EndOf(i) = ends[i]
    BY DEF EndOf
  <1> QED
    BY <1>1, <1>2, <1>3, MessageBytes

(* In a handler there is a message that was not delivered. *)
LEMMA Busy ==
  ASSUME Inv, pc # "idle"
  PROVE  /\ Done < Len(sent) /\ Done + 1 \in 1 .. Len(sent) /\ Current \in Message
         /\ EndOf(Done) \in Nat /\ EndOf(Done + 1) \in Nat
         /\ EndOf(Done + 1) = EndOf(Done) + Len(Encoded(Current))
  <1>1. Done # Len(sent)
    BY DEF Inv, Waiting
  <1>2. Done \in 0 .. Len(sent) /\ Len(sent) \in Nat
    BY Numbers
  <1>3. Done < Len(sent) /\ Done + 1 \in 1 .. Len(sent) /\ (Done + 1) - 1 = Done
    BY <1>1, <1>2
  <1>4. EndOf(Done) \in Nat /\ EndOf(Done + 1) \in Nat
    BY <1>2, <1>3, Numbers
  <1> QED
    BY <1>3, <1>4, SentMessage DEF Current

-----------------------------------------------------------------------------
(* Steps of the session leave what was sent alone. *)
LEMMA HistoryKept ==
  ASSUME UNCHANGED history
  PROVE  /\ sent' = sent /\ stream' = stream /\ ends' = ends
         /\ \A i : EndOf(i)' = EndOf(i)
         /\ \A i : Asked(i)' = Asked(i)
         /\ Streamed => Streamed'
  <1>1. sent' = sent /\ stream' = stream /\ ends' = ends
    BY DEF history
  <1>2. \A i : EndOf(i)' = EndOf(i)
    BY <1>1 DEF EndOf
  <1>3. \A i : Asked(i)' = Asked(i)
    BY <1>1 DEF Asked
  <1>4. \A i : Sent(i)' = Sent(i)
    BY <1>1 DEF Sent, EndOf, Asked
  <1>5. Streamed => Streamed'
    BY <1>1, <1>2, <1>4 DEF Streamed
  <1> QED
    BY <1>1, <1>2, <1>3, <1>5

LEMMA InitInv ==
  ASSUME Init
  PROVE  Inv
  <1>1. Done = 0 /\ Received = 0 /\ Base = 0 /\ EndOf(0) = 0 /\ Consumed = 0
    <2>1. Len(wire) = 0 /\ Len(buffer) = 0 /\ Len(stream) = 0 /\ Len(delivered) = 0 /\ offset = 1
      BY DEF Init
    <2>2. EndOf(0) = 0
      BY DEF EndOf
    <2>3. Done = 0
      BY <2>1 DEF Done
    <2>4. Received = 0
      BY <2>1 DEF Received
    <2>5. Base = 0
      BY <2>1, <2>4 DEF Base
    <2>6. Consumed = 0
      BY <2>1, <2>2, <2>3, <2>5 DEF Consumed
    <2> QED
      BY <2>2, <2>3, <2>4, <2>5, <2>6
  <1>2. Types
    <2>1. /\ wire \in Seq(Nat) /\ buffer \in Seq(Nat) /\ stream \in Seq(Nat)
          /\ sent \in Seq(Message) /\ ends \in Seq(Nat) /\ delivered \in Seq({AsDelivered(m) : m \in Message})
          /\ Len(sent) = 0 /\ Len(ends) = 0 /\ Len(delivered) = 0 /\ Len(buffer) = 0
      BY EmptySeq DEF Init
    <2>2. offset \in 1 .. Len(buffer) + 1 /\ Len(sent) <= MaxMessages /\ Len(delivered) <= Len(sent)
      BY <2>1, FramingAssumption DEF Init
    <2> QED
      BY <2>1, <2>2 DEF Init, Types
  <1>3. Streamed
    BY <1>1 DEF Init, Streamed
  <1>4. Buffered
    BY <1>1 DEF Init, Buffered
  <1>5. Given
    <2>1. Asked(0) = FALSE
      BY DEF Asked
    <2>2. isWebsocket = FALSE
      BY DEF Init
    <2>3. 1 .. Done = {}
      BY <1>1
    <2> QED
      BY <1>1, <2>1, <2>2, <2>3 DEF Given
  <1>6. Waiting
    BY <1>1 DEF Init, Waiting
  <1>7. Parsing
    BY <1>1 DEF Init, Parsing
  <1> QED
    BY <1>2, <1>3, <1>4, <1>5, <1>6, <1>7 DEF Init, Inv

(* What the parts of the invariant that are about the stream become when   *)
(* the session takes a step.                                               *)
LEMMA ReceiveInv ==
  ASSUME Inv, NEW k, Receive(k)
  PROVE  Inv'
  <1>1. /\ sent' = sent /\ stream' = stream /\ ends' = ends /\ Streamed'
        /\ \A i : EndOf(i)' = EndOf(i) /\ Asked(i)' = Asked(i)
    BY HistoryKept DEF Inv, Receive
  <1>2. /\ pc = "idle" /\ pc' = "unpack" /\ k \in 1 .. Len(wire)
        /\ buffer' = buffer \o SubSeq(wire, 1, k) /\ wire' = SubSeq(wire, k + 1, Len(wire))
        /\ UNCHANGED <<protocol, offset, isWebsocket, delivered>>
        /\ offset = 1 /\ wire \in Seq(Nat) /\ buffer \in Seq(Nat)
    BY DEF Receive, Inv, Types
  <1> DEFINE w == Len(wire)
             b == Len(buffer)
             head == SubSeq(wire, 1, k)
             tail == SubSeq(wire, k + 1, w)
  <1>3. w \in Nat /\ b \in Nat /\ k \in Nat /\ k > 0 /\ k <= w
    BY <1>2
  <1>4. head \in Seq(Nat) /\ Len(head) = k /\ \A i \in 1 .. k : head[i] = wire[i]
    <2>1. 1 \in 1 .. w + 1 /\ k \in 1 - 1 .. w /\ k - 1 + 1 = k /\ \A i \in 1 .. k : 1 - 1 + i = i
      BY <1>3
    <2>2. /\ head \in Seq(Nat) /\ Len(head) = k - 1 + 1
          /\ \A i \in 1 .. k - 1 + 1 : head[i] = wire[1 - 1 + i]
      BY <1>2, <2>1, Substring
    <2> QED
      BY <2>1, <2>2
  <1>5. tail \in Seq(Nat) /\ Len(tail) = w - k /\ \A i \in 1 .. w - k : tail[i] = wire[k + i]
    <2>1. /\ k + 1 \in 1 .. w + 1 /\ w \in (k + 1) - 1 .. w /\ w - (k + 1) + 1 = w - k
          /\ \A i \in 1 .. w - k : (k + 1) - 1 + i = k + i
      BY <1>3
    <2>2. /\ tail \in Seq(Nat) /\ Len(tail) = w - (k + 1) + 1
          /\ \A i \in 1 .. w - (k + 1) + 1 : tail[i] = wire[(k + 1) - 1 + i]
      BY <1>2, <2>1, Substring
    <2> QED
      BY <2>1, <2>2
  <1>6. buffer' = buffer \o head /\ wire' = tail
    BY <1>2
  <1> HIDE DEF head, tail
  <1>7. /\ buffer' \in Seq(Nat) /\ Len(buffer') = b + k
        /\ \A i \in 1 .. b : buffer'[i] = buffer[i]
        /\ \A i \in 1 .. k : buffer'[b + i] = head[i]
    <2>1. /\ buffer \o head \in Seq(Nat) /\ Len(buffer \o head) = Len(buffer) + Len(head)
          /\ \A i \in 1 .. Len(buffer) : (buffer \o head)[i] = buffer[i]
          /\ \A i \in 1 .. Len(head) : (buffer \o head)[Len(buffer) + i] = head[i]
      BY <1>2, <1>4, Concat
    <2> QED
      BY <1>4, <1>6, <2>1
  <1>8. /\ Base \in Nat /\ Received = Base + b /\ Len(stream) = Received + w /\ Received \in Nat
        /\ Len(stream) \in Nat
    BY Numbers
  <1> HIDE DEF w, b
  <1>9. Received' = Received + k /\ Base' = Base /\ Done' = Done /\ Consumed' = Consumed
    <2>1. Received' = Len(stream) - (w - k)
      BY <1>1, <1>5, <1>6 DEF Received
    <2>2. Received' = Received + k
      BY <1>3, <1>8, <2>1
    <2>3. Base' = Received' - (b + k)
      BY <1>7 DEF Base
    <2>4. Base' = Base
      BY <1>3, <1>8, <2>2, <2>3
    <2>5. Done' = Done
      BY <1>2 DEF Done
    <2>6. Consumed' = Base' + offset' - 1 - EndOf(Done)'
      BY <2>5 DEF Consumed
    <2>7. EndOf(Done)' = EndOf(Done)
      BY <2>5, <1>1 DEF EndOf
    <2> QED
      BY <1>1, <1>2, <2>2, <2>4, <2>5, <2>6, <2>7 DEF Consumed
  <1>10. Types'
    <2>1. wire' \in Seq(Nat) /\ buffer' \in Seq(Nat) /\ offset' \in 1 .. Len(buffer') + 1
      <3>1. b \in Nat /\ offset = 1 /\ offset' = offset
        BY <1>2 DEF b
      <3>2. offset' \in 1 .. (b + k) + 1
        BY <1>3, <3>1
      <3> QED
        BY <1>5, <1>6, <1>7, <3>2
    <2> QED
      BY <1>1, <1>2, <2>1 DEF Inv, Types
  <1>11. Buffered'
    <2>1. /\ \A i \in 1 .. w : wire[i] = stream[Received + i]
          /\ \A i \in 1 .. b : buffer[i] = stream[Base + i]
      BY DEF Inv, Buffered, w, b
    <2>2. \A i \in 1 .. w - k : wire'[i] = stream[Received + k + i]
      <3> SUFFICES ASSUME NEW i \in 1 .. w - k
                   PROVE  wire'[i] = stream[Received + k + i]
        OBVIOUS
      <3>1. k + i \in 1 .. w /\ Received + (k + i) = Received + k + i
        BY <1>3, <1>8
      <3>2. wire[k + i] = stream[Received + (k + i)]
        BY <2>1, <3>1
      <3> QED
        BY <1>5, <1>6, <3>1, <3>2
    <2>3. \A i \in 1 .. b + k : buffer'[i] = stream[Base + i]
      <3> SUFFICES ASSUME NEW i \in 1 .. b + k
                   PROVE  buffer'[i] = stream[Base + i]
        OBVIOUS
      <3>0. b \in Nat
        BY <1>2 DEF b
      <3>1. CASE i <= b
        <4>1. i \in 1 .. b
          BY <1>3, <3>0, <3>1
        <4> QED
          BY <1>7, <2>1, <4>1
      <3>2. CASE i > b
        <4>1. i - b \in 1 .. k /\ b + (i - b) = i
          BY <1>3, <3>0, <3>2
        <4>2. i - b \in 1 .. w /\ Received + (i - b) = Base + i
          BY <1>3, <1>8, <3>0, <4>1
        <4>3. buffer'[b + (i - b)] = head[i - b]
          BY <1>7, <4>1
        <4>4. head[i - b] = wire[i - b] /\ wire[i - b] = stream[Received + (i - b)]
          BY <1>4, <2>1, <4>1, <4>2
        <4> QED
          BY <4>1, <4>2, <4>3, <4>4
      <3> QED
        BY <1>3, <3>0, <3>1, <3>2
    <2>4. Len(wire') = w - k /\ Len(buffer') = b + k
      BY <1>5, <1>6, <1>7
    <2>5. Base' >= 0
      BY <1>8, <1>9
    <2>6. \A i \in 1 .. Len(wire') : wire'[i] = stream'[Received' + i]
      BY <1>1, <1>9, <2>2, <2>4
    <2>7. \A i \in 1 .. Len(buffer') : buffer'[i] = stream'[Base' + i]
      BY <1>1, <1>9, <2>3, <2>4
    <2> QED
      BY <2>5, <2>6, <2>7 DEF Buffered
  <1>12. Given'
    <2>1. Asked(Done)' = Asked(Done)
      BY <1>1, <1>9 DEF Asked
    <2> QED
      BY <1>1, <1>2, <1>9, <2>1 DEF Inv, Given
  <1>13. Done # Len(sent)
    <2>1. Done = Len(sent) => Consumed = 0 /\ Len(stream) = EndOf(Done)
      BY <1>2 DEF Inv, Waiting, Streamed
    <2>2. Consumed = Base + offset - 1 - EndOf(Done) /\ EndOf(Done) \in Nat
      <3>1. Done \in 0 .. Len(sent)
        BY Numbers
      <3> QED
        BY <3>1, Numbers DEF Consumed
    <2>3. Base \in Nat /\ offset = 1 /\ Len(stream) = (Base + b) + w /\ b \in Nat /\ w \in Nat /\ w > 0
      BY <1>2, <1>3, <1>8
    <2>4. ASSUME Consumed = 0, Len(stream) = EndOf(Done)
          PROVE  FALSE
      BY ONLY <2>2, <2>3, <2>4
    <2> QED
      BY <2>1, <2>4
  <1>14. Waiting'
    BY <1>1, <1>9, <1>13 DEF Waiting
  <1>15. Parsing'
    <2>1. Done < Len(sent)
      BY <1>13, Numbers
    <2>2. Current' = Current /\ EndOf(Done + 1)' = EndOf(Done + 1)
      BY <1>1, <1>9 DEF Current, EndOf
    <2>3. Reached(protocol, Current, Consumed) /\ Received < EndOf(Done + 1)
      BY <1>2, <2>1 DEF Inv, Parsing
    <2>4. Reached(protocol, Current, Consumed)'
      BY <1>2, <1>9, <2>2, <2>3 DEF Reached
    <2>5. EndOf(Done + 1) \in Nat /\ b \in Nat
      <3>1. Done + 1 \in 0 .. Len(sent)
        <4>1. Done \in Nat /\ Len(sent) \in Nat
          BY Numbers
        <4> QED
          BY <2>1, <4>1
      <3> QED
        BY <1>2, <3>1, Numbers DEF b
    <2>6. Base < EndOf(Done + 1)
      BY <1>8, <2>3, <2>5
    <2> QED
      BY <1>1, <1>2, <1>9, <2>2, <2>4, <2>6 DEF Parsing
  <1> QED
    BY <1>1, <1>2, <1>10, <1>11, <1>12, <1>14, <1>15 DEF Inv

(* A step that changes only the object, its offset and the control. *)
LEMMA OnlyParses ==
  ASSUME Inv, UNCHANGED <<wire, buffer, isWebsocket, delivered, history>>
  PROVE  /\ sent' = sent /\ Streamed' /\ Buffered' /\ Given'
         /\ Base' = Base /\ Received' = Received /\ Done' = Done /\ Current' = Current
         /\ \A i : EndOf(i)' = EndOf(i)
         /\ Consumed' = Base + offset' - 1 - EndOf(Done)
         /\ (offset' \in 1 .. Len(buffer) + 1
             /\ pc' \in {"idle", "unpack", "pending", "complete", "error", "closed", "raise"}) => Types'
  <1>1. /\ sent' = sent /\ stream' = stream /\ ends' = ends /\ Streamed'
        /\ \A i : EndOf(i)' = EndOf(i) /\ Asked(i)' = Asked(i)
        /\ UNCHANGED <<wire, buffer, isWebsocket, delivered>>
    BY HistoryKept DEF Inv
  <1>2. Received' = Received
    BY <1>1 DEF Received
  <1>3. Base' = Base
    BY <1>1, <1>2 DEF Base
  <1>4. Done' = Done
    BY <1>1 DEF Done
  <1>5. Current' = Current
    BY <1>1, <1>4 DEF Current
  <1>6. EndOf(Done)' = EndOf(Done) /\ Asked(Done)' = Asked(Done)
    BY <1>1, <1>4 DEF EndOf, Asked
  <1>7. Consumed' = Base + offset' - 1 - EndOf(Done)
    BY <1>3, <1>6 DEF Consumed
  <1>8. Buffered'
    BY <1>1, <1>2, <1>3 DEF Inv, Buffered
  <1>9. Given'
    BY <1>1, <1>4, <1>6 DEF Inv, Given
  <1>10. (offset' \in 1 .. Len(buffer) + 1
          /\ pc' \in {"idle", "unpack", "pending", "complete", "error", "closed", "raise"}) => Types'
    BY <1>1 DEF Inv, Types
  <1> QED
    BY <1>1, <1>2, <1>3, <1>4, <1>5, <1>7, <1>8, <1>9, <1>10

LEMMA UnpackInv ==
  ASSUME Inv, Unpack
  PROVE  Inv'
  <1> DEFINE r == OnUnpack(protocol, buffer, offset)
             n == Consumed
             b == Encoded(Current)
             e == EndOf(Done)
             size == Len(b)
             have == Len(buffer)
  <1>1. /\ pc = "unpack" /\ protocol' = r.protocol /\ offset' = r.offset
        /\ pc' = IF r.status = "continue" THEN "unpack" ELSE r.status
        /\ UNCHANGED <<wire, buffer, isWebsocket, delivered, history>>
    BY DEF Unpack
  <1>2. /\ Done < Len(sent) /\ Done + 1 \in 1 .. Len(sent) /\ Current \in Message
        /\ e \in Nat /\ EndOf(Done + 1) \in Nat /\ EndOf(Done + 1) = e + size
    BY <1>1, Busy
  <1>3. Reached(protocol, Current, n) /\ Base < EndOf(Done + 1)
    BY <1>1, <1>2 DEF Inv, Parsing
  <1>4. b \in Seq(Nat) /\ size \in Nat /\ n \in 0 .. size
    BY <1>2, <1>3, MessageBytes
  <1>5. /\ have \in Nat /\ offset \in 1 .. have + 1 /\ Base \in Nat /\ Received = Base + have
        /\ buffer \in Seq(Nat) /\ n = Base + offset - 1 - e
    BY Numbers DEF Inv, Types, Consumed
  <1> HIDE DEF r, n, e, size, have
  <1>6. Agrees(buffer, offset, b, n)
    <2>1. \A j \in 1 .. size : stream[e + j] = b[j]
      <3>1. Sent(Done + 1) /\ (Done + 1) - 1 = Done
        <4>1. \A i \in 1 .. Len(sent) : Sent(i)
          BY DEF Inv, Streamed
        <4>2. Done \in Nat
          BY Numbers
        <4> QED
          BY <1>2, <4>1, <4>2
      <3> QED
        BY <3>1 DEF Sent, Current, e, size
    <2>2. \A i \in 1 .. have : buffer[i] = stream[Base + i]
      BY DEF Inv, Buffered, have
    <2>3. ASSUME NEW i \in 1 .. size - n, offset - 1 + i <= have
          PROVE  buffer[offset - 1 + i] = b[n + i]
      <3>1. /\ offset - 1 + i \in 1 .. have /\ n + i \in 1 .. size
            /\ Base + (offset - 1 + i) = e + (n + i)
        BY <1>2, <1>4, <1>5, <2>3
      <3>2. buffer[offset - 1 + i] = stream[Base + (offset - 1 + i)]
        BY <2>2, <3>1
      <3>3. stream[e + (n + i)] = b[n + i]
        BY <2>1, <3>1
      <3> QED
        BY <3>1, <3>2, <3>3
    <2> QED
      BY <2>3 DEF Agrees, size, have
  <1>7. /\ Moves(r, protocol, buffer, offset, b, n)
        /\ r.status = "continue" => Reached(r.protocol, Current, n + (r.offset - offset))
        /\ r.status = "complete" => Decoded(r.protocol) = AsDelivered(Current) /\ WellFormed(Current)
        /\ r.status = "error" => Refused(Current)
        /\ r.status = "raise" => TooLong(Current)
    <2>1. offset \in 1 .. Len(buffer) + 1
      BY <1>5 DEF have
    <2> QED
      BY <1>2, <1>3, <1>5, <1>6, <2>1, MessageStep DEF r
  <1> HIDE DEF b
  <1>8. /\ r.offset \in offset .. have + 1
        /\ r.status \in {"continue", "pending", "complete", "error", "raise"}
        /\ r.status = "pending" => r.protocol = protocol /\ r.offset = offset
                                  /\ n + (have - offset) + 1 < size
        /\ r.status = "complete" => n + (r.offset - offset) = size
    BY <1>7 DEF Moves, have, size
  <1> DEFINE o == r.offset
             s == r.status
  <1>9. /\ o \in 1 .. have + 1
        /\ n + (o - offset) = Base + o - 1 - e
        /\ s = "pending" => Received < e + size
        /\ s = "complete" => Base + o - 1 = e + size
    <2>1. /\ o \in offset .. have + 1
          /\ s = "pending" => n + (have - offset) + 1 < size
          /\ s = "complete" => n + (o - offset) = size
      BY <1>8
    <2> HIDE DEF o, s
    <2>2. o \in 1 .. have + 1 /\ n + (o - offset) = Base + o - 1 - e
      BY <1>2, <1>4, <1>5, <2>1
    <2>3. s = "pending" => Received < e + size
      <3>1. ASSUME n + (have - offset) + 1 < size
            PROVE  Received < e + size
        BY <1>2, <1>4, <1>5, <3>1
      <3> QED
        BY <2>1, <3>1
    <2>4. s = "complete" => Base + o - 1 = e + size
      <3>1. ASSUME n + (o - offset) = size
            PROVE  Base + o - 1 = e + size
        BY <1>2, <1>4, <1>5, <2>2, <3>1
      <3> QED
        BY <2>1, <3>1
    <2> QED
      BY <2>2, <2>3, <2>4
  <1>10. /\ sent' = sent /\ Streamed' /\ Buffered' /\ Given'
         /\ Base' = Base /\ Received' = Received /\ Done' = Done /\ Current' = Current
         /\ EndOf(Done + 1)' = EndOf(Done + 1)
         /\ Consumed' = Base + offset' - 1 - e
         /\ (offset' \in 1 .. Len(buffer) + 1
             /\ pc' \in {"idle", "unpack", "pending", "complete", "error", "closed", "raise"}) => Types'
    <2>1. Done' = Done /\ ends' = ends
      BY <1>1, OnlyParses DEF history
    <2>2. EndOf(Done + 1)' = EndOf(Done + 1)
      BY <2>1 DEF EndOf
    <2> QED
      BY <1>1, <2>2, OnlyParses DEF e
  <1>11. pc' \in {"unpack", "pending", "complete", "error", "raise"}
    BY <1>1, <1>8
  <1>12. Types'
    BY <1>1, <1>9, <1>10, <1>11 DEF have
  <1>13. Waiting'
    <2>1. Done # Len(sent)
      <3>1. Done \in Nat /\ Len(sent) \in Nat
        BY Numbers
      <3>2. Done < Len(sent)
        BY <1>2
      <3> QED
        BY ONLY <3>1, <3>2
    <2> QED
      BY <1>10, <2>1 DEF Waiting
  <1>14. Parsing'
    <2>1. pc' \in {"unpack", "pending"} => Reached(protocol', Current, Consumed')
      <3>1. CASE s = "continue"
        BY <1>1, <1>7, <1>9, <1>10, <3>1
      <3>2. CASE s = "pending"
        BY <1>1, <1>3, <1>5, <1>8, <1>10, <3>2
      <3>3. CASE s \in {"complete", "error", "raise"}
        BY <1>1, <3>3
      <3> QED
        BY <1>8, <3>1, <3>2, <3>3
    <2>2. Reached(protocol', Current, Consumed') = Reached(protocol, Current, Consumed)'
      BY <1>10 DEF Reached
    <2>3. pc' = "pending" => Received < EndOf(Done + 1)
      BY <1>1, <1>2, <1>9
    <2>4. pc' = "complete" => s = "complete"
      BY <1>1
    <2>5. pc' = "error" => s = "error"
      BY <1>1
    <2>6. /\ Decoded(protocol)' = Decoded(protocol') /\ WellFormed(Current)' = WellFormed(Current)
          /\ AsDelivered(Current)' = AsDelivered(Current)
          /\ Refused(Current)' = Refused(Current) /\ TooLong(Current)' = TooLong(Current)
      BY <1>10 DEF Decoded, WellFormed, AsDelivered, Refused, TooLong
    <2>7. pc' = "complete" =>
            Decoded(protocol') = AsDelivered(Current) /\ WellFormed(Current) /\ Base + offset' - 1 = EndOf(Done + 1)
      BY <1>1, <1>2, <1>7, <1>9, <2>4
    <2>8. pc' = "error" => Refused(Current)
      BY <1>7, <2>5
    <2>9. pc' = "raise" => TooLong(Current)
      BY <1>1, <1>7
    <2> QED
      BY <1>1, <1>3, <1>10, <1>11, <2>1, <2>2, <2>3, <2>6, <2>7, <2>8, <2>9 DEF Parsing
  <1> QED
    BY <1>10, <1>11, <1>12, <1>13, <1>14 DEF Inv

LEMMA ErrorInv ==
  ASSUME Inv, Error
  PROVE  Inv'
  <1>1. /\ pc = "error" /\ pc' = "closed" /\ protocol' = protocol /\ offset' = offset
        /\ UNCHANGED <<wire, buffer, isWebsocket, delivered, history>>
    BY DEF Error
  <1>2. Done < Len(sent)
    BY <1>1, Busy
  <1>3. /\ sent' = sent /\ Streamed' /\ Buffered' /\ Given' /\ Done' = Done /\ Current' = Current
        /\ Types'
    <2>1. offset \in 1 .. Len(buffer) + 1
      BY Numbers
    <2> QED
      BY <1>1, <2>1, OnlyParses
  <1>4. Waiting'
    BY <1>2, <1>3, Numbers DEF Waiting
  <1>5. Refused(Current) /\ Refused(Current)' = Refused(Current)
    BY <1>1, <1>2, <1>3 DEF Inv, Parsing, Refused
  <1>6. Parsing'
    BY <1>1, <1>3, <1>5 DEF Parsing
  <1> QED
    BY <1>1, <1>3, <1>4, <1>6 DEF Inv

(* What was parsed leaves the buffer. *)
LEMMA ReturnKeeps ==
  ASSUME Inv, Return, UNCHANGED <<wire, history>>
  PROVE  /\ sent' = sent /\ Streamed' /\ Buffered'
         /\ wire' \in Seq(Nat) /\ buffer' \in Seq(Nat)
         /\ offset' = 1 /\ offset' \in 1 .. Len(buffer') + 1
         /\ Base' = Base + offset - 1 /\ Received' = Received
         /\ pc' \in {"idle", "unpack"}
         /\ pc' = "idle" => offset = 1 \/ Base' = Received
         /\ pc' = "unpack" => Base' < Received
  <1> DEFINE have == Len(buffer)
             rest == SubSeq(buffer, offset, have)
             size == have - offset + 1
  <1>1. /\ buffer' = rest /\ offset' = 1 /\ wire' = wire
        /\ pc' = IF rest = <<>> \/ offset = 1 THEN "idle" ELSE "unpack"
    BY DEF Return
  <1>2. /\ sent' = sent /\ stream' = stream /\ ends' = ends /\ Streamed'
    BY HistoryKept DEF Inv
  <1>3. /\ have \in Nat /\ offset \in 1 .. have + 1 /\ Base \in Nat /\ Received = Base + have
        /\ buffer \in Seq(Nat) /\ wire \in Seq(Nat)
    BY Numbers DEF Inv, Types
  <1>4. have \in offset - 1 .. have /\ size \in Nat
    BY <1>3
  <1>5. rest \in Seq(Nat) /\ Len(rest) = size /\ \A i \in 1 .. size : rest[i] = buffer[offset - 1 + i]
    BY <1>3, <1>4, Substring
  <1> HIDE DEF rest
  <1>6. Received' = Received
    BY <1>1, <1>2 DEF Received
  <1>7. Base' = Base + offset - 1
    <2>1. Base' = Received - size
      BY <1>1, <1>5, <1>6 DEF Base
    <2> HIDE DEF have
    <2> QED
      BY <1>3, <2>1
  <1>8. Buffered'
    <2>1. Base' >= 0
      BY <1>3, <1>7
    <2>2. \A i \in 1 .. Len(wire') : wire'[i] = stream'[Received' + i]
      BY <1>1, <1>2, <1>6 DEF Inv, Buffered
    <2>3. \A i \in 1 .. have : buffer[i] = stream[Base + i]
      BY DEF Inv, Buffered
    <2> HIDE DEF have
    <2>4. \A i \in 1 .. size : rest[i] = stream[Base' + i]
      <3> SUFFICES ASSUME NEW i \in 1 .. size
                   PROVE  rest[i] = stream[Base' + i]
        OBVIOUS
      <3>1. offset - 1 + i \in 1 .. have /\ Base + (offset - 1 + i) = Base + offset - 1 + i
        BY <1>3
      <3> QED
        BY <1>5, <1>7, <2>3, <3>1
    <2>5. \A i \in 1 .. Len(buffer') : buffer'[i] = stream'[Base' + i]
      BY <1>1, <1>2, <1>5, <2>4
    <2> QED
      BY <2>1, <2>2, <2>5 DEF Buffered
  <1>9. offset' \in 1 .. Len(buffer') + 1
    BY <1>1, <1>4, <1>5
  <1>10. pc' \in {"idle", "unpack"}
    BY <1>1
  <1>11. pc' = "idle" => offset = 1 \/ Base' = Received
    <2>1. rest = <<>> => size = 0
      BY <1>5
    <2> HIDE DEF have
    <2>2. size = 0 => Base' = Received
      BY <1>3, <1>7
    <2> QED
      BY <1>1, <2>1, <2>2
  <1>12. pc' = "unpack" => Base' < Received
    <2>1. pc' = "unpack" => size # 0
      <3>1. size = 0 => rest = <<>>
        BY <1>5
      <3> QED
        BY <1>1, <3>1
    <2> HIDE DEF have
    <2>2. size # 0 => Base' < Received
      BY <1>3, <1>4, <1>7
    <2> QED
      BY <2>1, <2>2
  <1> QED
    BY <1>1, <1>2, <1>3, <1>5, <1>6, <1>7, <1>8, <1>9, <1>10, <1>11, <1>12

LEMMA PendingInv ==
  ASSUME Inv, Pending
  PROVE  Inv'
  <1>1. /\ pc = "pending" /\ Return
        /\ UNCHANGED <<wire, protocol, isWebsocket, delivered, history>>
    BY DEF Pending
  <1>2. /\ sent' = sent /\ Streamed' /\ Buffered'
        /\ wire' \in Seq(Nat) /\ buffer' \in Seq(Nat)
        /\ offset' = 1 /\ offset' \in 1 .. Len(buffer') + 1
        /\ Base' = Base + offset - 1 /\ Received' = Received
        /\ pc' \in {"idle", "unpack"}
        /\ pc' = "unpack" => Base' < Received
    BY <1>1, ReturnKeeps
  <1>3. /\ Done < Len(sent) /\ Done + 1 \in 1 .. Len(sent)
        /\ EndOf(Done) \in Nat /\ EndOf(Done + 1) \in Nat
    BY <1>1, Busy
  <1>4. Reached(protocol, Current, Consumed) /\ Received < EndOf(Done + 1)
    BY <1>1, <1>3 DEF Inv, Parsing
  <1>5. /\ stream' = stream /\ ends' = ends /\ Done' = Done
    BY <1>1 DEF history, Done
  <1>6. /\ Current' = Current /\ EndOf(Done)' = EndOf(Done) /\ EndOf(Done + 1)' = EndOf(Done + 1)
        /\ Asked(Done)' = Asked(Done)
    BY <1>2, <1>5 DEF Current, EndOf, Asked
  <1>7. Consumed' = Consumed
    <2> DEFINE e == EndOf(Done)
               b == Base
               c == Base'
    <2>1. Consumed' = c + offset' - 1 - e
      BY <1>6 DEF Consumed
    <2>2. Consumed = b + offset - 1 - e
      BY DEF Consumed
    <2>3. offset' = 1 /\ c = b + offset - 1 /\ b \in Int /\ offset \in Int /\ e \in Int
      BY <1>2, <1>3, Numbers
    <2> HIDE DEF e, b, c
    <2> QED
      BY <2>1, <2>2, <2>3
  <1>8. Types'
    BY <1>1, <1>2, <1>5 DEF Inv, Types
  <1>9. Given'
    BY <1>1, <1>2, <1>5, <1>6 DEF Inv, Given
  <1>10. Waiting'
    BY <1>2, <1>3, <1>5, Numbers DEF Waiting
  <1>11. Parsing'
    <2>1. Reached(protocol, Current, Consumed)'
      BY <1>1, <1>4, <1>6, <1>7 DEF Reached
    <2>2. Base \in Nat /\ offset \in Int /\ Received \in Nat
      BY Numbers
    <2>3. pc' = "unpack" => Base' < EndOf(Done + 1)
      <3>1. ASSUME Base' < Received
            PROVE  Base' < EndOf(Done + 1)
        BY <1>2, <1>3, <1>4, <2>2, <3>1
      <3> QED
        BY <1>2, <3>1
    <2> QED
      BY <1>2, <1>4, <1>5, <1>6, <2>1, <2>3 DEF Parsing
  <1> QED
    BY <1>2, <1>8, <1>9, <1>10, <1>11 DEF Inv

(* What the peer may send is of the kind the session expects by then. *)
LEMMA Kinds ==
  ASSUME MessagesParse, NEW asked \in BOOLEAN, NEW m \in Messages(asked)
  PROVE  /\ m \in Message /\ IsFrame(m) = asked
         /\ Reached(NewProtocol(asked), m, 0) /\ Len(Encoded(m)) \in Nat \ {0}
         /\ Encoded(m) \in Seq(Nat)
  <1>1. m \in Message /\ IsFrame(m) = asked
    <2>1. CASE asked
      <3>1. m \in WsMessage
        BY <2>1 DEF Messages, MessagesParse
      <3>2. IsFrame(m) = TRUE /\ asked = TRUE
        BY <2>1, <3>1, Classes DEF IsFrame
      <3> QED
        BY <3>1, <3>2 DEF Message
    <2>2. CASE ~asked
      <3>1. m \in HttpMessage
        BY <2>2 DEF Messages, MessagesParse
      <3>2. IsFrame(m) = FALSE /\ asked = FALSE
        BY <2>2, <3>1, Classes DEF IsFrame
      <3> QED
        BY <3>1, <3>2 DEF Message
    <2> QED
      BY <2>1, <2>2
  <1>2. /\ Encoded(m) \in Seq(Nat) /\ Len(Encoded(m)) \in Nat \ {0}
        /\ Reached(NewProtocol(IsFrame(m)), m, 0)
    BY <1>1, MessageBytes
  <1> QED
    BY <1>1, <1>2

LEMMA UpgradedWhenAsked ==
  ASSUME NEW m \in Message
  PROVE  Upgraded(AsDelivered(m)) = Upgrades(m)
  <1>1. CASE m \in HttpMessage
    <2>1. ~IsFrame(m) /\ ~IsFrame(HttpDelivered(m))
      BY <1>1, Classes DEF HttpDelivered, IsFrame
    <2>2. HttpDelivered(m).headers["upgrade"] # Absent <=> HttpUpgrades(m)
      BY <1>1, UpgradeSeen
    <2>3. AsDelivered(m) = HttpDelivered(m)
      BY <2>1 DEF AsDelivered
    <2> QED
      BY <2>1, <2>2, <2>3 DEF Upgraded, Upgrades, HttpUpgrades
  <1>2. CASE m \in WsMessage
    <2>1. IsFrame(m)
      BY <1>2, Classes
    <2> QED
      BY <2>1 DEF AsDelivered, Upgraded, Upgrades
  <1> QED
    BY <1>1, <1>2 DEF Message

LEMMA CompleteInv ==
  ASSUME MessagesParse, Inv, Complete
  PROVE  Inv'
  <1> DEFINE d == Done
             m == Decoded(protocol)
  <1>1. /\ pc = "complete" /\ Return /\ UNCHANGED <<wire, history>>
        /\ delivered' = Append(delivered, m)
        /\ isWebsocket' = (isWebsocket \/ Upgraded(m))
        /\ protocol' = NewProtocol(isWebsocket')
    BY DEF Complete
  <1>2. /\ sent' = sent /\ Streamed' /\ Buffered'
        /\ wire' \in Seq(Nat) /\ buffer' \in Seq(Nat)
        /\ offset' = 1 /\ offset' \in 1 .. Len(buffer') + 1
        /\ Base' = Base + offset - 1 /\ Received' = Received
        /\ pc' \in {"idle", "unpack"}
        /\ pc' = "idle" => offset = 1 \/ Base' = Received
        /\ pc' = "unpack" => Base' < Received
    BY <1>1, ReturnKeeps
  <1>3. /\ d < Len(sent) /\ d + 1 \in 1 .. Len(sent) /\ Current \in Message
        /\ EndOf(d + 1) \in Nat
    BY <1>1, Busy
  <1>4. m = AsDelivered(Current) /\ WellFormed(Current) /\ Base + offset - 1 = EndOf(d + 1) /\ Base < EndOf(d + 1)
    BY <1>1, <1>3 DEF Inv, Parsing
  <1>5. stream' = stream /\ ends' = ends
    BY <1>1 DEF history
  <1>6. \A i : EndOf(i)' = EndOf(i) /\ Asked(i)' = Asked(i)
    BY <1>2, <1>5 DEF EndOf, Asked
  <1>7. /\ delivered \in Seq({AsDelivered(c) : c \in Message}) /\ isWebsocket \in BOOLEAN /\ d = Len(delivered)
        /\ d \in Nat /\ Len(sent) \in Nat
        /\ \A i \in 1 .. d : delivered[i] = AsDelivered(sent[i]) /\ WellFormed(sent[i])
        /\ isWebsocket = Asked(d)
    BY Numbers DEF Inv, Types, Given, Done
  <1> HIDE DEF m
  <1>8. /\ delivered' \in Seq({AsDelivered(c) : c \in Message}) /\ Len(delivered') = d + 1
        /\ \A i \in 1 .. d : delivered'[i] = delivered[i]
        /\ delivered'[d + 1] = AsDelivered(Current)
    <2>1. m \in {AsDelivered(c) : c \in Message}
      BY <1>3, <1>4
    <2> HIDE DEF d
    <2> QED
      BY <1>1, <1>4, <1>7, <2>1, AppendProperties
  <1>9. Done' = d + 1
    BY <1>8 DEF Done
  <1> HIDE DEF d
  <1>10. /\ Base' = EndOf(d + 1) /\ EndOf(Done)' = EndOf(d + 1)
         /\ Consumed' = 0
    <2>1. Base' = EndOf(d + 1)
      BY <1>2, <1>4
    <2>2. EndOf(Done)' = EndOf(d + 1)
      BY <1>5, <1>9 DEF EndOf
    <2>3. Consumed' = EndOf(d + 1) + 1 - 1 - EndOf(d + 1)
      BY <1>2, <2>1, <2>2 DEF Consumed
    <2> QED
      BY <1>3, <2>1, <2>2, <2>3
  <1>11. isWebsocket' = Asked(d + 1) /\ isWebsocket' \in BOOLEAN
    <2>1. Upgrades(Current) \in BOOLEAN
      BY DEF Upgrades
    <2>2. Asked(d + 1) <=> Asked(d) \/ (WellFormed(sent[d + 1]) /\ Upgrades(sent[d + 1]))
      <3>1. \A i : i \in 1 .. d + 1 <=> i \in 1 .. d \/ i = d + 1
        BY <1>7
      <3> QED
        BY <3>1 DEF Asked
    <2>3. Current = sent[d + 1]
      BY DEF Current, d
    <2>4. Asked(d + 1) \in BOOLEAN /\ Asked(d) \in BOOLEAN
      BY DEF Asked
    <2>5. isWebsocket' = (isWebsocket \/ Upgrades(Current))
      BY <1>1, <1>3, <1>4, UpgradedWhenAsked
    <2>6. isWebsocket' \in BOOLEAN
      BY <1>7, <2>1, <2>5
    <2>7. isWebsocket' <=> Asked(d + 1)
      BY <1>4, <1>7, <2>2, <2>3, <2>5
    <2> QED
      BY <2>4, <2>6, <2>7
  <1>12. Types'
    <2>1. Len(delivered') <= Len(sent)
      BY <1>3, <1>7, <1>8
    <2> QED
      BY <1>2, <1>5, <1>8, <1>11, <2>1 DEF Inv, Types
  <1>13. Given'
    <2>1. \A i \in 1 .. d + 1 : delivered'[i] = AsDelivered(sent[i]) /\ WellFormed(sent[i])
      <3> SUFFICES ASSUME NEW i \in 1 .. d + 1
                   PROVE  delivered'[i] = AsDelivered(sent[i]) /\ WellFormed(sent[i])
        OBVIOUS
      <3>1. CASE i \in 1 .. d
        BY <1>7, <1>8, <3>1
      <3>2. CASE i = d + 1
        BY <1>4, <1>8, <3>2 DEF Current, d
      <3> QED
        BY <1>7, <3>1, <3>2
    <2>2. \A i : WellFormed(sent[i])' = WellFormed(sent'[i])
      BY DEF WellFormed
    <2>3. Asked(Done)' = Asked(d + 1)
      BY <1>2, <1>9 DEF Asked
    <2> QED
      BY <1>2, <1>9, <1>11, <2>1, <2>3 DEF Given
  <1>14. Received \in Nat /\ Base \in Nat /\ offset \in Int /\ Received <= Len(stream)
    <2>1. Len(stream) = Received + Len(wire) /\ Len(wire) \in Nat /\ Len(stream) \in Nat
      BY Numbers
    <2>2. Received \in Nat /\ Base \in Nat /\ offset \in 1 .. Len(buffer) + 1
      BY Numbers
    <2>3. Received <= Len(stream)
      BY ONLY <2>1, <2>2
    <2> QED
      BY <2>2, <2>3
  <1>15. Waiting'
    <2>1. ASSUME d + 1 = Len(sent)
          PROVE  pc' = "idle"
      <3>1. Len(stream) = EndOf(d + 1)
        BY <2>1 DEF Inv, Streamed
      <3>2. ~(Base' < Received)
        BY <1>3, <1>10, <1>14, <3>1
      <3> QED
        BY <1>2, <3>2
    <2>2. NewProtocol(isWebsocket)' = NewProtocol(isWebsocket')
      BY DEF NewProtocol
    <2> QED
      BY <1>1, <1>2, <1>9, <1>10, <2>1, <2>2 DEF Waiting
  <1>16. Parsing'
    <2> SUFFICES ASSUME (Done < Len(sent))'
                 PROVE  /\ Reached(protocol, Current, Consumed)'
                        /\ (Base < EndOf(Done + 1))'
                        /\ (pc = "idle" => Received < EndOf(Done + 1))'
      BY <1>2 DEF Parsing
    <2> DEFINE next == sent[d + 2]
    <2>1. d + 2 \in 1 .. Len(sent) /\ (d + 2) - 1 = d + 1 /\ (d + 1) + 1 = d + 2
      BY <1>2, <1>7, <1>9
    <2>2. next \in Messages(Asked(d + 1))
      BY <2>1 DEF Inv, Streamed, Sent
    <2>3. Reached(NewProtocol(isWebsocket'), next, 0)
      BY <1>11, <2>2, Kinds
    <2>4. Current' = next /\ EndOf(Done + 1)' = EndOf(d + 2)
      BY <1>2, <1>5, <1>9, <2>1 DEF Current, EndOf
    <2>5. EndOf(d + 2) = EndOf(d + 1) + Len(Encoded(next)) /\ Len(Encoded(next)) \in Nat \ {0}
      BY <2>1, SentMessage
    <2>6. Reached(protocol, Current, Consumed)'
      BY <1>1, <1>10, <2>3, <2>4 DEF Reached
    <2>7. Base' < EndOf(d + 2)
      BY <1>3, <1>10, <2>5
    <2>8. pc' = "idle" => Received < EndOf(d + 2)
      <3>1. offset # 1
        BY <1>3, <1>4, <1>14
      <3>2. Base' = Received => Received < EndOf(d + 2)
        BY <2>7
      <3> QED
        BY <1>2, <3>1, <3>2
    <2> QED
      BY <1>2, <2>4, <2>6, <2>7, <2>8
  <1> QED
    BY <1>2, <1>12, <1>13, <1>15, <1>16 DEF Inv

LEMMA PeerSendsInv ==
  ASSUME MessagesParse, Inv, NEW m \in Messages(Speaks), PeerSends(m)
  PROVE  Inv'
  <1> SUFFICES ASSUME NEW k, k = Len(sent), NEW l, l = Len(stream), NEW w, w = Len(wire)
               PROVE  Inv'
    OBVIOUS
  <1> DEFINE b == Encoded(m)
             size == Len(b)
  <1>1. /\ k < MaxMessages /\ sent' = Append(sent, m) /\ stream' = stream \o b
        /\ ends' = Append(ends, Len(stream')) /\ wire' = wire \o b
        /\ UNCHANGED <<buffer, protocol, offset, isWebsocket, pc, delivered>>
    BY DEF PeerSends
  <1>2. /\ sent \in Seq(Message) /\ stream \in Seq(Nat) /\ ends \in Seq(Nat) /\ Len(ends) = k
        /\ wire \in Seq(Nat) /\ buffer \in Seq(Nat) /\ isWebsocket \in BOOLEAN
        /\ k \in Nat /\ l \in Nat /\ w \in Nat /\ Done \in 0 .. k
    BY Numbers DEF Inv, Types
  <1>3. m \in Messages(Asked(k)) /\ Asked(k) \in BOOLEAN
    <2>1. DOMAIN sent = 1 .. k
      BY <1>2
    <2>2. Speaks = Asked(k)
      BY <2>1 DEF Speaks, Asked
    <2> QED
      BY <2>2 DEF Asked
  <1>4. m \in Message /\ b \in Seq(Nat) /\ size \in Nat \ {0} /\ Reached(NewProtocol(Asked(k)), m, 0)
    BY <1>3, Kinds
  <1> HIDE DEF b, size
  <1>5. /\ sent' \in Seq(Message) /\ Len(sent') = k + 1 /\ sent'[k + 1] = m
        /\ \A i \in 1 .. k : sent'[i] = sent[i]
    BY <1>1, <1>2, <1>4, AppendProperties
  <1>6. /\ stream' \in Seq(Nat) /\ Len(stream') = l + size
        /\ \A i \in 1 .. l : stream'[i] = stream[i]
        /\ \A i \in 1 .. size : stream'[l + i] = b[i]
    BY <1>1, <1>2, <1>4, Concat DEF size
  <1>7. /\ wire' \in Seq(Nat) /\ Len(wire') = w + size
        /\ \A i \in 1 .. w : wire'[i] = wire[i]
        /\ \A i \in 1 .. size : wire'[w + i] = b[i]
    BY <1>1, <1>2, <1>4, Concat DEF size
  <1>8. l + size \in Nat
    BY <1>2, <1>4
  <1>9. /\ ends' \in Seq(Nat) /\ Len(ends') = k + 1 /\ ends'[k + 1] = l + size
        /\ \A i \in 1 .. k : ends'[i] = ends[i]
    <2> DEFINE e == Len(stream')
    <2>1. ends' = Append(ends, e) /\ e \in Nat /\ e = l + size
      BY <1>1, <1>6, <1>8
    <2> HIDE DEF e
    <2>2. /\ Len(Append(ends, e)) = Len(ends) + 1 /\ Append(ends, e) \in Seq(Nat)
          /\ Append(ends, e)[Len(ends) + 1] = e
          /\ \A i \in 1 .. Len(ends) : Append(ends, e)[i] = ends[i]
      BY <1>2, <2>1, AppendProperties
    <2> QED
      BY <1>2, <2>1, <2>2
  <1>10. \A i \in 0 .. k : (IF i = 0 THEN 0 ELSE ends'[i]) = EndOf(i)
    BY <1>2, <1>9 DEF EndOf
  <1>11. /\ Base' = Base /\ Received' = Received /\ Done' = Done
         /\ Received \in Nat /\ l = Received + w /\ Base \in Nat /\ Received = Base + Len(buffer)
         /\ Len(buffer) \in Nat
    <2>1. Received \in Nat /\ l = Received + w /\ Base \in Nat /\ Received = Base + Len(buffer)
          /\ Len(buffer) \in Nat
      BY Numbers
    <2>2. Received' = Len(stream') - Len(wire')
      BY DEF Received
    <2>3. Received' = Received
      <3>1. Received' = (l + size) - (w + size)
        BY <1>6, <1>7, <2>2
      <3> QED
        BY <1>2, <1>4, <2>1, <3>1
    <2>4. Base' = Base
      BY <1>1, <2>3 DEF Base
    <2>5. Done' = Done
      BY <1>1 DEF Done
    <2> QED
      BY <2>1, <2>3, <2>4, <2>5
  <1>12. \A n \in 0 .. k :
           Asked(n) = \E i \in 1 .. n : WellFormed(sent'[i]) /\ Upgrades(sent'[i])
    <2> SUFFICES ASSUME NEW n \in 0 .. k
                 PROVE  Asked(n) = \E i \in 1 .. n : WellFormed(sent'[i]) /\ Upgrades(sent'[i])
      OBVIOUS
    <2>1. \A i \in 1 .. n : sent'[i] = sent[i]
      BY <1>2, <1>5
    <2> QED
      BY <2>1 DEF Asked
  <1>13. EndOf(k) = l /\ \A i \in 0 .. k : EndOf(i) \in Nat /\ EndOf(i) <= l
    BY Numbers DEF Inv, Streamed
  <1>14. Types'
    <2>1. k + 1 <= MaxMessages /\ Len(delivered) <= k + 1
      <3>1. MaxMessages \in Nat
        BY FramingAssumption
      <3>2. k + 1 <= MaxMessages
        BY <1>1, <1>2, <3>1
      <3>3. Len(delivered) <= k + 1
        BY <1>2 DEF Done
      <3> QED
        BY <3>2, <3>3
    <2> QED
      BY <1>1, <1>5, <1>6, <1>7, <1>9, <2>1 DEF Inv, Types
  <1>15. Streamed'
    <2>1. ASSUME NEW i \in 1 .. k
          PROVE  Sent(i)'
      <3> DEFINE c == Encoded(sent[i])
                 e == EndOf(i - 1)
      <3>1. /\ sent[i] \in Messages(Asked(i - 1))
            /\ ends[i] = e + Len(c) /\ ends[i] <= l
            /\ \A j \in 1 .. Len(c) : stream[e + j] = c[j]
        BY DEF Inv, Streamed, Sent
      <3>2. Len(c) \in Nat
        BY SentMessage
      <3>3. i - 1 \in 0 .. k /\ i \in 0 .. k
        BY <1>2
      <3>4. e \in Nat
        BY <1>13, <3>3
      <3>5. sent'[i] = sent[i] /\ ends'[i] = ends[i]
        BY <1>5, <1>9
      <3>6. EndOf(i - 1)' = e
        BY <1>10, <3>3 DEF EndOf
      <3>7. Asked(i - 1)' = Asked(i - 1)
        BY <1>12, <3>3 DEF Asked
      <3> HIDE DEF e, c
      <3>8. ends[i] <= l + size
        BY <1>2, <1>4, <3>1, <3>2, <3>4
      <3>9. \A j \in 1 .. Len(c) : stream'[e + j] = c[j]
        <4>1. \A j \in 1 .. Len(c) : e + j \in 1 .. l
          BY <1>2, <3>1, <3>2, <3>4
        <4> QED
          BY <1>6, <3>1, <4>1
      <3> QED
        BY <1>6, <3>1, <3>5, <3>6, <3>7, <3>8, <3>9 DEF Sent, c
    <2>2. Sent(k + 1)'
      <3>1. (k + 1) - 1 = k /\ k \in 0 .. k /\ k + 1 \in Nat
        BY <1>2
      <3>2. Asked(k)' = Asked(k)
        BY <1>12, <3>1 DEF Asked
      <3>3. EndOf(k)' = l
        BY <1>10, <1>13, <3>1 DEF EndOf
      <3>4. ends'[k + 1] = l + size /\ l + size <= Len(stream')
        BY <1>6, <1>8, <1>9
      <3>5. m \in Messages(Asked(k)') /\ (m \in Messages(Asked(k)))' = (m \in Messages(Asked(k)'))
        BY <1>3, <3>2 DEF Messages
      <3>6. \A j \in 1 .. size : stream'[l + j] = b[j]
        BY <1>6
      <3>7. (sent[k + 1] \in Messages(Asked((k + 1) - 1)))'
        BY <1>5, <3>1, <3>5
      <3>8. (ends[k + 1] = EndOf((k + 1) - 1) + Len(Encoded(sent[k + 1])))' /\ (ends[k + 1] <= Len(stream))'
        BY <1>5, <3>1, <3>3, <3>4 DEF b, size
      <3>9. (\A j \in 1 .. Len(Encoded(sent[k + 1])) :
               stream[EndOf((k + 1) - 1) + j] = Encoded(sent[k + 1])[j])'
        <4>1. EndOf((k + 1) - 1)' = l /\ (1 .. Len(Encoded(sent[k + 1])))' = 1 .. size
          BY <1>5, <3>1, <3>3 DEF b, size
        <4>2. Encoded(sent[k + 1])' = b
          BY <1>5 DEF b
        <4> HIDE DEF b, size
        <4> QED
          BY <3>6, <4>1, <4>2
      <3> QED
        BY <3>7, <3>8, <3>9 DEF Sent
    <2>3. EndOf(Len(sent))' = l + size
      <3>1. k + 1 # 0
        BY <1>2
      <3> QED
        BY <1>5, <1>9, <3>1 DEF EndOf
    <2>4. \A i \in 1 .. k + 1 : Sent(i)'
      <3>1. \A i \in 1 .. k + 1 : i \in 1 .. k \/ i = k + 1
        BY <1>2
      <3> QED
        BY <2>1, <2>2, <3>1
    <2> QED
      BY <1>5, <1>6, <2>3, <2>4 DEF Streamed
  <1>16. Buffered'
    <2>1. /\ \A i \in 1 .. w : wire[i] = stream[Received + i]
          /\ \A i \in 1 .. Len(buffer) : buffer[i] = stream[Base + i]
      BY DEF Inv, Buffered
    <2>2. \A i \in 1 .. w + size : wire'[i] = stream'[Received + i]
      <3> SUFFICES ASSUME NEW i \in 1 .. w + size
                   PROVE  wire'[i] = stream'[Received + i]
        OBVIOUS
      <3>1. CASE i <= w
        <4>1. i \in 1 .. w /\ Received + i \in 1 .. l
          BY <1>2, <1>4, <1>11, <3>1
        <4> QED
          BY <1>6, <1>7, <2>1, <4>1
      <3>2. CASE i > w
        <4>1. i - w \in 1 .. size /\ w + (i - w) = i /\ l + (i - w) = Received + i
          BY <1>2, <1>4, <1>11, <3>2
        <4>2. wire'[w + (i - w)] = b[i - w] /\ stream'[l + (i - w)] = b[i - w]
          BY <1>6, <1>7, <4>1
        <4> QED
          BY <4>1, <4>2
      <3> QED
        BY <1>2, <1>4, <3>1, <3>2
    <2>3. \A i \in 1 .. Len(buffer) : buffer[i] = stream'[Base + i]
      <3>1. \A i \in 1 .. Len(buffer) : Base + i \in 1 .. l
        BY <1>2, <1>11
      <3> QED
        BY <1>6, <2>1, <3>1
    <2>4. Base' >= 0
      BY <1>11
    <2>5. \A i \in 1 .. Len(wire') : wire'[i] = stream'[Received' + i]
      BY <1>7, <1>11, <2>2
    <2>6. \A i \in 1 .. Len(buffer') : buffer'[i] = stream'[Base' + i]
      BY <1>1, <1>11, <2>3
    <2> QED
      BY <2>4, <2>5, <2>6 DEF Buffered
  <1>17. Asked(Done)' = Asked(Done)
    BY <1>2, <1>11, <1>12 DEF Asked
  <1>18. Given'
    <2>1. \A i \in 1 .. Done : delivered[i] = AsDelivered(sent[i]) /\ WellFormed(sent[i])
      BY DEF Inv, Given
    <2>2. \A i \in 1 .. Done : sent'[i] = sent[i]
      BY <1>2, <1>5
    <2>3. isWebsocket = Asked(Done)
      BY DEF Inv, Given
    <2> QED
      BY <1>1, <1>11, <1>17, <2>1, <2>2, <2>3 DEF Given
  <1>19. Waiting'
    BY <1>2, <1>5, <1>11 DEF Waiting
  <1>20. Consumed' = Consumed
    <2>1. EndOf(Done)' = EndOf(Done)
      BY <1>2, <1>10, <1>11 DEF EndOf
    <2> QED
      BY <1>1, <1>11, <2>1 DEF Consumed
  <1>21. Parsing'
    <2>1. CASE Done < k
      <3>1. Done + 1 \in 1 .. k /\ Done + 1 \in 0 .. k
        BY <1>2, <2>1
      <3>2. Current' = Current /\ EndOf(Done + 1)' = EndOf(Done + 1)
        BY <1>5, <1>10, <1>11, <3>1 DEF Current, EndOf
      <3>3. Parsing
        BY DEF Inv
      <3> QED
        BY <1>1, <1>11, <1>20, <2>1, <3>2, <3>3 DEF Parsing, Reached, Decoded, WellFormed, AsDelivered,
                                                              Refused, TooLong
    <2>2. CASE Done = k
      <3>1. pc = "idle" /\ Consumed = 0 /\ protocol = NewProtocol(isWebsocket) /\ offset = 1
        BY <2>2 DEF Inv, Waiting
      <3>2. Current' = m /\ EndOf(Done + 1)' = l + size
        <4>1. Done + 1 # 0
          BY <1>2
        <4> QED
          BY <1>5, <1>9, <1>11, <2>2, <4>1 DEF Current, EndOf
      <3>3. isWebsocket = Asked(k)
        BY <2>2 DEF Inv, Given
      <3>4. Reached(protocol, Current, Consumed)'
        BY <1>1, <1>4, <1>20, <3>1, <3>2, <3>3 DEF Reached
      <3>5. Received < l + size
        BY <1>2, <1>4, <1>11
      <3> QED
        BY <1>1, <1>11, <3>1, <3>2, <3>4, <3>5 DEF Parsing
    <2> QED
      BY <1>2, <2>1, <2>2
  <1> QED
    BY <1>1, <1>14, <1>15, <1>16, <1>18, <1>19, <1>21 DEF Inv

(* A step that changes nothing. *)
LEMMA StutterInv ==
  ASSUME Inv, UNCHANGED vars
  PROVE  Inv'
  <1>1. /\ wire' = wire /\ buffer' = buffer /\ protocol' = protocol /\ offset' = offset
        /\ isWebsocket' = isWebsocket /\ pc' = pc /\ delivered' = delivered
        /\ sent' = sent /\ stream' = stream /\ ends' = ends
    BY DEF vars, history
  <1>2. /\ Received' = Received /\ Base' = Base /\ Done' = Done
        /\ \A i : EndOf(i)' = EndOf(i) /\ Asked(i)' = Asked(i)
    BY <1>1 DEF Received, Base, Done, EndOf, Asked
  <1>3. Streamed'
    BY <1>1, HistoryKept DEF Inv, history
  <1>4. Current' = Current /\ Consumed' = Consumed
    BY <1>1, <1>2 DEF Current, Consumed
  <1>5. Types' /\ Buffered' /\ Given'
    BY <1>1, <1>2 DEF Inv, Types, Buffered, Given
  <1>6. Waiting' /\ Parsing'
    BY <1>1, <1>2, <1>4 DEF Inv, Waiting, Parsing, Reached, Decoded, WellFormed, NewProtocol,
                                  AsDelivered, Refused, TooLong
  <1> QED
    BY <1>1, <1>3, <1>5, <1>6 DEF Inv

-----------------------------------------------------------------------------
(* The bytes in transit and in the buffer are those of the messages, the   *)
(* protocol object has read its message up to the offset, and the messages *)
(* delivered are those sent: this holds at every moment.                   *)
THEOREM Invariance ==
  ASSUME MessagesParse
  PROVE  Spec => []Inv
  <1>1. Init => Inv
    BY InitInv
  <1>2. Inv /\ [Next]_vars => Inv'
    <2> SUFFICES ASSUME Inv, [Next]_vars
                 PROVE  Inv'
      OBVIOUS
    <2>1. ASSUME NEW m \in Messages(Speaks), PeerSends(m)
          PROVE  Inv'
      BY <2>1, PeerSendsInv
    <2>2. ASSUME NEW k \in Chunks \cup {Len(wire)}, Receive(k)
          PROVE  Inv'
      BY <2>2, ReceiveInv
    <2>3. CASE Unpack
      BY <2>3, UnpackInv
    <2>4. CASE Pending
      BY <2>4, PendingInv
    <2>5. CASE Complete
      BY <2>5, CompleteInv
    <2>6. CASE Error
      BY <2>6, ErrorInv
    <2>7. CASE UNCHANGED vars
      BY <2>7, StutterInv
    <2> QED
      BY <2>1, <2>2, <2>3, <2>4, <2>5, <2>6, <2>7 DEF Next
  <1> QED
    BY <1>1, <1>2, PTL DEF Spec

(* Protocol.unpack never reads past the end of the input, and the session  *)
(* never gets more messages than a peer may send.                          *)
THEOREM TypeCorrect ==
  ASSUME MessagesParse
  PROVE  Spec => []TypeOK
  <1>1. Inv => TypeOK
    <2> SUFFICES ASSUME Inv
                 PROVE  TypeOK
      OBVIOUS
    <2>1. Len(sent) \in Nat /\ Done \in 0 .. Len(sent) /\ Len(sent) <= MaxMessages
      BY Numbers DEF Inv, Types
    <2>2. Len(delivered) <= MaxMessages
      BY <2>1, FramingAssumption DEF Done
    <2> QED
      BY <2>1, <2>2 DEF Inv, Types, TypeOK
  <1> QED
    BY <1>1, Invariance, PTL

(* Whatever the sizes of the reads, the session is given the messages that *)
(* the peer sent, each once and in order, up to the first that is refused  *)
(* or raises: a frame as it was sent; a request with its start and body    *)
(* and the last of its headers of each name, and the preset header of      *)
(* HttpProtocol:new where it has none of that name.                        *)
THEOREM Delivery ==
  ASSUME MessagesParse
  PROVE  Spec => []DeliveredAsSent
  <1>1. ASSUME NEW m \in Message
        PROVE  StandsFor(AsDelivered(m), m)
    <2>1. CASE m \in WsMessage
      <3>1. IsFrame(m)
        BY <2>1, Classes
      <3> QED
        BY <3>1 DEF AsDelivered, StandsFor
    <2>2. CASE m \in HttpMessage
      <3>1. ~IsFrame(m)
        BY <2>2, Classes
      <3>2. HttpDelivered(m).start = m.start /\ HttpDelivered(m).body = m.body
        BY DEF HttpDelivered
      <3> QED
        BY <2>2, <3>1, <3>2, LastStays DEF AsDelivered, StandsFor
    <2> QED
      BY <2>1, <2>2 DEF Message
  <1>2. Inv => DeliveredAsSent
    <2> SUFFICES ASSUME Inv
                 PROVE  DeliveredAsSent
      OBVIOUS
    <2>1. DOMAIN delivered = 1 .. Done /\ Done \in 0 .. Len(sent) /\ Len(sent) \in Nat
      BY Numbers DEF Inv, Types, Done
    <2>2. \A i \in 1 .. Done : delivered[i] = AsDelivered(sent[i]) /\ WellFormed(sent[i])
      BY DEF Inv, Given
    <2>3. \A i \in 1 .. Done : sent[i] \in Message
      <3>1. \A i \in 1 .. Done : i \in 1 .. Len(sent)
        BY <2>1
      <3> QED
        BY <3>1, SentMessage
    <2>4. Len(delivered) <= Len(sent)
      BY DEF Inv, Types
    <2> QED
      BY <1>1, <2>1, <2>2, <2>3, <2>4 DEF DeliveredAsSent
  <1> QED
    BY <1>2, Invariance, PTL

(* No message waits in the buffer once its last byte was received, unless  *)
(* the parser raised on it: a masked frame of more bytes than a call can   *)
(* have values.  The session closes the channel only on a request that is  *)
(* not well formed.                                                        *)
THEOREM Prompt ==
  ASSUME MessagesParse
  PROVE  Spec => []NothingHeldBack
  <1>1. Inv => NothingHeldBack
    BY DEF Inv, Parsing, NothingHeldBack, Received, Done, Current, Refused, TooLong
  <1> QED
    BY <1>1, Invariance, PTL
=============================================================================

------------------------------- MODULE Framing -------------------------------
(***************************************************************************)
(* Incremental parsing of one connection's input: Protocol.unpack          *)
(* (light/network/Protocol.lua), called by HttpSession.onRead, called by   *)
(* the loop of TCPChannel.onReadEvent on channel.buffer.i.                 *)
(*                                                                         *)
(* The session parses requests and, after an upgrade, frames.  What it     *)
(* does with them, closing the channel included, is in HttpServer.         *)
(***************************************************************************)
EXTENDS HttpProtocol, WebSocketProtocol

CONSTANTS
  Requests,           \* the requests a peer may send
  Frames,             \* the frames, once it asked for them
  MaxMessages,        \* bound on the messages it sends
  Chunks              \* numbers of bytes that one read may return, when
                      \*   it does not return all there is

ASSUME FramingAssumption == MaxMessages \in Nat /\ Chunks \subseteq Nat \ {0}

(* A protocol object, and a message, is of the class that has its fields.  *)
IsFrame(r) == "opCode" \in DOMAIN r

OnUnpack(p, source, at) ==
  IF IsFrame(p) THEN WsOnUnpack(p, source, at) ELSE HttpOnUnpack(p, source, at)

NewProtocol(isWs) == IF isWs THEN NewWs ELSE NewHttp

(* The message an object holds when complete, and the bytes of a message.  *)
Decoded(p) == IF IsFrame(p) THEN WsDecoded(p) ELSE HttpDecoded(p)
Encoded(m) == IF IsFrame(m) THEN WsEncoded(m) ELSE HttpEncoded(m)

(* The session accepts the message; it asks for frames from then on, which *)
(* the session sees in the headers it is given.                            *)
WellFormed(m) == IF IsFrame(m) THEN WsWellFormed(m) ELSE HttpWellFormed(m)
Upgrades(m)   == ~IsFrame(m) /\ HttpUpgrades(m)
Upgraded(d)   == ~IsFrame(d) /\ d.headers["upgrade"] # Absent

Messages(isWs) == IF isWs THEN Frames ELSE Requests

VARIABLES
  wire,       \* bytes sent and not yet received
  buffer,     \* channel.buffer.i
  protocol,   \* the session's input: a protocol object without its offset
  offset,     \* its offset, which counts from 1
  isWebsocket,\* field of the session
  pc,         \* "idle": in the event loop; "unpack": in Protocol.unpack;
              \*   "pending", "complete" or "error": what it returned;
              \*   "closed": the session closed the channel; "raise": it
              \*   raised, which ends the event loop
  delivered,  \* the messages given to the session's delegate
  sent,       \* history: the messages sent
  stream,     \*   their bytes
  ends        \*   and how many of these come up to the end of each

history == <<sent, stream, ends>>

vars == <<wire, buffer, protocol, offset, isWebsocket, pc, delivered, history>>

EndOf(i) == IF i = 0 THEN 0 ELSE ends[i]

Init ==
  /\ wire = <<>>
  /\ buffer = <<>>
  /\ protocol = NewProtocol(FALSE)
  /\ offset = 1
  /\ isWebsocket = FALSE
  /\ pc = "idle"
  /\ delivered = <<>>
  /\ sent = <<>> /\ stream = <<>> /\ ends = <<>>

(* The peer writes a message.  It need not wait for the answer to one that *)
(* asks for frames.                                                        *)
Speaks == \E i \in DOMAIN sent : WellFormed(sent[i]) /\ Upgrades(sent[i])

PeerSends(m) ==
  /\ Len(sent) < MaxMessages
  /\ sent' = Append(sent, m)
  /\ stream' = stream \o Encoded(m)
  /\ ends' = Append(ends, Len(stream'))
  /\ wire' = wire \o Encoded(m)
  /\ UNCHANGED <<buffer, protocol, offset, isWebsocket, pc, delivered>>

(* readNow() returns a first part of what was sent, and onRead is called   *)
(* with all of buffer.i.  With 1 among the Chunks every split is reached.  *)
Receive(k) ==
  /\ pc = "idle"
  /\ k \in 1 .. Len(wire)
  /\ buffer' = buffer \o SubSeq(wire, 1, k)
  /\ wire' = SubSeq(wire, k + 1, Len(wire))
  /\ pc' = "unpack"
  /\ UNCHANGED <<protocol, offset, isWebsocket, delivered, history>>

(* One round of the loop of Protocol.unpack.                               *)
Unpack ==
  /\ pc = "unpack"
  /\ LET r == OnUnpack(protocol, buffer, offset)
     IN  /\ protocol' = r.protocol
         /\ offset' = r.offset
         /\ pc' = IF r.status = "continue" THEN "unpack" ELSE r.status
  /\ UNCHANGED <<wire, buffer, isWebsocket, delivered, history>>

(* unpack() resets the offset and onRead returns it; Channel.decrease      *)
(* drops that much, and onRead is called again while it made progress and  *)
(* something is left.                                                      *)
(* Mutants: the offset is not reset; onRead is called once per read.       *)
BugReturn ==
  /\ buffer' = SubSeq(buffer, offset, Len(buffer))
  /\ offset' = offset
  /\ pc' = IF buffer' = <<>> \/ offset = 1 THEN "idle" ELSE "unpack"

BugReturnOnce ==
  /\ buffer' = SubSeq(buffer, offset, Len(buffer))
  /\ offset' = 1
  /\ pc' = "idle"

Return ==
  /\ buffer' = SubSeq(buffer, offset, Len(buffer))
  /\ offset' = 1
  /\ pc' = IF buffer' = <<>> \/ offset = 1 THEN "idle" ELSE "unpack"

(* The message waits for more input; the protocol object keeps what it has.*)
Pending ==
  /\ pc = "pending"
  /\ Return
  /\ UNCHANGED <<wire, protocol, isWebsocket, delivered, history>>

(* The session handles the message, which may turn it to frames, and       *)
(* starts with a new protocol object.                                      *)
(* Mutant: HTTP is spoken until the next message.                          *)
BugComplete ==
  /\ pc = "complete"
  /\ Return
  /\ LET m == Decoded(protocol)
     IN  /\ delivered' = Append(delivered, m)
         /\ isWebsocket' = (isWebsocket \/ Upgraded(m))
         /\ protocol' = NewProtocol(isWebsocket)
  /\ UNCHANGED <<wire, history>>

Complete ==
  /\ pc = "complete"
  /\ Return
  /\ LET m == Decoded(protocol)
     IN  /\ delivered' = Append(delivered, m)
         /\ isWebsocket' = (isWebsocket \/ Upgraded(m))
         /\ protocol' = NewProtocol(isWebsocket')
  /\ UNCHANGED <<wire, history>>

(* The session closes the channel; HttpServer has what happens then.       *)
Error ==
  /\ pc = "error"
  /\ pc' = "closed"
  /\ UNCHANGED <<wire, buffer, protocol, offset, isWebsocket,
                 delivered, history>>

Next ==
  \/ \E m \in Messages(Speaks) : PeerSends(m)
  \/ \E k \in Chunks \cup {Len(wire)} : Receive(k)
  \/ Unpack \/ Pending \/ Complete \/ Error

Spec == Init /\ [][Next]_vars

-----------------------------------------------------------------------------
(* The values the variables range over: unpack() never goes past the end   *)
(* of the input it was given.                                              *)
TypeOK ==
  /\ offset \in 1 .. Len(buffer) + 1
  /\ pc \in {"idle", "unpack", "pending", "complete", "error", "closed", "raise"}
  /\ Len(delivered) <= MaxMessages /\ Len(sent) <= MaxMessages

(* d is what a session should be given for the message m: a frame as it is;*)
(* a request with its start, its body and, for each name, the last header  *)
(* of that name.  For a name it does not have it is given the header of    *)
(* HttpProtocol:new, which the peer never sent.                            *)
StandsFor(d, m) ==
  IF IsFrame(m) THEN d = m
  ELSE /\ d.start = m.start /\ d.body = m.body
       /\ \A name \in Names :
            LET of == {i \in DOMAIN m.fields : NameOf(m.fields[i]) = name}
            IN  IF of = {} THEN d.headers[name] = Preset[name]
                ELSE \E i \in of : /\ \A j \in of : j <= i
                                  /\ d.headers[name] = m.fields[i]

(* The session gets the messages that were sent, each once and in order,   *)
(* however TCP splits and joins them; none that is not well formed.        *)
DeliveredAsSent ==
  /\ Len(delivered) <= Len(sent)
  /\ \A i \in DOMAIN delivered :
       WellFormed(sent[i]) /\ StandsFor(delivered[i], sent[i])

(* Between handlers no message that was wholly received is held back: the  *)
(* first undelivered one is longer than what was received after those      *)
(* before it.  The channel is closed only for a request that is not well   *)
(* formed, and the parser raises only for a masked frame that is too long. *)
(* The requests are those of HttpMessage: with a header, and with a        *)
(* content-length that is right or not there.                              *)
NothingHeldBack ==
  Len(delivered) < Len(sent) =>
    LET m == sent[Len(delivered) + 1]
    IN  /\ pc = "idle" => Len(stream) - Len(wire) < EndOf(Len(delivered) + 1)
        /\ pc = "closed" => ~IsFrame(m) /\ ~HttpWellFormed(m)
        /\ pc = "raise" => IsFrame(m) /\ ~WsWellFormed(m)

(* A session sees only headers that its peer sent: false, since it parses  *)
(* into an object that holds those of HttpProtocol:new already.            *)
OnlySentHeaders ==
  \A i \in DOMAIN delivered :
    ~IsFrame(sent[i]) =>
      \A name \in Names : delivered[i].headers[name] \in Range(sent[i].fields) \cup {Absent}

(* No input makes the parser raise: false for a long masked frame          *)
(* (WebSocketProtocol.lua:255, :264).                                      *)
ParserSurvives == pc # "raise"
=============================================================================

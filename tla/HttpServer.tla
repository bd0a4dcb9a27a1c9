----------------------------- MODULE HttpServer -----------------------------
(***************************************************************************)
(* HttpServerSession and TCPServerSession with their HttpSessions, as the  *)
(* handlers of TCPServerChannel and TCPChannel drive them.                 *)
(*                                                                         *)
(* The server is the delegate of the listener and of every accepted        *)
(* channel, and hands each event to self[channel].  The event loop is      *)
(* reduced to what EventWorker guarantees when callbacks close only their  *)
(* own channel: one handler at a time, of a registered channel, in any     *)
(* order, and the main program in between.                                 *)
(*                                                                         *)
(* A request or a frame is its kind.  A response is its length.            *)
(***************************************************************************)
EXTENDS SessionQueue, FiniteSets

CONSTANTS
  Conns,        \* the connections that may be accepted
  None,         \* not a connection
  Sizes,        \* the lengths of responses
  Window,       \* how many unfinished responses the delegate lets a session
                \*   have
  Patient,      \* does a peer send one message at a time, whole, when
                \*   nothing is on its way to it?
  Habits,       \* what else peers and the application do:
                \*   "malformed" a peer sends a request line that is none
                \*   "keyless"   a peer asks for an upgrade without a key
                \*   "silent"    the delegate leaves a request unanswered
                \*   "close"     it closes a session in onHttp or onWebSocket
                \*   "answer"    it returns a response although it closed it
                \*   "release"   it closes a session in onSendCompletion
                \*   "stop"      the main program closes the server
  MaxMessages,  \* bound on the messages of one peer
  MaxOut        \* bound on #channel.buffer.o for what send() adds

ASSUME ServerAssumption ==
  /\ IsFiniteSet(Conns) /\ None \notin Conns
  /\ Sizes \subseteq Nat \ {0}
  /\ Window \in Nat \ {0}
  /\ Patient \in BOOLEAN
  /\ MaxMessages \in Nat /\ MaxOut \in Nat
ASSUME ServerHabits ==
  Habits \subseteq {"malformed", "keyless", "silent", "close", "answer",
                    "release", "stop"}

Requests == {"get", "last", "upgrade"} \cup (Habits \cap {"malformed", "keyless"})
Frames   == {"text", "ping", "pong", "close"}
Kinds    == Requests \cup Frames

VARIABLES
  sock,         \* "free", "open" or "closed"
  session,      \* the channels c for which self[c] is a session
  reg,          \* the modes of c in EventWorker.channels
  left,         \* history: calls of onLeave, counted up to two
  buffer,       \* channel.buffer.i: the whole messages in it
  frag,         \* does it end with a part of one more message?
  sent,         \* number of messages the peer sent
  speaks,       \* has the peer gone over to frames?
  isWebsocket, isFinished,         \* fields of the session
  queue,        \* Session.queue
  out,          \* #channel.buffer.o
  alive,        \* is the event worker's coroutine alive?
  pc,           \* "idle": between handlers, the main program may run.
                \*   "read": before a call of onRead.  "join", "http" and
                \*   "callback": inside the delegate's onJoin, onHttp or
                \*   onWebSocket, onSendCompletion.  "completion": in
                \*   HttpSession.completion
  cur,          \* the channel being handled
  count         \* completions that remain to be reported

table   == <<sock, session, reg, left>>
input   == <<buffer, frag, sent, speaks>>
flags   == <<isWebsocket, isFinished>>
output  == <<queue, out>>
control == <<alive, pc, cur, count>>
vars    == <<table, input, flags, output, control>>

-----------------------------------------------------------------------------
Init ==
  /\ sock = [c \in Conns |-> "free"]
  /\ session = {}
  /\ reg  = [c \in Conns |-> {}]
  /\ left = [c \in Conns |-> 0]
  /\ buffer = [c \in Conns |-> <<>>]
  /\ frag   = [c \in Conns |-> FALSE]
  /\ sent   = [c \in Conns |-> 0]
  /\ speaks = [c \in Conns |-> FALSE]
  /\ isWebsocket = [c \in Conns |-> FALSE]
  /\ isFinished  = [c \in Conns |-> FALSE]
  /\ queue = [c \in Conns |-> <<>>]
  /\ out   = [c \in Conns |-> 0]
  /\ alive = TRUE
  /\ pc = "idle" /\ cur = None /\ count = 0

-----------------------------------------------------------------------------
(* Steps that several handlers share.                                      *)

(* Mutants: the channel stays in the event worker; the session stays in    *)
(* the table.                                                              *)
BugCloseRegistered(S) ==
  /\ sock' = [c \in Conns |-> IF c \in S THEN "closed" ELSE sock[c]]
  /\ session' = session \ S
  /\ left' = [c \in Conns |-> IF c \notin S \/ left[c] = 2 THEN left[c]
                                                         ELSE left[c] + 1]
  /\ UNCHANGED reg

BugCloseKept(S) ==
  /\ sock' = [c \in Conns |-> IF c \in S THEN "closed" ELSE sock[c]]
  /\ left' = [c \in Conns |-> IF c \notin S \/ left[c] = 2 THEN left[c]
                                                         ELSE left[c] + 1]
  /\ reg' = [c \in Conns |-> IF c \in S THEN {} ELSE reg[c]]
  /\ UNCHANGED session

(* Channel:close() of channels with a session: TCPServerSession:onClose    *)
(* drops the session, HttpServerSession:onClose calls onLeave, and the     *)
(* channel leaves the event worker.  What onLeave sends to others is sent  *)
(* by the main program's Send, right after.                                *)
Close(S) ==
  /\ sock' = [c \in Conns |-> IF c \in S THEN "closed" ELSE sock[c]]
  /\ session' = session \ S
  /\ left' = [c \in Conns |-> IF c \notin S \/ left[c] = 2 THEN left[c]
                                                         ELSE left[c] + 1]
  /\ reg' = [c \in Conns |-> IF c \in S THEN {} ELSE reg[c]]

(* TCPSession:send(), which looks neither at the socket nor at the table.  *)
Transmit(c, n) ==
  /\ queue' = [queue EXCEPT ![c] = Append(@, n)]
  /\ out' = [out EXCEPT ![c] = @ + n]
  /\ reg' = [reg EXCEPT ![c] = @ \cup {"w"}]

(* A Lua error escapes the handler and ends the event worker's coroutine.  *)
Die ==
  /\ alive' = FALSE
  /\ pc' = "idle" /\ cur' = None /\ count' = 0
  /\ UNCHANGED <<table, input, flags, output>>

GoTo(place, c) ==
  /\ pc' = place
  /\ cur' = IF place = "idle" THEN None ELSE c
  /\ UNCHANGED <<alive, count>>

(* onRead returns what it consumed, TCPChannel:onReadEvent drops it from   *)
(* buffer.i and calls onRead again while anything is left.                 *)
Consume(leftover) ==
  /\ buffer' = [buffer EXCEPT ![cur] = Tail(@)]
  /\ frag' = [frag EXCEPT ![cur] = leftover]
  /\ GoTo(IF Tail(buffer[cur]) = <<>> /\ ~leftover THEN "idle" ELSE "read", cur)
  /\ UNCHANGED <<sent, speaks>>

(* Mutant: the server hands the event to the session of a closed channel.  *)
BugParsed(c, kinds) ==
  /\ pc = "read" /\ cur = c
  /\ buffer[c] # <<>> /\ Head(buffer[c]) \in kinds

Parsed(c, kinds) ==
  /\ pc = "read" /\ cur = c
  /\ c \in session
  /\ buffer[c] # <<>> /\ Head(buffer[c]) \in kinds

-----------------------------------------------------------------------------
(* TCPServerChannel:onReadEvent and HttpServerSession:onAccept.            *)
Accept(c) ==
  /\ alive /\ pc = "idle"
  /\ sock[c] = "free"
  /\ sock' = [sock EXCEPT ![c] = "open"]
  /\ session' = session \cup {c}
  /\ reg' = [reg EXCEPT ![c] = {"r"}]
  /\ GoTo("join", c)
  /\ UNCHANGED <<left, input, flags, output>>

(* What a peer that speaks frames, or not yet, may send at once.           *)
Legal(ws, batch) ==
  \A i \in DOMAIN batch :
    batch[i] \in IF ws \/ \E j \in 1 .. (i - 1) : batch[j] = "upgrade"
                 THEN Frames ELSE Requests

Batches(c) ==
  LET n == IF Patient THEN {1} ELSE {0, 1, 2}
  IN  {b \in UNION {[1 .. i -> Kinds] : i \in n} : Legal(speaks[c], b)}

(* TCPChannel:onReadEvent: readNow() gave something.                       *)
Receive(c) ==
  /\ alive /\ pc = "idle"
  /\ sock[c] = "open" /\ "r" \in reg[c]
  /\ Patient => queue[c] = <<>>
  /\ \E b \in Batches(c), f \in BOOLEAN :
       /\ Patient => ~f
       /\ b = <<>> => f
       /\ sent[c] + Len(b) <= MaxMessages
       /\ buffer' = [buffer EXCEPT ![c] = @ \o b]
       /\ frag' = [frag EXCEPT ![c] = f]
       /\ sent' = [sent EXCEPT ![c] = @ + Len(b)]
       /\ speaks' = [speaks EXCEPT ![c] = @ \/ \E i \in DOMAIN b : b[i] = "upgrade"]
  /\ GoTo("read", c)
  /\ UNCHANGED <<table, flags, output>>

(* TCPServerSession:onRead indexes self[channel], which is nil for a       *)
(* channel that an earlier call of the same loop closed.                   *)
ReadGone(c) ==
  /\ pc = "read" /\ cur = c
  /\ c \notin session
  /\ Die

(* What is left is a part of a message: unpack() waits for the rest.       *)
ParsePart(c) ==
  /\ pc = "read" /\ cur = c
  /\ c \in session
  /\ buffer[c] = <<>>
  /\ GoTo("idle", c)
  /\ UNCHANGED <<table, input, flags, output>>

(* unpack() fails: onRead closes the channel and returns what was parsed,  *)
(* the request line.  The headers that follow it may be there already.     *)
ParseError(c) ==
  /\ Parsed(c, {"malformed"})
  /\ Close({c})
  /\ \E more \in {TRUE, frag[c]} : Consume(more)
  /\ UNCHANGED <<flags, output>>

(* HttpSession:onReadHttp of an upgrade: the session answers by itself.    *)
Upgrade(c) ==
  /\ Parsed(c, {"upgrade"})
  /\ isWebsocket' = [isWebsocket EXCEPT ![c] = TRUE]
  /\ \E n \in Sizes : Transmit(c, n)
  /\ Consume(frag[c])
  /\ UNCHANGED <<sock, session, left, isFinished>>

(* Without a key HttpUpgradeServer concatenates nil.                       *)
UpgradeRaises(c) ==
  /\ Parsed(c, {"keyless"})
  /\ Die

(* HttpSession:onReadHttp and onReadWebSocket call the delegate.           *)
OnHttp(c) ==
  /\ Parsed(c, {"get", "last", "text"})
  /\ isFinished' = [isFinished EXCEPT ![c] = @ \/ Head(buffer[c]) = "last"]
  /\ GoTo("http", c)
  /\ UNCHANGED <<table, input, isWebsocket, output>>

(* The delegate returned a response, which onRead sends.                   *)
Answer(c) ==
  /\ pc = "http" /\ cur = c
  /\ c \in session \/ "answer" \in Habits
  /\ Len(queue[c]) < Window
  /\ \E n \in Sizes : Transmit(c, n)
  /\ Consume(frag[c])
  /\ UNCHANGED <<sock, session, left, flags>>

(* The delegate returned nothing: it closed the session, got a frame, has  *)
(* its answer on the way already, or leaves the request unanswered.        *)
NoAnswer(c) ==
  /\ pc = "http" /\ cur = c
  /\ \/ c \notin session \/ isWebsocket[c] \/ queue[c] # <<>>
     \/ "silent" \in Habits
  /\ Consume(frag[c])
  /\ UNCHANGED <<table, flags, output>>

(* HttpSession:onReadWebSocket of PING and PONG.                           *)
PingPong(c) ==
  /\ Parsed(c, {"ping", "pong"})
  /\ \E n \in Sizes : Transmit(c, n)
  /\ Consume(frag[c])
  /\ UNCHANGED <<sock, session, left, flags>>

(* Mutant: CLOSE is answered although the channel was closed.              *)
BugCloseFrame(c) ==
  /\ Parsed(c, {"close"})
  /\ sock' = [sock EXCEPT ![c] = "closed"]
  /\ session' = session \ {c}
  /\ left' = [left EXCEPT ![c] = 1]
  /\ \E n \in Sizes : Transmit(c, n)
  /\ Consume(frag[c])
  /\ UNCHANGED flags

(* HttpSession:onReadWebSocket of CLOSE.                                   *)
CloseFrame(c) ==
  /\ Parsed(c, {"close"})
  /\ Close({c})
  /\ Consume(frag[c])
  /\ UNCHANGED <<flags, output>>

(* readNow() or writeNow() failed, or the stream ended: TCPChannel:close() *)
(* and TCPServerSession:onClose, which raises for a channel whose session  *)
(* is gone already.                                                        *)
HandlerError(c) ==
  /\ alive /\ pc = "idle"
  /\ reg[c] # {}
  /\ \/ /\ c \in session
        /\ Close({c})
        /\ UNCHANGED <<input, flags, output, control>>
     \/ /\ c \notin session
        /\ Die

(* TCPChannel:onWriteEvent: the kernel takes k bytes, TCPServerSession's   *)
(* onWrite finds the session and Session:dequeue counts the responses that *)
(* are complete.                                                           *)
WriteEvent(c, k) ==
  /\ alive /\ pc = "idle"
  /\ sock[c] = "open" /\ "w" \in reg[c]
  /\ k <= out[c] /\ (k = 0 => out[c] = 0)
  /\ IF DequeueRaises(queue[c], k)
     THEN Die
     ELSE /\ out' = [out EXCEPT ![c] = @ - k]
          /\ queue' = [queue EXCEPT ![c] = QueueAfter(@, k)]
          /\ count' = CountAfter(queue[c], k)
          /\ pc' = "completion" /\ cur' = c
          /\ UNCHANGED <<table, input, flags, alive>>

(* Mutant: the loop of completion() runs once more than it should.         *)
BugComplete(c) ==
  /\ pc = "completion" /\ cur = c
  /\ count' = count - 1
  /\ pc' = "callback"
  /\ UNCHANGED <<table, input, flags, output, alive, cur>>

(* HttpSession:completion calls onSendCompletion once per response.        *)
Complete(c) ==
  /\ pc = "completion" /\ cur = c
  /\ count > 0
  /\ count' = count - 1
  /\ pc' = "callback"
  /\ UNCHANGED <<table, input, flags, output, alive, cur>>

(* The callbacks that return nothing.                                      *)
CallbackReturns(c) ==
  /\ cur = c
  /\ \/ pc = "callback" /\ GoTo("completion", c)
     \/ pc = "join" /\ GoTo("idle", c)
  /\ UNCHANGED <<table, input, flags, output>>

(* Mutant: a finished session is left to its peer.                         *)
BugCompletionEnd(c) ==
  /\ pc = "completion" /\ cur = c
  /\ count = 0
  /\ reg' = [reg EXCEPT ![c] = IF out[c] = 0 THEN @ \ {"w"} ELSE @]
  /\ GoTo("idle", c)
  /\ UNCHANGED <<sock, session, left, input, flags, output>>

(* A finished session closes its channel, closed or not.  For another one  *)
(* onWriteEvent returns DONE or CONTINUE.                                  *)
CompletionEnd(c) ==
  /\ pc = "completion" /\ cur = c
  /\ count = 0
  /\ \/ /\ isFinished[c] /\ c \in session
        /\ Close({c})
        /\ GoTo("idle", c)
        /\ UNCHANGED <<input, flags, output>>
     \/ /\ isFinished[c] /\ c \notin session
        /\ Die
     \/ /\ ~isFinished[c]
        /\ reg' = [reg EXCEPT ![c] = IF out[c] = 0 THEN @ \ {"w"} ELSE @]
        /\ GoTo("idle", c)
        /\ UNCHANGED <<sock, session, left, input, flags, output>>

-----------------------------------------------------------------------------
(* The application.                                                        *)

(* HttpSession:send() by the main program or from any callback.            *)
Send(d) ==
  /\ pc \in {"idle", "join", "http", "callback"}
  /\ d \in session
  /\ Len(queue[d]) < Window
  /\ \E n \in Sizes : out[d] + n <= MaxOut /\ Transmit(d, n)
  /\ UNCHANGED <<sock, session, left, input, flags, control>>

(* Session:close() by the main program, or by a callback of the session.   *)
CloseSession(d) ==
  /\ d \in session
  /\ \/ pc = "idle"
     \/ pc = "http" /\ d = cur /\ "close" \in Habits
     \/ pc = "callback" /\ d = cur /\ "release" \in Habits
  /\ Close({d})
  /\ UNCHANGED <<input, flags, output, control>>

(* TCPServerSession:close() by the main program: the loop closes sessions  *)
(* in the order of pairs() until it meets a field that is a number or a    *)
(* boolean, which it cannot index.  It raises and the listener stays open. *)
Stop(S) ==
  /\ "stop" \in Habits
  /\ pc = "idle"
  /\ S # {} /\ S \subseteq session
  /\ Close(S)
  /\ UNCHANGED <<input, flags, output, control>>

-----------------------------------------------------------------------------
OnRead(c) ==
  \/ ReadGone(c) \/ ParsePart(c) \/ ParseError(c)
  \/ Upgrade(c) \/ UpgradeRaises(c) \/ OnHttp(c) \/ Answer(c) \/ NoAnswer(c)
  \/ PingPong(c) \/ CloseFrame(c)

OnWrite(c) == Complete(c) \/ CallbackReturns(c) \/ CompletionEnd(c)

Writes(c) == \E k \in 0 .. out[c] : WriteEvent(c, k)

Next ==
  \/ \E c \in Conns :
       \/ Accept(c) \/ Receive(c) \/ OnRead(c)
       \/ Writes(c) \/ OnWrite(c) \/ HandlerError(c)
       \/ Send(c) \/ CloseSession(c)
  \/ \E S \in SUBSET Conns : Stop(S)

Spec == Init /\ [][Next]_vars

(* Handlers run to their end, and a peer that reads makes its socket       *)
(* writable again and again, for as long as the loop polls.                *)
FairSpec ==
  /\ Spec
  /\ \A c \in Conns :
       /\ WF_vars(OnRead(c)) /\ WF_vars(OnWrite(c))
       /\ SF_vars(Writes(c))
-----------------------------------------------------------------------------
(* Peers and a delegate that the server copes with.  The frames are those  *)
(* that can be parsed: Framing has the masked ones that are too long, on   *)
(* which the parser raises.                                                *)
Modest == Patient /\ Window = 1 /\ Habits \subseteq {"silent", "close", "stop"}

(* The values the variables range over.                                    *)
TypeOK ==
  /\ sock \in [Conns -> {"free", "open", "closed"}]
  /\ session \in SUBSET Conns
  /\ reg \in [Conns -> SUBSET {"r", "w"}]
  /\ left \in [Conns -> 0 .. 2]
  /\ buffer \in [Conns -> Seq(Kinds)]
  /\ frag \in [Conns -> BOOLEAN]
  /\ sent \in [Conns -> Nat]
  /\ speaks \in [Conns -> BOOLEAN]
  /\ isWebsocket \in [Conns -> BOOLEAN]
  /\ isFinished \in [Conns -> BOOLEAN]
  /\ queue \in [Conns -> Seq(Nat)]
  /\ out \in [Conns -> Nat]
  /\ alive \in BOOLEAN
  /\ pc \in {"idle", "read", "join", "http", "completion", "callback"}
  /\ cur \in Conns \cup {None}
  /\ count \in Nat

(* No request, frame, close or write of any one connection ends the event  *)
(* loop that serves all of them.                                           *)
ServerSurvives == alive

(* Every channel in the event worker's table has a session in the server's *)
(* table: the two are filled and emptied by different objects, the channel *)
(* and its delegate, and each event looks in both.  (It says nothing of a  *)
(* close() of the server that raises before the listener is closed.)       *)
RegisteredHaveSession == \A c \in Conns : reg[c] # {} => c \in session

(* onLeave is called once for a connection that is over, whoever ended it, *)
(* and for no other.  (The listener, which is no connection, is not in it.)*)
LeavesOnce ==
  \A c \in Conns : left[c] = IF sock[c] = "closed" THEN 1 ELSE 0

(* The delegate sees the life of a connection that SessionLife promises:   *)
(* no callback before onJoin or after onLeave, one at a time.              *)
Phase ==
  [c \in Conns |-> IF c \in session THEN "joined"
                   ELSE IF sock[c] = "free" THEN "none" ELSE "left"]

Active == IF pc \in {"join", "http", "callback"} THEN cur ELSE None

Life == INSTANCE SessionLife WITH phase <- Phase, active <- Active

LifeSpec == Life!Spec

(* A connection whose request asked for it is closed once a response is on *)
(* its way; also when only a part of it was written by then, which is what *)
(* FinishedIsFlushed of SessionSend is about.                              *)
EventuallyClosed ==
  \A c \in Conns : isFinished[c] /\ queue[c] # <<>> ~> sock[c] = "closed"
=============================================================================

-------------------------- MODULE HttpServerProofs --------------------------
(***************************************************************************)
(* A server whose peers send one message at a time, and whose delegate     *)
(* closes a session only in onHttp or onWebSocket, is never brought down;  *)
(* and for any peers, what its delegate sees of a connection.              *)
(***************************************************************************)
EXTENDS HttpServer, SessionQueueProofs

-----------------------------------------------------------------------------
(* Part one: joining and leaving, for all peers and delegates.             *)

(* The session table has exactly the open connections.                     *)
TableInv ==
  /\ sock \in [Conns -> {"free", "open", "closed"}]
  /\ session \in SUBSET Conns
  /\ left \in [Conns -> 0 .. 2]
  /\ \A c \in Conns : c \in session <=> sock[c] = "open"
  /\ LeavesOnce

LEMMA CloseKeepsTable ==
  ASSUME TableInv, NEW S \in SUBSET session, Close(S)
  PROVE  TableInv'
<1>1. /\ sock' \in [Conns -> {"free", "open", "closed"}]
      /\ session' \in SUBSET Conns
  BY DEF TableInv, Close
<1>2. \A c \in Conns :
        /\ c \in session' <=> sock'[c] = "open"
        /\ left'[c] = IF sock'[c] = "closed" THEN 1 ELSE 0
  BY DEF TableInv, Close, LeavesOnce
<1>3. left' \in [Conns -> 0 .. 2]
  BY DEF TableInv, Close
<1>4. QED
  BY <1>1, <1>2, <1>3 DEF TableInv, LeavesOnce

LEMMA TableInit == Init => TableInv
BY DEF Init, TableInv, LeavesOnce

LEMMA TableNext == ASSUME TableInv, [Next]_vars PROVE TableInv'
<1> USE DEF table
<1>0. CASE UNCHANGED <<sock, session, left>>
  BY <1>0 DEF TableInv, LeavesOnce
<1>1. ASSUME NEW c \in Conns, Accept(c) PROVE TableInv'
  BY <1>1 DEF Accept, TableInv, LeavesOnce
<1>2. ASSUME NEW c \in Conns, Receive(c) PROVE TableInv'
  BY <1>0, <1>2 DEF Receive
<1>3. ASSUME NEW c \in Conns, OnRead(c) PROVE TableInv'
  <2>1. CASE ReadGone(c) \/ UpgradeRaises(c)
    BY <1>0, <2>1 DEF ReadGone, UpgradeRaises, Die
  <2>2. CASE ParsePart(c) \/ OnHttp(c) \/ NoAnswer(c)
    BY <1>0, <2>2 DEF ParsePart, OnHttp, NoAnswer
  <2>3. CASE Upgrade(c) \/ Answer(c) \/ PingPong(c)
    BY <1>0, <2>3 DEF Upgrade, Answer, PingPong
  <2>4. CASE ParseError(c) \/ CloseFrame(c)
    BY <2>4, CloseKeepsTable DEF ParseError, CloseFrame, Parsed
  <2>5. QED
    BY <1>3, <2>1, <2>2, <2>3, <2>4 DEF OnRead
<1>4. ASSUME NEW c \in Conns, Writes(c) PROVE TableInv'
  BY <1>0, <1>4 DEF Writes, WriteEvent, Die
<1>5. ASSUME NEW c \in Conns, OnWrite(c) PROVE TableInv'
  <2>1. CASE Complete(c) \/ CallbackReturns(c)
    BY <1>0, <2>1 DEF Complete, CallbackReturns
  <2>2. CASE CompletionEnd(c)
    <3>1. CASE c \in session /\ Close({c})
      BY <3>1, CloseKeepsTable
    <3>2. CASE Die
      BY <1>0, <3>2 DEF Die
    <3>3. QED
      BY <1>0, <2>2, <3>1, <3>2 DEF CompletionEnd
  <2>3. QED
    BY <1>5, <2>1, <2>2 DEF OnWrite
<1>6. ASSUME NEW c \in Conns, HandlerError(c) PROVE TableInv'
  <2>1. CASE c \in session /\ Close({c})
    BY <2>1, CloseKeepsTable
  <2>2. CASE Die
    BY <1>0, <2>2 DEF Die
  <2>3. QED
    BY <1>6, <2>1, <2>2 DEF HandlerError
<1>7. ASSUME NEW c \in Conns, Send(c) PROVE TableInv'
  BY <1>0, <1>7 DEF Send
<1>8. ASSUME NEW c \in Conns, CloseSession(c) PROVE TableInv'
  BY <1>8, CloseKeepsTable DEF CloseSession
<1>9. ASSUME NEW S \in SUBSET Conns, Stop(S) PROVE TableInv'
  BY <1>9, CloseKeepsTable DEF Stop
<1>10. CASE UNCHANGED vars
  BY <1>0, <1>10 DEF vars
<1>11. QED
  BY <1>1, <1>2, <1>3, <1>4, <1>5, <1>6, <1>7, <1>8, <1>9, <1>10 DEF Next

(* onLeave is called once for every connection that is over, whatever its  *)
(* peer and the delegate do.                                               *)
THEOREM LeftOnce == Spec => []LeavesOnce
<1>1. TableInv /\ [Next]_vars => TableInv'
  BY TableNext
<1>2. TableInv => LeavesOnce
  BY DEF TableInv
<1>3. QED
  BY TableInit, <1>1, <1>2, PTL DEF Spec

-----------------------------------------------------------------------------
(* Part two: SessionLife, for a delegate that closes no session in         *)
(* onSendCompletion.                                                       *)

(* Inside a handler there is a channel, and while completions are reported *)
(* it has its session.                                                     *)
HandlerInv ==
  /\ pc \in {"idle", "read", "join", "http", "completion", "callback"}
  /\ pc # "idle" => cur \in Conns
  /\ pc \in {"completion", "callback"} => cur \in session

LifeInv == TableInv /\ HandlerInv

LEMMA LifeInit == Init => HandlerInv /\ Life!Init
<1> SUFFICES ASSUME Init PROVE HandlerInv /\ Life!Init
  OBVIOUS
<1>1. HandlerInv /\ Active = None
  BY DEF Init, HandlerInv, Active
<1>2. Phase = [c \in Conns |-> "none"]
  BY DEF Init, Phase
<1>3. QED
  BY <1>1, <1>2 DEF Life!Init

(* Only closing and accepting change the table; a close is a Leave.        *)
LEMMA CloseLeaves ==
  ASSUME TableInv, NEW S \in SUBSET session, S # {}, Close(S), Active' = Active
  PROVE  Life!Leave(S)
<1>1. Phase' = [c \in Conns |-> IF c \in S THEN "left" ELSE Phase[c]]
  BY DEF TableInv, Close, Phase
<1>2. \A c \in S : Phase[c] = "joined"
  BY DEF TableInv, Phase
<1>3. QED
  BY <1>1, <1>2 DEF Life!Leave

LEMMA SamePhase == ASSUME UNCHANGED <<sock, session>> PROVE Phase' = Phase
BY DEF Phase

(* A handler that consumed its message is back in the loop of TCPChannel,  *)
(* outside the delegate.                                                   *)
LEMMA ConsumeReturns ==
  ASSUME NEW f, Consume(f), cur \in Conns
  PROVE  /\ Active' = None
         /\ pc' \in {"idle", "read"} /\ (pc' # "idle" => cur' \in Conns)
<1>1. GoTo("idle", cur) \/ GoTo("read", cur)
  BY DEF Consume
<1>2. QED
  BY <1>1 DEF GoTo, Active

LEMMA ReadKeepsLife ==
  ASSUME LifeInv, NEW c \in Conns, OnRead(c)
  PROVE  HandlerInv' /\ [Life!Next]_(Life!vars)
<1> USE DEF LifeInv, table
<1>1. CASE ReadGone(c) \/ UpgradeRaises(c)
  <2>1. Active = None /\ Active' = None /\ HandlerInv'
    BY <1>1 DEF ReadGone, UpgradeRaises, Parsed, Die, Active, HandlerInv
  <2>2. Phase' = Phase
    BY <1>1, SamePhase DEF ReadGone, UpgradeRaises, Die
  <2>3. QED
    BY <2>1, <2>2 DEF Life!vars
<1>2. CASE ParsePart(c)
  <2>1. Active = None /\ Active' = None /\ HandlerInv'
    BY <1>2 DEF ParsePart, GoTo, Active, HandlerInv
  <2>2. Phase' = Phase
    BY <1>2, SamePhase DEF ParsePart
  <2>3. QED
    BY <2>1, <2>2 DEF Life!vars
<1>3. CASE ParseError(c) \/ CloseFrame(c)
  <2>1. Active = None /\ cur = c /\ c \in session /\ Close({c})
    BY <1>3 DEF ParseError, CloseFrame, Parsed, Active
  <2>2. Active' = None /\ HandlerInv'
    BY <1>3, <2>1, ConsumeReturns DEF ParseError, CloseFrame, HandlerInv
  <2>3. Life!Leave({c})
    BY <2>1, <2>2, CloseLeaves
  <2>4. QED
    BY <2>2, <2>3 DEF Life!Next
<1>4. CASE Upgrade(c) \/ PingPong(c)
  <2>1. Active = None /\ cur = c
    BY <1>4 DEF Upgrade, PingPong, Parsed, Active
  <2>2. Active' = None /\ HandlerInv'
    BY <1>4, <2>1, ConsumeReturns DEF Upgrade, PingPong, HandlerInv
  <2>3. Phase' = Phase
    BY <1>4, SamePhase DEF Upgrade, PingPong
  <2>4. QED
    BY <2>1, <2>2, <2>3 DEF Life!vars
<1>5. CASE OnHttp(c)
  <2>1. Active = None /\ Active' = c /\ HandlerInv'
    BY <1>5 DEF OnHttp, Parsed, GoTo, Active, HandlerInv
  <2>2. Phase[c] = "joined" /\ Phase' = Phase
    BY <1>5, SamePhase DEF OnHttp, Parsed, Phase
  <2>3. QED
    BY <2>1, <2>2 DEF Life!Next, Life!Enter
<1>6. CASE Answer(c) \/ NoAnswer(c)
  <2>1. Active = c /\ cur = c /\ c # None
    BY <1>6, ServerAssumption DEF Answer, NoAnswer, Active
  <2>2. Active' = None /\ HandlerInv'
    BY <1>6, <2>1, ConsumeReturns DEF Answer, NoAnswer, HandlerInv
  <2>3. Phase' = Phase
    BY <1>6, SamePhase DEF Answer, NoAnswer
  <2>4. QED
    BY <2>1, <2>2, <2>3 DEF Life!Next, Life!Return
<1>7. QED
  BY <1>1, <1>2, <1>3, <1>4, <1>5, <1>6 DEF OnRead

LEMMA WriteKeepsLife ==
  ASSUME LifeInv, NEW c \in Conns, Writes(c) \/ OnWrite(c)
  PROVE  HandlerInv' /\ [Life!Next]_(Life!vars)
<1> USE DEF LifeInv, table
<1>1. CASE Writes(c)
  <2>1. Active = None /\ Active' = None /\ Phase' = Phase
    BY <1>1, SamePhase DEF Writes, WriteEvent, Die, Active
  <2>2. HandlerInv'
    BY <1>1 DEF Writes, WriteEvent, Die, TableInv, HandlerInv
  <2>3. QED
    BY <2>1, <2>2 DEF Life!vars
<1>2. CASE Complete(c)
  <2>1. Active = None /\ Active' = c /\ HandlerInv'
    BY <1>2 DEF Complete, Active, HandlerInv
  <2>2. Phase[c] = "joined" /\ Phase' = Phase
    BY <1>2, SamePhase DEF Complete, HandlerInv, Phase
  <2>3. QED
    BY <2>1, <2>2 DEF Life!Next, Life!Enter
<1>3. CASE CallbackReturns(c)
  <2>1. Active = c /\ Active' = None /\ c # None /\ HandlerInv'
    BY <1>3, ServerAssumption DEF CallbackReturns, GoTo, Active, HandlerInv
  <2>2. Phase' = Phase
    BY <1>3, SamePhase DEF CallbackReturns
  <2>3. QED
    BY <2>1, <2>2 DEF Life!Next, Life!Return
<1>4. CASE CompletionEnd(c)
  <2>1. Active = None /\ Active' = None /\ HandlerInv'
    BY <1>4 DEF CompletionEnd, GoTo, Die, Active, HandlerInv
  <2>2. CASE c \in session /\ Close({c})
    <3>1. Life!Leave({c})
      BY <2>1, <2>2, CloseLeaves
    <3>2. QED
      BY <2>1, <3>1 DEF Life!Next
  <2>3. CASE UNCHANGED <<sock, session>>
    BY <2>1, <2>3, SamePhase DEF Life!vars
  <2>4. QED
    BY <1>4, <2>2, <2>3 DEF CompletionEnd, Die
<1>5. QED
  BY <1>1, <1>2, <1>3, <1>4 DEF OnWrite

LEMMA LifeNext ==
  ASSUME LifeInv, "release" \notin Habits, [Next]_vars
  PROVE  HandlerInv' /\ [Life!Next]_(Life!vars)
<1> USE DEF LifeInv, table
<1>1. ASSUME NEW c \in Conns, Accept(c) PROVE HandlerInv' /\ Life!Join(c)
  <2>1. Active = None /\ Active' = c /\ HandlerInv'
    BY <1>1 DEF Accept, GoTo, Active, HandlerInv
  <2>2. Phase[c] = "none" /\ Phase' = [Phase EXCEPT ![c] = "joined"]
    BY <1>1 DEF Accept, Phase, TableInv
  <2>3. QED
    BY <2>1, <2>2 DEF Life!Join
<1>2. ASSUME NEW c \in Conns, Receive(c)
      PROVE  HandlerInv' /\ UNCHANGED <<Phase, Active>>
  <2>1. Active = None /\ Active' = None /\ HandlerInv'
    BY <1>2 DEF Receive, GoTo, Active, HandlerInv
  <2>2. QED
    BY <1>2, <2>1, SamePhase DEF Receive
<1>3. ASSUME NEW c \in Conns, HandlerError(c)
      PROVE  HandlerInv' /\ [Life!Next]_(Life!vars)
  <2>1. Active = None /\ Active' = None /\ HandlerInv'
    BY <1>3 DEF HandlerError, Die, Active, HandlerInv, control
  <2>2. CASE c \in session /\ Close({c})
    <3>1. Life!Leave({c})
      BY <2>1, <2>2, CloseLeaves
    <3>2. QED
      BY <2>1, <3>1 DEF Life!Next
  <2>3. CASE UNCHANGED <<sock, session>>
    BY <2>1, <2>3, SamePhase DEF Life!vars
  <2>4. QED
    BY <1>3, <2>2, <2>3 DEF HandlerError, Die
<1>4. ASSUME NEW c \in Conns, Send(c)
      PROVE  HandlerInv' /\ UNCHANGED <<Phase, Active>>
  BY <1>4, SamePhase DEF Send, control, Active, HandlerInv
<1>5. ASSUME NEW S \in SUBSET session, S # {}, Close(S), UNCHANGED control,
             pc \in {"idle", "http"}
      PROVE  HandlerInv' /\ Life!Leave(S)
  <2>1. Active' = Active /\ HandlerInv'
    BY <1>5 DEF control, Active, HandlerInv
  <2>2. QED
    BY <1>5, <2>1, CloseLeaves
<1>6. ASSUME NEW c \in Conns, CloseSession(c)
      PROVE  HandlerInv' /\ Life!Leave({c})
  BY <1>5, <1>6 DEF CloseSession
<1>7. ASSUME NEW S \in SUBSET Conns, Stop(S)
      PROVE  HandlerInv' /\ Life!Leave(S)
  BY <1>5, <1>7 DEF Stop
<1>8. CASE UNCHANGED vars
  BY <1>8, SamePhase DEF vars, control, Active, HandlerInv, Life!vars
<1>9. QED
  BY <1>1, <1>2, <1>3, <1>4, <1>6, <1>7, <1>8, ReadKeepsLife, WriteKeepsLife
     DEF Next, Life!Next, Life!vars, CloseSession, Stop, TableInv

(* For any peers, and a delegate that closes no session in                 *)
(* onSendCompletion, the delegate sees of every connection the life that   *)
(* SessionLife promises.                                                   *)
THEOREM ServerImplementsLife ==
  ASSUME "release" \notin Habits
  PROVE  Spec => LifeSpec
<1>1. LifeInv /\ [Next]_vars => LifeInv' /\ [Life!Next]_(Life!vars)
  BY TableNext, LifeNext DEF LifeInv
<1>2. Init => LifeInv /\ Life!Init
  BY TableInit, LifeInit DEF LifeInv
<1>3. QED
  BY <1>1, <1>2, PTL DEF Spec, LifeSpec, Life!Spec

-----------------------------------------------------------------------------
(* Part three: the server survives modest peers and delegates.             *)

(* At most one unfinished response, of which the queue has what is left.   *)
QueueOK(q, n) == \/ q = <<>> /\ n = 0
                 \/ n > 0 /\ q = <<n>>

(* One message is read, handled and dropped before the next one is read.   *)
InputOK(c) ==
  /\ ~frag[c]
  /\ IF pc \in {"read", "http"} /\ cur = c
     THEN \E m \in Kinds : buffer[c] = <<m>>
     ELSE buffer[c] = <<>>

SurvivalInv ==
  /\ alive
  /\ reg \in [Conns -> SUBSET {"r", "w"}]
  /\ out \in [Conns -> Nat]
  /\ queue = [c \in Conns |-> queue[c]]
  /\ buffer = [c \in Conns |-> buffer[c]]
  /\ frag = [c \in Conns |-> frag[c]]
  /\ RegisteredHaveSession
  /\ \A c \in Conns : QueueOK(queue[c], out[c])
  /\ \A c \in Conns : InputOK(c)
  /\ pc = "read" => cur \in session /\ queue[cur] = <<>>

(* The parts of it that speak of the output, of the input and of the       *)
(* registrations.                                                          *)
OutputInv ==
  /\ out \in [Conns -> Nat]
  /\ queue = [c \in Conns |-> queue[c]]
  /\ \A c \in Conns : QueueOK(queue[c], out[c])

InputInv ==
  /\ buffer = [c \in Conns |-> buffer[c]]
  /\ frag = [c \in Conns |-> frag[c]]
  /\ \A c \in Conns : InputOK(c)

RegInv ==
  /\ reg \in [Conns -> SUBSET {"r", "w"}]
  /\ RegisteredHaveSession

LEMMA SurvivalParts ==
  SurvivalInv <=> /\ alive /\ OutputInv /\ InputInv /\ RegInv
                  /\ pc = "read" => cur \in session /\ queue[cur] = <<>>
BY DEF SurvivalInv, OutputInv, InputInv, RegInv

LEMMA SurvivalInit == Init => SurvivalInv
<1> SUFFICES ASSUME Init PROVE SurvivalInv
  OBVIOUS
<1>1. alive /\ pc = "idle"
  BY DEF Init
<1>2. OutputInv
  BY DEF Init, OutputInv, QueueOK
<1>3. InputInv
  BY <1>1 DEF Init, InputInv, InputOK
<1>4. RegInv
  BY DEF Init, RegInv, RegisteredHaveSession
<1>5. QED
  BY <1>1, <1>2, <1>3, <1>4, SurvivalParts

(* A response is sent when nothing is unfinished.                          *)
LEMMA TransmitKeeps ==
  ASSUME OutputInv, RegInv, NEW c \in session, session \in SUBSET Conns,
         session' = session, NEW n \in Sizes, queue[c] = <<>>, Transmit(c, n)
  PROVE  OutputInv' /\ RegInv'
<1>1. n \in Nat \ {0}
  BY ServerAssumption
<1>2. out[c] = 0 /\ c \in Conns
  <2>1. c \in Conns
    OBVIOUS
  <2>2. QueueOK(queue[c], out[c])
    BY <2>1 DEF OutputInv
  <2>3. \A m : <<m>> # <<>>
    OBVIOUS
  <2>4. QED
    BY <2>1, <2>2, <2>3 DEF QueueOK
<1>3. Append(<<>>, n) = <<n>> /\ 0 + n = n
  BY <1>1
<1>4. /\ queue' = [queue EXCEPT ![c] = <<n>>]
      /\ out' = [out EXCEPT ![c] = n]
      /\ reg' = [reg EXCEPT ![c] = @ \cup {"w"}]
  <2>1. /\ queue' = [queue EXCEPT ![c] = Append(queue[c], n)]
        /\ out' = [out EXCEPT ![c] = out[c] + n]
        /\ reg' = [reg EXCEPT ![c] = @ \cup {"w"}]
    BY DEF Transmit
  <2>2. QED
    BY <1>2, <1>3, <2>1
<1>5. OutputInv'
  BY <1>1, <1>2, <1>4, SMTT(30) DEF OutputInv, QueueOK
<1>6. RegInv'
  BY <1>2, <1>4 DEF RegInv, RegisteredHaveSession
<1>7. QED
  BY <1>5, <1>6

LEMMA NothingUnfinished ==
  ASSUME OutputInv, NEW c \in Conns, Len(queue[c]) < 1
  PROVE  queue[c] = <<>>
<1>1. \A n : Len(<<n>>) = 1
  OBVIOUS
<1>2. QED
  BY <1>1 DEF OutputInv, QueueOK

LEMMA CloseKeepsReg ==
  ASSUME RegInv, NEW S \in SUBSET session, Close(S)
  PROVE  RegInv'
BY DEF RegInv, RegisteredHaveSession, Close

(* With one message in the buffer the loop of TCPChannel ends after it.    *)
LEMMA ConsumeEnds ==
  ASSUME InputInv, pc \in {"read", "http"}, cur \in Conns, Consume(frag[cur])
  PROVE  InputInv' /\ pc' = "idle" /\ alive' = alive
<1>1. PICK m \in Kinds : buffer[cur] = <<m>>
  BY DEF InputInv, InputOK
<1>2. Tail(buffer[cur]) = <<>>
  BY <1>1
<1>3. ~frag[cur]
  BY DEF InputInv, InputOK
<1>4. /\ buffer' = [buffer EXCEPT ![cur] = <<>>]
      /\ frag' = [frag EXCEPT ![cur] = frag[cur]]
      /\ pc' = "idle" /\ alive' = alive
  BY <1>2, <1>3 DEF Consume, GoTo
<1>5. \A c \in Conns : ~frag'[c] /\ buffer'[c] = <<>>
  BY <1>3, <1>4 DEF InputInv, InputOK
<1>6. /\ buffer' = [c \in Conns |-> buffer'[c]]
      /\ frag' = [c \in Conns |-> frag'[c]]
  BY <1>4 DEF InputInv
<1>7. QED
  BY <1>4, <1>5, <1>6 DEF InputInv, InputOK

LEMMA ModestKinds ==
  ASSUME Modest
  PROVE  /\ Kinds = {"get", "last", "upgrade", "text", "ping", "pong", "close"}
         /\ "answer" \notin Habits /\ "release" \notin Habits
BY DEF Modest, Kinds, Requests, Frames

LEMMA ReadSurvives ==
  ASSUME Modest, LifeInv, SurvivalInv, NEW c \in Conns, OnRead(c)
  PROVE  SurvivalInv'
<1> USE DEF LifeInv, table, output
<1>0. /\ alive /\ OutputInv /\ InputInv /\ RegInv
      /\ session \in SUBSET Conns
  BY SurvivalParts DEF TableInv
<1>1. CASE ReadGone(c)
  BY <1>1 DEF ReadGone, SurvivalInv
<1>2. CASE ParsePart(c)
  <2>1. PICK m \in Kinds : buffer[c] = <<m>>
    BY <1>0, <1>2 DEF ParsePart, InputInv, InputOK
  <2>2. <<m>> # <<>>
    OBVIOUS
  <2>3. QED
    BY <1>2, <2>1, <2>2 DEF ParsePart
<1>3. ASSUME NEW k, Parsed(c, {k}), k \notin Kinds PROVE FALSE
  <2>1. PICK m \in Kinds : buffer[c] = <<m>>
    BY <1>0, <1>3 DEF Parsed, InputInv, InputOK
  <2>2. Head(buffer[c]) = m
    BY <2>1
  <2>3. QED
    BY <1>3, <2>2 DEF Parsed
<1>4. CASE ParseError(c)
  BY <1>3, <1>4, ModestKinds DEF ParseError
<1>5. CASE UpgradeRaises(c)
  BY <1>3, <1>5, ModestKinds DEF UpgradeRaises
<1>6. CASE Upgrade(c) \/ PingPong(c)
  <2>1. pc = "read" /\ cur = c /\ c \in session /\ queue[c] = <<>>
    BY <1>6 DEF Upgrade, PingPong, Parsed, SurvivalInv
  <2>2. Consume(frag[cur]) /\ session' = session /\ \E n \in Sizes : Transmit(c, n)
    BY <1>6, <2>1 DEF Upgrade, PingPong
  <2>3. OutputInv' /\ RegInv'
    BY <1>0, <2>1, <2>2, TransmitKeeps
  <2>4. InputInv' /\ pc' = "idle" /\ alive' = alive
    BY <1>0, <2>1, <2>2, ConsumeEnds
  <2>5. QED
    BY <1>0, <2>3, <2>4, SurvivalParts DEF SurvivalInv, OutputInv, InputInv, RegInv
<1>7. CASE OnHttp(c)
  <2>1. pc = "read" /\ cur = c /\ pc' = "http" /\ cur' = c /\ alive' = alive
    BY <1>7 DEF OnHttp, Parsed, GoTo
  <2>2. UNCHANGED <<reg, session, buffer, frag, queue, out>>
    BY <1>7 DEF OnHttp, input
  <2>3. QED
    BY <2>1, <2>2 DEF SurvivalInv, InputOK, QueueOK, RegisteredHaveSession
<1>8. CASE Answer(c)
  <2>1. pc = "http" /\ cur = c /\ c \in session /\ Len(queue[c]) < 1
    BY <1>8, ModestKinds DEF Answer, Modest
  <2>2. Consume(frag[cur]) /\ session' = session /\ \E n \in Sizes : Transmit(c, n)
    BY <1>8, <2>1 DEF Answer
  <2>3. OutputInv' /\ RegInv'
    BY <1>0, <2>1, <2>2, NothingUnfinished, TransmitKeeps
  <2>4. InputInv' /\ pc' = "idle" /\ alive' = alive
    BY <1>0, <2>1, <2>2, ConsumeEnds
  <2>5. QED
    BY <1>0, <2>3, <2>4 DEF SurvivalInv, OutputInv, InputInv, RegInv
<1>9. CASE NoAnswer(c)
  <2>1. InputInv' /\ pc' = "idle" /\ alive' = alive
    BY <1>0, <1>9, ConsumeEnds DEF NoAnswer
  <2>2. UNCHANGED <<reg, session, queue, out>>
    BY <1>9 DEF NoAnswer
  <2>3. QED
    BY <2>1, <2>2 DEF SurvivalInv, InputInv, QueueOK, RegisteredHaveSession
<1>10. CASE CloseFrame(c)
  <2>1. pc = "read" /\ cur = c /\ c \in session /\ Close({c}) /\ Consume(frag[cur])
    BY <1>10 DEF CloseFrame, Parsed
  <2>2. InputInv' /\ pc' = "idle" /\ alive' = alive
    BY <1>0, <2>1, ConsumeEnds
  <2>3. RegInv'
    BY <1>0, <2>1, CloseKeepsReg
  <2>4. UNCHANGED <<queue, out>>
    BY <1>10 DEF CloseFrame
  <2>5. QED
    BY <2>2, <2>3, <2>4 DEF SurvivalInv, InputInv, QueueOK, RegInv
<1>11. QED
  BY <1>1, <1>2, <1>4, <1>5, <1>6, <1>7, <1>8, <1>9, <1>10 DEF OnRead

(* The kernel takes a part of the one response, or all of it.              *)
LEMMA DequeueKeeps ==
  ASSUME OutputInv, NEW c \in Conns, NEW k \in 0 .. out[c], k = 0 => out[c] = 0
  PROVE  /\ ~DequeueRaises(queue[c], k)
         /\ QueueOK(QueueAfter(queue[c], k), out[c] - k)
<1>1. out[c] \in Nat /\ QueueOK(queue[c], out[c])
  BY DEF OutputInv
<1>2. CASE k = 0
  <2>1. out[c] = 0 /\ queue[c] = <<>>
    BY <1>1, <1>2 DEF QueueOK
  <2>2. QED
    BY <1>2, <2>1 DEF DequeueRaises, QueueAfter, QueueOK
<1>3. CASE k > 0
  <2>1. queue[c] = <<out[c]>> /\ out[c] \in Nat \ {0} /\ k \in 1 .. out[c]
    BY <1>1, <1>3 DEF QueueOK
  <2>2. ~DequeueRaises(queue[c], k)
    BY <2>1, DequeueOne
  <2>3. CASE k < out[c]
    <3>1. QueueAfter(queue[c], k) = <<out[c] - k>>
      BY <2>1, <2>3, DequeueOne
    <3>2. out[c] - k > 0
      BY <2>1, <2>3
    <3>3. QED
      BY <2>2, <3>1, <3>2 DEF QueueOK
  <2>4. CASE k = out[c]
    <3>1. QueueAfter(queue[c], k) = <<>>
      BY <2>1, <2>4, DequeueOne
    <3>2. out[c] - k = 0
      BY <2>1, <2>4
    <3>3. QED
      BY <2>2, <3>1, <3>2 DEF QueueOK
  <2>5. QED
    BY <2>1, <2>3, <2>4
<1>4. QED
  BY <1>2, <1>3

LEMMA WriteSurvives ==
  ASSUME LifeInv, SurvivalInv, NEW c \in Conns, Writes(c)
  PROVE  SurvivalInv'
<1> USE DEF LifeInv, table
<1>0. /\ alive /\ OutputInv /\ InputInv /\ RegInv
  BY SurvivalParts
<1>1. PICK k \in 0 .. out[c] : WriteEvent(c, k)
  BY DEF Writes
<1>2. /\ ~DequeueRaises(queue[c], k)
      /\ QueueOK(QueueAfter(queue[c], k), out[c] - k)
  BY <1>0, <1>1, DequeueKeeps DEF WriteEvent
<1>3. /\ out' = [out EXCEPT ![c] = out[c] - k]
      /\ queue' = [queue EXCEPT ![c] = QueueAfter(queue[c], k)]
      /\ pc = "idle" /\ pc' = "completion" /\ alive' = alive
      /\ UNCHANGED <<reg, session, buffer, frag>>
  BY <1>1, <1>2 DEF WriteEvent, input
<1>4. OutputInv'
  <2>1. out[c] - k \in Nat
    BY <1>0 DEF OutputInv
  <2>2. QED
    BY <1>0, <1>2, <1>3, <2>1 DEF OutputInv
<1>5. QED
  BY <1>0, <1>3, <1>4
     DEF SurvivalInv, OutputInv, InputOK, RegInv, RegisteredHaveSession

LEMMA CompletionSurvives ==
  ASSUME LifeInv, SurvivalInv, NEW c \in Conns, OnWrite(c)
  PROVE  SurvivalInv'
<1> USE DEF LifeInv, table
<1>0. /\ alive /\ OutputInv /\ InputInv /\ RegInv
  BY SurvivalParts
<1>1. CASE Complete(c) \/ CallbackReturns(c)
  <2>1. /\ pc \notin {"read", "http"} /\ pc' \notin {"read", "http"}
        /\ alive' = alive
        /\ UNCHANGED <<reg, session, buffer, frag, queue, out>>
    BY <1>1 DEF Complete, CallbackReturns, GoTo, input, output
  <2>2. QED
    BY <2>1 DEF SurvivalInv, InputOK, QueueOK, RegisteredHaveSession
<1>2. CASE CompletionEnd(c)
  <2>1. pc = "completion" /\ cur = c /\ c \in session
    BY <1>2 DEF CompletionEnd, HandlerInv
  <2>2. /\ GoTo("idle", c)
        /\ UNCHANGED <<buffer, frag, queue, out>>
    BY <1>2, <2>1 DEF CompletionEnd, input, output
  <2>3. pc' = "idle" /\ alive' = alive
    BY <2>2 DEF GoTo
  <2>4. RegInv'
    <3>1. CASE Close({c})
      BY <1>0, <2>1, <3>1, CloseKeepsReg
    <3>2. CASE /\ reg' = [reg EXCEPT ![c] = IF out[c] = 0 THEN @ \ {"w"} ELSE @]
               /\ session' = session
      BY <1>0, <2>1, <3>2 DEF RegInv, RegisteredHaveSession
    <3>3. QED
      BY <1>2, <2>1, <3>1, <3>2 DEF CompletionEnd
  <2>5. QED
    BY <2>1, <2>2, <2>3, <2>4 DEF SurvivalInv, InputOK, QueueOK, RegInv
<1>3. QED
  BY <1>1, <1>2 DEF OnWrite

(* Closing outside onRead leaves buffers and queues as they are.           *)
LEMMA CloseSurvives ==
  ASSUME SurvivalInv, NEW S \in SUBSET session, Close(S), pc # "read",
         UNCHANGED <<input, output, control>>
  PROVE  SurvivalInv'
<1>1. RegInv'
  BY SurvivalParts, CloseKeepsReg
<1>2. QED
  BY <1>1 DEF SurvivalInv, RegInv, InputOK, QueueOK, input, output, control

(* A peer that speaks one message at a time.                               *)
LEMMA OneMessage ==
  ASSUME Modest, NEW c \in Conns, NEW b \in Batches(c)
  PROVE  \E m \in Kinds : b = <<m>>
<1>1. b \in [1 .. 1 -> Kinds]
  BY DEF Batches, Modest
<1>2. b = <<b[1]>> /\ b[1] \in Kinds
  BY <1>1
<1>3. QED
  BY <1>2

LEMMA ReceiveSurvives ==
  ASSUME Modest, LifeInv, SurvivalInv, NEW c \in Conns, Receive(c)
  PROVE  SurvivalInv'
<1> USE DEF LifeInv, table, output
<1>0. /\ alive /\ OutputInv /\ InputInv /\ RegInv
      /\ session \in SUBSET Conns
  BY SurvivalParts DEF TableInv
<1>1. /\ pc = "idle" /\ c \in session /\ queue[c] = <<>>
      /\ pc' = "read" /\ cur' = c /\ alive' = alive
      /\ UNCHANGED <<reg, session, queue, out>>
  BY <1>0 DEF Receive, GoTo, RegInv, RegisteredHaveSession, Modest
<1>2. PICK b \in Batches(c) : /\ buffer' = [buffer EXCEPT ![c] = @ \o b]
                              /\ frag' = [frag EXCEPT ![c] = FALSE]
  BY DEF Receive, Modest
<1>3. PICK m \in Kinds : b = <<m>>
  BY OneMessage
<1>4. buffer[c] = <<>> /\ buffer' = [buffer EXCEPT ![c] = <<m>>]
  <2>1. buffer[c] = <<>>
    BY <1>0, <1>1 DEF InputInv, InputOK
  <2>2. <<>> \o <<m>> = <<m>>
    <3>1. <<m>> \in Seq(Kinds)
      OBVIOUS
    <3>2. QED
      BY <3>1, ConcatEmptySeq
  <2>3. QED
    BY <1>2, <1>3, <2>1, <2>2
<1>5. InputInv'
  BY <1>0, <1>1, <1>2, <1>4 DEF InputInv, InputOK
<1>6. QED
  BY <1>0, <1>1, <1>5 DEF SurvivalInv, InputInv, QueueOK, RegisteredHaveSession

LEMMA SurvivalNext ==
  ASSUME Modest, LifeInv, SurvivalInv, [Next]_vars
  PROVE  SurvivalInv'
<1> USE DEF LifeInv, table
<1>0. /\ alive /\ OutputInv /\ InputInv /\ RegInv
      /\ session \in SUBSET Conns
  BY SurvivalParts DEF TableInv
<1>1. ASSUME NEW c \in Conns, Accept(c) PROVE SurvivalInv'
  <2>1. RegInv'
    BY <1>0, <1>1 DEF Accept, RegInv, RegisteredHaveSession
  <2>2. /\ pc = "idle" /\ pc' = "join" /\ alive' = alive
        /\ UNCHANGED <<buffer, frag, queue, out>>
    BY <1>1 DEF Accept, GoTo, input, output
  <2>3. QED
    BY <2>1, <2>2 DEF SurvivalInv, RegInv, InputOK, QueueOK
<1>2. ASSUME NEW c \in Conns, HandlerError(c) PROVE SurvivalInv'
  <2>1. c \in session
    BY <1>0, <1>2 DEF HandlerError, RegInv, RegisteredHaveSession
  <2>2. pc = "idle" /\ Close({c}) /\ UNCHANGED <<input, output, control>>
    BY <1>2, <2>1 DEF HandlerError
  <2>3. QED
    BY <2>1, <2>2, CloseSurvives
<1>3. ASSUME NEW c \in Conns, Send(c) PROVE SurvivalInv'
  <2>1. c \in session /\ queue[c] = <<>> /\ pc # "read"
    BY <1>0, <1>3, NothingUnfinished DEF Send, Modest
  <2>2. /\ session' = session /\ \E n \in Sizes : Transmit(c, n)
        /\ UNCHANGED <<input, control>>
    BY <1>3 DEF Send
  <2>3. OutputInv' /\ RegInv'
    BY <1>0, <2>1, <2>2, TransmitKeeps
  <2>4. QED
    BY <1>0, <2>1, <2>2, <2>3
       DEF SurvivalInv, OutputInv, RegInv, InputOK, input, control
<1>4. ASSUME NEW c \in Conns, CloseSession(c) PROVE SurvivalInv'
  BY <1>4, CloseSurvives DEF CloseSession
<1>5. ASSUME NEW S \in SUBSET Conns, Stop(S) PROVE SurvivalInv'
  BY <1>5, CloseSurvives DEF Stop
<1>6. CASE UNCHANGED vars
  BY <1>6 DEF vars, input, output, control, SurvivalInv, InputOK, QueueOK,
              RegisteredHaveSession
<1>7. QED
  BY <1>1, <1>2, <1>3, <1>4, <1>5, <1>6, ReceiveSurvives, ReadSurvives,
     WriteSurvives, CompletionSurvives DEF Next

LEMMA SurvivalInvariant ==
  ASSUME Modest
  PROVE  Spec => [](LifeInv /\ SurvivalInv)
<1>1. Init => LifeInv /\ SurvivalInv
  BY TableInit, LifeInit, SurvivalInit DEF LifeInv
<1>2. LifeInv /\ SurvivalInv /\ [Next]_vars => LifeInv' /\ SurvivalInv'
  BY TableNext, LifeNext, SurvivalNext, ModestKinds DEF LifeInv
<1>3. QED
  BY <1>1, <1>2, PTL DEF Spec

(* However many connections there are, no peer that sends one message at a *)
(* time, one that can be parsed, and waits, brings down the event loop.    *)
THEOREM ServerAlwaysSurvives ==
  ASSUME Modest
  PROVE  Spec => []ServerSurvives
<1>1. SurvivalInv => ServerSurvives
  BY DEF SurvivalInv, ServerSurvives
<1>2. QED
  BY <1>1, SurvivalInvariant, PTL

(* Under the same assumption the event worker never holds a channel that   *)
(* has no session.                                                         *)
THEOREM TablesAgree ==
  ASSUME Modest
  PROVE  Spec => []RegisteredHaveSession
<1>1. SurvivalInv => RegisteredHaveSession
  BY DEF SurvivalInv
<1>2. QED
  BY <1>1, SurvivalInvariant, PTL

-----------------------------------------------------------------------------
(* Part four: the types of all variables, for all peers and delegates.     *)

(* Responses are not empty, a handler has its channel, and the delegate    *)
(* has been given a message that is still in the buffer.                   *)
TypeInv ==
  /\ TypeOK
  /\ queue \in [Conns -> Seq(Nat \ {0})]
  /\ pc # "idle" => cur \in Conns
  /\ pc = "http" => buffer[cur] # <<>>

(* Its parts, as the handlers change them.                                 *)
RegType == reg \in [Conns -> SUBSET {"r", "w"}]

InputType ==
  /\ buffer \in [Conns -> Seq(Kinds)]
  /\ frag \in [Conns -> BOOLEAN]
  /\ sent \in [Conns -> Nat]
  /\ speaks \in [Conns -> BOOLEAN]

FlagType ==
  /\ isWebsocket \in [Conns -> BOOLEAN]
  /\ isFinished \in [Conns -> BOOLEAN]

OutputType ==
  /\ queue \in [Conns -> Seq(Nat \ {0})]
  /\ out \in [Conns -> Nat]

ControlType ==
  /\ alive \in BOOLEAN
  /\ pc \in {"idle", "read", "join", "http", "completion", "callback"}
  /\ cur \in Conns \cup {None}
  /\ count \in Nat
  /\ pc # "idle" => cur \in Conns

HttpHasMessage == pc = "http" => buffer[cur] # <<>>

LEMMA LengthsAreNumbers == Seq(Nat \ {0}) \subseteq Seq(Nat)
OBVIOUS

LEMMA TypeParts ==
  TableInv => (TypeInv <=> /\ RegType /\ InputType /\ FlagType
                           /\ OutputType /\ ControlType /\ HttpHasMessage)
BY LengthsAreNumbers
   DEF TableInv, TypeInv, TypeOK, RegType, InputType, FlagType, OutputType,
       ControlType, HttpHasMessage

LEMMA TypesInit == Init => TypeInv
<1> SUFFICES ASSUME Init PROVE TypeInv
  OBVIOUS
<1>1. RegType /\ InputType /\ FlagType /\ OutputType /\ ControlType
  BY DEF Init, RegType, InputType, FlagType, OutputType, ControlType
<1>2. HttpHasMessage
  BY DEF Init, HttpHasMessage
<1>3. QED
  BY <1>1, <1>2, TableInit, TypeParts

(* The shared steps.                                                       *)
LEMMA CloseTypes ==
  ASSUME RegType, NEW S, Close(S)
  PROVE  RegType'
BY DEF RegType, Close

LEMMA TransmitTypes ==
  ASSUME RegType, OutputType, NEW c \in Conns, NEW n \in Sizes, Transmit(c, n)
  PROVE  RegType' /\ OutputType'
<1>1. n \in Nat \ {0}
  BY ServerAssumption
<1>2. queue[c] \in Seq(Nat \ {0})
  BY DEF OutputType
<1>3. Append(queue[c], n) \in Seq(Nat \ {0})
  BY <1>1, <1>2
<1>4. /\ queue' = [queue EXCEPT ![c] = Append(queue[c], n)]
      /\ out' = [out EXCEPT ![c] = out[c] + n]
      /\ reg' = [reg EXCEPT ![c] = reg[c] \cup {"w"}]
  BY DEF Transmit
<1>5. queue' \in [Conns -> Seq(Nat \ {0})]
  BY <1>3, <1>4 DEF OutputType
<1>6. out' \in [Conns -> Nat]
  BY <1>1, <1>4 DEF OutputType
<1>7. RegType'
  BY <1>4 DEF RegType
<1>8. QED
  BY <1>5, <1>6, <1>7 DEF OutputType

LEMMA DieTypes ==
  ASSUME TableInv, TypeInv, Die
  PROVE  TypeInv'
<1>1. /\ alive' = FALSE /\ pc' = "idle" /\ cur' = None /\ count' = 0
      /\ UNCHANGED <<table, input, flags, output>>
  BY DEF Die
<1>2. QED
  BY <1>1 DEF TypeInv, TypeOK, table, input, flags, output

LEMMA GoToTypes ==
  ASSUME ControlType, NEW c \in Conns,
         NEW place \in {"idle", "read", "join", "http", "completion", "callback"},
         GoTo(place, c)
  PROVE  ControlType' /\ pc' = place /\ (place # "idle" => cur' = c)
BY DEF ControlType, GoTo

(* A message is consumed only while there is one.                          *)
LEMMA ConsumeTypes ==
  ASSUME InputType, ControlType, cur \in Conns, buffer[cur] # <<>>,
         NEW f \in BOOLEAN, Consume(f)
  PROVE  InputType' /\ ControlType' /\ HttpHasMessage'
<1>1. Tail(buffer[cur]) \in Seq(Kinds)
  <2>1. buffer[cur] \in Seq(Kinds)
    BY DEF InputType
  <2>2. QED
    BY <2>1, HeadTailProperties
<1>2. /\ buffer' = [buffer EXCEPT ![cur] = Tail(buffer[cur])]
      /\ frag' = [frag EXCEPT ![cur] = f]
      /\ UNCHANGED <<sent, speaks>>
  BY DEF Consume
<1>3. InputType'
  BY <1>1, <1>2 DEF InputType
<1>4. GoTo("idle", cur) \/ GoTo("read", cur)
  BY DEF Consume
<1>5. ControlType' /\ pc' \in {"idle", "read"}
  BY <1>4, GoToTypes
<1>6. QED
  BY <1>3, <1>5 DEF HttpHasMessage

LEMMA ReceiveTypes ==
  ASSUME InputType, ControlType, NEW c \in Conns, Receive(c)
  PROVE  InputType' /\ ControlType' /\ HttpHasMessage'
<1>1. PICK b \in Batches(c), f \in BOOLEAN :
        /\ buffer' = [buffer EXCEPT ![c] = buffer[c] \o b]
        /\ frag' = [frag EXCEPT ![c] = f]
        /\ sent' = [sent EXCEPT ![c] = sent[c] + Len(b)]
        /\ speaks' = [speaks EXCEPT ![c] =
                        speaks[c] \/ \E i \in DOMAIN b : b[i] = "upgrade"]
  BY DEF Receive
<1>2. b \in Seq(Kinds)
  <2>1. \E i \in {0, 1, 2} : b \in [1 .. i -> Kinds]
    BY DEF Batches
  <2>2. QED
    BY <2>1
<1>3. buffer[c] \o b \in Seq(Kinds)
  <2>1. buffer[c] \in Seq(Kinds)
    BY DEF InputType
  <2>2. QED
    BY <1>2, <2>1, ConcatProperties
<1>4. sent[c] + Len(b) \in Nat
  <2>1. Len(b) \in Nat
    BY <1>2
  <2>2. QED
    BY <2>1 DEF InputType
<1>5. speaks[c] \/ (\E i \in DOMAIN b : b[i] = "upgrade") \in BOOLEAN
  OBVIOUS
<1>6. buffer' \in [Conns -> Seq(Kinds)] /\ frag' \in [Conns -> BOOLEAN]
  BY <1>1, <1>3 DEF InputType
<1>7. sent' \in [Conns -> Nat]
  BY <1>1, <1>4 DEF InputType
<1>8. speaks' \in [Conns -> BOOLEAN]
  BY <1>1 DEF InputType
<1>9. GoTo("read", c)
  BY DEF Receive
<1>10. ControlType' /\ pc' = "read"
  BY <1>9, GoToTypes
<1>11. QED
  BY <1>6, <1>7, <1>8, <1>10 DEF InputType, HttpHasMessage

LEMMA ReadTypes ==
  ASSUME TableInv, TypeInv, NEW c \in Conns, OnRead(c)
  PROVE  RegType' /\ InputType' /\ FlagType' /\ OutputType' /\ ControlType'
         /\ HttpHasMessage'
<1> USE DEF table, input, flags, output
<1>0. /\ RegType /\ InputType /\ FlagType /\ OutputType /\ ControlType
      /\ HttpHasMessage /\ frag[c] \in BOOLEAN
  BY TypeParts DEF InputType
<1>1. CASE ReadGone(c) \/ UpgradeRaises(c)
  <2>1. Die
    BY <1>1 DEF ReadGone, UpgradeRaises
  <2>2. TypeInv'
    BY <2>1, DieTypes
  <2>3. UNCHANGED <<sock, session, left>>
    BY <2>1 DEF Die
  <2>4. TableInv'
    BY <2>3 DEF TableInv, LeavesOnce
  <2>5. (TypeInv' <=> /\ RegType' /\ InputType' /\ FlagType'
                      /\ OutputType' /\ ControlType' /\ HttpHasMessage')
    BY <2>4, LengthsAreNumbers
       DEF TableInv, TypeInv, TypeOK, RegType, InputType, FlagType, OutputType,
           ControlType, HttpHasMessage
  <2>6. QED
    BY <2>2, <2>5
<1>2. CASE ParsePart(c)
  <2>1. GoTo("idle", c) /\ UNCHANGED <<table, input, flags, output>>
    BY <1>2 DEF ParsePart
  <2>2. ControlType' /\ HttpHasMessage'
    BY <1>0, <2>1, GoToTypes DEF HttpHasMessage
  <2>3. QED
    BY <1>0, <2>1, <2>2 DEF RegType, InputType, FlagType, OutputType
<1>3. CASE ParseError(c) \/ CloseFrame(c)
  <2>1. /\ cur = c /\ buffer[cur] # <<>>
        /\ Close({c}) /\ \E f \in BOOLEAN : Consume(f)
        /\ UNCHANGED <<flags, output>>
    BY <1>0, <1>3 DEF ParseError, CloseFrame, Parsed
  <2>2. InputType' /\ ControlType' /\ HttpHasMessage'
    BY <1>0, <2>1, ConsumeTypes
  <2>3. RegType'
    BY <1>0, <2>1, CloseTypes
  <2>4. QED
    BY <1>0, <2>1, <2>2, <2>3 DEF FlagType, OutputType
<1>4. CASE Upgrade(c) \/ PingPong(c) \/ Answer(c)
  <2>1. /\ cur = c /\ buffer[cur] # <<>>
        /\ Consume(frag[c]) /\ \E n \in Sizes : Transmit(c, n)
    BY <1>0, <1>4 DEF Upgrade, PingPong, Answer, Parsed, HttpHasMessage
  <2>2. InputType' /\ ControlType' /\ HttpHasMessage'
    BY <1>0, <2>1, ConsumeTypes
  <2>3. RegType' /\ OutputType'
    BY <1>0, <2>1, TransmitTypes
  <2>4. FlagType'
    BY <1>0, <1>4 DEF Upgrade, PingPong, Answer, FlagType
  <2>5. QED
    BY <2>2, <2>3, <2>4
<1>5. CASE NoAnswer(c)
  <2>1. /\ cur = c /\ buffer[cur] # <<>> /\ Consume(frag[c])
        /\ UNCHANGED <<table, flags, output>>
    BY <1>0, <1>5 DEF NoAnswer, HttpHasMessage
  <2>2. InputType' /\ ControlType' /\ HttpHasMessage'
    BY <1>0, <2>1, ConsumeTypes
  <2>3. QED
    BY <1>0, <2>1, <2>2 DEF RegType, FlagType, OutputType
<1>6. CASE OnHttp(c)
  <2>1. /\ buffer[c] # <<>> /\ GoTo("http", c)
        /\ isFinished' = [isFinished EXCEPT ![c] =
                            isFinished[c] \/ Head(buffer[c]) = "last"]
        /\ UNCHANGED <<table, input, isWebsocket, output>>
    BY <1>6 DEF OnHttp, Parsed
  <2>2. ControlType' /\ HttpHasMessage'
    BY <1>0, <2>1, GoToTypes DEF HttpHasMessage
  <2>3. FlagType'
    BY <1>0, <2>1 DEF FlagType
  <2>4. QED
    BY <1>0, <2>1, <2>2, <2>3 DEF RegType, InputType, OutputType
<1>7. QED
  BY <1>1, <1>2, <1>3, <1>4, <1>5, <1>6 DEF OnRead

LEMMA WriteTypes ==
  ASSUME TableInv, TypeInv, NEW c \in Conns, Writes(c) \/ OnWrite(c)
  PROVE  TypeInv'
<1> USE DEF table, input, flags, output
<1>0. /\ RegType /\ InputType /\ FlagType /\ OutputType /\ ControlType
      /\ HttpHasMessage
  BY TypeParts
<1>1. CASE Writes(c)
  <2>1. PICK k \in 0 .. out[c] : WriteEvent(c, k)
    BY <1>1 DEF Writes
  <2>2. CASE Die
    BY <2>2, DieTypes
  <2>3. CASE ~DequeueRaises(queue[c], k)
    <3>1. /\ out' = [out EXCEPT ![c] = out[c] - k]
          /\ queue' = [queue EXCEPT ![c] = QueueAfter(queue[c], k)]
          /\ count' = CountAfter(queue[c], k)
          /\ pc' = "completion" /\ cur' = c
          /\ UNCHANGED <<table, input, flags, alive>>
      BY <2>1, <2>3 DEF WriteEvent
    <3>2. out[c] \in Nat /\ queue[c] \in Seq(Nat \ {0}) /\ k \in Nat
      BY <1>0 DEF OutputType
    <3>3. ~DequeueHangs(queue[c], k)
      BY <3>2 DEF DequeueHangs, Top
    <3>4. QueueAfter(queue[c], k) \in Seq(Nat \ {0}) /\ CountAfter(queue[c], k) \in Nat
      BY <2>3, <3>2, <3>3, DequeueType
    <3>5. out[c] - k \in Nat
      BY <3>2
    <3>6. queue' \in [Conns -> Seq(Nat \ {0})] /\ out' \in [Conns -> Nat]
      BY <1>0, <3>1, <3>4, <3>5 DEF OutputType
    <3>7. queue' \in [Conns -> Seq(Nat)]
      BY <3>6, LengthsAreNumbers
    <3>8. QED
      BY <3>1, <3>4, <3>6, <3>7 DEF TypeInv, TypeOK
  <2>4. QED
    BY <2>1, <2>2, <2>3 DEF WriteEvent
<1>2. CASE Complete(c)
  <2>1. count - 1 \in Nat
    BY <1>0, <1>2 DEF Complete, ControlType
  <2>2. QED
    BY <1>2, <2>1 DEF Complete, TypeInv, TypeOK
<1>3. CASE CallbackReturns(c)
  BY <1>3 DEF CallbackReturns, GoTo, TypeInv, TypeOK
<1>4. CASE CompletionEnd(c)
  <2>1. CASE Die
    BY <2>1, DieTypes
  <2>2. CASE /\ c \in session /\ Close({c}) /\ GoTo("idle", c)
             /\ UNCHANGED <<input, flags, output>>
    <3>1. TableInv'
      BY <2>2, CloseKeepsTable
    <3>2. RegType'
      BY <1>0, <2>2, CloseTypes
    <3>3. pc' = "idle" /\ cur' = None /\ UNCHANGED <<alive, count>>
      BY <2>2 DEF GoTo
    <3>4. QED
      BY <2>2, <3>1, <3>2, <3>3 DEF TypeInv, TypeOK, TableInv, RegType
  <2>3. CASE /\ reg' = [reg EXCEPT ![c] = IF out[c] = 0 THEN @ \ {"w"} ELSE @]
             /\ GoTo("idle", c)
             /\ UNCHANGED <<sock, session, left, input, flags, output>>
    BY <2>3 DEF GoTo, TypeInv, TypeOK
  <2>4. QED
    BY <1>4, <2>1, <2>2, <2>3 DEF CompletionEnd
<1>5. QED
  BY <1>1, <1>2, <1>3, <1>4 DEF OnWrite

LEMMA TypesNext ==
  ASSUME TableInv, TypeInv, [Next]_vars
  PROVE  TypeInv'
<1> USE DEF table, input, flags, output, control
<1>0. /\ RegType /\ InputType /\ FlagType /\ OutputType /\ ControlType
      /\ HttpHasMessage /\ TableInv'
  BY TypeParts, TableNext
<1>1. ASSUME NEW c \in Conns, Accept(c) PROVE TypeInv'
  BY <1>0, <1>1, GoToTypes DEF Accept, GoTo, TypeInv, TypeOK, TableInv
<1>2. ASSUME NEW c \in Conns, Receive(c) PROVE TypeInv'
  <2>1. InputType' /\ ControlType' /\ HttpHasMessage'
    BY <1>0, <1>2, ReceiveTypes
  <2>2. UNCHANGED <<table, flags, output>>
    BY <1>2 DEF Receive
  <2>3. QED
    BY <2>1, <2>2 DEF TypeInv, TypeOK, InputType, ControlType, HttpHasMessage
<1>3. ASSUME NEW c \in Conns, OnRead(c) PROVE TypeInv'
  <2>1. /\ RegType' /\ InputType' /\ FlagType' /\ OutputType' /\ ControlType'
        /\ HttpHasMessage'
    BY <1>3, ReadTypes
  <2>2. queue' \in [Conns -> Seq(Nat)]
    BY <2>1, LengthsAreNumbers DEF OutputType
  <2>3. QED
    BY <1>0, <2>1, <2>2
       DEF TableInv, TypeInv, TypeOK, RegType, InputType, FlagType, OutputType,
           ControlType, HttpHasMessage
<1>4. ASSUME NEW S, Close(S), UNCHANGED <<input, flags, output, control>>
      PROVE  TypeInv'
  BY <1>0, <1>4, CloseTypes DEF TypeInv, TypeOK, TableInv, RegType
<1>5. ASSUME NEW c \in Conns, HandlerError(c) PROVE TypeInv'
  BY <1>4, <1>5, DieTypes DEF HandlerError
<1>6. ASSUME NEW c \in Conns, Send(c) PROVE TypeInv'
  <2>1. /\ \E n \in Sizes : Transmit(c, n)
        /\ UNCHANGED <<sock, session, left, input, flags, control>>
    BY <1>6 DEF Send
  <2>2. RegType' /\ OutputType'
    BY <1>0, <2>1, TransmitTypes
  <2>3. queue' \in [Conns -> Seq(Nat)]
    BY <2>2, LengthsAreNumbers DEF OutputType
  <2>4. QED
    BY <2>1, <2>2, <2>3 DEF TypeInv, TypeOK, RegType, OutputType
<1>7. ASSUME NEW c \in Conns, CloseSession(c) PROVE TypeInv'
  BY <1>4, <1>7 DEF CloseSession
<1>8. ASSUME NEW S \in SUBSET Conns, Stop(S) PROVE TypeInv'
  BY <1>4, <1>8 DEF Stop
<1>9. CASE UNCHANGED vars
  BY <1>9 DEF vars, TypeInv, TypeOK
<1>10. QED
  BY <1>1, <1>2, <1>3, <1>5, <1>6, <1>7, <1>8, <1>9, WriteTypes DEF Next

(* However many connections there are and whatever peers and the delegate  *)
(* do, the server's variables keep their types.                            *)
THEOREM ServerTypes == Spec => []TypeOK
<1>1. TableInv /\ TypeInv /\ [Next]_vars => TableInv' /\ TypeInv'
  BY TableNext, TypesNext
<1>2. Init => TableInv /\ TypeInv
  BY TableInit, TypesInit
<1>3. TypeInv => TypeOK
  BY DEF TypeInv
<1>4. QED
  BY <1>1, <1>2, <1>3, PTL DEF Spec
=============================================================================

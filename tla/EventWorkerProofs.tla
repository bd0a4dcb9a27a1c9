-------------------------- MODULE EventWorkerProofs --------------------------
(***************************************************************************)
(* Theorems about the event loop, for any number of sockets.               *)
(***************************************************************************)
EXTENDS EventWorker, TLAPS, SequenceTheorems

(* The table keeps its type whatever is added to or removed from it.       *)
LEMMA TableType ==
  ASSUME NEW chs \in [IO -> SUBSET Modes], NEW c, NEW mode \in SUBSET Modes
  PROVE  /\ AddChannel(chs, c, mode) \in [IO -> SUBSET Modes]
         /\ RemoveChannel(chs, c, mode) \in [IO -> SUBSET Modes]
BY DEF AddChannel, RemoveChannel

(* Entering and leaving close() keep the stacks of closes sequences.       *)
LEMMA PushType ==
  ASSUME NEW s \in [Threads -> Seq(IO)], NEW t \in Threads, NEW d \in IO
  PROVE  [s EXCEPT ![t] = Append(@, d)] \in [Threads -> Seq(IO)]
OBVIOUS

LEMMA PopType ==
  ASSUME NEW s \in [Threads -> Seq(IO)], NEW t \in Threads, s[t] # <<>>
  PROVE  /\ [s EXCEPT ![t] = SubSeq(@, 1, Len(@) - 1)] \in [Threads -> Seq(IO)]
         /\ s[t][Len(s[t])] \in IO
<1>1. s[t] \in Seq(IO) /\ Len(s[t]) \in Nat \ {0}
  BY EmptySeq, LenProperties
<1>2. SubSeq(s[t], 1, Len(s[t]) - 1) \in Seq(IO)
  BY <1>1, SubSeqProperties
<1>3. QED
  BY <1>1, <1>2, ElementOfSeq

(* What is left of the input is within its bound.                          *)
LEMMA LeftType ==
  /\ 0 \in 0 .. MaxInput
  /\ \A n \in 1 .. MaxInput : n \in 0 .. MaxInput
BY IOAssumption

(* Every variable stays in its range.                                      *)
LEMMA TypeInit == Init => TypeOK
<1> SUFFICES ASSUME Init PROVE TypeOK
  OBVIOUS
<1>1. closing \in [Threads -> Seq(IO)]
  BY DEF Init
<1>2. /\ channels \in [IO -> SUBSET Modes]
      /\ shut \in [IO -> SUBSET Modes]
  BY DEF Init, Modes
<1>3. /\ sock \in [IO -> {"free", "open", "closed"}]
      /\ notified \in [IO -> 0 .. 2]
  BY DEF Init
<1>4. QED
  BY <1>1, <1>2, <1>3, LeftType DEF Init, TypeOK

LEMMA TypeNext == TypeOK /\ [Next]_vars => TypeOK'
<1> SUFFICES ASSUME TypeOK, [Next]_vars PROVE TypeOK'
  OBVIOUS
<1> USE DEF worker, net
<1>1. ASSUME NEW c \in IO, Arrive(c) PROVE TypeOK'
  BY <1>1 DEF TypeOK, Arrive
<1>2. ASSUME NEW t \in Threads, NEW d \in IO, Open(t, d) PROVE TypeOK'
  <2>1. channels' \in [IO -> SUBSET Modes]
    BY <1>2, TableType DEF TypeOK, Open, Modes
  <2>2. QED
    BY <1>2, <2>1 DEF TypeOK, Open
<1>3. ASSUME NEW t \in Threads, NEW d \in IO, Send(t, d) PROVE TypeOK'
  <2>1. channels' \in [IO -> SUBSET Modes]
    BY <1>3, TableType DEF TypeOK, Send, Modes
  <2>2. QED
    BY <1>3, <2>1 DEF TypeOK, Send
<1>4. ASSUME NEW t \in Threads, NEW d \in IO, Shutdown(t, d) PROVE TypeOK'
  <2>1. PICK how \in {{"r"}, {"w"}, Modes} :
          /\ channels' = RemoveChannel(channels, d, how)
          /\ shut' = [shut EXCEPT ![d] = @ \cup how]
    BY <1>4 DEF Shutdown
  <2>2. how \in SUBSET Modes
    BY DEF Modes
  <2>3. channels' \in [IO -> SUBSET Modes]
    BY <2>1, <2>2, TableType DEF TypeOK
  <2>4. shut' \in [IO -> SUBSET Modes]
    BY <2>1, <2>2 DEF TypeOK
  <2>5. QED
    BY <1>4, <2>3, <2>4 DEF TypeOK, Shutdown
<1>5. ASSUME NEW t \in Threads, NEW d \in IO, BeginClose(t, d)
      PROVE  /\ closing' \in [Threads -> Seq(IO)]
             /\ sock' \in [IO -> {"free", "open", "closed"}]
             /\ notified' \in [IO -> 0 .. 2]
  <2>1. closing' \in [Threads -> Seq(IO)]
    BY <1>5, PushType DEF BeginClose, TypeOK
  <2>2. QED
    BY <1>5, <2>1 DEF BeginClose, TypeOK
<1>6. ASSUME NEW t \in Threads, NEW d \in IO, Close(t, d) PROVE TypeOK'
  BY <1>5, <1>6 DEF TypeOK, Close
<1>7. ASSUME NEW t \in Threads, EndClose(t) PROVE TypeOK'
  <2>1. closing' \in [Threads -> Seq(IO)]
    BY <1>7, PopType DEF TypeOK, EndClose
  <2>2. channels' \in [IO -> SUBSET Modes]
    BY <1>7, TableType DEF TypeOK, EndClose, Modes
  <2>3. QED
    BY <1>7, <2>1, <2>2 DEF TypeOK, EndClose
<1>8. CASE Resume \/ ResumeNested \/ ResumeDead
  BY <1>8 DEF TypeOK, Resume, ResumeNested, ResumeDead, vars
<1>9. ASSUME Die PROVE TypeOK'
  <2>1. closing' \in [Threads -> Seq(IO)]
    <3>1. <<>> \in Seq(IO)
      OBVIOUS
    <3>2. QED
      BY <1>9, <3>1 DEF TypeOK, Die
  <2>2. QED
    BY <1>9, <2>1, LeftType DEF TypeOK, Die
<1>10. CASE Raise
  BY <1>9, <1>10 DEF Raise
<1>11. CASE SelectReady \/ SelectError
  BY <1>11 DEF TypeOK, SelectReady, SelectError, GetChannelIO
<1>12. ASSUME NEW c \in IO, OnReadEvent(c) PROVE TypeOK'
  <2>1. CASE ReadGone(c)
    BY <1>9, <2>1 DEF ReadGone
  <2>2. CASE ReadData(c)
    <3>1. left' \in 0 .. MaxInput
      BY <2>2, LeftType DEF ReadData
    <3>2. QED
      BY <2>2, <3>1 DEF TypeOK, ReadData, Dispatch
  <2>3. CASE ReadAgain(c)
    BY <2>3 DEF TypeOK, ReadAgain, Dispatch
  <2>4. CASE ReadError(c)
    <3>1. BeginClose("worker", c)
      BY <2>4 DEF ReadError
    <3>2. QED
      BY <1>5, <2>4, <3>1 DEF TypeOK, ReadError, Dispatch, Threads
  <2>5. CASE Accept(c)
    <3>1. PICK d \in IO :
            /\ sock' = [sock EXCEPT ![d] = "open"]
            /\ channels' = AddChannel(channels, d, {"r"})
      BY <2>5 DEF Accept
    <3>2. channels' \in [IO -> SUBSET Modes]
      BY <3>1, TableType DEF TypeOK, Modes
    <3>3. sock' \in [IO -> {"free", "open", "closed"}]
      BY <3>1 DEF TypeOK
    <3>4. QED
      BY <2>5, <3>2, <3>3 DEF TypeOK, Accept, Dispatch
  <2>6. CASE AcceptError(c)
    <3>1. channels' \in [IO -> SUBSET Modes]
      BY <2>6, TableType DEF TypeOK, AcceptError, Modes
    <3>2. QED
      BY <2>6, <3>1 DEF TypeOK, AcceptError, Dispatch
  <2>7. QED
    BY <1>12, <2>1, <2>2, <2>3, <2>4, <2>5, <2>6 DEF OnReadEvent
<1>13. ASSUME NEW c \in IO, OnWriteEvent(c) PROVE TypeOK'
  <2>1. CASE WriteGone(c)
    BY <2>1 DEF TypeOK, WriteGone
  <2>2. CASE WriteData(c)
    BY <2>2 DEF TypeOK, WriteData, DispatchWrite
  <2>3. CASE WriteAgain(c)
    BY <2>3 DEF TypeOK, WriteAgain, DispatchWrite
  <2>4. CASE WriteError(c)
    <3>1. BeginClose("worker", c)
      BY <2>4 DEF WriteError
    <3>2. QED
      BY <1>5, <2>4, <3>1 DEF TypeOK, WriteError, DispatchWrite, Threads
  <2>5. QED
    BY <1>13, <2>1, <2>2, <2>3, <2>4 DEF OnWriteEvent
<1>14. CASE Return
  <2>1. channels' \in [IO -> SUBSET Modes]
    <3>1. {"w"} \in SUBSET Modes /\ Modes \in SUBSET Modes
      BY DEF Modes
    <3>2. QED
      BY <1>14, <3>1, TableType
      DEF TypeOK, Return, OnReadAgain, ReturnContinue, ReturnError, ReturnWritten
  <2>2. left' \in 0 .. MaxInput
    <3>1. CASE OnReadAgain
      <4>1. PICK len \in 1 .. left - 1 : left' = left - len
        BY <3>1 DEF OnReadAgain
      <4>2. left \in 0 .. MaxInput /\ MaxInput \in Nat
        BY IOAssumption DEF TypeOK
      <4>3. QED
        BY <4>1, <4>2
    <3>2. CASE ReturnContinue
      BY <3>2, LeftType DEF ReturnContinue
    <3>3. CASE ReturnError \/ ReturnWritten
      BY <3>3 DEF ReturnError, ReturnWritten, TypeOK
    <3>4. QED
      BY <1>14, <3>1, <3>2, <3>3 DEF Return
  <2>3. QED
    BY <1>14, <2>1, <2>2
    DEF TypeOK, Return, OnReadAgain, ReturnContinue, ReturnError, ReturnWritten
<1>15. CASE ReadsDone \/ Yield
  BY <1>15 DEF TypeOK, ReadsDone, Yield
<1>16. CASE UNCHANGED vars
  BY <1>16 DEF TypeOK, vars
<1>17. QED
  BY <1>1, <1>2, <1>3, <1>4, <1>6, <1>7, <1>8, <1>10, <1>11, <1>12, <1>13,
     <1>14, <1>15, <1>16
  DEF Next, Call, Handle

(* The variables of the event loop keep their types, in every execution.   *)
THEOREM TypeCorrect == Spec => []TypeOK
BY TypeInit, TypeNext, PTL DEF Spec

-----------------------------------------------------------------------------
(* Why the read loop's missing check does no harm when callbacks keep to   *)
(* their own channel: the channel being handled has left readIO, and it is *)
(* the only one that can be removed from the table while the others wait.  *)

InHandler == pc \in {"onRead", "onAccept", "onReadError", "onWrite", "onWriteError"}

SurvivalInv ==
  /\ co # "dead"
  /\ \A c \in readIO : Registered(c)
  /\ co # "running" => readIO = {} /\ closing["worker"] = <<>>
  /\ pc \in {"select", "write", "onWrite", "onWriteError"} => readIO = {}
  /\ InHandler => cur \in IO /\ cur \notin readIO
  /\ closing["worker"] # <<>> => InHandler
  /\ \A i \in 1 .. Len(closing["worker"]) : closing["worker"][i] = cur

(* Adding never empties an entry, and removing touches only one.           *)
LEMMA StillRegistered ==
  ASSUME NEW chs \in [IO -> SUBSET Modes], NEW c \in IO, NEW d, NEW mode,
         chs[c] # {}
  PROVE  /\ AddChannel(chs, d, mode)[c] # {}
         /\ c # d => RemoveChannel(chs, d, mode)[c] # {}
BY DEF AddChannel, RemoveChannel

(* A callback reaches no channel but the one being handled.                *)
LEMMA ReachesOwn ==
  ASSUME TypeOK, SurvivalInv, KeepsToItself, InCallback,
         NEW d \in IO, MayTouch("worker", d)
  PROVE  d = cur /\ InHandler
<1>1. InHandler
  BY DEF SurvivalInv, InCallback, InHandler
<1>2. Owner = cur
  <2>1. CASE closing["worker"] # <<>>
    <3>1. Len(closing["worker"]) \in 1 .. Len(closing["worker"])
      BY <2>1, EmptySeq, LenProperties DEF TypeOK, Threads
    <3>2. QED
      BY <2>1, <3>1 DEF Owner, Innermost, SurvivalInv
  <2>2. CASE closing["worker"] = <<>>
    BY <2>2 DEF Owner
  <2>3. QED
    BY <2>1, <2>2
<1>3. QED
  BY <1>1, <1>2 DEF MayTouch, KeepsToItself, SurvivalInv

LEMMA SurvivalInit == Init => SurvivalInv
BY DEF Init, SurvivalInv, InHandler, Threads

(* A call on a channel, by the main program between two handle()s or by a  *)
(* callback on its own channel, leaves every waiting io registered.        *)
LEMMA SurvivalCall ==
  ASSUME TypeOK, SurvivalInv, KeepsToItself, NEW t \in Threads, Call(t)
  PROVE  SurvivalInv'
<1> USE DEF worker, net
<1>1. ASSUME NEW d \in IO, Open(t, d) PROVE SurvivalInv'
  <2>1. \A c \in IO : Registered(c) => Registered(c)'
    BY <1>1, StillRegistered DEF Open, Registered, TypeOK
  <2>2. QED
    BY <1>1, <2>1 DEF Open, SurvivalInv, InHandler, TypeOK
<1>2. ASSUME NEW d \in IO, Send(t, d) PROVE SurvivalInv'
  <2>1. \A c \in IO : Registered(c) => Registered(c)'
    BY <1>2, StillRegistered DEF Send, Registered, TypeOK
  <2>2. QED
    BY <1>2, <2>1 DEF Send, SurvivalInv, InHandler, TypeOK
<1>3. ASSUME NEW d \in IO, Shutdown(t, d) PROVE SurvivalInv'
  <2>1. \A c \in readIO : Registered(c)'
    <3>1. CASE co = "running"
      <4>1. d = cur /\ InHandler
        BY <1>3, <3>1, ReachesOwn DEF Shutdown, MayCall
      <4>2. PICK how : channels' = RemoveChannel(channels, d, how)
        BY <1>3 DEF Shutdown
      <4>3. QED
        BY <4>1, <4>2, StillRegistered DEF SurvivalInv, Registered, TypeOK
    <3>2. CASE co # "running"
      BY <3>2 DEF SurvivalInv
    <3>3. QED
      BY <3>1, <3>2
  <2>2. QED
    BY <1>3, <2>1 DEF Shutdown, SurvivalInv, InHandler, Registered
<1>4. ASSUME NEW d \in IO, Close(t, d) PROVE SurvivalInv'
  <2>1. CASE co = "running"
    <3>1. t = "worker" /\ d = cur /\ InHandler
      BY <1>4, <2>1, ReachesOwn DEF Close, MayCall
    <3>2. closing' = [closing EXCEPT !["worker"] = Append(@, cur)]
      BY <1>4, <3>1 DEF Close, BeginClose
    <3>3. \A i \in 1 .. Len(closing'["worker"]) : closing'["worker"][i] = cur
      BY <3>2 DEF SurvivalInv, TypeOK, Threads
    <3>4. QED
      BY <1>4, <2>1, <3>1, <3>3 DEF Close, SurvivalInv, InHandler, Registered
  <2>2. CASE co # "running"
    <3>1. t = "main"
      BY <1>4, <2>2 DEF Close, MayCall
    <3>2. closing'["worker"] = closing["worker"]
      BY <1>4, <3>1 DEF Close, BeginClose, TypeOK, Threads
    <3>3. QED
      BY <1>4, <2>2, <3>2 DEF Close, SurvivalInv, InHandler, Registered
  <2>3. QED
    BY <2>1, <2>2
<1>5. ASSUME EndClose(t) PROVE SurvivalInv'
  <2>1. CASE co = "running"
    <3>1. t = "worker" /\ closing["worker"] # <<>>
      BY <1>5, <2>1 DEF EndClose
    <3>2. DEFINE s == closing["worker"]
    <3>3. s \in Seq(IO) /\ Len(s) \in 1 .. Len(s)
      BY <3>1, EmptySeq, LenProperties DEF TypeOK, Threads
    <3>4. Innermost(t) = cur /\ InHandler
      BY <3>1, <3>3 DEF Innermost, SurvivalInv
    <3>5. closing'["worker"] = SubSeq(s, 1, Len(s) - 1)
      BY <1>5, <3>1 DEF EndClose, TypeOK, Threads
    <3>6. \A i \in 1 .. Len(closing'["worker"]) : closing'["worker"][i] = cur
      BY <3>3, <3>5 DEF SurvivalInv
    <3>7. \A c \in readIO : Registered(c)'
      BY <1>5, <3>4, StillRegistered
      DEF EndClose, SurvivalInv, Registered, TypeOK
    <3>8. QED
      BY <1>5, <2>1, <3>4, <3>6, <3>7 DEF EndClose, SurvivalInv, InHandler
  <2>2. CASE co # "running"
    <3>1. closing'["worker"] = closing["worker"]
      BY <1>5, <2>2 DEF EndClose, TypeOK, Threads
    <3>2. QED
      BY <1>5, <2>2, <3>1 DEF EndClose, SurvivalInv, InHandler
  <2>3. QED
    BY <2>1, <2>2
<1>6. QED
  BY <1>1, <1>2, <1>3, <1>4, <1>5 DEF Call

(* The read loop: the io it takes is registered, and stops waiting.        *)
LEMMA SurvivalRead ==
  ASSUME TypeOK, SurvivalInv, NEW c \in IO, OnReadEvent(c)
  PROVE  SurvivalInv'
<1> USE DEF worker, net
<1>1. CASE ReadGone(c)
  BY <1>1 DEF ReadGone, SurvivalInv
<1>2. CASE ReadData(c)
  BY <1>2 DEF ReadData, Dispatch, SurvivalInv, InHandler, Registered
<1>3. CASE ReadAgain(c)
  BY <1>3 DEF ReadAgain, Dispatch, SurvivalInv, InHandler, Registered
<1>4. CASE ReadError(c)
  <2>1. closing["worker"] = <<>>
    BY <1>4 DEF ReadError, Dispatch, SurvivalInv, InHandler
  <2>2. closing'["worker"] = <<c>>
    BY <1>4, <2>1 DEF ReadError, BeginClose, TypeOK, Threads
  <2>3. QED
    BY <1>4, <2>2
    DEF ReadError, Dispatch, SurvivalInv, InHandler, Registered
<1>5. CASE Accept(c)
  <2>1. PICK e \in IO : channels' = AddChannel(channels, e, {"r"})
    BY <1>5 DEF Accept
  <2>2. \A d \in IO : Registered(d) => Registered(d)'
    BY <2>1, StillRegistered DEF Registered, TypeOK
  <2>3. QED
    BY <1>5, <2>2 DEF Accept, Dispatch, SurvivalInv, InHandler, TypeOK
<1>6. CASE AcceptError(c)
  <2>1. \A d \in readIO' : Registered(d)'
    BY <1>6, StillRegistered
    DEF AcceptError, Dispatch, SurvivalInv, Registered, TypeOK
  <2>2. QED
    BY <1>6, <2>1 DEF AcceptError, Dispatch, SurvivalInv, InHandler
<1>7. QED
  BY <1>1, <1>2, <1>3, <1>4, <1>5, <1>6 DEF OnReadEvent

(* The write loop runs when nothing waits for reading any more.            *)
LEMMA SurvivalWrite ==
  ASSUME TypeOK, SurvivalInv, NEW c \in IO, OnWriteEvent(c)
  PROVE  SurvivalInv'
<1> USE DEF worker, net
<1>1. CASE WriteGone(c)
  BY <1>1 DEF WriteGone, SurvivalInv, InHandler
<1>2. CASE WriteData(c)
  BY <1>2 DEF WriteData, DispatchWrite, SurvivalInv, InHandler
<1>3. CASE WriteAgain(c)
  BY <1>3 DEF WriteAgain, DispatchWrite, SurvivalInv, InHandler
<1>4. CASE WriteError(c)
  <2>1. closing["worker"] = <<>>
    BY <1>4 DEF WriteError, DispatchWrite, SurvivalInv, InHandler
  <2>2. closing'["worker"] = <<c>>
    BY <1>4, <2>1 DEF WriteError, BeginClose, TypeOK, Threads
  <2>3. QED
    BY <1>4, <2>2 DEF WriteError, DispatchWrite, SurvivalInv, InHandler
<1>5. QED
  BY <1>1, <1>2, <1>3, <1>4 DEF OnWriteEvent

LEMMA SurvivalNext ==
  ASSUME TypeOK, SurvivalInv, KeepsToItself, "raise" \notin Habits,
         [Next]_vars
  PROVE  SurvivalInv'
<1> USE DEF worker, net
<1>1. ASSUME NEW c \in IO, Arrive(c) PROVE SurvivalInv'
  BY <1>1 DEF Arrive, SurvivalInv, InHandler, Registered
<1>2. CASE Resume
  BY <1>2 DEF Resume, SurvivalInv, InHandler, Registered
<1>3. CASE ResumeNested
  BY <1>3 DEF ResumeNested, SurvivalInv, InHandler, Registered
<1>4. CASE ResumeDead
  BY <1>4 DEF ResumeDead, SurvivalInv
<1>5. CASE Raise
  BY <1>5 DEF Raise
<1>6. CASE SelectReady \/ SelectError
  BY <1>6 DEF SelectReady, SelectError, GetChannelIO, SurvivalInv, InHandler,
              Registered
<1>7. CASE Return
  <2>1. PICK mode : \/ channels' = channels
                    \/ channels' = RemoveChannel(channels, cur, mode)
    BY <1>7 DEF Return, OnReadAgain, ReturnContinue, ReturnError, ReturnWritten
  <2>2. cur \notin readIO
    BY <1>7
    DEF Return, OnReadAgain, ReturnContinue, ReturnError, ReturnWritten, SurvivalInv, InHandler
  <2>3. readIO' = readIO
    BY <1>7 DEF Return, OnReadAgain, ReturnContinue, ReturnError, ReturnWritten
  <2>4. \A c \in readIO' : Registered(c)'
    <3> SUFFICES ASSUME NEW c \in readIO PROVE channels'[c] # {}
      BY <2>3 DEF Registered
    <3>1. c \in IO /\ channels[c] # {} /\ c # cur
      BY <2>2 DEF SurvivalInv, Registered, TypeOK
    <3>2. QED
      BY <2>1, <3>1, StillRegistered DEF TypeOK
  <2>5. QED
    BY <1>7, <2>3, <2>4
    DEF Return, OnReadAgain, ReturnContinue, ReturnError, ReturnWritten, SurvivalInv, InHandler
<1>8. CASE ReadsDone \/ Yield
  BY <1>8 DEF ReadsDone, Yield, SurvivalInv, InHandler, Registered
<1>9. CASE UNCHANGED vars
  BY <1>9 DEF vars, SurvivalInv, InHandler, Registered
<1>10. QED
  BY <1>1, <1>2, <1>3, <1>4, <1>5, <1>6, <1>7, <1>8, <1>9,
     SurvivalCall, SurvivalRead, SurvivalWrite DEF Next, Handle

(* The worker's coroutine is never killed by handle() itself: not by the   *)
(* unchecked lookup of the read loop, and not by a nested resume(), when   *)
(* callbacks do not raise and close only the channel they are called for.  *)
THEOREM WorkerSurvivesAlways ==
  ASSUME KeepsToItself, "raise" \notin Habits
  PROVE  Spec => []WorkerSurvives
<1>1. SurvivalInv => WorkerSurvives
  BY DEF SurvivalInv, WorkerSurvives
<1>2. TypeOK /\ SurvivalInv /\ [Next]_vars => SurvivalInv'
  BY SurvivalNext
<1>3. QED
  BY <1>1, <1>2, SurvivalInit, TypeCorrect, PTL DEF Spec

-----------------------------------------------------------------------------
(***************************************************************************)
(* No wakeup is lost: output left on an open channel stays registered for  *)
(* writing, whatever application code does.                                *)
(***************************************************************************)

(* A mode is taken from a channel only when its socket is closed, when it  *)
(* was shut down in that mode, when its buffer is empty, or when it is a   *)
(* listener, which has no output.                                          *)
FlushInv ==
  /\ NoLostWakeup
  /\ \A c \in unsent : c \notin Listeners /\ sock[c] # "free"
  /\ \A t \in Threads : \A i \in 1 .. Len(closing[t]) :
       sock[closing[t][i]] = "closed"
  /\ pc \in {"onReadError", "onWriteError"} => cur \in IO /\ sock[cur] = "closed"

LEMMA FlushInit == Init => FlushInv
BY DEF Init, FlushInv, NoLostWakeup, Threads

(* Sockets that were closed stay closed, and those in use stay in use.     *)
SocksAge ==
  \A c \in IO : /\ sock[c] = "closed" => sock'[c] = "closed"
                /\ sock[c] = "open" => sock'[c] # "free"
                /\ sock'[c] = "open" => sock[c] # "closed"

(* The last conjuncts of FlushInv when no close() begins.                  *)
LEMMA ClosedStaysClosed ==
  ASSUME TypeOK, FlushInv, SocksAge,
         \A t \in Threads : \A i \in 1 .. Len(closing'[t]) :
           \/ i <= Len(closing[t]) /\ closing'[t][i] = closing[t][i]
           \/ closing'[t][i] \in IO /\ sock'[closing'[t][i]] = "closed"
  PROVE  \A t \in Threads : \A i \in 1 .. Len(closing'[t]) :
           sock'[closing'[t][i]] = "closed"
<1> SUFFICES ASSUME NEW t \in Threads, NEW i \in 1 .. Len(closing'[t]),
                    i <= Len(closing[t]), closing'[t][i] = closing[t][i]
             PROVE  sock'[closing'[t][i]] = "closed"
  OBVIOUS
<1>1. closing[t] \in Seq(IO) /\ i \in 1 .. Len(closing[t])
  BY LenProperties DEF TypeOK
<1>2. closing[t][i] \in IO
  BY <1>1, ElementOfSeq
<1>3. QED
  BY <1>1, <1>2 DEF FlushInv, SocksAge

(* A close() that begins closes the socket it puts on the stack.           *)
LEMMA BeginCloseFlush ==
  ASSUME TypeOK, FlushInv, NEW t \in Threads, NEW d \in IO, BeginClose(t, d)
  PROVE  /\ SocksAge
         /\ sock'[d] = "closed"
         /\ \A c \in IO : c # d => sock'[c] = sock[c]
         /\ \A s \in Threads : \A i \in 1 .. Len(closing'[s]) :
              sock'[closing'[s][i]] = "closed"
<1>1. SocksAge /\ sock'[d] = "closed" /\ \A c \in IO : c # d => sock'[c] = sock[c]
  BY DEF BeginClose, SocksAge, TypeOK
<1>2. ASSUME NEW s \in Threads, NEW i \in 1 .. Len(closing'[s])
      PROVE  \/ i <= Len(closing[s]) /\ closing'[s][i] = closing[s][i]
             \/ closing'[s][i] = d
  <2>1. closing'[s] = IF s = t THEN Append(closing[s], d) ELSE closing[s]
    BY DEF BeginClose, TypeOK
  <2>2. closing[s] \in Seq(IO)
    BY DEF TypeOK
  <2>3. QED
    BY <2>1, <2>2
<1>3. QED
  BY <1>1, <1>2, ClosedStaysClosed

LEMMA FlushCall ==
  ASSUME TypeOK, FlushInv, NEW t \in Threads, Call(t)
  PROVE  FlushInv'
<1> USE DEF worker, net
<1>1. ASSUME NEW d \in IO, Open(t, d) PROVE FlushInv'
  <2>1. SocksAge /\ d \notin unsent
    BY <1>1 DEF Open, SocksAge, TypeOK, FlushInv
  <2>2. \A c \in unsent : channels'[c] = channels[c] /\ sock'[c] = sock[c]
    BY <1>1, <2>1 DEF Open, AddChannel, TypeOK
  <2>3. \A s \in Threads : \A i \in 1 .. Len(closing'[s]) :
          sock'[closing'[s][i]] = "closed"
    BY <1>1, <2>1, ClosedStaysClosed, LenProperties DEF Open, TypeOK
  <2>4. QED
    BY <1>1, <2>1, <2>2, <2>3 DEF Open, FlushInv, NoLostWakeup, SocksAge
<1>2. ASSUME NEW d \in IO, Send(t, d) PROVE FlushInv'
  <2>1. "w" \in channels'[d] /\ \A c \in unsent : channels[c] \subseteq channels'[c]
    BY <1>2 DEF Send, AddChannel, TypeOK
  <2>2. sock[d] # "free"
    BY <1>2 DEF Send, Usable
  <2>3. QED
    BY <1>2, <2>1, <2>2 DEF Send, FlushInv, NoLostWakeup
<1>3. ASSUME NEW d \in IO, Shutdown(t, d) PROVE FlushInv'
  <2>1. PICK how : /\ channels' = RemoveChannel(channels, d, how)
                   /\ shut' = [shut EXCEPT ![d] = @ \cup how]
    BY <1>3 DEF Shutdown
  <2>2. \A c \in IO : "w" \in channels[c] /\ "w" \notin channels'[c]
                        => "w" \in shut'[c]
    BY <2>1 DEF RemoveChannel, TypeOK
  <2>3. \A c \in IO : shut[c] \subseteq shut'[c]
    BY <2>1 DEF TypeOK
  <2>4. QED
    BY <1>3, <2>2, <2>3 DEF Shutdown, FlushInv, NoLostWakeup, TypeOK
<1>4. ASSUME NEW d \in IO, Close(t, d) PROVE FlushInv'
  <2>1. BeginClose(t, d)
    BY <1>4 DEF Close
  <2>2. QED
    BY <1>4, <2>1, BeginCloseFlush
    DEF Close, FlushInv, NoLostWakeup, SocksAge, TypeOK
<1>5. ASSUME EndClose(t) PROVE FlushInv'
  <2>1. closing[t] # <<>> /\ closing[t] \in Seq(IO)
    BY <1>5 DEF EndClose, TypeOK
  <2>2. Len(closing[t]) \in 1 .. Len(closing[t])
    BY <2>1, EmptySeq, LenProperties
  <2>3. sock[Innermost(t)] = "closed"
    BY <2>2 DEF FlushInv, Innermost
  <2>4. \A c \in unsent : sock[c] = "open" => channels'[c] = channels[c]
    BY <1>5, <2>3 DEF EndClose, RemoveChannel, TypeOK
  <2>5. SocksAge
    BY <1>5 DEF EndClose, SocksAge
  <2>6. closing' = [closing EXCEPT ![t] = SubSeq(@, 1, Len(@) - 1)]
    BY <1>5 DEF EndClose
  <2>7. ASSUME NEW s \in Threads, NEW i \in 1 .. Len(closing'[s])
        PROVE  i <= Len(closing[s]) /\ closing'[s][i] = closing[s][i]
    <3>1. CASE s = t
      BY <2>1, <2>2, <2>6, <3>1 DEF TypeOK
    <3>2. CASE s # t
      BY <2>6, <3>2, LenProperties DEF TypeOK
    <3>3. QED
      BY <3>1, <3>2
  <2>8. QED
    BY <1>5, <2>4, <2>5, <2>7, ClosedStaysClosed DEF EndClose, FlushInv, NoLostWakeup
<1>6. QED
  BY <1>1, <1>2, <1>3, <1>4, <1>5 DEF Call

LEMMA FlushDie == ASSUME TypeOK, FlushInv, Die PROVE FlushInv'
<1>1. closing' = [closing EXCEPT !["worker"] = <<>>]
  BY DEF Die
<1>2. \A t \in Threads : closing'[t] = closing[t] \/ closing'[t] = <<>>
  BY <1>1 DEF TypeOK, Threads
<1>3. \A t \in Threads : \A i \in 1 .. Len(closing'[t]) :
        sock'[closing'[t][i]] = "closed"
  BY <1>2 DEF Die, net, FlushInv
<1>4. QED
  BY <1>3 DEF Die, net, FlushInv, NoLostWakeup

(* The read loop: it closes on an error, and gives up only listeners       *)
(* without closing them.                                                   *)
LEMMA FlushRead ==
  ASSUME TypeOK, FlushInv, NEW c \in IO, OnReadEvent(c)
  PROVE  FlushInv'
<1> USE DEF worker, net
<1>1. CASE ReadGone(c)
  BY <1>1, FlushDie DEF ReadGone
<1>2. CASE ReadData(c) \/ ReadAgain(c)
  BY <1>2 DEF ReadData, ReadAgain, Dispatch, FlushInv, NoLostWakeup
<1>3. CASE ReadError(c)
  <2>1. BeginClose("worker", c)
    BY <1>3 DEF ReadError
  <2>2. QED
    BY <1>3, <2>1, BeginCloseFlush
    DEF ReadError, Dispatch, FlushInv, NoLostWakeup, SocksAge, TypeOK, Threads
<1>4. CASE Accept(c)
  <2>1. PICK d \in IO : /\ sock[d] = "free"
                        /\ sock' = [sock EXCEPT ![d] = "open"]
                        /\ channels' = AddChannel(channels, d, {"r"})
    BY <1>4 DEF Accept
  <2>2. SocksAge /\ d \notin unsent
    BY <2>1 DEF SocksAge, TypeOK, FlushInv
  <2>3. \A e \in unsent : channels'[e] = channels[e] /\ sock'[e] = sock[e]
    BY <2>1, <2>2 DEF AddChannel, TypeOK
  <2>4. \A s \in Threads : \A i \in 1 .. Len(closing'[s]) :
          sock'[closing'[s][i]] = "closed"
    BY <1>4, <2>2, ClosedStaysClosed, LenProperties DEF Accept, TypeOK
  <2>5. QED
    BY <1>4, <2>3, <2>4 DEF Accept, Dispatch, FlushInv, NoLostWakeup
<1>5. CASE AcceptError(c)
  <2>1. \A e \in unsent : channels'[e] = channels[e]
    BY <1>5 DEF AcceptError, RemoveChannel, FlushInv, TypeOK
  <2>2. QED
    BY <1>5, <2>1 DEF AcceptError, Dispatch, FlushInv, NoLostWakeup
<1>6. QED
  BY <1>1, <1>2, <1>3, <1>4, <1>5 DEF OnReadEvent

LEMMA FlushWrite ==
  ASSUME TypeOK, FlushInv, NEW c \in IO, OnWriteEvent(c)
  PROVE  FlushInv'
<1> USE DEF worker, net
<1>1. CASE WriteGone(c) \/ WriteData(c) \/ WriteAgain(c)
  BY <1>1
  DEF WriteGone, WriteData, WriteAgain, DispatchWrite, FlushInv, NoLostWakeup
<1>2. CASE WriteError(c)
  <2>1. BeginClose("worker", c)
    BY <1>2 DEF WriteError
  <2>2. QED
    BY <1>2, <2>1, BeginCloseFlush
    DEF WriteError, DispatchWrite, FlushInv, NoLostWakeup, SocksAge, TypeOK, Threads
<1>3. QED
  BY <1>1, <1>2 DEF OnWriteEvent

(* DONE is returned only for an empty buffer, ERROR only after close().    *)
LEMMA FlushReturn == ASSUME TypeOK, FlushInv, Return PROVE FlushInv'
<1> USE DEF worker, net
<1>1. CASE OnReadAgain \/ ReturnContinue
  BY <1>1 DEF OnReadAgain, ReturnContinue, FlushInv, NoLostWakeup
<1>2. CASE ReturnError
  <2>1. \A c \in unsent : sock[c] = "open" => channels'[c] = channels[c]
    BY <1>2 DEF ReturnError, RemoveChannel, FlushInv, TypeOK
  <2>2. QED
    BY <1>2, <2>1 DEF ReturnError, FlushInv, NoLostWakeup
<1>3. CASE ReturnWritten
  <2>1. \A c \in unsent : channels'[c] = channels[c]
    BY <1>3 DEF ReturnWritten, RemoveChannel, TypeOK
  <2>2. QED
    BY <1>3, <2>1 DEF ReturnWritten, FlushInv, NoLostWakeup
<1>4. QED
  BY <1>1, <1>2, <1>3 DEF Return

LEMMA FlushNext == ASSUME TypeOK, FlushInv, [Next]_vars PROVE FlushInv'
<1> USE DEF worker, net
<1>1. ASSUME NEW c \in IO, Arrive(c) PROVE FlushInv'
  BY <1>1 DEF Arrive, FlushInv, NoLostWakeup
<1>2. CASE Resume \/ ResumeNested \/ SelectReady \/ SelectError
             \/ ReadsDone \/ Yield
  BY <1>2 DEF Resume, ResumeNested, SelectReady, SelectError, ReadsDone, Yield,
              FlushInv, NoLostWakeup
<1>3. CASE ResumeDead \/ UNCHANGED vars
  BY <1>3 DEF ResumeDead, vars, FlushInv, NoLostWakeup
<1>4. CASE Raise
  BY <1>4, FlushDie DEF Raise
<1>5. QED
  BY <1>1, <1>2, <1>3, <1>4, FlushCall, FlushRead, FlushWrite, FlushReturn
  DEF Next, Handle

(* Output left in the buffer of an open channel that was not shut down for *)
(* writing is registered for writing, in every state of every execution:   *)
(* callbacks may send, close, shut down, raise and resume as they like.    *)
THEOREM WakeupsAreKept == Spec => []NoLostWakeup
<1>1. TypeOK /\ FlushInv /\ [Next]_vars => FlushInv'
  BY FlushNext
<1>2. FlushInv => NoLostWakeup
  BY DEF FlushInv
<1>3. QED
  BY <1>1, <1>2, FlushInit, TypeCorrect, PTL DEF Spec

-----------------------------------------------------------------------------
(***************************************************************************)
(* What the event loop guarantees about closing channels: a closed channel *)
(* leaves the table, is closed once and gets no new event afterwards.      *)
(***************************************************************************)

(* The coroutine is inside a close() only while it is inside a handler, so *)
(* no close() is cut short by the error of the read loop.                  *)
RemovalInv ==
  /\ ClosedIsRemoved
  /\ closing["worker"] # <<>> => InHandler
  /\ co # "running" => closing["worker"] = <<>>

LEMMA RemovalInit == Init => RemovalInv
BY DEF Init, RemovalInv, ClosedIsRemoved, Threads

InClose(c) == \E t \in Threads : \E i \in 1 .. Len(closing[t]) : closing[t][i] = c

(* A step that closes nothing and registers only sockets that are not      *)
(* closed keeps closed channels out of the table.                          *)
LEMMA RemovalKept ==
  ASSUME TypeOK, ClosedIsRemoved,
         \A c \in IO : sock'[c] = "closed" =>
            /\ sock[c] = "closed"
            /\ channels'[c] \subseteq channels[c]
            /\ channels'[c] # {} /\ InClose(c) => InClose(c)'
  PROVE  ClosedIsRemoved'
BY DEF ClosedIsRemoved, InClose, Registered

LEMMA BeginCloseRemoval ==
  ASSUME TypeOK, ClosedIsRemoved, NEW t \in Threads, NEW d \in IO,
         BeginClose(t, d), channels' = channels
  PROVE  ClosedIsRemoved'
<1>1. closing' = [closing EXCEPT ![t] = Append(@, d)]
  BY DEF BeginClose
<1>2. closing'[t] = Append(closing[t], d) /\ closing[t] \in Seq(IO)
  BY <1>1 DEF TypeOK
<1>3. /\ Len(closing'[t]) \in 1 .. Len(closing'[t])
      /\ closing'[t][Len(closing'[t])] = d
  BY <1>2, AppendProperties
<1>4. \A c \in IO : InClose(c) => InClose(c)'
  <2> SUFFICES ASSUME NEW s \in Threads, NEW i \in 1 .. Len(closing[s])
               PROVE  /\ i \in 1 .. Len(closing'[s])
                      /\ closing'[s][i] = closing[s][i]
    BY DEF InClose
  <2>1. CASE s = t
    BY <1>2, <2>1, AppendProperties
  <2>2. CASE s # t
    BY <1>1, <2>2 DEF TypeOK
  <2>3. QED
    BY <2>1, <2>2
<1>5. \A c \in IO : c # d => sock'[c] = sock[c]
  BY DEF BeginClose, TypeOK
<1>6. InClose(d)'
  BY <1>3 DEF InClose
<1>7. QED
  BY <1>4, <1>5, <1>6 DEF ClosedIsRemoved, InClose, Registered

LEMMA RemovalCall ==
  ASSUME TypeOK, RemovalInv, "late" \notin Habits, NEW t \in Threads, Call(t)
  PROVE  RemovalInv'
<1> USE DEF worker, net
<1>1. ASSUME NEW d \in IO, Open(t, d) PROVE RemovalInv'
  <2>1. ClosedIsRemoved'
    BY <1>1, RemovalKept DEF Open, AddChannel, RemovalInv, InClose, TypeOK
  <2>2. QED
    BY <1>1, <2>1 DEF Open, RemovalInv, InHandler
<1>2. ASSUME NEW d \in IO, Send(t, d) PROVE RemovalInv'
  <2>1. ClosedIsRemoved'
    BY <1>2, RemovalKept DEF Send, Usable, AddChannel, RemovalInv, InClose, TypeOK
  <2>2. QED
    BY <1>2, <2>1 DEF Send, RemovalInv, InHandler
<1>3. ASSUME NEW d \in IO, Shutdown(t, d) PROVE RemovalInv'
  <2>1. PICK how : channels' = RemoveChannel(channels, d, how)
    BY <1>3 DEF Shutdown
  <2>2. ClosedIsRemoved'
    BY <1>3, <2>1, RemovalKept DEF Shutdown, RemoveChannel, RemovalInv, InClose, TypeOK
  <2>3. QED
    BY <1>3, <2>2 DEF Shutdown, RemovalInv, InHandler
<1>4. ASSUME NEW d \in IO, Close(t, d) PROVE RemovalInv'
  <2>1. BeginClose(t, d) /\ channels' = channels
    BY <1>4 DEF Close
  <2>2. ClosedIsRemoved'
    BY <2>1, BeginCloseRemoval DEF RemovalInv
  <2>3. closing'["worker"] # <<>> => InHandler /\ co = "running"
    <3>1. CASE t = "worker"
      BY <1>4, <3>1 DEF Close, MayCall, InCallback, InHandler, RemovalInv
    <3>2. CASE t = "main"
      BY <2>1, <3>2 DEF BeginClose, RemovalInv, TypeOK, Threads
    <3>3. QED
      BY <3>1, <3>2 DEF Threads
  <2>4. QED
    BY <1>4, <2>2, <2>3 DEF Close, RemovalInv, InHandler
<1>5. ASSUME EndClose(t) PROVE RemovalInv'
  <2>1. closing[t] # <<>> /\ closing[t] \in Seq(IO)
    BY <1>5 DEF EndClose, TypeOK
  <2>2. closing' = [closing EXCEPT ![t] = SubSeq(@, 1, Len(@) - 1)]
    BY <1>5 DEF EndClose
  <2>3. \A c \in IO : c # Innermost(t) /\ InClose(c) => InClose(c)'
    <3> SUFFICES ASSUME NEW s \in Threads, NEW i \in 1 .. Len(closing[s]),
                        closing[s][i] # Innermost(t)
                 PROVE  /\ i \in 1 .. Len(closing'[s])
                        /\ closing'[s][i] = closing[s][i]
      BY DEF InClose
    <3>1. CASE s = t
      BY <2>1, <2>2, <3>1, EmptySeq, LenProperties DEF TypeOK, Innermost
    <3>2. CASE s # t
      BY <2>2, <3>2 DEF TypeOK
    <3>3. QED
      BY <3>1, <3>2
  <2>4. channels' = [channels EXCEPT ![Innermost(t)] = @ \ Modes]
    BY <1>5 DEF EndClose, RemoveChannel
  <2>5. \A c \in IO : /\ c = Innermost(t) => channels'[c] = {}
                      /\ channels'[c] \subseteq channels[c]
    BY <2>4 DEF TypeOK
  <2>6. ClosedIsRemoved'
    BY <1>5, <2>3, <2>5, RemovalKept DEF EndClose, RemovalInv
  <2>7. closing'["worker"] # <<>> => closing["worker"] # <<>>
    BY <2>2 DEF TypeOK, Threads
  <2>8. QED
    BY <1>5, <2>6, <2>7 DEF EndClose, RemovalInv, InHandler
<1>6. QED
  BY <1>1, <1>2, <1>3, <1>4, <1>5 DEF Call

LEMMA RemovalDie ==
  ASSUME TypeOK, RemovalInv, closing["worker"] = <<>>, Die
  PROVE  RemovalInv'
<1>1. closing' = closing
  BY DEF Die, TypeOK, Threads
<1>2. QED
  BY <1>1 DEF Die, net, RemovalInv, ClosedIsRemoved, Registered

LEMMA RemovalRead ==
  ASSUME TypeOK, RemovalInv, NEW c \in IO, OnReadEvent(c)
  PROVE  RemovalInv'
<1> USE DEF worker, net
<1>1. CASE ReadGone(c)
  BY <1>1, RemovalDie DEF ReadGone, RemovalInv, InHandler
<1>2. CASE ReadData(c) \/ ReadAgain(c)
  BY <1>2 DEF ReadData, ReadAgain, Dispatch, RemovalInv, InHandler,
              ClosedIsRemoved, Registered
<1>3. CASE ReadError(c)
  <2>1. BeginClose("worker", c) /\ channels' = channels
    BY <1>3 DEF ReadError
  <2>2. ClosedIsRemoved'
    BY <2>1, BeginCloseRemoval DEF RemovalInv, Threads
  <2>3. QED
    BY <1>3, <2>2 DEF ReadError, Dispatch, RemovalInv, InHandler
<1>4. CASE Accept(c)
  <2>1. PICK d \in IO : /\ sock' = [sock EXCEPT ![d] = "open"]
                        /\ channels' = AddChannel(channels, d, {"r"})
    BY <1>4 DEF Accept
  <2>2. closing' = closing
    BY <1>4 DEF Accept
  <2>3. ClosedIsRemoved'
    BY <2>1, <2>2, RemovalKept DEF AddChannel, RemovalInv, InClose, TypeOK
  <2>4. QED
    BY <1>4, <2>3 DEF Accept, Dispatch, RemovalInv, InHandler
<1>5. CASE AcceptError(c)
  <2>1. ClosedIsRemoved'
    BY <1>5, RemovalKept
    DEF AcceptError, RemoveChannel, RemovalInv, InClose, TypeOK
  <2>2. QED
    BY <1>5, <2>1 DEF AcceptError, Dispatch, RemovalInv, InHandler
<1>6. QED
  BY <1>1, <1>2, <1>3, <1>4, <1>5 DEF OnReadEvent

LEMMA RemovalWrite ==
  ASSUME TypeOK, RemovalInv, NEW c \in IO, OnWriteEvent(c)
  PROVE  RemovalInv'
<1> USE DEF worker, net
<1>1. CASE WriteGone(c) \/ WriteData(c) \/ WriteAgain(c)
  BY <1>1 DEF WriteGone, WriteData, WriteAgain, DispatchWrite, RemovalInv,
              InHandler, ClosedIsRemoved, Registered
<1>2. CASE WriteError(c)
  <2>1. BeginClose("worker", c) /\ channels' = channels
    BY <1>2 DEF WriteError
  <2>2. ClosedIsRemoved'
    BY <2>1, BeginCloseRemoval DEF RemovalInv, Threads
  <2>3. QED
    BY <1>2, <2>2 DEF WriteError, DispatchWrite, RemovalInv, InHandler
<1>3. QED
  BY <1>1, <1>2 DEF OnWriteEvent

LEMMA RemovalReturn == ASSUME TypeOK, RemovalInv, Return PROVE RemovalInv'
<1> USE DEF worker, net
<1>1. \A c \in IO : channels'[c] \subseteq channels[c]
  BY DEF Return, OnReadAgain, ReturnContinue, ReturnError, ReturnWritten, RemoveChannel, TypeOK
<1>2. sock' = sock /\ closing' = closing /\ closing["worker"] = <<>>
  BY DEF Return, OnReadAgain, ReturnContinue, ReturnError, ReturnWritten
<1>3. ClosedIsRemoved'
  BY <1>1, <1>2, RemovalKept DEF RemovalInv, InClose
<1>4. QED
  BY <1>2, <1>3 DEF RemovalInv

LEMMA RemovalNext ==
  ASSUME TypeOK, RemovalInv, "late" \notin Habits, "raise" \notin Habits,
         [Next]_vars
  PROVE  RemovalInv'
<1> USE DEF worker, net
<1>1. ASSUME NEW c \in IO, Arrive(c) PROVE RemovalInv'
  BY <1>1 DEF Arrive, RemovalInv, InHandler, ClosedIsRemoved, Registered
<1>2. CASE Resume \/ ResumeNested \/ SelectReady \/ SelectError
             \/ ReadsDone \/ Yield
  BY <1>2 DEF Resume, ResumeNested, SelectReady, SelectError, ReadsDone, Yield,
              RemovalInv, InHandler, ClosedIsRemoved, Registered
<1>3. CASE ResumeDead \/ UNCHANGED vars
  BY <1>3 DEF ResumeDead, vars, RemovalInv, InHandler, ClosedIsRemoved, Registered
<1>4. CASE Raise
  BY <1>4 DEF Raise
<1>5. QED
  BY <1>1, <1>2, <1>3, <1>4, RemovalCall, RemovalRead, RemovalWrite, RemovalReturn
  DEF Next, Handle

LEMMA RemovalAlways ==
  ASSUME "late" \notin Habits, "raise" \notin Habits
  PROVE  Spec => []RemovalInv
<1>1. TypeOK /\ RemovalInv /\ [Next]_vars => RemovalInv'
  BY RemovalNext
<1>2. QED
  BY <1>1, RemovalInit, TypeCorrect, PTL DEF Spec

(* A closed channel is out of the table as soon as its close() returns,    *)
(* for every pattern of nested closes and resumes, when the application    *)
(* leaves closed channels alone and its callbacks do not raise.            *)
THEOREM ClosedChannelsLeave ==
  ASSUME "late" \notin Habits, "raise" \notin Habits
  PROVE  Spec => []ClosedIsRemoved
<1>1. RemovalInv => ClosedIsRemoved
  BY DEF RemovalInv
<1>2. QED
  BY <1>1, RemovalAlways, PTL

-----------------------------------------------------------------------------
(* When a handler is dispatched no close() is in progress, so a registered *)
(* channel is one that was never closed.                                   *)
OnceInv ==
  /\ OnCloseOnce
  /\ \A c \in IO : notified[c] > 0 => sock[c] = "closed"
  /\ co = "running" => closing["main"] = <<>>

LEMMA OnceInit == Init => OnceInv
BY DEF Init, OnceInv, OnCloseOnce

LEMMA DispatchedNeverClosed ==
  ASSUME TypeOK, RemovalInv, OnceInv, NEW c \in IO, Registered(c),
         co = "running", pc \in {"read", "write"}
  PROVE  sock[c] # "closed" /\ notified[c] = 0
<1>1. \A t \in Threads : closing[t] = <<>>
  BY DEF OnceInv, RemovalInv, InHandler, Threads
<1>2. \A t \in Threads : 1 .. Len(closing[t]) = {}
  BY <1>1
<1>3. sock[c] # "closed"
  BY <1>2 DEF RemovalInv, ClosedIsRemoved
<1>4. QED
  BY <1>3 DEF OnceInv, TypeOK

LEMMA BeginCloseOnce ==
  ASSUME TypeOK, OnceInv, NEW t \in Threads, NEW d \in IO, BeginClose(t, d),
         notified[d] = 0
  PROVE  /\ OnCloseOnce'
         /\ \A c \in IO : notified'[c] > 0 => sock'[c] = "closed"
BY DEF BeginClose, OnceInv, OnCloseOnce, TypeOK

LEMMA OnceNext ==
  ASSUME TypeOK, RemovalInv, OnceInv, "late" \notin Habits,
         "reenter" \notin Habits, [Next]_vars
  PROVE  OnceInv'
<1> USE DEF worker, net
<1>1. ASSUME NEW c \in IO, Arrive(c) PROVE OnceInv'
  BY <1>1 DEF Arrive, OnceInv, OnCloseOnce
<1>2. ASSUME NEW t \in Threads, Call(t) PROVE OnceInv'
  <2>1. ASSUME NEW d \in IO, Open(t, d) PROVE OnceInv'
    BY <2>1 DEF Open, OnceInv, OnCloseOnce, TypeOK
  <2>2. ASSUME NEW d \in IO, Send(t, d) \/ Shutdown(t, d) PROVE OnceInv'
    BY <2>2 DEF Send, Shutdown, OnceInv, OnCloseOnce
  <2>3. ASSUME NEW d \in IO, Close(t, d) PROVE OnceInv'
    <3>1. notified[d] = 0
      BY <2>3, SMTT(30) DEF Close, Usable, OnceInv, TypeOK
    <3>2. co = "running" => closing'["main"] = closing["main"]
      BY <2>3 DEF Close, BeginClose, MayCall, TypeOK, Threads
    <3>3. QED
      BY <2>3, <3>1, <3>2, BeginCloseOnce DEF Close, OnceInv
  <2>4. CASE EndClose(t)
    <3>1. co = "running" => closing'["main"] = closing["main"]
      BY <2>4 DEF EndClose, TypeOK, Threads
    <3>2. QED
      BY <2>4, <3>1 DEF EndClose, OnceInv, OnCloseOnce
  <2>5. QED
    BY <1>2, <2>1, <2>2, <2>3, <2>4 DEF Call
<1>3. CASE Resume \/ ResumeNested \/ SelectReady \/ SelectError
             \/ ReadsDone \/ Yield
  BY <1>3 DEF Resume, ResumeNested, SelectReady, SelectError, ReadsDone, Yield,
              OnceInv, OnCloseOnce
<1>4. CASE ResumeDead \/ UNCHANGED vars
  BY <1>4 DEF ResumeDead, vars, OnceInv, OnCloseOnce
<1>5. CASE Die
  BY <1>5 DEF Die, OnceInv, OnCloseOnce
<1>6. ASSUME NEW c \in IO, ReadError(c) \/ WriteError(c) PROVE OnceInv'
  <2>1. notified[c] = 0 /\ BeginClose("worker", c) /\ co' = co
    BY <1>6, DispatchedNeverClosed
    DEF ReadError, WriteError, Dispatch, DispatchWrite
  <2>2. closing'["main"] = closing["main"]
    BY <2>1 DEF BeginClose, TypeOK, Threads
  <2>3. QED
    BY <2>1, <2>2, BeginCloseOnce DEF OnceInv, Threads
<1>7. ASSUME NEW c \in IO, OnReadEvent(c) PROVE OnceInv'
  <2>1. CASE ReadData(c) \/ ReadAgain(c) \/ AcceptError(c)
    BY <2>1 DEF ReadData, ReadAgain, AcceptError, Dispatch, OnceInv, OnCloseOnce
  <2>2. CASE Accept(c)
    <3>1. PICK d \in IO : /\ sock[d] = "free"
                          /\ sock' = [sock EXCEPT ![d] = "open"]
      BY <2>2 DEF Accept
    <3>2. QED
      BY <2>2, <3>1 DEF Accept, Dispatch, OnceInv, OnCloseOnce, TypeOK
  <2>3. QED
    BY <1>5, <1>6, <1>7, <2>1, <2>2 DEF OnReadEvent, ReadGone
<1>8. ASSUME NEW c \in IO, OnWriteEvent(c) PROVE OnceInv'
  <2>1. CASE WriteGone(c) \/ WriteData(c) \/ WriteAgain(c)
    BY <2>1 DEF WriteGone, WriteData, WriteAgain, DispatchWrite, OnceInv, OnCloseOnce
  <2>2. QED
    BY <1>6, <1>8, <2>1 DEF OnWriteEvent
<1>9. CASE Return
  BY <1>9 DEF Return, OnReadAgain, ReturnContinue, ReturnError, ReturnWritten, OnceInv, OnCloseOnce
<1>10. QED
  BY <1>1, <1>2, <1>3, <1>4, <1>5, <1>7, <1>8, <1>9 DEF Next, Handle, Raise

LEMMA OnceAlways ==
  ASSUME "late" \notin Habits, "raise" \notin Habits, "reenter" \notin Habits
  PROVE  Spec => []OnceInv
<1>1. TypeOK /\ RemovalInv /\ OnceInv /\ [Next]_vars => OnceInv'
  BY OnceNext
<1>2. QED
  BY <1>1, OnceInit, RemovalAlways, TypeCorrect, PTL DEF Spec

(* onClose is called at most once per channel, however the closes by peer, *)
(* callbacks and main program interleave, when resume() is not called from *)
(* the onClose of a close by the main program.                             *)
THEOREM ClosedOnce ==
  ASSUME "late" \notin Habits, "raise" \notin Habits, "reenter" \notin Habits
  PROVE  Spec => []OnCloseOnce
<1>1. OnceInv => OnCloseOnce
  BY DEF OnceInv
<1>2. QED
  BY <1>1, OnceAlways, PTL

LEMMA NoEventStep ==
  ASSUME TypeOK, RemovalInv, OnceInv, [Next]_vars,
         NEW c \in IO, notified[c] > 0, cur' = c
  PROVE  cur = c /\ left' <= left
<1> USE DEF worker, net
<1>1. NoIO # c
  BY IOAssumption
<1>2. CASE cur' = cur /\ left' = left
  BY <1>2 DEF TypeOK
<1>3. ASSUME NEW d \in IO, OnReadEvent(d) PROVE cur' # c
  <2>1. CASE ReadGone(d)
    BY <1>1, <2>1 DEF ReadGone, Die
  <2>2. ASSUME NEW where, Dispatch(d, where) PROVE cur' # c
    <3>1. notified[d] = 0
      BY <2>2, DispatchedNeverClosed DEF Dispatch
    <3>2. QED
      BY <1>1, <2>2, <3>1 DEF Dispatch
  <2>3. QED
    BY <1>3, <2>1, <2>2
    DEF OnReadEvent, ReadData, ReadAgain, ReadError, Accept, AcceptError
<1>4. ASSUME NEW d \in IO, OnWriteEvent(d)
      PROVE  cur' # c \/ (cur' = cur /\ left' = left)
  <2>1. CASE WriteGone(d)
    BY <2>1 DEF WriteGone
  <2>2. ASSUME NEW where, DispatchWrite(d, where) PROVE cur' # c
    <3>1. notified[d] = 0
      BY <2>2, DispatchedNeverClosed DEF DispatchWrite
    <3>2. QED
      BY <1>1, <2>2, <3>1 DEF DispatchWrite
  <2>3. QED
    BY <1>4, <2>1, <2>2 DEF OnWriteEvent, WriteData, WriteAgain, WriteError
<1>5. CASE Raise
  BY <1>1, <1>5 DEF Raise, Die
<1>6. CASE OnReadAgain
  <2>1. PICK len \in 1 .. left - 1 : left' = left - len
    BY <1>6 DEF OnReadAgain
  <2>2. left \in Nat /\ len \in Nat
    BY IOAssumption DEF TypeOK
  <2>3. left' <= left
    BY <2>1, <2>2
  <2>4. QED
    BY <1>6, <2>3 DEF OnReadAgain
<1>7. CASE Return
  <2>1. CASE ReturnContinue \/ ReturnError \/ ReturnWritten
    BY <1>1, <2>1 DEF ReturnContinue, ReturnError, ReturnWritten
  <2>2. QED
    BY <1>6, <1>7, <2>1 DEF Return
<1>8. ASSUME NEW t \in Threads, Call(t) PROVE cur' = cur /\ left' = left
  BY <1>8 DEF Call, Open, Send, Shutdown, Close, EndClose, BeginClose
<1>9. QED
  BY <1>2, <1>3, <1>4, <1>5, <1>7, <1>8
  DEF Next, Handle, Arrive, Resume, ResumeNested, ResumeDead, SelectReady,
      SelectError, ReadsDone, Yield, vars

(* After its onClose a channel gets nothing but the rest of the input it   *)
(* had read before, from the loop of a handler that was already running:   *)
(* no handler of it is dispatched and nothing more is read from it.        *)
THEOREM NothingAfterClose ==
  ASSUME "late" \notin Habits, "raise" \notin Habits, "reenter" \notin Habits
  PROVE  Spec => NothingNewAfterClose
<1>1. TypeOK /\ RemovalInv /\ OnceInv /\ [Next]_vars =>
        [\A c \in IO : notified[c] > 0 /\ cur' = c => cur = c /\ left' <= left]_vars
  BY NoEventStep
<1>2. QED
  BY <1>1, OnceAlways, RemovalAlways, TypeCorrect, PTL DEF Spec, NothingNewAfterClose
=============================================================================

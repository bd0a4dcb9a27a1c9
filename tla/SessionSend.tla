----------------------------- MODULE SessionSend -----------------------------
(***************************************************************************)
(* The sending side of one session: Session.enqueue, dequeue and           *)
(* completion (light/network/Session.lua, HttpSession.completion), over    *)
(* TCPChannel.writeAsync and onWriteEvent.                                 *)
(*                                                                         *)
(* channel.buffer.o is abstracted to its length `out', as messages are to  *)
(* theirs.                                                                 *)
(***************************************************************************)
EXTENDS SessionQueue, FiniteSets

CONSTANTS
  Sizes,      \* the lengths of the messages an application sends
  Window,     \* how many unfinished messages it lets a session have
  MayFinish,  \* may a request ask for "connection: close"?
  MaxBytes    \* bound on the bytes sent in a behaviour

ASSUME SendAssumption ==
  /\ Sizes \subseteq Nat
  /\ Window \in Nat \ {0}
  /\ MayFinish \in BOOLEAN
  /\ MaxBytes \in Nat

VARIABLES
  queue,       \* Session.queue
  out,         \* #channel.buffer.o
  writing,     \* is the channel registered with EventWorker for writing?
  isFinished,  \* Session.isFinished
  sock,        \* "open", or why it was closed: "closed" by the application,
               \*   "failed" on an error, "finished" by HttpSession.completion
  pc,          \* "idle", "completion" and its "callback" onSendCompletion;
               \*   "dead" after an error in dequeue(), "hung" in an endless
               \*   loop of it, "raised" after one in completion()
  count,       \* completions that remain to be reported
  \* history of the stream, as in SendStream
  total, wire, ends, completed

local   == <<queue, out, writing, isFinished, sock, pc, count>>
history == <<total, wire, ends, completed>>
vars    == <<local, history>>

-----------------------------------------------------------------------------
Init ==
  /\ queue = <<>>
  /\ out = 0
  /\ writing = FALSE
  /\ isFinished = FALSE
  /\ sock = "open"
  /\ pc = "idle"
  /\ count = 0
  /\ total = 0 /\ wire = 0 /\ ends = {} /\ completed = 0

(* TCPSession:send: enqueue(), then writeAsync() appends to the buffer and *)
(* registers for writing.                                                  *)
Transmit(n) ==
  /\ sock = "open"
  /\ Cardinality(ends) < Window
  /\ total + n <= MaxBytes
  /\ queue' = Append(queue, n)
  /\ out' = out + n
  /\ writing' = TRUE
  /\ total' = total + n
  /\ ends' = ends \cup {total + n}
  /\ UNCHANGED <<wire, completed>>

(* The application sends, from the main program, from onRead or from       *)
(* onSendCompletion.                                                       *)
Send(n) ==
  /\ pc \in {"idle", "callback"}
  /\ Transmit(n)
  /\ UNCHANGED <<isFinished, sock, pc, count>>

(* HttpSession:onReadHttp of a request that wants the connection closed:   *)
(* the session is finished, and the response, if the delegate gave one, is *)
(* sent.                                                                   *)
Respond(n) ==
  /\ pc = "idle" /\ sock = "open"
  /\ MayFinish
  /\ isFinished' = TRUE
  /\ \/ Transmit(n)
     \/ UNCHANGED <<queue, out, writing, history>>
  /\ UNCHANGED <<sock, pc, count>>

(* Session:close by the application.                                       *)
Close ==
  /\ pc \in {"idle", "callback"}
  /\ sock = "open"
  /\ sock' = "closed"
  /\ writing' = FALSE
  /\ UNCHANGED <<queue, out, isFinished, pc, count, history>>

(* TCPChannel:onWriteEvent: the kernel takes k bytes of buffer.o, which is *)
(* none only if there are none, and onWrite calls dequeue().               *)
WriteEvent(k) ==
  /\ pc = "idle" /\ sock = "open" /\ writing
  /\ k <= out /\ (k = 0 => out = 0)
  /\ out' = out - k
  /\ wire' = wire + k
  /\ ends' = {e \in ends : e > wire'}
  /\ IF DequeueRaises(queue, k) \/ DequeueHangs(queue, k)
     THEN /\ pc' = IF queue = <<>> THEN "dead" ELSE "hung"
          /\ UNCHANGED <<queue, count>>
     ELSE /\ pc' = "completion"
          /\ queue' = QueueAfter(queue, k)
          /\ count' = CountAfter(queue, k)
  /\ UNCHANGED <<writing, isFinished, sock, total, completed>>

(* writeNow() fails: TCPChannel:close().                                   *)
WriteError ==
  /\ pc = "idle" /\ sock = "open" /\ writing
  /\ sock' = "failed"
  /\ writing' = FALSE
  /\ UNCHANGED <<queue, out, isFinished, pc, count, history>>

(* Mutant: the loop of completion() runs once more than it should.         *)
BugComplete ==
  /\ pc = "completion"
  /\ count' = count - 1
  /\ completed' = completed + 1
  /\ pc' = "callback"
  /\ UNCHANGED <<queue, out, writing, isFinished, sock, total, wire, ends>>

(* HttpSession:completion calls the delegate once per message.             *)
Complete ==
  /\ pc = "completion" /\ count > 0
  /\ count' = count - 1
  /\ completed' = completed + 1
  /\ pc' = "callback"
  /\ UNCHANGED <<queue, out, writing, isFinished, sock, total, wire, ends>>

CallbackReturns ==
  /\ pc = "callback"
  /\ pc' = "completion"
  /\ UNCHANGED <<queue, out, writing, isFinished, sock, count, history>>

(* A finished session closes its channel, also one that a callback has     *)
(* closed already.  Who then hears of the close twice is the session       *)
(* itself, which does nothing, or the TCPServerSession that accepted it,   *)
(* which has forgotten the channel and raises.                             *)
FinishedClose ==
  \/ /\ ~isFinished
     /\ pc' = "idle"
     /\ UNCHANGED sock
  \/ /\ isFinished /\ sock = "open"
     /\ pc' = "idle"
     /\ sock' = "finished"
  \/ /\ isFinished /\ sock # "open"
     /\ pc' \in {"idle", "raised"}
     /\ UNCHANGED sock

(* Mutant: onWriteEvent returns DONE after every write.                    *)
BugCompletionEnd ==
  /\ pc = "completion" /\ count = 0
  /\ FinishedClose
  /\ writing' = FALSE
  /\ UNCHANGED <<queue, out, isFinished, count, history>>

(* After the last callback onWriteEvent returns DONE, which ends the wait  *)
(* for writing, when buffer.o is empty and CONTINUE when it is not.        *)
CompletionEnd ==
  /\ pc = "completion" /\ count = 0
  /\ FinishedClose
  /\ writing' = (sock' = "open" /\ out > 0)
  /\ UNCHANGED <<queue, out, isFinished, count, history>>

Next ==
  \/ \E n \in Sizes : Send(n) \/ Respond(n)
  \/ Close
  \/ \E k \in 0 .. MaxBytes : WriteEvent(k)
  \/ WriteError
  \/ Complete \/ CallbackReturns \/ CompletionEnd

Spec == Init /\ [][Next]_vars

(* The event loop runs and the peer reads: a registered socket is written  *)
(* to again, and callbacks return.                                         *)
Progress ==
  /\ WF_vars(\E k \in 0 .. MaxBytes : WriteEvent(k))
  /\ WF_vars(Complete) /\ WF_vars(CallbackReturns) /\ WF_vars(CompletionEnd)

FairSpec == Spec /\ Progress

-----------------------------------------------------------------------------
(* The values the variables range over.                                    *)
TypeOK ==
  /\ queue \in Seq(Nat)
  /\ out \in Nat
  /\ writing \in BOOLEAN
  /\ isFinished \in BOOLEAN
  /\ sock \in {"open", "closed", "failed", "finished"}
  /\ pc \in {"idle", "completion", "callback", "dead", "hung", "raised"}
  /\ count \in Nat
  /\ total \in Nat /\ wire \in Nat /\ completed \in Nat
  /\ ends \in SUBSET Nat

(* Session.dequeue neither raises, which would end the event worker's      *)
(* coroutine for every session, nor loops for ever.  With one message at a *)
(* time and none empty this holds; ss_pipelined is the run that shows how  *)
(* a second message breaks it.                                             *)
DequeueReturns == pc \notin {"dead", "hung"}

(* Between handlers Session.queue and buffer.o tell the same story: they   *)
(* are filled together and drained separately, one by what dequeue is told *)
(* was written and one by what was.                                        *)
QueueMatchesBuffer ==
  pc = "idle" =>
    /\ queue = <<>> <=> out = 0
    /\ Len(queue) = 1 => queue[1] = out

(* A session that closes its channel because the last request asked for it *)
(* has handed all of its output to the kernel.                             *)
FinishedIsFlushed == sock = "finished" => out = 0

(* The session keeps the promise of SendStream: onSendCompletion is called *)
(* once for each message wholly written, and for no other.  A completion   *)
(* that dequeue has counted and the loop of completion() has not yet       *)
(* reported counts as reported.                                            *)
Stream == INSTANCE SendStream
  WITH completed <- completed + count, isOpen <- sock = "open"

StreamSpec == Stream!Spec

(* Every message is reported or the connection goes: a close answers for   *)
(* what it cuts off, be it the application's or HttpSession.completion's.  *)
EventuallyCompleted ==
  \A e \in 1 .. MaxBytes :
    (e \in ends) ~> (sock # "open" \/ (e \notin ends /\ count = 0))
=============================================================================

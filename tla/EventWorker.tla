----------------------------- MODULE EventWorker -----------------------------
(***************************************************************************)
(* The event loop of Light.lua: light/Worker.lua and                       *)
(* light/worker/EventWorker.lua, with the handlers it dispatches to        *)
(* (TCPChannel, UDPChannel, TCPServerChannel) and the calls that an        *)
(* application makes on a channel, from its main program or from a         *)
(* callback.                                                               *)
(*                                                                         *)
(* There are two threads of control and one processor.  The main program   *)
(* runs until it calls resume(); the coroutine then runs one handle() and  *)
(* yields back.  While it runs, the application's code runs only inside    *)
(* the callbacks onRead, onAccept, onWrite and onClose.                    *)
(*                                                                         *)
(* A channel is identified by its io: EventWorker.channels is keyed by it. *)
(* The bytes of a message are abstracted away: what is kept of             *)
(* channel.buffer.o is whether it is empty, of buffer.i its size.          *)
(*                                                                         *)
(* This is the POSIX build.  In socket_mswin.cpp shutdown() also closes    *)
(* the socket, and receiveNow() and sendNow() block where those of         *)
(* socket_posix.cpp return EAGAIN.  A write to a peer that is gone is the  *)
(* error that send() returns; SIGPIPE, which nothing in the library        *)
(* ignores, would end the process instead.                                 *)
(***************************************************************************)
EXTENDS Sequences, Naturals, FiniteSets

CONSTANTS
  IO,           \* the sockets the program may ever open
  Listeners,    \* those of them owned by a TCPServerChannel, open initially
  Reach,        \* Reach[c]: the channels that a callback of channel c may
                \*   close or shut down
  Habits,       \* what else application code does:
                \*   "late"    sends on, shuts down or closes a closed channel
                \*   "resume"  calls resume() inside a callback of the worker
                \*   "reenter" calls resume() inside the onClose of a close()
                \*             that the main program made
                \*   "raise"   a callback raises a Lua error
  AcceptFails,  \* may acceptNow() fail with an error such as ECONNABORTED?
  MaxDepth,     \* bound on nested Channel:close() calls
  MaxInput,     \* bound on #buffer.i, the input an onRead is given
  NoIO          \* not a socket

ASSUME IOAssumption ==
  /\ IsFiniteSet(IO) /\ NoIO \notin IO
  /\ Listeners \subseteq IO
  /\ Reach \in [IO -> SUBSET IO]
  /\ AcceptFails \in BOOLEAN
  /\ MaxDepth \in Nat \ {0} /\ MaxInput \in Nat \ {0}
ASSUME HabitsAssumption == Habits \subseteq {"late", "resume", "reenter", "raise"}

Modes == {"r", "w"}          \* EventWorkerFlag.READ and WRITE; 'a' is Modes
Threads == {"main", "worker"}

VARIABLES
  channels,   \* self.channels: the modes of each registered io, {} when it
              \*   has no entry
  isRunning,  \* Worker.isRunning
  co,         \* status of the coroutine: "suspended", "running" or "dead"
  pc,         \* where the coroutine is inside handle()
  cur,        \* the channel whose handler is running, or NoIO
  readIO,     \* ready for reading and not yet dispatched in this handle()
  writeIO,    \* the same for writing
  closing,    \* per thread, the calls of Channel:close() in progress,
              \*   innermost last: each is inside the delegate's onClose
  sock,       \* "free", "open" or "closed"
  shut,       \* the directions shut down with shutdown(2)
  left,       \* while an onRead runs, the size of the buffer.i it was given,
              \*   and 0 otherwise
  unsent,     \* the channels with a non-empty buffer.o
  readable,   \* the sockets with input, a connection or an end of stream
  notified    \* history: calls of onClose per channel, counted up to two

worker == <<isRunning, co, pc, cur, readIO, writeIO>>
net    == <<sock, shut, left, unsent, readable, notified>>
vars   == <<channels, closing, worker, net>>

-----------------------------------------------------------------------------
(* The registration table.  An entry whose mode becomes 0 is deleted, so   *)
(* having no entry and having no mode are the same thing.                  *)

(* Mutants: the mode's letter is stored in the place of its flags; mode    *)
(* 'a' clears only the first flag.                                         *)
BugAddLetter(chs, c, mode) == [chs EXCEPT ![c] = @ \cup {"a"}]

BugRemoveHalf(chs, c, mode) ==
  [chs EXCEPT ![c] = @ \ IF mode = Modes THEN {"r"} ELSE mode]

AddChannel(chs, c, mode) == [chs EXCEPT ![c] = @ \cup mode]

RemoveChannel(chs, c, mode) == [chs EXCEPT ![c] = @ \ mode]

GetChannelIO(mode) == {c \in IO : mode \in channels[c]}

Registered(c) == channels[c] # {}

(* Which thread's code may run now, and in whose callback.                 *)

InCallback ==
  \/ pc \in {"onRead", "onAccept", "onWrite"}
  \/ closing["worker"] # <<>>

MayCall(t) == IF co = "running" THEN t = "worker" /\ InCallback
                                ELSE t = "main"

Innermost(t) == closing[t][Len(closing[t])]

Owner == IF closing["worker"] # <<>> THEN Innermost("worker") ELSE cur

MayTouch(t, d) == t = "worker" => d \in Reach[Owner]

Usable(d) == sock[d] = "open" \/ (sock[d] = "closed" /\ "late" \in Habits)

-----------------------------------------------------------------------------
Init ==
  /\ channels  = [c \in IO |-> IF c \in Listeners THEN {"r"} ELSE {}]
  /\ isRunning = FALSE
  /\ co = "suspended"
  /\ pc = "idle"
  /\ cur = NoIO
  /\ readIO  = {}
  /\ writeIO = {}
  /\ closing = [t \in Threads |-> <<>>]
  /\ sock = [c \in IO |-> IF c \in Listeners THEN "open" ELSE "free"]
  /\ shut = [c \in IO |-> {}]
  /\ left = 0
  /\ unsent = {}
  /\ readable = {}
  /\ notified = [c \in IO |-> 0]

-----------------------------------------------------------------------------
(* The kernel: input arrives on an open socket.                            *)
Arrive(c) ==
  /\ sock[c] = "open"
  /\ readable' = readable \cup {c}
  /\ UNCHANGED <<channels, closing, worker, sock, shut, left, unsent, notified>>

-----------------------------------------------------------------------------
(* Calls on a channel, by the main program or by a callback.               *)

(* A new TCPChannel or UDPChannel: its io registers for reading.           *)
Open(t, d) ==
  /\ MayCall(t)
  /\ sock[d] = "free"
  /\ sock' = [sock EXCEPT ![d] = "open"]
  /\ channels' = AddChannel(channels, d, {"r"})
  /\ UNCHANGED <<closing, worker, shut, left, unsent, readable, notified>>

(* Mutant: the channel is not registered for writing.                      *)
BugSend(t, d) ==
  /\ MayCall(t)
  /\ Usable(d) /\ d \notin Listeners
  /\ unsent' = unsent \cup {d}
  /\ UNCHANGED <<channels, closing, worker, sock, shut, left, readable, notified>>

(* writeAsync() appends to buffer.o and registers for writing.  Any        *)
(* callback may send on any channel: that is how a server broadcasts.      *)
Send(t, d) ==
  /\ MayCall(t)
  /\ Usable(d) /\ d \notin Listeners
  /\ unsent' = unsent \cup {d}
  /\ channels' = AddChannel(channels, d, {"w"})
  /\ UNCHANGED <<closing, worker, sock, shut, left, readable, notified>>

(* shutdown(how), how being 0, 1 or 2.                                     *)
Shutdown(t, d) ==
  /\ MayCall(t) /\ MayTouch(t, d)
  /\ Usable(d)
  /\ \E how \in {{"r"}, {"w"}, Modes} :
       /\ channels' = RemoveChannel(channels, d, how)
       /\ shut' = [shut EXCEPT ![d] = @ \cup how]
  /\ UNCHANGED <<closing, worker, sock, left, unsent, readable, notified>>

(* The first part of Channel:close(): the io is closed and the delegate's  *)
(* onClose is entered.                                                     *)
BeginClose(t, d) ==
  /\ Len(closing[t]) < MaxDepth
  /\ sock' = [sock EXCEPT ![d] = "closed"]
  /\ closing' = [closing EXCEPT ![t] = Append(@, d)]
  /\ notified' = [notified EXCEPT ![d] = IF @ = 2 THEN 2 ELSE @ + 1]

Close(t, d) ==
  /\ MayCall(t) /\ MayTouch(t, d)
  /\ Usable(d)
  /\ BeginClose(t, d)
  /\ UNCHANGED <<channels, worker, shut, left, unsent, readable>>

(* Mutant: the channel is removed for reading only.                        *)
BugEndClose(t) ==
  /\ IF co = "running" THEN t = "worker" ELSE t = "main"
  /\ closing[t] # <<>>
  /\ channels' = RemoveChannel(channels, Innermost(t), {"r"})
  /\ closing' = [closing EXCEPT ![t] = SubSeq(@, 1, Len(@) - 1)]
  /\ UNCHANGED <<worker, net>>

(* onClose returns, and the channel is removed from the event worker.      *)
EndClose(t) ==
  /\ IF co = "running" THEN t = "worker" ELSE t = "main"
  /\ closing[t] # <<>>
  /\ channels' = RemoveChannel(channels, Innermost(t), Modes)
  /\ closing' = [closing EXCEPT ![t] = SubSeq(@, 1, Len(@) - 1)]
  /\ UNCHANGED <<worker, net>>

-----------------------------------------------------------------------------
(* Worker:resume().                                                        *)

(* The main program resumes the suspended coroutine, which enters handle() *)
Resume ==
  /\ co = "suspended"
  /\ closing["main"] = <<>> \/ "reenter" \in Habits
  /\ isRunning' = TRUE
  /\ co' = "running"
  /\ pc' = "select"
  /\ UNCHANGED <<channels, closing, net, cur, readIO, writeIO>>

(* A callback calls resume(): coroutine.resume refuses the running         *)
(* coroutine and returns at once, and the flag is cleared on the way out.  *)
ResumeNested ==
  /\ co = "running" /\ InCallback
  /\ "resume" \in Habits
  /\ isRunning' = FALSE
  /\ UNCHANGED <<channels, closing, net, co, pc, cur, readIO, writeIO>>

(* A dead coroutine refuses to be resumed and nothing else happens.        *)
ResumeDead ==
  /\ co = "dead"
  /\ UNCHANGED vars

(* An error that escapes handle() ends the coroutine: the frames it had    *)
(* are gone, resume() returns false and its caller ignores that.           *)
Die ==
  /\ co' = "dead"
  /\ isRunning' = FALSE
  /\ pc' = "idle" /\ cur' = NoIO
  /\ readIO' = {} /\ writeIO' = {} /\ left' = 0
  /\ closing' = [closing EXCEPT !["worker"] = <<>>]
  /\ UNCHANGED <<channels, sock, shut, unsent, readable, notified>>

(* A callback of the worker raises.                                        *)
Raise ==
  /\ co = "running" /\ InCallback
  /\ "raise" \in Habits
  /\ Die

-----------------------------------------------------------------------------
(* EventWorker:handle(), from socket.Select to the yield of runLoop.       *)

(* Select waits at most `step' seconds: it returns with whatever is ready, *)
(* which is nothing when it timed out.                                     *)
SelectReady ==
  /\ co = "running" /\ pc = "select"
  /\ \A c \in IO : Registered(c) => sock[c] # "closed"
  /\ readIO' = GetChannelIO("r") \cap readable
  /\ writeIO' \in SUBSET GetChannelIO("w")
  /\ pc' = "read"
  /\ UNCHANGED <<channels, closing, net, isRunning, co, cur>>

(* Select fails: EBADF when a registered io is closed, or EINTR.  The sets *)
(* come back as they were given, so every registered io looks ready.       *)
SelectError ==
  /\ co = "running" /\ pc = "select"
  /\ readIO'  = GetChannelIO("r")
  /\ writeIO' = GetChannelIO("w")
  /\ pc' = "read"
  /\ UNCHANGED <<channels, closing, net, isRunning, co, cur>>

(* The read loop indexes the table without looking: an io that is no       *)
(* longer registered makes `nil.channel', which raises.                    *)
ReadGone(c) ==
  /\ co = "running" /\ pc = "read"
  /\ c \in readIO
  /\ ~Registered(c)
  /\ Die

(* Mutant: one channel is served per handle().                             *)
BugDispatch(c, where) ==
  /\ co = "running" /\ pc = "read"
  /\ c \in readIO
  /\ Registered(c)
  /\ readIO' = {}
  /\ pc' = where
  /\ cur' = IF where = "read" THEN NoIO ELSE c

Dispatch(c, where) ==
  /\ co = "running" /\ pc = "read"
  /\ c \in readIO
  /\ Registered(c)
  /\ readIO' = readIO \ {c}
  /\ pc' = where
  /\ cur' = IF where = "read" THEN NoIO ELSE c

(* TCPChannel:onReadEvent: readNow() gave data, which joins what buffer.i  *)
(* held, and the delegate's onRead is called.  There may be more to read.  *)
ReadData(c) ==
  /\ c \notin Listeners
  /\ sock[c] = "open" /\ c \in readable
  /\ Dispatch(c, "onRead")
  /\ readable' \in {readable, readable \ {c}}
  /\ left' \in 1 .. MaxInput
  /\ UNCHANGED <<channels, closing, sock, shut, unsent, notified,
                 isRunning, co, writeIO>>

(* readNow() or acceptNow() had nothing: EAGAIN, the handler continues.    *)
ReadAgain(c) ==
  /\ sock[c] = "open" /\ "r" \notin shut[c]
  /\ Dispatch(c, "read")
  /\ readable' = readable \ {c}
  /\ UNCHANGED <<channels, closing, sock, shut, left, unsent, notified,
                 isRunning, co, writeIO>>

(* readNow() failed, or returned the end of the stream: close().           *)
ReadError(c) ==
  /\ c \notin Listeners
  /\ sock[c] = "closed" \/ "r" \in shut[c] \/ c \in readable
  /\ Dispatch(c, "onReadError")
  /\ BeginClose("worker", c)
  /\ UNCHANGED <<channels, shut, left, unsent, readable, isRunning, co, writeIO>>

(* TCPServerChannel:onReadEvent: a TCPChannel is made for the accepted     *)
(* socket and registers for reading, then onAccept is called.              *)
Accept(c) ==
  /\ c \in Listeners
  /\ sock[c] = "open" /\ c \in readable /\ "r" \notin shut[c]
  /\ \E d \in IO :
       /\ sock[d] = "free"
       /\ sock' = [sock EXCEPT ![d] = "open"]
       /\ channels' = AddChannel(channels, d, {"r"})
  /\ Dispatch(c, "onAccept")
  /\ readable' \in {readable, readable \ {c}}
  /\ UNCHANGED <<closing, shut, left, unsent, notified, isRunning, co, writeIO>>

(* acceptNow() fails: the handler returns ERROR, which removes the         *)
(* listener from the worker and leaves its socket open.                    *)
AcceptError(c) ==
  /\ c \in Listeners
  /\ sock[c] = "closed" \/ "r" \in shut[c] \/ (AcceptFails /\ c \in readable)
  /\ Dispatch(c, "read")
  /\ channels' = RemoveChannel(channels, c, Modes)
  /\ readable' = readable \ {c}
  /\ UNCHANGED <<closing, sock, shut, left, unsent, notified, isRunning, co, writeIO>>

(* Mutant: the repeat loop reads on before it calls onRead again.         *)
BugOnReadAgain ==
  /\ co = "running" /\ pc = "onRead"
  /\ closing["worker"] = <<>>
  /\ left' \in 1 .. MaxInput
  /\ UNCHANGED <<channels, closing, sock, shut, unsent, readable, notified, worker>>

(* onRead has returned how much it consumed, and has left something: the   *)
(* repeat loop calls it again for the rest of buffer.i, without looking    *)
(* whether the channel was closed meanwhile.                               *)
OnReadAgain ==
  /\ co = "running" /\ pc = "onRead"
  /\ closing["worker"] = <<>>
  /\ \E len \in 1 .. left - 1 : left' = left - len
  /\ UNCHANGED <<channels, closing, sock, shut, unsent, readable, notified, worker>>

(* onRead has returned 0 or has consumed all, or onAccept has returned:    *)
(* the handler returns CONTINUE.                                           *)
ReturnContinue ==
  /\ co = "running" /\ pc \in {"onRead", "onAccept"}
  /\ closing["worker"] = <<>>
  /\ pc' = "read" /\ cur' = NoIO
  /\ left' = 0
  /\ UNCHANGED <<channels, closing, sock, shut, unsent, readable, notified,
                 isRunning, co, readIO, writeIO>>

(* close() has returned inside a handler: it returns ERROR.                *)
ReturnError ==
  /\ co = "running" /\ pc \in {"onReadError", "onWriteError"}
  /\ closing["worker"] = <<>>
  /\ channels' = RemoveChannel(channels, cur, Modes)
  /\ pc' = IF pc = "onReadError" THEN "read" ELSE "write"
  /\ cur' = NoIO
  /\ UNCHANGED <<closing, net, isRunning, co, readIO, writeIO>>

ReadsDone ==
  /\ co = "running" /\ pc = "read"
  /\ readIO = {}
  /\ pc' = "write"
  /\ UNCHANGED <<channels, closing, net, isRunning, co, cur, readIO, writeIO>>

(* The write loop skips an io that is no longer registered.                *)
WriteGone(c) ==
  /\ co = "running" /\ pc = "write"
  /\ c \in writeIO
  /\ ~Registered(c)
  /\ writeIO' = writeIO \ {c}
  /\ UNCHANGED <<channels, closing, net, isRunning, co, pc, cur, readIO>>

DispatchWrite(c, where) ==
  /\ co = "running" /\ pc = "write"
  /\ c \in writeIO
  /\ Registered(c)
  /\ writeIO' = writeIO \ {c}
  /\ pc' = where
  /\ cur' = IF where = "write" THEN NoIO ELSE c

(* TCPChannel:onWriteEvent: the kernel takes all of buffer.o or a part of  *)
(* it, and the delegate's onWrite is called.                               *)
WriteData(c) ==
  /\ sock[c] = "open" /\ "w" \notin shut[c]
  /\ DispatchWrite(c, "onWrite")
  /\ unsent' \in {unsent, unsent \ {c}}
  /\ UNCHANGED <<channels, closing, sock, shut, left, readable, notified,
                 isRunning, co, readIO>>

(* writeNow() gives EAGAIN: the handler continues.                         *)
WriteAgain(c) ==
  /\ sock[c] = "open" /\ "w" \notin shut[c]
  /\ DispatchWrite(c, "write")
  /\ UNCHANGED <<channels, closing, net, isRunning, co, readIO>>

(* writeNow() fails: the peer is gone, or this side was closed or shut     *)
(* down for writing: close().                                              *)
WriteError(c) ==
  /\ DispatchWrite(c, "onWriteError")
  /\ BeginClose("worker", c)
  /\ UNCHANGED <<channels, shut, left, unsent, readable, isRunning, co, readIO>>

(* Mutant: DONE whenever the kernel took something.                        *)
BugReturnWritten ==
  /\ co = "running" /\ pc = "onWrite"
  /\ closing["worker"] = <<>>
  /\ channels' = RemoveChannel(channels, cur, {"w"})
  /\ pc' = "write" /\ cur' = NoIO
  /\ UNCHANGED <<closing, net, isRunning, co, readIO, writeIO>>

(* onWrite has returned: DONE when buffer.o is empty by now, and then the  *)
(* channel no longer waits for writing; CONTINUE otherwise.                *)
ReturnWritten ==
  /\ co = "running" /\ pc = "onWrite"
  /\ closing["worker"] = <<>>
  /\ channels' = IF cur \in unsent THEN channels
                                   ELSE RemoveChannel(channels, cur, {"w"})
  /\ pc' = "write" /\ cur' = NoIO
  /\ UNCHANGED <<closing, net, isRunning, co, readIO, writeIO>>

(* Mutant: runLoop tests isRunning between handle() and the yield.         *)
BugYield ==
  /\ co = "running" /\ pc = "write"
  /\ writeIO = {}
  /\ co' = IF isRunning THEN "suspended" ELSE "dead"
  /\ isRunning' = FALSE
  /\ pc' = "idle"
  /\ UNCHANGED <<channels, closing, net, cur, readIO, writeIO>>

(* handle() returns, runLoop yields and resume() clears the flag.          *)
Yield ==
  /\ co = "running" /\ pc = "write"
  /\ writeIO = {}
  /\ co' = "suspended"
  /\ isRunning' = FALSE
  /\ pc' = "idle"
  /\ UNCHANGED <<channels, closing, net, cur, readIO, writeIO>>

-----------------------------------------------------------------------------
Call(t) ==
  \/ \E d \in IO : Open(t, d) \/ Send(t, d) \/ Shutdown(t, d) \/ Close(t, d)
  \/ EndClose(t)

OnReadEvent(c) ==
  ReadGone(c) \/ ReadData(c) \/ ReadAgain(c) \/ ReadError(c)
    \/ Accept(c) \/ AcceptError(c)

OnWriteEvent(c) ==
  WriteGone(c) \/ WriteData(c) \/ WriteAgain(c) \/ WriteError(c)

Return == OnReadAgain \/ ReturnContinue \/ ReturnError \/ ReturnWritten

Handle ==
  \/ SelectReady \/ SelectError
  \/ \E c \in IO : OnReadEvent(c) \/ OnWriteEvent(c)
  \/ Return
  \/ ReadsDone \/ Yield

Next ==
  \/ \E c \in IO : Arrive(c)
  \/ \E t \in Threads : Call(t)
  \/ Resume \/ ResumeNested \/ ResumeDead \/ Raise
  \/ Handle

Spec == Init /\ [][Next]_vars

(* The main program polls for ever, the coroutine runs on by itself, and   *)
(* callbacks return.  Nothing is assumed of the rest of the application.   *)
Polling ==
  /\ WF_vars(Resume)
  /\ WF_vars(Handle)
  /\ \A t \in Threads : WF_vars(EndClose(t))

(* The peer of an open connection reads: select() reports the socket as    *)
(* writable again and again, and then the kernel at times takes all of     *)
(* what is left.                                                           *)
PeerReads(c) ==
  /\ SF_vars(SelectReady /\ c \in writeIO')
  /\ SF_vars(WriteData(c) /\ c \notin unsent')

FairSpec == Spec /\ Polling /\ \A c \in IO : PeerReads(c)

-----------------------------------------------------------------------------
(* An application whose callbacks close and shut down only their own       *)
(* channel, as those of HttpSession and TCPServerSession do.               *)
KeepsToItself == \A c \in IO : Reach[c] \subseteq {c}

(* The values the variables range over.                                    *)
TypeOK ==
  /\ channels \in [IO -> SUBSET Modes]
  /\ isRunning \in BOOLEAN
  /\ co \in {"suspended", "running", "dead"}
  /\ pc \in {"idle", "select", "read", "write", "onRead", "onAccept",
             "onReadError", "onWrite", "onWriteError"}
  /\ cur \in IO \cup {NoIO}
  /\ readIO \in SUBSET IO /\ writeIO \in SUBSET IO
  /\ closing \in [Threads -> Seq(IO)]
  /\ sock \in [IO -> {"free", "open", "closed"}]
  /\ shut \in [IO -> SUBSET Modes]
  /\ left \in 0 .. MaxInput
  /\ unsent \in SUBSET IO /\ readable \in SUBSET IO
  /\ notified \in [IO -> 0 .. 2]

(* Whatever the application sends and resumes, and whatever the callbacks  *)
(* close and shut down within their Reach, the coroutine is never ended by *)
(* an error in handle() or by the loop of Worker.runLoop seeing isRunning  *)
(* cleared by a nested resume().  A callback that removes another ready    *)
(* channel is beyond a Reach of the own channel only.                      *)
WorkerSurvives == co # "dead"

(* Output left in buffer.o of an open channel that was not shut down for   *)
(* writing is always registered for writing, in every state: also between  *)
(* a callback's send and the DONE or CONTINUE of the handler around it.    *)
NoLostWakeup ==
  \A c \in unsent :
    sock[c] = "open" /\ "w" \notin shut[c] => "w" \in channels[c]

(* A closed channel stays in EventWorker.channels at most while its own    *)
(* close() is in progress: select() is never given its io afterwards.      *)
(* (With "late" among the Habits, a send on a closed channel registers it  *)
(* again.)                                                                 *)
ClosedIsRemoved ==
  \A c \in IO :
    sock[c] = "closed" /\ Registered(c) =>
      \E t \in Threads : \E i \in 1 .. Len(closing[t]) : closing[t][i] = c

(* The delegate is told of the end of a channel at most once, whether the  *)
(* peer, a callback or the main program closed it, as long as closed       *)
(* channels are left alone ("late") and the main program does not resume   *)
(* the worker inside its own close() ("reenter").                          *)
OnCloseOnce == \A c \in IO : notified[c] <= 1

(* Once the onClose of a channel was called no handler of it is dispatched *)
(* any more, although the ready lists of the handle() in progress may      *)
(* still name it, and nothing more is read from it.  The one event that    *)
(* still reaches its delegate is the onRead that the repeat loop of a      *)
(* handler already running calls again, for the rest of what had been read *)
(* before.                                                                 *)
NothingNewAfterClose ==
  [][\A c \in IO : notified[c] > 0 /\ cur' = c => cur = c /\ left' <= left]_vars

(* A listener that the application neither closed nor shut down goes on    *)
(* accepting: it stays registered for reading.                             *)
ListenerStays ==
  \A c \in Listeners : sock[c] = "open" /\ "r" \notin shut[c] => "r" \in channels[c]

(* Input on a channel that waits for it is dispatched, however busy the    *)
(* other channels are.                                                     *)
EventuallyServed ==
  \A c \in IO :
    (c \in readable /\ "r" \in channels[c])
      ~> (cur = c \/ c \notin readable \/ "r" \notin channels[c])

(* What was sent on an open channel leaves its buffer.                     *)
EventuallyFlushed ==
  \A c \in IO :
    (c \in unsent)
      ~> (c \notin unsent \/ sock[c] = "closed" \/ "w" \in shut[c])
=============================================================================

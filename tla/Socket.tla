------------------------------- MODULE Socket -------------------------------
(***************************************************************************)
(* light.socket: the userdata of Lua (struct Socket), the functions of     *)
(* socket.cpp on it, and the two implementations it is linked with,        *)
(* socket_posix.cpp and socket_mswin.cpp, over the descriptor table of the *)
(* process.  Lua is single threaded, so a call is one step.  Addresses and *)
(* bytes are left out: what matters is which descriptor a call acts on,    *)
(* in which mode the descriptor is, and how much of the receive buffer is  *)
(* touched.  A failed call that changes nothing is a stuttering step.      *)
(***************************************************************************)
EXTENDS Integers, FiniteSets

CONSTANTS
  Objects,        \* userdata the Lua program can create
  Other,          \* the rest of the process, which owns descriptors too
  Nobody,         \* the owner of a free descriptor
  Builds,         \* which implementations to consider
  MaxFd,          \* bound: the descriptors are 0 .. MaxFd
  Sizes,          \* sizes passed to receive and receiveFrom
  Hows,           \* arguments of shutdown
  Inherits        \* the builds for which accept() hands the listener's mode down

ASSUME OwnersAssumption == Other \notin Objects /\ Nobody \notin Objects /\ Other # Nobody
ASSUME BuildsAssumption == Builds \subseteq {"posix", "mswin"}
ASSUME MaxFdAssumption == MaxFd \in Nat
ASSUME SizesAssumption == Sizes \subseteq Nat
ASSUME HowsAssumption == \A how \in Hows : how \in Int /\ how >= -128
ASSUME InheritsAssumption == Inherits \subseteq Builds

VARIABLES
  build,   \* the implementation that is linked in
  alive,   \* the objects that exist
  sock,    \* struct Socket of each object
  kernel,  \* the descriptor table
  overrun  \* what went past a receive buffer (a history variable)

vars == <<build, alive, sock, kernel, overrun>>

Fds == 0 .. MaxFd
INVALID_SOCKET == -1

(* A descriptor: who obtained it, what it is, its O_NONBLOCK flag, whether *)
(* it was shut down, and whether a call made for another object reached it *)
(* (a history variable).                                                   *)
Descriptor ==
  [owner : Objects \cup {Other, Nobody},
   kind : {"free", "file", "new", "connected", "accepted", "listening", "datagram"},
   nonblock : BOOLEAN, down : BOOLEAN, mixed : BOOLEAN]

Opened(o, kind, nonblock) ==
  [owner |-> o, kind |-> kind, nonblock |-> nonblock, down |-> FALSE, mixed |-> FALSE]

Free == Opened(Nobody, "free", FALSE)

(* struct Socket: buffer is the number of bytes allocated, and isShutdown  *)
(* is an Int8.                                                             *)
SocketRecord ==
  [fd : Fds \cup {INVALID_SOCKET}, isNonblock : BOOLEAN, isShutdown : -128 .. 2,
   buffer : Nat, bufferSize : Nat]

Zeroed(fd, how) ==
  [fd |-> fd, isNonblock |-> FALSE, isShutdown |-> how, buffer |-> 0, bufferSize |-> 0]

(* The memory of an object after Socket::Init. *)
Blank == Zeroed(INVALID_SOCKET, 0)

Init ==
  /\ build \in Builds
  /\ alive = {}
  /\ sock = [s \in Objects |-> Blank]
  /\ kernel = [n \in Fds |-> Free]
  /\ overrun = {}

------------------------------------------------------------------------------
(* The kernel. *)

(* POSIX gives the least free number, Windows any free one. *)
Offered ==
  {n \in Fds : /\ kernel[n].owner = Nobody
               /\ build = "posix" => \A k \in 0 .. n - 1 : kernel[k].owner # Nobody}

HasFd(s) == sock[s].fd # INVALID_SOCKET

(* A call with the number of s does not fail with EBADF. *)
Reaches(s) == HasFd(s) /\ kernel[sock[s].fd].owner # Nobody

(* The descriptor s obtained is still open, and s knows its number. *)
Open(s) == s \in alive /\ HasFd(s) /\ kernel[sock[s].fd].owner = s

Kind(s) == IF Reaches(s) THEN kernel[sock[s].fd].kind ELSE "free"

(* The descriptor with the number of s after a call made for s. *)
Used(s) == [kernel[sock[s].fd] EXCEPT !.mixed = @ \/ kernel[sock[s].fd].owner # s]

(* The mark of s, and the flag of the descriptor its number names. *)
Mode(s) == [mark |-> sock[s].isNonblock, flag |-> kernel[sock[s].fd].nonblock]

SetNonBlock(mode) == [mode EXCEPT !.mark = TRUE, !.flag = TRUE]

(* Mutant: the flag is not cleared. *)
LeftNonblocking(mode) == [mode EXCEPT !.mark = FALSE]

SetBlock(mode) == [mode EXCEPT !.mark = FALSE, !.flag = FALSE]

(* The mode while acceptNow and connectNow make their call, and the one    *)
(* they leave; both are skipped when s is marked already.                  *)
During(s) == IF sock[s].isNonblock THEN Mode(s) ELSE SetNonBlock(Mode(s))

After(s) == IF sock[s].isNonblock THEN Mode(s) ELSE SetBlock(During(s))

Marked(s) == [sock EXCEPT ![s].isNonblock = After(s).mark]

UsedNow(s) == [Used(s) EXCEPT !.nonblock = After(s).flag]

Released(s) == IF HasFd(s) THEN [kernel EXCEPT ![sock[s].fd] = Free] ELSE kernel

------------------------------------------------------------------------------
(* Creating an object: SocketNew, then the number it is given. *)

SocketNew(s, record, others) ==
  /\ s \notin alive
  /\ alive' = alive \cup {s}
  /\ sock' = [others EXCEPT ![s] = record]

Fresh(fd) == Zeroed(fd, -1)

(* Lua gets the object and, when socket() fails, the error beside it. *)
Create(s, kind) ==
  \/ \E n \in Offered : /\ SocketNew(s, Fresh(n), sock)
                        /\ kernel' = [kernel EXCEPT ![n] = Opened(s, kind, FALSE)]
  \/ SocketNew(s, Fresh(INVALID_SOCKET), sock) /\ UNCHANGED kernel

SocketTCP(s) == Create(s, "new") /\ UNCHANGED <<build, overrun>>

SocketUDP(s) == Create(s, "datagram") /\ UNCHANGED <<build, overrun>>

(* Mutant: the object is filled before accept() has stored its result. *)
AcceptedEarly(fd) == Blank

(* The accepted socket is copied over the whole object: isShutdown is 0. *)
Accepted(fd) == Zeroed(fd, 0)

(* accept() fails on a listener that was shut down. *)
Listening(s) == s \in alive /\ Kind(s) = "listening" /\ ~kernel[sock[s].fd].down

SocketAccept(s, client) ==
  /\ Listening(s)
  /\ \E n \in Offered :
       /\ SocketNew(client, Accepted(n), sock)
       /\ kernel' = [kernel EXCEPT ![sock[s].fd] = Used(s),
                                   ![n] = Opened(client, "accepted", build \in Inherits /\ Mode(s).flag)]
  /\ UNCHANGED <<build, overrun>>

(* accept() runs while the listener is in nonblocking mode. *)
SocketAcceptNow(s, client) ==
  /\ Listening(s)
  /\ \E n \in Offered :
       /\ SocketNew(client, Accepted(n), Marked(s))
       /\ kernel' = [kernel EXCEPT ![sock[s].fd] = UsedNow(s),
                                   ![n] = Opened(client, "accepted", build \in Inherits /\ During(s).flag)]
  /\ UNCHANGED <<build, overrun>>

------------------------------------------------------------------------------
(* Calls on an object. *)

Call(s) == s \in alive /\ Reaches(s) /\ UNCHANGED <<build, alive, overrun>>

SocketConnect(s) ==
  /\ Call(s)
  /\ Kind(s) = "new"
  /\ kernel' = [kernel EXCEPT ![sock[s].fd] = [Used(s) EXCEPT !.kind = "connected"]]
  /\ UNCHANGED sock

(* The connection is established while the call reports EINPROGRESS. *)
SocketConnectNow(s) ==
  /\ Call(s)
  /\ Kind(s) = "new"
  /\ kernel' = [kernel EXCEPT ![sock[s].fd] = [UsedNow(s) EXCEPT !.kind = "connected"]]
  /\ sock' = Marked(s)

(* acceptNow or connectNow fails, as when nobody waits to be accepted: the *)
(* mode is set and restored, whatever the number names by now.             *)
SocketNowFails(s) ==
  /\ Call(s)
  /\ kernel' = [kernel EXCEPT ![sock[s].fd] = UsedNow(s)]
  /\ sock' = Marked(s)

SocketListen(s) ==
  /\ Call(s)
  /\ Kind(s) = "new"
  /\ kernel' = [kernel EXCEPT ![sock[s].fd] = [Used(s) EXCEPT !.kind = "listening"]]
  /\ UNCHANGED sock

SocketSend(s) ==
  /\ Call(s)
  /\ Kind(s) \in {"connected", "accepted", "datagram"}
  /\ kernel' = [kernel EXCEPT ![sock[s].fd] = Used(s)]
  /\ UNCHANGED sock

(* Mutant: a buffer that exists is used again, whatever its size. *)
ResizedOnce(s, size) == IF sock[s].buffer = 0 THEN size + 1 ELSE sock[s].buffer

(* The buffer is replaced when size exceeds bufferSize, which no function  *)
(* ever sets; new Byte[size + 1] leaves its bytes uninitialised.           *)
Resized(s, size) == IF size > sock[s].bufferSize THEN size + 1 ELSE sock[s].buffer

(* Bytes were written though there is no buffer, bytes were written past   *)
(* the end of one, or bytes were read past the end.                        *)
Causes == {"null", "write", "read"}

Overrun(buffer, written, scanned) ==
  {cause \in Causes :
     \/ cause = "null" /\ written > 0 /\ buffer = 0
     \/ cause = "write" /\ written > buffer /\ buffer > 0
     \/ cause = "read" /\ scanned > buffer}

(* The call writes, and then reads, so many bytes of the buffer. *)
Receiving(s, size, written, scanned) ==
  /\ s \in alive
  /\ sock' = [sock EXCEPT ![s].buffer = Resized(s, size)]
  /\ overrun' = overrun \cup Overrun(Resized(s, size), written, scanned)
  /\ kernel' = IF Reaches(s) THEN [kernel EXCEPT ![sock[s].fd] = Used(s)] ELSE kernel
  /\ UNCHANGED <<build, alive>>

(* memset clears size + 1 bytes, whatever recv() then does; what is pushed *)
(* has the length recv() reported.                                         *)
SocketReceive(s, size) == Receiving(s, size, size + 1, size)

(* memset clears size bytes only, and the data is pushed as a C string: if *)
(* it fills the buffer without a zero byte, the string is read on into the *)
(* uninitialised last byte and, when that is not zero, past the end.  The  *)
(* Windows build receives nothing.                                         *)
Scanned(s, size) ==
  {size} \cup IF build = "posix" /\ size > 0 /\ Kind(s) \in {"connected", "accepted", "datagram"}
              THEN {size + 1, size + 2} ELSE {}

SocketReceiveFrom(s, size) == \E scanned \in Scanned(s, size) : Receiving(s, size, size, scanned)

(* Mutant: the Windows shutdown closes the descriptor but keeps its number. *)
ShutdownKeepsNumber(s, how) ==
  /\ build = "mswin"
  /\ sock' = [sock EXCEPT ![s].isShutdown = how]
  /\ kernel' = Released(s)

(* POSIX shuts a connected socket down and, on some systems, a listening   *)
(* one; a negative argument is refused.                                    *)
Shuts(s, how) ==
  IF how < 0 THEN {FALSE}
  ELSE CASE Kind(s) \in {"connected", "accepted"} -> {TRUE}
         [] Kind(s) = "listening" -> BOOLEAN
         [] OTHER -> {FALSE}

ShutdownPosix(s, how) ==
  /\ build = "posix"
  /\ sock' = [sock EXCEPT ![s].isShutdown = how]
  /\ \E shut \in Shuts(s, how) :
       kernel' = IF shut THEN [kernel EXCEPT ![sock[s].fd] = [Used(s) EXCEPT !.down = TRUE]] ELSE kernel

(* The Windows build closes the descriptor first and shuts down nothing. *)
ShutdownMswin(s, how) ==
  /\ build = "mswin"
  /\ sock' = [sock EXCEPT ![s].isShutdown = how, ![s].fd = INVALID_SOCKET]
  /\ kernel' = Released(s)

(* Mutant: how is not limited to 2. *)
ShutdownUnlimited(s, how) ==
  /\ s \in alive
  /\ ShutdownPosix(s, how) \/ ShutdownMswin(s, how)
  /\ UNCHANGED <<build, alive, overrun>>

(* isShutdown is set whether or not the call succeeds. *)
SocketShutdown(s, how) ==
  /\ s \in alive
  /\ LET h == IF how > 2 THEN 2 ELSE how IN ShutdownPosix(s, h) \/ ShutdownMswin(s, h)
  /\ UNCHANGED <<build, alive, overrun>>

ClosePosix(s) == build = "posix" /\ UNCHANGED sock

(* Mutant: the Windows build keeps the number, as the POSIX one does. *)
CloseKeepsNumber(s) == build = "mswin" /\ UNCHANGED sock

CloseMswin(s) == build = "mswin" /\ sock' = [sock EXCEPT ![s].fd = INVALID_SOCKET]

SocketClose(s) ==
  /\ s \in alive
  /\ kernel' = Released(s)
  /\ ClosePosix(s) \/ CloseMswin(s)
  /\ UNCHANGED <<build, alive, overrun>>

(* Mutant: the finaliser frees the buffer only. *)
CollectKeepsDescriptor(s) ==
  /\ s \in alive
  /\ alive' = alive \ {s}
  /\ sock' = [sock EXCEPT ![s] = Blank]
  /\ UNCHANGED <<build, kernel, overrun>>

(* The collector finalises an object the program has no reference to. *)
SocketGC(s) ==
  /\ s \in alive
  /\ alive' = alive \ {s}
  /\ sock' = [sock EXCEPT ![s] = Blank]
  /\ kernel' = Released(s)
  /\ UNCHANGED <<build, overrun>>

------------------------------------------------------------------------------
(* The rest of the process opens and closes descriptors of its own. *)

OtherOpen ==
  /\ \E n \in Offered : kernel' = [kernel EXCEPT ![n] = Opened(Other, "file", FALSE)]
  /\ UNCHANGED <<build, alive, sock, overrun>>

OtherClose ==
  /\ \E n \in Fds : kernel[n].owner = Other /\ kernel' = [kernel EXCEPT ![n] = Free]
  /\ UNCHANGED <<build, alive, sock, overrun>>

Next ==
  \/ \E s \in Objects :
       \/ SocketTCP(s)
       \/ SocketUDP(s)
       \/ \E client \in Objects : SocketAccept(s, client) \/ SocketAcceptNow(s, client)
       \/ SocketConnect(s)
       \/ SocketConnectNow(s)
       \/ SocketNowFails(s)
       \/ SocketListen(s)
       \/ SocketSend(s)
       \/ \E size \in Sizes : SocketReceive(s, size) \/ SocketReceiveFrom(s, size)
       \/ \E how \in Hows : SocketShutdown(s, how)
       \/ SocketClose(s)
       \/ SocketGC(s)
  \/ OtherOpen
  \/ OtherClose

Spec == Init /\ [][Next]_vars

------------------------------------------------------------------------------
(* Calls that only read. *)

(* Mutant: the Windows build answers as the POSIX one does. *)
IsClosedInverted(s) == HasFd(s)

(* Socket::IsClosed answers 0 for a valid number on POSIX and for an       *)
(* invalid one on Windows; Lua gets true for 0.                            *)
SocketIsClosed(s) == IF build = "posix" THEN HasFd(s) ELSE ~HasFd(s)

(* TableToFDSet: the numbers of a table of objects, and the highest one.   *)
TableToFDSet(table) == {sock[table[i]].fd : i \in DOMAIN table} \ {INVALID_SOCKET}

MaxOf(numbers) == CHOOSE m \in numbers : \A n \in numbers : n <= m

(* PushSocketForFD: the first object of the table with that number. *)
PushSocketForFD(table, n) ==
  LET found == {i \in DOMAIN table : sock[table[i]].fd = n}
  IN  table[CHOOSE i \in found : \A j \in found : i <= j]

(* Mutant: the highest number is left out. *)
FDSetToTableShort(table, set, maxfd) == {PushSocketForFD(table, n) : n \in set \cap 0 .. maxfd - 1}

FDSetToTable(table, set, maxfd) == {PushSocketForFD(table, n) : n \in set \cap 0 .. maxfd}

(* select() keeps the ready ones of the numbers it is given.  When it      *)
(* fails, on a number that is not open, it leaves both sets as they were,  *)
(* and they are turned into tables all the same.                           *)
SelectFails(r, w) == \E n \in TableToFDSet(r) \cup TableToFDSet(w) : kernel[n].owner = Nobody

SocketSelect(r, w, ready) ==
  LET maxfd == MaxOf(TableToFDSet(r) \cup TableToFDSet(w) \cup {-1})
      left(table) == IF SelectFails(r, w) THEN TableToFDSet(table) ELSE TableToFDSet(table) \cap ready
  IN  [r |-> FDSetToTable(r, left(r), maxfd), w |-> FDSetToTable(w, left(w), maxfd)]

------------------------------------------------------------------------------
(* Properties. *)

(* Every variable has its type. *)
TypeOK ==
  /\ build \in Builds
  /\ alive \subseteq Objects
  /\ sock \in [Objects -> SocketRecord]
  /\ kernel \in [Fds -> Descriptor]
  /\ overrun \subseteq Causes

(* No call loses a descriptor: whatever is open for an object is closed at *)
(* the latest when the object is collected, because the object exists and  *)
(* still has its number (SocketGC, socket.cpp:492, relies on it).  That    *)
(* accept() returns a descriptor before its object exists is not in the    *)
(* model, where both are one step.                                         *)
NoLeak ==
  \A n \in Fds, s \in Objects : kernel[n].owner = s => s \in alive /\ sock[s].fd = n

(* On Windows a number held by an object is that of a descriptor the       *)
(* object obtained itself, so that no call, and neither close() nor the    *)
(* finaliser, reaches the connection of another object (mswin:182-204).    *)
HoldsOwn ==
  build = "mswin" => \A s \in alive : HasFd(s) => kernel[sock[s].fd].owner = s

(* The consequence: on Windows no call made for one object has ever        *)
(* reached the descriptor of another.                                      *)
StreamsUnmixed == build = "mswin" => \A n \in Fds : ~kernel[n].mixed

(* Between calls no object is marked nonblocking and its descriptor waits: *)
(* acceptNow and connectNow restore the mode on every path, also through a *)
(* stale number.  The exception is a socket that accept() itself handed    *)
(* the mode of the listener down to, where the system does so: it does not *)
(* wait although it is not marked (posix:64-118, :208-224, mswin:90-145).  *)
ModeKept ==
  \A s \in Objects :
    /\ ~sock[s].isNonblock
    /\ Open(s) /\ kernel[sock[s].fd].nonblock => build \in Inherits /\ kernel[sock[s].fd].kind = "accepted"

(* Whatever sizes, 0 among them, receive() and receiveFrom() are given in  *)
(* whatever order, they never write past the end of a buffer that exists,  *)
(* and only the POSIX build reads past it, where receiveFrom() pushes a    *)
(* full buffer as a C string.  What receive(0) writes while no buffer      *)
(* exists yet is not claimed (socket.cpp:167-289).                         *)
BufferHolds ==
  /\ "write" \notin overrun
  /\ "read" \in overrun => build = "posix"

(* On Windows isClosed() tells whether the object has an open descriptor   *)
(* (socket.cpp:465, mswin:238).                                            *)
IsClosedTells == build = "mswin" => \A s \in alive : SocketIsClosed(s) <=> ~Open(s)

(* Select() given open sockets returns exactly those that are ready, in    *)
(* the table they were given in (socket.cpp:417, posix:235-292).           *)
Tables == UNION {{t \in [1 .. k -> {s \in alive : Open(s)}] : \A i, j \in 1 .. k : t[i] = t[j] => i = j}
                 : k \in 0 .. Cardinality(alive)}

Ready(table, ready) == {table[i] : i \in {j \in DOMAIN table : sock[table[j]].fd \in ready}}

SelectTells ==
  \A r, w \in Tables, ready \in SUBSET Fds :
    SocketSelect(r, w, ready) = [r |-> Ready(r, ready), w |-> Ready(w, ready)]

(* Collecting an object closes no descriptor but its own: the library is   *)
(* one "cross-platform socket" for Windows, Linux and macOS (README.md).   *)
FinaliserHarmless ==
  [][\A s \in Objects, n \in Fds :
       /\ s \in alive /\ s \notin alive'
       /\ kernel[n].owner \notin {s, Nobody}
       => kernel'[n] = kernel[n]]_vars

(* An object that says it is shut down has a descriptor that is. *)
ShutdownTold ==
  \A s \in alive : Open(s) /\ sock[s].isShutdown >= 0 => kernel[sock[s].fd].down

(* Every open descriptor waits unless its object is marked nonblocking:    *)
(* false where accept() hands the mode of the listener down.               *)
WaitsAsMarked == \A s \in Objects : Open(s) => Mode(s).flag = Mode(s).mark

(* No function ever leaves the receive buffer: false for receive(0) on a   *)
(* new object, and for receiveFrom() on POSIX (socket.cpp:175, :243).      *)
StaysInside == overrun = {}

(* The library implements Descriptors (socket.cpp:9-60, :395-503): who     *)
(* owns a number, and which numbers the objects remember.  That a number   *)
(* is closed a second time on POSIX is allowed there.                      *)
D == INSTANCE Descriptors WITH
       owner <- [n \in Fds |-> kernel[n].owner],
       holds <- [s \in Objects |-> {sock[s].fd} \ {INVALID_SOCKET}],
       forgets <- build = "mswin"

DescriptorSpec == D!Spec
=============================================================================

---------------------------- MODULE SocketProofs ----------------------------
(***************************************************************************)
(* The descriptors of light.socket, for any number of objects, of          *)
(* descriptors and any sizes: types, ownership, blocking mode, the receive *)
(* buffer, and that Socket implements Descriptors.                         *)
(***************************************************************************)
EXTENDS Socket, TLAPS, WellFoundedInduction

(* What the invariants rest on and no single one of them says: no object   *)
(* is ever marked nonblocking or given a buffer size, and a descriptor is  *)
(* in nonblocking mode only where accept() handed that mode down to it.    *)
Unmarked == \A s \in Objects : ~sock[s].isNonblock /\ sock[s].bufferSize = 0

(* An object that does not exist has no number. *)
Absent == \A s \in Objects \ alive : sock[s].fd = INVALID_SOCKET

Restored == \A n \in Fds : kernel[n].nonblock => build \in Inherits /\ kernel[n].kind = "accepted"

IInv == TypeOK /\ NoLeak /\ HoldsOwn /\ StreamsUnmixed /\ Unmarked /\ Absent /\ Restored /\ BufferHolds

(* The facts about constants and record types every step uses. *)
LEMMA Basics ==
  /\ INVALID_SOCKET \notin Fds
  /\ Free \in Descriptor
  /\ \A s \in Objects, k \in {"file", "new", "connected", "accepted", "listening", "datagram"}, b \in BOOLEAN :
       Opened(s, k, b) \in Descriptor
  /\ \A b \in BOOLEAN : Opened(Other, "file", b) \in Descriptor
  /\ Blank \in SocketRecord
  /\ \A n \in Fds \cup {INVALID_SOCKET} : Fresh(n) \in SocketRecord /\ Accepted(n) \in SocketRecord
  <1>1. INVALID_SOCKET \notin Fds
    BY MaxFdAssumption DEF INVALID_SOCKET, Fds
  <1>2. Blank \in SocketRecord
    BY DEF Blank, Zeroed, SocketRecord
  <1>3. \A n \in Fds \cup {INVALID_SOCKET} : Fresh(n) \in SocketRecord /\ Accepted(n) \in SocketRecord
    BY DEF Zeroed, SocketRecord, Fresh, Accepted
  <1> QED
    BY <1>1, <1>2, <1>3 DEF Free, Opened, Descriptor

(* The initial states satisfy the invariant. *)
LEMMA InitIInv == Init => IInv
  <1> SUFFICES ASSUME Init PROVE IInv
    OBVIOUS
  <1>1. TypeOK
    BY Basics DEF Init, TypeOK
  <1>2. NoLeak
    BY OwnersAssumption DEF Init, NoLeak, Free, Opened
  <1>3. HoldsOwn /\ StreamsUnmixed /\ Unmarked /\ Absent /\ Restored /\ BufferHolds
    BY DEF Init, HoldsOwn, StreamsUnmixed, Unmarked, Absent, Restored, BufferHolds, Free, Opened, Blank, Zeroed
  <1> QED
    BY <1>1, <1>2, <1>3 DEF IInv

(* A call that changes at most the one descriptor the object's number      *)
(* names, and neither its owner nor, on its own descriptor, the history.   *)
LEMMA CallKeeps ==
  ASSUME IInv, NEW s \in alive, NEW d \in Descriptor, Reaches(s),
         d.owner = kernel[sock[s].fd].owner,
         d.mixed = (kernel[sock[s].fd].mixed \/ kernel[sock[s].fd].owner # s),
         d.nonblock => kernel[sock[s].fd].nonblock /\ d.kind = kernel[sock[s].fd].kind,
         kernel' = [kernel EXCEPT ![sock[s].fd] = d],
         alive' = alive, build' = build,
         sock' \in [Objects -> SocketRecord],
         \A t \in Objects : /\ sock'[t].fd = sock[t].fd
                            /\ sock'[t].isNonblock = sock[t].isNonblock
                            /\ sock'[t].bufferSize = sock[t].bufferSize,
         overrun' \subseteq Causes, BufferHolds'
  PROVE  IInv'
  <1> DEFINE n == sock[s].fd
  <1>1. s \in Objects /\ n \in Fds
    BY DEF IInv, TypeOK, SocketRecord, Reaches, HasFd
  <1>2. TypeOK'
    BY <1>1 DEF IInv, TypeOK
  <1>3. \A k \in Fds : kernel'[k].owner = kernel[k].owner
    BY <1>1 DEF IInv, TypeOK
  <1>4. NoLeak'
    BY <1>3 DEF IInv, NoLeak
  <1>5. HoldsOwn'
    <2> SUFFICES ASSUME build = "mswin", NEW t \in alive, sock[t].fd # INVALID_SOCKET
                 PROVE  kernel'[sock[t].fd].owner = t
      BY DEF HoldsOwn, HasFd, IInv, TypeOK
    <2>1. sock[t].fd \in Fds /\ kernel[sock[t].fd].owner = t
      BY DEF IInv, TypeOK, SocketRecord, HoldsOwn, HasFd
    <2> QED
      BY <1>3, <2>1
  <1>6. StreamsUnmixed'
    <2> SUFFICES ASSUME build = "mswin", NEW k \in Fds PROVE ~kernel'[k].mixed
      BY DEF StreamsUnmixed
    <2>1. kernel[n].owner = s /\ ~kernel[n].mixed /\ ~kernel[k].mixed
      BY <1>1 DEF IInv, HoldsOwn, StreamsUnmixed, Reaches
    <2> QED
      BY <1>1, <2>1 DEF IInv, TypeOK
  <1>7. Unmarked' /\ Absent'
    BY DEF IInv, Unmarked, Absent
  <1>8. Restored'
    BY <1>1 DEF IInv, TypeOK, Restored
  <1> QED
    BY <1>2, <1>4, <1>5, <1>6, <1>7, <1>8 DEF IInv

(* A step that creates the object s with the number of r, a descriptor     *)
(* that was free.                                                          *)
LEMMA CreateKeeps ==
  ASSUME IInv, NEW s \in Objects, s \notin alive, NEW r \in SocketRecord,
         ~r.isNonblock, r.bufferSize = 0, overrun' = overrun,
         alive' = alive \cup {s}, build' = build, sock' = [sock EXCEPT ![s] = r],
         kernel' \in [Fds -> Descriptor],
         r.fd # INVALID_SOCKET => kernel'[r.fd].owner = s,
         \A n \in Fds : kernel'[n].owner # kernel[n].owner => n = r.fd /\ kernel[n].owner = Nobody,
         StreamsUnmixed', Restored'
  PROVE  IInv'
  <1>1. TypeOK'
    BY DEF IInv, TypeOK
  <1>2. sock'[s] = r /\ \A t \in Objects \ {s} : sock'[t] = sock[t]
    BY DEF IInv, TypeOK
  <1>3. NoLeak'
    <2> SUFFICES ASSUME NEW n \in Fds, NEW t \in Objects, kernel'[n].owner = t
                 PROVE  t \in alive' /\ sock'[t].fd = n
      BY DEF NoLeak
    <2>1. CASE t = s
      <3>1. kernel[n].owner # s
        BY DEF IInv, NoLeak
      <3> QED
        BY <2>1, <3>1, <1>2
    <2>2. CASE t # s
      <3>1. kernel[n].owner = t
        <4> SUFFICES ASSUME kernel[n].owner # t PROVE FALSE
          OBVIOUS
        <4>1. n = r.fd /\ r.fd # INVALID_SOCKET
          BY Basics
        <4> QED
          BY <4>1, <2>2
      <3> QED
        BY <2>2, <3>1, <1>2 DEF IInv, NoLeak
    <2> QED
      BY <2>1, <2>2
  <1>4. HoldsOwn'
    <2> SUFFICES ASSUME build = "mswin", NEW t \in alive', sock'[t].fd # INVALID_SOCKET
                 PROVE  kernel'[sock'[t].fd].owner = t
      BY DEF HoldsOwn, HasFd
    <2>1. CASE t = s
      BY <2>1, <1>2
    <2>2. CASE t # s
      <3>1. t \in alive /\ t \in Objects /\ sock'[t] = sock[t] /\ sock[t].fd \in Fds
        BY <2>2, <1>2 DEF IInv, TypeOK, SocketRecord
      <3>2. kernel[sock[t].fd].owner = t
        BY <3>1 DEF IInv, HoldsOwn, HasFd
      <3> QED
        BY <3>1, <3>2, OwnersAssumption
    <2> QED
      BY <2>1, <2>2
  <1>5. Unmarked' /\ Absent' /\ BufferHolds'
    BY <1>2 DEF IInv, Unmarked, Absent, BufferHolds
  <1> QED
    BY <1>1, <1>3, <1>4, <1>5 DEF IInv

(* A step that closes the number of s, which keeps it on POSIX only, or is *)
(* collected.                                                              *)
LEMMA ReleaseKeeps ==
  ASSUME IInv, NEW s \in alive, kernel' = Released(s), build' = build,
         alive' \in {alive, alive \ {s}},
         sock' \in [Objects -> SocketRecord],
         \A t \in Objects \ {s} : sock'[t] = sock[t],
         ~sock'[s].isNonblock, sock'[s].bufferSize = 0, overrun' = overrun,
         build = "mswin" \/ s \notin alive' => sock'[s].fd = INVALID_SOCKET
  PROVE  IInv'
  <1>1. s \in Objects /\ sock[s].fd \in Fds \cup {INVALID_SOCKET}
    BY DEF IInv, TypeOK, SocketRecord
  <1>2. \A n \in Fds : kernel'[n] = IF n = sock[s].fd THEN Free ELSE kernel[n]
    BY <1>1, Basics DEF Released, HasFd, IInv, TypeOK
  <1>3. kernel' \in [Fds -> Descriptor]
    BY <1>1, Basics DEF Released, HasFd, IInv, TypeOK
  <1>4. TypeOK'
    BY <1>3 DEF IInv, TypeOK
  <1>5. Free.owner = Nobody /\ ~Free.mixed /\ ~Free.nonblock
    BY DEF Free, Opened
  <1>6. NoLeak'
    <2> SUFFICES ASSUME NEW n \in Fds, NEW t \in Objects, kernel'[n].owner = t
                 PROVE  t \in alive' /\ sock'[t].fd = n
      BY DEF NoLeak
    <2>1. n # sock[s].fd /\ kernel[n].owner = t
      BY <1>2, <1>5, OwnersAssumption
    <2>2. t \in alive /\ sock[t].fd = n /\ t # s
      BY <2>1 DEF IInv, NoLeak
    <2> QED
      BY <2>2
  <1>7. HoldsOwn'
    <2> SUFFICES ASSUME build = "mswin", NEW t \in alive', sock'[t].fd # INVALID_SOCKET
                 PROVE  kernel'[sock'[t].fd].owner = t
      BY DEF HoldsOwn, HasFd
    <2>1. t # s /\ t \in alive /\ sock'[t] = sock[t]
      BY DEF IInv, TypeOK
    <2>2. sock[t].fd \in Fds /\ kernel[sock[t].fd].owner = t
      BY <2>1 DEF IInv, TypeOK, SocketRecord, HoldsOwn, HasFd
    <2>3. sock[t].fd # sock[s].fd
      <3> SUFFICES ASSUME sock[t].fd = sock[s].fd PROVE FALSE
        OBVIOUS
      <3>1. kernel[sock[s].fd].owner = s
        BY <2>2, Basics DEF IInv, HoldsOwn, HasFd
      <3> QED
        BY <3>1, <2>1, <2>2
    <2> QED
      BY <2>1, <2>2, <2>3, <1>2
  <1>8. StreamsUnmixed'
    BY <1>2, <1>5 DEF IInv, StreamsUnmixed
  <1>9. Unmarked' /\ Absent' /\ BufferHolds'
    BY <1>1 DEF IInv, Unmarked, Absent, BufferHolds
  <1>10. Restored'
    BY <1>2, <1>5 DEF IInv, Restored
  <1> QED
    BY <1>4, <1>6, <1>7, <1>8, <1>9, <1>10 DEF IInv

(* The numbers the kernel offers are free ones. *)
LEMMA OfferedFree == \A n \in Offered : n \in Fds /\ kernel[n].owner = Nobody
  BY DEF Offered

(* Creating a socket keeps the invariant, whether or not socket() succeeds. *)
LEMMA CreateStep ==
  ASSUME IInv, NEW s \in Objects, NEW kind \in {"new", "datagram"}, Create(s, kind), UNCHANGED <<build, overrun>>
  PROVE  IInv'
  <1>1. \A n \in Fds \cup {INVALID_SOCKET} :
          Fresh(n).fd = n /\ ~Fresh(n).isNonblock /\ Fresh(n).bufferSize = 0
    BY DEF Fresh, Zeroed
  <1>2. CASE \E n \in Offered : /\ SocketNew(s, Fresh(n), sock)
                                /\ kernel' = [kernel EXCEPT ![n] = Opened(s, kind, FALSE)]
    <2>1. PICK n \in Offered : /\ SocketNew(s, Fresh(n), sock)
                               /\ kernel' = [kernel EXCEPT ![n] = Opened(s, kind, FALSE)]
      BY <1>2
    <2>2. n \in Fds /\ kernel[n].owner = Nobody
      BY OfferedFree
    <2>3. Opened(s, kind, FALSE) \in Descriptor
      BY Basics
    <2>4. kernel' \in [Fds -> Descriptor] /\ \A k \in Fds : k # n => kernel'[k] = kernel[k]
      BY <2>1, <2>2, <2>3 DEF IInv, TypeOK
    <2>5. kernel'[n].owner = s /\ ~kernel'[n].mixed /\ ~kernel'[n].nonblock
      BY <2>1, <2>2 DEF IInv, TypeOK, Opened
    <2>6. StreamsUnmixed' /\ Restored'
      BY <2>4, <2>5 DEF IInv, StreamsUnmixed, Restored
    <2>7. /\ Fresh(n) \in SocketRecord /\ Fresh(n).fd = n /\ ~Fresh(n).isNonblock
          /\ Fresh(n).bufferSize = 0
      BY <1>1, <2>2, Basics
    <2>8. \A k \in Fds : kernel'[k].owner # kernel[k].owner => k = n /\ kernel[k].owner = Nobody
      BY <2>2, <2>4
    <2>9. s \notin alive /\ alive' = alive \cup {s} /\ sock' = [sock EXCEPT ![s] = Fresh(n)]
      BY <2>1 DEF SocketNew
    <2> QED
      BY <2>4, <2>5, <2>6, <2>7, <2>8, <2>9, CreateKeeps
  <1>3. CASE SocketNew(s, Fresh(INVALID_SOCKET), sock) /\ UNCHANGED kernel
    <2>1. StreamsUnmixed' /\ Restored' /\ kernel' \in [Fds -> Descriptor]
      BY <1>3 DEF IInv, TypeOK, StreamsUnmixed, Restored
    <2> QED
      BY <1>1, <1>3, <2>1, Basics, CreateKeeps DEF SocketNew
  <1> QED
    BY <1>2, <1>3 DEF Create

(* Both accepts keep the invariant: d is the listener's descriptor after   *)
(* the call and m the mode the accepted one starts in.                     *)
LEMMA AcceptStep ==
  ASSUME IInv, NEW s \in alive, NEW client \in Objects, Kind(s) = "listening",
         NEW d \in Descriptor, NEW m \in BOOLEAN, NEW n \in Offered,
         d.owner = kernel[sock[s].fd].owner,
         d.mixed = (kernel[sock[s].fd].mixed \/ kernel[sock[s].fd].owner # s),
         d.nonblock => kernel[sock[s].fd].nonblock /\ d.kind = kernel[sock[s].fd].kind,
         m => build \in Inherits,
         SocketNew(client, Accepted(n), sock), UNCHANGED <<build, overrun>>,
         kernel' = [kernel EXCEPT ![sock[s].fd] = d, ![n] = Opened(client, "accepted", m)]
  PROVE  IInv'
  <1> DEFINE l == sock[s].fd
  <1>1. s \in Objects /\ l \in Fds /\ kernel[l].owner # Nobody
    BY DEF Kind, Reaches, HasFd, IInv, TypeOK, SocketRecord
  <1>2. n \in Fds /\ kernel[n].owner = Nobody /\ n # l
    BY OfferedFree, <1>1
  <1>3. Opened(client, "accepted", m) \in Descriptor
    BY Basics
  <1>4. /\ kernel' \in [Fds -> Descriptor]
        /\ kernel'[l] = d
        /\ kernel'[n] = Opened(client, "accepted", m)
        /\ \A k \in Fds \ {l, n} : kernel'[k] = kernel[k]
    BY <1>1, <1>2, <1>3 DEF IInv, TypeOK
  <1>5. /\ kernel'[n].owner = client /\ ~kernel'[n].mixed
        /\ kernel'[n].nonblock = m /\ kernel'[n].kind = "accepted"
    BY <1>4 DEF Opened
  <1>6. StreamsUnmixed'
    <2> SUFFICES ASSUME build = "mswin", NEW k \in Fds PROVE ~kernel'[k].mixed
      BY DEF StreamsUnmixed
    <2>1. kernel[l].owner = s /\ ~kernel[l].mixed /\ ~kernel[k].mixed
      BY <1>1, Basics DEF IInv, HoldsOwn, StreamsUnmixed, HasFd
    <2> QED
      BY <2>1, <1>4, <1>5
  <1>7. Restored'
    BY <1>1, <1>4, <1>5 DEF IInv, Restored
  <1>8. /\ Accepted(n) \in SocketRecord /\ Accepted(n).fd = n /\ ~Accepted(n).isNonblock
        /\ Accepted(n).bufferSize = 0
    BY <1>2, Basics DEF Accepted, Zeroed
  <1>9. \A k \in Fds : kernel'[k].owner # kernel[k].owner => k = n /\ kernel[k].owner = Nobody
    BY <1>2, <1>4
  <1> QED
    BY <1>4, <1>5, <1>6, <1>7, <1>8, <1>9, CreateKeeps DEF SocketNew

(* Used and UsedNow as CallKeeps and AcceptStep want them. *)
LEMMA UsedFacts ==
  ASSUME IInv, NEW s \in alive, Reaches(s)
  PROVE  /\ Used(s) \in Descriptor /\ UsedNow(s) \in Descriptor
         /\ \A k \in {"connected", "listening"} :
              /\ [Used(s) EXCEPT !.kind = k] \in Descriptor
              /\ [UsedNow(s) EXCEPT !.kind = k] \in Descriptor
         /\ [Used(s) EXCEPT !.down = TRUE] \in Descriptor
         /\ Used(s).owner = kernel[sock[s].fd].owner
         /\ Used(s).mixed = (kernel[sock[s].fd].mixed \/ kernel[sock[s].fd].owner # s)
         /\ Used(s).nonblock = kernel[sock[s].fd].nonblock
         /\ Used(s).kind = kernel[sock[s].fd].kind
         /\ UsedNow(s).owner = Used(s).owner /\ UsedNow(s).mixed = Used(s).mixed
         /\ ~UsedNow(s).nonblock
         /\ Marked(s) = sock /\ During(s).flag \in BOOLEAN
  <1> DEFINE k == kernel[sock[s].fd]
  <1>1. s \in Objects /\ sock[s].fd \in Fds /\ k \in Descriptor /\ sock[s] \in SocketRecord
    BY DEF Reaches, HasFd, IInv, TypeOK, SocketRecord
  <1>2. Used(s) = [k EXCEPT !.mixed = k.mixed \/ k.owner # s]
    BY <1>1 DEF Used, Descriptor
  <1>3. /\ Used(s) \in Descriptor
        /\ Used(s).owner = k.owner
        /\ Used(s).mixed = (k.mixed \/ k.owner # s)
        /\ Used(s).nonblock = k.nonblock
        /\ Used(s).kind = k.kind
    BY <1>1, <1>2 DEF Descriptor
  <1>4. sock[s].isNonblock = FALSE
    BY <1>1 DEF IInv, Unmarked, SocketRecord
  <1>5. During(s) = [mark |-> TRUE, flag |-> TRUE] /\ After(s) = [mark |-> FALSE, flag |-> FALSE]
    BY <1>4 DEF During, After, Mode, SetNonBlock, SetBlock
  <1>6. UsedNow(s) = [Used(s) EXCEPT !.nonblock = FALSE]
    BY <1>5 DEF UsedNow
  <1>7. Marked(s) = sock
    <2>1. [sock[s] EXCEPT !.isNonblock = FALSE] = sock[s]
      BY <1>1, <1>4 DEF SocketRecord
    <2>2. Marked(s) = [sock EXCEPT ![s] = [sock[s] EXCEPT !.isNonblock = FALSE]]
      BY <1>5 DEF Marked
    <2> QED
      BY <1>1, <2>1, <2>2 DEF IInv, TypeOK
  <1>8. /\ UsedNow(s) \in Descriptor
        /\ UsedNow(s).owner = Used(s).owner /\ UsedNow(s).mixed = Used(s).mixed
        /\ ~UsedNow(s).nonblock
    BY <1>3, <1>6 DEF Descriptor
  <1>9. /\ [Used(s) EXCEPT !.down = TRUE] \in Descriptor
        /\ \A j \in {"connected", "listening"} :
             /\ [Used(s) EXCEPT !.kind = j] \in Descriptor
             /\ [UsedNow(s) EXCEPT !.kind = j] \in Descriptor
    BY <1>3, <1>8 DEF Descriptor
  <1> QED
    BY <1>3, <1>5, <1>7, <1>8, <1>9

(* The receive functions keep the invariant: with a size above zero the    *)
(* buffer is one byte longer, and with a size of zero one byte is written. *)
LEMMA ReceiveStep ==
  ASSUME IInv, NEW s \in Objects, NEW size \in Sizes, NEW written \in Nat, NEW scanned \in Nat,
         written <= size + 1, build = "posix" \/ scanned <= size,
         Receiving(s, size, written, scanned)
  PROVE  IInv'
  <1>1. s \in alive /\ size \in Nat /\ build' = build /\ alive' = alive
    BY SizesAssumption DEF Receiving
  <1>2. Resized(s, size) \in Nat /\ sock[s] \in SocketRecord
    BY <1>1 DEF Resized, IInv, TypeOK, SocketRecord
  <1> DEFINE r == [sock[s] EXCEPT !.buffer = Resized(s, size)]
  <1>3. sock' = [sock EXCEPT ![s] = r]
    BY <1>1 DEF Receiving
  <1>4. /\ r \in SocketRecord /\ r.fd = sock[s].fd /\ r.isNonblock = sock[s].isNonblock
        /\ r.bufferSize = sock[s].bufferSize
    BY <1>2 DEF SocketRecord
  <1>5. /\ sock' \in [Objects -> SocketRecord]
        /\ sock'[s] = r /\ \A t \in Objects \ {s} : sock'[t] = sock[t]
    BY <1>3, <1>4 DEF IInv, TypeOK
  <1>6. \A t \in Objects : /\ sock'[t].fd = sock[t].fd
                           /\ sock'[t].isNonblock = sock[t].isNonblock
                           /\ sock'[t].bufferSize = sock[t].bufferSize
    BY <1>4, <1>5
  <1>7. overrun' \subseteq Causes /\ BufferHolds'
    <2> DEFINE b == Resized(s, size)
               new == Overrun(b, written, scanned)
    <2>1. overrun' = overrun \cup new
      BY DEF Receiving
    <2>2. b = IF size > 0 THEN size + 1 ELSE sock[s].buffer
      BY <1>1 DEF Resized, IInv, Unmarked
    <2>3. b \in Nat
      BY <1>2
    <2> HIDE DEF b
    <2>4. ~(written > b /\ b > 0) /\ (build = "posix" \/ ~(scanned > b))
      BY <1>1, <2>2, <2>3
    <2>5. new \subseteq Causes /\ "write" \notin new /\ ("read" \in new => build = "posix")
      BY <2>4 DEF Overrun, Causes
    <2> HIDE DEF new
    <2> QED
      BY <1>1, <2>1, <2>5 DEF IInv, TypeOK, BufferHolds
  <1>8. CASE Reaches(s)
    <2>1. kernel' = [kernel EXCEPT ![sock[s].fd] = Used(s)]
      BY <1>8 DEF Receiving
    <2> QED
      BY <1>1, <1>5, <1>6, <1>7, <1>8, <2>1, UsedFacts, CallKeeps
  <1>9. CASE ~Reaches(s)
    <2>1. kernel' = kernel
      BY <1>9 DEF Receiving
    <2>2. TypeOK' /\ StreamsUnmixed' /\ Restored' /\ Unmarked' /\ Absent'
      BY <1>1, <1>5, <1>6, <1>7, <2>1 DEF IInv, TypeOK, StreamsUnmixed, Restored, Unmarked, Absent
    <2>3. NoLeak' /\ HoldsOwn'
      BY <1>1, <1>6, <2>1 DEF IInv, TypeOK, NoLeak, HoldsOwn, HasFd
    <2> QED
      BY <2>2, <2>3, <1>7 DEF IInv
  <1> QED
    BY <1>8, <1>9

(* shutdown() keeps the invariant on both builds. *)
LEMMA ShutdownStep ==
  ASSUME IInv, NEW s \in Objects, NEW how \in Hows, SocketShutdown(s, how)
  PROVE  IInv'
  <1> DEFINE h == IF how > 2 THEN 2 ELSE how
  <1>1. h \in -128 .. 2 /\ s \in alive /\ build' = build /\ alive' = alive /\ overrun' = overrun
    BY HowsAssumption DEF SocketShutdown
  <1>2. sock[s] \in SocketRecord
    BY DEF IInv, TypeOK
  <1>3. CASE ShutdownPosix(s, h)
    <2> DEFINE r == [sock[s] EXCEPT !.isShutdown = h]
    <2>1. r \in SocketRecord /\ r.fd = sock[s].fd /\ r.isNonblock = sock[s].isNonblock
          /\ r.bufferSize = sock[s].bufferSize
      BY <1>1, <1>2 DEF SocketRecord
    <2>2. sock' = [sock EXCEPT ![s] = r]
      BY <1>3 DEF ShutdownPosix
    <2>3. sock' \in [Objects -> SocketRecord] /\ sock'[s] = r /\ \A t \in Objects \ {s} : sock'[t] = sock[t]
      BY <2>1, <2>2 DEF IInv, TypeOK
    <2>4. \A t \in Objects : /\ sock'[t].fd = sock[t].fd
                             /\ sock'[t].isNonblock = sock[t].isNonblock
                             /\ sock'[t].bufferSize = sock[t].bufferSize
      BY <2>1, <2>3
    <2>5. overrun' \subseteq Causes /\ BufferHolds'
      BY <1>1 DEF IInv, TypeOK, BufferHolds
    <2>6. PICK shut \in Shuts(s, h) :
            kernel' = IF shut THEN [kernel EXCEPT ![sock[s].fd] = [Used(s) EXCEPT !.down = TRUE]] ELSE kernel
      BY <1>3 DEF ShutdownPosix
    <2>7. CASE shut
      <3>1. Reaches(s)
        BY <2>7 DEF Shuts, Kind
      <3> DEFINE d == [Used(s) EXCEPT !.down = TRUE]
      <3>2. d \in Descriptor /\ Used(s) \in Descriptor
        BY <3>1, <1>1, UsedFacts
      <3>3. /\ d.owner = Used(s).owner /\ d.mixed = Used(s).mixed
            /\ d.nonblock = Used(s).nonblock /\ d.kind = Used(s).kind
        BY <3>2 DEF Descriptor
      <3>4. kernel' = [kernel EXCEPT ![sock[s].fd] = d]
        BY <2>6, <2>7
      <3> HIDE DEF d
      <3>5. /\ d.owner = kernel[sock[s].fd].owner
            /\ d.mixed = (kernel[sock[s].fd].mixed \/ kernel[sock[s].fd].owner # s)
            /\ d.nonblock => kernel[sock[s].fd].nonblock /\ d.kind = kernel[sock[s].fd].kind
        BY <3>1, <3>3, <1>1, UsedFacts
      <3> QED
        BY <1>1, <2>3, <2>4, <2>5, <3>1, <3>2, <3>4, <3>5, CallKeeps
    <2>8. CASE ~shut
      <3>1. kernel' = kernel
        BY <2>6, <2>8
      <3>2. TypeOK' /\ StreamsUnmixed' /\ Restored' /\ Unmarked' /\ Absent'
        BY <1>1, <2>3, <2>4, <2>5, <3>1 DEF IInv, TypeOK, StreamsUnmixed, Restored, Unmarked, Absent
      <3>3. NoLeak' /\ HoldsOwn'
        BY <1>1, <2>4, <3>1 DEF IInv, TypeOK, NoLeak, HoldsOwn, HasFd
      <3> QED
        BY <2>5, <3>2, <3>3 DEF IInv
    <2> QED
      BY <2>7, <2>8
  <1>4. CASE ShutdownMswin(s, h)
    <2> DEFINE r == [sock[s] EXCEPT !.isShutdown = h, !.fd = INVALID_SOCKET]
    <2>1. r \in SocketRecord /\ r.fd = INVALID_SOCKET /\ r.isNonblock = sock[s].isNonblock
          /\ r.bufferSize = sock[s].bufferSize
      BY <1>1, <1>2 DEF SocketRecord
    <2>2. sock' = [sock EXCEPT ![s] = r] /\ kernel' = Released(s)
      BY <1>4 DEF ShutdownMswin
    <2> HIDE DEF r
    <2>3. sock' \in [Objects -> SocketRecord] /\ sock'[s] = r /\ \A t \in Objects \ {s} : sock'[t] = sock[t]
      BY <2>1, <2>2 DEF IInv, TypeOK
    <2>4. ~sock'[s].isNonblock /\ sock'[s].bufferSize = 0 /\ overrun' = overrun
      BY <1>1, <2>1, <2>3 DEF IInv, Unmarked
    <2> QED
      BY <1>1, <2>1, <2>2, <2>3, <2>4, ReleaseKeeps
  <1> QED
    BY <1>3, <1>4 DEF SocketShutdown

(* close() keeps the invariant on both builds. *)
LEMMA CloseStep ==
  ASSUME IInv, NEW s \in Objects, SocketClose(s)
  PROVE  IInv'
  <1>1. s \in alive /\ build' = build /\ alive' = alive /\ kernel' = Released(s) /\ overrun' = overrun
    BY DEF SocketClose
  <1>2. CASE ClosePosix(s)
    <2>1. sock' = sock /\ build # "mswin"
      BY <1>2 DEF ClosePosix
    <2>2. sock' \in [Objects -> SocketRecord] /\ ~sock'[s].isNonblock /\ sock'[s].bufferSize = 0
      BY <2>1 DEF IInv, TypeOK, Unmarked
    <2> QED
      BY <1>1, <2>1, <2>2, ReleaseKeeps
  <1>3. CASE CloseMswin(s)
    <2> DEFINE r == [sock[s] EXCEPT !.fd = INVALID_SOCKET]
    <2>1. r \in SocketRecord /\ r.fd = INVALID_SOCKET /\ r.isNonblock = sock[s].isNonblock
          /\ r.bufferSize = sock[s].bufferSize
      BY DEF IInv, TypeOK, SocketRecord
    <2>2. sock' = [sock EXCEPT ![s] = r]
      BY <1>3 DEF CloseMswin
    <2> HIDE DEF r
    <2>3. sock' \in [Objects -> SocketRecord] /\ sock'[s] = r /\ \A t \in Objects \ {s} : sock'[t] = sock[t]
      BY <2>1, <2>2 DEF IInv, TypeOK
    <2>4. ~sock'[s].isNonblock /\ sock'[s].bufferSize = 0 /\ overrun' = overrun
      BY <1>1, <2>1, <2>3 DEF IInv, Unmarked
    <2> QED
      BY <1>1, <2>1, <2>3, <2>4, ReleaseKeeps
  <1> QED
    BY <1>2, <1>3 DEF SocketClose

(* Collecting an object keeps the invariant. *)
LEMMA CollectStep ==
  ASSUME IInv, NEW s \in Objects, SocketGC(s)
  PROVE  IInv'
  <1>1. /\ s \in alive /\ build' = build /\ alive' = alive \ {s} /\ kernel' = Released(s)
        /\ sock' = [sock EXCEPT ![s] = Blank] /\ overrun' = overrun
    BY DEF SocketGC
  <1>2. sock' \in [Objects -> SocketRecord] /\ sock'[s] = Blank /\ \A t \in Objects \ {s} : sock'[t] = sock[t]
    BY <1>1, Basics DEF IInv, TypeOK
  <1>3. /\ Blank.fd = INVALID_SOCKET /\ ~Blank.isNonblock
        /\ Blank.bufferSize = 0
    BY DEF Blank, Zeroed
  <1> QED
    BY <1>1, <1>2, <1>3, ReleaseKeeps

(* What the rest of the process does to descriptors of its own keeps it. *)
LEMMA OtherStep ==
  ASSUME IInv, OtherOpen \/ OtherClose
  PROVE  IInv'
  <1>1. alive' = alive /\ build' = build /\ sock' = sock /\ overrun' = overrun
    BY DEF OtherOpen, OtherClose
  <1>2. PICK n \in Fds, d \in {Free, Opened(Other, "file", FALSE)} :
          kernel[n].owner \in {Nobody, Other} /\ kernel' = [kernel EXCEPT ![n] = d]
    <2>1. CASE OtherOpen
      <3>1. PICK k \in Offered : kernel' = [kernel EXCEPT ![k] = Opened(Other, "file", FALSE)]
        BY <2>1 DEF OtherOpen
      <3> QED
        BY <3>1, OfferedFree
    <2>2. CASE OtherClose
      BY <2>2 DEF OtherClose
    <2> QED
      BY <2>1, <2>2
  <1>3. d \in Descriptor /\ d.owner \in {Nobody, Other} /\ ~d.mixed /\ ~d.nonblock
    <2>1. Free \in Descriptor /\ Opened(Other, "file", FALSE) \in Descriptor
      BY Basics
    <2>2. /\ Free.owner = Nobody /\ ~Free.mixed /\ ~Free.nonblock
          /\ Opened(Other, "file", FALSE).owner = Other
          /\ ~Opened(Other, "file", FALSE).mixed /\ ~Opened(Other, "file", FALSE).nonblock
      BY DEF Free, Opened
    <2> QED
      BY <2>1, <2>2
  <1>4. kernel' \in [Fds -> Descriptor] /\ \A k \in Fds : kernel'[k] = IF k = n THEN d ELSE kernel[k]
    BY <1>2, <1>3 DEF IInv, TypeOK
  <1>5. TypeOK' /\ Unmarked' /\ Absent' /\ BufferHolds'
    BY <1>1, <1>4 DEF IInv, TypeOK, Unmarked, Absent, BufferHolds
  <1>6. NoLeak'
    BY <1>1, <1>3, <1>4, OwnersAssumption DEF IInv, NoLeak
  <1>7. HoldsOwn'
    <2> SUFFICES ASSUME build = "mswin", NEW t \in alive, sock[t].fd # INVALID_SOCKET
                 PROVE  kernel'[sock[t].fd].owner = t
      BY <1>1 DEF HoldsOwn, HasFd
    <2>1. t \in Objects /\ sock[t].fd \in Fds /\ kernel[sock[t].fd].owner = t
      BY DEF IInv, TypeOK, SocketRecord, HoldsOwn, HasFd
    <2>2. sock[t].fd # n
      BY <2>1, <1>2, OwnersAssumption
    <2> QED
      BY <2>1, <2>2, <1>4
  <1>8. StreamsUnmixed' /\ Restored'
    BY <1>1, <1>3, <1>4 DEF IInv, StreamsUnmixed, Restored
  <1> QED
    BY <1>5, <1>6, <1>7, <1>8 DEF IInv

(* Connecting, listening and sending keep the invariant, and so does a     *)
(* call in nonblocking mode that fails.                                    *)
LEMMA PlainCallStep ==
  ASSUME IInv, NEW s \in Objects,
         \/ SocketConnect(s) \/ SocketConnectNow(s) \/ SocketNowFails(s)
         \/ SocketListen(s) \/ SocketSend(s)
  PROVE  IInv'
  <1>1. s \in alive /\ Reaches(s) /\ build' = build /\ alive' = alive /\ overrun' = overrun
    BY DEF SocketConnect, SocketConnectNow, SocketNowFails, SocketListen, SocketSend, Call
  <1>2. sock' = sock
    BY <1>1, UsedFacts DEF SocketConnect, SocketConnectNow, SocketNowFails, SocketListen, SocketSend
  <1>3. PICK d \in {Used(s), UsedNow(s), [Used(s) EXCEPT !.kind = "connected"],
                    [Used(s) EXCEPT !.kind = "listening"], [UsedNow(s) EXCEPT !.kind = "connected"]} :
          /\ kernel' = [kernel EXCEPT ![sock[s].fd] = d]
          /\ d \in {Used(s), UsedNow(s)} \/ kernel[sock[s].fd].kind = "new"
    BY <1>1 DEF SocketConnect, SocketConnectNow, SocketNowFails, SocketListen, SocketSend, Kind
  <1>4. d \in Descriptor
    <2>1. Used(s) \in Descriptor /\ UsedNow(s) \in Descriptor
      BY <1>1, UsedFacts
    <2>2. [Used(s) EXCEPT !.kind = "connected"] \in Descriptor
      BY <1>1, UsedFacts
    <2>3. [Used(s) EXCEPT !.kind = "listening"] \in Descriptor
      BY <1>1, UsedFacts
    <2>4. [UsedNow(s) EXCEPT !.kind = "connected"] \in Descriptor
      BY <1>1, UsedFacts
    <2> QED
      BY <1>3, <2>1, <2>2, <2>3, <2>4
  <1>5. \A k \in {"connected", "listening"} :
          /\ [Used(s) EXCEPT !.kind = k].owner = Used(s).owner
          /\ [Used(s) EXCEPT !.kind = k].mixed = Used(s).mixed
          /\ [Used(s) EXCEPT !.kind = k].nonblock = Used(s).nonblock
          /\ [UsedNow(s) EXCEPT !.kind = k].owner = UsedNow(s).owner
          /\ [UsedNow(s) EXCEPT !.kind = k].mixed = UsedNow(s).mixed
          /\ [UsedNow(s) EXCEPT !.kind = k].nonblock = UsedNow(s).nonblock
    <2>1. Used(s) \in Descriptor /\ UsedNow(s) \in Descriptor
      BY <1>1, UsedFacts
    <2> QED
      BY <2>1 DEF Descriptor
  <1>6. /\ d.owner = Used(s).owner /\ d.mixed = Used(s).mixed
        /\ d.nonblock => Used(s).nonblock
    BY <1>1, <1>3, <1>5, UsedFacts
  <1>7. d.nonblock => d = Used(s)
    <2>1. kernel[sock[s].fd].kind = "new" => ~Used(s).nonblock
      <3>1. sock[s].fd \in Fds /\ Used(s).nonblock = kernel[sock[s].fd].nonblock
        BY <1>1, UsedFacts DEF IInv, TypeOK, Reaches, HasFd, SocketRecord
      <3>2. kernel[sock[s].fd].nonblock => kernel[sock[s].fd].kind = "accepted"
        BY <3>1 DEF IInv, Restored
      <3> QED
        BY <3>1, <3>2
    <2>2. ~UsedNow(s).nonblock
      BY <1>1, UsedFacts
    <2> QED
      BY <1>3, <1>6, <2>1, <2>2
  <1>8. /\ d.owner = kernel[sock[s].fd].owner
        /\ d.mixed = (kernel[sock[s].fd].mixed \/ kernel[sock[s].fd].owner # s)
        /\ d.nonblock => kernel[sock[s].fd].nonblock /\ d.kind = kernel[sock[s].fd].kind
    BY <1>1, <1>6, <1>7, UsedFacts
  <1>9. sock' \in [Objects -> SocketRecord] /\ overrun' \subseteq Causes /\ BufferHolds'
    BY <1>1, <1>2 DEF IInv, TypeOK, BufferHolds
  <1> QED
    BY <1>1, <1>2, <1>3, <1>4, <1>8, <1>9, CallKeeps

(* What both ways of accepting do: d is the listener's descriptor after    *)
(* the call, and m the mode the accepted one starts in.                    *)
LEMMA AcceptsAs ==
  ASSUME IInv, NEW s \in Objects, NEW client \in Objects,
         SocketAccept(s, client) \/ SocketAcceptNow(s, client)
  PROVE  \E n \in Offered, d \in {Used(s), UsedNow(s)}, m \in BOOLEAN :
           /\ SocketNew(client, Accepted(n), sock)
           /\ kernel' = [kernel EXCEPT ![sock[s].fd] = d, ![n] = Opened(client, "accepted", m)]
           /\ m => build \in Inherits
  <1>1. s \in alive /\ Reaches(s)
    BY DEF SocketAccept, SocketAcceptNow, Listening, Kind
  <1>2. CASE SocketAccept(s, client)
    <2> DEFINE m == build \in Inherits /\ Mode(s).flag
    <2>1. PICK n \in Offered :
            /\ SocketNew(client, Accepted(n), sock)
            /\ kernel' = [kernel EXCEPT ![sock[s].fd] = Used(s), ![n] = Opened(client, "accepted", m)]
      BY <1>2 DEF SocketAccept
    <2>2. m \in BOOLEAN /\ (m => build \in Inherits)
      OBVIOUS
    <2> HIDE DEF m
    <2> QED
      BY <2>1, <2>2
  <1>3. CASE SocketAcceptNow(s, client)
    <2> DEFINE m == build \in Inherits /\ During(s).flag
    <2>1. PICK n \in Offered :
            /\ SocketNew(client, Accepted(n), Marked(s))
            /\ kernel' = [kernel EXCEPT ![sock[s].fd] = UsedNow(s), ![n] = Opened(client, "accepted", m)]
      BY <1>3 DEF SocketAcceptNow
    <2>2. m \in BOOLEAN /\ (m => build \in Inherits) /\ Marked(s) = sock
      BY <1>1, UsedFacts
    <2> HIDE DEF m
    <2> QED
      BY <2>1, <2>2
  <1> QED
    BY <1>2, <1>3

(* Both ways of accepting keep the invariant. *)
LEMMA AcceptsStep ==
  ASSUME IInv, NEW s \in Objects, NEW client \in Objects,
         SocketAccept(s, client) \/ SocketAcceptNow(s, client)
  PROVE  IInv'
  <1>1. s \in alive /\ Kind(s) = "listening" /\ Reaches(s) /\ UNCHANGED <<build, overrun>>
    BY DEF SocketAccept, SocketAcceptNow, Listening, Kind
  <1>2. PICK n \in Offered, d \in {Used(s), UsedNow(s)}, m \in BOOLEAN :
          /\ SocketNew(client, Accepted(n), sock)
          /\ kernel' = [kernel EXCEPT ![sock[s].fd] = d, ![n] = Opened(client, "accepted", m)]
          /\ m => build \in Inherits
    BY AcceptsAs
  <1>3. /\ d \in Descriptor
        /\ d.owner = kernel[sock[s].fd].owner
        /\ d.mixed = (kernel[sock[s].fd].mixed \/ kernel[sock[s].fd].owner # s)
        /\ d.nonblock => kernel[sock[s].fd].nonblock /\ d.kind = kernel[sock[s].fd].kind
    BY <1>1, UsedFacts
  <1> QED
    BY <1>1, <1>2, <1>3, AcceptStep

(* The bytes receiveFrom can read. *)
LEMMA ScannedFacts ==
  ASSUME NEW s \in Objects, NEW size \in Sizes
  PROVE  \A scanned \in Scanned(s, size) : scanned \in Nat /\ (build = "posix" \/ scanned <= size)
  BY SizesAssumption DEF Scanned

(* Every step keeps the invariant. *)
LEMMA StepIInv == IInv /\ [Next]_vars => IInv'
  <1> SUFFICES ASSUME IInv, [Next]_vars PROVE IInv'
    OBVIOUS
  <1>1. ASSUME NEW s \in Objects, SocketTCP(s) PROVE IInv'
    BY <1>1, CreateStep DEF SocketTCP
  <1>2. ASSUME NEW s \in Objects, SocketUDP(s) PROVE IInv'
    BY <1>2, CreateStep DEF SocketUDP
  <1>3. ASSUME NEW s \in Objects, NEW client \in Objects, SocketAccept(s, client) \/ SocketAcceptNow(s, client)
        PROVE  IInv'
    BY <1>3, AcceptsStep
  <1>4. ASSUME NEW s \in Objects,
               \/ SocketConnect(s) \/ SocketConnectNow(s) \/ SocketNowFails(s)
               \/ SocketListen(s) \/ SocketSend(s)
        PROVE  IInv'
    BY <1>4, PlainCallStep
  <1>5. ASSUME NEW s \in Objects, NEW size \in Sizes, SocketReceive(s, size) PROVE IInv'
    <2>1. Receiving(s, size, size + 1, size) /\ size \in Nat /\ size + 1 \in Nat /\ size + 1 <= size + 1
      BY <1>5, SizesAssumption DEF SocketReceive
    <2> QED
      BY <2>1, ReceiveStep
  <1>6. ASSUME NEW s \in Objects, NEW size \in Sizes, SocketReceiveFrom(s, size) PROVE IInv'
    <2>1. PICK scanned \in Scanned(s, size) : Receiving(s, size, size, scanned)
      BY <1>6 DEF SocketReceiveFrom
    <2>2. size \in Nat /\ size <= size + 1
      BY SizesAssumption
    <2> QED
      BY <2>1, <2>2, ScannedFacts, ReceiveStep
  <1>7. ASSUME NEW s \in Objects, NEW how \in Hows, SocketShutdown(s, how) PROVE IInv'
    BY <1>7, ShutdownStep
  <1>8. ASSUME NEW s \in Objects, SocketClose(s) PROVE IInv'
    BY <1>8, CloseStep
  <1>9. ASSUME NEW s \in Objects, SocketGC(s) PROVE IInv'
    BY <1>9, CollectStep
  <1>10. CASE OtherOpen \/ OtherClose
    BY <1>10, OtherStep
  <1>11. CASE UNCHANGED vars
    <2>1. TypeOK' /\ NoLeak' /\ HoldsOwn' /\ StreamsUnmixed'
      BY <1>11 DEF vars, IInv, TypeOK, NoLeak, HoldsOwn, HasFd, StreamsUnmixed
    <2>2. Unmarked' /\ Absent' /\ Restored' /\ BufferHolds'
      BY <1>11 DEF vars, IInv, Unmarked, Absent, Restored, BufferHolds
    <2> QED
      BY <2>1, <2>2 DEF IInv
  <1> QED
    BY <1>1, <1>2, <1>3, <1>4, <1>5, <1>6, <1>7, <1>8, <1>9, <1>10, <1>11 DEF Next

(* The strengthened invariant holds always. *)
THEOREM Invariance == Spec => []IInv
  BY InitIInv, StepIInv, PTL DEF Spec

(* Every variable has its type, for any objects, descriptors and sizes. *)
THEOREM Types == Spec => []TypeOK
  <1>1. IInv => TypeOK
    BY DEF IInv
  <1> QED
    BY <1>1, Invariance, PTL

(* Whatever is open for an object, the object exists and still has its     *)
(* number, so that the finaliser closes it.                                *)
THEOREM NothingLeaks == Spec => []NoLeak
  <1>1. IInv => NoLeak
    BY DEF IInv
  <1> QED
    BY <1>1, Invariance, PTL

(* On Windows an object only holds the number of a descriptor it obtained  *)
(* itself.                                                                 *)
THEOREM WindowsHoldsOwn == Spec => []HoldsOwn
  <1>1. IInv => HoldsOwn
    BY DEF IInv
  <1> QED
    BY <1>1, Invariance, PTL

(* No call of one object ever reaches the descriptor of another there.     *)
THEOREM WindowsKeepsApart == Spec => []StreamsUnmixed
  <1>1. IInv => StreamsUnmixed
    BY DEF IInv
  <1> QED
    BY <1>1, Invariance, PTL

(* Whether or not accept() hands the listener's mode down, no object stays *)
(* marked nonblocking, and the one descriptor that does not wait is that   *)
(* of a socket that was handed the mode when it was accepted.              *)
THEOREM ModeRestored == Spec => []ModeKept
  <1>1. IInv => ModeKept
    BY DEF IInv, TypeOK, SocketRecord, ModeKept, Open, HasFd, Restored, Unmarked
  <1> QED
    BY <1>1, Invariance, PTL

(* Whatever sizes, no receive function writes past the end of a buffer     *)
(* that exists, and none reads past it on Windows.                         *)
THEOREM BufferSafe == Spec => []BufferHolds
  <1>1. IInv => BufferHolds
    BY DEF IInv
  <1> QED
    BY <1>1, Invariance, PTL

(* A set of numbers with an upper bound has a greatest one. *)
LEMMA Greatest ==
  ASSUME NEW top \in Nat, NEW S, S \subseteq -1 .. top, S # {}
  PROVE  MaxOf(S) \in S /\ \A n \in S : n <= MaxOf(S)
  <1> DEFINE R == {ss \in Nat \X Nat : ss[1] < ss[2]}
             T == {k \in Nat : top - k \in S}
  <1>1. T \subseteq Nat /\ T # {}
    <2>1. PICK n : n \in S
      OBVIOUS
    <2>2. n \in -1 .. top
      BY <2>1
    <2>3. top - n \in Nat /\ top - (top - n) = n
      BY <2>2
    <2> QED
      BY <2>1, <2>3
  <1>2. PICK k \in T : \A j \in T : ~(<<j, k>> \in R)
    <2>1. IsWellFoundedOn(R, Nat)
      BY NatLessThanWellFounded DEF OpToRel
    <2> HIDE DEF T, R
    <2> QED
      BY <1>1, <2>1, WFMin
  <1>3. \A j \in T : k <= j
    <2> SUFFICES ASSUME NEW j \in T PROVE k <= j
      OBVIOUS
    <2>1. j \in Nat /\ k \in Nat /\ <<j, k>> \notin R
      BY <1>2
    <2> QED
      BY <2>1
  <1>4. \A n \in S : n <= top - k
    <2> SUFFICES ASSUME NEW n \in S PROVE n <= top - k
      OBVIOUS
    <2>1. n \in -1 .. top
      OBVIOUS
    <2>2. top - n \in Nat /\ top - (top - n) = n
      BY <2>1
    <2>3. top - n \in T
      BY <2>2
    <2>4. k <= top - n /\ k \in Nat
      BY <1>3, <2>3
    <2> QED
      BY <2>1, <2>4
  <1>5. \E m \in S : \A n \in S : n <= m
    BY <1>2, <1>4
  <1> QED
    BY <1>5 DEF MaxOf

(* The open sockets of a table, and the number that each of them alone has.*)
LEMMA TableFacts ==
  ASSUME TypeOK, NEW t \in Tables
  PROVE  /\ TableToFDSet(t) \subseteq Fds
         /\ \A n \in TableToFDSet(t) : kernel[n].owner \in Objects
         /\ \A i \in DOMAIN t : /\ sock[t[i]].fd \in TableToFDSet(t)
                               /\ PushSocketForFD(t, sock[t[i]].fd) = t[i]
  <1>1. /\ \A i \in DOMAIN t : i \in Int /\ t[i] \in alive /\ Open(t[i])
        /\ \A i, j \in DOMAIN t : t[i] = t[j] => i = j
    BY DEF Tables
  <1>2. alive \subseteq Objects /\ \A s \in Objects : sock[s].fd \in Fds \cup {INVALID_SOCKET}
    BY DEF TypeOK, SocketRecord
  <1>3. \A i \in DOMAIN t :
          /\ sock[t[i]].fd \in Fds /\ sock[t[i]].fd # INVALID_SOCKET
          /\ kernel[sock[t[i]].fd].owner = t[i] /\ t[i] \in Objects
    BY <1>1, <1>2 DEF Open, HasFd
  <1>4. TableToFDSet(t) \subseteq Fds /\ \A n \in TableToFDSet(t) : kernel[n].owner \in Objects
    BY <1>3 DEF TableToFDSet
  <1>5. ASSUME NEW i \in DOMAIN t
        PROVE  /\ sock[t[i]].fd \in TableToFDSet(t)
               /\ PushSocketForFD(t, sock[t[i]].fd) = t[i]
    <2> DEFINE found == {j \in DOMAIN t : sock[t[j]].fd = sock[t[i]].fd}
    <2>1. sock[t[i]].fd \in TableToFDSet(t)
      BY <1>3 DEF TableToFDSet
    <2>2. found = {i}
      BY <1>1, <1>3
    <2>3. i <= i
      BY <1>1
    <2>4. PushSocketForFD(t, sock[t[i]].fd) = t[CHOOSE k \in found : \A j \in found : k <= j]
      BY DEF PushSocketForFD
    <2> HIDE DEF found
    <2> QED
      BY <2>1, <2>2, <2>3, <2>4
  <1> QED
    BY <1>4, <1>5

(* Select() given open sockets returns those that are ready, each in the   *)
(* table it came in, whatever their numbers and their order.               *)
THEOREM SelectIsExact == Spec => []SelectTells
  <1>1. TypeOK => SelectTells
    <2> SUFFICES ASSUME TypeOK, NEW r \in Tables, NEW w \in Tables, NEW ready \in SUBSET Fds
                 PROVE  SocketSelect(r, w, ready) = [r |-> Ready(r, ready), w |-> Ready(w, ready)]
      BY DEF SelectTells
    <2> DEFINE numbers == TableToFDSet(r) \cup TableToFDSet(w) \cup {-1}
               maxfd   == MaxOf(numbers)
    <2>1. maxfd \in Int /\ \A n \in numbers : n <= maxfd
      <3>1. numbers \subseteq -1 .. MaxFd /\ numbers # {} /\ MaxFd \in Nat
        BY TableFacts, MaxFdAssumption DEF Fds
      <3> HIDE DEF numbers
      <3>2. maxfd \in numbers /\ \A n \in numbers : n <= maxfd
        BY <3>1, Greatest
      <3>3. maxfd \in -1 .. MaxFd
        BY <3>1, <3>2
      <3> QED
        BY <3>1, <3>2, <3>3
    <2> HIDE DEF maxfd
    <2>2. ASSUME NEW t \in {r, w}
          PROVE  FDSetToTable(t, TableToFDSet(t) \cap ready, maxfd) = Ready(t, ready)
      <3>1. t \in Tables
        OBVIOUS
      <3>2. \A n \in TableToFDSet(t) : n \in 0 .. maxfd
        BY <2>1, <3>1, TableFacts, MaxFdAssumption DEF Fds
      <3>3. FDSetToTable(t, TableToFDSet(t) \cap ready, maxfd)
              = {PushSocketForFD(t, n) : n \in TableToFDSet(t) \cap ready}
        <4>1. (TableToFDSet(t) \cap ready) \cap 0 .. maxfd = TableToFDSet(t) \cap ready
          BY <3>2
        <4> QED
          BY <4>1 DEF FDSetToTable
      <3>4. ASSUME NEW x, x \in Ready(t, ready)
            PROVE  \E n \in TableToFDSet(t) \cap ready : x = PushSocketForFD(t, n)
        BY <3>1, <3>4, TableFacts DEF Ready
      <3>5. ASSUME NEW n \in TableToFDSet(t) \cap ready
            PROVE  PushSocketForFD(t, n) \in Ready(t, ready)
        <4>1. PICK i \in DOMAIN t : n = sock[t[i]].fd
          BY DEF TableToFDSet
        <4>2. PushSocketForFD(t, n) = t[i]
          BY <3>1, <4>1, TableFacts
        <4> QED
          BY <4>1, <4>2 DEF Ready
      <3> QED
        BY <3>3, <3>4, <3>5
    <2>3. ~SelectFails(r, w)
      BY TableFacts, OwnersAssumption DEF SelectFails
    <2> QED
      BY <2>2, <2>3 DEF SocketSelect, maxfd
  <1> QED
    BY <1>1, Types, PTL

(* On Windows isClosed() is true exactly when nothing is open. *)
THEOREM ClosedTold == Spec => []IsClosedTells
  <1>1. IInv => IsClosedTells
    BY BuildsAssumption DEF IInv, TypeOK, IsClosedTells, SocketIsClosed, Open, HoldsOwn, HasFd
  <1> QED
    BY <1>1, Invariance, PTL

------------------------------------------------------------------------------
(* Socket implements Descriptors: what a call does to the numbers. *)

owners == [n \in Fds |-> kernel[n].owner]

held == [s \in Objects |-> {sock[s].fd} \ {INVALID_SOCKET}]

(* A call that moves no number is a stuttering step. *)
LEMMA SameNumbers ==
  ASSUME UNCHANGED build,
         \A n \in Fds : kernel'[n].owner = kernel[n].owner,
         \A s \in Objects : sock'[s].fd = sock[s].fd
  PROVE  UNCHANGED D!vars
  BY DEF D!vars

(* An object that is created with a number takes it. *)
LEMMA TakesNumber ==
  ASSUME NEW s \in Objects, NEW n \in Fds, UNCHANGED build,
         sock[s].fd = INVALID_SOCKET, kernel[n].owner = Nobody,
         kernel'[n].owner = s, \A k \in Fds \ {n} : kernel'[k].owner = kernel[k].owner,
         sock'[s].fd = n, \A t \in Objects \ {s} : sock'[t].fd = sock[t].fd
  PROVE  D!Next
  <1>1. owners[n] = Nobody /\ held[s] = {}
    BY DEF owners, held
  <1>2. owners' = [owners EXCEPT ![n] = s]
    BY DEF owners
  <1>3. held' = [held EXCEPT ![s] = {n}]
    BY Basics DEF held
  <1>4. D!Take(s, n)
    BY <1>1, <1>2, <1>3 DEF D!Take, owners, held
  <1> QED
    BY <1>4 DEF D!Next

(* An object whose number is closed closes it, and one that is collected   *)
(* forgets it too.                                                         *)
LEMMA FreesNumber ==
  ASSUME TypeOK, NEW s \in Objects, UNCHANGED build, kernel' = Released(s),
         \A t \in Objects \ {s} : sock'[t].fd = sock[t].fd,
         \/ sock'[s].fd = INVALID_SOCKET
         \/ sock'[s].fd = sock[s].fd /\ build # "mswin"
  PROVE  D!Next
  <1> DEFINE freed == [n \in Fds |-> IF n \in held[s] THEN Nobody ELSE owners[n]]
  <1>1. owners' = freed
    <2>1. sock[s].fd \in Fds \cup {INVALID_SOCKET} /\ Free.owner = Nobody
      BY DEF TypeOK, SocketRecord, Free, Opened
    <2>2. \A n \in Fds : kernel'[n] = IF n = sock[s].fd THEN Free ELSE kernel[n]
      BY <2>1, Basics DEF Released, HasFd, TypeOK
    <2>3. \A n \in Fds : n \in held[s] <=> n = sock[s].fd
      BY Basics DEF held
    <2>4. \A n \in Fds : kernel'[n].owner = IF n \in held[s] THEN Nobody ELSE kernel[n].owner
      BY <2>1, <2>2, <2>3
    <2> QED
      BY <2>4 DEF owners
  <1>2. D!Freed(s) = freed
    BY DEF D!Freed, owners, held
  <1>3. CASE sock'[s].fd = INVALID_SOCKET
    <2>1. held' = [held EXCEPT ![s] = {}]
      BY <1>3 DEF held
    <2>2. D!Collect(s)
      BY <1>1, <1>2, <2>1 DEF D!Collect, owners, held
    <2> QED
      BY <2>2 DEF D!Next
  <1>4. CASE sock'[s].fd = sock[s].fd /\ build # "mswin"
    <2>1. held' = held
      BY <1>4 DEF held
    <2>2. D!Close(s)
      BY <1>1, <1>2, <1>4, <2>1 DEF D!Close, owners, held
    <2> QED
      BY <2>2 DEF D!Next
  <1> QED
    BY <1>3, <1>4

(* Creating an object takes a number, or none when socket() fails. *)
LEMMA CreateImplements ==
  ASSUME IInv, NEW s \in Objects, NEW kind \in {"new", "datagram"}, Create(s, kind), UNCHANGED <<build, overrun>>
  PROVE  D!Next \/ UNCHANGED D!vars
  <1>1. \A n \in Fds \cup {INVALID_SOCKET} : Fresh(n).fd = n
    BY DEF Fresh, Zeroed
  <1>2. CASE \E n \in Offered : /\ SocketNew(s, Fresh(n), sock)
                                /\ kernel' = [kernel EXCEPT ![n] = Opened(s, kind, FALSE)]
    <2>1. PICK n \in Offered : /\ SocketNew(s, Fresh(n), sock)
                               /\ kernel' = [kernel EXCEPT ![n] = Opened(s, kind, FALSE)]
      BY <1>2
    <2>2. n \in Fds /\ kernel[n].owner = Nobody /\ sock[s].fd = INVALID_SOCKET
      BY <2>1, OfferedFree DEF SocketNew, IInv, Absent
    <2>3. Opened(s, kind, FALSE).owner = s
      BY DEF Opened
    <2>4. kernel'[n].owner = s /\ \A k \in Fds \ {n} : kernel'[k].owner = kernel[k].owner
      BY <2>1, <2>2, <2>3 DEF IInv, TypeOK
    <2>5. sock'[s].fd = n /\ \A t \in Objects \ {s} : sock'[t].fd = sock[t].fd
      BY <1>1, <2>1, <2>2 DEF SocketNew, IInv, TypeOK
    <2> QED
      BY <2>2, <2>4, <2>5, TakesNumber
  <1>3. CASE SocketNew(s, Fresh(INVALID_SOCKET), sock) /\ UNCHANGED kernel
    <2>1. \A t \in Objects : sock'[t].fd = sock[t].fd
      BY <1>1, <1>3 DEF SocketNew, IInv, TypeOK, Absent
    <2> QED
      BY <1>3, <2>1, SameNumbers
  <1> QED
    BY <1>2, <1>3 DEF Create

(* Accepting takes a number for the client. *)
LEMMA AcceptImplements ==
  ASSUME IInv, NEW s \in Objects, NEW client \in Objects,
         SocketAccept(s, client) \/ SocketAcceptNow(s, client)
  PROVE  D!Next
  <1>1. s \in alive /\ Reaches(s) /\ UNCHANGED build
    BY DEF SocketAccept, SocketAcceptNow, Listening, Kind
  <1>2. PICK n \in Offered, d \in {Used(s), UsedNow(s)}, m \in BOOLEAN :
          /\ SocketNew(client, Accepted(n), sock)
          /\ kernel' = [kernel EXCEPT ![sock[s].fd] = d, ![n] = Opened(client, "accepted", m)]
    BY AcceptsAs
  <1>3. n \in Fds /\ kernel[n].owner = Nobody /\ sock[client].fd = INVALID_SOCKET
    BY <1>2, OfferedFree DEF SocketNew, IInv, Absent
  <1>4. sock[s].fd \in Fds /\ sock[s].fd # n
    BY <1>1, <1>3 DEF Reaches, HasFd, IInv, TypeOK, SocketRecord
  <1>5. d.owner = kernel[sock[s].fd].owner
    BY <1>1, UsedFacts
  <1>6. Opened(client, "accepted", m).owner = client /\ Accepted(n).fd = n
    BY DEF Opened, Accepted, Zeroed
  <1>7. kernel'[n].owner = client /\ \A k \in Fds \ {n} : kernel'[k].owner = kernel[k].owner
    BY <1>2, <1>3, <1>4, <1>5, <1>6 DEF IInv, TypeOK
  <1>8. sock'[client].fd = n /\ \A t \in Objects \ {client} : sock'[t].fd = sock[t].fd
    BY <1>2, <1>6 DEF SocketNew, IInv, TypeOK
  <1> QED
    BY <1>1, <1>3, <1>7, <1>8, TakesNumber

(* A call that keeps the owner of the one descriptor it reaches. *)
LEMMA CallSameNumbers ==
  ASSUME IInv, NEW s \in alive, Reaches(s), UNCHANGED build, NEW d,
         d.owner = kernel[sock[s].fd].owner,
         kernel' = [kernel EXCEPT ![sock[s].fd] = d],
         \A t \in Objects : sock'[t].fd = sock[t].fd
  PROVE  UNCHANGED D!vars
  <1>1. \A n \in Fds : kernel'[n].owner = kernel[n].owner
    BY DEF IInv, TypeOK
  <1> QED
    BY <1>1, SameNumbers

(* Connecting, listening and sending move no number. *)
LEMMA PlainCallImplements ==
  ASSUME IInv, NEW s \in Objects,
         \/ SocketConnect(s) \/ SocketConnectNow(s) \/ SocketNowFails(s)
         \/ SocketListen(s) \/ SocketSend(s)
  PROVE  UNCHANGED D!vars
  <1>1. s \in alive /\ Reaches(s) /\ build' = build
    BY DEF SocketConnect, SocketConnectNow, SocketNowFails, SocketListen, SocketSend, Call
  <1>2. sock' = sock
    BY <1>1, UsedFacts DEF SocketConnect, SocketConnectNow, SocketNowFails, SocketListen, SocketSend
  <1>3. PICK d \in {Used(s), UsedNow(s), [Used(s) EXCEPT !.kind = "connected"],
                    [Used(s) EXCEPT !.kind = "listening"], [UsedNow(s) EXCEPT !.kind = "connected"]} :
          kernel' = [kernel EXCEPT ![sock[s].fd] = d]
    BY DEF SocketConnect, SocketConnectNow, SocketNowFails, SocketListen, SocketSend
  <1>4. Used(s) \in Descriptor /\ UsedNow(s) \in Descriptor
    BY <1>1, UsedFacts
  <1>5. \A k \in {"connected", "listening"} :
          /\ [Used(s) EXCEPT !.kind = k].owner = Used(s).owner
          /\ [UsedNow(s) EXCEPT !.kind = k].owner = UsedNow(s).owner
    BY <1>4 DEF Descriptor
  <1>6. d.owner = kernel[sock[s].fd].owner
    BY <1>1, <1>3, <1>5, UsedFacts
  <1> QED
    BY <1>1, <1>2, <1>3, <1>6, CallSameNumbers

(* Receiving moves no number. *)
LEMMA ReceiveImplements ==
  ASSUME IInv, NEW s \in Objects, NEW size, NEW written, NEW scanned,
         Receiving(s, size, written, scanned)
  PROVE  UNCHANGED D!vars
  <1>1. s \in alive /\ UNCHANGED build
    BY DEF Receiving
  <1>2. \A t \in Objects : sock'[t].fd = sock[t].fd
    BY DEF Receiving, IInv, TypeOK, SocketRecord
  <1>3. CASE Reaches(s)
    <2>1. kernel' = [kernel EXCEPT ![sock[s].fd] = Used(s)]
      BY <1>3 DEF Receiving
    <2> QED
      BY <1>1, <1>2, <1>3, <2>1, UsedFacts, CallSameNumbers
  <1>4. CASE ~Reaches(s)
    BY <1>1, <1>2, <1>4, SameNumbers DEF Receiving
  <1> QED
    BY <1>3, <1>4

(* shutdown() moves no number on POSIX and closes it on Windows. *)
LEMMA ShutdownImplements ==
  ASSUME IInv, NEW s \in Objects, NEW how, SocketShutdown(s, how)
  PROVE  D!Next \/ UNCHANGED D!vars
  <1> DEFINE h == IF how > 2 THEN 2 ELSE how
  <1>1. s \in alive /\ UNCHANGED build
    BY DEF SocketShutdown
  <1>2. sock[s] \in SocketRecord
    BY DEF IInv, TypeOK
  <1>3. CASE ShutdownPosix(s, h)
    <2>1. \A t \in Objects : sock'[t].fd = sock[t].fd
      BY <1>3 DEF ShutdownPosix, IInv, TypeOK, SocketRecord
    <2>2. PICK shut \in Shuts(s, h) :
            kernel' = IF shut THEN [kernel EXCEPT ![sock[s].fd] = [Used(s) EXCEPT !.down = TRUE]] ELSE kernel
      BY <1>3 DEF ShutdownPosix
    <2>3. CASE shut
      <3> DEFINE d == [Used(s) EXCEPT !.down = TRUE]
      <3>1. Reaches(s)
        BY <2>3 DEF Shuts, Kind
      <3>2. Used(s) \in Descriptor /\ Used(s).owner = kernel[sock[s].fd].owner
        BY <1>1, <3>1, UsedFacts
      <3>3. d.owner = kernel[sock[s].fd].owner
        BY <3>2 DEF Descriptor
      <3>4. kernel' = [kernel EXCEPT ![sock[s].fd] = d]
        BY <2>2, <2>3
      <3> HIDE DEF d
      <3> QED
        BY <1>1, <2>1, <3>1, <3>3, <3>4, CallSameNumbers
    <2>4. CASE ~shut
      BY <1>1, <2>1, <2>2, <2>4, SameNumbers
    <2> QED
      BY <2>3, <2>4
  <1>4. CASE ShutdownMswin(s, h)
    <2> DEFINE r == [sock[s] EXCEPT !.isShutdown = h, !.fd = INVALID_SOCKET]
    <2>1. r.fd = INVALID_SOCKET
      BY <1>2 DEF SocketRecord
    <2>2. sock' = [sock EXCEPT ![s] = r] /\ kernel' = Released(s)
      BY <1>4 DEF ShutdownMswin
    <2> HIDE DEF r
    <2>3. sock'[s].fd = INVALID_SOCKET /\ \A t \in Objects \ {s} : sock'[t].fd = sock[t].fd
      BY <2>1, <2>2 DEF IInv, TypeOK
    <2> QED
      BY <1>1, <2>2, <2>3, FreesNumber DEF IInv
  <1> QED
    BY <1>3, <1>4 DEF SocketShutdown

(* close() closes the number and forgets it on Windows only. *)
LEMMA CloseImplements ==
  ASSUME IInv, NEW s \in Objects, SocketClose(s)
  PROVE  D!Next
  <1>1. UNCHANGED build /\ kernel' = Released(s)
    BY DEF SocketClose
  <1>2. CASE ClosePosix(s)
    <2>1. sock' = sock /\ build # "mswin"
      BY <1>2 DEF ClosePosix
    <2> QED
      BY <1>1, <2>1, FreesNumber DEF IInv
  <1>3. CASE CloseMswin(s)
    <2>1. sock'[s].fd = INVALID_SOCKET /\ \A t \in Objects \ {s} : sock'[t].fd = sock[t].fd
      BY <1>3 DEF CloseMswin, IInv, TypeOK, SocketRecord
    <2> QED
      BY <1>1, <2>1, FreesNumber DEF IInv
  <1> QED
    BY <1>2, <1>3 DEF SocketClose

(* The finaliser closes the number of the object it frees. *)
LEMMA CollectImplements ==
  ASSUME IInv, NEW s \in Objects, SocketGC(s)
  PROVE  D!Next
  <1>1. UNCHANGED build /\ kernel' = Released(s) /\ Blank.fd = INVALID_SOCKET
    BY DEF SocketGC, Blank, Zeroed
  <1>2. sock'[s].fd = INVALID_SOCKET /\ \A t \in Objects \ {s} : sock'[t].fd = sock[t].fd
    BY <1>1 DEF SocketGC, IInv, TypeOK
  <1> QED
    BY <1>1, <1>2, FreesNumber DEF IInv

(* What the rest of the process does happens elsewhere. *)
LEMMA OtherImplements ==
  ASSUME IInv, OtherOpen \/ OtherClose
  PROVE  D!Next
  <1>1. UNCHANGED build /\ held' = held
    BY DEF OtherOpen, OtherClose, held
  <1>2. PICK n \in Fds : /\ owners[n] \in {Nobody, Other}
                         /\ owners' = [owners EXCEPT ![n] = IF owners[n] = Other THEN Nobody ELSE Other]
    <2>1. CASE OtherOpen
      <3>1. PICK n \in Offered : kernel' = [kernel EXCEPT ![n] = Opened(Other, "file", FALSE)]
        BY <2>1 DEF OtherOpen
      <3>2. n \in Fds /\ owners[n] = Nobody /\ Opened(Other, "file", FALSE).owner = Other
        BY OfferedFree DEF owners, Opened
      <3>3. owners' = [owners EXCEPT ![n] = Other]
        BY <3>1, <3>2 DEF owners, IInv, TypeOK
      <3> QED
        BY <3>2, <3>3, OwnersAssumption
    <2>2. CASE OtherClose
      <3>1. PICK n \in Fds : kernel[n].owner = Other /\ kernel' = [kernel EXCEPT ![n] = Free]
        BY <2>2 DEF OtherClose
      <3>2. owners[n] = Other /\ Free.owner = Nobody
        BY <3>1 DEF owners, Free, Opened
      <3>3. owners' = [owners EXCEPT ![n] = Nobody]
        BY <3>1, <3>2 DEF owners, IInv, TypeOK
      <3> QED
        BY <3>2, <3>3
    <2> QED
      BY <2>1, <2>2
  <1>3. D!Elsewhere(n)
    BY <1>1, <1>2 DEF D!Elsewhere, owners, held
  <1> QED
    BY <1>1, <1>3 DEF D!Next

(* Initially every number is free and no object has one. *)
LEMMA InitImplements == Init => D!Init
  <1> SUFFICES ASSUME Init PROVE D!Init
    OBVIOUS
  <1>1. Free.owner = Nobody /\ Blank.fd = INVALID_SOCKET
    BY DEF Free, Opened, Blank, Zeroed
  <1> QED
    BY <1>1 DEF Init, D!Init

(* Every step of Socket is a step of Descriptors or a stutter. *)
LEMMA StepImplements == IInv /\ [Next]_vars => [D!Next]_D!vars
  <1> SUFFICES ASSUME IInv, [Next]_vars PROVE D!Next \/ UNCHANGED D!vars
    OBVIOUS
  <1>1. ASSUME NEW s \in Objects, SocketTCP(s) \/ SocketUDP(s) PROVE D!Next \/ UNCHANGED D!vars
    BY <1>1, CreateImplements DEF SocketTCP, SocketUDP
  <1>2. ASSUME NEW s \in Objects, NEW client \in Objects, SocketAccept(s, client) \/ SocketAcceptNow(s, client)
        PROVE  D!Next
    BY <1>2, AcceptImplements
  <1>3. ASSUME NEW s \in Objects,
               \/ SocketConnect(s) \/ SocketConnectNow(s) \/ SocketNowFails(s)
               \/ SocketListen(s) \/ SocketSend(s)
        PROVE  UNCHANGED D!vars
    BY <1>3, PlainCallImplements
  <1>4. ASSUME NEW s \in Objects, NEW size \in Sizes, SocketReceive(s, size) \/ SocketReceiveFrom(s, size)
        PROVE  UNCHANGED D!vars
    <2>1. PICK written, scanned : Receiving(s, size, written, scanned)
      BY <1>4 DEF SocketReceive, SocketReceiveFrom
    <2> QED
      BY <2>1, ReceiveImplements
  <1>5. ASSUME NEW s \in Objects, NEW how \in Hows, SocketShutdown(s, how) PROVE D!Next \/ UNCHANGED D!vars
    BY <1>5, ShutdownImplements
  <1>6. ASSUME NEW s \in Objects, SocketClose(s) \/ SocketGC(s) PROVE D!Next
    BY <1>6, CloseImplements, CollectImplements
  <1>7. CASE OtherOpen \/ OtherClose
    BY <1>7, OtherImplements
  <1>8. CASE UNCHANGED vars
    BY <1>8, SameNumbers DEF vars
  <1> QED
    BY <1>1, <1>2, <1>3, <1>4, <1>5, <1>6, <1>7, <1>8 DEF Next

(* Socket implements Descriptors: an object takes only free numbers, and   *)
(* closes only the one it remembers, which on Windows is its own.          *)
THEOREM Implements == Spec => DescriptorSpec
  BY InitImplements, StepImplements, Invariance, PTL DEF Spec, DescriptorSpec, D!Spec
=============================================================================

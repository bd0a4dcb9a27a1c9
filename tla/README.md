# Light.lua in TLA+

Light.lua is an asynchronous network, graphics and storage framework for Lua:
an event loop on one coroutine over `select()`, TCP and UDP channels, sessions
that speak raw TCP, HTTP/1.1 and WebSocket, a C++ socket module, a prototype
object system, an SQLite record layer and a view layer for LÖVE.

These modules specify its network core: the socket library with its codecs, the
event loop over it, and the sessions driven by the loop.
`PROJECT.json` maps every definition to the lines it translates; this page says
what each module covers and what its runs and theorems show. Source paths below
are relative to `src/light/`.

## 1. Inventory

| Component | State | Operations | Interacts with | What makes it correct |
|---|---|---|---|---|
| `Worker`, `worker/EventWorker` | the coroutine, `isRunning`, `channels` (io to channel and mode) | `resume`, `join`, `add`, `remove`, `handle` | calls `socket.Select`, then every ready channel's handler | no handler error ends the loop; a closed io leaves the table; output is always registered; ready input is served |
| `network/Channel`, `TCPChannel`, `UDPChannel` | io, `buffer.i`, `buffer.o` | `writeAsync`, `readNow`, `writeNow`, `onReadEvent`, `onWriteEvent`, `shutdown`, `close` | registers with the worker, calls its delegate (a session) | `onClose` once, no new event after it; bytes neither lost nor repeated |
| `TCPServerChannel` | its listening io | `acceptNow`, `onReadEvent` | makes a `TCPChannel` per connection | goes on accepting |
| `Session`, `TCPSession` | `queue` of unfinished lengths | `enqueue`, `dequeue`, `completion`, `send`, `close` | is a channel's delegate | one completion per message, when its last byte was taken |
| `HttpSession` | request and response being parsed, `isWebsocket`, `isFinished` | `onRead`, `onReadHttp`, `onReadWebSocket`, `completion`, upgrade | parses `buffer.i`, answers through its channel | one answer per request in order; closes after the last |
| `TCPServerSession`, `HttpServerSession` | table channel to session | `onAccept`, `onRead`, `onWrite`, `onClose`, `close` | delegate of the listener and of every accepted channel | an event is handed to the session of its channel; one leave per join |
| `network/Protocol` and its subclasses | parser state, `offset`, `length` | `unpack`, `pack` | called by sessions with `buffer.i` | the result does not depend on how TCP splits the bytes |
| `socket` | per object the descriptor's number, `isNonblock`, `isShutdown`, the receive buffer and its size; two implementations, POSIX and Windows | `TCP`, `UDP`, `connect`, `listen`, `accept`, `send`, `receive`, `shutdown`, `close`, `Select`, `isClosed`, the finaliser | used by channels; finalised by Lua's collector; shares the descriptor table with the rest of the process | a descriptor is closed once, by its owner, and never lost; its mode is what its object says; the buffer holds what is received |
| `base64.c`, `sha1.c` and their Lua functions | the sha1 context | `base64encode`, `base64decode`, `sha1`, `sha1hex`, `starts`, `update`, `finish` | the websocket handshake (`HttpSession.lua:71`) | the standard's result however the input is cut; nothing written past a buffer |
| `Object` | prototypes, getters, setters, method cache | `extends`, `instanceOf`, construction | every class | lookups find the nearest definition |
| `Record`, `Query`, `Device` | transaction flag, SQL | `transaction`, `save`, queries | SQLite | all or nothing |
| `graphics/*` | view tree, layers, event queue | layout, hit test, draw | LÖVE callbacks | an event reaches the topmost view under it |

Hard behaviours. There is no preemption, but there are four sources of
interleaving: the main program between two `resume()`; callbacks that the event
loop runs between reading its ready lists and using them; `onClose`, which runs
in the middle of `Channel:close()`; and the kernel, which delivers input,
breaks connections and takes only a part of what it is given. Errors are Lua
errors: one that escapes `handle()` ends the coroutine, and `Worker:resume`
ignores that it did.

## 2. Modules

Built, in this order:

| Module | What it is |
|---|---|
| `EventWorker` | the event loop, all channels' handlers, and the application's calls |
| `MCEventWorker` | its instances for TLC |
| `EventWorkerProofs` | theorems on it |
| `SendStream` | abstract: a byte stream in which messages are completed in order |
| `SessionQueue` | `Session.dequeue` as operators, used by the next and by `HttpServer` |
| `SessionSend` | detailed: `Session.queue`, `buffer.o`, partial writes, completions |
| `MCSessionQueue` | `dequeue`'s loop as the reference of its closed form |
| `SessionQueueProofs`, `SessionSendProofs` | theorems on them, the refinement of `SendStream` among them |
| `SessionLife` | abstract: what a server promises its delegate about a connection |
| `HttpServer` | detailed: the server's session table, the sessions, requests and frames, on top of what `EventWorker` guarantees |
| `MCHttpServer`, `HttpServerProofs` | its instances; theorems on it, the refinement of `SessionLife` among them |
| `Protocol` | what the parsers share: the result of `onUnpack`, `CheckNeed`, `PacketSlice` |
| `HttpProtocol`, `WebSocketProtocol` | the two parsers, the bytes of a message, and which messages they can parse |
| `Framing` | `buffer.i` and `Protocol.unpack`, in a session that goes over from one to the other |
| `MCFraming` | its instance |
| `ProtocolProofs`, `FramingProofs` | lemmas on each parser, theorems on the session |
| `Descriptors` | abstract: who owns a descriptor number, who remembers it, and which builds forget it |
| `Socket` | detailed: the userdata, the functions of `socket.cpp`, both implementations, and the kernel's table |
| `MCSocket`, `SocketProofs` | its instances; theorems on it, the refinement of `Descriptors` among them |
| `Words` | 32-bit words as the set of their bits |
| `Sha1`, `Base64` | the two C files as operators |
| `Fips180` | SHA-1 as the standard states it, the reference of `Sha1` |
| `Codec`, `MCCodec` | a text that grows by pieces and a context fed with them, the Lua functions, and what must hold of them; the instance |
| `CodecProofs` | theorems on base64 and on sha1: its rounds, context and digest are the standard's |

How they compose. `HttpServer` uses `SessionQueue`'s operators for its
responses and abstracts the event loop to what `EventWorker` guarantees when
callbacks keep to their own channel; it abstracts parsing to whole messages and
a part of one, which `Framing` justifies. `Framing` extends `HttpProtocol` and
`WebSocketProtocol`; after an upgrade it parses with the second.

`Descriptors`, `Socket` and the codecs stand beside them: `EventWorker` takes from
the socket library that a number means one connection, which is what `Socket`
proves of the Windows build and refutes of the other, and `Codec` is used by
the handshake only.

Left for later: the client session (`sendHandShake`); `Record.transaction`; the
object system; the view tree.

### EventWorker

State. `channels` is `EventWorker.channels`: an entry whose mode becomes 0 is
deleted by `remove`, so an absent entry is the empty set of modes. `co`, `pc`
and `cur` are the coroutine, where it is inside `handle()`, and whose handler
runs. `readIO` and `writeIO` are the ready lists of the round, without what was
dispatched already. `left` is the size of the `buffer.i` that a running
`onRead` was given. `closing[t]` is the stack of `Channel:close()` calls in
progress in thread t, because `onClose` is application code and may close
again. `unsent` keeps of `buffer.o` only whether it is empty: handlers look at
nothing else.

Actions. The application's calls (`Open`, `Send`, `Shutdown`, `Close`) may come
from the main program while the coroutine is suspended, or from any callback.
`Resume`, `ResumeNested`, `ResumeDead` are the cases of `Worker:resume`.
`SelectReady` and `SelectError` are `socket.Select`; `ReadGone` to `Accept` and
`AcceptError` the read loop with each outcome of each handler; `OnReadAgain`
the loop of `TCPChannel.lua:126-134`, which calls `onRead` for the rest of
`buffer.i` until nothing is left or nothing was consumed, also when the channel
was closed meanwhile; `WriteGone` to `WriteError` the write loop; `Return*` the
code after a callback; `Yield` the end of the round.

Abstractions. Ready channels are dispatched in any order: the code's order is
that of `pairs()` over the table. An `EAGAIN` is always possible. A handler's
callback may run any number of application calls. The bytes are not modelled,
and a socket is not reused after its close; reuse belongs to `Socket`. The
module is about the POSIX build: on Windows `shutdown()` closes the socket
(`socket_mswin.cpp:187`), and `readNow` and `writeNow` have no `EAGAIN`, since
they call a blocking `recv` and `send` (`:151-172`). A write to a peer that is
gone is an error; that `SIGPIPE`, which `send` is not told to suppress
(`socket_posix.cpp:159`), ends the process is not modelled.

What the application does is a parameter: `Reach` says which channels a
callback may close or shut down, `Habits` which further liberties it takes.
Sending on any channel from any callback is always allowed, as a broadcast is.

### SessionSend

State. A message is its length. `queue` is `Session.queue`, `out` the length of
`buffer.o`; `total`, `wire`, `ends` and `completed` are history and define what
the stream promises: `ends` are the offsets where unfinished messages end.
`dequeue`'s loop is written in closed form (`QueueAfter`, `CountAfter`), with
its two failures, comparing with nil and never ending, as `DequeueRaises` and
`DequeueHangs`; they are in `SessionQueue`. `FinishedClose` is the close at the
end of `completion`, which does not look whether a callback closed the channel:
the second close passes in a session by itself and raises in one of a server.
`MCSessionQueue` has the loop as written, and TLC compares the two for every
queue of up to three lengths in 1..4 and every size up to 14 (in the runs of
`MCHttpServer`, which extends it).

`Window` bounds how many unfinished messages an application lets a session
have, since what the code guarantees depends on it.

### HttpServer

State. `session` is the server's own table, `self[channel]`; `reg` the event
worker's, which different code fills and empties. `buffer` and `frag` are
`buffer.i`: whole messages, each its kind, and whether a part of one more
follows. `sent` and `speaks` are the peer's. `queue` and `out` are as in
`SessionSend`. `pc` says where the one running handler is.

Actions. `Receive` is `readNow`; `ReadGone` to `CloseFrame` are the outcomes of
one call of `onRead`, after which `Consume` makes the loop of
`TCPChannel.onReadEvent` go round again while anything is left. `WriteEvent`,
`Complete`, `CallbackReturns` and `CompletionEnd` are a write and
`HttpSession.completion`. `HandlerError` is any handler that fails and closes.
`Send`, `CloseSession` and `Stop` are the application's.

`Stop` is `TCPServerSession.close`. Its loop reads `.channel` of every field of
the server, and raises at the first that is a number or a boolean (`port` is a
number), so it closes an arbitrary part of the sessions and never the listener.
`HttpServerSession` calls a table delegate's `onJoin` and `onLeave` with a dot,
so they get the session as `self`; the model has the call, not its parameters.

`Habits` lists what else peers and delegates do, and `Patient` and `Window`
whether messages are pipelined. `Modest` is what the server copes with; the
violations show that each part of it is needed. The frames of a peer are those
that can be parsed: a masked one that is too long, on which the parser raises,
is in `Framing`, and would end the event loop here too.

### Framing, HttpProtocol, WebSocketProtocol

State. `wire` is what the peer sent and the program did not read; `buffer`,
`protocol` and `offset` are `buffer.i`, the parser object and its offset;
`delivered` are the messages given to the session, and `isWebsocket` which of
the two protocols the next one is parsed with.

Actions. `Receive` reads some of the wire; `Unpack` is one round of the loop of
`Protocol.unpack`, which calls `OnUnpack`; `Pending`, `Complete` and `Error` are
what `HttpSession.onRead` does with its result, and the loop of the channel.

`HttpProtocol` keeps the search for ends of lines as it is in the code, over
bytes of which only CR and LF matter: the text of a line is one number. The
object a session parses into holds headers before it has read any (`Preset`,
`HttpProtocol.lua:135-139`), and `Assigned` puts what is read over them, so what
is delivered is a table of headers by name, preset ones among them.
`WebSocketProtocol` has bytes as numbers, lengths in big-endian order, and one
bit per byte of payload and masking key. `MediumMax` is 65535 in the code and
smaller in the run, so that an eight-byte length occurs; `MaxArgs` is how many
values a call may take or return, some thousand in Lua: `unpackPayload` passes
the bytes of a masked payload through two calls, and raises beyond that.
`HttpMessage` and `WsMessage` say what the parsers can read at all: a request
with at least one header, whose values are single words, and a body as long as
the last `content-length`; a frame of at most 2^64 - 1 bytes. `Framing` keeps
the bytes sent, and where each message ends in them, as history.

### Socket

State. `sock[s]` is the `struct Socket` of each userdata: its number, flags and
the sizes of its buffer. `kernel[n]` is the descriptor behind a number: who
obtained it, what kind it is, its `O_NONBLOCK` flag, whether it was shut down.
`mixed` and `overrun` are history: a call made for another object reached the
descriptor; and in which ways (`Causes`) a call left the receive buffer: bytes
written where there is none, bytes written past the end, bytes read past it.
`build` says which implementation is linked; one run and one proof cover both.
`Other` is whatever else in the process opens descriptors: files, SQLite, and
the socket that `checkStart` of the Windows build makes.

Actions. One per Lua function that can change any of this. Sending is one action
for its four functions, receiving one for each of the two pairs, which differ in
how much they clear. `SocketAcceptNow`, `SocketConnectNow` and their failure,
`SocketNowFails`, set the descriptor nonblocking (`During`), call, and set it
back (`After`). They are one step, because Lua is single threaded, but the call
in it sees the mode in between: where `accept()` hands the mode down, the
accepted descriptor gets the one of `During`. A call that fails without an
effect is a stutter. `SocketGC` is the finaliser: the program may drop an object
at any time. POSIX gives the least free number (`Offered`), so that a reused
number is likely.

`isClosed` and `Select` only read, and are operators: `SelectTells` asks
`Select` about every pair of tables of open sockets and every set of ready
descriptors in every state.

What the kernel does is a parameter where systems differ: `Inherits` is the
builds for which `accept()` hands the listener's mode down (Windows, and POSIX
on macOS, not on Linux). `Scanned` is how far a received text is read as a C
string: any that fills the buffer of `receiveFrom` may have no zero byte, and
then it is read on into the last byte, which nobody cleared, and beyond. The
sizes passed to `receive` are not negative; a negative one would be converted.

### Words, Sha1, Base64, Codec

A word is the set of its one bits, so C's `&`, `|`, `^` and shifts are set
operators, and `WordSum` states when a carry reaches a bit. `Rounds` keeps what
`sha1_process` does by unrolling: the ring of 16 words and the registers that
change names instead of places. `Fips180` has the schedule of 80 words and the
registers that move; it takes the message as a whole, so its length is a number
(`LengthInBits`) where the code has two words. Their loops of 64 and 80 steps are
`Looped`, whose steps are functions: TLC evaluates what a step is given before
the step, and its stack stays shallow. `Codec.Feed` is one `sha1_update`; the
Lua functions call it once for a text, and `sha1_finish` twice more. The
invariants finish the context, and ask the Lua functions about the text, in
every state. The lengths of base64 are ints: `ToInt` is what becomes of a
`size_t` (`socket.cpp:503`, `:527`), for a largest int `IntMax`. `Encodable` and
`Decodable` are the lengths for which the code has an answer at all; for others
the size passed to `new` is negative, or the arithmetic overflows, which C
leaves undefined. `Base64` has a loop that writes groups of four
characters as the character at each place, which the place decides alone.

## 3. Runs

| Run | Instance | Shows |
|---|---|---|
| `ew_calm` | a listener and two connections; callbacks touch only their own channel, consume input in two parts and may nest `resume()` | the coroutine survives; a closed channel leaves the table; `onClose` once; after it nothing but `onRead` for the rest of the input that was read before |
| `ew_rough` | two connections; callbacks close each other, use closed channels, raise, resume from `onClose` | output of an open channel always stays registered for writing |
| `ew_live` | a listener and a connection, fair | ready input is served, output is flushed |
| `ss_one` | messages of 1, 3 and 4 bytes, one unfinished at a time, up to 10 bytes | `dequeue` returns; queue and buffer agree; the session implements `SendStream`; when the peer reads, every message is completed or the connection goes |
| `ss_pipelined` | two unfinished messages | *violated*: `dequeue` compares with nil |
| `hs_calm` | two connections, `Modest` peers and delegate: no malformed or keyless request, nothing behind a message that closes | nothing ends the event loop; both tables agree; a finished session is closed when the peer reads |
| `hs_rough` | one connection; pipelined, split, malformed and keyless input; a delegate that closes, keeps silent, answers when closed; the server is stopped | `onLeave` once; the callbacks implement `SessionLife` |
| `hs_leftover` | messages behind a CLOSE frame | *violated*: the event loop ends |
| `fr_split` | three messages out of requests, one of them malformed, and frames of lengths 0, 6, 125, 126, 127, masked or not, one of them too long; every split | delivered as sent, beside the preset headers; none held back |
| `sk_builds` | three objects, two descriptors, both builds, receive sizes 0 and 1; the Windows build hands modes down | no descriptor is lost; on Windows objects hold only their own, and streams never mix; modes are restored but for the one handed down; no buffer that exists is written past, and none is read past on Windows; `isClosed` (Windows) and `Select` tell the truth; the library implements `Descriptors` |
| `sk_reuse` | the POSIX build alone | *violated*: the finaliser of a closed socket closes another's connection |
| `cd_codecs` | texts of up to three out of six pieces; ints of eight bits | sha1 is FIPS 180-1 for every cut, before (`Absorbs`) and after it is finished, and the vectors of sha1.c hold; the bit counter is a 64-bit sum; base64 is its definition and decodes back while lengths are ints, and fits its buffers also when they wrap round; `sha1hex` gives the digits |

Bounds. `IO` is the sockets the program may ever open: two connections are
enough for one callback to disturb another's entry, buffer or close, and a
listener adds the accepted channel that registers itself in the middle of a
round. `MaxDepth` bounds nested closes; two is a close inside an `onClose`.
`notified` counts to two, which is one more than allowed. `MaxInput` is two: one
`onRead`, and one more for the rest. `MaxBytes` bounds what is sent: 10 bytes
let messages of 1, 3 and 4 bytes follow each other with every split. The
connections are symmetric in `ew_calm` and `ew_rough`; the runs of a temporal
property use no symmetry. `ew_*` never deadlock, as the main program can always
poll; `ss_*` stop when all bytes are spent or the connection is closed, `hs_*`
and `fr_*` when all peers have sent what they may.

In `hs_*`, two connections are enough for the error of one to hit the other.
`MaxMessages` lets a peer ask for an upgrade, send a frame and close;
`MaxOut` bounds what the application sends by itself. `hs_rough` has one
connection because the properties are about each
connection alone and what others do to it is in `Stop` and `HandlerError`. In
`fr_split` three messages are a request that asks for frames and two of them,
or what a message leaves to the next in the buffer or the parser, twice; reads
of one byte reach every split. `MaxArgs` is 126, so that of two masked frames
one is just short enough and one is too long.

In `sk_builds`, three objects and two numbers are the least in which a listener
keeps one number while the other goes from a closed client to a new one, or to
the rest of the process. The sizes 0 and 1 let a call come before there is a
buffer, and a later one need more than an earlier one. 3 as an argument of
`shutdown` meets its limit of 2; `sk_reuse` also has -1, which is refused. `Socket` is
symmetric in its objects and states no liveness. In `cd_codecs` the pieces have
1, 2, 54, 63 and 129 bytes: three of them reach every case of `sha1_update` (an
empty, a growing, an exactly filled and an overfull buffer, and whole blocks
from the input) and every remainder of base64, and contain bytes that are no
digit of it. `EdgeWords` are the words at which the counter carries. With
`IntMax = 127` the texts of up to 387 bytes, and their encodings, are on both
sides of every length at which an int wraps round. It stops
when the pieces are used up.

Fairness. `Polling` is the loop of the README's examples (`s:resume() --
Polling`, README.md:366 and 406): the main program resumes for ever, the
coroutine runs by itself, and `onClose` returns. `PeerReads` is needed for
flushing only and is about the kernel and the peer, not the code: the socket is
writable again and again, and then sometimes all of the rest is taken. It is
strong fairness because a socket is not writable continuously. `Progress` in
`SessionSend` says the same in one step. Callbacks return, since nothing else
can run while one of them does. `FairSpec` of `HttpServer` says that handlers
run to their end and that writes happen again and again. No fairness is assumed
of the application's calls.

## 4. Proofs

`EventWorkerProofs`. `TypeCorrect` holds for every set of sockets and every
application. `WorkerSurvivesAlways` assumes `KeepsToItself` and that callbacks
do not raise, and nothing else. `WorkerSurvives` is not inductive; `SurvivalInv`
adds that an io in `readIO` is still registered, which needs that a close in
progress in the worker is of the channel being served, that this channel is out
of `readIO`, and that nothing is closing in the main program while the coroutine
runs.

`WakeupsAreKept` assumes nothing of the application.
Its invariant `FlushInv` adds that a channel whose close is in progress is
closed already: the removal at the end of a close, or after an `ERROR`, takes
no registration that an open channel needs.

`ClosedChannelsLeave` assumes that closed channels are left alone and callbacks
do not raise (no "late", no "raise"); `ClosedOnce` and `NothingAfterClose` also
that the main program does not resume the worker inside its own close (no
"reenter"). None of the three needs `KeepsToItself`: a callback may close any
channel. What `NothingAfterClose` leaves open is the `onRead` of a handler that
was running when its channel was closed: it may be called again, with less and
less input, which is what `hs_leftover` turns on.
`RemovalInv` says that a closed channel is unregistered or on a closing stack,
and where the worker is then; `OnceInv` that `notified` is 0 exactly while a
channel was not closed.

`SessionSendProofs`. `SessionTypes` needs no assumption: `DequeueType` shows that
`dequeue` leaves a queue of lengths and a count for every queue and size for
which it returns. The rest is under `OneAtATime`: one unfinished message, of at least
one byte. `SendInv` says that then the queue is empty or holds exactly the bytes
in `buffer.o`, that `ends` is empty or the end of these bytes, and that what
was sent is what was taken plus what is buffered. From it follow
`DequeueAlwaysReturns`, `QueueAndBufferAgree` and `SessionImplementsStream`,
the refinement of `SendStream` under the mapping that counts a completion as
reported once `dequeue` has counted it. The violation `ss_pipelined` and
that of `Sizes = {0, 3}` (section 5) show that neither half of `OneAtATime` can
be dropped.

`HttpServerProofs`. `LeftOnce` needs no assumption: a session is in the table
exactly while its socket is open, and every close takes it out. Nor does
`ServerTypes`, whose `TypeInv` adds that no queued response is empty, so that
`dequeue` never divides by 0, and that a message given to the delegate stays in
the buffer until it returns. `ServerImplementsLife` assumes only that the
delegate does not close a session in `onSendCompletion`; its invariant adds that
the connection whose completions are being reported still has a session.
`ServerAlwaysSurvives` and `TablesAgree` assume `Modest`. Their invariant adds
that the input behind the message being handled is empty, so that `onRead` is
not called for a closed channel; that a response is only on its way while no
input is; and that a connection with a mode in the event worker has a session.

`SocketProofs`, for any number of objects and descriptors. `IInv` adds to the
types, `NoLeak`, `HoldsOwn` and `StreamsUnmixed` that no object is ever marked
nonblocking or given a buffer size (`Unmarked`), that an object which does not
exist has no number (`Absent`), that a descriptor which does not wait was
accepted in a build that hands the mode down (`Restored`), and `BufferHolds`,
which rests on `Unmarked`: the buffer is replaced for every size above 0.
Nothing is assumed of `Inherits` or of the sizes. `NoLeak` and `HoldsOwn` need
each other: the number a Windows object closes is its own, so nobody else's is
lost. From it follow `Types`, `NothingLeaks`, `WindowsHoldsOwn`,
`WindowsKeepsApart`, `ModeRestored`, `BufferSafe`, `ClosedTold`, and
`Implements`: a creation is a `Take` or nothing, `close`, the Windows `shutdown`
and the finaliser free the number, every other call is a stutter. The proof
needs `Absent`, since only an object without a number may take one.
`SelectIsExact` needs the types only: `Greatest` shows that the maximum passed
to `select()` is no less than any number in the three tables, and `TableFacts`
that going through a table in order finds each ready socket of it once.

`FramingProofs`, for every set of requests in `HttpMessage` and of frames in
`WsMessage`, every number of them and every set of read sizes. That hypothesis
(`MessagesParse`) is needed: section 5 has what happens to a message without a
header and to a value of several words. Nothing is assumed of the length of a
frame: after a masked one that is too long for `MaxArgs` nothing is delivered
any more, and `pc` says that the parser raised. TLC evaluates it for the messages of
the run (`MCMessages`). `Inv` says where everything is:

- the stream is the bytes of the messages sent, one after the other, each a
  frame exactly when a request before it asked for frames (`Streamed`);
- the wire is its end, and the buffer the part before that which was received
  and not dropped (`Buffered`);
- what was delivered is a first part of what was sent, and `isWebsocket` says
  whether it asks for frames (`Given`);
- the protocol object has taken in exactly the bytes of the current message from
  its first to the offset (`Parsing`), or there is no current message, and it is
  a new one (`Waiting`).

The last is the heart of it. `HttpAt(p, m, n)` and `WsAt(p, m, n)` of
`ProtocolProofs` list the states that an object may be in after n bytes of the
message m: so many that every cut is covered, so few that each determines what
is missing. `HttpStep` and `WsStep` prove that one `onUnpack` goes from one of
them to another, or completes the message, or refuses one that is not well
formed, or waits: and waits only if the message is not all there.
`HttpWithin` and `WsWithin` add that a new object is at the first byte and none
is past the last. They rest on lemmas about the encoding (which bytes are where, that an
end of line inside a body or a header is not taken for another, that `Number`
inverts `Two` and `Eight`, that `Xor` with the same key twice gives the payload
back, that the last header of each name is the one kept, which makes what is
delivered `AsDelivered(m)`). `Delivery`, `Prompt` and `TypeCorrect` follow from
`Inv`.

`CodecProofs`, for every text of bytes. `Encoding` and `Decoding` say what
`base64encode` and `base64decode` write at each place, `DigitKept` that the two
tables are inverse, `GroupDigits` and `GroupBytes` that the digits of three
bytes and the bytes of four digits are inverse; with `Stops` (decoding stops at
the first '=') they give `TextComesBack`. `GroupBits` gives `EncodingIsBits`.
Both are about texts whose lengths are ints (`FitsInt`), some 1.6 gigabytes.
`BuffersSuffice` is about every text: `Narrowed` and `Announced` say what an int
keeps of a length, so that the buffer allocated for a length that wrapped round
is compared with what the loop does with the same length. `IntAssumption` (one
less than a multiple of four) is all that is assumed of `IntMax`.
`BitsAreCounted` rests on `Overflow`, that the test `total[0] < length << 3` of
`sha1.c:208` finds the carry out of the lower word: from the highest bit at
which the sum and the summand differ upwards, the other word has the bits that
the carries have, so that the carries keep their value. `CarryIn` does the upper
word, with the carry. Both are inductions over the places of bits, by `Upward`,
which states induction for a set: the provers can use it, as it has no operator
as a parameter.

`ContextTyped` is about the whole of `sha1_update`: `FewWait` bounds what waits
in the buffer by the six bits that `sha1.c:201` takes of the counter, and
`UpdateMakes` concludes that both calls of memcpy stay within the 64 bytes of
the buffer and within the input, whatever waits and however long the input is.
That the loops over rounds and blocks make words of words rests on `Iterates`
and `Loops`: a loop whose body is a function from a set to itself leaves
something at every step, so the recursive function that describes the loop
(`Looped` of `Words`) exists, and its value is what the last step leaves.

`ContextAbsorbs` and `DigestIsWhole` are that the streaming code of `sha1.c`
computes the standard, for every text and every cut, in six stages:

- *a round*. `PlusCommutes` and `PlusAssociates`: words may be added in any
  order. So a round of the code, which adds to one register and names the others
  anew, is a step of the standard, which moves all five (`RoundIsStep`; `Named`
  is the correspondence, a rotation by the number of the round);
- *a block*. The ring holds the last 16 words of the schedule at the places the
  next round reads (`RingTurns`), so after 80 rounds the words are the same
  (`SameRounds`) and their sums too (`ProcessIsChain`);
- *blocks*. What the code and the standard do block by block is the same, and
  depends on the bytes of those blocks only (`BlocksAreChained`,
  `ChainedPrefix`), hence not on the input after them;
- *the counter*. A bit of a number is the parity of a quotient (`Halves`,
  `BitsByQuotients`), sums of numbers are sums of words (`BitsAdd`), so the two
  words count the bits modulo 2^64 (`CountsOn`), whatever the lengths;
- *an update*. `Absorbed(c, t)` says of any context c and text t what `Absorbs`
  says of the two variables; with `TypeOK` it is the inductive invariant
  (`AbsorbedOK`). `StreamsAsWhole` is not inductive: the digest of a context
  does not determine what the next update makes of it. `UpdateAbsorbs` is the
  step, with the filling of the buffer, the whole blocks and what is kept
  (`Portions`) as its cases;
- *the end*. What `sha1_finish` appends is the standard's padding and length
  (`LengthBytes`, `PaddingIs`), so it absorbs the padded message; that is whole
  blocks, and `FinishIsDigest` follows from `Absorbed` alone.

The pieces are assumed to be byte strings, not empty, whose lengths are a
`UInt32` (`PiecesAssumption`), which the parameter of `sha1_update` makes true;
the text may be longer than any `UInt32`. `HexIsTheDigest` adds that
forty digits are made from the twenty bytes, high half first (`PairsAreDigits`,
by `FlatParts`: where the parts of a flattened sequence are). The loops of `Fips180`
and of the code are recursive functions; `CompressedRuns`, `RoundsRun`,
`ScheduleMakes`, `ChainedRuns`, `BlocksRun` and `FlatRuns` get from `Loops` or
`Iterates` what each step of them leaves, and `Upward` goes along it.

Only model-checked: the two vectors (`VectorsHold`, a computation of eighty
rounds on numbers); the liveness properties; the violations; and that
`dequeue`'s loop computes its closed form (induction over a queue).

## 5. What the runs found

Each of these is a run that TLC finds violated:

1. `Session.lua:30` reads the head of the queue once per write: a write that
   spans two messages corrupts the queue, and a later one raises
   (`ss_pipelined`).
2. `TCPChannel.lua:127` calls `onRead` again after it closed the channel, and
   `TCPServerSession.lua:24` indexes the session that is gone (`hs_leftover`).
3. `socket_posix.cpp:193` keeps the number it closed, and `SocketGC` closes it
   again when it belongs to another connection (`sk_reuse`); the Windows twin
   forgets it (`socket_mswin.cpp:194-204`).

More follow from the same modules with another constant:

| Source | What happens | Property, and the change to a run |
|---|---|---|
| `EventWorker.lua:135` | the read loop indexes `channels[readIO[i]]` without the test the write loop has at line 147: a callback that closes another ready channel ends the event loop for good | `WorkerSurvives`; `ew_calm` with `Reach <- SharedReach` |
| `HttpProtocol.lua:199` | a header value is cut at its first space or colon, also `server: Light v0.1` of the library's own responses; `fr_split` has values of one word | `DeliveredAsSent`; `fr_split` with `Requests <- OwnRequests` |
| `TCPServerChannel.lua:85` | every accept error but `EAGAIN` deregisters the listener for good | `ListenerStays`; `ew_calm` |
| `Session.lua:34` | `dequeue` never ends on a head of 0 | `DequeueReturns`; `ss_one` with `Sizes = {0, 3}` |
| `HttpSession.lua:204` | a finished session is closed after any write, also of a part | `FinishedIsFlushed`; `ss_one` |
| `HttpSession.lua:205` | `completion` closes a channel that `onSendCompletion` closed; the event loop ends | `ServerSurvives`; `hs_calm` with `Habits = {"release"}` |
| `HttpSession.lua:71` | an upgrade without a key concatenates nil; the event loop ends | `ServerSurvives`; `hs_calm` with `Habits = {"keyless"}` |
| `HttpSession.lua:180` | a response to a request during which the delegate closed the session registers a dead channel | `RegisteredHaveSession`; `hs_calm` with `Habits = {"close", "answer"}` |
| `HttpProtocol.lua:96` | an empty line right after the start line is not seen | `NothingHeldBack`; `fr_split` with `Requests <- BareRequests` |
| `HttpProtocol.lua:135` | a request is parsed over preset headers: one without `connection` is delivered with `keep-alive`, so the default `close` of `HttpSession.lua:121` is never reached, and one without `host` has the session's own | `OnlySentHeaders`; `fr_split` |
| `WebSocketProtocol.lua:255` | the bytes of a masked frame go through calls that take some thousand values: a longer one raises and ends the event loop | `ParserSurvives`; `fr_split` |
| `socket.cpp:170` | `receive(0)` on a new object clears a byte of a buffer that was never allocated | `StaysInside`; `sk_builds` |
| `socket.cpp:237` | `receiveFrom` leaves the last byte of the buffer uninitialised and pushes a C string: a read that fills the buffer is read on into it and beyond | `StaysInside`; `sk_builds` with `Sizes = {1}` |
| `socket_posix.cpp:113` | where `accept()` hands the mode down, a socket from `acceptNow` stays nonblocking and a blocking read on it does not wait | `WaitsAsMarked`; `sk_builds` |
| `socket.cpp:469` | on POSIX `isClosed()` is true for an open socket and false for a closed one | `IsClosedTells` without its condition on the build |
| `socket.cpp:134` | an accepted socket says it was shut down (`isShutdown` 0 instead of -1) | `ShutdownTold`; `sk_builds` |
| `socket.cpp:567` | `sha1()` cuts a digest at its first zero byte, about one in thirteen, and the handshake of `HttpSession.lua:71` answers with the rest | `DigestWhole`; `cd_codecs` |

## 6. Not modelled

The blocking calls (`read`, `write`, `accept`, `Worker:join`) change no state of
the event loop beyond what the asynchronous ones do. Log output, vectors, font
and image drawing have no state worth a model, and `error_number.cpp` is a
generated table. `Record` is text handed to SQLite; `Object` and the views are
outside the network library. `UDPServerChannel` adds no step to `UDPChannel`.

Of the socket library, addresses are left out. What was seen there while
reading, without a model: `getAddress` on POSIX formats the wrong bytes
(`socket_posix.cpp:51`); `receiveFrom` passes an `int` for a `socklen_t`,
`sendTo` sends to an address that was never filled in, and both do nothing on
Windows and return 0; `readNow` and `writeNow` block on Windows; `send` may
raise `SIGPIPE` on POSIX; `Select` without a timeout passes a negative one; the
result of `close` is dropped; a number of `FD_SETSIZE` or more overflows the set
(`socket_posix.cpp:246`).

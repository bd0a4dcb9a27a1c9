---------------------------- MODULE HttpProtocol ----------------------------
(***************************************************************************)
(* HttpProtocol (light/network/protocol/HttpProtocol.lua) as a parser for  *)
(* Framing.                                                                *)
(*                                                                         *)
(* A byte is a number.  The text of a whole line is one number above that  *)
(* of any byte: text is only searched for the end of the line.             *)
(***************************************************************************)
EXTENDS Protocol, FiniteSets, FiniteSetsExt, Functions

CR == 13
LF == 10

Start     == 1000       \* a start line
Bad       == 1001       \* a start line of fewer than three words
Field     == 1002       \* a header whose value is a word
Words     == 1003       \* a header whose value has a space or a colon
UpgradeTo == 1004       \* the header that asks for frames
ToClose   == 1005       \* "connection: close"
KeepAlive == 1006       \* "connection: keep-alive"
OwnHost   == 1007       \* "host" with the host and port of the session
OwnAgent  == 1008       \* "user-agent: Light v0.1"
Length(n) == 2000 + n   \* the header "content-length: n"
IsLength(text) == text >= 2000

(* The name of a header, in lower case, for the names told apart.  The     *)
(* content-length is kept in a field of its own.                           *)
Names == {"host", "user-agent", "connection", "upgrade", "other"}

NameOf(text) ==
  CASE text = OwnHost                -> "host"
    [] text = OwnAgent               -> "user-agent"
    [] text \in {ToClose, KeepAlive} -> "connection"
    [] text = UpgradeTo              -> "upgrade"
    [] IsLength(text)                -> "content-length"
    [] OTHER                         -> "other"

Absent == 0             \* headers[name] is nil

NoLength == -1          \* headers['content-length'] is nil

(* A message: its start line, the lines of its headers and its body.       *)
Line(text) == <<text, CR, LF>>

Lines(fields) ==
  [i \in 1 .. 3 * Len(fields) |->
     IF i % 3 = 1 THEN fields[(i + 2) \div 3] ELSE IF i % 3 = 2 THEN CR ELSE LF]

HttpEncoded(m) == Line(m.start) \o Lines(m.fields) \o <<CR, LF>> \o m.body

HttpWellFormed(m) == m.start # Bad

HttpUpgrades(m) == UpgradeTo \in Range(m.fields)

(* What the session is given: the table of headers, not their lines.       *)
HttpDecoded(p) == [start |-> p.start, headers |-> p.headers, body |-> p.content]

(* onPack always sets the content-length.                                  *)
Packed(fields, body) ==
  [start |-> Start, fields |-> fields \o <<Length(Len(body))>>, body |-> body]

-----------------------------------------------------------------------------
(* HttpProtocol:new, for the request a session parses into: it is made     *)
(* with a host, and holds the headers of one it would send itself.         *)
Preset ==
  [name \in Names |->
     CASE name = "host"       -> OwnHost
       [] name = "user-agent" -> OwnAgent
       [] name = "connection" -> KeepAlive
       [] OTHER               -> Absent]

NewHttp ==
  [state |-> "head", start |-> Start, headers |-> Preset, length |-> NoLength,
   content |-> <<>>]

(* Ends of lines that PopSplit can find: it searches from the byte after   *)
(* the one it is given.                                                    *)
Ends(source, offset) ==
  {i \in offset + 1 .. Len(source) - 1 : source[i] = CR /\ source[i + 1] = LF}

(* A start line has three words.                                           *)
UnpackHead(p, source, offset) ==
  LET ends == Ends(source, offset)
      next == Min(ends) + 2
      line == SubSeq(source, offset, Min(ends) - 1)
  IN  IF ends = {} THEN Result("pending", p, offset)
      ELSE IF Start \notin Range(line) THEN Result("error", p, next)
      ELSE Result("continue", [p EXCEPT !.state = "headers"], next)

(* The headers end with an empty line, which is an end of line right after *)
(* another one that PopSplit found.                                        *)
EmptyLines(source, offset) ==
  {e \in Ends(source, offset) : e - 2 \in Ends(source, offset)}

(* unpackHeader: the lines up to the empty one.                            *)
HeaderLines(source, offset, last) ==
  LET ends     == {e \in Ends(source, offset) : e < last}
      end(i)   == CHOOSE e \in ends : Cardinality({f \in ends : f <= e}) = i
      start(i) == IF i = 1 THEN offset ELSE end(i - 1) + 2
  IN  [i \in 1 .. Cardinality(ends) |-> SubSeq(source, start(i), end(i) - 1)]

(* A line is split at spaces and colons and the second piece is the value: *)
(* of several words the first is kept.                                     *)
Kept(line) == IF line[1] = Words THEN Field ELSE line[1]

AtName(fields, name) == {i \in DOMAIN fields : NameOf(fields[i]) = name}

(* Mutant: the first of a name stays.                                      *)
BugAssigned(headers, fields) ==
  [name \in Names |->
     IF AtName(fields, name) = {} THEN headers[name]
     ELSE fields[Min(AtName(fields, name))]]

(* unpackHeader assigns the lines one after the other: the last of a name  *)
(* stays, and a name no line has keeps what the object was made with.      *)
Assigned(headers, fields) ==
  [name \in Names |->
     IF AtName(fields, name) = {} THEN headers[name]
     ELSE fields[Max(AtName(fields, name))]]

(* The last one wins.                                                      *)
ContentLength(lines) ==
  LET numbers == {i \in DOMAIN lines : IsLength(lines[i][1])}
  IN  IF numbers = {} THEN NoLength ELSE lines[Max(numbers)][1] - Length(0)

UnpackHeaders(p, source, offset) ==
  LET empty == EmptyLines(source, offset)
      last  == Min(empty)
      lines == HeaderLines(source, offset, last)
      n     == ContentLength(lines)
      kept  == [i \in DOMAIN lines |-> Kept(lines[i])]
      q     == [p EXCEPT !.headers = Assigned(p.headers, kept),
                         !.length = n,
                         !.state = IF n = NoLength THEN "head" ELSE "content"]
  IN  IF empty = {} THEN Result("pending", p, offset)
      ELSE Result(IF n = NoLength THEN "complete" ELSE "continue", q, last + 2)

UnpackContent(p, source, offset) ==
  IF ~CheckNeed(source, offset, p.length) THEN Result("pending", p, offset)
  ELSE Result("complete",
              [p EXCEPT !.content = PacketSlice(source, offset, p.length),
                        !.state = "head"],
              offset + p.length)

HttpOnUnpack(p, source, offset) ==
  CASE p.state = "head"    -> UnpackHead(p, source, offset)
    [] p.state = "headers" -> UnpackHeaders(p, source, offset)
    [] p.state = "content" -> UnpackContent(p, source, offset)

-----------------------------------------------------------------------------
(* The requests it can parse: with a header at least, whose values are     *)
(* words, and a body as long as the last content-length says.              *)
Texts == {Field, UpgradeTo, ToClose, KeepAlive, OwnHost, OwnAgent} \cup
           {text \in Nat : IsLength(text)}

OneEach(fields) == [i \in 1 .. Len(fields) |-> <<fields[i]>>]

Announced(m) == ContentLength(OneEach(m.fields))

HttpMessage ==
  {m \in [start : {Start, Bad}, fields : Seq(Texts), body : Seq(Nat)] :
     /\ Len(m.fields) > 0
     /\ Len(m.body) = IF Announced(m) = NoLength THEN 0 ELSE Announced(m)}
=============================================================================

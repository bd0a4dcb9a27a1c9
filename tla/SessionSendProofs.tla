-------------------------- MODULE SessionSendProofs --------------------------
(***************************************************************************)
(* A session with at most one unfinished message, and no empty messages,   *)
(* keeps the promise of SendStream, whatever the lengths and however the   *)
(* kernel splits them.                                                     *)
(***************************************************************************)
EXTENDS SessionSend, SessionQueueProofs, FiniteSetTheorems

(* One message at a time: the queue has the length of what is left of it.  *)
SendInv ==
  /\ total = wire + out
  /\ \/ queue = <<>> /\ out = 0 /\ ends = {}
     \/ queue = <<out>> /\ out > 0 /\ ends = {total}
  /\ pc \in {"idle", "completion", "callback", "raised"}
  /\ pc = "idle" => count = 0

-----------------------------------------------------------------------------
LEMMA SendTypeInit == Init => TypeOK
<1> SUFFICES ASSUME Init PROVE TypeOK
  OBVIOUS
<1>1. queue \in Seq(Nat)
  BY DEF Init
<1>2. /\ out \in Nat /\ count \in Nat
      /\ total \in Nat /\ wire \in Nat /\ completed \in Nat
      /\ ends \in SUBSET Nat
  BY DEF Init
<1>3. /\ writing \in BOOLEAN /\ isFinished \in BOOLEAN
      /\ sock = "open" /\ pc = "idle"
  BY DEF Init
<1>4. QED
  BY <1>1, <1>2, <1>3 DEF TypeOK

LEMMA SendInvInit == Init => SendInv
BY DEF Init, SendInv

(* The application sends only when nothing is unfinished.                  *)
LEMMA TransmitKeeps ==
  ASSUME TypeOK, SendInv, Window = 1, NEW n \in Nat \ {0}, Transmit(n)
  PROVE  /\ out' > 0 /\ queue' = <<out'>> /\ ends' = {total'}
         /\ total' = wire' + out'
         /\ out' \in Nat /\ total' \in Nat /\ wire' = wire /\ writing' \in BOOLEAN
         /\ completed' = completed
<1>1. ends = {} /\ queue = <<>> /\ out = 0
  <2>1. Cardinality(ends) < 1
    BY DEF Transmit
  <2>2. Cardinality({total}) = 1
    BY FS_Singleton
  <2>3. ends # {total}
    BY <2>1, <2>2
  <2>4. QED
    BY <2>3 DEF SendInv
<1>2. Append(<<>>, n) = <<n>>
  OBVIOUS
<1>3. QED
  BY <1>1, <1>2 DEF Transmit, TypeOK, SendInv

(* The kernel takes a part of the one message, all of it, or nothing of no *)
(* message; dequeue finds out which.                                       *)
LEMMA WriteKeeps ==
  ASSUME TypeOK, SendInv, NEW k \in Nat, WriteEvent(k)
  PROVE  /\ pc = "idle" /\ count = 0 /\ pc' = "completion"
         /\ out' = out - k /\ wire' = wire + k /\ total' = total
         /\ k \in 0 .. out /\ (k = 0 => out = 0)
         /\ \/ out' = 0 /\ queue' = <<>> /\ ends' = {}
            \/ out' > 0 /\ queue' = <<out'>> /\ ends' = {total}
         /\ count' = IF k > 0 /\ k = out THEN 1 ELSE 0
<1>1. /\ pc = "idle" /\ count = 0 /\ k \in 0 .. out /\ (k = 0 => out = 0)
      /\ out' = out - k /\ wire' = wire + k /\ total' = total
      /\ ends' = {e \in ends : e > wire'}
      /\ total \in Nat /\ wire \in Nat /\ out \in Nat /\ total = wire + out
  BY DEF WriteEvent, SendInv, TypeOK
<1>2. CASE k = 0
  <2>1. queue = <<>> /\ out = 0 /\ ends = {}
    BY <1>1, <1>2 DEF SendInv
  <2>2. ~DequeueRaises(queue, k) /\ ~DequeueHangs(queue, k)
    BY <1>2 DEF DequeueRaises, DequeueHangs
  <2>3. queue' = <<>> /\ count' = 0 /\ pc' = "completion"
    BY <1>2, <2>1, <2>2 DEF WriteEvent, QueueAfter, CountAfter
  <2>4. QED
    BY <1>1, <1>2, <2>1, <2>3
<1>3. CASE k > 0
  <2>1. queue = <<out>> /\ ends = {total} /\ out \in Nat \ {0} /\ k \in 1 .. out
    BY <1>1, <1>3 DEF SendInv
  <2>2. /\ pc' = "completion"
        /\ queue' = QueueAfter(<<out>>, k)
        /\ count' = CountAfter(<<out>>, k)
    BY <2>1, DequeueOne DEF WriteEvent
  <2>3. CASE k < out
    <3>1. queue' = <<out - k>> /\ count' = 0
      BY <2>1, <2>2, <2>3, DequeueOne
    <3>2. ends' = {total}
      BY <1>1, <2>1, <2>3
    <3>3. QED
      BY <1>1, <1>3, <2>1, <2>2, <2>3, <3>1, <3>2
  <2>4. CASE k = out
    <3>1. queue' = <<>> /\ count' = 1
      BY <2>1, <2>2, <2>4, DequeueOne
    <3>2. ends' = {}
      BY <1>1, <2>1, <2>4
    <3>3. QED
      BY <1>1, <1>3, <2>1, <2>2, <2>4, <3>1, <3>2
  <2>5. QED
    BY <2>1, <2>3, <2>4
<1>4. QED
  BY <1>2, <1>3

LEMMA SendNext ==
  ASSUME TypeOK, SendInv, Window = 1, 0 \notin Sizes, [Next]_vars
  PROVE  TypeOK' /\ SendInv'
<1> USE DEF history
<1>1. \A n \in Sizes : n \in Nat \ {0}
  BY SendAssumption
<1>2. \A m \in Nat : <<m>> \in Seq(Nat)
  OBVIOUS
<1>3. <<>> \in Seq(Nat)
  OBVIOUS
<1>4. ASSUME NEW n \in Sizes, Send(n) PROVE TypeOK' /\ SendInv'
  <2>1. Transmit(n)
    BY <1>4 DEF Send
  <2>2. QED
    BY <1>1, <1>2, <1>4, <2>1, TransmitKeeps DEF Send, TypeOK, SendInv
<1>5. ASSUME NEW n \in Sizes, Respond(n) PROVE TypeOK' /\ SendInv'
  <2>1. CASE Transmit(n)
    BY <1>1, <1>2, <1>5, <2>1, TransmitKeeps DEF Respond, TypeOK, SendInv
  <2>2. CASE UNCHANGED <<queue, out, writing, history>>
    BY <1>5, <2>2 DEF Respond, TypeOK, SendInv
  <2>3. QED
    BY <1>5, <2>1, <2>2 DEF Respond
<1>6. CASE Close
  BY <1>6 DEF Close, TypeOK, SendInv
<1>7. ASSUME NEW k \in 0 .. MaxBytes, WriteEvent(k) PROVE TypeOK' /\ SendInv'
  <2>1. k \in Nat
    BY SendAssumption
  <2>2. SendInv'
    BY <2>1, <1>7, WriteKeeps DEF SendInv, TypeOK
  <2>3. UNCHANGED <<writing, isFinished, sock, total, completed>>
    BY <1>7 DEF WriteEvent
  <2>4. /\ out' \in Nat /\ wire' \in Nat /\ total' \in Nat
        /\ count' \in Nat /\ pc' = "completion"
    BY <1>7, <2>1, WriteKeeps DEF TypeOK
  <2>5. queue' \in Seq(Nat) /\ ends' \in SUBSET Nat
    <3>1. CASE queue' = <<>> /\ ends' = {}
      BY <1>3, <3>1
    <3>2. CASE queue' = <<out'>> /\ ends' = {total}
      BY <1>2, <2>4, <3>2 DEF TypeOK
    <3>3. QED
      BY <1>7, <2>1, <3>1, <3>2, WriteKeeps
  <2>6. QED
    BY <2>2, <2>3, <2>4, <2>5 DEF TypeOK
<1>8. CASE WriteError
  BY <1>8 DEF WriteError, TypeOK, SendInv
<1>9. CASE Complete
  BY <1>9 DEF Complete, TypeOK, SendInv
<1>10. CASE CallbackReturns
  BY <1>10 DEF CallbackReturns, TypeOK, SendInv
<1>11. CASE CompletionEnd
  <2>1. writing' \in BOOLEAN
    BY <1>11 DEF CompletionEnd
  <2>2. /\ sock' \in {"open", "closed", "failed", "finished"}
        /\ pc' \in {"idle", "raised"}
    BY <1>11 DEF CompletionEnd, FinishedClose, TypeOK
  <2>3. QED
    BY <1>11, <2>1, <2>2 DEF CompletionEnd, TypeOK, SendInv
<1>12. CASE UNCHANGED vars
  BY <1>12 DEF vars, local, TypeOK, SendInv
<1>13. QED
  BY <1>4, <1>5, <1>6, <1>7, <1>8, <1>9, <1>10, <1>11, <1>12 DEF Next

(* The discipline under which a session works: request and response, with  *)
(* no empty message.                                                       *)
OneAtATime == Window = 1 /\ 0 \notin Sizes

LEMMA SendAlways ==
  ASSUME OneAtATime
  PROVE  Spec => [](TypeOK /\ SendInv)
<1>1. (TypeOK /\ SendInv) /\ [Next]_vars => (TypeOK /\ SendInv)'
  BY SendNext DEF OneAtATime
<1>2. Init => TypeOK /\ SendInv
  BY SendTypeInit, SendInvInit
<1>3. QED
  BY <1>1, <1>2, PTL DEF Spec

(* Session.dequeue never compares with nil and never loops for ever.       *)
THEOREM DequeueAlwaysReturns ==
  ASSUME OneAtATime
  PROVE  Spec => []DequeueReturns
<1>1. SendInv => DequeueReturns
  BY DEF SendInv, DequeueReturns
<1>2. QED
  BY <1>1, SendAlways, PTL

(* Session.queue and the channel's output buffer never drift apart.        *)
THEOREM QueueAndBufferAgree ==
  ASSUME OneAtATime
  PROVE  Spec => []QueueMatchesBuffer
<1>1. TypeOK /\ SendInv => QueueMatchesBuffer
  <2> SUFFICES ASSUME TypeOK, SendInv PROVE QueueMatchesBuffer
    OBVIOUS
  <2>1. \A n \in Nat : <<n>> # <<>> /\ Len(<<n>>) = 1 /\ <<n>>[1] = n
    OBVIOUS
  <2>2. Len(<<>>) = 0
    OBVIOUS
  <2>3. QED
    BY <2>1, <2>2 DEF SendInv, QueueMatchesBuffer, TypeOK
<1>2. QED
  BY <1>1, SendAlways, PTL

-----------------------------------------------------------------------------
(* The stream's Cardinality is the one of FiniteSets.                      *)
LEMMA SameCardinality ==
  ASSUME NEW S PROVE Stream!Cardinality(S) = Cardinality(S)
BY DEF Stream!Cardinality, Cardinality

(* Every step of the session is a step of the stream it promises, or none. *)
LEMMA StreamStep ==
  ASSUME TypeOK, SendInv, Window = 1, 0 \notin Sizes, [Next]_vars
  PROVE  [Stream!Next]_(Stream!vars)
<1> USE DEF history, Stream!vars
<1>1. \A n \in Sizes : n \in Nat \ {0}
  BY SendAssumption
<1>2. ASSUME NEW n \in Sizes, Transmit(n), UNCHANGED <<sock, count>>
      PROVE  Stream!Next
  <2>1. Stream!Submit(n)
    BY <1>2 DEF Transmit, Stream!Submit
  <2>2. QED
    BY <2>1 DEF Stream!Next
<1>3. ASSUME NEW n \in Sizes, Send(n) \/ Respond(n)
      PROVE  [Stream!Next]_(Stream!vars)
  BY <1>2, <1>3 DEF Send, Respond
<1>4. CASE Close \/ WriteError
  <2>1. Stream!Close
    BY <1>4 DEF Close, WriteError, Stream!Close
  <2>2. QED
    BY <2>1 DEF Stream!Next
<1>5. ASSUME NEW k \in 0 .. MaxBytes, WriteEvent(k)
      PROVE  [Stream!Next]_(Stream!vars)
  <2>1. k \in Nat
    BY SendAssumption
  <2>2. /\ sock = "open" /\ sock' = sock /\ completed' = completed
        /\ ends' = {e \in ends : e > wire'}
    BY <1>5 DEF WriteEvent
  <2>3. CASE k = 0
    <3>1. /\ out = 0 /\ out' = out - k /\ wire' = wire + k
          /\ total' = total /\ count' = 0 /\ count = 0
      BY <1>5, <2>1, <2>3, WriteKeeps
    <3>2. ends = {}
      BY <3>1 DEF SendInv
    <3>3. ends' = ends /\ wire' = wire /\ total' = total /\ count' = count
      BY <2>2, <2>3, <3>1, <3>2 DEF TypeOK
    <3>4. QED
      BY <2>2, <3>3
  <2>4. CASE k > 0
    <3>1. count' = Cardinality(ends \ ends') /\ count = 0
      <4>1. CASE k = out
        <5>1. ends = {total} /\ ends' = {} /\ count' = 1 /\ count = 0
          BY <1>5, <2>1, <2>4, <4>1, WriteKeeps DEF SendInv, TypeOK
        <5>2. ends \ ends' = {total}
          BY <5>1
        <5>3. QED
          BY <5>1, <5>2, FS_Singleton
      <4>2. CASE k # out
        <5>1. /\ k < out /\ out' = out - k /\ count' = 0 /\ count = 0
          BY <1>5, <2>1, <2>4, <4>2, WriteKeeps DEF TypeOK
        <5>2. out > 0 /\ out' > 0
          BY <2>1, <5>1 DEF TypeOK
        <5>3. ends = {total}
          BY <5>2 DEF SendInv
        <5>4. ends' = {total}
          BY <1>5, <2>1, <5>2, WriteKeeps
        <5>5. ends \ ends' = {}
          BY <5>3, <5>4
        <5>6. QED
          BY <5>1, <5>5, FS_EmptySet
      <4>3. QED
        BY <4>1, <4>2
    <3>2. wire + k <= total /\ wire' = wire + k /\ total' = total
      BY <1>5, <2>1, WriteKeeps DEF SendInv, TypeOK
    <3>3. completed' + count' = completed + count + Cardinality(ends \ ends')
      <4>1. count' \in Nat
        BY <1>5, <2>1, WriteKeeps
      <4>2. QED
        BY <2>2, <3>1, <4>1 DEF TypeOK
    <3>4. Stream!Flush(k)
      <4>1. UNCHANGED <<total, sock = "open">>
        BY <2>2, <3>2
      <4>2. (completed + count)' = completed + count + Cardinality(ends \ ends')
        BY <3>3
      <4>3. QED
        BY <2>2, <3>2, <4>1, <4>2, SameCardinality DEF Stream!Flush
    <3>5. k \in 1 .. MaxBytes
      BY <2>4, SendAssumption
    <3>6. QED
      BY <3>4, <3>5 DEF Stream!Next
  <2>5. QED
    BY <2>1, <2>3, <2>4
<1>6. CASE Complete
  BY <1>6 DEF Complete, TypeOK
<1>7. CASE CallbackReturns
  BY <1>7 DEF CallbackReturns
<1>8. CASE CompletionEnd
  <2>1. CASE isFinished /\ sock = "open"
    <3>1. Stream!Close
      BY <1>8, <2>1 DEF CompletionEnd, FinishedClose, Stream!Close
    <3>2. QED
      BY <3>1 DEF Stream!Next
  <2>2. CASE ~(isFinished /\ sock = "open")
    BY <1>8, <2>2 DEF CompletionEnd, FinishedClose
  <2>3. QED
    BY <2>1, <2>2
<1>9. CASE UNCHANGED vars
  BY <1>9 DEF vars, local
<1>10. QED
  BY <1>3, <1>4, <1>5, <1>6, <1>7, <1>8, <1>9 DEF Next

(* A session refines the stream: each message is reported exactly once,    *)
(* and as soon as its last byte was taken, for messages of any length.     *)
THEOREM SessionImplementsStream ==
  ASSUME OneAtATime
  PROVE  Spec => StreamSpec
<1>1. Init => Stream!Init
  BY DEF Init, Stream!Init
<1>2. TypeOK /\ SendInv /\ [Next]_vars => [Stream!Next]_(Stream!vars)
  BY StreamStep DEF OneAtATime
<1>3. QED
  BY <1>1, <1>2, SendAlways, PTL DEF Spec, StreamSpec, Stream!Spec

-----------------------------------------------------------------------------
(* The types, for all lengths and any number of unfinished messages.       *)
LEMMA TypesNext == TypeOK /\ [Next]_vars => TypeOK'
<1> SUFFICES ASSUME TypeOK, [Next]_vars PROVE TypeOK'
  OBVIOUS
<1> USE DEF local, history
<1>1. ASSUME NEW n \in Sizes, Transmit(n)
      PROVE  /\ queue' \in Seq(Nat) /\ out' \in Nat /\ writing' \in BOOLEAN
             /\ total' \in Nat /\ wire' \in Nat /\ completed' \in Nat
             /\ ends' \in SUBSET Nat
  <2>1. n \in Nat
    BY SendAssumption
  <2>2. QED
    BY <1>1, <2>1 DEF Transmit, TypeOK
<1>2. ASSUME NEW n \in Sizes, Send(n) \/ Respond(n) PROVE TypeOK'
  BY <1>1, <1>2 DEF Send, Respond, TypeOK
<1>3. ASSUME NEW k \in 0 .. MaxBytes, WriteEvent(k) PROVE TypeOK'
  <2>1. k \in Nat
    BY SendAssumption
  <2>2. /\ pc' \in {"idle", "completion", "callback", "dead", "hung", "raised"}
        /\ queue' \in Seq(Nat) /\ count' \in Nat
    <3>1. CASE DequeueRaises(queue, k) \/ DequeueHangs(queue, k)
      BY <1>3, <3>1 DEF WriteEvent, TypeOK
    <3>2. CASE ~DequeueRaises(queue, k) /\ ~DequeueHangs(queue, k)
      <4>1. /\ pc' = "completion"
            /\ queue' = QueueAfter(queue, k) /\ count' = CountAfter(queue, k)
        BY <1>3, <3>2 DEF WriteEvent
      <4>2. queue \in Seq(Nat)
        BY DEF TypeOK
      <4>3. QueueAfter(queue, k) \in Seq(Nat) /\ CountAfter(queue, k) \in Nat
        BY <2>1, <3>2, <4>2, DequeueType
      <4>4. QED
        BY <4>1, <4>3
    <3>3. QED
      BY <3>1, <3>2
  <2>3. /\ k <= out /\ out' = out - k /\ wire' = wire + k
        /\ ends' = {e \in ends : e > wire'}
        /\ UNCHANGED <<writing, isFinished, sock, total, completed>>
    BY <1>3 DEF WriteEvent
  <2>4. out' \in Nat /\ wire' \in Nat /\ ends' \in SUBSET Nat
    <3>1. out \in Nat /\ wire \in Nat
      BY DEF TypeOK
    <3>2. out - k \in Nat /\ wire + k \in Nat
      BY <2>1, <2>3, <3>1
    <3>3. ends' \subseteq ends
      BY <2>3
    <3>4. QED
      BY <2>3, <3>2, <3>3 DEF TypeOK
  <2>5. total' \in Nat /\ completed' \in Nat
    BY <2>3 DEF TypeOK
  <2>6. /\ writing' \in BOOLEAN /\ isFinished' \in BOOLEAN
        /\ sock' \in {"open", "closed", "failed", "finished"}
    BY <2>3 DEF TypeOK
  <2>7. QED
    BY <2>2, <2>4, <2>5, <2>6 DEF TypeOK
<1>4. CASE Close \/ WriteError
  BY <1>4 DEF Close, WriteError, TypeOK
<1>5. CASE Complete \/ CallbackReturns
  <2>1. count' \in Nat /\ completed' \in Nat
    BY <1>5 DEF Complete, CallbackReturns, TypeOK
  <2>2. pc' \in {"completion", "callback"}
    BY <1>5 DEF Complete, CallbackReturns
  <2>3. UNCHANGED <<queue, out, writing, isFinished, sock, total, wire, ends>>
    BY <1>5 DEF Complete, CallbackReturns
  <2>4. QED
    BY <2>1, <2>2, <2>3 DEF TypeOK
<1>6. CASE CompletionEnd
  <2>1. writing' \in BOOLEAN
    BY <1>6 DEF CompletionEnd
  <2>2. /\ sock' \in {"open", "closed", "failed", "finished"}
        /\ pc' \in {"idle", "raised"}
    BY <1>6 DEF CompletionEnd, FinishedClose, TypeOK
  <2>3. QED
    BY <1>6, <2>1, <2>2 DEF CompletionEnd, TypeOK
<1>7. CASE UNCHANGED vars
  BY <1>7 DEF vars, TypeOK
<1>8. QED
  BY <1>2, <1>3, <1>4, <1>5, <1>6, <1>7 DEF Next

(* Pipelined or not, and with empty messages too, the session's variables  *)
(* keep their types: dequeue may end the loop, but what it computes when   *)
(* it returns is a queue and a count.                                      *)
THEOREM SessionTypes == Spec => []TypeOK
BY SendTypeInit, TypesNext, PTL DEF Spec
=============================================================================

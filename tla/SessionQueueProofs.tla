------------------------- MODULE SessionQueueProofs -------------------------
(***************************************************************************)
(* What Session.dequeue does to a queue of one message.                    *)
(***************************************************************************)
EXTENDS SessionQueue, TLAPS, SequenceTheorems

LEMMA DivisionByMore ==
  ASSUME NEW t \in Nat \ {0}, NEW k \in 0 .. t
  PROVE  /\ k < t => k \div t = 0 /\ k % t = k
         /\ t \div t = 1 /\ t % t = 0
OBVIOUS

(* It shortens the message by what was written, or drops and counts it.    *)
LEMMA DequeueOne ==
  ASSUME NEW n \in Nat \ {0}, NEW k \in 1 .. n
  PROVE  /\ ~DequeueRaises(<<n>>, k) /\ ~DequeueHangs(<<n>>, k)
         /\ k < n => QueueAfter(<<n>>, k) = <<n - k>> /\ CountAfter(<<n>>, k) = 0
         /\ k = n => QueueAfter(<<n>>, k) = <<>> /\ CountAfter(<<n>>, k) = 1
<1>1. ~DequeueRaises(<<n>>, k) /\ ~DequeueHangs(<<n>>, k)
  BY DEF DequeueRaises, DequeueHangs, Top
<1>2. CASE k < n
  <2>1. k \div n = 0 /\ k % n = k
    BY <1>2, DivisionByMore
  <2>2. Removed(<<n>>, k) = <<n>>
    <3>1. Removed(<<n>>, k) = SubSeq(<<n>>, 1, 1)
      BY <2>1 DEF Removed, Top
    <3>2. SubSeq(<<n>>, 1, 1) = <<n>>
      <4> DEFINE s == SubSeq(<<n>>, 1, 1)
      <4>1. \A i \in 1 .. 1 : <<n>>[i] \in Nat
        OBVIOUS
      <4>2. /\ s \in Seq(Nat) /\ Len(s) = 1
            /\ \A i \in 1 .. 1 : s[i] = <<n>>[i]
        <5> HIDE DEF s
        <5>1. /\ s \in Seq(Nat)
              /\ Len(s) = IF 1 <= 1 THEN 1 - 1 + 1 ELSE 0
              /\ \A i \in 1 .. 1 - 1 + 1 : s[i] = <<n>>[1 + i - 1]
          BY <4>1, SubSeqProperties DEF s
        <5>2. QED
          BY <5>1
      <4>3. <<n>> \in Seq(Nat) /\ Len(<<n>>) = 1
        OBVIOUS
      <4> HIDE DEF s
      <4>4. s = <<n>>
        BY <4>2, <4>3, SeqEqual
      <4>5. QED
        BY <4>4 DEF s
    <3>3. QED
      BY <3>1, <3>2
  <2>3. SetHead(<<n>>, n - k) = <<n - k>>
    <3>1. SubSeq(<<n>>, 2, Len(<<n>>)) = <<>>
      OBVIOUS
    <3>2. <<n - k>> \in Seq(Int)
      OBVIOUS
    <3>3. QED
      BY <3>1, <3>2, ConcatEmptySeq DEF SetHead
  <2>4. QED
    BY <1>1, <1>2, <2>1, <2>2, <2>3 DEF QueueAfter, CountAfter, Top
<1>3. CASE k = n
  <2>1. k \div n = 1 /\ k % n = 0
    BY <1>3, DivisionByMore
  <2>2. Removed(<<n>>, k) = <<>>
    BY <2>1 DEF Removed, Top
  <2>3. QED
    BY <1>1, <1>3, <2>1, <2>2 DEF QueueAfter, CountAfter, Top
<1>4. QED
  BY <1>1, <1>2, <1>3
(* Whatever the queue holds, dequeue leaves a queue of lengths, and no     *)
(* empty message where there was none.                                     *)
LEMMA DequeueType ==
  ASSUME NEW L \in {Nat, Nat \ {0}}, NEW q \in Seq(L), NEW k \in Nat,
         ~DequeueRaises(q, k), ~DequeueHangs(q, k)
  PROVE  QueueAfter(q, k) \in Seq(L) /\ CountAfter(q, k) \in Nat
<1>1. CASE k = 0
  BY <1>1 DEF QueueAfter, CountAfter
<1>2. CASE k # 0
  <2>1. q # <<>> /\ Top(q) \in L /\ Top(q) \in Nat \ {0}
    BY <1>2 DEF DequeueRaises, DequeueHangs, Top
  <2>2. k \div Top(q) \in Nat /\ k % Top(q) \in 0 .. Top(q) - 1
    BY <2>1, SMTT(30)
  <2>3. Removed(q, k) \in Seq(L)
    <3>1. \A i \in (k \div Top(q)) + 1 .. Len(q) : q[i] \in L
      BY <2>2
    <3>2. QED
      BY <2>2, <3>1, SubSeqProperties DEF Removed
  <2>4. \A r \in Seq(L), n \in L : SetHead(r, n) \in Seq(L)
    <3>1. SUFFICES ASSUME NEW r \in Seq(L), NEW n \in L PROVE SetHead(r, n) \in Seq(L)
      OBVIOUS
    <3>2. <<n>> \in Seq(L)
      OBVIOUS
    <3>3. SubSeq(r, 2, Len(r)) \in Seq(L)
      <4>1. \A i \in 2 .. Len(r) : r[i] \in L
        OBVIOUS
      <4>2. QED
        BY <4>1, SubSeqProperties
    <3>4. QED
      BY <3>2, <3>3, ConcatProperties DEF SetHead
  <2>5. Top(q) - (k % Top(q)) \in L
    <3>1. Top(q) - (k % Top(q)) \in Nat \ {0}
      BY <2>1, <2>2
    <3>2. QED
      BY <3>1
  <2>6. QED
    BY <1>2, <2>2, <2>3, <2>4, <2>5 DEF QueueAfter, CountAfter
<1>3. QED
  BY <1>1, <1>2
=============================================================================

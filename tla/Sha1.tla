-------------------------------- MODULE Sha1 --------------------------------
(***************************************************************************)
(* sha1.c: the context, and its functions as operators from one context    *)
(* to the next.                                                            *)
(***************************************************************************)
EXTENDS Words, SequencesExt

Word(b1, b2, b3, b4) == GET_UINT32(<<b1, b2, b3, b4>>, 1)

(* struct sha1_context; total holds the lower word first, as in the code,  *)
(* and the buffer counts from 1.                                           *)
sha1_context ==
  [total : [0 .. 1 -> UInt32], state : [0 .. 4 -> UInt32], buffer : [1 .. 64 -> Bytes]]

InitialState == <<Word(\h67, \h45, \h23, \h01), Word(\hEF, \hCD, \hAB, \h89),
                  Word(\h98, \hBA, \hDC, \hFE), Word(\h10, \h32, \h54, \h76), Word(\hC3, \hD2, \hE1, \hF0)>>

(* The callers clear the memory first. *)
sha1_starts ==
  [total |-> [i \in 0 .. 1 |-> {}],
   state |-> [i \in 0 .. 4 |-> InitialState[i + 1]],
   buffer |-> [i \in 1 .. 64 |-> 0]]

(* Mutant: the third group uses the function of the first. *)
FFirst(t, x, y, z) ==
  IF t \in 20 .. 39 \cup 60 .. 79 THEN SymDiff(SymDiff(x, y), z) ELSE SymDiff(z, x \cap SymDiff(y, z))

(* F and K of the four groups of twenty rounds. *)
F(t, x, y, z) ==
  CASE t \in 0 .. 19 -> SymDiff(z, x \cap SymDiff(y, z))
    [] t \in 20 .. 39 \cup 60 .. 79 -> SymDiff(SymDiff(x, y), z)
    [] t \in 40 .. 59 -> (x \cap y) \cup (z \cap (x \cup y))

K(t) ==
  CASE t \in 0 .. 19 -> Word(\h5A, \h82, \h79, \h99)
    [] t \in 20 .. 39 -> Word(\h6E, \hD9, \hEB, \hA1)
    [] t \in 40 .. 59 -> Word(\h8F, \h1B, \hBC, \hDC)
    [] t \in 60 .. 79 -> Word(\hCA, \h62, \hC1, \hD6)

(* R(t): from round 16 on, a word of the ring W is replaced before use. *)
R(W, t) ==
  LET temp == SymDiff(SymDiff(W[(t - 3) % 16], W[(t - 8) % 16]), SymDiff(W[(t - 14) % 16], W[t % 16]))
  IN  IF t < 16 THEN W ELSE [W EXCEPT ![t % 16] = S(temp, 1)]

(* P(a, b, c, d, e, x): the five registers stay where they are, and every  *)
(* round begins naming them one place earlier.                             *)
P(regs, x, t) ==
  LET at(i) == (i - t) % 5
      f == F(t, regs[at(1)], regs[at(2)], regs[at(3)])
  IN  [regs EXCEPT ![at(4)] = Plus(@, Plus(Plus(S(regs[at(0)], 5), f), Plus(K(t), x))),
                   ![at(1)] = S(@, 30)]

State == [0 .. 4 -> UInt32]

Ring == [0 .. 15 -> UInt32]

Registers == [regs : State, W : Ring]

(* The registers and the ring after round t, and after all eighty rounds.  *)
Round(r, t) ==
  LET now == R(r.W, t) IN [regs |-> P(r.regs, now[t % 16], t), W |-> now]

Rounds(state, ring) ==
  LET round == [t \in 1 .. 80 |-> [r \in Registers |-> Round(r, t - 1)]]
  IN  Looped([regs |-> state, W |-> ring], round, 80).regs

(* The 64 bytes that start at data[i]. *)
sha1_process(state, data, i) ==
  LET regs == Rounds(state, [k \in 0 .. 15 |-> GET_UINT32(data, i + 4 * k)])
  IN  [k \in 0 .. 4 |-> Plus(state[k], regs[k])]

(* Mutant: the carry into the upper word is forgotten. *)
CountedLow(total, length) ==
  [total EXCEPT ![0] = Plus(@, Left(length, 3)), ![1] = Plus(@, Right(length, 29))]

(* The bits so far, in two words; length is a word. *)
Counted(total, length) ==
  LET low == Plus(total[0], Left(length, 3))
      carry == IF Less(low, Left(length, 3)) THEN {0} ELSE {}
  IN  [i \in 0 .. 1 |-> IF i = 0 THEN low ELSE Plus(Plus(total[1], Right(length, 29)), carry)]

(* left: the bytes that wait in the buffer. *)
Waiting(ctx) == Number(Right(ctx.total[0], 3) \cap 0 .. 5)

(* memcpy of input[from ..] to the buffer, behind its first left bytes. *)
Copied(buffer, left, input, from, count) ==
  [i \in 1 .. 64 |-> IF i \in left + 1 .. left + count THEN input[from + i - left - 1] ELSE buffer[i]]

(* Mutant: an input that ends with the block does not complete it. *)
FillsLate(left, length) == left > 0 /\ length > 64 - left

(* Whether the input completes the block that waits. *)
Fills(left, length) == left > 0 /\ length >= 64 - left

(* A number of blocks of the input, the first of which begins at start. *)
Blocks(state, input, start, blocks) ==
  LET after[b \in 0 .. blocks] ==
        IF b = 0 THEN state ELSE sha1_process(after[b - 1], input, start + 64 * (b - 1))
  IN  after[blocks]

sha1_update(ctx, input) ==
  IF input = <<>> THEN ctx
  ELSE LET left == Waiting(ctx)
           filled == Fills(left, Len(input))
           used == IF filled THEN 64 - left ELSE 0
           full == Copied(ctx.buffer, left, input, 1, used)
           first == IF filled THEN sha1_process(ctx.state, full, 1) ELSE ctx.state
           blocks == (Len(input) - used) \div 64
           done == used + 64 * blocks
       IN  [total |-> Counted(ctx.total, BitsOf(Len(input), 32)),
            state |-> Blocks(first, input, used + 1, blocks),
            buffer |-> Copied(full, IF filled THEN 0 ELSE left, input, done + 1, Len(input) - done)]

(* Mutant: the length does not fit behind 56 bytes. *)
PaddedLate(last) == IF last <= 56 THEN 56 - last ELSE 120 - last

(* padn: how many bytes of sha1_padding leave room for the length. *)
Padded(last) == IF last < 56 THEN 56 - last ELSE 120 - last

sha1_padding == [i \in 1 .. 64 |-> IF i = 1 THEN 128 ELSE 0]

sha1_finish(ctx) ==
  LET msglen == PUT_UINT32(ctx.total[1]) \o PUT_UINT32(ctx.total[0])
      padded == sha1_update(ctx, SubSeq(sha1_padding, 1, Padded(Waiting(ctx))))
      last == sha1_update(padded, msglen)
  IN  FlattenSeq([i \in 1 .. 5 |-> PUT_UINT32(last.state[i - 1])])
=============================================================================

------------------------------ MODULE GatedDelta ------------------------------
(***************************************************************************)
(* The two ways in which a linear attention layer of                       *)
(* examples/Qwen3_5/python/modeling_qwen3_5.py computes the gated delta    *)
(* rule and the short convolution before it: for a whole prompt, in        *)
(* chunks, and for one token, from a state.                                *)
(*                                                                         *)
(* Both are polynomials in the inputs, so they are evaluated over the      *)
(* integers.  Keys have two channels and values one.  What both do alike   *)
(* is left out: l2norm and scale, and silu.                                *)
(***************************************************************************)
EXTENDS Integers, Sequences

CONSTANTS
  Weights,   \* conv1d.weight, conv_kernel_size of them
  ChunkSize  \* chunk_size

ASSUME GatedDeltaAssumption ==
  /\ Weights \in Seq(Int) /\ Weights # << >>
  /\ ChunkSize \in Nat \ {0}

\* f[1] + ... + f[n]
Sum(f, n) == LET s[i \in 0 .. n] == IF i = 0 THEN 0 ELSE s[i-1] + f[i] IN s[n]

Vector == Int \X Int
Zero   == <<0, 0>>
a ++ b == <<a[1] + b[1], a[2] + b[2]>>
n ** a == <<n * a[1], n * a[2]>>
Dot(a, b) == a[1] * b[1] + a[2] * b[2]

\* What in_proj_qkv, b and a make of a hidden state: decay is g.exp().
Input == [q : Vector, k : Vector, v : Int, beta : Int, decay : Int]
Padding == [q |-> Zero, k |-> Zero, v |-> 0, beta |-> 0, decay |-> 1]

-----------------------------------------------------------------------------
(* causal_conv1d: query, key and value are convolved, beta and g are not.    *)

K == Len(Weights)

Conv(window, x) ==
  LET Tap(f) == Sum([w \in 1 .. K |-> Weights[w] * f[w]], K)
  IN [x EXCEPT !.q = <<Tap([w \in 1 .. K |-> window[w].q[1]]), Tap([w \in 1 .. K |-> window[w].q[2]])>>,
               !.k = <<Tap([w \in 1 .. K |-> window[w].k[1]]), Tap([w \in 1 .. K |-> window[w].k[2]])>>,
               !.v = Tap([w \in 1 .. K |-> window[w].v])]

LastOf(s, n) == SubSeq(s, Len(s) - n + 1, Len(s))

\* F.pad on the left, by a negative number if there are more than K.
Padded(xs) == IF Len(xs) >= K THEN LastOf(xs, K) ELSE [i \in 1 .. K - Len(xs) |-> Padding] \o xs

\* self.conv1d pads K - 1 on both sides, and the first seq_len are kept.
ConvFirst(xs) ==
  LET padded == [i \in 1 .. K - 1 |-> Padding] \o xs
  IN [t \in 1 .. Len(xs) |-> Conv(SubSeq(padded, t, t + K - 1), xs[t])]

\* Mutant: the output that is too many is the last.
ConvUpdate_First(state, xs) ==
  LET new == state \o xs
  IN [out   |-> [t \in 1 .. Len(xs) |-> Conv(SubSeq(new, t, t + K - 1), xs[t])],
      state |-> LastOf(new, Len(state))]

\* torch_causal_conv1d_update: with K inputs before, there is one output too many.
ConvUpdate(state, xs) ==
  LET new == state \o xs
  IN [out   |-> [t \in 1 .. Len(xs) |-> Conv(SubSeq(new, t + 1, t + K), xs[t])],
      state |-> LastOf(new, Len(state))]

-----------------------------------------------------------------------------

\* torch_recurrent_gated_delta_rule
RecurrentStep(state, x) ==
  LET decayed == x.decay ** state
      delta   == (x.v - Dot(decayed, x.k)) * x.beta
  IN decayed ++ (delta ** x.k)

RecurrentRule(xs, initial) ==
  LET state[t \in 0 .. Len(xs)] == IF t = 0 THEN initial ELSE RecurrentStep(state[t-1], xs[t])
  IN [out |-> [t \in 1 .. Len(xs) |-> Dot(state[t], xs[t].q)], state |-> state[Len(xs)]]

\* The product of the decays from after j to i: exp of a difference of cumulated sums.
DecayMask(chunk, i, j) ==
  LET d[m \in 0 .. i - j] == IF m = 0 THEN 1 ELSE d[m-1] * chunk[j+m].decay IN d[i - j]

Lower(chunk) ==
  [i \in 1 .. ChunkSize |-> [j \in 1 .. ChunkSize |->
     IF j < i THEN -(chunk[i].beta * Dot(chunk[i].k, chunk[j].k) * DecayMask(chunk, i, j)) ELSE 0]]

\* Forward substitution: the row after i others.
NextRow(attn, i) ==
  [attn EXCEPT ![i+1] = [j \in 1 .. ChunkSize |->
     @[j] + IF j <= i THEN Sum([m \in 1 .. i |-> attn[i+1][m] * attn[m][j]], i) ELSE 0]]

\* (I - attn)^-1, row after row.
Substituted(chunk) ==
  LET attn[i \in 0 .. ChunkSize - 1] ==
        IF i = 0 THEN Lower(chunk) ELSE NextRow(attn[i-1], i)
      all == attn[ChunkSize - 1]
  IN [i \in 1 .. ChunkSize |-> [j \in 1 .. ChunkSize |-> all[i][j] + IF j = i THEN 1 ELSE 0]]

\* v_new: the values of a chunk, less what the state before it gives for their keys.
NewValues(state, chunk, attn) ==
  LET Times(i, f) == Sum([j \in 1 .. ChunkSize |-> attn[i][j] * f[j]], ChunkSize)
      vBeta == [j \in 1 .. ChunkSize |-> chunk[j].v * chunk[j].beta]
      kBeta(c) == [j \in 1 .. ChunkSize |-> chunk[j].k[c] * chunk[j].beta * DecayMask(chunk, j, 0)]
  IN [i \in 1 .. ChunkSize |-> Times(i, vBeta) - Dot(<<Times(i, kBeta(1)), Times(i, kBeta(2))>>, state)]

\* core_attn_out and last_recurrent_state of a chunk.
AfterChunk(acc, chunk, vNew) ==
  LET C == ChunkSize
      Within(i) == [j \in 1 .. i |-> Dot(chunk[i].q, chunk[j].k) * DecayMask(chunk, i, j) * vNew[j]]
      Out(i) == Dot(DecayMask(chunk, i, 0) ** chunk[i].q, acc.state) + Sum(Within(i), i)
      Into(c) == Sum([j \in 1 .. C |-> chunk[j].k[c] * DecayMask(chunk, C, j) * vNew[j]], C)
  IN [out   |-> acc.out \o [i \in 1 .. C |-> Out(i)],
      state |-> (DecayMask(chunk, C, 0) ** acc.state) ++ <<Into(1), Into(2)>>]

\* One chunk of torch_chunk_gated_delta_rule, from the state of those before.
ChunkStep(acc, chunk) ==
  AfterChunk(acc, chunk, NewValues(acc.state, chunk, Substituted(chunk)))

\* pad_size: none if the prompt fills its chunks.
PadSize(n) == (ChunkSize - (n % ChunkSize)) % ChunkSize

ChunkRule(xs) ==
  LET padded == xs \o [i \in 1 .. PadSize(Len(xs)) |-> Padding]
      chunks == Len(padded) \div ChunkSize
      acc[c \in 0 .. chunks] ==
        IF c = 0 THEN [out |-> << >>, state |-> Zero]
        ELSE ChunkStep(acc[c-1], SubSeq(padded, (c - 1) * ChunkSize + 1, c * ChunkSize))
  IN [out |-> SubSeq(acc[chunks].out, 1, Len(xs)), state |-> acc[chunks].state]
=============================================================================

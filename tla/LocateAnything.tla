---------------------------- MODULE LocateAnything ----------------------------
(***************************************************************************)
(* The decoding of examples/LocateAnything/python/model.  A round of       *)
(* multi-token prediction (MTP) feeds the tokens that are not cached, the  *)
(* last token again and mask tokens, and takes up to six tokens from the   *)
(* six rows of that window; the cache is then cut back to the tokens that  *)
(* were known before.  In the hybrid mode a box that is not well formed is *)
(* finished one token at a time (AR).                                      *)
(*                                                                         *)
(* A token is abstracted to its class.  A row of the cache is what         *)
(* determines its keys and values: its token, its position, and the tokens *)
(* and positions that it attended to.  Rows and positions count from 0.    *)
(***************************************************************************)
EXTENDS Integers, Sequences, FiniteSets, SequencesExt

CONSTANTS
  Prompts, \* the prompts, sequences of tokens
  MaxNew,  \* max_new_tokens
  Modes,   \* generation_mode: "fast", "slow", "hybrid"
  Guesses, \* what the window may decode to, sequences of six tokens
  Singles, \* what a single step may sample
  SlidingWindows \* values of config.sliding_window

Window == 6  \* n_future_tokens, and block_size of the masks

Tokens == {"text", "zero", "box", "box_end", "coord", "none", "null", "im_end", "ref", "ref_end"}

ASSUME LocateAssumption ==
  /\ Prompts \subseteq Seq(Tokens) \ {<< >>} /\ MaxNew \in Nat
  /\ Modes \subseteq {"fast", "slow", "hybrid"}
  /\ Guesses \subseteq [1 .. Window -> Tokens] /\ Singles \subseteq Tokens
  /\ SlidingWindows \subseteq Nat \ {0}

VARIABLES
  mode,
  sliding_window, \* of the configuration, whatever its use_sliding_window says
  start,     \* seq_len of the prompt
  generated,
  cache,     \* past_key_values
  use_mtp,
  done,
  iter_round,
  forward    \* history: the last call of the language model

vars == <<mode, sliding_window, start, generated, cache, use_mtp, done, iter_round, forward>>

Total == start + MaxNew

Init ==
  /\ mode \in Modes /\ sliding_window \in SlidingWindows /\ generated \in Prompts
  /\ start = Len(generated)
  /\ cache = << >>
  /\ use_mtp = (mode # "slow")
  /\ done = FALSE /\ iter_round = 0
  /\ forward = [q |-> 0, kv |-> 0, mtp |-> FALSE, sees |-> {}, columns |-> 0]

-----------------------------------------------------------------------------
(* handle_pattern, on the six tokens of the window.                          *)

Pattern(type, tokens) == [type |-> type, tokens |-> tokens]

\* The coordinates that follow the <box>.
Coords(x0) == CHOOSE n \in 0 .. 4 : /\ \A i \in 1 .. n : x0[i + 1] = "coord"
                                    /\ n = 4 \/ x0[n + 2] # "coord"

\* Mutant: the token that is no coordinate is kept.
BoxPattern_KeepBad(x0) ==
  LET n == Coords(x0)
  IN IF n = 4 /\ x0[6] = "box_end" THEN Pattern("coord_box", x0)
     ELSE IF n = 2 /\ x0[4] = "box_end" THEN Pattern("point_box", SubSeq(x0, 1, 4))
     ELSE IF mode = "fast" THEN Pattern("coord_box", x0)
     ELSE Pattern("error_box", SubSeq(x0, 1, n + 2))

BoxPattern(x0) ==
  LET n == Coords(x0)
  IN IF n = 4 /\ x0[6] = "box_end" THEN Pattern("coord_box", x0)
     ELSE IF n = 2 /\ x0[4] = "box_end" THEN Pattern("point_box", SubSeq(x0, 1, 4))
     ELSE IF mode = "fast" THEN Pattern("coord_box", x0)
     ELSE Pattern("error_box", SubSeq(x0, 1, n + 1))

\* The tokens before the first null.
Unpadded(x0) == CHOOSE n \in 0 .. Window : /\ \A i \in 1 .. n : x0[i] # "null"
                                           /\ n = Window \/ x0[n + 1] = "null"

\* Up to the first null, and without the second of two </ref> at the end.
RefPattern(x0) ==
  LET n == Unpadded(x0)
      twice == n >= 2 /\ x0[n] = "ref_end" /\ x0[n - 1] = "ref_end"
  IN Pattern("ref_object", SubSeq(x0, 1, IF twice THEN n - 1 ELSE n))

\* Mutant: padding is not looked for at the start.
handle_pattern_NoNull(x0) ==
  IF x0[1] = "im_end" THEN Pattern("im_end", <<"im_end">>)
  ELSE IF x0[1] = "box" /\ x0[2] = "none" THEN Pattern("empty_box", <<"box", "none", "box_end">>)
  ELSE IF x0[1] = "box" THEN BoxPattern(x0)
  ELSE RefPattern(x0)

handle_pattern(x0) ==
  IF x0[1] \in {"null", "im_end"} THEN Pattern("im_end", <<"im_end">>)
  ELSE IF x0[1] = "box" /\ x0[2] = "none" THEN Pattern("empty_box", <<"box", "none", "box_end">>)
  ELSE IF x0[1] = "box" THEN BoxPattern(x0)
  ELSE RefPattern(x0)

-----------------------------------------------------------------------------
(* The attention masks: the columns that row i of kv rows, q of them new,    *)
(* attends to.                                                               *)

\* _prepare_4d_causal_attention_mask, of transformers: the columns up to the row, but not
\* those that are older than the sliding window.
CausalColumns(i) == {c \in 0 .. i : i - c <= sliding_window}

\* Mutant: the last token is seen twice.
SdpaColumns_NotBlocked(i, kv, mtp) ==
  IF mtp /\ i >= kv - Window THEN CausalColumns(i) \cup (kv - Window .. kv - 1) ELSE CausalColumns(i)

\* With update_causal_mask_for_one_gen_window_2d: the window sees itself, and not the
\* column before it.
SdpaColumns(i, kv, mtp) ==
  IF mtp /\ i >= kv - Window
  THEN (CausalColumns(i) \cup (kv - Window .. kv - 1)) \ {kv - Window - 1}
  ELSE CausalColumns(i)

Range3(q0, q1, k1, type) == [q0 |-> q0, q1 |-> q1, k0 |-> 0, k1 |-> k1, type |-> type]

\* Mutant: the blocked column is the first of the window.
build_magi_ranges_OffByOne(q, kv, ar) ==
  LET first == kv - Window
      inner == [q0 |-> q - Window, q1 |-> q, k0 |-> first, k1 |-> kv, type |-> "full"]
      before == {r \in {Range3(q - Window, q, first, "full")} : first > 0}
  IN IF ar THEN {Range3(0, q, kv, "causal")}
     ELSE {inner} \cup before \cup {Range3(i, i + 1, kv - q + i + 1, "full") : i \in 0 .. q - Window - 1}

\* Ranges of new rows and of columns; a causal range ends on its diagonal.
build_magi_ranges(q, kv, ar) ==
  LET first   == kv - Window
      blocked == first - 1
      inner   == [q0 |-> q - Window, q1 |-> q, k0 |-> first, k1 |-> kv, type |-> "full"]
      before  == {r \in {Range3(q - Window, q, blocked, "full")} : blocked > 0}
      prefix  == IF q = kv THEN {r \in {Range3(0, first, first, "causal")} : first > 0}
                 ELSE {Range3(i, i + 1, kv - q + i + 1, "full") : i \in 0 .. q - Window - 1}
  IN IF ar THEN {Range3(0, q, kv, "causal")} ELSE {inner} \cup before \cup prefix

MagiColumns(i, q, kv, ar) ==
  LET row == i - (kv - q)
  IN {c \in 0 .. kv - 1 :
        \E r \in build_magi_ranges(q, kv, ar) :
          /\ r.q0 <= row /\ row < r.q1 /\ r.k0 <= c /\ c < r.k1
          /\ r.type = "causal" => r.k1 - c >= r.q1 - row}

\* find_prefix_seq_length_by_pe: where the positions drop, or -1.
PrefixLength(pe) ==
  LET drops == {i \in 1 .. Len(pe) - 1 : pe[i + 1] < pe[i]}
  IN IF drops = {} THEN -1 ELSE CHOOSE i \in drops : \A j \in drops : i <= j

\* create_block_diff_mask_by_pe_4d: row i of a training sequence with these positions.
TrainedColumns(i, pe) ==
  LET x0    == PrefixLength(pe)
      Block(c) == (c - x0) \div Window
      first == x0 + Block(i) * Window
  IN IF i < x0 THEN 0 .. i
     ELSE {c \in 0 .. Len(pe) - 1 : IF c < x0 THEN c < pe[first + 1] ELSE Block(c) = Block(i)}

-----------------------------------------------------------------------------
(* The loop of generate.                                                     *)

Known == Len(generated)

\* _prepare_inputs_in_mtp, _prepare_input_in_ar: the tokens, of which those after the
\* cache are new, and their positions.
Inputs    == IF use_mtp THEN generated \o <<Last(generated)>> \o [i \in 1 .. Window - 1 |-> "mask"]
                        ELSE generated
Positions == [i \in 1 .. Len(Inputs) |-> IF i > Known THEN i - 2 ELSE i - 1]

\* The rows that a call of the model has as keys and values when it attends: those of the
\* cache, and the new ones.
Keys == [i \in 1 .. Len(Inputs) |->
           IF i <= Len(cache) THEN [tok |-> cache[i].tok, pos |-> cache[i].pos]
                              ELSE [tok |-> Inputs[i], pos |-> Positions[i]]]

Sees(i) == {Keys[c + 1] : c \in SdpaColumns(i, Len(Inputs), use_mtp)}

\* Mutant: the cache keeps the row of the token that was fed again.
CutCache_OneMore(rows) == SubSeq(rows, 1, IF use_mtp THEN Known + 1 ELSE Known)

\* kv[:, :, :generated.shape[1], :]
CutCache(rows) == SubSeq(rows, 1, Known)

\* Step 2: the forward pass, and the cache without the window.
Forward ==
  /\ forward' = [q |-> Len(Inputs) - Len(cache), kv |-> Len(Inputs), mtp |-> use_mtp,
                 sees |-> Sees(Len(Inputs) - 1),
                 columns |-> Cardinality(SdpaColumns(Len(Inputs) - 1, Len(Inputs), use_mtp))]
  /\ iter_round' = iter_round + 1
  /\ cache' = CutCache([i \in 1 .. Len(Inputs) |->
                          IF i <= Len(cache) THEN cache[i]
                          ELSE [tok |-> Inputs[i], pos |-> Positions[i], sees |-> Sees(i - 1)]])

\* _sample_token_in_mtp, and the switch to AR.
MtpRound ==
  /\ ~done /\ Known < Total /\ use_mtp
  /\ Forward
  /\ \E x0 \in Guesses :
       LET out == handle_pattern(x0)
       IN /\ generated' = generated \o out.tokens
          /\ done' = (out.type = "im_end")
          /\ use_mtp' = ~(mode = "hybrid" /\ out.type = "error_box")
  /\ UNCHANGED <<mode, sliding_window, start>>

\* What ends the generation: in a box, everything that does not belong there.
Ends(tok) == IF mode = "hybrid" THEN tok \notin {"box_end", "coord", "none"} ELSE tok = "im_end"

\* _sample_token_in_ar, and the switch back to MTP.
ArRound ==
  /\ ~done /\ Known < Total /\ ~use_mtp
  /\ Forward
  /\ \E tok \in Singles :
       /\ generated' = Append(generated, tok)
       /\ done' = Ends(tok)
       /\ use_mtp' = (mode = "hybrid" /\ tok = "box_end")
  /\ UNCHANGED <<mode, sliding_window, start>>

Next == MtpRound \/ ArRound

Spec == Init /\ [][Next]_vars

-----------------------------------------------------------------------------

\* Row i of the cache belongs to token i, at position i, and was computed from the tokens
\* up to i that the sliding window lets it see and nothing else: the rows of the window, of
\* the token that is fed twice and of guesses that were not taken are gone.
CacheIsOfGenerated ==
  /\ Len(cache) <= Known
  /\ \A i \in DOMAIN cache :
       cache[i] = [tok |-> generated[i], pos |-> i - 1,
                   sees |-> {[tok |-> generated[j], pos |-> j - 1] :
                               j \in {j \in 1 .. i : i - j <= sliding_window}}]

\* The sliding window of the sdpa mask cuts nothing off yet.
WithinSlidingWindow == forward.kv <= sliding_window

\* The ranges of build_magi_ranges say for every new row what the mask of sdpa says, as
\* long as what is fed and cached is no longer than the sliding window, which the ranges
\* do not have.
MasksAgree ==
  WithinSlidingWindow =>
    \A i \in forward.kv - forward.q .. forward.kv - 1 :
      MagiColumns(i, forward.q, forward.kv, ~forward.mtp) = SdpaColumns(i, forward.kv, forward.mtp)

\* What the window sees is what it saw in training, where the block that starts at a
\* position sees the tokens before that position and itself.  The last token is seen once,
\* with its position, although it is fed twice.  The training mask has no sliding window.
WindowAsTrained ==
  forward.mtp /\ WithinSlidingWindow =>
    LET known == Len(cache)
        pe    == [i \in 1 .. known + 1 |-> i - 1] \o [i \in 1 .. Window |-> known + i - 2]
        tokens == [i \in 1 .. known |-> generated[i]] \o <<"later">> \o <<generated[known]>>
                    \o [i \in 1 .. Window - 1 |-> "mask"]
        trained == TrainedColumns(Len(pe) - 1, pe)
    IN /\ forward.sees = {[tok |-> tokens[c + 1], pos |-> pe[c + 1]] : c \in trained}
       /\ forward.columns = Cardinality(trained)

\* The hybrid mode decodes single tokens only inside a box: since its <box> there were
\* only coordinates and none.
ArInsideBox ==
  mode = "hybrid" /\ ~use_mtp /\ ~done =>
    \E b \in start + 1 .. Known :
      generated[b] = "box" /\ \A i \in b + 1 .. Known : generated[i] \in {"coord", "none"}

\* Every round adds a token, so that the loop, which is bounded by the number of tokens
\* alone, ends; and it passes its bound by the window at most.
RoundsAdvance ==
  /\ iter_round <= Known - start
  /\ Known < Total + Window
=============================================================================

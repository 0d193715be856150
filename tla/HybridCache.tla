------------------------------ MODULE HybridCache ------------------------------
(***************************************************************************)
(* Generation with the hybrid model of examples/Qwen3_5/python/            *)
(* modeling_qwen3_5.py.  A prompt is computed at once and every token      *)
(* after it from the cache, which keeps for a linear attention layer the   *)
(* last inputs of the convolution and the state of the gated delta rule,   *)
(* and for the full attention layers keys with their rotary positions.     *)
(* The positions of later tokens follow from rope_deltas, which the model  *)
(* keeps from one conversation to the next.                                *)
(*                                                                         *)
(* The linear layers stand one after the other; of the full attention      *)
(* layers between them the cache of keys is kept and their effect on the   *)
(* hidden states left out.  Calls have no attention_mask: with one,        *)
(* compute_3d_position_ids counts its ones.                                *)
(***************************************************************************)
EXTENDS GatedDelta, RopeIndex

CONSTANTS
  Layers,     \* number of linear attention layers
  Texts,      \* groups of one text token
  Images,     \* groups of one image, at least one token large
  Prompts,    \* sequences of groups, text after every image
  Extensions, \* sequences of Texts that are computed at once in a later turn
  MaxTokens,  \* bound: tokens of a conversation
  MaxTalks,   \* bound: conversations
  None

ASSUME HybridCacheAssumption ==
  /\ Layers \in Nat \ {0} /\ MergeSize \in Nat \ {0} /\ None \notin Int \cup Seq(Input)
  /\ MaxTokens \in Nat /\ MaxTalks \in Nat
  /\ \A g \in Texts : g.grid = << >> /\ g.embed \in Input
  /\ \A g \in Images : g.embed \in Input /\ g.grid \in Nat \X Nat /\ \A d \in 1 .. 2 : g.grid[d] >= MergeSize
  /\ \A p \in Prompts : p \in Seq(Texts \cup Images) /\ p # << >> /\ p[Len(p)] \in Texts
  /\ \A p \in Prompts : \A i \in 1 .. Len(p) - 1 : p[i] \in Images => p[i + 1] \in Texts
  /\ \A e \in Extensions : e \in Seq(Texts) /\ Len(e) > 1

VARIABLES
  groups,     \* the conversation so far
  by,         \* "generate", or "forward" if the model is called without positions
  convStates, recurrentStates, \* per layer; None before the first call
  keyCache,   \* the positions with which keys were rotated
  ropeDeltas, \* model.rope_deltas, kept over conversations; None at first
  out,        \* what the last layer gave for every token
  extended,   \* history: a later turn was computed at once
  talks

vars == <<groups, by, convStates, recurrentStates, keyCache, ropeDeltas, out, extended, talks>>

NoStates == [l \in 1 .. Layers |-> None]

Init ==
  /\ groups = << >> /\ by = "generate"
  /\ convStates = NoStates /\ recurrentStates = NoStates /\ keyCache = << >>
  /\ ropeDeltas = None
  /\ out = << >> /\ extended = FALSE /\ talks = 0

\* The embeddings of the tokens.  An image has one for all of its tokens.
Tokens(gs) ==
  LET tokens[g \in 0 .. Len(gs)] ==
        IF g = 0 THEN << >> ELSE tokens[g-1] \o [i \in 1 .. Size(gs[g]) |-> gs[g].embed]
  IN tokens[Len(gs)]

\* The residual: what the next layer gets.
Residual(x, o) == [x EXCEPT !.v = @ + o, !.q = <<@[1] + o, @[2]>>]

-----------------------------------------------------------------------------
(* Qwen3_5GatedDeltaNet.forward, layer after layer.                          *)

\* has_previous_state: of the last linear layer.
HasPreviousState(conv) == conv[Layers] # None

\* A layer on inputs xs, through the cache c, whose rule gave what rule says.
StoreLayer(c, l, conv, rule) ==
  [conv |-> [c.conv EXCEPT ![l] = conv], rec |-> [c.rec EXCEPT ![l] = rule.state],
   xs   |-> [t \in DOMAIN c.xs |-> Residual(c.xs[t], rule.out[t])],
   out  |-> rule.out]

\* use_precomputed_states: one token, past the first call.
Rule(c, l, mixed) ==
  IF HasPreviousState(c.conv) /\ Len(c.xs) = 1 THEN RecurrentRule(mixed, c.rec[l]) ELSE ChunkRule(mixed)

ForwardLayer(c, l) ==
  LET update == IF c.conv[l] = None
                THEN [out |-> ConvFirst(c.xs), state |-> Padded(c.xs)]
                ELSE ConvUpdate(c.conv[l], c.xs)
  IN StoreLayer(c, l, update.state, Rule(c, l, update.out))

Forward(conv, rec, xs) ==
  LET c[l \in 0 .. Layers] ==
        IF l = 0 THEN [conv |-> conv, rec |-> rec, xs |-> xs, out |-> << >>] ELSE ForwardLayer(c[l-1], l)
  IN c[Layers]

HasImage(gs) == \E i \in DOMAIN gs : IsImage(gs[i])

\* _prepare_position_ids_for_generation, which also sets rope_deltas for text, and
\* compute_3d_position_ids, which takes those of an earlier conversation for text.
FirstPositions(gs) ==
  LET n == Len(Tokens(gs))
  IN IF HasImage(gs) THEN get_rope_index(gs)
     ELSE IF by' = "generate" THEN [ids |-> Arange(0, n), delta |-> 0]
     ELSE IF ropeDeltas = None THEN [ids |-> Arange(0, n), delta |-> None]
     ELSE [ids |-> Shifted(Arange(0, n), ropeDeltas), delta |-> ropeDeltas]

\* Past the first call: text positions and rope_deltas, or cache_position.
NextPositions(n) ==
  LET text == Arange(Len(keyCache), n)
  IN IF ropeDeltas = None THEN text ELSE Shifted(text, ropeDeltas)

-----------------------------------------------------------------------------

\* A conversation begins with a cache of its own, and the model of the last.
Begin ==
  /\ talks < MaxTalks
  /\ by' \in {"generate", "forward"}
  /\ \E p \in Prompts :
       LET c == Forward(NoStates, NoStates, Tokens(p))
           first == FirstPositions(p)
       IN /\ groups' = p /\ out' = c.out
          /\ convStates' = c.conv /\ recurrentStates' = c.rec
          /\ keyCache' = first.ids /\ ropeDeltas' = first.delta
  /\ extended' = FALSE /\ talks' = talks + 1

Continue(gs) ==
  LET xs == Tokens(gs)
      c == Forward(convStates, recurrentStates, xs)
  IN /\ groups # << >> /\ Len(out) + Len(xs) <= MaxTokens
     /\ groups' = groups \o gs /\ out' = out \o c.out
     /\ convStates' = c.conv /\ recurrentStates' = c.rec
     /\ keyCache' = keyCache \o NextPositions(Len(xs))
     /\ UNCHANGED <<by, ropeDeltas, talks>>

\* The next token of an answer.
Decode == \E g \in Texts : Continue(<<g>>) /\ UNCHANGED extended

\* A later turn.  The rule starts from no state then: initial_state is None.
Extend == \E e \in Extensions : Continue(e) /\ extended' = TRUE

Next == Begin \/ Decode \/ Extend

Spec == Init /\ [][Next]_vars

-----------------------------------------------------------------------------
(* What the cache should not change: every token in one run without it.      *)

\* state = decay * (I - beta k k^T) state + beta v k
DeltaStep(s, x) ==
  (x.decay ** (s ++ ((-x.beta * Dot(s, x.k)) ** x.k))) ++ ((x.beta * x.v) ** x.k)

Delta(xs) ==
  LET state[t \in 0 .. Len(xs)] == IF t = 0 THEN Zero ELSE DeltaStep(state[t-1], xs[t])
  IN [t \in 1 .. Len(xs) |-> Dot(state[t], xs[t].q)]

OneLayer(xs) ==
  LET o == Delta(ConvFirst(xs)) IN [xs |-> [t \in DOMAIN xs |-> Residual(xs[t], o[t])], out |-> o]

OneRun(xs) ==
  LET c[l \in 0 .. Layers] == IF l = 0 THEN [xs |-> xs, out |-> << >>] ELSE OneLayer(c[l-1].xs)
  IN c[Layers].out

\* A text token comes after every position before it, and an image is a grid that begins
\* there.
After(ids) == IF ids = << >> THEN 0 ELSE MaxPosition(ids) + 1

Placed(ids, group) ==
  LET s == After(ids)
      h == group.grid[1] \div MergeSize
      w == group.grid[2] \div MergeSize
      Cell(i) == CHOOSE c \in (0 .. h - 1) \X (0 .. w - 1) : i = c[1] * w + c[2] + 1
  IN IF IsImage(group) THEN ids \o [i \in 1 .. h * w |-> <<s, s + Cell(i)[1], s + Cell(i)[2]>>]
     ELSE Append(ids, <<s, s, s>>)

OneRunPositions(gs) ==
  LET ids[g \in 0 .. Len(gs)] == IF g = 0 THEN << >> ELSE Placed(ids[g-1], gs[g])
  IN ids[Len(gs)]

\* Computing a prompt in chunks and its answer from the cache gives what one run over
\* all tokens gives, whatever the length of the prompt, as long as no later turn was
\* computed at once (which loses the state).
OutputsAsInOneRun == ~extended => out = OneRun(Tokens(groups))

\* Rotary attention sees differences of positions: those in the cache are those of one
\* run, but for a shift of all, which rope_deltas of an earlier conversation may leave.
PositionsAsInOneRun ==
  groups # << >> => keyCache = Shifted(OneRunPositions(groups), keyCache[1][1])
=============================================================================

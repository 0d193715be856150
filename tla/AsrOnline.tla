------------------------------ MODULE AsrOnline ------------------------------
(***************************************************************************)
(* The streaming recogniser of examples/Qwen3_ASR/cpp/online_main.cc.  The *)
(* audio comes in chunks; in every round the language model continues the  *)
(* committed tokens from all the audio so far.  Its last tokens are not    *)
(* certain before more audio is there and are rolled back; the others are  *)
(* committed, and the text is printed piece by piece.                      *)
(***************************************************************************)
EXTENDS Integers, Sequences, FiniteSetsExt

CONSTANTS
  RollbackTokens, \* ONLINE_ROLLBACK_TOKENS
  RollbackRounds, \* ONLINE_ROLLBACK_ROUNDS
  Chunks,         \* chunks of the audio
  ChunkTokens,    \* audio tokens of a chunk
  FixedTokens,    \* PREFIX_N_TOKENS + POSTFIX_N_TOKENS
  MaxContext,     \* MAX_CONTEXT_LEN
  MaxNewTokens,   \* ONLINE_MAX_NEW_TOKENS
  Words           \* tokens of text

ASSUME AsrAssumption ==
  {RollbackTokens, RollbackRounds, Chunks, ChunkTokens, FixedTokens, MaxContext,
   MaxNewTokens} \subseteq Nat

VARIABLES
  pc,        \* "round", "done" or "failed"
  round,     \* round_idx
  history,   \* audio tokens in audio_embed_history
  committed, \* committed_token_ids
  remaining, \* remaining_rollback_rounds
  started,   \* committed_output_started
  rollback,  \* rollback_tokens of the last round
  printed,   \* the pieces printed as commit_add_text, one after the other
  unfix,     \* unfix_text of the last round
  final      \* the text printed as the final result

vars == <<pc, round, history, committed, remaining, started, rollback, printed, unfix,
          final>>

\* ASR_TEXT_TOKEN separates the language from the text.
AsrTextToken == "asr_text"
Tokens == Words \cup {"language", AsrTextToken}

Init ==
  /\ pc = "round" /\ round = 0 /\ history = 0
  /\ committed = <<>> /\ remaining = RollbackRounds /\ started = FALSE
  /\ rollback = <<>> /\ printed = <<>> /\ unfix = <<>> /\ final = <<>>

\* decode_asr_text: whether the text has begun, and the text, of some tokens.
TextStarted(tokens, before) ==
  before \/ \E i \in 1 .. Len(tokens) : tokens[i] = AsrTextToken

TextOf(tokens, before) ==
  IF before THEN tokens
  ELSE LET marks == {i \in 1 .. Len(tokens) : tokens[i] = AsrTextToken}
       IN  IF marks = {} THEN <<>> ELSE SubSeq(tokens, Min(marks) + 1, Len(tokens))

\* Mutant: the last round rolls back as well.
StableCount_NoFlush(tokens, last) ==
  IF remaining > 0 THEN 0
  ELSE IF Len(tokens) > RollbackTokens THEN Len(tokens) - RollbackTokens ELSE 0

\* Tokens of the round that are committed.
StableCount(tokens, last) ==
  IF last THEN Len(tokens)
  ELSE IF remaining > 0 THEN 0
  ELSE IF Len(tokens) > RollbackTokens THEN Len(tokens) - RollbackTokens ELSE 0

\* remaining_rollback_rounds after a round.
RoundsLeft(last) == IF ~last /\ remaining > 0 THEN remaining - 1 ELSE remaining

\* Mutant: the state before the round is used for what is not committed.
PrintPieces_OldState(stable, tokens) ==
  /\ printed' = printed \o TextOf(stable, started)
  /\ started' = TextStarted(stable, started)
  /\ unfix' = TextOf(tokens, started)

\* The three decodings of a round: all the committed tokens, those it added, and
\* those it rolled back.
PrintPieces(stable, tokens) ==
  /\ printed' = printed \o TextOf(stable, started)
  /\ started' = TextStarted(stable, started)
  /\ unfix' = TextOf(tokens, TextStarted(committed', FALSE))

\* build_llm_input fits in the context with the next chunk.
InputFits ==
  history + ChunkTokens + Len(committed) + FixedTokens <= MaxContext

\* A round that succeeds; the model answers with any tokens.
Round(tokens) ==
  LET last   == round + 1 = Chunks
      n      == StableCount(tokens, last)
      stable == SubSeq(tokens, 1, n)
  IN
  /\ pc = "round" /\ round < Chunks /\ InputFits
  /\ round' = round + 1 /\ history' = history + ChunkTokens
  /\ committed' = committed \o stable
  /\ rollback' = SubSeq(tokens, n + 1, Len(tokens))
  /\ remaining' = RoundsLeft(last)
  /\ PrintPieces(stable, rollback')
  /\ UNCHANGED <<pc, final>>

\* The input does not fit, or the audio or the language model fails: the loop is
\* left without a final result.
RoundFails ==
  /\ pc = "round" /\ round < Chunks
  /\ pc' = "failed"
  /\ UNCHANGED <<round, history, committed, remaining, started, rollback, printed, unfix,
                 final>>

\* The final result is decoded from all committed tokens.
Finish ==
  /\ pc = "round" /\ round = Chunks
  /\ pc' = "done"
  /\ final' = TextOf(committed, FALSE)
  /\ UNCHANGED <<round, history, committed, remaining, started, rollback, printed, unfix>>

\* Answers of the language model (external), up to max_new_tokens.
Answers == UNION {[1 .. n -> Tokens] : n \in 0 .. MaxNewTokens}

Next ==
  \/ \E tokens \in Answers : Round(tokens)
  \/ RoundFails \/ Finish
  \/ pc # "round" /\ UNCHANGED vars

Spec == Init /\ [][Next]_vars

-----------------------------------------------------------------------------

\* The pieces printed as committed round by round and the unconfirmed text of the round
\* make up the text of everything recognised, wherever the rounds were cut:
\* committed_output_started carries what a decoding of the stable tokens alone cannot know.
DisplayIsWhole == printed \o unfix = TextOf(committed \o rollback, FALSE)

\* The final result is what was printed before; nothing stays rolled back.
FinalIsWhole == pc = "done" /\ Chunks > 0 => final = printed /\ rollback = <<>>
=============================================================================

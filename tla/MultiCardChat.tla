---------------------------- MODULE MultiCardChat ----------------------------
(***************************************************************************)
(* The callers of the pipeline (examples/multicard/cpp/main.cc): the       *)
(* interactive loop of main with run_chat_turn, and the non-interactive    *)
(* prefill and decode loop.  A call of run_pipeline_once is that of        *)
(* PipelineCall, which MultiCard implements; the KV caches outlive a call  *)
(* (keep_history = 1), and kv[k] is the number of rows in stage k's cache. *)
(***************************************************************************)
EXTENDS PipelineCall

CONSTANTS
  MaxNewTokens, \* max_new_tokens, the decode steps of a turn
  Limit,        \* context_limit
  Reserve,      \* prefill_reserve
  MaxTurns      \* bound: lines the user enters

ASSUME ChatAssumption ==
  /\ N \in Nat \ {0} /\ Lens \subseteq Nat /\ MaxRuns \in Nat
  /\ {MaxNewTokens, Limit, Reserve, MaxTurns} \subseteq Nat

VARIABLES
  interactive,    \* --interactive
  ignore_eos,     \* --ignore-eos
  ctl,            \* where main is
  kv,             \* rows in the KV cache, by stage (external)
  step,           \* step of the decode loop
  next_token,     \* next_token; "none" is -1
  prefill_tokens, \* of this turn
  decode_tokens,  \* of this turn
  context_tokens, \* of this conversation, as main counts them
  first_turn,     \* the next prompt starts with the system prompt
  systems,        \* system prompts in the KV caches
  cut,            \* turns since the caches were cleared whose decoding broke off
  turns           \* lines read

turnVars == <<step, next_token, prefill_tokens, decode_tokens>>
talkVars == <<context_tokens, first_turn, systems, cut, turns>>
options  == <<interactive, ignore_eos>>
chatVars == <<seenVars, options, ctl, kv, turnVars, talkVars>>

Tokens == {"text", "eos"}

ChatInit ==
  /\ CallInit
  /\ interactive \in BOOLEAN /\ ignore_eos \in BOOLEAN
  /\ ctl = "read" /\ kv = [k \in Stages |-> 0]
  /\ step = 0 /\ next_token = "none" /\ prefill_tokens = 0 /\ decode_tokens = 0
  /\ context_tokens = 0 /\ first_turn = TRUE
  /\ systems = 0 /\ cut = 0 /\ turns = 0

\* Mutant: nothing is reserved for the next prefill.
NearlyFull_NoReserve == interactive /\ context_tokens > 0 /\ context_tokens >= Limit

\* The context is nearly full: the caches of all stages are cleared first.
NearlyFull == interactive /\ context_tokens > 0 /\ context_tokens + Reserve >= Limit

\* Only the interactive loop puts a system prompt before its first turn.  The --prompt, or
\* the tokens of a measurement, go to the call as they are.
Opens == interactive /\ first_turn

\* Mutant: only the cache of stage 0 is cleared.
ReadLine_ClearFirst(n) ==
  /\ ctl = "read" /\ turns < MaxTurns
  /\ CallStart(n)
  /\ ctl' = "prefill" /\ turns' = turns + 1
  /\ IF NearlyFull
     THEN /\ kv' = [kv EXCEPT ![0] = 0]
          /\ context_tokens' = 0 /\ systems' = 1 /\ cut' = 0
     ELSE /\ systems' = systems + IF Opens THEN 1 ELSE 0
          /\ UNCHANGED <<kv, context_tokens, cut>>
  /\ first_turn' = (first_turn /\ ~interactive)
  /\ UNCHANGED turnVars

\* Mutant: first_turn is not set again when the caches are cleared.
ReadLine_NoSystem(n) ==
  /\ ctl = "read" /\ turns < MaxTurns
  /\ CallStart(n)
  /\ ctl' = "prefill" /\ turns' = turns + 1
  /\ systems' = (IF NearlyFull THEN 0 ELSE systems) + IF Opens THEN 1 ELSE 0
  /\ IF NearlyFull
     THEN kv' = [k \in Stages |-> 0] /\ context_tokens' = 0 /\ cut' = 0
     ELSE UNCHANGED <<kv, context_tokens, cut>>
  /\ first_turn' = (first_turn /\ ~interactive)
  /\ UNCHANGED turnVars

\* The prompt, n tokens with its template if it has one, is handed to run_pipeline_once.
ReadLine(n) ==
  /\ ctl = "read" /\ turns < MaxTurns
  /\ CallStart(n)
  /\ ctl' = "prefill" /\ turns' = turns + 1
  /\ IF NearlyFull
     THEN /\ kv' = [k \in Stages |-> 0]
          /\ context_tokens' = 0 /\ systems' = 1 /\ cut' = 0
     ELSE /\ systems' = systems + IF Opens THEN 1 ELSE 0
          /\ UNCHANGED <<kv, context_tokens, cut>>
  /\ first_turn' = (first_turn /\ ~interactive)
  /\ UNCHANGED turnVars

\* The caches are cleared and everything is released.
Leave ==
  /\ ctl' = "exit" /\ kv' = [k \in Stages |-> 0]
  /\ systems' = 0

\* End of the user's input.
EndOfInput ==
  /\ ctl = "read" /\ interactive
  /\ Leave
  /\ UNCHANGED <<seenVars, turnVars, context_tokens, first_turn, cut, turns>>

\* A stage works inside the call; its rows stay in its cache.
Work(k, m) ==
  /\ Feed(k, m)
  /\ kv' = [kv EXCEPT ![k] = @ + m]
  /\ UNCHANGED <<ctl, turnVars, talkVars>>

\* The prefill fails or samples no token: run_chat_turn returns false and the
\* interactive loop stops; without it main returns at once.
PrefillFails ==
  /\ ctl = "prefill"
  /\ \E result \in {"ok", "failed"} : Return(result)
  /\ Leave
  /\ UNCHANGED <<turnVars, context_tokens, first_turn, cut, turns>>

\* The prefill returns the first token.
PrefillReturns(token) ==
  /\ ctl = "prefill" /\ Return("ok")
  /\ next_token' = token
  /\ prefill_tokens' = input /\ decode_tokens' = 0 /\ step' = 0
  /\ ctl' = "loop"
  /\ UNCHANGED <<kv, talkVars>>

\* A step of the decode loop feeds the last token.
DecodeStep ==
  /\ ctl = "loop" /\ step < MaxNewTokens
  /\ CallStart(1)
  /\ ctl' = "decode"
  /\ UNCHANGED <<kv, turnVars, talkVars>>

\* Mutant: the step is tried again.
DecodeBreaks_Retry ==
  /\ ctl = "decode"
  /\ \E result \in {"ok", "failed"} : Return(result)
  /\ ctl' = "loop" /\ cut' = cut + 1
  /\ UNCHANGED <<kv, turnVars, context_tokens, first_turn, systems, turns>>

\* The step fails or returns no token: the loop is left with break.
DecodeBreaks ==
  /\ ctl = "decode"
  /\ \E result \in {"ok", "failed"} : Return(result)
  /\ ctl' = "ended" /\ cut' = cut + 1
  /\ UNCHANGED <<kv, turnVars, context_tokens, first_turn, systems, turns>>

\* Mutant: end of sequence ends the loop although it is to be ignored.
DecodeReturns_StopAtEos(token) ==
  /\ ctl = "decode" /\ Return("ok")
  /\ next_token' = token /\ decode_tokens' = decode_tokens + 1 /\ step' = step + 1
  /\ ctl' = IF token = "eos" THEN "ended" ELSE "loop"
  /\ UNCHANGED <<kv, prefill_tokens, talkVars>>

\* The step returns a token; end of sequence ends the loop.
DecodeReturns(token) ==
  /\ ctl = "decode" /\ Return("ok")
  /\ next_token' = token /\ decode_tokens' = decode_tokens + 1 /\ step' = step + 1
  /\ ctl' = IF token = "eos" /\ ~ignore_eos THEN "ended" ELSE "loop"
  /\ UNCHANGED <<kv, prefill_tokens, talkVars>>

LoopEnds ==
  /\ ctl = "loop" /\ step = MaxNewTokens
  /\ ctl' = "ended"
  /\ UNCHANGED <<seenVars, kv, turnVars, talkVars>>

\* Mutant: the last token sampled is counted too, although it was never fed.
TurnEnds_CountLast ==
  /\ ctl = "ended" /\ interactive
  /\ context_tokens' = context_tokens + prefill_tokens + decode_tokens + 1
  /\ ctl' = "read"
  /\ UNCHANGED <<seenVars, kv, turnVars, first_turn, systems, cut, turns>>

\* run_chat_turn returns true, also after a break; main counts the tokens and
\* reads the next line.
TurnEnds ==
  /\ ctl = "ended" /\ interactive
  /\ context_tokens' = context_tokens + prefill_tokens + decode_tokens
  /\ ctl' = "read"
  /\ UNCHANGED <<seenVars, kv, turnVars, first_turn, systems, cut, turns>>

SingleTurnEnds ==
  /\ ctl = "ended" /\ ~interactive
  /\ Leave
  /\ UNCHANGED <<seenVars, turnVars, context_tokens, first_turn, cut, turns>>

\* main has returned.
Finished == ctl = "exit" /\ UNCHANGED chatVars

ChatStep ==
  \/ \E n \in Lens : ReadLine(n)
  \/ EndOfInput
  \/ \E k \in Stages : \E m \in 1 .. input : Work(k, m)
  \/ PrefillFails \/ \E token \in Tokens : PrefillReturns(token)
  \/ DecodeStep
  \/ DecodeBreaks \/ \E token \in Tokens : DecodeReturns(token)
  \/ LoopEnds \/ TurnEnds \/ SingleTurnEnds

\* The options are those of the command line throughout.
ChatNext == (ChatStep /\ UNCHANGED options) \/ Finished

\* main and the runtime go on; only the user may stop typing.
ChatSpec == ChatInit /\ [][ChatNext]_chatVars /\ WF_chatVars(ctl # "read" /\ ChatNext)

-----------------------------------------------------------------------------

\* Between two turns.
Prompting == ctl = "read"

\* context_tokens never counts a token that is not in stage 0's cache, and lacks
\* one at most for every turn that broke off since the caches were cleared.
ContextTokensLag ==
  Prompting => context_tokens <= kv[0] /\ kv[0] <= context_tokens + cut

\* A cache never runs ahead of the cache of the stage before it, and between the
\* turns they agree unless a turn broke off since they were cleared.
CachesInStep ==
  /\ \A k \in Stages \ {0} : kv[k] <= kv[k-1]
  /\ Prompting /\ cut = 0 => \A k \in Stages : kv[k] = kv[0]

\* Whenever a call of the interactive loop is under way, the caches hold or are given one
\* system prompt, however often they were cleared; the one-shot mode has none.
OneSystemPrompt == running => systems = IF interactive THEN 1 ELSE 0

\* A prefill within the reserve fits in the context of every stage, unless an
\* earlier turn broke off and made context_tokens lag.
PrefillFits ==
  ctl = "prefill" /\ input <= Reserve /\ cut = 0 =>
    \A k \in Stages : kv[k] <= Limit

\* Told to ignore end of sequence, the decode loop makes all its steps unless one of
\* them breaks it off (README, performance mode).
AllStepsDecoded ==
  ignore_eos /\ ctl = "ended" /\ cut = 0 => decode_tokens = MaxNewTokens

\* Every turn ends.
TurnsEnd == ctl # "read" ~> ctl \in {"read", "exit"}
=============================================================================

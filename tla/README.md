# A verification project for rknn3-model-zoo

The repository is a collection of demos that run neural networks on NPU cards
through the rknn3 runtime: one directory per model under `examples/`, with shared
utilities in `utils/`, a tokenizer, and tools for export and evaluation. Most of a
demo is data: tensors, images, audio, strings. The logic that is hard to get right
is where several threads, callbacks of the runtime or many rounds share state, and
that is what these modules model. Paths below are relative to `src/`.

## The system

### Components, their state, operations and what makes them correct

| component | state | operations and interaction | what is hard | what makes it correct |
|---|---|---|---|---|
| `examples/multicard`: layer-parallel pipeline | `PipelineState` with a `StageSlot` per stage (queue of batches, expected, emitted and active token counts, `producer_done`, `failed`), `g_last_stage_result`, a KV cache per card | `run_pipeline_once` runs stage 0 in the calling thread; `run_stage_worker` runs one thread per further stage; `embed_callback`, `stage_output_callback` and `result_callback` are called by the runtime inside a session run | threads share slots under one mutex and one condition variable each; token counts are guessed; errors come from any thread | rows reach every cache once, in order and with the right count; errors are not lost; each call returns; one token is sampled, at the end |
| `examples/multicard`: chat | `context_tokens`, `first_turn`, `next_token`, the KV caches that outlive a call | the interactive loop of `main`, `run_chat_turn`, the one-shot prefill and decode loop; all call `run_pipeline_once` | failures in the middle of a turn, a context that fills up over many turns | the counter follows the caches, the caches agree, a prompt fits, one system prompt |
| `examples/Qwen3_TTS`: streaming demo | `DemoState` (pending frames, left context, flags), the talker's step counter, flags and embeddings | the talker's asynchronous run calls back into `talker.cc`, which calls `talker_callback`; `decoder_thread_entry` decodes windows; `main` starts, waits and releases | three threads, two condition variables, release during a run, several ways a run may end | frames are voiced once, in order, with their context; the text is fed in order and whole; the demo ends; nothing is freed in use |
| `examples/Qwen3_TTS`: speech decoder, speaker embeddings | network buffers | one synchronous run | none here | numeric |
| `examples/Qwen3_ASR`: streaming recogniser | committed and rolled-back tokens, `remaining_rollback_rounds`, `committed_output_started`, history of audio | one round per chunk: encode, prompt, generate, commit or roll back, print | three decodings of different token ranges must agree | pieces add up to the whole text |
| `examples/yolov5`: multi-camera benchmark | a `ChannelContext` per channel, `g_channel_stop_all`, `running` | `main` initialises, spawns, joins, reports and releases; one worker per channel; SIGINT | `running` is read without a lock and decides whether a thread is joined; partial initialisation | the report is final, nothing is used after its release, everything is released, it ends |
| zipformer, wenet, whisper, sensevoice | encoder caches, chunk offsets | sequential chunk loops | overlap arithmetic | chunks cover the audio, token collapse |
| single-device LLM and VLM chats (Qwen3, Qwen3_VL, ...) | a session | one run per prompt | little | see multicard |
| functiongemma | message list | prompt, tool call, answer | string formats | protocol order |
| `examples/FastVLM/python/llava/serve` | the controller's `worker_info`, each worker's semaphore, the requests under way | gradio asks the controller for an address and streams from that worker; workers register and beat; a thread expires them; refresh polls them all | two event loops with blocking calls to each other, a thread that shares a dictionary with a loop, crashes and restarts | no slot is lost or handed out twice, accepted requests are served, live workers come back, dead ones go |
| `tools/MMBench_EVAL`: judged evaluation | `tmp_file`, the scoring file, verdicts in memory | MathVista, MMVet and multiple choice judge lines through `track_progress_rich` and its pool | results out of order, a kill at any point, a restart from half a file | a verdict per line, about its own line, kept over restarts |
| `examples/LocateAnything/python/model`: multi-token decoding | the known tokens, the KV cache, the mode | `generate` takes windows of six tokens or single ones; masks in two implementations and one for training | a cache that must forget what the window left, masks by index arithmetic, changes of mode | cache and masks are as if tokens had come one by one; every round advances |
| `examples/Qwen3_5/python`: hybrid model | convolution and recurrent states, rotary positions, `rope_deltas` | a prompt at once in padded chunks, its answer token by token from the states | two algorithms for one function, and the handover between them | outputs and positions are those of one run |
| other Python model definitions, export variants | none of their own | network layers | numeric | see the two above |
| `tools/rknn3_llm_test`, single-device conversions | a session | one measured run | none | averages |
| tokenizer, image and audio utilities, export scripts | none that interacts | pure functions; the conversion to gguf is vendored from llama.cpp | numeric, string formats | out of reach of TLC |

### How the modules fit

| module | models |
|---|---|
| `MultiCard` | one call of `run_pipeline_once` after another, with all threads and callbacks |
| `CallState` | what a caller sees of a call (`fed`, `samples`, `input`, `outcome`, `runs`): the variables that the next two share |
| `PipelineCall` | what a call promises, without threads and slots: the abstract specification |
| `MultiCardChat` | the callers, over `PipelineCall`: interactive loop, one-shot mode, decode loop, context guard |
| `MultiCardInv` | the inductive invariants of its theorems, in a module that TLC's instance extends as well |
| `MultiCardProofs` | their theorems: types, failures, rows and the refinement; the callers |
| `MCMultiCard`, `MCMultiCardChat` | instances for TLC |
| `TtsDemo`, `TtsDemoProofs` | the TTS demo: talker, decoder thread, main; its theorems |
| `AsrOnline`, `AsrOnlineProofs` | the streaming recogniser; its theorems |
| `MultiCamera`, `MultiCameraProofs` | the multi-camera benchmark; its theorems |
| `LlavaServing`, `LlavaServingProofs`, `MCLlavaServing` | controller, workers and requests of the LLaVA serving; a theorem; its instance |
| `Evaluation`, `EvaluationProofs` | the drivers of the judged evaluations with `track_progress_rich`; their theorems |
| `LocateAnything`, `LocateAnythingProofs`, `MCLocateAnything` | multi-token decoding and the masks; its theorems; its instance |
| `GatedDelta`, `RopeIndex` | the gated delta rule and the convolution in both forms; the rotary positions: pure algorithms |
| `HybridCache`, `HybridCacheProofs`, `MCHybridCache` | generation over the two, with the cache; its theorems; its instance |

`MultiCardChat` takes a call of the pipeline as `PipelineCall`'s `CallStart`, `Feed` and
`Return`; `MultiCard` implements the same module under the refinement
`running <- pc[0] # "idle"` (property `ImplementsCall`). So the chat is checked
against the promise and the promise against the threads.

Definitions named `<action>_<variant>` are deliberately wrong variants, each a
plausible slip in that code. No specification uses them; they serve to confirm that
a property notices the slip.

## Correspondence with the code

### MultiCard

`pc[0]` is the calling thread, `pc[k]` worker k. The variables are the fields of the
slots by their names, `batch` and `consumed_tokens` are a worker's locals, and `fed`
and `exact` stand for the KV caches, which the code cannot see. A tensor is the range
of token positions its rows stand for (`lo..hi`), and `n` is the number of tokens the
code believes it to have: the two differ when the guess in `stage_output_callback`
(`CountTokens`) is wrong.

An action is one critical section, or one call of the runtime. `wait_stage_batch`
is `WaitBlock`, `WaitTake` or `WaitEnd`; the second look at the slot, under another
lock, is `Drain` or `Abort`. `fail_pipeline` is one `FailSlot` per slot, as it takes
and releases each mutex in turn. A session run is `Run` or `RunError`; the output
callback happens inside it, before it returns success or an error. A condition
variable is the flag `asleep`: set under the lock by `WaitBlock`, cleared by a
notification. Only one thread ever waits on a slot, so that `notify_one` is enough.
Spurious wake-ups add nothing: the predicate is looked at again.

External and assumed: how much of the input the runtime embeds before it computes
a bucket (all of it when `EmbedUpfront`, otherwise any amount that covers the next
bucket), that it computes `RtBucket` rows at a time, appends them to the cache in
order, and calls `stage_output_callback` once per bucket. A run of a later stage
gets one batch and reports it as finished.

### MultiCardChat

`ctl` says where `main` or `run_chat_turn` is; `kv[k]` counts the rows of stage k's
cache over all calls. `ReadLine` is everything from the prompt to the call: the
context guard with its clearing of the caches, the choice of the system prompt, the
call. Only the interactive loop adds the system prompt (`Opens`); a one-shot prompt, or the
tokens of the performance mode, go as they are (`main.cc:2395-2399`). `interactive` and
`ignore_eos` are the options, chosen at the start.
`systems` and `cut` are history: system prompts in the caches, and turns that broke
off since the caches were cleared.

### TtsDemo

The talker's run is `Token`, then `Push` or `PushBad` (the code predictor and
`talker_callback`), then `FeedText` (the embedding callback), until `ReportEnd`
(`FINISH`, or `STOP` after `rknn3_session_stop`) or `ReportAbort` (`ERROR`,
`MAX_NEW_TOKEN_REACHED`). `CloseStream` is the empty frame `talker_callback` gets
after `ReportEnd`. A frame of codes is its number. `rknn3_session_stop` and
`rknn3_session_destroy` are taken to return only when the run is over.
When the code predictor fails, later lines of the callback read codes that are not
there; this read is undefined and only its frame's refusal is modelled. `waited` is
history: the runtime reported `RKLLM_RUN_WAITING`.

### AsrOnline

One action per round, because nothing runs concurrently. `TextOf` and `TextStarted`
are `decode_asr_text`: what comes after the separator token, or everything once the
text has started. A decoded token is the token itself; decoding is taken to be
piecewise, which holds for tokens and not for a character split between two.

### MultiCamera

One action per step of `main`'s loops and per critical section of a worker.
`running` is a plain `bool` that `main` reads without the lock: a data race, which
the compiled program performs as a single byte access, so that the read gives the
old value or the new one, and that is what the interleavings contain. `Interrupt` is
SIGINT, with its default action while no handler is installed.

### LlavaServing

The endpoints of controller and worker run to their next `await`, so that an action is
such a piece; a thread's action is what it does between two accesses to shared data. A
worker whose loop waits in `send_heart_beat` is `Blocked`: it takes no other request, and
does not answer the controller. `info` is `worker_info` with the queue lengths, `stale`
those whose last heart beat is too old. `ScanBegins`, `ScanEnds` and `Expire` are
`remove_stable_workers_by_expiration`: an entry added during the iteration raises
(`broken`), and an entry that has gone raises a `KeyError`; either ends the thread. A
request is counted by `GetAddress`, waits for the semaphore, holds its slot until
`Release`, and may break off in between (`StreamBreaks`). `lost` is history:
slots of requests whose registration in the endpoint failed, so that the answer and its
background task were never made.

`model_semaphore` is an `asyncio.Semaphore`, which is not made for threads. The loop
acquires it (`model_worker.py:239`), but the background task that releases it is a plain
function, which the framework runs in a pool thread (`:225-226`, `:243`). Its two operations
are therefore split where the other thread can come in between. `acquire` is `Arrive`, which
looks whether a slot is free and nobody waits (`Locked`) and takes it, or goes on to
`QueueUp`, which appends a waiter; a waiter that was woken finishes in `Acquire`. `release`
is `Release`, which raises the value, and `Wake`, which gives the slot to a waiter
(`WakeUpNext`). While the loop is inside `acquire` it does nothing else (`LoopFree`).
`missed` is history: requests that were between look and append when a release found no
waiter. So the model has what the code does: a request that queues up just after the release
is not woken by it, and when a newcomer takes the raised slot before `Wake` gives it to a
waiter, the value falls below zero and one request more than the limit runs.

Assumed: `asyncio.Semaphore` as in Python 3.11 (from 3.10.8); raising the value, and the
look for a waiter, are one step each under the interpreter's lock; a call that a pool thread
schedules in the loop is run at its next turn; any of the waiting requests may be next at
the semaphore, `argmin` takes any of equal queues, and the framework runs the background
task also when the client is gone.
Threads of `model.generate` outlive a stream that breaks off, after 15 s without a token or
10 s without the client; more generations than slots may then run at once.

### Evaluation

A file is `absent`, `torn` or whole, and `has` is what it holds: nothing while it is torn, as
`dump` opens it for writing, which empties it. Every dump is two actions, `InitSave` and
`Create`, `OpenSave` and `Save`, `OpenStorage` and `Store`, and so on. `saved` is history:
the verdicts whose dump came to its end. `Start` finds the files of the run before, `Stop` is a kill, or a call
of the judge that raises, at any point. `Deliver` hands a chunk of the pool's results
over in any order; with one process the tasks go in order, each judged twice
(`mp_util.py:147-148`). A torn `tmp_file` cannot be loaded: the evaluation fails at every
later start until the user deletes the file, and every verdict in it is lost. `InOrder` is the comprehension that lists
what has no verdict yet, in the order of the lines.

### LocateAnything

A token is its class; `zero` is a coordinate that the averaging of a box gave up. A row
of the cache is the token and position it belongs to and the set of tokens and
positions it attended to, which is what determines its keys and values. A round is one
action: inputs, forward, cut of the cache, pattern, change of mode.
`SdpaColumns` and `build_magi_ranges` are the masks of the two implementations,
`TrainedColumns` that of training. The sdpa mask begins from a causal mask with
`config.sliding_window` (`CausalColumns`; `modeling_qwen2.py:1276`), 4096 by default and kept
whatever `use_sliding_window` says (`configuration_qwen2.py:113-126`); the other two have no
such limit. `sliding_window` is therefore a variable chosen at the start, the rows of the
cache see back only as far as it, and the two properties that compare masks are about calls
that fit in it (`WithinSlidingWindow`): past it the implementations do differ. A row sees
`sliding_window` columns before its own, as `_prepare_4d_causal_attention_mask` of
transformers 4.57 has it; whether its own column counts makes no difference to what fits.

### HybridCache

A hidden state has the five inputs of the gated delta rule, with two channels per key
and one per value. Both forms of the rule are polynomials in them (the exponentials enter
as the factors `decay`), so they are evaluated over the integers: the question is whether
the two algorithms compute one function, and not how floating point rounds it. What both
forms do alike (l2norm, scale, silu, the gate after the rule) is left out. Of the full
attention layers only the positions of their cached keys are kept. `Begin` is a
conversation's prompt, `Decode` a token of the answer, `Extend` a later turn computed at
once. No call has an `attention_mask`, so that `compute_3d_position_ids` takes its
other branch; a prompt has no video, and text after every image, as the chat template puts
it (two images side by side would be one group of the code). `Extend` keeps the state of the convolution but starts the rule from none
(`modeling_qwen3_5.py:740`), so that `OutputsAsInOneRun` speaks of conversations without
such a turn.

The references are written as one would define them and not as the code computes them:
`DeltaStep` is the rule as a matrix applied to the state, `OneLayer` and `OneRun` all tokens
through all layers from nothing, `Placed` and `OneRunPositions` a token after every position
so far and an image as a grid of cells that begins there. `PositionsAsInOneRun` compares up
to one shift, the position of the first key, as rotary attention sees differences only.

## The checks

| run | instance | what it asks |
|---|---|---|
| `core` | 3 cards, bucket 2, inputs 1 and 3, 2 calls | `InFlightInOrder`: everything stage k-1 computed is in stage k's cache, its worker's hand or the slot, once and in order. `NothingGarbled`: no cache gets a row that is not the row of its position. `SuccessIsComplete`, `ErrorsSurface`: true is returned only for a complete call without an error. `CallReturns`: no lost wake-up, no join for ever. `ImplementsCall`: refinement of `PipelineCall`, with its liveness; there one token is sampled, at the end |
| `buckets` | 3 cards, `--bucket-size` 4 over a compiled bucket of 2, inputs 1 and 7, embedding ahead by any amount | type invariant, `NothingGarbled` |
| `chat` | 2 cards, prompts 1 and 2, 2 new tokens, limit 6, 3 turns, all options | counters against caches, caches against each other, one system prompt in a conversation and none for a one-shot prompt, prompts fit, all steps made under `--ignore-eos`, turns end |
| `tts` | windows of 2 with 2 frames of context, 9 tokens, 3 text entries | `FramesOnceInOrder`, `ContextIsLeft`, `SuccessIsWhole`, `TextInOrder`, `CallbacksAlive`, `DemoEnds` |
| `tts_end` | 4 tokens | finding 2 |
| `asr` | 4 rounds, answers of up to 3 tokens, 1 token and 1 round rolled back | `DisplayIsWhole`: the pieces printed so far and the unfixed tail are the text of all tokens; `FinalIsWhole` |
| `cameras` | 2 boards, 1 or 2 devices found, frame limit 2 or none | `NoUseAfterRelease`, `ReportIsFinal`, `AllReleased`, `Ends` |
| `serving` | 1 request and 2 workers, or 2 requests at 1 worker, with one crash of either side or one refresh; 1 request at 1 worker with both; 3 requests at 1 worker; limit 1 | `SlotsAccounted`: no slot is lost or made; `AcceptedIsServed`: an accepted request gets a slot and its answer, unless a release fell into its acquire, and worker and controller do not wait for each other; `LiveWorkerListed`, `DeadWorkerForgotten` |
| `evaluation` | 4 lines or groups, 1 settled without the judge, chunks of 2 or 3, 3 starts | `SavedIsReturned`: the assertion after the loop; `ScoreIsOfAll`; `VerdictsKept`: no verdict is lost over restarts but by a kill inside a dump, and then no run goes on |
| `eval_twice` | 2 lines, one process | finding 1 |
| `decoding` | prompts of 1 and 2, up to 8 new tokens, 3 modes, 9 kinds of window, 5 single tokens, a sliding window of 7 or of 4096 | `CacheIsOfGenerated`, `MasksAgree` (sdpa against magi), `WindowAsTrained`, `ArInsideBox`, `RoundsAdvance` |
| `hybrid` | chunks of 3, kernel of 3, 2 layers, prompts of 1, 2, 3, 5, 6 and with images, 2 conversations up to 7 tokens | `OutputsAsInOneRun`, `PositionsAsInOneRun` |

Why the bounds are enough. Three cards give each kind of stage: the first, one in the
middle that both consumes and produces, the last. An input of a bucket and a part
gives a full and a short batch, and two in one queue; a second call meets what a
failed first one left behind. Larger inputs repeat the same steps. In `chat` the
third turn is the one that finds the context nearly full, and the caches are cleared
within the bound. In `tts` nine frames are a first window of four, two chunks and a
short tail, and three text entries end before the frames do. In `asr` the separator
falls in a round that is rolled back, in the stable part, in the last round, several
times or nowhere; the context bound of 12 is reached. In `cameras` a
saturating frame counter stands for a channel that runs for ever. In `serving` two
requests are what it takes to compete for a slot, to hold a loop that the other
needs and to have a release fall into an acquire; with three, one takes the slot that is
being handed to another, and the value falls below zero. Two workers are needed to have one
enter `worker_info` while another is expired or polled; one crash or one refresh is enough
to disturb each of those, and with one request both happen in one behaviour. The branch of
`Acquire` for a value above zero needs a limit of two and four requests, which is beyond
this instance; the theorem covers it. In `evaluation` three starts let a run be killed, resumed and
killed again, and four lines in chunks of three leave a short chunk. In `decoding` eight
tokens are passed by a window that begins at the seventh, and hold a broken box that
is finished by single tokens, and a window after it; a sliding window of 7 is shorter than
the second call of a window, so that both sides of `WithinSlidingWindow` are met. In `hybrid` the prompts fill no
chunk, a part of one, one, one and a part, two.

### Fairness

Weak fairness for each thread: the operating system schedules it, and each call of
the runtime returns. In `MultiCard` that is the caller and each worker; in `TtsDemo`
the runtime's thread, the decoder thread and `main`, the run being bounded by
`max_new_tokens`; in `MultiCamera` main and each worker, where nobody is obliged to
press Ctrl-C. In `MultiCardChat` the user may stop typing (`ctl = "read"`), everything
else goes on. In `LlavaServing` the loops and the threads run, each generation ends,
and heart beats grow old; that a process is started again, a page loaded or a stream
broken off is left to chance, so the properties name what they need of it: that the
controller is not down for ever, that a thread has not died. The other modules have no
liveness property; `RoundsAdvance` bounds the rounds of `LocateAnything` by the tokens. Deadlock
is checked in the modules of multicard, the recogniser and the cameras. It is not in
`TtsDemo`, where the program does stop for ever when a run aborts (finding 2), and
where all the work may be done (`Evaluation`, `LocateAnything`, `HybridCache`) or no
crash and request be left (`LlavaServing`).

## Findings

1. `eval_twice`: with `--nproc 1`, `track_progress_rich` calls `worker(task)` for the
   result it saves (`mp_util.py:147`) and again for the one it returns (`:148`). The
   judge may answer differently, and the assertion at `mathvista_eval.py:197` that
   compares the two ends the evaluation. The groups of `multiple_choice.py` go through the
   same two calls to the assertion at `:230`.
2. `tts_end`: on `RKLLM_RUN_ERROR` and `RKLLM_RUN_MAX_NEW_TOKEN_REACHED`
   `talker_result_callback` does not call `output_callback`; `talker_done` stays
   false, the decoder thread sleeps and `main` waits for `finished` for ever.

### Divergences noted

Seen while modelling and given no run of their own:

- `examples/multicard/cpp/main.cc:2323` has `context_tokens` count what the conversation
  occupies. When a decode step fails the loop is left with `break` (`:1917`) and the turn
  still counts as a success: the rows of that step are in some caches and in no
  counter. `ContextTokensLag` and `CachesInStep` bound the drift.
- `examples/multicard/README.md:164-167` ends the decode loop at an EOS. The token
  sampled by the prefill is not compared with it (`main.cc:1906-1913`), so that an empty
  answer is decoded past its end.
- When `talker.Init` or `talker.Process` fails, `examples/Qwen3_TTS/cpp/main.cc:289-304`
  returns without joining the decoder thread; destroying a joinable `std::thread`
  terminates the process.
- `talker.cc:444` compares a count of steps from 1 and indexes from 0: the last entry of
  the trailing text, `tts_eos` (`:963-964`), is never fed. `TextInOrder` states what is.
- The comments of the two macros at `examples/Qwen3_ASR/cpp/online_main.cc:40-41` seem
  to be swapped. When a round fails in the middle of the audio, `ret` is overwritten by the
  result of the release (`:540`), so that the process may return 0.
- `multi_camera_demo.cc:17` says that Ctrl-C prints the report at any time, which
  holds once the channels are initialised; when a board has no device `main` returns at
  `:222` without releasing the channels of the boards before it.
- LLaVA serving: a worker that beats between the scan and the deletion is deleted, and
  comes back with its next heart beat; the expiry thread may die for good (see above).
- `model_worker.py:226` releases an `asyncio.Semaphore` from a pool thread. A release that
  falls into an acquire of the loop may wake nobody: a request then sleeps beside a free
  slot until another request is released (`AcceptedIsServed` says when); and one request
  more than `--limit-model-concurrency` may be let in.
- `modeling_qwen2.py:1276` limits the sdpa mask by `config.sliding_window` although
  `use_sliding_window` is false by default: past it the two attention back ends of
  LocateAnything disagree, and windows no longer see what their blocks saw in training.
- MMBench_EVAL: a failed call of the judge is recorded by MathVista as a success, as its
  result is never `None`; a kill inside `dump` (`mp_util.py:180`) loses all verdicts of
  `tmp_file`, not only the one being added; two evaluations that share a `tmp_file` may both create it,
  unlocked; at `multiple_choice.py:141` the precedence of a conditional lets
  `rd.choice` meet an empty list; at `api/base.py:176` `answer` is unbound when every try raised.
- `modeling_qwen3_5.py`: for several frames the docstring at `:1685-1697` and the code at
  `:1664` give different temporal positions; images in a later turn get the positions of
  text (`:2300-2302`); `rope_deltas` of an earlier conversation shifts all positions of a
  text-only one, which rotary attention does not see (`PositionsAsInOneRun`).

## The proofs

The theorems hold for every value of the constants. Assumed of these is only what the
modules assume: at least one stage, positive bucket sizes and input lengths
(`NAssumption`, `BucketAssumption`, `LensAssumption`, `BoundAssumption`, `ChatAssumption`),
positive windows (`SizeAssumption`), natural numbers (`AsrAssumption`), at least one
board and channel (`CameraAssumption`), finitely many requests and a positive limit
(`ServingAssumption`), at least one line and process (`EvaluationAssumption`), prompts that
are not empty, windows of six tokens and a positive sliding window (`LocateAssumption`), a convolution with at least
one tap and chunks of at least one token (`GatedDeltaAssumption`), at least one layer,
images not smaller than what is merged into one token, prompts that are not empty, end
with text and have text after every image, as the chat template makes them
(`HybridCacheAssumption`). Four more conditions
are needed by some theorems, in whose statement they stand:

- `BucketsFit == Bucket >= RtBucket`: `--bucket-size` is not below the bucket of the
  compiled model. With a smaller one the property fails, see the end of this section.
- `EmbedUpfront`: the runtime embeds the input before stage 0 computes.
- `ReserveFits == Reserve <= Limit`: the 512 tokens of `prefill_reserve`
  (`multicard/cpp/main.cc:2346`) fit in the context. The code does not compare them;
  with a smaller context every prompt of more than the limit overflows.
- `PoolUsed == 1 \notin NProcs`: a pool. With one process the property fails (finding 1).

TLC checked each inductive invariant on a small instance before it was proved, but for the
two of `HybridCache`, which speak of functions over infinite sets: there it checks what
follows from them.

An induction over numbers is an argument by a least counterexample, since the induction
theorems of the library take an operator as a parameter, which the installed provers
cannot instantiate: directly in `EvaluationProofs` (`Smallest`, `SomeList`),
`AsrOnlineProofs` and `MultiCardProofs` (`AwakeMoves`), and in `HybridCacheProofs` once, as a lemma about the set of the numbers for
which a fact holds (`Induction`).

### MultiCard

Types, failures, rows and the call are one chain of invariants, each resting on the ones
before, so their proofs share a module, `MultiCardProofs`; the invariants are in
`MultiCardInv`.

- `Typing == Spec => [](TypeOK /\ WithinInput)`. `TypeOK` alone is not inductive: the rows
  of stage 0's next bucket are `Least(RtBucket, input - fed[0])`, a natural number only if
  stage 0 has not fed more than its input. `WithinInput` adds that, and that something is
  left to feed wherever stage 0 is about to compute a bucket.
- `NoErrorIsLost == Spec => []ErrorsSurface`. `ErrorsSurface` speaks of the moment the call
  returns, the error may be many steps old. `FailInv` follows it: a thread whose run failed
  is about to call `fail_pipeline`, is inside it, or all slots are marked
  (`ErrorPropagates`); `fail_pipeline` marks the slots in order, so that leaving it means
  all are marked (`MarksInOrder`); and a call that returned true has no thread left that
  could fail later (`OkIsFinal`). `Join` then finds a mark in every slot, or no error.
- `RowsKeepTheirOrder` (`InFlightInOrder`) and `NoRowIsGarbled` (`NothingGarbled`), under
  `BucketsFit`. They are proved together, because order rests on right counts: `FlowInv`
  says that slot k-1 continues, batch by batch, what worker k has reached, up to what stage
  k-1 has computed (`ChainInv`), that what a worker has in hand is sound or will be
  rejected (`HandInv`), and that a batch of wrong size in a slot comes only after one that
  is rejected (`SizesInv`). `SourceInv` is where the hypothesis enters: stage 0's first
  guess may be wrong only in a way that `run_stage_worker` notices.
- `SuccessIsAll` (`SuccessIsComplete`), under `BucketsFit`: `DoneInv` says that a worker that
  found its slot closed and empty, with no mark anywhere, has met the whole input, from
  the last stage back to the first.
- `NobodyWaitsForEver == Spec => []SomebodyGoesOn`: while the caller is at its joins, a worker
  it waits for is not blocked. `AwakeInv` says that who sleeps finds nothing in its slot, so
  that every change of a slot was notified, and that who has left closed its slot or found
  it marked. Of the workers that sleep the first would wait for one that has left, which
  contradicts both. It is what `CallReturns` needs beside fairness.
- `CallIsImplemented`, under `BucketsFit` and `EmbedUpfront`: `CallSafety`, that is
  `ImplementsCall` without its fairness. Initial states map to initial states of
  `PipelineCall`; the steps that begin a call, in which a card computes (`CallFeed`,
  `CallSource`, `CallRun`) and in which the caller returns (`CallReturn`) map to `CallStart`,
  `Feed` and `Return`, everything else is a stutter (`CallQuiet`). That `PipelineCall` samples when the last stage has the whole input is
  `SampleInv`.

### MultiCardChat

Also in `MultiCardProofs`: `CountNeverAhead` (`ContextTokensLag`), `CachesAgree`
(`CachesInStep`), `SystemPromptOnce` (`OneSystemPrompt`: one in an interactive conversation,
none before a one-shot prompt), `ReserveIsEnough` (`PrefillFits`,
under `ReserveFits`) and `NoStepSkipped` (`AllStepsDecoded`), from one invariant. Most of
the properties speak of the moment between two turns; `ChatInv` carries them through a
call by what each cache held when the call began (`Held`), and through a turn by the
tokens that are not yet in `context_tokens` (`Counted`).

### TtsDemo

- `EveryFrameOnceInOrder == Spec => []FramesOnceInOrder`. `FramesOK` adds the types and
  that no window is open while the thread waits. The argument is associativity: `Push`
  appends at the end of the three pieces, `TakeWindow` moves the border between pending
  and window (lemma `Split`), `Decoded` the one between window and audio.
- `WindowsHaveTheirContext` (`ContextIsLeft`): the context saved after a window is the tail
  of what will have been audible then, and a stream that is still too short for a context
  has ended (`ContextInv`).
- `CallbacksOutlived` (`CallbacksAlive`) and `NothingIsCutOff` (`SuccessIsWhole`): what
  `main` waits for has ended for good (`RunInv`); nothing is freed under a run that
  `is_generating` tells of (`AliveInv`); a decoder thread that ended without a failure has
  decoded all (`EndInv`).
- `TextIsFedInOrder` (`TextInOrder`): the number of entries fed is a function of the step
  and of where in the step the talker is (`TextInv`).
- `NothingSleptThrough == Spec => []DecoderGoesOn`: when the talker's end was noticed, main sleeps
  or joins only while the decoder thread is awake and at work (`SleepInv`). An end that is
  not noticed is finding 2.

### MultiCamera

`NothingReleasedInUse` (`NoUseAfterRelease`), `ReportsAreFinal` (`ReportIsFinal`) and
`EverythingIsReleased` (`AllReleased`), for any number of boards and channels. The
invariant says that `running` is set as long as the worker may touch its channel
(`RunningIsLive`), so that a cleared flag is as good as a join; which workers are through
at each point of `main`'s loops (`Progress`); and what `main` holds meanwhile
(`Holdings`, `LeftOpen`). Each worker stores its time and counts before it clears the
flag: the order is what the proof rests on.

### AsrOnline

`PiecesMakeTheText` (`DisplayIsWhole`) and `FinalIsPrinted` (`FinalIsWhole`), for audio of any
length and any answers. `Pieces` ties the three decodings to one: `started` is whether the
committed tokens hold the separator, `printed` is their text, `unfix` the text of what is
rolled back given `started`. What makes it inductive is the lemma `TextOfParts`: the text
of two parts is the text of the first and of the second decoded with whether the first
has started, wherever the separator is.

### LlavaServing

`SlotsNeverLeak == Spec => []SlotsAccounted`, for any workers, requests and limit, and any
number of crashes. `SlotsAccounted` lacks the reason why a slot may be lost:
`LostByCrash` adds that a controller that is down has crashed. The requests fall into
those that go on with what they hold, that take a slot, that hand it to a waiter and that
leave it (lemmas `GoesOn`, `GetsSlot`, `HandsSlot`, `LeavesSlot`, by the cardinality of the
holders), and a worker that dies takes its semaphore and its holders along. The value may
be negative: nothing in the argument needs acquire and release to exclude each other.

### Evaluation

`WhatIsSavedIsReturned` (`SavedIsReturned`, under `PoolUsed`), `EveryLineIsScored`
(`ScoreIsOfAll`) and `NoVerdictIsLost` (`VerdictsKept`). The invariant
follows a key from `keys` through a chunk of tasks, the results that arrived and those that
are saved: it is in one of them (`EveryTask`) and in one only (`TasksOnce`, `ArrivedOnce`,
`SavedOnce`), and has a verdict in `tmp_file` exactly when it is saved. A run that resumes
judges what has no verdict, each once (`Covered`, `Fresh`, `KeysOnce`), from the list that
`InOrder` makes and the chunks of it (lemmas `InOrderLists`, `ChunkFacts`). `Stop` may come
anywhere: what is not in a file is not needed. For `NoVerdictIsLost` the verdicts in memory
during a dump are those that the file held before and the new one (`Before`), so that the
`saved` ones are in the file or in memory at every step (`SavedKept`), unless a kill inside a
dump left the file torn; from there `Start` goes nowhere.

### LocateAnything

- `CacheNeverPolluted` (`CacheIsOfGenerated`), `GenerationAdvances` (`RoundsAdvance`) and
  `SingleStepsInBox` (`ArInsideBox`), for all prompts, guesses, modes, lengths and sliding
  windows. The first needs that the rows of known tokens are masked causally in a window as well as in
  a single step; the second that each pattern has a token and none more than six; the
  third that a broken box keeps its `<box>` and only coordinates, and that every other
  token ends the generation or goes back to windows.
- `BackendsAgree` (`MasksAgree`): the ranges of `build_magi_ranges` cover the columns of the
  sdpa mask, row by row, for every length of the cache and of the call (`CallFits`), as long
  as the call fits in the sliding window, where the causal mask is whole (`CausalWhole`).
- `WindowsSeeTheirTraining` (`WindowAsTrained`): a window's columns, which name one token
  twice and skip another, map onto the columns its block has in training; their number is
  the same (`SeenCounts`). Also within the sliding window.

### HybridCache

For every chunk size, kernel, number of layers, prompt, answer and later turn.

- `PositionsCorrect` (`PositionsAsInOneRun`). `PosInv` says that `rope_deltas` is the next
  position less the number of tokens, less the shift that an earlier conversation left, and
  that all positions of the cache lie before that next one (`Reach`). Two lemmas about
  `get_rope_index` carry it: its positions are those of the reference, group by group, and
  the position it goes on with is the largest plus one. For an image that needs a grid of
  at least one cell, as the code advances by the larger side.
- `ChunkRuleIs`: the rule in padded chunks gives the outputs and the state of the rule for
  one token, input after input. `DecayMask` is the product of decays, so that a state
  is the decayed state before the chunk plus one term per key. Forward substitution,
  row after row, solves a triangular system, whose only solution are the differences
  that the rule for one token computes (`Solves`, `NewValues`); the chunks then
  continue each other, and the padding changes neither state nor outputs.
- `OutputsCorrect` (`OutputsAsInOneRun`). The convolution of an input is that of the window of
  `K` inputs that end with it, whether they come from the state or from the prompt
  (`Window`). `OutInv` says that the states of every layer are those of one run over all tokens
  of the conversation, which exists (`Through`): for a prompt layer by layer, since each
  gets what the one before gave, and for a token more likewise. A prompt of one token that
  comes first takes the chunked form, a token past the first call the other one; that
  `has_previous_state` looks at the last layer only, while the layers before it already have
  new states, does no harm because the last one is reached last (`UpTo`).

### What is not proved

Only model-checked: liveness and its fairness (`CallReturns`, `DemoEnds`, `TurnsEnd`,
`Ends`, `AcceptedIsServed`, `LiveWorkerListed`, `DeadWorkerForgotten`, and the liveness half
of `ImplementsCall`), which are out of the prover's reach; of the first two, `NobodyWaitsForEver` and
`NothingSleptThrough` are the half that is not about fairness. Every safety invariant of the
passing runs has a theorem. That a request sleeps beside a free slot only as
`AcceptedIsServed` says is part of a liveness property, and so only model-checked.

Some properties hold under conditions worth knowing. `NothingGarbled` needs
`--bucket-size` not below the bucket of the compiled model: a smaller one makes
batches claim fewer tokens than they hold, which nothing checks. And `ImplementsCall`,
with its one token sampled at the end, needs a runtime that embeds the input before
stage 0 computes: the last stage compares its count with `expected_tokens` of slot 0,
which must be final. `MasksAgree` and `WindowAsTrained` need calls within the sliding window.

## Not modelled

- Opening and destroying the stages of multicard, its option parsing, its UTF-8 line
  editor and statistics; the construction of the prefill embeddings of the talker and
  its speech decoder (computations on floating point data); the start-up of the
  recogniser before its loop.
- The streaming recognisers zipformer, wenet, whisper and sensevoice (chunk loops in one
  thread over overlapping audio), functiongemma (a sequential exchange of strings), and
  the demos with a single device, which make one synchronous call per prompt.
- LLaVA serving: the lottery dispatch, a controller that acts as a worker, and what a
  model computes. MMBench_EVAL: inference over the datasets, the parsing of answers,
  other metrics and the interfaces of the judges.
- LocateAnything: the averaging of a box's coordinates, sampling, the vision model.
  Qwen3_5: attention with padding masks in a direct forward past the first call, the
  values of full attention, batches, the vision model, the rewritten copies for export.
- The other network definitions (gemma4, paddleocr_vl, ...): layers that compute and
  keep nothing. `tokenizer/thirdparty` is llama.cpp's; the tokenizer, image, audio and
  post-processing utilities are numeric or string code; export scripts are batch jobs.

Most of the repository's Python is of the last two kinds, vendored tables and copies of
network definitions, so that the share of its lines that state machines can stand for is small.

## Plan

Done: `MultiCard` with `PipelineCall`, `MultiCardChat`, `TtsDemo`, `AsrOnline`,
`MultiCamera`, `LlavaServing`, `Evaluation`, `LocateAnything`, `HybridCache`; and theorems
for every safety property of theirs. Left, by importance:

1. The life cycle of a multicard stage, `init_stage` and `destroy_stage` with their error
   paths, beside `MultiCard`.
2. zipformer and wenet: chunk offsets that cover the audio, and the collapse of repeated
   tokens, against a reference definition.

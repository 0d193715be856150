------------------------------ MODULE MultiCard ------------------------------
(***************************************************************************)
(* One call of run_pipeline_once (examples/multicard/cpp/main.cc): a model *)
(* cut into N segments, one per NPU card.  The calling thread runs segment *)
(* 0, and one worker thread per further segment takes batches of hidden    *)
(* states from slot k-1, runs its card and, through stage_output_callback, *)
(* puts its own output in slot k.  Slots are guarded by a mutex and a      *)
(* condition variable each, and every action below is one critical section *)
(* or one call of the runtime.  MaxRuns calls follow one another, so that  *)
(* what one call leaves in the slots meets the reset of the next.          *)
(*                                                                         *)
(* Tensors are abstracted to the token positions their rows stand for: a   *)
(* batch has rows for the positions lo..hi, and n is what the code         *)
(* believes their number to be.  fed[k] counts the rows appended to the KV *)
(* cache of stage k in this call, exact[k] is FALSE once one of them was   *)
(* not the row of its position.                                            *)
(***************************************************************************)
EXTENDS CallState, Sequences

CONSTANTS
  Bucket,       \* g_bucket_size (--bucket-size)
  RtBucket,     \* rows of one bucket of the compiled model (external)
  EmbedUpfront  \* the runtime embeds the whole input before stage 0 (external)

ASSUME NAssumption == N \in Nat \ {0}
ASSUME BucketAssumption ==
  /\ Bucket \in Nat \ {0}
  /\ RtBucket \in Nat \ {0}
ASSUME LensAssumption == Lens \subseteq Nat \ {0}
ASSUME BoundAssumption == EmbedUpfront \in BOOLEAN /\ MaxRuns \in Nat

Workers == 1 .. N-1
Last    == N-1

Least(a, b) == IF a < b THEN a ELSE b

VARIABLES
  batches,             \* StageSlot::batches, by slot
  expected_tokens,     \* StageSlot::expected_tokens
  emitted_tokens,      \* StageSlot::emitted_tokens
  active_input_tokens, \* StageSlot::active_input_tokens
  producer_done,       \* StageSlot::producer_done
  failed,              \* StageSlot::failed
  pc,                  \* where the thread of each stage is, 0 being the caller
  asleep,              \* worker k is blocked in the cv of slot k-1
  batch,               \* the batch a worker has taken
  consumed_tokens,     \* consumed_tokens of a worker
  sampling,            \* ~disable_sampling of the last stage's next run
  ret,                 \* what the last rknn3_session_run returned, by stage
  failing,             \* next slot fail_pipeline marks, by thread
  exact,               \* the rows appended to the KV cache were the right ones, by stage
  has_token            \* g_last_stage_result.has_token

slotVars == <<batches, expected_tokens, emitted_tokens, active_input_tokens,
              producer_done, failed>>
workVars == <<batch, consumed_tokens, sampling>>
kvVars   == <<fed, exact>>
resVars  == <<has_token, samples>>
callVars == <<input, outcome, runs>>
vars == <<slotVars, pc, asleep, workVars, ret, failing, kvVars, resVars, callVars>>

Batch   == [lo : Nat, hi : Nat, n : Nat]
NoBatch == [lo |-> 0, hi |-> 0, n |-> 0]

CallerStates == {"idle", "embed", "bucket", "return", "failing", "close", "join"}
WorkerStates == {"wait", "ended", "finish", "check", "run", "ran", "failing", "done"}

Init ==
  /\ batches = [k \in Stages |-> <<>>]
  /\ expected_tokens = [k \in Stages |-> 0]
  /\ emitted_tokens = [k \in Stages |-> 0]
  /\ active_input_tokens = [k \in Stages |-> 0]
  /\ producer_done = [k \in Stages |-> FALSE]
  /\ failed = [k \in Stages |-> FALSE]
  /\ pc = [k \in Stages |-> IF k = 0 THEN "idle" ELSE "done"]
  /\ asleep = [k \in Workers |-> FALSE]
  /\ batch = [k \in Workers |-> NoBatch]
  /\ consumed_tokens = [k \in Workers |-> 0]
  /\ sampling = FALSE
  /\ ret = [k \in Stages |-> TRUE]
  /\ failing = [k \in Stages |-> 0]
  /\ fed = [k \in Stages |-> 0]
  /\ exact = [k \in Stages |-> TRUE]
  /\ has_token = FALSE /\ samples = 0
  /\ input = 0 /\ outcome = "none" /\ runs = 0

Goto(t, label) == pc' = [pc EXCEPT ![t] = label]

\* notify_one / notify_all on the condition variable of slot s: only worker
\* s+1 ever waits there.
Notify(s) == asleep' = [k \in Workers |-> IF k = s+1 THEN FALSE ELSE asleep[k]]

(***************************************************************************)
(* The calling thread.                                                     *)
(***************************************************************************)

\* The slots and the result are reset and the workers are started.  No worker
\* of an earlier call is alive: it was joined.
Start(n) ==
  /\ pc[0] = "idle" /\ runs < MaxRuns
  /\ batches' = [k \in Stages |-> <<>>]
  /\ expected_tokens' = [k \in Stages |-> 0]
  /\ emitted_tokens' = [k \in Stages |-> 0]
  /\ active_input_tokens' = [k \in Stages |-> 0]
  /\ producer_done' = [k \in Stages |-> FALSE]
  /\ failed' = [k \in Stages |-> FALSE]
  /\ pc' = [k \in Stages |-> IF k = 0 THEN "embed" ELSE "wait"]
  /\ asleep' = [k \in Workers |-> FALSE]
  /\ batch' = [k \in Workers |-> NoBatch]
  /\ consumed_tokens' = [k \in Workers |-> 0]
  /\ sampling' = FALSE
  /\ ret' = [k \in Stages |-> TRUE]
  /\ failing' = [k \in Stages |-> 0]
  /\ fed' = [k \in Stages |-> 0]
  /\ exact' = [k \in Stages |-> TRUE]
  /\ has_token' = FALSE /\ samples' = 0
  /\ input' = n /\ outcome' = "none" /\ runs' = runs + 1

\* The rows stage 0 computes in its next bucket.
NextRows == Least(RtBucket, input - fed[0])

\* The tokens embedded so far with those of one more call of embed_callback: the
\* whole input, or at least the rows of the next bucket.
EmbeddedTotals == IF EmbedUpfront THEN {input} ELSE fed[0] + NextRows .. input

\* embed_callback, called by the runtime before the rows are computed.
Embed ==
  /\ pc[0] = "embed"
  /\ \E total \in EmbeddedTotals :
       expected_tokens' = [expected_tokens EXCEPT ![0] = total]
  /\ Goto(0, "bucket")
  /\ UNCHANGED <<batches, emitted_tokens, active_input_tokens, producer_done, failed,
                 asleep, workVars, ret, failing, kvVars, resVars, callVars>>

\* Mutant: without the comparison, the difference wraps below 0.
Remaining_Unguarded(s) == expected_tokens[s] - emitted_tokens[s]

Remaining(s) ==
  IF expected_tokens[s] > emitted_tokens[s]
  THEN expected_tokens[s] - emitted_tokens[s] ELSE 0

\* Mutant: every output is taken for a full bucket.
CountTokens_FullBucket(s, finished) ==
  IF active_input_tokens[s] > 0 THEN active_input_tokens[s] ELSE Bucket

\* The n_tokens stage_output_callback gives the batch it puts in slot s.  A
\* count of 0 is replaced by the rows of the output tensor.
CountTokens(s, finished) ==
  LET guess == IF active_input_tokens[s] > 0 THEN active_input_tokens[s]
               ELSE IF finished THEN Remaining(s)
               ELSE Least(Bucket, Remaining(s))
  IN  IF guess = 0 THEN RtBucket ELSE guess

\* stage_output_callback of stage s with rows for the next m positions.
Output(s, m, finished) ==
  LET n == CountTokens(s, finished) IN
  /\ emitted_tokens' = [emitted_tokens EXCEPT ![s] = @ + n]
  /\ batches' = [batches EXCEPT
       ![s] = Append(@, [lo |-> fed[s] + 1, hi |-> fed[s] + m, n |-> n])]
  /\ Notify(s)

\* The runtime samples a token; result_callback stores it when the state is
\* RKLLM_RUN_NORMAL and not, for instance, RKLLM_RUN_WAITING.
Sample ==
  /\ samples' = samples + 1
  /\ \E stored \in BOOLEAN : has_token' = (has_token \/ stored)

\* A single stage is also the last one and runs with sampling enabled.
SamplesBySelf(finished) == N = 1 /\ finished

\* The runtime computes one bucket of stage 0.  Only a stage that is not the
\* last one has an output callback; a single stage samples by itself.
Stage0Bucket ==
  LET m == NextRows
      finished == fed[0] + m = input
  IN
  /\ pc[0] = "bucket"
  /\ fed' = [fed EXCEPT ![0] = @ + m]
  /\ IF N > 1 THEN Output(0, m, finished)
              ELSE UNCHANGED <<emitted_tokens, batches, asleep>>
  /\ IF SamplesBySelf(finished) THEN Sample ELSE UNCHANGED resVars
  /\ Goto(0, IF finished THEN "return"
             ELSE IF expected_tokens[0] >= Least(fed'[0] + RtBucket, input)
             THEN "bucket" ELSE "embed")
  /\ UNCHANGED <<expected_tokens, active_input_tokens, producer_done, failed,
                 workVars, ret, failing, exact, callVars>>

\* rknn3_session_run of stage 0 returns success.
Stage0Ok ==
  /\ pc[0] = "return"
  /\ Goto(0, "close")
  /\ UNCHANGED <<slotVars, asleep, workVars, ret, failing, kvVars, resVars, callVars>>

\* It fails: while tokenizing or embedding, in a bucket whose rows may already
\* be in the cache, or after the last one.
Stage0Error ==
  /\ pc[0] \in {"embed", "bucket", "return"}
  /\ ret' = [ret EXCEPT ![0] = FALSE]
  /\ Goto(0, "failing")
  /\ \/ UNCHANGED fed
     \/ pc[0] = "bucket" /\ fed' = [fed EXCEPT ![0] = @ + NextRows]
  /\ UNCHANGED <<slotVars, asleep, workVars, failing, exact, resVars, callVars>>

\* One iteration of fail_pipeline, run by the thread of stage t.  Afterwards the
\* caller goes on to close slot 0 and a worker returns, its output slot left open.
FailSlot(t) ==
  LET s == failing[t] IN
  /\ pc[t] = "failing" /\ s \in Stages
  /\ failed' = [failed EXCEPT ![s] = TRUE]
  /\ Notify(s)
  /\ failing' = [failing EXCEPT ![t] = s + 1]
  /\ IF s < Last THEN UNCHANGED pc ELSE Goto(t, IF t = 0 THEN "close" ELSE "done")
  /\ UNCHANGED <<batches, expected_tokens, emitted_tokens, active_input_tokens,
                 producer_done, workVars, ret, kvVars, resVars, callVars>>

\* Mutant: nobody is notified.
CloseSlot_Silent(s) ==
  /\ producer_done' = [producer_done EXCEPT ![s] = TRUE]
  /\ UNCHANGED asleep

\* close_stage_slot.
CloseSlot(s) ==
  /\ producer_done' = [producer_done EXCEPT ![s] = TRUE]
  /\ Notify(s)

\* The caller closes slot 0, whether or not stage 0 succeeded.
CloseFirst ==
  /\ pc[0] = "close"
  /\ CloseSlot(0)
  /\ Goto(0, "join")
  /\ UNCHANGED <<batches, expected_tokens, emitted_tokens, active_input_tokens, failed,
                 workVars, ret, failing, kvVars, resVars, callVars>>

\* Mutant: the workers are not joined.
Join_Detached ==
  /\ pc[0] = "join"
  /\ outcome' = IF ret[0] /\ \A s \in Stages : ~failed[s] THEN "ok" ELSE "failed"
  /\ Goto(0, "idle")
  /\ UNCHANGED <<slotVars, asleep, workVars, ret, failing, kvVars, resVars, input, runs>>

\* All workers are joined and run_pipeline_once returns.
Join ==
  /\ pc[0] = "join"
  /\ \A k \in Workers : pc[k] = "done"
  /\ outcome' = IF ret[0] /\ \A s \in Stages : ~failed[s] THEN "ok" ELSE "failed"
  /\ Goto(0, "idle")
  /\ UNCHANGED <<slotVars, asleep, workVars, ret, failing, kvVars, resVars, input, runs>>

(***************************************************************************)
(* run_stage_worker of stage k, with input slot k-1 and, except for the    *)
(* last stage, output slot k.                                              *)
(***************************************************************************)

\* The predicate of wait_stage_batch.
Ready(s) == batches[s] # <<>> \/ producer_done[s] \/ failed[s]

\* Nothing there yet: the worker sleeps until it is notified.
WaitBlock(k) ==
  /\ pc[k] = "wait" /\ ~asleep[k] /\ ~Ready(k-1)
  /\ asleep' = [asleep EXCEPT ![k] = TRUE]
  /\ UNCHANGED <<slotVars, pc, workVars, ret, failing, kvVars, resVars, callVars>>

\* Mutant: it returns the newest one.
WaitTake_Newest(k) ==
  LET q == batches[k-1] IN
  /\ pc[k] = "wait" /\ ~asleep[k]
  /\ ~failed[k-1] /\ q # <<>>
  /\ batch' = [batch EXCEPT ![k] = q[Len(q)]]
  /\ batches' = [batches EXCEPT ![k-1] = SubSeq(q, 1, Len(q) - 1)]
  /\ Goto(k, "check")
  /\ UNCHANGED <<expected_tokens, emitted_tokens, active_input_tokens, producer_done,
                 failed, asleep, consumed_tokens, sampling, ret, failing, kvVars,
                 resVars, callVars>>

\* wait_stage_batch returns the oldest batch.
WaitTake(k) ==
  /\ pc[k] = "wait" /\ ~asleep[k]
  /\ ~failed[k-1] /\ batches[k-1] # <<>>
  /\ batch' = [batch EXCEPT ![k] = Head(batches[k-1])]
  /\ batches' = [batches EXCEPT ![k-1] = Tail(@)]
  /\ Goto(k, "check")
  /\ UNCHANGED <<expected_tokens, emitted_tokens, active_input_tokens, producer_done,
                 failed, asleep, consumed_tokens, sampling, ret, failing, kvVars,
                 resVars, callVars>>

\* wait_stage_batch returns false and releases the lock.
WaitEnd(k) ==
  /\ pc[k] = "wait" /\ ~asleep[k]
  /\ Ready(k-1) /\ (failed[k-1] \/ batches[k-1] = <<>>)
  /\ Goto(k, "ended")
  /\ UNCHANGED <<slotVars, asleep, workVars, ret, failing, kvVars, resVars, callVars>>

\* The lock is taken again and the slot looked at a second time.
Drained(k) == ~failed[k-1] /\ producer_done[k-1] /\ batches[k-1] = <<>>

CloseOutput(k) == IF k < Last THEN CloseSlot(k) ELSE UNCHANGED <<producer_done, asleep>>

\* Everything was consumed: the loop is left with break.
Drain(k) ==
  /\ pc[k] = "ended" /\ Drained(k)
  /\ Goto(k, "finish")
  /\ UNCHANGED <<slotVars, asleep, workVars, ret, failing, kvVars, resVars, callVars>>

\* The pipeline failed: the output slot is closed and the worker returns.
Abort(k) ==
  /\ pc[k] = "ended" /\ ~Drained(k)
  /\ CloseOutput(k)
  /\ Goto(k, "done")
  /\ UNCHANGED <<batches, expected_tokens, emitted_tokens, active_input_tokens, failed,
                 workVars, ret, failing, kvVars, resVars, callVars>>

\* After the loop.
Finish(k) ==
  /\ pc[k] = "finish"
  /\ CloseOutput(k)
  /\ Goto(k, "done")
  /\ UNCHANGED <<batches, expected_tokens, emitted_tokens, active_input_tokens, failed,
                 workVars, ret, failing, kvVars, resVars, callVars>>

\* Mutant: the size of the tensor is not checked.
BadBatch_AnySize(b) == b.n = 0

\* A batch the tensor of which cannot hold its tokens, or without tokens.
BadBatch(b) == b.n = 0 \/ b.n > RtBucket

\* Such a batch fails the pipeline.
Reject(k) ==
  /\ pc[k] = "check" /\ BadBatch(batch[k])
  /\ Goto(k, "failing")
  /\ UNCHANGED <<slotVars, asleep, workVars, ret, failing, kvVars, resVars, callVars>>

\* A stage in the middle announces its tokens in its output slot.
Prepare(k) ==
  /\ pc[k] = "check" /\ ~BadBatch(batch[k]) /\ k < Last
  /\ expected_tokens' = [expected_tokens EXCEPT ![k] = @ + batch[k].n]
  /\ active_input_tokens' = [active_input_tokens EXCEPT ![k] = batch[k].n]
  /\ consumed_tokens' = [consumed_tokens EXCEPT ![k] = @ + batch[k].n]
  /\ Goto(k, "run")
  /\ UNCHANGED <<batches, emitted_tokens, producer_done, failed, asleep, batch, sampling,
                 ret, failing, kvVars, resVars, callVars>>

\* Mutant: every bucket is sampled.
DecideSampling_Always(k) ==
  /\ pc[k] = "check" /\ ~BadBatch(batch[k]) /\ k = Last
  /\ sampling' = TRUE
  /\ consumed_tokens' = [consumed_tokens EXCEPT ![k] = @ + batch[k].n]
  /\ Goto(k, "run")
  /\ UNCHANGED <<slotVars, asleep, batch, ret, failing, kvVars, resVars, callVars>>

\* The last stage decides, from the count of embedded tokens in slot 0, whether
\* this is the last bucket and a token is to be sampled.
DecideSampling(k) ==
  /\ pc[k] = "check" /\ ~BadBatch(batch[k]) /\ k = Last
  /\ sampling' = ~(consumed_tokens[k] + batch[k].n < expected_tokens[0])
  /\ consumed_tokens' = [consumed_tokens EXCEPT ![k] = @ + batch[k].n]
  /\ Goto(k, "run")
  /\ UNCHANGED <<slotVars, asleep, batch, ret, failing, kvVars, resVars, callVars>>

\* The batch's rows are those of the next n positions of stage k's cache.
Fits(k) == batch[k].lo = fed[k] + 1 /\ batch[k].hi = fed[k] + batch[k].n

Append_KV(k) ==
  /\ fed' = [fed EXCEPT ![k] = @ + batch[k].n]
  /\ exact' = [exact EXCEPT ![k] = @ /\ Fits(k)]

\* rknn3_session_run of stage k: the rows go to the cache, then the output to
\* slot k, or the sampled token to result_callback; it may still return an error.
Run(k) ==
  /\ pc[k] = "run"
  /\ Append_KV(k)
  /\ IF k < Last THEN Output(k, batch[k].n, TRUE)
                 ELSE UNCHANGED <<emitted_tokens, batches, asleep>>
  /\ IF k = Last /\ sampling THEN Sample ELSE UNCHANGED resVars
  /\ \E r \in BOOLEAN : ret' = [ret EXCEPT ![k] = r]
  /\ Goto(k, "ran")
  /\ UNCHANGED <<expected_tokens, active_input_tokens, producer_done, failed, workVars,
                 failing, callVars>>

\* It fails before any output, the rows in the cache or not.
RunError(k) ==
  /\ pc[k] = "run"
  /\ Append_KV(k) \/ UNCHANGED kvVars
  /\ ret' = [ret EXCEPT ![k] = FALSE]
  /\ Goto(k, "ran")
  /\ UNCHANGED <<slotVars, asleep, workVars, failing, resVars, callVars>>

\* Mutant: the worker returns without failing the pipeline.
Ran_Swallow(k) ==
  /\ pc[k] = "ran"
  /\ active_input_tokens' =
       IF k < Last THEN [active_input_tokens EXCEPT ![k] = 0] ELSE active_input_tokens
  /\ Goto(k, IF ret[k] THEN "wait" ELSE "done")
  /\ UNCHANGED <<batches, expected_tokens, emitted_tokens, producer_done, failed, asleep,
                 workVars, ret, failing, kvVars, resVars, callVars>>

\* Back in the worker: active_input_tokens is cleared, an error fails the pipeline.
Ran(k) ==
  /\ pc[k] = "ran"
  /\ active_input_tokens' =
       IF k < Last THEN [active_input_tokens EXCEPT ![k] = 0] ELSE active_input_tokens
  /\ Goto(k, IF ret[k] THEN "wait" ELSE "failing")
  /\ UNCHANGED <<batches, expected_tokens, emitted_tokens, producer_done, failed, asleep,
                 workVars, ret, failing, kvVars, resVars, callVars>>

-----------------------------------------------------------------------------

\* All MaxRuns calls returned.
Terminated == pc[0] = "idle" /\ runs = MaxRuns /\ UNCHANGED vars

CallerStep ==
  \/ Embed \/ Stage0Bucket \/ Stage0Ok \/ Stage0Error
  \/ FailSlot(0) \/ CloseFirst \/ Join

WorkerStep(k) ==
  \/ WaitBlock(k) \/ WaitTake(k) \/ WaitEnd(k)
  \/ Drain(k) \/ Abort(k) \/ Finish(k)
  \/ Reject(k) \/ Prepare(k) \/ DecideSampling(k)
  \/ Run(k) \/ RunError(k) \/ Ran(k) \/ FailSlot(k)

Next ==
  \/ \E n \in Lens : Start(n)
  \/ CallerStep
  \/ \E k \in Workers : WorkerStep(k)
  \/ Terminated

\* Every thread is scheduled, and every call of the runtime returns.
Fairness == WF_vars(CallerStep) /\ \A k \in Workers : WF_vars(WorkerStep(k))

Spec == Init /\ [][Next]_vars /\ Fairness
-----------------------------------------------------------------------------

SlotsOK ==
  /\ batches \in [Stages -> Seq(Batch)]
  /\ expected_tokens \in [Stages -> Nat]
  /\ emitted_tokens \in [Stages -> Nat]
  /\ active_input_tokens \in [Stages -> Nat]
  /\ producer_done \in [Stages -> BOOLEAN]
  /\ failed \in [Stages -> BOOLEAN]

PcOK ==
  /\ pc \in [Stages -> CallerStates \cup WorkerStates]
  /\ pc[0] \in CallerStates
  /\ \A k \in Workers : pc[k] \in WorkerStates

LocalsOK ==
  /\ asleep \in [Workers -> BOOLEAN]
  /\ batch \in [Workers -> Batch]
  /\ consumed_tokens \in [Workers -> Nat]
  /\ ret \in [Stages -> BOOLEAN]
  /\ failing \in [Stages -> 0 .. N]

CallOK ==
  /\ fed \in [Stages -> Nat]
  /\ exact \in [Stages -> BOOLEAN]
  /\ samples \in Nat
  /\ input \in Nat /\ outcome \in {"none", "ok", "failed"} /\ runs \in 0 .. MaxRuns

FlagsOK == sampling \in BOOLEAN /\ has_token \in BOOLEAN

\* Every variable keeps its type, and a thread is only where its code is.
TypeOK == SlotsOK /\ PcOK /\ LocalsOK /\ CallOK /\ FlagsOK

\* Where worker k's cache will end once the batch in its hand is run, or would
\* have ended had the batch not been rejected.
Reached(k) ==
  IF pc[k] \in {"check", "run"} \/ BadBatch(batch[k]) THEN batch[k].hi ELSE fed[k]

\* As long as neither stage k-1 nor stage k has failed, what stage k-1 computed
\* is in stage k's cache, in the hand of worker k or in slot k-1, each position
\* once and in order: the callback and the worker share the slot without losing,
\* repeating or reordering a batch.
InFlightInOrder ==
  \A k \in Workers : ret[k-1] /\ ret[k] =>
    LET q == batches[k-1] IN
    /\ pc[k] \in {"check", "run"} => batch[k].lo = fed[k] + 1
    /\ \A i \in 1 .. Len(q) :
         q[i].lo = (IF i = 1 THEN Reached(k) ELSE q[i-1].hi) + 1
    /\ fed[k-1] = IF q = <<>> THEN Reached(k) ELSE q[Len(q)].hi

\* No stage ever caches a row that is not the row of its position: the counts
\* stage_output_callback guesses from expected, emitted and active tokens are the
\* sizes of the tensors, or run_stage_worker rejects the batch.
NothingGarbled == \A k \in Stages : exact[k]

\* run_pipeline_once returns true only if every stage cached the whole input and
\* nothing is left in a slot.
SuccessIsComplete ==
  outcome = "ok" =>
    /\ \A k \in Stages : fed[k] = input
    /\ \A k \in Stages : batches[k] = <<>>

\* An error of a session run, at whatever point of the call and in whatever
\* thread, makes run_pipeline_once return false.
ErrorsSurface == outcome = "ok" => \A k \in Stages : ret[k]

\* Every call returns: no worker sleeps through a notification, waits for a
\* producer that is gone or is waited for by a join that never ends.
CallReturns == pc[0] # "idle" ~> pc[0] = "idle"

-----------------------------------------------------------------------------

\* What a call promises its caller.
Call == INSTANCE PipelineCall WITH running <- pc[0] # "idle"

\* The pipeline implements it.
ImplementsCall == Call!CallSpec

=============================================================================

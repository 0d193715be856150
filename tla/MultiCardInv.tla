---------------------------- MODULE MultiCardInv ----------------------------
(***************************************************************************)
(* The inductive invariants behind the theorems of MultiCardProofs.  TLC   *)
(* checks them as invariants before they are proved.                       *)
(***************************************************************************)
EXTENDS MultiCard

\* fail_pipeline has marked every slot.
AllFailed == \A s \in Stages : failed[s]

\* Where a thread may be before it calls fail_pipeline.
NotYetFailing == {"embed", "bucket", "return", "wait", "ended", "finish", "check", "run", "ran"}

\* fail_pipeline marks the slots in order, and it has a slot left to mark.
MarksInOrder ==
  /\ \A t, s \in Stages : s < failing[t] => failed[s]
  /\ \A t \in Stages : pc[t] \in NotYetFailing => failing[t] = 0
  /\ \A t \in Stages : pc[t] = "failing" => failing[t] \in Stages

\* A thread whose session run returned an error has failed the pipeline, or is on
\* its way.
ErrorPropagates ==
  \A t \in Stages : ~ret[t] => AllFailed \/ pc[t] \in {"ran", "failing"}

\* A call that returned true left no thread behind and no error.
OkIsFinal ==
  outcome = "ok" =>
    /\ pc[0] = "idle" /\ \A k \in Workers : pc[k] = "done"
    /\ \A k \in Stages : ret[k]

FailInv == MarksInOrder /\ ErrorPropagates /\ OkIsFinal

-----------------------------------------------------------------------------

\* stage_output_callback takes an output for a full bucket when it knows no better:
\* the command line is to give a bucket no smaller than the compiled one.
BucketsFit == Bucket >= RtBucket

\* A thread is in its session run, or before it, only while none has failed.
StopsOnError ==
  \A t \in Stages : pc[t] \in NotYetFailing \ {"ran"} => ret[t]

\* A batch the worker of stage k accepts, and the rows are as many as it says.
Sound(b) == ~BadBatch(b) /\ b.hi + 1 = b.lo + b.n

\* Worker k turned a batch down, or is about to.
Rejecting(k) == BadBatch(batch[k]) /\ pc[k] \in {"check", "failing", "done"}

\* Slot k-1 holds, or worker k has met, a batch that is rejected.
Suspect(k) ==
  Rejecting(k) \/ \E j \in 1 .. Len(batches[k-1]) : BadBatch(batches[k-1][j])

\* What a worker has in hand is sound or rejected, and what it has run is in the cache.
HandInv(k) ==
  /\ pc[k] = "check" => Sound(batch[k]) \/ BadBatch(batch[k])
  /\ pc[k] = "run" => Sound(batch[k])
  /\ pc[k] = "ran" => ~BadBatch(batch[k])
  /\ pc[k] \in {"check", "run"} => batch[k].lo = fed[k] + 1
  /\ pc[k] \in {"wait", "ended", "finish"} => Reached(k) = fed[k]
  /\ pc[k] = "run" /\ k < Last => active_input_tokens[k] = batch[k].n

\* A batch of queue q that is neither sound nor rejected comes only after one that is.
Sizes(q, rejecting) ==
  \A i \in 1 .. Len(q) :
    Sound(q[i]) \/ rejecting \/ \E j \in 1 .. i : BadBatch(q[j])

SizesInv(k) == Sizes(batches[k-1], Rejecting(k))

\* Queue q goes on after position r, batch by batch, and no further than top.
Follows(q, r, top) ==
  \A i \in 1 .. Len(q) :
    q[i].lo = (IF i = 1 THEN r ELSE q[i-1].hi) + 1 /\ q[i].hi <= top

EndOf(q, r) == IF q = <<>> THEN r ELSE q[Len(q)].hi

\* Slot k-1 continues what worker k has reached, up to what stage k-1 has computed.
ChainInv(k) ==
  ret[k] =>
    /\ Follows(batches[k-1], Reached(k), fed[k-1])
    /\ Reached(k) <= fed[k-1]
    /\ ret[k-1] => fed[k-1] = EndOf(batches[k-1], Reached(k))

\* Stage 0: what is embedded covers the next bucket, and what it believes to have
\* put in slot 0 is what it has computed, or there is a batch that is rejected.
SourceInv ==
  /\ pc[0] \in {"embed", "bucket"} => fed[0] < input
  /\ pc[0] = "bucket" =>
       fed[0] + NextRows <= expected_tokens[0] /\ expected_tokens[0] <= input
  /\ pc[0] \in {"return", "close", "join", "idle"} /\ ret[0] => fed[0] = input
  /\ pc[0] = "failing" => ~ret[0]
  /\ active_input_tokens[0] = 0
  /\ N > 1 /\ ret[0] => emitted_tokens[0] = fed[0] \/ Suspect(1)

FlowInv ==
  /\ StopsOnError
  /\ \A k \in Workers : HandInv(k) /\ SizesInv(k) /\ ChainInv(k)
  /\ SourceInv
  /\ NothingGarbled

-----------------------------------------------------------------------------

\* No slot is marked.
NoneFailed == \A s \in Stages : ~failed[s]

\* The thread of stage s puts nothing more in its slot.
Over(s) == pc[s] \in {"join", "idle", "done"}

\* A worker that found the end of its input knows it to be the end, and one that
\* left without a failure has cached the whole input.
DrainInv(k) ==
  /\ pc[k] = "ended" /\ ~failed[k-1] => producer_done[k-1] /\ batches[k-1] = <<>>
  /\ pc[k] = "finish" => producer_done[k-1] /\ batches[k-1] = <<>>
  /\ pc[k] = "done" /\ NoneFailed =>
       Over(k-1) /\ fed[k] = input /\ batches[k-1] = <<>>

\* Workers live within a call, and a call has an input.
CallInv == IF pc[0] = "idle" THEN \A k \in Workers : pc[k] = "done" ELSE input > 0

DoneInv ==
  /\ CallInv
  /\ batches[Last] = <<>>
  /\ \A s \in Stages : producer_done[s] => Over(s)
  /\ \A k \in Workers : DrainInv(k)
  /\ SuccessIsComplete

-----------------------------------------------------------------------------

\* The thread of stage s has returned in this call, or is the caller at its joins.
Left(s) == IF s = 0 THEN pc[0] = "join" ELSE pc[0] # "idle" /\ pc[s] = "done"

\* A worker sleeps only while there is nothing for it in its slot, and who leaves
\* does not leave the next one waiting.
AwakeInv ==
  /\ \A k \in Workers : asleep[k] => pc[k] = "wait" /\ ~Ready(k-1)
  /\ \A s \in Stages \ {Last} : Left(s) => producer_done[s] \/ failed[s]

\* As long as the caller waits in a join, a worker it waits for is not blocked: neither
\* a lost notification nor a slot that was never closed can stop the pipeline.
SomebodyGoesOn ==
  pc[0] = "join" =>
    \/ \A k \in Workers : pc[k] = "done"
    \/ \E k \in Workers : pc[k] # "done" /\ ~asleep[k]

-----------------------------------------------------------------------------

\* Where the last stage's worker is, it has counted the tokens it has met, and its card
\* samples on exactly the bucket that ends the input.
LastInv ==
  /\ pc[Last] \in {"wait", "check"} => consumed_tokens[Last] = fed[Last]
  /\ pc[Last] = "ran" /\ ret[Last] => consumed_tokens[Last] = fed[Last]
  /\ pc[Last] = "run" => consumed_tokens[Last] = batch[Last].hi
  /\ pc[Last] = "run" => (sampling <=> batch[Last].hi = input)

\* With the whole input embedded first, a token is sampled once the last stage has all
\* of it, and only then.
SampleInv ==
  /\ fed[0] > 0 \/ pc[0] = "bucket" => expected_tokens[0] = input
  /\ \A k \in Stages : fed[k] <= fed[0]
  /\ Last \in Workers => LastInv
  /\ input > 0 /\ ret[Last] => samples = IF fed[Last] = input THEN 1 ELSE 0

\* The safety part of ImplementsCall: every step of the pipeline is one of PipelineCall's
\* or changes nothing its caller sees.
CallSafety == Call!CallInit /\ [][Call!CallNext]_(Call!seenVars)
=============================================================================

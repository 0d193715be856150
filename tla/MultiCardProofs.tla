-------------------------- MODULE MultiCardProofs --------------------------
(***************************************************************************)
(* Theorems about MultiCard, for every number of stages, bucket size,      *)
(* input length and number of calls. First the types; then failures, which *)
(* reach the caller (ErrorsSurface); then the rows that flow through the   *)
(* pipeline (InFlightInOrder, NothingGarbled, SuccessIsComplete), what     *)
(* keeps the threads from waiting for ever, and the call that is           *)
(* implemented (the safety part of ImplementsCall).  Last the callers,     *)
(* MultiCardChat, which see that call and no more of the pipeline than     *)
(* CallState.                                                              *)
(***************************************************************************)
EXTENDS MultiCardInv, MultiCardChat, SequenceTheorems, WellFoundedInduction, TLAPS

-----------------------------------------------------------------------------
(***************************************************************************)
(* The types.                                                              *)
(***************************************************************************)

\* 0 is a stage, and the worker of a stage is one of the others.
LEMMA StageFacts ==
  /\ N \in Nat /\ N >= 1 /\ Last \in Stages /\ 0 \in Stages
  /\ Stages \subseteq Nat /\ Workers \subseteq Stages
  /\ \A k \in Workers : k \in Nat /\ k # 0 /\ k-1 \in Stages
  /\ \A k \in Stages : k # Last => k + 1 \in Stages /\ k < Last
  /\ \A k \in Stages : k # 0 => k \in Workers
BY NAssumption DEF Stages, Workers, Last

\* What the stages count, whatever the state, is a natural number.
LEMMA CountFacts ==
  ASSUME SlotsOK, NEW s \in Stages, NEW f \in BOOLEAN
  PROVE  CountTokens(s, f) \in Nat
<1>1. Remaining(s) \in Nat
  BY DEF SlotsOK, Remaining
<1>2. active_input_tokens[s] \in Nat /\ Bucket \in Nat /\ RtBucket \in Nat
  BY BucketAssumption DEF SlotsOK
<1> QED BY <1>1, <1>2 DEF CountTokens, Least

\* stage_output_callback keeps the types of what it changes.
LEMMA OutputTypes ==
  ASSUME TypeOK, NEW s \in Stages, NEW m \in Nat, NEW f \in BOOLEAN, Output(s, m, f)
  PROVE  /\ emitted_tokens' \in [Stages -> Nat]
         /\ batches' \in [Stages -> Seq(Batch)]
         /\ asleep' \in [Workers -> BOOLEAN]
<1> DEFINE n == CountTokens(s, f)
           b == [lo |-> fed[s] + 1, hi |-> fed[s] + m, n |-> n]
<1>1. n \in Nat
  BY CountFacts DEF TypeOK
<1>2. b \in Batch
  BY <1>1, StageFacts DEF TypeOK, CallOK, Batch
<1>3. emitted_tokens' = [emitted_tokens EXCEPT ![s] = @ + n]
  BY DEF Output
<1>4. batches' = [batches EXCEPT ![s] = Append(@, b)]
  BY DEF Output
<1>5. asleep' \in [Workers -> BOOLEAN]
  BY DEF Output, Notify, TypeOK, LocalsOK
<1> HIDE DEF n, b
<1>6. emitted_tokens' \in [Stages -> Nat]
  BY <1>1, <1>3 DEF TypeOK, SlotsOK
<1>7. batches[s] \in Seq(Batch)
  BY DEF TypeOK, SlotsOK
<1>8. Append(batches[s], b) \in Seq(Batch)
  BY <1>2, <1>7
<1>9. batches' \in [Stages -> Seq(Batch)]
  BY <1>4, <1>8 DEF TypeOK, SlotsOK
<1> QED BY <1>5, <1>6, <1>9

\* A thread of a stage goes where its own code is.
LEMMA GotoTypes ==
  ASSUME PcOK, NEW t \in Stages, NEW l,
         t = 0 => l \in CallerStates, t # 0 => l \in WorkerStates, Goto(t, l)
  PROVE  PcOK'
BY StageFacts DEF PcOK, Goto

\* The types hold initially.
LEMMA TypeInit == Init => TypeOK
<1> SUFFICES ASSUME Init PROVE TypeOK
  OBVIOUS
<1>1. SlotsOK
  BY DEF Init, SlotsOK
<1>2. PcOK
  BY StageFacts DEF Init, PcOK, CallerStates, WorkerStates
<1>3. LocalsOK
  BY StageFacts DEF Init, LocalsOK, NoBatch, Batch
<1>4. CallOK
  BY BoundAssumption DEF Init, CallOK
<1>5. FlagsOK
  BY DEF Init, FlagsOK
<1> QED BY <1>1, <1>2, <1>3, <1>4, <1>5 DEF TypeOK

\* A new call sets everything to a value of its type.
LEMMA TypeStart == ASSUME TypeOK, NEW n \in Lens, Start(n) PROVE TypeOK'
<1>1. SlotsOK'
  BY DEF Start, SlotsOK
<1>2. PcOK'
  BY StageFacts DEF Start, PcOK, CallerStates, WorkerStates
<1>3. LocalsOK'
  BY StageFacts DEF Start, LocalsOK, NoBatch, Batch
<1>4. CallOK'
  BY LensAssumption, BoundAssumption DEF Start, CallOK, TypeOK
<1>5. FlagsOK'
  BY DEF Start, FlagsOK
<1> QED BY <1>1, <1>2, <1>3, <1>4, <1>5 DEF TypeOK

\* Stage 0 never computes more rows than its input has.
WithinInput == fed[0] <= input

\* The next bucket of stage 0 is within the input.
LEMMA NextRowsFacts ==
  ASSUME TypeOK, WithinInput
  PROVE  NextRows \in Nat /\ input \in Nat /\ fed[0] \in Nat /\ fed[0] + NextRows <= input
<1>1. input \in Nat /\ fed[0] \in Nat /\ RtBucket \in Nat
  BY BucketAssumption, StageFacts DEF TypeOK, CallOK
<1> QED BY <1>1 DEF NextRows, Least, WithinInput

\* fail_pipeline, in whatever thread.
LEMMA TypeFail ==
  ASSUME TypeOK, WithinInput, NEW t \in Stages, FailSlot(t)
  PROVE  TypeOK' /\ WithinInput'
<1> USE StageFacts
<1>1. PcOK'
  <2>1. CASE failing[t] < Last
    BY <2>1 DEF FailSlot, TypeOK, PcOK
  <2>2. CASE ~(failing[t] < Last)
    BY <2>2, GotoTypes DEF FailSlot, TypeOK, CallerStates, WorkerStates
  <2> QED BY <2>1, <2>2
<1>2. SlotsOK'
  BY DEF FailSlot, TypeOK, SlotsOK
<1>3. LocalsOK'
  <2>1. failing[t] + 1 \in 0 .. N
    BY NAssumption DEF FailSlot, Stages
  <2>2. failing' \in [Stages -> 0 .. N]
    BY <2>1 DEF FailSlot, TypeOK, LocalsOK
  <2>3. asleep' \in [Workers -> BOOLEAN]
    BY DEF FailSlot, Notify, TypeOK, LocalsOK
  <2> QED BY <2>2, <2>3 DEF FailSlot, TypeOK, LocalsOK, workVars
<1>4. CallOK' /\ FlagsOK' /\ WithinInput'
  BY DEF FailSlot, TypeOK, CallOK, FlagsOK, WithinInput, workVars, kvVars, resVars, callVars
<1> QED BY <1>1, <1>2, <1>3, <1>4 DEF TypeOK

\* The caller's steps.
LEMMA TypeCaller == ASSUME TypeOK, WithinInput, CallerStep PROVE TypeOK' /\ WithinInput'
<1> USE StageFacts
<1>1. NextRows \in Nat /\ input \in Nat /\ fed[0] \in Nat /\ fed[0] + NextRows <= input
  BY NextRowsFacts
<1>2. CASE Embed
  <2>1. PcOK'
    BY <1>2, GotoTypes DEF Embed, TypeOK, CallerStates
  <2>2. SlotsOK'
    <3>1. EmbeddedTotals \subseteq Nat
      BY <1>1 DEF EmbeddedTotals
    <3>2. PICK total \in EmbeddedTotals :
            expected_tokens' = [expected_tokens EXCEPT ![0] = total]
      BY <1>2 DEF Embed
    <3>3. expected_tokens' \in [Stages -> Nat]
      BY <3>1, <3>2 DEF TypeOK, SlotsOK
    <3> QED BY <1>2, <3>3 DEF Embed, TypeOK, SlotsOK
  <2>3. LocalsOK' /\ CallOK' /\ FlagsOK' /\ WithinInput'
    BY <1>2 DEF Embed, TypeOK, LocalsOK, CallOK, FlagsOK, WithinInput, workVars, kvVars,
                resVars, callVars
  <2> QED BY <2>1, <2>2, <2>3 DEF TypeOK
<1>3. CASE Stage0Bucket
  <2> DEFINE finished == fed[0] + NextRows = input
  <2>1. PcOK'
    BY <1>3, GotoTypes DEF Stage0Bucket, TypeOK, CallerStates
  <2>2. batches' \in [Stages -> Seq(Batch)] /\ emitted_tokens' \in [Stages -> Nat]
        /\ asleep' \in [Workers -> BOOLEAN]
    <3>1. CASE N > 1
      <4>1. Output(0, NextRows, finished)
        BY <1>3, <3>1 DEF Stage0Bucket
      <4> QED BY <1>1, <4>1, OutputTypes
    <3>2. CASE ~(N > 1)
      BY <1>3, <3>2 DEF Stage0Bucket, TypeOK, SlotsOK, LocalsOK
    <3> QED BY <3>1, <3>2
  <2>3. SlotsOK'
    BY <1>3, <2>2 DEF Stage0Bucket, TypeOK, SlotsOK
  <2>4. LocalsOK'
    BY <1>3, <2>2 DEF Stage0Bucket, TypeOK, LocalsOK, workVars
  <2>5. samples' \in Nat
    BY <1>3 DEF Stage0Bucket, Sample, resVars, TypeOK, CallOK
  <2>6. fed' = [fed EXCEPT ![0] = @ + NextRows]
    BY <1>3 DEF Stage0Bucket
  <2>7. CallOK'
    BY <1>1, <1>3, <2>5, <2>6 DEF Stage0Bucket, TypeOK, CallOK, callVars
  <2>8. WithinInput'
    BY <1>1, <1>3, <2>6 DEF Stage0Bucket, TypeOK, CallOK, WithinInput, callVars
  <2>9. FlagsOK'
    BY <1>3 DEF Stage0Bucket, Sample, TypeOK, FlagsOK, workVars, resVars
  <2> QED BY <2>1, <2>3, <2>4, <2>7, <2>8, <2>9 DEF TypeOK
<1>4. CASE Stage0Ok
  <2>1. PcOK'
    BY <1>4, GotoTypes DEF Stage0Ok, TypeOK, CallerStates
  <2>2. SlotsOK' /\ LocalsOK' /\ CallOK' /\ FlagsOK' /\ WithinInput'
    BY <1>4 DEF Stage0Ok, TypeOK, SlotsOK, LocalsOK, CallOK, FlagsOK, WithinInput, slotVars,
                workVars, kvVars, resVars, callVars
  <2> QED BY <2>1, <2>2 DEF TypeOK
<1>5. CASE Stage0Error
  <2>1. PcOK'
    BY <1>5, GotoTypes DEF Stage0Error, TypeOK, CallerStates
  <2>2. SlotsOK' /\ LocalsOK' /\ FlagsOK'
    BY <1>5 DEF Stage0Error, TypeOK, SlotsOK, LocalsOK, FlagsOK, slotVars, workVars, resVars
  <2>3. fed' = fed \/ fed' = [fed EXCEPT ![0] = @ + NextRows]
    BY <1>5 DEF Stage0Error
  <2>4. CallOK' /\ WithinInput'
    BY <1>1, <1>5, <2>3 DEF Stage0Error, TypeOK, CallOK, WithinInput, resVars, callVars
  <2> QED BY <2>1, <2>2, <2>4 DEF TypeOK
<1>6. CASE FailSlot(0)
  BY <1>6, TypeFail
<1>7. CASE CloseFirst
  <2>1. PcOK'
    BY <1>7, GotoTypes DEF CloseFirst, TypeOK, CallerStates
  <2>2. SlotsOK' /\ LocalsOK'
    BY <1>7 DEF CloseFirst, CloseSlot, Notify, TypeOK, SlotsOK, LocalsOK, workVars
  <2>3. CallOK' /\ FlagsOK' /\ WithinInput'
    BY <1>7 DEF CloseFirst, TypeOK, CallOK, FlagsOK, WithinInput, workVars, kvVars, resVars,
                callVars
  <2> QED BY <2>1, <2>2, <2>3 DEF TypeOK
<1>8. CASE Join
  <2>1. PcOK'
    BY <1>8, GotoTypes DEF Join, TypeOK, CallerStates
  <2>2. SlotsOK' /\ LocalsOK' /\ CallOK' /\ FlagsOK' /\ WithinInput'
    BY <1>8 DEF Join, TypeOK, SlotsOK, LocalsOK, CallOK, FlagsOK, WithinInput, slotVars,
                workVars, kvVars, resVars
  <2> QED BY <2>1, <2>2 DEF TypeOK
<1> QED BY <1>2, <1>3, <1>4, <1>5, <1>6, <1>7, <1>8 DEF CallerStep

\* The steps of a worker that change neither slots nor caches.
LEMMA TypeQuiet ==
  ASSUME TypeOK, WithinInput, NEW k \in Workers,
         WaitBlock(k) \/ WaitEnd(k) \/ Drain(k) \/ Reject(k)
  PROVE  TypeOK' /\ WithinInput'
<1> USE StageFacts
<1>1. PcOK'
  <2>1. CASE WaitBlock(k)
    BY <2>1 DEF WaitBlock, TypeOK, PcOK
  <2>2. CASE WaitEnd(k)
    BY <2>2, GotoTypes DEF WaitEnd, TypeOK, WorkerStates
  <2>3. CASE Drain(k)
    BY <2>3, GotoTypes DEF Drain, TypeOK, WorkerStates
  <2>4. CASE Reject(k)
    BY <2>4, GotoTypes DEF Reject, TypeOK, WorkerStates
  <2> QED BY <2>1, <2>2, <2>3, <2>4
<1>2. asleep' = asleep \/ asleep' = [asleep EXCEPT ![k] = TRUE]
  BY DEF WaitBlock, WaitEnd, Drain, Reject
<1>3. UNCHANGED <<slotVars, workVars, ret, failing, kvVars, resVars, callVars>>
  BY DEF WaitBlock, WaitEnd, Drain, Reject
<1>4. SlotsOK' /\ LocalsOK' /\ CallOK' /\ FlagsOK' /\ WithinInput'
  BY <1>2, <1>3 DEF TypeOK, SlotsOK, LocalsOK, CallOK, FlagsOK, WithinInput, slotVars,
     workVars, kvVars, resVars, callVars
<1> QED BY <1>1, <1>4 DEF TypeOK

\* A worker returns and closes its output slot, if it has one.
LEMMA TypeClose ==
  ASSUME TypeOK, WithinInput, NEW k \in Workers, Abort(k) \/ Finish(k)
  PROVE  TypeOK' /\ WithinInput'
<1> USE StageFacts
<1>1. PcOK'
  BY GotoTypes DEF Abort, Finish, TypeOK, WorkerStates
<1>2. CloseOutput(k)
  BY DEF Abort, Finish
<1>3. producer_done' \in [Stages -> BOOLEAN] /\ asleep' \in [Workers -> BOOLEAN]
  BY <1>2 DEF CloseOutput, CloseSlot, Notify, TypeOK, SlotsOK, LocalsOK
<1>4. UNCHANGED <<batches, expected_tokens, emitted_tokens, active_input_tokens, failed,
                  workVars, ret, failing, kvVars, resVars, callVars>>
  BY DEF Abort, Finish
<1>5. SlotsOK' /\ LocalsOK' /\ CallOK' /\ FlagsOK' /\ WithinInput'
  BY <1>3, <1>4 DEF TypeOK, SlotsOK, LocalsOK, CallOK, FlagsOK, WithinInput, workVars,
     kvVars, resVars, callVars
<1> QED BY <1>1, <1>5 DEF TypeOK

\* A worker takes a batch.
LEMMA TypeTake ==
  ASSUME TypeOK, WithinInput, NEW k \in Workers, WaitTake(k)
  PROVE  TypeOK' /\ WithinInput'
<1> USE StageFacts
<1>1. PcOK'
  BY GotoTypes DEF WaitTake, TypeOK, WorkerStates
<1>2. batches[k-1] \in Seq(Batch) /\ batches[k-1] # <<>>
  BY DEF WaitTake, TypeOK, SlotsOK
<1>3. Head(batches[k-1]) \in Batch /\ Tail(batches[k-1]) \in Seq(Batch)
  BY <1>2
<1>4. SlotsOK'
  BY <1>3 DEF WaitTake, TypeOK, SlotsOK
<1>5. LocalsOK'
  BY <1>3 DEF WaitTake, TypeOK, LocalsOK
<1>6. CallOK' /\ FlagsOK' /\ WithinInput'
  BY DEF WaitTake, TypeOK, CallOK, FlagsOK, WithinInput, kvVars, resVars, callVars
<1> QED BY <1>1, <1>4, <1>5, <1>6 DEF TypeOK

\* A worker prepares the run of its stage.
LEMMA TypePrepare ==
  ASSUME TypeOK, WithinInput, NEW k \in Workers, Prepare(k) \/ DecideSampling(k)
  PROVE  TypeOK' /\ WithinInput'
<1> USE StageFacts
<1>1. PcOK'
  BY GotoTypes DEF Prepare, DecideSampling, TypeOK, WorkerStates
<1>2. batch[k].n \in Nat
  BY DEF TypeOK, LocalsOK, Batch
<1>3. consumed_tokens' = [consumed_tokens EXCEPT ![k] = @ + batch[k].n]
  BY DEF Prepare, DecideSampling
<1>4. consumed_tokens' \in [Workers -> Nat]
  BY <1>2, <1>3 DEF TypeOK, LocalsOK
<1>5. SlotsOK'
  <2>1. CASE Prepare(k)
    <3>1. PICK n \in Nat : n = batch[k].n
      BY <1>2
    <3>2. expected_tokens' = [expected_tokens EXCEPT ![k] = @ + n]
          /\ active_input_tokens' = [active_input_tokens EXCEPT ![k] = n]
      BY <2>1, <3>1 DEF Prepare
    <3>3. k \in Stages
      OBVIOUS
    <3>4. expected_tokens \in [Stages -> Nat] /\ active_input_tokens \in [Stages -> Nat]
      BY DEF TypeOK, SlotsOK
    <3>5. expected_tokens' \in [Stages -> Nat]
      BY <3>2, <3>3, <3>4
    <3>6. active_input_tokens' \in [Stages -> Nat]
      BY <3>2, <3>3, <3>4
    <3> QED BY <2>1, <3>5, <3>6 DEF Prepare, TypeOK, SlotsOK
  <2>2. CASE DecideSampling(k)
    BY <2>2 DEF DecideSampling, TypeOK, SlotsOK, slotVars
  <2> QED BY <2>1, <2>2
<1>6. LocalsOK' /\ CallOK' /\ WithinInput'
  BY <1>4 DEF Prepare, DecideSampling, TypeOK, LocalsOK, CallOK, WithinInput, kvVars, resVars,
     callVars
<1>7. FlagsOK'
  BY DEF Prepare, DecideSampling, TypeOK, FlagsOK, resVars
<1> QED BY <1>1, <1>5, <1>6, <1>7 DEF TypeOK

\* The rows of a batch go to the cache of a worker's stage.
LEMMA TypeAppend ==
  ASSUME TypeOK, WithinInput, NEW k \in Workers, Append_KV(k) \/ UNCHANGED kvVars
  PROVE  fed' \in [Stages -> Nat] /\ exact' \in [Stages -> BOOLEAN] /\ fed'[0] = fed[0]
<1>1. batch[k].n \in Nat
  BY DEF TypeOK, LocalsOK, Batch
<1>2. exact' \in [Stages -> BOOLEAN]
  BY StageFacts DEF Append_KV, Fits, kvVars, TypeOK, CallOK
<1>3. fed' \in [Stages -> Nat] /\ fed'[0] = fed[0]
  BY <1>1, StageFacts DEF Append_KV, kvVars, TypeOK, CallOK
<1> QED BY <1>2, <1>3

\* A session run of a worker's stage.
LEMMA TypeRun ==
  ASSUME TypeOK, WithinInput, NEW k \in Workers, Run(k) \/ RunError(k)
  PROVE  TypeOK' /\ WithinInput'
<1> USE StageFacts
<1>1. PcOK'
  BY GotoTypes DEF Run, RunError, TypeOK, WorkerStates
<1>2. fed' \in [Stages -> Nat] /\ exact' \in [Stages -> BOOLEAN] /\ fed'[0] = fed[0]
  BY TypeAppend DEF Run, RunError
<1>3. batches' \in [Stages -> Seq(Batch)] /\ emitted_tokens' \in [Stages -> Nat]
      /\ asleep' \in [Workers -> BOOLEAN]
  <2>1. CASE Run(k) /\ k < Last
    <3>1. Output(k, batch[k].n, TRUE) /\ batch[k].n \in Nat
      BY <2>1 DEF Run, TypeOK, LocalsOK, Batch
    <3> QED BY <3>1, OutputTypes
  <2>2. CASE ~(Run(k) /\ k < Last)
    BY <2>2 DEF Run, RunError, slotVars, TypeOK, SlotsOK, LocalsOK
  <2> QED BY <2>1, <2>2
<1>4. SlotsOK'
  BY <1>3 DEF Run, RunError, TypeOK, SlotsOK, slotVars
<1>5. \E r \in BOOLEAN : ret' = [ret EXCEPT ![k] = r]
  BY DEF Run, RunError
<1>6. ret' \in [Stages -> BOOLEAN]
  BY <1>5 DEF TypeOK, LocalsOK
<1>7. LocalsOK'
  BY <1>3, <1>6 DEF Run, RunError, TypeOK, LocalsOK, workVars
<1>8. samples' \in Nat
  <2>1. samples' = samples + 1 \/ samples' = samples
    BY Zenon DEF Run, RunError, Sample, resVars
  <2> QED BY <2>1 DEF TypeOK, CallOK
<1>9. CallOK' /\ WithinInput'
  BY <1>2, <1>8 DEF Run, RunError, TypeOK, CallOK, WithinInput, callVars
<1>10. FlagsOK'
  BY DEF Run, RunError, Sample, TypeOK, FlagsOK, workVars, resVars
<1> QED BY <1>1, <1>4, <1>7, <1>9, <1>10 DEF TypeOK

\* A worker comes back from the session run.
LEMMA TypeRan ==
  ASSUME TypeOK, WithinInput, NEW k \in Workers, Ran(k)
  PROVE  TypeOK' /\ WithinInput'
<1> USE StageFacts
<1>1. PcOK'
  BY GotoTypes DEF Ran, TypeOK, WorkerStates
<1>2. SlotsOK'
  BY DEF Ran, TypeOK, SlotsOK
<1>3. LocalsOK' /\ CallOK' /\ FlagsOK' /\ WithinInput'
  BY DEF Ran, TypeOK, LocalsOK, CallOK, FlagsOK, WithinInput, workVars, kvVars, resVars,
     callVars
<1> QED BY <1>1, <1>2, <1>3 DEF TypeOK

\* Every step keeps the types.
LEMMA TypeStep ==
  ASSUME TypeOK, WithinInput, [Next]_vars
  PROVE  TypeOK' /\ WithinInput'
<1>1. ASSUME NEW n \in Lens, Start(n) PROVE TypeOK' /\ WithinInput'
  <2>1. TypeOK'
    BY <1>1, TypeStart
  <2>2. WithinInput'
    BY <1>1, LensAssumption, StageFacts DEF Start, WithinInput
  <2> QED BY <2>1, <2>2
<1>2. CASE CallerStep
  BY <1>2, TypeCaller
<1>3. ASSUME NEW k \in Workers, WorkerStep(k) PROVE TypeOK' /\ WithinInput'
  <2>1. CASE WaitBlock(k) \/ WaitEnd(k) \/ Drain(k) \/ Reject(k)
    BY <2>1, TypeQuiet
  <2>2. CASE Abort(k) \/ Finish(k)
    BY <2>2, TypeClose
  <2>3. CASE WaitTake(k)
    BY <2>3, TypeTake
  <2>4. CASE Prepare(k) \/ DecideSampling(k)
    BY <2>4, TypePrepare
  <2>5. CASE Run(k) \/ RunError(k)
    BY <2>5, TypeRun
  <2>6. CASE Ran(k)
    BY <2>6, TypeRan
  <2>7. CASE FailSlot(k)
    BY <2>7, TypeFail, StageFacts
  <2> QED BY <1>3, <2>1, <2>2, <2>3, <2>4, <2>5, <2>6, <2>7 DEF WorkerStep
<1>4. CASE UNCHANGED vars
  BY <1>4 DEF vars, TypeOK, SlotsOK, PcOK, LocalsOK, CallOK, FlagsOK, WithinInput, slotVars,
     workVars, kvVars, resVars, callVars
<1> QED BY <1>1, <1>2, <1>3, <1>4 DEF Next, Terminated

\* Type correctness: in particular a thread of the pipeline is never outside its own
\* code, and no count of tokens is negative.
THEOREM Typing == Spec => [](TypeOK /\ WithinInput)
<1>1. Init => TypeOK /\ WithinInput
  BY TypeInit, StageFacts DEF Init, WithinInput
<1>2. TypeOK /\ WithinInput /\ [Next]_vars => (TypeOK /\ WithinInput)'
  BY TypeStep
<1> QED BY <1>1, <1>2, PTL DEF Spec

-----------------------------------------------------------------------------
(***************************************************************************)
(* Failures: whatever thread's session run fails, and whenever,            *)
(* run_pipeline_once returns false.                                        *)
(***************************************************************************)

\* A step of thread t that neither marks a slot nor returns from the call.
LEMMA FailMove ==
  ASSUME TypeOK, FailInv, NEW t \in Stages, NEW l, Goto(t, l),
         pc[t] \in NotYetFailing,
         l \in NotYetFailing \cup {"failing", "done", "close"},
         UNCHANGED <<failed, failing, outcome>>,
         \E r \in BOOLEAN : ret' = [ret EXCEPT ![t] = r],
         ~ret'[t] => AllFailed \/ l \in {"ran", "failing"}
  PROVE  FailInv'
<1>1. pc' = [pc EXCEPT ![t] = l] /\ pc \in [Stages -> CallerStates \cup WorkerStates]
  BY DEF Goto, TypeOK, PcOK
<1>2. /\ pc'[t] = l
      /\ \A u \in Stages : u # t => pc'[u] = pc[u]
  BY <1>1
<1>3. \A u \in Stages : u # t => ret'[u] = ret[u]
  BY DEF TypeOK, LocalsOK
<1>4. failing[t] = 0 /\ 0 \in Stages
  BY StageFacts DEF FailInv, MarksInOrder
<1>5. MarksInOrder'
  <2>1. \A u, s \in Stages : s < failing'[u] => failed'[s]
    BY DEF FailInv, MarksInOrder
  <2>2. \A u \in Stages : pc'[u] \in NotYetFailing => failing'[u] = 0
    BY <1>2, <1>4 DEF FailInv, MarksInOrder
  <2>3. \A u \in Stages : pc'[u] = "failing" => failing'[u] \in Stages
    BY <1>2, <1>4 DEF FailInv, MarksInOrder
  <2> QED BY <2>1, <2>2, <2>3 DEF MarksInOrder
<1>6. ErrorPropagates'
  <2> SUFFICES ASSUME NEW u \in Stages, ~ret'[u]
               PROVE  AllFailed' \/ pc'[u] \in {"ran", "failing"}
    BY DEF ErrorPropagates
  <2>1. AllFailed => AllFailed'
    BY DEF AllFailed
  <2>2. CASE u = t
    BY <1>2, <2>1, <2>2
  <2>3. CASE u # t
    BY <1>2, <1>3, <2>1, <2>3 DEF FailInv, ErrorPropagates
  <2> QED BY <2>2, <2>3
<1>7. OkIsFinal'
  <2>1. pc[t] \notin {"idle", "done"}
    BY DEF NotYetFailing
  <2>2. t = 0 \/ t \in Workers
    BY StageFacts
  <2>3. outcome # "ok"
    BY <2>1, <2>2 DEF FailInv, OkIsFinal
  <2> QED BY <2>3 DEF OkIsFinal
<1> QED BY <1>5, <1>6, <1>7 DEF FailInv

\* The same for a step that leaves every ret as it is.
LEMMA FailQuietMove ==
  ASSUME TypeOK, FailInv, NEW t \in Stages, NEW l, Goto(t, l),
         pc[t] \in NotYetFailing \ {"ran"},
         l \in NotYetFailing \cup {"failing", "done", "close"},
         UNCHANGED <<failed, failing, outcome, ret>>
  PROVE  FailInv'
<1>1. ret[t] \in BOOLEAN /\ ret' = [ret EXCEPT ![t] = ret[t]]
  BY DEF TypeOK, LocalsOK
<1>2. ~ret'[t] => AllFailed
  BY DEF FailInv, ErrorPropagates, NotYetFailing
<1> QED BY <1>1, <1>2, FailMove

\* fail_pipeline marks one more slot.
LEMMA FailMark ==
  ASSUME TypeOK, FailInv, NEW t \in Stages, FailSlot(t)
  PROVE  FailInv'
<1> DEFINE s == failing[t]
<1>1. s \in Stages /\ s \in Nat /\ pc[t] = "failing"
  BY StageFacts DEF FailSlot
<1>2. failed' = [failed EXCEPT ![s] = TRUE] /\ failing' = [failing EXCEPT ![t] = s + 1]
      /\ UNCHANGED <<ret, outcome>>
  BY DEF FailSlot, callVars
<1>3. \A u \in Stages : failed[u] => failed'[u]
  BY <1>1, <1>2 DEF TypeOK, SlotsOK
<1>4. failed'[s]
  BY <1>1, <1>2 DEF TypeOK, SlotsOK
<1>5. failing'[t] = s + 1 /\ \A u \in Stages : u # t => failing'[u] = failing[u]
  BY <1>2 DEF TypeOK, LocalsOK
<1>6. \A u \in Stages : u # t => pc'[u] = pc[u]
  BY DEF FailSlot, Goto, TypeOK, PcOK
<1>7. CASE s < Last
  <2>1. pc' = pc /\ s + 1 \in Stages
    BY <1>1, <1>7, StageFacts DEF FailSlot
  <2>2. MarksInOrder'
    <3>1. \A u, v \in Stages : v < failing'[u] => failed'[v]
      BY <1>1, <1>3, <1>4, <1>5, StageFacts DEF FailInv, MarksInOrder
    <3>2. \A u \in Stages : pc'[u] \in NotYetFailing => failing'[u] = 0
      BY <1>1, <1>5, <2>1 DEF FailInv, MarksInOrder, NotYetFailing
    <3>3. \A u \in Stages : pc'[u] = "failing" => failing'[u] \in Stages
      BY <1>5, <2>1 DEF FailInv, MarksInOrder
    <3> QED BY <3>1, <3>2, <3>3 DEF MarksInOrder
  <2>3. ErrorPropagates'
    BY <1>2, <1>3, <2>1 DEF FailInv, ErrorPropagates, AllFailed
  <2>4. OkIsFinal'
    BY <1>2, <2>1 DEF FailInv, OkIsFinal
  <2> QED BY <2>2, <2>3, <2>4 DEF FailInv
<1>8. CASE ~(s < Last)
  <2>1. s = Last
    BY <1>1, <1>8, StageFacts
  <2>2. pc'[t] \in {"close", "done"}
    BY <1>8, StageFacts DEF FailSlot, Goto, TypeOK, PcOK
  <2>3. AllFailed'
    <3> SUFFICES ASSUME NEW v \in Stages PROVE failed'[v]
      BY DEF AllFailed
    <3>1. v < s \/ v = s
      <4>1. v \in 0 .. N-1 /\ s = N-1 /\ N \in Nat
        BY <2>1, NAssumption DEF Stages, Last
      <4> QED BY <4>1
    <3> QED BY <1>1, <1>3, <1>4, <3>1 DEF FailInv, MarksInOrder
  <2>4. MarksInOrder'
    <3>1. \A u, v \in Stages : v < failing'[u] => failed'[v]
      BY <2>3 DEF AllFailed
    <3>2. \A u \in Stages : pc'[u] \in NotYetFailing => failing'[u] = 0
      BY <1>5, <1>6, <2>2 DEF FailInv, MarksInOrder, NotYetFailing
    <3>3. \A u \in Stages : pc'[u] = "failing" => failing'[u] \in Stages
      BY <1>5, <1>6, <2>2 DEF FailInv, MarksInOrder
    <3> QED BY <3>1, <3>2, <3>3 DEF MarksInOrder
  <2>5. ErrorPropagates'
    BY <2>3 DEF ErrorPropagates
  <2>6. outcome # "ok"
    BY <1>1, StageFacts DEF FailInv, OkIsFinal
  <2>7. OkIsFinal'
    BY <1>2, <2>6 DEF OkIsFinal
  <2> QED BY <2>4, <2>5, <2>7 DEF FailInv
<1> QED BY <1>7, <1>8

\* A new call.
LEMMA FailStart == ASSUME NEW n \in Lens, Start(n) PROVE FailInv'
<1>1. \A k \in Stages : failing'[k] = 0 /\ ret'[k] /\ pc'[k] # "failing"
  BY DEF Start
<1>2. MarksInOrder'
  BY <1>1, StageFacts DEF MarksInOrder
<1>3. ErrorPropagates'
  BY <1>1 DEF ErrorPropagates
<1>4. OkIsFinal'
  BY DEF Start, OkIsFinal
<1> QED BY <1>2, <1>3, <1>4 DEF FailInv

\* The caller goes to the join, or returns.
LEMMA FailReturn ==
  ASSUME TypeOK, FailInv, CloseFirst \/ Join
  PROVE  FailInv'
<1>1. UNCHANGED <<failed, failing, ret>> /\ pc[0] \in {"close", "join"}
  BY DEF CloseFirst, Join, slotVars
<1>2. /\ pc'[0] \in {"join", "idle"}
      /\ \A u \in Stages : u # 0 => pc'[u] = pc[u]
  BY StageFacts DEF CloseFirst, Join, Goto, TypeOK, PcOK
<1>3. MarksInOrder'
  BY <1>1, <1>2 DEF FailInv, MarksInOrder, NotYetFailing
<1>4. ErrorPropagates'
  <2> SUFFICES ASSUME NEW u \in Stages, ~ret'[u]
               PROVE  AllFailed' \/ pc'[u] \in {"ran", "failing"}
    BY DEF ErrorPropagates
  <2>1. AllFailed \/ pc[u] \in {"ran", "failing"}
    BY <1>1 DEF FailInv, ErrorPropagates
  <2>2. AllFailed => AllFailed'
    BY <1>1 DEF AllFailed
  <2>3. u # 0 \/ AllFailed
    BY <1>1, <2>1
  <2> QED BY <1>2, <2>1, <2>2, <2>3
<1>5. OkIsFinal'
  <2>1. CASE CloseFirst
    <3>1. outcome' = outcome /\ outcome # "ok"
      BY <2>1 DEF CloseFirst, FailInv, OkIsFinal, callVars
    <3> QED BY <3>1 DEF OkIsFinal
  <2>2. CASE Join
    <3> SUFFICES ASSUME outcome' = "ok"
                 PROVE  /\ pc'[0] = "idle" /\ \A k \in Workers : pc'[k] = "done"
                        /\ \A k \in Stages : ret'[k]
      BY DEF OkIsFinal
    <3>1. ret[0] /\ \A s \in Stages : ~failed[s]
      BY <2>2 DEF Join
    <3>2. ~AllFailed
      BY <3>1, StageFacts DEF AllFailed
    <3>3. \A k \in Workers : pc[k] = "done"
      BY <2>2 DEF Join
    <3>4. \A k \in Workers : ret[k]
      BY <3>2, <3>3, StageFacts DEF FailInv, ErrorPropagates
    <3>5. \A k \in Stages : ret'[k]
      BY <1>1, <3>1, <3>4, StageFacts
    <3>6. pc'[0] = "idle"
      BY <2>2, StageFacts DEF Join, Goto, TypeOK, PcOK
    <3> QED BY <1>2, <3>3, <3>5, <3>6, StageFacts
  <2> QED BY <2>1, <2>2
<1> QED BY <1>3, <1>4, <1>5 DEF FailInv

\* The caller's other steps.
LEMMA FailCaller ==
  ASSUME TypeOK, FailInv, CallerStep
  PROVE  FailInv'
<1> USE StageFacts DEF NotYetFailing
<1>1. CASE Embed
  BY <1>1, FailQuietMove DEF Embed, callVars
<1>2. CASE Stage0Bucket
  BY <1>2, FailQuietMove DEF Stage0Bucket, callVars
<1>3. CASE Stage0Ok
  BY <1>3, FailQuietMove DEF Stage0Ok, slotVars, callVars
<1>4. CASE Stage0Error
  BY <1>4, FailMove DEF Stage0Error, slotVars, callVars
<1>5. CASE FailSlot(0)
  BY <1>5, FailMark
<1>6. CASE CloseFirst \/ Join
  BY <1>6, FailReturn
<1> QED BY <1>1, <1>2, <1>3, <1>4, <1>5, <1>6 DEF CallerStep

\* A worker's steps.
LEMMA FailWorker ==
  ASSUME TypeOK, FailInv, NEW k \in Workers, WorkerStep(k)
  PROVE  FailInv'
<1> USE StageFacts
<1>1. CASE WaitBlock(k)
  BY <1>1 DEF WaitBlock, FailInv, MarksInOrder, ErrorPropagates, OkIsFinal, AllFailed, slotVars,
              callVars
<1>2. CASE WaitTake(k)
  BY <1>2, FailQuietMove DEF WaitTake, callVars, NotYetFailing
<1>3. CASE WaitEnd(k)
  BY <1>3, FailQuietMove DEF WaitEnd, slotVars, callVars, NotYetFailing
<1>4. CASE Drain(k)
  BY <1>4, FailQuietMove DEF Drain, slotVars, callVars, NotYetFailing
<1>5. CASE Abort(k)
  BY <1>5, FailQuietMove DEF Abort, callVars, NotYetFailing
<1>6. CASE Finish(k)
  BY <1>6, FailQuietMove DEF Finish, callVars, NotYetFailing
<1>7. CASE Reject(k)
  BY <1>7, FailQuietMove DEF Reject, slotVars, callVars, NotYetFailing
<1>8. CASE Prepare(k)
  BY <1>8, FailQuietMove DEF Prepare, callVars, NotYetFailing
<1>9. CASE DecideSampling(k)
  BY <1>9, FailQuietMove DEF DecideSampling, slotVars, callVars, NotYetFailing
<1>10. CASE Run(k)
  BY <1>10, FailMove DEF Run, callVars, NotYetFailing
<1>11. CASE RunError(k)
  BY <1>11, FailMove DEF RunError, slotVars, callVars, NotYetFailing
<1>12. CASE Ran(k)
  <2>1. UNCHANGED ret /\ ret[k] \in BOOLEAN /\ ret' = [ret EXCEPT ![k] = ret[k]]
    BY <1>12 DEF Ran, TypeOK, LocalsOK
  <2>2. CASE ret[k]
    BY <1>12, <2>1, <2>2, FailMove DEF Ran, callVars, NotYetFailing
  <2>3. CASE ~ret[k]
    BY <1>12, <2>1, <2>3, FailMove DEF Ran, callVars, NotYetFailing
  <2> QED BY <2>2, <2>3
<1>13. CASE FailSlot(k)
  BY <1>13, FailMark
<1> QED BY <1>1, <1>2, <1>3, <1>4, <1>5, <1>6, <1>7, <1>8, <1>9, <1>10, <1>11, <1>12, <1>13
        DEF WorkerStep

\* Nothing has failed at first.
LEMMA FailInit == Init => FailInv
<1> SUFFICES ASSUME Init PROVE FailInv
  OBVIOUS
<1>1. \A k \in Stages : failing[k] = 0 /\ ret[k] /\ pc[k] # "failing"
  BY DEF Init
<1>2. MarksInOrder
  BY <1>1, StageFacts DEF MarksInOrder
<1>3. ErrorPropagates
  BY <1>1 DEF ErrorPropagates
<1>4. OkIsFinal
  BY DEF Init, OkIsFinal
<1> QED BY <1>2, <1>3, <1>4 DEF FailInv

\* Every step hands on a failure.
LEMMA FailStep ==
  ASSUME TypeOK, FailInv, [Next]_vars
  PROVE  FailInv'
<1>1. ASSUME NEW n \in Lens, Start(n) PROVE FailInv'
  BY <1>1, FailStart
<1>2. CASE CallerStep
  BY <1>2, FailCaller
<1>3. ASSUME NEW k \in Workers, WorkerStep(k) PROVE FailInv'
  BY <1>3, FailWorker
<1>4. CASE UNCHANGED vars
  BY <1>4 DEF vars, slotVars, callVars, FailInv, MarksInOrder, ErrorPropagates, OkIsFinal,
              AllFailed
<1> QED BY <1>1, <1>2, <1>3, <1>4 DEF Next, Terminated

\* An error of a session run, in whatever thread and at whatever point of the call,
\* makes run_pipeline_once return false.
THEOREM NoErrorIsLost == Spec => []ErrorsSurface
<1>1. TypeOK /\ FailInv /\ [Next]_vars => FailInv'
  BY FailStep
<1>2. FailInv => ErrorsSurface
  BY DEF FailInv, OkIsFinal, ErrorsSurface
<1> QED BY <1>1, <1>2, FailInit, Typing, PTL DEF Spec

-----------------------------------------------------------------------------
(***************************************************************************)
(* Rows: what the slots and the caches hold, and what the caller sees of   *)
(* it.                                                                     *)
(***************************************************************************)

\* A queue after one more batch.
LEMMA AppendFacts ==
  ASSUME NEW q \in Seq(Batch), NEW b \in Batch
  PROVE  /\ Append(q, b) \in Seq(Batch) /\ Append(q, b) # <<>>
         /\ Len(q) \in Nat /\ Len(Append(q, b)) = Len(q) + 1
         /\ \A i \in 1 .. Len(q) : Append(q, b)[i] = q[i]
         /\ Append(q, b)[Len(q) + 1] = b
<1>1. Append(q, b) \in Seq(Batch) /\ Len(q) \in Nat /\ Len(Append(q, b)) = Len(q) + 1
  BY LenProperties, AppendProperties
<1>2. \A i \in 1 .. Len(q) : Append(q, b)[i] = q[i]
  BY AppendProperties
<1>3. Append(q, b)[Len(q) + 1] = b
  BY AppendProperties
<1> QED BY <1>1, <1>2, <1>3, EmptySeq

\* A queue without its first batch.
LEMMA TailFacts ==
  ASSUME NEW q \in Seq(Batch), q # <<>>
  PROVE  /\ Tail(q) \in Seq(Batch) /\ Head(q) \in Batch /\ Head(q) = q[1]
         /\ Len(q) \in Nat /\ Len(q) >= 1 /\ Len(Tail(q)) = Len(q) - 1
         /\ \A i \in 1 .. Len(q) - 1 : Tail(q)[i] = q[i+1]
<1>1. Len(q) \in Nat /\ Len(q) # 0
  BY LenProperties, EmptySeq
<1>2. Tail(q) \in Seq(Batch) /\ Head(q) \in Batch /\ Head(q) = q[1]
      /\ Len(Tail(q)) = Len(q) - 1
  BY HeadTailProperties
<1>3. \A i \in 1 .. Len(q) - 1 : Tail(q)[i] = q[i+1]
  BY <1>2, HeadTailProperties
<1> QED BY <1>1, <1>2, <1>3

\* A queue that goes on up to top goes on further with one more batch.
LEMMA FollowsAppend ==
  ASSUME NEW q \in Seq(Batch), NEW b \in Batch, NEW r \in Nat, NEW top \in Nat,
         NEW more \in Nat, Follows(q, r, top), top <= more,
         b.lo = EndOf(q, r) + 1, b.hi = more
  PROVE  Follows(Append(q, b), r, more) /\ EndOf(Append(q, b), r) = more
<1> DEFINE n == Len(q)
           p == Append(q, b)
<1>1. /\ n \in Nat /\ Len(p) = n + 1 /\ p # <<>>
      /\ \A i \in 1 .. n : p[i] = q[i]
      /\ p[n + 1] = b
  BY AppendFacts
<1>2. \A i \in 1 .. n : q[i] \in Batch
  BY ElementOfSeq
<1>3. n = 0 <=> q = <<>>
  BY EmptySeq
<1>4. \A i \in 1 .. n :
        q[i].lo = (IF i = 1 THEN r ELSE q[i-1].hi) + 1 /\ q[i].hi <= top
  BY DEF Follows
<1>5. b.lo = (IF n = 0 THEN r ELSE q[n].hi) + 1
  BY <1>3 DEF EndOf
<1> HIDE DEF n, p
<1>6. ASSUME NEW i \in 1 .. n + 1
      PROVE  p[i].lo = (IF i = 1 THEN r ELSE p[i-1].hi) + 1 /\ p[i].hi <= more
  <2>1. CASE i = n + 1
    <3>1. p[i] = b /\ p[i].hi <= more
      BY <1>1, <2>1
    <3>2. CASE n = 0
      BY <1>5, <2>1, <3>1, <3>2
    <3>3. CASE n # 0
      <4>1. p[i-1] = q[n] /\ i # 1
        BY <1>1, <2>1, <3>3
      <4> QED BY <1>5, <3>1, <3>3, <4>1
    <3> QED BY <3>2, <3>3
  <2>2. CASE i # n + 1
    <3>1. i \in 1 .. n /\ p[i] = q[i]
      BY <1>1, <2>2
    <3>2. q[i].lo = (IF i = 1 THEN r ELSE q[i-1].hi) + 1 /\ q[i].hi <= top
      BY <1>4, <3>1
    <3>3. i # 1 => p[i-1] = q[i-1]
      BY <1>1, <3>1
    <3>4. q[i].hi \in Nat
      BY <1>2, <3>1 DEF Batch
    <3>5. p[i].hi <= more
      BY <3>1, <3>2, <3>4
    <3> QED BY <3>1, <3>2, <3>3, <3>5
  <2> QED BY <2>1, <2>2
<1>7. Follows(p, r, more)
  BY <1>1, <1>6 DEF Follows
<1>8. EndOf(p, r) = more
  BY <1>1 DEF EndOf
<1> QED BY <1>7, <1>8 DEF p

\* A queue without its first batch goes on after that batch.
LEMMA FollowsTail ==
  ASSUME NEW q \in Seq(Batch), q # <<>>, NEW r \in Nat, NEW top \in Nat, Follows(q, r, top)
  PROVE  /\ Head(q).lo = r + 1 /\ Head(q).hi <= top
         /\ Follows(Tail(q), Head(q).hi, top)
         /\ EndOf(Tail(q), Head(q).hi) = EndOf(q, r)
<1> DEFINE n == Len(q)
           p == Tail(q)
<1>1. /\ n \in Nat /\ n >= 1 /\ Len(p) = n - 1 /\ Head(q) = q[1]
      /\ \A i \in 1 .. n - 1 : p[i] = q[i+1]
  BY TailFacts
<1>2. p = <<>> <=> n = 1
  <2>1. p \in Seq(Batch)
    BY TailFacts
  <2> QED BY <1>1, <2>1, EmptySeq
<1>3. \A i \in 1 .. n :
        q[i].lo = (IF i = 1 THEN r ELSE q[i-1].hi) + 1 /\ q[i].hi <= top
  BY DEF Follows
<1>4. EndOf(q, r) = q[n].hi /\ EndOf(p, q[1].hi) = IF n = 1 THEN q[1].hi ELSE p[n-1].hi
  BY <1>1, <1>2 DEF EndOf
<1> HIDE DEF n, p
<1>5. q[1].lo = r + 1 /\ q[1].hi <= top
  BY <1>1, <1>3
<1>6. ASSUME NEW i \in 1 .. n - 1
      PROVE  p[i].lo = (IF i = 1 THEN q[1].hi ELSE p[i-1].hi) + 1 /\ p[i].hi <= top
  <2>1. p[i] = q[i+1] /\ i + 1 \in 1 .. n /\ i + 1 # 1 /\ (i+1)-1 = i
    BY <1>1
  <2>2. q[i+1].lo = q[i].hi + 1 /\ q[i+1].hi <= top
    BY <1>3, <2>1
  <2>3. i # 1 => p[i-1] = q[i]
    BY <1>1
  <2> QED BY <2>1, <2>2, <2>3
<1>7. Follows(p, q[1].hi, top)
  BY <1>1, <1>6 DEF Follows
<1>8. EndOf(p, q[1].hi) = EndOf(q, r)
  BY <1>1, <1>4
<1> QED BY <1>1, <1>5, <1>7, <1>8 DEF p

\* The stage in front may have computed more.
LEMMA FollowsMore ==
  ASSUME NEW q \in Seq(Batch), NEW r, NEW top \in Nat, NEW more \in Nat,
         Follows(q, r, top), top <= more
  PROVE  Follows(q, r, more)
<1>1. \A i \in 1 .. Len(q) : q[i] \in Batch
  BY ElementOfSeq
<1>2. \A i \in 1 .. Len(q) : q[i].hi \in Nat
  BY <1>1 DEF Batch
<1> QED BY <1>2 DEF Follows

\* A sound batch, or one that is neither after a rejected one, keeps the sizes.
LEMMA SizesAppend ==
  ASSUME NEW q \in Seq(Batch), NEW b \in Batch, NEW rejecting, Sizes(q, rejecting),
         \/ Sound(b) \/ BadBatch(b) \/ rejecting
         \/ \E j \in 1 .. Len(q) : BadBatch(q[j])
  PROVE  Sizes(Append(q, b), rejecting)
<1> DEFINE n == Len(q)
           p == Append(q, b)
<1>1. /\ n \in Nat /\ Len(p) = n + 1
      /\ \A i \in 1 .. n : p[i] = q[i]
      /\ p[n + 1] = b
  BY AppendFacts
<1> HIDE DEF p
<1> SUFFICES ASSUME NEW i \in 1 .. n + 1, ~rejecting, ~Sound(p[i])
             PROVE  \E j \in 1 .. i : BadBatch(p[j])
  BY <1>1 DEF Sizes, p
<1>2. CASE i = n + 1
  <2>1. CASE BadBatch(b)
    BY <1>1, <1>2, <2>1
  <2>2. CASE \E j \in 1 .. n : BadBatch(q[j])
    BY <1>1, <1>2, <2>2
  <2> QED BY <1>1, <1>2, <2>1, <2>2
<1>3. CASE i # n + 1
  <2>1. i \in 1 .. n /\ p[i] = q[i]
    BY <1>1, <1>3
  <2>2. PICK j \in 1 .. i : BadBatch(q[j])
    BY <2>1 DEF Sizes
  <2> QED BY <1>1, <2>1, <2>2
<1> QED BY <1>2, <1>3

\* Taking the first batch keeps the sizes, and it is sound or rejected.
LEMMA SizesTail ==
  ASSUME NEW q \in Seq(Batch), q # <<>>, Sizes(q, FALSE)
  PROVE  /\ Sound(Head(q)) \/ BadBatch(Head(q))
         /\ Sizes(Tail(q), BadBatch(Head(q)))
<1> DEFINE n == Len(q)
           p == Tail(q)
<1>1. /\ n \in Nat /\ n >= 1 /\ Len(p) = n - 1 /\ Head(q) = q[1]
      /\ \A i \in 1 .. n - 1 : p[i] = q[i+1]
  BY TailFacts
<1>2. \A i \in 1 .. n : Sound(q[i]) \/ \E j \in 1 .. i : BadBatch(q[j])
  BY DEF Sizes
<1> HIDE DEF n, p
<1>3. Sound(q[1]) \/ BadBatch(q[1])
  <2>1. 1 \in 1 .. n /\ \A j \in 1 .. 1 : j = 1
    BY <1>1
  <2> QED BY <1>2, <2>1
<1>4. ASSUME NEW i \in 1 .. n - 1, ~BadBatch(q[1]), ~Sound(p[i])
      PROVE  \E j \in 1 .. i : BadBatch(p[j])
  <2>1. p[i] = q[i+1] /\ i + 1 \in 1 .. n
    BY <1>1
  <2>2. PICK j \in 1 .. i + 1 : BadBatch(q[j])
    BY <1>2, <1>4, <2>1
  <2>3. j # 1
    BY <1>4, <2>2
  <2>4. j - 1 \in 1 .. i /\ p[j-1] = q[j]
    BY <1>1, <2>3
  <2> QED BY <2>2, <2>4
<1>5. Sizes(p, BadBatch(q[1]))
  BY <1>1, <1>4 DEF Sizes
<1> QED BY <1>1, <1>3, <1>5 DEF p

-----------------------------------------------------------------------------

\* The types of one stage's state.
LEMMA StageTypes ==
  ASSUME TypeOK
  PROVE  /\ \A s \in Stages : /\ batches[s] \in Seq(Batch) /\ fed[s] \in Nat
                              /\ ret[s] \in BOOLEAN /\ active_input_tokens[s] \in Nat
                              /\ emitted_tokens[s] \in Nat /\ expected_tokens[s] \in Nat
         /\ \A k \in Workers : /\ batch[k] \in Batch /\ batch[k].lo \in Nat
                               /\ batch[k].hi \in Nat /\ batch[k].n \in Nat
                               /\ Reached(k) \in Nat
         /\ input \in Nat
<1>1. \A k \in Workers : batch[k] \in Batch
  BY DEF TypeOK, LocalsOK
<1>2. \A k \in Workers : batch[k].lo \in Nat /\ batch[k].hi \in Nat /\ batch[k].n \in Nat
  BY <1>1 DEF Batch
<1>3. \A s \in Stages : fed[s] \in Nat
  BY DEF TypeOK, CallOK
<1>4. \A k \in Workers : Reached(k) \in Nat
  BY <1>2, <1>3, StageFacts DEF Reached
<1>5. \A s \in Stages : ret[s] \in BOOLEAN
  BY DEF TypeOK, LocalsOK
<1> QED BY <1>1, <1>2, <1>3, <1>4, <1>5 DEF TypeOK, SlotsOK, CallOK

\* A jump of one thread.
LEMMA GotoFacts ==
  ASSUME TypeOK, NEW t \in Stages, NEW l, Goto(t, l)
  PROVE  pc'[t] = l /\ \A u \in Stages : u # t => pc'[u] = pc[u]
BY DEF TypeOK, PcOK, Goto

\* A rejected batch excuses whatever comes after it.
LEMMA SizesExcuse ==
  ASSUME NEW q, NEW a, NEW b, Sizes(q, a), a => b
  PROVE  Sizes(q, b)
BY DEF Sizes

\* What belongs to worker k and its slot.
LinkInv(k) == HandInv(k) /\ SizesInv(k) /\ ChainInv(k)

\* A step that touches neither of them.
LEMMA LinkFrame ==
  ASSUME NEW k \in Workers, LinkInv(k),
         UNCHANGED <<pc[k], ret[k], batch[k], fed[k], active_input_tokens[k]>>,
         UNCHANGED <<batches[k-1], fed[k-1], ret[k-1]>>
  PROVE  LinkInv(k)'
<1>1. Reached(k)' = Reached(k) /\ (Rejecting(k)' <=> Rejecting(k))
  BY DEF Reached, Rejecting
<1>2. HandInv(k)'
  BY <1>1 DEF LinkInv, HandInv
<1>3. SizesInv(k)'
  <2>1. Rejecting(k) => Rejecting(k)'
    BY <1>1
  <2>2. Sizes(batches[k-1], Rejecting(k)')
    BY <2>1, SizesExcuse DEF LinkInv, SizesInv
  <2> QED BY <2>2 DEF SizesInv
<1>4. ChainInv(k)'
  BY <1>1 DEF LinkInv, ChainInv
<1> QED BY <1>2, <1>3, <1>4 DEF LinkInv

\* A step of worker k that leaves its cache and every queue alone.
LEMMA LinkMove ==
  ASSUME NEW k \in Workers, LinkInv(k), HandInv(k)',
         UNCHANGED <<ret[k], batch[k], fed[k]>>,
         UNCHANGED <<batches[k-1], fed[k-1], ret[k-1]>>,
         Reached(k)' = Reached(k), Rejecting(k) => Rejecting(k)'
  PROVE  LinkInv(k)'
<1>1. SizesInv(k)'
  <2>1. Sizes(batches[k-1], Rejecting(k)')
    BY SizesExcuse DEF LinkInv, SizesInv
  <2> QED BY <2>1 DEF SizesInv
<1>2. ChainInv(k)'
  BY DEF LinkInv, ChainInv
<1> QED BY <1>1, <1>2 DEF LinkInv

\* Once the queue of stage 0 is suspect, it stays so while the batches that are in it
\* are there or the worker has rejected one.
LEMMA SourceFrame ==
  ASSUME SourceInv,
         UNCHANGED <<pc[0], fed[0], input, expected_tokens[0], emitted_tokens[0],
                     active_input_tokens[0], ret[0]>>,
         N > 1 /\ Suspect(1) => Suspect(1)'
  PROVE  SourceInv'
<1>1. NextRows' = NextRows
  BY DEF NextRows
<1> QED BY <1>1 DEF SourceInv

\* A jump of worker t that leaves caches, queues and hands alone.
LEMMA FlowMove ==
  ASSUME TypeOK, FlowInv, NEW t \in Workers, NEW l, Goto(t, l),
         UNCHANGED <<batches, batch, fed, ret, exact, input>>,
         UNCHANGED <<expected_tokens[0], emitted_tokens[0]>>,
         \A u \in Stages : u # t => active_input_tokens'[u] = active_input_tokens[u],
         HandInv(t)', Reached(t)' = Reached(t), Rejecting(t) => Rejecting(t)',
         l \in NotYetFailing \ {"ran"} => ret[t]
  PROVE  FlowInv'
<1> USE StageFacts
<1>1. pc'[t] = l /\ \A u \in Stages : u # t => pc'[u] = pc[u]
  BY GotoFacts
<1>2. StopsOnError'
  BY <1>1 DEF FlowInv, StopsOnError
<1>3. ASSUME NEW k \in Workers PROVE LinkInv(k)'
  <2>1. LinkInv(k)
    BY DEF FlowInv, LinkInv
  <2>2. CASE k = t
    BY <2>1, <2>2, LinkMove
  <2>3. CASE k # t
    BY <1>1, <2>1, <2>3, LinkFrame
  <2> QED BY <2>2, <2>3
<1>4. SourceInv'
  <2>1. N > 1 /\ Suspect(1) => Suspect(1)'
    <3>1. N > 1 => (Rejecting(1) => Rejecting(1)')
      <4>1. CASE t = 1
        BY <4>1
      <4>2. CASE t # 1
        <5>1. N > 1 => 1 \in Stages
          BY DEF Stages
        <5> QED BY <1>1, <4>2, <5>1 DEF Rejecting
      <4> QED BY <4>1, <4>2
    <3> QED BY <3>1 DEF Suspect
  <2> QED BY <1>1, <2>1, SourceFrame DEF FlowInv
<1>5. NothingGarbled'
  BY DEF FlowInv, NothingGarbled
<1> QED BY <1>2, <1>3, <1>4, <1>5 DEF FlowInv, LinkInv

\* A jump of the caller that leaves the caches and the queues alone.
LEMMA FlowCallerMove ==
  ASSUME TypeOK, FlowInv, NEW l, Goto(0, l), SourceInv',
         UNCHANGED <<batches, batch, fed, ret, exact, active_input_tokens>>,
         l \in NotYetFailing \ {"ran"} => ret[0]
  PROVE  FlowInv'
<1> USE StageFacts
<1>1. pc'[0] = l /\ \A u \in Stages : u # 0 => pc'[u] = pc[u]
  BY GotoFacts
<1>2. StopsOnError'
  BY <1>1 DEF FlowInv, StopsOnError
<1>3. ASSUME NEW k \in Workers PROVE LinkInv(k)'
  BY <1>1, LinkFrame DEF FlowInv, LinkInv
<1>4. NothingGarbled'
  BY DEF FlowInv, NothingGarbled
<1> QED BY <1>2, <1>3, <1>4 DEF FlowInv, LinkInv

\* Stage s puts a batch with rows for its next m positions in its slot.
LEMMA LinkOutput ==
  ASSUME TypeOK, NEW s \in Stages, NEW k \in Workers, k-1 = s, LinkInv(k), ret[s],
         NEW m \in Nat, NEW n \in Nat, NEW b, b = [lo |-> fed[s] + 1, hi |-> fed[s] + m, n |-> n],
         batches'[s] = Append(batches[s], b), fed'[s] = fed[s] + m,
         UNCHANGED <<pc[k], ret[k], batch[k], fed[k], active_input_tokens[k]>>,
         Sound(b) \/ BadBatch(b) \/ Suspect(k)
  PROVE  LinkInv(k)' /\ (Suspect(k) \/ BadBatch(b) => Suspect(k)')
<1> DEFINE q == batches[s]
           r == Reached(k)
           rej == Rejecting(k)
<1>1. q \in Seq(Batch) /\ fed[s] \in Nat /\ r \in Nat
  BY StageTypes
<1>2. b \in Batch /\ b.lo = fed[s] + 1 /\ b.hi = fed[s] + m
  BY <1>1 DEF Batch
<1>3. Reached(k)' = r /\ (Rejecting(k)' <=> rej)
  BY DEF Reached, Rejecting
<1>4. /\ Len(Append(q, b)) = Len(q) + 1 /\ Len(q) \in Nat
      /\ \A i \in 1 .. Len(q) : Append(q, b)[i] = q[i]
      /\ Append(q, b)[Len(q) + 1] = b
  BY <1>1, <1>2, AppendFacts
<1>5. HandInv(k)'
  BY <1>3 DEF LinkInv, HandInv
<1>6. SizesInv(k)'
  <2>1. Sizes(q, rej)
    BY DEF LinkInv, SizesInv
  <2>2. Sound(b) \/ BadBatch(b) \/ rej \/ \E j \in 1 .. Len(q) : BadBatch(q[j])
    BY DEF Suspect
  <2>3. Sizes(Append(q, b), rej)
    BY <1>1, <1>2, <2>1, <2>2, SizesAppend
  <2>4. Sizes(Append(q, b), Rejecting(k)')
    BY <1>3, <2>3, SizesExcuse
  <2> QED BY <2>4 DEF SizesInv
<1>7. ChainInv(k)'
  <2> SUFFICES ASSUME ret[k]
               PROVE  /\ Follows(Append(q, b), r, fed'[s])
                      /\ r <= fed'[s]
                      /\ ret'[s] => fed'[s] = EndOf(Append(q, b), r)
    BY <1>3 DEF ChainInv
  <2>1. Follows(q, r, fed[s]) /\ r <= fed[s] /\ fed[s] = EndOf(q, r)
    BY DEF LinkInv, ChainInv
  <2>2. Follows(Append(q, b), r, fed[s] + m) /\ EndOf(Append(q, b), r) = fed[s] + m
    <3>1. fed[s] + m \in Nat /\ fed[s] <= fed[s] + m
      BY <1>1
    <3> HIDE DEF q, r
    <3> QED BY <1>1, <1>2, <2>1, <3>1, FollowsAppend
  <2> QED BY <1>1, <2>1, <2>2
<1>8. ASSUME Suspect(k) \/ BadBatch(b) PROVE Suspect(k)'
  <2>1. CASE Rejecting(k)
    BY <1>3, <2>1 DEF Suspect
  <2>2. CASE \E j \in 1 .. Len(q) : BadBatch(q[j])
    <3>1. PICK j \in 1 .. Len(q) : BadBatch(q[j])
      BY <2>2
    <3>2. j \in 1 .. Len(Append(q, b)) /\ BadBatch(Append(q, b)[j])
      BY <1>4, <3>1
    <3> QED BY <3>2 DEF Suspect
  <2>3. CASE BadBatch(b)
    <3>1. Len(q) + 1 \in 1 .. Len(Append(q, b)) /\ BadBatch(Append(q, b)[Len(q) + 1])
      BY <1>4, <2>3
    <3> QED BY <3>1 DEF Suspect
  <2> QED BY <1>8, <2>1, <2>2, <2>3 DEF Suspect
<1> QED BY <1>5, <1>6, <1>7, <1>8 DEF LinkInv

\* The rows of stage 0's next bucket.
LEMMA BucketFacts ==
  ASSUME TypeOK, FlowInv, WithinInput, pc[0] \in {"embed", "bucket"}
  PROVE  /\ NextRows \in Nat /\ NextRows >= 1 /\ NextRows <= RtBucket
         /\ fed[0] + NextRows <= input
         /\ fed[0] + NextRows # input => NextRows = RtBucket
<1>1. input \in Nat /\ fed[0] \in Nat /\ RtBucket \in Nat /\ RtBucket >= 1 /\ fed[0] < input
  BY BucketAssumption, StageFacts, StageTypes DEF FlowInv, SourceInv
<1> QED BY <1>1 DEF NextRows, Least

\* The count of stage_output_callback for stage 0 is the size of the tensor, or is too
\* large for it, if there was no such batch before.
LEMMA FirstCount ==
  ASSUME BucketsFit, TypeOK, FlowInv, WithinInput, pc[0] = "bucket", N > 1,
         emitted_tokens[0] = fed[0], NEW f \in BOOLEAN, f <=> fed[0] + NextRows = input
  PROVE  CountTokens(0, f) = NextRows \/ CountTokens(0, f) > RtBucket
<1> DEFINE m == NextRows
           e == expected_tokens[0]
           d == fed[0]
<1>1. m \in Nat /\ m >= 1 /\ m <= RtBucket /\ d + m <= input /\ (d + m # input => m = RtBucket)
  BY BucketFacts
<1>2. d \in Nat /\ e \in Nat /\ input \in Nat /\ RtBucket \in Nat /\ Bucket \in Nat
      /\ Bucket >= RtBucket
  BY BucketAssumption, StageFacts, StageTypes DEF BucketsFit
<1>3. d + m <= e /\ e <= input /\ active_input_tokens[0] = 0
  BY DEF FlowInv, SourceInv
<1>4. Remaining(0) = e - d
  <2> HIDE DEF m
  <2>1. e > d
    BY <1>1, <1>2, <1>3
  <2> QED BY <2>1 DEF Remaining
<1>5. CountTokens(0, f) = LET g == IF f THEN e - d ELSE Least(Bucket, e - d)
                          IN  IF g = 0 THEN RtBucket ELSE g
  BY <1>3, <1>4 DEF CountTokens
<1> HIDE DEF m, e, d
<1>6. CASE f
  <2>1. e - d = m /\ m # 0
    BY <1>1, <1>2, <1>3, <1>6 DEF d, m
  <2> QED BY <1>5, <1>6, <2>1 DEF m
<1>7. CASE ~f
  <2>1. m = RtBucket
    BY <1>1, <1>7 DEF d, m
  <2>2. Least(Bucket, e - d) >= m /\ Least(Bucket, e - d) \in Nat
    BY <1>1, <1>2, <1>3, <2>1 DEF Least
  <2>3. CountTokens(0, f) = Least(Bucket, e - d)
    BY <1>1, <1>5, <1>7, <2>2
  <2> QED BY <1>1, <1>2, <2>1, <2>2, <2>3 DEF m
<1> QED BY <1>6, <1>7

\* A bucket of stage 0.
LEMMA FlowBucket ==
  ASSUME BucketsFit, TypeOK, FlowInv, WithinInput, Stage0Bucket
  PROVE  FlowInv'
<1> USE StageFacts
<1> DEFINE m == NextRows
           f == fed[0] + m = input
           n == CountTokens(0, f)
           b == [lo |-> fed[0] + 1, hi |-> fed[0] + m, n |-> n]
           l == IF f THEN "return"
                ELSE IF expected_tokens[0] >= Least(fed'[0] + RtBucket, input)
                THEN "bucket" ELSE "embed"
<1>1. /\ m \in Nat /\ m >= 1 /\ m <= RtBucket /\ fed[0] + m <= input
      /\ pc[0] = "bucket" /\ ret[0]
  BY BucketFacts DEF Stage0Bucket, FlowInv, StopsOnError, NotYetFailing
<1>2. fed' = [fed EXCEPT ![0] = @ + m] /\ Goto(0, l)
      /\ UNCHANGED <<expected_tokens, active_input_tokens, batch, ret, exact, input>>
  BY DEF Stage0Bucket, workVars, callVars
<1>3. fed'[0] = fed[0] + m /\ \A s \in Stages : s # 0 => fed'[s] = fed[s]
  BY <1>1, <1>2 DEF TypeOK, CallOK
<1>4. pc'[0] = l /\ \A u \in Stages : u # 0 => pc'[u] = pc[u]
  BY <1>2, GotoFacts
<1>5. fed[0] \in Nat /\ input \in Nat /\ expected_tokens[0] \in Nat /\ RtBucket \in Nat
  BY BucketAssumption, StageTypes
<1>6. n \in Nat
  <2>1. f \in BOOLEAN
    OBVIOUS
  <2> QED BY <2>1, CountFacts DEF TypeOK
<1>7. N > 1 => /\ batches'[0] = Append(batches[0], b)
               /\ emitted_tokens'[0] = emitted_tokens[0] + n
  BY DEF Stage0Bucket, Output, TypeOK, SlotsOK
<1>8. \A s \in Stages : s # 0 => batches'[s] = batches[s]
  BY DEF Stage0Bucket, Output, TypeOK, SlotsOK
<1>9. N > 1 => \/ Suspect(1)
               \/ emitted_tokens[0] = fed[0] /\ n = m /\ Sound(b)
               \/ BadBatch(b)
  <2> SUFFICES ASSUME N > 1, ~Suspect(1), ~BadBatch(b)
               PROVE  emitted_tokens[0] = fed[0] /\ n = m /\ Sound(b)
    OBVIOUS
  <2>1. emitted_tokens[0] = fed[0]
    BY <1>1 DEF FlowInv, SourceInv
  <2>2. n = m \/ n > RtBucket
    BY <1>1, <2>1, FirstCount
  <2>3. n = m
    <3>1. b.n = n
      OBVIOUS
    <3> QED BY <2>2, <3>1 DEF BadBatch
  <2>4. b.hi = fed[0] + m /\ b.lo = fed[0] + 1 /\ b.n = n
    OBVIOUS
  <2>5. Sound(b)
    <3> HIDE DEF b, m, n
    <3> QED BY <1>1, <1>5, <2>3, <2>4 DEF Sound
  <2> QED BY <2>1, <2>3, <2>5
<1> HIDE DEF m, n, b
<1>10. N > 1 => LinkInv(1)' /\ (Suspect(1) \/ BadBatch(b) => Suspect(1)')
  <2> SUFFICES ASSUME N > 1 PROVE LinkInv(1)' /\ (Suspect(1) \/ BadBatch(b) => Suspect(1)')
    OBVIOUS
  <2>1. 1 \in Workers /\ 1-1 = 0 /\ 1 # 0
    BY DEF Workers
  <2>2. LinkInv(1)
    BY <2>1 DEF FlowInv, LinkInv
  <2>3. Sound(b) \/ BadBatch(b) \/ Suspect(1)
    BY <1>9
  <2>4. UNCHANGED <<pc[1], ret[1], batch[1], fed[1], active_input_tokens[1]>>
    BY <1>2, <1>3, <1>4, <2>1
  <2>5. b = [lo |-> fed[0] + 1, hi |-> fed[0] + m, n |-> n]
    BY DEF b
  <2> QED BY <1>1, <1>3, <1>6, <1>7, <2>1, <2>2, <2>3, <2>4, <2>5, LinkOutput
<1>11. StopsOnError'
  BY <1>1, <1>2, <1>4 DEF FlowInv, StopsOnError
<1>12. ASSUME NEW k \in Workers PROVE LinkInv(k)'
  <2>1. CASE k = 1
    BY <1>10, <2>1 DEF Workers
  <2>2. CASE k # 1
    <3>1. k-1 # 0 /\ k # 0
      BY <2>2
    <3>2. LinkInv(k)
      BY DEF FlowInv, LinkInv
    <3> QED BY <1>2, <1>3, <1>4, <1>8, <3>1, <3>2, LinkFrame
  <2> QED BY <2>1, <2>2
<1>13. SourceInv'
  <2>1. input' = input /\ expected_tokens'[0] = expected_tokens[0]
        /\ active_input_tokens'[0] = 0 /\ ret'[0] = ret[0]
    BY <1>2 DEF FlowInv, SourceInv
  <2>2. pc'[0] \in {"embed", "bucket"} => fed'[0] < input'
    BY <1>1, <1>3, <1>4, <1>5, <2>1
  <2>3. pc'[0] = "bucket" =>
          fed'[0] + NextRows' <= expected_tokens'[0] /\ expected_tokens'[0] <= input'
    <3> SUFFICES ASSUME pc'[0] = "bucket"
                 PROVE  fed'[0] + NextRows' <= expected_tokens[0] /\ expected_tokens[0] <= input
      BY <2>1
    <3>1. expected_tokens[0] >= Least(fed'[0] + RtBucket, input) /\ expected_tokens[0] <= input
      BY <1>1, <1>4 DEF FlowInv, SourceInv
    <3>2. fed'[0] + NextRows' = Least(fed'[0] + RtBucket, input)
      <4>1. fed'[0] \in Nat
        BY <1>1, <1>3, <1>5
      <4>2. NextRows' = Least(RtBucket, input - fed'[0])
        BY <2>1 DEF NextRows, Least
      <4> QED BY <1>5, <4>1, <4>2 DEF Least
    <3> QED BY <1>1, <1>3, <1>5, <3>1, <3>2 DEF Least
  <2>4. pc'[0] \in {"return", "close", "join", "idle"} /\ ret'[0] => fed'[0] = input'
    BY <1>3, <1>4, <2>1
  <2>5. N > 1 /\ ret'[0] => emitted_tokens'[0] = fed'[0] \/ Suspect(1)'
    BY <1>3, <1>7, <1>9, <1>10
  <2>6. pc'[0] # "failing"
    BY <1>4
  <2> QED BY <2>1, <2>2, <2>3, <2>4, <2>5, <2>6 DEF SourceInv
<1>14. NothingGarbled'
  BY <1>2 DEF FlowInv, NothingGarbled
<1> QED BY <1>11, <1>12, <1>13, <1>14 DEF FlowInv, LinkInv

\* A new call.
LEMMA FlowStart == ASSUME NEW n \in Lens, Start(n) PROVE FlowInv'
<1> USE StageFacts
<1>1. n \in Nat /\ n > 0
  BY LensAssumption
<1>2. /\ \A s \in Stages : /\ batches'[s] = <<>> /\ fed'[s] = 0 /\ ret'[s] /\ exact'[s]
                           /\ emitted_tokens'[s] = 0 /\ active_input_tokens'[s] = 0
      /\ \A k \in Workers : pc'[k] = "wait" /\ batch'[k] = NoBatch
      /\ pc'[0] = "embed" /\ input' = n
  BY DEF Start
<1>3. ASSUME NEW k \in Workers PROVE HandInv(k)' /\ SizesInv(k)' /\ ChainInv(k)'
  <2>1. Reached(k)' = 0
    BY <1>2 DEF Reached, NoBatch
  <2>2. HandInv(k)'
    BY <1>2, <2>1 DEF HandInv
  <2>3. batches'[k-1] = <<>> /\ fed'[k-1] = 0
    BY <1>2
  <2>4. SizesInv(k)'
    BY <2>3 DEF SizesInv, Sizes
  <2>5. ChainInv(k)'
    BY <2>1, <2>3 DEF ChainInv, Follows, EndOf
  <2> QED BY <2>2, <2>4, <2>5
<1>4. StopsOnError'
  BY <1>2 DEF StopsOnError
<1>5. SourceInv'
  BY <1>1, <1>2 DEF SourceInv
<1>6. NothingGarbled'
  BY <1>2 DEF NothingGarbled
<1> QED BY <1>3, <1>4, <1>5, <1>6 DEF FlowInv

\* Stage 0 fails, with rows of its next bucket in the cache or not.
LEMMA FlowError ==
  ASSUME TypeOK, FlowInv, WithinInput, Stage0Error
  PROVE  FlowInv'
<1> USE StageFacts
<1>1. /\ pc'[0] = "failing" /\ \A u \in Stages : u # 0 => pc'[u] = pc[u]
      /\ UNCHANGED <<slotVars, workVars, exact, input>>
      /\ ret' = [ret EXCEPT ![0] = FALSE]
  BY GotoFacts DEF Stage0Error, callVars
<1>2. ~ret'[0] /\ \A u \in Stages : u # 0 => ret'[u] = ret[u]
  BY <1>1 DEF TypeOK, LocalsOK
<1>3. fed'[0] \in Nat /\ fed[0] <= fed'[0] /\ \A u \in Stages : u # 0 => fed'[u] = fed[u]
  <2>1. fed' = fed \/ (pc[0] = "bucket" /\ fed' = [fed EXCEPT ![0] = @ + NextRows])
    BY DEF Stage0Error
  <2>2. pc[0] = "bucket" => NextRows \in Nat
    BY BucketFacts
  <2>3. fed \in [Stages -> Nat]
    BY DEF TypeOK, CallOK
  <2>4. CASE fed' = fed
    BY <2>3, <2>4
  <2>5. CASE pc[0] = "bucket" /\ fed' = [fed EXCEPT ![0] = @ + NextRows]
    BY <2>2, <2>3, <2>5
  <2> QED BY <2>1, <2>4, <2>5
<1>4. ASSUME NEW k \in Workers PROVE LinkInv(k)'
  <2>1. LinkInv(k) /\ k # 0
    BY DEF FlowInv, LinkInv
  <2>2. CASE k = 1
    <3>1. Reached(k)' = Reached(k) /\ (Rejecting(k)' <=> Rejecting(k))
      BY <1>1, <1>3, <2>1 DEF Reached, Rejecting, workVars
    <3>2. HandInv(k)'
      BY <1>1, <1>3, <2>1, <3>1 DEF LinkInv, HandInv, workVars, slotVars
    <3>3. SizesInv(k)'
      BY <1>1, <2>1, <3>1, SizesExcuse DEF LinkInv, SizesInv, slotVars
    <3>4. ChainInv(k)'
      <4>1. Reached(k) \in Nat /\ fed[0] \in Nat /\ batches[0] \in Seq(Batch)
        BY StageTypes
      <4>2. ret[k] => Follows(batches[0], Reached(k), fed[0]) /\ Reached(k) <= fed[0]
        BY <2>1, <2>2 DEF LinkInv, ChainInv
      <4>3. ret[k] => Follows(batches[0], Reached(k), fed'[0]) /\ Reached(k) <= fed'[0]
        BY <1>3, <4>1, <4>2, FollowsMore
      <4> QED BY <1>1, <1>2, <2>1, <2>2, <3>1, <4>3 DEF ChainInv, slotVars
    <3> QED BY <3>2, <3>3, <3>4 DEF LinkInv
  <2>3. CASE k # 1
    <3>1. k-1 # 0
      BY <2>3
    <3> QED BY <1>1, <1>2, <1>3, <2>1, <3>1, LinkFrame DEF slotVars, workVars
  <2> QED BY <2>2, <2>3
<1>5. StopsOnError'
  BY <1>1, <1>2 DEF FlowInv, StopsOnError, NotYetFailing
<1>6. SourceInv'
  BY <1>1, <1>2 DEF FlowInv, SourceInv, slotVars
<1>7. NothingGarbled'
  BY <1>1 DEF FlowInv, NothingGarbled
<1> QED BY <1>4, <1>5, <1>6, <1>7 DEF FlowInv, LinkInv

\* fail_pipeline, in whatever thread.
LEMMA FlowFail ==
  ASSUME TypeOK, FlowInv, NEW t \in Stages, FailSlot(t)
  PROVE  FlowInv'
<1> USE StageFacts
<1>1. PICK l \in {"failing", "close", "done"} :
        Goto(t, l) /\ (t = 0 => l # "done") /\ (t # 0 => l # "close")
  <2>1. pc[t] = "failing" /\ pc = [pc EXCEPT ![t] = pc[t]]
    BY DEF FailSlot, TypeOK, PcOK
  <2>2. CASE UNCHANGED pc
    BY <2>1, <2>2 DEF Goto
  <2>3. CASE Goto(t, IF t = 0 THEN "close" ELSE "done")
    BY <2>3
  <2> QED BY <2>2, <2>3 DEF FailSlot
<1>2. /\ pc[t] = "failing" /\ pc'[t] = l
      /\ UNCHANGED <<batches, batch, fed, ret, exact, input, expected_tokens,
                     emitted_tokens, active_input_tokens>>
  BY <1>1, GotoFacts DEF FailSlot, workVars, kvVars, callVars
<1>3. CASE t = 0
  <2>1. ~ret[0]
    BY <1>2, <1>3 DEF FlowInv, SourceInv
  <2>2. N > 1 /\ Suspect(1) => Suspect(1)'
    <3>1. N > 1 => 1 \in Stages
      BY DEF Stages
    <3>2. \A u \in Stages : u # 0 => pc'[u] = pc[u]
      BY <1>1, <1>3, GotoFacts
    <3> QED BY <1>2, <3>1, <3>2 DEF Suspect, Rejecting
  <2>3. SourceInv'
    BY <1>1, <1>2, <1>3, <2>1, <2>2 DEF FlowInv, SourceInv
  <2> QED BY <1>1, <1>2, <1>3, <2>1, <2>3, FlowCallerMove DEF NotYetFailing
<1>4. CASE t # 0
  <2>1. t \in Workers
    BY <1>4
  <2>2. Reached(t)' = Reached(t)
    BY <1>1, <1>2 DEF Reached
  <2>3. Rejecting(t) => Rejecting(t)'
    BY <1>1, <1>2, <1>4 DEF Rejecting
  <2>4. HandInv(t)'
    BY <1>1, <1>2 DEF HandInv
  <2>5. l \notin NotYetFailing
    BY DEF NotYetFailing
  <2> QED BY <1>1, <1>2, <2>1, <2>2, <2>3, <2>4, <2>5, FlowMove
<1> QED BY <1>3, <1>4

\* The caller's steps.
LEMMA FlowCaller ==
  ASSUME BucketsFit, TypeOK, FlowInv, WithinInput, CallerStep
  PROVE  FlowInv'
<1> USE StageFacts DEF NotYetFailing
<1> DEFINE Calm == /\ UNCHANGED <<batches, batch, fed, ret, exact, active_input_tokens,
                                  emitted_tokens, input>>
                   /\ \A u \in Stages : u # 0 => pc'[u] = pc[u]
<1>1. ASSUME Calm
      PROVE  (N > 1 /\ ret[0] => emitted_tokens[0] = fed[0] \/ Suspect(1)')
             /\ active_input_tokens'[0] = 0
  <2>1. N > 1 => 1 \in Stages
    BY DEF Stages
  <2>2. N > 1 /\ Suspect(1) => Suspect(1)'
    BY <1>1, <2>1 DEF Suspect, Rejecting
  <2> QED BY <1>1, <2>2 DEF FlowInv, SourceInv
<1>2. CASE Embed
  <2>1. pc[0] = "embed" /\ Goto(0, "bucket") /\ Calm /\ pc'[0] = "bucket" /\ ret[0]
    BY <1>2, GotoFacts DEF Embed, workVars, kvVars, callVars, FlowInv, StopsOnError
  <2>2. PICK total \in EmbeddedTotals : expected_tokens' = [expected_tokens EXCEPT ![0] = total]
    BY <1>2 DEF Embed
  <2>3. expected_tokens'[0] = total
    BY <2>2 DEF TypeOK, SlotsOK
  <2>4. fed[0] + NextRows <= total /\ total <= input
    <3>1. NextRows \in Nat /\ fed[0] \in Nat /\ input \in Nat /\ fed[0] + NextRows <= input
      BY <2>1, BucketFacts, StageTypes
    <3> QED BY <3>1 DEF EmbeddedTotals
  <2>5. SourceInv'
    <3>1. NextRows' = NextRows
      BY <2>1 DEF NextRows
    <3>2. fed[0] < input
      BY <2>1 DEF FlowInv, SourceInv
    <3>3. (N > 1 /\ ret[0] => emitted_tokens[0] = fed[0] \/ Suspect(1)')
          /\ active_input_tokens'[0] = 0
      BY <1>1, <2>1
    <3> QED BY <2>1, <2>3, <2>4, <3>1, <3>2, <3>3 DEF SourceInv
  <2> QED BY <2>1, <2>5, FlowCallerMove
<1>3. CASE Stage0Bucket
  BY <1>3, FlowBucket
<1>4. ASSUME NEW l, Goto(0, l), Calm, l \in {"close", "join", "idle"},
             pc[0] \in {"return", "close", "join"}
      PROVE  FlowInv'
  <2>1. pc'[0] = l
    BY <1>4, GotoFacts
  <2>2. (N > 1 /\ ret[0] => emitted_tokens[0] = fed[0] \/ Suspect(1)')
        /\ active_input_tokens'[0] = 0
    BY <1>1, <1>4
  <2>3. SourceInv'
    BY <1>4, <2>1, <2>2 DEF FlowInv, SourceInv
  <2> QED BY <1>4, <2>3, FlowCallerMove
<1>5. CASE Stage0Ok
  <2>1. Calm
    BY <1>5, GotoFacts DEF Stage0Ok, slotVars, workVars, kvVars, callVars
  <2> QED BY <1>4, <1>5, <2>1 DEF Stage0Ok
<1>6. CASE Stage0Error
  BY <1>6, FlowError
<1>7. CASE FailSlot(0)
  BY <1>7, FlowFail
<1>8. CASE CloseFirst
  <2>1. Calm
    BY <1>8, GotoFacts DEF CloseFirst, workVars, kvVars, callVars
  <2> QED BY <1>4, <1>8, <2>1 DEF CloseFirst
<1>9. CASE Join
  <2>1. Calm
    BY <1>9, GotoFacts DEF Join, slotVars, workVars, kvVars
  <2> QED BY <1>4, <1>9, <2>1 DEF Join
<1> QED BY <1>2, <1>3, <1>5, <1>6, <1>7, <1>8, <1>9 DEF CallerStep

\* The steps of a worker between its slot and its session run.
LEMMA FlowWorkerMove ==
  ASSUME TypeOK, FlowInv, NEW k \in Workers,
         \/ WaitBlock(k) \/ WaitEnd(k) \/ Drain(k) \/ Abort(k) \/ Finish(k)
         \/ Reject(k) \/ Prepare(k) \/ DecideSampling(k) \/ Ran(k)
  PROVE  FlowInv'
<1> USE StageFacts
<1> DEFINE Calm == /\ UNCHANGED <<batches, batch, fed, ret, exact, input>>
                   /\ UNCHANGED <<expected_tokens[0], emitted_tokens[0]>>
                   /\ \A u \in Stages : u # k => active_input_tokens'[u] = active_input_tokens[u]
<1>1. HandInv(k) /\ (pc[k] \in NotYetFailing \ {"ran"} => ret[k])
  BY DEF FlowInv, StopsOnError
<1>2. CASE WaitBlock(k)
  <2>1. Calm /\ pc' = pc /\ pc[k] = "wait" /\ active_input_tokens' = active_input_tokens
    BY <1>2 DEF WaitBlock, slotVars, workVars, kvVars, callVars
  <2>2. Goto(k, "wait")
    BY <2>1 DEF Goto, TypeOK, PcOK
  <2>3. HandInv(k)' /\ Reached(k)' = Reached(k) /\ (Rejecting(k) => Rejecting(k)')
    BY <1>1, <2>1 DEF HandInv, Reached, Rejecting
  <2> QED BY <1>1, <2>1, <2>2, <2>3, FlowMove DEF NotYetFailing
<1>3. CASE WaitEnd(k)
  <2>1. Calm /\ Goto(k, "ended") /\ pc[k] = "wait" /\ pc'[k] = "ended"
    BY <1>3, GotoFacts DEF WaitEnd, slotVars, workVars, kvVars, callVars
  <2>2. HandInv(k)' /\ Reached(k)' = Reached(k) /\ (Rejecting(k) => Rejecting(k)')
    BY <1>1, <2>1 DEF HandInv, Reached, Rejecting
  <2> QED BY <1>1, <2>1, <2>2, FlowMove DEF NotYetFailing
<1>4. CASE Drain(k)
  <2>1. Calm /\ Goto(k, "finish") /\ pc[k] = "ended" /\ pc'[k] = "finish"
    BY <1>4, GotoFacts DEF Drain, slotVars, workVars, kvVars, callVars
  <2>2. HandInv(k)' /\ Reached(k)' = Reached(k) /\ (Rejecting(k) => Rejecting(k)')
    BY <1>1, <2>1 DEF HandInv, Reached, Rejecting
  <2> QED BY <1>1, <2>1, <2>2, FlowMove DEF NotYetFailing
<1>5. CASE Abort(k) \/ Finish(k)
  <2>1. Calm /\ Goto(k, "done") /\ pc[k] \in {"ended", "finish"} /\ pc'[k] = "done"
    BY <1>5, GotoFacts DEF Abort, Finish, workVars, kvVars, callVars
  <2>2. HandInv(k)' /\ Reached(k)' = Reached(k) /\ (Rejecting(k) => Rejecting(k)')
    BY <1>1, <2>1 DEF HandInv, Reached, Rejecting
  <2> QED BY <1>1, <2>1, <2>2, FlowMove DEF NotYetFailing
<1>6. CASE Reject(k)
  <2>1. /\ Calm /\ Goto(k, "failing") /\ pc[k] = "check" /\ pc'[k] = "failing"
        /\ BadBatch(batch[k])
    BY <1>6, GotoFacts DEF Reject, slotVars, workVars, kvVars, callVars
  <2>2. HandInv(k)' /\ Reached(k)' = Reached(k) /\ (Rejecting(k) => Rejecting(k)')
    BY <1>1, <2>1 DEF HandInv, Reached, Rejecting
  <2> QED BY <2>1, <2>2, FlowMove DEF NotYetFailing
<1>7. CASE Prepare(k) \/ DecideSampling(k)
  <2>1. /\ Goto(k, "run") /\ pc[k] = "check" /\ pc'[k] = "run" /\ ~BadBatch(batch[k])
        /\ UNCHANGED <<batches, batch, fed, ret, exact, input, emitted_tokens>>
    BY <1>7, GotoFacts DEF Prepare, DecideSampling, slotVars, kvVars, callVars
  <2>2. /\ expected_tokens'[0] = expected_tokens[0]
        /\ \A u \in Stages : u # k => active_input_tokens'[u] = active_input_tokens[u]
        /\ k < Last => active_input_tokens'[k] = batch[k].n
    <3>1. CASE Prepare(k)
      BY <3>1 DEF Prepare, TypeOK, SlotsOK
    <3>2. CASE DecideSampling(k)
      BY <3>2 DEF DecideSampling, slotVars
    <3> QED BY <1>7, <3>1, <3>2
  <2>3. HandInv(k)' /\ Reached(k)' = Reached(k) /\ (Rejecting(k) => Rejecting(k)')
    BY <1>1, <2>1, <2>2 DEF HandInv, Reached, Rejecting
  <2> QED BY <1>1, <2>1, <2>2, <2>3, FlowMove DEF NotYetFailing
<1>8. CASE Ran(k)
  <2> DEFINE l == IF ret[k] THEN "wait" ELSE "failing"
  <2>1. /\ Goto(k, l) /\ pc[k] = "ran" /\ pc'[k] = l
        /\ UNCHANGED <<batches, batch, fed, ret, exact, input, expected_tokens, emitted_tokens>>
    BY <1>8, GotoFacts DEF Ran, workVars, kvVars, callVars
  <2>2. \A u \in Stages : u # k => active_input_tokens'[u] = active_input_tokens[u]
    BY <1>8 DEF Ran, TypeOK, SlotsOK
  <2>3. HandInv(k)' /\ Reached(k)' = Reached(k) /\ (Rejecting(k) => Rejecting(k)')
    BY <1>1, <2>1 DEF HandInv, Reached, Rejecting
  <2>4. l \in NotYetFailing \ {"ran"} => ret[k]
    BY DEF NotYetFailing
  <2> HIDE DEF l
  <2> QED BY <2>1, <2>2, <2>3, <2>4, FlowMove
<1> QED BY <1>2, <1>3, <1>4, <1>5, <1>6, <1>7, <1>8

\* A worker takes the oldest batch.
LEMMA FlowTake ==
  ASSUME TypeOK, FlowInv, NEW k \in Workers, WaitTake(k)
  PROVE  FlowInv'
<1> USE StageFacts
<1> DEFINE q == batches[k-1]
<1>1. /\ pc[k] = "wait" /\ pc'[k] = "check" /\ \A u \in Stages : u # k => pc'[u] = pc[u]
      /\ UNCHANGED <<fed, ret, exact, input, expected_tokens, emitted_tokens,
                     active_input_tokens>>
      /\ q # <<>>
  BY GotoFacts DEF WaitTake, kvVars, callVars
<1>2. /\ batch'[k] = Head(q) /\ \A u \in Workers : u # k => batch'[u] = batch[u]
      /\ batches'[k-1] = Tail(q) /\ \A s \in Stages : s # k-1 => batches'[s] = batches[s]
  BY DEF WaitTake, TypeOK, LocalsOK, SlotsOK
<1>3. LinkInv(k) /\ ret[k] /\ q \in Seq(Batch)
  BY <1>1, StageTypes DEF FlowInv, LinkInv, StopsOnError, NotYetFailing
<1>4. Reached(k) = fed[k] /\ ~Rejecting(k) /\ Reached(k) \in Nat /\ fed[k-1] \in Nat
  BY <1>1, <1>3, StageTypes DEF LinkInv, HandInv, Rejecting
<1>5. Reached(k)' = Head(q).hi /\ (Rejecting(k)' <=> BadBatch(Head(q)))
  BY <1>1, <1>2 DEF Reached, Rejecting
<1>6. (Sound(Head(q)) \/ BadBatch(Head(q))) /\ Sizes(Tail(q), BadBatch(Head(q)))
  <2>1. Sizes(q, FALSE)
    <3>1. Sizes(q, Rejecting(k))
      BY <1>3 DEF LinkInv, SizesInv
    <3>2. Rejecting(k) => FALSE
      BY <1>4
    <3> HIDE DEF q
    <3> QED BY <3>1, <3>2 DEF Sizes
  <2> HIDE DEF q
  <2> QED BY <1>1, <1>3, <2>1, SizesTail
<1>7. /\ Head(q).lo = Reached(k) + 1 /\ Head(q).hi <= fed[k-1]
      /\ Follows(Tail(q), Head(q).hi, fed[k-1])
      /\ EndOf(Tail(q), Head(q).hi) = EndOf(q, Reached(k))
  <2>1. Follows(q, Reached(k), fed[k-1])
    BY <1>3 DEF LinkInv, ChainInv
  <2> HIDE DEF q
  <2> QED BY <1>1, <1>3, <1>4, <2>1, FollowsTail
<1>8. LinkInv(k)'
  <2>1. HandInv(k)'
    BY <1>1, <1>2, <1>4, <1>6, <1>7 DEF HandInv
  <2>2. SizesInv(k)'
    BY <1>2, <1>5, <1>6, SizesExcuse DEF SizesInv
  <2>3. ChainInv(k)'
    <3>1. ret[k-1] => fed[k-1] = EndOf(q, Reached(k))
      BY <1>3 DEF LinkInv, ChainInv
    <3> QED BY <1>1, <1>2, <1>5, <1>7, <3>1 DEF ChainInv
  <2> QED BY <2>1, <2>2, <2>3 DEF LinkInv
<1>9. ASSUME NEW u \in Workers PROVE LinkInv(u)'
  <2>1. CASE u = k
    BY <1>8, <2>1
  <2>2. CASE u # k
    <3>1. u - 1 # k - 1
      BY <2>2
    <3>2. LinkInv(u)
      BY DEF FlowInv, LinkInv
    <3> QED BY <1>1, <1>2, <2>2, <3>1, <3>2, LinkFrame
  <2> QED BY <2>1, <2>2
<1>10. SourceInv'
  <2>1. N > 1 /\ Suspect(1) => Suspect(1)'
    <3>1. CASE k = 1
      <4> SUFFICES ASSUME NEW j \in 1 .. Len(q), BadBatch(q[j]), ~BadBatch(Head(q))
                   PROVE  Suspect(1)'
        BY <1>4, <1>5, <3>1 DEF Suspect
      <4>1. /\ Head(q) = q[1] /\ Len(q) \in Nat /\ Len(Tail(q)) = Len(q) - 1
            /\ \A i \in 1 .. Len(q) - 1 : Tail(q)[i] = q[i+1]
        BY <1>1, <1>3, TailFacts
      <4>2. j # 1
        BY <4>1
      <4>3. j - 1 \in 1 .. Len(Tail(q)) /\ Tail(q)[j-1] = q[j]
        BY <4>1, <4>2
      <4>4. BadBatch(Tail(q)[j-1])
        BY <4>3
      <4> QED BY <1>2, <3>1, <4>3, <4>4 DEF Suspect
    <3>2. CASE k # 1
      <4>1. N > 1 => 1 \in Workers
        BY DEF Workers
      <4>2. k - 1 # 1 - 1 /\ 1 - 1 = 0
        BY <3>2
      <4> QED BY <1>1, <1>2, <3>2, <4>1, <4>2 DEF Suspect, Rejecting
    <3> QED BY <3>1, <3>2
  <2> QED BY <1>1, <2>1, SourceFrame DEF FlowInv
<1>11. StopsOnError'
  BY <1>1, <1>3 DEF FlowInv, StopsOnError
<1>12. NothingGarbled'
  BY <1>1 DEF FlowInv, NothingGarbled
<1> QED BY <1>9, <1>10, <1>11, <1>12 DEF FlowInv, LinkInv

\* The batch that is run goes on exactly where the cache ends.
LEMMA RunFacts ==
  ASSUME TypeOK, FlowInv, NEW k \in Workers, pc[k] = "run"
  PROVE  /\ ret[k] /\ Fits(k) /\ Reached(k) = batch[k].hi
         /\ batch[k].n \in Nat /\ batch[k].n >= 1
         /\ fed[k] + batch[k].n = batch[k].hi /\ batch[k].hi <= fed[k-1]
<1>1. LinkInv(k) /\ ret[k]
  BY StageFacts DEF FlowInv, LinkInv, StopsOnError, NotYetFailing
<1>2. Sound(batch[k]) /\ batch[k].lo = fed[k] + 1
  BY <1>1 DEF LinkInv, HandInv
<1>3. Reached(k) = batch[k].hi
  BY DEF Reached
<1>4. batch[k].hi <= fed[k-1]
  BY <1>1, <1>3 DEF LinkInv, ChainInv
<1>5. batch[k].hi \in Nat /\ batch[k].n \in Nat /\ fed[k] \in Nat
  BY StageTypes, StageFacts
<1>6. fed[k] + batch[k].n = batch[k].hi /\ batch[k].n >= 1
  BY <1>2, <1>5 DEF Sound, BadBatch
<1> QED BY <1>1, <1>2, <1>3, <1>4, <1>5, <1>6 DEF Fits

\* What a session run of a worker's stage changes.
LEMMA RunEffect ==
  ASSUME TypeOK, FlowInv, NEW k \in Workers, Run(k) \/ RunError(k)
  PROVE  /\ pc[k] = "run" /\ pc'[k] = "ran" /\ \A u \in Stages : u # k => pc'[u] = pc[u]
         /\ \A u \in Stages : u # k => fed'[u] = fed[u] /\ ret'[u] = ret[u]
         /\ fed'[k] = batch[k].hi \/ (fed'[k] = fed[k] /\ ~ret'[k])
         /\ fed[k] <= fed'[k] /\ fed'[k] \in Nat
         /\ \A u \in Stages : exact'[u] = exact[u]
         /\ \A s \in Stages : s # k => /\ batches'[s] = batches[s]
                                       /\ emitted_tokens'[s] = emitted_tokens[s]
         /\ UNCHANGED <<batch, consumed_tokens, sampling, expected_tokens,
                        active_input_tokens, input, failed, producer_done, outcome>>
<1> USE StageFacts
<1>1. pc[k] = "run" /\ pc'[k] = "ran" /\ \A u \in Stages : u # k => pc'[u] = pc[u]
  BY GotoFacts DEF Run, RunError
<1>2. Fits(k) /\ fed[k] + batch[k].n = batch[k].hi /\ batch[k].n \in Nat
      /\ batch[k].hi \in Nat /\ fed[k] \in Nat
  BY <1>1, RunFacts, StageTypes
<1>3. /\ \A u \in Stages : u # k => fed'[u] = fed[u]
      /\ fed'[k] = batch[k].hi \/ (fed'[k] = fed[k] /\ ~ret'[k])
      /\ fed[k] <= fed'[k] /\ fed'[k] \in Nat
      /\ \A u \in Stages : exact'[u] = exact[u]
  <2>1. CASE Append_KV(k)
    <3>1. fed'[k] = batch[k].hi /\ \A u \in Stages : u # k => fed'[u] = fed[u]
      BY <1>2, <2>1 DEF Append_KV, TypeOK, CallOK
    <3>2. \A u \in Stages : exact'[u] = exact[u]
      <4>1. exact' = [exact EXCEPT ![k] = exact[k] /\ Fits(k)]
        BY <2>1 DEF Append_KV
      <4>2. (exact[k] /\ Fits(k)) = exact[k]
        <5>1. exact[k] \in BOOLEAN
          BY DEF TypeOK, CallOK
        <5> QED BY <1>2, <5>1
      <4> QED BY <4>1, <4>2 DEF TypeOK, CallOK
    <3>3. fed[k] <= fed'[k] /\ fed'[k] \in Nat
      <4> DEFINE a == fed[k]  b == batch[k].n  c == batch[k].hi
      <4>1. a + b = c /\ a \in Nat /\ b \in Nat /\ c \in Nat
        BY <1>2
      <4> HIDE DEF a, b, c
      <4>2. a <= c
        BY <4>1
      <4> QED BY <3>1, <4>1, <4>2 DEF a, c
    <3> QED BY <3>1, <3>2, <3>3
  <2>2. CASE ~Append_KV(k)
    <3>1. UNCHANGED <<fed, exact>> /\ ~ret'[k]
      BY <2>2 DEF Run, RunError, kvVars, TypeOK, LocalsOK
    <3> QED BY <1>2, <3>1
  <2> QED BY <2>1, <2>2
<1>4. \A u \in Stages : u # k => ret'[u] = ret[u]
  BY DEF Run, RunError, TypeOK, LocalsOK
<1>5. \A s \in Stages : s # k => batches'[s] = batches[s] /\ emitted_tokens'[s] = emitted_tokens[s]
  BY DEF Run, RunError, Output, slotVars, TypeOK, SlotsOK
<1>6. UNCHANGED <<batch, consumed_tokens, sampling, expected_tokens, active_input_tokens, input,
                  failed, producer_done, outcome>>
  BY DEF Run, RunError, slotVars, workVars, callVars
<1> QED BY <1>1, <1>3, <1>4, <1>5, <1>6

\* A session run of a worker's stage.
LEMMA FlowRun ==
  ASSUME TypeOK, FlowInv, NEW k \in Workers, Run(k) \/ RunError(k)
  PROVE  FlowInv'
<1> USE StageFacts
<1>1. /\ pc[k] = "run" /\ pc'[k] = "ran" /\ \A u \in Stages : u # k => pc'[u] = pc[u]
      /\ \A u \in Stages : u # k => fed'[u] = fed[u] /\ ret'[u] = ret[u]
      /\ fed'[k] = batch[k].hi \/ (fed'[k] = fed[k] /\ ~ret'[k])
      /\ fed[k] <= fed'[k] /\ fed'[k] \in Nat
      /\ \A u \in Stages : exact'[u] = exact[u]
      /\ \A s \in Stages : s # k => /\ batches'[s] = batches[s]
                                    /\ emitted_tokens'[s] = emitted_tokens[s]
      /\ UNCHANGED <<batch, expected_tokens, active_input_tokens, input>>
  BY RunEffect
<1>2. /\ ret[k] /\ Reached(k) = batch[k].hi /\ batch[k].n \in Nat /\ batch[k].n >= 1
      /\ fed[k] + batch[k].n = batch[k].hi
  BY <1>1, RunFacts
<1>3. \A u \in Workers : LinkInv(u)
  BY DEF FlowInv, LinkInv
<1>4. ~BadBatch(batch[k]) /\ batch[k].n <= RtBucket
  <2>1. Sound(batch[k])
    BY <1>1, <1>3 DEF LinkInv, HandInv
  <2> QED BY <1>2, <2>1, BucketAssumption DEF Sound, BadBatch
<1>5. LinkInv(k)'
  <2>1. HandInv(k)'
    BY <1>1, <1>4 DEF HandInv
  <2>2. SizesInv(k)'
    <3>1. batches'[k-1] = batches[k-1] /\ (Rejecting(k) => Rejecting(k)')
      BY <1>1, <1>4 DEF Rejecting
    <3>2. Sizes(batches[k-1], Rejecting(k)')
      BY <1>3, <3>1, SizesExcuse DEF LinkInv, SizesInv
    <3> QED BY <3>1, <3>2 DEF SizesInv
  <2>3. ChainInv(k)'
    <3> SUFFICES ASSUME ret'[k] PROVE ChainInv(k)'
      BY DEF ChainInv
    <3>1. Reached(k)' = Reached(k)
      BY <1>1, <1>2, <1>4 DEF Reached
    <3>2. batches'[k-1] = batches[k-1] /\ fed'[k-1] = fed[k-1] /\ ret'[k-1] = ret[k-1]
      BY <1>1
    <3> QED BY <1>2, <1>3, <3>1, <3>2 DEF LinkInv, ChainInv
  <2> QED BY <2>1, <2>2, <2>3 DEF LinkInv
<1>6. ASSUME NEW u \in Workers, u - 1 = k PROVE LinkInv(u)'
  <2>1. u # k /\ k < Last
    BY <1>6 DEF Workers, Last
  <2>2. UNCHANGED <<pc[u], ret[u], batch[u], fed[u], active_input_tokens[u]>>
    BY <1>1, <2>1
  <2>3. CASE Run(k)
    <3> DEFINE n == CountTokens(k, TRUE)
               m == batch[k].n
               b == [lo |-> fed[k] + 1, hi |-> fed[k] + m, n |-> n]
    <3>1. active_input_tokens[k] = m
      BY <1>1, <1>3, <2>1 DEF LinkInv, HandInv
    <3>2. n = m
      BY <1>2, <3>1 DEF CountTokens
    <3>3. batches'[k] = Append(batches[k], b)
      BY <2>1, <2>3 DEF Run, Output, TypeOK, SlotsOK
    <3>4. fed'[k] = fed[k] + m
      BY <1>2, <2>3 DEF Run, Append_KV, TypeOK, CallOK
    <3>5. Sound(b)
      <4>1. b.lo = fed[k] + 1 /\ b.hi = fed[k] + m /\ b.n = m
        BY <3>2
      <4>2. fed[k] \in Nat
        BY StageTypes
      <4> HIDE DEF b, n, m
      <4>3. b.hi + 1 = b.lo + b.n
        BY <1>2, <4>1, <4>2 DEF m
      <4>4. ~BadBatch(b)
        BY <1>4, <4>1 DEF BadBatch, m
      <4> QED BY <4>3, <4>4 DEF Sound
    <3> HIDE DEF n, m
    <3>6. m \in Nat /\ n \in Nat
      BY <1>2, <3>2 DEF m
    <3> QED BY <1>2, <1>3, <1>6, <2>2, <3>3, <3>4, <3>5, <3>6, LinkOutput
  <2>4. CASE RunError(k)
    <3>1. Reached(u)' = Reached(u) /\ (Rejecting(u)' <=> Rejecting(u)) /\ batches'[k] = batches[k]
          /\ ~ret'[k]
      BY <2>2, <2>4 DEF RunError, slotVars, Reached, Rejecting, TypeOK, LocalsOK
    <3>2. HandInv(u)'
      BY <1>3, <2>2, <3>1 DEF LinkInv, HandInv
    <3>3. SizesInv(u)'
      BY <1>3, <1>6, <3>1, SizesExcuse DEF LinkInv, SizesInv
    <3>4. ChainInv(u)'
      <4>1. Reached(u) \in Nat /\ fed[k] \in Nat /\ batches[k] \in Seq(Batch)
        BY StageTypes
      <4>2. ret[u] => Follows(batches[k], Reached(u), fed[k]) /\ Reached(u) <= fed[k]
        BY <1>3, <1>6 DEF LinkInv, ChainInv
      <4>3. ret[u] => Follows(batches[k], Reached(u), fed'[k]) /\ Reached(u) <= fed'[k]
        BY <1>1, <4>1, <4>2, FollowsMore
      <4> QED BY <1>6, <2>2, <3>1, <4>3 DEF ChainInv
    <3> QED BY <3>2, <3>3, <3>4 DEF LinkInv
  <2> QED BY <2>3, <2>4
<1>7. ASSUME NEW u \in Workers PROVE LinkInv(u)'
  <2>1. CASE u # k /\ u - 1 # k
    BY <1>1, <1>3, <2>1, LinkFrame
  <2> QED BY <1>5, <1>6, <1>7, <2>1
<1>8. SourceInv'
  <2>1. N > 1 /\ Suspect(1) => Suspect(1)'
    <3>1. N > 1 => 1 \in Workers
      BY DEF Workers
    <3>2. batches'[0] = batches[0] /\ 1-1 = 0
      BY <1>1
    <3>3. N > 1 => (Rejecting(1) => Rejecting(1)')
      BY <1>1, <1>4, <3>1 DEF Rejecting
    <3> QED BY <3>2, <3>3 DEF Suspect
  <2> QED BY <1>1, <2>1, SourceFrame DEF FlowInv
<1>9. StopsOnError'
  BY <1>1 DEF FlowInv, StopsOnError
<1>10. NothingGarbled'
  BY <1>1 DEF FlowInv, NothingGarbled
<1> QED BY <1>7, <1>8, <1>9, <1>10 DEF FlowInv, LinkInv

\* The rows keep flowing.
LEMMA FlowStep ==
  ASSUME BucketsFit, TypeOK, FlowInv, WithinInput, [Next]_vars
  PROVE  FlowInv'
<1>1. ASSUME NEW n \in Lens, Start(n) PROVE FlowInv'
  BY <1>1, FlowStart
<1>2. CASE CallerStep
  BY <1>2, FlowCaller
<1>3. ASSUME NEW k \in Workers, WorkerStep(k) PROVE FlowInv'
  <2>1. CASE WaitTake(k)
    BY <2>1, FlowTake
  <2>2. CASE Run(k) \/ RunError(k)
    BY <2>2, FlowRun
  <2>3. CASE FailSlot(k)
    BY <2>3, FlowFail, StageFacts
  <2>4. CASE \/ WaitBlock(k) \/ WaitEnd(k) \/ Drain(k) \/ Abort(k) \/ Finish(k)
             \/ Reject(k) \/ Prepare(k) \/ DecideSampling(k) \/ Ran(k)
    BY <2>4, FlowWorkerMove
  <2> QED BY <1>3, <2>1, <2>2, <2>3, <2>4 DEF WorkerStep
<1>4. CASE UNCHANGED vars
  <2>1. ASSUME NEW k \in Workers PROVE LinkInv(k)'
    <3>1. LinkInv(k)
      BY DEF FlowInv, LinkInv
    <3> QED BY <1>4, <3>1, LinkFrame DEF vars, slotVars, workVars, kvVars
  <2>2. N > 1 /\ Suspect(1) => Suspect(1)'
    BY <1>4 DEF Suspect, Rejecting, vars, slotVars, workVars
  <2>3. SourceInv'
    BY <1>4, <2>2, SourceFrame DEF FlowInv, vars, slotVars, kvVars, callVars
  <2>4. StopsOnError' /\ NothingGarbled'
    BY <1>4 DEF FlowInv, StopsOnError, NothingGarbled, vars, kvVars
  <2> QED BY <2>1, <2>3, <2>4 DEF FlowInv, LinkInv
<1> QED BY <1>1, <1>2, <1>3, <1>4 DEF Next, Terminated

\* It flows initially: nothing does.
LEMMA FlowInit == Init => FlowInv
<1> SUFFICES ASSUME Init PROVE FlowInv
  OBVIOUS
<1> USE StageFacts
<1>1. /\ \A s \in Stages : /\ batches[s] = <<>> /\ fed[s] = 0 /\ ret[s] /\ exact[s]
                           /\ emitted_tokens[s] = 0 /\ active_input_tokens[s] = 0
      /\ \A k \in Workers : pc[k] = "done" /\ batch[k] = NoBatch
      /\ pc[0] = "idle" /\ input = 0
  BY DEF Init
<1>2. ASSUME NEW k \in Workers PROVE HandInv(k) /\ SizesInv(k) /\ ChainInv(k)
  <2>1. Reached(k) = 0
    BY <1>1 DEF Reached, NoBatch
  <2>2. HandInv(k)
    BY <1>1 DEF HandInv
  <2>3. batches[k-1] = <<>> /\ fed[k-1] = 0
    BY <1>1
  <2>4. SizesInv(k)
    BY <2>3 DEF SizesInv, Sizes
  <2>5. ChainInv(k)
    BY <2>1, <2>3 DEF ChainInv, Follows, EndOf
  <2> QED BY <2>2, <2>4, <2>5
<1>3. StopsOnError /\ SourceInv /\ NothingGarbled
  BY <1>1 DEF StopsOnError, SourceInv, NothingGarbled
<1> QED BY <1>2, <1>3 DEF FlowInv

\* The queues and the caches are as InFlightInOrder has it, while the stages run.
LEMMA FlowOrder ==
  ASSUME TypeOK, FlowInv
  PROVE  InFlightInOrder
<1> SUFFICES ASSUME NEW k \in Workers, ret[k-1], ret[k]
             PROVE  LET q == batches[k-1] IN
                    /\ pc[k] \in {"check", "run"} => batch[k].lo = fed[k] + 1
                    /\ \A i \in 1 .. Len(q) :
                         q[i].lo = (IF i = 1 THEN Reached(k) ELSE q[i-1].hi) + 1
                    /\ fed[k-1] = IF q = <<>> THEN Reached(k) ELSE q[Len(q)].hi
  BY DEF InFlightInOrder
<1>1. HandInv(k) /\ ChainInv(k)
  BY DEF FlowInv
<1>2. pc[k] \in {"check", "run"} => batch[k].lo = fed[k] + 1
  BY <1>1 DEF HandInv
<1>3. \A i \in 1 .. Len(batches[k-1]) :
        batches[k-1][i].lo = (IF i = 1 THEN Reached(k) ELSE batches[k-1][i-1].hi) + 1
  BY <1>1 DEF ChainInv, Follows
<1>4. fed[k-1] = IF batches[k-1] = <<>> THEN Reached(k) ELSE batches[k-1][Len(batches[k-1])].hi
  BY <1>1 DEF ChainInv, EndOf
<1> QED BY <1>2, <1>3, <1>4

\* What stage k-1 computed is in stage k's cache, in the hand of worker k or in the slot
\* between them, each position once and in order: stage_output_callback and
\* run_stage_worker share the slot without losing, repeating or reordering a batch.
THEOREM RowsKeepTheirOrder ==
  ASSUME BucketsFit
  PROVE  Spec => []InFlightInOrder
<1>1. TypeOK /\ WithinInput /\ FlowInv /\ [Next]_vars => FlowInv'
  BY FlowStep
<1>2. TypeOK /\ FlowInv => InFlightInOrder
  BY FlowOrder
<1> QED BY <1>1, <1>2, FlowInit, Typing, PTL DEF Spec

\* No stage caches a row that is not the row of its position: each count that
\* stage_output_callback guesses is the size of the tensor, or run_stage_worker rejects
\* the batch before it reaches a card.
THEOREM NoRowIsGarbled ==
  ASSUME BucketsFit
  PROVE  Spec => []NothingGarbled
<1>1. TypeOK /\ WithinInput /\ FlowInv /\ [Next]_vars => FlowInv'
  BY FlowStep
<1>2. FlowInv => NothingGarbled
  BY DEF FlowInv
<1> QED BY <1>1, <1>2, FlowInit, Typing, PTL DEF Spec

-----------------------------------------------------------------------------

\* A step of a thread that is at work.
LEMMA DoneMove ==
  ASSUME TypeOK, FailInv, DoneInv, NEW t \in Stages, NEW l, Goto(t, l),
         pc[t] \notin {"idle", "join", "done"}, l # "idle", UNCHANGED <<outcome, input>>,
         batches'[Last] = batches[Last],
         \A s \in Stages : failed[s] => failed'[s],
         \A s \in Stages : s # t => producer_done'[s] = producer_done[s],
         producer_done'[t] => producer_done[t] \/ l \in {"join", "done"},
         \A u \in Stages : u # t => fed'[u] = fed[u],
         \A s \in Stages : s # t /\ s # t-1 => batches'[s] = batches[s],
         t \in Workers => DrainInv(t)'
  PROVE  DoneInv'
<1> USE StageFacts
<1>1. pc'[t] = l /\ \A u \in Stages : u # t => pc'[u] = pc[u]
  BY GotoFacts
<1>2. batches'[Last] = <<>>
  BY DEF DoneInv
<1>3. ~producer_done[t] /\ ~Over(t)
  BY DEF DoneInv, Over
<1>4. ASSUME NEW s \in Stages, producer_done'[s] PROVE Over(s)'
  BY <1>1, <1>3, <1>4 DEF DoneInv, Over
<1>5. NoneFailed' => NoneFailed
  BY DEF NoneFailed
<1>6. ASSUME NEW k \in Workers PROVE DrainInv(k)'
  <2>1. CASE k = t
    BY <2>1
  <2>2. CASE k # t /\ k-1 = t
    <3>1. pc'[k] = pc[k] /\ DrainInv(k)
      BY <1>1, <2>2 DEF DoneInv
    <3>2. pc[k] = "ended" => failed[k-1]
      BY <1>3, <2>2, <3>1 DEF DrainInv
    <3>3. pc[k] # "finish" /\ ~(pc[k] = "done" /\ NoneFailed)
      BY <1>3, <2>2, <3>1 DEF DrainInv
    <3> QED BY <1>5, <3>1, <3>2, <3>3 DEF DrainInv
  <2>3. CASE k # t /\ k-1 # t
    <3>1. pc'[k] = pc[k] /\ DrainInv(k) /\ fed'[k] = fed[k] /\ k-1 # t-1
      BY <1>1, <2>3 DEF DoneInv
    <3>2. batches'[k-1] = batches[k-1] /\ producer_done'[k-1] = producer_done[k-1]
          /\ (failed[k-1] => failed'[k-1]) /\ pc'[k-1] = pc[k-1]
      BY <1>1, <2>3, <3>1
    <3> QED BY <1>5, <3>1, <3>2 DEF DrainInv, Over
  <2> QED BY <2>1, <2>2, <2>3
<1>7. outcome # "ok"
  BY DEF FailInv, OkIsFinal
<1>8. SuccessIsComplete'
  BY <1>7 DEF SuccessIsComplete
<1>9. CallInv'
  <2>1. CASE t = 0
    BY <1>1, <2>1 DEF DoneInv, CallInv
  <2>2. CASE t # 0
    <3>1. t \in Workers /\ pc[0] # "idle"
      BY <2>2 DEF DoneInv, CallInv
    <3> QED BY <1>1, <2>2, <3>1 DEF DoneInv, CallInv
  <2> QED BY <2>1, <2>2
<1> QED BY <1>2, <1>4, <1>6, <1>8, <1>9 DEF DoneInv

\* A new call.
LEMMA DoneStart == ASSUME NEW n \in Lens, Start(n) PROVE DoneInv'
<1>1. /\ \A s \in Stages : batches'[s] = <<>> /\ ~producer_done'[s]
      /\ \A k \in Workers : pc'[k] = "wait"
      /\ outcome' = "none" /\ pc'[0] = "embed" /\ input' > 0
  BY StageFacts, LensAssumption DEF Start
<1>2. \A k \in Workers : DrainInv(k)'
  BY <1>1 DEF DrainInv
<1> QED BY <1>1, <1>2, StageFacts DEF DoneInv, CallInv, SuccessIsComplete

\* fail_pipeline, in whatever thread.
LEMMA DoneFail ==
  ASSUME TypeOK, FailInv, DoneInv, NEW t \in Stages, FailSlot(t)
  PROVE  DoneInv'
<1> USE StageFacts
<1> DEFINE s == failing[t]
<1>1. /\ pc[t] = "failing" /\ s \in Stages
      /\ failed' = [failed EXCEPT ![s] = TRUE]
      /\ UNCHANGED <<batches, producer_done, fed, outcome, input>>
  BY DEF FailSlot, kvVars, callVars
<1>2. failed'[s] /\ \A u \in Stages : failed[u] => failed'[u]
  BY <1>1 DEF TypeOK, SlotsOK
<1>3. PICK l : Goto(t, l) /\ (l = "failing" \/ ~NoneFailed')
  <2>1. pc = [pc EXCEPT ![t] = pc[t]]
    BY DEF TypeOK, PcOK
  <2>2. CASE UNCHANGED pc
    BY <1>1, <2>1, <2>2 DEF Goto
  <2>3. CASE Goto(t, IF t = 0 THEN "close" ELSE "done")
    BY <1>1, <1>2, <2>3 DEF NoneFailed
  <2> QED BY <2>2, <2>3 DEF FailSlot
<1>4. pc'[t] = l
  BY <1>3, GotoFacts
<1>5. l \in {"failing", "close", "done"}
  BY <1>1, <1>4, GotoFacts DEF FailSlot
<1>6. t \in Workers => DrainInv(t)'
  BY <1>3, <1>4, <1>5 DEF DrainInv
<1> QED BY <1>1, <1>2, <1>3, <1>5, <1>6, DoneMove

\* The caller's steps.
LEMMA DoneCaller ==
  ASSUME TypeOK, FailInv, FlowInv, DoneInv, CallerStep
  PROVE  DoneInv'
<1> USE StageFacts
<1>1. 0 \notin Workers
  BY DEF Workers
<1>2. CASE Embed
  BY <1>1, <1>2, DoneMove DEF Embed, kvVars, callVars
<1>3. CASE Stage0Bucket
  <2> DEFINE l == IF fed[0] + NextRows = input THEN "return"
                  ELSE IF expected_tokens[0] >= Least(fed'[0] + RtBucket, input)
                  THEN "bucket" ELSE "embed"
  <2>1. Goto(0, l) /\ pc[0] = "bucket" /\ UNCHANGED <<producer_done, failed, outcome, input>>
    BY <1>3 DEF Stage0Bucket, callVars
  <2>2. \A s \in Stages : s # 0 => batches'[s] = batches[s] /\ fed'[s] = fed[s]
    BY <1>3 DEF Stage0Bucket, Output, TypeOK, SlotsOK, CallOK
  <2>3. batches'[Last] = batches[Last]
    <3>1. CASE N > 1
      <4>1. Last # 0
        BY <3>1 DEF Last
      <4> QED BY <2>2, <4>1
    <3>2. CASE ~(N > 1)
      BY <1>3, <3>2 DEF Stage0Bucket
    <3> QED BY <3>1, <3>2
  <2>4. l # "idle"
    OBVIOUS
  <2> HIDE DEF l
  <2> QED BY <1>1, <2>1, <2>2, <2>3, <2>4, DoneMove
<1>4. CASE Stage0Ok
  BY <1>1, <1>4, DoneMove DEF Stage0Ok, slotVars, kvVars, callVars
<1>5. CASE Stage0Error
  <2>1. \A s \in Stages : s # 0 => fed'[s] = fed[s]
    BY <1>5 DEF Stage0Error, TypeOK, CallOK
  <2> QED BY <1>1, <1>5, <2>1, DoneMove DEF Stage0Error, slotVars, callVars
<1>6. CASE FailSlot(0)
  BY <1>6, DoneFail
<1>7. CASE CloseFirst
  <2>1. \A s \in Stages : s # 0 => producer_done'[s] = producer_done[s]
    BY <1>7 DEF CloseFirst, CloseSlot, TypeOK, SlotsOK
  <2> QED BY <1>1, <1>7, <2>1, DoneMove DEF CloseFirst, kvVars, callVars
<1>8. CASE Join
  <2>1. /\ pc[0] = "join" /\ pc'[0] = "idle" /\ \A u \in Stages : u # 0 => pc'[u] = pc[u]
        /\ \A k \in Workers : pc[k] = "done"
        /\ UNCHANGED <<batches, producer_done, failed, fed, ret, input>>
    BY <1>8, GotoFacts DEF Join, slotVars, kvVars
  <2>2. \A s \in Stages : Over(s) => Over(s)'
    BY <2>1 DEF Over
  <2>3. \A k \in Workers : DrainInv(k)'
    BY <2>1, <2>2 DEF DoneInv, DrainInv, NoneFailed
  <2>4. SuccessIsComplete'
    <3> SUFFICES ASSUME outcome' = "ok"
                 PROVE  \A s \in Stages : fed[s] = input /\ batches[s] = <<>>
      BY <2>1 DEF SuccessIsComplete
    <3>1. ret[0] /\ NoneFailed
      BY <1>8 DEF Join, NoneFailed
    <3>2. fed[0] = input
      BY <2>1, <3>1 DEF FlowInv, SourceInv
    <3>3. \A k \in Workers : fed[k] = input /\ batches[k-1] = <<>>
      BY <2>1, <3>1 DEF DoneInv, DrainInv
    <3>4. ASSUME NEW s \in Stages PROVE fed[s] = input /\ batches[s] = <<>>
      <4>1. fed[s] = input
        BY <3>2, <3>3
      <4>2. CASE s = Last
        BY <4>1, <4>2 DEF DoneInv
      <4>3. CASE s # Last
        <5>1. s + 1 \in Workers /\ (s + 1) - 1 = s
          BY <4>3 DEF Stages, Workers, Last
        <5>2. batches[(s + 1) - 1] = <<>>
          BY <3>3, <5>1
        <5> QED BY <4>1, <5>1, <5>2
      <4> QED BY <4>2, <4>3
    <3> QED BY <3>4
  <2> QED BY <2>1, <2>2, <2>3, <2>4 DEF DoneInv, CallInv
<1> QED BY <1>2, <1>3, <1>4, <1>5, <1>6, <1>7, <1>8 DEF CallerStep

\* A worker that leaves the loop because its input has ended has cached all of it.
LEMMA FinishFacts ==
  ASSUME TypeOK, FailInv, FlowInv, DoneInv, NEW k \in Workers, pc[k] = "finish", NoneFailed
  PROVE  Over(k-1) /\ fed[k] = input /\ batches[k-1] = <<>>
<1> USE StageFacts
<1>1. producer_done[k-1] /\ batches[k-1] = <<>>
  BY DEF DoneInv, DrainInv
<1>2. Over(k-1)
  BY <1>1 DEF DoneInv
<1>3. ret[k] /\ ret[k-1]
  <2>1. ~AllFailed
    BY DEF AllFailed, NoneFailed
  <2> QED BY <1>2, <2>1 DEF FailInv, ErrorPropagates, Over
<1>4. fed[k-1] = fed[k]
  <2>1. Reached(k) = fed[k]
    BY DEF FlowInv, HandInv
  <2>2. fed[k-1] = Reached(k)
    BY <1>1, <1>3 DEF FlowInv, ChainInv, EndOf
  <2> QED BY <2>1, <2>2
<1>5. fed[k-1] = input
  <2>1. CASE k-1 = 0
    <3>1. pc[0] \in CallerStates
      BY DEF TypeOK, PcOK
    <3>2. pc[0] \in {"join", "idle"}
      BY <1>2, <2>1, <3>1 DEF Over, CallerStates
    <3> QED BY <1>3, <2>1, <3>2 DEF FlowInv, SourceInv
  <2>2. CASE k-1 # 0
    <3>1. k-1 \in Workers /\ pc[k-1] \in WorkerStates
      BY <2>2 DEF TypeOK, PcOK
    <3>2. pc[k-1] = "done"
      BY <1>2, <3>1 DEF Over, WorkerStates
    <3> QED BY <3>1, <3>2 DEF DoneInv, DrainInv
  <2> QED BY <2>1, <2>2
<1> QED BY <1>1, <1>2, <1>4, <1>5

\* A worker's steps.
LEMMA DoneWorker ==
  ASSUME TypeOK, FailInv, FlowInv, DoneInv, NEW k \in Workers, WorkerStep(k)
  PROVE  DoneInv'
<1> USE StageFacts
<1>1. k-1 # Last /\ k-1 # k
  BY DEF Workers, Last
<1>2. CASE WaitBlock(k)
  <2>1. Goto(k, "wait") /\ pc[k] = "wait"
    BY <1>2 DEF WaitBlock, Goto, TypeOK, PcOK
  <2>2. DrainInv(k)'
    BY <2>1, GotoFacts DEF DrainInv
  <2> QED BY <1>2, <2>1, <2>2, DoneMove DEF WaitBlock, slotVars, kvVars, callVars
<1>3. CASE WaitTake(k)
  <2>1. Goto(k, "check") /\ pc[k] = "wait"
    BY <1>3 DEF WaitTake
  <2>2. DrainInv(k)'
    BY <2>1, GotoFacts DEF DrainInv
  <2>3. \A s \in Stages : s # k-1 => batches'[s] = batches[s]
    BY <1>3 DEF WaitTake, TypeOK, SlotsOK
  <2> QED BY <1>1, <1>3, <2>1, <2>2, <2>3, DoneMove DEF WaitTake, kvVars, callVars
<1>4. CASE WaitEnd(k)
  <2>1. Goto(k, "ended") /\ pc[k] = "wait" /\ pc'[k] = "ended"
        /\ UNCHANGED <<batches, producer_done, failed>>
    BY <1>4, GotoFacts DEF WaitEnd, slotVars
  <2>2. ~failed[k-1] => producer_done[k-1] /\ batches[k-1] = <<>>
    BY <1>4 DEF WaitEnd, Ready
  <2>3. DrainInv(k)'
    BY <2>1, <2>2 DEF DrainInv
  <2> QED BY <1>4, <2>1, <2>3, DoneMove DEF WaitEnd, slotVars, kvVars, callVars
<1>5. CASE Drain(k)
  <2>1. Goto(k, "finish") /\ pc[k] = "ended" /\ pc'[k] = "finish"
        /\ UNCHANGED <<batches, producer_done>>
    BY <1>5, GotoFacts DEF Drain, slotVars
  <2>2. DrainInv(k)'
    BY <1>5, <2>1 DEF DrainInv, Drain, Drained
  <2> QED BY <1>5, <2>1, <2>2, DoneMove DEF Drain, slotVars, kvVars, callVars
<1>6. CASE Abort(k) \/ Finish(k)
  <2>1. /\ Goto(k, "done") /\ pc[k] \in {"ended", "finish"} /\ pc'[k] = "done"
        /\ UNCHANGED <<batches, failed, fed, outcome, input>>
    BY <1>6, GotoFacts DEF Abort, Finish, kvVars, callVars
  <2>2. \A s \in Stages : s # k => producer_done'[s] = producer_done[s]
    BY <1>6 DEF Abort, Finish, CloseOutput, CloseSlot, TypeOK, SlotsOK
  <2>3. NoneFailed => Over(k-1) /\ fed[k] = input /\ batches[k-1] = <<>>
    <3>1. CASE Abort(k)
      <4>1. failed[k-1]
        BY <3>1 DEF Abort, Drained, DoneInv, DrainInv
      <4> QED BY <4>1 DEF NoneFailed
    <3>2. CASE Finish(k)
      BY <3>2, FinishFacts DEF Finish
    <3> QED BY <1>6, <3>1, <3>2
  <2>4. DrainInv(k)'
    <3>1. pc'[k-1] = pc[k-1]
      BY <1>1, <2>1, GotoFacts
    <3>2. NoneFailed' => NoneFailed
      BY <2>1 DEF NoneFailed
    <3> QED BY <2>1, <2>3, <3>1, <3>2 DEF DrainInv, Over
  <2> QED BY <2>1, <2>2, <2>4, DoneMove
<1>7. CASE Reject(k) \/ Prepare(k) \/ DecideSampling(k)
  <2>1. PICK l \in {"failing", "run"} : Goto(k, l)
    BY <1>7 DEF Reject, Prepare, DecideSampling
  <2>2. pc[k] = "check" /\ UNCHANGED <<batches, producer_done, failed, fed, outcome, input>>
    BY <1>7 DEF Reject, Prepare, DecideSampling, slotVars, kvVars, callVars
  <2>3. DrainInv(k)'
    BY <2>1, GotoFacts DEF DrainInv
  <2> QED BY <2>1, <2>2, <2>3, DoneMove
<1>8. CASE Run(k) \/ RunError(k)
  <2>1. Goto(k, "ran") /\ pc[k] = "run"
    BY <1>8 DEF Run, RunError
  <2>2. DrainInv(k)'
    BY <2>1, GotoFacts DEF DrainInv
  <2>3. /\ \A s \in Stages : s # k => batches'[s] = batches[s] /\ fed'[s] = fed[s]
        /\ UNCHANGED <<producer_done, failed, outcome, input>>
    BY <1>8, RunEffect
  <2>4. batches'[Last] = batches[Last]
    <3>1. CASE k = Last
      <4>1. ~(k < Last)
        BY <3>1
      <4>2. batches' = batches
        BY <1>8, <4>1 DEF Run, RunError, slotVars
      <4> QED BY <4>2
    <3>2. CASE k # Last
      BY <2>3, <3>2
    <3> QED BY <3>1, <3>2
  <2> QED BY <2>1, <2>2, <2>3, <2>4, DoneMove
<1>9. CASE Ran(k)
  <2>1. PICK l \in {"wait", "failing"} : Goto(k, l)
    BY <1>9 DEF Ran
  <2>2. pc[k] = "ran" /\ UNCHANGED <<batches, producer_done, failed, fed, outcome, input>>
    BY <1>9 DEF Ran, kvVars, callVars
  <2>3. DrainInv(k)'
    BY <2>1, GotoFacts DEF DrainInv
  <2> QED BY <2>1, <2>2, <2>3, DoneMove
<1>10. CASE FailSlot(k)
  BY <1>10, DoneFail
<1> QED BY <1>2, <1>3, <1>4, <1>5, <1>6, <1>7, <1>8, <1>9, <1>10 DEF WorkerStep

\* The ends stay known.
LEMMA DoneStep ==
  ASSUME TypeOK, FailInv, FlowInv, DoneInv, [Next]_vars
  PROVE  DoneInv'
<1>1. ASSUME NEW n \in Lens, Start(n) PROVE DoneInv'
  BY <1>1, DoneStart
<1>2. CASE CallerStep
  BY <1>2, DoneCaller
<1>3. ASSUME NEW k \in Workers, WorkerStep(k) PROVE DoneInv'
  BY <1>3, DoneWorker
<1>4. CASE UNCHANGED vars
  BY <1>4 DEF vars, slotVars, kvVars, callVars, DoneInv, CallInv, DrainInv, Over, NoneFailed,
              SuccessIsComplete
<1> QED BY <1>1, <1>2, <1>3, <1>4 DEF Next, Terminated

LEMMA DoneInit == Init => DoneInv
<1> SUFFICES ASSUME Init PROVE DoneInv
  OBVIOUS
<1>1. /\ \A s \in Stages : batches[s] = <<>> /\ ~producer_done[s] /\ fed[s] = 0
      /\ \A k \in Workers : pc[k] = "done"
      /\ pc[0] = "idle" /\ outcome = "none" /\ input = 0
  BY StageFacts DEF Init
<1>2. \A k \in Workers : DrainInv(k)
  BY <1>1, StageFacts DEF DrainInv, Over
<1> QED BY <1>1, <1>2, StageFacts DEF DoneInv, CallInv, SuccessIsComplete

\* run_pipeline_once returns true only if every stage cached the whole input and no batch
\* is left in a slot: a worker that finds its slot closed and empty has met everything
\* the stage in front computed.
THEOREM SuccessIsAll ==
  ASSUME BucketsFit
  PROVE  Spec => []SuccessIsComplete
<1>1. TypeOK /\ WithinInput /\ FlowInv /\ [Next]_vars => FlowInv'
  BY FlowStep
<1>2. TypeOK /\ FailInv /\ [Next]_vars => FailInv'
  BY FailStep
<1>3. TypeOK /\ FailInv /\ FlowInv /\ DoneInv /\ [Next]_vars => DoneInv'
  BY DoneStep
<1>4. DoneInv => SuccessIsComplete
  BY DEF DoneInv
<1> QED BY <1>1, <1>2, <1>3, <1>4, FlowInit, FailInit, DoneInit, Typing, PTL DEF Spec

-----------------------------------------------------------------------------
(***************************************************************************)
(* Blocking: the safety half of CallReturns.                               *)
(***************************************************************************)

\* A notification of slot s, whatever became of the slot.
LEMMA NotifyFacts ==
  ASSUME TypeOK, NEW s \in Stages, Notify(s)
  PROVE  \A k \in Workers : asleep'[k] => asleep[k] /\ k-1 # s
BY StageFacts DEF Notify

\* A step of a thread that is not blocked, by which nobody falls asleep and in whose
\* slots only those it notifies find a change.
LEMMA AwakeMove ==
  ASSUME TypeOK, AwakeInv, NEW t \in Stages, NEW l, Goto(t, l),
         pc[t] # "idle", pc[t] = "wait" => t \in Workers /\ ~asleep[t],
         \A k \in Workers : asleep'[k] =>
           /\ asleep[k]
           /\ k # t => /\ batches'[k-1] = batches[k-1]
                       /\ producer_done'[k-1] = producer_done[k-1]
                       /\ failed'[k-1] = failed[k-1],
         \A s \in Stages : (producer_done[s] => producer_done'[s]) /\ (failed[s] => failed'[s]),
         l \in {"join", "done"} /\ t # Last => producer_done'[t] \/ failed'[t]
  PROVE  AwakeInv'
<1>1. pc'[t] = l /\ \A u \in Stages : u # t => pc'[u] = pc[u]
  BY GotoFacts
<1>2. ASSUME NEW k \in Workers, asleep'[k] PROVE pc'[k] = "wait" /\ ~Ready(k-1)'
  <2>1. asleep[k] /\ pc[k] = "wait" /\ ~Ready(k-1)
    BY <1>2 DEF AwakeInv
  <2>2. k # t
    BY <2>1
  <2> QED BY <1>1, <1>2, <2>1, <2>2, StageFacts DEF Ready
<1>3. ASSUME NEW s \in Stages \ {Last}, Left(s)' PROVE producer_done'[s] \/ failed'[s]
  <2>1. CASE s = t
    BY <1>1, <1>3, <2>1 DEF Left
  <2>2. CASE s # t
    <3>1. pc'[s] = pc[s] /\ (pc'[0] # "idle" => pc[0] # "idle")
      BY <1>1, <2>2, StageFacts
    <3>2. Left(s)
      BY <1>3, <3>1 DEF Left
    <3> QED BY <3>2 DEF AwakeInv
  <2> QED BY <2>1, <2>2
<1> QED BY <1>2, <1>3 DEF AwakeInv

\* The same for a step that leaves the slots and their waiters alone.
LEMMA AwakeQuiet ==
  ASSUME TypeOK, AwakeInv, NEW t \in Stages, NEW l, Goto(t, l),
         pc[t] # "idle", pc[t] = "wait" => t \in Workers /\ ~asleep[t],
         l \notin {"join", "done"},
         UNCHANGED <<batches, producer_done, failed, asleep>>
  PROVE  AwakeInv'
BY AwakeMove

\* A new output is notified.
LEMMA AwakeOutput ==
  ASSUME TypeOK, AwakeInv, NEW t \in Stages, NEW l, Goto(t, l),
         pc[t] \notin {"idle", "wait"}, l \notin {"join", "done"},
         NEW m, NEW f, Output(t, m, f),
         UNCHANGED <<producer_done, failed>>
  PROVE  AwakeInv'
<1>1. \A k \in Workers : asleep'[k] => asleep[k] /\ k-1 # t
  BY NotifyFacts DEF Output
<1>2. \A s \in Stages : s # t => batches'[s] = batches[s]
  BY DEF Output, TypeOK, SlotsOK
<1> QED BY <1>1, <1>2, AwakeMove, StageFacts

\* So is a slot that is closed.
LEMMA AwakeClose ==
  ASSUME TypeOK, AwakeInv, NEW t \in Stages, NEW l, Goto(t, l),
         pc[t] \notin {"idle", "wait"},
         CloseSlot(t) \/ (t = Last /\ UNCHANGED <<producer_done, asleep>>),
         UNCHANGED <<batches, failed>>
  PROVE  AwakeInv'
<1>1. CASE CloseSlot(t)
  <2>1. \A k \in Workers : asleep'[k] => asleep[k] /\ k-1 # t
    BY <1>1, NotifyFacts DEF CloseSlot
  <2>2. producer_done'[t] /\ \A s \in Stages : s # t => producer_done'[s] = producer_done[s]
    BY <1>1 DEF CloseSlot, TypeOK, SlotsOK
  <2> QED BY <2>1, <2>2, AwakeMove, StageFacts
<1>2. CASE t = Last /\ UNCHANGED <<producer_done, asleep>>
  BY <1>2, AwakeMove
<1> QED BY <1>1, <1>2

\* And one that fail_pipeline marks; whoever leaves it has marked its own.
LEMMA AwakeFail ==
  ASSUME TypeOK, FailInv, AwakeInv, NEW t \in Stages, FailSlot(t)
  PROVE  AwakeInv'
<1> DEFINE s == failing[t]
<1>1. /\ pc[t] = "failing" /\ s \in Stages
      /\ failed' = [failed EXCEPT ![s] = TRUE]
      /\ Notify(s) /\ UNCHANGED <<batches, producer_done>>
  BY DEF FailSlot
<1>2. failed'[s] /\ \A u \in Stages : u # s => failed'[u] = failed[u]
  BY <1>1 DEF TypeOK, SlotsOK
<1>3. \A k \in Workers : asleep'[k] => asleep[k] /\ k-1 # s
  BY <1>1, NotifyFacts
<1>4. CASE s < Last
  <2>1. pc = [pc EXCEPT ![t] = pc[t]]
    BY DEF TypeOK, PcOK
  <2>2. Goto(t, "failing")
    BY <1>1, <1>4, <2>1 DEF FailSlot, Goto
  <2> QED BY <1>1, <1>2, <1>3, <2>2, AwakeMove, StageFacts
<1>5. CASE ~(s < Last)
  <2>1. Goto(t, IF t = 0 THEN "close" ELSE "done")
    BY <1>5 DEF FailSlot
  <2>2. t # Last => failed[t]
    <3>1. t # Last => t < Last
      BY StageFacts
    <3>2. s = Last
      BY <1>1, <1>5, StageFacts
    <3> QED BY <1>1, <3>1, <3>2 DEF FailInv, MarksInOrder
  <2>3. t # Last => failed'[t]
    BY <1>2, <2>2
  <2> QED BY <1>1, <1>2, <1>3, <2>1, <2>3, AwakeMove, StageFacts
<1> QED BY <1>4, <1>5

\* The caller's steps.
LEMMA AwakeCaller ==
  ASSUME TypeOK, FailInv, AwakeInv, CallerStep
  PROVE  AwakeInv'
<1> USE StageFacts
<1>1. CASE Embed
  BY <1>1, AwakeQuiet DEF Embed
<1>2. CASE Stage0Bucket
  <2> DEFINE l == IF fed[0] + NextRows = input THEN "return"
                  ELSE IF expected_tokens[0] >= Least(fed'[0] + RtBucket, input)
                  THEN "bucket" ELSE "embed"
  <2>1. Goto(0, l) /\ pc[0] = "bucket" /\ UNCHANGED <<producer_done, failed>>
    BY <1>2 DEF Stage0Bucket
  <2>2. l \notin {"join", "done"}
    OBVIOUS
  <2>3. Output(0, NextRows, fed[0] + NextRows = input) \/ UNCHANGED <<batches, asleep>>
    BY <1>2 DEF Stage0Bucket
  <2> HIDE DEF l
  <2> QED BY <2>1, <2>2, <2>3, AwakeOutput, AwakeQuiet
<1>3. CASE Stage0Ok
  BY <1>3, AwakeQuiet DEF Stage0Ok, slotVars
<1>4. CASE Stage0Error
  BY <1>4, AwakeQuiet DEF Stage0Error, slotVars
<1>5. CASE FailSlot(0)
  BY <1>5, AwakeFail
<1>6. CASE CloseFirst
  BY <1>6, AwakeClose DEF CloseFirst
<1>7. CASE Join
  BY <1>7, AwakeQuiet DEF Join, slotVars
<1> QED BY <1>1, <1>2, <1>3, <1>4, <1>5, <1>6, <1>7 DEF CallerStep

\* A worker goes to sleep over an empty slot.
LEMMA AwakeBlock ==
  ASSUME TypeOK, AwakeInv, NEW k \in Workers, WaitBlock(k)
  PROVE  AwakeInv'
<1>1. /\ pc[k] = "wait" /\ ~Ready(k-1) /\ asleep' = [asleep EXCEPT ![k] = TRUE]
      /\ UNCHANGED <<pc, batches, producer_done, failed>>
  BY DEF WaitBlock, slotVars
<1>2. \A j \in Workers : j # k => asleep'[j] = asleep[j]
  BY <1>1 DEF TypeOK, LocalsOK
<1>3. \A s : Ready(s)' = Ready(s) /\ Left(s)' = Left(s)
  BY <1>1 DEF Ready, Left
<1>4. \A j \in Workers : asleep'[j] => pc'[j] = "wait" /\ ~Ready(j-1)'
  BY <1>1, <1>2, <1>3 DEF AwakeInv
<1> QED BY <1>1, <1>3, <1>4 DEF AwakeInv

\* A worker's steps.
LEMMA AwakeWorker ==
  ASSUME TypeOK, FailInv, AwakeInv, NEW k \in Workers, WorkerStep(k)
  PROVE  AwakeInv'
<1> USE StageFacts
<1>1. CASE WaitBlock(k)
  BY <1>1, AwakeBlock
<1>2. CASE WaitTake(k)
  <2>1. \A s \in Stages : s # k-1 => batches'[s] = batches[s]
    BY <1>2 DEF WaitTake, TypeOK, SlotsOK
  <2>2. Goto(k, "check") /\ pc[k] = "wait" /\ ~asleep[k]
        /\ UNCHANGED <<producer_done, failed, asleep>>
    BY <1>2 DEF WaitTake
  <2>3. \A j \in Workers : j # k => j-1 # k-1
    OBVIOUS
  <2> QED BY <2>1, <2>2, <2>3, AwakeMove
<1>3. CASE WaitEnd(k)
  BY <1>3, AwakeQuiet DEF WaitEnd, slotVars
<1>4. CASE Drain(k)
  BY <1>4, AwakeQuiet DEF Drain, slotVars
<1>5. CASE Abort(k) \/ Finish(k)
  <2>1. /\ Goto(k, "done") /\ pc[k] \in {"ended", "finish"} /\ CloseOutput(k)
        /\ UNCHANGED <<batches, failed>>
    BY <1>5 DEF Abort, Finish
  <2>2. CloseSlot(k) \/ (k = Last /\ UNCHANGED <<producer_done, asleep>>)
    BY <2>1 DEF CloseOutput
  <2> QED BY <2>1, <2>2, AwakeClose
<1>6. CASE Reject(k) \/ Prepare(k) \/ DecideSampling(k)
  <2>1. PICK l \in {"failing", "run"} : Goto(k, l)
    BY <1>6 DEF Reject, Prepare, DecideSampling
  <2>2. pc[k] = "check" /\ UNCHANGED <<batches, producer_done, failed, asleep>>
    BY <1>6 DEF Reject, Prepare, DecideSampling, slotVars
  <2> QED BY <2>1, <2>2, AwakeQuiet
<1>7. CASE Run(k)
  <2>1. Goto(k, "ran") /\ pc[k] = "run" /\ UNCHANGED <<producer_done, failed>>
    BY <1>7 DEF Run
  <2>2. Output(k, batch[k].n, TRUE) \/ UNCHANGED <<batches, asleep>>
    BY <1>7 DEF Run
  <2> QED BY <2>1, <2>2, AwakeOutput, AwakeQuiet
<1>8. CASE RunError(k)
  BY <1>8, AwakeQuiet DEF RunError, slotVars
<1>9. CASE Ran(k)
  <2>1. PICK l \in {"wait", "failing"} : Goto(k, l)
    BY <1>9 DEF Ran
  <2>2. pc[k] = "ran" /\ UNCHANGED <<batches, producer_done, failed, asleep>>
    BY <1>9 DEF Ran
  <2> QED BY <2>1, <2>2, AwakeQuiet
<1>10. CASE FailSlot(k)
  BY <1>10, AwakeFail
<1> QED BY <1>1, <1>2, <1>3, <1>4, <1>5, <1>6, <1>7, <1>8, <1>9, <1>10 DEF WorkerStep

\* No step loses a notification.
LEMMA AwakeStep ==
  ASSUME TypeOK, FailInv, AwakeInv, [Next]_vars
  PROVE  AwakeInv'
<1>1. ASSUME NEW n \in Lens, Start(n) PROVE AwakeInv'
  <2>1. \A k \in Workers : ~asleep'[k]
    BY <1>1 DEF Start
  <2>2. \A s \in Stages : ~Left(s)'
    BY <1>1, StageFacts DEF Start, Left
  <2> QED BY <2>1, <2>2 DEF AwakeInv
<1>2. CASE CallerStep
  BY <1>2, AwakeCaller
<1>3. ASSUME NEW k \in Workers, WorkerStep(k) PROVE AwakeInv'
  BY <1>3, AwakeWorker
<1>4. CASE UNCHANGED vars
  BY <1>4 DEF vars, slotVars, AwakeInv, Ready, Left
<1> QED BY <1>1, <1>2, <1>3, <1>4 DEF Next, Terminated

LEMMA AwakeInit == Init => AwakeInv
<1> SUFFICES ASSUME Init PROVE AwakeInv
  OBVIOUS
<1>1. \A k \in Workers : ~asleep[k]
  BY DEF Init
<1>2. \A s \in Stages : ~Left(s)
  BY StageFacts DEF Init, Left
<1> QED BY <1>1, <1>2 DEF AwakeInv

\* Of the workers that sleep, the first waits for one that has left: a contradiction.
LEMMA AwakeMoves == TypeOK /\ AwakeInv => SomebodyGoesOn
<1> SUFFICES ASSUME TypeOK, AwakeInv, pc[0] = "join",
                    \A k \in Workers : pc[k] # "done" => asleep[k],
                    NEW w \in Workers, pc[w] # "done"
             PROVE  FALSE
  BY DEF SomebodyGoesOn
<1> DEFINE T == {k \in Workers : asleep[k]}
<1>1. T \in SUBSET Nat /\ T # {}
  BY StageFacts
<1>2. PICK x \in T : \A y \in T : ~(<<y, x>> \in OpToRel(<, Nat))
  BY <1>1, NatLessThanWellFounded, WFMin
<1>3. x \in Workers /\ asleep[x] /\ ~Ready(x-1) /\ x-1 \in Stages \ {Last}
  BY StageFacts DEF AwakeInv, Workers, Last
<1>4. Left(x-1)
  <2>1. CASE x-1 = 0
    BY <2>1 DEF Left
  <2>2. CASE x-1 # 0
    <3>1. x-1 \in Workers /\ x-1 < x /\ x-1 \in Nat /\ x \in Nat
      BY <1>3, <2>2, StageFacts
    <3>2. x-1 \notin T
      BY <1>2, <3>1 DEF OpToRel
    <3>3. pc[x-1] = "done"
      BY <3>1, <3>2
    <3> QED BY <3>3, <2>2 DEF Left
  <2> QED BY <2>1, <2>2
<1> QED BY <1>3, <1>4 DEF AwakeInv, Ready

\* Once the caller has come to its joins, a worker that is not done can go on: whatever
\* fails and however the threads interleave, no notification is lost and no slot stays
\* open that somebody waits for.
THEOREM NobodyWaitsForEver == Spec => []SomebodyGoesOn
<1>1. TypeOK /\ FailInv /\ [Next]_vars => FailInv'
  BY FailStep
<1>2. TypeOK /\ FailInv /\ AwakeInv /\ [Next]_vars => AwakeInv'
  BY AwakeStep
<1> QED BY <1>1, <1>2, FailInit, AwakeInit, AwakeMoves, Typing, PTL DEF Spec

-----------------------------------------------------------------------------

\* What the invariants say of the caller's view before a step.
LEMMA ViewFacts ==
  ASSUME TypeOK
  PROVE  /\ \A s \in Stages : fed[s] \in Nat
         /\ input \in Nat /\ samples \in Nat /\ sampling \in BOOLEAN
BY DEF TypeOK, CallOK, FlagsOK

\* A step that leaves the caches alone.
LEMMA SampleFrame ==
  ASSUME TypeOK, SampleInv, UNCHANGED <<fed, input, samples>>,
         ret'[Last] => ret[Last],
         pc'[0] = "bucket" => pc[0] = "bucket", expected_tokens'[0] = expected_tokens[0],
         Last \in Workers => LastInv'
  PROVE  SampleInv'
BY StageFacts DEF SampleInv

\* A thread other than the last stage's does not disturb its worker.
LEMMA LastFrame ==
  ASSUME LastInv, UNCHANGED <<pc[Last], ret[Last], fed[Last], consumed_tokens[Last],
                              batch[Last], sampling, input>>
  PROVE  LastInv'
BY DEF LastInv

\* A batch is never beyond the input.
LEMMA WithinFacts ==
  ASSUME TypeOK, FlowInv, WithinInput, SampleInv, NEW k \in Workers,
         pc[k] \in {"check", "run"}, ~BadBatch(batch[k])
  PROVE  /\ fed[k] + batch[k].n = batch[k].hi /\ fed[k] < batch[k].hi
         /\ batch[k].hi <= fed[k-1] /\ batch[k].hi <= fed[0] /\ batch[k].hi <= input
         /\ fed[0] > 0 /\ expected_tokens[0] = input
         /\ batch[k].hi \in Nat /\ batch[k].n \in Nat /\ fed[k] \in Nat
<1> USE StageFacts
<1>1. /\ HandInv(k) /\ ChainInv(k) /\ ret[k]
  BY DEF FlowInv, StopsOnError, NotYetFailing
<1>2. batch[k].hi <= fed[k-1]
  BY <1>1 DEF ChainInv, Reached
<1>3. Sound(batch[k]) /\ batch[k].lo = fed[k] + 1
  BY <1>1 DEF HandInv
<1>4. /\ batch[k].hi \in Nat /\ batch[k].n \in Nat /\ fed[k] \in Nat /\ fed[k-1] \in Nat
      /\ fed[0] \in Nat /\ input \in Nat
  BY StageTypes
<1>5. fed[k] + batch[k].n = batch[k].hi /\ fed[k] < batch[k].hi
  <2>1. batch[k].hi + 1 = batch[k].lo + batch[k].n /\ batch[k].n # 0
    BY <1>3 DEF Sound, BadBatch
  <2> DEFINE h == batch[k].hi
             n == batch[k].n
             d == fed[k]
  <2>2. h \in Nat /\ n \in Nat /\ d \in Nat /\ n # 0 /\ h + 1 = (d + 1) + n
    BY <1>3, <1>4, <2>1
  <2> HIDE DEF h, n, d
  <2>3. d + n = h /\ d < h
    BY <2>2
  <2> QED BY <2>3 DEF h, n, d
<1>6. fed[k-1] <= fed[0] /\ fed[0] <= input
  BY DEF SampleInv, WithinInput
<1>7. batch[k].hi <= fed[0] /\ batch[k].hi <= input /\ fed[0] > 0
  BY <1>2, <1>4, <1>5, <1>6
<1>8. expected_tokens[0] = input
  BY <1>7 DEF SampleInv
<1> QED BY <1>2, <1>4, <1>5, <1>7, <1>8

\* A new call.
LEMMA SampleStart == ASSUME NEW n \in Lens, Start(n) PROVE SampleInv'
<1>1. /\ \A s \in Stages : fed'[s] = 0
      /\ \A k \in Workers : pc'[k] = "wait" /\ consumed_tokens'[k] = 0
      /\ pc'[0] = "embed" /\ input' = n /\ n \in Nat /\ n > 0 /\ samples' = 0
  BY LensAssumption, StageFacts DEF Start
<1>2. Last \in Workers => LastInv'
  BY <1>1, StageFacts DEF LastInv
<1> QED BY <1>1, <1>2, StageFacts DEF SampleInv

\* A bucket of stage 0, which is the last one if it is alone.
LEMMA SampleBucket ==
  ASSUME EmbedUpfront, BucketsFit, TypeOK, FlowInv, WithinInput, SampleInv, Stage0Bucket
  PROVE  SampleInv'
<1> USE StageFacts
<1> DEFINE m == NextRows
           f == fed[0] + m = input
<1>1. m \in Nat /\ m >= 1 /\ fed[0] + m <= input
  BY BucketFacts DEF Stage0Bucket
<1>2. /\ pc[0] = "bucket" /\ \A u \in Stages : u # 0 => pc'[u] = pc[u]
      /\ UNCHANGED <<expected_tokens, batch, consumed_tokens, sampling, ret, input>>
  BY GotoFacts DEF Stage0Bucket, workVars, callVars
<1>3. fed'[0] = fed[0] + m /\ \A s \in Stages : s # 0 => fed'[s] = fed[s]
  <2>1. fed' = [fed EXCEPT ![0] = @ + m]
    BY DEF Stage0Bucket
  <2> QED BY <2>1 DEF TypeOK, CallOK
<1>4. /\ \A s \in Stages : fed[s] \in Nat /\ fed[s] <= fed[0]
      /\ input \in Nat /\ samples \in Nat /\ expected_tokens[0] = input
  BY <1>2, ViewFacts DEF SampleInv
<1>5. \A s \in Stages : fed'[s] <= fed'[0]
  BY <1>1, <1>3, <1>4
<1>6. Last \in Workers => LastInv'
  <2> SUFFICES ASSUME Last \in Workers PROVE LastInv'
    OBVIOUS
  <2>1. Last # 0
    OBVIOUS
  <2> QED BY <1>2, <1>3, <2>1, LastFrame DEF SampleInv
<1>7. ret[Last] /\ input > 0 => samples' = IF fed'[Last] = input THEN 1 ELSE 0
  <2>1. CASE N = 1
    <3>1. Last = 0
      BY <2>1 DEF Last
    <3>2. f => samples' = samples + 1
      BY <2>1 DEF Stage0Bucket, SamplesBySelf, Sample
    <3>3. ~f => samples' = samples
      BY DEF Stage0Bucket, SamplesBySelf, resVars
    <3>4. ret[Last] /\ input > 0 => samples = 0
      <4>1. fed[0] # input
        BY <1>1, <1>4
      <4> QED BY <3>1, <4>1 DEF SampleInv
    <3> QED BY <1>3, <1>4, <3>1, <3>2, <3>3, <3>4
  <2>2. CASE N # 1
    <3>1. Last # 0
      BY <2>2 DEF Last
    <3>2. samples' = samples
      BY <2>2 DEF Stage0Bucket, SamplesBySelf, resVars
    <3> QED BY <1>3, <3>1, <3>2 DEF SampleInv
  <2> QED BY <2>1, <2>2
<1> QED BY <1>2, <1>4, <1>5, <1>6, <1>7 DEF SampleInv

\* The caller's steps.
LEMMA SampleCaller ==
  ASSUME EmbedUpfront, BucketsFit, TypeOK, FlowInv, WithinInput, SampleInv, CallerStep
  PROVE  SampleInv'
<1> USE StageFacts
<1> DEFINE Calm == /\ UNCHANGED <<fed, input, samples, ret, expected_tokens>>
                   /\ UNCHANGED <<batch, consumed_tokens, sampling>>
                   /\ pc'[0] # "bucket" /\ \A u \in Stages : u # 0 => pc'[u] = pc[u]
<1>1. ASSUME Calm PROVE SampleInv'
  <2>1. Last \in Workers => LastInv'
    BY <1>1, LastFrame DEF SampleInv
  <2> QED BY <1>1, <2>1, SampleFrame
<1>2. CASE Embed
  <2>1. /\ pc'[0] = "bucket" /\ \A u \in Stages : u # 0 => pc'[u] = pc[u]
        /\ UNCHANGED <<fed, input, samples, ret, batch, consumed_tokens, sampling>>
    BY <1>2, GotoFacts DEF Embed, workVars, kvVars, resVars, callVars
  <2>2. expected_tokens'[0] = input
    BY <1>2 DEF Embed, EmbeddedTotals, TypeOK, SlotsOK
  <2>3. Last \in Workers => LastInv'
    BY <2>1, LastFrame DEF SampleInv
  <2> QED BY <2>1, <2>2, <2>3 DEF SampleInv
<1>3. CASE Stage0Bucket
  BY <1>3, SampleBucket
<1>4. CASE Stage0Ok
  <2>1. Calm
    BY <1>4, GotoFacts DEF Stage0Ok, slotVars, workVars, kvVars, resVars, callVars
  <2> QED BY <1>1, <2>1
<1>5. CASE Stage0Error
  <2>1. /\ pc'[0] = "failing" /\ \A u \in Stages : u # 0 => pc'[u] = pc[u]
        /\ UNCHANGED <<input, samples, batch, consumed_tokens, sampling, expected_tokens>>
    BY <1>5, GotoFacts DEF Stage0Error, slotVars, workVars, resVars, callVars
  <2>2. ~ret'[0] /\ \A u \in Stages : u # 0 => ret'[u] = ret[u]
    BY <1>5 DEF Stage0Error, TypeOK, LocalsOK
  <2>3. fed[0] <= fed'[0] /\ fed'[0] \in Nat /\ \A u \in Stages : u # 0 => fed'[u] = fed[u]
    <3>1. pc[0] = "bucket" => NextRows \in Nat
      BY BucketFacts
    <3>2. fed' = fed \/ (pc[0] = "bucket" /\ fed' = [fed EXCEPT ![0] = @ + NextRows])
      BY <1>5 DEF Stage0Error
    <3>3. CASE fed' = fed
      BY <3>3 DEF TypeOK, CallOK
    <3>4. CASE pc[0] = "bucket" /\ fed' = [fed EXCEPT ![0] = @ + NextRows]
      BY <3>1, <3>4 DEF TypeOK, CallOK
    <3> QED BY <3>2, <3>3, <3>4
  <2>4. fed'[0] > 0 => expected_tokens[0] = input
    <3>1. pc[0] # "bucket" => fed' = fed
      BY <1>5 DEF Stage0Error
    <3> QED BY <3>1 DEF SampleInv
  <2>5. \A s \in Stages : fed'[s] <= fed'[0]
    BY <2>3, ViewFacts DEF SampleInv
  <2>6. Last \in Workers => LastInv'
    BY <2>1, <2>2, <2>3, LastFrame DEF SampleInv
  <2>7. ret'[Last] => Last # 0
    BY <2>2
  <2>8. ret'[Last] /\ input > 0 => samples = IF fed'[Last] = input THEN 1 ELSE 0
    BY <2>2, <2>3, <2>7 DEF SampleInv
  <2> QED BY <2>1, <2>4, <2>5, <2>6, <2>8 DEF SampleInv
<1>6. CASE FailSlot(0)
  <2>1. pc'[0] # "bucket" /\ \A u \in Stages : u # 0 => pc'[u] = pc[u]
    <3>1. CASE UNCHANGED pc
      BY <1>6, <3>1 DEF FailSlot
    <3>2. CASE Goto(0, "close")
      BY <3>2, GotoFacts
    <3> QED BY <1>6, <3>1, <3>2 DEF FailSlot
  <2>2. Calm
    BY <1>6, <2>1 DEF FailSlot, workVars, kvVars, resVars, callVars
  <2> QED BY <1>1, <2>2
<1>7. CASE CloseFirst
  <2>1. Calm
    BY <1>7, GotoFacts DEF CloseFirst, workVars, kvVars, resVars, callVars
  <2> QED BY <1>1, <2>1
<1>8. CASE Join
  <2>1. Calm
    BY <1>8, GotoFacts DEF Join, slotVars, workVars, kvVars, resVars
  <2> QED BY <1>1, <2>1
<1> QED BY <1>2, <1>3, <1>4, <1>5, <1>6, <1>7, <1>8 DEF CallerStep

\* A session run of a worker's stage: the last one samples on the batch that ends the input.
LEMMA SampleRun ==
  ASSUME TypeOK, FlowInv, WithinInput, SampleInv, NEW k \in Workers, Run(k) \/ RunError(k)
  PROVE  SampleInv'
<1> USE StageFacts
<1>1. /\ pc[k] = "run" /\ pc'[k] = "ran" /\ \A u \in Stages : u # k => pc'[u] = pc[u]
      /\ \A u \in Stages : u # k => fed'[u] = fed[u] /\ ret'[u] = ret[u]
      /\ fed'[k] = batch[k].hi \/ (fed'[k] = fed[k] /\ ~ret'[k])
      /\ UNCHANGED <<batch, consumed_tokens, sampling, expected_tokens, input>>
  BY RunEffect
<1>2. ret[k] /\ ~BadBatch(batch[k])
  BY <1>1 DEF FlowInv, HandInv, Sound, StopsOnError, NotYetFailing
<1>3. /\ fed[k] < batch[k].hi /\ batch[k].hi <= fed[0] /\ batch[k].hi <= input
      /\ batch[k].hi \in Nat /\ fed[k] \in Nat /\ input \in Nat
  BY <1>1, <1>2, WithinFacts, ViewFacts
<1>4. k # 0
  BY DEF Workers
<1>5. fed'[0] > 0 \/ pc'[0] = "bucket" => expected_tokens'[0] = input'
  BY <1>1, <1>4 DEF SampleInv
<1>6. \A s \in Stages : fed'[s] <= fed'[0]
  BY <1>1, <1>3, <1>4 DEF SampleInv
<1>7. CASE k = Last
  <2>1. LastInv /\ (sampling <=> batch[k].hi = input) /\ consumed_tokens[k] = batch[k].hi
    BY <1>1, <1>7 DEF SampleInv, LastInv
  <2>2. LastInv'
    <3>1. ret'[k] => consumed_tokens[k] = fed'[k]
      BY <1>1, <2>1
    <3> QED BY <1>1, <1>7, <3>1 DEF LastInv
  <2>3. ret'[Last] /\ input > 0 => samples' = IF fed'[Last] = input THEN 1 ELSE 0
    <3> SUFFICES ASSUME ret'[Last], input > 0
                 PROVE  samples' = IF batch[k].hi = input THEN 1 ELSE 0
      BY <1>1, <1>7
    <3>1. samples = 0
      BY <1>2, <1>3, <1>7 DEF SampleInv
    <3>2. Run(k)
      BY <1>7 DEF RunError, TypeOK, LocalsOK
    <3>3. sampling => samples' = samples + 1
      BY <1>7, <3>2 DEF Run, Sample
    <3>4. ~sampling => samples' = samples
      BY <3>2 DEF Run, resVars
    <3> QED BY <2>1, <3>1, <3>3, <3>4
  <2> QED BY <1>1, <1>5, <1>6, <2>2, <2>3 DEF SampleInv
<1>8. CASE k # Last
  <2>1. samples' = samples
    BY <1>8 DEF Run, RunError, resVars
  <2>2. Last \in Workers => LastInv'
    BY <1>1, <1>8, LastFrame DEF SampleInv
  <2> QED BY <1>1, <1>5, <1>6, <1>8, <2>1, <2>2 DEF SampleInv
<1> QED BY <1>7, <1>8

\* A worker's steps.
LEMMA SampleWorker ==
  ASSUME TypeOK, FlowInv, WithinInput, SampleInv, NEW k \in Workers, WorkerStep(k)
  PROVE  SampleInv'
<1> USE StageFacts
<1> DEFINE Calm == /\ UNCHANGED <<fed, input, samples, ret>> /\ expected_tokens'[0] = expected_tokens[0]
                   /\ \A u \in Stages : u # k => pc'[u] = pc[u]
                   /\ k # Last => UNCHANGED <<batch[Last], consumed_tokens[Last], sampling>>
<1>1. ASSUME Calm, k = Last => LastInv' PROVE SampleInv'
  <2>1. Last \in Workers => LastInv'
    <3>1. CASE k = Last
      BY <1>1, <3>1
    <3>2. CASE k # Last
      BY <1>1, <3>2, LastFrame DEF SampleInv
    <3> QED BY <3>1, <3>2
  <2>2. k # 0
    BY DEF Workers
  <2> QED BY <1>1, <2>1, <2>2, SampleFrame
<1>2. k = Last => LastInv
  BY DEF SampleInv
<1>3. k # Last => Last \in Workers
  <2>1. k # Last => Last # 0
    BY DEF Workers, Last
  <2> QED BY <2>1
<1>4. CASE WaitBlock(k)
  <2>1. UNCHANGED <<pc, slotVars, workVars, ret, kvVars, resVars, callVars>>
    BY <1>4 DEF WaitBlock
  <2>2. Calm
    BY <2>1 DEF slotVars, workVars, kvVars, resVars, callVars
  <2>3. k = Last => LastInv'
    BY <1>2, <2>1, LastFrame DEF workVars, kvVars, callVars
  <2> QED BY <1>1, <2>2, <2>3
<1>5. CASE WaitTake(k)
  <2>1. /\ pc[k] = "wait" /\ pc'[k] = "check" /\ \A u \in Stages : u # k => pc'[u] = pc[u]
        /\ UNCHANGED <<fed, input, samples, ret, expected_tokens, consumed_tokens, sampling>>
    BY <1>5, GotoFacts DEF WaitTake, kvVars, resVars, callVars
  <2>2. k # Last => batch'[Last] = batch[Last]
    BY <1>3, <1>5 DEF WaitTake, TypeOK, LocalsOK
  <2>3. k = Last => LastInv'
    BY <1>2, <2>1 DEF LastInv
  <2> QED BY <1>1, <2>1, <2>2, <2>3
<1>6. CASE WaitEnd(k) \/ Drain(k) \/ Reject(k)
  <2>1. /\ pc'[k] \in {"ended", "finish", "failing"} /\ \A u \in Stages : u # k => pc'[u] = pc[u]
        /\ UNCHANGED <<slotVars, workVars, ret, kvVars, resVars, callVars>>
    BY <1>6, GotoFacts DEF WaitEnd, Drain, Reject
  <2>2. Calm
    BY <2>1 DEF slotVars, workVars, kvVars, resVars, callVars
  <2>3. k = Last => LastInv'
    BY <2>1 DEF LastInv
  <2> QED BY <1>1, <2>2, <2>3
<1>7. CASE Abort(k) \/ Finish(k)
  <2>1. /\ pc'[k] = "done" /\ \A u \in Stages : u # k => pc'[u] = pc[u]
        /\ UNCHANGED <<expected_tokens, workVars, ret, kvVars, resVars, callVars>>
    BY <1>7, GotoFacts DEF Abort, Finish
  <2>2. Calm
    BY <2>1 DEF workVars, kvVars, resVars, callVars
  <2>3. k = Last => LastInv'
    BY <2>1 DEF LastInv
  <2> QED BY <1>1, <2>2, <2>3
<1>8. CASE Prepare(k)
  <2>1. /\ k < Last /\ \A u \in Stages : u # k => pc'[u] = pc[u]
        /\ UNCHANGED <<batch, sampling, ret, kvVars, resVars, callVars>>
    BY <1>8, GotoFacts DEF Prepare
  <2>2. expected_tokens'[0] = expected_tokens[0]
    BY <1>8 DEF Prepare, TypeOK, SlotsOK
  <2>3. consumed_tokens'[Last] = consumed_tokens[Last] /\ k # Last
    BY <1>3, <1>8, <2>1 DEF Prepare, TypeOK, LocalsOK
  <2> QED BY <1>1, <2>1, <2>2, <2>3 DEF kvVars, resVars, callVars
<1>9. CASE DecideSampling(k)
  <2>1. /\ k = Last /\ pc[k] = "check" /\ ~BadBatch(batch[k]) /\ pc'[k] = "run"
        /\ \A u \in Stages : u # k => pc'[u] = pc[u]
        /\ UNCHANGED <<batch, slotVars, ret, kvVars, resVars, callVars>>
    BY <1>9, GotoFacts DEF DecideSampling
  <2>2. consumed_tokens[k] = fed[k]
    BY <1>2, <2>1 DEF LastInv
  <2>3. /\ fed[k] + batch[k].n = batch[k].hi /\ batch[k].hi <= input
        /\ expected_tokens[0] = input /\ batch[k].hi \in Nat /\ input \in Nat
    BY <2>1, WithinFacts, ViewFacts
  <2>4. consumed_tokens'[k] = batch[k].hi
    BY <1>9, <2>2, <2>3 DEF DecideSampling, TypeOK, LocalsOK
  <2>5. sampling' <=> batch[k].hi = input
    <3>1. sampling' = ~(batch[k].hi < input)
      BY <1>9, <2>2, <2>3 DEF DecideSampling
    <3>2. ~(batch[k].hi < input) <=> batch[k].hi = input
      BY <2>3
    <3> QED BY <3>1, <3>2, Zenon
  <2>6. LastInv'
    BY <2>1, <2>4, <2>5 DEF LastInv, callVars
  <2> QED BY <1>1, <2>1, <2>6 DEF slotVars, kvVars, resVars, callVars
<1>10. CASE Run(k) \/ RunError(k)
  BY <1>10, SampleRun
<1>11. CASE Ran(k)
  <2>1. /\ pc[k] = "ran" /\ pc'[k] = (IF ret[k] THEN "wait" ELSE "failing")
        /\ \A u \in Stages : u # k => pc'[u] = pc[u]
        /\ UNCHANGED <<expected_tokens, workVars, ret, kvVars, resVars, callVars>>
    BY <1>11, GotoFacts DEF Ran
  <2>2. Calm
    BY <2>1 DEF workVars, kvVars, resVars, callVars
  <2>3. k = Last => LastInv'
    BY <1>2, <2>1 DEF LastInv, workVars, kvVars
  <2> QED BY <1>1, <2>2, <2>3
<1>12. CASE FailSlot(k)
  <2>1. pc'[k] \in {"failing", "done"} /\ \A u \in Stages : u # k => pc'[u] = pc[u]
    <3>1. k # 0 /\ pc[k] = "failing"
      BY <1>12 DEF Workers, FailSlot
    <3>2. CASE UNCHANGED pc
      BY <3>1, <3>2
    <3>3. CASE Goto(k, "done")
      BY <3>3, GotoFacts
    <3> QED BY <1>12, <3>1, <3>2, <3>3 DEF FailSlot
  <2>2. UNCHANGED <<expected_tokens, workVars, ret, kvVars, resVars, callVars>>
    BY <1>12 DEF FailSlot
  <2>3. Calm
    BY <2>1, <2>2 DEF workVars, kvVars, resVars, callVars
  <2>4. k = Last => LastInv'
    BY <2>1 DEF LastInv
  <2> QED BY <1>1, <2>3, <2>4
<1> QED BY <1>4, <1>5, <1>6, <1>7, <1>8, <1>9, <1>10, <1>11, <1>12 DEF WorkerStep

\* Sampling stays in step with the input.
LEMMA SampleStep ==
  ASSUME EmbedUpfront, BucketsFit, TypeOK, FlowInv, WithinInput, SampleInv, [Next]_vars
  PROVE  SampleInv'
<1>1. ASSUME NEW n \in Lens, Start(n) PROVE SampleInv'
  BY <1>1, SampleStart
<1>2. CASE CallerStep
  BY <1>2, SampleCaller
<1>3. ASSUME NEW k \in Workers, WorkerStep(k) PROVE SampleInv'
  BY <1>3, SampleWorker
<1>4. CASE UNCHANGED vars
  <2>1. Last \in Workers => LastInv'
    BY <1>4, LastFrame DEF SampleInv, vars, workVars, kvVars, callVars
  <2> QED BY <1>4, <2>1, SampleFrame DEF vars, slotVars, kvVars, resVars, callVars
<1> QED BY <1>1, <1>2, <1>3, <1>4 DEF Next, Terminated

LEMMA SampleInit == Init => SampleInv
<1> SUFFICES ASSUME Init PROVE SampleInv
  OBVIOUS
<1>1. /\ \A s \in Stages : fed[s] = 0
      /\ \A k \in Workers : pc[k] = "done"
      /\ pc[0] = "idle" /\ input = 0
  BY StageFacts DEF Init
<1>2. Last \in Workers => LastInv
  BY <1>1 DEF LastInv
<1> QED BY <1>1, <1>2, StageFacts DEF SampleInv

-----------------------------------------------------------------------------

\* A step of the pipeline that the caller does not see.
LEMMA CallQuiet ==
  ASSUME UNCHANGED <<fed, samples, input, outcome, runs>>,
         pc'[0] # "idle" <=> pc[0] # "idle"
  PROVE  UNCHANGED Call!seenVars
<1>1. (pc[0] # "idle")' = (pc[0] # "idle")
  OBVIOUS
<1> QED BY <1>1 DEF Call!seenVars

\* A stage caches m rows.
LEMMA CallFeed ==
  ASSUME NEW k \in Stages, NEW m \in Nat, m >= 1, m <= input, pc[0] # "idle", pc'[0] # "idle",
         fed' = [fed EXCEPT ![k] = @ + m],
         fed[k] + m <= IF k = 0 THEN input ELSE fed[k-1],
         samples' = samples \/ (k = Last /\ fed'[k] = input /\ samples' = samples + 1),
         UNCHANGED <<input, outcome, runs>>, input \in Nat
  PROVE  Call!CallNext
<1>1. m \in 1 .. input
  OBVIOUS
<1>2. Call!Feed(k, m)
  <2>1. (pc[0] # "idle")' = (pc[0] # "idle")
    OBVIOUS
  <2> QED BY <2>1 DEF Call!Feed, Last
<1> QED BY <1>1, <1>2 DEF Call!CallNext, Call!Stages, Stages

\* The rows of stage 0.
LEMMA CallSource ==
  ASSUME BucketsFit, TypeOK, FlowInv, WithinInput, SampleInv, Stage0Bucket \/ Stage0Error
  PROVE  [Call!CallNext]_(Call!seenVars)
<1> USE StageFacts
<1>1. /\ pc[0] \in {"embed", "bucket", "return"} /\ pc'[0] # "idle"
      /\ UNCHANGED <<input, outcome, runs>>
  BY GotoFacts DEF Stage0Bucket, Stage0Error, callVars
<1>2. input \in Nat /\ fed[0] \in Nat
  BY ViewFacts
<1>3. CASE Stage0Error /\ UNCHANGED fed
  <2>1. UNCHANGED samples
    BY <1>3 DEF Stage0Error, resVars
  <2> QED BY <1>1, <1>3, <2>1, CallQuiet
<1>4. CASE pc[0] = "bucket" /\ fed' = [fed EXCEPT ![0] = @ + NextRows]
  <2>1. NextRows \in Nat /\ NextRows >= 1 /\ fed[0] + NextRows <= input
    BY <1>4, BucketFacts
  <2>2. samples' = samples \/ (0 = Last /\ fed'[0] = input /\ samples' = samples + 1)
    <3>1. CASE Stage0Error \/ ~SamplesBySelf(fed[0] + NextRows = input)
      BY <3>1 DEF Stage0Bucket, Stage0Error, resVars
    <3>2. CASE Stage0Bucket /\ SamplesBySelf(fed[0] + NextRows = input)
      <4>1. N = 1 /\ fed[0] + NextRows = input
        BY <3>2 DEF SamplesBySelf
      <4>2. fed'[0] = input
        BY <1>4, <4>1 DEF TypeOK, CallOK
      <4>3. samples' = samples + 1
        BY <3>2 DEF Stage0Bucket, Sample
      <4> QED BY <4>1, <4>2, <4>3 DEF Last
    <3> QED BY <3>1, <3>2
  <2>3. NextRows <= input
    BY <1>2, <2>1
  <2>4. Call!CallNext
    <3> DEFINE m == NextRows
    <3>1. m \in Nat /\ m >= 1 /\ m <= input /\ fed[0] + m <= input
          /\ fed' = [fed EXCEPT ![0] = @ + m]
      BY <1>4, <2>1, <2>3
    <3> HIDE DEF m
    <3> QED BY <1>1, <1>2, <2>2, <3>1, CallFeed
  <2> QED BY <2>4
<1> QED BY <1>3, <1>4 DEF Stage0Bucket, Stage0Error

\* The rows of another stage.
LEMMA CallRun ==
  ASSUME TypeOK, FlowInv, WithinInput, DoneInv, SampleInv, NEW k \in Workers,
         Run(k) \/ RunError(k)
  PROVE  [Call!CallNext]_(Call!seenVars)
<1> USE StageFacts
<1>1. /\ pc[k] = "run" /\ pc'[0] = pc[0] /\ k # 0
      /\ UNCHANGED <<input, outcome, runs>>
  <2>1. k # 0
    BY DEF Workers
  <2> QED BY <2>1, GotoFacts DEF Run, RunError, callVars
<1>2. ~BadBatch(batch[k])
  BY <1>1 DEF FlowInv, HandInv, Sound
<1>3. /\ fed[k] + batch[k].n = batch[k].hi /\ fed[k] < batch[k].hi
      /\ batch[k].hi <= fed[k-1] /\ batch[k].hi <= fed[0] /\ batch[k].hi <= input
      /\ batch[k].hi \in Nat /\ batch[k].n \in Nat /\ fed[k] \in Nat /\ input \in Nat
  BY <1>1, <1>2, WithinFacts, ViewFacts
<1>4. pc[0] # "idle"
  BY <1>1 DEF DoneInv, CallInv
<1>5. CASE Append_KV(k)
  <2>1. fed' = [fed EXCEPT ![k] = @ + batch[k].n]
    BY <1>5 DEF Append_KV
  <2>2. fed'[k] = batch[k].hi
    BY <1>3, <2>1 DEF TypeOK, CallOK
  <2>3. samples' = samples \/ (k = Last /\ fed'[k] = input /\ samples' = samples + 1)
    <3>1. CASE Run(k) /\ k = Last /\ sampling
      <4>1. samples' = samples + 1
        BY <3>1 DEF Run, Sample
      <4>2. batch[k].hi = input
        BY <1>1, <3>1 DEF SampleInv, LastInv
      <4> QED BY <2>2, <3>1, <4>1, <4>2
    <3>2. CASE ~(Run(k) /\ k = Last /\ sampling)
      BY <3>2 DEF Run, RunError, resVars
    <3> QED BY <3>1, <3>2
  <2> DEFINE m == batch[k].n
  <2>4. m \in Nat /\ m >= 1 /\ m <= input /\ fed[k] + m <= fed[k-1]
        /\ fed' = [fed EXCEPT ![k] = @ + m]
    BY <1>3, <2>1
  <2> HIDE DEF m
  <2> QED BY <1>1, <1>3, <1>4, <2>3, <2>4, CallFeed
<1>6. CASE ~Append_KV(k)
  <2>1. UNCHANGED <<fed, samples>>
    BY <1>6 DEF Run, RunError, kvVars, resVars
  <2> QED BY <1>1, <2>1, CallQuiet
<1> QED BY <1>5, <1>6

\* run_pipeline_once returns.
LEMMA CallReturn ==
  ASSUME TypeOK, FailInv, FailInv', FlowInv, DoneInv, DoneInv', SampleInv, Join
  PROVE  Call!CallNext
<1> USE StageFacts
<1>1. pc[0] = "join" /\ pc'[0] = "idle" /\ UNCHANGED <<fed, samples, input, runs, ret>>
  BY GotoFacts DEF Join, kvVars, resVars
<1>2. outcome' \in {"ok", "failed"}
  BY DEF Join
<1>3. ASSUME outcome' = "ok" PROVE samples = 1 /\ \A k \in Stages : fed[k] = input
  <2>1. \A k \in Stages : fed[k] = input
    BY <1>1, <1>3 DEF DoneInv, SuccessIsComplete
  <2>2. ret[Last]
    BY <1>1, <1>3 DEF FailInv, OkIsFinal
  <2>3. input > 0
    BY <1>1 DEF DoneInv, CallInv
  <2> QED BY <2>1, <2>2, <2>3 DEF SampleInv
<1>4. (pc[0] # "idle") = TRUE /\ (pc[0] # "idle")' = FALSE
  BY <1>1
<1>5. Call!Return(outcome')
  BY <1>1, <1>3, <1>4 DEF Call!Return, Call!Stages, Stages
<1> QED BY <1>2, <1>5 DEF Call!CallNext

\* Every step of the pipeline is one the caller was promised, or one it does not see.
LEMMA CallStep ==
  ASSUME BucketsFit, TypeOK, FailInv, FailInv', FlowInv, WithinInput, DoneInv, DoneInv',
         SampleInv, [Next]_vars
  PROVE  [Call!CallNext]_(Call!seenVars)
<1> USE StageFacts
<1>1. ASSUME NEW n \in Lens, Start(n) PROVE Call!CallNext
  <2>1. (pc[0] # "idle") = FALSE /\ (pc[0] # "idle")' = TRUE
    BY <1>1 DEF Start
  <2>2. Call!CallStart(n)
    BY <1>1, <2>1 DEF Start, Call!CallStart, Call!Stages, Stages
  <2> QED BY <2>2 DEF Call!CallNext
<1>2. CASE CallerStep
  <2>1. CASE Embed \/ Stage0Ok \/ CloseFirst
    <3>1. UNCHANGED <<fed, samples, input, outcome, runs>>
      BY <2>1 DEF Embed, Stage0Ok, CloseFirst, kvVars, resVars, callVars
    <3>2. pc[0] # "idle" /\ pc'[0] # "idle"
      BY <2>1, GotoFacts DEF Embed, Stage0Ok, CloseFirst
    <3> QED BY <3>1, <3>2, CallQuiet
  <2>2. CASE Stage0Bucket \/ Stage0Error
    BY <2>2, CallSource
  <2>3. CASE FailSlot(0)
    <3>1. UNCHANGED <<fed, samples, input, outcome, runs>> /\ pc[0] = "failing"
      BY <2>3 DEF FailSlot, kvVars, resVars, callVars
    <3>2. pc'[0] # "idle"
      <4>1. CASE UNCHANGED pc
        BY <3>1, <4>1
      <4>2. CASE Goto(0, "close")
        BY <4>2, GotoFacts
      <4> QED BY <2>3, <4>1, <4>2 DEF FailSlot
    <3> QED BY <3>1, <3>2, CallQuiet
  <2>4. CASE Join
    BY <2>4, CallReturn
  <2> QED BY <1>2, <2>1, <2>2, <2>3, <2>4 DEF CallerStep
<1>3. ASSUME NEW k \in Workers, WorkerStep(k) PROVE [Call!CallNext]_(Call!seenVars)
  <2>1. CASE Run(k) \/ RunError(k)
    BY <2>1, CallRun
  <2>2. CASE ~(Run(k) \/ RunError(k))
    <3>1. UNCHANGED <<fed, samples, input, outcome, runs>>
      BY <1>3, <2>2 DEF WorkerStep, WaitBlock, WaitTake, WaitEnd, Drain, Abort, Finish, Reject,
         Prepare, DecideSampling, Ran, FailSlot, kvVars, resVars, callVars
    <3>2. pc'[0] = pc[0]
      <4>1. k # 0
        BY DEF Workers
      <4>2. UNCHANGED pc \/ \E l \in WorkerStates : Goto(k, l)
        BY <1>3, <2>2, <4>1 DEF WorkerStep, WaitBlock, WaitTake, WaitEnd, Drain, Abort, Finish,
           Reject, Prepare, DecideSampling, Ran, FailSlot, WorkerStates
      <4> QED BY <4>1, <4>2, GotoFacts
    <3> QED BY <3>1, <3>2, CallQuiet
  <2> QED BY <2>1, <2>2
<1>4. CASE UNCHANGED vars
  BY <1>4, CallQuiet DEF vars, kvVars, resVars, callVars
<1> QED BY <1>1, <1>2, <1>3, <1>4 DEF Next, Terminated

\* What a call shows its caller is what PipelineCall promises: the caches fill in order,
\* no stage ahead of the one before it, the last stage samples once, when it has the whole
\* input, and the call returns true only then.  This is ImplementsCall but for the
\* fairness.
THEOREM CallIsImplemented ==
  ASSUME BucketsFit, EmbedUpfront
  PROVE  Spec => CallSafety
<1>1. TypeOK /\ WithinInput /\ FlowInv /\ [Next]_vars => FlowInv'
  BY FlowStep
<1>2. TypeOK /\ FailInv /\ [Next]_vars => FailInv'
  BY FailStep
<1>3. TypeOK /\ FailInv /\ FlowInv /\ DoneInv /\ [Next]_vars => DoneInv'
  BY DoneStep
<1>4. TypeOK /\ WithinInput /\ FlowInv /\ SampleInv /\ [Next]_vars => SampleInv'
  BY SampleStep
<1>5. Init => Call!CallInit
  <2> SUFFICES ASSUME Init PROVE Call!CallInit
    OBVIOUS
  <2>1. (pc[0] # "idle") = FALSE
    BY StageFacts DEF Init
  <2> QED BY <2>1 DEF Init, Call!CallInit, Call!Stages, Stages
<1>6. /\ TypeOK /\ FailInv /\ FailInv' /\ FlowInv /\ WithinInput /\ DoneInv /\ DoneInv'
      /\ SampleInv /\ [Next]_vars
      => [Call!CallNext]_(Call!seenVars)
  BY CallStep
<1> QED BY <1>1, <1>2, <1>3, <1>4, <1>5, <1>6, FlowInit, FailInit, DoneInit, SampleInit,
           Typing, PTL DEF Spec, CallSafety

-----------------------------------------------------------------------------
(***************************************************************************)
(* MultiCardChat, for any number of cards, turns and decode steps and      *)
(* every context limit: what main believes of the KV caches, which it only *)
(* counts, against what the calls of run_pipeline_once left in them.       *)
(***************************************************************************)

\* The context is at least as long as what is reserved of it.
ReserveFits == Reserve <= Limit

Control == {"read", "prefill", "loop", "decode", "ended", "exit"}

ChatTypes ==
  /\ ctl \in Control
  /\ fed \in [Stages -> Nat] /\ kv \in [Stages -> Nat]
  /\ input \in Nat /\ step \in Nat /\ prefill_tokens \in Nat /\ decode_tokens \in Nat
  /\ context_tokens \in Nat /\ cut \in Nat /\ systems \in Nat

\* A call is under way in the prefill and in a decode step, which feeds one token.
Calling ==
  /\ ctl \in {"prefill", "decode"} => running
  /\ running => ctl \in {"prefill", "decode"}
  /\ ctl = "decode" => input = 1

\* The rows that the cache of stage k held when the call under way began.
Held(k) == IF ctl \in {"prefill", "decode"} THEN kv[k] - fed[k] ELSE kv[k]

\* The tokens of the conversation so far, those of the turn under way included.
Counted ==
  CASE ctl = "read"    -> context_tokens
    [] ctl = "prefill" -> context_tokens
    [] OTHER           -> context_tokens + prefill_tokens + decode_tokens

\* The call under way has fed no stage more than the one before it, or than its input.
FedInv ==
  ctl \in {"prefill", "decode"} =>
    /\ \A k \in Stages : fed[k] <= input
    /\ \A k \in Stages \ {0} : fed[k] <= fed[k-1]

\* Apart from the call under way, the caches differ, and the count lags, only by what
\* broken turns left.
HeldInv ==
  /\ \A k \in Stages : Held(k) >= 0
  /\ \A k \in Stages \ {0} : Held(k) <= Held(k-1)
  /\ cut = 0 => \A k \in Stages : Held(k) = Held(0)
  /\ ctl # "exit" => Counted <= Held(0) /\ Held(0) <= Counted + cut

\* A turn starts with room for its prefill; without --interactive there is only one.
GuardInv ==
  /\ ~interactive /\ ctl = "read" => context_tokens = 0
  /\ ctl = "prefill" => context_tokens = 0 \/ context_tokens + Reserve < Limit

\* In the interactive loop the system prompt goes with the first prompt after the caches
\* were cleared.
SystemInv ==
  /\ first_turn \in BOOLEAN /\ interactive \in BOOLEAN
  /\ ctl = "read" => systems = IF interactive /\ ~first_turn THEN 1 ELSE 0
  /\ ctl \in {"prefill", "loop", "decode", "ended"} =>
       systems = (IF interactive THEN 1 ELSE 0) /\ ~(interactive /\ first_turn)

\* The steps of the decode loop.
StepInv ==
  /\ ctl \in {"loop", "decode"} => decode_tokens = step /\ step <= MaxNewTokens
  /\ ctl = "decode" => step < MaxNewTokens
  /\ AllStepsDecoded

ChatInv ==
  ChatTypes /\ Calling /\ FedInv /\ HeldInv /\ GuardInv /\ SystemInv /\ StepInv

-----------------------------------------------------------------------------

\* There is a stage 0, and one before every other.
LEMMA ChatStageFacts ==
  /\ 0 \in Stages /\ Stages \subseteq Nat
  /\ \A k \in Stages \ {0} : k - 1 \in Stages /\ k - 1 # k
  /\ {MaxNewTokens, Limit, Reserve} \subseteq Nat /\ Lens \subseteq Nat
BY ChatAssumption DEF Stages

\* The initial states satisfy the invariant.
LEMMA ChatInvInit == ChatInit => ChatInv
<1> SUFFICES ASSUME ChatInit PROVE ChatInv
  OBVIOUS
<1> USE ChatStageFacts
<1>1. ChatTypes
  BY DEF ChatInit, CallInit, ChatTypes, Control
<1>2. Calling
  BY DEF ChatInit, CallInit, Calling
<1>3. ctl = "read" /\ kv = [k \in Stages |-> 0] /\ context_tokens = 0 /\ cut = 0 /\ systems = 0
      /\ first_turn = TRUE /\ interactive \in BOOLEAN
  BY DEF ChatInit
<1>4. FedInv /\ GuardInv /\ SystemInv /\ StepInv
  BY <1>3 DEF FedInv, GuardInv, SystemInv, StepInv, AllStepsDecoded
<1>5. HeldInv
  BY <1>3 DEF HeldInv, Held, Counted
<1> QED BY <1>1, <1>2, <1>4, <1>5 DEF ChatInv

\* A prompt is read: the caches are cleared before it when the context is nearly full.
LEMMA InvRead ==
  ASSUME ChatInv, NEW n \in Lens, ReadLine(n), UNCHANGED options
  PROVE  ChatInv'
<1> USE ChatStageFacts
<1>1. /\ ctl = "read" /\ ctl' = "prefill" /\ input' = n /\ fed' = [k \in Stages |-> 0]
      /\ UNCHANGED turnVars
      /\ interactive' = interactive /\ ignore_eos' = ignore_eos
  BY DEF ReadLine, CallStart, options
<1>2. running' /\ first_turn' = (first_turn /\ ~interactive)
  BY Zenon DEF ReadLine, CallStart
<1>3. \/ /\ NearlyFull /\ kv' = [k \in Stages |-> 0]
         /\ context_tokens' = 0 /\ systems' = 1 /\ cut' = 0
      \/ /\ ~NearlyFull /\ UNCHANGED <<kv, context_tokens, cut>>
         /\ systems' = systems + IF interactive /\ first_turn THEN 1 ELSE 0
  BY DEF ReadLine, Opens
<1>4. systems' = IF interactive THEN 1 ELSE 0
  <2>1. /\ systems = IF interactive /\ ~first_turn THEN 1 ELSE 0
        /\ first_turn \in BOOLEAN /\ interactive \in BOOLEAN
    BY <1>1 DEF ChatInv, SystemInv
  <2>2. NearlyFull => interactive
    BY DEF NearlyFull
  <2>3. CASE interactive
    BY <1>3, <2>1, <2>3
  <2>4. CASE ~interactive
    BY <1>3, <2>1, <2>2, <2>4
  <2> QED BY <2>3, <2>4
<1>11. SystemInv'
  <2>1. first_turn \in BOOLEAN /\ interactive \in BOOLEAN
    BY DEF ChatInv, SystemInv
  <2> QED BY <1>1, <1>2, <1>4, <2>1 DEF SystemInv
<1>5. ChatTypes'
  BY <1>1, <1>3, <1>4 DEF ChatInv, ChatTypes, Control, turnVars
<1>6. Calling'
  BY <1>1, <1>2 DEF Calling
<1>7. FedInv'
  BY <1>1 DEF FedInv
<1>8. StepInv'
  BY <1>1 DEF StepInv, AllStepsDecoded
<1>9. GuardInv'
  <2>1. context_tokens' = 0 \/ context_tokens' + Reserve < Limit
    <3>1. CASE NearlyFull
      BY <1>3, <3>1
    <3>2. CASE ~NearlyFull
      <4>1. context_tokens' = context_tokens /\ context_tokens \in Nat
        BY <1>3, <3>2 DEF ChatInv, ChatTypes
      <4>2. ~interactive \/ ~(context_tokens > 0) \/ ~(context_tokens + Reserve >= Limit)
        BY <3>2 DEF NearlyFull
      <4>3. ~interactive => context_tokens = 0
        BY <1>1 DEF ChatInv, GuardInv
      <4>4. ~(context_tokens > 0) => context_tokens = 0
        BY <4>1
      <4>5. ~(context_tokens + Reserve >= Limit) => context_tokens + Reserve < Limit
        BY <4>1
      <4> QED BY <4>1, <4>2, <4>3, <4>4, <4>5
    <3> QED BY <3>1, <3>2
  <2> QED BY <1>1, <2>1 DEF GuardInv
<1>10. HeldInv'
  <2>1. \A k \in Stages : kv[k] \in Nat /\ Held(k) = kv[k] /\ Held(k)' = kv'[k] - 0
    BY <1>1 DEF ChatInv, ChatTypes, Held
  <2>2. kv' \in [Stages -> Nat] /\ context_tokens \in Nat
    BY <1>5 DEF ChatInv, ChatTypes
  <2>3. \A k \in Stages : Held(k)' = kv'[k]
    BY <2>1, <2>2
  <2>4. Counted = context_tokens /\ Counted' = context_tokens'
    BY <1>1 DEF Counted
  <2>5. CASE kv' = [k \in Stages |-> 0] /\ context_tokens' = 0 /\ cut' = 0
    BY <1>1, <2>3, <2>4, <2>5 DEF HeldInv
  <2>6. CASE UNCHANGED <<kv, context_tokens, cut>>
    <3>1. \A k \in Stages : Held(k)' = Held(k)
      BY <2>1, <2>3, <2>6
    <3>2. HeldInv
      BY DEF ChatInv
    <3> QED BY <1>1, <2>4, <2>6, <3>1, <3>2 DEF HeldInv
  <2> QED BY <1>3, <2>5, <2>6
<1> QED BY <1>5, <1>6, <1>7, <1>8, <1>9, <1>10, <1>11 DEF ChatInv

\* main leaves, between two calls or after a prefill that failed.
LEMMA InvLeave ==
  ASSUME ChatInv, EndOfInput \/ PrefillFails \/ SingleTurnEnds, UNCHANGED options
  PROVE  ChatInv'
<1> USE ChatStageFacts
<1>1. /\ ctl' = "exit" /\ kv' = [k \in Stages |-> 0] /\ systems' = 0
      /\ UNCHANGED <<turnVars, context_tokens, cut, fed, input>>
  BY DEF EndOfInput, PrefillFails, SingleTurnEnds, Leave, Return, seenVars
<1>2. ~running'
  <2>1. CASE EndOfInput \/ SingleTurnEnds
    <3>1. ctl \in {"read", "ended"} /\ running' = running
      BY <2>1 DEF EndOfInput, SingleTurnEnds, seenVars
    <3> QED BY <3>1 DEF ChatInv, Calling
  <2>2. CASE PrefillFails
    BY <2>2, Zenon DEF PrefillFails, Return
  <2> QED BY <2>1, <2>2
<1>3. ChatTypes'
  BY <1>1 DEF ChatInv, ChatTypes, Control, turnVars
<1>4. Calling'
  BY <1>1, <1>2 DEF Calling
<1>5. FedInv' /\ GuardInv' /\ StepInv'
  BY <1>1 DEF FedInv, GuardInv, StepInv, AllStepsDecoded
<1>7. SystemInv'
  <2>1. first_turn' = first_turn /\ interactive' = interactive
    BY DEF EndOfInput, PrefillFails, SingleTurnEnds, options
  <2> QED BY <1>1, <2>1 DEF ChatInv, SystemInv
<1>6. HeldInv'
  BY <1>1 DEF HeldInv, Held
<1> QED BY <1>3, <1>4, <1>5, <1>6, <1>7 DEF ChatInv

\* A stage works: its cache grows with what the call has fed it.
LEMMA InvWork ==
  ASSUME ChatInv, NEW k \in Stages, NEW m \in 1 .. input, Work(k, m), UNCHANGED options
  PROVE  ChatInv'
<1> USE ChatStageFacts
<1>1. /\ fed[k] + m <= IF k = 0 THEN input ELSE fed[k-1]
      /\ fed' = [fed EXCEPT ![k] = @ + m] /\ kv' = [kv EXCEPT ![k] = @ + m]
      /\ UNCHANGED <<ctl, turnVars, talkVars, input>>
      /\ interactive' = interactive /\ ignore_eos' = ignore_eos
  BY DEF Work, Feed, options
<1>2. running /\ running'
  BY Zenon DEF Work, Feed
<1>3. ctl \in {"prefill", "decode"}
  BY <1>2 DEF ChatInv, Calling
<1>4. /\ fed \in [Stages -> Nat] /\ kv \in [Stages -> Nat] /\ input \in Nat
      /\ m \in Nat
  BY DEF ChatInv, ChatTypes
<1>5. /\ fed'[k] = fed[k] + m /\ kv'[k] = kv[k] + m
      /\ \A j \in Stages \ {k} : fed'[j] = fed[j] /\ kv'[j] = kv[j]
  BY <1>1, <1>4
<1>6. ChatTypes'
  <2>1. fed[k] + m \in Nat /\ kv[k] + m \in Nat
    BY <1>4
  <2>2. fed' \in [Stages -> Nat] /\ kv' \in [Stages -> Nat]
    BY <1>1, <1>4, <2>1
  <2> QED BY <1>1, <2>2 DEF ChatInv, ChatTypes, turnVars, talkVars
<1>7. Calling'
  BY <1>1, <1>2, <1>3 DEF ChatInv, Calling
<1>8. FedInv'
  <2>1. \A j \in Stages : fed[j] <= input
    BY <1>3 DEF ChatInv, FedInv
  <2>2. \A j \in Stages \ {0} : fed[j] <= fed[j-1]
    BY <1>3 DEF ChatInv, FedInv
  <2>3. \A j \in Stages : fed'[j] <= input
    <3>1. fed'[k] <= input
      <4>1. CASE k = 0
        BY <1>1, <1>5, <4>1
      <4>2. CASE k # 0
        <5>1. fed[k] + m <= fed[k-1] /\ fed[k-1] <= input /\ k - 1 \in Stages
          BY <1>1, <2>1, <4>2
        <5>2. fed[k-1] \in Nat /\ fed[k] + m \in Nat
          BY <1>4, <5>1
        <5> QED BY <1>4, <1>5, <5>1, <5>2
      <4> QED BY <4>1, <4>2
    <3> QED BY <1>5, <2>1, <3>1
  <2>4. ASSUME NEW j \in Stages \ {0} PROVE fed'[j] <= fed'[j-1]
    <3>1. fed[j] \in Nat /\ fed[j-1] \in Nat /\ j - 1 \in Stages /\ j - 1 # j
      BY <1>4
    <3>2. CASE j = k
      BY <1>1, <1>5, <3>1, <3>2
    <3>3. CASE j - 1 = k
      <4>1. fed'[j] = fed[j] /\ fed'[j-1] = fed[j-1] + m
        BY <1>5, <3>1, <3>3
      <4>2. fed[j] <= fed[j-1]
        BY <2>2
      <4> QED BY <1>4, <3>1, <4>1, <4>2
    <3>4. CASE j # k /\ j - 1 # k
      BY <1>5, <2>2, <3>1, <3>4
    <3> QED BY <3>2, <3>3, <3>4
  <2> QED BY <1>1, <2>3, <2>4 DEF FedInv
<1>9. HeldInv'
  <2>1. \A j \in Stages : Held(j)' = Held(j)
    <3>1. \A j \in Stages : Held(j) = kv[j] - fed[j] /\ Held(j)' = kv'[j] - fed'[j]
      BY <1>1, <1>3 DEF Held
    <3>2. kv'[k] - fed'[k] = kv[k] - fed[k]
      <4>1. kv[k] \in Nat /\ fed[k] \in Nat
        BY <1>4
      <4> QED BY <1>4, <1>5, <4>1
    <3> QED BY <1>5, <3>1, <3>2
  <2>2. Counted' = Counted
    BY <1>1 DEF Counted, turnVars, talkVars
  <2> QED BY <1>1, <2>1, <2>2 DEF ChatInv, HeldInv, talkVars
<1>10. GuardInv' /\ SystemInv' /\ StepInv'
  <2>1. GuardInv'
    BY <1>1 DEF ChatInv, GuardInv, talkVars
  <2>2. SystemInv'
    BY <1>1 DEF ChatInv, SystemInv, talkVars
  <2>3. StepInv'
    BY <1>1, <1>3 DEF ChatInv, StepInv, AllStepsDecoded, turnVars
  <2> QED BY <2>1, <2>2, <2>3
<1> QED BY <1>6, <1>7, <1>8, <1>9, <1>10 DEF ChatInv

\* What a call that returns a token leaves: its whole input, in every cache.
LEMMA CallDone ==
  ASSUME ChatInv, ctl \in {"prefill", "decode"}, Return("ok")
  PROVE  /\ \A k \in Stages : kv[k] = Held(k) + input
         /\ ~running' /\ UNCHANGED <<fed, input>>
<1>1. \A k \in Stages : fed[k] = input /\ kv[k] \in Nat /\ input \in Nat
  BY DEF Return, ChatInv, ChatTypes
<1>2. UNCHANGED <<fed, input>>
  BY DEF Return
<1>3. ~running'
  BY Zenon DEF Return
<1> QED BY <1>1, <1>2, <1>3 DEF Held

\* All caches and the count grow by the same rows.
LEMMA HeldGrows ==
  ASSUME HeldInv, ctl # "exit", ctl' # "exit", cut' = cut, cut \in Nat, NEW r \in Nat,
         Counted \in Nat, Counted' = Counted + r,
         \A k \in Stages : Held(k) \in Int, \A k \in Stages : Held(k)' = Held(k) + r
  PROVE  HeldInv'
<1> USE ChatStageFacts
<1> DEFINE h(k) == Held(k)
           g(k) == Held(k)'
           c == Counted
           d == Counted'
<1>1. \A k \in Stages : h(k) \in Int /\ g(k) = h(k) + r
  OBVIOUS
<1>2. /\ \A k \in Stages : h(k) >= 0
      /\ \A k \in Stages \ {0} : h(k) <= h(k-1)
      /\ cut = 0 => \A k \in Stages : h(k) = h(0)
      /\ c <= h(0) /\ h(0) <= c + cut
  BY DEF HeldInv
<1>3. c \in Nat /\ d = c + r
  OBVIOUS
<1> HIDE DEF h, g, c, d
<1>4. /\ \A k \in Stages : g(k) >= 0
      /\ \A k \in Stages \ {0} : g(k) <= g(k-1)
      /\ cut = 0 => \A k \in Stages : g(k) = g(0)
      /\ d <= g(0) /\ g(0) <= d + cut
  <2>1. \A k \in Stages : g(k) >= 0
    BY <1>1, <1>2
  <2>2. ASSUME NEW k \in Stages \ {0} PROVE g(k) <= g(k-1)
    <3>1. k - 1 \in Stages /\ h(k) <= h(k-1)
      BY <1>2
    <3> QED BY <1>1, <3>1
  <2>3. cut = 0 => \A k \in Stages : g(k) = g(0)
    BY <1>1, <1>2
  <2>4. d <= g(0) /\ g(0) <= d + cut
    BY <1>1, <1>2, <1>3
  <2> QED BY <2>1, <2>2, <2>3, <2>4
<1> QED BY <1>4 DEF HeldInv, g, d

\* The prefill returns a token.
LEMMA InvPrefill ==
  ASSUME ChatInv, NEW token \in Tokens, PrefillReturns(token), UNCHANGED options
  PROVE  ChatInv'
<1> USE ChatStageFacts
<1>1. /\ ctl = "prefill" /\ ctl' = "loop" /\ Return("ok")
      /\ prefill_tokens' = input /\ decode_tokens' = 0 /\ step' = 0
      /\ UNCHANGED <<kv, talkVars>>
      /\ interactive' = interactive /\ ignore_eos' = ignore_eos
  BY DEF PrefillReturns, options
<1>2. /\ \A k \in Stages : kv[k] = Held(k) + input
      /\ ~running' /\ UNCHANGED <<fed, input>>
  BY <1>1, CallDone
<1>3. ChatTypes'
  BY <1>1, <1>2 DEF ChatInv, ChatTypes, Control, talkVars
<1>4. Calling'
  BY <1>1, <1>2 DEF Calling
<1>5. FedInv' /\ GuardInv'
  BY <1>1 DEF FedInv, GuardInv
<1>6. SystemInv'
  BY <1>1 DEF ChatInv, SystemInv, talkVars
<1>7. StepInv'
  BY <1>1 DEF StepInv, AllStepsDecoded
<1>8. HeldInv'
  <2>1. \A k \in Stages : Held(k)' = Held(k) + input
    BY <1>1, <1>2 DEF Held
  <2>2. Counted' = Counted + input /\ Counted \in Nat
    BY <1>1, <1>3 DEF Counted, talkVars, ChatInv, ChatTypes
  <2>3. \A k \in Stages : Held(k) \in Int
    BY <1>1 DEF ChatInv, ChatTypes, Held
  <2>4. cut' = cut /\ input \in Nat /\ cut \in Nat
    BY <1>1 DEF ChatInv, ChatTypes, talkVars
  <2>5. HeldInv
    BY DEF ChatInv
  <2> QED BY <1>1, <2>1, <2>2, <2>3, <2>4, <2>5, HeldGrows
<1> QED BY <1>3, <1>4, <1>5, <1>6, <1>7, <1>8 DEF ChatInv

\* A step of the decode loop begins.
LEMMA InvDecodeStep ==
  ASSUME ChatInv, DecodeStep, UNCHANGED options
  PROVE  ChatInv'
<1> USE ChatStageFacts
<1>1. /\ ctl = "loop" /\ ctl' = "decode" /\ step < MaxNewTokens
      /\ input' = 1 /\ fed' = [k \in Stages |-> 0]
      /\ UNCHANGED <<kv, turnVars, talkVars>>
      /\ interactive' = interactive /\ ignore_eos' = ignore_eos
  BY DEF DecodeStep, CallStart, options
<1>2. running'
  BY Zenon DEF DecodeStep, CallStart
<1>3. ChatTypes'
  BY <1>1 DEF ChatInv, ChatTypes, Control, turnVars, talkVars
<1>4. Calling'
  BY <1>1, <1>2 DEF Calling
<1>5. FedInv' /\ GuardInv'
  BY <1>1 DEF FedInv, GuardInv
<1>6. SystemInv'
  BY <1>1 DEF ChatInv, SystemInv, talkVars
<1>7. StepInv'
  BY <1>1 DEF ChatInv, StepInv, AllStepsDecoded, turnVars
<1>8. HeldInv'
  <2>1. \A k \in Stages : kv[k] \in Nat
    BY DEF ChatInv, ChatTypes
  <2>2. \A k \in Stages : Held(k) = kv[k] /\ Held(k)' = kv[k] - 0
    BY <1>1 DEF Held
  <2>3. \A k \in Stages : Held(k)' = Held(k)
    BY <2>1, <2>2
  <2>4. Counted' = Counted /\ cut' = cut
    BY <1>1 DEF Counted, turnVars, talkVars
  <2> QED BY <1>1, <2>3, <2>4 DEF ChatInv, HeldInv
<1> QED BY <1>3, <1>4, <1>5, <1>6, <1>7, <1>8 DEF ChatInv

\* A decode step fails or samples no token: the turn is broken off, and some of the stages
\* may hold a row that was not counted.
LEMMA InvDecodeBreaks ==
  ASSUME ChatInv, DecodeBreaks, UNCHANGED options
  PROVE  ChatInv'
<1> USE ChatStageFacts
<1>1. /\ ctl = "decode" /\ ctl' = "ended" /\ cut' = cut + 1
      /\ UNCHANGED <<kv, turnVars, context_tokens, first_turn, systems, fed, input>>
      /\ interactive' = interactive /\ ignore_eos' = ignore_eos
  BY DEF DecodeBreaks, Return, options
<1>2. ~running'
  BY Zenon DEF DecodeBreaks, Return
<1>3. cut \in Nat /\ cut' \in Nat /\ cut' > 0 /\ Counted' = Counted /\ Counted \in Nat
  BY <1>1 DEF ChatInv, ChatTypes, Counted, turnVars
<1>4. ChatTypes'
  BY <1>1, <1>3 DEF ChatInv, ChatTypes, Control, turnVars
<1>5. Calling'
  BY <1>1, <1>2 DEF Calling
<1>6. FedInv' /\ GuardInv'
  BY <1>1 DEF FedInv, GuardInv
<1>7. SystemInv'
  BY <1>1 DEF ChatInv, SystemInv
<1>8. StepInv'
  BY <1>1, <1>3 DEF StepInv, AllStepsDecoded
<1>9. HeldInv'
  <2> DEFINE h(k) == Held(k)
             g(k) == Held(k)'
             c == Counted
             d == Counted'
  <2>1. \A k \in Stages : /\ h(k) \in Int /\ fed[k] \in Nat /\ fed[k] <= 1
                          /\ g(k) = h(k) + fed[k]
    BY <1>1 DEF ChatInv, ChatTypes, Calling, FedInv, Held
  <2>2. \A k \in Stages \ {0} : fed[k] <= fed[k-1] /\ h(k) <= h(k-1)
    BY <1>1 DEF ChatInv, FedInv, HeldInv
  <2>3. (\A k \in Stages : h(k) >= 0) /\ c <= h(0) /\ h(0) <= c + cut
    BY <1>1 DEF ChatInv, HeldInv
  <2>4. c \in Nat /\ d = c
    BY <1>3
  <2> HIDE DEF h, g, c, d
  <2>5. \A k \in Stages : g(k) >= 0
    BY <2>1, <2>3
  <2>6. ASSUME NEW k \in Stages \ {0} PROVE g(k) <= g(k-1)
    <3>1. k - 1 \in Stages /\ h(k) <= h(k-1) /\ fed[k] <= fed[k-1]
      BY <2>2
    <3> QED BY <2>1, <3>1
  <2>7. d <= g(0) /\ g(0) <= d + cut'
    BY <1>1, <1>3, <2>1, <2>3, <2>4
  <2> QED BY <1>3, <2>5, <2>6, <2>7 DEF HeldInv, g, d
<1> QED BY <1>4, <1>5, <1>6, <1>7, <1>8, <1>9 DEF ChatInv

\* It returns a token.
LEMMA InvDecodeReturns ==
  ASSUME ChatInv, NEW token \in Tokens, DecodeReturns(token), UNCHANGED options
  PROVE  ChatInv'
<1> USE ChatStageFacts
<1>1. /\ ctl = "decode" /\ Return("ok")
      /\ decode_tokens' = decode_tokens + 1 /\ step' = step + 1
      /\ ctl' \in {"ended", "loop"}
      /\ UNCHANGED <<kv, prefill_tokens, talkVars>>
      /\ interactive' = interactive /\ ignore_eos' = ignore_eos
  BY DEF DecodeReturns, options
<1>2. ctl' = "ended" => ~ignore_eos
  <2>1. ctl' = IF token = "eos" /\ ~ignore_eos THEN "ended" ELSE "loop"
    BY Zenon DEF DecodeReturns
  <2> QED BY <2>1
<1>3. /\ \A k \in Stages : kv[k] = Held(k) + input
      /\ ~running' /\ UNCHANGED <<fed, input>>
  BY <1>1, CallDone
<1>4. ChatTypes'
  BY <1>1, <1>3 DEF ChatInv, ChatTypes, Control, talkVars
<1>5. Calling'
  BY <1>1, <1>3 DEF Calling
<1>6. FedInv' /\ GuardInv'
  BY <1>1 DEF FedInv, GuardInv
<1>7. SystemInv'
  BY <1>1 DEF ChatInv, SystemInv, talkVars
<1>8. StepInv'
  <2>1. /\ decode_tokens = step /\ step < MaxNewTokens /\ step \in Nat
        /\ MaxNewTokens \in Nat
    BY <1>1 DEF ChatInv, ChatTypes, StepInv
  <2>2. decode_tokens' = step' /\ step' <= MaxNewTokens
    BY <1>1, <2>1
  <2>3. AllStepsDecoded'
    BY <1>1, <1>2, Zenon DEF AllStepsDecoded
  <2>4. ctl' # "decode"
    BY <1>1
  <2> QED BY <2>2, <2>3, <2>4 DEF StepInv
<1>9. HeldInv'
  <2>1. input = 1
    BY <1>1 DEF ChatInv, Calling
  <2>2. \A k \in Stages : Held(k)' = Held(k) + 1
    BY <1>1, <1>3, <2>1 DEF Held
  <2>3. Counted \in Nat /\ Counted' = Counted + 1
    BY <1>1 DEF ChatInv, ChatTypes, Counted, talkVars
  <2>4. \A k \in Stages : Held(k) \in Int
    BY <1>1 DEF ChatInv, ChatTypes, Held
  <2>5. cut' = cut /\ cut \in Nat /\ HeldInv /\ ctl # "exit" /\ ctl' # "exit"
    BY <1>1 DEF ChatInv, ChatTypes, talkVars
  <2> QED BY <2>2, <2>3, <2>4, <2>5, HeldGrows
<1> QED BY <1>4, <1>5, <1>6, <1>7, <1>8, <1>9 DEF ChatInv

\* The decode loop and the turn end: what main counts is what was counted on the way.
LEMMA InvEnds ==
  ASSUME ChatInv, LoopEnds \/ TurnEnds, UNCHANGED options
  PROVE  ChatInv'
<1> USE ChatStageFacts
<1>1. /\ \/ ctl = "loop" /\ ctl' = "ended" /\ step = MaxNewTokens
            /\ context_tokens' = context_tokens
         \/ ctl = "ended" /\ ctl' = "read"
            /\ context_tokens' = context_tokens + prefill_tokens + decode_tokens
      /\ UNCHANGED <<fed, input, kv, turnVars, systems, cut>>
      /\ ignore_eos' = ignore_eos
  BY DEF LoopEnds, TurnEnds, seenVars, talkVars, options
<1>2. /\ running' = running /\ first_turn' = first_turn /\ interactive' = interactive
      /\ ctl' = "read" => interactive
  <2>1. running' = running /\ first_turn' = first_turn /\ interactive' = interactive
    BY DEF LoopEnds, TurnEnds, seenVars, talkVars, options
  <2>2. CASE TurnEnds
    BY <2>1, <2>2, Zenon DEF TurnEnds
  <2>3. CASE LoopEnds
    <3>1. ctl' = "ended"
      BY <2>3 DEF LoopEnds
    <3> QED BY <2>1, <3>1
  <2> QED BY <2>2, <2>3
<1>3. ChatTypes'
  BY <1>1 DEF ChatInv, ChatTypes, Control, turnVars
<1>4. Calling'
  BY <1>1, <1>2 DEF ChatInv, Calling
<1>5. FedInv'
  BY <1>1 DEF FedInv
<1>6. GuardInv'
  <2>1. ctl' # "prefill"
    BY <1>1
  <2> QED BY <1>2, <2>1 DEF GuardInv
<1>7. SystemInv'
  BY <1>1, <1>2 DEF ChatInv, SystemInv
<1>8. StepInv'
  BY <1>1 DEF ChatInv, StepInv, AllStepsDecoded, turnVars
<1>9. HeldInv'
  <2>1. \A k \in Stages : Held(k)' = Held(k)
    BY <1>1 DEF Held
  <2>2. Counted' = Counted /\ cut' = cut /\ ctl # "exit"
    BY <1>1 DEF Counted, turnVars
  <2> QED BY <2>1, <2>2 DEF ChatInv, HeldInv
<1> QED BY <1>3, <1>4, <1>5, <1>6, <1>7, <1>8, <1>9 DEF ChatInv

\* Every step preserves the invariant.
LEMMA ChatInvNext == ChatInv /\ [ChatNext]_chatVars => ChatInv'
<1> SUFFICES ASSUME ChatInv, [ChatNext]_chatVars PROVE ChatInv'
  OBVIOUS
<1>1. CASE ChatStep /\ UNCHANGED options
  BY <1>1, InvRead, InvLeave, InvWork, InvPrefill, InvDecodeStep, InvDecodeBreaks,
     InvDecodeReturns, InvEnds DEF ChatStep
<1>2. CASE UNCHANGED chatVars
  <2>1. UNCHANGED <<seenVars, ctl, kv, turnVars, talkVars, options>>
    BY <1>2 DEF chatVars
  <2>2. ChatTypes' /\ FedInv' /\ Counted' = Counted /\ \A k \in Stages : Held(k)' = Held(k)
    BY <2>1 DEF seenVars, turnVars, talkVars, ChatInv, ChatTypes, FedInv, Counted, Held
  <2>3. HeldInv'
    BY <2>1, <2>2, ChatStageFacts DEF talkVars, ChatInv, HeldInv
  <2>4. Calling' /\ GuardInv' /\ SystemInv' /\ StepInv'
    BY <2>1 DEF seenVars, turnVars, talkVars, options, ChatInv, Calling, GuardInv, SystemInv,
                StepInv, AllStepsDecoded
  <2> QED BY <2>2, <2>3, <2>4 DEF ChatInv
<1> QED BY <1>1, <1>2 DEF ChatNext, Finished

\* The invariant holds in every state.
LEMMA ChatInvariance == ChatSpec => []ChatInv
BY ChatInvInit, ChatInvNext, PTL DEF ChatSpec

-----------------------------------------------------------------------------

\* What main counts is never more than what stage 0 holds, and less only by a token for
\* every turn that broke off: the caches can be cleared too late, never too early.
THEOREM CountNeverAhead == ChatSpec => []ContextTokensLag
<1>1. ChatInv => ContextTokensLag
  <2> SUFFICES ASSUME ChatInv, ctl = "read"
               PROVE  context_tokens <= kv[0] /\ kv[0] <= context_tokens + cut
    BY DEF ContextTokensLag, Prompting
  <2>1. Counted = context_tokens /\ Held(0) = kv[0]
    BY DEF Counted, Held
  <2> QED BY <2>1 DEF ChatInv, HeldInv
<1> QED BY <1>1, ChatInvariance, PTL

\* The caches of the cards never run ahead of one another, and hold the same rows between
\* two turns unless a turn broke off.
THEOREM CachesAgree == ChatSpec => []CachesInStep
<1>1. ChatInv => CachesInStep
  <2> SUFFICES ASSUME ChatInv PROVE CachesInStep
    OBVIOUS
  <2>1. ASSUME NEW k \in Stages \ {0} PROVE kv[k] <= kv[k-1]
    <3>1. /\ k - 1 \in Stages /\ kv[k] \in Nat /\ kv[k-1] \in Nat
          /\ fed[k] \in Nat /\ fed[k-1] \in Nat /\ Held(k) <= Held(k-1)
      BY ChatStageFacts DEF ChatInv, ChatTypes, HeldInv
    <3>2. CASE ctl \in {"prefill", "decode"}
      <4>1. fed[k] <= fed[k-1]
        BY <3>2 DEF ChatInv, FedInv
      <4>2. Held(k) = kv[k] - fed[k] /\ Held(k-1) = kv[k-1] - fed[k-1]
        BY <3>2 DEF Held
      <4> QED BY <3>1, <4>1, <4>2
    <3>3. CASE ~(ctl \in {"prefill", "decode"})
      BY <3>1, <3>3 DEF Held
    <3> QED BY <3>2, <3>3
  <2>2. ctl = "read" /\ cut = 0 => \A k \in Stages : kv[k] = kv[0]
    BY DEF ChatInv, HeldInv, Held
  <2> QED BY <2>1, <2>2 DEF CachesInStep, Prompting
<1> QED BY <1>1, ChatInvariance, PTL

\* While a call of the interactive loop is under way, the caches hold or are given one system
\* prompt, however often they were cleared; the one-shot mode has none.
THEOREM SystemPromptOnce == ChatSpec => []OneSystemPrompt
<1>1. ChatInv => OneSystemPrompt
  BY DEF ChatInv, Calling, SystemInv, OneSystemPrompt
<1> QED BY <1>1, ChatInvariance, PTL

\* A prompt within the reserve never overflows the context of a stage, unless an earlier turn
\* broke off; the reserve itself must fit in the context.
THEOREM ReserveIsEnough == ASSUME ReserveFits PROVE ChatSpec => []PrefillFits
<1>1. ChatInv => PrefillFits
  <2> SUFFICES ASSUME ChatInv, ctl = "prefill", input <= Reserve, cut = 0, NEW k \in Stages
               PROVE  kv[k] <= Limit
    BY DEF PrefillFits
  <2>1. /\ kv[k] \in Nat /\ fed[k] \in Nat /\ fed[k] <= input /\ input \in Nat
        /\ context_tokens \in Nat /\ Reserve \in Nat /\ Limit \in Nat
    BY ChatAssumption DEF ChatInv, ChatTypes, FedInv
  <2>2. Held(k) = kv[k] - fed[k] /\ Counted = context_tokens
    BY DEF Held, Counted
  <2>3. Held(k) = Held(0) /\ Held(0) <= Counted + 0
    BY DEF ChatInv, HeldInv
  <2>4. context_tokens = 0 \/ context_tokens + Reserve < Limit
    BY DEF ChatInv, GuardInv
  <2>5. kv[k] - fed[k] <= context_tokens
    BY <2>1, <2>2, <2>3
  <2>6. Reserve <= Limit
    BY DEF ReserveFits
  <2> QED BY <2>1, <2>4, <2>5, <2>6
<1> QED BY <1>1, ChatInvariance, PTL

\* Told to ignore end of sequence, the loop makes all its steps: none is skipped or counted
\* twice, whatever the model samples.
THEOREM NoStepSkipped == ChatSpec => []AllStepsDecoded
<1>1. ChatInv => AllStepsDecoded
  BY DEF ChatInv, StepInv
<1> QED BY <1>1, ChatInvariance, PTL
=============================================================================

---------------------------- MODULE TtsDemoProofs ----------------------------
(***************************************************************************)
(* Proofs about TtsDemo, for every window size and any number of tokens.   *)
(* The callback appends to pending while the decoder thread takes windows  *)
(* of changing size from it: no frame is lost, repeated or overtaken, each *)
(* window comes with the frames just left of it, and main returns 0 only   *)
(* when all of them can be heard.  Last, the condition variables: nobody   *)
(* sleeps while there is something to do.                                  *)
(***************************************************************************)
EXTENDS TtsDemo, SequenceTheorems, TLAPS

FramesOK ==
  /\ pushed \in Nat
  /\ pending \in Seq(Nat) /\ window.new \in Seq(Nat) /\ audio \in Seq(Nat)
  /\ decoder = "wait" => window.new = <<>>

Inv == FramesOK /\ FramesOnceInOrder

\* A run that was started is off no more, and what main and the decoder wait for has
\* ended for good.
RunInv ==
  /\ talker \in {"off", "sample", "embed", "text", "closing", "ended"}
  /\ talker = "off" <=> main \in {"init", "process", "abort"}
  /\ talker_done => talker = "ended"
  /\ stop_requested => main \in {"join", "exit"}
  /\ main \in {"request", "join", "exit"} => talker = "ended"
  /\ main = "exit" => decoder = "done"

\* Unless RKLLM_RUN_WAITING was reported, a run under way is known to be, and the
\* embeddings are freed after it.
AliveInv ==
  /\ ~waited /\ talker \in {"sample", "embed", "text"} => is_generating = TRUE
  /\ released => main \in {"destroy", "request", "join", "exit"}
  /\ ~waited /\ main \in {"free", "destroy", "request", "join", "exit"} =>
       talker \in {"closing", "ended"}

\* A decoder thread that has ended without a failure has decoded everything.
EndInv == decoder = "done" /\ ~failed => talker = "ended" /\ audio = UpTo(pushed)

\* The entries fed are those of the steps that are over.
TextInv ==
  /\ steps \in Nat /\ text \in Seq(Nat) /\ TextInOrder
  /\ talker \in {"off", "sample"} =>
       Len(text) = IF steps < TrailLen THEN steps ELSE TrailLen - 1
  /\ talker \in {"embed", "text"} =>
       steps >= 1 /\ Len(text) = IF steps <= TrailLen THEN steps - 1 ELSE TrailLen - 1

\* The saved context is what is left of the next window; a stream too short for one is
\* over.
ContextInv ==
  /\ prev_context \in Seq(Nat)
  /\ decoder \in {"wait", "decode", "done"}
  /\ decoder = "wait" =>
       /\ prev_context = ContextOf(audio)
       /\ audio = <<>> \/ Len(audio) >= LeftContext \/ (talker = "ended" /\ pending = <<>>)
  /\ decoder = "decode" =>
       /\ prev_context = ContextOf(audio \o window.new)
       /\ Len(audio \o window.new) >= LeftContext \/ (talker = "ended" /\ pending = <<>>)
  /\ ContextIsLeft

\* Who sleeps has nothing to do yet, and a decoder thread that has ended told main so, or
\* was told by main.
SleepInv ==
  /\ main_asleep => main = "wait" /\ ~finished
  /\ decoder_asleep => decoder = "wait" /\ ~DecoderReady
  /\ decoder = "done" => finished \/ stop_requested
  /\ main = "join" => stop_requested

\* Once the end of the talker was noticed, a main that sleeps or joins waits for a decoder
\* thread that goes on.
DecoderGoesOn ==
  (main_asleep /\ talker_done) \/ (main = "join" /\ decoder # "done") =>
    decoder # "done" /\ ~decoder_asleep

-----------------------------------------------------------------------------

\* UpTo(n) is a sequence, and one more frame makes it UpTo(n+1).
LEMMA UpToSeq ==
  ASSUME NEW n \in Nat
  PROVE  /\ UpTo(n) \in Seq(Nat) /\ Len(UpTo(n)) = n
         /\ \A i \in 1 .. n : UpTo(n)[i] = i
BY SMT DEF UpTo

LEMMA UpToNext ==
  ASSUME NEW n \in Nat
  PROVE  Append(UpTo(n), n + 1) = UpTo(n + 1)
BY UpToSeq, n + 1 \in Nat, SMT DEF UpTo

\* ConcatAssociative, for sequences of frames.
LEMMA Assoc ==
  ASSUME NEW a \in Seq(Nat), NEW b \in Seq(Nat), NEW c \in Seq(Nat)
  PROVE  (a \o b) \o c = a \o (b \o c)
BY ConcatAssociative

\* Appending to the last of three pieces appends to their concatenation.
LEMMA AppendLast ==
  ASSUME NEW a \in Seq(Nat), NEW w \in Seq(Nat), NEW p \in Seq(Nat), NEW x \in Nat
  PROVE  a \o w \o Append(p, x) = Append(a \o w \o p, x)
<1>1. a \o w \in Seq(Nat) /\ a \o w \o p \in Seq(Nat) /\ <<x>> \in Seq(Nat)
  OBVIOUS
<1>2. Append(p, x) = p \o <<x>>
  OBVIOUS
<1>3. Append(a \o w \o p, x) = (a \o w \o p) \o <<x>>
  BY <1>1
<1>4. (a \o w) \o (p \o <<x>>) = ((a \o w) \o p) \o <<x>>
  BY <1>1, Assoc
<1> QED BY <1>2, <1>3, <1>4

\* A sequence is what was taken from its front and what is left.
LEMMA Split ==
  ASSUME NEW p \in Seq(Nat), NEW k \in 0 .. Len(p)
  PROVE  /\ SubSeq(p, 1, k) \in Seq(Nat) /\ SubSeq(p, k + 1, Len(p)) \in Seq(Nat)
         /\ SubSeq(p, 1, k) \o SubSeq(p, k + 1, Len(p)) = p
<1> DEFINE f == SubSeq(p, 1, k)
           b == SubSeq(p, k + 1, Len(p))
<1>1. Len(p) \in Nat /\ k \in Nat /\ k <= Len(p)
  BY LenProperties
<1>2. \A i \in 1 .. Len(p) : p[i] \in Nat
  BY ElementOfSeq
<1>3. /\ f \in Seq(Nat) /\ Len(f) = k
      /\ \A i \in 1 .. k : f[i] = p[i]
  BY <1>1, <1>2, SubSeqProperties
<1>4. /\ b \in Seq(Nat) /\ Len(b) = Len(p) - k
      /\ \A i \in 1 .. Len(p) - k : b[i] = p[k + i]
  BY <1>1, <1>2, SubSeqProperties
<1> HIDE DEF f, b
<1>5. f \o b \in Seq(Nat) /\ Len(f \o b) = Len(p)
      /\ \A i \in 1 .. Len(p) : (f \o b)[i] = p[i]
  <2>1. f \o b \in Seq(Nat) /\ Len(f \o b) = Len(f) + Len(b)
        /\ \A i \in 1 .. Len(f) + Len(b) :
             (f \o b)[i] = IF i <= Len(f) THEN f[i] ELSE b[i - Len(f)]
    BY <1>3, <1>4, ConcatProperties
  <2>2. ASSUME NEW i \in 1 .. Len(p) PROVE (f \o b)[i] = p[i]
    <3>1. (f \o b)[i] = IF i <= k THEN f[i] ELSE b[i - k]
      BY <1>1, <1>3, <1>4, <2>1
    <3>2. CASE i <= k
      BY <1>1, <1>3, <3>1, <3>2
    <3>3. CASE i > k
      <4>1. i - k \in 1 .. Len(p) - k /\ k + (i - k) = i
        BY <1>1, <3>3
      <4>2. b[i - k] = p[i]
        BY <1>4, <4>1
      <4> QED BY <1>1, <3>1, <3>3, <4>2
    <3>4. i <= k \/ i > k
      BY <1>1
    <3> QED BY <3>2, <3>3, <3>4
  <2>3. Len(f \o b) = Len(p)
    BY <1>1, <1>3, <1>4, <2>1
  <2> QED BY <2>1, <2>2, <2>3
<1>6. f \o b = p
  BY <1>5, SeqEqual
<1> QED BY <1>3, <1>4, <1>6 DEF f, b

-----------------------------------------------------------------------------

\* The initial state satisfies the invariant.
LEMMA InvInit == Init => Inv
<1> SUFFICES ASSUME Init PROVE Inv
  OBVIOUS
<1>1. UpTo(0) = <<>>
  BY UpToSeq, EmptySeq, SeqEqual
<1>2. <<>> \o <<>> \o <<>> = <<>>
  BY EmptySeq, ConcatEmptySeq
<1> QED BY <1>1, <1>2, EmptySeq DEF Init, Inv, FramesOK, FramesOnceInOrder, NoWindow

\* The talker's run: only Push makes a frame.
LEMMA InvTalker == ASSUME Inv, TalkerStep PROVE Inv'
<1>1. CASE Push
  <2>1. /\ pushed' = pushed + 1 /\ pending' = Append(pending, pushed + 1)
        /\ UNCHANGED <<window, audio, decoder>>
    BY <1>1 DEF Push
  <2>2. FramesOK'
    BY <2>1 DEF Inv, FramesOK
  <2>3. FramesOnceInOrder'
    <3> SUFFICES ASSUME decoder # "done"
                 PROVE  audio \o window.new \o Append(pending, pushed + 1) = UpTo(pushed + 1)
      BY <2>1 DEF FramesOnceInOrder
    <3>1. pushed \in Nat /\ pushed + 1 \in Nat
          /\ audio \in Seq(Nat) /\ window.new \in Seq(Nat) /\ pending \in Seq(Nat)
      BY DEF Inv, FramesOK
    <3>2. audio \o window.new \o pending = UpTo(pushed)
      BY DEF Inv, FramesOnceInOrder
    <3>3. audio \o window.new \o Append(pending, pushed + 1)
            = Append(audio \o window.new \o pending, pushed + 1)
      BY <3>1, AppendLast
    <3> QED BY <3>1, <3>2, <3>3, UpToNext
  <2> QED BY <2>2, <2>3 DEF Inv
<1>2. CASE TalkerStep /\ ~Push
  <2>1. UNCHANGED <<pushed, pending, window, audio, decoder>>
    BY <1>2 DEF TalkerStep, Token, PushBad, FeedText, ReportWaiting, ReportEnd, CloseStream,
                ReportAbort, queueVars, runVars
  <2> QED BY <2>1 DEF Inv, FramesOK, FramesOnceInOrder
<1> QED BY <1>1, <1>2

\* The decoder thread takes a window.
LEMMA InvTake == ASSUME Inv, TakeWindow PROVE Inv'
<1> DEFINE take == IF Len(pending) >= NeedNew THEN NeedNew ELSE Len(pending)
           new  == SubSeq(pending, 1, take)
           left == SubSeq(pending, take + 1, Len(pending))
<1>1. /\ window'.new = new /\ pending' = left /\ decoder' = "decode" /\ decoder = "wait"
      /\ UNCHANGED <<audio, pushed>>
  BY DEF TakeWindow, talkerVars, runVars
<1>2. take \in 0 .. Len(pending)
  <2>1. NeedNew \in Nat
    BY SizeAssumption DEF NeedNew, Window
  <2>2. Len(pending) \in Nat
    BY LenProperties DEF Inv, FramesOK
  <2> QED BY <2>1, <2>2
<1> HIDE DEF take
<1>3. new \in Seq(Nat) /\ left \in Seq(Nat) /\ new \o left = pending
  BY <1>2, Split DEF Inv, FramesOK
<1> HIDE DEF new, left
<1>4. FramesOK'
  BY <1>1, <1>3 DEF Inv, FramesOK
<1>5. audio \o new \o left = UpTo(pushed)
  <2>1. window.new = <<>> /\ audio \in Seq(Nat) /\ audio \o window.new \o pending = UpTo(pushed)
    BY <1>1 DEF Inv, FramesOK, FramesOnceInOrder
  <2>2. audio \o pending = UpTo(pushed)
    BY <2>1, ConcatEmptySeq
  <2>3. (audio \o new) \o left = audio \o (new \o left)
    <3>1. audio \in Seq(Nat) /\ new \in Seq(Nat) /\ left \in Seq(Nat)
      BY <1>3, <2>1
    <3> QED BY <3>1, Assoc
  <2> QED BY <1>3, <2>2, <2>3
<1> QED BY <1>1, <1>4, <1>5 DEF Inv, FramesOnceInOrder

\* Its other steps.
LEMMA InvDecoder == ASSUME Inv, DecoderStep PROVE Inv'
<1>1. CASE DecoderSleep
  BY <1>1 DEF DecoderSleep, Inv, FramesOK, FramesOnceInOrder, queueVars, talkerVars, runVars
<1>2. CASE TakeWindow
  BY <1>2, InvTake
<1>3. CASE Decoded
  <2>1. /\ audio' = audio \o window.new /\ window'.new = <<>> /\ decoder = "decode"
        /\ UNCHANGED <<pending, pushed>>
    BY <1>3 DEF Decoded, NoWindow, talkerVars, runVars
  <2>2. audio \o window.new \in Seq(Nat) /\ <<>> \in Seq(Nat)
    BY ConcatProperties, EmptySeq DEF Inv, FramesOK
  <2>3. FramesOK'
    BY <2>1, <2>2 DEF Inv, FramesOK
  <2>4. audio' \o window'.new \o pending' = audio \o window.new \o pending
    BY <2>1, <2>2, ConcatEmptySeq
  <2> QED BY <2>1, <2>3, <2>4 DEF Inv, FramesOnceInOrder
<1>4. CASE DecoderEnd \/ DecodeFails
  <2>1. /\ decoder' = "done" /\ UNCHANGED <<pending, audio, pushed>>
        /\ window'.new \in {window.new, <<>>}
    BY <1>4 DEF DecoderEnd, DecodeFails, NoWindow, talkerVars, runVars
  <2> QED BY <2>1, EmptySeq DEF Inv, FramesOK, FramesOnceInOrder
<1> QED BY <1>1, <1>2, <1>3, <1>4 DEF DecoderStep

\* Every step preserves the invariant; main touches no frame.
LEMMA InvNext == Inv /\ [Next]_vars => Inv'
<1> SUFFICES ASSUME Inv, [Next]_vars PROVE Inv'
  OBVIOUS
<1>1. CASE MainStep
  <2>1. UNCHANGED <<pushed, pending, window, audio, decoder>>
    BY <1>1 DEF MainStep, InitTalker, StartTalker, GiveUp, MainSleep, MainFinished,
                ReleaseTalker, TalkerStopped, FreeBuffers, DestroySession, RequestStop,
                JoinDecoder, queueVars, talkerVars, runVars
  <2> QED BY <2>1 DEF Inv, FramesOK, FramesOnceInOrder
<1>2. CASE UNCHANGED vars
  BY <1>2 DEF vars, queueVars, talkerVars, runVars, Inv, FramesOK, FramesOnceInOrder
<1> QED BY <1>1, <1>2, InvTalker, InvDecoder DEF Next

\* While the decoder thread lives, the audio, the window being decoded and the pending
\* codes are the frames talker_callback was given, each once and in their order.
THEOREM EveryFrameOnceInOrder == Spec => []FramesOnceInOrder
<1>1. Inv => FramesOnceInOrder
  BY DEF Inv
<1> QED BY <1>1, InvInit, InvNext, PTL DEF Spec

-----------------------------------------------------------------------------

\* The initial state.
LEMMA RunInit == Init => RunInv /\ AliveInv
BY DEF Init, RunInv, AliveInv

\* Every step keeps the threads where they may be.
LEMMA RunStep ==
  ASSUME RunInv, AliveInv, [Next]_vars
  PROVE  RunInv' /\ AliveInv'
<1> USE DEF RunInv, AliveInv
<1>1. CASE ~Returned /\ TalkerStep
  <2>1. UNCHANGED <<main, released, stop_requested, decoder>>
    BY <1>1 DEF TalkerStep, Token, Push, PushBad, FeedText, ReportWaiting, ReportEnd, CloseStream,
                ReportAbort, flagVars, mainVars
  <2>2. talker # "off" /\ talker # "ended"
    BY <1>1 DEF TalkerStep, Token, Push, PushBad, FeedText, ReportWaiting, ReportEnd, CloseStream,
                ReportAbort
  <2>3. CASE Token \/ Push \/ PushBad \/ FeedText
    <3>1. /\ talker \in {"sample", "embed", "text"} /\ talker' \in {"sample", "embed", "text"}
          /\ UNCHANGED <<is_generating, waited, talker_done>>
      BY <2>3 DEF Token, Push, PushBad, FeedText, flagVars, runVars
    <3> QED BY <2>1, <2>2, <3>1
  <2>4. CASE ReportWaiting
    <3>1. talker' = talker /\ talker = "sample" /\ waited' = TRUE /\ talker_done' = talker_done
      BY <2>4 DEF ReportWaiting, flagVars
    <3> QED BY <2>1, <2>2, <3>1
  <2>5. CASE ReportEnd \/ CloseStream \/ ReportAbort
    <3>1. /\ talker' \in {"closing", "ended"} /\ waited' = waited
          /\ talker_done' # talker_done => talker' = "ended"
      BY <2>5 DEF ReportEnd, CloseStream, ReportAbort, flagVars, runVars
    <3> QED BY <2>1, <2>2, <3>1
  <2> QED BY <1>1, <2>3, <2>4, <2>5 DEF TalkerStep
<1>2. CASE ~Returned /\ DecoderStep
  <2>1. UNCHANGED <<main, released, talker, is_generating, waited, stop_requested, talker_done>>
    BY <1>2 DEF DecoderStep, DecoderSleep, DecoderEnd, TakeWindow, Decoded, DecodeFails, flagVars,
                talkerVars, runVars, mainVars
  <2>2. main # "exit"
    BY <1>2 DEF Returned
  <2> QED BY <2>1, <2>2
<1>3. CASE ~Returned /\ MainStep
  <2>1. UNCHANGED <<talker_done, waited, decoder>>
    BY <1>3 DEF MainStep, InitTalker, StartTalker, GiveUp, MainSleep, MainFinished,
                ReleaseTalker, TalkerStopped, FreeBuffers, DestroySession, RequestStop,
                JoinDecoder, flagVars, talkerVars, runVars
  <2>2. CASE InitTalker \/ GiveUp
    <3>1. /\ main \in {"init", "process"} /\ main' \in {"process", "abort"}
          /\ UNCHANGED <<released, talker, is_generating, stop_requested>>
      BY <2>2 DEF InitTalker, GiveUp, flagVars, talkerVars
    <3> QED BY <2>1, <3>1
  <2>3. CASE StartTalker
    <3>1. /\ main = "process" /\ main' = "wait" /\ talker' = "sample" /\ is_generating' = TRUE
          /\ UNCHANGED <<released, stop_requested>>
      BY <2>3 DEF StartTalker, flagVars
    <3>2. ~talker_done
      BY <3>1
    <3> QED BY <2>1, <3>1, <3>2
  <2>4. CASE MainSleep \/ MainFinished
    <3>1. /\ main = "wait" /\ main' \in {"wait", "release"}
          /\ UNCHANGED <<released, talker, is_generating, stop_requested>>
      BY <2>4 DEF MainSleep, MainFinished, flagVars, talkerVars, mainVars
    <3> QED BY <2>1, <3>1
  <2>5. CASE ReleaseTalker
    <3>1. /\ main = "release" /\ main' = (IF is_generating THEN "stop" ELSE "free")
          /\ UNCHANGED <<released, talker, is_generating, stop_requested>>
      BY <2>5 DEF ReleaseTalker, flagVars, talkerVars
    <3> QED BY <2>1, <3>1
  <2>6. CASE TalkerStopped
    <3>1. /\ main = "stop" /\ main' = "free" /\ talker = "ended"
          /\ UNCHANGED <<released, talker, stop_requested>>
      BY <2>6 DEF TalkerStopped, flagVars
    <3> QED BY <2>1, <3>1
  <2>7. CASE FreeBuffers \/ DestroySession \/ RequestStop \/ JoinDecoder
    <3>1. /\ main \in {"free", "destroy", "request", "join"}
          /\ main' \in {"destroy", "request", "join", "exit"}
          /\ main' \in {"request", "join", "exit"} =>
               main \in {"request", "join"} \/ talker = "ended"
          /\ main' = "exit" => decoder = "done"
          /\ stop_requested' # stop_requested => main' = "join"
          /\ stop_requested => main' \in {"join", "exit"}
          /\ UNCHANGED <<talker, is_generating>>
      BY <2>7 DEF FreeBuffers, DestroySession, RequestStop, JoinDecoder, flagVars, talkerVars
    <3> QED BY <2>1, <3>1
  <2> QED BY <1>3, <2>2, <2>3, <2>4, <2>5, <2>6, <2>7 DEF MainStep
<1>4. CASE UNCHANGED vars
  BY <1>4 DEF vars, flagVars, talkerVars, runVars, mainVars
<1> QED BY <1>1, <1>2, <1>3, <1>4 DEF Next

\* A callback of the talker never touches the embeddings after Release freed them, unless
\* RKLLM_RUN_WAITING had cleared talker_is_generating under a run that went on.
THEOREM CallbacksOutlived == Spec => []CallbacksAlive
<1>1. RunInv /\ AliveInv => CallbacksAlive
  BY DEF RunInv, AliveInv, CallbacksAlive
<1>2. RunInv /\ AliveInv /\ [Next]_vars => RunInv' /\ AliveInv'
  BY RunStep
<1> QED BY <1>1, <1>2, RunInit, PTL DEF Spec

-----------------------------------------------------------------------------

LEMMA EndInit == Init => EndInv
BY DEF Init, EndInv

\* The decoder thread ends with everything decoded, and nothing comes after that.
LEMMA EndStep ==
  ASSUME Inv, RunInv, EndInv, [Next]_vars
  PROVE  EndInv'
<1>1. CASE DecoderEnd
  <2>1. /\ decoder = "wait" /\ DecoderReady /\ pending = <<>>
        /\ UNCHANGED <<talker, audio, pushed>>
    BY <1>1 DEF DecoderEnd, talkerVars, runVars
  <2>2. talker = "ended"
    <3>1. ~(Len(pending) >= NeedNew)
      <4>1. Len(pending) = 0
        BY <2>1, EmptySeq
      <4>2. NeedNew \in Nat /\ NeedNew > 0
        BY SizeAssumption DEF NeedNew, Window
      <4> QED BY <4>1, <4>2
    <3>2. stop_requested \/ talker_done
      BY <2>1, <3>1 DEF DecoderReady
    <3> QED BY <3>2 DEF RunInv
  <2>3. audio = UpTo(pushed)
    <3>1. audio \o <<>> \o <<>> = UpTo(pushed) /\ audio \in Seq(Nat)
      BY <2>1 DEF Inv, FramesOK, FramesOnceInOrder
    <3> QED BY <3>1, ConcatEmptySeq
  <2> QED BY <2>1, <2>2, <2>3 DEF EndInv
<1>2. CASE DecoderSleep \/ TakeWindow \/ Decoded
  <2>1. decoder' # "done"
    BY <1>2 DEF DecoderSleep, TakeWindow, Decoded
  <2> QED BY <2>1 DEF EndInv
<1>3. CASE DecodeFails
  BY <1>3 DEF DecodeFails, EndInv
<1>4. CASE TalkerStep
  <2>1. talker # "ended" /\ decoder' = decoder /\ (failed' = failed \/ failed' = TRUE)
    BY <1>4 DEF TalkerStep, Token, Push, PushBad, FeedText, ReportWaiting, ReportEnd, CloseStream,
                ReportAbort, flagVars
  <2> QED BY <2>1 DEF EndInv
<1>5. CASE MainStep
  <2>1. UNCHANGED <<decoder, failed, audio, pushed>> /\ (talker = "ended" => talker' = "ended")
    BY <1>5 DEF MainStep, InitTalker, StartTalker, GiveUp, MainSleep, MainFinished,
                ReleaseTalker, TalkerStopped, FreeBuffers, DestroySession, RequestStop,
                JoinDecoder, flagVars, queueVars, talkerVars, runVars, RunInv
  <2> QED BY <2>1 DEF EndInv
<1>6. CASE UNCHANGED vars
  BY <1>6 DEF vars, flagVars, queueVars, talkerVars, runVars, EndInv
<1> QED BY <1>1, <1>2, <1>3, <1>4, <1>5, <1>6 DEF Next, DecoderStep

\* main returns 0 only if the talker has ended and every frame it produced can be heard:
\* the decoder thread drained pending after the last callback, whoever told it to end.
THEOREM NothingIsCutOff == Spec => []SuccessIsWhole
<1>1. RunInv /\ EndInv => SuccessIsWhole
  BY DEF RunInv, EndInv, SuccessIsWhole
<1>2. RunInv /\ AliveInv /\ [Next]_vars => RunInv' /\ AliveInv'
  BY RunStep
<1>3. Inv /\ RunInv /\ EndInv /\ [Next]_vars => EndInv'
  BY EndStep
<1> QED BY <1>1, <1>2, <1>3, RunInit, EndInit, InvInit, InvNext, PTL DEF Spec

-----------------------------------------------------------------------------

LEMMA TextInit == Init => TextInv
<1> SUFFICES ASSUME Init PROVE TextInv
  OBVIOUS
<1>1. Len(text) = 0 /\ text \in Seq(Nat) /\ text = UpTo(0)
  BY UpToSeq, EmptySeq, SeqEqual DEF Init
<1> QED BY <1>1, SizeAssumption DEF Init, TextInv, TextInOrder

\* FeedText feeds the entry after the last one, or none.
LEMMA TextStep ==
  ASSUME TextInv, RunInv, [Next]_vars
  PROVE  TextInv'
<1> USE SizeAssumption
<1>1. CASE FeedText
  <2> DEFINE n == Len(text)
  <2>1. /\ talker = "text" /\ talker' = "sample" /\ steps' = steps
        /\ text' = IF steps < TrailLen THEN Append(text, steps) ELSE text
    BY <1>1 DEF FeedText
  <2>2. /\ steps \in Nat /\ text \in Seq(Nat) /\ text = UpTo(n) /\ n \in Nat
        /\ steps >= 1 /\ n = IF steps <= TrailLen THEN steps - 1 ELSE TrailLen - 1
    BY <2>1, LenProperties DEF TextInv, TextInOrder
  <2> HIDE DEF n
  <2>3. CASE steps < TrailLen
    <3>1. steps = n + 1 /\ n + 1 \in Nat
      BY <2>2, <2>3
    <3>2. text' = UpTo(n + 1)
      BY <2>1, <2>2, <2>3, <3>1, UpToNext
    <3>3. text' \in Seq(Nat) /\ Len(text') = steps
      BY <3>1, <3>2, UpToSeq
    <3>4. TextInOrder'
      BY <3>1, <3>2, <3>3 DEF TextInOrder
    <3> QED BY <2>1, <2>2, <2>3, <3>3, <3>4 DEF TextInv
  <2>4. CASE ~(steps < TrailLen)
    <3>1. text' = text /\ n = TrailLen - 1
      BY <2>1, <2>2, <2>4
    <3> QED BY <2>1, <2>2, <2>4, <3>1 DEF TextInv, TextInOrder, n
  <2> QED BY <2>3, <2>4
<1>2. CASE Token
  <2>1. talker = "sample" /\ talker' = "embed" /\ steps' = steps + 1 /\ text' = text
    BY <1>2 DEF Token
  <2> QED BY <2>1 DEF TextInv, TextInOrder
<1>3. CASE Push \/ PushBad
  <2>1. talker = "embed" /\ talker' = "text" /\ steps' = steps /\ text' = text
    BY <1>3 DEF Push, PushBad, runVars
  <2> QED BY <2>1 DEF TextInv, TextInOrder
<1>4. CASE ReportWaiting
  <2>1. UNCHANGED <<talker, steps, text>>
    BY <1>4 DEF ReportWaiting
  <2> QED BY <2>1 DEF TextInv, TextInOrder
<1>5. CASE ReportEnd \/ CloseStream \/ ReportAbort
  <2>1. talker' \in {"closing", "ended"} /\ text' = text /\ (steps' = steps \/ steps' = 0)
    BY <1>5 DEF ReportEnd, CloseStream, ReportAbort, runVars
  <2> QED BY <2>1 DEF TextInv, TextInOrder
<1>6. CASE MainStep
  <2>1. UNCHANGED <<steps, text>> /\ (talker' = talker \/ (talker = "off" /\ talker' = "sample"))
    BY <1>6 DEF MainStep, InitTalker, StartTalker, GiveUp, MainSleep, MainFinished,
                ReleaseTalker, TalkerStopped, FreeBuffers, DestroySession, RequestStop,
                JoinDecoder, talkerVars, runVars, RunInv
  <2> QED BY <2>1 DEF TextInv, TextInOrder
<1>7. CASE DecoderStep
  <2>1. UNCHANGED <<steps, text, talker>>
    BY <1>7 DEF DecoderStep, DecoderSleep, DecoderEnd, TakeWindow, Decoded, DecodeFails,
                talkerVars, runVars
  <2> QED BY <2>1 DEF TextInv, TextInOrder
<1>8. CASE UNCHANGED vars
  BY <1>8 DEF vars, talkerVars, runVars, TextInv, TextInOrder
<1> QED BY <1>1, <1>2, <1>3, <1>4, <1>5, <1>6, <1>7, <1>8 DEF Next, TalkerStep

\* talker_embed_callback feeds the entries of trailing_text_hiddens in their order, without
\* a gap or a repetition.
THEOREM TextIsFedInOrder == Spec => []TextInOrder
<1>1. TextInv => TextInOrder
  BY DEF TextInv
<1>2. RunInv /\ AliveInv /\ [Next]_vars => RunInv' /\ AliveInv'
  BY RunStep
<1>3. TextInv /\ RunInv /\ [Next]_vars => TextInv'
  BY TextStep
<1> QED BY <1>1, <1>2, <1>3, RunInit, TextInit, PTL DEF Spec

-----------------------------------------------------------------------------

\* What ContextOf returns.
LEMMA ContextValue ==
  ASSUME NEW a \in Seq(Nat)
  PROVE  /\ ContextOf(a) \in Seq(Nat)
         /\ Len(a) < LeftContext => ContextOf(a) = <<>> /\ Len(ContextOf(a)) = 0
         /\ Len(a) >= LeftContext =>
              /\ Len(ContextOf(a)) = LeftContext
              /\ \A i \in 1 .. LeftContext : ContextOf(a)[i] = a[Len(a) - LeftContext + i]
<1>1. /\ Len(a) \in Nat /\ LeftContext \in Nat /\ LeftContext > 0
      /\ \A i \in 1 .. Len(a) : a[i] \in Nat
  BY SizeAssumption, LenProperties, ElementOfSeq
<1>2. CASE Len(a) < LeftContext
  <2>1. ContextOf(a) = <<>>
    BY <1>1, <1>2 DEF ContextOf
  <2> QED BY <1>1, <1>2, <2>1, EmptySeq
<1>3. CASE Len(a) >= LeftContext
  <2> DEFINE k == Len(a) - LeftContext
             c == SubSeq(a, k + 1, Len(a))
  <2>1. k \in Nat /\ k + LeftContext = Len(a) /\ k <= Len(a)
    BY <1>1, <1>3
  <2>2. ContextOf(a) = c
    BY <1>3 DEF ContextOf
  <2> HIDE DEF k
  <2>3. /\ c \in Seq(Nat) /\ Len(c) = Len(a) - k
        /\ \A i \in 1 .. Len(a) - k : c[i] = a[k + i]
    BY <1>1, <2>1, SubSeqProperties
  <2>4. Len(a) - k = LeftContext
    BY <1>1, <2>1
  <2> HIDE DEF c
  <2> QED BY <1>1, <1>3, <2>2, <2>3, <2>4 DEF k
<1> QED BY <1>1, <1>2, <1>3

\* The context saved after a window is what is left of the next one in the whole stream,
\* although it is computed from the window's own context and new frames alone.
LEMMA ContextNext ==
  ASSUME NEW a \in Seq(Nat), NEW n \in Seq(Nat), Len(a) >= LeftContext
  PROVE  ContextOf(ContextOf(a) \o n) = ContextOf(a \o n)
<1> DEFINE c == ContextOf(a)
           L == LeftContext
           u == ContextOf(c \o n)
           v == ContextOf(a \o n)
<1>1. Len(a) \in Nat /\ Len(n) \in Nat /\ L \in Nat /\ L > 0 /\ Len(a) >= L
  BY SizeAssumption, LenProperties
<1>2. c \in Seq(Nat) /\ Len(c) = L /\ \A i \in 1 .. L : c[i] = a[Len(a) - L + i]
  BY ContextValue
<1> HIDE DEF c
<1>3. /\ c \o n \in Seq(Nat) /\ Len(c \o n) = L + Len(n)
      /\ \A i \in 1 .. L + Len(n) : (c \o n)[i] = IF i <= L THEN c[i] ELSE n[i - L]
  BY <1>2, ConcatProperties
<1>4. /\ a \o n \in Seq(Nat) /\ Len(a \o n) = Len(a) + Len(n)
      /\ \A i \in 1 .. Len(a) + Len(n) :
           (a \o n)[i] = IF i <= Len(a) THEN a[i] ELSE n[i - Len(a)]
  BY ConcatProperties
<1>5. /\ u \in Seq(Nat) /\ Len(u) = L
      /\ \A i \in 1 .. L : u[i] = (c \o n)[Len(c \o n) - L + i]
  <2> DEFINE s == c \o n
  <2>1. s \in Seq(Nat) /\ Len(s) >= LeftContext
    BY <1>1, <1>3
  <2> HIDE DEF s
  <2>2. /\ ContextOf(s) \in Seq(Nat) /\ Len(ContextOf(s)) = LeftContext
        /\ \A i \in 1 .. LeftContext : ContextOf(s)[i] = s[Len(s) - LeftContext + i]
    BY <2>1, ContextValue
  <2> QED BY <2>2 DEF s
<1>6. /\ v \in Seq(Nat) /\ Len(v) = L
      /\ \A i \in 1 .. L : v[i] = (a \o n)[Len(a \o n) - L + i]
  <2> DEFINE s == a \o n
  <2>1. s \in Seq(Nat) /\ Len(s) >= LeftContext
    BY <1>1, <1>4
  <2> HIDE DEF s
  <2>2. /\ ContextOf(s) \in Seq(Nat) /\ Len(ContextOf(s)) = LeftContext
        /\ \A i \in 1 .. LeftContext : ContextOf(s)[i] = s[Len(s) - LeftContext + i]
    BY <2>1, ContextValue
  <2> QED BY <2>2 DEF s
<1> HIDE DEF u, v, L
<1>7. ASSUME NEW i \in 1 .. L PROVE u[i] = v[i]
  <2> DEFINE j == Len(n) + i
             k == Len(a) + Len(n) - L + i
  <2>1. /\ j \in 1 .. L + Len(n) /\ k \in 1 .. Len(a) + Len(n)
        /\ Len(c \o n) - L + i = j /\ Len(a \o n) - L + i = k
        /\ k = Len(a) - L + j
    BY <1>1, <1>3, <1>4
  <2>2. u[i] = (c \o n)[j] /\ v[i] = (a \o n)[k]
    BY <1>5, <1>6, <2>1
  <2>3. CASE j <= L
    <3>1. j \in 1 .. L /\ k <= Len(a)
      BY <1>1, <2>1, <2>3
    <3>2. u[i] = c[j] /\ v[i] = a[k]
      BY <1>3, <1>4, <2>1, <2>2, <3>1
    <3> QED BY <1>2, <2>1, <3>1, <3>2
  <2>4. CASE ~(j <= L)
    <3>1. ~(k <= Len(a)) /\ j - L = k - Len(a)
      BY <1>1, <2>1, <2>4
    <3> QED BY <1>3, <1>4, <2>1, <2>2, <2>4, <3>1
  <2> QED BY <2>3, <2>4
<1>8. u = v
  BY <1>5, <1>6, <1>7, SeqEqual
<1> QED BY <1>8 DEF u, v, c

LEMMA ContextInit == Init => ContextInv
<1> SUFFICES ASSUME Init PROVE ContextInv
  OBVIOUS
<1>1. Len(<<>>) = 0 /\ <<>> \in Seq(Nat)
  BY EmptySeq
<1>2. ContextOf(<<>>) = <<>>
  BY <1>1, SizeAssumption DEF ContextOf
<1> QED BY <1>1, <1>2 DEF Init, ContextInv, ContextIsLeft

\* A window is taken.
LEMMA ContextTake ==
  ASSUME Inv, RunInv, ContextInv, TakeWindow
  PROVE  ContextInv'
<1> DEFINE take == IF Len(pending) >= NeedNew THEN NeedNew ELSE Len(pending)
           new  == SubSeq(pending, 1, take)
           left == SubSeq(pending, take + 1, Len(pending))
<1>1. /\ decoder = "wait" /\ decoder' = "decode" /\ DecoderReady /\ pending # <<>>
      /\ window' = [context |-> prev_context, new |-> new]
      /\ prev_context' = ContextOf(prev_context \o new) /\ pending' = left
      /\ UNCHANGED <<audio, talker>>
  BY DEF TakeWindow, talkerVars
<1>2. /\ pending \in Seq(Nat) /\ audio \in Seq(Nat) /\ Len(pending) \in Nat /\ Len(audio) \in Nat
  BY LenProperties DEF Inv, FramesOK
<1>3. /\ Chunk \in Nat /\ LeftContext \in Nat /\ LeftContext > 0 /\ Window = Chunk + LeftContext
      /\ NeedNew = IF prev_context = <<>> THEN Window ELSE Chunk
  BY SizeAssumption DEF Window, NeedNew
<1>4. /\ prev_context = ContextOf(audio)
      /\ audio = <<>> \/ Len(audio) >= LeftContext
  BY <1>1 DEF ContextInv
<1>5. /\ take \in 0 .. Len(pending) /\ take <= NeedNew
      /\ take = NeedNew \/ (take = Len(pending) /\ ~(Len(pending) >= NeedNew))
  BY <1>2, <1>3
<1> HIDE DEF take
<1>6. /\ new \in Seq(Nat) /\ Len(new) = take
  <2>1. new \in Seq(Nat)
    BY <1>2, <1>5, Split
  <2>2. \A i \in 1 .. take : pending[i] \in Nat
    BY <1>2, <1>5, ElementOfSeq
  <2>3. Len(new) = IF 1 <= take THEN take - 1 + 1 ELSE 0
    BY <1>2, <1>5, <2>2, SubSeqProperties
  <2> QED BY <1>2, <1>5, <2>1, <2>3
<1> DEFINE all == audio \o new
<1>7. all \in Seq(Nat) /\ Len(all) = Len(audio) + take
  BY <1>2, <1>6, ConcatProperties
<1>8. take = NeedNew \/ (talker = "ended" /\ pending' = <<>>)
  <2> SUFFICES ASSUME take = Len(pending), ~(Len(pending) >= NeedNew)
               PROVE  talker = "ended" /\ pending' = <<>>
    BY <1>5
  <2>1. stop_requested \/ talker_done
    BY <1>1 DEF DecoderReady
  <2>2. talker = "ended"
    BY <2>1 DEF RunInv
  <2>3. pending' = SubSeq(pending, Len(pending) + 1, Len(pending))
    BY <1>1
  <2>4. SubSeq(pending, Len(pending) + 1, Len(pending)) = <<>>
    <3>1. ~(Len(pending) + 1 <= Len(pending))
      BY <1>2
    <3>2. \A i \in Len(pending) + 1 .. Len(pending) : pending[i] \in Nat
      BY <1>2
    <3> DEFINE s == SubSeq(pending, Len(pending) + 1, Len(pending))
    <3>3. s \in Seq(Nat) /\ Len(s) = 0
      BY <1>2, <3>1, <3>2, SubSeqProperties
    <3> HIDE DEF s
    <3>4. s = <<>>
      BY <3>3, EmptySeq
    <3> QED BY <3>4 DEF s
  <2> QED BY <2>2, <2>3, <2>4
<1> HIDE DEF new, left
<1>9. CASE audio = <<>>
  <2>1. Len(audio) = 0
    BY <1>9, EmptySeq
  <2>2. prev_context = <<>> /\ Len(prev_context) = 0
    BY <1>2, <1>3, <1>4, <2>1, ContextValue
  <2>3. all = new /\ prev_context \o new = new
    BY <1>6, <1>9, <2>2, ConcatEmptySeq
  <2>4. prev_context' = ContextOf(all)
    BY <1>1, <2>3
  <2>5. Len(prev_context) + Len(new) <= Window
    BY <1>3, <1>5, <1>6, <2>2
  <2>6. Len(all) >= LeftContext \/ (talker = "ended" /\ pending' = <<>>)
    BY <1>3, <1>6, <1>7, <1>8, <2>1, <2>2
  <2>7. ContextOf(all) \in Seq(Nat)
    BY <1>7, ContextValue
  <2> QED BY <1>1, <1>4, <2>4, <2>5, <2>6, <2>7 DEF ContextInv, ContextIsLeft
<1>10. CASE Len(audio) >= LeftContext
  <2>1. Len(prev_context) = LeftContext
    BY <1>2, <1>4, <1>10, ContextValue
  <2>2. prev_context # <<>>
    BY <1>3, <2>1, EmptySeq
  <2>3. prev_context' = ContextOf(all)
    BY <1>1, <1>2, <1>4, <1>6, <1>10, ContextNext
  <2>4. Len(prev_context) + Len(new) <= Window
    BY <1>3, <1>5, <1>6, <2>1, <2>2
  <2>5. Len(all) >= LeftContext
    BY <1>2, <1>3, <1>5, <1>7, <1>10
  <2>6. ContextOf(all) \in Seq(Nat)
    BY <1>7, ContextValue
  <2> QED BY <1>1, <1>4, <2>3, <2>4, <2>5, <2>6 DEF ContextInv, ContextIsLeft
<1> QED BY <1>4, <1>9, <1>10

\* The other steps: the window becomes audio, and what has ended stays ended.
LEMMA ContextStep ==
  ASSUME Inv, RunInv, ContextInv, [Next]_vars
  PROVE  ContextInv'
<1>1. CASE TakeWindow
  BY <1>1, ContextTake
<1>2. CASE Decoded
  <2>1. /\ decoder = "decode" /\ decoder' = "wait" /\ audio' = audio \o window.new
        /\ UNCHANGED <<pending, prev_context, talker>>
    BY <1>2 DEF Decoded, talkerVars
  <2> QED BY <2>1 DEF ContextInv, ContextIsLeft
<1>3. CASE DecoderEnd \/ DecodeFails
  <2>1. /\ decoder' = "done" /\ prev_context' \in {prev_context, <<>>}
    BY <1>3 DEF DecoderEnd, DecodeFails
  <2> QED BY <2>1, EmptySeq DEF ContextInv, ContextIsLeft
<1>4. CASE DecoderSleep
  BY <1>4 DEF DecoderSleep, queueVars, talkerVars, ContextInv, ContextIsLeft
<1>5. CASE TalkerStep
  <2>1. talker # "ended" /\ UNCHANGED <<prev_context, window, audio, decoder>>
    BY <1>5 DEF TalkerStep, Token, Push, PushBad, FeedText, ReportWaiting, ReportEnd, CloseStream,
                ReportAbort, queueVars
  <2> QED BY <2>1 DEF ContextInv, ContextIsLeft
<1>6. CASE MainStep
  <2>1. UNCHANGED <<queueVars, decoder>> /\ (talker = "ended" => talker' = "ended")
    BY <1>6 DEF MainStep, InitTalker, StartTalker, GiveUp, MainSleep, MainFinished,
                ReleaseTalker, TalkerStopped, FreeBuffers, DestroySession, RequestStop,
                JoinDecoder, talkerVars, RunInv
  <2> QED BY <2>1 DEF queueVars, ContextInv, ContextIsLeft
<1>7. CASE UNCHANGED vars
  BY <1>7 DEF vars, queueVars, talkerVars, ContextInv, ContextIsLeft
<1> QED BY <1>1, <1>2, <1>3, <1>4, <1>5, <1>6, <1>7 DEF Next, DecoderStep

\* A window is decoded with the frames just left of it in the audio, all of them, and both
\* fit in the decoder's input: the context saved from one window is right for the next,
\* whatever the sizes of the windows and of what pending holds.
THEOREM WindowsHaveTheirContext == Spec => []ContextIsLeft
<1>1. ContextInv => ContextIsLeft
  BY DEF ContextInv
<1>2. RunInv /\ AliveInv /\ [Next]_vars => RunInv' /\ AliveInv'
  BY RunStep
<1>3. Inv /\ RunInv /\ ContextInv /\ [Next]_vars => ContextInv'
  BY ContextStep
<1> QED BY <1>1, <1>2, <1>3, RunInit, ContextInit, InvInit, InvNext, PTL DEF Spec

-----------------------------------------------------------------------------

\* The initial state.
LEMMA SleepInit == Init => SleepInv
BY DEF Init, SleepInv

\* The talker's steps: what the decoder thread waits for comes with a notification.
LEMMA SleepTalker ==
  ASSUME RunInv, SleepInv, TalkerStep
  PROVE  SleepInv'
<1> USE DEF SleepInv
<1>1. UNCHANGED <<main, decoder, stop_requested, prev_context>>
  BY DEF TalkerStep, Token, Push, PushBad, FeedText, ReportWaiting, ReportEnd, CloseStream,
         ReportAbort, flagVars, mainVars, queueVars
<1>2. CASE Push \/ CloseStream
  BY <1>1, <1>2 DEF Push, CloseStream, WakeDecoder, flagVars
<1>3. CASE PushBad
  BY <1>1, <1>3 DEF PushBad, WakeMain, queueVars, DecoderReady, NeedNew
<1>4. CASE Token \/ FeedText \/ ReportWaiting \/ ReportEnd \/ ReportAbort
  <2>1. UNCHANGED <<flagVars, queueVars, sleepVars>>
    BY <1>4 DEF Token, FeedText, ReportWaiting, ReportEnd, ReportAbort
  <2> QED BY <1>1, <2>1 DEF flagVars, queueVars, sleepVars, DecoderReady, NeedNew
<1> QED BY <1>2, <1>3, <1>4 DEF TalkerStep

\* The decoder thread's steps.
LEMMA SleepDecoder ==
  ASSUME RunInv, SleepInv, DecoderStep
  PROVE  SleepInv'
<1> USE DEF SleepInv
<1>1. UNCHANGED main
  BY DEF DecoderStep, DecoderSleep, DecoderEnd, TakeWindow, Decoded, DecodeFails, mainVars
<1>2. CASE DecoderSleep
  BY <1>1, <1>2 DEF DecoderSleep, flagVars, queueVars, DecoderReady, NeedNew
<1>3. CASE DecoderEnd
  <2>1. ~decoder_asleep' /\ decoder' = "done" /\ stop_requested' = stop_requested
    BY <1>3 DEF DecoderEnd
  <2>2. CASE stop_requested
    BY <1>1, <1>3, <2>1, <2>2 DEF DecoderEnd
  <2>3. CASE ~stop_requested
    BY <1>1, <1>3, <2>1, <2>3 DEF DecoderEnd, WakeMain
  <2> QED BY <2>2, <2>3
<1>4. CASE TakeWindow
  BY <1>1, <1>4 DEF TakeWindow, flagVars, sleepVars
<1>5. CASE Decoded
  BY <1>1, <1>5 DEF Decoded, flagVars, sleepVars
<1>6. CASE DecodeFails
  BY <1>1, <1>6 DEF DecodeFails, WakeMain
<1> QED BY <1>2, <1>3, <1>4, <1>5, <1>6 DEF DecoderStep

\* The steps of main.
LEMMA SleepMain ==
  ASSUME RunInv, SleepInv, MainStep
  PROVE  SleepInv'
<1> USE DEF SleepInv
<1>1. UNCHANGED <<queueVars, talker_done, finished, failed, decoder>>
  BY DEF MainStep, InitTalker, StartTalker, GiveUp, MainSleep, MainFinished, ReleaseTalker,
         TalkerStopped, FreeBuffers, DestroySession, RequestStop, JoinDecoder, flagVars
<1>2. CASE MainSleep
  BY <1>1, <1>2 DEF MainSleep, flagVars, mainVars, queueVars, DecoderReady, NeedNew
<1>3. CASE RequestStop
  BY <1>1, <1>3 DEF RequestStop, WakeDecoder
<1>4. CASE InitTalker \/ StartTalker \/ GiveUp \/ MainFinished \/ ReleaseTalker \/ TalkerStopped
           \/ FreeBuffers \/ DestroySession \/ JoinDecoder
  <2>1. UNCHANGED <<flagVars, sleepVars>> /\ main' # "join" /\ (main = "wait" => ~main_asleep)
    BY <1>4 DEF InitTalker, StartTalker, GiveUp, MainFinished, ReleaseTalker, TalkerStopped,
                FreeBuffers, DestroySession, JoinDecoder
  <2> QED BY <1>1, <2>1 DEF flagVars, sleepVars, queueVars, DecoderReady, NeedNew
<1> QED BY <1>2, <1>3, <1>4 DEF MainStep

\* The end of the demo is not slept through: main and the decoder thread share two condition
\* variables with the talker's callbacks, and no notification of either is lost.
THEOREM NothingSleptThrough == Spec => []DecoderGoesOn
<1>1. RunInv /\ SleepInv => DecoderGoesOn
  BY DEF RunInv, SleepInv, DecoderGoesOn, DecoderReady
<1>2. RunInv /\ AliveInv /\ [Next]_vars => RunInv' /\ AliveInv'
  BY RunStep
<1>3. RunInv /\ SleepInv /\ [Next]_vars => SleepInv'
  <2> SUFFICES ASSUME RunInv, SleepInv, [Next]_vars PROVE SleepInv'
    OBVIOUS
  <2>1. CASE UNCHANGED vars
    BY <2>1 DEF vars, queueVars, flagVars, mainVars, sleepVars, SleepInv, DecoderReady, NeedNew
  <2> QED BY <2>1, SleepTalker, SleepDecoder, SleepMain DEF Next
<1> QED BY <1>1, <1>2, <1>3, RunInit, SleepInit, PTL DEF Spec
=============================================================================

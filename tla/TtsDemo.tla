------------------------------- MODULE TtsDemo -------------------------------
(***************************************************************************)
(* The streaming demo of examples/Qwen3_TTS/cpp.  Three threads:           *)
(*   - the run of the talker's session (started by rknn3_session_run_async *)
(*     and external), which calls back into talker.cc: a frame of codes    *)
(*     for every token, and the state in which the run ends;               *)
(*   - decoder_thread_entry of main.cc, which turns windows of frames into *)
(*     audio, each window preceded by the frames left of it as context;    *)
(*   - main, which starts both, waits for finished and releases everything.*)
(* DemoState is guarded by one mutex, with a condition variable for the    *)
(* decoder and one for main; an action is one critical section or one call *)
(* of the runtime.  A frame of codes is abstracted to its number.          *)
(***************************************************************************)
EXTENDS Integers, Sequences

CONSTANTS
  Chunk,       \* kChunkSize
  LeftContext, \* kLeftContextSize
  TrailLen,    \* entries of trailing_text_hiddens, the last of them tts_eos
  MaxTokens    \* max_new_tokens of the talker's run

ASSUME SizeAssumption ==
  /\ Chunk \in Nat \ {0} /\ LeftContext \in Nat \ {0}
  /\ TrailLen \in Nat \ {0} /\ MaxTokens \in Nat \ {0}

Window == Chunk + LeftContext

VARIABLES
  main,           \* where main is
  main_asleep,    \* main is blocked in cond
  decoder,        \* where the decoder thread is
  decoder_asleep, \* the decoder thread is blocked in token_cond
  talker,         \* where the run of the talker's session is
  pending,        \* pending_codes_lx16, in frames
  prev_context,   \* prev_context_lx16, in frames
  window,         \* what is being decoded: its context and its new frames
  audio,          \* the frames in audio_buffer
  stop_requested, talker_done, finished, failed,
  is_generating,  \* talker_is_generating
  steps,          \* talker_generation_steps
  pushed,         \* frames put in pending so far
  text,           \* entries of trailing_text_hiddens fed so far, in order
  waited,         \* history: RKLLM_RUN_WAITING was reported
  stopping,       \* rknn3_session_stop was called
  released        \* the embeddings and buffers of the callbacks are freed

queueVars  == <<pending, prev_context, window, audio>>
flagVars   == <<stop_requested, talker_done, finished, failed>>
runVars    == <<steps, pushed, text, waited>>
talkerVars == <<talker, is_generating, runVars>>
mainVars   == <<main, stopping, released>>
sleepVars  == <<main_asleep, decoder_asleep>>
vars == <<queueVars, flagVars, talkerVars, mainVars, sleepVars, decoder>>

NoWindow == [context |-> <<>>, new |-> <<>>]

Init ==
  /\ main = "init" /\ main_asleep = FALSE
  /\ decoder = "wait" /\ decoder_asleep = FALSE
  /\ talker = "off" /\ is_generating = FALSE /\ steps = 0 /\ pushed = 0 /\ text = <<>>
  /\ waited = FALSE
  /\ pending = <<>> /\ prev_context = <<>> /\ window = NoWindow /\ audio = <<>>
  /\ stop_requested = FALSE /\ talker_done = FALSE
  /\ finished = FALSE /\ failed = FALSE
  /\ stopping = FALSE /\ released = FALSE

\* token_cond.notify_one and cond.notify_one.
WakeDecoder == decoder_asleep' = FALSE
WakeMain    == main_asleep' = FALSE

(***************************************************************************)
(* The run of the talker's session.                                        *)
(***************************************************************************)

\* A token: RKLLM_RUN_NORMAL.
Token ==
  /\ talker = "sample" /\ ~stopping /\ steps < MaxTokens
  /\ steps' = steps + 1
  /\ talker' = "embed"
  /\ UNCHANGED <<queueVars, flagVars, is_generating, pushed, text, waited, mainVars, sleepVars,
                 decoder>>

\* The code predictor completes the frame, and talker_callback takes it.
Push ==
  /\ talker = "embed"
  /\ pushed' = pushed + 1 /\ pending' = Append(pending, pushed')
  /\ WakeDecoder
  /\ talker' = "text"
  /\ UNCHANGED <<prev_context, window, audio, flagVars, is_generating, steps, text, waited,
                 mainVars, main_asleep, decoder>>

\* Mutant: the error is not handed to main.
PushBad_Quiet ==
  /\ talker = "embed"
  /\ WakeMain
  /\ finished' = TRUE
  /\ talker' = "text"
  /\ UNCHANGED <<queueVars, stop_requested, talker_done, failed, is_generating, runVars, mainVars, decoder_asleep, decoder>>

\* It does not; its error is ignored, and talker_callback refuses the frame.
PushBad ==
  /\ talker = "embed"
  /\ failed' = TRUE /\ finished' = TRUE
  /\ WakeMain
  /\ talker' = "text"
  /\ UNCHANGED <<queueVars, stop_requested, talker_done, is_generating, runVars, mainVars, decoder_asleep, decoder>>

\* Mutant: the index is the step.
FeedText_AtStep ==
  /\ talker = "text"
  /\ text' = IF steps < TrailLen THEN Append(text, steps + 1) ELSE text
  /\ talker' = "sample"
  /\ UNCHANGED <<queueVars, flagVars, is_generating, steps, pushed, waited, mainVars,
                 sleepVars, decoder>>

\* talker_embed_callback adds the text of the step, or padding when it is used up.
FeedText ==
  /\ talker = "text"
  /\ text' = IF steps < TrailLen THEN Append(text, steps) ELSE text
  /\ talker' = "sample"
  /\ UNCHANGED <<queueVars, flagVars, is_generating, steps, pushed, waited, mainVars,
                 sleepVars, decoder>>

\* RKLLM_RUN_WAITING: the run goes on.
ReportWaiting ==
  /\ talker = "sample" /\ ~stopping
  /\ is_generating' = FALSE /\ waited' = TRUE
  /\ UNCHANGED <<queueVars, flagVars, talker, steps, pushed, text, mainVars, sleepVars,
                 decoder>>

\* RKLLM_RUN_FINISH, or RKLLM_RUN_STOP after rknn3_session_stop.
ReportEnd ==
  /\ talker = "sample"
  /\ is_generating' = FALSE /\ steps' = 0
  /\ talker' = "closing"
  /\ UNCHANGED <<queueVars, flagVars, pushed, text, waited, mainVars, sleepVars, decoder>>

\* Mutant: the decoder is not woken.
CloseStream_Silent ==
  /\ talker = "closing"
  /\ talker_done' = TRUE
  /\ talker' = "ended"
  /\ UNCHANGED <<queueVars, stop_requested, finished, failed, is_generating, runVars, mainVars, sleepVars, decoder>>

\* ... talker_callback is given an empty frame.
CloseStream ==
  /\ talker = "closing"
  /\ talker_done' = TRUE
  /\ WakeDecoder
  /\ talker' = "ended"
  /\ UNCHANGED <<queueVars, stop_requested, finished, failed, is_generating, runVars, mainVars, main_asleep, decoder>>

\* RKLLM_RUN_ERROR, at any time, and RKLLM_RUN_MAX_NEW_TOKEN_REACHED: talker_callback
\* is not called.
ReportAbort ==
  /\ talker = "sample"
  /\ is_generating' = FALSE
  /\ talker' = "ended"
  /\ UNCHANGED <<queueVars, flagVars, runVars, mainVars, sleepVars, decoder>>

(***************************************************************************)
(* decoder_thread_entry.                                                   *)
(***************************************************************************)

\* Frames wanted for a full window.
NeedNew == IF prev_context = <<>> THEN Window ELSE Chunk

DecoderReady == stop_requested \/ talker_done \/ Len(pending) >= NeedNew

DecoderSleep ==
  /\ decoder = "wait" /\ ~decoder_asleep /\ ~DecoderReady
  /\ decoder_asleep' = TRUE
  /\ UNCHANGED <<queueVars, flagVars, talkerVars, mainVars, main_asleep, decoder>>

\* Mutant: less than a window is dropped.
DecoderEnd_DropTail ==
  /\ decoder = "wait" /\ ~decoder_asleep /\ DecoderReady
  /\ Len(pending) < NeedNew
  /\ IF stop_requested
     THEN UNCHANGED <<prev_context, finished, main_asleep>>
     ELSE prev_context' = <<>> /\ finished' = TRUE /\ WakeMain
  /\ decoder' = "done"
  /\ UNCHANGED <<pending, window, audio, stop_requested, talker_done, failed, talkerVars,
                 mainVars, decoder_asleep>>

\* Nothing is left: the thread ends, with finished unless it was told to stop.
DecoderEnd ==
  /\ decoder = "wait" /\ ~decoder_asleep /\ DecoderReady
  /\ pending = <<>>
  /\ IF stop_requested
     THEN UNCHANGED <<prev_context, finished, main_asleep>>
     ELSE prev_context' = <<>> /\ finished' = TRUE /\ WakeMain
  /\ decoder' = "done"
  /\ UNCHANGED <<pending, window, audio, stop_requested, talker_done, failed, talkerVars,
                 mainVars, decoder_asleep>>

\* The frames left of a window that come with it.
ContextOf(frames) ==
  IF Len(frames) >= LeftContext
  THEN SubSeq(frames, Len(frames) - LeftContext + 1, Len(frames)) ELSE <<>>

\* Mutant: the context is only saved after the first window.
TakeWindow_FirstContext ==
  LET take == IF Len(pending) >= NeedNew THEN NeedNew ELSE Len(pending)
      new  == SubSeq(pending, 1, take)
  IN
  /\ decoder = "wait" /\ ~decoder_asleep /\ DecoderReady /\ pending # <<>>
  /\ window' = [context |-> prev_context, new |-> new]
  /\ prev_context' = IF prev_context = <<>> THEN ContextOf(new) ELSE prev_context
  /\ pending' = SubSeq(pending, take + 1, Len(pending))
  /\ decoder' = "decode"
  /\ UNCHANGED <<audio, flagVars, talkerVars, mainVars, sleepVars>>

\* Mutant: a chunk is erased, also after the first window.
TakeWindow_EraseChunk ==
  LET take == IF Len(pending) >= NeedNew THEN NeedNew ELSE Len(pending)
      new  == SubSeq(pending, 1, take)
  IN
  /\ decoder = "wait" /\ ~decoder_asleep /\ DecoderReady /\ pending # <<>>
  /\ window' = [context |-> prev_context, new |-> new]
  /\ prev_context' = ContextOf(prev_context \o new)
  /\ pending' = SubSeq(pending, Chunk + 1, Len(pending))
  /\ decoder' = "decode"
  /\ UNCHANGED <<audio, flagVars, talkerVars, mainVars, sleepVars>>

\* A window is taken: a full one, or what is left when no more will come.
TakeWindow ==
  LET take == IF Len(pending) >= NeedNew THEN NeedNew ELSE Len(pending)
      new  == SubSeq(pending, 1, take)
  IN
  /\ decoder = "wait" /\ ~decoder_asleep /\ DecoderReady /\ pending # <<>>
  /\ window' = [context |-> prev_context, new |-> new]
  /\ prev_context' = ContextOf(prev_context \o new)
  /\ pending' = SubSeq(pending, take + 1, Len(pending))
  /\ decoder' = "decode"
  /\ UNCHANGED <<audio, flagVars, talkerVars, mainVars, sleepVars>>

\* decode_one_window succeeds: the audio of the new frames is kept and saved.
Decoded ==
  /\ decoder = "decode"
  /\ audio' = audio \o window.new /\ window' = NoWindow
  /\ decoder' = "wait"
  /\ UNCHANGED <<pending, prev_context, flagVars, talkerVars, mainVars, sleepVars>>

\* It fails, and the thread ends; the talker is not told.
DecodeFails ==
  /\ decoder = "decode"
  /\ window' = NoWindow
  /\ failed' = TRUE /\ finished' = TRUE
  /\ WakeMain
  /\ decoder' = "done"
  /\ UNCHANGED <<pending, prev_context, audio, stop_requested, talker_done, talkerVars,
                 mainVars, decoder_asleep>>

(***************************************************************************)
(* main, from the start of the decoder thread.                             *)
(***************************************************************************)

\* talker.Init, and talker.Process up to rknn3_session_run_async.
InitTalker ==
  /\ main = "init"
  /\ main' = "process"
  /\ UNCHANGED <<queueVars, flagVars, talkerVars, stopping, released, sleepVars, decoder>>

StartTalker ==
  /\ main = "process"
  /\ talker' = "sample" /\ is_generating' = TRUE
  /\ main' = "wait"
  /\ UNCHANGED <<queueVars, flagVars, runVars, stopping, released, sleepVars,
                 decoder>>

\* One of them fails: main returns at once.
GiveUp ==
  /\ main \in {"init", "process"}
  /\ main' = "abort"
  /\ UNCHANGED <<queueVars, flagVars, talkerVars, stopping, released, sleepVars, decoder>>

\* cond.wait.
MainSleep ==
  /\ main = "wait" /\ ~main_asleep /\ ~finished
  /\ main_asleep' = TRUE
  /\ UNCHANGED <<queueVars, flagVars, talkerVars, mainVars, decoder_asleep, decoder>>

MainFinished ==
  /\ main = "wait" /\ ~main_asleep /\ finished
  /\ main' = "release"
  /\ UNCHANGED <<queueVars, flagVars, talkerVars, stopping, released, sleepVars, decoder>>

\* Mutant: a run under way is not stopped.
ReleaseTalker_NoStop ==
  /\ main = "release"
  /\ main' = "free"
  /\ UNCHANGED <<stopping, queueVars, flagVars, talkerVars, released, sleepVars, decoder>>

\* talker.Release: a run that is still generating is stopped.
ReleaseTalker ==
  /\ main = "release"
  /\ stopping' = is_generating
  /\ main' = IF is_generating THEN "stop" ELSE "free"
  /\ UNCHANGED <<queueVars, flagVars, talkerVars, released, sleepVars, decoder>>

\* rknn3_session_stop returns when the run has ended (external).
TalkerStopped ==
  /\ main = "stop" /\ talker = "ended"
  /\ is_generating' = FALSE
  /\ main' = "free"
  /\ UNCHANGED <<queueVars, flagVars, talker, runVars, stopping, released,
                 sleepVars, decoder>>

\* The embeddings and buffers are freed before the session is destroyed.
FreeBuffers ==
  /\ main = "free"
  /\ released' = TRUE
  /\ main' = "destroy"
  /\ UNCHANGED <<queueVars, flagVars, talkerVars, stopping, sleepVars, decoder>>

\* rknn3_session_destroy returns when no callback is running (external).
DestroySession ==
  /\ main = "destroy" /\ talker = "ended"
  /\ main' = "request"
  /\ UNCHANGED <<queueVars, flagVars, talkerVars, stopping, released, sleepVars, decoder>>

RequestStop ==
  /\ main = "request"
  /\ stop_requested' = TRUE
  /\ WakeDecoder
  /\ main' = "join"
  /\ UNCHANGED <<queueVars, talker_done, finished, failed, talkerVars, stopping, released,
                 main_asleep, decoder>>

\* The decoder thread is joined; main returns -1 when failed is set.
JoinDecoder ==
  /\ main = "join" /\ decoder = "done"
  /\ main' = "exit"
  /\ UNCHANGED <<queueVars, flagVars, talkerVars, stopping, released, sleepVars, decoder>>

-----------------------------------------------------------------------------

\* main has returned, and with it the process ends.
Returned == main \in {"exit", "abort"}

TalkerStep ==
  \/ Token \/ Push \/ PushBad \/ FeedText
  \/ ReportWaiting \/ ReportEnd \/ CloseStream \/ ReportAbort

DecoderStep == DecoderSleep \/ DecoderEnd \/ TakeWindow \/ Decoded \/ DecodeFails

MainStep ==
  \/ InitTalker \/ StartTalker \/ GiveUp
  \/ MainSleep \/ MainFinished
  \/ ReleaseTalker \/ TalkerStopped \/ FreeBuffers \/ DestroySession
  \/ RequestStop \/ JoinDecoder

Next ==
  \/ ~Returned /\ (TalkerStep \/ DecoderStep \/ MainStep)
  \/ Returned /\ UNCHANGED vars

\* The threads are scheduled; a run of the talker ends after MaxTokens tokens.
Fairness ==
  /\ WF_vars(~Returned /\ TalkerStep)
  /\ WF_vars(~Returned /\ DecoderStep)
  /\ WF_vars(~Returned /\ MainStep)

Spec == Init /\ [][Next]_vars /\ Fairness

-----------------------------------------------------------------------------

Frames == Seq(1 .. pushed)

\* 1, 2, ... n.
UpTo(n) == [i \in 1 .. n |-> i]

\* While the decoder thread lives, the frames of the talker are in the audio, in
\* the window being decoded or pending: each one once, in the order they came,
\* whichever way the callback and the decoder share the queue.
FramesOnceInOrder == decoder # "done" => audio \o window.new \o pending = UpTo(pushed)

\* A window is decoded with the frames just left of it, which are already audible;
\* only the first one, or a stream too short for a context, has none.  Both together
\* fit in the decoder's input, the last window too.
ContextIsLeft ==
  decoder = "decode" =>
    /\ window.context = ContextOf(audio)
    /\ Len(window.context) + Len(window.new) <= Window

\* main returns 0 only if every frame the talker produced can be heard and the
\* talker has ended.
SuccessIsWhole ==
  main = "exit" /\ ~failed => audio = UpTo(pushed) /\ talker = "ended"

\* The entries of trailing_text_hiddens are fed in their order, without a gap.
TextInOrder == text = UpTo(Len(text))

\* The callbacks of the talker never use the embeddings after they were freed, unless
\* RKLLM_RUN_WAITING cleared talker_is_generating under a run that goes on.
CallbacksAlive == released /\ ~waited => talker \notin {"embed", "text"}

\* The demo ends: main is not left waiting for finished, for the talker or for the
\* decoder thread, unless the run aborted before anything finished (EndIsNoticed).
DemoEnds == main = "wait" ~> main = "exit" \/ (talker = "ended" /\ ~talker_done)

\* "talker 已经结束，不会再有新的 token 回调" is what talker_done is for, so that the
\* decoder can drain: an ended talker is noticed.
EndIsNoticed == talker = "ended" ~> talker_done \/ Returned

=============================================================================

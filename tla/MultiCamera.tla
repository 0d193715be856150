----------------------------- MODULE MultiCamera -----------------------------
(***************************************************************************)
(* The multi-channel benchmark of examples/yolov5/yolov5/cpp: main opens a *)
(* model for every channel of every board, starts a worker thread for each *)
(* channel, waits for them, prints the report and releases the channels.   *)
(* SIGINT sets g_channel_stop_all once its handler is installed.  main     *)
(* reads running without a lock, and joins only a worker that still has it *)
(* set; perf_mutex guards the counters.                                    *)
(***************************************************************************)
EXTENDS Integers

CONSTANTS
  Boards, PerBoard, \* --boards, --channels
  DeviceCounts,     \* devices that may be found
  FrameLimits,      \* --frames; 0 is "run until Ctrl-C"
  MaxFrames         \* bound: frames a channel counts when the limit is 0

ASSUME CameraAssumption ==
  /\ {Boards, PerBoard} \subseteq Nat \ {0}
  /\ DeviceCounts \subseteq Nat
  /\ MaxFrames \in Nat /\ FrameLimits \subseteq 0 .. MaxFrames

NChannels == Boards * PerBoard
Channels  == 0 .. NChannels - 1

BoardOf(c) == c \div PerBoard

VARIABLES
  limit,   \* frames, the limit of the command line
  devices, \* devices found
  main,    \* where main is
  at,      \* the channel its loop is at
  ctx,     \* channels with ctx_initialized
  images,  \* channels with image_loaded
  handler, \* on_sigint is installed
  stop,    \* g_channel_stop_all
  pressed, \* Ctrl-C was pressed
  running, \* running, by channel
  worker,  \* where the worker of the channel is
  frames,  \* perf.total_frames
  wall,    \* perf.total_wall_ms is set
  report   \* total_frames as reported, or -1

mainVars   == <<main, at, report>>
initVars   == <<limit, devices, ctx, images, handler>>
signalVars == <<stop, pressed>>
workVars   == <<worker, frames, wall>>
vars == <<mainVars, initVars, signalVars, running, workVars>>

Init ==
  /\ limit \in FrameLimits /\ devices \in DeviceCounts
  /\ main = "init" /\ at = 0
  /\ ctx = {} /\ images = {} /\ handler = FALSE
  /\ stop = FALSE /\ pressed = FALSE
  /\ running = [c \in Channels |-> FALSE]
  /\ worker = [c \in Channels |-> "none"]
  /\ frames = [c \in Channels |-> 0]
  /\ wall = [c \in Channels |-> FALSE]
  /\ report = [c \in Channels |-> -1]

\* The process is over.
Ended == main \in {"exit", "failed", "killed"}

\* The loops of main go through the channels and then on to the next part.
Advance(next) ==
  IF at + 1 = NChannels THEN main' = next /\ at' = 0 ELSE UNCHANGED main /\ at' = at + 1

(***************************************************************************)
(* main.                                                                   *)
(***************************************************************************)

\* channel_init and channel_load_image.
InitChannel ==
  /\ main = "init" /\ BoardOf(at) < devices
  /\ ctx' = ctx \cup {at} /\ images' = images \cup {at}
  /\ Advance("handler")
  /\ UNCHANGED <<limit, devices, handler, report, signalVars, running, workVars>>

\* One of them fails: what was opened is released.
InitFails ==
  /\ main = "init" /\ BoardOf(at) < devices
  /\ ctx' = ctx \/ ctx' = ctx \cup {at}
  /\ main' = "undo" /\ at' = 0
  /\ UNCHANGED <<limit, devices, images, handler, report, signalVars, running, workVars>>

\* There is no device for the board: main returns at once.
NoDevice ==
  /\ main = "init" /\ BoardOf(at) >= devices
  /\ main' = "failed"
  /\ UNCHANGED <<at, initVars, report, signalVars, running, workVars>>

\* Mutant: only what init completed is released.
ReleaseChannel_OnlyLoaded ==
  /\ main \in {"undo", "release"}
  /\ images' = images \ {at}
  /\ ctx' = IF at \in images THEN ctx \ {at} ELSE ctx
  /\ Advance(IF main = "undo" THEN "failed" ELSE "exit")
  /\ UNCHANGED <<limit, devices, handler, report, signalVars, running, workVars>>

\* channel_release.
ReleaseChannel ==
  /\ main \in {"undo", "release"}
  /\ images' = images \ {at}
  /\ ctx' = ctx \ {at}
  /\ Advance(IF main = "undo" THEN "failed" ELSE "exit")
  /\ UNCHANGED <<limit, devices, handler, report, signalVars, running, workVars>>

InstallHandler ==
  /\ main = "handler"
  /\ handler' = TRUE
  /\ main' = "spawn"
  /\ UNCHANGED <<limit, devices, at, ctx, images, report, signalVars, running, workVars>>

\* running is set before pthread_create, and cleared when that fails.
Spawn ==
  /\ main = "spawn"
  /\ \/ /\ running' = [running EXCEPT ![at] = TRUE]
        /\ worker' = [worker EXCEPT ![at] = "loop"]
     \/ UNCHANGED <<running, worker>>
  /\ Advance("join")
  /\ UNCHANGED <<initVars, report, signalVars, frames, wall>>

\* running is clear: there is nothing to join, or nothing any more.
JoinSkips ==
  /\ main = "join" /\ ~running[at]
  /\ Advance("report")
  /\ UNCHANGED <<initVars, report, signalVars, running, workVars>>

\* main has read running and is blocked in pthread_join.
JoinBlocks ==
  /\ main = "join" /\ running[at]
  /\ main' = "joining"
  /\ UNCHANGED <<at, initVars, report, signalVars, running, workVars>>

\* Mutant: the thread is detached.
Joined_NoWait ==
  /\ main = "joining"
  /\ IF at + 1 = NChannels THEN main' = "report" /\ at' = 0
                           ELSE main' = "join" /\ at' = at + 1
  /\ UNCHANGED <<initVars, report, signalVars, running, workVars>>

Joined ==
  /\ main = "joining" /\ worker[at] = "returned"
  /\ IF at + 1 = NChannels THEN main' = "report" /\ at' = 0
                           ELSE main' = "join" /\ at' = at + 1
  /\ UNCHANGED <<initVars, report, signalVars, running, workVars>>

\* print_report reads the counters of all channels.
Report ==
  /\ main = "report"
  /\ report' = frames
  /\ main' = "release"
  /\ UNCHANGED <<at, initVars, signalVars, running, workVars>>

(***************************************************************************)
(* channel_worker_thread.                                                  *)
(***************************************************************************)

Move(c, label) == worker' = [worker EXCEPT ![c] = label]

\* Mutant: only the channel's own flags are looked at.
Enter_NoStop(c) ==
  /\ worker[c] = "loop"
  /\ Move(c, IF running[c] THEN "infer" ELSE "wall")
  /\ UNCHANGED <<mainVars, initVars, signalVars, running, frames, wall>>

\* The condition of the loop.
Enter(c) ==
  /\ worker[c] = "loop"
  /\ Move(c, IF running[c] /\ ~stop THEN "infer" ELSE "wall")
  /\ UNCHANGED <<mainVars, initVars, signalVars, running, frames, wall>>

\* Mutant: a failed inference is tried again.
Infer_Retry(c) ==
  /\ worker[c] = "infer"
  /\ \E label \in {"count", "loop"} : Move(c, label)
  /\ UNCHANGED <<mainVars, initVars, signalVars, running, frames, wall>>

\* inference_yolov5_model; a worker whose inference fails leaves the loop.
Infer(c) ==
  /\ worker[c] = "infer"
  /\ \E label \in {"count", "wall"} : Move(c, label)
  /\ UNCHANGED <<mainVars, initVars, signalVars, running, frames, wall>>

\* The number of frames wanted.
Reached(n) == limit > 0 /\ n >= limit

\* The counters, in the critical section of perf_mutex.
Count(c) ==
  /\ worker[c] = "count"
  /\ frames' = [frames EXCEPT ![c] = IF @ < MaxFrames THEN @ + 1 ELSE @]
  /\ Move(c, IF Reached(frames[c] + 1) THEN "wall" ELSE "loop")
  /\ UNCHANGED <<mainVars, initVars, signalVars, running, wall>>

\* Mutant: running is cleared first.
Wall_ClearFirst(c) ==
  /\ worker[c] = "wall"
  /\ IF running[c]
     THEN running' = [running EXCEPT ![c] = FALSE] /\ UNCHANGED <<wall, worker>>
     ELSE wall' = [wall EXCEPT ![c] = TRUE] /\ Move(c, "clear") /\ UNCHANGED running
  /\ UNCHANGED <<mainVars, initVars, signalVars, frames>>

\* The time from start to end, in another critical section.
Wall(c) ==
  /\ worker[c] = "wall"
  /\ wall' = [wall EXCEPT ![c] = TRUE]
  /\ Move(c, "clear")
  /\ UNCHANGED <<mainVars, initVars, signalVars, running, frames>>

ClearRunning(c) ==
  /\ worker[c] = "clear"
  /\ running' = [running EXCEPT ![c] = FALSE]
  /\ Move(c, "return")
  /\ UNCHANGED <<mainVars, initVars, signalVars, frames, wall>>

ThreadEnds(c) ==
  /\ worker[c] = "return"
  /\ Move(c, "returned")
  /\ UNCHANGED <<mainVars, initVars, signalVars, running, frames, wall>>

\* Ctrl-C: on_sigint, or the default action while it is not installed.
Interrupt ==
  /\ ~pressed
  /\ pressed' = TRUE
  /\ IF handler THEN stop' = TRUE /\ UNCHANGED main
                ELSE main' = "killed" /\ UNCHANGED stop
  /\ UNCHANGED <<at, report, initVars, running, workVars>>

-----------------------------------------------------------------------------

MainStep ==
  \/ InitChannel \/ InitFails \/ NoDevice \/ ReleaseChannel
  \/ InstallHandler \/ Spawn \/ JoinSkips \/ JoinBlocks \/ Joined \/ Report

WorkerStep(c) ==
  \/ Enter(c) \/ Infer(c) \/ Count(c) \/ Wall(c) \/ ClearRunning(c) \/ ThreadEnds(c)

Next ==
  \/ ~Ended /\ (MainStep \/ Interrupt \/ \E c \in Channels : WorkerStep(c))
  \/ Ended /\ UNCHANGED vars

\* The threads are scheduled, and every inference returns.
Fairness ==
  /\ WF_vars(~Ended /\ MainStep)
  /\ \A c \in Channels : WF_vars(~Ended /\ WorkerStep(c))

Spec == Init /\ [][Next]_vars /\ Fairness

-----------------------------------------------------------------------------

\* A channel is not released under its worker: one that main did not join, because
\* it found running cleared, does not use the model or perf_mutex any more.
NoUseAfterRelease ==
  \A c \in Channels : worker[c] \in {"infer", "count", "wall"} => c \in ctx

\* What is reported is final: every worker that was started has counted its frames
\* and its time, although main may skip its join.
ReportIsFinal ==
  main \in {"release", "exit"} =>
    \A c \in Channels : worker[c] # "none" => wall[c] /\ report[c] = frames[c]

\* main returns with every model released, the one of a channel that failed half way
\* included, unless a board has no device.
AllReleased == main \in {"exit", "failed"} /\ devices >= Boards => ctx = {}

\* With a number of frames, or after Ctrl-C, the benchmark ends.
Ends == main = "join" /\ (limit > 0 \/ stop) ~> main = "exit"
=============================================================================

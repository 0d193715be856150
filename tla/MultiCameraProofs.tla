-------------------------- MODULE MultiCameraProofs --------------------------
(***************************************************************************)
(* Proofs about MultiCamera, for every number of boards and channels: the  *)
(* unlocked read of running, on which main decides whether to join, lets   *)
(* no channel be reported or released before its worker is through with it.*)
(***************************************************************************)
EXTENDS MultiCamera, TLAPS

Live   == {"loop", "infer", "count", "wall", "clear"}
Quiet  == {"none", "return", "returned"}
Before == {"init", "undo", "handler"}
During == {"spawn", "join", "joining"}
After  == {"report", "release", "exit"}
Killed == {"failed", "killed"}

Types ==
  /\ main \in Before \cup During \cup After \cup Killed
  /\ at \in Channels
  /\ running \in [Channels -> BOOLEAN]
  /\ wall \in [Channels -> BOOLEAN]
  /\ worker \in [Channels -> Live \cup Quiet]

\* running is set as long as the worker may touch its channel, and a worker that
\* has left its loop has stored its time.
RunningIsLive ==
  \A c \in Channels :
    /\ running[c] <=> worker[c] \in Live
    /\ worker[c] \in {"clear", "return", "returned"} => wall[c]

\* Which workers may be alive: none before it is started, and none that main has
\* joined or passed over.
Progress ==
  /\ main \in Before \cup Killed => \A c \in Channels : worker[c] = "none"
  /\ main = "spawn" => \A c \in Channels : c >= at => worker[c] = "none"
  /\ main \in {"join", "joining"} => \A c \in Channels : c < at => worker[c] \in Quiet
  /\ main \in After => \A c \in Channels : worker[c] \in Quiet
  /\ main \in During \cup After => handler

\* The models that are loaded, and the report.
Holdings ==
  /\ main = "init" => \A c \in Channels : c < at => c \in ctx
  /\ main \in {"handler"} \cup During => Channels \subseteq ctx
  /\ main \in {"release", "exit"} => report = frames

Inv == Types /\ RunningIsLive /\ Progress /\ Holdings

\* The models that are still loaded: none from at on before it is opened, none before at
\* once the releases have begun.
LeftOpen ==
  /\ devices \in Int
  /\ ctx \subseteq Channels
  /\ main = "init" => \A c \in ctx : c < at
  /\ main = "report" => at = 0
  /\ main \in {"undo", "release"} => \A c \in ctx : c >= at
  /\ AllReleased

-----------------------------------------------------------------------------

\* There is a channel, and the loops of main go from one to the next.
LEMMA ChannelFacts ==
  /\ NChannels \in Nat \ {0}
  /\ Channels = 0 .. NChannels - 1
<1>1. Boards \in Nat \ {0} /\ PerBoard \in Nat \ {0}
  BY CameraAssumption
<1>2. NChannels \in Nat \ {0}
  BY <1>1 DEF NChannels
<1> QED BY <1>2 DEF Channels

\* Advance stays within the channels, and leaves a loop at the last one.
LEMMA AdvanceFacts ==
  ASSUME at \in Channels, NEW next, Advance(next)
  PROVE  /\ at' \in Channels
         /\ \/ main' = next /\ at' = 0 /\ \A c \in Channels : c <= at
            \/ main' = main /\ \A c \in Channels : c < at' <=> c < at \/ c = at
BY ChannelFacts DEF Advance

\* The initial states satisfy the invariant.
LEMMA InvInit == Init => Inv
BY ChannelFacts DEF Init, Inv, Types, RunningIsLive, Progress, Holdings, Live, Quiet,
                    Before, During, After, Killed

\* The initialisation of main, before any worker exists.
LEMMA InvBefore ==
  ASSUME Inv, InitChannel \/ InitFails \/ NoDevice \/ InstallHandler
  PROVE  Inv'
<1> USE ChannelFacts DEF Inv, Before, During, After, Killed
<1>1. /\ main \in Before /\ main' \in Before \cup {"spawn", "failed"}
      /\ at' \in Channels
      /\ main' = "spawn" => handler'
      /\ UNCHANGED <<running, worker, wall, frames, report>>
  BY AdvanceFacts DEF InitChannel, InitFails, NoDevice, InstallHandler, Types, workVars
<1>2. Types' /\ RunningIsLive'
  BY <1>1 DEF Types, RunningIsLive
<1>3. Progress'
  BY <1>1 DEF Progress
<1>4. Holdings'
  <2>1. CASE InitChannel
    <3>1. ctx' = ctx \cup {at} /\ main = "init" /\ Advance("handler") /\ at \in Channels
      BY <2>1 DEF InitChannel, Types
    <3> QED BY <1>1, <3>1, AdvanceFacts DEF Holdings
  <2>2. CASE InitFails \/ NoDevice \/ InstallHandler
    BY <1>1, <2>2 DEF InitFails, NoDevice, InstallHandler, Holdings
  <2> QED BY <2>1, <2>2, <1>1 DEF Holdings
<1> QED BY <1>2, <1>3, <1>4

\* A worker is started, or pthread_create fails.
LEMMA InvSpawn == ASSUME Inv, Spawn PROVE Inv'
<1> USE ChannelFacts DEF Inv, Before, During, After, Killed
<1>1. /\ main = "spawn" /\ at \in Channels /\ Advance("join")
      /\ UNCHANGED <<initVars, wall, frames, report>>
  BY DEF Spawn, Types
<1>2. /\ at' \in Channels
      /\ \/ main' = "join" /\ at' = 0 /\ \A c \in Channels : c <= at
         \/ main' = "spawn" /\ \A c \in Channels : c < at' <=> c < at \/ c = at
  BY <1>1, AdvanceFacts
<1>3. \A c \in Channels : c # at => worker'[c] = worker[c] /\ running'[c] = running[c]
  BY DEF Spawn, Types
<1>4. \/ worker'[at] = "loop" /\ running'[at] = TRUE
      \/ worker'[at] = worker[at] /\ running'[at] = running[at]
  BY <1>1 DEF Spawn, Types
<1>5. Types'
  BY <1>1, <1>2 DEF Spawn, Types, Live
<1>6. RunningIsLive'
  BY <1>1, <1>3, <1>4 DEF RunningIsLive, Live
<1>7. Progress'
  BY <1>1, <1>2, <1>3 DEF Progress, initVars
<1>8. Holdings'
  BY <1>1, <1>2 DEF Holdings, initVars
<1> QED BY <1>5, <1>6, <1>7, <1>8

\* main passes over a worker or joins it: either way it is through.
LEMMA InvJoin == ASSUME Inv, JoinSkips \/ JoinBlocks \/ Joined PROVE Inv'
<1> USE ChannelFacts DEF Inv, Before, During, After, Killed
<1>1. /\ main \in {"join", "joining"} /\ at \in Channels
      /\ UNCHANGED <<initVars, running, worker, wall, frames, report>>
  BY DEF JoinSkips, JoinBlocks, Joined, Types, workVars
<1>2. \/ main' = "joining" /\ at' = at
      \/ /\ worker[at] \in Quiet /\ at' \in Channels
         /\ \/ main' = "report" /\ at' = 0 /\ \A c \in Channels : c <= at
            \/ main' = "join" /\ \A c \in Channels : c < at' <=> c < at \/ c = at
  <2>1. CASE JoinSkips
    <3>1. worker[at] \in Quiet
      BY <1>1, <2>1 DEF JoinSkips, Types, RunningIsLive
    <3> QED BY <1>1, <2>1, <3>1, AdvanceFacts DEF JoinSkips
  <2>2. CASE JoinBlocks
    BY <2>2 DEF JoinBlocks
  <2>3. CASE Joined
    BY <1>1, <2>3 DEF Joined, Quiet
  <2> QED BY <2>1, <2>2, <2>3
<1>3. Types' /\ RunningIsLive'
  BY <1>1, <1>2 DEF Types, RunningIsLive
<1>4. Progress'
  <2>1. handler'
    BY <1>1 DEF Progress, initVars
  <2>2. \A c \in Channels : c < at => worker[c] \in Quiet
    BY <1>1 DEF Progress
  <2> QED BY <1>1, <1>2, <2>1, <2>2 DEF Progress
<1>5. Holdings'
  BY <1>1, <1>2 DEF Holdings, initVars
<1> QED BY <1>3, <1>4, <1>5

\* The report and the releases, after the last join or before the first worker.
LEMMA InvAfter == ASSUME Inv, Report \/ ReleaseChannel PROVE Inv'
<1> USE ChannelFacts DEF Inv, Before, During, After, Killed
<1>1. /\ \/ main = "report" /\ main' = "release"
         \/ main = "undo" /\ main' \in {"undo", "failed"}
         \/ main = "release" /\ main' \in {"release", "exit"}
      /\ at' \in Channels
      /\ UNCHANGED <<running, worker, wall, frames, handler>>
  <2>1. CASE Report
    BY <2>1 DEF Report, Types, workVars, initVars
  <2>2. CASE ReleaseChannel
    <3>1. main \in {"undo", "release"} /\ at \in Channels
          /\ Advance(IF main = "undo" THEN "failed" ELSE "exit")
      BY <2>2 DEF ReleaseChannel, Types
    <3> QED BY <2>2, <3>1, AdvanceFacts DEF ReleaseChannel, workVars
  <2> QED BY <2>1, <2>2
<1>2. Types' /\ RunningIsLive'
  BY <1>1 DEF Types, RunningIsLive
<1>3. Progress'
  BY <1>1 DEF Progress
<1>4. Holdings'
  BY <1>1 DEF Report, ReleaseChannel, Holdings
<1> QED BY <1>2, <1>3, <1>4

\* A step of a worker: it only goes on while main has not passed it.
LEMMA InvWorker == ASSUME Inv, NEW c \in Channels, WorkerStep(c) PROVE Inv'
<1> USE ChannelFacts DEF Inv, Before, During, After, Killed
<1>1. UNCHANGED <<mainVars, initVars>>
  BY DEF WorkerStep, Enter, Infer, Count, Wall, ClearRunning, ThreadEnds
<1>2. /\ running' \in [Channels -> BOOLEAN] /\ wall' \in [Channels -> BOOLEAN]
      /\ worker' \in [Channels -> Live \cup Quiet]
  BY DEF WorkerStep, Enter, Infer, Count, Wall, ClearRunning, ThreadEnds, Move, Types,
         Live, Quiet
<1>3. \A d \in Channels \ {c} :
        worker'[d] = worker[d] /\ running'[d] = running[d] /\ wall'[d] = wall[d]
  BY DEF WorkerStep, Enter, Infer, Count, Wall, ClearRunning, ThreadEnds, Move, Types
<1>4. \/ worker[c] \in Live /\ worker'[c] \in Live /\ running'[c] = running[c]
         /\ (worker'[c] = "clear" => wall'[c])
      \/ worker[c] = "clear" /\ worker'[c] = "return" /\ running'[c] = FALSE
         /\ wall'[c] = wall[c]
      \/ worker[c] = "return" /\ worker'[c] = "returned" /\ running'[c] = running[c]
         /\ wall'[c] = wall[c]
  BY DEF WorkerStep, Enter, Infer, Count, Wall, ClearRunning, ThreadEnds, Move, Types, Live
<1>5. worker[c] \in Live \/ frames' = frames
  BY DEF WorkerStep, Enter, Infer, Count, Wall, ClearRunning, ThreadEnds, Live
<1>6. Types'
  BY <1>1, <1>2 DEF Types, mainVars
<1>7. RunningIsLive'
  BY <1>3, <1>4 DEF RunningIsLive, Live
<1>8. worker[c] # "none" /\ (worker[c] \in Quiet => worker'[c] \in Quiet)
  BY <1>4 DEF Live, Quiet
<1>9. Progress'
  BY <1>1, <1>3, <1>8 DEF Progress, mainVars, initVars
<1>10. Holdings'
  <2>1. main \in {"release", "exit"} => frames' = frames
    BY <1>5 DEF Progress, Live, Quiet
  <2> QED BY <1>1, <2>1 DEF Holdings, mainVars, initVars
<1> QED BY <1>6, <1>7, <1>9, <1>10

\* Ctrl-C: the process is killed only while no worker exists.
LEMMA InvInterrupt == ASSUME Inv, Interrupt, ~Ended PROVE Inv'
<1> USE ChannelFacts DEF Inv, Before, During, After, Killed
<1>1. /\ UNCHANGED <<at, report, initVars, running, workVars>>
      /\ main' = main \/ (main' = "killed" /\ ~handler)
  BY DEF Interrupt
<1>2. main' = main \/ (main' = "killed" /\ main \in Before)
  BY <1>1 DEF Ended, Types, Progress
<1>3. Types' /\ RunningIsLive'
  BY <1>1, <1>2 DEF Types, RunningIsLive, workVars
<1>4. Progress' /\ Holdings'
  BY <1>1, <1>2 DEF Progress, Holdings, workVars, initVars
<1> QED BY <1>3, <1>4

\* Every step preserves the invariant.
LEMMA InvNext == Inv /\ [Next]_vars => Inv'
<1> SUFFICES ASSUME Inv, [Next]_vars PROVE Inv'
  OBVIOUS
<1>1. CASE MainStep
  BY <1>1, InvBefore, InvSpawn, InvJoin, InvAfter DEF MainStep
<1>2. CASE \E c \in Channels : WorkerStep(c)
  BY <1>2, InvWorker
<1>3. CASE Interrupt /\ ~Ended
  BY <1>3, InvInterrupt
<1>4. CASE UNCHANGED vars
  BY <1>4 DEF vars, mainVars, initVars, workVars, Inv, Types, RunningIsLive, Progress,
              Holdings
<1> QED BY <1>1, <1>2, <1>3, <1>4 DEF Next

\* The invariant holds in every state.
LEMMA Invariance == Spec => []Inv
BY InvInit, InvNext, PTL DEF Spec

\* A channel is not released under its worker, although main skips the join of one
\* whose running it found cleared (multi_camera_demo.cc, the join loop of main).
THEOREM NothingReleasedInUse == Spec => []NoUseAfterRelease
<1>1. Inv => NoUseAfterRelease
  <2> SUFFICES ASSUME Inv, NEW c \in Channels, worker[c] \in {"infer", "count", "wall"}
               PROVE  c \in ctx
    BY DEF NoUseAfterRelease
  <2>1. main \in During
    BY DEF Inv, Types, Progress, Before, During, After, Killed, Quiet
  <2> QED BY <2>1 DEF Inv, Holdings
<1> QED BY <1>1, Invariance, PTL

\* The report shows the final counts of every worker that was started, joined or not.
THEOREM ReportsAreFinal == Spec => []ReportIsFinal
<1>1. Inv => ReportIsFinal
  BY DEF Inv, RunningIsLive, Progress, Holdings, ReportIsFinal, After, Quiet
<1> QED BY <1>1, Invariance, PTL

-----------------------------------------------------------------------------

\* The board of a channel is one of the boards of the command line.
LEMMA BoardExists == ASSUME NEW c \in Channels PROVE BoardOf(c) \in Int /\ BoardOf(c) < Boards
<1>1. Boards \in Nat \ {0} /\ PerBoard \in Nat \ {0} /\ c \in Nat /\ c < Boards * PerBoard
  BY CameraAssumption, ChannelFacts DEF NChannels
<1> DEFINE q == c \div PerBoard
<1>2. q \in Int /\ q * PerBoard <= c
  BY <1>1
<1> HIDE DEF q
<1>3. ASSUME q >= Boards PROVE FALSE
  <2>1. q * PerBoard >= Boards * PerBoard
    BY <1>1, <1>2, <1>3
  <2>2. Boards * PerBoard \in Int /\ q * PerBoard \in Int
    BY <1>1, <1>2
  <2> QED BY <1>1, <1>2, <2>1, <2>2
<1> QED BY <1>1, <1>2, <1>3 DEF BoardOf, q

LEMMA OpenInit == Init => LeftOpen
BY CameraAssumption DEF Init, LeftOpen, AllReleased

\* Every channel that was opened is before at, and is passed again by the releases.
LEMMA OpenStep == ASSUME Inv, LeftOpen, [Next]_vars PROVE LeftOpen'
<1> USE ChannelFacts DEF LeftOpen
<1>0. at \in Channels
  BY DEF Inv, Types
<1>1. CASE InitChannel
  <2>1. /\ main = "init" /\ Advance("handler") /\ ctx' = ctx \cup {at} /\ devices' = devices
    BY <1>1 DEF InitChannel
  <2>2. /\ main' \in {"init", "handler"}
        /\ main' = "init" => \A c \in Channels : c < at' <=> c < at \/ c = at
    BY <1>0, <2>1, AdvanceFacts
  <2> QED BY <1>0, <2>1, <2>2 DEF AllReleased
<1>2. CASE InitFails
  <2>1. /\ main' = "undo" /\ at' = 0 /\ ctx' \subseteq ctx \cup {at} /\ devices' = devices
    BY <1>2 DEF InitFails
  <2> QED BY <1>0, <2>1 DEF AllReleased
<1>3. CASE NoDevice
  <2>1. /\ main' = "failed" /\ BoardOf(at) >= devices /\ UNCHANGED <<at, ctx, devices>>
    BY <1>3 DEF NoDevice, initVars
  <2>2. Boards \in Nat /\ BoardOf(at) \in Int /\ BoardOf(at) < Boards
    BY <1>0, BoardExists, CameraAssumption
  <2>3. ~(devices >= Boards)
    BY <2>1, <2>2
  <2> QED BY <2>1, <2>3 DEF AllReleased
<1>4. CASE ReleaseChannel
  <2>1. /\ main \in {"undo", "release"} /\ ctx' = ctx \ {at} /\ devices' = devices
        /\ Advance(IF main = "undo" THEN "failed" ELSE "exit")
    BY <1>4 DEF ReleaseChannel
  <2>2. \/ main' \in {"failed", "exit"} /\ \A c \in Channels : c <= at
        \/ main' = main /\ \A c \in Channels : c < at' <=> c < at \/ c = at
    BY <1>0, <2>1, AdvanceFacts
  <2>3. at' \in Channels
    BY <1>0, <2>1, AdvanceFacts
  <2>4. \A c \in ctx' : c \in Channels /\ c > at
    BY <1>0, <2>1
  <2>5. CASE main' \in {"failed", "exit"} /\ \A c \in Channels : c <= at
    <3>1. ctx' = {}
      BY <1>0, <2>4, <2>5
    <3> QED BY <2>1, <2>5, <3>1 DEF AllReleased
  <2>6. CASE main' = main /\ \A c \in Channels : c < at' <=> c < at \/ c = at
    <3>1. \A c \in ctx' : c >= at'
      BY <1>0, <2>3, <2>4, <2>6
    <3> QED BY <2>1, <2>4, <2>6, <3>1 DEF AllReleased
  <2> QED BY <2>2, <2>5, <2>6
<1>5. CASE InstallHandler \/ Spawn \/ JoinBlocks
  <2>1. /\ main' \in {"spawn", "join", "joining"} /\ UNCHANGED <<ctx, devices>>
    BY <1>0, <1>5, AdvanceFacts DEF InstallHandler, Spawn, JoinBlocks, initVars
  <2> QED BY <2>1 DEF AllReleased
<1>6. CASE JoinSkips \/ Joined
  <2>1. /\ main' \in {"join", "report"} /\ UNCHANGED <<ctx, devices>>
        /\ main' = "report" => at' = 0
    BY <1>6, ChannelFacts DEF JoinSkips, Joined, Advance, initVars
  <2> QED BY <2>1 DEF AllReleased
<1>7. CASE Report
  <2>1. /\ main = "report" /\ main' = "release" /\ UNCHANGED <<at, ctx, devices>>
    BY <1>7 DEF Report, initVars
  <2> QED BY <2>1 DEF AllReleased
<1>8. CASE Interrupt
  <2>1. main' \in {main, "killed"} /\ UNCHANGED <<at, ctx, devices>>
    BY <1>8 DEF Interrupt, initVars
  <2> QED BY <2>1 DEF AllReleased
<1>9. CASE \E c \in Channels : WorkerStep(c)
  <2>1. UNCHANGED <<mainVars, initVars>>
    BY <1>9 DEF WorkerStep, Enter, Infer, Count, Wall, ClearRunning, ThreadEnds
  <2> QED BY <2>1 DEF mainVars, initVars, AllReleased
<1>10. CASE UNCHANGED vars
  BY <1>10 DEF vars, mainVars, initVars, AllReleased
<1> QED BY <1>1, <1>2, <1>3, <1>4, <1>5, <1>6, <1>7, <1>8, <1>9, <1>10 DEF Next, MainStep

\* Whichever channel fails to open, and whether its context was created or not, main
\* returns with every model released, unless a board has no device.
THEOREM EverythingIsReleased == Spec => []AllReleased
<1>1. LeftOpen => AllReleased
  BY DEF LeftOpen
<1>2. Inv /\ LeftOpen /\ [Next]_vars => LeftOpen'
  BY OpenStep
<1> QED BY <1>1, <1>2, OpenInit, Invariance, PTL DEF Spec
=============================================================================

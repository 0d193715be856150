----------------------------- MODULE LlavaServing -----------------------------
(***************************************************************************)
(* The serving of examples/FastVLM/python/llava/serve: gradio asks the     *)
(* controller for the address of a worker and streams from that worker.    *)
(*                                                                         *)
(* Controller and worker are event loops: an endpoint runs to its next     *)
(* await, and a blocking call of requests in it stops the whole loop.      *)
(* Beside the loops run the expiry thread of the controller, which shares  *)
(* worker_info with it, the heart beat thread of each worker, the pool     *)
(* threads that run the background task of an answer, and the threads of   *)
(* model.generate.  A process may crash and start again.                   *)
(*                                                                         *)
(* model_semaphore is an asyncio.Semaphore, which is acquired in the loop  *)
(* and released in a pool thread although it is not made for threads: its  *)
(* operations (of Python 3.11) are split where the other side can come in  *)
(* between.                                                                *)
(***************************************************************************)
EXTENDS Integers, FiniteSets

CONSTANTS
  Workers, Requests,
  Fleets, \* bound: the workers and requests that there may be together, how often a
          \* worker or the controller crashes then and refresh_all_workers is called,
          \* and whether heart beats get old
  Limit   \* --limit-model-concurrency

ASSUME ServingAssumption ==
  /\ IsFiniteSet(Requests) /\ Limit \in Nat \ {0}
  /\ Fleets \subseteq [workers : SUBSET Workers, requests : SUBSET Requests,
                       crashes : Nat, refreshes : Nat, ages : BOOLEAN]

VARIABLES
  fleet,      \* which of the Fleets this is
  controller, \* "up", "refresh" while refresh_all_workers blocks it, "down"
  todo,       \* the workers of old_info that it has not polled
  info,       \* worker_info: queue_length of the workers that are in it
  stale,      \* those whose last_heart_beat is before expire
  expiry,     \* where the expiry thread is
  doomed,     \* to_delete
  up,         \* workers whose process runs
  timer,      \* the heart beat thread: "sleep", "register", "dead"
  value,      \* model_semaphore._value
  pc,         \* where the request is: with gradio, with the worker, over
  at,         \* the worker whose address it was given
  generating, \* requests whose thread of model.generate runs
  lost,       \* history: slots that no request will release
  missed,     \* history: requests that queued up when a release had looked for them
  crashes, controllerCrashed, refreshes

ctlVars     == <<controller, todo, info, stale>>
expiryVars  == <<expiry, doomed>>
workerVars  == <<up, timer, value, lost>>
requestVars == <<pc, at, generating, missed>>
boundVars   == <<fleet, crashes, controllerCrashed, refreshes>>
vars == <<ctlVars, expiryVars, workerVars, requestVars, boundVars>>

Listed == DOMAIN info

Init ==
  /\ fleet \in Fleets
  /\ controller = "up" /\ todo = {} /\ info = << >> /\ stale = {}
  /\ expiry = "sleep" /\ doomed = {}
  /\ up = {} /\ timer = [w \in Workers |-> "dead"]
  /\ value = [w \in Workers |-> Limit] /\ lost = [w \in Workers |-> 0]
  /\ pc = [r \in Requests |-> IF r \in fleet.requests THEN "new" ELSE "over"]
  /\ at = [r \in Requests |-> CHOOSE w \in Workers : TRUE]
  /\ generating = {} /\ missed = {}
  /\ crashes = 0 /\ controllerCrashed = FALSE /\ refreshes = 0

With(w, labels) == {r \in Requests : pc[r] \in labels /\ at[r] = w}

\* A waiter that was woken has its slot before it runs.
Holders(w) == With(w, {"woken", "beat", "register", "accepted", "stream", "release"})

\* send_heart_beat is called from the endpoint, and blocks the worker's loop.
Blocked(w) == With(w, {"beat", "register"}) # {}

\* The loop is inside acquire, between its look at the semaphore and the waiters.
Queueing(w) == With(w, {"looked"}) # {}

LoopFree(w) == ~Blocked(w) /\ ~Queueing(w)

\* model_semaphore._waiters: one that was woken is there until it runs.
Waiters(w) == With(w, {"waiting", "woken"})

\* get_queue_length
QueueLength(w) == Limit - value[w] + Cardinality(Waiters(w))

-----------------------------------------------------------------------------
(* worker_info, and the thread that expires it.                              *)

\* A new name changes the size of the dictionary that the expiry thread iterates.
Grow(w) == expiry' = IF expiry = "iterate" /\ w \notin Listed THEN "broken" ELSE expiry

Enter(w, q) == [v \in Listed \cup {w} |-> IF v = w THEN q ELSE info[v]]
Drop(w)     == [v \in Listed \ {w} |-> info[v]]

\* register_worker with the status that the worker sent.
Register(w) ==
  /\ info' = Enter(w, QueueLength(w)) /\ stale' = stale \ {w}
  /\ Grow(w)
  /\ UNCHANGED <<controller, todo, doomed>>

\* receive_heart_beat of a worker that is known.
Refreshed(w) ==
  /\ info' = [info EXCEPT ![w] = QueueLength(w)] /\ stale' = stale \ {w}
  /\ UNCHANGED <<controller, todo, expiryVars>>

\* CONTROLLER_HEART_BEAT_EXPIRATION seconds pass without a heart beat.
Ages(w) ==
  /\ fleet.ages /\ controller # "down" /\ w \in Listed \ stale
  /\ stale' = stale \cup {w}
  /\ UNCHANGED <<controller, todo, info, expiryVars, workerVars, requestVars, boundVars>>

\* Mutant: a worker with requests in its queue is not expired.
ScanBegins_OnlyIdle ==
  /\ controller # "down" /\ expiry = "sleep"
  /\ expiry' = "iterate" /\ doomed' = {w \in stale : info[w] = 0}
  /\ UNCHANGED <<ctlVars, workerVars, requestVars, boundVars>>

\* The first part of remove_stable_workers_by_expiration.
ScanBegins ==
  /\ controller # "down" /\ expiry = "sleep"
  /\ expiry' = "iterate" /\ doomed' = stale
  /\ UNCHANGED <<ctlVars, workerVars, requestVars, boundVars>>

\* Changed size during iteration: the thread dies of the RuntimeError.
ScanEnds ==
  /\ expiry \in {"iterate", "old", "broken"}
  /\ expiry' = IF expiry = "broken" THEN "dead" ELSE "delete"
  /\ UNCHANGED <<ctlVars, doomed, workerVars, requestVars, boundVars>>

\* remove_worker; a KeyError if refresh_all_workers has replaced worker_info.
Expire ==
  /\ expiry = "delete"
  /\ IF doomed = {}
     THEN expiry' = "sleep" /\ UNCHANGED <<ctlVars, doomed>>
     ELSE \E w \in doomed :
            IF w \in Listed
            THEN /\ info' = Drop(w) /\ stale' = stale \ {w} /\ doomed' = doomed \ {w}
                 /\ UNCHANGED <<controller, todo, expiry>>
            ELSE expiry' = "dead" /\ UNCHANGED <<ctlVars, doomed>>
  /\ UNCHANGED <<workerVars, requestVars, boundVars>>

\* refresh_all_workers, for which gradio asks whenever its page is loaded.
RefreshBegins ==
  /\ controller = "up" /\ refreshes < fleet.refreshes
  /\ controller' = "refresh" /\ todo' = Listed
  /\ info' = << >> /\ stale' = {}
  /\ expiry' = IF expiry = "iterate" THEN "old" ELSE expiry
  /\ refreshes' = refreshes + 1
  /\ UNCHANGED <<doomed, workerVars, requestVars, fleet, crashes, controllerCrashed>>

\* Mutant: worker_get_status is waited for without a timeout.
RefreshWorker_NoTimeout(w) ==
  /\ controller = "refresh" /\ w \in todo
  /\ w \in up => LoopFree(w)
  /\ todo' = todo \ {w}
  /\ IF w \in up
     THEN info' = Enter(w, QueueLength(w)) /\ stale' = stale \ {w} /\ Grow(w)
     ELSE UNCHANGED <<info, stale, expiry>>
  /\ UNCHANGED <<controller, doomed, workerVars, requestVars, boundVars>>

\* register_worker without a status: get_worker_status asks for it, for 5 seconds.  A
\* worker that is down, or waits for the controller itself, does not answer in time.
RefreshWorker(w) ==
  /\ controller = "refresh" /\ w \in todo
  /\ w \in up => ~Queueing(w)
  /\ todo' = todo \ {w}
  /\ IF w \in up /\ ~Blocked(w)
     THEN info' = Enter(w, QueueLength(w)) /\ stale' = stale \ {w} /\ Grow(w)
     ELSE UNCHANGED <<info, stale, expiry>>
  /\ UNCHANGED <<controller, doomed, workerVars, requestVars, boundVars>>

RefreshEnds ==
  /\ controller = "refresh" /\ todo = {}
  /\ controller' = "up"
  /\ UNCHANGED <<todo, info, stale, expiryVars, workerVars, requestVars, boundVars>>

-----------------------------------------------------------------------------
(* Processes start and crash.                                                *)

Free(w) == value' = [value EXCEPT ![w] = Limit] /\ lost' = [lost EXCEPT ![w] = 0]

\* ModelWorker.__init__: a worker that cannot register does not come up.
WorkerStarts(w) ==
  /\ controller = "up" /\ w \in fleet.workers \ up
  /\ up' = up \cup {w} /\ timer' = [timer EXCEPT ![w] = "sleep"]
  /\ Register(w) /\ UNCHANGED <<value, lost, requestVars, boundVars>>

\* What it serves is over: the connections of the clients break.
WorkerCrashes(w) ==
  /\ w \in up /\ crashes < fleet.crashes
  /\ up' = up \ {w} /\ timer' = [timer EXCEPT ![w] = "dead"] /\ Free(w)
  /\ LET its == {r \in Requests : at[r] = w /\ pc[r] \notin {"new", "sent"}}
     IN /\ pc' = [r \in Requests |-> IF r \in its THEN "over" ELSE pc[r]]
        /\ generating' = generating \ its /\ missed' = missed \ its
  /\ crashes' = crashes + 1
  /\ UNCHANGED <<at, ctlVars, expiryVars, fleet, controllerCrashed, refreshes>>

ControllerCrashes ==
  /\ controller # "down" /\ crashes < fleet.crashes
  /\ controller' = "down" /\ todo' = {} /\ info' = << >> /\ stale' = {}
  /\ expiry' = "dead" /\ doomed' = {}
  /\ crashes' = crashes + 1 /\ controllerCrashed' = TRUE
  /\ UNCHANGED <<fleet, refreshes, workerVars, requestVars>>

ControllerStarts ==
  /\ controller = "down"
  /\ controller' = "up" /\ expiry' = "sleep"
  /\ UNCHANGED <<todo, info, stale, doomed, workerVars, requestVars, boundVars>>

-----------------------------------------------------------------------------
(* The heart beat thread of a worker.                                        *)

\* Mutant: the answer to the heart beat is not looked at.
TimerBeat_NoRegister(w) ==
  /\ controller = "up" /\ timer[w] = "sleep"
  /\ IF w \in Listed THEN Refreshed(w) ELSE UNCHANGED <<ctlVars, expiryVars>>
  /\ UNCHANGED <<timer, up, value, lost, requestVars, boundVars>>

\* send_heart_beat, tried again until the controller answers.
TimerBeat(w) ==
  /\ controller = "up" /\ timer[w] = "sleep"
  /\ IF w \in Listed
     THEN Refreshed(w) /\ UNCHANGED timer
     ELSE timer' = [timer EXCEPT ![w] = "register"] /\ UNCHANGED <<ctlVars, expiryVars>>
  /\ UNCHANGED <<up, value, lost, requestVars, boundVars>>

\* register_to_controller: an exception that the thread does not survive.
TimerRegister(w) ==
  /\ timer[w] = "register"
  /\ \/ controller = "up" /\ Register(w) /\ timer' = [timer EXCEPT ![w] = "sleep"]
     \/ controller = "down" /\ timer' = [timer EXCEPT ![w] = "dead"]
                            /\ UNCHANGED <<ctlVars, expiryVars>>
  /\ UNCHANGED <<up, value, lost, requestVars, boundVars>>

-----------------------------------------------------------------------------
(* A request.                                                                *)

Goto(r, label) == pc' = [pc EXCEPT ![r] = label]

\* The listed workers with the shortest queue.  argmin takes the first of them.
Shortest == {w \in Listed : \A v \in Listed : info[w] <= info[v]}

\* get_worker_address: counts the request it sends there.
GetAddress(r) ==
  /\ controller = "up" /\ pc[r] = "new"
  /\ \E w \in Shortest :
       /\ at' = [at EXCEPT ![r] = w] /\ info' = [info EXCEPT ![w] = @ + 1]
  /\ Goto(r, "sent")
  /\ UNCHANGED <<controller, todo, stale, expiryVars, workerVars, generating, missed, boundVars>>

\* There is no worker; the expiry thread deletes under the iteration; or the controller
\* does not answer.
NoAddress(r) ==
  /\ pc[r] = "new"
  /\ (controller = "up" /\ Listed = {}) \/ expiry = "delete" \/ controller = "down"
  /\ Goto(r, "over")
  /\ UNCHANGED <<ctlVars, expiryVars, workerVars, at, generating, missed, boundVars>>

\* Semaphore.locked.  A value below zero counts as free.
Locked(w) == value[w] = 0 \/ Waiters(w) # {}

\* The request arrives at the endpoint generate_stream of the worker, which acquires the
\* semaphore: it takes a free slot, or is about to make itself a waiter.
Arrive(r) ==
  /\ pc[r] = "sent" /\ at[r] \in up /\ LoopFree(at[r])
  /\ IF Locked(at[r])
     THEN Goto(r, "looked") /\ UNCHANGED value
     ELSE Goto(r, "beat") /\ value' = [value EXCEPT ![at[r]] = @ - 1]
  /\ UNCHANGED <<ctlVars, expiryVars, up, timer, lost, at, generating, missed, boundVars>>

\* _waiters.append, whatever was released since the look.
QueueUp(r) ==
  /\ pc[r] = "looked"
  /\ Goto(r, "waiting")
  /\ UNCHANGED <<ctlVars, expiryVars, workerVars, at, generating, missed, boundVars>>

Refused(r) ==
  /\ pc[r] = "sent" /\ at[r] \notin up
  /\ Goto(r, "over")
  /\ UNCHANGED <<ctlVars, expiryVars, workerVars, at, generating, missed, boundVars>>

\* Semaphore._wake_up_next, after which r goes on at label: a waiter is handed a slot.
WakeUpNext(r, label) ==
  LET asleep == With(at[r], {"waiting"})
  IN IF asleep = {}
     THEN Goto(r, label) /\ UNCHANGED value
     ELSE \E q \in asleep :
            /\ pc' = [pc EXCEPT ![r] = label, ![q] = "woken"]
            /\ value' = [value EXCEPT ![at[r]] = @ - 1]

\* The rest of acquire, when the loop gets to the waiter that was woken.  (A value above
\* zero takes two releases, and so a limit of two, and four requests.)
Acquire(r) ==
  /\ pc[r] = "woken" /\ LoopFree(at[r])
  /\ IF value[at[r]] > 0
     THEN WakeUpNext(r, "beat")
     ELSE Goto(r, "beat") /\ UNCHANGED value
  /\ UNCHANGED <<ctlVars, expiryVars, up, timer, lost, at, generating, missed, boundVars>>

\* The heart beat of the endpoint, and the one after the release.
Beat(r) ==
  /\ controller = "up" /\ pc[r] \in {"beat", "after"}
  /\ IF at[r] \in Listed
     THEN Refreshed(at[r]) /\ Goto(r, IF pc[r] = "beat" THEN "accepted" ELSE "over")
     ELSE /\ Goto(r, IF pc[r] = "beat" THEN "register" ELSE "after_register")
          /\ UNCHANGED <<ctlVars, expiryVars>>
  /\ UNCHANGED <<workerVars, at, generating, missed, boundVars>>

Registers(r) ==
  /\ controller = "up" /\ pc[r] \in {"register", "after_register"}
  /\ Register(at[r])
  /\ Goto(r, IF pc[r] = "register" THEN "accepted" ELSE "over")
  /\ UNCHANGED <<workerVars, at, generating, missed, boundVars>>

\* An exception in the endpoint: no answer, no background task, and no release.
RegisterFails(r) ==
  /\ controller = "down" /\ pc[r] = "register"
  /\ lost' = [lost EXCEPT ![at[r]] = @ + 1]
  /\ Goto(r, "over")
  /\ UNCHANGED <<ctlVars, expiryVars, up, timer, value, at, generating, missed, boundVars>>

\* An exception in the background task.
RegisterFailsAfter(r) ==
  /\ controller = "down" /\ pc[r] = "after_register"
  /\ Goto(r, "over")
  /\ UNCHANGED <<ctlVars, expiryVars, workerVars, at, generating, missed, boundVars>>

\* generate_stream starts the thread of model.generate, or refuses the prompt.
Generate(r) ==
  /\ pc[r] = "accepted"
  /\ \/ Goto(r, "stream") /\ generating' = generating \cup {r}
     \/ Goto(r, "release") /\ UNCHANGED generating
  /\ UNCHANGED <<ctlVars, expiryVars, workerVars, at, missed, boundVars>>

GenerateEnds(r) ==
  /\ r \in generating
  /\ generating' = generating \ {r}
  /\ UNCHANGED <<ctlVars, expiryVars, workerVars, pc, at, missed, boundVars>>

\* The streamer has ended with the thread.
Streamed(r) ==
  /\ pc[r] = "stream" /\ r \notin generating
  /\ Goto(r, "release")
  /\ UNCHANGED <<ctlVars, expiryVars, workerVars, at, generating, missed, boundVars>>

\* Mutant: the slot is released at the end of the generator, when nothing breaks it off.
StreamBreaks_NoRelease(r) ==
  /\ pc[r] = "stream"
  /\ Goto(r, "over")
  /\ UNCHANGED <<ctlVars, expiryVars, workerVars, at, generating, missed, boundVars>>

\* The streamer times out after 15 seconds without a token, or http_bot gave up after 10
\* and closed: the answer is over, and the thread of model.generate is left behind.
StreamBreaks(r) ==
  /\ pc[r] = "stream"
  /\ Goto(r, "release")
  /\ UNCHANGED <<ctlVars, expiryVars, workerVars, at, generating, missed, boundVars>>

\* release_model_semaphore, the background task of every answer, in a pool thread: the
\* slot is free.
Release(r) ==
  /\ pc[r] = "release"
  /\ value' = [value EXCEPT ![at[r]] = @ + 1]
  /\ Goto(r, "wake")
  /\ UNCHANGED <<ctlVars, expiryVars, up, timer, lost, at, generating, missed, boundVars>>

\* Mutant: nobody is woken.
Wake_Nobody(r) ==
  /\ pc[r] = "wake"
  /\ Goto(r, "after")
  /\ UNCHANGED <<ctlVars, expiryVars, workerVars, at, generating, missed, boundVars>>

\* The rest of release.  It does not see a request that is about to queue up.
Wake(r) ==
  /\ pc[r] = "wake"
  /\ WakeUpNext(r, "after")
  /\ missed' = IF With(at[r], {"waiting"}) = {} THEN missed \cup With(at[r], {"looked"}) ELSE missed
  /\ UNCHANGED <<ctlVars, expiryVars, up, timer, lost, at, generating, boundVars>>

-----------------------------------------------------------------------------

ControllerStep ==
  \/ RefreshBegins \/ RefreshEnds \/ \E w \in Workers : RefreshWorker(w)
  \/ ControllerCrashes \/ ControllerStarts

ExpiryStep == ScanBegins \/ ScanEnds \/ Expire

WorkerStep(w) ==
  \/ WorkerStarts(w) \/ WorkerCrashes(w) \/ Ages(w) \/ TimerBeat(w) \/ TimerRegister(w)

\* The steps of a request that do not wait for another request.
Proceed(r) ==
  \/ Arrive(r) \/ QueueUp(r) \/ Acquire(r) \/ Beat(r)
  \/ Registers(r) \/ RegisterFails(r) \/ RegisterFailsAfter(r)
  \/ Generate(r) \/ Streamed(r) \/ Release(r) \/ Wake(r)

RequestStep(r) ==
  \/ GetAddress(r) \/ NoAddress(r) \/ Refused(r) \/ Proceed(r)
  \/ GenerateEnds(r) \/ StreamBreaks(r)

Next ==
  \/ ControllerStep \/ ExpiryStep
  \/ \E w \in Workers : WorkerStep(w)
  \/ \E r \in Requests : RequestStep(r)

\* The loops and threads run, every generation ends, and timeouts expire.  That a
\* process is started, or a page loaded, is up to a user.
Fairness ==
  /\ WF_vars(RefreshEnds \/ \E w \in Workers : RefreshWorker(w))
  /\ WF_vars(ExpiryStep)
  /\ \A w \in Workers : WF_vars(Ages(w)) /\ WF_vars(TimerBeat(w)) /\ WF_vars(TimerRegister(w))
  /\ \A r \in Requests : WF_vars(Proceed(r)) /\ WF_vars(GenerateEnds(r))

Spec == Init /\ [][Next]_vars /\ Fairness

-----------------------------------------------------------------------------

\* Every slot of the semaphore is free or held by a request that will release it, unless
\* a registration in the endpoint failed, for which the controller must have crashed.
\* (The value falls below zero, and more than Limit requests hold a slot, when one takes a
\* slot and another queues up between the two steps of a release.)
SlotsAccounted ==
  \A w \in Workers :
    /\ value[w] + Cardinality(Holders(w)) + lost[w] = Limit
    /\ lost[w] > 0 => controllerCrashed

\* A slot is free and nobody is there to wake a waiter up, because a release fell between
\* the look of one of the waiters at the semaphore and its queueing up.
Forgotten(w) ==
  /\ value[w] > 0 /\ Holders(w) \cup With(w, {"wake"}) = {}
  /\ missed \cap With(w, {"waiting"}) # {}

\* A request that a worker has accepted gets a slot, passes the heart beat, in which worker
\* and controller could wait for each other, and gets its answer, unless the worker dies or
\* slots were lost, a release fell into an acquire as above, or the controller, for which
\* it or the holder of the slot waits, never comes back.
AcceptedIsServed ==
  LET accepted == {"looked", "waiting", "woken", "beat", "register"}
  IN \A r \in Requests :
       pc[r] \in accepted ~> \/ pc[r] \notin accepted \/ lost[at[r]] > 0 \/ Forgotten(at[r])
                              \/ [](controller = "down")

\* A worker that the controller has forgotten, for a restart, a refresh while the worker
\* was blocked, or an expiry it had just escaped, is listed again, as long as its heart
\* beat thread is not dead and the controller is there.
LiveWorkerListed ==
  \A w \in Workers :
    timer[w] # "dead" ~> w \in Listed \/ timer[w] = "dead" \/ [](controller = "down")

\* A worker that stays down is forgotten, as long as the expiry thread is not dead.
DeadWorkerForgotten ==
  \A w \in Workers :
    w \notin up ~> w \in up \/ expiry = "dead" \/ [](w \notin Listed)
=============================================================================

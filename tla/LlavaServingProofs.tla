-------------------------- MODULE LlavaServingProofs --------------------------
(***************************************************************************)
(* The slots of the workers' semaphores, for any workers and requests, any *)
(* limit, and any number of crashes and refreshes.                         *)
(***************************************************************************)
EXTENDS LlavaServing, FiniteSetTheorems, TLAPS

Held == {"woken", "beat", "register", "accepted", "stream", "release"}

Types ==
  /\ DOMAIN pc = Requests /\ DOMAIN at = Requests
  /\ value \in [Workers -> Int] /\ lost \in [Workers -> Nat]

Accounted == \A w \in Workers : value[w] + Cardinality(Holders(w)) + lost[w] = Limit

\* A slot is only lost to a registration that failed, when the controller was down.
LostByCrash ==
  /\ \A w \in Workers : lost[w] > 0 => controllerCrashed = TRUE
  /\ controller = "down" => controllerCrashed = TRUE

Inv == Types /\ Accounted /\ LostByCrash

-----------------------------------------------------------------------------
(* Who holds a slot.                                                         *)

LEMMA HoldersFinite ==
  ASSUME NEW w
  PROVE  IsFiniteSet(Holders(w)) /\ Cardinality(Holders(w)) \in Nat
<1>1. Holders(w) \subseteq Requests
  BY DEF Holders, With
<1> QED  BY <1>1, ServingAssumption, FS_Subset, FS_CardinalityType

\* A request that goes on with its slot, or without one, changes no holders.
LEMMA GoesOn ==
  ASSUME Types, NEW r \in Requests, NEW l, Goto(r, l), UNCHANGED at,
         l \in Held <=> pc[r] \in Held
  PROVE  DOMAIN pc' = Requests /\ \A w \in Workers : Holders(w)' = Holders(w)
<1>1. DOMAIN pc' = Requests /\ pc'[r] = l /\ \A q \in Requests : q # r => pc'[q] = pc[q]
  BY DEF Types, Goto
<1>2. \A q \in Requests : pc'[q] \in Held <=> pc[q] \in Held
  BY <1>1
<1> QED  BY <1>1, <1>2 DEF Holders, With, Held

\* One that gets a slot becomes a holder.
LEMMA GetsSlot ==
  ASSUME Types, NEW r \in Requests, NEW l \in Held, Goto(r, l), UNCHANGED at,
         pc[r] \notin Held
  PROVE  /\ DOMAIN pc' = Requests
         /\ \A w \in Workers :
              Cardinality(Holders(w))' = Cardinality(Holders(w)) + IF w = at[r] THEN 1 ELSE 0
<1>1. DOMAIN pc' = Requests /\ pc'[r] = l /\ \A q \in Requests : q # r => pc'[q] = pc[q]
  BY DEF Types, Goto
<1>2. ASSUME NEW w \in Workers
      PROVE  Cardinality(Holders(w))' = Cardinality(Holders(w)) + IF w = at[r] THEN 1 ELSE 0
  <2>1. CASE w = at[r]
    <3>1. Holders(w)' = Holders(w) \cup {r} /\ r \notin Holders(w)
      BY <1>1, <2>1 DEF Holders, With, Held
    <3>2. Cardinality(Holders(w) \cup {r}) = Cardinality(Holders(w)) + 1
      BY <3>1, HoldersFinite, FS_AddElement
    <3> QED  BY <2>1, <3>1, <3>2
  <2>2. CASE w # at[r]
    <3>1. Holders(w)' = Holders(w)
      BY <1>1, <2>2 DEF Holders, With, Held
    <3> QED  BY <2>2, <3>1, HoldersFinite
  <2> QED  BY <2>1, <2>2
<1> QED  BY <1>1, <1>2

\* One that is done with its slot is a holder no more.
LEMMA LeavesSlot ==
  ASSUME Types, NEW r \in Requests, NEW l, l \notin Held, Goto(r, l), UNCHANGED at,
         pc[r] \in Held
  PROVE  /\ DOMAIN pc' = Requests
         /\ \A w \in Workers :
              Cardinality(Holders(w))' = Cardinality(Holders(w)) - IF w = at[r] THEN 1 ELSE 0
<1>1. DOMAIN pc' = Requests /\ pc'[r] = l /\ \A q \in Requests : q # r => pc'[q] = pc[q]
  BY DEF Types, Goto
<1>2. ASSUME NEW w \in Workers
      PROVE  Cardinality(Holders(w))' = Cardinality(Holders(w)) - IF w = at[r] THEN 1 ELSE 0
  <2>1. CASE w = at[r]
    <3>1. Holders(w)' = Holders(w) \ {r} /\ r \in Holders(w)
      BY <1>1, <2>1 DEF Holders, With, Held
    <3>2. Cardinality(Holders(w) \ {r}) = Cardinality(Holders(w)) - 1
      BY <3>1, HoldersFinite, FS_RemoveElement
    <3> QED  BY <2>1, <3>1, <3>2
  <2>2. CASE w # at[r]
    <3>1. Holders(w)' = Holders(w)
      BY <1>1, <2>2 DEF Holders, With, Held
    <3> QED  BY <2>2, <3>1, HoldersFinite
  <2> QED  BY <2>1, <2>2
<1> QED  BY <1>1, <1>2

\* A request goes on as GoesOn says, and another one, asleep, is handed a slot.
LEMMA HandsSlot ==
  ASSUME Types, NEW r \in Requests, NEW q \in Requests, NEW l, q # r, UNCHANGED at,
         pc' = [pc EXCEPT ![r] = l, ![q] = "woken"],
         l \in Held <=> pc[r] \in Held, pc[q] \notin Held
  PROVE  /\ DOMAIN pc' = Requests
         /\ \A w \in Workers :
              Cardinality(Holders(w))' = Cardinality(Holders(w)) + IF w = at[q] THEN 1 ELSE 0
<1>1. /\ DOMAIN pc' = Requests /\ pc'[r] = l /\ pc'[q] = "woken"
      /\ \A o \in Requests : o # r /\ o # q => pc'[o] = pc[o]
  BY DEF Types
<1>2. /\ \A o \in Requests : o # q => (pc'[o] \in Held <=> pc[o] \in Held)
      /\ pc'[q] \in Held /\ pc[q] \notin Held
  BY <1>1 DEF Held
<1>3. \A w \in Workers : /\ Holders(w) = {o \in Requests : pc[o] \in Held /\ at[o] = w}
                          /\ Holders(w)' = {o \in Requests : pc'[o] \in Held /\ at[o] = w}
  BY DEF Holders, With, Held
<1>4. ASSUME NEW w \in Workers
      PROVE  Cardinality(Holders(w))' = Cardinality(Holders(w)) + IF w = at[q] THEN 1 ELSE 0
  <2>1. CASE w = at[q]
    <3>1. Holders(w)' = Holders(w) \cup {q} /\ q \notin Holders(w)
      BY <1>2, <1>3, <2>1
    <3>2. Cardinality(Holders(w) \cup {q}) = Cardinality(Holders(w)) + 1
      BY <3>1, HoldersFinite, FS_AddElement
    <3> QED  BY <2>1, <3>1, <3>2
  <2>2. CASE w # at[q]
    <3>1. Holders(w)' = Holders(w)
      BY <1>2, <1>3, <2>2
    <3> QED  BY <2>2, <3>1, HoldersFinite
  <2> QED  BY <2>1, <2>2
<1> QED  BY <1>1, <1>4

-----------------------------------------------------------------------------
(* The steps.                                                                *)

\* A step that changes no holders and no counts.
LEMMA Quiet ==
  ASSUME Inv, UNCHANGED <<value, lost, controllerCrashed>>,
         DOMAIN pc' = Requests, DOMAIN at' = Requests,
         \A w \in Workers : Holders(w)' = Holders(w),
         controller' # "down" \/ controller' = controller
  PROVE  Inv'
<1>1. Types'
  BY DEF Inv, Types
<1>2. Accounted'
  BY DEF Inv, Accounted
<1>3. LostByCrash'
  BY DEF Inv, LostByCrash
<1> QED  BY <1>1, <1>2, <1>3 DEF Inv

\* Steps of the controller, of its thread, and of the heart beat threads.
LEMMA NoRequest ==
  ASSUME Inv, UNCHANGED <<value, lost, controllerCrashed, pc, at>>,
         controller' # "down" \/ controller' = controller
  PROVE  Inv'
<1>1. \A w \in Workers : Holders(w)' = Holders(w)
  BY DEF Holders, With
<1> QED  BY <1>1, Quiet DEF Inv, Types

LEMMA InvController ==
  ASSUME Inv, ControllerStep
  PROVE  Inv'
<1>1. CASE ControllerCrashes
  <2>1. \A w \in Workers : Holders(w)' = Holders(w)
    BY <1>1 DEF ControllerCrashes, requestVars, Holders, With
  <2>2. Types' /\ Accounted'
    BY <1>1, <2>1 DEF ControllerCrashes, requestVars, workerVars, Inv, Types, Accounted
  <2>3. LostByCrash'
    BY <1>1 DEF ControllerCrashes, LostByCrash
  <2> QED  BY <2>2, <2>3 DEF Inv
<1>2. CASE RefreshBegins
  BY <1>2, NoRequest DEF RefreshBegins, workerVars, requestVars
<1>3. CASE RefreshEnds
  BY <1>3, NoRequest DEF RefreshEnds, workerVars, requestVars, boundVars
<1>4. CASE \E w \in Workers : RefreshWorker(w)
  BY <1>4, NoRequest DEF RefreshWorker, workerVars, requestVars, boundVars
<1>5. CASE ControllerStarts
  BY <1>5, NoRequest DEF ControllerStarts, workerVars, requestVars, boundVars
<1> QED  BY <1>1, <1>2, <1>3, <1>4, <1>5 DEF ControllerStep

LEMMA InvExpiry ==
  ASSUME Inv, ExpiryStep
  PROVE  Inv'
<1>1. UNCHANGED <<value, lost, controllerCrashed, pc, at, controller>>
  <2>1. CASE ScanBegins
    BY <2>1 DEF ScanBegins, ctlVars, workerVars, requestVars, boundVars
  <2>2. CASE ScanEnds
    BY <2>2 DEF ScanEnds, ctlVars, workerVars, requestVars, boundVars
  <2>3. CASE Expire
    BY <2>3 DEF Expire, ctlVars, workerVars, requestVars, boundVars
  <2> QED  BY <2>1, <2>2, <2>3 DEF ExpiryStep
<1> QED  BY <1>1, NoRequest

\* A worker that dies takes its semaphore and all the holders along.
LEMMA InvCrash ==
  ASSUME Inv, NEW w \in Workers, WorkerCrashes(w)
  PROVE  Inv'
<1> DEFINE its == {r \in Requests : at[r] = w /\ pc[r] \notin {"new", "sent"}}
<1>1. /\ pc' = [r \in Requests |-> IF r \in its THEN "over" ELSE pc[r]]
      /\ value' = [value EXCEPT ![w] = Limit] /\ lost' = [lost EXCEPT ![w] = 0]
      /\ UNCHANGED <<at, controller, controllerCrashed>>
  BY DEF WorkerCrashes, Free, ctlVars
<1>2. Types'
  BY <1>1, ServingAssumption DEF Inv, Types
<1>3. ASSUME NEW v \in Workers
      PROVE  value'[v] + Cardinality(Holders(v))' + lost'[v] = Limit
  <2>1. CASE v = w
    <3>1. Holders(v)' = {}
      BY <1>1, <2>1 DEF Holders, With
    <3>2. Cardinality(Holders(v))' = 0
      BY <3>1, FS_EmptySet
    <3> QED  BY <1>1, <2>1, <3>2, ServingAssumption DEF Inv, Types
  <2>2. CASE v # w
    <3>1. Holders(v)' = Holders(v)
      BY <1>1, <2>2 DEF Holders, With
    <3>2. value'[v] = value[v] /\ lost'[v] = lost[v]
      BY <1>1, <2>2 DEF Inv, Types
    <3> QED  BY <3>1, <3>2 DEF Inv, Accounted
  <2> QED  BY <2>1, <2>2
<1>4. LostByCrash'
  BY <1>1 DEF Inv, Types, LostByCrash
<1> QED  BY <1>2, <1>3, <1>4 DEF Inv, Accounted

LEMMA InvWorker ==
  ASSUME Inv, NEW w \in Workers, WorkerStep(w)
  PROVE  Inv'
<1>1. CASE WorkerCrashes(w)
  BY <1>1, InvCrash
<1>2. CASE WorkerStarts(w) \/ Ages(w) \/ TimerBeat(w) \/ TimerRegister(w)
  <2>1. UNCHANGED <<value, lost, controllerCrashed, pc, at, controller>>
    <3>1. CASE WorkerStarts(w)
      BY <3>1 DEF WorkerStarts, Register, requestVars, boundVars
    <3>2. CASE Ages(w)
      BY <3>2 DEF Ages, workerVars, requestVars, boundVars
    <3>3. CASE TimerBeat(w)
      BY <3>3 DEF TimerBeat, Refreshed, ctlVars, requestVars, boundVars
    <3>4. CASE TimerRegister(w)
      BY <3>4 DEF TimerRegister, Register, ctlVars, requestVars, boundVars
    <3> QED  BY <1>2, <3>1, <3>2, <3>3, <3>4
  <2> QED  BY <2>1, NoRequest
<1> QED  BY <1>1, <1>2 DEF WorkerStep

\* A request that is given an address holds nothing before and after.
LEMMA InvAddress ==
  ASSUME Inv, NEW r \in Requests, GetAddress(r)
  PROVE  Inv'
<1>1. /\ pc[r] = "new" /\ pc' = [pc EXCEPT ![r] = "sent"]
      /\ UNCHANGED <<value, lost, controllerCrashed, controller>>
      /\ \E w \in Shortest : at' = [at EXCEPT ![r] = w]
  BY DEF GetAddress, Goto, workerVars, boundVars
<1>2. PICK w \in Shortest : at' = [at EXCEPT ![r] = w]
  BY <1>1
<1>3. DOMAIN pc' = Requests /\ DOMAIN at' = Requests
  BY <1>1, <1>2 DEF Inv, Types
<1>4. \A q \in Requests : q # r => pc'[q] = pc[q] /\ at'[q] = at[q]
  BY <1>1, <1>2 DEF Inv, Types
<1>5. pc'[r] = "sent"
  BY <1>1 DEF Inv, Types
<1>6. \A v \in Workers : Holders(v)' = Holders(v)
  BY <1>1, <1>4, <1>5 DEF Holders, With
<1> QED  BY <1>1, <1>3, <1>6, Quiet

\* The steps of a request that neither takes nor leaves a slot.
LEMMA InvGoesOn ==
  ASSUME Inv, NEW r \in Requests,
         \/ NoAddress(r) \/ Refused(r) \/ QueueUp(r) \/ Beat(r) \/ Registers(r)
         \/ RegisterFailsAfter(r) \/ Generate(r) \/ Streamed(r) \/ StreamBreaks(r)
  PROVE  Inv'
<1>1. UNCHANGED <<value, lost, controllerCrashed, controller, at>>
  <2>1. CASE NoAddress(r)
    BY <2>1 DEF NoAddress, ctlVars, workerVars, boundVars
  <2>2. CASE Refused(r)
    BY <2>2 DEF Refused, ctlVars, workerVars, boundVars
  <2>3. CASE QueueUp(r)
    BY <2>3 DEF QueueUp, ctlVars, workerVars, boundVars
  <2>4. CASE Beat(r)
    BY <2>4 DEF Beat, Refreshed, ctlVars, workerVars, boundVars
  <2>5. CASE Registers(r)
    BY <2>5 DEF Registers, Register, workerVars, boundVars
  <2>6. CASE RegisterFailsAfter(r)
    BY <2>6 DEF RegisterFailsAfter, ctlVars, workerVars, boundVars
  <2>7. CASE Generate(r)
    BY <2>7 DEF Generate, ctlVars, workerVars, boundVars
  <2>8. CASE Streamed(r)
    BY <2>8 DEF Streamed, ctlVars, workerVars, boundVars
  <2>9. CASE StreamBreaks(r)
    BY <2>9 DEF StreamBreaks, ctlVars, workerVars, boundVars
  <2> QED  BY <2>1, <2>2, <2>3, <2>4, <2>5, <2>6, <2>7, <2>8, <2>9
<1>2. \E l : Goto(r, l) /\ (l \in Held <=> pc[r] \in Held)
  <2>1. CASE NoAddress(r)
    BY <2>1 DEF NoAddress, Held
  <2>2. CASE Refused(r)
    BY <2>2 DEF Refused, Held
  <2>3. CASE QueueUp(r)
    BY <2>3 DEF QueueUp, Held
  <2>4. CASE Beat(r)
    <3>1. pc[r] \in {"beat", "after"} /\ \E l \in {"accepted", "over", "register", "after_register"} :
            /\ Goto(r, l)
            /\ pc[r] = "beat" => l \in {"accepted", "register"}
            /\ pc[r] = "after" => l \in {"over", "after_register"}
      BY <2>4 DEF Beat
    <3> QED  BY <3>1 DEF Held
  <2>5. CASE Registers(r)
    <3>1. pc[r] \in {"register", "after_register"} /\ \E l \in {"accepted", "over"} :
            /\ Goto(r, l)
            /\ pc[r] = "register" => l = "accepted"
            /\ pc[r] = "after_register" => l = "over"
      BY <2>5 DEF Registers
    <3> QED  BY <3>1 DEF Held
  <2>6. CASE RegisterFailsAfter(r)
    BY <2>6 DEF RegisterFailsAfter, Held
  <2>7. CASE Generate(r)
    BY <2>7 DEF Generate, Held
  <2>8. CASE Streamed(r)
    BY <2>8 DEF Streamed, Held
  <2>9. CASE StreamBreaks(r)
    BY <2>9 DEF StreamBreaks, Held
  <2> QED  BY <2>1, <2>2, <2>3, <2>4, <2>5, <2>6, <2>7, <2>8, <2>9
<1>3. PICK l : Goto(r, l) /\ (l \in Held <=> pc[r] \in Held)
  BY <1>2
<1>4. DOMAIN pc' = Requests /\ \A w \in Workers : Holders(w)' = Holders(w)
  BY <1>1, <1>3, GoesOn DEF Inv
<1>5. DOMAIN at' = Requests
  BY <1>1 DEF Inv, Types
<1> QED  BY <1>1, <1>4, <1>5, Quiet

\* What a slot that changes its owner leaves to be shown: the sum of each worker.
LEMMA Balanced ==
  ASSUME Inv, DOMAIN pc' = Requests, UNCHANGED <<at, controller, controllerCrashed>>,
         value' \in [Workers -> Int], lost' \in [Workers -> Nat],
         \A w \in Workers : value'[w] + Cardinality(Holders(w))' + lost'[w]
                              = value[w] + Cardinality(Holders(w)) + lost[w],
         \A w \in Workers : lost'[w] > 0 => controllerCrashed = TRUE
  PROVE  Inv'
<1>1. Types'
  BY DEF Inv, Types
<1>2. Accounted'
  BY DEF Inv, Accounted
<1>3. LostByCrash'
  BY DEF Inv, LostByCrash
<1> QED  BY <1>1, <1>2, <1>3 DEF Inv

\* A slot of r's worker changes hands from the value to a request.
LEMMA TakesSlot ==
  ASSUME Inv, NEW r \in Requests, value' = [value EXCEPT ![at[r]] = @ - 1],
         UNCHANGED <<at, controller, controllerCrashed, lost>>, DOMAIN pc' = Requests,
         \A w \in Workers :
           Cardinality(Holders(w))' = Cardinality(Holders(w)) + IF w = at[r] THEN 1 ELSE 0
  PROVE  Inv'
<1>1. \A w \in Workers : value'[w] = value[w] - IF w = at[r] THEN 1 ELSE 0
  BY DEF Inv, Types
<1>2. value' \in [Workers -> Int] /\ lost' \in [Workers -> Nat]
  <2>1. \A w \in Workers : value'[w] \in Int
    BY <1>1 DEF Inv, Types
  <2>2. value' = [w \in Workers |-> value'[w]]
    BY DEF Inv, Types
  <2> QED  BY <2>1, <2>2 DEF Inv, Types
<1>3. ASSUME NEW w \in Workers
      PROVE  value'[w] + Cardinality(Holders(w))' + lost'[w]
               = value[w] + Cardinality(Holders(w)) + lost[w]
  <2>1. value[w] \in Int /\ lost[w] \in Int /\ lost'[w] = lost[w] /\ Cardinality(Holders(w)) \in Int
    BY HoldersFinite DEF Inv, Types
  <2> QED  BY <1>1, <2>1
<1> QED  BY <1>2, <1>3, Balanced DEF Inv, LostByCrash

LEMMA InvArrive ==
  ASSUME Inv, NEW r \in Requests, Arrive(r)
  PROVE  Inv'
<1>1. /\ pc[r] = "sent" /\ UNCHANGED <<at, controller, controllerCrashed, lost>>
      /\ \/ Goto(r, "looked") /\ UNCHANGED value
         \/ Goto(r, "beat") /\ value' = [value EXCEPT ![at[r]] = @ - 1]
  BY DEF Arrive, ctlVars, boundVars
<1>2. CASE Goto(r, "looked") /\ UNCHANGED value
  <2>1. DOMAIN pc' = Requests /\ \A w \in Workers : Holders(w)' = Holders(w)
    BY <1>1, <1>2, GoesOn DEF Inv, Held
  <2>2. DOMAIN at' = Requests
    BY <1>1 DEF Inv, Types
  <2> QED  BY <1>1, <1>2, <2>1, <2>2, Quiet
<1>3. CASE Goto(r, "beat") /\ value' = [value EXCEPT ![at[r]] = @ - 1]
  <2>1. /\ DOMAIN pc' = Requests
        /\ \A w \in Workers :
             Cardinality(Holders(w))' = Cardinality(Holders(w)) + IF w = at[r] THEN 1 ELSE 0
    BY <1>1, <1>3, GetsSlot DEF Inv, Held
  <2> QED  BY <1>1, <1>3, <2>1, TakesSlot
<1> QED  BY <1>1, <1>2, <1>3

\* Whoever walks over the waiters: one of them is handed a slot, or nobody is there.
LEMMA InvWakeUpNext ==
  ASSUME Inv, NEW r \in Requests, NEW l, WakeUpNext(r, l) \/ (Goto(r, l) /\ UNCHANGED value),
         UNCHANGED <<at, controller, controllerCrashed, lost>>,
         l \in Held <=> pc[r] \in Held, pc[r] # "waiting"
  PROVE  Inv'
<1>1. CASE Goto(r, l) /\ UNCHANGED value
  <2>1. DOMAIN pc' = Requests /\ \A w \in Workers : Holders(w)' = Holders(w)
    BY <1>1, GoesOn DEF Inv
  <2>2. DOMAIN at' = Requests
    BY DEF Inv, Types
  <2> QED  BY <1>1, <2>1, <2>2, Quiet
<1>2. CASE \E q \in With(at[r], {"waiting"}) :
             /\ pc' = [pc EXCEPT ![r] = l, ![q] = "woken"]
             /\ value' = [value EXCEPT ![at[r]] = @ - 1]
  <2>1. PICK q \in With(at[r], {"waiting"}) :
             /\ pc' = [pc EXCEPT ![r] = l, ![q] = "woken"]
             /\ value' = [value EXCEPT ![at[r]] = @ - 1]
    BY <1>2
  <2>2. q \in Requests /\ pc[q] = "waiting" /\ at[q] = at[r] /\ q # r
    BY DEF With
  <2>3. pc[q] \notin Held
    BY <2>2 DEF Held
  <2>4. /\ DOMAIN pc' = Requests
        /\ \A w \in Workers :
             Cardinality(Holders(w))' = Cardinality(Holders(w)) + IF w = at[q] THEN 1 ELSE 0
    BY <2>1, <2>2, <2>3, HandsSlot DEF Inv
  <2> QED  BY <2>1, <2>2, <2>4, TakesSlot
<1> QED  BY <1>1, <1>2 DEF WakeUpNext

LEMMA InvWakes ==
  ASSUME Inv, NEW r \in Requests, Acquire(r) \/ Wake(r)
  PROVE  Inv'
<1>1. CASE Acquire(r)
  <2>1. /\ pc[r] = "woken" /\ UNCHANGED <<at, controller, controllerCrashed, lost>>
        /\ WakeUpNext(r, "beat") \/ (Goto(r, "beat") /\ UNCHANGED value)
    BY <1>1 DEF Acquire, ctlVars, boundVars
  <2> QED  BY <2>1, InvWakeUpNext DEF Held
<1>2. CASE Wake(r)
  <2>1. /\ pc[r] = "wake" /\ UNCHANGED <<at, controller, controllerCrashed, lost>>
        /\ WakeUpNext(r, "after")
    BY <1>2 DEF Wake, ctlVars, boundVars
  <2> QED  BY <2>1, InvWakeUpNext DEF Held
<1> QED  BY <1>1, <1>2

LEMMA InvRelease ==
  ASSUME Inv, NEW r \in Requests, Release(r)
  PROVE  Inv'
<1>1. /\ pc[r] = "release" /\ Goto(r, "wake") /\ value' = [value EXCEPT ![at[r]] = @ + 1]
      /\ UNCHANGED <<at, controller, controllerCrashed, lost>>
  BY DEF Release, ctlVars, boundVars
<1>2. /\ DOMAIN pc' = Requests
      /\ \A w \in Workers :
           Cardinality(Holders(w))' = Cardinality(Holders(w)) - IF w = at[r] THEN 1 ELSE 0
  BY <1>1, LeavesSlot DEF Inv, Held
<1>3. \A w \in Workers : value'[w] = value[w] + IF w = at[r] THEN 1 ELSE 0
  BY <1>1 DEF Inv, Types
<1>4. value' \in [Workers -> Int] /\ lost' \in [Workers -> Nat]
  <2>1. \A w \in Workers : value'[w] \in Int
    BY <1>3 DEF Inv, Types
  <2>2. value' = [w \in Workers |-> value'[w]]
    BY <1>1 DEF Inv, Types
  <2> QED  BY <1>1, <2>1, <2>2 DEF Inv, Types
<1>5. ASSUME NEW w \in Workers
      PROVE  value'[w] + Cardinality(Holders(w))' + lost'[w]
               = value[w] + Cardinality(Holders(w)) + lost[w]
  <2>1. value[w] \in Int /\ lost[w] \in Int /\ lost'[w] = lost[w] /\ Cardinality(Holders(w)) \in Int
    BY <1>1, HoldersFinite DEF Inv, Types
  <2> QED  BY <1>2, <1>3, <2>1
<1> QED  BY <1>1, <1>2, <1>4, <1>5, Balanced DEF Inv, LostByCrash

\* The slot of a registration that fails is lost, and the controller is down.
LEMMA InvRegisterFails ==
  ASSUME Inv, NEW r \in Requests, RegisterFails(r)
  PROVE  Inv'
<1>1. /\ controller = "down" /\ pc[r] = "register" /\ Goto(r, "over")
      /\ lost' = [lost EXCEPT ![at[r]] = @ + 1]
      /\ UNCHANGED <<at, controller, controllerCrashed, value>>
  BY DEF RegisterFails, ctlVars, boundVars
<1>2. /\ DOMAIN pc' = Requests
      /\ \A w \in Workers :
           Cardinality(Holders(w))' = Cardinality(Holders(w)) - IF w = at[r] THEN 1 ELSE 0
  BY <1>1, LeavesSlot DEF Inv, Held
<1>3. \A w \in Workers : lost'[w] = lost[w] + IF w = at[r] THEN 1 ELSE 0
  BY <1>1 DEF Inv, Types
<1>4. value' \in [Workers -> Int] /\ lost' \in [Workers -> Nat]
  <2>1. \A w \in Workers : lost'[w] \in Nat
    BY <1>3 DEF Inv, Types
  <2>2. lost' = [w \in Workers |-> lost'[w]]
    BY <1>1 DEF Inv, Types
  <2> QED  BY <1>1, <2>1, <2>2 DEF Inv, Types
<1>5. ASSUME NEW w \in Workers
      PROVE  value'[w] + Cardinality(Holders(w))' + lost'[w]
               = value[w] + Cardinality(Holders(w)) + lost[w]
  <2>1. value[w] \in Int /\ lost[w] \in Int /\ value'[w] = value[w] /\ Cardinality(Holders(w)) \in Int
    BY <1>1, HoldersFinite DEF Inv, Types
  <2> QED  BY <1>2, <1>3, <2>1
<1>6. controllerCrashed = TRUE
  BY <1>1 DEF Inv, LostByCrash
<1> QED  BY <1>1, <1>2, <1>4, <1>5, <1>6, Balanced

LEMMA InvRequest ==
  ASSUME Inv, NEW r \in Requests, RequestStep(r)
  PROVE  Inv'
<1>1. CASE GenerateEnds(r)
  BY <1>1, NoRequest DEF GenerateEnds, ctlVars, workerVars, boundVars
<1>2. CASE ~GenerateEnds(r)
  BY <1>2, InvAddress, InvGoesOn, InvArrive, InvWakes, InvRelease, InvRegisterFails
     DEF RequestStep, Proceed
<1> QED  BY <1>1, <1>2

-----------------------------------------------------------------------------
(* The invariant holds.                                                      *)

LEMMA InvInit == Init => Inv
<1> SUFFICES ASSUME Init  PROVE Inv
  OBVIOUS
<1>1. Types
  BY ServingAssumption DEF Init, Types
<1>2. ASSUME NEW w \in Workers  PROVE value[w] + Cardinality(Holders(w)) + lost[w] = Limit
  <2>1. \A r \in Requests : pc[r] \in {"new", "over"}
    BY DEF Init
  <2>2. Holders(w) = {}
    BY <2>1 DEF Holders, With
  <2> QED  BY <2>2, FS_EmptySet, ServingAssumption DEF Init
<1>3. LostByCrash
  BY DEF Init, LostByCrash
<1> QED  BY <1>1, <1>2, <1>3 DEF Inv, Accounted

LEMMA InvNext == Inv /\ [Next]_vars => Inv'
<1>1. ASSUME Inv, Next  PROVE Inv'
  BY <1>1, InvController, InvExpiry, InvWorker, InvRequest DEF Next
<1>2. ASSUME Inv, UNCHANGED vars  PROVE Inv'
  BY <1>2, NoRequest DEF vars, ctlVars, workerVars, requestVars, boundVars
<1> QED  BY <1>1, <1>2

LEMMA InvAccounts == Inv => SlotsAccounted
<1>1. ASSUME Inv, NEW w \in Workers, lost[w] > 0  PROVE controllerCrashed
  <2>1. controllerCrashed = TRUE
    BY <1>1 DEF Inv, LostByCrash
  <2> QED  BY <2>1, Zenon
<1> QED  BY <1>1 DEF Inv, Accounted, SlotsAccounted

\* The slots of every worker add up to the limit in every state, whatever requests come
\* and break off, however releases in pool threads fall into an acquire, and whichever
\* process crashes and starts again: acquire, the release in the background task and the
\* registration that fails in the endpoint account for them all, and only that
\* registration, with the controller gone, loses one.
THEOREM SlotsNeverLeak == Spec => []SlotsAccounted
<1>1. Init => Inv
  BY InvInit
<1>2. Inv /\ [Next]_vars => Inv'
  BY InvNext
<1>3. Inv => SlotsAccounted
  BY InvAccounts
<1> QED  BY <1>1, <1>2, <1>3, PTL DEF Spec
=============================================================================

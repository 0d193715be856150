---------------------------- MODULE PipelineCall ----------------------------
(***************************************************************************)
(* What one call of run_pipeline_once promises, without threads or slots:  *)
(* an input is fed to the KV caches of the stages, no stage ahead of the   *)
(* one before it, and the call returns true only if all of them have all   *)
(* of it.                                                                  *)
(***************************************************************************)
EXTENDS CallState

VARIABLE running \* a call is under way

seenVars == <<running, fed, samples, input, outcome, runs>>

CallInit ==
  /\ running = FALSE /\ runs = 0 /\ input = 0 /\ outcome = "none"
  /\ fed = [k \in Stages |-> 0] /\ samples = 0

CallStart(n) ==
  /\ ~running /\ runs < MaxRuns
  /\ running' = TRUE /\ runs' = runs + 1 /\ input' = n /\ outcome' = "none"
  /\ fed' = [k \in Stages |-> 0] /\ samples' = 0

\* Stage k caches m more rows.  Once the last stage has them all, it samples.
Feed(k, m) ==
  /\ running
  /\ fed[k] + m <= IF k = 0 THEN input ELSE fed[k-1]
  /\ fed' = [fed EXCEPT ![k] = @ + m]
  /\ \/ UNCHANGED samples
     \/ k = N-1 /\ fed'[k] = input /\ samples' = samples + 1
  /\ UNCHANGED <<running, input, outcome, runs>>

Return(result) ==
  /\ running
  /\ result = "ok" => samples = 1 /\ \A k \in Stages : fed[k] = input
  /\ running' = FALSE /\ outcome' = result
  /\ UNCHANGED <<fed, samples, input, runs>>

CallNext ==
  \/ \E n \in Lens : CallStart(n)
  \/ \E k \in Stages : \E m \in 1 .. input : Feed(k, m)
  \/ \E result \in {"ok", "failed"} : Return(result)

CallSpec == CallInit /\ [][CallNext]_seenVars /\ WF_seenVars(running /\ CallNext)
=============================================================================

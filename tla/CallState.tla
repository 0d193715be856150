------------------------------ MODULE CallState ------------------------------
(***************************************************************************)
(* What the callers of run_pipeline_once see of a call                     *)
(* (examples/multicard/cpp/main.cc): the state that MultiCard, which       *)
(* models the threads of the call, and PipelineCall, which states what it  *)
(* promises, have in common.                                               *)
(***************************************************************************)
EXTENDS Integers

CONSTANTS
  N,      \* number of stages (--stage-count)
  Lens,   \* the input lengths a call may have
  MaxRuns \* bound: calls of run_pipeline_once

Stages == 0 .. N-1

VARIABLES
  fed,     \* rows appended to the KV cache in this call, by stage
  samples, \* tokens sampled in this call
  input,   \* length of the input of this call
  outcome, \* what the last call returned
  runs     \* calls made so far
=============================================================================

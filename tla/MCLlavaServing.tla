---------------------------- MODULE MCLlavaServing ----------------------------
(***************************************************************************)
(* Two requests compete for the one slot of one worker, or two workers     *)
(* compete for worker_info and the controller's attention, while processes *)
(* crash or pages are loaded; or three requests compete for the slot.      *)
(***************************************************************************)
EXTENDS LlavaServing
CONSTANTS w1, w2, r1, r2, r3

MCWorkers  == {w1, w2}
MCRequests == {r1, r2, r3}

Fleet(ws, rs, c, f, a) == [workers |-> ws, requests |-> rs, crashes |-> c, refreshes |-> f, ages |-> a]

MCFleets ==
  {Fleet({w1}, {r1, r2}, 1, 0, TRUE), Fleet({w1}, {r1, r2}, 0, 1, TRUE),
   Fleet({w1, w2}, {r1}, 1, 0, TRUE), Fleet({w1, w2}, {r1}, 0, 1, TRUE),
   Fleet({w1}, {r1}, 1, 1, TRUE), Fleet({w1}, {r1, r2, r3}, 0, 0, FALSE)}
=============================================================================

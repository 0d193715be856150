-------------------------- MODULE MCMultiCardChat --------------------------
(***************************************************************************)
(* Instances of MultiCardChat for TLC.                                     *)
(***************************************************************************)
EXTENDS MultiCardChat

LensUpToTwo == {1, 2}
=============================================================================

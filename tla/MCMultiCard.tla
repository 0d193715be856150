---------------------------- MODULE MCMultiCard ----------------------------
(***************************************************************************)
(* Instances of MultiCard for TLC: the sets of input lengths.              *)
(***************************************************************************)
EXTENDS MultiCardInv

LensOneAndThree == {1, 3}  \* part of a bucket, and a bucket and a part
LensOneAndSeven == {1, 7}  \* and several buckets, the last one short
=============================================================================

----------------------- MODULE MCBoundedPriorityQueue -----------------------
(***************************************************************************)
(* Instances of BoundedPriorityQueue for TLC.                              *)
(***************************************************************************)
EXTENDS BoundedPriorityQueueProps
=============================================================================

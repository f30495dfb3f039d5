---------------------------- MODULE MCRingQueue ----------------------------
(***************************************************************************)
(* Instances of RingQueue for TLC: three distinguishable items and a ring  *)
(* of three slots, so that a ring wraps several times.                     *)
(***************************************************************************)
EXTENDS RingQueue
=============================================================================

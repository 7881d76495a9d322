---------------------------- MODULE MCCheckPoint ----------------------------
(***************************************************************************)
(* Instances of CheckPoint; the constants are given in the configurations. *)
(***************************************************************************)
EXTENDS CheckPoint, TLC
=============================================================================

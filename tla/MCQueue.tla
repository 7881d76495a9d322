------------------------------ MODULE MCQueue -------------------------------
(***************************************************************************)
(* Instances of Queue.  Jobs are model values.                             *)
(***************************************************************************)
EXTENDS Queue

CONSTANTS j1, j2, j3
OneJob == {j1}
TwoJobs == {j1, j2}
ThreeJobs == {j1, j2, j3}
=============================================================================

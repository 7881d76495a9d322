----------------------------- MODULE MCTaskJobs -----------------------------
(***************************************************************************)
(* Model checking of TaskJobs.                                             *)
(***************************************************************************)
EXTENDS TaskJobs

Never == {FALSE}
Sometimes == BOOLEAN
=============================================================================

---------------------------- MODULE MCClientSync ----------------------------
(***************************************************************************)
(* Instances of ClientSync: one or two suites and clients, one or two      *)
(* users.                                                                  *)
(***************************************************************************)
EXTENDS ClientSync, TLC

CONSTANTS s1, s2, c1, c2, ann, bob

TwoSuites == {s1, s2}
OneClient == {c1}
TwoClients == {c1, c2}
Ann == c1 :> ann
\* The suites are interchangeable where both are loaded.
Alike == Permutations(TwoSuites)
SameUser == (c1 :> ann) @@ (c2 :> ann)
=============================================================================

------------------------------ MODULE MCLimits ------------------------------
(***************************************************************************)
(* Small suites for model checking Limits.                                 *)
(*                                                                         *)
(*   suite s; limit L; [limit M]                                           *)
(*     family f (repeat)                                                   *)
(*       task t1                                                           *)
(*       task t2                                                           *)
(*     task t3                                                             *)
(***************************************************************************)
EXTENDS Limits

MCNodes == {"s", "f", "t1", "t2", "t3"}
MCTasks == {"t1", "t2", "t3"}
MCBelow == [s |-> MCNodes, f |-> {"f", "t1", "t2"},
            t1 |-> {"t1"}, t2 |-> {"t2"}, t3 |-> {"t3"}]
MCPreorder == <<"s", "f", "t1", "t2", "t3">>
MCRepeats == [n \in MCNodes |-> IF n = "f" THEN 1 ELSE 0]
MCNoRepeats == [n \in MCNodes |-> 0]

In(n, l, k, kind) == [node |-> n, limit |-> l, tokens |-> k, kind |-> kind]

\* Tasks limited one by one: the family's inlimit is overridden on t2, which
\* asks for two tokens; M limits submission only.
TaskLimits == {"L", "M"}
TaskHome == [l \in TaskLimits |-> "s"]
TaskInLimits == {In("f", "L", 1, "plain"), In("t2", "L", 2, "plain"),
                 In("t3", "L", 1, "plain"), In("s", "M", 1, "submit")}
TaskLim == [l \in TaskLimits |-> IF l = "L" THEN 2 ELSE 1]

\* A family limited as a whole, competing with a task for one token.
FamilyLimits == {"L"}
FamilyHome == [l \in FamilyLimits |-> "s"]
\* The limit on the family itself: the task outside names it by its path.
ElsewhereHome == [l \in FamilyLimits |-> "f"]
FamilyInLimits == {In("f", "L", 1, "node"), In("t3", "L", 1, "plain")}
\* A task of the family overrides the family's inlimit.
OverriddenInLimits == {In("f", "L", 1, "node"), In("t2", "L", 1, "plain")}
FamilyLim == [l \in FamilyLimits |-> 1]
TwoTokens == [l \in FamilyLimits |-> 2]
=============================================================================

----------------------------- MODULE MCNodeTree -----------------------------
(* Instances of NodeTree.                                                   *)
EXTENDS NodeTree

Plain(N, v) == [n \in N |-> v]

\* Nested loops: a repeated suite with a repeated family (2, with the task 3) and
\* a family (4, with the tasks 5 and 6) that waits for it and completes with its
\* first task.
LoopParent == <<0, 1, 2, 1, 4, 4>>
LoopDefault == Plain(1 .. 6, "QUEUED")
LoopTrigger == <<{}, {}, {}, {<<2, "COMPLETE">>}, {}, {}>>
LoopComplete == <<{}, {}, {}, {<<5, "COMPLETE">>}, {}, {}>>
LoopRepeat == <<2, 2, 0, 0, 0, 0>>
LoopPaths == {<<n>> : n \in 1 .. 6} \cup {<<2, 4>>}

\* Two families (2 and 4) with a task each, re-queued by one command.
PairParent == <<0, 1, 2, 1, 4>>
PairDefault == Plain(1 .. 5, "QUEUED")
PairNone == Plain(1 .. 5, {})
PairRepeat == Plain(1 .. 5, 0)
PairPaths == {<<2, 4>>}

\* A repeated family (2) that is suspended at each re-queue, with a task that
\* completes with the next one.
HeldParent == <<0, 1, 2, 2>>
HeldDefault == <<"QUEUED", "SUSPENDED", "QUEUED", "QUEUED">>
HeldTrigger == <<{}, {}, {<<4, "ABORTED">>}, {}>>
HeldComplete == <<{}, {}, {<<4, "COMPLETE">>}, {}>>
HeldRepeat == <<0, 2, 0, 0>>
=============================================================================

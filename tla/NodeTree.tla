------------------------------ MODULE NodeTree ------------------------------
(***************************************************************************)
(* The nodes of a suite: their states and how a change of one of them      *)
(* bubbles up, defstatus, suspension, repeats and the loops they make,     *)
(* triggers and complete expressions, and the traversal that submits jobs. *)
(* Limits, times and the authentication of child commands have modules of  *)
(* their own (Limits, TimeSlots, TaskJobs).                                *)
(*                                                                         *)
(* The server has one thread: a command with all the states it changes,    *)
(* and a traversal of the tree, is one step.                               *)
(***************************************************************************)
EXTENDS Integers, Sequences, SequencesExt

CONSTANTS
    Parent,         \* of each node; the nodes are numbered depth first
    Default,        \* defstatus: QUEUED, COMPLETE, ABORTED or SUSPENDED
    Trigger,        \* of each node: a set of <<node, state>>, a conjunction
    Complete,       \* the complete expression, {}: none
    Repeat,         \* the number of values of the repeat, 0: no repeat
    EcfTries,
    ForceStates,    \* the states users force
    Paths,          \* the lists of nodes that users re-queue with one command
    Cmds,           \* the user commands of this run
    MaxCmds,        \* bound on the number of user commands
    MaxFails        \* bound on the submissions that fail and traversals cut short

Size == Len(Parent)
Nodes == 1 .. Size
Suite == 1
Kids == [n \in Nodes |-> {k \in Nodes \ {Suite} : Parent[k] = n}]
Tasks == {n \in Nodes : Kids[n] = {}}

\* The node and the nodes above it; below it.
Above[n \in Nodes] == {n} \cup (IF n = Suite THEN {} ELSE Above[Parent[n]])
Below == [n \in Nodes |-> {m \in Nodes : n \in Above[m]}]

States == {"UNKNOWN", "COMPLETE", "QUEUED", "ABORTED", "SUBMITTED", "ACTIVE"}
Running == {"ACTIVE", "SUBMITTED"}

\* A node comes after its parent, and right after its parent or a node below a
\* sibling: the order in which the code goes down the tree.
ASSUME TreeAssumption ==
    /\ Parent \in Seq(Nat) /\ Parent # <<>>
    /\ \A n \in Nodes \ {Suite} : Parent[n] \in 1 .. n - 1 /\ Parent[n] \in Above[n - 1]

ASSUME NodeAssumption ==
    /\ Default \in [Nodes -> {"QUEUED", "COMPLETE", "ABORTED", "SUSPENDED"}]
    /\ \A n \in Nodes : \A e \in Trigger[n] \cup Complete[n] : e[1] \in Nodes
    /\ Repeat \in [Nodes -> Nat] /\ EcfTries \in Nat
    /\ ForceStates \subseteq States
    /\ \A p \in Paths : p \in Seq(Nodes)

VARIABLES
    tree,   \* st, susp (suspended nodes), rep (values of the repeats used up),
            \* free (freed triggers); of tasks: try, flag and job, the
            \* process that holds the task's password
    cmds, fails,
    hist    \* history: runs (jobs completed), meddled (a user changed states),
            \* bypass (tasks submitted below a node that held them), lost
            \* (tasks whose running jobs a traversal disowned), woken (nodes
            \* named by a re-queue that it resumed)

vars == <<tree, cmds, fails, hist>>

\* Op applied to s for 1, 2 .. k.
Fold(Op(_, _), s, k) ==
    LET f[i \in 0 .. k] ==
            IF i = 0 THEN s ELSE CHOOSE y \in {Op(x, i) : x \in {f[i - 1]}} : TRUE
    IN  f[k]

\* Op applied to s for the nodes N, the first one first; the last one first.
Down(Op(_, _), s, N) == Fold(LAMBDA x, n : IF n \in N THEN Op(x, n) ELSE x, s, Size)
Up(Op(_, _), s, N) ==
    Fold(LAMBDA x, i : IF Size + 1 - i \in N THEN Op(x, Size + 1 - i) ELSE x, s, Size)

-----------------------------------------------------------------------------
(* States *)

\* theComputedNodeState
MostSignificant(S) ==
    IF "ABORTED" \in S THEN "ABORTED" ELSE IF "ACTIVE" \in S THEN "ACTIVE"
    ELSE IF "SUBMITTED" \in S THEN "SUBMITTED" ELSE IF "QUEUED" \in S THEN "QUEUED"
    ELSE IF "COMPLETE" \in S THEN "COMPLETE" ELSE "UNKNOWN"

\* computedState(IMMEDIATE_CHILDREN)
ComputedState(s, n) ==
    IF n \in Tasks THEN s.st[n] ELSE MostSignificant({s.st[k] : k \in Kids[n]})

\* computedState(HIERARCHICAL)
DeepState(s, n) == MostSignificant({s.st[t] : t \in Tasks \cap Below[n]})

\* setStateOnly of the nodes N: only a change of state touches the flag.
SetStatesOnly(s, N, v, force) ==
    LET Flag(n) == IF v # "ABORTED" THEN s.flag[n] \ {"FORCE_ABORT"}
                   ELSE IF force THEN s.flag[n] \cup {"FORCE_ABORT"} ELSE s.flag[n]
    IN  [s EXCEPT !.st   = [n \in Nodes |-> IF n \in N THEN v ELSE s.st[n]],
                  !.flag = [n \in Nodes |-> IF n \in N /\ s.st[n] # v THEN Flag(n) ELSE s.flag[n]]]

SetStateOnly(s, n, v, force) == SetStatesOnly(s, {n}, v, force)
SetStateOnlyHierarchically(s, n, v, force) == SetStatesOnly(s, Below[n], v, force)

-----------------------------------------------------------------------------
(* Re-queue *)

\* initState.  DState::SUSPENDED is a user's suspension of a queued node.
InitState(n) == IF Default[n] = "SUSPENDED" THEN "QUEUED" ELSE Default[n]

\* Variant: the repeats below go on from where they are.
KeepRepeats(s, n, resetRepeats) ==
    [m \in Nodes |-> IF m \in Below[n] /\ resetRepeats THEN 0 ELSE s.rep[m]]

\* The node's own repeat is reset if the caller says so, those below always.
ResetRepeats(s, n, resetRepeats) ==
    [m \in Nodes |-> IF m \in Below[n] /\ (m # n \/ resetRepeats) THEN 0 ELSE s.rep[m]]

\* Node::requeue and Submittable::requeue, of n and of the nodes below it.
\* clear: 0 for the node a user re-queues, greater than 0 below it, negative for
\* re-queues of the server.
RequeueNodes(s, n, resetRepeats, clear) ==
    LET Resumed == {m \in Below[n] : clear > 0 \/ (clear = 0 /\ m # n)}
        Reset(f, v) == [m \in Nodes |-> IF m \in Below[n] THEN v ELSE f[m]]
    IN  [st   |-> [m \in Nodes |-> IF m \in Below[n] THEN InitState(m) ELSE s.st[m]],
         susp |-> (s.susp \ Resumed) \cup {m \in Below[n] : Default[m] = "SUSPENDED"},
         rep  |-> ResetRepeats(s, n, resetRepeats),
         free |-> s.free \ Below[n],
         try  |-> Reset(s.try, 0), flag |-> Reset(s.flag, {}), job |-> Reset(s.job, "none")]

\* A defstatus of complete goes down the tree, the default one follows the
\* children, and the others stay.
DefstatusPropagation(s, n) ==
    IF n \in Tasks THEN s
    ELSE CASE Default[n] = "COMPLETE" -> SetStateOnlyHierarchically(s, n, "COMPLETE", FALSE)
           [] Default[n] = "QUEUED"   -> SetStateOnly(s, n, ComputedState(s, n), FALSE)
           [] OTHER                   -> s

\* NodeContainer::requeue: what a node has of its children comes after them.
Requeue(s, n, resetRepeats, clear) ==
    Up(DefstatusPropagation, RequeueNodes(s, n, resetRepeats, clear), Below[n])

\* A suite or family shows the most significant state of its children.
Show(s, n) == IF n \in Tasks THEN s ELSE SetStateOnly(s, n, ComputedState(s, n), FALSE)

\* set_most_significant_state_up_node_tree
SetUp(s, n) == Up(Show, s, Above[n])

\* Variant: after its last value the repeat starts again with the first.
IncrementAround(s, n) ==
    [s EXCEPT !.rep[n] = IF Repeat[n] = 0 THEN @ ELSE (@ + 1) % Repeat[n]]

\* The repeat's next value; past the last one it is not valid and stays so.
Increment(s, n) == [s EXCEPT !.rep[n] = IF @ < Repeat[n] THEN @ + 1 ELSE @]

\* requeueOrSetMostSignificantStateUpNodeTree of one node, unless a node below
\* it has ended the way up: a node that completes starts the next iteration of
\* its repeat, or tells its parent.
RequeueOrShow(w, n) ==
    LET x == Show(w.tree, n)
        y == IF x.st[n] = "COMPLETE" THEN Increment(x, n) ELSE x
    IN  IF w.ended THEN w
        ELSE IF y.st[n] = "COMPLETE" /\ y.rep[n] < Repeat[n]
        THEN [tree |-> SetUp(Requeue(y, n, FALSE, -1), n), ended |-> TRUE]
        ELSE [tree |-> y, ended |-> FALSE]

RequeueOrSetUp(s, n) == Up(RequeueOrShow, [tree |-> s, ended |-> FALSE], Above[n]).tree

\* set_state: the argument force is not passed on.
SetState(s, n, v) ==
    IF s.st[n] = v THEN s ELSE RequeueOrSetUp(SetStateOnly(s, n, v, FALSE), n)

SetStateHierarchically(s, n, v, force) ==
    IF n \in Tasks THEN SetState(s, n, v)
    ELSE RequeueOrSetUp(SetStateOnlyHierarchically(s, n, v, force), n)

-----------------------------------------------------------------------------
(* The traversal *)

\* An expression sees a suspended node as suspended, whatever its state.
Holds(s, e) ==
    \A x \in e : (IF x[1] \in s.susp THEN "SUSPENDED" ELSE s.st[x[1]]) = x[2]

\* evaluateTrigger
EvaluateTrigger(s, n) == n \in s.free \/ Holds(s, Trigger[n])

\* Variant: what runs below the node is not looked at.
CompleteWhileRunning(s, n) == Complete[n] # {} /\ Holds(s, Complete[n])

\* evaluateComplete, for a node that has the expression: only if nothing below
\* runs or is aborted (ECFLOW-247).
EvaluateComplete(s, n) ==
    /\ Complete[n] # {} /\ Holds(s, Complete[n])
    /\ DeepState(s, n) = "QUEUED"

\* The checks of Task::resolveDependencies before the dependencies.
Eligible(s, t) ==
    \/ s.st[t] = "QUEUED"
    \/ s.st[t] = "ABORTED" /\ s.flag[t] = {} /\ s.try[t] < EcfTries

\* increment_try_no and submit_job_only
Submit(s, t, failing) ==
    LET r == [s EXCEPT !.try[t] = IF @ < EcfTries THEN @ + 1 ELSE @]
    IN  IF t \in failing
        THEN SetState([r EXCEPT !.job[t] = "none", !.flag[t] = {"SUBMIT_FAILED"}], t, "ABORTED")
        ELSE SetState([r EXCEPT !.job[t] = "submitted", !.flag[t] = {}], t, "SUBMITTED")

\* Some node above t, or t, is suspended or waits for its trigger.
Held(s, t) == \E a \in Above[t] : a \in s.susp \/ ~EvaluateTrigger(s, a)

\* resolveDependencies of n.  w: the tree, the nodes that let the traversal go
\* on to their children (entered), and the tasks submitted although they were
\* held (bypass) or disowned (lost); ch: the nodes that are reached before the
\* time is up and the tasks whose submission fails.
ResolveDependencies(w, n, ch) ==
    LET s == w.tree IN
    IF \/ n # Suite /\ Parent[n] \notin w.entered
       \/ n \notin ch.reached \/ n \in s.susp \/ s.st[n] = "COMPLETE"
       \/ n \in Tasks /\ ~Eligible(s, n)
    THEN w
    ELSE IF EvaluateComplete(s, n)
    THEN [w EXCEPT !.tree = SetStateHierarchically(s, n, "COMPLETE", FALSE),
                   !.lost = @ \cup {t \in Tasks \cap Below[n] : s.st[t] \in Running}]
    ELSE IF ~EvaluateTrigger(s, n) THEN w
    ELSE IF n \in Tasks
    THEN [w EXCEPT !.tree = Submit(s, n, ch.failing),
                   !.bypass = IF Held(s, n) THEN @ \cup {n} ELSE @]
    ELSE [w EXCEPT !.entered = @ \cup {n}]

\* The traversal of the suite s.
Visit(s, ch) ==
    Down(LAMBDA w, n : ResolveDependencies(w, n, ch),
         [tree |-> s, entered |-> {}, bypass |-> {}, lost |-> {}], Nodes)

Whole == [reached |-> Nodes, failing |-> {}]

\* traverse_node_tree_and_job_generate on the tree s with the history h.
Generate(s, h, ch) ==
    \E w \in {Visit(s, ch)} :
        /\ tree' = w.tree
        /\ hist' = [h EXCEPT !.bypass = w.bypass, !.lost = w.lost]
        /\ fails' = fails + (IF ch = Whole THEN 0 ELSE 1)

\* What may go wrong with a traversal: it is cut short, or a submission fails.
Mishaps ==
    IF fails >= MaxFails THEN {}
    ELSE {[reached |-> 1 .. i, failing |-> {}] : i \in 0 .. Size - 1}
         \cup {[reached |-> Nodes, failing |-> {t}] : t \in Tasks}

Quiet(h) == [h EXCEPT !.bypass = {}, !.lost = {}, !.woken = {}]

Traverse == Generate(tree, Quiet(hist), Whole) /\ UNCHANGED cmds
TraverseBadly == (\E ch \in Mishaps : Generate(tree, Quiet(hist), ch)) /\ UNCHANGED cmds

-----------------------------------------------------------------------------
(* Child commands of the process that has the task's password.  In other    *)
(* states of the task than these it is blocked as a zombie: see TaskJobs.   *)

ChildInit(t) ==
    /\ tree.job[t] = "submitted" /\ tree.st[t] \notin {"COMPLETE", "ABORTED"}
    /\ tree' = SetState([tree EXCEPT !.job[t] = "active"], t, "ACTIVE")
    /\ hist' = Quiet(hist)
    /\ UNCHANGED <<cmds, fails>>

\* Submittable::complete: the password is cleared after the state is set.
ChildComplete(t) ==
    /\ tree.job[t] = "active" /\ tree.st[t] # "ABORTED"
    /\ tree' = [SetState(tree, t, "COMPLETE") EXCEPT !.job[t] = "none"]
    /\ hist' = [Quiet(hist) EXCEPT !.runs[t] = IF hist.meddled THEN @ ELSE @ + 1]
    /\ UNCHANGED <<cmds, fails>>

ChildAbort(t) ==
    /\ tree.job[t] = "active" /\ tree.st[t] # "COMPLETE"
    /\ tree' = SetState([tree EXCEPT !.job[t] = "none"], t, "ABORTED")
    /\ hist' = Quiet(hist)
    /\ UNCHANGED <<cmds, fails>>

-----------------------------------------------------------------------------
(* User commands.  A command that changes states ends with a traversal, or  *)
(* leaves it to the timer if that is due.                                   *)

User(command) == command \in Cmds /\ cmds < MaxCmds /\ cmds' = cmds + 1
Meddled == [Quiet(hist) EXCEPT !.meddled = TRUE, !.runs = [t \in Tasks |-> 0]]

ThenTraverse(s, h) ==
    \/ Generate(s, h, Whole)
    \/ tree' = s /\ hist' = h /\ UNCHANGED fails

Suspend(n) ==
    /\ User("suspend")
    /\ tree' = [tree EXCEPT !.susp = @ \cup {n}]
    /\ hist' = Quiet(hist) /\ UNCHANGED fails

\* Not counted as a command: there are as many as there are suspensions.
Resume(n) ==
    /\ n \in tree.susp
    /\ tree' = [tree EXCEPT !.susp = @ \ {n}]
    /\ hist' = Quiet(hist) /\ UNCHANGED <<cmds, fails>>

FreeDep(n) ==
    /\ User("free-dep")
    /\ ThenTraverse([tree EXCEPT !.free = @ \cup {n}], Quiet(hist))

\* handleStateChange of the parent (ECFLOW-359).
TellParent(s, n) == IF n = Suite THEN s ELSE RequeueOrSetUp(s, Parent[n])

\* Variant: the states above the node are left as they are.
RequeuedAlone(s, n, clear) == Requeue(s, n, TRUE, clear)

\* What requeue without option and with force do for each path.
Requeued(s, n, clear) == TellParent(SetUp(Requeue(s, n, TRUE, clear), n), n)

\* The loop over the paths.  The counter clear is incremented by each suite or
\* family and keeps its value for the next path; without option a running job
\* ends the command, whatever it has re-queued before.
RequeuePaths(paths, force) ==
    LET Path(w, i) ==
            LET n == paths[i] IN
            IF \/ w.ended
               \/ ~force /\ (\E t \in Tasks \cap Below[n] : w.tree.st[t] \in Running)
            THEN [w EXCEPT !.ended = TRUE]
            ELSE [tree  |-> Requeued(w.tree, n, w.clear), ended |-> FALSE,
                  clear |-> IF n \in Tasks THEN w.clear ELSE w.clear + 1]
    IN  Fold(Path, [tree |-> tree, clear |-> 0, ended |-> FALSE], Len(paths))

\* The nodes of paths, none below another of them, that are suspended no more.
Woken(paths, s) ==
    {n \in (ToSet(paths) \cap tree.susp) \ s.susp : Above[n] \cap ToSet(paths) = {n}}

RequeueCmd(paths, force) ==
    /\ User(IF force THEN "requeue force" ELSE "requeue")
    /\ \E w \in {RequeuePaths(paths, force)} :
        LET h == [Meddled EXCEPT !.woken = Woken(paths, w.tree)]
        IN  \/ ~w.ended /\ ThenTraverse(w.tree, h)
            \/ w.ended /\ tree' = w.tree /\ hist' = h /\ UNCHANGED fails

\* Each aborted task is re-queued and tells the nodes above it (ECFLOW-428).
RequeueAborted(n) ==
    LET Again(s, t) == IF t \in Tasks /\ s.st[t] = "ABORTED"
                       THEN SetUp(Requeue(s, t, TRUE, 0), t) ELSE s
    IN  /\ User("requeue abort")
        /\ ThenTraverse(TellParent(Down(Again, tree, Below[n]), n), Meddled)

\* setRepeatToLastValueHierarchically: Node::setRepeatToLastValue increments the
\* repeat once it has its last value, to make it invalid.
RepeatsUsedUp(s, n) ==
    [s EXCEPT !.rep = [m \in Nodes |-> IF m \in Below[n] THEN Repeat[m] ELSE s.rep[m]]]

ForceCmd(n, v) ==
    \/ User("force") /\ ThenTraverse(SetState(tree, n, v), Meddled)
    \/ User("force recursive") /\ ThenTraverse(SetStateHierarchically(tree, n, v, TRUE), Meddled)
    \/ /\ User("force full")
       /\ ThenTraverse(RepeatsUsedUp(SetStateHierarchically(tree, n, v, TRUE), n), Meddled)

-----------------------------------------------------------------------------
(* Specification *)

Unbegun ==
    [st   |-> [n \in Nodes |-> "UNKNOWN"], susp |-> {}, rep |-> [n \in Nodes |-> 0],
     free |-> {}, try |-> [n \in Nodes |-> 0], flag |-> [n \in Nodes |-> {}],
     job  |-> [n \in Nodes |-> "none"]]

\* Suite::begin resets what a re-queue does.
Init ==
    /\ tree = Requeue(Unbegun, Suite, TRUE, -1)
    /\ cmds = 0 /\ fails = 0
    /\ hist = [runs |-> [t \in Tasks |-> 0], meddled |-> FALSE, bypass |-> {}, lost |-> {},
             woken |-> {}]

Child(t) == ChildInit(t) \/ ChildComplete(t) \/ ChildAbort(t)

Command(n) ==
    \/ Suspend(n) \/ Resume(n) \/ FreeDep(n)
    \/ RequeueAborted(n)
    \/ \E v \in ForceStates : ForceCmd(n, v)

Next ==
    \/ Traverse \/ TraverseBadly
    \/ \E t \in Tasks : Child(t)
    \/ \E n \in Nodes : Command(n)
    \/ \E paths \in Paths, force \in BOOLEAN : RequeueCmd(paths, force)

Spec == Init /\ [][Next]_vars

\* The timer traverses the tree and jobs come to an end.
Fairness ==
    /\ WF_vars(Traverse)
    /\ \A t \in Tasks : WF_vars(ChildInit(t)) /\ WF_vars(ChildComplete(t) \/ ChildAbort(t))

FairSpec == Spec /\ Fairness

-----------------------------------------------------------------------------
(* Properties *)

Trees ==
    [st : [Nodes -> States], susp : SUBSET Nodes, rep : [Nodes -> Nat], free : SUBSET Nodes,
     try : [Nodes -> Nat], flag : [Nodes -> SUBSET {"FORCE_ABORT", "SUBMIT_FAILED"}],
     job : [Nodes -> {"none", "submitted", "active"}]]

TypeOK ==
    /\ tree \in Trees /\ cmds \in Nat /\ fails \in Nat
    /\ hist \in [runs : [Tasks -> Nat], meddled : BOOLEAN, bypass : SUBSET Tasks,
                 lost : SUBSET Tasks, woken : SUBSET Nodes]

\* A family or suite whose defstatus leaves its state to its children shows
\* the most significant of their states after every command and traversal:
\* triggers, repeats and users rely on it.
ContainersAgree ==
    \A n \in Nodes : Default[n] \in {"QUEUED", "COMPLETE"} => tree.st[n] = ComputedState(tree, n)

\* A complete expression never completes a node below which a job runs: "only
\* allow complete is we are in a NState::QUEUED state" (Node::evaluateComplete,
\* ECFLOW-247), also when the job was submitted in the same traversal.
RuleSparesJobs == hist.lost = {}

\* Iterations of the repeats of the node and above it.
Iterations[n \in Nodes] ==
    (IF Repeat[n] = 0 THEN 1 ELSE Repeat[n]) * (IF n = Suite THEN 1 ELSE Iterations[Parent[n]])

ByRule(t) == \E a \in Above[t] : Complete[a] # {}

\* Nested repeats are nested loops: if no user forces or re-queues anything,
\* then when the suite is complete each task has completed once in each
\* iteration of every repeat above it, whatever aborted, was suspended or freed
\* (tasks that a complete expression may skip: at most once).
EveryIterationRuns ==
    ~hist.meddled /\ tree.st[Suite] = "COMPLETE" =>
        \A t \in Tasks :
            /\ hist.runs[t] <= Iterations[t]
            /\ ~ByRule(t) => hist.runs[t] = Iterations[t]

\* If in the end nothing is suspended or aborted then the suite completes, or
\* is left complete, whatever users did before.
Finishes ==
    <>[](tree.susp = {} /\ \A t \in Tasks : tree.st[t] # "ABORTED")
        => <>[](tree.st[Suite] = "COMPLETE")

\* A task is submitted by a traversal only if neither it nor a node above it is
\* suspended or waits for its trigger at that moment: "Don't evaluate children
\* unless parent is free" (NodeContainer::resolveDependencies).
SubmittedFree == hist.bypass = {}

\* A re-queue never resumes a node that it names: "we only clear suspended for
\* child nodes" (RequeueNodeCmd::doHandleRequest).
RequeueKeepsSuspended == hist.woken = {}
=============================================================================

------------------------------- MODULE Limits -------------------------------
(***************************************************************************)
(* Token accounting of ecFlow's load management: Limit (ANode/src/Limit),  *)
(* InLimit and InLimitMgr, and the node-tree handlers that consume and     *)
(* release tokens: job submission, the child commands init / complete /    *)
(* abort, automatic re-queue by a repeat, and the user commands requeue,   *)
(* force, run and alter.                                                   *)
(*                                                                         *)
(* A limit keeps a value and the set of node paths that consumed it.  An   *)
(* inlimit hangs a node (and every task below it) on a limit, in one of    *)
(* three kinds: "plain" (each task pays), "submit" (inlimit -s: a task     *)
(* pays only while SUBMITTED) and "node" (inlimit -n: the node itself pays *)
(* once, for all the tasks below it).                                      *)
(*                                                                         *)
(* Container states are not stored: the code keeps them equal to the       *)
(* state computed from the children after every handler.  Triggers, time   *)
(* dependencies and suspension never hold a node here.                     *)
(***************************************************************************)
EXTENDS Integers, FiniteSets, Sequences

CONSTANTS
    Nodes,          \* every node of the suite: suite, families and tasks
    Tasks,          \* the leaves
    Below,          \* Below[n]: the nodes of the subtree of n, n included
    Preorder,       \* the nodes as the traversal visits them
    LimitNames,     \* the limits
    Home,           \* Home[l]: the node that owns limit l
    InLimits,       \* records [node, limit, tokens, kind]
    MaxTokens,      \* the largest number of tokens of an inlimit
    InitLim,        \* InitLim[l]: the limit's initial maximum
    Repeats,        \* Repeats[n]: iterations a repeat on n adds (0: no repeat)
    EcfTries,       \* ECF_TRIES: how often an aborting job is submitted
    UserCmds,       \* the commands users give, a subset of Commands
    ForceStates,    \* the states users force
    AlterLims,      \* the maxima a user may alter a limit to
    AlterValues,    \* the values a user may alter a limit to
    MaxCmds         \* bound on the number of user commands

Commands == {"requeue", "requeue abort", "requeue force", "force", "run",
             "limit_max", "limit_value"}
Kinds == {"plain", "node", "submit"}
States == {"UNKNOWN", "COMPLETE", "QUEUED", "ABORTED", "SUBMITTED", "ACTIVE"}
Running == {"SUBMITTED", "ACTIVE"}
\* SUBMIT_FAILED stands for EDIT_FAILED, NO_SCRIPT and JOBCMD_FAILED.
Flags == {"SUBMIT_FAILED", "FORCE_ABORT"}

ASSUME TreeAssumption ==
    /\ IsFiniteSet(Nodes)
    /\ Tasks \subseteq Nodes
    /\ Below \in [Nodes -> SUBSET Nodes]
    /\ \A n \in Nodes : n \in Below[n]
    /\ \A m, n \in Nodes : m \in Below[n] /\ n \in Below[m] => m = n
    /\ \A m, n \in Nodes : m \in Below[n] => Below[m] \subseteq Below[n]
    /\ \A t \in Tasks : Below[t] = {t}
    /\ Preorder \in Seq(Nodes)

ASSUME LimitAssumption ==
    /\ Home \in [LimitNames -> Nodes]
    /\ MaxTokens \in Nat
    /\ InLimits \subseteq [node: Nodes, limit: LimitNames,
                           tokens: 1..MaxTokens, kind: Kinds]
    /\ \A i, j \in InLimits : i.node = j.node /\ i.limit = j.limit => i = j
    /\ InitLim \in [LimitNames -> Nat]
    /\ Repeats \in [Nodes -> Nat]

ASSUME CommandAssumption ==
    /\ EcfTries \in Nat
    /\ UserCmds \subseteq Commands
    /\ ForceStates \subseteq States
    /\ AlterLims \subseteq Nat
    /\ AlterValues \subseteq Nat
    /\ MaxCmds \in Nat

VARIABLES
    task,       \* task[t]: state, try number and flags of task t
    ledger,     \* limit values and paths, and the incremented inlimits
    lim,        \* lim[l]: the maximum of limit l
    repeat,     \* repeat[n]: iterations the repeat of n has left
    cursor,     \* position of the running node-tree traversal, 0 when none
    cmds        \* user commands given so far

vars == <<task, ledger, lim, repeat, cursor, cmds>>

-----------------------------------------------------------------------------
(***************************************************************************)
(* Which inlimit decides.  Node::incrementInLimit and its siblings walk    *)
(* from a node up to the suite with one limitSet, so only the inlimit      *)
(* nearest to the node acts on a given limit.                              *)
(***************************************************************************)
Over(x, l) == {i \in InLimits : i.limit = l /\ x \in Below[i.node]}

Governed == {g \in Nodes \X LimitNames : Over(g[1], g[2]) # {}}

\* The inlimits above a node lie on one path to the root: one is the nearest.
ASSUME NearestAssumption ==
    \A g \in Governed : \E i \in Over(g[1], g[2]) :
        \A j \in Over(g[1], g[2]) : i.node \in Below[j.node]

Governor == [g \in Governed |->
    CHOOSE i \in Over(g[1], g[2]) :
        \A j \in Over(g[1], g[2]) : i.node \in Below[j.node]]

NodeOnly(g) == Governor[g].kind = "node"

\* The path handed to Limit::increment and Limit::decrement, with the limit.
Payer(g) == IF NodeOnly(g) THEN <<Governor[g].node, g[2]>> ELSE g

\* The tokens that the entries H (node and limit) hold in limit l, one unit
\* per token: an entry holds the tokens of the inlimit that governs it.
Units(H, l) ==
    {u \in H \X (1..MaxTokens) :
        u[1][2] = l /\ u[1] \in Governed /\ u[2] <= Governor[u[1]].tokens}

Tokens(H, l) == Cardinality(Units(H, l))

-----------------------------------------------------------------------------
(***************************************************************************)
(* The ledger: Limit::increment, Limit::decrement and InLimitMgr.  The     *)
(* paths of all the limits are one set of entries <<node, limit>>.         *)
(***************************************************************************)
\* Limit::increment for the entries C: a path already recorded is not charged
\* again, and the value may exceed the maximum.
Charge(led, C) ==
    [led EXCEPT
        !.value = [l \in LimitNames |-> led.value[l] + Tokens(C \ led.paths, l)],
        !.paths = led.paths \cup C]

\* Mutant of Refund: the value is not kept from going below zero.
RefundBelowZero(led, F) ==
    [led EXCEPT
        !.value = [l \in LimitNames |-> led.value[l] - Tokens(F \cap led.paths, l)],
        !.paths = led.paths \ F]

\* Mutant of Refund: a path that is not recorded gives tokens back.
RefundUnrecorded(led, F) ==
    LET Left(l) == led.value[l] - Tokens(F, l)
    IN  [led EXCEPT
            !.value = [l \in LimitNames |-> IF Left(l) < 0 THEN 0 ELSE Left(l)],
            !.paths = {g \in led.paths \ F : Left(g[2]) >= 0}]

\* Limit::decrement for the entries F: a path not recorded gives nothing
\* back, and a value driven below zero clears the limit.
Refund(led, F) ==
    LET Left(l) == led.value[l] - Tokens(F \cap led.paths, l)
    IN  [led EXCEPT
            !.value = [l \in LimitNames |-> IF Left(l) < 0 THEN 0 ELSE Left(l)],
            !.paths = {g \in led.paths \ F : Left(g[2]) >= 0}]

\* No task below n is SUBMITTED or ACTIVE in the task records tk.
Idle(n, tk) == \A t \in Tasks \cap Below[n] : tk[t].state \notin Running

\* InLimitMgr::incrementInLimit from each of the tasks T up the tree: an
\* inlimit -n is charged to its node, and only once.
IncrementInLimit(led, T) ==
    LET G     == {g \in Governed : g[1] \in T}
        fresh == {g \in G : NodeOnly(g) => Payer(g) \notin led.incremented}
    IN  [Charge(led, {Payer(g) : g \in fresh}) EXCEPT
            !.incremented = @ \cup {Payer(g) : g \in {h \in G : NodeOnly(h)}}]

\* Mutant of Releases: running siblings do not keep the token of an inlimit -n.
ReleasesAtOnce(led, seen, g) == NodeOnly(g) => Payer(g) \in led.incremented

\* Mutant of Releases: an aborted task counts as one that is still running.
ReleasesUnlessAborted(led, seen, g) ==
    NodeOnly(g) =>
        /\ Payer(g) \in led.incremented
        /\ \A t \in Tasks \cap Below[Payer(g)[1]] :
              seen[g[1]][t].state \notin Running \cup {"ABORTED"}

\* InLimitMgr::decrementInLimit from each node x of DOMAIN seen up the tree,
\* where seen[x] are the task records when x has its turn.  The token of an
\* inlimit -n is released only when no task below its node is running.
Releases(led, seen, g) ==
    NodeOnly(g) => Payer(g) \in led.incremented /\ Idle(Payer(g)[1], seen[g[1]])

DecrementInLimit(led, seen) ==
    LET G == {g \in Governed : g[1] \in DOMAIN seen}
        F == {Payer(g) : g \in {h \in G : Releases(led, seen, h)}}
    IN  [Refund(led, F) EXCEPT !.incremented = @ \ F]

\* Mutant of DecrementInLimitForSubmission: an inlimit -s is kept until the end.
KeepSubmission(led, T) == led

\* InLimitMgr::decrementInLimitForSubmission: only inlimit -s gives back.
DecrementInLimitForSubmission(led, T) ==
    Refund(led, {g \in Governed : g[1] \in T /\ Governor[g].kind = "submit"})

\* Submittable::update_limits of the tasks T that just took state s.
UpdateLimits(led, tk, T, s) ==
    CASE s = "SUBMITTED" -> IncrementInLimit(led, T)
      [] s = "ACTIVE"    -> DecrementInLimitForSubmission(led, T)
      [] OTHER           -> DecrementInLimit(led, [t \in T |-> tk])

\* Mutant of InLimit: any room will do, however many tokens are asked for.
InLimitNoLookAhead(n) ==
    \A i \in InLimits :
        i.node = n =>
            \/ i.kind = "node" /\ <<n, i.limit>> \in ledger.incremented
            \/ ledger.value[i.limit] < lim[i.limit]

\* InLimitMgr::inLimit of node n, with look-ahead by the inlimit's tokens.
InLimit(n) ==
    \A i \in InLimits :
        i.node = n =>
            \/ i.kind = "node" /\ <<n, i.limit>> \in ledger.incremented
            \/ ledger.value[i.limit] + i.tokens <= lim[i.limit]

CheckInLimitUpNodeTree(t) == \A n \in Nodes : t \in Below[n] => InLimit(n)

-----------------------------------------------------------------------------
(***************************************************************************)
(* Re-queue of a subtree, parent before children (Node::requeue).          *)
(***************************************************************************)
Turn == [x \in Nodes |-> CHOOSE k \in 1..Len(Preorder) : Preorder[k] = x]

\* Submittable::requeue: queued, try number, password and flags cleared.
Queued == [state |-> "QUEUED", tryNo |-> 0, flags |-> {}]

\* The task records when x, below the re-queued node a, has its turn.
SeenAt(tk, a, x) ==
    [t \in Tasks |-> IF t \in Below[a] /\ Turn[t] <= Turn[x]
                     THEN Queued ELSE tk[t]]

RequeueTasks(tk, a) ==
    [t \in Tasks |-> IF t \in Below[a] THEN Queued ELSE tk[t]]

\* Limits owned by the subtree are reset and its inlimits forget that they
\* were incremented; each node then decrements the limits up the tree.
RequeueLedger(led, tk, a) ==
    LET forgot == [led EXCEPT !.incremented = {g \in @ : g[1] \notin Below[a]}]
        freed  == DecrementInLimit(forgot, [x \in Below[a] |-> SeenAt(tk, a, x)])
    IN  [freed EXCEPT
            !.value = [l \in LimitNames |->
                          IF Home[l] \in Below[a] THEN 0 ELSE freed.value[l]],
            !.paths = {g \in freed.paths : Home[g[2]] \notin Below[a]}]

\* Repeats below the re-queued node restart, its own becomes r.
RequeueRepeat(a, r) ==
    [n \in Nodes |-> IF n = a THEN r
                     ELSE IF n \in Below[a] THEN Repeats[n] ELSE repeat[n]]

\* The state NodeContainer::computedState gives n is COMPLETE.
Done(n, tk) ==
    /\ \A t \in Tasks \cap Below[n] : tk[t].state \in {"COMPLETE", "UNKNOWN"}
    /\ \E t \in Tasks \cap Below[n] : tk[t].state = "COMPLETE"

\* Node::requeueOrSetMostSignificantStateUpNodeTree over the nodes W of a
\* path to the root: the lowest complete node whose repeat is not exhausted
\* is re-queued, and the walk stops there.
HandleStateChange(W, tk, led) ==
    LET looping == {n \in W : Done(n, tk) /\ repeat[n] > 0}
    IN  \/ /\ looping = {}
           /\ task' = tk
           /\ ledger' = led
           /\ UNCHANGED repeat
        \/ \E a \in looping :
              /\ \A n \in looping : a \in Below[n]
              /\ task' = RequeueTasks(tk, a)
              /\ ledger' = RequeueLedger(led, tk, a)
              /\ repeat' = RequeueRepeat(a, repeat[a] - 1)

PathUp(x) == {n \in Nodes : x \in Below[n]}

\* Node::setStateOnly: only a state change touches FORCE_ABORT.
SetStateOnly(r, s, force) ==
    IF r.state = s THEN r
    ELSE [r EXCEPT !.state = s,
                   !.flags = IF s # "ABORTED" THEN @ \ {"FORCE_ABORT"}
                             ELSE IF force THEN @ \cup {"FORCE_ABORT"} ELSE @]

\* Node::set_state of task t in the records tk.  The force argument is not
\* handed on to setStateOnly.  Nothing more happens if the state is the same.
SetState(tk, t, s) ==
    LET next == [tk EXCEPT ![t] = SetStateOnly(@, s, FALSE)]
    IN  IF tk[t].state = s
        THEN task' = tk /\ UNCHANGED <<ledger, repeat>>
        ELSE HandleStateChange(PathUp(t), next, UpdateLimits(ledger, next, {t}, s))

\* Submittable::increment_try_no, then submit_job_only of a task that is not
\* running: the job is spawned, or its creation fails and the task aborts.
SubmitJob(t) ==
    LET r     == task[t]
        tried == [task EXCEPT ![t] = [r EXCEPT !.tryNo = r.tryNo + 1,
                                               !.flags = r.flags \ {"SUBMIT_FAILED"}]]
    IN  \/ SetState(tried, t, "SUBMITTED")
        \/ SetState([tried EXCEPT ![t].flags = @ \cup {"SUBMIT_FAILED"}], t, "ABORTED")

-----------------------------------------------------------------------------
\* A suite just begun: every task queued, no token taken.
Init ==
    /\ task = [t \in Tasks |-> Queued]
    /\ ledger = [value |-> [l \in LimitNames |-> 0], paths |-> {}, incremented |-> {}]
    /\ lim = InitLim
    /\ repeat = Repeats
    /\ cursor = 0
    /\ cmds = 0

(***************************************************************************)
(* Job generation: one traversal of the tree at a time, on the server's    *)
(* only thread.  Every other handler waits until it is over.               *)
(***************************************************************************)
StartTraversal ==
    /\ cursor = 0
    /\ cursor' = 1
    /\ UNCHANGED <<task, ledger, lim, repeat, cmds>>

Visiting == cursor \in 1..Len(Preorder)

\* NodeContainer::resolveDependencies: a complete or limited container is
\* left out with all that is below it.
VisitContainer ==
    /\ Visiting
    /\ LET n == Preorder[cursor]
       IN  /\ n \notin Tasks
           /\ cursor' = cursor + IF Done(n, task) \/ ~InLimit(n)
                                 THEN Cardinality(Below[n]) ELSE 1
    /\ UNCHANGED <<task, ledger, lim, repeat, cmds>>

\* Task::resolveDependencies: a queued task, or an aborted one with tries
\* left, is submitted when it is in limit all the way up.
Eligible(t) ==
    /\ \/ task[t].state = "QUEUED"
       \/ /\ task[t].state = "ABORTED"
          /\ task[t].flags = {}
          /\ task[t].tryNo < EcfTries
    /\ CheckInLimitUpNodeTree(t)

VisitTask(t) ==
    /\ Visiting
    /\ t = Preorder[cursor]
    /\ \/ Eligible(t) /\ SubmitJob(t)
       \/ ~Eligible(t) /\ UNCHANGED <<task, ledger, repeat>>
    /\ cursor' = cursor + 1
    /\ UNCHANGED <<lim, cmds>>

EndTraversal ==
    /\ cursor > Len(Preorder)
    /\ cursor' = 0
    /\ UNCHANGED <<task, ledger, lim, repeat, cmds>>

\* JobsParam::timed_out_of_job_generation: the rest of the tree is left out.
TimeOut ==
    /\ Visiting
    /\ cursor' = 0
    /\ UNCHANGED <<task, ledger, lim, repeat, cmds>>

-----------------------------------------------------------------------------
(***************************************************************************)
(* Child commands of a job the server recognises.                          *)
(***************************************************************************)
ChildInit(t) ==
    /\ cursor = 0
    /\ task[t].state = "SUBMITTED"
    /\ SetState(task, t, "ACTIVE")
    /\ UNCHANGED <<lim, cursor, cmds>>

ChildComplete(t) ==
    /\ cursor = 0
    /\ task[t].state \in Running
    /\ SetState(task, t, "COMPLETE")
    /\ UNCHANGED <<lim, cursor, cmds>>

ChildAbort(t) ==
    /\ cursor = 0
    /\ task[t].state \in Running
    /\ SetState(task, t, "ABORTED")
    /\ UNCHANGED <<lim, cursor, cmds>>

-----------------------------------------------------------------------------
(***************************************************************************)
(* User commands.  Those that end in doJobSubmission start a traversal.    *)
(***************************************************************************)
User(command) ==
    /\ command \in UserCmds
    /\ cursor = 0
    /\ cmds < MaxCmds
    /\ cmds' = cmds + 1

Requeue(a) ==
    /\ task' = RequeueTasks(task, a)
    /\ ledger' = RequeueLedger(ledger, task, a)
    /\ repeat' = RequeueRepeat(a, Repeats[a])
    /\ cursor' = 1
    /\ UNCHANGED lim

\* RequeueNodeCmd without option: does nothing while a task below is running.
RequeueNode(a) == User("requeue") /\ Idle(a, task) /\ Requeue(a)

RequeueForce(a) == User("requeue force") /\ Requeue(a)

\* RequeueNodeCmd abort, given the path of an aborted task.
RequeueAborted(t) ==
    User("requeue abort") /\ task[t].state = "ABORTED" /\ Requeue(t)

\* ForceCmd on a task.
ForceTask(t, s) ==
    /\ User("force")
    /\ SetState(task, t, s)
    /\ cursor' = 1
    /\ UNCHANGED lim

\* ForceCmd recursive on a container: set_state_hierarchically sets every
\* state first, then updates the limits task by task, then bubbles up from n.
ForceRecursive(n, s) ==
    /\ n \notin Tasks
    /\ User("force")
    /\ LET T  == Tasks \cap Below[n]
           tk == [t \in Tasks |->
                     IF t \in T THEN SetStateOnly(task[t], s, TRUE) ELSE task[t]]
       IN  HandleStateChange(PathUp(n), tk, UpdateLimits(ledger, tk, T, s))
    /\ cursor' = 1
    /\ UNCHANGED lim

\* RunNodeCmd on a task: ignores the limits.
RunTask(t) ==
    /\ User("run")
    /\ task[t].state \notin Running
    /\ SubmitJob(t)
    /\ UNCHANGED <<lim, cursor>>

\* AlterCmd change limit_max.
ChangeLimitMax(l, v) ==
    /\ User("limit_max")
    /\ lim' = [lim EXCEPT ![l] = v]
    /\ cursor' = 1
    /\ UNCHANGED <<task, ledger, repeat>>

\* AlterCmd change limit_value: Limit::setValue; zero also drops the paths.
ChangeLimitValue(l, v) ==
    /\ User("limit_value")
    /\ ledger' = [ledger EXCEPT !.value[l] = v,
                                !.paths = {g \in @ : v # 0 \/ g[2] # l}]
    /\ cursor' = 1
    /\ UNCHANGED <<task, lim, repeat>>

-----------------------------------------------------------------------------
Traverse ==
    \/ StartTraversal \/ VisitContainer \/ EndTraversal
    \/ \E t \in Tasks : VisitTask(t)

Next ==
    \/ Traverse \/ TimeOut
    \/ \E t \in Tasks : ChildInit(t) \/ ChildComplete(t) \/ ChildAbort(t)
    \/ \E a \in Nodes : RequeueNode(a) \/ RequeueForce(a)
    \/ \E t \in Tasks : RequeueAborted(t) \/ RunTask(t)
    \/ \E t \in Tasks, s \in ForceStates : ForceTask(t, s)
    \/ \E n \in Nodes, s \in ForceStates : ForceRecursive(n, s)
    \/ \E l \in LimitNames, v \in AlterLims : ChangeLimitMax(l, v)
    \/ \E l \in LimitNames, v \in AlterValues : ChangeLimitValue(l, v)

Spec == Init /\ [][Next]_vars

\* The server traverses the tree every minute, and job generation does not
\* run into its time-out for ever; a job that was started ends, or its task
\* is taken out of its hands.  The end of a job is a request, served between
\* traversals: it is enabled again and again, hence strong fairness.
Fairness ==
    /\ WF_vars(Traverse)
    /\ <>[][~TimeOut]_vars
    /\ \A t \in Tasks : SF_vars(ChildComplete(t) \/ ChildAbort(t))

FairSpec == Spec /\ Fairness

-----------------------------------------------------------------------------
(***************************************************************************)
(* Properties.                                                             *)
(***************************************************************************)
TaskType == [state: States, tryNo: Nat, flags: SUBSET Flags]

LedgerType == [value: [LimitNames -> Nat],
               paths: SUBSET (Nodes \X LimitNames),
               incremented: SUBSET (Nodes \X LimitNames)]

\* Every variable has the type of the field it models; in particular a
\* limit's value never goes negative, whatever Limit::decrement is given.
TypeOK ==
    /\ task \in [Tasks -> TaskType]
    /\ ledger \in LedgerType
    /\ lim \in [LimitNames -> Nat]
    /\ repeat \in [Nodes -> Nat]
    /\ cursor \in Nat
    /\ cmds \in Nat

\* A limit's value is exactly the tokens of the paths it records: no sequence
\* of submissions, child commands, re-queues and forced states makes the
\* counter that gates job submission drift from the set it summarises.
\* (Limit::increment, Limit::decrement, Limit::reset)
ValueMatchesPaths ==
    \A l \in LimitNames : ledger.value[l] = Tokens(ledger.paths, l)

\* The governed task and limit g for which the limit must hold a token.
Consuming ==
    {g \in Governed : /\ g[1] \in Tasks
                      /\ task[g[1]].state \in IF Governor[g].kind = "submit"
                                              THEN {"SUBMITTED"} ELSE Running}

\* No token outlives its use: a path recorded in a limit is a running task
\* that pays for itself, or the node of an inlimit -n with a running task
\* below.  A path left behind would lower the limit's capacity for ever.
NoTokenLeak == ledger.paths \subseteq {Payer(g) : g \in Consuming}

\* The load a limit is there to bound stays within it: the tokens owed by all
\* the tasks now consuming the limit do not exceed its maximum, provided no
\* command bypasses the limits or lowers the maximum.
LoadWithinLimit ==
    \A l \in LimitNames : Tokens({Payer(g) : g \in Consuming}, l) <= lim[l]

\* Job generation never takes a limit above its maximum, also when commands
\* that ignore the limits have already done so (ECFLOW-324).
SchedulerKeepsLimit ==
    [][cursor > 0 =>
          \A l \in LimitNames : \/ ledger'.value[l] <= lim[l]
                                \/ ledger'.value[l] <= ledger.value[l]]_vars

\* A node whose tasks are all queued, as Node::requeue leaves them, holds no
\* token: "ensure the re-queue release tokens held by Limits higher up the
\* tree" (Node.cpp, Node::requeue).
RequeueReleasesTokens ==
    \A g \in ledger.paths :
        \E t \in Tasks \cap Below[g[1]] : task[t].state # "QUEUED"

\* A queued task is always submitted, or taken out of the queue, in the end:
\* the tokens it waits for come back.
QueuedTaskRuns ==
    \A t \in Tasks : task[t].state = "QUEUED" ~> task[t].state # "QUEUED"
=============================================================================

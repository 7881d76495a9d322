# ecFlow: a TLA+ verification project

ecFlow is a workflow manager: a server keeps *suites* (trees of families and
tasks), submits the jobs of tasks whose dependencies are met, and follows them
through the *child commands* that the jobs send back (init, complete, abort,
label, event, meter, wait, queue). Users act on the tree with commands (requeue,
force, run, alter, kill, zombie_* ...), and clients keep a copy of the tree by
incremental synchronisation.

This directory holds TLA+ models of the parts of the server where a wrong
interleaving or a long sequence of legal commands does lasting damage, TLC
configurations for them, and TLAPS proofs. Paths below are relative to `src/`.

## 1. Inventory

| Component | State it keeps | Operations | What makes it correct | Modelled |
|---|---|---|---|---|
| Limits and inlimits (`ANode/src/Limit`, `InLimit`, `InLimitMgr`) | value, maximum and consuming paths of every limit; the *incremented* flag of an inlimit -n | inLimit, increment, decrement, decrement for submission, reset, setValue, setLimit | value = tokens of the recorded paths; no path without a running job; job generation never exceeds the maximum; a waiting task gets its turn | `Limits` |
| Node tree (`Node`, `NodeContainer`, `Suite`, `Task`, `Jobs`, `JobsParam`) | state, suspension, try number, flags, repeat position | begin, requeue, set_state, bubbling of states, automatic re-queue, traversal with time-out | container states follow their children; nested repeats are nested loops; the suite comes to its end | `NodeTree`; as far as tokens go, `Limits` |
| Job submission (`Submittable`, `System`) | job password, process id (rid), try number; child processes of the server | submit, init, complete, aborted, run, kill, died | one job per submission; a submission ends once | `TaskJobs` |
| Child commands (`Base/src/cts/TaskCmds`) | none of their own | authenticate, doHandleRequest | a repeated command is forgiven, a foreign one is a zombie | `TaskJobs` |
| Zombie control (`Base/src/ZombieCtrl`, `ANattr/src/Zombie`) | the zombie list | handle_zombie, the six actions, add_user_zombies, remove_stale_zombies | one entry per task; actions hit the right process | `TaskJobs` |
| Client retry loop (`Client/src/ClientInvoker`) | tries, elapsed time | send, retry, block, give up | retries do no harm | `TaskJobs` |
| Client sync (`CSyncCmd`, `SSyncCmd`, `SNewsCmd`, `ClientSuiteMgr`, `ClientSuites`, `SuiteChanged`, `DefsDelta`) | global and per-suite change numbers, client handles, the client's copy | news, full and incremental sync, register, drop | after a sync the copy equals the server's tree; "no news" is true | `ClientSync`, `Mirror` |
| Check points (`Server/src/CheckPtSaver`) | check-point and backup file, numbers at the last save | periodic and explicit save, restore | the last complete save survives every crash, and changes are saved in the end | `CheckPoint`, `Durable` |
| Server (`Server/src/BaseServer`, `NodeTreeTraverser`) | RUNNING, SHUTDOWN, HALTED; timers | start, stop, poll | commands and traversals do not overlap; a halted server is quiet | the interleaving in all modules, the states in `CheckPoint` |
| Repeats (`ANattr/src/RepeatAttr`) | value, index | increment, reset, change | start, step and end at the boundary | as a counter, in `NodeTree` and `Limits` |
| Queues (`ANattr/src/QueueAttr`) | index and state of each step | active, complete, aborted, reset | each step is handed out once and none is forgotten | `Queue` |
| Times (`TimeSeries`, `CronAttr`, `Calendar`, `NodeTime`) | next slot, validity, clock | calendarChanged, isFree, requeue | no slot lost or run twice; a cron runs every day | `TimeSlots` |
| Expressions (`ExprAst`) | freed by a user | evaluate, free, clear | a complete expression spares running jobs | conjunctions of states, in `NodeTree` |
| Script pre-processing, parser, log, passwords, viewer, Python, HTTP, UDP, simulator | - | - | - | no: text, I/O, user interface |

How they interact. The server is one thread running an asio `io_service`:
requests, the traversal timer and the check-point timer are handled one after the
other. A request is decoded, authenticated, applied and answered by one call of
`handleRequest`; commands that may free dependencies end with a traversal
(`doJobSubmission`) in the same call, child commands only ask the timer for one
(`increment_job_generation_count`). The traversal goes depth first through the
tree, tests every queued or aborted task and submits it: `increment_try_no` (new
password, empty rid), job file, `System::spawn` of ECF_JOB_CMD, state SUBMITTED.
`Task::handleStateChange` updates the limits, lets repeats re-queue and bubbles
the state up. The job runs elsewhere and calls back; death of the ECF_JOB_CMD
process arrives separately, by SIGCHLD.

What is hard here: replies are lost and commands sent again, against a task that
may have been resubmitted, re-queued, forced or completed meanwhile; users take
tasks away from running jobs; queuing systems start jobs twice; decisions of the
user (adopt, kill) take effect at a later message; the accounting of limits is
spread over every handler that changes a state; job generation stops in the
middle of the tree when time is up. `PROJECT.json` lists these hazards line by
line with the properties that cover them.

## 2. Modules

Ordered by what loses work or capacity silently.

| Module | Instances | Proofs | Abstract specification |
|---|---|---|---|
| `Limits` | `MCLimits` | `LimitsProofs` | |
| `TaskJobs` | `MCTaskJobs` | `TaskJobsProofs` | |
| `NodeTree` | `MCNodeTree` | `NodeTreeProofs` | |
| `ClientSync` | `MCClientSync` | `ClientSyncProofs` | `Mirror`, model-checked and proved |
| `CheckPoint` | `MCCheckPoint` | `CheckPointProofs` | `Durable`, model-checked and proved |
| `Queue` | `MCQueue` | `QueueProofs` | |
| `TimeSlots` | `MCTimeSlots` | `TimeSlotsProofs` | |

The modules are not composed into one: they meet at the state of a task, and each
takes what the others decide as a free choice or leaves it out (`Limits` and
`TaskJobs` let a dependency hold a task at will, `TimeSlots` lets triggers and
limits hold it, `NodeTree` has no limits and times).

`PROJECT.json` lists the runs that are checked together with the code. Further
configurations in this directory, described in section 11, show single
divergences between the code and its comments, help texts and manual.

Definitions called *variant* in their comment are mistakes one could make in the
code. Each property of a passing run is refuted when one of them is put in the
place of the real definition; no specification uses them.

## 3. Limits

`Limits` models a suite of nodes (`Below[n]` is the subtree of n, `Preorder` the
order of traversal), the limits, and the inlimits that hang nodes on them.

| TLA+ | Code |
|---|---|
| `task[t]` | state, `tryNo_` and the flags that stop resubmission |
| `ledger.value`, `ledger.paths` | `Limit::value_`, `Limit::paths_` |
| `ledger.incremented` | `InLimit::incremented_` of inlimit -n |
| `lim`, `repeat` | `Limit::lim_`; iterations left of a `RepeatAttr` |
| `cursor` | where `Suite::resolveDependencies` is in its walk; 0 outside |
| `Governor[<<n, l>>]` | the inlimit that the walk up the tree meets first: `limitSet` makes the nearest one win |
| `Charge`, `Refund` | `Limit::increment`, `Limit::decrement` |
| `IncrementInLimit`, `DecrementInLimit`, `DecrementInLimitForSubmission`, `InLimit` | the functions of `InLimitMgr`, with the walk of `Node` |
| `UpdateLimits` | `Submittable::update_limits` |
| `HandleStateChange` | `Task::handleStateChange`: limits, then `requeueOrSetMostSignificantStateUpNodeTree` |
| `RequeueTasks`, `RequeueLedger`, `RequeueRepeat` | `Node::requeue` and its overrides: the node, then its children |
| `StartTraversal`, `VisitContainer`, `VisitTask`, `EndTraversal`, `TimeOut` | `Jobs::generate` and `resolveDependencies`, node by node |
| `ChildInit`, `ChildComplete`, `ChildAbort` | the child commands of an accepted job |
| `RequeueNode`, `RequeueForce`, `RequeueAborted`, `ForceTask`, `ForceRecursive`, `RunTask`, `ChangeLimitMax`, `ChangeLimitValue` | the user commands |

Requests never overlap a traversal (one thread), so every action but those of
the traversal requires `cursor = 0`; the traversal is nevertheless split node by
node, because `TimeOut` may stop it anywhere and each submission changes what the
next task sees. A submission may fail (script or job command), with the state
changes of the code. Container states are computed, not stored.

Bounds: `MaxCmds` user commands, `Repeats` iterations; try numbers are bounded by
`EcfTries` and the commands. The suites of `MCLimits` have a suite, a family with a
repeat, and three tasks: the smallest tree with a sibling inside and outside the
limited family, an inlimit that overrides one above, an inlimit asking for two
tokens and one of each kind.

| Run | Shows |
|---|---|
| `limits_altered` | tasks limited one by one; users run them past the limits, force and re-queue them and alter value and maximum: `TypeOK` (value never negative), `NoTokenLeak`, `SchedulerKeepsLimit` |
| `limits_family` | a family with inlimit -n against a task, one token: `ValueMatchesPaths`, `NoTokenLeak`, `LoadWithinLimit`, and `QueuedTaskRuns` under `FairSpec` |

Fairness of `FairSpec`: the traversal goes on (the server polls every minute);
job generation does not run into its time-out for ever (otherwise the tail of the
tree is never reached, and the code makes no attempt to prevent that); every job
that was started ends. The last is strong fairness: the end of a job is a request
that is only served between traversals, so it is enabled again and again rather
than continuously.

### Proofs

`LimitsProofs` proves, for every suite, every set of limits and inlimits, and
unbounded command sequences within `MaxCmds`:

- `TypeCorrect`: `Spec => []TypeOK`.
- `ValueAlwaysMatchesPaths`: without `alter change limit_value`, the value is the
  tokens of the paths. Inductive by itself with the types: each operator on the
  ledger preserves it (`Charge` adds tokens only for a new path, `Refund` subtracts
  only for a path it removes). Cardinalities are those of a set of token units, so
  that the sum needs no recursion.
- `SchedulerAlwaysKeepsLimit`: an action property; a traversal step that raises
  a value passed `InLimit`, which looks ahead.
- `TokensNeverLeak`: `Spec => []NoTokenLeak`, if no inlimit -n is overridden below
  its node (`NotOverridden`) and, where there is an inlimit -n, nobody gives a
  forced re-queue. `NoTokenLeak` is not inductive: for an inlimit -n the flag must
  still be set when the last task ends. The invariant `LeakFree` adds that every
  path of an inlimit -n is remembered as incremented. Both assumptions are needed:
  `limits_requeue.cfg` (section 11) shows it of the second; of the first, TLC finds the
  leak (`InLimitMgr.cpp:259`) when `limits_family` is given
  `InLimits <- OverriddenInLimits` and `InitLim <- TwoTokens`.
- `LoadAlwaysWithinLimit`: `Spec => []LoadWithinLimit`, with forced re-queues and
  overridden inlimits, if no command ignores or changes the limits (`NoneBypasses`: no run,
  no alter of a limit, no state forced to submitted or active) and each limit is owned by a
  node above those it limits (`LimitsAbove`). The property counts the tasks that run, not
  the limit's value: the invariant (`Backed` and `Within`) joins the agreement of value and
  paths, the value within the maximum, and the converse of `LeakFree`: every task that consumes a
  limit has its token recorded, and an inlimit -n that remembers its token still has one
  (or the next task would not be charged). `LimitsAbove` is needed: re-queue of a
  family, by its repeat too, resets the limits it owns (`ANode/src/Node.cpp:372`) and with
  them the tokens of jobs that run elsewhere; TLC finds the limit exceeded when
  `limits_family` is given `Home <- ElsewhereHome`. Within a family that owns its limit this
  cannot happen.

The assumptions on the constants are those of the code: a tree, at most one
inlimit per node and limit (the parser refuses more), positive tokens.
`NearestAssumption` says of a tree that one of the inlimits above a node is the
nearest. TLC evaluates all of them on every run.

## 4. TaskJobs

One task, its job processes and the zombie list.

| TLA+ | Code |
|---|---|
| `task` | state, `paswd_`, `rid_`, `tryNo_`, flags of a `Submittable` |
| `zombies` | `ZombieCtrl::zombies_`, entries of this path: password, rid, user action |
| `procs[p]` | external: a job process, the password in its script and what it sends next |
| `signals` | external: ECF_KILL_CMD processes on their way |
| `jobcmds` | `System`'s list of ECF_JOB_CMD processes not yet reaped |
| `generating` | a user command that still has to run `doJobSubmission` |
| `Verdict`, `AnswerAgain`, `ChildCmd` | `TaskCmd::authenticate` |
| `Apply`, `Applied` | the handlers of the child commands and `Submittable::init`, `complete`, `aborted` |
| `HandleZombie`, `UserAction` | `ZombieCtrl::handle_zombie`, `handle_existing_zombie`, `handle_user_actions` |
| `FindZombie`, `RemoveMatch`, ... | the look-ups of `ZombieCtrl` |
| `SubmitJob`, `GenerateJob` | `increment_try_no` and `submit_job_only` |
| `JobCmdFails` | `System::died` |
| `Requeue`, `ForceCmd`, `Run`, `RunForce`, `Kill`, `ZombieCli`, `ZombieKillCli`, `ZombieApi` | the user commands |
| `NextOf`, `GiveUp` | `ClientInvoker`: send again, go on, give up |
| `Signalled`, `Duplicate` | external: arrival of a signal; a queuing system starting a job twice |

Passwords are numbers in the order of generation and a process is its own rid; 0
is the empty string. Any reply may be lost after the command was applied. A
dependency may hold the task at any time, a repeat may re-queue it when it
completes (`Loops`). `ExportsRid` says that job scripts export ECF_RID, as the code
recommends. `hist` records what the properties speak of; no action reads it.

Bounds: `MaxPasses` submissions, `MaxProcs` processes, `MaxCmds` commands. Two
submissions give every pair of an old and a new job, and two processes under one
password every duplicate. The model stops at
these bounds, and a complete task may rest for ever: deadlock is not checked.

| Run | Shows |
|---|---|
| `task_jobs` | all commands but the plain force and forced run, all zombie actions: `TypeOK`, `AtMostOneZombie`, `ResendsForgiven`, `OneProcessPerPassword`, `EndsOnce`, `ForcedAbortHolds` |

`ResendsForgiven` speaks of behaviours in which only replies are lost (`hist.quiet`): no
user, duplicate, failing job command or repeat, no client that gives up, no zombie
adopted or killed. In the excluded cases the code makes zombies of jobs by
design. ECF_TRIES is not excluded, and there it makes one as well: the
abort is applied, its reply is lost, job generation submits the task again with a new
password, and the abort that the client then sends again is refused
(`Base/src/cts/TaskCmds.cpp:153`, `294`). The property says exactly how far this goes: no
command is refused but an abort that was applied already, of a submission that is
not the last, and while the task has been submitted once there is no zombie.
`OneProcessPerPassword` and `EndsOnce` restart their
count for a job the user has adopted. A user who forces QUEUED, SUBMITTED or ACTIVE
reopens a submission whose password the task keeps; the runs that check these two
properties force COMPLETE and ABORTED.

### Proofs

`TaskJobsProofs` proves, for every value of the constants - any number of
submissions, processes and commands, any zombie attribute, any states users force:

- `TypeCorrect`: `Spec => []TypeOK`. The bounds in it depend on the state: passwords
  are at most `passes`, rids at most `Len(procs)`.
- `OneZombieEntry`: `Spec => []AtMostOneZombie`.

The inductive invariant `IInv` is their conjunction: each is used in the proof of
the other. A look-up by ZombieCtrl returns the first entry that matches, the minimum of
a set of positions; that it is a position of the list is immediate when the list
has at most one entry. Conversely the list stays that short because an
entry is added only when the look-up, which falls back on the path, finds none. One
lemma per action shows that it preserves `IInv`; lemmas on the look-ups, on the
operations on the task and on the growth of the bounds carry them.

The other four properties of the run are proved from what a step can do to the task
and to `hist`. Lemma `StepShape`: every step keeps the password of the task and at most ends
it, takes its password away, gives it a new one, accepts a child command, adopts a
zombie, or answers a command without applying it.

- `SubmissionEndsOnce`: `Spec => []EndsOnce`, if users force only COMPLETE and ABORTED.
  `EndsInv` adds that a task which is neither complete nor aborted has no end
  recorded under its password, and that passwords not yet given out have no
  history.
- `PasswordHasOneProcess`: `Spec => []OneProcessPerPassword`, if moreover scripts export
  ECF_RID. `OwnInv` adds that the process heard under an open task's password is the one
  in its rid, and that nobody has been heard while the rid is empty.
- `ResendsMakeNoZombie`: `Spec => []ResendsForgiven`, for all values of the constants. `QuietInv`
  says what an undisturbed history looks like: no signal, at most one live process of
  the last submission, which `Fits` the task (what it sends next is what the task
  expects or the command it accepted last), and processes of earlier submissions that
  are done or send an abort that was applied (`Over`), as the server submits
  an aborted task only. A zombie can only come from one of those, hence from the second
  submission on.
- `ForcedAbortKept`: `Spec => ForcedAbortHolds`, for all values of the constants: a task that
  `force aborted recursive` has set is not submitted until a user acts on it. `ForcedInv`:
  it keeps its state and its flag.

Both hypotheses are about users and scripts, not about the server: the task keeps
its password when a user forces it back to QUEUED, SUBMITTED or ACTIVE, and without
ECF_RID two processes of one password cannot be told apart. `task_jobs.cfg` satisfies
them.

## 5. NodeTree

The states of the nodes of one suite. `tree` is one record, because almost every
operation of the code walks through the tree and changes many nodes. Nodes are
numbered in the order in which the code goes down the tree (depth first, `Parent`
gives each one's parent). A recursion of the code over children is `Down`, the nodes
below in that order; one that acts after its children, or over parents, is `Up`.
Both are a `Fold`, a recursive function, so that the proof system can be used.

| TLA+ | Code |
|---|---|
| `tree.st`, `tree.susp`, `tree.rep` | `st_`, `suspended_`; the values of `repeat_` used up |
| `tree.free` | `Expression::free_` of triggers |
| `tree.try`, `tree.flag` | `tryNo_`; FORCE_ABORT and the flags of a failed submission |
| `tree.job` | external: the process that holds the task's password |
| `ComputedState`, `DeepState` | `computedState` of the immediate children, of all tasks below |
| `InitState`, `RequeueNodes`, `ResetRepeats`, `Requeue`, `DefstatusPropagation` | `initState`, `requeue` of `Node`, `Submittable` and `NodeContainer`, `handle_defstatus_propagation` |
| `Show`, `SetUp`; `RequeueOrShow`, `RequeueOrSetUp` | `set_most_significant_state_up_node_tree`, `requeueOrSetMostSignificantStateUpNodeTree` |
| `SetState`, `SetStateHierarchically` | `set_state`, `set_state_hierarchically` |
| `EvaluateTrigger`, `EvaluateComplete`, `Eligible`, `Submit`, `ResolveDependencies`, `Visit` | `resolveDependencies` of `Node`, `Task` and `NodeContainer`, and what it calls; `Visit` goes down the tree, `entered` are the nodes that let it go on to their children |
| `Traverse`, `TraverseBadly` | `traverse_node_tree_and_job_generate`; a time-out at any node, or one submission that fails |
| `ChildInit`, `ChildComplete`, `ChildAbort` | the child commands of an accepted job |
| `Suspend`, `Resume`, `FreeDep`, `RequeueCmd`, `RequeueAborted`, `ForceCmd` | the user commands; `RequeueCmd` with the loop over several paths |

A command with the traversal that ends it is one step, as it is in the server. An
expression is a conjunction of comparisons of a node with a state. The one-element
sets in `Fold` and `Generate` make TLC compute a tree once and have no other meaning.

`node_loops`: a suite with a repeat over two families. The first is repeated too,
the second waits for it and has the complete expression that its first task is
complete: nested loops, and a rule that competes with a running job. Two tries per
job, one traversal that is cut short or one submission that fails, one user
command out of all, any number of resumes.

- `ContainersAgree`: stored and computed states of families agree. It is why triggers on
  families can be trusted, and why `Limits` may compute them.
- `RuleSparesJobs`: a complete expression never completes a family above a running job.
- `EveryIterationRuns`: if no user forces or re-queues, each task completes exactly
  once in every iteration of all repeats above it.
- `Finishes`: if in the end nothing is suspended or aborted, the suite is complete.

Fairness: the timer traverses the tree (`WF`), and submitted jobs start and end.
That aborted tasks are dealt with is a premise of `Finishes`, not fairness.

`node_paths` is a violation: see section 10.

### Proofs

`NodeTreeProofs`, for every tree of nodes, with any defstatus, repeats, triggers and
complete expressions, any number of tries, failures and commands:

- `TypeCorrect`, and `ContainersAlwaysAgree` (`ContainersAgree`). Induction over numbers and
  over a node's parents is derived from the least element of a set of numbers
  (`LeastOf`, `Induction`, `TreeInduction`), and existence of recursive functions with it
  (`Recursion`). Then each fold is characterised by what it does step by step
  (`SetUpSteps`, `PropagateSteps`, `RequeueOrSetUpSteps`, `VisitIn`, `RequeuePathsIn`). The
  invariant `GoodTrees` is agreement at every node. On the way up it is broken: what holds
  there is agreement at all nodes but the ones above that have still to be looked at, and a
  re-queue by a repeat, which ends the way up, restores it down to the tasks and up to the
  suite (`RestartAgrees`).
- `RuleAlwaysSparesJobs` (`RuleSparesJobs`).
- `LoopsAlwaysNest` (`EveryIterationRuns`), if no defstatus is complete (`NoneStartsComplete`: such
  a defstatus skips tasks on purpose; `node_loops` is an instance). `EveryIterationRuns`
  speaks of the end only. The invariant `Looping` has a count `G` of the completions of
  every node, also of families, with `Tally`: a node has completed once for each of its
  iterations in every completion of its parent, and for the iterations done in the one
  its parent is at (at most so, for nodes that a complete expression may complete).
  `Sound` adds that a family is complete if and only if its children are (`Closed`) and that
  the repeat of a node that is not complete has a value (`Valid`). The three ways in
  which a node can end a step of the way up, nothing (`RiseGoesOn`), a complete node without
  further value (`RiseEnds`: its parent is next) and a re-queue for the next value
  (`RiseRestarts`: the repeats below start again while the parent's count stays), keep it, and
  so do complete expressions (`RuleIsSound`). `WayUpCounts` puts the steps together.
  `Counts` ties `G` to the jobs that completed, and `JobsRun` (a job that has begun is seen
  as active) shows that no job completes a task twice. At the end `AllIterations` multiplies
  the repeats down the tree.

`Finishes` is a liveness property and model-checked only. `SubmittedFree` and
`RequeueKeepsSuspended` do not hold of the code (sections 10 and 11).

## 6. ClientSync

How clients keep a copy of the definition.

| TLA+ | Code |
|---|---|
| `ecf` | `Ecf::state_change_no_`, `modify_change_no_` |
| `root`, `suite` | the items of the definition with their change numbers, and the two numbers that `SuiteChanged` maintains per suite |
| `handle` | `ClientSuiteMgr`, `ClientSuites` |
| `cache` | `DefsCache` |
| `client`, `wire` | the client's handle, numbers and copy; the reply on its way |
| `SendsFull`, `DeltaReply`, `FullReply`, `SyncReply` | `SSyncCmd` and `collateChanges` |
| `News` | `SNewsCmd` |
| `Merged`, `Applied` | `SSyncCmd::do_sync`, the mementos applied by the client |
| `ChangeItem`, `Restructure`, `QueueByPath`, `Tick`, `AddSuite`, `DeleteSuite`, `Clear`, `Restart` | what changes the definition |
| `Sync`, `DeliverSync`, `Lose`, `Reset` | a request, its reply, a broken connection, a client that starts afresh |
| `Register`, `Drop`, `DropUser`, `AddToHandle`, `RemoveFromHandle`, `AutoAdd` | `ClientHandleCmd` |

`Allowed` names the kinds of step a run explores, so that each run states under
which circumstances its properties hold. `MaxState` and `MaxModify` bound the change
numbers, `MaxEvents` the disturbances.

| Run | Shows |
|---|---|
| `client_sync` | no handle, suites come and go, structure changes, replies are lost, the client resets: `SyncMirrors`, `NoNewsIsTrue`, refinement of `Mirror`, and `Converges` |
| `client_handle` | a handle, suites added to it, removed from it and deleted, and a calendar: `SyncMirrors`, `NoNewsIsTrue` |
| `client_faults` | with restarts, dropped and re-registered handles and queues of other suites incremental syncs are not reliable (section 11); a full sync still is: `FullIsFresh`, for the cache |

The suites are symmetric in the last two. In `client_faults` a server takes four numbers of
each kind and the client resets at will, so that several full syncs with small and
structural changes between them use one cache; the cache ends with its server.

`Mirror` is the abstract specification: a client is handed the definition of the
moment its request is served, or nothing. It knows no numbers, deltas, handles or
cache. The refinement maps the reply on the wire to what the client will hold when
it has applied it.

Fairness of `Converges` is strong: a client that polls gets round to a sync and not
every reply is lost. Five state changes and four structural ones are enough for a
suite to be deleted and added again between two syncs.

### Proofs

`ClientSyncProofs`, for any set of clients, suites, items and values and any bounds:

- `TypeCorrect`: `Spec => []TypeOK`.
- `FullAlwaysFresh`: `Spec => []FullIsFresh`, whatever else happens - restarts, lost
  replies, dropped handles. `Fresh` says that a cache whose numbers are the server's
  holds the server's definition; every change of the definition takes a number.
- `SyncAlwaysMirrors`, `NoNewsAlwaysTrue` and `ImplementsMirror` (`Spec => MirrorSpec`), under the
  hypothesis `Undisturbed`.

`Undisturbed` leaves out queues reached by path, restarts, dropped and re-registered
handles, replies lost to a client with a handle, and `delete _all_` together
with handles. Section 11 has a configuration for each exclusion that shows why it is
needed. What is left is what the code promises to handle: changes of every
kind, suites that come and go, replies lost to a client without a handle, clients that
start afresh, handles whose suites change.

`SyncMirrors` is not inductive: it speaks of a client that has just synced. The
invariant `Mirrored` is `Base` (types, blank clients, the cache, replies on the wire)
and `InSync`: what the client holds and the server has changed since differ only in
items whose change number is above the client's, the numbers of a suite are not
below those of its items, a suite with a higher structural number forces a full
reply, and the reply on the wire is good for the client that waits for it. TLC
checked it before the proof, also for a client with a handle and for two clients. The
refinement needs it for one step, the request: a delta merged into the client's copy
must be the server's definition of that moment.

## 7. CheckPoint

| TLA+ | Code |
|---|---|
| `srv` | process up or down, server state, check mode, `CheckPtSaver::running_`, timer armed |
| `mem`, `save` | the definition (a version number) and whether the change numbers moved since the last save; the step of `explicitSave` |
| `check`, `backup` | the two files: absent, empty, cut short or complete |
| `Remove`, `Rename`, `Write` | the three steps of `explicitSave` |
| `SaveFails`, `Die` | a full disk or a failing rename; a death at any step |
| `Start`, `Restore` | `load_check_pt_file_on_startup` with its fall-back on the backup; `restore_from_checkpt` |
| `TimerFires`, `SaveNow`, `SetMode`, `Halt`, `Shutdown`, `Restart`, `Plug`, `Change`, `DeleteAll`, `Traverse` | the timer and the commands |

`version`, `last` and `faults` count; `last` is the version saved last.

`checkpt_durable` takes all modes, three versions and two faults (one to leave
something half done and one while it is being repaired). Its faults leave no
partial file: `GoodFile`, `CleanIsSaved`, `HaltedIsQuiet`, refinement of `Durable`,
`StartsFromGoodFile`, and, with a timer that fires and saves that go on (`WF`),
`ChangesSaved`.

### Proofs

`CheckPointProofs`, for every set of modes, any number of versions and faults:

- `TypeCorrect`: `Spec => []TypeOK`.
- `GoodFileSurvives`: one file is the last save, if cut writes leave nothing or an empty
  file (`NoCuts`). `GoodFile` is not inductive; `Sound` says which file it is: a
  complete check point is the last save, without one the backup is, and
  during a save the backup is given up only when the check point can replace it.
- `CleanIsAlwaysSaved` and `HaltedIsAlwaysQuiet`, whatever cut writes leave. The second
  needs that a halted server's `running_` is off.
- `AlwaysStartsFromGoodFile` and `KeepsPromise` (the refinement of `Durable`), if no write is cut
  short. Both assumptions are needed: `checkpt_cut.cfg` and `checkpt_start.cfg`.

## 8. Queue

A queue attribute and the jobs that work on it with the script of the help text:
ask for a step, work, report; on failure abort the step and exit by the trap; after
`<NULL>` count the aborted steps and reset the index.

| TLA+ | Code |
|---|---|
| `state`, `index` | `state_vec_`, `currentIndex_` |
| `job` | external: where a script is, and the step it holds |
| `Active`, `ActiveNull`, `Complete`, `Aborted`, `NoOfAborted`, `Reset`, `Requeue` | the functions of `QueueAttr` |
| `Reply` | the reply arrives, or is lost and the client sends the command again |
| `Kill`, `Rerun` | a job that dies without its trap; a job started again |

`seen` is a history of what has happened; properties name it as their premise. `queue`: three
jobs, three steps, three events out of failures, lost replies, kills and
re-queues. Two jobs that hold the same step and a third that resets need
no more. `AllComplete` assumes that scripts go on (`WF`).

### Proofs

`QueueProofs`, for any number of jobs, steps and events: `TypeCorrect`; `NeverSkips` (inductive with
the types); `NeverTwoJobs` and `AlwaysHandsOutWaiting` from `FInv`, which adds the
`Frontier`: from the index on all steps are queued and nobody holds them, as
long as the index only moved forward; `AlwaysHeld`; and `NullAlwaysMeansProcessed`, which combines
`NeverSkips` and `AlwaysHeld`. `AllComplete` is model-checked only.

## 9. TimeSlots

A task with any number of times and crons, single or series, absolute or relative
to the re-queue.

| TLA+ | Code |
|---|---|
| `now` | the time of day of the suite's calendar |
| `attr[i]` | `free_`, `isValid_`, `nextTimeSlot_`, `suiteTimeAtReque_`, `relativeDuration_` |
| `task` | state, NO_REQUE_IF_SINGLE_TIME_DEP, iterations left of the repeat |
| `calendarChanged`, `isFree`, `requeue`, `reset`, `checkForRequeue`, `miss_next_time_slot` | the functions of `TimeSeries`, with those of `TimeAttr` and `CronAttr` |
| `timeDependenciesFree`, `testTimeDependenciesForRequeue`, `do_requeue_time_attrs`, `freeHoldingTimeDependencies` | `NodeTime` |
| `Tick`, `Generate` | the minute of the server: calendar, attributes, job generation |
| `JobCompletes`, `JobAborts`, `CompleteByRule` | the end of a job, and a complete expression |
| `Run`, `ForceComplete`, `FreeDep`, `RequeueNode` | the commands |

`hist` records the slots since the task was queued, what users freed, whether a user
ran or completed the task since then, and the slots users took early; no action
reads it, and it reads none of the code's flags. An aborted task may be submitted again
at any visit that its times allow, for ECF_TRIES and the flags that stop it. A day has 7 or 10 minutes, enough for a slot
before, inside and after a run, an overrun, and a job over midnight.

`time_slots`: a single slot and a series, three commands, a repeat, a hold by
triggers: `OncePerSlot`, `EarlyRunsReplaceSlots`, `NoSlotLost`, `QueuedForASlot`.
`time_cron`: a cron, four commands: `CronRuns` under `LiveSpec` (the timer fires,
jobs end).

### Proofs

`TimeSlotsProofs`, for every list of attributes, length of the day and sequence of
commands: `TypeCorrect`, and `AlwaysOncePerSlot`. `OncePerSlot` is not inductive: the
invariant adds `Grids` (the next slot of a series is on its grid, which needs
that `Beyond` steps along it) and `Released` (an attribute that is free, or is about
to be, has seen a slot since the task was queued).

The other three invariants hold for lists in the order of the day, `InDayOrder`: absolute
times of one kind, each starting after the one before has finished, and no free-dep.
All of it is needed: `time_free_dep` and `time_unsorted` (section 11) break them without it.

- `EarlyRunsCount` (`EarlyRunsReplaceSlots`) rests on `Accounts`: its part `Tracks` says of
  each attribute that the slots ahead of it are those of its day, less the ones users
  ran early (`Agrees`), and that no attribute has begun its slots before the previous
  one has had its last (`OneAfterAnother`, so that `miss_next_time_slot`, which takes a slot from
  the first valid attribute in the list, takes the next of the day). It also
  ties NO_REQUE_IF_SINGLE_TIME_DEP to the history: the flag is set exactly if a user ran or
  completed the task since it was queued.
- `AlwaysQueuedForASlot` (`QueuedForASlot`) and `SlotsNeverLost` (`NoSlotLost`) also assume
  `SlotsAreMet`: times whose finish is one of their slots (`time_stuck` shows a queued task
  with no slot to come where it is not), and a server that is never late (one that is may
  step over the last slot). `Waits` adds to `Accounts` that a task re-queued by its times is
  free or has a valid attribute with its finish ahead, and is free once it has met a slot.

`time_slots` is an instance of both hypotheses. `CronRuns`, a liveness property, is
model-checked only.

## 10. Finding

`node_paths`: the re-queue command hands one `Requeue_args` to every path it names, and
`NodeContainer::requeue` counts in it how deep it is. From the second path on
the counter is above zero, and a node that the user has suspended and named is
resumed, contrary to the comment "we only clear suspended for child nodes"
(`Base/src/cts/RequeueNodeCmd.cpp:73`).

## 11. Further configurations

Each is refuted by TLC in seconds and shows one divergence, or one premise that a
property above needs.

| Configuration | Property | What the code does |
|---|---|---|
| `limits_requeue` | `RequeueReleasesTokens` | `Node::requeue` clears the incremented flag of inlimit -n (`ANode/src/Node.cpp:374`) before it releases tokens: those of a family re-queued by force stay taken |
| `force_abort` | `ForcedTaskAbortHolds` | `Node::set_state` drops its argument `force` (`Node.cpp:909`): a task forced to aborted without `recursive` is submitted again |
| `zombie_adopt` | `AdoptsOnlySameProcess` | process ids are compared when zombie_adopt is given, not when the job is adopted (`Base/src/ZombieCtrl.cpp:579`) |
| `zombie_kill` | `ZombieKillSparesTask` | a zombie without process id makes zombie_kill signal the task's current job (`ZombieCtrl.cpp:649`) |
| `node_held` | `SubmittedFree` | a complete expression of a child completes a family, which is re-queued and suspended by its defstatus while its children are being visited (`ANode/src/NodeContainer.cpp:506`): the next child is submitted |
| `sync_queue_path` | `SyncMirrors` | a job that works on a queue of another suite leaves that suite's change number behind (`Base/src/cts/TaskCmds.cpp:1109`) |
| `sync_clock` | `ClockMirrors` | the calendar is stamped with a number not taken (`ANode/src/Suite.cpp:251`): sync_clock may leave it out |
| `sync_restart` | `SyncMirrors` | numbers start from zero at a restart: a client whose numbers they have caught up with gets a delta (`Base/src/stc/SSyncCmd.cpp:85`) |
| `sync_clear` | `SyncMirrors` | `delete _all_` drops the handles without the clients' knowledge: the next one to register is given a number that is still in use (`ANode/src/Defs.cpp:1545`) |
| `sync_lost_reply` | `SyncMirrors` | the flag that forces a full sync of a handle is cleared when the reply is made (`ANode/src/ClientSuites.cpp:137`) |
| `sync_drop` | `SyncMirrors` | a client keeps its numbers when it drops its handle (`Base/src/cts/ClientHandleCmd.cpp:198`); likewise, with "reregister" allowed in place of "drop", when it registers one without suites (`ClientSuites.cpp:68`) |
| `sync_dropped` | `FullNamesKnownHandle` | a full sync for a handle dropped meanwhile uses a null pointer (`SSyncCmd.cpp:228`) |
| `checkpt_cut` | `GoodFile` | a file cut short, but not empty, replaces the good backup (`Server/src/CheckPtSaver.cpp:119`) |
| `checkpt_start` | `StartsFromGoodFile` | an empty check point loads without error; the backup is not tried (`Server/src/BaseServer.cpp:139`) |
| `checkpt_unreadable` | `RefusesUnreadable` | the server starts although it can load neither file (`BaseServer.cpp:198`) |
| `checkpt_halted` | `HaltedNeverSaves` | in mode always a halted server saves after each command (`CheckPtSaver.cpp:211`) |
| `checkpt_on_time` | `ChangesSavedAlways` | check_pt=on_time does not start the timer (`BaseServer.cpp:281`) |
| `queue_reset` | `HandsOutWaitingAlways` | after a reset complete and active steps are handed out again (`ANattr/src/QueueAttr.cpp:126`) |
| `queue_lost` | `NullMeansProcessedAlways` | a lost reply to active hands a step out to nobody (`QueueAttr.cpp:128`) |
| `time_free_dep` | `EarlyRunsReplaceSlots` | after free-dep the slot is run all the same (`ANode/src/NodeTime.cpp:567`) |
| `time_stuck` | `QueuedForASlot` | the finish of a series is taken for its last slot (`ACore/src/TimeSeries.cpp:557`) |
| `time_unsorted` | `QueuedForASlot` | a run before its time takes a slot from the first attribute in the order of the definition, not of the day (`ANode/src/NodeTime.cpp:523`) |
| `time_midnight` | `NoRequeueAfterMidnight` | whether the day has changed is judged by the time of day (`TimeSeries.cpp:472`) |

## 12. What is not shown

- Liveness (`QueuedTaskRuns`, `Finishes`, `Converges`, `ChangesSaved`, `AllComplete`,
  `CronRuns`) and the properties not named under a module's proofs are checked by
  TLC on the instances above only. The proof system handles neither fairness nor
  ENABLED.
- The theorems without a run (`TypeCorrect` of `NodeTree`, `ClientSync`, `CheckPoint`, `Queue` and
  `TimeSlots`, and `NeverTwoJobs`) state what the other proofs rest on or imply.
- Not modelled: limits, times and triggers in one model; today, day, date and the days of
  a cron; late, autocancel, autoarchive, autorestore, verify, aliases; events,
  meters and variables in expressions; delete, plug (but for its lock), replace,
  order, edit_script and most of alter; ECF_PASS=FREE, zombies of deleted tasks, wait;
  failures of ECF_KILL_CMD; intervals of check-pointing in seconds; group commands. They are
  operations of modelled components whose state the models leave out.
- Not modelled at all: parser and printer, script pre-processing, logging, password and
  white-list files, viewer, Python, HTTP, UDP, simulator: text, input and output, user
  interfaces and vendored libraries. They are most of the repository's lines.
- In `TaskJobs` the generated variable ECF_RID is taken to equal `rid_`, which holds
  for the states users force in the runs.

## 13. Running

    tlc -workers 2 -config limits_family.cfg MCLimits
    tlc -workers 2 -config task_jobs.cfg MCTaskJobs
    tlc -workers 2 -config node_loops.cfg MCNodeTree
    tlc -workers 2 -config client_sync.cfg MCClientSync
    tlc -workers 2 -config checkpt_durable.cfg MCCheckPoint
    tlc -workers 2 -config queue.cfg MCQueue
    tlc -workers 2 -config time_slots.cfg MCTimeSlots
    tlapm LimitsProofs.tla

and likewise for the other configurations and proof modules. The module,
configuration and expected result of each run are in `PROJECT.json`; a
configuration of section 11 goes with the MC module its name begins like (`sync_`:
`MCClientSync`, `zombie_` and `force_`: `MCTaskJobs`).

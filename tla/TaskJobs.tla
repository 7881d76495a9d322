------------------------------ MODULE TaskJobs ------------------------------
(***************************************************************************)
(* One task of ecFlow, the job processes started for it, and the zombie    *)
(* list of the server: job submission (Submittable), the authentication of *)
(* child commands (TaskCmd::authenticate), ZombieCtrl, and the user        *)
(* commands requeue, force, run, kill and zombie_*.                        *)
(*                                                                         *)
(* Every submission gives the task a new job password, which the job       *)
(* process sends with every child command, together with its process or   *)
(* remote id (rid).  Passwords are numbered in the order in which they are *)
(* generated and a process is its own rid; 0 is the empty string.          *)
(*                                                                         *)
(* The task stays in the tree and its zombie list holds only its own       *)
(* entries: the code looks zombies up by path first.  Job processes and    *)
(* the replies that get lost on the network are external to the server.    *)
(***************************************************************************)
EXTENDS Integers, Sequences, SequencesExt

CONSTANTS
    EcfTries,       \* ECF_TRIES: how often an aborting job is submitted
    UserCmds,       \* the commands users give, a subset of Commands
    ForceStates,    \* the states users force
    ZombieActions,  \* the zombie_* commands users give, a subset of Actions
    AttrAction,     \* the action of the zombie attribute, "block" if none
    ExportsRid,     \* the job scripts export ECF_RID to all child commands
    Loops,          \* {FALSE}, or BOOLEAN if a repeat may re-queue the task
    MaxPasses,      \* bound on the number of submissions
    MaxProcs,       \* bound on the number of job processes
    MaxCmds         \* bound on the number of user commands

Commands == {"requeue", "requeue force", "requeue abort", "force",
             "force recursive", "run", "run force", "kill",
             "zombie cli", "zombie api"}
Actions == {"fob", "fail", "adopt", "remove", "block", "kill"}
States == {"UNKNOWN", "COMPLETE", "QUEUED", "ABORTED", "SUBMITTED", "ACTIVE"}
Running == {"SUBMITTED", "ACTIVE"}
\* SUBMIT_FAILED stands for EDIT_FAILED, NO_SCRIPT and JOBCMD_FAILED.
Flags == {"ZOMBIE", "KILLED", "FORCE_ABORT", "SUBMIT_FAILED"}

ASSUME JobsAssumption ==
    /\ EcfTries \in Nat
    /\ UserCmds \subseteq Commands
    /\ ForceStates \subseteq States
    /\ ZombieActions \subseteq Actions
    /\ AttrAction \in Actions
    /\ ExportsRid \in BOOLEAN
    /\ Loops \subseteq BOOLEAN /\ FALSE \in Loops
    /\ MaxPasses \in Nat /\ MaxProcs \in Nat /\ MaxCmds \in Nat

VARIABLES
    task,       \* [state, pass, rid, tryNo, flags]
    zombies,    \* ZombieCtrl: entries [pass, rid, action], "none" if not set
    procs,      \* procs[p]: the password of job process p, and what it does next
    signals,    \* the processes that ECF_KILL_CMD is about to signal
    passes,     \* passwords generated so far
    jobcmds,    \* ECF_JOB_CMD processes the server waits for
    generating, \* a command's handler still has to generate jobs
    cmds,       \* user commands given so far
    hist        \* history of the properties, which no action reads:
                \* own[w]: the processes whose commands were applied under
                \* password w; ends[w]: the ends applied under it; quiet: only
                \* replies were lost, no user, queuing system, job command or
                \* repeat interfered, and no zombie was adopted or killed;
                \* forced: the command, if the user's last act was an abort

vars == <<task, zombies, procs, signals, passes, jobcmds, generating, cmds, hist>>

Procs == 1..Len(procs)

-----------------------------------------------------------------------------
(***************************************************************************)
(* The zombie list.                                                        *)
(***************************************************************************)
Match(z, rid, pass) ==
    IF rid = 0 \/ z.rid = 0 THEN z.pass = pass ELSE z.rid = rid

FindMatch(zs, rid, pass) == SelectInSeq(zs, LAMBDA z : Match(z, rid, pass))

\* Mutant of FindZombie: no second look by path.
FindZombieExact(zs, rid, pass) == FindMatch(zs, rid, pass)

\* ZombieCtrl::find_zombie: the entry that matches, or else the first one of
\* the path.  Its position, 0 if the list is empty.
FindZombie(zs, rid, pass) ==
    IF FindMatch(zs, rid, pass) # 0 THEN FindMatch(zs, rid, pass)
    ELSE IF zs = <<>> THEN 0 ELSE 1

Without(zs, k) == IF k = 0 THEN zs ELSE RemoveAt(zs, k)

\* ZombieCtrl::remove of the task or child command with this rid and password.
RemoveMatch(zs, rid, pass) == Without(zs, FindMatch(zs, rid, pass))

\* remove, or if nothing matches remove_by_path.
RemoveFound(zs, rid, pass) == Without(zs, FindZombie(zs, rid, pass))

Entry(rid, pass) == [pass |-> pass, rid |-> rid, action |-> "none"]

ActionOf(z) == IF z.action = "none" THEN AttrAction ELSE z.action

\* Whether ZombieCtrl::add_user_zombies, called before a command takes a
\* running task away from its job, has to add an entry.
AddsUserZombie ==
    task.state \in Running /\ FindZombie(zombies, task.rid, task.pass) = 0

UserZombies ==
    IF AddsUserZombie THEN Append(zombies, Entry(task.rid, task.pass)) ELSE zombies

UserFlagged ==
    IF AddsUserZombie THEN [task EXCEPT !.flags = @ \cup {"ZOMBIE"}] ELSE task

-----------------------------------------------------------------------------
(***************************************************************************)
(* The task.                                                               *)
(***************************************************************************)
\* Mutant of Requeued: the password of the last job is kept.
RequeuedKeepingPass(tk) ==
    [tk EXCEPT !.state = "QUEUED", !.tryNo = 0, !.flags = {}]

\* Submittable::requeue: password, rid, try number and flags are cleared.
Requeued(tk) == [state |-> "QUEUED", pass |-> 0, rid |-> 0, tryNo |-> 0, flags |-> {}]

\* Mutant of SetStateOnly: an abort forced by the user is not remembered.
SetStateOnlyForgetful(tk, s, force) ==
    IF tk.state = s THEN tk
    ELSE [tk EXCEPT !.state = s,
                    !.flags = IF s # "ABORTED" THEN @ \ {"FORCE_ABORT"} ELSE @]

\* Node::setStateOnly; nothing happens if the state is the same.
SetStateOnly(tk, s, force) ==
    IF tk.state = s THEN tk
    ELSE [tk EXCEPT !.state = s,
                    !.flags = IF s # "ABORTED" THEN @ \ {"FORCE_ABORT"}
                              ELSE IF force THEN @ \cup {"FORCE_ABORT"} ELSE @]

\* Node::set_state does not hand its force argument on.
SetState(tk, s) == SetStateOnly(tk, s, FALSE)

\* handleStateChange of a task that just became complete: a repeat of the
\* task or of a node above may re-queue it.
AfterStateChange(tk, loop) ==
    IF tk.state = "COMPLETE" /\ loop THEN Requeued(tk) ELSE tk

\* Submittable::increment_try_no with the next password.
IncrementTryNo(tk) ==
    [tk EXCEPT !.tryNo = @ + 1, !.rid = 0, !.pass = passes + 1]

KillThrows(tk, rid) == rid = 0 /\ tk.state = "ACTIVE" /\ tk.rid = 0
Kills(tk, rid) == (rid # 0 \/ tk.state \in Running) /\ ~KillThrows(tk, rid)

\* Submittable::kill, given the rid of a zombie or 0.
KillFlags(tk, rid) ==
    [tk EXCEPT !.flags = IF Kills(tk, rid) THEN @ \cup {"KILLED"} ELSE @ \ {"KILLED"}]

\* Mutant of KillTarget: the rid of the task is not looked at.
KillTargetUnchecked(tk, rid) == {IF rid = 0 THEN tk.rid ELSE rid}

\* The process that ECF_KILL_CMD will signal: ECF_RID is the given rid, or
\* the task's own, which is empty until the job has called init.
KillTarget(tk, rid) ==
    IF ~Kills(tk, rid) THEN {} ELSE {IF rid = 0 THEN tk.rid ELSE rid} \ {0}

-----------------------------------------------------------------------------
(***************************************************************************)
(* Job generation and job commands.                                        *)
(***************************************************************************)
Spawn(pass) == Append(procs, [pass |-> pass, next |-> "INIT"])

Live(p) == procs[p].next # "DONE"

\* Submittable::increment_try_no and submit_job_only of a task that is not
\* running: the job is spawned, or its creation fails and the task aborts.
SubmitJob ==
    /\ passes < MaxPasses /\ Len(procs) < MaxProcs
    /\ passes' = passes + 1
    /\ LET tk == [IncrementTryNo(task) EXCEPT !.flags = @ \ {"SUBMIT_FAILED", "KILLED"}]
       IN  \/ /\ task' = SetState(tk, "SUBMITTED")
              /\ procs' = Spawn(passes + 1)
              /\ jobcmds' = jobcmds + 1
           \/ /\ task' = SetState([tk EXCEPT !.flags = @ \cup {"SUBMIT_FAILED"}], "ABORTED")
              /\ UNCHANGED <<procs, jobcmds>>

\* Task::resolveDependencies, without triggers, times and limits.
Eligible ==
    \/ task.state = "QUEUED"
    \/ /\ task.state = "ABORTED"
       /\ task.flags \cap {"FORCE_ABORT", "KILLED", "SUBMIT_FAILED"} = {}
       /\ task.tryNo < EcfTries

\* The traversal reaches an eligible task: at any time, as the traversal is
\* periodic, and at the end of the commands that generate jobs themselves.
GenerateJob ==
    /\ Eligible
    /\ SubmitJob
    /\ generating' = FALSE
    /\ hist' = [hist EXCEPT !.forced = "no"]
    /\ UNCHANGED <<zombies, signals, cmds>>

\* The task is not eligible, or a dependency holds it.
GenerateNothing ==
    /\ generating
    /\ generating' = FALSE
    /\ UNCHANGED <<task, zombies, procs, signals, passes, jobcmds, cmds, hist>>

JobCmdSucceeds ==
    /\ ~generating /\ jobcmds > 0
    /\ jobcmds' = jobcmds - 1
    /\ UNCHANGED <<task, zombies, procs, signals, passes, generating, cmds, hist>>

\* System::died for an ECF_JOB_CMD, which knows the path of the task only.
JobCmdFails ==
    /\ ~generating /\ jobcmds > 0
    /\ jobcmds' = jobcmds - 1
    /\ LET tk == [task EXCEPT !.flags = @ \cup {"SUBMIT_FAILED"}]
       IN  task' = IF task.state \in {"COMPLETE", "ACTIVE"}
                   THEN [tk EXCEPT !.flags = @ \cup {"ZOMBIE"}]
                   ELSE SetState(tk, "ABORTED")
    /\ hist' = [hist EXCEPT !.quiet = FALSE]
    /\ UNCHANGED <<zombies, procs, signals, passes, generating, cmds>>

-----------------------------------------------------------------------------
(***************************************************************************)
(* Child commands.                                                         *)
(***************************************************************************)
\* Mutant of PidMiss: only the password is compared.
PidMissIgnored(rid) == FALSE

PidMiss(rid) == task.rid # 0 /\ rid # 0 /\ task.rid # rid

Recognised(pass, rid) == task.pass = pass /\ ~PidMiss(rid)

\* Mutant of Verdict: an init that is sent again is a zombie.
VerdictUnforgiving(c, pass, rid) ==
    IF \/ task.state = "COMPLETE" /\ c = "COMPLETE"
       \/ task.state = "ABORTED" /\ c = "ABORT" /\ Recognised(pass, rid)
    THEN "again"
    ELSE IF /\ task.state \notin {"COMPLETE", "ABORTED"}
            /\ ~(task.state = "ACTIVE" /\ c = "INIT")
            /\ Recognised(pass, rid)
    THEN "accept" ELSE "zombie"

\* TaskCmd::authenticate: a command that repeats what already happened is
\* answered but not applied, the rest is accepted or comes from a zombie.
Verdict(c, pass, rid) ==
    IF \/ task.state = "ACTIVE" /\ c = "INIT" /\ Recognised(pass, rid)
       \/ task.state = "COMPLETE" /\ c = "COMPLETE"
       \/ task.state = "ABORTED" /\ c = "ABORT" /\ Recognised(pass, rid)
    THEN "again"
    ELSE IF /\ task.state \notin {"COMPLETE", "ABORTED"}
            /\ ~(task.state = "ACTIVE" /\ c = "INIT")
            /\ Recognised(pass, rid)
    THEN "accept" ELSE "zombie"

\* A repeated complete or abort also takes the zombie off the list.
AnswerAgain(c) ==
    /\ task' = IF c = "COMPLETE" THEN [task EXCEPT !.flags = @ \ {"ZOMBIE"}] ELSE task
    /\ zombies' = CASE c = "COMPLETE" -> Without(zombies, IF zombies = <<>> THEN 0 ELSE 1)
                    [] c = "ABORT"    -> RemoveMatch(zombies, task.rid, task.pass)
                    [] OTHER          -> zombies
    /\ UNCHANGED hist

\* Submittable::init, complete and aborted: what an accepted command makes of
\* the task.  A label leaves its state alone.
Applied(p, c, tk, loop) ==
    CASE c = "INIT"     -> [SetState(tk, "ACTIVE") EXCEPT !.rid = p]
      [] c = "COMPLETE" -> [AfterStateChange(SetState(tk, "COMPLETE"), loop) EXCEPT
                               !.flags = @ \ {"ZOMBIE"}, !.pass = 0, !.rid = 0]
      [] c = "ABORT"    -> SetState(tk, "ABORTED")
      [] OTHER          -> tk

\* doHandleRequest of the child commands, on the task tk: complete and abort
\* take the zombie of the task off the list first.
Apply(p, c, tk, zs, h) ==
    /\ zombies' = IF c \in {"COMPLETE", "ABORT"} THEN RemoveMatch(zs, tk.rid, tk.pass) ELSE zs
    /\ \E loop \in Loops :
          /\ task' = Applied(p, c, tk, loop)
          /\ hist' = [h EXCEPT
                !.own = [h.own EXCEPT ![procs[p].pass] = @ \cup {p}],
                !.ends = IF c \in {"COMPLETE", "ABORT"}
                         THEN [h.ends EXCEPT ![procs[p].pass] = @ + 1] ELSE h.ends,
                !.quiet = @ /\ ~(c = "COMPLETE" /\ loop)]

-----------------------------------------------------------------------------
\* ZombieCtrl::handle_user_actions: entry z of the list zs decides what
\* happens to child command c.
UserAction(p, c, rid, z, zs, reply) ==
    LET pass  == procs[p].pass
        tk    == [task EXCEPT !.flags = @ \cup {"ZOMBIE"}]
        act   == ActionOf(z)
        ended == c \in {"COMPLETE", "ABORT"}
    IN  \/ /\ act = "adopt"
           /\ reply = "ok"
           /\ Apply(p, c,
                    [task EXCEPT !.pass = pass, !.rid = rid, !.flags = @ \ {"ZOMBIE"}],
                    RemoveFound(zs, rid, pass),
                    [hist EXCEPT !.own[pass] = {}, !.ends[pass] = 0, !.forced = "no",
                                 !.quiet = FALSE])
           /\ UNCHANGED signals
        \/ /\ act = "fob"
           /\ reply = "ok"
           /\ task' = IF ended THEN [task EXCEPT !.flags = @ \ {"ZOMBIE"}] ELSE tk
           /\ zombies' = IF ended THEN RemoveFound(zs, rid, pass) ELSE zs
           /\ UNCHANGED <<signals, hist>>
        \/ /\ act = "kill"
           /\ LET kill == "KILLED" \notin task.flags
              IN  /\ reply = IF kill /\ KillThrows(tk, z.rid) THEN "error" ELSE "ok"
                  /\ task' = IF kill THEN KillFlags(tk, z.rid) ELSE tk
                  /\ signals' = IF kill THEN signals \cup KillTarget(tk, z.rid) ELSE signals
           /\ zombies' = zs
           /\ hist' = [hist EXCEPT !.quiet = FALSE]
        \/ /\ act \in {"fail", "remove", "block"}
           /\ reply = CASE act = "fail"  -> "error"
                        [] act = "block" /\ c = "LABEL" -> "ok"
                        [] OTHER         -> "block"
           /\ task' = tk
           /\ zombies' = IF act = "remove" THEN RemoveFound(zs, rid, pass) ELSE zs
           /\ UNCHANGED <<signals, hist>>

\* ZombieCtrl::handle_zombie: the entry is found or created, and then decides.
HandleZombie(p, c, rid, reply) ==
    LET k == FindZombie(zombies, rid, procs[p].pass)
        z == IF k = 0 THEN Entry(rid, procs[p].pass)
             ELSE [zombies[k] EXCEPT !.rid = IF @ = 0 THEN rid ELSE @]
    IN  UserAction(p, c, rid, z,
                   IF k = 0 THEN Append(zombies, z) ELSE [zombies EXCEPT ![k] = z], reply)

\* What the script of process p sends next; label stands for label, event and
\* meter (wait and queue are left out).
Sends(p) ==
    CASE procs[p].next = "WORK" -> {"LABEL", "COMPLETE", "ABORT"}
      [] procs[p].next = "DONE" -> {}
      [] OTHER                  -> {procs[p].next}

\* The script goes on after "ok"; ClientInvoker sends the command again when
\* it is told to block and when no reply comes; an error ends in the trap of
\* the script, which sends abort.
NextOf(c, reply) ==
    CASE reply = "ok" /\ c \in {"INIT", "LABEL"} -> "WORK"
      [] reply = "ok"                            -> "DONE"
      [] reply = "error"                         -> IF c = "ABORT" THEN "DONE" ELSE "ABORT"
      [] OTHER                                   -> IF c = "LABEL" THEN "WORK" ELSE c

\* The rid that comes with command c: only the command of init names it by
\* itself, the others take it from ECF_RID.
RidOf(p, c) == IF c = "INIT" \/ ExportsRid THEN p ELSE 0

ChildCmd(p, c, reply) ==
    /\ ~generating
    /\ c \in Sends(p)
    /\ LET rid == RidOf(p, c)
           verdict == Verdict(c, procs[p].pass, rid)
       IN  \/ /\ verdict = "again" /\ reply = "ok"
              /\ AnswerAgain(c)
              /\ UNCHANGED signals
           \/ /\ verdict = "accept" /\ reply = "ok"
              /\ Apply(p, c, task, zombies, hist)
              /\ UNCHANGED signals
           \/ /\ verdict = "zombie"
              /\ HandleZombie(p, c, rid, reply)
    /\ \E received \in {reply, "lost"} :
          procs' = [procs EXCEPT ![p].next = NextOf(c, received)]
    /\ UNCHANGED <<passes, jobcmds, generating, cmds>>

-----------------------------------------------------------------------------
(***************************************************************************)
(* What job processes do on their own.                                     *)
(***************************************************************************)
\* The job dies, or ClientInvoker gives up (ECF_TIMEOUT, end of file) and the
\* trap of the script sends abort.
GiveUp(p) ==
    /\ ~generating
    /\ Live(p)
    /\ \E next \in {"ABORT", "DONE"} :
          /\ next # procs[p].next
          /\ procs' = [procs EXCEPT ![p].next = next]
    /\ hist' = [hist EXCEPT !.quiet = FALSE]
    /\ UNCHANGED <<task, zombies, signals, passes, jobcmds, generating, cmds>>

\* The signal of ECF_KILL_CMD arrives; the script traps it and sends abort.
Signalled(p) ==
    /\ ~generating
    /\ p \in signals
    /\ signals' = signals \ {p}
    /\ procs' = [procs EXCEPT ![p].next = IF @ = "DONE" THEN @ ELSE "ABORT"]
    /\ UNCHANGED <<task, zombies, passes, jobcmds, generating, cmds, hist>>

\* The queuing system starts a second process for the job of p: "PBS can
\* create two process, i.e same password, different PID's" (adoptCli).
Duplicate(p) ==
    /\ ~generating
    /\ Live(p)
    /\ Len(procs) < MaxProcs
    /\ procs' = Spawn(procs[p].pass)
    /\ hist' = [hist EXCEPT !.quiet = FALSE]
    /\ UNCHANGED <<task, zombies, signals, passes, jobcmds, generating, cmds>>

\* ZombieCtrl::remove_stale_zombies, when an entry is older than allowed.
RemoveStaleZombie ==
    /\ ~generating
    /\ \E k \in 1..Len(zombies) : zombies' = RemoveAt(zombies, k)
    /\ UNCHANGED <<task, procs, signals, passes, jobcmds, generating, cmds, hist>>

-----------------------------------------------------------------------------
(***************************************************************************)
(* User commands.                                                          *)
(***************************************************************************)
User(command) ==
    /\ command \in UserCmds
    /\ ~generating
    /\ cmds < MaxCmds
    /\ cmds' = cmds + 1

Disturbed == [hist EXCEPT !.quiet = FALSE, !.forced = "no"]

\* RequeueNodeCmd: without option only a task that is not running, with abort
\* only an aborted one; with force its job becomes a zombie.
Requeue ==
    /\ \/ User("requeue") /\ task.state \notin Running /\ UNCHANGED zombies
       \/ User("requeue abort") /\ task.state = "ABORTED" /\ UNCHANGED zombies
       \/ User("requeue force") /\ zombies' = UserZombies
    /\ task' = Requeued(task)
    /\ generating' = TRUE
    /\ hist' = Disturbed
    /\ UNCHANGED <<procs, signals, passes, jobcmds>>

\* ForceCmd on the task, or recursive on a container above it.  The password
\* of the task is kept.
ForceCmd(s) ==
    /\ \E command \in {"force", "force recursive"}, loop \in Loops :
          LET quits == s \notin Running
              tk    == IF quits THEN UserFlagged ELSE task
          IN  /\ User(command)
              /\ zombies' = IF quits THEN UserZombies ELSE zombies
              /\ task' = IF command = "force recursive"
                         THEN AfterStateChange(SetStateOnly(tk, s, TRUE), loop)
                         ELSE IF task.state = s THEN tk
                         ELSE AfterStateChange(SetState(tk, s), loop)
              /\ hist' = [Disturbed EXCEPT !.forced = IF s = "ABORTED" /\ task.state # s
                                                     THEN command ELSE "no"]
    /\ generating' = TRUE
    /\ UNCHANGED <<procs, signals, passes, jobcmds>>

\* RunNodeCmd on a task that is not running: ignores the dependencies.
Run ==
    /\ User("run") \/ User("run force")
    /\ task.state \notin Running
    /\ SubmitJob
    /\ hist' = Disturbed
    /\ UNCHANGED <<zombies, signals, generating>>

\* RunNodeCmd with force on a running task: submit_job_only refuses after the
\* try number, rid and password have changed.
RunForce ==
    /\ User("run force")
    /\ task.state \in Running
    /\ passes < MaxPasses
    /\ passes' = passes + 1
    /\ zombies' = UserZombies
    /\ task' = [IncrementTryNo(UserFlagged) EXCEPT !.flags = @ \cup {"SUBMIT_FAILED"}]
    /\ hist' = Disturbed
    /\ UNCHANGED <<procs, signals, jobcmds, generating>>

\* PathsCmd kill.
Kill ==
    /\ User("kill")
    /\ task' = KillFlags(task, 0)
    /\ signals' = signals \cup KillTarget(task, 0)
    /\ hist' = Disturbed
    /\ UNCHANGED <<zombies, procs, passes, jobcmds, generating>>

\* The entry the command line means, given only the path: the first whose
\* password is not the task's, else whose rid is not, else the first.
OtherPass == SelectInSeq(zombies, LAMBDA z : z.pass # task.pass)
OtherRid == SelectInSeq(zombies, LAMBDA z : z.rid # task.rid)

Target ==
    IF OtherPass # 0 THEN OtherPass
    ELSE IF OtherRid # 0 THEN OtherRid
    ELSE IF zombies = <<>> THEN 0 ELSE 1

SetAction(k, a) == zombies' = [zombies EXCEPT ![k].action = a]

\* fobCli, failCli, adoptCli, blockCli and removeCli of ZombieCtrl.
ZombieCli(a) ==
    /\ User("zombie cli")
    /\ CASE a \in {"fob", "fail"} -> Target # 0 /\ SetAction(Target, a)
         [] a = "block"           -> OtherPass # 0 /\ SetAction(OtherPass, a)
         [] a = "adopt"           -> OtherRid = 0 /\ OtherPass # 0 /\ SetAction(OtherPass, a)
         [] a = "remove"          -> Target # 0 /\ zombies' = Without(zombies, Target)
         [] OTHER                 -> FALSE
    /\ UNCHANGED <<task, signals>>

\* killCli: the kill is immediate; an entry found by path only is removed.
ZombieKillCli ==
    /\ User("zombie cli")
    /\ Target # 0
    /\ LET z == zombies[Target]
       IN  /\ task' = KillFlags(task, z.rid)
           /\ signals' = signals \cup KillTarget(task, z.rid)
           /\ IF KillThrows(task, z.rid) THEN UNCHANGED zombies
              ELSE IF OtherPass = 0 /\ OtherRid = 0 THEN zombies' = Without(zombies, Target)
              ELSE SetAction(Target, "kill")

\* ZombieCmd given the rid and password of entry k, by the GUI or the API.
ZombieApi(a) ==
    /\ User("zombie api")
    /\ \E k \in 1..Len(zombies) :
          IF a = "remove"
          THEN zombies' = RemoveMatch(zombies, zombies[k].rid, zombies[k].pass)
          ELSE SetAction(FindZombie(zombies, zombies[k].rid, zombies[k].pass), a)
    /\ UNCHANGED <<task, signals>>

ZombieCmd ==
    /\ \/ \E a \in ZombieActions : ZombieCli(a) \/ ZombieApi(a)
       \/ "kill" \in ZombieActions /\ ZombieKillCli
    /\ hist' = Disturbed
    /\ UNCHANGED <<procs, passes, jobcmds, generating>>

-----------------------------------------------------------------------------
\* The suite has begun: the task is queued and has no job.
Init ==
    /\ task = [state |-> "QUEUED", pass |-> 0, rid |-> 0, tryNo |-> 0, flags |-> {}]
    /\ zombies = <<>>
    /\ procs = <<>>
    /\ signals = {}
    /\ passes = 0
    /\ jobcmds = 0
    /\ generating = FALSE
    /\ cmds = 0
    /\ hist = [own |-> [w \in 1..MaxPasses |-> {}], ends |-> [w \in 1..MaxPasses |-> 0],
               quiet |-> TRUE, forced |-> "no"]

Next ==
    \/ GenerateJob \/ GenerateNothing \/ JobCmdSucceeds \/ JobCmdFails
    \/ \E p \in Procs, c \in {"INIT", "LABEL", "COMPLETE", "ABORT"},
          reply \in {"ok", "block", "error"} : ChildCmd(p, c, reply)
    \/ \E p \in Procs : GiveUp(p) \/ Signalled(p) \/ Duplicate(p)
    \/ RemoveStaleZombie
    \/ Requeue \/ Run \/ RunForce \/ Kill \/ ZombieCmd
    \/ \E s \in ForceStates : ForceCmd(s)

Spec == Init /\ [][Next]_vars

-----------------------------------------------------------------------------
(***************************************************************************)
(* Properties.                                                             *)
(***************************************************************************)
ProcStates == {"INIT", "WORK", "COMPLETE", "ABORT", "DONE"}

\* Every variable has its type; the task and the zombies name only passwords
\* that were generated and processes that were started, and a signal goes
\* only to such a process, never to an empty rid (Submittable::kill).
TypeOK ==
    /\ task \in [state: States, pass: 0..passes, rid: 0..Len(procs), tryNo: Nat,
                 flags: SUBSET Flags]
    /\ zombies \in Seq([pass: 0..passes, rid: 0..Len(procs), action: Actions \cup {"none"}])
    /\ procs \in Seq([pass: 1..passes, next: ProcStates])
    /\ signals \subseteq Procs
    /\ passes \in Nat /\ jobcmds \in Nat /\ cmds \in Nat
    /\ generating \in BOOLEAN
    /\ hist \in [own: [1..MaxPasses -> SUBSET Procs], ends: [1..MaxPasses -> Nat],
                 quiet: BOOLEAN, forced: {"no", "force", "force recursive"}]

\* The server keeps at most one zombie entry for a task, however many jobs of
\* it are zombies: whatever the user sets for one of them applies to all.
\* (ZombieCtrl::find_zombie falls back on the path alone.)
AtMostOneZombie == Len(zombies) <= 1

\* Command c of process p would now be taken for the command of a zombie.
Refused(p, c) == Verdict(c, procs[p].pass, RidOf(p, c)) = "zombie"

\* However many replies are lost, the commands that are sent again make no
\* zombie of a job that still has to end.  As long as only replies are lost
\* (the server may submit an aborted task again, ECF_TRIES), the only command
\* of a job that is ever refused is an abort that has been applied already and
\* is sent again after the next submission; a task submitted once has no
\* zombie.  (The "overloaded" cases of TaskCmd::authenticate; the password of
\* the next submission takes the abort out of them.)
ResendsForgiven ==
    hist.quiet =>
        /\ \A p \in Procs : \A c \in Sends(p) :
              Refused(p, c) => /\ c = "ABORT"
                               /\ hist.ends[procs[p].pass] # 0
                               /\ procs[p].pass < passes
        /\ passes <= 1 => zombies = <<>> /\ "ZOMBIE" \notin task.flags

\* All the child commands applied under one job password come from a single
\* process, also when two processes run with the same password, unless the
\* user has one of them adopted or forces a state that reopens the submission.
\* (The rid comparison of TaskCmd::authenticate.)
OneProcessPerPassword ==
    \A w \in 1..MaxPasses : \A p, q \in hist.own[w] : p = q

\* A submission ends at most once: a complete or abort that is sent again,
\* however late, is never applied a second time, unless the user has the job
\* adopted or forces a state that reopens the submission.
EndsOnce == \A w \in 1..MaxPasses : hist.ends[w] <= 1

\* A task that the user aborted with a container above it is not submitted again
\* by the server: "If we have been forcibly aborted by the user. Do not resubmit
\* jobs, until *begin* or *re-queue*" (Task::resolveDependencies).
ForcedAbortHolds ==
    [][hist.forced = "force recursive" /\ cmds' = cmds => passes' = passes]_vars

\* The same of a task that the user aborted by its own path.
ForcedTaskAbortHolds == [][hist.forced = "force" /\ cmds' = cmds => passes' = passes]_vars

\* A process is adopted only if the task has no other process: adoption "is
\* only allowed if the process id matches, otherwise an error is issued"
\* (help of zombie_adopt).  Submission clears the rid, so that a password and
\* a rid which come together are those of an adopted job.
AdoptsOnlySameProcess ==
    [][task'.pass # task.pass /\ task'.rid # 0 => task.rid \in {0, task'.rid}]_vars

\* A zombie_kill signals no process but the zombie's: it is done "using the
\* process_id from the zombie" (help of zombie_kill).
ZombieKillSparesTask ==
    [][\A p \in signals' \ signals : \E k \in 1..Len(zombies) : zombies[k].rid = p]_vars
=============================================================================

----------------------------- MODULE CheckPoint -----------------------------
(***************************************************************************)
(* Check-pointing and recovery: the server's states and check point modes, *)
(* the timer of CheckPtSaver, the two check point files, and a server that *)
(* dies or cannot write at any step of a save.                             *)
(*                                                                         *)
(* A definition is a version number, Nothing when it has no suites and     *)
(* Part when a file was read up to where it breaks off.                    *)
(***************************************************************************)
EXTENDS Integers

CONSTANTS
    StartModes,  \* check modes the server can be started with (ECF_CHECKMODE)
    SetModes,    \* modes the users set with check_pt
    Leftovers,   \* what a write that is cut short may leave: "empty", "cut"
    MaxVersion,  \* bound: changes of the definition
    MaxFaults    \* bound: deaths of the server and failed saves

ASSUME CheckPointAssumption ==
    /\ StartModes \subseteq {"never", "on_time", "always"}
    /\ SetModes \subseteq {"never", "on_time", "always"}
    /\ Leftovers \subseteq {"empty", "cut"}
    /\ MaxVersion \in Nat /\ MaxFaults \in Nat

VARIABLES
    srv,     \* process: up, server state, check mode, CheckPtSaver::running_,
             \* timer started, and whether a check point file was loaded
    mem,     \* the definition, and whether the change numbers moved since the
             \* last save (state_change_no_, modify_change_no_)
    save,    \* the save under way: next step and reason
    check,   \* the check point file
    backup,  \* the backup check point file
    version, \* last version made
    last,    \* last version completely saved, Failed before the first
    faults   \* faults so far

vars == <<srv, mem, save, check, backup, version, last, faults>>

Nothing == 0
Part == -1
Failed == -2  \* no definition: a file that cannot be loaded
Absent == [kind |-> "absent", v |-> Nothing]
Full(v) == [kind |-> "full", v |-> v]
Broken(k) == [kind |-> k, v |-> IF k = "cut" THEN Part ELSE Nothing]
Idle == [pc |-> "idle", why |-> "none"]
Off == [v |-> Nothing, dirty |-> FALSE]

Ready == srv.up /\ save = Idle

-----------------------------------------------------------------------------
(* CheckPtSaver *)

\* The first step of explicitSave, given the check point file f: an empty file
\* is not made the backup.
SaveStart(why, f) ==
    [pc |-> IF f.kind \in {"absent", "empty"} THEN "write" ELSE "remove", why |-> why]

\* Variants: the guard of the timer covers running_ too; stop does nothing.
StartedOnce(s) ==
    IF s.mode = "on_time" /\ ~s.armed THEN [s EXCEPT !.running = TRUE, !.armed = TRUE] ELSE s
StoppedNot(s) == s

\* start: only in mode on_time; the timer is started once.
Started(s) == IF s.mode = "on_time" THEN [s EXCEPT !.running = TRUE, !.armed = TRUE] ELSE s
Stopped(s) == [s EXCEPT !.running = FALSE]

\* The end of a request that may have changed the definition
\* (nodeTreeStateChanged, saveIfAllowed): the server is s, the definition m.
Answer(s, m) ==
    /\ srv' = s /\ mem' = m
    /\ save' = IF s.mode = "always" THEN SaveStart("always", check) ELSE Idle

Dirty(v) == [v |-> v, dirty |-> TRUE]

\* periodicSaveCheckPt and doSave; the timer is started again at its end.
TimerFires ==
    /\ Ready /\ srv.armed
    /\ srv.running /\ mem.dirty /\ srv.mode # "never"
    /\ save' = SaveStart("timer", check)
    /\ UNCHANGED <<srv, mem, check, backup, version, last, faults>>

\* The end of a save: the reply to terminate is followed by nodeTreeStateChanged
\* and then by the end of the process.  f: the check point file.
EndSave(m, f) ==
    \/ /\ save.why = "terminate" /\ srv.mode = "always"
       /\ save' = SaveStart("exit", f) /\ mem' = m /\ srv' = srv
    \/ /\ save.why \in {"terminate", "exit"} /\ ~(save.why = "terminate" /\ srv.mode = "always")
       /\ save' = Idle /\ mem' = Off /\ srv' = [srv EXCEPT !.up = FALSE]
    \/ /\ save.why \notin {"terminate", "exit"}
       /\ save' = Idle /\ mem' = m /\ srv' = srv

\* explicitSave, step by step: remove the backup, rename, write.
Remove ==
    /\ srv.up /\ save.pc = "remove"
    /\ backup' = Absent
    /\ save' = [save EXCEPT !.pc = "rename"]
    /\ UNCHANGED <<srv, mem, check, version, last, faults>>

\* Variant: the check point file is removed instead.
RenameNot ==
    /\ srv.up /\ save.pc = "rename"
    /\ check' = Absent
    /\ save' = [save EXCEPT !.pc = "write"]
    /\ UNCHANGED <<srv, mem, backup, version, last, faults>>

Rename ==
    /\ srv.up /\ save.pc = "rename"
    /\ backup' = check /\ check' = Absent
    /\ save' = [save EXCEPT !.pc = "write"]
    /\ UNCHANGED <<srv, mem, version, last, faults>>

\* late: the save took longer than the alarm time and the server's LATE flag,
\* not set so far, is a change after the numbers were recorded.
Write(late) ==
    /\ srv.up /\ save.pc = "write"
    /\ check' = Full(mem.v) /\ last' = mem.v
    /\ EndSave([mem EXCEPT !.dirty = late], Full(mem.v))
    /\ UNCHANGED <<backup, version, faults>>

\* What the check point file is after a write that was cut short.
Torn == {check} \cup {Broken(k) : k \in Leftovers}

\* Variant: the numbers are recorded although nothing was written.
SaveFailsUnnoticed(f) ==
    /\ srv.up /\ save # Idle /\ faults < MaxFaults
    /\ check' = f
    /\ EndSave([mem EXCEPT !.dirty = FALSE], f)
    /\ faults' = faults + 1
    /\ UNCHANGED <<backup, version, last>>

\* An exception at any step: the flag CHECKPT_ERROR and the variable of that
\* name are set.
SaveFails(f) ==
    /\ srv.up /\ save # Idle /\ faults < MaxFaults
    /\ check' = f
    /\ EndSave([mem EXCEPT !.dirty = TRUE], f)
    /\ faults' = faults + 1
    /\ UNCHANGED <<backup, version, last>>

-----------------------------------------------------------------------------
(* Start of the server *)

\* What reading a file can yield, Failed being an exception of Defs::restore.
\* A file of no lines is read without error; so is one cut at the end of a line.
Read(f) ==
    CASE f.kind = "full"   -> {f.v}
      [] f.kind = "empty"  -> {Nothing}
      [] f.kind = "cut"    -> {Part, Failed}
      [] f.kind = "absent" -> {Failed}

\* Variants: the backup is read first; it is not read at all.
LoadsOldest == (Read(backup) \cup IF Failed \in Read(backup) THEN Read(check) ELSE {}) \ {Failed}
LoadFailsAtFirst == Failed \in Read(check)

\* restore_from_checkpt for the check point file, then for its backup.
Loads == (Read(check) \cup IF Failed \in Read(check) THEN Read(backup) ELSE {}) \ {Failed}

\* Neither is loaded: the definition is what the last attempt left of it.
LoadFails == Failed \in Read(check) /\ Failed \in Read(backup)
Remains == IF "cut" \in {check.kind, backup.kind} THEN Part ELSE Nothing

\* BaseServer::BaseServer: halted, and the change numbers moved by the load.
\* load_check_pt_file_on_startup throws only if a flag that is never set is set.
Start(mode, ok, v) ==
    /\ ~srv.up
    /\ IF ok THEN v \in Loads ELSE LoadFails /\ v = Remains
    /\ srv' = [up |-> TRUE, state |-> "HALTED", mode |-> mode, running |-> FALSE,
               armed |-> FALSE, loaded |-> ok]
    /\ mem' = Dirty(v)
    /\ UNCHANGED <<save, check, backup, version, last, faults>>

\* The process dies, possibly in the middle of a save.
Die(f) ==
    /\ srv.up /\ faults < MaxFaults
    /\ f \in IF save.pc = "write" THEN Torn ELSE {check}
    /\ check' = f
    /\ save' = Idle /\ mem' = Off /\ srv' = [srv EXCEPT !.up = FALSE]
    /\ faults' = faults + 1
    /\ UNCHANGED <<backup, version, last>>

-----------------------------------------------------------------------------
(* Requests, signals and job generation *)

\* A child or user command changes the definition.
Change ==
    /\ Ready /\ version < MaxVersion
    /\ version' = version + 1
    /\ Answer(srv, Dirty(version + 1))
    /\ UNCHANGED <<check, backup, last, faults>>

\* delete _all_
DeleteAll ==
    /\ Ready /\ mem.v # Nothing
    /\ Answer(srv, Dirty(Nothing))
    /\ UNCHANGED <<check, backup, version, last, faults>>

\* Job generation and dying children change the definition outside a request.
Traverse ==
    /\ Ready /\ srv.state = "RUNNING" /\ version < MaxVersion
    /\ version' = version + 1
    /\ mem' = Dirty(version + 1)
    /\ UNCHANGED <<srv, save, check, backup, last, faults>>

\* A change of the server state counts as a change of the definition.
InState(s, state) == [s EXCEPT !.state = state]

Halt ==
    /\ Ready
    /\ Answer(InState(Stopped(srv), "HALTED"), Dirty(mem.v))
    /\ UNCHANGED <<check, backup, version, last, faults>>

Shutdown ==
    /\ Ready
    /\ Answer(InState(Started(srv), "SHUTDOWN"), Dirty(mem.v))
    /\ UNCHANGED <<check, backup, version, last, faults>>

\* A request may leave the definition as it is or make a new version of it.
Edited == {mem.v} \cup {v \in {version + 1} : v <= MaxVersion}
Newest(v) == version' = IF v > version THEN v ELSE version

\* The jobs are generated before the reply.
Restart(v) ==
    /\ Ready /\ v \in Edited
    /\ Answer(InState(Started(srv), "RUNNING"), Dirty(v))
    /\ Newest(v)
    /\ UNCHANGED <<check, backup, last, faults>>

\* plug and move: lock shuts the server down, unlock takes it back to the state
\* it was in, in the same request.  ok: nodes were moved.
Plug(v, ok) ==
    LET s == IF srv.state = "HALTED" THEN Stopped(Started(srv)) ELSE Started(srv) IN
    /\ Ready /\ v \in Edited
    /\ IF ok THEN Answer(s, Dirty(v))
       ELSE v = mem.v /\ srv' = s /\ mem' = Dirty(v) /\ save' = Idle
    /\ Newest(v)
    /\ UNCHANGED <<check, backup, last, faults>>

\* check_pt with a mode; nothing is started or stopped.
SetMode(m) ==
    /\ Ready /\ m \in SetModes
    /\ Answer([srv EXCEPT !.mode = m], mem)
    /\ UNCHANGED <<check, backup, version, last, faults>>

\* check_pt, SIGTERM (the flag ECF_SIGTERM is a change) and terminate save in
\* every mode and state.
SaveNow(why) ==
    /\ Ready
    /\ save' = SaveStart(why, check)
    /\ mem' = IF why = "sigterm" THEN Dirty(mem.v) ELSE mem
    /\ UNCHANGED <<srv, check, backup, version, last, faults>>

\* restore_from_checkpt: the server halted and without suites.
Restore(ok, v) ==
    /\ Ready /\ srv.state = "HALTED" /\ mem.v = Nothing
    /\ IF ok THEN v \in Loads ELSE LoadFails /\ v = Remains
    /\ Answer(srv, Dirty(v))
    /\ UNCHANGED <<check, backup, version, last, faults>>

-----------------------------------------------------------------------------
Init ==
    /\ srv = [up |-> FALSE, state |-> "HALTED", mode |-> "on_time", running |-> FALSE,
              armed |-> FALSE, loaded |-> FALSE]
    /\ mem = Off /\ save = Idle
    /\ check = Absent /\ backup = Absent
    /\ version = 0 /\ last = Failed /\ faults = 0

SaveStep == Remove \/ Rename \/ \E late \in BOOLEAN : Write(late)

Fault ==
    \/ \E f \in Torn : SaveFails(IF save.pc = "write" THEN f ELSE check)
    \/ \E f \in Torn : Die(f)

Request ==
    \/ Change \/ DeleteAll \/ Traverse \/ Halt \/ Shutdown
    \/ \E v \in Edited : Restart(v) \/ \E ok \in BOOLEAN : Plug(v, ok)
    \/ \E m \in SetModes : SetMode(m)
    \/ \E why \in {"check_pt", "sigterm", "terminate"} : SaveNow(why)
    \/ \E ok \in BOOLEAN, v \in Part .. MaxVersion : Restore(ok, v)

Next ==
    \/ \E mode \in StartModes, ok \in BOOLEAN, v \in Part .. MaxVersion : Start(mode, ok, v)
    \/ TimerFires \/ SaveStep \/ Fault \/ Request

Spec == Init /\ [][Next]_vars

\* The timer is started again each time, and a save runs to its end: one thread,
\* no waiting.
FairSpec == Spec /\ WF_vars(TimerFires) /\ WF_vars(SaveStep)
-----------------------------------------------------------------------------
(* Properties *)

Servers == [up : BOOLEAN, state : {"RUNNING", "SHUTDOWN", "HALTED"},
            mode : StartModes \cup SetModes \cup {"on_time"},
            running : BOOLEAN, armed : BOOLEAN, loaded : BOOLEAN]
Memories == [v : Part .. MaxVersion, dirty : BOOLEAN]
Saves == {Idle} \cup [pc : {"remove", "rename", "write"},
                     why : {"always", "timer", "check_pt", "sigterm", "terminate", "exit"}]
Files == {Absent, Broken("empty"), Broken("cut")} \cup {Full(v) : v \in Part .. MaxVersion}

\* The types of the variables; nothing is being saved while the server is down.
TypeOK ==
    /\ srv \in Servers /\ mem \in Memories /\ save \in Saves
    /\ save = Idle \/ srv.up
    /\ check \in Files /\ backup \in Files
    /\ version \in 0 .. MaxVersion /\ last \in Failed .. MaxVersion
    /\ faults \in 0 .. MaxFaults

\* "You should always have a file that is good": once a save has completed, one
\* of the two files is the result of the last completed save, at every step of
\* explicitSave and after every fault.
GoodFile ==
    last # Failed => \E f \in {check, backup} : f = Full(last)

\* The timer of a halted server saves nothing, whatever mode users set and
\* however often the server was halted, shut down and restarted (table in
\* BaseServer::halted).
HaltedIsQuiet == save.why = "timer" => srv.state # "HALTED"

\* Nor does a halted server save at the end of a request.
HaltedNeverSaves == save.why \in {"timer", "always"} => srv.state # "HALTED"

\* A save begun by the timer or by a request finds nothing else being saved and
\* saves what is in memory: the version on disk after a completed save is the
\* one the change numbers were recorded for, so that no later change is taken
\* for saved.
CleanIsSaved ==
    srv.up /\ ~mem.dirty /\ save = Idle => check = Full(mem.v)

\* The server starts from a complete file whenever there is one ("if the
\* checkpoint file exists and is readable and is complete").
StartsFromGoodFile ==
    [][~srv.up /\ srv'.up /\ "full" \in {check.kind, backup.kind}
       => \E f \in {check, backup} : f.kind = "full" /\ mem'.v = f.v]_vars

\* The server does not start on check point files of which it can load none,
\* lest it overwrites them (comment in load_check_pt_file_on_startup).
RefusesUnreadable ==
    [][~srv.up /\ srv'.up /\ ~srv'.loaded => check = Absent /\ backup = Absent]_vars

CheckPointing == srv.up /\ srv.state # "HALTED" /\ srv.mode = "on_time"

\* Version x reaches the disk while the server is running or shut down, unless
\* it is deleted before.
Reaches(x) ==
    (CheckPointing /\ mem.v = x) ~> (last >= x \/ mem.v = Nothing \/ ~CheckPointing)

\* A server that stays in mode on_time saves every change, although saves fail
\* and are late and the server is halted, shut down and restarted on the way.
ChangesSaved == [](srv.mode = "on_time") => \A x \in 1 .. MaxVersion : Reaches(x)

\* The same while the mode is changed.
ChangesSavedAlways == \A x \in 1 .. MaxVersion : Reaches(x)

\* The promise of check-pointing: see Durable.
Recoverable ==
    IF check # Absent THEN check.v ELSE backup.v

Promise == INSTANCE Durable WITH
    Versions <- Part .. MaxVersion, Down <- Failed,
    truth <- IF srv.up THEN mem.v ELSE Failed, safe <- Recoverable

\* Server states, modes, timer and the three steps of a save together keep the
\* promise of Durable as long as no write is cut short.
DurableSpec == Promise!Spec
=============================================================================

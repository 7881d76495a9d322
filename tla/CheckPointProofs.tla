-------------------------- MODULE CheckPointProofs --------------------------
(***************************************************************************)
(* Proofs about CheckPoint, for any number of versions and faults.         *)
(***************************************************************************)
EXTENDS CheckPoint, TLAPS

Reasons == {"always", "timer", "check_pt", "sigterm", "terminate", "exit"}

LEMMA Constants == Nothing = 0 /\ Part = -1 /\ Failed = -2 /\ Nothing \in Part .. MaxVersion
BY CheckPointAssumption DEF Nothing, Part, Failed

LEMMA SaveStartType ==
    ASSUME NEW why \in Reasons, NEW STATE f
    PROVE  SaveStart(why, f) \in Saves /\ SaveStart(why, f) # Idle
BY DEF SaveStart, Saves, Reasons, Idle

LEMMA OffType == Off \in Memories
BY Constants DEF Off, Memories

LEMMA DirtyType == ASSUME NEW v \in Part .. MaxVersion PROVE Dirty(v) \in Memories
BY DEF Dirty, Memories

LEMMA StartedType ==
    ASSUME NEW STATE s, s \in Servers
    PROVE  Started(s) \in Servers /\ Started(s).up = s.up /\ Started(s).state = s.state
           /\ Started(s).mode = s.mode
BY DEF Started, Servers

LEMMA StoppedType ==
    ASSUME NEW STATE s, s \in Servers
    PROVE  Stopped(s) \in Servers /\ Stopped(s).up = s.up /\ Stopped(s).state = s.state
           /\ Stopped(s).mode = s.mode /\ ~Stopped(s).running
BY DEF Stopped, Servers

LEMMA InStateType ==
    ASSUME NEW STATE s, s \in Servers, NEW state \in {"RUNNING", "SHUTDOWN", "HALTED"}
    PROVE  InState(s, state) \in Servers /\ InState(s, state).up = s.up
           /\ InState(s, state).state = state /\ InState(s, state).running = s.running
           /\ InState(s, state).mode = s.mode
BY DEF InState, Servers

\* The answer to a request, whatever it did.
LEMMA AnswerType ==
    ASSUME NEW STATE s, NEW STATE m, Answer(s, m), s \in Servers, s.up, m \in Memories
    PROVE  srv' \in Servers /\ mem' \in Memories /\ save' \in Saves /\ srv'.up
<1>1. SaveStart("always", check) \in Saves
    BY SaveStartType DEF Reasons
<1> QED BY <1>1 DEF Answer, Saves

\* The end of a save.
LEMMA EndSaveType ==
    ASSUME TypeOK, srv.up, save # Idle, NEW STATE m, m \in Memories, NEW STATE f, EndSave(m, f)
    PROVE  srv' \in Servers /\ mem' \in Memories /\ save' \in Saves /\ (save' = Idle \/ srv'.up)
<1>1. SaveStart("exit", f) \in Saves
    BY SaveStartType DEF Reasons
<1> QED BY <1>1, OffType DEF EndSave, TypeOK, Servers, Saves

LEMMA FilesType ==
    /\ Absent \in Files
    /\ \A v \in Part .. MaxVersion : Full(v) \in Files
    /\ \A k \in Leftovers : Broken(k) \in Files
BY CheckPointAssumption DEF Files

LEMMA TornType == ASSUME TypeOK PROVE Torn \subseteq Files
BY FilesType DEF TypeOK, Torn

LEMMA EditedType == ASSUME TypeOK PROVE Edited \subseteq Part .. MaxVersion
BY CheckPointAssumption, Constants DEF TypeOK, Edited, Memories

LEMMA NewestType ==
    ASSUME TypeOK, NEW v \in Part .. MaxVersion, Newest(v)
    PROVE  version' \in 0 .. MaxVersion
BY CheckPointAssumption, Constants DEF TypeOK, Newest
-----------------------------------------------------------------------------
LEMMA RequestType == ASSUME TypeOK, Request PROVE TypeOK'
<1> USE CheckPointAssumption
<1>0. version + 1 \in Int /\ mem.v \in Part .. MaxVersion /\ srv \in Servers
      /\ Dirty(mem.v) \in Memories
    BY DirtyType DEF TypeOK, Memories
<1>1. CASE Change
    <2>1. version + 1 \in Part .. MaxVersion
        BY <1>1, Constants DEF Change, TypeOK
    <2>2. srv' \in Servers /\ mem' \in Memories /\ save' \in Saves /\ srv'.up
        BY <1>1, <2>1, DirtyType, AnswerType DEF Change, Ready, TypeOK
    <2> QED BY <1>1, <2>1, <2>2 DEF Change, TypeOK
<1>2. CASE DeleteAll
    <2>1. srv' \in Servers /\ mem' \in Memories /\ save' \in Saves /\ srv'.up
        BY <1>2, Constants, DirtyType, AnswerType DEF DeleteAll, Ready, TypeOK
    <2> QED BY <1>2, <2>1 DEF DeleteAll, TypeOK
<1>3. CASE Traverse
    <2>1. version + 1 \in Part .. MaxVersion
        BY <1>3, Constants DEF Traverse, TypeOK
    <2> QED BY <1>3, <2>1, DirtyType DEF Traverse, Ready, TypeOK
<1>4. CASE Halt
    <2>1. InState(Stopped(srv), "HALTED") \in Servers /\ InState(Stopped(srv), "HALTED").up
        BY <1>0, <1>4, StoppedType, InStateType DEF Halt, Ready
    <2>2. srv' \in Servers /\ mem' \in Memories /\ save' \in Saves /\ srv'.up
        BY <1>0, <1>4, <2>1, AnswerType DEF Halt
    <2> QED BY <1>4, <2>2 DEF Halt, TypeOK
<1>5. CASE Shutdown
    <2>1. InState(Started(srv), "SHUTDOWN") \in Servers /\ InState(Started(srv), "SHUTDOWN").up
        BY <1>0, <1>5, StartedType, InStateType DEF Shutdown, Ready
    <2>2. srv' \in Servers /\ mem' \in Memories /\ save' \in Saves /\ srv'.up
        BY <1>0, <1>5, <2>1, AnswerType DEF Shutdown
    <2> QED BY <1>5, <2>2 DEF Shutdown, TypeOK
<1>6. ASSUME NEW v \in Edited, Restart(v) PROVE TypeOK'
    <2>1. InState(Started(srv), "RUNNING") \in Servers /\ InState(Started(srv), "RUNNING").up
        BY <1>0, <1>6, StartedType, InStateType DEF Restart, Ready
    <2>2. v \in Part .. MaxVersion /\ version' \in 0 .. MaxVersion
        BY <1>6, EditedType, NewestType DEF Restart
    <2>3. srv' \in Servers /\ mem' \in Memories /\ save' \in Saves /\ srv'.up
        BY <1>6, <2>1, <2>2, DirtyType, AnswerType DEF Restart
    <2> QED BY <1>6, <2>2, <2>3 DEF Restart, TypeOK
<1>7. ASSUME NEW v \in Edited, NEW ok \in BOOLEAN, Plug(v, ok) PROVE TypeOK'
    <2> DEFINE s == IF srv.state = "HALTED" THEN Stopped(Started(srv)) ELSE Started(srv)
    <2>1. s \in Servers /\ s.up
        BY <1>0, <1>7, StartedType, StoppedType DEF Plug, Ready
    <2>2. v \in Part .. MaxVersion /\ version' \in 0 .. MaxVersion
        BY <1>7, EditedType, NewestType DEF Plug
    <2>3. Answer(s, Dirty(v)) \/ (srv' = s /\ mem' = Dirty(v) /\ save' = Idle)
        BY <1>7 DEF Plug
    <2> HIDE DEF s
    <2>4. srv' \in Servers /\ mem' \in Memories /\ save' \in Saves /\ srv'.up
        BY <2>1, <2>2, <2>3, DirtyType, AnswerType DEF Saves
    <2> QED BY <1>7, <2>2, <2>4 DEF Plug, TypeOK
<1>8. ASSUME NEW m \in SetModes, SetMode(m) PROVE TypeOK'
    <2>1. [srv EXCEPT !.mode = m] \in Servers /\ [srv EXCEPT !.mode = m].up
        BY <1>0, <1>8 DEF SetMode, Ready, Servers
    <2>2. srv' \in Servers /\ mem' \in Memories /\ save' \in Saves /\ srv'.up
        BY <1>8, <2>1, AnswerType DEF SetMode, TypeOK
    <2> QED BY <1>8, <2>2 DEF SetMode, TypeOK
<1>9. ASSUME NEW why \in {"check_pt", "sigterm", "terminate"}, SaveNow(why) PROVE TypeOK'
    <2>1. save' \in Saves
        BY <1>9, SaveStartType DEF SaveNow, Reasons
    <2> QED BY <1>0, <1>9, <2>1 DEF SaveNow, Ready, TypeOK
<1>10. ASSUME NEW ok \in BOOLEAN, NEW v \in Part .. MaxVersion, Restore(ok, v) PROVE TypeOK'
    <2>1. srv' \in Servers /\ mem' \in Memories /\ save' \in Saves /\ srv'.up
        BY <1>0, <1>10, DirtyType, AnswerType DEF Restore, Ready
    <2> QED BY <1>10, <2>1 DEF Restore, TypeOK
<1> QED BY <1>1, <1>2, <1>3, <1>4, <1>5, <1>6, <1>7, <1>8, <1>9, <1>10 DEF Request

LEMMA SaveStepType == ASSUME TypeOK, SaveStep PROVE TypeOK'
<1>1. CASE Remove
    BY <1>1, FilesType DEF Remove, TypeOK, Saves, Idle
<1>2. CASE Rename
    BY <1>2, FilesType DEF Rename, TypeOK, Saves, Idle
<1>3. ASSUME NEW late \in BOOLEAN, Write(late) PROVE TypeOK'
    <2>1. [mem EXCEPT !.dirty = late] \in Memories /\ save # Idle /\ mem.v \in Part .. MaxVersion
        BY <1>3 DEF TypeOK, Memories, Write, Idle
    <2>2. srv' \in Servers /\ mem' \in Memories /\ save' \in Saves /\ (save' = Idle \/ srv'.up)
        BY <1>3, <2>1, EndSaveType DEF Write
    <2>3. check' \in Files /\ last' \in Failed .. MaxVersion
        BY <1>3, <2>1, FilesType, Constants, CheckPointAssumption DEF Write
    <2> QED BY <1>3, <2>2, <2>3 DEF Write, TypeOK
<1> QED BY <1>1, <1>2, <1>3 DEF SaveStep

LEMMA FaultType == ASSUME TypeOK, Fault PROVE TypeOK'
<1>0. ASSUME faults < MaxFaults, faults' = faults + 1 PROVE faults' \in 0 .. MaxFaults
    BY <1>0, CheckPointAssumption DEF TypeOK
<1>1. ASSUME NEW f \in Files, SaveFails(f) PROVE TypeOK'
    <2>1. [mem EXCEPT !.dirty = TRUE] \in Memories
        BY DEF TypeOK, Memories
    <2>2. srv' \in Servers /\ mem' \in Memories /\ save' \in Saves /\ (save' = Idle \/ srv'.up)
        BY <1>1, <2>1, EndSaveType DEF SaveFails
    <2> QED BY <1>0, <1>1, <2>2 DEF SaveFails, TypeOK
<1>2. ASSUME NEW f \in Files, Die(f) PROVE TypeOK'
    BY <1>0, <1>2, OffType DEF Die, TypeOK, Saves, Servers
<1>3. \A f \in Torn : f \in Files /\ (IF save.pc = "write" THEN f ELSE check) \in Files
    BY TornType DEF TypeOK
<1> QED BY <1>1, <1>2, <1>3 DEF Fault

LEMMA TypeStep == TypeOK /\ [Next]_vars => TypeOK'
<1> SUFFICES ASSUME TypeOK, [Next]_vars PROVE TypeOK'
    OBVIOUS
<1>1. ASSUME NEW mode \in StartModes, NEW ok \in BOOLEAN, NEW v \in Part .. MaxVersion,
             Start(mode, ok, v)
      PROVE  TypeOK'
    BY <1>1, DirtyType DEF Start, TypeOK, Servers
<1>2. CASE TimerFires
    <2>1. save' \in Saves
        BY <1>2, SaveStartType DEF TimerFires, Reasons
    <2> QED BY <1>2, <2>1 DEF TimerFires, Ready, TypeOK
<1>3. CASE UNCHANGED vars
    BY <1>3 DEF vars, TypeOK
<1> QED BY <1>1, <1>2, <1>3, RequestType, SaveStepType, FaultType DEF Next

LEMMA TypeInit == Init => TypeOK
BY CheckPointAssumption, OffType, FilesType, Constants DEF Init, TypeOK, Servers, Saves

\* The variables keep their types, and nothing is being saved while the server
\* is down, for any number of versions and faults, any modes and leftovers.
THEOREM TypeCorrect == Spec => []TypeOK
BY TypeInit, TypeStep, PTL DEF Spec
-----------------------------------------------------------------------------
(* The last save survives, if a write that is cut short leaves no file or an *)
(* empty one.                                                                *)

NoCuts == Leftovers \subseteq {"empty"}

\* A complete check point file is the last save; without one the backup is.
Sound ==
    /\ check.kind \in {"absent", "empty", "full"}
    /\ check.kind = "full" => check = Full(last)
    /\ check.kind # "full" /\ last # Failed => backup = Full(last)
    /\ save.pc \in {"remove", "rename"} => check.kind = "full"
    /\ save.pc = "write" => check.kind # "full"

\* A step that begins or ends a save and leaves the files alone.
LEMMA SoundSame ==
    ASSUME Sound, check' = check, backup' = backup, last' = last,
           save' = Idle \/ \E why \in Reasons : save' = SaveStart(why, check)
    PROVE  Sound'
BY DEF Sound, SaveStart, Idle

\* The end of a save that leaves the file f.
LEMMA EndSaveSave ==
    ASSUME NEW STATE m, NEW STATE f, EndSave(m, f)
    PROVE  save' = Idle \/ save' = SaveStart("exit", f)
BY DEF EndSave

LEMMA AnswerSave ==
    ASSUME NEW STATE s, NEW STATE m, Answer(s, m)
    PROVE  save' = Idle \/ \E why \in Reasons : save' = SaveStart(why, check)
BY DEF Answer, Reasons

LEMMA RequestSave ==
    ASSUME TypeOK, Request
    PROVE  /\ check' = check /\ backup' = backup /\ last' = last
           /\ save' = Idle \/ \E why \in Reasons : save' = SaveStart(why, check)
<1>1. CASE Change \/ DeleteAll \/ Halt \/ Shutdown
    BY <1>1, AnswerSave DEF Change, DeleteAll, Halt, Shutdown
<1>2. CASE Traverse
    BY <1>2 DEF Traverse, Ready
<1>3. ASSUME NEW v, Restart(v)
      PROVE  /\ check' = check /\ backup' = backup /\ last' = last
             /\ save' = Idle \/ \E why \in Reasons : save' = SaveStart(why, check)
    BY <1>3, AnswerSave DEF Restart
<1>4. ASSUME NEW v, NEW ok \in BOOLEAN, Plug(v, ok)
      PROVE  /\ check' = check /\ backup' = backup /\ last' = last
             /\ save' = Idle \/ \E why \in Reasons : save' = SaveStart(why, check)
    BY <1>4, AnswerSave DEF Plug
<1>5. ASSUME NEW m \in SetModes, SetMode(m)
      PROVE  /\ check' = check /\ backup' = backup /\ last' = last
             /\ save' = Idle \/ \E why \in Reasons : save' = SaveStart(why, check)
    BY <1>5, AnswerSave DEF SetMode
<1>6. ASSUME NEW why \in {"check_pt", "sigterm", "terminate"}, SaveNow(why)
      PROVE  /\ check' = check /\ backup' = backup /\ last' = last
             /\ save' = Idle \/ \E w \in Reasons : save' = SaveStart(w, check)
    BY <1>6 DEF SaveNow, Reasons
<1>7. ASSUME NEW ok \in BOOLEAN, NEW v \in Part .. MaxVersion, Restore(ok, v)
      PROVE  /\ check' = check /\ backup' = backup /\ last' = last
             /\ save' = Idle \/ \E why \in Reasons : save' = SaveStart(why, check)
    BY <1>7, AnswerSave DEF Restore
<1> QED BY <1>1, <1>2, <1>3, <1>4, <1>5, <1>6, <1>7 DEF Request

LEMMA SoundStep == NoCuts /\ TypeOK /\ Sound /\ [Next]_vars => Sound'
<1> SUFFICES ASSUME NoCuts, TypeOK, Sound, [Next]_vars PROVE Sound'
    OBVIOUS
<1>1. CASE Request
    BY <1>1, RequestSave, SoundSame
<1>2. CASE TimerFires
    BY <1>2, SoundSame DEF TimerFires, Reasons
<1>3. ASSUME NEW mode, NEW ok, NEW v, Start(mode, ok, v) PROVE Sound'
    BY <1>3 DEF Start, Sound
<1>4. CASE Remove
    BY <1>4 DEF Remove, Sound, TypeOK, Saves, Idle
<1>5. CASE Rename
    <2>1. save'.pc = "write"
        BY <1>5 DEF Rename, TypeOK, Saves, Idle
    <2> QED BY <1>5, <2>1 DEF Rename, Sound, Absent
<1>6. ASSUME NEW late \in BOOLEAN, Write(late) PROVE Sound'
    <2>1. save' = Idle \/ save' = SaveStart("exit", check')
        BY <1>6, EndSaveSave DEF Write
    <2> QED BY <1>6, <2>1 DEF Write, Sound, Full, SaveStart, Idle
<1>7. ASSUME NEW f \in Torn, SaveFails(IF save.pc = "write" THEN f ELSE check) PROVE Sound'
    <2>1. save' = Idle \/ save' = SaveStart("exit", check')
        BY <1>7, EndSaveSave DEF SaveFails
    <2>2. check' = check \/ (save.pc = "write" /\ check'.kind = "empty")
        BY <1>7 DEF SaveFails, Torn, Broken, NoCuts
    <2> QED BY <1>7, <2>1, <2>2 DEF SaveFails, Sound, SaveStart, Idle
<1>8. ASSUME NEW f \in Torn, Die(f) PROVE Sound'
    <2>1. check' = check \/ (save.pc = "write" /\ check'.kind = "empty")
        BY <1>8 DEF Die, Torn, Broken, NoCuts
    <2> QED BY <1>8, <2>1 DEF Die, Sound, Idle
<1>9. CASE UNCHANGED vars
    BY <1>9 DEF vars, Sound
<1> QED BY <1>1, <1>2, <1>3, <1>4, <1>5, <1>6, <1>7, <1>8, <1>9 DEF Next, SaveStep, Fault

LEMMA SoundAlways == ASSUME NoCuts PROVE Spec => []Sound
<1>1. Init => Sound
    BY DEF Init, Sound, Absent, Idle
<1> QED BY <1>1, SoundStep, TypeCorrect, PTL DEF Spec

\* Whatever saves fail and wherever the server dies, one of the two files is
\* the last completed save, if a write that is cut short leaves no part of a
\* definition behind (checkpt_cut shows that it must not).
THEOREM GoodFileSurvives == ASSUME NoCuts PROVE Spec => []GoodFile
<1>1. Sound => GoodFile
    BY DEF Sound, GoodFile
<1> QED BY <1>1, SoundAlways, PTL

-----------------------------------------------------------------------------
(* What the server starts from, if no write is cut short at all. *)

Atomic == Leftovers = {}

\* There are no empty files either, and a complete backup that is not the last
\* save is older than the check point file.
Clean == check.kind \in {"absent", "full"} /\ backup.kind \in {"absent", "full"}

LEMMA CleanStep == Atomic /\ TypeOK /\ Clean /\ [Next]_vars => Clean'
<1> SUFFICES ASSUME Atomic, TypeOK, Clean, [Next]_vars PROVE Clean'
    OBVIOUS
<1>1. ASSUME check' = check, backup' = backup PROVE Clean'
    BY <1>1 DEF Clean
<1>2. CASE Request
    BY <1>1, <1>2, RequestSave
<1>3. CASE TimerFires
    BY <1>1, <1>3 DEF TimerFires
<1>4. ASSUME NEW mode, NEW ok, NEW v, Start(mode, ok, v) PROVE Clean'
    BY <1>1, <1>4 DEF Start
<1>5. CASE Remove \/ Rename
    BY <1>5 DEF Remove, Rename, Clean, Absent
<1>6. ASSUME NEW late \in BOOLEAN, Write(late) PROVE Clean'
    BY <1>6 DEF Write, Clean, Full
<1>7. ASSUME NEW f \in Torn, SaveFails(IF save.pc = "write" THEN f ELSE check) \/ Die(f) PROVE Clean'
    BY <1>1, <1>7 DEF SaveFails, Die, Torn, Atomic
<1>8. CASE UNCHANGED vars
    BY <1>1, <1>8 DEF vars
<1> QED BY <1>2, <1>3, <1>4, <1>5, <1>6, <1>7, <1>8 DEF Next, SaveStep, Fault

LEMMA CleanAlways == ASSUME Atomic PROVE Spec => []Clean
<1>1. Init => Clean
    BY DEF Init, Clean, Absent
<1> QED BY <1>1, CleanStep, TypeCorrect, PTL DEF Spec

\* What restore_from_checkpt can load is what Recoverable says.
LEMMA LoadsRecoverable ==
    ASSUME TypeOK, Clean
    PROVE  /\ \A v \in Loads : v = Recoverable
           /\ LoadFails => check = Absent /\ backup = Absent
           /\ LoadFails => Remains = Nothing
BY Constants DEF TypeOK, Clean, Files, Loads, LoadFails, Remains, Read, Recoverable, Absent, Broken, Full
\* A request is served by a server that is up, and leaves it up.
LEMMA RequestUp == ASSUME TypeOK, Request PROVE srv.up /\ srv'.up
<1>0. srv \in Servers
    BY DEF TypeOK
<1>1. CASE Change \/ DeleteAll \/ Traverse
    BY <1>1 DEF Change, DeleteAll, Traverse, Ready, Answer
<1>2. CASE Halt
    BY <1>0, <1>2, StoppedType, InStateType DEF Halt, Ready, Answer
<1>3. CASE Shutdown
    BY <1>0, <1>3, StartedType, InStateType DEF Shutdown, Ready, Answer
<1>4. ASSUME NEW v, Restart(v) PROVE srv.up /\ srv'.up
    BY <1>0, <1>4, StartedType, InStateType DEF Restart, Ready, Answer
<1>5. ASSUME NEW v, NEW ok \in BOOLEAN, Plug(v, ok) PROVE srv.up /\ srv'.up
    <2>1. srv' = Stopped(Started(srv)) \/ srv' = Started(srv)
        BY <1>5 DEF Plug, Answer
    <2> QED BY <1>0, <1>5, <2>1, StartedType, StoppedType DEF Plug, Ready
<1>6. ASSUME NEW m \in SetModes, SetMode(m) PROVE srv.up /\ srv'.up
    BY <1>0, <1>6 DEF SetMode, Ready, Answer, Servers
<1>7. ASSUME NEW why, SaveNow(why) PROVE srv.up /\ srv'.up
    BY <1>7 DEF SaveNow, Ready
<1>8. ASSUME NEW ok, NEW v, Restore(ok, v) PROVE srv.up /\ srv'.up
    BY <1>8 DEF Restore, Ready, Answer
<1> QED BY <1>1, <1>2, <1>3, <1>4, <1>5, <1>6, <1>7, <1>8 DEF Request

LEMMA StartOnly ==
    ASSUME TypeOK, [Next]_vars, ~srv.up, srv'.up
    PROVE  \E mode \in StartModes, ok \in BOOLEAN, v \in Part .. MaxVersion : Start(mode, ok, v)
<1>1. ~Request
    BY RequestUp
<1>2. ~TimerFires /\ ~SaveStep /\ ~Fault
    BY DEF TimerFires, Ready, SaveStep, Remove, Rename, Write, Fault, SaveFails, Die
<1>3. ~UNCHANGED vars
    BY DEF vars
<1> QED BY <1>1, <1>2, <1>3 DEF Next

\* With a complete file on disk the server starts from a complete file, if no
\* write is cut short (checkpt_start shows the empty file).
THEOREM AlwaysStartsFromGoodFile == ASSUME Atomic PROVE Spec => StartsFromGoodFile
<1>1. ASSUME TypeOK, Clean, [Next]_vars
      PROVE  ~srv.up /\ srv'.up /\ "full" \in {check.kind, backup.kind}
                => \E f \in {check, backup} : f.kind = "full" /\ mem'.v = f.v
    <2> SUFFICES ASSUME ~srv.up, srv'.up, "full" \in {check.kind, backup.kind}
                 PROVE  \E f \in {check, backup} : f.kind = "full" /\ mem'.v = f.v
        OBVIOUS
    <2>1. PICK mode \in StartModes, ok \in BOOLEAN, v \in Part .. MaxVersion : Start(mode, ok, v)
        BY <1>1, StartOnly
    <2>2. ok
        BY <1>1, <2>1, LoadsRecoverable DEF Start, Absent
    <2>3. mem'.v = Recoverable
        BY <1>1, <2>1, <2>2, LoadsRecoverable DEF Start, Dirty
    <2> QED BY <1>1, <2>3 DEF Recoverable, Clean, Absent, TypeOK, Files, Full, Broken
<1> QED BY <1>1, TypeCorrect, CleanAlways, PTL DEF Spec, StartsFromGoodFile

-----------------------------------------------------------------------------
(* Refinement: check-pointing keeps the promise of Durable. *)

LEMMA PromiseInit == Init => Promise!Init
BY DEF Init, Promise!Init, Recoverable, Absent

LEMMA PromiseStep ==
    ASSUME Atomic, TypeOK, TypeOK', Clean, Sound, [Next]_vars
    PROVE  [Promise!Next]_(Promise!dvars)
<1> USE DEF Promise!Next, Promise!Change, Promise!Save, Promise!Die, Promise!Leave,
            Promise!Recover, Promise!dvars
<1>0. mem.v \in Part .. MaxVersion /\ mem'.v \in Part .. MaxVersion
      /\ Failed \notin Part .. MaxVersion
    BY Constants, CheckPointAssumption DEF TypeOK, Memories
<1>1. CASE Request
    <2>1. Recoverable' = Recoverable
        BY <1>1, RequestSave DEF Recoverable
    <2>2. srv.up /\ srv'.up
        BY <1>1, RequestUp
    <2> QED BY <1>0, <2>1, <2>2
<1>2. CASE TimerFires
    BY <1>2 DEF TimerFires, Recoverable
<1>3. ASSUME NEW mode, NEW ok \in BOOLEAN, NEW v, Start(mode, ok, v)
      PROVE  [Promise!Next]_(Promise!dvars)
    <2>1. v = Recoverable
        BY <1>3, LoadsRecoverable DEF Start, Recoverable, Absent
    <2>2. ~srv.up /\ srv'.up /\ mem'.v = v /\ Recoverable' = Recoverable
        BY <1>3 DEF Start, Dirty, Recoverable
    <2> QED BY <2>1, <2>2
<1>4. CASE Remove
    BY <1>4 DEF Remove, Sound, Recoverable, Absent
<1>5. CASE Rename
    BY <1>5 DEF Rename, Sound, Recoverable, Absent
<1>6. ASSUME NEW late \in BOOLEAN, Write(late) PROVE [Promise!Next]_(Promise!dvars)
    <2>1. Recoverable' = mem.v /\ srv.up
        BY <1>6 DEF Write, Recoverable, Full, Absent
    <2>2. (srv'.up /\ mem'.v = mem.v) \/ ~srv'.up
        BY <1>6 DEF Write, EndSave, TypeOK, Memories, Servers
    <2> QED BY <1>0, <2>1, <2>2
<1>7. ASSUME NEW f \in Torn, SaveFails(IF save.pc = "write" THEN f ELSE check)
      PROVE  [Promise!Next]_(Promise!dvars)
    <2>1. Recoverable' = Recoverable /\ srv.up
        BY <1>7 DEF SaveFails, Recoverable, Torn, Atomic
    <2>2. (srv'.up /\ mem'.v = mem.v) \/ ~srv'.up
        BY <1>7 DEF SaveFails, EndSave, TypeOK, Memories, Servers
    <2> QED BY <1>0, <2>1, <2>2
<1>8. ASSUME NEW f \in Torn, Die(f) PROVE [Promise!Next]_(Promise!dvars)
    <2>1. Recoverable' = Recoverable /\ srv.up /\ ~srv'.up
        BY <1>8 DEF Die, Recoverable, Torn, Atomic, TypeOK, Servers
    <2> QED BY <1>0, <2>1
<1>9. CASE UNCHANGED vars
    BY <1>9 DEF vars, Recoverable
<1> QED BY <1>1, <1>2, <1>3, <1>4, <1>5, <1>6, <1>7, <1>8, <1>9 DEF Next, SaveStep, Fault

LEMMA AtomicNoCuts == Atomic => NoCuts
BY DEF Atomic, NoCuts

\* Server states, modes, timer and the three steps of a save implement Durable,
\* with saves that fail and deaths at every step, if no write is cut short.
THEOREM KeepsPromise == ASSUME Atomic PROVE Spec => DurableSpec
<1>1. Spec => []Sound
    BY AtomicNoCuts, SoundAlways
<1>2. ASSUME TypeOK, TypeOK', Clean, Sound, [Next]_vars PROVE [Promise!Next]_(Promise!dvars)
    BY <1>2, PromiseStep
<1> QED BY <1>1, <1>2, PromiseInit, TypeCorrect, CleanAlways, PTL DEF Spec, DurableSpec, Promise!Spec
-----------------------------------------------------------------------------
(* What the change numbers say. *)

\* The answer to a request leaves the definition dirty, or as it was.
LEMMA RequestClean ==
    ASSUME TypeOK, CleanIsSaved, Request PROVE CleanIsSaved'
<1>1. ASSUME check' = check,
             mem'.dirty \/ (srv.up /\ save = Idle /\ mem' = mem) \/ save' # Idle
      PROVE  CleanIsSaved'
    BY <1>1 DEF CleanIsSaved
<1>2. check' = check
    BY RequestSave
<1>3. CASE Change \/ DeleteAll \/ Traverse \/ Halt \/ Shutdown
    BY <1>1, <1>2, <1>3 DEF Change, DeleteAll, Traverse, Halt, Shutdown, Answer, Dirty
<1>4. ASSUME NEW v, Restart(v) PROVE CleanIsSaved'
    BY <1>1, <1>2, <1>4 DEF Restart, Answer, Dirty
<1>5. ASSUME NEW v, NEW ok \in BOOLEAN, Plug(v, ok) PROVE CleanIsSaved'
    <2>1. mem' = Dirty(v)
        BY <1>5 DEF Plug, Answer
    <2> QED BY <1>1, <1>2, <2>1 DEF Dirty
<1>6. ASSUME NEW m \in SetModes, SetMode(m) PROVE CleanIsSaved'
    BY <1>1, <1>2, <1>6 DEF SetMode, Answer, Ready
<1>7. ASSUME NEW why \in {"check_pt", "sigterm", "terminate"}, SaveNow(why) PROVE CleanIsSaved'
    BY <1>1, <1>2, <1>7, SaveStartType DEF SaveNow, Reasons
<1>8. ASSUME NEW ok, NEW v, Restore(ok, v) PROVE CleanIsSaved'
    BY <1>1, <1>2, <1>8 DEF Restore, Answer, Dirty
<1> QED BY <1>3, <1>4, <1>5, <1>6, <1>7, <1>8 DEF Request

LEMMA CleanIsSavedStep == TypeOK /\ CleanIsSaved /\ [Next]_vars => CleanIsSaved'
<1> SUFFICES ASSUME TypeOK, CleanIsSaved, [Next]_vars PROVE CleanIsSaved'
    OBVIOUS
<1>1. CASE TimerFires
    BY <1>1, SaveStartType DEF TimerFires, CleanIsSaved, Reasons
<1>2. ASSUME NEW mode, NEW ok, NEW v, Start(mode, ok, v) PROVE CleanIsSaved'
    BY <1>2 DEF Start, CleanIsSaved, Dirty
<1>3. CASE Remove \/ Rename
    BY <1>3 DEF Remove, Rename, CleanIsSaved, TypeOK, Saves, Idle
<1>4. ASSUME NEW late \in BOOLEAN, Write(late) PROVE CleanIsSaved'
    <2>1. check' = Full(mem.v)
        BY <1>4 DEF Write
    <2>2. mem'.v = mem.v \/ ~srv'.up
        BY <1>4 DEF Write, EndSave, TypeOK, Memories, Servers
    <2> QED BY <2>1, <2>2 DEF CleanIsSaved
<1>5. ASSUME NEW f, SaveFails(f) PROVE CleanIsSaved'
    <2>1. mem'.dirty \/ ~srv'.up
        BY <1>5 DEF SaveFails, EndSave, TypeOK, Memories, Servers
    <2> QED BY <2>1 DEF CleanIsSaved
<1>6. ASSUME NEW f, Die(f) PROVE CleanIsSaved'
    BY <1>6 DEF Die, CleanIsSaved, TypeOK, Servers
<1>7. CASE UNCHANGED vars
    BY <1>7 DEF vars, CleanIsSaved
<1> QED BY <1>1, <1>2, <1>3, <1>4, <1>5, <1>6, <1>7, RequestClean DEF Next, SaveStep, Fault

\* A definition whose change numbers say that nothing changed is the one in the
\* check point file, whatever saves failed, were late or were cut short.
THEOREM CleanIsAlwaysSaved == Spec => []CleanIsSaved
<1>1. Init => CleanIsSaved
    BY DEF Init, CleanIsSaved
<1> QED BY <1>1, CleanIsSavedStep, TypeCorrect, PTL DEF Spec

-----------------------------------------------------------------------------
(* A halted server *)

\* The timer is stopped in state HALTED and a save of it runs to its end first.
Quiet ==
    /\ srv.running => srv.state # "HALTED"
    /\ HaltedIsQuiet

LEMMA AnswerQuiet ==
    ASSUME NEW STATE s, NEW STATE m, Answer(s, m), s.running => s.state # "HALTED"
    PROVE  Quiet'
BY DEF Answer, Quiet, HaltedIsQuiet, Idle, SaveStart

LEMMA RequestQuiet == ASSUME TypeOK, Quiet, Request PROVE Quiet'
<1>0. srv \in Servers
    BY DEF TypeOK
<1>1. CASE Change \/ DeleteAll
    BY <1>1, AnswerQuiet DEF Change, DeleteAll, Quiet
<1>2. CASE Traverse
    BY <1>2 DEF Traverse, Quiet, HaltedIsQuiet
<1>3. CASE Halt
    BY <1>0, <1>3, StoppedType, InStateType, AnswerQuiet DEF Halt, Quiet
<1>4. CASE Shutdown
    BY <1>0, <1>4, StartedType, InStateType, AnswerQuiet DEF Shutdown, Quiet
<1>5. ASSUME NEW v, Restart(v) PROVE Quiet'
    BY <1>0, <1>5, StartedType, InStateType, AnswerQuiet DEF Restart, Quiet
<1>6. ASSUME NEW v, NEW ok \in BOOLEAN, Plug(v, ok) PROVE Quiet'
    <2> DEFINE s == IF srv.state = "HALTED" THEN Stopped(Started(srv)) ELSE Started(srv)
    <2>1. s.running => s.state # "HALTED"
        BY <1>0, StartedType, StoppedType DEF Quiet
    <2>2. Answer(s, Dirty(v)) \/ (srv' = s /\ save' = Idle)
        BY <1>6 DEF Plug
    <2> HIDE DEF s
    <2>3. CASE srv' = s /\ save' = Idle
        BY <2>1, <2>3 DEF Quiet, HaltedIsQuiet, Idle
    <2> QED BY <2>1, <2>2, <2>3, AnswerQuiet
<1>7. ASSUME NEW m \in SetModes, SetMode(m) PROVE Quiet'
    <2>1. /\ [srv EXCEPT !.mode = m].running = srv.running
          /\ [srv EXCEPT !.mode = m].state = srv.state
        BY <1>0 DEF Servers
    <2> QED BY <1>7, <2>1, AnswerQuiet DEF SetMode, Quiet
<1>8. ASSUME NEW why \in {"check_pt", "sigterm", "terminate"}, SaveNow(why) PROVE Quiet'
    BY <1>8 DEF SaveNow, Quiet, HaltedIsQuiet, SaveStart
<1>9. ASSUME NEW ok, NEW v, Restore(ok, v) PROVE Quiet'
    BY <1>9, AnswerQuiet DEF Restore, Quiet
<1> QED BY <1>1, <1>2, <1>3, <1>4, <1>5, <1>6, <1>7, <1>8, <1>9 DEF Request

LEMMA QuietStep == TypeOK /\ Quiet /\ [Next]_vars => Quiet'
<1> SUFFICES ASSUME TypeOK, Quiet, [Next]_vars PROVE Quiet'
    OBVIOUS
<1>1. CASE TimerFires
    BY <1>1 DEF TimerFires, SaveStart, Quiet, HaltedIsQuiet
<1>2. ASSUME NEW mode \in StartModes, NEW ok, NEW v, Start(mode, ok, v) PROVE Quiet'
    BY <1>2 DEF Start, Quiet, HaltedIsQuiet, TypeOK, Saves, Idle
<1>3. CASE Remove \/ Rename
    BY <1>3 DEF Remove, Rename, Quiet, HaltedIsQuiet, TypeOK, Saves, Idle
<1>5. ASSUME NEW late \in BOOLEAN, Write(late) PROVE Quiet'
    <2>1. EndSave([mem EXCEPT !.dirty = late], Full(mem.v))
        BY <1>5 DEF Write
    <2> QED BY <2>1 DEF EndSave, SaveStart, Quiet, HaltedIsQuiet, TypeOK, Servers, Idle
<1>6. ASSUME NEW f, SaveFails(f) PROVE Quiet'
    BY <1>6 DEF SaveFails, EndSave, SaveStart, Quiet, HaltedIsQuiet, TypeOK, Servers, Idle
<1>7. ASSUME NEW f, Die(f) PROVE Quiet'
    BY <1>7 DEF Die, Quiet, HaltedIsQuiet, TypeOK, Servers, Idle
<1>8. CASE UNCHANGED vars
    BY <1>8 DEF vars, Quiet, HaltedIsQuiet
<1> QED BY <1>1, <1>2, <1>3, <1>5, <1>6, <1>7, <1>8, RequestQuiet DEF Next, SaveStep, Fault

\* The timer of a halted server saves nothing, in every mode and after every
\* history of halts, restarts and changes of the mode.
THEOREM HaltedIsAlwaysQuiet == Spec => []HaltedIsQuiet
<1>1. Init => Quiet
    BY DEF Init, Quiet, HaltedIsQuiet, Idle
<1>2. Quiet => HaltedIsQuiet
    BY DEF Quiet
<1> QED BY <1>1, <1>2, QuietStep, TypeCorrect, PTL DEF Spec
=============================================================================

----------------------------- MODULE TimeSlots ------------------------------
(***************************************************************************)
(* A task with time and cron attributes: the slots of the day at which     *)
(* they free it, the re-queue for a later slot when the task completes,    *)
(* and the commands with which a user runs the task before its time.  A    *)
(* tick of the clock is the resolution of the slots, one minute.           *)
(***************************************************************************)
EXTENDS Integers, Sequences, FiniteSets

CONSTANTS
    Attrs,      \* the attributes: kind, start, finish, incr and relative
    Day,        \* minutes in a day
    Cmds,       \* "run", "complete", "free", "requeue"; "abort" for jobs that abort
    MaxCmds,    \* bound: how often those happen
    Repeats,    \* further iterations of the repeat of the task
    Held,       \* triggers and limits may hold the task
    ByRule,     \* the task has a complete expression
    Late        \* the server may be late: its calendar moves by two minutes

None == -1

\* A single slot has no increment, and its finish is its start.
ASSUME TimeAssumption ==
    /\ Day \in Nat \ {0, 1, 2} /\ MaxCmds \in Nat /\ Repeats \in Nat
    /\ Held \in BOOLEAN /\ ByRule \in BOOLEAN /\ Late \in BOOLEAN
    /\ Cmds \subseteq {"run", "complete", "free", "requeue", "abort"}
    /\ Attrs \in Seq([kind : {"time", "cron"}, start : Nat, finish : 0 .. Day - 1,
                      incr : Nat, relative : BOOLEAN])
    /\ \A i \in DOMAIN Attrs : Attrs[i].start <= Attrs[i].finish

VARIABLES
    now,     \* suite time of day
    attr,    \* each attribute: free_, isValid_, nextTimeSlot_, suiteTimeAtReque_
             \* and relativeDuration_
    task,    \* state, NO_REQUE_IF_SINGLE_TIME_DEP and the iterations left
    cmds,    \* commands so far
    hist     \* history: the slots since the task was queued, the kinds a user
             \* freed, whether a user ran or completed the task, the slots users
             \* took early, and where the task stands

vars == <<now, attr, task, cmds, hist>>

Index == DOMAIN Attrs
Kinds == {Attrs[i].kind : i \in Index}

-----------------------------------------------------------------------------
(* TimeSeries: s is the state of attribute a and t the suite time of day. *)

hasIncrement(a) == a.incr > 0
duration(a, s, t) == IF a.relative THEN s.elapsed ELSE t

\* d is reached from n in steps of the increment.
OnGrid(a, n, d) == \E k \in 0 .. Day : d = n + k * a.incr

\* The first slot after t on the grid that n is on.
Beyond(a, n, t) == IF t < n THEN n ELSE n + ((t - n) \div a.incr + 1) * a.incr

lastTimeSlot(a) == a.start + ((a.finish - a.start) \div a.incr) * a.incr

\* Variant: the day change does not bring the slots back.
calendarChangedSameDay(a, s, by, dayChanged) ==
    IF a.relative THEN [s EXCEPT !.elapsed = IF s.elapsed + by < Day THEN s.elapsed + by ELSE Day]
    ELSE s

\* The relative duration stops at a day, beyond every slot.
calendarChanged(a, s, by, dayChanged) ==
    IF a.relative THEN [s EXCEPT !.elapsed = IF s.elapsed + by < Day THEN s.elapsed + by ELSE Day]
    ELSE IF dayChanged THEN [s EXCEPT !.valid = TRUE, !.next = a.start]
    ELSE s

resetOnly(a, s) == [s EXCEPT !.valid = TRUE, !.next = a.start, !.elapsed = 0]

reset(a, s, t) ==
    LET d == duration(a, resetOnly(a, s), t)
        n == IF hasIncrement(a) THEN Beyond(a, a.start, d - 1) ELSE a.start
    IN [resetOnly(a, s) EXCEPT
            !.next = n,
            !.valid = IF hasIncrement(a) THEN n <= a.finish ELSE d <= a.start,
            !.requeued = IF hasIncrement(a) /\ ~a.relative THEN t ELSE s.requeued]

\* Variant: a slot equal to the current time is kept, as at begin.
requeueAtSlot(a, s, t, again) ==
    LET d == duration(a, s, t)
        s0 == IF again THEN [s EXCEPT !.valid = TRUE, !.next = a.start] ELSE s
        n == Beyond(a, s0.next, d - 1)
    IN IF ~hasIncrement(a) THEN [s0 EXCEPT !.valid = s0.valid /\ d <= a.start]
       ELSE [s0 EXCEPT !.next = n,
                       !.valid = s0.valid /\ n <= a.finish,
                       !.requeued = IF n > a.finish THEN None
                                    ELSE IF a.relative THEN s0.requeued ELSE t]

requeue(a, s, t, again) ==
    LET d == duration(a, s, t)
        s0 == IF again THEN [s EXCEPT !.valid = TRUE, !.next = a.start] ELSE s
        n == Beyond(a, s0.next, d)
    IN IF ~hasIncrement(a) THEN [s0 EXCEPT !.valid = s0.valid /\ d < a.start]
       ELSE [s0 EXCEPT !.next = n,
                       !.valid = s0.valid /\ n <= a.finish,
                       !.requeued = IF n > a.finish THEN None
                                    ELSE IF a.relative THEN s0.requeued ELSE t]

\* The time is one of the slots, from the next one on.
isFree(a, s, t) ==
    LET d == duration(a, s, t) IN
    /\ s.valid
    /\ IF hasIncrement(a) THEN d <= a.finish /\ OnGrid(a, s.next, d) ELSE d = a.start

miss_next_time_slot(a, s) ==
    IF ~hasIncrement(a) THEN [s EXCEPT !.valid = FALSE]
    ELSE [s EXCEPT !.next = s.next + a.incr, !.valid = s.valid /\ s.next + a.incr <= a.finish]

\* The day changed since the attribute was re-queued.
dayPassed(a, s, t) == hasIncrement(a) /\ ~a.relative /\ s.requeued # None /\ t < s.requeued

\* Bounds of the slots of all the attributes of the kind.
minSlot(k) == CHOOSE m \in {Attrs[i].start : i \in {j \in Index : Attrs[j].kind = k}} :
                  \A i \in Index : Attrs[i].kind = k => m <= Attrs[i].start
maxSlot(k) == CHOOSE m \in {Attrs[i].finish : i \in {j \in Index : Attrs[j].kind = k}} :
                  \A i \in Index : Attrs[i].kind = k => m >= Attrs[i].finish

\* Variant: the last slot is enough.
checkForRequeueAtLast(a, s, t, inCmd) ==
    LET d == duration(a, s, t) IN
    /\ s.valid
    /\ IF hasIncrement(a)
       THEN s.next <= a.finish /\ ~dayPassed(a, s, t) /\ d <= lastTimeSlot(a)
       ELSE minSlot("time") # maxSlot("time") /\ d <= maxSlot("time")

\* In a command the time may be before the first slot.
checkForRequeue(a, s, t, inCmd) ==
    LET d == duration(a, s, t) IN
    /\ s.valid
    /\ IF hasIncrement(a)
       THEN /\ s.next <= a.finish
            /\ ~dayPassed(a, s, t)
            /\ d < lastTimeSlot(a) /\ (inCmd \/ d >= a.start)
       ELSE /\ minSlot("time") # maxSlot("time")
            /\ d < maxSlot("time") /\ (inCmd \/ d >= minSlot("time"))

\* TimeAttr and CronAttr: once free, free until the re-queue.
attrChanged(a, s, t, by, dayChanged) ==
    LET moved == calendarChanged(a, s, by, dayChanged)
    IN [moved EXCEPT !.free = moved.free \/ isFree(a, moved, t)]

-----------------------------------------------------------------------------
(* The node: at is the state of its attributes. *)

\* Attributes of a kind are alternatives, kinds are all needed.
timeDependenciesFree(at, t) ==
    \A k \in Kinds : \E i \in Index :
        Attrs[i].kind = k /\ (at[i].free \/ isFree(Attrs[i], at[i], t))

\* Variant: the missed slot comes back with every re-queue.
requeueTimeAttrsAgain(at, t, again, relative) ==
    [i \in Index |->
        LET s == IF relative THEN [at[i] EXCEPT !.elapsed = 0] ELSE at[i]
        IN [requeue(Attrs[i], s, t, TRUE) EXCEPT !.free = FALSE]]

do_requeue_time_attrs(at, t, again, relative) ==
    [i \in Index |->
        LET s == IF relative THEN [at[i] EXCEPT !.elapsed = 0] ELSE at[i]
        IN [requeue(Attrs[i], s, t, again) EXCEPT !.free = FALSE]]

\* A cron always re-queues the node.
testTimeDependenciesForRequeue(at, t, inCmd) ==
    \/ "cron" \in Kinds
    \/ \E i \in Index : checkForRequeue(Attrs[i], at[i], t, inCmd)

\* The check forgets when an attribute was re-queued, if it was on the same day.
checked(at, t) ==
    [i \in Index |->
        IF at[i].valid /\ at[i].next <= Attrs[i].finish /\ ~dayPassed(Attrs[i], at[i], t)
        THEN [at[i] EXCEPT !.requeued = None] ELSE at[i]]

\* i is the first attribute of its kind in S.
First(i, S) == i \in S /\ \A j \in 1 .. i - 1 : Attrs[j].kind = Attrs[i].kind => j \notin S

\* Variant: every valid attribute misses a slot.
missAll(at) ==
    IF task.flag THEN at
    ELSE [i \in Index |-> IF at[i].valid THEN miss_next_time_slot(Attrs[i], at[i]) ELSE at[i]]

\* The first attribute of each kind that has not expired misses its next slot,
\* unless one was missed since the task was queued.
miss(at) ==
    IF task.flag THEN at
    ELSE [i \in Index |-> IF First(i, {j \in Index : at[j].valid})
                          THEN miss_next_time_slot(Attrs[i], at[i]) ELSE at[i]]

freeHoldingTimeDependencies(at, t) ==
    [i \in Index |->
        IF First(i, {j \in Index : ~at[j].free /\ ~isFree(Attrs[j], at[j], t)})
        THEN [miss_next_time_slot(Attrs[i], at[i]) EXCEPT !.free = TRUE] ELSE at[i]]

-----------------------------------------------------------------------------
(* History *)

IsSlot(a, d) == IF hasIncrement(a) THEN d <= a.finish /\ OnGrid(a, a.start, d) ELSE d = a.start

\* Slots of the attributes of kind k at which the clock stands.
SlotsNow(k, at, t) ==
    {d \in 0 .. Day : \E i \in Index : /\ Attrs[i].kind = k
                                       /\ d = duration(Attrs[i], at[i], t)
                                       /\ IsSlot(Attrs[i], d)}

\* Slots since the task was queued; a suite begun at a slot may run it in that
\* minute.
SlotsSince(k) == hist.slots[k] \cup (IF hist.begun THEN SlotsNow(k, attr, now) ELSE {})

NoSlots == [k \in Kinds |-> {}]

\* The slots of the day since the task was queued, or since midnight, that no
\* user has run early: a user who runs or completes the task takes the first,
\* once for each time the task is queued.
SlotsOpen == {d \in hist.from .. Day : d \notin hist.early /\ \E i \in Index : IsSlot(Attrs[i], d)}
Early == IF hist.taken THEN hist.early
         ELSE hist.early \cup {d \in SlotsOpen : \A e \in SlotsOpen : d <= e}

\* The task leaves the queue, or enters it: for a later slot if timed.
Left(early, taken) == [hist EXCEPT !.slots = NoSlots, !.freed = {}, !.early = early,
                                   !.taken = taken, !.overnight = FALSE, !.begun = FALSE]
Enters(timed, early) == [Left(early, FALSE) EXCEPT !.timed = timed, !.from = now + 1]

-----------------------------------------------------------------------------
(* Job generation and completion *)

\* A queued task that its attributes do not hold is submitted, unless triggers or
\* limits hold it; an aborted one again, if ECF_TRIES and its flags allow it.
Generation(tk, at, t) ==
    IF tk.state \in {"queued", "aborted"} /\ timeDependenciesFree(at, t)
    THEN {[tk EXCEPT !.state = "running"]}
             \cup (IF Held \/ tk.state = "aborted" THEN {tk} ELSE {})
    ELSE {tk}

Generate ==
    /\ task.state \in {"queued", "aborted"} /\ timeDependenciesFree(attr, now)
    /\ task' = [task EXCEPT !.state = "running"]
    /\ hist' = Left(hist.early, hist.taken)
    /\ UNCHANGED <<now, attr, cmds>>

\* The repeat has a next value.
RepeatValid == task.repeat > 0

\* The task completes with these attributes: it is queued by its repeat, or for
\* a later slot, or stays complete.
Completes(flag, at, inCmd, early, taken) ==
    \/ /\ RepeatValid
       /\ task' = [state |-> "queued", flag |-> FALSE, repeat |-> task.repeat - 1]
       /\ attr' = do_requeue_time_attrs(at, now, TRUE, TRUE)
       /\ hist' = Enters(FALSE, {})
    \/ /\ ~RepeatValid
       /\ testTimeDependenciesForRequeue(at, now, inCmd)
       /\ task' = [state |-> "queued", flag |-> FALSE, repeat |-> task.repeat]
       /\ attr' = do_requeue_time_attrs(at, now, ~flag, FALSE)
       /\ hist' = Enters(TRUE, early)
    \/ /\ ~RepeatValid
       /\ ~testTimeDependenciesForRequeue(at, now, inCmd)
       /\ task' = [task EXCEPT !.state = "complete", !.flag = flag]
       /\ attr' = checked(at, now)
       /\ hist' = Left(early, taken)

JobCompletes ==
    /\ task.state = "running"
    /\ Completes(task.flag, attr, TRUE, hist.early, hist.taken)
    /\ UNCHANGED <<now, cmds>>

\* The complete expression holds when the server visits the task, on its timer or
\* at the end of a command.
CompleteByRule ==
    /\ ByRule /\ task.state = "queued" /\ timeDependenciesFree(attr, now)
    /\ \E inCmd \in BOOLEAN : Completes(task.flag, attr, inCmd, hist.early, hist.taken)
    /\ UNCHANGED <<now, cmds>>

\* The calendar moves on, frees attributes, and jobs are generated.
Tick ==
    \E by \in 1 .. (IF Late THEN 2 ELSE 1) :
    LET t == (now + by) % Day
        dayChanged == now + by >= Day
        at == [i \in Index |-> attrChanged(Attrs[i], attr[i], t, by, dayChanged)]
    IN /\ now' = t
       /\ attr' = at
       /\ task' \in Generation(task, at, t)
       /\ hist' = [hist EXCEPT
              !.slots = IF task'.state # "queued" THEN NoSlots
                        ELSE [k \in Kinds |-> @[k] \cup SlotsNow(k, at, t)],
              !.freed = IF task'.state # "queued" THEN {} ELSE @,
              !.early = IF dayChanged THEN {} ELSE @,
              !.overnight = task.state = "running" /\ (@ \/ dayChanged),
              !.from = IF dayChanged THEN 0 ELSE @, !.begun = FALSE]
       /\ UNCHANGED cmds

-----------------------------------------------------------------------------
(* Commands *)

Cmd(c) == c \in Cmds /\ cmds < MaxCmds /\ cmds' = cmds + 1 /\ UNCHANGED now

JobAborts ==
    /\ task.state = "running" /\ Cmd("abort")
    /\ task' = [task EXCEPT !.state = "aborted"]
    /\ hist' = Left(hist.early, hist.taken)
    /\ UNCHANGED attr

\* The slot is missed even if the task is running, and not run.
Run ==
    /\ Cmd("run")
    /\ attr' = miss(attr)
    /\ task' = [task EXCEPT !.state = "running", !.flag = TRUE]
    /\ hist' = [Left(Early, TRUE) EXCEPT !.overnight = hist.overnight]

\* Nothing but the slot changes if the task is complete.
ForceComplete ==
    /\ Cmd("complete")
    /\ \/ task.state # "complete" /\ Completes(TRUE, miss(attr), TRUE, Early, TRUE)
       \/ /\ task.state = "complete"
          /\ attr' = miss(attr)
          /\ task' = [task EXCEPT !.flag = TRUE]
          /\ hist' = Left(Early, TRUE)

FreeDep ==
    /\ Cmd("free")
    /\ attr' = freeHoldingTimeDependencies(attr, now)
    /\ hist' = [hist EXCEPT !.freed = IF task.state = "queued" THEN Kinds ELSE {}, !.early = Early]
    /\ UNCHANGED task

RequeueNode ==
    /\ task.state # "running" /\ Cmd("requeue")
    /\ attr' = do_requeue_time_attrs(attr, now, TRUE, TRUE)
    /\ task' = [state |-> "queued", flag |-> FALSE, repeat |-> Repeats]
    /\ hist' = Enters(FALSE, {})

-----------------------------------------------------------------------------

\* The suite is begun at any time of the day.
Init ==
    /\ now \in 0 .. Day - 1
    /\ attr = [i \in Index |->
                  reset(Attrs[i], [free |-> FALSE, valid |-> TRUE, next |-> Attrs[i].start,
                                   requeued |-> None, elapsed |-> 0], now)]
    /\ task = [state |-> "queued", flag |-> FALSE, repeat |-> Repeats]
    /\ cmds = 0
    /\ hist = [slots |-> NoSlots, freed |-> {}, early |-> {}, taken |-> FALSE, from |-> now,
               timed |-> FALSE, overnight |-> FALSE, begun |-> TRUE]

Next ==
    \/ Tick \/ Generate \/ JobCompletes \/ CompleteByRule
    \/ JobAborts \/ Run \/ ForceComplete \/ FreeDep \/ RequeueNode

Spec == Init /\ [][Next]_vars

\* The server's timer fires, its job generation visits the task, jobs end.
Fairness == WF_vars(Tick) /\ WF_vars(JobCompletes)
LiveSpec == Spec /\ Fairness

-----------------------------------------------------------------------------
(* Properties *)

AttrState == [free : BOOLEAN, valid : BOOLEAN, next : Nat,
              requeued : 0 .. Day - 1 \cup {None}, elapsed : 0 .. Day]

\* Type invariant.
TypeOK ==
    /\ now \in 0 .. Day - 1 /\ cmds \in 0 .. MaxCmds
    /\ attr \in [Index -> AttrState]
    /\ task \in [state : {"queued", "running", "complete", "aborted"}, flag : BOOLEAN,
                 repeat : 0 .. Repeats]
    /\ hist \in [slots : [Kinds -> SUBSET (0 .. Day)], freed : SUBSET Kinds,
                 early : SUBSET (0 .. Day), taken : BOOLEAN, from : 0 .. Day,
                 timed : BOOLEAN, overnight : BOOLEAN, begun : BOOLEAN]

\* A queued task is released by its attributes only if, since it was queued, the
\* clock stood at a slot of every kind of attribute, or a user freed it: the
\* re-queue of a job that ends within the minute of its slot, after slots it
\* overran, or by a repeat, never runs a slot twice (TimeSeries::requeue).
OncePerSlot ==
    task.state = "queued" /\ timeDependenciesFree(attr, now) =>
        \A k \in Kinds : SlotsSince(k) # {} \/ k \in hist.freed

\* A slot that a user ran or completed early is not run again by the clock that
\* day (Node::miss_next_time_slot).  Freeing a dependency is not among the
\* commands of its run: it misses the slot without the flag that keeps it missed.
EarlyRunsReplaceSlots ==
    task.state = "queued" /\ timeDependenciesFree(attr, now) =>
        \A k \in Kinds : ~(SlotsSince(k) \subseteq hist.early) \/ k \in hist.freed

\* No other slot is lost: if it comes while the task is queued then the task is
\* released, whatever users and jobs did before.
NoSlotLost ==
    (task.state = "queued" /\ \A k \in Kinds : ~(hist.slots[k] \subseteq hist.early) \/ k \in hist.freed)
        => timeDependenciesFree(attr, now)

\* A task that is queued for a later slot has one: it does not hold up its family
\* until the next day (TimeSeries::checkForRequeue).
QueuedForASlot ==
    (task.state = "queued" /\ hist.timed /\ ~timeDependenciesFree(attr, now)) =>
        \E i \in Index : /\ attr[i].valid
                         /\ \E d \in 0 .. Day : /\ d > duration(Attrs[i], attr[i], now)
                                                /\ d >= attr[i].next /\ IsSlot(Attrs[i], d)

\* A job that was running at midnight is not queued for a later slot when it ends.
NoRequeueAfterMidnight ==
    [][hist.overnight /\ task.state = "running" /\ task'.state = "queued" => ~hist'.timed]_vars

\* A task with a cron runs again and again.
CronRuns == []<>(task.state = "running")

=============================================================================

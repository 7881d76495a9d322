------------------------------- MODULE Queue --------------------------------
(***************************************************************************)
(* The queue attribute: a work list of steps on a node, shared by jobs     *)
(* that take, complete and abort steps with the queue child command.  The  *)
(* jobs follow the script of the command's help text; replies can be lost, *)
(* in which case the client sends the same command again, and jobs can     *)
(* fail, be killed and be started again.                                   *)
(***************************************************************************)
EXTENDS Integers, FiniteSets

CONSTANTS
    Jobs,       \* jobs that share the queue
    N,          \* number of steps
    Events,     \* what may happen: "fail", "reset", "lost", "kill", "requeue"
    MaxEvents   \* bound: failures, losses, kills and re-queues together

ASSUME QueueAssumption ==
    /\ N \in Nat \ {0} /\ MaxEvents \in Nat
    /\ Events \subseteq {"fail", "reset", "lost", "kill", "requeue"}

VARIABLES
    state,   \* state_vec_: the state of each step
    index,   \* currentIndex_, counted from 1
    job,     \* each job: where its script is and the step it holds
    events,  \* events so far
    seen     \* history: the kinds of events, and "reset" once the index was reset

vars == <<state, index, job, events, seen>>

Steps == 1 .. N
None == 0
At(pc, s) == [pc |-> pc, step |-> s]

Happens(e) ==
    /\ e \subseteq Events /\ events < MaxEvents
    /\ events' = events + 1 /\ seen' = seen \cup e

\* The reply to a command of j arrives and the script goes on at next, or it is
\* lost and the client sends the command again.
Reply(j, next) ==
    LET command == {job[j].pc} \cap {"reset"} IN
    \/ /\ job' = [job EXCEPT ![j] = next]
       /\ seen' = seen \cup command /\ UNCHANGED events
    \/ Happens({"lost"} \cup command) /\ UNCHANGED job

-----------------------------------------------------------------------------
(* QueueAttr *)

\* Variant: the step is handed out but the index stays.
ActiveNoAdvance(j) ==
    /\ job[j].pc = "ask" /\ index \in Steps
    /\ state' = [state EXCEPT ![index] = "active"] /\ UNCHANGED index
    /\ Reply(j, At("work", index))

\* active: the step at the index, whatever its state.
Active(j) ==
    /\ job[j].pc = "ask" /\ index \in Steps
    /\ state' = [state EXCEPT ![index] = "active"]
    /\ index' = index + 1
    /\ Reply(j, At("work", index))

\* active beyond the last step returns <NULL>.
ActiveNull(j) ==
    /\ job[j].pc = "ask" /\ index \notin Steps
    /\ Reply(j, At("end", None))
    /\ UNCHANGED <<state, index>>

Complete(j) ==
    /\ job[j].pc = "work"
    /\ state' = [state EXCEPT ![job[j].step] = "complete"]
    /\ Reply(j, At("ask", None))
    /\ UNCHANGED index

\* A step fails: the trap of the script reports it and the job ends.
Fail(j) ==
    /\ job[j].pc = "work" /\ Happens({"fail"})
    /\ job' = [job EXCEPT ![j].pc = "trap"]
    /\ UNCHANGED <<state, index>>

\* Variant: the state of the step is not changed.
AbortedUnmarked(j) ==
    /\ job[j].pc = "trap"
    /\ Reply(j, At("gone", None))
    /\ UNCHANGED <<state, index>>

Aborted(j) ==
    /\ job[j].pc = "trap"
    /\ state' = [state EXCEPT ![job[j].step] = "aborted"]
    /\ Reply(j, At("gone", None))
    /\ UNCHANGED index

\* no_of_aborted: the empty string for none.
NoOfAborted(j) ==
    /\ job[j].pc = "end" /\ "reset" \in Events
    /\ Reply(j, At(IF \E s \in Steps : state[s] = "aborted" THEN "reset" ELSE "done", None))
    /\ UNCHANGED <<state, index>>

Waiting == {s \in Steps : state[s] \in {"queued", "aborted"}}

\* Variants: reset looks for queued steps only; it starts after the first step.
ResetQueuedOnly(j) ==
    LET w == {s \in Steps : state[s] = "queued"} IN
    /\ job[j].pc = "reset"
    /\ index' \in IF w = {} THEN {index} ELSE {i \in w : \A s \in w : i <= s}
    /\ Reply(j, At("ask", None)) /\ UNCHANGED state

ResetLate(j) ==
    /\ job[j].pc = "reset"
    /\ index' \in IF Waiting = {} THEN {index}
                  ELSE {i \in 2 .. N + 1 : i - 1 \in Waiting /\ \A s \in Waiting : i - 1 <= s}
    /\ Reply(j, At("ask", None)) /\ UNCHANGED state

\* reset_index_to_first_queued_or_aborted: the index stays if there is none.
Reset(j) ==
    /\ job[j].pc = "reset"
    /\ index' \in IF Waiting = {} THEN {index} ELSE {i \in Waiting : \A s \in Waiting : i <= s}
    /\ Reply(j, At("ask", None))
    /\ UNCHANGED state

\* Variant: the index stays.
RequeueStates ==
    /\ Happens({"requeue"})
    /\ state' = [s \in Steps |-> "queued"]
    /\ UNCHANGED <<index, job>>

\* The node with the queue is re-queued; jobs that use it by path go on.
Requeue ==
    /\ Happens({"requeue"})
    /\ state' = [s \in Steps |-> "queued"] /\ index' = 1
    /\ UNCHANGED job

-----------------------------------------------------------------------------
(* The jobs *)

\* A job dies without its trap.
Kill(j) ==
    /\ job[j].pc \notin {"gone", "done"} /\ Happens({"kill"})
    /\ job' = [job EXCEPT ![j] = At("gone", None)]
    /\ UNCHANGED <<state, index>>

\* Its task is submitted again: ECF_TRIES, or the user runs it.
Rerun(j) ==
    /\ job[j].pc = "gone"
    /\ job' = [job EXCEPT ![j] = At("ask", None)]
    /\ UNCHANGED <<state, index, events, seen>>

Init ==
    /\ state = [s \in Steps |-> "queued"] /\ index = 1
    /\ job = [j \in Jobs |-> At("ask", None)]
    /\ events = 0 /\ seen = {}

Script(j) ==
    \/ Active(j) \/ ActiveNull(j) \/ Complete(j) \/ Aborted(j)
    \/ NoOfAborted(j) \/ Reset(j) \/ Rerun(j)

Next ==
    \/ \E j \in Jobs : Script(j) \/ Fail(j) \/ Kill(j)
    \/ Requeue

Spec == Init /\ [][Next]_vars

\* Every job goes on: its process runs, and its task is submitted again.
FairSpec == Spec /\ \A j \in Jobs : WF_vars(Script(j))
-----------------------------------------------------------------------------
(* Properties *)

Holds(j, s) == job[j].step = s

\* The index has only moved forward; every command was answered once and every
\* job ended by itself.
Forward == "reset" \notin seen /\ "requeue" \notin seen
Reliable == "lost" \notin seen /\ "kill" \notin seen

\* The types of the variables; a job holds a step exactly while it works on it
\* or reports its failure.
TypeOK ==
    /\ state \in [Steps -> {"queued", "active", "complete", "aborted"}]
    /\ index \in 1 .. N + 1
    /\ job \in [Jobs -> [pc : {"ask", "work", "trap", "end", "reset", "done", "gone"},
                         step : Steps \cup {None}]]
    /\ \A j \in Jobs : job[j].step # None <=> job[j].pc \in {"work", "trap"}
    /\ events \in 0 .. MaxEvents

\* Until the index is reset or the node re-queued no step is given to two jobs,
\* although jobs fail and are started again and replies are lost.
OneJobPerStep ==
    Forward =>
        \A j, k \in Jobs : job[j].step # None /\ job[j].step = job[k].step => j = k

\* No step is skipped: the steps before the index have all been handed out, at
\* every moment between the resets of several jobs.
NoneSkipped == \A s \in Steps : s < index => state[s] # "queued"

\* Until a reply is lost or a job is killed, a step that is active is in the
\* hands of a job, although two jobs may hold the same step after a reset and
\* report on it in any order.
ActiveIsHeld ==
    Reliable =>
        \A s \in Steps : state[s] = "active" => \E j \in Jobs : Holds(j, s)

\* What a job that is told <NULL> leaves behind: no step that nobody works on
\* and that was neither completed nor aborted.
NullIsTrue(j) ==
    ActiveNull(j) =>
        \A s \in Steps : state[s] \in {"complete", "aborted"} \/ \E k \in Jobs : Holds(k, s)

\* "Return <NULL> when all steps processed", until a reply is lost or a job is
\* killed, with the resets of several jobs and re-queues in between.
NullMeansProcessed == [][Reliable => \A j \in Jobs : NullIsTrue(j)]_vars

\* The same whatever happens to replies and jobs.
NullMeansProcessedAlways == [][\A j \in Jobs : NullIsTrue(j)]_vars

\* active returns "the first queued/aborted step": a step that another job is
\* working on, or that is complete, is not handed out.
WaitsForJob(j) == Active(j) => state[index] \in {"queued", "aborted"}

\* So it is until the index is reset or the node re-queued.
HandsOutWaiting == [][Forward => \A j \in Jobs : WaitsForJob(j)]_vars

\* The same with resets and re-queues.
HandsOutWaitingAlways == [][\A j \in Jobs : WaitsForJob(j)]_vars

\* If nothing worse happens than failing steps, every step is complete in the
\* end, in whatever order the jobs fail, are started again, look for aborted
\* steps and reset the index while others work.
AllComplete ==
    [](seen \subseteq {"fail", "reset"}) => <>[](\A s \in Steps : state[s] = "complete")
=============================================================================

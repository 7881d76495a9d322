---------------------------- MODULE QueueProofs -----------------------------
(***************************************************************************)
(* Proofs about Queue, for any number of steps, jobs and events.           *)
(***************************************************************************)
EXTENDS Queue, TLAPS

\* What a command of job j and its reply do to the jobs.
LEMMA ReplyCases ==
    ASSUME NEW j \in Jobs, NEW STATE next, Reply(j, next)
    PROVE  job' = [job EXCEPT ![j] = next] \/ (job' = job /\ "lost" \in seen')
BY DEF Reply, Happens

\* The history only grows, and a reset is noted.
LEMMA ReplySeen ==
    ASSUME NEW j \in Jobs, NEW STATE next, Reply(j, next)
    PROVE  seen \subseteq seen' /\ (job[j].pc = "reset" => "reset" \in seen')
BY DEF Reply, Happens

LEMMA SeenGrows == [Next]_vars => seen \subseteq seen'
<1> SUFFICES ASSUME [Next]_vars PROVE seen \subseteq seen'
    OBVIOUS
<1>1. ASSUME NEW j \in Jobs, Script(j) PROVE seen \subseteq seen'
    BY <1>1, ReplySeen DEF Script, Active, ActiveNull, Complete, Aborted, NoOfAborted, Reset, Rerun
<1>2. ASSUME NEW j \in Jobs, Fail(j) \/ Kill(j) PROVE seen \subseteq seen'
    BY <1>2 DEF Fail, Kill, Happens
<1>3. CASE Requeue
    BY <1>3 DEF Requeue, Happens
<1>4. CASE UNCHANGED vars
    BY <1>4 DEF vars
<1> QED BY <1>1, <1>2, <1>3, <1>4 DEF Next

LEMMA ReplyEvents ==
    ASSUME NEW j \in Jobs, NEW STATE next, Reply(j, next), TypeOK
    PROVE  events' \in 0 .. MaxEvents
BY QueueAssumption DEF Reply, Happens, TypeOK

\* The first waiting step is a step.
LEMMA WaitingSteps == Waiting \subseteq Steps
BY DEF Waiting

LEMMA TypeStep == TypeOK /\ [Next]_vars => TypeOK'
<1> SUFFICES ASSUME TypeOK, [Next]_vars PROVE TypeOK'
    OBVIOUS
<1> USE QueueAssumption
<1>1. ASSUME NEW j \in Jobs, Active(j) PROVE TypeOK'
    <2>1. events' \in 0 .. MaxEvents
        BY <1>1, ReplyEvents DEF Active
    <2>2. state' \in [Steps -> {"queued", "active", "complete", "aborted"}] /\ index' \in 1 .. N + 1
        BY <1>1 DEF Active, TypeOK, Steps
    <2>3. job' = [job EXCEPT ![j] = At("work", index)] \/ job' = job
        BY <1>1, ReplyCases DEF Active
    <2>4. index \in Steps /\ index # None
        BY <1>1 DEF Active, Steps, None
    <2> QED BY <2>1, <2>2, <2>3, <2>4 DEF TypeOK, At
<1>2. ASSUME NEW j \in Jobs, ActiveNull(j) PROVE TypeOK'
    <2>1. events' \in 0 .. MaxEvents
        BY <1>2, ReplyEvents DEF ActiveNull
    <2>2. job' = [job EXCEPT ![j] = At("end", None)] \/ job' = job
        BY <1>2, ReplyCases DEF ActiveNull
    <2> QED BY <1>2, <2>1, <2>2 DEF TypeOK, At, ActiveNull
<1>3. ASSUME NEW j \in Jobs, Complete(j) PROVE TypeOK'
    <2>1. events' \in 0 .. MaxEvents
        BY <1>3, ReplyEvents DEF Complete
    <2>2. job' = [job EXCEPT ![j] = At("ask", None)] \/ job' = job
        BY <1>3, ReplyCases DEF Complete
    <2> QED BY <1>3, <2>1, <2>2 DEF TypeOK, At, Complete
<1>4. ASSUME NEW j \in Jobs, Aborted(j) PROVE TypeOK'
    <2>1. events' \in 0 .. MaxEvents
        BY <1>4, ReplyEvents DEF Aborted
    <2>2. job' = [job EXCEPT ![j] = At("gone", None)] \/ job' = job
        BY <1>4, ReplyCases DEF Aborted
    <2> QED BY <1>4, <2>1, <2>2 DEF TypeOK, At, Aborted
<1>5. ASSUME NEW j \in Jobs, NoOfAborted(j) PROVE TypeOK'
    <2>1. events' \in 0 .. MaxEvents
        BY <1>5, ReplyEvents DEF NoOfAborted
    <2>2. \E pc \in {"reset", "done"} : job' = [job EXCEPT ![j] = At(pc, None)] \/ job' = job
        BY <1>5, ReplyCases DEF NoOfAborted
    <2> QED BY <1>5, <2>1, <2>2 DEF TypeOK, At, NoOfAborted
<1>6. ASSUME NEW j \in Jobs, Reset(j) PROVE TypeOK'
    <2>1. events' \in 0 .. MaxEvents
        BY <1>6, ReplyEvents DEF Reset
    <2>2. job' = [job EXCEPT ![j] = At("ask", None)] \/ job' = job
        BY <1>6, ReplyCases DEF Reset
    <2>3. index' \in 1 .. N + 1
        BY <1>6, WaitingSteps DEF Reset, TypeOK, Steps
    <2> QED BY <1>6, <2>1, <2>2, <2>3 DEF TypeOK, At, Reset
<1>7. ASSUME NEW j \in Jobs, Rerun(j) PROVE TypeOK'
    BY <1>7 DEF TypeOK, At, Rerun
<1>8. ASSUME NEW j \in Jobs, Fail(j) PROVE TypeOK'
    BY <1>8 DEF TypeOK, Fail, Happens
<1>9. ASSUME NEW j \in Jobs, Kill(j) PROVE TypeOK'
    BY <1>9 DEF TypeOK, At, Kill, Happens
<1>10. CASE Requeue
    BY <1>10 DEF TypeOK, Requeue, Happens, Steps
<1>11. CASE UNCHANGED vars
    BY <1>11 DEF TypeOK, vars
<1> QED BY <1>1, <1>2, <1>3, <1>4, <1>5, <1>6, <1>7, <1>8, <1>9, <1>10, <1>11 DEF Next, Script

LEMMA TypeInit == Init => TypeOK
BY QueueAssumption DEF Init, TypeOK, At, Steps, None

\* The variables keep their types for any number of steps, jobs and events: the
\* index of QueueAttr never leaves the queue by more than one.
THEOREM TypeCorrect == Spec => []TypeOK
BY TypeInit, TypeStep, PTL DEF Spec

-----------------------------------------------------------------------------
(* No step is skipped, whatever happens. *)

LEMMA SkippedStep == TypeOK /\ NoneSkipped /\ [Next]_vars => NoneSkipped'
<1> SUFFICES ASSUME TypeOK, NoneSkipped, [Next]_vars PROVE NoneSkipped'
    OBVIOUS
<1> USE QueueAssumption
<1>1. ASSUME NEW j \in Jobs, Active(j) PROVE NoneSkipped'
    BY <1>1 DEF Active, NoneSkipped, TypeOK, Steps
<1>2. ASSUME NEW j \in Jobs, Complete(j) PROVE NoneSkipped'
    BY <1>2 DEF Complete, NoneSkipped, TypeOK
<1>3. ASSUME NEW j \in Jobs, Aborted(j) PROVE NoneSkipped'
    BY <1>3 DEF Aborted, NoneSkipped, TypeOK
<1>4. ASSUME NEW j \in Jobs, Reset(j) PROVE NoneSkipped'
    <2>1. CASE Waiting = {}
        BY <1>4, <2>1 DEF Reset, NoneSkipped
    <2>2. CASE Waiting # {}
        <3> SUFFICES ASSUME NEW s \in Steps, s < index' PROVE state'[s] # "queued"
            BY DEF NoneSkipped
        <3>1. index' \in Waiting /\ (\A w \in Waiting : index' <= w) /\ state' = state
            BY <1>4, <2>2 DEF Reset
        <3>2. s \notin Waiting
            BY <3>1 DEF Waiting, Steps
        <3> QED BY <3>1, <3>2 DEF Waiting
    <2> QED BY <2>1, <2>2
<1>5. CASE Requeue
    BY <1>5 DEF Requeue, NoneSkipped, Steps
<1>6. ASSUME state' = state, index' = index PROVE NoneSkipped'
    BY <1>6 DEF NoneSkipped
<1>7. ASSUME NEW j \in Jobs,
             ActiveNull(j) \/ NoOfAborted(j) \/ Rerun(j) \/ Fail(j) \/ Kill(j)
      PROVE  NoneSkipped'
    BY <1>6, <1>7 DEF ActiveNull, NoOfAborted, Rerun, Fail, Kill
<1>8. CASE UNCHANGED vars
    BY <1>6, <1>8 DEF vars
<1> QED BY <1>1, <1>2, <1>3, <1>4, <1>5, <1>7, <1>8 DEF Next, Script

\* The steps before the index have all been handed out, for any number of jobs
\* that reset the index, fail, are killed and lose replies, and of re-queues.
THEOREM NeverSkips == Spec => []NoneSkipped
<1>1. Init => NoneSkipped
    BY DEF Init, NoneSkipped, Steps
<1> QED BY <1>1, SkippedStep, TypeCorrect, PTL DEF Spec

-----------------------------------------------------------------------------
(* Until the first reset or re-queue the index is the frontier. *)

\* The steps from the index on are queued and nobody holds them.
Frontier ==
    \A s \in Steps : s >= index => state[s] = "queued" /\ \A j \in Jobs : ~Holds(j, s)

FInv == Forward => Frontier /\ OneJobPerStep

LEMMA ForwardStep == TypeOK /\ FInv /\ [Next]_vars => FInv'
<1> SUFFICES ASSUME TypeOK, FInv, [Next]_vars, Forward' PROVE Frontier' /\ OneJobPerStep'
    BY DEF FInv
<1> USE QueueAssumption
<1> DEFINE Goal == Frontier' /\ OneJobPerStep'
<1>0. Forward /\ Frontier /\ OneJobPerStep
    BY SeenGrows DEF FInv, Forward
<1>1. ASSUME NEW j \in Jobs, Active(j) PROVE Goal
    <2>1. CASE job' = [job EXCEPT ![j] = At("work", index)]
        BY <1>0, <1>1, <2>1 DEF Active, Frontier, OneJobPerStep, Holds, TypeOK, Steps, At
    <2>2. CASE job' = job
        BY <1>0, <1>1, <2>2 DEF Active, Frontier, OneJobPerStep, Holds, TypeOK, Steps
    <2> QED BY <1>1, <2>1, <2>2, ReplyCases DEF Active
<1>2. ASSUME NEW j \in Jobs, NEW pc,
             job' = [job EXCEPT ![j] = At(pc, None)] \/ job' = job, index' = index,
             \A s \in Steps : s >= index => state'[s] = state[s]
      PROVE  Goal
    BY <1>0, <1>2 DEF Frontier, OneJobPerStep, Holds, TypeOK, Steps, At, None
<1>3. ASSUME NEW j \in Jobs, ActiveNull(j) PROVE Goal
    BY <1>2, <1>3, ReplyCases DEF ActiveNull
<1>4. ASSUME NEW j \in Jobs, Complete(j) PROVE Goal
    <2>1. \A s \in Steps : s >= index => state'[s] = state[s]
        BY <1>0, <1>4 DEF Complete, Frontier, Holds, TypeOK
    <2> QED BY <1>2, <1>4, <2>1, ReplyCases DEF Complete
<1>5. ASSUME NEW j \in Jobs, Aborted(j) PROVE Goal
    <2>1. \A s \in Steps : s >= index => state'[s] = state[s]
        BY <1>0, <1>5 DEF Aborted, Frontier, Holds, TypeOK
    <2> QED BY <1>2, <1>5, <2>1, ReplyCases DEF Aborted
<1>6. ASSUME NEW j \in Jobs, NoOfAborted(j) PROVE Goal
    BY <1>2, <1>6, ReplyCases DEF NoOfAborted
<1>7. ASSUME NEW j \in Jobs, Reset(j) PROVE FALSE
    BY <1>7, ReplySeen DEF Reset, Forward
<1>8. ASSUME NEW j \in Jobs, Rerun(j) PROVE Goal
    BY <1>2, <1>8 DEF Rerun
<1>9. ASSUME NEW j \in Jobs, Fail(j) PROVE Goal
    BY <1>0, <1>9 DEF Fail, Frontier, OneJobPerStep, Holds, TypeOK
<1>10. ASSUME NEW j \in Jobs, Kill(j) PROVE Goal
    BY <1>2, <1>10 DEF Kill
<1>11. CASE Requeue
    BY <1>11 DEF Requeue, Happens, Forward
<1>12. CASE UNCHANGED vars
    BY <1>0, <1>12 DEF vars, Frontier, OneJobPerStep, Holds, Forward
<1> QED BY <1>1, <1>3, <1>4, <1>5, <1>6, <1>7, <1>8, <1>9, <1>10, <1>11, <1>12 DEF Next, Script

LEMMA ForwardInit == Init => FInv
BY DEF Init, FInv, Frontier, OneJobPerStep, Holds, At, Steps, None

LEMMA ForwardAlways == Spec => []FInv
BY ForwardInit, ForwardStep, TypeCorrect, PTL DEF Spec

\* Until somebody resets the index or re-queues the node, no step is in the
\* hands of two jobs, whatever jobs fail, are killed or lose replies.
THEOREM NeverTwoJobs == Spec => []OneJobPerStep
<1>1. FInv => OneJobPerStep
    BY DEF FInv, OneJobPerStep
<1> QED BY <1>1, ForwardAlways, PTL

\* Nor does active hand out a step that is not waiting (queue_reset shows that
\* it does once a job resets the index).
THEOREM AlwaysHandsOutWaiting == Spec => HandsOutWaiting
<1>1. FInv /\ TypeOK => (Forward => \A j \in Jobs : WaitsForJob(j))
    BY DEF FInv, Frontier, WaitsForJob, Active, TypeOK, Steps
<1> QED BY <1>1, ForwardAlways, TypeCorrect, PTL DEF HandsOutWaiting

-----------------------------------------------------------------------------
(* Until a reply is lost or a job is killed, <NULL> means processed. *)

LEMMA HeldStep == TypeOK /\ ActiveIsHeld /\ [Next]_vars => ActiveIsHeld'
<1> DEFINE Held == \A s \in Steps : state[s] = "active" => \E j \in Jobs : Holds(j, s)
<1> SUFFICES ASSUME TypeOK, ActiveIsHeld, [Next]_vars, Reliable' PROVE Held'
    BY DEF ActiveIsHeld
<1> USE QueueAssumption
<1>0. Held /\ "lost" \notin seen' /\ "kill" \notin seen'
    BY SeenGrows DEF ActiveIsHeld, Reliable
<1>1. ASSUME NEW j \in Jobs, Active(j) PROVE Held'
    <2>1. job' = [job EXCEPT ![j] = At("work", index)] /\ job[j].step = None
        BY <1>0, <1>1, ReplyCases DEF Active, TypeOK
    <2> QED BY <1>0, <1>1, <2>1 DEF Active, Holds, TypeOK, Steps, At, None
<1>2. ASSUME NEW j \in Jobs, NEW pc, job' = [job EXCEPT ![j] = At(pc, None)],
             \A s \in Steps : s = job[j].step => state'[s] # "active",
             \A s \in Steps : s # job[j].step => state'[s] = state[s]
      PROVE  Held'
    BY <1>0, <1>2 DEF Holds, TypeOK, At
<1>3. ASSUME NEW j \in Jobs, Complete(j) PROVE Held'
    BY <1>0, <1>2, <1>3, ReplyCases DEF Complete, TypeOK
<1>4. ASSUME NEW j \in Jobs, Aborted(j) PROVE Held'
    BY <1>0, <1>2, <1>4, ReplyCases DEF Aborted, TypeOK
<1>5. ASSUME NEW j \in Jobs, NEW pc, job' = [job EXCEPT ![j] = At(pc, None)],
             job[j].step = None, state' = state
      PROVE  Held'
    BY <1>0, <1>5 DEF Holds, TypeOK, At, Steps, None
<1>6. ASSUME NEW j \in Jobs, ActiveNull(j) PROVE Held'
    BY <1>0, <1>5, <1>6, ReplyCases DEF ActiveNull, TypeOK
<1>7. ASSUME NEW j \in Jobs, NoOfAborted(j) PROVE Held'
    <2>1. \E pc \in {"reset", "done"} : job' = [job EXCEPT ![j] = At(pc, None)]
        BY <1>0, <1>7, ReplyCases DEF NoOfAborted
    <2> QED BY <1>5, <1>7, <2>1 DEF NoOfAborted, TypeOK
<1>8. ASSUME NEW j \in Jobs, Reset(j) PROVE Held'
    BY <1>0, <1>5, <1>8, ReplyCases DEF Reset, TypeOK
<1>9. ASSUME NEW j \in Jobs, Rerun(j) PROVE Held'
    BY <1>5, <1>9 DEF Rerun, TypeOK
<1>10. ASSUME NEW j \in Jobs, Fail(j) PROVE Held'
    BY <1>0, <1>10 DEF Fail, Holds, TypeOK
<1>11. ASSUME NEW j \in Jobs, Kill(j) PROVE FALSE
    BY <1>0, <1>11 DEF Kill, Happens
<1>12. CASE Requeue
    BY <1>12 DEF Requeue
<1>13. CASE UNCHANGED vars
    BY <1>0, <1>13 DEF vars, Holds
<1> QED BY <1>1, <1>3, <1>4, <1>6, <1>7, <1>8, <1>9, <1>10, <1>11, <1>12, <1>13 DEF Next, Script

\* Until a reply is lost or a job is killed a step that is active is in the
\* hands of a job, with any number of resets and re-queues.
THEOREM AlwaysHeld == Spec => []ActiveIsHeld
<1>1. Init => ActiveIsHeld
    BY DEF Init, ActiveIsHeld
<1> QED BY <1>1, HeldStep, TypeCorrect, PTL DEF Spec

\* Until then whoever is told <NULL> leaves no step behind that nobody works on
\* (queue_lost shows that one lost reply is enough to break this).
THEOREM NullAlwaysMeansProcessed == Spec => NullMeansProcessed
<1>1. TypeOK /\ NoneSkipped /\ ActiveIsHeld => (Reliable => \A j \in Jobs : NullIsTrue(j))
    <2> SUFFICES ASSUME TypeOK, NoneSkipped, ActiveIsHeld, Reliable,
                        NEW j \in Jobs, ActiveNull(j), NEW s \in Steps
                 PROVE  state[s] \in {"complete", "aborted"} \/ \E k \in Jobs : Holds(k, s)
        BY DEF NullIsTrue
    <2>1. s < index
        BY QueueAssumption DEF ActiveNull, TypeOK, Steps
    <2>2. state[s] \in {"active", "complete", "aborted"}
        BY <2>1 DEF NoneSkipped, TypeOK
    <2> QED BY <2>2 DEF ActiveIsHeld
<1> QED BY <1>1, TypeCorrect, NeverSkips, AlwaysHeld, PTL DEF NullMeansProcessed
=============================================================================

--------------------------- MODULE TaskJobsProofs ---------------------------
(***************************************************************************)
(* Proofs about TaskJobs, for every number of submissions, processes and   *)
(* commands: type correctness and that a task has at most one zombie       *)
(* entry, proved together, as the look-ups of ZombieCtrl take the first    *)
(* entry that matches, which is easily seen to exist when the list has at  *)
(* most one; that a submission ends once and is served by one process; that*)
(* commands sent again make no zombie of a job that has to end; and that a *)
(* forced abort holds.                                                     *)
(***************************************************************************)
EXTENDS TaskJobs, SequenceTheorems, TLAPS

TaskT(w, n) == [state: States, pass: 0..w, rid: 0..n, tryNo: Nat, flags: SUBSET Flags]
EntryT(w, n) == [pass: 0..w, rid: 0..n, action: Actions \cup {"none"}]
ZombiesT(w, n) == {zs \in Seq(EntryT(w, n)) : Len(zs) <= 1}
ProcT(w) == [pass: 1..w, next: ProcStates]
HistT(n) == [own: [1..MaxPasses -> SUBSET (1..n)], ends: [1..MaxPasses -> Nat],
             quiet: BOOLEAN, forced: {"no", "force", "force recursive"}]

IInv == TypeOK /\ AtMostOneZombie

-----------------------------------------------------------------------------
(***************************************************************************)
(* The zombie list.                                                        *)
(***************************************************************************)
LEMMA MinOfUnit ==
    ASSUME NEW n \in 0..1, NEW I \in SUBSET (1..n), I # {}
    PROVE  Min(I) = 1 /\ n = 1
<1>1. \A i \in I : i = 1 /\ n = 1
  OBVIOUS
<1>2. I = {1} /\ n = 1
  BY <1>1
<1>3. Min({1}) \in {1}
  BY DEF Min
<1> QED  BY <1>2, <1>3

LEMMA ShortList ==
    ASSUME NEW w \in Nat, NEW n \in Nat, NEW zs \in ZombiesT(w, n)
    PROVE  zs \in Seq(EntryT(w, n)) /\ Len(zs) \in 0..1
<1>1. zs \in Seq(EntryT(w, n)) /\ Len(zs) <= 1
  BY DEF ZombiesT
<1>2. Len(zs) \in Nat
  BY <1>1, LenProperties
<1>3. \A x \in Nat : x <= 1 => x \in 0..1
  OBVIOUS
<1>4. Len(zs) \in 0..1
  BY <1>1, <1>2, <1>3, Zenon
<1> QED  BY <1>1, <1>4

LEMMA FindType ==
    ASSUME NEW w \in Nat, NEW n \in Nat, NEW zs \in ZombiesT(w, n), NEW rid, NEW pass
    PROVE  /\ FindMatch(zs, rid, pass) \in 0..Len(zs)
           /\ FindZombie(zs, rid, pass) \in 0..Len(zs)
           /\ FindZombie(zs, rid, pass) = 0 <=> zs = <<>>
           /\ Len(zs) \in 0..1
<1> DEFINE I == {i \in 1..Len(zs) : Match(zs[i], rid, pass)}
<1>1. Len(zs) \in 0..1
  BY ShortList
<1>2. FindMatch(zs, rid, pass) = IF I # {} THEN Min(I) ELSE 0
  BY DEF FindMatch, SelectInSeq
<1>3. I \in SUBSET (1..Len(zs))
  OBVIOUS
<1> HIDE DEF I
<1>4. FindMatch(zs, rid, pass) \in 0..Len(zs)
  <2>1. CASE I = {}
    BY <1>1, <1>2, <2>1
  <2>2. CASE I # {}
    <3>1. Min(I) = 1 /\ Len(zs) = 1
      BY <1>1, <1>3, <2>2, MinOfUnit
    <3> QED  BY <1>2, <2>2, <3>1
  <2> QED  BY <2>1, <2>2
<1>5. zs = <<>> <=> Len(zs) = 0
  BY EmptySeq DEF ZombiesT
<1> QED  BY <1>1, <1>4, <1>5 DEF FindZombie

LEMMA WithoutType ==
    ASSUME NEW w \in Nat, NEW n \in Nat, NEW zs \in ZombiesT(w, n), NEW k \in 0..Len(zs)
    PROVE  Without(zs, k) \in ZombiesT(w, n)
<1>1. CASE k = 0
  BY <1>1 DEF Without
<1>2. CASE k # 0
  <2>0. \A x \in 0..1 : \A i \in 0..x : i # 0 => x = 1 /\ i = 1
    OBVIOUS
  <2>1. Len(zs) = 1 /\ k = 1
    BY <1>2, <2>0, ShortList, Zenon
  <2>2. SubSeq(zs, 1, 0) = <<>> /\ SubSeq(zs, 2, 1) = <<>>
    BY SubSeqEmpty
  <2>3. Without(zs, k) = <<>> \o <<>>
    BY <2>1, <2>2 DEF Without, RemoveAt
  <2>4. <<>> \in Seq(EntryT(w, n)) /\ Len(<<>>) = 0
    BY EmptySeq
  <2>5. <<>> \o <<>> = <<>>
    BY <2>4, ConcatEmptySeq
  <2> QED  BY <2>3, <2>4, <2>5 DEF ZombiesT
<1> QED  BY <1>1, <1>2

LEMMA RemoveType ==
    ASSUME NEW w \in Nat, NEW n \in Nat, NEW zs \in ZombiesT(w, n), NEW rid, NEW pass
    PROVE  /\ RemoveMatch(zs, rid, pass) \in ZombiesT(w, n)
           /\ RemoveFound(zs, rid, pass) \in ZombiesT(w, n)
BY FindType, WithoutType DEF RemoveMatch, RemoveFound

LEMMA AppendFirst ==
    ASSUME NEW w \in Nat, NEW n \in Nat, NEW z \in EntryT(w, n)
    PROVE  Append(<<>>, z) \in ZombiesT(w, n)
BY EmptySeq DEF ZombiesT

LEMMA ReplaceType ==
    ASSUME NEW w \in Nat, NEW n \in Nat, NEW zs \in ZombiesT(w, n),
           NEW k \in 1..Len(zs), NEW z \in EntryT(w, n)
    PROVE  [zs EXCEPT ![k] = z] \in ZombiesT(w, n)
BY ExceptSeq DEF ZombiesT

-----------------------------------------------------------------------------
(***************************************************************************)
(* The task.                                                               *)
(***************************************************************************)
LEMMA SetStateType ==
    ASSUME NEW w \in Nat, NEW n \in Nat, NEW tk \in TaskT(w, n), NEW s \in States,
           NEW f \in BOOLEAN
    PROVE  /\ SetStateOnly(tk, s, f) \in TaskT(w, n)
           /\ SetState(tk, s) \in TaskT(w, n)
<1>1. ASSUME NEW g \in BOOLEAN  PROVE SetStateOnly(tk, s, g) \in TaskT(w, n)
  BY DEF SetStateOnly, TaskT, Flags
<1> QED  BY <1>1 DEF SetState

LEMMA FlagType ==
    ASSUME NEW w \in Nat, NEW n \in Nat, NEW tk \in TaskT(w, n), NEW F \in SUBSET Flags
    PROVE  /\ [tk EXCEPT !.flags = @ \cup F] \in TaskT(w, n)
           /\ [tk EXCEPT !.flags = @ \ F] \in TaskT(w, n)
BY DEF TaskT

LEMMA RequeuedType ==
    ASSUME NEW w \in Nat, NEW n \in Nat, NEW tk \in TaskT(w, n), NEW loop
    PROVE  /\ Requeued(tk) \in TaskT(w, n)
           /\ AfterStateChange(tk, loop) \in TaskT(w, n)
<1>1. Requeued(tk) \in TaskT(w, n)
  BY DEF Requeued, TaskT, States
<1> QED  BY <1>1 DEF AfterStateChange

LEMMA KillType ==
    ASSUME NEW w \in Nat, NEW n \in Nat, NEW tk \in TaskT(w, n), NEW rid \in 0..n
    PROVE  /\ KillFlags(tk, rid) \in TaskT(w, n)
           /\ KillTarget(tk, rid) \in SUBSET (1..n)
<1>1. KillFlags(tk, rid) \in TaskT(w, n)
  BY FlagType DEF KillFlags, Flags
<1>2. tk.rid \in 0..n
  BY DEF TaskT
<1>3. KillTarget(tk, rid) \in SUBSET (1..n)
  BY <1>2 DEF KillTarget
<1> QED  BY <1>1, <1>3

LEMMA AppliedType ==
    ASSUME NEW w \in Nat, NEW n \in Nat, NEW tk \in TaskT(w, n), NEW p \in 1..n,
           NEW c, NEW loop
    PROVE  Applied(p, c, tk, loop) \in TaskT(w, n)
<1>1. "ACTIVE" \in States /\ "COMPLETE" \in States /\ "ABORTED" \in States
  BY DEF States
<1>2. /\ SetState(tk, "ACTIVE") \in TaskT(w, n)
      /\ SetState(tk, "ABORTED") \in TaskT(w, n)
      /\ AfterStateChange(SetState(tk, "COMPLETE"), loop) \in TaskT(w, n)
  BY <1>1, SetStateType, RequeuedType
<1>3. ASSUME NEW t \in TaskT(w, n)
      PROVE  /\ [t EXCEPT !.rid = p] \in TaskT(w, n)
             /\ [t EXCEPT !.flags = @ \ {"ZOMBIE"}, !.pass = 0, !.rid = 0] \in TaskT(w, n)
  <2>1. p \in 0..n /\ 0 \in 0..n /\ 0 \in 0..w
    OBVIOUS
  <2>2. [t EXCEPT !.rid = p] \in TaskT(w, n)
    BY <2>1 DEF TaskT
  <2>3. [t EXCEPT !.flags = @ \ {"ZOMBIE"}, !.pass = 0, !.rid = 0] \in TaskT(w, n)
    BY <2>1 DEF TaskT
  <2> QED  BY <2>2, <2>3
<1>4. CASE c = "INIT"
  BY <1>2, <1>3, <1>4 DEF Applied
<1>5. CASE c = "COMPLETE"
  BY <1>2, <1>3, <1>5 DEF Applied
<1>6. CASE c = "ABORT"
  BY <1>2, <1>6 DEF Applied
<1>7. CASE c \notin {"INIT", "COMPLETE", "ABORT"}
  BY <1>7 DEF Applied
<1> QED  BY <1>4, <1>5, <1>6, <1>7

LEMMA Grow ==
    ASSUME NEW w \in Nat, NEW n \in Nat, NEW v \in Nat, NEW m \in Nat, w <= v, n <= m
    PROVE  /\ TaskT(w, n) \subseteq TaskT(v, m)
           /\ ZombiesT(w, n) \subseteq ZombiesT(v, m)
           /\ Seq(ProcT(w)) \subseteq Seq(ProcT(v))
           /\ HistT(n) \subseteq HistT(m)
<1>1. 0..w \subseteq 0..v /\ 0..n \subseteq 0..m /\ 1..w \subseteq 1..v /\ 1..n \subseteq 1..m
  OBVIOUS
<1>2. TaskT(w, n) \subseteq TaskT(v, m)
  BY <1>1 DEF TaskT
<1>3. EntryT(w, n) \subseteq EntryT(v, m) /\ ProcT(w) \subseteq ProcT(v)
  BY <1>1 DEF EntryT, ProcT
<1>4. ZombiesT(w, n) \subseteq ZombiesT(v, m)
  BY <1>3, SeqMonotonic DEF ZombiesT
<1>5. Seq(ProcT(w)) \subseteq Seq(ProcT(v))
  BY <1>3, SeqMonotonic
<1>6. HistT(n) \subseteq HistT(m)
  BY <1>1 DEF HistT
<1> QED  BY <1>2, <1>4, <1>5, <1>6

-----------------------------------------------------------------------------
(***************************************************************************)
(* The invariant, with the bounds that the types depend on made explicit.  *)
(***************************************************************************)
LEMMA Unfold ==
    ASSUME IInv
    PROVE  /\ task \in TaskT(passes, Len(procs))
           /\ zombies \in ZombiesT(passes, Len(procs))
           /\ procs \in Seq(ProcT(passes))
           /\ signals \in SUBSET (1..Len(procs))
           /\ passes \in Nat /\ jobcmds \in Nat /\ cmds \in Nat
           /\ generating \in BOOLEAN
           /\ hist \in HistT(Len(procs))
           /\ Len(procs) \in Nat
<1>1. procs \in Seq(ProcT(passes))
  BY DEF IInv, TypeOK, ProcT
<1>2. Len(procs) \in Nat
  BY <1>1, LenProperties
<1> QED
  BY <1>1, <1>2 DEF IInv, TypeOK, AtMostOneZombie, TaskT, EntryT, ZombiesT, HistT, Procs

LEMMA Fold ==
    ASSUME /\ task \in TaskT(passes, Len(procs))
           /\ zombies \in ZombiesT(passes, Len(procs))
           /\ procs \in Seq(ProcT(passes))
           /\ signals \in SUBSET (1..Len(procs))
           /\ passes \in Nat /\ jobcmds \in Nat /\ cmds \in Nat
           /\ generating \in BOOLEAN
           /\ hist \in HistT(Len(procs))
    PROVE  IInv
BY DEF IInv, TypeOK, AtMostOneZombie, TaskT, EntryT, ZombiesT, ProcT, HistT, Procs

LEMMA InitInv == Init => IInv
<1> SUFFICES ASSUME Init PROVE IInv
  OBVIOUS
<1> USE JobsAssumption
<1>1. Len(procs) = 0 /\ procs \in Seq(ProcT(passes))
  BY EmptySeq DEF Init
<1>2. zombies \in ZombiesT(passes, Len(procs))
  BY EmptySeq DEF Init, ZombiesT
<1>3. task \in TaskT(passes, Len(procs))
  BY <1>1 DEF Init, TaskT, States
<1>4. hist \in HistT(Len(procs))
  BY <1>1 DEF Init, HistT
<1> QED  BY <1>1, <1>2, <1>3, <1>4, Fold DEF Init

LEMMA FoldNext ==
    ASSUME /\ task' \in TaskT(passes', Len(procs'))
           /\ zombies' \in ZombiesT(passes', Len(procs'))
           /\ procs' \in Seq(ProcT(passes'))
           /\ signals' \in SUBSET (1..Len(procs'))
           /\ passes' \in Nat /\ jobcmds' \in Nat /\ cmds' \in Nat
           /\ generating' \in BOOLEAN
           /\ hist' \in HistT(Len(procs'))
    PROVE  IInv'
BY DEF IInv, TypeOK, AtMostOneZombie, TaskT, EntryT, ZombiesT, ProcT, HistT, Procs

\* The steps that start no process and generate no password.
LEMMA FoldSame ==
    ASSUME IInv,
           /\ task' \in TaskT(passes, Len(procs))
           /\ zombies' \in ZombiesT(passes, Len(procs))
           /\ procs' \in Seq(ProcT(passes)) /\ Len(procs') = Len(procs)
           /\ signals' \in SUBSET (1..Len(procs))
           /\ passes' = passes
           /\ jobcmds' \in Nat /\ cmds' \in Nat /\ generating' \in BOOLEAN
           /\ hist' \in HistT(Len(procs))
    PROVE  IInv'
BY Unfold, FoldNext

-----------------------------------------------------------------------------
(***************************************************************************)
(* Job generation and job commands.                                        *)
(***************************************************************************)
LEMMA SpawnType ==
    ASSUME IInv, NEW w \in Nat, passes <= w, NEW v \in 1..w
    PROVE  /\ Spawn(v) \in Seq(ProcT(w))
           /\ Len(Spawn(v)) = Len(procs) + 1
<1>1. procs \in Seq(ProcT(w)) /\ Len(procs) \in Nat
  BY Unfold, Grow
<1>2. [pass |-> v, next |-> "INIT"] \in ProcT(w)
  BY DEF ProcT, ProcStates
<1> QED  BY <1>1, <1>2, AppendProperties DEF Spawn

LEMMA SubmitJobInv ==
    ASSUME IInv, SubmitJob, zombies' = zombies, signals' = signals, cmds' \in Nat,
           generating' \in BOOLEAN, hist' \in HistT(Len(procs))
    PROVE  IInv'
<1> DEFINE w == passes + 1
           n == Len(procs)
           t0 == IncrementTryNo(task)
           tk == [t0 EXCEPT !.flags = @ \ {"SUBMIT_FAILED", "KILLED"}]
           tf == [tk EXCEPT !.flags = @ \cup {"SUBMIT_FAILED"}]
<1>1. w \in Nat /\ n \in Nat /\ n + 1 \in Nat /\ passes <= w /\ n <= n + 1 /\ n <= n
  BY Unfold
<1>2. task \in TaskT(w, n)
  BY <1>1, Unfold, Grow
<1>3. t0 \in TaskT(w, n)
  <2>1. 0 \in 0..n /\ w \in 0..w
    BY <1>1
  <2>2. task.tryNo + 1 \in Nat
    BY <1>2 DEF TaskT
  <2> QED  BY <1>2, <2>1, <2>2 DEF IncrementTryNo, TaskT
<1>4. tk \in TaskT(w, n) /\ tf \in TaskT(w, n)
  <2> HIDE DEF t0, w, n
  <2>1. {"SUBMIT_FAILED", "KILLED"} \in SUBSET Flags /\ {"SUBMIT_FAILED"} \in SUBSET Flags
    BY DEF Flags
  <2>2. tk \in TaskT(w, n)
    BY <1>1, <1>3, <2>1, FlagType
  <2> HIDE DEF tk
  <2>3. tf \in TaskT(w, n)
    BY <1>1, <2>1, <2>2, FlagType
  <2> QED  BY <2>2, <2>3
<1>5. passes' = w
  BY DEF SubmitJob
<1>6. hist' \in HistT(n)
  OBVIOUS
<1>7. zombies \in ZombiesT(w, n) /\ procs \in Seq(ProcT(w)) /\ signals \in SUBSET (1..n)
  BY <1>1, Unfold, Grow
<1>8. \/ /\ task' = SetState(tk, "SUBMITTED")
         /\ procs' = Spawn(w)
         /\ jobcmds' = jobcmds + 1
      \/ /\ task' = SetState(tf, "ABORTED")
         /\ procs' = procs /\ jobcmds' = jobcmds
  BY DEF SubmitJob
<1> HIDE DEF t0, tk, tf
<1>9. SetState(tk, "SUBMITTED") \in TaskT(w, n) /\ SetState(tf, "ABORTED") \in TaskT(w, n)
  <2>1. "SUBMITTED" \in States /\ "ABORTED" \in States
    BY DEF States
  <2> HIDE DEF w, n
  <2> QED  BY <1>1, <1>4, <2>1, SetStateType
<1>10. jobcmds \in Nat /\ jobcmds + 1 \in Nat
  BY Unfold
<1>11. CASE task' = SetState(tk, "SUBMITTED") /\ procs' = Spawn(w) /\ jobcmds' = jobcmds + 1
  <2>1. w \in 1..w
    BY Unfold
  <2>2. procs' \in Seq(ProcT(w)) /\ Len(procs') = n + 1
    BY <1>1, <1>11, <2>1, SpawnType
  <2>3. /\ TaskT(w, n) \subseteq TaskT(w, n + 1)
        /\ ZombiesT(w, n) \subseteq ZombiesT(w, n + 1)
        /\ HistT(n) \subseteq HistT(n + 1)
        /\ 1..n \subseteq 1..(n + 1)
    <3> HIDE DEF w, n
    <3> QED  BY <1>1, Grow
  <2> HIDE DEF w, n
  <2> QED
    BY <1>1, <1>5, <1>6, <1>7, <1>9, <1>10, <1>11, <2>2, <2>3, FoldNext
<1>12. CASE task' = SetState(tf, "ABORTED") /\ procs' = procs /\ jobcmds' = jobcmds
  <2> HIDE DEF w
  <2> QED  BY <1>1, <1>5, <1>6, <1>7, <1>9, <1>10, <1>12, FoldNext
<1> QED  BY <1>8, <1>11, <1>12

LEMMA GenerateJobInv == IInv /\ GenerateJob => IInv'
<1> SUFFICES ASSUME IInv, GenerateJob PROVE IInv'
  OBVIOUS
<1>1. [hist EXCEPT !.forced = "no"] \in HistT(Len(procs))
  BY Unfold DEF HistT
<1>2. hist' \in HistT(Len(procs))
  BY <1>1 DEF GenerateJob
<1> QED  BY <1>2, SubmitJobInv, Unfold DEF GenerateJob

LEMMA GenerateNothingInv == IInv /\ GenerateNothing => IInv'
BY FoldSame, Unfold DEF GenerateNothing

LEMMA JobCmdSucceedsInv == IInv /\ JobCmdSucceeds => IInv'
<1> SUFFICES ASSUME IInv, JobCmdSucceeds PROVE IInv'
  OBVIOUS
<1>1. jobcmds' \in Nat
  BY Unfold DEF JobCmdSucceeds
<1> QED  BY <1>1, FoldSame, Unfold DEF JobCmdSucceeds

LEMMA JobCmdFailsInv == IInv /\ JobCmdFails => IInv'
<1> SUFFICES ASSUME IInv, JobCmdFails PROVE IInv'
  OBVIOUS
<1> DEFINE tk == [task EXCEPT !.flags = @ \cup {"SUBMIT_FAILED"}]
           tz == [tk EXCEPT !.flags = @ \cup {"ZOMBIE"}]
           T == TaskT(passes, Len(procs))
<1>1. jobcmds' \in Nat
  BY Unfold DEF JobCmdFails
<1>2. task' \in {tz, SetState(tk, "ABORTED")}
  BY DEF JobCmdFails
<1>3. tk \in T
  BY Unfold, FlagType DEF Flags
<1>4. tz \in T
  <2> HIDE DEF tk
  <2> QED  BY <1>3, Unfold, FlagType DEF Flags
<1>5. SetState(tk, "ABORTED") \in T
  <2> HIDE DEF tk
  <2> QED  BY <1>3, Unfold, SetStateType DEF States
<1>6. hist' \in HistT(Len(procs))
  BY Unfold DEF JobCmdFails, HistT
<1> HIDE DEF tk, tz
<1> QED  BY <1>1, <1>2, <1>4, <1>5, <1>6, FoldSame, Unfold DEF JobCmdFails

-----------------------------------------------------------------------------
(***************************************************************************)
(* What job processes do on their own.                                     *)
(***************************************************************************)
LEMMA ProcsType ==
    ASSUME IInv, NEW p \in Procs, NEW x \in ProcStates
    PROVE  /\ p \in 1..Len(procs)
           /\ procs[p] \in ProcT(passes)
           /\ [procs EXCEPT ![p].next = x] \in Seq(ProcT(passes))
           /\ Len([procs EXCEPT ![p].next = x]) = Len(procs)
<1>1. p \in 1..Len(procs) /\ procs \in Seq(ProcT(passes))
  BY Unfold DEF Procs
<1>2. procs[p] \in ProcT(passes)
  BY <1>1, ElementOfSeq
<1>3. [procs[p] EXCEPT !.next = x] \in ProcT(passes)
  BY <1>2 DEF ProcT
<1>4. [procs EXCEPT ![p].next = x] = [procs EXCEPT ![p] = [procs[p] EXCEPT !.next = x]]
  OBVIOUS
<1> QED  BY <1>1, <1>2, <1>3, <1>4, ExceptSeq

LEMMA DisturbedType ==
    ASSUME IInv
    PROVE  /\ Disturbed \in HistT(Len(procs))
           /\ [hist EXCEPT !.quiet = FALSE] \in HistT(Len(procs))
           /\ \A f \in {"no", "force", "force recursive"} :
                [Disturbed EXCEPT !.forced = f] \in HistT(Len(procs))
BY Unfold DEF Disturbed, HistT

LEMMA GiveUpInv == ASSUME IInv, NEW p \in Procs, GiveUp(p) PROVE IInv'
<1>1. PICK x \in {"ABORT", "DONE"} : procs' = [procs EXCEPT ![p].next = x]
  BY DEF GiveUp
<1>2. procs' \in Seq(ProcT(passes)) /\ Len(procs') = Len(procs)
  BY <1>1, ProcsType DEF ProcStates
<1> QED  BY <1>2, DisturbedType, FoldSame, Unfold DEF GiveUp

LEMMA SignalledInv == ASSUME IInv, NEW p \in Procs, Signalled(p) PROVE IInv'
<1> DEFINE x == IF procs[p].next = "DONE" THEN procs[p].next ELSE "ABORT"
<1>1. procs' = [procs EXCEPT ![p].next = x] /\ x \in ProcStates
  BY DEF Signalled, ProcStates
<1>2. procs' \in Seq(ProcT(passes)) /\ Len(procs') = Len(procs)
  <2> HIDE DEF x
  <2> QED  BY <1>1, ProcsType
<1>3. signals' \in SUBSET (1..Len(procs))
  BY Unfold DEF Signalled
<1> QED  BY <1>2, <1>3, FoldSame, Unfold DEF Signalled

LEMMA DuplicateInv == ASSUME IInv, NEW p \in Procs, Duplicate(p) PROVE IInv'
<1> DEFINE n == Len(procs)
<1>1. procs[p].pass \in 1..passes
  BY ProcsType DEF ProcT, ProcStates
<1>2. n \in Nat /\ n + 1 \in Nat /\ n <= n + 1 /\ passes \in Nat /\ passes <= passes
  BY Unfold
<1>3. procs' \in Seq(ProcT(passes)) /\ Len(procs') = n + 1
  BY <1>1, <1>2, SpawnType DEF Duplicate
<1>4. /\ TaskT(passes, n) \subseteq TaskT(passes, n + 1)
      /\ ZombiesT(passes, n) \subseteq ZombiesT(passes, n + 1)
      /\ HistT(n) \subseteq HistT(n + 1)
      /\ 1..n \subseteq 1..(n + 1)
  <2> HIDE DEF n
  <2> QED  BY <1>2, Grow
<1>5. hist' \in HistT(n)
  BY DisturbedType DEF Duplicate
<1>6. /\ task \in TaskT(passes, n) /\ zombies \in ZombiesT(passes, n)
      /\ signals \in SUBSET (1..n)
  BY Unfold
<1>7. jobcmds' \in Nat /\ cmds' \in Nat /\ generating' \in BOOLEAN
  BY Unfold DEF Duplicate
<1>8. UNCHANGED <<task, zombies, signals, passes>>
  BY DEF Duplicate
<1> HIDE DEF n
<1> QED  BY <1>2, <1>3, <1>4, <1>5, <1>6, <1>7, <1>8, FoldNext

LEMMA RemoveStaleInv == IInv /\ RemoveStaleZombie => IInv'
<1> SUFFICES ASSUME IInv, RemoveStaleZombie PROVE IInv'
  OBVIOUS
<1>1. PICK k \in 1..Len(zombies) : zombies' = RemoveAt(zombies, k)
  BY DEF RemoveStaleZombie
<1>2. Len(zombies) \in 0..1
  BY Unfold, ShortList
<1>3. \A x \in 0..1 : \A i \in 1..x : i \in 0..x /\ i # 0
  OBVIOUS
<1>4. k \in 0..Len(zombies) /\ k # 0
  BY <1>2, <1>3, Zenon
<1>5. zombies' \in ZombiesT(passes, Len(procs))
  BY <1>1, <1>4, Unfold, WithoutType DEF Without
<1> QED  BY <1>5, FoldSame, Unfold DEF RemoveStaleZombie

-----------------------------------------------------------------------------
(***************************************************************************)
(* User commands.                                                          *)
(***************************************************************************)
LEMMA UserZombieType ==
    ASSUME IInv
    PROVE  /\ UserZombies \in ZombiesT(passes, Len(procs))
           /\ UserFlagged \in TaskT(passes, Len(procs))
<1>1. UserFlagged \in TaskT(passes, Len(procs))
  BY Unfold, FlagType DEF UserFlagged, Flags
<1>2. ASSUME AddsUserZombie PROVE UserZombies \in ZombiesT(passes, Len(procs))
  <2>1. zombies = <<>>
    BY <1>2, Unfold, FindType DEF AddsUserZombie
  <2>2. Entry(task.rid, task.pass) \in EntryT(passes, Len(procs))
    BY Unfold DEF Entry, EntryT, TaskT
  <2> QED  BY <1>2, <2>1, <2>2, Unfold, AppendFirst DEF UserZombies
<1> QED  BY <1>1, <1>2, Unfold DEF UserZombies

LEMMA RequeueInv == IInv /\ Requeue => IInv'
<1> SUFFICES ASSUME IInv, Requeue PROVE IInv'
  OBVIOUS
<1>1. zombies' \in {zombies, UserZombies} /\ cmds' = cmds + 1
  BY DEF Requeue, User
<1>2. cmds' \in Nat
  BY <1>1, Unfold
<1>3. task' \in TaskT(passes, Len(procs))
  BY Unfold, RequeuedType DEF Requeue
<1> QED
  BY <1>1, <1>2, <1>3, UserZombieType, DisturbedType, FoldSame, Unfold DEF Requeue

LEMMA ForceInv == ASSUME IInv, NEW s \in ForceStates, ForceCmd(s) PROVE IInv'
<1> DEFINE T == TaskT(passes, Len(procs))
           tk == IF s \notin Running THEN UserFlagged ELSE task
<1>1. tk \in T /\ s \in States
  BY Unfold, UserZombieType, JobsAssumption
<1>2. zombies' \in {zombies, UserZombies} /\ cmds' = cmds + 1
  BY DEF ForceCmd, User
<1>3. PICK loop \in Loops :
        task' \in {tk, AfterStateChange(SetState(tk, s), loop),
                   AfterStateChange(SetStateOnly(tk, s, TRUE), loop)}
  BY DEF ForceCmd
<1>4. task' \in T
  <2> HIDE DEF tk
  <2>1. SetState(tk, s) \in T /\ SetStateOnly(tk, s, TRUE) \in T
    BY <1>1, Unfold, SetStateType
  <2> QED  BY <1>1, <1>3, <2>1, Unfold, RequeuedType
<1>5. cmds' \in Nat
  BY <1>2, Unfold
<1>6. hist' \in HistT(Len(procs))
  BY DisturbedType DEF ForceCmd
<1> QED
  BY <1>2, <1>4, <1>5, <1>6, UserZombieType, FoldSame, Unfold DEF ForceCmd

LEMMA RunInv == IInv /\ Run => IInv'
<1> SUFFICES ASSUME IInv, Run PROVE IInv'
  OBVIOUS
<1>1. cmds' = cmds + 1
  BY DEF Run, User
<1>2. cmds' \in Nat
  BY <1>1, Unfold
<1>3. generating' \in BOOLEAN
  BY Unfold DEF Run
<1>4. hist' \in HistT(Len(procs))
  BY DisturbedType DEF Run
<1> QED  BY <1>2, <1>3, <1>4, SubmitJobInv DEF Run

LEMMA RunForceInv == IInv /\ RunForce => IInv'
<1> SUFFICES ASSUME IInv, RunForce PROVE IInv'
  OBVIOUS
<1> DEFINE w == passes + 1
           n == Len(procs)
           t0 == IncrementTryNo(UserFlagged)
<1>1. w \in Nat /\ n \in Nat /\ passes <= w /\ n <= n /\ passes' = w
  <2>1. passes' = w
    BY DEF RunForce
  <2> QED  BY <2>1, Unfold
<1>2. UserFlagged \in TaskT(w, n) /\ UserZombies \in ZombiesT(w, n)
        /\ procs \in Seq(ProcT(w))
  BY <1>1, UserZombieType, Unfold, Grow
<1>3. t0 \in TaskT(w, n)
  <2>1. 0 \in 0..n /\ w \in 0..w
    BY <1>1
  <2>2. UserFlagged.tryNo + 1 \in Nat
    BY <1>2 DEF TaskT
  <2> QED  BY <1>2, <2>1, <2>2 DEF IncrementTryNo, TaskT
<1>4. task' = [t0 EXCEPT !.flags = @ \cup {"SUBMIT_FAILED"}]
  BY DEF RunForce
<1>5. task' \in TaskT(w, n)
  <2> HIDE DEF t0, w, n
  <2> QED  BY <1>1, <1>3, <1>4, FlagType DEF Flags
<1>6. cmds' \in Nat /\ jobcmds' \in Nat /\ generating' \in BOOLEAN
  <2>1. cmds' = cmds + 1 /\ jobcmds' = jobcmds /\ generating' = generating
    BY DEF RunForce, User
  <2> QED  BY <2>1, Unfold
<1>7. hist' \in HistT(n)
  BY DisturbedType DEF RunForce
<1>8. procs' = procs /\ signals' \in SUBSET (1..n) /\ zombies' = UserZombies
  BY Unfold DEF RunForce
<1> HIDE DEF w
<1> QED  BY <1>1, <1>2, <1>5, <1>6, <1>7, <1>8, FoldNext

LEMMA KillInv == IInv /\ Kill => IInv'
<1> SUFFICES ASSUME IInv, Kill PROVE IInv'
  OBVIOUS
<1>1. 0 \in 0..Len(procs) /\ cmds' \in Nat
  BY Unfold DEF Kill, User
<1>2. /\ KillFlags(task, 0) \in TaskT(passes, Len(procs))
      /\ KillTarget(task, 0) \in SUBSET (1..Len(procs))
  BY <1>1, Unfold, KillType
<1> QED  BY <1>1, <1>2, DisturbedType, FoldSame, Unfold DEF Kill

LEMMA SelectedType ==
    ASSUME IInv
    PROVE  /\ Target \in 0..Len(zombies)
           /\ OtherPass \in 0..Len(zombies)
           /\ OtherRid \in 0..Len(zombies)
           /\ Len(zombies) \in 0..1
<1> DEFINE P == {i \in 1..Len(zombies) : zombies[i].pass # task.pass}
           R == {i \in 1..Len(zombies) : zombies[i].rid # task.rid}
<1>1. Len(zombies) \in 0..1
  BY Unfold, ShortList
<1>2. /\ OtherPass = IF P # {} THEN Min(P) ELSE 0
      /\ OtherRid = IF R # {} THEN Min(R) ELSE 0
  BY DEF OtherPass, OtherRid, SelectInSeq
<1>3. ASSUME NEW I \in SUBSET (1..Len(zombies))
      PROVE  (IF I # {} THEN Min(I) ELSE 0) \in 0..Len(zombies)
  <2>1. CASE I = {}
    BY <1>1, <2>1
  <2>2. CASE I # {}
    <3>1. Min(I) = 1 /\ Len(zombies) = 1
      BY <1>1, <2>2, MinOfUnit
    <3> QED  BY <2>2, <3>1
  <2> QED  BY <2>1, <2>2
<1>4. P \in SUBSET (1..Len(zombies)) /\ R \in SUBSET (1..Len(zombies))
  OBVIOUS
<1> HIDE DEF P, R
<1>5. OtherPass \in 0..Len(zombies) /\ OtherRid \in 0..Len(zombies)
  BY <1>2, <1>3, <1>4
<1>6. zombies = <<>> <=> Len(zombies) = 0
  BY Unfold, ShortList, EmptySeq
<1>7. Target \in 0..Len(zombies)
  BY <1>1, <1>5, <1>6 DEF Target
<1> QED  BY <1>1, <1>5, <1>7

LEMMA SetActionType ==
    ASSUME IInv, NEW k \in 0..Len(zombies), k # 0, NEW a \in Actions, SetAction(k, a)
    PROVE  zombies' \in ZombiesT(passes, Len(procs))
<1>1. Len(zombies) \in 0..1 /\ zombies \in Seq(EntryT(passes, Len(procs)))
  BY Unfold, ShortList
<1>2. \A x \in 0..1 : \A i \in 0..x : i # 0 => i \in 1..x
  OBVIOUS
<1>3. k \in 1..Len(zombies)
  BY <1>1, <1>2, Zenon
<1>4. zombies[k] \in EntryT(passes, Len(procs))
  BY <1>1, <1>3, ElementOfSeq
<1>5. [zombies[k] EXCEPT !.action = a] \in EntryT(passes, Len(procs))
  BY <1>4 DEF EntryT
<1>6. zombies' = [zombies EXCEPT ![k] = [zombies[k] EXCEPT !.action = a]]
  BY DEF SetAction
<1> QED  BY <1>3, <1>5, <1>6, Unfold, ReplaceType

LEMMA ZombieCliType ==
    ASSUME IInv, NEW a \in Actions, ZombieCli(a)
    PROVE  zombies' \in ZombiesT(passes, Len(procs))
<1>1. CASE a \in {"fob", "fail"}
  BY <1>1, SelectedType, SetActionType DEF ZombieCli
<1>2. CASE a = "block"
  BY <1>2, SelectedType, SetActionType DEF ZombieCli
<1>3. CASE a = "adopt"
  BY <1>3, SelectedType, SetActionType DEF ZombieCli
<1>4. CASE a = "remove"
  BY <1>4, SelectedType, Unfold, WithoutType DEF ZombieCli
<1>5. CASE a = "kill"
  BY <1>5 DEF ZombieCli
<1> QED  BY <1>1, <1>2, <1>3, <1>4, <1>5 DEF Actions

LEMMA ZombieApiType ==
    ASSUME IInv, NEW a \in Actions, ZombieApi(a)
    PROVE  zombies' \in ZombiesT(passes, Len(procs))
<1>1. PICK k \in 1..Len(zombies) :
        IF a = "remove"
        THEN zombies' = RemoveMatch(zombies, zombies[k].rid, zombies[k].pass)
        ELSE SetAction(FindZombie(zombies, zombies[k].rid, zombies[k].pass), a)
  BY DEF ZombieApi
<1> DEFINE f == FindZombie(zombies, zombies[k].rid, zombies[k].pass)
<1>2. CASE a = "remove"
  BY <1>1, <1>2, Unfold, RemoveType
<1>3. CASE a # "remove"
  <2>1. zombies # <<>>
    BY <1>1, EmptySeq
  <2>2. f \in 0..Len(zombies) /\ f # 0
    BY <2>1, Unfold, FindType
  <2> HIDE DEF f
  <2>3. SetAction(f, a)
    BY <1>1, <1>3 DEF f
  <2> QED  BY <2>2, <2>3, SetActionType
<1> QED  BY <1>2, <1>3

LEMMA ZombieKillCliType ==
    ASSUME IInv, ZombieKillCli
    PROVE  /\ task' \in TaskT(passes, Len(procs))
           /\ zombies' \in ZombiesT(passes, Len(procs))
           /\ signals' \in SUBSET (1..Len(procs))
<1> DEFINE z == zombies[Target]
<1>1. Len(zombies) \in 0..1 /\ zombies \in Seq(EntryT(passes, Len(procs)))
  BY Unfold, ShortList
<1>2. \A x \in 0..1 : \A i \in 0..x : i # 0 => i \in 1..x
  OBVIOUS
<1>3. Target \in 0..Len(zombies) /\ Target # 0
  BY SelectedType DEF ZombieKillCli
<1>4. Target \in 1..Len(zombies)
  BY <1>1, <1>2, <1>3, Zenon
<1>5. z \in EntryT(passes, Len(procs))
  BY <1>1, <1>4, ElementOfSeq
<1>6. z.rid \in 0..Len(procs)
  BY <1>5 DEF EntryT
<1>7. /\ KillFlags(task, z.rid) \in TaskT(passes, Len(procs))
      /\ KillTarget(task, z.rid) \in SUBSET (1..Len(procs))
  BY <1>6, Unfold, KillType
<1>8. /\ task' = KillFlags(task, z.rid)
      /\ signals' = signals \cup KillTarget(task, z.rid)
      /\ \/ zombies' = zombies
         \/ zombies' = Without(zombies, Target)
         \/ SetAction(Target, "kill")
  BY DEF ZombieKillCli
<1>9. zombies' \in ZombiesT(passes, Len(procs))
  BY <1>3, <1>8, Unfold, WithoutType, SetActionType DEF Actions
<1> QED  BY <1>7, <1>8, <1>9, Unfold

LEMMA ZombieCmdInv == IInv /\ ZombieCmd => IInv'
<1> SUFFICES ASSUME IInv, ZombieCmd PROVE IInv'
  OBVIOUS
<1>1. \/ \E a \in ZombieActions : ZombieCli(a)
      \/ \E a \in ZombieActions : ZombieApi(a)
      \/ ZombieKillCli
  BY DEF ZombieCmd
<1>2. /\ task' \in TaskT(passes, Len(procs))
      /\ zombies' \in ZombiesT(passes, Len(procs))
      /\ signals' \in SUBSET (1..Len(procs))
      /\ cmds' = cmds + 1
  <2>1. CASE \E a \in ZombieActions : ZombieCli(a)
    <3>1. PICK a \in ZombieActions : ZombieCli(a)
      BY <2>1
    <3>2. a \in Actions
      BY JobsAssumption
    <3>3. zombies' \in ZombiesT(passes, Len(procs))
      BY <3>1, <3>2, ZombieCliType
    <3>4. UNCHANGED <<task, signals>> /\ cmds' = cmds + 1
      BY <3>1 DEF ZombieCli, User
    <3> QED  BY <3>3, <3>4, Unfold
  <2>2. CASE \E a \in ZombieActions : ZombieApi(a)
    <3>1. PICK a \in ZombieActions : ZombieApi(a)
      BY <2>2
    <3>2. a \in Actions
      BY JobsAssumption
    <3>3. zombies' \in ZombiesT(passes, Len(procs))
      BY <3>1, <3>2, ZombieApiType
    <3>4. UNCHANGED <<task, signals>> /\ cmds' = cmds + 1
      BY <3>1 DEF ZombieApi, User
    <3> QED  BY <3>3, <3>4, Unfold
  <2>3. CASE ZombieKillCli
    <3>1. cmds' = cmds + 1
      BY <2>3 DEF ZombieKillCli, User
    <3> QED  BY <2>3, <3>1, ZombieKillCliType
  <2> QED  BY <1>1, <2>1, <2>2, <2>3
<1>3. cmds' \in Nat
  BY <1>2, Unfold
<1> QED  BY <1>2, <1>3, DisturbedType, FoldSame, Unfold DEF ZombieCmd

-----------------------------------------------------------------------------
(***************************************************************************)
(* Child commands.                                                         *)
(***************************************************************************)
ChildCmds == {"INIT", "LABEL", "COMPLETE", "ABORT"}

LEMMA NextOfType ==
    ASSUME NEW c \in ChildCmds, NEW reply
    PROVE  NextOf(c, reply) \in ProcStates
<1>1. CASE reply = "ok"
  BY <1>1 DEF NextOf, ChildCmds, ProcStates
<1>2. CASE reply = "error"
  BY <1>2 DEF NextOf, ChildCmds, ProcStates
<1>3. CASE reply \notin {"ok", "error"}
  BY <1>3 DEF NextOf, ChildCmds, ProcStates
<1> QED  BY <1>1, <1>2, <1>3

LEMMA HistType ==
    ASSUME NEW n \in Nat, NEW h \in HistT(n), NEW p \in 1..n, NEW v, NEW c, NEW q
    PROVE  /\ [h EXCEPT !.own[v] = {}, !.ends[v] = 0, !.forced = "no", !.quiet = FALSE]
                \in HistT(n)
           /\ [h EXCEPT !.own = [h.own EXCEPT ![v] = @ \cup {p}],
                        !.ends = IF c \in {"COMPLETE", "ABORT"}
                                 THEN [h.ends EXCEPT ![v] = @ + 1] ELSE h.ends,
                        !.quiet = @ /\ ~q] \in HistT(n)
<1> DEFINE D == 1..MaxPasses
           O == [h.own EXCEPT ![v] = @ \cup {p}]
           E == IF c \in {"COMPLETE", "ABORT"}
                THEN [h.ends EXCEPT ![v] = @ + 1] ELSE h.ends
           Q == h.quiet /\ ~q
<1>1. /\ h.own \in [D -> SUBSET (1..n)] /\ h.ends \in [D -> Nat]
      /\ h.quiet \in BOOLEAN /\ h.forced \in {"no", "force", "force recursive"}
  BY DEF HistT
<1>2. [h.own EXCEPT ![v] = {}] \in [D -> SUBSET (1..n)] /\ O \in [D -> SUBSET (1..n)]
  BY <1>1
<1>3. [h.ends EXCEPT ![v] = 0] \in [D -> Nat] /\ E \in [D -> Nat]
  <2>1. [h.ends EXCEPT ![v] = 0] \in [D -> Nat]
    BY <1>1
  <2>2. \A f \in [D -> Nat] : [f EXCEPT ![v] = f[v] + 1] \in [D -> Nat]
    <3> SUFFICES ASSUME NEW f \in [D -> Nat] PROVE [f EXCEPT ![v] = f[v] + 1] \in [D -> Nat]
      OBVIOUS
    <3>1. CASE v \in D
      <4>1. f[v] + 1 \in Nat
        BY <3>1
      <4> QED  BY <4>1
    <3>2. CASE v \notin D
      BY <3>2, Zenon
    <3> QED  BY <3>1, <3>2
  <2> QED  BY <1>1, <2>1, <2>2, Zenon
<1>4. ASSUME NEW own \in [D -> SUBSET (1..n)], NEW ends \in [D -> Nat],
             NEW x \in BOOLEAN
      PROVE  /\ [h EXCEPT !.own = own, !.ends = ends, !.quiet = x] \in HistT(n)
             /\ [h EXCEPT !.own = own, !.ends = ends, !.forced = "no", !.quiet = FALSE]
                  \in HistT(n)
  BY DEF HistT
<1>5. [h EXCEPT !.own[v] = {}, !.ends[v] = 0, !.forced = "no", !.quiet = FALSE]
        = [h EXCEPT !.own = [h.own EXCEPT ![v] = {}], !.ends = [h.ends EXCEPT ![v] = 0],
                    !.forced = "no", !.quiet = FALSE]
  BY Zenon DEF HistT
<1>6. [h EXCEPT !.own[v] = {}, !.ends[v] = 0, !.forced = "no", !.quiet = FALSE] \in HistT(n)
  BY <1>2, <1>3, <1>4, <1>5
<1>7. Q \in BOOLEAN
  OBVIOUS
<1>8. [h EXCEPT !.own = O, !.ends = E, !.quiet = Q] \in HistT(n)
  <2> HIDE DEF O, E, Q
  <2> QED  BY <1>2, <1>3, <1>4, <1>7
<1> QED  BY <1>6, <1>8, Zenon

LEMMA ApplyType ==
    ASSUME NEW w \in Nat, NEW n \in Nat, NEW p \in 1..n, NEW c,
           NEW tk \in TaskT(w, n), NEW zs \in ZombiesT(w, n), NEW h \in HistT(n),
           Apply(p, c, tk, zs, h)
    PROVE  task' \in TaskT(w, n) /\ zombies' \in ZombiesT(w, n) /\ hist' \in HistT(n)
<1>1. zombies' \in ZombiesT(w, n)
  BY RemoveType DEF Apply
<1>2. PICK loop \in Loops :
        /\ task' = Applied(p, c, tk, loop)
        /\ hist' = [h EXCEPT
              !.own = [h.own EXCEPT ![procs[p].pass] = @ \cup {p}],
              !.ends = IF c \in {"COMPLETE", "ABORT"}
                       THEN [h.ends EXCEPT ![procs[p].pass] = @ + 1] ELSE h.ends,
              !.quiet = @ /\ ~(c = "COMPLETE" /\ loop)]
  BY DEF Apply
<1>3. task' \in TaskT(w, n)
  BY <1>2, AppliedType
<1>4. hist' \in HistT(n)
  BY <1>2, HistType
<1> QED  BY <1>1, <1>3, <1>4

LEMMA AnswerAgainType ==
    ASSUME IInv, NEW c, AnswerAgain(c)
    PROVE  /\ task' \in TaskT(passes, Len(procs))
           /\ zombies' \in ZombiesT(passes, Len(procs))
           /\ hist' \in HistT(Len(procs))
<1>1. task' \in TaskT(passes, Len(procs))
  BY Unfold, FlagType DEF AnswerAgain, Flags
<1>2. (IF zombies = <<>> THEN 0 ELSE 1) \in 0..Len(zombies)
  <2>1. Len(zombies) \in 0..1 /\ (zombies = <<>> <=> Len(zombies) = 0)
    BY Unfold, ShortList, EmptySeq
  <2> QED  BY <2>1
<1>3. zombies' \in ZombiesT(passes, Len(procs))
  <2>1. CASE c = "COMPLETE"
    BY <1>2, <2>1, Unfold, WithoutType DEF AnswerAgain
  <2>2. CASE c = "ABORT"
    BY <2>2, Unfold, RemoveType DEF AnswerAgain
  <2>3. CASE c \notin {"COMPLETE", "ABORT"}
    BY <2>3, Unfold DEF AnswerAgain
  <2> QED  BY <2>1, <2>2, <2>3
<1>4. hist' \in HistT(Len(procs))
  BY Unfold DEF AnswerAgain
<1> QED  BY <1>1, <1>3, <1>4

\* A zombie's command changes the state only through the types above,
\* whatever the user has set for it.
LEMMA UserActionType ==
    ASSUME IInv, NEW p \in Procs, NEW c, NEW rid \in 0..Len(procs), NEW reply,
           NEW z \in EntryT(passes, Len(procs)),
           NEW zs \in ZombiesT(passes, Len(procs)),
           UserAction(p, c, rid, z, zs, reply)
    PROVE  /\ task' \in TaskT(passes, Len(procs))
           /\ zombies' \in ZombiesT(passes, Len(procs))
           /\ signals' \in SUBSET (1..Len(procs))
           /\ hist' \in HistT(Len(procs))
<1> DEFINE n == Len(procs)
           w == passes
           pass == procs[p].pass
           tz == [task EXCEPT !.flags = @ \cup {"ZOMBIE"}]
           tu == [task EXCEPT !.flags = @ \ {"ZOMBIE"}]
           ta == [task EXCEPT !.pass = pass, !.rid = rid, !.flags = @ \ {"ZOMBIE"}]
           ha == [hist EXCEPT !.own[pass] = {}, !.ends[pass] = 0, !.forced = "no",
                              !.quiet = FALSE]
           hq == [hist EXCEPT !.quiet = FALSE]
           rest == RemoveFound(zs, rid, pass)
<1>1. n \in Nat /\ w \in Nat /\ p \in 1..n /\ signals \in SUBSET (1..n)
        /\ task \in TaskT(w, n) /\ hist \in HistT(n)
  BY Unfold DEF Procs
<1>2. tz \in TaskT(w, n) /\ tu \in TaskT(w, n)
  BY <1>1, FlagType DEF Flags
<1>3. pass \in 0..w
  <2>1. procs[p] \in ProcT(passes)
    BY ProcsType DEF ProcStates
  <2> QED  BY <2>1, <1>1 DEF ProcT
<1>4. ta \in TaskT(w, n)
  BY <1>1, <1>3 DEF TaskT
<1>5. ha \in HistT(n) /\ hq \in HistT(n)
  BY <1>1, HistType, DisturbedType
<1>6. rest \in ZombiesT(w, n)
  BY <1>1, RemoveType
<1>7. z.rid \in 0..n
  BY DEF EntryT
<1>8. \/ Apply(p, c, ta, rest, ha) /\ signals' = signals
      \/ task' \in {tz, tu} /\ zombies' \in {rest, zs} /\ signals' = signals /\ hist' = hist
      \/ /\ task' \in {tz, KillFlags(tz, z.rid)}
         /\ signals' \in {signals, signals \cup KillTarget(tz, z.rid)}
         /\ zombies' = zs /\ hist' = hq
  BY DEF UserAction
<1> HIDE DEF n, w, tz, tu, ta, ha, hq, rest
<1>9. CASE Apply(p, c, ta, rest, ha) /\ signals' = signals
  <2>1. task' \in TaskT(w, n) /\ zombies' \in ZombiesT(w, n) /\ hist' \in HistT(n)
    BY <1>1, <1>4, <1>5, <1>6, <1>9, ApplyType
  <2> QED  BY <1>1, <1>9, <2>1 DEF n, w
<1>10. CASE task' \in {tz, tu} /\ zombies' \in {rest, zs} /\ signals' = signals /\ hist' = hist
  BY <1>1, <1>2, <1>6, <1>10 DEF n, w
<1>11. CASE /\ task' \in {tz, KillFlags(tz, z.rid)}
            /\ signals' \in {signals, signals \cup KillTarget(tz, z.rid)}
            /\ zombies' = zs /\ hist' = hq
  <2>1. KillFlags(tz, z.rid) \in TaskT(w, n) /\ KillTarget(tz, z.rid) \in SUBSET (1..n)
    BY <1>1, <1>2, <1>7, KillType
  <2> QED  BY <1>1, <1>2, <1>5, <1>11, <2>1 DEF n, w
<1> QED  BY <1>8, <1>9, <1>10, <1>11

LEMMA HandleZombieType ==
    ASSUME IInv, NEW p \in Procs, NEW c, NEW rid \in 0..Len(procs), NEW reply,
           HandleZombie(p, c, rid, reply)
    PROVE  /\ task' \in TaskT(passes, Len(procs))
           /\ zombies' \in ZombiesT(passes, Len(procs))
           /\ signals' \in SUBSET (1..Len(procs))
           /\ hist' \in HistT(Len(procs))
<1> DEFINE E == EntryT(passes, Len(procs))
           Z == ZombiesT(passes, Len(procs))
           pass == procs[p].pass
           k == FindZombie(zombies, rid, pass)
           new == Entry(rid, pass)
           old == [zombies[k] EXCEPT !.rid = IF @ = 0 THEN rid ELSE @]
<1>1. k \in 0..Len(zombies) /\ (k = 0 <=> zombies = <<>>) /\ Len(zombies) \in 0..1
  BY Unfold, FindType
<1>2. CASE k = 0
  <2>1. new \in E
    <3>1. procs[p] \in ProcT(passes) /\ passes \in Nat
      BY ProcsType, Unfold DEF ProcStates
    <3>2. pass \in 0..passes
      BY <3>1 DEF ProcT
    <3> QED  BY <3>2 DEF Entry, EntryT
  <2>2. UserAction(p, c, rid, new, Append(<<>>, new), reply)
    BY <1>1, <1>2 DEF HandleZombie
  <2> HIDE DEF new
  <2>3. Append(<<>>, new) \in Z
    BY <2>1, Unfold, AppendFirst
  <2> QED  BY <2>1, <2>2, <2>3, UserActionType
<1>3. CASE k # 0
  <2>1. \A x \in 0..1 : \A i \in 0..x : i # 0 => i \in 1..x
    OBVIOUS
  <2>2. k \in 1..Len(zombies)
    BY <1>1, <1>3, <2>1, Zenon
  <2>3. UserAction(p, c, rid, old, [zombies EXCEPT ![k] = old], reply)
    BY <1>3 DEF HandleZombie
  <2> HIDE DEF k
  <2>4. zombies[k] \in E
    BY <2>2, Unfold, ShortList, ElementOfSeq
  <2>5. old \in E
    BY <2>4 DEF EntryT
  <2> HIDE DEF old
  <2>6. [zombies EXCEPT ![k] = old] \in Z
    BY <2>2, <2>5, Unfold, ReplaceType
  <2> QED  BY <2>3, <2>5, <2>6, UserActionType
<1> QED  BY <1>2, <1>3

LEMMA ChildCmdInv ==
    ASSUME IInv, NEW p \in Procs, NEW c \in ChildCmds, NEW reply, ChildCmd(p, c, reply)
    PROVE  IInv'
<1> DEFINE rid == RidOf(p, c)
<1>1. p \in 1..Len(procs) /\ rid \in 0..Len(procs)
  BY Unfold DEF Procs, RidOf
<1>2. \/ AnswerAgain(c) /\ signals' = signals
      \/ Apply(p, c, task, zombies, hist) /\ signals' = signals
      \/ HandleZombie(p, c, rid, reply)
  BY DEF ChildCmd
<1> HIDE DEF rid
<1>3. /\ task' \in TaskT(passes, Len(procs))
      /\ zombies' \in ZombiesT(passes, Len(procs))
      /\ signals' \in SUBSET (1..Len(procs))
      /\ hist' \in HistT(Len(procs))
  <2>1. CASE AnswerAgain(c) /\ signals' = signals
    BY <2>1, AnswerAgainType, Unfold
  <2>2. CASE Apply(p, c, task, zombies, hist) /\ signals' = signals
    BY <1>1, <2>2, ApplyType, Unfold
  <2>3. CASE HandleZombie(p, c, rid, reply)
    BY <1>1, <2>3, HandleZombieType
  <2> QED  BY <1>2, <2>1, <2>2, <2>3
<1>4. PICK received : procs' = [procs EXCEPT ![p].next = NextOf(c, received)]
  BY DEF ChildCmd
<1>5. procs' \in Seq(ProcT(passes)) /\ Len(procs') = Len(procs)
  BY <1>4, NextOfType, ProcsType
<1> QED  BY <1>3, <1>5, FoldSame, Unfold DEF ChildCmd

-----------------------------------------------------------------------------
(***************************************************************************)
(* The theorems.                                                           *)
(***************************************************************************)
LEMMA StepInv == IInv /\ [Next]_vars => IInv'
<1> SUFFICES ASSUME IInv, [Next]_vars PROVE IInv'
  OBVIOUS
<1>1. CASE GenerateJob \/ GenerateNothing \/ JobCmdSucceeds \/ JobCmdFails
  BY <1>1, GenerateJobInv, GenerateNothingInv, JobCmdSucceedsInv, JobCmdFailsInv
<1>2. ASSUME NEW p \in Procs, NEW c \in ChildCmds, NEW reply, ChildCmd(p, c, reply)
      PROVE  IInv'
  BY <1>2, ChildCmdInv
<1>3. ASSUME NEW p \in Procs, GiveUp(p) \/ Signalled(p) \/ Duplicate(p)
      PROVE  IInv'
  BY <1>3, GiveUpInv, SignalledInv, DuplicateInv
<1>4. CASE RemoveStaleZombie
  BY <1>4, RemoveStaleInv
<1>5. CASE Requeue \/ Run \/ RunForce \/ Kill \/ ZombieCmd
  BY <1>5, RequeueInv, RunInv, RunForceInv, KillInv, ZombieCmdInv
<1>6. ASSUME NEW s \in ForceStates, ForceCmd(s)
      PROVE  IInv'
  BY <1>6, ForceInv
<1>7. CASE UNCHANGED vars
  BY <1>7, FoldSame, Unfold DEF vars
<1> QED  BY <1>1, <1>2, <1>3, <1>4, <1>5, <1>6, <1>7 DEF Next, ChildCmds

\* The task and the zombie list never name a password that was not generated
\* or a process that was not started, and ECF_KILL_CMD signals only processes
\* of the task (Submittable, ZombieCtrl), however many submissions, processes
\* and commands there are.
THEOREM TypeCorrect == Spec => []TypeOK
<1>1. IInv => TypeOK
  BY DEF IInv
<1> QED  BY <1>1, InitInv, StepInv, PTL DEF Spec

\* The zombie list never holds two entries of one task, whatever the order of
\* child commands, duplicated jobs, user commands and submissions: every path
\* of ZombieCtrl that adds an entry looks the task up by path first.
THEOREM OneZombieEntry == Spec => []AtMostOneZombie
<1>1. IInv => AtMostOneZombie
  BY DEF IInv
<1> QED  BY <1>1, InitInv, StepInv, PTL DEF Spec

-----------------------------------------------------------------------------
(***************************************************************************)
(* What a step does to the task, the processes and the history, with the   *)
(* flags, the zombie list and the signals left out.                        *)
(***************************************************************************)
Ended == {"COMPLETE", "ABORTED"}
Waiting == {"INIT", "ABORT", "DONE"}

Same(t, u) == u.state = t.state /\ u.pass = t.pass /\ u.rid = t.rid
Settles(t, u) ==
    u.pass = t.pass /\ u.rid = t.rid /\ (u.state = t.state \/ u.state \in Ended)

Untold == hist'.own = hist.own /\ hist'.ends = hist.ends

\* The state of the task may end; a process may give up or be duplicated.
Settling ==
    /\ Untold /\ passes' = passes /\ Settles(task, task')
    /\ \/ procs' = procs
       \/ \E p \in Procs, x \in {"ABORT", "DONE"} : procs' = [procs EXCEPT ![p].next = x]
       \/ \E p \in Procs : procs' = Spawn(procs[p].pass)

\* The task loses its password.
Clearing == Untold /\ passes' = passes /\ task'.pass = 0

\* The task gets a new password, with or without a process that knows it.
Renewing ==
    /\ Untold /\ passes < MaxPasses /\ passes' = passes + 1
    /\ task'.pass = passes + 1 /\ task'.rid = 0
    /\ procs' = procs \/ (procs' = Spawn(passes + 1) /\ task'.state = "SUBMITTED")

\* Command c of process p is applied to the task t, with the history h.
Applying(p, c, t, h) ==
    /\ passes' = passes
    /\ \E loop \in Loops : task' = Applied(p, c, t, loop)
    /\ hist'.own = [h.own EXCEPT ![procs[p].pass] = @ \cup {p}]
    /\ hist'.ends = IF c \in {"COMPLETE", "ABORT"}
                    THEN [h.ends EXCEPT ![procs[p].pass] = @ + 1] ELSE h.ends

Accepting(p, c) ==
    /\ c \in Sends(p) /\ Verdict(c, procs[p].pass, RidOf(p, c)) = "accept"
    /\ Applying(p, c, task, hist)

\* The process is adopted: its password and rid become the task's.
Adopting(p, c) ==
    \E t, h :
       /\ t \in TaskT(passes, Len(procs))
       /\ t.state = task.state /\ t.pass = procs[p].pass /\ t.rid = RidOf(p, c)
       /\ h.own = [hist.own EXCEPT ![procs[p].pass] = {}]
       /\ h.ends = [hist.ends EXCEPT ![procs[p].pass] = 0]
       /\ Applying(p, c, t, h)

\* The command is answered and changes nothing of this.
Answering(p, c) ==
    /\ c \in Sends(p) /\ Verdict(c, procs[p].pass, RidOf(p, c)) # "accept"
    /\ Untold /\ passes' = passes /\ Same(task, task')
    /\ \E x \in ProcStates : procs' = [procs EXCEPT ![p].next = x]

Shaped ==
    \/ Settling \/ Clearing \/ Renewing
    \/ \E p \in Procs, c \in ChildCmds : Accepting(p, c) \/ Adopting(p, c) \/ Answering(p, c)

LEMMA SetStateOnlyFields ==
    ASSUME NEW w \in Nat, NEW n \in Nat, NEW tk \in TaskT(w, n), NEW s \in States,
           NEW f \in BOOLEAN
    PROVE  /\ SetStateOnly(tk, s, f).state = s
           /\ SetStateOnly(tk, s, f).pass = tk.pass
           /\ SetStateOnly(tk, s, f).rid = tk.rid
           /\ SetStateOnly(tk, s, f).flags \subseteq tk.flags \cup {"FORCE_ABORT"}
BY DEF SetStateOnly, TaskT

LEMMA SetStateFields ==
    ASSUME NEW w \in Nat, NEW n \in Nat, NEW tk \in TaskT(w, n), NEW s \in States
    PROVE  /\ SetState(tk, s) \in TaskT(w, n)
           /\ SetState(tk, s).state = s
           /\ SetState(tk, s).pass = tk.pass
           /\ SetState(tk, s).rid = tk.rid
           /\ SetState(tk, s).flags \subseteq tk.flags
<1>1. SetState(tk, s) \in TaskT(w, n)
  BY SetStateType
<1> QED  BY <1>1 DEF SetState, SetStateOnly, TaskT

LEMMA FlagFields ==
    ASSUME NEW w \in Nat, NEW n \in Nat, NEW tk \in TaskT(w, n), NEW F
    PROVE  /\ Same(tk, [tk EXCEPT !.flags = @ \cup F])
           /\ Same(tk, [tk EXCEPT !.flags = @ \ F])
           /\ [tk EXCEPT !.flags = @ \cup F].flags = tk.flags \cup F
           /\ [tk EXCEPT !.flags = @ \ F].flags = tk.flags \ F
BY DEF TaskT, Same

LEMMA UserFlaggedFields ==
    ASSUME IInv  PROVE Same(task, UserFlagged)
BY Unfold, FlagFields DEF UserFlagged, Same

LEMMA KillFields ==
    ASSUME NEW w \in Nat, NEW n \in Nat, NEW tk \in TaskT(w, n), NEW rid
    PROVE  Same(tk, KillFlags(tk, rid)) /\ tk.flags \ {"KILLED"} \subseteq KillFlags(tk, rid).flags
<1>1. KillFlags(tk, rid) \in {[tk EXCEPT !.flags = @ \cup {"KILLED"}],
                              [tk EXCEPT !.flags = @ \ {"KILLED"}]}
  BY DEF KillFlags
<1>2. CASE KillFlags(tk, rid) = [tk EXCEPT !.flags = @ \cup {"KILLED"}]
  <2>1. /\ Same(tk, [tk EXCEPT !.flags = @ \cup {"KILLED"}])
        /\ [tk EXCEPT !.flags = @ \cup {"KILLED"}].flags = tk.flags \cup {"KILLED"}
    BY DEF TaskT, Same
  <2> QED  BY <1>2, <2>1
<1>3. CASE KillFlags(tk, rid) = [tk EXCEPT !.flags = @ \ {"KILLED"}]
  <2>1. /\ Same(tk, [tk EXCEPT !.flags = @ \ {"KILLED"}])
        /\ [tk EXCEPT !.flags = @ \ {"KILLED"}].flags = tk.flags \ {"KILLED"}
    BY DEF TaskT, Same
  <2> QED  BY <1>3, <2>1
<1> QED  BY <1>1, <1>2, <1>3

LEMMA AppliedFields ==
    ASSUME NEW w \in Nat, NEW n \in Nat, NEW tk \in TaskT(w, n), NEW p, NEW c \in ChildCmds,
           NEW loop
    PROVE  LET t == Applied(p, c, tk, loop)
           IN  /\ c = "INIT" => t.state = "ACTIVE" /\ t.pass = tk.pass /\ t.rid = p
               /\ c = "COMPLETE" => t.pass = 0
               /\ c = "ABORT" => t.state = "ABORTED" /\ t.pass = tk.pass /\ t.rid = tk.rid
               /\ c = "LABEL" => t = tk
<1>1. "ACTIVE" \in States /\ "COMPLETE" \in States /\ "ABORTED" \in States
  BY DEF States
<1>2. ASSUME NEW s \in States
      PROVE  /\ SetState(tk, s) \in TaskT(w, n)
             /\ SetState(tk, s).state = s /\ SetState(tk, s).pass = tk.pass
             /\ SetState(tk, s).rid = tk.rid
  BY SetStateFields
<1>3. CASE c = "INIT"
  <2> DEFINE t == SetState(tk, "ACTIVE")
  <2>1. t \in TaskT(w, n) /\ t.state = "ACTIVE" /\ t.pass = tk.pass
    BY <1>1, <1>2
  <2>2. Applied(p, c, tk, loop) = [t EXCEPT !.rid = p]
    BY <1>3 DEF Applied
  <2> HIDE DEF t
  <2>3. LET u == [t EXCEPT !.rid = p]
        IN  u.state = "ACTIVE" /\ u.pass = tk.pass /\ u.rid = p
    BY <2>1 DEF TaskT
  <2> QED  BY <1>3, <2>2, <2>3
<1>4. CASE c = "COMPLETE"
  <2> DEFINE t == AfterStateChange(SetState(tk, "COMPLETE"), loop)
  <2>1. t \in TaskT(w, n)
    BY <1>1, <1>2, RequeuedType
  <2>2. Applied(p, c, tk, loop) = [t EXCEPT !.flags = @ \ {"ZOMBIE"}, !.pass = 0, !.rid = 0]
    BY <1>4 DEF Applied
  <2> HIDE DEF t
  <2>3. [t EXCEPT !.flags = @ \ {"ZOMBIE"}, !.pass = 0, !.rid = 0].pass = 0
    BY <2>1 DEF TaskT
  <2> QED  BY <1>4, <2>2, <2>3
<1>5. CASE c = "ABORT"
  BY <1>1, <1>2, <1>5 DEF Applied
<1>6. CASE c = "LABEL"
  BY <1>6 DEF Applied
<1> QED  BY <1>3, <1>4, <1>5, <1>6 DEF ChildCmds

LEMMA UntoldBy ==
    ASSUME IInv
    PROVE  /\ Disturbed.own = hist.own /\ Disturbed.ends = hist.ends
           /\ \A x : LET h == [hist EXCEPT !.quiet = x]
                     IN  h.own = hist.own /\ h.ends = hist.ends
           /\ \A f : LET h == [hist EXCEPT !.forced = f]
                     IN  h.own = hist.own /\ h.ends = hist.ends
           /\ \A f : LET h == [Disturbed EXCEPT !.forced = f]
                     IN  h.own = hist.own /\ h.ends = hist.ends
BY Unfold DEF Disturbed, HistT

LEMMA SubmitJobShape ==
    ASSUME IInv, SubmitJob, Untold
    PROVE  Renewing /\ task'.flags \subseteq task.flags \cup {"SUBMIT_FAILED"}
<1> DEFINE w == passes + 1
           n == Len(procs)
           t0 == IncrementTryNo(task)
           tk == [t0 EXCEPT !.flags = @ \ {"SUBMIT_FAILED", "KILLED"}]
           tf == [tk EXCEPT !.flags = @ \cup {"SUBMIT_FAILED"}]
<1>1. w \in Nat /\ n \in Nat /\ passes <= w /\ n <= n
  BY Unfold
<1>2. t0 \in TaskT(w, n) /\ t0.pass = w /\ t0.rid = 0 /\ t0.flags = task.flags
  <2>0. task \in TaskT(w, n)
    BY <1>1, Unfold, Grow
  <2>1. 0 \in 0..n /\ w \in 0..w
    BY <1>1
  <2>2. task.tryNo + 1 \in Nat
    BY <2>0 DEF TaskT
  <2> QED  BY <2>0, <2>1, <2>2 DEF IncrementTryNo, TaskT
<1>3. /\ passes < MaxPasses /\ passes' = w
      /\ \/ task' = SetState(tk, "SUBMITTED") /\ procs' = Spawn(w)
         \/ task' = SetState(tf, "ABORTED") /\ procs' = procs
  BY DEF SubmitJob
<1>4. Untold
  OBVIOUS
<1> HIDE DEF t0, w, n
<1>5. tk \in TaskT(w, n) /\ Same(t0, tk) /\ tk.flags \subseteq task.flags
  <2>1. {"SUBMIT_FAILED", "KILLED"} \in SUBSET Flags
    BY DEF Flags
  <2>2. tk \in TaskT(w, n)
    BY <1>1, <1>2, <2>1, FlagType
  <2>3. Same(t0, tk) /\ tk.flags = t0.flags \ {"SUBMIT_FAILED", "KILLED"}
    BY <1>2 DEF TaskT, Same
  <2> QED  BY <1>2, <2>2, <2>3
<1> HIDE DEF tk
<1>6. /\ tf \in TaskT(w, n) /\ Same(tk, tf)
      /\ tf.flags \subseteq task.flags \cup {"SUBMIT_FAILED"}
  <2>1. {"SUBMIT_FAILED"} \in SUBSET Flags
    BY DEF Flags
  <2>2. tf \in TaskT(w, n)
    BY <1>1, <1>5, <2>1, FlagType
  <2>3. Same(tk, tf) /\ tf.flags = tk.flags \cup {"SUBMIT_FAILED"}
    BY <1>5 DEF TaskT, Same
  <2> QED  BY <1>5, <2>2, <2>3
<1> HIDE DEF tf
<1>7. ASSUME NEW t \in {tk, tf}, NEW s \in {"SUBMITTED", "ABORTED"}
      PROVE  /\ SetState(t, s).pass = w /\ SetState(t, s).rid = 0 /\ SetState(t, s).state = s
             /\ SetState(t, s).flags \subseteq task.flags \cup {"SUBMIT_FAILED"}
  <2>1. /\ t \in TaskT(w, n) /\ t.pass = w /\ t.rid = 0 /\ s \in States
        /\ t.flags \subseteq task.flags \cup {"SUBMIT_FAILED"}
    BY <1>2, <1>5, <1>6 DEF Same, States
  <2> QED  BY <1>1, <2>1, SetStateFields
<1> QED  BY <1>3, <1>4, <1>7 DEF Renewing, w

LEMMA JobCmdFailsShape == ASSUME IInv, JobCmdFails PROVE Settling
<1> DEFINE tk == [task EXCEPT !.flags = @ \cup {"SUBMIT_FAILED"}]
           tz == [tk EXCEPT !.flags = @ \cup {"ZOMBIE"}]
           T == TaskT(passes, Len(procs))
<1>1. task' \in {tz, SetState(tk, "ABORTED")}
  BY DEF JobCmdFails
<1>2. tk \in T /\ Same(task, tk)
  BY Unfold, FlagType, FlagFields DEF Flags
<1> HIDE DEF tk
<1>3. Same(tk, tz)
  BY <1>2, Unfold, FlagFields
<1>4. /\ SetState(tk, "ABORTED").state = "ABORTED"
      /\ SetState(tk, "ABORTED").pass = tk.pass /\ SetState(tk, "ABORTED").rid = tk.rid
  BY <1>2, Unfold, SetStateFields DEF States
<1> HIDE DEF tz
<1>5. Settles(task, task')
  BY <1>1, <1>2, <1>3, <1>4 DEF Same, Settles, Ended
<1>6. Untold /\ passes' = passes /\ procs' = procs
  BY UntoldBy DEF Untold, JobCmdFails
<1> QED  BY <1>5, <1>6 DEF Settling

LEMMA ProcessShape ==
    ASSUME IInv, NEW p \in Procs, GiveUp(p) \/ Signalled(p) \/ Duplicate(p)
    PROVE  Settling
<1>1. Untold /\ passes' = passes /\ Settles(task, task')
  BY UntoldBy DEF Untold, Settles, GiveUp, Signalled, Duplicate
<1>2. \/ \E x \in {"ABORT", "DONE"} : procs' = [procs EXCEPT ![p].next = x]
      \/ procs' = Spawn(procs[p].pass)
  <2>1. CASE GiveUp(p)
    BY <2>1 DEF GiveUp
  <2>2. CASE Signalled(p)
    <3> DEFINE x == IF procs[p].next = "DONE" THEN procs[p].next ELSE "ABORT"
    <3>1. x \in {"ABORT", "DONE"} /\ procs' = [procs EXCEPT ![p].next = x]
      BY <2>2 DEF Signalled
    <3> QED  BY <3>1
  <2>3. CASE Duplicate(p)
    BY <2>3 DEF Duplicate
  <2> QED  BY <2>1, <2>2, <2>3
<1> QED  BY <1>1, <1>2 DEF Settling

LEMMA ForceShape ==
    ASSUME IInv, ForceStates \subseteq Ended, NEW s \in ForceStates, ForceCmd(s)
    PROVE  Settling \/ Clearing
<1> DEFINE T == TaskT(passes, Len(procs))
           tk == IF s \notin Running THEN UserFlagged ELSE task
           t1 == SetState(tk, s)
           t2 == SetStateOnly(tk, s, TRUE)
<1>1. tk \in T /\ s \in States /\ s \in Ended /\ Same(task, tk)
  BY Unfold, UserZombieType, UserFlaggedFields, JobsAssumption DEF Same
<1>2. PICK loop \in Loops :
        task' \in {tk, AfterStateChange(t1, loop), AfterStateChange(t2, loop)}
  BY DEF ForceCmd
<1>3. Untold /\ passes' = passes /\ procs' = procs
  <2>1. \E f : hist' = [Disturbed EXCEPT !.forced = f]  BY DEF ForceCmd
  <2>2. PICK f : hist' = [Disturbed EXCEPT !.forced = f]  BY <2>1
  <2>3. Untold  BY <2>2, UntoldBy DEF Untold
  <2> QED  BY <2>3 DEF ForceCmd
<1> HIDE DEF tk
<1>4. /\ t1.state = s /\ t1.pass = tk.pass /\ t1.rid = tk.rid
      /\ t2.state = s /\ t2.pass = tk.pass /\ t2.rid = tk.rid
  <2>1. t1.state = s /\ t1.pass = tk.pass /\ t1.rid = tk.rid
    BY <1>1, Unfold, SetStateFields
  <2>2. t2.state = s /\ t2.pass = tk.pass /\ t2.rid = tk.rid
    BY <1>1 DEF SetStateOnly, TaskT
  <2> QED  BY <2>1, <2>2
<1> HIDE DEF t1, t2
<1>5. \A t : Requeued(t).pass = 0
  BY DEF Requeued
<1>6. task' \in {tk, t1, t2} \/ task'.pass = 0
  BY <1>2, <1>5 DEF AfterStateChange
<1>7. Settles(task, tk) /\ Settles(task, t1) /\ Settles(task, t2)
  BY <1>1, <1>4 DEF Settles, Same
<1> QED  BY <1>3, <1>6, <1>7 DEF Settling, Clearing

LEMMA RunForceShape == ASSUME IInv, RunForce PROVE Renewing
<1> DEFINE t0 == IncrementTryNo(UserFlagged)
<1>1. t0.pass = passes + 1 /\ t0.rid = 0 /\ t0 = [t0 EXCEPT !.pass = passes + 1]
  BY UserZombieType DEF IncrementTryNo, TaskT
<1>2. task' = [t0 EXCEPT !.flags = @ \cup {"SUBMIT_FAILED"}]
  BY DEF RunForce
<1>3. task'.pass = passes + 1 /\ task'.rid = 0
  <2>1. DOMAIN t0 = {"state", "pass", "rid", "tryNo", "flags"}
    BY UserZombieType DEF IncrementTryNo, TaskT
  <2> HIDE DEF t0
  <2> QED  BY <1>1, <1>2, <2>1
<1>4. Untold /\ passes < MaxPasses /\ passes' = passes + 1 /\ procs' = procs
  BY UntoldBy DEF Untold, RunForce
<1> QED  BY <1>3, <1>4 DEF Renewing

LEMMA UserShape ==
    ASSUME IInv, Requeue \/ Run \/ RunForce \/ Kill \/ ZombieCmd
    PROVE  Settling \/ Clearing \/ Renewing
<1>1. CASE Requeue
  BY <1>1, UntoldBy DEF Requeue, Untold, Requeued, Clearing
<1>2. CASE Run
  BY <1>2, SubmitJobShape, UntoldBy DEF Run, Untold
<1>3. CASE RunForce
  BY <1>3, RunForceShape
<1>4. CASE Kill
  <2>1. Same(task, task')
    BY <1>4, Unfold, KillFields DEF Kill
  <2> QED  BY <1>4, <2>1, UntoldBy DEF Kill, Untold, Same, Settles, Settling
<1>5. CASE ZombieCmd
  <2>1. \/ task' = task
        \/ task' = KillFlags(task, zombies[Target].rid)
    BY <1>5 DEF ZombieCmd, ZombieCli, ZombieApi, ZombieKillCli
  <2>2. Same(task, task')
    BY <2>1, Unfold, KillFields DEF Same
  <2> QED  BY <1>5, <2>2, UntoldBy DEF ZombieCmd, Untold, Same, Settles, Settling
<1> QED  BY <1>1, <1>2, <1>3, <1>4, <1>5

LEMMA ApplyShape ==
    ASSUME NEW n \in Nat, NEW h \in HistT(n), NEW p, NEW c, NEW tk, NEW zs,
           Apply(p, c, tk, zs, h), passes' = passes
    PROVE  Applying(p, c, tk, h)
<1> DEFINE O == [h.own EXCEPT ![procs[p].pass] = @ \cup {p}]
           E == IF c \in {"COMPLETE", "ABORT"}
                THEN [h.ends EXCEPT ![procs[p].pass] = @ + 1] ELSE h.ends
<1>1. PICK loop \in Loops :
        /\ task' = Applied(p, c, tk, loop)
        /\ hist' = [h EXCEPT !.own = O, !.ends = E, !.quiet = @ /\ ~(c = "COMPLETE" /\ loop)]
  BY DEF Apply
<1> HIDE DEF O, E
<1>2. hist'.own = O /\ hist'.ends = E
  <2>1. DOMAIN h = {"own", "ends", "quiet", "forced"}
    BY DEF HistT
  <2>2. \A x : LET g == [h EXCEPT !.own = O, !.ends = E, !.quiet = x]
               IN  g.own = O /\ g.ends = E
    BY <2>1
  <2> QED  BY <1>1, <2>2
<1> QED  BY <1>1, <1>2 DEF Applying, O, E

LEMMA UserActionShape ==
    ASSUME IInv, NEW p \in Procs, NEW c \in ChildCmds, NEW reply, NEW z, NEW zs,
           UserAction(p, c, RidOf(p, c), z, zs, reply), passes' = passes
    PROVE  Adopting(p, c) \/ (Untold /\ Same(task, task'))
<1> DEFINE n == Len(procs)
           pass == procs[p].pass
           rid == RidOf(p, c)
           tz == [task EXCEPT !.flags = @ \cup {"ZOMBIE"}]
           tu == [task EXCEPT !.flags = @ \ {"ZOMBIE"}]
           ta == [task EXCEPT !.pass = pass, !.rid = rid, !.flags = @ \ {"ZOMBIE"}]
           ha == [hist EXCEPT !.own[pass] = {}, !.ends[pass] = 0, !.forced = "no",
                              !.quiet = FALSE]
           hq == [hist EXCEPT !.quiet = FALSE]
           rest == RemoveFound(zs, rid, pass)
<1>1. n \in Nat /\ passes \in Nat /\ p \in 1..n /\ p \in 0..n /\ 0 \in 0..n
        /\ task \in TaskT(passes, n) /\ hist \in HistT(n)
  BY Unfold DEF Procs
<1>2. tz \in TaskT(passes, n) /\ Same(task, tz) /\ Same(task, tu)
  BY <1>1, FlagType, FlagFields DEF Flags
<1>3. pass \in 0..passes /\ rid \in 0..n
  <2>1. procs[p] \in ProcT(passes)
    BY ProcsType DEF ProcStates
  <2> QED  BY <2>1, <1>1 DEF ProcT, RidOf
<1>4. \/ Apply(p, c, ta, rest, ha)
      \/ task' \in {tz, tu, KillFlags(tz, z.rid)} /\ hist' \in {hist, hq}
  BY DEF UserAction
<1>5. CASE Apply(p, c, ta, rest, ha)
  <2> HIDE DEF pass, rid, n
  <2>1. ta \in TaskT(passes, n) /\ ta.state = task.state /\ ta.pass = pass /\ ta.rid = rid
    BY <1>1, <1>3 DEF TaskT
  <2>2. ha \in HistT(n)
    BY <1>1, HistType
  <2>3. ha.own = [hist.own EXCEPT ![pass] = {}] /\ ha.ends = [hist.ends EXCEPT ![pass] = 0]
    BY <1>1 DEF HistT
  <2> HIDE DEF ta, ha, rest
  <2>4. Applying(p, c, ta, ha)
    BY <1>1, <1>5, <2>2, ApplyShape
  <2> QED  BY <2>1, <2>3, <2>4 DEF Adopting, pass, rid, n
<1>6. CASE task' \in {tz, tu, KillFlags(tz, z.rid)} /\ hist' \in {hist, hq}
  <2> HIDE DEF tz, tu, n
  <2>1. Same(tz, KillFlags(tz, z.rid))
    BY <1>1, <1>2, KillFields
  <2>2. Untold
    BY <1>6, UntoldBy DEF Untold
  <2> QED  BY <1>2, <1>6, <2>1, <2>2 DEF Same
<1> QED  BY <1>4, <1>5, <1>6

LEMMA ChildCmdShape ==
    ASSUME IInv, NEW p \in Procs, NEW c \in ChildCmds, NEW reply, ChildCmd(p, c, reply)
    PROVE  Accepting(p, c) \/ Adopting(p, c) \/ Answering(p, c)
<1> DEFINE rid == RidOf(p, c)
           verdict == Verdict(c, procs[p].pass, rid)
<1>1. c \in Sends(p) /\ passes' = passes
  BY DEF ChildCmd
<1>2. \/ verdict = "again" /\ AnswerAgain(c)
      \/ verdict = "accept" /\ Apply(p, c, task, zombies, hist)
      \/ verdict = "zombie" /\ HandleZombie(p, c, rid, reply)
  BY DEF ChildCmd, RidOf
<1>3. PICK x \in ProcStates : procs' = [procs EXCEPT ![p].next = x]
  <2>1. PICK received : procs' = [procs EXCEPT ![p].next = NextOf(c, received)]
    BY DEF ChildCmd
  <2>2. NextOf(c, received) \in ProcStates
    BY NextOfType
  <2> QED  BY <2>1, <2>2
<1> HIDE DEF rid, verdict
<1>4. CASE verdict = "again" /\ AnswerAgain(c)
  <2>1. task' \in {task, [task EXCEPT !.flags = @ \ {"ZOMBIE"}]} /\ Untold
    BY <1>4 DEF AnswerAgain, Untold
  <2>2. Same(task, task')
    BY <2>1, Unfold DEF Same, TaskT
  <2> QED  BY <1>1, <1>3, <1>4, <2>1, <2>2 DEF Answering, rid, verdict
<1>5. CASE verdict = "accept" /\ Apply(p, c, task, zombies, hist)
  <2>1. Applying(p, c, task, hist)
    BY <1>1, <1>5, Unfold, ApplyShape
  <2> QED  BY <1>1, <1>5, <2>1 DEF Accepting, rid, verdict
<1>6. CASE verdict = "zombie" /\ HandleZombie(p, c, rid, reply)
  <2>1. PICK z, zs : UserAction(p, c, rid, z, zs, reply)
    BY <1>6 DEF HandleZombie
  <2>2. Adopting(p, c) \/ (Untold /\ Same(task, task'))
    BY <1>1, <2>1, UserActionShape DEF rid
  <2> QED  BY <1>1, <1>3, <1>6, <2>2 DEF Answering, rid, verdict
<1> QED  BY <1>2, <1>4, <1>5, <1>6

LEMMA StepShape ==
    ASSUME IInv, ForceStates \subseteq Ended, [Next]_vars
    PROVE  Shaped
<1>1. CASE GenerateJob
  BY <1>1, SubmitJobShape, UntoldBy DEF GenerateJob, Untold, Shaped
<1>2. CASE JobCmdFails
  BY <1>2, JobCmdFailsShape DEF Shaped
<1>3. CASE GenerateNothing \/ JobCmdSucceeds \/ RemoveStaleZombie \/ UNCHANGED vars
  <2>1. task' = task /\ procs' = procs /\ passes' = passes /\ hist' = hist
    BY <1>3 DEF GenerateNothing, JobCmdSucceeds, RemoveStaleZombie, vars
  <2> QED  BY <2>1 DEF Untold, Settles, Settling, Shaped
<1>4. ASSUME NEW p \in Procs, NEW c \in ChildCmds, NEW reply, ChildCmd(p, c, reply)
      PROVE  Shaped
  BY <1>4, ChildCmdShape DEF Shaped
<1>5. ASSUME NEW p \in Procs, GiveUp(p) \/ Signalled(p) \/ Duplicate(p)
      PROVE  Shaped
  BY <1>5, ProcessShape DEF Shaped
<1>6. CASE Requeue \/ Run \/ RunForce \/ Kill \/ ZombieCmd
  BY <1>6, UserShape DEF Shaped
<1>7. ASSUME NEW s \in ForceStates, ForceCmd(s)
      PROVE  Shaped
  BY <1>7, ForceShape DEF Shaped
<1> QED  BY <1>1, <1>2, <1>3, <1>4, <1>5, <1>6, <1>7 DEF Next, ChildCmds

-----------------------------------------------------------------------------
(***************************************************************************)
(* A submission ends once.  While the task is neither complete nor         *)
(* aborted no end has been applied under its password, and no password is  *)
(* known before it is generated.  A state forced on a task keeps its       *)
(* password: if users force only complete and aborted, a submission that   *)
(* ended is not opened again.                                              *)
(***************************************************************************)
W == 1..MaxPasses

Unused == \A w \in W : w > passes => hist.own[w] = {} /\ hist.ends[w] = 0

OpenNotEnded ==
    \A w \in W : task.pass = w /\ task.state \notin Ended => hist.ends[w] = 0

EndsInv == IInv /\ passes <= MaxPasses /\ Unused /\ EndsOnce /\ OpenNotEnded

LEMMA Domains ==
    ASSUME IInv, passes <= MaxPasses
    PROVE  /\ hist.own \in [W -> SUBSET Procs] /\ hist.ends \in [W -> Nat]
           /\ passes \in Nat /\ MaxPasses \in Nat
           /\ \A p \in Procs : procs[p].pass \in W /\ procs[p].pass \in 1..passes
<1>1. hist.own \in [W -> SUBSET Procs] /\ hist.ends \in [W -> Nat]
  BY Unfold DEF HistT, Procs, W
<1>2. passes \in Nat /\ MaxPasses \in Nat
  BY Unfold, JobsAssumption
<1>3. ASSUME NEW p \in Procs  PROVE procs[p].pass \in 1..passes
  BY ProcsType DEF ProcT, ProcStates
<1> QED  BY <1>1, <1>2, <1>3 DEF W

LEMMA AcceptingEffect ==
    ASSUME IInv, passes <= MaxPasses, NEW p \in Procs, NEW c \in ChildCmds, Accepting(p, c)
    PROVE  LET v == procs[p].pass
               ended == c \in {"COMPLETE", "ABORT"}
           IN  /\ v \in W /\ passes' = passes /\ v <= passes
               /\ task.pass = v /\ task.state \notin Ended
               /\ task.rid = 0 \/ RidOf(p, c) = 0 \/ task.rid = RidOf(p, c)
               /\ hist'.own[v] = hist.own[v] \cup {p}
               /\ hist'.ends[v] = IF ended THEN hist.ends[v] + 1 ELSE hist.ends[v]
               /\ \A w \in W : w # v => hist'.own[w] = hist.own[w] /\ hist'.ends[w] = hist.ends[w]
               /\ c = "INIT" => task'.state = "ACTIVE" /\ task'.pass = v /\ task'.rid = p
               /\ c = "COMPLETE" => task'.pass = 0
               /\ c = "ABORT" => task'.state = "ABORTED" /\ task'.pass = v
               /\ c = "LABEL" => task' = task
<1> DEFINE v == procs[p].pass
<1>1. v \in W /\ v <= passes /\ hist.own \in [W -> SUBSET Procs] /\ hist.ends \in [W -> Nat]
  BY Domains
<1>2. /\ task.pass = v /\ task.state \notin Ended
      /\ task.rid = 0 \/ RidOf(p, c) = 0 \/ task.rid = RidOf(p, c)
  BY DEF Accepting, Verdict, Recognised, PidMiss, Ended
<1>3. /\ hist'.own = [hist.own EXCEPT ![v] = @ \cup {p}] /\ passes' = passes
      /\ hist'.ends = IF c \in {"COMPLETE", "ABORT"}
                      THEN [hist.ends EXCEPT ![v] = @ + 1] ELSE hist.ends
  BY DEF Accepting, Applying
<1>4. PICK loop \in Loops : task' = Applied(p, c, task, loop)
  BY DEF Accepting, Applying
<1>5. /\ c = "INIT" => task'.state = "ACTIVE" /\ task'.pass = task.pass /\ task'.rid = p
      /\ c = "COMPLETE" => task'.pass = 0
      /\ c = "ABORT" => task'.state = "ABORTED" /\ task'.pass = task.pass
      /\ c = "LABEL" => task' = task
  BY <1>4, Unfold, AppliedFields
<1> HIDE DEF v
<1>6. /\ hist'.own[v] = hist.own[v] \cup {p}
      /\ hist'.ends[v] = IF c \in {"COMPLETE", "ABORT"} THEN hist.ends[v] + 1 ELSE hist.ends[v]
      /\ \A w \in W : w # v => hist'.own[w] = hist.own[w] /\ hist'.ends[w] = hist.ends[w]
  BY <1>1, <1>3
<1> QED  BY <1>1, <1>2, <1>3, <1>5, <1>6 DEF v

LEMMA AdoptingEffect ==
    ASSUME IInv, passes <= MaxPasses, NEW p \in Procs, NEW c \in ChildCmds, Adopting(p, c)
    PROVE  LET v == procs[p].pass
               ended == c \in {"COMPLETE", "ABORT"}
           IN  /\ v \in W /\ passes' = passes /\ v <= passes
               /\ hist'.own[v] = {p}
               /\ hist'.ends[v] = IF ended THEN 1 ELSE 0
               /\ \A w \in W : w # v => hist'.own[w] = hist.own[w] /\ hist'.ends[w] = hist.ends[w]
               /\ c = "INIT" => task'.state = "ACTIVE" /\ task'.pass = v /\ task'.rid = p
               /\ c = "COMPLETE" => task'.pass = 0
               /\ c = "ABORT" => task'.state = "ABORTED" /\ task'.pass = v
               /\ c = "LABEL" => task'.pass = v /\ task'.rid = RidOf(p, c)
<1> DEFINE v == procs[p].pass
<1>1. v \in W /\ v <= passes /\ hist.own \in [W -> SUBSET Procs] /\ hist.ends \in [W -> Nat]
  BY Domains
<1>2. PICK t, h : /\ t \in TaskT(passes, Len(procs))
                  /\ t.state = task.state /\ t.pass = v /\ t.rid = RidOf(p, c)
                  /\ h.own = [hist.own EXCEPT ![v] = {}]
                  /\ h.ends = [hist.ends EXCEPT ![v] = 0]
                  /\ Applying(p, c, t, h)
  BY DEF Adopting
<1>3. /\ hist'.own = [h.own EXCEPT ![v] = @ \cup {p}] /\ passes' = passes
      /\ hist'.ends = IF c \in {"COMPLETE", "ABORT"}
                      THEN [h.ends EXCEPT ![v] = @ + 1] ELSE h.ends
  BY <1>2 DEF Applying
<1>4. PICK loop \in Loops : task' = Applied(p, c, t, loop)
  BY <1>2 DEF Applying
<1>5. /\ c = "INIT" => task'.state = "ACTIVE" /\ task'.pass = t.pass /\ task'.rid = p
      /\ c = "COMPLETE" => task'.pass = 0
      /\ c = "ABORT" => task'.state = "ABORTED" /\ task'.pass = t.pass
      /\ c = "LABEL" => task' = t
  BY <1>2, <1>4, Unfold, AppliedFields
<1> HIDE DEF v
<1>6. /\ h.own \in [W -> SUBSET Procs] /\ h.own[v] = {}
      /\ h.ends \in [W -> Nat] /\ h.ends[v] = 0
      /\ \A w \in W : w # v => h.own[w] = hist.own[w] /\ h.ends[w] = hist.ends[w]
  BY <1>1, <1>2
<1>7. /\ hist'.own[v] = {p}
      /\ \A w \in W : w # v => hist'.own[w] = hist.own[w]
  BY <1>1, <1>3, <1>6
<1>8. /\ hist'.ends[v] = IF c \in {"COMPLETE", "ABORT"} THEN 1 ELSE 0
      /\ \A w \in W : w # v => hist'.ends[w] = hist.ends[w]
  BY <1>1, <1>3, <1>6
<1> QED  BY <1>1, <1>2, <1>3, <1>5, <1>7, <1>8 DEF v

LEMMA EndsStep ==
    ASSUME EndsInv, Shaped
    PROVE  passes' <= MaxPasses /\ Unused' /\ EndsOnce' /\ OpenNotEnded'
<1> USE DEF EndsInv
<1>1. /\ hist.own \in [W -> SUBSET Procs] /\ hist.ends \in [W -> Nat]
      /\ passes \in Nat /\ MaxPasses \in Nat
  BY Domains
<1>2. CASE Settling \/ Clearing
  <2>1. Untold /\ passes' = passes
    BY <1>2 DEF Settling, Clearing
  <2>2. Unused' /\ EndsOnce'
    BY <2>1 DEF Untold, Unused, EndsOnce, W
  <2>3. ASSUME NEW w \in W, task'.pass = w, task'.state \notin Ended
        PROVE  task.pass = w /\ task.state \notin Ended
    BY <1>2, <2>3 DEF Settling, Clearing, Settles, W
  <2>4. OpenNotEnded'
    BY <2>1, <2>3 DEF Untold, OpenNotEnded, W
  <2> QED  BY <2>1, <2>2, <2>4
<1>3. CASE Renewing
  <2>1. Untold /\ passes' = passes + 1 /\ passes < MaxPasses /\ task'.pass = passes + 1
    BY <1>3 DEF Renewing
  <2>2. Unused' /\ EndsOnce' /\ passes' <= MaxPasses
    BY <1>1, <2>1 DEF Untold, Unused, EndsOnce, W
  <2>3. OpenNotEnded'
    BY <1>1, <2>1 DEF Untold, OpenNotEnded, Unused, W
  <2> QED  BY <2>2, <2>3
<1>4. ASSUME NEW p \in Procs, NEW c \in ChildCmds, Accepting(p, c) \/ Adopting(p, c)
      PROVE  passes' <= MaxPasses /\ Unused' /\ EndsOnce' /\ OpenNotEnded'
  <2> DEFINE v == procs[p].pass
  <2>1. /\ v \in W /\ passes' = passes /\ v <= passes
        /\ hist'.ends[v] = IF c \in {"COMPLETE", "ABORT"} THEN 1 ELSE 0
        /\ \A w \in W : w # v => hist'.own[w] = hist.own[w] /\ hist'.ends[w] = hist.ends[w]
        /\ c = "COMPLETE" => task'.pass = 0
        /\ c = "ABORT" => task'.state = "ABORTED"
        /\ c \in {"INIT", "LABEL"} => task'.pass = v
        /\ task'.pass \in {0, v}
    <3>1. CASE Accepting(p, c)
      <4>1. hist.ends[v] = 0
        BY <3>1, AcceptingEffect DEF OpenNotEnded
      <4> QED  BY <3>1, <4>1, AcceptingEffect DEF ChildCmds
    <3>2. CASE Adopting(p, c)
      BY <3>2, AdoptingEffect DEF ChildCmds
    <3> QED  BY <1>4, <3>1, <3>2
  <2> HIDE DEF v
  <2>2. \A w \in W : w > passes => w # v
    BY <1>1, <2>1 DEF W
  <2>3. Unused'
    BY <2>1, <2>2 DEF Unused, W
  <2>4. EndsOnce'
    BY <2>1 DEF EndsOnce, W
  <2>5. OpenNotEnded'
    <3> SUFFICES ASSUME NEW w \in W, task'.pass = w, task'.state \notin Ended
                 PROVE  hist'.ends[w] = 0
      BY DEF OpenNotEnded, W
    <3>1. w = v /\ c \notin {"COMPLETE", "ABORT"}
      BY <2>1 DEF W, Ended
    <3> QED  BY <2>1, <3>1
  <2> QED  BY <2>1, <2>3, <2>4, <2>5
<1>5. ASSUME NEW p \in Procs, NEW c \in ChildCmds, Answering(p, c)
      PROVE  passes' <= MaxPasses /\ Unused' /\ EndsOnce' /\ OpenNotEnded'
  BY <1>5 DEF Answering, Untold, Same, Unused, EndsOnce, OpenNotEnded, W
<1> QED  BY <1>2, <1>3, <1>4, <1>5 DEF Shaped

LEMMA EndsInit == Init => EndsInv
<1> SUFFICES ASSUME Init PROVE EndsInv
  OBVIOUS
<1>1. IInv
  BY InitInv
<1>2. passes = 0 /\ task.pass = 0 /\ MaxPasses \in Nat
  BY JobsAssumption DEF Init
<1>3. \A w \in W : hist.own[w] = {} /\ hist.ends[w] = 0
  BY DEF Init, W
<1> QED  BY <1>1, <1>2, <1>3 DEF EndsInv, Unused, EndsOnce, OpenNotEnded, W

LEMMA EndsInvStep ==
    ASSUME ForceStates \subseteq Ended
    PROVE  EndsInv /\ [Next]_vars => EndsInv'
BY StepInv, StepShape, EndsStep DEF EndsInv

\* A submission ends at most once: however often and however late complete and
\* abort are sent again, by however many processes, at most one is applied
\* under a job password (TaskCmd::authenticate).  Users may requeue, run, kill,
\* adopt and force the task complete or aborted; the states left out are the
\* ones with which a user opens a submission that ended.
THEOREM SubmissionEndsOnce ==
    ASSUME ForceStates \subseteq Ended
    PROVE  Spec => []EndsOnce
<1>1. EndsInv => EndsOnce
  BY DEF EndsInv
<1> QED  BY <1>1, EndsInit, EndsInvStep, PTL DEF Spec

-----------------------------------------------------------------------------
(***************************************************************************)
(* One process owns a password.  While the task is open, the commands      *)
(* applied under its password came from the process whose rid the task     *)
(* has; and as long as it has none, no process that knows the password has *)
(* got past init, and none exists if the task is active (it was submitted  *)
(* over a running job, and no job was created).                            *)
(***************************************************************************)
Unheard ==
    /\ hist.own[task.pass] = {}
    /\ \A p \in Procs : procs[p].pass = task.pass =>
          task.state # "ACTIVE" /\ procs[p].next \in Waiting

OpenOwned ==
    task.pass # 0 /\ task.state \notin Ended =>
        IF task.rid = 0 THEN Unheard ELSE hist.own[task.pass] \subseteq {task.rid}

OwnInv == EndsInv /\ OneProcessPerPassword /\ OpenOwned

LEMMA MoveProc ==
    ASSUME IInv, NEW p \in Procs, NEW x \in ProcStates,
           procs' = [procs EXCEPT ![p].next = x]
    PROVE  /\ Procs' = Procs
           /\ procs'[p].pass = procs[p].pass /\ procs'[p].next = x
           /\ \A q \in Procs : q # p => procs'[q] = procs[q]
<1>1. p \in 1..Len(procs) /\ procs \in Seq(ProcT(passes)) /\ procs[p] \in ProcT(passes)
        /\ Len(procs') = Len(procs)
  BY ProcsType, Unfold
<1>2. Procs' = Procs
  BY <1>1 DEF Procs
<1>3. \A q \in Procs : q \in DOMAIN procs
  BY <1>1 DEF Procs
<1>4. procs'[p] = [procs[p] EXCEPT !.next = x]
  BY <1>3
<1>5. \A q \in Procs : q # p => procs'[q] = procs[q]
  BY <1>3
<1> QED  BY <1>1, <1>2, <1>4, <1>5 DEF ProcT

LEMMA SpawnProc ==
    ASSUME IInv, NEW v \in Nat, v # 0, procs' = Spawn(v)
    PROVE  LET n == Len(procs) + 1
           IN  /\ n \notin Procs /\ Procs' = Procs \cup {n}
               /\ procs'[n].pass = v /\ procs'[n].next = "INIT"
               /\ \A q \in Procs : procs'[q] = procs[q]
<1> DEFINE n == Len(procs) + 1
           new == [pass |-> v, next |-> "INIT"]
<1>1. procs \in Seq(ProcT(passes)) /\ Len(procs) \in Nat
  BY Unfold
<1>2. procs' = Append(procs, new)
  BY DEF Spawn
<1>3. /\ Len(procs') = n /\ procs'[n] = new
      /\ \A q \in 1..Len(procs) : procs'[q] = procs[q]
  BY <1>1, <1>2
<1>4. n \notin Procs /\ Procs' = Procs \cup {n}
  BY <1>1, <1>3 DEF Procs
<1> QED  BY <1>3, <1>4 DEF Procs

\* The steps that apply no command keep the processes of an open task that
\* has no rid where they are: what they send is accepted.
LEMMA UnheardKept ==
    ASSUME EndsInv, task.pass # 0, task.state \notin Ended, task.rid = 0, Unheard,
           \/ Settling
           \/ \E p \in Procs, c \in ChildCmds : Answering(p, c),
           task'.state \notin Ended
    PROVE  Unheard'
<1> USE DEF EndsInv
<1>1. /\ Untold /\ task'.pass = task.pass /\ task'.state = task.state
  BY DEF Settling, Settles, Answering, Same
<1>2. SUFFICES \A p \in Procs' : procs'[p].pass = task.pass =>
                  task.state # "ACTIVE" /\ procs'[p].next \in Waiting
  BY <1>1 DEF Unheard, Untold
<1>3. CASE procs' = procs
  BY <1>3 DEF Unheard, Procs
<1>4. ASSUME NEW p \in Procs, NEW x \in {"ABORT", "DONE"}, procs' = [procs EXCEPT ![p].next = x]
      PROVE  \A q \in Procs' : procs'[q].pass = task.pass =>
                  task.state # "ACTIVE" /\ procs'[q].next \in Waiting
  <2>1. x \in ProcStates /\ x \in Waiting
    BY DEF ProcStates, Waiting
  <2>2. /\ Procs' = Procs
        /\ procs'[p].pass = procs[p].pass /\ procs'[p].next = x
        /\ \A q \in Procs : q # p => procs'[q] = procs[q]
    BY <1>4, <2>1, MoveProc
  <2> QED  BY <2>1, <2>2 DEF Unheard
<1>5. ASSUME NEW p \in Procs, procs' = Spawn(procs[p].pass)
      PROVE  \A q \in Procs' : procs'[q].pass = task.pass =>
                  task.state # "ACTIVE" /\ procs'[q].next \in Waiting
  <2>1. procs[p].pass \in Nat /\ procs[p].pass # 0
    BY Domains DEF W
  <2> QED  BY <1>5, <2>1, SpawnProc DEF Unheard, Waiting
<1>6. ASSUME NEW p \in Procs, NEW c \in ChildCmds, Answering(p, c)
      PROVE  \A q \in Procs' : procs'[q].pass = task.pass =>
                  task.state # "ACTIVE" /\ procs'[q].next \in Waiting
  <2>1. PICK x \in ProcStates : procs' = [procs EXCEPT ![p].next = x]
    BY <1>6 DEF Answering
  <2>2. procs[p].pass # task.pass
    <3> SUFFICES ASSUME procs[p].pass = task.pass PROVE FALSE
      OBVIOUS
    <3>1. task.state # "ACTIVE" /\ c \in Sends(p) /\ procs[p].next \in Waiting
      BY <1>6 DEF Unheard, Answering
    <3>2. Verdict(c, procs[p].pass, RidOf(p, c)) = "accept"
      <4>1. c \in {"INIT", "ABORT"}
        BY <3>1 DEF Sends, Waiting
      <4> QED  BY <3>1, <4>1 DEF Verdict, Recognised, PidMiss, Ended
    <3> QED  BY <1>6, <3>2 DEF Answering
  <2>3. /\ Procs' = Procs /\ procs'[p].pass = procs[p].pass
        /\ \A q \in Procs : q # p => procs'[q] = procs[q]
    BY <2>1, MoveProc
  <2> QED  BY <2>2, <2>3 DEF Unheard
<1> QED  BY <1>3, <1>4, <1>5, <1>6 DEF Settling

LEMMA OwnStep ==
    ASSUME OwnInv, ExportsRid, Shaped
    PROVE  OneProcessPerPassword' /\ OpenOwned'
<1> USE DEF OwnInv, EndsInv
<1>1. /\ hist.own \in [W -> SUBSET Procs] /\ hist.ends \in [W -> Nat]
      /\ passes \in Nat /\ MaxPasses \in Nat
      /\ \A p \in Procs : procs[p].pass \in W /\ procs[p].pass \in 1..passes
  BY Domains
<1>2. ASSUME Untold  PROVE OneProcessPerPassword'
  BY <1>2 DEF Untold, OneProcessPerPassword
<1>3. ASSUME Settling \/ \E p \in Procs, c \in ChildCmds : Answering(p, c)
      PROVE  OneProcessPerPassword' /\ OpenOwned'
  <2>1. Untold /\ Settles(task, task')
    BY <1>3 DEF Settling, Answering, Same, Settles
  <2>2. ASSUME task'.pass # 0, task'.state \notin Ended
        PROVE  IF task'.rid = 0 THEN Unheard' ELSE hist'.own[task'.pass] \subseteq {task'.rid}
    <3>1. task.pass # 0 /\ task.state \notin Ended /\ task'.pass = task.pass /\ task'.rid = task.rid
      BY <2>1, <2>2 DEF Settles
    <3>2. CASE task.rid = 0
      <4>1. Unheard
        BY <3>1, <3>2 DEF OpenOwned
      <4>2. Unheard'
        BY <1>3, <2>2, <3>1, <3>2, <4>1, UnheardKept
      <4> QED  BY <3>1, <3>2, <4>2
    <3>3. CASE task.rid # 0
      BY <2>1, <3>1, <3>3 DEF OpenOwned, Untold
    <3> QED  BY <3>2, <3>3
  <2>3. OpenOwned'
    BY <2>2 DEF OpenOwned
  <2> QED  BY <1>2, <2>1, <2>3
<1>4. CASE Clearing
  BY <1>2, <1>4 DEF Clearing, OpenOwned
<1>5. CASE Renewing
  <2> DEFINE v == passes + 1
  <2>1. /\ Untold /\ passes < MaxPasses /\ task'.pass = v /\ task'.rid = 0
        /\ procs' = procs \/ (procs' = Spawn(v) /\ task'.state = "SUBMITTED")
    BY <1>5 DEF Renewing
  <2>2. hist'.own[v] = {}
    BY <1>1, <2>1 DEF Unused, W, Untold
  <2>3. v \in Nat /\ v # 0 /\ \A p \in Procs : procs[p].pass # v
    BY <1>1
  <2> HIDE DEF v
  <2>4. \A p \in Procs' : procs'[p].pass = v =>
             task'.state # "ACTIVE" /\ procs'[p].next \in Waiting
    <3>1. CASE procs' = procs
      BY <2>3, <3>1 DEF Procs
    <3>2. CASE procs' = Spawn(v) /\ task'.state = "SUBMITTED"
      BY <2>3, <3>2, SpawnProc DEF Waiting
    <3> QED  BY <2>1, <3>1, <3>2
  <2>5. Unheard'
    BY <2>1, <2>2, <2>4 DEF Unheard
  <2> QED  BY <1>2, <2>1, <2>5 DEF OpenOwned
<1>6. ASSUME NEW p \in Procs, NEW c \in ChildCmds, Accepting(p, c)
      PROVE  OneProcessPerPassword' /\ OpenOwned'
  <2> DEFINE v == procs[p].pass
  <2>1. /\ v \in W /\ v # 0 /\ p # 0 /\ task.pass = v /\ task.state \notin Ended
        /\ task.rid \in {0, p}
        /\ hist'.own[v] = hist.own[v] \cup {p}
        /\ \A w \in W : w # v => hist'.own[w] = hist.own[w]
        /\ c = "INIT" => task'.state = "ACTIVE" /\ task'.pass = v /\ task'.rid = p
        /\ c = "COMPLETE" => task'.pass = 0
        /\ c = "ABORT" => task'.state = "ABORTED" /\ task'.pass = v
        /\ c = "LABEL" => task' = task
    <3>1. v # 0 /\ p # 0 /\ RidOf(p, c) = p
      BY <1>1, Unfold DEF Procs, RidOf
    <3> QED  BY <1>6, <3>1, AcceptingEffect
  <2>2. hist.own[v] \subseteq {p}
    BY <2>1 DEF OpenOwned, Unheard
  <2>3. hist'.own[v] = {p}
    BY <2>1, <2>2
  <2>4. OneProcessPerPassword'
    <3>1. ASSUME NEW w \in W  PROVE hist'.own[w] \in {hist.own[w], {p}}
      BY <2>1, <2>3
    <3> QED  BY <3>1 DEF OneProcessPerPassword, W
  <2>5. c = "LABEL" => task.rid = p
    <3> SUFFICES ASSUME c = "LABEL", task.rid = 0 PROVE FALSE
      BY <2>1
    <3>1. Unheard
      BY <2>1 DEF OpenOwned
    <3>2. procs[p].next \in Waiting
      BY <2>1, <3>1 DEF Unheard
    <3>3. c \in Sends(p)
      BY <1>6 DEF Accepting
    <3> QED  BY <3>2, <3>3 DEF Sends, Waiting
  <2>6. OpenOwned'
    <3> SUFFICES ASSUME task'.pass # 0, task'.state \notin Ended
                 PROVE  task'.pass = v /\ task'.rid = p
      BY <2>1, <2>3 DEF OpenOwned
    <3> HIDE DEF v
    <3> QED  BY <2>1, <2>5 DEF ChildCmds, Ended
  <2> QED  BY <2>4, <2>6
<1>7. ASSUME NEW p \in Procs, NEW c \in ChildCmds, Adopting(p, c)
      PROVE  OneProcessPerPassword' /\ OpenOwned'
  <2> DEFINE v == procs[p].pass
  <2>1. /\ v \in W /\ p # 0
        /\ hist'.own[v] = {p}
        /\ \A w \in W : w # v => hist'.own[w] = hist.own[w]
        /\ c \in {"INIT", "LABEL"} => task'.pass = v /\ task'.rid = p
        /\ c = "COMPLETE" => task'.pass = 0
        /\ c = "ABORT" => task'.state = "ABORTED"
    <3>1. p # 0 /\ RidOf(p, c) = p
      BY <1>1, Unfold DEF Procs, RidOf
    <3> QED  BY <1>7, <3>1, AdoptingEffect
  <2>2. OneProcessPerPassword'
    <3>1. ASSUME NEW w \in W  PROVE hist'.own[w] \in {hist.own[w], {p}}
      BY <2>1
    <3> QED  BY <3>1 DEF OneProcessPerPassword, W
  <2>3. OpenOwned'
    <3> SUFFICES ASSUME task'.pass # 0, task'.state \notin Ended
                 PROVE  task'.pass = v /\ task'.rid = p
      BY <2>1 DEF OpenOwned
    <3> HIDE DEF v
    <3> QED  BY <2>1 DEF ChildCmds, Ended
  <2> QED  BY <2>2, <2>3
<1> QED  BY <1>3, <1>4, <1>5, <1>6, <1>7 DEF Shaped

LEMMA OwnInit == Init => OwnInv
<1> SUFFICES ASSUME Init PROVE OwnInv
  OBVIOUS
<1>1. EndsInv
  BY EndsInit
<1>2. OneProcessPerPassword
  BY DEF Init, OneProcessPerPassword
<1>3. OpenOwned
  BY DEF Init, OpenOwned
<1> QED  BY <1>1, <1>2, <1>3 DEF OwnInv

LEMMA OwnInvStep ==
    ASSUME ForceStates \subseteq Ended, ExportsRid
    PROVE  OwnInv /\ [Next]_vars => OwnInv'
<1> SUFFICES ASSUME OwnInv, [Next]_vars PROVE OwnInv'
  OBVIOUS
<1>1. IInv /\ EndsInv
  BY DEF OwnInv, EndsInv
<1>2. EndsInv' /\ Shaped
  BY <1>1, EndsInvStep, StepShape
<1>3. OneProcessPerPassword' /\ OpenOwned'
  BY <1>2, OwnStep
<1> QED  BY <1>2, <1>3 DEF OwnInv

\* All the child commands applied under one job password come from one process,
\* although the queuing system may start any number of processes with it and
\* users may requeue, run, kill, adopt and force: the rid that the first init
\* leaves in the task keeps the others out (TaskCmd::authenticate).  It needs
\* job scripts that export ECF_RID, as a command without rid is not compared.
THEOREM PasswordHasOneProcess ==
    ASSUME ForceStates \subseteq Ended, ExportsRid
    PROVE  Spec => []OneProcessPerPassword
<1>1. OwnInv => OneProcessPerPassword
  BY DEF OwnInv
<1> QED  BY <1>1, OwnInit, OwnInvStep, PTL DEF Spec

-----------------------------------------------------------------------------
(***************************************************************************)
(* Commands that are sent again.  As long as only replies are lost, at most*)
(* one live process has the last password, and the task is in a state in   *)
(* which what this process sends next is accepted, or answered because it  *)
(* has happened already.  The live processes of earlier submissions all    *)
(* send an abort that was applied: the server submits an aborted task only.*)
(***************************************************************************)
\* A process of the last submission.
Fits(p) ==
    LET next == procs[p].next
    IN  /\ next \in {"INIT", "WORK", "ABORT"} => task.pass = procs[p].pass
        /\ next = "INIT" => \/ task.state = "SUBMITTED" /\ task.rid = 0
                            \/ task.state = "ACTIVE" /\ task.rid = p
        /\ next = "WORK" => task.state = "ACTIVE" /\ task.rid = p
        /\ next = "COMPLETE" => task.state = "COMPLETE"
        /\ next = "ABORT" => /\ task.state = "ABORTED" /\ task.rid = p
                             /\ hist.ends[procs[p].pass] # 0

\* A process of an earlier one.
Over(p) ==
    procs[p].next = "DONE" \/ (procs[p].next = "ABORT" /\ hist.ends[procs[p].pass] # 0)

Newest(p) == procs[p].pass = passes

OneLive == \A p, q \in Procs : Newest(p) /\ Newest(q) /\ Live(p) /\ Live(q) => p = q

NoZombie == zombies = <<>> /\ "ZOMBIE" \notin task.flags

Undisturbed ==
    /\ signals = {}
    /\ task.pass \in {0, passes}
    /\ passes <= 1 => NoZombie
    /\ OneLive
    /\ \A p \in Procs : (Newest(p) => Fits(p)) /\ (~Newest(p) => Over(p))

QuietInv == IInv /\ passes <= MaxPasses /\ (hist.quiet => Undisturbed)

\* The state that command c of process p leads to, applied now or before.
Reached(p, c, t) ==
    /\ c \in {"INIT", "LABEL"} => t.state = "ACTIVE" /\ t.pass = procs[p].pass /\ t.rid = p
    /\ c = "COMPLETE" => t.state = "COMPLETE"
    /\ c = "ABORT" => t.state = "ABORTED" /\ t.pass = procs[p].pass /\ t.rid = p

LEMMA QuietBy ==
    ASSUME IInv
    PROVE  /\ Disturbed.quiet = FALSE
           /\ [hist EXCEPT !.quiet = FALSE].quiet = FALSE
           /\ \A f : [Disturbed EXCEPT !.forced = f].quiet = FALSE
           /\ \A f : [hist EXCEPT !.forced = f].quiet = hist.quiet
BY Unfold DEF Disturbed, HistT

LEMMA NothingRemoved == ASSUME NEW rid, NEW pass PROVE RemoveMatch(<<>>, rid, pass) = <<>>
<1>1. {i \in 1..Len(<<>>) : Match(<<>>[i], rid, pass)} = {}
  BY EmptySeq
<1>2. FindMatch(<<>>, rid, pass) = 0
  BY <1>1 DEF FindMatch, SelectInSeq
<1> QED  BY <1>2 DEF RemoveMatch, Without

LEMMA QuietVerdict ==
    ASSUME IInv, Undisturbed, NEW p \in Procs, Newest(p), NEW c \in Sends(p)
    PROVE  LET verdict == Verdict(c, procs[p].pass, RidOf(p, c))
           IN  \/ /\ verdict = "accept" /\ task.pass = procs[p].pass
                  /\ c # "INIT" => task.state = "ACTIVE" /\ task.rid = p
               \/ /\ verdict = "again" /\ Reached(p, c, task) /\ c # "LABEL"
                  /\ c = "ABORT" => hist.ends[procs[p].pass] # 0
<1>1. Fits(p)
  BY DEF Undisturbed
<1>2. CASE procs[p].next = "INIT"
  <2>1. c = "INIT" /\ RidOf(p, c) = p
    BY <1>2 DEF Sends, RidOf
  <2> QED
    BY <1>1, <1>2, <2>1 DEF Fits, Verdict, Recognised, PidMiss, Reached
<1>3. CASE procs[p].next = "WORK"
  <2>1. c \in {"LABEL", "COMPLETE", "ABORT"} /\ RidOf(p, c) \in {0, p}
    BY <1>3 DEF Sends, RidOf
  <2> QED
    BY <1>1, <1>3, <2>1 DEF Fits, Verdict, Recognised, PidMiss
<1>4. CASE procs[p].next = "COMPLETE"
  <2>1. c = "COMPLETE"
    BY <1>4 DEF Sends
  <2> QED  BY <1>1, <1>4, <2>1 DEF Fits, Verdict, Reached
<1>5. CASE procs[p].next = "ABORT"
  <2>1. c = "ABORT" /\ RidOf(p, c) \in {0, p}
    BY <1>5 DEF Sends, RidOf
  <2> QED
    BY <1>1, <1>5, <2>1 DEF Fits, Verdict, Recognised, PidMiss, Reached
<1>6. CASE procs[p].next \notin {"INIT", "WORK", "COMPLETE", "ABORT"}
  <2>1. procs[p].next # "DONE"
    BY <1>6 DEF Sends
  <2>2. procs[p] \in ProcT(passes)
    BY ProcsType DEF ProcStates
  <2> QED  BY <1>6, <2>1, <2>2 DEF ProcT, ProcStates
<1> QED  BY <1>2, <1>3, <1>4, <1>5, <1>6

\* An earlier process can only be refused, and a later submission exists.
LEMMA OverVerdict ==
    ASSUME IInv, Undisturbed, NEW p \in Procs, ~Newest(p), NEW c \in Sends(p)
    PROVE  /\ Verdict(c, procs[p].pass, RidOf(p, c)) = "zombie"
           /\ c = "ABORT" /\ hist.ends[procs[p].pass] # 0
           /\ procs[p].pass < passes /\ ~(passes <= 1)
<1>1. Over(p) /\ task.pass \in {0, passes}
  BY DEF Undisturbed
<1>2. procs[p].next = "ABORT" /\ c = "ABORT" /\ hist.ends[procs[p].pass] # 0
  BY <1>1 DEF Over, Sends
<1>3. procs[p].pass \in 1..passes /\ passes \in Nat
  BY ProcsType, Unfold DEF ProcT, ProcStates
<1>4. procs[p].pass < passes /\ ~(passes <= 1)
  BY <1>3 DEF Newest
<1>5. task.pass # procs[p].pass
  BY <1>1, <1>3 DEF Newest
<1>6. Verdict(c, procs[p].pass, RidOf(p, c)) = "zombie"
  BY <1>2, <1>5 DEF Verdict, Recognised
<1> QED  BY <1>2, <1>4, <1>6

LEMMA AcceptReaches ==
    ASSUME IInv, NEW p \in Procs, NEW c \in ChildCmds, NEW loop \in BOOLEAN,
           task' = Applied(p, c, task, loop), ~(c = "COMPLETE" /\ loop),
           task.pass = procs[p].pass,
           c # "INIT" => task.state = "ACTIVE" /\ task.rid = p
    PROVE  /\ Reached(p, c, task') /\ task'.flags \subseteq task.flags
           /\ task'.pass \in {0, task.pass}
<1> DEFINE T == TaskT(passes, Len(procs))
<1>1. /\ c = "INIT" => task'.state = "ACTIVE" /\ task'.pass = task.pass /\ task'.rid = p
      /\ c = "ABORT" => /\ task'.state = "ABORTED" /\ task'.pass = task.pass
                        /\ task'.rid = task.rid
      /\ c = "LABEL" => task' = task
  BY Unfold, AppliedFields
<1>2. ASSUME NEW s \in States
      PROVE  /\ SetState(task, s) \in T /\ SetState(task, s).state = s
             /\ SetState(task, s).flags \subseteq task.flags
  BY Unfold, SetStateFields
<1>3. "ACTIVE" \in States /\ "COMPLETE" \in States /\ "ABORTED" \in States
  BY DEF States
<1>4. CASE c = "INIT"
  <2> DEFINE t == SetState(task, "ACTIVE")
  <2>1. task' = [t EXCEPT !.rid = p] /\ t \in T /\ t.flags \subseteq task.flags
    BY <1>2, <1>3, <1>4 DEF Applied
  <2> HIDE DEF t
  <2>2. task'.flags = t.flags
    BY <2>1 DEF TaskT
  <2> QED  BY <1>1, <1>4, <2>1, <2>2 DEF Reached
<1>5. CASE c = "LABEL"
  BY <1>1, <1>5 DEF Reached
<1>6. CASE c = "COMPLETE"
  <2> DEFINE t == SetState(task, "COMPLETE")
  <2>1. t \in T /\ t.state = "COMPLETE"
    BY <1>2, <1>3
  <2>2. task' = [t EXCEPT !.flags = @ \ {"ZOMBIE"}, !.pass = 0, !.rid = 0]
    BY <1>6 DEF Applied, AfterStateChange
  <2> HIDE DEF t
  <2>3. task'.state = "COMPLETE" /\ task'.pass = 0 /\ task'.flags = t.flags \ {"ZOMBIE"}
    BY <2>1, <2>2 DEF TaskT
  <2>4. t.flags \subseteq task.flags
    BY <1>2, <1>3 DEF t
  <2> QED  BY <1>6, <2>3, <2>4 DEF Reached
<1>7. CASE c = "ABORT"
  <2>1. task' = SetState(task, "ABORTED")
    BY <1>7 DEF Applied
  <2>2. task'.flags \subseteq task.flags
    BY <1>2, <1>3, <2>1
  <2> QED  BY <1>1, <1>7, <2>2 DEF Reached
<1> QED  BY <1>4, <1>5, <1>6, <1>7 DEF ChildCmds

AppliedTo(p, c, tk) ==
    \E loop \in Loops :
       task' = Applied(p, c, tk, loop) /\ (hist'.quiet => ~(c = "COMPLETE" /\ loop))

LEMMA ApplyHist ==
    ASSUME NEW n \in Nat, NEW h \in HistT(n), NEW p, NEW c, NEW tk, NEW zs,
           Apply(p, c, tk, zs, h)
    PROVE  /\ hist'.quiet => h.quiet
           /\ hist'.forced = h.forced
           /\ AppliedTo(p, c, tk)
<1> DEFINE O == [h.own EXCEPT ![procs[p].pass] = @ \cup {p}]
           E == IF c \in {"COMPLETE", "ABORT"}
                THEN [h.ends EXCEPT ![procs[p].pass] = @ + 1] ELSE h.ends
<1>1. PICK loop \in Loops :
        /\ task' = Applied(p, c, tk, loop)
        /\ hist' = [h EXCEPT !.own = O, !.ends = E, !.quiet = @ /\ ~(c = "COMPLETE" /\ loop)]
  BY DEF Apply
<1> DEFINE Q == h.quiet /\ ~(c = "COMPLETE" /\ loop)
<1>2. hist' = [h EXCEPT !.own = O, !.ends = E, !.quiet = Q]
  BY <1>1
<1>3. DOMAIN h = {"own", "ends", "quiet", "forced"}
  BY DEF HistT
<1> HIDE DEF O, E, Q
<1>4. hist'.quiet = Q /\ hist'.forced = h.forced
  BY <1>2, <1>3
<1> QED  BY <1>1, <1>4 DEF Q, AppliedTo

\* An end that was counted stays counted, and the end applied now is.
LEMMA EndsKept ==
    ASSUME QuietInv, NEW p \in Procs, NEW c, Applying(p, c, task, hist)
    PROVE  /\ \A w \in W : hist.ends[w] # 0 => hist'.ends[w] # 0
           /\ c = "ABORT" => hist'.ends[procs[p].pass] # 0
<1>1. hist.ends \in [W -> Nat] /\ procs[p].pass \in W
  BY Domains DEF QuietInv
<1> DEFINE v == procs[p].pass
<1>2. hist'.ends = IF c \in {"COMPLETE", "ABORT"}
                   THEN [hist.ends EXCEPT ![v] = @ + 1] ELSE hist.ends
  BY DEF Applying
<1> HIDE DEF v
<1>3. v \in W
  BY <1>1 DEF v
<1>4. hist.ends[v] \in Nat /\ hist.ends[v] + 1 # 0
  BY <1>1, <1>3
<1>5. CASE c \in {"COMPLETE", "ABORT"}
  BY <1>1, <1>2, <1>3, <1>4, <1>5 DEF v
<1>6. CASE c \notin {"COMPLETE", "ABORT"}
  BY <1>2, <1>6
<1> QED  BY <1>5, <1>6

\* The last process: accepted, or answered again.
LEMMA QuietServed ==
    ASSUME QuietInv, Undisturbed, NEW p \in Procs, Newest(p), NEW c \in ChildCmds, NEW reply,
           ChildCmd(p, c, reply), hist'.quiet
    PROVE  /\ signals' = signals /\ reply = "ok"
           /\ zombies = <<>> => zombies' = <<>>
           /\ Reached(p, c, task') /\ task'.flags \subseteq task.flags
           /\ task'.pass \in {0, passes}
           /\ \A w \in W : hist.ends[w] # 0 => hist'.ends[w] # 0
           /\ c = "ABORT" => hist'.ends[procs[p].pass] # 0
<1> USE DEF QuietInv
<1> DEFINE verdict == Verdict(c, procs[p].pass, RidOf(p, c))
<1>1. c \in Sends(p) /\ passes' = passes
  BY DEF ChildCmd
<1>2. \/ verdict = "again" /\ AnswerAgain(c)
      \/ verdict = "accept" /\ Apply(p, c, task, zombies, hist)
      \/ verdict = "zombie"
  BY DEF ChildCmd
<1>3. \/ /\ verdict = "accept" /\ task.pass = procs[p].pass
         /\ c # "INIT" => task.state = "ACTIVE" /\ task.rid = p
      \/ /\ verdict = "again" /\ Reached(p, c, task) /\ c # "LABEL"
         /\ c = "ABORT" => hist.ends[procs[p].pass] # 0
  BY <1>1, QuietVerdict
<1>4. signals' = signals /\ reply = "ok"
  BY <1>3 DEF ChildCmd
<1>5. task.pass \in {0, passes} /\ procs[p].pass = passes
  BY DEF Undisturbed, Newest
<1> HIDE DEF verdict
<1>6. CASE verdict = "again"
  <2>1. /\ AnswerAgain(c) /\ Reached(p, c, task)
        /\ c = "ABORT" => hist.ends[procs[p].pass] # 0
    BY <1>2, <1>3, <1>6
  <2>2. zombies = <<>> => zombies' = <<>>
    <3>1. CASE c = "COMPLETE"
      BY <2>1, <3>1 DEF AnswerAgain, Without
    <3>2. CASE c = "ABORT"
      BY <2>1, <3>2, NothingRemoved DEF AnswerAgain
    <3>3. CASE c \notin {"COMPLETE", "ABORT"}
      BY <2>1, <3>3 DEF AnswerAgain
    <3> QED  BY <3>1, <3>2, <3>3
  <2>3. hist' = hist
        /\ (task' = task \/ (c = "COMPLETE" /\ task' = [task EXCEPT !.flags = @ \ {"ZOMBIE"}]))
    BY <2>1 DEF AnswerAgain
  <2>4. Same(task, task') /\ task'.flags \subseteq task.flags
    BY <2>3, Unfold DEF Same, TaskT
  <2> QED  BY <1>4, <1>5, <2>1, <2>2, <2>3, <2>4 DEF Reached, Same
<1>7. CASE verdict = "accept"
  <2>1. Apply(p, c, task, zombies, hist) /\ hist \in HistT(Len(procs)) /\ Len(procs) \in Nat
    BY <1>2, <1>7, Unfold
  <2>2. AppliedTo(p, c, task)
    BY <2>1, ApplyHist
  <2>3. PICK loop \in Loops : task' = Applied(p, c, task, loop) /\ ~(c = "COMPLETE" /\ loop)
    BY <2>2 DEF AppliedTo
  <2>4. loop \in BOOLEAN
    BY JobsAssumption
  <2>5. task.pass = procs[p].pass /\ (c # "INIT" => task.state = "ACTIVE" /\ task.rid = p)
    BY <1>3, <1>7
  <2>6. /\ Reached(p, c, task') /\ task'.flags \subseteq task.flags
        /\ task'.pass \in {0, task.pass}
    BY <2>3, <2>4, <2>5, AcceptReaches
  <2>7. zombies = <<>> => zombies' = <<>>
    BY <2>1, NothingRemoved DEF Apply
  <2>8. Applying(p, c, task, hist)
    BY <1>1, <2>1, ApplyShape
  <2>9. /\ \A w \in W : hist.ends[w] # 0 => hist'.ends[w] # 0
        /\ c = "ABORT" => hist'.ends[procs[p].pass] # 0
    BY <2>8, EndsKept
  <2> QED  BY <1>4, <1>5, <2>5, <2>6, <2>7, <2>9
<1> QED  BY <1>3, <1>6, <1>7

LEMMA QuietLast ==
    ASSUME QuietInv, Undisturbed, NEW p \in Procs, Newest(p), NEW c \in ChildCmds, NEW reply,
           ChildCmd(p, c, reply), hist'.quiet
    PROVE  Undisturbed'
<1> USE DEF QuietInv
<1>1. c \in Sends(p) /\ Live(p) /\ passes' = passes
  BY DEF ChildCmd, Sends, Live
<1>2. /\ signals' = signals /\ reply = "ok"
      /\ zombies = <<>> => zombies' = <<>>
      /\ Reached(p, c, task') /\ task'.flags \subseteq task.flags
      /\ task'.pass \in {0, passes}
      /\ \A w \in W : hist.ends[w] # 0 => hist'.ends[w] # 0
      /\ c = "ABORT" => hist'.ends[procs[p].pass] # 0
  BY QuietServed
<1>3. PICK x \in {NextOf(c, "ok"), NextOf(c, "lost")} : procs' = [procs EXCEPT ![p].next = x]
  BY <1>2 DEF ChildCmd
<1>4. /\ x \in ProcStates
      /\ x = "INIT" => c = "INIT"
      /\ x = "WORK" => c \in {"INIT", "LABEL"}
      /\ x = "COMPLETE" => c = "COMPLETE"
      /\ x = "ABORT" => c = "ABORT"
  BY <1>3 DEF NextOf, ChildCmds, ProcStates
<1>5. /\ Procs' = Procs
      /\ procs'[p].pass = procs[p].pass /\ procs'[p].next = x
      /\ \A q \in Procs : q # p => procs'[q] = procs[q]
  BY <1>3, <1>4, MoveProc
<1>6. \A q \in Procs : Newest(q) /\ q # p => procs[q].next = "DONE"
  BY <1>1 DEF Undisturbed, OneLive, Live
<1>7. OneLive'
  BY <1>1, <1>5, <1>6 DEF OneLive, Live, Newest
<1>8. ASSUME NEW q \in Procs'  PROVE (Newest(q) => Fits(q))' /\ (~Newest(q) => Over(q))'
  <2>1. CASE q = p
    <3>1. Newest(q)'
      BY <1>1, <1>5, <2>1 DEF Newest
    <3>2. Fits(q)'
      BY <1>2, <1>4, <1>5, <2>1 DEF Fits, Reached
    <3> QED  BY <3>1, <3>2
  <2>2. CASE q # p
    <3>1. q \in Procs /\ procs'[q] = procs[q] /\ procs[q].pass \in W
      BY <1>5, <2>2, Domains
    <3>2. CASE Newest(q)
      BY <1>1, <1>6, <2>2, <3>1, <3>2 DEF Newest, Fits
    <3>3. CASE ~Newest(q)
      <4>1. Over(q)
        BY <3>1, <3>3 DEF Undisturbed
      <4> QED  BY <1>1, <1>2, <3>1, <3>3, <4>1 DEF Newest, Over
    <3> QED  BY <3>2, <3>3
  <2> QED  BY <2>1, <2>2
<1>9. (passes <= 1 => NoZombie)'
  BY <1>1, <1>2 DEF Undisturbed, NoZombie
<1> QED  BY <1>1, <1>2, <1>7, <1>8, <1>9 DEF Undisturbed

\* An earlier process: refused, which leaves the state of the task alone
\* unless the process is adopted or killed.
LEMMA QuietOver ==
    ASSUME QuietInv, Undisturbed, NEW p \in Procs, ~Newest(p), NEW c \in ChildCmds, NEW reply,
           ChildCmd(p, c, reply), hist'.quiet
    PROVE  Undisturbed'
<1> USE DEF QuietInv
<1> DEFINE rid == RidOf(p, c)
           ha == [hist EXCEPT !.own[procs[p].pass] = {}, !.ends[procs[p].pass] = 0,
                              !.forced = "no", !.quiet = FALSE]
           hq == [hist EXCEPT !.quiet = FALSE]
<1>1. c \in Sends(p) /\ passes' = passes
  BY DEF ChildCmd
<1>2. /\ Verdict(c, procs[p].pass, rid) = "zombie"
      /\ c = "ABORT" /\ hist.ends[procs[p].pass] # 0
      /\ procs[p].pass < passes /\ ~(passes <= 1)
  BY <1>1, OverVerdict
<1>3. HandleZombie(p, c, rid, reply)
  BY <1>2 DEF ChildCmd
<1>4. PICK z, zs : UserAction(p, c, rid, z, zs, reply)
  BY <1>3 DEF HandleZombie
<1>5. \/ \E tk, zs1 : Apply(p, c, tk, zs1, ha)
      \/ hist' = hq
      \/ signals' = signals /\ hist' = hist
  BY <1>4 DEF UserAction
<1>6. ~\E tk, zs1 : Apply(p, c, tk, zs1, ha)
  <2>1. p \in 1..Len(procs)
    BY ProcsType DEF ProcStates
  <2>2. ha \in HistT(Len(procs)) /\ Len(procs) \in Nat
    BY <2>1, Unfold, HistType
  <2>3. ha.quiet = FALSE
    BY <2>2, Unfold DEF HistT
  <2> HIDE DEF ha
  <2> QED  BY <2>2, <2>3, ApplyHist
<1>7. signals' = signals /\ hist' = hist
  BY <1>5, <1>6, QuietBy
<1>8. Same(task, task')
  <2>1. task' \in {[task EXCEPT !.flags = @ \cup {"ZOMBIE"}], [task EXCEPT !.flags = @ \ {"ZOMBIE"}]}
        \/ hist' = hq \/ \E tk, zs1 : Apply(p, c, tk, zs1, ha)
    BY <1>4 DEF UserAction
  <2>2. task' \in {[task EXCEPT !.flags = @ \cup {"ZOMBIE"}], [task EXCEPT !.flags = @ \ {"ZOMBIE"}]}
    BY <1>6, <2>1, QuietBy
  <2> QED  BY <2>2, Unfold DEF Same, TaskT
<1>9. PICK received : procs' = [procs EXCEPT ![p].next = NextOf(c, received)]
  BY DEF ChildCmd
<1>10. NextOf(c, received) \in {"ABORT", "DONE"}
  BY <1>2 DEF NextOf
<1>11. /\ Procs' = Procs
       /\ procs'[p].pass = procs[p].pass /\ procs'[p].next \in {"ABORT", "DONE"}
       /\ \A q \in Procs : q # p => procs'[q] = procs[q]
  <2>1. NextOf(c, received) \in ProcStates
    BY <1>10 DEF ProcStates
  <2> QED  BY <1>9, <1>10, <2>1, MoveProc
<1> HIDE DEF rid, ha, hq
<1>12. OneLive'
  BY <1>1, <1>11 DEF OneLive, Undisturbed, Live, Newest
<1>13. ASSUME NEW q \in Procs'  PROVE (Newest(q) => Fits(q))' /\ (~Newest(q) => Over(q))'
  <2>1. CASE q = p
    BY <1>1, <1>2, <1>7, <1>11, <2>1 DEF Newest, Over
  <2>2. CASE q # p
    <3>1. /\ q \in Procs /\ procs'[q] = procs[q]
          /\ (Newest(q) => Fits(q)) /\ (~Newest(q) => Over(q))
      BY <1>11, <2>2 DEF Undisturbed
    <3>2. (Newest(q)' <=> Newest(q)) /\ (Over(q)' <=> Over(q))
      BY <1>1, <1>7, <3>1 DEF Newest, Over
    <3>3. Fits(q)' <=> Fits(q)
      BY <1>7, <1>8, <3>1 DEF Fits, Same
    <3> QED  BY <3>1, <3>2, <3>3
  <2> QED  BY <2>1, <2>2
<1> QED  BY <1>1, <1>2, <1>7, <1>8, <1>12, <1>13 DEF Undisturbed, Same

LEMMA ChildHist ==
    ASSUME IInv, NEW p \in Procs, NEW c \in ChildCmds, NEW reply, ChildCmd(p, c, reply)
    PROVE  (hist'.quiet => hist.quiet) /\ hist'.forced \in {hist.forced, "no"}
<1> DEFINE rid == RidOf(p, c)
<1>1. \/ AnswerAgain(c) \/ Apply(p, c, task, zombies, hist) \/ HandleZombie(p, c, rid, reply)
  BY DEF ChildCmd, RidOf
<1> HIDE DEF rid
<1>2. CASE AnswerAgain(c)
  BY <1>2 DEF AnswerAgain
<1>3. CASE Apply(p, c, task, zombies, hist)
  BY <1>3, Unfold, ApplyHist
<1>4. CASE HandleZombie(p, c, rid, reply)
  <2> DEFINE ha == [hist EXCEPT !.own[procs[p].pass] = {}, !.ends[procs[p].pass] = 0,
                                !.forced = "no", !.quiet = FALSE]
  <2>1. PICK z, zs : UserAction(p, c, rid, z, zs, reply)
    BY <1>4 DEF HandleZombie
  <2>2. \/ hist' \in {hist, [hist EXCEPT !.quiet = FALSE]}
        \/ \E tk, zs1 : Apply(p, c, tk, zs1, ha)
    BY <2>1 DEF UserAction
  <2>3. ha \in HistT(Len(procs)) /\ ha.quiet = FALSE /\ ha.forced = "no"
    <3>1. p \in 1..Len(procs)
      BY ProcsType DEF ProcStates
    <3>2. ha \in HistT(Len(procs))
      BY <3>1, Unfold, HistType
    <3> QED  BY <3>2, Unfold DEF HistT
  <2>4. LET h == [hist EXCEPT !.quiet = FALSE] IN h.quiet = FALSE /\ h.forced = hist.forced
    BY Unfold DEF HistT
  <2> HIDE DEF ha
  <2> QED  BY <2>2, <2>3, <2>4, Unfold, ApplyHist
<1> QED  BY <1>1, <1>2, <1>3, <1>4

LEMMA QuietSubmit ==
    ASSUME QuietInv, GenerateJob, hist'.quiet
    PROVE  Undisturbed'
<1> USE DEF QuietInv
<1>1. /\ SubmitJob /\ Untold /\ zombies' = zombies /\ signals' = signals
      /\ task.state \in {"QUEUED", "ABORTED"} /\ hist.quiet
  BY UntoldBy, QuietBy DEF GenerateJob, Untold, Eligible
<1>2. Undisturbed
  BY <1>1
<1>3. /\ passes' = passes + 1 /\ task'.pass = passes + 1 /\ task'.rid = 0
      /\ procs' = procs \/ (procs' = Spawn(passes + 1) /\ task'.state = "SUBMITTED")
      /\ task'.flags \subseteq task.flags \cup {"SUBMIT_FAILED"}
  BY <1>1, SubmitJobShape DEF Renewing
<1>4. ASSUME NEW q \in Procs
      PROVE  Over(q) /\ procs[q].pass # passes + 1
  <2>1. procs[q].pass \in 1..passes /\ procs[q].next \in ProcStates /\ passes \in Nat
    BY ProcsType, Unfold DEF ProcT, ProcStates
  <2>2. CASE Newest(q)
    <3>1. Fits(q)
      BY <1>2, <2>2 DEF Undisturbed
    <3> QED  BY <1>1, <2>1, <3>1 DEF Fits, Over, ProcStates
  <2>3. CASE ~Newest(q)
    BY <1>2, <2>1, <2>3 DEF Undisturbed
  <2> QED  BY <2>2, <2>3
<1>5. (passes <= 1 => NoZombie)'
  <2>1. passes \in Nat
    BY Unfold
  <2>2. passes + 1 <= 1 => passes <= 1
    BY <2>1
  <2> QED  BY <1>1, <1>2, <1>3, <2>2 DEF Undisturbed, NoZombie
<1>6. CASE procs' = procs
  <2>1. ASSUME NEW q \in Procs'  PROVE ~Newest(q)' /\ Over(q)'
    BY <1>1, <1>3, <1>4, <1>6 DEF Newest, Over, Untold, Procs
  <2> QED  BY <1>1, <1>2, <1>3, <1>5, <2>1 DEF Undisturbed, OneLive
<1>7. CASE procs' = Spawn(passes + 1) /\ task'.state = "SUBMITTED"
  <2>0. PICK n : n = Len(procs) + 1
    OBVIOUS
  <2>1. passes + 1 \in Nat /\ passes + 1 # 0
    BY Unfold
  <2>2. /\ n \notin Procs /\ Procs' = Procs \cup {n}
        /\ procs'[n].pass = passes + 1 /\ procs'[n].next = "INIT"
        /\ \A q \in Procs : procs'[q] = procs[q]
    BY <1>7, <2>0, <2>1, SpawnProc
  <2>3. ASSUME NEW q \in Procs  PROVE ~Newest(q)' /\ Over(q)'
    BY <1>1, <1>3, <1>4, <2>2 DEF Newest, Over, Untold
  <2>4. OneLive'
    BY <2>2, <2>3 DEF OneLive
  <2>5. Newest(n)' /\ Fits(n)'
    BY <1>3, <1>7, <2>2 DEF Newest, Fits
  <2> QED  BY <1>1, <1>2, <1>3, <1>5, <2>2, <2>3, <2>4, <2>5 DEF Undisturbed
<1> QED  BY <1>3, <1>6, <1>7

LEMMA QuietStep ==
    ASSUME QuietInv, [Next]_vars, hist'.quiet
    PROVE  Undisturbed'
<1> USE DEF QuietInv
<1>1. CASE GenerateJob
  BY <1>1, QuietSubmit
<1>2. CASE GenerateNothing \/ JobCmdSucceeds \/ UNCHANGED vars
  <2>1. UNCHANGED <<task, zombies, procs, signals, passes, hist>>
    BY <1>2 DEF GenerateNothing, JobCmdSucceeds, vars
  <2> QED  BY <2>1 DEF Undisturbed, NoZombie, OneLive, Newest, Live, Fits, Over, Procs
<1>3. CASE RemoveStaleZombie
  <2>1. UNCHANGED <<task, procs, signals, passes, hist>> /\ \E k \in 1..Len(zombies) : TRUE
    BY <1>3 DEF RemoveStaleZombie
  <2>2. zombies # <<>>
    BY <2>1, EmptySeq
  <2>3. Undisturbed /\ ~(passes <= 1)
    BY <2>1, <2>2 DEF Undisturbed, NoZombie
  <2> QED  BY <2>1, <2>3 DEF Undisturbed, OneLive, Newest, Live, Fits, Over, Procs
<1>4. ASSUME NEW p \in Procs, NEW c \in ChildCmds, NEW reply, ChildCmd(p, c, reply)
      PROVE  Undisturbed'
  BY <1>4, QuietLast, QuietOver, ChildHist
<1>5. ASSUME NEW p \in Procs, GiveUp(p) \/ Signalled(p) \/ Duplicate(p)
      PROVE  Undisturbed'
  <2>1. Signalled(p)
    BY <1>5, QuietBy DEF GiveUp, Duplicate
  <2>2. hist.quiet /\ p \in signals
    BY <2>1 DEF Signalled
  <2> QED  BY <2>2 DEF Undisturbed
<1>6. CASE JobCmdFails \/ Requeue \/ Run \/ RunForce \/ Kill \/ ZombieCmd
  BY <1>6, QuietBy DEF JobCmdFails, Requeue, Run, RunForce, Kill, ZombieCmd
<1>7. ASSUME NEW s \in ForceStates, ForceCmd(s)
      PROVE  Undisturbed'
  BY <1>7, QuietBy DEF ForceCmd
<1> QED  BY <1>1, <1>2, <1>3, <1>4, <1>5, <1>6, <1>7 DEF Next, ChildCmds

LEMMA PassesStep ==
    ASSUME IInv, passes <= MaxPasses, [Next]_vars
    PROVE  passes' <= MaxPasses
<1>0. passes \in Nat /\ MaxPasses \in Nat
  BY Unfold, JobsAssumption
<1>1. CASE GenerateJob \/ Run \/ RunForce
  <2>1. passes < MaxPasses /\ passes' = passes + 1
    BY <1>1 DEF GenerateJob, Run, RunForce, SubmitJob
  <2> QED  BY <1>0, <2>1
<1>2. CASE GenerateNothing \/ JobCmdSucceeds \/ JobCmdFails \/ RemoveStaleZombie \/ Requeue
              \/ Kill \/ ZombieCmd \/ UNCHANGED vars
  BY <1>2 DEF GenerateNothing, JobCmdSucceeds, JobCmdFails, RemoveStaleZombie, Requeue, Kill,
              ZombieCmd, vars
<1>3. ASSUME NEW p \in Procs, NEW c \in ChildCmds, NEW reply, ChildCmd(p, c, reply)
      PROVE  passes' <= MaxPasses
  BY <1>3 DEF ChildCmd
<1>4. ASSUME NEW p \in Procs, GiveUp(p) \/ Signalled(p) \/ Duplicate(p)
      PROVE  passes' <= MaxPasses
  BY <1>4 DEF GiveUp, Signalled, Duplicate
<1>5. ASSUME NEW s \in ForceStates, ForceCmd(s)  PROVE passes' <= MaxPasses
  BY <1>5 DEF ForceCmd
<1> QED  BY <1>1, <1>2, <1>3, <1>4, <1>5 DEF Next, ChildCmds

\* However many replies are lost and however many tries the task has, the
\* commands that are sent again make no zombie of a job that still has to end.
\* As long as only replies are lost, the one command of a job that is refused
\* is an abort that was applied already and is sent again after the server has
\* submitted the task once more (ECF_TRIES), and a task submitted once has no
\* zombie (TaskCmd::authenticate).
THEOREM ResendsMakeNoZombie == Spec => []ResendsForgiven
<1>1. QuietInv => ResendsForgiven
  <2> SUFFICES ASSUME QuietInv, hist.quiet PROVE ResendsForgiven
    BY DEF ResendsForgiven
  <2>1. IInv /\ Undisturbed
    BY DEF QuietInv
  <2>2. ASSUME NEW p \in Procs, NEW c \in Sends(p), Refused(p, c)
        PROVE  c = "ABORT" /\ hist.ends[procs[p].pass] # 0 /\ procs[p].pass < passes
    <3>1. CASE Newest(p)
      BY <2>1, <2>2, <3>1, QuietVerdict DEF Refused
    <3>2. CASE ~Newest(p)
      BY <2>1, <3>2, OverVerdict
    <3> QED  BY <3>1, <3>2
  <2> QED  BY <2>1, <2>2 DEF ResendsForgiven, Undisturbed, NoZombie
<1>2. Init => QuietInv
  <2> SUFFICES ASSUME Init PROVE QuietInv
    OBVIOUS
  <2>1. IInv /\ Procs = {} /\ passes <= MaxPasses
    BY InitInv, EmptySeq, JobsAssumption DEF Init, Procs
  <2> QED  BY <2>1 DEF Init, QuietInv, Undisturbed, NoZombie, OneLive
<1>3. QuietInv /\ [Next]_vars => QuietInv'
  BY StepInv, PassesStep, QuietStep DEF QuietInv
<1> QED  BY <1>1, <1>2, <1>3, PTL DEF Spec

-----------------------------------------------------------------------------
(***************************************************************************)
(* A forced abort.  As long as the last act of the user was to abort the   *)
(* task from a container above it, the task is aborted and says so: only   *)
(* what resets the history takes the flag or the state away.               *)
(***************************************************************************)
StillForced(t) == t.state = "ABORTED" /\ "FORCE_ABORT" \in t.flags

ForcedInv == IInv /\ (hist.forced = "force recursive" => StillForced(task))

LEMMA ForcedBy ==
    ASSUME IInv
    PROVE  /\ Disturbed.forced = "no"
           /\ [hist EXCEPT !.quiet = FALSE].forced = hist.forced
           /\ \A f : [Disturbed EXCEPT !.forced = f].forced = f
           /\ [hist EXCEPT !.forced = "no"].forced = "no"
BY Unfold DEF Disturbed, HistT

LEMMA ForcedForce ==
    ASSUME IInv, NEW s \in ForceStates, ForceCmd(s), hist'.forced = "force recursive"
    PROVE  StillForced(task')
<1> DEFINE tk == IF s \notin Running THEN UserFlagged ELSE task
           t == SetStateOnly(tk, "ABORTED", TRUE)
<1>1. PICK command \in {"force", "force recursive"}, loop \in Loops :
        /\ task' = IF command = "force recursive"
                   THEN AfterStateChange(SetStateOnly(tk, s, TRUE), loop)
                   ELSE IF task.state = s THEN tk
                   ELSE AfterStateChange(SetState(tk, s), loop)
        /\ hist' = [Disturbed EXCEPT !.forced = IF s = "ABORTED" /\ task.state # s
                                               THEN command ELSE "no"]
  BY DEF ForceCmd
<1>2. hist'.forced = IF s = "ABORTED" /\ task.state # s THEN command ELSE "no"
  BY <1>1, ForcedBy
<1>3. s = "ABORTED" /\ task.state # "ABORTED" /\ command = "force recursive"
  BY <1>2
<1>4. task' = AfterStateChange(t, loop)
  BY <1>1, <1>3
<1>5. tk \in TaskT(passes, Len(procs)) /\ tk.state # "ABORTED"
  BY <1>3, Unfold, UserZombieType, UserFlaggedFields DEF Same
<1> HIDE DEF tk
<1>6. t.state = "ABORTED" /\ "FORCE_ABORT" \in t.flags
  BY <1>5 DEF SetStateOnly, TaskT
<1> HIDE DEF t
<1> QED  BY <1>4, <1>6 DEF AfterStateChange, StillForced

LEMMA ForcedJobCmd ==
    ASSUME IInv, StillForced(task), JobCmdFails
    PROVE  StillForced(task')
<1> DEFINE tk == [task EXCEPT !.flags = @ \cup {"SUBMIT_FAILED"}]
<1>1. task' = SetState(tk, "ABORTED")
  BY DEF JobCmdFails, StillForced
<1>2. tk.state = "ABORTED" /\ "FORCE_ABORT" \in tk.flags
  BY Unfold DEF TaskT, StillForced
<1> HIDE DEF tk
<1> QED  BY <1>1, <1>2 DEF SetState, SetStateOnly, StillForced

LEMMA ForcedChild ==
    ASSUME IInv, StillForced(task), NEW p \in Procs, NEW c \in ChildCmds, NEW reply,
           ChildCmd(p, c, reply), hist'.forced # "no"
    PROVE  StillForced(task')
<1> DEFINE rid == RidOf(p, c)
           verdict == Verdict(c, procs[p].pass, rid)
           T == TaskT(passes, Len(procs))
<1>1. \/ verdict = "again" /\ AnswerAgain(c)
      \/ verdict = "accept"
      \/ HandleZombie(p, c, rid, reply)
  BY DEF ChildCmd, RidOf
<1>2. verdict # "accept"
  BY DEF Verdict, StillForced
<1>3. task \in T
  BY Unfold
<1> HIDE DEF rid, verdict
<1>4. CASE AnswerAgain(c)
  <2>1. task' \in {task, [task EXCEPT !.flags = @ \ {"ZOMBIE"}]}
    BY <1>4 DEF AnswerAgain
  <2> QED  BY <1>3, <2>1 DEF TaskT, StillForced
<1>5. CASE HandleZombie(p, c, rid, reply)
  <2> DEFINE ha == [hist EXCEPT !.own[procs[p].pass] = {}, !.ends[procs[p].pass] = 0,
                                !.forced = "no", !.quiet = FALSE]
             tz == [task EXCEPT !.flags = @ \cup {"ZOMBIE"}]
             tu == [task EXCEPT !.flags = @ \ {"ZOMBIE"}]
  <2>1. PICK z, zs : UserAction(p, c, rid, z, zs, reply)
    BY <1>5 DEF HandleZombie
  <2>2. \/ task' \in {tz, tu, KillFlags(tz, z.rid)}
        \/ \E tk, zs1 : Apply(p, c, tk, zs1, ha)
    BY <2>1 DEF UserAction
  <2>3. ha \in HistT(Len(procs)) /\ ha.forced = "no"
    <3>1. p \in 1..Len(procs)
      BY ProcsType DEF ProcStates
    <3>2. ha \in HistT(Len(procs))
      BY <3>1, Unfold, HistType
    <3> QED  BY <3>2, Unfold DEF HistT
  <2> HIDE DEF ha
  <2>4. task' \in {tz, tu, KillFlags(tz, z.rid)}
    <3> SUFFICES ASSUME NEW tk, NEW zs1, Apply(p, c, tk, zs1, ha) PROVE FALSE
      BY <2>2
    <3>1. hist'.forced = ha.forced
      BY <2>3, Unfold, ApplyHist
    <3> QED  BY <2>3, <3>1
  <2>5. tz \in T /\ StillForced(tz) /\ StillForced(tu)
    <3>1. tz \in T
      BY Unfold, FlagType DEF Flags
    <3> QED  BY <1>3, <3>1 DEF TaskT, StillForced
  <2> HIDE DEF tz, tu
  <2>6. StillForced(KillFlags(tz, z.rid))
    <3>1. /\ Same(tz, KillFlags(tz, z.rid))
          /\ tz.flags \ {"KILLED"} \subseteq KillFlags(tz, z.rid).flags
      BY <2>5, Unfold, KillFields
    <3> QED  BY <2>5, <3>1 DEF StillForced, Same
  <2> QED  BY <2>4, <2>5, <2>6
<1> QED  BY <1>1, <1>2, <1>4, <1>5

LEMMA ForcedStep ==
    ASSUME ForcedInv, [Next]_vars, hist'.forced = "force recursive"
    PROVE  StillForced(task')
<1> USE DEF ForcedInv
<1>1. ~GenerateJob /\ ~Run
  BY ForcedBy DEF GenerateJob, Run
<1>2. CASE GenerateNothing \/ JobCmdSucceeds \/ RemoveStaleZombie \/ UNCHANGED vars
  BY <1>2 DEF GenerateNothing, JobCmdSucceeds, RemoveStaleZombie, vars
<1>3. CASE JobCmdFails
  <2>1. hist'.forced = hist.forced
    BY <1>3, ForcedBy DEF JobCmdFails
  <2> QED  BY <1>3, <2>1, ForcedJobCmd
<1>4. ASSUME NEW p \in Procs, NEW c \in ChildCmds, NEW reply, ChildCmd(p, c, reply)
      PROVE  StillForced(task')
  <2>1. hist.forced = "force recursive"
    BY <1>4, ChildHist
  <2> QED  BY <1>4, <2>1, ForcedChild
<1>5. ASSUME NEW p \in Procs, GiveUp(p) \/ Signalled(p) \/ Duplicate(p)
      PROVE  StillForced(task')
  BY <1>5, ForcedBy DEF GiveUp, Signalled, Duplicate
<1>6. CASE Requeue \/ RunForce \/ Kill \/ ZombieCmd
  BY <1>6, ForcedBy DEF Requeue, RunForce, Kill, ZombieCmd
<1>7. ASSUME NEW s \in ForceStates, ForceCmd(s)
      PROVE  StillForced(task')
  BY <1>7, ForcedForce
<1> QED
  BY <1>1, <1>2, <1>3, <1>4, <1>5, <1>6, <1>7 DEF Next, ChildCmds

LEMMA RunCounts == ASSUME IInv, Run \/ RunForce PROVE cmds' # cmds
<1>1. cmds' = cmds + 1
  BY DEF Run, RunForce, User
<1> QED  BY <1>1, Unfold

\* A new password is generated only by a job generation, which passes over a
\* task that was forced aborted, or by a command.
LEMMA ForcedHeld ==
    ASSUME ForcedInv, [Next]_vars, hist.forced = "force recursive", cmds' = cmds
    PROVE  passes' = passes
<1> USE DEF ForcedInv
<1>1. ~GenerateJob
  BY DEF GenerateJob, Eligible, StillForced
<1>2. ~Run /\ ~RunForce
  BY RunCounts
<1>3. CASE GenerateNothing \/ JobCmdSucceeds \/ JobCmdFails \/ RemoveStaleZombie
  BY <1>3 DEF GenerateNothing, JobCmdSucceeds, JobCmdFails, RemoveStaleZombie
<1>4. ASSUME NEW p \in Procs, GiveUp(p) \/ Signalled(p) \/ Duplicate(p)
      PROVE  passes' = passes
  BY <1>4 DEF GiveUp, Signalled, Duplicate
<1>5. ASSUME NEW p \in Procs, NEW c \in ChildCmds, NEW reply, ChildCmd(p, c, reply)
      PROVE  passes' = passes
  BY <1>5 DEF ChildCmd
<1>6. CASE Requeue \/ Kill \/ ZombieCmd
  BY <1>6 DEF Requeue, Kill, ZombieCmd
<1>7. ASSUME NEW s \in ForceStates, ForceCmd(s)  PROVE passes' = passes
  BY <1>7 DEF ForceCmd
<1>8. CASE UNCHANGED vars
  BY <1>8 DEF vars
<1> QED  BY <1>1, <1>2, <1>3, <1>4, <1>5, <1>6, <1>7, <1>8 DEF Next, ChildCmds

\* A task that the user aborted from a container above it is not submitted
\* again until the user gives another command, whatever its try number, and
\* whatever late child commands, zombies and job commands do meanwhile
\* (Task::resolveDependencies).
THEOREM ForcedAbortKept == Spec => ForcedAbortHolds
<1>1. Init => ForcedInv
  BY InitInv DEF Init, ForcedInv
<1>2. ForcedInv /\ [Next]_vars => ForcedInv'
  BY StepInv, ForcedStep DEF ForcedInv
<1>3. ForcedInv /\ [Next]_vars =>
        [hist.forced = "force recursive" /\ cmds' = cmds => passes' = passes]_vars
  BY ForcedHeld
<1> QED  BY <1>1, <1>2, <1>3, PTL DEF Spec, ForcedAbortHolds
=============================================================================

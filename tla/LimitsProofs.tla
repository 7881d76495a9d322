---------------------------- MODULE LimitsProofs ----------------------------
(***************************************************************************)
(* Proofs about Limits, for every tree of nodes and every set of inlimits: *)
(* type correctness, the agreement of a limit's value with its paths, that *)
(* job generation keeps within the limits, that no token is leaked, and    *)
(* that the load of a limit stays within it.                               *)
(***************************************************************************)
EXTENDS Limits, FiniteSetTheorems, TLAPS

Entries == Nodes \X LimitNames

-----------------------------------------------------------------------------
(***************************************************************************)
(* Tokens.                                                                 *)
(***************************************************************************)
\* The units held in one limit are finitely many, also when there are
\* infinitely many limits.
LEMMA UnitsFinite ==
    ASSUME NEW H, NEW l \in LimitNames
    PROVE  IsFiniteSet(Units(H, l)) /\ Tokens(H, l) \in Nat
<1> DEFINE Box == (Nodes \X {l}) \X (1..MaxTokens)
<1>1. IsFiniteSet(Box)
  <2>1. IsFiniteSet(Nodes \X {l})
    BY FS_Product, FS_Singleton, TreeAssumption
  <2>2. IsFiniteSet(1..MaxTokens)
    BY FS_Interval, LimitAssumption
  <2> QED  BY <2>1, <2>2, FS_Product
<1>2. Units(H, l) \in SUBSET Box
  BY DEF Units, Governed
<1>3. IsFiniteSet(Units(H, l))
  <2> HIDE DEF Box
  <2> QED  BY <1>1, <1>2, FS_Subset
<1> QED  BY <1>3, FS_CardinalityType DEF Tokens

\* Tokens is additive over disjoint sets of entries.
LEMMA TokensUnion ==
    ASSUME NEW G, NEW H, G \cap H = {}, NEW l \in LimitNames
    PROVE  Tokens(G \cup H, l) = Tokens(G, l) + Tokens(H, l)
<1>1. Units(G \cup H, l) = Units(G, l) \cup Units(H, l)
  BY DEF Units
<1>2. Units(G, l) \cap Units(H, l) = {}
  BY DEF Units
<1>3. Cardinality(Units(G, l) \cup Units(H, l))
        = Cardinality(Units(G, l)) + Cardinality(Units(H, l)) - Cardinality({})
  BY <1>2, UnitsFinite, FS_Union
<1>4. Tokens(G, l) \in Nat /\ Tokens(H, l) \in Nat /\ Cardinality({}) = 0
  BY UnitsFinite, FS_EmptySet
<1>5. Tokens(G \cup H, l) = Tokens(G, l) + Tokens(H, l) - Cardinality({})
  BY <1>1, <1>3 DEF Tokens
<1> QED  BY <1>4, <1>5

\* Only the entries of l matter to the tokens of l.
LEMMA TokensSame ==
    ASSUME NEW G, NEW H, NEW l \in LimitNames,
           \A g \in Governed : g[2] = l => (g \in G <=> g \in H)
    PROVE  Tokens(G, l) = Tokens(H, l)
<1>1. Units(G, l) = Units(H, l)
  BY DEF Units
<1> QED  BY <1>1 DEF Tokens

LEMMA TokensNone ==
    ASSUME NEW G, NEW l \in LimitNames, \A g \in G : g[2] # l
    PROVE  Tokens(G, l) = 0
<1>1. Units(G, l) = {}
  BY DEF Units
<1> QED  BY <1>1, FS_EmptySet DEF Tokens

-----------------------------------------------------------------------------
(***************************************************************************)
(* Governors and payers.                                                   *)
(***************************************************************************)
LEMMA GovernorIsNearest ==
    ASSUME NEW g \in Governed
    PROVE  /\ g \in Entries
           /\ Governor[g] \in InLimits
           /\ Governor[g].limit = g[2]
           /\ g[1] \in Below[Governor[g].node]
           /\ \A j \in Over(g[1], g[2]) : Governor[g].node \in Below[j.node]
<1>1. Governor[g] \in Over(g[1], g[2])
        /\ \A j \in Over(g[1], g[2]) : Governor[g].node \in Below[j.node]
  BY NearestAssumption DEF Governor
<1> QED  BY <1>1 DEF Over, Governed, Entries

\* The node that pays for an inlimit -n is governed by that same inlimit, so
\* it is charged and refunded the tokens the inlimit asks for.
LEMMA PayerGoverned ==
    ASSUME NEW g \in Governed
    PROVE  /\ Payer(g) \in Governed
           /\ Payer(g) \in Entries
           /\ Payer(g)[2] = g[2]
           /\ Governor[Payer(g)] = Governor[g]
<1> DEFINE i == Governor[g]
           p == <<i.node, g[2]>>
<1>1. CASE ~NodeOnly(g)
  BY <1>1, GovernorIsNearest DEF Payer
<1>2. CASE NodeOnly(g)
  <2>1. i \in InLimits /\ i.limit = g[2] /\ g[1] \in Below[i.node] /\ g \in Entries
    BY GovernorIsNearest
  <2>2. i.node \in Nodes /\ i.node \in Below[i.node]
    BY <2>1, LimitAssumption, TreeAssumption
  <2>3. i \in Over(p[1], p[2]) /\ p \in Entries /\ p \in Governed
    BY <2>1, <2>2 DEF Over, Governed, Entries
  <2> DEFINE k == Governor[p]
  <2>4. k \in InLimits /\ k.limit = i.limit /\ i.node \in Below[k.node]
          /\ k.node \in Below[i.node]
    BY <2>1, <2>3, GovernorIsNearest
  <2>5. k.node \in Nodes
    BY <2>4, LimitAssumption
  <2>6. k.node = i.node
    BY <2>2, <2>4, <2>5, TreeAssumption
  <2>7. k = i
    BY <2>1, <2>4, <2>6, LimitAssumption
  <2>8. Payer(g) = p
    BY <1>2 DEF Payer
  <2> QED  BY <2>3, <2>7, <2>8
<1> QED  BY <1>1, <1>2

-----------------------------------------------------------------------------
(***************************************************************************)
(* What the operations on the ledger preserve.                             *)
(***************************************************************************)
Agrees(led) == \A l \in LimitNames : led.value[l] = Tokens(led.paths, l)

LEMMA ChargeType ==
    ASSUME NEW led \in LedgerType, NEW C \in SUBSET Entries
    PROVE  Charge(led, C) \in LedgerType
<1>1. \A l \in LimitNames : led.value[l] + Tokens(C \ led.paths, l) \in Nat
  BY UnitsFinite DEF LedgerType
<1> QED  BY <1>1 DEF Charge, LedgerType, Entries

LEMMA ChargeAgrees ==
    ASSUME NEW led \in LedgerType, NEW C \in SUBSET Entries, Agrees(led)
    PROVE  Agrees(Charge(led, C))
<1> SUFFICES ASSUME NEW l \in LimitNames
             PROVE  Charge(led, C).value[l] = Tokens(Charge(led, C).paths, l)
  BY DEF Agrees
<1>1. Charge(led, C).value[l] = led.value[l] + Tokens(C \ led.paths, l)
        /\ Charge(led, C).paths = led.paths \cup (C \ led.paths)
  BY DEF Charge, LedgerType
<1>2. Tokens(led.paths \cup (C \ led.paths), l)
        = Tokens(led.paths, l) + Tokens(C \ led.paths, l)
  BY TokensUnion
<1> QED  BY <1>1, <1>2 DEF Agrees

LEMMA RefundType ==
    ASSUME NEW led \in LedgerType, NEW F
    PROVE  Refund(led, F) \in LedgerType
<1>1. \A l \in LimitNames :
        led.value[l] \in Nat /\ Tokens(F \cap led.paths, l) \in Nat
  BY UnitsFinite DEF LedgerType
<1> DEFINE Left(l) == led.value[l] - Tokens(F \cap led.paths, l)
           value == [l \in LimitNames |-> IF Left(l) < 0 THEN 0 ELSE Left(l)]
           paths == {g \in led.paths \ F : Left(g[2]) >= 0}
<1>2. value \in [LimitNames -> Nat]
  BY <1>1
<1>3. paths \in SUBSET (Nodes \X LimitNames)
  BY DEF LedgerType
<1>4. Refund(led, F) = [led EXCEPT !.value = value, !.paths = paths]
  BY DEF Refund
<1> HIDE DEF value, paths
<1> QED  BY <1>2, <1>3, <1>4 DEF LedgerType

\* In a ledger that agrees, Limit::decrement never falls below zero.
LEMMA RefundAgrees ==
    ASSUME NEW led \in LedgerType, NEW F, Agrees(led)
    PROVE  /\ Agrees(Refund(led, F))
           /\ Refund(led, F).paths = led.paths \ F
<1>1. ASSUME NEW l \in LimitNames
      PROVE  /\ led.value[l] = Tokens(led.paths \ F, l) + Tokens(F \cap led.paths, l)
             /\ Tokens(led.paths \ F, l) \in Nat
             /\ Tokens(F \cap led.paths, l) \in Nat
  <2>1. led.paths = (led.paths \ F) \cup (F \cap led.paths)
    OBVIOUS
  <2>2. Tokens((led.paths \ F) \cup (F \cap led.paths), l)
          = Tokens(led.paths \ F, l) + Tokens(F \cap led.paths, l)
    BY TokensUnion
  <2> QED  BY <2>1, <2>2, UnitsFinite DEF Agrees
<1> DEFINE Left(l) == led.value[l] - Tokens(F \cap led.paths, l)
<1>2. ASSUME NEW l \in LimitNames
      PROVE  Left(l) = Tokens(led.paths \ F, l) /\ Left(l) >= 0
  <2> DEFINE a == led.value[l]
             b == Tokens(led.paths \ F, l)
             c == Tokens(F \cap led.paths, l)
  <2>1. a = b + c /\ b \in Nat /\ c \in Nat
    BY <1>1
  <2> HIDE DEF a, b, c
  <2>2. a - c = b /\ a - c >= 0
    BY <2>1
  <2> QED  BY <2>2 DEF a, b, c
<1> HIDE DEF Left
<1>3. \A g \in led.paths : g[2] \in LimitNames
  BY DEF LedgerType
<1>4. Refund(led, F) =
        [led EXCEPT !.value = [l \in LimitNames |-> IF Left(l) < 0 THEN 0 ELSE Left(l)],
                    !.paths = {g \in led.paths \ F : Left(g[2]) >= 0}]
  BY DEF Refund, Left
<1>5. Refund(led, F).paths = led.paths \ F
  BY <1>2, <1>3, <1>4 DEF LedgerType
<1>6. ASSUME NEW l \in LimitNames
      PROVE  Refund(led, F).value[l] = Tokens(led.paths \ F, l)
  <2>1. Refund(led, F).value[l] = IF Left(l) < 0 THEN 0 ELSE Left(l)
    BY <1>4 DEF LedgerType
  <2>2. Left(l) = Tokens(led.paths \ F, l) /\ Tokens(led.paths \ F, l) \in Nat
    BY <1>2, UnitsFinite
  <2> QED  BY <2>1, <2>2
<1> QED  BY <1>5, <1>6 DEF Agrees

LEMMA IncrementFacts ==
    ASSUME NEW led \in LedgerType, NEW T
    PROVE  /\ IncrementInLimit(led, T) \in LedgerType
           /\ Agrees(led) => Agrees(IncrementInLimit(led, T))
<1> DEFINE G     == {g \in Governed : g[1] \in T}
           fresh == {g \in G : NodeOnly(g) => Payer(g) \notin led.incremented}
           C     == {Payer(g) : g \in fresh}
           D     == {Payer(g) : g \in {h \in G : NodeOnly(h)}}
           paid  == Charge(led, C)
<1>1. C \in SUBSET Entries /\ D \in SUBSET Entries
  BY PayerGoverned
<1>2. paid \in LedgerType /\ (Agrees(led) => Agrees(paid))
  BY <1>1, ChargeType, ChargeAgrees
<1>3. IncrementInLimit(led, T) = [paid EXCEPT !.incremented = @ \cup D]
  BY DEF IncrementInLimit
<1> HIDE DEF paid, D
<1>4. IncrementInLimit(led, T) \in LedgerType
        /\ IncrementInLimit(led, T).value = paid.value
        /\ IncrementInLimit(led, T).paths = paid.paths
  BY <1>1, <1>2, <1>3 DEF LedgerType, Entries
<1> QED  BY <1>2, <1>4 DEF Agrees

LEMMA DecrementFacts ==
    ASSUME NEW led \in LedgerType, NEW seen
    PROVE  /\ DecrementInLimit(led, seen) \in LedgerType
           /\ Agrees(led) => Agrees(DecrementInLimit(led, seen))
<1> DEFINE G == {g \in Governed : g[1] \in DOMAIN seen}
           F == {Payer(g) : g \in {h \in G : Releases(led, seen, h)}}
           given == Refund(led, F)
<1>1. given \in LedgerType /\ (Agrees(led) => Agrees(given))
  BY RefundType, RefundAgrees
<1>2. DecrementInLimit(led, seen) = [given EXCEPT !.incremented = @ \ F]
  BY DEF DecrementInLimit
<1> HIDE DEF given, F
<1>3. DecrementInLimit(led, seen) \in LedgerType
        /\ DecrementInLimit(led, seen).value = given.value
        /\ DecrementInLimit(led, seen).paths = given.paths
  BY <1>1, <1>2 DEF LedgerType
<1> QED  BY <1>1, <1>3 DEF Agrees

LEMMA UpdateLimitsFacts ==
    ASSUME NEW led \in LedgerType, NEW tk, NEW T, NEW s
    PROVE  /\ UpdateLimits(led, tk, T, s) \in LedgerType
           /\ Agrees(led) => Agrees(UpdateLimits(led, tk, T, s))
<1>1. CASE s = "SUBMITTED"
  BY <1>1, IncrementFacts DEF UpdateLimits
<1>2. CASE s = "ACTIVE"
  BY <1>2, RefundType, RefundAgrees DEF UpdateLimits, DecrementInLimitForSubmission
<1>3. CASE s # "SUBMITTED" /\ s # "ACTIVE"
  <2>1. UpdateLimits(led, tk, T, s) = DecrementInLimit(led, [t \in T |-> tk])
    BY <1>3 DEF UpdateLimits
  <2> QED  BY <2>1, DecrementFacts
<1> QED  BY <1>1, <1>2, <1>3

LEMMA RequeueLedgerFacts ==
    ASSUME NEW led \in LedgerType, NEW tk, NEW a \in Nodes
    PROVE  /\ RequeueLedger(led, tk, a) \in LedgerType
           /\ Agrees(led) => Agrees(RequeueLedger(led, tk, a))
<1> DEFINE forgot == [led EXCEPT !.incremented = {g \in @ : g[1] \notin Below[a]}]
           freed  == DecrementInLimit(forgot, [x \in Below[a] |-> SeenAt(tk, a, x)])
           value  == [l \in LimitNames |->
                         IF Home[l] \in Below[a] THEN 0 ELSE freed.value[l]]
           paths  == {g \in freed.paths : Home[g[2]] \notin Below[a]}
<1>1. forgot \in LedgerType /\ (Agrees(led) => Agrees(forgot))
  BY DEF LedgerType, Agrees
<1>2. freed \in LedgerType /\ (Agrees(forgot) => Agrees(freed))
  <2> HIDE DEF forgot
  <2> QED  BY <1>1, DecrementFacts
<1>3. RequeueLedger(led, tk, a) = [freed EXCEPT !.value = value, !.paths = paths]
  BY DEF RequeueLedger
<1> HIDE DEF forgot, freed
<1>4. value \in [LimitNames -> Nat] /\ paths \in SUBSET (Nodes \X LimitNames)
  BY <1>2 DEF LedgerType
<1>5. ASSUME Agrees(freed), NEW l \in LimitNames
      PROVE  value[l] = Tokens(paths, l)
  <2>1. CASE Home[l] \in Below[a]
    BY <2>1, TokensNone
  <2>2. CASE Home[l] \notin Below[a]
    <3>1. Tokens(paths, l) = Tokens(freed.paths, l)
      BY <2>2, TokensSame
    <3> QED  BY <2>2, <3>1, <1>5 DEF Agrees
  <2> QED  BY <2>1, <2>2
<1> HIDE DEF value, paths
<1>6. RequeueLedger(led, tk, a) \in LedgerType
        /\ RequeueLedger(led, tk, a).value = value
        /\ RequeueLedger(led, tk, a).paths = paths
  BY <1>2, <1>3, <1>4 DEF LedgerType
<1> QED  BY <1>1, <1>2, <1>5, <1>6 DEF Agrees

-----------------------------------------------------------------------------
(***************************************************************************)
(* What the handlers' shared steps preserve.                               *)
(***************************************************************************)
TaskRecords == [Tasks -> TaskType]

\* The part of the state that a change of task states rewrites.
StepType ==
    /\ task' \in TaskRecords
    /\ ledger' \in LedgerType
    /\ repeat' \in [Nodes -> Nat]

LEMMA RequeueTasksType ==
    ASSUME NEW tk \in TaskRecords, NEW a
    PROVE  RequeueTasks(tk, a) \in TaskRecords
<1>1. Queued \in TaskType
  BY DEF Queued, TaskType, States
<1> QED  BY <1>1 DEF RequeueTasks, TaskRecords

LEMMA RequeueRepeatType ==
    ASSUME repeat \in [Nodes -> Nat], NEW a, NEW r \in Nat
    PROVE  RequeueRepeat(a, r) \in [Nodes -> Nat]
BY LimitAssumption DEF RequeueRepeat

LEMMA HandleStateChangeFacts ==
    ASSUME repeat \in [Nodes -> Nat], NEW W \in SUBSET Nodes,
           NEW tk \in TaskRecords, NEW led \in LedgerType,
           HandleStateChange(W, tk, led)
    PROVE  StepType /\ (Agrees(led) => Agrees(ledger'))
<1> DEFINE looping == {n \in W : Done(n, tk) /\ repeat[n] > 0}
<1>1. CASE looping = {} /\ task' = tk /\ ledger' = led /\ UNCHANGED repeat
  BY <1>1 DEF StepType
<1>2. ASSUME NEW a \in looping,
             task' = RequeueTasks(tk, a),
             ledger' = RequeueLedger(led, tk, a),
             repeat' = RequeueRepeat(a, repeat[a] - 1)
      PROVE  StepType /\ (Agrees(led) => Agrees(ledger'))
  <2>1. a \in Nodes /\ repeat[a] - 1 \in Nat
    OBVIOUS
  <2>2. repeat' \in [Nodes -> Nat]
    BY <1>2, <2>1, RequeueRepeatType
  <2>3. task' \in TaskRecords
    BY <1>2, RequeueTasksType
  <2>4. ledger' \in LedgerType /\ (Agrees(led) => Agrees(ledger'))
    BY <1>2, <2>1, RequeueLedgerFacts
  <2> QED  BY <2>2, <2>3, <2>4 DEF StepType
<1> QED  BY <1>1, <1>2 DEF HandleStateChange

LEMMA SetStateOnlyType ==
    ASSUME NEW r \in TaskType, NEW s \in States, NEW force
    PROVE  SetStateOnly(r, s, force) \in TaskType
<1> DEFINE f == IF s # "ABORTED" THEN r.flags \ {"FORCE_ABORT"}
                ELSE IF force THEN r.flags \cup {"FORCE_ABORT"} ELSE r.flags
<1>1. f \in SUBSET Flags
  BY DEF TaskType, Flags
<1>2. SetStateOnly(r, s, force) = IF r.state = s THEN r
                                  ELSE [r EXCEPT !.state = s, !.flags = f]
  BY DEF SetStateOnly
<1> HIDE DEF f
<1> QED  BY <1>1, <1>2 DEF TaskType

LEMMA SetStateFacts ==
    ASSUME ledger \in LedgerType, repeat \in [Nodes -> Nat],
           NEW tk \in TaskRecords, NEW t \in Tasks, NEW s \in States,
           SetState(tk, t, s)
    PROVE  StepType /\ (Agrees(ledger) => Agrees(ledger'))
<1> DEFINE next == [tk EXCEPT ![t] = SetStateOnly(@, s, FALSE)]
           led  == UpdateLimits(ledger, next, {t}, s)
<1>1. CASE tk[t].state = s
  BY <1>1 DEF SetState, StepType
<1>2. CASE tk[t].state # s
  <2>1. next \in TaskRecords
    BY SetStateOnlyType DEF TaskRecords
  <2>2. led \in LedgerType /\ (Agrees(ledger) => Agrees(led))
    BY UpdateLimitsFacts
  <2>3. HandleStateChange(PathUp(t), next, led)
    BY <1>2 DEF SetState
  <2>4. PathUp(t) \in SUBSET Nodes
    BY DEF PathUp
  <2> HIDE DEF next, led
  <2> QED  BY <2>1, <2>2, <2>3, <2>4, HandleStateChangeFacts
<1> QED  BY <1>1, <1>2

LEMMA SubmitJobFacts ==
    ASSUME TypeOK, NEW t \in Tasks, SubmitJob(t)
    PROVE  StepType /\ (Agrees(ledger) => Agrees(ledger'))
<1> DEFINE n == task[t].tryNo + 1
           f == task[t].flags \ {"SUBMIT_FAILED"}
           r == [task[t] EXCEPT !.tryNo = n, !.flags = f]
           tried  == [task EXCEPT ![t] = r]
           failed == [tried EXCEPT ![t].flags = @ \cup {"SUBMIT_FAILED"}]
<1>1. tried \in TaskRecords
  <2>1. task \in TaskRecords /\ task[t] \in TaskType
    BY DEF TypeOK, TaskRecords
  <2>2. n \in Nat /\ f \in SUBSET Flags
    BY <2>1 DEF TaskType
  <2> HIDE DEF n, f
  <2>3. r \in TaskType
    BY <2>1, <2>2 DEF TaskType
  <2> HIDE DEF r
  <2> QED  BY <2>1, <2>3 DEF TaskRecords
<1>2. failed \in TaskRecords
  <2> HIDE DEF tried
  <2> QED  BY <1>1 DEF TaskRecords, TaskType, Flags
<1>3. SetState(tried, t, "SUBMITTED") \/ SetState(failed, t, "ABORTED")
  BY DEF SubmitJob
<1>4. {"SUBMITTED", "ABORTED"} \subseteq States
  BY DEF States
<1> HIDE DEF tried, failed
<1> QED  BY <1>1, <1>2, <1>3, <1>4, SetStateFacts DEF TypeOK

LEMMA RequeueFacts ==
    ASSUME TypeOK, NEW a \in Nodes, Requeue(a)
    PROVE  /\ StepType /\ (Agrees(ledger) => Agrees(ledger'))
           /\ cursor' = 1 /\ lim' = lim
<1>1. task' \in TaskRecords
  BY RequeueTasksType DEF Requeue, TypeOK, TaskRecords
<1>2. ledger' \in LedgerType /\ (Agrees(ledger) => Agrees(ledger'))
  BY RequeueLedgerFacts DEF Requeue, TypeOK
<1>3. repeat' \in [Nodes -> Nat]
  BY RequeueRepeatType, LimitAssumption DEF Requeue, TypeOK
<1> QED  BY <1>1, <1>2, <1>3 DEF Requeue, StepType

-----------------------------------------------------------------------------
(***************************************************************************)
(* The steps of the specification, sorted by what they do to the ledger.   *)
(***************************************************************************)
\* Neither tasks nor ledger change.
Quiet == UNCHANGED <<task, ledger, repeat>> /\ cmds' \in Nat /\ cursor' \in Nat

LEMMA QuietSteps ==
    ASSUME TypeOK,
           \/ StartTraversal \/ VisitContainer \/ EndTraversal \/ TimeOut
           \/ UNCHANGED vars
           \/ \E l \in LimitNames, v \in AlterLims : ChangeLimitMax(l, v)
    PROVE  Quiet /\ lim' \in [LimitNames -> Nat]
<1>1. CASE StartTraversal \/ EndTraversal \/ TimeOut \/ UNCHANGED vars
  BY <1>1 DEF StartTraversal, EndTraversal, TimeOut, vars, TypeOK, Quiet
<1>2. CASE VisitContainer
  <2> DEFINE n == Preorder[cursor]
             k == IF Done(n, task) \/ ~InLimit(n) THEN Cardinality(Below[n]) ELSE 1
  <2>1. n \in Nodes
    BY <1>2, TreeAssumption DEF VisitContainer, Visiting
  <2>2. Cardinality(Below[n]) \in Nat
    BY <2>1, TreeAssumption, FS_Subset, FS_CardinalityType
  <2>3. cursor' = cursor + k
    BY <1>2 DEF VisitContainer
  <2>4. k \in Nat
    BY <2>2
  <2> HIDE DEF k
  <2> QED  BY <1>2, <2>3, <2>4 DEF VisitContainer, TypeOK, Quiet
<1>3. ASSUME NEW l \in LimitNames, NEW v \in AlterLims, ChangeLimitMax(l, v)
      PROVE  Quiet /\ lim' \in [LimitNames -> Nat]
  BY <1>3, CommandAssumption DEF ChangeLimitMax, User, TypeOK, Quiet
<1> QED  BY <1>1, <1>2, <1>3

\* Every other step but a change of a limit's value by hand.
Accounted ==
    \/ \E t \in Tasks : VisitTask(t)
    \/ \E t \in Tasks : ChildInit(t) \/ ChildComplete(t) \/ ChildAbort(t)
    \/ \E a \in Nodes : RequeueNode(a) \/ RequeueForce(a)
    \/ \E t \in Tasks : RequeueAborted(t) \/ RunTask(t)
    \/ \E t \in Tasks, s \in ForceStates : ForceTask(t, s)
    \/ \E n \in Nodes, s \in ForceStates : ForceRecursive(n, s)

LEMMA AccountedSteps ==
    ASSUME TypeOK, Accounted
    PROVE  TypeOK' /\ (Agrees(ledger) => Agrees(ledger'))
<1> USE DEF TypeOK
<1> DEFINE Good == StepType /\ (Agrees(ledger) => Agrees(ledger'))
           Rest == lim' = lim /\ cursor' \in Nat /\ cmds' \in Nat
<1>0. ASSUME Good, Rest
      PROVE  TypeOK' /\ (Agrees(ledger) => Agrees(ledger'))
  BY <1>0 DEF StepType, TaskRecords
<1>1. task \in TaskRecords
  BY DEF TaskRecords
<1>2. ASSUME NEW t \in Tasks, VisitTask(t)
      PROVE  Good /\ Rest
  <2>1. CASE SubmitJob(t)
    BY <1>2, <2>1, SubmitJobFacts DEF VisitTask
  <2>2. CASE UNCHANGED <<task, ledger, repeat>>
    BY <1>1, <1>2, <2>2 DEF VisitTask, StepType
  <2> QED  BY <1>2, <2>1, <2>2 DEF VisitTask
<1>3. ASSUME NEW t \in Tasks, ChildInit(t) \/ ChildComplete(t) \/ ChildAbort(t)
      PROVE  Good /\ Rest
  <2>1. {"ACTIVE", "COMPLETE", "ABORTED"} \subseteq States
    BY DEF States
  <2> QED  BY <1>1, <1>3, <2>1, SetStateFacts DEF ChildInit, ChildComplete, ChildAbort
<1>4. ASSUME NEW a \in Nodes, RequeueNode(a) \/ RequeueForce(a)
      PROVE  Good /\ Rest
  <2>1. Requeue(a) /\ cmds' = cmds + 1
    BY <1>4 DEF RequeueNode, RequeueForce, User
  <2>2. Good /\ cursor' = 1 /\ lim' = lim
    BY <2>1, RequeueFacts
  <2> QED  BY <2>1, <2>2
<1>5. ASSUME NEW t \in Tasks, RequeueAborted(t)
      PROVE  Good /\ Rest
  <2>1. t \in Nodes /\ Requeue(t) /\ cmds' = cmds + 1
    BY <1>5, TreeAssumption DEF RequeueAborted, User
  <2>2. Good /\ cursor' = 1 /\ lim' = lim
    BY <2>1, RequeueFacts
  <2> QED  BY <2>1, <2>2
<1>6. ASSUME NEW t \in Tasks, RunTask(t)
      PROVE  Good /\ Rest
  BY <1>6, SubmitJobFacts DEF RunTask, User
<1>7. ASSUME NEW t \in Tasks, NEW s \in ForceStates, ForceTask(t, s)
      PROVE  Good /\ Rest
  BY <1>1, <1>7, SetStateFacts, CommandAssumption DEF ForceTask, User
<1>8. ASSUME NEW n \in Nodes, NEW s \in ForceStates, ForceRecursive(n, s)
      PROVE  Good /\ Rest
  <2> DEFINE T   == Tasks \cap Below[n]
             tk  == [t \in Tasks |-> IF t \in T THEN SetStateOnly(task[t], s, TRUE)
                                     ELSE task[t]]
             led == UpdateLimits(ledger, tk, T, s)
  <2>1. tk \in TaskRecords
    BY <1>1, SetStateOnlyType, CommandAssumption DEF TaskRecords
  <2>2. led \in LedgerType /\ (Agrees(ledger) => Agrees(led))
    BY UpdateLimitsFacts
  <2>3. HandleStateChange(PathUp(n), tk, led) /\ Rest
    BY <1>8 DEF ForceRecursive, User
  <2>4. PathUp(n) \in SUBSET Nodes
    BY DEF PathUp
  <2> HIDE DEF tk, led
  <2>5. Good
    BY <2>1, <2>2, <2>3, <2>4, HandleStateChangeFacts
  <2> QED  BY <2>3, <2>5
<1> QED
  BY <1>0, <1>2, <1>3, <1>4, <1>5, <1>6, <1>7, <1>8 DEF Accounted

\* Every variable keeps the type of the field it models, for every tree, every
\* set of inlimits and every command, the change of a limit's value by hand
\* included: no limit's value ever goes below zero.
THEOREM TypeCorrect == Spec => []TypeOK
<1>1. Init => TypeOK
  BY LimitAssumption DEF Init, TypeOK, Queued, TaskType, LedgerType, States
<1>2. TypeOK /\ [Next]_vars => TypeOK'
  <2> SUFFICES ASSUME TypeOK, [Next]_vars PROVE TypeOK'
    OBVIOUS
  <2>1. CASE \/ StartTraversal \/ VisitContainer \/ EndTraversal \/ TimeOut
             \/ UNCHANGED vars
             \/ \E l \in LimitNames, v \in AlterLims : ChangeLimitMax(l, v)
    BY <2>1, QuietSteps DEF Quiet, TypeOK
  <2>2. CASE Accounted
    BY <2>2, AccountedSteps
  <2>3. ASSUME NEW l \in LimitNames, NEW v \in AlterValues, ChangeLimitValue(l, v)
        PROVE  TypeOK'
    <3>1. ledger' \in LedgerType
      BY <2>3, CommandAssumption DEF ChangeLimitValue, LedgerType, TypeOK
    <3> QED  BY <2>3, <3>1 DEF ChangeLimitValue, User, TypeOK
  <2> QED  BY <2>1, <2>2, <2>3 DEF Next, Traverse, Accounted
<1> QED  BY <1>1, <1>2, PTL DEF Spec

\* Unless users set a limit's value by hand, the value of every limit is the
\* number of tokens of the paths it records, after every step.
THEOREM ValueAlwaysMatchesPaths ==
    ASSUME "limit_value" \notin UserCmds
    PROVE  Spec => []ValueMatchesPaths
<1>1. Init => ValueMatchesPaths
  BY TokensNone DEF Init, ValueMatchesPaths
<1>2. TypeOK /\ ValueMatchesPaths /\ [Next]_vars => ValueMatchesPaths'
  <2> SUFFICES ASSUME TypeOK, Agrees(ledger), [Next]_vars PROVE Agrees(ledger')
    BY DEF ValueMatchesPaths, Agrees
  <2>1. CASE \/ StartTraversal \/ VisitContainer \/ EndTraversal \/ TimeOut
             \/ UNCHANGED vars
             \/ \E l \in LimitNames, v \in AlterLims : ChangeLimitMax(l, v)
    BY <2>1, QuietSteps DEF Quiet
  <2>2. CASE Accounted
    BY <2>2, AccountedSteps
  <2>3. \A l \in LimitNames, v \in AlterValues : ~ChangeLimitValue(l, v)
    BY DEF ChangeLimitValue, User
  <2> QED  BY <2>1, <2>2, <2>3 DEF Next, Traverse, Accounted
<1> QED  BY <1>1, <1>2, TypeCorrect, PTL DEF Spec

-----------------------------------------------------------------------------
(***************************************************************************)
(* Job generation stays within the limits.                                 *)
(***************************************************************************)
LEMMA TokensMonotone ==
    ASSUME NEW G, NEW H, NEW l \in LimitNames,
           \A g \in G : g[2] = l => g \in H
    PROVE  Tokens(G, l) <= Tokens(H, l)
<1>1. Units(G, l) \in SUBSET Units(H, l)
  BY DEF Units
<1> QED  BY <1>1, UnitsFinite, FS_Subset DEF Tokens

LEMMA TokensOne ==
    ASSUME NEW g \in Governed, NEW l \in LimitNames, g[2] = l
    PROVE  Tokens({g}, l) = Governor[g].tokens
<1> DEFINE k == Governor[g].tokens
<1>1. k \in 1..MaxTokens
  BY GovernorIsNearest, LimitAssumption
<1>2. Units({g}, l) = {g} \X (1..k)
  <2> HIDE DEF k
  <2> QED  BY <1>1, LimitAssumption DEF Units, k
<1>3. k \in Nat /\ IsFiniteSet(1..k) /\ Cardinality(1..k) = k
  <2> HIDE DEF k
  <2>1. k \in Nat /\ k >= 1 /\ k \in Int /\ 1 \in Int
    BY <1>1, LimitAssumption
  <2>2. IsFiniteSet(1..k) /\ Cardinality(1..k) = IF 1 > k THEN 0 ELSE k - 1 + 1
    BY <2>1, FS_Interval
  <2> QED  BY <2>1, <2>2
<1>4. IsFiniteSet({g}) /\ Cardinality({g}) = 1
  BY FS_Singleton
<1>5. Cardinality({g} \X (1..k)) = Cardinality({g}) * Cardinality(1..k)
  BY <1>3, <1>4, FS_Product
<1> HIDE DEF k
<1>6. Cardinality({g} \X (1..k)) = k
  BY <1>3, <1>4, <1>5
<1> QED  BY <1>2, <1>6 DEF Tokens, k

LEMMA RefundLowers ==
    ASSUME NEW led \in LedgerType, NEW F, NEW l \in LimitNames
    PROVE  Refund(led, F).value[l] <= led.value[l]
<1> DEFINE a == led.value[l]
           c == Tokens(F \cap led.paths, l)
<1>1. a \in Nat /\ c \in Nat
  BY UnitsFinite DEF LedgerType
<1>2. Refund(led, F).value[l] = IF a - c < 0 THEN 0 ELSE a - c
  BY DEF Refund, LedgerType
<1> HIDE DEF a, c
<1>3. (IF a - c < 0 THEN 0 ELSE a - c) <= a
  BY <1>1
<1> QED  BY <1>2, <1>3 DEF a

LEMMA DecrementLowers ==
    ASSUME NEW led \in LedgerType, NEW seen, NEW l \in LimitNames
    PROVE  DecrementInLimit(led, seen).value[l] <= led.value[l]
<1> DEFINE G == {g \in Governed : g[1] \in DOMAIN seen}
           F == {Payer(g) : g \in {h \in G : Releases(led, seen, h)}}
           given == Refund(led, F)
<1>1. given \in LedgerType /\ given.value[l] <= led.value[l]
  BY RefundType, RefundLowers
<1>2. DecrementInLimit(led, seen) = [given EXCEPT !.incremented = @ \ F]
  BY DEF DecrementInLimit
<1> HIDE DEF given, F
<1>3. DecrementInLimit(led, seen).value = given.value
  BY <1>1, <1>2 DEF LedgerType
<1> QED  BY <1>1, <1>3

LEMMA RequeueLowers ==
    ASSUME NEW led \in LedgerType, NEW tk, NEW a \in Nodes, NEW l \in LimitNames
    PROVE  RequeueLedger(led, tk, a).value[l] <= led.value[l]
<1> DEFINE forgot == [led EXCEPT !.incremented = {g \in @ : g[1] \notin Below[a]}]
           freed  == DecrementInLimit(forgot, [x \in Below[a] |-> SeenAt(tk, a, x)])
<1>1. forgot \in LedgerType /\ forgot.value = led.value
  BY DEF LedgerType
<1>2. freed \in LedgerType /\ freed.value[l] <= forgot.value[l]
  <2> HIDE DEF forgot
  <2> QED  BY <1>1, DecrementFacts, DecrementLowers
<1> HIDE DEF forgot, freed
<1>3. RequeueLedger(led, tk, a).value[l]
        = IF Home[l] \in Below[a] THEN 0 ELSE freed.value[l]
  BY <1>2 DEF RequeueLedger, LedgerType, freed, forgot
<1>4. led.value[l] \in Nat
  BY DEF LedgerType
<1> QED  BY <1>1, <1>2, <1>3, <1>4

LEMMA HandleStateChangeLowers ==
    ASSUME NEW W \in SUBSET Nodes, NEW tk, NEW led \in LedgerType,
           HandleStateChange(W, tk, led), NEW l \in LimitNames
    PROVE  ledger'.value[l] <= led.value[l]
<1>1. led.value[l] <= led.value[l]
  BY DEF LedgerType
<1> QED  BY <1>1, RequeueLowers DEF HandleStateChange

\* The look-ahead of InLimitMgr::inLimit covers exactly what
\* InLimitMgr::incrementInLimit will charge for the task.
LEMMA IncrementWithinLimit ==
    ASSUME TypeOK, NEW t \in Tasks, CheckInLimitUpNodeTree(t), NEW l \in LimitNames
    PROVE  \/ IncrementInLimit(ledger, {t}).value[l] <= lim[l]
           \/ IncrementInLimit(ledger, {t}).value[l] <= ledger.value[l]
<1> DEFINE G     == {g \in Governed : g[1] \in {t}}
           fresh == {g \in G : NodeOnly(g) => Payer(g) \notin ledger.incremented}
           C     == {Payer(g) : g \in fresh}
           g0    == <<t, l>>
           c     == Tokens(C \ ledger.paths, l)
<1>1. ledger \in LedgerType /\ ledger.value[l] \in Nat /\ lim[l] \in Nat
  BY DEF TypeOK, LedgerType
<1>2. IncrementInLimit(ledger, {t}).value[l] = ledger.value[l] + c
  <2>1. C \in SUBSET Entries
    BY PayerGoverned
  <2>2. Charge(ledger, C) \in LedgerType
          /\ Charge(ledger, C).value[l] = ledger.value[l] + c
    BY <1>1, <2>1, ChargeType DEF Charge, LedgerType
  <2> HIDE DEF c
  <2> QED  BY <2>2 DEF IncrementInLimit, LedgerType
<1>3. c \in Nat
  BY UnitsFinite
<1>4. \A p \in C : p[2] = l => g0 \in fresh /\ p = Payer(g0)
  BY PayerGoverned DEF Governed
<1>5. CASE g0 \notin fresh
  <2>1. c = 0
    BY <1>4, <1>5, TokensNone
  <2> HIDE DEF c
  <2> QED  BY <1>1, <1>2, <2>1
<1>6. CASE g0 \in fresh
  <2> DEFINE i == Governor[g0]
             p == Payer(g0)
  <2>1. g0 \in Governed /\ p \in Governed /\ p[2] = l /\ Governor[p] = i
    BY <1>6, PayerGoverned
  <2>2. i \in InLimits /\ i.limit = l /\ t \in Below[i.node] /\ i.node \in Nodes
    BY <2>1, GovernorIsNearest, LimitAssumption
  <2>3. InLimit(i.node)
    BY <2>2 DEF CheckInLimitUpNodeTree
  <2>4. ~(i.kind = "node" /\ <<i.node, l>> \in ledger.incremented)
    BY <1>6 DEF NodeOnly, Payer
  <2>5. ledger.value[l] + i.tokens <= lim[l]
    BY <2>2, <2>3, <2>4 DEF InLimit
  <2>6. c <= Tokens({p}, l)
    BY <1>4, TokensMonotone
  <2>7. Tokens({p}, l) = i.tokens /\ i.tokens \in Nat
    <3>1. Tokens({p}, l) = Governor[p].tokens
      BY <2>1, TokensOne
    <3>2. i.tokens \in 1..MaxTokens
      BY <2>2, LimitAssumption
    <3> QED  BY <2>1, <3>1, <3>2, LimitAssumption
  <2> HIDE DEF c, i, p
  <2> QED  BY <1>1, <1>2, <1>3, <2>5, <2>6, <2>7
<1> QED  BY <1>5, <1>6

\* No step of a traversal takes a limit above its maximum, whatever users have
\* done to the limit's value and maximum, and however many tokens an inlimit
\* asks for.
THEOREM SchedulerAlwaysKeepsLimit == Spec => SchedulerKeepsLimit
<1> DEFINE Kept == cursor > 0 =>
                      \A l \in LimitNames : \/ ledger'.value[l] <= lim[l]
                                            \/ ledger'.value[l] <= ledger.value[l]
<1>1. TypeOK /\ [Next]_vars => Kept
  <2> SUFFICES ASSUME TypeOK, [Next]_vars, cursor > 0, NEW l \in LimitNames
               PROVE  \/ ledger'.value[l] <= lim[l]
                      \/ ledger'.value[l] <= ledger.value[l]
    OBVIOUS
  <2>1. ledger \in LedgerType /\ ledger.value[l] \in Nat /\ lim[l] \in Nat
          /\ cursor \in Nat /\ cursor # 0
    BY DEF TypeOK, LedgerType
  <2>2. CASE UNCHANGED ledger
    BY <2>1, <2>2
  <2>3. ASSUME NEW t \in Tasks, VisitTask(t), ~UNCHANGED ledger
        PROVE  \/ ledger'.value[l] <= lim[l]
               \/ ledger'.value[l] <= ledger.value[l]
    <3>1. Eligible(t) /\ SubmitJob(t)
      BY <2>3 DEF VisitTask
    <3> DEFINE r      == task[t]
               tried  == [task EXCEPT ![t] = [r EXCEPT !.tryNo = r.tryNo + 1,
                                                       !.flags = r.flags \ {"SUBMIT_FAILED"}]]
               failed == [tried EXCEPT ![t].flags = @ \cup {"SUBMIT_FAILED"}]
               next(tk, s) == [tk EXCEPT ![t] = SetStateOnly(@, s, FALSE)]
    <3>2. PathUp(t) \in SUBSET Nodes
      BY DEF PathUp
    <3>3. CASE SetState(tried, t, "SUBMITTED")
      <4> DEFINE led == UpdateLimits(ledger, next(tried, "SUBMITTED"), {t}, "SUBMITTED")
      <4>1. HandleStateChange(PathUp(t), next(tried, "SUBMITTED"), led)
        BY <2>3, <3>3 DEF SetState
      <4>2. led = IncrementInLimit(ledger, {t})
        BY DEF UpdateLimits
      <4>3. led \in LedgerType /\ led.value[l] \in Nat
        BY <2>1, <4>2, IncrementFacts DEF LedgerType
      <4>4. led.value[l] <= lim[l] \/ led.value[l] <= ledger.value[l]
        BY <3>1, <4>2, IncrementWithinLimit DEF Eligible
      <4> HIDE DEF led, tried
      <4>5. ledger'.value[l] <= led.value[l]
        BY <3>2, <4>1, <4>3, HandleStateChangeLowers
      <4>6. ledger'.value[l] \in Nat
        BY <2>3, AccountedSteps DEF Accounted, TypeOK, LedgerType
      <4> QED  BY <2>1, <4>3, <4>4, <4>5, <4>6
    <3>4. CASE SetState(failed, t, "ABORTED")
      <4> DEFINE led == UpdateLimits(ledger, next(failed, "ABORTED"), {t}, "ABORTED")
      <4>1. HandleStateChange(PathUp(t), next(failed, "ABORTED"), led)
        BY <2>3, <3>4 DEF SetState
      <4>2. led = DecrementInLimit(ledger, [x \in {t} |-> next(failed, "ABORTED")])
        BY DEF UpdateLimits
      <4> HIDE DEF failed, led
      <4>3. led \in LedgerType /\ led.value[l] \in Nat /\ led.value[l] <= ledger.value[l]
        <5>1. led \in LedgerType /\ led.value[l] <= ledger.value[l]
          BY <2>1, <4>2, DecrementFacts, DecrementLowers
        <5> QED  BY <5>1 DEF LedgerType
      <4>5. ledger'.value[l] <= led.value[l]
        BY <3>2, <4>1, <4>3, HandleStateChangeLowers
      <4>6. ledger'.value[l] \in Nat
        BY <2>3, AccountedSteps DEF Accounted, TypeOK, LedgerType
      <4> QED  BY <2>1, <4>3, <4>5, <4>6
    <3>5. SetState(tried, t, "SUBMITTED") \/ SetState(failed, t, "ABORTED")
      BY <3>1 DEF SubmitJob
    <3> QED  BY <3>3, <3>4, <3>5
  <2>4. CASE UNCHANGED vars \/ StartTraversal \/ VisitContainer \/ EndTraversal \/ TimeOut
    BY <2>2, <2>4 DEF vars, StartTraversal, VisitContainer, EndTraversal, TimeOut
  <2>5. ~ \E c \in Commands : User(c)
    BY <2>1 DEF User
  <2>6. \A t \in Tasks : ~ChildInit(t) /\ ~ChildComplete(t) /\ ~ChildAbort(t)
    BY <2>1 DEF ChildInit, ChildComplete, ChildAbort
  <2>7. Next => \/ StartTraversal \/ VisitContainer \/ EndTraversal \/ TimeOut
                \/ \E t \in Tasks : VisitTask(t)
    BY <2>1, <2>6 DEF Next, Traverse, User, RequeueNode, RequeueForce, RequeueAborted,
       RunTask, ForceTask, ForceRecursive, ChangeLimitMax, ChangeLimitValue
  <2> QED  BY <2>2, <2>3, <2>4, <2>7
<1> QED  BY <1>1, TypeCorrect, PTL DEF Spec, SchedulerKeepsLimit

-----------------------------------------------------------------------------
(***************************************************************************)
(* No token is leaked.  The invariant needs two facts about every recorded *)
(* path: somebody who uses the token is running, and the inlimit -n it was *)
(* charged for remembers it, for only then is it ever given back.          *)
(***************************************************************************)
\* No node below an inlimit -n has an inlimit of its own on the same limit.
NotOverridden ==
    \A i \in InLimits : i.kind = "node" =>
        \A g \in Governed : g[2] = i.limit /\ g[1] \in Below[i.node] => Governor[g] = i

NoNodeKind == \A i \in InLimits : i.kind # "node"

Consumes(tk, g) ==
    /\ g \in Governed
    /\ g[1] \in Tasks
    /\ tk[g[1]].state \in IF Governor[g].kind = "submit" THEN {"SUBMITTED"} ELSE Running

LeakFree(tk, led) ==
    \A p \in led.paths :
        /\ \E g \in Governed : Consumes(tk, g) /\ p = Payer(g)
        /\ NodeOnly(p) => p \in led.incremented

LEMMA RefundPaths ==
    ASSUME NEW led \in LedgerType, NEW F
    PROVE  /\ Refund(led, F).paths \subseteq led.paths \ F
           /\ Refund(led, F).incremented = led.incremented
BY DEF Refund, LedgerType

LEMMA DecrementPaths ==
    ASSUME NEW led \in LedgerType, NEW seen,
           NEW F, F = {Payer(g) : g \in {h \in Governed : h[1] \in DOMAIN seen
                                                           /\ Releases(led, seen, h)}}
    PROVE  /\ DecrementInLimit(led, seen).paths \subseteq led.paths \ F
           /\ DecrementInLimit(led, seen).incremented = led.incremented \ F
<1> DEFINE given == Refund(led, F)
<1>1. given \in LedgerType /\ given.paths \subseteq led.paths \ F
        /\ given.incremented = led.incremented
  BY RefundType, RefundPaths
<1>2. DecrementInLimit(led, seen) = [given EXCEPT !.incremented = @ \ F]
  BY DEF DecrementInLimit
<1> HIDE DEF given
<1> QED  BY <1>1, <1>2 DEF LedgerType

LEMMA IncrementLeakFree ==
    ASSUME NEW led \in LedgerType, NEW T \in SUBSET Tasks, NEW tk, NEW tk0,
           \A t \in T : tk[t].state = "SUBMITTED",
           \A t \in Tasks \ T : tk[t].state = tk0[t].state,
           LeakFree(tk0, led)
    PROVE  LeakFree(tk, IncrementInLimit(led, T))
<1> DEFINE G     == {g \in Governed : g[1] \in T}
           fresh == {g \in G : NodeOnly(g) => Payer(g) \notin led.incremented}
           C     == {Payer(g) : g \in fresh}
           D     == {Payer(g) : g \in {h \in G : NodeOnly(h)}}
           paid  == Charge(led, C)
           new   == IncrementInLimit(led, T)
<1>1. C \in SUBSET Entries
  BY PayerGoverned
<1>2. paid \in LedgerType /\ paid.paths = led.paths \cup C
        /\ paid.incremented = led.incremented
  <2> HIDE DEF C
  <2>1. paid \in LedgerType
    BY <1>1, ChargeType
  <2> QED  BY <2>1 DEF Charge, LedgerType
<1>3. new = [paid EXCEPT !.incremented = @ \cup D]
  BY DEF IncrementInLimit
<1>4. new.paths = led.paths \cup C /\ new.incremented = led.incremented \cup D
  <2> HIDE DEF paid, C, D
  <2> QED  BY <1>2, <1>3 DEF LedgerType
<1>5. \A g \in Governed : g[1] \in T => Consumes(tk, g)
  BY DEF Consumes, Running
<1>6. \A g \in Governed : Consumes(tk0, g) => Consumes(tk, g)
  BY <1>5 DEF Consumes
<1>7. ASSUME NEW p \in led.paths
      PROVE  /\ \E g \in Governed : Consumes(tk, g) /\ p = Payer(g)
             /\ NodeOnly(p) => p \in new.incremented
  BY <1>4, <1>6 DEF LeakFree
<1>8. ASSUME NEW p \in C
      PROVE  /\ \E g \in Governed : Consumes(tk, g) /\ p = Payer(g)
             /\ NodeOnly(p) => p \in new.incremented
  <2>1. PICK g \in fresh : p = Payer(g)
    OBVIOUS
  <2>2. Governor[p] = Governor[g]
    BY <2>1, PayerGoverned
  <2>3. NodeOnly(p) => p \in D
    BY <2>1, <2>2 DEF NodeOnly
  <2> QED  BY <1>4, <1>5, <2>1, <2>3
<1> HIDE DEF C, new
<1> QED  BY <1>4, <1>7, <1>8 DEF LeakFree, new

LEMMA SubmissionLeakFree ==
    ASSUME NEW led \in LedgerType, NEW T \in SUBSET Tasks, NEW tk, NEW tk0,
           \A t \in T : tk[t].state = "ACTIVE",
           \A t \in Tasks \ T : tk[t].state = tk0[t].state,
           LeakFree(tk0, led)
    PROVE  LeakFree(tk, DecrementInLimitForSubmission(led, T))
<1> DEFINE F   == {g \in Governed : g[1] \in T /\ Governor[g].kind = "submit"}
           new == DecrementInLimitForSubmission(led, T)
<1>1. new.paths \subseteq led.paths \ F /\ new.incremented = led.incremented
  BY RefundPaths DEF DecrementInLimitForSubmission
<1>2. ASSUME NEW p \in led.paths \ F
      PROVE  \E g \in Governed : Consumes(tk, g) /\ p = Payer(g)
  <2>1. PICK g \in Governed : Consumes(tk0, g) /\ p = Payer(g)
    BY DEF LeakFree
  <2>2. CASE g[1] \notin T
    BY <2>1, <2>2 DEF Consumes
  <2>3. CASE g[1] \in T
    <3>1. Governor[g].kind # "submit"
      BY <1>2, <2>1, <2>3 DEF Payer, NodeOnly
    <3> QED  BY <2>1, <2>3, <3>1 DEF Consumes, Running
  <2> QED  BY <2>2, <2>3
<1> HIDE DEF F
<1> QED  BY <1>1, <1>2 DEF LeakFree

LEMMA DecrementLeakFree ==
    ASSUME NotOverridden,
           NEW led \in LedgerType, NEW T \in SUBSET Tasks, NEW tk, NEW tk0,
           \A t \in Tasks \ T : tk[t].state = tk0[t].state,
           LeakFree(tk0, led)
    PROVE  LeakFree(tk, DecrementInLimit(led, [t \in T |-> tk]))
<1> DEFINE seen == [t \in T |-> tk]
           F    == {Payer(g) : g \in {h \in Governed : h[1] \in DOMAIN seen
                                                       /\ Releases(led, seen, h)}}
           new  == DecrementInLimit(led, seen)
<1>1. new.paths \subseteq led.paths \ F /\ new.incremented = led.incremented \ F
  BY DecrementPaths
<1>2. ASSUME NEW p \in led.paths \ F
      PROVE  \E g \in Governed : Consumes(tk, g) /\ p = Payer(g)
  <2>1. PICK g \in Governed : Consumes(tk0, g) /\ p = Payer(g)
    BY DEF LeakFree
  <2>2. CASE g[1] \notin T
    BY <2>1, <2>2 DEF Consumes
  <2>3. CASE g[1] \in T
    <3>1. ~Releases(led, seen, g)
      BY <1>2, <2>1, <2>3
    <3>2. NodeOnly(g) /\ ~(p \in led.incremented /\ Idle(p[1], tk))
      BY <2>1, <2>3, <3>1 DEF Releases
    <3>3. NodeOnly(p)
      BY <2>1, <3>2, PayerGoverned DEF NodeOnly
    <3>4. ~Idle(p[1], tk)
      BY <3>2, <3>3, <1>2 DEF LeakFree
    <3>5. PICK u \in Tasks \cap Below[p[1]] : tk[u].state \in Running
      BY <3>4 DEF Idle
    <3> DEFINE i == Governor[g]
               h == <<u, g[2]>>
    <3>6. i \in InLimits /\ i.limit = g[2] /\ i.kind = "node" /\ p = <<i.node, g[2]>>
            /\ g \in Entries
      BY <2>1, <3>2, GovernorIsNearest DEF Payer, NodeOnly
    <3>7. u \in Nodes /\ i \in Over(u, g[2])
      BY <3>5, <3>6, TreeAssumption DEF Over
    <3>8. h \in Governed
      BY <3>6, <3>7 DEF Governed, Entries
    <3>9. Governor[h] = i
      BY <3>5, <3>6, <3>8 DEF NotOverridden
    <3>10. Consumes(tk, h)
      BY <3>5, <3>6, <3>8, <3>9 DEF Consumes
    <3>11. Payer(h) = p
      BY <3>6, <3>9 DEF Payer, NodeOnly
    <3> QED  BY <3>8, <3>10, <3>11
  <2> QED  BY <2>2, <2>3
<1> HIDE DEF F
<1> QED  BY <1>1, <1>2 DEF LeakFree

LEMMA UpdateLimitsLeakFree ==
    ASSUME NotOverridden,
           NEW led \in LedgerType, NEW T \in SUBSET Tasks, NEW tk, NEW tk0, NEW s,
           \A t \in T : tk[t].state = s,
           \A t \in Tasks \ T : tk[t].state = tk0[t].state,
           LeakFree(tk0, led)
    PROVE  LeakFree(tk, UpdateLimits(led, tk, T, s))
<1>1. CASE s = "SUBMITTED"
  BY <1>1, IncrementLeakFree DEF UpdateLimits
<1>2. CASE s = "ACTIVE"
  BY <1>2, SubmissionLeakFree DEF UpdateLimits
<1>3. CASE s # "SUBMITTED" /\ s # "ACTIVE"
  <2>1. UpdateLimits(led, tk, T, s) = DecrementInLimit(led, [t \in T |-> tk])
    BY <1>3 DEF UpdateLimits
  <2> QED  BY <2>1, DecrementLeakFree
<1> QED  BY <1>1, <1>2, <1>3

\* Node::requeue forgets which inlimits -n it incremented before it gives the
\* tokens back: that is harmless only if no task below is running, or if no
\* inlimit is an inlimit -n.
LEMMA RequeueLeakFree ==
    ASSUME NEW led \in LedgerType, NEW a \in Nodes, NEW tk,
           Idle(a, tk) \/ NoNodeKind, LeakFree(tk, led)
    PROVE  LeakFree(RequeueTasks(tk, a), RequeueLedger(led, tk, a))
<1> DEFINE forgot == [led EXCEPT !.incremented = {g \in @ : g[1] \notin Below[a]}]
           seen   == [x \in Below[a] |-> SeenAt(tk, a, x)]
           freed  == DecrementInLimit(forgot, seen)
           F      == {Payer(g) : g \in {h \in Governed : h[1] \in DOMAIN seen
                                                         /\ Releases(forgot, seen, h)}}
           new    == RequeueLedger(led, tk, a)
<1>1. forgot \in LedgerType /\ forgot.paths = led.paths
        /\ forgot.incremented = {g \in led.incremented : g[1] \notin Below[a]}
  BY DEF LedgerType
<1>2. freed.paths \subseteq led.paths \ F /\ freed.incremented = forgot.incremented \ F
  <2> HIDE DEF forgot, seen
  <2> QED  BY <1>1, DecrementPaths
<1>3. freed \in LedgerType
  <2> HIDE DEF forgot, seen
  <2> QED  BY <1>1, DecrementFacts
<1>4. new.paths \subseteq freed.paths /\ new.incremented = freed.incremented
  <2>1. new = [freed EXCEPT
                 !.value = [l \in LimitNames |->
                               IF Home[l] \in Below[a] THEN 0 ELSE freed.value[l]],
                 !.paths = {g \in freed.paths : Home[g[2]] \notin Below[a]}]
    BY DEF RequeueLedger
  <2> HIDE DEF freed, new
  <2> QED  BY <1>3, <2>1 DEF LedgerType
<1>5. ASSUME NEW p \in led.paths \ F
      PROVE  /\ \E g \in Governed : Consumes(RequeueTasks(tk, a), g) /\ p = Payer(g)
             /\ NodeOnly(p) => p \in forgot.incremented
  <2>1. PICK g \in Governed : Consumes(tk, g) /\ p = Payer(g)
    BY DEF LeakFree
  <2>2. g[1] \in Tasks /\ tk[g[1]].state \in Running
    BY <2>1 DEF Consumes, Running
  <2>3. g[1] \notin Below[a]
    <3>1. CASE Idle(a, tk)
      BY <2>2, <3>1 DEF Idle
    <3>2. CASE NoNodeKind
      <4>1. ~NodeOnly(g)
        BY <3>2, GovernorIsNearest DEF NoNodeKind, NodeOnly
      <4>2. g[1] \in Below[a] => g \in F
        BY <2>1, <4>1 DEF Releases, Payer
      <4> QED  BY <1>5, <2>1, <4>1, <4>2 DEF Payer
    <3> QED  BY <3>1, <3>2
  <2>4. Consumes(RequeueTasks(tk, a), g)
    BY <2>1, <2>3 DEF Consumes, RequeueTasks
  <2>5. ASSUME NodeOnly(p) PROVE p \in forgot.incremented
    <3>1. NodeOnly(g) /\ p[1] = Governor[g].node
      BY <2>1, <2>5, PayerGoverned DEF NodeOnly, Payer
    <3>2. g[1] \in Below[p[1]] /\ p[1] \in Nodes
      BY <3>1, GovernorIsNearest, LimitAssumption
    <3>3. p[1] \notin Below[a]
      BY <2>3, <3>2, TreeAssumption
    <3> QED  BY <1>1, <2>5, <3>3 DEF LeakFree
  <2> QED  BY <2>1, <2>4, <2>5
<1> HIDE DEF F, new, freed, forgot
<1>6. \A p \in new.paths : p \in led.paths \ F /\ (p \in forgot.incremented => p \in new.incremented)
  BY <1>2, <1>4
<1> QED  BY <1>5, <1>6 DEF LeakFree, new

LEMMA HandleStateChangeLeakFree ==
    ASSUME NEW W \in SUBSET Nodes, NEW tk, NEW led \in LedgerType,
           LeakFree(tk, led), HandleStateChange(W, tk, led)
    PROVE  LeakFree(task', ledger')
<1>1. \A a \in W : Done(a, tk) => Idle(a, tk)
  BY DEF Done, Idle, Running
<1>2. ASSUME NEW a \in W, Done(a, tk), task' = RequeueTasks(tk, a),
             ledger' = RequeueLedger(led, tk, a)
      PROVE  LeakFree(task', ledger')
  BY <1>1, <1>2, RequeueLeakFree
<1>3. CASE task' = tk /\ ledger' = led
  BY <1>3
<1> QED  BY <1>2, <1>3 DEF HandleStateChange

LEMMA SetStateOnlyState ==
    ASSUME NEW r \in TaskType, NEW s, NEW force
    PROVE  SetStateOnly(r, s, force).state = s
BY DEF SetStateOnly, TaskType

LEMMA SetStateLeakFree ==
    ASSUME NotOverridden, ledger \in LedgerType,
           NEW tk \in TaskRecords, NEW t \in Tasks, NEW s,
           LeakFree(tk, ledger), SetState(tk, t, s)
    PROVE  LeakFree(task', ledger')
<1> DEFINE next == [tk EXCEPT ![t] = SetStateOnly(@, s, FALSE)]
           led  == UpdateLimits(ledger, next, {t}, s)
<1>1. CASE tk[t].state = s
  BY <1>1 DEF SetState
<1>2. CASE tk[t].state # s
  <2>1. next[t].state = s /\ \A u \in Tasks \ {t} : next[u].state = tk[u].state
    BY SetStateOnlyState DEF TaskRecords
  <2>2. HandleStateChange(PathUp(t), next, led) /\ PathUp(t) \in SUBSET Nodes
    BY <1>2 DEF SetState, PathUp
  <2> HIDE DEF next
  <2>3. led \in LedgerType
    BY UpdateLimitsFacts
  <2>4. LeakFree(next, led)
    BY <2>1, UpdateLimitsLeakFree
  <2> HIDE DEF led
  <2> QED  BY <2>2, <2>3, <2>4, HandleStateChangeLeakFree
<1> QED  BY <1>1, <1>2

\* Only the states of the tasks matter.
LEMMA LeakFreeSameStates ==
    ASSUME NEW tk, NEW tk0, NEW led, LeakFree(tk0, led),
           \A t \in Tasks : tk[t].state = tk0[t].state
    PROVE  LeakFree(tk, led)
BY DEF LeakFree, Consumes

LEMMA SubmitJobLeakFree ==
    ASSUME NotOverridden, TypeOK, NEW t \in Tasks,
           LeakFree(task, ledger), SubmitJob(t)
    PROVE  LeakFree(task', ledger')
<1> DEFINE n == task[t].tryNo + 1
           f == task[t].flags \ {"SUBMIT_FAILED"}
           r == [task[t] EXCEPT !.tryNo = n, !.flags = f]
           tried  == [task EXCEPT ![t] = r]
           failed == [tried EXCEPT ![t].flags = @ \cup {"SUBMIT_FAILED"}]
<1>1. task \in TaskRecords /\ task[t] \in TaskType /\ ledger \in LedgerType
  BY DEF TypeOK, TaskRecords
<1>2. n \in Nat /\ f \in SUBSET Flags
  BY <1>1 DEF TaskType
<1>3. SetState(tried, t, "SUBMITTED") \/ SetState(failed, t, "ABORTED")
  BY DEF SubmitJob
<1> HIDE DEF n, f
<1>4. r \in TaskType /\ r.state = task[t].state
  BY <1>1, <1>2 DEF TaskType
<1> HIDE DEF r
<1>5. tried \in TaskRecords /\ \A u \in Tasks : tried[u].state = task[u].state
  BY <1>1, <1>4 DEF TaskRecords
<1> HIDE DEF tried
<1>6. failed \in TaskRecords /\ \A u \in Tasks : failed[u].state = tried[u].state
  BY <1>5 DEF TaskRecords, TaskType, Flags
<1> HIDE DEF failed
<1>7. LeakFree(tried, ledger) /\ LeakFree(failed, ledger)
  BY <1>5, <1>6, LeakFreeSameStates
<1> QED  BY <1>1, <1>3, <1>5, <1>6, <1>7, SetStateLeakFree

\* Where no inlimit overrides an inlimit -n above it, and requeue force is not
\* used together with an inlimit -n, every token is given back: a recorded path
\* always stands for a running task.
THEOREM TokensNeverLeak ==
    ASSUME NotOverridden, NoNodeKind \/ "requeue force" \notin UserCmds
    PROVE  Spec => []NoTokenLeak
<1>1. Init => LeakFree(task, ledger)
  <2> SUFFICES ASSUME Init PROVE LeakFree(task, ledger)
    OBVIOUS
  <2>1. ledger = [value |-> [l \in LimitNames |-> 0], paths |-> {}, incremented |-> {}]
    BY DEF Init
  <2>2. ledger.paths = {}
    BY <2>1
  <2> QED  BY <2>2 DEF LeakFree
<1>2. TypeOK /\ LeakFree(task, ledger) /\ [Next]_vars => LeakFree(task, ledger)'
  <2> SUFFICES ASSUME TypeOK, LeakFree(task, ledger), [Next]_vars
               PROVE  LeakFree(task', ledger')
    BY DEF LeakFree, Consumes, NodeOnly
  <2>0. task \in TaskRecords /\ ledger \in LedgerType
    BY DEF TypeOK, TaskRecords
  <2>1. CASE UNCHANGED <<task, ledger>>
    BY <2>1
  <2>2. ASSUME NEW t \in Tasks, VisitTask(t) \/ RunTask(t)
        PROVE  LeakFree(task', ledger')
    BY <2>1, <2>2, SubmitJobLeakFree DEF VisitTask, RunTask
  <2>3. ASSUME NEW t \in Tasks, ChildInit(t) \/ ChildComplete(t) \/ ChildAbort(t)
        PROVE  LeakFree(task', ledger')
    BY <2>0, <2>3, SetStateLeakFree DEF ChildInit, ChildComplete, ChildAbort
  <2>4. ASSUME NEW t \in Tasks, NEW s \in ForceStates, ForceTask(t, s)
        PROVE  LeakFree(task', ledger')
    BY <2>0, <2>4, SetStateLeakFree DEF ForceTask
  <2>5. ASSUME NEW n \in Nodes, NEW s \in ForceStates, ForceRecursive(n, s)
        PROVE  LeakFree(task', ledger')
    <3> DEFINE T   == Tasks \cap Below[n]
               tk  == [t \in Tasks |-> IF t \in T THEN SetStateOnly(task[t], s, TRUE)
                                       ELSE task[t]]
               led == UpdateLimits(ledger, tk, T, s)
    <3>1. (\A t \in T : tk[t].state = s) /\ \A t \in Tasks \ T : tk[t].state = task[t].state
      BY <2>0, SetStateOnlyState DEF TaskRecords
    <3>2. HandleStateChange(PathUp(n), tk, led) /\ PathUp(n) \in SUBSET Nodes
      BY <2>5 DEF ForceRecursive, PathUp
    <3> HIDE DEF tk
    <3>3. led \in LedgerType
      BY <2>0, UpdateLimitsFacts
    <3>4. LeakFree(tk, led)
      BY <2>0, <3>1, UpdateLimitsLeakFree
    <3> HIDE DEF led, T
    <3> QED  BY <3>2, <3>3, <3>4, HandleStateChangeLeakFree
  <2>6. ASSUME NEW a \in Nodes, Requeue(a), Idle(a, task) \/ NoNodeKind
        PROVE  LeakFree(task', ledger')
    BY <2>0, <2>6, RequeueLeakFree DEF Requeue
  <2>7. ASSUME NEW a \in Nodes, RequeueNode(a) \/ RequeueForce(a)
        PROVE  LeakFree(task', ledger')
    BY <2>6, <2>7 DEF RequeueNode, RequeueForce, User
  <2>8. ASSUME NEW t \in Tasks, RequeueAborted(t)
        PROVE  LeakFree(task', ledger')
    <3>1. t \in Nodes /\ Below[t] = {t}
      BY TreeAssumption
    <3>2. Idle(t, task)
      BY <2>8, <3>1 DEF Idle, RequeueAborted, Running
    <3> QED  BY <2>6, <2>8, <3>1, <3>2 DEF RequeueAborted
  <2>9. ASSUME NEW l \in LimitNames, NEW v \in AlterValues, ChangeLimitValue(l, v)
        PROVE  LeakFree(task', ledger')
    <3>1. task' = task /\ ledger'.paths \subseteq ledger.paths
            /\ ledger'.incremented = ledger.incremented
      BY <2>0, <2>9 DEF ChangeLimitValue, LedgerType
    <3> QED  BY <3>1 DEF LeakFree
  <2>10. CASE \/ StartTraversal \/ VisitContainer \/ EndTraversal \/ TimeOut
              \/ UNCHANGED vars
              \/ \E l \in LimitNames, v \in AlterLims : ChangeLimitMax(l, v)
    BY <2>1, <2>10 DEF StartTraversal, VisitContainer, EndTraversal, TimeOut, vars,
       ChangeLimitMax
  <2> QED
    BY <2>2, <2>3, <2>4, <2>5, <2>7, <2>8, <2>9, <2>10 DEF Next, Traverse
<1>3. LeakFree(task, ledger) => NoTokenLeak
  BY DEF LeakFree, NoTokenLeak, Consumes, Consuming
<1> QED  BY <1>1, <1>2, <1>3, TypeCorrect, PTL DEF Spec

-----------------------------------------------------------------------------
(***************************************************************************)
(* The load is within the limit.  The invariant needs the converse of the  *)
(* last one: every task that consumes a limit has its token recorded, and  *)
(* an inlimit -n that remembers its token has one.                         *)
(***************************************************************************)
\* A limit is owned by a node above those that it limits.  Node::requeue of the
\* owner resets the limit, also the tokens of running tasks elsewhere.
LimitsAbove == \A i \in InLimits : i.node \in Below[Home[i.limit]]

\* No command ignores the limits or changes them.
NoneBypasses ==
    /\ UserCmds \cap {"run", "limit_max", "limit_value"} = {}
    /\ ForceStates \cap Running = {}

Funded(tk, led) ==
    /\ \A g \in Governed : Consumes(tk, g) => Payer(g) \in led.paths
    /\ \A p \in led.incremented : p \in led.paths /\ p \in Governed /\ NodeOnly(p)
                                  /\ p[1] = Governor[p].node

Within(led) == \A l \in LimitNames : led.value[l] <= lim[l]

LEMMA SamePayer ==
    ASSUME NEW g \in Governed, NEW h \in Governed, Payer(g) = Payer(h)
    PROVE  /\ NodeOnly(g) <=> NodeOnly(h)
           /\ ~NodeOnly(g) => g = h
           /\ NodeOnly(g) => h[1] \in Below[Payer(g)[1]] /\ Payer(g)[1] \in Nodes
<1>1. Governor[g] = Governor[h]
  BY PayerGoverned
<1>2. NodeOnly(g) <=> NodeOnly(h)
  BY <1>1 DEF NodeOnly
<1>3. ~NodeOnly(g) => g = h
  BY <1>2 DEF Payer
<1>4. NodeOnly(g) => Payer(g)[1] = Governor[h].node
  BY <1>1 DEF Payer
<1>5. h[1] \in Below[Governor[h].node] /\ Governor[h].node \in Nodes
  BY GovernorIsNearest, LimitAssumption
<1> QED  BY <1>2, <1>3, <1>4, <1>5

\* The entries that InLimitMgr::decrementInLimit gives back.
Returned(led, seen) ==
    {Payer(g) : g \in {h \in Governed : h[1] \in DOMAIN seen /\ Releases(led, seen, h)}}

\* In a ledger that agrees exactly the entries given back are dropped.
LEMMA DecrementExact ==
    ASSUME NEW led \in LedgerType, NEW seen, Agrees(led)
    PROVE  /\ DecrementInLimit(led, seen).paths = led.paths \ Returned(led, seen)
           /\ DecrementInLimit(led, seen).incremented = led.incremented \ Returned(led, seen)
<1> DEFINE F     == Returned(led, seen)
           given == Refund(led, F)
<1>1. given \in LedgerType /\ given.paths = led.paths \ F
        /\ given.incremented = led.incremented
  BY RefundType, RefundPaths, RefundAgrees
<1>2. DecrementInLimit(led, seen) = [given EXCEPT !.incremented = @ \ F]
  BY DEF DecrementInLimit, Returned
<1> HIDE DEF given, F
<1> QED  BY <1>1, <1>2 DEF LedgerType, F

LEMMA IncrementFunded ==
    ASSUME NEW led \in LedgerType, NEW T \in SUBSET Tasks, NEW tk, NEW tk0,
           \A t \in Tasks \ T : tk[t].state = tk0[t].state,
           Funded(tk0, led)
    PROVE  Funded(tk, IncrementInLimit(led, T))
<1> DEFINE G     == {g \in Governed : g[1] \in T}
           fresh == {g \in G : NodeOnly(g) => Payer(g) \notin led.incremented}
           C     == {Payer(g) : g \in fresh}
           D     == {Payer(g) : g \in {h \in G : NodeOnly(h)}}
           paid  == Charge(led, C)
           new   == IncrementInLimit(led, T)
<1>1. C \in SUBSET Entries
  BY PayerGoverned
<1>2. paid \in LedgerType /\ paid.paths = led.paths \cup C
        /\ paid.incremented = led.incremented
  <2> HIDE DEF C
  <2>1. paid \in LedgerType
    BY <1>1, ChargeType
  <2> QED  BY <2>1 DEF Charge, LedgerType
<1>3. new = [paid EXCEPT !.incremented = @ \cup D]
  BY DEF IncrementInLimit
<1>4. new.paths = led.paths \cup C /\ new.incremented = led.incremented \cup D
  <2> HIDE DEF paid, C, D
  <2> QED  BY <1>2, <1>3 DEF LedgerType
<1>5. ASSUME NEW g \in G
      PROVE  Payer(g) \in led.paths \cup C
  <2>1. CASE g \in fresh  BY <2>1
  <2>2. CASE g \notin fresh
    <3>1. Payer(g) \in led.incremented  BY <2>2
    <3> QED  BY <3>1 DEF Funded
  <2> QED  BY <2>1, <2>2
<1>6. ASSUME NEW g \in Governed, Consumes(tk, g)
      PROVE  Payer(g) \in led.paths \cup C
  <2>1. CASE g[1] \in T  BY <1>5, <2>1
  <2>2. CASE g[1] \notin T
    <3>1. Consumes(tk0, g)  BY <1>6, <2>2 DEF Consumes
    <3> QED  BY <3>1 DEF Funded
  <2> QED  BY <2>1, <2>2
<1>7. ASSUME NEW p \in D
      PROVE  /\ p \in led.paths \cup C /\ p \in Governed /\ NodeOnly(p)
             /\ p[1] = Governor[p].node
  <2>1. PICK g \in G : NodeOnly(g) /\ p = Payer(g)
    OBVIOUS
  <2>2. p \in Governed /\ Governor[p] = Governor[g]
    BY <2>1, PayerGoverned
  <2>3. p[1] = Governor[g].node  BY <2>1 DEF Payer
  <2>4. NodeOnly(p)  BY <2>1, <2>2 DEF NodeOnly
  <2> QED  BY <1>5, <2>1, <2>2, <2>3, <2>4
<1> HIDE DEF C, D, new
<1>8. \A p \in new.incremented : p \in new.paths /\ p \in Governed /\ NodeOnly(p)
                                 /\ p[1] = Governor[p].node
  BY <1>4, <1>7 DEF Funded
<1> QED  BY <1>4, <1>6, <1>8 DEF Funded, new

\* The token of an inlimit -s is not needed once the job is ACTIVE.
LEMMA SubmissionFunded ==
    ASSUME NEW led \in LedgerType, Agrees(led), NEW T \in SUBSET Tasks, NEW tk, NEW tk0,
           \A t \in T : tk[t].state = "ACTIVE" /\ tk0[t].state = "SUBMITTED",
           \A t \in Tasks \ T : tk[t].state = tk0[t].state,
           Funded(tk0, led)
    PROVE  Funded(tk, DecrementInLimitForSubmission(led, T))
<1> DEFINE F   == {g \in Governed : g[1] \in T /\ Governor[g].kind = "submit"}
           new == DecrementInLimitForSubmission(led, T)
<1>1. new.paths = led.paths \ F /\ new.incremented = led.incremented
  BY RefundPaths, RefundAgrees DEF DecrementInLimitForSubmission
<1>2. ASSUME NEW g \in Governed, Consumes(tk, g)
      PROVE  Payer(g) \in led.paths \ F
  <2>1. Consumes(tk0, g)
    BY <1>2 DEF Consumes, Running
  <2>2. Payer(g) \in led.paths  BY <2>1 DEF Funded
  <2>3. ASSUME Payer(g) \in F  PROVE FALSE
    <3>1. Governor[g].kind = "submit"  BY <2>3, PayerGoverned
    <3>2. Payer(g) = g  BY <3>1 DEF Payer, NodeOnly
    <3>3. tk[g[1]].state = "ACTIVE"  BY <2>3, <3>2
    <3> QED  BY <1>2, <3>1, <3>3 DEF Consumes
  <2> QED  BY <2>2, <2>3
<1>3. ASSUME NEW p \in led.incremented
      PROVE  p \notin F
  <2>1. Governor[p].kind = "node"  BY DEF Funded, NodeOnly
  <2> QED  BY <2>1
<1> HIDE DEF F, new
<1>4. \A p \in new.incremented : p \in new.paths /\ p \in Governed /\ NodeOnly(p)
                                 /\ p[1] = Governor[p].node
  BY <1>1, <1>3 DEF Funded
<1> QED  BY <1>1, <1>2, <1>4 DEF Funded, new

\* InLimitMgr::decrementInLimit gives back no token that is still needed: that
\* of an inlimit -n only when no task below its node is running.
LEMMA DecrementFunded ==
    ASSUME NEW led \in LedgerType, Agrees(led), NEW T \in SUBSET Tasks, NEW tk, NEW tk0,
           \A t \in T : tk[t].state \notin Running,
           \A t \in Tasks \ T : tk[t].state = tk0[t].state,
           Funded(tk0, led)
    PROVE  Funded(tk, DecrementInLimit(led, [t \in T |-> tk]))
<1> DEFINE seen == [t \in T |-> tk]
           F    == Returned(led, seen)
           new  == DecrementInLimit(led, seen)
<1>1. new.paths = led.paths \ F /\ new.incremented = led.incremented \ F
  BY DecrementExact
<1>2. ASSUME NEW g \in Governed, Consumes(tk, g)
      PROVE  Payer(g) \in led.paths \ F
  <2>1. g[1] \in Tasks /\ tk[g[1]].state \in Running
    BY <1>2 DEF Consumes, Running
  <2>2. g[1] \notin T  BY <2>1
  <2>3. Payer(g) \in led.paths
    <3>1. Consumes(tk0, g)  BY <1>2, <2>1, <2>2 DEF Consumes
    <3> QED  BY <3>1 DEF Funded
  <2>4. ASSUME Payer(g) \in F  PROVE FALSE
    <3>1. PICK h \in Governed : h[1] \in T /\ Releases(led, seen, h) /\ Payer(h) = Payer(g)
      BY <2>4 DEF Returned
    <3>2. NodeOnly(h)  BY <2>2, <3>1, SamePayer
    <3>3. g[1] \in Below[Payer(h)[1]]  BY <3>1, <3>2, SamePayer
    <3>4. Idle(Payer(h)[1], tk)  BY <3>1, <3>2 DEF Releases
    <3> QED  BY <2>1, <3>3, <3>4 DEF Idle
  <2> QED  BY <2>3, <2>4
<1> HIDE DEF F, new
<1>3. \A p \in new.incremented : p \in new.paths /\ p \in Governed /\ NodeOnly(p)
                                 /\ p[1] = Governor[p].node
  BY <1>1 DEF Funded
<1> QED  BY <1>1, <1>2, <1>3 DEF Funded, new

LEMMA UpdateLimitsFunded ==
    ASSUME NEW led \in LedgerType, Agrees(led), NEW T \in SUBSET Tasks, NEW tk, NEW tk0, NEW s,
           \A t \in T : tk[t].state = s,
           s = "ACTIVE" => \A t \in T : tk0[t].state = "SUBMITTED",
           \A t \in Tasks \ T : tk[t].state = tk0[t].state,
           Funded(tk0, led)
    PROVE  Funded(tk, UpdateLimits(led, tk, T, s))
<1>1. CASE s = "SUBMITTED"
  BY <1>1, IncrementFunded DEF UpdateLimits
<1>2. CASE s = "ACTIVE"
  BY <1>2, SubmissionFunded DEF UpdateLimits
<1>3. CASE s # "SUBMITTED" /\ s # "ACTIVE"
  <2>1. UpdateLimits(led, tk, T, s) = DecrementInLimit(led, [t \in T |-> tk])
    BY <1>3 DEF UpdateLimits
  <2>2. \A t \in T : tk[t].state \notin Running  BY <1>3 DEF Running
  <2> QED  BY <2>1, <2>2, DecrementFunded
<1> QED  BY <1>1, <1>2, <1>3

\* Node::requeue, forced or not, takes no token from a task outside: the limits
\* it resets limit nothing outside.
LEMMA RequeueFunded ==
    ASSUME LimitsAbove, NEW led \in LedgerType, Agrees(led), NEW a \in Nodes, NEW tk,
           Funded(tk, led)
    PROVE  Funded(RequeueTasks(tk, a), RequeueLedger(led, tk, a))
<1> DEFINE forgot == [led EXCEPT !.incremented = {g \in @ : g[1] \notin Below[a]}]
           seen   == [x \in Below[a] |-> SeenAt(tk, a, x)]
           freed  == DecrementInLimit(forgot, seen)
           F      == Returned(forgot, seen)
           new    == RequeueLedger(led, tk, a)
<1>1. forgot \in LedgerType /\ forgot.paths = led.paths /\ Agrees(forgot)
        /\ forgot.incremented = {g \in led.incremented : g[1] \notin Below[a]}
  BY DEF LedgerType, Agrees
<1>2. freed.paths = led.paths \ F /\ freed.incremented = forgot.incremented \ F
  <2> HIDE DEF forgot, seen
  <2> QED  BY <1>1, DecrementExact
<1>3. freed \in LedgerType
  <2> HIDE DEF forgot, seen
  <2> QED  BY <1>1, DecrementFacts
<1>4. new.paths = {g \in freed.paths : Home[g[2]] \notin Below[a]}
        /\ new.incremented = freed.incremented
  <2>1. new = [freed EXCEPT
                 !.value = [l \in LimitNames |->
                               IF Home[l] \in Below[a] THEN 0 ELSE freed.value[l]],
                 !.paths = {g \in freed.paths : Home[g[2]] \notin Below[a]}]
    BY DEF RequeueLedger
  <2> HIDE DEF freed, new
  <2> QED  BY <1>3, <2>1 DEF LedgerType
<1>5. ASSUME NEW g \in Governed, Home[g[2]] \in Below[a]
      PROVE  Governor[g].node \in Below[a] /\ g[1] \in Below[a]
  <2> DEFINE n == Governor[g].node
             h == Home[g[2]]
  <2>1. n \in Below[h] /\ n \in Nodes /\ g[1] \in Below[n] /\ h \in Nodes
    BY GovernorIsNearest, LimitAssumption DEF LimitsAbove, Entries
  <2>2. Below[h] \subseteq Below[a]  BY <1>5, <2>1, TreeAssumption
  <2>3. n \in Below[a]  BY <2>1, <2>2
  <2>4. Below[n] \subseteq Below[a]  BY <2>1, <2>3, TreeAssumption
  <2> QED  BY <2>1, <2>3, <2>4
<1>6. ASSUME NEW g \in Governed, Consumes(RequeueTasks(tk, a), g)
      PROVE  Payer(g) \in led.paths \ F /\ Home[Payer(g)[2]] \notin Below[a]
  <2>1. g[1] \in Tasks /\ RequeueTasks(tk, a)[g[1]].state \in Running
    BY <1>6 DEF Consumes, Running
  <2>2. g[1] \notin Below[a]  BY <2>1 DEF RequeueTasks, Queued, Running
  <2>3. RequeueTasks(tk, a)[g[1]] = tk[g[1]]  BY <2>1, <2>2 DEF RequeueTasks
  <2>4. Payer(g) \in led.paths
    <3>1. Consumes(tk, g)  BY <1>6, <2>3 DEF Consumes
    <3> QED  BY <3>1 DEF Funded
  <2>5. ASSUME Payer(g) \in F  PROVE FALSE
    <3>1. PICK h \in Governed : h[1] \in Below[a] /\ Releases(forgot, seen, h)
                                /\ Payer(h) = Payer(g)
      BY <2>5 DEF Returned
    <3>2. NodeOnly(h)  BY <2>2, <3>1, SamePayer
    <3>3. g[1] \in Below[Payer(h)[1]]  BY <3>1, <3>2, SamePayer
    <3>4. Idle(Payer(h)[1], seen[h[1]])  BY <3>1, <3>2 DEF Releases
    <3>5. seen[h[1]][g[1]] = tk[g[1]]  BY <2>1, <2>2, <3>1 DEF SeenAt
    <3> QED  BY <2>1, <2>3, <3>3, <3>4, <3>5 DEF Idle
  <2>6. Home[Payer(g)[2]] \notin Below[a]  BY <1>5, <2>2, PayerGoverned
  <2> QED  BY <2>4, <2>5, <2>6
<1> HIDE DEF F, new, freed, forgot, seen
<1>7. ASSUME NEW p \in new.incremented
      PROVE  p \in new.paths /\ p \in Governed /\ NodeOnly(p) /\ p[1] = Governor[p].node
  <2>1. p \in led.incremented /\ p \notin F /\ p[1] \notin Below[a]  BY <1>1, <1>2, <1>4
  <2>2. p \in led.paths /\ p \in Governed /\ NodeOnly(p) /\ p[1] = Governor[p].node
    BY <2>1 DEF Funded
  <2>3. Home[p[2]] \notin Below[a]  BY <1>5, <2>1, <2>2
  <2> QED  BY <1>2, <1>4, <2>1, <2>2, <2>3
<1> QED  BY <1>2, <1>4, <1>6, <1>7 DEF Funded, new

LEMMA HandleStateChangeFunded ==
    ASSUME LimitsAbove, NEW W \in SUBSET Nodes, NEW tk, NEW led \in LedgerType, Agrees(led),
           Funded(tk, led), HandleStateChange(W, tk, led)
    PROVE  Funded(task', ledger')
<1>1. ASSUME NEW a \in W, task' = RequeueTasks(tk, a), ledger' = RequeueLedger(led, tk, a)
      PROVE  Funded(task', ledger')
  BY <1>1, RequeueFunded
<1>2. CASE task' = tk /\ ledger' = led
  BY <1>2
<1> QED  BY <1>1, <1>2 DEF HandleStateChange

LEMMA SetStateFunded ==
    ASSUME LimitsAbove, ledger \in LedgerType, Agrees(ledger),
           NEW tk \in TaskRecords, NEW t \in Tasks, NEW s,
           s = "ACTIVE" => tk[t].state = "SUBMITTED",
           Funded(tk, ledger), SetState(tk, t, s)
    PROVE  Funded(task', ledger')
<1> DEFINE next == [tk EXCEPT ![t] = SetStateOnly(@, s, FALSE)]
           led  == UpdateLimits(ledger, next, {t}, s)
<1>1. CASE tk[t].state = s
  BY <1>1 DEF SetState
<1>2. CASE tk[t].state # s
  <2>1. next[t].state = s /\ \A u \in Tasks \ {t} : next[u].state = tk[u].state
    BY SetStateOnlyState DEF TaskRecords
  <2>2. HandleStateChange(PathUp(t), next, led) /\ PathUp(t) \in SUBSET Nodes
    BY <1>2 DEF SetState, PathUp
  <2> HIDE DEF next
  <2>3. led \in LedgerType /\ Agrees(led)
    BY UpdateLimitsFacts
  <2>4. Funded(next, led)
    BY <2>1, UpdateLimitsFunded
  <2> HIDE DEF led
  <2> QED  BY <2>2, <2>3, <2>4, HandleStateChangeFunded
<1> QED  BY <1>1, <1>2

\* Only the states of the tasks matter.
LEMMA FundedSameStates ==
    ASSUME NEW tk, NEW tk0, NEW led, Funded(tk0, led),
           \A t \in Tasks : tk[t].state = tk0[t].state
    PROVE  Funded(tk, led)
<1>1. \A g \in Governed : Consumes(tk, g) => Consumes(tk0, g)
  BY DEF Consumes
<1> QED  BY <1>1 DEF Funded

LEMMA SubmitJobFunded ==
    ASSUME LimitsAbove, TypeOK, Agrees(ledger), NEW t \in Tasks,
           Funded(task, ledger), SubmitJob(t)
    PROVE  Funded(task', ledger')
<1> DEFINE n == task[t].tryNo + 1
           f == task[t].flags \ {"SUBMIT_FAILED"}
           r == [task[t] EXCEPT !.tryNo = n, !.flags = f]
           tried  == [task EXCEPT ![t] = r]
           failed == [tried EXCEPT ![t].flags = @ \cup {"SUBMIT_FAILED"}]
<1>1. task \in TaskRecords /\ task[t] \in TaskType /\ ledger \in LedgerType
  BY DEF TypeOK, TaskRecords
<1>2. n \in Nat /\ f \in SUBSET Flags
  BY <1>1 DEF TaskType
<1>3. SetState(tried, t, "SUBMITTED") \/ SetState(failed, t, "ABORTED")
  BY DEF SubmitJob
<1> HIDE DEF n, f
<1>4. r \in TaskType /\ r.state = task[t].state
  BY <1>1, <1>2 DEF TaskType
<1> HIDE DEF r
<1>5. tried \in TaskRecords /\ \A u \in Tasks : tried[u].state = task[u].state
  BY <1>1, <1>4 DEF TaskRecords
<1> HIDE DEF tried
<1>6. failed \in TaskRecords /\ \A u \in Tasks : failed[u].state = tried[u].state
  BY <1>5 DEF TaskRecords, TaskType, Flags
<1> HIDE DEF failed
<1>7. Funded(tried, ledger) /\ Funded(failed, ledger)
  BY <1>5, <1>6, FundedSameStates
<1> QED  BY <1>1, <1>3, <1>5, <1>6, <1>7, SetStateFunded

LEMMA UpdateLimitsLowers ==
    ASSUME NEW led \in LedgerType, NEW tk, NEW T, NEW s, s # "SUBMITTED", NEW l \in LimitNames
    PROVE  UpdateLimits(led, tk, T, s).value[l] <= led.value[l]
<1>1. CASE s = "ACTIVE"
  BY <1>1, RefundLowers DEF UpdateLimits, DecrementInLimitForSubmission
<1>2. CASE s # "ACTIVE"
  <2>1. UpdateLimits(led, tk, T, s) = DecrementInLimit(led, [t \in T |-> tk])
    BY <1>2 DEF UpdateLimits
  <2> QED  BY <2>1, DecrementLowers
<1> QED  BY <1>1, <1>2

\* No change of state but that to SUBMITTED takes tokens.
LEMMA ChangeWithin ==
    ASSUME ledger \in LedgerType, ledger' \in LedgerType, lim \in [LimitNames -> Nat],
           lim' = lim, Within(ledger),
           NEW W \in SUBSET Nodes, NEW tk, NEW T, NEW s, s # "SUBMITTED",
           HandleStateChange(W, tk, UpdateLimits(ledger, tk, T, s))
    PROVE  Within(ledger)'
<1> DEFINE led == UpdateLimits(ledger, tk, T, s)
<1>1. led \in LedgerType  BY UpdateLimitsFacts
<1>2. ASSUME NEW l \in LimitNames
      PROVE  ledger'.value[l] <= lim[l]
  <2>1. led.value[l] <= ledger.value[l]  BY UpdateLimitsLowers
  <2> HIDE DEF led
  <2>2. ledger'.value[l] <= led.value[l]  BY <1>1, HandleStateChangeLowers DEF led
  <2>3. ledger.value[l] \in Nat /\ ledger'.value[l] \in Nat /\ led.value[l] \in Nat /\ lim[l] \in Nat
    BY <1>1 DEF LedgerType
  <2> QED  BY <2>1, <2>2, <2>3 DEF Within
<1> QED  BY <1>2 DEF Within

LEMMA SetStateWithin ==
    ASSUME ledger \in LedgerType, ledger' \in LedgerType, lim \in [LimitNames -> Nat],
           lim' = lim, Within(ledger),
           NEW tk, NEW t \in Tasks, NEW s, s # "SUBMITTED", SetState(tk, t, s)
    PROVE  Within(ledger)'
<1> DEFINE next == [tk EXCEPT ![t] = SetStateOnly(@, s, FALSE)]
<1>1. CASE tk[t].state = s
  BY <1>1 DEF SetState, Within
<1>2. CASE tk[t].state # s
  <2>1. HandleStateChange(PathUp(t), next, UpdateLimits(ledger, next, {t}, s))
        /\ PathUp(t) \in SUBSET Nodes
    BY <1>2 DEF SetState, PathUp
  <2> HIDE DEF next
  <2> QED  BY <2>1, ChangeWithin
<1> QED  BY <1>1, <1>2

LEMMA RequeueWithin ==
    ASSUME ledger \in LedgerType, ledger' \in LedgerType, lim \in [LimitNames -> Nat],
           Within(ledger), NEW a \in Nodes, Requeue(a)
    PROVE  Within(ledger)'
<1>1. lim' = lim /\ ledger' = RequeueLedger(ledger, task, a)  BY DEF Requeue
<1>2. ASSUME NEW l \in LimitNames
      PROVE  ledger'.value[l] <= lim[l]
  <2>1. ledger'.value[l] <= ledger.value[l]  BY <1>1, RequeueLowers
  <2>2. ledger.value[l] \in Nat /\ ledger'.value[l] \in Nat /\ lim[l] \in Nat  BY DEF LedgerType
  <2> QED  BY <2>1, <2>2 DEF Within
<1> QED  BY <1>1, <1>2 DEF Within

Backed == Agrees(ledger) /\ Funded(task, ledger)

LEMMA BackedNext ==
    ASSUME LimitsAbove, NoneBypasses, TypeOK, Backed, [Next]_vars
    PROVE  Backed'
<1> SUFFICES Agrees(ledger') /\ Funded(task', ledger')
  BY DEF Backed, Agrees, Funded, Consumes, NodeOnly
<1>0. task \in TaskRecords /\ ledger \in LedgerType /\ Agrees(ledger) /\ Funded(task, ledger)
  BY DEF TypeOK, TaskRecords, Backed
<1>a. \A l \in LimitNames, v \in AlterValues : ~ChangeLimitValue(l, v)
  BY DEF ChangeLimitValue, User, NoneBypasses
<1>1. CASE UNCHANGED <<task, ledger>>
  BY <1>0, <1>1
<1>2. ASSUME NEW t \in Tasks, VisitTask(t)
      PROVE  Funded(task', ledger')
  BY <1>0, <1>1, <1>2, SubmitJobFunded DEF VisitTask
<1>3. ASSUME NEW t \in Tasks, ChildInit(t) \/ ChildComplete(t) \/ ChildAbort(t)
      PROVE  Funded(task', ledger')
  BY <1>0, <1>3, SetStateFunded DEF ChildInit, ChildComplete, ChildAbort
<1>4. ASSUME NEW t \in Tasks, NEW s \in ForceStates, ForceTask(t, s)
      PROVE  Funded(task', ledger')
  <2>1. s # "ACTIVE"  BY DEF NoneBypasses, Running
  <2> QED  BY <1>0, <1>4, <2>1, SetStateFunded DEF ForceTask
<1>5. ASSUME NEW n \in Nodes, NEW s \in ForceStates, ForceRecursive(n, s)
      PROVE  Funded(task', ledger')
  <2> DEFINE T   == Tasks \cap Below[n]
             tk  == [t \in Tasks |-> IF t \in T THEN SetStateOnly(task[t], s, TRUE)
                                     ELSE task[t]]
             led == UpdateLimits(ledger, tk, T, s)
  <2>0. s # "ACTIVE"  BY DEF NoneBypasses, Running
  <2>1. (\A t \in T : tk[t].state = s) /\ \A t \in Tasks \ T : tk[t].state = task[t].state
    BY <1>0, SetStateOnlyState DEF TaskRecords
  <2>2. HandleStateChange(PathUp(n), tk, led) /\ PathUp(n) \in SUBSET Nodes
    BY <1>5 DEF ForceRecursive, PathUp
  <2> HIDE DEF tk
  <2>3. led \in LedgerType /\ Agrees(led)
    BY <1>0, UpdateLimitsFacts
  <2>4. Funded(tk, led)
    BY <1>0, <2>0, <2>1, UpdateLimitsFunded
  <2> HIDE DEF led, T
  <2> QED  BY <2>2, <2>3, <2>4, HandleStateChangeFunded
<1>6. ASSUME NEW a \in Nodes, Requeue(a)
      PROVE  Funded(task', ledger')
  BY <1>0, <1>6, RequeueFunded DEF Requeue
<1>7. ASSUME NEW a \in Nodes, RequeueNode(a) \/ RequeueForce(a)
      PROVE  Funded(task', ledger')
  BY <1>6, <1>7 DEF RequeueNode, RequeueForce
<1>8. ASSUME NEW t \in Tasks, RequeueAborted(t)
      PROVE  Funded(task', ledger')
  BY <1>6, <1>8, TreeAssumption DEF RequeueAborted
<1>9. \A t \in Tasks : ~RunTask(t)  BY DEF RunTask, User, NoneBypasses
<1>10. CASE Accounted
  <2>1. Agrees(ledger')  BY <1>0, <1>10, AccountedSteps
  <2>2. Funded(task', ledger')
    BY <1>2, <1>3, <1>4, <1>5, <1>7, <1>8, <1>9, <1>10 DEF Accounted
  <2> QED  BY <2>1, <2>2
<1>11. CASE \/ StartTraversal \/ VisitContainer \/ EndTraversal \/ TimeOut
            \/ UNCHANGED vars
            \/ \E l \in LimitNames, v \in AlterLims : ChangeLimitMax(l, v)
  BY <1>1, <1>11 DEF StartTraversal, VisitContainer, EndTraversal, TimeOut, vars,
     ChangeLimitMax
<1> QED  BY <1>a, <1>10, <1>11 DEF Next, Traverse, Accounted

LEMMA WithinNext ==
    ASSUME NoneBypasses, TypeOK, TypeOK', Within(ledger), [Next]_vars,
           cursor > 0 => \A l \in LimitNames : \/ ledger'.value[l] <= lim[l]
                                               \/ ledger'.value[l] <= ledger.value[l]
    PROVE  Within(ledger)'
<1>0. /\ ledger \in LedgerType /\ ledger' \in LedgerType /\ lim \in [LimitNames -> Nat]
      /\ cursor \in Nat
  BY DEF TypeOK
<1>1. CASE UNCHANGED <<ledger, lim>>
  BY <1>1 DEF Within
<1>2. CASE cursor > 0 /\ lim' = lim
  <2>1. ASSUME NEW l \in LimitNames
        PROVE  ledger'.value[l] <= lim[l]
    <3>1. ledger.value[l] \in Nat /\ ledger'.value[l] \in Nat /\ lim[l] \in Nat
      BY <1>0 DEF LedgerType
    <3>2. ledger.value[l] <= lim[l]  BY DEF Within
    <3> QED  BY <1>2, <3>1, <3>2
  <2> QED  BY <1>2, <2>1 DEF Within
<1>3. ASSUME NEW t \in Tasks, ChildInit(t) \/ ChildComplete(t) \/ ChildAbort(t)
      PROVE  Within(ledger)'
  BY <1>0, <1>3, SetStateWithin DEF ChildInit, ChildComplete, ChildAbort
<1>4. ASSUME NEW t \in Tasks, NEW s \in ForceStates, ForceTask(t, s)
      PROVE  Within(ledger)'
  <2>1. s # "SUBMITTED"  BY DEF NoneBypasses, Running
  <2> QED  BY <1>0, <1>4, <2>1, SetStateWithin DEF ForceTask
<1>5. ASSUME NEW n \in Nodes, NEW s \in ForceStates, ForceRecursive(n, s)
      PROVE  Within(ledger)'
  <2> DEFINE T   == Tasks \cap Below[n]
             tk  == [t \in Tasks |-> IF t \in T THEN SetStateOnly(task[t], s, TRUE)
                                     ELSE task[t]]
  <2>0. s # "SUBMITTED"  BY DEF NoneBypasses, Running
  <2>1. /\ HandleStateChange(PathUp(n), tk, UpdateLimits(ledger, tk, T, s))
        /\ PathUp(n) \in SUBSET Nodes /\ lim' = lim
    BY <1>5 DEF ForceRecursive, PathUp
  <2> HIDE DEF tk, T
  <2> QED  BY <1>0, <2>0, <2>1, ChangeWithin
<1>6. ASSUME NEW a \in Nodes, RequeueNode(a) \/ RequeueForce(a)
      PROVE  Within(ledger)'
  BY <1>0, <1>6, RequeueWithin DEF RequeueNode, RequeueForce
<1>7. ASSUME NEW t \in Tasks, RequeueAborted(t)
      PROVE  Within(ledger)'
  BY <1>0, <1>7, RequeueWithin, TreeAssumption DEF RequeueAborted
<1>8. ASSUME NEW t \in Tasks, VisitTask(t)
      PROVE  Within(ledger)'
  BY <1>0, <1>2, <1>8 DEF VisitTask, Visiting
<1>9. CASE StartTraversal \/ VisitContainer \/ EndTraversal \/ TimeOut \/ UNCHANGED vars
  BY <1>1, <1>9 DEF StartTraversal, VisitContainer, EndTraversal, TimeOut, vars
<1>10. /\ \A t \in Tasks : ~RunTask(t)
       /\ \A l \in LimitNames, v \in AlterLims : ~ChangeLimitMax(l, v)
       /\ \A l \in LimitNames, v \in AlterValues : ~ChangeLimitValue(l, v)
  BY DEF RunTask, ChangeLimitMax, ChangeLimitValue, User, NoneBypasses
<1> QED
  BY <1>3, <1>4, <1>5, <1>6, <1>7, <1>8, <1>9, <1>10 DEF Next, Traverse

\* Whatever job generation, child commands, repeats, re-queues (also forced) and
\* forced states do, in any order: the tokens owed by the tasks that consume a
\* limit do not exceed it, if limits are owned by nodes above those they limit.
THEOREM LoadAlwaysWithinLimit ==
    ASSUME LimitsAbove, NoneBypasses
    PROVE  Spec => []LoadWithinLimit
<1> DEFINE Kept == cursor > 0 =>
                      \A l \in LimitNames : \/ ledger'.value[l] <= lim[l]
                                            \/ ledger'.value[l] <= ledger.value[l]
<1>1. Init => Backed /\ Within(ledger)
  <2> SUFFICES ASSUME Init PROVE Backed /\ Within(ledger)
    OBVIOUS
  <2>1. ledger = [value |-> [l \in LimitNames |-> 0], paths |-> {}, incremented |-> {}]
        /\ lim \in [LimitNames -> Nat] /\ task = [t \in Tasks |-> Queued]
    BY LimitAssumption DEF Init
  <2>2. Agrees(ledger)  BY <2>1, TokensNone DEF Agrees
  <2>3. Funded(task, ledger)  BY <2>1 DEF Funded, Consumes, Queued, Running
  <2>4. Within(ledger)  BY <2>1 DEF Within
  <2> QED  BY <2>2, <2>3, <2>4 DEF Backed
<1>2. TypeOK /\ Backed /\ [Next]_vars => Backed'
  BY BackedNext
<1>3. TypeOK /\ TypeOK' /\ Within(ledger) /\ [Next]_vars /\ [Kept]_vars => Within(ledger)'
  <2>1. CASE Kept  BY <2>1, WithinNext
  <2>2. CASE UNCHANGED vars  BY <2>2 DEF vars, Within
  <2> QED  BY <2>1, <2>2
<1>4. TypeOK /\ Backed /\ Within(ledger) => LoadWithinLimit
  <2> SUFFICES ASSUME TypeOK, Backed, Within(ledger), NEW l \in LimitNames
               PROVE  Tokens({Payer(g) : g \in Consuming}, l) <= lim[l]
    BY DEF LoadWithinLimit
  <2> DEFINE H == {Payer(g) : g \in Consuming}
  <2>1. H \subseteq ledger.paths  BY DEF Backed, Funded, Consumes, Consuming
  <2>2. Tokens(H, l) <= Tokens(ledger.paths, l)  BY <2>1, TokensMonotone
  <2>3. Tokens(ledger.paths, l) <= lim[l]  BY DEF Backed, Agrees, Within
  <2>4. Tokens(H, l) \in Nat /\ Tokens(ledger.paths, l) \in Nat /\ lim[l] \in Nat
    BY UnitsFinite DEF TypeOK
  <2> HIDE DEF H
  <2>5. Tokens(H, l) <= lim[l]  BY <2>2, <2>3, <2>4
  <2> QED  BY <2>5 DEF H
<1>5. Spec => [][Kept]_vars  BY SchedulerAlwaysKeepsLimit DEF SchedulerKeepsLimit
<1> HIDE DEF Kept
<1> QED  BY <1>1, <1>2, <1>3, <1>4, <1>5, TypeCorrect, PTL DEF Spec
=============================================================================

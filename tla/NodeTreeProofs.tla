-------------------------- MODULE NodeTreeProofs --------------------------
(***************************************************************************)
(* Proofs about NodeTree, for any tree of nodes with any repeats, triggers *)
(* and complete expressions, and any number of commands.                   *)
(***************************************************************************)
EXTENDS NodeTree, WellFoundedInduction, TLAPS

-----------------------------------------------------------------------------
(* Induction and recursion over 0 .. k.  What an operator computes by a      *)
(* recursive function is what the function F does, step by step.            *)

LEMMA LeastOf ==
    ASSUME NEW S, S \subseteq Nat, S # {}
    PROVE  \E x \in S : \A y \in S : x <= y
<1>1. PICK x \in S : \A y \in S : ~(<<y, x>> \in OpToRel(<, Nat))
    BY WFMin, NatLessThanWellFounded, Zenon
<1>2. \A y \in S : ~(y < x)
    BY <1>1 DEF OpToRel
<1> QED BY <1>2

\* S: the set of the numbers that have the property.
LEMMA Induction ==
    ASSUME NEW k \in Nat, NEW S, 0 \in S, \A i \in 1 .. k : i - 1 \in S => i \in S
    PROVE  \A i \in 0 .. k : i \in S
<1> SUFFICES ASSUME NEW j \in 0 .. k, j \notin S PROVE FALSE
    OBVIOUS
<1> DEFINE T == {i \in 0 .. k : i \notin S}
<1>1. T \subseteq Nat /\ T # {}
    OBVIOUS
<1>2. PICK x \in T : \A y \in T : x <= y
    BY <1>1, LeastOf
<1>3. x \in 1 .. k /\ x - 1 \in 0 .. k
    OBVIOUS
<1>4. x - 1 \notin S
    BY <1>3
<1>5. x - 1 \in T
    BY <1>3, <1>4
<1> QED BY <1>2, <1>3, <1>5

\* f is what k steps of F make of s.
Steps(F, V, k, s, f) ==
    f \in [0 .. k -> V] /\ f[0] = s /\ \A i \in 1 .. k : f[i] = F[<<f[i - 1], i>>]

LEMMA Recursion ==
    ASSUME NEW k \in Nat, NEW V, NEW s \in V, NEW F \in [V \X (1 .. k) -> V]
    PROVE  \E f : Steps(F, V, k, s, f)
<1> DEFINE P(j, f) == f \in [0 .. j -> V] /\ f[0] = s /\ \A i \in 1 .. j : f[i] = F[<<f[i - 1], i>>]
           S == {j \in 0 .. k : \E f : P(j, f)}
<1>1. 0 \in S
    <2>1. P(0, [i \in 0 .. 0 |-> s])
        OBVIOUS
    <2> HIDE DEF P
    <2> QED BY <2>1
<1>2. ASSUME NEW j \in 1 .. k, j - 1 \in S PROVE j \in S
    <2>1. PICK f : P(j - 1, f)
        BY <1>2
    <2> DEFINE g == [i \in 0 .. j |-> IF i = j THEN F[<<f[j - 1], j>>] ELSE f[i]]
    <2>2. f[j - 1] \in V
        BY <2>1
    <2>3. F[<<f[j - 1], j>>] \in V
        BY <2>2
    <2>4. g \in [0 .. j -> V] /\ g[0] = s
        BY <2>1, <2>3
    <2>5. \A i \in 1 .. j : g[i] = F[<<g[i - 1], i>>]
        BY <2>1
    <2>6. P(j, g)
        BY <2>4, <2>5
    <2> HIDE DEF P, g
    <2> QED BY <2>6
<1> HIDE DEF P
<1>3. \A i \in 0 .. k : i \in S
    <2> HIDE DEF S
    <2> QED BY <1>1, <1>2, Induction
<1>4. k \in S
    BY <1>3
<1> QED BY <1>4 DEF P, Steps

LEMMA Only == \A a : (CHOOSE y \in {a} : TRUE) = a
OBVIOUS

-----------------------------------------------------------------------------
(* The tree *)

LEMMA TreeType ==
    /\ Size \in Nat /\ Size >= 1 /\ Nodes \subseteq Nat /\ Suite \in Nodes
    /\ \A n \in Nodes : n \in Nat /\ 1 <= n /\ n <= Size
    /\ \A n \in Nodes \ {Suite} : Parent[n] \in Nodes /\ Parent[n] < n
<1>1. Size \in Nat /\ Size >= 1
    BY TreeAssumption DEF Size
<1>2. \A n \in Nodes \ {Suite} : Parent[n] \in 1 .. n - 1
    BY TreeAssumption
<1> QED BY <1>1, <1>2 DEF Nodes, Suite

\* F computes what a node has from what its parent has.
FromParent(F, V, v, f) ==
    f \in [Nodes -> V] /\ \A n \in Nodes : f[n] = F[<<n, IF n = Suite THEN v ELSE f[Parent[n]]>>]

LEMMA TreeRecursion ==
    ASSUME NEW V, NEW v \in V, NEW F \in [Nodes \X V -> V]
    PROVE  \E f : FromParent(F, V, v, f)
<1> DEFINE Of(n, f) == IF n = Suite THEN v ELSE f[Parent[n]]
           P(j, f) == f \in [1 .. j -> V] /\ \A n \in 1 .. j : f[n] = F[<<n, Of(n, f)>>]
           S == {j \in 0 .. Size : \E f : P(j, f)}
<1>1. 0 \in S
    <2>1. P(0, [n \in 1 .. 0 |-> v])
        OBVIOUS
    <2> HIDE DEF P
    <2> QED BY <2>1, TreeType
<1>2. ASSUME NEW j \in 1 .. Size, j - 1 \in S PROVE j \in S
    <2>1. PICK f : P(j - 1, f)
        BY <1>2
    <2>2. j \in Nodes /\ j \in Nat
        BY TreeType DEF Nodes
    <2>3. Of(j, f) \in V
        <3>1. j # Suite => Parent[j] \in 1 .. j - 1
            BY <2>2, TreeType DEF Nodes
        <3> QED BY <2>1, <3>1
    <2> DEFINE g == [n \in 1 .. j |-> IF n = j THEN F[<<j, Of(j, f)>>] ELSE f[n]]
    <2>4. F[<<j, Of(j, f)>>] \in V
        BY <2>2, <2>3
    <2>5. g \in [1 .. j -> V]
        BY <2>1, <2>4
    <2>6. ASSUME NEW n \in 1 .. j PROVE g[n] = F[<<n, Of(n, g)>>]
        <3>1. n \in Nodes
            BY <2>2, TreeType DEF Nodes
        <3>2. n # Suite => Parent[n] \in 1 .. j - 1
            BY <3>1, TreeType DEF Nodes
        <3>3. Of(n, g) = Of(n, f)
            BY <3>2, <2>2
        <3>4. CASE n = j
            BY <3>3, <3>4
        <3>5. CASE n # j
            <4>1. n \in 1 .. j - 1
                BY <3>5, <2>2
            <4> QED BY <4>1, <3>3, <2>1, <2>2
        <3> QED BY <3>4, <3>5
    <2>7. P(j, g)
        BY <2>5, <2>6
    <2> HIDE DEF P, g
    <2> QED BY <2>7
<1> HIDE DEF P
<1>3. \A i \in 0 .. Size : i \in S
    <2> HIDE DEF S
    <2> QED BY <1>1, <1>2, Induction, TreeType
<1>4. Size \in S
    BY <1>3, TreeType
<1> QED BY <1>4 DEF P, FromParent, Nodes

\* Induction down the tree, for the set S of the nodes that have the property.
LEMMA TreeInduction ==
    ASSUME NEW S, \A n \in Nodes : (n # Suite => Parent[n] \in S) => n \in S
    PROVE  \A n \in Nodes : n \in S
<1> SUFFICES ASSUME NEW j \in Nodes, j \notin S PROVE FALSE
    OBVIOUS
<1> DEFINE T == {i \in Nodes : i \notin S}
<1>1. PICK x \in T : \A y \in T : x <= y
    BY LeastOf, TreeType
<1>2. x \in Nodes /\ x # Suite /\ Parent[x] \notin S
    OBVIOUS
<1>3. Parent[x] \in T /\ Parent[x] < x
    BY <1>2, TreeType
<1>4. x <= Parent[x] /\ x \in Nat /\ Parent[x] \in Nat
    BY <1>1, <1>2, <1>3, TreeType
<1> QED BY <1>3, <1>4

LEMMA AboveIs ==
    /\ Above \in [Nodes -> SUBSET Nodes]
    /\ \A n \in Nodes : Above[n] = {n} \cup (IF n = Suite THEN {} ELSE Above[Parent[n]])
<1> DEFINE F == [p \in Nodes \X SUBSET Nodes |-> {p[1]} \cup p[2]]
<1>1. F \in [Nodes \X SUBSET Nodes -> SUBSET Nodes] /\ {} \in SUBSET Nodes
    OBVIOUS
<1>2. \A n \in Nodes, S \in SUBSET Nodes : F[<<n, S>>] = {n} \cup S
    OBVIOUS
<1> HIDE DEF F
<1>3. PICK f : FromParent(F, SUBSET Nodes, {}, f)
    BY <1>1, TreeRecursion
<1>4. f \in [Nodes -> SUBSET Nodes]
    BY <1>3 DEF FromParent
<1>5. ASSUME NEW n \in Nodes PROVE f[n] = {n} \cup (IF n = Suite THEN {} ELSE f[Parent[n]])
    <2>1. n # Suite => f[Parent[n]] \in SUBSET Nodes
        BY <1>4, TreeType
    <2>2. f[n] = F[<<n, IF n = Suite THEN {} ELSE f[Parent[n]]>>]
        BY <1>3 DEF FromParent
    <2> QED BY <2>1, <2>2, <1>2
<1>6. f = [n \in Nodes |-> {n} \cup (IF n = Suite THEN {} ELSE f[Parent[n]])]
    BY <1>4, <1>5
<1>7. Above = [n \in Nodes |-> {n} \cup (IF n = Suite THEN {} ELSE Above[Parent[n]])]
    BY <1>6, Zenon DEF Above
<1>8. \A n \in Nodes : Above[n] = {n} \cup (IF n = Suite THEN {} ELSE Above[Parent[n]])
    BY <1>7
<1> DEFINE S == {n \in Nodes : Above[n] \subseteq Nodes}
<1>9. \A n \in Nodes : n \in S
    <2>1. ASSUME NEW n \in Nodes, n # Suite => Parent[n] \in S PROVE n \in S
        BY <2>1, <1>8
    <2> HIDE DEF S
    <2> QED BY <2>1, TreeInduction
<1> QED BY <1>7, <1>8, <1>9

LEMMA AboveFacts ==
    ASSUME NEW n \in Nodes
    PROVE  /\ Above[n] \subseteq Nodes /\ n \in Above[n] /\ Suite \in Above[n]
           /\ \A a \in Above[n] : a <= n
           /\ \A a \in Above[n] \ {Suite} : Parent[a] \in Above[n]
           /\ \A a \in Above[n] : Above[a] = {b \in Above[n] : b <= a}
<1> DEFINE P(m) == /\ \A a \in Above[m] : a <= m
                   /\ Suite \in Above[m]
                   /\ \A a \in Above[m] \ {Suite} : Parent[a] \in Above[m]
                   /\ \A a \in Above[m] : Above[a] = {b \in Above[m] : b <= a}
           S == {m \in Nodes : P(m)}
<1>1. ASSUME NEW m \in Nodes, m # Suite => Parent[m] \in S PROVE P(m)
    <2>1. CASE m = Suite
        <3>1. Above[m] = {Suite}
            BY <2>1, AboveIs
        <3>2. Suite <= Suite
            BY DEF Suite
        <3> QED BY <2>1, <3>1, <3>2
    <2>2. CASE m # Suite
        <3> DEFINE p == Parent[m]
        <3>1. p \in Nodes /\ p < m /\ P(p)
            BY <1>1, <2>2, TreeType
        <3>2. Above[m] = {m} \cup Above[p] /\ Above[p] \subseteq Nodes
            BY <2>2, <3>1, AboveIs
        <3>3. p \in Above[p]
            BY <3>1, AboveIs
        <3> HIDE DEF p
        <3>5. ASSUME NEW a \in Above[p] PROVE a < m
            <4>1. a \in Nat /\ p \in Nat /\ m \in Nat /\ a <= p
                BY <3>1, <3>2, TreeType
            <4> QED BY <3>1, <4>1
        <3>4. ASSUME NEW a \in Above[m] PROVE a <= m
            <4>1. a \in Nat /\ m \in Nat /\ (a = m \/ a < m)
                BY <3>2, <3>5, TreeType
            <4> QED BY <4>1
        <3>6. \A a \in Above[m] \ {Suite} : Parent[a] \in Above[m]
            BY <3>1, <3>2, <3>3 DEF p
        <3>7. ASSUME NEW a \in Above[m] PROVE Above[a] = {b \in Above[m] : b <= a}
            <4>1. CASE a = m
                BY <4>1, <3>4
            <4>2. CASE a \in Above[p]
                <5>1. Above[a] = {b \in Above[p] : b <= a}
                    BY <3>1, <4>2
                <5>2. ~(m <= a)
                    <6>1. a < m /\ a \in Nat /\ m \in Nat
                        BY <3>5, <4>2, <3>2, TreeType
                    <6> QED BY <6>1
                <5> QED BY <5>1, <5>2, <3>2
            <4> QED BY <4>1, <4>2, <3>2
        <3> QED BY <3>1, <3>2, <3>4, <3>6, <3>7
    <2> QED BY <2>1, <2>2
<1>2. \A m \in Nodes : m \in S
    <2>1. \A m \in Nodes : (m # Suite => Parent[m] \in S) => m \in S
        BY <1>1
    <2> HIDE DEF S
    <2> QED BY <2>1, TreeInduction
<1> QED BY <1>2, AboveIs

LEMMA BelowFacts ==
    ASSUME NEW n \in Nodes
    PROVE  /\ Below[n] \subseteq Nodes /\ n \in Below[n] /\ Below[Suite] = Nodes
           /\ \A m \in Nodes : m \in Below[n] <=> n \in Above[m]
           /\ \A m \in Below[n] : n <= m
           /\ \A m \in Below[n] \ {n} : m # Suite /\ m \notin Above[n] /\ Parent[m] \in Below[n]
           /\ \A m \in Nodes \ {Suite} : Parent[m] \in Below[n] => m \in Below[n]
<1>1. \A m \in Nodes : m \in Below[n] <=> n \in Above[m]
    BY DEF Below
<1>2. n \in Below[n] /\ Below[Suite] = Nodes /\ Below[n] \subseteq Nodes
    BY AboveFacts, TreeType DEF Below
<1>3. \A m \in Below[n] : n <= m
    BY <1>1, <1>2, AboveFacts
<1>4. ASSUME NEW m \in Below[n] \ {n} PROVE m # Suite /\ m \notin Above[n] /\ Parent[m] \in Below[n]
    <2>1. m \in Nodes /\ n \in Above[m] /\ n < m
        <3>1. m \in Nat /\ n \in Nat /\ n <= m /\ n # m
            BY <1>2, <1>3, TreeType
        <3> QED BY <1>1, <1>2, <3>1
    <2>2. m # Suite
        BY <2>1, AboveIs
    <2>3. Above[m] = {m} \cup Above[Parent[m]] /\ Parent[m] \in Nodes
        BY <2>1, <2>2, AboveIs, TreeType
    <2>4. m \notin Above[n]
        BY <2>1, AboveFacts, TreeType
    <2> QED BY <1>1, <2>1, <2>2, <2>3, <2>4
<1>5. ASSUME NEW m \in Nodes \ {Suite}, Parent[m] \in Below[n] PROVE m \in Below[n]
    <2>1. Above[m] = {m} \cup Above[Parent[m]] /\ Parent[m] \in Nodes
        BY AboveIs, TreeType
    <2> QED BY <1>1, <1>5, <2>1
<1> QED BY <1>1, <1>2, <1>3, <1>4, <1>5

LEMMA KidsFacts ==
    /\ \A n \in Nodes : Kids[n] \subseteq Nodes \ {Suite}
    /\ \A n \in Nodes, k \in Nodes \ {Suite} : k \in Kids[n] <=> Parent[k] = n
    /\ Tasks \subseteq Nodes /\ \A n \in Nodes : n \in Tasks <=> Kids[n] = {}
BY DEF Kids, Tasks

-----------------------------------------------------------------------------
(* States of nodes *)

\* All but the states and the flags of the nodes.
SameRest(r, s) ==
    r.susp = s.susp /\ r.rep = s.rep /\ r.free = s.free /\ r.try = s.try /\ r.job = s.job

\* r is s with the state v for the nodes N.
StatesSet(r, s, N, v) ==
    /\ r \in Trees /\ SameRest(r, s)
    /\ \A n \in Nodes : r.st[n] = IF n \in N THEN v ELSE s.st[n]

LEMMA SetStatesOnlyIs ==
    ASSUME NEW s \in Trees, NEW N \in SUBSET Nodes, NEW v \in States,
           NEW r, r \in {SetStatesOnly(s, N, v, TRUE), SetStatesOnly(s, N, v, FALSE)}
    PROVE  StatesSet(r, s, N, v)
<1> DEFINE Flags == SUBSET {"FORCE_ABORT", "SUBMIT_FAILED"}
           st == [n \in Nodes |-> IF n \in N THEN v ELSE s.st[n]]
<1>1. st \in [Nodes -> States] /\ \A n \in Nodes : st[n] = IF n \in N THEN v ELSE s.st[n]
    BY DEF Trees
<1>2. \E flag \in [Nodes -> Flags] : r = [s EXCEPT !.st = st, !.flag = flag]
    <2> DEFINE Cleared == [n \in Nodes |-> IF n \in N /\ s.st[n] # v
                              THEN IF v # "ABORTED" THEN s.flag[n] \ {"FORCE_ABORT"} ELSE s.flag[n] ELSE s.flag[n]]
               Forced == [n \in Nodes |-> IF n \in N /\ s.st[n] # v
                              THEN IF v # "ABORTED" THEN s.flag[n] \ {"FORCE_ABORT"}
                                   ELSE s.flag[n] \cup {"FORCE_ABORT"} ELSE s.flag[n]]
    <2>1. Cleared \in [Nodes -> Flags] /\ Forced \in [Nodes -> Flags]
        BY DEF Trees
    <2>2. CASE r = SetStatesOnly(s, N, v, FALSE)
        <3>1. r = [s EXCEPT !.st = st, !.flag = Cleared]
            BY <2>2 DEF SetStatesOnly
        <3> QED BY <2>1, <3>1
    <2>3. CASE r = SetStatesOnly(s, N, v, TRUE)
        <3>1. r = [s EXCEPT !.st = st, !.flag = Forced]
            BY <2>3 DEF SetStatesOnly
        <3> QED BY <2>1, <3>1
    <2> QED BY <2>2, <2>3
<1>3. PICK flag \in [Nodes -> Flags] : r = [s EXCEPT !.st = st, !.flag = flag]
    BY <1>2
<1> HIDE DEF st
<1> QED BY <1>1, <1>3 DEF Trees, SameRest, StatesSet

LEMMA MostSignificantIs ==
    ASSUME NEW S
    PROVE  /\ MostSignificant(S) \in States
           /\ MostSignificant(S) = "COMPLETE" <=> /\ "COMPLETE" \in S
                                                 /\ S \cap {"ABORTED", "ACTIVE", "SUBMITTED", "QUEUED"} = {}
           /\ MostSignificant(S) = "QUEUED" => S \cap {"ABORTED", "ACTIVE", "SUBMITTED"} = {}
           /\ S \subseteq States \ {"UNKNOWN"} /\ S # {} => MostSignificant(S) # "UNKNOWN"
BY DEF MostSignificant, States

LEMMA ComputedStateIs ==
    ASSUME NEW s \in Trees, NEW n \in Nodes
    PROVE  ComputedState(s, n) \in States
<1>1. s.st[n] \in States
    BY DEF Trees
<1> QED BY <1>1, MostSignificantIs DEF ComputedState

\* It depends on the children only, or on the task itself.
LEMMA ComputedStateSame ==
    ASSUME NEW s, NEW r, NEW n \in Nodes, n \in Tasks => r.st[n] = s.st[n],
           \A k \in Kids[n] : r.st[k] = s.st[k]
    PROVE  ComputedState(r, n) = ComputedState(s, n)
<1>1. {r.st[k] : k \in Kids[n]} = {s.st[k] : k \in Kids[n]}
    OBVIOUS
<1> QED BY <1>1 DEF ComputedState

LEMMA NotOwnKid == \A n \in Nodes : n \notin Kids[n]
<1>1. \A n \in Nodes \ {Suite} : Parent[n] # n
    BY TreeType
<1> QED BY <1>1, KidsFacts

LEMMA ShowIs ==
    ASSUME NEW s \in Trees, NEW n \in Nodes, NEW r, r = Show(s, n)
    PROVE  /\ r \in Trees /\ SameRest(r, s)
           /\ \A m \in Nodes \ {n} : r.st[m] = s.st[m]
           /\ r.st[n] = ComputedState(s, n) /\ ComputedState(r, n) = ComputedState(s, n)
           /\ n \in Tasks => r.st[n] = s.st[n]
<1>1. CASE n \in Tasks
    BY <1>1 DEF Show, SameRest, ComputedState
<1>2. CASE n \notin Tasks
    <2>1. r = SetStatesOnly(s, {n}, ComputedState(s, n), FALSE)
        BY <1>2 DEF Show, SetStateOnly
    <2>2. ComputedState(s, n) \in States
        BY ComputedStateIs
    <2>3. StatesSet(r, s, {n}, ComputedState(s, n))
        <3>1. {n} \in SUBSET Nodes
            OBVIOUS
        <3>2. r \in {SetStatesOnly(s, {n}, ComputedState(s, n), TRUE), SetStatesOnly(s, {n}, ComputedState(s, n), FALSE)}
            BY <2>1, Zenon
        <3> QED BY <2>2, <3>1, <3>2, SetStatesOnlyIs, Zenon
    <2>4. \A k \in Kids[n] : r.st[k] = s.st[k]
        BY <2>3, NotOwnKid, KidsFacts DEF StatesSet
    <2>5. ComputedState(r, n) = ComputedState(s, n)
        BY <1>2, <2>4, ComputedStateSame
    <2> QED BY <1>2, <2>3, <2>5 DEF StatesSet
<1> QED BY <1>1, <1>2

\* The steps of SetUp, the last node first.
LEMMA SetUpSteps ==
    ASSUME NEW s \in Trees, NEW n \in Nodes
    PROVE  \E f \in [0 .. Size -> Trees] :
              /\ f[0] = s /\ f[Size] = SetUp(s, n)
              /\ \A i \in 1 .. Size : f[i] = IF Size + 1 - i \in Above[n] THEN Show(f[i - 1], Size + 1 - i) ELSE f[i - 1]
<1> DEFINE V == Trees
           s0 == s
           Op(x, i) == IF Size + 1 - i \in Above[n] THEN Show(x, Size + 1 - i) ELSE x
           F == [p \in V \X (1 .. Size) |-> Op(p[1], p[2])]
           z == CHOOSE f : f = [i \in 0 .. Size |-> IF i = 0 THEN s0
                                   ELSE CHOOSE y \in {Op(x, i) : x \in {f[i - 1]}} : TRUE]
<1>0. Size \in Nat
    BY TreeType
<1>1. z[Size] = SetUp(s, n)
    BY DEF SetUp, Up, Fold
<1>2. s0 \in V
    OBVIOUS
<1>3. ASSUME NEW x \in V, NEW i \in 1 .. Size PROVE Op(x, i) \in V
    <2>1. Size + 1 - i \in Nodes
        BY TreeType DEF Nodes
    <2>2. Show(x, Size + 1 - i) \in Trees
        BY <2>1, ShowIs
    <2> QED BY <2>2
<1> HIDE DEF Op, V, s0
<1>4. F \in [V \X (1 .. Size) -> V]
    BY <1>3
<1>5. \A x \in V, i \in 1 .. Size : F[<<x, i>>] = Op(x, i)
    OBVIOUS
<1> HIDE DEF F
<1>6. PICK h : Steps(F, V, Size, s0, h)
    BY <1>0, <1>2, <1>4, Recursion
<1> DEFINE Body(f, i) == CHOOSE y \in {Op(x, i) : x \in {f[i - 1]}} : TRUE
<1>7. \A f, i : Body(f, i) = Op(f[i - 1], i)
    <2> SUFFICES ASSUME NEW f, NEW i PROVE Body(f, i) = Op(f[i - 1], i)
        OBVIOUS
    <2>1. {Op(x, i) : x \in {f[i - 1]}} = {Op(f[i - 1], i)}
        OBVIOUS
    <2> QED BY <2>1, Only, Zenon
<1> HIDE DEF Body
<1>8. h = [i \in 0 .. Size |-> IF i = 0 THEN s0 ELSE Body(h, i)]
    <2>1. h \in [0 .. Size -> V] /\ h[0] = s0
        BY <1>6 DEF Steps
    <2>2. ASSUME NEW i \in 1 .. Size PROVE h[i] = Body(h, i)
        <3>1. i - 1 \in 0 .. Size
            BY <1>0
        <3>2. h[i - 1] \in V /\ h[i] = F[<<h[i - 1], i>>]
            BY <1>6, <3>1 DEF Steps
        <3> QED BY <1>5, <1>7, <3>2
    <2>3. \A i \in 0 .. Size : h[i] = IF i = 0 THEN s0 ELSE Body(h, i)
        BY <1>0, <2>1, <2>2
    <2> QED BY <2>1, <2>3
<1>9. z = [i \in 0 .. Size |-> IF i = 0 THEN s0 ELSE Body(z, i)]
    BY <1>8, Zenon DEF Body
<1> HIDE DEF z
<1>10. z[0] = s0 /\ \A i \in 1 .. Size : z[i] = Op(z[i - 1], i)
    BY <1>0, <1>7, <1>9
<1> DEFINE S == {i \in 0 .. Size : z[i] \in V}
<1>11. \A i \in 0 .. Size : i \in S
    <2>1. 0 \in S
        BY <1>0, <1>2, <1>10
    <2>2. ASSUME NEW i \in 1 .. Size, i - 1 \in S PROVE i \in S
        BY <1>3, <1>10, <2>2
    <2> HIDE DEF S
    <2> QED BY <1>0, <2>1, <2>2, Induction
<1>12. z \in [0 .. Size -> V]
    BY <1>9, <1>11
<1> QED BY <1>1, <1>10, <1>12 DEF Op, V, s0

\* r is s with the states of n and the nodes above it computed anew.
ShownUp(r, s, n) ==
    /\ r \in Trees /\ SameRest(r, s)
    /\ \A m \in Nodes : m \in Tasks \/ m \notin Above[n] => r.st[m] = s.st[m]
    /\ \A m \in Above[n] : r.st[m] = ComputedState(r, m)

\* A node comes before its children.
LEMMA KidsLater ==
    ASSUME NEW n \in Nodes, NEW k \in Kids[n]
    PROVE  k \in Nodes /\ n < k /\ k # Suite /\ Parent[k] = n
<1>1. k \in Nodes \ {Suite}
    BY KidsFacts
<1>2. Parent[k] = n
    BY <1>1, KidsFacts
<1>3. Parent[k] < k
    BY <1>1, TreeType
<1> QED BY <1>1, <1>2, <1>3

\* The number of the step at which a way up the tree comes to a node.
LEMMA UpIndex ==
    ASSUME NEW i \in 1 .. Size
    PROVE  /\ i \in Nat /\ Size + 1 - i \in Nodes /\ Size + 1 - (i - 1) = (Size + 1 - i) + 1
           /\ i - 1 \in 0 .. Size /\ i \in 0 .. Size
BY TreeType DEF Nodes

LEMMA SetUpIs ==
    ASSUME NEW s \in Trees, NEW n \in Nodes
    PROVE  ShownUp(SetUp(s, n), s, n)
<1>1. PICK f \in [0 .. Size -> Trees] :
              /\ f[0] = s /\ f[Size] = SetUp(s, n)
              /\ \A i \in 1 .. Size : f[i] = IF Size + 1 - i \in Above[n] THEN Show(f[i - 1], Size + 1 - i) ELSE f[i - 1]
    BY SetUpSteps
<1>2. Above[n] \subseteq Nodes
    BY AboveFacts
<1> DEFINE Inv(x, c) ==
        /\ x \in Trees /\ SameRest(x, s)
        /\ \A m \in Nodes : m \in Tasks \/ m \notin Above[n] => x.st[m] = s.st[m]
        /\ \A m \in Above[n] : m >= c => x.st[m] = ComputedState(x, m)
    S == {i \in 0 .. Size : Inv(f[i], Size + 1 - i)}
<1>3. ASSUME NEW x, NEW c \in Nodes, Inv(x, c + 1), c \in Above[n]
      PROVE  Inv(Show(x, c), c)
    <2> DEFINE r == Show(x, c)
    <2>1. /\ r \in Trees /\ SameRest(r, x)
          /\ \A m \in Nodes \ {c} : r.st[m] = x.st[m]
          /\ r.st[c] = ComputedState(x, c) /\ ComputedState(r, c) = ComputedState(x, c)
          /\ c \in Tasks => r.st[c] = x.st[c]
        BY <1>3, ShowIs
    <2> HIDE DEF r
    <2>2. SameRest(r, s)
        BY <1>3, <2>1 DEF SameRest
    <2>3. ASSUME NEW m \in Nodes, m \in Tasks \/ m \notin Above[n] PROVE r.st[m] = s.st[m]
        BY <1>3, <2>1, <2>3
    <2>4. ASSUME NEW m \in Above[n], m >= c PROVE r.st[m] = ComputedState(r, m)
        <3>1. CASE m = c
            BY <3>1, <2>1
        <3>2. CASE m # c
            <4>0. m \in Nodes /\ m \in Nat /\ c \in Nat
                BY <1>2, TreeType
            <4>1. m \in Nodes /\ m >= c + 1
                BY <4>0, <2>4, <3>2
            <4>2. ASSUME NEW k \in Kids[m] PROVE r.st[k] = x.st[k]
                <5>1. k \in Nodes /\ m < k
                    BY <4>1, KidsLater
                <5>2. k \in Nat
                    BY <5>1, TreeType
                <5>3. k # c
                    BY <4>0, <4>1, <5>1, <5>2
                <5> QED BY <5>1, <5>3, <2>1
            <4>3. r.st[m] = x.st[m]
                BY <4>1, <3>2, <2>1
            <4>4. ComputedState(r, m) = ComputedState(x, m)
                BY <4>1, <4>2, <4>3, ComputedStateSame
            <4> QED BY <4>1, <4>3, <4>4, <1>3
        <3> QED BY <3>1, <3>2
    <2> QED BY <2>1, <2>2, <2>3, <2>4 DEF r
<1>4. 0 \in S
    <2>1. SameRest(s, s)
        BY DEF SameRest
    <2>2. ASSUME NEW m \in Nodes PROVE ~(m >= Size + 1 - 0)
        <3>1. m \in Nat /\ m <= Size /\ Size \in Nat
            BY TreeType
        <3> QED BY <3>1
    <2>3. Inv(s, Size + 1 - 0)
        BY <1>2, <2>1, <2>2
    <2>4. 0 \in 0 .. Size
        BY TreeType
    <2> HIDE DEF Inv
    <2> QED BY <1>1, <2>3, <2>4
<1>5. ASSUME NEW i \in 1 .. Size, i - 1 \in S PROVE i \in S
    <2> DEFINE c == Size + 1 - i
    <2>1. c \in Nodes /\ Inv(f[i - 1], c + 1) /\ i \in 0 .. Size
        BY <1>5, UpIndex
    <2>2. f[i] = IF c \in Above[n] THEN Show(f[i - 1], c) ELSE f[i - 1]
        BY <1>1
    <2>3. CASE c \in Above[n]
        <3> HIDE DEF Inv, c
        <3>1. Inv(f[i], c)
            BY <1>3, <2>1, <2>2, <2>3
        <3> QED BY <3>1, <2>1 DEF c
    <2>4. CASE c \notin Above[n]
        <3>1. \A m \in Above[n] : m >= c => m >= c + 1
            <4> SUFFICES ASSUME NEW m \in Above[n], m >= c PROVE m >= c + 1
                OBVIOUS
            <4>1. m \in Nat /\ c \in Nat /\ m # c
                BY <1>2, <2>1, <2>4, TreeType
            <4> HIDE DEF c
            <4> QED BY <4>1
        <3> HIDE DEF c
        <3>2. Inv(f[i], c)
            BY <2>1, <2>2, <2>4, <3>1
        <3> QED BY <3>2, <2>1 DEF c
    <2> QED BY <2>3, <2>4
<1>6. Size \in S
    <2> HIDE DEF S
    <2>1. \A i \in 0 .. Size : i \in S
        BY <1>4, <1>5, Induction, TreeType
    <2> QED BY <2>1, TreeType
<1>7. ASSUME NEW m \in Above[n] PROVE m >= Size + 1 - Size
    <2>1. m \in Nat /\ 1 <= m /\ Size \in Nat
        BY <1>2, TreeType
    <2> QED BY <2>1
<1> QED BY <1>1, <1>6, <1>7 DEF ShownUp

-----------------------------------------------------------------------------
(* Re-queue *)

\* What ContainersAgree says of one node.
Agree(s, n) == Default[n] \in {"QUEUED", "COMPLETE"} => s.st[n] = ComputedState(s, n)

LEMMA AgreeSame ==
    ASSUME NEW s, NEW r, NEW n \in Nodes, Agree(s, n), r.st[n] = s.st[n],
           \A k \in Kids[n] : r.st[k] = s.st[k]
    PROVE  Agree(r, n)
<1>1. ComputedState(r, n) = ComputedState(s, n)
    BY ComputedStateSame
<1> QED BY <1>1 DEF Agree

\* r is s with the nodes below c as their defstatus wants them, if the
\* children of c are so already.
Propagated(r, s, c) ==
    /\ r \in Trees /\ SameRest(r, s) /\ Agree(r, c)
    /\ \A m \in Nodes \ Below[c] : r.st[m] = s.st[m]
    /\ \/ Default[c] = "COMPLETE" /\ \A m \in Below[c] : r.st[m] = "COMPLETE" /\ Agree(r, m)
       \/ \A m \in Nodes \ {c} : r.st[m] = s.st[m]
    /\ Default[c] # "COMPLETE" => r.st[c] \in {s.st[c], ComputedState(s, c)}
    /\ c \in Tasks => r.st[c] = s.st[c]

LEMMA KidsBelow ==
    ASSUME NEW c \in Nodes, NEW m \in Below[c], NEW k \in Kids[m]
    PROVE  k \in Below[c] /\ k \in Nodes /\ k # c
<1>1. m \in Nodes /\ c <= m
    BY BelowFacts
<1>2. k \in Nodes \ {Suite} /\ Parent[k] = m /\ m < k
    BY <1>1, KidsLater
<1>3. k \in Below[c]
    BY <1>2, BelowFacts
<1>4. c \in Nat /\ m \in Nat /\ k \in Nat
    BY <1>1, <1>2, TreeType
<1> QED BY <1>1, <1>2, <1>3, <1>4

LEMMA AllComplete ==
    ASSUME NEW r, NEW c \in Nodes, \A m \in Below[c] : r.st[m] = "COMPLETE"
    PROVE  \A m \in Below[c] : Agree(r, m)
<1> SUFFICES ASSUME NEW m \in Below[c] PROVE r.st[m] = ComputedState(r, m)
    BY DEF Agree
<1>1. m \in Nodes
    BY BelowFacts
<1>2. CASE m \in Tasks
    BY <1>2 DEF ComputedState
<1>3. CASE m \notin Tasks
    <2>1. Kids[m] # {}
        BY <1>1, <1>3, KidsFacts
    <2>2. \A k \in Kids[m] : r.st[k] = "COMPLETE"
        BY KidsBelow
    <2>3. {r.st[k] : k \in Kids[m]} = {"COMPLETE"}
        BY <2>1, <2>2
    <2>4. MostSignificant({"COMPLETE"}) = "COMPLETE"
        BY DEF MostSignificant
    <2> QED BY <1>3, <2>3, <2>4 DEF ComputedState
<1> QED BY <1>2, <1>3

LEMMA DefstatusPropagationIs ==
    ASSUME NEW s \in Trees, NEW c \in Nodes
    PROVE  Propagated(DefstatusPropagation(s, c), s, c)
<1> DEFINE r == DefstatusPropagation(s, c)
<1>1. c \in Below[c] /\ Below[c] \in SUBSET Nodes /\ {c} \in SUBSET Nodes
    BY BelowFacts
<1>2. SameRest(s, s)
    BY DEF SameRest
<1>3. CASE c \in Tasks
    <2>1. r = s
        BY <1>3 DEF DefstatusPropagation
    <2>2. s.st[c] = ComputedState(s, c)
        BY <1>3 DEF ComputedState
    <2> HIDE DEF r
    <2> QED BY <1>2, <2>1, <2>2 DEF Propagated, Agree, r
<1>4. CASE c \notin Tasks /\ Default[c] = "COMPLETE"
    <2>1. r = SetStatesOnly(s, Below[c], "COMPLETE", FALSE)
        BY <1>4 DEF DefstatusPropagation, SetStateOnlyHierarchically
    <2>2. StatesSet(r, s, Below[c], "COMPLETE")
        <3>1. "COMPLETE" \in States
            BY DEF States
        <3>2. r \in {SetStatesOnly(s, Below[c], "COMPLETE", TRUE), SetStatesOnly(s, Below[c], "COMPLETE", FALSE)}
            BY <2>1, Zenon
        <3> QED BY <1>1, <3>1, <3>2, SetStatesOnlyIs, Zenon
    <2> HIDE DEF r
    <2>3. \A m \in Below[c] : r.st[m] = "COMPLETE"
        BY <1>1, <2>2 DEF StatesSet
    <2>4. \A m \in Below[c] : Agree(r, m)
        BY <2>3, AllComplete
    <2> QED BY <1>1, <1>4, <2>2, <2>3, <2>4 DEF StatesSet, Propagated, r
<1>5. CASE c \notin Tasks /\ Default[c] = "QUEUED"
    <2>1. r = Show(s, c)
        BY <1>5 DEF DefstatusPropagation, Show
    <2>2. /\ r \in Trees /\ SameRest(r, s)
          /\ \A m \in Nodes \ {c} : r.st[m] = s.st[m]
          /\ r.st[c] = ComputedState(s, c) /\ ComputedState(r, c) = ComputedState(s, c)
        BY <2>1, ShowIs
    <2> HIDE DEF r
    <2> QED BY <1>1, <1>5, <2>2 DEF Propagated, Agree, r
<1>6. CASE c \notin Tasks /\ Default[c] \notin {"COMPLETE", "QUEUED"}
    <2>1. r = s
        BY <1>6 DEF DefstatusPropagation
    <2> HIDE DEF r
    <2> QED BY <1>2, <1>6, <2>1 DEF Propagated, Agree, r
<1> QED BY <1>3, <1>4, <1>5, <1>6

PropagateUp(s, n) == Up(DefstatusPropagation, s, Below[n])

LEMMA PropagateSteps ==
    ASSUME NEW s \in Trees, NEW n \in Nodes
    PROVE  \E f \in [0 .. Size -> Trees] :
              /\ f[0] = s /\ f[Size] = PropagateUp(s, n)
              /\ \A i \in 1 .. Size : f[i] = IF Size + 1 - i \in Below[n]
                                            THEN DefstatusPropagation(f[i - 1], Size + 1 - i) ELSE f[i - 1]
<1> DEFINE V == Trees
           s0 == s
           Op(x, i) == IF Size + 1 - i \in Below[n] THEN DefstatusPropagation(x, Size + 1 - i) ELSE x
           F == [p \in V \X (1 .. Size) |-> Op(p[1], p[2])]
           z == CHOOSE f : f = [i \in 0 .. Size |-> IF i = 0 THEN s0
                                   ELSE CHOOSE y \in {Op(x, i) : x \in {f[i - 1]}} : TRUE]
<1>0. Size \in Nat
    BY TreeType
<1>1. z[Size] = PropagateUp(s, n)
    BY DEF PropagateUp, Up, Fold
<1>2. s0 \in V
    OBVIOUS
<1>3. ASSUME NEW x \in V, NEW i \in 1 .. Size PROVE Op(x, i) \in V
    <2>1. Size + 1 - i \in Nodes
        BY UpIndex
    <2>2. DefstatusPropagation(x, Size + 1 - i) \in Trees
        BY <2>1, DefstatusPropagationIs DEF Propagated
    <2> QED BY <2>2
<1> HIDE DEF Op, V, s0
<1>4. F \in [V \X (1 .. Size) -> V]
    BY <1>3
<1>5. \A x \in V, i \in 1 .. Size : F[<<x, i>>] = Op(x, i)
    OBVIOUS
<1> HIDE DEF F
<1>6. PICK h : Steps(F, V, Size, s0, h)
    BY <1>0, <1>2, <1>4, Recursion
<1> DEFINE Body(f, i) == CHOOSE y \in {Op(x, i) : x \in {f[i - 1]}} : TRUE
<1>7. \A f, i : Body(f, i) = Op(f[i - 1], i)
    <2> SUFFICES ASSUME NEW f, NEW i PROVE Body(f, i) = Op(f[i - 1], i)
        OBVIOUS
    <2>1. {Op(x, i) : x \in {f[i - 1]}} = {Op(f[i - 1], i)}
        OBVIOUS
    <2> QED BY <2>1, Only, Zenon
<1> HIDE DEF Body
<1>8. h = [i \in 0 .. Size |-> IF i = 0 THEN s0 ELSE Body(h, i)]
    <2>1. h \in [0 .. Size -> V] /\ h[0] = s0
        BY <1>6 DEF Steps
    <2>2. ASSUME NEW i \in 1 .. Size PROVE h[i] = Body(h, i)
        <3>1. i - 1 \in 0 .. Size
            BY <1>0
        <3>2. h[i - 1] \in V /\ h[i] = F[<<h[i - 1], i>>]
            BY <1>6, <3>1 DEF Steps
        <3> QED BY <1>5, <1>7, <3>2
    <2>3. \A i \in 0 .. Size : h[i] = IF i = 0 THEN s0 ELSE Body(h, i)
        BY <1>0, <2>1, <2>2
    <2> QED BY <2>1, <2>3
<1>9. z = [i \in 0 .. Size |-> IF i = 0 THEN s0 ELSE Body(z, i)]
    BY <1>8, Zenon DEF Body
<1> HIDE DEF z
<1>10. z[0] = s0 /\ \A i \in 1 .. Size : z[i] = Op(z[i - 1], i)
    BY <1>0, <1>7, <1>9
<1> DEFINE S == {i \in 0 .. Size : z[i] \in V}
<1>11. \A i \in 0 .. Size : i \in S
    <2>1. 0 \in S
        BY <1>0, <1>2, <1>10
    <2>2. ASSUME NEW i \in 1 .. Size, i - 1 \in S PROVE i \in S
        BY <1>3, <1>10, <2>2
    <2> HIDE DEF S
    <2> QED BY <1>0, <2>1, <2>2, Induction
<1>12. z \in [0 .. Size -> V]
    BY <1>9, <1>11
<1> QED BY <1>1, <1>10, <1>12 DEF Op, V, s0

LEMMA BelowBelow ==
    ASSUME NEW n \in Nodes, NEW c \in Below[n]
    PROVE  Below[c] \subseteq Below[n] /\ c \in Nodes
<1>1. c \in Nodes /\ n \in Above[c]
    BY BelowFacts
<1>2. ASSUME NEW m \in Below[c] PROVE m \in Below[n]
    <2>1. m \in Nodes /\ c \in Above[m]
        BY <1>1, BelowFacts
    <2>2. n \in Above[m]
        BY <1>1, <2>1, AboveFacts
    <2> QED BY <2>1, <2>2, BelowFacts
<1> QED BY <1>1, <1>2

\* No node has the defstatus complete, and the nodes below n wait.
Wait(s, n) ==
    (\A m \in Nodes : Default[m] # "COMPLETE") => \A m \in Below[n] : s.st[m] \in {"QUEUED", "ABORTED"}

LEMMA WaitComputed ==
    ASSUME NEW s, NEW n \in Nodes, NEW c \in Below[n],
           \A m \in Below[n] : s.st[m] \in {"QUEUED", "ABORTED"}
    PROVE  ComputedState(s, c) \in {"QUEUED", "ABORTED"}
<1>1. c \in Nodes
    BY BelowFacts
<1>2. CASE c \in Tasks
    BY <1>2 DEF ComputedState
<1>3. CASE c \notin Tasks
    <2> DEFINE T == {s.st[k] : k \in Kids[c]}
    <2>1. \A k \in Kids[c] : s.st[k] \in {"QUEUED", "ABORTED"}
        BY KidsBelow
    <2>2. Kids[c] # {}
        BY <1>1, <1>3, KidsFacts
    <2>3. T # {} /\ T \subseteq {"QUEUED", "ABORTED"}
        BY <2>1, <2>2
    <2>4. ComputedState(s, c) = MostSignificant(T)
        BY <1>3 DEF ComputedState
    <2> HIDE DEF T
    <2> QED BY <2>3, <2>4 DEF MostSignificant
<1> QED BY <1>2, <1>3

\* r is s with every node below n as its defstatus and its children want it.
PropagatedUp(r, s, n) ==
    /\ r \in Trees /\ SameRest(r, s)
    /\ \A m \in Nodes \ Below[n] : r.st[m] = s.st[m]
    /\ \A m \in Below[n] : Agree(r, m)
    /\ Wait(s, n) => Wait(r, n)

LEMMA PropagateUpIs ==
    ASSUME NEW s \in Trees, NEW n \in Nodes
    PROVE  PropagatedUp(PropagateUp(s, n), s, n)
<1>1. PICK f \in [0 .. Size -> Trees] :
              /\ f[0] = s /\ f[Size] = PropagateUp(s, n)
              /\ \A i \in 1 .. Size : f[i] = IF Size + 1 - i \in Below[n]
                                            THEN DefstatusPropagation(f[i - 1], Size + 1 - i) ELSE f[i - 1]
    BY PropagateSteps
<1>2. Below[n] \subseteq Nodes
    BY BelowFacts
<1> DEFINE Inv(x, c) ==
        /\ x \in Trees /\ SameRest(x, s)
        /\ \A m \in Nodes \ Below[n] : x.st[m] = s.st[m]
        /\ \A m \in Below[n] : m >= c => Agree(x, m)
        /\ Wait(s, n) => Wait(x, n)
    S == {i \in 0 .. Size : Inv(f[i], Size + 1 - i)}
<1>3. ASSUME NEW x, NEW c \in Nodes, Inv(x, c + 1), c \in Below[n]
      PROVE  Inv(DefstatusPropagation(x, c), c)
    <2> DEFINE r == DefstatusPropagation(x, c)
    <2>1. Propagated(r, x, c)
        BY <1>3, DefstatusPropagationIs
    <2>2. Below[c] \subseteq Below[n] /\ c \in Below[c]
        BY <1>3, BelowBelow, BelowFacts
    <2> HIDE DEF r
    <2>3. r \in Trees /\ SameRest(r, s)
        BY <1>3, <2>1 DEF SameRest, Propagated
    <2>4. ASSUME NEW m \in Nodes \ Below[n] PROVE r.st[m] = s.st[m]
        BY <1>3, <2>1, <2>2 DEF Propagated
    <2>5. ASSUME NEW m \in Below[n], m >= c PROVE Agree(r, m)
        <3>1. CASE m = c
            BY <3>1, <2>1 DEF Propagated
        <3>2. CASE m # c
            <4>0. m \in Nodes /\ m \in Nat /\ c \in Nat
                BY <1>2, TreeType
            <4>1. m >= c + 1 /\ Agree(x, m)
                BY <4>0, <2>5, <3>2, <1>3
            <4>2. ASSUME NEW k \in Kids[m] PROVE k \in Nodes \ {c} /\ (k \in Below[c] => m \in Below[c])
                <5>1. k \in Nodes /\ m < k /\ Parent[k] = m
                    BY <4>0, KidsLater
                <5>2. k \in Nat
                    BY <5>1, TreeType
                <5>3. k # c
                    BY <4>0, <4>1, <5>1, <5>2
                <5>4. k \in Below[c] => m \in Below[c]
                    BY <5>1, <5>3, BelowFacts
                <5> QED BY <5>1, <5>3, <5>4
            <4>3. CASE m \in Below[c] /\ \A j \in Below[c] : r.st[j] = "COMPLETE" /\ Agree(r, j)
                BY <4>3
            <4>4. CASE m \notin Below[c]
                <5>1. \A k \in Kids[m] : r.st[k] = x.st[k]
                    BY <4>2, <4>4, <2>1 DEF Propagated
                <5>2. r.st[m] = x.st[m]
                    BY <4>0, <4>4, <2>1 DEF Propagated
                <5> QED BY <4>0, <4>1, <5>1, <5>2, AgreeSame
            <4>5. CASE \A j \in Nodes \ {c} : r.st[j] = x.st[j]
                <5>1. \A k \in Kids[m] : r.st[k] = x.st[k]
                    BY <4>2, <4>5
                <5>2. r.st[m] = x.st[m]
                    BY <4>0, <4>5, <3>2
                <5> QED BY <4>0, <4>1, <5>1, <5>2, AgreeSame
            <4> QED BY <4>3, <4>4, <4>5, <2>1 DEF Propagated
        <3> QED BY <3>1, <3>2
    <2>6. ASSUME Wait(s, n) PROVE Wait(r, n)
        <3> SUFFICES ASSUME \A j \in Nodes : Default[j] # "COMPLETE", NEW m \in Below[n]
                     PROVE  r.st[m] \in {"QUEUED", "ABORTED"}
            BY DEF Wait
        <3>1. \A j \in Below[n] : x.st[j] \in {"QUEUED", "ABORTED"}
            BY <1>3, <2>6 DEF Wait
        <3>2. \A j \in Nodes \ {c} : r.st[j] = x.st[j]
            BY <2>1 DEF Propagated
        <3>3. r.st[c] \in {x.st[c], ComputedState(x, c)}
            BY <2>1 DEF Propagated
        <3>4. ComputedState(x, c) \in {"QUEUED", "ABORTED"}
            BY <1>3, <3>1, WaitComputed
        <3> QED BY <1>2, <1>3, <3>1, <3>2, <3>3, <3>4
    <2> QED BY <2>3, <2>4, <2>5, <2>6 DEF r
<1>4. 0 \in S
    <2>1. SameRest(s, s)
        BY DEF SameRest
    <2>2. ASSUME NEW m \in Nodes PROVE ~(m >= Size + 1 - 0)
        <3>1. m \in Nat /\ m <= Size /\ Size \in Nat
            BY TreeType
        <3> QED BY <3>1
    <2>3. Inv(s, Size + 1 - 0)
        BY <1>2, <2>1, <2>2
    <2>4. 0 \in 0 .. Size
        BY TreeType
    <2> HIDE DEF Inv
    <2> QED BY <1>1, <2>3, <2>4
<1>5. ASSUME NEW i \in 1 .. Size, i - 1 \in S PROVE i \in S
    <2> DEFINE c == Size + 1 - i
    <2>1. c \in Nodes /\ Inv(f[i - 1], c + 1) /\ i \in 0 .. Size
        BY <1>5, UpIndex
    <2>2. f[i] = IF c \in Below[n] THEN DefstatusPropagation(f[i - 1], c) ELSE f[i - 1]
        BY <1>1
    <2>3. CASE c \in Below[n]
        <3> HIDE DEF Inv, c
        <3>1. Inv(f[i], c)
            BY <1>3, <2>1, <2>2, <2>3
        <3> QED BY <3>1, <2>1 DEF c
    <2>4. CASE c \notin Below[n]
        <3>1. \A m \in Below[n] : m >= c => m >= c + 1
            <4> SUFFICES ASSUME NEW m \in Below[n], m >= c PROVE m >= c + 1
                OBVIOUS
            <4>1. m \in Nat /\ c \in Nat /\ m # c
                BY <1>2, <2>1, <2>4, TreeType
            <4> HIDE DEF c
            <4> QED BY <4>1
        <3> HIDE DEF c
        <3>2. Inv(f[i], c)
            BY <2>1, <2>2, <2>4, <3>1
        <3> QED BY <3>2, <2>1 DEF c
    <2> QED BY <2>3, <2>4
<1>6. Size \in S
    <2> HIDE DEF S
    <2>1. \A i \in 0 .. Size : i \in S
        BY <1>4, <1>5, Induction, TreeType
    <2> QED BY <2>1, TreeType
<1>7. ASSUME NEW m \in Below[n] PROVE m >= Size + 1 - Size
    <2>1. m \in Nat /\ 1 <= m /\ Size \in Nat
        BY <1>2, TreeType
    <2> QED BY <2>1
<1> QED BY <1>1, <1>6, <1>7 DEF PropagatedUp

\* r is s with n and the nodes below it re-queued; rep: the repeat of n.
QueuedAnew(r, s, n, rep) ==
    /\ r \in Trees
    /\ \A m \in Nodes \ Below[n] : r.st[m] = s.st[m] /\ r.rep[m] = s.rep[m] /\ r.job[m] = s.job[m]
    /\ \A m \in Below[n] : Agree(r, m) /\ r.job[m] = "none" /\ r.rep[m] = IF m = n THEN rep ELSE 0
    /\ Wait(r, n)

\* The two ways to re-queue n: with its repeat reset, and with its repeat kept.
RequeuesNodes(q, s, n, clear, rep) ==
    \/ q = RequeueNodes(s, n, TRUE, clear) /\ rep = 0
    \/ q = RequeueNodes(s, n, FALSE, clear) /\ rep = s.rep[n]

NodesRequeued(q, s, n, rep) ==
    /\ q \in Trees /\ Wait(q, n)
    /\ \A m \in Nodes \ Below[n] : q.st[m] = s.st[m] /\ q.rep[m] = s.rep[m] /\ q.job[m] = s.job[m]
    /\ \A m \in Below[n] : q.job[m] = "none" /\ q.rep[m] = IF m = n THEN rep ELSE 0

LEMMA RequeueNodesIs ==
    ASSUME NEW s \in Trees, NEW n \in Nodes, NEW clear, NEW q, NEW rep, RequeuesNodes(q, s, n, clear, rep)
    PROVE  NodesRequeued(q, s, n, rep)
<1>1. Below[n] \subseteq Nodes /\ n \in Below[n]
    BY BelowFacts
<1>2. \A m \in Nodes : InitState(m) \in States /\ (Default[m] # "COMPLETE" => InitState(m) \in {"QUEUED", "ABORTED"})
    BY NodeAssumption DEF InitState, States
<1> DEFINE st   == [m \in Nodes |-> IF m \in Below[n] THEN InitState(m) ELSE s.st[m]]
           susp == (s.susp \ {m \in Below[n] : clear > 0 \/ (clear = 0 /\ m # n)})
                       \cup {m \in Below[n] : Default[m] = "SUSPENDED"}
           reps == [m \in Nodes |-> IF m \in Below[n] THEN (IF m = n THEN rep ELSE 0) ELSE s.rep[m]]
           free == s.free \ Below[n]
           try  == [m \in Nodes |-> IF m \in Below[n] THEN 0 ELSE s.try[m]]
           flag == [m \in Nodes |-> IF m \in Below[n] THEN {} ELSE s.flag[m]]
           job  == [m \in Nodes |-> IF m \in Below[n] THEN "none" ELSE s.job[m]]
<1>3. q = [st |-> st, susp |-> susp, rep |-> reps, free |-> free, try |-> try, flag |-> flag, job |-> job]
    <2>1. CASE q = RequeueNodes(s, n, TRUE, clear) /\ rep = 0
        <3>1. ResetRepeats(s, n, TRUE) = reps
            BY <1>1, <2>1 DEF ResetRepeats
        <3> HIDE DEF reps
        <3> QED BY <2>1, <3>1, Zenon DEF RequeueNodes
    <2>2. CASE q = RequeueNodes(s, n, FALSE, clear) /\ rep = s.rep[n]
        <3>1. ResetRepeats(s, n, FALSE) = reps
            BY <1>1, <2>2 DEF ResetRepeats
        <3> HIDE DEF reps
        <3> QED BY <2>2, <3>1, Zenon DEF RequeueNodes
    <2> QED BY <2>1, <2>2 DEF RequeuesNodes
<1>8. /\ s.st \in [Nodes -> States] /\ s.rep \in [Nodes -> Nat] /\ s.try \in [Nodes -> Nat]
      /\ s.flag \in [Nodes -> SUBSET {"FORCE_ABORT", "SUBMIT_FAILED"}]
      /\ s.job \in [Nodes -> {"none", "submitted", "active"}]
      /\ s.susp \in SUBSET Nodes /\ s.free \in SUBSET Nodes
    BY DEF Trees
<1>9. susp \in SUBSET Nodes /\ free \in SUBSET Nodes
    BY <1>1, <1>8
<1>10. st \in [Nodes -> States]
    BY <1>2, <1>8
<1>11. rep \in Nat
    <2>1. s.rep[n] \in Nat
        BY <1>8
    <2>2. rep = 0 \/ rep = s.rep[n]
        BY DEF RequeuesNodes
    <2> QED BY <2>1, <2>2
<1>12. reps \in [Nodes -> Nat]
    BY <1>8, <1>11
<1>13. try \in [Nodes -> Nat]
    BY <1>8
<1>14. flag \in [Nodes -> SUBSET {"FORCE_ABORT", "SUBMIT_FAILED"}]
    BY <1>8
<1>15. job \in [Nodes -> {"none", "submitted", "active"}]
    BY <1>8
<1> HIDE DEF st, susp, reps, free, try, flag, job
<1>16. q \in Trees /\ q.st = st /\ q.rep = reps /\ q.job = job
    BY <1>3, <1>9, <1>10, <1>12, <1>13, <1>14, <1>15 DEF Trees
<1>17. Wait(q, n)
    BY <1>1, <1>2, <1>16 DEF Wait, st
<1> QED BY <1>1, <1>16, <1>17 DEF st, reps, job, NodesRequeued

LEMMA RequeueIs ==
    ASSUME NEW s \in Trees, NEW n \in Nodes, NEW clear, NEW r, NEW rep,
           \/ r = Requeue(s, n, TRUE, clear) /\ rep = 0
           \/ r = Requeue(s, n, FALSE, clear) /\ rep = s.rep[n]
    PROVE  QueuedAnew(r, s, n, rep)
<1> SUFFICES ASSUME NEW q, r = PropagateUp(q, n), RequeuesNodes(q, s, n, clear, rep)
             PROVE  QueuedAnew(r, s, n, rep)
    <2>1. Requeue(s, n, TRUE, clear) = PropagateUp(RequeueNodes(s, n, TRUE, clear), n)
        BY DEF Requeue, PropagateUp, Up, Fold
    <2>2. Requeue(s, n, FALSE, clear) = PropagateUp(RequeueNodes(s, n, FALSE, clear), n)
        BY DEF Requeue, PropagateUp, Up, Fold
    <2> QED BY <2>1, <2>2, Zenon DEF RequeuesNodes
<1>1. NodesRequeued(q, s, n, rep)
    BY RequeueNodesIs
<1>2. PropagatedUp(r, q, n)
    BY <1>1, PropagateUpIs DEF NodesRequeued
<1> QED BY <1>1, <1>2 DEF QueuedAnew, PropagatedUp, SameRest, NodesRequeued

\* y is x with the node c complete and the next value of its repeat.
Completed(y, x, c) ==
    /\ y \in Trees /\ y.susp = x.susp /\ y.free = x.free /\ y.try = x.try /\ y.job = x.job
    /\ \A m \in Nodes : y.st[m] = IF m = c THEN "COMPLETE" ELSE x.st[m]
    /\ \A m \in Nodes : y.rep[m] = IF m = c /\ x.rep[c] < Repeat[c] THEN x.rep[c] + 1 ELSE x.rep[m]

\* r is x with the state of c computed, if that is not complete; with c
\* complete; with c re-queued for the next value of its repeat.
GoesOn(r, x, c) == ComputedState(x, c) # "COMPLETE" /\ StatesSet(r, x, {c}, ComputedState(x, c))
Ends(r, x, c) == ComputedState(x, c) = "COMPLETE" /\ Completed(r, x, c) /\ ~(r.rep[c] < Repeat[c])
Restarts(r, x, c) ==
    /\ ComputedState(x, c) = "COMPLETE"
    /\ \E y, q : /\ Completed(y, x, c) /\ y.rep[c] < Repeat[c]
                 /\ QueuedAnew(q, y, c, y.rep[c]) /\ ShownUp(r, q, c)

LEMMA IncrementIs ==
    ASSUME NEW s \in Trees, NEW x, NEW c \in Nodes, StatesSet(s, x, {c}, "COMPLETE")
    PROVE  Completed(Increment(s, c), x, c)
<1> DEFINE rep == [s.rep EXCEPT ![c] = IF @ < Repeat[c] THEN @ + 1 ELSE @]
<1>1. s.rep \in [Nodes -> Nat] /\ s.rep[c] \in Nat
    BY DEF Trees
<1>2. rep \in [Nodes -> Nat] /\ \A m \in Nodes : rep[m] = IF m = c /\ s.rep[c] < Repeat[c] THEN s.rep[c] + 1 ELSE s.rep[m]
    BY <1>1
<1>3. Increment(s, c) = [s EXCEPT !.rep = rep]
    <2>1. s = [st |-> s.st, susp |-> s.susp, rep |-> s.rep, free |-> s.free, try |-> s.try,
               flag |-> s.flag, job |-> s.job]
        BY DEF Trees
    <2> QED BY <2>1 DEF Increment
<1> HIDE DEF rep
<1> DEFINE y == Increment(s, c)
<1>4. /\ y \in Trees /\ y.rep = rep /\ y.st = s.st /\ y.susp = s.susp /\ y.free = s.free
      /\ y.try = s.try /\ y.job = s.job
    BY <1>2, <1>3 DEF Trees
<1> HIDE DEF y
<1>5. s.rep = x.rep /\ s.susp = x.susp /\ s.free = x.free /\ s.try = x.try /\ s.job = x.job
    BY DEF StatesSet, SameRest
<1>6. \A m \in Nodes : y.st[m] = IF m = c THEN "COMPLETE" ELSE x.st[m]
    BY <1>4 DEF StatesSet
<1>7. \A m \in Nodes : y.rep[m] = IF m = c /\ x.rep[c] < Repeat[c] THEN x.rep[c] + 1 ELSE x.rep[m]
    BY <1>2, <1>4, <1>5
<1> QED BY <1>4, <1>5, <1>6, <1>7 DEF Completed, y

\* RequeueOrShow of a node.
Ways == [tree : Trees, ended : BOOLEAN]

Stepped(r, w, c) ==
    /\ r \in Ways
    /\ w.ended => r = w
    /\ ~w.ended => \/ ~r.ended /\ GoesOn(r.tree, w.tree, c)
                   \/ ~r.ended /\ Ends(r.tree, w.tree, c)
                   \/ r.ended /\ Restarts(r.tree, w.tree, c)

LEMMA RequeueOrShowIs ==
    ASSUME NEW w \in Ways, NEW c \in Nodes
    PROVE  Stepped(RequeueOrShow(w, c), w, c)
<1> DEFINE r == RequeueOrShow(w, c)
           x == Show(w.tree, c)
           y == IF x.st[c] = "COMPLETE" THEN Increment(x, c) ELSE x
<1>1. w.tree \in Trees
    BY DEF Ways
<1>2. CASE w.ended
    <2>1. r = w
        BY <1>2 DEF RequeueOrShow
    <2> HIDE DEF r
    <2> QED BY <1>2, <2>1 DEF Stepped, r
<1>3. CASE ~w.ended
    <2>1. /\ x \in Trees /\ SameRest(x, w.tree) /\ x.st[c] = ComputedState(w.tree, c)
          /\ \A m \in Nodes \ {c} : x.st[m] = w.tree.st[m]
        BY <1>1, ShowIs
    <2>2. r = IF y.st[c] = "COMPLETE" /\ y.rep[c] < Repeat[c]
              THEN [tree |-> SetUp(Requeue(y, c, FALSE, -1), c), ended |-> TRUE]
              ELSE [tree |-> y, ended |-> FALSE]
        BY <1>3, Zenon DEF RequeueOrShow
    <2> HIDE DEF x, r
    <2>3. StatesSet(x, w.tree, {c}, ComputedState(w.tree, c))
        BY <2>1 DEF StatesSet
    <2>4. CASE x.st[c] # "COMPLETE"
        <3>1. y = x
            BY <2>4
        <3> HIDE DEF y
        <3>2. r = [tree |-> x, ended |-> FALSE]
            BY <2>2, <2>4, <3>1
        <3>3. r \in Ways /\ ~r.ended /\ r.tree = x
            BY <2>1, <3>2 DEF Ways
        <3>4. GoesOn(r.tree, w.tree, c)
            BY <2>1, <2>3, <2>4, <3>3 DEF GoesOn
        <3> QED BY <1>3, <3>3, <3>4 DEF Stepped, r
    <2>5. CASE x.st[c] = "COMPLETE"
        <3>1. y = Increment(x, c)
            BY <2>5
        <3> HIDE DEF y
        <3>2. Completed(y, w.tree, c)
            BY <2>1, <2>3, <2>5, <3>1, IncrementIs
        <3>3. y \in Trees /\ y.st[c] = "COMPLETE"
            BY <3>2 DEF Completed
        <3>4. CASE ~(y.rep[c] < Repeat[c])
            <4>1. r = [tree |-> y, ended |-> FALSE]
                BY <2>2, <3>4
            <4>2. r \in Ways /\ ~r.ended /\ r.tree = y
                BY <3>3, <4>1 DEF Ways
            <4>3. Ends(r.tree, w.tree, c)
                BY <2>1, <2>5, <3>2, <3>4, <4>2 DEF Ends
            <4> QED BY <1>3, <4>2, <4>3 DEF Stepped, r
        <3>5. CASE y.rep[c] < Repeat[c]
            <4> DEFINE q == Requeue(y, c, FALSE, -1)
            <4>1. QueuedAnew(q, y, c, y.rep[c])
                BY <3>3, RequeueIs
            <4>2. r = [tree |-> SetUp(q, c), ended |-> TRUE]
                BY <2>2, <3>3, <3>5
            <4> HIDE DEF q
            <4>3. ShownUp(SetUp(q, c), q, c)
                BY <4>1, SetUpIs DEF QueuedAnew
            <4>4. r \in Ways /\ r.ended /\ r.tree = SetUp(q, c)
                BY <4>2, <4>3 DEF Ways, ShownUp
            <4>5. Restarts(r.tree, w.tree, c)
                BY <2>1, <2>5, <3>2, <3>5, <4>1, <4>3, <4>4 DEF Restarts
            <4> QED BY <1>3, <4>4, <4>5 DEF Stepped, r
        <3> QED BY <3>4, <3>5
    <2> QED BY <2>4, <2>5
<1> QED BY <1>2, <1>3

LEMMA RequeueOrSetUpSteps ==
    ASSUME NEW s \in Trees, NEW n \in Nodes
    PROVE  \E f \in [0 .. Size -> Ways] :
              /\ f[0] = [tree |-> s, ended |-> FALSE] /\ f[Size].tree = RequeueOrSetUp(s, n)
              /\ \A i \in 1 .. Size : f[i] = IF Size + 1 - i \in Above[n] THEN RequeueOrShow(f[i - 1], Size + 1 - i) ELSE f[i - 1]
<1> DEFINE V == Ways
           s0 == [tree |-> s, ended |-> FALSE]
           Op(x, i) == IF Size + 1 - i \in Above[n] THEN RequeueOrShow(x, Size + 1 - i) ELSE x
           F == [p \in V \X (1 .. Size) |-> Op(p[1], p[2])]
           z == CHOOSE f : f = [i \in 0 .. Size |-> IF i = 0 THEN s0
                                   ELSE CHOOSE y \in {Op(x, i) : x \in {f[i - 1]}} : TRUE]
<1>0. Size \in Nat
    BY TreeType
<1>1. z[Size].tree = RequeueOrSetUp(s, n)
    BY DEF RequeueOrSetUp, Up, Fold
<1>2. s0 \in V
    BY DEF Ways
<1>3. ASSUME NEW x \in V, NEW i \in 1 .. Size PROVE Op(x, i) \in V
    <2>1. Size + 1 - i \in Nodes
        BY UpIndex
    <2>2. RequeueOrShow(x, Size + 1 - i) \in Ways
        BY <2>1, RequeueOrShowIs DEF Stepped
    <2> QED BY <2>2
<1> HIDE DEF Op, V, s0
<1>4. F \in [V \X (1 .. Size) -> V]
    BY <1>3
<1>5. \A x \in V, i \in 1 .. Size : F[<<x, i>>] = Op(x, i)
    OBVIOUS
<1> HIDE DEF F
<1>6. PICK h : Steps(F, V, Size, s0, h)
    BY <1>0, <1>2, <1>4, Recursion
<1> DEFINE Body(f, i) == CHOOSE y \in {Op(x, i) : x \in {f[i - 1]}} : TRUE
<1>7. \A f, i : Body(f, i) = Op(f[i - 1], i)
    <2> SUFFICES ASSUME NEW f, NEW i PROVE Body(f, i) = Op(f[i - 1], i)
        OBVIOUS
    <2>1. {Op(x, i) : x \in {f[i - 1]}} = {Op(f[i - 1], i)}
        OBVIOUS
    <2> QED BY <2>1, Only, Zenon
<1> HIDE DEF Body
<1>8. h = [i \in 0 .. Size |-> IF i = 0 THEN s0 ELSE Body(h, i)]
    <2>1. h \in [0 .. Size -> V] /\ h[0] = s0
        BY <1>6 DEF Steps
    <2>2. ASSUME NEW i \in 1 .. Size PROVE h[i] = Body(h, i)
        <3>1. i - 1 \in 0 .. Size
            BY <1>0
        <3>2. h[i - 1] \in V /\ h[i] = F[<<h[i - 1], i>>]
            BY <1>6, <3>1 DEF Steps
        <3> QED BY <1>5, <1>7, <3>2
    <2>3. \A i \in 0 .. Size : h[i] = IF i = 0 THEN s0 ELSE Body(h, i)
        BY <1>0, <2>1, <2>2
    <2> QED BY <2>1, <2>3
<1>9. z = [i \in 0 .. Size |-> IF i = 0 THEN s0 ELSE Body(z, i)]
    BY <1>8, Zenon DEF Body
<1> HIDE DEF z
<1>10. z[0] = s0 /\ \A i \in 1 .. Size : z[i] = Op(z[i - 1], i)
    BY <1>0, <1>7, <1>9
<1> DEFINE S == {i \in 0 .. Size : z[i] \in V}
<1>11. \A i \in 0 .. Size : i \in S
    <2>1. 0 \in S
        BY <1>0, <1>2, <1>10
    <2>2. ASSUME NEW i \in 1 .. Size, i - 1 \in S PROVE i \in S
        BY <1>3, <1>10, <2>2
    <2> HIDE DEF S
    <2> QED BY <1>0, <2>1, <2>2, Induction
<1>12. z \in [0 .. Size -> V]
    BY <1>9, <1>11
<1> QED BY <1>1, <1>10, <1>12 DEF Op, V, s0

\* f: the way up from n that RequeueOrSetUp goes with s.
WayUp(f, s, n) ==
    /\ f \in [0 .. Size -> Ways]
    /\ f[0] = [tree |-> s, ended |-> FALSE] /\ f[Size].tree = RequeueOrSetUp(s, n)
    /\ \A i \in 1 .. Size : IF Size + 1 - i \in Above[n] THEN Stepped(f[i], f[i - 1], Size + 1 - i) ELSE f[i] = f[i - 1]

LEMMA RequeueOrSetUpWay ==
    ASSUME NEW s \in Trees, NEW n \in Nodes
    PROVE  /\ \E f : WayUp(f, s, n)
           /\ RequeueOrSetUp(s, n) \in Trees
<1>1. PICK f \in [0 .. Size -> Ways] :
              /\ f[0] = [tree |-> s, ended |-> FALSE] /\ f[Size].tree = RequeueOrSetUp(s, n)
              /\ \A i \in 1 .. Size : f[i] = IF Size + 1 - i \in Above[n] THEN RequeueOrShow(f[i - 1], Size + 1 - i) ELSE f[i - 1]
    BY RequeueOrSetUpSteps
<1>2. ASSUME NEW i \in 1 .. Size
      PROVE  IF Size + 1 - i \in Above[n] THEN Stepped(f[i], f[i - 1], Size + 1 - i) ELSE f[i] = f[i - 1]
    <2> DEFINE c == Size + 1 - i
    <2>1. c \in Nodes /\ i - 1 \in 0 .. Size
        BY UpIndex
    <2>2. f[i - 1] \in Ways
        BY <2>1
    <2>3. f[i] = IF c \in Above[n] THEN RequeueOrShow(f[i - 1], c) ELSE f[i - 1]
        BY <1>1
    <2> HIDE DEF c
    <2>4. Stepped(RequeueOrShow(f[i - 1], c), f[i - 1], c)
        BY <2>1, <2>2, RequeueOrShowIs
    <2> QED BY <2>3, <2>4 DEF c
<1>3. WayUp(f, s, n)
    BY <1>1, <1>2 DEF WayUp
<1>4. f[Size].tree \in Trees
    <2>1. f[Size] \in Ways
        BY TreeType
    <2> QED BY <2>1 DEF Ways
<1> QED BY <1>1, <1>3, <1>4

\* A way up is over after Size steps; S: the steps after which something holds.
LEMMA WayUpInduction ==
    ASSUME NEW S, 0 \in S, \A i \in 1 .. Size : i - 1 \in S => i \in S
    PROVE  Size \in S
<1>1. \A i \in 0 .. Size : i \in S
    BY Induction, TreeType
<1> QED BY <1>1, TreeType

\* r and s differ in the states of nodes of N only.
SameStates(r, s, N) == \A k \in Nodes \ N : r.st[k] = s.st[k]

\* Nodes that are not above n stay in agreement when only n and nodes above it
\* change.
LEMMA AgreeElsewhere ==
    ASSUME NEW s, NEW r, NEW n \in Nodes, NEW m \in Nodes \ Above[n], Agree(s, m),
           SameStates(r, s, Above[n])
    PROVE  Agree(r, m)
<1>1. ASSUME NEW k \in Kids[m] PROVE r.st[k] = s.st[k]
    <2>1. k \in Nodes \ {Suite} /\ Parent[k] = m
        BY KidsLater
    <2>2. k \notin Above[n]
        BY <2>1, AboveFacts
    <2> QED BY <2>1, <2>2 DEF SameStates
<1>2. r.st[m] = s.st[m]
    BY DEF SameStates
<1> QED BY <1>1, <1>2, AgreeSame

\* Nor when the nodes below n are re-queued.
LEMMA RestartAgrees ==
    ASSUME NEW y, NEW q, NEW r, NEW n \in Nodes, NEW rep,
           QueuedAnew(q, y, n, rep), ShownUp(r, q, n),
           \A m \in Nodes \ Above[n] : m \notin Below[n] => Agree(y, m)
    PROVE  r \in Trees /\ \A m \in Nodes : Agree(r, m)
<1>1. ASSUME NEW m \in Nodes \ Above[n] PROVE Agree(q, m)
    <2>1. CASE m \in Below[n]
        BY <2>1 DEF QueuedAnew
    <2>2. CASE m \notin Below[n]
        <3>1. ASSUME NEW k \in Kids[m] PROVE q.st[k] = y.st[k]
            <4>1. k \in Nodes \ {Suite} /\ Parent[k] = m
                BY KidsLater
            <4>2. k \notin Below[n]
                BY <2>2, <4>1, BelowFacts, AboveFacts
            <4> QED BY <4>1, <4>2 DEF QueuedAnew
        <3>2. q.st[m] = y.st[m] /\ Agree(y, m)
            BY <2>2 DEF QueuedAnew
        <3> QED BY <3>1, <3>2, AgreeSame
    <2> QED BY <2>1, <2>2
<1>2. ASSUME NEW m \in Nodes PROVE Agree(r, m)
    <2>1. CASE m \in Above[n]
        BY <2>1 DEF ShownUp, Agree
    <2>2. CASE m \notin Above[n]
        <3>1. Agree(q, m)
            BY <1>1, <2>2
        <3>2. SameStates(r, q, Above[n])
            BY DEF ShownUp, SameStates
        <3> QED BY <2>2, <3>1, <3>2, AgreeElsewhere
    <2> QED BY <2>1, <2>2
<1> QED BY <1>2 DEF ShownUp

LEMMA RequeueOrSetUpAgrees ==
    ASSUME NEW s \in Trees, NEW n \in Nodes, \A m \in Nodes \ Above[n] : Agree(s, m)
    PROVE  RequeueOrSetUp(s, n) \in Trees /\ \A m \in Nodes : Agree(RequeueOrSetUp(s, n), m)
<1>1. PICK f : WayUp(f, s, n)
    BY RequeueOrSetUpWay
<1>2. Above[n] \subseteq Nodes
    BY AboveFacts
<1> DEFINE Inv(w, c) == \A m \in Nodes : w.ended \/ m \notin Above[n] \/ m >= c => Agree(w.tree, m)
           S == {i \in 0 .. Size : Inv(f[i], Size + 1 - i)}
<1>3. ASSUME NEW w, NEW r, NEW c \in Above[n], Inv(w, c + 1), Stepped(r, w, c)
      PROVE  Inv(r, c)
    <2>1. c \in Nodes
        BY <1>2
    <2>2. CASE w.ended
        BY <1>3, <2>2 DEF Stepped
    <2>3. ASSUME NEW y, \A m \in Nodes \ {c} : y.st[m] = w.tree.st[m], ~w.ended,
                 NEW m \in Nodes, m # c, m \notin Above[n] \/ m >= c
          PROVE  Agree(y, m)
        <3>1. m \in Nat /\ c \in Nat
            BY <2>1, TreeType
        <3>2. m \notin Above[n] \/ m >= c + 1
            BY <2>3, <3>1
        <3>3. Agree(w.tree, m)
            BY <1>3, <3>2
        <3>4. ASSUME NEW k \in Kids[m] PROVE y.st[k] = w.tree.st[k]
            <4>1. k \in Nodes \ {Suite} /\ Parent[k] = m /\ m < k
                BY KidsLater
            <4>2. k \in Nat
                BY <4>1, TreeType
            <4>3. k # c
                <5>1. CASE m \notin Above[n]
                    BY <4>1, <5>1, <2>1, AboveFacts
                <5>2. CASE m >= c + 1
                    BY <5>2, <4>1, <4>2, <3>1
                <5> QED BY <5>1, <5>2, <3>2
            <4> QED BY <4>1, <4>3, <2>3
        <3> QED BY <2>3, <3>3, <3>4, AgreeSame
    <2>4. ASSUME NEW y, \A m \in Nodes \ {c} : y.st[m] = w.tree.st[m], ~w.ended,
                 y.st[c] = ComputedState(w.tree, c)
          PROVE  \A m \in Nodes : m \notin Above[n] \/ m >= c => Agree(y, m)
        <3>1. \A k \in Kids[c] : y.st[k] = w.tree.st[k]
            BY <2>1, <2>4, NotOwnKid, KidsFacts
        <3>2. y.st[c] = ComputedState(y, c)
            <4>1. CASE c \in Tasks
                BY <4>1 DEF ComputedState
            <4>2. CASE c \notin Tasks
                <5>1. ComputedState(y, c) = ComputedState(w.tree, c)
                    BY <2>1, <3>1, <4>2, ComputedStateSame
                <5> QED BY <5>1, <2>4
            <4> QED BY <4>1, <4>2
        <3>3. Agree(y, c)
            BY <3>2 DEF Agree
        <3> QED BY <2>3, <2>4, <3>3
    <2>5. CASE ~w.ended /\ ~r.ended /\ GoesOn(r.tree, w.tree, c)
        BY <2>1, <2>4, <2>5 DEF GoesOn, StatesSet
    <2>6. CASE ~w.ended /\ ~r.ended /\ Ends(r.tree, w.tree, c)
        BY <2>1, <2>4, <2>6 DEF Ends, Completed
    <2>7. CASE ~w.ended /\ r.ended /\ Restarts(r.tree, w.tree, c)
        <3>1. PICK y, q : Completed(y, w.tree, c) /\ QueuedAnew(q, y, c, y.rep[c]) /\ ShownUp(r.tree, q, c)
            BY <2>7 DEF Restarts
        <3>2. \A m \in Nodes : m \notin Above[n] \/ m >= c => Agree(y, m)
            BY <2>1, <2>4, <2>7, <3>1 DEF Completed, Restarts
        <3>3. ASSUME NEW m \in Nodes \ Above[c] PROVE Agree(y, m)
            <4>1. m \notin Above[n] \/ ~(m <= c)
                BY AboveFacts
            <4>2. m \in Nat /\ c \in Nat
                BY <2>1, TreeType
            <4>3. m \notin Above[n] \/ m >= c
                BY <4>1, <4>2
            <4> QED BY <3>2, <4>3
        <3> QED BY <2>1, <3>1, <3>3, RestartAgrees
    <2> QED BY <1>3, <2>2, <2>5, <2>6, <2>7 DEF Stepped
<1>4. 0 \in S
    <2>1. ASSUME NEW m \in Nodes PROVE ~(m >= Size + 1 - 0)
        <3>1. m \in Nat /\ m <= Size /\ Size \in Nat
            BY TreeType
        <3> QED BY <3>1
    <2>2. f[0].tree = s /\ ~f[0].ended /\ 0 \in 0 .. Size
        BY <1>1, TreeType DEF WayUp
    <2> QED BY <2>1, <2>2
<1>5. ASSUME NEW i \in 1 .. Size, i - 1 \in S PROVE i \in S
    <2> DEFINE c == Size + 1 - i
    <2>1. c \in Nodes /\ Inv(f[i - 1], c + 1) /\ i \in 0 .. Size
        BY <1>5, UpIndex
    <2>2. IF c \in Above[n] THEN Stepped(f[i], f[i - 1], c) ELSE f[i] = f[i - 1]
        BY <1>1 DEF WayUp
    <2>3. CASE c \in Above[n]
        <3> HIDE DEF Inv, c
        <3>1. Inv(f[i], c)
            BY <1>3, <2>1, <2>2, <2>3
        <3> QED BY <3>1, <2>1 DEF c
    <2>4. CASE c \notin Above[n]
        <3>1. \A m \in Above[n] : m >= c => m >= c + 1
            <4> SUFFICES ASSUME NEW m \in Above[n], m >= c PROVE m >= c + 1
                OBVIOUS
            <4>1. m \in Nat /\ c \in Nat /\ m # c
                BY <1>2, <2>1, <2>4, TreeType
            <4> HIDE DEF c
            <4> QED BY <4>1
        <3> HIDE DEF c
        <3>2. Inv(f[i], c)
            BY <2>1, <2>2, <2>4, <3>1
        <3> QED BY <3>2, <2>1 DEF c
    <2> QED BY <2>3, <2>4
<1>6. Size \in S
    <2> HIDE DEF S
    <2> QED BY <1>4, <1>5, WayUpInduction
<1>7. ASSUME NEW m \in Nodes PROVE m >= Size + 1 - Size
    <2>1. m \in Nat /\ 1 <= m /\ Size \in Nat
        BY TreeType
    <2> QED BY <2>1
<1>8. f[Size].tree = RequeueOrSetUp(s, n)
    BY <1>1 DEF WayUp
<1>9. RequeueOrSetUp(s, n) \in Trees
    BY RequeueOrSetUpWay
<1> QED BY <1>6, <1>7, <1>8, <1>9

-----------------------------------------------------------------------------
(* Agreement of the containers with their children *)

GoodTrees == {s \in Trees : \A m \in Nodes : Agree(s, m)}

LEMMA SameStatesGood ==
    ASSUME NEW s \in GoodTrees, NEW r \in Trees, r.st = s.st
    PROVE  r \in GoodTrees
<1>1. \A m \in Nodes : Agree(s, m)
    BY DEF GoodTrees
<1>2. ASSUME NEW m \in Nodes PROVE Agree(r, m)
    BY <1>1, AgreeSame
<1> QED BY <1>2 DEF GoodTrees

LEMMA RequeueOrSetUpGood ==
    ASSUME NEW s \in GoodTrees, NEW n \in Nodes
    PROVE  RequeueOrSetUp(s, n) \in GoodTrees
BY RequeueOrSetUpAgrees DEF GoodTrees

\* What SetState starts the way up with.
LEMMA SetStateArgument ==
    ASSUME NEW s \in Trees, NEW n \in Nodes, NEW v \in States
    PROVE  StatesSet(SetStateOnly(s, n, v, FALSE), s, {n}, v)
<1>1. {n} \in SUBSET Nodes
    OBVIOUS
<1>2. SetStateOnly(s, n, v, FALSE) \in {SetStatesOnly(s, {n}, v, TRUE), SetStatesOnly(s, {n}, v, FALSE)}
    BY Zenon DEF SetStateOnly
<1> QED BY <1>1, <1>2, SetStatesOnlyIs, Zenon

LEMMA SetStateGood ==
    ASSUME NEW s \in GoodTrees, NEW n \in Nodes, NEW v \in States
    PROVE  SetState(s, n, v) \in GoodTrees
<1> DEFINE x == SetStateOnly(s, n, v, FALSE)
<1>1. s \in Trees /\ \A m \in Nodes : Agree(s, m)
    BY DEF GoodTrees
<1>2. StatesSet(x, s, {n}, v)
    BY <1>1, SetStateArgument
<1>3. SetState(s, n, v) = IF s.st[n] = v THEN s ELSE RequeueOrSetUp(x, n)
    BY DEF SetState
<1> HIDE DEF x
<1>4. x \in Trees /\ SameStates(x, s, Above[n])
    BY <1>2, AboveFacts DEF StatesSet, SameStates
<1>5. \A m \in Nodes \ Above[n] : Agree(x, m)
    BY <1>1, <1>4, AgreeElsewhere
<1>6. RequeueOrSetUp(x, n) \in GoodTrees
    BY <1>4, <1>5, RequeueOrSetUpAgrees DEF GoodTrees
<1> QED BY <1>3, <1>6

\* Below n all nodes have the state v.
LEMMA AllTheSame ==
    ASSUME NEW r, NEW n \in Nodes, NEW v \in States, \A m \in Below[n] : r.st[m] = v
    PROVE  \A m \in Below[n] : Agree(r, m)
<1> SUFFICES ASSUME NEW m \in Below[n] PROVE r.st[m] = ComputedState(r, m)
    BY DEF Agree
<1>1. m \in Nodes
    BY BelowFacts
<1>2. CASE m \in Tasks
    BY <1>2 DEF ComputedState
<1>3. CASE m \notin Tasks
    <2>1. Kids[m] # {}
        BY <1>1, <1>3, KidsFacts
    <2>2. \A k \in Kids[m] : r.st[k] = v
        BY KidsBelow
    <2>3. {r.st[k] : k \in Kids[m]} = {v}
        BY <2>1, <2>2
    <2>4. MostSignificant({v}) = v
        BY DEF MostSignificant, States
    <2> QED BY <1>3, <2>3, <2>4 DEF ComputedState
<1> QED BY <1>2, <1>3

LEMMA SetAllGood ==
    ASSUME NEW s \in GoodTrees, NEW n \in Nodes, NEW v \in States, NEW x, StatesSet(x, s, Below[n], v)
    PROVE  RequeueOrSetUp(x, n) \in GoodTrees
<1>1. s \in Trees /\ \A m \in Nodes : Agree(s, m)
    BY DEF GoodTrees
<1>2. Below[n] \subseteq Nodes
    BY BelowFacts
<1>3. x \in Trees /\ \A m \in Below[n] : x.st[m] = v
    BY <1>2 DEF StatesSet
<1>4. \A m \in Below[n] : Agree(x, m)
    BY <1>3, AllTheSame
<1>5. ASSUME NEW m \in Nodes \ Above[n] PROVE Agree(x, m)
    <2>1. CASE m \in Below[n]
        BY <1>4, <2>1
    <2>2. CASE m \notin Below[n]
        <3>1. ASSUME NEW k \in Kids[m] PROVE x.st[k] = s.st[k]
            <4>1. k \in Nodes \ {Suite} /\ Parent[k] = m
                BY KidsLater
            <4>2. k \notin Below[n]
                BY <2>2, <4>1, BelowFacts, AboveFacts
            <4> QED BY <4>1, <4>2 DEF StatesSet
        <3>2. x.st[m] = s.st[m] /\ Agree(s, m)
            BY <1>1, <2>2 DEF StatesSet
        <3> QED BY <3>1, <3>2, AgreeSame
    <2> QED BY <2>1, <2>2
<1> QED BY <1>3, <1>5, RequeueOrSetUpAgrees DEF GoodTrees

LEMMA SetStateHierarchicallyGood ==
    ASSUME NEW s \in GoodTrees, NEW n \in Nodes, NEW v \in States
    PROVE  /\ SetStateHierarchically(s, n, v, TRUE) \in GoodTrees
           /\ SetStateHierarchically(s, n, v, FALSE) \in GoodTrees
<1> DEFINE x == SetStatesOnly(s, Below[n], v, TRUE)
           y == SetStatesOnly(s, Below[n], v, FALSE)
<1>1. SetStateHierarchically(s, n, v, TRUE) = IF n \in Tasks THEN SetState(s, n, v) ELSE RequeueOrSetUp(x, n)
    BY Zenon DEF SetStateHierarchically, SetStateOnlyHierarchically
<1>2. SetStateHierarchically(s, n, v, FALSE) = IF n \in Tasks THEN SetState(s, n, v) ELSE RequeueOrSetUp(y, n)
    BY Zenon DEF SetStateHierarchically, SetStateOnlyHierarchically
<1>3. s \in Trees /\ Below[n] \in SUBSET Nodes
    BY BelowFacts DEF GoodTrees
<1>4. x \in {SetStatesOnly(s, Below[n], v, TRUE), SetStatesOnly(s, Below[n], v, FALSE)}
    BY Zenon
<1>5. y \in {SetStatesOnly(s, Below[n], v, TRUE), SetStatesOnly(s, Below[n], v, FALSE)}
    BY Zenon
<1>6. StatesSet(x, s, Below[n], v)
    BY <1>3, <1>4, SetStatesOnlyIs, Zenon
<1>7. StatesSet(y, s, Below[n], v)
    BY <1>3, <1>5, SetStatesOnlyIs, Zenon
<1> HIDE DEF x, y
<1>8. RequeueOrSetUp(x, n) \in GoodTrees /\ RequeueOrSetUp(y, n) \in GoodTrees
    BY <1>6, <1>7, SetAllGood
<1>9. SetState(s, n, v) \in GoodTrees
    BY SetStateGood
<1>10. SetStateHierarchically(s, n, v, TRUE) \in GoodTrees
    BY <1>1, <1>8, <1>9, Zenon
<1>11. SetStateHierarchically(s, n, v, FALSE) \in GoodTrees
    BY <1>2, <1>8, <1>9, Zenon
<1> QED BY <1>10, <1>11, Zenon

\* Changes of a task's job and flag, and of its try number.
SameLoops(r, s) == r \in Trees /\ r.st = s.st /\ r.rep = s.rep

LEMMA JobIs ==
    ASSUME NEW s \in Trees, NEW t \in Nodes, NEW j \in {"none", "submitted", "active"}, NEW r,
           r = [s EXCEPT !.job[t] = j]
    PROVE  SameLoops(r, s) /\ r.job = [s.job EXCEPT ![t] = j]
<1> DEFINE job == [s.job EXCEPT ![t] = j]
<1>1. job \in [Nodes -> {"none", "submitted", "active"}]
    BY DEF Trees
<1>2. r = [s EXCEPT !.job = job]
    OBVIOUS
<1> HIDE DEF job
<1>3. r \in Trees /\ r.st = s.st /\ r.rep = s.rep /\ r.job = job
    BY <1>1, <1>2 DEF Trees
<1> QED BY <1>3 DEF SameLoops, job

Jobs == {"none", "submitted", "active"}
Flags == SUBSET {"FORCE_ABORT", "SUBMIT_FAILED"}

JobFlag(s, t, j, F) == [s EXCEPT !.job[t] = j, !.flag[t] = F]

LEMMA JobFlagIs ==
    ASSUME NEW s \in Trees, NEW t \in Nodes, NEW j \in Jobs,
           NEW F \in Flags
    PROVE  SameLoops(JobFlag(s, t, j, F), s) /\ JobFlag(s, t, j, F).job = [s.job EXCEPT ![t] = j]
<1> DEFINE job == [s.job EXCEPT ![t] = j]
           flag == [s.flag EXCEPT ![t] = F]
           r == JobFlag(s, t, j, F)
<1>1. job \in [Nodes -> {"none", "submitted", "active"}]
    BY DEF Trees, Jobs
<1>2. flag \in [Nodes -> SUBSET {"FORCE_ABORT", "SUBMIT_FAILED"}]
    BY DEF Trees, Flags
<1>3. s = [st |-> s.st, susp |-> s.susp, rep |-> s.rep, free |-> s.free, try |-> s.try,
           flag |-> s.flag, job |-> s.job]
    BY DEF Trees
<1>4. r = [s EXCEPT !.job = job, !.flag = flag]
    BY <1>3 DEF JobFlag
<1> HIDE DEF job, flag, r
<1>5. r \in Trees /\ r.st = s.st /\ r.rep = s.rep /\ r.job = job
    BY <1>1, <1>2, <1>4 DEF Trees
<1> QED BY <1>5 DEF SameLoops, job, r

LEMMA TryIs ==
    ASSUME NEW s \in Trees, NEW t \in Nodes, NEW r,
           r = [s EXCEPT !.try[t] = IF @ < EcfTries THEN @ + 1 ELSE @]
    PROVE  SameLoops(r, s) /\ r.job = s.job
<1> DEFINE try == [s.try EXCEPT ![t] = IF @ < EcfTries THEN @ + 1 ELSE @]
<1>1. s.try \in [Nodes -> Nat] /\ s.try[t] \in Nat
    BY DEF Trees
<1>2. try \in [Nodes -> Nat]
    BY <1>1
<1>3. s = [st |-> s.st, susp |-> s.susp, rep |-> s.rep, free |-> s.free, try |-> s.try,
           flag |-> s.flag, job |-> s.job]
    BY DEF Trees
<1>4. r = [s EXCEPT !.try = try]
    BY <1>3
<1> HIDE DEF try
<1>5. r \in Trees /\ r.st = s.st /\ r.rep = s.rep /\ r.job = s.job
    BY <1>2, <1>4 DEF Trees
<1> QED BY <1>5 DEF SameLoops

\* A submission: the task aborts, or it is submitted and has a job.
Submits(r, s, t) ==
    \E x, v : /\ SameLoops(x, s) /\ r = SetState(x, t, v)
              /\ \/ v = "ABORTED" /\ x.job = [s.job EXCEPT ![t] = "none"]
                 \/ v = "SUBMITTED" /\ x.job = [s.job EXCEPT ![t] = "submitted"]

LEMMA SubmitIs ==
    ASSUME NEW s \in Trees, NEW t \in Nodes, NEW failing
    PROVE  Submits(Submit(s, t, failing), s, t)
<1> DEFINE y == [s EXCEPT !.try[t] = IF @ < EcfTries THEN @ + 1 ELSE @]
           a == JobFlag(y, t, "none", {"SUBMIT_FAILED"})
           b == JobFlag(y, t, "submitted", {})
<1>1. SameLoops(y, s) /\ y.job = s.job
    BY TryIs
<1>2. Submit(s, t, failing) = IF t \in failing THEN SetState(a, t, "ABORTED") ELSE SetState(b, t, "SUBMITTED")
    BY Zenon DEF Submit, JobFlag
<1> HIDE DEF y
<1>3. y \in Trees
    BY <1>1 DEF SameLoops
<1>4. SameLoops(a, y) /\ a.job = [y.job EXCEPT ![t] = "none"]
    <2> DEFINE F == {"SUBMIT_FAILED"}
    <2>1. F \in Flags /\ "none" \in Jobs
        BY DEF Flags, Jobs
    <2> HIDE DEF F
    <2>2. SameLoops(JobFlag(y, t, "none", F), y) /\ JobFlag(y, t, "none", F).job = [y.job EXCEPT ![t] = "none"]
        BY <1>3, <2>1, JobFlagIs
    <2> QED BY <2>2 DEF F
<1>5. SameLoops(b, y) /\ b.job = [y.job EXCEPT ![t] = "submitted"]
    <2>1. {} \in Flags /\ "submitted" \in Jobs
        BY DEF Flags, Jobs
    <2> QED BY <1>3, <2>1, JobFlagIs
<1> HIDE DEF a, b
<1>6. SameLoops(a, s) /\ SameLoops(b, s)
    BY <1>1, <1>4, <1>5 DEF SameLoops
<1>7. CASE t \in failing
    BY <1>1, <1>2, <1>4, <1>6, <1>7 DEF Submits
<1>8. CASE t \notin failing
    BY <1>1, <1>2, <1>5, <1>6, <1>8 DEF Submits
<1> QED BY <1>7, <1>8

LEMMA SubmitGood ==
    ASSUME NEW s \in GoodTrees, NEW t \in Nodes, NEW failing
    PROVE  Submit(s, t, failing) \in GoodTrees
<1>1. s \in Trees
    BY DEF GoodTrees
<1>2. PICK x, v : SameLoops(x, s) /\ Submit(s, t, failing) = SetState(x, t, v) /\ v \in {"ABORTED", "SUBMITTED"}
    BY <1>1, SubmitIs DEF Submits
<1>3. x \in GoodTrees
    BY <1>2, SameStatesGood DEF SameLoops
<1>4. v \in States
    BY <1>2 DEF States
<1> QED BY <1>2, <1>3, <1>4, SetStateGood

\* What ResolveDependencies keeps, the traversal keeps.
LEMMA VisitIn ==
    ASSUME NEW s, NEW ch, NEW V, [tree |-> s, entered |-> {}, bypass |-> {}, lost |-> {}] \in V,
           \A w \in V, n \in Nodes : ResolveDependencies(w, n, ch) \in V
    PROVE  Visit(s, ch) \in V
<1> DEFINE s0 == [tree |-> s, entered |-> {}, bypass |-> {}, lost |-> {}]
           Op(x, i) == IF i \in Nodes THEN ResolveDependencies(x, i, ch) ELSE x
           F == [p \in V \X (1 .. Size) |-> Op(p[1], p[2])]
           z == CHOOSE f : f = [i \in 0 .. Size |-> IF i = 0 THEN s0
                                   ELSE CHOOSE y \in {Op(x, i) : x \in {f[i - 1]}} : TRUE]
<1>0. Size \in Nat
    BY TreeType
<1>1. z[Size] = Visit(s, ch)
    BY DEF Visit, Down, Fold
<1>2. s0 \in V
    OBVIOUS
<1>3. ASSUME NEW x \in V, NEW i \in 1 .. Size PROVE Op(x, i) \in V
    OBVIOUS
<1> HIDE DEF Op, s0
<1>4. F \in [V \X (1 .. Size) -> V]
    BY <1>3
<1>5. \A x \in V, i \in 1 .. Size : F[<<x, i>>] = Op(x, i)
    OBVIOUS
<1> HIDE DEF F
<1>6. PICK h : Steps(F, V, Size, s0, h)
    BY <1>0, <1>2, <1>4, Recursion
<1> DEFINE Body(f, i) == CHOOSE y \in {Op(x, i) : x \in {f[i - 1]}} : TRUE
<1>7. \A f, i : Body(f, i) = Op(f[i - 1], i)
    <2> SUFFICES ASSUME NEW f, NEW i PROVE Body(f, i) = Op(f[i - 1], i)
        OBVIOUS
    <2>1. {Op(x, i) : x \in {f[i - 1]}} = {Op(f[i - 1], i)}
        OBVIOUS
    <2> QED BY <2>1, Only, Zenon
<1> HIDE DEF Body
<1>8. h = [i \in 0 .. Size |-> IF i = 0 THEN s0 ELSE Body(h, i)]
    <2>1. h \in [0 .. Size -> V] /\ h[0] = s0
        BY <1>6 DEF Steps
    <2>2. ASSUME NEW i \in 1 .. Size PROVE h[i] = Body(h, i)
        <3>1. i - 1 \in 0 .. Size
            BY <1>0
        <3>2. h[i - 1] \in V /\ h[i] = F[<<h[i - 1], i>>]
            BY <1>6, <3>1 DEF Steps
        <3> QED BY <1>5, <1>7, <3>2
    <2>3. \A i \in 0 .. Size : h[i] = IF i = 0 THEN s0 ELSE Body(h, i)
        BY <1>0, <2>1, <2>2
    <2> QED BY <2>1, <2>3
<1>9. z = [i \in 0 .. Size |-> IF i = 0 THEN s0 ELSE Body(z, i)]
    BY <1>8, Zenon DEF Body
<1> HIDE DEF z
<1>10. z[0] = s0 /\ \A i \in 1 .. Size : z[i] = Op(z[i - 1], i)
    BY <1>0, <1>7, <1>9
<1> DEFINE S == {i \in 0 .. Size : z[i] \in V}
<1>11. \A i \in 0 .. Size : i \in S
    <2>1. 0 \in S
        BY <1>0, <1>2, <1>10
    <2>2. ASSUME NEW i \in 1 .. Size, i - 1 \in S PROVE i \in S
        BY <1>3, <1>10, <2>2
    <2> HIDE DEF S
    <2> QED BY <1>0, <2>1, <2>2, Induction
<1> QED BY <1>0, <1>1, <1>11

AbortedAnew(s, n) ==
    LET Again(x, t) == IF t \in Tasks /\ x.st[t] = "ABORTED"
                       THEN SetUp(Requeue(x, t, TRUE, 0), t) ELSE x
    IN  Down(Again, s, Below[n])

LEMMA AbortedAnewIn ==
    ASSUME NEW s, NEW n \in Nodes, NEW V, s \in V,
           \A x \in V, t \in Nodes : SetUp(Requeue(x, t, TRUE, 0), t) \in V
    PROVE  AbortedAnew(s, n) \in V
<1> DEFINE s0 == s
           Op(x, i) == IF i \in Below[n]
                       THEN (IF i \in Tasks /\ x.st[i] = "ABORTED" THEN SetUp(Requeue(x, i, TRUE, 0), i) ELSE x)
                       ELSE x
           F == [p \in V \X (1 .. Size) |-> Op(p[1], p[2])]
           z == CHOOSE f : f = [i \in 0 .. Size |-> IF i = 0 THEN s0
                                   ELSE CHOOSE y \in {Op(x, i) : x \in {f[i - 1]}} : TRUE]
<1>0. Size \in Nat
    BY TreeType
<1>1. z[Size] = AbortedAnew(s, n)
    BY DEF AbortedAnew, Down, Fold
<1>2. s0 \in V
    OBVIOUS
<1>3. ASSUME NEW x \in V, NEW i \in 1 .. Size PROVE Op(x, i) \in V
    BY DEF Nodes
<1> HIDE DEF Op, s0
<1>4. F \in [V \X (1 .. Size) -> V]
    BY <1>3
<1>5. \A x \in V, i \in 1 .. Size : F[<<x, i>>] = Op(x, i)
    OBVIOUS
<1> HIDE DEF F
<1>6. PICK h : Steps(F, V, Size, s0, h)
    BY <1>0, <1>2, <1>4, Recursion
<1> DEFINE Body(f, i) == CHOOSE y \in {Op(x, i) : x \in {f[i - 1]}} : TRUE
<1>7. \A f, i : Body(f, i) = Op(f[i - 1], i)
    <2> SUFFICES ASSUME NEW f, NEW i PROVE Body(f, i) = Op(f[i - 1], i)
        OBVIOUS
    <2>1. {Op(x, i) : x \in {f[i - 1]}} = {Op(f[i - 1], i)}
        OBVIOUS
    <2> QED BY <2>1, Only, Zenon
<1> HIDE DEF Body
<1>8. h = [i \in 0 .. Size |-> IF i = 0 THEN s0 ELSE Body(h, i)]
    <2>1. h \in [0 .. Size -> V] /\ h[0] = s0
        BY <1>6 DEF Steps
    <2>2. ASSUME NEW i \in 1 .. Size PROVE h[i] = Body(h, i)
        <3>1. i - 1 \in 0 .. Size
            BY <1>0
        <3>2. h[i - 1] \in V /\ h[i] = F[<<h[i - 1], i>>]
            BY <1>6, <3>1 DEF Steps
        <3> QED BY <1>5, <1>7, <3>2
    <2>3. \A i \in 0 .. Size : h[i] = IF i = 0 THEN s0 ELSE Body(h, i)
        BY <1>0, <2>1, <2>2
    <2> QED BY <2>1, <2>3
<1>9. z = [i \in 0 .. Size |-> IF i = 0 THEN s0 ELSE Body(z, i)]
    BY <1>8, Zenon DEF Body
<1> HIDE DEF z
<1>10. z[0] = s0 /\ \A i \in 1 .. Size : z[i] = Op(z[i - 1], i)
    BY <1>0, <1>7, <1>9
<1> DEFINE S == {i \in 0 .. Size : z[i] \in V}
<1>11. \A i \in 0 .. Size : i \in S
    <2>1. 0 \in S
        BY <1>0, <1>2, <1>10
    <2>2. ASSUME NEW i \in 1 .. Size, i - 1 \in S PROVE i \in S
        BY <1>3, <1>10, <2>2
    <2> HIDE DEF S
    <2> QED BY <1>0, <2>1, <2>2, Induction
<1> QED BY <1>0, <1>1, <1>11

LEMMA RequeuePathsIn ==
    ASSUME NEW paths \in Seq(Nodes), NEW force, NEW V, [tree |-> tree, clear |-> 0, ended |-> FALSE] \in V,
           \A w \in V : [w EXCEPT !.ended = TRUE] \in V,
           \A w \in V, n \in Nodes : [tree |-> Requeued(w.tree, n, w.clear), ended |-> FALSE,
                  clear |-> IF n \in Tasks THEN w.clear ELSE w.clear + 1] \in V
    PROVE  RequeuePaths(paths, force) \in V
<1> DEFINE s0 == [tree |-> tree, clear |-> 0, ended |-> FALSE]
           Op(x, i) == IF x.ended \/ (~force /\ (\E t \in Tasks \cap Below[paths[i]] : x.tree.st[t] \in Running))
                       THEN [x EXCEPT !.ended = TRUE]
                       ELSE [tree |-> Requeued(x.tree, paths[i], x.clear), ended |-> FALSE,
                             clear |-> IF paths[i] \in Tasks THEN x.clear ELSE x.clear + 1]
           F == [p \in V \X (1 .. Len(paths)) |-> Op(p[1], p[2])]
           z == CHOOSE f : f = [i \in 0 .. Len(paths) |-> IF i = 0 THEN s0
                                   ELSE CHOOSE y \in {Op(x, i) : x \in {f[i - 1]}} : TRUE]
<1>0. Len(paths) \in Nat
    OBVIOUS
<1>1. z[Len(paths)] = RequeuePaths(paths, force)
    BY DEF RequeuePaths, Fold
<1>2. s0 \in V
    OBVIOUS
<1>3. ASSUME NEW x \in V, NEW i \in 1 .. Len(paths) PROVE Op(x, i) \in V
    <2>1. paths[i] \in Nodes
        OBVIOUS
    <2> DEFINE a == [x EXCEPT !.ended = TRUE]
               b == [tree |-> Requeued(x.tree, paths[i], x.clear), ended |-> FALSE,
                     clear |-> IF paths[i] \in Tasks THEN x.clear ELSE x.clear + 1]
    <2>2. a \in V /\ b \in V
        BY <2>1
    <2>3. Op(x, i) \in {a, b}
        <3> HIDE DEF a, b
        <3> SUFFICES \A p : (IF p THEN a ELSE b) \in {a, b}
            BY DEF a, b
        <3> QED OBVIOUS
    <2> HIDE DEF a, b
    <2> QED BY <2>2, <2>3
<1> HIDE DEF Op, s0
<1>4. F \in [V \X (1 .. Len(paths)) -> V]
    BY <1>3
<1>5. \A x \in V, i \in 1 .. Len(paths) : F[<<x, i>>] = Op(x, i)
    OBVIOUS
<1> HIDE DEF F
<1>6. PICK h : Steps(F, V, Len(paths), s0, h)
    BY <1>0, <1>2, <1>4, Recursion
<1> DEFINE Body(f, i) == CHOOSE y \in {Op(x, i) : x \in {f[i - 1]}} : TRUE
<1>7. \A f, i : Body(f, i) = Op(f[i - 1], i)
    <2> SUFFICES ASSUME NEW f, NEW i PROVE Body(f, i) = Op(f[i - 1], i)
        OBVIOUS
    <2>1. {Op(x, i) : x \in {f[i - 1]}} = {Op(f[i - 1], i)}
        OBVIOUS
    <2> QED BY <2>1, Only, Zenon
<1> HIDE DEF Body
<1>8. h = [i \in 0 .. Len(paths) |-> IF i = 0 THEN s0 ELSE Body(h, i)]
    <2>1. h \in [0 .. Len(paths) -> V] /\ h[0] = s0
        BY <1>6 DEF Steps
    <2>2. ASSUME NEW i \in 1 .. Len(paths) PROVE h[i] = Body(h, i)
        <3>1. i - 1 \in 0 .. Len(paths)
            BY <1>0
        <3>2. h[i - 1] \in V /\ h[i] = F[<<h[i - 1], i>>]
            BY <1>6, <3>1 DEF Steps
        <3> QED BY <1>5, <1>7, <3>2
    <2>3. \A i \in 0 .. Len(paths) : h[i] = IF i = 0 THEN s0 ELSE Body(h, i)
        BY <1>0, <2>1, <2>2
    <2> QED BY <2>1, <2>3
<1>9. z = [i \in 0 .. Len(paths) |-> IF i = 0 THEN s0 ELSE Body(z, i)]
    BY <1>8, Zenon DEF Body
<1> HIDE DEF z
<1>10. z[0] = s0 /\ \A i \in 1 .. Len(paths) : z[i] = Op(z[i - 1], i)
    BY <1>0, <1>7, <1>9
<1> DEFINE S == {i \in 0 .. Len(paths) : z[i] \in V}
<1>11. \A i \in 0 .. Len(paths) : i \in S
    <2>1. 0 \in S
        BY <1>0, <1>2, <1>10
    <2>2. ASSUME NEW i \in 1 .. Len(paths), i - 1 \in S PROVE i \in S
        BY <1>3, <1>10, <2>2
    <2> HIDE DEF S
    <2> QED BY <1>0, <2>1, <2>2, Induction
<1> QED BY <1>0, <1>1, <1>11

\* A traversal in which no running job is disowned.
Visits == [tree : GoodTrees, entered : SUBSET Nodes, bypass : SUBSET Tasks, lost : {{}}]

\* Only queued and completed tasks are below a node that its expression completes.
LEMMA NoneRuns ==
    ASSUME NEW s, NEW n, DeepState(s, n) = "QUEUED"
    PROVE  {t \in Tasks \cap Below[n] : s.st[t] \in Running} = {}
<1> DEFINE T == {s.st[t] : t \in Tasks \cap Below[n]}
<1>1. MostSignificant(T) = "QUEUED"
    BY DEF DeepState
<1> HIDE DEF T
<1>2. T \cap {"ABORTED", "ACTIVE", "SUBMITTED"} = {}
    BY <1>1, MostSignificantIs
<1> QED BY <1>2 DEF T, Running

\* What ResolveDependencies does: nothing, or one of three things.
Resolved(r, w, n, ch) ==
    \/ r = w
    \/ /\ EvaluateComplete(w.tree, n) /\ w.tree.st[n] # "COMPLETE" /\ n \notin w.tree.susp
       /\ n \in Tasks => Eligible(w.tree, n)
       /\ r = [w EXCEPT !.tree = SetStateHierarchically(w.tree, n, "COMPLETE", FALSE),
                        !.lost = @ \cup {t \in Tasks \cap Below[n] : w.tree.st[t] \in Running}]
    \/ /\ n \in Tasks /\ Eligible(w.tree, n)
       /\ r = [w EXCEPT !.tree = Submit(w.tree, n, ch.failing),
                        !.bypass = IF Held(w.tree, n) THEN @ \cup {n} ELSE @]
    \/ r = [w EXCEPT !.entered = @ \cup {n}]

LEMMA ResolveDependenciesIs ==
    ASSUME NEW w, NEW n, NEW ch
    PROVE  Resolved(ResolveDependencies(w, n, ch), w, n, ch)
BY DEF ResolveDependencies, Resolved

LEMMA VisitsStep ==
    ASSUME NEW w \in Visits, NEW n \in Nodes, NEW ch
    PROVE  ResolveDependencies(w, n, ch) \in Visits
<1> DEFINE r == ResolveDependencies(w, n, ch)
<1>1. w.tree \in GoodTrees /\ w.entered \in SUBSET Nodes /\ w.bypass \in SUBSET Tasks /\ w.lost = {}
    BY DEF Visits
<1>2. Resolved(r, w, n, ch)
    BY ResolveDependenciesIs
<1> HIDE DEF r
<1>3. CASE r = w
    BY <1>3 DEF r
<1>4. CASE /\ EvaluateComplete(w.tree, n)
           /\ r = [w EXCEPT !.tree = SetStateHierarchically(w.tree, n, "COMPLETE", FALSE),
                            !.lost = @ \cup {t \in Tasks \cap Below[n] : w.tree.st[t] \in Running}]
    <2> DEFINE x == SetStateHierarchically(w.tree, n, "COMPLETE", FALSE)
               L == {t \in Tasks \cap Below[n] : w.tree.st[t] \in Running}
    <2>1. x \in GoodTrees
        <3>1. "COMPLETE" \in States
            BY DEF States
        <3> QED BY <1>1, <3>1, SetStateHierarchicallyGood, Zenon
    <2>2. L = {}
        BY <1>4, NoneRuns DEF EvaluateComplete
    <2>3. r = [w EXCEPT !.tree = x, !.lost = @ \cup L]
        BY <1>4
    <2> HIDE DEF x, L
    <2> QED BY <1>1, <2>1, <2>2, <2>3 DEF Visits, r
<1>5. CASE /\ n \in Tasks
           /\ r = [w EXCEPT !.tree = Submit(w.tree, n, ch.failing),
                            !.bypass = IF Held(w.tree, n) THEN @ \cup {n} ELSE @]
    <2> DEFINE x == Submit(w.tree, n, ch.failing)
               B == IF Held(w.tree, n) THEN w.bypass \cup {n} ELSE w.bypass
    <2>1. x \in GoodTrees
        BY <1>1, SubmitGood
    <2>2. B \in SUBSET Tasks
        BY <1>1, <1>5
    <2>3. r = [w EXCEPT !.tree = x, !.bypass = B]
        BY <1>5
    <2> HIDE DEF x, B
    <2> QED BY <1>1, <2>1, <2>2, <2>3 DEF Visits, r
<1>6. CASE r = [w EXCEPT !.entered = @ \cup {n}]
    BY <1>1, <1>6 DEF Visits, r
<1> QED BY <1>2, <1>3, <1>4, <1>5, <1>6 DEF Resolved

LEMMA VisitGood ==
    ASSUME NEW s \in GoodTrees, NEW ch
    PROVE  Visit(s, ch) \in Visits
<1>1. [tree |-> s, entered |-> {}, bypass |-> {}, lost |-> {}] \in Visits
    BY DEF Visits
<1>2. \A w \in Visits, n \in Nodes : ResolveDependencies(w, n, ch) \in Visits
    BY VisitsStep
<1> QED BY <1>1, <1>2, VisitIn

\* Commands.
LEMMA RequeueGood ==
    ASSUME NEW s \in GoodTrees, NEW n \in Nodes, NEW clear
    PROVE  SetUp(Requeue(s, n, TRUE, clear), n) \in GoodTrees
<1> DEFINE q == Requeue(s, n, TRUE, clear)
<1>1. s \in Trees /\ \A m \in Nodes : Agree(s, m)
    BY DEF GoodTrees
<1>2. QueuedAnew(q, s, n, 0)
    BY <1>1, RequeueIs
<1> HIDE DEF q
<1>3. ShownUp(SetUp(q, n), q, n)
    BY <1>2, SetUpIs DEF QueuedAnew
<1>4. SetUp(q, n) \in Trees /\ \A m \in Nodes : Agree(SetUp(q, n), m)
    BY <1>1, <1>2, <1>3, RestartAgrees
<1>5. SetUp(q, n) \in GoodTrees
    BY <1>4 DEF GoodTrees
<1> QED BY <1>5 DEF q

LEMMA TellParentGood ==
    ASSUME NEW s \in GoodTrees, NEW n \in Nodes
    PROVE  TellParent(s, n) \in GoodTrees
<1>1. n # Suite => Parent[n] \in Nodes
    BY TreeType
<1> QED BY <1>1, RequeueOrSetUpGood DEF TellParent

LEMMA RequeuedGood ==
    ASSUME NEW s \in GoodTrees, NEW n \in Nodes, NEW clear
    PROVE  Requeued(s, n, clear) \in GoodTrees
BY RequeueGood, TellParentGood DEF Requeued

LEMMA RequeuePathsGood ==
    ASSUME tree \in GoodTrees, NEW paths \in Seq(Nodes), NEW force
    PROVE  RequeuePaths(paths, force).tree \in GoodTrees
<1> DEFINE V == [tree : GoodTrees, clear : Nat, ended : BOOLEAN]
<1>1. [tree |-> tree, clear |-> 0, ended |-> FALSE] \in V
    OBVIOUS
<1>2. ASSUME NEW w \in V PROVE [w EXCEPT !.ended = TRUE] \in V
    OBVIOUS
<1>3. ASSUME NEW w \in V, NEW n \in Nodes
      PROVE  [tree |-> Requeued(w.tree, n, w.clear), ended |-> FALSE,
              clear |-> IF n \in Tasks THEN w.clear ELSE w.clear + 1] \in V
    <2>1. w.tree \in GoodTrees /\ w.clear \in Nat
        OBVIOUS
    <2>2. Requeued(w.tree, n, w.clear) \in GoodTrees
        BY <2>1, RequeuedGood
    <2> QED BY <2>1, <2>2
<1> HIDE DEF V
<1>4. RequeuePaths(paths, force) \in V
    BY <1>1, <1>2, <1>3, RequeuePathsIn
<1> QED BY <1>4 DEF V

LEMMA AbortedAnewGood ==
    ASSUME NEW s \in GoodTrees, NEW n \in Nodes
    PROVE  TellParent(AbortedAnew(s, n), n) \in GoodTrees
<1>1. \A x \in GoodTrees, t \in Nodes : SetUp(Requeue(x, t, TRUE, 0), t) \in GoodTrees
    BY RequeueGood
<1>2. AbortedAnew(s, n) \in GoodTrees
    BY <1>1, AbortedAnewIn
<1> QED BY <1>2, TellParentGood

LEMMA RepeatsUsedUpIs ==
    ASSUME NEW s \in GoodTrees, NEW n \in Nodes
    PROVE  RepeatsUsedUp(s, n) \in GoodTrees
<1> DEFINE rep == [m \in Nodes |-> IF m \in Below[n] THEN Repeat[m] ELSE s.rep[m]]
           r == RepeatsUsedUp(s, n)
<1>1. s \in Trees
    BY DEF GoodTrees
<1>2. rep \in [Nodes -> Nat]
    BY <1>1, NodeAssumption DEF Trees
<1>3. r = [s EXCEPT !.rep = rep]
    BY DEF RepeatsUsedUp
<1> HIDE DEF rep, r
<1>4. r \in Trees /\ r.st = s.st
    BY <1>1, <1>2, <1>3 DEF Trees
<1> QED BY <1>4, SameStatesGood DEF r

LEMMA InitGood == Requeue(Unbegun, Suite, TRUE, -1) \in GoodTrees
<1> DEFINE q == Requeue(Unbegun, Suite, TRUE, -1)
<1>1. Unbegun \in Trees
    BY DEF Unbegun, Trees, States
<1>2. Suite \in Nodes
    BY TreeType
<1>3. QueuedAnew(q, Unbegun, Suite, 0)
    BY <1>1, <1>2, RequeueIs
<1> HIDE DEF q
<1>4. \A m \in Nodes : Agree(q, m)
    BY <1>2, <1>3, BelowFacts DEF QueuedAnew
<1>5. q \in GoodTrees
    BY <1>3, <1>4 DEF QueuedAnew, GoodTrees
<1> QED BY <1>5 DEF q

-----------------------------------------------------------------------------
(* Types, agreement, and jobs that complete expressions spare *)

\* Histories in which no running job was disowned.
Hists == [runs : [Tasks -> Nat], meddled : BOOLEAN, bypass : SUBSET Tasks, lost : {{}},
          woken : SUBSET Nodes]

GoodState == tree \in GoodTrees /\ cmds \in Nat /\ fails \in Nat /\ hist \in Hists

LEMMA HistsAre ==
    ASSUME hist \in Hists
    PROVE  /\ Quiet(hist) \in Hists /\ Meddled \in Hists
           /\ Quiet(hist).meddled = hist.meddled /\ Quiet(hist).runs = hist.runs
           /\ Meddled.meddled = TRUE
<1>1. Quiet(hist) \in Hists
    BY DEF Quiet, Hists
<1>2. Quiet(hist).runs = hist.runs
    BY DEF Quiet, Hists
<1>3. Quiet(hist).meddled = hist.meddled
    BY DEF Quiet, Hists
<1> DEFINE runs == [t \in Tasks |-> 0]
<1>4. runs \in [Tasks -> Nat] /\ Meddled = [Quiet(hist) EXCEPT !.meddled = TRUE, !.runs = runs]
    BY DEF Meddled
<1> HIDE DEF runs
<1>5. Meddled \in Hists
    BY <1>1, <1>4 DEF Hists
<1>6. Meddled.meddled = TRUE
    BY <1>1, <1>4 DEF Hists
<1> QED BY <1>1, <1>2, <1>3, <1>5, <1>6

\* h and the history after a step agree on what is kept.
Recorded(h) == hist' \in Hists /\ hist'.meddled = h.meddled /\ hist'.runs = h.runs

LEMMA GenerateGood ==
    ASSUME NEW s \in GoodTrees, NEW h \in Hists, NEW ch, fails \in Nat, Generate(s, h, ch)
    PROVE  tree' \in GoodTrees /\ Recorded(h) /\ fails' \in Nat /\ tree' = Visit(s, ch).tree
<1> DEFINE w == Visit(s, ch)
<1>1. w \in Visits
    BY VisitGood
<1>2. /\ tree' = w.tree /\ hist' = [h EXCEPT !.bypass = w.bypass, !.lost = w.lost]
      /\ fails' = fails + (IF ch = Whole THEN 0 ELSE 1)
    BY DEF Generate
<1> HIDE DEF w
<1>3. tree' \in GoodTrees /\ Recorded(h)
    BY <1>1, <1>2 DEF Visits, Hists, Recorded
<1>4. fails' \in Nat
    BY <1>2
<1> QED BY <1>2, <1>3, <1>4 DEF w

LEMMA ThenTraverseGood ==
    ASSUME NEW s \in GoodTrees, NEW h \in Hists, fails \in Nat, ThenTraverse(s, h)
    PROVE  tree' \in GoodTrees /\ Recorded(h) /\ fails' \in Nat
<1>1. CASE Generate(s, h, Whole)
    BY <1>1, GenerateGood
<1>2. CASE tree' = s /\ hist' = h /\ UNCHANGED fails
    BY <1>2 DEF Recorded
<1> QED BY <1>1, <1>2 DEF ThenTraverse

LEMMA UserCounts ==
    ASSUME NEW c, cmds \in Nat, User(c)
    PROVE  cmds' \in Nat
BY DEF User

LEMMA ChildGood ==
    ASSUME GoodState, NEW t \in Tasks, Child(t)
    PROVE  GoodState'
<1>1. t \in Nodes /\ tree \in Trees /\ tree \in GoodTrees
    BY KidsFacts DEF GoodState, GoodTrees
<1>2. {"ACTIVE", "COMPLETE", "ABORTED"} \subseteq States
    BY DEF States
<1>3. CASE ChildInit(t)
    <2> DEFINE x == [tree EXCEPT !.job[t] = "active"]
    <2>1. SameLoops(x, tree)
        BY <1>1, JobIs
    <2>2. tree' = SetState(x, t, "ACTIVE") /\ hist' = Quiet(hist) /\ UNCHANGED <<cmds, fails>>
        BY <1>3 DEF ChildInit
    <2> HIDE DEF x
    <2>3. x \in GoodTrees
        BY <1>1, <2>1, SameStatesGood DEF SameLoops
    <2>4. tree' \in GoodTrees
        BY <1>1, <1>2, <2>2, <2>3, SetStateGood
    <2> QED BY <2>2, <2>4, HistsAre DEF GoodState
<1>4. CASE ChildComplete(t)
    <2> DEFINE x == SetState(tree, t, "COMPLETE")
               runs == [hist.runs EXCEPT ![t] = IF hist.meddled THEN @ ELSE @ + 1]
    <2>1. x \in GoodTrees
        BY <1>1, <1>2, SetStateGood
    <2>2. /\ tree' = [x EXCEPT !.job[t] = "none"] /\ UNCHANGED <<cmds, fails>>
          /\ hist' = [Quiet(hist) EXCEPT !.runs[t] = IF hist.meddled THEN @ ELSE @ + 1]
        BY <1>4 DEF ChildComplete
    <2>3. Quiet(hist) \in Hists /\ Quiet(hist).runs = hist.runs
        BY HistsAre DEF GoodState
    <2>4. hist' = [Quiet(hist) EXCEPT !.runs = runs]
        BY <2>2, <2>3 DEF Hists
    <2>5. runs \in [Tasks -> Nat]
        BY DEF GoodState, Hists
    <2> HIDE DEF x, runs
    <2>6. tree' \in GoodTrees
        <3>1. x \in Trees
            BY <2>1 DEF GoodTrees
        <3>2. SameLoops(tree', x)
            BY <1>1, <2>2, <3>1, JobIs
        <3> QED BY <2>1, <3>2, SameStatesGood DEF SameLoops
    <2>7. hist' \in Hists
        BY <2>3, <2>4, <2>5 DEF Hists
    <2> QED BY <2>2, <2>6, <2>7 DEF GoodState
<1>5. CASE ChildAbort(t)
    <2> DEFINE x == [tree EXCEPT !.job[t] = "none"]
    <2>1. SameLoops(x, tree)
        BY <1>1, JobIs
    <2>2. tree' = SetState(x, t, "ABORTED") /\ hist' = Quiet(hist) /\ UNCHANGED <<cmds, fails>>
        BY <1>5 DEF ChildAbort
    <2> HIDE DEF x
    <2>3. x \in GoodTrees
        BY <1>1, <2>1, SameStatesGood DEF SameLoops
    <2>4. tree' \in GoodTrees
        BY <1>1, <1>2, <2>2, <2>3, SetStateGood
    <2> QED BY <2>2, <2>4, HistsAre DEF GoodState
<1> QED BY <1>3, <1>4, <1>5 DEF Child

\* Changes of suspensions and freed triggers.
LEMMA HoldsGood ==
    ASSUME NEW s \in GoodTrees, NEW N \in SUBSET Nodes
    PROVE  [s EXCEPT !.susp = N] \in GoodTrees /\ [s EXCEPT !.free = N] \in GoodTrees
<1>1. s \in Trees
    BY DEF GoodTrees
<1> DEFINE a == [s EXCEPT !.susp = N]
           b == [s EXCEPT !.free = N]
<1>2. a \in Trees /\ a.st = s.st
    BY <1>1 DEF Trees
<1>3. b \in Trees /\ b.st = s.st
    BY <1>1 DEF Trees
<1> HIDE DEF a, b
<1>4. a \in GoodTrees /\ b \in GoodTrees
    BY <1>2, <1>3, SameStatesGood
<1> QED BY <1>4 DEF a, b

LEMMA CommandGood ==
    ASSUME GoodState, NEW n \in Nodes, Command(n)
    PROVE  GoodState'
<1>1. tree \in Trees /\ tree \in GoodTrees /\ cmds \in Nat /\ fails \in Nat /\ hist \in Hists
    BY DEF GoodState, GoodTrees
<1>2. /\ Quiet(hist) \in Hists /\ Meddled \in Hists
    BY <1>1, HistsAre
<1>3. tree.susp \in SUBSET Nodes /\ tree.free \in SUBSET Nodes
    BY <1>1 DEF Trees
<1>4. CASE Suspend(n)
    <2>1. tree.susp \cup {n} \in SUBSET Nodes
        BY <1>3
    <2>2. tree' \in GoodTrees
        BY <1>1, <1>4, <2>1, HoldsGood DEF Suspend
    <2> QED BY <1>1, <1>2, <1>4, <2>2, UserCounts DEF Suspend, GoodState
<1>5. CASE Resume(n)
    <2>1. tree.susp \ {n} \in SUBSET Nodes
        BY <1>3
    <2>2. tree' \in GoodTrees
        BY <1>1, <1>5, <2>1, HoldsGood DEF Resume
    <2> QED BY <1>1, <1>2, <1>5, <2>2 DEF Resume, GoodState
<1>6. CASE FreeDep(n)
    <2> DEFINE x == [tree EXCEPT !.free = @ \cup {n}]
    <2>1. tree.free \cup {n} \in SUBSET Nodes
        BY <1>3
    <2>2. x \in GoodTrees
        BY <1>1, <2>1, HoldsGood
    <2>3. User("free-dep") /\ ThenTraverse(x, Quiet(hist))
        BY <1>6 DEF FreeDep
    <2> HIDE DEF x
    <2>4. tree' \in GoodTrees /\ Recorded(Quiet(hist)) /\ fails' \in Nat
        BY <1>1, <1>2, <2>2, <2>3, ThenTraverseGood
    <2> QED BY <1>1, <2>3, <2>4, UserCounts DEF GoodState, Recorded
<1>7. CASE RequeueAborted(n)
    <2> DEFINE x == TellParent(AbortedAnew(tree, n), n)
    <2>1. x \in GoodTrees
        BY <1>1, AbortedAnewGood
    <2>2. User("requeue abort") /\ ThenTraverse(x, Meddled)
        BY <1>7, Zenon DEF RequeueAborted, AbortedAnew
    <2> HIDE DEF x
    <2>3. tree' \in GoodTrees /\ Recorded(Meddled) /\ fails' \in Nat
        BY <1>1, <1>2, <2>1, <2>2, ThenTraverseGood
    <2> QED BY <1>1, <2>2, <2>3, UserCounts DEF GoodState, Recorded
<1>8. ASSUME NEW v \in ForceStates, ForceCmd(n, v) PROVE GoodState'
    <2> DEFINE x == SetState(tree, n, v)
               y == SetStateHierarchically(tree, n, v, TRUE)
               z == RepeatsUsedUp(y, n)
    <2>1. v \in States
        BY NodeAssumption
    <2>2. x \in GoodTrees /\ y \in GoodTrees
        <3>1. x \in GoodTrees
            BY <1>1, <2>1, SetStateGood
        <3>2. y \in GoodTrees
            BY <1>1, <2>1, SetStateHierarchicallyGood, Zenon
        <3> QED BY <3>1, <3>2, Zenon
    <2>3. \E c : User(c) /\ \E s \in {x, y, z} : ThenTraverse(s, Meddled)
        BY <1>8, Zenon DEF ForceCmd
    <2> HIDE DEF x, y
    <2>4. z \in GoodTrees
        BY <2>2, RepeatsUsedUpIs
    <2> HIDE DEF z
    <2>5. PICK c : User(c) /\ \E s \in {x, y, z} : ThenTraverse(s, Meddled)
        BY <2>3, Zenon
    <2>6. PICK s \in {x, y, z} : ThenTraverse(s, Meddled)
        BY <2>5
    <2>7. tree' \in GoodTrees /\ Recorded(Meddled) /\ fails' \in Nat
        BY <1>1, <1>2, <2>2, <2>4, <2>6, ThenTraverseGood
    <2> QED BY <1>1, <2>7, <2>5, UserCounts DEF GoodState, Recorded
<1> QED BY <1>4, <1>5, <1>6, <1>7, <1>8 DEF Command

LEMMA RequeueCmdGood ==
    ASSUME GoodState, NEW paths \in Paths, NEW force \in BOOLEAN, RequeueCmd(paths, force)
    PROVE  GoodState' /\ hist'.meddled
<1>1. tree \in Trees /\ tree \in GoodTrees /\ cmds \in Nat /\ fails \in Nat /\ hist \in Hists
    BY DEF GoodState, GoodTrees
<1>2. paths \in Seq(Nodes)
    BY NodeAssumption
<1> DEFINE w == RequeuePaths(paths, force)
           h == [Meddled EXCEPT !.woken = Woken(paths, w.tree)]
           c == IF force THEN "requeue force" ELSE "requeue"
<1>3. w.tree \in GoodTrees
    BY <1>1, <1>2, RequeuePathsGood
<1>4. Woken(paths, w.tree) \in SUBSET Nodes
    <2>1. tree.susp \in SUBSET Nodes
        BY <1>1 DEF Trees
    <2> HIDE DEF w
    <2> QED BY <2>1 DEF Woken
<1>5. h \in Hists /\ h.meddled = TRUE
    <2>1. Meddled \in Hists /\ Meddled.meddled = TRUE
        BY <1>1, HistsAre
    <2> DEFINE W == Woken(paths, w.tree)
    <2> HIDE DEF W
    <2>2. [Meddled EXCEPT !.woken = W] \in Hists /\ [Meddled EXCEPT !.woken = W].meddled = TRUE
        BY <1>4, <2>1 DEF Hists, W
    <2> QED BY <2>2 DEF W
<1>6. User(c) /\ (ThenTraverse(w.tree, h) \/ (tree' = w.tree /\ hist' = h /\ UNCHANGED fails))
    BY Zenon DEF RequeueCmd
<1> HIDE DEF w, h, c
<1>7. tree' \in GoodTrees /\ Recorded(h) /\ fails' \in Nat
    BY <1>1, <1>3, <1>5, <1>6, ThenTraverseGood DEF Recorded
<1>8. cmds' \in Nat
    BY <1>1, <1>6, UserCounts
<1> QED BY <1>5, <1>7, <1>8 DEF GoodState, Recorded

LEMMA GoodStateInductive == Spec => []GoodState
<1>1. ASSUME Init PROVE GoodState
    <2>1. hist \in Hists
        BY <1>1 DEF Init, Hists
    <2>2. tree \in GoodTrees /\ cmds \in Nat /\ fails \in Nat
        BY <1>1, InitGood DEF Init
    <2> QED BY <2>1, <2>2 DEF GoodState
<1>2. ASSUME GoodState, [Next]_vars PROVE GoodState'
    <2>1. CASE Traverse
        <3>1. Generate(tree, Quiet(hist), Whole) /\ UNCHANGED cmds
            BY <2>1 DEF Traverse
        <3>2. tree' \in GoodTrees /\ Recorded(Quiet(hist)) /\ fails' \in Nat
            BY <1>2, <3>1, GenerateGood, HistsAre DEF GoodState
        <3> QED BY <1>2, <3>1, <3>2 DEF GoodState, Recorded
    <2>2. CASE TraverseBadly
        <3>1. PICK ch \in Mishaps : Generate(tree, Quiet(hist), ch) /\ UNCHANGED cmds
            BY <2>2 DEF TraverseBadly
        <3>2. tree' \in GoodTrees /\ Recorded(Quiet(hist)) /\ fails' \in Nat
            BY <1>2, <3>1, GenerateGood, HistsAre DEF GoodState
        <3> QED BY <1>2, <3>1, <3>2 DEF GoodState, Recorded
    <2>3. ASSUME NEW t \in Tasks, Child(t) PROVE GoodState'
        BY <1>2, <2>3, ChildGood
    <2>4. ASSUME NEW n \in Nodes, Command(n) PROVE GoodState'
        BY <1>2, <2>4, CommandGood
    <2>5. ASSUME NEW paths \in Paths, NEW force \in BOOLEAN, RequeueCmd(paths, force) PROVE GoodState'
        BY <1>2, <2>5, RequeueCmdGood
    <2>6. CASE UNCHANGED vars
        BY <1>2, <2>6 DEF GoodState, vars
    <2> QED BY <1>2, <2>1, <2>2, <2>3, <2>4, <2>5, <2>6 DEF Next
<1> QED BY <1>1, <1>2, PTL DEF Spec

\* The tree, the counters and the history keep their types, whatever tree of
\* nodes is given and whatever a way up, a re-queue, a traversal and a command
\* over several paths do to it.
THEOREM TypeCorrect == Spec => []TypeOK
<1>1. GoodState => TypeOK
    BY DEF GoodState, TypeOK, GoodTrees, Hists
<1> QED BY <1>1, GoodStateInductive, PTL

\* After every command and traversal each family and suite with the default
\* defstatus, or complete, shows the most significant state of its children
\* (set_most_significant_state_up_node_tree and
\* requeueOrSetMostSignificantStateUpNodeTree reach every node they have to).
THEOREM ContainersAlwaysAgree == Spec => []ContainersAgree
<1>1. GoodState => ContainersAgree
    BY DEF GoodState, GoodTrees, ContainersAgree, Agree
<1> QED BY <1>1, GoodStateInductive, PTL

\* A complete expression never completes a node below which a job runs, also
\* when the job was submitted earlier in the traversal (Node::evaluateComplete).
THEOREM RuleAlwaysSparesJobs == Spec => []RuleSparesJobs
<1>1. GoodState => RuleSparesJobs
    BY DEF GoodState, Hists, RuleSparesJobs
<1> QED BY <1>1, GoodStateInductive, PTL

-----------------------------------------------------------------------------
(* Nested loops.  Of the tree only the complete nodes D and the values of    *)
(* the repeats used up count here.  G: how often each node has completed;    *)
(* X: a node that may have to complete, its children have been looked at.    *)

LEMMA Products ==
    /\ \A a, b \in Nat : a * b \in Nat /\ (a + 1) * b = a * b + b /\ a * b = b * a
    /\ \A a \in Nat : 0 * a = 0 /\ 1 * a = a
    /\ \A a, b, r \in Nat : a <= b => a * r <= b * r
<1>1. \A a, b \in Nat : a * b \in Nat
    OBVIOUS
<1>2. \A a, b \in Nat : (a + 1) * b = a * b + b
    OBVIOUS
<1>3. \A a, b \in Nat : a * b = b * a
    OBVIOUS
<1>4. \A a \in Nat : 0 * a = 0 /\ 1 * a = a
    OBVIOUS
<1>5. \A a, b, r \in Nat : a <= b => a * r <= b * r
    OBVIOUS
<1> QED BY <1>1, <1>2, <1>3, <1>4, <1>5

Times(a, b) == a * b

LEMMA TimesIs ==
    /\ \A a, b \in Nat : Times(a, b) \in Nat /\ Times(a + 1, b) = Times(a, b) + b
    /\ \A a \in Nat : Times(0, a) = 0
BY Products DEF Times

\* The iterations of a node's own repeat; those it has done since it was queued.
Rounds(n) == IF Repeat[n] = 0 THEN 1 ELSE Repeat[n]
Own(D, rep, n) == IF n \in D THEN Rounds(n) ELSE rep[n]

\* How often the node can have completed: its iterations in each completion of
\* its parent, and in the one that the parent is at.
Total(D, rep, G, n) ==
    IF n = Suite THEN Own(D, rep, n)
    ELSE Times(G[Parent[n]], Rounds(n)) + (IF Parent[n] \in D THEN 0 ELSE Own(D, rep, n))

Tally(D, rep, G, n) ==
    G[n] <= Total(D, rep, G, n) /\ (~ByRule(n) => G[n] = Total(D, rep, G, n))

\* A family is complete if and only if its children are.
Closed(D, X) == \A n \in Nodes \ X : n \notin Tasks => (n \in D <=> Kids[n] \subseteq D)

\* A repeat of a node that is not complete has a value.
Valid(D, rep) ==
    \A n \in Nodes : rep[n] <= Repeat[n] /\ (n \notin D /\ Repeat[n] > 0 => rep[n] < Repeat[n])

Sound(D, rep, G, X) ==
    /\ D \in SUBSET Nodes /\ rep \in [Nodes -> Nat] /\ G \in [Nodes -> Nat]
    /\ Closed(D, X) /\ Valid(D, rep)
    /\ \A n \in Nodes : Tally(D, rep, G, n)

LEMMA SoundTypes ==
    ASSUME NEW D, NEW rep, NEW G, NEW X, Sound(D, rep, G, X), NEW n \in Nodes
    PROVE  /\ Rounds(n) \in Nat /\ Rounds(n) >= 1 /\ Repeat[n] \in Nat /\ rep[n] \in Nat /\ G[n] \in Nat
           /\ Own(D, rep, n) \in Nat /\ Total(D, rep, G, n) \in Nat
           /\ n # Suite => /\ Parent[n] \in Nodes /\ G[Parent[n]] \in Nat
                           /\ Times(G[Parent[n]], Rounds(n)) \in Nat
           /\ n \notin D => rep[n] + 1 <= Rounds(n)
<1>1. rep \in [Nodes -> Nat] /\ G \in [Nodes -> Nat] /\ Valid(D, rep)
    BY DEF Sound
<1>2. Repeat[n] \in Nat /\ rep[n] \in Nat /\ G[n] \in Nat
    BY <1>1, NodeAssumption
<1>3. Rounds(n) \in Nat /\ Rounds(n) >= 1
    BY <1>2 DEF Rounds
<1>4. Own(D, rep, n) \in Nat
    BY <1>2, <1>3 DEF Own
<1>5. n # Suite => Parent[n] \in Nodes /\ G[Parent[n]] \in Nat
    BY <1>1, TreeType
<1>6. n # Suite => Times(G[Parent[n]], Rounds(n)) \in Nat
    BY <1>3, <1>5, TimesIs
<1>7. Total(D, rep, G, n) \in Nat
    BY <1>4, <1>6 DEF Total
<1>8. rep[n] <= Repeat[n] /\ (n \notin D /\ Repeat[n] > 0 => rep[n] < Repeat[n])
    BY <1>1 DEF Valid
<1>9. n \notin D => rep[n] + 1 <= Rounds(n)
    BY <1>2, <1>8 DEF Rounds
<1> QED BY <1>2, <1>3, <1>4, <1>5, <1>6, <1>7, <1>9

\* A node above one that is not complete is not complete.
LEMMA ParentOpen ==
    ASSUME NEW D, NEW X, Closed(D, X), NEW c \in Nodes \ {Suite}, c \notin D, Parent[c] \notin X
    PROVE  Parent[c] \in Nodes /\ Parent[c] \notin D /\ Parent[c] \notin Tasks /\ Parent[c] # c
<1>1. Parent[c] \in Nodes /\ Parent[c] < c
    BY TreeType
<1>2. c \in Kids[Parent[c]]
    BY <1>1, KidsFacts
<1>3. Parent[c] \notin Tasks
    BY <1>1, <1>2, KidsFacts
<1>4. c \in Nat
    BY TreeType
<1>5. Parent[c] \in Nat
    BY <1>1, TreeType
<1>6. Parent[c] # c
    BY <1>1, <1>4, <1>5
<1> QED BY <1>1, <1>2, <1>3, <1>6 DEF Closed

LEMMA KidAbove ==
    ASSUME NEW c \in Nodes, NEW m \in Above[c] \ {c}
    PROVE  \E k \in Kids[m] : k \in Above[c]
<1>1. Above[c] \subseteq Nodes /\ m <= c
    BY AboveFacts
<1>2. m \in Nodes /\ m \in Nat /\ c \in Nat
    BY <1>1, TreeType
<1>3. m < c
    BY <1>1, <1>2
<1> DEFINE U == {a \in Above[c] : m < a}
<1>4. c \in U /\ U \subseteq Nat
    BY <1>1, <1>3, AboveFacts, TreeType
<1>5. PICK k \in U : \A y \in U : k <= y
    <2> HIDE DEF U
    <2> QED BY <1>4, LeastOf
<1>6. k \in Nodes /\ k \in Nat /\ k \in Above[c] /\ m < k
    BY <1>1, <1>4
<1>7. k # Suite
    <2>1. 1 <= m
        BY <1>2, TreeType
    <2> QED BY <1>2, <1>6, <2>1 DEF Suite
<1>8. Parent[k] \in Above[c] /\ Parent[k] < k /\ Parent[k] \in Nodes
    BY <1>6, <1>7, AboveFacts, TreeType
<1>9. Parent[k] \in Nat
    BY <1>8, TreeType
<1>10. Parent[k] <= m
    <2>1. Parent[k] \notin U
        BY <1>5, <1>6, <1>8, <1>9
    <2> QED BY <1>2, <1>8, <1>9, <2>1
<1>11. m \in Above[k] /\ k # m
    <2>1. Above[k] = {a \in Above[c] : a <= k}
        BY <1>6, AboveFacts
    <2>2. m <= k
        BY <1>2, <1>6
    <2> QED BY <1>2, <1>6, <2>1, <2>2
<1>12. m \in Above[Parent[k]]
    BY <1>6, <1>7, <1>11, AboveIs
<1>13. m <= Parent[k]
    BY <1>8, <1>12, AboveFacts
<1>14. Parent[k] = m
    BY <1>2, <1>9, <1>10, <1>13
<1> QED BY <1>2, <1>6, <1>7, <1>14, KidsFacts

\* Induction up the tree, for the set S of the nodes that have the property.
LEMMA AboveInduction ==
    ASSUME NEW c \in Nodes, NEW S, c \in S,
           \A m \in Above[c] \ {c} : \A k \in Kids[m] \cap Above[c] : k \in S => m \in S
    PROVE  Above[c] \subseteq S
<1> SUFFICES ASSUME NEW b \in Above[c], b \notin S PROVE FALSE
    OBVIOUS
<1> DEFINE T == {i \in Nat : i <= c /\ c - i \in Above[c] /\ c - i \notin S}
<1>1. Above[c] \subseteq Nodes /\ b <= c
    BY AboveFacts
<1>2. b \in Nat /\ c \in Nat
    BY <1>1, TreeType
<1>3. c - b \in T
    <2>1. c - b \in Nat /\ c - b <= c /\ c - (c - b) = b
        BY <1>1, <1>2
    <2> QED BY <2>1
<1>4. PICK x \in T : \A y \in T : x <= y
    <2>1. T \subseteq Nat /\ T # {}
        BY <1>3
    <2> HIDE DEF T
    <2> QED BY <2>1, LeastOf
<1>5. x \in Nat /\ x <= c /\ c - x \in Above[c] /\ c - x \notin S
    OBVIOUS
<1> DEFINE m == c - x
<1>6. m \in Nodes /\ m # c /\ m \in Nat /\ m <= c /\ m \in Above[c]
    BY <1>1, <1>2, <1>5, TreeType
<1>7. PICK k \in Kids[m] : k \in Above[c]
    BY <1>6, KidAbove
<1>8. k \in Nodes /\ m < k /\ k <= c /\ k \in Nat
    BY <1>1, <1>6, <1>7, KidsLater, AboveFacts, TreeType
<1>9. k \notin S
    BY <1>5, <1>6, <1>7
<1>10. c - k \in Nat /\ c - k < x /\ c - k <= c /\ c - (c - k) = k
    BY <1>2, <1>5, <1>8
<1>11. c - k \in T
    BY <1>7, <1>9, <1>10
<1> QED BY <1>4, <1>5, <1>10, <1>11

LEMMA AboveOpen ==
    ASSUME NEW D, NEW c \in Nodes, Closed(D, {c}), c \notin D
    PROVE  \A a \in Above[c] : a \notin D
<1> DEFINE S == {m \in Nodes : m \notin D}
<1>1. ASSUME NEW m \in Above[c] \ {c}, NEW k \in Kids[m] \cap Above[c], k \in S PROVE m \in S
    <2>1. m \in Nodes
        BY AboveFacts
    <2>2. m \notin Tasks
        BY <2>1, KidsFacts
    <2> QED BY <1>1, <2>1, <2>2 DEF Closed
<1>2. c \in S
    OBVIOUS
<1>3. Above[c] \subseteq S
    <2> HIDE DEF S
    <2> QED BY <1>1, <1>2, AboveInduction
<1> QED BY <1>3

LEMMA TallySame ==
    ASSUME NEW D, NEW rep, NEW G, NEW E, NEW rep2, NEW H, NEW n \in Nodes, Tally(D, rep, G, n),
           H[n] = G[n], Own(E, rep2, n) = Own(D, rep, n),
           n # Suite => H[Parent[n]] = G[Parent[n]] /\ (Parent[n] \in E <=> Parent[n] \in D)
    PROVE  Tally(E, rep2, H, n)
<1>1. Total(E, rep2, H, n) = Total(D, rep, G, n)
    BY DEF Total
<1> QED BY <1>1 DEF Tally

\* One more completion of a node in an open iteration of its parent.
LEMMA TallyOneMore ==
    ASSUME NEW D, NEW rep, NEW G, NEW X, Sound(D, rep, G, X),
           NEW E, NEW rep2, NEW H, NEW n \in Nodes,
           H[n] = G[n] + 1, Own(E, rep2, n) = Own(D, rep, n) + 1,
           n # Suite => H[Parent[n]] = G[Parent[n]] /\ Parent[n] \notin D /\ Parent[n] \notin E
    PROVE  Tally(E, rep2, H, n)
<1>1. /\ Own(D, rep, n) \in Nat /\ Total(D, rep, G, n) \in Nat /\ G[n] \in Nat
      /\ n # Suite => Times(G[Parent[n]], Rounds(n)) \in Nat
    BY SoundTypes
<1>2. Total(E, rep2, H, n) = Total(D, rep, G, n) + 1
    <2>1. CASE n = Suite
        BY <2>1 DEF Total
    <2>2. CASE n # Suite
        BY <1>1, <2>2 DEF Total
    <2> QED BY <2>1, <2>2
<1>3. Tally(D, rep, G, n)
    BY DEF Sound
<1> QED BY <1>1, <1>2, <1>3 DEF Tally

\* The children of a node that completes, with all their iterations.
LEMMA TallyParentDone ==
    ASSUME NEW D, NEW rep, NEW G, NEW X, Sound(D, rep, G, X),
           NEW E, NEW rep2, NEW H, NEW n \in Nodes \ {Suite},
           H[n] = G[n], n \in D, Parent[n] \notin D, H[Parent[n]] = G[Parent[n]] + 1,
           Parent[n] \in E \/ Own(E, rep2, n) = 0
    PROVE  Tally(E, rep2, H, n)
<1>1. /\ Own(D, rep, n) \in Nat /\ Total(D, rep, G, n) \in Nat /\ G[n] \in Nat /\ Rounds(n) \in Nat
      /\ G[Parent[n]] \in Nat /\ Times(G[Parent[n]], Rounds(n)) \in Nat
    BY SoundTypes
<1>2. Total(D, rep, G, n) = Times(G[Parent[n]], Rounds(n)) + Rounds(n)
    BY DEF Total, Own
<1>3. Times(H[Parent[n]], Rounds(n)) = Times(G[Parent[n]], Rounds(n)) + Rounds(n)
    BY <1>1, TimesIs
<1>4. Total(E, rep2, H, n) = Times(H[Parent[n]], Rounds(n)) + 0
    BY DEF Total
<1>5. Total(E, rep2, H, n) = Total(D, rep, G, n)
    BY <1>1, <1>2, <1>3, <1>4
<1>6. Tally(D, rep, G, n)
    BY DEF Sound
<1> QED BY <1>5, <1>6 DEF Tally

\* The values of the repeats after the node c has completed.
Advanced(rep2, rep, c) ==
    /\ rep2 \in [Nodes -> Nat]
    /\ \A m \in Nodes : rep2[m] = IF m = c /\ rep[c] < Repeat[c] THEN rep[c] + 1 ELSE rep[m]

\* The node c completes and has no further iteration; its parent is next.
LEMMA EndIsSound ==
    ASSUME NEW D, NEW rep, NEW G, NEW c \in Nodes, Sound(D, rep, G, {c}), c \notin D, Kids[c] \subseteq D,
           NEW rep2, Advanced(rep2, rep, c), ~(rep2[c] < Repeat[c]),
           NEW X, c # Suite => Parent[c] \in X
    PROVE  Sound(D \cup {c}, rep2, [G EXCEPT ![c] = @ + 1], X)
<1> DEFINE H == [G EXCEPT ![c] = @ + 1]
           E == D \cup {c}
<1>1. /\ D \in SUBSET Nodes /\ rep \in [Nodes -> Nat] /\ G \in [Nodes -> Nat]
      /\ Closed(D, {c}) /\ Valid(D, rep) /\ \A n \in Nodes : Tally(D, rep, G, n)
    BY DEF Sound
<1>2. /\ Rounds(c) \in Nat /\ Repeat[c] \in Nat /\ rep[c] \in Nat /\ G[c] \in Nat
      /\ rep[c] + 1 <= Rounds(c)
    BY SoundTypes
<1>3. H \in [Nodes -> Nat] /\ H[c] = G[c] + 1 /\ \A m \in Nodes \ {c} : H[m] = G[m]
    BY <1>1, <1>2
<1>4. rep2[c] = IF rep[c] < Repeat[c] THEN rep[c] + 1 ELSE rep[c]
    BY DEF Advanced
<1>5. Rounds(c) = rep[c] + 1 /\ rep2[c] = Repeat[c]
    <2>1. rep[c] <= Repeat[c] /\ (Repeat[c] > 0 => rep[c] < Repeat[c])
        BY <1>1 DEF Valid
    <2> QED BY <1>2, <1>4, <2>1 DEF Rounds
<1>6. c # Suite => Parent[c] \in Nodes /\ Parent[c] \notin D /\ Parent[c] # c
    <2>1. c # Suite => Parent[c] \notin {c}
        <3>1. c # Suite => Parent[c] < c /\ Parent[c] \in Nodes
            BY TreeType
        <3>2. c # Suite => Parent[c] \in Nat /\ c \in Nat
            BY <3>1, TreeType
        <3> QED BY <3>1, <3>2
    <2> QED BY <1>1, <2>1, ParentOpen
<1> HIDE DEF H
<1>7. Closed(E, X)
    <2> SUFFICES ASSUME NEW n \in Nodes \ X, n \notin Tasks PROVE n \in E <=> Kids[n] \subseteq E
        BY DEF Closed
    <2>1. CASE n = c
        BY <2>1
    <2>2. CASE n # c
        <3>1. c \notin Kids[n]
            BY KidsFacts
        <3>2. n \in D <=> Kids[n] \subseteq D
            BY <1>1, <2>2 DEF Closed
        <3> QED BY <2>2, <3>1, <3>2
    <2> QED BY <2>1, <2>2
<1>8. Valid(E, rep2)
    <2> SUFFICES ASSUME NEW n \in Nodes
                 PROVE  rep2[n] <= Repeat[n] /\ (n \notin E /\ Repeat[n] > 0 => rep2[n] < Repeat[n])
        BY DEF Valid
    <2>1. CASE n = c
        BY <1>2, <1>5, <2>1
    <2>2. CASE n # c
        BY <1>1, <2>2 DEF Valid, Advanced
    <2> QED BY <2>1, <2>2
<1>9. ASSUME NEW n \in Nodes PROVE Tally(E, rep2, H, n)
    <2>1. CASE n = c
        <3>1. Own(E, rep2, c) = Own(D, rep, c) + 1
            BY <1>5 DEF Own
        <3>2. c # Suite => H[Parent[c]] = G[Parent[c]] /\ Parent[c] \notin D /\ Parent[c] \notin E
            BY <1>3, <1>6
        <3> QED BY <1>3, <2>1, <3>1, <3>2, TallyOneMore
    <2>2. CASE n # c /\ n # Suite /\ Parent[n] = c
        <3>1. n \in D
            BY <2>2, KidsFacts
        <3>2. H[n] = G[n] /\ H[Parent[n]] = G[Parent[n]] + 1 /\ Parent[n] \in E /\ Parent[n] \notin D
            BY <1>3, <2>2
        <3> HIDE DEF E
        <3> QED BY <2>2, <3>1, <3>2, TallyParentDone
    <2>3. CASE n # c /\ (n # Suite => Parent[n] # c)
        <3>1. rep2[n] = rep[n]
            BY <2>3 DEF Advanced
        <3>2. Own(E, rep2, n) = Own(D, rep, n)
            BY <2>3, <3>1 DEF Own
        <3>3. n # Suite => Parent[n] \in Nodes
            BY TreeType
        <3>4. n # Suite => H[Parent[n]] = G[Parent[n]] /\ (Parent[n] \in E <=> Parent[n] \in D)
            BY <1>3, <2>3, <3>3
        <3>5. H[n] = G[n]
            BY <1>3, <2>3
        <3> QED BY <1>1, <3>2, <3>4, <3>5, TallySame
    <2> QED BY <2>1, <2>2, <2>3
<1>10. E \in SUBSET Nodes /\ rep2 \in [Nodes -> Nat]
    BY <1>1 DEF Advanced
<1>11. Sound(E, rep2, H, X)
    BY <1>3, <1>7, <1>8, <1>9, <1>10 DEF Sound
<1> QED BY <1>11 DEF H

\* If the children of c are complete, then all nodes below it are.
LEMMA BelowDone ==
    ASSUME NEW D, NEW c \in Nodes, Closed(D, {c}), Kids[c] \subseteq D
    PROVE  \A m \in Below[c] \ {c} : m \in D
<1> DEFINE S == {m \in Nodes : m \in Below[c] \ {c} => m \in D}
<1>1. ASSUME NEW n \in Nodes, n # Suite => Parent[n] \in S PROVE n \in S
    <2> SUFFICES ASSUME n \in Below[c] \ {c} PROVE n \in D
        OBVIOUS
    <2>1. n # Suite /\ Parent[n] \in Below[c]
        BY BelowFacts
    <2>2. Parent[n] \in Nodes /\ n \in Kids[Parent[n]]
        BY <2>1, TreeType, KidsFacts
    <2>3. CASE Parent[n] = c
        BY <2>2, <2>3
    <2>4. CASE Parent[n] # c
        <3>1. Parent[n] \in D
            BY <1>1, <2>1, <2>2, <2>4
        <3>2. Parent[n] \notin Tasks
            BY <2>2, KidsFacts
        <3> QED BY <2>2, <2>4, <3>1, <3>2 DEF Closed
    <2> QED BY <2>3, <2>4
<1>2. \A n \in Nodes : n \in S
    <2> HIDE DEF S
    <2> QED BY <1>1, TreeInduction
<1> QED BY <1>2, BelowFacts

\* The node c completes and is re-queued, with the nodes below it, for the next
\* value of its repeat.
LEMMA RestartIsSound ==
    ASSUME NEW D, NEW rep, NEW G, NEW c \in Nodes, Sound(D, rep, G, {c}), c \notin D, Kids[c] \subseteq D,
           NEW rep2, rep2 \in [Nodes -> Nat], rep2[c] = rep[c] + 1, rep2[c] < Repeat[c],
           \A m \in Below[c] \ {c} : rep2[m] = 0, \A m \in Nodes \ Below[c] : rep2[m] = rep[m]
    PROVE  Sound(D \ Below[c], rep2, [G EXCEPT ![c] = @ + 1], {})
<1> DEFINE H == [G EXCEPT ![c] = @ + 1]
           E == D \ Below[c]
<1>1. /\ D \in SUBSET Nodes /\ rep \in [Nodes -> Nat] /\ G \in [Nodes -> Nat]
      /\ Closed(D, {c}) /\ Valid(D, rep) /\ \A n \in Nodes : Tally(D, rep, G, n)
    BY DEF Sound
<1>2. G[c] \in Nat
    BY SoundTypes
<1>3. H \in [Nodes -> Nat] /\ H[c] = G[c] + 1 /\ \A m \in Nodes \ {c} : H[m] = G[m]
    BY <1>1, <1>2
<1>4. c \in Below[c] /\ Below[c] \subseteq Nodes
    BY BelowFacts
<1>5. c # Suite => Parent[c] \in Nodes /\ Parent[c] \notin D /\ Parent[c] # c
    <2>1. c # Suite => Parent[c] \notin {c}
        <3>1. c # Suite => Parent[c] < c /\ Parent[c] \in Nodes
            BY TreeType
        <3>2. c # Suite => Parent[c] \in Nat /\ c \in Nat
            BY <3>1, TreeType
        <3> QED BY <3>1, <3>2
    <2> QED BY <1>1, <2>1, ParentOpen
<1>6. \A m \in Below[c] \ {c} : m \in D /\ m # Suite /\ Parent[m] \in Below[c] /\ Parent[m] \in Nodes
    BY <1>1, <1>4, BelowDone, BelowFacts
<1>7. ASSUME NEW m \in Nodes \ Below[c], m # Suite PROVE Parent[m] \in Nodes \ Below[c]
    <2>1. Parent[m] \in Nodes
        BY <1>7, TreeType
    <2> QED BY <1>7, <2>1, BelowFacts
<1> HIDE DEF H
<1>8. Closed(E, {})
    <2> SUFFICES ASSUME NEW n \in Nodes, n \notin Tasks PROVE n \in E <=> Kids[n] \subseteq E
        BY DEF Closed
    <2>1. CASE n \in Below[c]
        <3>1. PICK k : k \in Kids[n]
            BY KidsFacts
        <3>2. k \in Below[c]
            BY <2>1, <3>1, KidsBelow
        <3> QED BY <2>1, <3>1, <3>2
    <2>2. CASE n \notin Below[c] /\ c \in Kids[n]
        <3>1. c # Suite /\ Parent[c] = n
            BY <2>2, KidsLater
        <3> QED BY <1>4, <1>5, <2>2, <3>1
    <2>3. CASE n \notin Below[c] /\ c \notin Kids[n]
        <3>1. ASSUME NEW k \in Kids[n] PROVE k \notin Below[c]
            <4>1. k \in Nodes /\ Parent[k] = n
                BY KidsLater
            <4> QED BY <1>6, <2>3, <4>1
        <3>2. n \in D <=> Kids[n] \subseteq D
            BY <1>1, <1>4, <2>3 DEF Closed
        <3> QED BY <2>3, <3>1, <3>2
    <2> QED BY <2>1, <2>2, <2>3
<1>9. Valid(E, rep2)
    <2> SUFFICES ASSUME NEW n \in Nodes
                 PROVE  rep2[n] <= Repeat[n] /\ (n \notin E /\ Repeat[n] > 0 => rep2[n] < Repeat[n])
        BY DEF Valid
    <2>0. Repeat[n] \in Nat /\ rep2[n] \in Nat
        BY NodeAssumption
    <2>1. CASE n = c
        BY <2>0, <2>1
    <2>2. CASE n \in Below[c] \ {c}
        <3>1. rep2[n] = 0
            BY <2>2
        <3> QED BY <2>0, <3>1
    <2>3. CASE n \notin Below[c]
        BY <1>1, <2>3 DEF Valid
    <2> QED BY <2>1, <2>2, <2>3
<1>10. ASSUME NEW n \in Nodes PROVE Tally(E, rep2, H, n)
    <2>1. CASE n = c
        <3>1. Own(E, rep2, c) = Own(D, rep, c) + 1
            BY <1>4 DEF Own
        <3>2. c # Suite => H[Parent[c]] = G[Parent[c]] /\ Parent[c] \notin D /\ Parent[c] \notin E
            BY <1>3, <1>5
        <3> HIDE DEF E
        <3> QED BY <1>3, <2>1, <3>1, <3>2, TallyOneMore
    <2>2. CASE n \in Below[c] \ {c} /\ Parent[n] = c
        <3>1. Own(E, rep2, n) = 0
            BY <2>2 DEF Own
        <3>2. H[n] = G[n] /\ H[Parent[n]] = G[Parent[n]] + 1 /\ n \in D /\ n # Suite /\ Parent[n] \notin D
            BY <1>3, <1>6, <2>2
        <3> HIDE DEF E
        <3> QED BY <3>1, <3>2, TallyParentDone
    <2>3. CASE n \in Below[c] \ {c} /\ Parent[n] # c
        <3>1. n # Suite /\ Parent[n] \in Below[c] /\ Parent[n] \in D /\ Parent[n] \in Nodes
            BY <1>4, <1>6, <2>3
        <3>2. Own(E, rep2, n) = 0 /\ Parent[n] \notin E
            BY <2>3, <3>1 DEF Own
        <3>3. Total(E, rep2, H, n) = Times(H[Parent[n]], Rounds(n)) + 0
            BY <3>1, <3>2 DEF Total
        <3>4. Total(D, rep, G, n) = Times(G[Parent[n]], Rounds(n)) + 0
            BY <3>1 DEF Total
        <3>5. H[n] = G[n] /\ H[Parent[n]] = G[Parent[n]]
            BY <1>3, <2>3, <3>1
        <3>6. Total(E, rep2, H, n) = Total(D, rep, G, n)
            BY <3>3, <3>4, <3>5
        <3>7. Tally(D, rep, G, n)
            BY <1>1
        <3> QED BY <3>5, <3>6, <3>7 DEF Tally
    <2>4. CASE n \notin Below[c]
        <3>1. rep2[n] = rep[n] /\ n # c
            BY <1>4, <2>4
        <3>2. Own(E, rep2, n) = Own(D, rep, n)
            BY <2>4, <3>1 DEF Own
        <3>3. n # Suite => H[Parent[n]] = G[Parent[n]] /\ (Parent[n] \in E <=> Parent[n] \in D)
            BY <1>3, <1>4, <1>7, <2>4
        <3>4. H[n] = G[n]
            BY <1>3, <3>1
        <3> QED BY <1>1, <3>2, <3>3, <3>4, TallySame
    <2> QED BY <1>4, <2>1, <2>2, <2>3, <2>4
<1>11. E \in SUBSET Nodes
    BY <1>1
<1>12. Sound(E, rep2, H, {})
    BY <1>3, <1>8, <1>9, <1>10, <1>11 DEF Sound
<1> QED BY <1>12 DEF H

\* The complete expression of n holds: the nodes below it are set to complete,
\* and those that were not count one completion more; n itself is next.
RuleCounts(D, G, n) == [m \in Nodes |-> IF m \in Below[n] \ {n} /\ m \notin D THEN G[m] + 1 ELSE G[m]]

LEMMA RuleIsSound ==
    ASSUME NEW D, NEW rep, NEW G, NEW n \in Nodes, Sound(D, rep, G, {}), n \notin D, Complete[n] # {}
    PROVE  Sound(D \cup (Below[n] \ {n}), rep, RuleCounts(D, G, n), {n})
<1> DEFINE H == RuleCounts(D, G, n)
           E == D \cup (Below[n] \ {n})
<1>1. /\ D \in SUBSET Nodes /\ rep \in [Nodes -> Nat] /\ G \in [Nodes -> Nat]
      /\ Closed(D, {}) /\ Valid(D, rep) /\ \A m \in Nodes : Tally(D, rep, G, m)
    BY DEF Sound
<1>2. H \in [Nodes -> Nat] /\ \A m \in Nodes : H[m] = IF m \in Below[n] \ {n} /\ m \notin D THEN G[m] + 1 ELSE G[m]
    BY <1>1 DEF RuleCounts
<1>3. n \in Below[n] /\ Below[n] \subseteq Nodes
    BY BelowFacts
<1>4. \A m \in Below[n] \ {n} : m # Suite /\ Parent[m] \in Below[n] /\ Parent[m] \in Nodes
    BY <1>3, BelowFacts
<1>5. ASSUME NEW m \in Nodes \ Below[n], m # Suite PROVE Parent[m] \in Nodes \ Below[n]
    <2>1. Parent[m] \in Nodes
        BY <1>5, TreeType
    <2> QED BY <1>5, <2>1, BelowFacts
<1>6. \A m \in Below[n] : ByRule(m)
    BY BelowFacts DEF ByRule
<1> HIDE DEF H
<1>7. Closed(E, {n})
    <2> SUFFICES ASSUME NEW m \in Nodes \ {n}, m \notin Tasks PROVE m \in E <=> Kids[m] \subseteq E
        BY DEF Closed
    <2>1. CASE m \in Below[n]
        <3>1. \A k \in Kids[m] : k \in Below[n] \ {n}
            BY <2>1, KidsBelow
        <3> QED BY <2>1, <3>1
    <2>2. CASE m \notin Below[n]
        <3>1. ASSUME NEW k \in Kids[m] PROVE k \notin Below[n] \ {n}
            <4>1. k \in Nodes /\ Parent[k] = m
                BY KidsLater
            <4> QED BY <1>4, <2>2, <4>1
        <3>2. m \in D <=> Kids[m] \subseteq D
            BY <1>1 DEF Closed
        <3> QED BY <2>2, <3>1, <3>2
    <2> QED BY <2>1, <2>2
<1>8. Valid(E, rep)
    BY <1>1 DEF Valid
<1>9. ASSUME NEW m \in Nodes PROVE Tally(E, rep, H, m)
    <2>1. CASE m \notin Below[n] \/ m = n
        <3>1. H[m] = G[m] /\ (m \in E <=> m \in D)
            BY <1>2, <2>1
        <3>2. Own(E, rep, m) = Own(D, rep, m)
            BY <3>1 DEF Own
        <3>3. m # Suite => Parent[m] \in Nodes /\ Parent[m] \notin Below[n] \ {n}
            <4>1. CASE m = n
                <5>1. m # Suite => Parent[m] \in Nodes /\ Parent[m] \in Above[n]
                    BY <4>1, TreeType, AboveFacts
                <5> QED BY <4>1, <5>1, BelowFacts
            <4>2. CASE m # n
                BY <1>5, <2>1, <4>2
            <4> QED BY <4>1, <4>2
        <3>4. m # Suite => H[Parent[m]] = G[Parent[m]] /\ (Parent[m] \in E <=> Parent[m] \in D)
            BY <1>2, <3>3
        <3> HIDE DEF E
        <3> QED BY <1>1, <3>1, <3>2, <3>4, TallySame
    <2>2. CASE m \in Below[n] \ {n}
        <3> DEFINE p == Parent[m]
        <3>1. m # Suite /\ p \in Below[n] /\ p \in Nodes /\ m \in E /\ m \in Kids[p] /\ p \notin Tasks
            BY <1>4, <2>2, KidsFacts
        <3>2. /\ Rounds(m) \in Nat /\ Rounds(m) >= 1 /\ rep[m] \in Nat /\ G[m] \in Nat
              /\ G[p] \in Nat /\ Times(G[p], Rounds(m)) \in Nat /\ (m \notin D => rep[m] + 1 <= Rounds(m))
            BY <3>1, SoundTypes
        <3>3. G[m] <= Total(D, rep, G, m)
            BY <1>1 DEF Tally
        <3>4. p \in D => m \in D
            BY <1>1, <3>1 DEF Closed
        <3>5. Times(G[p] + 1, Rounds(m)) = Times(G[p], Rounds(m)) + Rounds(m)
            BY <3>2, TimesIs
        <3>6. Total(D, rep, G, m) = Times(G[p], Rounds(m)) + (IF p \in D THEN 0 ELSE Own(D, rep, m))
            BY <3>1 DEF Total
        <3>7. Total(E, rep, H, m) = Times(H[p], Rounds(m)) + (IF p \in E THEN 0 ELSE Own(E, rep, m))
            BY <3>1 DEF Total
        <3>8. Own(E, rep, m) = Rounds(m) /\ Own(D, rep, m) = IF m \in D THEN Rounds(m) ELSE rep[m]
            BY <3>1 DEF Own
        <3>9. H[m] = IF m \notin D THEN G[m] + 1 ELSE G[m]
            BY <1>2, <2>2
        <3>10. H[m] <= Total(E, rep, H, m)
            <4>1. CASE p = n
                <5>1. p \notin D /\ p \notin E /\ H[p] = G[p]
                    BY <1>2, <4>1
                <5> HIDE DEF p, E
                <5> QED BY <3>2, <3>3, <3>6, <3>7, <3>8, <3>9, <5>1
            <4>2. CASE p # n /\ p \notin D
                <5>1. p \in E /\ H[p] = G[p] + 1
                    BY <1>2, <3>1, <4>2
                <5> HIDE DEF p, E
                <5> QED BY <3>2, <3>3, <3>5, <3>6, <3>7, <3>8, <3>9, <4>2, <5>1
            <4>3. CASE p # n /\ p \in D
                <5>1. p \in E /\ H[p] = G[p] /\ m \in D
                    BY <1>2, <3>1, <3>4, <4>3
                <5> HIDE DEF p, E
                <5> QED BY <3>2, <3>3, <3>6, <3>7, <3>9, <4>3, <5>1
            <4> QED BY <4>1, <4>2, <4>3
        <3>11. ByRule(m)
            BY <1>6, <2>2
        <3> QED BY <3>10, <3>11 DEF Tally
    <2> QED BY <2>1, <2>2
<1>10. E \in SUBSET Nodes
    BY <1>1, <1>3
<1>11. Sound(E, rep, H, {n})
    BY <1>1, <1>2, <1>7, <1>8, <1>9, <1>10 DEF Sound
<1> QED BY <1>11 DEF H

\* Before anything has run.
LEMMA StartIsSound ==
    ASSUME NEW rep, rep = [n \in Nodes |-> 0]
    PROVE  Sound({}, rep, [n \in Nodes |-> 0], {})
<1> DEFINE G == [n \in Nodes |-> 0]
<1>1. G \in [Nodes -> Nat] /\ rep \in [Nodes -> Nat] /\ \A n \in Nodes : G[n] = 0 /\ rep[n] = 0
    OBVIOUS
<1> HIDE DEF G
<1>2. Closed({}, {})
    BY KidsFacts DEF Closed
<1>3. \A n \in Nodes : Repeat[n] \in Nat
    BY NodeAssumption
<1>4. Valid({}, rep)
    BY <1>1, <1>3 DEF Valid
<1>5. ASSUME NEW n \in Nodes PROVE Tally({}, rep, G, n)
    <2>1. Own({}, rep, n) = 0
        BY <1>1 DEF Own
    <2>2. Rounds(n) \in Nat
        BY <1>3 DEF Rounds
    <2>3. n # Suite => G[Parent[n]] = 0
        BY <1>1, TreeType
    <2>4. n # Suite => Times(G[Parent[n]], Rounds(n)) = 0
        BY <2>2, <2>3, TimesIs
    <2>5. Total({}, rep, G, n) = 0
        BY <2>1, <2>4 DEF Total
    <2> QED BY <1>1, <2>5 DEF Tally
<1>6. Sound({}, rep, G, {})
    BY <1>1, <1>2, <1>4, <1>5 DEF Sound
<1> QED BY <1>6 DEF G

LEMMA IterationsIs ==
    /\ Iterations \in [Nodes -> Nat]
    /\ \A n \in Nodes : Iterations[n] = Rounds(n) * (IF n = Suite THEN 1 ELSE Iterations[Parent[n]])
<1>1. \A n \in Nodes : Rounds(n) \in Nat
    BY NodeAssumption DEF Rounds
<1> DEFINE F == [p \in Nodes \X Nat |-> Rounds(p[1]) * p[2]]
<1>2. \A n \in Nodes, v \in Nat : F[<<n, v>>] = Rounds(n) * v
    OBVIOUS
<1>3. F \in [Nodes \X Nat -> Nat]
    <2>1. \A n \in Nodes, v \in Nat : Rounds(n) * v \in Nat
        BY <1>1, Products
    <2> QED BY <2>1
<1> HIDE DEF F
<1>4. PICK f : FromParent(F, Nat, 1, f)
    BY <1>3, TreeRecursion
<1>5. f \in [Nodes -> Nat]
    BY <1>4 DEF FromParent
<1>6. ASSUME NEW n \in Nodes PROVE f[n] = Rounds(n) * (IF n = Suite THEN 1 ELSE f[Parent[n]])
    <2>1. n # Suite => f[Parent[n]] \in Nat
        BY <1>5, TreeType
    <2>2. f[n] = F[<<n, IF n = Suite THEN 1 ELSE f[Parent[n]]>>]
        BY <1>4 DEF FromParent
    <2> QED BY <2>1, <2>2, <1>2
<1>7. f = [n \in Nodes |-> Rounds(n) * (IF n = Suite THEN 1 ELSE f[Parent[n]])]
    BY <1>5, <1>6
<1>8. Iterations = [n \in Nodes |-> Rounds(n) * (IF n = Suite THEN 1 ELSE Iterations[Parent[n]])]
    BY <1>7, Zenon DEF Iterations, Rounds
<1>9. \A n \in Nodes : Iterations[n] = Rounds(n) * (IF n = Suite THEN 1 ELSE Iterations[Parent[n]])
    BY <1>8
<1> DEFINE S == {n \in Nodes : Iterations[n] \in Nat}
<1>10. \A n \in Nodes : n \in S
    <2>1. ASSUME NEW n \in Nodes, n # Suite => Parent[n] \in S PROVE n \in S
        <3> DEFINE v == IF n = Suite THEN 1 ELSE Iterations[Parent[n]]
        <3>1. v \in Nat
            BY <2>1
        <3>2. Iterations[n] = Rounds(n) * v
            BY <1>9
        <3> HIDE DEF v
        <3> QED BY <1>1, <3>1, <3>2, Products
    <2> HIDE DEF S
    <2> QED BY <2>1, TreeInduction
<1> QED BY <1>8, <1>9, <1>10

\* When the suite is complete every node has done all its iterations.
LEMMA AllIterations ==
    ASSUME NEW D, NEW rep, NEW G, Sound(D, rep, G, {}), Suite \in D
    PROVE  \A n \in Nodes : G[n] <= Iterations[n] /\ (~ByRule(n) => G[n] = Iterations[n])
<1>1. Closed(D, {}) /\ Closed(D, {Suite}) /\ G \in [Nodes -> Nat] /\ \A n \in Nodes : Tally(D, rep, G, n)
    BY DEF Sound, Closed
<1>2. Suite \in Nodes /\ Below[Suite] = Nodes
    BY TreeType, BelowFacts
<1>3. Kids[Suite] \subseteq D
    <2>1. CASE Suite \in Tasks
        BY <1>2, <2>1, KidsFacts
    <2>2. CASE Suite \notin Tasks
        BY <1>1, <1>2, <2>2 DEF Closed
    <2> QED BY <2>1, <2>2
<1>4. \A n \in Nodes : n \in D
    BY <1>1, <1>2, <1>3, BelowDone
<1> DEFINE S == {n \in Nodes : G[n] <= Iterations[n] /\ (~ByRule(n) => G[n] = Iterations[n])}
<1>5. ASSUME NEW n \in Nodes, n # Suite => Parent[n] \in S PROVE n \in S
    <2>1. /\ Rounds(n) \in Nat /\ G[n] \in Nat
          /\ n # Suite => Parent[n] \in Nodes /\ G[Parent[n]] \in Nat
        BY SoundTypes
    <2>2. Tally(D, rep, G, n) /\ n \in D
        BY <1>1, <1>4
    <2>3. CASE n = Suite
        <3>1. Total(D, rep, G, n) = Rounds(n)
            BY <2>2, <2>3 DEF Total, Own
        <3>2. Iterations[n] = Rounds(n) * 1
            BY <2>3, IterationsIs
        <3>3. Rounds(n) * 1 = Rounds(n)
            BY <2>1
        <3> QED BY <2>2, <3>1, <3>2, <3>3 DEF Tally
    <2>4. CASE n # Suite
        <3> DEFINE p == Parent[n]
        <3>1. p \in Nodes /\ p \in D /\ G[p] \in Nat /\ Iterations[p] \in Nat /\ Iterations[n] = Rounds(n) * Iterations[p]
            BY <1>4, <2>1, <2>4, IterationsIs
        <3>2. G[p] <= Iterations[p] /\ (~ByRule(p) => G[p] = Iterations[p])
            BY <1>5, <2>4
        <3>3. Total(D, rep, G, n) = G[p] * Rounds(n) + 0
            BY <2>4, <3>1 DEF Total, Times
        <3>4. G[p] * Rounds(n) \in Nat /\ Iterations[p] * Rounds(n) = Iterations[n] /\ Iterations[n] \in Nat
            BY <2>1, <3>1, Products, IterationsIs
        <3>5. G[p] * Rounds(n) <= Iterations[p] * Rounds(n)
            BY <2>1, <3>1, <3>2, Products
        <3>6. ByRule(p) => ByRule(n)
            BY <2>4, AboveIs DEF ByRule
        <3>7. G[n] <= G[p] * Rounds(n) /\ (~ByRule(n) => G[n] = G[p] * Rounds(n))
            BY <2>2, <3>3, <3>4 DEF Tally
        <3> HIDE DEF p
        <3>8. G[n] <= Iterations[n]
            <4> DEFINE a == G[p] * Rounds(n)
            <4>1. a \in Nat /\ G[n] <= a /\ a <= Iterations[n]
                BY <3>4, <3>5, <3>7
            <4> HIDE DEF a
            <4> QED BY <2>1, <3>4, <4>1
        <3>9. ~ByRule(n) => G[n] = Iterations[n]
            BY <3>2, <3>4, <3>6, <3>7
        <3> QED BY <3>8, <3>9
    <2> QED BY <2>3, <2>4
<1>6. \A n \in Nodes : n \in S
    <2> HIDE DEF S
    <2> QED BY <1>5, TreeInduction
<1> QED BY <1>6

-----------------------------------------------------------------------------
(* The way up the tree keeps the count *)

Done(s) == {m \in Nodes : s.st[m] = "COMPLETE"}
Known(s) == \A m \in Nodes : s.st[m] # "UNKNOWN"

\* A task keeps its state and its job, or has no job any more.
TasksKept(r, s) == \A t \in Tasks : (r.st[t] = s.st[t] /\ r.job[t] = s.job[t]) \/ r.job[t] = "none"

LEMMA StepKeepsTasks ==
    ASSUME NEW w \in Ways, NEW r, NEW c \in Nodes, Stepped(r, w, c)
    PROVE  TasksKept(r.tree, w.tree)
<1>1. ASSUME NEW t \in Tasks
      PROVE  (r.tree.st[t] = w.tree.st[t] /\ r.tree.job[t] = w.tree.job[t]) \/ r.tree.job[t] = "none"
    <2>0. t \in Nodes
        BY KidsFacts
    <2>1. CASE w.ended
        BY <2>1 DEF Stepped
    <2>2. CASE ~w.ended /\ GoesOn(r.tree, w.tree, c)
        <3>1. r.tree.job = w.tree.job /\ \A m \in Nodes : r.tree.st[m] = IF m \in {c} THEN ComputedState(w.tree, c) ELSE w.tree.st[m]
            BY <2>2 DEF GoesOn, StatesSet, SameRest
        <3>2. t = c => ComputedState(w.tree, c) = w.tree.st[t]
            BY DEF ComputedState
        <3> QED BY <2>0, <3>1, <3>2
    <2>3. CASE ~w.ended /\ Ends(r.tree, w.tree, c)
        <3>1. r.tree.job = w.tree.job /\ \A m \in Nodes : r.tree.st[m] = IF m = c THEN "COMPLETE" ELSE w.tree.st[m]
            BY <2>3 DEF Ends, Completed
        <3>2. t = c => "COMPLETE" = w.tree.st[t]
            BY <2>3 DEF ComputedState, Ends
        <3> QED BY <2>0, <3>1, <3>2
    <2>4. CASE ~w.ended /\ Restarts(r.tree, w.tree, c)
        <3>1. PICK y, q : Completed(y, w.tree, c) /\ QueuedAnew(q, y, c, y.rep[c]) /\ ShownUp(r.tree, q, c)
            BY <2>4 DEF Restarts
        <3>2. r.tree.job = q.job /\ r.tree.st[t] = q.st[t]
            BY <2>0, <3>1 DEF ShownUp, SameRest
        <3>3. CASE t \in Below[c]
            BY <3>1, <3>2, <3>3 DEF QueuedAnew
        <3>4. CASE t \notin Below[c]
            <4>1. t # c
                BY <3>4, BelowFacts
            <4>2. q.st[t] = y.st[t] /\ q.job[t] = y.job[t]
                BY <2>0, <3>1, <3>4 DEF QueuedAnew
            <4>3. y.st[t] = w.tree.st[t] /\ y.job[t] = w.tree.job[t]
                BY <2>0, <3>1, <4>1 DEF Completed
            <4> QED BY <3>2, <4>2, <4>3
        <3> QED BY <3>3, <3>4
    <2> QED BY <2>1, <2>2, <2>3, <2>4 DEF Stepped
<1> QED BY <1>1 DEF TasksKept

LEMMA WayUpKeepsTasks ==
    ASSUME NEW s \in Trees, NEW n \in Nodes
    PROVE  TasksKept(RequeueOrSetUp(s, n), s)
<1>1. PICK f : WayUp(f, s, n)
    BY RequeueOrSetUpWay
<1> DEFINE S == {i \in 0 .. Size : TasksKept(f[i].tree, s)}
<1>2. 0 \in S
    <2>1. f[0].tree = s /\ 0 \in 0 .. Size
        BY <1>1, TreeType DEF WayUp
    <2> QED BY <2>1 DEF TasksKept
<1>3. ASSUME NEW i \in 1 .. Size, i - 1 \in S PROVE i \in S
    <2> DEFINE c == Size + 1 - i
    <2>1. c \in Nodes /\ i \in 0 .. Size /\ i - 1 \in 0 .. Size
        BY UpIndex
    <2>2. IF c \in Above[n] THEN Stepped(f[i], f[i - 1], c) ELSE f[i] = f[i - 1]
        BY <1>1 DEF WayUp
    <2>3. f[i - 1] \in Ways
        BY <1>1, <2>1 DEF WayUp
    <2> HIDE DEF c
    <2>4. TasksKept(f[i].tree, f[i - 1].tree)
        BY <2>1, <2>2, <2>3, StepKeepsTasks DEF TasksKept
    <2>5. TasksKept(f[i - 1].tree, s)
        BY <1>3
    <2>6. TasksKept(f[i].tree, s)
        BY <2>4, <2>5 DEF TasksKept
    <2> QED BY <2>1, <2>6
<1>4. Size \in S
    <2> HIDE DEF S
    <2> QED BY <1>2, <1>3, WayUpInduction
<1>5. f[Size].tree = RequeueOrSetUp(s, n)
    BY <1>1 DEF WayUp
<1> QED BY <1>4, <1>5

\* A family shows that a child is not complete.
LEMMA OpenKid ==
    ASSUME NEW s \in Trees, NEW m \in Nodes, NEW k \in Kids[m], s.st[k] \notin {"COMPLETE", "UNKNOWN"}
    PROVE  ComputedState(s, m) \notin {"COMPLETE", "UNKNOWN"} /\ m \notin Tasks
<1>1. k \in Nodes /\ m \notin Tasks
    BY KidsLater, KidsFacts
<1>2. s.st[k] \in States
    BY <1>1 DEF Trees
<1> DEFINE T == {s.st[j] : j \in Kids[m]}
<1>3. s.st[k] \in T /\ ComputedState(s, m) = MostSignificant(T)
    BY <1>1 DEF ComputedState
<1> HIDE DEF T
<1> QED BY <1>1, <1>2, <1>3 DEF MostSignificant, States

LEMMA ComputedDone ==
    ASSUME NEW s \in Trees, Known(s), NEW c \in Nodes
    PROVE  /\ ComputedState(s, c) # "UNKNOWN"
           /\ c \notin Tasks => (ComputedState(s, c) = "COMPLETE" <=> Kids[c] \subseteq Done(s))
<1>1. CASE c \in Tasks
    BY <1>1 DEF ComputedState, Known
<1>2. CASE c \notin Tasks
    <2> DEFINE T == {s.st[k] : k \in Kids[c]}
    <2>1. Kids[c] # {} /\ Kids[c] \subseteq Nodes
        BY <1>2, KidsFacts
    <2>2. T # {} /\ T \subseteq States \ {"UNKNOWN"}
        BY <2>1 DEF Known, Trees
    <2>3. ComputedState(s, c) = MostSignificant(T)
        BY <1>2 DEF ComputedState
    <2>4. Kids[c] \subseteq Done(s) <=> T = {"COMPLETE"}
        BY <2>1 DEF Done
    <2> HIDE DEF T
    <2>5. MostSignificant(T) # "UNKNOWN" /\ (MostSignificant(T) = "COMPLETE" <=> T = {"COMPLETE"})
        BY <2>2 DEF MostSignificant, States
    <2> QED BY <2>3, <2>4, <2>5
<1> QED BY <1>1, <1>2

LEMMA RiseGoesOn ==
    ASSUME NEW x \in Trees, Known(x), NEW c \in Nodes, NEW G, Sound(Done(x) \ {c}, x.rep, G, {c}),
           NEW r, GoesOn(r, x, c)
    PROVE  Sound(Done(r), r.rep, G, {}) /\ Known(r) /\ \A a \in Above[c] : a \notin Done(r)
<1> DEFINE D == Done(x) \ {c}
<1>1. /\ ComputedState(x, c) # "COMPLETE" /\ r \in Trees /\ r.rep = x.rep
      /\ \A m \in Nodes : r.st[m] = IF m = c THEN ComputedState(x, c) ELSE x.st[m]
    BY DEF GoesOn, StatesSet, SameRest
<1>2. Done(r) = D
    BY <1>1 DEF Done
<1>3. /\ ComputedState(x, c) # "UNKNOWN"
      /\ c \notin Tasks => ~(Kids[c] \subseteq Done(x))
    BY <1>1, ComputedDone
<1>4. Known(r)
    BY <1>1, <1>3 DEF Known
<1>5. c \notin Tasks => ~(Kids[c] \subseteq D)
    BY <1>3, NotOwnKid
<1>6. Closed(D, {c}) /\ c \notin D
    BY DEF Sound
<1>7. Closed(D, {})
    BY <1>5, <1>6 DEF Closed
<1>8. \A a \in Above[c] : a \notin D
    <2> HIDE DEF D
    <2> QED BY <1>6, AboveOpen
<1>9. Sound(D, x.rep, G, {})
    BY <1>7 DEF Sound
<1> QED BY <1>1, <1>2, <1>4, <1>8, <1>9

\* One completion more of c.
OneMore(G, c) == [G EXCEPT ![c] = @ + 1]

LEMMA RiseEnds ==
    ASSUME NEW x \in Trees, Known(x), NEW c \in Nodes, NEW G, Sound(Done(x) \ {c}, x.rep, G, {c}),
           NEW r, Ends(r, x, c), NEW X, c # Suite => Parent[c] \in X
    PROVE  /\ Sound(Done(r), r.rep, OneMore(G, c), X) /\ Known(r)
           /\ \A a \in Above[c] \ {c} : a \notin Done(r)
<1> DEFINE D == Done(x) \ {c}
<1>1. /\ ComputedState(x, c) = "COMPLETE" /\ r \in Trees /\ ~(r.rep[c] < Repeat[c])
      /\ \A m \in Nodes : r.st[m] = IF m = c THEN "COMPLETE" ELSE x.st[m]
      /\ \A m \in Nodes : r.rep[m] = IF m = c /\ x.rep[c] < Repeat[c] THEN x.rep[c] + 1 ELSE x.rep[m]
    BY DEF Ends, Completed
<1>2. Done(r) = D \cup {c}
    BY <1>1 DEF Done
<1>3. Known(r)
    BY <1>1 DEF Known
<1>4. Kids[c] \subseteq D
    <2>1. CASE c \in Tasks
        BY <2>1, KidsFacts
    <2>2. CASE c \notin Tasks
        BY <1>1, <2>2, ComputedDone, NotOwnKid
    <2> QED BY <2>1, <2>2
<1>5. Closed(D, {c}) /\ c \notin D
    BY DEF Sound
<1>6. Advanced(r.rep, x.rep, c)
    BY <1>1 DEF Advanced, Trees
<1> HIDE DEF D
<1>7. \A a \in Above[c] : a \notin D
    BY <1>5, AboveOpen
<1>8. Sound(D \cup {c}, r.rep, [G EXCEPT ![c] = @ + 1], X)
    <2>1. Sound(D, x.rep, G, {c})
        BY DEF D
    <2> DEFINE rep == x.rep
               rep2 == r.rep
    <2>2. Advanced(rep2, rep, c) /\ ~(rep2[c] < Repeat[c]) /\ Sound(D, rep, G, {c})
        BY <1>1, <1>6, <2>1
    <2> HIDE DEF rep, rep2
    <2>3. Sound(D \cup {c}, rep2, [G EXCEPT ![c] = @ + 1], X)
        BY <1>4, <1>5, <2>2, EndIsSound
    <2> QED BY <2>3 DEF rep2
<1> QED BY <1>2, <1>3, <1>7, <1>8 DEF OneMore

\* No defstatus is complete: every task has to run.
NoneStartsComplete == \A n \in Nodes : Default[n] # "COMPLETE"

LEMMA RiseRestarts ==
    ASSUME NoneStartsComplete,
           NEW x \in Trees, Known(x), NEW c \in Nodes, NEW G, Sound(Done(x) \ {c}, x.rep, G, {c}),
           NEW r, Restarts(r, x, c)
    PROVE  Sound(Done(r), r.rep, OneMore(G, c), {}) /\ Known(r)
<1> DEFINE D == Done(x) \ {c}
<1>1. PICK y, q : /\ Completed(y, x, c) /\ y.rep[c] < Repeat[c]
                  /\ QueuedAnew(q, y, c, y.rep[c]) /\ ShownUp(r, q, c)
    BY DEF Restarts
<1>2. ComputedState(x, c) = "COMPLETE"
    BY DEF Restarts
<1>3. /\ \A m \in Nodes : y.st[m] = IF m = c THEN "COMPLETE" ELSE x.st[m]
      /\ \A m \in Nodes : y.rep[m] = IF m = c /\ x.rep[c] < Repeat[c] THEN x.rep[c] + 1 ELSE x.rep[m]
    BY <1>1 DEF Completed
<1>4. /\ \A m \in Nodes \ Below[c] : q.st[m] = y.st[m] /\ q.rep[m] = y.rep[m]
      /\ \A m \in Below[c] : q.rep[m] = IF m = c THEN y.rep[c] ELSE 0
      /\ \A m \in Below[c] : q.st[m] \in {"QUEUED", "ABORTED"}
    BY <1>1 DEF QueuedAnew, Wait, NoneStartsComplete
<1>5. /\ r \in Trees /\ r.rep = q.rep
      /\ \A m \in Nodes : m \in Tasks \/ m \notin Above[c] => r.st[m] = q.st[m]
      /\ \A m \in Above[c] : r.st[m] = ComputedState(r, m)
    BY <1>1 DEF ShownUp, SameRest
<1>6. c \in Below[c] /\ Below[c] \subseteq Nodes /\ Above[c] \subseteq Nodes /\ c \in Above[c]
    BY BelowFacts, AboveFacts
<1>7. \A m \in Below[c] \ {c} : m \notin Above[c]
    BY BelowFacts
<1> DEFINE S == {m \in Nodes : r.st[m] \notin {"COMPLETE", "UNKNOWN"}}
<1>8. c \in S
    <2>1. CASE c \in Tasks
        BY <1>4, <1>5, <1>6, <2>1
    <2>2. CASE c \notin Tasks
        <3>1. PICK k : k \in Kids[c]
            BY <2>2, KidsFacts
        <3>2. k \in Below[c] \ {c} /\ k \in Nodes
            BY <1>6, <3>1, KidsBelow
        <3>3. r.st[k] = q.st[k] /\ q.st[k] \in {"QUEUED", "ABORTED"}
            BY <1>4, <1>5, <1>7, <3>2
        <3>4. ComputedState(r, c) \notin {"COMPLETE", "UNKNOWN"}
            BY <1>5, <3>1, <3>3, OpenKid
        <3> QED BY <1>5, <1>6, <3>4
    <2> QED BY <2>1, <2>2
<1>9. ASSUME NEW m \in Above[c] \ {c}, NEW k \in Kids[m] \cap Above[c], k \in S PROVE m \in S
    <2>1. m \in Nodes /\ r.st[k] \notin {"COMPLETE", "UNKNOWN"}
        BY <1>6, <1>9
    <2>2. ComputedState(r, m) \notin {"COMPLETE", "UNKNOWN"}
        BY <1>5, <2>1, OpenKid
    <2> QED BY <1>5, <2>1, <2>2
<1>10. Above[c] \subseteq S
    <2> HIDE DEF S
    <2> QED BY <1>8, <1>9, AboveInduction
<1>11. Known(r)
    <2> SUFFICES ASSUME NEW m \in Nodes PROVE r.st[m] # "UNKNOWN"
        BY DEF Known
    <2>1. CASE m \in Above[c]
        BY <1>10, <2>1
    <2>2. CASE m \notin Above[c] /\ m \in Below[c]
        BY <1>4, <1>5, <2>2
    <2>3. CASE m \notin Above[c] /\ m \notin Below[c]
        BY <1>3, <1>4, <1>5, <2>3 DEF Known
    <2> QED BY <2>1, <2>2, <2>3
<1>12. Closed(D, {c}) /\ c \notin D
    BY DEF Sound
<1>13. \A a \in Above[c] : a \notin D
    <2> HIDE DEF D
    <2> QED BY <1>12, AboveOpen
<1>14. Done(r) = D \ Below[c]
    <2>1. ASSUME NEW m \in Nodes PROVE m \in Done(r) <=> m \in D \ Below[c]
        <3>1. CASE m \in Above[c]
            BY <1>10, <1>13, <3>1 DEF Done
        <3>2. CASE m \notin Above[c] /\ m \in Below[c]
            BY <1>4, <1>5, <3>2 DEF Done
        <3>3. CASE m \notin Above[c] /\ m \notin Below[c]
            <4>1. r.st[m] = x.st[m] /\ m # c
                BY <1>3, <1>4, <1>5, <1>6, <3>3
            <4> QED BY <3>3, <4>1 DEF Done
        <3> QED BY <3>1, <3>2, <3>3
    <2>2. Done(r) \subseteq Nodes /\ D \subseteq Nodes
        BY DEF Done
    <2> QED BY <2>1, <2>2
<1>15. Kids[c] \subseteq D
    <2>1. CASE c \in Tasks
        BY <2>1, KidsFacts
    <2>2. CASE c \notin Tasks
        BY <1>2, <2>2, ComputedDone, NotOwnKid
    <2> QED BY <2>1, <2>2
<1> DEFINE rep == x.rep
           rep2 == r.rep
<1>16. rep2[c] = rep[c] + 1 /\ rep2[c] < Repeat[c]
    <2>1. rep[c] \in Nat /\ Repeat[c] \in Nat
        BY NodeAssumption DEF Trees
    <2>2. rep2[c] = y.rep[c] /\ y.rep[c] = (IF rep[c] < Repeat[c] THEN rep[c] + 1 ELSE rep[c])
        BY <1>3, <1>4, <1>5, <1>6
    <2> QED BY <1>1, <2>1, <2>2
<1>17. rep2 \in [Nodes -> Nat]
    BY <1>5 DEF Trees
<1>18. \A m \in Below[c] \ {c} : rep2[m] = 0
    BY <1>4, <1>5
<1>19. \A m \in Nodes \ Below[c] : rep2[m] = rep[m]
    BY <1>3, <1>4, <1>5, <1>6
<1>20. Sound(D, rep, G, {c})
    OBVIOUS
<1> HIDE DEF D, rep, rep2
<1>21. Sound(D \ Below[c], rep2, [G EXCEPT ![c] = @ + 1], {})
    BY <1>12, <1>15, <1>16, <1>17, <1>18, <1>19, <1>20, RestartIsSound
<1> QED BY <1>11, <1>14, <1>21 DEF rep2, OneMore

LEMMA TaskAbove ==
    ASSUME NEW n \in Nodes, NEW t \in Tasks, t \in Above[n]
    PROVE  t = n
<1>1. t \in Nodes
    BY KidsFacts
<1> SUFFICES ASSUME t # n PROVE FALSE
    OBVIOUS
<1>2. \E k \in Kids[t] : k \in Above[n]
    BY KidAbove
<1> QED BY <1>1, <1>2, KidsFacts

\* Where the way up from n is with the node c: there is nothing left to do, or
\* p, the next node above n, may have to complete.
Settled(w, n, c, G) ==
    /\ Sound(Done(w.tree), w.tree.rep, G, {})
    /\ w.ended \/ \A a \in Above[n] : a < c => a \notin Done(w.tree)

Rising(w, n, c, p, G) ==
    /\ ~w.ended /\ p \in Above[n] /\ p < c /\ \A a \in Above[n] : a < c => a <= p
    /\ Sound(Done(w.tree) \ {p}, w.tree.rep, G, {p})

\* The last node of Above[n] before its member c is its parent.
LEMMA NextAbove ==
    ASSUME NEW n \in Nodes, NEW c \in Above[n], NEW a \in Above[n], a < c
    PROVE  c # Suite /\ Parent[c] \in Above[n] /\ a <= Parent[c] /\ a \in Above[c]
<1>1. c \in Nodes /\ a \in Nodes
    BY AboveFacts
<1>2. a \in Nat /\ c \in Nat /\ 1 <= a
    BY <1>1, TreeType
<1>3. a # c /\ a <= c
    BY <1>2
<1>4. a \in Above[c]
    BY <1>3, AboveFacts
<1>5. c # Suite
    BY <1>2 DEF Suite
<1>6. Above[c] = {c} \cup Above[Parent[c]] /\ Parent[c] \in Nodes
    BY <1>1, <1>5, AboveIs, TreeType
<1>7. a \in Above[Parent[c]]
    BY <1>3, <1>4, <1>6
<1>8. a <= Parent[c]
    BY <1>6, <1>7, AboveFacts
<1> QED BY <1>4, <1>5, <1>8, AboveFacts

LEMMA CalmStep ==
    ASSUME NEW w \in Ways, Known(w.tree), NEW n \in Nodes, NEW c \in Above[n], NEW G, Settled(w, n, c + 1, G),
           NEW r, Stepped(r, w, c)
    PROVE  Settled(r, n, c, G) /\ Known(r.tree)
<1>1. c \in Nodes /\ c \in Nat /\ Above[n] \subseteq Nodes
    BY AboveFacts, TreeType
<1>2. ASSUME NEW a \in Above[n], a < c PROVE a < c + 1
    <2>1. a \in Nat
        BY <1>1, TreeType
    <2> QED BY <1>1, <1>2, <2>1
<1>3. CASE w.ended
    BY <1>2, <1>3 DEF Settled, Stepped
<1>4. CASE ~w.ended
    <2>1. Sound(Done(w.tree), w.tree.rep, G, {}) /\ c \notin Done(w.tree) /\ w.tree \in Trees
        BY <1>1, <1>4 DEF Settled, Ways
    <2>2. ComputedState(w.tree, c) # "COMPLETE"
        <3>1. CASE c \in Tasks
            BY <1>1, <2>1, <3>1 DEF ComputedState, Done
        <3>2. CASE c \notin Tasks
            <4>1. ~(Kids[c] \subseteq Done(w.tree))
                BY <1>1, <2>1, <3>2 DEF Sound, Closed
            <4> QED BY <1>1, <2>1, <3>2, <4>1, ComputedDone
        <3> QED BY <3>1, <3>2
    <2>3. ~r.ended /\ GoesOn(r.tree, w.tree, c)
        BY <1>4, <2>2 DEF Stepped, Ends, Restarts
    <2>4. Done(w.tree) \ {c} = Done(w.tree)
        BY <2>1
    <2>5. Sound(Done(w.tree) \ {c}, w.tree.rep, G, {c})
        <3>1. Closed(Done(w.tree), {c})
            BY <2>1 DEF Sound, Closed
        <3> QED BY <2>1, <2>4, <3>1 DEF Sound
    <2>6. Sound(Done(r.tree), r.tree.rep, G, {}) /\ Known(r.tree)
        BY <1>1, <2>1, <2>3, <2>5, RiseGoesOn
    <2>7. \A a \in Nodes \ {c} : r.tree.st[a] = w.tree.st[a]
        BY <2>3 DEF GoesOn, StatesSet
    <2>8. ASSUME NEW a \in Above[n], a < c PROVE a \notin Done(r.tree)
        <3>1. a \in Nodes /\ a # c /\ a \notin Done(w.tree)
            <4>1. a \in Nodes /\ a \in Nat
                BY <1>1, TreeType
            <4>2. a # c
                BY <1>1, <2>8, <4>1
            <4>3. a < c + 1
                BY <1>2, <2>8
            <4> QED BY <1>4, <4>1, <4>2, <4>3 DEF Settled
        <3> QED BY <2>7, <3>1 DEF Done
    <2> QED BY <2>6, <2>8 DEF Settled
<1> QED BY <1>3, <1>4

\* The node c is looked at: if it completes it counts one completion more.
LEMMA RiseStep ==
    ASSUME NoneStartsComplete,
           NEW w \in Ways, ~w.ended, Known(w.tree), NEW n \in Nodes, NEW c \in Above[n], NEW G,
           Sound(Done(w.tree) \ {c}, w.tree.rep, G, {c}), NEW r, Stepped(r, w, c),
           NEW H, H = IF ComputedState(w.tree, c) = "COMPLETE" THEN OneMore(G, c) ELSE G
    PROVE  Known(r.tree) /\ (Settled(r, n, c, H) \/ \E p : Rising(r, n, c, p, H))
<1>1. c \in Nodes /\ c \in Nat /\ Above[n] \subseteq Nodes /\ w.tree \in Trees /\ c \in Above[c]
    BY AboveFacts, TreeType DEF Ways
<1>2. ASSUME NEW a \in Above[n], a < c PROVE a \in Above[c] \ {c}
    <2>1. a \in Nat
        BY <1>1, TreeType
    <2>2. a # c
        BY <1>1, <1>2, <2>1
    <2> QED BY <1>2, <2>2, NextAbove
<1>3. CASE ~r.ended /\ GoesOn(r.tree, w.tree, c)
    <2>1. H = G
        BY <1>3 DEF GoesOn
    <2>2. Sound(Done(r.tree), r.tree.rep, G, {}) /\ Known(r.tree) /\ \A a \in Above[c] : a \notin Done(r.tree)
        BY <1>1, <1>3, RiseGoesOn
    <2> QED BY <1>2, <2>1, <2>2 DEF Settled
<1>4. CASE r.ended /\ Restarts(r.tree, w.tree, c)
    <2>1. H = OneMore(G, c)
        BY <1>4 DEF Restarts
    <2>2. Sound(Done(r.tree), r.tree.rep, H, {}) /\ Known(r.tree)
        <3> DEFINE x == w.tree
                   y == r.tree
        <3>1. x \in Trees /\ Known(x) /\ Sound(Done(x) \ {c}, x.rep, G, {c}) /\ Restarts(y, x, c)
            BY <1>1, <1>4
        <3> HIDE DEF x, y
        <3>2. Sound(Done(y), y.rep, OneMore(G, c), {}) /\ Known(y)
            BY <1>1, <3>1, RiseRestarts
        <3> QED BY <2>1, <3>2 DEF y
    <2> QED BY <1>4, <2>2 DEF Settled
<1>5. CASE ~r.ended /\ Ends(r.tree, w.tree, c)
    <2>1. H = OneMore(G, c)
        BY <1>5 DEF Ends
    <2>2. CASE c = Suite
        <3>1. Sound(Done(r.tree), r.tree.rep, H, {}) /\ Known(r.tree) /\ \A a \in Above[c] \ {c} : a \notin Done(r.tree)
            <4> DEFINE x == w.tree
                       y == r.tree
            <4>1. x \in Trees /\ Known(x) /\ Sound(Done(x) \ {c}, x.rep, G, {c}) /\ Ends(y, x, c)
                BY <1>1, <1>5
            <4> HIDE DEF x, y
            <4>2. Sound(Done(y), y.rep, OneMore(G, c), {}) /\ Known(y) /\ \A a \in Above[c] \ {c} : a \notin Done(y)
                BY <1>1, <2>2, <4>1, RiseEnds
            <4> QED BY <2>1, <4>2 DEF y
        <3> QED BY <1>2, <3>1 DEF Settled
    <2>3. CASE c # Suite
        <3> DEFINE p == Parent[c]
        <3>1. p \in Above[n] /\ p < c /\ p \in Nodes /\ p \in Above[c]
            <4>1. Parent[c] \in Above[n] /\ Parent[c] < c /\ Parent[c] \in Nodes
                BY <1>1, <2>3, AboveFacts, TreeType
            <4>2. Parent[c] \in Above[c]
                BY <1>1, <2>3, AboveFacts
            <4> QED BY <4>1, <4>2
        <3>2. \A a \in Above[n] : a < c => a <= p
            BY NextAbove
        <3>3. Sound(Done(r.tree), r.tree.rep, H, {p}) /\ Known(r.tree) /\ \A a \in Above[c] \ {c} : a \notin Done(r.tree)
            <4> DEFINE x == w.tree
                       y == r.tree
            <4>1. x \in Trees /\ Known(x) /\ Sound(Done(x) \ {c}, x.rep, G, {c}) /\ Ends(y, x, c)
                BY <1>1, <1>5
            <4>2. Parent[c] \in {p}
                OBVIOUS
            <4> HIDE DEF x, y, p
            <4>3. Sound(Done(y), y.rep, OneMore(G, c), {p}) /\ Known(y) /\ \A a \in Above[c] \ {c} : a \notin Done(y)
                BY <1>1, <2>3, <4>1, <4>2, RiseEnds
            <4> QED BY <2>1, <4>3 DEF y
        <3>4. p # c
            <4>1. p \in Nat
                BY <3>1, TreeType
            <4> QED BY <1>1, <3>1, <4>1
        <3>5. Done(r.tree) \ {p} = Done(r.tree)
            BY <3>1, <3>3, <3>4
        <3> HIDE DEF p
        <3>6. Rising(r, n, c, p, H)
            BY <1>5, <3>1, <3>2, <3>3, <3>5 DEF Rising
        <3> QED BY <3>3, <3>6
    <2> QED BY <2>2, <2>3
<1> QED BY <1>3, <1>4, <1>5 DEF Stepped

\* One completion more for the task n if it is complete; none for other tasks.
Counted(H, G, s, n) ==
    /\ H \in [Nodes -> Nat]
    /\ \A t \in Tasks : H[t] = IF t = n /\ s.st[n] = "COMPLETE" THEN G[t] + 1 ELSE G[t]

LEMMA WayUpCounts ==
    ASSUME NoneStartsComplete,
           NEW s \in Trees, Known(s), NEW n \in Nodes, NEW G, Sound(Done(s) \ {n}, s.rep, G, {n}),
           NEW r, r = RequeueOrSetUp(s, n)
    PROVE  Known(r) /\ \E H : Sound(Done(r), r.rep, H, {}) /\ Counted(H, G, s, n)
<1>1. PICK f : WayUp(f, s, n)
    BY RequeueOrSetUpWay
<1>2. Above[n] \subseteq Nodes /\ n \in Above[n] /\ n \in Nat /\ \A a \in Above[n] : a \in Nat /\ a <= n
    BY AboveFacts, TreeType
<1>3. G \in [Nodes -> Nat]
    BY DEF Sound
<1> DEFINE At(w, c) == \E H : Counted(H, G, s, n) /\ (Settled(w, n, c, H) \/ \E p : Rising(w, n, c, p, H))
           Inv(w, c) == IF n < c THEN w.tree = s /\ ~w.ended ELSE Known(w.tree) /\ At(w, c)
           S == {i \in 0 .. Size : Inv(f[i], Size + 1 - i)}
<1>4. ASSUME NEW w \in Ways, w.tree = s, ~w.ended, NEW v, Stepped(v, w, n)
      PROVE  Known(v.tree) /\ At(v, n)
    <2> DEFINE H == IF ComputedState(w.tree, n) = "COMPLETE" THEN OneMore(G, n) ELSE G
    <2>1. Known(v.tree) /\ (Settled(v, n, n, H) \/ \E p : Rising(v, n, n, p, H))
        <3>1. H = IF ComputedState(w.tree, n) = "COMPLETE" THEN OneMore(G, n) ELSE G
            OBVIOUS
        <3> HIDE DEF H
        <3> QED BY <1>2, <1>4, <3>1, RiseStep
    <2>2. Counted(H, G, s, n)
        <3>1. n \in Tasks => ComputedState(s, n) = s.st[n]
            BY DEF ComputedState
        <3>2. Tasks \subseteq Nodes
            BY KidsFacts
        <3> QED BY <1>3, <1>4, <3>1, <3>2 DEF Counted, OneMore
    <2> HIDE DEF H
    <2> QED BY <2>1, <2>2
<1>5. ASSUME NEW w \in Ways, NEW c \in Above[n], c # n, Known(w.tree), At(w, c + 1), NEW v, Stepped(v, w, c)
      PROVE  Known(v.tree) /\ At(v, c)
    <2>1. PICK H : Counted(H, G, s, n) /\ (Settled(w, n, c + 1, H) \/ \E p : Rising(w, n, c + 1, p, H))
        BY <1>5
    <2>2. CASE Settled(w, n, c + 1, H)
        <3>1. Settled(v, n, c, H) /\ Known(v.tree)
            BY <1>5, <2>2, CalmStep
        <3> QED BY <2>1, <3>1
    <2>3. CASE \E p : Rising(w, n, c + 1, p, H)
        <3>1. PICK p : Rising(w, n, c + 1, p, H)
            BY <2>3
        <3>2. c \in Nat /\ p \in Nat /\ c < c + 1 /\ p \in Above[n]
            BY <1>2, <3>1 DEF Rising
        <3>3. p = c
            <4>1. c <= p /\ p < c + 1
                BY <3>1, <3>2 DEF Rising
            <4> QED BY <3>2, <4>1
        <3>4. ~w.ended /\ Sound(Done(w.tree) \ {c}, w.tree.rep, H, {c})
            BY <3>1, <3>3 DEF Rising
        <3> DEFINE K == IF ComputedState(w.tree, c) = "COMPLETE" THEN OneMore(H, c) ELSE H
        <3>5. Counted(K, G, s, n)
            <4>1. c \notin Tasks
                BY <1>5, TaskAbove
            <4>2. H \in [Nodes -> Nat] /\ Tasks \subseteq Nodes /\ c \in Nodes
                BY <1>2, <2>1, KidsFacts DEF Counted
            <4>3. K \in [Nodes -> Nat] /\ \A t \in Tasks : K[t] = H[t]
                BY <4>1, <4>2 DEF OneMore
            <4> HIDE DEF K
            <4> QED BY <2>1, <4>3 DEF Counted
        <3>6. Known(v.tree) /\ (Settled(v, n, c, K) \/ \E j : Rising(v, n, c, j, K))
            <4>1. K = IF ComputedState(w.tree, c) = "COMPLETE" THEN OneMore(H, c) ELSE H
                OBVIOUS
            <4> HIDE DEF K
            <4> QED BY <1>5, <3>4, <4>1, RiseStep
        <3> HIDE DEF K
        <3> QED BY <3>5, <3>6
    <2> QED BY <2>1, <2>2, <2>3
<1>6. ASSUME NEW w, NEW c \in Nodes, c \notin Above[n], At(w, c + 1)
      PROVE  At(w, c)
    <2>1. PICK H : Counted(H, G, s, n) /\ (Settled(w, n, c + 1, H) \/ \E p : Rising(w, n, c + 1, p, H))
        BY <1>6
    <2>2. c \in Nat
        BY TreeType
    <2>3. \A a \in Above[n] : a < c <=> a < c + 1
        <3> SUFFICES ASSUME NEW a \in Above[n] PROVE a < c <=> a < c + 1
            OBVIOUS
        <3>1. a \in Nat /\ a # c
            BY <1>2, <1>6
        <3> QED BY <2>2, <3>1
    <2>4. CASE Settled(w, n, c + 1, H)
        <3>1. Settled(w, n, c, H)
            BY <2>3, <2>4 DEF Settled
        <3> QED BY <2>1, <3>1
    <2>5. ASSUME NEW p, Rising(w, n, c + 1, p, H) PROVE Rising(w, n, c, p, H)
        BY <2>3, <2>5 DEF Rising
    <2> QED BY <2>1, <2>4, <2>5
<1> HIDE DEF At
<1>7. 0 \in S
    <2>1. f[0].tree = s /\ ~f[0].ended /\ 0 \in 0 .. Size
        BY <1>1, TreeType DEF WayUp
    <2>2. n < Size + 1 - 0
        <3>1. n <= Size /\ Size \in Nat
            BY TreeType
        <3> QED BY <1>2, <3>1
    <2> QED BY <2>1, <2>2
<1>8. ASSUME NEW i \in 1 .. Size, i - 1 \in S PROVE i \in S
    <2> DEFINE c == Size + 1 - i
    <2>1. c \in Nodes /\ Inv(f[i - 1], c + 1) /\ i \in 0 .. Size /\ i - 1 \in 0 .. Size
        BY <1>8, UpIndex
    <2>2. IF c \in Above[n] THEN Stepped(f[i], f[i - 1], c) ELSE f[i] = f[i - 1]
        BY <1>1 DEF WayUp
    <2>3. f[i - 1] \in Ways
        BY <1>1, <2>1 DEF WayUp
    <2>4. c \in Nat
        BY <2>1, TreeType
    <2> SUFFICES Inv(f[i], c)
        BY <2>1
    <2> HIDE DEF c
    <2>5. CASE n < c
        <3>1. n < c + 1 /\ c \notin Above[n]
            <4>1. n < c + 1 /\ ~(c <= n)
                BY <1>2, <2>4, <2>5
            <4> QED BY <1>2, <4>1
        <3> QED BY <2>1, <2>2, <2>5, <3>1
    <2>6. CASE c = n
        <3>1. n < c + 1 /\ ~(n < c)
            BY <1>2, <2>6
        <3> QED BY <1>2, <1>4, <2>1, <2>2, <2>3, <2>6, <3>1
    <2>7. CASE c < n
        <3>1. ~(n < c + 1) /\ ~(n < c) /\ c # n
            BY <1>2, <2>4, <2>7
        <3>2. Known(f[i - 1].tree) /\ At(f[i - 1], c + 1)
            BY <2>1, <3>1
        <3>3. CASE c \in Above[n]
            <4>1. Known(f[i].tree) /\ At(f[i], c)
                BY <1>5, <2>2, <2>3, <3>1, <3>2, <3>3
            <4> QED BY <3>1, <4>1
        <3>4. CASE c \notin Above[n]
            <4>1. At(f[i], c)
                BY <1>6, <2>1, <2>2, <3>2, <3>4
            <4> QED BY <2>2, <3>1, <3>2, <3>4, <4>1
        <3> QED BY <3>3, <3>4
    <2> QED BY <1>2, <2>4, <2>5, <2>6, <2>7
<1>9. Size \in S
    <2> HIDE DEF S
    <2> QED BY <1>7, <1>8, WayUpInduction
<1>10. Size + 1 - Size = 1 /\ ~(n < 1) /\ \A p \in Above[n] : ~(p < 1)
    <2>1. Size \in Nat /\ 1 <= n /\ \A p \in Above[n] : 1 <= p
        BY <1>2, TreeType
    <2> QED BY <1>2, <2>1
<1>11. Known(f[Size].tree) /\ At(f[Size], 1)
    BY <1>9, <1>10
<1>12. f[Size].tree = r
    BY <1>1 DEF WayUp
<1>13. PICK H : Counted(H, G, s, n) /\ (Settled(f[Size], n, 1, H) \/ \E p : Rising(f[Size], n, 1, p, H))
    BY <1>11 DEF At
<1>14. Sound(Done(r), r.rep, H, {})
    BY <1>10, <1>12, <1>13 DEF Settled, Rising
<1> QED BY <1>11, <1>12, <1>13, <1>14

-----------------------------------------------------------------------------
(* Without a user's re-queue or force every completion is one of a job's or *)
(* of a complete expression                                                  *)

\* A process that has begun is seen by its task.
JobsRun(s) == \A t \in Tasks : s.job[t] = "active" => s.st[t] = "ACTIVE"

\* The jobs that completed are the completions, but for those of expressions.
Counts(runs, G) == \A t \in Tasks : runs[t] <= G[t] /\ (~ByRule(t) => runs[t] = G[t])

Looping(s, runs) ==
    /\ s \in Trees /\ Known(s) /\ JobsRun(s)
    /\ \E G : Sound(Done(s), s.rep, G, {}) /\ Counts(runs, G)

\* r is s after the state of the task t is set to v and the nodes above it know.
TaskSet(r, s, t, v) ==
    \A u \in Tasks : \/ r.job[u] = "none"
                     \/ r.job[u] = s.job[u] /\ r.st[u] = IF u = t THEN v ELSE s.st[u]

\* One completion more of t if it completes.
Gained(H, G, t, v) ==
    H \in [Nodes -> Nat] /\ \A u \in Tasks : H[u] = IF u = t /\ v = "COMPLETE" THEN G[u] + 1 ELSE G[u]

LEMMA SetStateCounts ==
    ASSUME NoneStartsComplete,
           NEW s \in GoodTrees, Known(s), NEW t \in Tasks, t \notin Done(s), NEW v \in States \ {"UNKNOWN"},
           NEW G, Sound(Done(s), s.rep, G, {}), NEW r, r = SetState(s, t, v)
    PROVE  /\ r \in Trees /\ Known(r) /\ TaskSet(r, s, t, v)
           /\ \E H : Sound(Done(r), r.rep, H, {}) /\ Gained(H, G, t, v)
<1>1. s \in Trees /\ t \in Nodes /\ v \in States /\ v # "UNKNOWN" /\ Tasks \subseteq Nodes
    BY KidsFacts DEF GoodTrees
<1>2. r \in Trees
    BY <1>1, SetStateGood DEF GoodTrees
<1>3. CASE s.st[t] = v
    <2>1. r = s
        BY <1>3 DEF SetState
    <2>2. v # "COMPLETE"
        BY <1>1, <1>3 DEF Done
    <2>3. TaskSet(s, s, t, v)
        BY <1>3 DEF TaskSet
    <2>4. Gained(G, G, t, v)
        BY <2>2 DEF Gained, Sound
    <2> QED BY <1>2, <2>1, <2>3, <2>4
<1>4. CASE s.st[t] # v
    <2> DEFINE x == SetStateOnly(s, t, v, FALSE)
    <2>1. StatesSet(x, s, {t}, v)
        BY <1>1, SetStateArgument
    <2>2. r = RequeueOrSetUp(x, t)
        BY <1>4 DEF SetState
    <2> HIDE DEF x
    <2>3. x \in Trees /\ x.rep = s.rep /\ x.job = s.job /\ \A m \in Nodes : x.st[m] = IF m = t THEN v ELSE s.st[m]
        BY <2>1 DEF StatesSet, SameRest
    <2>4. Known(x)
        BY <1>1, <2>3 DEF Known
    <2>5. Done(x) \ {t} = Done(s)
        BY <1>1, <2>3 DEF Done
    <2>6. Sound(Done(x) \ {t}, x.rep, G, {t})
        <3>1. Closed(Done(s), {t})
            BY DEF Sound, Closed
        <3> QED BY <2>3, <2>5, <3>1 DEF Sound
    <2>7. Known(r) /\ \E H : Sound(Done(r), r.rep, H, {}) /\ Counted(H, G, x, t)
        BY <1>1, <2>2, <2>3, <2>4, <2>6, WayUpCounts
    <2>8. ASSUME NEW H, Counted(H, G, x, t) PROVE Gained(H, G, t, v)
        <3>1. x.st[t] = v
            BY <1>1, <2>3
        <3> QED BY <2>8, <3>1 DEF Counted, Gained
    <2>9. TasksKept(r, x)
        BY <1>1, <2>2, <2>3, WayUpKeepsTasks
    <2>10. TaskSet(r, s, t, v)
        BY <1>1, <2>3, <2>9 DEF TasksKept, TaskSet
    <2> QED BY <1>2, <2>7, <2>8, <2>10
<1> QED BY <1>3, <1>4

\* A change of state that completes nothing, of a task whose process is known.
LEMMA SetStateLoops ==
    ASSUME NoneStartsComplete,
           NEW s \in GoodTrees, Known(s), NEW t \in Tasks, t \notin Done(s),
           NEW v \in States \ {"UNKNOWN", "COMPLETE"},
           NEW runs, \E G : Sound(Done(s), s.rep, G, {}) /\ Counts(runs, G),
           \A u \in Tasks : s.job[u] = "active" => (IF u = t THEN v ELSE s.st[u]) = "ACTIVE",
           NEW r, r = SetState(s, t, v)
    PROVE  Looping(r, runs)
<1>1. PICK G : Sound(Done(s), s.rep, G, {}) /\ Counts(runs, G)
    OBVIOUS
<1>2. /\ r \in Trees /\ Known(r) /\ TaskSet(r, s, t, v)
      /\ \E H : Sound(Done(r), r.rep, H, {}) /\ Gained(H, G, t, v)
    BY <1>1, SetStateCounts
<1>3. JobsRun(r)
    BY <1>2 DEF TaskSet, JobsRun
<1>4. ASSUME NEW H, Gained(H, G, t, v) PROVE Counts(runs, H)
    BY <1>1, <1>4 DEF Gained, Counts
<1> QED BY <1>2, <1>3, <1>4 DEF Looping

\* A job completes, or the complete expression of its task holds.
LEMMA CompleteLoops ==
    ASSUME NoneStartsComplete,
           NEW s \in GoodTrees, NEW t \in Tasks, t \notin Done(s),
           NEW runs \in [Tasks -> Nat], Looping(s, runs),
           NEW runs2 \in [Tasks -> Nat], \A u \in Tasks \ {t} : runs2[u] = runs[u],
           runs2[t] = runs[t] + 1 \/ (runs2[t] = runs[t] /\ ByRule(t)),
           NEW x, x = SetState(s, t, "COMPLETE"),
           NEW r, SameLoops(r, x), \A u \in Tasks : r.job[u] = x.job[u] \/ r.job[u] = "none",
           s.job[t] = "active" => r.job[t] = "none"
    PROVE  Looping(r, runs2)
<1>1. PICK G : Sound(Done(s), s.rep, G, {}) /\ Counts(runs, G)
    BY DEF Looping
<1>2. "COMPLETE" \in States \ {"UNKNOWN"} /\ Known(s) /\ JobsRun(s) /\ Tasks \subseteq Nodes
    BY KidsFacts DEF States, Looping
<1>3. /\ x \in Trees /\ Known(x) /\ TaskSet(x, s, t, "COMPLETE")
      /\ \E H : Sound(Done(x), x.rep, H, {}) /\ Gained(H, G, t, "COMPLETE")
    BY <1>1, <1>2, SetStateCounts
<1>4. PICK H : Sound(Done(x), x.rep, H, {}) /\ Gained(H, G, t, "COMPLETE")
    BY <1>3
<1>5. r \in Trees /\ r.st = x.st /\ r.rep = x.rep
    BY DEF SameLoops
<1>6. Done(r) = Done(x) /\ Known(r)
    BY <1>3, <1>5 DEF Done, Known
<1>7. JobsRun(r)
    <2> SUFFICES ASSUME NEW u \in Tasks, r.job[u] = "active" PROVE r.st[u] = "ACTIVE"
        BY DEF JobsRun
    <2>1. x.job[u] = "active"
        OBVIOUS
    <2>2. s.job[u] = "active" /\ x.st[u] = IF u = t THEN "COMPLETE" ELSE s.st[u]
        BY <1>3, <2>1 DEF TaskSet
    <2>3. u # t
        BY <2>2
    <2> QED BY <1>2, <1>5, <2>2, <2>3 DEF JobsRun
<1>8. Counts(runs2, H)
    <2> SUFFICES ASSUME NEW u \in Tasks PROVE runs2[u] <= H[u] /\ (~ByRule(u) => runs2[u] = H[u])
        BY DEF Counts
    <2>1. runs[u] <= G[u] /\ (~ByRule(u) => runs[u] = G[u])
        BY <1>1 DEF Counts
    <2>2. H[u] = IF u = t THEN G[u] + 1 ELSE G[u]
        BY <1>4 DEF Gained
    <2>3. runs[u] \in Nat /\ runs2[u] \in Nat /\ G[u] \in Nat
        BY <1>1, <1>2 DEF Sound
    <2>4. CASE u = t
        <3>1. CASE runs2[t] = runs[t] + 1
            BY <2>1, <2>2, <2>3, <2>4, <3>1
        <3>2. CASE runs2[t] = runs[t] /\ ByRule(t)
            <4>1. runs2[u] <= G[u] + 1 /\ ByRule(u)
                BY <2>1, <2>3, <2>4, <3>2
            <4> QED BY <2>2, <2>4, <4>1
        <3> QED BY <3>1, <3>2
    <2>5. CASE u # t
        BY <2>1, <2>2, <2>5
    <2> QED BY <2>4, <2>5
<1> QED BY <1>4, <1>5, <1>6, <1>7, <1>8 DEF Looping

\* The complete expression of a family or of the suite holds.
LEMMA RuleLoops ==
    ASSUME NoneStartsComplete,
           NEW s \in GoodTrees, NEW n \in Nodes, n \notin Tasks, n \notin Done(s), EvaluateComplete(s, n),
           NEW runs \in [Tasks -> Nat], Looping(s, runs),
           NEW r, r = SetStateHierarchically(s, n, "COMPLETE", FALSE)
    PROVE  Looping(r, runs)
<1> DEFINE x == SetStatesOnly(s, Below[n], "COMPLETE", FALSE)
<1>1. s \in Trees /\ Below[n] \in SUBSET Nodes /\ "COMPLETE" \in States /\ n \in Below[n] /\ Tasks \subseteq Nodes
    BY BelowFacts, KidsFacts DEF GoodTrees, States
<1>2. StatesSet(x, s, Below[n], "COMPLETE")
    <2>1. x \in {SetStatesOnly(s, Below[n], "COMPLETE", TRUE), SetStatesOnly(s, Below[n], "COMPLETE", FALSE)}
        BY Zenon
    <2> QED BY <1>1, <2>1, SetStatesOnlyIs, Zenon
<1>3. r = RequeueOrSetUp(x, n)
    BY Zenon DEF SetStateHierarchically, SetStateOnlyHierarchically
<1> HIDE DEF x
<1>4. /\ x \in Trees /\ x.rep = s.rep /\ x.job = s.job
      /\ \A m \in Nodes : x.st[m] = IF m \in Below[n] THEN "COMPLETE" ELSE s.st[m]
    BY <1>2 DEF StatesSet, SameRest
<1>5. Known(s) /\ JobsRun(s)
    BY DEF Looping
<1>6. Known(x)
    BY <1>4, <1>5 DEF Known
<1>7. PICK G : Sound(Done(s), s.rep, G, {}) /\ Counts(runs, G)
    BY DEF Looping
<1> DEFINE K == RuleCounts(Done(s), G, n)
<1>8. Complete[n] # {} /\ DeepState(s, n) = "QUEUED"
    BY DEF EvaluateComplete
<1>9. Done(x) \ {n} = Done(s) \cup (Below[n] \ {n})
    BY <1>1, <1>4 DEF Done
<1>10. Sound(Done(s) \cup (Below[n] \ {n}), s.rep, K, {n})
    BY <1>7, <1>8, RuleIsSound
<1>11. \A t \in Tasks : K[t] = IF t \in Below[n] \ {n} /\ t \notin Done(s) THEN G[t] + 1 ELSE G[t]
    BY <1>1 DEF RuleCounts
<1> HIDE DEF K
<1>12. Sound(Done(x) \ {n}, x.rep, K, {n})
    BY <1>4, <1>9, <1>10
<1>13. Known(r) /\ \E H : Sound(Done(r), r.rep, H, {}) /\ Counted(H, K, x, n)
    BY <1>3, <1>4, <1>6, <1>12, WayUpCounts
<1>14. PICK H : Sound(Done(r), r.rep, H, {}) /\ Counted(H, K, x, n)
    BY <1>13
<1>15. Counts(runs, H)
    <2> SUFFICES ASSUME NEW t \in Tasks PROVE runs[t] <= H[t] /\ (~ByRule(t) => runs[t] = H[t])
        BY DEF Counts
    <2>1. H[t] = K[t]
        BY <1>14 DEF Counted
    <2>2. runs[t] <= G[t] /\ (~ByRule(t) => runs[t] = G[t])
        BY <1>7 DEF Counts
    <2>3. runs[t] \in Nat /\ G[t] \in Nat
        BY <1>1, <1>7 DEF Sound
    <2>4. CASE t \in Below[n]
        <3>1. ByRule(t)
            BY <1>1, <1>8, <2>4, BelowFacts DEF ByRule
        <3>2. runs[t] <= G[t] + 1
            BY <2>2, <2>3
        <3> QED BY <1>11, <2>1, <2>2, <3>1, <3>2
    <2>5. CASE t \notin Below[n]
        BY <1>11, <2>1, <2>2, <2>5
    <2> QED BY <2>4, <2>5
<1>16. TasksKept(r, x)
    BY <1>3, <1>4, WayUpKeepsTasks
<1>17. JobsRun(r)
    <2> SUFFICES ASSUME NEW t \in Tasks, r.job[t] = "active" PROVE r.st[t] = "ACTIVE"
        BY DEF JobsRun
    <2>1. r.st[t] = x.st[t] /\ s.job[t] = "active"
        BY <1>4, <1>16 DEF TasksKept
    <2>2. s.st[t] = "ACTIVE"
        BY <1>5, <2>1 DEF JobsRun
    <2>3. t \notin Below[n]
        BY <1>8, <2>2, NoneRuns DEF Running
    <2> QED BY <1>1, <1>4, <2>1, <2>2, <2>3
<1>18. r \in Trees
    BY <1>1, SetStateHierarchicallyGood, Zenon DEF GoodTrees
<1> QED BY <1>13, <1>14, <1>15, <1>17, <1>18 DEF Looping

\* The visit of a node.
LEMMA ResolveLoops ==
    ASSUME NoneStartsComplete,
           NEW w \in Visits, NEW n \in Nodes, NEW ch, NEW runs \in [Tasks -> Nat], Looping(w.tree, runs)
    PROVE  Looping(ResolveDependencies(w, n, ch).tree, runs)
<1> DEFINE r == ResolveDependencies(w, n, ch)
           s == w.tree
<1>1. s \in GoodTrees /\ s \in Trees /\ Looping(s, runs)
    BY DEF Visits, GoodTrees
<1>2. Resolved(r, w, n, ch)
    BY ResolveDependenciesIs
<1>3. "COMPLETE" \in States
    BY DEF States
<1>4. CASE r.tree = s
    BY <1>1, <1>4
<1>5. CASE /\ EvaluateComplete(s, n) /\ s.st[n] # "COMPLETE" /\ (n \in Tasks => Eligible(s, n))
           /\ r.tree = SetStateHierarchically(s, n, "COMPLETE", FALSE)
    <2> HIDE DEF r, s
    <2>1. n \notin Done(s)
        BY <1>5 DEF Done
    <2>2. CASE n \notin Tasks
        <3> DEFINE x == SetStateHierarchically(s, n, "COMPLETE", FALSE)
        <3>1. x = SetStateHierarchically(s, n, "COMPLETE", FALSE)
            BY Zenon
        <3> HIDE DEF x
        <3>2. Looping(x, runs)
            BY <1>1, <1>5, <2>1, <2>2, <3>1, RuleLoops, Zenon
        <3> QED BY <1>5, <3>2, Zenon DEF x, r
    <2>3. CASE n \in Tasks
        <3> DEFINE x == SetState(s, n, "COMPLETE")
        <3>1. r.tree = x
            BY <1>5, <2>3, Zenon DEF SetStateHierarchically
        <3>2. x \in GoodTrees
            BY <1>1, <1>3, SetStateGood
        <3>3. SameLoops(x, x)
            BY <3>2 DEF SameLoops, GoodTrees
        <3>4. ByRule(n)
            BY <1>5, AboveFacts DEF ByRule, EvaluateComplete
        <3>5. s.job[n] # "active"
            BY <1>1, <1>5, <2>3 DEF Looping, JobsRun, Eligible
        <3> HIDE DEF x
        <3>6. Looping(x, runs)
            BY <1>1, <2>1, <2>3, <3>3, <3>4, <3>5, CompleteLoops DEF x
        <3> QED BY <3>1, <3>6 DEF r
    <2> QED BY <2>2, <2>3
<1>6. CASE n \in Tasks /\ Eligible(s, n) /\ r.tree = Submit(s, n, ch.failing)
    <2> HIDE DEF r, s
    <2>1. PICK x, v : /\ SameLoops(x, s) /\ r.tree = SetState(x, n, v)
                      /\ \/ v = "ABORTED" /\ x.job = [s.job EXCEPT ![n] = "none"]
                         \/ v = "SUBMITTED" /\ x.job = [s.job EXCEPT ![n] = "submitted"]
        BY <1>1, <1>6, SubmitIs DEF Submits
    <2>2. x \in GoodTrees /\ x.st = s.st /\ x.rep = s.rep /\ s.job \in [Nodes -> Jobs]
        BY <1>1, <2>1, SameStatesGood DEF SameLoops, Trees, Jobs
    <2>3. Known(x) /\ Done(x) = Done(s) /\ n \notin Done(x)
        BY <1>1, <1>6, <2>2 DEF Known, Done, Looping, Eligible
    <2>4. v \in States \ {"UNKNOWN", "COMPLETE"}
        BY <2>1 DEF States
    <2>5. \E G : Sound(Done(x), x.rep, G, {}) /\ Counts(runs, G)
        BY <1>1, <2>2, <2>3 DEF Looping
    <2>6. \A u \in Tasks : x.job[u] = "active" => (IF u = n THEN v ELSE x.st[u]) = "ACTIVE"
        <3> SUFFICES ASSUME NEW u \in Tasks, x.job[u] = "active" PROVE u # n /\ x.st[u] = "ACTIVE"
            OBVIOUS
        <3>1. u \in Nodes
            BY KidsFacts
        <3>2. u # n /\ s.job[u] = "active"
            BY <2>1, <2>2, <3>1
        <3> QED BY <1>1, <2>2, <3>2 DEF Looping, JobsRun
    <2> DEFINE y == SetState(x, n, v)
    <2>7. y = SetState(x, n, v)
        OBVIOUS
    <2> HIDE DEF y
    <2>8. Looping(y, runs)
        BY <1>6, <2>2, <2>3, <2>4, <2>5, <2>6, <2>7, SetStateLoops
    <2> QED BY <2>1, <2>7, <2>8 DEF r
<1>7. \/ r.tree = s
      \/ /\ EvaluateComplete(s, n) /\ s.st[n] # "COMPLETE" /\ (n \in Tasks => Eligible(s, n))
         /\ r.tree = SetStateHierarchically(s, n, "COMPLETE", FALSE)
      \/ n \in Tasks /\ Eligible(s, n) /\ r.tree = Submit(s, n, ch.failing)
    <2> HIDE DEF r
    <2>1. CASE r = w
        BY <2>1
    <2>2. CASE /\ EvaluateComplete(s, n) /\ s.st[n] # "COMPLETE" /\ (n \in Tasks => Eligible(s, n))
               /\ r = [w EXCEPT !.tree = SetStateHierarchically(s, n, "COMPLETE", FALSE),
                                !.lost = @ \cup {t \in Tasks \cap Below[n] : s.st[t] \in Running}]
        <3> DEFINE x == SetStateHierarchically(s, n, "COMPLETE", FALSE)
                   L == {t \in Tasks \cap Below[n] : s.st[t] \in Running}
        <3>1. r = [w EXCEPT !.tree = x, !.lost = @ \cup L]
            BY <2>2
        <3> HIDE DEF x, L
        <3>2. r.tree = x
            BY <3>1 DEF Visits
        <3> QED BY <2>2, <3>2, Zenon DEF x
    <2>3. CASE /\ n \in Tasks /\ Eligible(s, n)
               /\ r = [w EXCEPT !.tree = Submit(s, n, ch.failing),
                                !.bypass = IF Held(s, n) THEN @ \cup {n} ELSE @]
        <3> DEFINE x == Submit(s, n, ch.failing)
                   B == IF Held(s, n) THEN w.bypass \cup {n} ELSE w.bypass
        <3>1. r = [w EXCEPT !.tree = x, !.bypass = B]
            BY <2>3
        <3> HIDE DEF x, B
        <3>2. r.tree = x
            BY <3>1 DEF Visits
        <3> QED BY <2>3, <3>2, Zenon DEF x
    <2>4. CASE r = [w EXCEPT !.entered = @ \cup {n}]
        BY <2>4 DEF Visits
    <2> QED BY <1>2, <2>1, <2>2, <2>3, <2>4 DEF Resolved
<1> QED BY <1>4, <1>5, <1>6, <1>7, Zenon

LEMMA VisitLoops ==
    ASSUME NoneStartsComplete,
           NEW s \in GoodTrees, NEW ch, NEW runs \in [Tasks -> Nat], Looping(s, runs)
    PROVE  Looping(Visit(s, ch).tree, runs)
<1> DEFINE V == {w \in Visits : Looping(w.tree, runs)}
           w0 == [tree |-> s, entered |-> {}, bypass |-> {}, lost |-> {}]
<1>1. w0 \in V
    <2>1. w0 \in Visits /\ w0.tree = s
        BY DEF Visits
    <2> QED BY <2>1
<1>2. ASSUME NEW w \in V, NEW n \in Nodes PROVE ResolveDependencies(w, n, ch) \in V
    BY VisitsStep, ResolveLoops
<1> HIDE DEF V
<1>3. Visit(s, ch) \in V
    BY <1>1, <1>2, VisitIn
<1> QED BY <1>3 DEF V

\* Suspensions and freed triggers are no part of the loops.
LEMMA HoldsLoop ==
    ASSUME NEW s \in Trees, NEW runs, Looping(s, runs), NEW N \in SUBSET Nodes, NEW r,
           r \in {[s EXCEPT !.susp = N], [s EXCEPT !.free = N]}
    PROVE  Looping(r, runs)
<1>1. r \in Trees /\ r.st = s.st /\ r.rep = s.rep /\ r.job = s.job
    BY DEF Trees
<1>2. Done(r) = Done(s) /\ Known(r) /\ JobsRun(r)
    BY <1>1 DEF Done, Known, JobsRun, Looping
<1> QED BY <1>1, <1>2 DEF Looping

\* What a user changed stays on record.
LEMMA MeddledStays ==
    ASSUME NEW s, NEW h \in Hists, h.meddled, ThenTraverse(s, h)
    PROVE  hist'.meddled
<1>1. CASE Generate(s, h, Whole)
    <2>1. PICK b, l : hist' = [h EXCEPT !.bypass = b, !.lost = l]
        BY <1>1 DEF Generate
    <2> QED BY <2>1 DEF Hists
<1>2. CASE hist' = h
    BY <1>2
<1> QED BY <1>1, <1>2 DEF ThenTraverse

\* The loop invariant.
Loops == GoodState /\ (~hist.meddled => Looping(tree, hist.runs))

LEMMA LoopsStart ==
    ASSUME NoneStartsComplete, Init
    PROVE  Looping(tree, hist.runs)
<1> DEFINE q == Requeue(Unbegun, Suite, TRUE, -1)
<1>1. Unbegun \in Trees
    BY DEF Unbegun, Trees, States
<1>2. Suite \in Nodes /\ Below[Suite] = Nodes /\ Tasks \subseteq Nodes
    BY TreeType, BelowFacts, KidsFacts
<1>3. QueuedAnew(q, Unbegun, Suite, 0)
    BY <1>1, <1>2, RequeueIs
<1>4. tree = q /\ hist.runs = [t \in Tasks |-> 0]
    BY DEF Init
<1> HIDE DEF q
<1>5. q \in Trees /\ Wait(q, Suite) /\ \A m \in Nodes : q.job[m] = "none" /\ q.rep[m] = 0
    BY <1>2, <1>3 DEF QueuedAnew
<1>6. \A m \in Nodes : q.st[m] \notin {"COMPLETE", "UNKNOWN"}
    BY <1>2, <1>5 DEF Wait, NoneStartsComplete
<1>7. Done(q) = {} /\ Known(q) /\ JobsRun(q)
    BY <1>2, <1>5, <1>6 DEF Done, Known, JobsRun
<1> DEFINE rep == q.rep
           G == [n \in Nodes |-> 0]
<1>8. rep = [n \in Nodes |-> 0]
    BY <1>5 DEF Trees
<1> HIDE DEF rep
<1>9. Sound({}, rep, G, {})
    BY <1>8, StartIsSound
<1>10. Counts(hist.runs, G)
    BY <1>2, <1>4 DEF Counts
<1> HIDE DEF G
<1>11. Sound(Done(q), q.rep, G, {})
    BY <1>7, <1>9 DEF rep
<1> QED BY <1>4, <1>5, <1>7, <1>10, <1>11 DEF Looping

LEMMA ChildLoops ==
    ASSUME NoneStartsComplete, GoodState, ~hist.meddled, Looping(tree, hist.runs), NEW t \in Tasks, Child(t)
    PROVE  Looping(tree', hist.runs')
<1>1. /\ t \in Nodes /\ Tasks \subseteq Nodes /\ tree \in Trees /\ tree \in GoodTrees
      /\ hist \in Hists /\ hist.runs \in [Tasks -> Nat] /\ tree.job \in [Nodes -> Jobs]
    BY KidsFacts DEF GoodState, GoodTrees, Hists, Trees, Jobs
<1>2. Known(tree) /\ JobsRun(tree) /\ \E G : Sound(Done(tree), tree.rep, G, {}) /\ Counts(hist.runs, G)
    BY DEF Looping
<1>3. Quiet(hist) \in Hists /\ Quiet(hist).runs = hist.runs
    BY <1>1, HistsAre
<1>4. ASSUME NEW j \in {"none", "active"}, NEW x, SameLoops(x, tree), x.job = [tree.job EXCEPT ![t] = j],
             t \notin Done(tree),
             NEW v \in {"ABORTED", "ACTIVE"}, j = "active" => v = "ACTIVE",
             NEW r, r = SetState(x, t, v)
      PROVE  Looping(r, hist.runs)
    <2>1. SameLoops(x, tree) /\ x.job = [tree.job EXCEPT ![t] = j]
        BY <1>4
    <2>2. x \in GoodTrees /\ x.st = tree.st /\ x.rep = tree.rep
        BY <1>1, <2>1, SameStatesGood DEF SameLoops
    <2>3. Known(x) /\ Done(x) = Done(tree) /\ t \notin Done(x)
        BY <1>2, <1>4, <2>2 DEF Known, Done
    <2>4. \E G : Sound(Done(x), x.rep, G, {}) /\ Counts(hist.runs, G)
        BY <1>2, <2>2, <2>3
    <2>5. \A u \in Tasks : x.job[u] = "active" => (IF u = t THEN v ELSE x.st[u]) = "ACTIVE"
        <3> SUFFICES ASSUME NEW u \in Tasks, x.job[u] = "active"
                     PROVE  (IF u = t THEN v ELSE x.st[u]) = "ACTIVE"
            OBVIOUS
        <3>1. x.job[u] = IF u = t THEN j ELSE tree.job[u]
            BY <1>1, <2>1
        <3> QED BY <1>2, <1>4, <2>2, <3>1 DEF JobsRun
    <2>6. v \in States \ {"UNKNOWN", "COMPLETE"}
        BY <1>4 DEF States
    <2> QED BY <1>4, <2>2, <2>3, <2>4, <2>5, <2>6, SetStateLoops
<1>5. CASE ChildInit(t)
    <2>1. tree' = SetState([tree EXCEPT !.job[t] = "active"], t, "ACTIVE") /\ hist' = Quiet(hist)
        BY <1>5 DEF ChildInit
    <2>2. t \notin Done(tree)
        BY <1>5 DEF ChildInit, Done
    <2> DEFINE x == [tree EXCEPT !.job[t] = "active"]
               r == SetState(x, t, "ACTIVE")
    <2>3. Looping(r, hist.runs)
        <3>1. SameLoops(x, tree) /\ x.job = [tree.job EXCEPT ![t] = "active"]
            BY <1>1, JobIs
        <3> HIDE DEF x
        <3>2. r = SetState(x, t, "ACTIVE")
            OBVIOUS
        <3> HIDE DEF r
        <3> QED BY <1>4, <2>2, <3>1, <3>2
    <2> QED BY <1>3, <2>1, <2>3
<1>6. CASE ChildAbort(t)
    <2>1. tree' = SetState([tree EXCEPT !.job[t] = "none"], t, "ABORTED") /\ hist' = Quiet(hist)
        BY <1>6 DEF ChildAbort
    <2>2. t \notin Done(tree)
        BY <1>6 DEF ChildAbort, Done
    <2> DEFINE x == [tree EXCEPT !.job[t] = "none"]
               r == SetState(x, t, "ABORTED")
    <2>3. Looping(r, hist.runs)
        <3>1. SameLoops(x, tree) /\ x.job = [tree.job EXCEPT ![t] = "none"]
            BY <1>1, JobIs
        <3> HIDE DEF x
        <3>2. r = SetState(x, t, "ABORTED")
            OBVIOUS
        <3> HIDE DEF r
        <3> QED BY <1>4, <2>2, <3>1, <3>2
    <2> QED BY <1>3, <2>1, <2>3
<1>7. CASE ChildComplete(t)
    <2> DEFINE x == SetState(tree, t, "COMPLETE")
               runs == [hist.runs EXCEPT ![t] = @ + 1]
    <2>1. /\ tree.job[t] = "active" /\ tree' = [x EXCEPT !.job[t] = "none"]
          /\ hist' = [Quiet(hist) EXCEPT !.runs[t] = IF hist.meddled THEN @ ELSE @ + 1]
        BY <1>7 DEF ChildComplete
    <2>2. hist.runs' = runs
        BY <1>1, <1>3, <2>1 DEF Hists
    <2>3. runs \in [Tasks -> Nat] /\ runs[t] = hist.runs[t] + 1 /\ \A u \in Tasks \ {t} : runs[u] = hist.runs[u]
        BY <1>1
    <2>4. t \notin Done(tree)
        BY <1>2, <2>1 DEF JobsRun, Done
    <2>5. x \in Trees
        <3>1. "COMPLETE" \in States
            BY DEF States
        <3> QED BY <1>1, <3>1, SetStateGood DEF GoodTrees
    <2>6. x = SetState(tree, t, "COMPLETE")
        OBVIOUS
    <2> HIDE DEF x, runs
    <2>7. SameLoops(tree', x) /\ tree'.job = [x.job EXCEPT ![t] = "none"]
        BY <1>1, <2>1, <2>5, JobIs
    <2>8. tree'.job[t] = "none" /\ \A u \in Tasks : tree'.job[u] = x.job[u] \/ tree'.job[u] = "none"
        BY <1>1, <2>5, <2>7 DEF Trees
    <2> DEFINE old == hist.runs
               r == tree'
    <2>9. Looping(r, runs)
        <3>1. /\ old \in [Tasks -> Nat] /\ Looping(tree, old) /\ SameLoops(r, x)
              /\ r.job[t] = "none" /\ \A u \in Tasks : r.job[u] = x.job[u] \/ r.job[u] = "none"
              /\ runs[t] = old[t] + 1 /\ \A u \in Tasks \ {t} : runs[u] = old[u]
            BY <1>1, <2>3, <2>7, <2>8
        <3> HIDE DEF old, r
        <3> QED BY <1>1, <2>3, <2>4, <2>6, <3>1, CompleteLoops
    <2> QED BY <2>2, <2>9
<1> QED BY <1>5, <1>6, <1>7 DEF Child

LEMMA TraversalLoops ==
    ASSUME NoneStartsComplete, GoodState, NEW s \in GoodTrees, Looping(s, hist.runs), NEW ch,
           Generate(s, Quiet(hist), ch)
    PROVE  Looping(tree', hist.runs')
<1>1. hist \in Hists /\ fails \in Nat /\ hist.runs \in [Tasks -> Nat]
    BY DEF GoodState, Hists
<1>2. Quiet(hist) \in Hists /\ Quiet(hist).runs = hist.runs
    BY <1>1, HistsAre
<1>3. tree' = Visit(s, ch).tree /\ hist.runs' = hist.runs
    BY <1>1, <1>2, GenerateGood DEF Recorded
<1> DEFINE runs == hist.runs
<1>4. Looping(Visit(s, ch).tree, runs)
    <2>1. runs \in [Tasks -> Nat] /\ Looping(s, runs)
        BY <1>1
    <2> HIDE DEF runs
    <2> QED BY <2>1, VisitLoops
<1> QED BY <1>3, <1>4

LEMMA CommandLoops ==
    ASSUME NoneStartsComplete, GoodState, ~hist.meddled, Looping(tree, hist.runs), NEW n \in Nodes, Command(n)
    PROVE  ~hist'.meddled => Looping(tree', hist.runs')
<1>1. tree \in Trees /\ tree \in GoodTrees /\ hist \in Hists /\ hist.runs \in [Tasks -> Nat]
    BY DEF GoodState, GoodTrees, Hists
<1>2. /\ Quiet(hist) \in Hists /\ Meddled \in Hists /\ Quiet(hist).runs = hist.runs /\ Meddled.meddled = TRUE
    BY <1>1, HistsAre
<1>3. tree.susp \in SUBSET Nodes /\ tree.free \in SUBSET Nodes
    BY <1>1 DEF Trees
<1>4. CASE Suspend(n)
    <2> DEFINE N == tree.susp \cup {n}
    <2>1. N \in SUBSET Nodes /\ tree' = [tree EXCEPT !.susp = N] /\ hist.runs' = hist.runs
        BY <1>2, <1>3, <1>4 DEF Suspend
    <2> HIDE DEF N
    <2> QED BY <1>1, <2>1, HoldsLoop
<1>5. CASE Resume(n)
    <2> DEFINE N == tree.susp \ {n}
    <2>1. N \in SUBSET Nodes /\ tree' = [tree EXCEPT !.susp = N] /\ hist.runs' = hist.runs
        BY <1>2, <1>3, <1>5 DEF Resume
    <2> HIDE DEF N
    <2> QED BY <1>1, <2>1, HoldsLoop
<1>6. CASE FreeDep(n)
    <2> DEFINE N == tree.free \cup {n}
               x == [tree EXCEPT !.free = N]
    <2>1. N \in SUBSET Nodes /\ ThenTraverse(x, Quiet(hist))
        BY <1>3, <1>6 DEF FreeDep
    <2> HIDE DEF N
    <2>2. x \in GoodTrees /\ Looping(x, hist.runs)
        BY <1>1, <2>1, HoldsGood, HoldsLoop
    <2> HIDE DEF x
    <2>3. CASE Generate(x, Quiet(hist), Whole)
        BY <2>2, <2>3, TraversalLoops
    <2>4. CASE tree' = x /\ hist' = Quiet(hist)
        BY <1>2, <2>2, <2>4
    <2> QED BY <2>1, <2>3, <2>4 DEF ThenTraverse
<1>7. CASE \E s : ThenTraverse(s, Meddled)
    BY <1>2, <1>7, MeddledStays
<1>8. RequeueAborted(n) => \E s : ThenTraverse(s, Meddled)
    BY Zenon DEF RequeueAborted
<1>9. ASSUME NEW v, ForceCmd(n, v) PROVE \E s : ThenTraverse(s, Meddled)
    BY <1>9, Zenon DEF ForceCmd
<1> QED BY <1>4, <1>5, <1>6, <1>7, <1>8, <1>9 DEF Command

LEMMA LoopsInductive ==
    ASSUME NoneStartsComplete
    PROVE  Spec => []Loops
<1>1. ASSUME Init PROVE ~hist.meddled => Looping(tree, hist.runs)
    BY <1>1, LoopsStart
<1>2. ASSUME Loops, GoodState', [Next]_vars PROVE Loops'
    <2> SUFFICES ASSUME ~hist'.meddled PROVE Looping(tree', hist.runs')
        BY <1>2 DEF Loops
    <2>1. GoodState /\ tree \in GoodTrees /\ hist \in Hists
        BY <1>2 DEF Loops, GoodState
    <2>2. CASE hist.meddled
        <3>1. Quiet(hist) \in Hists /\ Meddled \in Hists /\ Quiet(hist).meddled /\ Meddled.meddled
            BY <2>1, <2>2, HistsAre
        <3>2. ASSUME NEW s, NEW ch, NEW h \in Hists, h.meddled, Generate(s, h, ch) PROVE FALSE
            <4>1. PICK b, l : hist' = [h EXCEPT !.bypass = b, !.lost = l]
                BY <3>2 DEF Generate
            <4> QED BY <3>2, <4>1 DEF Hists
        <3>3. ~Traverse /\ ~TraverseBadly
            BY <3>1, <3>2 DEF Traverse, TraverseBadly
        <3>4. ASSUME NEW t \in Tasks, Child(t) PROVE FALSE
            <4>1. CASE hist' = Quiet(hist)
                BY <3>1, <4>1
            <4>2. CASE \E f : hist' = [Quiet(hist) EXCEPT !.runs = f]
                BY <3>1, <4>2 DEF Hists
            <4>3. ChildComplete(t) => \E f : hist' = [Quiet(hist) EXCEPT !.runs = f]
                BY <3>1 DEF ChildComplete, Hists
            <4> QED BY <3>4, <4>1, <4>2, <4>3 DEF Child, ChildInit, ChildAbort
        <3>5. ASSUME NEW n \in Nodes, Command(n) PROVE FALSE
            <4>1. ~(\E s : ThenTraverse(s, Meddled)) /\ ~(\E s : ThenTraverse(s, Quiet(hist))) /\ hist' # Quiet(hist)
                BY <3>1, MeddledStays
            <4>2. ~RequeueAborted(n)
                BY <4>1, Zenon DEF RequeueAborted
            <4>3. \A v : ~ForceCmd(n, v)
                BY <4>1, Zenon DEF ForceCmd
            <4>4. ~Suspend(n) /\ ~Resume(n) /\ ~FreeDep(n)
                BY <4>1, Zenon DEF Suspend, Resume, FreeDep
            <4> QED BY <3>5, <4>2, <4>3, <4>4 DEF Command
        <3>6. ASSUME NEW paths \in Paths, NEW force \in BOOLEAN, RequeueCmd(paths, force) PROVE FALSE
            BY <2>1, <3>6, RequeueCmdGood
        <3>7. CASE UNCHANGED vars
            BY <2>2, <3>7 DEF vars
        <3> QED BY <1>2, <3>3, <3>4, <3>5, <3>6, <3>7 DEF Next
    <2>3. CASE ~hist.meddled
        <3>0. Looping(tree, hist.runs)
            BY <1>2, <2>3 DEF Loops
        <3>1. CASE Traverse
            BY <2>1, <3>0, <3>1, TraversalLoops DEF Traverse
        <3>2. CASE TraverseBadly
            BY <2>1, <3>0, <3>2, TraversalLoops DEF TraverseBadly
        <3>3. ASSUME NEW t \in Tasks, Child(t) PROVE Looping(tree', hist.runs')
            BY <2>1, <2>3, <3>0, <3>3, ChildLoops
        <3>4. ASSUME NEW n \in Nodes, Command(n) PROVE Looping(tree', hist.runs')
            BY <2>1, <2>3, <3>0, <3>4, CommandLoops
        <3>5. ASSUME NEW paths \in Paths, NEW force \in BOOLEAN, RequeueCmd(paths, force) PROVE FALSE
            BY <2>1, <3>5, RequeueCmdGood
        <3>6. CASE UNCHANGED vars
            BY <3>0, <3>6 DEF vars
        <3> QED BY <1>2, <3>1, <3>2, <3>3, <3>4, <3>5, <3>6 DEF Next
    <2> QED BY <2>2, <2>3
<1>3. GoodState /\ (~hist.meddled => Looping(tree, hist.runs)) => Loops
    BY DEF Loops
<1> QED BY <1>1, <1>2, <1>3, GoodStateInductive, PTL DEF Spec

\* Nested repeats are nested loops: in every tree of nodes, with any repeats,
\* triggers and complete expressions, a suite that no user re-queued or forced
\* is complete only when each task has completed once in each iteration of every
\* repeat above it; a complete expression may skip completions and never adds
\* one.  A defstatus of complete, which skips a task by design, is excluded.
\* (Node::requeueOrSetMostSignificantStateUpNodeTree and the repeats it
\* increments and resets.)
THEOREM LoopsAlwaysNest ==
    ASSUME NoneStartsComplete
    PROVE  Spec => []EveryIterationRuns
<1>1. ASSUME Loops PROVE EveryIterationRuns
    <2> SUFFICES ASSUME ~hist.meddled, tree.st[Suite] = "COMPLETE", NEW t \in Tasks
                 PROVE  hist.runs[t] <= Iterations[t] /\ (~ByRule(t) => hist.runs[t] = Iterations[t])
        BY DEF EveryIterationRuns
    <2>1. PICK G : Sound(Done(tree), tree.rep, G, {}) /\ Counts(hist.runs, G)
        BY <1>1 DEF Loops, Looping
    <2>2. Suite \in Done(tree) /\ t \in Nodes
        BY TreeType, KidsFacts DEF Done
    <2> DEFINE D == Done(tree)
               rep == tree.rep
    <2>3. G[t] <= Iterations[t] /\ (~ByRule(t) => G[t] = Iterations[t])
        <3>1. Sound(D, rep, G, {}) /\ Suite \in D
            BY <2>1, <2>2
        <3> HIDE DEF D, rep
        <3> QED BY <2>2, <3>1, AllIterations
    <2>4. hist.runs[t] <= G[t] /\ (~ByRule(t) => hist.runs[t] = G[t])
        BY <2>1 DEF Counts
    <2>5. hist.runs[t] \in Nat /\ G[t] \in Nat /\ Iterations[t] \in Nat
        BY <1>1, <2>1, <2>2, IterationsIs DEF Loops, GoodState, Hists, Sound
    <2> QED BY <2>3, <2>4, <2>5
<1> QED BY <1>1, LoopsInductive, PTL

===========================================================================
